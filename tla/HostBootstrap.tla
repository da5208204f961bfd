---------------------------- MODULE HostBootstrap ----------------------------
(***************************************************************************)
(* How processes that need the app-server find the host that owns it, or   *)
(* start one: ensureHostRunning with the bootstrap lock, the signed host   *)
(* descriptor, the recovery of what a dead host left behind, and the host  *)
(* process itself from its launch to its end.                              *)
(*                                                                         *)
(* A call is one run of ensureHostRunning.  It launches at most one host,  *)
(* so the host it launches, the nonce of that host, the call's lock record *)
(* and its nonce are all named by the number of the call.  Calls are       *)
(* numbered in the order in which they begin.                              *)
(***************************************************************************)
EXTENDS Naturals, FiniteSets

CONSTANTS
    NumCalls,   \* how many calls are made
    MaxDeaths   \* how many processes may die

ASSUME BootstrapAssumption == NumCalls \in Nat /\ MaxDeaths \in Nat

Calls == 1 .. NumCalls
Nobody == 0
Refs == 0 .. NumCalls

VARIABLES
    pc,          \* where a call is in ensureHostRunning
    seen,        \* the descriptor a call has read and still works with
    owner,       \* the nonce that a waiting call read from a stale lock
    due,         \* the calls begun when the own host was launched
    begun,       \* the calls begun so far
    aged,        \* the calls begun longer ago than the startup timeout
    lock,        \* the lock file: the call that created it, or Nobody
    blank,       \* the lock file exists, and its record is not written yet
    descriptor,  \* the descriptor file: the host it names, or Nobody
    taken,       \* the descriptor a call renamed in order to remove it
    shed,        \* the descriptor a host renamed in order to remove it
    host,        \* the life of the host that a call launched
    server,      \* the app-server of that host is running
    deaths,      \* the processes that died so far
    mishaps      \* history: what happened that exclusion does not survive

callVars == <<pc, seen, owner, due, begun>>
lockVars == <<lock, blank>>
fileVars == <<descriptor, taken, shed>>
hostVars == <<host, server>>
vars == <<callVars, aged, lockVars, fileVars, hostVars, deaths, mishaps>>

Waiting == {"acquire", "validate", "compare", "remove"}
Holding == {"record", "recheck", "recover", "evict", "unpublish", "settle",
            "launch", "await", "release", "unlock"}
Ended == {"done", "failed", "dead"}
Places == {"idle", "probe"} \cup Waiting \cup Holding \cup Ended
HostPhases == {"none", "launched", "starting", "failing", "ready", "stopping",
               "closing", "settling", "gone"}
Mishaps == {"lock removed", "start abandoned", "orphan unrecorded"}

(***************************************************************************)
(* process.kill(supervisorPid, 0): process ids are not used again.         *)
(***************************************************************************)
ProcessAlive(h) == host[h] \notin {"none", "gone"}

(***************************************************************************)
(* A host passes the probe while its control server reports ready and its  *)
(* app-server accepts a connection.                                        *)
(***************************************************************************)
Healthy(h) == host[h] = "ready" /\ server[h]

(***************************************************************************)
(* The lock record and the deadline of a waiting call both count from the  *)
(* beginning of the call, and both limits are the startup timeout: a call  *)
(* whose record is stale is a call that may no longer wait.                *)
(***************************************************************************)
Stale(c) == c <= aged

\* Mutant of RetryOrGiveUp: the elapsed time is not looked at.
RetryForEver(c) == "acquire"

RetryOrGiveUp(c) == IF Stale(c) THEN "done" ELSE "acquire"

(***************************************************************************)
(* The four probes of a call, and where it goes on after each of them.     *)
(***************************************************************************)
Probing == {"probe", "validate", "recheck", "await"}
AfterHealthy(c) == [probe |-> "done", validate |-> RetryOrGiveUp(c),
                    recheck |-> "release", await |-> "release"]
AfterNull == [probe |-> "acquire", validate |-> "compare",
              recheck |-> "recover", await |-> "await"]

Init ==
    /\ pc = [c \in Calls |-> "idle"]
    /\ seen = [c \in Calls |-> Nobody]
    /\ owner = [c \in Calls |-> Nobody]
    /\ due = [c \in Calls |-> 0]
    /\ begun = 0
    /\ aged = 0
    /\ lock = Nobody
    /\ blank = FALSE
    /\ descriptor = Nobody
    /\ taken = [c \in Calls |-> Nobody]
    /\ shed = [c \in Calls |-> Nobody]
    /\ host = [c \in Calls |-> "none"]
    /\ server = [c \in Calls |-> FALSE]
    /\ deaths = 0
    /\ mishaps = {}

GoTo(c, place) == pc' = [pc EXCEPT ![c] = place]

-----------------------------------------------------------------------------
(***************************************************************************)
(* Probing a host: read the descriptor, then ask the host it names.        *)
(***************************************************************************)

Begin(c) ==
    /\ pc[c] = "idle" /\ c = begun + 1
    /\ begun' = c
    /\ GoTo(c, "probe")
    /\ UNCHANGED <<seen, owner, due, aged, lockVars, fileVars, hostVars, deaths,
                   mishaps>>

(***************************************************************************)
(* The wait for the own host polls until its deadline, which passes after  *)
(* the calls begun before the launch have aged and before any later one.   *)
(***************************************************************************)
ReadDescriptor(c) ==
    /\ pc[c] \in Probing /\ seen[c] = Nobody
    /\ pc[c] = "await" => aged <= due[c]
    /\ descriptor # Nobody
    /\ seen' = [seen EXCEPT ![c] = descriptor]
    /\ UNCHANGED <<pc, owner, due, begun, aged, lockVars, fileVars, hostVars, deaths,
                   mishaps>>

NoDescriptor(c) ==
    /\ pc[c] \in Probing \ {"await"} /\ seen[c] = Nobody
    /\ descriptor = Nobody
    /\ GoTo(c, AfterNull[pc[c]])
    /\ UNCHANGED <<seen, owner, due, begun, aged, lockVars, fileVars, hostVars, deaths,
                   mishaps>>

AskHost(c) ==
    /\ pc[c] \in Probing /\ seen[c] # Nobody
    /\ seen' = [seen EXCEPT ![c] = Nobody]
    /\ GoTo(c, IF Healthy(seen[c]) THEN AfterHealthy(c)[pc[c]]
                                   ELSE AfterNull[pc[c]])
    /\ UNCHANGED <<owner, due, begun, aged, lockVars, fileVars, hostVars, deaths,
                   mishaps>>

-----------------------------------------------------------------------------
(***************************************************************************)
(* The bootstrap lock.                                                     *)
(***************************************************************************)

\* Mutant of CreateLock: the file is opened without the exclusive flag.
CreateAnyLock(c) ==
    /\ pc[c] = "acquire"
    /\ lock' = c
    /\ blank' = TRUE
    /\ GoTo(c, "record")
    /\ UNCHANGED <<seen, owner, due, begun, aged, fileVars, hostVars, deaths, mishaps>>

CreateLock(c) ==
    /\ pc[c] = "acquire"
    /\ lock = Nobody
    /\ lock' = c
    /\ blank' = TRUE
    /\ GoTo(c, "record")
    /\ UNCHANGED <<seen, owner, due, begun, aged, fileVars, hostVars, deaths, mishaps>>

(***************************************************************************)
(* The record goes to the file that was created, also when another call    *)
(* has unlinked it in the meantime.                                        *)
(***************************************************************************)
WriteRecord(c) ==
    /\ pc[c] = "record"
    /\ blank' = (blank /\ lock # c)
    /\ GoTo(c, "recheck")
    /\ UNCHANGED <<seen, owner, due, begun, aged, lock, fileVars, hostVars, deaths,
                   mishaps>>

(***************************************************************************)
(* The file system refuses an operation on the lock file, and the call     *)
(* ends at once with the error.  No release follows: a file that was       *)
(* created stays, without a record when writing the record failed (or with *)
(* one that cannot be parsed), with it when syncing did.                   *)
(***************************************************************************)
LockFileFails(c) ==
    /\ pc[c] \in {"acquire", "record", "compare", "remove", "release", "unlock"}
    /\ blank' \in {blank, blank /\ ~(pc[c] = "record" /\ lock = c)}
    /\ owner' = [owner EXCEPT ![c] = Nobody]
    /\ GoTo(c, "failed")
    /\ UNCHANGED <<seen, due, begun, aged, lock, fileVars, hostVars, deaths, mishaps>>

(***************************************************************************)
(* The file exists already: readOwner.  A file without a record is never   *)
(* stale.                                                                  *)
(***************************************************************************)
InspectLock(c) ==
    /\ pc[c] = "acquire"
    /\ lock # Nobody
    /\ IF ~blank /\ Stale(lock)
       THEN /\ owner' = [owner EXCEPT ![c] = lock]
            /\ GoTo(c, "validate")
       ELSE /\ GoTo(c, RetryOrGiveUp(c))
            /\ UNCHANGED owner
    /\ UNCHANGED <<seen, due, begun, aged, lockVars, fileVars, hostVars, deaths,
                   mishaps>>

(***************************************************************************)
(* removeIfNonceMatches of a stale lock: a read, and then an unlink of     *)
(* whatever file has the name by then.                                     *)
(***************************************************************************)
CompareNonce(c) ==
    /\ pc[c] = "compare"
    /\ GoTo(c, IF lock = owner[c] THEN "remove" ELSE RetryOrGiveUp(c))
    /\ owner' = [owner EXCEPT ![c] = Nobody]
    /\ UNCHANGED <<seen, due, begun, aged, lockVars, fileVars, hostVars, deaths,
                   mishaps>>

RemoveStaleLock(c) ==
    /\ pc[c] = "remove"
    /\ GoTo(c, IF lock = Nobody THEN RetryOrGiveUp(c) ELSE "acquire")
    /\ mishaps' = IF lock = Nobody THEN mishaps ELSE mishaps \cup {"lock removed"}
    /\ lock' = Nobody
    /\ blank' = FALSE
    /\ UNCHANGED <<seen, owner, due, begun, aged, fileVars, hostVars, deaths>>

(***************************************************************************)
(* release, on every way out: the same read and unlink with the own nonce. *)
(***************************************************************************)
CompareOwnNonce(c) ==
    /\ pc[c] = "release"
    /\ GoTo(c, IF lock = c THEN "unlock" ELSE "done")
    /\ UNCHANGED <<seen, owner, due, begun, aged, lockVars, fileVars, hostVars, deaths,
                   mishaps>>

RemoveOwnLock(c) ==
    /\ pc[c] = "unlock"
    /\ lock' = Nobody
    /\ blank' = FALSE
    /\ GoTo(c, "done")
    /\ UNCHANGED <<seen, owner, due, begun, aged, fileVars, hostVars, deaths, mishaps>>

-----------------------------------------------------------------------------
(***************************************************************************)
(* Recovery under the lock: what a dead host left behind is removed, its   *)
(* app-server first and its descriptor last.                               *)
(***************************************************************************)

Stays == descriptor # Nobody /\ ProcessAlive(descriptor)

\* Mutant of ReadStaleHost: the supervisor of an unreachable host is not looked for.
ReadUnreachableHost(c) ==
    /\ pc[c] = "recover"
    /\ seen' = [seen EXCEPT ![c] = descriptor]
    /\ GoTo(c, IF descriptor = Nobody THEN "launch" ELSE "evict")
    /\ UNCHANGED <<owner, due, begun, aged, lockVars, fileVars, hostVars, deaths, mishaps>>

\* Mutant of ReadStaleHost: HOST_BUSY is thrown outside the block that releases the lock.
ReadBusyHost(c) ==
    /\ pc[c] = "recover"
    /\ seen' = [seen EXCEPT ![c] = IF Stays THEN Nobody ELSE descriptor]
    /\ GoTo(c, IF Stays THEN "done" ELSE IF descriptor = Nobody THEN "launch" ELSE "evict")
    /\ UNCHANGED <<owner, due, begun, aged, lockVars, fileVars, hostVars, deaths, mishaps>>

(***************************************************************************)
(* No descriptor: nothing to recover.  A supervisor that is still there:   *)
(* HOST_BUSY, also when its app-server is the one that died.  The read and *)
(* the look for the process are one step: if the supervisor died between   *)
(* the two, the read might as well have come later, for it stays dead.     *)
(***************************************************************************)
ReadStaleHost(c) ==
    /\ pc[c] = "recover"
    /\ seen' = [seen EXCEPT ![c] = IF Stays THEN Nobody ELSE descriptor]
    /\ GoTo(c, IF Stays THEN "release"
               ELSE IF descriptor = Nobody THEN "launch" ELSE "evict")
    /\ UNCHANGED <<owner, due, begun, aged, lockVars, fileVars, hostVars, deaths,
                   mishaps>>

\* Mutant of TerminateOrphan: only the descriptor of the dead host is removed.
LeaveOrphan(c) ==
    /\ pc[c] = "evict"
    /\ GoTo(c, "unpublish")
    /\ UNCHANGED <<seen, owner, due, begun, aged, lockVars, fileVars, hostVars, deaths,
                   mishaps>>

TerminateOrphan(c) ==
    /\ pc[c] = "evict"
    /\ server' = [server EXCEPT ![seen[c]] = FALSE]
    /\ GoTo(c, "unpublish")
    /\ UNCHANGED <<seen, owner, due, begun, aged, lockVars, fileVars, host, deaths,
                   mishaps>>

TerminationFails(c) ==
    /\ pc[c] = "evict" /\ server[seen[c]]
    /\ GoTo(c, "release")
    /\ seen' = [seen EXCEPT ![c] = Nobody]
    /\ UNCHANGED <<owner, due, begun, aged, lockVars, fileVars, hostVars, deaths,
                   mishaps>>

\* Mutant of Restored: whatever the file names is removed.
NotRestored(claimed, expected) == descriptor

(***************************************************************************)
(* removeHostDescriptorIfOwned: rename the descriptor file to a private    *)
(* name, read it there, and delete it or link it back.  The link does not  *)
(* replace a descriptor that has been published since.                     *)
(***************************************************************************)
Restored(claimed, expected) ==
    IF claimed # expected /\ descriptor = Nobody THEN claimed ELSE descriptor

ClaimStaleDescriptor(c) ==
    /\ pc[c] = "unpublish"
    /\ taken' = [taken EXCEPT ![c] = descriptor]
    /\ descriptor' = Nobody
    /\ GoTo(c, "settle")
    /\ UNCHANGED <<seen, owner, due, begun, aged, lockVars, shed, hostVars, deaths,
                   mishaps>>

SettleStaleDescriptor(c) ==
    /\ pc[c] = "settle"
    /\ descriptor' = Restored(taken[c], seen[c])
    /\ taken' = [taken EXCEPT ![c] = Nobody]
    /\ seen' = [seen EXCEPT ![c] = Nobody]
    /\ GoTo(c, "launch")
    /\ UNCHANGED <<owner, due, begun, aged, lockVars, shed, hostVars, deaths, mishaps>>

(***************************************************************************)
(* The rename fails, or what follows it: then the descriptor is linked     *)
(* back as if it were not the expected one.                                *)
(***************************************************************************)
UnpublishFails(c) ==
    /\ pc[c] = "unpublish" \/ (pc[c] = "settle" /\ taken[c] # Nobody)
    /\ descriptor' = IF descriptor = Nobody THEN taken[c] ELSE descriptor
    /\ taken' = [taken EXCEPT ![c] = Nobody]
    /\ seen' = [seen EXCEPT ![c] = Nobody]
    /\ GoTo(c, "release")
    /\ UNCHANGED <<owner, due, begun, aged, lockVars, shed, hostVars, deaths, mishaps>>

-----------------------------------------------------------------------------
(***************************************************************************)
(* Launching a host and waiting for it.                                    *)
(***************************************************************************)

Launch(c) ==
    /\ pc[c] = "launch"
    /\ host' = [host EXCEPT ![c] = "launched"]
    /\ due' = [due EXCEPT ![c] = begun]
    /\ GoTo(c, "await")
    /\ UNCHANGED <<seen, owner, begun, aged, lockVars, fileVars, server, deaths,
                   mishaps>>

LaunchFails(c) ==
    /\ pc[c] = "launch"
    /\ GoTo(c, "release")
    /\ UNCHANGED <<seen, owner, due, begun, aged, lockVars, fileVars, hostVars, deaths,
                   mishaps>>

StartTimesOut(c) ==
    /\ pc[c] = "await" /\ seen[c] = Nobody
    /\ aged >= due[c]
    /\ GoTo(c, "release")
    /\ mishaps' = IF host[c] \in {"launched", "starting", "failing"}
                  THEN mishaps \cup {"start abandoned"} ELSE mishaps
    /\ UNCHANGED <<seen, owner, due, begun, aged, lockVars, fileVars, hostVars, deaths>>

-----------------------------------------------------------------------------
(***************************************************************************)
(* The host: start the app-server, publish, serve, stop the app-server,    *)
(* take the descriptor back.                                               *)
(***************************************************************************)

MoveHost(h, from, to) ==
    /\ host[h] = from
    /\ host' = [host EXCEPT ![h] = to]

SpawnServer(h) ==
    /\ MoveHost(h, "launched", "starting")
    /\ server' = [server EXCEPT ![h] = TRUE]
    /\ UNCHANGED <<callVars, aged, lockVars, fileVars, deaths, mishaps>>

HostFails(h) ==
    /\ \/ MoveHost(h, "launched", "gone")
       \/ MoveHost(h, "starting", "gone")
    /\ server' = [server EXCEPT ![h] = FALSE]
    /\ UNCHANGED <<callVars, aged, lockVars, fileVars, deaths, mishaps>>

Publish(h) ==
    /\ server[h]
    /\ MoveHost(h, "starting", "ready")
    /\ descriptor' = h
    /\ UNCHANGED <<callVars, aged, lockVars, taken, shed, server, deaths, mishaps>>

(***************************************************************************)
(* The descriptor cannot be written: the host stops its app-server and     *)
(* takes a descriptor back as after a shutdown.                            *)
(***************************************************************************)
PublishFails(h) ==
    /\ MoveHost(h, "starting", "failing")
    /\ server' = [server EXCEPT ![h] = FALSE]
    /\ UNCHANGED <<callVars, aged, lockVars, fileVars, deaths, mishaps>>

Shutdown(h) ==
    /\ MoveHost(h, "ready", "stopping")
    /\ UNCHANGED <<callVars, aged, lockVars, fileVars, server, deaths, mishaps>>

\* Mutant of StopServer: the app-server is left to end with its parent.
LeaveServer(h) ==
    /\ MoveHost(h, "stopping", "closing")
    /\ UNCHANGED <<callVars, aged, lockVars, fileVars, server, deaths, mishaps>>

(***************************************************************************)
(* BridgeHost.stop ends with the app-server: it waits for the exit, and    *)
(* for the exit after SIGKILL, which no process survives for long.         *)
(***************************************************************************)
StopServer(h) ==
    /\ MoveHost(h, "stopping", "closing")
    /\ server' = [server EXCEPT ![h] = FALSE]
    /\ UNCHANGED <<callVars, aged, lockVars, fileVars, deaths, mishaps>>

ClaimOwnDescriptor(h) ==
    /\ MoveHost(h, "closing", "settling") \/ MoveHost(h, "failing", "settling")
    /\ shed' = [shed EXCEPT ![h] = descriptor]
    /\ descriptor' = Nobody
    /\ UNCHANGED <<callVars, aged, lockVars, taken, server, deaths, mishaps>>

SettleOwnDescriptor(h) ==
    /\ MoveHost(h, "settling", "gone")
    /\ descriptor' = Restored(shed[h], h)
    /\ shed' = [shed EXCEPT ![h] = Nobody]
    /\ UNCHANGED <<callVars, aged, lockVars, taken, server, deaths, mishaps>>

-----------------------------------------------------------------------------
(***************************************************************************)
(* Time passes and processes die.  The app-server of a dead host goes on;  *)
(* a descriptor that a dying process had renamed keeps its private name.   *)
(***************************************************************************)

Tick ==
    /\ aged < begun
    /\ aged' = aged + 1
    /\ UNCHANGED <<callVars, lockVars, fileVars, hostVars, deaths, mishaps>>

Die ==
    /\ deaths < MaxDeaths
    /\ deaths' = deaths + 1

CallDies(c) ==
    /\ pc[c] \notin {"idle"} \cup Ended
    /\ Die
    /\ GoTo(c, "dead")
    /\ seen' = [seen EXCEPT ![c] = Nobody]
    /\ owner' = [owner EXCEPT ![c] = Nobody]
    /\ UNCHANGED <<due, begun, aged, lockVars, fileVars, hostVars, mishaps>>

HostDies(h) ==
    /\ ProcessAlive(h)
    /\ Die
    /\ host' = [host EXCEPT ![h] = "gone"]
    /\ mishaps' = IF host[h] = "starting" /\ server[h]
                  THEN mishaps \cup {"orphan unrecorded"} ELSE mishaps
    /\ UNCHANGED <<callVars, aged, lockVars, fileVars, server>>

ServerDies(h) ==
    /\ server[h]
    /\ Die
    /\ server' = [server EXCEPT ![h] = FALSE]
    /\ UNCHANGED <<callVars, aged, lockVars, fileVars, host, mishaps>>

-----------------------------------------------------------------------------

Inspecting(c) ==
    \/ ReadDescriptor(c) \/ NoDescriptor(c) \/ AskHost(c)
    \/ CreateLock(c) \/ WriteRecord(c) \/ InspectLock(c)
    \/ CompareNonce(c) \/ RemoveStaleLock(c)

Starting(c) ==
    \/ ReadStaleHost(c) \/ TerminateOrphan(c) \/ TerminationFails(c)
    \/ ClaimStaleDescriptor(c) \/ SettleStaleDescriptor(c) \/ UnpublishFails(c)
    \/ Launch(c) \/ LaunchFails(c) \/ StartTimesOut(c)
    \/ CompareOwnNonce(c) \/ RemoveOwnLock(c)

HostStep(h) ==
    \/ SpawnServer(h) \/ HostFails(h) \/ Publish(h) \/ PublishFails(h)
    \/ Shutdown(h) \/ StopServer(h) \/ ClaimOwnDescriptor(h) \/ SettleOwnDescriptor(h)

Death(x) == CallDies(x) \/ HostDies(x) \/ ServerDies(x)

Next ==
    \/ Tick
    \/ \E c \in Calls :
          \/ Begin(c) \/ Inspecting(c) \/ Starting(c) \/ LockFileFails(c)
          \/ HostStep(c) \/ Death(c)

Spec == Init /\ [][Next]_vars

(***************************************************************************)
(* Time passes, and a call that has begun takes its steps: every request   *)
(* it awaits has a timeout.  A poll of the own host may begin again and    *)
(* again before the deadline, which ends it nevertheless.                  *)
(***************************************************************************)
FairSpec ==
    /\ Spec
    /\ WF_vars(Tick)
    /\ \A c \in Calls :
          /\ WF_vars(Inspecting(c) \/ Starting(c))
          /\ SF_vars(StartTimesOut(c))

=============================================================================
