------------------------- MODULE DeliveryScheduler -------------------------
(***************************************************************************)
(* The delivery scheduler of the bridge: several MCP processes, each with  *)
(* one loop (#run) per message it has scheduled, share the message, agent  *)
(* and lease tables of one SQLite database and one app-server.             *)
(*                                                                         *)
(* An action is one SQL statement or transaction together with the         *)
(* synchronous code up to the next statement, or one answer of the         *)
(* app-server; reads that follow each other without a write are taken      *)
(* together.  Everything else may happen between two actions of a loop:    *)
(* the processes run in parallel and a loop awaits most of the time.       *)
(* A mutant is a definition changed the way a mistake would change it.     *)
(***************************************************************************)
EXTENDS Naturals, Sequences, FiniteSets

CONSTANTS
  Proc,              \* MCP processes
  Present,           \* those that run at first; the others start at some time
  Agent,             \* registered agents that receive messages
  Message,           \* messages, numbered in the order of (created_at, message_id)
  CreatedAt,         \* created_at: messages of one millisecond are created in any order
  Recipient,         \* the agent a message is addressed to
  Ask,               \* messages that expect a reply (ask_agent)
  MaxRetryAttempts,  \* config.maxRetryAttempts
  MaxGeneration,     \* bound: generations an agent may reach
  Ending,            \* bound: how the app-server may end a turn
  Perishable,        \* bound: messages whose TTL may elapse
  Administered,      \* bound: agents the operator pauses, resumes or replaces
  MaxCrashes,        \* bound: deaths after which no process crashes any more
  MaxLate,           \* bound: abandoned turn/start requests served late, per message
  Free, Orphan       \* a thread without lease; a lease whose holder has died

Run == Proc \X Message
Thread == Agent \X (1 .. MaxGeneration)

Dispatched == {"dispatching", "running"}
Unfinished == Dispatched \cup {"queued"}
Terminal == {"completed", "failed", "dead_letter"}
Status == Unfinished \cup Terminal \cup {"absent"}

\* The error codes transient() lets the scheduler retry, and those it does not.
TransientCode == {"RECIPIENT_BUSY", "RECIPIENT_IN_PROGRESS", "REQUEST_TIMEOUT"}
FatalCode == {"MESSAGE_EXPIRED", "STALE_RECIPIENT", "APP_SERVER_ERROR",
              "RECIPIENT_TURN_FAILED", "RECIPIENT_CONTEXT_EXHAUSTED",
              "MISSING_FINAL_REPLY", "TURN_NOT_COMPLETED", "TURN_TIMEOUT",
              "DELIVERY_FAILED"}
ErrorCode == TransientCode \cup FatalCode \cup {"none"}

\* How the app-server ends a turn: with a reply, without an agent message,
\* failed or interrupted, or failed because the context is exhausted.
TurnEnd == {"completed", "silent", "failed", "exhausted"}
TurnStatus == TurnEnd \cup {"inProgress"}

ASSUME SchedulerAssumption ==
  /\ Present \subseteq Proc
  /\ Message \subseteq Nat
  /\ CreatedAt \in [Message -> Nat]
  /\ \A m, n \in Message : n < m => CreatedAt[n] <= CreatedAt[m]
  /\ Recipient \in [Message -> Agent]
  /\ Ask \subseteq Message
  /\ Ending \subseteq TurnEnd
  /\ Perishable \subseteq Message
  /\ Administered \subseteq Agent
  /\ MaxRetryAttempts \in Nat \ {0}
  /\ MaxGeneration \in Nat \ {0}
  /\ MaxCrashes \in Nat
  /\ MaxLate \in Nat
  /\ Free \notin Proc \X Message
  /\ Orphan \notin (Proc \X Message) \cup {Free}

\* Where a loop is: the statement it executes next or the answer it awaits.
Place == {"off", "poll", "claim", "reading", "missing", "resuming", "permit",
          "renewed", "dispatched", "starting", "accepted", "running", "closing",
          "caught", "failing", "postponing", "requeuing", "leaving", "looping", "throwing",
          "dying"}

\* Here a loop is between two statements without an await: the event loop of its
\* process runs no other loop, while other processes do run.
Synchronous == {"claim", "missing", "renewed", "dispatched", "closing", "caught",
                "failing", "postponing", "requeuing", "leaving", "looping",
                "throwing", "dying"}

VARIABLES
  \* table messages (with dependency_edges: edge)
  status, attempts, code, backoff, expired, generation, edge,
  \* tables agents and recipient_leases
  current, ready, lease,
  \* the processes and their loops
  up, deaths, recovered, pc, err, mine,
  \* the app-server: the turns of each message, abandoned requests still on
  \* the wire, and how many of those became turns
  turns, wire, lateStarts

messageVars == <<status, attempts, code, backoff, expired, generation, edge>>
agentVars == <<current, ready>>
processVars == <<up, deaths, recovered>>
loopVars == <<pc, err, mine>>
serverVars == <<turns, wire, lateStarts>>
vars == <<messageVars, agentVars, lease, processVars, loopVars, serverVars>>

\* Messages created for certain before m: a random message id breaks ties.
Older(m) == {n \in Message : CreatedAt[n] < CreatedAt[m]}

ThreadOf(m) == <<Recipient[m], generation[m]>>
Holds(p, m) == lease[ThreadOf(m)] = <<p, m>>

\* Mutant of IsHead: a queue head that ignores what is dispatched already.
IsHeadOfQueued(m) ==
  \A n \in Message : n < m /\ ThreadOf(n) = ThreadOf(m) => status[n] # "queued"

\* queueHead: no unfinished message of the same recipient generation is older.
Earlier(m) == {n \in Message : n < m /\ ThreadOf(n) = ThreadOf(m)}
IsHead(m) == \A n \in Earlier(m) : status[n] \notin Unfinished

TurnActive(m) == \E k \in 1 .. Len(turns[m]) : turns[m][k] = "inProgress"

\* A turn the bridge knows of is in progress on the thread.
ThreadActive(t) == \E n \in Message : ThreadOf(n) = t /\ TurnActive(n)

Init ==
  /\ status = [m \in Message |-> "absent"]
  /\ attempts = [m \in Message |-> 0]
  /\ code = [m \in Message |-> "none"]
  /\ backoff = [m \in Message |-> FALSE]
  /\ expired = [m \in Message |-> FALSE]
  /\ generation = [m \in Message |-> 1]
  /\ edge = [m \in Message |-> FALSE]
  /\ current = [a \in Agent |-> 1]
  /\ ready = [a \in Agent |-> TRUE]
  /\ lease = [t \in Thread |-> Free]
  /\ up = [p \in Proc |-> p \in Present]
  /\ deaths = 0
  /\ recovered = {}
  /\ pc = [r \in Run |-> "off"]
  /\ err = [r \in Run |-> "none"]
  /\ mine = [r \in Run |-> 0]
  /\ turns = [m \in Message |-> <<>>]
  /\ wire = {}
  /\ lateStarts = [m \in Message |-> 0]

-----------------------------------------------------------------------------
(* Moves of a loop and updates of a message row shared by several actions. *)

At(p, m, place) ==
  /\ pc[<<p, m>>] = place
  /\ \A n \in Message \ {m} : pc[<<p, n>>] \notin Synchronous
Goto(p, m, place) == pc' = [pc EXCEPT ![<<p, m>>] = place]
Move(p, m, place) == Goto(p, m, place) /\ UNCHANGED <<err, mine>>

\* An exception reaches the catch clause of #run.
Raise(p, m, c) ==
  /\ Goto(p, m, "caught")
  /\ err' = [err EXCEPT ![<<p, m>>] = c]
  /\ UNCHANGED mine

\* Mutant of Settle: the outcome of a finished message is overwritten.
SettleAgain(m, s, c) ==
  /\ status' = [status EXCEPT ![m] = s]
  /\ code' = [code EXCEPT ![m] = c]
  /\ edge' = [edge EXCEPT ![m] = FALSE]
  /\ backoff' = [backoff EXCEPT ![m] = FALSE]
  /\ UNCHANGED <<attempts, expired, generation>>

\* Mutant of Settle: the dependency edge is left to the requester.
SettleKeepingEdge(m, s, c) ==
  /\ IF status[m] \in Unfinished
     THEN /\ status' = [status EXCEPT ![m] = s]
          /\ code' = [code EXCEPT ![m] = c]
          /\ backoff' = [backoff EXCEPT ![m] = FALSE]
     ELSE UNCHANGED <<status, code, backoff>>
  /\ UNCHANGED <<attempts, expired, generation, edge>>

\* failTerminal, deadLetter and completeRecovered: one transaction that ends an
\* unfinished message and closes its edge, and changes nothing otherwise.
Settle(m, s, c) ==
  /\ IF status[m] \in Unfinished
     THEN /\ status' = [status EXCEPT ![m] = s]
          /\ code' = [code EXCEPT ![m] = c]
          /\ edge' = [edge EXCEPT ![m] = FALSE]
          /\ backoff' = [backoff EXCEPT ![m] = FALSE]
     ELSE UNCHANGED <<status, code, edge, backoff>>
  /\ UNCHANGED <<attempts, expired, generation>>

\* Everything but the message rows and the loop that moves.
UnchangedElsewhere == UNCHANGED <<agentVars, lease, processVars, serverVars>>

-----------------------------------------------------------------------------
(* Admission, as far as the scheduler depends on it: the row is inserted   *)
(* queued with its edge and the creating process schedules it.             *)

Submit(p, m) ==
  /\ up[p]
  /\ status[m] = "absent"
  /\ \A n \in Older(m) : status[n] # "absent"
  /\ ready[Recipient[m]]
  /\ status' = [status EXCEPT ![m] = "queued"]
  /\ generation' = [generation EXCEPT ![m] = current[Recipient[m]]]
  /\ edge' = [edge EXCEPT ![m] = m \in Ask]
  /\ Move(p, m, "poll")
  /\ UNCHANGED <<attempts, code, backoff, expired>>
  /\ UnchangedElsewhere

(* The head of the loop: the checks before a lease is tried. *)

PollFinished(p, m) ==
  /\ At(p, m, "poll")
  /\ status[m] \in Terminal
  /\ Move(p, m, "off")
  /\ UNCHANGED messageVars
  /\ UnchangedElsewhere

PollExpired(p, m) ==
  /\ At(p, m, "poll")
  /\ status[m] \in Unfinished
  /\ expired[m]
  /\ Settle(m, "failed", "MESSAGE_EXPIRED")
  /\ Move(p, m, "off")
  /\ UnchangedElsewhere

Deliverable(m) ==
  /\ current[Recipient[m]] = generation[m]
  /\ ready[Recipient[m]]

PollStale(p, m) ==
  /\ At(p, m, "poll")
  /\ status[m] \in Unfinished
  /\ ~expired[m]
  /\ ~Deliverable(m)
  /\ Settle(m, "failed", "STALE_RECIPIENT")
  /\ Move(p, m, "off")
  /\ UnchangedElsewhere

PollDue(p, m) ==
  /\ At(p, m, "poll")
  /\ status[m] \in Unfinished
  /\ ~expired[m]
  /\ Deliverable(m)
  /\ IsHead(m)
  /\ ~backoff[m]
  /\ Move(p, m, "claim")
  /\ UNCHANGED messageVars
  /\ UnchangedElsewhere

\* Mutant of Claim: a retried row, queued again, is taken for a fresh one.
ClaimByStatus(p, m) ==
  /\ At(p, m, "claim")
  /\ lease[ThreadOf(m)] = Free
  /\ lease' = [lease EXCEPT ![ThreadOf(m)] = <<p, m>>]
  /\ Move(p, m, IF status[m] # "queued" THEN "reading" ELSE "resuming")
  /\ UNCHANGED <<messageVars, agentVars, processVars, serverVars>>

\* leases.acquire, and the second read of the row that decides on reconciling.
Claim(p, m) ==
  /\ At(p, m, "claim")
  /\ lease[ThreadOf(m)] = Free
  /\ lease' = [lease EXCEPT ![ThreadOf(m)] = <<p, m>>]
  /\ IF attempts[m] > 0 \/ status[m] # "queued"
     THEN Move(p, m, "reading")
     ELSE Move(p, m, "resuming")
  /\ UNCHANGED <<messageVars, agentVars, processVars, serverVars>>

\* Mutant of ClaimRefused: the message is left to the holder of the lease.
ClaimLeft(p, m) ==
  /\ At(p, m, "claim")
  /\ lease[ThreadOf(m)] # Free
  /\ Move(p, m, "off")
  /\ UNCHANGED messageVars
  /\ UnchangedElsewhere

ClaimRefused(p, m) ==
  /\ At(p, m, "claim")
  /\ lease[ThreadOf(m)] # Free
  /\ Move(p, m, "poll")
  /\ UNCHANGED messageVars
  /\ UnchangedElsewhere

-----------------------------------------------------------------------------
(* #reconcile: the answer to thread/read, judged by the first turn whose   *)
(* user message carries the message id.                                    *)

\* Mutant of ReconcileMissing: only an ended turn counts as found.
ReconcileUnfinished(p, m) ==
  /\ At(p, m, "reading")
  /\ \A k \in 1 .. Len(turns[m]) : turns[m][k] = "inProgress"
  /\ Move(p, m, IF status[m] \in Dispatched THEN "missing" ELSE "resuming")
  /\ UNCHANGED messageVars
  /\ UnchangedElsewhere

\* No turn carries the id; recoverToQueued reads the row.
ReconcileMissing(p, m) ==
  /\ At(p, m, "reading")
  /\ turns[m] = <<>>
  /\ Move(p, m, IF status[m] \in Dispatched THEN "missing" ELSE "resuming")
  /\ UNCHANGED messageVars
  /\ UnchangedElsewhere

\* A turn that runs, or that ended without the text an ask needs.
ReconcileInProgress(p, m) ==
  /\ At(p, m, "reading")
  /\ turns[m] # <<>>
  /\ \/ turns[m][1] = "inProgress"
     \/ turns[m][1] = "silent" /\ m \in Ask
  /\ Raise(p, m, "RECIPIENT_IN_PROGRESS")
  /\ UNCHANGED messageVars
  /\ UnchangedElsewhere

ReconcileFailed(p, m) ==
  /\ At(p, m, "reading")
  /\ turns[m] # <<>>
  /\ turns[m][1] \in {"failed", "exhausted"}
  /\ Settle(m, "failed", IF turns[m][1] = "exhausted"
                         THEN "RECIPIENT_CONTEXT_EXHAUSTED"
                         ELSE "RECIPIENT_TURN_FAILED")
  /\ Move(p, m, "leaving")
  /\ UnchangedElsewhere

\* completeRecovered throws when the message is finished already.
ReconcileCompleted(p, m) ==
  /\ At(p, m, "reading")
  /\ turns[m] # <<>>
  /\ \/ turns[m][1] = "completed"
     \/ turns[m][1] = "silent" /\ m \notin Ask
  /\ Settle(m, "completed", "none")
  /\ IF status[m] \in Unfinished
     THEN Move(p, m, "leaving")
     ELSE Raise(p, m, "DELIVERY_FAILED")
  /\ UnchangedElsewhere

\* The transition of recoverToQueued, which throws if the row was put back or
\* finished meanwhile.
Recover(p, m) ==
  /\ At(p, m, "missing")
  /\ IF status[m] \in Dispatched
     THEN /\ status' = [status EXCEPT ![m] = "queued"]
          /\ backoff' = [backoff EXCEPT ![m] = FALSE]
          /\ Move(p, m, "resuming")
     ELSE /\ Raise(p, m, "DELIVERY_FAILED")
          /\ UNCHANGED <<status, backoff>>
  /\ UNCHANGED <<attempts, code, expired, generation, edge>>
  /\ UnchangedElsewhere

-----------------------------------------------------------------------------
(* thread/resume, the wait for a delivery permit, and the dispatch.        *)

\* Mutant of ResumeIdle: the live status of the thread is not looked at.
ResumeAny(p, m) ==
  /\ At(p, m, "resuming")
  /\ Move(p, m, "permit")
  /\ UNCHANGED messageVars
  /\ UnchangedElsewhere

ResumeIdle(p, m) ==
  /\ At(p, m, "resuming")
  /\ ~ThreadActive(ThreadOf(m))
  /\ Move(p, m, "permit")
  /\ UNCHANGED messageVars
  /\ UnchangedElsewhere

\* A turn of the bridge, or one of a human or another client.
ResumeBusy(p, m) ==
  /\ At(p, m, "resuming")
  /\ Raise(p, m, "RECIPIENT_BUSY")
  /\ UNCHANGED messageVars
  /\ UnchangedElsewhere

\* thread/read or thread/resume ends in a timeout, a closed transport, an error
\* answer or an answer about another thread.
RequestFails(p, m) ==
  /\ At(p, m, "reading") \/ At(p, m, "resuming")
  /\ \E c \in {"REQUEST_TIMEOUT", "APP_SERVER_ERROR"} : Raise(p, m, c)
  /\ UNCHANGED messageVars
  /\ UnchangedElsewhere

\* Mutant of Renew: the wait for the permit is taken to leave the lease alone.
RenewBlindly(p, m) ==
  /\ At(p, m, "permit")
  /\ Move(p, m, "renewed")
  /\ UNCHANGED messageVars
  /\ UnchangedElsewhere

\* The permit is granted after a wait of any length, then the lease is renewed.
Renew(p, m) ==
  /\ At(p, m, "permit")
  /\ IF Holds(p, m) THEN Move(p, m, "renewed") ELSE Raise(p, m, "RECIPIENT_BUSY")
  /\ UNCHANGED messageVars
  /\ UnchangedElsewhere

\* transition(dispatching) throws unless the row is queued.
MarkDispatching(p, m) ==
  /\ At(p, m, "renewed")
  /\ IF status[m] = "queued"
     THEN /\ status' = [status EXCEPT ![m] = "dispatching"]
          /\ backoff' = [backoff EXCEPT ![m] = FALSE]
          /\ Move(p, m, "dispatched")
     ELSE /\ Raise(p, m, "DELIVERY_FAILED")
          /\ UNCHANGED <<status, backoff>>
  /\ UNCHANGED <<attempts, code, expired, generation, edge>>
  /\ UnchangedElsewhere

\* startAttempt, then turn/start is written to the socket.
StartAttempt(p, m) ==
  /\ At(p, m, "dispatched")
  /\ attempts' = [attempts EXCEPT ![m] = @ + 1]
  /\ Move(p, m, "starting")
  /\ UNCHANGED <<status, code, backoff, expired, generation, edge>>
  /\ UnchangedElsewhere

\* The app-server takes the request and begins the turn.
TurnStarts(p, m) ==
  /\ pc[<<p, m>>] = "starting"
  /\ turns' = [turns EXCEPT ![m] = Append(turns[m], "inProgress")]
  /\ mine' = [mine EXCEPT ![<<p, m>>] = Len(turns[m]) + 1]
  /\ Goto(p, m, "accepted")
  /\ UNCHANGED <<err, wire, lateStarts, messageVars, agentVars, lease, processVars>>

\* The app-server refuses: busy, or an error that is not worth a retry.
TurnRefused(p, m) ==
  /\ At(p, m, "starting")
  /\ \E c \in {"RECIPIENT_BUSY", "APP_SERVER_ERROR"} : Raise(p, m, c)
  /\ UNCHANGED messageVars
  /\ UnchangedElsewhere

\* A request whose sender has gone may still be served, or be lost.
Abandon(M) ==
  /\ \E S \in SUBSET {m \in M : lateStarts[m] < MaxLate} : wire' = wire \cup S
  /\ UNCHANGED <<turns, lateStarts>>

\* Timeout or closed transport before the app-server took the request ...
StartUnanswered(p, m) ==
  /\ At(p, m, "starting")
  /\ Raise(p, m, "REQUEST_TIMEOUT")
  /\ Abandon({m})
  /\ UNCHANGED <<messageVars, agentVars, lease, processVars>>

\* ... or after it did.
AnswerLost(p, m) ==
  /\ At(p, m, "accepted")
  /\ Raise(p, m, "REQUEST_TIMEOUT")
  /\ UNCHANGED messageVars
  /\ UnchangedElsewhere

\* The answer with the turn id arrives: transition(running).
MarkRunning(p, m) ==
  /\ At(p, m, "accepted")
  /\ IF status[m] = "dispatching"
     THEN /\ status' = [status EXCEPT ![m] = "running"]
          /\ Move(p, m, "running")
     ELSE /\ Raise(p, m, "DELIVERY_FAILED")
          /\ UNCHANGED status
  /\ UNCHANGED <<attempts, code, backoff, expired, generation, edge>>
  /\ UnchangedElsewhere

-----------------------------------------------------------------------------
(* The completion of the collected turn.                                   *)

\* Mutant of TurnError: an ask that ends with any turn counts as answered.
TurnErrorForAny(m, end) ==
  IF end = "exhausted" THEN "RECIPIENT_CONTEXT_EXHAUSTED" ELSE "none"

\* Mutant of TurnError: a code that no reader of the row knows.
TurnErrorUnnamed(m, end) ==
  IF end # "completed" /\ m \in Ask THEN "NO_REPLY" ELSE "none"

\* The error the end of a turn raises, "none" when the delivery counts as done.
\* Only an ask looks at the reply and the status of its turn.
TurnError(m, end) ==
  CASE end = "exhausted" -> "RECIPIENT_CONTEXT_EXHAUSTED"
    [] end = "failed" /\ m \in Ask -> "TURN_NOT_COMPLETED"
    [] end = "silent" /\ m \in Ask -> "MISSING_FINAL_REPLY"
    [] OTHER -> "none"

MyTurn(p, m) == turns[m][mine[<<p, m>>]]

TurnUnsuccessful(p, m) ==
  /\ At(p, m, "running")
  /\ MyTurn(p, m) \in TurnEnd
  /\ TurnError(m, MyTurn(p, m)) # "none"
  /\ Raise(p, m, TurnError(m, MyTurn(p, m)))
  /\ UNCHANGED messageVars
  /\ UnchangedElsewhere

\* finishAttempt and transition(completed), which throws unless running.
MarkCompleted(p, m) ==
  /\ At(p, m, "running")
  /\ MyTurn(p, m) \in TurnEnd
  /\ TurnError(m, MyTurn(p, m)) = "none"
  /\ IF status[m] = "running"
     THEN /\ status' = [status EXCEPT ![m] = "completed"]
          /\ Move(p, m, "closing")
     ELSE /\ Raise(p, m, "DELIVERY_FAILED")
          /\ UNCHANGED status
  /\ UNCHANGED <<attempts, code, backoff, expired, generation, edge>>
  /\ UnchangedElsewhere

\* collectTurn gives up after turnTimeoutMs.
TurnTimesOut(p, m) ==
  /\ At(p, m, "running")
  /\ Raise(p, m, "TURN_TIMEOUT")
  /\ UNCHANGED messageVars
  /\ UnchangedElsewhere

CloseDependency(p, m) ==
  /\ At(p, m, "closing")
  /\ edge' = [edge EXCEPT ![m] = FALSE]
  /\ Move(p, m, "leaving")
  /\ UNCHANGED <<status, attempts, code, backoff, expired, generation>>
  /\ UnchangedElsewhere

-----------------------------------------------------------------------------
(* The catch and finally clauses.                                          *)

\* Mutant of Decide: one attempt more than the budget.
DecideLate(p, m) ==
  /\ At(p, m, "caught")
  /\ IF err[<<p, m>>] \notin TransientCode \/ attempts[m] > MaxRetryAttempts
     THEN Move(p, m, "failing")
     ELSE Move(p, m, IF status[m] = "queued" THEN "postponing" ELSE "requeuing")
  /\ UNCHANGED messageVars
  /\ UnchangedElsewhere

\* The row is read again to decide between a terminal error and a retry.
Decide(p, m) ==
  /\ At(p, m, "caught")
  /\ IF err[<<p, m>>] \notin TransientCode \/ attempts[m] >= MaxRetryAttempts
     THEN Move(p, m, "failing")
     ELSE Move(p, m, IF status[m] = "queued" THEN "postponing" ELSE "requeuing")
  /\ UNCHANGED messageVars
  /\ UnchangedElsewhere

FailDelivery(p, m) ==
  /\ At(p, m, "failing")
  /\ Settle(m, IF m \notin Ask /\ err[<<p, m>>] \in TransientCode
               THEN "dead_letter" ELSE "failed", err[<<p, m>>])
  /\ Move(p, m, "leaving")
  /\ UnchangedElsewhere

\* scheduleRetry on a row it found queued: an UPDATE if it is queued still.
Postpone(p, m) ==
  /\ At(p, m, "postponing")
  /\ backoff' = [backoff EXCEPT ![m] = @ \/ status[m] = "queued"]
  /\ Move(p, m, "looping")
  /\ UNCHANGED <<status, attempts, code, expired, generation, edge>>
  /\ UnchangedElsewhere

\* scheduleRetry on any other row: a transition back to queued, whoever dispatched
\* it.  When the row is finished or queued again it throws out of the catch clause.
Requeue(p, m) ==
  /\ At(p, m, "requeuing")
  /\ IF status[m] \in Dispatched
     THEN /\ status' = [status EXCEPT ![m] = "queued"]
          /\ backoff' = [backoff EXCEPT ![m] = TRUE]
          /\ Move(p, m, "looping")
     ELSE /\ Move(p, m, "throwing")
          /\ UNCHANGED <<status, backoff>>
  /\ UNCHANGED <<attempts, code, expired, generation, edge>>
  /\ UnchangedElsewhere

\* Mutant of ReleaseLease: the row is deleted whatever token it carries.
ReleaseAnyLease(p, m) == lease' = [lease EXCEPT ![ThreadOf(m)] = Free]

\* leases.release deletes the row only if it carries this loop's token.
ReleaseLease(p, m) ==
  lease' = IF Holds(p, m) THEN [lease EXCEPT ![ThreadOf(m)] = Free] ELSE lease

Release(p, m) ==
  /\ \/ At(p, m, "looping") /\ Goto(p, m, "poll")
     \/ At(p, m, "leaving") /\ Goto(p, m, "off")
     \/ At(p, m, "throwing") /\ Goto(p, m, IF <<p, m>> \in recovered
                                           THEN "dying" ELSE "off")
  /\ ReleaseLease(p, m)
  /\ err' = [err EXCEPT ![<<p, m>>] = "none"]
  /\ mine' = [mine EXCEPT ![<<p, m>>] = 0]
  /\ UNCHANGED <<messageVars, agentVars, processVars, serverVars>>

-----------------------------------------------------------------------------
(* Processes stop and start, clocks advance, the operator administers.     *)

\* All loops of p disappear; a lease of theirs stays in the table.
Stop(p) ==
  /\ up' = [up EXCEPT ![p] = FALSE]
  /\ pc' = [r \in Run |-> IF r[1] = p THEN "off" ELSE pc[r]]
  /\ err' = [r \in Run |-> IF r[1] = p THEN "none" ELSE err[r]]
  /\ mine' = [r \in Run |-> IF r[1] = p THEN 0 ELSE mine[r]]
  /\ recovered' = {r \in recovered : r[1] # p}
  /\ lease' = [t \in Thread |-> IF \E m \in Message : lease[t] = <<p, m>>
                                THEN Orphan ELSE lease[t]]
  /\ Abandon({m \in Message : pc[<<p, m>>] = "starting"})
  /\ UNCHANGED <<messageVars, agentVars>>

Crash(p) ==
  /\ up[p]
  /\ deaths < MaxCrashes
  /\ deaths' = deaths + 1
  /\ Stop(p)

\* A loop that start() scheduled has no rejection handler: its exception ends
\* the process.
UnhandledRejection(p, m) ==
  /\ At(p, m, "dying")
  /\ deaths' = deaths + 1
  /\ Stop(p)

\* Mutant of Start: messages that were being delivered are not scheduled again.
StartQueued(p) ==
  LET waiting == {r \in Run : r[1] = p /\ status[r[2]] = "queued"}
  IN  /\ ~up[p]
      /\ up' = [up EXCEPT ![p] = TRUE]
      /\ pc' = [r \in Run |-> IF r \in waiting THEN "poll" ELSE pc[r]]
      /\ recovered' = recovered \cup waiting
      /\ UNCHANGED <<deaths, err, mine, messageVars, agentVars, lease, serverVars>>

\* A process starts: MessagingService.start schedules every unfinished message.
Start(p) ==
  LET mayRecover == {r \in Run : r[1] = p /\ status[r[2]] \in Unfinished}
  IN  /\ ~up[p]
      /\ up' = [up EXCEPT ![p] = TRUE]
      /\ pc' = [r \in Run |-> IF r \in mayRecover THEN "poll" ELSE pc[r]]
      /\ recovered' = recovered \cup mayRecover
      /\ UNCHANGED <<deaths, err, mine, messageVars, agentVars, lease, serverVars>>

\* A lease lasts turnTimeoutMs + retryMaximumMs.  Only two waits of a live loop can
\* outlast it: the one for a permit, which has no timeout, and the one for the
\* turn, which begins after up to turnTimeoutMs spent on turn/start and lasts as
\* long again.  The other waits are shorter, and the code between waits is quick.
OutlastsLease == {"permit", "running"}

LeaseExpires(t) ==
  /\ lease[t] # Free
  /\ \A r \in Run : lease[t] = r => pc[r] \in OutlastsLease
  /\ lease' = [lease EXCEPT ![t] = Free]
  /\ UNCHANGED <<messageVars, agentVars, processVars, loopVars, serverVars>>

BackoffElapses(m) ==
  /\ backoff[m]
  /\ backoff' = [backoff EXCEPT ![m] = FALSE]
  /\ UNCHANGED <<status, attempts, code, expired, generation, edge, loopVars>>
  /\ UnchangedElsewhere

TtlElapses(m) ==
  /\ m \in Perishable
  /\ status[m] \in Unfinished
  /\ ~expired[m]
  /\ expired' = [expired EXCEPT ![m] = TRUE]
  /\ UNCHANGED <<status, attempts, code, backoff, generation, edge, loopVars>>
  /\ UnchangedElsewhere

Pause(a) ==
  /\ ready[a]
  /\ ready' = [ready EXCEPT ![a] = FALSE]
  /\ UNCHANGED <<current, messageVars, lease, processVars, loopVars, serverVars>>

Resume(a) ==
  /\ ~ready[a]
  /\ ready' = [ready EXCEPT ![a] = TRUE]
  /\ UNCHANGED <<current, messageVars, lease, processVars, loopVars, serverVars>>

\* A new thread takes over the agent as its next generation.
Replace(a) ==
  /\ current[a] < MaxGeneration
  /\ current' = [current EXCEPT ![a] = @ + 1]
  /\ ready' = [ready EXCEPT ![a] = TRUE]
  /\ UNCHANGED <<messageVars, lease, processVars, loopVars, serverVars>>

\* The app-server ends a turn.
TurnEnds(m) ==
  /\ \E k \in 1 .. Len(turns[m]), end \in Ending :
       /\ turns[m][k] = "inProgress"
       /\ turns' = [turns EXCEPT ![m][k] = end]
  /\ UNCHANGED <<wire, lateStarts, messageVars, agentVars, lease, processVars, loopVars>>

\* An abandoned request is served after all.
LateTurnStarts(m) ==
  /\ m \in wire
  /\ wire' = wire \ {m}
  /\ lateStarts' = [lateStarts EXCEPT ![m] = @ + 1]
  /\ turns' = [turns EXCEPT ![m] = Append(turns[m], "inProgress")]
  /\ UNCHANGED <<messageVars, agentVars, lease, processVars, loopVars>>

-----------------------------------------------------------------------------
LoopStep(p, m) ==
  \/ PollFinished(p, m) \/ PollExpired(p, m) \/ PollStale(p, m) \/ PollDue(p, m)
  \/ Claim(p, m) \/ ClaimRefused(p, m)
  \/ ReconcileMissing(p, m) \/ ReconcileInProgress(p, m)
  \/ ReconcileFailed(p, m) \/ ReconcileCompleted(p, m) \/ Recover(p, m)
  \/ ResumeIdle(p, m) \/ ResumeBusy(p, m) \/ RequestFails(p, m) \/ Renew(p, m)
  \/ MarkDispatching(p, m) \/ StartAttempt(p, m)
  \/ TurnStarts(p, m) \/ TurnRefused(p, m) \/ StartUnanswered(p, m)
  \/ AnswerLost(p, m) \/ MarkRunning(p, m)
  \/ TurnUnsuccessful(p, m) \/ MarkCompleted(p, m) \/ TurnTimesOut(p, m)
  \/ CloseDependency(p, m)
  \/ Decide(p, m) \/ FailDelivery(p, m)
  \/ Postpone(p, m) \/ Requeue(p, m)
  \/ Release(p, m) \/ UnhandledRejection(p, m)

ProcessStep(p) == Crash(p) \/ Start(p)

ClockStep ==
  \/ \E t \in Thread : LeaseExpires(t)
  \/ \E m \in Message : BackoffElapses(m) \/ TtlElapses(m)

AdminStep == \E a \in Administered : Pause(a) \/ Resume(a) \/ Replace(a)

ServerStep == \E m \in Message : TurnEnds(m) \/ LateTurnStarts(m)

Next ==
  \/ \E p \in Proc, m \in Message : Submit(p, m) \/ LoopStep(p, m)
  \/ \E p \in Proc : ProcessStep(p)
  \/ ClockStep
  \/ AdminStep
  \/ ServerStep

Spec == Init /\ [][Next]_vars

\* Loops and clocks advance, a stopped process is started again, the app-server
\* ends its turns; nobody has to submit a message or change an agent.
Fairness ==
  /\ \A p \in Proc, m \in Message : WF_vars(LoopStep(p, m))
  /\ \A p \in Proc : WF_vars(Start(p))
  /\ \A t \in Thread : WF_vars(LeaseExpires(t))
  /\ \A m \in Message : /\ WF_vars(BackoffElapses(m))
                        /\ WF_vars(TtlElapses(m))
                        /\ WF_vars(TurnEnds(m))

FairSpec == Spec /\ Fairness
=============================================================================
