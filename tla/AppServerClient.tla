----------------------------- MODULE AppServerClient -----------------------------
(***************************************************************************)
(* The connection of one MCP process to the app-server, and what its       *)
(* deliveries do with it: AppServerClient with the request ids, the event  *)
(* router, collectTurn, and the delivery permits of the scheduler.         *)
(*                                                                         *)
(* Node runs one callback at a time.  A frame, a timer or the end of the   *)
(* socket is an event; the continuations it makes ready run before the     *)
(* next event, in an order that is not modelled; but the frames that ws    *)
(* finds in one chunk are all handed over before any continuation runs.    *)
(* A delivery is a loop of the scheduler: it asks something about the      *)
(* thread, takes a permit, starts a turn, and collects its outcome.        *)
(***************************************************************************)
EXTENDS Integers, Sequences, FiniteSets, Functions

CONSTANTS
  Delivery,          \* loops of the scheduler in this process
  Handshake,         \* who makes the request initialize
  MaxId,             \* Number.MAX_SAFE_INTEGER
  HistoryLimit,      \* historyLimit of the event router
  MaxConcurrent,     \* config.maxConcurrentDeliveries
  ReconnectLimit,    \* config.reconnectLimit
  MaxRequests,       \* bound: requests; a delivery asks if there is room for its turn
  MaxEvents          \* bound: events of turns

ASSUME ClientAssumption ==
  /\ IsFiniteSet(Delivery) /\ Handshake \notin Delivery
  /\ {MaxId, HistoryLimit, MaxConcurrent} \subseteq Nat \ {0}
  /\ Cardinality(Delivery) < MaxId
  /\ {ReconnectLimit, MaxRequests, MaxEvents} \subseteq Nat

VARIABLES
  link,       \* the state of the client; "lost" once it is disconnected for good
  failures,   \* attempts of connect that failed
  nextId,     \* where the allocator looks for an id
  pending,    \* by id: the request that waits for an answer, [who, n]
  made,       \* how many requests were made; n tells them apart
  wire,       \* the requests the app-server has not answered: [id, n]
  turns,      \* by the n of its turn/start: events of the turn that were received
  sequence,   \* the number of the last event
  history,    \* the last events: [number, n, kind]
  pc,         \* where a delivery is
  turn,       \* what it knows of its turn
  active,     \* #activeDeliveries
  waiters,    \* #permitWaiters
  overtaken,  \* history: permits taken while a waiter was being resumed
  burst       \* the last step was a frame; the chunk may hold another

connection == <<link, failures>>
requests == <<nextId, pending, made, wire>>
events == <<turns, sequence, history>>
permits == <<active, waiters, overtaken>>
vars == <<connection, requests, events, pc, turn, permits, burst>>

NoTurn == [asked |-> 0, n |-> 0, checkpoint |-> 0, items |-> 0, ended |-> FALSE, lossy |-> FALSE]

Init ==
  /\ link = "disconnected" /\ failures = 0
  /\ nextId = 1 /\ pending = <<>> /\ made = 0 /\ wire = {}
  /\ turns = <<>> /\ sequence = 0 /\ history = <<>>
  /\ pc = [d \in Delivery |-> "idle"]
  /\ turn = [d \in Delivery |-> NoTurn]
  /\ active = 0 /\ waiters = <<>> /\ overtaken = 0
  /\ burst = FALSE

\* The places whose continuation is ready to run.
Ready == {"answered", "resumed", "started", "over"}
Quiet == \A d \in Delivery : pc[d] \notin Ready

Event == Quiet /\ burst' = FALSE
Frame == (Quiet \/ burst) /\ burst' = TRUE
Continuation == burst' = FALSE

At(d, place) == pc' = [pc EXCEPT ![d] = place]

-----------------------------------------------------------------------------
(* Requests.                                                               *)

Free == (1 .. MaxId) \ DOMAIN pending

\* Mutant of AcquiredId: the lowest id that is free.
LowestId == CHOOSE i \in Free : \A j \in Free : i <= j

\* JsonRpcRequestIdAllocator.acquire: round the ids, past those in use.
AcquiredId ==
  CHOOSE i \in Free : \A j \in Free : (i - nextId) % MaxId <= (j - nextId) % MaxId

\* request: an id, an entry, and the frame is written.
Request(who) ==
  /\ made' = made + 1
  /\ nextId' = (AcquiredId % MaxId) + 1
  /\ pending' = [i \in DOMAIN pending \cup {AcquiredId} |->
                   IF i = AcquiredId THEN [who |-> who, n |-> made + 1] ELSE pending[i]]
  /\ wire' = wire \cup {[id |-> AcquiredId, n |-> made + 1]}

\* The request of somebody, if it waits.
IdOf(who) == {i \in DOMAIN pending : pending[i].who = who}

Settle(ids) == pending' = Restrict(pending, DOMAIN pending \ ids)

\* Mutant of Fail: who starts a turn is not told.
FailAsking(who) ==
  pc' = [d \in Delivery |-> IF d \in who /\ pc[d] = "asking" THEN "idle" ELSE pc[d]]

\* What the end of its request without an answer means to a delivery.
Fail(who) ==
  pc' = [d \in Delivery |->
           IF d \notin who THEN pc[d]
           ELSE IF pc[d] = "asking" THEN "idle"
           ELSE IF pc[d] = "starting" THEN "over" ELSE pc[d]]

-----------------------------------------------------------------------------
(* The connection.                                                         *)

\* connect: an attempt of it that does not open a socket.
OpenFails ==
  /\ Event
  /\ link = "disconnected" /\ failures <= ReconnectLimit
  /\ failures' = failures + 1
  /\ UNCHANGED <<link, requests, events, pc, turn, permits>>

Open ==
  /\ Event
  /\ link = "disconnected" /\ failures <= ReconnectLimit
  /\ made < MaxRequests
  /\ link' = "handshaking"
  /\ Request(Handshake)
  /\ UNCHANGED <<failures, events, pc, turn, permits>>

\* The socket is gone: failPending.  Nobody connects a client again that was ready.
Disconnect ==
  /\ Event
  /\ link \in {"handshaking", "ready"}
  /\ IF link = "ready"
     THEN link' = "lost" /\ UNCHANGED failures
     ELSE link' = "disconnected" /\ failures' = failures + 1
  /\ Fail({pending[i].who : i \in DOMAIN pending})
  /\ Settle(DOMAIN pending)
  /\ wire' = {}
  /\ UNCHANGED <<nextId, made, events, turn, permits>>

\* An answer of another request has a thread where a turn is looked for, or no thread.
Fits(who, r) == pc[who] = "starting" <=> r.n \in DOMAIN turns

\* An answer, or an error, to a request that waits.
Answer(r, ok) ==
  /\ Frame
  /\ r.id \in DOMAIN pending
  /\ wire' = wire \ {r}
  /\ Settle({r.id})
  /\ LET who == pending[r.id].who IN
     IF who = Handshake
     THEN /\ ok
          /\ link' = "ready"
          /\ UNCHANGED <<failures, pc, turn>>
     ELSE /\ IF ok /\ Fits(who, r)
             THEN IF pc[who] = "asking"
                  THEN At(who, "answered") /\ UNCHANGED turn
                  ELSE At(who, "started") /\ turn' = [turn EXCEPT ![who].n = r.n]
             ELSE Fail({who}) /\ UNCHANGED turn
          /\ UNCHANGED connection
  /\ UNCHANGED <<nextId, made, events, permits>>

\* An error to initialize: the attempt fails, and close ends the socket.
Refused(r) ==
  /\ Event
  /\ r.id \in DOMAIN pending
  /\ pending[r.id].who = Handshake
  /\ link' = "disconnected" /\ failures' = failures + 1
  /\ Settle({r.id})
  /\ wire' = {}
  /\ UNCHANGED <<nextId, made, events, pc, turn, permits>>

\* An answer nobody waits for any more.
OrphanResponse(r) ==
  /\ Frame
  /\ r.id \notin DOMAIN pending
  /\ wire' = wire \ {r}
  /\ UNCHANGED <<connection, nextId, pending, made, events, pc, turn, permits>>

\* The timer of a request.
RequestTimesOut(d) ==
  /\ Event
  /\ IdOf(d) # {}
  /\ Fail({d})
  /\ Settle(IdOf(d))
  /\ UNCHANGED <<connection, nextId, made, wire, events, turn, permits>>

HandshakeTimesOut ==
  /\ Event
  /\ IdOf(Handshake) # {}
  /\ link' = "disconnected" /\ failures' = failures + 1
  /\ Settle(IdOf(Handshake))
  /\ wire' = {}
  /\ UNCHANGED <<nextId, made, events, pc, turn, permits>>

-----------------------------------------------------------------------------
(* Events of turns.                                                        *)

Collects(d, n) == pc[d] = "collecting" /\ turn[d].n = n

\* Mutant of Dispatch: the history is never cut.
DispatchKeepingAll(n, kind) ==
  /\ sequence < MaxEvents
  /\ sequence' = sequence + 1
  /\ history' = Append(history, [number |-> sequence + 1, n |-> n, kind |-> kind])
  /\ UNCHANGED turn

\* dispatch: the history keeps the last events, the collector of the turn takes it.
Dispatch(n, kind) ==
  /\ sequence < MaxEvents
  /\ sequence' = sequence + 1
  /\ LET h == Append(history, [number |-> sequence + 1, n |-> n, kind |-> kind]) IN
     history' = IF Len(h) > HistoryLimit THEN Tail(h) ELSE h
  /\ turn' = [d \in Delivery |->
                IF ~Collects(d, n) THEN turn[d]
                ELSE IF kind = "item" THEN [turn[d] EXCEPT !.items = @ + 1]
                ELSE [turn[d] EXCEPT !.ended = TRUE]]

\* An item of a turn may come before the answer to its turn/start, and after its end.
ItemCompleted(n) ==
  /\ Frame
  /\ link = "ready"
  /\ turns' = [turns EXCEPT ![n].items = @ + 1]
  /\ Dispatch(n, "item")
  /\ UNCHANGED <<connection, requests, pc, permits>>

TurnCompleted(n) ==
  /\ Frame
  /\ link = "ready"
  /\ ~turns[n].ended
  /\ turns' = [turns EXCEPT ![n].ended = TRUE]
  /\ Dispatch(n, "end")
  /\ UNCHANGED <<connection, requests, pc, permits>>

-----------------------------------------------------------------------------
(* A delivery.                                                             *)

\* The turn/starts that are still to come, for which the bound leaves room.
Owed == Cardinality({d \in Delivery : pc[d] \in {"asking", "answered", "waiting", "resumed"}})

\* thread/read or thread/resume; without a connection the loop backs off.
Ask(d) ==
  /\ Event
  /\ pc[d] = "idle"
  /\ link = "ready"
  /\ made + Owed + 2 <= MaxRequests
  /\ Request(d)
  /\ At(d, "asking")
  /\ UNCHANGED <<connection, events, turn, permits>>

\* startTurn: the checkpoint is taken before the request.
StartTurn(d) ==
  /\ IF link = "ready"
     THEN /\ Request(d)
          /\ turns' = [n \in DOMAIN turns \cup {made + 1} |->
                         IF n \in DOMAIN turns THEN turns[n] ELSE [items |-> 0, ended |-> FALSE]]
          /\ At(d, "starting")
     ELSE /\ UNCHANGED <<requests, turns>>
          /\ At(d, "over")
  /\ turn' = [turn EXCEPT ![d].asked = made', ![d].checkpoint = sequence]
  /\ UNCHANGED <<connection, sequence, history>>

\* Mutant of Admissible: one delivery too many.
AdmissibleAtLimit == active <= MaxConcurrent

\* There is a permit left.
Admissible == active < MaxConcurrent

\* acquireDeliveryPermit, and startTurn if there is a permit.
Acquire(d) ==
  /\ Continuation
  /\ pc[d] = "answered"
  /\ IF Admissible
     THEN /\ active' = active + 1
          /\ overtaken' = IF \E e \in Delivery : pc[e] = "resumed" THEN overtaken + 1 ELSE overtaken
          /\ StartTurn(d)
          /\ UNCHANGED waiters
     ELSE /\ waiters' = Append(waiters, d)
          /\ At(d, "waiting")
          /\ UNCHANGED <<connection, requests, events, turn, active, overtaken>>

\* A resumed waiter counts itself, whatever the count is by now.
CountResumed(d) ==
  /\ Continuation
  /\ pc[d] = "resumed"
  /\ active' = active + 1
  /\ StartTurn(d)
  /\ UNCHANGED <<waiters, overtaken>>

\* eventsSince: what the history holds of turn n since the checkpoint of d.
Since(d, n, kind) ==
  {e \in Range(history) : e.number > turn[d].checkpoint /\ e.n = n /\ e.kind = kind}

\* Mutant of Collect: no replay.
CollectFromNow(d) ==
  /\ Continuation
  /\ pc[d] = "started"
  /\ At(d, "collecting")
  /\ UNCHANGED <<connection, requests, events, turn, permits>>

\* collectTurn subscribes, and replays the events since the checkpoint.
Collect(d) ==
  /\ Continuation
  /\ pc[d] = "started"
  /\ At(d, "collecting")
  /\ turn' = [turn EXCEPT ![d].items = Cardinality(Since(d, turn[d].n, "item")),
                          ![d].ended = Since(d, turn[d].n, "end") # {},
                          ![d].lossy = sequence - turn[d].checkpoint > HistoryLimit]
  /\ UNCHANGED <<connection, requests, events, permits>>

\* The timer that turn/completed has set.
Finish(d) ==
  /\ Event
  /\ pc[d] = "collecting"
  /\ turn[d].ended
  /\ At(d, "over")
  /\ UNCHANGED <<connection, requests, events, turn, permits>>

TurnTimesOut(d) ==
  /\ Event
  /\ pc[d] = "collecting"
  /\ At(d, "over")
  /\ UNCHANGED <<connection, requests, events, turn, permits>>

\* Mutant of Release: the first waiter is not resumed.
ReleaseUnnoticed(d) ==
  /\ Continuation
  /\ pc[d] = "over"
  /\ active' = active - 1
  /\ At(d, "idle")
  /\ turn' = [turn EXCEPT ![d] = NoTurn]
  /\ UNCHANGED <<connection, requests, events, waiters, overtaken>>

\* The finally clause: releaseDeliveryPermit.
Release(d) ==
  /\ Continuation
  /\ pc[d] = "over"
  /\ active' = active - 1
  /\ IF waiters = <<>>
     THEN /\ At(d, "idle")
          /\ UNCHANGED waiters
     ELSE /\ pc' = [pc EXCEPT ![d] = "idle", ![Head(waiters)] = "resumed"]
          /\ waiters' = Tail(waiters)
  /\ turn' = [turn EXCEPT ![d] = NoTurn]
  /\ UNCHANGED <<connection, requests, events, overtaken>>

-----------------------------------------------------------------------------
Continue(d) == Acquire(d) \/ CountResumed(d) \/ Collect(d) \/ Release(d)

Next ==
  \/ OpenFails \/ Open \/ Disconnect \/ HandshakeTimesOut
  \/ \E r \in wire : \/ \E ok \in BOOLEAN : Answer(r, ok)
                     \/ Refused(r) \/ OrphanResponse(r)
  \/ \E n \in DOMAIN turns : ItemCompleted(n) \/ TurnCompleted(n)
  \/ \E d \in Delivery : \/ Ask(d) \/ RequestTimesOut(d)
                         \/ Finish(d) \/ TurnTimesOut(d) \/ Continue(d)

Spec == Init /\ [][Next]_vars

\* Continuations run, and timers go off; nothing is assumed of the app-server.
Proceeds(d) == Continue(d) \/ RequestTimesOut(d) \/ TurnTimesOut(d)

Fairness == \A d \in Delivery : WF_vars(Proceeds(d))

FairSpec == Spec /\ Fairness
=============================================================================
