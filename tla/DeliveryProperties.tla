------------------------ MODULE DeliveryProperties ------------------------
(* What the delivery scheduler must guarantee, and what its documents say. *)
EXTENDS DeliveryScheduler

RowsOK ==
  /\ status \in [Message -> Status]
  /\ attempts \in [Message -> Nat]
  /\ code \in [Message -> ErrorCode]
  /\ backoff \in [Message -> BOOLEAN]
  /\ expired \in [Message -> BOOLEAN]
  /\ generation \in [Message -> 1 .. MaxGeneration]
  /\ edge \in [Message -> BOOLEAN]

AgentsOK ==
  /\ current \in [Agent -> 1 .. MaxGeneration]
  /\ ready \in [Agent -> BOOLEAN]

LeasesOK == lease \in [Thread -> Run \cup {Free, Orphan}]

ProcessesOK ==
  /\ up \in [Proc -> BOOLEAN]
  /\ deaths \in Nat
  /\ recovered \in SUBSET Run

LoopsOK ==
  /\ pc \in [Run -> Place]
  /\ err \in [Run -> ErrorCode]
  /\ mine \in [Run -> Nat]

ServerOK ==
  /\ turns \in [Message -> Seq(TurnStatus)]
  /\ wire \in SUBSET Message
  /\ lateStarts \in [Message -> Nat]

(* Every variable keeps its type: rows, leases, loops and turns as the      *)
(* database schema and #run use them.                                       *)
TypeOK ==
  RowsOK /\ AgentsOK /\ LeasesOK /\ ProcessesOK /\ LoopsOK /\ ServerOK

Sending == {"renewed", "dispatched", "starting", "accepted"}

(* Between the renewal of the lease and the answer to turn/start at most    *)
(* one loop of all processes is at work on a thread.                        *)
OneSenderPerThread ==
  \A r1, r2 \in Run :
    /\ pc[r1] \in Sending
    /\ pc[r2] \in Sending
    /\ ThreadOf(r1[2]) = ThreadOf(r2[2])
    => r1 = r2

(* No crash, retry, lost answer or second process starts a message twice: a *)
(* second turn of a message exists only if the app-server served a request  *)
(* late that its sender had given up.                                       *)
DuplicateOnlyWhenLate ==
  \A m \in Message : Len(turns[m]) <= 1 + lateStarts[m]

(* A thread works on one bridge turn at a time, late requests apart, even   *)
(* after a turn timed out and its message was given up.                     *)
OneTurnAtATime ==
  \A m, n \in Message :
    /\ ThreadOf(m) = ThreadOf(n)
    /\ lateStarts[m] = 0 /\ lateStarts[n] = 0
    /\ TurnActive(m) /\ TurnActive(n)
    => m = n

(* FIFO: once a message has a turn, every older message for the same        *)
(* recipient generation is finished, whichever processes delivered them.    *)
FifoOrder ==
  \A m \in Message : turns[m] # <<>> =>
    \A n \in Older(m) : ThreadOf(n) = ThreadOf(m) => status[n] \in Terminal

(* A message is completed only after the recipient ended a turn of its own; *)
(* for an ask, a turn with a final reply.                                   *)
CompletedByATurn ==
  \A m \in Message : status[m] = "completed" =>
    \E k \in 1 .. Len(turns[m]) :
      turns[m][k] \in IF m \in Ask THEN {"completed"} ELSE TurnEnd

(* A dependency edge does not outlive its ask, whichever way and by which   *)
(* of the racing loops the ask is finished: it stays only between the       *)
(* completion and closeDependency, or for good when the process dies then.  *)
EdgeClosed ==
  \A m \in Message :
    edge[m] => \/ status[m] \in Unfinished
               \/ \E p \in Proc : pc[<<p, m>>] = "closing"
               \/ status[m] = "completed" /\ deaths > 0

(* Only a process that dies during a delivery can make a message exceed its *)
(* retry budget, by one attempt per death.                                  *)
AttemptsBounded ==
  \A m \in Message : attempts[m] <= MaxRetryAttempts + deaths

(* Loops that lost their lease or learn of an outcome late never change the *)
(* recorded outcome of a finished message.                                  *)
OutcomeIsFinal ==
  [][\A m \in Message : status[m] \in Terminal =>
       status'[m] = status[m] /\ code'[m] = code[m]]_<<status, code>>

\* A loop that goes on until its message has an outcome.  One that is about to put
\* back a row another loop has put back throws out of its catch clause.
Stays(p, m) ==
  \/ pc[<<p, m>>] \notin {"off", "requeuing", "throwing", "dying"}
  \/ pc[<<p, m>>] = "requeuing" /\ status[m] \in Dispatched

Tended(m) == \E p \in Proc : up[p] /\ Stays(p, m)

(* A message is taken in hand by the process that accepts it and by every   *)
(* process that starts, and as long as no process dies one of its loops     *)
(* stays with it until it has an outcome: loops that throw out of #run      *)
(* because another one was faster never leave it to nobody.                 *)
TendedUntilDeath ==
  [][\A m \in Message :
       /\ Tended(m) \/ status[m] = "absent" \/ \E p \in Proc : ~up[p] /\ up'[p]
       /\ status'[m] \in Unfinished /\ deaths' = deaths
       => Tended(m)']_vars

Promise == INSTANCE DeliveryPromise WITH
  Mailbox <- Thread,
  Precedes <- {pair \in Message \X Message : pair[1] \in Older(pair[2])},
  outcome <- [m \in Message |->
               IF status[m] = "absent" THEN "none"
               ELSE IF status[m] \in Unfinished THEN "pending" ELSE status[m]],
  mailbox <- [m \in Message |-> ThreadOf(m)],
  copies <- [m \in Message |-> Len(turns[m])],
  late <- lateStarts

(* The scheduler implements the delivery promise.                           *)
KeepsPromise == Promise!PromiseSpec

Rows == INSTANCE MessageRows WITH
  unfinished <- {m \in Message : status[m] \in Unfinished},
  finished <- {m \in Message : status[m] \in Terminal},
  waiting <- {m \in Message : edge[m]}

(* The loops write rows and edges as admission takes them to: the steps     *)
(* Complete, FailOrRecover and CloseDependency of Admission are all.        *)
KeepsRows == Rows!RowsSpec

(* Every accepted message gets an outcome, through deaths, lost leases and *)
(* recipients that stay busy: its TTL ends it at the latest.                *)
EveryMessageSettles ==
  \A m \in Message : status[m] \in Unfinished ~> status[m] \in Terminal

-----------------------------------------------------------------------------
(* The inductive invariant behind the safety properties, by its parts.      *)

\* Rows are created in order, and a row without message has no other state.
Registered ==
  \A m \in Message :
    /\ status[m] # "absent" => \A n \in Older(m) : status[n] # "absent"
    /\ status[m] = "absent" =>
         /\ attempts[m] = 0 /\ turns[m] = <<>> /\ m \notin wire
         /\ \A p \in Proc : pc[<<p, m>>] = "off"

\* The waits a lease is sure to outlast.
Guarded == {"reading", "missing", "resuming", "renewed", "dispatched",
            "starting", "accepted"}

LeaseGuards ==
  \A p \in Proc, m \in Message : pc[<<p, m>>] \in Guarded => Holds(p, m)

\* A turn, and a request for one, is preceded by startAttempt.
Attempted ==
  /\ \A p \in Proc, m \in Message : pc[<<p, m>>] = "starting" => attempts[m] > 0
  /\ \A m \in Message : m \in wire \/ turns[m] # <<>> => attempts[m] > 0

\* What reconciling found out stays true up to turn/start, as long as the lease
\* is held.
Clear == {"missing", "resuming", "permit", "renewed", "dispatched", "starting"}

Reconciled ==
  \A p \in Proc, m \in Message :
    pc[<<p, m>>] \in Clear /\ Holds(p, m) => Len(turns[m]) <= lateStarts[m]

\* Once the head of its queue, a message is never preceded by an older one again;
\* a message of the same millisecond with a smaller id may still overtake it.
Leads(m) ==
  \A n \in Older(m) : ThreadOf(n) = ThreadOf(m) => status[n] \notin Unfinished

Headed ==
  \A m \in Message :
    attempts[m] > 0 \/ (\E p \in Proc : pc[<<p, m>>] \notin {"off", "poll"})
      => Leads(m)

\* So does the answer of thread/resume that the thread is idle.
Dispatch == {"permit", "renewed", "dispatched", "starting"}

Idle ==
  \A p \in Proc, m, n \in Message :
    /\ pc[<<p, m>>] \in Dispatch /\ Holds(p, m)
    /\ ThreadOf(n) = ThreadOf(m) /\ lateStarts[n] = 0
    => ~TurnActive(n)

(* The invariant that makes leases, reconciling and the queue order work    *)
(* together (#run, #reconcile and the lease repository).                    *)
DeliveryInvariant ==
  /\ TypeOK
  /\ Registered
  /\ LeaseGuards
  /\ Attempted
  /\ Reconciled
  /\ DuplicateOnlyWhenLate
  /\ Headed
  /\ Idle
  /\ OneTurnAtATime

-----------------------------------------------------------------------------
(* Statements of the documents that the code does not keep.                 *)

(* CODEX_INTER_AGENT_MESSAGING_BRIDGE.md:725: "If a matching recipient turn *)
(* already exists, attach to or recover that result": a turn that ended     *)
(* with a reply is not thrown away by an internal error.                    *)
ReplyIsRecovered ==
  \A m \in Message :
    status[m] = "failed" /\ code[m] = "DELIVERY_FAILED" =>
      \A k \in 1 .. Len(turns[m]) : turns[m][k] # "completed"

(* docs/ASYNC_MESSAGING.md:17: "A message that exceeds its TTL becomes      *)
(* expired without starting a new turn".                                    *)
NoTurnAfterExpiry ==
  [][\A p \in Proc, m \in Message : StartAttempt(p, m) => ~expired[m]]_vars

(* docs/ASYNC_MESSAGING.md:17: "recipient-turn failures become failed".     *)
FailedTurnIsNotDelivered ==
  \A m \in Message : status[m] = "completed" =>
    \E k \in 1 .. Len(turns[m]) : turns[m][k] \in {"completed", "silent"}
=============================================================================
