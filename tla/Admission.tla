------------------------------- MODULE Admission -------------------------------
(***************************************************************************)
(* How calls become messages: ask_agent (MessagingService.ask) and         *)
(* send_message or reply_to_message (AsyncMessagingService.#create) of     *)
(* several MCP processes on one database.                                  *)
(*                                                                         *)
(* A process handles a call up to the insertion of the row without an      *)
(* await, one call at a time; the other processes run between any two of   *)
(* its statements.  Validation that reads only the call is done before     *)
(* Lookup: a call it rejects changes nothing.  A reply is a send to the    *)
(* sender of a message that was sent to the process's agent.               *)
(***************************************************************************)
EXTENDS Naturals, Sequences, FiniteSets

CONSTANTS
  Proc,            \* MCP processes
  Agent,           \* agents
  Sender,          \* the agent of a process, options.senderAgentId
  Call,            \* the calls that are made: [from, ask, to, body, key]
  NoKey, NoCall,   \* a call without idempotency key; a process without call
  MaxQueueDepth,   \* config.maxQueueDepth
  MaxMessage       \* bound: messages that are created

ASSUME AdmissionAssumption ==
  /\ IsFiniteSet(Proc)
  /\ Sender \in [Proc -> Agent]
  /\ \A c \in Call : {c.from, c.to} \subseteq Agent /\ c.ask \in BOOLEAN
  /\ NoCall \notin Call
  /\ MaxQueueDepth \in Nat \ {0}
  /\ MaxMessage \in Nat

VARIABLES
  messages,   \* the rows, in the order of their creation
  waiting,    \* the messages with an active row in dependency_edges
  pc,         \* what a process does next for its call
  call,       \* the call a process handles
  answered,   \* the call that was answered in the last step, and by which message
  overlapped  \* history: the waiting asks inserted during another ask's insertion

vars == <<messages, waiting, pc, call, answered, overlapped>>

Id == 1 .. Len(messages)
Unfinished(m) == ~messages[m].finished

NoAnswer == [call |-> NoCall, message |-> 0]

Init ==
  /\ messages = <<>>
  /\ waiting = {}
  /\ pc = [p \in Proc |-> "idle"]
  /\ call = [p \in Proc |-> NoCall]
  /\ answered = NoAnswer
  /\ overlapped = {}

\* findByIdempotency; the unique index leaves at most one row.
Existing(c) ==
  {m \in Id : /\ c.key # NoKey
              /\ messages[m].from = c.from
              /\ messages[m].key = c.key}

\* Mutant of SameRequest: the text is not compared.
SameRecipient(m, c) == messages[m].to = c.to

SameRequest(m, c) == messages[m].to = c.to /\ messages[m].body = c.body

QueueDepth(a) == Cardinality({m \in Id : messages[m].to = a /\ Unfinished(m)})

\* The edges of some messages, as pairs of agents.
Edges(ids) == {<<messages[m].from, messages[m].to>> : m \in ids}

\* For whom a waits, directly or through others: the recursive query of
\* wouldCreateCycle, as the smallest set of agents closed under the edges.
Reachable(a, edges) ==
  {b \in Agent : \A S \in SUBSET Agent :
     (\A e \in edges : e[1] \in S \cup {a} => e[2] \in S) => b \in S}

WouldCreateCycle(from, to, edges) == from = to \/ from \in Reachable(to, edges)

-----------------------------------------------------------------------------
\* Mutant of Done: the finished call is kept.
DoneKeepingCall(p) == pc' = [pc EXCEPT ![p] = "idle"] /\ UNCHANGED call

Done(p) ==
  /\ pc' = [pc EXCEPT ![p] = "idle"]
  /\ call' = [call EXCEPT ![p] = NoCall]

Answer(p, c, m) == Done(p) /\ answered' = [call |-> c, message |-> m]

\* An error: nothing but the call is changed.
Refuse(p) == Done(p) /\ answered' = NoAnswer

\* The call arrives; a record with its key answers it or refuses it.
Lookup(p, c) ==
  /\ pc[p] = "idle"
  /\ c.from = Sender[p]
  /\ c.to # c.from
  /\ IF Existing(c) = {}
     THEN /\ pc' = [pc EXCEPT ![p] = "counting"]
          /\ call' = [call EXCEPT ![p] = c]
          /\ answered' = NoAnswer
     ELSE \E m \in Existing(c) :
            IF SameRequest(m, c) /\ (messages[m].ask => c.ask)
            THEN Answer(p, c, m) ELSE Refuse(p)
  /\ UNCHANGED <<messages, waiting, overlapped>>

\* Mutant of QueueFull: one more is let in.
QueueOverfull(p) == QueueDepth(call[p].to) > MaxQueueDepth

QueueFull(p) == QueueDepth(call[p].to) >= MaxQueueDepth

Count(p) ==
  /\ pc[p] = "counting"
  /\ IF QueueFull(p)
     THEN Refuse(p)
     ELSE /\ pc' = [pc EXCEPT ![p] = IF call[p].ask THEN "checking" ELSE "creating"]
          /\ answered' = NoAnswer
          /\ UNCHANGED call
  /\ UNCHANGED <<messages, waiting, overlapped>>

\* Mutant of ClosesCycle: who waits for the sender, not for whom the recipient waits.
ClosesCycleBackwards(p) == WouldCreateCycle(call[p].to, call[p].from, Edges(waiting))

\* The call chain of an MCP call is its sender, so only edges can close a cycle.
ClosesCycle(p) == WouldCreateCycle(call[p].from, call[p].to, Edges(waiting))

CheckCycle(p) ==
  /\ pc[p] = "checking"
  /\ IF ClosesCycle(p)
     THEN Refuse(p)
     ELSE /\ pc' = [pc EXCEPT ![p] = "creating"]
          /\ answered' = NoAnswer
          /\ UNCHANGED call
  /\ UNCHANGED <<messages, waiting, overlapped>>

Row(p) ==
  [from |-> call[p].from, to |-> call[p].to, body |-> call[p].body,
   key |-> call[p].key, ask |-> call[p].ask, finished |-> FALSE]

\* An ask that has been checked and is not yet inserted.
Inserting(p) == pc[p] = "creating" /\ call[p].ask

\* The row and the edge of an ask, in one transaction.
Insert(p) ==
  LET m == Len(messages) + 1 IN
  /\ m <= MaxMessage
  /\ messages' = Append(messages, Row(p))
  /\ waiting' = IF call[p].ask THEN waiting \cup {m} ELSE waiting
  /\ overlapped' = IF call[p].ask /\ \E q \in Proc \ {p} : Inserting(q)
                   THEN overlapped \cup {m} ELSE overlapped
  /\ Answer(p, call[p], m)

\* Mutant of Create: no ON CONFLICT clause, and no unique index.
CreateAgain(p) == pc[p] = "creating" /\ Insert(p)

\* MessageRepository.create: INSERT ... ON CONFLICT DO NOTHING.
Create(p) ==
  /\ pc[p] = "creating"
  /\ IF Existing(call[p]) = {}
     THEN Insert(p)
     ELSE /\ \E m \in Existing(call[p]) :
               IF SameRequest(m, call[p]) THEN Answer(p, call[p], m) ELSE Refuse(p)
          /\ UNCHANGED <<messages, waiting, overlapped>>

\* The process dies; another one of the same agent may follow it.
Crash(p) ==
  /\ pc[p] # "idle"
  /\ Refuse(p)
  /\ UNCHANGED <<messages, waiting, overlapped>>

-----------------------------------------------------------------------------
(* What the scheduler does to a row, in the words of DeliveryScheduler: a  *)
(* failure or a recovered reply closes the edge with the row, a completion *)
(* on the live path in a second step.                                      *)

Settle(m) ==
  /\ m \in Id
  /\ Unfinished(m)
  /\ messages' = [messages EXCEPT ![m].finished = TRUE]
  /\ answered' = NoAnswer
  /\ UNCHANGED <<pc, call>>

Complete(m) == Settle(m) /\ UNCHANGED <<waiting, overlapped>>

Close(m) ==
  /\ waiting' = waiting \ {m}
  /\ overlapped' = overlapped \ {m}

FailOrRecover(m) == Settle(m) /\ Close(m)

CloseDependency(m) ==
  /\ m \in waiting
  /\ ~Unfinished(m)
  /\ Close(m)
  /\ answered' = NoAnswer
  /\ UNCHANGED <<messages, pc, call>>

Next ==
  \/ \E p \in Proc : \/ \E c \in Call : Lookup(p, c)
                     \/ Count(p) \/ CheckCycle(p) \/ Create(p) \/ Crash(p)
  \/ \E m \in Id : Complete(m) \/ FailOrRecover(m) \/ CloseDependency(m)

Spec == Init /\ [][Next]_vars
=============================================================================
