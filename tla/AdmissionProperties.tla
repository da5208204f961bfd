------------------------- MODULE AdmissionProperties -------------------------
(* What admission must guarantee.                                           *)
EXTENDS Admission

Body == {c.body : c \in Call}
Key == {c.key : c \in Call}

MessageType ==
  [from : Agent, to : Agent, body : Body, key : Key, ask : BOOLEAN,
   finished : BOOLEAN]

CallsOK ==
  /\ pc \in [Proc -> {"idle", "counting", "checking", "creating"}]
  /\ call \in [Proc -> Call \cup {NoCall}]
  /\ \A p \in Proc :
       IF pc[p] = "idle"
       THEN call[p] = NoCall
       ELSE /\ call[p] # NoCall
            /\ call[p].from = Sender[p]
            /\ call[p].to # call[p].from

(* Rows, edges, calls and answers keep their types, and refer to messages   *)
(* that exist.                                                              *)
TypeOK ==
  /\ messages \in Seq(MessageType)
  /\ waiting \in SUBSET Id
  /\ CallsOK
  /\ answered \in [call : Call \cup {NoCall}, message : {0} \cup Id]
  /\ overlapped \in SUBSET waiting

(* An agent's idempotency key stands for one message, whichever processes   *)
(* of the agent use it at the same time.                                    *)
OneMessagePerKey ==
  \A m, n \in Id :
    /\ messages[m].key # NoKey
    /\ messages[m].key = messages[n].key
    /\ messages[m].from = messages[n].from
    => m = n

(* A call that is answered with a message is answered with its own request: *)
(* same sender, recipient and text.                                         *)
AnswerIsOwnRequest ==
  answered.message # 0 =>
    /\ messages[answered.message].from = answered.call.from
    /\ messages[answered.message].to = answered.call.to
    /\ messages[answered.message].body = answered.call.body

(* The queue of a recipient exceeds maxQueueDepth at most by the calls that *)
(* counted it at the same time: one per process that writes to it, less one.*)
Writer(a) == {p \in Proc : \E c \in Call : c.from = Sender[p] /\ c.to = a}

QueueBounded ==
  \A a \in Agent : QueueDepth(a) <= MaxQueueDepth - 1 + Cardinality(Writer(a))

(* Asks wait for each other in a ring only if one of the ring was inserted  *)
(* while another process had checked its own ask and not yet inserted it:   *)
(* a check at any time before, and edges that have come and gone since, are *)
(* enough to keep all other asks free of rings.                             *)
InTurn == waiting \ overlapped

NoRingInTurn ==
  \A m \in InTurn :
    ~WouldCreateCycle(messages[m].from, messages[m].to, Edges(InTurn))

Rows == INSTANCE MessageRows WITH
  unfinished <- {m \in Id : Unfinished(m)},
  finished <- {m \in Id : ~Unfinished(m)}

(* Admission writes rows and edges as the scheduler takes it to: a message  *)
(* is inserted once, unfinished and with its edge (Submit).                 *)
KeepsRows == Rows!RowsSpec

-----------------------------------------------------------------------------
(* docs/THREAT_MODEL.md:24: "Active dependency edges and authenticated call *)
(* chains reject ancestor cycles": no two agents wait for each other.       *)
NoCycle ==
  \A m \in waiting :
    ~WouldCreateCycle(messages[m].from, messages[m].to, Edges(waiting))
=============================================================================
