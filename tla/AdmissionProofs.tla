--------------------------- MODULE AdmissionProofs ---------------------------
(* Proofs about admission, for every number of processes, agents, calls and *)
(* messages.                                                                *)
EXTENDS AdmissionProperties, FiniteSetTheorems, TLAPS

(* An ask that is about to be inserted closes no ring of the asks in turn:  *)
(* whatever was inserted since its check has overlapped it.                 *)
Checked ==
  \A p \in Proc : Inserting(p) =>
    ~WouldCreateCycle(call[p].from, call[p].to, Edges(InTurn))

AdmissionInvariant ==
  TypeOK /\ OneMessagePerKey /\ AnswerIsOwnRequest /\ Checked /\ NoRingInTurn

LEMMA RowType ==
  ASSUME TypeOK, NEW p \in Proc, pc[p] # "idle"
  PROVE  /\ call[p] \in Call
         /\ Row(p) \in MessageType
<1>1. call[p] \in Call
  BY DEF TypeOK, CallsOK
<1>2. call[p].from \in Agent /\ call[p].to \in Agent /\ call[p].ask \in BOOLEAN
  BY <1>1, AdmissionAssumption
<1>3. call[p].body \in Body /\ call[p].key \in Key
  BY <1>1 DEF Body, Key
<1>4. QED
  BY <1>1, <1>2, <1>3 DEF Row, MessageType

(* The end of a call leaves its process idle.                               *)
LEMMA EndOfCall ==
  ASSUME CallsOK, NEW p \in Proc, Done(p)
  PROVE  CallsOK'
<1>1. pc' \in [Proc -> {"idle", "counting", "checking", "creating"}]
  BY DEF CallsOK, Done
<1>2. call' \in [Proc -> Call \cup {NoCall}]
  BY DEF CallsOK, Done
<1>3. ASSUME NEW q \in Proc
      PROVE  IF pc'[q] = "idle" THEN call'[q] = NoCall
             ELSE call'[q] # NoCall /\ call'[q].from = Sender[q] /\ call'[q].to # call'[q].from
  BY <1>3 DEF CallsOK, Done
<1>4. QED
  BY <1>1, <1>2, <1>3 DEF CallsOK

(* A call that goes on keeps its contents.                                  *)
LEMMA CallGoesOn ==
  ASSUME CallsOK, NEW p \in Proc, NEW l \in {"counting", "checking", "creating"},
         NEW c \in Call, c.from = Sender[p], c.to # c.from,
         pc' = [pc EXCEPT ![p] = l], call' = [call EXCEPT ![p] = c]
  PROVE  CallsOK'
<1>1. pc' \in [Proc -> {"idle", "counting", "checking", "creating"}]
  BY DEF CallsOK
<1>2. call' \in [Proc -> Call \cup {NoCall}]
  BY DEF CallsOK
<1>3. ASSUME NEW q \in Proc
      PROVE  IF pc'[q] = "idle" THEN call'[q] = NoCall
             ELSE call'[q] # NoCall /\ call'[q].from = Sender[q] /\ call'[q].to # call'[q].from
  <2>1. CASE q = p
    BY <1>1, <1>2, <2>1, AdmissionAssumption DEF CallsOK
  <2>2. CASE q # p
    BY <2>2 DEF CallsOK
  <2>3. QED
    BY <2>1, <2>2
<1>4. QED
  BY <1>1, <1>2, <1>3 DEF CallsOK

LEMMA TypeHolds ==
  ASSUME TypeOK, [Next]_vars
  PROVE  TypeOK'
<1> USE AdmissionAssumption
<1>0. NoAnswer \in [call : Call \cup {NoCall}, message : {0} \cup Id]
  BY DEF NoAnswer
<1>1. ASSUME NEW p \in Proc, NEW c \in Call, Lookup(p, c)
      PROVE  TypeOK'
  <2>1. UNCHANGED <<messages, waiting, overlapped>>
    BY <1>1 DEF Lookup
  <2>2. CASE Existing(c) = {}
    <3>1. CallsOK'
      BY <1>1, <2>2, CallGoesOn DEF Lookup, TypeOK
    <3>2. QED
      BY <1>0, <1>1, <2>1, <2>2, <3>1 DEF Lookup, TypeOK, Id
  <2>3. CASE Existing(c) # {}
    <3>1. PICK m \in Existing(c) : Answer(p, c, m) \/ Refuse(p)
      BY <1>1, <2>3 DEF Lookup
    <3>2. m \in Id
      BY DEF Existing
    <3>3. Done(p) /\ answered' \in [call : Call \cup {NoCall}, message : {0} \cup Id]
      BY <1>0, <3>1, <3>2 DEF Answer, Refuse
    <3>4. QED
      BY <2>1, <3>3, EndOfCall DEF TypeOK, Id
  <2>4. QED
    BY <2>2, <2>3
<1>2. ASSUME NEW p \in Proc, Count(p)
      PROVE  TypeOK'
  <2>1. UNCHANGED <<messages, waiting, overlapped>> /\ answered' = NoAnswer
    BY <1>2 DEF Count, Refuse
  <2>2. CASE QueueFull(p)
    BY <1>0, <1>2, <2>1, <2>2, EndOfCall DEF Count, Refuse, TypeOK, Id
  <2>3. CASE ~QueueFull(p)
    <3> DEFINE next == IF call[p].ask THEN "checking" ELSE "creating"
    <3>1. /\ pc' = [pc EXCEPT ![p] = next] /\ call' = [call EXCEPT ![p] = call[p]]
          /\ call[p] \in Call /\ call[p].from = Sender[p] /\ call[p].to # call[p].from
      BY <1>2, <2>3 DEF Count, TypeOK, CallsOK
    <3>2. CallsOK'
      BY <3>1, CallGoesOn DEF TypeOK
    <3>3. QED
      BY <1>0, <2>1, <3>2 DEF TypeOK, Id
  <2>4. QED
    BY <2>2, <2>3
<1>3. ASSUME NEW p \in Proc, CheckCycle(p)
      PROVE  TypeOK'
  <2>1. UNCHANGED <<messages, waiting, overlapped>> /\ answered' = NoAnswer
    BY <1>3 DEF CheckCycle, Refuse
  <2>2. CASE ClosesCycle(p)
    BY <1>0, <1>3, <2>1, <2>2, EndOfCall DEF CheckCycle, Refuse, TypeOK, Id
  <2>3. CASE ~ClosesCycle(p)
    <3>1. /\ pc' = [pc EXCEPT ![p] = "creating"] /\ call' = [call EXCEPT ![p] = call[p]]
          /\ call[p] \in Call /\ call[p].from = Sender[p] /\ call[p].to # call[p].from
      BY <1>3, <2>3 DEF CheckCycle, TypeOK, CallsOK
    <3>2. CallsOK'
      BY <3>1, CallGoesOn DEF TypeOK
    <3>3. QED
      BY <1>0, <2>1, <3>2 DEF TypeOK, Id
  <2>4. QED
    BY <2>2, <2>3
<1>4. ASSUME NEW p \in Proc, Create(p)
      PROVE  TypeOK'
  <2>1. call[p] \in Call /\ Row(p) \in MessageType
    BY <1>4, RowType DEF Create
  <2>2. CASE Existing(call[p]) = {}
    <3> DEFINE new == Len(messages) + 1
    <3>1. Insert(p)
      BY <1>4, <2>2 DEF Create
    <3>2. messages' = Append(messages, Row(p))
      BY <3>1 DEF Insert
    <3>3. messages' \in Seq(MessageType) /\ Id' = Id \cup {new}
      <4>1. messages' \in Seq(MessageType) /\ Len(messages') = new
        BY <2>1, <3>2 DEF TypeOK
      <4>2. Id' = Id \cup {new}
        BY <4>1 DEF TypeOK, Id
      <4>3. QED
        BY <4>1, <4>2
    <3>4. waiting' \in SUBSET Id' /\ overlapped' \in SUBSET waiting'
      BY <3>1, <3>3 DEF Insert, TypeOK
    <3>5. Done(p) /\ answered' \in [call : Call \cup {NoCall}, message : {0} \cup Id']
      BY <2>1, <3>1, <3>3 DEF Insert, Answer
    <3>6. QED
      BY <3>3, <3>4, <3>5, EndOfCall DEF TypeOK
  <2>3. CASE Existing(call[p]) # {}
    <3>1. PICK m \in Existing(call[p]) : Answer(p, call[p], m) \/ Refuse(p)
      BY <1>4, <2>3 DEF Create
    <3>2. m \in Id
      BY DEF Existing
    <3>3. Done(p) /\ answered' \in [call : Call \cup {NoCall}, message : {0} \cup Id]
      BY <1>0, <2>1, <3>1, <3>2 DEF Answer, Refuse
    <3>4. UNCHANGED <<messages, waiting, overlapped>>
      BY <1>4, <2>3 DEF Create
    <3>5. QED
      BY <3>3, <3>4, EndOfCall DEF TypeOK, Id
  <2>4. QED
    BY <2>2, <2>3
<1>5. ASSUME NEW p \in Proc, Crash(p)
      PROVE  TypeOK'
  BY <1>0, <1>5, EndOfCall DEF Crash, Refuse, TypeOK, Id
<1>6. ASSUME NEW m \in Id, Close(m), Id' = Id
      PROVE  waiting' \in SUBSET Id' /\ overlapped' \in SUBSET waiting'
  BY <1>6 DEF Close, TypeOK
<1>7. ASSUME NEW m, Settle(m)
      PROVE  messages' \in Seq(MessageType) /\ Len(messages') = Len(messages) /\ Id' = Id
  <2>1. messages[m] \in MessageType
    BY <1>7 DEF Settle, TypeOK, Id
  <2>2. [messages[m] EXCEPT !.finished = TRUE] \in MessageType
    BY <2>1 DEF MessageType
  <2>3. messages' \in Seq(MessageType) /\ Len(messages') = Len(messages)
    BY <1>7, <2>2 DEF Settle, TypeOK, Id
  <2>4. QED
    BY <2>3 DEF Id
<1>8. ASSUME NEW m \in Id, Complete(m)
      PROVE  TypeOK'
  BY <1>0, <1>7, <1>8 DEF Complete, Settle, TypeOK, CallsOK
<1>9. ASSUME NEW m \in Id, FailOrRecover(m)
      PROVE  TypeOK'
  <2>1. Settle(m) /\ Close(m)
    BY <1>9 DEF FailOrRecover
  <2>2. messages' \in Seq(MessageType) /\ Len(messages') = Len(messages) /\ Id' = Id
    BY <1>7, <2>1
  <2>3. waiting' \in SUBSET Id' /\ overlapped' \in SUBSET waiting'
    BY <1>6, <2>1, <2>2
  <2>4. CallsOK' /\ answered' = NoAnswer
    BY <2>1 DEF Settle, TypeOK, CallsOK
  <2>5. QED
    BY <1>0, <2>2, <2>3, <2>4 DEF TypeOK
<1>10. ASSUME NEW m \in Id, CloseDependency(m)
       PROVE  TypeOK'
  <2>1. Id' = Id /\ UNCHANGED messages /\ Close(m)
    BY <1>10 DEF CloseDependency, Id
  <2>2. waiting' \in SUBSET Id' /\ overlapped' \in SUBSET waiting'
    BY <1>6, <2>1
  <2>3. CallsOK' /\ answered' = NoAnswer
    BY <1>10 DEF CloseDependency, TypeOK, CallsOK
  <2>4. QED
    BY <1>0, <2>1, <2>2, <2>3 DEF TypeOK
<1>11. CASE UNCHANGED vars
  BY <1>11 DEF vars, TypeOK, CallsOK, Id
<1>12. QED
  BY <1>1, <1>2, <1>3, <1>4, <1>5, <1>8, <1>9, <1>10, <1>11 DEF Next

(* Rows, calls, edges and answers have their types in every behaviour.      *)
THEOREM AdmissionTypeCorrect == Spec => []TypeOK
<1>1. Init => TypeOK
  BY AdmissionAssumption DEF Init, TypeOK, CallsOK, NoAnswer, Id
<1>2. TypeOK /\ [Next]_vars => TypeOK'
  BY TypeHolds
<1>3. QED
  BY <1>1, <1>2, PTL DEF Spec

-----------------------------------------------------------------------------
(* What no step changes in a row.                                           *)
Kept(m) ==
  /\ messages'[m].from = messages[m].from
  /\ messages'[m].to = messages[m].to
  /\ messages'[m].body = messages[m].body
  /\ messages'[m].key = messages[m].key

(* An insertion appends the row of its call.                                *)
LEMMA Inserted ==
  ASSUME TypeOK, NEW p \in Proc, Insert(p)
  PROVE  LET new == Len(messages) + 1 IN
         /\ Id' = Id \cup {new} /\ new \notin Id
         /\ messages'[new] = Row(p)
         /\ \A m \in Id : messages'[m] = messages[m]
<1>1. messages \in Seq(MessageType)
  BY DEF TypeOK
<1>2. messages' = Append(messages, Row(p))
  BY DEF Insert
<1>3. QED
  BY <1>1, <1>2 DEF Id

(* Every other step leaves the requests of all rows alone.                  *)
LEMMA RowsKept ==
  ASSUME TypeOK, [Next]_vars
  PROVE  \/ \E p \in Proc : Create(p) /\ Existing(call[p]) = {} /\ Insert(p)
         \/ Id' = Id /\ \A m \in Id : Kept(m)
<1>1. UNCHANGED messages => Id' = Id /\ \A m \in Id : Kept(m)
  BY DEF Id, Kept
<1>2. ASSUME NEW m, Settle(m)
      PROVE  Id' = Id /\ \A n \in Id : Kept(n)
  BY <1>2 DEF Settle, TypeOK, MessageType, Id, Kept
<1>3. ASSUME NEW p \in Proc, Create(p), Existing(call[p]) # {}
      PROVE  UNCHANGED messages
  BY <1>3 DEF Create
<1>4. ASSUME NEW p \in Proc, Create(p), Existing(call[p]) = {}
      PROVE  Insert(p)
  BY <1>4 DEF Create
<1>5. QED
  BY <1>1, <1>2, <1>3, <1>4
     DEF Next, vars, Lookup, Count, CheckCycle, Crash, Complete, FailOrRecover, CloseDependency

LEMMA KeysHold ==
  ASSUME TypeOK, OneMessagePerKey, [Next]_vars
  PROVE  OneMessagePerKey'
<1>1. CASE Id' = Id /\ \A m \in Id : Kept(m)
  BY <1>1 DEF OneMessagePerKey, Kept
<1>2. ASSUME NEW p \in Proc, Existing(call[p]) = {}, Insert(p)
      PROVE  OneMessagePerKey'
  <2> DEFINE new == Len(messages) + 1
  <2>1. /\ Id' = Id \cup {new} /\ messages'[new] = Row(p)
        /\ \A m \in Id : messages'[m] = messages[m]
    BY <1>2, Inserted
  <2>2. messages'[new].from = call[p].from /\ messages'[new].key = call[p].key
    BY <2>1 DEF Row
  <2>3. ASSUME NEW m \in Id, messages'[new].key # NoKey,
               messages'[m].key = messages'[new].key, messages'[m].from = messages'[new].from
        PROVE  FALSE
    BY <1>2, <2>1, <2>2, <2>3 DEF Existing
  <2>4. QED
    BY <2>1, <2>3 DEF OneMessagePerKey
<1>3. QED
  BY <1>1, <1>2, RowsKept

LEMMA AnswersHold ==
  ASSUME TypeOK, AnswerIsOwnRequest, [Next]_vars
  PROVE  AnswerIsOwnRequest'
<1>1. answered' = NoAnswer => AnswerIsOwnRequest'
  BY DEF NoAnswer, AnswerIsOwnRequest
<1>2. ASSUME NEW p \in Proc, NEW c, NEW m \in Existing(c),
             SameRequest(m, c), Answer(p, c, m), UNCHANGED messages
      PROVE  AnswerIsOwnRequest'
  BY <1>2 DEF Existing, SameRequest, Answer, AnswerIsOwnRequest
<1>3. ASSUME NEW p \in Proc, NEW c \in Call, Lookup(p, c)
      PROVE  AnswerIsOwnRequest'
  BY <1>1, <1>2, <1>3 DEF Lookup, Refuse
<1>4. ASSUME NEW p \in Proc, Create(p)
      PROVE  AnswerIsOwnRequest'
  <2>1. CASE Existing(call[p]) = {}
    <3>1. messages'[Len(messages) + 1] = Row(p)
      BY <1>4, <2>1, Inserted DEF Create
    <3>2. answered' = [call |-> call[p], message |-> Len(messages) + 1]
      BY <1>4, <2>1 DEF Create, Insert, Answer
    <3>3. QED
      BY <3>1, <3>2 DEF Row, AnswerIsOwnRequest
  <2>2. CASE Existing(call[p]) # {}
    BY <1>1, <1>2, <1>4, <2>2 DEF Create, Refuse
  <2>3. QED
    BY <2>1, <2>2
<1>5. CASE UNCHANGED vars
  BY <1>5 DEF vars, AnswerIsOwnRequest
<1>6. QED
  BY <1>1, <1>3, <1>4, <1>5
     DEF Next, Count, CheckCycle, Crash, Refuse, Complete, FailOrRecover, Settle, CloseDependency

-----------------------------------------------------------------------------
(* Cycles of agents.  That x does not wait for y is shown by a set of       *)
(* agents: y is in it, x is not, and no edge leads out of it.               *)

Closed(C, E) == \A e \in E : e[1] \in C => e[2] \in C

LEMMA NoCycleShown ==
  ASSUME NEW E, NEW x \in Agent, NEW y \in Agent, ~WouldCreateCycle(x, y, E)
  PROVE  \E C \in SUBSET Agent : y \in C /\ x \notin C /\ Closed(C, E)
<1>1. x # y /\ x \notin Reachable(y, E)
  BY DEF WouldCreateCycle
<1>2. PICK S \in SUBSET Agent : /\ \A e \in E : e[1] \in S \cup {y} => e[2] \in S
                                /\ x \notin S
  BY <1>1 DEF Reachable
<1>3. Closed(S \cup {y}, E)
  BY <1>2 DEF Closed
<1>4. QED
  BY <1>1, <1>2, <1>3

LEMMA ShownNoCycle ==
  ASSUME NEW E, NEW x, NEW y, NEW C \in SUBSET Agent, y \in C, x \notin C, Closed(C, E)
  PROVE  ~WouldCreateCycle(x, y, E)
<1>1. \A e \in E : e[1] \in C \cup {y} => e[2] \in C
  BY DEF Closed
<1>2. x \notin Reachable(y, E)
  BY <1>1 DEF Reachable
<1>3. QED
  BY <1>2 DEF WouldCreateCycle

(* With fewer edges no more cycles are found.                               *)
LEMMA FewerEdges ==
  ASSUME NEW x, NEW y, NEW E, NEW F, E \subseteq F, ~WouldCreateCycle(x, y, F)
  PROVE  ~WouldCreateCycle(x, y, E)
<1>1. ASSUME x \in Reachable(y, E)
      PROVE  x \in Reachable(y, F)
  BY <1>1 DEF Reachable
<1>2. QED
  BY <1>1 DEF WouldCreateCycle

(* An edge whose ends close no cycle makes no edge that was there one of a  *)
(* cycle.                                                                   *)
LEMMA NewEdge ==
  ASSUME NEW E, NEW f \in Agent, NEW t \in Agent, ~WouldCreateCycle(f, t, E),
         NEW x \in Agent, NEW y \in Agent,
         \/ x = f /\ y = t
         \/ <<x, y>> \in E /\ ~WouldCreateCycle(x, y, E)
  PROVE  ~WouldCreateCycle(x, y, E \cup {<<f, t>>})
<1>1. PICK T \in SUBSET Agent : t \in T /\ f \notin T /\ Closed(T, E)
  BY NoCycleShown
<1>2. ASSUME NEW C \in SUBSET Agent, Closed(C, E), t \in C \/ f \notin C
      PROVE  Closed(C, E \cup {<<f, t>>})
  BY <1>2 DEF Closed
<1>3. CASE x = f /\ y = t
  BY <1>1, <1>2, <1>3, ShownNoCycle
<1>4. CASE <<x, y>> \in E /\ ~WouldCreateCycle(x, y, E)
  <2>1. PICK C \in SUBSET Agent : y \in C /\ x \notin C /\ Closed(C, E)
    BY <1>4, NoCycleShown
  <2>2. CASE x \in T
    <3> DEFINE D == C \cap T
    <3>1. y \in T
      BY <1>1, <1>4, <2>2 DEF Closed
    <3>2. D \in SUBSET Agent /\ y \in D /\ x \notin D /\ f \notin D /\ Closed(D, E)
      BY <1>1, <2>1, <3>1 DEF Closed
    <3>3. Closed(D, E \cup {<<f, t>>})
      BY <1>2, <3>2
    <3> HIDE DEF D
    <3>4. QED
      BY <3>2, <3>3, ShownNoCycle
  <2>3. CASE x \notin T
    <3> DEFINE D == C \cup T
    <3>1. D \in SUBSET Agent /\ y \in D /\ x \notin D /\ t \in D /\ Closed(D, E)
      BY <1>1, <2>1, <2>3 DEF Closed
    <3>2. Closed(D, E \cup {<<f, t>>})
      BY <1>2, <3>1
    <3> HIDE DEF D
    <3>3. QED
      BY <3>1, <3>2, ShownNoCycle
  <2>4. QED
    BY <2>2, <2>3
<1>5. QED
  BY <1>3, <1>4

-----------------------------------------------------------------------------
(* A step that adds no edge to those in turn and lets no process begin an   *)
(* insertion.                                                               *)
LEMMA CyclesFrame ==
  ASSUME TypeOK, Checked, NoRingInTurn,
         \A m \in Id : Kept(m),
         InTurn' \subseteq InTurn,
         \A q \in Proc : Inserting(q)' => Inserting(q) /\ call'[q] = call[q]
  PROVE  Checked' /\ NoRingInTurn'
<1>1. InTurn \subseteq Id
  BY DEF TypeOK, InTurn
<1>2. Edges(InTurn)' \subseteq Edges(InTurn)
  BY <1>1 DEF Edges, Kept
<1>3. ASSUME NEW q \in Proc, Inserting(q)'
      PROVE  ~WouldCreateCycle(call'[q].from, call'[q].to, Edges(InTurn)')
  <2>1. ~WouldCreateCycle(call'[q].from, call'[q].to, Edges(InTurn))
    BY <1>3 DEF Checked
  <2>2. QED
    BY <1>2, <2>1, FewerEdges
<1>4. ASSUME NEW m \in InTurn'
      PROVE  ~WouldCreateCycle(messages'[m].from, messages'[m].to, Edges(InTurn)')
  <2>1. m \in InTurn /\ m \in Id
    BY <1>1, <1>4
  <2>2. ~WouldCreateCycle(messages'[m].from, messages'[m].to, Edges(InTurn))
    BY <2>1 DEF NoRingInTurn, Kept
  <2>3. QED
    BY <1>2, <2>2, FewerEdges
<1>5. QED
  BY <1>3, <1>4 DEF Checked, NoRingInTurn

(* An ask that is inserted while no other one is between its check and its  *)
(* insertion is in turn, and closes no ring; one that is inserted beside    *)
(* another changes nothing for those in turn.                               *)
LEMMA CyclesInserted ==
  ASSUME TypeOK, Checked, NoRingInTurn, NEW p \in Proc, pc[p] = "creating", Insert(p)
  PROVE  Checked' /\ NoRingInTurn'
<1> DEFINE new == Len(messages) + 1
<1>1. /\ new \notin Id /\ messages'[new] = Row(p)
      /\ \A m \in Id : messages'[m] = messages[m]
  BY Inserted
<1>2. \A m \in Id : Kept(m)
  BY <1>1 DEF Kept
<1>3. Done(p)
  BY DEF Insert, Answer
<1>4. \A q \in Proc : Inserting(q)' => q # p /\ Inserting(q) /\ call'[q] = call[q]
  BY <1>3 DEF Done, Inserting, TypeOK, CallsOK
<1>5. CASE ~call[p].ask \/ \E q \in Proc \ {p} : Inserting(q)
  <2>1. InTurn' \subseteq InTurn
    BY <1>5 DEF Insert, InTurn
  <2>2. QED
    BY <1>2, <1>4, <2>1, CyclesFrame
<1>6. CASE call[p].ask /\ \A q \in Proc \ {p} : ~Inserting(q)
  <2> DEFINE f == call[p].from
             t == call[p].to
             E == Edges(InTurn)
  <2>1. InTurn \subseteq Id
    BY DEF TypeOK, InTurn
  <2>2. InTurn' = InTurn \cup {new}
    <3>1. waiting' = waiting \cup {new} /\ UNCHANGED overlapped
      BY <1>6 DEF Insert
    <3>2. new \notin overlapped
      BY <1>1 DEF TypeOK
    <3>3. QED
      BY <3>1, <3>2 DEF InTurn
  <2>3. Edges(InTurn)' = E \cup {<<f, t>>}
    <3>1. messages'[new].from = f /\ messages'[new].to = t
      BY <1>1 DEF Row
    <3>2. Edges(InTurn)' = {<<messages'[m].from, messages'[m].to>> : m \in InTurn \cup {new}}
      BY <2>2 DEF Edges
    <3>3. QED
      BY <1>1, <2>1, <3>1, <3>2 DEF Edges
  <2>4. f \in Agent /\ t \in Agent
    <3>1. Row(p) \in MessageType
      BY RowType
    <3>2. QED
      BY <3>1 DEF Row, MessageType
  <2>5. ~WouldCreateCycle(f, t, E)
    BY <1>6 DEF Checked, Inserting
  <2>6. ASSUME NEW m \in InTurn'
        PROVE  ~WouldCreateCycle(messages'[m].from, messages'[m].to, Edges(InTurn)')
    <3>1. CASE m = new
      <4>1. messages'[m].from = f /\ messages'[m].to = t
        BY <1>1, <3>1 DEF Row
      <4> HIDE DEF f, t, E
      <4>2. ~WouldCreateCycle(f, t, E \cup {<<f, t>>})
        BY <2>4, <2>5, NewEdge
      <4>3. QED
        BY <2>3, <4>1, <4>2
    <3>2. CASE m # new
      <4>1. m \in InTurn /\ m \in Id /\ messages'[m] = messages[m]
        BY <1>1, <2>1, <2>2, <2>6, <3>2
      <4>2. ~WouldCreateCycle(messages[m].from, messages[m].to, E)
        BY <4>1 DEF NoRingInTurn
      <4>3. messages[m].from \in Agent /\ messages[m].to \in Agent
        <5>1. messages[m] \in MessageType
          BY <4>1 DEF TypeOK, Id
        <5>2. QED
          BY <5>1 DEF MessageType
      <4>4. <<messages[m].from, messages[m].to>> \in E
        BY <4>1 DEF Edges
      <4> HIDE DEF f, t, E
      <4>5. ~WouldCreateCycle(messages[m].from, messages[m].to, E \cup {<<f, t>>})
        BY <2>4, <2>5, <4>2, <4>3, <4>4, NewEdge
      <4>6. QED
        BY <2>3, <4>1, <4>5
    <3>3. QED
      BY <3>1, <3>2
  <2>7. Checked'
    BY <1>4, <1>6 DEF Checked
  <2>8. QED
    BY <2>6, <2>7 DEF NoRingInTurn
<1>7. QED
  BY <1>5, <1>6

LEMMA CyclesHold ==
  ASSUME TypeOK, Checked, NoRingInTurn, [Next]_vars
  PROVE  Checked' /\ NoRingInTurn'
<1>1. UNCHANGED <<messages, waiting, overlapped>>
        => (\A m \in Id : Kept(m)) /\ InTurn' = InTurn
  BY DEF Kept, InTurn
<1>2. ASSUME NEW p \in Proc, Done(p), NEW q \in Proc, Inserting(q)'
      PROVE  Inserting(q) /\ call'[q] = call[q]
  BY <1>2 DEF Done, Inserting, TypeOK, CallsOK
<1>3. ASSUME NEW p \in Proc, NEW c \in Call, Lookup(p, c)
      PROVE  Checked' /\ NoRingInTurn'
  <2>1. UNCHANGED <<messages, waiting, overlapped>>
    BY <1>3 DEF Lookup
  <2>2. CASE Existing(c) # {}
    BY <1>1, <1>2, <1>3, <2>1, <2>2, CyclesFrame DEF Lookup, Answer, Refuse
  <2>3. CASE Existing(c) = {}
    <3>1. \A q \in Proc : Inserting(q)' => Inserting(q) /\ call'[q] = call[q]
      BY <1>3, <2>3 DEF Lookup, Inserting, TypeOK, CallsOK
    <3>2. QED
      BY <1>1, <2>1, <3>1, CyclesFrame
  <2>4. QED
    BY <2>2, <2>3
<1>4. ASSUME NEW p \in Proc, Count(p)
      PROVE  Checked' /\ NoRingInTurn'
  <2>1. UNCHANGED <<messages, waiting, overlapped>>
    BY <1>4 DEF Count
  <2>2. CASE QueueFull(p)
    BY <1>1, <1>2, <1>4, <2>1, <2>2, CyclesFrame DEF Count, Refuse
  <2>3. CASE ~QueueFull(p)
    <3>1. \A q \in Proc : Inserting(q)' => Inserting(q) /\ call'[q] = call[q]
      BY <1>4, <2>3 DEF Count, Inserting, TypeOK, CallsOK
    <3>2. QED
      BY <1>1, <2>1, <3>1, CyclesFrame
  <2>4. QED
    BY <2>2, <2>3
<1>5. ASSUME NEW p \in Proc, CheckCycle(p)
      PROVE  Checked' /\ NoRingInTurn'
  <2>1. UNCHANGED <<messages, waiting, overlapped>>
    BY <1>5 DEF CheckCycle
  <2>2. CASE ClosesCycle(p)
    BY <1>1, <1>2, <1>5, <2>1, <2>2, CyclesFrame DEF CheckCycle, Refuse
  <2>3. CASE ~ClosesCycle(p)
    <3>1. pc' = [pc EXCEPT ![p] = "creating"] /\ UNCHANGED call
      BY <1>5, <2>3 DEF CheckCycle
    <3>2. Edges(InTurn)' = Edges(InTurn) /\ Edges(InTurn) \subseteq Edges(waiting)
      BY <2>1 DEF Edges, InTurn
    <3>3. ~WouldCreateCycle(call[p].from, call[p].to, Edges(InTurn))
      BY <2>3, <3>2, FewerEdges DEF ClosesCycle
    <3>4. \A q \in Proc : Inserting(q)' => q = p \/ Inserting(q)
      BY <3>1 DEF Inserting, TypeOK, CallsOK
    <3>5. Checked'
      BY <3>1, <3>2, <3>3, <3>4 DEF Checked
    <3>6. NoRingInTurn'
      BY <2>1 DEF NoRingInTurn, InTurn, Edges
    <3>7. QED
      BY <3>5, <3>6
  <2>4. QED
    BY <2>2, <2>3
<1>6. ASSUME NEW p \in Proc, Create(p)
      PROVE  Checked' /\ NoRingInTurn'
  <2>1. CASE Existing(call[p]) = {}
    BY <1>6, <2>1, CyclesInserted DEF Create
  <2>2. CASE Existing(call[p]) # {}
    <3>1. Done(p) /\ UNCHANGED <<messages, waiting, overlapped>>
      BY <1>6, <2>2 DEF Create, Answer, Refuse
    <3>2. QED
      BY <1>1, <1>2, <3>1, CyclesFrame
  <2>3. QED
    BY <2>1, <2>2
<1>7. ASSUME NEW p \in Proc, Crash(p)
      PROVE  Checked' /\ NoRingInTurn'
  BY <1>1, <1>2, <1>7, CyclesFrame DEF Crash, Refuse
<1>8. ASSUME NEW m, Settle(m)
      PROVE  (\A n \in Id : Kept(n)) /\ UNCHANGED <<pc, call>>
  BY <1>8 DEF Settle, TypeOK, MessageType, Id, Kept
<1>9. ASSUME NEW m, Close(m)
      PROVE  InTurn' \subseteq InTurn
  BY <1>9 DEF Close, InTurn
<1>10. UNCHANGED <<pc, call>>
         => \A q \in Proc : Inserting(q)' => Inserting(q) /\ call'[q] = call[q]
  BY DEF Inserting
<1>11. ASSUME NEW m \in Id, Complete(m)
       PROVE  Checked' /\ NoRingInTurn'
  <2>1. InTurn' = InTurn
    BY <1>11 DEF Complete, InTurn
  <2>2. QED
    BY <1>8, <1>10, <1>11, <2>1, CyclesFrame DEF Complete
<1>12. ASSUME NEW m \in Id, FailOrRecover(m)
       PROVE  Checked' /\ NoRingInTurn'
  BY <1>8, <1>9, <1>10, <1>12, CyclesFrame DEF FailOrRecover
<1>13. ASSUME NEW m \in Id, CloseDependency(m)
       PROVE  Checked' /\ NoRingInTurn'
  <2>1. \A n \in Id : Kept(n)
    BY <1>13 DEF CloseDependency, Kept
  <2>2. QED
    BY <1>9, <1>10, <1>13, <2>1, CyclesFrame DEF CloseDependency
<1>14. CASE UNCHANGED vars
  BY <1>1, <1>10, <1>14, CyclesFrame DEF vars
<1>15. QED
  BY <1>3, <1>4, <1>5, <1>6, <1>7, <1>11, <1>12, <1>13, <1>14 DEF Next

-----------------------------------------------------------------------------
(* The parts of the invariant hold together in every behaviour.             *)
THEOREM AdmissionInvariantCorrect == Spec => []AdmissionInvariant
<1>1. Init => AdmissionInvariant
  <2> SUFFICES ASSUME Init PROVE AdmissionInvariant
    OBVIOUS
  <2>1. TypeOK
    BY AdmissionAssumption DEF Init, TypeOK, CallsOK, NoAnswer, Id
  <2>2. OneMessagePerKey /\ AnswerIsOwnRequest /\ Checked /\ NoRingInTurn
    BY DEF Init, OneMessagePerKey, AnswerIsOwnRequest, Checked, Inserting, NoRingInTurn, InTurn, NoAnswer, Id
  <2>3. QED
    BY <2>1, <2>2 DEF AdmissionInvariant
<1>2. AdmissionInvariant /\ [Next]_vars => AdmissionInvariant'
  BY TypeHolds, KeysHold, AnswersHold, CyclesHold DEF AdmissionInvariant
<1>3. QED
  BY <1>1, <1>2, PTL DEF Spec

(* However many processes of an agent use a key at the same time, it stands *)
(* for one message.                                                         *)
THEOREM UniqueKey == Spec => []OneMessagePerKey
  BY AdmissionInvariantCorrect, PTL DEF AdmissionInvariant

(* A call is answered with its own request or not at all.                   *)
THEOREM OwnAnswer == Spec => []AnswerIsOwnRequest
  BY AdmissionInvariantCorrect, PTL DEF AdmissionInvariant

(* Of all asks that are in a ring, one was inserted between the check and   *)
(* the insertion of another process's ask: without that race the edges form *)
(* no cycle, in whatever order calls are made and edges are closed.         *)
THEOREM RingsNeedARace == Spec => []NoRingInTurn
  BY AdmissionInvariantCorrect, PTL DEF AdmissionInvariant

-----------------------------------------------------------------------------
(* The queue of a recipient, and the processes that have counted it and may *)
(* add to it.                                                               *)
Queue(a) == {m \in Id : messages[m].to = a /\ Unfinished(m)}

Passed(a) == {p \in Proc : pc[p] \in {"checking", "creating"} /\ call[p].to = a}

(* Each writer that has counted takes the place of a message in the bound.  *)
Places ==
  \A a \in Agent :
    QueueDepth(a) + Cardinality(Passed(a)) <= MaxQueueDepth - 1 + Cardinality(Writer(a))

LEMMA FiniteQueues ==
  ASSUME TypeOK, NEW a
  PROVE  /\ IsFiniteSet(Queue(a)) /\ QueueDepth(a) = Cardinality(Queue(a))
         /\ QueueDepth(a) \in Nat
         /\ IsFiniteSet(Passed(a)) /\ Cardinality(Passed(a)) \in Nat
         /\ IsFiniteSet(Writer(a)) /\ Cardinality(Writer(a)) \in Nat
         /\ Passed(a) \subseteq Writer(a)
<1>1. Len(messages) \in Int /\ 1 \in Int
  BY DEF TypeOK
<1>2. IsFiniteSet(Id)
  BY <1>1, FS_Interval DEF Id
<1>3. Queue(a) \in SUBSET Id /\ Passed(a) \in SUBSET Proc /\ Writer(a) \in SUBSET Proc
  BY DEF Queue, Passed, Writer
<1>4. IsFiniteSet(Queue(a)) /\ IsFiniteSet(Passed(a)) /\ IsFiniteSet(Writer(a))
  BY <1>2, <1>3, AdmissionAssumption, FS_Subset
<1>5. QueueDepth(a) = Cardinality(Queue(a))
  BY DEF QueueDepth, Queue
<1>6. Passed(a) \subseteq Writer(a)
  BY DEF TypeOK, CallsOK, Passed, Writer
<1>7. QED
  BY <1>4, <1>5, <1>6, FS_CardinalityType

LEMMA PlacesHold ==
  ASSUME TypeOK, Places, [Next]_vars
  PROVE  Places'
<1> USE AdmissionAssumption
<1>1. TypeOK'
  BY TypeHolds
<1>2. \A a : Writer(a)' = Writer(a)
  BY DEF Writer
<1>3. ASSUME NEW a \in Agent, Queue(a)' \subseteq Queue(a), Passed(a)' \subseteq Passed(a)
      PROVE  QueueDepth(a)' + Cardinality(Passed(a)') <= MaxQueueDepth - 1 + Cardinality(Writer(a)')
  <2>1. /\ Cardinality(Queue(a)') <= Cardinality(Queue(a))
        /\ Cardinality(Passed(a)') <= Cardinality(Passed(a))
    BY <1>3, FiniteQueues, FS_Subset
  <2>2. QueueDepth(a)' = Cardinality(Queue(a)')
    BY DEF QueueDepth, Queue
  <2>3. QueueDepth(a)' \in Nat /\ Cardinality(Passed(a)') \in Nat
    <3>1. IsFiniteSet(Queue(a)') /\ IsFiniteSet(Passed(a)')
      BY <1>3, FiniteQueues, FS_Subset
    <3>2. QED
      BY <2>2, <3>1, FS_CardinalityType
  <2>4. QueueDepth(a) + Cardinality(Passed(a)) <= MaxQueueDepth - 1 + Cardinality(Writer(a))
    BY DEF Places
  <2>5. QED
    BY <1>2, <2>1, <2>2, <2>3, <2>4, FiniteQueues
<1>4. ASSUME UNCHANGED messages, NEW a
      PROVE  Queue(a)' = Queue(a)
  BY <1>4 DEF Queue, Id, Unfinished
<1>5. ASSUME NEW p \in Proc, Done(p), NEW a
      PROVE  Passed(a)' = Passed(a) \ {p}
  BY <1>5 DEF Done, Passed, TypeOK, CallsOK
<1>6. ASSUME NEW m, Settle(m), NEW a
      PROVE  Queue(a)' \subseteq Queue(a) /\ Passed(a)' = Passed(a)
  BY <1>6 DEF Settle, Queue, Passed, Id, Unfinished, TypeOK, MessageType
<1>7. ASSUME NEW p \in Proc, NEW c \in Call, Lookup(p, c)
      PROVE  Places'
  <2>1. UNCHANGED messages
    BY <1>7 DEF Lookup
  <2>2. ASSUME NEW a
        PROVE  Passed(a)' \subseteq Passed(a)
    <3>1. CASE Existing(c) = {}
      BY <1>7, <3>1 DEF Lookup, Passed, TypeOK, CallsOK
    <3>2. CASE Existing(c) # {}
      BY <1>5, <1>7, <3>2 DEF Lookup, Answer, Refuse
    <3>3. QED
      BY <3>1, <3>2
  <2>3. QED
    BY <1>3, <1>4, <2>1, <2>2 DEF Places
<1>8. ASSUME NEW p \in Proc, Count(p)
      PROVE  Places'
  <2>1. UNCHANGED messages
    BY <1>8 DEF Count
  <2>2. CASE QueueFull(p)
    BY <1>3, <1>4, <1>5, <1>8, <2>1, <2>2 DEF Count, Refuse, Places
  <2>3. CASE ~QueueFull(p)
    <3>1. UNCHANGED call /\ \A q \in Proc \ {p} : pc'[q] = pc[q]
      BY <1>8, <2>3 DEF Count, TypeOK, CallsOK
    <3>2. ASSUME NEW a \in Agent, a # call[p].to
          PROVE  Passed(a)' \subseteq Passed(a)
      BY <3>1, <3>2 DEF Passed
    <3>3. ASSUME NEW a \in Agent, a = call[p].to
          PROVE  QueueDepth(a)' + Cardinality(Passed(a)') <= MaxQueueDepth - 1 + Cardinality(Writer(a)')
      <4>1. QueueDepth(a) <= MaxQueueDepth - 1 /\ QueueDepth(a) \in Nat
        BY <2>3, <3>3, FiniteQueues DEF QueueFull
      <4>2. QueueDepth(a)' = QueueDepth(a)
        BY <2>1 DEF QueueDepth, Id, Unfinished
      <4>3. Passed(a)' \in SUBSET Writer(a)
        BY <1>1, <1>2 DEF TypeOK, CallsOK, Passed, Writer
      <4>4. Cardinality(Passed(a)') <= Cardinality(Writer(a)) /\ Cardinality(Passed(a)') \in Nat
        BY <4>3, FiniteQueues, FS_Subset, FS_CardinalityType
      <4>5. QED
        BY <1>2, <4>1, <4>2, <4>4, FiniteQueues
    <3>4. QED
      BY <1>3, <1>4, <2>1, <3>2, <3>3 DEF Places
  <2>4. QED
    BY <2>2, <2>3
<1>9. ASSUME NEW p \in Proc, CheckCycle(p)
      PROVE  Places'
  <2>1. UNCHANGED messages
    BY <1>9 DEF CheckCycle
  <2>2. ASSUME NEW a
        PROVE  Passed(a)' \subseteq Passed(a)
    BY <1>9 DEF CheckCycle, Refuse, Done, Passed, TypeOK, CallsOK
  <2>3. QED
    BY <1>3, <1>4, <2>1, <2>2 DEF Places
<1>10. ASSUME NEW p \in Proc, Create(p), Existing(call[p]) = {}
       PROVE  Places'
  <2>1. Insert(p) /\ Done(p) /\ pc[p] = "creating"
    BY <1>10 DEF Create, Insert, Answer
  <2> DEFINE new == Len(messages) + 1
  <2>2. /\ Id' = Id \cup {new} /\ new \notin Id /\ messages'[new] = Row(p)
        /\ \A m \in Id : messages'[m] = messages[m]
    BY <2>1, Inserted
  <2>3. messages'[new].to = call[p].to
    BY <2>2 DEF Row
  <2>4. ASSUME NEW a \in Agent, a # call[p].to
        PROVE  Queue(a)' \subseteq Queue(a) /\ Passed(a)' \subseteq Passed(a)
    BY <1>5, <2>1, <2>2, <2>3, <2>4 DEF Queue, Unfinished
  <2>5. ASSUME NEW a \in Agent, a = call[p].to
        PROVE  QueueDepth(a)' + Cardinality(Passed(a)') <= MaxQueueDepth - 1 + Cardinality(Writer(a)')
    <3>1. Queue(a)' \in SUBSET (Queue(a) \cup {new})
      BY <2>2 DEF Queue, Unfinished
    <3>2. QueueDepth(a)' = Cardinality(Queue(a)')
      BY DEF QueueDepth, Queue
    <3>3. QueueDepth(a)' <= QueueDepth(a) + 1 /\ QueueDepth(a)' \in Nat
      <4>1. /\ IsFiniteSet(Queue(a) \cup {new})
            /\ Cardinality(Queue(a) \cup {new}) <= QueueDepth(a) + 1
        <5>1. IsFiniteSet(Queue(a)) /\ QueueDepth(a) = Cardinality(Queue(a)) /\ QueueDepth(a) \in Nat
          BY FiniteQueues
        <5>2. /\ IsFiniteSet(Queue(a) \cup {new})
              /\ Cardinality(Queue(a) \cup {new}) =
                   IF new \in Queue(a) THEN Cardinality(Queue(a)) ELSE Cardinality(Queue(a)) + 1
          BY <5>1, FS_AddElement, Zenon
        <5>3. QED
          BY <5>1, <5>2
      <4>2. Cardinality(Queue(a) \cup {new}) \in Nat
        BY <4>1, FS_CardinalityType
      <4>3. IsFiniteSet(Queue(a)') /\ Cardinality(Queue(a)') <= Cardinality(Queue(a) \cup {new})
        BY <3>1, <4>1, FS_Subset
      <4>4. Cardinality(Queue(a)') \in Nat
        BY <4>3, FS_CardinalityType
      <4>5. QED
        BY <3>2, <4>1, <4>2, <4>3, <4>4, FiniteQueues
    <3>4. p \in Passed(a) /\ Passed(a)' = Passed(a) \ {p}
      BY <1>5, <2>1, <2>5 DEF Passed
    <3>5. Cardinality(Passed(a)') = Cardinality(Passed(a)) - 1
      BY <3>4, FiniteQueues, FS_RemoveElement
    <3>6. QueueDepth(a) + Cardinality(Passed(a)) <= MaxQueueDepth - 1 + Cardinality(Writer(a))
      BY DEF Places
    <3>7. QED
      BY <1>2, <3>3, <3>5, <3>6, FiniteQueues
  <2>6. QED
    BY <1>3, <2>4, <2>5 DEF Places
<1>11. ASSUME NEW p \in Proc, Done(p), UNCHANGED messages
       PROVE  Places'
  BY <1>3, <1>4, <1>5, <1>11 DEF Places
<1>12. ASSUME NEW p \in Proc, Create(p), Existing(call[p]) # {}
       PROVE  Places'
  BY <1>11, <1>12 DEF Create, Answer, Refuse
<1>13. ASSUME NEW p \in Proc, Crash(p)
       PROVE  Places'
  BY <1>11, <1>13 DEF Crash, Refuse
<1>14. ASSUME NEW m, Settle(m)
       PROVE  Places'
  BY <1>3, <1>6, <1>14 DEF Places
<1>15. ASSUME UNCHANGED <<messages, pc, call>>
       PROVE  Places'
  <2>1. \A a : Passed(a)' = Passed(a)
    BY <1>15 DEF Passed
  <2>2. QED
    BY <1>3, <1>4, <1>15, <2>1 DEF Places
<1>16. QED
  BY <1>7, <1>8, <1>9, <1>10, <1>12, <1>13, <1>14, <1>15
     DEF Next, vars, Complete, FailOrRecover, CloseDependency

(* However calls race, a queue grows beyond its limit by less than the      *)
(* number of processes that write to it.                                    *)
THEOREM QueueBound == Spec => []QueueBounded
<1>1. Init => Places
  <2> SUFFICES ASSUME Init, NEW a \in Agent
               PROVE  QueueDepth(a) + Cardinality(Passed(a)) <= MaxQueueDepth - 1 + Cardinality(Writer(a))
    BY DEF Places
  <2>1. TypeOK
    BY AdmissionAssumption DEF Init, TypeOK, CallsOK, NoAnswer, Id
  <2>2. Queue(a) = {} /\ Passed(a) = {}
    BY DEF Init, Queue, Id, Passed
  <2>3. QueueDepth(a) = 0 /\ Cardinality(Passed(a)) = 0
    BY <2>1, <2>2, FiniteQueues, FS_EmptySet
  <2>4. QED
    BY <2>1, <2>3, FiniteQueues, AdmissionAssumption
<1>2. TypeOK /\ Places /\ [Next]_vars => Places'
  BY PlacesHold
<1>3. TypeOK /\ Places => QueueBounded
  <2> SUFFICES ASSUME TypeOK, Places, NEW a \in Agent
               PROVE  QueueDepth(a) <= MaxQueueDepth - 1 + Cardinality(Writer(a))
    BY DEF QueueBounded
  <2>1. QueueDepth(a) + Cardinality(Passed(a)) <= MaxQueueDepth - 1 + Cardinality(Writer(a))
    BY DEF Places
  <2>2. QED
    BY <2>1, FiniteQueues, AdmissionAssumption
<1>4. QED
  BY <1>1, <1>2, <1>3, AdmissionTypeCorrect, PTL DEF Spec

-----------------------------------------------------------------------------
(* Rows and edges.                                                          *)

LEMMA RowsInserted ==
  ASSUME TypeOK, NEW p \in Proc, Insert(p)
  PROVE  Rows!Insert
<1> DEFINE U == {m \in Id : Unfinished(m)}
           F == {m \in Id : ~Unfinished(m)}
           new == Len(messages) + 1
<1>1. /\ Id' = Id \cup {new} /\ new \notin Id
      /\ messages'[new] = Row(p)
      /\ \A m \in Id : messages'[m] = messages[m]
  BY Inserted
<1>2. /\ ~messages'[new].finished
      /\ \A m \in Id : messages'[m].finished <=> messages[m].finished
  BY <1>1 DEF Row
<1>3. waiting \subseteq waiting' /\ waiting' \subseteq waiting \cup {new}
  BY DEF Insert
<1>4. U' = U \cup {new} /\ F' = F /\ new \notin U /\ U' \cap F = {}
  BY <1>1, <1>2 DEF Unfinished
<1>5. QED
  BY <1>3, <1>4 DEF Rows!Insert

LEMMA RowsSettled ==
  ASSUME TypeOK, NEW m \in Id, Settle(m), waiting' \in {waiting, waiting \ {m}}
  PROVE  m \in {n \in Id : Unfinished(n)} /\ Rows!Finish(m)
<1> DEFINE U == {n \in Id : Unfinished(n)}
           F == {n \in Id : ~Unfinished(n)}
<1>1. messages \in Seq(MessageType) /\ messages' = [messages EXCEPT ![m].finished = TRUE]
      /\ Unfinished(m)
  BY DEF TypeOK, Settle
<1>2. Id' = Id /\ \A n \in Id : n # m => messages'[n] = messages[n]
  BY <1>1 DEF Id
<1>3. messages'[m].finished
  BY <1>1 DEF Id, MessageType
<1>4. \A n \in Id : Unfinished(n)' <=> n # m /\ Unfinished(n)
  BY <1>2, <1>3 DEF Unfinished
<1>5. m \in U /\ U' = U \ {m} /\ F' = F \cup {m}
  BY <1>1, <1>2, <1>4
<1>6. QED
  BY <1>5 DEF Rows!Finish

LEMMA RowsClosed ==
  ASSUME TypeOK, NEW m \in Id, CloseDependency(m)
  PROVE  m \in {n \in Id : ~Unfinished(n)} /\ Rows!CloseEdge(m)
<1>1. UNCHANGED messages /\ waiting' = waiting \ {m} /\ ~Unfinished(m)
  BY DEF CloseDependency, Close
<1>2. UNCHANGED <<{n \in Id : Unfinished(n)}, {n \in Id : ~Unfinished(n)}>>
  BY <1>1 DEF Id, Unfinished
<1>3. QED
  BY <1>1, <1>2 DEF Rows!CloseEdge

LEMMA RowsStep ==
  ASSUME TypeOK, [Next]_vars
  PROVE  [Rows!RowsNext]_Rows!rows
<1>1. UNCHANGED <<messages, waiting>> => UNCHANGED Rows!rows
  BY DEF Rows!rows, Id, Unfinished
<1>2. ASSUME NEW p \in Proc, Create(p)
      PROVE  [Rows!RowsNext]_Rows!rows
  <2>1. Insert(p) \/ UNCHANGED <<messages, waiting>>
    BY <1>2 DEF Create
  <2>2. QED
    BY <1>1, <2>1, RowsInserted DEF Rows!RowsNext
<1>3. ASSUME NEW m \in Id, Complete(m) \/ FailOrRecover(m)
      PROVE  Rows!RowsNext
  <2>1. Settle(m) /\ waiting' \in {waiting, waiting \ {m}}
    BY <1>3 DEF Complete, FailOrRecover, Close
  <2>2. QED
    BY <2>1, RowsSettled DEF Rows!RowsNext
<1>4. ASSUME NEW m \in Id, CloseDependency(m)
      PROVE  Rows!RowsNext
  BY <1>4, RowsClosed DEF Rows!RowsNext
<1>5. ASSUME NEW p \in Proc,
             (\E c \in Call : Lookup(p, c)) \/ Count(p) \/ CheckCycle(p) \/ Crash(p)
      PROVE  UNCHANGED <<messages, waiting>>
  BY <1>5 DEF Lookup, Count, CheckCycle, Crash
<1>6. UNCHANGED vars => UNCHANGED <<messages, waiting>>
  BY DEF vars
<1>7. QED
  BY <1>1, <1>2, <1>3, <1>4, <1>5, <1>6 DEF Next

(* What admission does to rows and edges is what the scheduler takes it to  *)
(* do, and what it lets the scheduler do is no more than finishing rows and *)
(* closing their edges.                                                     *)
THEOREM AdmissionKeepsRows == Spec => KeepsRows
<1>1. Init => Rows!RowsInit
  BY DEF Init, Rows!RowsInit, Id
<1>2. TypeOK /\ [Next]_vars => [Rows!RowsNext]_Rows!rows
  BY RowsStep
<1>3. QED
  BY <1>1, <1>2, AdmissionTypeCorrect, PTL DEF Spec, KeepsRows, Rows!RowsSpec
=============================================================================
