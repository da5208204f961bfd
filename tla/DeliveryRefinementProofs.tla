----------------------- MODULE DeliveryRefinementProofs -----------------------
(***************************************************************************)
(* The proof that the scheduler keeps the delivery promise: every step of  *)
(* it is a step of DeliveryPromise, or changes nothing the promise is      *)
(* about.                                                                  *)
(***************************************************************************)
EXTENDS DeliveryOutcomeProofs

(* What the promise says of a message.                                      *)
Told(m) == IF status[m] = "absent" THEN "none"
           ELSE IF status[m] \in Unfinished THEN "pending" ELSE status[m]

(* Nothing the promise is about is changed.                                 *)
LEMMA PromiseStutters ==
  ASSUME TypeOK, \A m \in Message : Told(m)' = Told(m) /\ generation'[m] = generation[m]
                                    /\ Len(turns'[m]) = Len(turns[m]),
         lateStarts' = lateStarts
  PROVE  UNCHANGED Promise!promiseVars
<1>1. \A m \in Message : ThreadOf(m)' = ThreadOf(m)
  BY DEF ThreadOf
<1>2. [m \in Message |-> ThreadOf(m)]' = [m \in Message |-> ThreadOf(m)]
  BY <1>1
<1>3. [m \in Message |-> Told(m)]' = [m \in Message |-> Told(m)]
  BY SMT
<1>4. [m \in Message |-> Len(turns[m])]' = [m \in Message |-> Len(turns[m])]
  BY SMT
<1> QED
  BY <1>2, <1>3, <1>4 DEF Promise!promiseVars, Told

(* Every older message of the mailbox is decided.                           *)
LEMMA PromiseTurn ==
  ASSUME TypeOK, NEW m \in Message, Leads(m)
  PROVE  Promise!Turn(m)
<1> SUFFICES ASSUME NEW n \in Message, n \in Older(m), ThreadOf(n) = ThreadOf(m)
             PROVE  Told(n) # "pending"
  BY DEF Promise!Turn, Told
<1>1. status[n] \notin Unfinished
  BY DEF Leads
<1> QED
  BY <1>1 DEF Told, TypeOK, RowsOK, Status, Unfinished, Dispatched, Terminal

LEMMA PromiseAccept ==
  ASSUME TypeOK, NEW p \in Proc, NEW m \in Message, Submit(p, m)
  PROVE  Promise!Accept(m)
<1>1. /\ status[m] = "absent"
      /\ status' = [status EXCEPT ![m] = "queued"]
      /\ generation' = [generation EXCEPT ![m] = current[Recipient[m]]]
      /\ turns' = turns /\ lateStarts' = lateStarts
  BY DEF Submit, UnchangedElsewhere, serverVars
<1>2. ThreadOf(m)' \in Thread
  BY <1>1, SchedulerAssumption
     DEF SchedulerAssumption, ThreadOf, Thread, TypeOK, RowsOK, AgentsOK
<1>3. \A n \in Message : n # m => ThreadOf(n)' = ThreadOf(n) /\ Told(n)' = Told(n)
  BY <1>1 DEF TypeOK, RowsOK, ThreadOf, Told
<1>4. Told(m) = "none" /\ Told(m)' = "pending"
  BY <1>1 DEF TypeOK, RowsOK, Told, Unfinished, Dispatched
<1>5. [n \in Message |-> Told(n)]' = [[n \in Message |-> Told(n)] EXCEPT ![m] = "pending"]
  BY <1>3, <1>4
<1>6. [n \in Message |-> ThreadOf(n)]' = [[n \in Message |-> ThreadOf(n)] EXCEPT ![m] = ThreadOf(m)']
  BY <1>3
<1> QED
  BY <1>1, <1>2, <1>4, <1>5, <1>6 DEF Promise!Accept, Told

(* A turn more on the thread of a message is a copy more of the message.    *)
LEMMA OneMoreTurn ==
  ASSUME TypeOK, NEW m \in Message,
         turns' = [turns EXCEPT ![m] = Append(turns[m], "inProgress")]
  PROVE  [n \in Message |-> Len(turns[n])]'
           = [[n \in Message |-> Len(turns[n])] EXCEPT ![m] = @ + 1]
<1>1. turns \in [Message -> Seq(TurnStatus)]
  BY DEF TypeOK, ServerOK
<1>2. \A n \in Message : n # m => turns'[n] = turns[n]
  BY <1>1
<1>3. turns[m] \in Seq(TurnStatus) /\ turns'[m] = Append(turns[m], "inProgress")
  BY <1>1
<1>4. Len(turns'[m]) = Len(turns[m]) + 1
  BY <1>3 DEF TurnStatus
<1>5. /\ [n \in Message |-> Len(turns'[n])][m] = [n \in Message |-> Len(turns[n])][m] + 1
      /\ \A n \in Message : n # m => Len(turns'[n]) = Len(turns[n])
  BY <1>2, <1>4
<1>6. ASSUME NEW n \in Message
      PROVE  [k \in Message |-> Len(turns'[k])][n]
               = [[k \in Message |-> Len(turns[k])] EXCEPT ![m] = @ + 1][n]
  <2>1. CASE n = m
    BY <1>5, <2>1
  <2>2. CASE n # m
    BY <1>5, <2>2
  <2> QED
    BY <2>1, <2>2
<1> QED
  BY <1>6

(* A turn on which the sender waits: reconciling has found no other.        *)
LEMMA PromiseDeliver ==
  ASSUME DeliveryInvariant, NEW p \in Proc, NEW m \in Message, TurnStarts(p, m)
  PROVE  Promise!Deliver(m)
<1> USE DEF DeliveryInvariant
<1>1. /\ pc[<<p, m>>] = "starting"
      /\ turns' = [turns EXCEPT ![m] = Append(@, "inProgress")]
      /\ UNCHANGED <<status, generation, lateStarts>>
  BY DEF TurnStarts, At, messageVars
<1>2. Leads(m) /\ Len(turns[m]) <= lateStarts[m] /\ status[m] # "absent"
  <2>1. attempts[m] > 0 /\ status[m] # "absent"
    BY <1>1 DEF Attempted, Registered
  <2>2. Holds(p, m)
    BY <1>1 DEF LeaseGuards, Guarded
  <2> QED
    BY <1>1, <2>1, <2>2 DEF Headed, Reconciled, Clear
<1>3. Told(m) # "none"
  BY <1>2 DEF Told, TypeOK, RowsOK, Status, Unfinished, Dispatched, Terminal
<1>4. [n \in Message |-> Len(turns[n])]'
        = [[n \in Message |-> Len(turns[n])] EXCEPT ![m] = @ + 1]
  BY <1>1, OneMoreTurn
<1>5. \A n \in Message : ThreadOf(n)' = ThreadOf(n)
  BY <1>1 DEF ThreadOf
<1>6. [n \in Message |-> ThreadOf(n)]' = [n \in Message |-> ThreadOf(n)]
  BY <1>5
<1>7. Promise!Turn(m)
  BY <1>2, PromiseTurn
<1> QED
  BY <1>1, <1>2, <1>3, <1>4, <1>6, <1>7 DEF Promise!Deliver, Told

(* A turn of a request that was given up.                                   *)
LEMMA PromiseDeliverLate ==
  ASSUME DeliveryInvariant, NEW m \in Message, LateTurnStarts(m)
  PROVE  Promise!DeliverLate(m)
<1> USE DEF DeliveryInvariant
<1>1. /\ m \in wire
      /\ turns' = [turns EXCEPT ![m] = Append(turns[m], "inProgress")]
      /\ lateStarts' = [lateStarts EXCEPT ![m] = @ + 1]
      /\ UNCHANGED <<status, generation>>
  BY DEF LateTurnStarts, messageVars
<1>2. Leads(m) /\ status[m] # "absent"
  BY <1>1 DEF Attempted, Registered, Headed
<1>3. Told(m) # "none"
  BY <1>2 DEF Told, TypeOK, RowsOK, Status, Unfinished, Dispatched, Terminal
<1>4. [n \in Message |-> Len(turns[n])]'
        = [[n \in Message |-> Len(turns[n])] EXCEPT ![m] = @ + 1]
  BY <1>1, OneMoreTurn
<1>5. \A n \in Message : ThreadOf(n)' = ThreadOf(n)
  BY <1>1 DEF ThreadOf
<1>6. [n \in Message |-> ThreadOf(n)]' = [n \in Message |-> ThreadOf(n)]
  BY <1>5
<1>7. Promise!Turn(m)
  BY <1>2, PromiseTurn
<1> QED
  BY <1>1, <1>3, <1>4, <1>6, <1>7 DEF Promise!DeliverLate, Told

(* A loop that ends its message.                                            *)
LEMMA PromiseConclude ==
  ASSUME TypeOK, CompletedByATurn', NEW m \in Message,
         status[m] \in Unfinished, status'[m] \in Terminal,
         \A n \in Message : n # m => status'[n] = status[n],
         \A n \in Message : Len(turns'[n]) = Len(turns[n]),
         generation' = generation, lateStarts' = lateStarts
  PROVE  Promise!Conclude(m)
<1>1. Told(m) = "pending" /\ Told(m)' = status'[m]
  BY DEF Told, Terminal, Unfinished, Dispatched
<1>2. [n \in Message |-> Told(n)]' = [[n \in Message |-> Told(n)] EXCEPT ![m] = status'[m]]
  BY <1>1 DEF Told
<1>3. status'[m] = "completed" => Len(turns[m]) > 0
  <2> HAVE status'[m] = "completed"
  <2>1. PICK k \in 1 .. Len(turns'[m]) : TRUE
    BY DEF CompletedByATurn
  <2> QED
    BY <2>1 DEF TypeOK, ServerOK
<1>4. \A n \in Message : ThreadOf(n)' = ThreadOf(n)
  BY DEF ThreadOf
<1>5. /\ [n \in Message |-> ThreadOf(n)]' = [n \in Message |-> ThreadOf(n)]
      /\ [n \in Message |-> Len(turns[n])]' = [n \in Message |-> Len(turns[n])]
  BY <1>4
<1> QED
  BY <1>1, <1>2, <1>3, <1>5 DEF Promise!Conclude, Told, Terminal

LEMMA PromiseStep ==
  ASSUME DeliveryInvariant, CompletedByATurn', [Next]_vars
  PROVE  [Promise!PromiseNext]_Promise!promiseVars
<1>0. TypeOK
  BY DEF DeliveryInvariant
<1>1. ASSUME NEW p \in Proc, NEW m \in Message, Submit(p, m)
      PROVE  Promise!PromiseNext
  BY <1>0, <1>1, PromiseAccept DEF Promise!PromiseNext
<1>2. ASSUME NEW p \in Proc, NEW m \in Message, LoopAction(p, m)
      PROVE  [Promise!PromiseNext]_Promise!promiseVars
  <2>1. CASE TurnStarts(p, m)
    BY <2>1, PromiseDeliver DEF Promise!PromiseNext
  <2>2. CASE ~TurnStarts(p, m)
    <3>1. /\ \A n \in Message : turns'[n] = turns[n]
          /\ generation' = generation /\ lateStarts' = lateStarts
          /\ \A n \in Message : n # m => status'[n] = status[n]
      BY <1>0, <1>2, <2>2, LoopTurns, LoopFrame
    <3>2. CASE status[m] \in Unfinished /\ status'[m] \in Terminal
      BY <1>0, <3>1, <3>2, PromiseConclude DEF Promise!PromiseNext
    <3>3. CASE ~(status[m] \in Unfinished /\ status'[m] \in Terminal)
      <4>1. status'[m] = status[m] \/ (status[m] \in Unfinished /\ status'[m] \in Unfinished)
        <5>1. status[m] \in Status \ {"absent"} /\ status'[m] \in Status \ {"absent"}
          BY <1>0, <1>2, LoopRow, TypeStep DEF TypeOK, RowsOK, Registered, DeliveryInvariant
        <5> QED
          BY <1>0, <3>3, <5>1, TerminalKept DEF Status, Terminal, Unfinished, Dispatched
      <4>2. \A n \in Message : Told(n)' = Told(n)
        BY <3>1, <4>1 DEF Told, Unfinished, Dispatched
      <4> QED
        BY <1>0, <3>1, <4>2, PromiseStutters
    <3> QED
      BY <3>2, <3>3
  <2> QED
    BY <2>1, <2>2
<1>3. ASSUME NEW p \in Proc, Stop(p) \/ Start(p)
      PROVE  UNCHANGED Promise!promiseVars
  <2>1. UNCHANGED <<status, generation, turns, lateStarts>>
    BY <1>3 DEF Stop, Abandon, Start, messageVars, serverVars
  <2> QED
    BY <1>0, <2>1, PromiseStutters DEF Told
<1>4. ASSUME Environment
      PROVE  [Promise!PromiseNext]_Promise!promiseVars
  <2>1. CASE \E m \in Message : LateTurnStarts(m)
    BY <2>1, PromiseDeliverLate DEF Promise!PromiseNext
  <2>2. CASE ~\E m \in Message : LateTurnStarts(m)
    <3>1. UNCHANGED <<status, generation>>
      BY <1>4, EnvironmentFrame
    <3>2. lateStarts' = lateStarts /\ \A n \in Message : Len(turns'[n]) = Len(turns[n])
      <4>1. UNCHANGED <<turns, lateStarts>> \/ \E m \in Message : TurnEnds(m)
        BY <1>4, <2>2, EnvironmentFrame
      <4>2. ASSUME NEW m \in Message, TurnEnds(m)
            PROVE  lateStarts' = lateStarts /\ \A n \in Message : Len(turns'[n]) = Len(turns[n])
        BY <1>0, <4>2 DEF TurnEnds, TypeOK, ServerOK
      <4> QED
        BY <4>1, <4>2
    <3> QED
      BY <1>0, <3>1, <3>2, PromiseStutters DEF Told
  <2> QED
    BY <2>1, <2>2
<1>5. CASE UNCHANGED vars
  <2>1. UNCHANGED <<status, generation, turns, lateStarts>>
    BY <1>5 DEF vars, messageVars, serverVars
  <2> QED
    BY <1>0, <2>1, PromiseStutters DEF Told
<1> QED
  BY <1>1, <1>2, <1>3, <1>4, <1>5, Steps

LEMMA PromiseStart ==
  ASSUME Init
  PROVE  Promise!PromiseInit
<1>1. \A m \in Message : status[m] = "absent" /\ turns[m] = <<>> /\ generation[m] = 1
  BY DEF Init
<1>2. \A m \in Message : ThreadOf(m) \in Thread
  BY <1>1, SchedulerAssumption DEF SchedulerAssumption, ThreadOf, Thread
<1>3. \A m \in Message : Len(turns[m]) = 0
  BY <1>1
<1>4. [m \in Message |-> Len(turns[m])] = [m \in Message |-> 0]
  BY <1>3
<1>5. lateStarts = [m \in Message |-> 0]
  BY DEF Init
<1> QED
  BY <1>1, <1>2, <1>4, <1>5 DEF Promise!PromiseInit

(* The scheduler keeps the delivery promise: mailbox order, one outcome,    *)
(* "completed" only after a delivery, and a second copy only of a request   *)
(* that was given up and served late (#run, #reconcile, the leases and the  *)
(* message rows together).                                                  *)
THEOREM PromiseKept == Spec => KeepsPromise
<1>1. Init => Promise!PromiseInit
  BY PromiseStart
<1>2. DeliveryInvariant /\ CompletedByATurn' /\ [Next]_vars
      => [Promise!PromiseNext]_Promise!promiseVars
  BY PromiseStep
<1> QED
  BY <1>1, <1>2, InvariantCorrect, CompletedByItsTurn, PTL
     DEF Spec, KeepsPromise, Promise!PromiseSpec

-----------------------------------------------------------------------------
(* Rows and edges.                                                          *)

WaitsAs(m) == status[m] \in Unfinished
FinishedAs(m) == status[m] \in Terminal

(* A step on one row, by what becomes of its status and its edge.           *)
LEMMA RowsOfOne ==
  ASSUME TypeOK, NEW m \in Message,
         \A n \in Message \ {m} : status'[n] = status[n] /\ edge'[n] = edge[n],
         edge'[m] \in BOOLEAN
  PROVE  /\ /\ WaitsAs(m)' <=> WaitsAs(m)
            /\ FinishedAs(m)' <=> FinishedAs(m)
            /\ edge'[m] = edge[m]
            => UNCHANGED Rows!rows
         /\ /\ WaitsAs(m) /\ FinishedAs(m)'
            /\ edge'[m] = edge[m] \/ ~edge'[m]
            => Rows!Finish(m)
         /\ /\ FinishedAs(m) /\ FinishedAs(m)' /\ ~edge'[m]
            => Rows!CloseEdge(m)
<1> DEFINE U == {n \in Message : status[n] \in Unfinished}
           F == {n \in Message : status[n] \in Terminal}
           W == {n \in Message : edge[n]}
<1>1. \A n \in Message : ~(status[n] \in Unfinished /\ status[n] \in Terminal)
      /\ ~(status'[n] \in Unfinished /\ status'[n] \in Terminal)
  BY DEF Unfinished, Dispatched, Terminal
<1>2. ASSUME WaitsAs(m)' <=> WaitsAs(m), FinishedAs(m)' <=> FinishedAs(m), edge'[m] = edge[m]
      PROVE  UNCHANGED Rows!rows
  <2>1. U' = U /\ F' = F /\ W' = W
    BY <1>2 DEF WaitsAs, FinishedAs
  <2> QED
    BY <2>1 DEF Rows!rows
<1>3. ASSUME WaitsAs(m), FinishedAs(m)', edge'[m] = edge[m] \/ ~edge'[m]
      PROVE  Rows!Finish(m)
  <2>1. m \in U /\ U' = U \ {m} /\ F' = F \cup {m}
    BY <1>1, <1>3 DEF WaitsAs, FinishedAs
  <2>2. W' \in {W, W \ {m}}
    BY <1>3
  <2> QED
    BY <2>1, <2>2 DEF Rows!Finish
<1>4. ASSUME FinishedAs(m), FinishedAs(m)', ~edge'[m]
      PROVE  Rows!CloseEdge(m)
  <2>1. m \in F /\ U' = U /\ F' = F /\ W' = W \ {m}
    BY <1>1, <1>4 DEF WaitsAs, FinishedAs
  <2> QED
    BY <2>1 DEF Rows!CloseEdge
<1> QED
  BY <1>2, <1>3, <1>4

LEMMA RowsSubmitted ==
  ASSUME TypeOK, ClosingOK, EdgeClosed, NEW p \in Proc, NEW m \in Message, Submit(p, m)
  PROVE  Rows!Insert
<1> DEFINE U == {n \in Message : status[n] \in Unfinished}
           F == {n \in Message : status[n] \in Terminal}
           W == {n \in Message : edge[n]}
<1>1. /\ status[m] = "absent" /\ status' = [status EXCEPT ![m] = "queued"]
      /\ edge' = [edge EXCEPT ![m] = m \in Ask]
  BY DEF Submit
<1>2. ~edge[m]
  BY <1>1 DEF EdgeClosed, ClosingOK, Unfinished, Dispatched
<1>3. /\ status'[m] = "queued" /\ edge'[m] = (m \in Ask)
      /\ \A n \in Message \ {m} : status'[n] = status[n] /\ edge'[n] = edge[n]
  BY <1>1 DEF TypeOK, RowsOK
<1>4. U' = U \cup {m} /\ F' = F /\ m \notin U /\ U' \cap F = {}
  BY <1>1, <1>3 DEF Unfinished, Dispatched, Terminal
<1>5. W \subseteq W' /\ W' \subseteq W \cup {m}
  BY <1>2, <1>3
<1> QED
  BY <1>4, <1>5 DEF Rows!Insert

LEMMA RowsStep ==
  ASSUME DeliveryInvariant, ClosingOK, EdgeClosed, [Next]_vars
  PROVE  [Rows!RowsNext]_Rows!rows
<1>0. TypeOK /\ Registered
  BY DEF DeliveryInvariant
<1>1. ASSUME NEW p \in Proc, NEW m \in Message, LoopAction(p, m)
      PROVE  [Rows!RowsNext]_Rows!rows
  <2>0. /\ \A n \in Message \ {m} : edge'[n] = edge[n]
        /\ \/ /\ edge'[m] = edge[m] /\ pc[<<p, m>>] # "closing"
              /\ \/ status'[m] = status[m]
                 \/ status[m] \in Unfinished /\ status'[m] \in Unfinished
                 \/ status[m] \in Unfinished /\ status'[m] = "completed"
                      /\ pc'[<<p, m>>] = "closing"
           \/ edge'[m] = FALSE /\ status'[m] \in Terminal
           \/ edge'[m] = FALSE /\ pc[<<p, m>>] = "closing" /\ status' = status
    BY <1>0, <1>1, LoopEdge
  <2>1. /\ \A n \in Message \ {m} : status'[n] = status[n] /\ edge'[n] = edge[n]
        /\ status[m] # "absent" /\ status[m] \in Status
        /\ status[m] \in Terminal => status'[m] = status[m]
    <3>1. \A n \in Message \ {m} : status'[n] = status[n]
      BY <1>0, <1>1, LoopFrame
    <3>2. pc[<<p, m>>] # "off" /\ (status[m] \in Terminal => status'[m] = status[m])
      BY <1>0, <1>1, LoopRow
    <3>3. status[m] # "absent" /\ status[m] \in Status
      BY <1>0, <3>2 DEF Registered, TypeOK, RowsOK
    <3> QED
      BY <2>0, <3>1, <3>2, <3>3
  <2>2. edge'[m] \in BOOLEAN
    <3>1. edge[m] \in BOOLEAN
      BY <1>0 DEF TypeOK, RowsOK
    <3> QED
      BY <2>0, <3>1
  <2>3. WaitsAs(m) \/ FinishedAs(m)
    BY <2>1 DEF WaitsAs, FinishedAs, Status
  <2>4. CASE edge'[m] = FALSE /\ status'[m] \in Terminal
    <3>1. Rows!Finish(m) \/ Rows!CloseEdge(m)
      BY <1>0, <2>1, <2>2, <2>3, <2>4, RowsOfOne DEF FinishedAs
    <3>2. m \in {n \in Message : status[n] \in Unfinished} \/ m \in {n \in Message : status[n] \in Terminal}
      BY <2>3 DEF WaitsAs, FinishedAs
    <3> QED
      BY <3>1, <3>2 DEF Rows!RowsNext, Rows!Finish, Rows!CloseEdge
  <2>5. CASE /\ edge'[m] = edge[m]
             /\ \/ status'[m] = status[m]
                \/ status[m] \in Unfinished /\ status'[m] \in Unfinished
    <3>1. /\ WaitsAs(m)' <=> WaitsAs(m)
          /\ FinishedAs(m)' <=> FinishedAs(m)
      BY <2>5 DEF WaitsAs, FinishedAs, Unfinished, Dispatched, Terminal
    <3> QED
      BY <1>0, <2>1, <2>2, <2>5, <3>1, RowsOfOne
  <2>6. CASE edge'[m] = edge[m] /\ status[m] \in Unfinished /\ status'[m] = "completed"
    <3>1. WaitsAs(m) /\ FinishedAs(m)'
      BY <2>6 DEF WaitsAs, FinishedAs, Terminal
    <3>2. Rows!Finish(m)
      BY <1>0, <2>1, <2>2, <2>6, <3>1, RowsOfOne
    <3> QED
      BY <3>2 DEF Rows!RowsNext, Rows!Finish
  <2>7. pc[<<p, m>>] = "closing" /\ status' = status => status'[m] \in Terminal
    BY DEF ClosingOK, Terminal
  <2> QED
    BY <2>0, <2>4, <2>5, <2>6, <2>7, Zenon
<1>2. ASSUME UNCHANGED <<status, edge>> PROVE UNCHANGED Rows!rows
  BY <1>2 DEF Rows!rows
<1>3. ASSUME NEW p \in Proc, Stop(p) \/ Start(p) PROVE UNCHANGED <<status, edge>>
  BY <1>3 DEF Stop, Start, messageVars
<1>4. ASSUME Environment PROVE UNCHANGED <<status, edge>>
  BY <1>4 DEF Environment, ClockStep, LeaseExpires, BackoffElapses, TtlElapses, AdminStep, Pause,
     Resume, Replace, ServerStep, TurnEnds, LateTurnStarts, UnchangedElsewhere, messageVars
<1>5. ASSUME UNCHANGED vars PROVE UNCHANGED <<status, edge>>
  BY <1>5 DEF vars, messageVars
<1> QED
  BY <1>0, <1>1, <1>2, <1>3, <1>4, <1>5, RowsSubmitted, Steps DEF Rows!RowsNext

(* What the loops do to rows and edges is what admission takes them to do:  *)
(* a row is finished once, its edge is closed with it or later, and nothing *)
(* comes back (the transactions of MessageRepository under #run).           *)
THEOREM SchedulerKeepsRows == Spec => KeepsRows
<1>1. Init => Rows!RowsInit
  BY DEF Init, Rows!RowsInit, Unfinished, Dispatched, Terminal
<1>2. Init => ClosingOK /\ EdgeClosed
  BY DEF Init, ClosingOK, EdgeClosed, Run, Unfinished, Dispatched
<1>3. DeliveryInvariant /\ ClosingOK /\ EdgeClosed /\ [Next]_vars => (ClosingOK /\ EdgeClosed)'
  BY ClosingStep, EdgeStep DEF DeliveryInvariant
<1>4. DeliveryInvariant /\ ClosingOK /\ EdgeClosed /\ [Next]_vars => [Rows!RowsNext]_Rows!rows
  BY RowsStep
<1> QED
  BY <1>1, <1>2, <1>3, <1>4, InvariantCorrect, PTL DEF Spec, KeepsRows, Rows!RowsSpec
=============================================================================
