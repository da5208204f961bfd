------------------------ MODULE DeliveryOutcomeProofs ------------------------
(***************************************************************************)
(* Proofs about the outcome of a message: what completes it, how long its  *)
(* dependency edge stays, and how many attempts it may take.               *)
(***************************************************************************)
EXTENDS DeliveryProofs

(* The steps of the scheduler, sorted, with the deaths they count.          *)
LEMMA DeathSteps ==
  ASSUME [Next]_vars
  PROVE  \/ \E p \in Proc, m \in Message : Submit(p, m) /\ deaths' = deaths
         \/ \E p \in Proc, m \in Message : LoopAction(p, m) /\ deaths' = deaths
         \/ \E p \in Proc : Stop(p) /\ deaths' = deaths + 1
         \/ \E p \in Proc : Start(p) /\ deaths' = deaths
         \/ Environment /\ deaths' = deaths
         \/ UNCHANGED vars
<1> USE DEF UnchangedElsewhere, processVars
<1>1. ASSUME NEW p \in Proc, NEW m \in Message, Submit(p, m) PROVE deaths' = deaths
  BY <1>1 DEF Submit
<1>2. ASSUME NEW p \in Proc, NEW m \in Message, LoopStep(p, m)
      PROVE  (LoopAction(p, m) /\ deaths' = deaths) \/ (Stop(p) /\ deaths' = deaths + 1)
  <2>1. CASE UnhandledRejection(p, m)
    BY <2>1, Zenon DEF UnhandledRejection
  <2>2. ASSUME \/ PollFinished(p, m) \/ PollExpired(p, m) \/ PollStale(p, m) \/ PollDue(p, m)
          \/ Claim(p, m) \/ ClaimRefused(p, m) \/ ReconcileMissing(p, m)
          \/ ReconcileInProgress(p, m) \/ ReconcileFailed(p, m) \/ ReconcileCompleted(p, m)
          \/ Recover(p, m) \/ ResumeIdle(p, m) \/ ResumeBusy(p, m) \/ RequestFails(p, m)
        PROVE  deaths' = deaths
    BY <2>2 DEF PollFinished, PollExpired, PollStale, PollDue, Claim, ClaimRefused,
       ReconcileMissing, ReconcileInProgress, ReconcileFailed, ReconcileCompleted,
       Recover, ResumeIdle, ResumeBusy, RequestFails
  <2>3. ASSUME \/ Renew(p, m) \/ MarkDispatching(p, m) \/ StartAttempt(p, m) \/ TurnStarts(p, m)
          \/ TurnRefused(p, m) \/ StartUnanswered(p, m) \/ AnswerLost(p, m)
          \/ MarkRunning(p, m) \/ TurnUnsuccessful(p, m) \/ MarkCompleted(p, m)
          \/ TurnTimesOut(p, m) \/ CloseDependency(p, m) \/ Decide(p, m)
          \/ FailDelivery(p, m) \/ Postpone(p, m) \/ Requeue(p, m) \/ Release(p, m)
        PROVE  deaths' = deaths
    BY <2>3 DEF Renew, MarkDispatching, StartAttempt, TurnStarts, TurnRefused,
       StartUnanswered, AnswerLost, MarkRunning, TurnUnsuccessful, MarkCompleted,
       TurnTimesOut, CloseDependency, Decide, FailDelivery, Postpone, Requeue, Release
  <2>4. UnhandledRejection(p, m) \/ deaths' = deaths
    BY <1>2, <2>2, <2>3 DEF LoopStep
  <2> QED
    BY <1>2, <2>1, <2>4, Zenon DEF LoopAction
<1>3. ASSUME NEW p \in Proc, ProcessStep(p)
      PROVE  (Stop(p) /\ deaths' = deaths + 1) \/ (Start(p) /\ deaths' = deaths)
  <2>1. Crash(p) => Stop(p) /\ deaths' = deaths + 1
    BY Zenon DEF Crash
  <2>2. Start(p) => deaths' = deaths
    BY DEF Start
  <2> QED
    BY <1>3, <2>1, <2>2, Zenon DEF ProcessStep
<1>4. ASSUME Environment PROVE deaths' = deaths
  BY <1>4 DEF Environment, ClockStep, LeaseExpires, BackoffElapses, TtlElapses,
     AdminStep, Pause, Resume, Replace, ServerStep, TurnEnds, LateTurnStarts
<1> QED
  BY <1>1, <1>2, <1>3, <1>4 DEF Next, Environment

-----------------------------------------------------------------------------
(* Completion.                                                              *)

(* A loop that has the answer to turn/start knows one of the turns.         *)
MineOK ==
  \A p \in Proc, m \in Message :
    pc[<<p, m>>] \in {"accepted", "running"} => mine[<<p, m>>] \in 1 .. Len(turns[m])

(* A message whose edge is being closed is completed.                       *)
ClosingOK ==
  \A p \in Proc, m \in Message : pc[<<p, m>>] = "closing" => status[m] = "completed"

(* What a loop does to its own place and to the row, when it ends well.     *)
LEMMA LoopEnds ==
  ASSUME TypeOK, NEW p \in Proc, NEW m \in Message, LoopAction(p, m)
  PROVE  /\ pc'[<<p, m>>] = "running" => MarkRunning(p, m)
         /\ pc'[<<p, m>>] = "closing" => MarkCompleted(p, m)
         /\ status'[m] = "completed" =>
              status[m] = "completed" \/ MarkCompleted(p, m) \/ ReconcileCompleted(p, m)
         /\ \A r \in Run \ {<<p, m>>} : mine'[r] = mine[r]
<1> USE DEF TypeOK, RowsOK, LoopsOK, Move, Raise, Goto, At, Run, Settle, UnchangedElsewhere, messageVars
<1>1. CASE PollFinished(p, m) \/ PollDue(p, m) \/ ClaimRefused(p, m)
  BY <1>1 DEF PollFinished, PollDue, ClaimRefused
<1>2. CASE PollExpired(p, m) \/ PollStale(p, m)
  BY <1>2 DEF PollExpired, PollStale
<1>3. CASE Claim(p, m) \/ Release(p, m)
  BY <1>3 DEF Claim, Release
<1>4. CASE ReconcileMissing(p, m) \/ ReconcileInProgress(p, m)
  BY <1>4 DEF ReconcileMissing, ReconcileInProgress
<1>5. CASE ReconcileFailed(p, m) \/ ReconcileCompleted(p, m)
  BY <1>5 DEF ReconcileFailed, ReconcileCompleted
<1>6. CASE Recover(p, m) \/ MarkDispatching(p, m) \/ StartAttempt(p, m)
  BY <1>6 DEF Recover, MarkDispatching, StartAttempt
<1>7. CASE ResumeIdle(p, m) \/ ResumeBusy(p, m) \/ RequestFails(p, m) \/ Renew(p, m)
  BY <1>7 DEF ResumeIdle, ResumeBusy, RequestFails, Renew
<1>8. CASE TurnStarts(p, m) \/ TurnRefused(p, m) \/ AnswerLost(p, m)
  BY <1>8 DEF TurnStarts, TurnRefused, AnswerLost
<1>9. CASE StartUnanswered(p, m)
  BY <1>9 DEF StartUnanswered
<1>10. CASE MarkRunning(p, m) \/ MarkCompleted(p, m) \/ CloseDependency(p, m)
  BY <1>10 DEF MarkRunning, MarkCompleted, CloseDependency
<1>11. CASE TurnUnsuccessful(p, m) \/ TurnTimesOut(p, m) \/ Decide(p, m)
  BY <1>11 DEF TurnUnsuccessful, TurnTimesOut, Decide
<1>12. CASE FailDelivery(p, m) \/ Postpone(p, m) \/ Requeue(p, m)
  BY <1>12 DEF FailDelivery, Postpone, Requeue
<1> QED
  BY <1>1, <1>2, <1>3, <1>4, <1>5, <1>6, <1>7, <1>8, <1>9, <1>10, <1>11, <1>12
     DEF LoopAction, LoopStep

(* Turns are only added, and one that has ended keeps its end.              *)
LEMMA TurnsKept ==
  ASSUME TypeOK, [Next]_vars, NEW n \in Message
  PROVE  /\ 1 .. Len(turns[n]) \subseteq 1 .. Len(turns'[n])
         /\ \A k \in 1 .. Len(turns[n]) : turns[n][k] \in TurnEnd => turns'[n][k] = turns[n][k]
<1>0. turns[n] \in Seq(TurnStatus) /\ Len(turns[n]) \in Nat
  BY DEF TypeOK, ServerOK
<1>1. CASE turns'[n] = turns[n]
  BY <1>0, <1>1
<1>2. CASE turns'[n] = Append(turns[n], "inProgress")
  BY <1>0, <1>2
<1>3. ASSUME NEW m \in Message, TurnEnds(m), turns'[n] # turns[n]
      PROVE  /\ 1 .. Len(turns[n]) \subseteq 1 .. Len(turns'[n])
             /\ \A k \in 1 .. Len(turns[n]) : turns[n][k] \in TurnEnd => turns'[n][k] = turns[n][k]
  <2>1. PICK k \in 1 .. Len(turns[m]), end \in Ending :
          /\ turns[m][k] = "inProgress"
          /\ turns' = [turns EXCEPT ![m][k] = end]
    BY <1>3 DEF TurnEnds
  <2>2. n = m /\ turns'[n] = [turns[n] EXCEPT ![k] = end]
    BY <1>3, <2>1 DEF TypeOK, ServerOK
  <2>3. "inProgress" \notin TurnEnd
    BY DEF TurnEnd
  <2>4. Len(turns'[n]) = Len(turns[n])
    BY <1>0, <2>2
  <2> QED
    BY <1>0, <2>1, <2>2, <2>3, <2>4
<1>4. \/ turns'[n] = turns[n]
      \/ turns'[n] = Append(turns[n], "inProgress")
      \/ \E m \in Message : TurnEnds(m)
  <2>1. ASSUME NEW p \in Proc, NEW m \in Message, Submit(p, m) PROVE turns' = turns
    BY <2>1 DEF Submit, UnchangedElsewhere, serverVars
  <2>2. ASSUME NEW p \in Proc, NEW m \in Message, LoopAction(p, m)
        PROVE  turns'[n] = turns[n] \/ turns'[n] = Append(turns[n], "inProgress")
    <3>1. TurnStarts(p, m) /\ n = m => turns'[n] = Append(turns[n], "inProgress")
      BY DEF TurnStarts, TypeOK, ServerOK
    <3> QED
      BY <2>2, <3>1, LoopTurns
  <2>3. ASSUME NEW p \in Proc, Stop(p) \/ Start(p) PROVE turns' = turns
    BY <2>3 DEF Stop, Abandon, Start, serverVars
  <2>4. ASSUME Environment
        PROVE  \/ turns'[n] = turns[n]
               \/ turns'[n] = Append(turns[n], "inProgress")
               \/ \E m \in Message : TurnEnds(m)
    BY <2>4, EnvironmentFrame DEF LateTurnStarts, TypeOK, ServerOK
  <2>5. UNCHANGED vars => turns' = turns
    BY DEF vars, serverVars
  <2> QED
    BY <2>1, <2>2, <2>3, <2>4, <2>5, Steps
<1> QED
  BY <1>1, <1>2, <1>3, <1>4

LEMMA MineStep ==
  ASSUME TypeOK, MineOK, [Next]_vars
  PROVE  MineOK'
<1> SUFFICES ASSUME NEW q \in Proc, NEW n \in Message, pc'[<<q, n>>] \in {"accepted", "running"}
             PROVE  mine'[<<q, n>>] \in 1 .. Len(turns'[n])
  BY DEF MineOK
<1> <<q, n>> \in Run
  BY DEF Run
<1>1. ASSUME pc[<<q, n>>] \in {"accepted", "running"}, mine'[<<q, n>>] = mine[<<q, n>>]
      PROVE  mine'[<<q, n>>] \in 1 .. Len(turns'[n])
  BY <1>1, TurnsKept DEF MineOK
<1>2. ASSUME NEW p \in Proc, NEW m \in Message, Submit(p, m)
      PROVE  mine'[<<q, n>>] \in 1 .. Len(turns'[n])
  BY <1>1, <1>2 DEF Submit, Move, Goto, TypeOK, LoopsOK
<1>3. ASSUME NEW p \in Proc, NEW m \in Message, LoopAction(p, m)
      PROVE  mine'[<<q, n>>] \in 1 .. Len(turns'[n])
  <2>1. CASE <<q, n>> # <<p, m>>
    <3>1. pc'[<<q, n>>] = pc[<<q, n>>]
      BY <1>3, <2>1, LoopFrame
    <3>2. mine'[<<q, n>>] = mine[<<q, n>>]
      BY <1>3, <2>1, LoopEnds
    <3> QED
      BY <1>1, <3>1, <3>2
  <2>2. CASE <<q, n>> = <<p, m>> /\ pc'[<<q, n>>] = "accepted"
    <3>1. TurnStarts(p, m)
      BY <1>3, <2>2, LoopMoves
    <3>2. mine'[<<q, n>>] = Len(turns[m]) + 1 /\ turns'[m] = Append(turns[m], "inProgress") /\ m = n
      BY <2>2, <3>1 DEF TurnStarts, TypeOK, LoopsOK, ServerOK
    <3>3. turns[m] \in Seq(TurnStatus)
      BY DEF TypeOK, ServerOK
    <3> QED
      BY <3>2, <3>3
  <2>3. CASE <<q, n>> = <<p, m>> /\ pc'[<<q, n>>] = "running"
    <3>1. MarkRunning(p, m)
      BY <1>3, <2>3, LoopEnds
    <3>2. pc[<<p, m>>] = "accepted" /\ mine' = mine
      BY <2>3, <3>1 DEF MarkRunning, At, Move, Raise, Goto, TypeOK, LoopsOK
    <3> QED
      BY <1>1, <2>3, <3>2
  <2> QED
    BY <2>1, <2>2, <2>3
<1>4. ASSUME NEW p \in Proc, Stop(p)
      PROVE  mine'[<<q, n>>] \in 1 .. Len(turns'[n])
  BY <1>1, <1>4 DEF Stop
<1>5. ASSUME NEW p \in Proc, Start(p)
      PROVE  mine'[<<q, n>>] \in 1 .. Len(turns'[n])
  BY <1>1, <1>5 DEF Start
<1>6. ASSUME Environment
      PROVE  mine'[<<q, n>>] \in 1 .. Len(turns'[n])
  <2>1. pc' = pc /\ mine' = mine
    BY <1>6 DEF Environment, ClockStep, LeaseExpires, BackoffElapses, TtlElapses,
       AdminStep, Pause, Resume, Replace, ServerStep, TurnEnds, LateTurnStarts, loopVars
  <2> QED
    BY <1>1, <2>1
<1>7. CASE UNCHANGED vars
  BY <1>1, <1>7 DEF vars, loopVars
<1> QED
  BY <1>2, <1>3, <1>4, <1>5, <1>6, <1>7, Steps

LEMMA CompletedStep ==
  ASSUME TypeOK, MineOK, CompletedByATurn, [Next]_vars
  PROVE  CompletedByATurn'
<1> SUFFICES ASSUME NEW n \in Message, status'[n] = "completed"
             PROVE  \E k \in 1 .. Len(turns'[n]) :
                      turns'[n][k] \in IF n \in Ask THEN {"completed"} ELSE TurnEnd
  BY DEF CompletedByATurn
<1>1. ASSUME NEW k \in 1 .. Len(turns[n]), turns[n][k] \in IF n \in Ask THEN {"completed"} ELSE TurnEnd
      PROVE  \E j \in 1 .. Len(turns'[n]) :
               turns'[n][j] \in IF n \in Ask THEN {"completed"} ELSE TurnEnd
  <2>1. turns[n][k] \in TurnEnd
    BY <1>1 DEF TurnEnd
  <2>2. k \in 1 .. Len(turns'[n]) /\ turns'[n][k] = turns[n][k]
    BY <2>1, TurnsKept
  <2> QED
    BY <1>1, <2>2
<1>2. CASE status[n] = "completed"
  BY <1>1, <1>2 DEF CompletedByATurn
<1>3. ASSUME NEW p \in Proc, MarkCompleted(p, n)
      PROVE  \E j \in 1 .. Len(turns'[n]) :
               turns'[n][j] \in IF n \in Ask THEN {"completed"} ELSE TurnEnd
  <2>1. /\ mine[<<p, n>>] \in 1 .. Len(turns[n])
        /\ turns[n][mine[<<p, n>>]] \in TurnEnd
        /\ TurnError(n, turns[n][mine[<<p, n>>]]) = "none"
    BY <1>3 DEF MarkCompleted, MyTurn, MineOK, At
  <2>2. turns[n][mine[<<p, n>>]] \in IF n \in Ask THEN {"completed"} ELSE TurnEnd
    BY <2>1 DEF TurnError, TurnEnd
  <2> QED
    BY <1>1, <2>1, <2>2
<1>4. ASSUME NEW p \in Proc, ReconcileCompleted(p, n)
      PROVE  \E j \in 1 .. Len(turns'[n]) :
               turns'[n][j] \in IF n \in Ask THEN {"completed"} ELSE TurnEnd
  <2>1. /\ 1 \in 1 .. Len(turns[n])
        /\ turns[n][1] \in IF n \in Ask THEN {"completed"} ELSE TurnEnd
    BY <1>4 DEF ReconcileCompleted, TypeOK, ServerOK, TurnEnd
  <2> QED
    BY <1>1, <2>1
<1>5. \/ status[n] = "completed"
      \/ \E p \in Proc : MarkCompleted(p, n) \/ ReconcileCompleted(p, n)
  <2>1. ASSUME NEW p \in Proc, NEW m \in Message, Submit(p, m) PROVE status[n] = "completed"
    BY <2>1 DEF Submit, TypeOK, RowsOK
  <2>2. ASSUME NEW p \in Proc, NEW m \in Message, LoopAction(p, m)
        PROVE  \/ status[n] = "completed"
               \/ \E r \in Proc : MarkCompleted(r, n) \/ ReconcileCompleted(r, n)
    BY <2>2, LoopEnds, LoopFrame
  <2>3. ASSUME NEW p \in Proc, Stop(p) \/ Start(p) PROVE status' = status
    BY <2>3 DEF Stop, Start, messageVars
  <2>4. Environment => status' = status
    BY EnvironmentFrame
  <2>5. UNCHANGED vars => status' = status
    BY DEF vars, messageVars
  <2> QED
    BY <2>1, <2>2, <2>3, <2>4, <2>5, Steps
<1> QED
  BY <1>2, <1>3, <1>4, <1>5

(* A completed message had a turn that ended, for an ask with a reply       *)
(* (MarkCompleted and ReconcileCompleted of #run and #reconcile).           *)
THEOREM CompletedByItsTurn == Spec => []CompletedByATurn
<1>1. Init => MineOK /\ CompletedByATurn
  BY DEF Init, MineOK, CompletedByATurn, Run
<1>2. TypeOK /\ MineOK /\ CompletedByATurn /\ [Next]_vars => (MineOK /\ CompletedByATurn)'
  BY MineStep, CompletedStep
<1> QED
  BY <1>1, <1>2, TypeCorrect, PTL DEF Spec

-----------------------------------------------------------------------------
(* The dependency edge.                                                     *)

LEMMA ClosingStep ==
  ASSUME TypeOK, ClosingOK, [Next]_vars
  PROVE  ClosingOK'
<1> SUFFICES ASSUME NEW q \in Proc, NEW n \in Message, pc'[<<q, n>>] = "closing"
             PROVE  status'[n] = "completed"
  BY DEF ClosingOK
<1> <<q, n>> \in Run
  BY DEF Run
<1>1. ASSUME pc[<<q, n>>] = "closing" PROVE status'[n] = "completed"
  BY <1>1, TerminalKept DEF ClosingOK, Terminal
<1>2. ASSUME NEW p \in Proc, NEW m \in Message, Submit(p, m) PROVE pc[<<q, n>>] = "closing"
  BY <1>2 DEF Submit, Move, Goto, TypeOK, LoopsOK
<1>3. ASSUME NEW p \in Proc, NEW m \in Message, LoopAction(p, m) PROVE status'[n] = "completed"
  <2>1. CASE <<q, n>> # <<p, m>>
    BY <1>1, <1>3, <2>1, LoopFrame
  <2>2. CASE <<q, n>> = <<p, m>>
    <3>1. MarkCompleted(p, m)
      BY <1>3, <2>2, LoopEnds
    <3> QED
      BY <2>2, <3>1 DEF MarkCompleted, Raise, Goto, TypeOK, LoopsOK, RowsOK
  <2> QED
    BY <2>1, <2>2
<1>4. ASSUME NEW p \in Proc, Stop(p) \/ Start(p) PROVE pc[<<q, n>>] = "closing"
  BY <1>4 DEF Stop, Start
<1>5. Environment => pc' = pc
  BY EnvironmentFrame
<1>6. UNCHANGED vars => pc' = pc
  BY DEF vars, loopVars
<1> QED
  BY <1>1, <1>2, <1>3, <1>4, <1>5, <1>6, Steps

(* What a loop does to the edge of its message: it closes it with the row,  *)
(* leaves that to closeDependency, or leaves both alone.                    *)
LEMMA LoopEdge ==
  ASSUME TypeOK, NEW p \in Proc, NEW m \in Message, LoopAction(p, m)
  PROVE  /\ \A n \in Message \ {m} : edge'[n] = edge[n]
         /\ \/ /\ edge'[m] = edge[m] /\ pc[<<p, m>>] # "closing"
               /\ \/ status'[m] = status[m]
                  \/ status[m] \in Unfinished /\ status'[m] \in Unfinished
                  \/ status[m] \in Unfinished /\ status'[m] = "completed"
                       /\ pc'[<<p, m>>] = "closing"
            \/ edge'[m] = FALSE /\ status'[m] \in Terminal
            \/ edge'[m] = FALSE /\ pc[<<p, m>>] = "closing" /\ status' = status
<1> USE DEF TypeOK, RowsOK, LoopsOK, Move, Raise, Goto, At, Run, Settle, UnchangedElsewhere,
            messageVars, Terminal, Unfinished, Dispatched
<1>1. CASE PollFinished(p, m) \/ PollDue(p, m) \/ ClaimRefused(p, m)
  BY <1>1 DEF PollFinished, PollDue, ClaimRefused
<1>2. CASE PollExpired(p, m) \/ PollStale(p, m)
  BY <1>2 DEF PollExpired, PollStale
<1>3. CASE Claim(p, m) \/ Release(p, m)
  BY <1>3 DEF Claim, Release
<1>4. CASE ReconcileMissing(p, m) \/ ReconcileInProgress(p, m)
  BY <1>4 DEF ReconcileMissing, ReconcileInProgress
<1>5. CASE ReconcileFailed(p, m) \/ ReconcileCompleted(p, m)
  BY <1>5 DEF ReconcileFailed, ReconcileCompleted
<1>6. CASE Recover(p, m) \/ MarkDispatching(p, m) \/ StartAttempt(p, m)
  BY <1>6 DEF Recover, MarkDispatching, StartAttempt
<1>7. CASE ResumeIdle(p, m) \/ ResumeBusy(p, m) \/ RequestFails(p, m) \/ Renew(p, m)
  BY <1>7 DEF ResumeIdle, ResumeBusy, RequestFails, Renew
<1>8. CASE TurnStarts(p, m) \/ TurnRefused(p, m) \/ AnswerLost(p, m)
  BY <1>8 DEF TurnStarts, TurnRefused, AnswerLost
<1>9. CASE StartUnanswered(p, m)
  BY <1>9 DEF StartUnanswered
<1>10. CASE MarkRunning(p, m) \/ MarkCompleted(p, m) \/ CloseDependency(p, m)
  BY <1>10 DEF MarkRunning, MarkCompleted, CloseDependency
<1>11. CASE TurnUnsuccessful(p, m) \/ TurnTimesOut(p, m) \/ Decide(p, m)
  BY <1>11 DEF TurnUnsuccessful, TurnTimesOut, Decide
<1>12. CASE FailDelivery(p, m) \/ Postpone(p, m) \/ Requeue(p, m)
  BY <1>12 DEF FailDelivery, Postpone, Requeue
<1> QED
  BY <1>1, <1>2, <1>3, <1>4, <1>5, <1>6, <1>7, <1>8, <1>9, <1>10, <1>11, <1>12
     DEF LoopAction, LoopStep

(* What EdgeClosed says of one message.                                     *)
EdgeFits(m) ==
  edge[m] => \/ status[m] \in Unfinished
             \/ \E p \in Proc : pc[<<p, m>>] = "closing"
             \/ status[m] = "completed" /\ deaths > 0

LEMMA EdgeStep ==
  ASSUME TypeOK, Registered, ClosingOK, EdgeClosed, [Next]_vars
  PROVE  EdgeClosed'
<1> SUFFICES ASSUME NEW n \in Message PROVE EdgeFits(n)'
  BY DEF EdgeClosed, EdgeFits
<1>0. EdgeFits(n) /\ edge[n] \in BOOLEAN /\ deaths \in Nat /\ "absent" \notin Unfinished
  BY DEF EdgeClosed, EdgeFits, TypeOK, RowsOK, ProcessesOK, Unfinished, Dispatched
<1>1. ASSUME UNCHANGED <<status, edge, deaths>>, \A p \in Proc : pc[<<p, n>>] = "closing" => pc'[<<p, n>>] = "closing"
      PROVE  EdgeFits(n)'
  BY <1>0, <1>1 DEF EdgeFits
<1>2. ASSUME NEW p \in Proc, NEW m \in Message, Submit(p, m), deaths' = deaths PROVE EdgeFits(n)'
  <2>1. /\ status[m] = "absent" /\ status' = [status EXCEPT ![m] = "queued"]
        /\ edge' = [edge EXCEPT ![m] = m \in Ask] /\ pc' = [pc EXCEPT ![<<p, m>>] = "poll"]
    BY <1>2 DEF Submit, Move, Goto
  <2>2. CASE n = m
    BY <2>1, <2>2 DEF EdgeFits, TypeOK, RowsOK, Unfinished, Dispatched
  <2>3. CASE n # m
    BY <1>0, <1>2, <2>1, <2>3 DEF EdgeFits
  <2> QED
    BY <2>2, <2>3
<1>3. ASSUME NEW p \in Proc, NEW m \in Message, LoopAction(p, m), deaths' = deaths PROVE EdgeFits(n)'
  <2>1. CASE n # m
    <3>1. edge'[n] = edge[n]
      BY <1>3, <2>1, LoopEdge
    <3>2. status'[n] = status[n] /\ \A r \in Run : r # <<p, m>> => pc'[r] = pc[r]
      BY <1>3, <2>1, LoopFrame
    <3>3. \A q \in Proc : pc'[<<q, n>>] = pc[<<q, n>>]
      BY <2>1, <3>2 DEF Run
    <3> QED
      BY <1>0, <1>3, <3>1, <3>2, <3>3 DEF EdgeFits
  <2>2. CASE n = m /\ edge'[m] = FALSE /\ status'[m] \in Terminal
    BY <2>2 DEF EdgeFits, Terminal, Unfinished, Dispatched
  <2>3. CASE n = m /\ edge'[m] = FALSE /\ pc[<<p, m>>] = "closing" /\ status' = status
    BY <2>3 DEF EdgeFits, ClosingOK, Unfinished, Dispatched
  <2>4. CASE /\ n = m /\ edge'[m] = edge[m] /\ pc[<<p, m>>] # "closing"
             /\ \/ status'[m] = status[m]
                \/ status[m] \in Unfinished /\ status'[m] \in Unfinished
                \/ status[m] \in Unfinished /\ status'[m] = "completed" /\ pc'[<<p, m>>] = "closing"
    <3>1. \A q \in Proc : pc[<<q, m>>] = "closing" => pc'[<<q, m>>] = "closing"
      BY <1>3, <2>4, LoopFrame DEF Run
    <3>2. "completed" \notin Unfinished
      BY DEF Unfinished, Dispatched
    <3> QED
      BY <1>0, <1>3, <2>4, <3>1, <3>2 DEF EdgeFits
  <2> QED
    BY <1>3, <2>1, <2>2, <2>3, <2>4, LoopEdge
<1>4. ASSUME NEW p \in Proc, Stop(p), deaths' = deaths + 1 PROVE EdgeFits(n)'
  <2>1. status' = status /\ edge' = edge /\ deaths' > 0
    BY <1>0, <1>4 DEF Stop, messageVars
  <2>2. \A q \in Proc : pc[<<q, n>>] = "closing" => status[n] = "completed"
    BY DEF ClosingOK
  <2> QED
    BY <1>0, <2>1, <2>2 DEF EdgeFits
<1>5. ASSUME NEW p \in Proc, Start(p), deaths' = deaths PROVE EdgeFits(n)'
  <2>1. UNCHANGED <<status, edge>> /\ \A r \in Run : pc'[r] = pc[r] \/ status[r[2]] \in Unfinished
    BY <1>5 DEF Start, messageVars, TypeOK, LoopsOK
  <2>2. \A q \in Proc : pc[<<q, n>>] = "closing" => pc'[<<q, n>>] = "closing"
    BY <2>1 DEF ClosingOK, Run, Unfinished, Dispatched
  <2> QED
    BY <1>1, <1>5, <2>1, <2>2
<1>6. ASSUME Environment, deaths' = deaths PROVE EdgeFits(n)'
  <2>1. edge' = edge
    BY <1>6 DEF Environment, ClockStep, LeaseExpires, BackoffElapses, TtlElapses,
       AdminStep, Pause, Resume, Replace, ServerStep, TurnEnds, LateTurnStarts, messageVars
  <2> QED
    BY <1>1, <1>6, <2>1, EnvironmentFrame
<1>7. CASE UNCHANGED vars
  BY <1>1, <1>7 DEF vars, messageVars, processVars, loopVars
<1> QED
  BY <1>2, <1>3, <1>4, <1>5, <1>6, <1>7, DeathSteps

(* A finished ask has no dependency edge any more, except one that a        *)
(* process is about to close, or died about to close.                       *)
THEOREM EdgeEndsWithItsAsk == Spec => []EdgeClosed
<1>1. Init => ClosingOK /\ EdgeClosed
  BY DEF Init, ClosingOK, EdgeClosed, Run, Unfinished, Dispatched
<1>2. DeliveryInvariant /\ ClosingOK /\ EdgeClosed /\ [Next]_vars => (ClosingOK /\ EdgeClosed)'
  BY ClosingStep, EdgeStep DEF DeliveryInvariant
<1> QED
  BY <1>1, <1>2, InvariantCorrect, PTL DEF Spec

-----------------------------------------------------------------------------
(* The retry budget.                                                        *)

(* There is an attempt left.                                                *)
Spare(m) == attempts[m] < MaxRetryAttempts + deaths

(* A loop that holds the lease of its thread and is on the way to turn/start *)
(* has an attempt left, or will find its message finished.                  *)
BudgetOK ==
  \A p \in Proc, m \in Message : Holds(p, m) =>
    /\ pc[<<p, m>>] \in {"missing", "resuming", "permit", "renewed"} =>
         Spare(m) \/ status[m] \in Terminal
    /\ pc[<<p, m>>] = "dispatched" => Spare(m)

(* The last attempt that started no turn is on its way to the end.          *)
Final == {"starting", "caught", "failing"}

LastAttempt ==
  \A m \in Message :
    status[m] \in Unfinished /\ turns[m] = <<>> /\ ~Spare(m) =>
      \E p \in Proc : Holds(p, m) /\ pc[<<p, m>>] \in Final

AttemptsInvariant == BudgetOK /\ LastAttempt /\ AttemptsBounded

(* How a loop leaves the places of a last attempt, and gets to the others.  *)
LEMMA LoopFinal ==
  ASSUME TypeOK, NEW p \in Proc, NEW m \in Message, LoopAction(p, m),
         pc[<<p, m>>] \in Final
  PROVE  /\ lease' = lease
         /\ \/ pc'[<<p, m>>] \in Final
            \/ turns'[m] # <<>>
            \/ status'[m] \notin Unfinished
            \/ attempts[m] < MaxRetryAttempts
<1>1. \/ TurnStarts(p, m) \/ TurnRefused(p, m) \/ StartUnanswered(p, m)
      \/ Decide(p, m) \/ FailDelivery(p, m)
  BY DEF LoopAction, LoopStep, Final, At, PollFinished, PollDue, ClaimRefused, PollExpired,
     PollStale, Claim, Release, ReconcileMissing, ReconcileInProgress, ReconcileFailed,
     ReconcileCompleted, Recover, MarkDispatching, StartAttempt, ResumeIdle, ResumeBusy,
     RequestFails, Renew, AnswerLost, MarkRunning, MarkCompleted, CloseDependency,
     TurnUnsuccessful, TurnTimesOut, Postpone, Requeue
<1>2. CASE TurnStarts(p, m)
  <2>1. turns'[m] = Append(turns[m], "inProgress") /\ turns[m] \in Seq(TurnStatus) /\ lease' = lease
    BY <1>2 DEF TurnStarts, TypeOK, ServerOK
  <2>2. turns'[m] # <<>>
    BY <2>1
  <2> QED
    BY <2>1, <2>2
<1>3. CASE TurnRefused(p, m) \/ StartUnanswered(p, m)
  BY <1>3 DEF TurnRefused, StartUnanswered, Raise, Goto, UnchangedElsewhere, Final, Run, TypeOK, LoopsOK
<1>4. CASE Decide(p, m)
  <2>1. attempts[m] \in Nat /\ MaxRetryAttempts \in Nat
    BY SchedulerAssumption DEF SchedulerAssumption, TypeOK, RowsOK
  <2>2. lease' = lease /\ (attempts[m] >= MaxRetryAttempts => pc'[<<p, m>>] = "failing")
    BY <1>4 DEF Decide, Move, Goto, UnchangedElsewhere, Run, TypeOK, LoopsOK
  <2> QED
    BY <2>1, <2>2 DEF Final
<1>5. CASE FailDelivery(p, m)
  <2>1. lease' = lease /\ status'[m] \notin Unfinished
    BY <1>5 DEF FailDelivery, Settle, UnchangedElsewhere, TypeOK, RowsOK, Unfinished, Dispatched
  <2> QED
    BY <2>1
<1> QED
  BY <1>1, <1>2, <1>3, <1>4, <1>5

LEMMA AttemptsLoop ==
  ASSUME DeliveryInvariant, AttemptsInvariant, NEW p \in Proc, NEW m \in Message,
         LoopAction(p, m), [Next]_vars, deaths' = deaths
  PROVE  AttemptsInvariant'
<1> USE DEF DeliveryInvariant, AttemptsInvariant
<1>0. /\ <<p, m>> \in Run /\ deaths \in Nat /\ MaxRetryAttempts \in Nat \ {0}
      /\ \A n \in Message : attempts[n] \in Nat
  BY SchedulerAssumption DEF SchedulerAssumption, Run, TypeOK, RowsOK, ProcessesOK
<1>1. \A n \in Message \ {m} : Spare(n)' <=> Spare(n)
  BY LoopFrame DEF Spare
<1>2. StartAttempt(p, m) => /\ pc[<<p, m>>] = "dispatched" /\ Holds(p, m) /\ Spare(m)
                            /\ attempts'[m] = attempts[m] + 1
  BY DEF StartAttempt, At, LeaseGuards, Guarded, BudgetOK, TypeOK, RowsOK
<1>3. ~StartAttempt(p, m) => attempts'[m] = attempts[m] /\ (Spare(m)' <=> Spare(m))
  BY LoopRow DEF Spare
<1>4. AttemptsBounded'
  <2>1. attempts'[m] <= MaxRetryAttempts + deaths
    <3>1. CASE StartAttempt(p, m)
      BY <1>0, <1>2, <3>1 DEF Spare
    <3>2. CASE ~StartAttempt(p, m)
      BY <1>3, <3>2 DEF AttemptsBounded
    <3> QED
      BY <3>1, <3>2
  <2>2. \A n \in Message \ {m} : attempts'[n] = attempts[n]
    BY LoopFrame
  <2> QED
    BY <2>1, <2>2 DEF AttemptsBounded
<1>5. ASSUME NEW q \in Proc, NEW n \in Message, Holds(q, n)'
      PROVE  /\ pc'[<<q, n>>] \in {"missing", "resuming", "permit", "renewed"} =>
                  Spare(n)' \/ status'[n] \in Terminal
             /\ pc'[<<q, n>>] = "dispatched" => Spare(n)'
  <2>1. CASE <<q, n>> # <<p, m>>
    <3>1. Holds(q, n) /\ pc'[<<q, n>>] = pc[<<q, n>>]
      BY <1>5, <2>1, LoopHolds, LoopFrame DEF Run
    <3>2. StartAttempt(p, m) => n # m
      BY <1>2, <2>1, <3>1, SoleHolder
    <3>3. Spare(n)' <=> Spare(n)
      BY <1>1, <1>3, <3>2
    <3>4. status[n] \in Terminal => status'[n] \in Terminal
      BY TerminalKept
    <3> QED
      BY <3>1, <3>3, <3>4 DEF BudgetOK
  <2>2. CASE <<q, n>> = <<p, m>> /\ Claim(p, m)
    <3>1. pc'[<<p, m>>] \in {"reading", "resuming"} /\ (pc'[<<p, m>>] = "resuming" => attempts[m] = 0)
      BY <1>0, <2>2 DEF Claim, Move, Goto, TypeOK, LoopsOK, RowsOK
    <3>2. attempts'[m] = attempts[m]
      BY <2>2 DEF Claim, messageVars
    <3> QED
      BY <1>0, <2>2, <3>1, <3>2 DEF Spare
  <2>3. CASE <<q, n>> = <<p, m>> /\ ~Claim(p, m)
    <3>1. Holds(p, m)
      BY <1>5, <2>3, LoopHolds
    <3>2. status[m] \in Terminal => status'[m] \in Terminal
      BY TerminalKept
    <3>3. CASE pc'[<<p, m>>] \notin {"missing", "resuming", "permit", "renewed", "dispatched"}
      BY <2>3, <3>3
    <3>4. CASE ReconcileMissing(p, m)
      <4>1. /\ pc[<<p, m>>] = "reading" /\ turns[m] = <<>> /\ status[m] # "absent"
            /\ pc'[<<p, m>>] \in {"missing", "resuming"} /\ UNCHANGED <<status, attempts>>
        BY <1>0, <3>4 DEF ReconcileMissing, At, Move, Goto, messageVars, Registered, TypeOK, LoopsOK
      <4>2. status[m] \in Terminal \/ status[m] \in Unfinished
        BY <4>1 DEF TypeOK, RowsOK, Status
      <4>3. status[m] \in Unfinished => Spare(m)
        <5>1. \A r \in Proc : Holds(r, m) => r = p
          BY <3>1, SoleHolder
        <5> QED
          BY <4>1, <5>1 DEF LastAttempt, Final
      <4> QED
        BY <2>3, <4>1, <4>2, <4>3 DEF Spare
    <3>5. CASE Recover(p, m) \/ ResumeIdle(p, m) \/ Renew(p, m)
      <4>1. /\ pc[<<p, m>>] \in {"missing", "resuming", "permit"}
            /\ pc'[<<p, m>>] # "dispatched" /\ attempts' = attempts
        BY <1>0, <3>5 DEF Recover, ResumeIdle, Renew, At, Move, Raise, Goto, messageVars, TypeOK, LoopsOK
      <4> QED
        BY <2>3, <3>1, <3>2, <4>1 DEF BudgetOK, Spare
    <3>6. CASE MarkDispatching(p, m)
      <4>1. /\ pc[<<p, m>>] = "renewed" /\ attempts' = attempts
            /\ \/ status[m] = "queued"
               \/ pc'[<<p, m>>] = "caught"
        BY <1>0, <3>6 DEF MarkDispatching, At, Raise, Goto, TypeOK, LoopsOK
      <4> QED
        BY <2>3, <3>1, <3>2, <4>1 DEF BudgetOK, Spare, Terminal
    <3> QED
      BY <2>3, <3>3, <3>4, <3>5, <3>6, LoopMoves
  <2> QED
    BY <2>1, <2>2, <2>3
<1>6. ASSUME NEW n \in Message, status'[n] \in Unfinished, turns'[n] = <<>>, ~Spare(n)'
      PROVE  \E q \in Proc : Holds(q, n)' /\ pc'[<<q, n>>] \in Final
  <2>1. CASE n = m /\ StartAttempt(p, m)
    <3>1. pc'[<<p, m>>] = "starting" /\ lease' = lease
      BY <1>0, <2>1 DEF StartAttempt, Move, Goto, UnchangedElsewhere, TypeOK, LoopsOK
    <3>2. Holds(p, m)'
      BY <1>2, <2>1, <3>1, ThreadKept, LoopFrame DEF Holds
    <3> QED
      BY <2>1, <3>1, <3>2 DEF Final
  <2>2. CASE ~(n = m /\ StartAttempt(p, m))
    <3>1. ~Spare(n)
      BY <1>1, <1>3, <1>6, <2>2
    <3>2. turns[n] = <<>>
      <4>1. turns'[n] = turns[n] \/ (TurnStarts(p, m) /\ n = m)
        BY LoopTurns
      <4>2. TurnStarts(p, m) => turns'[m] # <<>>
        <5>1. TurnStarts(p, m) => turns'[m] = Append(turns[m], "inProgress")
          BY DEF TurnStarts, TypeOK, ServerOK
        <5>2. turns[m] \in Seq(TurnStatus)
          BY DEF TypeOK, ServerOK
        <5> QED
          BY <5>1, <5>2
      <4> QED
        BY <1>6, <4>1, <4>2
    <3>3. status[n] \in Unfinished
      <4>1. status[n] \notin Terminal
        BY <1>6, TerminalKept DEF Terminal, Unfinished, Dispatched
      <4>2. status[m] # "absent"
        BY LoopRow DEF Registered
      <4>3. n # m => status'[n] = status[n]
        BY LoopFrame
      <4> QED
        BY <1>6, <4>1, <4>2, <4>3 DEF TypeOK, RowsOK, Status
    <3>4. PICK q \in Proc : Holds(q, n) /\ pc[<<q, n>>] \in Final
      BY <3>1, <3>2, <3>3 DEF LastAttempt
    <3>5. CASE <<q, n>> # <<p, m>>
      <4>1. Holds(q, n)' /\ pc'[<<q, n>>] = pc[<<q, n>>]
        BY <3>4, <3>5, LoopHolds, LoopFrame DEF Run
      <4> QED
        BY <3>4, <4>1
    <3>6. CASE <<q, n>> = <<p, m>>
      <4>1. ~(attempts[m] < MaxRetryAttempts)
        BY <1>0, <3>1, <3>6 DEF Spare
      <4>2. lease' = lease /\ pc'[<<p, m>>] \in Final
        BY <1>6, <3>4, <3>6, <4>1, LoopFinal
      <4>3. Holds(p, m)'
        BY <3>4, <3>6, <4>2, ThreadKept, LoopFrame DEF Holds
      <4> QED
        BY <3>6, <4>2, <4>3
    <3> QED
      BY <3>5, <3>6
  <2> QED
    BY <2>1, <2>2
<1>7. BudgetOK'
  BY <1>5 DEF BudgetOK
<1>8. LastAttempt'
  BY <1>6 DEF LastAttempt
<1> QED
  BY <1>4, <1>7, <1>8

(* What is not a step of a loop keeps attempts and turns.                   *)
LEMMA AttemptsElsewhere ==
  ASSUME DeliveryInvariant, AttemptsInvariant, [Next]_vars,
         attempts' = attempts, deaths' \in Nat, deaths <= deaths',
         \A n \in Message : turns'[n] = <<>> => turns[n] = <<>>,
         \A n \in Message : status'[n] \in Unfinished => status[n] \in Unfinished \/ attempts[n] = 0,
         \A q \in Proc, n \in Message : pc'[<<q, n>>] \in {"off", "poll"} \/ pc'[<<q, n>>] = pc[<<q, n>>],
         \A q \in Proc, n \in Message : pc'[<<q, n>>] \notin {"off", "poll"} /\ Holds(q, n)' => Holds(q, n),
         deaths' = deaths => \A q \in Proc, n \in Message :
           Holds(q, n) /\ pc[<<q, n>>] \in Final => Holds(q, n)' /\ pc'[<<q, n>>] = pc[<<q, n>>]
  PROVE  AttemptsInvariant'
<1> USE DEF DeliveryInvariant, AttemptsInvariant
<1>0. deaths \in Nat /\ MaxRetryAttempts \in Nat \ {0} /\ \A n \in Message : attempts[n] \in Nat
  BY SchedulerAssumption DEF SchedulerAssumption, TypeOK, RowsOK, ProcessesOK
<1>1. \A n \in Message : Spare(n) => Spare(n)'
  BY <1>0 DEF Spare
<1>2. AttemptsBounded'
  BY <1>0 DEF AttemptsBounded
<1>3. BudgetOK'
  <2>1. \A n \in Message : status[n] \in Terminal => status'[n] \in Terminal
    BY TerminalKept
  <2> QED
    BY <1>1, <2>1 DEF BudgetOK
<1>4. ASSUME NEW n \in Message, status'[n] \in Unfinished, turns'[n] = <<>>, ~Spare(n)'
      PROVE  \E q \in Proc : Holds(q, n)' /\ pc'[<<q, n>>] \in Final
  <2>1. deaths' = deaths /\ attempts[n] # 0
    BY <1>0, <1>4 DEF AttemptsBounded, Spare
  <2>2. PICK q \in Proc : Holds(q, n) /\ pc[<<q, n>>] \in Final
    BY <1>1, <1>4, <2>1 DEF LastAttempt
  <2> QED
    BY <2>1, <2>2
<1>5. LastAttempt'
  BY <1>4 DEF LastAttempt
<1> QED
  BY <1>2, <1>3, <1>5

(* A process that is down has no loops.                                     *)
LoopsUp == \A p \in Proc, m \in Message : pc[<<p, m>>] # "off" => up[p]

LEMMA LoopUp ==
  ASSUME NEW p \in Proc, NEW m \in Message, LoopAction(p, m)
  PROVE  up' = up /\ pc[<<p, m>>] # "off"
<1> USE DEF UnchangedElsewhere, processVars, At
<1>1. ASSUME \/ PollFinished(p, m) \/ PollExpired(p, m) \/ PollStale(p, m) \/ PollDue(p, m)
        \/ Claim(p, m) \/ ClaimRefused(p, m) \/ ReconcileMissing(p, m)
        \/ ReconcileInProgress(p, m) \/ ReconcileFailed(p, m) \/ ReconcileCompleted(p, m)
        \/ Recover(p, m) \/ ResumeIdle(p, m) \/ ResumeBusy(p, m) \/ RequestFails(p, m)
      PROVE  up' = up /\ pc[<<p, m>>] # "off"
  BY <1>1 DEF PollFinished, PollExpired, PollStale, PollDue, Claim, ClaimRefused,
     ReconcileMissing, ReconcileInProgress, ReconcileFailed, ReconcileCompleted,
     Recover, ResumeIdle, ResumeBusy, RequestFails
<1>2. ASSUME \/ Renew(p, m) \/ MarkDispatching(p, m) \/ StartAttempt(p, m) \/ TurnStarts(p, m)
        \/ TurnRefused(p, m) \/ StartUnanswered(p, m) \/ AnswerLost(p, m)
        \/ MarkRunning(p, m) \/ TurnUnsuccessful(p, m) \/ MarkCompleted(p, m)
        \/ TurnTimesOut(p, m) \/ CloseDependency(p, m) \/ Decide(p, m)
        \/ FailDelivery(p, m) \/ Postpone(p, m) \/ Requeue(p, m) \/ Release(p, m)
      PROVE  up' = up /\ pc[<<p, m>>] # "off"
  BY <1>2 DEF Renew, MarkDispatching, StartAttempt, TurnStarts, TurnRefused,
     StartUnanswered, AnswerLost, MarkRunning, TurnUnsuccessful, MarkCompleted,
     TurnTimesOut, CloseDependency, Decide, FailDelivery, Postpone, Requeue, Release
<1> QED
  BY <1>1, <1>2 DEF LoopAction, LoopStep

LEMMA LoopsUpStep ==
  ASSUME TypeOK, LoopsUp, [Next]_vars
  PROVE  LoopsUp'
<1> SUFFICES ASSUME NEW q \in Proc, NEW n \in Message, pc'[<<q, n>>] # "off"
             PROVE  up'[q]
  BY DEF LoopsUp
<1> <<q, n>> \in Run /\ up \in [Proc -> BOOLEAN] /\ pc \in [Run -> Place]
  BY DEF Run, TypeOK, ProcessesOK, LoopsOK
<1>1. ASSUME NEW p \in Proc, NEW m \in Message, Submit(p, m) PROVE up'[q]
  <2>1. up' = up /\ up[p] /\ pc' = [pc EXCEPT ![<<p, m>>] = "poll"]
    BY <1>1 DEF Submit, Move, Goto, UnchangedElsewhere, processVars
  <2> QED
    BY <2>1 DEF LoopsUp
<1>2. ASSUME NEW p \in Proc, NEW m \in Message, LoopAction(p, m) PROVE up'[q]
  BY <1>2, LoopUp, LoopFrame DEF LoopsUp
<1>3. ASSUME NEW p \in Proc, Stop(p) PROVE up'[q]
  <2>1. up' = [up EXCEPT ![p] = FALSE] /\ pc'[<<q, n>>] = IF q = p THEN "off" ELSE pc[<<q, n>>]
    BY <1>3 DEF Stop
  <2> QED
    BY <2>1 DEF LoopsUp
<1>4. ASSUME NEW p \in Proc, Start(p) PROVE up'[q]
  <2>1. up' = [up EXCEPT ![p] = TRUE] /\ (q # p => pc'[<<q, n>>] = pc[<<q, n>>])
    BY <1>4 DEF Start
  <2> QED
    BY <2>1 DEF LoopsUp
<1>5. ASSUME Environment PROVE up'[q]
  <2>1. up' = up /\ pc' = pc
    BY <1>5 DEF Environment, ClockStep, LeaseExpires, BackoffElapses, TtlElapses,
       AdminStep, Pause, Resume, Replace, ServerStep, TurnEnds, LateTurnStarts,
       UnchangedElsewhere, processVars, loopVars
  <2> QED
    BY <2>1 DEF LoopsUp
<1>6. CASE UNCHANGED vars
  BY <1>6 DEF LoopsUp, vars, processVars, loopVars
<1> QED
  BY <1>1, <1>2, <1>3, <1>4, <1>5, <1>6, Steps

LEMMA AttemptsStep ==
  ASSUME DeliveryInvariant, LoopsUp, AttemptsInvariant, [Next]_vars
  PROVE  AttemptsInvariant'
<1>0. TypeOK /\ Registered /\ deaths \in Nat
  BY DEF DeliveryInvariant, TypeOK, ProcessesOK
<1>1. ASSUME NEW p \in Proc, NEW m \in Message, Submit(p, m), deaths' = deaths
      PROVE  AttemptsInvariant'
  <2>1. /\ attempts' = attempts /\ turns' = turns
        /\ status[m] = "absent" /\ status' = [status EXCEPT ![m] = "queued"]
        /\ pc' = [pc EXCEPT ![<<p, m>>] = "poll"]
    BY <1>1 DEF Submit, Move, Goto, UnchangedElsewhere, serverVars
  <2>2. attempts[m] = 0 /\ \A q \in Proc : pc[<<q, m>>] = "off"
    BY <1>0, <2>1 DEF Registered
  <2>3. \A n \in Message : status'[n] \in Unfinished => status[n] \in Unfinished \/ attempts[n] = 0
    BY <1>0, <2>1, <2>2 DEF TypeOK, RowsOK
  <2>4. \A q \in Proc, n \in Message :
          /\ pc'[<<q, n>>] \in {"off", "poll"} \/ pc'[<<q, n>>] = pc[<<q, n>>]
          /\ n = m => pc'[<<q, n>>] \in {"off", "poll"} /\ pc[<<q, n>>] \notin Final
          /\ n # m => pc'[<<q, n>>] = pc[<<q, n>>]
    BY <1>0, <2>1, <2>2 DEF TypeOK, LoopsOK, Run, Final
  <2>5. \A q \in Proc, n \in Message : n # m => (Holds(q, n)' <=> Holds(q, n))
    BY <1>0, <1>1, SubmitHolds
  <2> QED
    BY <1>0, <1>1, <2>1, <2>3, <2>4, <2>5, AttemptsElsewhere
<1>2. ASSUME NEW p \in Proc, NEW m \in Message, LoopAction(p, m), deaths' = deaths
      PROVE  AttemptsInvariant'
  BY <1>2, AttemptsLoop
<1>3. ASSUME NEW p \in Proc, Stop(p), deaths' = deaths + 1
      PROVE  AttemptsInvariant'
  <2>1. UNCHANGED <<attempts, turns, status>>
    BY <1>3 DEF Stop, Abandon, messageVars
  <2>2. \A q \in Proc, n \in Message : pc'[<<q, n>>] = "off" \/ pc'[<<q, n>>] = pc[<<q, n>>]
    BY <1>3 DEF Stop, Run
  <2>3. \A q \in Proc, n \in Message : Holds(q, n)' => Holds(q, n)
    BY <1>0, <1>3, StopHolds
  <2>4. deaths' \in Nat /\ deaths <= deaths' /\ deaths' # deaths
    BY <1>0, <1>3
  <2> QED
    BY <2>1, <2>2, <2>3, <2>4, AttemptsElsewhere
<1>4. ASSUME NEW p \in Proc, Start(p), deaths' = deaths
      PROVE  AttemptsInvariant'
  <2>1. UNCHANGED <<attempts, turns, status, generation, lease>> /\ ~up[p]
    BY <1>4 DEF Start, messageVars, serverVars
  <2>2. \A q \in Proc, n \in Message :
          /\ pc'[<<q, n>>] = "poll" \/ pc'[<<q, n>>] = pc[<<q, n>>]
          /\ pc[<<q, n>>] # "off" => pc'[<<q, n>>] = pc[<<q, n>>]
    BY <1>0, <1>4, <2>1 DEF Start, Run, LoopsUp, TypeOK, LoopsOK
  <2>3. \A q \in Proc, n \in Message : Holds(q, n)' <=> Holds(q, n)
    BY <1>0, <2>1, ThreadKept DEF Holds
  <2> QED
    BY <1>0, <1>4, <2>1, <2>2, <2>3, AttemptsElsewhere DEF Final
<1>5. ASSUME Environment, deaths' = deaths
      PROVE  AttemptsInvariant'
  <2>1. UNCHANGED <<attempts, status, pc>>
    BY <1>5, EnvironmentFrame
  <2>2. \A n \in Message : turns'[n] = <<>> => turns[n] = <<>>
    <3> SUFFICES ASSUME NEW n \in Message, turns'[n] = <<>> PROVE turns[n] = <<>>
      OBVIOUS
    <3>1. Len(turns[n]) = 0
      <4>1. Len(turns'[n]) = 0 /\ Len(turns[n]) \in Nat
        BY <1>0 DEF TypeOK, ServerOK
      <4>2. Len(turns'[n]) = Len(turns[n]) \/ Len(turns'[n]) = Len(turns[n]) + 1
        BY <1>0, <1>5, EnvironmentTurns
      <4> QED
        BY <4>1, <4>2
    <3> QED
      BY <1>0, <3>1 DEF TypeOK, ServerOK
  <2>3. \A q \in Proc, n \in Message :
          /\ Holds(q, n)' => Holds(q, n)
          /\ Holds(q, n) /\ pc[<<q, n>>] \in Final => Holds(q, n)'
    BY <1>0, <1>5, EnvironmentHolds DEF Final, OutlastsLease
  <2> QED
    BY <1>0, <1>5, <2>1, <2>2, <2>3, AttemptsElsewhere
<1>6. CASE UNCHANGED vars
  <2>1. UNCHANGED <<attempts, turns, status, deaths, lease, pc, generation>>
    BY <1>6 DEF vars, messageVars, serverVars, processVars, loopVars
  <2>2. \A q \in Proc, n \in Message : Holds(q, n)' <=> Holds(q, n)
    BY <1>0, <2>1, ThreadKept DEF Holds
  <2> QED
    BY <1>0, <2>1, <2>2, AttemptsElsewhere
<1> QED
  BY <1>1, <1>2, <1>3, <1>4, <1>5, <1>6, DeathSteps

(* A message is attempted no more often than its retry budget allows, plus  *)
(* once for every death of a process: the attempts of #run, the decision    *)
(* after an error and the recovery of a new process together.               *)
THEOREM AttemptsAreBounded == Spec => []AttemptsBounded
<1>1. Init => LoopsUp /\ AttemptsInvariant
  <2>1. Init => /\ \A r \in Run : pc[r] = "off"
                /\ \A m \in Message : status[m] = "absent" /\ attempts[m] = 0
                /\ deaths = 0
    BY DEF Init
  <2>2. "absent" \notin Unfinished
    BY DEF Unfinished, Dispatched
  <2> QED
    BY <2>1, <2>2, SchedulerAssumption
       DEF SchedulerAssumption, Run, LoopsUp, AttemptsInvariant, BudgetOK, LastAttempt,
           AttemptsBounded
<1>2. DeliveryInvariant /\ LoopsUp /\ AttemptsInvariant /\ [Next]_vars
      => (LoopsUp /\ AttemptsInvariant)'
  BY LoopsUpStep, AttemptsStep DEF DeliveryInvariant
<1>3. AttemptsInvariant => AttemptsBounded
  BY DEF AttemptsInvariant
<1> QED
  BY <1>1, <1>2, <1>3, InvariantCorrect, PTL DEF Spec

-----------------------------------------------------------------------------
(* Who stays with a message.                                                *)

(* A loop leaves, without an exception, only a finished message.            *)
LeavingOK ==
  \A p \in Proc, m \in Message : pc[<<p, m>>] = "leaving" => status[m] \in Terminal

(* What a loop leaves unfinished it stays with, and so does the one that    *)
(* changes the row.                                                         *)
LEMMA LoopStays ==
  ASSUME TypeOK, NEW p \in Proc, NEW m \in Message, LoopAction(p, m)
  PROVE  /\ pc'[<<p, m>>] = "leaving" => status'[m] \in Terminal \/ CloseDependency(p, m)
                                           \/ status[m] = "absent"
         /\ status'[m] \in Unfinished /\ pc[<<p, m>>] # "leaving" =>
              /\ Stays(p, m) => Stays(p, m)'
              /\ status'[m] # status[m] => Stays(p, m)'
<1> USE DEF TypeOK, RowsOK, LoopsOK, Move, Raise, Goto, At, Run, Settle, UnchangedElsewhere,
            messageVars, Terminal, Unfinished, Dispatched, Stays
<1>1. CASE PollFinished(p, m) \/ PollDue(p, m) \/ ClaimRefused(p, m)
  BY <1>1 DEF PollFinished, PollDue, ClaimRefused
<1>2. CASE PollExpired(p, m) \/ PollStale(p, m)
  BY <1>2 DEF PollExpired, PollStale
<1>3. CASE Claim(p, m) \/ Release(p, m)
  BY <1>3 DEF Claim, Release
<1>4. CASE ReconcileMissing(p, m) \/ ReconcileInProgress(p, m)
  BY <1>4 DEF ReconcileMissing, ReconcileInProgress
<1>5. CASE ReconcileFailed(p, m) \/ ReconcileCompleted(p, m)
  BY <1>5 DEF ReconcileFailed, ReconcileCompleted, Status
<1>6. CASE Recover(p, m) \/ MarkDispatching(p, m) \/ StartAttempt(p, m)
  BY <1>6 DEF Recover, MarkDispatching, StartAttempt
<1>7. CASE ResumeIdle(p, m) \/ ResumeBusy(p, m) \/ RequestFails(p, m) \/ Renew(p, m)
  BY <1>7 DEF ResumeIdle, ResumeBusy, RequestFails, Renew
<1>8. CASE TurnStarts(p, m) \/ TurnRefused(p, m) \/ AnswerLost(p, m)
  BY <1>8 DEF TurnStarts, TurnRefused, AnswerLost
<1>9. CASE StartUnanswered(p, m)
  BY <1>9 DEF StartUnanswered
<1>10. CASE MarkRunning(p, m) \/ MarkCompleted(p, m) \/ CloseDependency(p, m)
  BY <1>10 DEF MarkRunning, MarkCompleted, CloseDependency
<1>11. CASE TurnUnsuccessful(p, m) \/ TurnTimesOut(p, m) \/ Decide(p, m)
  BY <1>11 DEF TurnUnsuccessful, TurnTimesOut, Decide
<1>12. CASE FailDelivery(p, m) \/ Postpone(p, m) \/ Requeue(p, m)
  BY <1>12 DEF FailDelivery, Postpone, Requeue, Status
<1> QED
  BY <1>1, <1>2, <1>3, <1>4, <1>5, <1>6, <1>7, <1>8, <1>9, <1>10, <1>11, <1>12
     DEF LoopAction, LoopStep

LEMMA LeavingStep ==
  ASSUME TypeOK, Registered, ClosingOK, LeavingOK, [Next]_vars
  PROVE  LeavingOK'
<1> SUFFICES ASSUME NEW q \in Proc, NEW n \in Message, pc'[<<q, n>>] = "leaving"
             PROVE  status'[n] \in Terminal
  BY DEF LeavingOK
<1> <<q, n>> \in Run
  BY DEF Run
<1>1. ASSUME pc[<<q, n>>] = "leaving" PROVE status'[n] \in Terminal
  BY <1>1, TerminalKept DEF LeavingOK
<1>2. ASSUME NEW p \in Proc, NEW m \in Message, Submit(p, m) PROVE pc[<<q, n>>] = "leaving"
  BY <1>2 DEF Submit, Move, Goto, TypeOK, LoopsOK
<1>3. ASSUME NEW p \in Proc, NEW m \in Message, LoopAction(p, m) PROVE status'[n] \in Terminal
  <2>1. CASE <<q, n>> # <<p, m>>
    BY <1>1, <1>3, <2>1, LoopFrame
  <2>2. CASE <<q, n>> = <<p, m>>
    <3>1. status[m] # "absent"
      BY <1>3, LoopRow DEF Registered
    <3>2. CASE CloseDependency(p, m)
      BY <2>2, <3>2 DEF CloseDependency, At, ClosingOK, Terminal
    <3> QED
      BY <1>3, <2>2, <3>1, <3>2, LoopStays
  <2> QED
    BY <2>1, <2>2
<1>4. ASSUME NEW p \in Proc, Stop(p) \/ Start(p) PROVE pc[<<q, n>>] = "leaving"
  BY <1>4 DEF Stop, Start
<1>5. Environment => pc' = pc
  BY EnvironmentFrame
<1>6. UNCHANGED vars => pc' = pc
  BY DEF vars, loopVars
<1> QED
  BY <1>1, <1>2, <1>3, <1>4, <1>5, <1>6, Steps

(* Nobody else's loop is disturbed, but by a row that is put back; and the  *)
(* loop that puts it back stays itself.                                     *)
LEMMA TendedByLoop ==
  ASSUME TypeOK, Registered, LeavingOK, LoopsUp, NEW p \in Proc, NEW m \in Message,
         LoopAction(p, m), NEW n \in Message, status'[n] \in Unfinished,
         Tended(n) \/ status[n] = "absent"
  PROVE  Tended(n)'
<1>1. up' = up /\ up[p] /\ pc[<<p, m>>] # "off" /\ status[m] # "absent"
  BY LoopUp DEF LoopsUp, Registered
<1>2. pc[<<p, m>>] = "leaving" => status'[m] \notin Unfinished
  BY LoopRow DEF LeavingOK, Terminal, Unfinished, Dispatched
<1>3. \A r \in Run : r # <<p, m>> => pc'[r] = pc[r]
  BY LoopFrame
<1>4. n # m => status'[n] = status[n]
  BY LoopFrame
<1>5. CASE n = m /\ status'[m] # status[m]
  <2>1. Stays(p, m)'
    BY <1>2, <1>5, LoopStays
  <2> QED
    BY <1>1, <1>5, <2>1 DEF Tended
<1>6. CASE status'[n] = status[n]
  <2>1. Tended(n)
    BY <1>6 DEF Unfinished, Dispatched
  <2>2. PICK q \in Proc : up[q] /\ Stays(q, n)
    BY <2>1 DEF Tended
  <2>3. CASE <<q, n>> = <<p, m>>
    <3>1. Stays(p, m)'
      BY <1>2, <2>2, <2>3, LoopStays
    <3> QED
      BY <1>1, <2>3, <3>1 DEF Tended
  <2>4. CASE <<q, n>> # <<p, m>>
    <3>1. pc'[<<q, n>>] = pc[<<q, n>>]
      BY <1>3, <2>4 DEF Run
    <3>2. Stays(q, n)'
      BY <1>6, <2>2, <3>1 DEF Stays
    <3> QED
      BY <1>1, <2>2, <3>2 DEF Tended
  <2> QED
    BY <2>3, <2>4
<1> QED
  BY <1>4, <1>5, <1>6

LEMMA TendedStep ==
  ASSUME TypeOK, Registered, LeavingOK, LoopsUp, [Next]_vars, NEW n \in Message,
         Tended(n) \/ status[n] = "absent" \/ \E p \in Proc : ~up[p] /\ up'[p],
         status'[n] \in Unfinished, deaths' = deaths
  PROVE  Tended(n)'
<1>1. ASSUME NEW p \in Proc, NEW m \in Message, Submit(p, m) PROVE Tended(n)'
  <2>1. /\ up' = up /\ up[p] /\ status[m] = "absent"
        /\ status' = [status EXCEPT ![m] = "queued"]
        /\ pc' = [pc EXCEPT ![<<p, m>>] = "poll"]
    BY <1>1 DEF Submit, Move, Goto, UnchangedElsewhere, processVars
  <2>2. CASE n = m
    <3>1. pc'[<<p, n>>] = "poll"
      BY <2>1, <2>2 DEF TypeOK, LoopsOK, Run
    <3> QED
      BY <2>1, <3>1 DEF Tended, Stays
  <2>3. CASE n # m
    <3>1. status'[n] = status[n] /\ \A q \in Proc : pc'[<<q, n>>] = pc[<<q, n>>]
      BY <2>1, <2>3 DEF TypeOK, LoopsOK, Run
    <3>2. status[n] # "absent"
      BY <3>1 DEF Unfinished, Dispatched
    <3> QED
      BY <2>1, <3>1, <3>2 DEF Tended, Stays
  <2> QED
    BY <2>2, <2>3
<1>2. ASSUME NEW p \in Proc, NEW m \in Message, LoopAction(p, m) PROVE Tended(n)'
  BY <1>2, LoopUp, TendedByLoop
<1>3. ASSUME NEW p \in Proc, Start(p) PROVE Tended(n)'
  <2>1. up' = [up EXCEPT ![p] = TRUE] /\ status' = status
    BY <1>3 DEF Start, messageVars
  <2>2. pc'[<<p, n>>] = "poll" /\ up'[p]
    BY <1>3, <2>1 DEF Start, Run, TypeOK, ProcessesOK
  <2> QED
    BY <2>2 DEF Tended, Stays
<1>4. ASSUME UNCHANGED <<pc, status, up>> PROVE Tended(n)'
  <2>1. status[n] # "absent"
    BY <1>4 DEF Unfinished, Dispatched
  <2> QED
    BY <1>4, <2>1 DEF Tended, Stays
<1>5. Environment => UNCHANGED <<pc, status, up>>
  BY DEF Environment, ClockStep, LeaseExpires, BackoffElapses, TtlElapses, AdminStep, Pause,
     Resume, Replace, ServerStep, TurnEnds, LateTurnStarts, UnchangedElsewhere, processVars,
     loopVars, messageVars
<1>6. UNCHANGED vars => UNCHANGED <<pc, status, up>>
  BY DEF vars, processVars, loopVars, messageVars
<1>7. deaths' # deaths + 1
  BY DEF TypeOK, ProcessesOK
<1> QED
  BY <1>1, <1>2, <1>3, <1>4, <1>5, <1>6, <1>7, DeathSteps

(* An accepted message always has a loop of a running process that goes on  *)
(* with it until it has an outcome, unless a process died, and then from    *)
(* the start of the next one: what EveryMessageSettles needs besides        *)
(* fairness, for any number of processes.                                   *)
THEOREM NeverLetGo == Spec => TendedUntilDeath
<1>1. Init => LeavingOK /\ ClosingOK /\ LoopsUp
  BY DEF Init, LeavingOK, ClosingOK, LoopsUp, Run
<1>2. DeliveryInvariant /\ LeavingOK /\ ClosingOK /\ LoopsUp /\ [Next]_vars
      => (LeavingOK /\ ClosingOK /\ LoopsUp)'
  BY LeavingStep, ClosingStep, LoopsUpStep DEF DeliveryInvariant
<1>3. DeliveryInvariant /\ LeavingOK /\ LoopsUp /\ [Next]_vars =>
        [\A m \in Message :
           /\ Tended(m) \/ status[m] = "absent" \/ \E p \in Proc : ~up[p] /\ up'[p]
           /\ status'[m] \in Unfinished /\ deaths' = deaths
           => Tended(m)']_vars
  BY TendedStep DEF DeliveryInvariant
<1> QED
  BY <1>1, <1>2, <1>3, InvariantCorrect, PTL DEF Spec, TendedUntilDeath
=============================================================================
