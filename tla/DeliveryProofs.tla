--------------------------- MODULE DeliveryProofs ---------------------------
(***************************************************************************)
(* Proofs about the delivery scheduler, for any number of processes,       *)
(* messages and agents and any bounds.                                     *)
(***************************************************************************)
EXTENDS DeliveryProperties, TLAPS

-----------------------------------------------------------------------------
(* Type correctness: first what the shared parts of the actions keep.       *)

(* The thread of a message is one of the threads the lease table is about.  *)
LEMMA ThreadType ==
  ASSUME RowsOK, NEW m \in Message
  PROVE  ThreadOf(m) \in Thread
BY SchedulerAssumption DEF SchedulerAssumption, RowsOK, ThreadOf, Thread

(* A loop moves to a place of #run.                                         *)
LEMMA MoveType ==
  ASSUME LoopsOK, NEW p \in Proc, NEW m \in Message, NEW place \in Place,
         Move(p, m, place)
  PROVE  LoopsOK'
BY DEF LoopsOK, Move, Goto, Run

(* An exception puts the loop into the catch clause with an error code.     *)
LEMMA RaiseType ==
  ASSUME LoopsOK, NEW p \in Proc, NEW m \in Message, NEW c \in ErrorCode,
         Raise(p, m, c)
  PROVE  LoopsOK'
<1>1. "caught" \in Place
  BY DEF Place
<1> QED
  BY <1>1 DEF LoopsOK, Raise, Goto, Run

(* failTerminal, deadLetter and completeRecovered write a terminal status.  *)
LEMMA SettleType ==
  ASSUME RowsOK, NEW m \in Message, NEW s \in Terminal, NEW c \in ErrorCode,
         Settle(m, s, c)
  PROVE  RowsOK'
<1>1. s \in Status
  BY DEF Status
<1>2. status' \in [Message -> Status] /\ code' \in [Message -> ErrorCode]
  BY <1>1 DEF RowsOK, Settle
<1>3. edge' \in [Message -> BOOLEAN] /\ backoff' \in [Message -> BOOLEAN]
  BY DEF RowsOK, Settle
<1>4. UNCHANGED <<attempts, expired, generation>>
  BY DEF Settle
<1> QED
  BY <1>2, <1>3, <1>4 DEF RowsOK

LEMMA RowsKept == ASSUME RowsOK, UNCHANGED messageVars PROVE RowsOK'
BY DEF RowsOK, messageVars

LEMMA ElsewhereKept ==
  ASSUME AgentsOK, LeasesOK, ProcessesOK, ServerOK, UnchangedElsewhere
  PROVE  AgentsOK' /\ LeasesOK' /\ ProcessesOK' /\ ServerOK'
BY DEF AgentsOK, LeasesOK, ProcessesOK, ServerOK, UnchangedElsewhere, agentVars,
       processVars, serverVars

LEMMA Codes ==
  /\ TransientCode \subseteq ErrorCode
  /\ FatalCode \subseteq ErrorCode
  /\ "none" \in ErrorCode
BY DEF ErrorCode

(* Admission and the head of the loop keep the types.                       *)
LEMMA TypeHead ==
  ASSUME TypeOK, NEW p \in Proc, NEW m \in Message,
         \/ Submit(p, m)
         \/ PollFinished(p, m) \/ PollExpired(p, m) \/ PollStale(p, m)
         \/ PollDue(p, m) \/ Claim(p, m) \/ ClaimRefused(p, m)
  PROVE  TypeOK'
<1> USE DEF TypeOK
<1>1. {"off", "poll", "claim", "reading", "resuming"} \subseteq Place
  BY DEF Place
<1>2. CASE Submit(p, m)
  <2>1. status' \in [Message -> Status]
    BY <1>2 DEF RowsOK, Submit, Status, Unfinished
  <2>2. generation' \in [Message -> 1 .. MaxGeneration]
    BY <1>2, SchedulerAssumption
       DEF SchedulerAssumption, RowsOK, AgentsOK, Submit
  <2>3. edge' \in [Message -> BOOLEAN]
    BY <1>2 DEF RowsOK, Submit
  <2>4. UNCHANGED <<attempts, code, backoff, expired>>
    BY <1>2 DEF Submit
  <2>5. RowsOK'
    BY <2>1, <2>2, <2>3, <2>4 DEF RowsOK
  <2>6. LoopsOK'
    BY <1>1, <1>2, MoveType DEF Submit
  <2> QED
    BY <1>2, <2>5, <2>6, ElsewhereKept DEF Submit
<1>3. CASE PollFinished(p, m)
  BY <1>1, <1>3, MoveType, RowsKept, ElsewhereKept DEF PollFinished
<1>4. CASE PollExpired(p, m) \/ PollStale(p, m)
  <2>1. "failed" \in Terminal /\ {"MESSAGE_EXPIRED", "STALE_RECIPIENT"} \subseteq ErrorCode
    BY Codes DEF Terminal, FatalCode
  <2>2. RowsOK'
    BY <1>4, <2>1, SettleType DEF PollExpired, PollStale
  <2> QED
    BY <1>1, <1>4, <2>2, MoveType, ElsewhereKept DEF PollExpired, PollStale
<1>5. CASE PollDue(p, m)
  BY <1>1, <1>5, MoveType, RowsKept, ElsewhereKept DEF PollDue
<1>6. CASE Claim(p, m)
  <2>1. LeasesOK'
    BY <1>6, ThreadType DEF Claim, LeasesOK, Run
  <2>2. LoopsOK'
    BY <1>1, <1>6, MoveType DEF Claim
  <2> QED
    BY <1>6, <2>1, <2>2, RowsKept
       DEF Claim, AgentsOK, ProcessesOK, ServerOK, agentVars, processVars, serverVars
<1>7. CASE ClaimRefused(p, m)
  BY <1>1, <1>7, MoveType, RowsKept, ElsewhereKept DEF ClaimRefused
<1> QED
  BY <1>2, <1>3, <1>4, <1>5, <1>6, <1>7

(* Every error a request may end with is an error code.                     *)
LEMMA RequestCodes ==
  {"RECIPIENT_IN_PROGRESS", "RECIPIENT_BUSY", "REQUEST_TIMEOUT", "APP_SERVER_ERROR",
   "DELIVERY_FAILED", "TURN_TIMEOUT"} \subseteq ErrorCode
BY DEF ErrorCode, TransientCode, FatalCode

LEMMA TurnErrorType == ASSUME NEW m, NEW end PROVE TurnError(m, end) \in ErrorCode
BY DEF TurnError, ErrorCode, FatalCode

(* Reconciling, thread/resume and the wait for the permit keep the types.   *)
LEMMA TypeReconcile ==
  ASSUME TypeOK, NEW p \in Proc, NEW m \in Message,
         \/ ReconcileMissing(p, m) \/ ReconcileInProgress(p, m)
         \/ ReconcileFailed(p, m) \/ ReconcileCompleted(p, m) \/ Recover(p, m)
         \/ ResumeIdle(p, m) \/ ResumeBusy(p, m) \/ RequestFails(p, m)
         \/ Renew(p, m)
  PROVE  TypeOK'
<1> USE DEF TypeOK
<1>1. {"missing", "resuming", "leaving", "permit", "renewed"} \subseteq Place
  BY DEF Place
<1>2. CASE ReconcileMissing(p, m)
  BY <1>1, <1>2, MoveType, RowsKept, ElsewhereKept DEF ReconcileMissing
<1>3. CASE ReconcileInProgress(p, m)
  BY <1>3, RequestCodes, RaiseType, RowsKept, ElsewhereKept DEF ReconcileInProgress
<1>4. CASE ReconcileFailed(p, m)
  <2>1. "failed" \in Terminal
        /\ {"RECIPIENT_CONTEXT_EXHAUSTED", "RECIPIENT_TURN_FAILED"} \subseteq ErrorCode
    BY Codes DEF Terminal, FatalCode
  <2>2. RowsOK'
    BY <1>4, <2>1, SettleType DEF ReconcileFailed
  <2> QED
    BY <1>1, <1>4, <2>2, MoveType, ElsewhereKept DEF ReconcileFailed
<1>5. CASE ReconcileCompleted(p, m)
  <2>1. "completed" \in Terminal
    BY DEF Terminal
  <2>2. RowsOK'
    BY <1>5, <2>1, Codes, SettleType DEF ReconcileCompleted
  <2>3. LoopsOK'
    BY <1>1, <1>5, RequestCodes, MoveType, RaiseType DEF ReconcileCompleted
  <2> QED
    BY <1>5, <2>2, <2>3, ElsewhereKept DEF ReconcileCompleted
<1>6. CASE Recover(p, m)
  <2>1. RowsOK'
    BY <1>6 DEF Recover, RowsOK, Status, Unfinished
  <2>2. LoopsOK'
    BY <1>1, <1>6, RequestCodes, MoveType, RaiseType DEF Recover
  <2> QED
    BY <1>6, <2>1, <2>2, ElsewhereKept DEF Recover
<1>7. CASE ResumeIdle(p, m)
  BY <1>1, <1>7, MoveType, RowsKept, ElsewhereKept DEF ResumeIdle
<1>8. CASE ResumeBusy(p, m)
  BY <1>8, RequestCodes, RaiseType, RowsKept, ElsewhereKept DEF ResumeBusy
<1>9. CASE RequestFails(p, m)
  BY <1>9, RequestCodes, RaiseType, RowsKept, ElsewhereKept DEF RequestFails
<1>10. CASE Renew(p, m)
  BY <1>1, <1>10, RequestCodes, MoveType, RaiseType, RowsKept, ElsewhereKept DEF Renew
<1> QED
  BY <1>2, <1>3, <1>4, <1>5, <1>6, <1>7, <1>8, <1>9, <1>10

(* An abandoned request keeps the type of the server's state.               *)
LEMMA AbandonType ==
  ASSUME ServerOK, NEW M \in SUBSET Message, Abandon(M)
  PROVE  ServerOK'
BY DEF ServerOK, Abandon

(* The dispatch of a turn keeps the types.                                  *)
LEMMA TypeDispatch ==
  ASSUME TypeOK, NEW p \in Proc, NEW m \in Message,
         \/ MarkDispatching(p, m) \/ StartAttempt(p, m)
         \/ TurnStarts(p, m) \/ TurnRefused(p, m) \/ StartUnanswered(p, m)
         \/ AnswerLost(p, m) \/ MarkRunning(p, m)
  PROVE  TypeOK'
<1> USE DEF TypeOK
<1>1. {"dispatched", "starting", "accepted", "running"} \subseteq Place
  BY DEF Place
<1>2. CASE MarkDispatching(p, m)
  <2>1. RowsOK'
    BY <1>2 DEF MarkDispatching, RowsOK, Status, Unfinished, Dispatched
  <2>2. LoopsOK'
    BY <1>1, <1>2, RequestCodes, MoveType, RaiseType DEF MarkDispatching
  <2> QED
    BY <1>2, <2>1, <2>2, ElsewhereKept DEF MarkDispatching
<1>3. CASE StartAttempt(p, m)
  <2>1. RowsOK'
    BY <1>3 DEF StartAttempt, RowsOK
  <2> QED
    BY <1>1, <1>3, <2>1, MoveType, ElsewhereKept DEF StartAttempt
<1>4. CASE TurnStarts(p, m)
  <2>1. "inProgress" \in TurnStatus
    BY DEF TurnStatus
  <2>2. turns' \in [Message -> Seq(TurnStatus)]
    BY <1>4, <2>1 DEF TurnStarts, ServerOK
  <2>3. ServerOK'
    BY <1>4, <2>2 DEF TurnStarts, ServerOK
  <2>4. Len(turns[m]) + 1 \in Nat
    BY DEF ServerOK
  <2>5. LoopsOK'
    BY <1>1, <1>4, <2>4 DEF TurnStarts, Goto, LoopsOK, Run
  <2> QED
    BY <1>4, <2>3, <2>5, RowsKept
       DEF TurnStarts, AgentsOK, LeasesOK, ProcessesOK, agentVars, processVars
<1>5. CASE TurnRefused(p, m)
  BY <1>5, RequestCodes, RaiseType, RowsKept, ElsewhereKept DEF TurnRefused
<1>6. CASE StartUnanswered(p, m)
  BY <1>6, RequestCodes, RaiseType, RowsKept, AbandonType
     DEF StartUnanswered, AgentsOK, LeasesOK, ProcessesOK, agentVars, processVars
<1>7. CASE AnswerLost(p, m)
  BY <1>7, RequestCodes, RaiseType, RowsKept, ElsewhereKept DEF AnswerLost
<1>8. CASE MarkRunning(p, m)
  <2>1. RowsOK'
    BY <1>8 DEF MarkRunning, RowsOK, Status, Unfinished, Dispatched
  <2>2. LoopsOK'
    BY <1>1, <1>8, RequestCodes, MoveType, RaiseType DEF MarkRunning
  <2> QED
    BY <1>8, <2>1, <2>2, ElsewhereKept DEF MarkRunning
<1> QED
  BY <1>2, <1>3, <1>4, <1>5, <1>6, <1>7, <1>8

(* The completion, the catch and the finally clause keep the types.         *)
LEMMA TypeCompletion ==
  ASSUME TypeOK, NEW p \in Proc, NEW m \in Message,
         \/ TurnUnsuccessful(p, m) \/ MarkCompleted(p, m) \/ TurnTimesOut(p, m)
         \/ CloseDependency(p, m)
         \/ Decide(p, m) \/ FailDelivery(p, m) \/ Postpone(p, m) \/ Requeue(p, m)
         \/ Release(p, m)
  PROVE  TypeOK'
<1> USE DEF TypeOK
<1>1. {"closing", "leaving", "failing", "postponing", "requeuing", "looping",
       "throwing", "poll", "off", "dying"} \subseteq Place
  BY DEF Place
<1>2. CASE TurnUnsuccessful(p, m)
  BY <1>2, TurnErrorType, RaiseType, RowsKept, ElsewhereKept DEF TurnUnsuccessful
<1>3. CASE MarkCompleted(p, m)
  <2>1. RowsOK'
    BY <1>3 DEF MarkCompleted, RowsOK, Status, Terminal
  <2>2. LoopsOK'
    BY <1>1, <1>3, RequestCodes, MoveType, RaiseType DEF MarkCompleted
  <2> QED
    BY <1>3, <2>1, <2>2, ElsewhereKept DEF MarkCompleted
<1>4. CASE TurnTimesOut(p, m)
  BY <1>4, RequestCodes, RaiseType, RowsKept, ElsewhereKept DEF TurnTimesOut
<1>5. CASE CloseDependency(p, m)
  <2>1. RowsOK'
    BY <1>5 DEF CloseDependency, RowsOK
  <2> QED
    BY <1>1, <1>5, <2>1, MoveType, ElsewhereKept DEF CloseDependency
<1>6. CASE Decide(p, m)
  BY <1>1, <1>6, MoveType, RowsKept, ElsewhereKept DEF Decide
<1>7. CASE FailDelivery(p, m)
  <2>1. {"dead_letter", "failed"} \subseteq Terminal /\ err[<<p, m>>] \in ErrorCode
    BY DEF Terminal, LoopsOK, Run
  <2>2. RowsOK'
    BY <1>7, <2>1, SettleType DEF FailDelivery
  <2> QED
    BY <1>1, <1>7, <2>2, MoveType, ElsewhereKept DEF FailDelivery
<1>8. CASE Postpone(p, m)
  <2>1. RowsOK'
    BY <1>8 DEF Postpone, RowsOK
  <2> QED
    BY <1>1, <1>8, <2>1, MoveType, ElsewhereKept DEF Postpone
<1>9. CASE Requeue(p, m)
  <2>1. RowsOK'
    BY <1>9 DEF Requeue, RowsOK, Status, Unfinished
  <2>2. LoopsOK'
    BY <1>1, <1>9, MoveType DEF Requeue
  <2> QED
    BY <1>9, <2>1, <2>2, ElsewhereKept DEF Requeue
<1>10. CASE Release(p, m)
  <2>1. LeasesOK'
    BY <1>10, ThreadType DEF Release, ReleaseLease, LeasesOK
  <2>2. LoopsOK'
    BY <1>1, <1>10, Codes DEF Release, Goto, LoopsOK, Run
  <2> QED
    BY <1>10, <2>1, <2>2, RowsKept
       DEF Release, AgentsOK, ProcessesOK, ServerOK, agentVars, processVars, serverVars
<1> QED
  BY <1>2, <1>3, <1>4, <1>5, <1>6, <1>7, <1>8, <1>9, <1>10

(* The end of a process clears its loops and orphans its leases.            *)
LEMMA TypeStop ==
  ASSUME TypeOK, NEW p \in Proc, Stop(p), deaths' \in Nat
  PROVE  TypeOK'
<1> USE DEF TypeOK
<1>1. RowsOK' /\ AgentsOK'
  BY RowsKept DEF Stop, AgentsOK, agentVars
<1>2. LeasesOK'
  BY DEF Stop, LeasesOK
<1>3. ProcessesOK'
  BY DEF Stop, ProcessesOK
<1>4. "off" \in Place /\ "none" \in ErrorCode
  BY Codes DEF Place
<1>5. LoopsOK'
  BY <1>4 DEF Stop, LoopsOK
<1>6. ServerOK'
  BY AbandonType DEF Stop
<1> QED
  BY <1>1, <1>2, <1>3, <1>5, <1>6

(* Crashes, restarts, clocks, the operator and the app-server keep them.    *)
LEMMA TypeProcess ==
  ASSUME TypeOK, NEW p \in Proc,
         \/ Crash(p) \/ Start(p)
         \/ \E m \in Message : UnhandledRejection(p, m)
  PROVE  TypeOK'
<1>1. CASE Crash(p)
  BY <1>1, TypeStop DEF Crash, TypeOK, ProcessesOK
<1>2. CASE \E m \in Message : UnhandledRejection(p, m)
  BY <1>2, TypeStop DEF UnhandledRejection, TypeOK, ProcessesOK
<1>3. CASE Start(p)
  <2> USE DEF TypeOK
  <2>1. "poll" \in Place
    BY DEF Place
  <2>2. LoopsOK'
    BY <1>3, <2>1 DEF Start, LoopsOK
  <2>3. ProcessesOK'
    BY <1>3 DEF Start, ProcessesOK
  <2> QED
    BY <1>3, <2>2, <2>3, RowsKept
       DEF Start, AgentsOK, LeasesOK, ServerOK, agentVars, serverVars
<1> QED
  BY <1>1, <1>2, <1>3

LEMMA TypeClockAdmin ==
  ASSUME TypeOK, ClockStep \/ AdminStep
  PROVE  TypeOK'
<1> USE DEF TypeOK
<1>1. ASSUME NEW t \in Thread, LeaseExpires(t) PROVE TypeOK'
  BY <1>1, RowsKept DEF LeaseExpires, LeasesOK, AgentsOK, ProcessesOK, LoopsOK, ServerOK,
     agentVars, processVars, loopVars, serverVars
<1>2. ASSUME NEW m \in Message, BackoffElapses(m) \/ TtlElapses(m) PROVE TypeOK'
  BY <1>2, ElsewhereKept DEF BackoffElapses, TtlElapses, RowsOK, LoopsOK, loopVars
<1>3. ASSUME NEW a \in Administered, Pause(a) \/ Resume(a) PROVE TypeOK'
  BY <1>3, RowsKept DEF Pause, Resume, AgentsOK, LeasesOK, ProcessesOK, LoopsOK, ServerOK,
     processVars, loopVars, serverVars
<1>4. ASSUME NEW a \in Administered, Replace(a) PROVE TypeOK'
  <2>1. AgentsOK'
    BY <1>4, SchedulerAssumption DEF SchedulerAssumption, Replace, AgentsOK
  <2> QED
    BY <1>4, <2>1, RowsKept DEF Replace, LeasesOK, ProcessesOK, LoopsOK, ServerOK,
       processVars, loopVars, serverVars
<1> QED
  BY <1>1, <1>2, <1>3, <1>4 DEF ClockStep, AdminStep

LEMMA TypeServer ==
  ASSUME TypeOK, ServerStep
  PROVE  TypeOK'
<1> USE DEF TypeOK
<1>1. ASSUME NEW m \in Message, TurnEnds(m) PROVE TypeOK'
  <2>1. PICK k \in 1 .. Len(turns[m]), end \in Ending :
          turns' = [turns EXCEPT ![m][k] = end]
    BY <1>1 DEF TurnEnds
  <2>2. end \in TurnStatus
    BY SchedulerAssumption DEF SchedulerAssumption, TurnStatus
  <2>3. [turns[m] EXCEPT ![k] = end] \in Seq(TurnStatus)
    BY <2>2 DEF ServerOK
  <2>4. turns' \in [Message -> Seq(TurnStatus)]
    BY <2>1, <2>3 DEF ServerOK
  <2>5. ServerOK'
    BY <1>1, <2>4 DEF TurnEnds, ServerOK
  <2> QED
    BY <1>1, <2>5, RowsKept DEF TurnEnds, AgentsOK, LeasesOK, ProcessesOK, LoopsOK,
       agentVars, processVars, loopVars
<1>2. ASSUME NEW m \in Message, LateTurnStarts(m) PROVE TypeOK'
  <2>1. "inProgress" \in TurnStatus
    BY DEF TurnStatus
  <2>2. ServerOK'
    BY <1>2, <2>1 DEF LateTurnStarts, ServerOK
  <2> QED
    BY <1>2, <2>2, RowsKept DEF LateTurnStarts, AgentsOK, LeasesOK, ProcessesOK, LoopsOK,
       agentVars, processVars, loopVars
<1> QED
  BY <1>1, <1>2 DEF ServerStep

LEMMA TypeInit == Init => TypeOK
<1> SUFFICES ASSUME Init PROVE TypeOK
  OBVIOUS
<1>1. 1 \in 1 .. MaxGeneration
  BY SchedulerAssumption DEF SchedulerAssumption
<1>2. "absent" \in Status /\ "off" \in Place
  BY DEF Status, Place
<1>3. RowsOK /\ LoopsOK
  BY <1>1, <1>2, Codes DEF Init, RowsOK, LoopsOK
<1>4. AgentsOK /\ LeasesOK /\ ProcessesOK /\ ServerOK
  BY <1>1 DEF Init, AgentsOK, LeasesOK, ProcessesOK, ServerOK
<1> QED
  BY <1>3, <1>4 DEF TypeOK

LEMMA TypeStep == TypeOK /\ [Next]_vars => TypeOK'
<1> SUFFICES ASSUME TypeOK, [Next]_vars PROVE TypeOK'
  OBVIOUS
<1>1. ASSUME NEW p \in Proc, NEW m \in Message, Submit(p, m) \/ LoopStep(p, m)
      PROVE TypeOK'
  BY <1>1, TypeHead, TypeReconcile, TypeDispatch, TypeCompletion, TypeProcess
     DEF LoopStep
<1>2. ASSUME NEW p \in Proc, ProcessStep(p) PROVE TypeOK'
  BY <1>2, TypeProcess DEF ProcessStep
<1>3. CASE ClockStep \/ AdminStep
  BY <1>3, TypeClockAdmin
<1>4. CASE ServerStep
  BY <1>4, TypeServer
<1>5. CASE UNCHANGED vars
  BY <1>5 DEF TypeOK, RowsOK, AgentsOK, LeasesOK, ProcessesOK, LoopsOK, ServerOK, vars,
     messageVars, agentVars, processVars, loopVars, serverVars
<1> QED
  BY <1>1, <1>2, <1>3, <1>4, <1>5 DEF Next

(* Every variable keeps its type in every behaviour of the scheduler.       *)
THEOREM TypeCorrect == Spec => []TypeOK
BY TypeInit, TypeStep, PTL DEF Spec

-----------------------------------------------------------------------------
(* Leases.                                                                   *)

\* The actions of a loop, without the end of its process.
LoopAction(p, m) == LoopStep(p, m) /\ ~UnhandledRejection(p, m)

(* A step of a loop moves this loop only and writes the row and the turns   *)
(* of its message only; leases change when it claims or releases one.       *)
LEMMA LoopFrame ==
  ASSUME TypeOK, NEW p \in Proc, NEW m \in Message, LoopAction(p, m)
  PROVE  /\ generation' = generation
         /\ lateStarts' = lateStarts
         /\ \A r \in Run : r # <<p, m>> => pc'[r] = pc[r]
         /\ \A n \in Message : n # m =>
              /\ status'[n] = status[n]
              /\ attempts'[n] = attempts[n]
              /\ turns'[n] = turns[n]
         /\ lease' = lease \/ Claim(p, m) \/ Release(p, m)
<1> USE DEF TypeOK, RowsOK, LoopsOK, ServerOK, Move, Raise, Goto,
            UnchangedElsewhere, messageVars, agentVars, processVars, serverVars
<1>1. CASE PollFinished(p, m) \/ PollDue(p, m) \/ ClaimRefused(p, m)
  BY <1>1 DEF PollFinished, PollDue, ClaimRefused
<1>2. CASE PollExpired(p, m) \/ PollStale(p, m)
  BY <1>2 DEF PollExpired, PollStale, Settle
<1>3. CASE Claim(p, m) \/ Release(p, m)
  BY <1>3 DEF Claim, Release
<1>4. CASE ReconcileMissing(p, m) \/ ReconcileInProgress(p, m)
  BY <1>4 DEF ReconcileMissing, ReconcileInProgress
<1>5. CASE ReconcileFailed(p, m) \/ ReconcileCompleted(p, m)
  BY <1>5 DEF ReconcileFailed, ReconcileCompleted, Settle
<1>6. CASE Recover(p, m) \/ MarkDispatching(p, m) \/ StartAttempt(p, m)
  BY <1>6 DEF Recover, MarkDispatching, StartAttempt
<1>7. CASE ResumeIdle(p, m) \/ ResumeBusy(p, m) \/ RequestFails(p, m) \/ Renew(p, m)
  BY <1>7 DEF ResumeIdle, ResumeBusy, RequestFails, Renew
<1>8. CASE TurnStarts(p, m) \/ TurnRefused(p, m) \/ AnswerLost(p, m)
  BY <1>8 DEF TurnStarts, TurnRefused, AnswerLost
<1>9. CASE StartUnanswered(p, m)
  BY <1>9 DEF StartUnanswered, Abandon
<1>10. CASE MarkRunning(p, m) \/ MarkCompleted(p, m) \/ CloseDependency(p, m)
  BY <1>10 DEF MarkRunning, MarkCompleted, CloseDependency
<1>11. CASE TurnUnsuccessful(p, m) \/ TurnTimesOut(p, m) \/ Decide(p, m)
  BY <1>11 DEF TurnUnsuccessful, TurnTimesOut, Decide
<1>12. CASE FailDelivery(p, m) \/ Postpone(p, m) \/ Requeue(p, m)
  BY <1>12 DEF FailDelivery, Postpone, Requeue, Settle
<1> QED
  BY <1>1, <1>2, <1>3, <1>4, <1>5, <1>6, <1>7, <1>8, <1>9, <1>10, <1>11, <1>12
     DEF LoopAction, LoopStep

(* Where a loop gets to the places of the delivery from.                    *)
LEMMA LoopMoves ==
  ASSUME TypeOK, NEW p \in Proc, NEW m \in Message, LoopAction(p, m)
  PROVE  /\ pc'[<<p, m>>] = "reading" => Claim(p, m)
         /\ pc'[<<p, m>>] = "missing" => ReconcileMissing(p, m)
         /\ pc'[<<p, m>>] = "resuming" =>
              Claim(p, m) \/ ReconcileMissing(p, m) \/ Recover(p, m)
         /\ pc'[<<p, m>>] = "permit" => ResumeIdle(p, m)
         /\ pc'[<<p, m>>] = "renewed" => Renew(p, m)
         /\ pc'[<<p, m>>] = "dispatched" => MarkDispatching(p, m)
         /\ pc'[<<p, m>>] = "starting" => StartAttempt(p, m)
         /\ pc'[<<p, m>>] = "accepted" => TurnStarts(p, m)
         /\ pc'[<<p, m>>] \notin {"off", "poll"} =>
              pc[<<p, m>>] \notin {"off", "poll"} \/ PollDue(p, m)
<1> USE DEF TypeOK, LoopsOK, Move, Raise, Goto, At, Run
<1>1. CASE PollFinished(p, m) \/ PollDue(p, m) \/ ClaimRefused(p, m)
  BY <1>1 DEF PollFinished, PollDue, ClaimRefused
<1>2. CASE PollExpired(p, m) \/ PollStale(p, m)
  BY <1>2 DEF PollExpired, PollStale
<1>3. CASE Claim(p, m) \/ Release(p, m)
  BY <1>3 DEF Claim, Release
<1>4. CASE ReconcileMissing(p, m) \/ ReconcileInProgress(p, m)
  BY <1>4 DEF ReconcileMissing, ReconcileInProgress
<1>5. CASE ReconcileFailed(p, m) \/ ReconcileCompleted(p, m)
  BY <1>5 DEF ReconcileFailed, ReconcileCompleted
<1>6. CASE Recover(p, m) \/ MarkDispatching(p, m) \/ StartAttempt(p, m)
  BY <1>6 DEF Recover, MarkDispatching, StartAttempt
<1>7. CASE ResumeIdle(p, m) \/ ResumeBusy(p, m) \/ RequestFails(p, m) \/ Renew(p, m)
  BY <1>7 DEF ResumeIdle, ResumeBusy, RequestFails, Renew
<1>8. CASE TurnStarts(p, m) \/ TurnRefused(p, m) \/ AnswerLost(p, m)
  BY <1>8 DEF TurnStarts, TurnRefused, AnswerLost
<1>9. CASE StartUnanswered(p, m)
  BY <1>9 DEF StartUnanswered
<1>10. CASE MarkRunning(p, m) \/ MarkCompleted(p, m) \/ CloseDependency(p, m)
  BY <1>10 DEF MarkRunning, MarkCompleted, CloseDependency
<1>11. CASE TurnUnsuccessful(p, m) \/ TurnTimesOut(p, m) \/ Decide(p, m)
  BY <1>11 DEF TurnUnsuccessful, TurnTimesOut, Decide
<1>12. CASE FailDelivery(p, m) \/ Postpone(p, m) \/ Requeue(p, m)
  BY <1>12 DEF FailDelivery, Postpone, Requeue
<1> QED
  BY <1>1, <1>2, <1>3, <1>4, <1>5, <1>6, <1>7, <1>8, <1>9, <1>10, <1>11, <1>12
     DEF LoopAction, LoopStep

(* What a loop does to the row, the turns and the requests of its message.  *)
LEMMA LoopRow ==
  ASSUME TypeOK, NEW p \in Proc, NEW m \in Message, LoopAction(p, m)
  PROVE  /\ pc[<<p, m>>] # "off"
         /\ status[m] # "absent" => status'[m] # "absent"
         /\ status[m] \in Terminal => status'[m] = status[m]
         /\ attempts'[m] = attempts[m] \/ StartAttempt(p, m)
         /\ turns' = turns \/ TurnStarts(p, m)
         /\ wire' = wire \/ StartUnanswered(p, m)
<1> USE DEF TypeOK, RowsOK, At, Terminal, Unfinished, Dispatched,
            UnchangedElsewhere, messageVars, serverVars
<1>1. CASE PollFinished(p, m) \/ PollDue(p, m) \/ ClaimRefused(p, m)
  BY <1>1 DEF PollFinished, PollDue, ClaimRefused
<1>2. CASE PollExpired(p, m) \/ PollStale(p, m)
  BY <1>2 DEF PollExpired, PollStale, Settle
<1>3. CASE Claim(p, m) \/ Release(p, m)
  BY <1>3 DEF Claim, Release
<1>4. CASE ReconcileMissing(p, m) \/ ReconcileInProgress(p, m)
  BY <1>4 DEF ReconcileMissing, ReconcileInProgress
<1>5. CASE ReconcileFailed(p, m) \/ ReconcileCompleted(p, m)
  BY <1>5 DEF ReconcileFailed, ReconcileCompleted, Settle
<1>6. CASE Recover(p, m) \/ MarkDispatching(p, m) \/ StartAttempt(p, m)
  BY <1>6 DEF Recover, MarkDispatching, StartAttempt
<1>7. CASE ResumeIdle(p, m) \/ ResumeBusy(p, m) \/ RequestFails(p, m) \/ Renew(p, m)
  BY <1>7 DEF ResumeIdle, ResumeBusy, RequestFails, Renew
<1>8. CASE TurnStarts(p, m) \/ TurnRefused(p, m) \/ AnswerLost(p, m)
  BY <1>8 DEF TurnStarts, TurnRefused, AnswerLost
<1>9. CASE StartUnanswered(p, m)
  BY <1>9 DEF StartUnanswered, Abandon
<1>10. CASE MarkRunning(p, m) \/ MarkCompleted(p, m) \/ CloseDependency(p, m)
  BY <1>10 DEF MarkRunning, MarkCompleted, CloseDependency
<1>11. CASE TurnUnsuccessful(p, m) \/ TurnTimesOut(p, m) \/ Decide(p, m)
  BY <1>11 DEF TurnUnsuccessful, TurnTimesOut, Decide
<1>12. CASE FailDelivery(p, m) \/ Postpone(p, m) \/ Requeue(p, m)
  BY <1>12 DEF FailDelivery, Postpone, Requeue, Settle
<1> QED
  BY <1>1, <1>2, <1>3, <1>4, <1>5, <1>6, <1>7, <1>8, <1>9, <1>10, <1>11, <1>12
     DEF LoopAction, LoopStep

\* What the clocks, the operator and the app-server do.
Environment == ClockStep \/ AdminStep \/ ServerStep

LEMMA EnvironmentFrame ==
  ASSUME Environment
  PROVE  /\ UNCHANGED <<pc, generation, status, attempts>>
         /\ lease' = lease \/ \E t \in Thread : LeaseExpires(t)
         /\ \/ UNCHANGED <<turns, wire, lateStarts>>
            \/ \E m \in Message : TurnEnds(m) \/ LateTurnStarts(m)
<1> USE DEF messageVars, agentVars, processVars, loopVars, serverVars, UnchangedElsewhere
<1>1. CASE ClockStep
  BY <1>1 DEF ClockStep, LeaseExpires, BackoffElapses, TtlElapses
<1>2. CASE AdminStep
  BY <1>2 DEF AdminStep, Pause, Resume, Replace
<1>3. CASE ServerStep
  BY <1>3 DEF ServerStep, TurnEnds, LateTurnStarts
<1> QED
  BY <1>1, <1>2, <1>3 DEF Environment

(* The steps of the scheduler, sorted.                                      *)
LEMMA Steps ==
  ASSUME [Next]_vars
  PROVE  \/ \E p \in Proc, m \in Message : Submit(p, m)
         \/ \E p \in Proc, m \in Message : LoopAction(p, m)
         \/ \E p \in Proc : Stop(p)
         \/ \E p \in Proc : Start(p)
         \/ Environment
         \/ UNCHANGED vars
<1>1. ASSUME NEW p \in Proc, NEW m \in Message, LoopStep(p, m)
      PROVE LoopAction(p, m) \/ Stop(p)
  BY <1>1 DEF LoopAction, UnhandledRejection
<1>2. ASSUME NEW p \in Proc, ProcessStep(p)
      PROVE Stop(p) \/ Start(p)
  BY <1>2 DEF ProcessStep, Crash
<1> QED
  BY <1>1, <1>2 DEF Next, Environment

(* A row without message has no loop, no attempt and no turn.               *)
LEMMA RegisteredStep ==
  ASSUME TypeOK, Registered, [Next]_vars
  PROVE  Registered'
<1> USE DEF TypeOK, RowsOK, LoopsOK, ServerOK, Registered
<1>1. ASSUME NEW p \in Proc, NEW m \in Message, Submit(p, m) PROVE Registered'
  <2>1. status' = [status EXCEPT ![m] = "queued"] /\ pc' = [pc EXCEPT ![<<p, m>>] = "poll"]
        /\ UNCHANGED <<attempts, turns, wire>>
        /\ \A n \in Older(m) : status[n] # "absent"
    BY <1>1 DEF Submit, Move, Goto, UnchangedElsewhere, serverVars
  <2> QED
    BY <2>1 DEF Run, Older
<1>2. ASSUME NEW p \in Proc, NEW m \in Message, LoopAction(p, m) PROVE Registered'
  <2>1. status[m] # "absent" /\ status'[m] # "absent"
    BY <1>2, LoopRow
  <2>2. \A n \in Message : n # m /\ n \in wire' => n \in wire
    <3>1. wire' = wire \/ StartUnanswered(p, m)
      BY <1>2, LoopRow
    <3>2. CASE StartUnanswered(p, m)
      BY <3>2 DEF StartUnanswered, Abandon
    <3> QED
      BY <3>1, <3>2
  <2>3. \A n \in Message : n # m => /\ status'[n] = status[n]
                                    /\ attempts'[n] = attempts[n]
                                    /\ turns'[n] = turns[n]
    BY <1>2, LoopFrame
  <2>4. \A q \in Proc, n \in Message : n # m => pc'[<<q, n>>] = pc[<<q, n>>]
    <3>1. \A r \in Run : r # <<p, m>> => pc'[r] = pc[r]
      BY <1>2, LoopFrame
    <3> QED
      BY <3>1 DEF Run
  <2>5. ASSUME NEW n \in Message, NEW k \in Older(n), status'[n] # "absent"
        PROVE  status'[k] # "absent"
    <3>1. k \in Message
      BY DEF Older
    <3> QED
      BY <2>1, <2>3, <2>5, <3>1
  <2>6. ASSUME NEW n \in Message, status'[n] = "absent"
        PROVE  /\ attempts'[n] = 0 /\ turns'[n] = <<>> /\ n \notin wire'
               /\ \A q \in Proc : pc'[<<q, n>>] = "off"
    <3>1. n # m /\ status[n] = "absent"
      BY <2>1, <2>3, <2>6
    <3>2. attempts[n] = 0 /\ turns[n] = <<>> /\ n \notin wire
          /\ \A q \in Proc : pc[<<q, n>>] = "off"
      BY <3>1
    <3>3. attempts'[n] = 0 /\ turns'[n] = <<>>
      BY <2>3, <3>1, <3>2
    <3>4. n \notin wire' /\ \A q \in Proc : pc'[<<q, n>>] = "off"
      BY <2>2, <2>4, <3>1, <3>2
    <3> QED
      BY <3>3, <3>4
  <2> QED
    BY <2>5, <2>6
<1>3. ASSUME NEW p \in Proc, Stop(p) PROVE Registered'
  BY <1>3 DEF Stop, Abandon, messageVars, Run
<1>4. ASSUME NEW p \in Proc, Start(p) PROVE Registered'
  BY <1>4 DEF Start, messageVars, serverVars, Run, Unfinished, Dispatched
<1>5. CASE Environment
  <2>1. UNCHANGED <<pc, status, attempts>>
    BY <1>5, EnvironmentFrame
  <2>2. \A m \in Message : turns'[m] # <<>> => turns[m] # <<>> \/ m \in wire
    BY <1>5, EnvironmentFrame DEF TurnEnds, LateTurnStarts
  <2>3. \A m \in Message : m \in wire' => m \in wire
    BY <1>5, EnvironmentFrame DEF TurnEnds, LateTurnStarts
  <2> QED
    BY <2>1, <2>2, <2>3
<1>6. CASE UNCHANGED vars
  BY <1>6 DEF vars, messageVars, loopVars, serverVars
<1> QED
  BY <1>1, <1>2, <1>3, <1>4, <1>5, <1>6, Steps

(* The thread of a message changes only when its row is created.            *)
LEMMA ThreadKept ==
  ASSUME TypeOK, NEW n \in Message, generation'[n] = generation[n]
  PROVE  ThreadOf(n)' = ThreadOf(n)
BY DEF ThreadOf

(* A step of a loop leaves the leases of other loops alone and gives none   *)
(* but its own.                                                             *)
LEMMA LoopHolds ==
  ASSUME TypeOK, NEW p \in Proc, NEW m \in Message, LoopAction(p, m),
         NEW q \in Proc, NEW n \in Message
  PROVE  /\ Holds(q, n) /\ <<q, n>> # <<p, m>> => Holds(q, n)'
         /\ Holds(q, n)' => Holds(q, n) \/ (Claim(p, m) /\ <<q, n>> = <<p, m>>)
<1>1. /\ \A k \in Message : ThreadOf(k)' = ThreadOf(k) /\ ThreadOf(k) \in Thread
      /\ lease' = lease \/ Claim(p, m) \/ Release(p, m)
  BY LoopFrame, ThreadKept, ThreadType DEF TypeOK
<1>2. Free # <<q, n>>
  BY SchedulerAssumption DEF SchedulerAssumption
<1>3. CASE lease' = lease
  BY <1>1, <1>3 DEF Holds
<1>4. CASE Claim(p, m)
  BY <1>1, <1>2, <1>4 DEF Claim, Holds, TypeOK, LeasesOK
<1>5. CASE Release(p, m)
  BY <1>1, <1>2, <1>5 DEF Release, ReleaseLease, Holds, TypeOK, LeasesOK
<1> QED
  BY <1>1, <1>3, <1>4, <1>5

(* The end of a process takes its own leases away, and no others.           *)
LEMMA StopHolds ==
  ASSUME TypeOK, NEW p \in Proc, Stop(p), NEW q \in Proc, NEW n \in Message
  PROVE  /\ Holds(q, n) /\ q # p => Holds(q, n)'
         /\ Holds(q, n)' => Holds(q, n) /\ q # p
<1>1. ThreadOf(n)' = ThreadOf(n) /\ ThreadOf(n) \in Thread
  BY ThreadKept, ThreadType DEF Stop, messageVars, TypeOK
<1>2. Orphan # <<q, n>>
  BY SchedulerAssumption DEF SchedulerAssumption
<1> DEFINE T == ThreadOf(n)
<1>3. lease'[T] = IF \E k \in Message : lease[T] = <<p, k>> THEN Orphan ELSE lease[T]
  BY <1>1 DEF Stop
<1>4. Holds(q, n)' <=> lease'[T] = <<q, n>>
  BY <1>1 DEF Holds
<1>5. Holds(q, n) <=> lease[T] = <<q, n>>
  BY DEF Holds
<1> HIDE DEF T
<1>6. ASSUME lease[T] = <<q, n>>, q # p PROVE lease'[T] = <<q, n>>
  BY <1>3, <1>6
<1>7. ASSUME lease'[T] = <<q, n>> PROVE lease[T] = <<q, n>> /\ q # p
  BY <1>2, <1>3, <1>7
<1> QED
  BY <1>4, <1>5, <1>6, <1>7

(* The environment gives no lease to a loop and takes none from a loop in a *)
(* wait that ends in time.                                                  *)
LEMMA EnvironmentHolds ==
  ASSUME TypeOK, Environment, NEW q \in Proc, NEW n \in Message
  PROVE  /\ Holds(q, n) /\ pc[<<q, n>>] \notin OutlastsLease => Holds(q, n)'
         /\ Holds(q, n)' => Holds(q, n)
<1>1. ThreadOf(n)' = ThreadOf(n) /\ ThreadOf(n) \in Thread
  BY EnvironmentFrame, ThreadKept, ThreadType DEF TypeOK
<1>2. Free # <<q, n>> /\ <<q, n>> \in Run
  BY SchedulerAssumption DEF SchedulerAssumption, Run
<1>3. CASE lease' = lease
  BY <1>1, <1>3 DEF Holds
<1>4. ASSUME NEW t \in Thread, LeaseExpires(t)
      PROVE  /\ Holds(q, n) /\ pc[<<q, n>>] \notin OutlastsLease => Holds(q, n)'
             /\ Holds(q, n)' => Holds(q, n)
  BY <1>1, <1>2, <1>4 DEF LeaseExpires, Holds, TypeOK, LeasesOK
<1> QED
  BY <1>3, <1>4, EnvironmentFrame

(* Only the thread of the created row changes with Submit.                  *)
LEMMA SubmitHolds ==
  ASSUME TypeOK, NEW p \in Proc, NEW m \in Message, Submit(p, m),
         NEW q \in Proc, NEW n \in Message, n # m
  PROVE  ThreadOf(n)' = ThreadOf(n) /\ (Holds(q, n)' <=> Holds(q, n))
<1>1. generation'[n] = generation[n] /\ lease' = lease
  BY DEF Submit, UnchangedElsewhere, TypeOK, RowsOK
<1> QED
  BY <1>1, ThreadKept DEF Holds

(* A loop that waits for reconciling, for thread/resume or for turn/start   *)
(* holds the lease of its thread.                                           *)
LEMMA LeaseGuardsStep ==
  ASSUME TypeOK, Registered, LeaseGuards, [Next]_vars
  PROVE  LeaseGuards'
<1> SUFFICES ASSUME NEW q \in Proc, NEW n \in Message, pc'[<<q, n>>] \in Guarded
             PROVE  Holds(q, n)'
  BY DEF LeaseGuards, Guarded
<1> <<q, n>> \in Run
  BY DEF Run
<1>1. ASSUME NEW p \in Proc, NEW m \in Message, Submit(p, m) PROVE Holds(q, n)'
  <2>1. pc' = [pc EXCEPT ![<<p, m>>] = "poll"] /\ status[m] = "absent"
    BY <1>1 DEF Submit, Move, Goto
  <2>2. n # m /\ pc[<<q, n>>] \in Guarded
    BY <2>1 DEF Registered, TypeOK, LoopsOK, Guarded
  <2> QED
    BY <1>1, <2>2, SubmitHolds DEF LeaseGuards
<1>2. ASSUME NEW p \in Proc, NEW m \in Message, LoopAction(p, m) PROVE Holds(q, n)'
  <2>1. CASE <<q, n>> # <<p, m>>
    <3>1. Holds(q, n)
      BY <1>2, <2>1, LoopFrame DEF LeaseGuards
    <3> QED
      BY <1>2, <2>1, <3>1, LoopHolds
  <2>2. CASE <<q, n>> = <<p, m>>
    <3>1. CASE Claim(p, m)
      <4>1. ThreadOf(m)' = ThreadOf(m) /\ ThreadOf(m) \in Thread
        BY <3>1, ThreadKept, ThreadType DEF Claim, messageVars, TypeOK
      <4> QED
        BY <2>2, <3>1, <4>1 DEF Claim, Holds, TypeOK, LeasesOK
    <3>2. CASE ReconcileMissing(p, m) \/ Recover(p, m) \/ MarkDispatching(p, m)
               \/ StartAttempt(p, m) \/ TurnStarts(p, m)
      <4>1. pc[<<p, m>>] \in Guarded
        BY <3>2 DEF ReconcileMissing, Recover, MarkDispatching, StartAttempt, TurnStarts,
           At, Guarded
      <4>2. lease' = lease /\ generation' = generation
        BY <3>2 DEF ReconcileMissing, Recover, MarkDispatching, StartAttempt, TurnStarts,
           UnchangedElsewhere, messageVars
      <4> QED
        BY <2>2, <4>1, <4>2, ThreadKept DEF LeaseGuards, Holds
    <3>3. CASE Renew(p, m)
      <4>1. Holds(p, m)
        BY <2>2, <3>3 DEF Renew, Raise, Goto, Guarded, TypeOK, LoopsOK
      <4>2. lease' = lease /\ generation' = generation
        BY <3>3 DEF Renew, UnchangedElsewhere, messageVars
      <4> QED
        BY <2>2, <4>1, <4>2, ThreadKept DEF Holds
    <3> QED
      BY <1>2, <2>2, <3>1, <3>2, <3>3, LoopMoves DEF Guarded
  <2> QED
    BY <2>1, <2>2
<1>3. ASSUME NEW p \in Proc, Stop(p) PROVE Holds(q, n)'
  <2>1. q # p /\ pc[<<q, n>>] \in Guarded
    BY <1>3 DEF Stop, Guarded
  <2> QED
    BY <1>3, <2>1, StopHolds DEF LeaseGuards
<1>4. ASSUME NEW p \in Proc, Start(p) PROVE Holds(q, n)'
  <2>1. pc[<<q, n>>] \in Guarded /\ lease' = lease /\ generation' = generation
    BY <1>4 DEF Start, Guarded, messageVars
  <2> QED
    BY <2>1, ThreadKept DEF LeaseGuards, Holds
<1>5. CASE Environment
  <2>1. pc[<<q, n>>] \in Guarded /\ pc[<<q, n>>] \notin OutlastsLease
    BY <1>5, EnvironmentFrame DEF Guarded, OutlastsLease
  <2> QED
    BY <1>5, <2>1, EnvironmentHolds DEF LeaseGuards
<1>6. CASE UNCHANGED vars
  BY <1>6, ThreadKept DEF vars, messageVars, loopVars, LeaseGuards, Holds
<1> QED
  BY <1>1, <1>2, <1>3, <1>4, <1>5, <1>6, Steps

(* One lease, one holder.                                                   *)
LEMMA SoleHolder ==
  ASSUME NEW p \in Proc, NEW m \in Message, NEW q \in Proc, NEW n \in Message,
         Holds(p, m), Holds(q, n), ThreadOf(m) = ThreadOf(n)
  PROVE  <<p, m>> = <<q, n>>
BY DEF Holds

-----------------------------------------------------------------------------
(* Turns: what the steps do to them.                                        *)

LEMMA LoopTurns ==
  ASSUME TypeOK, NEW p \in Proc, NEW m \in Message, LoopAction(p, m),
         NEW n \in Message
  PROVE  /\ turns'[n] = turns[n] \/ (TurnStarts(p, m) /\ n = m)
         /\ lateStarts'[n] = lateStarts[n]
         /\ TurnStarts(p, m) => Len(turns'[m]) = Len(turns[m]) + 1
         /\ TurnActive(n)' => TurnActive(n) \/ (TurnStarts(p, m) /\ n = m)
<1>1. turns'[n] = turns[n] \/ (TurnStarts(p, m) /\ n = m)
  BY LoopRow, LoopFrame
<1>2. lateStarts' = lateStarts
  BY LoopFrame
<1>3. TurnStarts(p, m) => Len(turns'[m]) = Len(turns[m]) + 1
  BY DEF TurnStarts, TypeOK, ServerOK
<1>4. TurnActive(n)' => TurnActive(n) \/ (TurnStarts(p, m) /\ n = m)
  BY <1>1 DEF TurnActive
<1> QED
  BY <1>1, <1>2, <1>3, <1>4

LEMMA EnvironmentTurns ==
  ASSUME TypeOK, Environment, NEW n \in Message
  PROVE  /\ \/ /\ Len(turns'[n]) = Len(turns[n])
               /\ lateStarts'[n] = lateStarts[n]
               /\ TurnActive(n)' => TurnActive(n)
            \/ /\ Len(turns'[n]) = Len(turns[n]) + 1
               /\ lateStarts'[n] = lateStarts[n] + 1
               /\ n \in wire
         /\ turns[n] = <<>> /\ n \notin wire => turns'[n] = <<>>
         /\ n \in wire' => n \in wire
<1> USE DEF TypeOK, ServerOK
<1>1. CASE UNCHANGED <<turns, wire, lateStarts>>
  BY <1>1 DEF TurnActive
<1>2. ASSUME NEW m \in Message, TurnEnds(m)
      PROVE  /\ Len(turns'[n]) = Len(turns[n])
             /\ UNCHANGED <<wire, lateStarts>>
             /\ TurnActive(n)' => TurnActive(n)
             /\ turns[n] = <<>> => turns'[n] = <<>>
  <2>1. PICK k \in 1 .. Len(turns[m]), end \in Ending :
          /\ turns[m][k] = "inProgress"
          /\ turns' = [turns EXCEPT ![m][k] = end]
    BY <1>2 DEF TurnEnds
  <2>2. end # "inProgress"
    BY SchedulerAssumption DEF SchedulerAssumption, TurnEnd
  <2>3. CASE n # m
    BY <1>2, <2>1, <2>3 DEF TurnEnds, TurnActive
  <2>4. CASE n = m
    <3>1. turns'[n] = [turns[n] EXCEPT ![k] = end]
      BY <2>1, <2>4
    <3>2. turns[n] \in Seq(TurnStatus) /\ k \in 1 .. Len(turns[n])
      BY <2>1, <2>4
    <3>3. /\ Len(turns'[n]) = Len(turns[n])
          /\ \A j \in 1 .. Len(turns[n]) :
               turns'[n][j] = IF j = k THEN end ELSE turns[n][j]
      BY <3>1, <3>2
    <3>4. TurnActive(n)' => TurnActive(n)
      BY <2>2, <3>3 DEF TurnActive
    <3>5. turns[n] # <<>>
      BY <3>2
    <3> QED
      BY <1>2, <3>3, <3>4, <3>5 DEF TurnEnds
  <2> QED
    BY <2>3, <2>4
<1>3. ASSUME NEW m \in Message, LateTurnStarts(m)
      PROVE  /\ IF n = m THEN /\ Len(turns'[n]) = Len(turns[n]) + 1
                              /\ lateStarts'[n] = lateStarts[n] + 1
                              /\ n \in wire
                         ELSE turns'[n] = turns[n] /\ lateStarts'[n] = lateStarts[n]
             /\ wire' \subseteq wire
  BY <1>3 DEF LateTurnStarts
<1>4. ASSUME turns'[n] = turns[n] PROVE TurnActive(n)' => TurnActive(n)
  BY <1>4 DEF TurnActive
<1> QED
  BY <1>1, <1>2, <1>3, <1>4, EnvironmentFrame

(* Attempts never decrease.                                                 *)
LEMMA LoopAttempts ==
  ASSUME TypeOK, NEW p \in Proc, NEW m \in Message, LoopAction(p, m),
         NEW n \in Message, attempts[n] > 0
  PROVE  attempts'[n] > 0
<1>1. StartAttempt(p, m) => attempts'[m] = attempts[m] + 1
  BY DEF StartAttempt, TypeOK, RowsOK
<1>2. attempts[n] \in Nat
  BY DEF TypeOK, RowsOK
<1>3. n # m => attempts'[n] = attempts[n]
  BY LoopFrame
<1>4. attempts'[m] = attempts[m] \/ StartAttempt(p, m)
  BY LoopRow
<1> QED
  BY <1>1, <1>2, <1>3, <1>4

(* A turn, and a request for one, is preceded by startAttempt.              *)
LEMMA AttemptedStep ==
  ASSUME TypeOK, Registered, Attempted, [Next]_vars
  PROVE  Attempted'
<1>1. ASSUME NEW p \in Proc, NEW m \in Message, Submit(p, m) PROVE Attempted'
  <2>1. pc' = [pc EXCEPT ![<<p, m>>] = "poll"] /\ UNCHANGED <<attempts, turns, wire>>
    BY <1>1 DEF Submit, Move, Goto, UnchangedElsewhere, serverVars
  <2> QED
    BY <2>1 DEF Attempted, Run, TypeOK, LoopsOK
<1>2. ASSUME NEW p \in Proc, NEW m \in Message, LoopAction(p, m) PROVE Attempted'
  <2>1. ASSUME NEW q \in Proc, NEW n \in Message, pc'[<<q, n>>] = "starting"
        PROVE  attempts'[n] > 0
    <3>1. CASE <<q, n>> # <<p, m>>
      <4>1. pc[<<q, n>>] = "starting"
        BY <1>2, <2>1, <3>1, LoopFrame DEF Run
      <4> QED
        BY <1>2, <4>1, LoopAttempts DEF Attempted
    <3>2. CASE <<q, n>> = <<p, m>>
      <4>1. StartAttempt(p, m)
        BY <1>2, <2>1, <3>2, LoopMoves
      <4> QED
        BY <3>2, <4>1 DEF StartAttempt, TypeOK, RowsOK
    <3> QED
      BY <3>1, <3>2
  <2>2. ASSUME NEW n \in Message, n \in wire' PROVE attempts'[n] > 0
    <3>1. n \in wire \/ (StartUnanswered(p, m) /\ n = m)
      BY <1>2, <2>2, LoopRow DEF StartUnanswered, Abandon
    <3>2. attempts[n] > 0
      BY <3>1 DEF Attempted, StartUnanswered, At
    <3> QED
      BY <1>2, <3>2, LoopAttempts
  <2>3. ASSUME NEW n \in Message, turns'[n] # <<>> PROVE attempts'[n] > 0
    <3>1. turns[n] # <<>> \/ (TurnStarts(p, m) /\ n = m)
      BY <1>2, <2>3, LoopTurns
    <3>2. attempts[n] > 0
      BY <3>1 DEF Attempted, TurnStarts
    <3> QED
      BY <1>2, <3>2, LoopAttempts
  <2> QED
    BY <2>1, <2>2, <2>3 DEF Attempted
<1>3. ASSUME NEW p \in Proc, Stop(p) PROVE Attempted'
  BY <1>3 DEF Attempted, Stop, Abandon, messageVars, Run
<1>4. ASSUME NEW p \in Proc, Start(p) PROVE Attempted'
  BY <1>4 DEF Attempted, Start, messageVars, serverVars, Run
<1>5. CASE Environment
  <2>1. UNCHANGED <<pc, attempts>>
    BY <1>5, EnvironmentFrame
  <2>2. \A n \in Message : n \in wire' \/ turns'[n] # <<>> => n \in wire \/ turns[n] # <<>>
    BY <1>5, EnvironmentTurns
  <2> QED
    BY <2>1, <2>2 DEF Attempted
<1>6. CASE UNCHANGED vars
  BY <1>6 DEF Attempted, vars, messageVars, loopVars, serverVars
<1> QED
  BY <1>1, <1>2, <1>3, <1>4, <1>5, <1>6, Steps

-----------------------------------------------------------------------------
(* Reconciling.                                                             *)

(* What reconciling found out about a message stays true up to turn/start.  *)
LEMMA ReconciledStep ==
  ASSUME TypeOK, Registered, LeaseGuards, Attempted, Reconciled, [Next]_vars
  PROVE  Reconciled'
<1> SUFFICES ASSUME NEW q \in Proc, NEW n \in Message,
                    pc'[<<q, n>>] \in Clear, Holds(q, n)'
             PROVE  Len(turns'[n]) <= lateStarts'[n]
  BY DEF Reconciled, Clear
<1>0. /\ <<q, n>> \in Run
      /\ Len(turns[n]) \in Nat /\ lateStarts[n] \in Nat
      /\ pc[<<q, n>>] \in Clear /\ Holds(q, n) => Len(turns[n]) <= lateStarts[n]
  BY DEF Run, TypeOK, ServerOK, Reconciled
<1>1. ASSUME NEW p \in Proc, NEW m \in Message, Submit(p, m)
      PROVE  Len(turns'[n]) <= lateStarts'[n]
  <2>1. pc' = [pc EXCEPT ![<<p, m>>] = "poll"] /\ status[m] = "absent"
        /\ UNCHANGED <<turns, lateStarts>>
    BY <1>1 DEF Submit, Move, Goto, UnchangedElsewhere, serverVars
  <2>2. n # m /\ pc[<<q, n>>] \in Clear
    BY <2>1 DEF Registered, TypeOK, LoopsOK, Clear
  <2> QED
    BY <1>0, <1>1, <2>1, <2>2, SubmitHolds
<1>2. ASSUME NEW p \in Proc, NEW m \in Message, LoopAction(p, m)
      PROVE  Len(turns'[n]) <= lateStarts'[n]
  <2>1. lateStarts'[n] = lateStarts[n]
    BY <1>2, LoopTurns
  <2>2. CASE <<q, n>> # <<p, m>>
    <3>1. pc[<<q, n>>] \in Clear /\ Holds(q, n)
      BY <1>0, <1>2, <2>2, LoopFrame, LoopHolds
    <3>2. TurnStarts(p, m) => Holds(p, m)
      BY DEF TurnStarts, LeaseGuards, Guarded
    <3>3. turns'[n] = turns[n]
      BY <1>2, <2>2, <3>1, <3>2, LoopTurns, SoleHolder
    <3> QED
      BY <1>0, <2>1, <3>1, <3>3
  <2>3. CASE <<q, n>> = <<p, m>>
    <3>1. ~TurnStarts(p, m)
      BY <2>3 DEF TurnStarts, Goto, TypeOK, LoopsOK, Run, Clear
    <3>2. turns'[n] = turns[n]
      BY <1>2, <3>1, LoopTurns
    <3>3. CASE Claim(p, m)
      <4>1. attempts[m] = 0
        BY <2>3, <3>3 DEF Claim, Move, Goto, TypeOK, LoopsOK, RowsOK, Run, Clear
      <4>2. turns[m] = <<>>
        BY <4>1 DEF Attempted
      <4> QED
        BY <1>0, <2>1, <2>3, <3>2, <4>2
    <3>4. CASE ReconcileMissing(p, m)
      BY <1>0, <2>1, <2>3, <3>2, <3>4 DEF ReconcileMissing
    <3>5. CASE Recover(p, m) \/ ResumeIdle(p, m) \/ Renew(p, m)
               \/ MarkDispatching(p, m) \/ StartAttempt(p, m)
      <4>1. pc[<<p, m>>] \in Clear
        BY <3>5 DEF Recover, ResumeIdle, Renew, MarkDispatching, StartAttempt, At, Clear
      <4>2. ~Claim(p, m)
        BY <4>1 DEF Claim, At, Clear
      <4>3. Holds(p, m)
        BY <1>2, <2>3, <4>2, LoopHolds
      <4> QED
        BY <1>0, <2>1, <2>3, <3>2, <4>1, <4>3
    <3> QED
      BY <1>2, <2>3, <3>3, <3>4, <3>5, LoopMoves DEF Clear
  <2> QED
    BY <2>2, <2>3
<1>3. ASSUME NEW p \in Proc, Stop(p) PROVE Len(turns'[n]) <= lateStarts'[n]
  <2>1. UNCHANGED <<turns, lateStarts>> /\ pc[<<q, n>>] \in Clear
    BY <1>0, <1>3 DEF Stop, Abandon, Clear
  <2> QED
    BY <1>0, <1>3, <2>1, StopHolds
<1>4. ASSUME NEW p \in Proc, Start(p) PROVE Len(turns'[n]) <= lateStarts'[n]
  <2>1. UNCHANGED <<turns, lateStarts, lease, generation>> /\ pc[<<q, n>>] \in Clear
    BY <1>0, <1>4 DEF Start, messageVars, serverVars, Clear
  <2>2. Holds(q, n)
    BY <2>1, ThreadKept DEF Holds
  <2> QED
    BY <1>0, <2>1, <2>2
<1>5. CASE Environment
  <2>1. pc[<<q, n>>] \in Clear /\ Holds(q, n)
    BY <1>5, EnvironmentFrame, EnvironmentHolds
  <2> QED
    BY <1>0, <1>5, <2>1, EnvironmentTurns
<1>6. CASE UNCHANGED vars
  <2>1. UNCHANGED <<turns, lateStarts, lease, generation, pc>>
    BY <1>6 DEF vars, messageVars, loopVars, serverVars
  <2>2. Holds(q, n)
    BY <2>1, ThreadKept DEF Holds
  <2> QED
    BY <1>0, <2>1, <2>2
<1> QED
  BY <1>1, <1>2, <1>3, <1>4, <1>5, <1>6, Steps

LEMMA DuplicateStep ==
  ASSUME TypeOK, LeaseGuards, Reconciled, DuplicateOnlyWhenLate, [Next]_vars
  PROVE  DuplicateOnlyWhenLate'
<1> SUFFICES ASSUME NEW n \in Message
             PROVE  Len(turns'[n]) <= 1 + lateStarts'[n]
  BY DEF DuplicateOnlyWhenLate
<1>0. /\ Len(turns[n]) \in Nat /\ lateStarts[n] \in Nat
      /\ Len(turns[n]) <= 1 + lateStarts[n]
  BY DEF TypeOK, ServerOK, DuplicateOnlyWhenLate
<1>1. ASSUME NEW p \in Proc, NEW m \in Message, Submit(p, m)
      PROVE  Len(turns'[n]) <= 1 + lateStarts'[n]
  BY <1>0, <1>1 DEF Submit, UnchangedElsewhere, serverVars
<1>2. ASSUME NEW p \in Proc, NEW m \in Message, LoopAction(p, m)
      PROVE  Len(turns'[n]) <= 1 + lateStarts'[n]
  <2>1. lateStarts'[n] = lateStarts[n]
    BY <1>2, LoopTurns
  <2>2. CASE turns'[n] = turns[n]
    BY <1>0, <2>1, <2>2
  <2>3. CASE TurnStarts(p, m) /\ n = m
    <3>1. Len(turns[m]) <= lateStarts[m]
      BY <2>3 DEF TurnStarts, LeaseGuards, Guarded, Reconciled, Clear
    <3>2. Len(turns'[m]) = Len(turns[m]) + 1
      BY <1>2, <2>3, LoopTurns
    <3> QED
      BY <1>0, <2>1, <2>3, <3>1, <3>2
  <2> QED
    BY <1>2, <2>2, <2>3, LoopTurns
<1>3. ASSUME NEW p \in Proc, Stop(p) \/ Start(p)
      PROVE  Len(turns'[n]) <= 1 + lateStarts'[n]
  BY <1>0, <1>3 DEF Stop, Abandon, Start, serverVars
<1>4. CASE Environment
  BY <1>0, <1>4, EnvironmentTurns
<1>5. CASE UNCHANGED vars
  BY <1>0, <1>5 DEF vars, serverVars
<1> QED
  BY <1>1, <1>2, <1>3, <1>4, <1>5, Steps

-----------------------------------------------------------------------------
(* The queue.                                                               *)

(* Rows are finished for good.                                              *)
LEMMA TerminalKept ==
  ASSUME TypeOK, [Next]_vars, NEW m \in Message
  PROVE  /\ status[m] \in Terminal => status'[m] = status[m]
         /\ status[m] # "absent" => generation'[m] = generation[m]
         /\ status[m] # "absent" => status'[m] # "absent"
<1>1. ASSUME NEW p \in Proc, NEW k \in Message, Submit(p, k)
      PROVE  /\ status[k] = "absent"
             /\ status' = [status EXCEPT ![k] = "queued"]
             /\ \A n \in Message : n # k => generation'[n] = generation[n]
  BY <1>1 DEF Submit, TypeOK, RowsOK
<1>2. ASSUME NEW p \in Proc, NEW k \in Message, LoopAction(p, k)
      PROVE  /\ status[m] \in Terminal => status'[m] = status[m]
             /\ generation'[m] = generation[m]
             /\ status[m] # "absent" => status'[m] # "absent"
  BY <1>2, LoopFrame, LoopRow
<1>3. ASSUME NEW p \in Proc, Stop(p) \/ Start(p) PROVE UNCHANGED <<status, generation>>
  BY <1>3 DEF Stop, Start, messageVars
<1>4. CASE Environment
  BY <1>4, EnvironmentFrame
<1>5. CASE UNCHANGED vars
  BY <1>5 DEF vars, messageVars
<1> QED
  BY <1>1, <1>2, <1>3, <1>4, <1>5, Steps DEF Terminal, TypeOK, RowsOK

(* The head of the queue leads it: a smaller creation time is a smaller     *)
(* number.                                                                  *)
LEMMA HeadLeads ==
  ASSUME NEW m \in Message, IsHead(m)
  PROVE  Leads(m)
<1>1. \A n \in Older(m) : n \in Message /\ n < m
  BY SchedulerAssumption DEF SchedulerAssumption, Older
<1> QED
  BY <1>1 DEF Leads, IsHead, Earlier

(* No older message of the queue comes back.                                *)
LEMMA LeadsKept ==
  ASSUME TypeOK, Registered, [Next]_vars, NEW m \in Message, status[m] # "absent",
         Leads(m)
  PROVE  Leads(m)'
<1> SUFFICES ASSUME NEW n \in Older(m), ThreadOf(n)' = ThreadOf(m)'
             PROVE  status'[n] \notin Unfinished
  BY DEF Leads, Older
<1>1. n \in Message /\ status[n] # "absent"
  BY DEF Registered, Older
<1>2. ThreadOf(n) = ThreadOf(m)
  BY <1>1, TerminalKept, ThreadKept
<1>3. status[n] \notin Unfinished
  BY <1>2 DEF Leads
<1>4. status[n] \in Terminal
  BY <1>1, <1>3 DEF TypeOK, RowsOK, Status
<1> QED
  BY <1>1, <1>4, TerminalKept DEF Terminal, Unfinished, Dispatched

\* A message that has left the head of the loop at least once.
Begun(m) == \/ attempts[m] > 0
            \/ \E p \in Proc : pc[<<p, m>>] \notin {"off", "poll"}

(* Only the head of a queue is claimed, attempted and delivered.            *)
LEMMA HeadedStep ==
  ASSUME TypeOK, Registered, Headed, [Next]_vars
  PROVE  Headed'
<1> SUFFICES ASSUME NEW m \in Message,
                    Begun(m)'
             PROVE  Leads(m)'
  BY DEF Headed, Begun
<1>0. attempts[m] \in Nat /\ \A p \in Proc : <<p, m>> \in Run
  BY DEF Run, TypeOK, RowsOK
<1>1. Begun(m) => Leads(m) /\ status[m] # "absent"
  <2>1. Begun(m) => Leads(m)
    BY DEF Headed, Begun
  <2>2. ASSUME status[m] = "absent" PROVE ~Begun(m)
    <3>1. attempts[m] = 0 /\ \A p \in Proc : pc[<<p, m>>] = "off"
      BY <2>2 DEF Registered
    <3>2. ~(attempts[m] > 0)
      BY <3>1
    <3>3. \A p \in Proc : pc[<<p, m>>] \in {"off", "poll"}
      BY <3>1
    <3> QED
      BY <3>2, <3>3 DEF Begun
  <2> QED
    BY <2>1, <2>2
<1>2. ASSUME NEW p \in Proc, NEW k \in Message, Submit(p, k) PROVE Begun(m)
  <2>1. pc' = [pc EXCEPT ![<<p, k>>] = "poll"] /\ attempts' = attempts
    BY <1>2 DEF Submit, Move, Goto
  <2> QED
    BY <1>0, <2>1 DEF Begun, TypeOK, LoopsOK
<1>3. ASSUME NEW p \in Proc, NEW k \in Message, LoopAction(p, k)
      PROVE  Begun(m) \/ PollDue(p, m)
  <2>1. CASE attempts'[m] > 0
    <3>1. CASE attempts'[m] = attempts[m]
      BY <2>1, <3>1 DEF Begun
    <3>2. CASE k = m /\ StartAttempt(p, m)
      BY <3>2 DEF StartAttempt, At, Begun
    <3> QED
      BY <1>3, <3>1, <3>2, LoopFrame, LoopRow
  <2>2. ASSUME NEW q \in Proc, pc'[<<q, m>>] \notin {"off", "poll"}
        PROVE  Begun(m) \/ PollDue(p, m)
    <3>1. CASE <<q, m>> # <<p, k>>
      BY <1>0, <1>3, <2>2, <3>1, LoopFrame DEF Begun
    <3>2. CASE <<q, m>> = <<p, k>>
      BY <1>3, <2>2, <3>2, LoopMoves DEF Begun
    <3> QED
      BY <3>1, <3>2
  <2> QED
    BY <2>1, <2>2 DEF Begun
<1>4. ASSUME NEW p \in Proc, Stop(p) \/ Start(p) PROVE Begun(m)
  <2>1. /\ attempts' = attempts
        /\ \A q \in Proc : pc'[<<q, m>>] \in {"off", "poll", pc[<<q, m>>]}
    BY <1>0, <1>4 DEF Stop, Start, messageVars
  <2> QED
    BY <2>1 DEF Begun
<1>5. UNCHANGED <<pc, attempts>> => Begun(m)
  BY DEF Begun
<1>6. Environment \/ UNCHANGED vars => UNCHANGED <<pc, attempts>>
  BY EnvironmentFrame DEF vars, messageVars, loopVars
<1>7. ASSUME NEW p \in Proc, PollDue(p, m) PROVE Leads(m) /\ status[m] # "absent"
  BY <1>7, HeadLeads DEF PollDue, Unfinished, Dispatched
<1>8. Leads(m) /\ status[m] # "absent"
  BY <1>1, <1>2, <1>3, <1>4, <1>5, <1>6, <1>7, Steps
<1> QED
  BY <1>8, LeadsKept

-----------------------------------------------------------------------------
(* Turns in progress.                                                       *)

LEMMA NoTurnIdle ==
  ASSUME NEW m \in Message, turns[m] = <<>> PROVE ~TurnActive(m)
BY DEF TurnActive

(* From thread/resume to turn/start a thread whose lease is held is idle.   *)
LEMMA IdleStep ==
  ASSUME TypeOK, Registered, LeaseGuards, Idle, [Next]_vars
  PROVE  Idle'
<1> SUFFICES ASSUME NEW q \in Proc, NEW n \in Message, NEW k \in Message,
                    pc'[<<q, n>>] \in Dispatch, Holds(q, n)',
                    ThreadOf(k)' = ThreadOf(n)', lateStarts'[k] = 0,
                    TurnActive(k)'
             PROVE  FALSE
  BY DEF Idle, Dispatch
<1>0. <<q, n>> \in Run /\ lateStarts[k] \in Nat
  BY DEF Run, TypeOK, ServerOK
<1>1. pc[<<q, n>>] \in Dispatch /\ Holds(q, n) /\ ThreadOf(k) = ThreadOf(n)
      /\ lateStarts[k] = 0 => ~TurnActive(k)
  BY DEF Idle
<1>2. ASSUME NEW p \in Proc, NEW m \in Message, Submit(p, m) PROVE FALSE
  <2>1. pc' = [pc EXCEPT ![<<p, m>>] = "poll"] /\ status[m] = "absent"
        /\ UNCHANGED <<turns, lateStarts>>
    BY <1>2 DEF Submit, Move, Goto, UnchangedElsewhere, serverVars
  <2>2. n # m /\ pc[<<q, n>>] \in Dispatch
    BY <2>1 DEF Registered, TypeOK, LoopsOK, Dispatch
  <2>3. TurnActive(k)
    BY <2>1 DEF TurnActive
  <2>4. k # m
    BY <2>1, <2>3, NoTurnIdle DEF Registered
  <2> QED
    BY <1>1, <1>2, <2>1, <2>2, <2>3, <2>4, SubmitHolds
<1>3. ASSUME NEW p \in Proc, NEW m \in Message, LoopAction(p, m) PROVE FALSE
  <2>1. ThreadOf(k) = ThreadOf(n) /\ ThreadOf(k)' = ThreadOf(k) /\ lateStarts[k] = 0
    BY <1>3, LoopFrame, ThreadKept
  <2>2. CASE <<q, n>> # <<p, m>>
    <3>1. pc[<<q, n>>] \in Dispatch /\ Holds(q, n)
      BY <1>0, <1>3, <2>2, LoopFrame, LoopHolds
    <3>2. ~TurnActive(k)
      BY <1>1, <2>1, <3>1
    <3>3. TurnStarts(p, m) /\ k = m
      BY <1>3, <3>2, LoopTurns
    <3>4. Holds(p, m)
      BY <3>3 DEF TurnStarts, LeaseGuards, Guarded
    <3> QED
      BY <2>1, <2>2, <3>1, <3>3, <3>4, SoleHolder
  <2>3. CASE <<q, n>> = <<p, m>>
    <3>1. ~TurnStarts(p, m)
      BY <2>3 DEF TurnStarts, Goto, TypeOK, LoopsOK, Run, Dispatch
    <3>2. TurnActive(k)
      BY <1>3, <3>1, LoopTurns
    <3>3. CASE ResumeIdle(p, m)
      BY <2>1, <2>3, <3>2, <3>3 DEF ResumeIdle, ThreadActive
    <3>4. CASE Renew(p, m) \/ MarkDispatching(p, m) \/ StartAttempt(p, m)
      <4>1. pc[<<p, m>>] \in Dispatch /\ ~Claim(p, m)
        BY <3>4 DEF Renew, MarkDispatching, StartAttempt, Claim, At, Dispatch
      <4>2. Holds(p, m)
        BY <1>3, <2>3, <4>1, LoopHolds
      <4> QED
        BY <1>1, <2>1, <2>3, <3>2, <4>1, <4>2
    <3> QED
      BY <1>3, <2>3, <3>3, <3>4, LoopMoves DEF Dispatch
  <2> QED
    BY <2>2, <2>3
<1>4. ASSUME NEW p \in Proc, Stop(p) PROVE FALSE
  <2>1. /\ UNCHANGED <<turns, lateStarts, generation>>
        /\ pc[<<q, n>>] \in Dispatch
    BY <1>0, <1>4 DEF Stop, Abandon, messageVars, Dispatch
  <2>2. ThreadOf(k) = ThreadOf(n) /\ TurnActive(k)
    BY <2>1, ThreadKept DEF TurnActive
  <2> QED
    BY <1>1, <1>4, <2>1, <2>2, StopHolds
<1>5. ASSUME UNCHANGED <<turns, lateStarts, generation, lease>>,
             pc[<<q, n>>] \in Dispatch
      PROVE  FALSE
  <2>1. ThreadOf(k) = ThreadOf(n) /\ TurnActive(k) /\ Holds(q, n)
    BY <1>5, ThreadKept DEF TurnActive, Holds
  <2> QED
    BY <1>1, <1>5, <2>1
<1>6. ASSUME NEW p \in Proc, Start(p) PROVE FALSE
  BY <1>0, <1>5, <1>6 DEF Start, messageVars, serverVars, Dispatch
<1>7. CASE Environment
  <2>1. /\ ThreadOf(k) = ThreadOf(n) /\ pc[<<q, n>>] \in Dispatch
        /\ Holds(q, n)
    BY <1>7, EnvironmentFrame, EnvironmentHolds, ThreadKept
  <2>2. lateStarts[k] = 0 /\ TurnActive(k)
    BY <1>0, <1>7, EnvironmentTurns
  <2> QED
    BY <1>1, <2>1, <2>2
<1>8. CASE UNCHANGED vars
  BY <1>5, <1>8 DEF vars, messageVars, loopVars, serverVars
<1> QED
  BY <1>2, <1>3, <1>4, <1>6, <1>7, <1>8, Steps

(* A thread works on one bridge turn at a time.                             *)
LEMMA OneTurnStep ==
  ASSUME TypeOK, Registered, LeaseGuards, Idle, OneTurnAtATime, [Next]_vars
  PROVE  OneTurnAtATime'
<1> SUFFICES ASSUME NEW n \in Message, NEW k \in Message,
                    ThreadOf(n)' = ThreadOf(k)',
                    lateStarts'[n] = 0, lateStarts'[k] = 0,
                    TurnActive(n)', TurnActive(k)', n # k
             PROVE  FALSE
  BY DEF OneTurnAtATime
<1>0. lateStarts[n] \in Nat /\ lateStarts[k] \in Nat
  BY DEF TypeOK, ServerOK
<1>1. ThreadOf(n) = ThreadOf(k) /\ lateStarts[n] = 0 /\ lateStarts[k] = 0
      => ~TurnActive(n) \/ ~TurnActive(k)
  BY DEF OneTurnAtATime
<1>2. ASSUME NEW p \in Proc, NEW m \in Message, Submit(p, m) PROVE FALSE
  <2>1. status[m] = "absent" /\ UNCHANGED <<turns, lateStarts>>
    BY <1>2 DEF Submit, UnchangedElsewhere, serverVars
  <2>2. TurnActive(n) /\ TurnActive(k)
    BY <2>1 DEF TurnActive
  <2>3. n # m /\ k # m
    BY <2>1, <2>2, NoTurnIdle DEF Registered
  <2>4. ThreadOf(n)' = ThreadOf(n) /\ ThreadOf(k)' = ThreadOf(k)
    BY <1>2, <2>3, SubmitHolds
  <2> QED
    BY <1>1, <2>1, <2>2, <2>4
<1>3. ASSUME NEW p \in Proc, NEW m \in Message, LoopAction(p, m) PROVE FALSE
  <2>1. /\ ThreadOf(n) = ThreadOf(k) /\ lateStarts[n] = 0 /\ lateStarts[k] = 0
        /\ ThreadOf(n)' = ThreadOf(n)
    BY <1>3, LoopFrame, ThreadKept
  <2>2. TurnStarts(p, m) /\ m \in {n, k}
    BY <1>1, <1>3, <2>1, LoopTurns
  <2>3. pc[<<p, m>>] \in Dispatch /\ Holds(p, m)
    BY <2>2 DEF TurnStarts, LeaseGuards, Guarded, Dispatch
  <2>4. ~TurnActive(n) /\ ~TurnActive(k)
    BY <2>1, <2>2, <2>3 DEF Idle
  <2> QED
    BY <1>3, <2>4, LoopTurns
<1>4. ASSUME UNCHANGED <<turns, lateStarts, generation>> PROVE FALSE
  <2>1. ThreadOf(n) = ThreadOf(k) /\ TurnActive(n) /\ TurnActive(k)
    BY <1>4, ThreadKept DEF TurnActive
  <2> QED
    BY <1>1, <1>4, <2>1
<1>5. ASSUME NEW p \in Proc, Stop(p) \/ Start(p) PROVE FALSE
  BY <1>4, <1>5 DEF Stop, Abandon, Start, messageVars, serverVars
<1>6. CASE Environment
  <2>1. ThreadOf(n) = ThreadOf(k)
    BY <1>6, EnvironmentFrame, ThreadKept
  <2>2. lateStarts[n] = 0 /\ TurnActive(n)
    BY <1>0, <1>6, EnvironmentTurns
  <2>3. lateStarts[k] = 0 /\ TurnActive(k)
    BY <1>0, <1>6, EnvironmentTurns
  <2> QED
    BY <1>1, <2>1, <2>2, <2>3
<1>7. CASE UNCHANGED vars
  BY <1>4, <1>7 DEF vars, messageVars, serverVars
<1> QED
  BY <1>2, <1>3, <1>5, <1>6, <1>7, Steps

-----------------------------------------------------------------------------
(* The inductive invariant, and what it says.                               *)

LEMMA InvariantInit == Init => DeliveryInvariant
<1> SUFFICES ASSUME Init PROVE DeliveryInvariant
  OBVIOUS
<1>1. /\ \A m \in Message : /\ status[m] = "absent" /\ attempts[m] = 0
                            /\ turns[m] = <<>> /\ lateStarts[m] = 0 /\ m \notin wire
      /\ \A r \in Run : pc[r] = "off"
  BY DEF Init
<1>2. \A p \in Proc, m \in Message : pc[<<p, m>>] = "off"
  BY <1>1 DEF Run
<1>3. \A m \in Message : ~TurnActive(m)
  BY <1>1, NoTurnIdle
<1>4. TypeOK
  BY TypeInit
<1>5. Registered
  BY <1>1, <1>2 DEF Registered
<1>6. LeaseGuards /\ Reconciled
  BY <1>2 DEF LeaseGuards, Guarded, Reconciled, Clear
<1>7. Attempted
  BY <1>1, <1>2 DEF Attempted
<1>8. DuplicateOnlyWhenLate
  BY <1>1 DEF DuplicateOnlyWhenLate
<1>9. Headed
  <2>1. \A m \in Message : ~(attempts[m] > 0)
    BY <1>1
  <2> QED
    BY <1>2, <2>1 DEF Headed
<1>10. Idle /\ OneTurnAtATime
  BY <1>3 DEF Idle, OneTurnAtATime
<1> QED
  BY <1>4, <1>5, <1>6, <1>7, <1>8, <1>9, <1>10 DEF DeliveryInvariant

LEMMA InvariantStep == DeliveryInvariant /\ [Next]_vars => DeliveryInvariant'
<1> SUFFICES ASSUME DeliveryInvariant, [Next]_vars PROVE DeliveryInvariant'
  OBVIOUS
<1> USE DEF DeliveryInvariant
<1>1. TypeOK' /\ Registered'
  BY TypeStep, RegisteredStep
<1>2. LeaseGuards' /\ Attempted'
  BY LeaseGuardsStep, AttemptedStep
<1>3. Reconciled' /\ DuplicateOnlyWhenLate'
  BY ReconciledStep, DuplicateStep
<1>4. Headed'
  BY HeadedStep
<1>5. Idle' /\ OneTurnAtATime'
  BY IdleStep, OneTurnStep
<1> QED
  BY <1>1, <1>2, <1>3, <1>4, <1>5

(* Leases, reconciling and the queue order of #run work together as         *)
(* DeliveryInvariant says, for any number of processes, agents and messages.*)
THEOREM InvariantCorrect == Spec => []DeliveryInvariant
<1>1. Init => DeliveryInvariant
  BY InvariantInit
<1>2. DeliveryInvariant /\ [Next]_vars => DeliveryInvariant'
  BY InvariantStep
<1> QED
  BY <1>1, <1>2, PTL DEF Spec

(* At most one loop of all processes is between the renewal of a lease and  *)
(* the answer to turn/start on a thread.                                    *)
THEOREM OneSender == Spec => []OneSenderPerThread
<1>1. DeliveryInvariant => OneSenderPerThread
  <2> SUFFICES ASSUME DeliveryInvariant,
                      NEW r1 \in Run, NEW r2 \in Run,
                      pc[r1] \in Sending, pc[r2] \in Sending,
                      ThreadOf(r1[2]) = ThreadOf(r2[2])
               PROVE  r1 = r2
    BY DEF OneSenderPerThread
  <2>1. PICK p \in Proc, m \in Message : r1 = <<p, m>>
    BY DEF Run
  <2>2. PICK q \in Proc, n \in Message : r2 = <<q, n>>
    BY DEF Run
  <2>3. Holds(p, m) /\ Holds(q, n)
    BY <2>1, <2>2 DEF DeliveryInvariant, LeaseGuards, Guarded, Sending
  <2> QED
    BY <2>1, <2>2, <2>3, SoleHolder
<1> QED
  BY <1>1, InvariantCorrect, PTL

(* A message has a second turn only if the app-server served a request late *)
(* that the bridge had given up.                                            *)
THEOREM NoDuplicate == Spec => []DuplicateOnlyWhenLate
<1>1. DeliveryInvariant => DuplicateOnlyWhenLate
  BY DEF DeliveryInvariant
<1> QED
  BY <1>1, InvariantCorrect, PTL

(* Late requests apart, a thread works on one bridge turn at a time.        *)
THEOREM OneTurn == Spec => []OneTurnAtATime
<1>1. DeliveryInvariant => OneTurnAtATime
  BY DEF DeliveryInvariant
<1> QED
  BY <1>1, InvariantCorrect, PTL

(* Messages of one recipient generation get their turns in the order they   *)
(* were created: the older ones are finished by then.                       *)
THEOREM Fifo == Spec => []FifoOrder
<1>1. DeliveryInvariant => FifoOrder
  <2> SUFFICES ASSUME DeliveryInvariant, NEW m \in Message, turns[m] # <<>>,
                      NEW n \in Older(m), ThreadOf(n) = ThreadOf(m)
               PROVE  status[n] \in Terminal
    BY DEF FifoOrder
  <2>1. attempts[m] > 0 /\ status[m] # "absent"
    BY DEF DeliveryInvariant, Attempted, Registered
  <2>2. n \in Message
    BY DEF Older
  <2>3. status[n] \notin Unfinished
    BY <2>1 DEF DeliveryInvariant, Headed, Leads
  <2>4. status[n] # "absent"
    BY <2>1, <2>2 DEF DeliveryInvariant, Registered
  <2> QED
    BY <2>2, <2>3, <2>4 DEF DeliveryInvariant, TypeOK, RowsOK, Status
<1> QED
  BY <1>1, InvariantCorrect, PTL

(* The loop of another message leaves the recorded error alone, and Settle, *)
(* the only statement of a loop that records one, skips a finished row.     *)
LEMMA LoopCode ==
  ASSUME TypeOK, NEW p \in Proc, NEW k \in Message, LoopAction(p, k)
  PROVE  code' = code \/ (status[k] \notin Terminal
                          /\ \A n \in Message : n # k => code'[n] = code[n])
<1> USE DEF TypeOK, RowsOK, Terminal, Unfinished, Dispatched, UnchangedElsewhere,
            messageVars
<1>1. ASSUME NEW s, NEW c, Settle(k, s, c)
      PROVE  code' = code \/ (status[k] \notin Terminal
                              /\ \A n \in Message : n # k => code'[n] = code[n])
  BY <1>1 DEF Settle
<1>2. CASE PollExpired(p, k) \/ PollStale(p, k) \/ ReconcileFailed(p, k)
           \/ ReconcileCompleted(p, k) \/ FailDelivery(p, k)
  BY <1>1, <1>2 DEF PollExpired, PollStale, ReconcileFailed, ReconcileCompleted,
     FailDelivery
<1>3. CASE PollFinished(p, k) \/ PollDue(p, k) \/ ClaimRefused(p, k)
           \/ Claim(p, k) \/ Release(p, k)
  BY <1>3 DEF PollFinished, PollDue, ClaimRefused, Claim, Release
<1>4. CASE ReconcileMissing(p, k) \/ ReconcileInProgress(p, k) \/ Recover(p, k)
           \/ ResumeIdle(p, k) \/ ResumeBusy(p, k) \/ RequestFails(p, k)
           \/ Renew(p, k) \/ MarkDispatching(p, k) \/ StartAttempt(p, k)
  BY <1>4 DEF ReconcileMissing, ReconcileInProgress, Recover, ResumeIdle,
     ResumeBusy, RequestFails, Renew, MarkDispatching, StartAttempt
<1>5. CASE TurnStarts(p, k) \/ TurnRefused(p, k) \/ StartUnanswered(p, k)
           \/ AnswerLost(p, k) \/ MarkRunning(p, k) \/ TurnUnsuccessful(p, k)
           \/ MarkCompleted(p, k) \/ TurnTimesOut(p, k) \/ CloseDependency(p, k)
           \/ Decide(p, k) \/ Postpone(p, k) \/ Requeue(p, k)
  BY <1>5 DEF TurnStarts, TurnRefused, StartUnanswered, AnswerLost, MarkRunning,
     TurnUnsuccessful, MarkCompleted, TurnTimesOut, CloseDependency, Decide,
     Postpone, Requeue
<1> QED
  BY <1>2, <1>3, <1>4, <1>5 DEF LoopAction, LoopStep

(* The outcome of a finished message, status and error, is recorded once.   *)
THEOREM FinalOutcome == Spec => OutcomeIsFinal
<1> DEFINE Final == \A m \in Message : status[m] \in Terminal =>
                      status'[m] = status[m] /\ code'[m] = code[m]
<1>1. TypeOK /\ [Next]_vars => [Final]_<<status, code>>
  <2> SUFFICES ASSUME TypeOK, [Next]_vars, NEW m \in Message, status[m] \in Terminal
               PROVE  status'[m] = status[m] /\ code'[m] = code[m]
    OBVIOUS
  <2>1. status'[m] = status[m]
    BY TerminalKept
  <2>2. ASSUME NEW p \in Proc, NEW k \in Message, LoopAction(p, k)
        PROVE  code'[m] = code[m]
    BY <2>2, LoopCode
  <2>3. ASSUME NEW p \in Proc, NEW k \in Message, Submit(p, k) PROVE code' = code
    BY <2>3 DEF Submit
  <2>4. ASSUME NEW p \in Proc, Stop(p) \/ Start(p) PROVE code' = code
    BY <2>4 DEF Stop, Start, messageVars
  <2>5. ASSUME Environment PROVE code' = code
    BY <2>5 DEF Environment, ClockStep, LeaseExpires, BackoffElapses, TtlElapses,
       AdminStep, Pause, Resume, Replace, ServerStep, TurnEnds, LateTurnStarts,
       messageVars
  <2>6. UNCHANGED vars => code' = code
    BY DEF vars, messageVars
  <2>7. code'[m] = code[m]
    BY <2>2, <2>3, <2>4, <2>5, <2>6, Steps
  <2> QED
    BY <2>1, <2>7
<1> QED
  BY <1>1, TypeCorrect, PTL DEF Spec, OutcomeIsFinal
=============================================================================
