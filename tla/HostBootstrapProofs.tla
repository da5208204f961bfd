------------------------ MODULE HostBootstrapProofs ------------------------
(***************************************************************************)
(* The theorems about the bootstrap, for any number of calls and deaths.   *)
(***************************************************************************)
EXTENDS HostBootstrapProperties, FiniteSetTheorems, TLAPS

(***************************************************************************)
(* A reference names a call or nobody.                                     *)
(***************************************************************************)
LEMMA References ==
    /\ Refs = Calls \cup {Nobody}
    /\ Nobody \notin Calls
    /\ NumCalls \in Nat
  BY BootstrapAssumption DEF Refs, Calls, Nobody

(***************************************************************************)
(* TypeOK is inductive.                                                    *)
(***************************************************************************)
LEMMA TypeHolds ==
    ASSUME TypeOK, [Next]_vars
    PROVE  TypeOK'
<1> USE References DEF TypeOK, Ended
<1> SUFFICES ASSUME Next PROVE TypeOK'
  BY DEF vars, callVars, lockVars, fileVars, hostVars
<1>1. CASE Tick
  BY <1>1 DEF Tick, callVars, lockVars, fileVars, hostVars, Refs
<1>2. ASSUME NEW c \in Calls, Begin(c)
      PROVE  TypeOK'
  BY <1>2 DEF Begin, GoTo, lockVars, fileVars, hostVars, Places, Calls, Refs
<1>3. ASSUME NEW c \in Calls, Inspecting(c)
      PROVE  TypeOK'
  <2>1. CASE ReadDescriptor(c)
    BY <2>1 DEF ReadDescriptor, Probing, GoTo, Places, Waiting, Holding, lockVars, fileVars, hostVars
  <2>2. CASE NoDescriptor(c)
    BY <2>2 DEF NoDescriptor, AfterNull, Probing, GoTo, Places, Waiting, Holding, lockVars, fileVars, hostVars
  <2>3. CASE AskHost(c)
    BY <2>3 DEF AskHost, AfterNull, AfterHealthy, RetryOrGiveUp, Probing, GoTo, Places, Waiting, Holding, lockVars, fileVars, hostVars
  <2>4. CASE CreateLock(c)
    BY <2>4 DEF CreateLock, GoTo, Places, Waiting, Holding, lockVars, fileVars, hostVars
  <2>5. CASE WriteRecord(c)
    BY <2>5 DEF WriteRecord, GoTo, Places, Waiting, Holding, lockVars, fileVars, hostVars
  <2>6. CASE InspectLock(c)
    BY <2>6 DEF InspectLock, RetryOrGiveUp, GoTo, Places, Waiting, Holding, lockVars, fileVars, hostVars
  <2>7. CASE CompareNonce(c)
    BY <2>7 DEF CompareNonce, RetryOrGiveUp, GoTo, Places, Waiting, Holding, lockVars, fileVars, hostVars
  <2>8. CASE RemoveStaleLock(c)
    BY <2>8 DEF RemoveStaleLock, RetryOrGiveUp, Mishaps, GoTo, Places, Waiting, Holding, lockVars, fileVars, hostVars
  <2> QED
    BY <1>3, <2>1, <2>2, <2>3, <2>4, <2>5, <2>6, <2>7, <2>8 DEF Inspecting
<1>4. ASSUME NEW c \in Calls, Starting(c)
      PROVE  TypeOK'
  <2>1. CASE ReadStaleHost(c)
    BY <2>1 DEF ReadStaleHost, Stays, GoTo, Places, Waiting, Holding, lockVars, fileVars, hostVars
  <2>2. CASE TerminateOrphan(c)
    BY <2>2 DEF TerminateOrphan, GoTo, Places, Waiting, Holding, lockVars, fileVars, hostVars
  <2>3. CASE TerminationFails(c)
    BY <2>3 DEF TerminationFails, GoTo, Places, Waiting, Holding, lockVars, fileVars, hostVars
  <2>4. CASE ClaimStaleDescriptor(c)
    BY <2>4 DEF ClaimStaleDescriptor, GoTo, Places, Waiting, Holding, lockVars, fileVars, hostVars
  <2>5. CASE SettleStaleDescriptor(c)
    BY <2>5 DEF SettleStaleDescriptor, Restored, GoTo, Places, Waiting, Holding, lockVars, fileVars, hostVars
  <2>6. CASE Launch(c)
    BY <2>6 DEF Launch, HostPhases, GoTo, Places, Waiting, Holding, lockVars, fileVars, hostVars
  <2>7. CASE LaunchFails(c)
    BY <2>7 DEF LaunchFails, GoTo, Places, Waiting, Holding, lockVars, fileVars, hostVars
  <2>8. CASE StartTimesOut(c)
    BY <2>8 DEF StartTimesOut, Mishaps, GoTo, Places, Waiting, Holding, lockVars, fileVars, hostVars
  <2>9. CASE CompareOwnNonce(c)
    BY <2>9 DEF CompareOwnNonce, GoTo, Places, Waiting, Holding, lockVars, fileVars, hostVars
  <2>10. CASE RemoveOwnLock(c)
    BY <2>10 DEF RemoveOwnLock, GoTo, Places, Waiting, Holding, lockVars, fileVars, hostVars
  <2>11. CASE UnpublishFails(c)
    BY <2>11 DEF UnpublishFails, GoTo, Places, Waiting, Holding, lockVars, fileVars, hostVars
  <2> QED
    BY <1>4, <2>1, <2>2, <2>3, <2>4, <2>5, <2>6, <2>7, <2>8, <2>9, <2>10, <2>11 DEF Starting
<1>5. ASSUME NEW c \in Calls, HostStep(c)
      PROVE  TypeOK'
  <2>1. CASE SpawnServer(c)
    BY <2>1 DEF SpawnServer, HostPhases, MoveHost, callVars, lockVars, fileVars, hostVars
  <2>2. CASE HostFails(c)
    BY <2>2 DEF HostFails, HostPhases, MoveHost, callVars, lockVars, fileVars, hostVars
  <2>3. CASE Publish(c)
    BY <2>3 DEF Publish, HostPhases, MoveHost, callVars, lockVars, fileVars, hostVars
  <2>4. CASE Shutdown(c)
    BY <2>4 DEF Shutdown, HostPhases, MoveHost, callVars, lockVars, fileVars, hostVars
  <2>5. CASE StopServer(c)
    BY <2>5 DEF StopServer, HostPhases, MoveHost, callVars, lockVars, fileVars, hostVars
  <2>6. CASE ClaimOwnDescriptor(c)
    BY <2>6 DEF ClaimOwnDescriptor, HostPhases, MoveHost, callVars, lockVars, fileVars, hostVars
  <2>7. CASE SettleOwnDescriptor(c)
    BY <2>7 DEF SettleOwnDescriptor, HostPhases, Restored, MoveHost, callVars, lockVars, fileVars, hostVars
  <2>8. CASE PublishFails(c)
    BY <2>8 DEF PublishFails, HostPhases, MoveHost, callVars, lockVars, fileVars, hostVars
  <2> QED
    BY <1>5, <2>1, <2>2, <2>3, <2>4, <2>5, <2>6, <2>7, <2>8 DEF HostStep
<1>6. ASSUME NEW c \in Calls, Death(c)
      PROVE  TypeOK'
  <2>1. CASE CallDies(c)
    BY <2>1 DEF CallDies, Die, GoTo, Places, callVars, lockVars, fileVars, hostVars
  <2>2. CASE HostDies(c)
    <3>1. mishaps' = mishaps \/ mishaps' = mishaps \cup {"orphan unrecorded"}
      BY <2>2, Zenon DEF HostDies
    <3>2. /\ Die
          /\ host' = [host EXCEPT ![c] = "gone"]
          /\ UNCHANGED <<callVars, aged, lockVars, fileVars, server>>
      BY <2>2, Zenon DEF HostDies
    <3>3. mishaps' \subseteq Mishaps
      BY <3>1 DEF Mishaps
    <3>4. host' \in [Calls -> HostPhases]
      BY <3>2 DEF HostPhases
    <3>5. deaths' \in Nat
      BY <3>2 DEF Die
    <3>6. UNCHANGED <<pc, seen, owner, due, begun, aged, lock, blank, descriptor, taken, shed, server>>
      BY <3>2 DEF callVars, lockVars, fileVars
    <3> QED
      BY <3>3, <3>4, <3>5, <3>6
  <2>3. CASE ServerDies(c)
    BY <2>3 DEF ServerDies, Die, GoTo, Places, callVars, lockVars, fileVars, hostVars
  <2> QED
    BY <1>6, <2>1, <2>2, <2>3 DEF Death
<1>7. ASSUME NEW c \in Calls, LockFileFails(c)
      PROVE  TypeOK'
  BY <1>7 DEF LockFileFails, GoTo, Places, lockVars, fileVars, hostVars
<1> QED
  BY <1>1, <1>2, <1>3, <1>4, <1>5, <1>6, <1>7 DEF Next

-----------------------------------------------------------------------------
(***************************************************************************)
(* What the steps leave alone.                                             *)
(***************************************************************************)

(***************************************************************************)
(* A call that probes or waits for the lock changes no host and no         *)
(* descriptor, and moves itself only.                                      *)
(***************************************************************************)
LEMMA InspectingFrame ==
    ASSUME TypeOK, NEW c \in Calls, Begin(c) \/ Inspecting(c)
    PROVE  /\ UNCHANGED <<descriptor, taken, shed, host, server, due, deaths>>
           /\ \A d \in Calls \ {c} : pc'[d] = pc[d] /\ seen'[d] = seen[d]
           /\ pc[c] \in {"idle", "record"} \cup Probing \cup Waiting
           /\ pc'[c] \in {"done", "record", "recover", "release"} \cup Probing \cup Waiting
           /\ pc[c] = "await" => pc'[c] \in {"await", "release"}
           /\ pc[c] = "await" /\ pc'[c] = "release" => seen[c] # Nobody /\ Healthy(seen[c])
           /\ pc'[c] \in Holding => pc[c] \in Holding \/ (lock = Nobody /\ lock' = c)
           /\ lock' = lock \/ (lock = Nobody /\ lock' = c) \/ "lock removed" \in mishaps'
           /\ mishaps \subseteq mishaps'
<1> USE DEF TypeOK, GoTo, Probing, Waiting, Holding, lockVars, fileVars, hostVars
<1>1. CASE Begin(c)
  BY <1>1 DEF Begin
<1>2. CASE ReadDescriptor(c)
  BY <1>2 DEF ReadDescriptor
<1>3. CASE NoDescriptor(c)
  BY <1>3 DEF NoDescriptor, AfterNull
<1>4. CASE AskHost(c)
  BY <1>4 DEF AskHost, AfterNull, AfterHealthy, RetryOrGiveUp
<1>5. CASE CreateLock(c)
  BY <1>5 DEF CreateLock
<1>6. CASE WriteRecord(c)
  BY <1>6 DEF WriteRecord
<1>7. CASE InspectLock(c)
  BY <1>7 DEF InspectLock, RetryOrGiveUp
<1>8. CASE CompareNonce(c)
  BY <1>8 DEF CompareNonce, RetryOrGiveUp
<1>9. CASE RemoveStaleLock(c)
  BY <1>9 DEF RemoveStaleLock, RetryOrGiveUp
<1> QED
  BY <1>1, <1>2, <1>3, <1>4, <1>5, <1>6, <1>7, <1>8, <1>9 DEF Inspecting

(***************************************************************************)
(* A call under the lock changes no other call and no host's claim.        *)
(***************************************************************************)
LEMMA StartingFrame ==
    ASSUME TypeOK, NEW c \in Calls, Starting(c)
    PROVE  /\ UNCHANGED <<shed, begun, aged, deaths>>
           /\ pc[c] \in Holding
           /\ pc'[c] \in Holding \cup {"done"}
           /\ \A d \in Calls \ {c} :
                 pc'[d] = pc[d] /\ seen'[d] = seen[d] /\ taken'[d] = taken[d]
           /\ mishaps \subseteq mishaps'
<1> USE DEF TypeOK, GoTo, Holding, lockVars, fileVars, hostVars
<1>1. CASE ReadStaleHost(c)
  BY <1>1 DEF ReadStaleHost
<1>2. CASE TerminateOrphan(c)
  BY <1>2 DEF TerminateOrphan
<1>3. CASE TerminationFails(c)
  BY <1>3 DEF TerminationFails
<1>4. CASE ClaimStaleDescriptor(c)
  BY <1>4 DEF ClaimStaleDescriptor
<1>5. CASE SettleStaleDescriptor(c)
  BY <1>5 DEF SettleStaleDescriptor
<1>6. CASE Launch(c)
  BY <1>6 DEF Launch
<1>7. CASE LaunchFails(c)
  BY <1>7 DEF LaunchFails
<1>8. CASE StartTimesOut(c)
  BY <1>8 DEF StartTimesOut
<1>9. CASE CompareOwnNonce(c)
  BY <1>9 DEF CompareOwnNonce
<1>10. CASE RemoveOwnLock(c)
  BY <1>10 DEF RemoveOwnLock
<1>11. CASE UnpublishFails(c)
  BY <1>11 DEF UnpublishFails
<1> QED
  BY <1>1, <1>2, <1>3, <1>4, <1>5, <1>6, <1>7, <1>8, <1>9, <1>10, <1>11 DEF Starting

(***************************************************************************)
(* A call that the file system fails at the lock ends, and that is all.    *)
(***************************************************************************)
LEMMA LockFileFrame ==
    ASSUME TypeOK, NEW c \in Calls, LockFileFails(c)
    PROVE  /\ UNCHANGED <<seen, lock, descriptor, taken, shed, host, server, deaths, mishaps>>
           /\ pc[c] \in {"acquire", "record", "compare", "remove", "release", "unlock"}
           /\ pc'[c] = "failed"
           /\ \A d \in Calls \ {c} : pc'[d] = pc[d]
  BY DEF LockFileFails, GoTo, TypeOK, fileVars, hostVars

(***************************************************************************)
(* Time and the steps and deaths of hosts and app-servers move no call.    *)
(***************************************************************************)
Outside == Tick \/ \E h \in Calls : HostStep(h) \/ HostDies(h) \/ ServerDies(h)

LEMMA OutsideFrame ==
    ASSUME Outside
    PROVE  UNCHANGED <<pc, seen, owner, lock, taken>>
  BY DEF Outside, Tick, HostStep, SpawnServer, HostFails, Publish, PublishFails, Shutdown, StopServer,
     ClaimOwnDescriptor, SettleOwnDescriptor, HostDies, ServerDies, callVars, lockVars,
     fileVars

LEMMA Steps ==
    ASSUME Next
    PROVE  \/ \E c \in Calls : \/ Begin(c) \/ Inspecting(c) \/ Starting(c)
                              \/ CallDies(c) \/ LockFileFails(c)
           \/ Outside
  BY DEF Next, Death, Outside

(***************************************************************************)
(* The death of a host is its alone, and recorded when it leaves an        *)
(* app-server behind that nobody knows of.                                 *)
(***************************************************************************)
LEMMA HostDiesFrame ==
    ASSUME NEW h \in Calls, HostDies(h)
    PROVE  /\ ProcessAlive(h)
           /\ Die
           /\ host' = [host EXCEPT ![h] = "gone"]
           /\ mishaps' = mishaps \/ mishaps' = mishaps \cup {"orphan unrecorded"}
           /\ host[h] = "starting" /\ server[h] => mishaps' # {}
           /\ UNCHANGED <<callVars, aged, lockVars, fileVars, server>>
<1>1. "orphan unrecorded" \in mishaps \cup {"orphan unrecorded"}
  OBVIOUS
<1> QED
  BY <1>1, Zenon DEF HostDies

-----------------------------------------------------------------------------
(***************************************************************************)
(* The parts of the invariant that hold whatever happens.                  *)
(***************************************************************************)

LEMMA LockOwnedHolds ==
    ASSUME TypeOK, LockOwned, [Next]_vars
    PROVE  LockOwned'
<1> USE References DEF TypeOK, LockOwned, Holding, lockVars
<1>1. CASE UNCHANGED vars
  BY <1>1 DEF vars, callVars
<1>2. ASSUME NEW c \in Calls, Begin(c) \/ Inspecting(c)
      PROVE  LockOwned'
  <2>1. CASE Begin(c)
    BY <2>1 DEF Begin, GoTo
  <2>2. CASE ReadDescriptor(c)
    BY <2>2 DEF ReadDescriptor, GoTo, Probing
  <2>3. CASE NoDescriptor(c)
    BY <2>3 DEF NoDescriptor, GoTo, AfterNull, Probing
  <2>4. CASE AskHost(c)
    BY <2>4 DEF AskHost, GoTo, AfterNull, AfterHealthy, RetryOrGiveUp, Probing
  <2>5. CASE CreateLock(c)
    BY <2>5 DEF CreateLock, GoTo
  <2>6. CASE WriteRecord(c)
    BY <2>6 DEF WriteRecord, GoTo
  <2>7. CASE InspectLock(c)
    BY <2>7 DEF InspectLock, GoTo, RetryOrGiveUp
  <2>8. CASE CompareNonce(c)
    BY <2>8 DEF CompareNonce, GoTo, RetryOrGiveUp
  <2>9. CASE RemoveStaleLock(c)
    BY <2>9 DEF RemoveStaleLock, GoTo, RetryOrGiveUp
  <2> QED
    BY <1>2, <2>1, <2>2, <2>3, <2>4, <2>5, <2>6, <2>7, <2>8, <2>9 DEF Inspecting
<1>3. ASSUME NEW c \in Calls, Starting(c)
      PROVE  LockOwned'
  <2>1. CASE ReadStaleHost(c)
    BY <2>1 DEF ReadStaleHost, GoTo
  <2>2. CASE TerminateOrphan(c)
    BY <2>2 DEF TerminateOrphan, GoTo
  <2>3. CASE TerminationFails(c)
    BY <2>3 DEF TerminationFails, GoTo
  <2>4. CASE ClaimStaleDescriptor(c)
    BY <2>4 DEF ClaimStaleDescriptor, GoTo
  <2>5. CASE SettleStaleDescriptor(c)
    BY <2>5 DEF SettleStaleDescriptor, GoTo
  <2>6. CASE Launch(c)
    BY <2>6 DEF Launch, GoTo
  <2>7. CASE LaunchFails(c)
    BY <2>7 DEF LaunchFails, GoTo
  <2>8. CASE StartTimesOut(c)
    BY <2>8 DEF StartTimesOut, GoTo
  <2>9. CASE CompareOwnNonce(c)
    BY <2>9 DEF CompareOwnNonce, GoTo
  <2>10. CASE RemoveOwnLock(c)
    BY <2>10 DEF RemoveOwnLock, GoTo
  <2>11. CASE UnpublishFails(c)
    BY <2>11 DEF UnpublishFails, GoTo
  <2> QED
    BY <1>3, <2>1, <2>2, <2>3, <2>4, <2>5, <2>6, <2>7, <2>8, <2>9, <2>10, <2>11 DEF Starting
<1>4. ASSUME NEW c \in Calls, CallDies(c)
      PROVE  LockOwned'
  BY <1>4 DEF CallDies, GoTo
<1>5. CASE Outside
  BY <1>5, OutsideFrame
<1>6. ASSUME NEW c \in Calls, LockFileFails(c)
      PROVE  LockOwned'
  BY <1>6, LockFileFrame
<1> QED
  BY <1>1, <1>2, <1>3, <1>4, <1>5, <1>6, Steps

(***************************************************************************)
(* A lock without a record is that of a call on its way to write it, or    *)
(* that ended there.                                                       *)
(***************************************************************************)
BlankOwned == blank => lock # Nobody /\ pc[lock] \in {"record", "failed", "dead"}

LEMMA BlankOwnedHolds ==
    ASSUME TypeOK, BlankOwned, [Next]_vars
    PROVE  BlankOwned'
<1> USE References DEF TypeOK, BlankOwned
<1>1. CASE UNCHANGED vars
  BY <1>1 DEF vars, callVars, lockVars
<1>2. ASSUME NEW c \in Calls, pc[c] \notin {"record", "failed", "dead"},
             \A d \in Calls \ {c} : pc'[d] = pc[d], UNCHANGED lockVars
      PROVE  BlankOwned'
  BY <1>2 DEF lockVars
<1>3. ASSUME NEW c \in Calls, Begin(c) \/ Inspecting(c)
      PROVE  BlankOwned'
  <2>1. CASE CreateLock(c)
    BY <2>1 DEF CreateLock, GoTo
  <2>2. CASE WriteRecord(c)
    BY <2>2 DEF WriteRecord, GoTo
  <2>3. CASE RemoveStaleLock(c)
    BY <2>3 DEF RemoveStaleLock
  <2>4. ASSUME ~CreateLock(c), ~WriteRecord(c), ~RemoveStaleLock(c)
        PROVE  UNCHANGED lockVars /\ pc[c] \notin {"record", "failed", "dead"}
    BY <1>3, <2>4 DEF Inspecting, Begin, ReadDescriptor, NoDescriptor, AskHost, InspectLock,
       CompareNonce, Probing
  <2> QED
    BY <1>2, <1>3, <2>1, <2>2, <2>3, <2>4, InspectingFrame
<1>4. ASSUME NEW c \in Calls, Starting(c)
      PROVE  BlankOwned'
  <2>1. CASE RemoveOwnLock(c)
    BY <2>1 DEF RemoveOwnLock
  <2>2. ASSUME ~RemoveOwnLock(c)
        PROVE  UNCHANGED lockVars /\ pc[c] \notin {"record", "failed", "dead"}
    BY <1>4, <2>2 DEF Starting, ReadStaleHost, TerminateOrphan, TerminationFails,
       ClaimStaleDescriptor, SettleStaleDescriptor, UnpublishFails, Launch, LaunchFails,
       StartTimesOut, CompareOwnNonce
  <2> QED
    BY <1>2, <1>4, <2>1, <2>2, StartingFrame
<1>5. ASSUME NEW c \in Calls, CallDies(c)
      PROVE  BlankOwned'
  BY <1>5 DEF CallDies, GoTo, lockVars
<1>6. ASSUME NEW c \in Calls, LockFileFails(c)
      PROVE  BlankOwned'
  <2>1. blank' => blank
    BY <1>6 DEF LockFileFails
  <2> QED
    BY <1>6, <2>1, LockFileFrame
<1>7. CASE Outside
  <2>1. UNCHANGED blank
    BY <1>7, HostDiesFrame DEF Outside, Tick, HostStep, SpawnServer, HostFails, Publish,
       PublishFails, Shutdown, StopServer, ClaimOwnDescriptor, SettleOwnDescriptor,
       ServerDies, lockVars
  <2> QED
    BY <1>7, <2>1, OutsideFrame
<1> QED
  BY <1>1, <1>3, <1>4, <1>5, <1>6, <1>7, Steps

LEMMA NamesPublishedHolds ==
    ASSUME TypeOK, NamesPublished, Launched, [Next]_vars
    PROVE  NamesPublished'
<1> USE References DEF TypeOK, NamesPublished, PublishedPhases
<1>1. CASE UNCHANGED vars
  BY <1>1 DEF vars, fileVars, hostVars
<1>2. ASSUME NEW c \in Calls, Begin(c) \/ Inspecting(c)
      PROVE  NamesPublished'
  BY <1>2, InspectingFrame
<1>3. ASSUME NEW c \in Calls, Starting(c)
      PROVE  NamesPublished'
  <2>1. CASE ReadStaleHost(c)
    BY <2>1 DEF ReadStaleHost, fileVars, hostVars
  <2>2. CASE TerminateOrphan(c)
    BY <2>2 DEF TerminateOrphan, fileVars, hostVars
  <2>3. CASE TerminationFails(c)
    BY <2>3 DEF TerminationFails, fileVars, hostVars
  <2>4. CASE ClaimStaleDescriptor(c)
    BY <2>4 DEF ClaimStaleDescriptor, fileVars, hostVars
  <2>5. CASE SettleStaleDescriptor(c)
    BY <2>5 DEF SettleStaleDescriptor, Restored, fileVars, hostVars
  <2>6. CASE Launch(c)
    BY <2>6 DEF Launch, Launched, Ended, fileVars
  <2>7. CASE LaunchFails(c)
    BY <2>7 DEF LaunchFails, fileVars, hostVars
  <2>8. CASE StartTimesOut(c)
    BY <2>8 DEF StartTimesOut, fileVars, hostVars
  <2>9. CASE CompareOwnNonce(c)
    BY <2>9 DEF CompareOwnNonce, fileVars, hostVars
  <2>10. CASE RemoveOwnLock(c)
    BY <2>10 DEF RemoveOwnLock, fileVars, hostVars
  <2>11. CASE UnpublishFails(c)
    BY <2>11 DEF UnpublishFails, fileVars, hostVars
  <2> QED
    BY <1>3, <2>1, <2>2, <2>3, <2>4, <2>5, <2>6, <2>7, <2>8, <2>9, <2>10, <2>11 DEF Starting
<1>4. ASSUME NEW c \in Calls, CallDies(c)
      PROVE  NamesPublished'
  BY <1>4 DEF CallDies, fileVars, hostVars
<1>5. CASE Tick
  BY <1>5 DEF Tick, fileVars, hostVars
<1>6. ASSUME NEW h \in Calls, HostStep(h)
      PROVE  NamesPublished'
  <2>1. CASE SpawnServer(h)
    BY <2>1 DEF SpawnServer, MoveHost, fileVars
  <2>2. CASE HostFails(h)
    BY <2>2 DEF HostFails, MoveHost, fileVars
  <2>3. CASE Publish(h)
    BY <2>3 DEF Publish, MoveHost, fileVars
  <2>4. CASE Shutdown(h)
    BY <2>4 DEF Shutdown, MoveHost, fileVars
  <2>5. CASE StopServer(h)
    BY <2>5 DEF StopServer, MoveHost, fileVars
  <2>6. CASE ClaimOwnDescriptor(h)
    BY <2>6 DEF ClaimOwnDescriptor, MoveHost, fileVars
  <2>7. CASE SettleOwnDescriptor(h)
    BY <2>7 DEF SettleOwnDescriptor, Restored, MoveHost, fileVars
  <2>8. CASE PublishFails(h)
    BY <2>8 DEF PublishFails, MoveHost, fileVars
  <2> QED
    BY <1>6, <2>1, <2>2, <2>3, <2>4, <2>5, <2>6, <2>7, <2>8 DEF HostStep
<1>7. ASSUME NEW h \in Calls, HostDies(h) \/ ServerDies(h)
      PROVE  NamesPublished'
  <2>1. CASE HostDies(h)
    <3>1. host' = [host EXCEPT ![h] = "gone"] /\ UNCHANGED <<descriptor, taken, shed>>
      BY <2>1, HostDiesFrame DEF fileVars
    <3> QED
      BY <3>1
  <2>2. CASE ServerDies(h)
    BY <2>2 DEF ServerDies, fileVars
  <2> QED
    BY <1>7, <2>1, <2>2
<1>8. ASSUME NEW c \in Calls, LockFileFails(c)
      PROVE  NamesPublished'
  BY <1>8, LockFileFrame
<1> QED
  BY <1>1, <1>2, <1>3, <1>4, <1>5, <1>6, <1>7, <1>8 DEF Next, Death

LEMMA RecoversDeadHolds ==
    ASSUME TypeOK, NamesPublished, Launched, RecoversDead, [Next]_vars
    PROVE  RecoversDead'
<1> USE References DEF TypeOK, RecoversDead
<1>1. CASE UNCHANGED vars
  BY <1>1 DEF vars, callVars, hostVars
<1>2. ASSUME NEW c \in Calls, Begin(c) \/ Inspecting(c)
      PROVE  RecoversDead'
  <2>1. /\ host' = host
        /\ \A d \in Calls \ {c} : pc'[d] = pc[d] /\ seen'[d] = seen[d]
        /\ pc'[c] \notin {"evict", "unpublish", "settle"}
    BY <1>2, InspectingFrame DEF Probing, Waiting
  <2> QED
    BY <2>1
<1>3. ASSUME NEW c \in Calls, Starting(c)
      PROVE  RecoversDead'
  <2>1. CASE ReadStaleHost(c)
    BY <2>1 DEF ReadStaleHost, GoTo, Stays, ProcessAlive, NamesPublished, PublishedPhases, hostVars
  <2>2. CASE TerminateOrphan(c)
    BY <2>2 DEF TerminateOrphan, GoTo, hostVars
  <2>3. CASE TerminationFails(c)
    BY <2>3 DEF TerminationFails, GoTo, hostVars
  <2>4. CASE ClaimStaleDescriptor(c)
    BY <2>4 DEF ClaimStaleDescriptor, GoTo, hostVars
  <2>5. CASE SettleStaleDescriptor(c)
    BY <2>5 DEF SettleStaleDescriptor, GoTo, hostVars
  <2>6. CASE Launch(c)
    BY <2>6 DEF Launch, Launched, Ended, GoTo
  <2>7. CASE LaunchFails(c)
    BY <2>7 DEF LaunchFails, GoTo, hostVars
  <2>8. CASE StartTimesOut(c)
    BY <2>8 DEF StartTimesOut, GoTo, hostVars
  <2>9. CASE CompareOwnNonce(c)
    BY <2>9 DEF CompareOwnNonce, GoTo, hostVars
  <2>10. CASE RemoveOwnLock(c)
    BY <2>10 DEF RemoveOwnLock, GoTo, hostVars
  <2>11. CASE UnpublishFails(c)
    BY <2>11 DEF UnpublishFails, GoTo, hostVars
  <2> QED
    BY <1>3, <2>1, <2>2, <2>3, <2>4, <2>5, <2>6, <2>7, <2>8, <2>9, <2>10, <2>11 DEF Starting
<1>4. ASSUME NEW c \in Calls, CallDies(c)
      PROVE  RecoversDead'
  BY <1>4 DEF CallDies, GoTo, hostVars
<1>5. CASE Outside
  <2>1. ASSUME NEW k \in Calls, host[k] = "gone"
        PROVE  host'[k] = "gone"
    <3>1. CASE Tick
      BY <2>1, <3>1 DEF Tick, hostVars
    <3>2. ASSUME NEW h \in Calls, HostStep(h)
          PROVE  host'[k] = "gone"
      <4>1. host' = host \/ (host[h] # "gone" /\ \E new \in HostPhases : host' = [host EXCEPT ![h] = new])
        BY <3>2 DEF HostStep, MoveHost, HostPhases, SpawnServer, HostFails, Publish,
           PublishFails, Shutdown, StopServer, ClaimOwnDescriptor, SettleOwnDescriptor
      <4> QED
        BY <2>1, <4>1
    <3>3. ASSUME NEW h \in Calls, HostDies(h)
          PROVE  host'[k] = "gone"
      BY <2>1, <3>3, HostDiesFrame
    <3>4. ASSUME NEW h \in Calls, ServerDies(h)
          PROVE  host'[k] = "gone"
      BY <2>1, <3>4 DEF ServerDies
    <3> QED
      BY <1>5, <3>1, <3>2, <3>3, <3>4 DEF Outside
  <2> QED
    BY <1>5, <2>1, OutsideFrame
<1>6. ASSUME NEW c \in Calls, LockFileFails(c)
      PROVE  RecoversDead'
  BY <1>6, LockFileFrame
<1> QED
  BY <1>1, <1>2, <1>3, <1>4, <1>5, <1>6, Steps

LEMMA ClaimsPendingHolds ==
    ASSUME TypeOK, Launched, ClaimsPending, [Next]_vars
    PROVE  ClaimsPending'
<1> USE References DEF TypeOK, ClaimsPending
<1>1. CASE UNCHANGED vars
  BY <1>1 DEF vars, callVars, fileVars, hostVars
<1>2. ASSUME NEW c \in Calls, Begin(c) \/ Inspecting(c)
      PROVE  ClaimsPending'
  BY <1>2, InspectingFrame DEF Probing, Waiting
<1>3. ASSUME NEW c \in Calls, Starting(c)
      PROVE  ClaimsPending'
  <2>1. CASE ReadStaleHost(c)
    BY <2>1 DEF ReadStaleHost, GoTo, fileVars, hostVars
  <2>2. CASE TerminateOrphan(c)
    BY <2>2 DEF TerminateOrphan, GoTo, fileVars, hostVars
  <2>3. CASE TerminationFails(c)
    BY <2>3 DEF TerminationFails, GoTo, fileVars, hostVars
  <2>4. CASE ClaimStaleDescriptor(c)
    BY <2>4 DEF ClaimStaleDescriptor, GoTo, fileVars, hostVars
  <2>5. CASE SettleStaleDescriptor(c)
    BY <2>5 DEF SettleStaleDescriptor, GoTo, fileVars, hostVars
  <2>6. CASE Launch(c)
    BY <2>6 DEF Launch, Launched, Ended, GoTo, fileVars
  <2>7. CASE LaunchFails(c)
    BY <2>7 DEF LaunchFails, GoTo, fileVars, hostVars
  <2>8. CASE StartTimesOut(c)
    BY <2>8 DEF StartTimesOut, GoTo, fileVars, hostVars
  <2>9. CASE CompareOwnNonce(c)
    BY <2>9 DEF CompareOwnNonce, GoTo, fileVars, hostVars
  <2>10. CASE RemoveOwnLock(c)
    BY <2>10 DEF RemoveOwnLock, GoTo, fileVars, hostVars
  <2>11. CASE UnpublishFails(c)
    BY <2>11 DEF UnpublishFails, GoTo, fileVars, hostVars
  <2> QED
    BY <1>3, <2>1, <2>2, <2>3, <2>4, <2>5, <2>6, <2>7, <2>8, <2>9, <2>10, <2>11 DEF Starting
<1>4. ASSUME NEW c \in Calls, CallDies(c)
      PROVE  ClaimsPending'
  BY <1>4 DEF CallDies, GoTo, fileVars, hostVars
<1>5. CASE Tick
  BY <1>5 DEF Tick, callVars, fileVars, hostVars
<1>6. ASSUME NEW h \in Calls, HostStep(h)
      PROVE  ClaimsPending'
  <2>1. CASE SpawnServer(h)
    BY <2>1 DEF SpawnServer, MoveHost, callVars, fileVars
  <2>2. CASE HostFails(h)
    BY <2>2 DEF HostFails, MoveHost, callVars, fileVars
  <2>3. CASE Publish(h)
    BY <2>3 DEF Publish, MoveHost, callVars, fileVars
  <2>4. CASE Shutdown(h)
    BY <2>4 DEF Shutdown, MoveHost, callVars, fileVars
  <2>5. CASE StopServer(h)
    BY <2>5 DEF StopServer, MoveHost, callVars, fileVars
  <2>6. CASE ClaimOwnDescriptor(h)
    BY <2>6 DEF ClaimOwnDescriptor, MoveHost, callVars, fileVars
  <2>7. CASE SettleOwnDescriptor(h)
    BY <2>7 DEF SettleOwnDescriptor, MoveHost, callVars, fileVars
  <2>8. CASE PublishFails(h)
    BY <2>8 DEF PublishFails, MoveHost, callVars, fileVars
  <2> QED
    BY <1>6, <2>1, <2>2, <2>3, <2>4, <2>5, <2>6, <2>7, <2>8 DEF HostStep
<1>7. ASSUME NEW h \in Calls, HostDies(h)
      PROVE  ClaimsPending'
  <2>1. host' = [host EXCEPT ![h] = "gone"] /\ UNCHANGED <<pc, taken, shed>>
    BY <1>7, HostDiesFrame DEF callVars, fileVars
  <2> QED
    BY <2>1
<1>8. ASSUME NEW h \in Calls, ServerDies(h)
      PROVE  ClaimsPending'
  BY <1>8 DEF ServerDies, callVars, fileVars
<1>9. ASSUME NEW c \in Calls, LockFileFails(c)
      PROVE  ClaimsPending'
  BY <1>9, LockFileFrame
<1> QED
  BY <1>1, <1>2, <1>3, <1>4, <1>5, <1>6, <1>7, <1>8, <1>9 DEF Next, Death

LEMMA LaunchedHolds ==
    ASSUME TypeOK, Launched, [Next]_vars
    PROVE  Launched'
<1> USE References DEF TypeOK, Launched, Ended
<1>1. CASE UNCHANGED vars
  BY <1>1 DEF vars, callVars, hostVars
<1>2. ASSUME NEW c \in Calls, Begin(c) \/ Inspecting(c)
      PROVE  Launched'
  BY <1>2, InspectingFrame DEF Probing, Waiting
<1>3. ASSUME NEW c \in Calls, Starting(c)
      PROVE  Launched'
  <2>1. CASE ReadStaleHost(c)
    BY <2>1 DEF ReadStaleHost, GoTo, hostVars
  <2>2. CASE TerminateOrphan(c)
    BY <2>2 DEF TerminateOrphan, GoTo, hostVars
  <2>3. CASE TerminationFails(c)
    BY <2>3 DEF TerminationFails, GoTo, hostVars
  <2>4. CASE ClaimStaleDescriptor(c)
    BY <2>4 DEF ClaimStaleDescriptor, GoTo, hostVars
  <2>5. CASE SettleStaleDescriptor(c)
    BY <2>5 DEF SettleStaleDescriptor, GoTo, hostVars
  <2>6. CASE Launch(c)
    BY <2>6 DEF Launch, GoTo, hostVars
  <2>7. CASE LaunchFails(c)
    BY <2>7 DEF LaunchFails, GoTo, hostVars
  <2>8. CASE StartTimesOut(c)
    BY <2>8 DEF StartTimesOut, GoTo, hostVars
  <2>9. CASE CompareOwnNonce(c)
    BY <2>9 DEF CompareOwnNonce, GoTo, hostVars
  <2>10. CASE RemoveOwnLock(c)
    BY <2>10 DEF RemoveOwnLock, GoTo, hostVars
  <2>11. CASE UnpublishFails(c)
    BY <2>11 DEF UnpublishFails, GoTo, hostVars
  <2> QED
    BY <1>3, <2>1, <2>2, <2>3, <2>4, <2>5, <2>6, <2>7, <2>8, <2>9, <2>10, <2>11 DEF Starting
<1>4. ASSUME NEW c \in Calls, CallDies(c)
      PROVE  Launched'
  BY <1>4 DEF CallDies, GoTo, hostVars
<1>5. CASE Tick
  BY <1>5 DEF Tick, callVars, hostVars
<1>6. ASSUME NEW h \in Calls, HostStep(h)
      PROVE  Launched'
  <2>1. CASE SpawnServer(h)
    BY <2>1 DEF SpawnServer, MoveHost, callVars
  <2>2. CASE HostFails(h)
    BY <2>2 DEF HostFails, MoveHost, callVars
  <2>3. CASE Publish(h)
    BY <2>3 DEF Publish, MoveHost, callVars
  <2>4. CASE Shutdown(h)
    BY <2>4 DEF Shutdown, MoveHost, callVars
  <2>5. CASE StopServer(h)
    BY <2>5 DEF StopServer, MoveHost, callVars
  <2>6. CASE ClaimOwnDescriptor(h)
    BY <2>6 DEF ClaimOwnDescriptor, MoveHost, callVars
  <2>7. CASE SettleOwnDescriptor(h)
    BY <2>7 DEF SettleOwnDescriptor, MoveHost, callVars
  <2>8. CASE PublishFails(h)
    BY <2>8 DEF PublishFails, MoveHost, callVars
  <2> QED
    BY <1>6, <2>1, <2>2, <2>3, <2>4, <2>5, <2>6, <2>7, <2>8 DEF HostStep
<1>7. ASSUME NEW h \in Calls, HostDies(h)
      PROVE  Launched'
  <2>1. /\ host[h] # "none"
        /\ host' = [host EXCEPT ![h] = "gone"]
        /\ UNCHANGED <<pc, server>>
    BY <1>7, HostDiesFrame DEF ProcessAlive, callVars
  <2> QED
    BY <2>1
<1>8. ASSUME NEW h \in Calls, ServerDies(h)
      PROVE  Launched'
  BY <1>8 DEF ServerDies, callVars
<1>9. ASSUME NEW c \in Calls, LockFileFails(c)
      PROVE  Launched'
  BY <1>9, LockFileFrame
<1> QED
  BY <1>1, <1>2, <1>3, <1>4, <1>5, <1>6, <1>7, <1>8, <1>9 DEF Next, Death

(***************************************************************************)
(* As long as no lock is removed as stale, the lock excludes: it is        *)
(* created only when there is none, that is when nobody holds one.         *)
(***************************************************************************)
LEMMA LockHeldHolds ==
    ASSUME TypeOK, LockHeld, [Next]_vars
    PROVE  LockHeld'
<1> USE References DEF TypeOK, LockHeld, Holders, Holding, lockVars
<1>1. CASE UNCHANGED vars
  BY <1>1 DEF vars, callVars
<1>2. ASSUME NEW c \in Calls, Begin(c) \/ Inspecting(c)
      PROVE  LockHeld'
  <2>1. SUFFICES ASSUME "lock removed" \notin mishaps',
                        NEW d \in Calls, pc'[d] \in Holding
                 PROVE  lock' = d
    OBVIOUS
  <2>2. CASE pc[d] \in Holding
    BY <1>2, <2>1, <2>2, InspectingFrame
  <2>3. CASE pc[d] \notin Holding
    BY <1>2, <2>1, <2>3, InspectingFrame
  <2> QED
    BY <2>2, <2>3
<1>3. ASSUME NEW c \in Calls, Starting(c)
      PROVE  LockHeld'
  <2>1. CASE ReadStaleHost(c)
    BY <2>1 DEF ReadStaleHost, GoTo
  <2>2. CASE TerminateOrphan(c)
    BY <2>2 DEF TerminateOrphan, GoTo
  <2>3. CASE TerminationFails(c)
    BY <2>3 DEF TerminationFails, GoTo
  <2>4. CASE ClaimStaleDescriptor(c)
    BY <2>4 DEF ClaimStaleDescriptor, GoTo
  <2>5. CASE SettleStaleDescriptor(c)
    BY <2>5 DEF SettleStaleDescriptor, GoTo
  <2>6. CASE Launch(c)
    BY <2>6 DEF Launch, GoTo
  <2>7. CASE LaunchFails(c)
    BY <2>7 DEF LaunchFails, GoTo
  <2>8. CASE StartTimesOut(c)
    BY <2>8 DEF StartTimesOut, GoTo
  <2>9. CASE CompareOwnNonce(c)
    BY <2>9 DEF CompareOwnNonce, GoTo
  <2>10. CASE RemoveOwnLock(c)
    BY <2>10 DEF RemoveOwnLock, GoTo
  <2>11. CASE UnpublishFails(c)
    BY <2>11 DEF UnpublishFails, GoTo
  <2> QED
    BY <1>3, <2>1, <2>2, <2>3, <2>4, <2>5, <2>6, <2>7, <2>8, <2>9, <2>10, <2>11 DEF Starting
<1>4. ASSUME NEW c \in Calls, CallDies(c)
      PROVE  LockHeld'
  BY <1>4 DEF CallDies, GoTo
<1>5. CASE Outside
  <2>1. "lock removed" \notin mishaps' => "lock removed" \notin mishaps
    BY <1>5, HostDiesFrame DEF Outside, Tick, HostStep, SpawnServer, HostFails, Publish,
       PublishFails, Shutdown, StopServer, ClaimOwnDescriptor, SettleOwnDescriptor, ServerDies
  <2> QED
    BY <1>5, <2>1, OutsideFrame
<1>6. ASSUME NEW c \in Calls, LockFileFails(c)
      PROVE  LockHeld'
  BY <1>6, LockFileFrame
<1> QED
  BY <1>1, <1>2, <1>3, <1>4, <1>5, <1>6, Steps

(***************************************************************************)
(* As long as there was no mishap, there is one occupant.  The one moment  *)
(* at which a new one could join an old one is Launch, and a call gets     *)
(* there under the lock, which excludes hosts on their way up, and past    *)
(* the descriptor, which names the host that is up or died.                *)
(***************************************************************************)
LEMMA OneOccupantHolds ==
    ASSUME TypeOK, RecoversDead, Launched, LockHeld, mishaps = {} => OneOccupant,
           [Next]_vars, mishaps' = {}
    PROVE  OneOccupant'
<1> USE References
<1>1. CASE UNCHANGED vars
  BY <1>1 DEF vars, callVars, lockVars, fileVars, hostVars, OneOccupant, Occupants, Rising
<1>2. ASSUME NEW c \in Calls, Begin(c) \/ Inspecting(c)
      PROVE  OneOccupant'
  <2>1. OneOccupant
    BY <1>2, InspectingFrame
  <2>2. Occupants' = Occupants /\ Rising' = Rising /\ descriptor' = descriptor
    BY <1>2, InspectingFrame DEF Occupants, Rising
  <2>3. ASSUME NEW h \in Rising
        PROVE  lock' = h /\ pc'[h] \in {"await", "dead"}
    <3>1. lock = h /\ pc[h] \in {"await", "dead"} /\ h \in Calls
      BY <2>1 DEF OneOccupant, Rising
    <3>2. lock' = h
      BY <1>2, <3>1, InspectingFrame
    <3>3. CASE h # c
      BY <1>2, <3>1, <3>2, <3>3, InspectingFrame
    <3>4. CASE h = c
      <4>1. pc[c] = "await" /\ pc'[c] \in {"await", "release"}
        BY <1>2, <3>1, <3>4, InspectingFrame DEF Probing, Waiting
      <4>2. ASSUME pc'[c] = "release"
            PROVE  FALSE
        <5>1. seen[c] \in Calls /\ Healthy(seen[c])
          BY <1>2, <4>1, <4>2, InspectingFrame DEF TypeOK
        <5>2. seen[c] \in Occupants /\ c \in Occupants
          BY <3>4, <5>1 DEF Healthy, Occupants, Rising
        <5> QED
          BY <2>1, <3>4, <5>1, <5>2 DEF OneOccupant, Healthy, Rising
      <4> QED
        BY <3>2, <3>4, <4>1, <4>2
    <3> QED
      BY <3>3, <3>4
  <2>4. ASSUME NEW d \in Calls,
               pc'[d] \in {"evict", "unpublish", "settle", "launch"}
        PROVE  pc'[d] = pc[d] /\ seen'[d] = seen[d]
    BY <1>2, <2>4, InspectingFrame DEF Probing, Waiting
  <2> QED
    BY <2>1, <2>2, <2>3, <2>4 DEF OneOccupant
<1>3. ASSUME NEW c \in Calls, Starting(c)
      PROVE  OneOccupant'
  <2>1. OneOccupant /\ mishaps = {}
    BY <1>3, StartingFrame
  <2>2. lock = c /\ pc[c] \in Holding
    BY <1>3, <2>1, StartingFrame DEF LockHeld, Holders
  <2>3. \A d \in Calls \ {c} : pc'[d] = pc[d] /\ seen'[d] = seen[d] /\ pc[d] \notin Holding
    BY <1>3, <2>1, <2>2, StartingFrame DEF LockHeld, Holders
  <2>4. Rising \subseteq {c} /\ (pc[c] # "await" => Rising = {})
    BY <2>1, <2>2 DEF OneOccupant, Rising, Holding
  <2>5. CASE ReadStaleHost(c)
    <3>1. Occupants' = Occupants /\ Rising' = Rising /\ descriptor' = descriptor
      BY <2>5 DEF ReadStaleHost, fileVars, hostVars, Occupants, Rising
    <3>2. Rising = {}
      BY <2>4, <2>5 DEF ReadStaleHost
    <3>3. pc'[c] = "evict" => Occupants \subseteq {seen'[c]}
      BY <2>1, <2>5, <3>2 DEF ReadStaleHost, GoTo, OneOccupant, TypeOK
    <3>4. pc'[c] = "launch" => Occupants = {}
      BY <2>1, <2>5, <3>2 DEF ReadStaleHost, GoTo, OneOccupant, Occupants, TypeOK
    <3>5. pc'[c] \in {"release", "launch", "evict"}
      BY <2>5 DEF ReadStaleHost, GoTo, TypeOK
    <3> QED
      BY <2>1, <2>3, <3>1, <3>2, <3>3, <3>4, <3>5 DEF OneOccupant, Holding
  <2>6. CASE TerminateOrphan(c)
    <3>1. Occupants' = {} /\ Rising' = {}
      BY <2>1, <2>4, <2>6 DEF TerminateOrphan, OneOccupant, Occupants, Rising, RecoversDead,
         TypeOK
    <3> QED
      BY <3>1 DEF OneOccupant
  <2>7. CASE TerminationFails(c) \/ LaunchFails(c) \/ CompareOwnNonce(c) \/ RemoveOwnLock(c)
    <3>1. Occupants' = Occupants /\ Rising' = Rising /\ descriptor' = descriptor
      BY <2>7 DEF TerminationFails, LaunchFails, CompareOwnNonce, RemoveOwnLock, fileVars,
         hostVars, Occupants, Rising
    <3>2. Rising = {}
      BY <2>4, <2>7 DEF TerminationFails, LaunchFails, CompareOwnNonce, RemoveOwnLock
    <3>3. pc'[c] \in {"release", "unlock", "done"}
      BY <2>7 DEF TerminationFails, LaunchFails, CompareOwnNonce, RemoveOwnLock, GoTo, TypeOK
    <3> QED
      BY <2>1, <2>3, <3>1, <3>2, <3>3 DEF OneOccupant, Holding
  <2>8. CASE ClaimStaleDescriptor(c) \/ SettleStaleDescriptor(c)
    <3>1. Occupants' = Occupants /\ Rising' = Rising /\ Occupants = {}
      BY <2>1, <2>8 DEF ClaimStaleDescriptor, SettleStaleDescriptor, hostVars, Occupants,
         Rising, OneOccupant
    <3>2. Rising = {}
      BY <2>4, <2>8 DEF ClaimStaleDescriptor, SettleStaleDescriptor
    <3> QED
      BY <3>1, <3>2 DEF OneOccupant
  <2>9. CASE Launch(c)
    <3>1. Occupants' = {c} /\ Rising' = {c}
      BY <2>1, <2>4, <2>9 DEF Launch, OneOccupant, Occupants, Rising, TypeOK
    <3>2. lock' = c /\ pc'[c] = "await"
      BY <2>2, <2>9 DEF Launch, GoTo, TypeOK, lockVars
    <3> QED
      BY <2>3, <3>1, <3>2 DEF OneOccupant, Holding
  <2>10. CASE StartTimesOut(c)
    <3>1. Occupants' = Occupants /\ Rising' = Rising /\ descriptor' = descriptor
      BY <2>10 DEF StartTimesOut, fileVars, hostVars, Occupants, Rising
    <3>2. Rising = {}
      BY <2>4, <2>10 DEF StartTimesOut, Rising
    <3>3. pc'[c] = "release"
      BY <2>10 DEF StartTimesOut, GoTo, TypeOK
    <3> QED
      BY <2>1, <2>3, <3>1, <3>2, <3>3 DEF OneOccupant, Holding
  <2>11. CASE UnpublishFails(c)
    <3>1. Occupants' = Occupants /\ Rising' = Rising /\ Occupants = {}
      BY <2>1, <2>11 DEF UnpublishFails, hostVars, Occupants, Rising, OneOccupant
    <3>2. Rising = {}
      BY <2>4, <2>11 DEF UnpublishFails
    <3> QED
      BY <3>1, <3>2 DEF OneOccupant
  <2> QED
    BY <1>3, <2>5, <2>6, <2>7, <2>8, <2>9, <2>10, <2>11 DEF Starting
<1>4. ASSUME NEW c \in Calls, CallDies(c)
      PROVE  OneOccupant'
  <2>1. OneOccupant
    BY <1>4 DEF CallDies
  <2>2. Occupants' = Occupants /\ Rising' = Rising /\ UNCHANGED <<descriptor, lock>>
    BY <1>4 DEF CallDies, fileVars, hostVars, lockVars, Occupants, Rising
  <2>3. pc'[c] = "dead" /\ \A d \in Calls \ {c} : pc'[d] = pc[d] /\ seen'[d] = seen[d]
    BY <1>4 DEF CallDies, GoTo, TypeOK
  <2> QED
    BY <2>1, <2>2, <2>3 DEF OneOccupant, Rising
<1>5. CASE Tick
  BY <1>5 DEF Tick, callVars, lockVars, fileVars, hostVars, OneOccupant, Occupants, Rising
<1>6. ASSUME NEW h \in Calls, HostStep(h) \/ HostDies(h) \/ ServerDies(h)
      PROVE  OneOccupant'
  <2>1. UNCHANGED <<pc, seen, lock>>
    BY <1>6, OutsideFrame DEF Outside
  <2>2. OneOccupant
    BY <1>6, HostDiesFrame DEF HostStep, SpawnServer, HostFails, Publish,
       PublishFails, Shutdown, StopServer, ClaimOwnDescriptor, SettleOwnDescriptor, ServerDies
  <2>3. SUFFICES /\ Occupants' \subseteq Occupants
                 /\ Rising' \subseteq Rising
                 /\ \A k \in Occupants' \ Rising' : descriptor' = k
    BY <2>1, <2>2 DEF OneOccupant
  <2> USE DEF TypeOK, Occupants, Rising
  <2>4. CASE SpawnServer(h)
    BY <2>2, <2>4 DEF SpawnServer, MoveHost, fileVars, OneOccupant
  <2>5. CASE HostFails(h)
    BY <2>2, <2>5 DEF HostFails, MoveHost, fileVars, OneOccupant
  <2>6. CASE Publish(h)
    BY <2>2, <2>6 DEF Publish, MoveHost, OneOccupant
  <2>7. CASE Shutdown(h) \/ StopServer(h)
    BY <2>2, <2>7 DEF Shutdown, StopServer, MoveHost, fileVars, OneOccupant
  <2>8. CASE ClaimOwnDescriptor(h)
    <3>1. Occupants \subseteq {h} /\ ~server[h]
      BY <2>2, <2>8 DEF ClaimOwnDescriptor, MoveHost, OneOccupant, Launched
    <3>2. Occupants' = {} /\ Rising' = {}
      BY <2>8, <3>1 DEF ClaimOwnDescriptor, MoveHost
    <3> QED
      BY <3>2
  <2>9. CASE SettleOwnDescriptor(h)
    <3>1. Occupants' \subseteq Occupants /\ Rising' = Rising
      BY <2>9 DEF SettleOwnDescriptor, MoveHost
    <3>2. ASSUME NEW k \in Occupants \ Rising
          PROVE  descriptor' = k
      BY <2>2, <2>9, <3>2 DEF SettleOwnDescriptor, Restored, OneOccupant
    <3> QED
      BY <3>1, <3>2
  <2>10. CASE HostDies(h)
    <3>1. host' = [host EXCEPT ![h] = "gone"] /\ UNCHANGED <<server, descriptor>>
      BY <2>10, HostDiesFrame DEF fileVars
    <3>2. h \in Rising => ~server[h]
      BY <2>10, HostDiesFrame DEF Launched
    <3> QED
      BY <2>2, <3>1, <3>2 DEF OneOccupant
  <2>11. CASE ServerDies(h)
    BY <2>2, <2>11 DEF ServerDies, fileVars, OneOccupant
  <2>12. CASE PublishFails(h)
    BY <2>2, <2>12 DEF PublishFails, MoveHost, fileVars, OneOccupant
  <2> QED
    BY <1>6, <2>4, <2>5, <2>6, <2>7, <2>8, <2>9, <2>10, <2>11, <2>12 DEF HostStep
<1>7. ASSUME NEW c \in Calls, LockFileFails(c)
      PROVE  OneOccupant'
  <2>1. OneOccupant
    BY <1>7, LockFileFrame
  <2>2. Occupants' = Occupants /\ Rising' = Rising /\ UNCHANGED <<descriptor, lock, seen>>
    BY <1>7, LockFileFrame DEF Occupants, Rising
  <2>3. /\ pc[c] \notin {"await", "dead"} /\ pc'[c] = "failed"
        /\ \A d \in Calls \ {c} : pc'[d] = pc[d]
    BY <1>7, LockFileFrame
  <2> QED
    BY <2>1, <2>2, <2>3 DEF OneOccupant, Rising
<1> QED
  BY <1>1, <1>2, <1>3, <1>4, <1>5, <1>6, <1>7 DEF Next, Death

-----------------------------------------------------------------------------
(***************************************************************************)
(* The theorems.                                                           *)
(***************************************************************************)

LEMMA InitHolds == Init => BootstrapInvariant
<1> SUFFICES ASSUME Init PROVE BootstrapInvariant
  OBVIOUS
<1> USE References DEF Init
<1>1. TypeOK
  BY DEF TypeOK, Places, HostPhases, Mishaps, Nobody
<1>2. LockOwned /\ NamesPublished /\ RecoversDead /\ ClaimsPending /\ Launched
  BY DEF LockOwned, NamesPublished, RecoversDead, ClaimsPending, Launched
<1>3. LockHeld
  BY DEF LockHeld, Holders, Holding
<1>4. OneOccupant
  BY DEF OneOccupant, Occupants, Rising
<1> QED
  BY <1>1, <1>2, <1>3, <1>4 DEF BootstrapInvariant

LEMMA StepHolds ==
    ASSUME BootstrapInvariant, [Next]_vars
    PROVE  BootstrapInvariant'
  BY TypeHolds, LockOwnedHolds, NamesPublishedHolds, RecoversDeadHolds, ClaimsPendingHolds,
     LaunchedHolds, LockHeldHolds, OneOccupantHolds DEF BootstrapInvariant

(***************************************************************************)
(* The invariant of the bootstrap, and with it the types, hold in every    *)
(* reachable state: for any number of calls, in any order, however many of *)
(* the processes die.                                                      *)
(***************************************************************************)
THEOREM BootstrapInvariantCorrect == Spec => []BootstrapInvariant
  BY InitHolds, StepHolds, PTL DEF Spec

(***************************************************************************)
(* The lock excludes as long as none is removed as stale                   *)
(* (bootstrap_lock.ts).                                                    *)
(***************************************************************************)
THEOREM LockExcludes == Spec => []OneHolder
<1>1. ASSUME BootstrapInvariant
      PROVE  OneHolder
  <2>1. SUFFICES ASSUME "lock removed" \notin mishaps
                 PROVE  Cardinality(Holders) <= 1
    BY DEF OneHolder
  <2>2. Holders \subseteq {lock}
    BY <1>1, <2>1 DEF BootstrapInvariant, LockHeld
  <2>3. Holders = {} \/ Holders = {lock}
    BY <2>2
  <2>4. Cardinality({}) = 0 /\ Cardinality({lock}) = 1
    BY FS_EmptySet, FS_Singleton
  <2> QED
    BY <2>3, <2>4
<1> QED
  BY <1>1, BootstrapInvariantCorrect, PTL

(***************************************************************************)
(* One app-server, unless one of the three mishaps happened                *)
(* (ensureHostRunning, recoverStaleManagedHost, runHost).                  *)
(***************************************************************************)
THEOREM OneServerWithoutMishap == Spec => []OneServer
<1>1. ASSUME BootstrapInvariant
      PROVE  OneServer
  <2>1. SUFFICES ASSUME mishaps = {}
                 PROVE  Cardinality(Servers) <= 1
    BY DEF OneServer
  <2>2. \A h, k \in Servers : h = k
    BY <1>1, <2>1 DEF BootstrapInvariant, OneOccupant, Occupants, Servers
  <2>3. CASE Servers = {}
    BY <2>3, FS_EmptySet
  <2>4. ASSUME NEW h \in Servers
        PROVE  Cardinality(Servers) <= 1
    <3>1. Servers = {h}
      BY <2>2
    <3>2. Cardinality({h}) = 1
      BY FS_Singleton
    <3> QED
      BY <3>1, <3>2
  <2> QED
    BY <2>3, <2>4
<1> QED
  BY <1>1, BootstrapInvariantCorrect, PTL

(***************************************************************************)
(* A call leaves its lock behind only by its death or by an error of the   *)
(* lock file itself, and a lock without a record, which nobody removes     *)
(* afterwards, only if it got no further than creating the file.           *)
(***************************************************************************)
THEOREM LockReleased == Spec => []NoLockLeft
<1>1. Init => BlankOwned
  BY DEF Init, BlankOwned
<1>2. BootstrapInvariant /\ BlankOwned /\ [Next]_vars => BlankOwned'
  BY BlankOwnedHolds DEF BootstrapInvariant
<1>3. BootstrapInvariant /\ BlankOwned => NoLockLeft
  BY References DEF BootstrapInvariant, LockOwned, BlankOwned, NoLockLeft, Holding
<1> QED
  BY <1>1, <1>2, <1>3, BootstrapInvariantCorrect, PTL DEF Spec

(***************************************************************************)
(* Recovery ends the app-server of no host that is still there.            *)
(***************************************************************************)
THEOREM LiveOwnerSpared == Spec => NoLiveOwnerEvicted
<1>1. ASSUME BootstrapInvariant, Next, NEW h \in Calls,
             ProcessAlive(h), server[h], ~server'[h]
      PROVE  deaths' # deaths \/ host'[h] # host[h]
  <2> USE DEF BootstrapInvariant, TypeOK
  <2>1. CASE Tick
    BY <1>1, <2>1 DEF Tick, hostVars
  <2>2. ASSUME NEW c \in Calls, Begin(c) \/ Inspecting(c)
        PROVE  FALSE
    BY <1>1, <2>2, InspectingFrame
  <2>3. ASSUME NEW c \in Calls, Starting(c)
        PROVE  FALSE
    <3>1. TerminateOrphan(c)
      BY <1>1, <2>3 DEF Starting, ReadStaleHost, TerminationFails, ClaimStaleDescriptor,
         SettleStaleDescriptor, UnpublishFails, Launch, LaunchFails, StartTimesOut, CompareOwnNonce,
         RemoveOwnLock, hostVars
    <3>2. h = seen[c]
      BY <1>1, <3>1 DEF TerminateOrphan
    <3> QED
      BY <1>1, <3>1, <3>2 DEF TerminateOrphan, RecoversDead, ProcessAlive
  <2>4. ASSUME NEW k \in Calls, HostStep(k)
        PROVE  deaths' # deaths \/ host'[h] # host[h]
    BY <1>1, <2>4 DEF HostStep, SpawnServer, HostFails, Publish, PublishFails, Shutdown, StopServer,
       ClaimOwnDescriptor, SettleOwnDescriptor, MoveHost
  <2>5. ASSUME NEW k \in Calls, Death(k)
        PROVE  deaths' # deaths
    <3>1. Die
      BY <2>5, HostDiesFrame DEF Death, CallDies, ServerDies
    <3> QED
      BY <1>1, <3>1 DEF Die
  <2>6. ASSUME NEW c \in Calls, LockFileFails(c)
        PROVE  FALSE
    BY <1>1, <2>6, LockFileFrame
  <2> QED
    BY <1>1, <2>1, <2>2, <2>3, <2>4, <2>5, <2>6 DEF Next
<1>2. BootstrapInvariant /\ [Next]_vars =>
         [\A h \in Calls : (ProcessAlive(h) /\ server[h] /\ ~server'[h])
             => deaths' # deaths \/ host'[h] # host[h]]_vars
  BY <1>1
<1> QED
  BY <1>2, BootstrapInvariantCorrect, PTL DEF Spec, NoLiveOwnerEvicted

(***************************************************************************)
(* No removal of a descriptor loses the way to a host that is ready        *)
(* (removeHostDescriptorIfOwned).                                          *)
(***************************************************************************)
THEOREM OwnerStaysNamed == Spec => NoOwnerErased
<1>1. ASSUME BootstrapInvariant, Next, NEW h \in Calls, host[h] = "ready",
             descriptor' = Nobody, Named(h)
      PROVE  Named(h)'
  <2> USE References DEF BootstrapInvariant, TypeOK, Named
  <2>1. CASE Tick
    BY <1>1, <2>1 DEF Tick, fileVars
  <2>2. ASSUME NEW c \in Calls, Begin(c) \/ Inspecting(c)
        PROVE  Named(h)'
    BY <1>1, <2>2, InspectingFrame
  <2>3. ASSUME NEW c \in Calls, Starting(c)
        PROVE  Named(h)'
    <3>1. CASE ClaimStaleDescriptor(c)
      BY <1>1, <3>1 DEF ClaimStaleDescriptor, ClaimsPending
    <3>2. CASE SettleStaleDescriptor(c)
      <4>1. taken[c] = h => taken[c] # seen[c] /\ descriptor # Nobody
        BY <1>1, <3>2 DEF SettleStaleDescriptor, Restored, RecoversDead
      <4>2. taken[c] # h
        BY <1>1, <3>2, <4>1 DEF SettleStaleDescriptor, Restored
      <4>3. descriptor # h
        BY <1>1, <3>2 DEF SettleStaleDescriptor, Restored
      <4> QED
        BY <1>1, <3>2, <4>2, <4>3 DEF SettleStaleDescriptor
    <3>3. CASE UnpublishFails(c)
      <4>1. descriptor = Nobody /\ taken[c] = Nobody
        BY <1>1, <3>3 DEF UnpublishFails
      <4> QED
        BY <1>1, <3>3, <4>1 DEF UnpublishFails
    <3>4. CASE ~ClaimStaleDescriptor(c) /\ ~SettleStaleDescriptor(c) /\ ~UnpublishFails(c)
      BY <1>1, <2>3, <3>4 DEF Starting, ReadStaleHost, TerminateOrphan, TerminationFails,
         Launch, LaunchFails, StartTimesOut, CompareOwnNonce, RemoveOwnLock, fileVars
    <3> QED
      BY <3>1, <3>2, <3>3, <3>4
  <2>4. ASSUME NEW k \in Calls, HostStep(k)
        PROVE  Named(h)'
    <3>1. CASE ClaimOwnDescriptor(k)
      BY <1>1, <3>1 DEF ClaimOwnDescriptor, MoveHost, ClaimsPending
    <3>2. CASE SettleOwnDescriptor(k)
      <4>1. k # h /\ host[k] = "settling"
        BY <1>1, <3>2 DEF SettleOwnDescriptor, MoveHost
      <4>2. shed[k] # h
        BY <1>1, <3>2, <4>1 DEF SettleOwnDescriptor, Restored
      <4>3. descriptor # h
        BY <1>1, <3>2 DEF SettleOwnDescriptor, Restored
      <4> QED
        BY <1>1, <3>2, <4>2, <4>3 DEF SettleOwnDescriptor
    <3>3. CASE ~ClaimOwnDescriptor(k) /\ ~SettleOwnDescriptor(k)
      BY <1>1, <2>4, <3>3 DEF HostStep, SpawnServer, HostFails, Publish, PublishFails, Shutdown,
         StopServer, fileVars
    <3> QED
      BY <3>1, <3>2, <3>3
  <2>5. ASSUME NEW k \in Calls, Death(k)
        PROVE  Named(h)'
    BY <1>1, <2>5, HostDiesFrame DEF Death, CallDies, ServerDies, fileVars
  <2>6. ASSUME NEW c \in Calls, LockFileFails(c)
        PROVE  Named(h)'
    BY <1>1, <2>6, LockFileFrame
  <2> QED
    BY <1>1, <2>1, <2>2, <2>3, <2>4, <2>5, <2>6 DEF Next
<1>2. BootstrapInvariant /\ [Next]_vars =>
         [\A h \in Calls : (host[h] = "ready" /\ Named(h))
             => Named(h)' \/ descriptor' # Nobody]_vars
  BY <1>1
<1> QED
  BY <1>2, BootstrapInvariantCorrect, PTL DEF Spec, NoOwnerErased

(* The variables of the bootstrap keep their types, and a call holds a      *)
(* descriptor or an owner only where acquire() and start() have read one.   *)
THEOREM BootstrapTypes == Spec => []TypeOK
<1>1. BootstrapInvariant => TypeOK
  BY DEF BootstrapInvariant
<1> QED
  BY <1>1, BootstrapInvariantCorrect, PTL
=============================================================================
