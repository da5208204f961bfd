-------------------------- MODULE AppServerClientProofs --------------------------
(* Proofs about the client, for every number of deliveries, permits, requests, *)
(* events and lengths of the history.                                          *)
EXTENDS AppServerClientProperties, FiniteSetTheorems, WellFoundedInduction, TLAPS

Place == {"idle", "asking", "waiting", "starting", "collecting"} \cup Ready
Turn == [asked : Nat, n : Nat, checkpoint : Nat, items : Nat, ended : BOOLEAN, lossy : BOOLEAN]

(* Types, as far as the proofs need them.                                      *)
PlacesOK ==
  /\ pc \in [Delivery -> Place]
  /\ turn \in [Delivery -> Turn]
  /\ made \in Nat
  /\ \A r \in wire : r.n \in Nat

(* Nobody has two requests that wait, and a delivery is where it waits for one. *)
PendingOK ==
  /\ \A i \in DOMAIN pending : pending[i].who \in Delivery =>
       pc[pending[i].who] \in {"asking", "starting"}
  /\ \A i \in DOMAIN pending : pending[i].who \in Delivery \cup {Handshake}
  /\ \A i, j \in DOMAIN pending : pending[i].who = pending[j].who => i = j
  /\ \A i \in DOMAIN pending : pending[i].who = Handshake => link = "handshaking"

(* The waiters are the deliveries that wait, each of them once.                *)
WaitersOK ==
  /\ waiters \in Seq(Delivery)
  /\ \A i \in DOMAIN waiters : pc[waiters[i]] = "waiting"
  /\ \A i, j \in DOMAIN waiters : waiters[i] = waiters[j] => i = j

(* The history holds the last events, in their order.                          *)
HistoryOK ==
  /\ sequence \in Nat
  /\ history \in Seq([number : Nat, n : Nat, kind : {"item", "end"}])
  /\ Len(history) <= HistoryLimit
  /\ \A i \in DOMAIN history : history[i].number = sequence - Len(history) + i
  /\ turns \in [DOMAIN turns -> [items : Nat, ended : BOOLEAN]]
  /\ DOMAIN turns \subseteq 1 .. made

(* A replay would find all events of the turn, while the history is long enough. *)
ReplayOK ==
  \A d \in Delivery : pc[d] \in {"starting", "started"} =>
    /\ turn[d].asked \in DOMAIN turns
    /\ turn[d].checkpoint <= sequence
    /\ sequence - turn[d].checkpoint <= HistoryLimit =>
         /\ turns[turn[d].asked].items = Cardinality(Since(d, turn[d].asked, "item"))
         /\ turns[turn[d].asked].ended = (Since(d, turn[d].asked, "end") # {})

(* What a collector has, in full.                                              *)
CollectedOK ==
  \A d \in Delivery : pc[d] = "collecting" /\ ~turn[d].lossy /\ turn[d].n = turn[d].asked =>
    turn[d].n \in DOMAIN turns

Counters == active \in Nat /\ overtaken \in Nat

CallsInvariant == PlacesOK /\ PendingOK /\ WaitersOK
PermitInvariant == Counters /\ PermitsBounded
EventInvariant == HistoryOK /\ ReplayOK /\ CollectedOK /\ NothingMissed

ClientInvariant == CallsInvariant /\ PermitInvariant /\ EventInvariant

LEMMA ClientStarts == Init => ClientInvariant
<1> SUFFICES ASSUME Init PROVE ClientInvariant
  OBVIOUS
<1>1. CallsInvariant
  BY DEF Init, CallsInvariant, PlacesOK, PendingOK, WaitersOK, Place, Turn, NoTurn
<1>2. EventInvariant
  BY ClientAssumption
     DEF Init, EventInvariant, HistoryOK, ReplayOK, CollectedOK, NothingMissed
<1>3. PermitInvariant
  <2>1. Admitted = {} /\ {d \in Delivery : pc[d] = "resumed"} = {}
    BY DEF Init, Admitted
  <2>2. Cardinality(Admitted) = 0 /\ Cardinality({d \in Delivery : pc[d] = "resumed"}) = 0
    BY <2>1, FS_EmptySet
  <2>3. active = 0 /\ overtaken = 0 /\ MaxConcurrent \in Nat
    BY ClientAssumption DEF Init
  <2>4. QED
    BY <2>2, <2>3 DEF PermitInvariant, Counters, PermitsBounded
<1>4. QED
  BY <1>1, <1>2, <1>3 DEF ClientInvariant

-----------------------------------------------------------------------------
(* Requests.                                                                   *)

LEMMA RequestMade ==
  ASSUME CallsInvariant, NEW who \in Delivery \cup {Handshake}, Request(who),
         \A i \in DOMAIN pending : pending[i].who # who,
         \A d \in Delivery \ {who} : pc'[d] = pc[d],
         who \in Delivery => pc'[who] \in {"asking", "starting"} /\ link' = link,
         who = Handshake => link' = "handshaking"
  PROVE  PendingOK' /\ made' \in Nat /\ made' = made + 1 /\ \A r \in wire' : r.n \in Nat
<1>1. /\ DOMAIN pending' = DOMAIN pending \cup {AcquiredId}
      /\ pending'[AcquiredId].who = who
      /\ \A i \in DOMAIN pending \ {AcquiredId} : pending'[i] = pending[i]
  BY DEF Request
<1>2. PendingOK'
  BY <1>1, ClientAssumption DEF PendingOK, CallsInvariant
<1>3. made' \in Nat /\ made' = made + 1 /\ \A r \in wire' : r.n \in Nat
  BY DEF Request, CallsInvariant, PlacesOK
<1>4. QED
  BY <1>2, <1>3

(* Requests are settled, and those who made them go on.                        *)
LEMMA RequestsSettled ==
  ASSUME CallsInvariant, NEW ids, Settle(ids),
         \A i \in DOMAIN pending \ ids : pending[i].who \in Delivery =>
           pc'[pending[i].who] = pc[pending[i].who],
         link' = link \/ \A i \in DOMAIN pending \ ids : pending[i].who # Handshake
  PROVE  PendingOK'
<1>1. /\ DOMAIN pending' = DOMAIN pending \ ids
      /\ \A i \in DOMAIN pending' : pending'[i] = pending[i]
  BY DEF Settle, Restrict
<1>2. QED
  BY <1>1 DEF PendingOK, CallsInvariant

(* Whoever was asking or starting a turn is told of the end of the request.    *)
LEMMA RequestsFail ==
  ASSUME CallsInvariant, NEW ids, Settle(ids), NEW who, Fail(who),
         \A i \in DOMAIN pending : pending[i].who \in who => i \in ids,
         link' = link \/ \A i \in DOMAIN pending \ ids : pending[i].who # Handshake
  PROVE  /\ PendingOK' /\ pc' \in [Delivery -> Place]
         /\ \A d \in Delivery : \/ pc'[d] = pc[d]
                                \/ pc[d] = "asking" /\ pc'[d] = "idle"
                                \/ pc[d] = "starting" /\ pc'[d] = "over"
<1>1. pc' \in [Delivery -> Place]
  BY DEF Fail, CallsInvariant, PlacesOK, Place, Ready
<1>2. \A d \in Delivery \ who : pc'[d] = pc[d]
  BY DEF Fail
<1>3. PendingOK'
  BY <1>2, RequestsSettled
<1>4. QED
  BY <1>1, <1>3 DEF Fail

-----------------------------------------------------------------------------
(* Places.                                                                     *)

(* Places change, but for the waiters.                                         *)
LEMMA WaitersStay ==
  ASSUME WaitersOK, waiters' = waiters,
         \A d \in Delivery : pc[d] = "waiting" => pc'[d] = "waiting"
  PROVE  WaitersOK'
BY DEF WaitersOK

LEMMA RangeFinite ==
  ASSUME HistoryOK
  PROVE  IsFiniteSet(Range(history))
<1>1. history \in [1 .. Len(history) -> Range(history)] /\ Len(history) \in Nat
  BY DEF HistoryOK, Range
<1>2. history \in Surjection(1 .. Len(history), Range(history))
  BY <1>1 DEF Surjection, Range
<1>3. IsFiniteSet(1 .. Len(history))
  BY <1>1, FS_Interval
<1>4. QED
  BY <1>2, <1>3, FS_Surjection

LEMMA SinceFinite ==
  ASSUME HistoryOK, NEW d, NEW n, NEW kind
  PROVE  IsFiniteSet(Since(d, n, kind)) /\ Cardinality(Since(d, n, kind)) \in Nat
<1>1. Since(d, n, kind) \in SUBSET Range(history)
  BY DEF Since
<1>2. QED
  BY <1>1, RangeFinite, FS_Subset, FS_CardinalityType

LEMMA ConnectionStep ==
  ASSUME CallsInvariant, OpenFails \/ Open \/ Disconnect \/ HandshakeTimesOut
  PROVE  CallsInvariant'
<1> USE DEF CallsInvariant, connection, requests, events, permits
<1>1. CASE OpenFails
  BY <1>1 DEF OpenFails, PlacesOK, PendingOK, WaitersOK
<1>2. CASE Open
  <2>1. WaitersOK' /\ pc' = pc /\ turn' = turn
    BY <1>2 DEF Open, WaitersOK
  <2>2. \A i \in DOMAIN pending : pending[i].who # Handshake
    BY <1>2 DEF Open, PendingOK
  <2>3. QED
    BY <1>2, <2>1, <2>2, RequestMade, ClientAssumption DEF Open, PlacesOK
<1>3. CASE Disconnect
  <2>1. /\ PendingOK' /\ pc' \in [Delivery -> Place]
        /\ \A d \in Delivery : pc[d] = "waiting" => pc'[d] = "waiting"
    BY <1>3, RequestsFail DEF Disconnect
  <2>2. PlacesOK' /\ waiters' = waiters
    BY <1>3, <2>1 DEF Disconnect, PlacesOK
  <2>3. QED
    BY <2>1, <2>2, WaitersStay
<1>4. CASE HandshakeTimesOut
  <2>1. PendingOK'
    BY <1>4, RequestsSettled DEF HandshakeTimesOut, IdOf
  <2>2. QED
    BY <1>4, <2>1 DEF HandshakeTimesOut, PlacesOK, WaitersOK
<1>5. QED
  BY <1>1, <1>2, <1>3, <1>4

LEMMA AnswerStep ==
  ASSUME CallsInvariant, NEW r \in wire,
         (\E ok \in BOOLEAN : Answer(r, ok)) \/ Refused(r) \/ OrphanResponse(r)
  PROVE  CallsInvariant'
<1> USE DEF CallsInvariant, connection, requests, events, permits
<1>1. CASE Refused(r)
  <2>1. PendingOK'
    BY <1>1, RequestsSettled DEF Refused, PendingOK
  <2>2. QED
    BY <1>1, <2>1 DEF Refused, PlacesOK, WaitersOK
<1>2. CASE OrphanResponse(r)
  BY <1>2 DEF OrphanResponse, PlacesOK, PendingOK, WaitersOK
<1>3. ASSUME NEW ok \in BOOLEAN, Answer(r, ok)
      PROVE  CallsInvariant'
  <2> DEFINE who == pending[r.id].who
  <2>1. /\ r.id \in DOMAIN pending /\ Settle({r.id}) /\ waiters' = waiters /\ made' = made
        /\ wire' \subseteq wire /\ who \in Delivery \cup {Handshake}
        /\ \A i \in DOMAIN pending : pending[i].who = who => i = r.id
    BY <1>3 DEF Answer, PendingOK
  <2>2. CASE who = Handshake
    <3>1. pc' = pc /\ turn' = turn /\ \A i \in DOMAIN pending \ {r.id} : pending[i].who # Handshake
      BY <1>3, <2>1, <2>2 DEF Answer
    <3>2. PendingOK'
      BY <2>1, <3>1, RequestsSettled
    <3>3. QED
      BY <2>1, <3>1, <3>2, WaitersStay DEF PlacesOK
  <2>3. CASE who # Handshake /\ ok /\ Fits(who, r)
    <3>1. /\ link' = link /\ who \in Delivery /\ pc[who] \in {"asking", "starting"}
          /\ pc' = [pc EXCEPT ![who] = IF pc[who] = "asking" THEN "answered" ELSE "started"]
          /\ turn' = turn \/ turn' = [turn EXCEPT ![who].n = r.n]
      BY <1>3, <2>1, <2>3 DEF Answer, At, PendingOK
    <3>2. pc' \in [Delivery -> Place] /\ \A d \in Delivery \ {who} : pc'[d] = pc[d]
      BY <3>1 DEF PlacesOK, Place, Ready
    <3>3. turn' \in [Delivery -> Turn]
      BY <3>1 DEF PlacesOK, Turn
    <3>4. PendingOK'
      BY <2>1, <3>1, <3>2, RequestsSettled
    <3>5. WaitersOK'
      BY <2>1, <3>1, <3>2, WaitersStay
    <3>6. QED
      BY <2>1, <3>2, <3>3, <3>4, <3>5 DEF PlacesOK
  <2>4. CASE who # Handshake /\ ~(ok /\ Fits(who, r))
    <3>1. link' = link /\ Fail({who}) /\ turn' = turn
      BY <1>3, <2>1, <2>4 DEF Answer
    <3>2. /\ PendingOK' /\ pc' \in [Delivery -> Place]
          /\ \A d \in Delivery : pc[d] = "waiting" => pc'[d] = "waiting"
      BY <2>1, <3>1, RequestsFail
    <3>3. QED
      BY <2>1, <3>1, <3>2, WaitersStay DEF PlacesOK
  <2>5. QED
    BY <2>2, <2>3, <2>4
<1>4. QED
  BY <1>1, <1>2, <1>3

LEMMA TurnCollected ==
  ASSUME turn \in [Delivery -> Turn], NEW d \in Delivery,
         NEW k \in Nat, NEW e \in BOOLEAN, NEW l \in BOOLEAN
  PROVE  [turn EXCEPT ![d].items = k, ![d].ended = e, ![d].lossy = l] \in [Delivery -> Turn]
BY DEF Turn

LEMMA WaitStep ==
  ASSUME CallsInvariant, HistoryOK, NEW d \in Delivery,
         RequestTimesOut(d) \/ Finish(d) \/ TurnTimesOut(d) \/ Collect(d)
  PROVE  CallsInvariant'
<1> USE DEF CallsInvariant, connection, requests, events, permits
<1>1. CASE RequestTimesOut(d)
  <2>1. /\ PendingOK' /\ pc' \in [Delivery -> Place]
        /\ \A e \in Delivery : pc[e] = "waiting" => pc'[e] = "waiting"
    BY <1>1, RequestsFail DEF RequestTimesOut, IdOf
  <2>2. PlacesOK' /\ waiters' = waiters
    BY <1>1, <2>1 DEF RequestTimesOut, PlacesOK
  <2>3. QED
    BY <2>1, <2>2, WaitersStay
<1>2. CASE Finish(d) \/ TurnTimesOut(d) \/ Collect(d)
  <2>1. /\ pc[d] \in {"collecting", "started"}
        /\ pc' = [pc EXCEPT ![d] = IF pc[d] = "collecting" THEN "over" ELSE "collecting"]
        /\ UNCHANGED <<pending, link, waiters, made, wire>>
    BY <1>2 DEF Finish, TurnTimesOut, Collect, At
  <2>2. pc' \in [Delivery -> Place]
    BY <2>1 DEF PlacesOK, Place, Ready
  <2>3. PendingOK'
    BY <2>1 DEF PendingOK, PlacesOK
  <2>4. WaitersOK'
    BY <2>1, WaitersStay DEF PlacesOK
  <2>5. turn' \in [Delivery -> Turn]
    <3>1. CASE Collect(d)
      <4>1. Cardinality(Since(d, turn[d].n, "item")) \in Nat
        BY SinceFinite
      <4>2. /\ (Since(d, turn[d].n, "end") # {}) \in BOOLEAN
            /\ (sequence - turn[d].checkpoint > HistoryLimit) \in BOOLEAN
        OBVIOUS
      <4>3. QED
        BY <3>1, <4>1, <4>2, TurnCollected DEF Collect, PlacesOK
    <3>2. QED
      BY <1>2, <3>1 DEF Finish, TurnTimesOut, PlacesOK
  <2>6. QED
    BY <2>1, <2>2, <2>3, <2>4, <2>5 DEF PlacesOK
<1>3. QED
  BY <1>1, <1>2

LEMMA TurnStarted ==
  ASSUME CallsInvariant, HistoryOK, NEW d \in Delivery, StartTurn(d),
         pc[d] \in {"answered", "resumed"}, waiters' = waiters
  PROVE  CallsInvariant'
<1> USE DEF CallsInvariant, connection, requests, events, permits
<1>1. link' = link /\ \A i \in DOMAIN pending : pending[i].who # d
  BY DEF StartTurn, PendingOK
<1>2. /\ pc' = [pc EXCEPT ![d] = IF link = "ready" THEN "starting" ELSE "over"]
      /\ turn' = [turn EXCEPT ![d].asked = made', ![d].checkpoint = sequence]
  BY DEF StartTurn, At
<1>3. pc' \in [Delivery -> Place]
  BY <1>2 DEF PlacesOK, Place, Ready
<1>4. WaitersOK'
  BY <1>2, WaitersStay DEF PlacesOK
<1>5. PendingOK' /\ made' \in Nat /\ \A r \in wire' : r.n \in Nat
  <2>1. CASE link = "ready"
    <3>1. Request(d) /\ pc'[d] = "starting" /\ \A e \in Delivery \ {d} : pc'[e] = pc[e]
      BY <1>2, <2>1 DEF StartTurn, PlacesOK
    <3>2. QED
      BY <1>1, <3>1, RequestMade, ClientAssumption
  <2>2. CASE link # "ready"
    <3>1. UNCHANGED <<pending, made, wire>> /\ \A e \in Delivery \ {d} : pc'[e] = pc[e]
      BY <1>2, <2>2 DEF StartTurn, PlacesOK
    <3>2. QED
      BY <1>1, <3>1 DEF PendingOK, PlacesOK
  <2>3. QED
    BY <2>1, <2>2
<1>6. turn' \in [Delivery -> Turn]
  BY <1>2, <1>5 DEF PlacesOK, Turn, HistoryOK
<1>7. QED
  BY <1>3, <1>4, <1>5, <1>6 DEF PlacesOK

LEMMA DeliveryStep ==
  ASSUME CallsInvariant, HistoryOK, NEW d \in Delivery,
         Ask(d) \/ Acquire(d) \/ CountResumed(d) \/ Release(d)
  PROVE  CallsInvariant'
<1> USE DEF CallsInvariant, connection, requests, events, permits
<1>1. CASE Ask(d)
  <2>1. /\ \A i \in DOMAIN pending : pending[i].who # d
        /\ Request(d) /\ link' = link /\ pc[d] = "idle" /\ pc' = [pc EXCEPT ![d] = "asking"]
        /\ turn' = turn /\ waiters' = waiters
    BY <1>1 DEF Ask, At, PendingOK
  <2>2. pc' \in [Delivery -> Place] /\ pc'[d] = "asking" /\ \A e \in Delivery \ {d} : pc'[e] = pc[e]
    BY <2>1 DEF PlacesOK, Place
  <2>3. PendingOK' /\ made' \in Nat /\ \A r \in wire' : r.n \in Nat
    BY <2>1, <2>2, RequestMade, ClientAssumption
  <2>4. WaitersOK'
    BY <2>1, <2>2, WaitersStay
  <2>5. QED
    BY <2>1, <2>2, <2>3, <2>4 DEF PlacesOK
<1>2. CASE Acquire(d) /\ Admissible
  BY <1>2, TurnStarted DEF Acquire
<1>3. CASE CountResumed(d)
  BY <1>3, TurnStarted DEF CountResumed
<1>4. CASE Acquire(d) /\ ~Admissible
  <2>1. /\ pc[d] = "answered" /\ pc' = [pc EXCEPT ![d] = "waiting"]
        /\ waiters' = Append(waiters, d)
        /\ UNCHANGED <<link, pending, made, wire, turn>>
    BY <1>4 DEF Acquire, At
  <2>2. PlacesOK'
    BY <2>1 DEF PlacesOK, Place
  <2>3. PendingOK'
    BY <2>1 DEF PendingOK, PlacesOK
  <2>4. WaitersOK'
    BY <2>1 DEF WaitersOK, PlacesOK
  <2>5. QED
    BY <2>2, <2>3, <2>4
<1>5. CASE Release(d) /\ waiters = <<>>
  <2>1. /\ pc[d] = "over" /\ pc' = [pc EXCEPT ![d] = "idle"] /\ waiters' = waiters
        /\ UNCHANGED <<link, pending, made, wire>> /\ turn' = [turn EXCEPT ![d] = NoTurn]
    BY <1>5 DEF Release, At
  <2>2. PlacesOK'
    BY <2>1 DEF PlacesOK, Place, Turn, NoTurn
  <2>3. PendingOK'
    BY <2>1 DEF PendingOK, PlacesOK
  <2>4. WaitersOK'
    BY <2>1, WaitersStay DEF PlacesOK
  <2>5. QED
    BY <2>2, <2>3, <2>4
<1>6. CASE Release(d) /\ waiters # <<>>
  <2>1. /\ pc[d] = "over" /\ waiters' = Tail(waiters)
        /\ pc' = [pc EXCEPT ![d] = "idle", ![Head(waiters)] = "resumed"]
        /\ UNCHANGED <<link, pending, made, wire>> /\ turn' = [turn EXCEPT ![d] = NoTurn]
    BY <1>6 DEF Release
  <2>2. Head(waiters) \in Delivery /\ pc[Head(waiters)] = "waiting"
    BY <1>6 DEF WaitersOK
  <2>3. PlacesOK'
    BY <2>1, <2>2 DEF PlacesOK, Place, Ready, Turn, NoTurn
  <2>4. PendingOK'
    BY <2>1, <2>2 DEF PendingOK, PlacesOK
  <2>5. WaitersOK'
    <3>1. /\ waiters' \in Seq(Delivery) /\ Len(waiters') = Len(waiters) - 1
          /\ \A i \in DOMAIN waiters' : waiters'[i] = waiters[i + 1] /\ i + 1 \in DOMAIN waiters
          /\ \A i \in DOMAIN waiters' : i \in Nat
      BY <1>6, <2>1 DEF WaitersOK
    <3>2. \A i \in DOMAIN waiters' : waiters'[i] # Head(waiters) /\ waiters'[i] # d
      BY <1>6, <2>1, <3>1 DEF WaitersOK
    <3>3. \A i, j \in DOMAIN waiters' : waiters'[i] = waiters'[j] => i = j
      BY <3>1 DEF WaitersOK
    <3>4. QED
      BY <2>1, <2>2, <3>1, <3>2, <3>3 DEF WaitersOK, PlacesOK
  <2>6. QED
    BY <2>3, <2>4, <2>5
<1>7. QED
  BY <1>1, <1>2, <1>3, <1>4, <1>5, <1>6

-----------------------------------------------------------------------------
(* Permits.                                                                    *)

Resumed == {d \in Delivery : pc[d] = "resumed"}

LEMMA HoldersFinite ==
  /\ MaxConcurrent \in Nat
  /\ IsFiniteSet(Admitted) /\ IsFiniteSet(Resumed)
  /\ Cardinality(Admitted) \in Nat /\ Cardinality(Resumed) \in Nat
<1>1. Admitted \in SUBSET Delivery /\ Resumed \in SUBSET Delivery
  BY DEF Admitted, Resumed
<1>2. MaxConcurrent \in Nat
  BY ClientAssumption
<1>3. QED
  BY <1>1, <1>2, ClientAssumption, FS_Subset, FS_CardinalityType

(* Permits are left alone as long as nobody comes to hold one or loses it.     *)
LEMMA PermitsStay ==
  ASSUME PermitInvariant, UNCHANGED <<active, overtaken>>,
         Admitted' = Admitted, Resumed' = Resumed
  PROVE  PermitInvariant'
BY DEF PermitInvariant, Counters, PermitsBounded, Resumed

LEMMA PermitsStayOnMove ==
  ASSUME PermitInvariant, UNCHANGED <<active, overtaken>>, pc \in [Delivery -> Place],
         NEW d \in Delivery, NEW place, pc' = [pc EXCEPT ![d] = place],
         d \in Admitted <=> place \in {"starting", "started", "collecting", "over"},
         pc[d] # "resumed", place # "resumed"
  PROVE  PermitInvariant'
<1>1. Admitted' = Admitted /\ Resumed' = Resumed
  BY DEF Admitted, Resumed
<1>2. QED
  BY <1>1, PermitsStay

LEMMA PermitsStayOnFail ==
  ASSUME PermitInvariant, UNCHANGED <<active, overtaken>>, NEW who, Fail(who)
  PROVE  PermitInvariant'
<1>1. Admitted' = Admitted /\ Resumed' = Resumed
  BY DEF Admitted, Resumed, Fail
<1>2. QED
  BY <1>1, PermitsStay

LEMMA PermitTaken ==
  ASSUME PermitInvariant, pc \in [Delivery -> Place], NEW d \in Delivery,
         pc[d] = "answered", active < MaxConcurrent, active' = active + 1,
         overtaken' = IF \E e \in Delivery : pc[e] = "resumed" THEN overtaken + 1 ELSE overtaken,
         StartTurn(d)
  PROVE  PermitInvariant'
<1>1. pc' = [pc EXCEPT ![d] = "starting"] \/ pc' = [pc EXCEPT ![d] = "over"]
  BY DEF StartTurn, At
<1>2. Admitted' = Admitted \cup {d} /\ d \notin Admitted /\ Resumed' = Resumed
  BY <1>1 DEF Admitted, Resumed
<1>3. Cardinality(Admitted') = Cardinality(Admitted) + 1
  BY <1>2, HoldersFinite, FS_AddElement
<1>4. CASE Resumed = {}
  <2>1. Cardinality(Resumed) = 0 /\ overtaken' = overtaken
    BY <1>4, FS_EmptySet DEF Resumed
  <2>2. QED
    BY <1>2, <1>3, <2>1, HoldersFinite DEF PermitInvariant, Counters, PermitsBounded, Resumed
<1>5. CASE Resumed # {}
  <2>1. overtaken' = overtaken + 1
    BY <1>5 DEF Resumed
  <2>2. QED
    BY <1>2, <1>3, <2>1, HoldersFinite
       DEF PermitInvariant, Counters, PermitsBounded, Resumed
<1>6. QED
  BY <1>4, <1>5

LEMMA PermitCounted ==
  ASSUME PermitInvariant, pc \in [Delivery -> Place], NEW d \in Delivery,
         pc[d] = "resumed", active' = active + 1, overtaken' = overtaken, StartTurn(d)
  PROVE  PermitInvariant'
<1>1. pc' = [pc EXCEPT ![d] = "starting"] \/ pc' = [pc EXCEPT ![d] = "over"]
  BY DEF StartTurn, At
<1>2. Admitted' = Admitted \cup {d} /\ d \notin Admitted /\ Resumed' = Resumed \ {d} /\ d \in Resumed
  BY <1>1 DEF Admitted, Resumed
<1>3. /\ Cardinality(Admitted') = Cardinality(Admitted) + 1
      /\ Cardinality(Resumed') = Cardinality(Resumed) - 1
  BY <1>2, HoldersFinite, FS_AddElement, FS_RemoveElement
<1>4. QED
  BY <1>3, HoldersFinite DEF PermitInvariant, Counters, PermitsBounded, Resumed

LEMMA PermitReleased ==
  ASSUME PermitInvariant, CallsInvariant, NEW d \in Delivery, Release(d)
  PROVE  PermitInvariant'
<1>1. pc[d] = "over" /\ active' = active - 1 /\ overtaken' = overtaken /\ pc \in [Delivery -> Place]
  BY DEF Release, CallsInvariant, PlacesOK
<1>2. d \in Admitted
  BY <1>1 DEF Admitted
<1>3. Cardinality(Admitted \ {d}) = Cardinality(Admitted) - 1 /\ Cardinality(Admitted \ {d}) \in Nat
  BY <1>2, HoldersFinite, FS_RemoveElement, FS_CardinalityType
<1>4. CASE waiters = <<>>
  <2>1. pc' = [pc EXCEPT ![d] = "idle"]
    BY <1>4 DEF Release, At
  <2>2. Admitted' = Admitted \ {d} /\ Resumed' = Resumed
    BY <1>1, <2>1 DEF Admitted, Resumed
  <2>3. QED
    BY <1>1, <1>3, <2>2, HoldersFinite
       DEF PermitInvariant, Counters, PermitsBounded, Resumed
<1>5. CASE waiters # <<>>
  <2> DEFINE first == Head(waiters)
  <2>1. pc' = [pc EXCEPT ![d] = "idle", ![first] = "resumed"]
    BY <1>5 DEF Release
  <2>2. first \in Delivery /\ pc[first] = "waiting"
    BY <1>5 DEF CallsInvariant, WaitersOK
  <2>3. Admitted' = Admitted \ {d} /\ Resumed' = Resumed \cup {first} /\ first \notin Resumed
    BY <1>1, <2>1, <2>2 DEF Admitted, Resumed
  <2>4. Cardinality(Resumed') = Cardinality(Resumed) + 1
    BY <2>3, HoldersFinite, FS_AddElement
  <2>5. QED
    BY <1>1, <1>3, <2>3, <2>4, HoldersFinite
       DEF PermitInvariant, Counters, PermitsBounded, Resumed
<1>6. QED
  BY <1>4, <1>5

-----------------------------------------------------------------------------
(* Events.                                                                     *)

(* What a delivery that starts a turn would find in the history, and what a    *)
(* collector has; EventInvariant says so of all of them.                       *)
ReplayFits(d) ==
  /\ turn[d].asked \in DOMAIN turns
  /\ turn[d].checkpoint <= sequence
  /\ sequence - turn[d].checkpoint <= HistoryLimit =>
       /\ turns[turn[d].asked].items = Cardinality(Since(d, turn[d].asked, "item"))
       /\ turns[turn[d].asked].ended = (Since(d, turn[d].asked, "end") # {})

CollectedFits(d) ==
  ~turn[d].lossy /\ turn[d].n = turn[d].asked =>
    /\ turn[d].n \in DOMAIN turns
    /\ turn[d].items = turns[turn[d].n].items
    /\ turn[d].ended = turns[turn[d].n].ended

LEMMA EventsByDelivery ==
  EventInvariant <=> /\ HistoryOK
                     /\ \A d \in Delivery : pc[d] \in {"starting", "started"} => ReplayFits(d)
                     /\ \A d \in Delivery : pc[d] = "collecting" => CollectedFits(d)
BY Zenon DEF EventInvariant, ReplayOK, CollectedOK, NothingMissed, ReplayFits, CollectedFits

LEMMA EventsByDeliveryNext ==
  ASSUME HistoryOK',
         \A d \in Delivery : pc'[d] \in {"starting", "started"} => ReplayFits(d)',
         \A d \in Delivery : pc'[d] = "collecting" => CollectedFits(d)'
  PROVE  EventInvariant'
BY Zenon DEF EventInvariant, ReplayOK, CollectedOK, NothingMissed, ReplayFits, CollectedFits

(* No event comes, no turn is started, and no replay done.                     *)
LEMMA EventsStay ==
  ASSUME EventInvariant, UNCHANGED <<turns, sequence, history>>,
         made \in Nat, made' \in Nat, made <= made',
         \A d \in Delivery : pc'[d] \in {"starting", "started"} =>
           /\ pc[d] \in {"starting", "started"}
           /\ turn'[d].asked = turn[d].asked /\ turn'[d].checkpoint = turn[d].checkpoint,
         \A d \in Delivery : pc'[d] = "collecting" => pc[d] = "collecting" /\ turn'[d] = turn[d]
  PROVE  EventInvariant'
<1>1. HistoryOK'
  BY EventsByDelivery DEF HistoryOK
<1>2. ASSUME NEW d \in Delivery, pc'[d] \in {"starting", "started"}
      PROVE  ReplayFits(d)'
  <2>1. ReplayFits(d) /\ turn'[d].asked = turn[d].asked /\ turn'[d].checkpoint = turn[d].checkpoint
    BY <1>2, EventsByDelivery
  <2>2. QED
    BY <2>1 DEF ReplayFits, Since
<1>3. ASSUME NEW d \in Delivery, pc'[d] = "collecting"
      PROVE  CollectedFits(d)'
  <2>1. CollectedFits(d) /\ turn'[d] = turn[d]
    BY <1>3, EventsByDelivery
  <2>2. QED
    BY <2>1 DEF CollectedFits
<1>4. QED
  BY <1>1, <1>2, <1>3, EventsByDeliveryNext

(* A turn is started: nothing has been received of it.                         *)
LEMMA EventsOnStart ==
  ASSUME EventInvariant, CallsInvariant, NEW d \in Delivery, StartTurn(d)
  PROVE  EventInvariant'
<1> USE DEF requests
<1>1. HistoryOK /\ made \in Nat /\ turn \in [Delivery -> Turn] /\ pc \in [Delivery -> Place]
  BY DEF EventInvariant, CallsInvariant, PlacesOK
<1>2. /\ UNCHANGED <<sequence, history>>
      /\ turn' = [turn EXCEPT ![d].asked = made', ![d].checkpoint = sequence]
      /\ pc' = [pc EXCEPT ![d] = IF link = "ready" THEN "starting" ELSE "over"]
  BY DEF StartTurn, At
<1>3. \A n \in DOMAIN turns : n \in DOMAIN turns' /\ turns'[n] = turns[n]
  BY DEF StartTurn
<1>4. HistoryOK'
  <2>1. turns' \in [DOMAIN turns' -> [items : Nat, ended : BOOLEAN]] /\ DOMAIN turns' \subseteq 1 .. made'
    <3>1. CASE link = "ready"
      <4>1. /\ made' = made + 1
            /\ turns' = [n \in DOMAIN turns \cup {made + 1} |->
                          IF n \in DOMAIN turns THEN turns[n] ELSE [items |-> 0, ended |-> FALSE]]
        BY <3>1 DEF StartTurn, Request
      <4>2. \A n \in DOMAIN turns : turns[n] \in [items : Nat, ended : BOOLEAN]
        BY <1>1 DEF HistoryOK
      <4>3. QED
        BY <1>1, <4>1, <4>2 DEF HistoryOK
    <3>2. CASE link # "ready"
      BY <1>1, <3>2 DEF StartTurn, HistoryOK
    <3>3. QED
      BY <3>1, <3>2
  <2>2. QED
    BY <1>1, <1>2, <2>1 DEF HistoryOK
<1>5. ASSUME pc'[d] = "starting"
      PROVE  ReplayFits(d)'
  <2>1. link = "ready" /\ made' = made + 1 /\ made + 1 \notin DOMAIN turns
    BY <1>1, <1>2, <1>5 DEF StartTurn, Request, HistoryOK
  <2>2. made' \in DOMAIN turns' /\ turns'[made'] = [items |-> 0, ended |-> FALSE]
    BY <2>1 DEF StartTurn
  <2>3. turn'[d].asked = made' /\ turn'[d].checkpoint = sequence
    BY <1>1, <1>2 DEF Turn
  <2>4. \A kind : Since(d, turn[d].asked, kind)' = {}
    BY <1>1, <1>2, <2>3 DEF Since, Range, HistoryOK
  <2>5. Cardinality({}) = 0
    BY FS_EmptySet
  <2>6. /\ sequence' = sequence /\ sequence \in Nat
        /\ turn'[d].asked \in DOMAIN turns' /\ turn'[d].checkpoint <= sequence'
        /\ turns'[turn'[d].asked].items = 0 /\ turns'[turn'[d].asked].ended = FALSE
    BY <1>1, <1>2, <2>2, <2>3 DEF HistoryOK
  <2>7. /\ Cardinality(Since(d, turn[d].asked, "item")') = 0
        /\ Since(d, turn[d].asked, "end")' = {}
    BY <2>4, <2>5, Zenon
  <2>8. QED
    BY <2>6, <2>7, Zenon DEF ReplayFits
<1>6. ASSUME NEW e \in Delivery, pc'[e] \in {"starting", "started"}
      PROVE  ReplayFits(e)'
  <2>1. CASE e = d
    BY <1>1, <1>2, <1>5, <1>6, <2>1
  <2>2. CASE e # d
    <3>1. ReplayFits(e) /\ turn'[e] = turn[e]
      BY <1>1, <1>2, <1>6, <2>2, EventsByDelivery
    <3>2. QED
      BY <1>2, <1>3, <3>1 DEF ReplayFits, Since
  <2>3. QED
    BY <2>1, <2>2
<1>7. ASSUME NEW e \in Delivery, pc'[e] = "collecting"
      PROVE  CollectedFits(e)'
  <2>1. CollectedFits(e) /\ turn'[e] = turn[e]
    BY <1>1, <1>2, <1>7, EventsByDelivery
  <2>2. QED
    BY <1>3, <2>1 DEF CollectedFits
<1>8. QED
  BY <1>4, <1>6, <1>7, EventsByDeliveryNext

(* The replay.                                                                 *)
LEMMA EventsOnCollect ==
  ASSUME EventInvariant, CallsInvariant, NEW d \in Delivery, Collect(d)
  PROVE  EventInvariant'
<1>1. HistoryOK /\ turn \in [Delivery -> Turn] /\ pc \in [Delivery -> Place]
  BY DEF EventInvariant, CallsInvariant, PlacesOK
<1>2. /\ UNCHANGED <<turns, sequence, history, made>> /\ pc[d] = "started"
      /\ pc' = [pc EXCEPT ![d] = "collecting"]
  BY DEF Collect, At, events, requests
<1>3. HistoryOK'
  BY <1>1, <1>2 DEF HistoryOK
<1>4. \A e \in Delivery \ {d} : turn'[e] = turn[e] /\ pc'[e] = pc[e]
  BY <1>1, <1>2 DEF Collect
<1>5. ReplayFits(d)
  BY <1>2, EventsByDelivery
<1>6. /\ turn'[d].items = Cardinality(Since(d, turn[d].n, "item"))
      /\ turn'[d].ended = (Since(d, turn[d].n, "end") # {})
      /\ turn'[d].lossy = (sequence - turn[d].checkpoint > HistoryLimit)
      /\ turn'[d].n = turn[d].n /\ turn'[d].asked = turn[d].asked
  <2> DEFINE items == Cardinality(Since(d, turn[d].n, "item"))
             ended == Since(d, turn[d].n, "end") # {}
             lossy == sequence - turn[d].checkpoint > HistoryLimit
  <2>1. turn' = [turn EXCEPT ![d].items = items, ![d].ended = ended, ![d].lossy = lossy]
    BY DEF Collect
  <2> HIDE DEF items, ended, lossy
  <2>2. /\ turn'[d].items = items /\ turn'[d].ended = ended /\ turn'[d].lossy = lossy
        /\ turn'[d].n = turn[d].n /\ turn'[d].asked = turn[d].asked
    BY <1>1, <2>1 DEF Turn
  <2>3. QED
    BY <2>2, Zenon DEF items, ended, lossy
<1>7. CollectedFits(d)'
  <2> SUFFICES ASSUME ~turn'[d].lossy, turn'[d].n = turn'[d].asked
               PROVE  /\ turn'[d].n \in DOMAIN turns'
                      /\ turn'[d].items = turns'[turn'[d].n].items
                      /\ turn'[d].ended = turns'[turn'[d].n].ended
    BY DEF CollectedFits
  <2>1. sequence - turn[d].checkpoint <= HistoryLimit
    <3>1. sequence \in Nat /\ turn[d].checkpoint \in Nat /\ HistoryLimit \in Nat
      BY <1>1, ClientAssumption DEF HistoryOK, Turn
    <3>2. ~(sequence - turn[d].checkpoint > HistoryLimit)
      BY <1>6
    <3>3. QED
      BY <3>1, <3>2
  <2>2. turn[d].n = turn[d].asked
    BY <1>6
  <2>3. /\ turns[turn[d].n].items = Cardinality(Since(d, turn[d].n, "item"))
        /\ turns[turn[d].n].ended = (Since(d, turn[d].n, "end") # {})
        /\ turn[d].n \in DOMAIN turns
    BY <1>5, <2>1, <2>2, Zenon DEF ReplayFits
  <2>4. turns' = turns
    BY <1>2
  <2>5. QED
    BY <1>6, <2>3, <2>4, Zenon
<1>8. ASSUME NEW e \in Delivery, pc'[e] \in {"starting", "started"}
      PROVE  ReplayFits(e)'
  <2>1. e # d
    BY <1>1, <1>2, <1>8
  <2>2. ReplayFits(e) /\ turn'[e] = turn[e]
    BY <1>4, <1>8, <2>1, EventsByDelivery
  <2>3. QED
    BY <1>2, <2>2 DEF ReplayFits, Since
<1>9. ASSUME NEW e \in Delivery, pc'[e] = "collecting"
      PROVE  CollectedFits(e)'
  <2>1. CASE e = d
    BY <1>7, <2>1
  <2>2. CASE e # d
    <3>1. CollectedFits(e) /\ turn'[e] = turn[e]
      BY <1>4, <1>9, <2>2, EventsByDelivery
    <3>2. QED
      BY <1>2, <3>1 DEF CollectedFits
  <2>3. QED
    BY <2>1, <2>2
<1>10. QED
  BY <1>3, <1>8, <1>9, EventsByDeliveryNext

(* The history takes an event; the one it drops is too old for a replay that   *)
(* is not lossy.                                                               *)
Events == [number : Nat, n : Nat, kind : {"item", "end"}]

LEMMA HistoryGrows ==
  ASSUME HistoryOK, NEW n \in Nat, NEW kind \in {"item", "end"}, Dispatch(n, kind)
  PROVE  LET new == [number |-> sequence + 1, n |-> n, kind |-> kind] IN
         /\ sequence' = sequence + 1
         /\ history' \in Seq(Events) /\ Len(history') <= HistoryLimit
         /\ \A i \in DOMAIN history' : history'[i].number = sequence' - Len(history') + i
         /\ new \notin Range(history)
         /\ \A c \in Nat : c <= sequence /\ sequence' - c <= HistoryLimit =>
              \A e : (e \in Range(history') /\ e.number > c)
                       <=> (e \in Range(history) /\ e.number > c) \/ e = new
<1> DEFINE new == [number |-> sequence + 1, n |-> n, kind |-> kind]
           h == Append(history, new)
<1>1. /\ sequence \in Nat /\ history \in Seq(Events) /\ Len(history) \in Nat /\ HistoryLimit \in Nat \ {0}
      /\ Len(history) <= HistoryLimit
      /\ \A i \in 1 .. Len(history) : history[i].number = sequence - Len(history) + i
  <2>1. HistoryLimit \in Nat \ {0}
    BY ClientAssumption
  <2>2. sequence \in Nat /\ history \in Seq(Events) /\ Len(history) <= HistoryLimit
    BY DEF HistoryOK, Events
  <2>3. Len(history) \in Nat /\ DOMAIN history = 1 .. Len(history)
    BY <2>2
  <2>4. QED
    BY <2>1, <2>2, <2>3 DEF HistoryOK
<1>2. new \in Events /\ new.number = sequence + 1
  BY <1>1 DEF Events
<1>3. sequence' = sequence + 1 /\ history' = IF Len(h) > HistoryLimit THEN Tail(h) ELSE h
  BY DEF Dispatch
<1>4. \A e \in Range(history) : e.number <= sequence
  BY <1>1 DEF Range
<1> HIDE DEF new
<1>5. /\ h \in Seq(Events) /\ Len(h) = Len(history) + 1
      /\ \A i \in 1 .. Len(history) : h[i] = history[i]
      /\ h[Len(history) + 1] = new
  BY <1>1, <1>2
<1>6. \A i \in 1 .. Len(h) : h[i].number = sequence + 1 - Len(h) + i
  BY <1>1, <1>2, <1>5
<1> HIDE DEF h
<1>7. \A e : e \in Range(h) <=> e \in Range(history) \/ e = new
  <2>1. /\ DOMAIN h = 1 .. Len(h) /\ DOMAIN history = 1 .. Len(history)
        /\ \A i \in 1 .. Len(h) : i \in 1 .. Len(history) \/ i = Len(history) + 1
        /\ \A i \in 1 .. Len(history) : i \in 1 .. Len(h)
        /\ Len(history) + 1 \in 1 .. Len(h)
    BY <1>1, <1>5
  <2>2. QED
    BY <1>5, <2>1, Zenon DEF Range
<1>8. new \notin Range(history)
  BY <1>1, <1>2, <1>4
<1>9. CASE Len(h) <= HistoryLimit
  <2>1. history' = h
    BY <1>1, <1>3, <1>5, <1>9
  <2>2. \A c \in Nat : c <= sequence => new.number > c
    BY <1>1, <1>2
  <2>3. \A i \in DOMAIN history' : history'[i].number = sequence' - Len(history') + i
    <3>1. DOMAIN h = 1 .. Len(h) /\ \A i \in 1 .. Len(h) : h[i].number = sequence' - Len(h) + i
      BY <1>1, <1>3, <1>5, <1>6
    <3>2. QED
      BY <2>1, <3>1, Zenon
  <2>4. ASSUME NEW c \in Nat, c <= sequence, NEW e
        PROVE  (e \in Range(history') /\ e.number > c)
                 <=> (e \in Range(history) /\ e.number > c) \/ e = new
    BY <1>7, <2>1, <2>2, <2>4, Zenon
  <2>5. QED
    BY <1>3, <1>5, <1>8, <1>9, <2>1, <2>3, <2>4, Zenon DEF new
<1>10. CASE Len(h) > HistoryLimit
  <2>1. /\ history' = Tail(h) /\ h # <<>> /\ Len(h) = HistoryLimit + 1
    BY <1>1, <1>3, <1>5, <1>10
  <2>2. /\ history' \in Seq(Events) /\ Len(history') = Len(h) - 1
        /\ \A i \in 1 .. Len(history') : history'[i] = h[i + 1]
    BY <1>5, <2>1
  <2>3. \A i \in DOMAIN history' : history'[i].number = sequence' - Len(history') + i
    <3>1. DOMAIN history' = 1 .. Len(history') /\ Len(h) \in Nat /\ \A i \in 1 .. Len(history') : i + 1 \in 1 .. Len(h)
      BY <1>1, <1>5, <2>2
    <3>2. \A i \in 1 .. Len(history') : history'[i].number = sequence + 1 - Len(h) + (i + 1)
      BY <1>6, <2>2, <3>1
    <3>3. QED
      <4>1. \A i \in 1 .. Len(history') : sequence + 1 - Len(h) + (i + 1) = sequence' - Len(history') + i
        <5>1. sequence \in Nat /\ sequence' = sequence + 1
          BY <1>1, <1>3, Zenon
        <5>2. Len(h) \in Nat /\ Len(history') = Len(h) - 1
          BY <2>2, <3>1
        <5>3. QED
          BY <5>1, <5>2
      <4>2. QED
        BY <3>1, <3>2, <4>1, Zenon
  <2>4. \A e : e \in Range(h) <=> e \in Range(history') \/ e = h[1]
    <3>1. ASSUME NEW i \in 1 .. Len(h), i # 1
          PROVE  i - 1 \in 1 .. Len(history') /\ h[i] = history'[i - 1]
      <4>1. Len(h) \in Nat /\ i \in Nat /\ i - 1 \in 1 .. Len(history') /\ (i - 1) + 1 = i
        BY <1>1, <1>5, <2>2, <3>1
      <4>2. QED
        BY <2>2, <4>1
    <3>2. \A i \in 1 .. Len(history') : i + 1 \in 1 .. Len(h)
      BY <1>1, <1>5, <2>2
    <3>3. 1 \in 1 .. Len(h) /\ DOMAIN h = 1 .. Len(h) /\ DOMAIN history' = 1 .. Len(history')
      BY <1>1, <1>5, <2>1, <2>2
    <3>4. ASSUME NEW e, e \in Range(h)
          PROVE  e \in Range(history') \/ e = h[1]
      <4>1. PICK i \in 1 .. Len(h) : e = h[i]
        BY <3>3, <3>4, Zenon DEF Range
      <4>2. QED
        BY <3>1, <3>3, <4>1, Zenon DEF Range
    <3>5. ASSUME NEW e, e \in Range(history') \/ e = h[1]
          PROVE  e \in Range(h)
      <4>1. CASE e = h[1]
        BY <3>3, <4>1, Zenon DEF Range
      <4>2. CASE e \in Range(history')
        <5>1. PICK i \in 1 .. Len(history') : e = history'[i]
          BY <3>3, <4>2, Zenon DEF Range
        <5>2. QED
          BY <2>2, <3>2, <3>3, <5>1, Zenon DEF Range
      <4>3. QED
        BY <3>5, <4>1, <4>2
    <3>6. QED
      BY <3>4, <3>5, Zenon
  <2>5. h[1].number = sequence + 1 - HistoryLimit
    BY <1>1, <1>6, <2>1
  <2>6. \A c \in Nat : sequence' - c <= HistoryLimit => ~(h[1].number > c)
    BY <1>1, <1>3, <2>5
  <2>7. \A c \in Nat : c <= sequence => new.number > c
    BY <1>1, <1>2
  <2>8. ASSUME NEW c \in Nat, c <= sequence, sequence' - c <= HistoryLimit, NEW e
        PROVE  (e \in Range(history') /\ e.number > c)
                 <=> (e \in Range(history) /\ e.number > c) \/ e = new
    <3>1. ~(h[1].number > c) /\ new.number > c
      BY <2>6, <2>7, <2>8
    <3>2. QED
      BY <1>7, <2>4, <3>1, Zenon
  <2>9. QED
    <3>1. Len(history') <= HistoryLimit
      BY <1>1, <2>1, <2>2
    <3>2. QED
      BY <1>3, <1>8, <2>2, <2>3, <2>8, <3>1, Zenon DEF new
<1>11. QED
  BY <1>1, <1>5, <1>9, <1>10

(* An event comes: a collector takes it, and a replay would find it.           *)
LEMMA EventsOnDispatch ==
  ASSUME EventInvariant, CallsInvariant, NEW n \in DOMAIN turns, NEW kind \in {"item", "end"},
         Dispatch(n, kind), pc' = pc, made' = made,
         turns' = IF kind = "item" THEN [turns EXCEPT ![n].items = @ + 1]
                                   ELSE [turns EXCEPT ![n].ended = TRUE]
  PROVE  EventInvariant'
<1> DEFINE new == [number |-> sequence + 1, n |-> n, kind |-> kind]
           Row == [items : Nat, ended : BOOLEAN]
<1>1. HistoryOK /\ made \in Nat /\ turn \in [Delivery -> Turn] /\ pc \in [Delivery -> Place]
  BY DEF EventInvariant, CallsInvariant, PlacesOK
<1>2. n \in Nat /\ sequence \in Nat /\ turns \in [DOMAIN turns -> Row] /\ HistoryLimit \in Nat
  BY <1>1, ClientAssumption DEF HistoryOK
<1>3. /\ sequence' = sequence + 1
      /\ history' \in Seq(Events) /\ Len(history') <= HistoryLimit
      /\ \A i \in DOMAIN history' : history'[i].number = sequence' - Len(history') + i
      /\ new \notin Range(history)
      /\ \A c \in Nat : c <= sequence /\ sequence' - c <= HistoryLimit =>
           \A e : (e \in Range(history') /\ e.number > c)
                    <=> (e \in Range(history) /\ e.number > c) \/ e = new
  BY <1>1, <1>2, HistoryGrows, Zenon
<1>4. /\ DOMAIN turns' = DOMAIN turns
      /\ \A a \in DOMAIN turns \ {n} : turns'[a] = turns[a]
      /\ turns[n] \in Row
      /\ kind = "item" => turns'[n].items = turns[n].items + 1 /\ turns'[n].ended = turns[n].ended
      /\ kind = "end" => turns'[n].items = turns[n].items /\ turns'[n].ended = TRUE
      /\ turns' \in [DOMAIN turns -> Row]
  <2>1. turns[n] \in Row /\ turns[n].items \in Nat /\ turns[n].ended \in BOOLEAN
    BY <1>2
  <2>2. CASE kind = "item"
    <3>1. turns' = [turns EXCEPT ![n] = [turns[n] EXCEPT !.items = turns[n].items + 1]] /\ kind # "end"
      BY <2>2
    <3>2. [turns[n] EXCEPT !.items = turns[n].items + 1] \in Row
      BY <2>1
    <3>3. QED
      BY <1>2, <2>1, <2>2, <3>1, <3>2
  <2>3. CASE kind = "end"
    <3>1. turns' = [turns EXCEPT ![n] = [turns[n] EXCEPT !.ended = TRUE]] /\ kind # "item"
      BY <2>3
    <3>2. [turns[n] EXCEPT !.ended = TRUE] \in Row
      BY <2>1
    <3>3. QED
      BY <1>2, <2>1, <2>3, <3>1, <3>2
  <2>4. QED
    BY <2>2, <2>3
<1>5. HistoryOK'
  BY <1>1, <1>2, <1>3, <1>4 DEF HistoryOK, Events
<1>6. ASSUME NEW d \in Delivery, pc[d] \in {"starting", "started"}
      PROVE  ReplayFits(d)'
  <2> DEFINE a == turn[d].asked
             c == turn[d].checkpoint
  <2>1. ReplayFits(d) /\ turn'[d] = turn[d] /\ a \in Nat /\ c \in Nat
    BY <1>1, <1>6, EventsByDelivery DEF Dispatch, Collects, Turn
  <2>2. a \in DOMAIN turns' /\ c <= sequence /\ c <= sequence'
    BY <1>2, <1>3, <1>4, <2>1 DEF ReplayFits
  <2>3. ASSUME sequence' - c <= HistoryLimit
        PROVE  /\ turns'[a].items = Cardinality(Since(d, a, "item")')
               /\ turns'[a].ended = (Since(d, a, "end")' # {})
    <3>1. sequence - c <= HistoryLimit
      BY <1>2, <1>3, <2>1, <2>3
    <3>2. /\ turns[a].items = Cardinality(Since(d, a, "item"))
          /\ turns[a].ended = (Since(d, a, "end") # {})
      BY <2>1, <3>1, Zenon DEF ReplayFits
    <3>3. \A e : (e \in Range(history') /\ e.number > c)
                    <=> (e \in Range(history) /\ e.number > c) \/ e = new
      BY <1>3, <2>1, <2>2, <2>3, Zenon
    <3>4. new.n = n /\ new.kind = kind
      OBVIOUS
    <3> HIDE DEF new
    <3>5. ASSUME NEW k
          PROVE  Since(d, a, k)' = Since(d, a, k) \cup IF n = a /\ k = kind THEN {new} ELSE {}
      <4>1. \A e : e \in Since(d, a, k)' <=>
                     (e \in Range(history') /\ e.number > c) /\ e.n = a /\ e.kind = k
        BY <2>1 DEF Since
      <4>2. \A e : e \in Since(d, a, k) <=>
                     (e \in Range(history) /\ e.number > c) /\ e.n = a /\ e.kind = k
        BY DEF Since
      <4>3. QED
        BY <3>3, <3>4, <4>1, <4>2
    <3>6. CASE n # a
      <4>1. turns'[a] = turns[a]
        BY <1>4, <2>2, <3>6
      <4>2. /\ Since(d, a, "item")' = Since(d, a, "item")
            /\ Since(d, a, "end")' = Since(d, a, "end")
        BY <3>5, <3>6
      <4>3. QED
        BY <3>2, <4>1, <4>2, Zenon
    <3>7. CASE n = a /\ kind = "item"
      <4>1. /\ turns'[a].items = turns[a].items + 1 /\ turns'[a].ended = turns[a].ended
            /\ "item" # "end"
        BY <1>4, <3>7
      <4>2. /\ Since(d, a, "item")' = Since(d, a, "item") \cup {new}
            /\ Since(d, a, "end")' = Since(d, a, "end")
        BY <3>5, <3>7, <4>1
      <4>3. new \notin Since(d, a, "item")
        BY <1>3 DEF Since
      <4>4. Cardinality(Since(d, a, "item") \cup {new}) = Cardinality(Since(d, a, "item")) + 1
        BY <1>1, <4>3, SinceFinite, FS_AddElement
      <4>5. turns'[a].items = Cardinality(Since(d, a, "item")')
        BY <3>2, <4>1, <4>2, <4>4, Zenon
      <4>6. turns'[a].ended = (Since(d, a, "end")' # {})
        BY <3>2, <4>1, <4>2, Zenon
      <4>7. QED
        BY <4>5, <4>6
    <3>8. CASE n = a /\ kind = "end"
      <4>1. /\ turns'[a].items = turns[a].items /\ turns'[a].ended = TRUE
            /\ "item" # "end"
        BY <1>4, <3>8
      <4>2. /\ Since(d, a, "item")' = Since(d, a, "item")
            /\ Since(d, a, "end")' # {}
        BY <3>5, <3>8, <4>1
      <4>3. QED
        BY <3>2, <4>1, <4>2, Zenon
    <3>9. QED
      BY <3>6, <3>7, <3>8
  <2>4. /\ Since(d, turn[d].asked, "item")' = Since(d, a, "item")'
        /\ Since(d, turn[d].asked, "end")' = Since(d, a, "end")'
    BY <2>1 DEF Since
  <2>5. QED
    BY <2>1, <2>2, <2>3, <2>4, Zenon DEF ReplayFits
<1>7. ASSUME NEW d \in Delivery, pc[d] = "collecting"
      PROVE  CollectedFits(d)'
  <2>1. CollectedFits(d) /\ turn[d] \in Turn
    BY <1>1, <1>7, EventsByDelivery
  <2>2. CASE turn[d].n # n
    <3>1. turn'[d] = turn[d]
      BY <2>2 DEF Dispatch, Collects
    <3>2. QED
      BY <1>4, <2>1, <2>2, <3>1 DEF CollectedFits
  <2>3. CASE turn[d].n = n
    <3>1. /\ kind = "item" => turn'[d] = [turn[d] EXCEPT !.items = @ + 1]
          /\ kind = "end" => turn'[d] = [turn[d] EXCEPT !.ended = TRUE]
      BY <1>7, <2>3 DEF Dispatch, Collects
    <3>2. /\ turn'[d].lossy = turn[d].lossy /\ turn'[d].n = n /\ turn'[d].asked = turn[d].asked
          /\ kind = "item" => turn'[d].items = turn[d].items + 1 /\ turn'[d].ended = turn[d].ended
          /\ kind = "end" => turn'[d].items = turn[d].items /\ turn'[d].ended = TRUE
      BY <2>1, <2>3, <3>1 DEF Turn
    <3>3. SUFFICES ASSUME ~turn'[d].lossy, turn'[d].n = turn'[d].asked
                   PROVE  /\ n \in DOMAIN turns'
                          /\ turn'[d].items = turns'[n].items
                          /\ turn'[d].ended = turns'[n].ended
      BY <3>2, Zenon DEF CollectedFits
    <3>4. turn[d].items = turns[n].items /\ turn[d].ended = turns[n].ended
      BY <2>1, <2>3, <3>2, <3>3, Zenon DEF CollectedFits
    <3>5. QED
      BY <1>4, <3>2, <3>4, Zenon
  <2>4. QED
    BY <2>2, <2>3
<1>8. QED
  BY <1>5, <1>6, <1>7, EventsByDeliveryNext

-----------------------------------------------------------------------------
(* Every step keeps the invariant.                                             *)

LEMMA RequestStepInvariant ==
  ASSUME ClientInvariant, OpenFails \/ Open \/ Disconnect \/ HandshakeTimesOut
  PROVE  ClientInvariant'
<1> USE DEF connection, requests, events, permits
<1>1. CallsInvariant /\ PermitInvariant /\ EventInvariant /\ CallsInvariant'
  BY ConnectionStep DEF ClientInvariant
<1>2. /\ UNCHANGED <<turn, turns, sequence, history, active, overtaken>>
      /\ made \in Nat /\ made' \in Nat /\ made <= made'
      /\ pc' = pc \/ Fail({pending[i].who : i \in DOMAIN pending})
  <2>1. made \in Nat /\ made' \in Nat
    BY <1>1 DEF CallsInvariant, PlacesOK
  <2>2. made' = made \/ made' = made + 1
    BY DEF OpenFails, Open, Disconnect, HandshakeTimesOut, Request
  <2>3. QED
    BY <2>1, <2>2 DEF OpenFails, Open, Disconnect, HandshakeTimesOut
<1>3. PermitInvariant'
  <2>1. CASE pc' = pc
    BY <1>1, <1>2, <2>1, PermitsStay DEF Admitted, Resumed
  <2>2. CASE Fail({pending[i].who : i \in DOMAIN pending})
    BY <1>1, <1>2, <2>2, PermitsStayOnFail
  <2>3. QED
    BY <1>2, <2>1, <2>2
<1>4. \A d \in Delivery : pc'[d] \in {"starting", "started", "collecting"} => pc'[d] = pc[d]
  BY <1>2 DEF Fail
<1>5. EventInvariant'
  BY <1>1, <1>2, <1>4, EventsStay
<1>6. QED
  BY <1>1, <1>3, <1>5 DEF ClientInvariant

LEMMA AnswerStepInvariant ==
  ASSUME ClientInvariant, NEW r \in wire,
         (\E ok \in BOOLEAN : Answer(r, ok)) \/ Refused(r) \/ OrphanResponse(r)
  PROVE  ClientInvariant'
<1> USE DEF connection, requests, events, permits
<1>1. CallsInvariant /\ PermitInvariant /\ EventInvariant /\ CallsInvariant'
  BY AnswerStep DEF ClientInvariant
<1> DEFINE who == pending[r.id].who
<1>2. /\ UNCHANGED <<turns, sequence, history, active, overtaken, made>>
      /\ made \in Nat /\ pc \in [Delivery -> Place] /\ turn \in [Delivery -> Turn]
  BY <1>1 DEF CallsInvariant, PlacesOK, Answer, Refused, OrphanResponse
<1>3. \/ pc' = pc /\ turn' = turn
      \/ Fail({who}) /\ turn' = turn
      \/ /\ who \in Delivery /\ pc[who] = "asking" /\ turn' = turn
         /\ pc' = [pc EXCEPT ![who] = "answered"]
      \/ /\ who \in Delivery /\ pc[who] = "starting" /\ turn' = [turn EXCEPT ![who].n = r.n]
         /\ pc' = [pc EXCEPT ![who] = "started"]
  BY <1>1 DEF Answer, Refused, OrphanResponse, At, CallsInvariant, PendingOK
<1>4. PermitInvariant'
  <2>1. CASE pc' = pc
    BY <1>1, <1>2, <2>1, PermitsStay DEF Admitted, Resumed
  <2>2. CASE Fail({who})
    BY <1>1, <1>2, <2>2, PermitsStayOnFail
  <2>3. CASE who \in Delivery /\ pc[who] = "asking" /\ pc' = [pc EXCEPT ![who] = "answered"]
    BY <1>1, <1>2, <2>3, PermitsStayOnMove DEF Admitted
  <2>4. CASE who \in Delivery /\ pc[who] = "starting" /\ pc' = [pc EXCEPT ![who] = "started"]
    BY <1>1, <1>2, <2>4, PermitsStayOnMove DEF Admitted
  <2>5. QED
    BY <1>3, <2>1, <2>2, <2>3, <2>4
<1>5. /\ \A d \in Delivery : pc'[d] \in {"starting", "started"} =>
           /\ pc[d] \in {"starting", "started"}
           /\ turn'[d].asked = turn[d].asked /\ turn'[d].checkpoint = turn[d].checkpoint
      /\ \A d \in Delivery : pc'[d] = "collecting" => pc[d] = "collecting" /\ turn'[d] = turn[d]
  BY <1>2, <1>3 DEF Fail, Turn
<1>6. EventInvariant'
  BY <1>1, <1>2, <1>5, EventsStay
<1>7. QED
  BY <1>1, <1>4, <1>6 DEF ClientInvariant

LEMMA DispatchStepInvariant ==
  ASSUME ClientInvariant, NEW n \in DOMAIN turns, ItemCompleted(n) \/ TurnCompleted(n)
  PROVE  ClientInvariant'
<1> USE DEF connection, requests, events, permits
<1>1. CallsInvariant /\ PermitInvariant /\ EventInvariant
  BY DEF ClientInvariant
<1>2. UNCHANGED <<link, failures, nextId, pending, made, wire, pc, active, waiters, overtaken>>
  BY DEF ItemCompleted, TurnCompleted
<1>3. EventInvariant'
  BY <1>1, <1>2, EventsOnDispatch DEF ItemCompleted, TurnCompleted
<1>4. PermitInvariant'
  BY <1>1, <1>2, PermitsStay DEF Admitted, Resumed
<1>5. turn' \in [Delivery -> Turn]
  <2>1. \A d \in Delivery : turn[d] \in Turn
    BY <1>1 DEF CallsInvariant, PlacesOK
  <2>2. ASSUME NEW d \in Delivery
        PROVE  [turn[d] EXCEPT !.items = @ + 1] \in Turn /\ [turn[d] EXCEPT !.ended = TRUE] \in Turn
    <3>1. turn[d] \in Turn /\ turn[d].items + 1 \in Nat
      BY <2>1 DEF Turn
    <3>2. [turn[d] EXCEPT !.items = turn[d].items + 1] \in Turn
      BY <3>1 DEF Turn
    <3>3. [turn[d] EXCEPT !.ended = TRUE] \in Turn
      BY <3>1 DEF Turn
    <3>4. QED
      BY <3>2, <3>3
  <2>3. QED
    BY <2>1, <2>2 DEF ItemCompleted, TurnCompleted, Dispatch
<1>6. CallsInvariant'
  BY <1>1, <1>2, <1>5 DEF CallsInvariant, PlacesOK, PendingOK, WaitersOK
<1>7. QED
  BY <1>3, <1>4, <1>6 DEF ClientInvariant

LEMMA DeliveryStepInvariant ==
  ASSUME ClientInvariant, NEW d \in Delivery,
         \/ Ask(d) \/ RequestTimesOut(d) \/ Finish(d) \/ TurnTimesOut(d)
         \/ Acquire(d) \/ CountResumed(d) \/ Collect(d) \/ Release(d)
  PROVE  ClientInvariant'
<1> USE DEF connection, requests, events, permits
<1>1. CallsInvariant /\ PermitInvariant /\ EventInvariant /\ HistoryOK
  BY DEF ClientInvariant, EventInvariant
<1>2. CallsInvariant'
  BY <1>1, WaitStep, DeliveryStep
<1>3. made \in Nat /\ pc \in [Delivery -> Place] /\ turn \in [Delivery -> Turn]
  BY <1>1 DEF CallsInvariant, PlacesOK
<1>4. CASE Ask(d)
  <2>1. /\ UNCHANGED <<turn, turns, sequence, history, active, overtaken>> /\ made' = made + 1
        /\ pc[d] = "idle" /\ pc' = [pc EXCEPT ![d] = "asking"]
    BY <1>4 DEF Ask, At, Request
  <2>2. PermitInvariant'
    BY <1>1, <1>3, <2>1, PermitsStayOnMove DEF Admitted
  <2>3. EventInvariant'
    BY <1>1, <1>3, <2>1, EventsStay
  <2>4. QED
    BY <1>2, <2>2, <2>3 DEF ClientInvariant
<1>5. CASE RequestTimesOut(d)
  <2>1. UNCHANGED <<turn, turns, sequence, history, active, overtaken, made>> /\ Fail({d})
    BY <1>5 DEF RequestTimesOut
  <2>2. \A e \in Delivery : pc'[e] \in {"starting", "started", "collecting"} => pc'[e] = pc[e]
    BY <2>1 DEF Fail
  <2>3. PermitInvariant'
    BY <1>1, <2>1, PermitsStayOnFail
  <2>4. EventInvariant'
    BY <1>1, <1>3, <2>1, <2>2, EventsStay
  <2>5. QED
    BY <1>2, <2>3, <2>4 DEF ClientInvariant
<1>6. CASE Finish(d) \/ TurnTimesOut(d)
  <2>1. /\ UNCHANGED <<turn, turns, sequence, history, active, overtaken, made>>
        /\ pc[d] = "collecting" /\ pc' = [pc EXCEPT ![d] = "over"]
    BY <1>6 DEF Finish, TurnTimesOut, At
  <2>2. PermitInvariant'
    BY <1>1, <1>3, <2>1, PermitsStayOnMove DEF Admitted
  <2>3. EventInvariant'
    BY <1>1, <1>3, <2>1, EventsStay
  <2>4. QED
    BY <1>2, <2>2, <2>3 DEF ClientInvariant
<1>7. CASE Acquire(d) /\ Admissible
  <2>1. /\ pc[d] = "answered" /\ active < MaxConcurrent /\ active' = active + 1 /\ StartTurn(d)
        /\ overtaken' = IF \E e \in Delivery : pc[e] = "resumed" THEN overtaken + 1 ELSE overtaken
    BY <1>7 DEF Acquire, Admissible
  <2>2. QED
    BY <1>1, <1>2, <1>3, <2>1, PermitTaken, EventsOnStart DEF ClientInvariant
<1>8. CASE Acquire(d) /\ ~Admissible
  <2>1. /\ UNCHANGED <<turn, turns, sequence, history, active, overtaken, made>>
        /\ pc[d] = "answered" /\ pc' = [pc EXCEPT ![d] = "waiting"]
    BY <1>8 DEF Acquire, At
  <2>2. PermitInvariant'
    BY <1>1, <1>3, <2>1, PermitsStayOnMove DEF Admitted
  <2>3. EventInvariant'
    BY <1>1, <1>3, <2>1, EventsStay
  <2>4. QED
    BY <1>2, <2>2, <2>3 DEF ClientInvariant
<1>9. CASE CountResumed(d)
  <2>1. pc[d] = "resumed" /\ active' = active + 1 /\ overtaken' = overtaken /\ StartTurn(d)
    BY <1>9 DEF CountResumed
  <2>2. QED
    BY <1>1, <1>2, <1>3, <2>1, PermitCounted, EventsOnStart DEF ClientInvariant
<1>10. CASE Collect(d)
  <2>1. /\ UNCHANGED <<active, overtaken>>
        /\ pc[d] = "started" /\ pc' = [pc EXCEPT ![d] = "collecting"]
    BY <1>10 DEF Collect, At
  <2>2. PermitInvariant'
    BY <1>1, <1>3, <2>1, PermitsStayOnMove DEF Admitted
  <2>3. QED
    BY <1>1, <1>2, <1>10, <2>2, EventsOnCollect DEF ClientInvariant
<1>11. CASE Release(d)
  <2>1. /\ UNCHANGED <<turns, sequence, history, made>> /\ turn' = [turn EXCEPT ![d] = NoTurn]
        /\ pc[d] = "over"
        /\ \/ pc' = [pc EXCEPT ![d] = "idle"]
           \/ pc' = [pc EXCEPT ![d] = "idle", ![Head(waiters)] = "resumed"]
    BY <1>11 DEF Release, At
  <2>2. \A e \in Delivery : pc'[e] \in {"starting", "started", "collecting"} =>
          pc'[e] = pc[e] /\ turn'[e] = turn[e]
    BY <1>3, <2>1
  <2>3. EventInvariant'
    BY <1>1, <1>3, <2>1, <2>2, EventsStay
  <2>4. QED
    BY <1>1, <1>2, <1>11, <2>3, PermitReleased DEF ClientInvariant
<1>12. QED
  BY <1>4, <1>5, <1>6, <1>7, <1>8, <1>9, <1>10, <1>11

LEMMA ClientStep == ClientInvariant /\ [Next]_vars => ClientInvariant'
<1> SUFFICES ASSUME ClientInvariant, [Next]_vars PROVE ClientInvariant'
  OBVIOUS
<1>1. CASE UNCHANGED vars
  <2>1. CallsInvariant' <=> CallsInvariant
    BY <1>1 DEF vars, connection, requests, events, permits, CallsInvariant, PlacesOK, PendingOK, WaitersOK
  <2>2. PermitInvariant'
    BY <1>1, PermitsStay DEF ClientInvariant, vars, permits, Admitted, Resumed
  <2>3. EventInvariant'
    BY <1>1, EventsStay
       DEF ClientInvariant, CallsInvariant, PlacesOK, vars, requests, events
  <2>4. QED
    BY <2>1, <2>2, <2>3 DEF ClientInvariant
<1>2. CASE Next
  BY <1>2, RequestStepInvariant, AnswerStepInvariant, DispatchStepInvariant, DeliveryStepInvariant
     DEF Next, Continue
<1>3. QED
  BY <1>1, <1>2

(* The invariant that carries the proofs: what waits for an answer and who     *)
(* waits for it, who holds the permits, and what the history still holds of    *)
(* the turns.                                                                  *)
THEOREM ClientInvariantCorrect == Spec => []ClientInvariant
<1>1. QED
  BY ClientStarts, ClientStep, PTL DEF Spec

(* The permits are counted right, and exceeded only by those that overtake a   *)
(* waiter which is being resumed (scheduler.ts:335-347).                       *)
THEOREM PermitsCorrect == Spec => []PermitsBounded
<1>1. ClientInvariant => PermitsBounded
  BY DEF ClientInvariant, PermitInvariant
<1>2. QED
  BY <1>1, ClientInvariantCorrect, PTL

(* A collector has all that was received of its turn, for every length of the  *)
(* history and wherever the answer to turn/start comes (turn_collector.ts).    *)
THEOREM CollectorsMissNothing == Spec => []NothingMissed
<1>1. ClientInvariant => NothingMissed
  BY DEF ClientInvariant, EventInvariant
<1>2. QED
  BY <1>1, ClientInvariantCorrect, PTL

-----------------------------------------------------------------------------
(* The circle of the request ids: AcquiredId goes round it once before an id   *)
(* that has been given back is given out again.                                *)

LEMMA RoundMod ==
  ASSUME NEW m \in Nat \ {0}, NEW a \in 1 .. m, NEW b \in 1 .. m
  PROVE  (a - b) % m = IF a >= b THEN a - b ELSE a - b + m
OBVIOUS

LEMMA NextMod ==
  ASSUME NEW m \in Nat \ {0}, NEW a \in 1 .. m
  PROVE  (a % m) + 1 = IF a = m THEN 1 ELSE a + 1
OBVIOUS

LEMMA LeastByOrder ==
  ASSUME NEW R, IsWellFoundedOn(R, Nat), \A x, y \in Nat : y < x => <<y, x>> \in R,
         NEW T, T \subseteq Nat, T # {}
  PROVE  \E x \in T : \A y \in T : x <= y
<1>1. PICK x \in T : \A y \in T : ~(<<y, x>> \in R)
  BY WFMin
<1>2. \A y \in T : ~(y < x)
  BY <1>1
<1>3. QED
  BY <1>2

LEMMA LeastNumber ==
  ASSUME NEW T, T \subseteq Nat, T # {}
  PROVE  \E x \in T : \A y \in T : x <= y
<1> DEFINE R == OpToRel(<, Nat)
<1>1. IsWellFoundedOn(R, Nat)
  BY NatLessThanWellFounded
<1>2. \A x, y \in Nat : y < x => <<y, x>> \in R
  BY DEF OpToRel
<1> HIDE DEF R
<1>3. QED
  BY <1>1, <1>2, LeastByOrder

(* How far round an id is from where the allocator looks, and the ids that are *)
(* free and would be given out before that of an answer that is to come.       *)
Distance(i) == (i - nextId) % MaxId
FreeBefore(r) == {j \in Free : Distance(j) < Distance(r.id)}

IdsOK ==
  /\ nextId \in 1 .. MaxId
  /\ DOMAIN pending \subseteq 1 .. MaxId
  /\ \A i \in DOMAIN pending : pending[i] \in [who : Delivery \cup {Handshake}, n : 1 .. made]
  /\ wire \subseteq [id : 1 .. MaxId, n : 1 .. made]

(* As long as the answer is to come, every id that went past its own was given *)
(* to a request that was made since.                                           *)
RoundOK ==
  link = "ready" => \A r \in wire :
    made - r.n + Cardinality(FreeBefore(r)) >= MaxId - Cardinality(Delivery)

LEMMA BoundsOfIds ==
  /\ MaxId \in Nat \ {0} /\ IsFiniteSet(Delivery) /\ Cardinality(Delivery) \in Nat
  /\ Cardinality(Delivery) < MaxId /\ Handshake \notin Delivery
BY ClientAssumption, FS_CardinalityType

LEMMA DistanceIs ==
  ASSUME nextId \in 1 .. MaxId, NEW i \in 1 .. MaxId
  PROVE  /\ Distance(i) = IF i >= nextId THEN i - nextId ELSE i - nextId + MaxId
         /\ Distance(i) \in 0 .. MaxId - 1
<1>1. Distance(i) = IF i >= nextId THEN i - nextId ELSE i - nextId + MaxId
  BY RoundMod, BoundsOfIds DEF Distance
<1>2. QED
  BY <1>1, BoundsOfIds

LEMMA NextDistanceIs ==
  ASSUME nextId' \in 1 .. MaxId, NEW i \in 1 .. MaxId
  PROVE  Distance(i)' = IF i >= nextId' THEN i - nextId' ELSE i - nextId' + MaxId
<1>1. MaxId \in Nat \ {0}
  BY BoundsOfIds
<1>2. (i - nextId') % MaxId = IF i >= nextId' THEN i - nextId' ELSE i - nextId' + MaxId
  BY <1>1, RoundMod
<1>3. QED
  BY <1>2 DEF Distance

LEMMA AcquiredIdFirst ==
  ASSUME nextId \in 1 .. MaxId, Free # {}
  PROVE  /\ AcquiredId \in Free
         /\ \A j \in Free : Distance(AcquiredId) <= Distance(j)
<1> DEFINE T == {Distance(j) : j \in Free}
<1>1. T \subseteq Nat /\ T # {}
  BY DistanceIs, BoundsOfIds DEF Free
<1> HIDE DEF T
<1>2. PICK x \in T : \A y \in T : x <= y
  BY <1>1, LeastNumber
<1> USE DEF T
<1>3. \E i \in Free : \A j \in Free : Distance(i) <= Distance(j)
  BY <1>2
<1>4. QED
  BY <1>3 DEF AcquiredId, Distance

LEMMA FreeFinite ==
  /\ IsFiniteSet(Free) /\ Cardinality(Free) \in Nat
  /\ \A S \in SUBSET Free : IsFiniteSet(S) /\ Cardinality(S) \in Nat /\ Cardinality(S) <= Cardinality(Free)
<1>1. IsFiniteSet(1 .. MaxId) /\ Free \in SUBSET (1 .. MaxId)
  BY BoundsOfIds, FS_Interval DEF Free
<1>2. IsFiniteSet(Free)
  BY <1>1, FS_Subset
<1>3. QED
  BY <1>2, FS_Subset, FS_CardinalityType

(* Each request that waits is that of another delivery.                        *)
LEMMA IdsLeft ==
  ASSUME NEW p, DOMAIN p \subseteq 1 .. MaxId,
         \A i \in DOMAIN p : p[i].who \in Delivery,
         \A i, j \in DOMAIN p : p[i].who = p[j].who => i = j
  PROVE  Cardinality((1 .. MaxId) \ DOMAIN p) >= MaxId - Cardinality(Delivery)
<1> DEFINE f == [i \in DOMAIN p |-> p[i].who]
<1>1. f \in Injection(DOMAIN p, Delivery)
  <2>1. f \in [DOMAIN p -> Delivery] /\ \A i, j \in DOMAIN p : f[i] = f[j] => i = j
    OBVIOUS
  <2> HIDE DEF f
  <2>2. QED
    BY <2>1 DEF Injection, IsInjective
<1>2. Cardinality(DOMAIN p) <= Cardinality(Delivery) /\ IsFiniteSet(DOMAIN p)
  BY <1>1, BoundsOfIds, FS_Injection
<1>3. IsFiniteSet(1 .. MaxId) /\ Cardinality(1 .. MaxId) = MaxId
  BY BoundsOfIds, FS_Interval
<1>4. Cardinality((1 .. MaxId) \ DOMAIN p) = MaxId - Cardinality(DOMAIN p)
  <2>1. Cardinality((1 .. MaxId) \ DOMAIN p)
          = Cardinality(1 .. MaxId) - Cardinality((1 .. MaxId) \cap DOMAIN p)
    BY <1>3, FS_Difference, Zenon
  <2>2. (1 .. MaxId) \cap DOMAIN p = DOMAIN p
    OBVIOUS
  <2>3. QED
    BY <1>3, <2>1, <2>2
<1>5. Cardinality(DOMAIN p) \in Nat
  BY <1>2, FS_CardinalityType
<1>6. QED
  BY <1>2, <1>4, <1>5, BoundsOfIds

LEMMA FreeLeft ==
  ASSUME PendingOK, link # "handshaking", DOMAIN pending \subseteq 1 .. MaxId
  PROVE  Free # {}
<1>1. \A i \in DOMAIN pending : pending[i].who \in Delivery
  BY DEF PendingOK
<1>2. Cardinality(Free) >= MaxId - Cardinality(Delivery)
  BY <1>1, IdsLeft DEF Free, PendingOK
<1>3. Cardinality(Free) > 0
  BY <1>2, FreeFinite, BoundsOfIds
<1>4. QED
  BY <1>3, FS_EmptySet

(* A request takes the first free id, and the circle starts behind it.         *)
LEMMA RequestTakesFirst ==
  ASSUME IdsOK, made \in Nat, Free # {}, NEW who \in Delivery \cup {Handshake}, Request(who)
  PROVE  /\ IdsOK'
         /\ AcquiredId \in Free /\ Free' = Free \ {AcquiredId}
         /\ \A j \in Free : Distance(AcquiredId) <= Distance(j)
         /\ nextId' = IF AcquiredId = MaxId THEN 1 ELSE AcquiredId + 1
<1>1. /\ AcquiredId \in Free /\ AcquiredId \in 1 .. MaxId
      /\ \A j \in Free : Distance(AcquiredId) <= Distance(j)
  BY AcquiredIdFirst DEF IdsOK, Free
<1>2. nextId' = (IF AcquiredId = MaxId THEN 1 ELSE AcquiredId + 1) /\ nextId' \in 1 .. MaxId
  <2>1. (AcquiredId % MaxId) + 1 = IF AcquiredId = MaxId THEN 1 ELSE AcquiredId + 1
    BY <1>1, BoundsOfIds, NextMod
  <2>2. nextId' = (AcquiredId % MaxId) + 1
    BY DEF Request
  <2>3. QED
    BY <1>1, <2>1, <2>2, BoundsOfIds
<1>3. /\ DOMAIN pending' = DOMAIN pending \cup {AcquiredId}
      /\ made' = made + 1 /\ wire' = wire \cup {[id |-> AcquiredId, n |-> made + 1]}
      /\ pending'[AcquiredId] = [who |-> who, n |-> made + 1]
      /\ \A i \in DOMAIN pending \ {AcquiredId} : pending'[i] = pending[i]
  BY DEF Request
<1>4. 1 .. made \subseteq 1 .. made' /\ made + 1 \in 1 .. made'
  BY <1>3
<1>5. Free' = Free \ {AcquiredId}
  BY <1>3 DEF Free
<1>6. \A i \in DOMAIN pending' : pending'[i] \in [who : Delivery \cup {Handshake}, n : 1 .. made']
  BY <1>3, <1>4 DEF IdsOK
<1>7. wire' \subseteq [id : 1 .. MaxId, n : 1 .. made']
  BY <1>1, <1>3, <1>4 DEF IdsOK
<1>8. QED
  BY <1>1, <1>2, <1>3, <1>5, <1>6, <1>7 DEF IdsOK

(* The step of the circle: an id that lies before that of an answer to come is *)
(* taken by a request more, and its own is taken only when none does.          *)
LEMMA RequestRounds ==
  ASSUME IdsOK, made \in Nat, Free # {}, NEW who \in Delivery \cup {Handshake}, Request(who),
         NEW r \in wire, made - r.n + Cardinality(FreeBefore(r)) >= MaxId - Cardinality(Delivery)
  PROVE  /\ made' - r.n + Cardinality(FreeBefore(r)') >= MaxId - Cardinality(Delivery)
         /\ AcquiredId = r.id => made + 1 - r.n > MaxId - Cardinality(Delivery)
<1> DEFINE a == AcquiredId
<1>1. /\ a \in Free /\ a \in 1 .. MaxId /\ Free' = Free \ {a} /\ made' = made + 1
      /\ \A j \in Free : Distance(a) <= Distance(j)
      /\ nextId' = IF a = MaxId THEN 1 ELSE a + 1
      /\ nextId \in 1 .. MaxId /\ nextId' \in 1 .. MaxId
      /\ r.id \in 1 .. MaxId /\ r.n \in Nat /\ Free \subseteq 1 .. MaxId
  BY RequestTakesFirst, BoundsOfIds DEF IdsOK, Request, Free
<1> HIDE DEF a
<1>2. \A j \in 1 .. MaxId : Distance(j) = IF j >= nextId THEN j - nextId ELSE j - nextId + MaxId
  BY <1>1, DistanceIs
<1>3. \A j \in 1 .. MaxId : Distance(j)' = IF j >= nextId' THEN j - nextId' ELSE j - nextId' + MaxId
  BY <1>1, NextDistanceIs
<1>4. FreeBefore(r) \in SUBSET Free /\ FreeBefore(r)' \in SUBSET Free
  BY <1>1 DEF FreeBefore
<1>5. /\ IsFiniteSet(FreeBefore(r)) /\ Cardinality(FreeBefore(r)) \in Nat
      /\ IsFiniteSet(FreeBefore(r)') /\ Cardinality(FreeBefore(r)') \in Nat
  BY <1>4, FreeFinite
<1>6. CASE Distance(a) < Distance(r.id)
  <2>1. a # r.id /\ a \in FreeBefore(r)
    BY <1>1, <1>2, <1>6, BoundsOfIds DEF FreeBefore
  <2>2. \A j \in Free' : Distance(j) < Distance(r.id) => Distance(j)' < Distance(r.id)'
    <3> SUFFICES ASSUME NEW j \in Free', Distance(j) < Distance(r.id)
                 PROVE  Distance(j)' < Distance(r.id)'
      OBVIOUS
    <3>1. j \in 1 .. MaxId /\ j # a /\ Distance(a) <= Distance(j)
      BY <1>1
    <3>2. QED
      BY <1>1, <1>2, <1>3, <1>6, <3>1, BoundsOfIds
  <2>3. FreeBefore(r) \ {a} \subseteq FreeBefore(r)'
    BY <1>1, <2>2 DEF FreeBefore
  <2>4. Cardinality(FreeBefore(r) \ {a}) = Cardinality(FreeBefore(r)) - 1
    BY <1>5, <2>1, FS_RemoveElement
  <2>5. Cardinality(FreeBefore(r) \ {a}) <= Cardinality(FreeBefore(r)')
    BY <1>5, <2>3, FS_Subset
  <2>6. QED
    BY <1>1, <1>5, <2>1, <2>4, <2>5, BoundsOfIds DEF a
<1>7. CASE ~(Distance(a) < Distance(r.id))
  <2>1. \A j \in 1 .. MaxId : Distance(j) \in Nat
    BY <1>1, <1>2, BoundsOfIds
  <2>2. \A j \in Free : ~(Distance(j) < Distance(r.id))
    BY <1>1, <1>7, <2>1
  <2>3. FreeBefore(r) = {}
    BY <2>2 DEF FreeBefore
  <2>4. Cardinality(FreeBefore(r)) = 0
    BY <2>3, FS_EmptySet
  <2>5. QED
    BY <1>1, <1>5, <2>4, BoundsOfIds
<1>8. QED
  BY <1>6, <1>7

-----------------------------------------------------------------------------
(* The connection and the requests that are made on it.                        *)

LinkTypeOK ==
  /\ link \in {"disconnected", "handshaking", "ready", "lost"}
  /\ failures \in 0 .. ReconnectLimit + 1
  /\ burst \in BOOLEAN

(* While it is made, there is one request, and nobody but the handshake.       *)
HandshakeOK ==
  link = "handshaking" =>
    /\ failures <= ReconnectLimit
    /\ \A i \in DOMAIN pending : pending[i].who = Handshake
    /\ \A r \in wire : r.id \in DOMAIN pending /\ pending[r.id].n = r.n
    /\ \A r, q \in wire : r = q

(* Deliveries begin on a connection; without one nothing is on its way.        *)
UnconnectedOK ==
  /\ link \in {"disconnected", "handshaking"} => \A d \in Delivery : pc[d] = "idle"
  /\ link \in {"disconnected", "lost"} => wire = {} /\ DOMAIN pending = {}

LinkOK == LinkTypeOK /\ HandshakeOK /\ UnconnectedOK

(* The bound on the requests leaves room for the turn of every delivery that   *)
(* has not started it.                                                         *)
Unstarted == {d \in Delivery : pc[d] \in {"asking", "answered", "waiting", "resumed"}}
RoomOK == made + Owed <= MaxRequests

RequestInvariant == LinkOK /\ IdsOK /\ RoomOK /\ RoundOK /\ AnswerIsOwn

LEMMA UnstartedFinite ==
  /\ IsFiniteSet(Unstarted) /\ Cardinality(Unstarted) \in Nat /\ Owed = Cardinality(Unstarted)
<1>1. Unstarted \in SUBSET Delivery
  BY DEF Unstarted
<1>2. QED
  BY <1>1, BoundsOfIds, FS_Subset, FS_CardinalityType DEF Owed, Unstarted

(* Nobody comes to owe a turn; somebody does; somebody has started his.        *)
LEMMA OwedFalls ==
  ASSUME Unstarted' \subseteq Unstarted
  PROVE  Owed' \in Nat /\ Owed' <= Owed
<1>1. Owed' = Cardinality(Unstarted')
  BY DEF Owed, Unstarted
<1>2. QED
  BY <1>1, UnstartedFinite, FS_Subset, FS_CardinalityType

LEMMA OwedBegins ==
  ASSUME NEW d, Unstarted' \subseteq Unstarted \cup {d}
  PROVE  Owed' \in Nat /\ Owed' <= Owed + 1
<1>1. Owed' = Cardinality(Unstarted')
  BY DEF Owed, Unstarted
<1>2. /\ IsFiniteSet(Unstarted \cup {d})
      /\ Cardinality(Unstarted \cup {d}) =
           IF d \in Unstarted THEN Cardinality(Unstarted) ELSE Cardinality(Unstarted) + 1
  BY UnstartedFinite, FS_AddElement
<1>3. /\ Cardinality(Unstarted') \in Nat
      /\ Cardinality(Unstarted') <= Cardinality(Unstarted \cup {d})
  BY <1>2, FS_Subset, FS_CardinalityType
<1>4. QED
  BY <1>1, <1>2, <1>3, UnstartedFinite

LEMMA OwedEnds ==
  ASSUME NEW d \in Unstarted, Unstarted' \subseteq Unstarted \ {d}
  PROVE  Owed' \in Nat /\ Owed' <= Owed - 1
<1>1. Owed' = Cardinality(Unstarted')
  BY DEF Owed, Unstarted
<1>2. IsFiniteSet(Unstarted \ {d}) /\ Cardinality(Unstarted \ {d}) = Cardinality(Unstarted) - 1
  BY UnstartedFinite, FS_RemoveElement
<1>3. QED
  BY <1>1, <1>2, UnstartedFinite, FS_Subset, FS_CardinalityType

(* A step that makes no request: what is waited for and what is on its way can *)
(* only become less.                                                           *)
Settles ==
  /\ UNCHANGED <<nextId, made>> /\ wire' \subseteq wire
  /\ DOMAIN pending' \subseteq DOMAIN pending
  /\ \A i \in DOMAIN pending' : pending'[i] = pending[i]
  /\ Unstarted' \subseteq Unstarted

LEMMA SettledRequests ==
  ASSUME RequestInvariant, made \in Nat, Settles, link' = "ready" => link = "ready" \/ wire' = {}
  PROVE  IdsOK' /\ RoomOK' /\ RoundOK' /\ AnswerIsOwn'
<1>1. IdsOK'
  BY DEF RequestInvariant, IdsOK, Settles
<1>2. RoomOK'
  BY OwedFalls, UnstartedFinite, BoundsOfIds, ClientAssumption DEF RequestInvariant, RoomOK, Settles
<1>3. AnswerIsOwn'
  BY DEF RequestInvariant, AnswerIsOwn, Settles
<1>4. RoundOK'
  <2> SUFFICES ASSUME link' = "ready", NEW r \in wire'
               PROVE  made' - r.n + Cardinality(FreeBefore(r)') >= MaxId - Cardinality(Delivery)
    BY DEF RoundOK
  <2>1. /\ link = "ready" /\ r \in wire /\ r.n \in Nat /\ made' = made
        /\ made - r.n + Cardinality(FreeBefore(r)) >= MaxId - Cardinality(Delivery)
    BY DEF RequestInvariant, RoundOK, IdsOK, Settles
  <2>2. FreeBefore(r) \subseteq FreeBefore(r)' /\ FreeBefore(r)' \in SUBSET Free'
    BY DEF FreeBefore, Free, Distance, Settles
  <2>3. IsFiniteSet(Free')
    <3>1. IsFiniteSet(1 .. MaxId) /\ Free' \in SUBSET (1 .. MaxId)
      BY BoundsOfIds, FS_Interval DEF Free
    <3>2. QED
      BY <3>1, FS_Subset
  <2>4. /\ IsFiniteSet(FreeBefore(r)') /\ Cardinality(FreeBefore(r)') \in Nat
        /\ Cardinality(FreeBefore(r)) <= Cardinality(FreeBefore(r)')
        /\ Cardinality(FreeBefore(r)) \in Nat
    BY <2>2, <2>3, FS_Subset, FS_CardinalityType
  <2>5. QED
    BY <2>1, <2>4, BoundsOfIds
<1>5. QED
  BY <1>1, <1>2, <1>3, <1>4

(* A step that makes a request on a connection.                                *)
LEMMA RequestAdded ==
  ASSUME RequestInvariant, made \in Nat, PendingOK, NEW who \in Delivery \cup {Handshake},
         Request(who), link \in {"disconnected", "ready"},
         made + 1 + Owed' <= MaxRequests, PendingOK',
         link = "disconnected" => link' # "ready"
  PROVE  IdsOK' /\ RoomOK' /\ RoundOK' /\ AnswerIsOwn'
<1>1. Free # {}
  BY FreeLeft DEF RequestInvariant, IdsOK
<1>2. IdsOK /\ RoundOK /\ AnswerIsOwn /\ LinkOK
  BY DEF RequestInvariant
<1>3. /\ IdsOK' /\ made' = made + 1
      /\ AcquiredId \in 1 .. MaxId /\ AcquiredId \in Free /\ Free' = Free \ {AcquiredId}
      /\ wire' = wire \cup {[id |-> AcquiredId, n |-> made + 1]}
      /\ DOMAIN pending' = DOMAIN pending \cup {AcquiredId}
      /\ pending'[AcquiredId].n = made + 1
      /\ \A i \in DOMAIN pending \ {AcquiredId} : pending'[i] = pending[i]
  BY <1>1, <1>2, RequestTakesFirst DEF Request, Free
<1>4. RoomOK'
  BY <1>3 DEF RoomOK
<1>5. \A r \in wire :
        /\ link = "ready"
        /\ made' - r.n + Cardinality(FreeBefore(r)') >= MaxId - Cardinality(Delivery)
        /\ AcquiredId = r.id => made + 1 - r.n > MaxId - Cardinality(Delivery)
  BY <1>1, <1>2, RequestRounds DEF RoundOK, LinkOK, UnconnectedOK
<1>6. AnswerIsOwn'
  <2> SUFFICES ASSUME NEW r \in wire', r.id \in DOMAIN pending'
               PROVE  \/ pending'[r.id].n = r.n
                      \/ pending'[r.id].n - r.n > MaxId - Cardinality(Delivery)
    BY DEF AnswerIsOwn
  <2>1. CASE r = [id |-> AcquiredId, n |-> made + 1]
    <3>1. r.id = AcquiredId /\ r.n = made + 1
      BY <2>1
    <3>2. QED
      BY <1>3, <3>1
  <2>2. CASE r \in wire /\ r.id = AcquiredId
    <3>1. pending'[r.id].n = made + 1
      BY <1>3, <2>2
    <3>2. made + 1 - r.n > MaxId - Cardinality(Delivery) /\ r.n \in Nat
      BY <1>2, <1>5, <2>2 DEF IdsOK
    <3>3. QED
      BY <3>1, <3>2, BoundsOfIds
  <2>3. CASE r \in wire /\ r.id # AcquiredId
    BY <1>2, <1>3, <2>3 DEF AnswerIsOwn
  <2>4. QED
    BY <1>3, <2>1, <2>2, <2>3
<1>7. RoundOK'
  <2> SUFFICES ASSUME link' = "ready", NEW r \in wire'
               PROVE  made' - r.n + Cardinality(FreeBefore(r)') >= MaxId - Cardinality(Delivery)
    BY DEF RoundOK
  <2>1. CASE r \in wire
    BY <1>5, <2>1
  <2>2. CASE r = [id |-> AcquiredId, n |-> made + 1]
    <3>1. r.id \in 1 .. MaxId /\ r.n = made' /\ r.id \in DOMAIN pending'
      BY <1>3, <2>2
    <3>2. Free' \subseteq 1 .. MaxId /\ r.id \notin Free'
      BY <3>1 DEF Free
    <3>3. nextId' \in 1 .. MaxId /\ nextId' = IF r.id = MaxId THEN 1 ELSE r.id + 1
      BY <1>1, <1>2, <1>3, <2>2, RequestTakesFirst, BoundsOfIds DEF IdsOK
    <3>4. \A j \in 1 .. MaxId : Distance(j)' = IF j >= nextId' THEN j - nextId' ELSE j - nextId' + MaxId
      BY <3>3, NextDistanceIs
    <3>5. \A j \in Free' : Distance(j)' < Distance(r.id)'
      BY <3>1, <3>2, <3>3, <3>4, BoundsOfIds
    <3>6. FreeBefore(r)' = Free'
      BY <3>5 DEF FreeBefore
    <3>7. Cardinality(Free') >= MaxId - Cardinality(Delivery)
      <4>1. /\ \A i \in DOMAIN pending' : pending'[i].who \in Delivery
            /\ \A i, j \in DOMAIN pending' : pending'[i].who = pending'[j].who => i = j
            /\ DOMAIN pending' \subseteq 1 .. MaxId
        BY <1>3 DEF PendingOK, IdsOK
      <4>2. QED
        BY <4>1, IdsLeft DEF Free
    <3>8. made' - r.n = 0 /\ Cardinality(Free') \in Nat
      <4>1. IsFiniteSet(1 .. MaxId) /\ Free' \in SUBSET (1 .. MaxId)
        <5>1. 1 \in Int /\ MaxId \in Int
          BY BoundsOfIds
        <5>2. IsFiniteSet(1 .. MaxId)
          BY <5>1, FS_Interval
        <5>3. QED
          BY <3>2, <5>2
      <4>2. made' - r.n = 0
        BY <1>3, <3>1
      <4>3. QED
        BY <4>1, <4>2, FS_Subset, FS_CardinalityType
    <3>9. QED
      BY <3>6, <3>7, <3>8
  <2>3. QED
    BY <1>3, <2>1, <2>2
<1>8. QED
  BY <1>3, <1>4, <1>6, <1>7

LEMMA FailSettles ==
  ASSUME NEW who, Fail(who)
  PROVE  /\ Unstarted' \subseteq Unstarted
         /\ (\A d \in Delivery : pc[d] = "idle") => \A d \in Delivery : pc'[d] = "idle"
BY DEF Fail, Unstarted

LEMMA SettleShrinks ==
  ASSUME NEW ids, Settle(ids)
  PROVE  /\ DOMAIN pending' = DOMAIN pending \ ids
         /\ \A i \in DOMAIN pending' : pending'[i] = pending[i]
BY DEF Settle, Restrict

(* The connection has ended.                                                   *)
LEMMA LinkGone ==
  ASSUME LinkOK, link \in {"handshaking", "ready"},
         \/ link' = "disconnected" /\ link = "handshaking" /\ failures' = failures + 1
         \/ link' = "lost" /\ failures' = failures,
         burst' = FALSE, wire' = {}, DOMAIN pending' = {},
         (\A d \in Delivery : pc[d] = "idle") => \A d \in Delivery : pc'[d] = "idle"
  PROVE  LinkOK'
<1>1. failures' \in 0 .. ReconnectLimit + 1
  BY ClientAssumption DEF LinkOK, LinkTypeOK, HandshakeOK
<1>2. LinkTypeOK' /\ HandshakeOK'
  BY <1>1 DEF LinkTypeOK, HandshakeOK
<1>3. UnconnectedOK'
  BY DEF LinkOK, UnconnectedOK
<1>4. QED
  BY <1>2, <1>3 DEF LinkOK

LEMMA RequestsStart == Init => RequestInvariant
<1> SUFFICES ASSUME Init PROVE RequestInvariant
  OBVIOUS
<1>1. LinkOK /\ RoundOK /\ AnswerIsOwn
  <2>1. LinkTypeOK
    <3>1. ReconnectLimit \in Nat
      BY ClientAssumption
    <3>2. 0 \in 0 .. ReconnectLimit + 1
      BY <3>1
    <3>3. QED
      BY <3>2 DEF Init, LinkTypeOK
  <2>2. HandshakeOK /\ UnconnectedOK /\ RoundOK /\ AnswerIsOwn
    BY DEF Init, HandshakeOK, UnconnectedOK, RoundOK, AnswerIsOwn
  <2>3. QED
    BY <2>1, <2>2 DEF LinkOK
<1>3. IdsOK
  BY BoundsOfIds DEF Init, IdsOK
<1>2. RoomOK
  <2>1. Unstarted = {}
    BY DEF Init, Unstarted
  <2>2. Owed = 0 /\ made = 0 /\ MaxRequests \in Nat
    BY <2>1, UnstartedFinite, FS_EmptySet, ClientAssumption DEF Init
  <2>3. QED
    BY <2>2 DEF RoomOK
<1>4. QED
  BY <1>1, <1>2, <1>3 DEF RequestInvariant

LEMMA RequestsOnConnection ==
  ASSUME ClientInvariant, ClientInvariant', RequestInvariant,
         OpenFails \/ Open \/ Disconnect \/ HandshakeTimesOut
  PROVE  RequestInvariant'
<1> USE DEF connection, requests, events, permits
<1>1. made \in Nat /\ PendingOK /\ PendingOK' /\ LinkOK /\ ReconnectLimit \in Nat
  BY ClientAssumption DEF ClientInvariant, CallsInvariant, PlacesOK, RequestInvariant
<1>2. CASE OpenFails
  <2>1. Settles /\ link' = link /\ pc' = pc
    BY <1>2 DEF OpenFails, Settles, Unstarted
  <2>2. LinkOK'
    <3>1. LinkTypeOK'
      <4>1. failures <= ReconnectLimit /\ failures' = failures + 1 /\ link' = link /\ burst' = FALSE
        BY <1>2 DEF OpenFails, Event
      <4>2. failures' \in 0 .. ReconnectLimit + 1
        BY <1>1, <4>1 DEF LinkOK, LinkTypeOK
      <4>3. QED
        BY <1>1, <4>1, <4>2 DEF LinkOK, LinkTypeOK
    <3>2. HandshakeOK' /\ UnconnectedOK'
      BY <1>1, <1>2 DEF OpenFails, LinkOK, HandshakeOK, UnconnectedOK
    <3>3. QED
      BY <3>1, <3>2 DEF LinkOK
  <2>3. QED
    BY <1>1, <2>1, <2>2, SettledRequests DEF RequestInvariant
<1>3. CASE Open
  <2>1. /\ link = "disconnected" /\ link' = "handshaking" /\ Request(Handshake) /\ pc' = pc
        /\ made + 1 <= MaxRequests /\ failures <= ReconnectLimit /\ failures' = failures
        /\ burst' = FALSE /\ wire = {} /\ DOMAIN pending = {} /\ \A d \in Delivery : pc[d] = "idle"
    BY <1>1, <1>3, ClientAssumption DEF Open, Event, LinkOK, UnconnectedOK
  <2>2. Owed' = 0
    <3>1. Unstarted' = {} /\ Owed' = Cardinality(Unstarted')
      BY <2>1 DEF Unstarted, Owed
    <3>2. QED
      BY <3>1, FS_EmptySet
  <2>3. IdsOK' /\ RoomOK' /\ RoundOK' /\ AnswerIsOwn'
    BY <1>1, <2>1, <2>2, RequestAdded
  <2>4. /\ DOMAIN pending' = {AcquiredId} /\ wire' = {[id |-> AcquiredId, n |-> made + 1]}
        /\ pending'[AcquiredId] = [who |-> Handshake, n |-> made + 1]
    BY <2>1 DEF Request
  <2>5. LinkOK'
    <3>1. LinkTypeOK' /\ UnconnectedOK'
      BY <1>1, <2>1 DEF LinkOK, LinkTypeOK, UnconnectedOK
    <3>2. HandshakeOK'
      BY <2>1, <2>4 DEF HandshakeOK
    <3>3. QED
      BY <3>1, <3>2 DEF LinkOK
  <2>6. QED
    BY <2>3, <2>5 DEF RequestInvariant
<1>4. CASE Disconnect
  <2>1. /\ link \in {"handshaking", "ready"} /\ link' \in {"disconnected", "lost"}
        /\ link' = "disconnected" => link = "handshaking" /\ failures' = failures + 1
        /\ link' = "lost" => failures' = failures
        /\ wire' = {} /\ UNCHANGED <<nextId, made>> /\ burst' = FALSE
        /\ Fail({pending[i].who : i \in DOMAIN pending}) /\ Settle(DOMAIN pending)
    BY <1>4 DEF Disconnect, Event
  <2>2. DOMAIN pending' = {}
    BY <2>1, SettleShrinks
  <2>3. /\ Unstarted' \subseteq Unstarted
        /\ (\A d \in Delivery : pc[d] = "idle") => \A d \in Delivery : pc'[d] = "idle"
    BY <2>1, FailSettles
  <2>4. Settles
    BY <2>1, <2>2, <2>3 DEF Settles
  <2>5. LinkOK'
    BY <1>1, <2>1, <2>2, <2>3, LinkGone
  <2>6. QED
    BY <1>1, <2>1, <2>4, <2>5, SettledRequests DEF RequestInvariant
<1>5. CASE HandshakeTimesOut
  <2>1. /\ link = "handshaking" /\ link' = "disconnected" /\ failures' = failures + 1
        /\ Settle(IdOf(Handshake)) /\ wire' = {} /\ UNCHANGED <<nextId, made, pc>> /\ burst' = FALSE
    BY <1>1, <1>5 DEF HandshakeTimesOut, Event, PendingOK, IdOf
  <2>2. \A i \in DOMAIN pending : i \in IdOf(Handshake)
    BY <1>1, <2>1 DEF LinkOK, HandshakeOK, IdOf
  <2>3. DOMAIN pending' = {} /\ Settles
    BY <2>1, <2>2, SettleShrinks DEF Settles, Unstarted
  <2>4. LinkOK'
    BY <1>1, <2>1, <2>3, LinkGone
  <2>5. QED
    BY <1>1, <2>1, <2>3, <2>4, SettledRequests DEF RequestInvariant
<1>6. QED
  BY <1>2, <1>3, <1>4, <1>5

LEMMA RequestsOnAnswer ==
  ASSUME ClientInvariant, RequestInvariant, NEW r \in wire,
         (\E ok \in BOOLEAN : Answer(r, ok)) \/ Refused(r) \/ OrphanResponse(r)
  PROVE  RequestInvariant'
<1> USE DEF connection, requests, events, permits
<1>1. made \in Nat /\ PendingOK /\ LinkOK /\ ReconnectLimit \in Nat /\ pc \in [Delivery -> Place]
  BY ClientAssumption DEF ClientInvariant, CallsInvariant, PlacesOK, RequestInvariant
<1>2. CASE Refused(r)
  <2>1. /\ link = "handshaking" /\ link' = "disconnected" /\ failures' = failures + 1
        /\ Settle({r.id}) /\ wire' = {} /\ UNCHANGED <<nextId, made, pc>> /\ burst' = FALSE
    BY <1>1, <1>2 DEF Refused, Event, PendingOK
  <2>2. \A i \in DOMAIN pending : i = r.id
    BY <1>1, <1>2, <2>1 DEF LinkOK, HandshakeOK, PendingOK, Refused
  <2>3. DOMAIN pending' = {} /\ Settles
    BY <2>1, <2>2, SettleShrinks DEF Settles, Unstarted
  <2>4. LinkOK'
    BY <1>1, <2>1, <2>3, LinkGone
  <2>5. QED
    BY <1>1, <2>1, <2>3, <2>4, SettledRequests DEF RequestInvariant
<1>3. CASE OrphanResponse(r)
  <2>1. /\ link \notin {"handshaking", "disconnected", "lost"} /\ wire' \subseteq wire /\ burst' = TRUE
        /\ UNCHANGED <<link, failures, nextId, made, pending, pc>>
    BY <1>1, <1>3 DEF OrphanResponse, Frame, LinkOK, LinkTypeOK, HandshakeOK, UnconnectedOK
  <2>2. Settles /\ LinkOK'
    BY <1>1, <2>1 DEF Settles, Unstarted, LinkOK, LinkTypeOK, HandshakeOK, UnconnectedOK
  <2>3. QED
    BY <1>1, <2>1, <2>2, SettledRequests DEF RequestInvariant
<1>4. ASSUME NEW ok \in BOOLEAN, Answer(r, ok)
      PROVE  RequestInvariant'
  <2> DEFINE who == pending[r.id].who
  <2>1. /\ r.id \in DOMAIN pending /\ Settle({r.id}) /\ UNCHANGED <<nextId, made>>
        /\ wire' = wire \ {r} /\ burst' = TRUE /\ who \in Delivery \cup {Handshake}
        /\ link \in {"handshaking", "ready"}
    BY <1>1, <1>4 DEF Answer, Frame, PendingOK, LinkOK, LinkTypeOK, UnconnectedOK
  <2>2. CASE who = Handshake
    <3>1. link = "handshaking" /\ link' = "ready" /\ wire' = {} /\ UNCHANGED <<failures, pc>>
      BY <1>1, <1>4, <2>1, <2>2 DEF Answer, LinkOK, HandshakeOK, PendingOK
    <3>2. Settles /\ LinkOK'
      BY <1>1, <2>1, <3>1, SettleShrinks DEF Settles, Unstarted, LinkOK, LinkTypeOK, HandshakeOK, UnconnectedOK
    <3>3. QED
      BY <1>1, <3>1, <3>2, SettledRequests DEF RequestInvariant
  <2>3. CASE who # Handshake
    <3>1. link = "ready" /\ UNCHANGED <<link, failures>> /\ who \in Delivery
      BY <1>1, <1>4, <2>1, <2>3 DEF Answer, LinkOK, HandshakeOK
    <3>2. Unstarted' \subseteq Unstarted
      <4>1. CASE ok /\ Fits(who, r)
        BY <1>1, <1>4, <2>1, <2>3, <4>1 DEF Answer, At, Unstarted, PendingOK
      <4>2. CASE ~(ok /\ Fits(who, r))
        BY <1>4, <2>3, <4>2, FailSettles DEF Answer
      <4>3. QED
        BY <4>1, <4>2
    <3>3. Settles /\ LinkOK'
      BY <1>1, <2>1, <3>1, <3>2, SettleShrinks DEF Settles, LinkOK, LinkTypeOK, HandshakeOK, UnconnectedOK
    <3>4. QED
      BY <1>1, <3>1, <3>3, SettledRequests DEF RequestInvariant
  <2>4. QED
    BY <2>2, <2>3
<1>5. QED
  BY <1>2, <1>3, <1>4

(* A step that leaves the connection and the requests alone.                   *)
LEMMA RequestsLeftAlone ==
  ASSUME ClientInvariant, RequestInvariant, UNCHANGED <<link, failures, requests>>,
         burst' \in BOOLEAN, Unstarted' \subseteq Unstarted,
         (\A d \in Delivery : pc[d] = "idle") => \A d \in Delivery : pc'[d] = "idle"
  PROVE  RequestInvariant'
<1>1. Settles /\ made \in Nat /\ LinkOK
  BY DEF Settles, requests, ClientInvariant, CallsInvariant, PlacesOK, RequestInvariant
<1>2. LinkTypeOK' /\ HandshakeOK' /\ UnconnectedOK'
  BY <1>1 DEF requests, LinkOK, LinkTypeOK, HandshakeOK, UnconnectedOK
<1>3. QED
  BY <1>1, <1>2, SettledRequests DEF RequestInvariant, LinkOK

LEMMA RequestsOnDispatch ==
  ASSUME ClientInvariant, RequestInvariant, NEW n \in DOMAIN turns,
         ItemCompleted(n) \/ TurnCompleted(n)
  PROVE  RequestInvariant'
<1>1. UNCHANGED <<link, failures, requests, pc>> /\ burst' = TRUE
  BY DEF ItemCompleted, TurnCompleted, Frame, connection
<1>2. QED
  BY <1>1, RequestsLeftAlone DEF Unstarted

LEMMA RequestsOnStart ==
  ASSUME ClientInvariant, ClientInvariant', RequestInvariant, NEW d \in Delivery,
         pc[d] \in {"answered", "resumed"}, StartTurn(d), burst' = FALSE
  PROVE  RequestInvariant'
<1>1. /\ made \in Nat /\ PendingOK /\ PendingOK' /\ LinkOK /\ RoomOK /\ MaxRequests \in Nat
      /\ pc \in [Delivery -> Place] /\ UNCHANGED <<link, failures>>
  BY ClientAssumption
     DEF ClientInvariant, CallsInvariant, PlacesOK, RequestInvariant, StartTurn, connection
<1>2. CASE link = "ready"
  <2>1. Request(d) /\ pc' = [pc EXCEPT ![d] = "starting"]
    BY <1>2 DEF StartTurn, At
  <2>2. d \in Unstarted /\ Unstarted' \subseteq Unstarted \ {d}
    BY <1>1, <2>1 DEF Unstarted
  <2>3. made + 1 + Owed' <= MaxRequests
    BY <1>1, <2>2, OwedEnds, UnstartedFinite DEF RoomOK
  <2>4. IdsOK' /\ RoomOK' /\ RoundOK' /\ AnswerIsOwn'
    BY <1>1, <1>2, <2>1, <2>3, RequestAdded
  <2>5. LinkTypeOK' /\ HandshakeOK' /\ UnconnectedOK'
    BY <1>1, <1>2 DEF LinkOK, LinkTypeOK, HandshakeOK, UnconnectedOK
  <2>6. QED
    BY <2>4, <2>5 DEF RequestInvariant, LinkOK
<1>3. CASE link # "ready"
  <2>1. UNCHANGED requests /\ pc' = [pc EXCEPT ![d] = "over"]
    BY <1>3 DEF StartTurn, At
  <2>2. Unstarted' \subseteq Unstarted /\ pc[d] # "idle"
    BY <1>1, <2>1 DEF Unstarted
  <2>3. QED
    BY <1>1, <2>1, <2>2, RequestsLeftAlone
<1>4. QED
  BY <1>2, <1>3

LEMMA RequestsOnDelivery ==
  ASSUME ClientInvariant, ClientInvariant', RequestInvariant, NEW d \in Delivery,
         \/ Ask(d) \/ RequestTimesOut(d) \/ Finish(d) \/ TurnTimesOut(d) \/ Continue(d)
  PROVE  RequestInvariant'
<1> USE DEF connection, requests, events, permits
<1>1. /\ made \in Nat /\ PendingOK /\ PendingOK' /\ LinkOK /\ WaitersOK /\ pc \in [Delivery -> Place]
  BY DEF ClientInvariant, CallsInvariant, PlacesOK, RequestInvariant
<1>2. CASE Ask(d)
  <2>1. /\ link = "ready" /\ Request(d) /\ pc' = [pc EXCEPT ![d] = "asking"] /\ burst' = FALSE
        /\ UNCHANGED <<link, failures>> /\ made + Owed + 2 <= MaxRequests
    BY <1>2 DEF Ask, At, Event
  <2>2. Unstarted' \subseteq Unstarted \cup {d}
    BY <1>1, <2>1 DEF Unstarted
  <2>3. made + 1 + Owed' <= MaxRequests
    BY <1>1, <2>1, <2>2, OwedBegins, UnstartedFinite, ClientAssumption
  <2>4. IdsOK' /\ RoomOK' /\ RoundOK' /\ AnswerIsOwn'
    BY <1>1, <2>1, <2>3, RequestAdded
  <2>5. LinkTypeOK' /\ HandshakeOK' /\ UnconnectedOK'
    BY <1>1, <2>1 DEF LinkOK, LinkTypeOK, HandshakeOK, UnconnectedOK
  <2>6. QED
    BY <2>4, <2>5 DEF RequestInvariant, LinkOK
<1>3. CASE RequestTimesOut(d)
  <2>1. /\ UNCHANGED <<link, failures, nextId, made, wire>> /\ burst' = FALSE
        /\ Fail({d}) /\ Settle(IdOf(d)) /\ IdOf(d) # {}
    BY <1>3 DEF RequestTimesOut, Event
  <2>2. Settles
    BY <2>1, FailSettles, SettleShrinks DEF Settles
  <2>3. link = "ready"
    BY <1>1, <2>1, ClientAssumption
       DEF LinkOK, LinkTypeOK, HandshakeOK, UnconnectedOK, IdOf
  <2>4. LinkTypeOK' /\ HandshakeOK' /\ UnconnectedOK'
    BY <1>1, <2>1, <2>3 DEF LinkOK, LinkTypeOK, HandshakeOK, UnconnectedOK
  <2>5. QED
    BY <1>1, <2>1, <2>2, <2>3, <2>4, SettledRequests DEF RequestInvariant, LinkOK
<1>4. CASE Finish(d) \/ TurnTimesOut(d) \/ Collect(d)
  <2>1. /\ UNCHANGED <<link, failures, requests>> /\ burst' = FALSE
        /\ pc[d] \in {"collecting", "started"}
        /\ pc' = [pc EXCEPT ![d] = IF pc[d] = "collecting" THEN "over" ELSE "collecting"]
    BY <1>4 DEF Finish, TurnTimesOut, Collect, At, Event, Continuation
  <2>2. Unstarted' \subseteq Unstarted
    BY <1>1, <2>1 DEF Unstarted
  <2>3. QED
    BY <2>1, <2>2, RequestsLeftAlone
<1>5. CASE Acquire(d) /\ ~Admissible
  <2>1. /\ UNCHANGED <<link, failures, requests>> /\ burst' = FALSE
        /\ pc[d] = "answered" /\ pc' = [pc EXCEPT ![d] = "waiting"]
    BY <1>5 DEF Acquire, At, Continuation
  <2>2. Unstarted' \subseteq Unstarted
    BY <1>1, <2>1 DEF Unstarted
  <2>3. QED
    BY <2>1, <2>2, RequestsLeftAlone
<1>6. CASE (Acquire(d) /\ Admissible) \/ CountResumed(d)
  BY <1>6, RequestsOnStart DEF Acquire, CountResumed, Continuation
<1>7. CASE Release(d)
  <2>1. /\ UNCHANGED <<link, failures, requests>> /\ burst' = FALSE /\ pc[d] = "over"
        /\ \/ pc' = [pc EXCEPT ![d] = "idle"]
           \/ /\ pc[Head(waiters)] = "waiting"
              /\ pc' = [pc EXCEPT ![d] = "idle", ![Head(waiters)] = "resumed"]
    BY <1>1, <1>7 DEF Release, At, Continuation, WaitersOK
  <2>2. Unstarted' \subseteq Unstarted
    BY <1>1, <2>1 DEF Unstarted
  <2>3. QED
    BY <2>1, <2>2, RequestsLeftAlone
<1>8. QED
  BY <1>2, <1>3, <1>4, <1>5, <1>6, <1>7 DEF Continue

LEMMA RequestStep ==
  ASSUME ClientInvariant, ClientInvariant', RequestInvariant, [Next]_vars
  PROVE  RequestInvariant'
<1>1. CASE UNCHANGED vars
  <2>1. UNCHANGED <<link, failures, requests, pc, burst>>
    BY <1>1 DEF vars, connection
  <2>2. QED
    BY <2>1, RequestsLeftAlone DEF Unstarted, RequestInvariant, LinkOK, LinkTypeOK
<1>2. CASE Next
  BY <1>2, RequestsOnConnection, RequestsOnAnswer, RequestsOnDispatch, RequestsOnDelivery DEF Next
<1>3. QED
  BY <1>1, <1>2

(* The invariant of the ids: where the allocator is on its circle, what it has *)
(* given out, and how many requests lie behind each answer to come.            *)
THEOREM RequestInvariantCorrect == Spec => []RequestInvariant
<1>1. Init => ClientInvariant /\ RequestInvariant
  BY ClientStarts, RequestsStart
<1>2. ClientInvariant /\ RequestInvariant /\ [Next]_vars => (ClientInvariant /\ RequestInvariant)'
  BY ClientStep, RequestStep
<1>3. QED
  BY <1>1, <1>2, PTL DEF Spec

(* Variables stay in their types, the attempts to connect and the requests     *)
(* below their bounds.                                                         *)
THEOREM ClientTypeCorrect == Spec => []ClientTypeOK
<1>1. ClientInvariant /\ RequestInvariant => ClientTypeOK
  <2> SUFFICES ASSUME ClientInvariant, RequestInvariant PROVE ClientTypeOK
    OBVIOUS
  <2>1. made \in 0 .. MaxRequests
    BY UnstartedFinite, ClientAssumption
       DEF ClientInvariant, CallsInvariant, PlacesOK, RequestInvariant, RoomOK
  <2>2. Len(history) <= HistoryLimit /\ DOMAIN turns \subseteq 1 .. made /\ active \in Nat
    BY DEF ClientInvariant, EventInvariant, HistoryOK, PermitInvariant, Counters
  <2>3. pc \in [Delivery -> {"idle", "asking", "waiting", "starting", "collecting"} \cup Ready]
    BY DEF ClientInvariant, CallsInvariant, PlacesOK, Place
  <2>4. QED
    BY <2>1, <2>2, <2>3 DEF ClientTypeOK, RequestInvariant, LinkOK, LinkTypeOK, IdsOK
<1>2. QED
  BY <1>1, ClientInvariantCorrect, RequestInvariantCorrect, PTL

(* An answer that comes late meets its own request, nobody's, or one made so   *)
(* many later that the ids have gone round (request_id.ts, client.ts).         *)
THEOREM AnswersAreOwn == Spec => []AnswerIsOwn
<1>1. RequestInvariant => AnswerIsOwn
  BY DEF RequestInvariant
<1>2. QED
  BY <1>1, RequestInvariantCorrect, PTL

-----------------------------------------------------------------------------
(* Nobody is stranded.                                                         *)

Calling == {"asking", "starting"}
TimersOK == \A d \in Delivery : pc[d] \in Calling => IdOf(d) # {}

(* Whoever waits is in the queue, and there is no permit to be had.            *)
QueueOK ==
  \A d \in Delivery : pc[d] = "waiting" =>
    d \in Range(waiters) /\ active + Cardinality(Resumed) >= MaxConcurrent

LEMMA StrandedParts == NobodyStranded <=> TimersOK /\ QueueOK
BY DEF NobodyStranded, TimersOK, QueueOK, Calling, Resumed

LEMMA TimersStay ==
  ASSUME TimersOK, pending' = pending,
         \A d \in Delivery : pc'[d] \in Calling => pc[d] \in Calling
  PROVE  TimersOK'
BY DEF TimersOK, IdOf

LEMMA TimerSet ==
  ASSUME TimersOK, Free # {}, nextId \in 1 .. MaxId, NEW who, Request(who),
         \A d \in Delivery \ {who} : pc'[d] \in Calling => pc[d] \in Calling
  PROVE  TimersOK'
<1>1. /\ AcquiredId \notin DOMAIN pending /\ DOMAIN pending' = DOMAIN pending \cup {AcquiredId}
      /\ pending'[AcquiredId].who = who
      /\ \A i \in DOMAIN pending : pending'[i] = pending[i]
  BY AcquiredIdFirst DEF Request, Free
<1>2. QED
  BY <1>1 DEF TimersOK, IdOf

(* A request is settled together with what its delivery does next.             *)
LEMMA TimersEnd ==
  ASSUME TimersOK, NEW ids, Settle(ids),
         \A d \in Delivery : pc'[d] \in Calling => pc[d] \in Calling /\ IdOf(d) \cap ids = {}
  PROVE  TimersOK'
<1>1. /\ DOMAIN pending' = DOMAIN pending \ ids
      /\ \A i \in DOMAIN pending' : pending'[i] = pending[i]
  BY SettleShrinks
<1>2. \A d \in Delivery : IdOf(d) \cap ids = {} => IdOf(d) \subseteq IdOf(d)'
  BY <1>1 DEF IdOf
<1>3. QED
  BY <1>2 DEF TimersOK

LEMMA QueueStays ==
  ASSUME QueueOK, UNCHANGED <<active, waiters>>, Resumed' = Resumed,
         \A d \in Delivery : pc'[d] = "waiting" => pc[d] = "waiting"
  PROVE  QueueOK'
BY DEF QueueOK

LEMMA FailStrands ==
  ASSUME NEW who, Fail(who)
  PROVE  /\ Resumed' = Resumed
         /\ \A d \in Delivery : pc'[d] = "waiting" => pc[d] = "waiting"
         /\ \A d \in Delivery : pc'[d] \in Calling => pc[d] \in Calling /\ d \notin who
BY DEF Fail, Resumed, Calling

LEMMA StrandedOnConnection ==
  ASSUME ClientInvariant, RequestInvariant, TimersOK, QueueOK,
         OpenFails \/ Open \/ Disconnect \/ HandshakeTimesOut
  PROVE  TimersOK' /\ QueueOK'
<1> USE DEF connection, requests, events, permits
<1>1. CASE OpenFails
  BY <1>1, TimersStay, QueueStays DEF OpenFails, Resumed
<1>2. CASE Open
  <2>1. \A d \in Delivery : pc'[d] = "idle"
    BY <1>2 DEF Open, RequestInvariant, LinkOK, UnconnectedOK
  <2>2. QED
    BY <2>1 DEF TimersOK, QueueOK, Calling
<1>3. CASE Disconnect
  <2>1. /\ Fail({pending[i].who : i \in DOMAIN pending}) /\ Settle(DOMAIN pending)
        /\ UNCHANGED <<active, waiters>>
    BY <1>3 DEF Disconnect
  <2>2. \A d \in Delivery : pc'[d] \in Calling => pc[d] \in Calling /\ IdOf(d) \cap DOMAIN pending = {}
    BY <2>1, FailStrands DEF IdOf
  <2>3. TimersOK'
    BY <2>1, <2>2, TimersEnd
  <2>4. QueueOK'
    BY <2>1, FailStrands, QueueStays
  <2>5. QED
    BY <2>3, <2>4
<1>4. CASE HandshakeTimesOut
  <2>1. \A d \in Delivery : pc'[d] = "idle"
    BY <1>4 DEF HandshakeTimesOut, IdOf, ClientInvariant, CallsInvariant, PendingOK,
                RequestInvariant, LinkOK, UnconnectedOK
  <2>2. QED
    BY <2>1 DEF TimersOK, QueueOK, Calling
<1>5. QED
  BY <1>1, <1>2, <1>3, <1>4

LEMMA StrandedOnAnswer ==
  ASSUME ClientInvariant, RequestInvariant, TimersOK, QueueOK, NEW r \in wire,
         (\E ok \in BOOLEAN : Answer(r, ok)) \/ Refused(r) \/ OrphanResponse(r)
  PROVE  TimersOK' /\ QueueOK'
<1> USE DEF connection, requests, events, permits
<1>1. PendingOK /\ UnconnectedOK /\ pc \in [Delivery -> Place]
  BY DEF ClientInvariant, CallsInvariant, PlacesOK, RequestInvariant, LinkOK
<1>2. CASE Refused(r)
  <2>1. \A d \in Delivery : pc'[d] = "idle"
    BY <1>1, <1>2 DEF Refused, PendingOK, UnconnectedOK
  <2>2. QED
    BY <2>1 DEF TimersOK, QueueOK, Calling
<1>3. CASE OrphanResponse(r)
  BY <1>3, TimersStay, QueueStays DEF OrphanResponse, Resumed
<1>4. ASSUME NEW ok \in BOOLEAN, Answer(r, ok)
      PROVE  TimersOK' /\ QueueOK'
  <2> DEFINE who == pending[r.id].who
  <2>1. /\ r.id \in DOMAIN pending /\ Settle({r.id}) /\ UNCHANGED <<active, waiters>>
        /\ \A d \in Delivery : d # who => IdOf(d) \cap {r.id} = {}
    BY <1>4 DEF Answer, IdOf
  <2>2. CASE who = Handshake
    <3>1. \A d \in Delivery : pc'[d] = "idle"
      BY <1>1, <1>4, <2>1, <2>2 DEF Answer, PendingOK, UnconnectedOK
    <3>2. QED
      BY <3>1 DEF TimersOK, QueueOK, Calling
  <2>3. CASE who # Handshake /\ ok /\ Fits(who, r)
    <3>1. /\ who \in Delivery /\ pc[who] \in Calling
          /\ pc' = [pc EXCEPT ![who] = IF pc[who] = "asking" THEN "answered" ELSE "started"]
      BY <1>1, <1>4, <2>1, <2>3 DEF Answer, At, PendingOK, Calling
    <3>2. /\ \A d \in Delivery : pc'[d] \in Calling => pc[d] \in Calling /\ d # who
          /\ \A d \in Delivery : pc'[d] = "waiting" => pc[d] = "waiting"
          /\ Resumed' = Resumed
      BY <1>1, <3>1 DEF Calling, Resumed
    <3>3. QED
      BY <2>1, <3>2, TimersEnd, QueueStays
  <2>4. CASE who # Handshake /\ ~(ok /\ Fits(who, r))
    <3>1. Fail({who})
      BY <1>4, <2>4 DEF Answer
    <3>2. \A d \in Delivery : pc'[d] \in Calling => pc[d] \in Calling /\ IdOf(d) \cap {r.id} = {}
      BY <2>1, <3>1, FailStrands
    <3>3. QED
      BY <2>1, <3>1, <3>2, FailStrands, TimersEnd, QueueStays
  <2>5. QED
    BY <2>2, <2>3, <2>4
<1>5. QED
  BY <1>2, <1>3, <1>4

LEMMA StrandedOnStart ==
  ASSUME ClientInvariant, RequestInvariant, TimersOK, NEW d \in Delivery,
         pc[d] \in {"answered", "resumed"}, StartTurn(d)
  PROVE  /\ TimersOK'
         /\ \A e \in Delivery : pc'[e] = "waiting" => pc[e] = "waiting"
         /\ Resumed' = Resumed \ {d}
<1> USE DEF connection, requests
<1>1. PendingOK /\ IdsOK /\ HandshakeOK /\ pc \in [Delivery -> Place]
  BY DEF ClientInvariant, CallsInvariant, PlacesOK, RequestInvariant, LinkOK
<1>2. CASE link = "ready"
  <2>1. Request(d) /\ pc' = [pc EXCEPT ![d] = "starting"]
    BY <1>2 DEF StartTurn, At
  <2>2. Free # {} /\ nextId \in 1 .. MaxId
    BY <1>1, <1>2, FreeLeft DEF IdsOK
  <2>3. \A e \in Delivery \ {d} : pc'[e] = pc[e]
    BY <1>1, <2>1
  <2>4. TimersOK'
    BY <2>1, <2>2, <2>3, TimerSet
  <2>5. QED
    BY <1>1, <2>1, <2>4 DEF Resumed
<1>3. CASE link # "ready"
  <2>1. pending' = pending /\ pc' = [pc EXCEPT ![d] = "over"]
    BY <1>3 DEF StartTurn, At
  <2>2. \A e \in Delivery : pc'[e] \in Calling => pc[e] \in Calling
    BY <1>1, <2>1 DEF Calling
  <2>3. QED
    BY <1>1, <2>1, <2>2, TimersStay DEF Resumed
<1>4. QED
  BY <1>2, <1>3

LEMMA StrandedOnDelivery ==
  ASSUME ClientInvariant, RequestInvariant, TimersOK, QueueOK, NEW d \in Delivery,
         \/ Ask(d) \/ RequestTimesOut(d) \/ Finish(d) \/ TurnTimesOut(d) \/ Continue(d)
  PROVE  TimersOK' /\ QueueOK'
<1> USE DEF connection, requests, events, permits
<1>1. /\ PendingOK /\ WaitersOK /\ IdsOK /\ pc \in [Delivery -> Place] /\ active \in Nat
  BY DEF ClientInvariant, CallsInvariant, PlacesOK, RequestInvariant, PermitInvariant, Counters
<1>2. CASE Ask(d)
  <2>1. /\ link = "ready" /\ Request(d) /\ pc[d] = "idle" /\ pc' = [pc EXCEPT ![d] = "asking"]
        /\ UNCHANGED <<active, waiters>>
    BY <1>2 DEF Ask, At
  <2>2. Free # {} /\ nextId \in 1 .. MaxId
    BY <1>1, <2>1, FreeLeft DEF IdsOK
  <2>3. /\ \A e \in Delivery \ {d} : pc'[e] = pc[e]
        /\ \A e \in Delivery : pc'[e] = "waiting" => pc[e] = "waiting"
        /\ Resumed' = Resumed
    BY <1>1, <2>1 DEF Resumed
  <2>4. QED
    BY <2>1, <2>2, <2>3, TimerSet, QueueStays
<1>3. CASE RequestTimesOut(d)
  <2>1. Fail({d}) /\ Settle(IdOf(d)) /\ UNCHANGED <<active, waiters>>
    BY <1>3 DEF RequestTimesOut
  <2>2. \A e \in Delivery : pc'[e] \in Calling => pc[e] \in Calling /\ IdOf(e) \cap IdOf(d) = {}
    BY <2>1, FailStrands DEF IdOf
  <2>3. QED
    BY <2>1, <2>2, FailStrands, TimersEnd, QueueStays
<1>4. CASE Finish(d) \/ TurnTimesOut(d) \/ Collect(d)
  <2>1. /\ UNCHANGED <<pending, active, waiters>> /\ pc[d] \in {"collecting", "started"}
        /\ pc' = [pc EXCEPT ![d] = IF pc[d] = "collecting" THEN "over" ELSE "collecting"]
    BY <1>4 DEF Finish, TurnTimesOut, Collect, At
  <2>2. /\ \A e \in Delivery : pc'[e] \in Calling => pc[e] \in Calling
        /\ \A e \in Delivery : pc'[e] = "waiting" => pc[e] = "waiting"
        /\ Resumed' = Resumed
    BY <1>1, <2>1 DEF Calling, Resumed
  <2>3. QED
    BY <2>1, <2>2, TimersStay, QueueStays
<1>5. CASE Acquire(d) /\ ~Admissible
  <2>1. /\ pc[d] = "answered" /\ pc' = [pc EXCEPT ![d] = "waiting"]
        /\ waiters' = Append(waiters, d) /\ UNCHANGED <<pending, active>> /\ active >= MaxConcurrent
    BY <1>1, <1>5, HoldersFinite DEF Acquire, At, Admissible
  <2>2. Resumed' = Resumed /\ \A e \in Delivery : pc'[e] \in Calling => pc[e] \in Calling
    BY <1>1, <2>1 DEF Resumed, Calling
  <2>3. Range(waiters') = Range(waiters) \cup {d}
    BY <1>1, <2>1 DEF WaitersOK, Range
  <2>4. active' + Cardinality(Resumed') >= MaxConcurrent
    BY <1>1, <2>1, <2>2, HoldersFinite
  <2>5. QueueOK'
    BY <1>1, <2>1, <2>3, <2>4 DEF QueueOK
  <2>6. QED
    BY <2>1, <2>2, <2>5, TimersStay
<1>6. CASE Acquire(d) /\ Admissible
  <2>1. /\ pc[d] = "answered" /\ StartTurn(d) /\ active' = active + 1 /\ waiters' = waiters
    BY <1>6 DEF Acquire
  <2>2. /\ TimersOK' /\ Resumed' = Resumed
        /\ \A e \in Delivery : pc'[e] = "waiting" => pc[e] = "waiting"
    BY <2>1, StrandedOnStart DEF Resumed
  <2>3. QueueOK'
    BY <1>1, <2>1, <2>2, HoldersFinite DEF QueueOK
  <2>4. QED
    BY <2>2, <2>3
<1>7. CASE CountResumed(d)
  <2>1. /\ pc[d] = "resumed" /\ StartTurn(d) /\ active' = active + 1 /\ waiters' = waiters
    BY <1>7 DEF CountResumed
  <2>2. /\ TimersOK' /\ Resumed' = Resumed \ {d} /\ d \in Resumed
        /\ \A e \in Delivery : pc'[e] = "waiting" => pc[e] = "waiting"
    BY <2>1, StrandedOnStart DEF Resumed
  <2>3. Cardinality(Resumed') = Cardinality(Resumed) - 1
    BY <2>2, HoldersFinite, FS_RemoveElement
  <2>4. QueueOK'
    BY <1>1, <2>1, <2>2, <2>3, HoldersFinite DEF QueueOK
  <2>5. QED
    BY <2>2, <2>4
<1>8. CASE Release(d) /\ waiters = <<>>
  <2>1. \A e \in Delivery : pc[e] # "waiting"
    BY <1>8 DEF QueueOK, Range
  <2>2. pending' = pending /\ pc[d] = "over" /\ pc' = [pc EXCEPT ![d] = "idle"]
    BY <1>8 DEF Release, At
  <2>3. \A e \in Delivery : pc'[e] # "waiting" /\ (pc'[e] \in Calling => pc[e] \in Calling)
    BY <1>1, <2>1, <2>2 DEF Calling
  <2>4. QED
    BY <2>2, <2>3, TimersStay DEF QueueOK
<1>9. CASE Release(d) /\ waiters # <<>>
  <2> DEFINE first == Head(waiters)
  <2>1. /\ pending' = pending /\ pc[d] = "over" /\ waiters' = Tail(waiters) /\ active' = active - 1
        /\ pc' = [pc EXCEPT ![d] = "idle", ![first] = "resumed"]
        /\ first \in Delivery /\ pc[first] = "waiting" /\ first \in Range(waiters)
    BY <1>1, <1>9 DEF Release, WaitersOK, Range
  <2>2. /\ \A e \in Delivery : pc'[e] \in Calling => pc[e] \in Calling
        /\ \A e \in Delivery : pc'[e] = "waiting" => pc[e] = "waiting" /\ e # first
        /\ Resumed' = Resumed \cup {first} /\ first \notin Resumed
    BY <1>1, <2>1 DEF Calling, Resumed
  <2>3. Cardinality(Resumed') = Cardinality(Resumed) + 1
    BY <2>2, HoldersFinite, FS_AddElement
  <2>4. active' + Cardinality(Resumed') >= MaxConcurrent
    BY <1>1, <2>1, <2>3, HoldersFinite DEF QueueOK
  <2>5. \A e \in Range(waiters) : e = first \/ e \in Range(waiters')
    <3>1. /\ Len(waiters) \in Nat /\ DOMAIN waiters = 1 .. Len(waiters) /\ first = waiters[1]
          /\ DOMAIN waiters' = 1 .. Len(waiters) - 1
          /\ \A i \in 2 .. Len(waiters) : i - 1 \in DOMAIN waiters' /\ waiters'[i - 1] = waiters[i]
      BY <1>1, <1>9, <2>1 DEF WaitersOK
    <3>2. \A i \in DOMAIN waiters : i = 1 \/ i \in 2 .. Len(waiters)
      BY <3>1
    <3>3. QED
      BY <3>1, <3>2 DEF Range
  <2>6. QueueOK'
    BY <2>2, <2>4, <2>5 DEF QueueOK
  <2>7. QED
    BY <2>1, <2>2, <2>6, TimersStay
<1>10. QED
  BY <1>2, <1>3, <1>4, <1>5, <1>6, <1>7, <1>8, <1>9 DEF Continue

LEMMA StrandedStep ==
  ASSUME ClientInvariant, RequestInvariant, NobodyStranded, [Next]_vars
  PROVE  NobodyStranded'
<1>1. TimersOK /\ QueueOK
  BY StrandedParts
<1>2. TimersOK' /\ QueueOK'
  <2>1. CASE UNCHANGED vars
    BY <1>1, <2>1, TimersStay, QueueStays DEF vars, requests, permits, Resumed
  <2>2. CASE Next
    <3>1. ASSUME NEW n \in DOMAIN turns, ItemCompleted(n) \/ TurnCompleted(n)
          PROVE  TimersOK' /\ QueueOK'
      BY <1>1, <3>1, TimersStay, QueueStays DEF ItemCompleted, TurnCompleted, requests, permits, Resumed
    <3>2. QED
      BY <1>1, <2>2, <3>1, StrandedOnConnection, StrandedOnAnswer, StrandedOnDelivery DEF Next
  <2>3. QED
    BY <2>1, <2>2
<1>3. QED
  BY <1>2 DEF NobodyStranded, TimersOK, QueueOK, Calling, Resumed

(* No delivery waits for a request without a timer, and none for a permit that *)
(* is free or outside the queue (client.ts, scheduler.ts:335-347).             *)
THEOREM NobodyIsStranded == Spec => []NobodyStranded
<1>1. Init => NobodyStranded
  BY DEF Init, NobodyStranded
<1>2. QED
  BY <1>1, StrandedStep, ClientInvariantCorrect, RequestInvariantCorrect, PTL DEF Spec
=============================================================================
