------------------------ MODULE AppServerClientProperties ------------------------
(* What a delivery may rely on when it talks to the app-server.               *)
EXTENDS AppServerClient

ClientTypeOK ==
  /\ link \in {"disconnected", "handshaking", "ready", "lost"}
  /\ failures \in 0 .. ReconnectLimit + 1
  /\ nextId \in 1 .. MaxId
  /\ DOMAIN pending \subseteq 1 .. MaxId
  /\ \A i \in DOMAIN pending : pending[i] \in [who : Delivery \cup {Handshake}, n : 1 .. made]
  /\ made \in 0 .. MaxRequests
  /\ wire \subseteq [id : 1 .. MaxId, n : 1 .. made]
  /\ DOMAIN turns \subseteq 1 .. made
  /\ Len(history) <= HistoryLimit
  /\ pc \in [Delivery -> {"idle", "asking", "waiting", "starting", "collecting"} \cup Ready]
  /\ active \in Nat
  /\ burst \in BOOLEAN

\* The deliveries that hold a permit.
Admitted == {d \in Delivery : pc[d] \in {"starting", "started", "collecting", "over"}}

\* An answer that is still to come would settle only the request it belongs to,
\* also after that request has timed out and given its id back; the ids have to
\* go round once before another request can take it for its own.
AnswerIsOwn ==
  \A r \in wire : r.id \in DOMAIN pending =>
    \/ pending[r.id].n = r.n
    \/ pending[r.id].n - r.n > MaxId - Cardinality(Delivery)

\* A collector has every message of its turn that was received, and knows of its
\* end, wherever the answer to turn/start came among the events; unless more
\* events came before the answer than the history of the router holds, or the
\* answer was one that AnswerIsOwn allows for.
NothingMissed ==
  \A d \in Delivery : pc[d] = "collecting" /\ ~turn[d].lossy /\ turn[d].n = turn[d].asked =>
    /\ turn[d].items = turns[turn[d].n].items
    /\ turn[d].ended = turns[turn[d].n].ended

\* The permits are counted right, and as many deliveries as are allowed have one,
\* plus one for each time that a permit was taken while a waiter was resumed for it.
PermitsBounded ==
  /\ active = Cardinality(Admitted)
  /\ active + Cardinality({d \in Delivery : pc[d] = "resumed"}) <= MaxConcurrent + overtaken

\* Nobody is left behind, whatever fails: a delivery that asks or starts has a request
\* with a timer that ends it, one that waits for a permit is in the queue, and then
\* every permit is held, or meant for a waiter that is being resumed.
NobodyStranded ==
  \A d \in Delivery :
    /\ pc[d] \in {"asking", "starting"} => IdOf(d) # {}
    /\ pc[d] = "waiting" =>
         /\ d \in Range(waiters)
         /\ active + Cardinality({e \in Delivery : pc[e] = "resumed"}) >= MaxConcurrent

\* A delivery comes to an end whatever the app-server, the connection and the
\* other deliveries do: no request, turn or permit is waited for without end.
DeliveryEnds(d) == pc[d] # "idle" ~> pc[d] = "idle"
=============================================================================
