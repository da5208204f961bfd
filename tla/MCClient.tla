------------------------------- MODULE MCClient -------------------------------
(* A small instance of the app-server client for TLC.                       *)
EXTENDS AppServerClientProperties

CONSTANT Watched     \* one delivery; the deliveries are all alike

\* The delivery that is watched comes to an end (DeliveryEnds).
WatchedEnds == DeliveryEnds(Watched)
=============================================================================
