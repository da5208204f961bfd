----------------------------- MODULE MCDelivery -----------------------------
(* Small instances of the delivery scheduler for TLC.                       *)
EXTENDS DeliveryProperties, TLC

CONSTANTS alice, bob, cfo

MCProc == {alice, bob}
MCRecipient == [m \in Message |-> cfo]
MCCreatedAt == [m \in Message |-> m]
ProcSymmetry == Permutations(MCProc)
=============================================================================
