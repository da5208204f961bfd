----------------------------- MODULE MCBootstrap -----------------------------
(***************************************************************************)
(* Instances of the bootstrap for TLC.                                     *)
(***************************************************************************)
EXTENDS HostBootstrapProperties

=============================================================================
