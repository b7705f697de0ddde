----------------------------- MODULE MCOutboxRelay -----------------------------
(* The instance of OutboxRelay for TLC; OutboxRelay.cfg gives its constants. The *)
(* run checks a liveness property, so it declares no symmetry.                   *)
EXTENDS OutboxRelay
================================================================================
