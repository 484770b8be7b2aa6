---------------------------- MODULE MCSessionSync ----------------------------
(* SessionSync for TLC; the bounds are in the configurations.                *)
EXTENDS SessionSync

=============================================================================
