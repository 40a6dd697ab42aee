---------------------------- MODULE MCPortalGate ----------------------------
(* A small browser for TLC. *)
EXTENDS PortalGate

=============================================================================
