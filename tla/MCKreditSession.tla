-------------------------- MODULE MCKreditSession --------------------------
(* Small instances of KreditSession for TLC.                                *)
EXTENDS KreditSession

=============================================================================
