----------------------------- MODULE MCSocDesk -----------------------------
(* Small instances of SocDesk for TLC: the safety run treats the hosts alike. *)
EXTENDS SocDesk, TLC

HostSymmetry == Permutations(Hosts)

=============================================================================
