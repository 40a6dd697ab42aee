---- MODULE MCKreditPortal ----
(***************************************************************************)
(* KreditPortal for TLC.  Ids are model values, interchangeable, so their  *)
(* permutations are a sound symmetry for invariants and action properties. *)
(***************************************************************************)
EXTENDS KreditPortal, TLC

IdSymmetry ==
  Permutations(Sid) \cup Permutations(AccountId)
    \cup Permutations(Request) \cup Permutations(TopupId)
====
