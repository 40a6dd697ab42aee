---- MODULE MCStarterSites ----
(***************************************************************************)
(* StarterSites for TLC.  Customers, slugs and calls are model values and  *)
(* interchangeable: their permutations are a sound symmetry for invariants.*)
(***************************************************************************)
EXTENDS StarterSites, TLC

StarterSymmetry ==
  Permutations(Customers) \cup Permutations(Slugs) \cup Permutations(Calls)
====
