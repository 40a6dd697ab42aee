---- MODULE MCUpsellRouting ----
(***************************************************************************)
(* UpsellRouting for TLC.  As in MCStarterSites, customers, slugs and      *)
(* calls are interchangeable model values.                                 *)
(***************************************************************************)
EXTENDS UpsellRouting, TLC

RoutingSymmetry ==
  Permutations(Customers) \cup Permutations(Slugs) \cup Permutations(Calls)
====
