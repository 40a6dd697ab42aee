----------------------------- MODULE MCJobCowork -----------------------------
(***************************************************************************)
(* Small instances of JobCowork: the results a scan may have, and the      *)
(* symmetry of the threads.                                                *)
(***************************************************************************)
EXTENDS JobCowork, TLC

Result(status, live, deltas, loop) ==
    [status |-> status, live |-> live, deltas |-> deltas,
     unlabelled |-> FALSE, loop |-> loop]

HeldScan == Result("COMPLETED", TRUE, {"both_held"}, "none")
MissedScan == Result("COMPLETED", TRUE, {"antibody_learned", "replay_missed"}, "failed")
OpenScan == Result("COMPLETED", TRUE, {"waf_blocked", "origin_open"}, "ok")
DeadScan == Result("PARTIAL", FALSE, {}, "none")

FourScans == {HeldScan, MissedScan, OpenScan, DeadScan}
TwoScans == {HeldScan, MissedScan}

WorkerSymmetry == Permutations(Workers)

=============================================================================
