----------------------------- MODULE MCCloudRun -----------------------------
(* Instances of CloudRun for TLC: an execution costs less or more than the *)
(* estimate, or more than allowed.                                         *)
EXTENDS CloudRun, TLC

Symmetry == Permutations(Calls) \union Permutations(Estimates)
=============================================================================
