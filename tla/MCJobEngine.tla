---------------------------- MODULE MCJobEngine ----------------------------
(* Instances of JobEngine for TLC. *)
EXTENDS JobEngine, TLC

CONSTANTS r1, r2

OneJob == 1..1
NoJobs == {}

(* Run identities are interchangeable: only equality is ever tested.       *)
RunSymmetry == Permutations(Runs)
=============================================================================
