------------------------------ MODULE MCJobQueue ------------------------------
(* Instances of JobQueue for TLC. *)
EXTENDS JobQueue, TLC

CONSTANTS j1, j2, w1, w2, k1

JobAndWorkerSymmetry == Permutations(Jobs) \cup Permutations(Workers)
=============================================================================
