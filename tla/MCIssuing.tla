------------------------------- MODULE MCIssuing -------------------------------
(* Instances of Issuing for TLC. *)
EXTENDS Issuing, TLC
CONSTANTS t1, t2, t3, t4
Symmetry == Permutations(Txns \ Queued)
=============================================================================
