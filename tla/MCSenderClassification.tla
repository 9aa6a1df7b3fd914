----------------------- MODULE MCSenderClassification -----------------------
(* SenderClassification for TLC. *)
EXTENDS SenderClassification, TLC

Symmetry == Permutations(Runs)
=============================================================================
