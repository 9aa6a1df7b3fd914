---------------------------- MODULE MCDeployment ----------------------------
(* Deployment for TLC. *)
EXTENDS Deployment, TLC

Symmetry == Permutations(Flows) \cup Permutations(Emails) \cup Permutations(SecretKeys)
=============================================================================
