---------------------------- MODULE MCUpdateSystem ----------------------------
(***************************************************************************)
(* A host with two configuration files and its agent.                      *)
(***************************************************************************)
EXTENDS UpdateSystem, TLC

ConfSymmetry == Permutations(Confs)

=============================================================================
