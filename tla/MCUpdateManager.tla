--------------------------- MODULE MCUpdateManager --------------------------
(***************************************************************************)
(* A host with two configuration files.                                    *)
(***************************************************************************)
EXTENDS UpdateManager, TLC

ConfSymmetry == Permutations(Confs)

=============================================================================
