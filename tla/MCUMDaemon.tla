----------------------------- MODULE MCUMDaemon -----------------------------
(***************************************************************************)
(* Two daemons, an edit of a customer that is there from the start, and an *)
(* edit of one that comes later.                                           *)
(***************************************************************************)
EXTENDS UMDaemon, TLC

CONSTANTS d1, d2, e1, e2, t1, t2

MCTokenOf == [e \in Edits |-> IF e = e1 THEN t1 ELSE t2]

DaemonSymmetry == Permutations(Daemons)

=============================================================================
