----------------------------- MODULE MC_Update -----------------------------
(* Instances of Update for TLC. *)
EXTENDS Update, TLC

CONSTANTS u1, u2

TwoRevisionsAhead == (1 :> 1) @@ (2 :> 3)
Symmetric == Permutations(Updaters)
=============================================================================
