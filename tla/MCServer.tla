------------------------------- MODULE MCServer -------------------------------
(***************************************************************************)
(* A small instance of Server: a repository with two declarations, one of  *)
(* which calls the other, and a repository with one of them.               *)
(***************************************************************************)
EXTENDS Server, TLC

CONSTANTS r1, r2, c1, c2, f1, d1, d2

MCFileOf == d1 :> f1 @@ d2 :> f1
MCTree == r1 :> {d1, d2} @@ r2 :> {d2}
MCCallees == d1 :> {d2} @@ d2 :> {}

Symmetry == Permutations(Caller)
=============================================================================
