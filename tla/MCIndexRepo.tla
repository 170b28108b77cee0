---------------------------- MODULE MCIndexRepo ----------------------------
(***************************************************************************)
(* A small instance of IndexRepo: two files, one of them in two versions   *)
(* (d2 and d3), one declaration each but for the shared file of d1.        *)
(***************************************************************************)
EXTENDS IndexRepo, TLC

CONSTANTS r1, r2, c1, c2, f1, f2, d1, d2, d3, rust, python

MCFileOf == d1 :> f1 @@ d2 :> f2 @@ d3 :> f2
MCLangOf == d1 :> rust @@ d2 :> python @@ d3 :> python
MCTrees == {{d1, d2}, {d1, d3}}
MCTwoTrees == {{d2}, {d1, d3}}
MCOneLang == [d \in {d1, d2, d3} |-> rust]

Symmetry == Permutations(Caller)
=============================================================================
