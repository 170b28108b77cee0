---------------------------- MODULE MCDepIndexer ----------------------------
(***************************************************************************)
(* A small instance of DepIndexer: a Rust package, a C++ package that two  *)
(* installation directories list twice, and one without a source.          *)
(***************************************************************************)
EXTENDS DepIndexer, TLC

CONSTANTS p1, p2, p3, f1, f2, d1, d2, c1, c2

MCFileOf == d1 :> f1 @@ d2 :> f2
MCSource == p1 :> {d1, d2} @@ p2 :> {d1} @@ p3 :> NoSource
MCManifests == {<<p1, p3>>, <<p2, p2>>, <<>>}
=============================================================================
