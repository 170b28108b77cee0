---------------------------- MODULE MCRepoCache ----------------------------
(***************************************************************************)
(* A small instance of RepoCache.  The symbol tables play no part: no      *)
(* declarations.                                                           *)
(***************************************************************************)
EXTENDS RepoCache

CONSTANTS r1, r2, r3, c1, c2, f1

MCDecl == {}
MCFileOf == [d \in {} |-> f1]
=============================================================================
