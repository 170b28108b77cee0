------------------------- MODULE MCWorkspaceWatcher -------------------------
(***************************************************************************)
(* A small instance of WorkspaceWatcher: f1 has two versions, f2 has one.  *)
(***************************************************************************)
EXTENDS WorkspaceWatcher, TLC

CONSTANTS r1, f1, f2, a1, a2, d1, d2, d3, w1, w2, c1, c2

MCFileOf == d1 :> f1 @@ d2 :> f1 @@ d3 :> f2
MCAbs == f1 :> a1 @@ f2 :> a2
MCVersions == f1 :> {{d1}, {d2}} @@ f2 :> {{d3}}

MCOneFileOf == d1 :> f1 @@ d2 :> f1
MCOneAbs == f1 :> a1
MCOneFile == f1 :> {{d1}, {d2}}
=============================================================================
