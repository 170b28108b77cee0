-------------------------------- MODULE Search --------------------------------
(***************************************************************************)
(* locate_implementation (fossil-server/src/tools.rs) with the queries it  *)
(* makes of the store and the searchers of fossil-search.  It reads the    *)
(* tables in several statements, each of which sees its own state of them. *)
(*                                                                         *)
(* How near a vector is to the query, and how well a name matches it, is   *)
(* abstracted: any vectors may be the nearest, any names may match.        *)
(***************************************************************************)
EXTENDS GlobalStore

CONSTANTS
    Caller,         \* concurrent tool calls
    AllRepos,       \* the scope of a search without a repo_id
    NoText,         \* a hit of the fuzzy search, found by its name
    Callees,        \* the Decls a Decl calls
    MaxFailures     \* bound on the failures

ASSUME ScopeAssumption == AllRepos \notin Repo /\ NoText \notin Decl
ASSUME CalleesAssumption == Callees \in [Decl -> SUBSET Decl]

VARIABLES
    find,           \* per caller: the handler's control point and its locals
    failures        \* number of failures so far

FindRest == {"idle", "done", "failed"}
FindPoints == {"mark", "load", "knn", "fuzzy", "callees", "callers"}

\* text: what the vector that found the symbol was computed from.
Hit == [sym : Symbol, text : Decl \cup {NoText}]

\* shown: the symbols loaded.  hits: search_results; todo: those without their
\* related symbols.  semantic: the hits come from the embeddings.
Find == [pc : FindRest \cup FindPoints, scope : Repo \cup {AllRepos}, k : Nat,
         shown : SUBSET Symbol, hits : SUBSET Hit, todo : SUBSET Hit,
         related : SUBSET (Hit \X (Repo \X Decl))]

FindResting(pc) ==
    [pc |-> pc, scope |-> AllRepos, k |-> 0,
     shown |-> {}, hits |-> {}, todo |-> {}, related |-> {}]

FindAt(c, pc) == find[c].pc = pc
FindGoto(c, pc) == find' = [find EXCEPT ![c].pc = pc]
FindFail(c) == find' = [find EXCEPT ![c] = FindResting("failed")]

Works == UNCHANGED failures
Fails == failures < MaxFailures /\ failures' = failures + 1

BeginFind(c, scope, k) ==
    find' = [find EXCEPT ![c] = [FindResting("mark") EXCEPT !.scope = scope, !.k = k]]

----------------------------------------------------------------------------
(* The queries.                                                            *)

InScope(r, scope) == scope \in {r, AllRepos}

SymbolsIn(scope) == {s \in symbols : InScope(s.repo, scope)}

\* Mutant: the repository is not part of the query, its hits are picked out of
\* the k nearest of all.
CandidatesMutant(scope) == vecs

\* `symbol_id IN (SELECT ...)` restricts the search itself; without a repo_id
\* the table of symbols plays no part.
Candidates(scope) ==
    IF scope = AllRepos THEN vecs ELSE {v \in vecs : v.id \in Ids(RowsOf(scope))}

LeastOf(m, n) == IF m < n THEN m ELSE n

Nearest(k, scope) ==
    {near \in SUBSET Candidates(scope) :
        Cardinality(near) = LeastOf(k, Cardinality(Candidates(scope)))}

\* calls_made_by and callers_of look for a name: the same name in another
\* repository of the scope is found too.
CallsMadeBy(d, scope) ==
    {e \in Repo \X {d} : InScope(e[1], scope) /\ edges[e] > 0}
CallersOf(d, scope) ==
    {e \in Repo \X Decl : InScope(e[1], scope) /\ edges[e] > 0 /\ d \in Callees[e[2]]}

----------------------------------------------------------------------------
(* The steps of locate_implementation.                                     *)

\* The store is opened, which may fail; the failure of mark_accessed is ignored.
Mark(c) ==
    /\ FindAt(c, "mark")
    /\ \/ /\ FindGoto(c, "load")
          /\ \/ find[c].scope # AllRepos /\ MarkAccessed(find[c].scope) /\ Works
             \/ find[c].scope = AllRepos /\ UNCHANGED storeVars /\ Works
             \/ find[c].scope # AllRepos /\ UNCHANGED storeVars /\ Fails
       \/ FindFail(c) /\ Fails /\ UNCHANGED storeVars

LoadSymbols(c) ==
    LET shown == SymbolsIn(find[c].scope)
    IN  /\ FindAt(c, "load")
        /\ \/ /\ shown # {} /\ Works
              /\ find' = [find EXCEPT ![c].shown = shown, ![c].pc = "knn"]
           \/ shown = {} /\ FindFail(c) /\ Works
           \/ FindFail(c) /\ Fails
        /\ UNCHANGED storeVars

\* The symbol of a vector is looked up among those loaded before; a vector
\* without one takes a place among the k nearest and is dropped.
HitsOf(near, shown) ==
    {[sym |-> p[2], text |-> p[1].decl] : p \in
        {q \in near \X shown : q[1].id = q[2].id}}

SemanticSearch(c) ==
    /\ FindAt(c, "knn")
    /\ \/ /\ \E near \in Nearest(find[c].k, find[c].scope) :
                LET found == HitsOf(near, find[c].shown)
                IN  find' = [find EXCEPT ![c].hits = found, ![c].todo = found,
                                         ![c].pc = IF found = {} THEN "fuzzy" ELSE "callees"]
          /\ Works
       \/ FindGoto(c, "fuzzy") /\ Fails
    /\ UNCHANGED storeVars

\* A query of spaces matches nothing.
FuzzySearch(c) ==
    /\ FindAt(c, "fuzzy")
    /\ \E matching \in SUBSET find[c].shown :
          /\ Cardinality(matching) <= find[c].k
          /\ LET found == {[sym |-> s, text |-> NoText] : s \in matching}
             IN  find' = [find EXCEPT ![c].hits = found, ![c].todo = found,
                                      ![c].pc = IF found = {} THEN "done" ELSE "callees"]
    /\ UNCHANGED <<storeVars, failures>>

\* The hits are taken from the nearest on, an order nothing depends on.
NextHit(c) == CHOOSE h \in find[c].todo : TRUE

\* A query that fails adds nothing.
FindCallees(c) ==
    LET h == NextHit(c)
    IN  /\ FindAt(c, "callees")
        /\ \/ /\ find' = [find EXCEPT ![c].pc = "callers",
                     ![c].related = @ \cup ({h} \X CallsMadeBy(h.sym.decl, find[c].scope))]
              /\ Works
           \/ FindGoto(c, "callers") /\ Fails
        /\ UNCHANGED storeVars

FindCallers(c) ==
    LET h == NextHit(c)
        left == find[c].todo \ {h}
        go == IF left = {} THEN "done" ELSE "callees"
    IN  /\ FindAt(c, "callers")
        /\ \/ /\ find' = [find EXCEPT ![c].pc = go, ![c].todo = left,
                     ![c].related = @ \cup ({h} \X CallersOf(h.sym.decl, find[c].scope))]
              /\ Works
           \/ find' = [find EXCEPT ![c].pc = go, ![c].todo = left] /\ Fails
        /\ UNCHANGED storeVars

FindStep(c) ==
    \/ Mark(c) \/ LoadSymbols(c) \/ SemanticSearch(c) \/ FuzzySearch(c)
    \/ FindCallees(c) \/ FindCallers(c)
=============================================================================
