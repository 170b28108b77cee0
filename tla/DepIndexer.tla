----------------------------- MODULE DepIndexer -----------------------------
(***************************************************************************)
(* The tools index_rust_deps, index_python_deps, index_js_deps and         *)
(* index_cpp_deps (fossil-indexer/src/deps).  The four are one loop over   *)
(* the packages of a manifest: look the package up in indexed_packages,    *)
(* find its source, parse it, insert its symbols, insert its call edges,   *)
(* mark it indexed.  Rust differs in that a failed insert of edges ends    *)
(* the call; the others ignore it.  Each step is a transaction of its own, *)
(* and a failed or a concurrent call may find the package between any two. *)
(*                                                                         *)
(* Repo stands for the packages: (name, version, language) and the         *)
(* synthetic repo id made from them are one value.                         *)
(***************************************************************************)
EXTENDS GlobalStore, Sequences

CONSTANTS
    Rust,           \* the packages of Rust; a failure to insert edges is fatal
    NoPkg,          \* not in indexed_packages
    NoSource,       \* no source directory found
    Source,         \* what the source directory of each package contains
    Manifests,      \* the lists of packages a workspace can ask for
    Caller,         \* concurrent tool calls
    MayFail,        \* what may fail: see FailureKinds
    MaxSkipped,     \* bound on the files one index_directory fails to parse
    MaxCalls,       \* bound on the calls started
    MaxFailures     \* bound on the failures

FailureKinds == {"check", "parse", "insert", "edges", "mark", "crash"}

ASSUME PackageAssumption ==
    /\ Rust \subseteq Repo /\ Repo # {} /\ NoPkg \notin Nat
    /\ Source \in [Repo -> {NoSource} \cup SUBSET Decl]
    /\ \A D \in SUBSET Decl : D # NoSource
    /\ \A m \in Manifests : m \in Seq(Repo)
ASSUME BoundAssumption ==
    /\ MayFail \subseteq FailureKinds
    /\ MaxSkipped \in Nat /\ MaxCalls \in Nat /\ MaxFailures \in Nat

VARIABLES
    packages,       \* table indexed_packages: symbol_count
    call,           \* per caller: the handler's control point and its locals
    started,        \* number of calls started so far
    failures,       \* number of failures so far
    orderly         \* history: one call at a time got past the check of a
                    \* package, up to the mark, with no failure on the way

vars == <<storeVars, packages, call, started, failures, orderly>>

RestPoints == {"idle", "done", "failed"}

\* todo: the rest of the manifest, its head the package at hand.
Call == [pc : RestPoints \cup {"check", "parse", "insert", "edges", "mark"},
         todo : Seq(Repo), found : SUBSET Decl]

TypeOK ==
    /\ StoreTypeOK
    /\ packages \in [Repo -> Nat \cup {NoPkg}]
    /\ call \in [Caller -> Call]
    /\ started \in 0 .. MaxCalls /\ failures \in 0 .. MaxFailures
    /\ orderly \in [Repo -> BOOLEAN]

Resting(pc) == [pc |-> pc, todo |-> <<>>, found |-> {}]

Init ==
    /\ repos = [r \in Repo |-> NoRow] /\ older = {}
    /\ symbols = {} /\ vecs = {} /\ nextId = 1
    /\ edges = [e \in Repo \X Decl |-> 0]
    /\ packages = [p \in Repo |-> NoPkg]
    /\ call = [c \in Caller |-> Resting("idle")]
    /\ started = 0 /\ failures = 0
    /\ orderly = [p \in Repo |-> TRUE]

----------------------------------------------------------------------------
(* Control.                                                                *)

Active(c) == call[c].pc \notin RestPoints
At(c, pc) == call[c].pc = pc
Pkg(c) == Head(call[c].todo)
Goto(c, pc) == call' = [call EXCEPT ![c].pc = pc]

\* Mutant: `continue` comes before the step to the next package.
NextPackageMutant(c) ==
    call' = [call EXCEPT ![c] = [Resting("check") EXCEPT !.todo = call[c].todo]]

NextPackage(c) ==
    LET rest == Tail(call[c].todo)
    IN  call' = [call EXCEPT ![c] =
            IF rest = <<>> THEN Resting("done")
            ELSE [Resting("check") EXCEPT !.todo = rest]]

Reliable == UNCHANGED failures
Unreliable(kind) ==
    kind \in MayFail /\ failures < MaxFailures /\ failures' = failures + 1

\* Past the check of p and not yet at the end of its turn.
Indexing(c, p) ==
    call[c].pc \in {"parse", "insert", "edges", "mark"} /\ Pkg(c) = p

Disorder(P) == orderly' = [p \in Repo |-> orderly[p] /\ p \notin P]
Order == UNCHANGED orderly

----------------------------------------------------------------------------
(* The loop.                                                               *)

\* The empty list stands for every manifest without packages to visit.  If it is
\* missing or unreadable the call is an error; if it lists nothing, the call is an
\* error for Python and C++, and a success with no result for JavaScript and Rust.
StartCall(c, manifest) ==
    /\ ~Active(c)
    /\ started < MaxCalls /\ started' = started + 1
    /\ \/ /\ manifest = <<>>
          /\ \E end \in {"done", "failed"} : call' = [call EXCEPT ![c] = Resting(end)]
       \/ /\ manifest # <<>>
          /\ call' = [call EXCEPT ![c] = [Resting("check") EXCEPT !.todo = manifest]]
    /\ Order /\ UNCHANGED <<storeVars, packages, failures>>

\* Mutant: the lookup uses another language than the mark and never hits.
CheckMutant(c) ==
    LET p == Pkg(c)
    IN  /\ At(c, "check")
        /\ IF Source[p] = NoSource THEN NextPackage(c) ELSE Goto(c, "parse")
        /\ Disorder({q \in {p} : \E k \in Caller : Indexing(k, q)}) /\ Reliable
        /\ UNCHANGED <<storeVars, packages, started>>

\* A failed check is logged and taken for a miss.
Check(c) ==
    LET p == Pkg(c)
        Miss == IF Source[p] = NoSource THEN NextPackage(c) ELSE Goto(c, "parse")
        others == {q \in {p} : \E k \in Caller : Indexing(k, q)}
    IN  /\ At(c, "check")
        /\ \/ packages[p] # NoPkg /\ NextPackage(c) /\ Order /\ Reliable
           \/ packages[p] = NoPkg /\ Miss /\ Disorder(others) /\ Reliable
           \/ Miss /\ Disorder(others \cup {q \in {p} : packages[q] # NoPkg})
              /\ Unreliable("check")
        /\ UNCHANGED <<storeVars, packages, started>>

Parse(c) ==
    /\ At(c, "parse")
    /\ \/ \E skipped \in SUBSET File :
             /\ Cardinality(skipped) <= MaxSkipped
             /\ call' = [call EXCEPT ![c].pc = "insert",
                   ![c].found = {d \in Source[Pkg(c)] : FileOf[d] \notin skipped}]
             /\ Reliable
       \/ call' = [call EXCEPT ![c] = Resting("failed")] /\ Unreliable("parse")
    /\ Order /\ UNCHANGED <<storeVars, packages, started>>

Insert(c) ==
    /\ At(c, "insert")
    /\ \/ InsertSymbols(Pkg(c), call[c].found) /\ Goto(c, "edges") /\ Reliable
       \/ /\ call' = [call EXCEPT ![c] = Resting("failed")]
          /\ Unreliable("insert") /\ UNCHANGED storeVars
    /\ Order /\ UNCHANGED <<packages, started>>

\* Mutant: Rust ignores the failure too.
InsertEdgesMutant(c) ==
    /\ At(c, "edges")
    /\ Goto(c, "mark")
    /\ \/ InsertCallEdges(Pkg(c), call[c].found) /\ Reliable /\ Order
       \/ Unreliable("edges") /\ UNCHANGED storeVars /\ Disorder({Pkg(c)})
    /\ UNCHANGED <<packages, started>>

InsertEdges(c) ==
    /\ At(c, "edges")
    /\ \/ /\ InsertCallEdges(Pkg(c), call[c].found)
          /\ Goto(c, "mark") /\ Reliable /\ Order
       \/ /\ Unreliable("edges") /\ UNCHANGED storeVars
          /\ IF Pkg(c) \in Rust THEN call' = [call EXCEPT ![c] = Resting("failed")]
                                ELSE Goto(c, "mark")
          /\ Disorder({Pkg(c)})
    /\ UNCHANGED <<packages, started>>

\* Mutant: the count is the index of the last symbol.
MarkMutant(c) ==
    /\ At(c, "mark")
    /\ packages' = [packages EXCEPT ![Pkg(c)] = Cardinality(call[c].found) - 1]
    /\ NextPackage(c) /\ Order /\ Reliable
    /\ UNCHANGED <<storeVars, started>>

\* `let _ = store.mark_package_indexed`.
Mark(c) ==
    /\ At(c, "mark")
    /\ \/ /\ packages' = [packages EXCEPT ![Pkg(c)] = Cardinality(call[c].found)]
          /\ Order /\ Reliable
       \/ Unreliable("mark") /\ UNCHANGED packages /\ Disorder({Pkg(c)})
    /\ NextPackage(c)
    /\ UNCHANGED <<storeVars, started>>

Crash ==
    /\ Unreliable("crash")
    /\ \E c \in Caller : Active(c)
    /\ Disorder({p \in Repo :
           \E c \in Caller : call[c].pc \in {"edges", "mark"} /\ Pkg(c) = p})
    /\ call' = [c \in Caller |-> IF Active(c) THEN Resting("failed") ELSE call[c]]
    /\ UNCHANGED <<storeVars, packages, started>>

Step(c) == Check(c) \/ Parse(c) \/ Insert(c) \/ InsertEdges(c) \/ Mark(c)

Next ==
    \/ \E c \in Caller, m \in Manifests : StartCall(c, m)
    \/ \E c \in Caller : Step(c)
    \/ Crash

Spec == Init /\ [][Next]_vars

\* Every call has a thread of its own, and no step of a call waits for another.
FairSpec == Spec /\ \A c \in Caller : WF_vars(Step(c))

----------------------------------------------------------------------------
(* Properties.                                                             *)

\* What indexed_packages says of a package is backed by what is stored for it,
\* whichever calls overlapped or failed: as many different declarations as the
\* symbol_count every later call will report, and for Rust their call edges.
MarkedIsStored ==
    \A p \in Repo : packages[p] # NoPkg =>
        /\ packages[p] <= Cardinality({s.decl : s \in RowsOf(p)})
        /\ p \in Rust => packages[p] <= Cardinality({d \in Decl : edges[<<p, d>>] > 0})

\* "UNIQUE on (name, version, language) prevents duplicate indexing", as far as
\* it does: unless two calls were past the check of a package at once, one stopped
\* between its inserts and its mark, or a check failed on a package already
\* marked, no declaration of the package and no call edge is stored twice.
StoredOnceWhenOrderly ==
    \A p \in Repo : orderly[p] =>
        /\ \A s, t \in RowsOf(p) : s.decl = t.decl => s = t
        /\ \A d \in Decl : edges[<<p, d>>] <= 1

\* Every call ends, however many packages its manifest lists.
CallsReturn == \A c \in Caller : Active(c) ~> ~Active(c)
=============================================================================
