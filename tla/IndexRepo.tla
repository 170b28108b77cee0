----------------------------- MODULE IndexRepo -----------------------------
(***************************************************************************)
(* The tools that write a repository's index: index_repo, update_file_index*)
(* and remove_file_index (fossil-server/src/tools.rs).  Every tool call    *)
(* runs on a blocking thread of its own with its own SQLite connection, so *)
(* calls interleave between any two store methods; a store method itself   *)
(* is atomic (GlobalStore).  Any `?` in the code may return early and      *)
(* leave what was done before it; a crash of the server does so for every  *)
(* call at once.                                                           *)
(***************************************************************************)
EXTENDS GlobalStore

CONSTANTS
    NoDir,          \* no directory on disk
    Caller,         \* concurrent tool calls
    Lang,           \* languages
    LangOf,         \* the language of a Decl
    Trees,          \* the states a working tree can be in
    Tools,          \* the tools the callers use
    ChunkSize,      \* 500 in the code: embeddings per transaction
    MaxSkipped,     \* bound on the files one index_directory fails to parse
    MaxCalls,       \* bound on the calls started
    OnePerRepo      \* clients never have two calls for one repo in flight

ToolNames == {"index_repo", "update_file_index", "remove_file_index"}

ASSUME CallerAssumption == IsFiniteSet(Caller) /\ Repo # {} /\ File # {}
ASSUME LangAssumption == LangOf \in [Decl -> Lang]
ASSUME BoundAssumption ==
    /\ Trees \subseteq SUBSET Decl /\ \A T \in SUBSET Decl : T # NoDir
    /\ Tools \subseteq ToolNames
    /\ ChunkSize \in Nat \ {0}
    /\ MaxSkipped \in Nat
    /\ MaxCalls \in Nat
    /\ OnePerRepo \in BOOLEAN

VARIABLES
    trees,      \* the working tree each repo id stands for, NoDir if missing
    call,       \* per caller: the handler's control point and its locals
    started,    \* number of calls started so far
    disturbed   \* history: another step changed the index of the repo a call
                \* works on since that call cleared it

callVars == <<call, started>>
vars == <<storeVars, trees, callVars, disturbed>>

RestPoints == {"idle", "done", "failed"}
IndexPoints == {"parse", "touch", "clear", "insert", "load", "embed",
                "edges", "count"}
FilePoints == {"readFile", "updateFile", "removeFile"}
Points == RestPoints \cup IndexPoints \cup FilePoints

\* syms, calls: what the parser returned.  rows: stored_symbols not yet embedded.
Call == [pc : Points, repo : Repo, file : File,
         syms : SUBSET Decl, calls : SUBSET Decl, rows : SUBSET Symbol]

TypeOK ==
    /\ StoreTypeOK
    /\ trees \in [Repo -> {NoDir} \cup SUBSET Decl]
    /\ call \in [Caller -> Call]
    /\ started \in 0 .. MaxCalls
    /\ disturbed \in [Caller -> BOOLEAN]

Active(c) == call[c].pc \notin RestPoints

Resting(pc) == [pc |-> pc, repo |-> CHOOSE r \in Repo : TRUE,
                file |-> CHOOSE f \in File : TRUE,
                syms |-> {}, calls |-> {}, rows |-> {}]

Init ==
    /\ repos \in [Repo -> {FreshRow, NoRow}]
    /\ older \in {o \in SUBSET (Repo \X Repo) : IsStrictOrder(o, Listed)}
    /\ symbols = {} /\ vecs = {} /\ nextId = 1
    /\ edges = [e \in Repo \X Decl |-> 0]
    /\ trees \in [Repo -> Trees \cup {NoDir}]
    /\ call = [c \in Caller |-> Resting("idle")]
    /\ started = 0
    /\ disturbed = [c \in Caller |-> FALSE]

----------------------------------------------------------------------------
(* History.                                                                *)

ContentOf(r) ==
    <<RowsOf(r), {v \in vecs : v.id \in Ids(RowsOf(r))}, [d \in Decl |-> edges[<<r, d>>]]>>

AfterClear == {"insert", "load", "embed", "edges", "count"}

\* A step of caller c, seen by the calls that have already cleared their repo.
Track(c) ==
    disturbed' = [k \in Caller |->
        /\ call'[k].pc \in AfterClear
        /\ \/ disturbed[k]
           \/ /\ k # c
              /\ \E r \in {call[k].repo} : ContentOf(r)' # ContentOf(r)]

----------------------------------------------------------------------------
(* Control.                                                                *)

At(c, pc) == call[c].pc = pc
Goto(c, pc) == call' = [call EXCEPT ![c].pc = pc] /\ UNCHANGED started
Return(c, outcome) ==
    call' = [call EXCEPT ![c] = Resting(outcome)] /\ UNCHANGED started

CanStart(c, r, tool) ==
    /\ tool \in Tools
    /\ ~Active(c)
    /\ started < MaxCalls
    /\ OnePerRepo => \A k \in Caller : Active(k) => call[k].repo # r

Start(c, r, f, pc) ==
    /\ call' = [call EXCEPT ![c] = [Resting(pc) EXCEPT !.repo = r, !.file = f]]
    /\ started' = started + 1

----------------------------------------------------------------------------
(* index_repo.                                                             *)

StartIndexRepo(c, r) ==
    /\ CanStart(c, r, "index_repo")
    /\ Start(c, r, Resting("idle").file,
             IF trees[r] = NoDir THEN "failed" ELSE "parse")
    /\ UNCHANGED <<storeVars, trees>>

\* What index_directory returns when it cannot read the files in `skipped`: a
\* directory removed meanwhile is walked without an error and yields nothing.
Parsed(r, skipped) ==
    IF trees[r] = NoDir THEN {} ELSE {d \in trees[r] : FileOf[d] \notin skipped}

\* The language filter drops symbols, never call edges.
Parse(c) ==
    /\ At(c, "parse")
    /\ \E langs \in SUBSET Lang, skipped \in SUBSET File :
          /\ Cardinality(skipped) <= MaxSkipped
          /\ LET found == Parsed(call[c].repo, skipped)
             IN  call' = [call EXCEPT
                   ![c].pc = "touch",
                   ![c].calls = found,
                   ![c].syms = {d \in found : langs = {} \/ LangOf[d] \in langs}]
    /\ UNCHANGED <<storeVars, trees, started>>

\* `let _ = store.mark_accessed`: its failure is ignored.
Touch(c) ==
    /\ At(c, "touch")
    /\ MarkAccessed(call[c].repo) \/ UNCHANGED storeVars
    /\ Goto(c, "clear")
    /\ UNCHANGED trees

\* Mutant: `let _ = store.clear_symbols`, a failure is ignored.
ClearMutant(c) ==
    /\ At(c, "clear")
    /\ ClearSymbols(call[c].repo) \/ UNCHANGED storeVars
    /\ Goto(c, "insert")
    /\ UNCHANGED trees

Clear(c) ==
    /\ At(c, "clear")
    /\ ClearSymbols(call[c].repo)
    /\ Goto(c, "insert")
    /\ UNCHANGED trees

Insert(c) ==
    /\ At(c, "insert")
    /\ InsertSymbols(call[c].repo, call[c].syms)
    /\ Goto(c, "load")
    /\ UNCHANGED trees

\* Mutant: chunks_exact in place of chunks, the last rows get no embedding.
EmbedOrGoOnMutant(rows) ==
    IF Cardinality(rows) <= ChunkSize THEN "edges" ELSE "embed"

\* The loop over stored_symbols.chunks(..) goes on while there are rows left.
EmbedOrGoOn(rows) == IF rows = {} THEN "edges" ELSE "embed"

Load(c) ==
    /\ At(c, "load")
    /\ LET stored == RowsOf(call[c].repo)
       IN  call' = [call EXCEPT ![c].rows = stored, ![c].pc = EmbedOrGoOn(stored)]
    /\ UNCHANGED <<storeVars, trees, started>>

FirstChunk(rows) ==
    {s \in rows : Cardinality({t \in rows : t.id < s.id}) < ChunkSize}

EmbedChunk(c) ==
    /\ At(c, "embed")
    /\ LET chunk == FirstChunk(call[c].rows)
           left == call[c].rows \ chunk
       IN  /\ InsertEmbeddings(chunk)
           /\ call' = [call EXCEPT ![c].rows = left, ![c].pc = EmbedOrGoOn(left)]
    /\ UNCHANGED <<trees, started>>

InsertEdges(c) ==
    /\ At(c, "edges")
    /\ InsertCallEdges(call[c].repo, call[c].calls)
    /\ Goto(c, "count")
    /\ UNCHANGED trees

Count(c) ==
    /\ At(c, "count")
    /\ UpdateSymbolCount(call[c].repo, Cardinality(call[c].syms))
    /\ Return(c, "done")
    /\ UNCHANGED trees

----------------------------------------------------------------------------
(* update_file_index and remove_file_index.                                *)

StartUpdateFile(c, r, f) ==
    /\ CanStart(c, r, "update_file_index")
    /\ Start(c, r, f, "readFile")
    /\ UNCHANGED <<storeVars, trees>>

\* A file that does not exist or does not parse ends the call: Fail.
ReadFile(c) ==
    /\ At(c, "readFile")
    /\ trees[call[c].repo] # NoDir
    /\ LET found == trees[call[c].repo] \cap DeclsIn(call[c].file)
       IN  call' = [call EXCEPT ![c].pc = "updateFile",
                                ![c].syms = found, ![c].calls = found]
    /\ UNCHANGED <<storeVars, trees, started>>

UpdateFile(c) ==
    /\ At(c, "updateFile")
    /\ UpdateFileSymbols(call[c].repo, call[c].file, call[c].syms, call[c].calls)
    /\ Return(c, "done")
    /\ UNCHANGED trees

StartRemoveFile(c, r, f) ==
    /\ CanStart(c, r, "remove_file_index")
    /\ Start(c, r, f, "removeFile")
    /\ UNCHANGED <<storeVars, trees>>

RemoveFile(c) ==
    /\ At(c, "removeFile")
    /\ RemoveFileSymbols(call[c].repo, call[c].file)
    /\ Return(c, "done")
    /\ UNCHANGED trees

----------------------------------------------------------------------------
(* Failure, crash, and the world outside.                                  *)

\* Mutant: a failing insert_embeddings is tried again instead of reported.
FailMutant(c) ==
    /\ Active(c)
    /\ ~At(c, "touch") /\ ~At(c, "embed")
    /\ Return(c, "failed")
    /\ UNCHANGED <<storeVars, trees>>

\* Every step but `touch` ends in `?`: the call returns its error at once.
Fail(c) ==
    /\ Active(c)
    /\ ~At(c, "touch")
    /\ Return(c, "failed")
    /\ UNCHANGED <<storeVars, trees>>

\* The server process dies: every call is gone, global.db stays as it is.
Crash ==
    /\ \E c \in Caller : Active(c)
    /\ call' = [c \in Caller |-> IF Active(c) THEN Resting("failed") ELSE call[c]]
    /\ disturbed' = [c \in Caller |-> FALSE]
    /\ UNCHANGED <<storeVars, trees, started>>

\* An editor, git, or another tool of the server changes the working tree.
EditTree(r) ==
    /\ \E t \in Trees \cup {NoDir} : trees' = [trees EXCEPT ![r] = t]
    /\ UNCHANGED <<storeVars, callVars, disturbed>>

Step(c) ==
    \/ Parse(c) \/ Touch(c) \/ Clear(c) \/ Insert(c) \/ Load(c)
    \/ EmbedChunk(c) \/ InsertEdges(c) \/ Count(c)
    \/ ReadFile(c) \/ UpdateFile(c) \/ RemoveFile(c)
    \/ Fail(c)

StartCall(c) ==
    \/ \E r \in Repo : StartIndexRepo(c, r)
    \/ \E r \in Repo, f \in File : StartUpdateFile(c, r, f) \/ StartRemoveFile(c, r, f)

Next ==
    \/ \E c \in Caller : (StartCall(c) \/ Step(c)) /\ Track(c)
    \/ Crash
    \/ \E r \in Repo : EditTree(r)

Spec == Init /\ [][Next]_vars

\* Every call has a thread of its own, and no step of a call waits for another.
FairSpec == Spec /\ \A c \in Caller : WF_vars(Step(c) /\ Track(c))

----------------------------------------------------------------------------
(* Properties.                                                             *)

\* A stored vector is the embedding of the symbol that has its id, whatever
\* calls are interleaved: load_symbols and insert_embeddings are two
\* transactions, and only because AUTOINCREMENT never hands an id out twice does
\* a vector computed for a deleted symbol not become that of another one.
VectorOfItsSymbol ==
    \A v \in vecs, s \in symbols : v.id = s.id => v.decl = s.decl

\* The invariant behind it.  Known are the rows of the table and those a call
\* has loaded and not yet embedded, deleted since or not: their ids are all below
\* the sequence, an id names one row only, and the vector with that id, if there
\* is one, is of that row.
Known == symbols \cup UNION {call[c].rows : c \in Caller}

IdsNameOneRow ==
    /\ \A s \in Known : s.id < nextId
    /\ \A v \in vecs : v.id < nextId
    /\ \A s, t \in Known : s.id = t.id => s = t
    /\ \A v \in vecs, s \in Known : v.id = s.id => v.decl = s.decl

\* No vector is left without its symbol.  Every DELETE finds vectors through
\* their symbols, so such a vector could never be deleted and would take a place
\* among the top-k neighbours of each search over all repositories.
NoOrphanVectors == \A v \in vecs : \E s \in symbols : s.id = v.id

\* The invariant behind it, for clients that keep to one call per repository:
\* the rows a call is about to embed are still in the table, for only calls of
\* the same repository could delete them.
OneWriter ==
    \A c, k \in Caller :
        Active(c) /\ Active(k) /\ call[c].repo = call[k].repo => c = k

PendingRowsStored ==
    \A c \in Caller :
        /\ call[c].rows # {} => At(c, "embed")
        /\ call[c].rows \subseteq RowsOf(call[c].repo)

\* Indexing again replaces: no declaration is stored twice for a repository, and
\* neither are its call edges.
NoDuplicates ==
    /\ \A s, t \in symbols : s.repo = t.repo /\ s.decl = t.decl => s = t
    /\ \A e \in Repo \X Decl : edges[e] <= 1

IndexComplete(r, syms, D) ==
    /\ {s.decl : s \in RowsOf(r)} = syms
    /\ \A s, t \in RowsOf(r) : s.decl = t.decl => s = t
    /\ \A s \in RowsOf(r) : \E v \in vecs : v.id = s.id /\ v.decl = s.decl
    /\ \A d \in Decl : edges[<<r, d>>] = IF d \in D THEN 1 ELSE 0

\* When index_repo is about to report success and nobody else changed the
\* repository's index since the call cleared it, the index is what the call
\* parsed: each symbol once, with its vector, and the call edges once, whatever
\* earlier calls had left behind when they failed or crashed half-way.
UndisturbedIndexIsComplete ==
    \A c \in Caller :
        At(c, "count") /\ ~disturbed[c] =>
            IndexComplete(call[c].repo, call[c].syms, call[c].calls)

\* A step changes the index of no repository but that of a call in flight: the
\* symbols, their vectors, the call edges and the row of every other repository
\* stay as they are.
OtherReposUntouched ==
    [][\A r \in Repo : ContentOf(r)' # ContentOf(r) \/ repos'[r] # repos[r] =>
          \E c \in Caller : Active(c) /\ call[c].repo = r]_vars

\* What readers see of a repository: the declarations load_symbols returns, and
\* those of them whose symbol has a vector.
Content(r) == {s.decl : s \in RowsOf(r)}
Embedded(r) == {s.decl : s \in {t \in RowsOf(r) : \E v \in vecs : v.id = t.id}}

Atomic == INSTANCE AtomicIndex WITH
    content <- [r \in Repo |-> Content(r)],
    embedded <- [r \in Repo |-> Embedded(r)]

\* However index_repo, update_file_index and remove_file_index are cut into
\* transactions, fail or crash between them, and run beside calls for other
\* repositories, a reader of one repository never sees an old index mixed with a
\* new one: the tools implement AtomicIndex, as long as clients keep to one call
\* per repository.
RefinesAtomicIndex == Atomic!Spec

\* The invariant behind it and behind NoDuplicates: index_repo inserts symbols and
\* call edges into a repository that has none, and update_file_index stores what
\* stands in its file.
UntilEdges == {"insert", "load", "embed", "edges"}

InsertsIntoEmpty ==
    \A c \in Caller :
        /\ At(c, "insert") => RowsOf(call[c].repo) = {}
        /\ call[c].pc \in UntilEdges => \A d \in Decl : edges[<<call[c].repo, d>>] = 0
        /\ At(c, "updateFile") =>
              call[c].syms \cup call[c].calls \subseteq DeclsIn(call[c].file)

\* A call in flight returns, with a result or an error.
CallsReturn == \A c \in Caller : Active(c) ~> ~Active(c)

\* analyze_feature skips index_repo for a repository whose row says indexed, so
\* such a row, once no call is working on it, promises symbols to search.
IndexedRepoHasSymbols ==
    \A r \in Listed :
        /\ repos[r].indexed /\ repos[r].count > 0
        /\ \A c \in Caller : Active(c) => call[c].repo # r
        => RowsOf(r) # {}
=============================================================================
