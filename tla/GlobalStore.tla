---------------------------- MODULE GlobalStore ----------------------------
(***************************************************************************)
(* The state every tool of the server shares: the tables of global.db      *)
(* (fossil-core/src/storage.rs).  Each public method of GlobalStore is one *)
(* SQL statement or one transaction, so it is one operator here: a         *)
(* relation between the tables before and after.                           *)
(* A failed method (SQLITE_BUSY, a full disk) rolls back and is UNCHANGED  *)
(* storeVars, chosen by its caller.                                        *)
(*                                                                         *)
(* Abstracted: a symbol's name, kind, lines and signature are one Decl,    *)
(* a call site is known by the Decl it belongs to, an embedding by the     *)
(* Decl whose text it was computed from, timestamps by the order of        *)
(* accesses.                                                               *)
(***************************************************************************)
EXTENDS Naturals, FiniteSets

CONSTANTS
    Repo,       \* repo ids
    File,       \* root-relative source paths
    Decl,       \* what the parsers can extract from some version of some file
    FileOf,     \* the file a Decl stands in
    NoRow       \* no row of table repos

RepoRow == [indexed : BOOLEAN, count : Nat]

ASSUME RepoAssumption == IsFiniteSet(Repo)
ASSUME DeclAssumption == IsFiniteSet(Decl) /\ FileOf \in [Decl -> File]
ASSUME NoRowAssumption == NoRow \notin RepoRow

VARIABLES
    repos,      \* table repos: indexed_at is set or not, and symbol_count
    older,      \* <<p, q>>: last_accessed_at of p is before that of q
    symbols,    \* table symbols
    vecs,       \* table vec_symbols: symbol_id and what was embedded
    edges,      \* table call_edges: how many rows per repo and calling Decl
    nextId      \* sqlite_sequence of symbols: the next AUTOINCREMENT id

storeVars == <<repos, older, symbols, vecs, edges, nextId>>

Symbol == [id : Nat, repo : Repo, decl : Decl]
Vector == [id : Nat, decl : Decl]

FreshRow == [indexed |-> FALSE, count |-> 0]
Listed == {r \in Repo : repos[r] # NoRow}

\* The set of rows WHERE repo_id = r, and WHERE repo_id = r AND file_path = f.
RowsOf(r) == {s \in symbols : s.repo = r}
FileRowsOf(r, f) == {s \in RowsOf(r) : FileOf[s.decl] = f}
Ids(rows) == {s.id : s \in rows}

IsStrictOrder(o, S) ==
    /\ o \subseteq S \X S
    /\ \A p \in S : <<p, p>> \notin o
    /\ \A p, q \in S : p # q => (<<p, q>> \in o \/ <<q, p>> \in o)
    /\ \A p, q, t \in S : <<p, q>> \in o /\ <<q, t>> \in o => <<p, t>> \in o

StoreTypeOK ==
    /\ repos \in [Repo -> {NoRow} \cup RepoRow]
    /\ older \in SUBSET (Repo \X Repo)
    /\ symbols \in SUBSET Symbol
    /\ vecs \in SUBSET Vector
    /\ edges \in [Repo \X Decl -> Nat]
    /\ nextId \in Nat

----------------------------------------------------------------------------
(* Building blocks of the transactions.                                    *)

Forget(r) == {p \in older : p[1] # r /\ p[2] # r}
Latest(r, rows) == Forget(r) \cup {<<q, r>> : q \in rows \ {r}}

\* Ids handed out to a batch of inserts, in some order, from `first` upwards.
Numbering(batch, first) ==
    CHOOSE num \in [batch -> first .. (first + Cardinality(batch) - 1)] :
        \A d, e \in batch : num[d] = num[e] => d = e

NewRows(r, batch, first) ==
    {[id |-> Numbering(batch, first)[d], repo |-> r, decl |-> d] : d \in batch}

\* Mutant: the count of edges goes down by one instead of to zero.
DropEdgesMutant(r, D) ==
    [e \in DOMAIN edges |-> IF e[1] = r /\ e[2] \in D THEN edges[e] - 1 ELSE edges[e]]

DropEdges(r, D) ==
    [e \in DOMAIN edges |-> IF e[1] = r /\ e[2] \in D THEN 0 ELSE edges[e]]
AddEdges(es, r, D) ==
    [e \in DOMAIN es |-> IF e[1] = r /\ e[2] \in D THEN es[e] + 1 ELSE es[e]]

DeclsIn(f) == {d \in Decl : FileOf[d] = f}

DropVectors(rows) == {v \in vecs : v.id \notin Ids(rows)}

----------------------------------------------------------------------------
(* Table repos.                                                            *)

UpsertRepo(r, row) ==
    /\ repos' = [repos EXCEPT ![r] = row]
    /\ older' = Latest(r, Listed)
    /\ UNCHANGED <<symbols, vecs, edges, nextId>>

\* Mutant: the access is recorded whether or not the row exists.
MarkAccessedMutant(r) ==
    /\ older' = Latest(r, Listed)
    /\ UNCHANGED <<repos, symbols, vecs, edges, nextId>>

MarkAccessed(r) ==
    /\ older' = IF r \in Listed THEN Latest(r, Listed) ELSE older
    /\ UNCHANGED <<repos, symbols, vecs, edges, nextId>>

UpdateSymbolCount(r, n) ==
    /\ repos' = IF r \in Listed
                THEN [repos EXCEPT ![r] = [indexed |-> TRUE, count |-> n]]
                ELSE repos
    /\ UNCHANGED <<older, symbols, vecs, edges, nextId>>

\* Mutant: the row of table repos is kept.
EvictRepoMutant(r) ==
    /\ vecs' = DropVectors(RowsOf(r))
    /\ edges' = DropEdges(r, Decl)
    /\ symbols' = symbols \ RowsOf(r)
    /\ UNCHANGED <<repos, older, nextId>>

\* Mutant: the row alone is deleted.
EvictRowAloneMutant(r) ==
    /\ repos' = [repos EXCEPT ![r] = NoRow]
    /\ older' = Forget(r)
    /\ UNCHANGED <<symbols, vecs, edges, nextId>>

EvictRepo(r) ==
    /\ vecs' = DropVectors(RowsOf(r))
    /\ edges' = DropEdges(r, Decl)
    /\ symbols' = symbols \ RowsOf(r)
    /\ repos' = [repos EXCEPT ![r] = NoRow]
    /\ older' = Forget(r)
    /\ UNCHANGED nextId

----------------------------------------------------------------------------
(* Tables symbols, vec_symbols and call_edges.                             *)

\* Mutant: the vectors are deleted without the condition on repo_id.
ClearSymbolsMutant(r) ==
    /\ vecs' = {}
    /\ edges' = DropEdges(r, Decl)
    /\ symbols' = symbols \ RowsOf(r)
    /\ UNCHANGED <<repos, older, nextId>>

ClearSymbols(r) ==
    /\ vecs' = DropVectors(RowsOf(r))
    /\ edges' = DropEdges(r, Decl)
    /\ symbols' = symbols \ RowsOf(r)
    /\ UNCHANGED <<repos, older, nextId>>

\* Mutant: INTEGER PRIMARY KEY without AUTOINCREMENT, the largest id in use plus one.
InsertSymbolsMutant(r, batch) ==
    LET first == CHOOSE n \in 1 .. nextId :
                     /\ n \notin Ids(symbols)
                     /\ \A s \in symbols : s.id < n
                     /\ n > 1 => n - 1 \in Ids(symbols)
    IN  /\ symbols' = symbols \cup NewRows(r, batch, first)
        /\ nextId' = nextId + Cardinality(batch)
        /\ UNCHANGED <<repos, older, vecs, edges>>

InsertSymbols(r, batch) ==
    /\ symbols' = symbols \cup NewRows(r, batch, nextId)
    /\ nextId' = nextId + Cardinality(batch)
    /\ UNCHANGED <<repos, older, vecs, edges>>

\* The primary key of vec_symbols: a batch with a known id fails as a whole.
CanInsertEmbeddings(rows) == \A v \in vecs : v.id \notin Ids(rows)

InsertEmbeddings(rows) ==
    /\ CanInsertEmbeddings(rows)
    /\ vecs' = vecs \cup {[id |-> s.id, decl |-> s.decl] : s \in rows}
    /\ UNCHANGED <<repos, older, symbols, edges, nextId>>

InsertCallEdges(r, D) ==
    /\ edges' = AddEdges(edges, r, D)
    /\ UNCHANGED <<repos, older, symbols, vecs, nextId>>

\* Mutant: the DELETE on vec_symbols is missing.
RemoveFileSymbolsMutant(r, f) ==
    /\ edges' = DropEdges(r, DeclsIn(f))
    /\ symbols' = symbols \ FileRowsOf(r, f)
    /\ UNCHANGED <<repos, older, vecs, nextId>>

RemoveFileSymbols(r, f) ==
    /\ vecs' = DropVectors(FileRowsOf(r, f))
    /\ edges' = DropEdges(r, DeclsIn(f))
    /\ symbols' = symbols \ FileRowsOf(r, f)
    /\ UNCHANGED <<repos, older, nextId>>

\* Mutant: the new rows are inserted without deleting the old ones.
UpdateFileSymbolsMutant(r, f, batch, D) ==
    /\ vecs' = DropVectors(FileRowsOf(r, f))
    /\ edges' = AddEdges(DropEdges(r, DeclsIn(f)), r, D)
    /\ symbols' = symbols \cup NewRows(r, batch, nextId)
    /\ nextId' = nextId + Cardinality(batch)
    /\ UNCHANGED <<repos, older>>

\* `f` is the path the caller passes: the rows deleted are those stored under
\* it, the rows inserted carry the path the parser gave them.
UpdateFileSymbols(r, f, batch, D) ==
    /\ vecs' = DropVectors(FileRowsOf(r, f))
    /\ edges' = AddEdges(DropEdges(r, DeclsIn(f)), r, D)
    /\ symbols' = (symbols \ FileRowsOf(r, f)) \cup NewRows(r, batch, nextId)
    /\ nextId' = nextId + Cardinality(batch)
    /\ UNCHANGED <<repos, older>>
=============================================================================
