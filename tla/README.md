# A verification project for fossil-mcp

TLA+ models of fossil-mcp: of the parts that keep state (the SQLite store, the
tools that index a repository, the clone cache, the workspace watcher, the
dependency indexers), of the search and of the tools composed with one another,
and of the parsers and line queries the index is built with; the TLC
configurations that check them on small instances; and TLAPS proofs of what holds
for every instance. Paths below are relative to `src/crates`.

    tlc  -config MCIndexRepo_one_writer.cfg MCIndexRepo    # one run
    tlapm IndexRepo_proofs.tla                             # one module's proofs

## 1. The system

One server process answers MCP tool calls. Each call opens its own connection to
`global.db` and does its work on a blocking thread of its own (the watcher tools
and a few reads excepted), so tool calls run concurrently. No lock is held across
the steps of a tool; a tool is a sequence of store methods, each of which is one
SQL statement or one transaction. An error (`?`) ends a tool where it is; nothing
undoes its earlier steps.

| Component | State | Operations | Interacts with |
|---|---|---|---|
| `GlobalStore` (fossil-core/src/storage.rs) | tables `repos`, `symbols`, `call_edges`, `vec_symbols`, `indexed_packages` in `global.db` | upsert, mark_accessed, evict, clear, insert, remove and update by file, embeddings, edges, counts, listings, KNN search | every tool, the watcher |
| `index_repo`, `update_file_index`, `remove_file_index` (fossil-server/src/tools.rs, fossil-indexer/src/symbol.rs) | locals of the call: parsed symbols and edges, loaded rows | parse a tree or a file, replace what is stored of it, embed | `GlobalStore`, the working tree |
| `clone_reference` (fossil-repo/src/clone.rs, cache.rs) | one directory per repository under the cache root | clone, reuse, refresh, evict the least recently used | git, the file system, table `repos` |
| `WorkspaceWatcher`, `watch_workspace`, `unwatch_workspace` (fossil-indexer/src/watcher.rs, tools.rs) | map of watchers; per watcher a pending set, a task, a batch | collect events, debounce, index a batch, abort, replace | notify, `GlobalStore` |
| `index_{rust,python,js,cpp}_deps` (fossil-indexer/src/deps) | table `indexed_packages` | check, parse, insert, mark | `GlobalStore`, package directories |
| `locate_implementation`, `analyze_feature` (tools.rs, fossil-search) | none of their own | clone and index if needed, load symbols, KNN query, fuzzy fallback | all of the above |
| SCIP parsing (fossil-indexer/src/scip.rs) | none | symbols and call edges of an `index.scip` | `index_repo` |
| Migration analysis (fossil-indexer/src/migration.rs, fossil-repo/src/history.rs) | none | definition around a changed line, pattern of a change | git history |
| `get_symbol_source` (tools.rs) | none | the lines of a symbol out of its file | `GlobalStore`, the working tree |
| Language parsers (fossil-indexer/src/languages) | none | symbols and calls of a syntax tree | indexing |
| Call graph (fossil-indexer/src/graph.rs) | an in-memory graph no tool uses | | |
| Vulnerability scan (fossil-indexer/src/vulnerability.rs) | none | substring tests on the text of each call of a tree | |
| `main.rs`, MCP transport | none | start-up | |

What is hard, and what makes each component correct:

- *Store and indexing.* `index_repo` is seven transactions. Two calls for one
  repository, or a call and `remove_file_index`, interleave between any two of
  them; symbols are loaded in one transaction and embedded in later ones. The
  index must not mix vectors up, not leave rows nobody can delete, not store a
  symbol twice, and be complete when a call that nobody disturbed succeeds,
  whatever earlier calls left behind.
- *Clone cache.* Directory and row of a repository are changed in separate steps
  by clones, refreshes and evictions, with git, disk or database failing at any
  of them, and a directory takes time to write and to remove. A clone on disk must be
  known by a row, half a clone must never be taken for a cached one, the eviction loop
  must end.
- *Watcher.* Files change between any two steps of the task; the task that is
  aborted goes on to the end of its batch; watchers are replaced. A change must
  reach the index, a stopped watcher must end, and none may be out of reach.
- *Dependencies.* Check, inserts and mark are separate: a package must not be
  marked before it is stored, nor be stored twice.
- *Search.* It reads a snapshot of the symbols and queries vectors later, while
  other calls re-index or evict. A hit must be the symbol its vector was computed
  from, and vectors of other repositories must not take the places of a hit.
- *The tools together.* `analyze_feature` clones, indexes and searches with
  nothing held between the three. What it has built must answer its search when
  nobody touched it, and what it stores must belong to a repository the cache
  knows, or nothing would evict it.
- *Parsers.* Two recursive walks per language, written apart, skip different
  subtrees. A call must go to the innermost function around it, and that function
  be a symbol wherever symbols are looked for; lines (from 1, inclusive) and rows (from 0) must agree everywhere.

`PROJECT.json` lists every hazard with its line, and the properties that would
catch it.

## 2. The modules

| Module | Models | Builds on |
|---|---|---|
| `GlobalStore` | the tables; one operator per store method that writes them | |
| `IndexRepo` | the three indexing tools as concurrent callers | `GlobalStore` |
| `GlobalStore_proofs` | lemmas about the transactions of the store | `GlobalStore` |
| `AtomicIndex` | what the indexing tools promise to readers of the index | |
| `IndexRepo_proofs` | theorems about `IndexRepo` | `IndexRepo`, `GlobalStore_proofs` |
| `IndexRepo_refinement` | theorems that need one call per repository; `IndexRepo` implements `AtomicIndex` | `IndexRepo_proofs` |
| `RepoCache` | `clone_reference` with the eviction loop | `GlobalStore` |
| `RepoCache_proofs` | theorems about `RepoCache` | `RepoCache`, `GlobalStore_proofs` |
| `WorkspaceWatcher` | the watcher, its task and its tools | `GlobalStore` |
| `WorkspaceWatcher_proofs` | theorems about `WorkspaceWatcher` | `WorkspaceWatcher`, `GlobalStore_proofs` |
| `DepIndexer` | the dependency tools and `indexed_packages` | `GlobalStore` |
| `DepIndexer_proofs` | theorems about `DepIndexer` | `DepIndexer`, `GlobalStore_proofs` |
| `Search` | `locate_implementation` and its queries | `GlobalStore` |
| `Server` | `analyze_feature`, `clone_reference` and `locate_implementation` on one cache and one database | `Search`, instances of `RepoCache` and `IndexRepo` |
| `Server_proofs` | theorems about `Server` | `Server`, instances of `RepoCache_proofs` and `IndexRepo_proofs` |
| `SyntaxTree` | the trees tree-sitter hands over | |
| `LanguageParsers` | the walks for symbols and calls, per language | `SyntaxTree` |
| `TreeQueries` | `find_encompassing_node`, `extract_structural_diff`, the line cut of `get_symbol_source` | `LanguageParsers` |
| `ScipIndex` | `parse_scip_index` | |
| `RepoParser` | the two inputs of `index_repo` together | `TreeQueries`, `ScipIndex` |
| `RepoParser_proofs` | theorems about the parsers and the line queries | `RepoParser` |
| `MC*` | small instances of each | |

**GlobalStore.** `repos` has a row or `NoRow` per repository, with `indexed`
(`indexed_at` is set) and `count`. `last_accessed_at` is kept as an order of the
rows, `older`. A symbol is an id, a repository and a `Decl`: name, kind, lines and
signature together. A vector is an id and the `Decl` whose text was embedded,
which is what lets a model tell a right vector from a wrong one. `call_edges`
has no key, so `edges` counts rows. `nextId` is the AUTOINCREMENT sequence. A
method that fails rolls back; its caller chooses that by leaving the tables
unchanged. `CanInsertEmbeddings` is the primary key of `vec_symbols`.
Abstracted: that every `Decl` makes calls; that two accesses never have the same
time stamp; the one embedding of a text.

**IndexRepo.** `call[c]` is the control point of a tool call and the locals it
needs later. One action per store method or read of the tree, in the order of
the code: `Parse`, `Touch`, `Clear`, `Insert`, `Load`, `EmbedChunk` (repeated),
`InsertEdges`, `Count`; `ReadFile` and `UpdateFile`; `RemoveFile`. `Fail` is any
`?` (all steps but `mark_accessed`, whose error is ignored), `Crash` the death of
the server, `EditTree` any change of the working tree. The parse of a tree is one
read of it, less up to `MaxSkipped` files it could not parse; the workspace path
of the file tools and the directory of `index_repo` are the same `trees[r]`. SCIP
output, when there is one, replaces the call edges of the parser; the model has
one kind of edges. `disturbed` is a history variable: whether somebody else
changed the repository's index since the call cleared it.

**AtomicIndex** has two variables: per repository the declarations a reader gets
and those of them a vector finds. Its steps are `Wipe`, `Publish` (only into an
empty repository), `Embed` and `ReplaceFile`. `IndexRepo` maps to it by
`Content(r)`, the declarations of the rows of `r`, and `Embedded(r)`, those whose
id has a vector. The property `RefinesAtomicIndex` says that the seven transactions
of `index_repo` look like this to every reader, whatever fails or crashes between
them: no index is ever mixed from two parses, and no vector belongs to a symbol
that is not there. It needs one call per repository: two interleaved calls insert
into a repository that is not empty.

**RepoCache.** `dir[r]` is `none`, `empty`, `partial` (git is writing it, or left it
so), `full` or `torn` (files have been removed from it); `clone[c]` the control point
of a `clone_reference` call with its refresh flag, its attempt (libgit2, then the git
command) and the victim of the eviction loop. git is external: it refuses a directory
that is not empty, and ends with the whole tree or undoes what it did. Each of the
three removals (a refresh, the cleaning up after a failed clone, an eviction) takes two
steps, `Refresh` and `EndRefresh`, `Cleanup` and `EndCleanup`, `EvictDir` and
`EndEvictDir`: the first removes some file (`Tear`), the second the rest, and in
between `exists()` of every other call is true. A removal may also fail at either step
and leave a part, in particular because git puts files into the directory meanwhile.
`MayFail` chooses what can fail: disk, database, network, crash. Two properties follow
the same moment, the cache hit: `NeverReusesHalfClone` asks that the directory is whole,
`NeverReusesUnfinishedClone` only that git is done with it.

**WorkspaceWatcher.** `watcher[w]` holds a watcher's notify queue, pending set,
batch and the place of its task in the loop; `registered` is the entry of the map
for the workspace, `starting[c]` a watcher that a `watch_workspace` call has
started but not registered. `Stop` is `abort()` followed by the drop of the notify
watcher: a task that waits ends at once, a task that runs goes on to its next
await, and past it when the next tick is overdue (`EndBatch`). A path is its
root-relative form, and `Abs` the string the events carry, because the code
confuses the two. `Edit` changes a file and puts an event in the queue of every
watcher that listens. Histories: `touched`, `dropped` and `alone`.

**DepIndexer.** A package (name, version, language) and the synthetic repo id made
from it are one member of `Repo`. `call[c].todo` is the rest of the manifest. One
action per step of the loop; each may fail the way its tool treats it: a failed
check counts as a miss, a failed insert of edges is fatal for Rust and ignored
otherwise, a failed mark is ignored. An empty list stands for a manifest that is missing
(an error) or lists nothing (an error for Python and C++ only). `orderly` is a history: whether the calls
past the check of a package came one at a time and without failing on the way.

**Search.** `find[c]` is the control point of a `locate_implementation` call, the
symbols it loaded (`shown`), its hits, those still to be completed (`todo`) and the
`related` edges found. Each SQL statement is one action: `Mark`, `LoadSymbols`,
`SemanticSearch`, then per hit `FindCallees` and `FindCallers`; `FuzzySearch` runs
on the loaded symbols when the semantic search failed or found nothing. Distances
and scores are abstracted: any `k` of the candidate vectors may be the nearest, any
of the loaded names may match. A hit carries the text its vector was computed from,
which the code does not have. `Callees` says what a `Decl` calls; as in the code,
relations go by name, so a call in another repository of the scope counts.

**Server.** `job[c]` is the tool a client called and its stage. The clone and index
stages are the actions of `RepoCache` and `IndexRepo`, instantiated over the same
store; the tree `index_repo` walks is what the directory holds. `AnalyzeIndex` and
`AnalyzeLocate` are the transitions between the stages of `analyze_feature`, with
`?` after each. Two calls at once that clone or index *one* repository are left to
the components, which check them in `index_concurrent` and `cache_faults`; here
a repository has one such call at a time, and any number of searches and evictions.
A crash of the server ends every job and adds nothing to what `cache_faults`,
`cache_unlisted` and `index_concurrent` show, so there is none here. Histories:
`clean` (the index is as the caller's own `index_repo` left it) and `overlapped`
(evicted while it was being indexed: its symbols then stay under a repository
without a row, which nothing in the code prevents). `IndexesBelongToClones` holds in
every state, also while calls are in flight: the eviction of a row deletes the symbols
of its repository in the same transaction.

**Parsers.** A tree is the sequence of its nodes in depth-first order, grown a node
at a time along a `Grammar` (the pairs of parent and child kinds), so the reachable
states are all trees up to a size. `DiffShowsFirstDefinition` uses one tree for both sides
of a change, with the lines divided between the sides in every way, also all to one. A name is known by its node, text by its rows;
`readable` says whether the code finds a name. The recursive walks are functions on
the nodes: `SymbolWalk` (which nodes the walk reaches, whether inside a class) and
`CallerWalk` (the innermost function). The grammars of `MCRepoParser` keep the kinds
the parsers tell apart, in particular those that the walk for symbols passes by and the
walk for calls enters: parameters, the heading of a class, decorators, the body of a
method. Kinds that both walks pass through are left out, so a function in a default
value stands directly below its parameters; so are two kinds the source tests for that
the grammars of tree-sitter do not produce. `NamelessAssumption` says that a kind of
function is not among the `Nameless`. `CallersAreSymbols` assumes nothing of a
grammar: `SearchedParts` lists where the walks look for symbols, and the caller of an
edge has no symbol exactly when it stands outside of that.

`ScipIndex` grows a document by occurrences; a symbol string is a model value of which
only the final dot matters. The lines of a definition are computed by two loops, one
for its row (`LineStart`, `LineEnd`) and one to find callers (`Contains`);
`ScipEdgesStandInSymbols` relates what the two store. Of several definitions around a
line the last in the file is the caller, whatever its size (`EnclosingDef`); no property
says that it is the innermost, as neither the code nor the order of a file makes it so.

## 3. The runs

All passing runs end by exploring every reachable state. Deadlock checking is
off everywhere because the number of calls is bounded: the system does stop.

| Run | Question | Instance |
|---|---|---|
| `index_concurrent` | Which guarantees hold with no discipline among clients? `VectorOfItsSymbol`, `UndisturbedIndexIsComplete`, `CallsReturn` | 1 repository, 2 files, one in two versions, 2 callers, 2 calls, chunks of 1, any failure and crash |
| `index_one_writer` | And with one call per repository at a time? `NoOrphanVectors`, `NoDuplicates`, `OtherReposUntouched`, `RefinesAtomicIndex` | 2 repositories, two trees that share no declaration, 2 callers, 2 calls, all three tools, unreadable files |
| `cache_faults` | Does the eviction loop end, and the access order stay total, whatever fails? | 2 repositories, 2 callers, 2 calls, 2 failures of any kind, a database that alone exceeds the limit |
| `watcher` | `NoChangeForgotten`, `NoStrayWatcher`, `ChangesReachIndex`, `StoppedWatcherEnds` | 2 watchers one after the other or overlapping, 2 callers, 1 file in two versions, 2 edits, 1 failure |
| `deps_faults` | `MarkedIsStored`, `StoredOnceWhenOrderly`, `CallsReturn` | 3 packages (Rust, C++ listed twice, one without source), 2 callers, 3 calls, 1 failure |
| `server` | Do the tools hold together? `SemanticHitsAreOfTheirText`, `UndisturbedAnalysisAnswers`, `IndexesBelongToClones`, and the cache's `ClonesAreListed`, `NeverReusesUnfinishedClone` | 2 repositories, room for one clone, 2 callers, 3 tool calls, 1 failure, 2 of git |
| `parsing` | Do the walks, the lines and the callers agree? `CallerIsInnermost`, `CallersAreSymbols`, `FoundIsInnermost`, `DiffShowsFirstDefinition`, `SymbolSourceIsItsRows`, `ScipEdgesStandInSymbols` | every tree of up to 6 nodes on 3 rows in Rust, Python and TypeScript; every SCIP document of up to 3 occurrences of 2 symbols on 2 lines |
| `index_orphan_vector`, `index_stale_flag`, `cache_half_clone`, `cache_unlisted`, `watcher_stale_symbols` | counterexamples, see findings | |

Every bound is a constant of the module: `MaxCalls`, `MaxJobs`, `MaxFailures`,
`MaxNetFailures`, `MaxSkipped`, `MaxEdits`, `MaxNodes`, `MaxRow`, the sets `Caller` and `Watcher`. Two callers suffice for every pair of
operations to interleave, and the hazards listed are all between two actors; two
calls let the second meet what the first left behind; chunks of one
row and files of one declaration make the embedding loop run zero, one and two
times. A failure bound of one or two covers a failure at each place and one more
during the recovery from it.

In `server` three jobs let a repository be analysed, evicted by the clone of
another and analysed again, or searched meanwhile; `TopK` is 1 and a tree has up
to two declarations, so vectors compete for the one place; a clone fails only when
libgit2 and the git command both do, hence two failures of git. In `watcher` a
batch holds one path: the order of the paths of a batch is the proof's subject,
which covers any number of them, and the liveness properties speak of one path at
a time. Six nodes are enough for a class, a method in it, its body, a function in
that, its body and a call, one below the other; three rows for a definition
before, around and after a line. Three occurrences are two definitions, one in the
other or not, and a reference; both symbols and both lines matter to it. `SYMMETRY` permutes callers, which nothing tells apart, in runs that
have no liveness property.

*Fairness.* A call has a thread of its own and no step of a call waits for a step
of another (a busy database is an error after its timeout, that is a `Fail`), so
each caller is weakly fair: it is scheduled until it ends. Starting calls, editing
and crashing are not fair. Failures are bounded in number: an eviction loop both
of whose deletions failed for ever would spin for ever, and `CallsReturn` of
`RepoCache` says nothing about that. The notify thread and the tokio runtime run as long as
the process, so delivery and task steps of a watcher are weakly fair; a
`watch_workspace` call goes on from start to lock without an await.

## 4. Findings

Each is a run that TLC ends with a counterexample.

1. `index_orphan_vector` (tools.rs:306): a symbol deleted between `load_symbols`
   and `insert_embeddings` gets its vector all the same. Vectors are found through
   their symbols, so nothing ever deletes it, and it takes up a place in every KNN
   query.
2. `index_stale_flag` (tools.rs:280): a re-index that fails after
   `clear_symbols` leaves a row that says indexed and no symbols; `analyze_feature`
   then does not index again.
3. `cache_half_clone` (clone.rs:38): a directory that is there counts as a cached
   clone. With one call per repository at a time and no failure at all, a clone of
   another repository evicts this one and is in the middle of `remove_dir_all`
   (cache.rs:128) when the call looks; it reports success for what is left. Where
   clients do not keep to one call per repository, a second clone of the same URL
   does the same while git is still writing (`OnePerRepo = FALSE` finds it).
4. `cache_unlisted` (clone.rs:42): a clone whose row was never written (the server
   stopped in between) is reused for ever without one, so never evicted.
5. `watcher_stale_symbols` (watcher.rs:101): the watcher updates a file under its
   absolute path while rows carry the relative one; the old symbols stay.

What the code does and the models show, where no line of the repository promises
otherwise clearly enough to call it a finding:

- A function that stands where the walk for symbols does not go is the caller of edges
  and never a symbol: in TypeScript one nested in a method, in a default value of a
  parameter or in the expression a class extends, in Rust one in the type of a
  parameter (in a constant expression). `CallersAreSymbols` excepts exactly these. An
  arrow function is a symbol and never a caller: its calls go to the function around
  it, if there is one, and `CallerIsInnermost` counts as functions what the code does.
- A Rust or Python function nested in a method is a `Method` too: the class is
  handed down, not reset.
- The two ends of a SCIP edge are what stands after the last dot of a symbol
  string, which is nothing for strings that end `().`; and they ignore the display
  name that the symbols table uses. Edges of such symbols match no name.
- The structural kinds of `migration.rs` have no kind of Python's and no struct,
  enum or trait of Rust's: a change in those shows no definition, or the one around.
- Of several SCIP definitions around a reference the last in the file is the caller, be
  it the outer one.
- Two `index_repo` calls for one repository that both clear and then both insert store
  it twice. `index_concurrent` runs them and shows what holds all the same; `NoDuplicates`
  and `RefinesAtomicIndex` need one call per repository, and
  `UndisturbedIndexIsComplete` excepts a call that was disturbed.
- A dependency tool that is retried after a failure between its inserts and its mark,
  that runs twice at once, or whose check fails on a marked package stores the symbols of
  the package twice (`StoredOnceWhenOrderly` excepts exactly these, by `orderly`); outside
  Rust it marks a package whose call edges could not be inserted (`MarkedIsStored` asks
  for the edges of Rust packages only).
- An analysis whose index is evicted before its search answers with nothing
  (`UndisturbedAnalysisAnswers` excepts it, by `clean`).
- An eviction while `index_repo` is at work on the repository leaves symbols and
  vectors without a row of `repos` (`overlapped`).

## 5. What is proved

`IndexRepo_proofs` proves, for any number of repositories, files, declarations,
callers and calls, any chunk size, with failures, crashes and edits anywhere:

- `TypeCorrect`: the type invariant.
- `IdsNeverReused`: the inductive invariant `IdsNameOneRow`. Over the rows
  *known*, those in the table and those a call has loaded and not yet embedded,
  ids are unique and below the sequence, and a vector is of the row with its id.
  The rows loaded must be part of it: they may be deleted before they are
  embedded, and what keeps their vectors from becoming those of other symbols is
  that the sequence never goes back.
- `VectorsKeepToTheirSymbols`: its consequence `VectorOfItsSymbol`.
- `NoOrphansWithOneWriter`: under `OnePerRepo` no vector outlives its symbol. The
  inductive invariant adds that calls in flight are on different repositories
  (`OneWriter`) and that the rows still to be embedded are in the table
  (`PendingRowsStored`), which holds because only calls of the same repository
  delete them (`StepOwnRows`). The run `index_orphan_vector` shows that the
  assumption is needed.

`IndexRepo_refinement` proves, as generally, and under `OnePerRepo`:

- `IndexesFromScratch`: the inductive invariant `InsertsIntoEmpty`. From `Clear` on,
  the repository of a call has no rows until `Insert` and no call edges until
  `InsertEdges`, and what `update_file_index` has read stands in its file. It holds
  because a step changes the tables of its own repository only (`StepOwnTables`).
- `NothingStoredTwice`: its consequence `NoDuplicates`.
- `ToolsImplementAtomicIndex`: the refinement. Each action has one lemma case that
  says which step of `AtomicIndex` it is to the repository of its call
  (`StepOwnSeen`), and `StepOthersStay` says that it is none to the others. What makes
  it work is that a new row has a new id, which no vector has
  (`NewRowsHaveNoVector`, from `IdsNameOneRow`): otherwise `Publish` would bring
  rows that are embedded already.
- `OthersLeftAlone`: `OtherReposUntouched`, from the same lemmas about a step.

`WorkspaceWatcher_proofs` proves, for any number of watchers, calls of the tools,
paths, versions of a file, changes and failures:

- `WatcherTypeCorrect`: the type invariant.
- `EveryWatcherCanBeStopped`: `NoStrayWatcher`, which is inductive as it stands. A
  call starts its watcher before it takes the lock of the map, and what it finds
  in the map it stops under the same lock.
- `ChangesAreRemembered`: `NoChangeForgotten`. Alone it is not inductive: when a
  transaction ends a turn, its path leaves the batch, so the index must know the
  path's present state unless the path waits again. `WatcherInv` says what the task
  may rely on between its awaits: what it found out about the file at hand, that it
  exists, that it is missing, what it contains, is still true unless an event for
  that file waits (`UpToDate`); its place in the loop agrees with the batch
  (`InStep`); and no other task runs beside one that is `alone` (`ByItself`), which
  is what keeps its rows from being changed behind its back. The lemmas `UpdateRows`
  and `RemoveRows` say that the transactions change the rows of that file only.

`IndexRepo_proofs` also proves, again with no rule about who calls what when:

- `UndisturbedIndexesAreComplete`: `UndisturbedIndexIsComplete`. The inductive
  invariant `UndisturbedInv` says of a call that nobody has disturbed since its
  `Clear` what it has built so far (`BuiltSoFar`): from `Clear` no rows and edges,
  from `Insert` one row for each symbol parsed, from `Load` those rows each in its
  hands or with its vector, and from `InsertEdges` each call once. A step of another
  call either leaves the repository alone or sets `disturbed`.

`RepoCache_proofs` proves, for any number of calls, repositories and failures:

- `TypeCorrect`: the type invariant, of which the part that matters is that
  `last_accessed_at` orders the rows strictly and totally, so that `oldest_repo`
  has one answer whenever there is a row.
- `ClonesGetListed`: where only git fails, every clone on disk has its row once no
  call is in flight, with any number of calls on one repository at once. In flight, a
  directory without a row has a call that is about to write the row or to remove the
  directory, or is removing it (`ListedInv`). That git alone may fail is needed: the run
  `cache_unlisted` shows what a crash does.
- `UnfinishedClonesAreNotReused`: with one call per repository, no failing disk and no
  crash, a directory that is empty or half-written is in the hands of the call that
  writes it (`HalfInv`), whatever is evicted at the time. The conditions are needed: a
  refresh whose `remove_dir_all` fails, and a server that stops while git writes, leave
  a part behind.
- `HalfClonesAreNotReused`: with room for every repository besides, no call evicts
  (`RoomInv`), a directory that is being removed is in the hands of the call for its own
  repository, and what is reused is whole. The run `cache_half_clone`, which has room for
  one of two, shows that the room is needed.

`DepIndexer_proofs` proves, for any packages, manifests and calls:

- `TypeCorrect`: the type invariant, with the part that a call at work has a package
  of its manifest at hand.
- `MarkedPackagesAreStored`: `MarkedIsStored`. Nothing deletes from these tables, so
  what a call has inserted of a package is there when it marks it (`FoundIsStored`).
- `OrderStoresOnce`: `StoredOnceWhenOrderly`. As long as `orderly[p]`, at most one
  call is past the check of `p`, and what is stored of it follows from where that
  call is and whether `p` is marked (`Turn`).

`Server_proofs` proves of the tools together, for any number of clients. It cites the
lemmas about steps of `RepoCache_proofs` and `IndexRepo_proofs` through instances of
those modules and shows what the stages of `analyze_feature`, the searches and the
evictions add:

- `TypeCorrect`: the type invariant, by `Typed`: a client is in one handler at a
  time, on the repository it asked for.
- `SemanticHitsKeepToTheirText`: `SemanticHitsAreOfTheirText`. The invariant is that
  of `IdsNeverReused` with one more set of known rows, those a search has loaded
  (`KnownRows`): they may be deleted before the query reads the vectors, and their
  ids still name nothing else.
- `ServerReusesNoUnfinishedClone`, as long as no disk operation fails, and
  `ServerListsClones`, where only git fails: what `RepoCache` promises holds with
  analyses and searches at work.
- `IndexesKeepToClones`: where only git fails, `IndexesBelongToClones`. It needs the
  listing: `index_repo` starts on a directory that is there, so it has a row, unless
  an eviction is about to remove it or at it; then the repository is `overlapped`
  already.
- `AnalysesAnswer`: `UndisturbedAnalysisAnswers`. The invariant (`Answered`) follows
  an analysis from stage to stage: while `clean`, what its `index_repo` has built so
  far, then that the index is complete, then what the search has read of it, with the
  edges of the hits it has done. It ends in counting: a query for `TopK` of a set of
  rows that each have one vector returns `TopK` of them or all.

`RepoParser_proofs` proves, for every tree of every grammar with names for its
functions, and SCIP documents of any length:

- `ParserInvariant`: the inductive invariant. The part that is not a type is that rows
  nest along a lineage; it needs that each node above a new one is extended to its row
  and that no row is behind the last of the root.
- `TypeCorrect`, and of the walks and queries `CallsHaveInnermostCaller`,
  `CallersHaveTheirSymbols`, `LinesFindInnermostDefinition`,
  `DiffsShowFirstDefinition`, `SymbolSourcesAreTheirRows` and, of the SCIP documents,
  `ScipEdgesHaveSymbols`: each a property of the run.
  The walks are recursive functions. `RecursionExists` shows that a function whose
  values depend on those of smaller rank exists, so its equation holds; then
  `DownTheTree` is the induction for what a node inherits (`InnermostCaller`: the walk
  brings to a node the last function of its lineage) and `UpTheTree` the one for what
  it finds below (`FoundAtNode`: what a child has found has no definition around the
  line below it, because whatever is below it is below the child too).
  Induction comes from `LeastElement`, which is the well-founded
  order of finite sets in the library, applied to the intervals from 1.

All but the last rest on lemmas of `GlobalStore_proofs`: the ids of an insert are
distinct and from the sequence on, and each transaction keeps the types of the tables.

The proofs rest on the constants' assumptions, which are named in the modules that
declare them, and on the hypotheses a theorem states (`OnePerRepo`, a bound on
`MayFail`, room in the cache). The assumptions: the sets of repositories,
declarations and callers are finite, `FileOf`, `LangOf`, `Callees`, `Source`, `Tree` and
`Abs` are functions, an absolute path is not a root-relative one, a version of a file
holds declarations of that file, the chunk size and `TopK` are positive, bounds are
numbers, and functions have names.

*Only model-checked:* what is about fairness, `CallsReturn`, `ChangesReachIndex` and
`StoppedWatcherEnds` (liveness and ENABLED are outside the prover's reach). Every
other property of a passing run is stated by a theorem. `Search` has no module of
theorems of its own; `Server_proofs` is about its actions.

## 6. Not modelled

- `history.rs`: it asks libgit2 for blobs and changed lines and keeps no state.
- The call graph: an in-memory structure no tool uses.
- The vulnerability scan: one stateless walk with substring tests; a model would
  restate the tests.
- `main.rs` and the transport: start-up and I/O.
- Schema migration of `global.db`.
- `get_symbol_source` over time: it cuts the stored lines out of the file as it is
  now, and nothing in the code relates the two.
- The embedding model's mutex: a panic while it is held makes every later embedding
  fail; the models let each fail on its own.
- Scores, distances and the text of names and signatures.
- Directories renamed as a whole under a watcher; upgrades of an installed package;
  the file tools called with the id of a package; a crash of the server under a
  watcher (it takes the watcher with it).

## 7. Plan

1. *Done:* store, indexing, cache, watcher, dependencies, with their faults.
2. *Done:* the abstract index and the refinement, checked and proved.
3. *Done:* search; the tools composed; the parsers and line queries.
4. *Done, proofs:* every invariant and action property of a passing run, and the
   refinement of `AtomicIndex`.
5. *Left, proofs:* that the server's steps are steps of its components (`RepoCache`
   and `IndexRepo`, from their instances), as theorems and not only lemma by lemma; the
   measures that make the loops end (the eviction loop, the embedding loop, the rest of
   a manifest, the batch of the watcher), which are the safety part of the liveness
   properties; `SemanticHitsAreOfTheirText` for a search beside concurrent indexing of
   one repository.
6. *Left, models:* a second update of the same file by the file tools beside the
   watcher; a batch that is dropped with its watcher.
