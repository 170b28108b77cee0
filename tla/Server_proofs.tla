--------------------------- MODULE Server_proofs ----------------------------
(***************************************************************************)
(* What TLAPS shows of the tools together, for any number of callers,      *)
(* repositories and declarations.  The steps of clone_reference and of     *)
(* index_repo are those of RepoCache and IndexRepo: what is proved of them *)
(* there is cited through the two instances below, and what is added here  *)
(* is what the stages of analyze_feature, the search and the evictions do  *)
(* to one another.                                                         *)
(***************************************************************************)
EXTENDS Server, GlobalStore_proofs, FunctionTheorems

CP == INSTANCE RepoCache_proofs WITH
    DbSize <- 0, OnePerRepo <- FALSE, MaxCalls <- MaxJobs,
    MaxFailures <- MaxNetFailures

XP == INSTANCE IndexRepo_proofs WITH
    trees <- [r \in Repo |-> TreeOf(r)],
    disturbed <- [c \in Caller |-> FALSE],
    Trees <- {Tree[r] : r \in Repo} \cup {{}},
    Lang <- {"any"}, LangOf <- [d \in Decl |-> "any"],
    Tools <- {"index_repo"},
    ChunkSize <- Cardinality(Decl) + 1,
    OnePerRepo <- FALSE, MaxCalls <- MaxJobs

----------------------------------------------------------------------------
(* The handlers of clone_reference and index_repo, as the two instances    *)
(* above know them.                                                        *)

LEMMA SameFiniteSets ==
    ASSUME NEW S
    PROVE  /\ X!Cardinality(S) = Cardinality(S) /\ XP!Cardinality(S) = Cardinality(S)
           /\ C!Cardinality(S) = Cardinality(S) /\ CP!Cardinality(S) = Cardinality(S)
           /\ XP!IsFiniteSet(S) <=> IsFiniteSet(S)
           /\ CP!IsFiniteSet(S) <=> IsFiniteSet(S)
BY DEF Cardinality, X!Cardinality, XP!Cardinality, C!Cardinality, CP!Cardinality,
       IsFiniteSet, XP!IsFiniteSet, CP!IsFiniteSet

LEMMA SameNewRows ==
    ASSUME NEW r, NEW batch, NEW first
    PROVE  /\ X!NewRows(r, batch, first) = NewRows(r, batch, first)
           /\ XP!NewRows(r, batch, first) = NewRows(r, batch, first)
BY SameFiniteSets DEF X!NewRows, XP!NewRows, NewRows, X!Numbering, XP!Numbering, Numbering

LEMMA IndexSteps ==
    ASSUME NEW c \in Caller
    PROVE  /\ X!Parse(c) => XP!Parse(c)
           /\ X!Touch(c) => XP!Touch(c)
           /\ X!Clear(c) => XP!Clear(c)
           /\ X!Insert(c) => XP!Insert(c)
           /\ X!Load(c) => XP!Load(c)
           /\ X!EmbedChunk(c) => XP!EmbedChunk(c)
           /\ X!InsertEdges(c) => XP!InsertEdges(c)
           /\ X!Count(c) => XP!Count(c)
           /\ X!Fail(c) => XP!Fail(c)
<1> USE DEF X!At, XP!At, X!storeVars, XP!storeVars, X!RowsOf, XP!RowsOf, X!Goto, XP!Goto,
       X!Return, XP!Return, X!Resting, XP!Resting
<1>1. X!Parse(c) => XP!Parse(c)
  <2>1. \A S : X!Cardinality(S) = XP!Cardinality(S)
    BY SameFiniteSets
  <2> QED
    BY <2>1 DEF X!Parse, XP!Parse, X!Parsed, XP!Parsed
<1>2. X!Touch(c) => XP!Touch(c)
  BY DEF X!Touch, XP!Touch, X!MarkAccessed, XP!MarkAccessed, X!Listed, XP!Listed,
     X!Latest, XP!Latest, X!Forget, XP!Forget
<1>3. X!Clear(c) => XP!Clear(c)
  BY DEF X!Clear, XP!Clear, X!ClearSymbols, XP!ClearSymbols, X!DropVectors, XP!DropVectors, X!Ids, XP!Ids,
    X!DropEdges, XP!DropEdges
<1>4. X!Insert(c) => XP!Insert(c)
  BY SameFiniteSets, SameNewRows DEF X!Insert, XP!Insert, X!InsertSymbols, XP!InsertSymbols
<1>5. X!Load(c) => XP!Load(c)
  BY DEF X!Load, XP!Load, X!EmbedOrGoOn, XP!EmbedOrGoOn
<1>6. X!EmbedChunk(c) => XP!EmbedChunk(c)
  <2>1. \A S : X!Cardinality(S) = XP!Cardinality(S)
    BY SameFiniteSets
  <2> QED
    BY <2>1 DEF X!EmbedChunk, XP!EmbedChunk, X!FirstChunk, XP!FirstChunk, X!InsertEmbeddings, XP!InsertEmbeddings,
    X!CanInsertEmbeddings, XP!CanInsertEmbeddings, X!Ids, XP!Ids, X!EmbedOrGoOn, XP!EmbedOrGoOn
<1>7. X!InsertEdges(c) => XP!InsertEdges(c)
  BY DEF X!InsertEdges, XP!InsertEdges, X!InsertCallEdges, XP!InsertCallEdges, X!AddEdges, XP!AddEdges
<1>8. X!Count(c) => XP!Count(c)
  <2>1. \A S : X!Cardinality(S) = XP!Cardinality(S)
    BY SameFiniteSets
  <2> QED
    BY <2>1 DEF X!Count, XP!Count, X!UpdateSymbolCount, XP!UpdateSymbolCount, X!Listed, XP!Listed
<1>9. X!Fail(c) => XP!Fail(c)
  BY DEF X!Fail, XP!Fail, X!Active, XP!Active, X!RestPoints, XP!RestPoints
<1> QED
  BY <1>1, <1>2, <1>3, <1>4, <1>5, <1>6, <1>7, <1>8, <1>9

LEMMA CloneSteps ==
    ASSUME NEW c \in Caller, C!Step(c)
    PROVE  CP!Step(c)
<1> USE DEF C!At, CP!At, C!storeVars, CP!storeVars, C!Goto, CP!Goto, C!Return, CP!Return,
       C!Resting, CP!Resting, C!Reliable, CP!Reliable, C!Unreliable, CP!Unreliable,
       C!SetDir, CP!SetDir, C!Tear, CP!Tear, C!RemovalFails, CP!RemovalFails,
       C!Listed, CP!Listed
<1>1. C!Refresh(c) => CP!Refresh(c)
  BY DEF C!Refresh, CP!Refresh
<1>2. C!Lookup(c) => CP!Lookup(c)
  BY DEF C!Lookup, CP!Lookup
<1>3. C!CacheHit(c) => CP!CacheHit(c)
  BY DEF C!CacheHit, CP!CacheHit
<1>4. C!CreateDir(c) => CP!CreateDir(c)
  BY DEF C!CreateDir, CP!CreateDir
<1>5. C!BeginGit(c) => CP!BeginGit(c)
  BY DEF C!BeginGit, CP!BeginGit, C!NextAttempt, CP!NextAttempt
<1>6. C!EndGit(c) => CP!EndGit(c)
  BY DEF C!EndGit, CP!EndGit, C!NextAttempt, CP!NextAttempt
<1>7. C!Cleanup(c) => CP!Cleanup(c)
  BY DEF C!Cleanup, CP!Cleanup
<1>8. C!Upsert(c) => CP!Upsert(c)
  BY DEF C!Upsert, CP!Upsert, C!UpsertRepo, CP!UpsertRepo, C!Latest, CP!Latest,
         C!Forget, CP!Forget, C!FreshRow, CP!FreshRow
<1>9. C!Touch(c) => CP!Touch(c)
  BY DEF C!Touch, CP!Touch, C!MarkAccessed, CP!MarkAccessed, C!Latest, CP!Latest,
         C!Forget, CP!Forget
<1>10. C!Size(c) => CP!Size(c)
  <2>1. \A counted : C!CurrentSize(counted) = CP!CurrentSize(counted)
    BY SameFiniteSets DEF C!CurrentSize, CP!CurrentSize
  <2> QED
    BY <2>1 DEF C!Size, CP!Size, C!Removing, CP!Removing
<1>11. C!List(c) => CP!List(c)
  BY DEF C!List, CP!List, C!IsOldest, CP!IsOldest
<1>12. C!EvictRow(c) => CP!EvictRow(c)
  BY DEF C!EvictRow, CP!EvictRow, C!EvictRepo, CP!EvictRepo, C!DropVectors, CP!DropVectors,
         C!Ids, CP!Ids, C!RowsOf, CP!RowsOf, C!DropEdges, CP!DropEdges, C!Forget, CP!Forget
<1>13. C!EvictDir(c) => CP!EvictDir(c)
  BY DEF C!EvictDir, CP!EvictDir
<1>14. C!EndRefresh(c) => CP!EndRefresh(c)
  BY DEF C!EndRefresh, CP!EndRefresh
<1>15. C!EndCleanup(c) => CP!EndCleanup(c)
  BY DEF C!EndCleanup, CP!EndCleanup
<1>16. C!EndEvictDir(c) => CP!EndEvictDir(c)
  BY DEF C!EndEvictDir, CP!EndEvictDir
<1> QED
  BY <1>1, <1>2, <1>3, <1>4, <1>5, <1>6, <1>7, <1>8, <1>9, <1>10, <1>11, <1>12, <1>13,
     <1>14, <1>15, <1>16
  DEF C!Step, CP!Step

\* What the two proof modules assume of their constants.
LEMMA CacheAssumptions ==
    /\ CP!IsFiniteSet(Repo) /\ CP!IsFiniteSet(Caller) /\ Repo # {}
    /\ CP!IsFiniteSet(Decl) /\ FileOf \in [Decl -> File]
    /\ NoRow \notin CP!RepoRow
    /\ Limit \in Nat /\ 0 \in Nat /\ MayFail \subseteq CP!FailureKinds
    /\ FALSE \in BOOLEAN /\ MaxJobs \in Nat /\ MaxNetFailures \in Nat
BY SameFiniteSets, RepoAssumption, CallerAssumption, DeclAssumption, NoRowAssumption,
   BoundAssumption, FailureAssumption
DEF CP!RepoRow, RepoRow, CP!FailureKinds, C!FailureKinds

LEMMA IndexAssumptions ==
    /\ XP!IsFiniteSet(Repo) /\ XP!IsFiniteSet(Caller) /\ Repo # {} /\ File # {}
    /\ XP!IsFiniteSet(Decl) /\ FileOf \in [Decl -> File]
    /\ NoRow \notin XP!RepoRow
    /\ [d \in Decl |-> "any"] \in [Decl -> {"any"}]
    /\ {Tree[r] : r \in Repo} \cup {{}} \subseteq SUBSET Decl
    /\ \A T \in SUBSET Decl : T # NoDir
    /\ {"index_repo"} \subseteq XP!ToolNames
    /\ Cardinality(Decl) + 1 \in Nat \ {0}
    /\ MaxSkipped \in Nat /\ MaxJobs \in Nat /\ FALSE \in BOOLEAN
<1>1. Cardinality(Decl) \in Nat
  BY BatchFinite
<1>2. Cardinality(Decl) + 1 \in Nat \ {0}
  BY <1>1
<1> QED
  BY <1>2, SameFiniteSets, RepoAssumption, CallerAssumption, DeclAssumption,
     NoRowAssumption, BoundAssumption, TreeAssumption
  DEF XP!RepoRow, RepoRow, XP!ToolNames

LEMMA CacheTypes ==
    /\ CP!CacheTyped <=>
          /\ StoreTypeOK /\ IsStrictOrder(older, Listed)
          /\ dir \in [Repo -> C!DirState] /\ clone \in [Caller -> C!Clone]
    /\ CP!CacheTyped' <=>
          /\ StoreTypeOK' /\ IsStrictOrder(older, Listed)'
          /\ dir' \in [Repo -> C!DirState] /\ clone' \in [Caller -> C!Clone]
BY DEF CP!CacheTyped, CP!StoreTypeOK, StoreTypeOK, CP!IsStrictOrder, IsStrictOrder,
       CP!Listed, Listed, CP!DirState, C!DirState, CP!Clone, C!Clone,
       CP!RestPoints, C!RestPoints, CP!ClonePoints, C!ClonePoints,
       CP!CapacityPoints, C!CapacityPoints, CP!RepoRow, RepoRow, CP!Symbol, Symbol,
       CP!Vector, Vector

LEMMA CloneStepTypes ==
    ASSUME TypeOK, NEW c \in Caller, C!Step(c)
    PROVE  /\ StoreTypeOK' /\ IsStrictOrder(older, Listed)'
           /\ dir' \in [Repo -> C!DirState] /\ clone' \in [Caller -> C!Clone]
           /\ started' = started /\ failures' \in Nat
           /\ \A k \in Caller : k # c => clone'[k] = clone[k]
           /\ clone'[c].repo = clone[c].repo
           /\ C!Active(c)
<1>1. CP!Step(c) /\ CP!CacheTyped
  BY CloneSteps, CacheTypes DEF TypeOK
<1>2. CP!CacheTyped'
  BY <1>1, CP!StepType, CacheAssumptions
<1>3. started' = started
  BY <1>1, CP!StepStarted, CacheAssumptions
<1>4. failures' = failures \/ failures' = failures + 1
  BY <1>1, CP!StepCounters, CacheAssumptions DEF CP!Reliable, CP!Unreliable
<1>5. clone \in [Caller -> CP!Clone]
  BY <1>1 DEF CP!CacheTyped
<1>6. /\ \A k \in Caller : k # c => clone'[k] = clone[k]
      /\ clone'[c].repo = clone[c].repo
      /\ CP!Active(c)
  BY <1>1, <1>5, CP!StepClones, CacheAssumptions
<1>7. C!Active(c)
  BY <1>6 DEF CP!Active, C!Active, CP!RestPoints, C!RestPoints
<1> QED
  BY <1>2, <1>3, <1>4, <1>6, <1>7, CacheTypes DEF TypeOK

----------------------------------------------------------------------------
(* index_repo.                                                             *)

LEMMA IndexTypes ==
    /\ XP!Call = X!Call
    /\ XP!StoreTypeOK <=> StoreTypeOK
    /\ XP!StoreTypeOK' <=> StoreTypeOK'
BY DEF XP!Call, X!Call, XP!Points, X!Points, XP!RestPoints, X!RestPoints,
       XP!IndexPoints, X!IndexPoints, XP!FilePoints, X!FilePoints, XP!Symbol, X!Symbol,
       XP!StoreTypeOK, StoreTypeOK, XP!RepoRow, RepoRow, Symbol, XP!Vector, Vector

LEMMA IndexTyped ==
    ASSUME TypeOK
    PROVE  XP!TypeOK
<1>1. [r \in Repo |-> TreeOf(r)] \in [Repo -> {NoDir} \cup SUBSET Decl]
  BY TreeAssumption DEF TreeOf, TypeOK, C!DirState
<1>2. [c \in Caller |-> FALSE] \in [Caller -> BOOLEAN]
  OBVIOUS
<1> QED
  BY <1>1, <1>2, IndexTypes DEF XP!TypeOK, TypeOK

\* The transactions of index_repo, as steps of the store the tools share.
LEMMA IndexStore ==
    ASSUME NEW r, NEW batch, NEW rows, NEW n
    PROVE  /\ UNCHANGED X!storeVars <=> UNCHANGED storeVars
           /\ X!RowsOf(r) = RowsOf(r)
           /\ X!MarkAccessed(r) <=> MarkAccessed(r)
           /\ X!ClearSymbols(r) <=> ClearSymbols(r)
           /\ X!InsertSymbols(r, batch) <=> InsertSymbols(r, batch)
           /\ X!InsertEmbeddings(rows) <=> InsertEmbeddings(rows)
           /\ X!InsertCallEdges(r, batch) <=> InsertCallEdges(r, batch)
           /\ X!UpdateSymbolCount(r, n) <=> UpdateSymbolCount(r, n)
<1>1. (UNCHANGED X!storeVars <=> UNCHANGED storeVars) /\ X!RowsOf(r) = RowsOf(r)
  BY DEF X!storeVars, storeVars, X!RowsOf, RowsOf
<1>2. X!MarkAccessed(r) <=> MarkAccessed(r)
  BY DEF X!MarkAccessed, MarkAccessed, X!Listed, Listed, X!Latest, Latest,
         X!Forget, Forget
<1>3. X!ClearSymbols(r) <=> ClearSymbols(r)
  BY DEF X!ClearSymbols, ClearSymbols, X!DropVectors, DropVectors, X!Ids, Ids,
         X!RowsOf, RowsOf, X!DropEdges, DropEdges
<1>4. X!InsertSymbols(r, batch) <=> InsertSymbols(r, batch)
  BY SameFiniteSets, SameNewRows DEF X!InsertSymbols, InsertSymbols
<1>5. X!InsertEmbeddings(rows) <=> InsertEmbeddings(rows)
  BY DEF X!InsertEmbeddings, InsertEmbeddings, X!CanInsertEmbeddings,
         CanInsertEmbeddings, X!Ids, Ids
<1>6. X!InsertCallEdges(r, batch) <=> InsertCallEdges(r, batch)
  BY DEF X!InsertCallEdges, InsertCallEdges, X!AddEdges, AddEdges
<1>7. X!UpdateSymbolCount(r, n) <=> UpdateSymbolCount(r, n)
  BY DEF X!UpdateSymbolCount, UpdateSymbolCount, X!Listed, Listed
<1> QED
  BY <1>1, <1>2, <1>3, <1>4, <1>5, <1>6, <1>7

\* What a step of index_repo does to the rows of table symbols and their vectors:
\* it adds none, or the rows of its insert, or the vectors of rows it has loaded.
NoNewRows(c) ==
    /\ symbols' \subseteq symbols /\ vecs' \subseteq vecs /\ nextId' = nextId
    /\ call'[c].rows \subseteq symbols \cup call[c].rows
InsertsRows(c) ==
    /\ symbols' = symbols \cup NewRows(call[c].repo, call[c].syms, nextId)
    /\ vecs' = vecs /\ nextId' = nextId + Cardinality(call[c].syms)
    /\ call'[c].rows = call[c].rows
EmbedsRows(c) ==
    /\ symbols' = symbols /\ nextId' = nextId
    /\ \A v \in vecs' : v \in vecs \/
          \E s \in call[c].rows : v = [id |-> s.id, decl |-> s.decl]
    /\ call'[c].rows \subseteq call[c].rows

LEMMA IndexStepTypes ==
    ASSUME TypeOK, NEW c \in Caller, IndexStep(c)
    PROVE  /\ XP!Step(c)
           /\ StoreTypeOK' /\ call' \in [Caller -> X!Call] /\ started' = started
           /\ failures' \in Nat /\ (failures' = failures \/ failures' = failures + 1)
           /\ UNCHANGED <<dir, clone, find, job>>
           /\ \A k \in Caller : k # c => call'[k] = call[k]
<1>1. XP!Step(c)
  BY IndexSteps DEF IndexStep, XP!Step
<1>2. XP!TypeOK
  BY IndexTyped
<1>3. XP!TypeBase'
  BY <1>1, <1>2, XP!StepType, IndexAssumptions
<1>4. StoreTypeOK' /\ call' \in [Caller -> X!Call]
  BY <1>3, IndexTypes DEF XP!TypeBase
<1>5. UNCHANGED <<dir, clone, find, job>> /\ (failures' = failures \/ failures' = failures + 1)
  BY DEF IndexStep, Works, Fails
<1>6. \A k \in Caller : k # c => call'[k] = call[k]
  BY <1>1, <1>2, XP!StepCalls, IndexAssumptions
<1>7. started' = started
  BY DEF IndexStep, X!Parse, X!Touch, X!Clear, X!Insert, X!Load, X!EmbedChunk,
         X!InsertEdges, X!Count, X!Fail, X!Goto, X!Return
<1> QED
  BY <1>1, <1>4, <1>5, <1>6, <1>7 DEF TypeOK

LEMMA IndexStepRows ==
    ASSUME TypeOK, NEW c \in Caller, IndexStep(c)
    PROVE  /\ Listed' = Listed /\ IsStrictOrder(older, Listed)'
           /\ X!Active(c)
           /\ call'[c].repo = call[c].repo \/ call'[c].pc \in {"done", "failed"}
           /\ call'[c].pc \in X!RestPoints \cup X!IndexPoints
           /\ NoNewRows(c) \/ InsertsRows(c) \/ EmbedsRows(c)
<1> DEFINE r == call[c].repo
<1>0. /\ call \in [Caller -> X!Call] /\ r \in Repo /\ StoreTypeOK
      /\ IsStrictOrder(older, Listed) /\ call[c].syms \in SUBSET Decl
  BY DEF TypeOK, X!Call
<1> DEFINE Keeps == call'[c].repo = r /\ call'[c].rows = call[c].rows
           Listing == Listed' = Listed /\ IsStrictOrder(older, Listed)'
<1>g. ASSUME NEW pc, X!Goto(c, pc) PROVE Keeps /\ call'[c].pc = pc
  BY <1>0, <1>g DEF X!Goto, X!Call
<1>r. ASSUME NEW pc, X!Return(c, pc) PROVE call'[c].rows = {} /\ call'[c].pc = pc
  BY <1>0, <1>r DEF X!Return, X!Resting
<1>l. repos' = repos /\ older' = older => Listing
  BY <1>0 DEF Listed, IsStrictOrder
<1>s. UNCHANGED storeVars => Listing /\ symbols' = symbols /\ vecs' = vecs /\ nextId' = nextId
  BY <1>l DEF storeVars
<1>p. \A pc \in {"touch", "clear", "insert", "load", "embed", "edges", "count", "done", "failed"} :
         pc \in X!RestPoints \cup X!IndexPoints
  BY DEF X!RestPoints, X!IndexPoints
<1>a. \A pc \in {"parse", "touch", "clear", "insert", "load", "embed", "edges", "count"} :
         X!At(c, pc) => X!Active(c)
  BY DEF X!At, X!Active, X!RestPoints
<1> HIDE DEF r
<1>1. CASE X!Parse(c)
  <2>1. Keeps /\ call'[c].pc = "touch"
    BY <1>0, <1>1 DEF X!Parse, X!Call, r
  <2> QED
    BY <1>1, <1>a, <1>p, <1>s, <2>1, IndexStore DEF X!Parse, NoNewRows, r
<1>2. CASE X!Touch(c)
  <2>1. MarkAccessed(r) \/ UNCHANGED storeVars
    BY <1>2, IndexStore DEF X!Touch, r
  <2>2. Listing /\ symbols' = symbols /\ vecs' = vecs /\ nextId' = nextId
    BY <1>0, <1>s, <2>1, MarkAccessedOrder DEF MarkAccessed, Listed
  <2> QED
    BY <1>2, <1>a, <1>g, <1>p, <2>2 DEF X!Touch, NoNewRows, r
<1>3. CASE X!Clear(c)
  <2>1. ClearSymbols(r)
    BY <1>3, IndexStore DEF X!Clear, r
  <2>2. Listing /\ symbols' \subseteq symbols /\ vecs' \subseteq vecs /\ nextId' = nextId
    BY <1>l, <2>1 DEF ClearSymbols, DropVectors
  <2> QED
    BY <1>3, <1>a, <1>g, <1>p, <2>2 DEF X!Clear, NoNewRows, r
<1>4. CASE X!Insert(c)
  <2>1. InsertSymbols(r, call[c].syms)
    BY <1>4, IndexStore DEF X!Insert, r
  <2>2. Listing
    BY <1>l, <2>1 DEF InsertSymbols
  <2> QED
    BY <1>4, <1>a, <1>g, <1>p, <2>1, <2>2 DEF X!Insert, InsertsRows, InsertSymbols, r
<1>5. CASE X!Load(c)
  <2>1. /\ call'[c].rows = RowsOf(r) /\ call'[c].repo = r
        /\ call'[c].pc \in {"edges", "embed"}
    BY <1>0, <1>5, IndexStore DEF X!Load, X!Call, X!EmbedOrGoOn, r
  <2> QED
    BY <1>5, <1>a, <1>p, <1>s, <2>1, IndexStore DEF X!Load, NoNewRows, RowsOf, r
<1>6. CASE X!EmbedChunk(c)
  <2> DEFINE chunk == X!FirstChunk(call[c].rows)
             left == call[c].rows \ chunk
  <2>1. /\ InsertEmbeddings(chunk)
        /\ call' = [call EXCEPT ![c].rows = left, ![c].pc = X!EmbedOrGoOn(left)]
        /\ X!At(c, "embed")
    BY <1>6, IndexStore DEF X!EmbedChunk
  <2>2. chunk \subseteq call[c].rows
    BY DEF X!FirstChunk
  <2> HIDE DEF chunk
  <2>3. /\ call'[c].rows = left /\ call'[c].repo = r
        /\ call'[c].pc \in {"edges", "embed"}
    BY <1>0, <2>1 DEF X!Call, X!EmbedOrGoOn, r
  <2>4. EmbedsRows(c)
    BY <2>1, <2>2, <2>3 DEF EmbedsRows, InsertEmbeddings
  <2> QED
    BY <1>a, <1>l, <1>p, <2>1, <2>3, <2>4 DEF InsertEmbeddings, r
<1>7. CASE X!InsertEdges(c)
  <2>1. InsertCallEdges(r, call[c].calls)
    BY <1>7, IndexStore DEF X!InsertEdges, r
  <2>2. Listing /\ symbols' = symbols /\ vecs' = vecs /\ nextId' = nextId
    BY <1>l, <2>1 DEF InsertCallEdges
  <2> QED
    BY <1>7, <1>a, <1>g, <1>p, <2>2 DEF X!InsertEdges, NoNewRows, r
<1>8. CASE X!Count(c)
  <2>1. UpdateSymbolCount(r, X!Cardinality(call[c].syms))
    BY <1>8, IndexStore DEF X!Count, r
  <2>2. [indexed |-> TRUE, count |-> X!Cardinality(call[c].syms)] # NoRow
    <3>1. PICK n \in Nat : n = X!Cardinality(call[c].syms)
      BY <1>0, SameFiniteSets, BatchFinite
    <3>2. [indexed |-> TRUE, count |-> n] \in RepoRow
      BY DEF RepoRow
    <3> QED
      BY <3>1, <3>2, NoRowAssumption
  <2>3. Listed' = Listed /\ older' = older
    BY <1>0, <2>1, <2>2 DEF UpdateSymbolCount, Listed, StoreTypeOK
  <2>4. Listing
    BY <1>0, <2>3 DEF IsStrictOrder
  <2>5. symbols' = symbols /\ vecs' = vecs /\ nextId' = nextId
    BY <2>1 DEF UpdateSymbolCount
  <2> QED
    BY <1>8, <1>a, <1>r, <1>p, <2>4, <2>5 DEF X!Count, NoNewRows
<1>9. CASE X!Fail(c)
  BY <1>9, <1>r, <1>p, <1>s, IndexStore DEF X!Fail, NoNewRows
<1> QED
  BY <1>1, <1>2, <1>3, <1>4, <1>5, <1>6, <1>7, <1>8, <1>9 DEF IndexStep, r

----------------------------------------------------------------------------
(* locate_implementation.                                                  *)

\* While related symbols are being looked up there is a hit to look them up for.
HasHit(c) == find[c].pc \in {"callees", "callers"} => find[c].todo # {}

\* A hit new to a search is found by its name, or is a symbol the search has
\* loaded that has the id of a vector.
FoundNow(c, h) ==
    \/ h.text = NoText
    \/ \E v \in vecs, s \in find[c].shown : v.id = s.id /\ h.sym = s /\ h.text = v.decl

LEMMA FindSetType ==
    ASSUME find \in [Caller -> Find], NEW c \in Caller, NEW f \in Find,
           find' = [find EXCEPT ![c] = f]
    PROVE  /\ find' \in [Caller -> Find] /\ find'[c] = f
           /\ \A k \in Caller : k # c => find'[k] = find[k]
OBVIOUS

LEMMA FindRestingType ==
    ASSUME NEW pc \in FindRest \cup FindPoints
    PROVE  FindResting(pc) \in Find
BY DEF FindResting, Find

LEMMA BeginFindType ==
    ASSUME find \in [Caller -> Find], NEW c \in Caller,
           NEW scope \in Repo \cup {AllRepos}, NEW k \in Nat, BeginFind(c, scope, k)
    PROVE  /\ find' \in [Caller -> Find]
           /\ find'[c] = [FindResting("mark") EXCEPT !.scope = scope, !.k = k]
           /\ find'[c].pc = "mark" /\ find'[c].scope = scope /\ find'[c].k = k
           /\ find'[c].shown = {} /\ find'[c].hits = {} /\ find'[c].todo = {}
           /\ \A j \in Caller : j # c => find'[j] = find[j]
<1> DEFINE f == [FindResting("mark") EXCEPT !.scope = scope, !.k = k]
<1>1. f \in Find
  BY DEF FindResting, Find, FindRest, FindPoints
<1>2. /\ f.pc = "mark" /\ f.scope = scope /\ f.k = k
      /\ f.shown = {} /\ f.hits = {} /\ f.todo = {}
  BY DEF FindResting
<1>3. find' = [find EXCEPT ![c] = f]
  BY DEF BeginFind
<1> HIDE DEF f
<1>4. /\ find' \in [Caller -> Find] /\ find'[c] = f
      /\ \A j \in Caller : j # c => find'[j] = find[j]
  BY <1>1, <1>3, FindSetType
<1> QED
  BY <1>2, <1>4 DEF f

\* Every step of a search, whatever it does to the search's own record.
LEMMA FindStepStore ==
    ASSUME TypeOK, NEW c \in Caller, FindStep(c)
    PROVE  /\ StoreTypeOK' /\ IsStrictOrder(older, Listed)'
           /\ UNCHANGED <<repos, symbols, vecs, edges, nextId>> /\ Listed' = Listed
           /\ failures' \in Nat /\ (failures' = failures \/ failures' = failures + 1)
           /\ find[c].pc \in FindPoints
<1>0. /\ StoreTypeOK /\ IsStrictOrder(older, Listed) /\ failures \in Nat
      /\ find[c].scope \in Repo \cup {AllRepos}
  BY DEF TypeOK, Find
<1>1. UNCHANGED storeVars \/ (find[c].scope # AllRepos /\ MarkAccessed(find[c].scope))
  BY DEF FindStep, Mark, LoadSymbols, SemanticSearch, FuzzySearch, FindCallees, FindCallers
<1>2. failures' = failures \/ failures' = failures + 1
  BY DEF FindStep, Mark, LoadSymbols, SemanticSearch, FuzzySearch, FindCallees, FindCallers,
         Works, Fails
<1>3. find[c].pc \in FindPoints
  BY DEF FindStep, Mark, LoadSymbols, SemanticSearch, FuzzySearch, FindCallees, FindCallers,
         FindAt, FindPoints
<1>4. CASE UNCHANGED storeVars
  <2>1. StoreTypeOK'
    BY <1>0, <1>4, UnchangedStoreType
  <2>2. Listed' = Listed /\ IsStrictOrder(older, Listed)'
    BY <1>0, <1>4 DEF storeVars, Listed, IsStrictOrder
  <2> QED
    BY <1>0, <1>2, <1>3, <1>4, <2>1, <2>2 DEF storeVars
<1>5. CASE find[c].scope # AllRepos /\ MarkAccessed(find[c].scope)
  <2>1. PICK r \in Repo : r = find[c].scope /\ MarkAccessed(r)
    BY <1>0, <1>5
  <2>2. StoreTypeOK'
    BY <1>0, <2>1, MarkAccessedType
  <2>3. IsStrictOrder(older, Listed)'
    BY <1>0, <2>1, MarkAccessedOrder
  <2>4. UNCHANGED <<repos, symbols, vecs, edges, nextId>> /\ Listed' = Listed
    BY <2>1 DEF MarkAccessed, Listed
  <2> QED
    BY <1>0, <1>2, <1>3, <2>2, <2>3, <2>4
<1> QED
  BY <1>1, <1>4, <1>5

LEMMA NearestType ==
    ASSUME TypeOK, NEW scope, NEW k, NEW near \in Nearest(k, scope)
    PROVE  near \subseteq vecs /\ near \subseteq Vector
BY DEF TypeOK, StoreTypeOK, Nearest, Candidates

LEMMA HitsOfType ==
    ASSUME NEW near \in SUBSET Vector, NEW shown \in SUBSET Symbol
    PROVE  /\ HitsOf(near, shown) \in SUBSET Hit
           /\ \A h \in HitsOf(near, shown) : \E v \in near, s \in shown :
                 v.id = s.id /\ h = [sym |-> s, text |-> v.decl]
           /\ \A v \in near, s \in shown :
                 v.id = s.id => [sym |-> s, text |-> v.decl] \in HitsOf(near, shown)
<1>1. \A h \in HitsOf(near, shown) : \E v \in near, s \in shown :
         v.id = s.id /\ h = [sym |-> s, text |-> v.decl]
  BY DEF HitsOf
<1>2. \A v \in near, s \in shown : [sym |-> s, text |-> v.decl] \in Hit
  BY DEF Hit, Vector
<1>3. \A v \in near, s \in shown :
         v.id = s.id => [sym |-> s, text |-> v.decl] \in HitsOf(near, shown)
  <2> SUFFICES ASSUME NEW v \in near, NEW s \in shown, v.id = s.id
               PROVE  [sym |-> s, text |-> v.decl] \in HitsOf(near, shown)
    OBVIOUS
  <2>1. <<v, s>> \in {q \in near \X shown : q[1].id = q[2].id}
    OBVIOUS
  <2> QED
    BY <2>1 DEF HitsOf
<1> QED
  BY <1>1, <1>2, <1>3

LEMMA NextHitType ==
    ASSUME NEW c \in Caller, find[c].todo # {}
    PROVE  NextHit(c) \in find[c].todo
BY DEF NextHit

\* A step that keeps the scope of the search of c, and leaves the others alone.
FindBecomes(c, pc, shown, hits, todo) ==
    /\ find' \in [Caller -> Find]
    /\ find'[c].pc = pc /\ find'[c].scope = find[c].scope /\ find'[c].k = find[c].k
    /\ find'[c].shown = shown /\ find'[c].hits = hits /\ find'[c].todo = todo
    /\ \A j \in Caller : j # c => find'[j] = find[j]

LEMMA FindGotoType ==
    ASSUME find \in [Caller -> Find], NEW c \in Caller,
           NEW pc \in FindRest \cup FindPoints, FindGoto(c, pc)
    PROVE  /\ FindBecomes(c, pc, find[c].shown, find[c].hits, find[c].todo)
           /\ find'[c].related = find[c].related
<1> DEFINE f == [find[c] EXCEPT !.pc = pc]
<1>1. f \in Find
  BY DEF Find
<1>2. /\ f.pc = pc /\ f.scope = find[c].scope /\ f.k = find[c].k
      /\ f.shown = find[c].shown /\ f.hits = find[c].hits
      /\ f.todo = find[c].todo /\ f.related = find[c].related
  BY DEF Find
<1>3. find' = [find EXCEPT ![c] = f]
  BY DEF FindGoto
<1> HIDE DEF f
<1> QED
  BY <1>1, <1>2, <1>3, FindSetType DEF FindBecomes

LEMMA FindFailType ==
    ASSUME find \in [Caller -> Find], NEW c \in Caller, FindFail(c)
    PROVE  /\ find' \in [Caller -> Find]
           /\ find'[c].pc = "failed" /\ find'[c].shown = {}
           /\ find'[c].hits = {} /\ find'[c].todo = {}
           /\ \A j \in Caller : j # c => find'[j] = find[j]
<1>1. find' = [find EXCEPT ![c] = FindResting("failed")]
  BY DEF FindFail
<1>2. FindResting("failed") \in Find
  BY FindRestingType DEF FindRest
<1> QED
  BY <1>1, <1>2 DEF FindResting

LEMMA LoadType ==
    ASSUME find \in [Caller -> Find], NEW c \in Caller, NEW shown \in SUBSET Symbol,
           find' = [find EXCEPT ![c].shown = shown, ![c].pc = "knn"]
    PROVE  FindBecomes(c, "knn", shown, find[c].hits, find[c].todo)
<1> DEFINE g == [find[c] EXCEPT !.shown = shown]
           f == [g EXCEPT !.pc = "knn"]
<1>0. /\ g \in Find /\ g.scope = find[c].scope /\ g.k = find[c].k /\ g.shown = shown
      /\ g.hits = find[c].hits /\ g.todo = find[c].todo
  BY DEF Find
<1>1. find' = [find EXCEPT ![c] = f]
  OBVIOUS
<1> HIDE DEF g
<1>2. /\ f \in Find /\ f.pc = "knn" /\ f.scope = find[c].scope /\ f.k = find[c].k
      /\ f.shown = shown /\ f.hits = find[c].hits /\ f.todo = find[c].todo
  BY <1>0 DEF Find, FindPoints
<1> HIDE DEF f
<1> QED
  BY <1>1, <1>2, FindSetType DEF FindBecomes

\* The end of the semantic search or of the fuzzy one.
LEMMA FoundType ==
    ASSUME find \in [Caller -> Find], NEW c \in Caller,
           NEW found \in SUBSET Hit, NEW pc \in FindRest \cup FindPoints,
           find' = [find EXCEPT ![c].hits = found, ![c].todo = found, ![c].pc = pc]
    PROVE  /\ FindBecomes(c, pc, find[c].shown, found, found)
           /\ find'[c].related = find[c].related
<1> DEFINE g == [find[c] EXCEPT !.hits = found, !.todo = found]
           f == [g EXCEPT !.pc = pc]
<1>1. g \in Find /\ g.hits = found /\ g.todo = found
      /\ g.scope = find[c].scope /\ g.k = find[c].k /\ g.shown = find[c].shown
      /\ g.related = find[c].related
  BY DEF Find
<1>2. find' = [find EXCEPT ![c] = f]
  OBVIOUS
<1> HIDE DEF g
<1>3. /\ f \in Find /\ f.pc = pc /\ f.scope = g.scope /\ f.k = g.k
      /\ f.shown = g.shown /\ f.hits = g.hits /\ f.todo = g.todo
      /\ f.related = g.related
  BY <1>1 DEF Find
<1> HIDE DEF f
<1> QED
  BY <1>1, <1>2, <1>3, FindSetType DEF FindBecomes

\* One hit's callees or callers have been looked up.
LEMMA RelatedType ==
    ASSUME find \in [Caller -> Find], NEW c \in Caller,
           NEW left \in SUBSET Hit, NEW pc \in FindRest \cup FindPoints,
           NEW found \in SUBSET (Hit \X (Repo \X Decl)),
           find' = [find EXCEPT ![c].pc = pc, ![c].todo = left,
                                ![c].related = @ \cup found]
    PROVE  /\ FindBecomes(c, pc, find[c].shown, find[c].hits, left)
           /\ find'[c].related = find[c].related \cup found
<1> DEFINE g == [find[c] EXCEPT !.pc = pc, !.todo = left]
           all == find[c].related \cup found
           f == [g EXCEPT !.related = all]
<1>1. g \in Find /\ g.pc = pc /\ g.todo = left
      /\ g.scope = find[c].scope /\ g.k = find[c].k /\ g.shown = find[c].shown
      /\ g.hits = find[c].hits
  BY DEF Find
<1>2. find' = [find EXCEPT ![c] = f]
  OBVIOUS
<1>3. all \in SUBSET (Hit \X (Repo \X Decl))
  BY DEF Find
<1> HIDE DEF g, all
<1>4. /\ f \in Find /\ f.pc = g.pc /\ f.scope = g.scope /\ f.k = g.k
      /\ f.shown = g.shown /\ f.hits = g.hits /\ f.todo = g.todo
      /\ f.related = all
  BY <1>1, <1>3 DEF Find
<1> HIDE DEF f
<1> QED
  BY <1>1, <1>2, <1>4, FindSetType DEF all, FindBecomes

\* What the search still owes: related symbols of hits it has.
SearchShape(c) == HasHit(c) /\ find[c].todo \subseteq find[c].hits

LEMMA CallsFound ==
    ASSUME TypeOK, NEW c \in Caller, NEW h \in Hit
    PROVE  /\ {h} \X CallsMadeBy(h.sym.decl, find[c].scope) \in SUBSET (Hit \X (Repo \X Decl))
           /\ {h} \X CallersOf(h.sym.decl, find[c].scope) \in SUBSET (Hit \X (Repo \X Decl))
<1>1. h.sym.decl \in Decl
  BY DEF Hit, Symbol
<1>2. CallsMadeBy(h.sym.decl, find[c].scope) \subseteq Repo \X Decl
  BY <1>1 DEF CallsMadeBy
<1>3. CallersOf(h.sym.decl, find[c].scope) \subseteq Repo \X Decl
  BY DEF CallersOf
<1> QED
  BY <1>2, <1>3

\* The effect of a step of a search: it keeps its scope until it fails, shows
\* symbols it has loaded, and has no hit that was not found by this step or before.
SearchGoesOn(c) ==
    /\ find' \in [Caller -> Find]
    /\ \A j \in Caller : j # c => find'[j] = find[j]
    /\ find'[c].pc \in FindPoints \cup {"done", "failed"}
    /\ find'[c].pc # "failed" =>
          find'[c].scope = find[c].scope /\ find'[c].k = find[c].k
    /\ find'[c].shown \subseteq find[c].shown \cup symbols
    /\ \A h \in find'[c].hits : h \in find[c].hits \/ FoundNow(c, h)
    /\ SearchShape(c)'

LEMMA GoesOn ==
    ASSUME NEW c \in Caller, NEW shown, NEW hits, NEW todo,
           NEW pc \in FindPoints \cup {"done"},
           FindBecomes(c, pc, shown, hits, todo),
           shown \subseteq find[c].shown \cup symbols,
           \A h \in hits : h \in find[c].hits \/ FoundNow(c, h),
           todo \subseteq hits, pc \in {"callees", "callers"} => todo # {}
    PROVE  SearchGoesOn(c)
BY DEF FindBecomes, SearchGoesOn, SearchShape, HasHit, FindPoints

\* The semantic search has found the symbols of the nearest vectors, or none.
LEMMA SemanticFinds ==
    ASSUME TypeOK, NEW c \in Caller, SemanticSearch(c)
    PROVE  \/ FindGoto(c, "fuzzy") /\ Fails
           \/ /\ Works
              /\ \E near \in Nearest(find[c].k, find[c].scope), found \in SUBSET Hit,
                    pc \in {"fuzzy", "callees"} :
                    /\ found = HitsOf(near, find[c].shown)
                    /\ \A h \in found : FoundNow(c, h)
                    /\ pc = "fuzzy" <=> found = {}
                    /\ FindBecomes(c, pc, find[c].shown, found, found)
                    /\ find'[c].related = find[c].related
<1>1. SUFFICES
        ASSUME Works,
               NEW near \in Nearest(find[c].k, find[c].scope),
               LET found == HitsOf(near, find[c].shown)
               IN  find' = [find EXCEPT ![c].hits = found, ![c].todo = found,
                                        ![c].pc = IF found = {} THEN "fuzzy" ELSE "callees"]
        PROVE  \E found \in SUBSET Hit, pc \in {"fuzzy", "callees"} :
                    /\ found = HitsOf(near, find[c].shown)
                    /\ \A h \in found : FoundNow(c, h)
                    /\ pc = "fuzzy" <=> found = {}
                    /\ FindBecomes(c, pc, find[c].shown, found, found)
                    /\ find'[c].related = find[c].related
  BY DEF SemanticSearch
<1>0. find \in [Caller -> Find] /\ find[c].shown \in SUBSET Symbol
  BY DEF TypeOK, Find
<1>2. near \in SUBSET vecs /\ near \in SUBSET Vector
  BY NearestType
<1>3. /\ HitsOf(near, find[c].shown) \in SUBSET Hit
      /\ \A h \in HitsOf(near, find[c].shown) : \E v \in near, s \in find[c].shown :
            v.id = s.id /\ h = [sym |-> s, text |-> v.decl]
  BY <1>0, <1>2, HitsOfType
<1>4. PICK found \in SUBSET Hit : found = HitsOf(near, find[c].shown)
  BY <1>3
<1>5. PICK pc \in {"fuzzy", "callees"} : pc = IF found = {} THEN "fuzzy" ELSE "callees"
  OBVIOUS
<1>6. find' = [find EXCEPT ![c].hits = found, ![c].todo = found, ![c].pc = pc]
  BY <1>1, <1>4, <1>5
<1>7. \A h \in found : FoundNow(c, h)
  BY <1>2, <1>3, <1>4 DEF FoundNow
<1>8. pc \in FindRest \cup FindPoints
  BY DEF FindPoints
<1>9. /\ FindBecomes(c, pc, find[c].shown, found, found)
      /\ find'[c].related = find[c].related
  BY <1>0, <1>6, <1>8, FoundType
<1>10. pc = "fuzzy" <=> found = {}
  BY <1>5
<1> QED
  BY <1>4, <1>7, <1>9, <1>10

\* The fuzzy search has found symbols by their name, or none.
LEMMA FuzzyFinds ==
    ASSUME TypeOK, NEW c \in Caller, FuzzySearch(c)
    PROVE  \E found \in SUBSET Hit :
              /\ \A h \in found : h.text = NoText /\ h.sym \in find[c].shown
              /\ FindBecomes(c, IF found = {} THEN "done" ELSE "callees",
                             find[c].shown, found, found)
<1>0. find \in [Caller -> Find] /\ find[c].shown \in SUBSET Symbol
  BY DEF TypeOK, Find
<1>1. PICK matching \in SUBSET find[c].shown :
         LET found == {[sym |-> s, text |-> NoText] : s \in matching}
         IN  find' = [find EXCEPT ![c].hits = found, ![c].todo = found,
                                  ![c].pc = IF found = {} THEN "done" ELSE "callees"]
  BY DEF FuzzySearch
<1>2. {[sym |-> s, text |-> NoText] : s \in matching} \in SUBSET Hit
  BY <1>0 DEF Hit
<1>3. PICK found \in SUBSET Hit : found = {[sym |-> s, text |-> NoText] : s \in matching}
  BY <1>2
<1>4. PICK pc \in {"done", "callees"} : pc = IF found = {} THEN "done" ELSE "callees"
  OBVIOUS
<1>5. find' = [find EXCEPT ![c].hits = found, ![c].todo = found, ![c].pc = pc]
  BY <1>1, <1>3, <1>4
<1>6. \A h \in found : h.text = NoText /\ h.sym \in find[c].shown
  BY <1>3
<1>7. pc \in FindRest \cup FindPoints
  BY DEF FindPoints, FindRest
<1>8. FindBecomes(c, pc, find[c].shown, found, found)
  BY <1>0, <1>5, <1>7, FoundType
<1> QED
  BY <1>4, <1>6, <1>8

LEMMA CalleesFinds ==
    ASSUME TypeOK, NEW c \in Caller, FindCallees(c), find[c].todo # {}
    PROVE  /\ FindBecomes(c, "callers", find[c].shown, find[c].hits, find[c].todo)
           /\ \/ Fails
              \/ /\ Works
                 /\ find'[c].related = find[c].related \cup
                       ({NextHit(c)} \X CallsMadeBy(NextHit(c).sym.decl, find[c].scope))
<1>0. /\ find \in [Caller -> Find] /\ find[c] \in Find
      /\ find[c].todo \in SUBSET Hit
  BY DEF TypeOK, Find
<1>1. PICK h \in Hit : h = NextHit(c) /\ h \in find[c].todo
  BY <1>0, NextHitType
<1>2. "callers" \in FindRest \cup FindPoints
  BY DEF FindPoints
<1>3. CASE FindGoto(c, "callers") /\ Fails
  BY <1>0, <1>2, <1>3, FindGotoType
<1>4. CASE /\ find' = [find EXCEPT ![c].pc = "callers",
                  ![c].related = @ \cup ({h} \X CallsMadeBy(h.sym.decl, find[c].scope))]
           /\ Works
  <2>1. PICK found \in SUBSET (Hit \X (Repo \X Decl)) :
           found = {h} \X CallsMadeBy(h.sym.decl, find[c].scope)
    BY CallsFound
  <2>2. PICK left \in SUBSET Hit : left = find[c].todo
    BY <1>0
  <2>3. find' = [find EXCEPT ![c].pc = "callers", ![c].todo = left,
                             ![c].related = @ \cup found]
    BY <1>0, <1>4, <2>1, <2>2 DEF Find
  <2>4. /\ FindBecomes(c, "callers", find[c].shown, find[c].hits, left)
        /\ find'[c].related = find[c].related \cup found
    BY <1>0, <1>2, <2>3, RelatedType
  <2> QED
    BY <1>1, <1>4, <2>1, <2>2, <2>4
<1> QED
  BY <1>1, <1>3, <1>4 DEF FindCallees

LEMMA CallersFinds ==
    ASSUME TypeOK, NEW c \in Caller, FindCallers(c), find[c].todo # {}
    PROVE  LET left == find[c].todo \ {NextHit(c)}
           IN  /\ FindBecomes(c, IF left = {} THEN "done" ELSE "callees",
                              find[c].shown, find[c].hits, left)
               /\ find[c].related \subseteq find'[c].related
<1>0. /\ find \in [Caller -> Find] /\ find[c] \in Find
      /\ find[c].todo \in SUBSET Hit
  BY DEF TypeOK, Find
<1>1. PICK h \in Hit : h = NextHit(c) /\ h \in find[c].todo
  BY <1>0, NextHitType
<1>2. PICK left \in SUBSET Hit : left = find[c].todo \ {h}
  BY <1>0
<1>3. PICK pc \in {"done", "callees"} : pc = IF left = {} THEN "done" ELSE "callees"
  OBVIOUS
<1>4. pc \in FindRest \cup FindPoints
  BY DEF FindPoints, FindRest
<1>5. PICK found \in SUBSET (Hit \X (Repo \X Decl)) :
         found = {h} \X CallersOf(h.sym.decl, find[c].scope)
  BY CallsFound
<1>6. CASE find' = [find EXCEPT ![c].pc = pc, ![c].todo = left,
                                ![c].related = @ \cup found]
  <2>1. /\ FindBecomes(c, pc, find[c].shown, find[c].hits, left)
        /\ find'[c].related = find[c].related \cup found
    BY <1>0, <1>4, <1>6, RelatedType
  <2> QED
    BY <1>1, <1>2, <1>3, <2>1
<1>7. CASE find' = [find EXCEPT ![c].pc = pc, ![c].todo = left]
  <2>1. find' = [find EXCEPT ![c].pc = pc, ![c].todo = left, ![c].related = @ \cup {}]
    BY <1>0, <1>7 DEF Find
  <2>2. {} \in SUBSET (Hit \X (Repo \X Decl))
    OBVIOUS
  <2>3. /\ FindBecomes(c, pc, find[c].shown, find[c].hits, left)
        /\ find'[c].related = find[c].related \cup {}
    BY <1>0, <1>4, <2>1, <2>2, RelatedType
  <2> QED
    BY <1>1, <1>2, <1>3, <2>3
<1>8. \/ find' = [find EXCEPT ![c].pc = pc, ![c].todo = left,
                              ![c].related = @ \cup found]
      \/ find' = [find EXCEPT ![c].pc = pc, ![c].todo = left]
  BY <1>1, <1>2, <1>3, <1>5 DEF FindCallers
<1> QED
  BY <1>6, <1>7, <1>8

LEMMA FindStepType ==
    ASSUME TypeOK, NEW c \in Caller, FindStep(c), SearchShape(c)
    PROVE  SearchGoesOn(c)
<1>0. /\ find \in [Caller -> Find] /\ find[c].shown \in SUBSET Symbol
      /\ symbols \in SUBSET Symbol /\ find[c].todo \subseteq find[c].hits
  BY DEF TypeOK, StoreTypeOK, Find, SearchShape
<1>g. ASSUME NEW pc \in {"load", "fuzzy"}, FindGoto(c, pc)
      PROVE  SearchGoesOn(c)
  <2>1. pc \in FindRest \cup FindPoints /\ pc \in FindPoints \cup {"done"}
    BY DEF FindPoints
  <2>2. FindBecomes(c, pc, find[c].shown, find[c].hits, find[c].todo)
    BY <1>0, <1>g, <2>1, FindGotoType
  <2> QED
    BY <1>0, <2>1, <2>2, GoesOn
<1>f. FindFail(c) => SearchGoesOn(c)
  BY <1>0, FindFailType DEF SearchGoesOn, SearchShape, HasHit
<1>p. {"knn", "fuzzy", "callees", "callers"} \subseteq FindPoints
  BY DEF FindPoints
<1>1. CASE Mark(c)
  BY <1>g, <1>f, <1>1 DEF Mark
<1>2. CASE LoadSymbols(c)
  <2>1. SymbolsIn(find[c].scope) \subseteq symbols
    BY DEF SymbolsIn
  <2>2. PICK shown \in SUBSET symbols : shown = SymbolsIn(find[c].scope)
    BY <2>1
  <2>3. FindFail(c) \/ find' = [find EXCEPT ![c].shown = shown, ![c].pc = "knn"]
    BY <1>2, <2>2 DEF LoadSymbols
  <2>4. CASE find' = [find EXCEPT ![c].shown = shown, ![c].pc = "knn"]
    <3>1. FindBecomes(c, "knn", shown, find[c].hits, find[c].todo)
      BY <1>0, <2>4, LoadType
    <3> QED
      BY <1>0, <1>p, <3>1, GoesOn
  <2> QED
    BY <1>f, <2>3, <2>4
<1>3. CASE SemanticSearch(c)
  <2>1. CASE FindGoto(c, "fuzzy")
    BY <1>g, <2>1
  <2>2. CASE \E found \in SUBSET Hit, pc \in {"fuzzy", "callees"} :
                /\ \A h \in found : FoundNow(c, h)
                /\ pc = "fuzzy" <=> found = {}
                /\ FindBecomes(c, pc, find[c].shown, found, found)
    BY <1>p, <2>2, GoesOn
  <2> QED
    BY <1>3, <2>1, <2>2, SemanticFinds
<1>4. CASE FuzzySearch(c)
  <2>1. PICK found \in SUBSET Hit :
              /\ \A h \in found : h.text = NoText /\ h.sym \in find[c].shown
              /\ FindBecomes(c, IF found = {} THEN "done" ELSE "callees",
                             find[c].shown, found, found)
    BY <1>4, FuzzyFinds
  <2>2. \A h \in found : FoundNow(c, h)
    BY <2>1 DEF FoundNow
  <2> QED
    BY <1>p, <2>1, <2>2, GoesOn
<1>5. CASE FindCallees(c)
  <2>1. find[c].todo # {}
    BY <1>5 DEF FindCallees, FindAt, SearchShape, HasHit
  <2>2. FindBecomes(c, "callers", find[c].shown, find[c].hits, find[c].todo)
    BY <1>5, <2>1, CalleesFinds
  <2> QED
    BY <1>0, <1>p, <2>1, <2>2, GoesOn
<1>6. CASE FindCallers(c)
  <2>1. find[c].todo # {}
    BY <1>6 DEF FindCallers, FindAt, SearchShape, HasHit
  <2>2. PICK left : /\ left = find[c].todo \ {NextHit(c)}
                    /\ FindBecomes(c, IF left = {} THEN "done" ELSE "callees",
                                   find[c].shown, find[c].hits, left)
    BY <1>6, <2>1, CallersFinds
  <2>3. left \subseteq find[c].hits
    BY <1>0, <2>2
  <2> QED
    BY <1>p, <2>2, <2>3, GoesOn
<1> QED
  BY <1>1, <1>2, <1>3, <1>4, <1>5, <1>6 DEF FindStep

----------------------------------------------------------------------------
(* Types, and the job of each caller: which of the three handlers it is in *)
(* and on which repository.                                                *)

JobType == [tool : ToolNames, scope : Repo \cup {AllRepos}, stage : Stages]

JobShape(c) ==
    /\ job[c].stage = "idle" => job[c] = Idle
    /\ job[c].tool # "locate_implementation" =>
          job[c].scope \in Repo /\ job[c].stage # "idle"
    /\ job[c].stage = "clone" =>
          job[c].tool # "locate_implementation" /\ clone[c].repo = job[c].scope
    /\ job[c].stage = "index" => job[c].tool = "analyze_feature"
    /\ C!Active(c) => job[c].stage = "clone"
    /\ X!Active(c) => job[c].stage = "index" /\ call[c].repo = job[c].scope
    /\ call[c].pc \in X!RestPoints \cup X!IndexPoints
    /\ find[c].pc # "idle" => job[c].stage = "locate"
    /\ find[c].pc \in FindPoints \cup {"done"} =>
          find[c].scope = job[c].scope /\ find[c].k = TopK
    /\ SearchShape(c)

OneJob ==
    \A a, b \in Caller :
        /\ job[a].tool # "locate_implementation" /\ job[b].tool # "locate_implementation"
        /\ job[a].scope = job[b].scope
        => a = b

Typed == TypeOK /\ (\A c \in Caller : JobShape(c)) /\ OneJob

\* The effect of a step of caller c, but for the history.
Turn(c) ==
    /\ StoreTypeOK' /\ IsStrictOrder(older, Listed)'
    /\ dir' \in [Repo -> C!DirState] /\ clone' \in [Caller -> C!Clone]
    /\ call' \in [Caller -> X!Call] /\ find' \in [Caller -> Find]
    /\ job' \in [Caller -> JobType] /\ started' \in 0 .. MaxJobs /\ failures' \in Nat
    /\ \A k \in Caller : k # c =>
          job'[k] = job[k] /\ clone'[k] = clone[k] /\ call'[k] = call[k] /\ find'[k] = find[k]
    /\ JobShape(c)'
    /\ \/ job'[c].tool = "locate_implementation"
       \/ job'[c].tool = job[c].tool /\ job'[c].scope = job[c].scope
       \/ \A k \in Caller : job[k].tool = "locate_implementation" \/ job[k].scope # job'[c].scope

LEMMA SameOrder ==
    ASSUME TypeOK, UNCHANGED storeVars
    PROVE  StoreTypeOK' /\ IsStrictOrder(older, Listed)' /\ Listed' = Listed
<1>1. StoreTypeOK'
  BY UnchangedStoreType DEF TypeOK
<1>2. Listed' = Listed /\ older' = older
  BY DEF storeVars, Listed
<1> QED
  BY <1>1, <1>2 DEF TypeOK, IsStrictOrder

LEMMA JobTypes ==
    ASSUME TypeOK
    PROVE  /\ job \in [Caller -> JobType] /\ clone \in [Caller -> C!Clone]
           /\ call \in [Caller -> X!Call] /\ find \in [Caller -> Find]
           /\ dir \in [Repo -> C!DirState] /\ started \in 0 .. MaxJobs /\ failures \in Nat
BY DEF TypeOK, JobType

LEMMA SetJob ==
    ASSUME TypeOK, NEW c \in Caller, NEW j \in JobType, job' = [job EXCEPT ![c] = j]
    PROVE  /\ job' \in [Caller -> JobType] /\ job'[c] = j
           /\ \A k \in Caller : k # c => job'[k] = job[k]
BY JobTypes

LEMMA SetStage ==
    ASSUME TypeOK, NEW c \in Caller, NEW stage \in Stages,
           job' = [job EXCEPT ![c].stage = stage]
    PROVE  /\ job' \in [Caller -> JobType]
           /\ job'[c].stage = stage
           /\ job'[c].tool = job[c].tool /\ job'[c].scope = job[c].scope
           /\ \A k \in Caller : k # c => job'[k] = job[k]
BY JobTypes DEF JobType

LEMMA IndexRestingType ==
    ASSUME NEW pc \in {"idle", "parse", "failed"}, NEW r \in Repo
    PROVE  /\ X!Resting(pc) \in X!Call /\ X!Resting(pc).pc = pc
           /\ [X!Resting(pc) EXCEPT !.repo = r] \in X!Call
           /\ [X!Resting(pc) EXCEPT !.repo = r].pc = pc
           /\ [X!Resting(pc) EXCEPT !.repo = r].repo = r
           /\ [X!Resting(pc) EXCEPT !.repo = r].rows = {}
<1>1. pc \in X!Points
  BY DEF X!Points, X!RestPoints, X!IndexPoints
<1>2. X!Resting(pc) \in X!Call
  BY <1>1, CallerAssumption DEF X!Resting, X!Call
<1> HIDE DEF X!Call
<1>3. X!Resting(pc).pc = pc /\ X!Resting(pc).rows = {}
  BY DEF X!Resting
<1> QED
  BY <1>2, <1>3 DEF X!Call

LEMMA CloneRestingType ==
    /\ C!Resting("idle") \in C!Clone /\ C!Resting("idle").pc = "idle"
<1>1. "idle" \in C!RestPoints
  BY DEF C!RestPoints
<1> QED
  BY <1>1, CallerAssumption DEF C!Resting, C!Clone

LEMMA BeginCloneType ==
    ASSUME TypeOK, NEW c \in Caller, NEW r \in Repo, NEW refresh \in BOOLEAN,
           C!BeginClone(c, r, refresh)
    PROVE  /\ clone' \in [Caller -> C!Clone]
           /\ clone'[c].pc = "refresh" /\ clone'[c].repo = r
           /\ \A k \in Caller : k # c => clone'[k] = clone[k]
<1> DEFINE f == [C!Resting("refresh") EXCEPT !.repo = r, !.refresh = refresh]
<1>1. "refresh" \in C!ClonePoints
  BY DEF C!ClonePoints
<1>2. f \in C!Clone /\ f.pc = "refresh" /\ f.repo = r
  BY <1>1, CallerAssumption DEF C!Resting, C!Clone
<1>3. clone' = [clone EXCEPT ![c] = f]
  BY DEF C!BeginClone
<1> HIDE DEF f
<1> QED
  BY <1>2, <1>3, JobTypes

LEMMA BeginTurn ==
    ASSUME Typed, NEW c \in Caller, NEW tool \in ToolNames,
           NEW scope \in Repo \cup {AllRepos}, NEW stage \in Stages,
           Begin(c, tool, scope, stage)
    PROVE  /\ job' \in [Caller -> JobType]
           /\ job'[c] = [tool |-> tool, scope |-> scope, stage |-> stage]
           /\ \A k \in Caller : k # c => job'[k] = job[k]
           /\ started' \in 0 .. MaxJobs
           /\ tool # "locate_implementation" =>
                 \A k \in Caller : job[k].tool = "locate_implementation" \/ job[k].scope # scope
           /\ ~C!Active(c) /\ ~X!Active(c) /\ find[c].pc = "idle"
           /\ SearchShape(c) /\ call[c].pc \in X!RestPoints \cup X!IndexPoints
<1>1. [tool |-> tool, scope |-> scope, stage |-> stage] \in JobType
  BY DEF JobType
<1>2. job' = [job EXCEPT ![c] = [tool |-> tool, scope |-> scope, stage |-> stage]]
  BY DEF Begin
<1>3. started' \in 0 .. MaxJobs
  BY BoundAssumption DEF Begin, Typed, TypeOK
<1>4. job[c].stage = "idle" /\ JobShape(c)
  BY DEF Begin, Idle, Typed
<1>5. ~C!Active(c) /\ ~X!Active(c) /\ find[c].pc = "idle" /\ SearchShape(c)
      /\ call[c].pc \in X!RestPoints \cup X!IndexPoints
  BY <1>4 DEF JobShape
<1>6. /\ job' \in [Caller -> JobType]
      /\ job'[c] = [tool |-> tool, scope |-> scope, stage |-> stage]
      /\ \A k \in Caller : k # c => job'[k] = job[k]
  BY <1>1, <1>2, SetJob DEF Typed
<1> QED
  BY <1>3, <1>5, <1>6 DEF Begin

LEMMA StartCloneTurn ==
    ASSUME Typed, NEW c \in Caller, NEW r \in Repo, NEW refresh \in BOOLEAN,
           NEW tool \in {"clone_reference", "analyze_feature"},
           Begin(c, tool, r, "clone"), C!BeginClone(c, r, refresh),
           UNCHANGED <<storeVars, dir, call, find, failures>>
    PROVE  Turn(c)
<1>1. TypeOK /\ tool \in ToolNames /\ "clone" \in Stages
  BY DEF Typed, ToolNames, Stages
<1>2. /\ clone' \in [Caller -> C!Clone]
      /\ clone'[c].pc = "refresh" /\ clone'[c].repo = r
      /\ \A k \in Caller : k # c => clone'[k] = clone[k]
  BY <1>1, BeginCloneType
<1>3. /\ job' \in [Caller -> JobType]
      /\ job'[c] = [tool |-> tool, scope |-> r, stage |-> "clone"]
      /\ \A k \in Caller : k # c => job'[k] = job[k]
      /\ started' \in 0 .. MaxJobs
      /\ \A k \in Caller : job[k].tool = "locate_implementation" \/ job[k].scope # r
      /\ ~X!Active(c) /\ find[c].pc = "idle"
      /\ SearchShape(c) /\ call[c].pc \in X!RestPoints \cup X!IndexPoints
  BY <1>1, BeginTurn
<1>4. StoreTypeOK' /\ IsStrictOrder(older, Listed)'
  BY <1>1, SameOrder
<1>5. JobShape(c)'
  BY <1>2, <1>3 DEF JobShape, X!Active, SearchShape, HasHit, FindPoints
<1> QED
  BY <1>1, <1>2, <1>3, <1>4, <1>5, JobTypes DEF Turn

LEMMA StartLocateTurn ==
    ASSUME Typed, NEW c \in Caller, NEW scope \in Repo \cup {AllRepos},
           StartLocateImplementation(c, scope)
    PROVE  Turn(c)
<1>1. TypeOK /\ "locate_implementation" \in ToolNames /\ "locate" \in Stages
  BY DEF Typed, ToolNames, Stages
<1>2. /\ job' \in [Caller -> JobType]
      /\ job'[c] = [tool |-> "locate_implementation", scope |-> scope, stage |-> "locate"]
      /\ \A k \in Caller : k # c => job'[k] = job[k]
      /\ started' \in 0 .. MaxJobs
      /\ ~C!Active(c) /\ ~X!Active(c)
      /\ call[c].pc \in X!RestPoints \cup X!IndexPoints
  BY <1>1, BeginTurn DEF StartLocateImplementation
<1>3. /\ find' \in [Caller -> Find]
      /\ find'[c].pc = "mark" /\ find'[c].scope = scope /\ find'[c].k = TopK
      /\ find'[c].todo = {}
      /\ \A j \in Caller : j # c => find'[j] = find[j]
  BY <1>1, JobTypes, BeginFindType, BoundAssumption, Zenon DEF StartLocateImplementation
<1>4. StoreTypeOK' /\ IsStrictOrder(older, Listed)'
  BY <1>1, SameOrder DEF StartLocateImplementation
<1>5. UNCHANGED <<storeVars, dir, clone, call, failures>>
  BY DEF StartLocateImplementation
<1>6. JobShape(c)'
  BY <1>2, <1>3, <1>5 DEF JobShape, C!Active, X!Active, SearchShape, HasHit, FindPoints
<1> QED
  BY <1>1, <1>2, <1>3, <1>4, <1>5, <1>6, JobTypes DEF Turn

LEMMA StartTurn ==
    ASSUME Typed, NEW c \in Caller, Start(c)
    PROVE  Turn(c)
<1>1. ASSUME NEW r \in Repo, NEW refresh \in BOOLEAN, StartCloneReference(c, r, refresh)
      PROVE  Turn(c)
  BY <1>1, StartCloneTurn DEF StartCloneReference
<1>2. ASSUME NEW r \in Repo, StartAnalyzeFeature(c, r)
      PROVE  Turn(c)
  BY <1>2, StartCloneTurn DEF StartAnalyzeFeature
<1> QED
  BY <1>1, <1>2, StartLocateTurn DEF Start

LEMMA CloneTurn ==
    ASSUME Typed, NEW c \in Caller, CloneStep(c)
    PROVE  Turn(c)
<1>1. TypeOK /\ C!Step(c) /\ UNCHANGED <<call, find, job>> /\ JobShape(c)
  BY DEF Typed, CloneStep
<1>2. /\ StoreTypeOK' /\ IsStrictOrder(older, Listed)'
      /\ dir' \in [Repo -> C!DirState] /\ clone' \in [Caller -> C!Clone]
      /\ started' = started /\ failures' \in Nat
      /\ \A k \in Caller : k # c => clone'[k] = clone[k]
      /\ clone'[c].repo = clone[c].repo
      /\ C!Active(c)
  BY <1>1, CloneStepTypes
<1>3. JobShape(c)'
  BY <1>1, <1>2 DEF JobShape, X!Active, SearchShape, HasHit
<1> QED
  BY <1>1, <1>2, <1>3, JobTypes DEF Turn

LEMMA IndexTurn ==
    ASSUME Typed, NEW c \in Caller, IndexStep(c)
    PROVE  Turn(c)
<1>1. TypeOK /\ JobShape(c)
  BY DEF Typed
<1>2. /\ StoreTypeOK' /\ call' \in [Caller -> X!Call] /\ started' = started
      /\ failures' \in Nat /\ UNCHANGED <<dir, clone, find, job>>
      /\ \A k \in Caller : k # c => call'[k] = call[k]
  BY <1>1, IndexStepTypes
<1>3. /\ IsStrictOrder(older, Listed)' /\ X!Active(c)
      /\ call'[c].repo = call[c].repo \/ call'[c].pc \in {"done", "failed"}
      /\ call'[c].pc \in X!RestPoints \cup X!IndexPoints
  BY <1>1, IndexStepRows
<1>4. JobShape(c)'
  BY <1>1, <1>2, <1>3
     DEF JobShape, C!Active, X!Active, X!RestPoints, SearchShape, HasHit
<1> QED
  BY <1>1, <1>2, <1>3, <1>4, JobTypes DEF Turn

LEMMA LocateTurn ==
    ASSUME Typed, NEW c \in Caller, LocateStep(c)
    PROVE  Turn(c)
<1>1. /\ TypeOK /\ JobShape(c) /\ SearchShape(c)
      /\ FindStep(c) /\ UNCHANGED <<dir, clone, call, job, started>>
  BY DEF Typed, JobShape, LocateStep
<1>2. /\ StoreTypeOK' /\ IsStrictOrder(older, Listed)' /\ failures' \in Nat
      /\ find[c].pc \in FindPoints
  BY <1>1, FindStepStore
<1>3. SearchGoesOn(c)
  BY <1>1, FindStepType
<1>4. find[c].pc # "idle"
  BY <1>2 DEF FindPoints
<1>5. JobShape(c)'
  BY <1>1, <1>2, <1>3, <1>4 DEF JobShape, C!Active, X!Active, SearchGoesOn, FindPoints
<1> QED
  BY <1>1, <1>2, <1>3, <1>5, JobTypes DEF Turn, SearchGoesOn

LEMMA AnalyzeIndexTurn ==
    ASSUME Typed, NEW c \in Caller, AnalyzeIndex(c)
    PROVE  Turn(c)
<1>1. /\ TypeOK /\ JobShape(c) /\ "index" \in Stages
      /\ UNCHANGED <<storeVars, dir, clone, find, failures, started>>
      /\ job[c].stage = "clone" /\ clone[c].pc = "done"
      /\ job[c].tool = "analyze_feature"
      /\ job' = [job EXCEPT ![c].stage = "index"]
  BY DEF Typed, Stages, AnalyzeIndex, IndexNext
<1>2. job[c].scope \in Repo /\ ~C!Active(c) /\ ~X!Active(c) /\ find[c].pc = "idle"
      /\ SearchShape(c)
  BY <1>1 DEF JobShape, C!Active, C!RestPoints
<1>3. PICK r \in Repo : r = job[c].scope
  BY <1>2
<1>4. PICK pc \in {"parse", "failed"} : pc = IF dir[r] = "none" THEN "failed" ELSE "parse"
  OBVIOUS
<1>5. call' = [call EXCEPT ![c] = [X!Resting(pc) EXCEPT !.repo = r]]
  BY <1>3, <1>4 DEF AnalyzeIndex
<1>6. /\ [X!Resting(pc) EXCEPT !.repo = r] \in X!Call
      /\ [X!Resting(pc) EXCEPT !.repo = r].pc = pc
      /\ [X!Resting(pc) EXCEPT !.repo = r].repo = r
  BY IndexRestingType
<1>7. /\ call' \in [Caller -> X!Call] /\ call'[c].pc = pc /\ call'[c].repo = r
      /\ \A k \in Caller : k # c => call'[k] = call[k]
  BY <1>1, <1>5, <1>6, JobTypes
<1>8. /\ job' \in [Caller -> JobType]
      /\ job'[c].stage = "index"
      /\ job'[c].tool = job[c].tool /\ job'[c].scope = job[c].scope
      /\ \A k \in Caller : k # c => job'[k] = job[k]
  BY <1>1, SetStage
<1>9. StoreTypeOK' /\ IsStrictOrder(older, Listed)'
  BY <1>1, SameOrder
<1>10. JobShape(c)'
  BY <1>1, <1>2, <1>3, <1>7, <1>8
     DEF JobShape, C!Active, X!Active, X!RestPoints, X!IndexPoints, SearchShape, HasHit,
         FindPoints
<1> QED
  BY <1>1, <1>7, <1>8, <1>9, <1>10, JobTypes DEF Turn

LEMMA AnalyzeLocateTurn ==
    ASSUME Typed, NEW c \in Caller, AnalyzeLocate(c)
    PROVE  Turn(c)
<1>1. /\ TypeOK /\ JobShape(c) /\ "locate" \in Stages
      /\ UNCHANGED <<storeVars, dir, clone, call, failures, started>>
      /\ job[c].tool = "analyze_feature"
      /\ job' = [job EXCEPT ![c].stage = "locate"]
      /\ BeginFind(c, job[c].scope, TopK)
      /\ \/ job[c].stage = "clone" /\ clone[c].pc = "done"
         \/ job[c].stage = "index" /\ call[c].pc = "done"
  BY DEF Typed, Stages, AnalyzeLocate
<1>2. job[c].scope \in Repo /\ ~C!Active(c) /\ ~X!Active(c)
  BY <1>1 DEF JobShape, C!Active, C!RestPoints, X!Active, X!RestPoints
<1>3. /\ find' \in [Caller -> Find]
      /\ find'[c].pc = "mark" /\ find'[c].scope = job[c].scope /\ find'[c].k = TopK
      /\ find'[c].todo = {}
      /\ \A j \in Caller : j # c => find'[j] = find[j]
  <2>1. PICK scope \in Repo \cup {AllRepos} : scope = job[c].scope
    BY <1>2
  <2>2. BeginFind(c, scope, TopK) /\ TopK \in Nat /\ find \in [Caller -> Find]
    BY <1>1, <2>1, JobTypes, BoundAssumption
  <2>3. /\ find' \in [Caller -> Find]
        /\ find'[c].pc = "mark" /\ find'[c].scope = scope /\ find'[c].k = TopK
        /\ find'[c].todo = {}
        /\ \A j \in Caller : j # c => find'[j] = find[j]
    BY <2>2, BeginFindType
  <2> QED
    BY <2>1, <2>3
<1>4. /\ job' \in [Caller -> JobType]
      /\ job'[c].stage = "locate"
      /\ job'[c].tool = job[c].tool /\ job'[c].scope = job[c].scope
      /\ \A k \in Caller : k # c => job'[k] = job[k]
  BY <1>1, SetStage
<1>5. StoreTypeOK' /\ IsStrictOrder(older, Listed)'
  BY <1>1, SameOrder
<1>6. JobShape(c)'
  BY <1>1, <1>2, <1>3, <1>4
     DEF JobShape, C!Active, X!Active, SearchShape, HasHit, FindPoints
<1> QED
  BY <1>1, <1>3, <1>4, <1>5, <1>6, JobTypes DEF Turn

LEMMA FinishTurn ==
    ASSUME Typed, NEW c \in Caller, Finish(c)
    PROVE  Turn(c)
<1>1. /\ TypeOK /\ UNCHANGED <<storeVars, dir, failures, started>>
      /\ job' = [job EXCEPT ![c] = Idle]
      /\ clone' = [clone EXCEPT ![c] = C!Resting("idle")]
      /\ call' = [call EXCEPT ![c] = X!Resting("idle")]
      /\ find' = [find EXCEPT ![c] = FindResting("idle")]
  BY DEF Typed, Finish
<1>2. Idle \in JobType /\ Idle.tool = "locate_implementation" /\ Idle.stage = "idle"
  BY DEF Idle, JobType, ToolNames, Stages
<1>3. /\ job' \in [Caller -> JobType] /\ job'[c] = Idle
      /\ \A k \in Caller : k # c => job'[k] = job[k]
  BY <1>1, <1>2, SetJob
<1>4. /\ clone' \in [Caller -> C!Clone] /\ clone'[c].pc = "idle"
      /\ \A k \in Caller : k # c => clone'[k] = clone[k]
  BY <1>1, JobTypes, CloneRestingType
<1>5. /\ call' \in [Caller -> X!Call] /\ call'[c].pc = "idle"
      /\ \A k \in Caller : k # c => call'[k] = call[k]
  <2>1. PICK r \in Repo : TRUE
    BY CallerAssumption
  <2>2. X!Resting("idle") \in X!Call /\ X!Resting("idle").pc = "idle"
    BY <2>1, IndexRestingType
  <2> QED
    BY <1>1, <2>2, JobTypes
<1>6. /\ find' \in [Caller -> Find] /\ find'[c].pc = "idle" /\ find'[c].todo = {}
      /\ \A k \in Caller : k # c => find'[k] = find[k]
  <2>1. FindResting("idle") \in Find
    BY FindRestingType DEF FindRest
  <2> QED
    BY <1>1, <2>1, JobTypes DEF FindResting
<1>7. StoreTypeOK' /\ IsStrictOrder(older, Listed)'
  BY <1>1, SameOrder
<1>8. JobShape(c)'
  BY <1>2, <1>3, <1>4, <1>5, <1>6
     DEF JobShape, C!Active, C!RestPoints, X!Active, X!RestPoints, SearchShape, HasHit,
         FindPoints
<1> QED
  BY <1>1, <1>2, <1>3, <1>4, <1>5, <1>6, <1>7, <1>8, JobTypes DEF Turn

LEMMA EveryTurn ==
    ASSUME Typed, NEW c \in Caller, Start(c) \/ Step(c)
    PROVE  Turn(c)
BY StartTurn, CloneTurn, IndexTurn, LocateTurn, AnalyzeIndexTurn, AnalyzeLocateTurn,
   FinishTurn DEF Step

LEMMA TurnTyped ==
    ASSUME Typed, NEW c \in Caller, Turn(c), Remember(c)
    PROVE  Typed'
<1>1. clean' \in [Caller -> BOOLEAN] /\ overlapped' \in SUBSET Repo
  BY DEF Typed, TypeOK, Remember
<1>2. TypeOK'
  BY <1>1 DEF Turn, TypeOK, JobType
<1>3. \A k \in Caller : JobShape(k)'
  <2>1. ASSUME NEW k \in Caller, k # c PROVE JobShape(k)'
    BY <2>1 DEF Turn, Typed, JobShape, C!Active, X!Active, SearchShape, HasHit
  <2> QED
    BY <2>1 DEF Turn
<1>4. OneJob'
  BY DEF Turn, Typed, OneJob
<1> QED
  BY <1>2, <1>3, <1>4 DEF Typed

LEMMA TypedNext ==
    ASSUME Typed, [Next]_vars
    PROVE  Typed'
<1>1. CASE Next
  BY <1>1, EveryTurn, TurnTyped DEF Next
<1>2. CASE UNCHANGED vars
  BY <1>2 DEF vars, serverVars, storeVars, Typed, TypeOK, StoreTypeOK, IsStrictOrder,
     Listed, JobShape, OneJob, C!Active, X!Active, SearchShape, HasHit
<1> QED
  BY <1>1, <1>2

LEMMA TypedInit ==
    ASSUME Init
    PROVE  Typed
<1>1. CP!Init
  BY DEF Init, C!Init, CP!Init, C!Resting, CP!Resting
<1>2. CP!TypeOK
  BY <1>1, CP!InitType, CacheAssumptions
<1>3. CP!CacheTyped /\ started \in 0 .. MaxJobs /\ failures \in Nat
  BY <1>2, BoundAssumption DEF CP!TypeOK, CP!CacheTyped
<1>4. /\ StoreTypeOK /\ IsStrictOrder(older, Listed)
      /\ dir \in [Repo -> C!DirState] /\ clone \in [Caller -> C!Clone]
  BY <1>3, CacheTypes
<1>5. PICK r \in Repo : TRUE
  BY CallerAssumption
<1>6. X!Resting("idle") \in X!Call /\ X!Resting("idle").pc = "idle"
  BY <1>5, IndexRestingType
<1>7. FindResting("idle") \in Find /\ FindResting("idle").pc = "idle"
      /\ FindResting("idle").todo = {}
  BY FindRestingType DEF FindRest, FindResting
<1>8. Idle \in JobType /\ Idle.tool = "locate_implementation" /\ Idle.stage = "idle"
  BY DEF Idle, JobType, ToolNames, Stages
<1>9. TypeOK
  BY <1>3, <1>4, <1>6, <1>7, <1>8 DEF Init, TypeOK, JobType
<1>10. \A c \in Caller : JobShape(c)
  <2> SUFFICES ASSUME NEW c \in Caller PROVE JobShape(c)
    OBVIOUS
  <2>1. clone[c].pc = "idle"
    BY CloneRestingType DEF Init, C!Init
  <2>2. call[c].pc = "idle" /\ find[c].pc = "idle" /\ find[c].todo = {} /\ job[c] = Idle
    BY <1>6, <1>7 DEF Init
  <2> QED
    BY <1>8, <2>1, <2>2 DEF JobShape, C!Active, C!RestPoints, X!Active, X!RestPoints,
       SearchShape, HasHit, FindPoints
<1>11. OneJob
  BY <1>8 DEF Init, OneJob
<1> QED
  BY <1>9, <1>10, <1>11 DEF Typed

\* Every reachable state of the server is well typed, and each caller is in one
\* handler at a time, on the repository its client asked for.
THEOREM AlwaysTyped == Spec => []Typed
BY TypedInit, TypedNext, PTL DEF Spec

\* The type invariant of the server: the tables, the directories and the locals of
\* every handler keep their types however the tools are interleaved and fail.
THEOREM TypeCorrect == Spec => []TypeOK
<1>1. Typed => TypeOK
  BY DEF Typed
<1> QED
  BY <1>1, AlwaysTyped, PTL

----------------------------------------------------------------------------
(* The hits of the semantic search.  Known are the rows of table symbols,  *)
(* those an index_repo has still to embed and those a search has loaded,   *)
(* deleted since or not: an id names one of them only, and the vector with *)
(* that id, if there is one, is of that row.                               *)

KnownRows ==
    symbols \cup (UNION {call[c].rows : c \in Caller})
            \cup (UNION {find[c].shown : c \in Caller})

RowIds ==
    /\ \A s \in KnownRows : s.id < nextId
    /\ \A v \in vecs : v.id < nextId
    /\ \A s, t \in KnownRows : s.id = t.id => s = t
    /\ \A v \in vecs, s \in KnownRows : v.id = s.id => v.decl = s.decl

HitsInv == RowIds /\ SemanticHitsAreOfTheirText

LEMMA RowIdsShrink ==
    ASSUME RowIds, KnownRows' \subseteq KnownRows, nextId' = nextId,
           \A v \in vecs' : v \in vecs \/
              \E s \in KnownRows : v.id = s.id /\ v.decl = s.decl
    PROVE  RowIds'
BY DEF RowIds

LEMMA RowIdsGrow ==
    ASSUME TypeOK, RowIds, NEW r \in Repo, NEW batch \in SUBSET Decl,
           KnownRows' \subseteq KnownRows \cup NewRows(r, batch, nextId),
           nextId' = nextId + Cardinality(batch), vecs' \subseteq vecs
    PROVE  RowIds'
<1> DEFINE New == NewRows(r, batch, nextId)
           n == Cardinality(batch)
<1>1. n \in Nat /\ nextId \in Nat
  BY BatchFinite DEF TypeOK, StoreTypeOK
<1>2. /\ \A s \in New : s.id \in Nat /\ nextId <= s.id /\ s.id < nextId + n
      /\ \A s, t \in New : s.id = t.id => s = t
  BY NewRowsType DEF TypeOK, StoreTypeOK, Symbol
<1>3. \A v \in vecs : v.id \in Nat /\ v.id < nextId
  BY DEF TypeOK, StoreTypeOK, Vector, RowIds
<1>4. \A s \in KnownRows : s.id \in Nat /\ s.id < nextId
  <2>1. KnownRows \subseteq Symbol
    BY DEF TypeOK, StoreTypeOK, X!Call, X!Symbol, Symbol, Find, KnownRows
  <2> QED
    BY <2>1 DEF Symbol, RowIds
<1>5. KnownRows' \subseteq KnownRows \cup New /\ nextId' = nextId + n
  OBVIOUS
<1> HIDE DEF New, n
<1>6. (\A s \in KnownRows : s.id < nextId)'
  BY <1>1, <1>2, <1>4, <1>5
<1>7. (\A v \in vecs : v.id < nextId)'
  BY <1>1, <1>3, <1>5
<1>8. ASSUME NEW s \in KnownRows', NEW t \in KnownRows', s.id = t.id
      PROVE  s = t
  <2>1. CASE s \in KnownRows /\ t \in KnownRows
    BY <1>8, <2>1 DEF RowIds
  <2>2. CASE s \in New /\ t \in New
    BY <1>2, <1>8, <2>2
  <2>3. CASE (s \in KnownRows /\ t \in New) \/ (s \in New /\ t \in KnownRows)
    BY <1>1, <1>2, <1>4, <1>8, <2>3
  <2> QED
    BY <1>5, <2>1, <2>2, <2>3
<1>9. ASSUME NEW v \in vecs', NEW s \in KnownRows', v.id = s.id
      PROVE  v.decl = s.decl
  <2>1. v \in vecs
    OBVIOUS
  <2>2. CASE s \in KnownRows
    BY <1>9, <2>1, <2>2 DEF RowIds
  <2>3. CASE s \in New
    BY <1>1, <1>2, <1>3, <1>9, <2>1, <2>3
  <2> QED
    BY <1>5, <2>2, <2>3
<1> QED
  BY <1>6, <1>7, <1>8, <1>9 DEF RowIds

LEMMA KnownRowsSubset ==
    ASSUME NEW S, symbols' \subseteq symbols \cup S,
           \A k \in Caller : call'[k].rows \subseteq KnownRows,
           \A k \in Caller : find'[k].shown \subseteq KnownRows
    PROVE  KnownRows' \subseteq KnownRows \cup S
BY DEF KnownRows

LEMMA KnownRowsHas ==
    /\ symbols \subseteq KnownRows
    /\ \A k \in Caller : call[k].rows \subseteq KnownRows /\ find[k].shown \subseteq KnownRows
BY DEF KnownRows

\* A hit found by this step is of its text, for its symbol is known.
LEMMA HitsKept ==
    ASSUME HitsInv,
           \A k \in Caller : \A h \in find'[k].hits : h \in find[k].hits \/ FoundNow(k, h)
    PROVE  SemanticHitsAreOfTheirText'
<1> SUFFICES ASSUME NEW k \in Caller, NEW h \in find'[k].hits, h.text # NoText
             PROVE  h.text = h.sym.decl
  BY DEF SemanticHitsAreOfTheirText
<1>1. CASE h \in find[k].hits
  BY <1>1 DEF HitsInv, SemanticHitsAreOfTheirText
<1>2. CASE FoundNow(k, h)
  BY <1>2, KnownRowsHas DEF FoundNow, HitsInv, RowIds
<1> QED
  BY <1>1, <1>2

LEMMA CloneStepRows ==
    ASSUME NEW c \in Caller, C!Step(c)
    PROVE  symbols' \subseteq symbols /\ vecs' \subseteq vecs /\ nextId' = nextId
<1>1. UNCHANGED C!storeVars =>
         symbols' \subseteq symbols /\ vecs' \subseteq vecs /\ nextId' = nextId
  BY DEF C!storeVars
<1>2. CASE UNCHANGED C!storeVars
  BY <1>1, <1>2
<1>3. CASE C!Upsert(c)
  BY <1>1, <1>3 DEF C!Upsert, C!UpsertRepo
<1>4. CASE C!Touch(c)
  BY <1>1, <1>4 DEF C!Touch, C!MarkAccessed
<1>5. CASE C!EvictRow(c)
  BY <1>1, <1>5 DEF C!EvictRow, C!EvictRepo, C!DropVectors
<1>6. \/ UNCHANGED C!storeVars \/ C!Upsert(c) \/ C!Touch(c) \/ C!EvictRow(c)
  BY DEF C!Step, C!Refresh, C!EndRefresh, C!Lookup, C!CacheHit, C!CreateDir, C!BeginGit,
         C!EndGit, C!Cleanup, C!EndCleanup, C!Size, C!List, C!EvictDir, C!EndEvictDir
<1> QED
  BY <1>2, <1>3, <1>4, <1>5, <1>6

\* A step that neither stores rows nor loads any that were not known.
LEMMA NoRowsHits ==
    ASSUME HitsInv, symbols' \subseteq symbols, vecs' \subseteq vecs, nextId' = nextId,
           \A k \in Caller : call'[k].rows \subseteq KnownRows,
           \A k \in Caller : find'[k].shown \subseteq KnownRows,
           \A k \in Caller : \A h \in find'[k].hits : h \in find[k].hits \/ FoundNow(k, h)
    PROVE  HitsInv'
<1>1. KnownRows' \subseteq KnownRows \cup {}
  BY KnownRowsSubset
<1>2. RowIds'
  BY <1>1, RowIdsShrink DEF HitsInv
<1> QED
  BY <1>2, HitsKept DEF HitsInv

LEMMA IndexStepHits ==
    ASSUME Typed, HitsInv, NEW c \in Caller, IndexStep(c)
    PROVE  HitsInv'
<1>0. TypeOK /\ call[c].repo \in Repo /\ call[c].syms \in SUBSET Decl
  BY DEF Typed, TypeOK, X!Call
<1>1. find' = find /\ \A k \in Caller : k # c => call'[k] = call[k]
  BY <1>0, IndexStepTypes
<1>2. NoNewRows(c) \/ InsertsRows(c) \/ EmbedsRows(c)
  BY <1>0, IndexStepRows
<1>3. SemanticHitsAreOfTheirText'
  BY <1>1, HitsKept
<1>4. \A k \in Caller : find'[k].shown \subseteq KnownRows
  BY <1>1, KnownRowsHas
<1>5. CASE NoNewRows(c)
  <2>1. \A k \in Caller : call'[k].rows \subseteq KnownRows
    BY <1>1, <1>5, KnownRowsHas DEF NoNewRows
  <2> QED
    BY <1>1, <1>4, <1>5, <2>1, NoRowsHits DEF NoNewRows
<1>6. CASE InsertsRows(c)
  <2>1. \A k \in Caller : call'[k].rows \subseteq KnownRows
    BY <1>1, <1>6, KnownRowsHas DEF InsertsRows
  <2>2. KnownRows' \subseteq KnownRows \cup NewRows(call[c].repo, call[c].syms, nextId)
    BY <1>4, <1>6, <2>1, KnownRowsSubset DEF InsertsRows
  <2>3. RowIds'
    BY <1>0, <1>6, <2>2, RowIdsGrow DEF InsertsRows, HitsInv
  <2> QED
    BY <1>3, <2>3 DEF HitsInv
<1>7. CASE EmbedsRows(c)
  <2>1. \A k \in Caller : call'[k].rows \subseteq KnownRows
    BY <1>1, <1>7, KnownRowsHas DEF EmbedsRows
  <2>2. KnownRows' \subseteq KnownRows \cup {}
    BY <1>4, <1>7, <2>1, KnownRowsSubset DEF EmbedsRows
  <2>3. \A v \in vecs' : v \in vecs \/
           \E s \in KnownRows : v.id = s.id /\ v.decl = s.decl
    <3>1. \A s \in call[c].rows : s \in KnownRows
      BY KnownRowsHas
    <3> QED
      BY <1>7, <3>1 DEF EmbedsRows
  <2>4. RowIds'
    BY <1>7, <2>2, <2>3, RowIdsShrink DEF EmbedsRows, HitsInv
  <2> QED
    BY <1>3, <2>4 DEF HitsInv
<1> QED
  BY <1>2, <1>5, <1>6, <1>7

LEMMA StartHits ==
    ASSUME Typed, HitsInv, NEW c \in Caller, Start(c)
    PROVE  HitsInv'
<1>1. CASE UNCHANGED <<storeVars, call, find>>
  BY <1>1, KnownRowsHas, NoRowsHits DEF storeVars
<1>2. ASSUME NEW scope \in Repo \cup {AllRepos}, StartLocateImplementation(c, scope)
      PROVE  HitsInv'
  <2>1. /\ find'[c].shown = {} /\ find'[c].hits = {}
        /\ \A j \in Caller : j # c => find'[j] = find[j]
    BY <1>2, JobTypes, BeginFindType, BoundAssumption DEF StartLocateImplementation, Typed
  <2>2. \A k \in Caller : find'[k].shown \subseteq find[k].shown /\ find'[k].hits \subseteq find[k].hits
    BY <2>1
  <2>3. UNCHANGED <<storeVars, call>>
    BY <1>2 DEF StartLocateImplementation
  <2> QED
    BY <2>2, <2>3, KnownRowsHas, NoRowsHits DEF storeVars
<1> QED
  BY <1>1, <1>2 DEF Start, StartCloneReference, StartAnalyzeFeature

LEMMA StepHits ==
    ASSUME Typed, HitsInv, NEW c \in Caller, Step(c)
    PROVE  HitsInv'
<1>0. TypeOK /\ JobShape(c) /\ SearchShape(c)
  BY DEF Typed, JobShape
<1>1. CASE CloneStep(c)
  <2>1. symbols' \subseteq symbols /\ vecs' \subseteq vecs /\ nextId' = nextId
    BY <1>1, CloneStepRows DEF CloneStep
  <2>2. UNCHANGED <<call, find>>
    BY <1>1 DEF CloneStep
  <2> QED
    BY <2>1, <2>2, KnownRowsHas, NoRowsHits
<1>2. CASE IndexStep(c)
  BY <1>2, IndexStepHits
<1>3. CASE LocateStep(c)
  <2>1. SearchGoesOn(c) /\ UNCHANGED <<symbols, vecs, nextId, call>>
    BY <1>0, <1>3, FindStepType, FindStepStore DEF LocateStep
  <2>2. \A k \in Caller : find'[k].shown \subseteq KnownRows
    BY <2>1, KnownRowsHas DEF SearchGoesOn
  <2>3. \A k \in Caller : \A h \in find'[k].hits : h \in find[k].hits \/ FoundNow(k, h)
    BY <2>1 DEF SearchGoesOn
  <2> QED
    BY <2>1, <2>2, <2>3, KnownRowsHas, NoRowsHits
<1>4. CASE AnalyzeIndex(c)
  <2>1. UNCHANGED <<storeVars, find>>
    BY <1>4 DEF AnalyzeIndex
  <2>2. \A k \in Caller : call'[k].rows \subseteq call[k].rows
    <3>1. job[c].scope \in Repo
      BY <1>0, <1>4 DEF AnalyzeIndex, IndexNext, JobShape
    <3>2. PICK r \in Repo, pc \in {"parse", "failed"} :
             call' = [call EXCEPT ![c] = [X!Resting(pc) EXCEPT !.repo = r]]
      BY <1>4, <3>1 DEF AnalyzeIndex
    <3>3. [X!Resting(pc) EXCEPT !.repo = r].rows = {}
      BY IndexRestingType
    <3> QED
      BY <1>0, <3>2, <3>3, JobTypes
  <2> QED
    BY <2>1, <2>2, KnownRowsHas, NoRowsHits DEF storeVars
<1>5. CASE AnalyzeLocate(c)
  <2>1. UNCHANGED <<storeVars, call>>
    BY <1>5 DEF AnalyzeLocate
  <2>2. \A k \in Caller : find'[k].shown \subseteq find[k].shown /\ find'[k].hits \subseteq find[k].hits
    <3>1. job[c].scope \in Repo
      BY <1>0, <1>5 DEF AnalyzeLocate, JobShape
    <3>2. PICK scope \in Repo \cup {AllRepos} : BeginFind(c, scope, TopK)
      BY <1>5, <3>1 DEF AnalyzeLocate
    <3>3. TopK \in Nat /\ find \in [Caller -> Find]
      BY <1>0, JobTypes, BoundAssumption
    <3>4. /\ find'[c].shown = {} /\ find'[c].hits = {}
          /\ \A j \in Caller : j # c => find'[j] = find[j]
      BY <3>2, <3>3, BeginFindType
    <3> QED
      BY <3>4
  <2> QED
    BY <2>1, <2>2, KnownRowsHas, NoRowsHits DEF storeVars
<1>6. CASE Finish(c)
  <2>1. /\ UNCHANGED storeVars
        /\ call' = [call EXCEPT ![c] = X!Resting("idle")]
        /\ find' = [find EXCEPT ![c] = FindResting("idle")]
    BY <1>6 DEF Finish
  <2>2. \A k \in Caller : call'[k].rows \subseteq call[k].rows
    <3>1. X!Resting("idle").rows = {}
      BY DEF X!Resting
    <3> QED
      BY <1>0, <2>1, <3>1, JobTypes
  <2>3. \A k \in Caller : find'[k].shown \subseteq find[k].shown /\ find'[k].hits \subseteq find[k].hits
    <3>1. FindResting("idle").shown = {} /\ FindResting("idle").hits = {}
      BY DEF FindResting
    <3> QED
      BY <1>0, <2>1, <3>1, JobTypes
  <2> QED
    BY <2>1, <2>2, <2>3, KnownRowsHas, NoRowsHits DEF storeVars
<1> QED
  BY <1>1, <1>2, <1>3, <1>4, <1>5, <1>6 DEF Step

LEMMA HitsNext ==
    ASSUME Typed, HitsInv, [Next]_vars
    PROVE  HitsInv'
<1>1. CASE Next
  BY <1>1, StartHits, StepHits DEF Next
<1>2. CASE UNCHANGED vars
  BY <1>2 DEF vars, storeVars, serverVars, HitsInv, RowIds, KnownRows,
     SemanticHitsAreOfTheirText
<1> QED
  BY <1>1, <1>2

LEMMA HitsInit ==
    ASSUME Init
    PROVE  HitsInv
<1>1. symbols = {} /\ vecs = {}
  BY DEF Init, C!Init
<1>2. \A c \in Caller : call[c].rows = {} /\ find[c].shown = {} /\ find[c].hits = {}
  BY DEF Init, X!Resting, FindResting
<1>3. KnownRows = {}
  BY <1>1, <1>2 DEF KnownRows
<1> QED
  BY <1>1, <1>2, <1>3 DEF HitsInv, RowIds, SemanticHitsAreOfTheirText

\* A symbol that locate_implementation or analyze_feature returns from the semantic
\* search is one whose own text is near the query, whatever is cloned, evicted,
\* indexed and searched beside it: the vectors are read two statements after the
\* symbols, and no id changes hands in between.
THEOREM SemanticHitsKeepToTheirText == Spec => []SemanticHitsAreOfTheirText
<1>1. HitsInv => SemanticHitsAreOfTheirText
  BY DEF HitsInv
<1> QED
  BY <1>1, HitsInit, HitsNext, AlwaysTyped, PTL DEF Spec

----------------------------------------------------------------------------
(* The directories.  What RepoCache_proofs shows of the steps of           *)
(* clone_reference carries over: no other step of a tool writes the        *)
(* directories or the rows of table repos, or turns up in the middle of    *)
(* clone_reference.                                                        *)

HalfDirsInv == \A r \in Repo : dir[r] \in CP!HalfWritten => CP!BeingWritten(r)

LEMMA OneCloneAtATime ==
    ASSUME Typed
    PROVE  CP!OneClone
BY DEF Typed, JobShape, OneJob, CP!OneClone, CP!Active, CP!RestPoints, C!Active, C!RestPoints

LEMMA OffDisk ==
    ASSUME Typed, NEW c \in Caller, dir' = dir, Listed' = Listed,
           \A k \in Caller : k # c => clone'[k] = clone[k],
           \/ clone'[c] = clone[c]
           \/ ~C!Active(c) /\ clone'[c].pc \in {"refresh", "idle"}
    PROVE  /\ CP!ListedInv => CP!ListedInv'
           /\ HalfDirsInv => HalfDirsInv'
<1>1. CP!Listed' = CP!Listed
  BY DEF CP!Listed, Listed
<1>2. \A k \in Caller :
         clone[k].pc \in CP!OwnPoints \cup CP!VictimPoints \cup CP!WritePoints =>
            clone'[k] = clone[k]
  BY DEF C!Active, C!RestPoints, CP!OwnPoints, CP!VictimPoints, CP!WritePoints
<1>3. \A r \in Repo, k \in Caller : CP!InHandOf(k, r) => CP!InHandOf(k, r)'
  BY <1>2 DEF CP!InHandOf
<1>4. \A r \in Repo : CP!BeingWritten(r) => CP!BeingWritten(r)'
  BY <1>2 DEF CP!BeingWritten
<1>5. CP!ListedInv => CP!ListedInv'
  BY <1>1, <1>3 DEF CP!ListedInv, CP!Unlisted
<1>6. HalfDirsInv => HalfDirsInv'
  BY <1>4 DEF HalfDirsInv, CP!HalfWritten
<1> QED
  BY <1>5, <1>6

\* Every step but those of clone_reference.
LEMMA DirsLeftAlone ==
    ASSUME Typed, NEW c \in Caller, (Start(c) \/ Step(c)), ~CloneStep(c)
    PROVE  /\ dir' = dir /\ Listed' = Listed
           /\ \A k \in Caller : k # c => clone'[k] = clone[k]
           /\ \/ clone'[c] = clone[c]
              \/ ~C!Active(c) /\ clone'[c].pc \in {"refresh", "idle"}
<1>0. TypeOK /\ JobShape(c)
  BY DEF Typed
<1>1. CASE Start(c)
  <2>1. ASSUME NEW r \in Repo, NEW refresh \in BOOLEAN,
               StartCloneReference(c, r, refresh) \/ StartAnalyzeFeature(c, r),
               C!BeginClone(c, r, refresh)
        PROVE  /\ \A k \in Caller : k # c => clone'[k] = clone[k]
               /\ ~C!Active(c) /\ clone'[c].pc = "refresh"
               /\ UNCHANGED <<dir, storeVars>>
    <3>1. job[c] = Idle
      BY <2>1 DEF StartCloneReference, StartAnalyzeFeature, Begin
    <3>2. ~C!Active(c)
      BY <1>0, <3>1 DEF JobShape, Idle
    <3> QED
      BY <1>0, <2>1, <3>2, BeginCloneType DEF StartCloneReference, StartAnalyzeFeature
  <2>2. ASSUME NEW scope, StartLocateImplementation(c, scope)
        PROVE  UNCHANGED <<clone, dir, storeVars>>
    BY <2>2 DEF StartLocateImplementation
  <2> QED
    BY <1>0, <1>1, <2>1, <2>2, SameOrder DEF Start, StartCloneReference, StartAnalyzeFeature
<1>2. CASE IndexStep(c)
  BY <1>0, <1>2, IndexStepTypes, IndexStepRows
<1>3. CASE LocateStep(c)
  BY <1>0, <1>3, FindStepStore DEF LocateStep
<1>4. CASE AnalyzeIndex(c) \/ AnalyzeLocate(c)
  BY <1>0, <1>4, SameOrder DEF AnalyzeIndex, AnalyzeLocate
<1>5. CASE Finish(c)
  <2>1. ~C!Active(c)
    BY <1>0, <1>5 DEF Finish, JobShape, C!Active, C!RestPoints
  <2>2. clone' = [clone EXCEPT ![c] = C!Resting("idle")] /\ UNCHANGED <<dir, storeVars>>
    BY <1>5 DEF Finish
  <2>3. clone'[c].pc = "idle" /\ \A k \in Caller : k # c => clone'[k] = clone[k]
    BY <1>0, <2>2, CloneRestingType, JobTypes
  <2> QED
    BY <1>0, <2>1, <2>2, <2>3, SameOrder
<1> QED
  BY <1>1, <1>2, <1>3, <1>4, <1>5 DEF Step

LEMMA UnchangedDirs ==
    ASSUME UNCHANGED vars
    PROVE  /\ CP!ListedInv => CP!ListedInv'
           /\ HalfDirsInv => HalfDirsInv'
BY DEF vars, storeVars, serverVars, CP!ListedInv, CP!Unlisted, CP!InHandOf, CP!Listed,
       HalfDirsInv, CP!BeingWritten, CP!HalfWritten

LEMMA HalfDirsNext ==
    ASSUME Typed, HalfDirsInv, "disk" \notin MayFail, [Next]_vars
    PROVE  HalfDirsInv'
<1>1. ASSUME NEW c \in Caller, CloneStep(c)
      PROVE  HalfDirsInv'
  <2>1. CP!CacheTyped /\ CP!Step(c)
    BY <1>1, CacheTypes, CloneSteps DEF CloneStep, Typed, TypeOK
  <2>2. CP!HalfInv
    BY OneCloneAtATime DEF CP!HalfInv, HalfDirsInv
  <2>3. CP!HalfInv'
    BY <2>1, <2>2, CP!StepHalf, CacheAssumptions
  <2> QED
    BY <2>3 DEF CP!HalfInv, HalfDirsInv
<1>2. ASSUME NEW c \in Caller, Start(c) \/ Step(c), ~CloneStep(c)
      PROVE  HalfDirsInv'
  BY <1>2, DirsLeftAlone, OffDisk
<1> QED
  BY <1>1, <1>2, UnchangedDirs DEF Next

LEMMA ListedNext ==
    ASSUME Typed, CP!ListedInv, "db" \notin MayFail, "disk" \notin MayFail, [Next]_vars
    PROVE  CP!ListedInv'
<1>1. ASSUME NEW c \in Caller, CloneStep(c)
      PROVE  CP!ListedInv'
  <2>1. CP!CacheTyped /\ CP!Step(c)
    BY <1>1, CacheTypes, CloneSteps DEF CloneStep, Typed, TypeOK
  <2> QED
    BY <2>1, CP!StepListed, CacheAssumptions
<1>2. ASSUME NEW c \in Caller, Start(c) \/ Step(c), ~CloneStep(c)
      PROVE  CP!ListedInv'
  BY <1>2, DirsLeftAlone, OffDisk
<1> QED
  BY <1>1, <1>2, UnchangedDirs DEF Next

LEMMA DirsInit ==
    ASSUME Init
    PROVE  CP!ListedInv /\ HalfDirsInv
BY DEF Init, C!Init, CP!ListedInv, CP!Unlisted, HalfDirsInv, CP!HalfWritten

LEMMA HalfDirsAlways ==
    ASSUME "disk" \notin MayFail
    PROVE  Spec => []HalfDirsInv
BY HalfDirsNext, DirsInit, AlwaysTyped, PTL DEF Spec

LEMMA ListedAlways ==
    ASSUME MayFail \subseteq {"net"}
    PROVE  Spec => []CP!ListedInv
<1>1. "db" \notin MayFail /\ "disk" \notin MayFail
  OBVIOUS
<1> QED
  BY <1>1, ListedNext, DirsInit, AlwaysTyped, PTL DEF Spec

\* With analyses that index and search what is cloned, and any number of clients,
\* each on a repository of its own: no directory that git has not finished is taken
\* for a clone, however git and the database fail and whatever is evicted meanwhile.
THEOREM ServerReusesNoUnfinishedClone ==
    ASSUME "disk" \notin MayFail
    PROVE  Spec => NeverReusesUnfinishedClone
<1>1. ASSUME Typed, HalfDirsInv, NEW c \in Caller, C!At(c, "hit")
      PROVE  dir[clone[c].repo] \notin {"empty", "partial"}
  <2>1. CP!HalfInv
    BY <1>1, OneCloneAtATime DEF CP!HalfInv, HalfDirsInv
  <2>2. clone \in [Caller -> CP!Clone] /\ CP!At(c, "hit")
    BY <1>1, CacheTypes DEF Typed, TypeOK, CP!CacheTyped, CP!At, C!At
  <2>3. dir[clone[c].repo] \notin CP!HalfWritten
    BY <2>1, <2>2, CP!NoHalfHit, CacheAssumptions
  <2> QED
    BY <2>3 DEF CP!HalfWritten
<1>2. Typed /\ HalfDirsInv =>
        [\A c \in Caller : C!At(c, "hit") /\ clone'[c].pc = "touch" =>
            dir[clone[c].repo] \notin {"empty", "partial"}]_(C!vars)
  BY <1>1
<1> QED
  BY <1>2, HalfDirsAlways, AlwaysTyped, PTL 
  DEF NeverReusesUnfinishedClone, C!NeverReusesUnfinishedClone

\* Where only git fails: whatever is analysed, indexed, searched and evicted, each
\* clone on disk has its row whenever no clone_reference is in flight.
THEOREM ServerListsClones ==
    ASSUME MayFail \subseteq {"net"}
    PROVE  Spec => []ClonesAreListed
<1>1. CP!ListedInv => ClonesAreListed
  BY DEF CP!ListedInv, CP!Unlisted, CP!InHandOf, CP!OwnPoints, CP!VictimPoints, CP!Listed,
         ClonesAreListed, C!ClonesAreListed, C!Quiet, C!Active, C!RestPoints, C!Listed
<1> QED
  BY <1>1, ListedAlways, PTL

----------------------------------------------------------------------------
(* Every index belongs to a clone.  index_repo starts on a directory that  *)
(* no other call is cloning, and whose row is there unless an eviction     *)
(* that deleted it is about to remove the directory, or is removing it:    *)
(* such a repository is overlapped from the start.                         *)

BelongInv ==
    /\ IndexesBelongToClones
    /\ \A k \in Caller : X!Active(k) => call[k].repo \in Listed \cup overlapped

LEMMA OverlapsStay ==
    ASSUME NEW c \in Caller, Remember(c)
    PROVE  overlapped \subseteq overlapped'
BY DEF Remember

\* The eviction of a row takes the symbols of its repository along.
LEMMA CloneUnlists ==
    ASSUME TypeOK, NEW c \in Caller, C!Step(c), NEW r \in Repo, r \in Listed, r \notin Listed'
    PROVE  /\ clone'[c].pc = "evictDir" /\ clone'[c].victim = r
           /\ \A s \in symbols' : s.repo # r
<1>0. clone \in [Caller -> C!Clone] /\ StoreTypeOK
  BY DEF TypeOK
<1>1. UNCHANGED C!storeVars => Listed' = Listed
  BY DEF C!storeVars, Listed
<1>2. ASSUME NEW q, C!MarkAccessed(q) PROVE Listed' = Listed
  BY <1>2 DEF C!MarkAccessed, Listed
<1>3. ASSUME NEW q, C!UpsertRepo(q, C!FreshRow) PROVE Listed \subseteq Listed'
  <2>1. C!FreshRow \in RepoRow
    BY DEF C!FreshRow, RepoRow
  <2>2. C!FreshRow # NoRow
    BY <2>1, NoRowAssumption
  <2> QED
    BY <1>0, <1>3, <2>2 DEF C!UpsertRepo, Listed, StoreTypeOK
<1>4. ~C!Upsert(c) /\ ~C!Touch(c)
  BY <1>1, <1>2, <1>3 DEF C!Upsert, C!Touch
<1>5. C!EvictRow(c) \/ UNCHANGED C!storeVars
  BY <1>4 DEF C!Step, C!Refresh, C!EndRefresh, C!Lookup, C!CacheHit, C!CreateDir, C!BeginGit,
         C!EndGit, C!Cleanup, C!EndCleanup, C!Size, C!List, C!EvictDir, C!EndEvictDir
<1>6. C!EvictRepo(clone[c].victim) /\ C!Goto(c, "evictDir")
  BY <1>1, <1>5 DEF C!EvictRow
<1>7. clone'[c].pc = "evictDir" /\ clone'[c].victim = clone[c].victim
  BY <1>0, <1>6 DEF C!Goto, C!Clone
<1>8. clone[c].victim = r
  BY <1>0, <1>6 DEF C!EvictRepo, Listed, StoreTypeOK
<1>9. symbols' = symbols \ C!RowsOf(r)
  BY <1>6, <1>8 DEF C!EvictRepo
<1> QED
  BY <1>7, <1>8, <1>9 DEF C!RowsOf

LEMMA CloneBelongs ==
    ASSUME Typed, BelongInv, NEW c \in Caller, CloneStep(c), Remember(c)
    PROVE  BelongInv'
<1>0. TypeOK /\ C!Step(c) /\ UNCHANGED <<call, find, job>>
  BY DEF Typed, CloneStep
<1>1. symbols' \subseteq symbols
  BY <1>0, CloneStepRows
<1>2. \A k \in Caller : X!Active(k)' <=> X!Active(k)
  BY <1>0 DEF X!Active
<1>3. ASSUME NEW r \in Repo, r \in Listed \cup overlapped,
             \/ \E s \in symbols' : s.repo = r
             \/ \E k \in Caller : X!Active(k) /\ call[k].repo = r
      PROVE  r \in Listed' \cup overlapped'
  <2>1. CASE r \in overlapped \/ r \in Listed'
    BY <2>1, OverlapsStay
  <2>2. CASE r \in Listed /\ r \notin Listed'
    <3>1. /\ clone'[c].pc = "evictDir" /\ clone'[c].victim = r
          /\ \A s \in symbols' : s.repo # r
      BY <1>0, <2>2, CloneUnlists
    <3>2. Evicting(r)'
      BY <3>1 DEF Evicting
    <3>3. Indexing(r)'
      BY <1>0, <1>2, <1>3, <3>1 DEF Indexing
    <3> QED
      BY <3>2, <3>3 DEF Remember
  <2> QED
    BY <1>3, <2>1, <2>2
<1>4. \A s \in symbols' : s.repo \in Listed' \cup overlapped'
  <2> SUFFICES ASSUME NEW s \in symbols' PROVE s.repo \in Listed' \cup overlapped'
    OBVIOUS
  <2>1. s \in symbols /\ s \in Symbol
    BY <1>0, <1>1 DEF TypeOK, StoreTypeOK
  <2>2. s.repo \in Repo /\ s.repo \in Listed \cup overlapped
    BY <2>1 DEF Symbol, BelongInv, IndexesBelongToClones
  <2> QED
    BY <1>3, <2>2
<1>5. \A k \in Caller : X!Active(k)' => call'[k].repo \in Listed' \cup overlapped'
  <2> SUFFICES ASSUME NEW k \in Caller, X!Active(k)
               PROVE  call[k].repo \in Listed' \cup overlapped'
    BY <1>0, <1>2
  <2>1. call[k].repo \in Repo
    BY <1>0 DEF TypeOK, X!Call
  <2> QED
    BY <1>3, <2>1 DEF BelongInv
<1> QED
  BY <1>4, <1>5 DEF BelongInv, IndexesBelongToClones

LEMMA IndexBelongs ==
    ASSUME Typed, BelongInv, NEW c \in Caller, IndexStep(c), Remember(c)
    PROVE  BelongInv'
<1>0. TypeOK /\ call[c].repo \in Repo
  BY DEF Typed, TypeOK, X!Call
<1>1. /\ Listed' = Listed /\ X!Active(c)
      /\ call'[c].repo = call[c].repo \/ call'[c].pc \in {"done", "failed"}
      /\ NoNewRows(c) \/ InsertsRows(c) \/ EmbedsRows(c)
  BY <1>0, IndexStepRows
<1>2. \A k \in Caller : k # c => call'[k] = call[k]
  BY <1>0, IndexStepTypes
<1>3. \A s \in symbols' : s \in symbols \/ s.repo = call[c].repo
  BY <1>1, NewRowsOf DEF NoNewRows, InsertsRows, EmbedsRows
<1>4. \A k \in Caller : X!Active(k)' => X!Active(k) /\ call'[k].repo = call[k].repo
  BY <1>1, <1>2 DEF X!Active, X!RestPoints
<1> QED
  BY <1>1, <1>3, <1>4, OverlapsStay DEF BelongInv, IndexesBelongToClones

LEMMA AnalyzeIndexBelongs ==
    ASSUME Typed, BelongInv, CP!ListedInv,
           NEW c \in Caller, AnalyzeIndex(c), Remember(c)
    PROVE  BelongInv'
<1>0. /\ TypeOK /\ JobShape(c) /\ job[c].stage = "clone" /\ clone[c].pc = "done"
      /\ job[c].tool = "analyze_feature" /\ UNCHANGED <<storeVars, clone>>
  BY DEF Typed, AnalyzeIndex, IndexNext
<1>1. PICK r \in Repo : r = job[c].scope
  BY <1>0 DEF JobShape
<1>2. call' = [call EXCEPT ![c] =
         [X!Resting(IF dir[r] = "none" THEN "failed" ELSE "parse") EXCEPT !.repo = r]]
  BY <1>1 DEF AnalyzeIndex
<1>3. \A k \in Caller : k # c => call'[k] = call[k]
  BY <1>0, <1>2, JobTypes
<1>4. Listed' = Listed /\ symbols' = symbols
  BY <1>0, SameOrder DEF storeVars
<1>5. ASSUME X!Active(c)' PROVE call'[c].repo = r /\ r \in Listed \cup overlapped'
  <2>1. CASE dir[r] = "none"
    <3>1. [X!Resting("failed") EXCEPT !.repo = r].pc = "failed"
      BY IndexRestingType
    <3>2. call'[c].pc = "failed"
      BY <1>0, <1>2, <2>1, <3>1, JobTypes
    <3> QED
      BY <1>5, <3>2 DEF X!Active, X!RestPoints
  <2>2. CASE dir[r] # "none"
    <3>1. [X!Resting("parse") EXCEPT !.repo = r].repo = r
      BY IndexRestingType
    <3>2. call'[c].repo = r
      BY <1>0, <1>2, <2>2, <3>1, JobTypes
    <3>3. \A k \in Caller : clone[k].pc \in CP!OwnPoints => clone[k].repo # r
      <4> SUFFICES ASSUME NEW k \in Caller, clone[k].repo = r, clone[k].pc \in CP!OwnPoints
                   PROVE  FALSE
        OBVIOUS
      <4>1. C!Active(k) /\ JobShape(k)
        BY DEF C!Active, C!RestPoints, CP!OwnPoints, Typed
      <4>2. job[k].tool # "locate_implementation" /\ job[k].scope = r
        BY <4>1 DEF JobShape
      <4>3. k = c
        BY <1>0, <1>1, <4>2 DEF Typed, OneJob
      <4> QED
        BY <1>0, <4>3 DEF CP!OwnPoints
    <3>4. CASE r \in Listed
      BY <3>2, <3>4
    <3>5. CASE r \notin Listed
      <4>1. PICK k \in Caller : CP!InHandOf(k, r)
        BY <2>2, <3>5 DEF CP!ListedInv, CP!Unlisted, CP!Listed, Listed
      <4>2. clone[k].pc \in {"evictDir", "evicting"} /\ clone[k].victim = r
        BY <3>3, <4>1 DEF CP!InHandOf, CP!VictimPoints
      <4>3. Evicting(r)'
        BY <1>0, <4>2 DEF Evicting
      <4>4. Indexing(r)'
        BY <1>5, <3>2 DEF Indexing
      <4> QED
        BY <3>2, <4>3, <4>4 DEF Remember
    <3> QED
      BY <3>4, <3>5
  <2> QED
    BY <2>1, <2>2
<1>6. \A k \in Caller : X!Active(k)' => call'[k].repo \in Listed' \cup overlapped'
  <2>1. ASSUME NEW k \in Caller, k # c, X!Active(k)'
        PROVE  call'[k].repo \in Listed' \cup overlapped'
    BY <1>3, <1>4, <2>1, OverlapsStay DEF X!Active, BelongInv
  <2> QED
    BY <1>4, <1>5, <2>1
<1> QED
  BY <1>4, <1>6, OverlapsStay DEF BelongInv, IndexesBelongToClones

\* A step that begins no index_repo and leaves the store alone.
LEMMA RestBelongs ==
    ASSUME BelongInv, NEW c \in Caller, Remember(c), Listed' = Listed, symbols' = symbols,
           \A k \in Caller : call'[k] = call[k] \/ call'[k].pc = "idle"
    PROVE  BelongInv'
<1>1. \A k \in Caller : X!Active(k)' => X!Active(k) /\ call'[k] = call[k]
  BY DEF X!Active, X!RestPoints
<1> QED
  BY <1>1, OverlapsStay DEF BelongInv, IndexesBelongToClones

LEMMA BelongNext ==
    ASSUME Typed, BelongInv, CP!ListedInv, [Next]_vars
    PROVE  BelongInv'
<1>1. ASSUME NEW c \in Caller, Start(c), Remember(c)
      PROVE  BelongInv'
  <2>1. UNCHANGED <<storeVars, call>>
    BY <1>1 DEF Start, StartCloneReference, StartAnalyzeFeature, StartLocateImplementation
  <2> QED
    BY <1>1, <2>1, RestBelongs, SameOrder DEF storeVars, Typed
<1>2. ASSUME NEW c \in Caller, Step(c), Remember(c)
      PROVE  BelongInv'
  <2>1. CASE CloneStep(c)
    BY <1>2, <2>1, CloneBelongs
  <2>2. CASE IndexStep(c)
    BY <1>2, <2>2, IndexBelongs
  <2>3. CASE LocateStep(c)
    BY <1>2, <2>3, FindStepStore, RestBelongs DEF LocateStep, Typed
  <2>4. CASE AnalyzeIndex(c)
    BY <1>2, <2>4, AnalyzeIndexBelongs
  <2>5. CASE AnalyzeLocate(c)
    <3>1. UNCHANGED <<storeVars, call>>
      BY <2>5 DEF AnalyzeLocate
    <3> QED
      BY <1>2, <3>1, RestBelongs, SameOrder DEF storeVars, Typed
  <2>6. CASE Finish(c)
    <3>1. UNCHANGED storeVars /\ call' = [call EXCEPT ![c] = X!Resting("idle")]
      BY <2>6 DEF Finish
    <3>2. X!Resting("idle").pc = "idle"
      BY DEF X!Resting
    <3>3. \A k \in Caller : call'[k] = call[k] \/ call'[k].pc = "idle"
      BY <3>1, <3>2, JobTypes DEF Typed
    <3> QED
      BY <1>2, <3>1, <3>3, RestBelongs, SameOrder DEF storeVars, Typed
  <2> QED
    BY <1>2, <2>1, <2>2, <2>3, <2>4, <2>5, <2>6 DEF Step
<1>3. CASE UNCHANGED vars
  BY <1>3 DEF vars, storeVars, serverVars, BelongInv, IndexesBelongToClones, X!Active, Listed
<1> QED
  BY <1>1, <1>2, <1>3 DEF Next

LEMMA BelongInit ==
    ASSUME Init
    PROVE  BelongInv
<1>1. symbols = {} /\ \A k \in Caller : ~X!Active(k)
  BY DEF Init, C!Init, X!Resting, X!Active, X!RestPoints
<1> QED
  BY <1>1 DEF BelongInv, IndexesBelongToClones

\* Where only git fails: the symbols in the database are of repositories the cache
\* lists, and so within reach of the next eviction, but for those evicted while an
\* analysis was indexing them.
THEOREM IndexesKeepToClones ==
    ASSUME MayFail \subseteq {"net"}
    PROVE  Spec => []IndexesBelongToClones
<1>1. BelongInv => IndexesBelongToClones
  BY DEF BelongInv
<1> QED
  BY <1>1, BelongInit, BelongNext, ListedAlways, AlwaysTyped, PTL DEF Spec

----------------------------------------------------------------------------
(* An undisturbed analysis answers from what it indexed.  First a search   *)
(* of a repository whose index is complete: as many candidates as rows,    *)
(* and as many hits as vectors found.                                      *)

HasVector(s) == \E v \in vecs : v.id = s.id /\ v.decl = s.decl

\* What a finished index_repo leaves: each symbol once, with its vector and its edge.
Complete(r) ==
    /\ \A s, t \in RowsOf(r) : s.decl = t.decl => s = t
    /\ \A s \in RowsOf(r) : HasVector(s) /\ edges[<<r, s.decl>>] > 0

LEMMA OneVectorPerRow ==
    ASSUME TypeOK, RowIds, NEW r \in Repo, Complete(r)
    PROVE  /\ IsFiniteSet(RowsOf(r)) /\ IsFiniteSet(Candidates(r))
           /\ Cardinality(Candidates(r)) = Cardinality(RowsOf(r))
<1> DEFINE Rows == RowsOf(r)
           Cands == Candidates(r)
           byDecl == [s \in Rows |-> s.decl]
           vector == [s \in Rows |-> [id |-> s.id, decl |-> s.decl]]
<1>0. /\ Rows \subseteq symbols /\ Rows \subseteq Symbol /\ Rows \subseteq KnownRows
      /\ vecs \subseteq Vector
  BY KnownRowsHas DEF TypeOK, StoreTypeOK, RowsOf
<1>1. IsFiniteSet(Rows)
  <2>1. byDecl \in Injection(Rows, Decl)
    BY <1>0 DEF Injection, IsInjective, Symbol, Complete
  <2> QED
    BY <2>1, FS_Injection, DeclAssumption
<1>2. Cands = {v \in vecs : v.id \in Ids(Rows)}
  BY ScopeAssumption DEF Candidates
<1>3. \A v \in Vector : v = [id |-> v.id, decl |-> v.decl]
  BY DEF Vector
<1>4. ASSUME NEW s \in Rows PROVE vector[s] \in Cands
  <2>1. PICK v \in vecs : v.id = s.id /\ v.decl = s.decl
    BY DEF Complete, HasVector
  <2>2. vector[s] = v
    BY <1>0, <1>3, <2>1
  <2> QED
    BY <1>2, <2>1, <2>2 DEF Ids
<1>5. ASSUME NEW v \in Cands PROVE \E s \in Rows : vector[s] = v
  <2>1. PICK s \in Rows : v.id = s.id /\ v \in vecs
    BY <1>2 DEF Ids
  <2>2. v.decl = s.decl
    BY <1>0, <2>1 DEF RowIds
  <2> QED
    BY <1>0, <1>3, <2>1, <2>2
<1>6. ASSUME NEW s \in Rows, NEW t \in Rows, vector[s] = vector[t] PROVE s = t
  <2>1. s.id = t.id
    BY <1>6
  <2> QED
    BY <1>0, <2>1 DEF RowIds
<1> HIDE DEF Rows, Cands
<1>7. vector \in [Rows -> Cands]
  BY <1>4
<1> HIDE DEF vector
<1>8. vector \in Bijection(Rows, Cands)
  BY <1>5, <1>6, <1>7, Fun_IsBij
<1>9. IsFiniteSet(Cands) /\ Cardinality(Cands) = Cardinality(Rows)
  BY <1>1, <1>8, FS_Bijection DEF ExistsBijection
<1> QED
  BY <1>1, <1>9 DEF Rows, Cands

LEMMA OneHitPerVector ==
    ASSUME TypeOK, RowIds, NEW r \in Repo, Complete(r),
           NEW near \in SUBSET Candidates(r)
    PROVE  /\ IsFiniteSet(HitsOf(near, RowsOf(r)))
           /\ Cardinality(HitsOf(near, RowsOf(r))) = Cardinality(near)
<1> DEFINE Hits == HitsOf(near, RowsOf(r))
           vector == [h \in Hits |-> [id |-> h.sym.id, decl |-> h.sym.decl]]
<1>0. /\ RowsOf(r) \in SUBSET Symbol /\ RowsOf(r) \subseteq KnownRows
      /\ vecs \subseteq Vector
  BY KnownRowsHas DEF TypeOK, StoreTypeOK, RowsOf
<1>1. near \in SUBSET vecs /\ near \in SUBSET Vector
      /\ \A v \in near : \E s \in RowsOf(r) : v.id = s.id
  BY <1>0, ScopeAssumption DEF Candidates, Ids
<1>2. /\ \A h \in Hits : \E v \in near, s \in RowsOf(r) :
            v.id = s.id /\ h = [sym |-> s, text |-> v.decl]
      /\ \A v \in near, s \in RowsOf(r) :
            v.id = s.id => [sym |-> s, text |-> v.decl] \in Hits
  BY <1>0, <1>1, HitsOfType
<1>3. \A v \in Vector : v = [id |-> v.id, decl |-> v.decl]
  BY DEF Vector
<1>4. \A v \in near, s \in RowsOf(r) : v.id = s.id => v.decl = s.decl
  BY <1>0, <1>1 DEF RowIds
<1> HIDE DEF Hits
<1>5. ASSUME NEW h \in Hits PROVE vector[h] \in near
  BY <1>1, <1>2, <1>3, <1>4
<1>6. ASSUME NEW v \in near PROVE \E h \in Hits : vector[h] = v
  <2>1. PICK s \in RowsOf(r) : v.id = s.id
    BY <1>1
  <2>2. [sym |-> s, text |-> v.decl] \in Hits
    BY <1>2, <2>1
  <2>3. vector[[sym |-> s, text |-> v.decl]] = v
    BY <1>1, <1>3, <1>4, <2>1, <2>2
  <2> QED
    BY <2>2, <2>3
<1>7. ASSUME NEW h \in Hits, NEW g \in Hits, vector[h] = vector[g] PROVE h = g
  <2>1. PICK v \in near, s \in RowsOf(r) : v.id = s.id /\ h = [sym |-> s, text |-> v.decl]
    BY <1>2
  <2>2. PICK w \in near, t \in RowsOf(r) : w.id = t.id /\ g = [sym |-> t, text |-> w.decl]
    BY <1>2
  <2>3. s.id = t.id /\ v.decl = s.decl /\ w.decl = t.decl
    BY <1>4, <1>7, <2>1, <2>2
  <2>4. s = t
    BY <1>0, <2>3 DEF RowIds
  <2> QED
    BY <2>1, <2>2, <2>3, <2>4
<1>8. vector \in [Hits -> near]
  BY <1>5
<1> HIDE DEF vector
<1>9. vector \in Bijection(Hits, near)
  BY <1>6, <1>7, <1>8, Fun_IsBij
<1>10. IsFiniteSet(near)
  BY OneVectorPerRow, FS_Subset
<1>11. ExistsBijection(near, Hits)
  BY <1>9, Fun_ExistsBijSymmetric DEF ExistsBijection
<1>12. IsFiniteSet(Hits) /\ Cardinality(Hits) = Cardinality(near)
  BY <1>10, <1>11, FS_Bijection
<1> QED
  BY <1>12 DEF Hits

\* What the search of an undisturbed analysis has found so far.
Found(c) ==
    LET r == job[c].scope
    IN  /\ find[c].pc \in {"knn", "fuzzy"} =>
              find[c].pc = "knn" /\ find[c].shown = RowsOf(r) /\ RowsOf(r) # {}
        /\ find[c].pc \in {"callees", "callers", "done"} =>
              /\ Cardinality(find[c].hits) = LeastOf(TopK, Cardinality(RowsOf(r)))
              /\ \A h \in find[c].hits : h.sym \in RowsOf(r)
              /\ \A h \in find[c].hits \ find[c].todo :
                    <<h, <<r, h.sym.decl>>>> \in find[c].related
        /\ find[c].pc = "callers" =>
              <<NextHit(c), <<r, NextHit(c).sym.decl>>>> \in find[c].related
        /\ find[c].pc = "done" => find[c].todo = {}

Answered(c) ==
    /\ job[c].tool = "analyze_feature" /\ job[c].stage \in {"index", "locate"}
    /\ call[c].pc \in XP!AfterClear => XP!BuiltSoFar(c)
    /\ call[c].pc \notin XP!AfterClear \cup {"failed"} \/ job[c].stage = "locate" =>
          call[c].pc = "done" /\ Complete(job[c].scope)
    /\ failures = 0 => Found(c)

AnswersInv == \A c \in Caller : clean[c] => Answered(c)

\* The parser reports the symbols of what it has parsed, and no others.
ParsedInv == \A c \in Caller : call[c].syms \subseteq call[c].calls

LEMMA ContentKept ==
    ASSUME TypeOK, NEW r \in Repo, X!ContentOf(r)' = X!ContentOf(r)
    PROVE  /\ RowsOf(r)' = RowsOf(r) /\ (Complete(r) => Complete(r)')
           /\ XP!ContentOf(r)' = XP!ContentOf(r)
<1> DEFINE Of == {v \in vecs : v.id \in Ids(RowsOf(r))}
           Out == [d \in Decl |-> edges[<<r, d>>]]
<1>1. RowsOf(r)' = RowsOf(r) /\ Of' = Of /\ Out' = Out
  BY DEF X!ContentOf, X!RowsOf, RowsOf, X!Ids, Ids
<1>2. \A d \in Decl : edges'[<<r, d>>] = edges[<<r, d>>]
  <2>1. \A d \in Decl : Out[d] = edges[<<r, d>>] /\ (Out')[d] = edges'[<<r, d>>]
    OBVIOUS
  <2> HIDE DEF Out
  <2> QED
    BY <1>1, <2>1
<1>3. \A s \in RowsOf(r) : HasVector(s) => HasVector(s)'
  <2> SUFFICES ASSUME NEW s \in RowsOf(r), NEW v \in vecs,
                      v.id = s.id, v.decl = s.decl
               PROVE  v \in vecs'
    BY DEF HasVector
  <2>1. v \in Of
    BY DEF Ids
  <2> QED
    BY <1>1, <2>1
<1>4. \A s \in RowsOf(r) : s.decl \in Decl
  BY DEF TypeOK, StoreTypeOK, RowsOf, Symbol
<1>5. Complete(r) => Complete(r)'
  BY <1>1, <1>2, <1>3, <1>4 DEF Complete
<1>6. XP!ContentOf(r)' = XP!ContentOf(r)
  BY DEF X!ContentOf, X!RowsOf, X!Ids, XP!ContentOf, XP!RowsOf, XP!Ids
<1> QED
  BY <1>1, <1>5, <1>6

\* The same tables, whatever happens to the order of accesses.
LEMMA SameTables ==
    ASSUME NEW r, UNCHANGED <<symbols, vecs, edges>>
    PROVE  RowsOf(r)' = RowsOf(r) /\ (Complete(r) => Complete(r)')
BY DEF RowsOf, Complete, HasVector

\* A step of another caller that leaves the content of the repository as it was.
LEMMA OthersAnswered ==
    ASSUME Typed, NEW k \in Caller, Answered(k),
           job'[k] = job[k], call'[k] = call[k], find'[k] = find[k],
           X!ContentOf(job[k].scope)' = X!ContentOf(job[k].scope),
           failures' = 0 => failures = 0
    PROVE  Answered(k)'
<1>0. TypeOK /\ JobShape(k)
  BY DEF Typed
<1>1. PICK r \in Repo : r = job[k].scope /\ r = job'[k].scope
  BY <1>0 DEF Answered, JobShape
<1>2. X!ContentOf(r)' = X!ContentOf(r)
  BY <1>1 DEF X!ContentOf, X!RowsOf, X!Ids
<1>3. /\ RowsOf(r)' = RowsOf(r) /\ (Complete(r) => Complete(r)')
      /\ XP!ContentOf(r)' = XP!ContentOf(r)
  BY <1>0, <1>2, ContentKept
<1>4. call[k].pc \in XP!AfterClear => XP!BuiltSoFar(k)'
  <2> SUFFICES ASSUME call[k].pc \in XP!AfterClear
               PROVE  XP!BuiltSoFar(k)'
    OBVIOUS
  <2>1. call[k].repo = r
    BY <1>0, <1>1 DEF JobShape, X!Active, X!RestPoints, XP!AfterClear
  <2>2. XP!BuiltSoFar(k)
    BY DEF Answered
  <2> QED
    BY <1>3, <2>1, <2>2, XP!BuiltKept, IndexAssumptions
<1>5. Found(k) => Found(k)'
  BY <1>1, <1>3 DEF Found, NextHit
<1>6. Complete(job[k].scope) => Complete(job[k].scope)'
  BY <1>1, <1>3 DEF Complete, RowsOf, HasVector
<1> QED
  BY <1>4, <1>5, <1>6 DEF Answered, XP!AfterClear

BuildsOn(c) == call[c].pc \in XP!AfterClear => XP!BuiltSoFar(c)

\* A step of index_repo leaves what the parser said consistent; one that builds on
\* an index of its own goes on doing so, and is done when the index is complete.
LEMMA IndexAnswers ==
    ASSUME Typed, NEW c \in Caller, IndexStep(c), call[c].syms \subseteq call[c].calls
    PROVE  /\ call'[c].syms \subseteq call'[c].calls
           /\ BuildsOn(c) => XP!BuiltSoFar(c)'
           /\ BuildsOn(c) /\ call[c].pc \in XP!AfterClear =>
                 /\ call'[c].pc \in XP!AfterClear \cup {"done", "failed"}
                 /\ call'[c].pc = "done" =>
                       \A r \in Repo : r = call[c].repo => Complete(r)'
<1>0. TypeOK /\ call \in [Caller -> X!Call]
  BY DEF Typed, TypeOK
<1>1. PICK r \in Repo : r = call[c].repo
  BY <1>0 DEF X!Call
<1>2. BuildsOn(c) => XP!BuiltSoFar(c)'
  <2>1. XP!TypeOK /\ XP!Step(c)
    BY <1>0, IndexTyped, IndexStepTypes
  <2> QED
    BY <2>1, XP!StepBuilt, IndexAssumptions DEF BuildsOn
<1> DEFINE Moves(pc) == /\ call'[c].pc = pc /\ call'[c].syms = call[c].syms
                        /\ call'[c].calls = call[c].calls
<1>g. ASSUME NEW pc, X!Goto(c, pc) PROVE Moves(pc)
  BY <1>0, <1>g DEF X!Goto, X!Call
<1>r. ASSUME NEW pc, X!Return(c, pc)
      PROVE  call'[c].pc = pc /\ call'[c].syms = {} /\ call'[c].calls = {}
  BY <1>0, <1>r DEF X!Return, X!Resting
<1>3. CASE X!Parse(c)
  <2>1. call'[c].syms \subseteq call'[c].calls
    BY <1>0, <1>3 DEF X!Parse, X!Call
  <2>2. call[c].pc \notin XP!AfterClear
    BY <1>3 DEF X!Parse, X!At, XP!AfterClear
  <2> QED
    BY <1>2, <2>1, <2>2
<1>4. CASE X!Touch(c) \/ X!Clear(c)
  BY <1>2, <1>4, <1>g DEF X!Touch, X!Clear, X!At, XP!AfterClear
<1>5. CASE X!Insert(c) \/ X!InsertEdges(c)
  BY <1>2, <1>5, <1>g DEF X!Insert, X!InsertEdges, XP!AfterClear
<1>6. CASE X!Load(c)
  <2>1. \E pc \in {"edges", "embed"} : Moves(pc)
    BY <1>0, <1>6 DEF X!Load, X!EmbedOrGoOn, X!Call
  <2> QED
    BY <1>2, <2>1 DEF XP!AfterClear
<1>7. CASE X!EmbedChunk(c)
  <2>1. \E pc \in {"edges", "embed"} : Moves(pc)
    <3>1. PICK left : call' = [call EXCEPT ![c].rows = left, ![c].pc = X!EmbedOrGoOn(left)]
      BY <1>7 DEF X!EmbedChunk
    <3> QED
      BY <1>0, <3>1 DEF X!EmbedOrGoOn, X!Call
  <2> QED
    BY <1>2, <2>1 DEF XP!AfterClear
<1>8. CASE X!Count(c)
  <2>1. call'[c].pc = "done" /\ call'[c].syms = {} /\ call'[c].calls = {}
    BY <1>8, <1>r DEF X!Count
  <2>2. UNCHANGED <<symbols, vecs, edges>>
    BY <1>8 DEF X!Count, X!UpdateSymbolCount
  <2>3. ASSUME BuildsOn(c) PROVE Complete(r)'
    <3>1. call[c].pc = "count" /\ XP!BuiltSoFar(c)
      BY <1>8, <2>3 DEF X!Count, X!At, BuildsOn, XP!AfterClear
    <3>2. /\ {s.decl : s \in RowsOf(r)} = call[c].syms
          /\ \A s, t \in RowsOf(r) : s.decl = t.decl => s = t
          /\ \A s \in RowsOf(r) : XP!HasVector(s)
          /\ \A d \in Decl : edges[<<r, d>>] = IF d \in call[c].calls THEN 1 ELSE 0
      BY <1>1, <3>1 DEF XP!BuiltSoFar, XP!At, XP!RowsOf, RowsOf
    <3>3. \A s \in RowsOf(r) : s.decl \in Decl /\ s.decl \in call[c].calls
      BY <1>0, <3>2 DEF TypeOK, StoreTypeOK, RowsOf, Symbol
    <3>4. \A s \in RowsOf(r) : edges[<<r, s.decl>>] = 1
      BY <3>2, <3>3
    <3>5. Complete(r)
      BY <3>2, <3>4 DEF Complete, HasVector, XP!HasVector
    <3> QED
      BY <2>2, <3>5, SameTables
  <2> QED
    BY <1>1, <1>2, <2>1, <2>3
<1>9. CASE X!Fail(c)
  BY <1>2, <1>9, <1>r DEF X!Fail
<1> QED
  BY <1>3, <1>4, <1>5, <1>6, <1>7, <1>8, <1>9 DEF IndexStep

\* A step of the search of an undisturbed analysis, whose index is complete.
LEMMA SearchFinds ==
    ASSUME Typed, HitsInv, NEW c \in Caller, FindStep(c), JobShape(c)',
           UNCHANGED <<job, symbols, vecs, edges>>,
           NEW r \in Repo, r = job[c].scope, Complete(r), Found(c), Works
    PROVE  Found(c)'
<1>0. /\ TypeOK /\ JobShape(c) /\ RowIds /\ find[c].scope = r /\ find[c].k = TopK
      /\ find[c].pc \in FindPoints
  BY FindStepStore DEF Typed, JobShape, HitsInv
<1>r. RowsOf(r)' = RowsOf(r) /\ r = job'[c].scope
  BY SameTables
<1>s. IsFiniteSet(RowsOf(r)) /\ Cardinality(Candidates(r)) = Cardinality(RowsOf(r))
  BY <1>0, OneVectorPerRow
<1>f. failures \in Nat /\ ~Fails
  BY <1>0 DEF TypeOK, Works, Fails
<1>t. find \in [Caller -> Find]
  BY <1>0 DEF TypeOK
<1>g. ASSUME FindGoto(c, "load") PROVE find'[c].pc = "load"
  BY <1>t, <1>g, FindGotoType DEF FindBecomes, FindPoints
<1>1. CASE Mark(c)
  <2>1. find'[c].pc = "load"
    BY <1>1, <1>f, <1>g DEF Mark
  <2> QED
    BY <2>1 DEF Found
<1>2. CASE LoadSymbols(c)
  <2>1. SymbolsIn(find[c].scope) = RowsOf(r)
    BY <1>0, ScopeAssumption DEF SymbolsIn, InScope, RowsOf
  <2>2. RowsOf(r) \in SUBSET Symbol
    BY <1>0 DEF TypeOK, StoreTypeOK, RowsOf
  <2>3. CASE FindFail(c)
    <3>1. find'[c].pc = "failed"
      BY <1>t, <2>3, FindFailType
    <3> QED
      BY <3>1 DEF Found
  <2>4. CASE /\ RowsOf(r) # {}
             /\ find' = [find EXCEPT ![c].shown = RowsOf(r), ![c].pc = "knn"]
    <3>1. FindBecomes(c, "knn", RowsOf(r), find[c].hits, find[c].todo)
      BY <1>t, <2>2, <2>4, LoadType
    <3> QED
      BY <1>r, <2>4, <3>1 DEF Found, FindBecomes
  <2> QED
    BY <1>2, <1>f, <2>1, <2>3, <2>4 DEF LoadSymbols
<1>3. CASE SemanticSearch(c)
  <2>1. /\ find[c].shown = RowsOf(r) /\ RowsOf(r) # {}
    BY <1>3 DEF SemanticSearch, FindAt, Found
  <2>2. PICK near \in Nearest(TopK, r), found \in SUBSET Hit, pc \in {"fuzzy", "callees"} :
           /\ found = HitsOf(near, RowsOf(r))
           /\ pc = "fuzzy" <=> found = {}
           /\ FindBecomes(c, pc, RowsOf(r), found, found)
    BY <1>0, <1>3, <1>f, <2>1, SemanticFinds
  <2>3. /\ near \in SUBSET Candidates(r)
        /\ Cardinality(near) = LeastOf(TopK, Cardinality(RowsOf(r)))
    BY <1>s DEF Nearest
  <2>4. /\ IsFiniteSet(found)
        /\ Cardinality(found) = LeastOf(TopK, Cardinality(RowsOf(r)))
    BY <1>0, <2>2, <2>3, OneHitPerVector
  <2>5. found # {}
    <3>1. Cardinality(RowsOf(r)) # 0 /\ Cardinality(RowsOf(r)) \in Nat
      BY <1>s, <2>1, FS_EmptySet, FS_CardinalityType
    <3> QED
      BY <2>4, <3>1, FS_EmptySet, BoundAssumption DEF LeastOf
  <2>6. \A h \in found : h.sym \in RowsOf(r)
    <3>1. near \in SUBSET Vector /\ RowsOf(r) \in SUBSET Symbol
      BY <1>0, <2>3 DEF TypeOK, StoreTypeOK, RowsOf, Candidates
    <3>2. \A h \in found : \E v \in near, s \in RowsOf(r) : h = [sym |-> s, text |-> v.decl]
      BY <2>2, <3>1, HitsOfType
    <3> QED
      BY <3>2
  <2>7. find'[c].pc = "callees" /\ find'[c].hits = found /\ find'[c].todo = found
    BY <2>2, <2>5 DEF FindBecomes
  <2>8. find'[c].hits \ find'[c].todo = {}
    BY <2>7
  <2> QED
    BY <1>r, <2>4, <2>6, <2>7, <2>8 DEF Found
<1>4. CASE FuzzySearch(c)
  BY <1>4 DEF FuzzySearch, FindAt, Found
<1>5. CASE FindCallees(c)
  <2>1. find[c].pc = "callees" /\ find[c].todo # {} /\ find[c].todo \subseteq find[c].hits
    BY <1>0, <1>5 DEF FindCallees, FindAt, JobShape, SearchShape, HasHit
  <2>2. PICK h \in find[c].todo : h = NextHit(c)
    BY <2>1, NextHitType
  <2>3. /\ FindBecomes(c, "callers", find[c].shown, find[c].hits, find[c].todo)
        /\ find'[c].related = find[c].related \cup ({h} \X CallsMadeBy(h.sym.decl, r))
    BY <1>0, <1>5, <1>f, <2>1, <2>2, CalleesFinds
  <2>4. /\ find'[c].pc = "callers" /\ find'[c].hits = find[c].hits
        /\ find'[c].todo = find[c].todo
    BY <2>3 DEF FindBecomes
  <2>5. NextHit(c)' = h
    BY <2>2, <2>4 DEF NextHit
  <2>6. /\ Cardinality(find[c].hits) = LeastOf(TopK, Cardinality(RowsOf(r)))
        /\ \A g \in find[c].hits : g.sym \in RowsOf(r)
        /\ \A g \in find[c].hits \ find[c].todo :
              <<g, <<r, g.sym.decl>>>> \in find[c].related
    BY <2>1 DEF Found
  <2>7. h.sym \in RowsOf(r) /\ h.sym.decl \in Decl
    BY <1>0, <2>1, <2>6 DEF TypeOK, StoreTypeOK, RowsOf, Symbol
  <2>8. <<r, h.sym.decl>> \in CallsMadeBy(h.sym.decl, r)
    BY <2>7 DEF CallsMadeBy, InScope, Complete
  <2>9. <<h, <<r, h.sym.decl>>>> \in find'[c].related
    BY <2>3, <2>8
  <2> QED
    BY <1>r, <2>3, <2>4, <2>5, <2>6, <2>9 DEF Found
<1>6. CASE FindCallers(c)
  <2>1. find[c].pc = "callers" /\ find[c].todo # {} /\ find[c].todo \subseteq find[c].hits
    BY <1>0, <1>6 DEF FindCallers, FindAt, JobShape, SearchShape, HasHit
  <2>2. PICK h \in find[c].todo : h = NextHit(c)
    BY <2>1, NextHitType
  <2>3. PICK left : left = find[c].todo \ {h}
    OBVIOUS
  <2>4. /\ FindBecomes(c, IF left = {} THEN "done" ELSE "callees",
                       find[c].shown, find[c].hits, left)
        /\ find[c].related \subseteq find'[c].related
    BY <1>0, <1>6, <2>1, <2>2, <2>3, CallersFinds
  <2>5. PICK pc \in {"done", "callees"} : pc = IF left = {} THEN "done" ELSE "callees"
    OBVIOUS
  <2>6. find'[c].pc = pc /\ find'[c].hits = find[c].hits /\ find'[c].todo = left
    BY <2>4, <2>5 DEF FindBecomes
  <2>7. /\ Cardinality(find[c].hits) = LeastOf(TopK, Cardinality(RowsOf(r)))
        /\ \A g \in find[c].hits : g.sym \in RowsOf(r)
        /\ \A g \in find[c].hits \ find[c].todo :
              <<g, <<r, g.sym.decl>>>> \in find[c].related
        /\ <<h, <<r, h.sym.decl>>>> \in find[c].related
    BY <2>1, <2>2 DEF Found
  <2>8. \A g \in find[c].hits \ left : <<g, <<r, g.sym.decl>>>> \in find'[c].related
    BY <2>3, <2>4, <2>7
  <2> QED
    BY <1>r, <2>5, <2>6, <2>7, <2>8 DEF Found
<1> QED
  BY <1>1, <1>2, <1>3, <1>4, <1>5, <1>6 DEF FindStep

LEMMA FailuresAdd ==
    ASSUME TypeOK, NEW c \in Caller, Start(c) \/ Step(c)
    PROVE  failures' = failures \/ failures' = failures + 1
<1>1. CASE Start(c)
  BY <1>1 DEF Start, StartCloneReference, StartAnalyzeFeature, StartLocateImplementation
<1>2. CASE CloneStep(c)
  <2>1. CP!Step(c)
    BY <1>2, CloneSteps DEF CloneStep
  <2> QED
    BY <2>1, CP!StepCounters, CacheAssumptions DEF CP!Reliable, CP!Unreliable
<1>3. CASE IndexStep(c)
  BY <1>3, IndexStepTypes
<1>4. CASE LocateStep(c)
  BY <1>4, FindStepStore DEF LocateStep
<1>5. CASE AnalyzeIndex(c) \/ AnalyzeLocate(c) \/ Finish(c)
  BY <1>5 DEF AnalyzeIndex, AnalyzeLocate, Finish
<1> QED
  BY <1>1, <1>2, <1>3, <1>4, <1>5 DEF Step

\* A step of the index_repo of an analysis.
LEMMA IndexStepAnswers ==
    ASSUME Typed, NEW c \in Caller, IndexStep(c), JobShape(c)',
           call[c].syms \subseteq call[c].calls,
           \/ call[c].pc = "clear" /\ call'[c].pc = "insert"
           \/ Answered(c)
    PROVE  Answered(c)'
<1>0. TypeOK /\ JobShape(c) /\ call \in [Caller -> X!Call]
  BY DEF Typed, TypeOK
<1>1. UNCHANGED <<find, job>>
  BY DEF IndexStep
<1>2. X!Active(c)
  BY DEF IndexStep, X!Parse, X!Touch, X!Clear, X!Insert, X!Load, X!EmbedChunk,
     X!InsertEdges, X!Count, X!Fail, X!At, X!Active, X!RestPoints, X!IndexPoints
<1>3. /\ job[c].stage = "index" /\ job[c].tool = "analyze_feature"
      /\ call[c].repo = job[c].scope /\ find[c].pc \notin FindPoints \cup {"done"}
  BY <1>0, <1>2 DEF JobShape, FindPoints
<1>4. Found(c)'
  BY <1>1, <1>3 DEF Found, FindPoints
<1>5. PICK r \in Repo : r = call[c].repo /\ r = job'[c].scope
  BY <1>0, <1>1, <1>3 DEF X!Call
<1>6. \/ call[c].pc = "clear" /\ call'[c].pc = "insert"
      \/ call[c].pc \in XP!AfterClear
  BY <1>2, <1>3 DEF Answered, X!Active, X!RestPoints
<1>7. BuildsOn(c)
  <2>1. CASE call[c].pc = "clear"
    BY <2>1 DEF BuildsOn, XP!AfterClear
  <2>2. CASE Answered(c)
    BY <2>2 DEF Answered, BuildsOn
  <2> QED
    BY <2>1, <2>2
<1>8. /\ XP!BuiltSoFar(c)'
      /\ call'[c].pc \in XP!AfterClear \cup {"done", "failed"}
      /\ call[c].pc \in XP!AfterClear /\ call'[c].pc = "done" => Complete(r)'
  <2>1. /\ XP!BuiltSoFar(c)'
        /\ call[c].pc \in XP!AfterClear =>
              /\ call'[c].pc \in XP!AfterClear \cup {"done", "failed"}
              /\ call'[c].pc = "done" =>
                    \A q \in Repo : q = call[c].repo => Complete(q)'
    BY <1>7, IndexAnswers
  <2>2. "insert" \in XP!AfterClear
    BY DEF XP!AfterClear
  <2> QED
    BY <1>5, <1>6, <2>1, <2>2
<1>9. call'[c].pc = "done" => Complete(job[c].scope)'
  <2>1. call'[c].pc = "done" => call[c].pc \in XP!AfterClear
    BY <1>6
  <2>2. call'[c].pc = "done" => Complete(r)'
    BY <1>8, <2>1
  <2> QED
    BY <1>1, <1>5, <2>2 DEF Complete, RowsOf, HasVector
<1> QED
  BY <1>1, <1>3, <1>4, <1>8, <1>9 DEF Answered, XP!AfterClear

LEMMA LocateStepAnswers ==
    ASSUME Typed, HitsInv, NEW c \in Caller, LocateStep(c), JobShape(c)', Answered(c)
    PROVE  Answered(c)'
<1>0. TypeOK /\ JobShape(c) /\ FindStep(c) /\ UNCHANGED <<job, call>>
  BY DEF Typed, LocateStep
<1>1. /\ UNCHANGED <<symbols, vecs, edges>> /\ find[c].pc \in FindPoints
      /\ failures' = failures \/ failures' = failures + 1
  BY <1>0, FindStepStore
<1>2. job[c].stage = "locate" /\ job[c].tool = "analyze_feature"
  BY <1>0, <1>1 DEF JobShape, Answered, FindPoints
<1>3. PICK r \in Repo : r = job[c].scope
  BY <1>0, <1>2 DEF JobShape
<1>4. call[c].pc = "done" /\ Complete(r)
  BY <1>2, <1>3 DEF Answered
<1>5. Complete(r)'
  BY <1>1, <1>4, SameTables
<1>6. failures' = 0 => Found(c)'
  <2>1. failures' = 0 => failures = 0 /\ Works
    BY <1>0, <1>1 DEF TypeOK, Works
  <2> QED
    BY <1>0, <1>1, <1>3, <1>4, <2>1, SearchFinds DEF Answered
<1>7. Complete(job[c].scope)'
  BY <1>0, <1>3, <1>5 DEF Complete, RowsOf, HasVector
<1> QED
  BY <1>0, <1>2, <1>4, <1>6, <1>7 DEF Answered, XP!AfterClear

\* The first of them follows the index.
LEMMA AnalyzeLocateAnswers ==
    ASSUME Typed, NEW c \in Caller, AnalyzeLocate(c), Answered(c)
    PROVE  Answered(c)'
<1>0. TypeOK /\ JobShape(c) /\ UNCHANGED <<storeVars, call>>
      /\ job' = [job EXCEPT ![c].stage = "locate"] /\ "locate" \in Stages
      /\ BeginFind(c, job[c].scope, TopK)
  BY DEF Typed, AnalyzeLocate, Stages
<1>1. job[c].stage = "index" /\ job[c].tool = "analyze_feature" /\ call[c].pc = "done"
  BY DEF AnalyzeLocate, Answered
<1>2. job'[c].stage = "locate" /\ job'[c].tool = job[c].tool /\ job'[c].scope = job[c].scope
  BY <1>0, SetStage
<1>3. PICK r \in Repo : r = job[c].scope /\ r = job'[c].scope
  BY <1>0, <1>1, <1>2 DEF JobShape
<1>4. Complete(r)
  BY <1>1, <1>3 DEF Answered, XP!AfterClear
<1>5. Complete(r)'
  BY <1>0, <1>4, SameTables DEF storeVars
<1>6. find'[c].pc = "mark"
  <2>1. TopK \in Nat /\ find \in [Caller -> Find] /\ BeginFind(c, r, TopK)
    BY <1>0, <1>3, JobTypes, BoundAssumption
  <2> QED
    BY <2>1, BeginFindType
<1>7. Complete(job[c].scope)'
  BY <1>3, <1>5 DEF Complete, RowsOf, HasVector
<1> QED
  BY <1>0, <1>1, <1>2, <1>6, <1>7 DEF Answered, Found, XP!AfterClear

LEMMA OwnAnswers ==
    ASSUME Typed, HitsInv, AnswersInv, ParsedInv, NEW c \in Caller,
           Start(c) \/ Step(c), Remember(c), clean'[c]
    PROVE  Answered(c)'
<1>0. /\ TypeOK /\ JobShape(c) /\ JobShape(c)' /\ call[c].syms \subseteq call[c].calls
      /\ Idle.tool = "locate_implementation"
  BY EveryTurn DEF Typed, Turn, ParsedInv, Idle
<1>1. \/ call[c].pc = "clear" /\ call'[c].pc = "insert"
      \/ Answered(c) /\ job'[c] # Idle
  BY DEF Remember, AnswersInv
<1>2. CASE Start(c)
  <2>1. job[c] = Idle /\ UNCHANGED call
    BY <1>2 DEF Start, Begin, StartCloneReference, StartAnalyzeFeature,
       StartLocateImplementation
  <2> QED
    BY <1>0, <1>1, <2>1 DEF Answered
<1>3. CASE CloneStep(c)
  <2>1. C!Active(c) /\ UNCHANGED call
    BY <1>0, <1>3, CloneStepTypes DEF CloneStep
  <2> QED
    BY <1>0, <1>1, <2>1 DEF Answered, JobShape
<1>4. CASE IndexStep(c)
  BY <1>0, <1>1, <1>4, IndexStepAnswers
<1>5. CASE LocateStep(c)
  <2>1. UNCHANGED call
    BY <1>5 DEF LocateStep
  <2> QED
    BY <1>0, <1>1, <1>5, <2>1, LocateStepAnswers
<1>6. CASE AnalyzeIndex(c)
  <2>1. job[c].stage = "clone" /\ ~X!Active(c)
    BY <1>0, <1>6 DEF AnalyzeIndex, JobShape
  <2> QED
    BY <1>0, <1>1, <2>1 DEF Answered, X!Active, X!RestPoints
<1>7. CASE AnalyzeLocate(c)
  <2>1. UNCHANGED call
    BY <1>7 DEF AnalyzeLocate
  <2> QED
    BY <1>0, <1>1, <1>7, <2>1, AnalyzeLocateAnswers
<1>8. CASE Finish(c)
  <2>1. job'[c] = Idle /\ call'[c].pc = "idle"
    BY <1>0, <1>8, JobTypes DEF Finish, X!Resting
  <2> QED
    BY <1>1, <2>1
<1> QED
  BY <1>2, <1>3, <1>4, <1>5, <1>6, <1>7, <1>8 DEF Step

LEMMA AnswersNext ==
    ASSUME Typed, HitsInv, AnswersInv, ParsedInv, [Next]_vars
    PROVE  AnswersInv'
<1>1. ASSUME NEW c \in Caller, Start(c) \/ Step(c), Remember(c), NEW k \in Caller, clean'[k]
      PROVE  Answered(k)'
  <2>1. CASE k = c
    BY <1>1, <2>1, OwnAnswers
  <2>2. CASE k # c
    <3>1. job'[k] = job[k] /\ call'[k] = call[k] /\ find'[k] = find[k]
      BY <1>1, <2>2, EveryTurn DEF Turn
    <3>2. Answered(k) /\ X!ContentOf(job[k].scope)' = X!ContentOf(job[k].scope)
      BY <1>1, <2>2, <3>1 DEF Remember, AnswersInv
    <3>3. failures' = 0 => failures = 0
      BY <1>1, FailuresAdd DEF Typed, TypeOK
    <3> QED
      BY <3>1, <3>2, <3>3, OthersAnswered
  <2> QED
    BY <2>1, <2>2
<1>2. CASE Next
  BY <1>1, <1>2 DEF Next, AnswersInv
<1>3. CASE UNCHANGED vars
  BY <1>3 DEF vars, storeVars, serverVars, AnswersInv, Answered, Found, NextHit, Complete,
     HasVector, RowsOf, XP!BuiltSoFar, XP!At, XP!RowsOf, XP!HasVector
<1> QED
  BY <1>2, <1>3

LEMMA ParsedNext ==
    ASSUME Typed, ParsedInv, [Next]_vars
    PROVE  ParsedInv'
<1>1. ASSUME NEW c \in Caller, Start(c) \/ Step(c), NEW k \in Caller
      PROVE  call'[k].syms \subseteq call'[k].calls
  <2>0. call \in [Caller -> X!Call] /\ call[k].syms \subseteq call[k].calls
    BY JobTypes DEF Typed, ParsedInv
  <2>1. CASE k # c
    BY <1>1, <2>0, <2>1, EveryTurn DEF Turn
  <2>2. CASE k = c /\ Start(c)
    BY <2>0, <2>2 DEF Start, StartCloneReference, StartAnalyzeFeature,
       StartLocateImplementation
  <2>3. CASE k = c /\ (CloneStep(c) \/ LocateStep(c) \/ AnalyzeLocate(c))
    BY <2>0, <2>3 DEF CloneStep, LocateStep, AnalyzeLocate
  <2>4. CASE k = c /\ IndexStep(c)
    BY <2>0, <2>4, IndexAnswers
  <2>5. CASE k = c /\ AnalyzeIndex(c)
    <3>1. PICK pc : call' = [call EXCEPT ![c] =
             [X!Resting(pc) EXCEPT !.repo = job[c].scope]]
      BY <2>5 DEF AnalyzeIndex
    <3>2. /\ [X!Resting(pc) EXCEPT !.repo = job[c].scope].syms = {}
      BY DEF X!Resting
    <3> QED
      BY <2>0, <2>5, <3>1, <3>2
  <2>6. CASE k = c /\ Finish(c)
    <3>1. call' = [call EXCEPT ![c] = X!Resting("idle")] /\ X!Resting("idle").syms = {}
      BY <2>6 DEF Finish, X!Resting
    <3> QED
      BY <2>0, <2>6, <3>1
  <2> QED
    BY <1>1, <2>1, <2>2, <2>3, <2>4, <2>5, <2>6 DEF Step
<1>2. CASE Next
  BY <1>1, <1>2 DEF Next, ParsedInv
<1>3. CASE UNCHANGED vars
  BY <1>3 DEF vars, serverVars, ParsedInv
<1> QED
  BY <1>2, <1>3

\* Whatever is cloned, evicted, indexed and searched beside it, an analysis whose
\* index_repo succeeded, while nobody has changed the rows, vectors and edges of its
\* repository since, answers with TopK hits, or as many as there are symbols, all of
\* its repository and each with its call edges; in any number of callers, repositories
\* and declarations, as long as no step fails.
THEOREM AnalysesAnswer == Spec => []UndisturbedAnalysisAnswers
<1>1. Init => AnswersInv /\ ParsedInv
  BY DEF Init, AnswersInv, ParsedInv, X!Resting
<1>2. Typed /\ AnswersInv => UndisturbedAnalysisAnswers
  <2> SUFFICES ASSUME Typed, AnswersInv, NEW c \in Caller, clean[c], FindAt(c, "done"),
                      failures = 0
               PROVE  LET r == job[c].scope
                      IN  /\ Cardinality(find[c].hits) = LeastOf(TopK, Cardinality(RowsOf(r)))
                          /\ \A h \in find[c].hits : h.sym \in RowsOf(r)
                          /\ \A h \in find[c].hits :
                                <<h, <<r, h.sym.decl>>>> \in find[c].related
    BY DEF UndisturbedAnalysisAnswers
  <2>1. Found(c)
    BY DEF AnswersInv, Answered
  <2> QED
    BY <2>1 DEF Found, FindAt
<1> QED
  BY <1>1, <1>2, AnswersNext, ParsedNext, HitsInit, HitsNext, AlwaysTyped, PTL DEF Spec
=============================================================================
