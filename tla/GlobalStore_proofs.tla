------------------------- MODULE GlobalStore_proofs -------------------------
(***************************************************************************)
(* Lemmas about the transactions of GlobalStore: what an insert adds, and  *)
(* that every transaction keeps the types of the tables.                   *)
(***************************************************************************)
EXTENDS GlobalStore, TLAPS, FiniteSetTheorems

----------------------------------------------------------------------------
(* Ids handed out by an insert.                                            *)

\* Any set of declarations is finite: it is a subset of Decl.
LEMMA BatchFinite ==
    ASSUME NEW batch \in SUBSET Decl
    PROVE  IsFiniteSet(batch) /\ Cardinality(batch) \in Nat
BY DeclAssumption, FS_Subset, FS_CardinalityType

\* The rows of one insert get distinct ids, all from `first` on and below the
\* next value of the sequence (insert_symbols, update_file_symbols).
LEMMA NumberingType ==
    ASSUME NEW batch \in SUBSET Decl, NEW first \in Nat
    PROVE  /\ Numbering(batch, first)
                \in [batch -> first .. (first + Cardinality(batch) - 1)]
           /\ \A d, e \in batch :
                Numbering(batch, first)[d] = Numbering(batch, first)[e] => d = e
<1> DEFINE n == Cardinality(batch)
           Good(num) == \A d, e \in batch : num[d] = num[e] => d = e
<1>1. IsFiniteSet(batch) /\ n \in Nat
  BY BatchFinite
<1>2. PICK f \in Bijection(1 .. n, batch) : TRUE
  BY <1>1, FS_CardinalityType DEF ExistsBijection
<1>3. /\ f \in [1 .. n -> batch]
      /\ \A d \in batch : \E i \in 1 .. n : f[i] = d
  BY <1>2 DEF Bijection, Injection, Surjection
<1> DEFINE g == [d \in batch |-> CHOOSE i \in 1 .. n : f[i] = d]
           num == [d \in batch |-> first + g[d] - 1]
<1>4. \A d \in batch : g[d] \in 1 .. n /\ f[g[d]] = d
  BY <1>3
<1>5. num \in [batch -> first .. (first + n - 1)]
  <2> SUFFICES ASSUME NEW d \in batch
               PROVE  first + g[d] - 1 \in first .. (first + n - 1)
    OBVIOUS
  <2>1. g[d] \in 1 .. n
    BY <1>4
  <2> HIDE DEF g, n
  <2> QED
    BY <2>1, <1>1
<1>6. Good(num)
  <2> SUFFICES ASSUME NEW d \in batch, NEW e \in batch, num[d] = num[e]
               PROVE  d = e
    OBVIOUS
  <2>1. g[d] \in 1 .. n /\ g[e] \in 1 .. n /\ f[g[d]] = d /\ f[g[e]] = e
    BY <1>4
  <2>2. first + g[d] - 1 = first + g[e] - 1
    OBVIOUS
  <2> HIDE DEF g, n
  <2>3. g[d] = g[e]
    BY <2>1, <2>2, <1>1
  <2> QED
    BY <2>1, <2>3
<1> HIDE DEF num
<1>7. \E x \in [batch -> first .. (first + n - 1)] : Good(x)
  BY <1>5, <1>6
<1> QED
  BY <1>7 DEF Numbering

\* What an insert adds to table symbols: rows of the repository with fresh ids.
LEMMA NewRowsType ==
    ASSUME NEW batch \in SUBSET Decl, NEW first \in Nat, NEW r \in Repo
    PROVE  /\ NewRows(r, batch, first) \in SUBSET Symbol
           /\ \A s \in NewRows(r, batch, first) :
                 first <= s.id /\ s.id < first + Cardinality(batch)
           /\ \A s, t \in NewRows(r, batch, first) : s.id = t.id => s = t
<1> DEFINE num == Numbering(batch, first)
           n == Cardinality(batch)
<1>1. n \in Nat
  BY BatchFinite
<1>2. num \in [batch -> first .. (first + n - 1)]
  BY NumberingType
<1>3. \A d, e \in batch : num[d] = num[e] => d = e
  BY NumberingType
<1>4. NewRows(r, batch, first) =
        {[id |-> num[d], repo |-> r, decl |-> d] : d \in batch}
  BY DEF NewRows
<1> HIDE DEF num, n
<1>5. \A d \in batch : num[d] \in Nat /\ first <= num[d] /\ num[d] < first + n
  BY <1>1, <1>2
<1>6. NewRows(r, batch, first) \in SUBSET Symbol
  BY <1>4, <1>5 DEF Symbol
<1>7. \A s \in NewRows(r, batch, first) : first <= s.id /\ s.id < first + n
  BY <1>4, <1>5
<1>8. \A s, t \in NewRows(r, batch, first) : s.id = t.id => s = t
  BY <1>3, <1>4
<1> QED
  BY <1>6, <1>7, <1>8 DEF n

\* They are one row for each declaration of the batch.
LEMMA NewRowsOf ==
    ASSUME NEW r, NEW batch, NEW first
    PROVE  /\ \A s \in NewRows(r, batch, first) : s.repo = r /\ s.decl \in batch
           /\ \A d \in batch : \E s \in NewRows(r, batch, first) : s.decl = d
           /\ \A s, t \in NewRows(r, batch, first) : s.decl = t.decl => s = t
<1>1. NewRows(r, batch, first) =
        {[id |-> Numbering(batch, first)[d], repo |-> r, decl |-> d] : d \in batch}
  BY DEF NewRows
<1>2. \A s \in NewRows(r, batch, first) : \E d \in batch :
        s = [id |-> Numbering(batch, first)[d], repo |-> r, decl |-> d]
  BY <1>1
<1>3. \A d \in batch :
        [id |-> Numbering(batch, first)[d], repo |-> r, decl |-> d]
           \in NewRows(r, batch, first)
  BY <1>1
<1> HIDE DEF NewRows
<1>4. \A s \in NewRows(r, batch, first) :
        /\ s.repo = r /\ s.decl \in batch
        /\ s = [id |-> Numbering(batch, first)[s.decl], repo |-> r, decl |-> s.decl]
  BY <1>2
<1>5. \A d \in batch : \E s \in NewRows(r, batch, first) : s.decl = d
  BY <1>3
<1> QED
  BY <1>4, <1>5

----------------------------------------------------------------------------
(* Types: every transaction of the store keeps the types of the tables.    *)

LEMMA ForgetType ==
    ASSUME StoreTypeOK, NEW r \in Repo
    PROVE  /\ Forget(r) \in SUBSET (Repo \X Repo)
           /\ Latest(r, Listed) \in SUBSET (Repo \X Repo)
BY DEF StoreTypeOK, Forget, Latest, Listed

LEMMA EdgesType ==
    ASSUME NEW es \in [Repo \X Decl -> Nat], NEW r \in Repo, NEW D
    PROVE  AddEdges(es, r, D) \in [Repo \X Decl -> Nat]
BY DEF AddEdges

LEMMA DropEdgesType ==
    ASSUME edges \in [Repo \X Decl -> Nat], NEW r \in Repo, NEW D
    PROVE  DropEdges(r, D) \in [Repo \X Decl -> Nat]
BY DEF DropEdges

LEMMA MarkAccessedType ==
    ASSUME StoreTypeOK, NEW r \in Repo, MarkAccessed(r)
    PROVE  StoreTypeOK'
<1>1. older' \in SUBSET (Repo \X Repo)
  BY ForgetType DEF MarkAccessed, StoreTypeOK
<1> QED
  BY <1>1 DEF MarkAccessed, StoreTypeOK

LEMMA UpdateSymbolCountType ==
    ASSUME StoreTypeOK, NEW r \in Repo, NEW n \in Nat, UpdateSymbolCount(r, n)
    PROVE  StoreTypeOK'
<1>1. [indexed |-> TRUE, count |-> n] \in RepoRow
  BY DEF RepoRow
<1>2. repos' \in [Repo -> {NoRow} \cup RepoRow]
  BY <1>1 DEF UpdateSymbolCount, StoreTypeOK
<1> QED
  BY <1>2 DEF UpdateSymbolCount, StoreTypeOK

LEMMA ClearSymbolsType ==
    ASSUME StoreTypeOK, NEW r \in Repo, ClearSymbols(r)
    PROVE  StoreTypeOK'
<1>1. edges' \in [Repo \X Decl -> Nat]
  BY DropEdgesType DEF ClearSymbols, StoreTypeOK
<1> QED
  BY <1>1 DEF ClearSymbols, StoreTypeOK, DropVectors

LEMMA InsertSymbolsType ==
    ASSUME StoreTypeOK, NEW r \in Repo, NEW batch \in SUBSET Decl,
           InsertSymbols(r, batch)
    PROVE  StoreTypeOK'
<1>1. NewRows(r, batch, nextId) \in SUBSET Symbol /\ Cardinality(batch) \in Nat
  BY NewRowsType, BatchFinite DEF StoreTypeOK
<1> QED
  BY <1>1 DEF InsertSymbols, StoreTypeOK

LEMMA InsertEmbeddingsType ==
    ASSUME StoreTypeOK, NEW rows \in SUBSET Symbol, InsertEmbeddings(rows)
    PROVE  StoreTypeOK'
<1>1. vecs' \in SUBSET Vector
  BY DEF InsertEmbeddings, StoreTypeOK, Symbol, Vector
<1> QED
  BY <1>1 DEF InsertEmbeddings, StoreTypeOK

LEMMA InsertCallEdgesType ==
    ASSUME StoreTypeOK, NEW r \in Repo, NEW D, InsertCallEdges(r, D)
    PROVE  StoreTypeOK'
<1>1. edges' \in [Repo \X Decl -> Nat]
  BY EdgesType DEF InsertCallEdges, StoreTypeOK
<1> QED
  BY <1>1 DEF InsertCallEdges, StoreTypeOK

LEMMA RemoveFileSymbolsType ==
    ASSUME StoreTypeOK, NEW r \in Repo, NEW f, RemoveFileSymbols(r, f)
    PROVE  StoreTypeOK'
<1>1. edges' \in [Repo \X Decl -> Nat]
  BY DropEdgesType DEF RemoveFileSymbols, StoreTypeOK
<1> QED
  BY <1>1 DEF RemoveFileSymbols, StoreTypeOK, DropVectors

LEMMA UpdateFileSymbolsType ==
    ASSUME StoreTypeOK, NEW r \in Repo, NEW f, NEW batch \in SUBSET Decl, NEW D,
           UpdateFileSymbols(r, f, batch, D)
    PROVE  StoreTypeOK'
<1>1. NewRows(r, batch, nextId) \in SUBSET Symbol /\ Cardinality(batch) \in Nat
  BY NewRowsType, BatchFinite DEF StoreTypeOK
<1>2. DropEdges(r, DeclsIn(f)) \in [Repo \X Decl -> Nat]
  BY DropEdgesType DEF StoreTypeOK
<1>3. edges' \in [Repo \X Decl -> Nat]
  BY <1>2, EdgesType DEF UpdateFileSymbols
<1> QED
  BY <1>1, <1>3 DEF UpdateFileSymbols, StoreTypeOK, DropVectors

LEMMA UnchangedStoreType ==
    ASSUME StoreTypeOK, UNCHANGED storeVars
    PROVE  StoreTypeOK'
BY DEF StoreTypeOK, storeVars

LEMMA UpsertRepoType ==
    ASSUME StoreTypeOK, NEW r \in Repo, NEW row \in RepoRow, UpsertRepo(r, row)
    PROVE  StoreTypeOK'
<1>1. older' \in SUBSET (Repo \X Repo)
  BY ForgetType DEF UpsertRepo
<1> QED
  BY <1>1 DEF UpsertRepo, StoreTypeOK

LEMMA EvictRepoType ==
    ASSUME StoreTypeOK, NEW r \in Repo, EvictRepo(r)
    PROVE  StoreTypeOK'
<1>1. older' \in SUBSET (Repo \X Repo)
  BY ForgetType DEF EvictRepo
<1>2. edges' \in [Repo \X Decl -> Nat]
  BY DropEdgesType DEF EvictRepo, StoreTypeOK
<1> QED
  BY <1>1, <1>2 DEF EvictRepo, StoreTypeOK, DropVectors

----------------------------------------------------------------------------
(* The order of accesses: last_accessed_at orders the rows of table repos  *)
(* strictly, so that while there are rows one of them is the oldest.       *)

LEMMA ForgetOrder ==
    ASSUME NEW r, NEW S, IsStrictOrder(older, S)
    PROVE  IsStrictOrder(Forget(r), S \ {r})
BY DEF IsStrictOrder, Forget

LEMMA LatestOrder ==
    ASSUME NEW r, NEW S, IsStrictOrder(older, S)
    PROVE  IsStrictOrder(Latest(r, S), S \cup {r})
<1> DEFINE now == Latest(r, S)
           all == S \cup {r}
<1>1. \A p, q : <<p, q>> \in now <=>
        (<<p, q>> \in older /\ p # r /\ q # r) \/ (q = r /\ p \in S \ {r})
  BY DEF Latest, Forget, IsStrictOrder
<1>2. now \subseteq all \X all
  BY DEF Latest, Forget, IsStrictOrder
<1> HIDE DEF now
<1>3. \A p \in all : <<p, p>> \notin now
  BY <1>1 DEF IsStrictOrder
<1>4. \A p, q \in all : p # q => (<<p, q>> \in now \/ <<q, p>> \in now)
  BY <1>1 DEF IsStrictOrder
<1>5. \A p, q, t \in all : <<p, q>> \in now /\ <<q, t>> \in now => <<p, t>> \in now
  <2>1. \A p, q : <<p, q>> \in older => p \in S /\ q \in S
    BY DEF IsStrictOrder
  <2>2. \A p, q, t : <<p, q>> \in older /\ <<q, t>> \in older => <<p, t>> \in older
    BY <2>1 DEF IsStrictOrder
  <2> QED
    BY <1>1, <2>1, <2>2
<1>6. IsStrictOrder(now, all)
  BY <1>2, <1>3, <1>4, <1>5 DEF IsStrictOrder
<1> QED
  BY <1>6 DEF now

LEMMA MarkAccessedOrder ==
    ASSUME IsStrictOrder(older, Listed), NEW r, MarkAccessed(r)
    PROVE  IsStrictOrder(older, Listed)'
<1>1. Listed' = Listed
  BY DEF MarkAccessed, Listed
<1>2. CASE r \in Listed
  <2>1. Listed \cup {r} = Listed
    BY <1>2
  <2>2. older' = Latest(r, Listed)
    BY <1>2 DEF MarkAccessed
  <2> QED
    BY <1>1, <2>1, <2>2, LatestOrder DEF IsStrictOrder
<1>3. CASE r \notin Listed
  BY <1>1, <1>3 DEF MarkAccessed, IsStrictOrder
<1> QED
  BY <1>2, <1>3

LEMMA UpsertRepoOrder ==
    ASSUME StoreTypeOK, IsStrictOrder(older, Listed), NEW r \in Repo,
           NEW row \in RepoRow, UpsertRepo(r, row)
    PROVE  /\ Listed' = Listed \cup {r}
           /\ IsStrictOrder(older, Listed)'
<1>1. Listed' = Listed \cup {r}
  BY NoRowAssumption DEF UpsertRepo, Listed, StoreTypeOK
<1>2. older' = Latest(r, Listed)
  BY DEF UpsertRepo
<1> QED
  BY <1>1, <1>2, LatestOrder DEF IsStrictOrder

LEMMA EvictRepoOrder ==
    ASSUME StoreTypeOK, IsStrictOrder(older, Listed), NEW r \in Repo, EvictRepo(r)
    PROVE  /\ Listed' = Listed \ {r}
           /\ IsStrictOrder(older, Listed)'
<1>1. Listed' = Listed \ {r}
  BY DEF EvictRepo, Listed, StoreTypeOK
<1>2. older' = Forget(r)
  BY DEF EvictRepo
<1> QED
  BY <1>1, <1>2, ForgetOrder DEF IsStrictOrder
=============================================================================
