-------------------------- MODULE IndexRepo_proofs --------------------------
(***************************************************************************)
(* Proofs about IndexRepo: its type invariant and, for any number of       *)
(* concurrent callers without any discipline between them, that a vector   *)
(* always is the embedding of the symbol that has its id, and that a call  *)
(* whose repository nobody else has touched indexes all of it.  The lemmas *)
(* about steps do not mention Spec, so that Server can cite them.          *)
(***************************************************************************)
EXTENDS IndexRepo, GlobalStore_proofs

----------------------------------------------------------------------------
(* Types: the handlers.                                                    *)

LEMMA RestingType ==
    ASSUME NEW pc \in Points
    PROVE  /\ Resting(pc) \in Call
           /\ Resting(pc).pc = pc /\ Resting(pc).rows = {}
BY CallerAssumption DEF Resting, Call

LEMMA GotoType ==
    ASSUME call \in [Caller -> Call], started \in 0 .. MaxCalls,
           NEW c \in Caller, NEW pc \in Points, Goto(c, pc)
    PROVE  call' \in [Caller -> Call] /\ started' \in 0 .. MaxCalls
BY DEF Goto, Call

LEMMA ReturnType ==
    ASSUME call \in [Caller -> Call], started \in 0 .. MaxCalls,
           NEW c \in Caller, NEW pc \in RestPoints, Return(c, pc)
    PROVE  call' \in [Caller -> Call] /\ started' \in 0 .. MaxCalls
BY RestingType DEF Return, Points

LEMMA StartType ==
    ASSUME call \in [Caller -> Call], started \in 0 .. MaxCalls,
           started < MaxCalls,
           NEW c \in Caller, NEW r \in Repo, NEW f \in File, NEW pc \in Points,
           Start(c, r, f, pc)
    PROVE  call' \in [Caller -> Call] /\ started' \in 0 .. MaxCalls
<1>1. [Resting(pc) EXCEPT !.repo = r, !.file = f] \in Call
  BY DEF Resting, Call
<1>2. call' \in [Caller -> Call]
  BY <1>1 DEF Start
<1>3. started' \in 0 .. MaxCalls
  BY BoundAssumption DEF Start
<1> QED
  BY <1>2, <1>3

\* The part of TypeOK that an action other than the history sets.
TypeBase ==
    /\ StoreTypeOK
    /\ trees \in [Repo -> {NoDir} \cup SUBSET Decl]
    /\ call \in [Caller -> Call]
    /\ started \in 0 .. MaxCalls

LEMMA StartCallType ==
    ASSUME TypeOK, NEW c \in Caller, StartCall(c)
    PROVE  TypeBase'
<1> USE DEF TypeOK, TypeBase
<1>1. ASSUME NEW r \in Repo, StartIndexRepo(c, r) PROVE TypeBase'
  <2> DEFINE pc == IF trees[r] = NoDir THEN "failed" ELSE "parse"
             f == Resting("idle").file
  <2>1. pc \in Points
    BY DEF Points, RestPoints, IndexPoints
  <2>2. f \in File
    BY RestingType DEF Points, RestPoints, Call
  <2>3. Start(c, r, f, pc) /\ started < MaxCalls
    BY <1>1 DEF StartIndexRepo, CanStart
  <2>4. call' \in [Caller -> Call] /\ started' \in 0 .. MaxCalls
    <3> HIDE DEF pc, f
    <3> QED BY <2>1, <2>2, <2>3, StartType
  <2> QED
    BY <1>1, <2>4, UnchangedStoreType DEF StartIndexRepo
<1>2. ASSUME NEW r \in Repo, NEW f \in File, StartUpdateFile(c, r, f)
      PROVE  TypeBase'
  <2>1. "readFile" \in Points
    BY DEF Points, FilePoints
  <2>2. call' \in [Caller -> Call] /\ started' \in 0 .. MaxCalls
    BY <1>2, <2>1, StartType DEF StartUpdateFile, CanStart
  <2> QED
    BY <1>2, <2>2, UnchangedStoreType DEF StartUpdateFile
<1>3. ASSUME NEW r \in Repo, NEW f \in File, StartRemoveFile(c, r, f)
      PROVE  TypeBase'
  <2>1. "removeFile" \in Points
    BY DEF Points, FilePoints
  <2>2. call' \in [Caller -> Call] /\ started' \in 0 .. MaxCalls
    BY <1>3, <2>1, StartType DEF StartRemoveFile, CanStart
  <2> QED
    BY <1>3, <2>2, UnchangedStoreType DEF StartRemoveFile
<1> QED
  BY <1>1, <1>2, <1>3 DEF StartCall

LEMMA StepType ==
    ASSUME TypeOK, NEW c \in Caller, Step(c)
    PROVE  TypeBase'
<1> USE DEF TypeOK, TypeBase
<1>0. /\ call[c] \in Call
      /\ call[c].repo \in Repo /\ call[c].file \in File
      /\ call[c].syms \in SUBSET Decl /\ call[c].calls \in SUBSET Decl
      /\ call[c].rows \in SUBSET Symbol
  BY DEF Call
<1>p. /\ \A pc \in {"touch", "clear", "insert", "load", "embed", "edges",
                    "count", "updateFile"} : pc \in Points
      /\ \A pc \in {"done", "failed"} : pc \in RestPoints
  BY DEF Points, RestPoints, IndexPoints, FilePoints
<1>1. CASE Parse(c)
  <2>1. PICK langs \in SUBSET Lang, skipped \in SUBSET File :
          LET found == Parsed(call[c].repo, skipped)
          IN  call' = [call EXCEPT
                ![c].pc = "touch",
                ![c].calls = found,
                ![c].syms = {d \in found : langs = {} \/ LangOf[d] \in langs}]
    BY <1>1 DEF Parse
  <2>2. Parsed(call[c].repo, skipped) \in SUBSET Decl
    BY <1>0 DEF Parsed
  <2>3. call' \in [Caller -> Call]
    BY <2>1, <2>2, <1>0, <1>p DEF Call
  <2> QED
    BY <1>1, <2>3, UnchangedStoreType DEF Parse
<1>2. CASE Touch(c)
  <2>1. StoreTypeOK'
    BY <1>2, <1>0, MarkAccessedType, UnchangedStoreType DEF Touch
  <2> QED
    BY <1>2, <2>1, <1>p, GotoType DEF Touch
<1>3. CASE Clear(c)
  BY <1>3, <1>0, <1>p, ClearSymbolsType, GotoType DEF Clear
<1>4. CASE Insert(c)
  BY <1>4, <1>0, <1>p, InsertSymbolsType, GotoType DEF Insert
<1>5. CASE Load(c)
  <2>1. RowsOf(call[c].repo) \in SUBSET Symbol
    BY DEF RowsOf, StoreTypeOK
  <2>2. EmbedOrGoOn(RowsOf(call[c].repo)) \in Points
    BY <1>p DEF EmbedOrGoOn
  <2>3. call' \in [Caller -> Call]
    BY <1>5, <2>1, <2>2, <1>0 DEF Load, Call
  <2> QED
    BY <1>5, <2>3, UnchangedStoreType DEF Load
<1>6. CASE EmbedChunk(c)
  <2> DEFINE chunk == FirstChunk(call[c].rows)
             left == call[c].rows \ chunk
  <2>1. chunk \in SUBSET Symbol /\ left \in SUBSET Symbol
    BY <1>0 DEF FirstChunk
  <2>2. EmbedOrGoOn(left) \in Points
    BY <1>p DEF EmbedOrGoOn
  <2>3. /\ InsertEmbeddings(chunk)
        /\ call' = [call EXCEPT ![c].rows = left, ![c].pc = EmbedOrGoOn(left)]
        /\ UNCHANGED <<trees, started>>
    BY <1>6 DEF EmbedChunk
  <2> HIDE DEF chunk, left
  <2>4. call' \in [Caller -> Call]
    BY <2>1, <2>2, <2>3, <1>0 DEF Call
  <2> QED
    BY <2>1, <2>3, <2>4, InsertEmbeddingsType
<1>7. CASE InsertEdges(c)
  BY <1>7, <1>0, <1>p, InsertCallEdgesType, GotoType DEF InsertEdges
<1>8. CASE Count(c)
  <2>1. Cardinality(call[c].syms) \in Nat
    BY <1>0, BatchFinite
  <2> QED
    BY <1>8, <2>1, <1>0, <1>p, UpdateSymbolCountType, ReturnType DEF Count
<1>9. CASE ReadFile(c)
  <2>1. (trees[call[c].repo] \cap DeclsIn(call[c].file)) \in SUBSET Decl
    BY DEF DeclsIn
  <2>2. call' \in [Caller -> Call]
    BY <1>9, <2>1, <1>0, <1>p DEF ReadFile, Call
  <2> QED
    BY <1>9, <2>2, UnchangedStoreType DEF ReadFile
<1>10. CASE UpdateFile(c)
  BY <1>10, <1>0, <1>p, UpdateFileSymbolsType, ReturnType DEF UpdateFile
<1>11. CASE RemoveFile(c)
  BY <1>11, <1>0, <1>p, RemoveFileSymbolsType, ReturnType DEF RemoveFile
<1>12. CASE Fail(c)
  BY <1>12, <1>p, UnchangedStoreType, ReturnType DEF Fail
<1> QED
  BY <1>1, <1>2, <1>3, <1>4, <1>5, <1>6, <1>7, <1>8, <1>9, <1>10, <1>11, <1>12
     DEF Step

LEMMA NextType ==
    ASSUME TypeOK, [Next]_vars
    PROVE  TypeOK'
<1>1. ASSUME NEW c \in Caller, StartCall(c) \/ Step(c), Track(c)
      PROVE  TypeOK'
  <2>1. TypeBase'
    BY <1>1, StartCallType, StepType
  <2>2. disturbed' \in [Caller -> BOOLEAN]
    BY <1>1 DEF Track
  <2> QED
    BY <2>1, <2>2 DEF TypeOK, TypeBase
<1>2. CASE Crash
  <2>1. "failed" \in Points
    BY DEF Points, RestPoints
  <2>2. call' \in [Caller -> Call]
    BY <1>2, <2>1, RestingType DEF Crash, TypeOK
  <2> QED
    BY <1>2, <2>2, UnchangedStoreType DEF Crash, TypeOK
<1>3. ASSUME NEW r \in Repo, EditTree(r)
      PROVE  TypeOK'
  <2>1. trees' \in [Repo -> {NoDir} \cup SUBSET Decl]
    BY <1>3, BoundAssumption DEF EditTree, TypeOK
  <2> QED
    BY <1>3, <2>1, UnchangedStoreType DEF EditTree, TypeOK, callVars
<1>4. CASE UNCHANGED vars
  BY <1>4, UnchangedStoreType DEF vars, callVars, TypeOK
<1> QED
  BY <1>1, <1>2, <1>3, <1>4 DEF Next

LEMMA InitType ==
    ASSUME Init
    PROVE  TypeOK
<1>1. FreshRow \in RepoRow
  BY DEF FreshRow, RepoRow
<1>2. StoreTypeOK
  BY <1>1 DEF Init, StoreTypeOK
<1>3. trees \in [Repo -> {NoDir} \cup SUBSET Decl]
  BY BoundAssumption DEF Init
<1>4. call \in [Caller -> Call]
  BY RestingType DEF Init, Points, RestPoints
<1> QED
  BY <1>2, <1>3, <1>4, BoundAssumption DEF Init, TypeOK

\* The tables and the locals of every handler keep their types, for any number
\* of repositories, files, declarations and callers.
THEOREM TypeCorrect == Spec => []TypeOK
BY InitType, NextType, PTL DEF Spec

----------------------------------------------------------------------------
(* Vectors keep to their symbols.  A step either adds no row to Known, or  *)
(* adds those of one insert, whose ids nobody has seen; and it adds no     *)
(* vector but those of rows in Known.                                      *)

LEMMA KnownShrinks ==
    ASSUME TypeOK, IdsNameOneRow,
           Known' \subseteq Known, nextId' = nextId,
           \A v \in vecs' : v \in vecs \/ \E s \in Known : v.id = s.id /\ v.decl = s.decl
    PROVE  IdsNameOneRow'
BY DEF IdsNameOneRow

LEMMA KnownGrows ==
    ASSUME TypeOK, IdsNameOneRow,
           NEW r \in Repo, NEW batch \in SUBSET Decl,
           Known' \subseteq Known \cup NewRows(r, batch, nextId),
           nextId' = nextId + Cardinality(batch),
           vecs' \subseteq vecs
    PROVE  IdsNameOneRow'
<1> DEFINE New == NewRows(r, batch, nextId)
           n == Cardinality(batch)
<1>1. n \in Nat /\ nextId \in Nat
  BY BatchFinite DEF TypeOK, StoreTypeOK
<1>2. /\ \A s \in New : s.id \in Nat /\ nextId <= s.id /\ s.id < nextId + n
      /\ \A s, t \in New : s.id = t.id => s = t
  BY NewRowsType DEF TypeOK, StoreTypeOK, Symbol
<1>3. \A v \in vecs : v.id \in Nat /\ v.id < nextId
  BY DEF TypeOK, StoreTypeOK, Vector, IdsNameOneRow
<1>4. \A s \in Known : s.id \in Nat /\ s.id < nextId
  BY DEF TypeOK, StoreTypeOK, Symbol, Call, Known, IdsNameOneRow
<1>5. Known' \subseteq Known \cup New /\ nextId' = nextId + n
  OBVIOUS
<1> HIDE DEF New, n
<1>6. (\A s \in Known : s.id < nextId)'
  BY <1>1, <1>2, <1>4, <1>5
<1>7. (\A v \in vecs : v.id < nextId)'
  BY <1>1, <1>3, <1>5
<1>8. (\A s, t \in Known : s.id = t.id => s = t)'
  <2> SUFFICES ASSUME NEW s \in Known', NEW t \in Known', s.id = t.id
               PROVE  s = t
    OBVIOUS
  <2>1. CASE s \in Known /\ t \in Known
    BY <2>1 DEF IdsNameOneRow
  <2>2. CASE s \in New /\ t \in New
    BY <2>2, <1>2
  <2>3. CASE (s \in Known /\ t \in New) \/ (s \in New /\ t \in Known)
    BY <2>3, <1>1, <1>2, <1>4
  <2> QED
    BY <2>1, <2>2, <2>3, <1>5
<1>9. (\A v \in vecs, s \in Known : v.id = s.id => v.decl = s.decl)'
  <2> SUFFICES ASSUME NEW v \in vecs', NEW s \in Known', v.id = s.id
               PROVE  v.decl = s.decl
    OBVIOUS
  <2>1. v \in vecs
    OBVIOUS
  <2>2. CASE s \in Known
    BY <2>1, <2>2 DEF IdsNameOneRow
  <2>3. CASE s \in New
    BY <2>1, <2>3, <1>1, <1>2, <1>3
  <2> QED
    BY <2>2, <2>3, <1>5
<1> QED
  BY <1>6, <1>7, <1>8, <1>9 DEF IdsNameOneRow

\* Known when no handler's rows grow.
LEMMA KnownSubset ==
    ASSUME TypeOK, NEW S,
           symbols' \subseteq symbols \cup S,
           \A k \in Caller : call'[k].rows \subseteq Known \cup S
    PROVE  Known' \subseteq Known \cup S
BY DEF Known

LEMMA RowsOnRest ==
    ASSUME call \in [Caller -> Call], NEW c \in Caller
    PROVE  /\ \A pc \in RestPoints : Return(c, pc) =>
                \A k \in Caller : call'[k].rows \subseteq call[k].rows
           /\ \A pc \in Points : Goto(c, pc) =>
                \A k \in Caller : call'[k].rows \subseteq call[k].rows
           /\ \A r, f : \A pc \in Points : Start(c, r, f, pc) =>
                \A k \in Caller : call'[k].rows \subseteq call[k].rows
<1>1. \A pc \in RestPoints : Return(c, pc) =>
        \A k \in Caller : call'[k].rows \subseteq call[k].rows
  BY DEF Return, Resting
<1>2. \A pc \in Points : Goto(c, pc) =>
        \A k \in Caller : call'[k].rows \subseteq call[k].rows
  BY DEF Goto, Call
<1>3. \A r, f : \A pc \in Points : Start(c, r, f, pc) =>
        \A k \in Caller : call'[k].rows \subseteq call[k].rows
  BY DEF Start, Resting
<1> QED
  BY <1>1, <1>2, <1>3

LEMMA StepIds ==
    ASSUME TypeOK, IdsNameOneRow, NEW c \in Caller, StartCall(c) \/ Step(c)
    PROVE  IdsNameOneRow'
<1>0. /\ call \in [Caller -> Call]
      /\ call[c].repo \in Repo /\ call[c].syms \in SUBSET Decl
      /\ call[c].rows \in SUBSET Symbol
  BY DEF TypeOK, Call
<1>k. /\ \A k \in Caller : call[k].rows \subseteq Known
      /\ symbols \subseteq Known
  BY DEF Known
<1>p. /\ \A pc \in {"touch", "clear", "insert", "load", "embed", "edges", "count",
                    "updateFile", "readFile", "removeFile", "parse", "failed"} :
             pc \in Points
      /\ \A pc \in {"done", "failed"} : pc \in RestPoints
  BY DEF Points, RestPoints, IndexPoints, FilePoints
\* Steps that add no row and no vector.
<1> DEFINE Shrinks == /\ symbols' \subseteq symbols /\ vecs' \subseteq vecs
                      /\ nextId' = nextId
                      /\ \A k \in Caller : call'[k].rows \subseteq Known
<1>s. ASSUME Shrinks PROVE IdsNameOneRow'
  <2>1. Known' \subseteq Known
    BY <1>s, KnownSubset DEF Known
  <2> QED
    BY <1>s, <2>1, KnownShrinks
<1>1. CASE StartCall(c)
  <2>1. ASSUME NEW r \in Repo, StartIndexRepo(c, r) PROVE Shrinks
    <3> DEFINE pc == IF trees[r] = NoDir THEN "failed" ELSE "parse"
    <3>1. pc \in Points
      BY <1>p
    <3>2. Start(c, r, Resting("idle").file, pc)
      BY <2>1 DEF StartIndexRepo
    <3> HIDE DEF pc
    <3>3. \A k \in Caller : call'[k].rows \subseteq call[k].rows
      BY <3>1, <3>2, <1>0, RowsOnRest
    <3> QED
      BY <2>1, <3>3, <1>k DEF StartIndexRepo, storeVars
  <2>2. ASSUME NEW r \in Repo, NEW f \in File, StartUpdateFile(c, r, f)
        PROVE  Shrinks
    BY <2>2, <1>0, <1>k, <1>p, RowsOnRest DEF StartUpdateFile, storeVars
  <2>3. ASSUME NEW r \in Repo, NEW f \in File, StartRemoveFile(c, r, f)
        PROVE  Shrinks
    BY <2>3, <1>0, <1>k, <1>p, RowsOnRest DEF StartRemoveFile, storeVars
  <2> QED
    BY <1>1, <1>s, <2>1, <2>2, <2>3 DEF StartCall
<1>2. CASE Parse(c)
  <2>1. \A k \in Caller : call'[k].rows \subseteq call[k].rows
    BY <1>2, <1>0 DEF Parse, Call
  <2> QED
    BY <1>2, <1>s, <1>k, <2>1 DEF Parse, storeVars
<1>3. CASE Touch(c)
  <2>1. Shrinks
    BY <1>3, <1>0, <1>k, <1>p, RowsOnRest DEF Touch, MarkAccessed, storeVars
  <2> QED
    BY <2>1, <1>s
<1>4. CASE Clear(c)
  <2>1. Shrinks
    BY <1>4, <1>0, <1>k, <1>p, RowsOnRest DEF Clear, ClearSymbols, DropVectors
  <2> QED
    BY <2>1, <1>s
<1>5. CASE Insert(c)
  <2> DEFINE New == NewRows(call[c].repo, call[c].syms, nextId)
  <2>1. /\ symbols' \subseteq symbols \cup New /\ vecs' \subseteq vecs
        /\ nextId' = nextId + Cardinality(call[c].syms)
    BY <1>5 DEF Insert, InsertSymbols
  <2>2. \A k \in Caller : call'[k].rows \subseteq Known \cup New
    BY <1>5, <1>0, <1>k, <1>p, RowsOnRest DEF Insert
  <2> HIDE DEF New
  <2>3. Known' \subseteq Known \cup New
    BY <2>1, <2>2, KnownSubset
  <2> QED
    BY <2>1, <2>3, <1>0, KnownGrows DEF New
<1>6. CASE Load(c)
  <2>1. \A k \in Caller : call'[k].rows \subseteq Known
    BY <1>6, <1>0, <1>k DEF Load, RowsOf, Call
  <2> QED
    BY <1>6, <1>s, <2>1 DEF Load, storeVars
<1>7. CASE EmbedChunk(c)
  <2> DEFINE chunk == FirstChunk(call[c].rows)
             left == call[c].rows \ chunk
  <2>1. chunk \subseteq call[c].rows /\ left \subseteq call[c].rows
    BY DEF FirstChunk
  <2>2. /\ InsertEmbeddings(chunk)
        /\ call' = [call EXCEPT ![c].rows = left, ![c].pc = EmbedOrGoOn(left)]
    BY <1>7 DEF EmbedChunk
  <2> HIDE DEF chunk, left
  <2>3. \A k \in Caller : call'[k].rows \subseteq Known
    BY <2>1, <2>2, <1>0, <1>k DEF Call
  <2>4. symbols' = symbols /\ nextId' = nextId
    BY <2>2 DEF InsertEmbeddings
  <2>5. Known' \subseteq Known
    BY <2>3, <2>4 DEF Known
  <2>6. \A v \in vecs' : v \in vecs \/ \E s \in Known : v.id = s.id /\ v.decl = s.decl
    BY <2>1, <2>2, <1>k DEF InsertEmbeddings
  <2> QED
    BY <2>4, <2>5, <2>6, KnownShrinks
<1>8. CASE InsertEdges(c)
  <2>1. Shrinks
    BY <1>8, <1>0, <1>k, <1>p, RowsOnRest DEF InsertEdges, InsertCallEdges
  <2> QED
    BY <2>1, <1>s
<1>9. CASE Count(c)
  <2>1. Shrinks
    BY <1>9, <1>0, <1>k, <1>p, RowsOnRest DEF Count, UpdateSymbolCount
  <2> QED
    BY <2>1, <1>s
<1>10. CASE ReadFile(c)
  <2>1. \A k \in Caller : call'[k].rows \subseteq call[k].rows
    BY <1>10, <1>0 DEF ReadFile, Call
  <2> QED
    BY <1>10, <1>s, <1>k, <2>1 DEF ReadFile, storeVars
<1>11. CASE UpdateFile(c)
  <2> DEFINE New == NewRows(call[c].repo, call[c].syms, nextId)
  <2>1. /\ symbols' \subseteq symbols \cup New /\ vecs' \subseteq vecs
        /\ nextId' = nextId + Cardinality(call[c].syms)
    BY <1>11 DEF UpdateFile, UpdateFileSymbols, DropVectors
  <2>2. \A k \in Caller : call'[k].rows \subseteq Known \cup New
    BY <1>11, <1>0, <1>k, <1>p, RowsOnRest DEF UpdateFile
  <2> HIDE DEF New
  <2>3. Known' \subseteq Known \cup New
    BY <2>1, <2>2, KnownSubset
  <2> QED
    BY <2>1, <2>3, <1>0, KnownGrows DEF New
<1>12. CASE RemoveFile(c)
  <2>1. Shrinks
    BY <1>12, <1>0, <1>k, <1>p, RowsOnRest
       DEF RemoveFile, RemoveFileSymbols, DropVectors
  <2> QED
    BY <2>1, <1>s
<1>13. CASE Fail(c)
  <2>1. Shrinks
    BY <1>13, <1>0, <1>k, <1>p, RowsOnRest DEF Fail, storeVars
  <2> QED
    BY <2>1, <1>s
<1> QED
  BY <1>1, <1>2, <1>3, <1>4, <1>5, <1>6, <1>7, <1>8, <1>9, <1>10, <1>11, <1>12,
     <1>13 DEF Step

LEMMA NextIds ==
    ASSUME TypeOK, IdsNameOneRow, [Next]_vars
    PROVE  IdsNameOneRow'
<1>1. ASSUME NEW c \in Caller, StartCall(c) \/ Step(c) PROVE IdsNameOneRow'
  BY <1>1, StepIds
<1>2. CASE Crash
  <2>1. \A k \in Caller : call'[k].rows \subseteq call[k].rows
    BY <1>2 DEF Crash, Resting
  <2>2. symbols' = symbols /\ vecs' = vecs /\ nextId' = nextId
    BY <1>2 DEF Crash, storeVars
  <2>3. Known' \subseteq Known
    BY <2>1, <2>2 DEF Known
  <2> QED
    BY <2>2, <2>3, KnownShrinks
<1>3. CASE (\E r \in Repo : EditTree(r)) \/ UNCHANGED vars
  <2>1. symbols' = symbols /\ vecs' = vecs /\ nextId' = nextId /\ call' = call
    BY <1>3 DEF EditTree, vars, storeVars, callVars
  <2>2. Known' = Known
    BY <2>1 DEF Known
  <2> QED
    BY <2>1, <2>2 DEF IdsNameOneRow
<1> QED
  BY <1>1, <1>2, <1>3 DEF Next

LEMMA InitIds ==
    ASSUME Init
    PROVE  IdsNameOneRow
<1>1. Known = {}
  BY DEF Init, Known, Resting
<1> QED
  BY <1>1 DEF Init, IdsNameOneRow

\* IdsNameOneRow is invariant: no id is ever handed out to two rows that are
\* both known to the table or to some handler.
THEOREM IdsNeverReused == Spec => []IdsNameOneRow
<1>1. Init => IdsNameOneRow
  BY InitIds
<1>2. TypeOK /\ IdsNameOneRow /\ [Next]_vars => IdsNameOneRow'
  BY NextIds
<1> QED
  BY <1>1, <1>2, TypeCorrect, PTL DEF Spec

\* For every number of callers, repositories and declarations, and whatever
\* calls are interleaved, fail or crash: a stored vector is the embedding of the
\* symbol that has its id.
THEOREM VectorsKeepToTheirSymbols == Spec => []VectorOfItsSymbol
<1>1. IdsNameOneRow => VectorOfItsSymbol
  BY DEF IdsNameOneRow, VectorOfItsSymbol, Known
<1> QED
  BY <1>1, IdsNeverReused, PTL

----------------------------------------------------------------------------
(* No orphan vectors, when clients keep to one call per repository.  A     *)
(* step of one call leaves the rows of every other call's repository alone *)
(* and keeps the rows it has still to embed.                               *)

NoOrphansInv == OneWriter /\ PendingRowsStored /\ NoOrphanVectors

LEMMA StartOneWriter ==
    ASSUME TypeOK, OneWriter, OnePerRepo, NEW c \in Caller, StartCall(c)
    PROVE  OneWriter'
<1>0. call \in [Caller -> Call]
  BY DEF TypeOK
<1>1. PICK r \in Repo, f \in File, pc \in Points :
         /\ Start(c, r, f, pc)
         /\ \A k \in Caller : Active(k) => call[k].repo # r
  <2>1. ASSUME NEW r \in Repo, StartIndexRepo(c, r)
        PROVE  \E f \in File, pc \in Points :
                  /\ Start(c, r, f, pc)
                  /\ \A k \in Caller : Active(k) => call[k].repo # r
    <3> DEFINE pc == IF trees[r] = NoDir THEN "failed" ELSE "parse"
    <3>1. pc \in Points /\ "idle" \in Points
      BY DEF Points, RestPoints, IndexPoints
    <3>2. Resting("idle").file \in File
      BY <3>1, RestingType DEF Call
    <3>3. Start(c, r, Resting("idle").file, pc)
      BY <2>1 DEF StartIndexRepo
    <3> HIDE DEF pc
    <3> QED
      BY <2>1, <3>1, <3>2, <3>3 DEF StartIndexRepo, CanStart
  <2>2. "readFile" \in Points /\ "removeFile" \in Points
    BY DEF Points, FilePoints
  <2> QED
    BY <2>1, <2>2 DEF StartCall, StartUpdateFile, StartRemoveFile, CanStart
<1>2. \A k \in Caller : k # c => call'[k] = call[k]
  BY <1>0, <1>1 DEF Start
<1>3. call'[c].repo = r
  BY <1>0, <1>1 DEF Start, Resting
<1> QED
  BY <1>1, <1>2, <1>3 DEF OneWriter, Active

\* What a step of c does to the calls: the others stay, c keeps its repo or rests.
LEMMA StepCalls ==
    ASSUME TypeOK, NEW c \in Caller, Step(c)
    PROVE  /\ \A k \in Caller : k # c => call'[k] = call[k]
           /\ call'[c].pc \in RestPoints \/ call'[c].repo = call[c].repo
           /\ Active(c)
<1>0. call \in [Caller -> Call]
  BY DEF TypeOK
<1> DEFINE Kept == /\ \A k \in Caller : k # c => call'[k] = call[k]
                   /\ call'[c].pc \in RestPoints \/ call'[c].repo = call[c].repo
<1>1. ASSUME NEW pc, Goto(c, pc) PROVE Kept
  BY <1>0, <1>1 DEF Goto, Call
<1>2. ASSUME NEW pc \in RestPoints, Return(c, pc) PROVE Kept
  BY <1>0, <1>2 DEF Return, Resting
<1>3. CASE Parse(c) \/ Load(c) \/ EmbedChunk(c) \/ ReadFile(c)
  <2>1. Kept
    BY <1>3, <1>0 DEF Parse, Load, EmbedChunk, ReadFile, Call
  <2>2. Active(c)
    BY <1>3 DEF Parse, Load, EmbedChunk, ReadFile, At, Active, RestPoints
  <2> QED
    BY <2>1, <2>2
<1>4. CASE Touch(c) \/ Clear(c) \/ Insert(c) \/ InsertEdges(c)
  BY <1>4, <1>1
     DEF Touch, Clear, Insert, InsertEdges, At, Active, RestPoints
<1>5. CASE Count(c) \/ UpdateFile(c) \/ RemoveFile(c) \/ Fail(c)
  <2>1. "done" \in RestPoints /\ "failed" \in RestPoints
    BY DEF RestPoints
  <2>2. Kept
    BY <1>5, <1>2, <2>1 DEF Count, UpdateFile, RemoveFile, Fail
  <2>3. Active(c)
    BY <1>5 DEF Count, UpdateFile, RemoveFile, Fail, At, Active, RestPoints
  <2> QED
    BY <2>2, <2>3
<1> QED
  BY <1>3, <1>4, <1>5 DEF Step

LEMMA StepOneWriter ==
    ASSUME TypeOK, OneWriter, NEW c \in Caller, Step(c)
    PROVE  OneWriter'
BY StepCalls DEF OneWriter, Active

\* How a step of c may change the tables: it deletes symbols of its own
\* repository only, together with their vectors, and adds vectors only for
\* symbols that stay.
OwnRowsOnly(c) ==
    /\ \A s \in symbols : s \in symbols' \/ s.repo = call[c].repo
    /\ \A v \in vecs' : v \in vecs \/ \E s \in symbols' : s.id = v.id
    /\ \A v \in vecs', s \in symbols : s.id = v.id => s \in symbols'

LEMMA StepOwnRows ==
    ASSUME TypeOK, PendingRowsStored, NEW c \in Caller, Step(c)
    PROVE  OwnRowsOnly(c)
<1> DEFINE r == call[c].repo
           f == call[c].file
<1>1. ASSUME symbols' = symbols, vecs' = vecs PROVE OwnRowsOnly(c)
  BY <1>1 DEF OwnRowsOnly
<1>2. CASE Parse(c) \/ Load(c) \/ ReadFile(c) \/ Fail(c)
  BY <1>2, <1>1 DEF Parse, Load, ReadFile, Fail, storeVars
<1>3. CASE Touch(c) \/ InsertEdges(c) \/ Count(c)
  BY <1>3, <1>1 DEF Touch, InsertEdges, Count, storeVars,
                    MarkAccessed, InsertCallEdges, UpdateSymbolCount
<1>4. CASE Clear(c)
  BY <1>4 DEF Clear, ClearSymbols, OwnRowsOnly, RowsOf, DropVectors, Ids
<1>5. CASE Insert(c)
  BY <1>5 DEF Insert, InsertSymbols, OwnRowsOnly
<1>6. CASE EmbedChunk(c)
  <2>1. FirstChunk(call[c].rows) \subseteq symbols
    BY DEF FirstChunk, PendingRowsStored, RowsOf
  <2>2. InsertEmbeddings(FirstChunk(call[c].rows))
    BY <1>6 DEF EmbedChunk
  <2> QED
    BY <2>1, <2>2 DEF InsertEmbeddings, OwnRowsOnly
<1>7. CASE UpdateFile(c)
  <2>1. UpdateFileSymbols(r, f, call[c].syms, call[c].calls)
    BY <1>7 DEF UpdateFile
  <2> QED
    BY <2>1 DEF UpdateFileSymbols, OwnRowsOnly, FileRowsOf, RowsOf, DropVectors, Ids
<1>8. CASE RemoveFile(c)
  <2>1. RemoveFileSymbols(r, f)
    BY <1>8 DEF RemoveFile
  <2> QED
    BY <2>1 DEF RemoveFileSymbols, OwnRowsOnly, FileRowsOf, RowsOf, DropVectors, Ids
<1> QED
  BY <1>2, <1>3, <1>4, <1>5, <1>6, <1>7, <1>8 DEF Step

\* The rows c itself has still to embed, after its own step.
LEMMA StepPendingSelf ==
    ASSUME TypeOK, PendingRowsStored, NEW c \in Caller, Step(c)
    PROVE  /\ call'[c].rows # {} => call'[c].pc = "embed"
           /\ call'[c].rows \subseteq {s \in symbols' : s.repo = call'[c].repo}
<1> DEFINE Ok == /\ call'[c].rows # {} => call'[c].pc = "embed"
                 /\ call'[c].rows \subseteq {s \in symbols' : s.repo = call'[c].repo}
<1>0. call \in [Caller -> Call]
  BY DEF TypeOK
<1>1. ASSUME NEW pc, Return(c, pc) PROVE Ok
  BY <1>0, <1>1 DEF Return, Resting
<1>2. ASSUME call[c].pc # "embed", call'[c].rows = call[c].rows PROVE Ok
  BY <1>2 DEF PendingRowsStored, At
<1>3. CASE Parse(c) \/ ReadFile(c)
  <2>1. /\ call[c].pc # "embed"
        /\ call'[c].rows = call[c].rows
        /\ call'[c].repo = call[c].repo
        /\ symbols' = symbols
    <3>1. CASE Parse(c)
      BY <3>1, <1>0 DEF Parse, Call, At, storeVars
    <3>2. CASE ReadFile(c)
      BY <3>2, <1>0 DEF ReadFile, Call, At, storeVars
    <3> QED
      BY <1>3, <3>1, <3>2
  <2> QED
    BY <2>1, <1>2
<1>4. CASE Touch(c) \/ Clear(c) \/ Insert(c) \/ InsertEdges(c)
  BY <1>4, <1>2, <1>0 DEF Touch, Clear, Insert, InsertEdges, Goto, Call, At
<1>5. CASE Count(c) \/ UpdateFile(c) \/ RemoveFile(c) \/ Fail(c)
  BY <1>5, <1>1 DEF Count, UpdateFile, RemoveFile, Fail
<1>6. CASE Load(c)
  BY <1>6, <1>0 DEF Load, EmbedOrGoOn, RowsOf, storeVars, Call
<1>7. CASE EmbedChunk(c)
  <2> DEFINE left == call[c].rows \ FirstChunk(call[c].rows)
  <2>1. /\ call' = [call EXCEPT ![c].rows = left, ![c].pc = EmbedOrGoOn(left)]
        /\ symbols' = symbols
    BY <1>7 DEF EmbedChunk, InsertEmbeddings
  <2>2. left \subseteq RowsOf(call[c].repo)
    BY DEF PendingRowsStored
  <2> HIDE DEF left
  <2> QED
    BY <2>1, <2>2, <1>0 DEF EmbedOrGoOn, RowsOf, Call
<1> QED
  BY <1>3, <1>4, <1>5, <1>6, <1>7 DEF Step

LEMMA StepNoOrphans ==
    ASSUME TypeOK, NoOrphansInv, NEW c \in Caller, Step(c)
    PROVE  NoOrphansInv'
<1> USE DEF NoOrphansInv
<1>1. OwnRowsOnly(c)
  BY StepOwnRows
<1>2. PendingRowsStored'
  <2>1. ASSUME NEW k \in Caller, k # c
        PROVE  /\ call'[k].rows # {} => call'[k].pc = "embed"
               /\ call'[k].rows \subseteq {s \in symbols' : s.repo = call'[k].repo}
    <3>1. call'[k] = call[k] /\ Active(c)
      BY <2>1, StepCalls
    <3>2. CASE call[k].rows = {}
      BY <3>1, <3>2
    <3>3. CASE call[k].rows # {}
      <4>1. Active(k) /\ call[k].pc = "embed"
        BY <3>3 DEF PendingRowsStored, At, Active, RestPoints
      <4>2. call[k].repo # call[c].repo
        BY <2>1, <3>1, <4>1 DEF OneWriter
      <4> QED
        BY <1>1, <3>1, <4>1, <4>2 DEF PendingRowsStored, RowsOf, OwnRowsOnly
    <3> QED
      BY <3>2, <3>3
  <2>2. \A k \in Caller :
           /\ call'[k].rows # {} => call'[k].pc = "embed"
           /\ call'[k].rows \subseteq {s \in symbols' : s.repo = call'[k].repo}
    BY <2>1, StepPendingSelf
  <2> QED
    BY <2>2 DEF PendingRowsStored, At, RowsOf
<1>3. NoOrphanVectors'
  BY <1>1 DEF NoOrphanVectors, OwnRowsOnly
<1> QED
  BY <1>2, <1>3, StepOneWriter

LEMMA StartNoOrphans ==
    ASSUME TypeOK, NoOrphansInv, OnePerRepo, NEW c \in Caller, StartCall(c)
    PROVE  NoOrphansInv'
<1> USE DEF NoOrphansInv
<1>0. call \in [Caller -> Call]
  BY DEF TypeOK
<1>1. symbols' = symbols /\ vecs' = vecs
  BY DEF StartCall, StartIndexRepo, StartUpdateFile, StartRemoveFile, storeVars
<1>2. /\ \A k \in Caller : k # c => call'[k] = call[k]
      /\ call'[c].rows = {}
  BY <1>0 DEF StartCall, StartIndexRepo, StartUpdateFile, StartRemoveFile,
              Start, Resting
<1>3. PendingRowsStored'
  BY <1>1, <1>2 DEF PendingRowsStored, At, RowsOf
<1>4. NoOrphanVectors'
  BY <1>1 DEF NoOrphanVectors
<1> QED
  BY <1>3, <1>4, StartOneWriter

LEMMA NextNoOrphans ==
    ASSUME TypeOK, NoOrphansInv, OnePerRepo, [Next]_vars
    PROVE  NoOrphansInv'
<1>1. ASSUME NEW c \in Caller, StartCall(c) \/ Step(c) PROVE NoOrphansInv'
  BY <1>1, StartNoOrphans, StepNoOrphans
<1>2. CASE Crash
  <2>1. symbols' = symbols /\ vecs' = vecs
    BY <1>2 DEF Crash, storeVars
  <2>2. \A k \in Caller : call'[k] = call[k] \/ call'[k] = Resting("failed")
    BY <1>2 DEF Crash
  <2>3. Resting("failed").rows = {} /\ Resting("failed").pc \in RestPoints
    BY DEF Resting, RestPoints
  <2> QED
    BY <2>1, <2>2, <2>3 DEF NoOrphansInv, OneWriter, Active, PendingRowsStored,
                            At, RowsOf, NoOrphanVectors
<1>3. CASE (\E r \in Repo : EditTree(r)) \/ UNCHANGED vars
  BY <1>3 DEF EditTree, vars, storeVars, callVars, NoOrphansInv, OneWriter,
              Active, PendingRowsStored, At, RowsOf, NoOrphanVectors
<1> QED
  BY <1>1, <1>2, <1>3 DEF Next

LEMMA InitNoOrphans ==
    ASSUME Init
    PROVE  NoOrphansInv
BY DEF Init, NoOrphansInv, OneWriter, Active, RestPoints, Resting,
       PendingRowsStored, RowsOf, NoOrphanVectors

\* When clients have at most one call per repository in flight, every vector has
\* its symbol, whatever calls for other repositories do and wherever calls fail
\* or crash.
THEOREM NoOrphansWithOneWriter ==
    ASSUME OnePerRepo
    PROVE  Spec => []NoOrphanVectors
<1>1. Init => NoOrphansInv
  BY InitNoOrphans
<1>2. TypeOK /\ NoOrphansInv /\ [Next]_vars => NoOrphansInv'
  BY NextNoOrphans
<1>3. NoOrphansInv => NoOrphanVectors
  BY DEF NoOrphansInv
<1> QED
  BY <1>1, <1>2, <1>3, TypeCorrect, PTL DEF Spec

----------------------------------------------------------------------------
(* An undisturbed index_repo is complete.  What it has built so far, from  *)
(* its DELETE to its last transaction, as long as no other step changed    *)
(* the index of its repository.  No discipline between callers is assumed: *)
(* whoever interferes is seen by the history variable.                     *)

HasVector(s) == \E v \in vecs : v.id = s.id /\ v.decl = s.decl

BuiltSoFar(c) ==
    LET r == call[c].repo
    IN  /\ At(c, "insert") => RowsOf(r) = {}
        /\ call[c].pc \in UntilEdges => \A d \in Decl : edges[<<r, d>>] = 0
        /\ call[c].pc \in {"load", "embed", "edges", "count"} =>
              /\ {s.decl : s \in RowsOf(r)} = call[c].syms
              /\ \A s, t \in RowsOf(r) : s.decl = t.decl => s = t
        /\ At(c, "embed") =>
              /\ call[c].rows \subseteq RowsOf(r)
              /\ \A s \in RowsOf(r) \ call[c].rows : HasVector(s)
        /\ call[c].pc \in {"edges", "count"} => \A s \in RowsOf(r) : HasVector(s)
        /\ At(c, "count") =>
              \A d \in Decl : edges[<<r, d>>] = IF d \in call[c].calls THEN 1 ELSE 0

UndisturbedInv ==
    \A c \in Caller : call[c].pc \in AfterClear /\ ~disturbed[c] => BuiltSoFar(c)

\* A call that does not move keeps what it has built if the content of its
\* repository stays.
LEMMA BuiltKept ==
    ASSUME NEW k \in Caller, NEW r \in Repo, BuiltSoFar(k),
           call'[k] = call[k], call[k].repo = r, ContentOf(r)' = ContentOf(r)
    PROVE  BuiltSoFar(k)'
<1> DEFINE Of == {v \in vecs : v.id \in Ids(RowsOf(r))}
           Out == [d \in Decl |-> edges[<<r, d>>]]
<1>1. RowsOf(r)' = RowsOf(r) /\ Of' = Of /\ Out' = Out
  BY DEF ContentOf
<1>2. \A d \in Decl : edges'[<<r, d>>] = edges[<<r, d>>]
  <2>1. \A d \in Decl : Out[d] = edges[<<r, d>>] /\ (Out')[d] = edges'[<<r, d>>]
    OBVIOUS
  <2> HIDE DEF Out
  <2> QED
    BY <1>1, <2>1
<1>3. \A s \in RowsOf(r) : HasVector(s) => HasVector(s)'
  <2> SUFFICES ASSUME NEW s \in RowsOf(r), NEW v \in vecs,
                      v.id = s.id, v.decl = s.decl
               PROVE  v \in vecs'
    BY DEF HasVector
  <2>1. v \in Of
    BY DEF Ids
  <2> QED
    BY <1>1, <2>1
<1> QED
  BY <1>1, <1>2, <1>3 DEF BuiltSoFar, At, RowsOf, UntilEdges

\* A call that is not past its DELETE has nothing to show.
LEMMA NothingBuilt ==
    ASSUME NEW k \in Caller, call'[k].pc \notin AfterClear
    PROVE  BuiltSoFar(k)'
BY DEF BuiltSoFar, At, UntilEdges, AfterClear

LEMMA StepBuilt ==
    ASSUME TypeOK, NEW c \in Caller, Step(c),
           call[c].pc \in AfterClear => BuiltSoFar(c)
    PROVE  BuiltSoFar(c)'
<1>0. /\ call \in [Caller -> Call]
      /\ edges \in [Repo \X Decl -> Nat]
  BY DEF TypeOK, StoreTypeOK
<1>r. PICK r \in Repo : call[c].repo = r
  BY <1>0 DEF Call
<1>1. CASE Parse(c) \/ Touch(c) \/ ReadFile(c)
  <2>1. call'[c].pc \in {"touch", "clear", "updateFile"}
    <3>1. CASE Parse(c) \/ Touch(c)
      BY <3>1, <1>0, <1>r DEF Parse, Touch, Goto, Call
    <3>2. CASE ReadFile(c)
      BY <3>2, <1>0, <1>r DEF ReadFile, Call
    <3> QED
      BY <1>1, <3>1, <3>2
  <2> QED
    BY <2>1, NothingBuilt DEF AfterClear
<1>2. CASE Count(c) \/ UpdateFile(c) \/ RemoveFile(c) \/ Fail(c)
  <2>1. call'[c].pc \in {"done", "failed"}
    BY <1>2, <1>0, <1>r DEF Count, UpdateFile, RemoveFile, Fail, Return, Resting
  <2> QED
    BY <2>1, NothingBuilt DEF AfterClear
<1>3. CASE Clear(c)
  <2>1. /\ call'[c].pc = "insert" /\ call'[c].repo = r
        /\ symbols' = symbols \ RowsOf(r) /\ edges' = DropEdges(r, Decl)
    BY <1>3, <1>0, <1>r DEF Clear, ClearSymbols, Goto, Call
  <2>2. \A d \in Decl : edges'[<<r, d>>] = 0
    BY <2>1, <1>0, <1>r DEF DropEdges
  <2> QED
    BY <2>1, <2>2, <1>r DEF BuiltSoFar, At, RowsOf
<1>4. CASE Insert(c)
  <2> DEFINE New == NewRows(r, call[c].syms, nextId)
  <2>1. /\ call[c].pc = "insert" /\ call'[c].pc = "load" /\ call'[c].repo = r
        /\ call'[c].syms = call[c].syms
        /\ symbols' = symbols \cup New /\ edges' = edges
    BY <1>4, <1>0, <1>r DEF Insert, InsertSymbols, Goto, Call, At
  <2>2. /\ \A s \in New : s.repo = r /\ s.decl \in call[c].syms
        /\ \A d \in call[c].syms : \E s \in New : s.decl = d
        /\ \A s, t \in New : s.decl = t.decl => s = t
    BY NewRowsOf
  <2>3. RowsOf(r) = {} /\ \A d \in Decl : edges[<<r, d>>] = 0
    BY <2>1, <1>r DEF BuiltSoFar, At, AfterClear, UntilEdges
  <2> HIDE DEF New
  <2>4. {s \in symbols' : s.repo = r} = New
    BY <2>1, <2>2, <2>3 DEF RowsOf
  <2>v. RowsOf(call[c].repo)' = RowsOf(r)' /\ RowsOf(call[c].repo) = RowsOf(r)
    BY <2>1, <1>r DEF RowsOf
  <2>5. {s.decl : s \in New} = call[c].syms
    BY <2>2
  <2>6. RowsOf(r)' = New
    BY <2>4 DEF RowsOf
  <2>7. {s.decl : s \in RowsOf(r)}' = call'[c].syms
    BY <2>1, <2>5, <2>6
  <2>8. (\A s, t \in RowsOf(r) : s.decl = t.decl => s = t)'
    BY <2>2, <2>6
  <2> QED
    BY <2>1, <2>3, <2>7, <2>8, <2>v, <1>r DEF BuiltSoFar, At, UntilEdges
<1>5. CASE Load(c)
  <2>1. /\ call[c].pc = "load" /\ call'[c].repo = r
        /\ call'[c].syms = call[c].syms
        /\ call'[c].pc = EmbedOrGoOn(RowsOf(r)) /\ call'[c].rows = RowsOf(r)
        /\ UNCHANGED <<symbols, vecs, edges>>
    BY <1>5, <1>0, <1>r DEF Load, Call, At, storeVars
  <2>2. BuiltSoFar(c)
    BY <2>1 DEF AfterClear
  <2>3. call'[c].pc \in {"embed", "edges"} /\ (call'[c].pc = "edges" => RowsOf(r) = {})
    BY <2>1 DEF EmbedOrGoOn
  <2>v. RowsOf(call[c].repo)' = RowsOf(r)' /\ RowsOf(call[c].repo) = RowsOf(r)
    BY <2>1, <1>r DEF RowsOf
  <2>4. RowsOf(r)' = RowsOf(r)
    BY <2>1 DEF RowsOf
  <2> QED
    BY <2>1, <2>2, <2>3, <2>4, <2>v, <1>r DEF BuiltSoFar, At, UntilEdges
<1>6. CASE EmbedChunk(c)
  <2> DEFINE chunk == FirstChunk(call[c].rows)
             left == call[c].rows \ chunk
  <2>0. /\ InsertEmbeddings(chunk)
        /\ call' = [call EXCEPT ![c].rows = left, ![c].pc = EmbedOrGoOn(left)]
        /\ call[c].pc = "embed"
    BY <1>6 DEF EmbedChunk, At
  <2> HIDE DEF chunk
  <2>1. /\ call'[c].repo = r /\ call'[c].syms = call[c].syms
        /\ call'[c].pc = EmbedOrGoOn(left) /\ call'[c].rows = left
        /\ UNCHANGED <<symbols, edges>>
    BY <2>0, <1>0, <1>r DEF Call, InsertEmbeddings
  <2>2. BuiltSoFar(c)
    BY <2>0 DEF AfterClear
  <2>3. call'[c].pc \in {"embed", "edges"} /\ (call'[c].pc = "edges" => left = {})
    BY <2>1 DEF EmbedOrGoOn
  <2>4. call[c].rows \subseteq RowsOf(r) /\ left \subseteq RowsOf(r)
    BY <2>0, <2>2, <1>r DEF BuiltSoFar, At
  <2>5. \A s \in RowsOf(r) \ left : HasVector(s)'
    <3> SUFFICES ASSUME NEW s \in RowsOf(r) \ left PROVE HasVector(s)'
      OBVIOUS
    <3>1. CASE s \in chunk
      <4>1. [id |-> s.id, decl |-> s.decl] \in vecs'
        BY <2>0, <3>1 DEF InsertEmbeddings
      <4> QED
        BY <4>1 DEF HasVector
    <3>2. CASE s \notin chunk
      <4>1. HasVector(s)
        BY <3>2, <2>0, <2>2, <1>r DEF BuiltSoFar, At
      <4> QED
        BY <4>1, <2>0 DEF HasVector, InsertEmbeddings
    <3> QED
      BY <3>1, <3>2
  <2>v. RowsOf(call[c].repo)' = RowsOf(r)' /\ RowsOf(call[c].repo) = RowsOf(r)
    BY <2>1, <1>r DEF RowsOf
  <2>6. RowsOf(r)' = RowsOf(r)
    BY <2>1 DEF RowsOf
  <2> HIDE DEF left
  <2>7. /\ {s.decl : s \in RowsOf(r)} = call[c].syms
        /\ \A s, t \in RowsOf(r) : s.decl = t.decl => s = t
        /\ \A d \in Decl : edges[<<r, d>>] = 0
    BY <2>0, <2>2, <2>v, <1>r DEF BuiltSoFar, At, UntilEdges
  <2>8. CASE call'[c].pc = "embed"
    BY <2>8, <2>1, <2>4, <2>5, <2>6, <2>7, <2>v DEF BuiltSoFar, At, UntilEdges
  <2>9. CASE call'[c].pc = "edges"
    BY <2>9, <2>1, <2>3, <2>5, <2>6, <2>7, <2>v DEF BuiltSoFar, At, UntilEdges
  <2> QED
    BY <2>3, <2>8, <2>9
<1>7. CASE InsertEdges(c)
  <2>1. /\ call[c].pc = "edges" /\ call'[c].pc = "count" /\ call'[c].repo = r
        /\ call'[c].syms = call[c].syms /\ call'[c].calls = call[c].calls
        /\ UNCHANGED <<symbols, vecs>> /\ edges' = AddEdges(edges, r, call[c].calls)
    BY <1>7, <1>0, <1>r DEF InsertEdges, InsertCallEdges, Goto, Call, At
  <2>2. BuiltSoFar(c)
    BY <2>1 DEF AfterClear
  <2>3. \A d \in Decl : edges'[<<r, d>>] = IF d \in call[c].calls THEN 1 ELSE 0
    <3>1. \A d \in Decl : edges[<<r, d>>] = 0
      BY <2>1, <2>2, <1>r DEF BuiltSoFar, UntilEdges
    <3>2. \A d \in Decl : <<r, d>> \in DOMAIN edges
      BY <1>0
    <3>3. \A d \in Decl :
            edges'[<<r, d>>] = IF d \in call[c].calls THEN edges[<<r, d>>] + 1 ELSE edges[<<r, d>>]
      BY <2>1, <3>2 DEF AddEdges
    <3> QED
      BY <3>1, <3>3
  <2>v. RowsOf(call[c].repo)' = RowsOf(r)' /\ RowsOf(call[c].repo) = RowsOf(r)
    BY <2>1, <1>r DEF RowsOf
  <2>4. RowsOf(r)' = RowsOf(r) /\ \A s \in RowsOf(r) : HasVector(s)'
    BY <2>1, <2>2, <1>r DEF BuiltSoFar, RowsOf, HasVector
  <2> QED
    BY <2>1, <2>2, <2>3, <2>4, <2>v, <1>r DEF BuiltSoFar, At, UntilEdges
<1> QED
  BY <1>1, <1>2, <1>3, <1>4, <1>5, <1>6, <1>7 DEF Step

LEMMA NextUndisturbed ==
    ASSUME TypeOK, UndisturbedInv, [Next]_vars
    PROVE  UndisturbedInv'
<1>0. call \in [Caller -> Call]
  BY DEF TypeOK
<1>1. ASSUME NEW c \in Caller, StartCall(c) \/ Step(c), Track(c)
      PROVE  UndisturbedInv'
  <2> SUFFICES ASSUME NEW k \in Caller, call'[k].pc \in AfterClear, ~disturbed'[k]
               PROVE  BuiltSoFar(k)'
    BY DEF UndisturbedInv, AfterClear
  <2>1. /\ ~disturbed[k]
        /\ \A r \in {call[k].repo} : k = c \/ ContentOf(r)' = ContentOf(r)
    BY <1>1 DEF Track
  <2>2. CASE k = c
    <3>1. CASE Step(c)
      BY <2>1, <2>2, <3>1, StepBuilt DEF UndisturbedInv
    <3>2. CASE StartCall(c)
      <4>1. call'[c].pc \in {"failed", "parse", "readFile", "removeFile"}
        BY <3>2, <1>0 DEF StartCall, StartIndexRepo, StartUpdateFile,
                          StartRemoveFile, Start, Resting
      <4> QED
        BY <2>2, <4>1 DEF AfterClear
    <3> QED
      BY <1>1, <3>1, <3>2
  <2>3. CASE k # c
    <3>1. call'[k] = call[k]
      <4>1. CASE Step(c)
        BY <2>3, <4>1, StepCalls
      <4>2. CASE StartCall(c)
        BY <2>3, <4>2, <1>0 DEF StartCall, StartIndexRepo, StartUpdateFile,
                                StartRemoveFile, Start
      <4> QED
        BY <1>1, <4>1, <4>2
    <3>2. PICK r \in Repo : r = call[k].repo
      BY <1>0 DEF Call
    <3>3. ContentOf(r)' = ContentOf(r)
      BY <2>1, <2>3, <3>2
    <3>4. BuiltSoFar(k)
      BY <2>1, <3>1 DEF UndisturbedInv
    <3> QED
      BY <3>1, <3>2, <3>3, <3>4, BuiltKept
  <2> QED
    BY <2>2, <2>3
<1>2. ASSUME UNCHANGED <<storeVars, disturbed>>,
             \A k \in Caller : call'[k] = call[k] \/ call'[k].pc \notin AfterClear
      PROVE  UndisturbedInv'
  <2> SUFFICES ASSUME NEW k \in Caller, call'[k].pc \in AfterClear, ~disturbed'[k]
               PROVE  BuiltSoFar(k)'
    BY DEF UndisturbedInv, AfterClear
  <2>1. PICK r \in Repo : r = call[k].repo
    BY <1>0 DEF Call
  <2>2. ContentOf(r)' = ContentOf(r)
    BY <1>2 DEF ContentOf, RowsOf, Ids, storeVars
  <2>3. call'[k] = call[k] /\ BuiltSoFar(k)
    BY <1>2 DEF UndisturbedInv
  <2> QED
    BY <2>1, <2>2, <2>3, BuiltKept
<1>3. CASE Crash
  <2>1. \A k \in Caller : call'[k].pc \notin AfterClear
    BY <1>3 DEF Crash, Resting, Active, RestPoints, AfterClear
  <2> QED
    BY <2>1 DEF UndisturbedInv, AfterClear
<1>4. CASE (\E r \in Repo : EditTree(r)) \/ UNCHANGED vars
  BY <1>2, <1>4 DEF EditTree, vars, callVars
<1> QED
  BY <1>1, <1>3, <1>4 DEF Next

\* For every number of callers, with no rule about who may call what when: an
\* index_repo that is about to report success, and whose repository nobody else
\* has written to since its DELETE, leaves each symbol it parsed once, with its
\* vector, and each call edge once.
THEOREM UndisturbedIndexesAreComplete == Spec => []UndisturbedIndexIsComplete
<1>1. Init => UndisturbedInv
  BY DEF Init, UndisturbedInv, Resting, AfterClear
<1>2. TypeOK /\ UndisturbedInv /\ [Next]_vars => UndisturbedInv'
  BY NextUndisturbed
<1>3. UndisturbedInv => UndisturbedIndexIsComplete
  BY DEF UndisturbedInv, UndisturbedIndexIsComplete, BuiltSoFar, IndexComplete,
         HasVector, At, AfterClear
<1> QED
  BY <1>1, <1>2, <1>3, TypeCorrect, PTL DEF Spec
=============================================================================
