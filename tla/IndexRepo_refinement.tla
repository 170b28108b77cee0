------------------------ MODULE IndexRepo_refinement ------------------------
(***************************************************************************)
(* Proofs that rest on one call per repository at a time: index_repo       *)
(* inserts into an empty repository, so nothing is stored twice, the three *)
(* tools implement AtomicIndex, and other repositories are left alone.     *)
(***************************************************************************)
EXTENDS IndexRepo_proofs

EmptyInv == OneWriter /\ PendingRowsStored /\ InsertsIntoEmpty

----------------------------------------------------------------------------
(* A step of a call changes the rows and edges of its own repository only. *)

LEMMA StepOwnTables ==
    ASSUME TypeOK, NEW c \in Caller, Step(c), NEW p \in Repo, p # call[c].repo
    PROVE  /\ RowsOf(p)' = RowsOf(p)
           /\ \A d \in Decl : edges'[<<p, d>>] = edges[<<p, d>>]
<1> DEFINE r == call[c].repo
           f == call[c].file
           Same == /\ RowsOf(p)' = RowsOf(p)
                   /\ \A d \in Decl : edges'[<<p, d>>] = edges[<<p, d>>]
<1>0. /\ edges \in [Repo \X Decl -> Nat] /\ r \in Repo
  BY DEF TypeOK, StoreTypeOK, Call
<1>1. CASE Parse(c) \/ Load(c) \/ ReadFile(c) \/ Fail(c)
  BY <1>1 DEF Parse, Load, ReadFile, Fail, storeVars, RowsOf
<1>2. CASE Touch(c) \/ Count(c) \/ EmbedChunk(c)
  BY <1>2 DEF Touch, Count, EmbedChunk, storeVars, RowsOf,
              MarkAccessed, UpdateSymbolCount, InsertEmbeddings
<1>3. CASE Clear(c)
  <2>1. symbols' = symbols \ RowsOf(r) /\ edges' = DropEdges(r, Decl)
    BY <1>3 DEF Clear, ClearSymbols
  <2>2. \A d \in Decl : edges'[<<p, d>>] = edges[<<p, d>>]
    BY <2>1, <1>0 DEF DropEdges
  <2> QED
    BY <2>1, <2>2 DEF RowsOf
<1>4. CASE Insert(c)
  <2>1. /\ symbols' = symbols \cup NewRows(r, call[c].syms, nextId)
        /\ edges' = edges
    BY <1>4 DEF Insert, InsertSymbols
  <2> QED
    BY <2>1, NewRowsOf DEF RowsOf
<1>5. CASE InsertEdges(c)
  <2>1. symbols' = symbols /\ edges' = AddEdges(edges, r, call[c].calls)
    BY <1>5 DEF InsertEdges, InsertCallEdges
  <2>2. \A d \in Decl : edges'[<<p, d>>] = edges[<<p, d>>]
    BY <2>1, <1>0 DEF AddEdges
  <2> QED
    BY <2>1, <2>2 DEF RowsOf
<1>6. CASE UpdateFile(c)
  <2>1. /\ symbols' = (symbols \ FileRowsOf(r, f)) \cup NewRows(r, call[c].syms, nextId)
        /\ edges' = AddEdges(DropEdges(r, DeclsIn(f)), r, call[c].calls)
    BY <1>6 DEF UpdateFile, UpdateFileSymbols
  <2>2. \A d \in Decl : edges'[<<p, d>>] = edges[<<p, d>>]
    BY <2>1, <1>0 DEF DropEdges, AddEdges
  <2>3. \A s \in NewRows(r, call[c].syms, nextId) : s.repo = r
    BY NewRowsOf
  <2> HIDE DEF r, f
  <2> QED
    BY <2>1, <2>2, <2>3 DEF RowsOf, FileRowsOf, r
<1>7. CASE RemoveFile(c)
  <2>1. symbols' = symbols \ FileRowsOf(r, f) /\ edges' = DropEdges(r, DeclsIn(f))
    BY <1>7 DEF RemoveFile, RemoveFileSymbols
  <2>2. \A d \in Decl : edges'[<<p, d>>] = edges[<<p, d>>]
    BY <2>1, <1>0 DEF DropEdges
  <2> QED
    BY <2>1, <2>2 DEF RowsOf, FileRowsOf
<1> QED
  BY <1>1, <1>2, <1>3, <1>4, <1>5, <1>6, <1>7 DEF Step

----------------------------------------------------------------------------
(* index_repo inserts into an empty repository.                            *)

\* What InsertsIntoEmpty says of one call.
EmptyFor(c) ==
    /\ At(c, "insert") => RowsOf(call[c].repo) = {}
    /\ call[c].pc \in UntilEdges => \A d \in Decl : edges[<<call[c].repo, d>>] = 0
    /\ At(c, "updateFile") =>
          call[c].syms \cup call[c].calls \subseteq DeclsIn(call[c].file)

LEMMA SameEmpty ==
    ASSUME NEW k \in Caller, EmptyFor(k), call'[k] = call[k],
           RowsOf(call[k].repo)' = RowsOf(call[k].repo),
           \A d \in Decl : edges'[<<call[k].repo, d>>] = edges[<<call[k].repo, d>>]
    PROVE  EmptyFor(k)'
BY DEF EmptyFor, At, DeclsIn, UntilEdges

LEMMA RestEmpty ==
    ASSUME NEW k \in Caller, call'[k].pc \notin UntilEdges \cup {"updateFile"}
    PROVE  EmptyFor(k)'
BY DEF EmptyFor, At, UntilEdges

LEMMA StepEmptySelf ==
    ASSUME TypeOK, NEW c \in Caller, EmptyFor(c), Step(c)
    PROVE  EmptyFor(c)'
<1> DEFINE r == call[c].repo
<1>0. /\ call \in [Caller -> Call] /\ r \in Repo
      /\ edges \in [Repo \X Decl -> Nat]
  BY DEF TypeOK, StoreTypeOK, Call
<1>1. call'[c].pc \notin UntilEdges \cup {"updateFile"} => EmptyFor(c)'
  BY RestEmpty
<1>2. CASE Parse(c) \/ Touch(c)
  <2>1. call'[c].pc \in {"touch", "clear"}
    BY <1>2, <1>0 DEF Parse, Touch, Goto, Call
  <2> QED
    BY <2>1, <1>1 DEF UntilEdges
<1>3. CASE Clear(c)
  <2>1. /\ call'[c].pc = "insert" /\ call'[c].repo = r
        /\ symbols' = symbols \ RowsOf(r) /\ edges' = DropEdges(r, Decl)
    BY <1>3, <1>0 DEF Clear, ClearSymbols, Goto, Call
  <2>2. \A d \in Decl : edges'[<<r, d>>] = 0
    BY <2>1, <1>0 DEF DropEdges
  <2> QED
    BY <2>1, <2>2 DEF EmptyFor, At, RowsOf
<1>4. CASE Insert(c)
  <2>1. /\ call'[c].pc = "load" /\ call'[c].repo = r /\ edges' = edges
        /\ call[c].pc = "insert"
    BY <1>4, <1>0 DEF Insert, InsertSymbols, Goto, Call, At
  <2> QED
    BY <2>1 DEF EmptyFor, At, UntilEdges
<1>5. CASE Load(c) \/ EmbedChunk(c)
  <2>1. /\ call'[c].pc \in {"embed", "edges"} /\ call'[c].repo = r /\ edges' = edges
        /\ call[c].pc \in {"load", "embed"}
    BY <1>5, <1>0 DEF Load, EmbedChunk, InsertEmbeddings, EmbedOrGoOn, Call, At, storeVars
  <2> QED
    BY <2>1 DEF EmptyFor, At, UntilEdges
<1>6. CASE InsertEdges(c)
  <2>1. call'[c].pc = "count"
    BY <1>6, <1>0 DEF InsertEdges, Goto, Call
  <2> QED
    BY <2>1, <1>1 DEF UntilEdges
<1>7. CASE ReadFile(c)
  <2> DEFINE found == trees[r] \cap DeclsIn(call[c].file)
  <2>1. call' = [call EXCEPT ![c].pc = "updateFile",
                             ![c].syms = found, ![c].calls = found]
    BY <1>7 DEF ReadFile
  <2> HIDE DEF found
  <2>2. /\ call'[c].pc = "updateFile" /\ call'[c].file = call[c].file
        /\ call'[c].syms = found /\ call'[c].calls = found
    BY <2>1, <1>0 DEF Call
  <2>3. found \subseteq DeclsIn(call[c].file)
    BY DEF found
  <2> QED
    BY <2>2, <2>3 DEF EmptyFor, At, UntilEdges, DeclsIn
<1>8. CASE Count(c) \/ UpdateFile(c) \/ RemoveFile(c) \/ Fail(c)
  <2>1. call'[c].pc \in {"done", "failed"}
    BY <1>8, <1>0 DEF Count, UpdateFile, RemoveFile, Fail, Return, Resting
  <2> QED
    BY <2>1, <1>1 DEF UntilEdges
<1> QED
  BY <1>2, <1>3, <1>4, <1>5, <1>6, <1>7, <1>8 DEF Step

LEMMA StepPending ==
    ASSUME TypeOK, OneWriter, PendingRowsStored, NEW c \in Caller, Step(c)
    PROVE  PendingRowsStored'
<1>1. ASSUME NEW k \in Caller, k # c
      PROVE  /\ call'[k].rows # {} => call'[k].pc = "embed"
             /\ call'[k].rows \subseteq {s \in symbols' : s.repo = call'[k].repo}
  <2>1. call'[k] = call[k] /\ Active(c)
    BY <1>1, StepCalls
  <2>2. CASE call[k].rows = {}
    BY <2>1, <2>2
  <2>3. CASE call[k].rows # {}
    <3>1. Active(k) /\ call[k].pc = "embed"
      BY <2>3 DEF PendingRowsStored, At, Active, RestPoints
    <3>2. call[k].repo # call[c].repo /\ call[k].repo \in Repo
      BY <1>1, <2>1, <3>1 DEF OneWriter, TypeOK, Call
    <3>3. OwnRowsOnly(c)
      BY StepOwnRows
    <3> QED
      BY <2>1, <3>1, <3>2, <3>3 DEF PendingRowsStored, RowsOf, OwnRowsOnly
  <2> QED
    BY <2>2, <2>3
<1> QED
  BY <1>1, StepPendingSelf DEF PendingRowsStored, At, RowsOf

LEMMA StepEmpty ==
    ASSUME TypeOK, EmptyInv, NEW c \in Caller, Step(c)
    PROVE  EmptyInv'
<1> USE DEF EmptyInv
<1>1. ASSUME NEW k \in Caller PROVE EmptyFor(k)'
  <2>1. CASE k = c
    BY <2>1, StepEmptySelf DEF InsertsIntoEmpty, EmptyFor
  <2>2. CASE k # c
    <3>1. call'[k] = call[k] /\ Active(c) /\ call[k].repo \in Repo
      BY <2>2, StepCalls DEF TypeOK, Call
    <3>2. CASE ~Active(k)
      BY <3>1, <3>2 DEF EmptyFor, At, UntilEdges, Active, RestPoints
    <3>3. CASE Active(k)
      <4>1. call[k].repo # call[c].repo
        BY <2>2, <3>1, <3>3 DEF OneWriter
      <4>2. PICK p \in Repo : p = call[k].repo
        BY <3>1
      <4>3. /\ RowsOf(p)' = RowsOf(p)
            /\ \A d \in Decl : edges'[<<p, d>>] = edges[<<p, d>>]
        BY <4>1, <4>2, StepOwnTables
      <4>4. RowsOf(call[k].repo)' = RowsOf(call[k].repo)
        BY <3>1, <4>2, <4>3 DEF RowsOf
      <4>5. EmptyFor(k)
        BY DEF InsertsIntoEmpty, EmptyFor
      <4> QED
        BY <3>1, <4>2, <4>3, <4>4, <4>5, SameEmpty
    <3> QED
      BY <3>2, <3>3
  <2> QED
    BY <2>1, <2>2
<1>2. InsertsIntoEmpty'
  BY <1>1 DEF InsertsIntoEmpty, EmptyFor
<1> QED
  BY <1>2, StepPending, StepOneWriter

LEMMA StartEmpty ==
    ASSUME TypeOK, EmptyInv, OnePerRepo, NEW c \in Caller, StartCall(c)
    PROVE  EmptyInv'
<1>0. call \in [Caller -> Call]
  BY DEF TypeOK
<1>1. UNCHANGED storeVars
  BY DEF StartCall, StartIndexRepo, StartUpdateFile, StartRemoveFile
<1>2. /\ \A k \in Caller : k # c => call'[k] = call[k]
      /\ call'[c].rows = {}
      /\ call'[c].pc \in {"failed", "parse", "readFile", "removeFile"}
  <2>1. ASSUME NEW r, NEW f, NEW pc \in {"failed", "parse", "readFile", "removeFile"},
               Start(c, r, f, pc)
        PROVE  /\ \A k \in Caller : k # c => call'[k] = call[k]
               /\ call'[c].rows = {}
               /\ call'[c].pc = pc
    BY <1>0, <2>1 DEF Start, Resting
  <2>2. ASSUME NEW r \in Repo, StartIndexRepo(c, r)
        PROVE  \E f, pc : /\ pc \in {"failed", "parse", "readFile", "removeFile"}
                          /\ Start(c, r, f, pc)
    BY <2>2 DEF StartIndexRepo
  <2>3. ASSUME NEW r \in Repo, NEW f \in File,
               StartUpdateFile(c, r, f) \/ StartRemoveFile(c, r, f)
        PROVE  \E pc \in {"readFile", "removeFile"} : Start(c, r, f, pc)
    BY <2>3 DEF StartUpdateFile, StartRemoveFile
  <2> QED
    BY <2>1, <2>2, <2>3 DEF StartCall
<1>3. PendingRowsStored'
  BY <1>1, <1>2 DEF EmptyInv, PendingRowsStored, At, RowsOf, storeVars
<1>4. EmptyFor(c)'
  BY <1>2, RestEmpty DEF UntilEdges
<1>5. ASSUME NEW k \in Caller, k # c PROVE EmptyFor(k)'
  <2>1. call'[k] = call[k]
    BY <1>2, <1>5
  <2>2. EmptyFor(k)
    BY DEF EmptyInv, InsertsIntoEmpty, EmptyFor
  <2> QED
    BY <1>1, <2>1, <2>2, SameEmpty DEF storeVars, RowsOf
<1>6. InsertsIntoEmpty'
  BY <1>4, <1>5 DEF InsertsIntoEmpty, EmptyFor
<1> QED
  BY <1>3, <1>6, StartOneWriter DEF EmptyInv

LEMMA NextEmpty ==
    ASSUME TypeOK, EmptyInv, OnePerRepo, [Next]_vars
    PROVE  EmptyInv'
<1>1. ASSUME NEW c \in Caller, StartCall(c) \/ Step(c) PROVE EmptyInv'
  BY <1>1, StartEmpty, StepEmpty
<1>2. CASE Crash
  <2>1. UNCHANGED storeVars
    BY <1>2 DEF Crash
  <2>2. \A k \in Caller : call'[k] = call[k] \/ call'[k] = Resting("failed")
    BY <1>2 DEF Crash
  <2>3. Resting("failed").rows = {} /\ Resting("failed").pc = "failed"
    BY DEF Resting
  <2>4. ASSUME NEW k \in Caller PROVE EmptyFor(k)'
    <3>1. CASE call'[k] = call[k]
      <4>1. EmptyFor(k)
        BY DEF EmptyInv, InsertsIntoEmpty, EmptyFor
      <4> QED
        BY <2>1, <3>1, <4>1, SameEmpty DEF storeVars, RowsOf
    <3>2. CASE call'[k] = Resting("failed")
      BY <2>3, <3>2, RestEmpty DEF UntilEdges
    <3> QED
      BY <2>2, <3>1, <3>2
  <2>5. InsertsIntoEmpty'
    BY <2>4 DEF InsertsIntoEmpty, EmptyFor
  <2>6. OneWriter' /\ PendingRowsStored'
    BY <2>1, <2>2, <2>3 DEF EmptyInv, OneWriter, Active, PendingRowsStored,
          At, RowsOf, storeVars, RestPoints
  <2> QED
    BY <2>5, <2>6 DEF EmptyInv
<1>3. CASE (\E r \in Repo : EditTree(r)) \/ UNCHANGED vars
  <2>1. UNCHANGED <<storeVars, call>>
    BY <1>3 DEF EditTree, vars, callVars
  <2>2. ASSUME NEW k \in Caller PROVE EmptyFor(k)'
    <3>1. EmptyFor(k)
      BY DEF EmptyInv, InsertsIntoEmpty, EmptyFor
    <3> QED
      BY <2>1, <3>1, SameEmpty DEF storeVars, RowsOf
  <2>3. InsertsIntoEmpty'
    BY <2>2 DEF InsertsIntoEmpty, EmptyFor
  <2> QED
    BY <2>1, <2>3 DEF EmptyInv, OneWriter, Active, PendingRowsStored,
          At, RowsOf, storeVars
<1> QED
  BY <1>1, <1>2, <1>3 DEF Next

LEMMA InitEmpty ==
    ASSUME Init
    PROVE  EmptyInv
BY DEF Init, EmptyInv, OneWriter, Active, RestPoints, Resting, UntilEdges,
       PendingRowsStored, InsertsIntoEmpty, At, RowsOf
\* index_repo never inserts beside rows or edges that are there already.
THEOREM IndexesFromScratch ==
    ASSUME OnePerRepo
    PROVE  Spec => [](OneWriter /\ PendingRowsStored /\ InsertsIntoEmpty)
<1>1. Init => EmptyInv
  BY InitEmpty
<1>2. TypeOK /\ EmptyInv /\ [Next]_vars => EmptyInv'
  BY NextEmpty
<1>3. Spec => []EmptyInv
  BY <1>1, <1>2, TypeCorrect, PTL DEF Spec
<1> QED
  BY <1>3, PTL DEF EmptyInv

----------------------------------------------------------------------------
(* The tools implement AtomicIndex.                                        *)

\* A repository whose rows stay and whose rows keep their vectors looks the same.
LEMMA ContentStays ==
    ASSUME NEW p \in Repo, RowsOf(p)' = RowsOf(p),
           \A s \in RowsOf(p) :
              (\E v \in vecs : v.id = s.id) <=> (\E v \in vecs' : v.id = s.id)
    PROVE  Content(p)' = Content(p) /\ Embedded(p)' = Embedded(p)
BY DEF Content, Embedded

\* A step of c deletes vectors of rows of its repository, or stores those of such rows.
LEMMA StepOwnVectors ==
    ASSUME PendingRowsStored, NEW c \in Caller, Step(c)
    PROVE  \/ vecs' = vecs
           \/ \E rows \in SUBSET RowsOf(call[c].repo) :
                 \/ vecs' = DropVectors(rows)
                 \/ vecs' = vecs \cup {[id |-> t.id, decl |-> t.decl] : t \in rows}
<1> DEFINE r == call[c].repo
<1>1. CASE Parse(c) \/ Load(c) \/ ReadFile(c) \/ Fail(c)
  BY <1>1 DEF Parse, Load, ReadFile, Fail, storeVars
<1>2. CASE Touch(c) \/ Count(c) \/ Insert(c) \/ InsertEdges(c)
  BY <1>2 DEF Touch, Count, Insert, InsertEdges, storeVars, MarkAccessed,
              UpdateSymbolCount, InsertSymbols, InsertCallEdges
<1>3. CASE Clear(c)
  BY <1>3 DEF Clear, ClearSymbols
<1>4. CASE EmbedChunk(c)
  <2>1. FirstChunk(call[c].rows) \subseteq RowsOf(r)
    BY DEF PendingRowsStored, FirstChunk
  <2> QED
    BY <1>4, <2>1 DEF EmbedChunk, InsertEmbeddings
<1>5. CASE UpdateFile(c) \/ RemoveFile(c)
  <2>1. FileRowsOf(r, call[c].file) \subseteq RowsOf(r)
    BY DEF FileRowsOf
  <2> QED
    BY <1>5, <2>1 DEF UpdateFile, RemoveFile, UpdateFileSymbols, RemoveFileSymbols
<1> QED
  BY <1>1, <1>2, <1>3, <1>4, <1>5 DEF Step

\* Which are no vectors of another repository.
LEMMA StepOthersVectors ==
    ASSUME IdsNameOneRow, PendingRowsStored, NEW c \in Caller, Step(c),
           NEW p \in Repo, p # call[c].repo
    PROVE  {v \in vecs' : v.id \in Ids(RowsOf(p))} = {v \in vecs : v.id \in Ids(RowsOf(p))}
<1> DEFINE r == call[c].repo
<1>1. \A s \in RowsOf(p), t \in RowsOf(r) : t.id # s.id
  BY DEF RowsOf, IdsNameOneRow, Known
<1>2. ASSUME NEW rows \in SUBSET RowsOf(r) PROVE Ids(rows) \cap Ids(RowsOf(p)) = {}
  BY <1>1 DEF Ids
<1>3. ASSUME NEW rows \in SUBSET RowsOf(r), vecs' = DropVectors(rows)
      PROVE  {v \in vecs' : v.id \in Ids(RowsOf(p))} = {v \in vecs : v.id \in Ids(RowsOf(p))}
  BY <1>2, <1>3 DEF DropVectors
<1>4. ASSUME NEW rows \in SUBSET RowsOf(r),
             vecs' = vecs \cup {[id |-> t.id, decl |-> t.decl] : t \in rows}
      PROVE  {v \in vecs' : v.id \in Ids(RowsOf(p))} = {v \in vecs : v.id \in Ids(RowsOf(p))}
  <2>1. \A t \in rows : t.id \notin Ids(RowsOf(p))
    BY <1>1 DEF Ids
  <2> QED
    BY <1>4, <2>1
<1> QED
  BY <1>3, <1>4, StepOwnVectors

\* The other repositories look the same after a step of c.
LEMMA StepOthersStay ==
    ASSUME TypeOK, IdsNameOneRow, PendingRowsStored, NEW c \in Caller, Step(c),
           NEW p \in Repo, p # call[c].repo
    PROVE  Content(p)' = Content(p) /\ Embedded(p)' = Embedded(p)
<1>1. RowsOf(p)' = RowsOf(p)
  BY StepOwnTables
<1>2. ASSUME NEW s \in RowsOf(p)
      PROVE  (\E v \in vecs : v.id = s.id) <=> (\E v \in vecs' : v.id = s.id)
  <2>1. s.id \in Ids(RowsOf(p))
    BY DEF Ids
  <2> QED
    BY <2>1, StepOthersVectors
<1> QED
  BY <1>1, <1>2, ContentStays

\* The vectors stored have ids below those of rows inserted in this step.
LEMMA NewRowsHaveNoVector ==
    ASSUME TypeOK, IdsNameOneRow, NEW r \in Repo, NEW batch \in SUBSET Decl
    PROVE  \A s \in NewRows(r, batch, nextId), v \in vecs : v.id # s.id
<1>1. nextId \in Nat /\ \A v \in vecs : v.id \in Nat /\ v.id < nextId
  BY DEF TypeOK, StoreTypeOK, Vector, IdsNameOneRow
<1>2. \A s \in NewRows(r, batch, nextId) : s.id \in Nat /\ nextId <= s.id
  BY <1>1, NewRowsType DEF Symbol
<1> QED
  BY <1>1, <1>2

\* One file of r is replaced: kept are the rows of the other files.
FileReplaced(r, f, batch, New) ==
    /\ batch \subseteq DeclsIn(f)
    /\ \A s \in New : s.repo = r /\ s.decl \in batch
    /\ \A d \in batch : \E s \in New : s.decl = d
    /\ \A s \in New, v \in vecs : v.id # s.id
    /\ symbols' = (symbols \ FileRowsOf(r, f)) \cup New
    /\ vecs' = DropVectors(FileRowsOf(r, f))

SeenReplaced(r, f, batch) ==
    LET others == {d \in Content(r) : FileOf[d] # f}
    IN  /\ Content(r)' = others \cup batch
        /\ Embedded(r)' = Embedded(r) \cap others

LEMMA ReplaceFileMaps ==
    ASSUME TypeOK, IdsNameOneRow, NEW r \in Repo, NEW f \in File,
           NEW batch, NEW New, FileReplaced(r, f, batch, New)
    PROVE  SeenReplaced(r, f, batch)
<1> DEFINE kept == RowsOf(r) \ FileRowsOf(r, f)
           others == {d \in Content(r) : FileOf[d] # f}
<1> USE DEF FileReplaced
<1>3. RowsOf(r)' = kept \cup New
  BY DEF RowsOf, FileRowsOf, DeclsIn
<1>4. /\ kept \subseteq RowsOf(r)
      /\ \A s \in RowsOf(r) : s \in kept <=> FileOf[s.decl] # f
  BY DEF FileRowsOf
<1>5. \A s \in kept :
        (\E v \in vecs' : v.id = s.id) <=> (\E v \in vecs : v.id = s.id)
  <2>1. \A s \in kept, t \in FileRowsOf(r, f) : s.id # t.id
    BY DEF FileRowsOf, RowsOf, IdsNameOneRow, Known
  <2> QED
    BY <2>1 DEF DropVectors, Ids
<1>6. \A s \in New : ~ \E v \in vecs' : v.id = s.id
  BY DEF DropVectors
<1> HIDE DEF kept
<1>7. others = {s.decl : s \in kept}
  BY <1>4 DEF Content
<1>8. Content(r)' = others \cup batch
  BY <1>3, <1>7 DEF Content
<1>9. Embedded(r)' = Embedded(r) \cap others
  <2>1. Embedded(r)' = {s.decl : s \in {t \in kept : \E v \in vecs : v.id = t.id}}
    BY <1>3, <1>5, <1>6 DEF Embedded
  <2>2. \A s \in RowsOf(r) : s \in kept <=> s.decl \in others
    BY <1>4 DEF Content
  <2> QED
    BY <2>1, <2>2, <1>4 DEF Embedded
<1> QED
  BY <1>8, <1>9 DEF SeenReplaced

\* What a step of c is for those who read its repository.
StepSeen(r, f) ==
    LET X == Content(r)
        E == Embedded(r)
        others == {d \in X : FileOf[d] # f}
    IN  \/ X' = X /\ E' = E
        \/ X' = {} /\ E' = {}
        \/ X = {} /\ X' \in SUBSET Decl /\ E' = E
        \/ X' = X /\ \E D \in SUBSET X : E' = E \cup D
        \/ /\ \E D \in SUBSET DeclsIn(f) : X' = others \cup D
           /\ E' = E \cap others

LEMMA StepOwnSeen ==
    ASSUME TypeOK, IdsNameOneRow, PendingRowsStored, InsertsIntoEmpty,
           NEW c \in Caller, Step(c),
           NEW r \in Repo, r = call[c].repo, NEW f \in File, f = call[c].file
    PROVE  StepSeen(r, f)
<1>0. call[c].syms \in SUBSET Decl
  BY DEF TypeOK, Call
<1>1. ASSUME symbols' = symbols, vecs' = vecs PROVE StepSeen(r, f)
  BY <1>1 DEF StepSeen, Content, Embedded, RowsOf
<1>2. CASE Parse(c) \/ Load(c) \/ ReadFile(c) \/ Fail(c)
  BY <1>2, <1>1 DEF Parse, Load, ReadFile, Fail, storeVars
<1>3. CASE Touch(c) \/ InsertEdges(c) \/ Count(c)
  BY <1>3, <1>1 DEF Touch, InsertEdges, Count, storeVars,
                    MarkAccessed, InsertCallEdges, UpdateSymbolCount
<1>4. CASE Clear(c)
  <2>1. RowsOf(r)' = {}
    BY <1>4 DEF Clear, ClearSymbols, RowsOf
  <2> QED
    BY <2>1 DEF StepSeen, Content, Embedded
<1>5. CASE Insert(c)
  <2> DEFINE New == NewRows(r, call[c].syms, nextId)
  <2>1. symbols' = symbols \cup New /\ vecs' = vecs /\ RowsOf(r) = {}
    <3>1. At(c, "insert")
      BY <1>5 DEF Insert
    <3>2. RowsOf(r) = {}
      BY <3>1 DEF InsertsIntoEmpty, UntilEdges
    <3> QED
      BY <1>5, <3>2 DEF Insert, InsertSymbols
  <2>2. \A s \in New : s.repo = r /\ s.decl \in call[c].syms
    BY NewRowsOf
  <2>3. \A s \in New, v \in vecs : v.id # s.id
    BY <1>0, NewRowsHaveNoVector
  <2> HIDE DEF New
  <2>4. RowsOf(r)' = New
    BY <2>1, <2>2 DEF RowsOf
  <2>5. Content(r) = {} /\ Content(r)' \in SUBSET Decl
    BY <1>0, <2>1, <2>2, <2>4 DEF Content
  <2>6. Embedded(r) = {} /\ Embedded(r)' = {}
    BY <2>1, <2>3, <2>4 DEF Embedded
  <2> QED
    BY <2>5, <2>6 DEF StepSeen
<1>6. CASE EmbedChunk(c)
  <2> DEFINE chunk == FirstChunk(call[c].rows)
             D == {s.decl : s \in chunk}
  <2>1. /\ symbols' = symbols
        /\ vecs' = vecs \cup {[id |-> s.id, decl |-> s.decl] : s \in chunk}
    BY <1>6 DEF EmbedChunk, InsertEmbeddings
  <2>2. chunk \subseteq RowsOf(r)
    BY DEF PendingRowsStored, FirstChunk
  <2>3. \A s, t \in RowsOf(r) : s.id = t.id => s = t
    BY DEF RowsOf, IdsNameOneRow, Known
  <2> HIDE DEF chunk
  <2>4. RowsOf(r)' = RowsOf(r) /\ Content(r)' = Content(r)
    BY <2>1 DEF RowsOf, Content
  <2>5. \A s \in RowsOf(r) :
          (\E v \in vecs' : v.id = s.id) <=> (s \in chunk \/ \E v \in vecs : v.id = s.id)
    <3> SUFFICES ASSUME NEW s \in RowsOf(r)
                 PROVE  (\E v \in vecs' : v.id = s.id) <=>
                           (s \in chunk \/ \E v \in vecs : v.id = s.id)
      OBVIOUS
    <3>1. ASSUME NEW v \in vecs', v.id = s.id
          PROVE  s \in chunk \/ v \in vecs
      BY <2>1, <2>2, <2>3, <3>1
    <3>2. ASSUME s \in chunk PROVE \E v \in vecs' : v.id = s.id
      <4>1. [id |-> s.id, decl |-> s.decl] \in vecs'
        BY <2>1, <3>2
      <4> QED
        BY <4>1
    <3> QED
      BY <2>1, <3>1, <3>2
  <2>6. Embedded(r)' = Embedded(r) \cup D
    BY <2>2, <2>4, <2>5 DEF Embedded
  <2>7. D \in SUBSET Content(r)
    BY <2>2 DEF Content
  <2> QED
    BY <2>4, <2>6, <2>7 DEF StepSeen
<1>7. CASE UpdateFile(c)
  <2>1. call[c].syms \in SUBSET DeclsIn(f)
    <3>1. At(c, "updateFile")
      BY <1>7 DEF UpdateFile
    <3> QED
      BY <3>1 DEF InsertsIntoEmpty, UntilEdges
  <2>2. /\ symbols' = (symbols \ FileRowsOf(r, f)) \cup NewRows(r, call[c].syms, nextId)
        /\ vecs' = DropVectors(FileRowsOf(r, f))
    BY <1>7 DEF UpdateFile, UpdateFileSymbols
  <2>3. PICK batch, New : batch = call[c].syms /\ New = NewRows(r, batch, nextId)
    OBVIOUS
  <2>4. /\ \A s \in New : s.repo = r /\ s.decl \in batch
        /\ \A d \in batch : \E s \in New : s.decl = d
        /\ \A s \in New, v \in vecs : v.id # s.id
    BY <1>0, <2>3, NewRowsOf, NewRowsHaveNoVector
  <2>5. FileReplaced(r, f, batch, New)
    BY <2>1, <2>2, <2>3, <2>4 DEF FileReplaced
  <2>6. SeenReplaced(r, f, batch)
    BY <2>5, ReplaceFileMaps
  <2> QED
    BY <2>1, <2>3, <2>6 DEF StepSeen, SeenReplaced
<1>8. CASE RemoveFile(c)
  <2>1. /\ symbols' = (symbols \ FileRowsOf(r, f)) \cup {}
        /\ vecs' = DropVectors(FileRowsOf(r, f))
    BY <1>8 DEF RemoveFile, RemoveFileSymbols
  <2>2. FileReplaced(r, f, {}, {})
    BY <2>1 DEF FileReplaced
  <2>3. SeenReplaced(r, f, {})
    BY <2>2, ReplaceFileMaps
  <2> QED
    BY <2>3 DEF StepSeen, SeenReplaced
<1> QED
  BY <1>2, <1>3, <1>4, <1>5, <1>6, <1>7, <1>8 DEF Step

\* A step seen in one repository only is a step of AtomicIndex.
LEMMA SeenMaps ==
    ASSUME NEW r \in Repo, NEW f \in File, StepSeen(r, f),
           \A p \in Repo : p # r => Content(p)' = Content(p) /\ Embedded(p)' = Embedded(p)
    PROVE  [Atomic!Next]_(Atomic!indexVars)
<1> DEFINE X == [p \in Repo |-> Content(p)]
           E == [p \in Repo |-> Embedded(p)]
           others == {d \in Content(r) : FileOf[d] # f}
<1>0. /\ X' = [X EXCEPT ![r] = Content(r)'] /\ X[r] = Content(r)
      /\ E' = [E EXCEPT ![r] = Embedded(r)'] /\ E[r] = Embedded(r)
  OBVIOUS
<1>1. CASE Content(r)' = Content(r) /\ Embedded(r)' = Embedded(r)
  <2>1. X' = X /\ E' = E
    BY <1>1
  <2> QED
    BY <2>1 DEF Atomic!indexVars
<1>2. CASE Content(r)' = {} /\ Embedded(r)' = {}
  <2>1. Atomic!Wipe(r)
    BY <1>0, <1>2 DEF Atomic!Wipe
  <2> QED
    BY <2>1 DEF Atomic!Next
<1>3. CASE Content(r) = {} /\ Content(r)' \in SUBSET Decl /\ Embedded(r)' = Embedded(r)
  <2>1. E' = E
    BY <1>3
  <2>2. Atomic!Publish(r)
    BY <1>0, <1>3, <2>1 DEF Atomic!Publish
  <2> QED
    BY <2>2 DEF Atomic!Next
<1>4. CASE /\ Content(r)' = Content(r)
           /\ \E D \in SUBSET Content(r) : Embedded(r)' = Embedded(r) \cup D
  <2>1. X' = X
    BY <1>4
  <2>2. Atomic!Embed(r)
    BY <1>0, <1>4, <2>1 DEF Atomic!Embed
  <2> QED
    BY <2>2 DEF Atomic!Next
<1>5. CASE /\ \E D \in SUBSET DeclsIn(f) : Content(r)' = others \cup D
           /\ Embedded(r)' = Embedded(r) \cap others
  <2>1. Atomic!ReplaceFile(r, f)
    BY <1>0, <1>5 DEF Atomic!ReplaceFile, DeclsIn
  <2> QED
    BY <2>1 DEF Atomic!Next
<1> QED
  BY <1>1, <1>2, <1>3, <1>4, <1>5 DEF StepSeen

LEMMA NextMaps ==
    ASSUME TypeOK, IdsNameOneRow, PendingRowsStored, InsertsIntoEmpty, [Next]_vars
    PROVE  [Atomic!Next]_(Atomic!indexVars)
<1>1. ASSUME UNCHANGED storeVars PROVE [Atomic!Next]_(Atomic!indexVars)
  <2>1. ASSUME NEW p \in Repo
        PROVE  Content(p)' = Content(p) /\ Embedded(p)' = Embedded(p)
    BY <1>1 DEF storeVars, Content, Embedded, RowsOf
  <2> QED
    BY <2>1 DEF Atomic!indexVars
<1>2. ASSUME NEW c \in Caller, StartCall(c) PROVE UNCHANGED storeVars
  BY <1>2 DEF StartCall, StartIndexRepo, StartUpdateFile, StartRemoveFile
<1>3. ASSUME NEW c \in Caller, Step(c) PROVE [Atomic!Next]_(Atomic!indexVars)
  <2>1. PICK r \in Repo, f \in File : r = call[c].repo /\ f = call[c].file
    BY DEF TypeOK, Call
  <2>2. StepSeen(r, f)
    BY <1>3, <2>1, StepOwnSeen
  <2>3. \A p \in Repo : p # r => Content(p)' = Content(p) /\ Embedded(p)' = Embedded(p)
    BY <1>3, <2>1, StepOthersStay
  <2> QED
    BY <2>2, <2>3, SeenMaps
<1>4. CASE Crash \/ (\E r \in Repo : EditTree(r)) \/ UNCHANGED vars
  BY <1>4, <1>1 DEF Crash, EditTree, vars
<1> QED
  BY <1>1, <1>2, <1>3, <1>4 DEF Next

LEMMA InitMaps == ASSUME Init PROVE Atomic!Init
BY DEF Init, Atomic!Init, Content, Embedded, RowsOf

\* The tools implement AtomicIndex: every step, of any number of calls for any
\* number of repositories, failing and crashing anywhere, is a step of it or
\* changes nothing readers see.
THEOREM ToolsImplementAtomicIndex ==
    ASSUME OnePerRepo
    PROVE  Spec => RefinesAtomicIndex
<1>1. Init => Atomic!Init
  BY InitMaps
<1>2. TypeOK /\ IdsNameOneRow /\ PendingRowsStored /\ InsertsIntoEmpty /\ [Next]_vars
        => [Atomic!Next]_(Atomic!indexVars)
  BY NextMaps
<1> QED
  BY <1>1, <1>2, TypeCorrect, IdsNeverReused, IndexesFromScratch, PTL
     DEF Spec, RefinesAtomicIndex, Atomic!Spec

----------------------------------------------------------------------------
(* Nothing is stored twice.                                                *)

\* The two parts of NoDuplicates, the edges by repository and declaration.
RowsOnce == \A s, t \in symbols : s.repo = t.repo /\ s.decl = t.decl => s = t
EdgesOnce == \A p \in Repo, d \in Decl : edges[<<p, d>>] \in {0, 1}

LEMMA OnceIsNoDuplicates == RowsOnce /\ EdgesOnce => NoDuplicates
<1>1. ASSUME NEW e \in Repo \X Decl PROVE \E p \in Repo, d \in Decl : e = <<p, d>>
  OBVIOUS
<1>2. EdgesOnce => \A e \in Repo \X Decl : edges[e] \in {0, 1}
  BY <1>1 DEF EdgesOnce
<1>3. \A n : n \in {0, 1} => n <= 1
  OBVIOUS
<1> QED
  BY <1>2, <1>3 DEF NoDuplicates, RowsOnce

LEMMA StepNoDuplicates ==
    ASSUME TypeOK, InsertsIntoEmpty, RowsOnce, EdgesOnce, NEW c \in Caller, Step(c)
    PROVE  RowsOnce' /\ EdgesOnce'
<1> DEFINE r == call[c].repo
           f == call[c].file
<1>0. /\ edges \in [Repo \X Decl -> Nat] /\ r \in Repo /\ symbols \in SUBSET Symbol
      /\ call[c].calls \in SUBSET Decl
  BY DEF TypeOK, StoreTypeOK, Call
<1>1. ASSUME NEW New, symbols' \subseteq symbols \cup New,
             \A s, t \in New : s.decl = t.decl => s = t,
             \A s \in New : s.repo = r,
             \A s \in New, t \in symbols' : t \in RowsOf(r) => s.decl # t.decl,
             EdgesOnce'
      PROVE  RowsOnce' /\ EdgesOnce'
  <2>1. ASSUME NEW s \in symbols', NEW t \in symbols', s.repo = t.repo, s.decl = t.decl
        PROVE  s = t
    <3>1. CASE s \in New /\ t \in New
      BY <1>1, <2>1, <3>1
    <3>2. CASE s \in symbols /\ t \in symbols
      BY <2>1, <3>2 DEF RowsOnce, EdgesOnce
    <3>3. CASE s \in New /\ t \in symbols
      BY <1>1, <2>1, <3>3 DEF RowsOf
    <3>4. CASE s \in symbols /\ t \in New
      BY <1>1, <2>1, <3>4 DEF RowsOf
    <3> QED
      BY <1>1, <3>1, <3>2, <3>3, <3>4
  <2> QED
    BY <1>1, <2>1 DEF RowsOnce, EdgesOnce
<1>2. ASSUME symbols' \subseteq symbols, \A p \in Repo, d \in Decl : edges'[<<p, d>>] \in {0, edges[<<p, d>>]}
      PROVE  RowsOnce' /\ EdgesOnce'
  <2>1. EdgesOnce'
    BY <1>2 DEF EdgesOnce
  <2> QED
    BY <1>2, <2>1 DEF RowsOnce
<1>3. CASE Parse(c) \/ Load(c) \/ ReadFile(c) \/ Fail(c)
  BY <1>3 DEF Parse, Load, ReadFile, Fail, storeVars, RowsOnce, EdgesOnce
<1>4. CASE Touch(c) \/ Count(c) \/ EmbedChunk(c)
  BY <1>4 DEF Touch, Count, EmbedChunk, storeVars, RowsOnce, EdgesOnce,
              MarkAccessed, UpdateSymbolCount, InsertEmbeddings
<1>5. CASE Clear(c)
  <2>1. symbols' = symbols \ RowsOf(r) /\ edges' = DropEdges(r, Decl)
    BY <1>5 DEF Clear, ClearSymbols
  <2>2. \A p \in Repo, d \in Decl : edges'[<<p, d>>] \in {0, edges[<<p, d>>]}
    BY <2>1, <1>0 DEF DropEdges
  <2> QED
    BY <1>2, <2>1, <2>2
<1>6. CASE Insert(c)
  <2>1. PICK New : New = NewRows(r, call[c].syms, nextId)
    OBVIOUS
  <2>2. symbols' = symbols \cup New /\ edges' = edges /\ At(c, "insert")
    BY <1>6, <2>1 DEF Insert, InsertSymbols
  <2>3. RowsOf(r) = {}
    BY <2>2 DEF InsertsIntoEmpty, UntilEdges
  <2>4. /\ \A s, t \in New : s.decl = t.decl => s = t
        /\ \A s \in New : s.repo = r
    BY <2>1, NewRowsOf
  <2>5. EdgesOnce'
    BY <2>2 DEF RowsOnce, EdgesOnce
  <2> QED
    BY <1>1, <2>2, <2>3, <2>4, <2>5
<1>7. CASE InsertEdges(c)
  <2>1. /\ symbols' = symbols /\ edges' = AddEdges(edges, r, call[c].calls)
        /\ call[c].pc = "edges"
    BY <1>7 DEF InsertEdges, InsertCallEdges, At
  <2>2. \A d \in Decl : edges[<<r, d>>] = 0
    BY <2>1 DEF InsertsIntoEmpty, UntilEdges
  <2>3. ASSUME NEW p \in Repo, NEW d \in Decl PROVE edges'[<<p, d>>] \in {0, 1}
    <3>1. edges[<<p, d>>] \in {0, 1}
      BY DEF EdgesOnce
    <3>2. edges'[<<p, d>>] = IF p = r /\ d \in call[c].calls THEN edges[<<p, d>>] + 1
                                                        ELSE edges[<<p, d>>]
      BY <2>1, <1>0 DEF AddEdges
    <3>3. 0 + 1 = 1
      OBVIOUS
    <3> QED
      BY <2>2, <3>1, <3>2, <3>3
  <2> QED
    BY <2>1, <2>3 DEF RowsOnce, EdgesOnce
<1>8. CASE UpdateFile(c)
  <2>1. PICK New : New = NewRows(r, call[c].syms, nextId)
    OBVIOUS
  <2>2. /\ symbols' = (symbols \ FileRowsOf(r, f)) \cup New
        /\ edges' = AddEdges(DropEdges(r, DeclsIn(f)), r, call[c].calls)
        /\ At(c, "updateFile")
    BY <1>8, <2>1 DEF UpdateFile, UpdateFileSymbols
  <2>3. call[c].syms \cup call[c].calls \subseteq DeclsIn(f)
    BY <2>2 DEF InsertsIntoEmpty, UntilEdges
  <2>4. /\ \A s, t \in New : s.decl = t.decl => s = t
        /\ \A s \in New : s.repo = r /\ s.decl \in call[c].syms
    BY <2>1, NewRowsOf
  <2>5. ASSUME NEW s \in New, NEW t \in symbols \ FileRowsOf(r, f), t \in RowsOf(r)
        PROVE  s.decl # t.decl
    BY <2>3, <2>4, <2>5 DEF FileRowsOf, DeclsIn
  <2>6. ASSUME NEW p \in Repo, NEW d \in Decl PROVE edges'[<<p, d>>] \in {0, 1}
    <3>1. edges[<<p, d>>] \in {0, 1}
      BY DEF EdgesOnce
    <3>2. edges'[<<p, d>>] = LET left == IF p = r /\ d \in DeclsIn(f) THEN 0 ELSE edges[<<p, d>>]
                         IN  IF p = r /\ d \in call[c].calls THEN left + 1 ELSE left
      BY <2>2, <1>0 DEF AddEdges, DropEdges
    <3>3. 0 + 1 = 1
      OBVIOUS
    <3> QED
      BY <2>3, <3>1, <3>2, <3>3
  <2>7. ASSUME NEW s \in symbols', NEW t \in symbols', s.repo = t.repo, s.decl = t.decl
        PROVE  s = t
    <3>1. CASE s \in New /\ t \in New
      BY <2>4, <2>7, <3>1
    <3>2. CASE s \in symbols /\ t \in symbols
      BY <2>7, <3>2 DEF RowsOnce, EdgesOnce
    <3>3. CASE s \in New /\ t \in symbols \ FileRowsOf(r, f)
      BY <2>4, <2>5, <2>7, <3>3 DEF RowsOf
    <3>4. CASE s \in symbols \ FileRowsOf(r, f) /\ t \in New
      BY <2>4, <2>5, <2>7, <3>4 DEF RowsOf
    <3> QED
      BY <2>2, <3>1, <3>2, <3>3, <3>4
  <2> QED
    BY <2>6, <2>7 DEF RowsOnce, EdgesOnce
<1>9. CASE RemoveFile(c)
  <2>1. symbols' = symbols \ FileRowsOf(r, f) /\ edges' = DropEdges(r, DeclsIn(f))
    BY <1>9 DEF RemoveFile, RemoveFileSymbols
  <2>2. \A p \in Repo, d \in Decl : edges'[<<p, d>>] \in {0, edges[<<p, d>>]}
    BY <2>1, <1>0 DEF DropEdges
  <2> QED
    BY <1>2, <2>1, <2>2
<1> QED
  BY <1>3, <1>4, <1>5, <1>6, <1>7, <1>8, <1>9 DEF Step

\* Indexing again, or one file again, stores no declaration and no call edge a
\* second time, as long as clients keep to one call per repository.
THEOREM NothingStoredTwice ==
    ASSUME OnePerRepo
    PROVE  Spec => []NoDuplicates
<1> DEFINE Once == RowsOnce /\ EdgesOnce
<1>1. Init => Once
  BY DEF Init, RowsOnce, EdgesOnce
<1>2. ASSUME TypeOK, InsertsIntoEmpty, Once, [Next]_vars PROVE Once'
  <2>1. ASSUME NEW c \in Caller, StartCall(c) PROVE UNCHANGED storeVars
    BY <2>1 DEF StartCall, StartIndexRepo, StartUpdateFile, StartRemoveFile
  <2>2. CASE UNCHANGED storeVars
    BY <1>2, <2>2 DEF storeVars, RowsOnce, EdgesOnce
  <2>3. CASE Crash \/ (\E r \in Repo : EditTree(r)) \/ UNCHANGED vars
    BY <2>2, <2>3 DEF Crash, EditTree, vars
  <2> QED
    BY <1>2, <2>1, <2>2, <2>3, StepNoDuplicates DEF Next
<1>3. TypeOK /\ InsertsIntoEmpty /\ Once /\ [Next]_vars => Once'
  BY <1>2
<1>4. Once => NoDuplicates
  BY OnceIsNoDuplicates
<1> HIDE DEF Once
<1> QED
  BY <1>1, <1>3, <1>4, TypeCorrect, IndexesFromScratch, PTL DEF Spec

----------------------------------------------------------------------------
(* Other repositories.                                                     *)

LEMMA StepIsOfACall == ASSUME NEW c \in Caller, Step(c) PROVE Active(c)
BY DEF Step, Parse, Touch, Clear, Insert, Load, EmbedChunk, InsertEdges, Count,
       ReadFile, UpdateFile, RemoveFile, Fail, At, Active, RestPoints

LEMMA StepOwnRepoRow ==
    ASSUME TypeOK, NEW c \in Caller, Step(c), NEW p \in Repo, p # call[c].repo
    PROVE  repos'[p] = repos[p]
<1>1. CASE Count(c)
  BY <1>1 DEF Count, UpdateSymbolCount, TypeOK, StoreTypeOK
<1>2. CASE Parse(c) \/ Load(c) \/ ReadFile(c) \/ Fail(c)
  BY <1>2 DEF Parse, Load, ReadFile, Fail, storeVars
<1>3. CASE Touch(c) \/ Clear(c) \/ Insert(c) \/ EmbedChunk(c) \/ InsertEdges(c)
  BY <1>3 DEF Touch, Clear, Insert, EmbedChunk, InsertEdges, storeVars, MarkAccessed,
              ClearSymbols, InsertSymbols, InsertEmbeddings, InsertCallEdges
<1>4. CASE UpdateFile(c) \/ RemoveFile(c)
  BY <1>4 DEF UpdateFile, RemoveFile, UpdateFileSymbols, RemoveFileSymbols
<1> QED
  BY <1>1, <1>2, <1>3, <1>4 DEF Step

\* With one call per repository a step changes the symbols, vectors, edges and row
\* of no repository but that of a call in flight.
THEOREM OthersLeftAlone ==
    ASSUME OnePerRepo
    PROVE  Spec => OtherReposUntouched
<1> DEFINE Untouched(p) == ContentOf(p)' = ContentOf(p) /\ repos'[p] = repos[p]
           Working(p) == \E c \in Caller : Active(c) /\ call[c].repo = p
<1>1. ASSUME TypeOK, IdsNameOneRow, PendingRowsStored, [Next]_vars, NEW p \in Repo
      PROVE  Untouched(p) \/ Working(p)
  <2>1. ASSUME UNCHANGED storeVars PROVE Untouched(p)
    BY <2>1 DEF storeVars, ContentOf, RowsOf, Ids
  <2>2. ASSUME NEW c \in Caller, StartCall(c) PROVE UNCHANGED storeVars
    BY <2>2 DEF StartCall, StartIndexRepo, StartUpdateFile, StartRemoveFile
  <2>3. ASSUME NEW c \in Caller, Step(c) PROVE Untouched(p) \/ Working(p)
    <3>1. CASE call[c].repo = p
      BY <2>3, <3>1, StepIsOfACall
    <3>2. CASE p # call[c].repo
      <4>1. /\ RowsOf(p)' = RowsOf(p)
            /\ \A d \in Decl : edges'[<<p, d>>] = edges[<<p, d>>]
        BY <1>1, <2>3, <3>2, StepOwnTables
      <4>2. {v \in vecs' : v.id \in Ids(RowsOf(p))} = {v \in vecs : v.id \in Ids(RowsOf(p))}
        BY <1>1, <2>3, <3>2, StepOthersVectors
      <4>3. [d \in Decl |-> edges'[<<p, d>>]] = [d \in Decl |-> edges[<<p, d>>]]
        BY <4>1
      <4>4. Ids(RowsOf(p))' = Ids(RowsOf(p))
        BY <4>1 DEF Ids
      <4>5. ContentOf(p)' = ContentOf(p)
        BY <4>1, <4>2, <4>3, <4>4 DEF ContentOf
      <4> QED
        BY <1>1, <2>3, <3>2, <4>5, StepOwnRepoRow
    <3> QED
      BY <3>1, <3>2
  <2>4. CASE Crash \/ (\E r \in Repo : EditTree(r)) \/ UNCHANGED vars
    BY <2>1, <2>4 DEF Crash, EditTree, vars
  <2> QED
    BY <1>1, <2>1, <2>2, <2>3, <2>4 DEF Next
<1>2. TypeOK /\ IdsNameOneRow /\ PendingRowsStored /\ [Next]_vars
        => [\A r \in Repo : ContentOf(r)' # ContentOf(r) \/ repos'[r] # repos[r] =>
              \E c \in Caller : Active(c) /\ call[c].repo = r]_vars
  BY <1>1
<1> QED
  BY <1>2, TypeCorrect, IdsNeverReused, IndexesFromScratch, PTL
     DEF Spec, OtherReposUntouched
=============================================================================
