------------------------- MODULE DepIndexer_proofs --------------------------
(***************************************************************************)
(* Proofs about DepIndexer: every call works on a package of its manifest, *)
(* and what a call has found stays in the store from its insert on, since  *)
(* no step of the four tools ever deletes: whatever fails, and whichever   *)
(* calls meet on a package, indexed_packages does not promise more than    *)
(* there is.  Nothing but the order of the calls keeps it from holding     *)
(* twice what it promises.                                                 *)
(***************************************************************************)
EXTENDS DepIndexer, GlobalStore_proofs

----------------------------------------------------------------------------
(* Types.                                                                  *)

\* A call at work has a package at hand, and one with a source if it parses it.
HasPackage ==
    \A c \in Caller :
        /\ Active(c) => call[c].todo # <<>>
        /\ At(c, "parse") => Source[Pkg(c)] # NoSource

DepTyped == TypeOK /\ HasPackage

LEMMA RestingType ==
    ASSUME NEW pc \in RestPoints
    PROVE  Resting(pc) \in Call /\ Resting(pc).pc = pc
BY DEF Resting, Call, RestPoints

LEMMA CheckingType ==
    ASSUME NEW todo \in Seq(Repo)
    PROVE  LET k == [Resting("check") EXCEPT !.todo = todo]
           IN  k \in Call /\ k.pc = "check" /\ k.todo = todo
BY DEF Resting, Call

LEMMA PkgType ==
    ASSUME DepTyped, NEW c \in Caller, Active(c)
    PROVE  /\ Pkg(c) \in Repo /\ Tail(call[c].todo) \in Seq(Repo)
           /\ call[c] \in Call /\ call[c].todo \in Seq(Repo) /\ call[c].todo # <<>>
           /\ call[c].found \in SUBSET Decl
<1>1. call[c] \in Call /\ call[c].todo \in Seq(Repo) /\ call[c].todo # <<>>
  BY DEF DepTyped, TypeOK, HasPackage, Call
<1>2. call[c].found \in SUBSET Decl
  BY DEF DepTyped, TypeOK, Call
<1> QED
  BY <1>1, <1>2 DEF Pkg

\* A call that is through with a package is at the check of the next one, or done.
LEMMA NextPackageType ==
    ASSUME DepTyped, NEW c \in Caller, Active(c), NextPackage(c)
    PROVE  /\ \A k \in Caller \ {c} : call'[k] = call[k]
           /\ call'[c].pc \in {"check", "done"}
           /\ call'[c].pc = "check" => call'[c].todo # <<>>
           /\ call' \in [Caller -> Call]
<1> DEFINE rest == Tail(call[c].todo)
<1>1. rest \in Seq(Repo)
  BY PkgType
<1> HIDE DEF rest
<1>2. CASE rest = <<>>
  <2>1. call' = [call EXCEPT ![c] = Resting("done")]
    BY <1>2 DEF NextPackage, rest
  <2> QED
    BY <2>1, RestingType DEF DepTyped, TypeOK, RestPoints
<1>3. CASE rest # <<>>
  <2>1. call' = [call EXCEPT ![c] = [Resting("check") EXCEPT !.todo = rest]]
    BY <1>3 DEF NextPackage, rest
  <2> QED
    BY <1>1, <1>3, <2>1, CheckingType DEF DepTyped, TypeOK
<1> QED
  BY <1>2, <1>3

LEMMA GotoType ==
    ASSUME DepTyped, NEW c \in Caller, NEW pc \in {"parse", "edges", "mark"}, Goto(c, pc)
    PROVE  /\ \A k \in Caller \ {c} : call'[k] = call[k]
           /\ call'[c] = [call[c] EXCEPT !.pc = pc]
           /\ call'[c].pc = pc /\ call'[c].todo = call[c].todo
           /\ call'[c].found = call[c].found
           /\ call' \in [Caller -> Call]
BY DEF Goto, DepTyped, TypeOK, Call

\* A call that ends early.
LEMMA GiveUpType ==
    ASSUME DepTyped, NEW c \in Caller, call' = [call EXCEPT ![c] = Resting("failed")]
    PROVE  /\ \A k \in Caller \ {c} : call'[k] = call[k]
           /\ call'[c].pc = "failed"
           /\ call' \in [Caller -> Call]
BY RestingType DEF DepTyped, TypeOK, RestPoints

LEMMA DisorderType ==
    ASSUME DepTyped, NEW P, Disorder(P)
    PROVE  /\ orderly' \in [Repo -> BOOLEAN]
           /\ \A p \in Repo : orderly'[p] <=> orderly[p] /\ p \notin P
BY DEF Disorder, DepTyped, TypeOK

LEMMA FailuresType ==
    ASSUME failures \in 0 .. MaxFailures, NEW kind, Reliable \/ Unreliable(kind)
    PROVE  failures' \in 0 .. MaxFailures
BY BoundAssumption DEF Reliable, Unreliable

----------------------------------------------------------------------------
(* What each action may change, once and for all of the proofs below.      *)

\* The calls other than c stay where they are.
OthersStay(c) == \A k \in Caller \ {c} : call'[k] = call[k]
NothingStored == UNCHANGED storeVars

LEMMA StartCallStep ==
    ASSUME DepTyped, NEW c \in Caller, NEW m \in Manifests, StartCall(c, m)
    PROVE  /\ ~Active(c) /\ OthersStay(c) /\ call' \in [Caller -> Call]
           /\ call'[c].pc \in {"check", "done", "failed"}
           /\ call'[c].pc = "check" => call'[c].todo # <<>>
           /\ started' \in 0 .. MaxCalls
           /\ NothingStored /\ UNCHANGED <<packages, failures, orderly>>
<1>1. m \in Seq(Repo)
  BY PackageAssumption
<1>2. started' \in 0 .. MaxCalls
  BY BoundAssumption DEF StartCall, DepTyped, TypeOK
<1>3. NothingStored /\ UNCHANGED <<packages, failures, orderly>> /\ ~Active(c)
  BY DEF StartCall, Order, NothingStored
<1>4. CASE m = <<>>
  <2>1. PICK end \in {"done", "failed"} : call' = [call EXCEPT ![c] = Resting(end)]
    BY <1>4 DEF StartCall
  <2>2. OthersStay(c) /\ call' \in [Caller -> Call] /\ call'[c].pc = end
    BY <2>1, RestingType DEF OthersStay, DepTyped, TypeOK, RestPoints
  <2> QED
    BY <1>2, <1>3, <2>2
<1>5. CASE m # <<>>
  <2>1. call' = [call EXCEPT ![c] = [Resting("check") EXCEPT !.todo = m]]
    BY <1>5 DEF StartCall
  <2>2. /\ OthersStay(c) /\ call' \in [Caller -> Call]
        /\ call'[c].pc = "check" /\ call'[c].todo = m
    BY <1>1, <2>1, CheckingType DEF OthersStay, DepTyped, TypeOK
  <2> QED
    BY <1>2, <1>3, <1>5, <2>2
<1> QED
  BY <1>4, <1>5

\* A check either skips the package or goes on to its source; it goes on only
\* if the package is not marked or the lookup failed.
LEMMA CheckStep ==
    ASSUME DepTyped, NEW c \in Caller, Check(c)
    PROVE  /\ At(c, "check") /\ Active(c)
           /\ OthersStay(c) /\ call' \in [Caller -> Call]
           /\ call'[c].pc \in {"check", "done", "parse"}
           /\ call'[c].pc = "check" => call'[c].todo # <<>>
           /\ call'[c].pc = "parse" =>
                 call'[c].todo = call[c].todo /\ Source[Pkg(c)] # NoSource
           /\ orderly' \in [Repo -> BOOLEAN]
           /\ \A p \in Repo : orderly'[p] => orderly[p]
           /\ call'[c].pc = "parse" /\ orderly'[Pkg(c)] =>
                 /\ packages[Pkg(c)] = NoPkg
                 /\ \A k \in Caller : ~Indexing(k, Pkg(c))
           /\ failures' \in 0 .. MaxFailures
           /\ NothingStored /\ UNCHANGED <<packages, started>>
<1> DEFINE p == Pkg(c)
           others == {q \in {p} : \E k \in Caller : Indexing(k, q)}
           Miss == IF Source[p] = NoSource THEN NextPackage(c) ELSE Goto(c, "parse")
           Moves == /\ OthersStay(c) /\ call' \in [Caller -> Call]
                    /\ call'[c].pc \in {"check", "done", "parse"}
                    /\ call'[c].pc = "check" => call'[c].todo # <<>>
                    /\ call'[c].pc = "parse" =>
                          call'[c].todo = call[c].todo /\ Source[Pkg(c)] # NoSource
<1>1. At(c, "check") /\ Active(c) /\ NothingStored /\ UNCHANGED <<packages, started>>
  BY DEF Check, At, Active, RestPoints, NothingStored
<1>2. p \in Repo
  BY <1>1, PkgType
<1>3. NextPackage(c) => Moves /\ call'[c].pc # "parse"
  BY <1>1, NextPackageType DEF OthersStay
<1>4. Miss => Moves
  BY <1>3, GotoType DEF OthersStay
<1>5. failures \in 0 .. MaxFailures /\ orderly \in [Repo -> BOOLEAN]
  BY DEF DepTyped, TypeOK
<1>6. \/ packages[p] # NoPkg /\ NextPackage(c) /\ Order /\ Reliable
      \/ packages[p] = NoPkg /\ Miss /\ Disorder(others) /\ Reliable
      \/ Miss /\ Disorder(others \cup {q \in {p} : packages[q] # NoPkg})
         /\ Unreliable("check")
  BY DEF Check
<1>7. \A k \in Caller : Indexing(k, p) => p \in others
  OBVIOUS
<1> HIDE DEF p, others, Miss
<1>8. CASE packages[p] # NoPkg /\ NextPackage(c) /\ Order /\ Reliable
  BY <1>1, <1>3, <1>5, <1>8, FailuresType DEF Order, p
<1>9. CASE packages[p] = NoPkg /\ Miss /\ Disorder(others) /\ Reliable
  <2>1. /\ orderly' \in [Repo -> BOOLEAN]
        /\ \A q \in Repo : orderly'[q] <=> orderly[q] /\ q \notin others
    BY <1>9, DisorderType
  <2>2. failures' \in 0 .. MaxFailures
    BY <1>5, <1>9, FailuresType
  <2> QED
    BY <1>1, <1>2, <1>4, <1>7, <1>9, <2>1, <2>2 DEF p
<1>10. CASE Miss /\ Disorder(others \cup {q \in {p} : packages[q] # NoPkg})
            /\ Unreliable("check")
  <2> DEFINE P == others \cup {q \in {p} : packages[q] # NoPkg}
  <2>1. /\ orderly' \in [Repo -> BOOLEAN]
        /\ \A q \in Repo : orderly'[q] <=> orderly[q] /\ q \notin P
    BY <1>10, DisorderType
  <2>2. failures' \in 0 .. MaxFailures
    BY <1>5, <1>10, FailuresType
  <2>3. others \subseteq P /\ (packages[p] # NoPkg => p \in P)
    OBVIOUS
  <2> HIDE DEF P
  <2> QED
    BY <1>1, <1>2, <1>4, <1>7, <1>10, <2>1, <2>2, <2>3 DEF p
<1> QED
  BY <1>6, <1>8, <1>9, <1>10

\* What a parse finds are declarations of the package's source.
LEMMA ParseStep ==
    ASSUME DepTyped, NEW c \in Caller, Parse(c)
    PROVE  /\ At(c, "parse") /\ Active(c)
           /\ OthersStay(c) /\ call' \in [Caller -> Call]
           /\ \/ call'[c].pc = "insert" /\ call'[c].todo = call[c].todo
              \/ call'[c].pc = "failed"
           /\ failures' \in 0 .. MaxFailures
           /\ NothingStored /\ UNCHANGED <<packages, started, orderly>>
<1>1. /\ At(c, "parse") /\ Active(c)
      /\ NothingStored /\ UNCHANGED <<packages, started, orderly>>
  BY DEF Parse, At, Active, RestPoints, NothingStored, Order
<1>2. failures \in 0 .. MaxFailures
  BY DEF DepTyped, TypeOK
<1>3. ASSUME NEW skipped \in SUBSET File,
             call' = [call EXCEPT ![c].pc = "insert",
                ![c].found = {d \in Source[Pkg(c)] : FileOf[d] \notin skipped}],
             Reliable
      PROVE  /\ OthersStay(c) /\ call' \in [Caller -> Call]
             /\ call'[c].pc = "insert" /\ call'[c].todo = call[c].todo
             /\ failures' \in 0 .. MaxFailures
  <2> DEFINE found == {d \in Source[Pkg(c)] : FileOf[d] \notin skipped}
  <2>1. Pkg(c) \in Repo /\ Source[Pkg(c)] # NoSource
    BY <1>1, PkgType DEF DepTyped, HasPackage
  <2>2. found \in SUBSET Decl
    BY <2>1, PackageAssumption
  <2> HIDE DEF found
  <2> DEFINE k == [call[c] EXCEPT !.pc = "insert", !.found = found]
  <2>3. k \in Call /\ k.pc = "insert" /\ k.todo = call[c].todo
    BY <2>2, <1>1, PkgType DEF Call
  <2>4. call' = [call EXCEPT ![c] = k]
    BY <1>3 DEF found, DepTyped, TypeOK
  <2>5. call' \in [Caller -> Call] /\ call'[c] = k /\ OthersStay(c)
    <3> HIDE DEF k
    <3> QED
      BY <2>3, <2>4 DEF OthersStay, DepTyped, TypeOK
  <2> HIDE DEF k
  <2> QED
    BY <1>2, <1>3, <2>3, <2>5, FailuresType
<1>4. CASE call' = [call EXCEPT ![c] = Resting("failed")] /\ Unreliable("parse")
  BY <1>1, <1>2, <1>4, GiveUpType, FailuresType DEF OthersStay
<1> QED
  BY <1>1, <1>2, <1>3, <1>4 DEF Parse

LEMMA InsertStep ==
    ASSUME DepTyped, NEW c \in Caller, Insert(c)
    PROVE  /\ At(c, "insert") /\ Active(c)
           /\ OthersStay(c) /\ call' \in [Caller -> Call]
           /\ \/ /\ InsertSymbols(Pkg(c), call[c].found)
                 /\ call'[c].pc = "edges" /\ call'[c].todo = call[c].todo
                 /\ call'[c].found = call[c].found
              \/ NothingStored /\ call'[c].pc = "failed"
           /\ failures' \in 0 .. MaxFailures
           /\ UNCHANGED <<packages, started, orderly>>
<1>1. /\ At(c, "insert") /\ Active(c) /\ UNCHANGED <<packages, started, orderly>>
  BY DEF Insert, At, Active, RestPoints, Order
<1>2. failures \in 0 .. MaxFailures
  BY DEF DepTyped, TypeOK
<1>3. CASE InsertSymbols(Pkg(c), call[c].found) /\ Goto(c, "edges") /\ Reliable
  BY <1>1, <1>2, <1>3, GotoType, FailuresType DEF OthersStay
<1>4. CASE /\ call' = [call EXCEPT ![c] = Resting("failed")]
           /\ Unreliable("insert") /\ UNCHANGED storeVars
  BY <1>1, <1>2, <1>4, GiveUpType, FailuresType DEF OthersStay, NothingStored
<1> QED
  BY <1>3, <1>4 DEF Insert

LEMMA InsertEdgesStep ==
    ASSUME DepTyped, NEW c \in Caller, InsertEdges(c)
    PROVE  /\ At(c, "edges") /\ Active(c)
           /\ OthersStay(c) /\ call' \in [Caller -> Call]
           /\ \/ call'[c].pc = "mark" /\ call'[c].todo = call[c].todo
                 /\ call'[c].found = call[c].found
              \/ call'[c].pc = "failed"
           /\ \/ /\ InsertCallEdges(Pkg(c), call[c].found)
                 /\ call'[c].pc = "mark" /\ UNCHANGED orderly
              \/ /\ NothingStored /\ Disorder({Pkg(c)})
                 /\ Pkg(c) \in Rust => call'[c].pc = "failed"
           /\ failures' \in 0 .. MaxFailures
           /\ UNCHANGED <<packages, started>>
<1>1. /\ At(c, "edges") /\ Active(c) /\ UNCHANGED <<packages, started>>
  BY DEF InsertEdges, At, Active, RestPoints
<1>2. failures \in 0 .. MaxFailures
  BY DEF DepTyped, TypeOK
<1>3. CASE /\ InsertCallEdges(Pkg(c), call[c].found)
           /\ Goto(c, "mark") /\ Reliable /\ Order
  BY <1>1, <1>2, <1>3, GotoType, FailuresType DEF OthersStay, Order
<1>4. ASSUME Unreliable("edges"), UNCHANGED storeVars, Disorder({Pkg(c)}),
             IF Pkg(c) \in Rust THEN call' = [call EXCEPT ![c] = Resting("failed")]
                                ELSE Goto(c, "mark")
      PROVE  /\ OthersStay(c) /\ call' \in [Caller -> Call]
             /\ \/ call'[c].pc = "mark" /\ call'[c].todo = call[c].todo
                   /\ call'[c].found = call[c].found
                \/ call'[c].pc = "failed"
             /\ Pkg(c) \in Rust => call'[c].pc = "failed"
             /\ failures' \in 0 .. MaxFailures
             /\ NothingStored
  <2>1. failures' \in 0 .. MaxFailures /\ NothingStored
    BY <1>2, <1>4, FailuresType DEF NothingStored
  <2>2. CASE Pkg(c) \in Rust
    BY <1>4, <2>1, <2>2, GiveUpType DEF OthersStay
  <2>3. CASE Pkg(c) \notin Rust
    BY <1>4, <2>1, <2>3, GotoType DEF OthersStay
  <2> QED
    BY <2>2, <2>3
<1> QED
  BY <1>1, <1>3, <1>4 DEF InsertEdges

LEMMA MarkStep ==
    ASSUME DepTyped, NEW c \in Caller, Mark(c)
    PROVE  /\ At(c, "mark") /\ Active(c)
           /\ OthersStay(c) /\ call' \in [Caller -> Call]
           /\ call'[c].pc \in {"check", "done"}
           /\ call'[c].pc = "check" => call'[c].todo # <<>>
           /\ \/ /\ packages' = [packages EXCEPT ![Pkg(c)] = Cardinality(call[c].found)]
                 /\ UNCHANGED orderly
              \/ UNCHANGED packages /\ Disorder({Pkg(c)})
           /\ failures' \in 0 .. MaxFailures
           /\ NothingStored /\ UNCHANGED started
<1>1. At(c, "mark") /\ Active(c) /\ NothingStored /\ UNCHANGED started
  BY DEF Mark, At, Active, RestPoints, NothingStored
<1>2. failures \in 0 .. MaxFailures
  BY DEF DepTyped, TypeOK
<1>3. NextPackage(c)
  BY DEF Mark
<1>4. failures' \in 0 .. MaxFailures
  BY <1>2, FailuresType DEF Mark
<1> QED
  BY <1>1, <1>3, <1>4, NextPackageType DEF Mark, OthersStay, Order

LEMMA CrashStep ==
    ASSUME DepTyped, Crash
    PROVE  /\ call' \in [Caller -> Call]
           /\ \A c \in Caller : call'[c].pc \in RestPoints
           /\ orderly' \in [Repo -> BOOLEAN]
           /\ \A p \in Repo : orderly'[p] =>
                 /\ orderly[p]
                 /\ \A c \in Caller : Indexing(c, p) => call[c].pc \in {"parse", "insert"}
           /\ failures' \in 0 .. MaxFailures
           /\ NothingStored /\ UNCHANGED <<packages, started>>
<1> DEFINE P == {p \in Repo :
                   \E c \in Caller : call[c].pc \in {"edges", "mark"} /\ Pkg(c) = p}
<1>1. \A c \in Caller : call'[c] = IF Active(c) THEN Resting("failed") ELSE call[c]
  BY DEF Crash
<1>2. call' \in [Caller -> Call] /\ \A c \in Caller : call'[c].pc \in RestPoints
  BY <1>1, RestingType DEF Crash, DepTyped, TypeOK, Active, RestPoints
<1>3. Disorder(P)
  BY DEF Crash
<1>4. /\ orderly' \in [Repo -> BOOLEAN]
      /\ \A p \in Repo : orderly'[p] <=> orderly[p] /\ p \notin P
  BY <1>3, DisorderType
<1>5. \A p \in Repo, c \in Caller : p \notin P /\ Indexing(c, p) =>
         call[c].pc \in {"parse", "insert"}
  BY DEF Indexing
<1> HIDE DEF P
<1>6. failures' \in 0 .. MaxFailures
  BY FailuresType DEF Crash, DepTyped, TypeOK
<1> QED
  BY <1>2, <1>4, <1>5, <1>6 DEF Crash, NothingStored

----------------------------------------------------------------------------
(* TypeCorrect.                                                            *)

LEMMA InitType == Init => DepTyped
<1> SUFFICES ASSUME Init PROVE DepTyped
  OBVIOUS
<1>1. Resting("idle") \in Call /\ Resting("idle").pc = "idle"
  BY RestingType DEF RestPoints
<1>2. StoreTypeOK
  BY DEF Init, StoreTypeOK
<1>3. call \in [Caller -> Call] /\ HasPackage
  BY <1>1 DEF Init, HasPackage, Active, At, RestPoints
<1> QED
  BY <1>2, <1>3, BoundAssumption DEF Init, DepTyped, TypeOK

LEMMA StepType ==
    ASSUME DepTyped, NEW c \in Caller, Step(c)
    PROVE  DepTyped'
<1>1. \A k \in Caller : OthersStay(c) => k = c \/ call'[k] = call[k]
  BY DEF OthersStay
<1>2. CASE Check(c)
  <2>1. StoreTypeOK'
    BY <1>2, CheckStep, UnchangedStoreType DEF NothingStored, DepTyped, TypeOK
  <2>2. HasPackage'
    BY <1>1, <1>2, CheckStep
    DEF HasPackage, Active, At, Pkg, RestPoints, DepTyped
  <2> QED
    BY <1>2, <2>1, <2>2, CheckStep DEF DepTyped, TypeOK
<1>3. CASE Parse(c)
  <2>1. StoreTypeOK'
    BY <1>3, ParseStep, UnchangedStoreType DEF NothingStored, DepTyped, TypeOK
  <2>2. HasPackage'
    BY <1>1, <1>3, ParseStep
    DEF HasPackage, Active, At, Pkg, RestPoints, DepTyped
  <2> QED
    BY <1>3, <2>1, <2>2, ParseStep DEF DepTyped, TypeOK
<1>4. CASE Insert(c)
  <2>1. StoreTypeOK'
    BY <1>4, InsertStep, PkgType, UnchangedStoreType, InsertSymbolsType
    DEF NothingStored, DepTyped, TypeOK
  <2>2. HasPackage'
    BY <1>1, <1>4, InsertStep
    DEF HasPackage, Active, At, Pkg, RestPoints, DepTyped
  <2> QED
    BY <1>4, <2>1, <2>2, InsertStep DEF DepTyped, TypeOK
<1>5. CASE InsertEdges(c)
  <2>1. StoreTypeOK'
    BY <1>5, InsertEdgesStep, PkgType, UnchangedStoreType, InsertCallEdgesType
    DEF NothingStored, DepTyped, TypeOK
  <2>2. HasPackage'
    BY <1>1, <1>5, InsertEdgesStep
    DEF HasPackage, Active, At, Pkg, RestPoints, DepTyped
  <2>3. orderly' \in [Repo -> BOOLEAN]
    BY <1>5, InsertEdgesStep, DisorderType DEF DepTyped, TypeOK
  <2> QED
    BY <1>5, <2>1, <2>2, <2>3, InsertEdgesStep DEF DepTyped, TypeOK
<1>6. CASE Mark(c)
  <2>1. StoreTypeOK'
    BY <1>6, MarkStep, UnchangedStoreType DEF NothingStored, DepTyped, TypeOK
  <2>2. HasPackage'
    BY <1>1, <1>6, MarkStep
    DEF HasPackage, Active, At, Pkg, RestPoints, DepTyped
  <2>3. orderly' \in [Repo -> BOOLEAN]
    BY <1>6, MarkStep, DisorderType DEF DepTyped, TypeOK
  <2>4. Cardinality(call[c].found) \in Nat
    BY <1>6, MarkStep, PkgType, BatchFinite
  <2>5. packages' \in [Repo -> Nat \cup {NoPkg}]
    BY <1>6, <2>4, MarkStep DEF DepTyped, TypeOK
  <2> QED
    BY <1>6, <2>1, <2>2, <2>3, <2>5, MarkStep DEF DepTyped, TypeOK
<1> QED
  BY <1>2, <1>3, <1>4, <1>5, <1>6 DEF Step

LEMMA NextType ==
    ASSUME DepTyped, [Next]_vars
    PROVE  DepTyped'
<1>1. ASSUME NEW c \in Caller, NEW m \in Manifests, StartCall(c, m)
      PROVE  DepTyped'
  <2>1. StoreTypeOK'
    BY <1>1, StartCallStep, UnchangedStoreType DEF NothingStored, DepTyped, TypeOK
  <2>2. HasPackage'
    BY <1>1, StartCallStep
    DEF HasPackage, Active, At, Pkg, RestPoints, DepTyped, OthersStay
  <2> QED
    BY <1>1, <2>1, <2>2, StartCallStep DEF DepTyped, TypeOK
<1>2. CASE Crash
  <2>1. StoreTypeOK'
    BY <1>2, CrashStep, UnchangedStoreType DEF NothingStored, DepTyped, TypeOK
  <2>2. HasPackage'
    BY <1>2, CrashStep DEF HasPackage, Active, At, RestPoints
  <2> QED
    BY <1>2, <2>1, <2>2, CrashStep DEF DepTyped, TypeOK
<1>3. CASE UNCHANGED vars
  <2>1. StoreTypeOK'
    BY <1>3, UnchangedStoreType DEF vars, DepTyped, TypeOK
  <2> QED
    BY <1>3, <2>1 DEF vars, DepTyped, TypeOK, HasPackage, Active, At, Pkg
<1> QED
  BY <1>1, <1>2, <1>3, StepType DEF Next

\* For any number of packages, manifests and callers the tables and the calls
\* are well typed, and a call at work has a package of its manifest at hand,
\* one with a source once it has decided to parse (the loop of index_*_deps).
THEOREM TypeCorrect == Spec => []TypeOK
<1>1. DepTyped /\ [Next]_vars => DepTyped'
  BY NextType
<1>2. DepTyped => TypeOK
  BY DEF DepTyped
<1> QED
  BY <1>1, <1>2, InitType, PTL DEF Spec

----------------------------------------------------------------------------
(* MarkedIsStored.                                                         *)

StoredDecls(p) == {s.decl : s \in RowsOf(p)}
CalledDecls(p) == {d \in Decl : edges[<<p, d>>] > 0}

\* Between its insert and its mark a call's findings are in the store, and for
\* Rust, whose failures to insert edges end the call, their edges by the mark.
FoundIsStored ==
    \A c \in Caller :
        /\ call[c].pc \in {"edges", "mark"} => call[c].found \subseteq StoredDecls(Pkg(c))
        /\ call[c].pc = "mark" /\ Pkg(c) \in Rust =>
              call[c].found \subseteq CalledDecls(Pkg(c))

StoredInv == DepTyped /\ FoundIsStored /\ MarkedIsStored

\* No step of the four tools deletes a symbol or a call edge.
LEMMA StoreGrows ==
    ASSUME DepTyped, [Next]_vars, NEW p \in Repo
    PROVE  /\ StoredDecls(p) \subseteq StoredDecls(p)'
           /\ CalledDecls(p) \subseteq CalledDecls(p)'
<1> DEFINE Grows == /\ StoredDecls(p) \subseteq StoredDecls(p)'
                    /\ CalledDecls(p) \subseteq CalledDecls(p)'
<1>1. NothingStored => Grows
  BY DEF NothingStored, storeVars, StoredDecls, CalledDecls, RowsOf
<1>2. ASSUME NEW c \in Caller, InsertSymbols(Pkg(c), call[c].found)
      PROVE  Grows
  BY <1>2 DEF InsertSymbols, StoredDecls, CalledDecls, RowsOf
<1>3. ASSUME NEW c \in Caller, InsertCallEdges(Pkg(c), call[c].found)
      PROVE  Grows
  <2>1. \A d \in Decl : edges[<<p, d>>] \in Nat
    BY DEF DepTyped, TypeOK, StoreTypeOK
  <2>2. \A d \in Decl : edges[<<p, d>>] > 0 => edges'[<<p, d>>] > 0
    BY <1>3, <2>1 DEF InsertCallEdges, AddEdges, DepTyped, TypeOK, StoreTypeOK
  <2> QED
    BY <1>3, <2>2 DEF InsertCallEdges, StoredDecls, CalledDecls, RowsOf
<1> HIDE DEF Grows
<1>4. ASSUME NEW c \in Caller, Step(c) PROVE Grows
  BY <1>1, <1>2, <1>3, <1>4, CheckStep, ParseStep, InsertStep, InsertEdgesStep, MarkStep
  DEF Step
<1>5. UNCHANGED vars => Grows
  BY <1>1 DEF vars, NothingStored
<1>6. Grows
  BY <1>1, <1>4, <1>5, StartCallStep, CrashStep DEF Next
<1> QED
  BY <1>6 DEF Grows

\* What an insert leaves in the tables.
LEMMA InsertStores ==
    ASSUME DepTyped, NEW p \in Repo, NEW D \in SUBSET Decl, InsertSymbols(p, D)
    PROVE  D \subseteq StoredDecls(p)'
<1>1. \A d \in D : \E s \in NewRows(p, D, nextId) : s.decl = d /\ s.repo = p
  BY NewRowsOf
<1>2. NewRows(p, D, nextId) \subseteq symbols'
  BY DEF InsertSymbols
<1> QED
  BY <1>1, <1>2 DEF StoredDecls, RowsOf

LEMMA InsertCalls ==
    ASSUME DepTyped, NEW p \in Repo, NEW D \in SUBSET Decl, InsertCallEdges(p, D)
    PROVE  D \subseteq CalledDecls(p)'
<1>1. \A d \in D : edges[<<p, d>>] \in Nat /\ edges'[<<p, d>>] = edges[<<p, d>>] + 1
  BY DEF InsertCallEdges, AddEdges, DepTyped, TypeOK, StoreTypeOK
<1> QED
  BY <1>1 DEF CalledDecls

\* A call that does not move keeps its findings in the store.
LEMMA FoundStays ==
    ASSUME StoredInv, [Next]_vars, NEW k \in Caller,
           call'[k].pc \in {"edges", "mark"}, Active(k),
           call'[k].todo = call[k].todo, call'[k].found = call[k].found
    PROVE  /\ call[k].found \subseteq StoredDecls(Pkg(k)) =>
                 call'[k].found \subseteq StoredDecls(Pkg(k))'
           /\ call[k].found \subseteq CalledDecls(Pkg(k)) =>
                 call'[k].found \subseteq CalledDecls(Pkg(k))'
<1>1. PICK p \in Repo : Pkg(k) = p
  BY PkgType DEF StoredInv
<1>2. Pkg(k)' = p
  BY <1>1 DEF Pkg
<1>3. StoredDecls(Pkg(k))' = StoredDecls(p)' /\ CalledDecls(Pkg(k))' = CalledDecls(p)'
  BY <1>2 DEF StoredDecls, CalledDecls, RowsOf
<1>4. /\ StoredDecls(p) \subseteq StoredDecls(p)'
      /\ CalledDecls(p) \subseteq CalledDecls(p)'
  BY StoreGrows DEF StoredInv
<1> QED
  BY <1>1, <1>3, <1>4

\* The count of a set of stored declarations is no more than of all of them.
LEMMA CountGrows ==
    ASSUME NEW S, NEW T \in SUBSET Decl, S \subseteq T
    PROVE  Cardinality(S) \in Nat /\ Cardinality(T) \in Nat
           /\ Cardinality(S) <= Cardinality(T)
BY BatchFinite, FS_Subset, FS_CardinalityType

LEMMA StoredDeclsType ==
    ASSUME DepTyped, NEW p \in Repo
    PROVE  StoredDecls(p) \in SUBSET Decl /\ CalledDecls(p) \in SUBSET Decl
BY DEF DepTyped, TypeOK, StoreTypeOK, Symbol, StoredDecls, CalledDecls, RowsOf

\* What is marked stays backed: the tables only grow.
LEMMA MarkStays ==
    ASSUME StoredInv, [Next]_vars, NEW p \in Repo, packages[p] # NoPkg,
           packages'[p] = packages[p]
    PROVE  /\ packages'[p] <= Cardinality(StoredDecls(p))'
           /\ p \in Rust => packages'[p] <= Cardinality(CalledDecls(p))'
<1>1. DepTyped /\ DepTyped'
  BY NextType DEF StoredInv
<1>2. packages[p] \in Nat
  BY <1>1 DEF DepTyped, TypeOK
<1>3. /\ packages[p] <= Cardinality(StoredDecls(p))
      /\ p \in Rust => packages[p] <= Cardinality(CalledDecls(p))
  BY DEF StoredInv, MarkedIsStored, StoredDecls, CalledDecls
<1>4. /\ StoredDecls(p)' \in SUBSET Decl /\ CalledDecls(p)' \in SUBSET Decl
  BY <1>1 DEF DepTyped, TypeOK, StoreTypeOK, Symbol, StoredDecls, CalledDecls, RowsOf
<1>5. /\ StoredDecls(p) \subseteq StoredDecls(p)'
      /\ CalledDecls(p) \subseteq CalledDecls(p)'
  BY <1>1, StoreGrows
<1>6. /\ Cardinality(StoredDecls(p)) \in Nat /\ Cardinality(StoredDecls(p)') \in Nat
      /\ Cardinality(StoredDecls(p)) <= Cardinality(StoredDecls(p)')
  BY <1>4, <1>5, CountGrows
<1>7. /\ Cardinality(CalledDecls(p)) \in Nat /\ Cardinality(CalledDecls(p)') \in Nat
      /\ Cardinality(CalledDecls(p)) <= Cardinality(CalledDecls(p)')
  BY <1>4, <1>5, CountGrows
<1> QED
  BY <1>2, <1>3, <1>6, <1>7

LEMMA NextMarked ==
    ASSUME StoredInv, [Next]_vars
    PROVE  FoundIsStored' /\ MarkedIsStored'
<1>1. DepTyped /\ DepTyped'
  BY NextType DEF StoredInv
<1> DEFINE Stored(k) ==
        /\ call[k].pc \in {"edges", "mark"} => call[k].found \subseteq StoredDecls(Pkg(k))
        /\ call[k].pc = "mark" /\ Pkg(k) \in Rust =>
              call[k].found \subseteq CalledDecls(Pkg(k))
           Backed(p) ==
        packages[p] # NoPkg =>
           /\ packages[p] <= Cardinality(StoredDecls(p))
           /\ p \in Rust => packages[p] <= Cardinality(CalledDecls(p))
<1>2. /\ FoundIsStored <=> \A k \in Caller : Stored(k)
      /\ MarkedIsStored <=> \A p \in Repo : Backed(p)
  BY DEF FoundIsStored, MarkedIsStored, StoredDecls, CalledDecls
<1>3. /\ FoundIsStored' <=> \A k \in Caller : Stored(k)'
      /\ MarkedIsStored' <=> \A p \in Repo : Backed(p)'
  BY DEF FoundIsStored, MarkedIsStored, StoredDecls, CalledDecls
<1>4. ASSUME NEW k \in Caller, call'[k] = call[k] PROVE Stored(k)'
  <2>1. CASE call[k].pc \in {"edges", "mark"}
    <3>1. Stored(k) /\ Active(k) /\ Pkg(k)' = Pkg(k)
      BY <1>2, <1>4, <2>1 DEF StoredInv, Active, RestPoints, Pkg
    <3> QED
      BY <1>4, <2>1, <3>1, FoundStays
  <2>2. CASE call[k].pc \notin {"edges", "mark"}
    BY <1>4, <2>2
  <2> QED
    BY <2>1, <2>2
<1>5. ASSUME NEW p \in Repo, packages'[p] = packages[p] PROVE Backed(p)'
  BY <1>5, MarkStays
<1> HIDE DEF Stored, Backed
<1>6. ASSUME NEW c \in Caller, OthersStay(c), UNCHANGED packages,
             call'[c].pc \notin {"edges", "mark"}
      PROVE  FoundIsStored' /\ MarkedIsStored'
  <2>1. Stored(c)'
    BY <1>6 DEF Stored
  <2>2. \A k \in Caller : k = c \/ call'[k] = call[k]
    BY <1>6 DEF OthersStay
  <2> QED
    BY <1>3, <1>4, <1>5, <1>6, <2>1, <2>2
<1>7. ASSUME NEW c \in Caller, NEW m \in Manifests, StartCall(c, m)
      PROVE  FoundIsStored' /\ MarkedIsStored'
  BY <1>1, <1>6, <1>7, StartCallStep
<1>8. ASSUME NEW c \in Caller, Check(c)
      PROVE  FoundIsStored' /\ MarkedIsStored'
  BY <1>1, <1>6, <1>8, CheckStep
<1>9. ASSUME NEW c \in Caller, Parse(c)
      PROVE  FoundIsStored' /\ MarkedIsStored'
  BY <1>1, <1>6, <1>9, ParseStep
<1>10. ASSUME NEW c \in Caller, Insert(c)
       PROVE  FoundIsStored' /\ MarkedIsStored'
  <2>1. CASE call'[c].pc = "failed"
    BY <1>1, <1>6, <1>10, <2>1, InsertStep
  <2>2. CASE call'[c].pc # "failed"
    <3>1. /\ InsertSymbols(Pkg(c), call[c].found)
          /\ call'[c].pc = "edges" /\ call'[c].todo = call[c].todo
          /\ call'[c].found = call[c].found
          /\ OthersStay(c) /\ UNCHANGED packages /\ Active(c)
      BY <1>1, <1>10, <2>2, InsertStep
    <3>2. PICK p \in Repo : Pkg(c) = p
      BY <1>1, <3>1, PkgType
    <3>3. Pkg(c)' = p
      BY <3>1, <3>2 DEF Pkg
    <3>4. call[c].found \subseteq StoredDecls(p)'
      BY <1>1, <3>1, <3>2, PkgType, InsertStores
    <3>5. StoredDecls(Pkg(c))' = StoredDecls(p)'
      BY <3>3 DEF StoredDecls, RowsOf
    <3>6. Stored(c)'
      BY <3>1, <3>4, <3>5 DEF Stored
    <3>7. \A k \in Caller : k = c \/ call'[k] = call[k]
      BY <3>1 DEF OthersStay
    <3> QED
      BY <1>3, <1>4, <1>5, <3>1, <3>6, <3>7
  <2> QED
    BY <2>1, <2>2
<1>11. ASSUME NEW c \in Caller, InsertEdges(c)
       PROVE  FoundIsStored' /\ MarkedIsStored'
  <2>1. CASE call'[c].pc = "failed"
    BY <1>1, <1>6, <1>11, <2>1, InsertEdgesStep
  <2>2. CASE call'[c].pc # "failed"
    <3>1. /\ InsertCallEdges(Pkg(c), call[c].found) \/ Pkg(c) \notin Rust
          /\ call[c].pc = "edges"
          /\ call'[c].pc = "mark" /\ call'[c].todo = call[c].todo
          /\ call'[c].found = call[c].found
          /\ OthersStay(c) /\ UNCHANGED packages /\ Active(c)
      BY <1>1, <1>11, <2>2, InsertEdgesStep DEF At
    <3>2. PICK p \in Repo : Pkg(c) = p
      BY <1>1, <3>1, PkgType
    <3>3. Pkg(c)' = p
      BY <3>1, <3>2 DEF Pkg
    <3>4. call'[c].found \subseteq StoredDecls(Pkg(c))'
      <4>1. call[c].found \subseteq StoredDecls(Pkg(c))
        BY <1>2, <3>1 DEF StoredInv, Stored
      <4> QED
        BY <3>1, <4>1, FoundStays
    <3>5. p \in Rust => call[c].found \subseteq CalledDecls(p)'
      BY <1>1, <3>1, <3>2, PkgType, InsertCalls
    <3>6. CalledDecls(Pkg(c))' = CalledDecls(p)'
      BY <3>3 DEF CalledDecls
    <3>7. Stored(c)'
      BY <3>1, <3>3, <3>4, <3>5, <3>6 DEF Stored
    <3>8. \A k \in Caller : k = c \/ call'[k] = call[k]
      BY <3>1 DEF OthersStay
    <3> QED
      BY <1>3, <1>4, <1>5, <3>1, <3>7, <3>8
  <2> QED
    BY <2>1, <2>2
<1>12. ASSUME NEW c \in Caller, Mark(c)
       PROVE  FoundIsStored' /\ MarkedIsStored'
  <2>1. CASE UNCHANGED packages
    BY <1>1, <1>6, <1>12, <2>1, MarkStep
  <2>2. CASE packages' = [packages EXCEPT ![Pkg(c)] = Cardinality(call[c].found)]
    <3>1. /\ At(c, "mark") /\ Active(c) /\ OthersStay(c) /\ NothingStored
          /\ call'[c].pc \notin {"edges", "mark"}
      BY <1>1, <1>12, MarkStep
    <3>2. PICK p \in Repo : Pkg(c) = p
      BY <1>1, <3>1, PkgType
    <3>3. /\ call[c].found \subseteq StoredDecls(p)
          /\ p \in Rust => call[c].found \subseteq CalledDecls(p)
      BY <1>2, <3>1, <3>2 DEF StoredInv, Stored, At
    <3>4. /\ Cardinality(call[c].found) <= Cardinality(StoredDecls(p))
          /\ p \in Rust => Cardinality(call[c].found) <= Cardinality(CalledDecls(p))
      BY <1>1, <3>3, StoredDeclsType, CountGrows
    <3>5. StoredDecls(p)' = StoredDecls(p) /\ CalledDecls(p)' = CalledDecls(p)
      BY <3>1 DEF NothingStored, storeVars, StoredDecls, CalledDecls, RowsOf
    <3>6. packages'[p] = Cardinality(call[c].found)
      BY <1>1, <2>2, <3>2 DEF DepTyped, TypeOK
    <3>7. Backed(p)'
      BY <3>4, <3>5, <3>6 DEF Backed
    <3>8. \A q \in Repo : q = p \/ packages'[q] = packages[q]
      BY <1>1, <2>2, <3>2 DEF DepTyped, TypeOK
    <3>9. Stored(c)'
      BY <3>1 DEF Stored
    <3>10. \A k \in Caller : k = c \/ call'[k] = call[k]
      BY <3>1 DEF OthersStay
    <3> QED
      BY <1>3, <1>4, <1>5, <3>7, <3>8, <3>9, <3>10
  <2> QED
    BY <1>1, <1>12, <2>1, <2>2, MarkStep
<1>13. CASE Crash
  <2>1. UNCHANGED packages /\ \A k \in Caller : call'[k].pc \in RestPoints
    BY <1>1, <1>13, CrashStep
  <2>2. \A k \in Caller : Stored(k)'
    BY <2>1 DEF Stored, RestPoints
  <2> QED
    BY <1>3, <1>5, <2>1, <2>2
<1>14. CASE UNCHANGED vars
  BY <1>3, <1>4, <1>5, <1>14 DEF vars
<1> QED
  BY <1>7, <1>8, <1>9, <1>10, <1>11, <1>12, <1>13, <1>14 DEF Next, Step

\* Whatever calls of the four tools overlap, fail or are lost, and for any
\* manifests and packages: a package that mark_package_indexed has recorded has
\* at least the symbols its symbol_count tells every later call, and a Rust
\* package their call edges.
THEOREM MarkedPackagesAreStored == Spec => []MarkedIsStored
<1>1. Init => StoredInv
  <2> SUFFICES ASSUME Init PROVE StoredInv
    OBVIOUS
  <2>1. DepTyped
    BY InitType
  <2>2. FoundIsStored /\ MarkedIsStored
    BY RestingType DEF Init, FoundIsStored, MarkedIsStored, Resting
  <2> QED
    BY <2>1, <2>2 DEF StoredInv
<1>2. StoredInv /\ [Next]_vars => StoredInv'
  BY NextMarked, NextType DEF StoredInv
<1>3. StoredInv => MarkedIsStored
  BY DEF StoredInv
<1> QED
  BY <1>1, <1>2, <1>3, PTL DEF Spec

----------------------------------------------------------------------------
(* StoredOnceWhenOrderly.                                                  *)

OneAtWork(p) == \A a, b \in Caller : Indexing(a, p) /\ Indexing(b, p) => a = b
NoneAt(p, pcs) == \A c \in Caller : Indexing(c, p) => call[c].pc \notin pcs
NoEdges(p) == \A d \in Decl : edges[<<p, d>>] = 0
StoredOnce(p) ==
    /\ \A s, t \in RowsOf(p) : s.decl = t.decl => s = t
    /\ \A d \in Decl : edges[<<p, d>>] <= 1

\* The turn of an orderly package: one call at a time takes it from the check to
\* the mark, nobody after that, and the tables hold nothing of it before its
\* insert and no call edge before theirs.
Turn(p) ==
    /\ OneAtWork(p)
    /\ packages[p] # NoPkg => \A c \in Caller : ~Indexing(c, p)
    /\ packages[p] = NoPkg =>
          /\ NoneAt(p, {"edges", "mark"}) => RowsOf(p) = {}
          /\ NoneAt(p, {"mark"}) => NoEdges(p)
    /\ StoredOnce(p)

TurnsInv == DepTyped /\ \A p \in Repo : orderly[p] => Turn(p)

SameTables(p) ==
    /\ packages'[p] = packages[p]
    /\ RowsOf(p)' = RowsOf(p)
    /\ \A d \in Decl : edges'[<<p, d>>] = edges[<<p, d>>]

LEMMA SameStoreSameTables ==
    ASSUME NEW p \in Repo, NothingStored, packages'[p] = packages[p]
    PROVE  SameTables(p)
BY DEF NothingStored, storeVars, SameTables, RowsOf

\* A turn is kept by what leaves the package's tables alone, brings no call to
\* it and takes none away between its inserts and its mark.
LEMMA TurnKept ==
    ASSUME NEW p \in Repo, Turn(p), SameTables(p),
           \A k \in Caller : Indexing(k, p)' => Indexing(k, p),
           \A k \in Caller : Indexing(k, p) /\ call[k].pc \in {"edges", "mark"} =>
              Indexing(k, p)' /\ call'[k].pc = call[k].pc
    PROVE  Turn(p)'
<1>1. OneAtWork(p)'
  BY DEF Turn, OneAtWork
<1>2. NoneAt(p, {"edges", "mark"})' => NoneAt(p, {"edges", "mark"})
  BY DEF NoneAt
<1>3. NoneAt(p, {"mark"})' => NoneAt(p, {"mark"})
  BY DEF NoneAt
<1>4. NoEdges(p) => NoEdges(p)'
  BY DEF SameTables, NoEdges
<1>5. StoredOnce(p)'
  BY DEF SameTables, StoredOnce, Turn
<1>6. RowsOf(p)' = RowsOf(p) /\ packages'[p] = packages[p]
  BY DEF SameTables
<1>7. packages[p] # NoPkg => \A c \in Caller : ~Indexing(c, p)'
  BY DEF Turn
<1> HIDE DEF NoneAt, OneAtWork, NoEdges, StoredOnce
<1> QED
  BY <1>1, <1>2, <1>3, <1>4, <1>5, <1>6, <1>7 DEF Turn

\* So by the step of a call c that works on another package, before and after.
LEMMA TurnOfAnother ==
    ASSUME NEW p \in Repo, Turn(p), SameTables(p), NEW c \in Caller, OthersStay(c),
           ~Indexing(c, p), ~Indexing(c, p)'
    PROVE  Turn(p)'
<1>1. \A k \in Caller : k # c => call'[k] = call[k]
  BY DEF OthersStay
<1>2. \A k \in Caller : k # c => (Indexing(k, p)' <=> Indexing(k, p))
  BY <1>1 DEF Indexing, Pkg
<1> QED
  BY <1>1, <1>2, TurnKept

\* The only call at work on an orderly package.
LEMMA TurnAlone ==
    ASSUME NEW p \in Repo, Turn(p), NEW c \in Caller, Indexing(c, p), OthersStay(c)
    PROVE  /\ packages[p] = NoPkg
           /\ \A k \in Caller : k # c => ~Indexing(k, p) /\ ~Indexing(k, p)'
<1>1. packages[p] = NoPkg /\ \A k \in Caller : k # c => ~Indexing(k, p)
  BY DEF Turn, OneAtWork
<1>2. \A k \in Caller : k # c => call'[k] = call[k]
  BY DEF OthersStay
<1> QED
  BY <1>1, <1>2 DEF Indexing, Pkg

LEMMA StepTurns ==
    ASSUME TurnsInv, NEW c \in Caller, Step(c), NEW p \in Repo, orderly'[p]
    PROVE  Turn(p)'
<1>1. DepTyped
  BY DEF TurnsInv
<1>2. orderly[p] => Turn(p)
  BY DEF TurnsInv
<1>3. CASE Check(c)
  <2>1. /\ orderly[p] /\ OthersStay(c) /\ NothingStored /\ UNCHANGED packages
        /\ ~Indexing(c, p)
    BY <1>1, <1>3, CheckStep DEF Indexing, At
  <2>2. SameTables(p) /\ Turn(p)
    BY <1>2, <2>1, SameStoreSameTables
  <2>3. CASE ~Indexing(c, p)'
    BY <2>1, <2>2, <2>3, TurnOfAnother
  <2>4. CASE Indexing(c, p)'
    <3>1. call'[c].pc = "parse" /\ Pkg(c) = p
      BY <1>1, <1>3, <2>4, CheckStep DEF Indexing, Pkg
    <3>2. packages[p] = NoPkg /\ \A k \in Caller : ~Indexing(k, p)
      BY <1>1, <1>3, <3>1, CheckStep
    <3>3. RowsOf(p) = {} /\ NoEdges(p) /\ StoredOnce(p)
      BY <2>2, <3>2 DEF Turn, NoneAt
    <3>4. RowsOf(p)' = {} /\ NoEdges(p)' /\ StoredOnce(p)' /\ packages'[p] = NoPkg
      BY <2>2, <3>2, <3>3 DEF SameTables, NoEdges, StoredOnce
    <3>5. \A k \in Caller : k # c => ~Indexing(k, p)'
      BY <2>1, <3>2 DEF OthersStay, Indexing, Pkg
    <3> QED
      BY <3>4, <3>5 DEF Turn, OneAtWork
  <2> QED
    BY <2>3, <2>4
<1>4. CASE Parse(c)
  <2>1. /\ orderly[p] /\ OthersStay(c) /\ NothingStored /\ UNCHANGED packages
        /\ call[c].pc = "parse"
        /\ \/ call'[c].pc = "insert" /\ call'[c].todo = call[c].todo
           \/ call'[c].pc = "failed"
    BY <1>1, <1>4, ParseStep DEF At
  <2>2. Indexing(c, p)' => Indexing(c, p)
    BY <2>1 DEF Indexing, Pkg
  <2>3. \A k \in Caller : k # c => call'[k] = call[k]
    BY <2>1 DEF OthersStay
  <2>4. \A k \in Caller : k # c => (Indexing(k, p)' <=> Indexing(k, p))
    BY <2>3 DEF Indexing, Pkg
  <2> QED
    BY <1>2, <2>1, <2>2, <2>3, <2>4, SameStoreSameTables, TurnKept
<1>5. CASE Insert(c)
  <2>1. /\ orderly[p] /\ OthersStay(c) /\ UNCHANGED packages /\ call[c].pc = "insert"
        /\ Active(c)
    BY <1>1, <1>5, InsertStep DEF At
  <2>2. PICK q \in Repo : Pkg(c) = q
    BY <1>1, <2>1, PkgType
  <2>3. CASE NothingStored /\ call'[c].pc = "failed"
    <3>1. ~Indexing(c, p)'
      BY <2>3 DEF Indexing
    <3>2. \A k \in Caller : k # c => call'[k] = call[k]
      BY <2>1 DEF OthersStay
    <3>3. \A k \in Caller : k # c => (Indexing(k, p)' <=> Indexing(k, p))
      BY <3>2 DEF Indexing, Pkg
    <3> QED
      BY <1>2, <2>1, <2>3, <3>1, <3>2, <3>3, SameStoreSameTables, TurnKept
  <2>4. CASE /\ InsertSymbols(q, call[c].found)
             /\ call'[c].pc = "edges" /\ call'[c].todo = call[c].todo
    <3>1. CASE p # q
      <4>1. RowsOf(p)' = RowsOf(p)
        <5>1. \A s \in NewRows(q, call[c].found, nextId) : s.repo = q
          BY NewRowsOf
        <5> QED
          BY <2>4, <3>1, <5>1 DEF InsertSymbols, RowsOf
      <4>2. SameTables(p)
        BY <2>1, <2>4, <4>1 DEF InsertSymbols, SameTables
      <4>3. ~Indexing(c, p) /\ ~Indexing(c, p)'
        BY <2>2, <2>4, <3>1 DEF Indexing, Pkg
      <4> QED
        BY <1>2, <2>1, <4>2, <4>3, TurnOfAnother
    <3>2. CASE p = q
      <4>1. Indexing(c, p) /\ Turn(p)
        BY <1>2, <2>1, <2>2, <3>2 DEF Indexing
      <4>2. /\ packages[p] = NoPkg
            /\ \A k \in Caller : k # c => ~Indexing(k, p) /\ ~Indexing(k, p)'
        BY <2>1, <4>1, TurnAlone
      <4>3. RowsOf(p) = {} /\ NoEdges(p)
        BY <2>1, <4>1, <4>2 DEF Turn, NoneAt
      <4>4. RowsOf(p)' = NewRows(p, call[c].found, nextId)
        <5>1. \A s \in NewRows(p, call[c].found, nextId) : s.repo = p
          BY NewRowsOf
        <5> QED
          BY <2>4, <3>2, <4>3, <5>1 DEF InsertSymbols, RowsOf
      <4>5. \A s, t \in RowsOf(p)' : s.decl = t.decl => s = t
        BY <4>4, NewRowsOf
      <4>6. NoEdges(p)' /\ StoredOnce(p)'
        BY <2>4, <4>3, <4>5 DEF InsertSymbols, NoEdges, StoredOnce
      <4>7. Indexing(c, p)' /\ call'[c].pc = "edges" /\ packages'[p] = NoPkg
        BY <2>1, <2>4, <4>1, <4>2 DEF Indexing, Pkg
      <4> QED
        BY <4>2, <4>6, <4>7 DEF Turn, OneAtWork, NoneAt
    <3> QED
      BY <3>1, <3>2
  <2> QED
    BY <1>1, <1>5, <2>2, <2>3, <2>4, InsertStep
<1>6. CASE InsertEdges(c)
  <2>1. /\ OthersStay(c) /\ UNCHANGED packages /\ call[c].pc = "edges" /\ Active(c)
        /\ \/ call'[c].pc = "mark" /\ call'[c].todo = call[c].todo
           \/ call'[c].pc = "failed"
    BY <1>1, <1>6, InsertEdgesStep DEF At
  <2>2. PICK q \in Repo : Pkg(c) = q
    BY <1>1, <2>1, PkgType
  <2>3. p # q => ~Indexing(c, p) /\ ~Indexing(c, p)'
    BY <2>1, <2>2 DEF Indexing, Pkg
  <2>4. CASE NothingStored /\ Disorder({q})
    <3>1. orderly[p] /\ p # q
      BY <1>1, <2>4, DisorderType
    <3> QED
      BY <1>2, <2>1, <2>3, <2>4, <3>1, SameStoreSameTables, TurnOfAnother
  <2>5. CASE InsertCallEdges(q, call[c].found) /\ call'[c].pc = "mark" /\ UNCHANGED orderly
    <3>1. Turn(p) /\ RowsOf(p)' = RowsOf(p)
      BY <1>2, <2>5 DEF InsertCallEdges, RowsOf
    <3>2. \A d \in Decl : edges'[<<p, d>>] =
             IF p = q /\ d \in call[c].found THEN edges[<<p, d>>] + 1 ELSE edges[<<p, d>>]
      BY <1>1, <2>5 DEF InsertCallEdges, AddEdges, DepTyped, TypeOK, StoreTypeOK
    <3>3. CASE p # q
      BY <2>1, <2>3, <3>1, <3>2, <3>3, TurnOfAnother DEF SameTables
    <3>4. CASE p = q
      <4>1. Indexing(c, p)
        BY <2>1, <2>2, <3>4 DEF Indexing
      <4>2. /\ packages[p] = NoPkg
            /\ \A k \in Caller : k # c => ~Indexing(k, p) /\ ~Indexing(k, p)'
        BY <2>1, <3>1, <4>1, TurnAlone
      <4>3. NoEdges(p) /\ StoredOnce(p)
        BY <2>1, <3>1, <4>1, <4>2 DEF Turn, NoneAt
      <4>4. StoredOnce(p)'
        BY <3>1, <3>2, <4>3 DEF NoEdges, StoredOnce
      <4>5. Indexing(c, p)' /\ call'[c].pc = "mark" /\ packages'[p] = NoPkg
        BY <2>1, <2>5, <4>1, <4>2 DEF Indexing, Pkg
      <4> QED
        BY <4>2, <4>4, <4>5 DEF Turn, OneAtWork, NoneAt
    <3> QED
      BY <3>3, <3>4
  <2> QED
    BY <1>1, <1>6, <2>2, <2>4, <2>5, InsertEdgesStep
<1>7. CASE Mark(c)
  <2>1. /\ OthersStay(c) /\ NothingStored /\ call[c].pc = "mark" /\ Active(c)
        /\ ~Indexing(c, p)'
    BY <1>1, <1>7, MarkStep DEF At, Indexing
  <2>2. PICK q \in Repo : Pkg(c) = q
    BY <1>1, <2>1, PkgType
  <2>3. p # q => ~Indexing(c, p)
    BY <2>1, <2>2 DEF Indexing
  <2>4. CASE UNCHANGED packages /\ Disorder({q})
    <3>1. orderly[p] /\ p # q
      BY <1>1, <2>4, DisorderType
    <3> QED
      BY <1>2, <2>1, <2>3, <2>4, <3>1, SameStoreSameTables, TurnOfAnother
  <2>5. CASE /\ packages' = [packages EXCEPT ![q] = Cardinality(call[c].found)]
             /\ UNCHANGED orderly
    <3>1. CASE p # q
      <4>1. packages'[p] = packages[p]
        BY <1>1, <2>5, <3>1 DEF DepTyped, TypeOK
      <4> QED
        BY <1>2, <2>1, <2>3, <2>5, <3>1, <4>1, SameStoreSameTables, TurnOfAnother
    <3>2. CASE p = q
      <4>1. Indexing(c, p) /\ Turn(p)
        BY <1>2, <2>1, <2>2, <2>5, <3>2 DEF Indexing
      <4>2. \A k \in Caller : ~Indexing(k, p)'
        BY <2>1, <4>1, TurnAlone
      <4>3. packages'[p] \in Nat /\ packages'[p] # NoPkg
        <5>1. Cardinality(call[c].found) \in Nat
          BY <1>1, <2>1, PkgType, BatchFinite
        <5> QED
          BY <1>1, <2>5, <3>2, <5>1, PackageAssumption DEF DepTyped, TypeOK
      <4>4. StoredOnce(p)'
        BY <2>1, <4>1 DEF NothingStored, storeVars, Turn, StoredOnce, RowsOf
      <4> QED
        BY <4>2, <4>3, <4>4 DEF Turn, OneAtWork
    <3> QED
      BY <3>1, <3>2
  <2> QED
    BY <1>1, <1>7, <2>2, <2>4, <2>5, MarkStep
<1> QED
  BY <1>3, <1>4, <1>5, <1>6, <1>7 DEF Step

LEMMA NextTurns ==
    ASSUME TurnsInv, [Next]_vars
    PROVE  TurnsInv'
<1>1. DepTyped /\ DepTyped'
  BY NextType DEF TurnsInv
<1> SUFFICES ASSUME NEW p \in Repo, orderly'[p] PROVE Turn(p)'
  BY <1>1 DEF TurnsInv
<1>2. orderly[p] => Turn(p)
  BY DEF TurnsInv
<1>3. ASSUME NEW c \in Caller, NEW m \in Manifests, StartCall(c, m)
      PROVE  Turn(p)'
  <2>1. /\ OthersStay(c) /\ NothingStored /\ UNCHANGED packages /\ orderly[p]
        /\ ~Indexing(c, p) /\ ~Indexing(c, p)'
    BY <1>1, <1>3, StartCallStep DEF Indexing, Active, RestPoints
  <2> QED
    BY <1>2, <2>1, SameStoreSameTables, TurnOfAnother
<1>4. CASE Crash
  <2>1. /\ NothingStored /\ UNCHANGED packages /\ orderly[p]
        /\ \A k \in Caller : ~Indexing(k, p)'
        /\ \A k \in Caller : Indexing(k, p) => call[k].pc \in {"parse", "insert"}
    BY <1>1, <1>4, CrashStep DEF Indexing, RestPoints
  <2> QED
    BY <1>2, <2>1, SameStoreSameTables, TurnKept
<1>5. CASE UNCHANGED vars
  <2>1. /\ NothingStored /\ UNCHANGED <<packages, orderly>>
        /\ \A k \in Caller : Indexing(k, p)' <=> Indexing(k, p)
        /\ \A k \in Caller : call'[k] = call[k]
    BY <1>5 DEF vars, NothingStored, Indexing, Pkg
  <2> QED
    BY <1>2, <2>1, SameStoreSameTables, TurnKept
<1> QED
  BY <1>3, <1>4, <1>5, StepTurns DEF Next

\* For any number of callers and packages: unless two calls were past the check
\* of a package at once, one stopped between its inserts and its mark, or a
\* lookup failed on a package already marked, nothing of it is stored twice.
\* The lookup alone does it: no step reads what is stored for the package.
THEOREM OrderStoresOnce == Spec => []StoredOnceWhenOrderly
<1>1. Init => TurnsInv
  <2> SUFFICES ASSUME Init PROVE TurnsInv
    OBVIOUS
  <2>1. DepTyped
    BY InitType
  <2>2. \A p \in Repo, c \in Caller : ~Indexing(c, p)
    BY RestingType DEF Init, Indexing, Resting
  <2>3. \A p \in Repo : RowsOf(p) = {} /\ NoEdges(p) /\ StoredOnce(p)
    BY DEF Init, RowsOf, NoEdges, StoredOnce
  <2> QED
    BY <2>1, <2>2, <2>3 DEF TurnsInv, Turn, OneAtWork
<1>2. TurnsInv /\ [Next]_vars => TurnsInv'
  BY NextTurns
<1>3. TurnsInv => StoredOnceWhenOrderly
  BY DEF TurnsInv, Turn, StoredOnce, StoredOnceWhenOrderly
<1> QED
  BY <1>1, <1>2, <1>3, PTL DEF Spec
=============================================================================
