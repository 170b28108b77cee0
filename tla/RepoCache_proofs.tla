-------------------------- MODULE RepoCache_proofs --------------------------
(***************************************************************************)
(* Proofs about RepoCache: its type invariant, that the directories and    *)
(* the rows of table repos agree whenever no call is in flight, and what   *)
(* keeps half-written clones from being reused; each under the failures it *)
(* survives.                                                               *)
(* The lemmas about steps do not mention Spec, so that Server, whose       *)
(* analyses run the same handler, can cite them.                           *)
(***************************************************************************)
EXTENDS RepoCache, GlobalStore_proofs

----------------------------------------------------------------------------
(* Types.                                                                  *)

Points == RestPoints \cup ClonePoints \cup CapacityPoints

LEMMA RestingType ==
    ASSUME NEW pc \in Points
    PROVE  Resting(pc) \in Clone
BY CallerAssumption DEF Resting, Clone, Points

LEMMA GotoType ==
    ASSUME clone \in [Caller -> Clone], NEW c \in Caller, NEW pc \in Points,
           Goto(c, pc)
    PROVE  clone' \in [Caller -> Clone]
BY DEF Goto, Clone, Points

LEMMA ReturnType ==
    ASSUME clone \in [Caller -> Clone], NEW c \in Caller, NEW pc \in RestPoints,
           Return(c, pc)
    PROVE  clone' \in [Caller -> Clone]
<1>1. Resting(pc) \in Clone /\ clone[c] \in Clone
  BY RestingType DEF Points
<1>2. [Resting(pc) EXCEPT !.repo = clone[c].repo, !.indexed = clone[c].indexed]
        \in Clone
  BY <1>1 DEF Clone
<1> QED
  BY <1>2 DEF Return

LEMMA NextAttemptType ==
    ASSUME clone \in [Caller -> Clone], NEW c \in Caller, NextAttempt(c)
    PROVE  clone' \in [Caller -> Clone]
<1>1. "git" \in Points /\ "cleanup" \in Points
  BY DEF Points, ClonePoints
<1>2. CASE clone[c].attempt = 1
  BY <1>1, <1>2 DEF NextAttempt, Clone, Points
<1>3. CASE clone[c].attempt # 1
  BY <1>1, <1>3, GotoType DEF NextAttempt
<1> QED
  BY <1>2, <1>3

LEMMA DirType ==
    ASSUME dir \in [Repo -> DirState], NEW r \in Repo
    PROVE  /\ \A s \in DirState : SetDir(r, s) => dir' \in [Repo -> DirState]
           /\ Tear(r) => dir' \in [Repo -> DirState]
           /\ RemovalFails(r) => dir' \in [Repo -> DirState]
<1>1. ASSUME NEW s \in DirState, SetDir(r, s) PROVE dir' \in [Repo -> DirState]
  BY <1>1 DEF SetDir
<1>2. (IF dir[r] \in {"none", "empty"} THEN dir[r] ELSE "torn") \in DirState
  BY DEF DirState
<1> QED
  BY <1>1, <1>2 DEF Tear, RemovalFails

\* What is typed whatever bounds the counters.
CacheTyped ==
    /\ StoreTypeOK
    /\ IsStrictOrder(older, Listed)
    /\ dir \in [Repo -> DirState]
    /\ clone \in [Caller -> Clone]

LEMMA SameStore ==
    ASSUME StoreTypeOK, IsStrictOrder(older, Listed), UNCHANGED storeVars
    PROVE  StoreTypeOK' /\ IsStrictOrder(older, Listed)' /\ Listed' = Listed
BY DEF StoreTypeOK, IsStrictOrder, Listed, storeVars

LEMMA StepType ==
    ASSUME CacheTyped, NEW c \in Caller, Step(c)
    PROVE  CacheTyped'
<1> USE DEF CacheTyped
<1>0. /\ clone[c].repo \in Repo /\ clone[c].victim \in Repo
      /\ clone[c] \in Clone
  BY DEF Clone
<1>p. /\ \A pc \in {"refreshing", "lookup", "hit", "mkdir", "git", "fetch", "cleanup",
                    "cleaning", "upsert", "touch", "size", "list", "evictRow", "evictDir",
                    "evicting"} : pc \in Points
      /\ \A pc \in {"done", "failed"} : pc \in RestPoints
  BY DEF Points, RestPoints, ClonePoints, CapacityPoints
<1>d. \A s \in {"none", "empty", "partial", "full", "torn"} : s \in DirState
  BY DEF DirState
<1>1. CASE Refresh(c)
  <2>1. dir' \in [Repo -> DirState]
    BY <1>1, <1>0, <1>d, DirType DEF Refresh
  <2>2. clone' \in [Caller -> Clone]
    BY <1>1, <1>p, GotoType, ReturnType DEF Refresh
  <2> QED
    BY <1>1, <2>1, <2>2, SameStore DEF Refresh
<1>2. CASE Lookup(c)
  <2>1. \E pc \in {"mkdir", "hit"} : Goto(c, pc)
    BY <1>2 DEF Lookup
  <2>2. clone' \in [Caller -> Clone]
    BY <2>1, <1>p, GotoType
  <2> QED
    BY <1>2, <2>2, SameStore DEF Lookup
<1>3. CASE CacheHit(c)
  <2>1. clone' \in [Caller -> Clone]
    <3>1. ASSUME clone[c].repo \in Listed,
                 clone' = [clone EXCEPT ![c].pc = "touch",
                                        ![c].indexed = repos[clone[c].repo].indexed]
          PROVE  clone' \in [Caller -> Clone]
      <4>1. PICK b \in BOOLEAN : b = repos[clone[c].repo].indexed
        BY <3>1, <1>0 DEF Listed, StoreTypeOK, RepoRow
      <4>2. [clone[c] EXCEPT !.pc = "touch", !.indexed = b] \in Clone
        BY <1>0, <1>p DEF Clone, Points
      <4>3. clone' = [clone EXCEPT ![c] = [clone[c] EXCEPT !.pc = "touch", !.indexed = b]]
        BY <3>1, <4>1
      <4> QED
        BY <4>2, <4>3
    <3>2. ASSUME Goto(c, "touch") \/ Return(c, "failed")
          PROVE  clone' \in [Caller -> Clone]
      BY <3>2, <1>p, GotoType, ReturnType
    <3> QED
      BY <1>3, <3>1, <3>2 DEF CacheHit
  <2> QED
    BY <1>3, <2>1, SameStore DEF CacheHit
<1>4. CASE CreateDir(c)
  <2>1. dir' \in [Repo -> DirState]
    <3>1. (IF dir[clone[c].repo] = "none" THEN "empty" ELSE dir[clone[c].repo])
             \in DirState
      BY <1>0, <1>d
    <3> QED
      BY <1>4, <1>0, <3>1, DirType DEF CreateDir
  <2>2. clone' \in [Caller -> Clone]
    BY <1>4, <1>p, GotoType, ReturnType DEF CreateDir
  <2> QED
    BY <1>4, <2>1, <2>2, SameStore DEF CreateDir
<1>5. CASE BeginGit(c)
  <2>1. dir' \in [Repo -> DirState]
    BY <1>5, <1>0, <1>d, DirType DEF BeginGit
  <2>2. clone' \in [Caller -> Clone]
    BY <1>5, <1>p, GotoType, NextAttemptType DEF BeginGit
  <2> QED
    BY <1>5, <2>1, <2>2, SameStore DEF BeginGit
<1>6. CASE EndGit(c)
  <2>1. dir' \in [Repo -> DirState]
    <3>1. /\ (IF dir[clone[c].repo] = "partial" THEN "full" ELSE dir[clone[c].repo])
                \in DirState
          /\ (IF dir[clone[c].repo] = "full" THEN dir[clone[c].repo] ELSE "empty")
                \in DirState
      BY <1>0, <1>d
    <3> QED
      BY <1>6, <1>0, <1>d, <3>1, DirType DEF EndGit
  <2>2. clone' \in [Caller -> Clone]
    BY <1>6, <1>p, GotoType, NextAttemptType DEF EndGit
  <2> QED
    BY <1>6, <2>1, <2>2, SameStore DEF EndGit
<1>7. CASE Cleanup(c)
  <2>1. dir' \in [Repo -> DirState]
    BY <1>7, <1>0, <1>d, DirType DEF Cleanup
  <2>2. clone' \in [Caller -> Clone]
    BY <1>7, <1>p, GotoType, ReturnType DEF Cleanup
  <2> QED
    BY <1>7, <2>1, <2>2, SameStore DEF Cleanup
<1>8. CASE Upsert(c)
  <2>1. FreshRow \in RepoRow
    BY DEF FreshRow, RepoRow
  <2>2. StoreTypeOK' /\ IsStrictOrder(older, Listed)'
    BY <1>8, <1>0, <2>1, UpsertRepoType, UpsertRepoOrder, SameStore DEF Upsert
  <2>3. clone' \in [Caller -> Clone]
    BY <1>8, <1>p, GotoType, ReturnType DEF Upsert
  <2> QED
    BY <1>8, <2>2, <2>3 DEF Upsert
<1>9. CASE Touch(c)
  <2>1. StoreTypeOK' /\ IsStrictOrder(older, Listed)'
    BY <1>9, <1>0, MarkAccessedType, MarkAccessedOrder, SameStore DEF Touch
  <2>2. clone' \in [Caller -> Clone]
    BY <1>9, <1>p, GotoType, ReturnType DEF Touch
  <2> QED
    BY <1>9, <2>1, <2>2 DEF Touch
<1>10. CASE Size(c)
  <2>1. clone' \in [Caller -> Clone]
    BY <1>10, <1>p, GotoType, ReturnType DEF Size
  <2> QED
    BY <1>10, <2>1, SameStore DEF Size
<1>11. CASE List(c)
  <2>1. clone' \in [Caller -> Clone]
    <3>1. ASSUME NEW r \in Repo,
                 clone' = [clone EXCEPT ![c].pc = "evictRow", ![c].victim = r]
          PROVE  clone' \in [Caller -> Clone]
      <4>1. [clone[c] EXCEPT !.pc = "evictRow", !.victim = r] \in Clone
        BY <1>0, <1>p DEF Clone, Points
      <4>2. clone' = [clone EXCEPT ![c] = [clone[c] EXCEPT !.pc = "evictRow", !.victim = r]]
        BY <3>1
      <4> QED
        BY <4>1, <4>2
    <3> QED
      BY <1>11, <3>1, <1>p, ReturnType DEF List
  <2> QED
    BY <1>11, <2>1, SameStore DEF List
<1>12. CASE EvictRow(c)
  <2>1. StoreTypeOK' /\ IsStrictOrder(older, Listed)'
    BY <1>12, <1>0, EvictRepoType, EvictRepoOrder, SameStore DEF EvictRow
  <2>2. clone' \in [Caller -> Clone]
    BY <1>12, <1>p, GotoType DEF EvictRow
  <2> QED
    BY <1>12, <2>1, <2>2 DEF EvictRow
<1>13. CASE EvictDir(c)
  <2>1. dir' \in [Repo -> DirState]
    BY <1>13, <1>0, <1>d, DirType DEF EvictDir
  <2>2. clone' \in [Caller -> Clone]
    BY <1>13, <1>p, GotoType DEF EvictDir
  <2> QED
    BY <1>13, <2>1, <2>2, SameStore DEF EvictDir
<1>14. CASE EndRefresh(c) \/ EndCleanup(c) \/ EndEvictDir(c)
  <2>1. dir' \in [Repo -> DirState]
    BY <1>14, <1>0, <1>d, DirType DEF EndRefresh, EndCleanup, EndEvictDir
  <2>2. clone' \in [Caller -> Clone]
    BY <1>14, <1>p, GotoType, ReturnType DEF EndRefresh, EndCleanup, EndEvictDir
  <2> QED
    BY <1>14, <2>1, <2>2, SameStore DEF EndRefresh, EndCleanup, EndEvictDir
<1> QED
  BY <1>1, <1>2, <1>3, <1>4, <1>5, <1>6, <1>7, <1>8, <1>9, <1>10, <1>11, <1>12,
     <1>13, <1>14 DEF Step

LEMMA StepCounters ==
    ASSUME NEW c \in Caller, Step(c)
    PROVE  Reliable \/ \E kind \in FailureKinds : Unreliable(kind)
<1>1. \A r : RemovalFails(r) => Reliable \/ \E kind \in FailureKinds : Unreliable(kind)
  BY DEF RemovalFails, FailureKinds
<1>2. CASE EndRefresh(c) \/ EndCleanup(c) \/ EndEvictDir(c)
  BY <1>1, <1>2 DEF EndRefresh, EndCleanup, EndEvictDir
<1>3. CASE ~(EndRefresh(c) \/ EndCleanup(c) \/ EndEvictDir(c))
  BY <1>3, BoundAssumption DEF Step, Refresh, Lookup, CacheHit, CreateDir, BeginGit,
     EndGit, Cleanup, Upsert, Touch, Size, List, EvictRow, EvictDir, Reliable, Unreliable
<1> QED
  BY <1>2, <1>3

LEMMA StepStarted ==
    ASSUME NEW c \in Caller, Step(c)
    PROVE  started' = started
BY DEF Step, Refresh, EndRefresh, Lookup, CacheHit, CreateDir, BeginGit, EndGit, Cleanup,
       EndCleanup, Upsert, Touch, Size, List, EvictRow, EvictDir, EndEvictDir

LEMMA FailuresType ==
    ASSUME failures \in 0 .. MaxFailures,
           Reliable \/ \E kind \in FailureKinds : Unreliable(kind)
    PROVE  failures' \in 0 .. MaxFailures
BY BoundAssumption DEF Reliable, Unreliable

LEMMA BeginCloneType ==
    ASSUME clone \in [Caller -> Clone],
           NEW c \in Caller, NEW r \in Repo, NEW refresh \in BOOLEAN,
           BeginClone(c, r, refresh)
    PROVE  clone' \in [Caller -> Clone]
<1>1. "refresh" \in Points
  BY DEF Points, ClonePoints
<1>2. Resting("refresh") \in Clone
  BY <1>1, RestingType
<1>3. [Resting("refresh") EXCEPT !.repo = r, !.refresh = refresh] \in Clone
  BY <1>2 DEF Clone
<1> QED
  BY <1>3 DEF BeginClone

LEMMA NextType ==
    ASSUME TypeOK, [Next]_vars
    PROVE  TypeOK'
<1> USE DEF TypeOK, CacheTyped
<1>1. ASSUME NEW c \in Caller, NEW r \in Repo, NEW refresh \in BOOLEAN,
             StartClone(c, r, refresh)
      PROVE  TypeOK'
  <2>1. clone' \in [Caller -> Clone]
    BY <1>1, BeginCloneType DEF StartClone
  <2>2. started' \in 0 .. MaxCalls
    BY <1>1, BoundAssumption DEF StartClone
  <2> QED
    BY <1>1, <2>1, <2>2, SameStore DEF StartClone
<1>2. ASSUME NEW c \in Caller, Step(c) PROVE TypeOK'
  <2>1. CacheTyped'
    BY <1>2, StepType
  <2>2. failures' \in 0 .. MaxFailures
    BY <1>2, StepCounters, FailuresType
  <2>3. started' = started
    BY <1>2, StepStarted
  <2> QED
    BY <2>1, <2>2, <2>3
<1>3. CASE Crash
  <2>1. Resting("failed") \in Clone
    BY RestingType DEF Points, RestPoints
  <2>2. clone' \in [Caller -> Clone]
    BY <1>3, <2>1 DEF Crash
  <2>3. failures' \in 0 .. MaxFailures
    BY <1>3, FailuresType DEF Crash, FailureKinds
  <2> QED
    BY <1>3, <2>2, <2>3, SameStore DEF Crash
<1>4. CASE UNCHANGED vars
  BY <1>4, SameStore DEF vars, cacheVars
<1> QED
  BY <1>1, <1>2, <1>3, <1>4 DEF Next

LEMMA InitType ==
    ASSUME Init
    PROVE  TypeOK
<1>1. StoreTypeOK
  BY DEF Init, StoreTypeOK
<1>2. Listed = {} /\ older = {}
  BY DEF Init, Listed
<1>3. IsStrictOrder(older, Listed)
  BY <1>2 DEF IsStrictOrder
<1>4. dir \in [Repo -> DirState] /\ clone \in [Caller -> Clone]
  BY RestingType DEF Init, DirState, Points, RestPoints
<1> QED
  BY <1>1, <1>3, <1>4, BoundAssumption DEF Init, TypeOK

\* Whatever fails and however many calls interleave, the state of the cache is well
\* typed, and last_accessed_at orders the rows of table repos strictly: as long as
\* there is a row, oldest_repo finds one and only one.
THEOREM TypeCorrect == Spec => []TypeOK
BY InitType, NextType, PTL DEF Spec

----------------------------------------------------------------------------
(* Clones are listed.  A directory without a row is in the hands of a call *)
(* that will give it one or remove it.  Nothing is assumed about which     *)
(* calls run at the same time.                                             *)

Unlisted(r) == dir[r] # "none" /\ r \notin Listed

\* Where a call has created the directory of its repository, and not yet its row, or
\* has begun to remove it; and where it has deleted the row of its victim.
OwnPoints == {"refreshing", "git", "fetch", "cleanup", "cleaning", "upsert"}
VictimPoints == {"evictDir", "evicting"}
InHandOf(k, r) ==
    \/ clone[k].repo = r /\ clone[k].pc \in OwnPoints
    \/ clone[k].victim = r /\ clone[k].pc \in VictimPoints

ListedInv == \A r \in Repo : Unlisted(r) => \E k \in Caller : InHandOf(k, r)

\* A step of a call leaves the other calls alone and stays with its repository.
LEMMA StepClones ==
    ASSUME clone \in [Caller -> Clone], NEW c \in Caller, Step(c)
    PROVE  /\ \A k \in Caller : k # c => clone'[k] = clone[k]
           /\ clone'[c].repo = clone[c].repo
           /\ Active(c)
<1> DEFINE Kept == /\ \A k \in Caller : k # c => clone'[k] = clone[k]
                   /\ clone'[c].repo = clone[c].repo
<1>1. ASSUME NEW pc, Goto(c, pc) PROVE Kept
  BY <1>1 DEF Goto, Clone
<1>2. ASSUME NEW pc, Return(c, pc) PROVE Kept
  BY <1>2 DEF Return, Resting
<1>3. ASSUME NextAttempt(c) PROVE Kept
  <2>1. CASE clone[c].attempt = 1
    BY <1>3, <2>1 DEF NextAttempt, Clone
  <2>2. CASE clone[c].attempt # 1
    BY <1>1, <1>3, <2>2 DEF NextAttempt
  <2> QED
    BY <2>1, <2>2
<1>4. CASE CacheHit(c)
  <2>1. ASSUME clone' = [clone EXCEPT ![c].pc = "touch",
                                      ![c].indexed = repos[clone[c].repo].indexed]
        PROVE  Kept
    BY <2>1 DEF Clone
  <2>2. Kept
    BY <1>1, <1>2, <1>4, <2>1 DEF CacheHit
  <2> QED
    BY <1>4, <2>2 DEF CacheHit, At, Active, RestPoints
<1>5. CASE List(c)
  <2>1. ASSUME NEW r, clone' = [clone EXCEPT ![c].pc = "evictRow", ![c].victim = r]
        PROVE  Kept
    BY <2>1 DEF Clone
  <2>2. Kept
    BY <1>2, <1>5, <2>1 DEF List
  <2> QED
    BY <1>5, <2>2 DEF List, At, Active, RestPoints
<1>6. CASE \/ Refresh(c) \/ EndRefresh(c) \/ Lookup(c) \/ CreateDir(c) \/ Cleanup(c)
           \/ EndCleanup(c) \/ Upsert(c)
  <2>1. Kept
    BY <1>1, <1>2, <1>6 DEF Refresh, EndRefresh, Lookup, CreateDir, Cleanup, EndCleanup,
                            Upsert
  <2> QED
    BY <1>6, <2>1 DEF Refresh, EndRefresh, Lookup, CreateDir, Cleanup, EndCleanup, Upsert,
                      At, Active, RestPoints
<1>7. CASE BeginGit(c) \/ EndGit(c)
  <2>1. Kept
    BY <1>1, <1>3, <1>7 DEF BeginGit, EndGit
  <2> QED
    BY <1>7, <2>1 DEF BeginGit, EndGit, At, Active, RestPoints
<1>8. CASE Touch(c) \/ Size(c) \/ EvictRow(c) \/ EvictDir(c) \/ EndEvictDir(c)
  <2>1. Kept
    BY <1>1, <1>2, <1>8 DEF Touch, Size, EvictRow, EvictDir, EndEvictDir
  <2> QED
    BY <1>8, <2>1 DEF Touch, Size, EvictRow, EvictDir, EndEvictDir, At, Active, RestPoints
<1> QED
  BY <1>4, <1>5, <1>6, <1>7, <1>8 DEF Step

\* What a step of c does to the directory of r, where the file system works: it is
\* there afterwards only if c has it in hand, or git of another call writes to it, or
\* it was there before and c was not removing it.
LEMMA StepHands ==
    ASSUME dir \in [Repo -> DirState], clone \in [Caller -> Clone],
           "disk" \notin MayFail,
           NEW c \in Caller, NEW r \in Repo, Step(c), dir'[r] # "none"
    PROVE  \/ InHandOf(c, r)'
           \/ \E k \in Caller : k # c /\ clone[k].repo = r /\ At(k, "fetch")
           \/ dir[r] # "none" /\ (InHandOf(c, r) => At(c, "upsert"))
<1> DEFINE Ok == \/ InHandOf(c, r)'
                 \/ \E k \in Caller : k # c /\ clone[k].repo = r /\ At(k, "fetch")
                 \/ dir[r] # "none" /\ (InHandOf(c, r) => At(c, "upsert"))
<1>0. /\ clone[c].repo \in Repo /\ clone[c].victim \in Repo
      /\ clone'[c].repo = clone[c].repo
  BY StepClones DEF Clone
<1>1. ~Unreliable("disk")
  BY DEF Unreliable
<1>2. \A pc : Goto(c, pc) => clone'[c].pc = pc /\ clone'[c].victim = clone[c].victim
  BY DEF Goto, Clone
<1>3. NextAttempt(c) => clone'[c].pc \in {"git", "cleanup"}
  BY <1>2 DEF NextAttempt, Clone
<1>4. ASSUME NEW q \in Repo, NEW s, SetDir(q, s), q # r PROVE dir'[r] = dir[r]
  BY <1>4 DEF SetDir
<1>5. ASSUME NEW q \in Repo, Tear(q) PROVE (dir'[r] # "none" => dir[r] # "none")
  BY <1>5 DEF Tear, SetDir
<1>6. ASSUME NEW q \in Repo, RemovalFails(q)
      PROVE  /\ dir'[r] # "none" => dir[r] # "none"
             /\ \E k \in Caller : At(k, "fetch") /\ clone[k].repo = q
  BY <1>1, <1>5, <1>6 DEF RemovalFails
<1>7. ASSUME NEW q \in Repo, SetDir(q, "none") PROVE q # r /\ dir[r] # "none"
  BY <1>7 DEF SetDir
<1>8. CASE \/ Lookup(c) \/ CacheHit(c) \/ Upsert(c) \/ Touch(c) \/ Size(c)
           \/ List(c) \/ EvictRow(c)
  <2>1. dir' = dir
    BY <1>8 DEF Lookup, CacheHit, Upsert, Touch, Size, List, EvictRow
  <2>2. clone[c].pc \notin (OwnPoints \ {"upsert"}) \cup VictimPoints
    BY <1>8 DEF Lookup, CacheHit, Upsert, Touch, Size, List, EvictRow, At, OwnPoints,
                VictimPoints
  <2> QED
    BY <2>1, <2>2 DEF At, InHandOf, VictimPoints, OwnPoints
<1>9. CASE Refresh(c)
  <2>1. dir[r] # "none"
    BY <1>9, <1>0, <1>1, <1>5 DEF Refresh
  <2> QED
    BY <1>9, <2>1 DEF Refresh, At, InHandOf, OwnPoints, VictimPoints
<1>10. CASE EndRefresh(c)
  <2>1. CASE SetDir(clone[c].repo, "none")
    BY <1>10, <1>0, <1>7, <2>1 DEF EndRefresh, At, InHandOf, OwnPoints, VictimPoints
  <2>2. CASE RemovalFails(clone[c].repo)
    BY <1>10, <1>0, <1>6, <2>2 DEF EndRefresh, At, InHandOf, OwnPoints, VictimPoints
  <2> QED
    BY <1>10, <2>1, <2>2 DEF EndRefresh
<1>11. CASE CreateDir(c) \/ BeginGit(c) \/ EndGit(c)
  <2>1. CASE clone[c].repo = r
    <3>1. clone'[c].pc \in OwnPoints
      BY <1>11, <1>1, <1>2, <1>3 DEF CreateDir, BeginGit, EndGit, OwnPoints
    <3> QED
      BY <1>0, <2>1, <3>1 DEF InHandOf
  <2>2. CASE clone[c].repo # r
    <3>1. dir'[r] = dir[r]
      BY <1>11, <1>0, <1>4, <2>2 DEF CreateDir, BeginGit, EndGit
    <3>2. ~InHandOf(c, r)
      BY <1>11, <2>2 DEF CreateDir, BeginGit, EndGit, At, InHandOf, VictimPoints
    <3> QED
      BY <3>1, <3>2
  <2> QED
    BY <2>1, <2>2
<1>12. CASE Cleanup(c)
  <2>1. dir[r] # "none" /\ clone'[c].pc = "cleaning"
    BY <1>12, <1>0, <1>1, <1>2, <1>5 DEF Cleanup
  <2> QED
    BY <1>12, <1>0, <2>1 DEF Cleanup, At, InHandOf, OwnPoints, VictimPoints
<1>13. CASE EndCleanup(c)
  <2>1. CASE SetDir(clone[c].repo, "none")
    BY <1>13, <1>0, <1>7, <2>1 DEF EndCleanup, At, InHandOf, OwnPoints, VictimPoints
  <2>2. CASE RemovalFails(clone[c].repo)
    BY <1>13, <1>0, <1>6, <2>2 DEF EndCleanup, At, InHandOf, OwnPoints, VictimPoints
  <2> QED
    BY <1>13, <2>1, <2>2 DEF EndCleanup
<1>14. CASE EvictDir(c)
  <2>1. CASE dir[clone[c].victim] # "none"
    <3>1. dir[r] # "none" /\ clone'[c].pc = "evicting" /\ clone'[c].victim = clone[c].victim
      BY <1>14, <1>0, <1>1, <1>2, <1>5, <2>1 DEF EvictDir
    <3> QED
      BY <1>14, <3>1 DEF EvictDir, At, InHandOf, OwnPoints, VictimPoints
  <2>2. CASE dir[clone[c].victim] = "none"
    BY <1>14, <2>2 DEF EvictDir, At, InHandOf, OwnPoints, VictimPoints
  <2> QED
    BY <2>1, <2>2
<1>15. CASE EndEvictDir(c)
  <2>1. CASE SetDir(clone[c].victim, "none")
    BY <1>15, <1>0, <1>7, <2>1 DEF EndEvictDir, At, InHandOf, OwnPoints, VictimPoints
  <2>2. CASE RemovalFails(clone[c].victim)
    BY <1>15, <1>0, <1>6, <2>2 DEF EndEvictDir, At, InHandOf, OwnPoints, VictimPoints
  <2> QED
    BY <1>15, <2>1, <2>2 DEF EndEvictDir
<1> QED
  BY <1>8, <1>9, <1>10, <1>11, <1>12, <1>13, <1>14, <1>15 DEF Step

\* And to its row, where the database works: a clone at "upsert" gets one, and only an
\* eviction that goes on to the directory deletes one.
LEMMA StepListing ==
    ASSUME CacheTyped, "db" \notin MayFail, NEW c \in Caller, NEW r \in Repo, Step(c)
    PROVE  /\ At(c, "upsert") /\ clone[c].repo = r => r \in Listed'
           /\ r \in Listed /\ r \notin Listed' =>
                 clone'[c].pc = "evictDir" /\ clone'[c].victim = r
<1> DEFINE Ok == /\ At(c, "upsert") /\ clone[c].repo = r => r \in Listed'
                 /\ r \in Listed /\ r \notin Listed' =>
                       clone'[c].pc = "evictDir" /\ clone'[c].victim = r
<1> USE DEF CacheTyped
<1>0. clone[c].repo \in Repo /\ clone[c].victim \in Repo
  BY DEF Clone
<1>1. ~Unreliable("db")
  BY DEF Unreliable
<1>2. CASE \/ Refresh(c) \/ EndRefresh(c) \/ Lookup(c) \/ CacheHit(c) \/ CreateDir(c)
           \/ BeginGit(c) \/ EndGit(c) \/ Cleanup(c) \/ EndCleanup(c) \/ Size(c) \/ List(c)
           \/ EvictDir(c) \/ EndEvictDir(c)
  <2>1. repos' = repos
    BY <1>2 DEF Refresh, EndRefresh, Lookup, CacheHit, CreateDir, BeginGit, EndGit, Cleanup,
                EndCleanup, Size, List, EvictDir, EndEvictDir, storeVars
  <2>2. ~At(c, "upsert")
    BY <1>2 DEF Refresh, EndRefresh, Lookup, CacheHit, CreateDir, BeginGit, EndGit, Cleanup,
                EndCleanup, Size, List, EvictDir, EndEvictDir, At
  <2> QED
    BY <2>1, <2>2 DEF Listed
<1>3. CASE Upsert(c)
  <2>1. UpsertRepo(clone[c].repo, FreshRow) /\ FreshRow \in RepoRow
    BY <1>3, <1>1 DEF Upsert, FreshRow, RepoRow
  <2> QED
    BY <2>1, <1>0, UpsertRepoOrder
<1>4. CASE Touch(c)
  <2>1. repos' = repos /\ ~At(c, "upsert")
    BY <1>4 DEF Touch, MarkAccessed, storeVars, At
  <2> QED
    BY <2>1 DEF Listed
<1>5. CASE EvictRow(c)
  <2>1. EvictRepo(clone[c].victim)
    BY <1>5, <1>1 DEF EvictRow
  <2>2. Listed' = Listed \ {clone[c].victim}
    BY <2>1, <1>0, EvictRepoOrder
  <2>3. clone'[c].pc = "evictDir" /\ clone'[c].victim = clone[c].victim
    BY <1>5 DEF EvictRow, Goto, Clone
  <2> QED
    BY <1>5, <2>2, <2>3 DEF EvictRow, At
<1> QED
  BY <1>2, <1>3, <1>4, <1>5 DEF Step

LEMMA StepListed ==
    ASSUME CacheTyped, ListedInv, "db" \notin MayFail, "disk" \notin MayFail,
           NEW c \in Caller, Step(c)
    PROVE  ListedInv'
<1> SUFFICES ASSUME NEW r \in Repo, Unlisted(r)'
             PROVE  \E k \in Caller : InHandOf(k, r)'
  BY DEF ListedInv, InHandOf
<1>1. dir'[r] # "none" /\ r \notin Listed'
  BY DEF Unlisted
<1>2. ASSUME NEW k \in Caller, k # c, InHandOf(k, r) PROVE InHandOf(k, r)'
  BY <1>2, StepClones DEF CacheTyped, InHandOf
<1>3. CASE InHandOf(c, r)'
  BY <1>3
<1>4. CASE \E k \in Caller : k # c /\ clone[k].repo = r /\ At(k, "fetch")
  BY <1>2, <1>4 DEF InHandOf, OwnPoints, At
<1>5. CASE r \in Listed
  BY <1>1, <1>5, StepListing DEF InHandOf, VictimPoints
<1>6. CASE dir[r] # "none" /\ (InHandOf(c, r) => At(c, "upsert")) /\ r \notin Listed
  <2>1. PICK k \in Caller : InHandOf(k, r)
    BY <1>6 DEF ListedInv, Unlisted
  <2>2. ~InHandOf(c, r)
    BY <1>1, <1>6, StepListing DEF InHandOf, At, VictimPoints
  <2> QED
    BY <1>2, <2>1, <2>2
<1> QED
  BY <1>1, <1>3, <1>4, <1>5, <1>6, StepHands DEF CacheTyped

LEMMA NextListed ==
    ASSUME TypeOK, ListedInv, MayFail \subseteq {"net"}, [Next]_vars
    PROVE  ListedInv'
<1>0. CacheTyped
  BY DEF TypeOK, CacheTyped
<1>1. ASSUME NEW c \in Caller, NEW r \in Repo, NEW refresh \in BOOLEAN,
             StartClone(c, r, refresh)
      PROVE  ListedInv'
  <2>1. \A k \in Caller : k # c => clone'[k] = clone[k]
    BY <1>0, <1>1 DEF StartClone, BeginClone, CacheTyped
  <2>2. ~Active(c) /\ dir' = dir /\ repos' = repos
    BY <1>1 DEF StartClone, storeVars
  <2>3. ASSUME NEW q \in Repo, NEW k \in Caller, InHandOf(k, q) PROVE InHandOf(k, q)'
    BY <2>1, <2>2, <2>3 DEF InHandOf, Active, RestPoints, OwnPoints, VictimPoints
  <2> QED
    BY <2>2, <2>3 DEF ListedInv, Unlisted, Listed, InHandOf
<1>2. ASSUME NEW c \in Caller, Step(c) PROVE ListedInv'
  BY <1>0, <1>2, StepListed
<1>3. ~Crash
  BY DEF Crash, Unreliable
<1>4. CASE UNCHANGED vars
  BY <1>4 DEF vars, cacheVars, storeVars, ListedInv, Unlisted, InHandOf, Listed
<1> QED
  BY <1>1, <1>2, <1>3, <1>4 DEF Next

\* Where only git fails, and however clones, refreshes and evictions of the same
\* repository are interleaved: once no call is in flight, each directory in the cache
\* has its row.
THEOREM ClonesGetListed ==
    ASSUME MayFail \subseteq {"net"}
    PROVE  Spec => []ClonesAreListed
<1>1. Init => ListedInv
  BY DEF Init, ListedInv, Unlisted
<1>2. TypeOK /\ ListedInv /\ [Next]_vars => ListedInv'
  BY NextListed
<1>3. ListedInv => ClonesAreListed
  BY DEF ListedInv, Unlisted, InHandOf, ClonesAreListed, Quiet, Active, RestPoints,
         OwnPoints, VictimPoints
<1> QED
  BY <1>1, <1>2, <1>3, TypeCorrect, PTL DEF Spec

----------------------------------------------------------------------------
(* What git has not finished is not reused, when clients keep to one call  *)
(* per repository: such a directory is one that a call is still writing.   *)

OneClone ==
    \A c, k \in Caller :
        Active(c) /\ Active(k) /\ clone[c].repo = clone[k].repo => c = k

HalfWritten == {"empty", "partial"}
WritePoints == {"git", "fetch", "cleanup", "cleaning"}

BeingWritten(r) == \E k \in Caller : clone[k].repo = r /\ clone[k].pc \in WritePoints
HalfInv == OneClone /\ \A r \in Repo : dir[r] \in HalfWritten => BeingWritten(r)

\* Where the file system works: a half-written directory is one that c is still
\* writing, or git of another call, or that c did not write.
LEMMA StepHalves ==
    ASSUME dir \in [Repo -> DirState], clone \in [Caller -> Clone],
           "disk" \notin MayFail,
           NEW c \in Caller, NEW r \in Repo, Step(c), dir'[r] \in HalfWritten
    PROVE  \/ clone[c].repo = r /\ clone'[c].pc \in WritePoints
           \/ \E k \in Caller : k # c /\ clone[k].repo = r /\ At(k, "fetch")
           \/ /\ dir[r] \in HalfWritten
              /\ clone[c].repo # r \/ clone[c].pc \notin WritePoints
<1> DEFINE Ok == \/ clone[c].repo = r /\ clone'[c].pc \in WritePoints
                 \/ \E k \in Caller : k # c /\ clone[k].repo = r /\ At(k, "fetch")
                 \/ /\ dir[r] \in HalfWritten
                    /\ clone[c].repo # r \/ clone[c].pc \notin WritePoints
<1>0. clone[c].repo \in Repo /\ clone[c].victim \in Repo
  BY DEF Clone
<1>1. ~Unreliable("disk")
  BY DEF Unreliable
<1>2. \A pc : Goto(c, pc) => clone'[c].pc = pc
  BY DEF Goto, Clone
<1>3. NextAttempt(c) => clone'[c].pc \in {"git", "cleanup"}
  BY <1>2 DEF NextAttempt, Clone
<1>4. ASSUME NEW q \in Repo, Tear(q) PROVE dir[r] \in HalfWritten
  BY <1>4 DEF Tear, SetDir, HalfWritten
<1>5. ASSUME NEW q \in Repo, SetDir(q, "none") PROVE q # r /\ dir[r] \in HalfWritten
  BY <1>5 DEF SetDir, HalfWritten
<1>6. ASSUME NEW q \in Repo, RemovalFails(q)
      PROVE  /\ dir[r] \in HalfWritten
             /\ \E k \in Caller : At(k, "fetch") /\ clone[k].repo = q
  BY <1>1, <1>4, <1>6 DEF RemovalFails
<1>7. CASE \/ Lookup(c) \/ CacheHit(c) \/ Upsert(c) \/ Touch(c) \/ Size(c)
           \/ List(c) \/ EvictRow(c)
  <2>1. dir' = dir
    BY <1>7 DEF Lookup, CacheHit, Upsert, Touch, Size, List, EvictRow
  <2>2. clone[c].pc \notin WritePoints
    BY <1>7 DEF Lookup, CacheHit, Upsert, Touch, Size, List, EvictRow, At, WritePoints
  <2> QED
    BY <2>1, <2>2
<1>8. CASE Refresh(c) \/ EvictDir(c)
  <2>1. dir[r] \in HalfWritten
    BY <1>8, <1>0, <1>1, <1>4 DEF Refresh, EvictDir
  <2>2. clone[c].pc \notin WritePoints
    BY <1>8 DEF Refresh, EvictDir, At, WritePoints
  <2> QED
    BY <2>1, <2>2
<1>9. CASE EndRefresh(c) \/ EndEvictDir(c)
  <2>1. dir[r] \in HalfWritten
    BY <1>9, <1>0, <1>5, <1>6 DEF EndRefresh, EndEvictDir
  <2>2. clone[c].pc \notin WritePoints
    BY <1>9 DEF EndRefresh, EndEvictDir, At, WritePoints
  <2> QED
    BY <2>1, <2>2
<1>10. CASE CreateDir(c) \/ BeginGit(c) \/ EndGit(c)
  <2>1. CASE clone[c].repo = r /\ clone'[c].pc # "upsert"
    <3>1. clone'[c].pc \in WritePoints
      BY <1>10, <1>1, <1>2, <1>3, <2>1 DEF CreateDir, BeginGit, EndGit, WritePoints
    <3> QED
      BY <2>1, <3>1
  <2>2. CASE clone[c].repo = r /\ clone'[c].pc = "upsert"
    <3>1. /\ dir[r] \in {"partial", "full", "torn"}
          /\ SetDir(r, IF dir[r] = "partial" THEN "full" ELSE dir[r])
      BY <1>10, <1>1, <1>2, <1>3, <2>2 DEF CreateDir, BeginGit, EndGit
    <3>2. dir'[r] \notin HalfWritten
      BY <3>1 DEF SetDir, HalfWritten
    <3> QED
      BY <3>2
  <2>3. CASE clone[c].repo # r
    BY <1>10, <1>0, <1>1, <2>3 DEF CreateDir, BeginGit, EndGit, SetDir
  <2> QED
    BY <2>1, <2>2, <2>3
<1>11. CASE Cleanup(c)
  <2>1. dir[r] \in HalfWritten /\ clone'[c].pc \in WritePoints
    BY <1>11, <1>0, <1>1, <1>2, <1>4 DEF Cleanup, WritePoints
  <2> QED
    BY <2>1
<1>12. CASE EndCleanup(c)
  <2>1. CASE SetDir(clone[c].repo, "none")
    BY <1>0, <1>5, <2>1
  <2>2. CASE RemovalFails(clone[c].repo)
    BY <1>12, <1>0, <1>6, <2>2 DEF EndCleanup, At
  <2> QED
    BY <1>12, <2>1, <2>2 DEF EndCleanup
<1> QED
  BY <1>7, <1>8, <1>9, <1>10, <1>11, <1>12 DEF Step

LEMMA StepHalf ==
    ASSUME CacheTyped, HalfInv, "disk" \notin MayFail, NEW c \in Caller, Step(c)
    PROVE  HalfInv'
<1>1. OneClone'
  BY StepClones DEF CacheTyped, HalfInv, OneClone, Active
<1>2. ASSUME NEW r \in Repo, dir'[r] \in HalfWritten PROVE BeingWritten(r)'
  <2>1. CASE clone[c].repo = r /\ clone'[c].pc \in WritePoints
    BY <2>1, StepClones DEF CacheTyped, BeingWritten, WritePoints
  <2>2. CASE \E k \in Caller : k # c /\ clone[k].repo = r /\ At(k, "fetch")
    BY <2>2, StepClones DEF CacheTyped, BeingWritten, WritePoints, At
  <2>3. CASE /\ dir[r] \in HalfWritten
             /\ clone[c].repo # r \/ clone[c].pc \notin WritePoints
    <3>1. PICK k \in Caller : clone[k].repo = r /\ clone[k].pc \in WritePoints
      BY <2>3 DEF HalfInv, BeingWritten
    <3>2. k # c
      BY <2>3, <3>1
    <3> QED
      BY <3>1, <3>2, StepClones DEF CacheTyped, BeingWritten, WritePoints
  <2> QED
    BY <1>2, <2>1, <2>2, <2>3, StepHalves DEF CacheTyped
<1> QED
  BY <1>1, <1>2 DEF HalfInv, HalfWritten

LEMMA NoHalfHit ==
    ASSUME HalfInv, clone \in [Caller -> Clone], NEW c \in Caller, At(c, "hit")
    PROVE  dir[clone[c].repo] \notin HalfWritten
BY DEF HalfInv, OneClone, BeingWritten, At, Active, RestPoints, WritePoints, Clone

LEMMA NextHalf ==
    ASSUME TypeOK, HalfInv, OnePerRepo, MayFail \subseteq {"net", "db"}, [Next]_vars
    PROVE  HalfInv'
<1>0. CacheTyped
  BY DEF TypeOK, CacheTyped
<1>1. ASSUME NEW c \in Caller, NEW r \in Repo, NEW refresh \in BOOLEAN,
             StartClone(c, r, refresh)
      PROVE  HalfInv'
  <2>1. /\ \A k \in Caller : k # c => clone'[k] = clone[k]
        /\ clone'[c].repo = r
    BY <1>0, <1>1 DEF StartClone, BeginClone, CacheTyped, Resting
  <2>2. ~Active(c) /\ dir' = dir /\ \A k \in Caller : Active(k) => clone[k].repo # r
    BY <1>1 DEF StartClone
  <2>3. OneClone'
    BY <2>1, <2>2 DEF HalfInv, OneClone, Active
  <2>4. \A p \in Repo : BeingWritten(p) => BeingWritten(p)'
    BY <2>1, <2>2 DEF BeingWritten, Active, RestPoints, WritePoints
  <2> QED
    BY <2>2, <2>4, <2>3 DEF HalfInv, HalfWritten
<1>2. ASSUME NEW c \in Caller, Step(c) PROVE HalfInv'
  BY <1>0, <1>2, StepHalf
<1>3. ~Crash
  BY DEF Crash, Unreliable
<1>4. CASE UNCHANGED vars
  BY <1>4 DEF vars, cacheVars, HalfInv, OneClone, BeingWritten, Active, HalfWritten
<1> QED
  BY <1>1, <1>2, <1>3, <1>4 DEF Next

LEMMA InitHalf ==
    ASSUME Init
    PROVE  HalfInv
BY DEF Init, HalfInv, OneClone, Active, Resting, RestPoints, HalfWritten

\* With one call per repository at a time, and however git and the database fail and
\* whatever is evicted: no call reuses a directory that git has not finished.
THEOREM UnfinishedClonesAreNotReused ==
    ASSUME OnePerRepo, MayFail \subseteq {"net", "db"}
    PROVE  Spec => NeverReusesUnfinishedClone
<1>1. TypeOK /\ HalfInv /\ [Next]_vars => HalfInv'
  BY NextHalf
<1>2. TypeOK /\ HalfInv =>
        [\A c \in Caller : At(c, "hit") /\ clone'[c].pc = "touch" =>
            dir[clone[c].repo] \notin {"empty", "partial"}]_vars
  BY NoHalfHit DEF TypeOK, HalfWritten
<1> QED
  BY <1>1, <1>2, InitHalf, TypeCorrect, PTL DEF Spec, NeverReusesUnfinishedClone

----------------------------------------------------------------------------
(* Where the cache has room for every repository nothing is evicted, and   *)
(* then a directory that is being removed is one that the only call for    *)
(* its repository is removing.                                             *)

EvictionPoints == {"list", "evictRow", "evictDir", "evicting"}
NoEviction == \A k \in Caller : clone[k].pc \notin EvictionPoints

BeingRemoved(r) == \E k \in Caller : clone[k].repo = r /\ clone[k].pc \in Removing
TornInv == \A r \in Repo : dir[r] = "torn" => BeingRemoved(r)

LEMMA RoomForAll ==
    ASSUME DbSize + Cardinality(Repo) <= Limit, NEW counted
    PROVE  CurrentSize(counted) <= Limit
<1> DEFINE S == {r \in Repo : dir[r] \in counted}
<1>1. /\ Cardinality(S) \in Nat /\ Cardinality(Repo) \in Nat
      /\ Cardinality(S) <= Cardinality(Repo)
  BY RepoAssumption, FS_Subset, FS_CardinalityType
<1> QED
  BY <1>1, BoundAssumption DEF CurrentSize

LEMMA StepNoEviction ==
    ASSUME clone \in [Caller -> Clone], NoEviction, DbSize + Cardinality(Repo) <= Limit,
           NEW c \in Caller, Step(c)
    PROVE  NoEviction'
<1>1. clone[c].pc \notin EvictionPoints
  BY DEF NoEviction
<1>2. ~List(c) /\ ~EvictRow(c) /\ ~EvictDir(c) /\ ~EndEvictDir(c)
  BY <1>1 DEF List, EvictRow, EvictDir, EndEvictDir, At, EvictionPoints
<1>3. ASSUME NEW pc, Goto(c, pc) \/ Return(c, pc) PROVE clone'[c].pc = pc
  BY <1>3 DEF Goto, Return, Resting, Clone
<1>4. NextAttempt(c) => clone'[c].pc \in {"git", "cleanup"}
  BY <1>3 DEF NextAttempt, Clone
<1>5. clone'[c].pc \notin EvictionPoints
  <2>1. CASE Size(c)
    <3>1. ~(CurrentSize({"partial", "full", "torn"}) > Limit)
      <4>1. CurrentSize({"partial", "full", "torn"}) \in Nat
        BY RepoAssumption, FS_Subset, FS_CardinalityType, BoundAssumption DEF CurrentSize
      <4> QED
        BY <4>1, RoomForAll, BoundAssumption
    <3> QED
      BY <1>3, <2>1, <3>1 DEF Size, EvictionPoints
  <2>2. CASE CacheHit(c)
    <3>1. ASSUME clone' = [clone EXCEPT ![c].pc = "touch",
                                        ![c].indexed = repos[clone[c].repo].indexed]
          PROVE  clone'[c].pc = "touch"
      BY <3>1 DEF Clone
    <3> QED
      BY <1>3, <2>2, <3>1 DEF CacheHit, EvictionPoints
  <2>3. CASE \/ Refresh(c) \/ EndRefresh(c) \/ Lookup(c) \/ CreateDir(c) \/ Cleanup(c)
             \/ EndCleanup(c) \/ Upsert(c) \/ Touch(c)
    BY <1>3, <2>3 DEF Refresh, EndRefresh, Lookup, CreateDir, Cleanup, EndCleanup, Upsert,
                      Touch, EvictionPoints
  <2>4. CASE BeginGit(c) \/ EndGit(c)
    BY <1>3, <1>4, <2>4 DEF BeginGit, EndGit, EvictionPoints
  <2> QED
    BY <1>2, <2>1, <2>2, <2>3, <2>4 DEF Step
<1> QED
  BY <1>5, StepClones DEF NoEviction

LEMMA StepTorn ==
    ASSUME CacheTyped, OneClone, NoEviction, TornInv, "disk" \notin MayFail,
           NEW c \in Caller, Step(c)
    PROVE  TornInv'
<1>0. /\ clone[c].repo \in Repo /\ clone'[c].repo = clone[c].repo
      /\ \A k \in Caller : k # c => clone'[k] = clone[k]
  BY StepClones DEF CacheTyped, Clone
<1>1. ~Unreliable("disk")
  BY DEF Unreliable
<1>2. clone[c].pc \in Removing => ~RemovalFails(clone[c].repo)
  BY <1>1 DEF RemovalFails, OneClone, At, Active, RestPoints, Removing
<1>3. ASSUME NEW pc, Goto(c, pc) PROVE clone'[c].pc = pc
  BY <1>3 DEF Goto, Clone, CacheTyped
<1> SUFFICES ASSUME NEW r \in Repo, dir'[r] = "torn"
             PROVE  BeingRemoved(r)'
  BY DEF TornInv
<1>4. CASE dir[r] = "torn"
  <2>1. PICK k \in Caller : clone[k].repo = r /\ clone[k].pc \in Removing
    BY <1>4 DEF TornInv, BeingRemoved
  <2>2. CASE k # c
    BY <1>0, <2>1, <2>2 DEF BeingRemoved
  <2>3. CASE k = c
    <3>1. EndRefresh(c) \/ EndCleanup(c) \/ EndEvictDir(c)
      BY <2>1, <2>3 DEF Step, Refresh, Lookup, CacheHit, CreateDir, BeginGit, EndGit,
         Cleanup, Upsert, Touch, Size, List, EvictRow, EvictDir, At, Removing
    <3>2. ~EndEvictDir(c)
      BY DEF EndEvictDir, At, NoEviction, EvictionPoints
    <3>3. SetDir(r, "none")
      BY <1>2, <2>1, <2>3, <3>1, <3>2 DEF EndRefresh, EndCleanup
    <3> QED
      BY <3>3 DEF SetDir, CacheTyped
  <2> QED
    BY <2>2, <2>3
<1>5. CASE dir[r] # "torn"
  <2>1. ASSUME NEW s, s # "torn", SetDir(clone[c].repo, s) PROVE FALSE
    BY <1>0, <1>5, <2>1 DEF SetDir, CacheTyped
  <2>2. ASSUME Tear(clone[c].repo) PROVE clone[c].repo = r
    BY <1>0, <1>5, <2>2 DEF Tear, SetDir, CacheTyped
  <2>3. ASSUME dir' = dir PROVE FALSE
    BY <1>5, <2>3
  <2>4. CASE Refresh(c)
    <3>1. Tear(clone[c].repo) /\ Goto(c, "refreshing")
      BY <1>1, <2>3, <2>4 DEF Refresh
    <3> QED
      BY <1>0, <1>3, <2>2, <3>1 DEF BeingRemoved, Removing
  <2>5. CASE Cleanup(c)
    <3>1. Tear(clone[c].repo) /\ Goto(c, "cleaning")
      BY <1>1, <2>5 DEF Cleanup
    <3> QED
      BY <1>0, <1>3, <2>2, <3>1 DEF BeingRemoved, Removing
  <2>6. ~EndRefresh(c) /\ ~EndCleanup(c)
    BY <1>2, <2>1 DEF EndRefresh, EndCleanup, At, Removing
  <2>7. ~CreateDir(c) /\ ~BeginGit(c)
    BY <1>0, <1>5, <2>3 DEF CreateDir, BeginGit, SetDir, CacheTyped
  <2>8. ~EndGit(c)
    BY <1>0, <1>5, <2>3 DEF EndGit, SetDir, CacheTyped
  <2>9. ~EvictDir(c) /\ ~EndEvictDir(c)
    BY DEF EvictDir, EndEvictDir, At, NoEviction, EvictionPoints
  <2> QED
    BY <2>3, <2>4, <2>5, <2>6, <2>7, <2>8, <2>9
    DEF Step, Lookup, CacheHit, Upsert, Touch, Size, List, EvictRow
<1> QED
  BY <1>4, <1>5

RoomInv == NoEviction /\ TornInv

LEMMA NextRoom ==
    ASSUME TypeOK, HalfInv, RoomInv, OnePerRepo, MayFail \subseteq {"net", "db"},
           DbSize + Cardinality(Repo) <= Limit, [Next]_vars
    PROVE  RoomInv'
<1>0. CacheTyped /\ OneClone
  BY DEF TypeOK, CacheTyped, HalfInv
<1>1. ASSUME NEW c \in Caller, NEW r \in Repo, NEW refresh \in BOOLEAN,
             StartClone(c, r, refresh)
      PROVE  RoomInv'
  <2>1. /\ \A k \in Caller : k # c => clone'[k] = clone[k]
        /\ clone'[c].pc = "refresh"
    BY <1>0, <1>1 DEF StartClone, BeginClone, CacheTyped, Resting
  <2>2. ~Active(c) /\ dir' = dir
    BY <1>1 DEF StartClone
  <2>3. \A p \in Repo : BeingRemoved(p) => BeingRemoved(p)'
    BY <2>1, <2>2 DEF BeingRemoved, Active, RestPoints, Removing
  <2>4. NoEviction'
    BY <2>1 DEF RoomInv, NoEviction, EvictionPoints
  <2> QED
    BY <2>2, <2>3, <2>4 DEF RoomInv, TornInv
<1>2. ASSUME NEW c \in Caller, Step(c) PROVE RoomInv'
  BY <1>0, <1>2, StepNoEviction, StepTorn DEF RoomInv, CacheTyped
<1>3. ~Crash
  BY DEF Crash, Unreliable
<1>4. CASE UNCHANGED vars
  BY <1>4 DEF vars, cacheVars, RoomInv, NoEviction, TornInv, BeingRemoved
<1> QED
  BY <1>1, <1>2, <1>3, <1>4 DEF Next

\* With one call per repository at a time, room for every repository, and however git
\* and the database fail: what a call reuses is never half of a clone, refreshes and
\* the cleaning up after git included.  Without the room an eviction breaks it, as the
\* run cache_half_clone shows, and with it nothing but an eviction could.
THEOREM HalfClonesAreNotReused ==
    ASSUME OnePerRepo, MayFail \subseteq {"net", "db"},
           DbSize + Cardinality(Repo) <= Limit
    PROVE  Spec => NeverReusesHalfClone
<1>1. Init => RoomInv
  BY DEF Init, RoomInv, NoEviction, TornInv, Resting, EvictionPoints
<1>2. TypeOK /\ HalfInv /\ [Next]_vars => HalfInv'
  BY NextHalf
<1>3. TypeOK /\ HalfInv /\ RoomInv /\ [Next]_vars => RoomInv'
  BY NextRoom
<1>4. ASSUME TypeOK, HalfInv, RoomInv, NEW c \in Caller, At(c, "hit")
      PROVE  dir[clone[c].repo] \notin {"empty", "partial", "torn"}
  <2>1. clone[c].repo \in Repo
    BY <1>4 DEF TypeOK, Clone
  <2>2. ~BeingRemoved(clone[c].repo)
    BY <1>4 DEF BeingRemoved, HalfInv, OneClone, Active, RestPoints, Removing, At
  <2>3. dir[clone[c].repo] \notin HalfWritten
    BY <1>4, NoHalfHit DEF TypeOK
  <2> QED
    BY <1>4, <2>1, <2>2, <2>3 DEF RoomInv, TornInv, HalfWritten
<1>5. TypeOK /\ HalfInv /\ RoomInv =>
        [\A c \in Caller : At(c, "hit") /\ clone'[c].pc = "touch" =>
            dir[clone[c].repo] \notin {"empty", "partial", "torn"}]_vars
  BY <1>4
<1> QED
  BY <1>1, <1>2, <1>3, <1>5, InitHalf, TypeCorrect, PTL DEF Spec, NeverReusesHalfClone
=============================================================================
