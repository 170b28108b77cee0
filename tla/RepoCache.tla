----------------------------- MODULE RepoCache -----------------------------
(***************************************************************************)
(* clone_reference (fossil-server/src/tools.rs): clone_repo                *)
(* (fossil-repo/src/clone.rs), then CacheManager::enforce_capacity         *)
(* (fossil-repo/src/cache.rs).  Two stores must agree here, the directories*)
(* under the cache root and the rows of table repos, and nothing ties a    *)
(* change of one to a change of the other.                                 *)
(***************************************************************************)
EXTENDS GlobalStore

CONSTANTS
    Caller,         \* concurrent calls of clone_reference
    Limit,          \* 5 GB in the code, in clones
    DbSize,         \* what global.db itself takes of it
    MayFail,        \* what may fail: see FailureKinds
    OnePerRepo,     \* clients never have two calls for one repo in flight
    MaxCalls,       \* bound on the calls started
    MaxFailures     \* bound on the failures

\* disk: the file system; db: global.db; net: git; crash: the server process dies
FailureKinds == {"disk", "db", "net", "crash"}

ASSUME CallerAssumption == IsFiniteSet(Caller) /\ Repo # {}
ASSUME BoundAssumption ==
    /\ Limit \in Nat /\ DbSize \in Nat
    /\ MayFail \subseteq FailureKinds /\ OnePerRepo \in BOOLEAN
    /\ MaxCalls \in Nat /\ MaxFailures \in Nat

VARIABLES
    dir,        \* the directory of each repo under the cache root
    clone,      \* per caller: the handler's control point and its locals
    started,    \* number of calls started so far
    failures    \* number of failures so far

cacheVars == <<dir, clone, started, failures>>
vars == <<storeVars, cacheVars>>

\* empty: just created.  partial: being written by git, or left so.
\* torn: files have been removed from it.
DirState == {"none", "empty", "partial", "full", "torn"}

RestPoints == {"idle", "done", "failed"}
Removing == {"refreshing", "cleaning", "evicting"}
\* refreshing, cleaning, evicting: in the middle of remove_dir_all.
ClonePoints == {"refresh", "refreshing", "lookup", "hit", "mkdir", "git", "fetch",
                "cleanup", "cleaning", "upsert"}
CapacityPoints == {"touch", "size", "list", "evictRow", "evictDir", "evicting"}

\* attempt: libgit2 first, then the git command.  victim: oldest_repo.
\* indexed: what the call reports of the repo, which analyze_feature acts on.
Clone == [pc : RestPoints \cup ClonePoints \cup CapacityPoints,
          repo : Repo, refresh : BOOLEAN, attempt : {1, 2}, victim : Repo,
          indexed : BOOLEAN]

TypeOK ==
    /\ StoreTypeOK
    /\ IsStrictOrder(older, Listed)
    /\ dir \in [Repo -> DirState]
    /\ clone \in [Caller -> Clone]
    /\ started \in 0 .. MaxCalls
    /\ failures \in 0 .. MaxFailures

Resting(pc) ==
    LET r == CHOOSE r \in Repo : TRUE
    IN  [pc |-> pc, repo |-> r, refresh |-> FALSE, attempt |-> 1, victim |-> r,
         indexed |-> FALSE]

Init ==
    /\ repos = [r \in Repo |-> NoRow]
    /\ older = {} /\ symbols = {} /\ vecs = {} /\ nextId = 1
    /\ edges = [e \in Repo \X Decl |-> 0]
    /\ dir = [r \in Repo |-> "none"]
    /\ clone = [c \in Caller |-> Resting("idle")]
    /\ started = 0 /\ failures = 0

----------------------------------------------------------------------------
(* Control.                                                                *)

Active(c) == clone[c].pc \notin RestPoints
At(c, pc) == clone[c].pc = pc
Goto(c, pc) == clone' = [clone EXCEPT ![c].pc = pc]
\* The repo and `indexed` stay in the record: they are the result the client got.
Return(c, outcome) ==
    clone' = [clone EXCEPT ![c] = [Resting(outcome) EXCEPT !.repo = clone[c].repo,
                                                    !.indexed = clone[c].indexed]]

Reliable == UNCHANGED failures
Unreliable(kind) ==
    kind \in MayFail /\ failures < MaxFailures /\ failures' = failures + 1

SetDir(r, s) == dir' = [dir EXCEPT ![r] = s]

\* remove_dir_all takes its time.  Between its first file and its last the directory
\* is there for whoever looks; an empty one goes at once.
Tear(r) == SetDir(r, IF dir[r] \in {"none", "empty"} THEN dir[r] ELSE "torn")

\* It gives up at the first entry it cannot remove, and at a directory that is no
\* longer empty when its turn comes, as git is putting files there.
RemovalFails(r) ==
    /\ Tear(r) \/ UNCHANGED dir
    /\ \/ Unreliable("disk")
       \/ (\E k \in Caller : At(k, "fetch") /\ clone[k].repo = r) /\ Reliable

BeginClone(c, r, refresh) ==
    clone' = [clone EXCEPT ![c] =
                 [Resting("refresh") EXCEPT !.repo = r, !.refresh = refresh]]

StartClone(c, r, refresh) ==
    /\ ~Active(c)
    /\ started < MaxCalls
    /\ OnePerRepo => \A k \in Caller : Active(k) => clone[k].repo # r
    /\ BeginClone(c, r, refresh)
    /\ started' = started + 1
    /\ UNCHANGED <<storeVars, dir, failures>>

----------------------------------------------------------------------------
(* clone_repo.                                                             *)

Refresh(c) ==
    LET r == clone[c].repo
    IN  /\ At(c, "refresh")
        /\ IF clone[c].refresh /\ dir[r] # "none"
           THEN \/ Tear(r) /\ Goto(c, "refreshing") /\ Reliable
                \/ UNCHANGED dir /\ Return(c, "failed") /\ Unreliable("disk")
           ELSE Goto(c, "lookup") /\ Reliable /\ UNCHANGED dir
        /\ UNCHANGED <<storeVars, started>>

EndRefresh(c) ==
    LET r == clone[c].repo
    IN  /\ At(c, "refreshing")
        /\ \/ SetDir(r, "none") /\ Goto(c, "lookup") /\ Reliable
           \/ RemovalFails(r) /\ Return(c, "failed")
        /\ UNCHANGED <<storeVars, started>>

Lookup(c) ==
    /\ At(c, "lookup")
    /\ Goto(c, IF dir[clone[c].repo] = "none" THEN "mkdir" ELSE "hit")
    /\ UNCHANGED <<storeVars, dir, started, failures>>

\* Without a row, or when it cannot be read, the metadata is made up; it is not
\* stored.
CacheHit(c) ==
    LET r == clone[c].repo
    IN  /\ At(c, "hit")
        /\ \/ /\ r \in Listed
              /\ clone' = [clone EXCEPT ![c].pc = "touch",
                                        ![c].indexed = repos[r].indexed]
              /\ Reliable
           \/ r \notin Listed /\ Goto(c, "touch") /\ Reliable
           \/ r \in Listed /\ Goto(c, "touch") /\ Unreliable("db")
           \/ Return(c, "failed") /\ Unreliable("db")
        /\ UNCHANGED <<storeVars, dir, started>>

CreateDir(c) ==
    LET r == clone[c].repo
    IN  /\ At(c, "mkdir")
        /\ \/ /\ SetDir(r, IF dir[r] = "none" THEN "empty" ELSE dir[r])
              /\ Goto(c, "git") /\ Reliable
           \/ Return(c, "failed") /\ Unreliable("disk") /\ UNCHANGED dir
        /\ UNCHANGED <<storeVars, started>>

\* libgit2 failed: the git command is tried; that failed too: clean up.
NextAttempt(c) ==
    IF clone[c].attempt = 1
    THEN clone' = [clone EXCEPT ![c].attempt = 2, ![c].pc = "git"]
    ELSE Goto(c, "cleanup")

\* git refuses a directory that has something in it; one that is being removed may
\* have nothing in it any more.
BeginGit(c) ==
    LET r == clone[c].repo
    IN  /\ At(c, "git")
        /\ \/ dir[r] \in {"none", "empty"} /\ SetDir(r, "partial") /\ Goto(c, "fetch")
           \/ dir[r] = "torn" /\ Goto(c, "fetch") /\ UNCHANGED dir
           \/ dir[r] \notin {"none", "empty"} /\ NextAttempt(c) /\ UNCHANGED dir
        /\ UNCHANGED <<storeVars, started, failures>>

\* A clone ends with the whole tree, or undone by git itself.  One whose files are
\* removed under it fails, or does not notice.
EndGit(c) ==
    LET r == clone[c].repo
    IN  /\ At(c, "fetch")
        /\ \/ /\ dir[r] \in {"partial", "full", "torn"}
              /\ SetDir(r, IF dir[r] = "partial" THEN "full" ELSE dir[r])
              /\ Goto(c, "upsert") /\ Reliable
           \/ /\ dir[r] \in {"partial", "full", "torn"}
              /\ SetDir(r, IF dir[r] = "full" THEN dir[r] ELSE "empty")
              /\ NextAttempt(c) /\ Unreliable("net")
           \/ /\ dir[r] \in {"none", "empty", "torn"}
              /\ NextAttempt(c) /\ Reliable /\ UNCHANGED dir
        /\ UNCHANGED <<storeVars, started>>

\* Mutant: what a failed clone leaves is not removed.
CleanupMutant(c) ==
    /\ At(c, "cleanup")
    /\ Return(c, "failed")
    /\ UNCHANGED <<storeVars, dir, started, failures>>

\* `let _ = remove_dir_all`: whoever's files these are, and whether or not it works.
Cleanup(c) ==
    LET r == clone[c].repo
    IN  /\ At(c, "cleanup")
        /\ \/ Tear(r) /\ Goto(c, "cleaning") /\ Reliable
           \/ UNCHANGED dir /\ Return(c, "failed") /\ Unreliable("disk")
        /\ UNCHANGED <<storeVars, started>>

EndCleanup(c) ==
    LET r == clone[c].repo
    IN  /\ At(c, "cleaning")
        /\ \/ SetDir(r, "none") /\ Reliable
           \/ RemovalFails(r)
        /\ Return(c, "failed")
        /\ UNCHANGED <<storeVars, started>>

Upsert(c) ==
    /\ At(c, "upsert")
    /\ \/ UpsertRepo(clone[c].repo, FreshRow) /\ Goto(c, "touch") /\ Reliable
       \/ Return(c, "failed") /\ Unreliable("db") /\ UNCHANGED storeVars
    /\ UNCHANGED <<dir, started>>

----------------------------------------------------------------------------
(* The rest of clone_reference: mark_accessed and enforce_capacity.  No    *)
(* failure here is reported to the client.                                 *)

Touch(c) ==
    /\ At(c, "touch")
    /\ \/ MarkAccessed(clone[c].repo) /\ Goto(c, "size") /\ Reliable
       \/ Goto(c, "size") /\ Unreliable("db") /\ UNCHANGED storeVars
       \/ Return(c, "done") /\ Unreliable("db") /\ UNCHANGED storeVars
    /\ UNCHANGED <<dir, started>>

CurrentSize(counted) == DbSize + Cardinality({r \in Repo : dir[r] \in counted})

\* get_dir_size(..).unwrap_or(0): a tree that cannot be walked counts as empty, and so
\* does the whole cache when an entry is removed under the walk.
Size(c) ==
    /\ At(c, "size")
    /\ \/ /\ CurrentSize({"partial", "full", "torn"}) > Limit
          /\ Goto(c, "list") /\ Reliable
       \/ /\ \/ CurrentSize({"partial", "full"}) <= Limit
             \/ \E k \in Caller : clone[k].pc \in Removing
          /\ Return(c, "done") /\ Reliable
       \/ Return(c, "done") /\ Unreliable("disk")
    /\ UNCHANGED <<storeVars, dir, started>>

IsOldest(r) == r \in Listed /\ \A q \in Listed : <<q, r>> \notin older

List(c) ==
    /\ At(c, "list")
    /\ \/ \E r \in Repo :
             /\ IsOldest(r)
             /\ clone' = [clone EXCEPT ![c].pc = "evictRow", ![c].victim = r]
             /\ Reliable
       \/ Listed = {} /\ Return(c, "done") /\ Reliable
       \/ Return(c, "done") /\ Unreliable("db")
    /\ UNCHANGED <<storeVars, dir, started>>

\* Mutant: the row evicted is the oldest by now, the directory that chosen before.
EvictRowMutant(c) ==
    /\ At(c, "evictRow")
    /\ \/ (\E r \in Repo : IsOldest(r) /\ EvictRepo(r)) /\ Reliable
       \/ UNCHANGED storeVars /\ Unreliable("db")
    /\ Goto(c, "evictDir")
    /\ UNCHANGED <<dir, started>>

EvictRow(c) ==
    /\ At(c, "evictRow")
    /\ \/ EvictRepo(clone[c].victim) /\ Reliable
       \/ UNCHANGED storeVars /\ Unreliable("db")
    /\ Goto(c, "evictDir")
    /\ UNCHANGED <<dir, started>>

EvictDir(c) ==
    LET v == clone[c].victim
    IN  /\ At(c, "evictDir")
        /\ IF dir[v] # "none"
           THEN \/ Tear(v) /\ Goto(c, "evicting") /\ Reliable
                \/ UNCHANGED dir /\ Goto(c, "size") /\ Unreliable("disk")
           ELSE Goto(c, "size") /\ Reliable /\ UNCHANGED dir
        /\ UNCHANGED <<storeVars, started>>

EndEvictDir(c) ==
    LET v == clone[c].victim
    IN  /\ At(c, "evicting")
        /\ \/ SetDir(v, "none") /\ Reliable
           \/ RemovalFails(v)
        /\ Goto(c, "size")
        /\ UNCHANGED <<storeVars, started>>

----------------------------------------------------------------------------

\* The server process dies: git stops with it, disk and database stay.
Crash ==
    /\ Unreliable("crash")
    /\ \E c \in Caller : Active(c)
    /\ clone' = [c \in Caller |-> IF Active(c) THEN Resting("failed") ELSE clone[c]]
    /\ UNCHANGED <<storeVars, dir, started>>

Step(c) ==
    \/ Refresh(c) \/ EndRefresh(c) \/ Lookup(c) \/ CacheHit(c) \/ CreateDir(c)
    \/ BeginGit(c) \/ EndGit(c) \/ Cleanup(c) \/ EndCleanup(c) \/ Upsert(c)
    \/ Touch(c) \/ Size(c) \/ List(c) \/ EvictRow(c) \/ EvictDir(c) \/ EndEvictDir(c)

Next ==
    \/ \E c \in Caller, r \in Repo, refresh \in BOOLEAN : StartClone(c, r, refresh)
    \/ \E c \in Caller : Step(c)
    \/ Crash

Spec == Init /\ [][Next]_vars

\* Every call has a thread of its own, and no step of a call waits for another.
FairSpec == Spec /\ \A c \in Caller : WF_vars(Step(c))

----------------------------------------------------------------------------
(* Properties.                                                             *)

Quiet == \A c \in Caller : ~Active(c)

\* What clone_reference reuses is a clone: not a directory that git is still writing
\* or has left so, nor one that another call is removing or has removed files from.
NeverReusesHalfClone ==
    [][\A c \in Caller : At(c, "hit") /\ clone'[c].pc = "touch" =>
          dir[clone[c].repo] \notin {"empty", "partial", "torn"}]_vars

\* The part of it that is up to the calls for one repository: what git has not
\* finished is not reused.  As long as clients keep to one call per repository, each
\* clone that git leaves half-written is removed before the next call looks for it,
\* however git and the database fail and whatever is evicted meanwhile.
NeverReusesUnfinishedClone ==
    [][\A c \in Caller : At(c, "hit") /\ clone'[c].pc = "touch" =>
          dir[clone[c].repo] \notin {"empty", "partial"}]_vars

\* list_indexed_repos and the eviction know a clone by its row only: once no call
\* is in flight, each directory in the cache, whole or not, has one.  It takes the
\* order of the steps, a clone before its row and the eviction of a row before that
\* of its clone, in every interleaving of clones, refreshes and evictions of the same
\* repository.
ClonesAreListed == Quiet => \A r \in Repo : dir[r] # "none" => r \in Listed

\* The eviction loop of enforce_capacity ends, and with it every call, even when
\* the database alone exceeds the limit: unless both deletions fail for ever, a
\* turn of the loop makes progress.
CallsReturn == \A c \in Caller : Active(c) ~> ~Active(c)
=============================================================================
