-------------------------------- MODULE Server --------------------------------
(***************************************************************************)
(* The tools together (fossil-server/src/tools.rs): analyze_feature, which *)
(* calls clone_reference, index_repo and locate_implementation one after   *)
(* the other, beside direct calls of clone_reference and                   *)
(* locate_implementation, on one cache and one database.  What an analysis *)
(* builds in one call may be evicted, refreshed or searched by another.    *)
(***************************************************************************)
EXTENDS Search

CONSTANTS
    Tree,           \* the Decls of each repository
    NoDir,          \* no directory on disk
    TopK,           \* the hits asked for: 10 by analyze_feature, 5 by default
    Limit,          \* the capacity of the cache, in clones
    MayFail,        \* the failures of clone_reference (RepoCache)
    MaxNetFailures, \* the bound on failures where git may fail
    MaxSkipped,     \* the bound on files of a tree that cannot be read
    MaxJobs         \* bound on the tool calls started

ASSUME TreeAssumption ==
    Tree \in [Repo -> SUBSET Decl] /\ \A T \in SUBSET Decl : T # NoDir
ASSUME CallerAssumption == IsFiniteSet(Caller) /\ Repo # {} /\ File # {}
ASSUME BoundAssumption ==
    TopK \in Nat \ {0} /\ {Limit, MaxFailures, MaxNetFailures, MaxSkipped, MaxJobs} \subseteq Nat

VARIABLES
    dir,            \* the directories under the cache root
    clone,          \* per caller: its call of clone_reference
    call,           \* per caller: its call of index_repo
    job,            \* per caller: the tool the client called, and the stage it is at
    started,        \* number of tool calls started so far
    clean,          \* history: the caller's index is as its own index_repo left it
    overlapped      \* history: the repos evicted while a call was indexing them

serverVars == <<dir, clone, call, job, started, clean, overlapped>>
vars == <<storeVars, find, failures, serverVars>>

C == INSTANCE RepoCache WITH
    DbSize <- 0, OnePerRepo <- FALSE, MaxCalls <- MaxJobs,
    MaxFailures <- MaxNetFailures

ASSUME FailureAssumption == MayFail \subseteq C!FailureKinds

\* The tree index_repo walks is what the directory holds.  Of one that git is writing
\* or another call is removing it finds some files, and not those it skips.
TreeOf(r) == CASE dir[r] = "none"  -> NoDir
               [] dir[r] = "empty" -> {}
               [] OTHER            -> Tree[r]

X == INSTANCE IndexRepo WITH
    trees <- [r \in Repo |-> TreeOf(r)],
    disturbed <- [c \in Caller |-> FALSE],
    Trees <- {Tree[r] : r \in Repo} \cup {{}},
    Lang <- {"any"}, LangOf <- [d \in Decl |-> "any"],
    Tools <- {"index_repo"},
    ChunkSize <- Cardinality(Decl) + 1,
    OnePerRepo <- FALSE, MaxCalls <- MaxJobs

ToolNames == {"clone_reference", "analyze_feature", "locate_implementation"}
Stages == {"idle", "clone", "index", "locate"}
Idle == [tool |-> "locate_implementation", scope |-> AllRepos, stage |-> "idle"]

TypeOK ==
    /\ StoreTypeOK
    /\ IsStrictOrder(older, Listed)
    /\ dir \in [Repo -> C!DirState]
    /\ clone \in [Caller -> C!Clone]
    /\ call \in [Caller -> X!Call]
    /\ find \in [Caller -> Find]
    /\ job \in [Caller -> [tool : ToolNames, scope : Repo \cup {AllRepos}, stage : Stages]]
    /\ started \in 0 .. MaxJobs /\ failures \in Nat
    /\ clean \in [Caller -> BOOLEAN] /\ overlapped \in SUBSET Repo

Init ==
    /\ C!Init
    /\ call = [c \in Caller |-> X!Resting("idle")]
    /\ find = [c \in Caller |-> FindResting("idle")]
    /\ job = [c \in Caller |-> Idle]
    /\ clean = [c \in Caller |-> FALSE]
    /\ overlapped = {}

----------------------------------------------------------------------------
(* History.                                                                *)

\* From the choice of a victim to the removal of its directory.
Evicting(r) ==
    \E k \in Caller :
        clone[k].pc \in {"evictRow", "evictDir", "evicting"} /\ clone[k].victim = r
Indexing(r) == \E k \in Caller : X!Active(k) /\ call[k].repo = r

Remember(c) ==
    /\ clean' = [k \in Caller |->
          \/ call[k].pc = "clear" /\ call'[k].pc = "insert"
          \/ /\ clean[k] /\ job'[k] # Idle
             /\ k # c => X!ContentOf(job[k].scope)' = X!ContentOf(job[k].scope)]
    /\ overlapped' = overlapped \cup {r \in Repo : Evicting(r)' /\ Indexing(r)'}

----------------------------------------------------------------------------
(* A client calls a tool.  Two calls that clone or index one repository at *)
(* a time are RepoCache's and IndexRepo's subject; here there is one.      *)

Begin(c, tool, scope, stage) ==
    /\ job[c] = Idle
    /\ started < MaxJobs
    /\ tool # "locate_implementation" =>
          \A k \in Caller : job[k].tool = "locate_implementation" \/ job[k].scope # scope
    /\ job' = [job EXCEPT ![c] = [tool |-> tool, scope |-> scope, stage |-> stage]]
    /\ started' = started + 1

StartCloneReference(c, r, refresh) ==
    /\ Begin(c, "clone_reference", r, "clone")
    /\ C!BeginClone(c, r, refresh)
    /\ UNCHANGED <<storeVars, dir, call, find, failures>>

StartAnalyzeFeature(c, r) ==
    /\ Begin(c, "analyze_feature", r, "clone")
    /\ C!BeginClone(c, r, FALSE)
    /\ UNCHANGED <<storeVars, dir, call, find, failures>>

StartLocateImplementation(c, scope) ==
    /\ Begin(c, "locate_implementation", scope, "locate")
    /\ BeginFind(c, scope, TopK)
    /\ UNCHANGED <<storeVars, dir, clone, call, failures>>

----------------------------------------------------------------------------
(* The stages of analyze_feature.  `?` after each ends it at an error.     *)

IndexNext(c) == job[c].tool = "analyze_feature" /\ ~clone[c].indexed

AnalyzeIndex(c) ==
    LET r == job[c].scope
    IN  /\ job[c].stage = "clone" /\ clone[c].pc = "done" /\ IndexNext(c)
        /\ job' = [job EXCEPT ![c].stage = "index"]
        /\ call' = [call EXCEPT ![c] =
               [X!Resting(IF dir[r] = "none" THEN "failed" ELSE "parse") EXCEPT !.repo = r]]
        /\ UNCHANGED <<storeVars, dir, clone, find, failures, started>>

AnalyzeLocate(c) ==
    /\ job[c].tool = "analyze_feature"
    /\ \/ job[c].stage = "clone" /\ clone[c].pc = "done" /\ ~IndexNext(c)
       \/ job[c].stage = "index" /\ call[c].pc = "done"
    /\ job' = [job EXCEPT ![c].stage = "locate"]
    /\ BeginFind(c, job[c].scope, TopK)
    /\ UNCHANGED <<storeVars, dir, clone, call, failures, started>>

\* The client has its answer, or the error of the stage that failed.
Finish(c) ==
    /\ \/ job[c].stage = "clone" /\ clone[c].pc = "failed"
       \/ job[c].stage = "clone" /\ clone[c].pc = "done" /\ job[c].tool = "clone_reference"
       \/ job[c].stage = "index" /\ call[c].pc = "failed"
       \/ job[c].stage = "locate" /\ find[c].pc \in {"done", "failed"}
    /\ job' = [job EXCEPT ![c] = Idle]
    /\ clone' = [clone EXCEPT ![c] = C!Resting("idle")]
    /\ call' = [call EXCEPT ![c] = X!Resting("idle")]
    /\ find' = [find EXCEPT ![c] = FindResting("idle")]
    /\ UNCHANGED <<storeVars, dir, failures, started>>

----------------------------------------------------------------------------

CloneStep(c) == C!Step(c) /\ UNCHANGED <<call, find, job>>

IndexStep(c) ==
    /\ UNCHANGED dir
    /\ \/ /\ \/ X!Parse(c) \/ X!Touch(c) \/ X!Clear(c) \/ X!Insert(c) \/ X!Load(c)
             \/ X!EmbedChunk(c) \/ X!InsertEdges(c) \/ X!Count(c)
          /\ Works
       \/ X!Fail(c) /\ Fails
    /\ UNCHANGED <<clone, find, job>>

LocateStep(c) == FindStep(c) /\ UNCHANGED <<dir, clone, call, job, started>>

Step(c) ==
    \/ CloneStep(c) \/ IndexStep(c) \/ LocateStep(c)
    \/ AnalyzeIndex(c) \/ AnalyzeLocate(c) \/ Finish(c)

Start(c) ==
    \/ \E r \in Repo, refresh \in BOOLEAN : StartCloneReference(c, r, refresh)
    \/ \E r \in Repo : StartAnalyzeFeature(c, r)
    \/ \E scope \in Repo \cup {AllRepos} : StartLocateImplementation(c, scope)

Next == \E c \in Caller : (Start(c) \/ Step(c)) /\ Remember(c)

Spec == Init /\ [][Next]_vars

----------------------------------------------------------------------------
(* Properties.                                                             *)

\* A hit of the semantic search is a symbol whose own text is near the query:
\* locate_implementation joins the ids that search_embeddings returns with
\* symbols it loaded in an earlier statement, and in between the repository may
\* have been evicted, indexed anew, or its ids deleted.
SemanticHitsAreOfTheirText ==
    \A c \in Caller : \A h \in find[c].hits : h.text # NoText => h.text = h.sym.decl

\* An analysis answers from what it indexed itself: when its index_repo succeeded
\* and nobody has changed the repository's index since (an eviction would), its
\* search has as many hits as were asked for and there are symbols, however many
\* vectors of other repositories are nearer, and with every call edge from them.
UndisturbedAnalysisAnswers ==
    \A c \in Caller :
        LET r == job[c].scope
            n == LeastOf(TopK, Cardinality(RowsOf(r)))
        IN  job[c].tool = "analyze_feature" /\ clean[c] /\ FindAt(c, "done")
            /\ failures = 0 =>
              /\ Cardinality(find[c].hits) = n
              /\ \A h \in find[c].hits : h.sym \in RowsOf(r)
              /\ \A h \in find[c].hits : <<h, <<r, h.sym.decl>>>> \in find[c].related

\* The symbols in the database are of repositories the cache lists, so that a later
\* eviction reaches them, unless the repository was being indexed while it was
\* evicted.  It takes the eviction to delete the symbols with the row, and
\* index_repo to follow the clone and its row.
IndexesBelongToClones == \A s \in symbols : s.repo \in Listed \cup overlapped

\* RepoCache's properties, now with analyses that index and search what is cloned:
\* each directory in the cache has its row once no clone_reference is in flight.
ClonesAreListed == C!ClonesAreListed

\* clone_reference reuses no directory that git has not finished.  One that an
\* eviction is removing, or has removed files from, it does reuse.
NeverReusesUnfinishedClone == C!NeverReusesUnfinishedClone
=============================================================================
