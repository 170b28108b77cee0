-------------------------- MODULE WorkspaceWatcher --------------------------
(***************************************************************************)
(* The background watcher of one workspace (fossil-indexer/src/watcher.rs) *)
(* and the tools watch_workspace and unwatch_workspace, which keep it in   *)
(* the map `watchers` (fossil-server/src/tools.rs).  The notify thread     *)
(* puts changed paths in a set, a tokio task drains the set once per       *)
(* debounce period and indexes the files of the batch one by one.          *)
(*                                                                         *)
(* A path is known by its root-relative form; Abs gives the string the     *)
(* events carry.                                                           *)
(***************************************************************************)
EXTENDS GlobalStore

CONSTANTS
    Rel,            \* root-relative paths of the workspace
    Abs,            \* Abs[f]: the absolute path of f
    Versions,       \* Versions[f]: what f can contain over time
    NoFile,         \* f does not exist
    Watcher,        \* the WorkspaceWatchers ever started: bounds the starts
    NoWatcher,
    Caller,         \* concurrent calls of watch_workspace and unwatch_workspace
    MaxEdits,       \* bound on the changes to the workspace
    MaxFailures     \* bound on the files that fail to be read or stored

ASSUME PathAssumption ==
    /\ Rel \subseteq File /\ FileOf \in [Decl -> Rel]
    /\ Abs \in [Rel -> File \ Rel]
    /\ Versions \in [Rel -> SUBSET SUBSET Decl]
    /\ \A f \in Rel : \A D \in Versions[f] : D \subseteq DeclsIn(f)
    /\ \A D \in SUBSET Decl : D # NoFile
ASSUME WatcherAssumption ==
    NoWatcher \notin Watcher /\ Repo # {} /\ Rel # {}
ASSUME BoundAssumption == MaxEdits \in Nat /\ MaxFailures \in Nat

VARIABLES
    disk,           \* the workspace: the content of each path
    watcher,        \* every WorkspaceWatcher with its task
    registered,     \* the entry of the map `watchers` for the workspace
    starting,       \* per caller: the watcher it has started and not registered
    edits,          \* number of changes so far
    failures,       \* number of failures so far
    touched,        \* history: the paths changed while a watcher listened
    dropped,        \* history: those whose last change met an error
    alone           \* history: no other task has run beside this one

history == <<touched, dropped, alone>>
world == <<disk, edits>>
vars == <<storeVars, disk, watcher, registered, starting, edits, failures, history>>

\* wait: at interval.tick().await.  at, file, content: the loop over a batch.
WatcherState ==
    [task : {"unused", "wait", "run", "ended"}, aborted : BOOLEAN,
     listening : BOOLEAN, repo : Repo,
     queue : SUBSET Rel, pending : SUBSET Rel, batch : SUBSET Rel,
     at : {"pick", "read", "update", "remove"}, file : Rel,
     content : SUBSET Decl]

TypeOK ==
    /\ StoreTypeOK
    /\ disk \in [Rel -> {NoFile} \cup SUBSET Decl]
    /\ watcher \in [Watcher -> WatcherState]
    /\ registered \in Watcher \cup {NoWatcher}
    /\ starting \in [Caller -> Watcher \cup {NoWatcher}]
    /\ edits \in 0 .. MaxEdits /\ failures \in 0 .. MaxFailures
    /\ touched \in [Watcher -> SUBSET Rel] /\ dropped \in [Watcher -> SUBSET Rel]
    /\ alone \in [Watcher -> BOOLEAN]

Unused == [task |-> "unused", aborted |-> FALSE, listening |-> FALSE,
           repo |-> CHOOSE r \in Repo : TRUE,
           queue |-> {}, pending |-> {}, batch |-> {},
           at |-> "pick", file |-> CHOOSE f \in Rel : TRUE, content |-> {}]

Ended == [Unused EXCEPT !.task = "ended", !.aborted = TRUE]

\* The index is empty, the client has not called index_repo yet.
Init ==
    /\ repos = [r \in Repo |-> FreshRow] /\ older = {}
    /\ symbols = {} /\ vecs = {} /\ nextId = 1
    /\ edges = [e \in Repo \X Decl |-> 0]
    /\ disk \in {d \in [Rel -> {NoFile} \cup SUBSET Decl] :
                    \A f \in Rel : d[f] \in {NoFile} \cup Versions[f]}
    /\ watcher = [w \in Watcher |-> Unused]
    /\ registered = NoWatcher
    /\ starting = [c \in Caller |-> NoWatcher]
    /\ edits = 0 /\ failures = 0
    /\ touched = [w \in Watcher |-> {}] /\ dropped = [w \in Watcher |-> {}]
    /\ alone = [w \in Watcher |-> TRUE]

Running(w) == watcher[w].task \in {"wait", "run"}

----------------------------------------------------------------------------
(* The tools.                                                              *)

\* WorkspaceWatcher::start: events are collected and the task runs before the
\* watcher is in the map.
StartWatcher(c, w, r) ==
    /\ starting[c] = NoWatcher
    /\ watcher[w].task = "unused"
    /\ watcher' = [watcher EXCEPT ![w] =
                      [Unused EXCEPT !.task = "wait", !.listening = TRUE, !.repo = r]]
    /\ starting' = [starting EXCEPT ![c] = w]
    /\ alone' = [v \in Watcher |->
                    IF v = w THEN \A u \in Watcher : ~Running(u)
                             ELSE alone[v] /\ ~Running(v)]
    /\ UNCHANGED <<storeVars, world, registered, failures, touched, dropped>>

\* Mutant: a flag in place of abort(), which the task looks at after a batch only.
StopMutant(w) ==
    [watcher EXCEPT ![w].aborted = TRUE, ![w].listening = FALSE, ![w].queue = {}]

\* stop(): abort() ends a task that waits at once, one that runs at a later await;
\* the notify watcher is dropped, and what it has not delivered with it.
Stop(w) ==
    [watcher EXCEPT ![w] = IF watcher[w].task = "wait" THEN Ended
                           ELSE [@ EXCEPT !.aborted = TRUE, !.listening = FALSE,
                                          !.queue = {}]]

\* Mutant: the new watcher takes the place of the old one, which nobody stops.
RegisterMutant(c) ==
    /\ starting[c] # NoWatcher
    /\ registered' = starting[c]
    /\ starting' = [starting EXCEPT ![c] = NoWatcher]
    /\ UNCHANGED <<storeVars, watcher, world, failures, history>>

\* watch_workspace under the lock of the map.
Register(c) ==
    /\ starting[c] # NoWatcher
    /\ watcher' = IF registered = NoWatcher THEN watcher ELSE Stop(registered)
    /\ registered' = starting[c]
    /\ starting' = [starting EXCEPT ![c] = NoWatcher]
    /\ UNCHANGED <<storeVars, world, failures, history>>

\* unwatch_workspace under the lock of the map.
Unwatch ==
    /\ registered # NoWatcher
    /\ watcher' = Stop(registered)
    /\ registered' = NoWatcher
    /\ UNCHANGED <<storeVars, world, starting, failures, history>>

----------------------------------------------------------------------------
(* The notify thread.                                                      *)

Deliver(w, f) ==
    /\ f \in watcher[w].queue
    /\ watcher' = [watcher EXCEPT ![w].queue = @ \ {f}, ![w].pending = @ \cup {f}]
    /\ UNCHANGED <<storeVars, world, registered, starting, failures, history>>

----------------------------------------------------------------------------
(* The task.                                                               *)

TaskOnly == UNCHANGED <<world, registered, starting, touched, alone>>

Drain(w) ==
    watcher' = [watcher EXCEPT ![w].task = "run", ![w].batch = watcher[w].pending,
                               ![w].pending = {}]

\* Mutant: a batch of one path is taken for an empty one.
TickMutant(w) ==
    /\ watcher[w].task = "wait" /\ Cardinality(watcher[w].pending) > 1
    /\ Drain(w)
    /\ TaskOnly /\ UNCHANGED <<storeVars, failures, dropped>>

Tick(w) ==
    /\ watcher[w].task = "wait" /\ watcher[w].pending # {}
    /\ Drain(w)
    /\ TaskOnly /\ UNCHANGED <<storeVars, failures, dropped>>

Working(w, at) == watcher[w].task = "run" /\ watcher[w].at = at

\* The next path of the batch: path.exists() && path.is_file().
Pick(w) ==
    /\ Working(w, "pick")
    /\ \E f \in watcher[w].batch :
          watcher' = [watcher EXCEPT
              ![w].file = f, ![w].at = IF disk[f] = NoFile THEN "remove" ELSE "read"]
    /\ TaskOnly /\ UNCHANGED <<storeVars, failures, dropped>>

\* On to the next path; the one of this turn is dealt with or given up.
Done(w) ==
    watcher' = [watcher EXCEPT ![w].at = "pick", ![w].content = {},
                               ![w].file = Unused.file,
                               ![w].batch = @ \ {watcher[w].file}]

\* index_single_file, which fails on a file that is gone by now.
Read(w) ==
    LET f == watcher[w].file
    IN  /\ Working(w, "read")
        /\ IF disk[f] = NoFile
           THEN Done(w)
           ELSE watcher' = [watcher EXCEPT ![w].content = disk[f], ![w].at = "update"]
        /\ TaskOnly /\ UNCHANGED <<storeVars, failures, dropped>>

\* The path handed to update_file_symbols is the absolute one.
Update(w) ==
    LET f == watcher[w].file
        D == watcher[w].content
    IN  /\ Working(w, "update")
        /\ UpdateFileSymbols(watcher[w].repo, Abs[f], D, D)
        /\ Done(w)
        /\ TaskOnly /\ UNCHANGED <<failures, dropped>>

Remove(w) ==
    /\ Working(w, "remove")
    /\ RemoveFileSymbols(watcher[w].repo, watcher[w].file)
    /\ Done(w)
    /\ TaskOnly /\ UNCHANGED <<failures, dropped>>

\* A file that cannot be read or stored is logged and not tried again.
GiveUp(w) ==
    /\ watcher[w].task = "run" /\ watcher[w].at # "pick"
    /\ failures < MaxFailures /\ failures' = failures + 1
    /\ dropped' = [dropped EXCEPT ![w] = @ \cup {watcher[w].file}]
    /\ Done(w)
    /\ TaskOnly /\ UNCHANGED storeVars

\* Mutant: the pending set is cleared when the batch is through.
EndBatchMutant(w) ==
    /\ Working(w, "pick") /\ watcher[w].batch = {}
    /\ watcher' = [watcher EXCEPT ![w].pending = {},
                      ![w].task = IF watcher[w].aborted THEN "ended" ELSE "wait"]
    /\ TaskOnly /\ UNCHANGED <<storeVars, failures, dropped>>

\* After a batch that took longer than the debounce period the next tick is due
\* at once: the task goes on without a pause, aborted or not.
EndBatch(w) ==
    /\ Working(w, "pick") /\ watcher[w].batch = {}
    /\ \/ watcher' = [watcher EXCEPT
              ![w] = IF watcher[w].aborted THEN Ended ELSE [@ EXCEPT !.task = "wait"]]
       \/ watcher[w].pending # {} /\ Drain(w)
    /\ TaskOnly /\ UNCHANGED <<storeVars, failures, dropped>>

Task(w) ==
    \/ Tick(w) \/ Pick(w) \/ Read(w) \/ Update(w) \/ Remove(w) \/ GiveUp(w)
    \/ EndBatch(w)

----------------------------------------------------------------------------
(* The workspace.                                                          *)

\* A file is written, created or deleted; whoever listens hears of it.
Edit(f) ==
    /\ edits < MaxEdits /\ edits' = edits + 1
    /\ \E v \in ({NoFile} \cup Versions[f]) \ {disk[f]} :
          disk' = [disk EXCEPT ![f] = v]
    /\ watcher' = [w \in Watcher |->
                      IF watcher[w].listening
                      THEN [watcher[w] EXCEPT !.queue = @ \cup {f}] ELSE watcher[w]]
    /\ touched' = [w \in Watcher |->
                      IF watcher[w].listening THEN touched[w] \cup {f} ELSE touched[w]]
    /\ dropped' = [w \in Watcher |-> dropped[w] \ {f}]
    /\ UNCHANGED <<storeVars, registered, starting, failures, alone>>

Next ==
    \/ \E c \in Caller, w \in Watcher, r \in Repo : StartWatcher(c, w, r)
    \/ \E c \in Caller : Register(c)
    \/ Unwatch
    \/ \E w \in Watcher, f \in Rel : Deliver(w, f)
    \/ \E w \in Watcher : Task(w)
    \/ \E f \in Rel : Edit(f)

Spec == Init /\ [][Next]_vars

\* notify's thread and the tokio runtime keep running; a call that has started a
\* watcher goes on to register it.  Nothing makes anybody edit or unwatch.
FairSpec ==
    /\ Spec
    /\ \A c \in Caller : WF_vars(Register(c))
    /\ \A w \in Watcher : WF_vars(Task(w)) /\ WF_vars(\E f \in Rel : Deliver(w, f))

----------------------------------------------------------------------------
(* Properties.                                                             *)

\* The index knows a file: none of the declarations of a missing file, all of
\* those of an existing one.
Covered(r, f) ==
    IF disk[f] = NoFile THEN FileRowsOf(r, f) = {}
    ELSE disk[f] \subseteq {s.decl : s \in FileRowsOf(r, f)}

Owed(w) == watcher[w].queue \cup watcher[w].pending \cup watcher[w].batch

Watching(w) == Running(w) /\ ~watcher[w].aborted

\* A watcher that has had the workspace to itself forgets no change: a path that
\* changed while it listened and that the index does not know yet is on its way
\* to the task, in the pending set or in the batch, unless an error dropped it.
\* Changes arrive between any two steps of the task, also between the read of the
\* file and its transaction.
NoChangeForgotten ==
    \A w \in Watcher : Watching(w) /\ alone[w] =>
        \A f \in touched[w] \ dropped[w] :
            Covered(watcher[w].repo, f) \/ f \in Owed(w)

\* The invariant behind it.  The place of a task in its loop agrees with its batch,
\* and what it has found out about the file at hand, that it exists, that it is
\* missing, what it contains, still holds unless an event for that file waits.
Waiting(w) == watcher[w].queue \cup watcher[w].pending

InStep(w) ==
    /\ watcher[w].task = "unused" => touched[w] = {} /\ ~watcher[w].listening
    /\ Watching(w) => watcher[w].listening
    /\ watcher[w].task # "run" => watcher[w].batch = {}
    /\ watcher[w].at # "pick" =>
          watcher[w].task = "run" /\ watcher[w].file \in watcher[w].batch
    /\ watcher[w].content \subseteq
          IF watcher[w].at = "update" THEN DeclsIn(watcher[w].file) ELSE {}

UpToDate(w) ==
    Watching(w) /\ watcher[w].file \notin Waiting(w) =>
        LET now == disk[watcher[w].file]
        IN  /\ watcher[w].at = "read" => now # NoFile
            /\ watcher[w].at = "remove" => now = NoFile
            /\ watcher[w].at = "update" => now = watcher[w].content

ByItself(w) ==
    Running(w) /\ alone[w] => \A u \in Watcher \ {w} : ~Running(u)

OwnFilesOnly == \A f \in Rel : disk[f] # NoFile => disk[f] \subseteq DeclsIn(f)

WatcherInv ==
    OwnFilesOnly /\ \A w \in Watcher : InStep(w) /\ UpToDate(w) /\ ByItself(w)

\* ... and reaches the index, unless the watcher is stopped first.
ChangesReachIndex ==
    \A w \in Watcher, f \in Rel :
        (Watching(w) /\ f \in touched[w]) ~>
            (\/ ~Watching(w) \/ ~alone[w] \/ f \in dropped[w]
             \/ Covered(watcher[w].repo, f))

\* No task runs on that nobody can stop: a watcher that is not aborted is in the
\* map or in the hands of a call that is about to put it there.
NoStrayWatcher ==
    \A w \in Watcher : Watching(w) =>
        w = registered \/ \E c \in Caller : starting[c] = w

\* A stopped watcher finishes its batch and ends.
StoppedWatcherEnds ==
    \A w \in Watcher : (Running(w) /\ ~watcher[w].listening) ~> ~Running(w)

\* Once a watcher has nothing left to do, the index of the files it has seen is
\* exactly what they contain: it "updates changed files".
IndexFollowsFiles ==
    \A w \in Watcher : Watching(w) /\ alone[w] /\ Owed(w) = {} =>
        \A f \in touched[w] \ dropped[w] :
            {s.decl : s \in FileRowsOf(watcher[w].repo, f)} =
                IF disk[f] = NoFile THEN {} ELSE disk[f]
=============================================================================
