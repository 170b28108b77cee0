----------------------- MODULE WorkspaceWatcher_proofs -----------------------
(***************************************************************************)
(* Proofs about WorkspaceWatcher, for any number of watchers, callers,     *)
(* paths and changes: no watcher runs on that nobody can stop, and one     *)
(* that has the workspace to itself forgets no change.                     *)
(***************************************************************************)
EXTENDS WorkspaceWatcher, GlobalStore_proofs

----------------------------------------------------------------------------
(* Types.                                                                  *)

LEMMA UnusedType == Unused \in WatcherState /\ Ended \in WatcherState
BY WatcherAssumption DEF Unused, Ended, WatcherState

LEMMA StopType ==
    ASSUME watcher \in [Watcher -> WatcherState], NEW w \in Watcher
    PROVE  Stop(w) \in [Watcher -> WatcherState]
<1>1. [watcher[w] EXCEPT !.aborted = TRUE, !.listening = FALSE, !.queue = {}]
         \in WatcherState
  BY DEF WatcherState
<1> QED
  BY <1>1, UnusedType DEF Stop

\* What an action of the task leaves to show.
LEMMA TaskType ==
    ASSUME TypeOK, NEW w \in Watcher, TaskOnly,
           StoreTypeOK', watcher'[w] \in WatcherState,
           watcher' = [watcher EXCEPT ![w] = watcher'[w]],
           failures' \in 0 .. MaxFailures,
           dropped' \in [Watcher -> SUBSET Rel]
    PROVE  TypeOK'
<1>1. watcher' \in [Watcher -> WatcherState]
  BY DEF TypeOK
<1> QED
  BY <1>1 DEF TypeOK, TaskOnly, world

LEMMA TaskStepType ==
    ASSUME TypeOK, NEW w \in Watcher, Task(w)
    PROVE  TypeOK'
<1>0. /\ watcher \in [Watcher -> WatcherState] /\ watcher[w] \in WatcherState
      /\ watcher[w].repo \in Repo /\ watcher[w].file \in Rel
      /\ watcher[w].content \in SUBSET Decl
      /\ StoreTypeOK /\ TaskOnly
  BY DEF TypeOK, WatcherState, Task, Tick, Pick, Read, Update, Remove, GiveUp, EndBatch
<1>d. ASSUME Done(w)
      PROVE  watcher'[w] \in WatcherState /\ watcher' = [watcher EXCEPT ![w] = watcher'[w]]
  BY <1>d, <1>0, UnusedType DEF Done, WatcherState
<1>r. ASSUME Drain(w)
      PROVE  watcher'[w] \in WatcherState /\ watcher' = [watcher EXCEPT ![w] = watcher'[w]]
  BY <1>r, <1>0 DEF Drain, WatcherState
<1>u. ASSUME UNCHANGED <<failures, dropped>>
      PROVE  failures' \in 0 .. MaxFailures /\ dropped' \in [Watcher -> SUBSET Rel]
  BY <1>u DEF TypeOK
<1>1. CASE Tick(w)
  BY <1>1, <1>0, <1>r, <1>u, TaskType, UnchangedStoreType DEF Tick
<1>2. CASE Pick(w)
  <2> DEFINE at(f) == IF disk[f] = NoFile THEN "remove" ELSE "read"
  <2>1. PICK f \in watcher[w].batch :
          watcher' = [watcher EXCEPT ![w].file = f, ![w].at = at(f)]
    BY <1>2 DEF Pick
  <2>2. f \in Rel /\ at(f) \in {"pick", "read", "update", "remove"}
    BY <1>0 DEF WatcherState
  <2> HIDE DEF at
  <2>3. watcher' = [watcher EXCEPT ![w] = [@ EXCEPT !.file = f, !.at = at(f)]]
    BY <2>1, <1>0
  <2>4. [watcher[w] EXCEPT !.file = f, !.at = at(f)] \in WatcherState
    BY <2>2, <1>0 DEF WatcherState
  <2>5. watcher'[w] \in WatcherState /\ watcher' = [watcher EXCEPT ![w] = watcher'[w]]
    BY <2>3, <2>4, <1>0
  <2> QED
    BY <1>2, <2>5, <1>0, <1>u, TaskType, UnchangedStoreType DEF Pick
<1>3. CASE Read(w)
  <2>1. disk[watcher[w].file] # NoFile => disk[watcher[w].file] \in SUBSET Decl
    BY <1>0 DEF TypeOK
  <2>2. watcher'[w] \in WatcherState /\ watcher' = [watcher EXCEPT ![w] = watcher'[w]]
    BY <1>3, <1>0, <1>d, <2>1 DEF Read, WatcherState
  <2> QED
    BY <1>3, <2>2, <1>0, <1>u, TaskType, UnchangedStoreType DEF Read
<1>4. CASE Update(w)
  <2>1. StoreTypeOK'
    BY <1>4, <1>0, UpdateFileSymbolsType DEF Update
  <2> QED
    BY <1>4, <2>1, <1>0, <1>d, <1>u, TaskType DEF Update
<1>5. CASE Remove(w)
  <2>1. StoreTypeOK'
    BY <1>5, <1>0, RemoveFileSymbolsType DEF Remove
  <2> QED
    BY <1>5, <2>1, <1>0, <1>d, <1>u, TaskType DEF Remove
<1>6. CASE GiveUp(w)
  <2>1. failures' \in 0 .. MaxFailures
    BY <1>6, BoundAssumption DEF GiveUp, TypeOK
  <2>2. dropped' \in [Watcher -> SUBSET Rel]
    BY <1>6, <1>0 DEF GiveUp, TypeOK
  <2> QED
    BY <1>6, <2>1, <2>2, <1>0, <1>d, TaskType, UnchangedStoreType DEF GiveUp
<1>7. CASE EndBatch(w)
  <2>1. watcher'[w] \in WatcherState /\ watcher' = [watcher EXCEPT ![w] = watcher'[w]]
    BY <1>7, <1>0, <1>r, UnusedType DEF EndBatch, WatcherState
  <2> QED
    BY <1>7, <2>1, <1>0, <1>u, TaskType, UnchangedStoreType DEF EndBatch
<1> QED
  BY <1>1, <1>2, <1>3, <1>4, <1>5, <1>6, <1>7 DEF Task

LEMMA InitType == ASSUME Init PROVE TypeOK
<1>1. StoreTypeOK
  <2>1. FreshRow \in RepoRow
    BY DEF FreshRow, RepoRow
  <2> QED
    BY <2>1 DEF Init, StoreTypeOK
<1>2. disk \in [Rel -> {NoFile} \cup SUBSET Decl]
  BY DEF Init
<1> QED
  BY <1>1, <1>2, UnusedType, BoundAssumption DEF Init, TypeOK

LEMMA NextType ==
    ASSUME TypeOK, [Next]_vars
    PROVE  TypeOK'
<1>0. UNCHANGED storeVars => StoreTypeOK'
  BY UnchangedStoreType DEF TypeOK
<1>1. ASSUME NEW c \in Caller, NEW w \in Watcher, NEW r \in Repo, StartWatcher(c, w, r)
      PROVE  TypeOK'
  <2>1. [Unused EXCEPT !.task = "wait", !.listening = TRUE, !.repo = r] \in WatcherState
    BY UnusedType DEF WatcherState
  <2>2. watcher' \in [Watcher -> WatcherState]
    BY <1>1, <2>1 DEF StartWatcher, TypeOK
  <2>3. alone' \in [Watcher -> BOOLEAN]
    BY <1>1 DEF StartWatcher, TypeOK
  <2> QED
    BY <1>1, <1>0, <2>2, <2>3 DEF StartWatcher, TypeOK, world
<1>2. ASSUME NEW c \in Caller, Register(c)
      PROVE  TypeOK'
  <2>1. watcher' \in [Watcher -> WatcherState]
    BY <1>2, StopType DEF Register, TypeOK
  <2> QED
    BY <1>2, <1>0, <2>1 DEF Register, TypeOK, world, history
<1>3. CASE Unwatch
  <2>1. watcher' \in [Watcher -> WatcherState]
    BY <1>3, StopType DEF Unwatch, TypeOK
  <2> QED
    BY <1>3, <1>0, <2>1 DEF Unwatch, TypeOK, world, history
<1>4. ASSUME NEW w \in Watcher, NEW f \in Rel, Deliver(w, f)
      PROVE  TypeOK'
  <2> DEFINE q == watcher[w].queue \ {f}
             p == watcher[w].pending \cup {f}
  <2>a. watcher \in [Watcher -> WatcherState] /\ watcher[w] \in WatcherState
    BY DEF TypeOK
  <2>b. q \in SUBSET Rel /\ p \in SUBSET Rel
    BY <2>a DEF WatcherState
  <2>c. watcher' = [watcher EXCEPT ![w] = [@ EXCEPT !.queue = q, !.pending = p]]
    BY <1>4, <2>a DEF Deliver
  <2> HIDE DEF q, p
  <2>d. [watcher[w] EXCEPT !.queue = q, !.pending = p] \in WatcherState
    BY <2>a, <2>b DEF WatcherState
  <2>1. watcher' \in [Watcher -> WatcherState]
    BY <2>a, <2>c, <2>d
  <2> QED
    BY <1>4, <1>0, <2>1 DEF Deliver, TypeOK, world, history
<1>5. ASSUME NEW w \in Watcher, Task(w)
      PROVE  TypeOK'
  BY <1>5, TaskStepType
<1>6. ASSUME NEW f \in Rel, Edit(f)
      PROVE  TypeOK'
  <2>1. disk' \in [Rel -> {NoFile} \cup SUBSET Decl]
    <3>1. PICK v \in {NoFile} \cup Versions[f] : disk' = [disk EXCEPT ![f] = v]
      BY <1>6 DEF Edit
    <3>2. Versions[f] \in SUBSET SUBSET Decl
      BY PathAssumption
    <3>3. v \in {NoFile} \cup SUBSET Decl
      BY <3>2
    <3> QED
      BY <3>1, <3>3 DEF TypeOK
  <2>2. watcher' \in [Watcher -> WatcherState]
    <3>1. ASSUME NEW v \in Watcher
          PROVE  [watcher[v] EXCEPT !.queue = @ \cup {f}] \in WatcherState
      <4>1. watcher[v] \in WatcherState
        BY DEF TypeOK
      <4> QED
        BY <4>1 DEF WatcherState
    <3> QED
      BY <1>6, <3>1 DEF Edit, TypeOK
  <2>3. edits' \in 0 .. MaxEdits
    BY <1>6, BoundAssumption DEF Edit, TypeOK
  <2>4. touched' \in [Watcher -> SUBSET Rel] /\ dropped' \in [Watcher -> SUBSET Rel]
    BY <1>6 DEF Edit, TypeOK
  <2> QED
    BY <1>6, <1>0, <2>1, <2>2, <2>3, <2>4 DEF Edit, TypeOK
<1>7. CASE UNCHANGED vars
  BY <1>7, <1>0 DEF vars, world, history, TypeOK
<1> QED
  BY <1>1, <1>2, <1>3, <1>4, <1>5, <1>6, <1>7 DEF Next

\* The tables, the map of watchers and the locals of every task keep their types.
THEOREM WatcherTypeCorrect == Spec => []TypeOK
BY InitType, NextType, PTL DEF Spec

----------------------------------------------------------------------------
(* No stray watcher.                                                       *)

\* A step of a task leaves the other watchers alone, keeps what its own watcher
\* is for and never revives it.
LEMMA TaskKeeps ==
    ASSUME TypeOK, NEW w \in Watcher, Task(w)
    PROVE  /\ Running(w)
           /\ Watching(w)' => Watching(w)
           /\ \A v \in Watcher \ {w} : watcher'[v] = watcher[v] /\ dropped'[v] = dropped[v]
           /\ TaskOnly
<1>1. watcher[w] \in WatcherState /\ DOMAIN watcher = Watcher /\ DOMAIN dropped = Watcher
  BY DEF TypeOK
<1>2. /\ \A v \in Watcher \ {w} : watcher'[v] = watcher[v] /\ dropped'[v] = dropped[v]
      /\ TaskOnly
  BY <1>1 DEF Task, Tick, Pick, Read, Update, Remove, GiveUp, EndBatch, Done, Drain
<1>3. Running(w)
  BY DEF Task, Tick, Pick, Read, Update, Remove, GiveUp, EndBatch, Running, Working
<1>d. Done(w) \/ Drain(w) => watcher'[w].aborted = watcher[w].aborted
  BY <1>1 DEF Done, Drain, WatcherState
<1>4. watcher'[w].aborted = watcher[w].aborted \/ watcher'[w].task = "ended"
  <2>1. CASE Pick(w)
    BY <2>1, <1>1 DEF Pick, WatcherState
  <2>2. CASE Read(w)
    BY <2>2, <1>1, <1>d DEF Read, WatcherState
  <2>3. CASE EndBatch(w)
    BY <2>3, <1>1, <1>d DEF EndBatch, Ended, Unused, WatcherState
  <2>4. CASE Tick(w) \/ Update(w) \/ Remove(w) \/ GiveUp(w)
    BY <2>4, <1>d DEF Tick, Update, Remove, GiveUp
  <2> QED
    BY <2>1, <2>2, <2>3, <2>4 DEF Task
<1> QED
  BY <1>2, <1>3, <1>4 DEF Watching, Running

LEMMA StopEnds ==
    ASSUME watcher \in [Watcher -> WatcherState], NEW w \in Watcher,
           watcher' = Stop(w)
    PROVE  /\ ~Watching(w)' /\ (Running(w)' => Running(w))
           /\ \A v \in Watcher \ {w} : watcher'[v] = watcher[v]
BY UnusedType DEF Stop, Ended, Unused, Watching, Running, WatcherState

LEMMA NoStrayStep ==
    ASSUME TypeOK, NoStrayWatcher, [Next]_vars
    PROVE  NoStrayWatcher'
<1> USE DEF NoStrayWatcher
<1>1. ASSUME NEW c \in Caller, NEW w \in Watcher, NEW r \in Repo, StartWatcher(c, w, r)
      PROVE  NoStrayWatcher'
  <2>1. /\ starting[c] = NoWatcher /\ NoWatcher \notin Watcher
        /\ starting' = [starting EXCEPT ![c] = w] /\ registered' = registered
        /\ DOMAIN starting = Caller
        /\ \A v \in Watcher \ {w} : watcher'[v] = watcher[v]
    BY <1>1, WatcherAssumption DEF StartWatcher, TypeOK
  <2> QED
    BY <2>1 DEF Watching, Running
<1>2. ASSUME NEW c \in Caller, Register(c)
      PROVE  NoStrayWatcher'
  <2>1. /\ registered' = starting[c] /\ starting' = [starting EXCEPT ![c] = NoWatcher]
        /\ DOMAIN starting = Caller
    BY <1>2 DEF Register, TypeOK
  <2>2. ASSUME NEW v \in Watcher, Watching(v)'
        PROVE  Watching(v) /\ v # registered
    BY <1>2, <2>2, StopEnds, WatcherAssumption DEF Register, TypeOK, Watching, Running
  <2> QED
    BY <2>1, <2>2
<1>3. CASE Unwatch
  <2>1. ASSUME NEW v \in Watcher, Watching(v)'
        PROVE  Watching(v) /\ v # registered
    BY <1>3, <2>1, StopEnds, WatcherAssumption DEF Unwatch, TypeOK, Watching, Running
  <2> QED
    BY <1>3, <2>1 DEF Unwatch
<1>4. ASSUME NEW w \in Watcher, NEW f \in Rel, Deliver(w, f)
      PROVE  NoStrayWatcher'
  <2>1. \A v \in Watcher : watcher'[v].task = watcher[v].task
                           /\ watcher'[v].aborted = watcher[v].aborted
    BY <1>4 DEF Deliver, TypeOK, WatcherState
  <2> QED
    BY <1>4, <2>1 DEF Deliver, Watching, Running
<1>5. ASSUME NEW w \in Watcher, Task(w)
      PROVE  NoStrayWatcher'
  BY <1>5, TaskKeeps DEF TaskOnly, Watching, Running
<1>6. ASSUME NEW f \in Rel, Edit(f)
      PROVE  NoStrayWatcher'
  <2>1. \A v \in Watcher : watcher'[v].task = watcher[v].task
                           /\ watcher'[v].aborted = watcher[v].aborted
    BY <1>6 DEF Edit, TypeOK, WatcherState
  <2> QED
    BY <1>6, <2>1 DEF Edit, Watching, Running
<1>7. CASE UNCHANGED vars
  BY <1>7 DEF vars, Watching, Running
<1> QED
  BY <1>1, <1>2, <1>3, <1>4, <1>5, <1>6, <1>7 DEF Next

\* However the calls of watch_workspace and unwatch_workspace interleave, a watcher
\* that nobody has stopped is in the map or on its way there.
THEOREM EveryWatcherCanBeStopped == Spec => []NoStrayWatcher
<1>1. Init => NoStrayWatcher
  BY DEF Init, NoStrayWatcher, Watching, Running, Unused
<1>2. Spec => []TypeOK
  BY WatcherTypeCorrect
<1>3. TypeOK /\ NoStrayWatcher /\ [Next]_vars => NoStrayWatcher'
  BY NoStrayStep
<1> QED
  BY <1>1, <1>2, <1>3, PTL DEF Spec

----------------------------------------------------------------------------
(* No change is forgotten.                                                 *)

\* NoChangeForgotten for one watcher, and all that is invariant about it.
Remembered(w) ==
    Watching(w) /\ alone[w] =>
        \A f \in touched[w] \ dropped[w] :
            Covered(watcher[w].repo, f) \/ f \in Owed(w)

InvOf(w) == InStep(w) /\ UpToDate(w) /\ ByItself(w) /\ Remembered(w)

Inv == OwnFilesOnly /\ \A w \in Watcher : InvOf(w)

LEMMA InvMeans == Inv <=> WatcherInv /\ NoChangeForgotten
BY DEF Inv, InvOf, WatcherInv, NoChangeForgotten, Remembered

\* A watcher that a step does not touch, in a workspace it does not change.
LEMMA SameWatcher ==
    ASSUME NEW v \in Watcher, InStep(v), UpToDate(v),
           watcher'[v] = watcher[v], touched'[v] = touched[v], disk' = disk
    PROVE  InStep(v)' /\ UpToDate(v)'
BY DEF InStep, UpToDate, Watching, Running, Waiting

LEMMA SameRemembered ==
    ASSUME NEW v \in Watcher, Remembered(v),
           watcher'[v] = watcher[v], UNCHANGED <<storeVars, disk, touched, dropped>>,
           alone'[v] => alone[v]
    PROVE  Remembered(v)'
BY DEF Remembered, Watching, Running, Owed, Covered, FileRowsOf, RowsOf, storeVars

\* A step of a task is the affair of its own watcher: while it runs no other
\* watcher is alone and runs as well.
LEMMA TaskFrame ==
    ASSUME TypeOK, Inv, NEW w \in Watcher, Task(w),
           InStep(w)', UpToDate(w)', Remembered(w)'
    PROVE  Inv'
<1>1. /\ Running(w)
      /\ \A v \in Watcher \ {w} : watcher'[v] = watcher[v] /\ dropped'[v] = dropped[v]
      /\ TaskOnly
  BY TaskKeeps
<1>2. OwnFilesOnly'
  BY <1>1 DEF Inv, OwnFilesOnly, TaskOnly, world
<1>3. \A u \in Watcher : Running(u)' => Running(u)
  BY <1>1 DEF Running
<1>4. InvOf(w)'
  BY <1>1, <1>3 DEF Inv, InvOf, ByItself, TaskOnly
<1>5. ASSUME NEW v \in Watcher \ {w}
      PROVE  InvOf(v)'
  <2>1. InStep(v)' /\ UpToDate(v)'
    BY <1>1, SameWatcher DEF Inv, InvOf, TaskOnly, world
  <2>2. ByItself(v)'
    BY <1>1, <1>3 DEF Inv, InvOf, ByItself, TaskOnly
  <2>3. ~(Running(v) /\ alone[v])
    BY <1>1 DEF Inv, InvOf, ByItself
  <2>4. Remembered(v)'
    BY <1>1, <2>3 DEF Remembered, Watching, Running, TaskOnly
  <2> QED
    BY <2>1, <2>2, <2>4 DEF InvOf
<1> QED
  BY <1>2, <1>4, <1>5 DEF Inv

\* The end of a turn: the path is out of the batch, so it has to be covered, to
\* wait for another turn or to have been dropped.
LEMMA DoneKeeps ==
    ASSUME TypeOK, NEW w \in Watcher, InStep(w), Remembered(w),
           watcher[w].task = "run", Done(w),
           UNCHANGED <<disk, touched, alone>>, dropped[w] \subseteq dropped'[w],
           \A f \in Rel :
               IF f # watcher[w].file
               THEN Covered(watcher[w].repo, f) => Covered(watcher[w].repo, f)'
               ELSE Watching(w) => \/ f \in Waiting(w) \/ f \in dropped'[w]
                                   \/ Covered(watcher[w].repo, f)'
    PROVE  InStep(w)' /\ UpToDate(w)' /\ Remembered(w)'
<1> DEFINE f0 == watcher[w].file
<1>0. watcher[w] \in WatcherState /\ DOMAIN watcher = Watcher
  BY DEF TypeOK
<1>1. /\ watcher'[w].task = watcher[w].task /\ watcher'[w].aborted = watcher[w].aborted
      /\ watcher'[w].listening = watcher[w].listening
      /\ watcher'[w].repo = watcher[w].repo
      /\ watcher'[w].queue = watcher[w].queue /\ watcher'[w].pending = watcher[w].pending
      /\ watcher'[w].at = "pick" /\ watcher'[w].content = {}
      /\ watcher'[w].batch = watcher[w].batch \ {f0}
  BY <1>0 DEF Done, WatcherState
<1>2. InStep(w)'
  BY <1>1 DEF InStep, Watching, Running
<1>3. UpToDate(w)'
  BY <1>1 DEF UpToDate
<1>4. Remembered(w)'
  <2> SUFFICES ASSUME Watching(w)', alone'[w], NEW f \in touched'[w] \ dropped'[w]
               PROVE  Covered(watcher[w].repo, f)' \/ f \in Owed(w)'
    BY <1>1 DEF Remembered
  <2>1. Watching(w) /\ alone[w] /\ f \in touched[w] \ dropped[w] /\ f \in Rel
    BY <1>1 DEF Watching, Running, TypeOK
  <2>2. CASE f = f0
    <3>1. f0 \in Waiting(w) => f0 \in Owed(w)'
      BY <1>1 DEF Waiting, Owed
    <3> QED
      BY <2>1, <2>2, <3>1
  <2>3. CASE f # f0
    <3>1. Covered(watcher[w].repo, f) \/ f \in Owed(w)
      BY <2>1 DEF Remembered
    <3>2. f \in Owed(w) => f \in Owed(w)'
      BY <1>1, <2>3 DEF Owed
    <3> QED
      BY <2>1, <2>3, <3>1, <3>2
  <2> QED
    BY <2>2, <2>3
<1> QED
  BY <1>2, <1>3, <1>4

\* The transactions of the task.  Removing the rows of a file leaves those of the
\* other files as they are, and so does storing its declarations under the absolute
\* path, which deletes no row at all.
LEMMA RemoveRows ==
    ASSUME NEW r, NEW f, NEW g, RemoveFileSymbols(r, f)
    PROVE  FileRowsOf(r, g)' = IF g = f THEN {} ELSE FileRowsOf(r, g)
BY DEF RemoveFileSymbols, FileRowsOf, RowsOf

LEMMA UpdateRows ==
    ASSUME StoreTypeOK, NEW r \in Repo, NEW f \in Rel, NEW D \in SUBSET DeclsIn(f),
           UpdateFileSymbols(r, Abs[f], D, D), NEW g \in Rel
    PROVE  IF g = f THEN D \subseteq {s.decl : s \in FileRowsOf(r, g)}'
           ELSE FileRowsOf(r, g)' = FileRowsOf(r, g)
<1> DEFINE new == NewRows(r, D, nextId)
           num == Numbering(D, nextId)
<1>1. FileRowsOf(r, Abs[f]) = {}
  BY PathAssumption DEF FileRowsOf, RowsOf, StoreTypeOK, Symbol
<1>2. symbols' = symbols \cup new
  BY <1>1 DEF UpdateFileSymbols
<1>3. new = {[id |-> num[d], repo |-> r, decl |-> d] : d \in D}
  BY DEF NewRows
<1>4. \A d \in D : FileOf[d] = f
  BY DEF DeclsIn
<1> HIDE DEF new, num
<1>5. CASE g = f
  <2>1. ASSUME NEW d \in D
        PROVE  \E s \in FileRowsOf(r, g)' : s.decl = d
    <3> DEFINE row == [id |-> num[d], repo |-> r, decl |-> d]
    <3>1. row \in symbols' /\ row.repo = r /\ row.decl = d /\ FileOf[row.decl] = g
      BY <1>2, <1>3, <1>4, <1>5
    <3> HIDE DEF row
    <3> QED
      BY <3>1 DEF FileRowsOf, RowsOf
  <2> QED
    BY <2>1, <1>5
<1>6. CASE g # f
  <2>1. \A s \in new : FileOf[s.decl] # g
    BY <1>3, <1>4, <1>6
  <2> QED
    BY <2>1, <1>2, <1>6 DEF FileRowsOf, RowsOf
<1> QED
  BY <1>5, <1>6

\* The cases in which a step of a task ends its turn.
LEMMA DoneCases ==
    ASSUME TypeOK, Inv, NEW w \in Watcher,
           (Read(w) /\ Done(w)) \/ Update(w) \/ Remove(w) \/ GiveUp(w)
    PROVE  InStep(w)' /\ UpToDate(w)' /\ Remembered(w)'
<1>0. /\ watcher[w].repo \in Repo /\ watcher[w].file \in Rel
      /\ watcher[w].content \in SUBSET Decl /\ StoreTypeOK
      /\ InStep(w) /\ UpToDate(w) /\ Remembered(w)
  BY DEF TypeOK, WatcherState, Inv, InvOf
<1>1. PICK r \in Repo, f0 \in Rel, D \in SUBSET Decl :
        r = watcher[w].repo /\ f0 = watcher[w].file /\ D = watcher[w].content
  BY <1>0
<1>2. /\ watcher[w].task = "run" /\ Done(w) /\ TaskOnly
      /\ watcher'[w].repo = r /\ dropped[w] \subseteq dropped'[w]
  <2>1. watcher[w].task = "run" /\ Done(w) /\ TaskOnly
    BY DEF Read, Update, Remove, GiveUp, Working
  <2>2. watcher'[w].repo = r
    BY <2>1, <1>1 DEF Done, TypeOK, WatcherState
  <2>3. dropped[w] \subseteq dropped'[w]
    BY DEF Read, Update, Remove, GiveUp, TypeOK
  <2> QED
    BY <2>1, <2>2, <2>3
<1>3. disk' = disk
  BY <1>2 DEF TaskOnly, world
<1> DEFINE Ok(f) ==
        IF f # f0 THEN Covered(r, f) => Covered(r, f)'
        ELSE Watching(w) => f \in Waiting(w) \/ f \in dropped'[w] \/ Covered(r, f)'
<1>4. ASSUME UNCHANGED storeVars, NEW f
      PROVE  Covered(r, f)' = Covered(r, f)
  BY <1>3, <1>4 DEF Covered, FileRowsOf, RowsOf, storeVars
<1>5. ASSUME NEW f \in Rel PROVE Ok(f)
  <2>1. CASE Read(w) /\ Done(w)
    <3>1. watcher[w].at = "read" /\ UNCHANGED storeVars
      BY <2>1 DEF Read, Working
    <3>2. disk[f0] = NoFile
      BY <2>1, <1>1, <3>1, <1>0 DEF Read, Done, TypeOK, WatcherState
    <3>3. Watching(w) => f0 \in Waiting(w)
      BY <3>1, <3>2, <1>0, <1>1 DEF UpToDate
    <3> QED
      BY <3>1, <3>3, <1>4
  <2>2. CASE Update(w)
    <3>1. UpdateFileSymbols(r, Abs[f0], D, D) /\ watcher[w].at = "update"
      BY <2>2, <1>1 DEF Update, Working
    <3>2. D \in SUBSET DeclsIn(f0)
      BY <3>1, <1>0, <1>1 DEF InStep
    <3>3. IF f = f0 THEN D \subseteq {s.decl : s \in FileRowsOf(r, f)}'
          ELSE FileRowsOf(r, f)' = FileRowsOf(r, f)
      BY <3>1, <3>2, <1>0, UpdateRows
    <3>4. CASE f # f0
      BY <3>3, <3>4, <1>3 DEF Covered
    <3>5. CASE f = f0
      <4>1. Watching(w) /\ f0 \notin Waiting(w) => disk[f0] = D
        BY <3>1, <1>0, <1>1 DEF UpToDate
      <4>2. D # NoFile
        BY PathAssumption
      <4> QED
        BY <3>3, <3>5, <4>1, <4>2, <1>3 DEF Covered
    <3> QED
      BY <3>4, <3>5
  <2>3. CASE Remove(w)
    <3>1. RemoveFileSymbols(r, f0) /\ watcher[w].at = "remove"
      BY <2>3, <1>1 DEF Remove, Working
    <3>2. FileRowsOf(r, f)' = IF f = f0 THEN {} ELSE FileRowsOf(r, f)
      BY <3>1, RemoveRows
    <3>3. Watching(w) /\ f0 \notin Waiting(w) => disk[f0] = NoFile
      BY <3>1, <1>0, <1>1 DEF UpToDate
    <3> QED
      BY <3>2, <3>3, <1>3 DEF Covered
  <2>4. CASE GiveUp(w)
    <3>1. f0 \in dropped'[w] /\ UNCHANGED storeVars
      BY <2>4, <1>1 DEF GiveUp, TypeOK
    <3> QED
      BY <3>1, <1>4
  <2> QED
    BY <2>1, <2>2, <2>3, <2>4
<1> QED
  BY <1>0, <1>1, <1>2, <1>3, <1>5, DoneKeeps DEF TaskOnly, world

\* A step that moves a path between the queue, the pending set and the batch, or
\* only the place in the loop, loses nothing.
LEMMA MovesKeep ==
    ASSUME TypeOK, NEW w \in Watcher, Remembered(w),
           Watching(w)' => Watching(w), watcher'[w].repo = watcher[w].repo,
           Owed(w) \subseteq Owed(w)',
           UNCHANGED <<storeVars, disk, touched, dropped, alone>>
    PROVE  Remembered(w)'
<1> SUFFICES ASSUME Watching(w)', alone'[w], NEW f \in touched'[w] \ dropped'[w]
             PROVE  Covered(watcher[w].repo, f)' \/ f \in Owed(w)'
  BY DEF Remembered
<1>1. Covered(watcher[w].repo, f) \/ f \in Owed(w)
  BY DEF Remembered
<1>2. Covered(watcher[w].repo, f) => Covered(watcher[w].repo, f)'
  BY DEF Covered, FileRowsOf, RowsOf, storeVars
<1> QED
  BY <1>1, <1>2

LEMMA TaskStep ==
    ASSUME TypeOK, Inv, NEW w \in Watcher, Task(w)
    PROVE  Inv'
<1>0. /\ watcher[w] \in WatcherState /\ DOMAIN watcher = Watcher
      /\ watcher[w].batch \in SUBSET Rel /\ watcher[w].file \in Rel
      /\ InStep(w) /\ UpToDate(w) /\ Remembered(w) /\ OwnFilesOnly
  BY DEF TypeOK, WatcherState, Inv, InvOf
<1>a. TaskOnly /\ (Watching(w)' => Watching(w))
  BY TaskKeeps
<1>d. ASSUME Drain(w), watcher[w].batch = {}
      PROVE  /\ watcher'[w].task = "run" /\ watcher'[w].batch = watcher[w].pending
             /\ watcher'[w].pending = {} /\ Owed(w) \subseteq Owed(w)'
             /\ watcher'[w].repo = watcher[w].repo
             /\ watcher'[w].listening = watcher[w].listening
             /\ watcher'[w].aborted = watcher[w].aborted
             /\ watcher'[w].at = watcher[w].at
             /\ watcher'[w].file = watcher[w].file
             /\ watcher'[w].content = watcher[w].content
  <2>1. /\ watcher'[w].task = "run" /\ watcher'[w].batch = watcher[w].pending
        /\ watcher'[w].pending = {} /\ watcher'[w].queue = watcher[w].queue
        /\ watcher'[w].repo = watcher[w].repo
        /\ watcher'[w].listening = watcher[w].listening
        /\ watcher'[w].aborted = watcher[w].aborted
        /\ watcher'[w].at = watcher[w].at
        /\ watcher'[w].file = watcher[w].file
        /\ watcher'[w].content = watcher[w].content
    BY <1>d, <1>0 DEF Drain, WatcherState
  <2> QED
    BY <2>1, <1>d DEF Owed
<1>1. CASE Tick(w)
  <2>1. /\ watcher[w].task = "wait" /\ Drain(w) /\ watcher[w].batch = {}
        /\ watcher[w].at = "pick" /\ UNCHANGED <<storeVars, failures, dropped>>
    BY <1>1, <1>0 DEF Tick, InStep
  <2>2. InStep(w)' /\ UpToDate(w)'
    BY <2>1, <1>d, <1>0, <1>a DEF InStep, UpToDate, Watching, Running
  <2>3. Remembered(w)'
    BY <2>1, <1>d, <1>0, <1>a, MovesKeep DEF TaskOnly, world
  <2> QED
    BY <2>2, <2>3, TaskFrame
<1>2. CASE Pick(w)
  <2> DEFINE at(f) == IF disk[f] = NoFile THEN "remove" ELSE "read"
  <2>1. PICK f \in watcher[w].batch :
          watcher' = [watcher EXCEPT ![w].file = f, ![w].at = at(f)]
    BY <1>2 DEF Pick
  <2> HIDE DEF at
  <2>2. watcher' = [watcher EXCEPT ![w] = [@ EXCEPT !.file = f, !.at = at(f)]]
    BY <2>1, <1>0
  <2>3. watcher'[w] = [watcher[w] EXCEPT !.file = f, !.at = at(f)]
    BY <2>2, <1>0
  <2>4. /\ watcher[w].task = "run" /\ watcher[w].at = "pick"
        /\ UNCHANGED <<storeVars, failures, dropped>>
    BY <1>2 DEF Pick, Working
  <2>5. /\ watcher'[w].task = "run" /\ watcher'[w].aborted = watcher[w].aborted
        /\ watcher'[w].listening = watcher[w].listening
        /\ watcher'[w].repo = watcher[w].repo
        /\ watcher'[w].queue = watcher[w].queue /\ watcher'[w].pending = watcher[w].pending
        /\ watcher'[w].batch = watcher[w].batch /\ watcher'[w].content = watcher[w].content
        /\ watcher'[w].file = f /\ watcher'[w].at = at(f)
    BY <2>3, <2>4, <1>0 DEF WatcherState
  <2>6. at(f) \in {"read", "remove"} /\ (at(f) = "remove" <=> disk[f] = NoFile)
    BY DEF at
  <2>7. watcher[w].content = {}
    BY <2>4, <1>0 DEF InStep
  <2>8. disk' = disk /\ touched' = touched
    BY <1>a DEF TaskOnly, world
  <2>9. InStep(w)' /\ UpToDate(w)'
    BY <2>4, <2>5, <2>6, <2>7, <2>8, <1>0 DEF InStep, UpToDate, Watching, Running
  <2>10. Owed(w) \subseteq Owed(w)'
    BY <2>5 DEF Owed
  <2>11. Remembered(w)'
    BY <2>4, <2>5, <2>10, <1>0, <1>a, MovesKeep DEF TaskOnly, world
  <2> QED
    BY <2>9, <2>11, TaskFrame
<1>3. CASE Read(w)
  <2>1. CASE Done(w)
    BY <1>3, <2>1, DoneCases, TaskFrame
  <2>2. CASE ~Done(w)
    <3> DEFINE f0 == watcher[w].file
    <3>1. /\ watcher' = [watcher EXCEPT ![w].content = disk[f0], ![w].at = "update"]
          /\ watcher[w].task = "run" /\ watcher[w].at = "read" /\ disk[f0] # NoFile
          /\ UNCHANGED <<storeVars, failures, dropped>>
      BY <1>3, <2>2 DEF Read, Working
    <3> HIDE DEF f0
    <3>2. watcher'[w] = [watcher[w] EXCEPT !.content = disk[f0], !.at = "update"]
      BY <3>1, <1>0
    <3>3. /\ watcher'[w].task = "run" /\ watcher'[w].aborted = watcher[w].aborted
          /\ watcher'[w].listening = watcher[w].listening
          /\ watcher'[w].repo = watcher[w].repo
          /\ watcher'[w].queue = watcher[w].queue
          /\ watcher'[w].pending = watcher[w].pending
          /\ watcher'[w].batch = watcher[w].batch /\ watcher'[w].content = disk[f0]
          /\ watcher'[w].file = f0 /\ watcher'[w].at = "update"
      BY <3>1, <3>2, <1>0 DEF WatcherState, f0
    <3>4. disk[f0] \subseteq DeclsIn(f0)
      BY <3>1, <1>0 DEF OwnFilesOnly, f0
    <3>5. disk' = disk /\ touched' = touched
      BY <1>a DEF TaskOnly, world
    <3>6. InStep(w)' /\ UpToDate(w)'
      BY <3>1, <3>3, <3>4, <3>5, <1>0 DEF InStep, UpToDate, Watching, Running, f0
    <3>7. Owed(w) \subseteq Owed(w)'
      BY <3>3 DEF Owed
    <3>8. Remembered(w)'
      BY <3>1, <3>3, <3>7, <1>0, <1>a, MovesKeep DEF TaskOnly, world
    <3> QED
      BY <3>6, <3>8, TaskFrame
  <2> QED
    BY <2>1, <2>2
<1>4. CASE Update(w) \/ Remove(w) \/ GiveUp(w)
  BY <1>4, DoneCases, TaskFrame
<1>5. CASE EndBatch(w)
  <2>1. /\ watcher[w].task = "run" /\ watcher[w].at = "pick" /\ watcher[w].batch = {}
        /\ UNCHANGED <<storeVars, failures, dropped>>
    BY <1>5 DEF EndBatch, Working
  <2>2. CASE watcher' = [watcher EXCEPT ![w] = Ended]
    <3>1. watcher'[w] = Ended
      BY <2>2, <1>0
    <3>2. InStep(w)' /\ UpToDate(w)' /\ Remembered(w)'
      BY <3>1 DEF Ended, Unused, InStep, UpToDate, Remembered, Watching, Running
    <3> QED
      BY <3>2, TaskFrame
  <2>3. CASE watcher' = [watcher EXCEPT ![w] = [@ EXCEPT !.task = "wait"]]
    <3>1. watcher'[w] = [watcher[w] EXCEPT !.task = "wait"]
      BY <2>3, <1>0
    <3>2. /\ watcher'[w].task = "wait" /\ watcher'[w].aborted = watcher[w].aborted
          /\ watcher'[w].listening = watcher[w].listening
          /\ watcher'[w].repo = watcher[w].repo
          /\ watcher'[w].queue = watcher[w].queue
          /\ watcher'[w].pending = watcher[w].pending
          /\ watcher'[w].batch = {} /\ watcher'[w].content = watcher[w].content
          /\ watcher'[w].file = watcher[w].file /\ watcher'[w].at = "pick"
      BY <3>1, <2>1, <1>0 DEF WatcherState
    <3>3. Owed(w) \subseteq Owed(w)'
      BY <3>2, <2>1 DEF Owed
    <3>4. InStep(w)' /\ UpToDate(w)'
      BY <3>2, <2>1, <1>0 DEF InStep, UpToDate, Watching, Running
    <3>5. Remembered(w)'
      BY <2>1, <3>2, <3>3, <1>0, <1>a, MovesKeep DEF TaskOnly, world
    <3> QED
      BY <3>4, <3>5, TaskFrame
  <2>4. CASE Drain(w)
    <3>1. InStep(w)' /\ UpToDate(w)'
      BY <2>1, <2>4, <1>d, <1>0, <1>a DEF InStep, UpToDate, Watching, Running
    <3>2. Remembered(w)'
      BY <2>1, <2>4, <1>d, <1>0, <1>a, MovesKeep DEF TaskOnly, world
    <3> QED
      BY <3>1, <3>2, TaskFrame
  <2> QED
    BY <1>5, <2>2, <2>3, <2>4 DEF EndBatch
<1> QED
  BY <1>1, <1>2, <1>3, <1>4, <1>5 DEF Task

\* The tools: a watcher they stop is not Watching any more, one they start has seen
\* no change yet.
LEMMA StopStep ==
    ASSUME TypeOK, Inv, NEW w \in Watcher, watcher' = Stop(w),
           UNCHANGED <<storeVars, world, failures, history>>
    PROVE  Inv'
<1>0. /\ watcher \in [Watcher -> WatcherState] /\ InStep(w)
      /\ UNCHANGED <<disk, touched, dropped, alone>> /\ UNCHANGED storeVars
  BY DEF TypeOK, Inv, InvOf, world, history
<1>1. /\ ~Watching(w)' /\ \A u \in Watcher : Running(u)' => Running(u)
      /\ \A v \in Watcher \ {w} : watcher'[v] = watcher[v]
  BY <1>0, StopEnds DEF Running
<1>2. \A v \in Watcher : ByItself(v)'
  BY <1>0, <1>1 DEF Inv, InvOf, ByItself
<1>3. InvOf(w)'
  <2>1. CASE watcher'[w] = Ended
    BY <2>1, <1>1, <1>2 DEF Ended, Unused, InvOf, InStep, UpToDate, Remembered
  <2>2. CASE watcher'[w] = [watcher[w] EXCEPT !.aborted = TRUE, !.listening = FALSE,
                                              !.queue = {}]
    <3>1. /\ watcher'[w].task = watcher[w].task /\ watcher'[w].batch = watcher[w].batch
          /\ watcher'[w].at = watcher[w].at /\ watcher'[w].file = watcher[w].file
          /\ watcher'[w].content = watcher[w].content /\ ~watcher'[w].listening
      BY <2>2, <1>0 DEF WatcherState
    <3>2. InStep(w)'
      BY <3>1, <1>0, <1>1 DEF InStep
    <3> QED
      BY <3>2, <1>1, <1>2 DEF InvOf, UpToDate, Remembered
  <2> QED
    BY <2>1, <2>2, <1>0 DEF Stop
<1>4. ASSUME NEW v \in Watcher \ {w} PROVE InvOf(v)'
  BY <1>0, <1>1, <1>2, SameWatcher, SameRemembered DEF Inv, InvOf
<1> QED
  BY <1>0, <1>3, <1>4 DEF Inv, OwnFilesOnly

LEMMA StartStep ==
    ASSUME TypeOK, Inv, NEW c \in Caller, NEW w \in Watcher, NEW r \in Repo,
           StartWatcher(c, w, r)
    PROVE  Inv'
<1>0. /\ watcher[w].task = "unused" /\ DOMAIN watcher = Watcher
      /\ watcher' = [watcher EXCEPT ![w] =
                       [Unused EXCEPT !.task = "wait", !.listening = TRUE, !.repo = r]]
      /\ alone' = [v \in Watcher |-> IF v = w THEN \A u \in Watcher : ~Running(u)
                                     ELSE alone[v] /\ ~Running(v)]
      /\ UNCHANGED <<disk, touched, dropped>> /\ UNCHANGED storeVars
  BY DEF StartWatcher, TypeOK, world
<1>1. /\ \A v \in Watcher \ {w} : watcher'[v] = watcher[v]
      /\ watcher'[w].task = "wait" /\ watcher'[w].listening
      /\ watcher'[w].at = "pick" /\ watcher'[w].batch = {} /\ watcher'[w].content = {}
  BY <1>0 DEF Unused
<1>2. \A v \in Watcher \ {w} : Running(v)' = Running(v)
  BY <1>1 DEF Running
<1>3. touched[w] = {}
  BY <1>0 DEF Inv, InvOf, InStep
<1>4. InvOf(w)'
  BY <1>0, <1>1, <1>2, <1>3 DEF InvOf, InStep, UpToDate, ByItself, Remembered
<1>5. ASSUME NEW v \in Watcher \ {w} PROVE InvOf(v)'
  <2>1. alone'[v] => alone[v] /\ ~Running(v)'
    BY <1>0, <1>2
  <2>2. InStep(v)' /\ UpToDate(v)'
    BY <1>0, <1>1, SameWatcher DEF Inv, InvOf
  <2> QED
    BY <2>1, <2>2 DEF InvOf, ByItself, Remembered, Watching
<1> QED
  BY <1>0, <1>4, <1>5 DEF Inv, OwnFilesOnly

LEMMA DeliverStep ==
    ASSUME TypeOK, Inv, NEW w \in Watcher, NEW f \in Rel, Deliver(w, f)
    PROVE  Inv'
<1>0. /\ watcher[w] \in WatcherState /\ DOMAIN watcher = Watcher /\ InvOf(w)
      /\ f \in watcher[w].queue
      /\ UNCHANGED <<disk, touched, dropped, alone>> /\ UNCHANGED storeVars
  BY DEF TypeOK, Deliver, Inv, world, history
<1> DEFINE q == watcher[w].queue \ {f}
           p == watcher[w].pending \cup {f}
<1>1. watcher' = [watcher EXCEPT ![w] = [@ EXCEPT !.queue = q, !.pending = p]]
  BY <1>0 DEF Deliver
<1> HIDE DEF q, p
<1>2. /\ \A v \in Watcher \ {w} : watcher'[v] = watcher[v]
      /\ watcher'[w] = [watcher[w] EXCEPT !.queue = q, !.pending = p]
  BY <1>0, <1>1
<1>a. /\ watcher'[w].task = watcher[w].task /\ watcher'[w].aborted = watcher[w].aborted
      /\ watcher'[w].listening = watcher[w].listening
      /\ watcher'[w].repo = watcher[w].repo
      /\ watcher'[w].batch = watcher[w].batch /\ watcher'[w].at = watcher[w].at
      /\ watcher'[w].file = watcher[w].file /\ watcher'[w].content = watcher[w].content
      /\ watcher'[w].queue = q /\ watcher'[w].pending = p
  BY <1>0, <1>2 DEF WatcherState
<1>3. /\ Waiting(w)' = Waiting(w) /\ Owed(w)' = Owed(w)
  BY <1>0, <1>a DEF Waiting, Owed, q, p
<1>4. \A v \in Watcher : Running(v)' = Running(v) /\ Watching(v)' = Watching(v)
  BY <1>2, <1>a, <1>3 DEF Running, Watching
<1>5. \A v \in Watcher : ByItself(v)'
  BY <1>0, <1>4 DEF Inv, InvOf, ByItself
<1>6. InvOf(w)'
  <2>1. InStep(w)' /\ UpToDate(w)'
    BY <1>0, <1>a, <1>3, <1>4 DEF InvOf, InStep, UpToDate
  <2>2. Remembered(w)'
    BY <1>0, <1>a, <1>3, <1>4, MovesKeep DEF InvOf
  <2> QED
    BY <1>5, <2>1, <2>2 DEF InvOf
<1>7. ASSUME NEW v \in Watcher \ {w} PROVE InvOf(v)'
  BY <1>0, <1>2, <1>5, SameWatcher, SameRemembered DEF Inv, InvOf
<1> QED
  BY <1>0, <1>6, <1>7 DEF Inv, OwnFilesOnly

\* A change comes at any moment: whoever listens has it waiting from now on.
LEMMA EditStep ==
    ASSUME TypeOK, Inv, NEW f \in Rel, Edit(f)
    PROVE  Inv'
<1>1. PICK v \in {NoFile} \cup Versions[f] : disk' = [disk EXCEPT ![f] = v]
  BY DEF Edit
<1>2. v # NoFile => v \subseteq DeclsIn(f)
  BY PathAssumption
<1>3. OwnFilesOnly'
  BY <1>1, <1>2 DEF Inv, OwnFilesOnly, TypeOK
<1>4. ASSUME NEW w \in Watcher PROVE InvOf(w)'
  <2>0. /\ watcher[w] \in WatcherState /\ InvOf(w)
        /\ dropped'[w] = dropped[w] \ {f} /\ alone' = alone /\ UNCHANGED storeVars
        /\ touched'[w] = IF watcher[w].listening THEN touched[w] \cup {f} ELSE touched[w]
        /\ watcher'[w] = IF watcher[w].listening
                         THEN [watcher[w] EXCEPT !.queue = @ \cup {f}] ELSE watcher[w]
    BY DEF TypeOK, Edit, Inv
  <2>1. /\ watcher'[w].task = watcher[w].task /\ watcher'[w].aborted = watcher[w].aborted
        /\ watcher'[w].listening = watcher[w].listening
        /\ watcher'[w].repo = watcher[w].repo /\ watcher'[w].pending = watcher[w].pending
        /\ watcher'[w].batch = watcher[w].batch /\ watcher'[w].at = watcher[w].at
        /\ watcher'[w].file = watcher[w].file
        /\ watcher'[w].content = watcher[w].content
        /\ watcher'[w].queue = IF watcher[w].listening THEN watcher[w].queue \cup {f}
                               ELSE watcher[w].queue
    BY <2>0 DEF WatcherState
  <2>2. Watching(w)' = Watching(w) /\ (Watching(w) => watcher[w].listening)
    BY <2>0, <2>1 DEF InvOf, InStep, Watching, Running
  <2>3. InStep(w)'
    BY <2>0, <2>1, <2>2 DEF InvOf, InStep
  <2>4. UpToDate(w)'
    <3>1. \A g \in Rel : g # f => disk'[g] = disk[g]
      BY <1>1 DEF TypeOK
    <3>2. watcher[w].file \in Rel
      BY <2>0 DEF WatcherState
    <3> QED
      BY <2>0, <2>1, <2>2, <3>1, <3>2 DEF InvOf, UpToDate, Waiting
  <2>5. ByItself(w)'
    <3>1. \A u \in Watcher : Running(u)' = Running(u)
      BY DEF Edit, TypeOK, WatcherState, Running
    <3> QED
      BY <2>0, <3>1 DEF InvOf, ByItself
  <2>6. Remembered(w)'
    <3> SUFFICES ASSUME Watching(w)', alone'[w], NEW g \in touched'[w] \ dropped'[w]
                 PROVE  Covered(watcher[w].repo, g)' \/ g \in Owed(w)'
      BY DEF Remembered
    <3>1. CASE g = f
      BY <3>1, <2>1, <2>2 DEF Owed
    <3>2. CASE g # f
      <4>1. g \in touched[w] \ dropped[w] /\ g \in Rel
        BY <2>0, <2>2, <3>2 DEF TypeOK
      <4>2. Covered(watcher[w].repo, g) \/ g \in Owed(w)
        BY <2>0, <2>2, <4>1 DEF InvOf, Remembered
      <4>3. disk'[g] = disk[g]
        BY <1>1, <3>2, <4>1 DEF TypeOK
      <4>4. Covered(watcher[w].repo, g) => Covered(watcher[w].repo, g)'
        BY <2>0, <2>1, <4>3 DEF Covered, FileRowsOf, RowsOf, storeVars
      <4>5. Owed(w) \subseteq Owed(w)'
        BY <2>1 DEF Owed
      <4> QED
        BY <4>2, <4>4, <4>5
    <3> QED
      BY <3>1, <3>2
  <2> QED
    BY <2>3, <2>4, <2>5, <2>6 DEF InvOf
<1> QED
  BY <1>3, <1>4 DEF Inv

LEMMA InvStep ==
    ASSUME TypeOK, Inv, [Next]_vars
    PROVE  Inv'
<1>0. ASSUME UNCHANGED <<storeVars, watcher, world, failures, history>>
      PROVE  Inv'
  <2>1. UNCHANGED <<disk, touched, dropped, alone>> /\ UNCHANGED storeVars
    BY <1>0 DEF world, history
  <2>2. \A v \in Watcher : Running(v)' = Running(v)
    BY <1>0 DEF Running
  <2>3. ASSUME NEW v \in Watcher PROVE InvOf(v)'
    BY <1>0, <2>1, <2>2, SameWatcher, SameRemembered DEF Inv, InvOf, ByItself
  <2> QED
    BY <2>1, <2>3 DEF Inv, OwnFilesOnly
<1>1. ASSUME NEW c \in Caller, NEW w \in Watcher, NEW r \in Repo, StartWatcher(c, w, r)
      PROVE  Inv'
  BY <1>1, StartStep
<1>2. ASSUME NEW c \in Caller, Register(c)
      PROVE  Inv'
  <2>1. CASE registered = NoWatcher
    BY <1>2, <2>1, <1>0 DEF Register
  <2>2. CASE registered # NoWatcher
    BY <1>2, <2>2, StopStep DEF Register, TypeOK
  <2> QED
    BY <2>1, <2>2
<1>3. CASE Unwatch
  BY <1>3, StopStep DEF Unwatch, TypeOK
<1>4. ASSUME NEW w \in Watcher, NEW f \in Rel, Deliver(w, f)
      PROVE  Inv'
  BY <1>4, DeliverStep
<1>5. ASSUME NEW w \in Watcher, Task(w)
      PROVE  Inv'
  BY <1>5, TaskStep
<1>6. ASSUME NEW f \in Rel, Edit(f)
      PROVE  Inv'
  BY <1>6, EditStep
<1>7. CASE UNCHANGED vars
  BY <1>7, <1>0 DEF vars, world
<1> QED
  BY <1>1, <1>2, <1>3, <1>4, <1>5, <1>6, <1>7 DEF Next

LEMMA InvInit == ASSUME Init PROVE Inv
<1>1. OwnFilesOnly
  BY PathAssumption DEF Init, OwnFilesOnly
<1>2. ASSUME NEW w \in Watcher PROVE InvOf(w)
  BY DEF Init, Unused, InvOf, InStep, UpToDate, ByItself, Remembered, Watching, Running
<1> QED
  BY <1>1, <1>2 DEF Inv

\* For any number of watchers and changes, at any moment of the task's loop: a path
\* that changed under a watcher that has the workspace to itself is known to the
\* index as it is now, waits for its turn or met an error.
THEOREM ChangesAreRemembered == Spec => [](WatcherInv /\ NoChangeForgotten)
<1>1. Spec => []TypeOK
  BY WatcherTypeCorrect
<1>2. Init => Inv
  BY InvInit
<1>3. TypeOK /\ Inv /\ [Next]_vars => Inv'
  BY InvStep
<1>4. Inv => WatcherInv /\ NoChangeForgotten
  BY InvMeans
<1> QED
  BY <1>1, <1>2, <1>3, <1>4, PTL DEF Spec
=============================================================================
