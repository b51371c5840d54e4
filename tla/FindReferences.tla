--------------------------- MODULE FindReferences ---------------------------
(***************************************************************************)
(* FindReferencesThread.cpp: the search for references.  The thread walks  *)
(* the map of projects, which it holds for reading, and searches the files *)
(* of each project in parallel, under DatabaseDirectoryLock.  The          *)
(* references of a file are appended to refVect and shown by an item that  *)
(* the UI thread runs later; items name no project: OnFoundInProject,      *)
(* called on the search thread, tells the observer which one is current.   *)
(* The flushes that keep the tree level with the search run the items that *)
(* wait, unless the UI thread is in the middle of a list of items already: *)
(* then they may return without (RunAllPendingInMainThread, which the      *)
(* module MainThreadWork has in full).                                     *)
(*                                                                         *)
(* Around it the UI thread stops the search, closes its window, and loads  *)
(* solutions; a load clears the project map and its loader fills it again, *)
(* also under DatabaseDirectoryLock.  There is no lock between a search    *)
(* and a load but a handshake: the search makes RefactoringActive before   *)
(* it asks IsBusy, the load is made busy before it asks RefactoringActive. *)
(* Not every load is: a timer launches one that nothing has announced, and *)
(* a loader that ends takes back the flag of the load that follows it.     *)
(*                                                                         *)
(* Every file has one reference.  Projects within a group of SortProjects  *)
(* come in any order: it depends on how they were found.                   *)
(***************************************************************************)
EXTENDS Integers, Sequences, FiniteSets

CONSTANTS
  Projects, PlaceOf,       \* the projects, and their places in mMap
  NoProject, Files,
  Layouts,                 \* which files, kinds and active files there may be
  Searches                 \* layout, SharedFileBehavior, what is searched, and a
                           \* bound on the loads beside it

ASSUME LayoutAssumption ==
  /\ NoProject \notin Projects /\ IsFiniteSet(Projects) /\ PlaceOf \in [Projects -> Nat]
  /\ \A l \in Layouts :
       /\ l.files \in [Projects -> SUBSET Files]
       /\ l.sharedType \subseteq l.shared /\ l.shared \subseteq Projects
       /\ {l.active, l.matched, l.symFile} \subseteq Files

Behaviors == {"sfOnce", "sfPerProject"}
Scopes == {"solution", "projects", "file"}
ASSUME SearchAssumption ==
  Searches \subseteq [layout : Layouts, behavior : Behaviors, scope : Scopes, loads : Nat]

VARIABLES
  layout, behavior, scope,   \* fixed by the call
  spc, jobs,                 \* where the search is; the projects still to visit
  tasks,                     \* the files of the loop at work and how far each is
  mStopFlag, mFilesSearched, mCurrentProject, mNotifiedProject,
  refVect,                   \* the project and file of each reference
  pending,                   \* items for the UI thread: the reference to show
  inList, taken,             \* whether the UI thread is in a list of items, and how
                             \* many of those that wait, the first ones, are in it
  left,                      \* history: the references that a flush did not run
  observer,                  \* what ReferencesThreadObserver remembers
  shown,                     \* the tree: the project node that each reference is under
  complete,                  \* WM_FIND_COMPLETE has been handled
  sIsActive,                 \* RefactoringActive of this search
  mapRead, dirLock,          \* mMapLock held for reading; who owns the directory lock
  upc, thread,               \* what the UI thread is at; what it did with the thread
  mIsLoading, wanted, loads, \* the load that is wanted, and how many may follow
  hidden,                    \* history: a load was not, or no longer, announced
  queued, lpc,               \* the loaders that wait for the lock; where its owner is
  mMap                       \* the map: a write of it flips this

projectVars == <<mCurrentProject, mNotifiedProject>>
searchVars == <<spc, jobs, tasks, mFilesSearched, projectVars>>
listVars == <<inList, taken>>
resultVars == <<refVect, pending, listVars, left, observer, shown, complete>>
lockVars == <<sIsActive, mapRead, dirLock>>
uiVars == <<upc, thread, mStopFlag>>
loadVars == <<mIsLoading, wanted, loads, hidden, queued, lpc, mMap>>
callVars == <<layout, behavior, scope>>
others == <<callVars, uiVars, loadVars>>   \* what a step of the search seldom touches
vars == <<callVars, searchVars, resultVars, lockVars, uiVars, loadVars>>

NoStop == 0
SoftStop == 1
HardStop == 2
Item == [project : Projects \cup {NoProject}, file : Files]

TypeOK ==
  /\ layout \in Layouts /\ behavior \in Behaviors /\ scope \in Scopes
  /\ spc \in {"start", "busy", "map", "next", "lockPair", "pairProject", "pair",
              "project", "lockAll", "all", "flush", "close", "cancel", "post", "end",
              "done"}
  /\ jobs \in Seq([project : Projects \cup {NoProject}, pair : BOOLEAN, clear : BOOLEAN])
  /\ tasks \in [Files -> {"none", "todo", "found", "flush"}]
  /\ mFilesSearched \subseteq Files
  /\ {mCurrentProject, mNotifiedProject} \subseteq Projects \cup {NoProject}
  /\ refVect \in Seq(Item) /\ pending \in Seq(1..Len(refVect))
  /\ inList \in BOOLEAN /\ taken \in 0..Len(pending) /\ left \subseteq 1..Len(refVect)
  /\ observer \in [canceled : BOOLEAN, project : Projects \cup {NoProject},
                   node : Projects \cup {NoProject}]
  /\ shown \subseteq [ref : 1..Len(refVect), node : Projects \cup {NoProject}]
  /\ complete \in BOOLEAN /\ sIsActive \in BOOLEAN /\ mapRead \in BOOLEAN
  /\ dirLock \in {"", "search", "loader"}
  /\ upc \in {"idle", "launch", "wait"}
  /\ thread \in {"owned", "undeleted", "deleted"}
  /\ mStopFlag \in {NoStop, SoftStop, HardStop}
  /\ mIsLoading \in BOOLEAN /\ wanted \in BOOLEAN /\ loads \in Nat
  /\ hidden \in BOOLEAN /\ queued \in Nat
  /\ lpc \in {"none", "map", "fill", "work"} /\ mMap \in BOOLEAN

Init ==
  /\ \E s \in Searches :
       layout = s.layout /\ behavior = s.behavior /\ scope = s.scope /\ loads = s.loads
  /\ spc = "start" /\ jobs = <<>> /\ tasks = [f \in Files |-> "none"]
  /\ mStopFlag = NoStop /\ mFilesSearched = {}
  /\ mCurrentProject = NoProject /\ mNotifiedProject = NoProject
  /\ refVect = <<>> /\ pending = <<>> /\ shown = {} /\ complete = FALSE
  /\ inList = FALSE /\ taken = 0 /\ left = {}
  /\ observer = [canceled |-> FALSE, project |-> NoProject, node |-> NoProject]
  /\ sIsActive = FALSE /\ mapRead = FALSE /\ dirLock = ""
  /\ upc = "idle" /\ thread = "owned"
  /\ mIsLoading = FALSE /\ wanted = FALSE /\ hidden = FALSE
  /\ queued = 0 /\ lpc = "none" /\ mMap = FALSE

-----------------------------------------------------------------------------
(* Which projects are searched, and in which order *)

GetProjectForFile(f) == {p \in Projects : f \in layout.files[p]}
ActiveFiles == {layout.active, layout.matched}
HasActiveFile(p) == ActiveFiles \cap layout.files[p] # {}

ActiveProjects ==
  LET forActive == GetProjectForFile(layout.active)
      first == IF forActive # {} THEN forActive ELSE GetProjectForFile(layout.matched)
      located == IF first = {} \/ first \cap layout.shared # {}
                   THEN first \cup GetProjectForFile(layout.symFile) ELSE first
  IN IF located \cap layout.shared # {} THEN located \cup layout.shared ELSE located

Orders(S) ==
  {s \in [1..Cardinality(S) -> S] : \A i, j \in 1..Cardinality(S) : i # j => s[i] # s[j]}
InOrder(S) ==
  {s \in Orders(S) :
     \A i, j \in 1..Cardinality(S) : i < j => PlaceOf[s[i]] < PlaceOf[s[j]]}
SharedFirst(S) == S \cap layout.sharedType
OwnNext(S) == {p \in S \ layout.sharedType : HasActiveFile(p)}

Visit(p, clear) == [project |-> p, pair |-> HasActiveFile(p), clear |-> clear]
Visits(s, clear) == [i \in 1..Len(s) |-> Visit(s[i], clear)]
NoProjectVisit == [project |-> NoProject, pair |-> TRUE, clear |-> FALSE]
\* Without an active project the two files are searched by themselves.
ActiveVisits(s) == IF s = <<>> THEN <<NoProjectVisit>> ELSE Visits(s, FALSE)
OtherProjects == IF scope = "projects" THEN {} ELSE Projects \ ActiveProjects

\* SortProjects, and the rest of the solution in the order of the map.
PlanVisits ==
  LET first == SharedFirst(ActiveProjects)
      next == OwnNext(ActiveProjects)
  IN \E a \in Orders(first), b \in Orders(next),
        c \in Orders(ActiveProjects \ (first \cup next)), o \in InOrder(OtherProjects) :
       jobs' = ActiveVisits(a \o b \o c) \o Visits(o, behavior = "sfPerProject")

-----------------------------------------------------------------------------
(* The search thread *)

Goto(from, to) == spc = from /\ spc' = to
Job == Head(jobs)

\* Run: RefactoringActive is made before anything else.
Start ==
  /\ Goto("start", IF scope = "file" THEN "lockPair" ELSE "busy")
  /\ jobs' = IF scope = "file" THEN <<NoProjectVisit>> ELSE <<>>
  /\ sIsActive' = TRUE
  /\ UNCHANGED <<tasks, mFilesSearched, resultVars, mapRead, dirLock, projectVars,
                 others>>

IsBusy_never == FALSE
IsBusy == mIsLoading
CheckBusy ==
  /\ Goto("busy", IF IsBusy THEN "post" ELSE "map")
  /\ UNCHANGED <<jobs, tasks, mFilesSearched, resultVars, lockVars, projectVars,
                 others>>

\* GetProjectsForRead, and what is read of the map before the first file.
ReadMap ==
  /\ Goto("map", "next")
  /\ mapRead' = TRUE /\ PlanVisits
  /\ UNCHANGED <<tasks, mFilesSearched, resultVars, sIsActive, dirLock, projectVars,
                 others>>

NextProject ==
  /\ spc = "next"
  /\ spc' = IF jobs = <<>> \/ (mStopFlag # NoStop /\ Job.project # NoProject) THEN "close"
            ELSE IF Job.pair THEN "lockPair" ELSE "project"
  /\ UNCHANGED <<jobs, tasks, mFilesSearched, resultVars, lockVars, projectVars,
                 others>>

LockPair ==
  /\ Goto("lockPair", IF Job.project = NoProject THEN "pair" ELSE "pairProject")
  /\ dirLock = "" /\ dirLock' = "search"
  /\ tasks' = [f \in Files |-> IF f \in ActiveFiles THEN "todo" ELSE "none"]
  /\ UNCHANGED <<jobs, mFilesSearched, resultVars, sIsActive, mapRead, projectVars,
                 others>>

Waiting == {pending[i] : i \in DOMAIN pending}
FlushAllPendingInMainThread_post == UNCHANGED left
\* Sent to the UI thread, which runs every item that waits (RunItem) before the
\* flush returns; but if it is in a list of items, running one or resting after a
\* hundred milliseconds of them, it may return at once, or at the end of that list.
FlushAllPendingInMainThread ==
  /\ upc = "idle" /\ (pending = <<>> \/ inList)
  /\ left' = left \cup Waiting

\* The observer is told of the project between two flushes, the second of which
\* has nothing to run but what the first one left.
UpdateCurrentProject ==
  /\ FlushAllPendingInMainThread
  /\ mCurrentProject' = Job.project /\ mNotifiedProject' = Job.project
  /\ observer' = IF Job.project = mNotifiedProject THEN observer
                 ELSE [observer EXCEPT !.project = Job.project]

EnterProject ==
  /\ Goto("pairProject", "pair") \/ Goto("project", "lockAll")
  /\ UpdateCurrentProject
  /\ UNCHANGED <<jobs, tasks, mFilesSearched, refVect, pending, listVars, shown,
                 complete, lockVars, others>>

\* sfPerProject: a project outside the active ones is searched with the files of
\* the projects before it forgotten.
Kept == IF Job.clear THEN {} ELSE mFilesSearched

\* SearchProject forgets them before it takes the lock.
LockAll ==
  /\ Goto("lockAll", "all")
  /\ dirLock = "" /\ dirLock' = "search"
  /\ mFilesSearched' = Kept
  /\ tasks' = [f \in Files |-> IF f \in layout.files[Job.project] THEN "todo" ELSE "none"]
  /\ UNCHANGED <<jobs, resultVars, sIsActive, mapRead, projectVars, others>>

\* The two files one after the other, those of a project at once.
MayStart(f) ==
  \/ spc = "all"
  \/ spc = "pair" /\ (f = layout.matched => tasks[layout.active] = "none")

\* SearchFile: a file is claimed under mFilesSearchedLock.
ClaimFile(f) ==
  /\ tasks[f] = "todo" /\ MayStart(f)
  /\ IF f \in mFilesSearched \/ (spc = "all" /\ mStopFlag # NoStop)
       THEN tasks' = [tasks EXCEPT ![f] = "none"] /\ UNCHANGED mFilesSearched
       ELSE /\ tasks' = [tasks EXCEPT ![f] = "found"]
            /\ mFilesSearched' = mFilesSearched \cup {f}
  /\ UNCHANGED <<spc, jobs, resultVars, lockVars, projectVars, others>>

\* The file has been searched; its references count unless the search was stopped.
SearchedFile(f) ==
  /\ tasks[f] = "found"
  /\ tasks' = [tasks EXCEPT ![f] = IF mStopFlag # NoStop THEN "none" ELSE "flush"]
  /\ UNCHANGED <<spc, jobs, mFilesSearched, resultVars, lockVars, projectVars,
                 others>>

NewRef == Len(refVect) + 1
\* FlushFileRefs looks at mStopFlag no more.
FlushFileRefs(f) ==
  /\ tasks[f] = "flush" /\ tasks' = [tasks EXCEPT ![f] = "none"]
  /\ refVect' = Append(refVect, [project |-> mCurrentProject, file |-> f])
  /\ pending' = Append(pending, NewRef)
  /\ UNCHANGED <<spc, jobs, mFilesSearched, listVars, left, observer, shown, complete,
                 lockVars, projectVars, others>>

\* The loop ends, and the lock with it; where there is no project the flush comes
\* first, except in a search of one file, which does without.
Searched == \A f \in Files : tasks[f] = "none"
flushRest == <<refVect, pending, listVars, observer, shown, complete>>
EndFiles ==
  /\ Searched /\ dirLock' = ""
  /\ \/ Goto("pair", "project") /\ Job.project # NoProject /\ UNCHANGED <<jobs, left>>
     \/ /\ spc = "pair" /\ Job.project = NoProject /\ jobs' = Tail(jobs)
        /\ IF scope = "file" THEN spc' = "post" /\ UNCHANGED left
           ELSE spc' = "next" /\ FlushAllPendingInMainThread
     \/ Goto("all", "flush") /\ UNCHANGED <<jobs, left>>
  /\ UNCHANGED <<tasks, mFilesSearched, flushRest, sIsActive, mapRead, projectVars,
                 others>>

FlushProject_none ==
  /\ Goto("flush", "next") /\ jobs' = Tail(jobs)
  /\ UNCHANGED <<tasks, mFilesSearched, resultVars, lockVars, projectVars, others>>
FlushProject ==
  /\ Goto("flush", "next") /\ FlushAllPendingInMainThread /\ jobs' = Tail(jobs)
  /\ UNCHANGED <<tasks, mFilesSearched, flushRest, lockVars, projectVars, others>>

CloseMap ==
  /\ Goto("close", "post") /\ mapRead' = FALSE
  /\ UNCHANGED <<jobs, tasks, mFilesSearched, resultVars, sIsActive, dirLock,
                 projectVars, others>>

\* An exception between two projects gives up the locks; Cancel on this thread.
SearchThrows ==
  /\ spc \in {"next", "project"} /\ spc' = "cancel" /\ mapRead' = FALSE
  /\ mStopFlag' = SoftStop /\ observer' = [observer EXCEPT !.canceled = TRUE]
  /\ UNCHANGED <<callVars, jobs, tasks, mFilesSearched, refVect, pending, listVars,
                 left, shown, complete, sIsActive, dirLock, upc, thread, loadVars,
                 projectVars>>

EndCancel ==
  /\ Goto("cancel", "post") /\ FlushAllPendingInMainThread
  /\ UNCHANGED <<jobs, tasks, mFilesSearched, flushRest, lockVars, projectVars, others>>

\* OnPostSearch sends WM_FIND_COMPLETE to the window.
PostSearch ==
  /\ Goto("post", "end")
  /\ \/ mStopFlag # HardStop /\ thread = "owned" /\ upc = "idle" /\ complete' = TRUE
     \/ (mStopFlag = HardStop \/ thread # "owned") /\ UNCHANGED complete
  /\ UNCHANGED <<jobs, tasks, mFilesSearched, refVect, pending, listVars, left,
                 observer, shown, lockVars, projectVars, others>>

EndRun ==
  /\ Goto("end", "done") /\ sIsActive' = FALSE
  /\ UNCHANGED <<jobs, tasks, mFilesSearched, resultVars, mapRead, dirLock,
                 projectVars, others>>

-----------------------------------------------------------------------------
(* The UI thread: items, and the window *)

\* RunAllPendingInMainThread takes a list of what waits, of which other callers'
\* items, not modelled, are part.  A list in which an item throws never ends.
TakeList ==
  /\ upc = "idle" /\ ~inList /\ inList' = TRUE /\ taken' = Len(pending)
  /\ UNCHANGED <<searchVars, refVect, pending, left, observer, shown, complete, lockVars,
                 others>>

EndList ==
  /\ upc = "idle" /\ inList /\ taken = 0 /\ inList' = FALSE
  /\ UNCHANGED <<searchVars, refVect, pending, taken, left, observer, shown, complete,
                 lockVars, others>>

\* UpdateObserver: OnFoundInFile and OnReference, which makes the nodes it needs.
RunItem ==
  /\ upc = "idle" /\ taken > 0 /\ taken' = taken - 1 /\ pending' = Tail(pending)
  /\ IF observer.canceled THEN UNCHANGED <<observer, shown>>
     ELSE LET node == IF observer.project # NoProject THEN observer.project
                      ELSE observer.node
          IN /\ observer' = [observer EXCEPT !.project = NoProject, !.node = node]
             /\ shown' = shown \cup {[ref |-> Head(pending), node |-> node]}
  /\ UNCHANGED <<searchVars, refVect, inList, left, complete, lockVars, others>>

\* Cancel on the UI thread: its flush runs what waits, or some of the list at work;
\* the observer, which has been told, does nothing with it.
Cancel(flag) ==
  /\ mStopFlag' = flag
  /\ observer' = [observer EXCEPT !.canceled = TRUE]
  /\ \/ pending' = <<>> /\ taken' = 0 /\ ~inList
     \/ /\ inList
        /\ \E n \in 0..taken :
             /\ taken' = taken - n /\ pending' = SubSeq(pending, n + 1, Len(pending))
  /\ left' = left \cup {pending'[i] : i \in DOMAIN pending'}
  /\ UNCHANGED <<callVars, searchVars, refVect, inList, shown, complete, lockVars,
                 loadVars>>

Running == spc # "done"

\* Stop, or the frame's OnCancel.
OnCancel ==
  /\ upc = "idle" /\ thread = "owned" /\ Running /\ mStopFlag = NoStop
  /\ Cancel(SoftStop) /\ UNCHANGED <<upc, thread>>

\* ClearThread, when the window is destroyed: Wait(500) if the thread runs.
ClearThread ==
  /\ upc = "idle" /\ thread = "owned"
  /\ Cancel(HardStop)
  /\ IF Running THEN upc' = "wait" /\ UNCHANGED thread
     ELSE thread' = "deleted" /\ UNCHANGED upc

Delete_always == "deleted"
\* Deletion is postponed if the wait timed out.
Delete == IF Running THEN "undeleted" ELSE "deleted"
EndWait ==
  /\ upc = "wait" /\ upc' = "idle" /\ thread' = Delete
  /\ UNCHANGED <<callVars, searchVars, resultVars, lockVars, mStopFlag, loadVars>>

DeleteSpentFindReferencesThreads ==
  /\ upc = "idle" /\ thread = "undeleted" /\ ~Running /\ thread' = "deleted"
  /\ UNCHANGED <<callVars, searchVars, resultVars, lockVars, upc, mStopFlag,
                 loadVars>>

-----------------------------------------------------------------------------
(* Loads *)

loadRest == <<callVars, searchVars, resultVars, sIsActive, mapRead, thread, mStopFlag>>

\* SolutionLoadStarting; LaunchProjectLoaderThread will follow.
SolutionLoadStarting ==
  /\ upc = "idle" /\ loads > 0 /\ ~wanted
  /\ loads' = loads - 1 /\ wanted' = TRUE /\ mIsLoading' = TRUE
  /\ UNCHANGED <<loadRest, dirLock, upc, hidden, queued, lpc, mMap>>

\* IDT_SolutionReload: the launch of a load that nothing has announced.
SolutionReload ==
  /\ upc = "idle" /\ loads > 0 /\ ~wanted /\ ~mIsLoading
  /\ loads' = loads - 1 /\ wanted' = TRUE /\ hidden' = TRUE
  /\ UNCHANGED <<loadRest, dirLock, upc, mIsLoading, queued, lpc, mMap>>

RejectLaunch_never == FALSE
RejectLaunch == sIsActive
\* It is rejected, and tried again later, while a search is active.
LaunchProjectLoaderThread ==
  /\ upc = "idle" /\ wanted /\ ~RejectLaunch
  /\ upc' = "launch" /\ wanted' = FALSE
  /\ UNCHANGED <<loadRest, dirLock, mIsLoading, loads, hidden, queued, lpc, mMap>>

\* CloseProject clears the map: on the main thread the writer of mMapLock waits
\* for readers unless RefactoringActive (RWLock::StartWriting).  The loader that is
\* at work, if there is one, is told to stop, and another one is started.
ClearMap ==
  /\ upc = "launch" /\ upc' = "idle"
  /\ ~mapRead \/ sIsActive
  /\ mMap' = ~mMap /\ mIsLoading' = TRUE /\ queued' = queued + 1
  /\ UNCHANGED <<loadRest, dirLock, wanted, loads, hidden, lpc>>

\* With the lock, a loader gives up when another one waits for it too.
LoadProject ==
  /\ queued > 0 /\ dirLock = "" /\ queued' = queued - 1
  /\ \/ dirLock' = "loader" /\ lpc' = "map"
     \/ queued > 1 /\ UNCHANGED <<dirLock, lpc>>
  /\ UNCHANGED <<loadRest, upc, mIsLoading, wanted, loads, hidden, mMap>>

\* CloseProject again, where the writer waits for every reader.
CloseProject ==
  /\ lpc = "map" /\ ~mapRead /\ mMap' = ~mMap /\ lpc' = "fill" /\ mIsLoading' = TRUE
  /\ UNCHANGED <<loadRest, dirLock, upc, wanted, loads, hidden, queued>>

\* Another loader has been launched: this one throws, and leaves mIsLoading.
GiveUp ==
  /\ lpc = "fill" /\ queued > 0 /\ lpc' = "none" /\ dirLock' = ""
  /\ UNCHANGED <<loadRest, upc, mIsLoading, wanted, loads, hidden, queued, mMap>>

\* The map is filled without mMapLock.
FillMap ==
  /\ lpc = "fill" /\ mMap' = ~mMap /\ lpc' = "work"
  /\ UNCHANGED <<loadRest, dirLock, upc, mIsLoading, wanted, loads, hidden, queued>>

\* mIsLoading is taken back, whatever load has been announced or launched since.
EndLoad ==
  /\ lpc = "work" /\ lpc' = "none" /\ dirLock' = "" /\ mIsLoading' = FALSE
  /\ hidden' = (hidden \/ wanted \/ upc = "launch" \/ queued > 0)
  /\ UNCHANGED <<loadRest, upc, wanted, loads, queued, mMap>>

-----------------------------------------------------------------------------
Search ==
  \/ Start \/ CheckBusy \/ ReadMap \/ NextProject \/ LockPair \/ EnterProject \/ LockAll
  \/ EndFiles \/ FlushProject \/ CloseMap \/ EndCancel \/ PostSearch \/ EndRun
SearchFiles == \E f \in Files : ClaimFile(f) \/ SearchedFile(f) \/ FlushFileRefs(f)
UiThread == TakeList \/ RunItem \/ EndList \/ EndWait \/ ClearMap
User == OnCancel \/ ClearThread \/ DeleteSpentFindReferencesThreads \/ SearchThrows
Loader == LoadProject \/ CloseProject \/ GiveUp \/ FillMap \/ EndLoad

Next ==
  \/ Search \/ SearchFiles \/ UiThread \/ User
  \/ SolutionLoadStarting \/ SolutionReload \/ LaunchProjectLoaderThread \/ Loader

Spec == Init /\ [][Next]_vars

\* The threads run, the UI thread comes back to its messages, and whoever waits
\* for DatabaseDirectoryLock, a critical section, gets it.
Fairness ==
  /\ WF_vars(Search) /\ WF_vars(SearchFiles) /\ WF_vars(UiThread) /\ WF_vars(Loader)
  /\ SF_vars(LockPair \/ LockAll)
FairSpec == Spec /\ Fairness

-----------------------------------------------------------------------------
(* Properties *)

\* The tree shows every reference under the project it was found in, although the
\* items that show them do not name it and the search is ahead of the tree: except
\* those that a flush left, because the UI thread was in a list of items.
ShownUnderOwnProject ==
  \A s \in shown : s.ref \in left \/ s.node = refVect[s.ref].project

\* WM_FIND_COMPLETE tells of a tree that is complete: every reference has been
\* shown, unless the user stopped the search or a flush left it.  (A search of one
\* file sends it without a flush before.)
AllShownWhenComplete ==
  complete /\ scope # "file" /\ ~observer.canceled =>
    \A i \in 1..Len(refVect) : i \in left \/ \E s \in shown : s.ref = i

\* No item waits for an observer that was deleted with its thread, which would use
\* it, but what a flush left.  (That too takes the flush that a search of one file
\* does without.)
NoItemForDeletedObserver ==
  thread = "deleted" /\ scope # "file" => Waiting \subseteq left

\* A file is searched once, whatever projects, pairs and threads come upon it.
SearchedOnce ==
  behavior = "sfOnce" =>
    \A i, j \in 1..Len(refVect) : refVect[i].file = refVect[j].file => i = j

\* No load changes the project map while a search walks it: neither the loader,
\* which would wait for the search and make it wait for the directory lock, and
\* fills the map without a lock, nor the UI thread, which RWLock would let through.
\* Loads that mIsLoading does not show are another matter.
MapStaysWhileSearched == [][mapRead /\ ~hidden => mMap' = mMap]_vars

\* The search comes to an end, whatever loads were announced, launched and stopped
\* beside it; with one that is hidden it may wait for the loader that waits for it.
SearchEnds == []~hidden => <>(spc = "done")

\* FindReferencesThread.h:43, of sfPerProject: "a shared file will be listed under
\* every project that it is a part of", when the search of a solution has been
\* neither rejected nor stopped.  The code does not: the list of searched files
\* stays between the active projects, so that a file of two of them is listed
\* under the first.
ListedUnderEveryProject ==
  complete /\ ~observer.canceled /\ refVect # <<>>
    /\ behavior = "sfPerProject" /\ scope = "solution" =>
      \A p \in Projects : \A f \in layout.files[p] :
        \E i \in 1..Len(refVect) : refVect[i] = [project |-> p, file |-> f]

=============================================================================
