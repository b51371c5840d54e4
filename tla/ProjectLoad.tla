---------------------------- MODULE ProjectLoad ----------------------------
(***************************************************************************)
(* How a solution is loaded (Project.cpp, ProjectLoader.h).  The UI thread *)
(* decides whether there is anything new, stops the loader that is still   *)
(* at work, reads the list of projects and starts another loader.  A       *)
(* loader is a pooled thread with a reference count, registered in g_pl;   *)
(* it works under DatabaseDirectoryLock, asks the UI thread for part of    *)
(* its data, and gives up when another load is pending or the list is no   *)
(* longer the one it was started for.                                      *)
(*                                                                         *)
(* ui is what the UI thread is at: the decision goes through several locks *)
(* and may end in a wait for the loader.                                   *)
(***************************************************************************)
EXTENDS SolutionQuery, FiniteSets

CONSTANTS
  MaxLoads,      \* bound on the loaders
  MaxEvents      \* bound on the IDE's notifications and commands, and on what is
                 \* out of the ordinary: Stop gives up after ten seconds, a
                 \* refactoring is in the way

ASSUME LoadAssumption == MaxLoads \in Nat /\ MaxEvents \in Nat

VARIABLES
  mIsLoading, mCleanLoad, StopIt,  \* the flags that the steps here read
  sPendingLoads,
  mRawProjectList, mProjectHash,   \* what was read, and that of the last launch
  loaded,          \* what the project map was filled from
  launched,        \* the number of loaders
  lpc, content, refs,  \* of each loader: its place, what it loads, its references
  g_pl,
  dirLock,         \* the loader that owns DatabaseDirectoryLock
  ui,
  posted,          \* SolutionLoadCompleted(true, true) handed to the UI thread
  retryWork,       \* RetrySolutionLoad in the parser thread's queue
  retryTimer,      \* IDT_SolutionReloadRetry
  events           \* how many there were of what MaxEvents bounds

listVars == <<mRawProjectList, mProjectHash, loaded>>
loaderVars == <<launched, lpc, content, refs, g_pl, dirLock, sPendingLoads>>
workVars == <<posted, retryWork, retryTimer>>
loadVars == <<mIsLoading, mCleanLoad, StopIt, listVars, loaderVars, ui, workVars>>

Loaders == 1..MaxLoads
\* What GetSolutionInfo reads: the solution, how many of its projects are
\* deferred, and what the query knows of those.
Contents == [file : Solutions \cup {NoSolution}, count : 0..MaxDeferred, info : Infos]
Empty == [file |-> NoSolution, count |-> 0, info |-> NoInfo]
\* The list of projects made of it: a folder stands for all its files.
List(c) == IF c.file \in Folders THEN [c EXCEPT !.info = NoInfo] ELSE c

UiStates == {"idle", "ask", "indexed", "compare", "tidy", "launch", "stop"}
UiAt(pc, why, pl) == [pc |-> pc, why |-> why, pl |-> pl]
Idle == UiAt("idle", "", 0)

LoadTypeOK ==
  /\ mIsLoading \in BOOLEAN /\ mCleanLoad \in BOOLEAN /\ StopIt \in BOOLEAN
  /\ sPendingLoads \in 0..MaxLoads
  /\ mRawProjectList \in Contents /\ mProjectHash \in Contents /\ loaded \in Contents
  /\ launched \in 0..MaxLoads
  /\ lpc \in [Loaders -> {"none", "queued", "lock", "gather", "call", "check",
                          "commit", "symbols", "over", "ended"}]
  /\ content \in [Loaders -> Contents]
  /\ refs \in [Loaders -> 0..3]
  /\ g_pl \in 0..launched /\ dirLock \in 0..launched
  /\ ui \in [pc : UiStates, pl : 0..launched,
             why : {"", "completed", "check", "ping", "force", "notice"}]
  /\ posted \in Nat /\ retryWork \in Nat /\ retryTimer \in BOOLEAN
  /\ events \in 0..MaxEvents

\* SolutionListener's constructor calls SolutionLoadStarting.
LoadInit ==
  /\ mIsLoading = TRUE /\ mCleanLoad = TRUE /\ StopIt = FALSE /\ sPendingLoads = 0
  /\ mRawProjectList = Empty /\ mProjectHash = Empty /\ loaded = Empty
  /\ launched = 0 /\ g_pl = 0 /\ dirLock = 0
  /\ lpc = [l \in Loaders |-> "none"]
  /\ content = [l \in Loaders |-> Empty]
  /\ refs = [l \in Loaders |-> 0]
  /\ ui = Idle
  /\ posted = 0 /\ retryWork = 0 /\ retryTimer = FALSE
  /\ events = 0

Event == events < MaxEvents /\ events' = events + 1

-----------------------------------------------------------------------------
(* Notifications, called on the UI thread and by collectors *)

SolutionLoadStarting == mIsLoading' = TRUE

SolutionClosing == StopIt' = TRUE /\ SolutionLoadStarting

UsesQuery == deferred # 0 \/ IsInOpenFolderMode

\* SolutionLoadCompleted(forceLoad, forceSync) up to its first call, and the
\* first half of CheckForNewSolution.
SolutionLoadCompleted(force, sync) ==
  \/ /\ force /\ sync
     /\ ui' = UiAt("launch", "", 0) /\ UNCHANGED gSqi
  \/ /\ force /\ ~sync
     /\ IF UsesQuery /\ WantsRequest(TRUE)
          THEN ui' = UiAt("ask", "completed", 0) /\ UNCHANGED gSqi
          ELSE ui' = UiAt("launch", "", 0) /\ Reset
  \/ /\ ~force
     /\ IF ideSolution = NoSolution THEN ui' = UiAt("launch", "", 0) /\ Reset
        ELSE IF ~(g_vaManagedPackageSvc /\ UsesQuery)
          THEN ui' = UiAt("compare", "", 0) /\ Reset
          ELSE /\ UNCHANGED gSqi
               /\ ui' = IF IsSolutionInfoCacheValid THEN UiAt("compare", "", 0)
                        ELSE UiAt("ask", "check", 0)

-----------------------------------------------------------------------------
(* The rest of it, step by step *)

UiAction(pc) == ui.pc = pc /\ UNCHANGED ideVars

\* The request is made; who asked goes on from there.  Without the package
\* SolutionLoadCompleted takes it back, and loads at once.
AskQuery ==
  /\ UiAction("ask")
  /\ RequestAsyncWorkspaceCollection(ui.why \in {"completed", "check", "force"},
                                     ui.why = "completed")
  /\ ui' = CASE ui.why = "completed" /\ ~g_vaManagedPackageSvc -> UiAt("launch", "", 0)
             [] ui.why = "check" -> UiAt(IF mCleanLoad THEN "tidy" ELSE "launch", "", 0)
             [] ui.why = "notice" -> UiAt("indexed", "", 0)
             [] OTHER -> Idle
  /\ UNCHANGED <<mIsLoading, mCleanLoad, StopIt, listVars, loaderVars, workVars, events>>

\* The second half of OnWorkspacePropertyChanged.
NoteIndexerFinished ==
  /\ UiAction("indexed")
  /\ VsWorkspaceIndexerFinished
  /\ ui' = Idle
  /\ UNCHANGED <<requests, collectorVars, forceTimer>>
  /\ UNCHANGED <<mIsLoading, mCleanLoad, StopIt, listVars, loaderVars, workVars, events>>

Known(used) == IF used /\ gSqi.file = ideSolution THEN gSqi.info ELSE NoInfo
CurrentContent(used) ==
  IF ideSolution = NoSolution THEN Empty
  ELSE [file |-> ideSolution, count |-> deferred, info |-> Known(used)]

\* The second half of CheckForNewSolution.
CompareProjects ==
  /\ UiAction("compare")
  /\ ui' = IF /\ List(CurrentContent(deferred # 0)) = List(mRawProjectList)
              /\ mCleanLoad
             THEN UiAt("tidy", "", 0) ELSE UiAt("launch", "", 0)
  /\ UNCHANGED queryVars
  /\ UNCHANGED <<mIsLoading, mCleanLoad, StopIt, listVars, loaderVars, workVars, events>>

\* There is nothing to load: what SolutionLoadStarting did is undone unless a
\* loader is at work, which will do it.
MayTidy == ~mIsLoading \/ g_pl = 0
UndoStarting ==
  /\ UiAction("tidy")
  /\ IF MayTidy
       THEN mIsLoading' = FALSE /\ StopIt' = FALSE
       ELSE UNCHANGED <<mIsLoading, StopIt>>
  /\ ui' = Idle
  /\ UNCHANGED queryVars
  /\ UNCHANGED <<mCleanLoad, listVars, loaderVars, workVars, events>>

-----------------------------------------------------------------------------
(* LaunchProjectLoaderThread *)

RejectLaunch ==
  /\ UiAction("launch")
  /\ Event
  /\ retryTimer' = TRUE
  /\ ui' = Idle
  /\ UNCHANGED queryVars
  /\ UNCHANGED <<mIsLoading, mCleanLoad, StopIt, listVars, loaderVars, posted, retryWork>>

GetGlobalRef_noRef(l) == refs
GetGlobalRef(l) == IF l = 0 THEN refs ELSE [refs EXCEPT ![l] = @ + 1]

\* CloseProject on the UI thread takes a reference to the loader and stops it.
StopLoader ==
  /\ UiAction("launch")
  /\ launched < MaxLoads
  /\ ui' = UiAt("stop", "", g_pl)
  /\ refs' = GetGlobalRef(g_pl)
  /\ StopIt' = (StopIt \/ g_pl # 0)
  /\ UNCHANGED queryVars
  /\ UNCHANGED <<mIsLoading, mCleanLoad, listVars, launched, lpc, content, g_pl, dirLock,
                 sPendingLoads, workVars, events>>

\* The wait ends, or its ten seconds do; the project is closed, its new
\* contents are read, and a loader is made and started.
Gathering == {l \in Loaders : lpc[l] = "call"}
StartLoader ==
  /\ UiAction("stop")
  /\ IF ui.pl = 0 \/ lpc[ui.pl] = "ended" THEN UNCHANGED events
     ELSE Event
  /\ LET new == launched + 1
         read == IF Gathering = {} THEN CurrentContent(TRUE) ELSE Empty
     IN /\ launched' = new /\ g_pl' = new
        /\ refs' = [l \in Loaders |-> CASE l = new -> 2
                                        [] l = ui.pl -> refs[l] - 1
                                        [] OTHER -> refs[l]]
        /\ lpc' = [lpc EXCEPT ![new] = "queued"]
        /\ content' = [content EXCEPT ![new] = read]
        /\ mRawProjectList' = read /\ mProjectHash' = read
        /\ loaded' = Empty
        /\ retryWork' = retryWork + (IF Gathering = {} THEN 0 ELSE 1)
  /\ mIsLoading' = TRUE
  /\ ui' = Idle
  /\ UNCHANGED queryVars
  /\ UNCHANGED <<mCleanLoad, StopIt, dirLock, sPendingLoads, posted, retryTimer>>

-----------------------------------------------------------------------------
(* ProjectLoader::Run and LoadProject *)

LoaderAction(l, pc, to) ==
  /\ lpc[l] = pc
  /\ lpc' = [lpc EXCEPT ![l] = to]
  /\ content' = IF to = "ended" THEN [content EXCEPT ![l] = Empty] ELSE content
  /\ UNCHANGED <<ideVars, queryVars, mRawProjectList, mProjectHash, launched, ui, posted,
                 retryWork>>

EnterLoad(l) ==
  /\ LoaderAction(l, "queued", "lock")
  /\ sPendingLoads' = sPendingLoads + 1
  /\ StopIt' = TRUE
  /\ UNCHANGED <<mIsLoading, mCleanLoad, loaded, refs, g_pl, dirLock, retryTimer, events>>

\* With the lock, a load gives up when another one is pending; otherwise it
\* closes the project and starts.
OtherPending == sPendingLoads > 1
BeginLoad(l) ==
  /\ dirLock = 0
  /\ sPendingLoads' = sPendingLoads - 1
  /\ \/ /\ OtherPending
        /\ LoaderAction(l, "lock", "over")
        /\ mCleanLoad' = FALSE
        /\ UNCHANGED <<dirLock, loaded, StopIt, mIsLoading>>
     \/ /\ ~OtherPending
        /\ LoaderAction(l, "lock", "gather")
        /\ dirLock' = l
        /\ loaded' = Empty
        /\ mCleanLoad' = TRUE /\ StopIt' = FALSE
        /\ mIsLoading' = TRUE
  /\ UNCHANGED <<refs, g_pl, retryTimer, events>>

loaderRest ==
  <<mIsLoading, StopIt, refs, g_pl, sPendingLoads>>

\* FinishGetSolutionInfo: some of it is asked of the UI thread, unless the load
\* is stopped.  DatabaseDirectoryLock keeps two loaders from gathering at once.
FinishGetSolutionInfo(l) ==
  /\ \/ StopIt /\ LoaderAction(l, "gather", "check")
     \/ ~StopIt /\ LoaderAction(l, "gather", "call")
     \/ ui.pc = "idle" /\ LoaderAction(l, "call", "check")
  /\ UNCHANGED <<loaderRest, mCleanLoad, loaded, dirLock, retryTimer, events>>

Unlock(l) == IF dirLock = l THEN 0 ELSE dirLock

HasNewList_never(l) == FALSE
HasNewList(l) == List(content[l]) # List(mProjectHash)
GivesUp(l) == sPendingLoads # 0 \/ HasNewList(l)

\* It ends with an exception; the flags stay as they are.
GiveUp(l) ==
  /\ GivesUp(l)
  /\ LoaderAction(l, "check", "over")
  /\ mCleanLoad' = FALSE
  /\ retryTimer' = (retryTimer \/ (/\ sPendingLoads = 0
                                   /\ List(mProjectHash) # Empty /\ ~mIsLoading))
  /\ dirLock' = Unlock(l)
  /\ UNCHANGED <<loaderRest, loaded, events>>

GoOn(l) ==
  /\ ~GivesUp(l)
  /\ LoaderAction(l, "check", "commit")
  /\ UNCHANGED <<loaderRest, mCleanLoad, loaded, dirLock, retryTimer, events>>

FillProjectMap(l) ==
  /\ LoaderAction(l, "commit", "symbols")
  /\ loaded' = content[l]
  /\ UNCHANGED <<mIsLoading, mCleanLoad, StopIt, refs, g_pl, dirLock,
                 sPendingLoads, retryTimer, events>>

\* The symbols are loaded; what StopIt cut short is known not to be complete.
CleanAfter == mCleanLoad /\ ~StopIt
EndLoad(l) ==
  /\ LoaderAction(l, "symbols", "over")
  /\ mCleanLoad' = CleanAfter
  /\ mIsLoading' = FALSE
  /\ dirLock' = Unlock(l)
  /\ UNCHANGED <<StopIt, loaded, refs, g_pl, sPendingLoads, retryTimer, events>>

ClearGlobalIfThis(l) == g_pl' = IF g_pl = l THEN 0 ELSE g_pl

\* The end of Run and of its thread, which give up a reference each; once g_pl is
\* cleared a new one can no longer be had.
EndRun(l) ==
  /\ LoaderAction(l, "over", "ended")
  /\ ClearGlobalIfThis(l)
  /\ refs' = [refs EXCEPT ![l] = @ - 2]
  /\ UNCHANGED <<mIsLoading, mCleanLoad, StopIt, loaded, dirLock, sPendingLoads,
                 retryTimer, events>>

-----------------------------------------------------------------------------
(* Collectors, and what the UI thread does later *)

\* A collector has committed an answer and starts a load, on its own thread,
\* which the UI thread is to complete.
StartCollectedLoad(r) ==
  /\ collector[r] = "start"
  /\ collector' = [collector EXCEPT ![r] = "tail"]
  /\ SolutionLoadStarting
  /\ posted' = posted + 1
  /\ UNCHANGED <<ideVars, gSqi, requests, forced, answer, pingTimer, forceTimer>>
  /\ UNCHANGED <<mCleanLoad, StopIt, listVars, loaderVars, ui, retryWork, retryTimer,
                 events>>

UiEvent == ui.pc = "idle" /\ UNCHANGED <<ideVars, events>>
eventRest == <<mIsLoading, mCleanLoad, StopIt, listVars, loaderVars>>

RunPostedCompleted ==
  /\ UiEvent /\ posted > 0 /\ posted' = posted - 1
  /\ SolutionLoadCompleted(TRUE, TRUE)
  /\ UNCHANGED <<requests, collectorVars, pingTimer, forceTimer, eventRest, retryWork,
                 retryTimer>>

RetrySolutionLoad ==
  /\ UiEvent /\ retryWork > 0 /\ retryWork' = retryWork - 1
  /\ SolutionLoadCompleted(FALSE, FALSE)
  /\ UNCHANGED <<requests, collectorVars, pingTimer, forceTimer, eventRest, posted,
                 retryTimer>>

ReloadRetryTimer ==
  /\ UiEvent /\ retryTimer /\ retryTimer' = FALSE
  /\ ui' = UiAt("launch", "", 0)
  /\ UNCHANGED <<queryVars, eventRest, posted, retryWork>>

IndexerPingTimer ==
  /\ UiEvent /\ pingTimer /\ g_vaManagedPackageSvc
  /\ pingTimer' = FALSE
  /\ ui' = IF WantsRequest(FALSE) THEN UiAt("ask", "ping", 0) ELSE Idle
  /\ UNCHANGED <<gSqi, requests, collectorVars, forceTimer, eventRest, workVars>>

ForceRequestTimer ==
  /\ UiEvent /\ forceTimer /\ g_vaManagedPackageSvc
  /\ pingTimer' = FALSE /\ forceTimer' = FALSE
  /\ ui' = IF WantsRequest(TRUE) THEN UiAt("ask", "force", 0) ELSE Idle
  /\ UNCHANGED <<gSqi, requests, collectorVars, eventRest, workVars>>

-----------------------------------------------------------------------------
(* Properties *)

LoaderGone(l) == lpc[l] \in {"none", "ended"}

\* A loader that is registered in g_pl has not ended, the count of each is what
\* its thread and the UI thread, which waits for it, hold, so that ProjectLoaderRef
\* never gets an object that is going away; and the loader that the UI thread did
\* not stop is not in g_pl when another is made (the assertion of the constructor).
RegisteredLoaderLives ==
  /\ g_pl # 0 => ~LoaderGone(g_pl)
  /\ ui.pc = "stop" => g_pl \in {0, ui.pl}
  /\ \A l \in Loaders :
       refs[l] = (IF LoaderGone(l) THEN 0 ELSE 2) + (IF ui.pl = l THEN 1 ELSE 0)

\* When every loader has ended, the project holds what the last launch read, or
\* mCleanLoad is FALSE, so that the next CheckForNewSolution loads it again: an
\* interrupted load, or one that another has overtaken, is not taken for complete.
LoadedOrKnownDirty ==
  (\A l \in Loaders : LoaderGone(l)) /\ mCleanLoad
    => List(loaded) = List(mProjectHash)

=============================================================================
