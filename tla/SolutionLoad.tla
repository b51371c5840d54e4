---------------------------- MODULE SolutionLoad ----------------------------
(***************************************************************************)
(* SolutionListener.cpp: from the IDE's notifications about solutions and  *)
(* projects it concludes when a solution has been loaded.  There is no     *)
(* reliable notification for that, so the listener goes through states     *)
(* and waits for timers.  This module composes it with ProjectLoad, which  *)
(* it calls, and with an IDE that sends the notifications in the orders    *)
(* given at the end of that file.  All of it happens on the UI thread.     *)
(***************************************************************************)
EXTENDS ProjectLoad

CONSTANT StartsWhile   \* where the IDE may be when the listener is made

ASSUME StartAssumption == StartsWhile \subseteq {"closed", "opening", "open"}

VARIABLES
  sl,      \* mLoadState, mPreviousLoadState, the timers that run, mRefCount
  ide      \* where the IDE is between its notifications

vars == <<ideVars, queryVars, loadVars, sl, ide, events>>

\* The timers are named for the handlers they call.
Timers == {"CompleteReload", "StartOfBackgroundLoad", "LoadStart"}
LoadStates == {"Loading", "WaitingForBackgroundLoadToStart", "BackgroundLoading",
               "LoadComplete", "Reloading", "Closing", "Closed"}
IdeStates == {"closed", "opening", "open", "background", "closing", "folder"}

TypeOK ==
  /\ QueryTypeOK /\ LoadTypeOK
  /\ sl \in [state : LoadStates, prev : LoadStates, timers : SUBSET Timers, refs : Nat]
  /\ ide \in IdeStates

-----------------------------------------------------------------------------
(* Steps of the listener's handlers, as functions of its state *)

To(s, state) == [s EXCEPT !.prev = s.state, !.state = state]
Kill(s, ts) ==
  [s EXCEPT !.timers = @ \ ts, !.refs = @ - Cardinality(s.timers \cap ts)]
TerminateAllTimers_keepReload(s) == Kill(s, Timers \ {"CompleteReload"})
TerminateAllTimers(s) == Kill(s, Timers)
SetTimer(s, t) == [s EXCEPT !.timers = @ \cup {t}, !.refs = @ + 1]
Fired(s, t) == Kill(s, {t})

SetWaitingToCompleteReloadTimer(s) ==
  SetTimer(IF s.state = "Reloading" THEN s ELSE To(s, "Reloading"), "CompleteReload")

BeforeOpenSolution(s) == To(TerminateAllTimers(s), "Loading")
Reload(s) == SetWaitingToCompleteReloadTimer(BeforeOpenSolution(s))
StartsLoad(s) == s.state \in {"Closed", "LoadComplete"}
AfterOpenSolution(s) ==
  LET cleared == TerminateAllTimers(s)
      opened == IF StartsLoad(s) THEN BeforeOpenSolution(cleared) ELSE cleared
  IN SetTimer(To(opened, "WaitingForBackgroundLoadToStart"), "StartOfBackgroundLoad")
AfterCloseSolution(s) == SetTimer(To(TerminateAllTimers(s), "Closed"), "LoadStart")
LoadComplete(s) == To(TerminateAllTimers(s), "LoadComplete")

-----------------------------------------------------------------------------
(* How they change the project *)

Quietly == UNCHANGED <<queryVars, loadVars>>
Starting ==
  /\ SolutionLoadStarting
  /\ UNCHANGED <<queryVars, mCleanLoad, StopIt, listVars, loaderVars, ui, workVars>>
Completed(force) ==
  /\ SolutionLoadCompleted(force, FALSE)
  /\ UNCHANGED <<requests, collectorVars, pingTimer, forceTimer, mIsLoading, mCleanLoad,
                 StopIt, listVars, loaderVars, workVars>>
Closing ==
  /\ SolutionClosing
  /\ UNCHANGED <<queryVars, mCleanLoad, listVars, loaderVars, ui, workVars>>
StartingAndCompleted ==
  /\ SolutionLoadStarting
  /\ SolutionLoadCompleted(TRUE, FALSE)
  /\ UNCHANGED <<requests, collectorVars, pingTimer, forceTimer, mCleanLoad, StopIt,
                 listVars, loaderVars, workVars>>
StartingIf(b) == IF b THEN Starting ELSE Quietly

\* VS 2017 and later force the load after a reload that went through the wait
\* for a background load.
ForceLoad ==
  \/ sl.state = "Reloading"
  \/ sl.prev = "Reloading" /\ sl.state = "WaitingForBackgroundLoadToStart"

-----------------------------------------------------------------------------
(* Notifications of the IDE *)

Notice == ui.pc = "idle" /\ Event
SameIde == UNCHANGED <<ideSolution, deferred, g_vaManagedPackageSvc>>
Opened(s) ==
  /\ ideSolution' = s
  /\ deferred' \in (IF s \in Folders THEN {0} ELSE 0..MaxDeferred)
  /\ UNCHANGED g_vaManagedPackageSvc

OnBeforeOpenSolution(s) ==
  /\ Notice /\ ide = "closed" /\ ide' = "opening" /\ Opened(s)
  /\ sl' = BeforeOpenSolution(sl)
  /\ Starting

OnAfterOpenSolution ==
  /\ Notice /\ ide = "opening" /\ ide' = "open" /\ SameIde
  /\ sl' = AfterOpenSolution(sl)
  /\ StartingIf(StartsLoad(sl))

\* A file is opened when there is no solution.
OpenFileWithoutSolution(s) ==
  /\ Notice /\ ide = "closed" /\ sl.state # "WaitingForBackgroundLoadToStart"
  /\ ide' = "open" /\ Opened(s)
  /\ sl' = AfterOpenSolution(sl)
  /\ StartingIf(StartsLoad(sl))

OnBeforeBackgroundSolutionLoadBegins ==
  /\ Notice /\ ide = "open" /\ ide' = "background" /\ SameIde
  /\ sl' = To(TerminateAllTimers(sl), "BackgroundLoading")
  /\ Quietly

OnAfterBackgroundSolutionLoadComplete ==
  /\ Notice /\ ide = "background" /\ ide' = "open" /\ SameIde
  /\ sl' = LoadComplete(sl)
  /\ Completed(ForceLoad)

OnAfterLoadProject ==
  /\ Notice /\ ide \in {"opening", "open", "background"}
  /\ ide' = "background" /\ SameIde
  /\ LET s == Kill(sl, {"LoadStart", "StartOfBackgroundLoad"})
     IN sl' = IF s.state = "WaitingForBackgroundLoadToStart" THEN To(s, "Loading") ELSE s
  /\ Quietly

\* A project was added or loaded again, perhaps a deferred one.
OnAfterOpenProject ==
  /\ Notice /\ ide # "closed" /\ ideSolution \notin Folders
  /\ deferred' \in {deferred, IF deferred = 0 THEN 0 ELSE deferred - 1}
  /\ UNCHANGED <<ideSolution, g_vaManagedPackageSvc>>
  /\ ide' = IF ide = "closing" THEN "open" ELSE ide
  /\ sl' = CASE sl.state = "WaitingForBackgroundLoadToStart" -> AfterOpenSolution(sl)
             [] sl.state = "Closing" -> Reload(AfterCloseSolution(sl))
             [] sl.state = "Loading" -> TerminateAllTimers(sl)
             [] sl.state \in {"BackgroundLoading", "Reloading"} ->
                  SetWaitingToCompleteReloadTimer(TerminateAllTimers(sl))
             [] sl.state = "LoadComplete" -> Reload(sl)
             [] sl.state = "Closed" -> AfterOpenSolution(BeforeOpenSolution(sl))
  /\ StartingIf(sl.state \in {"Closing", "LoadComplete", "Closed"})

OnBeforeUnloadProject ==
  /\ Notice /\ ide = "open" /\ UNCHANGED ide /\ SameIde
  /\ sl' = Reload(sl)
  /\ Starting

OnAfterActiveSolutionCfgChange ==
  /\ Notice /\ ide = "open" /\ UNCHANGED ide /\ SameIde
  /\ sl.state = "LoadComplete"
  /\ sl' = SetWaitingToCompleteReloadTimer(To(BeforeOpenSolution(sl), "Reloading"))
  /\ Starting

OnBeforeCloseSolution ==
  /\ Notice /\ ide = "open" /\ ideSolution \notin Folders
  /\ ide' = "closing" /\ SameIde
  /\ sl' = To(TerminateAllTimers(sl), "Closing")
  /\ Closing

\* Of a folder there is only the last of the notifications.
OnAfterCloseSolution ==
  /\ Notice
  /\ ide = "closing" \/ (ide = "open" /\ ideSolution \in Folders)
  /\ ide' = "closed" /\ ideSolution' = NoSolution /\ deferred' = 0
  /\ UNCHANGED g_vaManagedPackageSvc
  /\ sl' = AfterCloseSolution(sl)
  /\ Quietly

OpenFolder(s) ==
  /\ ui.pc = "idle" /\ events < MaxEvents /\ UNCHANGED <<sl, events>>
  /\ ide = "closed" /\ ide' = "folder" /\ Opened(s)
  /\ Quietly

OnAfterOpenFolder ==
  /\ Notice /\ ide = "folder" /\ ide' = "open" /\ SameIde
  /\ sl' = LoadComplete(BeforeOpenSolution(sl))
  /\ StartingAndCompleted

-----------------------------------------------------------------------------
(* Timers of the listener *)

TimerEvent(t) == ui.pc = "idle" /\ t \in sl.timers /\ SameIde /\ UNCHANGED <<ide, events>>

\* While a modal prompt is up the timer is only set again.
WaitingToCompleteReloadTimerFired ==
  /\ TimerEvent("CompleteReload")
  /\ LET s == Fired(sl, "CompleteReload")
     IN IF s.state = "Reloading" THEN sl' = LoadComplete(s) /\ Completed(ForceLoad)
        ELSE sl' = s /\ Quietly

WaitingForStartOfBackgroundLoadTimerFired ==
  /\ TimerEvent("StartOfBackgroundLoad")
  /\ LET s == Fired(sl, "StartOfBackgroundLoad")
     IN IF s.state = "WaitingForBackgroundLoadToStart"
          THEN sl' = LoadComplete(s) /\ Completed(ForceLoad)
        ELSE sl' = s /\ Quietly

WaitingForLoadStartTimerFired ==
  /\ TimerEvent("LoadStart")
  /\ sl' = Fired(sl, "LoadStart")
  /\ IF sl.state = "Closed" THEN Completed(FALSE) ELSE Quietly

-----------------------------------------------------------------------------
(* Other events *)

\* icmdVaCmd_ReloadSolution
ReloadSolution ==
  /\ Notice /\ UNCHANGED <<ide, sl>> /\ SameIde
  /\ StartingAndCompleted

\* OnWorkspacePropertyChanged: the state of the workspace indexer.
OnWorkspacePropertyChanged ==
  /\ Notice /\ UNCHANGED <<ide, sl>> /\ SameIde
  /\ UNCHANGED <<requests, collectorVars, forceTimer, eventRest, workVars>>
  /\ \/ /\ VsWorkspaceIndexerFinishedBeforeLoad
        /\ UNCHANGED ui
     \/ /\ ui' = IF WantsRequest(FALSE) THEN UiAt("ask", "ping", 0) ELSE Idle
        /\ UNCHANGED <<gSqi, pingTimer>>
     \/ /\ ui' = IF WantsRequest(FALSE) THEN UiAt("ask", "notice", 0)
                ELSE UiAt("indexed", "", 0)
        /\ UNCHANGED <<gSqi, pingTimer>>

LoadManagedPackage ==
  /\ ~g_vaManagedPackageSvc /\ g_vaManagedPackageSvc' = TRUE
  /\ UNCHANGED <<ideSolution, deferred, queryVars, loadVars, sl, ide, events>>

-----------------------------------------------------------------------------
Init ==
  /\ QueryInit /\ LoadInit
  /\ sl = [state |-> "WaitingForBackgroundLoadToStart", prev |-> "Loading",
           timers |-> {"StartOfBackgroundLoad"}, refs |-> 2]
  /\ ide \in StartsWhile
  /\ \/ ide = "closed" /\ ideSolution = NoSolution /\ deferred = 0
     \/ /\ ide # "closed" /\ ideSolution \in Solutions \ Folders
        /\ deferred \in 0..MaxDeferred

Notification ==
  \/ \E s \in Solutions \ Folders : OnBeforeOpenSolution(s) \/ OpenFileWithoutSolution(s)
  \/ \E s \in Folders : OpenFolder(s)
  \/ OnAfterOpenSolution \/ OnAfterOpenFolder
  \/ OnBeforeBackgroundSolutionLoadBegins \/ OnAfterBackgroundSolutionLoadComplete
  \/ OnAfterLoadProject \/ OnAfterOpenProject \/ OnBeforeUnloadProject
  \/ OnAfterActiveSolutionCfgChange \/ OnBeforeCloseSolution \/ OnAfterCloseSolution
  \/ ReloadSolution \/ OnWorkspacePropertyChanged \/ LoadManagedPackage

TimerFired ==
  \/ WaitingToCompleteReloadTimerFired \/ WaitingForStartOfBackgroundLoadTimerFired
  \/ WaitingForLoadStartTimerFired

UiThread ==
  \/ AskQuery \/ NoteIndexerFinished \/ CompareProjects \/ UndoStarting
  \/ RejectLaunch \/ StopLoader \/ StartLoader
  \/ RunPostedCompleted \/ RetrySolutionLoad \/ ReloadRetryTimer
  \/ IndexerPingTimer \/ ForceRequestTimer

Collector(r) ==
  \/ AsyncWorkspaceCollectionComplete(r) /\ UNCHANGED <<loadVars, events>>
  \/ DropAnswer(r) /\ UNCHANGED <<loadVars, events>>
  \/ CommitAnswer(r) /\ UNCHANGED <<loadVars, events>>
  \/ StartCollectedLoad(r)
  \/ StartPing(r) /\ UNCHANGED <<loadVars, events>>

Loader(l) ==
  \/ EnterLoad(l) \/ BeginLoad(l) \/ FinishGetSolutionInfo(l)
  \/ GiveUp(l) \/ GoOn(l) \/ FillProjectMap(l) \/ EndLoad(l)
  \/ EndRun(l)

Next ==
  \/ Notification \/ TimerFired
  \/ /\ UiThread \/ (\E r \in 1..MaxRequests : Collector(r)) \/ (\E l \in Loaders : Loader(l))
     /\ UNCHANGED <<sl, ide>>

Spec == Init /\ [][Next]_vars

-----------------------------------------------------------------------------
(* Properties *)

\* The listener never waits in vain or twice: while it waits for a reload to end
\* or for a background load to start the timer for that runs, so that
\* SolutionLoadCompleted follows SolutionLoadStarting without the IDE's help, and
\* mRefCount counts one reference for each timer that runs.
WaitsHaveTimers ==
  /\ sl.state = "Reloading" => "CompleteReload" \in sl.timers
  /\ sl.state = "WaitingForBackgroundLoadToStart" => "StartOfBackgroundLoad" \in sl.timers
  /\ sl.refs = 1 + Cardinality(sl.timers)

=============================================================================
