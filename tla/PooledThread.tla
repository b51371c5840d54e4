---------------------------- MODULE PooledThread ----------------------------
(***************************************************************************)
(* class PooledThreadBase (PooledThreadBase.h, .cpp), the thread class of  *)
(* the program, and the ways its objects are used: who may delete one, and *)
(* when.  One object per member of Objs, with one client; KindOf says what *)
(* the client is:                                                          *)
(*   "detached"    new LambdaThread(..., true), never touched again        *)
(*   "shared"      VAParseThread::DoParse: AddRef, Wait a little, Release  *)
(*   "stack"       MultiParse: a local object, waited for                  *)
(*   "window"      ReferencesWndBase::ClearThread                          *)
(*   "highlighter" AutoReferenceHighlighter::ClearThread                   *)
(*   "loader"      SymbolListCombo, VABrowseSym, VAOpenFile: a member that *)
(*                 is started again and again                              *)
(***************************************************************************)
EXTENDS Integers, FiniteSets

CONSTANTS
  Objs, KindOf,
  MaxUsed,    \* bound on the objects that are started in one behaviour
  MaxRuns,    \* bound on the times a loader is started
  LongWaits,  \* a run may take longer than a loader's client waits for it
  QueueFails, \* objects for which QueueUserWorkItem may fail
  ProcFails   \* objects whose ThreadProc may end at its first catch

Kinds == {"detached", "shared", "stack", "window", "highlighter", "loader"}

ASSUME KindAssumption ==
  /\ IsFiniteSet(Objs) /\ KindOf \in [Objs -> Kinds]
  /\ MaxUsed \in Nat /\ MaxRuns \in Nat \ {0} /\ LongWaits \in BOOLEAN
  /\ QueueFails \subseteq Objs /\ ProcFails \subseteq Objs

VARIABLES
  alive,        \* the object has not been deleted
  mThreadState, mDoneEvent, mRefCnt,
  work,         \* how far each run of ThreadProc is
  started,      \* calls of StartThread
  client,       \* where the client is
  gActivePooledThreadCount,
  hasty,        \* history: the object was started before its last run had set the
                \* event, or deleted after a wait that timed out
  under         \* history: the states of the runs under which its owner deleted it

history == <<hasty, under>>
vars == <<alive, mThreadState, mDoneEvent, mRefCnt, work, started, client,
          gActivePooledThreadCount, history>>

Runs == 1..MaxRuns
mAutoDelete(o) == KindOf[o] \in {"detached", "shared"}

WorkStates == {"none", "queued", "running", "finished", "signalled", "leaving", "exited"}
ClientStates == {"new", "reset", "queue", "started", "notStarted", "awaitStart", "idle", "wait",
                 "waited", "timedOut", "release", "undeleted", "gone"}

TypeOK ==
  /\ alive \in [Objs -> BOOLEAN]
  /\ mThreadState \in [Objs -> {"Constructed", "Running", "Finished"}]
  /\ mDoneEvent \in [Objs -> BOOLEAN]
  /\ mRefCnt \in [Objs -> Nat]
  /\ work \in [Objs -> [Runs -> WorkStates]]
  /\ started \in [Objs -> 0..MaxRuns]
  /\ client \in [Objs -> ClientStates]
  /\ gActivePooledThreadCount \in Nat
  /\ hasty \in [Objs -> BOOLEAN] /\ under \in [Objs -> SUBSET WorkStates]

\* VAParseThread::DoParse has called AddRef before it starts the thread.
Init ==
  /\ alive = [o \in Objs |-> TRUE]
  /\ mThreadState = [o \in Objs |-> "Constructed"]
  /\ mDoneEvent = [o \in Objs |-> FALSE]
  /\ mRefCnt = [o \in Objs |-> IF KindOf[o] = "shared" THEN 1 ELSE 0]
  /\ work = [o \in Objs |-> [r \in Runs |-> "none"]]
  /\ started = [o \in Objs |-> 0]
  /\ client = [o \in Objs |-> "new"]
  /\ gActivePooledThreadCount = 0
  /\ hasty = [o \in Objs |-> FALSE] /\ under = [o \in Objs |-> {}]

HasStarted(o) == mThreadState[o] # "Constructed"
IsRunning(o) == mThreadState[o] = "Running"
IsFinished(o) == mThreadState[o] = "Finished"

Goto(o, state) == client' = [client EXCEPT ![o] = state]
Count(n) == gActivePooledThreadCount' = gActivePooledThreadCount + n
Delete(o) == alive' = [alive EXCEPT ![o] = FALSE]

Release(o) ==
  /\ mRefCnt' = [mRefCnt EXCEPT ![o] = @ - 1]
  /\ alive' = [alive EXCEPT ![o] = @ /\ mRefCnt'[o] > 0]

\* The states of the runs that have the state or the event still to set.
Unsignalled(o) == {work[o][r] : r \in Runs} \cap {"queued", "running", "finished"}

-----------------------------------------------------------------------------
(* StartThread.                                                            *)

\* "restarting, so no longer finished": the state first, the event next.
BeginStart(o) ==
  /\ started[o] < MaxRuns
  /\ started[o] = 0 => Cardinality({u \in Objs : started[u] > 0}) < MaxUsed
  /\ started' = [started EXCEPT ![o] = @ + 1] /\ Count(1)
  /\ IF IsFinished(o)
     THEN Goto(o, "reset") /\ mThreadState' = [mThreadState EXCEPT ![o] = "Constructed"]
     ELSE Goto(o, "queue") /\ UNCHANGED mThreadState
  /\ hasty' = [hasty EXCEPT ![o] = @ \/ Unsignalled(o) # {}]
  /\ UNCHANGED <<alive, mDoneEvent, mRefCnt, work, under>>

\* Mutant: the event of the run before stays set.
ResetDone_keepEvent(o) ==
  /\ client[o] = "reset" /\ Goto(o, "queue")
  /\ UNCHANGED <<alive, mThreadState, mDoneEvent, mRefCnt, work, started,
                 gActivePooledThreadCount, history>>

ResetDone(o) ==
  /\ client[o] = "reset" /\ Goto(o, "queue")
  /\ mDoneEvent' = [mDoneEvent EXCEPT ![o] = FALSE]
  /\ UNCHANGED <<alive, mThreadState, mRefCnt, work, started,
                 gActivePooledThreadCount, history>>

\* Mutant: StartThread leaves AddRef to the thread.
QueueRun_noAddRef(o) ==
  /\ client[o] = "queue" /\ Goto(o, "started")
  /\ work' = [work EXCEPT ![o][started[o]] = "queued"]
  /\ UNCHANGED <<alive, mThreadState, mDoneEvent, mRefCnt, started,
                 gActivePooledThreadCount, history>>

\* QueueUserWorkItem; the run has its own reference.
QueueRun(o) ==
  /\ client[o] = "queue" /\ Goto(o, "started")
  /\ work' = [work EXCEPT ![o][started[o]] = "queued"]
  /\ mRefCnt' = [mRefCnt EXCEPT ![o] = IF mAutoDelete(o) THEN @ + 1 ELSE @]
  /\ UNCHANGED <<alive, mThreadState, mDoneEvent, started,
                 gActivePooledThreadCount, history>>

\* Mutant: the failure path does not count down.
FailToQueue_count(o) ==
  /\ o \in QueueFails /\ client[o] = "queue" /\ Goto(o, "notStarted")
  /\ mDoneEvent' = [mDoneEvent EXCEPT ![o] = TRUE]
  /\ alive' = [alive EXCEPT ![o] = mAutoDelete(o) => mRefCnt[o] > 0]
  /\ UNCHANGED <<mThreadState, mRefCnt, work, started, gActivePooledThreadCount, history>>

\* "set the done event in case caller blocks on Wait"; AddRef and Release
\* balance, but an object without another reference is deleted.
FailToQueue(o) ==
  /\ o \in QueueFails /\ client[o] = "queue" /\ Goto(o, "notStarted")
  /\ mDoneEvent' = [mDoneEvent EXCEPT ![o] = TRUE]
  /\ alive' = [alive EXCEPT ![o] = mAutoDelete(o) => mRefCnt[o] > 0]
  /\ Count(-1)
  /\ UNCHANGED <<mThreadState, mRefCnt, work, started, history>>

StartThread(o) == ResetDone(o) \/ QueueRun(o) \/ FailToQueue(o)

-----------------------------------------------------------------------------
(* ThreadProc, on a thread of the pool.                                    *)

Advance(o, r, from, to) ==
  work[o][r] = from /\ work' = [work EXCEPT ![o][r] = to]

BeginRun(o, r) ==
  /\ Advance(o, r, "queued", "running")
  /\ mThreadState' = [mThreadState EXCEPT ![o] = "Running"]
  /\ UNCHANGED <<alive, mDoneEvent, mRefCnt, started, client,
                 gActivePooledThreadCount, history>>

EndRun(o, r) ==
  /\ Advance(o, r, "running", "finished")
  /\ mThreadState' = [mThreadState EXCEPT ![o] = "Finished"]
  /\ UNCHANGED <<alive, mDoneEvent, mRefCnt, started, client,
                 gActivePooledThreadCount, history>>

\* Mutant: the event is not set.
SignalDone_skip(o, r) ==
  /\ Advance(o, r, "finished", "signalled")
  /\ UNCHANGED <<alive, mThreadState, mDoneEvent, mRefCnt, started, client,
                 gActivePooledThreadCount, history>>

SignalDone(o, r) ==
  /\ Advance(o, r, "finished", "signalled")
  /\ mDoneEvent' = [mDoneEvent EXCEPT ![o] = TRUE]
  /\ UNCHANGED <<alive, mThreadState, mRefCnt, started, client,
                 gActivePooledThreadCount, history>>

\* Mutant: the run's reference is not given back.
ReleaseRun_keep(o, r) ==
  /\ Advance(o, r, "signalled", "leaving")
  /\ UNCHANGED <<alive, mRefCnt, mThreadState, mDoneEvent, started, client,
                 gActivePooledThreadCount, history>>

ReleaseRun(o, r) ==
  /\ Advance(o, r, "signalled", "leaving")
  /\ IF mAutoDelete(o) THEN Release(o) ELSE UNCHANGED <<alive, mRefCnt>>
  /\ UNCHANGED <<mThreadState, mDoneEvent, started, client,
                 gActivePooledThreadCount, history>>

ExitRun(o, r) ==
  /\ Advance(o, r, "leaving", "exited") /\ Count(-1)
  /\ UNCHANGED <<alive, mThreadState, mDoneEvent, mRefCnt, started, client, history>>

\* An exception before Run is caught: nobody is told.
FailProc(o, r) ==
  /\ o \in ProcFails
  /\ Advance(o, r, "queued", "exited") /\ Count(-1)
  /\ UNCHANGED <<alive, mThreadState, mDoneEvent, mRefCnt, started, client, history>>

ThreadProc(o, r) ==
  \/ BeginRun(o, r) \/ EndRun(o, r) \/ SignalDone(o, r) \/ ReleaseRun(o, r)
  \/ ExitRun(o, r)

-----------------------------------------------------------------------------
(* Wait.  mDoneEvent is an auto-reset event: one wait takes the signal.    *)

\* A signal of a thread that has not started is not the end of the wait.
TakeSignal(o) ==
  /\ client[o] = "wait" /\ mDoneEvent[o]
  /\ mDoneEvent' = [mDoneEvent EXCEPT ![o] = FALSE]
  /\ Goto(o, IF HasStarted(o) \/ KindOf[o] = "shared" THEN "waited" ELSE "wait")
  /\ UNCHANGED <<alive, mThreadState, mRefCnt, work, started,
                 gActivePooledThreadCount, history>>

TimeOut(o) ==
  /\ client[o] = "wait" /\ ~mDoneEvent[o] /\ Goto(o, "timedOut")
  /\ KindOf[o] = "loader" => LongWaits
  /\ UNCHANGED <<alive, mThreadState, mDoneEvent, mRefCnt, work, started,
                 gActivePooledThreadCount, history>>

-----------------------------------------------------------------------------
(* The clients.                                                            *)

Move(o, from, to) ==
  /\ client[o] \in from /\ Goto(o, to)
  /\ UNCHANGED <<alive, mThreadState, mDoneEvent, mRefCnt, work, started,
                 gActivePooledThreadCount, history>>

Destroy(o, from) ==
  /\ client[o] \in from /\ Goto(o, "gone") /\ Delete(o)
  /\ under' = [under EXCEPT ![o] = Unsignalled(o)]
  /\ hasty' = [hasty EXCEPT ![o] = @ \/ client[o] = "timedOut"]
  /\ UNCHANGED <<mThreadState, mDoneEvent, mRefCnt, work, started,
                 gActivePooledThreadCount>>

Detached(o) ==
  /\ KindOf[o] = "detached"
  /\ \/ client[o] = "new" /\ BeginStart(o)
     \/ Move(o, {"started", "notStarted"}, "gone")

\* Waits until it is done or the user does something, and before it leaves
\* makes sure that the thread has started.
Shared(o) ==
  /\ KindOf[o] = "shared"
  /\ \/ client[o] = "new" /\ BeginStart(o)
     \/ Move(o, {"started"}, "wait")
     \/ Move(o, {"timedOut"}, "wait")
     \/ Move(o, {"timedOut"}, "awaitStart") \/ Move(o, {"waited"}, "awaitStart")
     \/ HasStarted(o) /\ Move(o, {"awaitStart"}, "release")
     \/ Move(o, {"notStarted"}, "release")
     \/ /\ client[o] = "release" /\ Goto(o, "gone") /\ Release(o)
        /\ UNCHANGED <<mThreadState, mDoneEvent, work, started,
                       gActivePooledThreadCount, history>>

\* while (!thrd.HasStarted()) Sleep(10); while (thrd.Wait(100) == WAIT_TIMEOUT)
Stack(o) ==
  /\ KindOf[o] = "stack"
  /\ \/ client[o] = "new" /\ BeginStart(o)
     \/ Move(o, {"started", "notStarted"}, "awaitStart")
     \/ HasStarted(o) /\ Move(o, {"awaitStart"}, "wait")
     \/ Move(o, {"timedOut"}, "wait")
     \/ Destroy(o, {"waited"})

\* Two implementations of ClearThread: one asks IsRunning, the other IsFinished.
Window(o) ==
  /\ KindOf[o] = "window"
  /\ \/ client[o] = "new" /\ BeginStart(o)
     \/ Move(o, {"started", "notStarted"}, "idle")
     \/ IsRunning(o) /\ Move(o, {"idle"}, "wait")
     \/ IsRunning(o) /\ Move(o, {"waited", "timedOut"}, "undeleted")
     \/ ~IsRunning(o) /\ Destroy(o, {"idle", "waited", "timedOut"})

Highlighter(o) ==
  /\ KindOf[o] = "highlighter"
  /\ \/ client[o] = "new" /\ BeginStart(o)
     \/ Move(o, {"started", "notStarted"}, "idle")
     \/ ~IsFinished(o) /\ Move(o, {"idle"}, "wait")
     \/ ~IsFinished(o) /\ Move(o, {"waited", "timedOut"}, "undeleted")
     \/ IsFinished(o) /\ Destroy(o, {"idle", "waited", "timedOut"})

\* One of the gUndeletedFindThreads.
DeleteSpentFindReferencesThreads(o) ==
  KindOf[o] \in {"window", "highlighter"} /\ IsFinished(o) /\ Destroy(o, {"undeleted"})

\* PopulateList: if (mLoader.IsRunning()) StopThreadAndWait(); StartThread();
\* while (!mLoader.HasStarted()) Sleep(10).  StopThreadAndWait again in OnCloseup
\* and at the end.  It does not tell whether the wait ended by timeout.
Loader(o) ==
  /\ KindOf[o] = "loader"
  /\ \/ client[o] \in {"new", "waited", "timedOut"} /\ BeginStart(o)
     \/ client[o] = "idle" /\ ~IsRunning(o) /\ BeginStart(o)
     \/ IsRunning(o) /\ Move(o, {"idle"}, "wait")
     \/ Move(o, {"started", "notStarted"}, "awaitStart")
     \/ HasStarted(o) /\ Move(o, {"awaitStart"}, "idle")
     \/ Move(o, {"waited", "timedOut"}, "idle")
     \/ ~IsRunning(o) /\ Destroy(o, {"idle"})
     \/ Destroy(o, {"waited", "timedOut"})

Client(o) ==
  \/ StartThread(o) \/ TakeSignal(o) \/ TimeOut(o)
  \/ Detached(o) \/ Shared(o) \/ Stack(o) \/ Window(o) \/ Highlighter(o)
  \/ DeleteSpentFindReferencesThreads(o) \/ Loader(o)

Next == \E o \in Objs : Client(o) \/ \E r \in Runs : ThreadProc(o, r) \/ FailProc(o, r)

Spec == Init /\ [][Next]_vars

\* The pool runs what is queued, what runs ends, and clients go on; one that
\* waits again after a timeout finds the signal at last.
Fairness ==
  /\ WF_vars(\E o \in Objs, r \in Runs : ThreadProc(o, r))
  /\ \A o \in Objs : WF_vars(Client(o))
  /\ \A o \in Objs : KindOf[o] \in {"shared", "stack"} => SF_vars(TakeSignal(o))
FairSpec == Spec /\ Fairness

-----------------------------------------------------------------------------
(* Properties.                                                             *)

\* The run still has accesses to the object ahead of it.
Uses(o, r) ==
  \/ work[o][r] \in {"queued", "running", "finished"}
  \/ work[o][r] = "signalled" /\ mAutoDelete(o)

\* No object is deleted while a run is going to use it: "Not safe to use _this
\* after the SetEvent if _this is not autoDeletable", safe before it.
OutlivesRun(o) == ~alive[o] => \A r \in Runs : ~Uses(o, r)

\* So it is for objects that count their references and on the stack.  The owners
\* that go by mThreadState leave gaps, and no others than these: between the last
\* assignment to the state and SetEvent; a window that is cleared before its run
\* has begun; and a loader whose owner goes on after a wait that timed out.
GapsOf(o) ==
  CASE KindOf[o] = "highlighter" -> {"finished"}
    [] KindOf[o] = "window" -> {"queued", "finished"}
    [] KindOf[o] = "loader" -> IF hasty[o] THEN {"queued", "running", "finished"}
                               ELSE {"finished"}
    [] OTHER -> {}
NoUseAfterDelete ==
  \A o \in Objs :
    /\ KindOf[o] \in {"detached", "shared", "stack"} => OutlivesRun(o)
    /\ under[o] \subseteq GapsOf(o)

\* A reference count is the number of its holders, and the object is there as
\* long as somebody holds it.
RefCountIsHolders ==
  \A o \in Objs :
    LET holders == Cardinality({r \in Runs : Uses(o, r)})
                   + (IF client[o] # "gone" THEN 1 ELSE 0)
    IN KindOf[o] = "shared" => mRefCnt[o] = holders /\ (alive[o] <=> holders > 0)

PendingRuns == {p \in Objs \X Runs : work[p[1]][p[2]] \notin {"none", "exited"}}
Starting == {o \in Objs : client[o] \in {"reset", "queue"}}

\* "Running instances block shutdown": as long as a run is queued or has code
\* to execute, gActivePooledThreadCount counts it, and nothing else for ever.
ActiveCountIsExact ==
  gActivePooledThreadCount = Cardinality(PendingRuns) + Cardinality(Starting)

\* The caller of Wait, whoever it is, is told of the end of the run it has started
\* and not of an earlier one; but not a loader's, once it has started the thread
\* again after a wait that timed out, or between the state and the event.
WaitedForTheRun ==
  \A o \in Objs : client[o] = "waited" /\ ~hasty[o] => Unsignalled(o) = {}

\* _ASSERTE(ts_Constructed == mThreadState) in StartThread
StartsWhenConstructed ==
  \A o \in Objs : client[o] = "queue" => mThreadState[o] = "Constructed"

\* Every autoDelete object that was started is deleted in the end.
AutoDeleted ==
  \A o \in Objs : mAutoDelete(o) => (started[o] > 0 ~> ~alive[o])

\* Whoever waits on the stack for a thread comes back.
WaitersComeBack ==
  \A o \in Objs : KindOf[o] = "stack" => (started[o] > 0 ~> client[o] = "gone")
=============================================================================
