--------------------------- MODULE MainThreadWork ---------------------------
(***************************************************************************)
(* How threads get work done on the UI thread (SubClassWnd.cpp):           *)
(* RunFromMainThread appends a task to gUiThreadTasks and sends or posts   *)
(* WM_VA_EXEC_UI_THREAD_TASKS; RunFromMainThread2 pushes an item on a      *)
(* lock-free list that is emptied whenever the VA window gets a message;   *)
(* FlushAllPendingInMainThread sends one for that purpose.                 *)
(*                                                                         *)
(* The UI thread is a stack of frames, because work may itself run a       *)
(* message loop, peek at messages, or call RunFromMainThread.  Tasks and   *)
(* items are numbered in the order in which they were handed over.  A      *)
(* worker may hold DatabaseDirectoryLock while it waits for the UI thread  *)
(* (jobs of the parser thread and searches do), and a refactoring on the   *)
(* UI thread may wait for that lock (SynchronousFileParse).                *)
(***************************************************************************)
EXTENDS Integers, Sequences, FiniteSets

CONSTANTS
  Workers,   \* threads other than the UI thread
  Nobody,    \* who waits for the answer to a posted message
  Markers,   \* merge markers; 0 stands for none
  MaxTasks, MaxItems,  \* bounds on tasks and items
  MaxDepth,  \* bound on the frames
  MaxPumps   \* bound on what one frame lets in while it runs

ASSUME WorkAssumption ==
  /\ IsFiniteSet(Workers) /\ Nobody \notin Workers /\ Markers \subseteq Nat
  /\ MaxTasks \in Nat /\ MaxItems \in Nat /\ MaxDepth \in Nat \ {0}
  /\ MaxPumps \in Nat

VARIABLES
  asked,           \* the number of tasks handed over
  gUiThreadTasks,
  done,            \* the tasks that have run
  early,           \* tasks still to do whose synchronous call has come back
  refused,         \* those that were answered before RunUiThreadTasks was called:
                   \* there was no licence, or an item threw
  markerOf, pusher,  \* of each item that was pushed
  pendingWork,     \* the lock-free list, the newest first
  batch,           \* what the generator has left of the items it has taken
  throttled,       \* where the generator has yielded: in the items, or outside
  ran,             \* the items that were started, in order
  abandoned,       \* an item threw: the generator is at an end
  lost,            \* the items that were destroyed with that one, unrun
  no_trottling,
  stack,           \* the frames of the UI thread, innermost last
  pc, callTask,    \* of each worker
  missed,          \* a flush was not served
  dirLock,         \* the worker that owns DatabaseDirectoryLock
  posted,          \* WM_VA_EXEC_UI_THREAD_TASKS in the message queue
  mLicenseInit, gLicenseCountOk

taskVars == <<asked, gUiThreadTasks, done>>
itemVars == <<markerOf, pusher, pendingWork, batch, throttled, ran, abandoned, lost>>
callVars == <<early, refused, pc, callTask, missed>>
licenceVars == <<mLicenseInit, gLicenseCountOk>>
envVars == <<posted, dirLock, licenceVars>>
vars == <<taskVars, itemVars, callVars, no_trottling, stack, envVars>>

Tasks == 1..asked
Items == 1..Len(pusher)
Elements(s) == {s[k] : k \in DOMAIN s}

Frame(at, to) ==
  [at |-> at, to |-> to, exec |-> TRUE, todo |-> <<>>, cur |-> 0, counted |-> FALSE,
   pumps |-> 0]
Frames == [at : {"peek", "direct", "begin", "item", "exec", "batch", "task", "lock"},
           to : Workers \cup {Nobody}, exec : BOOLEAN, todo : Seq(1..MaxTasks),
           cur : 0..(MaxTasks + MaxItems), counted : BOOLEAN,
           pumps : 0..MaxPumps]
WorkerStates == {"idle", "pushed", "send", "sent", "handled", "flushed"}

TypeOK ==
  /\ asked \in 0..MaxTasks
  /\ gUiThreadTasks \in Seq(Tasks)
  /\ done \subseteq Tasks /\ early \subseteq Tasks /\ refused \subseteq Tasks
  /\ pusher \in Seq(Workers) /\ markerOf \in Seq(Markers \cup {0})
  /\ Len(pusher) <= MaxItems /\ Len(markerOf) = Len(pusher)
  /\ pendingWork \in Seq(Items) /\ batch \in Seq(Items) /\ ran \in Seq(Items)
  /\ throttled \in BOOLEAN /\ abandoned \in BOOLEAN /\ lost \subseteq Items
  /\ no_trottling \in Nat
  /\ stack \in Seq(Frames) /\ Len(stack) <= MaxDepth
  /\ pc \in [Workers -> WorkerStates]
  /\ callTask \in [Workers -> 0..asked]
  /\ missed \in [Workers -> BOOLEAN]
  /\ dirLock \in Workers \cup {Nobody}
  /\ posted \in Nat /\ mLicenseInit \in BOOLEAN /\ gLicenseCountOk \in BOOLEAN

Init ==
  /\ asked = 0 /\ gUiThreadTasks = <<>> /\ done = {}
  /\ early = {} /\ refused = {}
  /\ markerOf = <<>> /\ pusher = <<>> /\ pendingWork = <<>>
  /\ batch = <<>> /\ throttled = FALSE /\ ran = <<>>
  /\ abandoned = FALSE /\ lost = {}
  /\ no_trottling = 0 /\ stack = <<>>
  /\ pc = [w \in Workers |-> "idle"]
  /\ callTask = [w \in Workers |-> 0]
  /\ missed = [w \in Workers |-> FALSE]
  /\ dirLock = Nobody /\ posted = 0
  /\ mLicenseInit = FALSE /\ gLicenseCountOk = TRUE

Free(w) == pc[w] \in {"idle", "pushed"}
Goto(w, state) == pc' = [pc EXCEPT ![w] = state]

-----------------------------------------------------------------------------
(* The UI thread's stack.                                                  *)

Top == IF stack = <<>> THEN Frame("idle", Nobody) ELSE stack[Len(stack)]
At(place) == Top.at = place
Enter(frame) ==
  IF stack = <<>> THEN stack' = <<frame>>
  ELSE /\ Len(stack) < MaxDepth /\ Top.pumps < MaxPumps
       /\ stack' = Append([stack EXCEPT ![Len(stack)].pumps = @ + 1], frame)
Leave == stack' = SubSeq(stack, 1, Len(stack) - 1)
Become(frame) == stack' = [stack EXCEPT ![Len(stack)] = frame]

\* Code of the IDE or of the program runs, and may do anything: the main loop
\* is idle, or a task or an item runs.
CodeRuns == Top.at \in {"idle", "item", "task"}

\* gProcessingMessagesOnUiThread.
gProcessingMessagesOnUiThread == Cardinality({k \in DOMAIN stack : stack[k].counted})
already_running_all ==
  abandoned \/ \E k \in DOMAIN stack : stack[k].at \in {"begin", "item"}

-----------------------------------------------------------------------------
(* Calls of the workers.                                                   *)

AddTask ==
  /\ asked < MaxTasks
  /\ asked' = asked + 1
  /\ gUiThreadTasks' = Append(gUiThreadTasks, asked + 1)

\* DatabaseDirectoryLock around a job or a search.
LockDirectory(w) ==
  /\ Free(w) /\ dirLock = Nobody /\ dirLock' = w
  /\ UNCHANGED <<taskVars, itemVars, callVars, no_trottling, stack, posted,
                 licenceVars>>

UnlockDirectory(w) ==
  /\ Free(w) /\ dirLock = w /\ dirLock' = Nobody
  /\ UNCHANGED <<taskVars, itemVars, callVars, no_trottling, stack, posted,
                 licenceVars>>

\* RunFromMainThread of a worker, up to SendMessage; nobody can tell the moment
\* before PostMessage from the one after it.
Call(w, synchronous) ==
  /\ Free(w) /\ AddTask
  /\ IF synchronous
     THEN /\ Goto(w, "send") /\ callTask' = [callTask EXCEPT ![w] = asked + 1]
          /\ UNCHANGED posted
     ELSE Goto(w, "idle") /\ posted' = posted + 1 /\ UNCHANGED callTask
  /\ UNCHANGED <<done, itemVars, early, refused, missed, no_trottling, stack, dirLock,
                 licenceVars>>

\* SendMessage, the first time and after each Sleep(10).
Send(w) ==
  /\ pc[w] = "send" /\ Goto(w, "sent")
  /\ UNCHANGED <<taskVars, itemVars, early, refused, callTask, missed, no_trottling,
                 stack, envVars>>

\* RunFromMainThread2.
PushItem(w, marker) ==
  /\ Free(w) /\ Len(pusher) < MaxItems /\ Goto(w, "pushed")
  /\ pusher' = Append(pusher, w) /\ markerOf' = Append(markerOf, marker)
  /\ pendingWork' = <<Len(pusher) + 1>> \o pendingWork
  /\ UNCHANGED <<taskVars, batch, throttled, ran, abandoned, lost, early, refused, callTask,
                 missed, no_trottling, stack, envVars>>

\* FlushAllPendingInMainThread, up to SendMessage and after it.  It is called
\* after something was pushed, which also bounds it.
BeginFlush(w) ==
  /\ pc[w] = "pushed" /\ Goto(w, "send") /\ no_trottling' = no_trottling + 1
  /\ UNCHANGED <<taskVars, itemVars, early, refused, callTask, missed, stack, envVars>>

EndFlush(w) ==
  /\ pc[w] = "flushed" /\ Goto(w, "idle") /\ no_trottling' = no_trottling - 1
  /\ missed' = [missed EXCEPT ![w] = FALSE]
  /\ UNCHANGED <<taskVars, itemVars, early, refused, callTask, stack, envVars>>

\* A SendMessage returns: RunFromMainThread asks again if it was E_PENDING.
Answer(w, pending) ==
  /\ IF callTask[w] = 0
     THEN Goto(w, "flushed") /\ UNCHANGED <<early, callTask>>
     ELSE IF pending
     THEN Goto(w, "send") /\ UNCHANGED <<early, callTask>>
     ELSE /\ Goto(w, "idle") /\ early' = early \cup ({callTask[w]} \ done)
          /\ callTask' = [callTask EXCEPT ![w] = 0]

Reply(to, pending) ==
  IF to = Nobody THEN UNCHANGED <<pc, early, callTask>> ELSE Answer(to, pending)

-----------------------------------------------------------------------------
(* Messages for the VA window: VaAddinClient::PreDefWindowProc.            *)

\* Only a flush has something to miss.
Miss(to) ==
  missed' = [w \in Workers |-> missed[w] \/ (w = to /\ callTask[w] = 0)]

\* RunAllPendingInMainThread does nothing while it runs.
Dispatch(to) ==
  IF already_running_all
  THEN Enter(Frame("exec", to)) /\ Miss(to)
  ELSE Enter(Frame("begin", to)) /\ UNCHANGED missed

\* Without a licence (gLicenseCountOk, m_validLicense) every message is answered
\* with FALSE; before it has been checked these two messages pass.
ReceiveSent(w) ==
  /\ pc[w] = "sent" /\ (CodeRuns \/ At("peek"))
  /\ IF gLicenseCountOk
     THEN /\ Dispatch(w) /\ Goto(w, "handled")
          /\ UNCHANGED <<early, refused, callTask>>
     ELSE /\ Answer(w, FALSE) /\ Miss(w)
          /\ refused' = refused \cup
               (IF callTask[w] = 0 THEN {} ELSE {callTask[w]} \ done)
          /\ UNCHANGED stack
  /\ UNCHANGED <<taskVars, itemVars, no_trottling, envVars>>

ReceivePosted ==
  /\ posted > 0 /\ CodeRuns
  /\ posted' = posted - 1
  /\ IF gLicenseCountOk THEN Dispatch(Nobody) ELSE UNCHANGED <<stack, missed>>
  /\ UNCHANGED <<taskVars, itemVars, early, refused, pc, callTask, no_trottling,
                 dirLock, licenceVars>>

\* Any other message, which is then handled as the IDE likes, and a flush by the
\* UI thread itself (FindReferencesThread::Cancel).
ReceiveOther ==
  /\ CodeRuns /\ mLicenseInit /\ gLicenseCountOk /\ ~already_running_all
  /\ pendingWork # <<>> \/ throttled
  /\ \E exec \in BOOLEAN : Enter([Frame("begin", Nobody) EXCEPT !.exec = exec])
  /\ UNCHANGED <<taskVars, itemVars, callVars, no_trottling, envVars>>

\* Run by a task of the licence thread.
LicenseInitComplete ==
  /\ CodeRuns /\ ~mLicenseInit /\ mLicenseInit' = TRUE
  /\ UNCHANGED <<taskVars, itemVars, callVars, no_trottling, stack, posted, dirLock,
                 gLicenseCountOk>>

\* The licence monitor, which the licensing host starts, finds too many users.
LicenseViolation ==
  /\ mLicenseInit /\ gLicenseCountOk /\ gLicenseCountOk' = FALSE
  /\ UNCHANGED <<taskVars, itemVars, callVars, no_trottling, stack, posted, dirLock,
                 mLicenseInit>>

-----------------------------------------------------------------------------
(* RunAllPendingInMainThread and its generator.                            *)

\* Whether a later item of the same kind is in front of the k-th one.
IsReplaced(list, k) ==
  /\ markerOf[list[k]] # 0
  /\ \E j \in 1..(k - 1) : markerOf[list[j]] = markerOf[list[k]]

\* What a list has at some places, the last place first.
Backwards(list, places) ==
  [n \in 1..Cardinality(places) |->
    list[CHOOSE p \in places : Cardinality({q \in places : p <= q}) = n]]

\* The list is turned round, and only the newest of each kind is kept.
retrieve_all_items(list) ==
  Backwards(list, {k \in DOMAIN list : ~IsReplaced(list, k)})

\* The generator yields; the message goes on to its handler.
Yield ==
  IF Top.exec THEN Become([Top EXCEPT !.at = "exec", !.cur = 0, !.pumps = 0]) ELSE Leave

\* The loop of the generator over the items it has taken.
NextOf(items) ==
  IF items = <<>>
  THEN Yield /\ batch' = <<>> /\ UNCHANGED ran
  ELSE /\ Become([Top EXCEPT !.at = "item", !.cur = Head(items), !.pumps = 0])
       /\ batch' = Tail(items) /\ ran' = Append(ran, Head(items))

\* Mutant: what came in meanwhile is taken instead of the rest.
TakeItems_always ==
  /\ At("begin")
  /\ NextOf(retrieve_all_items(pendingWork)) /\ pendingWork' = <<>> /\ throttled' = FALSE
  /\ UNCHANGED <<taskVars, markerOf, pusher, abandoned, lost, callVars, no_trottling,
                 envVars>>

TakeItems ==
  /\ At("begin") /\ ~throttled
  /\ NextOf(retrieve_all_items(pendingWork)) /\ pendingWork' = <<>>
  /\ UNCHANGED <<taskVars, markerOf, pusher, throttled, abandoned, lost, callVars,
                 no_trottling, envVars>>

\* The generator was left in the loop: it goes on there, and yields at the end
\* of it without looking at the list.
MissIfThrottled == Miss(Top.to)

ContinueItems ==
  /\ At("begin") /\ throttled
  /\ throttled' = FALSE /\ NextOf(batch) /\ MissIfThrottled
  /\ UNCHANGED <<taskVars, markerOf, pusher, pendingWork, abandoned, lost, early,
                 refused, pc, callTask, no_trottling, envVars>>

\* Five milliseconds are not over.
StayThrottled ==
  /\ At("begin") /\ throttled
  /\ Yield /\ MissIfThrottled
  /\ UNCHANGED <<taskVars, itemVars, early, refused, pc, callTask, no_trottling,
                 envVars>>

EndItem ==
  /\ At("item") /\ NextOf(batch)
  /\ UNCHANGED <<taskVars, markerOf, pusher, pendingWork, throttled, abandoned, lost,
                 callVars, no_trottling, envVars>>

\* Nothing catches the exception before PreDefWindowProc: it ends the generator,
\* what is left of the list is destroyed, already_running_all stays TRUE, and the
\* message is answered with FALSE.
ItemThrows ==
  /\ At("item") /\ Leave /\ Reply(Top.to, FALSE)
  /\ abandoned' = TRUE /\ lost' = lost \cup Elements(batch) /\ batch' = <<>>
  /\ refused' = refused \cup {t \in Tasks \ done : Top.to # Nobody /\ t = callTask[Top.to]}
  /\ UNCHANGED <<taskVars, markerOf, pusher, pendingWork, throttled, ran, missed,
                 no_trottling, envVars>>

\* Mutant: a flush is throttled like everything else.
EndItemThrottled_flush ==
  /\ At("item") /\ throttled' = TRUE /\ Yield
  /\ UNCHANGED <<taskVars, markerOf, pusher, pendingWork, batch, ran, abandoned, lost,
                 callVars, no_trottling, envVars>>

\* A hundred milliseconds are over.
EndItemThrottled ==
  /\ At("item") /\ no_trottling = 0 /\ throttled' = TRUE /\ Yield
  /\ UNCHANGED <<taskVars, markerOf, pusher, pendingWork, batch, ran, abandoned, lost,
                 callVars, no_trottling, envVars>>

-----------------------------------------------------------------------------
(* RunUiThreadTasks and RunUiThreadTasksUnchecked.                         *)

\* Mutant: the tasks are copied.
TakeTasks_copy(frame) ==
  /\ Become([frame EXCEPT !.at = "batch", !.todo = gUiThreadTasks])
  /\ UNCHANGED gUiThreadTasks

TakeTasks(frame) ==
  /\ Become([frame EXCEPT !.at = "batch", !.todo = gUiThreadTasks])
  /\ gUiThreadTasks' = <<>>

\* Mutant: nobody looks at the counter.
Busy_never == FALSE

\* Mutant: the frame's own count is taken for another's.
Busy_own == gProcessingMessagesOnUiThread + 1 > 0

\* The test of the counter in RunUiThreadTasks; the frame counts itself first.
Busy == gProcessingMessagesOnUiThread > 0

RunUiThreadTasks ==
  /\ At("exec")
  /\ IF Busy
     THEN /\ Leave /\ Reply(Top.to, TRUE)
          /\ UNCHANGED gUiThreadTasks
     ELSE /\ TakeTasks([Top EXCEPT !.counted = TRUE])
          /\ UNCHANGED <<pc, early, callTask>>
  /\ UNCHANGED <<asked, done, itemVars, refused, missed, no_trottling, envVars>>

BeginTask ==
  /\ At("batch") /\ Top.todo # <<>>
  /\ Become([Top EXCEPT !.at = "task", !.cur = Head(Top.todo), !.todo = Tail(Top.todo)])
  /\ UNCHANGED <<taskVars, itemVars, callVars, no_trottling, envVars>>

\* Also when the task throws: the exception is caught.
EndTask ==
  /\ At("task") /\ done' = done \cup {Top.cur}
  /\ early' = early \ {Top.cur} /\ refused' = refused \ {Top.cur}
  /\ Become([Top EXCEPT !.at = "batch", !.cur = 0, !.pumps = 0])
  /\ UNCHANGED <<asked, gUiThreadTasks, itemVars, pc, callTask, missed, no_trottling,
                 envVars>>

EndBatch ==
  /\ At("batch") /\ Top.todo = <<>>
  /\ Leave /\ Reply(Top.to, FALSE)
  /\ UNCHANGED <<taskVars, itemVars, refused, missed, no_trottling, envVars>>

-----------------------------------------------------------------------------
(* What code on the UI thread does with this.                              *)

\* RunFromMainThread(f, true) on the UI thread runs the tasks itself, and does
\* not count.
CallDirectly ==
  /\ CodeRuns /\ AddTask /\ Enter(Frame("direct", Nobody))
  /\ UNCHANGED <<done, itemVars, callVars, no_trottling, envVars>>

RunUnchecked ==
  /\ At("direct") /\ TakeTasks(Top)
  /\ UNCHANGED <<asked, done, itemVars, callVars, no_trottling, envVars>>

\* RunFromMainThread(f, false) on the UI thread.
PostOwn ==
  /\ CodeRuns /\ AddTask /\ posted' = posted + 1
  /\ UNCHANGED <<done, itemVars, callVars, no_trottling, stack, dirLock, licenceVars>>

\* VaAddinClient::GetSettings, while the licence thread may be waiting, and then
\* until the task that it has handed over is done with SetupVa and clears
\* mServiceProviderUnk; that may be any task.
GetSettings ==
  /\ CodeRuns /\ (~mLicenseInit \/ \E k \in DOMAIN stack : stack[k].at = "task")
  /\ gUiThreadTasks # <<>>
  /\ Enter(Frame("exec", Nobody))
  /\ UNCHANGED <<taskVars, itemVars, callVars, no_trottling, envVars>>

\* EdPeekMessage and VAProcessMessages: sent messages are received meanwhile.
BeginPeek ==
  /\ CodeRuns /\ (\E w \in Workers : pc[w] \in {"send", "sent"})
  /\ Enter([Frame("peek", Nobody) EXCEPT !.counted = TRUE])
  /\ UNCHANGED <<taskVars, itemVars, callVars, no_trottling, envVars>>

EndPeek ==
  /\ At("peek") /\ Leave
  /\ UNCHANGED <<taskVars, itemVars, callVars, no_trottling, envVars>>

\* SynchronousFileParse in a refactoring: no message is handled meanwhile.
AwaitDirectory ==
  /\ CodeRuns /\ dirLock # Nobody /\ Enter(Frame("lock", Nobody))
  /\ UNCHANGED <<taskVars, itemVars, callVars, no_trottling, envVars>>

SynchronousFileParse ==
  /\ At("lock") /\ dirLock = Nobody /\ Leave
  /\ UNCHANGED <<taskVars, itemVars, callVars, no_trottling, envVars>>

UiThread ==
  \/ TakeItems \/ ContinueItems \/ StayThrottled \/ EndItem \/ EndItemThrottled
  \/ ItemThrows \/ RunUiThreadTasks \/ BeginTask \/ EndTask \/ EndBatch
  \/ RunUnchecked \/ EndPeek \/ SynchronousFileParse

UiCode == CallDirectly \/ PostOwn \/ GetSettings \/ BeginPeek \/ AwaitDirectory

Message == ReceivePosted \/ ReceiveOther \/ \E w \in Workers : ReceiveSent(w)

Worker(w) ==
  \/ \E synchronous \in BOOLEAN : Call(w, synchronous)
  \/ Send(w) \/ BeginFlush(w) \/ EndFlush(w)
  \/ LockDirectory(w) \/ UnlockDirectory(w)
  \/ \E marker \in Markers \cup {0} : PushItem(w, marker)

Next ==
  \/ UiThread \/ UiCode \/ Message \/ LicenseInitComplete \/ LicenseViolation
  \/ \E w \in Workers : Worker(w)

Spec == Init /\ [][Next]_vars

\* Work ends, however many messages it handles meanwhile; the main loop, when
\* it is idle, receives a message that has been sent before anything else; a
\* worker that sleeps and sends again does not always hit a moment at which the
\* UI thread is busy.
Fairness ==
  /\ WF_vars(UiThread) /\ SF_vars(SynchronousFileParse)
  /\ \A w \in Workers :
       /\ WF_vars(UnlockDirectory(w))
       /\ WF_vars(Send(w) \/ EndFlush(w))
       /\ SF_vars(stack = <<>> /\ Send(w)) /\ SF_vars(stack = <<>> /\ ReceiveSent(w))

FairSpec == Spec /\ Fairness

-----------------------------------------------------------------------------
(* Properties.                                                             *)

\* What is left of the batches, outer ones first, then gUiThreadTasks.
Places == 1..(Len(stack) + 1)
Left(k) == IF k \in DOMAIN stack THEN stack[k].todo ELSE gUiThreadTasks
Waiting == UNION {Elements(Left(k)) : k \in Places}

RunningTasks == {stack[k].cur : k \in {n \in DOMAIN stack : stack[n].at = "task"}}

IsIncreasing(s) == \A i, j \in DOMAIN s : i < j => s[i] < s[j]

\* However batches are nested, the tasks that wait are in the order in which
\* they were handed over, each once, and every other task has run or runs
\* (RunUiThreadTasksUnchecked swaps the vector under the lock).
TasksWaitInOrder ==
  /\ \A k \in Places : IsIncreasing(Left(k))
  /\ \A k, l \in Places : k < l =>
       \A t \in Elements(Left(k)), u \in Elements(Left(l)) : t < u
  /\ Waiting \cap (RunningTasks \cup done) = {}
  /\ RunningTasks \cap done = {}
  /\ Tasks = Waiting \cup RunningTasks \cup done

HeldDirectly(t) ==
  \E k \in DOMAIN stack :
    /\ ~stack[k].counted /\ stack[k].at \in {"batch", "task"}
    /\ t = stack[k].cur \/ t \in Elements(stack[k].todo)

\* A synchronous RunFromMainThread has run its task when it comes back, unless
\* it was answered early (no licence, or an item threw), or the UI thread has the
\* task in a batch of a direct call, which gProcessingMessagesOnUiThread does not
\* show.
ReturnedCallsAreDone ==
  \A t \in early : t \in refused \/ HeldDirectly(t)

\* RunFromMainThread2 promises that an item runs unless a later one of the same
\* kind takes its place, and that items run in the order they were pushed,
\* whatever the generator is interrupted by.  But one that throws takes with it
\* the items of its list that were still to run, and no others.
ItemsRunInOrder ==
  LET taken == Elements(batch) \cup Elements(ran) \cup lost
      known == Elements(pendingWork) \cup taken
  IN  /\ IsIncreasing(ran \o batch)
      /\ \A i \in Elements(pendingWork), j \in taken : i > j
      /\ \A i \in lost : abandoned /\ batch = <<>> /\ \A j \in Elements(ran) : i > j
      /\ \A i \in Items :
           \/ i \in known
           \/ \E j \in known : j > i /\ markerOf[j] = markerOf[i] /\ markerOf[i] # 0

RunningItems == {stack[k].cur : k \in {n \in DOMAIN stack : stack[n].at = "item"}}

\* When FlushAllPendingInMainThread comes back, what its caller has pushed has
\* run or is lost, unless its message met items that were running or throttled,
\* or a generator at its end.
FlushRunsOwnItems ==
  \A w \in Workers : pc[w] = "flushed" /\ ~missed[w] =>
    \A i \in Elements(pendingWork) \cup Elements(batch) \cup RunningItems : pusher[i] # w

\* The comment "any message will run all pending items" of
\* FlushAllPendingInMainThread, which does not hold: see missed.
FlushRunsAll ==
  \A w \in Workers : pc[w] = "flushed" =>
    \A i \in Elements(pendingWork) \cup Elements(batch) \cup RunningItems : pusher[i] # w

\* The UI thread waits for the lock of a worker that waits for the UI thread.
LockedOut == At("lock") /\ dirLock # Nobody /\ pc[dirLock] \in {"send", "sent", "handled"}

\* A synchronous call comes back, although it is sent again and again while the
\* UI thread peeks at messages; only DatabaseDirectoryLock can prevent it.
SyncCallsReturn == \A w \in Workers : pc[w] = "sent" ~> pc[w] = "idle" \/ LockedOut

\* No job that holds DatabaseDirectoryLock waits for a UI thread that waits for
\* the lock.  It does not hold.
NoLockCycle == ~LockedOut

\* While there are tasks, somebody is about to run them.  It does not hold: the
\* message of an asynchronous call is answered E_PENDING and forgotten when it is
\* received by the message loop of another task.
NoTaskIsForgotten ==
  gLicenseCountOk /\ gUiThreadTasks # <<>> =>
    \/ posted > 0 \/ \E w \in Workers : callTask[w] # 0
    \/ \E k \in DOMAIN stack : stack[k].at \in {"direct", "exec"} \/ stack[k].exec
=============================================================================
