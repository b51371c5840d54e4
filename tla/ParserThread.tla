---------------------------- MODULE ParserThread ----------------------------
(***************************************************************************)
(* The background parser of Visual Assist (ParseThrd.cpp): one consumer    *)
(* thread serves five containers of work items that any thread fills.      *)
(*                                                                         *)
(* A work item is an object allocated by its producer and handed over by   *)
(* pointer: it is a member of Items, and each is offered once.  The text   *)
(* a FileParserWorkItem carries is abstracted to the item that supplied    *)
(* it.  The actors are the producers, the consumer, the UI thread (a       *)
(* refactoring, with its synchronous parse), a project load and shutdown.  *)
(***************************************************************************)
EXTENDS Integers, Sequences, FiniteSets

CONSTANTS
  Items,         \* work item objects
  FileItems,     \* those that are FileParserWorkItems
  Files,         \* the keys FileParserWorkItem::operator== compares
  FileOf,        \* the key of each file item
  PriOf,         \* the priority each item is queued with
  MaySkip,       \* items whose CanRunNow may answer false
  AtShutdown,    \* items whose ShouldRunAtShutdown answers true
  NoItem,        \* the null pointer
  Aborted,       \* a parse was cut short: the old definitions or none are in the database
  MaxSkips,      \* how often CanRunNow of an item answers false
  MaxLoads,      \* bound on project loads
  MaxRefactors,  \* bound on refactorings
  MaxFaults      \* bound on exceptions that escape ParserThread::Run

\* ParserThread::WorkPriority, lowest first.
priNone == 0
priLow == 1
priBelowNormal == 2
priNormal == 3
priHigh == 4
Priorities == priLow .. priHigh

ASSUME ItemAssumption ==
  /\ FileItems \subseteq Items
  /\ FileOf \in [FileItems -> Files]
  /\ PriOf \in [Items -> Priorities]
  /\ \A w \in FileItems : PriOf[w] = priNormal
  /\ MaySkip \subseteq Items
  /\ AtShutdown \subseteq Items
  /\ MaySkip \cap AtShutdown = {}
  /\ NoItem \notin Items
  /\ Aborted \notin Items
  /\ NoItem # Aborted

ASSUME BoundAssumption ==
  MaxSkips \in Nat /\ MaxLoads \in Nat /\ MaxRefactors \in Nat /\ MaxFaults \in Nat

VARIABLES
  queue,        \* mHighPriorityWorkItems, mWorkItems, mBelowNormalWorkItems, mLowPriorityWorkItems
  fileItems,    \* mQueuedFileWorkItems: the file items a later request may still update
  skipped,      \* mSkippedItems
  wi,           \* the item the consumer holds
  activePri,    \* mActivePriority
  pc,           \* where ParserThread::Run (or the destructor) is
  lowPass,      \* TRUE while wi was taken from the low priority queue
  gParser,      \* g_ParserThread: 0 is NULL, otherwise which ParserThread object
  gen,          \* the ParserThread object whose members the variables above are
  call,         \* how far the producer of each item has got
  ptr,          \* the value of g_ParserThread that producer read
  text,         \* whose text a file item carries
  ran,          \* items whose DoParseWork was called
  dropped,      \* items deleted without DoParseWork
  leaked,       \* items left in a destroyed ParserThread
  late,         \* items handed over after g_ParserThread was cleared
  order,        \* history: the items in the order of their QueueParseWorkItem calls
  latest,       \* the text last requested for each key
  parsed,       \* the text last parsed for each key
  dirLock,      \* who owns the DatabaseDirectoryLock
  stopIt,       \* StopIt
  shutdown,     \* FreeTheGlobals: running, unloading (gShellIsUnloading), or stopped (StopIt too)
  ui,           \* the UI thread: idle, refactoring, waiting for the lock, or parsing
  undone,       \* history: a load has reset StopIt after FreeTheGlobals had set it
  load,         \* where Project::LoadProject is
  skips, loads, refactors, faults   \* counts for the bounds

consumerVars == <<wi, activePri, pc, lowPass>>
objectVars == <<queue, fileItems, skipped>>
threadVars == <<gParser, gen>>
callVars == <<call, ptr, text, late, order, latest>>
resultVars == <<ran, dropped, leaked, parsed>>
envVars == <<stopIt, shutdown, undone, ui, load>>
countVars == <<skips, loads, refactors, faults>>
vars == <<objectVars, consumerVars, threadVars, callVars, resultVars, dirLock,
          envVars, countVars>>

RunStates == {"outer", "inner", "wait", "work", "lock", "pop", "unregister", "run",
              "parsing", "unlock", "requeue", "low", "lowWork", "lowLock", "lowPop",
              "lowEnd", "exit"}
DtorStates == {"drain", "drainUnregister", "drainRun", "drainLow", "dtorEnd"}
NoOne == "none"
LockOwners == {NoOne, "parser", "ui", "loader"}

SeqItems(q) == {q[i] : i \in DOMAIN q}
AllQueued == UNION {SeqItems(queue[p]) : p \in Priorities}

TypeOK ==
  /\ queue \in [Priorities -> Seq(Items)]
  /\ fileItems \subseteq FileItems
  /\ skipped \in Seq(Items)
  /\ wi \in Items \cup {NoItem}
  /\ activePri \in priNone .. priHigh
  /\ pc \in RunStates \cup DtorStates \cup {"gone"}
  /\ lowPass \in BOOLEAN
  /\ gParser \in Nat /\ gen \in Nat
  /\ call \in [Items -> {"new", "called", "registered", "handed", "merged", "stray"}]
  /\ ptr \in [Items -> Nat]
  /\ text \in [Items -> Items]
  /\ ran \subseteq Items /\ dropped \subseteq Items /\ leaked \subseteq Items
  /\ late \subseteq Items /\ order \in Seq(Items)
  /\ latest \in [Files -> Items \cup {NoItem}]
  /\ parsed \in [Files -> Items \cup {NoItem, Aborted}]
  /\ dirLock \in LockOwners
  /\ stopIt \in BOOLEAN /\ shutdown \in {"running", "unloading", "stopped"} /\ undone \in BOOLEAN
  /\ ui \in {"idle", "refactoring", "waiting", "parsing"}
  /\ load \in {"none", "stopped", "locked", "cleared", "loading"}
  /\ skips \in [Items -> Nat] /\ loads \in Nat /\ refactors \in Nat /\ faults \in Nat

\* ParserThread::ParserThread, from AllocTheGlobals.
Init ==
  /\ queue = [p \in Priorities |-> <<>>] /\ fileItems = {} /\ skipped = <<>>
  /\ wi = NoItem /\ activePri = priNone /\ pc = "outer" /\ lowPass = FALSE
  /\ gParser = 1 /\ gen = 1
  /\ call = [w \in Items |-> "new"] /\ ptr = [w \in Items |-> 0]
  /\ text = [w \in Items |-> w] /\ late = {} /\ order = <<>> /\ latest = [f \in Files |-> NoItem]
  /\ ran = {} /\ dropped = {} /\ leaked = {} /\ parsed = [f \in Files |-> NoItem]
  /\ dirLock = NoOne
  /\ stopIt = FALSE /\ shutdown = "running" /\ undone = FALSE /\ ui = "idle" /\ load = "none"
  /\ skips = [w \in Items |-> 0] /\ loads = 0 /\ refactors = 0 /\ faults = 0

HasQueuedItems == \E p \in {priBelowNormal, priNormal, priHigh} : queue[p] # <<>>
HasLowPriorityQueuedItems == queue[priLow] # <<>>
IsNormalJobActiveOrPending ==
  \/ activePri >= priNormal
  \/ queue[priNormal] # <<>>
  \/ queue[priHigh] # <<>>
HasBelowNormalJobActiveOrPending ==
  activePri = priBelowNormal \/ queue[priBelowNormal] # <<>>
RefactoringActive == ui # "idle"
gShellIsUnloading == shutdown # "running"

-----------------------------------------------------------------------------
(* Producers: any thread.                                                  *)

\* if (g_ParserThread) -- the pointer is read, and used in a later step.
ReadGlobal(w) ==
  /\ call[w] = "new" /\ gParser # 0
  /\ call' = [call EXCEPT ![w] = "called"]
  /\ ptr' = [ptr EXCEPT ![w] = gParser]
  /\ UNCHANGED <<objectVars, consumerVars, threadVars, text, late, order, latest, resultVars,
                 dirLock, envVars, countVars>>

ObjectLives(w) == ptr[w] = gen /\ pc # "gone"

\* Mutant: the waiting item keeps its old text.
QueueFileWorkItem_noUpdate(w) ==
  /\ w \in FileItems /\ call[w] = "called" /\ ObjectLives(w)
  /\ LET found == \E old \in fileItems : FileOf[old] = FileOf[w] IN
     /\ fileItems' = IF found THEN fileItems ELSE fileItems \cup {w}
     /\ call' = [call EXCEPT ![w] = IF found THEN "merged" ELSE "registered"]
  /\ latest' = [latest EXCEPT ![FileOf[w]] = text[w]]
  /\ UNCHANGED <<text, queue, skipped, consumerVars, threadVars, ptr, late, order, resultVars,
                 dirLock, envVars, countVars>>

\* The first half of QueueFileWorkItem, under mFileWorkItemsLock: an equal item
\* that is still registered takes over the text and the new one is deleted.
QueueFileWorkItem(w) ==
  /\ w \in FileItems /\ call[w] = "called" /\ ObjectLives(w)
  /\ \/ \E old \in fileItems :
          /\ FileOf[old] = FileOf[w]
          /\ text' = [text EXCEPT ![old] = text[w]]
          /\ call' = [call EXCEPT ![w] = "merged"]
          /\ UNCHANGED fileItems
     \/ /\ \A old \in fileItems : FileOf[old] # FileOf[w]
        /\ fileItems' = fileItems \cup {w}
        /\ call' = [call EXCEPT ![w] = "registered"]
        /\ UNCHANGED text
  /\ latest' = [latest EXCEPT ![FileOf[w]] = text[w]]
  /\ UNCHANGED <<queue, skipped, consumerVars, threadVars, ptr, late, order, resultVars,
                 dirLock, envVars, countVars>>

\* QueueParseWorkItem, under mLock: for a file item the second half of
\* QueueFileWorkItem, otherwise the whole call.
QueueParseWorkItem(w) ==
  /\ call[w] = IF w \in FileItems THEN "registered" ELSE "called"
  /\ ObjectLives(w)
  /\ queue' = [queue EXCEPT ![PriOf[w]] = Append(@, w)]
  /\ call' = [call EXCEPT ![w] = "handed"]
  /\ late' = IF gParser = gen THEN late ELSE late \cup {w}
  /\ order' = Append(order, w)
  /\ UNCHANGED <<fileItems, skipped, consumerVars, threadVars, ptr, text, latest,
                 resultVars, dirLock, envVars, countVars>>

\* The pointer was read before the destructor ran and is used after it: the
\* item ends up in freed memory and no one serves it.
CallDestroyedThread(w) ==
  /\ call[w] \in {"called", "registered"} /\ ~ObjectLives(w)
  /\ call' = [call EXCEPT ![w] = "stray"]
  /\ UNCHANGED <<objectVars, consumerVars, threadVars, ptr, text, late, order, latest,
                 resultVars, dirLock, envVars, countVars>>

Producer(w) ==
  ReadGlobal(w) \/ QueueFileWorkItem(w) \/ QueueParseWorkItem(w) \/ CallDestroyedThread(w)

-----------------------------------------------------------------------------
(* ParserThread::Run.                                                      *)

\* A step that only moves the program counter.
Goto(from, to) ==
  /\ pc = from /\ pc' = to
  /\ UNCHANGED <<wi, activePri, lowPass, objectVars, threadVars, callVars, resultVars,
                 dirLock, envVars, countVars>>

\* while (!gShellIsUnloading) -- and nothing inside tests it again.
OuterLoop == Goto("outer", IF gShellIsUnloading THEN "exit" ELSE "inner")
InnerLoop == Goto("inner", IF stopIt THEN "outer" ELSE "wait")

\* The polling loop: it ends on StopIt, on work unless a refactoring is on, or
\* after a minute if there is low priority work.
\* Mutant: low priority work alone never ends the wait.
WaitForWork_noLow ==
  /\ stopIt \/ (~RefactoringActive /\ HasQueuedItems)
  /\ Goto("wait", "work")
WaitForWork ==
  /\ stopIt \/ (~RefactoringActive /\ (HasQueuedItems \/ HasLowPriorityQueuedItems))
  /\ Goto("wait", "work")

WorkLoop == Goto("work", IF ~stopIt /\ HasQueuedItems THEN "lock" ELSE "requeue")

\* Mutant: the lock is not waited for.
Acquire_noWait(owner) == dirLock' = owner
Acquire(owner) == dirLock = NoOne /\ dirLock' = owner

TakeDirLock ==
  \E move \in {<<"lock", "pop">>, <<"lowLock", "lowPop">>, <<"exit", "drain">>} :
    /\ pc = move[1] /\ pc' = move[2]
    /\ Acquire("parser")
    /\ gParser' = IF pc = "exit" THEN 0 ELSE gParser
    /\ UNCHANGED <<wi, activePri, lowPass, objectVars, gen, callVars, resultVars,
                   envVars, countVars>>

\* The queue GetNextJob serves: the most urgent one that has an item.
NextPriority ==
  IF queue[priHigh] # <<>> THEN priHigh
  ELSE IF queue[priNormal] # <<>> THEN priNormal ELSE priBelowNormal

\* Mutant: mActivePriority is set after mLock has been released, or never.
TakeFrom_noPriority(p) ==
  /\ wi' = Head(queue[p])
  /\ queue' = [queue EXCEPT ![p] = Tail(@)]
  /\ activePri' = activePri
\* Mutant: the newest item is taken.
TakeFrom_back(p) ==
  /\ wi' = queue[p][Len(queue[p])]
  /\ queue' = [queue EXCEPT ![p] = SubSeq(@, 1, Len(@) - 1)]
  /\ activePri' = p
TakeFrom(p) ==
  /\ wi' = Head(queue[p])
  /\ queue' = [queue EXCEPT ![p] = Tail(@)]
  /\ activePri' = p

\* GetNextJob as far as the unlock of mLock, in Run and in the destructor.
GetNextJob ==
  \E move \in {<<"pop", "unregister", "run">>, <<"drain", "drainUnregister", "drainRun">>} :
    /\ pc = move[1] /\ HasQueuedItems
    /\ TakeFrom(NextPriority)
    /\ pc' = IF NextPriority = priNormal THEN move[2] ELSE move[3]
    /\ lowPass' = FALSE
    /\ UNCHANGED <<fileItems, skipped, threadVars, callVars, resultVars, dirLock,
                   envVars, countVars>>

\* The rest of GetNextJob, under mFileWorkItemsLock.
UnregisterFileItem ==
  \E move \in {<<"unregister", "run">>, <<"drainUnregister", "drainRun">>} :
    /\ pc = move[1] /\ pc' = move[2]
    /\ fileItems' = fileItems \ {wi}
    /\ UNCHANGED <<queue, skipped, wi, activePri, lowPass, threadVars, callVars,
                   resultVars, dirLock, envVars, countVars>>

GetNextLowPriorityJob ==
  \E move \in {<<"lowPop", "run">>, <<"drainLow", "drainRun">>} :
    /\ pc = move[1] /\ pc' = move[2]
    /\ HasLowPriorityQueuedItems
    /\ TakeFrom(priLow)
    /\ lowPass' = TRUE
    /\ UNCHANGED <<fileItems, skipped, threadVars, callVars, resultVars, dirLock,
                   envVars, countVars>>

\* Mutant: wi.get() for wi.release(): the item is set aside and deleted.
SkipWorkItem_get ==
  /\ pc = "run" /\ wi \in MaySkip /\ skips[wi] < MaxSkips
  /\ skips' = [skips EXCEPT ![wi] = @ + 1]
  /\ skipped' = Append(skipped, wi) /\ dropped' = dropped \cup {wi}
  /\ wi' = NoItem /\ activePri' = priNone /\ pc' = "unlock"
  /\ UNCHANGED <<queue, fileItems, lowPass, threadVars, callVars, ran, leaked, parsed,
                 dirLock, envVars, loads, refactors, faults>>

\* RunWorkItem when CanRunNow answers false.
SkipWorkItem ==
  /\ pc = "run" /\ wi \in MaySkip /\ skips[wi] < MaxSkips
  /\ skips' = [skips EXCEPT ![wi] = @ + 1]
  /\ skipped' = Append(skipped, wi)
  /\ wi' = NoItem /\ activePri' = priNone /\ pc' = "unlock"
  /\ UNCHANGED <<queue, fileItems, lowPass, threadVars, callVars, resultVars, dirLock,
                 envVars, loads, refactors, faults>>

\* RunWorkItem when CanRunNow answers true: DoParseWork is entered.
BeginParse == Goto("run", "parsing")

\* What DoParseWork of w leaves in the database: the text w carries, or Aborted
\* when StopIt cut the parse short or it threw.
ParseResult(w) ==
  IF w \in FileItems
  THEN {[parsed EXCEPT ![FileOf[w]] = r] : r \in {text[w], Aborted}}
  ELSE {parsed}

\* DoParseWork returns; mActivePriority is reset and wi goes out of scope.
EndParse ==
  /\ pc = "parsing"
  /\ parsed' \in ParseResult(wi)
  /\ ran' = ran \cup {wi}
  /\ wi' = NoItem /\ activePri' = priNone /\ pc' = "unlock"
  /\ UNCHANGED <<lowPass, objectVars, threadVars, callVars, dropped, leaked, dirLock,
                 envVars, countVars>>

\* ~DatabaseDirectoryLock at the end of the loop body.
ReleaseDirLock ==
  /\ pc = "unlock" /\ dirLock' = NoOne
  /\ pc' = IF lowPass THEN "lowWork" ELSE "work"
  /\ UNCHANGED <<wi, activePri, lowPass, objectVars, threadVars, callVars, resultVars,
                 envVars, countVars>>

\* RequeueSkippedItems at the end of the normal pass (as priNormal) and of the
\* low priority pass (as priLow).
RequeueSkippedItems ==
  \E move \in {<<"requeue", "low", priNormal>>, <<"lowEnd", "inner", priLow>>} :
    /\ pc = move[1] /\ pc' = move[2]
    /\ queue' = [queue EXCEPT ![move[3]] = @ \o skipped]
    /\ skipped' = <<>>
    /\ UNCHANGED <<fileItems, wi, activePri, lowPass, threadVars, callVars, resultVars,
                   dirLock, envVars, countVars>>

\* The low priority pass: a minute has gone by and the project is not busy...
BeginLowPass == HasLowPriorityQueuedItems /\ Goto("low", "lowWork")
\* ...or not.
SkipLowPass == Goto("low", "lowEnd")
ContinueLowPass == ~stopIt /\ HasLowPriorityQueuedItems /\ Goto("lowWork", "lowLock")
\* StopIt, nothing left, or kMaxLowPriorityTime is over.
EndLowPass == Goto("lowWork", "lowEnd")

\* An exception escapes Run (the unguarded tests of GlobalProject between the
\* passes): ThreadProc catches it and releases the object.
RunThrows == 
  /\ faults < MaxFaults /\ pc = "low" /\ pc' = "exit"
  /\ faults' = faults + 1
  /\ UNCHANGED <<wi, activePri, lowPass, objectVars, threadVars, callVars, resultVars,
                 dirLock, envVars, skips, loads, refactors>>

-----------------------------------------------------------------------------
(* ParserThread::~ParserThread, on the consumer's own thread.              *)

\* Mutant: the queue is only emptied.
DrainItem_dropAll ==
  /\ pc = "drainRun" /\ pc' = IF lowPass THEN "drainLow" ELSE "drain"
  /\ dropped' = dropped \cup {wi} /\ UNCHANGED <<ran, parsed>>
  /\ wi' = NoItem /\ activePri' = priNone
  /\ UNCHANGED <<lowPass, objectVars, threadVars, callVars, leaked, dirLock, envVars,
                 countVars>>
\* if (wi->ShouldRunAtShutdown()) wi->DoParseWork(); delete wi;
DrainItem ==
  /\ pc = "drainRun" /\ pc' = IF lowPass THEN "drainLow" ELSE "drain"
  /\ IF wi \in AtShutdown
     THEN ran' = ran \cup {wi} /\ parsed' \in ParseResult(wi) /\ UNCHANGED dropped
     ELSE dropped' = dropped \cup {wi} /\ UNCHANGED <<ran, parsed>>
  /\ wi' = NoItem /\ activePri' = priNone
  /\ UNCHANGED <<lowPass, objectVars, threadVars, callVars, leaked, dirLock, envVars,
                 countVars>>

\* The second loop does not look at the other queues again.
EndNormalDrain == ~HasQueuedItems /\ Goto("drain", "drainLow")

EndDrain ==
  /\ pc = "drainLow" /\ ~HasLowPriorityQueuedItems
  /\ pc' = "dtorEnd" /\ dirLock' = NoOne
  /\ UNCHANGED <<wi, activePri, lowPass, objectVars, threadVars, callVars, resultVars,
                 envVars, countVars>>

\* The members are destroyed; outside of shutdown a new ParserThread starts.
DestroyThread ==
  /\ pc = "dtorEnd"
  /\ leaked' = leaked \cup AllQueued \cup SeqItems(skipped)
  /\ queue' = [p \in Priorities |-> <<>>] /\ fileItems' = {} /\ skipped' = <<>>
  /\ IF gShellIsUnloading
     THEN pc' = "gone" /\ UNCHANGED threadVars
     ELSE pc' = "outer" /\ gen' = gen + 1 /\ gParser' = gen + 1
  /\ UNCHANGED <<wi, activePri, lowPass, callVars, ran, dropped, parsed, dirLock,
                 envVars, countVars>>

Consumer ==
  \/ OuterLoop \/ InnerLoop \/ WaitForWork \/ WorkLoop \/ TakeDirLock
  \/ GetNextJob \/ UnregisterFileItem \/ GetNextLowPriorityJob
  \/ SkipWorkItem \/ BeginParse \/ EndParse \/ ReleaseDirLock \/ RequeueSkippedItems
  \/ BeginLowPass \/ SkipLowPass \/ ContinueLowPass \/ EndLowPass
  \/ DrainItem \/ EndNormalDrain \/ EndDrain \/ DestroyThread

-----------------------------------------------------------------------------
(* The rest of the program, as far as the parser thread sees it.           *)

\* A step of another thread: it may move itself, StopIt and the directory lock.
EnvStep == UNCHANGED <<objectVars, consumerVars, threadVars, callVars, resultVars, skips, faults>>
UiStep(from, to) ==
  ui = from /\ ui' = to /\ EnvStep /\ UNCHANGED <<stopIt, shutdown, undone, load, loads>>
LoadStep(from, to) ==
  load = from /\ load' = to /\ EnvStep /\ UNCHANGED <<shutdown, ui, refactors>>

\* RefactoringActive, a stack object of the UI thread.
BeginRefactoring ==
  /\ shutdown = "running" /\ refactors < MaxRefactors /\ refactors' = refactors + 1
  /\ UiStep("idle", "refactoring") /\ UNCHANGED dirLock
EndRefactoring == UiStep("refactoring", "idle") /\ UNCHANGED <<dirLock, refactors>>
\* SynchronousFileParse: wants the lock, parses, releases it.
RequestSynchronousFileParse == UiStep("refactoring", "waiting") /\ UNCHANGED <<dirLock, refactors>>
SynchronousFileParse == UiStep("waiting", "parsing") /\ Acquire("ui") /\ UNCHANGED refactors
EndSynchronousFileParse == UiStep("parsing", "idle") /\ dirLock' = NoOne /\ UNCHANGED refactors

\* Project::LoadProject: StopIt = true, the lock, and StopIt = false again
\* unless the shell is unloading -- a test and an assignment.
LoadProject ==
  /\ loads < MaxLoads /\ loads' = loads + 1
  /\ LoadStep("none", "stopped") /\ stopIt' = TRUE /\ UNCHANGED <<undone, dirLock>>
LoadTakesDirLock == LoadStep("stopped", "locked") /\ Acquire("loader") /\ UNCHANGED <<stopIt, undone, loads>>
LoadTestsUnloading ==
  /\ LoadStep("locked", IF gShellIsUnloading THEN "loading" ELSE "cleared")
  /\ UNCHANGED <<stopIt, undone, dirLock, loads>>
LoadResetsStopIt ==
  /\ LoadStep("cleared", "loading") /\ stopIt' = FALSE
  /\ undone' = (undone \/ shutdown = "stopped")
  /\ UNCHANGED <<dirLock, loads>>
EndLoad == LoadStep("loading", "none") /\ dirLock' = NoOne /\ UNCHANGED <<stopIt, undone, loads>>

\* FreeTheGlobals, on the UI thread: two assignments.
FreeTheGlobals ==
  /\ shutdown = "running" /\ ui = "idle" /\ shutdown' = "unloading"
  /\ EnvStep /\ UNCHANGED <<stopIt, undone, ui, load, dirLock, loads, refactors>>
\* Mutant: only gShellIsUnloading is set.
StopAllThreads_noStopIt ==
  /\ shutdown = "unloading" /\ shutdown' = "stopped"
  /\ EnvStep /\ UNCHANGED <<stopIt, undone, ui, load, dirLock, loads, refactors>>
StopAllThreads ==
  /\ shutdown = "unloading" /\ shutdown' = "stopped" /\ stopIt' = TRUE
  /\ EnvStep /\ UNCHANGED <<undone, ui, load, dirLock, loads, refactors>>

Ui == EndRefactoring \/ SynchronousFileParse \/ EndSynchronousFileParse \/ StopAllThreads
Load == LoadTakesDirLock \/ LoadTestsUnloading \/ LoadResetsStopIt \/ EndLoad

Next ==
  \/ \E w \in Items : Producer(w)
  \/ Consumer \/ RunThrows
  \/ BeginRefactoring \/ RequestSynchronousFileParse \/ LoadProject \/ FreeTheGlobals
  \/ Ui \/ Load

Spec == Init /\ [][Next]_vars

\* The consumer and the threads it waits for are scheduled; a producer inside a
\* call returns.  The clock of the low priority pass moves on and the project
\* is not busy for ever.
Fairness ==
  /\ WF_vars(Consumer) /\ WF_vars(Ui) /\ WF_vars(Load)
  /\ SF_vars(TakeDirLock) /\ SF_vars(BeginLowPass) /\ SF_vars(ContinueLowPass)
  /\ \A w \in Items : WF_vars(QueueParseWorkItem(w))

FairSpec == Spec /\ Fairness

-----------------------------------------------------------------------------
(* Properties.                                                             *)

\* The jobs that are somewhere in the pipeline of the living object.
Held == AllQueued \cup SeqItems(skipped) \cup (IF wi = NoItem THEN {} ELSE {wi})
Finished == ran \cup dropped \cup leaked

\* The number of times w sits in a sequence.
Occurrences(w, q) == Cardinality({i \in DOMAIN q : q[i] = w})
Copies(w) ==
  Occurrences(w, queue[priLow]) + Occurrences(w, queue[priBelowNormal])
  + Occurrences(w, queue[priNormal]) + Occurrences(w, queue[priHigh])
  + Occurrences(w, skipped) + (IF wi = w THEN 1 ELSE 0)

\* Every item handed over is owned exactly once: it waits in one container, is
\* the consumer's current job, or is finished in exactly one way.  Skipping and
\* requeueing, the drain of the destructor and a restart neither lose a pointer
\* nor delete one twice.
OwnedOnce ==
  \A w \in Items :
    /\ call[w] = "handed" <=> Copies(w) + Cardinality({s \in {1, 2, 3} :
                                   w \in (CASE s = 1 -> ran [] s = 2 -> dropped [] s = 3 -> leaked)}) = 1
    /\ call[w] # "handed" => w \notin Held \cup Finished

\* An item that QueueFileWorkItem may still update is alive and not yet being
\* parsed: an equal request never writes to a deleted item, nor to one whose
\* text has been read.
RegisteredItemsAreWaiting ==
  \A w \in fileItems :
    /\ w \notin Finished
    /\ wi = w => pc \in {"unregister", "drainUnregister"}

\* mQueuedFileWorkItems never holds two requests for the same file.
OneRequestPerFile ==
  \A v, w \in fileItems : FileOf[v] = FileOf[w] => v = w

\* Once every request for a file that reached the thread has been served, the
\* database holds what the last of them asked for (or the parse was cut
\* short): an older text never overwrites a newer one.
Settled(f) ==
  \A w \in FileItems :
    FileOf[w] = f => call[w] \in {"new", "called", "merged"} \/ w \in ran
LastTextWins ==
  \A f \in Files :
    Settled(f) /\ latest[f] # NoItem => parsed[f] \in {latest[f], Aborted}

\* The answers of IsNormalJobActiveOrPending and HasBelowNormalJobActiveOrPending,
\* which other threads poll to wait for the parser, have no gap: a job the parser
\* holds and has not set aside is reported from its push to the end of its run.
NoGapInActivity ==
  \A w \in Held \ SeqItems(skipped) :
    /\ PriOf[w] >= priNormal => IsNormalJobActiveOrPending
    /\ PriOf[w] = priBelowNormal =>
         HasBelowNormalJobActiveOrPending \/ (w \in MaySkip /\ IsNormalJobActiveOrPending)

\* Jobs of one priority start in the order they were queued, unless they ask to
\* be set aside: CloseInheritanceDb relies on it to run after the resolvers.
FirstComeFirstServed ==
  \A i, j \in DOMAIN order :
    /\ i < j
    /\ PriOf[order[i]] = PriOf[order[j]]
    /\ order[i] \notin MaySkip /\ order[j] \notin MaySkip
    /\ order[j] \in ran \cup {wi}
    => order[i] \in Finished

\* Every step of the parser thread is a step of the service that it promises, or
\* changes nothing of it: urgent jobs go first, jobs of one priority in the order
\* they were queued (CloseInheritanceDb relies on it to run after the resolvers),
\* only a destructor discards, and what it leaves behind is late.
Service == INSTANCE JobService WITH
  Jobs <- Items, NoJob <- NoItem, Low <- priLow, Normal <- priNormal,
  submitted <- order, current <- wi, executed <- ran, discarded <- dropped \cup leaked,
  closing <- gParser # gen
Implements == Service!Spec

\* A job is executed by the owner of the DatabaseDirectoryLock only, whether in
\* Run, in the destructor, or in a synchronous parse on the UI thread.
JobsRunUnderDirLock ==
  /\ pc \in {"pop", "unregister", "run", "parsing", "lowPop", "drain", "drainUnregister", "drainRun",
               "drainLow"}
       => dirLock = "parser"
  /\ ui = "parsing" => dirLock = "ui"
  /\ load \in {"locked", "cleared", "loading"} => dirLock = "loader"

\* _ASSERTE(!mSkippedItems.size()) at the end of a pass: no item waits where
\* neither HasQueuedItems nor the destructor would find it.
NothingSetAsideBetweenPasses ==
  pc \in {"outer", "inner", "wait", "exit", "gone"} \cup DtorStates => skipped = <<>>

\* Work that must happen at shutdown is done when the thread is gone, if its
\* call returned before the destructor cleared g_ParserThread.
ShutdownWorkDone ==
  pc = "gone" =>
    \A w \in AtShutdown : call[w] = "handed" /\ w \notin late => w \in ran

\* A job that was handed over is executed, whatever its priority and however
\* often it is set aside, unless the program shuts down first.
QueuedJobsFinish ==
  \A w \in Items : call[w] = "handed" ~> w \in Finished \/ (stopIt /\ gShellIsUnloading)

\* After FreeTheGlobals the parser thread comes to an end, whatever it is doing,
\* unless a load that had found gShellIsUnloading FALSE takes StopIt back.
ShutdownCompletes == gShellIsUnloading ~> pc = "gone" \/ undone
=============================================================================
