--------------------------- MODULE EditorReparse ---------------------------
(***************************************************************************)
(* How the symbols of an edited file are kept up to date: EdCnt (the       *)
(* editor control, on the UI thread) starts timers, queues parses and      *)
(* takes what the parser thread sends back (Edcnt.cpp, ParseThrd.cpp).     *)
(*                                                                         *)
(* A request of QueForReparse replaces the symbols of the file in the      *)
(* databases that all files share, and, if its editor is still the current *)
(* one, makes a new local database for it.  A ReloadLocalDic, queued when  *)
(* an editor gets the focus, only makes the latter.  SetNewMparse hands a  *)
(* local database over with SendMessage(WM_VA_SET_DB).                     *)
(*                                                                         *)
(* A text is its version, and so is what was parsed; 0 is nothing.  The    *)
(* parser thread is here its queue of normal priority (see ParserThread).  *)
(***************************************************************************)
EXTENDS Integers, Sequences, FiniteSets

CONSTANTS
  Editors, NoEditor,
  First,         \* the editor that has the focus at first
  Headers,       \* editors whose file is a header
  Retained,      \* editors that are early enough in g_EdCntList to be one of the 14
                 \* that may keep their local symbols
  MaxEdits, MaxFocus,  \* bounds on edits and changes of focus
  MaxFailures          \* bound on project loads and exceptions together

ASSUME EditorAssumption ==
  /\ NoEditor \notin Editors /\ First \in Editors /\ Headers \subseteq Editors
  /\ Retained \subseteq Editors /\ IsFiniteSet(Editors)
  /\ {MaxEdits, MaxFocus, MaxFailures} \subseteq Nat

VARIABLES
  text, disk,          \* what each editor shows, and what is saved
  hasBuf,              \* m_buf is not empty
  m_FileHasTimerForFullReparse, m_FileIsQuedForFullReparse, mInitialParseCompleted,
  docTimer, reloadTimer,  \* ID_DOC_MODIFIED_TIMER, ID_TIMER_RELOAD_LOCAL_DB
  focus, g_currentEdCnt, lw, s_LastReparseFile,
  mPendingMp, m_pmparse,
  upc, clearing,       \* where the UI thread is; the editors that it empties
  queue, job, jpc,     \* mWorkItems, the job at work and where it is
  stopped,             \* mActiveReloadMp was told to stop
  dictionary,          \* what the shared databases hold of each file
  load,                \* a project load: "stopping" sets StopIt
  edits, focusChanges, failures,
  dropped,             \* history: what the job that was given up last left undone, by
                       \* StopIt or an exception, and no request is there to do
  outrun               \* an older text was delivered after a newer was parsed

textVars == <<text, disk, edits>>
flagVars == <<m_FileHasTimerForFullReparse, m_FileIsQuedForFullReparse>>
timerVars == <<docTimer, reloadTimer>>
focusVars == <<focus, g_currentEdCnt, focusChanges>>
lastVars == <<lw, s_LastReparseFile>>
dbVars == <<mPendingMp, m_pmparse, mInitialParseCompleted, outrun>>
uiVars == <<upc, clearing, hasBuf>>
jobVars == <<job, jpc, stopped, dictionary>>
loadVars == <<load, failures>>
vars == <<textVars, flagVars, timerVars, focusVars, lastVars, dbVars, uiVars, queue, jobVars,
          loadVars, dropped>>

None == -1   \* no MultiParse
NoJob == [kind |-> "none", ed |-> NoEditor, text |-> 0]
Version == 0..(MaxEdits + 1)
Jobs == [kind : {"file", "reload"}, ed : Editors, text : Version]

UiTypeOK ==
  /\ text \in [Editors -> Version] /\ disk \in [Editors -> Version]
  /\ hasBuf \in [Editors -> BOOLEAN]
  /\ m_FileHasTimerForFullReparse \in [Editors -> BOOLEAN]
  /\ m_FileIsQuedForFullReparse \in [Editors -> BOOLEAN]
  /\ mInitialParseCompleted \in [Editors -> BOOLEAN]
  /\ docTimer \in [Editors -> BOOLEAN] /\ reloadTimer \in [Editors -> BOOLEAN]
  /\ focus \in Editors \cup {NoEditor} /\ lw \in Editors \cup {NoEditor}
  /\ s_LastReparseFile \in Editors \cup {NoEditor}
  /\ g_currentEdCnt \in Editors
  /\ mPendingMp \in [Editors -> Version \cup {None}] /\ m_pmparse \in [Editors -> Version]
  /\ upc \in {"idle", "clear", "send"} /\ clearing \in Seq(Editors)
  /\ upc = "send" => clearing # <<>>
  /\ upc # "idle" => lw # NoEditor

JobTypeOK ==
  /\ queue \in Seq(Jobs) /\ job \in Jobs \cup {NoJob}
  /\ jpc \in {"idle", "start", "removed", "locals", "send", "sent", "end"}
  /\ jpc = "idle" <=> job = NoJob
  /\ stopped \in BOOLEAN /\ (stopped => job.kind = "reload") /\ dictionary \in [Editors -> Version]

RestTypeOK ==
  /\ load \in {"none", "stopping", "loading"}
  /\ edits \in 0..MaxEdits /\ focusChanges \in 0..MaxFocus /\ failures \in 0..MaxFailures
  /\ dropped \in [Editors -> SUBSET {"text", "locals", "flag"}]
  /\ outrun \in [Editors -> BOOLEAN]

TypeOK == UiTypeOK /\ JobTypeOK /\ RestTypeOK

\* The files are open, and one of the editors has just got the focus.
Init ==
  /\ text = [e \in Editors |-> 1] /\ disk = text
  /\ hasBuf = [e \in Editors |-> TRUE]
  /\ m_FileHasTimerForFullReparse = [e \in Editors |-> FALSE]
  /\ m_FileIsQuedForFullReparse = [e \in Editors |-> FALSE]
  /\ mInitialParseCompleted = [e \in Editors |-> FALSE]
  /\ docTimer = [e \in Editors |-> FALSE]
  /\ focus = First /\ g_currentEdCnt = First
  /\ reloadTimer = [e \in Editors |-> e = focus]
  /\ lw = NoEditor /\ s_LastReparseFile = NoEditor
  /\ mPendingMp = [e \in Editors |-> None] /\ m_pmparse = [e \in Editors |-> 0]
  /\ upc = "idle" /\ clearing = <<>> /\ queue = <<>> /\ job = NoJob /\ jpc = "idle"
  /\ stopped = FALSE /\ dictionary = [e \in Editors |-> 0]
  /\ load = "none" /\ edits = 0 /\ focusChanges = 0 /\ failures = 0
  /\ dropped = [e \in Editors |-> {}] /\ outrun = [e \in Editors |-> FALSE]

StopIt == load = "stopping"
IsBusy == load # "none"
Modified(e) == text[e] # disk[e]

-----------------------------------------------------------------------------
(* Requests *)

QueueFile_keepText(e) ==
  queue' = IF \E i \in DOMAIN queue : queue[i].kind = "file" /\ queue[i].ed = e THEN queue
           ELSE Append(queue, [kind |-> "file", ed |-> e, text |-> text[e]])
\* A request for the same editor that still waits gets the new text.
QueueFile(e) ==
  LET waiting == {i \in DOMAIN queue : queue[i].kind = "file" /\ queue[i].ed = e}
  IN queue' = IF waiting = {}
                THEN Append(queue, [kind |-> "file", ed |-> e, text |-> text[e]])
                ELSE [i \in DOMAIN queue |->
                       IF i \in waiting THEN [queue[i] EXCEPT !.text = text[e]] ELSE queue[i]]

\* Leaves m_FileHasTimerForFullReparse alone: WM_VA_SET_DB will reset it.
QueForReparse_keepLast(e) ==
  /\ docTimer' = [docTimer EXCEPT ![e] = FALSE]
  /\ reloadTimer' = [reloadTimer EXCEPT ![e] = FALSE]
  /\ m_FileIsQuedForFullReparse' = [m_FileIsQuedForFullReparse EXCEPT ![e] = TRUE]
  /\ QueueFile(e) /\ dropped' = [dropped EXCEPT ![e] = {}]
  /\ hasBuf' = [hasBuf EXCEPT ![e] = TRUE]
  /\ UNCHANGED <<textVars, m_FileHasTimerForFullReparse, focusVars, lastVars, dbVars, clearing,
                 jobVars, loadVars>>
QueForReparse(e) ==
  /\ docTimer' = [docTimer EXCEPT ![e] = FALSE]
  /\ reloadTimer' = [reloadTimer EXCEPT ![e] = FALSE]
  /\ m_FileIsQuedForFullReparse' = [m_FileIsQuedForFullReparse EXCEPT ![e] = TRUE]
  /\ s_LastReparseFile' = NoEditor
  /\ QueueFile(e) /\ dropped' = [dropped EXCEPT ![e] = {}]
  /\ hasBuf' = [hasBuf EXCEPT ![e] = TRUE]
  /\ UNCHANGED <<textVars, m_FileHasTimerForFullReparse, focusVars, lw, dbVars, clearing,
                 jobVars, loadVars>>

-----------------------------------------------------------------------------
(* The UI thread: the user *)

\* An edit and OnModified.
Type(e) ==
  /\ upc = "idle" /\ focus = e /\ edits < MaxEdits
  /\ edits' = edits + 1 /\ text' = [text EXCEPT ![e] = @ + 1]
  /\ m_FileHasTimerForFullReparse' = [m_FileHasTimerForFullReparse EXCEPT ![e] = TRUE]
  /\ docTimer' = [docTimer EXCEPT ![e] = TRUE] /\ hasBuf' = [hasBuf EXCEPT ![e] = TRUE]
  /\ UNCHANGED <<disk, m_FileIsQuedForFullReparse, reloadTimer, focusVars, lastVars, dbVars,
                 upc, clearing, queue, jobVars, loadVars, dropped>>

Save(e) ==
  /\ upc = "idle" /\ focus = e /\ Modified(e)
  /\ disk' = [disk EXCEPT ![e] = text[e]]
  /\ UNCHANGED <<text, edits, flagVars, timerVars, focusVars, lastVars, dbVars, uiVars, queue,
                 jobVars, loadVars, dropped>>

\* OnKeyUp: SetReparseTimer.
KeyUp(e) ==
  /\ upc = "idle" /\ focus = e /\ m_FileHasTimerForFullReparse[e]
  /\ docTimer' = [docTimer EXCEPT ![e] = TRUE]
  /\ UNCHANGED <<textVars, flagVars, reloadTimer, focusVars, lastVars, dbVars, uiVars, queue,
                 jobVars, loadVars, dropped>>

\* OnKillFocus of e: OnModified(TRUE) if a reparse is due.
KillFocus(e) ==
  docTimer' = [docTimer EXCEPT ![e] = @ \/ m_FileHasTimerForFullReparse[e]]

LeaveEditors ==
  /\ upc = "idle" /\ focus # NoEditor /\ focusChanges < MaxFocus
  /\ focusChanges' = focusChanges + 1 /\ focus' = NoEditor /\ KillFocus(focus)
  /\ UNCHANGED <<textVars, flagVars, reloadTimer, g_currentEdCnt, lastVars, dbVars, uiVars,
                 queue, jobVars, loadVars, dropped>>

OnSetFocus(e) ==
  /\ upc = "idle" /\ focus # e /\ focusChanges < MaxFocus
  /\ focusChanges' = focusChanges + 1 /\ focus' = e /\ g_currentEdCnt' = e
  /\ IF g_currentEdCnt = e THEN UNCHANGED docTimer ELSE KillFocus(g_currentEdCnt)
  /\ reloadTimer' = [reloadTimer EXCEPT ![e] = TRUE]
  /\ UNCHANGED <<textVars, flagVars, lastVars, dbVars, uiVars, queue, jobVars, loadVars,
                 dropped>>

-----------------------------------------------------------------------------
(* The UI thread: timers *)

\* While a refactoring or a rename suggestion is open the timer only repeats.
DocModifiedTimer(e) ==
  /\ upc = "idle" /\ docTimer[e] /\ QueForReparse(e) /\ UNCHANGED upc

\* WM_VA_SET_DB; it knows nothing of edits made since the text was taken.
SetDb(e) ==
  /\ mPendingMp' = [mPendingMp EXCEPT ![e] = None]
  /\ m_FileHasTimerForFullReparse' = [m_FileHasTimerForFullReparse EXCEPT ![e] = FALSE]
  /\ m_FileIsQuedForFullReparse' = [m_FileIsQuedForFullReparse EXCEPT ![e] = FALSE]
  /\ IF mPendingMp[e] = None THEN UNCHANGED <<m_pmparse, mInitialParseCompleted, outrun>>
     ELSE /\ m_pmparse' = [m_pmparse EXCEPT ![e] = mPendingMp[e]]
          /\ mInitialParseCompleted' = [mInitialParseCompleted EXCEPT ![e] = TRUE]
          /\ outrun' = [outrun EXCEPT ![e] = 0 < mPendingMp[e] /\ mPendingMp[e] < dictionary[e]]

\* The reload of an editor that has the focus; it waits for a load to end and for
\* a reparse that is due.  The other unmodified editors
\* are emptied, save for the first ones in the list.
ReloadTimer(e) ==
  /\ upc = "idle" /\ reloadTimer[e]
  /\ \/ /\ focus # e \/ (lw = e /\ s_LastReparseFile = e)
        /\ UNCHANGED <<lastVars, uiVars>>
     \/ /\ focus = e /\ (lw # e \/ s_LastReparseFile # e)
        /\ ~IsBusy /\ ~m_FileHasTimerForFullReparse[e]
        /\ lw' = e /\ s_LastReparseFile' = e
        /\ LET others == {o \in Editors \ (Retained \cup {e}) : ~Modified(o) /\ hasBuf[o]}
           IN \E s \in [1..Cardinality(others) -> others] :
                {s[i] : i \in DOMAIN s} = others /\ clearing' = s
        /\ upc' = "clear" /\ hasBuf' = [hasBuf EXCEPT ![e] = TRUE]
  /\ reloadTimer' = [reloadTimer EXCEPT ![e] = FALSE]
  /\ UNCHANGED <<textVars, flagVars, docTimer, focusVars, dbVars, queue, jobVars, loadVars,
                 dropped>>

\* SetNewMparse with an empty MultiParse, which the parser thread may replace by
\* its own before it is taken.
ClearOther ==
  /\ upc = "clear" /\ clearing # <<>> /\ upc' = "send"
  /\ LET o == Head(clearing)
     IN /\ hasBuf' = [hasBuf EXCEPT ![o] = FALSE]
        /\ mPendingMp' = [mPendingMp EXCEPT ![o] = 0]
  /\ UNCHANGED <<textVars, flagVars, timerVars, focusVars, lastVars, m_pmparse,
                 mInitialParseCompleted, outrun, clearing, queue, jobVars, loadVars, dropped>>
SendOther ==
  /\ upc = "send" /\ upc' = "clear" /\ SetDb(Head(clearing)) /\ clearing' = Tail(clearing)
  /\ UNCHANGED <<textVars, timerVars, focusVars, lastVars, hasBuf, queue, jobVars, loadVars,
                 dropped>>

\* The ReloadLocalDic is made, with the text if that is not saved, and queued.  One
\* at work is told to stop, unless it has not set mActiveReloadMp yet.
QueueReload ==
  /\ upc = "clear" /\ clearing = <<>> /\ upc' = "idle"
  /\ \/ stopped' = (stopped \/ job.kind = "reload")
     \/ jpc = "start" /\ UNCHANGED stopped
  /\ queue' = Append(queue, [kind |-> "reload", ed |-> lw,
                             text |-> IF Modified(lw) THEN text[lw] ELSE 0])
  /\ UNCHANGED <<textVars, flagVars, timerVars, focusVars, lastVars, dbVars, clearing, hasBuf,
                 job, jpc, dictionary, loadVars, dropped>>

\* Scope asks for the first parse of a file that has a buffer.
Scope(e) ==
  /\ upc = "idle" /\ focus = e /\ hasBuf[e] /\ m_pmparse[e] = 0
  /\ queue = <<>> /\ job = NoJob /\ ~m_FileIsQuedForFullReparse[e]
  /\ QueForReparse(e) /\ UNCHANGED upc

\* ReparseAndWaitIfNeeded; the wait that follows, in which the UI thread only
\* answers sent messages, is its doing nothing here.
ReparseAndWaitIfNeeded(e) ==
  /\ upc = "idle" /\ focus = e /\ ~m_FileIsQuedForFullReparse[e]
  /\ ~mInitialParseCompleted[e] \/ m_FileHasTimerForFullReparse[e]
  /\ QueForReparse(e) /\ UNCHANGED upc

-----------------------------------------------------------------------------
(* The parser thread *)

jobRest == <<textVars, timerVars, focusVars, lastVars, uiVars, loadVars>>
JobStep(from, to) == jpc = from /\ jpc' = to
E == job.ed

\* A reload is put off while the project is busy.
TakeJob ==
  /\ JobStep("idle", "start") /\ ~StopIt /\ queue # <<>>
  /\ Head(queue).kind = "reload" => ~IsBusy
  /\ job' = Head(queue) /\ queue' = Tail(queue)
  /\ UNCHANGED <<jobRest, flagVars, dbVars, stopped, dictionary, dropped>>
SkipJob ==
  /\ jpc = "idle" /\ ~StopIt /\ IsBusy /\ Len(queue) > 1 /\ Head(queue).kind = "reload"
  /\ queue' = Append(Tail(queue), Head(queue))
  /\ UNCHANGED <<jobRest, flagVars, dbVars, jobVars, dropped>>

\* mActiveReloadMp is gone.
EndJob == jpc' = "idle" /\ job' = NoJob /\ stopped' = FALSE

\* What the job at work leaves undone; a newer request that waits will do it all.
GiveUp(what) ==
  dropped' = IF \E i \in DOMAIN queue : queue[i].kind = "file" /\ queue[i].ed = E
               THEN dropped ELSE [dropped EXCEPT ![E] = @ \cup what]

\* StopIt is looked at before and after the old symbols are removed.
Abandon ==
  /\ job.kind = "file" /\ jpc \in {"start", "removed"} /\ StopIt /\ EndJob
  /\ GiveUp({"text", "locals", "flag"})
  /\ UNCHANGED <<jobRest, flagVars, dbVars, queue, dictionary>>
\* An exception anywhere in DoParseWork is caught at its end: nothing more is done, the
\* flag is not taken back, and nobody asks again.  What was read of the shared symbols
\* when their parse throws counts as nothing.
ParseThrows ==
  /\ failures < MaxFailures /\ failures' = failures + 1
  /\ jpc \in {"start", "removed", "locals"} /\ EndJob
  /\ GiveUp(CASE job.kind = "reload" -> {"locals"}
              [] job.kind = "file" /\ jpc = "locals" -> {"locals", "flag"}
              [] OTHER -> {"text", "locals", "flag"})
  /\ UNCHANGED <<textVars, timerVars, focusVars, lastVars, uiVars, load, flagVars,
                 dbVars, queue, dictionary>>
RemoveAllDefs ==
  /\ job.kind = "file" /\ ~StopIt /\ JobStep("start", "removed")
  /\ dictionary' = [dictionary EXCEPT ![E] = 0]
  /\ UNCHANGED <<jobRest, flagVars, dbVars, queue, job, stopped, dropped>>
ParseGlobals ==
  /\ job.kind = "file" /\ ~StopIt /\ JobStep("removed", "locals")
  /\ dictionary' = [dictionary EXCEPT ![E] = job.text]
  /\ UNCHANGED <<jobRest, flagVars, dbVars, queue, job, stopped, dropped>>

\* ReloadLocalDic reads a saved file when it runs.
ReadText ==
  /\ job.kind = "reload" /\ JobStep("start", "locals")
  /\ LET read == IF job.text = 0 THEN disk[E] ELSE job.text
     IN /\ job' = [job EXCEPT !.text = read]
        /\ dictionary' = IF E \in Headers /\ dictionary[E] = 0
                           THEN [dictionary EXCEPT ![E] = read] ELSE dictionary
  /\ UNCHANGED <<jobRest, flagVars, dbVars, queue, stopped, dropped>>

\* Whether there is anybody to send the local symbols to.
MayDeliver == IF job.kind = "file" THEN ~StopIt /\ g_currentEdCnt = E ELSE ~stopped

\* The local symbols are parsed, and SetNewMparse leaves them for the UI thread.
ParseLocals ==
  /\ JobStep("locals", "send") /\ MayDeliver
  /\ mPendingMp' = [mPendingMp EXCEPT ![E] = job.text]
  /\ UNCHANGED <<jobRest, flagVars, m_pmparse, mInitialParseCompleted, outrun, queue, job,
                 stopped, dictionary, dropped>>
SkipLocals ==
  /\ JobStep("locals", "end") /\ ~MayDeliver
  /\ IF job.kind = "file" /\ StopIt THEN GiveUp({"locals"}) ELSE UNCHANGED dropped
  /\ UNCHANGED <<jobRest, flagVars, dbVars, queue, job, stopped, dictionary>>

\* The message of SetNewMparse, on the UI thread.
AnswerSetDb ==
  /\ upc = "idle"
  /\ JobStep("send", IF mPendingMp[E] = None THEN "end" ELSE "sent") /\ SetDb(E)
  /\ UNCHANGED <<jobRest, queue, job, stopped, dictionary, dropped>>

FinishJob_keepQueued ==
  /\ jpc \in {"sent", "end"} /\ EndJob
  /\ UNCHANGED <<jobRest, flagVars, dbVars, queue, dictionary, dropped>>
\* A request that sent nothing takes the flag back itself.
FinishJob ==
  /\ jpc \in {"sent", "end"} /\ EndJob
  /\ m_FileIsQuedForFullReparse' =
       [m_FileIsQuedForFullReparse EXCEPT ![E] = @ /\ (job.kind = "reload" \/ jpc = "sent")]
  /\ UNCHANGED <<jobRest, m_FileHasTimerForFullReparse, dbVars, queue, dictionary, dropped>>

\* Project loads set StopIt and reset it.
ProjectLoad ==
  /\ \/ load = "none" /\ failures < MaxFailures /\ load' = "stopping" /\ failures' = failures + 1
     \/ load = "stopping" /\ load' = "loading" /\ UNCHANGED failures
     \/ load = "loading" /\ load' = "none" /\ UNCHANGED failures
  /\ UNCHANGED <<textVars, flagVars, timerVars, focusVars, lastVars, dbVars, uiVars, queue,
                 jobVars, dropped>>

-----------------------------------------------------------------------------
User == \E e \in Editors : Type(e) \/ Save(e) \/ KeyUp(e) \/ OnSetFocus(e)
Timers == \E e \in Editors : DocModifiedTimer(e) \/ ReloadTimer(e) \/ Scope(e)
Waits == \E e \in Editors : ReparseAndWaitIfNeeded(e)
UiThread == ClearOther \/ SendOther \/ QueueReload
Parser ==
  \/ TakeJob \/ SkipJob \/ Abandon \/ ParseThrows \/ RemoveAllDefs \/ ParseGlobals \/ ReadText
  \/ ParseLocals \/ SkipLocals \/ AnswerSetDb \/ FinishJob

Next == User \/ LeaveEditors \/ Timers \/ Waits \/ UiThread \/ Parser \/ ProjectLoad

Spec == Init /\ [][Next]_vars
\* Threads run, timers fire, waits time out and loads end.
FairSpec ==
  Spec /\ WF_vars(Timers) /\ WF_vars(UiThread) /\ WF_vars(Parser) /\ WF_vars(ProjectLoad)

-----------------------------------------------------------------------------
(* Properties *)

Requested(e) ==
  \/ \E i \in DOMAIN queue : queue[i] = [kind |-> "file", ed |-> e, text |-> text[e]]
  \/ /\ job = [kind |-> "file", ed |-> e, text |-> text[e]]
     /\ jpc \in {"start", "removed"}

\* No edit is forgotten: its text is in the shared databases, being parsed or
\* queued, or a timer runs that will queue it; unless the parser thread gave up the
\* request of that very text, because of StopIt or an exception.
EditsReachTheDictionary ==
  \A e \in Editors :
    text[e] > 1 =>
      dictionary[e] = text[e] \/ docTimer[e] \/ Requested(e) \/ "text" \in dropped[e]

\* Local symbols of the editor at work that do not match its text are known to be
\* out of date: a flag or a timer says so, a job will bring new ones, or there are
\* none at all; except when StopIt or an exception ended the last parse, or when an
\* older text came last.
Reloading(e) ==
  \/ \E i \in DOMAIN queue : queue[i].ed = e
  \/ /\ job.ed = e /\ jpc \notin {"sent", "end"}
     /\ ~(job.kind = "reload" /\ stopped)
StaleLocalsAreKnown ==
  \A e \in Editors :
    focus = e =>
      \/ m_pmparse[e] \in {text[e], 0} \/ "locals" \in dropped[e] \/ outrun[e]
      \/ m_FileHasTimerForFullReparse[e] \/ docTimer[e] \/ reloadTimer[e]
      \/ Reloading(e) \/ (lw = e /\ upc \in {"clear", "send"})

\* An editor that counts itself as queued has a request, or had one that StopIt or
\* an exception ended; the flag keeps Scope and underlining from running.
QueuedMeansRequested ==
  \A e \in Editors : m_FileIsQuedForFullReparse[e] =>
    \/ "flag" \in dropped[e] \/ (job.kind = "file" /\ job.ed = e)
    \/ \E i \in DOMAIN queue : queue[i].kind = "file" /\ queue[i].ed = e

\* No timer, message or job is left that would do anything for the editor; a reload
\* waits while a reparse is due.
Quiet(e) ==
  /\ ~docTimer[e] /\ (reloadTimer[e] => focus = e /\ m_FileHasTimerForFullReparse[e])
  /\ ~(lw = e /\ upc \in {"clear", "send"}) /\ \A i \in DOMAIN clearing : clearing[i] # e
  /\ job.ed # e /\ \A i \in DOMAIN queue : queue[i].ed # e

\* An editor that counts itself as queued ceases to, unless StopIt or an exception
\* ended its last request: then it may do so until the user acts, and that is all that
\* it waits for.
QueuedEnds ==
  \A e \in Editors :
    m_FileIsQuedForFullReparse[e] ~>
      ~m_FileIsQuedForFullReparse[e] \/ ("flag" \in dropped[e] /\ Quiet(e))
=============================================================================
