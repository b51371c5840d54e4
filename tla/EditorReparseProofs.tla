------------------------ MODULE EditorReparseProofs ------------------------
(***************************************************************************)
(* No edit is forgotten, no editor counts itself as queued without a       *)
(* request, and local symbols do not fall behind the text unnoticed, for   *)
(* any number of editors, edits, timers and project loads.                 *)
(***************************************************************************)
EXTENDS EditorReparse, FiniteSetTheorems, TLAPS

-----------------------------------------------------------------------------
(* The inductive invariant.                                                *)

InQueue(j) == \E i \in DOMAIN queue : queue[i] = j
Request(e) == [kind |-> "file", ed |-> e, text |-> text[e]]

VersionsCounted == \A e \in Editors : text[e] <= edits + 1 /\ disk[e] <= edits + 1

\* A request has the text of its editor, or the timer for the next one runs.
QueueCurrent ==
  \A j \in Jobs : InQueue(j) /\ j.kind = "file" => j = Request(j.ed) \/ docTimer[j.ed]

\* So has the one at work, or the next one is queued already: as long as it may
\* still remove or replace the symbols in the shared databases.
JobCurrent ==
  job.kind = "file" /\ jpc \in {"start", "removed"} =>
    job = Request(job.ed) \/ docTimer[job.ed] \/ InQueue(Request(job.ed))

\* A request that leaves the shared symbols undone leaves the local ones undone too.
DroppedTogether == \A e \in Editors : "text" \in dropped[e] => "locals" \in dropped[e]

IInv ==
  /\ TypeOK /\ VersionsCounted /\ QueueCurrent /\ JobCurrent /\ EditsReachTheDictionary
  /\ DroppedTogether

-----------------------------------------------------------------------------
(* What the operations do to the queue.                                    *)

LEMMA AppendQueue ==
  ASSUME queue \in Seq(Jobs), NEW k \in Jobs, queue' = Append(queue, k)
  PROVE  /\ queue' \in Seq(Jobs)
         /\ \A j \in Jobs : InQueue(j)' <=> InQueue(j) \/ j = k
<1>1. queue' \in Seq(Jobs) /\ Len(queue') = Len(queue) + 1  OBVIOUS
<1>2. ASSUME NEW j \in Jobs PROVE InQueue(j)' <=> InQueue(j) \/ j = k
  <2>1. ASSUME InQueue(j) PROVE InQueue(j)'
    BY <1>1, <2>1 DEF InQueue
  <2>2. ASSUME j = k PROVE InQueue(j)'
    <3>1. Len(queue) + 1 \in DOMAIN queue' /\ queue'[Len(queue) + 1] = j  BY <1>1, <2>2
    <3> QED  BY <3>1 DEF InQueue
  <2>3. ASSUME InQueue(j)' PROVE InQueue(j) \/ j = k
    BY <1>1, <2>3 DEF InQueue
  <2> QED  BY <2>1, <2>2, <2>3
<1> QED  BY <1>1, <1>2

LEMMA TakeHead ==
  ASSUME queue \in Seq(Jobs), queue # <<>>, queue' = Tail(queue)
  PROVE  /\ queue' \in Seq(Jobs) /\ Head(queue) \in Jobs
         /\ \A j \in Jobs : InQueue(j) <=> InQueue(j)' \/ j = Head(queue)
<1>1. /\ queue' \in Seq(Jobs) /\ Head(queue) \in Jobs /\ Head(queue) = queue[1]
      /\ 1 \in DOMAIN queue /\ Len(queue) \in Nat /\ Len(queue') = Len(queue) - 1
      /\ DOMAIN queue = 1..Len(queue) /\ DOMAIN queue' = 1..Len(queue')
  OBVIOUS
<1>2. ASSUME NEW i \in DOMAIN queue' PROVE i + 1 \in DOMAIN queue /\ queue'[i] = queue[i + 1]
  BY <1>1
<1>3. ASSUME NEW i \in DOMAIN queue, i # 1
      PROVE  i - 1 \in DOMAIN queue' /\ queue'[i - 1] = queue[i]
  <2>1. i \in Nat /\ i - 1 \in DOMAIN queue' /\ (i - 1) + 1 = i  BY <1>1, <1>3
  <2>2. queue'[i - 1] = queue[(i - 1) + 1]  BY <1>2, <2>1
  <2> QED  BY <2>1, <2>2
<1>4. ASSUME NEW j \in Jobs PROVE InQueue(j) <=> InQueue(j)' \/ j = Head(queue)
  <2>1. ASSUME InQueue(j), j # Head(queue) PROVE InQueue(j)'
    <3>1. PICK i \in DOMAIN queue : queue[i] = j  BY <2>1 DEF InQueue
    <3>2. i # 1  BY <1>1, <2>1, <3>1
    <3> QED  BY <1>3, <3>1, <3>2 DEF InQueue
  <2>2. ASSUME InQueue(j)' PROVE InQueue(j)
    BY <1>2, <2>2 DEF InQueue
  <2>3. ASSUME j = Head(queue) PROVE InQueue(j)
    BY <1>1, <2>3 DEF InQueue
  <2> QED  BY <2>1, <2>2, <2>3
<1> QED  BY <1>1, <1>4

LEMMA RotateQueue ==
  ASSUME queue \in Seq(Jobs), queue # <<>>, queue' = Append(Tail(queue), Head(queue))
  PROVE  queue' \in Seq(Jobs) /\ \A j \in Jobs : InQueue(j)' <=> InQueue(j)
<1>1. /\ Tail(queue) \in Seq(Jobs) /\ Head(queue) \in Jobs /\ Head(queue) = queue[1]
      /\ Len(queue) \in Nat /\ 1 <= Len(queue) /\ Len(Tail(queue)) = Len(queue) - 1
      /\ \A i \in 1..(Len(queue) - 1) : Tail(queue)[i] = queue[i + 1]
  OBVIOUS
<1>2. /\ queue' \in Seq(Jobs) /\ Len(queue') = Len(queue)
      /\ queue'[Len(queue)] = queue[1]
      /\ \A i \in 1..(Len(queue) - 1) : queue'[i] = queue[i + 1]
  BY <1>1
<1>3. DOMAIN queue = 1..Len(queue) /\ DOMAIN queue' = 1..Len(queue)  BY <1>1, <1>2
<1>4. ASSUME NEW j \in Jobs, InQueue(j) PROVE InQueue(j)'
  <2>1. PICK i \in 1..Len(queue) : queue[i] = j  BY <1>3, <1>4 DEF InQueue
  <2>2. CASE i = 1  BY <1>1, <1>2, <1>3, <2>1, <2>2 DEF InQueue
  <2>3. CASE i # 1
    <3>1. i - 1 \in 1..(Len(queue) - 1) /\ (i - 1) + 1 = i  BY <1>1, <2>3
    <3>2. queue'[i - 1] = j  BY <1>2, <2>1, <3>1
    <3>3. i - 1 \in 1..Len(queue)  BY <1>1, <3>1
    <3> QED  BY <1>3, <3>2, <3>3 DEF InQueue
  <2> QED  BY <2>2, <2>3
<1>5. ASSUME NEW j \in Jobs, InQueue(j)' PROVE InQueue(j)
  <2>1. PICK i \in 1..Len(queue) : queue'[i] = j  BY <1>3, <1>5 DEF InQueue
  <2>2. CASE i = Len(queue)
    <3>1. queue[1] = j /\ 1 \in DOMAIN queue  BY <1>1, <1>2, <1>3, <2>1, <2>2
    <3> QED  BY <3>1 DEF InQueue
  <2>3. CASE i # Len(queue)
    <3>1. i \in 1..(Len(queue) - 1) /\ i + 1 \in 1..Len(queue)
      <4>1. Len(queue) \in Nat  BY <1>1
      <4> QED  BY <2>1, <2>3, <4>1
    <3> QED  BY <1>2, <1>3, <2>1, <3>1 DEF InQueue
  <2> QED  BY <2>2, <2>3
<1> QED  BY <1>2, <1>4, <1>5

LEMMA MergeRequest ==
  ASSUME TypeOK, NEW e \in Editors, QueueFile(e)
  PROVE  /\ queue' \in Seq(Jobs)
         /\ \A j \in Jobs :
              InQueue(j)' <=> \/ j = Request(e)
                              \/ InQueue(j) /\ ~(j.kind = "file" /\ j.ed = e)
<1> DEFINE waiting == {i \in DOMAIN queue : queue[i].kind = "file" /\ queue[i].ed = e}
<1>1. Request(e) \in Jobs /\ queue \in Seq(Jobs)  BY DEF TypeOK, JobTypeOK, UiTypeOK, Jobs, Request
<1>2. CASE waiting = {}
  <2>1. queue' = Append(queue, Request(e))  BY <1>2 DEF QueueFile, Request
  <2>2. \A j \in Jobs : InQueue(j) => ~(j.kind = "file" /\ j.ed = e)  BY <1>2 DEF InQueue
  <2> QED  BY <1>1, <2>1, <2>2, AppendQueue
<1>3. CASE waiting # {}
  <2>1. queue' = [i \in DOMAIN queue |->
                   IF i \in waiting THEN [queue[i] EXCEPT !.text = text[e]] ELSE queue[i]]
    BY <1>3 DEF QueueFile
  <2>2. ASSUME NEW i \in waiting PROVE [queue[i] EXCEPT !.text = text[e]] = Request(e)
    <3>1. queue[i] \in Jobs  BY <1>1
    <3> QED  BY <3>1 DEF Request, Jobs
  <2>3. DOMAIN queue' = DOMAIN queue
    BY <2>1
  <2>4. \A i \in DOMAIN queue :
          queue'[i] = IF i \in waiting THEN Request(e) ELSE queue[i]
    BY <2>1, <2>2
  <2>5. queue' \in Seq(Jobs)
    <3>1. DOMAIN queue = 1..Len(queue) /\ Len(queue) \in Nat  BY <1>1
    <3>2. \A i \in 1..Len(queue) : queue'[i] \in Jobs  BY <1>1, <2>4, <3>1
    <3>3. queue' \in [1..Len(queue) -> Jobs]  BY <2>1, <2>3, <3>1, <3>2
    <3> QED  BY <3>1, <3>3
  <2>6. ASSUME NEW j \in Jobs
        PROVE  InQueue(j)' <=> \/ j = Request(e)
                               \/ InQueue(j) /\ ~(j.kind = "file" /\ j.ed = e)
    <3> HIDE DEF waiting
    <3>1. \E i \in DOMAIN queue : i \in waiting  BY <1>3 DEF waiting
    <3>2. \A i \in DOMAIN queue : i \in waiting <=> queue[i].kind = "file" /\ queue[i].ed = e
      BY DEF waiting
    <3>3. Request(e).kind = "file" /\ Request(e).ed = e  BY DEF Request
    <3> QED  BY <2>3, <2>4, <3>1, <3>2, <3>3 DEF InQueue
  <2> QED  BY <2>5, <2>6
<1> QED  BY <1>2, <1>3

LEMMA RequestIsJob ==
  ASSUME TypeOK, NEW e \in Editors
  PROVE  Request(e) \in Jobs /\ Request(e).kind = "file" /\ Request(e).ed = e
BY DEF Request, Jobs, TypeOK, UiTypeOK

LEMMA RequestedMeans ==
  ASSUME NEW e \in Editors
  PROVE  /\ Requested(e) <=> \/ InQueue(Request(e))
                             \/ job = Request(e) /\ jpc \in {"start", "removed"}
         /\ Requested(e)' <=> \/ InQueue(Request(e))'
                              \/ job' = Request(e)' /\ jpc' \in {"start", "removed"}
BY DEF Requested, InQueue, Request

-----------------------------------------------------------------------------
(* The invariant is kept.                                                  *)

LEMMA Bounds == {MaxEdits, MaxFocus, MaxFailures} \subseteq Nat
BY EditorAssumption

LEMMA IInvInit == Init => IInv
<1> SUFFICES ASSUME Init PROVE IInv  OBVIOUS
<1> USE EditorAssumption DEF Init
<1>1. MaxEdits \in Nat /\ MaxFocus \in Nat /\ MaxFailures \in Nat  BY Bounds
<1>2. 0 \in Version /\ 1 \in Version /\ -1 \in Version \cup {-1}  BY <1>1 DEF Version
<1>3. UiTypeOK
  <2>1. clearing \in Seq(Editors)  OBVIOUS
  <2> QED  BY <1>2, <2>1 DEF UiTypeOK, None
<1>4. JobTypeOK
  <2>1. queue \in Seq(Jobs)  OBVIOUS
  <2>2. dictionary \in [Editors -> Version]  BY <1>2
  <2>3. stopped \in BOOLEAN /\ (stopped => job.kind = "reload")  OBVIOUS
  <2> QED  BY <2>1, <2>2, <2>3 DEF JobTypeOK
<1>5. RestTypeOK  BY <1>1 DEF RestTypeOK
<1>6. QueueCurrent  BY DEF QueueCurrent, InQueue
<1>7. JobCurrent  BY DEF JobCurrent, NoJob
<1>8. DroppedTogether  BY DEF DroppedTogether
<1> QED
  BY <1>3, <1>4, <1>5, <1>6, <1>7, <1>8 DEF TypeOK, IInv, VersionsCounted, EditsReachTheDictionary

\* An edit starts the timer, which vouches for everything that is older.
LEMMA IInvType ==
  ASSUME IInv, NEW e \in Editors, Type(e)
  PROVE  IInv'
<1> USE DEF IInv, Type, flagVars, focusVars, lastVars, dbVars, jobVars, loadVars
<1>1. /\ MaxEdits \in Nat /\ edits \in 0..MaxEdits /\ edits' = edits + 1 /\ edits < MaxEdits
      /\ text \in [Editors -> Version] /\ disk \in [Editors -> Version] /\ disk' = disk
      /\ text' = [text EXCEPT ![e] = @ + 1]
  BY Bounds DEF TypeOK, UiTypeOK, RestTypeOK
<1>6. VersionsCounted'  BY <1>1 DEF VersionsCounted, Version
<1>7. TypeOK'
  <2>1. text' \in [Editors -> Version]  BY <1>1 DEF VersionsCounted, Version
  <2>2. UiTypeOK'  BY <2>1 DEF TypeOK, UiTypeOK
  <2>3. JobTypeOK'  BY DEF TypeOK, JobTypeOK
  <2>4. RestTypeOK'  BY <1>1 DEF TypeOK, RestTypeOK
  <2> QED  BY <2>2, <2>3, <2>4 DEF TypeOK
<1>2. \A j : InQueue(j)' <=> InQueue(j)  BY DEF InQueue
<1>3. QueueCurrent'  BY <1>2 DEF QueueCurrent, Request, TypeOK, UiTypeOK, JobTypeOK, Jobs
<1>4. JobCurrent'  BY <1>2 DEF JobCurrent, Request, TypeOK, UiTypeOK, JobTypeOK, Jobs, NoJob
<1>5. EditsReachTheDictionary'
  BY DEF EditsReachTheDictionary, Requested, TypeOK, UiTypeOK
<1>8. DroppedTogether'  BY DEF DroppedTogether
<1> QED  BY <1>3, <1>4, <1>5, <1>6, <1>7, <1>8

\* A request has the text of the moment, and an older one for the same editor gets it.
LEMMA IInvRequest ==
  ASSUME IInv, NEW e \in Editors, QueForReparse(e), UNCHANGED upc
  PROVE  IInv'
<1> USE DEF IInv, QueForReparse, textVars, focusVars, dbVars, jobVars, loadVars
<1>1. /\ queue' \in Seq(Jobs)
      /\ \A j \in Jobs : InQueue(j)' <=> \/ j = Request(e)
                                         \/ InQueue(j) /\ ~(j.kind = "file" /\ j.ed = e)
  BY MergeRequest
<1>2. \A f \in Editors :
        Request(f)' = Request(f) /\ Request(f) \in Jobs /\ Request(f).kind = "file"
        /\ Request(f).ed = f
  BY DEF Request, TypeOK, UiTypeOK, JobTypeOK, Jobs
<1>3. \A f \in Editors : f # e => docTimer'[f] = docTimer[f]  BY DEF TypeOK, UiTypeOK
<1>4. TypeOK' /\ VersionsCounted'  BY <1>1 DEF TypeOK, UiTypeOK, JobTypeOK, RestTypeOK, VersionsCounted
<1>5. QueueCurrent'
  <2> SUFFICES ASSUME NEW j \in Jobs, InQueue(j)', j.kind = "file"
               PROVE  j = Request(j.ed) \/ docTimer'[j.ed]
    BY <1>2 DEF QueueCurrent, Jobs
  <2>1. CASE j = Request(e)  BY <1>2, <2>1
  <2>2. CASE InQueue(j) /\ j.ed # e
    BY <1>3, <2>2 DEF QueueCurrent, Jobs
  <2> QED  BY <1>1, <2>1, <2>2
<1>6. JobCurrent'
  <2> SUFFICES ASSUME job.kind = "file", jpc \in {"start", "removed"}
               PROVE  job = Request(job.ed) \/ docTimer'[job.ed] \/ InQueue(Request(job.ed))'
    BY <1>2 DEF JobCurrent, Request
  <2>1. job.ed \in Editors  BY DEF TypeOK, UiTypeOK, JobTypeOK, Jobs, NoJob
  <2> QED  BY <1>1, <1>2, <1>3, <2>1 DEF JobCurrent
<1>7. EditsReachTheDictionary'
  <2>3. Requested(e)'  BY <1>1, <1>2, RequestedMeans
  <2>4. \A f \in Editors : f # e /\ Requested(f) => Requested(f)'
    BY <1>1, <1>2, RequestedMeans
  <2>5. \A f \in Editors : f # e => dropped'[f] = dropped[f]  BY DEF TypeOK, RestTypeOK
  <2> QED  BY <1>3, <2>3, <2>4, <2>5 DEF EditsReachTheDictionary
<1>8. DroppedTogether'  BY DEF DroppedTogether, TypeOK, RestTypeOK
<1> QED  BY <1>4, <1>5, <1>6, <1>7, <1>8

-----------------------------------------------------------------------------
(* The steps of the UI thread that make no request.                        *)

\* They lose no timer, and do not touch the texts and what was made of them.
UiStep ==
  /\ UNCHANGED <<textVars, queue, jobVars, dropped>>
  /\ docTimer' \in [Editors -> BOOLEAN]
  /\ \A e \in Editors : docTimer[e] => docTimer'[e]

LEMMA IInvUiStep ==
  ASSUME IInv, UiStep, UiTypeOK', RestTypeOK'
  PROVE  IInv'
<1> USE DEF IInv, UiStep, textVars, jobVars
<1>1. TypeOK' /\ VersionsCounted'  BY DEF TypeOK, JobTypeOK, VersionsCounted
<1>2. \A j : InQueue(j)' <=> InQueue(j)  BY DEF InQueue
<1>3. QueueCurrent'  BY <1>2 DEF QueueCurrent, Request, Jobs
<1>4. job \in Jobs => job.ed \in Editors  BY DEF Jobs
<1>5. JobCurrent'  BY <1>2, <1>4 DEF JobCurrent, Request, TypeOK, JobTypeOK, NoJob
<1>6. EditsReachTheDictionary'  BY DEF EditsReachTheDictionary, Requested
<1>7. DroppedTogether'  BY DEF DroppedTogether
<1> QED  BY <1>1, <1>3, <1>5, <1>6, <1>7

SetDbTypeOK ==
  /\ mPendingMp \in [Editors -> Version \cup {None}] /\ m_pmparse \in [Editors -> Version]
  /\ mInitialParseCompleted \in [Editors -> BOOLEAN] /\ outrun \in [Editors -> BOOLEAN]
  /\ m_FileHasTimerForFullReparse \in [Editors -> BOOLEAN]
  /\ m_FileIsQuedForFullReparse \in [Editors -> BOOLEAN]

LEMMA SetDbTypes ==
  ASSUME TypeOK, NEW e \in Editors, SetDb(e)
  PROVE  SetDbTypeOK'
<1> USE DEF TypeOK, UiTypeOK, RestTypeOK, SetDb
<1>1. mPendingMp[e] # None => mPendingMp[e] \in Version  OBVIOUS
<1>2. (0 < mPendingMp[e] /\ mPendingMp[e] < dictionary[e]) \in BOOLEAN  OBVIOUS
<1>3. /\ mPendingMp' \in [Editors -> Version \cup {None}]
      /\ m_FileHasTimerForFullReparse' \in [Editors -> BOOLEAN]
      /\ m_FileIsQuedForFullReparse' \in [Editors -> BOOLEAN]
  OBVIOUS
<1>4. CASE mPendingMp[e] = None  BY <1>3, <1>4 DEF SetDbTypeOK
<1>5. CASE mPendingMp[e] # None
  <2>1. m_pmparse' \in [Editors -> Version]  BY <1>1, <1>5
  <2>2. mInitialParseCompleted' \in [Editors -> BOOLEAN]  BY <1>5
  <2>3. outrun' \in [Editors -> BOOLEAN]  BY <1>2, <1>5
  <2> QED  BY <1>3, <2>1, <2>2, <2>3 DEF SetDbTypeOK
<1> QED  BY <1>4, <1>5

LEMMA IInvTimersAndFocus ==
  ASSUME IInv, NEW e \in Editors,
         \/ KeyUp(e) \/ LeaveEditors \/ OnSetFocus(e) \/ ReloadTimer(e)
         \/ ClearOther \/ SendOther \/ ProjectLoad
  PROVE  IInv'
<1> USE Bounds DEF IInv, TypeOK, textVars, jobVars, flagVars, focusVars, lastVars, dbVars, uiVars,
        timerVars, loadVars
<1>1. CASE KeyUp(e)
  <2>1. UiStep  BY <1>1 DEF KeyUp, UiStep, UiTypeOK
  <2>2. UiTypeOK' /\ RestTypeOK'  BY <1>1, <2>1 DEF KeyUp, UiTypeOK, RestTypeOK
  <2> QED  BY <2>1, <2>2, IInvUiStep
<1>2. CASE LeaveEditors
  <2>1. UiStep  BY <1>2 DEF LeaveEditors, KillFocus, UiStep, UiTypeOK
  <2>2. UiTypeOK' /\ RestTypeOK'
    BY <1>2, <2>1 DEF LeaveEditors, KillFocus, UiStep, UiTypeOK, RestTypeOK
  <2> QED  BY <2>1, <2>2, IInvUiStep
<1>3. CASE OnSetFocus(e)
  <2>1. UiStep  BY <1>3 DEF OnSetFocus, KillFocus, UiStep, UiTypeOK
  <2>2. focusChanges' \in 0..MaxFocus
    BY <1>3 DEF OnSetFocus, RestTypeOK
  <2>3. UiTypeOK'  BY <1>3, <2>1 DEF OnSetFocus, UiStep, UiTypeOK
  <2>4. RestTypeOK'  BY <1>3, <2>2 DEF OnSetFocus, RestTypeOK
  <2> QED  BY <2>1, <2>3, <2>4, IInvUiStep
<1>4. CASE ReloadTimer(e)
  <2>1. UiStep  BY <1>4 DEF ReloadTimer, UiStep, UiTypeOK
  <2>2. clearing' \in Seq(Editors)
    <3>1. CASE UNCHANGED <<lastVars, uiVars>>  BY <3>1 DEF UiTypeOK
    <3>2. CASE ~UNCHANGED <<lastVars, uiVars>>
      <4> DEFINE others == {o \in Editors \ (Retained \cup {e}) : ~Modified(o) /\ hasBuf[o]}
      <4>1. clearing' \in [1..Cardinality(others) -> others]  BY <1>4, <3>2 DEF ReloadTimer
      <4>2. Cardinality(others) \in Nat
        BY EditorAssumption, FS_Subset, FS_CardinalityType
      <4>3. others \subseteq Editors  OBVIOUS
      <4>4. PICK n \in Nat : clearing' \in [1..n -> others]  BY <4>1, <4>2
      <4>5. clearing' \in [1..n -> Editors]  BY <4>3, <4>4
      <4> QED  BY <4>5
    <3> QED  BY <3>1, <3>2
  <2>3. /\ hasBuf' \in [Editors -> BOOLEAN]
        /\ lw' \in Editors \cup {NoEditor} /\ s_LastReparseFile' \in Editors \cup {NoEditor}
        /\ upc' \in {"idle", "clear", "send"} /\ upc' # "send"
        /\ upc' # "idle" => lw' # NoEditor
    <3>1. CASE UNCHANGED <<lastVars, uiVars>>
      BY <1>4, <3>1 DEF ReloadTimer, UiTypeOK
    <3>2. CASE ~UNCHANGED <<lastVars, uiVars>>
      <4>1. /\ hasBuf' = [hasBuf EXCEPT ![e] = TRUE]
            /\ lw' = e /\ s_LastReparseFile' = e /\ upc' = "clear"
        BY <1>4, <3>2 DEF ReloadTimer
      <4> QED  BY <4>1, EditorAssumption DEF UiTypeOK
    <3> QED  BY <3>1, <3>2
  <2>5. /\ UNCHANGED <<textVars, flagVars, docTimer, focusVars, dbVars, loadVars, dropped>>
        /\ reloadTimer' = [reloadTimer EXCEPT ![e] = FALSE]
    BY <1>4 DEF ReloadTimer
  <2>4. UiTypeOK' /\ RestTypeOK'
    <3>1. RestTypeOK'  BY <2>5 DEF RestTypeOK
    <3>2. reloadTimer' \in [Editors -> BOOLEAN]  BY <2>5 DEF UiTypeOK
    <3>3. UiTypeOK'  BY <2>2, <2>3, <2>5, <3>2 DEF UiTypeOK
    <3> QED  BY <3>1, <3>3
  <2> QED  BY <2>1, <2>4, IInvUiStep
<1>5. CASE ClearOther
  <2>1. UiStep  BY <1>5 DEF ClearOther, UiStep, UiTypeOK
  <2>2. 0 \in Version  BY DEF Version
  <2>3. UiTypeOK' /\ RestTypeOK'
    BY <1>5, <2>2 DEF ClearOther, UiTypeOK, RestTypeOK
  <2> QED  BY <2>1, <2>3, IInvUiStep
<1>6. CASE SendOther
  <2>1. UiStep  BY <1>6 DEF SendOther, UiStep, UiTypeOK
  <2>2. /\ clearing \in Seq(Editors) /\ clearing # <<>> /\ upc = "send" /\ upc' = "clear"
        /\ clearing' = Tail(clearing) /\ SetDb(Head(clearing))
        /\ UNCHANGED <<textVars, timerVars, focusVars, lastVars, hasBuf, loadVars, dropped>>
    BY <1>6 DEF SendOther, UiTypeOK
  <2>3. UiTypeOK' /\ RestTypeOK'
    <3>1. Head(clearing) \in Editors /\ clearing' \in Seq(Editors)  BY <2>2
    <3>2. SetDbTypeOK'  BY <2>2, <3>1, SetDbTypes
    <3> QED  BY <2>2, <3>1, <3>2 DEF SetDbTypeOK, UiTypeOK, RestTypeOK
  <2> QED  BY <2>1, <2>3, IInvUiStep
<1>7. CASE ProjectLoad
  <2>1. UiStep  BY <1>7 DEF ProjectLoad, UiStep, UiTypeOK
  <2>2. UiTypeOK' /\ RestTypeOK'  BY <1>7 DEF ProjectLoad, UiTypeOK, RestTypeOK
  <2> QED  BY <2>1, <2>2, IInvUiStep
<1> QED  BY <1>1, <1>2, <1>3, <1>4, <1>5, <1>6, <1>7

\* The request for the local symbols leaves those for the shared ones as they are.
LEMMA IInvQueueReload ==
  ASSUME IInv, QueueReload
  PROVE  IInv'
<1> USE DEF IInv, TypeOK, QueueReload, textVars, flagVars, timerVars, focusVars, dbVars,
        lastVars, loadVars
<1> DEFINE reload == [kind |-> "reload", ed |-> lw,
                      text |-> IF Modified(lw) THEN text[lw] ELSE 0]
<1>1. lw \in Editors /\ 0 \in Version  BY Bounds DEF UiTypeOK, Version
<1>2. reload \in Jobs /\ reload.kind = "reload"  BY <1>1 DEF UiTypeOK, Jobs
<1> HIDE DEF reload
<1>3. queue' = Append(queue, reload) /\ queue \in Seq(Jobs)  BY DEF reload, JobTypeOK
<1>4. queue' \in Seq(Jobs) /\ \A j \in Jobs : InQueue(j)' <=> InQueue(j) \/ j = reload
  BY <1>2, <1>3, AppendQueue
<1>5. TypeOK' /\ VersionsCounted'
  <2>1. UiTypeOK'  BY DEF UiTypeOK
  <2>3. stopped' = (stopped \/ job.kind = "reload") \/ stopped' = stopped  OBVIOUS
  <2>4. stopped' \in BOOLEAN /\ (stopped' => job.kind = "reload")
    <3>1. stopped \in BOOLEAN /\ (stopped => job.kind = "reload")  BY DEF JobTypeOK
    <3>2. CASE stopped' = stopped  BY <3>1, <3>2
    <3>3. CASE stopped' = (stopped \/ job.kind = "reload")
      <4>1. stopped' \in BOOLEAN  BY <3>3
      <4>2. stopped' <=> stopped \/ job.kind = "reload"  BY <3>3
      <4> QED  BY <3>1, <4>1, <4>2
    <3> QED  BY <2>3, <3>2, <3>3
  <2>5. UNCHANGED <<job, jpc, dictionary, load, failures, edits, focusChanges, dropped, outrun>>
    OBVIOUS
  <2>2. JobTypeOK' /\ RestTypeOK'  BY <1>4, <2>4, <2>5 DEF JobTypeOK, RestTypeOK
  <2> QED  BY <2>1, <2>2 DEF VersionsCounted
<1>6. \A j : Request(j)' = Request(j)  BY DEF Request
<1>7. QueueCurrent'  BY <1>2, <1>4, <1>6 DEF QueueCurrent, Jobs
<1>8. \A e \in Editors : Request(e) \in Jobs  BY DEF Request, Jobs, UiTypeOK
<1>9. JobCurrent'  BY <1>4, <1>6, <1>8 DEF JobCurrent, JobTypeOK, Jobs, NoJob
<1>10. EditsReachTheDictionary'
  <2>1. \A e \in Editors : InQueue(Request(e)) => InQueue(Request(e))'  BY <1>4, <1>6, <1>8
  <2> QED  BY <2>1 DEF EditsReachTheDictionary, Requested, InQueue, Request
<1>11. DroppedTogether'  BY DEF DroppedTogether
<1> QED  BY <1>5, <1>7, <1>9, <1>10, <1>11

-----------------------------------------------------------------------------
(* The steps of the parser thread.                                         *)

LEMMA IInvTake ==
  ASSUME IInv, TakeJob \/ SkipJob
  PROVE  IInv'
<1> USE DEF IInv, TypeOK, jobRest, textVars, flagVars, timerVars, focusVars, dbVars,
        lastVars, loadVars, uiVars, jobVars
<1>1. \A e \in Editors : Request(e)' = Request(e)  BY DEF TakeJob, SkipJob, Request
<1>2. CASE TakeJob
  <2> USE DEF TakeJob, JobStep
  <2>1. /\ queue' \in Seq(Jobs) /\ job' \in Jobs /\ jpc' = "start" /\ jpc = "idle"
        /\ \A j \in Jobs : InQueue(j) <=> InQueue(j)' \/ j = job'
    BY <1>2, TakeHead DEF JobTypeOK
  <2>2. JobTypeOK'
    <3>1. job' # NoJob  BY <2>1 DEF NoJob, Jobs
    <3>2. ~stopped /\ stopped' = stopped  BY <1>2, <2>1 DEF JobTypeOK, NoJob
    <3> QED  BY <1>2, <2>1, <3>1, <3>2 DEF JobTypeOK
  <2>3. UiTypeOK' /\ RestTypeOK' /\ VersionsCounted'
    BY <1>2 DEF UiTypeOK, RestTypeOK, VersionsCounted
  <2>4. QueueCurrent'  BY <1>1, <1>2, <2>1 DEF QueueCurrent, Jobs
  <2>5. JobCurrent'  BY <1>1, <1>2, <2>1 DEF QueueCurrent, JobCurrent, Jobs
  <2>6. ASSUME NEW e \in Editors, Requested(e) PROVE Requested(e)'
    BY <1>1, <2>1, <2>6, RequestIsJob, RequestedMeans
  <2>7. EditsReachTheDictionary'  BY <1>2, <2>6 DEF EditsReachTheDictionary
  <2>8. DroppedTogether'  BY <1>2 DEF DroppedTogether
  <2> QED  BY <2>2, <2>3, <2>4, <2>5, <2>7, <2>8
<1>3. CASE SkipJob
  <2> USE DEF SkipJob
  <2>1. queue' \in Seq(Jobs) /\ \A j \in Jobs : InQueue(j)' <=> InQueue(j)
    BY <1>3, RotateQueue DEF JobTypeOK
  <2>2. UiTypeOK' /\ JobTypeOK' /\ RestTypeOK' /\ VersionsCounted'
    BY <1>3, <2>1 DEF UiTypeOK, JobTypeOK, RestTypeOK, VersionsCounted
  <2>3. QueueCurrent'  BY <1>1, <1>3, <2>1 DEF QueueCurrent, Jobs
  <2>4. JobCurrent'
    BY <1>1, <1>3, <2>1, RequestIsJob DEF JobCurrent, JobTypeOK, Jobs, NoJob
  <2>5. ASSUME NEW e \in Editors, Requested(e) PROVE Requested(e)'
    BY <1>1, <1>3, <2>1, <2>5, RequestIsJob, RequestedMeans
  <2>6. EditsReachTheDictionary'  BY <1>3, <2>5 DEF EditsReachTheDictionary
  <2>7. DroppedTogether'  BY <1>3 DEF DroppedTogether
  <2> QED  BY <2>2, <2>3, <2>4, <2>6, <2>7
<1> QED  BY <1>2, <1>3

\* What a job gives up is noted, or a request for its editor waits.
GivenUp(e, what) ==
  \/ what \subseteq dropped'[e]
  \/ \E j \in Jobs : InQueue(j) /\ j.kind = "file" /\ j.ed = e

LEMMA GiveUpNotes ==
  ASSUME TypeOK, job.ed \in Editors, NEW what \in SUBSET {"text", "locals", "flag"}, GiveUp(what)
  PROVE  /\ dropped' \in [Editors -> SUBSET {"text", "locals", "flag"}]
         /\ \A e \in Editors : dropped[e] \subseteq dropped'[e]
         /\ DroppedTogether /\ ("text" \in what => "locals" \in what) => DroppedTogether'
         /\ GivenUp(job.ed, what)
<1>1. dropped \in [Editors -> SUBSET {"text", "locals", "flag"}] /\ queue \in Seq(Jobs)
  BY DEF TypeOK, RestTypeOK, JobTypeOK
<1>2. CASE \E i \in DOMAIN queue : queue[i].kind = "file" /\ queue[i].ed = E
  <2>1. dropped' = dropped  BY <1>2 DEF GiveUp
  <2>2. PICK i \in DOMAIN queue : queue[i].kind = "file" /\ queue[i].ed = job.ed
    BY <1>2 DEF E
  <2>3. queue[i] \in Jobs /\ InQueue(queue[i])  BY <1>1, <2>2 DEF InQueue
  <2> QED  BY <1>1, <2>1, <2>2, <2>3 DEF DroppedTogether, GivenUp
<1>3. CASE ~\E i \in DOMAIN queue : queue[i].kind = "file" /\ queue[i].ed = E
  <2>1. dropped' = [dropped EXCEPT ![job.ed] = @ \cup what]  BY <1>3 DEF GiveUp, E
  <2>2. \A e \in Editors : dropped'[e] = IF e = job.ed THEN dropped[e] \cup what ELSE dropped[e]
    BY <1>1, <2>1
  <2>3. dropped' \in [Editors -> SUBSET {"text", "locals", "flag"}]  BY <1>1, <2>1
  <2>4. \A e \in Editors : dropped[e] \subseteq dropped'[e]  BY <2>2
  <2>5. what \subseteq dropped'[job.ed]  BY <2>2
  <2> QED  BY <2>2, <2>3, <2>4, <2>5 DEF DroppedTogether, GivenUp
<1> QED  BY <1>2, <1>3

\* A job is at work on one text; until it has put the symbols of that text in the
\* place of older ones it stands for its request.
LEMMA IInvJob ==
  ASSUME IInv,
         \/ Abandon \/ ParseThrows \/ RemoveAllDefs \/ ParseGlobals \/ ReadText
         \/ ParseLocals \/ SkipLocals \/ AnswerSetDb \/ FinishJob
  PROVE  IInv'
<1> USE DEF IInv, TypeOK, jobRest, textVars, flagVars, timerVars, focusVars, dbVars,
        lastVars, loadVars, uiVars, JobStep, EndJob, E
<1>1. UNCHANGED <<textVars, docTimer, queue>>
  BY DEF Abandon, ParseThrows, RemoveAllDefs, ParseGlobals, ReadText, ParseLocals,
         SkipLocals, AnswerSetDb, FinishJob
<1>2. /\ \A e \in Editors : Request(e)' = Request(e)
      /\ \A j : InQueue(j)' <=> InQueue(j)
  BY <1>1 DEF Request, InQueue
<1>3. QueueCurrent' /\ VersionsCounted'  BY <1>1, <1>2 DEF QueueCurrent, VersionsCounted, Jobs
<1>4. jpc # "idle" => job \in Jobs /\ E \in Editors /\ job.text \in Version
                      /\ job.kind \in {"file", "reload"}
  BY DEF JobTypeOK, Jobs
<1>5. NoJob \notin Jobs /\ NoJob.kind = "none"  BY DEF NoJob, Jobs
<1>6. 0 \in Version  BY Bounds DEF Version
<1>16. ASSUME NEW e \in Editors, GivenUp(e, {"text"}), ~Requested(e)', ~docTimer[e]
       PROVE  "text" \in dropped'[e]
  <2> SUFFICES ASSUME NEW j \in Jobs, InQueue(j), j.kind = "file", j.ed = e PROVE FALSE
    BY <1>16 DEF GivenUp
  <2>1. j = Request(e)  BY <1>16 DEF QueueCurrent
  <2> QED  BY <1>2, <1>16, <2>1, RequestedMeans
<1>7. CASE Abandon \/ ParseThrows
  <2>1. job.ed \in Editors /\ job \in Jobs  BY <1>4, <1>7 DEF Abandon, ParseThrows
  <2>2. PICK what \in SUBSET {"text", "locals", "flag"} :
          /\ GiveUp(what) /\ ("text" \in what => "locals" \in what)
          /\ job.kind = "file" /\ jpc \in {"start", "removed"} => "text" \in what
    <3>1. CASE Abandon  BY <3>1 DEF Abandon
    <3>2. CASE ParseThrows
      <4>1. CASE job.kind = "reload"  BY <3>2, <4>1 DEF ParseThrows
      <4>2. CASE job.kind = "file" /\ jpc = "locals"  BY <3>2, <4>2 DEF ParseThrows
      <4>3. CASE job.kind # "reload" /\ ~(job.kind = "file" /\ jpc = "locals")
        BY <3>2, <4>3 DEF ParseThrows
      <4> QED  BY <4>1, <4>2, <4>3
    <3> QED  BY <1>7, <3>1, <3>2
  <2>3. /\ dropped' \in [Editors -> SUBSET {"text", "locals", "flag"}]
        /\ \A e \in Editors : dropped[e] \subseteq dropped'[e]
        /\ DroppedTogether' /\ GivenUp(job.ed, what)
    BY <2>1, <2>2, GiveUpNotes
  <2>4. /\ job' = NoJob /\ jpc' = "idle" /\ stopped' = FALSE
        /\ UNCHANGED <<textVars, timerVars, focusVars, lastVars, uiVars, flagVars, dbVars, queue,
                       dictionary, load>>
        /\ failures' \in {failures, failures + 1} /\ (failures' # failures => failures < MaxFailures)
    BY <1>7 DEF Abandon, ParseThrows
  <2>5. UiTypeOK' /\ JobTypeOK'  BY <1>5, <2>4 DEF UiTypeOK, JobTypeOK
  <2>6. RestTypeOK'
    <3>1. MaxFailures \in Nat /\ failures \in 0..MaxFailures  BY Bounds DEF RestTypeOK
    <3>2. failures' \in 0..MaxFailures  BY <2>4, <3>1
    <3> QED  BY <2>3, <2>4, <3>2 DEF RestTypeOK
  <2>7. JobCurrent'  BY <2>4 DEF JobCurrent
  <2>8. EditsReachTheDictionary'
    <3> SUFFICES ASSUME NEW e \in Editors, text[e] > 1, ~docTimer[e], ~Requested(e)',
                        "text" \notin dropped'[e]
                 PROVE  dictionary[e] = text[e]
      BY <1>1, <2>4 DEF EditsReachTheDictionary
    <3>1. CASE ~Requested(e)
      <4>1. "text" \notin dropped[e]  BY <2>3
      <4> QED  BY <3>1, <4>1 DEF EditsReachTheDictionary
    <3>2. CASE Requested(e)
      <4>1. job = Request(e) /\ jpc \in {"start", "removed"}
        BY <1>2, <3>2, RequestedMeans
      <4>2. job.kind = "file" /\ job.ed = e  BY <4>1, RequestIsJob
      <4>3. GivenUp(e, {"text"})  BY <2>2, <2>3, <4>1, <4>2 DEF GivenUp
      <4> QED  BY <1>16, <4>3
    <3> QED  BY <3>1, <3>2
  <2> QED  BY <1>3, <2>3, <2>5, <2>6, <2>7, <2>8
<1>8. CASE RemoveAllDefs
  <2> USE DEF RemoveAllDefs
  <2>1. UiTypeOK' /\ JobTypeOK' /\ RestTypeOK'
    BY <1>4, <1>5, <1>6, <1>8 DEF UiTypeOK, JobTypeOK, RestTypeOK
  <2>2. JobCurrent'  BY <1>1, <1>2, <1>4, <1>8 DEF JobCurrent
  <2>3. \A e \in Editors : Requested(e) => Requested(e)'
    BY <1>2, <1>8, RequestedMeans
  <2>4. docTimer[E] \/ Requested(E)
    BY <1>4, <1>8, RequestedMeans, RequestIsJob DEF JobCurrent
  <2>5. \A e \in Editors : e # E => dictionary'[e] = dictionary[e]
    BY <1>4, <1>8 DEF JobTypeOK
  <2>6. EditsReachTheDictionary'
    BY <1>1, <1>4, <1>8, <2>3, <2>4, <2>5 DEF EditsReachTheDictionary
  <2>7. DroppedTogether'  BY <1>8 DEF DroppedTogether
  <2> QED  BY <1>3, <2>1, <2>2, <2>6, <2>7
<1>9. CASE ParseGlobals
  <2> USE DEF ParseGlobals
  <2>1. UiTypeOK' /\ JobTypeOK' /\ RestTypeOK'
    BY <1>4, <1>5, <1>9 DEF UiTypeOK, JobTypeOK, RestTypeOK
  <2>2. JobCurrent'  BY <1>9 DEF JobCurrent
  <2>3. \A e \in Editors : e # E => (Requested(e) => Requested(e)')
    BY <1>2, <1>9, RequestedMeans, RequestIsJob
  <2>4. \A e \in Editors : e # E => dictionary'[e] = dictionary[e]
    BY <1>4, <1>9 DEF JobTypeOK
  <2>5. dictionary'[E] = text[E] \/ docTimer[E] \/ Requested(E)'
    <3>1. dictionary'[E] = job.text  BY <1>4, <1>9 DEF JobTypeOK
    <3>2. CASE job = Request(E)  BY <3>1, <3>2 DEF Request
    <3>3. CASE InQueue(Request(E))  BY <1>2, <1>4, <1>9, <3>3, RequestedMeans
    <3> QED  BY <1>4, <1>9, <3>2, <3>3 DEF JobCurrent
  <2>6. EditsReachTheDictionary'
    BY <1>1, <1>4, <1>9, <2>3, <2>4, <2>5 DEF EditsReachTheDictionary
  <2>7. DroppedTogether'  BY <1>9 DEF DroppedTogether
  <2> QED  BY <1>3, <2>1, <2>2, <2>6, <2>7
<1>10. CASE ReadText
  <2> USE DEF ReadText
  <2> DEFINE read == IF job.text = 0 THEN disk[E] ELSE job.text
  <2>1. read \in Version /\ E \in Editors /\ job \in Jobs
    BY <1>4, <1>10 DEF UiTypeOK
  <2>2. /\ job' = [job EXCEPT !.text = read] /\ job'.kind = "reload"
        /\ dictionary' = IF E \in Headers /\ dictionary[E] = 0
                           THEN [dictionary EXCEPT ![E] = read] ELSE dictionary
    BY <1>10, <2>1 DEF Jobs
  <2> HIDE DEF read
  <2>3. job' \in Jobs /\ dictionary' \in [Editors -> Version]
    BY <2>1, <2>2 DEF Jobs, JobTypeOK
  <2>4. JobTypeOK'  BY <1>5, <1>10, <2>3 DEF JobTypeOK
  <2>5. UiTypeOK' /\ RestTypeOK'  BY <1>10 DEF UiTypeOK, RestTypeOK
  <2>6. JobCurrent'  BY <1>10 DEF JobCurrent
  <2>7. \A e \in Editors : Requested(e) => Requested(e)'
    BY <1>2, <1>4, <1>10, RequestedMeans, RequestIsJob
  <2>8. \A e \in Editors : dictionary[e] # 0 => dictionary'[e] = dictionary[e]
    BY <2>1, <2>2 DEF JobTypeOK
  <2>9. EditsReachTheDictionary'
    <3> SUFFICES ASSUME NEW e \in Editors, text[e] > 1, ~docTimer[e], ~Requested(e)',
                        "text" \notin dropped'[e]
                 PROVE  dictionary'[e] = text'[e]
      BY <1>1 DEF EditsReachTheDictionary
    <3>1. dictionary[e] = text[e]  BY <1>1, <1>10, <2>7 DEF EditsReachTheDictionary
    <3>2. dictionary[e] # 0  BY <3>1
    <3> QED  BY <1>1, <2>8, <3>1, <3>2
  <2>10. DroppedTogether'  BY <1>10 DEF DroppedTogether
  <2> QED  BY <1>3, <2>4, <2>5, <2>6, <2>9, <2>10
<1>11. CASE ParseLocals
  <2> USE DEF ParseLocals
  <2>1. UiTypeOK'  BY <1>4, <1>11 DEF UiTypeOK
  <2>2. JobTypeOK' /\ RestTypeOK'  BY <1>4, <1>5, <1>11 DEF JobTypeOK, RestTypeOK
  <2>3. JobCurrent'  BY <1>11 DEF JobCurrent
  <2>4. \A e \in Editors : Requested(e) => Requested(e)'  BY <1>2, <1>11, RequestedMeans
  <2>5. EditsReachTheDictionary'  BY <1>1, <1>11, <2>4 DEF EditsReachTheDictionary
  <2>6. DroppedTogether'  BY <1>11 DEF DroppedTogether
  <2> QED  BY <1>3, <2>1, <2>2, <2>3, <2>5, <2>6
<1>12. CASE SkipLocals
  <2> USE DEF SkipLocals
  <2>1. UiTypeOK' /\ JobTypeOK'  BY <1>4, <1>5, <1>12 DEF UiTypeOK, JobTypeOK
  <2>2. /\ dropped' \in [Editors -> SUBSET {"text", "locals", "flag"}]
        /\ \A e \in Editors : dropped[e] \subseteq dropped'[e]
        /\ DroppedTogether'
    <3>1. CASE job.kind = "file" /\ StopIt
      BY <1>4, <1>12, <3>1, GiveUpNotes
    <3>2. CASE ~(job.kind = "file" /\ StopIt)
      BY <1>12, <3>2 DEF RestTypeOK, DroppedTogether
    <3> QED  BY <3>1, <3>2
  <2>3. RestTypeOK'  BY <1>12, <2>2 DEF RestTypeOK
  <2>4. JobCurrent'  BY <1>12 DEF JobCurrent
  <2>5. \A e \in Editors : Requested(e) => Requested(e)'  BY <1>2, <1>12, RequestedMeans
  <2>6. EditsReachTheDictionary'
    BY <1>1, <1>12, <2>2, <2>5 DEF EditsReachTheDictionary
  <2> QED  BY <1>3, <2>1, <2>2, <2>3, <2>4, <2>6
<1>13. CASE AnswerSetDb
  <2> USE DEF AnswerSetDb
  <2>1. SetDbTypeOK'  BY <1>4, <1>13, SetDbTypes
  <2>2. UiTypeOK'  BY <1>1, <1>13, <2>1 DEF UiTypeOK, SetDbTypeOK
  <2>3. JobTypeOK' /\ RestTypeOK'
    BY <1>4, <1>5, <1>13, <2>1 DEF JobTypeOK, RestTypeOK, SetDbTypeOK
  <2>4. JobCurrent'  BY <1>13 DEF JobCurrent
  <2>5. \A e \in Editors : Requested(e) => Requested(e)'  BY <1>2, <1>13, RequestedMeans
  <2>6. EditsReachTheDictionary'  BY <1>1, <1>13, <2>5 DEF EditsReachTheDictionary
  <2>7. DroppedTogether'  BY <1>13 DEF DroppedTogether
  <2> QED  BY <1>3, <2>2, <2>3, <2>4, <2>6, <2>7
<1>14. CASE FinishJob
  <2> USE DEF FinishJob
  <2>1. UiTypeOK'  BY <1>4, <1>14 DEF UiTypeOK
  <2>2. JobTypeOK' /\ RestTypeOK'  BY <1>5, <1>14 DEF JobTypeOK, RestTypeOK
  <2>3. JobCurrent'  BY <1>14 DEF JobCurrent
  <2>4. \A e \in Editors : Requested(e) => Requested(e)'  BY <1>2, <1>14, RequestedMeans
  <2>5. EditsReachTheDictionary'  BY <1>1, <1>14, <2>4 DEF EditsReachTheDictionary
  <2>6. DroppedTogether'  BY <1>14 DEF DroppedTogether
  <2> QED  BY <1>3, <2>1, <2>2, <2>3, <2>5, <2>6
<1> QED  BY <1>7, <1>8, <1>9, <1>10, <1>11, <1>12, <1>13, <1>14

-----------------------------------------------------------------------------
(* The theorems.                                                           *)

LEMMA IInvSave ==
  ASSUME IInv, NEW e \in Editors, Save(e)
  PROVE  IInv'
<1> USE DEF IInv, TypeOK, Save, flagVars, timerVars, focusVars, dbVars, lastVars, loadVars,
        uiVars, jobVars
<1>1. UiTypeOK' /\ JobTypeOK' /\ RestTypeOK'  BY DEF UiTypeOK, JobTypeOK, RestTypeOK
<1>2. VersionsCounted'  BY DEF VersionsCounted, UiTypeOK
<1>3. \A f \in Editors : Request(f)' = Request(f) /\ (Requested(f)' <=> Requested(f))
  BY DEF Request, Requested
<1>4. \A j : InQueue(j)' <=> InQueue(j)  BY DEF InQueue
<1>5. QueueCurrent'  BY <1>3, <1>4 DEF QueueCurrent, Jobs
<1>6. JobCurrent'  BY <1>3, <1>4 DEF JobCurrent, JobTypeOK, Jobs, NoJob
<1>7. EditsReachTheDictionary'  BY <1>3 DEF EditsReachTheDictionary
<1>8. DroppedTogether'  BY DEF DroppedTogether
<1> QED  BY <1>1, <1>2, <1>5, <1>6, <1>7, <1>8

LEMMA IInvNext == IInv /\ [Next]_vars => IInv'
<1> SUFFICES ASSUME IInv, [Next]_vars PROVE IInv'  OBVIOUS
<1>1. PICK first \in Editors : TRUE  BY EditorAssumption
<1>2. ASSUME NEW e \in Editors, Type(e) \/ Save(e) \/ KeyUp(e) \/ OnSetFocus(e) PROVE IInv'
  BY <1>2, IInvType, IInvSave, IInvTimersAndFocus
<1>3. ASSUME NEW e \in Editors, DocModifiedTimer(e) \/ Scope(e) \/ ReparseAndWaitIfNeeded(e)
      PROVE  IInv'
  BY <1>3, IInvRequest DEF DocModifiedTimer, Scope, ReparseAndWaitIfNeeded
<1>4. ASSUME NEW e \in Editors, ReloadTimer(e) PROVE IInv'
  BY <1>4, IInvTimersAndFocus
<1>5. CASE LeaveEditors \/ ClearOther \/ SendOther \/ ProjectLoad
  BY <1>1, <1>5, IInvTimersAndFocus
<1>6. CASE QueueReload  BY <1>6, IInvQueueReload
<1>7. CASE Parser  BY <1>7, IInvTake, IInvJob DEF Parser
<1>8. CASE UNCHANGED vars
  <2> USE <1>8 DEF vars, textVars, flagVars, timerVars, focusVars, dbVars, lastVars, loadVars,
          uiVars, jobVars
  <2>1. TypeOK' /\ VersionsCounted'
    BY DEF IInv, TypeOK, UiTypeOK, JobTypeOK, RestTypeOK, VersionsCounted
  <2>2. QueueCurrent' /\ JobCurrent'
    BY DEF IInv, QueueCurrent, JobCurrent, InQueue, Request
  <2>3. EditsReachTheDictionary'  BY DEF IInv, EditsReachTheDictionary, Requested
  <2>4. DroppedTogether'  BY DEF IInv, DroppedTogether
  <2> QED  BY <2>1, <2>2, <2>3, <2>4 DEF IInv
<1> QED
  BY <1>2, <1>3, <1>4, <1>5, <1>6, <1>7, <1>8 DEF Next, User, Timers, Waits, UiThread

LEMMA IInvHolds == Spec => []IInv
<1>1. Init => IInv  BY IInvInit
<1>2. IInv /\ [Next]_vars => IInv'  BY IInvNext
<1> QED  BY <1>1, <1>2, PTL DEF Spec

\* The types; and an editor that is being emptied by the UI thread has one that
\* asked for it.
THEOREM Typing == Spec => []TypeOK
<1>1. IInv => TypeOK  BY DEF IInv
<1> QED  BY <1>1, IInvHolds, PTL

\* No edit is forgotten between OnModified, the timers, the queue and the parser
\* thread, however they are interleaved, unless StopIt or an exception ended the very
\* parse that was to read it, which nothing repeats.
THEOREM EditsAreKept == Spec => []EditsReachTheDictionary
<1>1. IInv => EditsReachTheDictionary  BY DEF IInv
<1> QED  BY <1>1, IInvHolds, PTL

-----------------------------------------------------------------------------
(* m_FileIsQuedForFullReparse.                                             *)

HasRequest(e) == \E j \in Jobs : InQueue(j) /\ j.kind = "file" /\ j.ed = e

\* A job that has sent its message finds the flag up only if there is a request
\* behind it, since the message has taken its own back.
SentQueued ==
  jpc = "sent" /\ job.kind = "file" /\ m_FileIsQuedForFullReparse[job.ed] => HasRequest(job.ed)

Queued(e) == "flag" \in dropped[e] \/ (job.kind = "file" /\ job.ed = e) \/ HasRequest(e)
FlagInv == SentQueued /\ \A e \in Editors : m_FileIsQuedForFullReparse[e] => Queued(e)

\* A step that raises no flag and takes no request, job or note of a dropped one away.
Harmless ==
  /\ \A e \in Editors : m_FileIsQuedForFullReparse'[e] => m_FileIsQuedForFullReparse[e]
  /\ \A e \in Editors : HasRequest(e) => HasRequest(e)'
  /\ \A e \in Editors : "flag" \in dropped[e] => "flag" \in dropped'[e]
  /\ job'.kind = job.kind /\ job'.ed = job.ed
  /\ jpc' = "sent" => jpc = "sent" \/ job.kind # "file" \/ ~m_FileIsQuedForFullReparse'[job.ed]

LEMMA FlagHarmless ==
  ASSUME TypeOK, FlagInv, Harmless
  PROVE  FlagInv'
<1>1. job.kind = "file" => job.ed \in Editors  BY DEF TypeOK, JobTypeOK, Jobs, NoJob
<1> QED  BY <1>1 DEF Harmless, FlagInv, SentQueued, Queued

LEMMA FlagUi ==
  ASSUME TypeOK, FlagInv, NEW e \in Editors,
         \/ Type(e) \/ Save(e) \/ KeyUp(e) \/ OnSetFocus(e) \/ LeaveEditors \/ ReloadTimer(e)
         \/ ClearOther \/ SendOther \/ ProjectLoad
  PROVE  FlagInv'
<1> USE DEF textVars, flagVars, timerVars, focusVars, lastVars, dbVars, uiVars, jobVars, loadVars
<1>1. UNCHANGED <<queue, job, jpc, dropped>>
  BY DEF Type, Save, KeyUp, OnSetFocus, LeaveEditors, ReloadTimer, ClearOther, SendOther,
         ProjectLoad
<1>2. \A f \in Editors : m_FileIsQuedForFullReparse'[f] => m_FileIsQuedForFullReparse[f]
  <2>1. CASE SendOther
    <3>1. clearing \in Seq(Editors) /\ clearing # <<>>
      BY <2>1 DEF SendOther, TypeOK, UiTypeOK
    <3>2. Head(clearing) \in Editors  BY <3>1
    <3> QED  BY <2>1, <3>2 DEF SendOther, SetDb, TypeOK, UiTypeOK
  <2>2. CASE ~SendOther
    BY <2>2 DEF Type, Save, KeyUp, OnSetFocus, LeaveEditors, ReloadTimer, ClearOther,
                ProjectLoad
  <2> QED  BY <2>1, <2>2
<1>3. Harmless  BY <1>1, <1>2 DEF Harmless, HasRequest, InQueue
<1> QED  BY <1>3, FlagHarmless

LEMMA FlagRequest ==
  ASSUME TypeOK, FlagInv, NEW e \in Editors, QueForReparse(e)
  PROVE  FlagInv'
<1> USE DEF QueForReparse, jobVars
<1>1. \A j \in Jobs : InQueue(j)' <=> \/ j = Request(e)
                                      \/ InQueue(j) /\ ~(j.kind = "file" /\ j.ed = e)
  BY MergeRequest
<1>2. HasRequest(e)'  BY <1>1, RequestIsJob DEF HasRequest
<1>3. \A f \in Editors : HasRequest(f) => HasRequest(f)'  BY <1>1, <1>2 DEF HasRequest
<1>4. \A f \in Editors : f # e =>
        /\ m_FileIsQuedForFullReparse'[f] = m_FileIsQuedForFullReparse[f]
        /\ dropped'[f] = dropped[f]
  BY DEF TypeOK, UiTypeOK, RestTypeOK
<1>5. job.kind = "file" => job.ed \in Editors  BY DEF TypeOK, JobTypeOK, Jobs, NoJob
<1>6. SentQueued'  BY <1>2, <1>3, <1>4, <1>5 DEF FlagInv, SentQueued
<1>7. \A f \in Editors : m_FileIsQuedForFullReparse'[f] => Queued(f)'
  BY <1>2, <1>3, <1>4 DEF FlagInv, Queued
<1> QED  BY <1>6, <1>7 DEF FlagInv

LEMMA FlagJob ==
  ASSUME TypeOK, FlagInv, Parser \/ QueueReload
  PROVE  FlagInv'
<1> USE DEF jobRest, flagVars, dbVars, jobVars, JobStep, EndJob, E
<1>1. /\ jpc # "idle" => job \in Jobs /\ job.ed \in Editors
      /\ job.kind = "file" => job.ed \in Editors
  BY DEF TypeOK, JobTypeOK, Jobs, NoJob
<1>2. CASE QueueReload \/ SkipJob
  <2>1. queue \in Seq(Jobs)  BY DEF TypeOK, JobTypeOK
  <2>2. \A j \in Jobs : InQueue(j) => InQueue(j)'
    <3>1. CASE SkipJob  BY <2>1, <3>1, RotateQueue DEF SkipJob
    <3>2. CASE QueueReload
      <4>1. PICK k : queue' = Append(queue, k)  BY <3>2 DEF QueueReload
      <4> QED  BY <2>1, <4>1 DEF InQueue
    <3> QED  BY <1>2, <3>1, <3>2
  <2>3. Harmless  BY <1>2, <2>2 DEF QueueReload, SkipJob, Harmless, HasRequest
  <2> QED  BY <2>3, FlagHarmless
<1>3. CASE TakeJob
  <2>1. /\ \A j \in Jobs : InQueue(j) <=> InQueue(j)' \/ j = job'
        /\ UNCHANGED <<m_FileIsQuedForFullReparse, dropped>> /\ job = NoJob /\ jpc' = "start"
    BY <1>3, TakeHead DEF TakeJob, TypeOK, JobTypeOK
  <2>2. \A e \in Editors : HasRequest(e) =>
          HasRequest(e)' \/ (job'.kind = "file" /\ job'.ed = e)
    BY <2>1 DEF HasRequest
  <2> QED  BY <2>1, <2>2 DEF FlagInv, SentQueued, Queued, NoJob
<1>4. CASE Abandon \/ ParseThrows
  <2>1. job \in Jobs /\ job.ed \in Editors  BY <1>1, <1>4 DEF Abandon, ParseThrows
  <2>2. PICK what \in SUBSET {"text", "locals", "flag"} :
          GiveUp(what) /\ (job.kind = "file" => "flag" \in what)
    <3>1. CASE Abandon  BY <3>1 DEF Abandon
    <3>2. CASE ParseThrows
      <4>1. CASE job.kind = "reload"  BY <3>2, <4>1 DEF ParseThrows
      <4>2. CASE job.kind = "file" /\ jpc = "locals"  BY <3>2, <4>2 DEF ParseThrows
      <4>3. CASE job.kind # "reload" /\ ~(job.kind = "file" /\ jpc = "locals")
        BY <3>2, <4>3 DEF ParseThrows
      <4> QED  BY <4>1, <4>2, <4>3
    <3> QED  BY <1>4, <3>1, <3>2
  <2>3. (\A e \in Editors : dropped[e] \subseteq dropped'[e]) /\ GivenUp(job.ed, what)
    BY <2>1, <2>2, GiveUpNotes
  <2>4. UNCHANGED <<m_FileIsQuedForFullReparse, queue>> /\ jpc' = "idle"
    BY <1>4 DEF Abandon, ParseThrows
  <2>5. \A e \in Editors : HasRequest(e)' <=> HasRequest(e)  BY <2>4 DEF HasRequest, InQueue
  <2>8. PICK f \in Editors : f = job.ed  BY <2>1
  <2>6. job.kind = "file" => Queued(f)'
    <3>1. CASE what \subseteq dropped'[f]  BY <2>2, <3>1 DEF Queued
    <3>2. CASE ~(what \subseteq dropped'[f])
      <4>1. HasRequest(f)  BY <2>3, <2>8, <3>2 DEF GivenUp, HasRequest
      <4> QED  BY <2>5, <4>1 DEF Queued
    <3> QED  BY <3>1, <3>2
  <2>7. ASSUME NEW e \in Editors, Queued(e) PROVE Queued(e)'
    <3>1. CASE "flag" \in dropped[e]  BY <2>3, <3>1 DEF Queued
    <3>2. CASE HasRequest(e)  BY <2>5, <3>2 DEF Queued
    <3>3. CASE job.kind = "file" /\ job.ed = e  BY <2>6, <2>8, <3>3
    <3> QED  BY <2>7, <3>1, <3>2, <3>3 DEF Queued
  <2> QED  BY <2>4, <2>7 DEF FlagInv, SentQueued
<1>5. CASE RemoveAllDefs \/ ParseGlobals \/ ReadText \/ ParseLocals \/ SkipLocals
  <2>1. job'.kind = job.kind /\ job'.ed = job.ed
    BY <1>1, <1>5
    DEF RemoveAllDefs, ParseGlobals, ReadText, ParseLocals, SkipLocals, Jobs
  <2>2. \A e \in Editors : "flag" \in dropped[e] => "flag" \in dropped'[e]
    <3>1. CASE UNCHANGED dropped  BY <3>1
    <3>2. CASE ~UNCHANGED dropped
      <4>1. SkipLocals /\ GiveUp({"locals"})
        BY <1>5, <3>2 DEF RemoveAllDefs, ParseGlobals, ReadText, ParseLocals, SkipLocals
      <4>2. job.ed \in Editors  BY <1>1, <4>1 DEF SkipLocals
      <4> QED  BY <4>1, <4>2, GiveUpNotes
    <3> QED  BY <3>1, <3>2
  <2>3. UNCHANGED <<m_FileIsQuedForFullReparse, queue>> /\ jpc' # "sent"
    BY <1>5 DEF RemoveAllDefs, ParseGlobals, ReadText, ParseLocals, SkipLocals
  <2>4. Harmless  BY <2>1, <2>2, <2>3 DEF Harmless, HasRequest, InQueue
  <2> QED  BY <2>4, FlagHarmless
<1>6. CASE AnswerSetDb
  <2>1. /\ ~m_FileIsQuedForFullReparse'[job.ed]
        /\ \A e \in Editors : m_FileIsQuedForFullReparse'[e] => m_FileIsQuedForFullReparse[e]
    BY <1>1, <1>6 DEF AnswerSetDb, SetDb, TypeOK, UiTypeOK
  <2>2. Harmless  BY <1>6, <2>1 DEF AnswerSetDb, Harmless, HasRequest, InQueue
  <2> QED  BY <2>2, FlagHarmless
<1>7. CASE FinishJob
  <2>1. /\ jpc \in {"sent", "end"} /\ job' = NoJob /\ jpc' = "idle"
        /\ \A e \in Editors : m_FileIsQuedForFullReparse'[e] => m_FileIsQuedForFullReparse[e]
        /\ job.kind = "file" /\ m_FileIsQuedForFullReparse'[job.ed] => jpc = "sent"
    BY <1>1, <1>7 DEF FinishJob, TypeOK, UiTypeOK, Jobs
  <2>2. UNCHANGED dropped /\ \A e \in Editors : HasRequest(e)' <=> HasRequest(e)
    BY <1>7 DEF FinishJob, HasRequest, InQueue
  <2> QED  BY <1>1, <2>1, <2>2 DEF FlagInv, SentQueued, Queued
<1> QED  BY <1>2, <1>3, <1>4, <1>5, <1>6, <1>7 DEF Parser

\* An editor that counts itself as queued, which keeps Scope and the underlining
\* from running, has a request in the queue or at work, unless StopIt or an exception ended it and no
\* newer one waits.
THEOREM QueuedHasRequest == Spec => []QueuedMeansRequested
<1>1. Init => FlagInv  BY DEF Init, FlagInv, SentQueued
<1>2. ASSUME IInv, FlagInv, [Next]_vars PROVE FlagInv'
  <2>1. TypeOK  BY <1>2 DEF IInv
  <2>2. PICK first \in Editors : TRUE  BY EditorAssumption
  <2>3. ASSUME NEW e \in Editors,
               DocModifiedTimer(e) \/ Scope(e) \/ ReparseAndWaitIfNeeded(e)
        PROVE  FlagInv'
    BY <1>2, <2>1, <2>3, FlagRequest DEF DocModifiedTimer, Scope, ReparseAndWaitIfNeeded
  <2>4. ASSUME NEW e \in Editors,
               Type(e) \/ Save(e) \/ KeyUp(e) \/ OnSetFocus(e) \/ ReloadTimer(e)
        PROVE  FlagInv'
    BY <1>2, <2>1, <2>4, FlagUi
  <2>5. CASE LeaveEditors \/ ClearOther \/ SendOther \/ ProjectLoad
    BY <1>2, <2>1, <2>2, <2>5, FlagUi
  <2>6. CASE Parser \/ QueueReload  BY <1>2, <2>1, <2>6, FlagJob
  <2>7. CASE UNCHANGED vars
    <3>1. UNCHANGED <<m_FileIsQuedForFullReparse, dropped, job, jpc, queue>>
      BY <2>7 DEF vars, flagVars, jobVars
    <3> QED  BY <1>2, <3>1 DEF FlagInv, SentQueued, Queued, HasRequest, InQueue
  <2> QED
    BY <1>2, <2>3, <2>4, <2>5, <2>6, <2>7 DEF Next, User, Timers, Waits, UiThread
<1>3. IInv /\ FlagInv => QueuedMeansRequested
  <2> SUFFICES ASSUME IInv, FlagInv, NEW e \in Editors, m_FileIsQuedForFullReparse[e],
                      HasRequest(e)
               PROVE  \E i \in DOMAIN queue : queue[i].kind = "file" /\ queue[i].ed = e
    BY DEF FlagInv, Queued, QueuedMeansRequested
  <2> QED  BY DEF HasRequest, InQueue
<1> QED  BY <1>1, <1>2, <1>3, IInvHolds, PTL DEF Spec
-----------------------------------------------------------------------------
(* The local symbols of the editor at work.                                *)

\* A reload, or a request, of an editor's file waits.
HasReload(e) == \E j \in Jobs : InQueue(j) /\ j.kind = "reload" /\ j.ed = e
HasJob(e) == \E j \in Jobs : InQueue(j) /\ j.ed = e

\* Nothing that was read, parsed or delivered is newer than what the editor shows.
TextsBounded ==
  /\ \A e \in Editors : disk[e] <= text[e] /\ mPendingMp[e] <= text[e] /\ 1 <= text[e]
  /\ \A j \in Jobs : InQueue(j) => j.text <= text[j.ed]
  /\ \A e \in Editors : job.ed = e => job.text <= text[e]

\* While the editors are emptied, the one that asked for it keeps the focus, and
\* is not one of them.
EmptiesOthers ==
  upc # "idle" => focus = lw /\ \A i \in DOMAIN clearing : clearing[i] # lw
FocusIsCurrent == focus # NoEditor => g_currentEdCnt = focus

\* As long as no request has been made after the last reload, that reload stays
\* behind every request in the queue, although reloads may be put off.
ReloadIsLast ==
  upc = "idle" /\ s_LastReparseFile # NoEditor =>
    \A i \in DOMAIN queue : queue[i].kind = "file" =>
      \E k \in DOMAIN queue : i < k /\ queue[k].kind = "reload" /\ queue[k].ed = lw
LastIsFocused == s_LastReparseFile # NoEditor => s_LastReparseFile = lw

\* What is left of the excuses once the message of SetNewMparse has been answered.
Excused(e) ==
  m_pmparse[e] \in {text[e], 0} \/ "locals" \in dropped[e] \/ outrun[e] \/ docTimer[e]
Delivered(e) == Excused(e) \/ HasJob(e)

\* The job at work will bring the local symbols of e, unless it is a request and e
\* is not the current editor when they are due.
Working(e) ==
  job.ed = e /\ jpc \notin {"sent", "end"} /\ ~(job.kind = "reload" /\ stopped)
ReloadAtWork(e) == Working(e) /\ job.kind = "reload"

\* A message that finds nothing to take comes after another one took it.
TakenBefore ==
  jpc = "send" => mPendingMp[job.ed] # None \/ Delivered(job.ed)

\* The last editor that was reloaded is not reloaded again, and may lose the
\* focus, in which case requests leave it alone: only a reload counts for it.
LastIsKnown ==
  \A e \in Editors : s_LastReparseFile = e =>
    Excused(e) \/ upc # "idle" \/ HasReload(e) \/ ReloadAtWork(e)
FocusedIsKnown ==
  \A e \in Editors : focus = e =>
    Excused(e) \/ reloadTimer[e] \/ HasJob(e) \/ Working(e) \/ (lw = e /\ upc # "idle")

LocalsInv ==
  /\ TextsBounded /\ EmptiesOthers /\ FocusIsCurrent /\ ReloadIsLast /\ LastIsFocused
  /\ TakenBefore /\ LastIsKnown /\ FocusedIsKnown

-----------------------------------------------------------------------------
(* Texts, focus and the order of the queue.                                *)

LEMMA JobAtWork ==
  ASSUME TypeOK
  PROVE  /\ jpc # "idle" => job \in Jobs /\ job.ed \in Editors /\ job.kind \in {"file", "reload"}
         /\ \A e \in Editors : job.ed = e => job \in Jobs /\ jpc # "idle"
BY EditorAssumption DEF TypeOK, JobTypeOK, Jobs, NoJob

LEMMA Numbers ==
  ASSUME TypeOK
  PROVE  /\ \A e \in Editors : /\ text[e] \in Int /\ disk[e] \in Int /\ mPendingMp[e] \in Int
                               /\ m_pmparse[e] \in Int /\ dictionary[e] \in Int
                               /\ edits \in Int
         /\ \A j \in Jobs : j.text \in Int /\ j.ed \in Editors
<1>1. Version \subseteq Int /\ Version \cup {None} \subseteq Int  BY Bounds DEF Version, None
<1>2. \A e \in Editors : /\ text[e] \in Version /\ disk[e] \in Version /\ m_pmparse[e] \in Version
                         /\ mPendingMp[e] \in Version \cup {None}
  BY DEF TypeOK, UiTypeOK
<1>3. \A e \in Editors : dictionary[e] \in Version  BY DEF TypeOK, JobTypeOK
<1>4. edits \in Int  BY Bounds DEF TypeOK, RestTypeOK
<1>5. \A j \in Jobs : j.text \in Version /\ j.ed \in Editors  BY DEF Jobs
<1> QED  BY <1>1, <1>2, <1>3, <1>4, <1>5

LEMMA TextsKept ==
  ASSUME TypeOK, TypeOK', TextsBounded, UNCHANGED <<text, disk>>,
         \A e \in Editors : mPendingMp'[e] <= text[e],
         \A j \in Jobs : InQueue(j)' => InQueue(j) \/ j.text <= text[j.ed],
         \A e \in Editors : job'.ed = e => job'.text <= text[e]
  PROVE  TextsBounded'
BY DEF TextsBounded, Jobs

LEMMA TextsUi ==
  ASSUME IInv, IInv', LocalsInv, NEW e \in Editors,
         \/ Type(e) \/ Save(e) \/ KeyUp(e) \/ OnSetFocus(e) \/ LeaveEditors \/ ReloadTimer(e)
         \/ ClearOther \/ SendOther \/ ProjectLoad
  PROVE  TextsBounded'
<1> USE DEF textVars, flagVars, timerVars, focusVars, lastVars, dbVars, uiVars, jobVars, loadVars
<1>1. TypeOK /\ TypeOK' /\ TextsBounded  BY DEF IInv, LocalsInv
<1>2. UNCHANGED <<queue, job>>
  BY DEF Type, Save, KeyUp, OnSetFocus, LeaveEditors, ReloadTimer, ClearOther, SendOther,
         ProjectLoad
<1>3. \A j : InQueue(j)' <=> InQueue(j)  BY <1>2 DEF InQueue
<1>4. CASE Type(e)
  <2>1. \A f \in Editors : text[f] <= text'[f]
    <3>1. \A f \in Editors : text'[f] = IF f = e THEN text[f] + 1 ELSE text[f]
      BY <1>1, <1>4 DEF Type, TypeOK, UiTypeOK
    <3> QED  BY <1>1, <3>1, Numbers
  <2>2. \A f \in Editors : text'[f] \in Int  BY <1>1 , Bounds DEF TypeOK, UiTypeOK, Version
  <2>3. UNCHANGED <<disk, mPendingMp>>  BY <1>4 DEF Type
  <2>4. \A f \in Editors : disk'[f] <= text'[f] /\ mPendingMp'[f] <= text'[f] /\ 1 <= text'[f]
    BY <1>1, <2>1, <2>2, <2>3, Numbers DEF TextsBounded
  <2>5. \A j \in Jobs : InQueue(j)' => j.text <= text'[j.ed]
    BY <1>1, <1>3, <2>1, <2>2, Numbers DEF TextsBounded
  <2>6. \A f \in Editors : job'.ed = f => job'.text <= text'[f]
    BY <1>1, <1>2, <2>1, <2>2, Numbers, JobAtWork DEF TextsBounded
  <2> QED  BY <2>4, <2>5, <2>6 DEF TextsBounded
<1>5. CASE Save(e)
  <2>1. UNCHANGED <<text, mPendingMp>> /\ \A f \in Editors : disk'[f] \in {disk[f], text[f]}
    BY <1>1, <1>5 DEF Save, TypeOK, UiTypeOK
  <2>2. \A f \in Editors : disk'[f] <= text'[f]
    BY <1>1, <2>1, Numbers DEF TextsBounded
  <2> QED  BY <1>1, <1>2, <1>3, <2>1, <2>2 DEF TextsBounded
<1>6. CASE ClearOther \/ SendOther
  <2>1. clearing \in Seq(Editors) /\ clearing # <<>>
    BY <1>1, <1>6 DEF ClearOther, SendOther, TypeOK, UiTypeOK
  <2>2. Head(clearing) \in Editors  BY <2>1
  <2>3. UNCHANGED <<text, disk>> /\ \A f \in Editors : mPendingMp'[f] \in {mPendingMp[f], 0, None}
    BY <1>1, <1>6, <2>2 DEF ClearOther, SendOther, SetDb, TypeOK, UiTypeOK
  <2>4. \A f \in Editors : mPendingMp'[f] <= text[f]
    BY <1>1, <2>3, Numbers DEF TextsBounded, None
  <2> QED  BY <1>1, <1>2, <1>3, <2>3, <2>4, TextsKept DEF TextsBounded
<1>7. CASE KeyUp(e) \/ OnSetFocus(e) \/ LeaveEditors \/ ReloadTimer(e) \/ ProjectLoad
  <2>1. UNCHANGED <<text, disk, mPendingMp>>
    BY <1>7 DEF KeyUp, OnSetFocus, LeaveEditors, ReloadTimer, ProjectLoad
  <2> QED  BY <1>1, <1>2, <1>3, <2>1 DEF TextsBounded
<1> QED  BY <1>4, <1>5, <1>6, <1>7

LEMMA TextsRequest ==
  ASSUME IInv, IInv', LocalsInv, NEW e \in Editors, QueForReparse(e)
  PROVE  TextsBounded'
<1>1. TypeOK /\ TypeOK' /\ TextsBounded  BY DEF IInv, LocalsInv
<1>2. UNCHANGED <<text, disk, mPendingMp, job>>
  BY DEF QueForReparse, textVars, dbVars, jobVars
<1>3. \A j \in Jobs : InQueue(j)' => InQueue(j) \/ j = Request(e)
  BY <1>1, MergeRequest DEF QueForReparse
<1>4. Request(e).text <= text[Request(e).ed]  BY <1>1, Numbers DEF Request
<1> QED  BY <1>1, <1>2, <1>3, <1>4, TextsKept DEF TextsBounded

LEMMA TextsJob ==
  ASSUME IInv, IInv', LocalsInv, Parser \/ QueueReload
  PROVE  TextsBounded'
<1> USE DEF jobRest, textVars, flagVars, dbVars, uiVars, jobVars, JobStep, EndJob, E
<1>1. TypeOK /\ TypeOK' /\ TextsBounded  BY DEF IInv, LocalsInv
<1>2. queue \in Seq(Jobs)  BY <1>1 DEF TypeOK, JobTypeOK
<1>3. UNCHANGED <<text, disk>>
  BY DEF Parser, QueueReload, TakeJob, SkipJob, Abandon, ParseThrows, RemoveAllDefs, ParseGlobals, ReadText,
         ParseLocals, SkipLocals, AnswerSetDb, FinishJob
<1>4. \A e \in Editors : mPendingMp'[e] <= text[e]
  <2>1. CASE ParseLocals
    <3>1. job.ed \in Editors  BY <1>1, <2>1, JobAtWork DEF ParseLocals
    <3>2. job.text <= text[job.ed]  BY <1>1, <3>1 DEF TextsBounded
    <3>3. \A e \in Editors : mPendingMp'[e] = IF e = job.ed THEN job.text ELSE mPendingMp[e]
      BY <1>1, <2>1 DEF ParseLocals, TypeOK, UiTypeOK
    <3> QED  BY <1>1, <3>2, <3>3 DEF TextsBounded
  <2>2. CASE AnswerSetDb
    <3>1. \A e \in Editors : mPendingMp'[e] \in {mPendingMp[e], None}
      BY <1>1, <2>2 DEF AnswerSetDb, SetDb, TypeOK, UiTypeOK
    <3> QED  BY <1>1, <3>1, Numbers DEF TextsBounded, None
  <2>3. CASE ~ParseLocals /\ ~AnswerSetDb
    <3>1. UNCHANGED mPendingMp
      BY <2>3 DEF Parser, QueueReload, TakeJob, SkipJob, Abandon, ParseThrows, RemoveAllDefs, ParseGlobals,
                  ReadText, SkipLocals, FinishJob
    <3> QED  BY <1>1, <3>1 DEF TextsBounded
  <2> QED  BY <2>1, <2>2, <2>3
<1>5. \A j \in Jobs : InQueue(j)' => InQueue(j) \/ j.text <= text[j.ed]
  <2>1. CASE QueueReload
    <3> DEFINE reload == [kind |-> "reload", ed |-> lw,
                          text |-> IF Modified(lw) THEN text[lw] ELSE 0]
    <3>1. lw \in Editors  BY <1>1, <2>1 DEF QueueReload, TypeOK, UiTypeOK
    <3>2. 0 \in Version  BY Bounds DEF Version
    <3>3. reload \in Jobs  BY <1>1, <3>1, <3>2 DEF Jobs, TypeOK, UiTypeOK
    <3>4. reload.text <= text[reload.ed]  BY <1>1, <3>1, Numbers DEF TextsBounded
    <3> HIDE DEF reload
    <3>5. queue' = Append(queue, reload)  BY <2>1 DEF QueueReload, reload
    <3> QED  BY <1>2, <3>3, <3>4, <3>5, AppendQueue
  <2>2. CASE TakeJob  BY <1>2, <2>2, TakeHead DEF TakeJob
  <2>3. CASE SkipJob  BY <1>2, <2>3, RotateQueue DEF SkipJob
  <2>4. CASE ~QueueReload /\ ~TakeJob /\ ~SkipJob
    <3>1. UNCHANGED queue
      BY <2>4 DEF Parser, Abandon, ParseThrows, RemoveAllDefs, ParseGlobals, ReadText, ParseLocals,
                  SkipLocals, AnswerSetDb, FinishJob
    <3> QED  BY <3>1 DEF InQueue
  <2> QED  BY <2>1, <2>2, <2>3, <2>4
<1>6. \A e \in Editors : job'.ed = e => job'.text <= text[e]
  <2>1. CASE TakeJob
    <3>1. job' \in Jobs /\ InQueue(job')
      <4>1. Head(queue) \in Jobs /\ InQueue(Head(queue))
        BY <1>2, <2>1, TakeHead DEF TakeJob
      <4> QED  BY <2>1, <4>1 DEF TakeJob, InQueue
    <3> QED  BY <1>1, <3>1 DEF TextsBounded
  <2>2. CASE ReadText
    <3>1. job \in Jobs /\ job.ed \in Editors  BY <1>1, <2>2, JobAtWork DEF ReadText
    <3>2. job'.ed = job.ed /\ job'.text \in {job.text, disk[job.ed]}
      BY <2>2, <3>1 DEF ReadText, Jobs
    <3> QED  BY <1>1, <3>1, <3>2 DEF TextsBounded
  <2>3. CASE Abandon \/ ParseThrows \/ FinishJob
    <3>1. job' = NoJob  BY <2>3 DEF Abandon, ParseThrows, FinishJob
    <3> QED  BY <3>1, EditorAssumption DEF NoJob
  <2>4. CASE ~TakeJob /\ ~ReadText /\ ~Abandon /\ ~ParseThrows /\ ~FinishJob
    <3>1. UNCHANGED job
      BY <2>4 DEF Parser, QueueReload, SkipJob, RemoveAllDefs, ParseGlobals, ParseLocals,
                  SkipLocals, AnswerSetDb
    <3> QED  BY <1>1, <3>1 DEF TextsBounded
  <2> QED  BY <2>1, <2>2, <2>3, <2>4
<1> QED  BY <1>1, <1>3, <1>4, <1>5, <1>6, TextsKept

LEMMA RotatedAt ==
  ASSUME queue \in Seq(Jobs), queue # <<>>, queue' = Append(Tail(queue), Head(queue))
  PROVE  /\ Len(queue) \in Nat /\ Len(queue') = Len(queue)
         /\ DOMAIN queue = 1..Len(queue) /\ DOMAIN queue' = 1..Len(queue)
         /\ \A i \in 1..Len(queue) :
              queue'[i] = IF i = Len(queue) THEN queue[1] ELSE queue[i + 1]
<1>1. /\ Tail(queue) \in Seq(Jobs) /\ Head(queue) \in Jobs /\ Head(queue) = queue[1]
      /\ Len(queue) \in Nat /\ 1 <= Len(queue) /\ Len(Tail(queue)) = Len(queue) - 1
      /\ \A i \in 1..(Len(queue) - 1) : Tail(queue)[i] = queue[i + 1]
  OBVIOUS
<1>2. /\ Len(queue') = Len(queue) /\ queue' \in Seq(Jobs)
      /\ \A i \in 1..(Len(queue) - 1) : queue'[i] = Tail(queue)[i]
      /\ queue'[Len(queue)] = Head(queue)
  BY <1>1
<1> QED  BY <1>1, <1>2

\* Requests end the promise, reloads renew it, and putting one off keeps it.
LEMMA OrderKept ==
  ASSUME IInv, LocalsInv, [Next]_vars PROVE ReloadIsLast'
<1> USE DEF textVars, flagVars, timerVars, focusVars, lastVars, dbVars, uiVars, jobVars, loadVars
<1>1. queue \in Seq(Jobs) /\ ReloadIsLast
  BY DEF IInv, TypeOK, JobTypeOK, LocalsInv
<1>2. CASE UNCHANGED <<queue, lw, s_LastReparseFile, upc>>
  BY <1>1, <1>2 DEF ReloadIsLast
<1>3. CASE s_LastReparseFile' = NoEditor \/ upc' # "idle"
  BY <1>3 DEF ReloadIsLast
<1>4. CASE QueueReload
  <2>1. PICK new : queue' = Append(queue, new) /\ new.kind = "reload" /\ new.ed = lw
    BY <1>4 DEF QueueReload
  <2>2. Len(queue) \in Nat /\ DOMAIN queue' = 1..(Len(queue) + 1) /\ lw' = lw
    BY <1>1, <1>4, <2>1 DEF QueueReload
  <2>3. /\ queue'[Len(queue) + 1] = new
        /\ \A i \in 1..Len(queue) : queue'[i] = queue[i]
    BY <1>1, <2>1
  <2>4. new.kind # "file"  BY <2>1
  <2>5. ASSUME NEW i \in DOMAIN queue', queue'[i].kind = "file"
        PROVE  /\ Len(queue) + 1 \in DOMAIN queue' /\ i < Len(queue) + 1
               /\ queue'[Len(queue) + 1].kind = "reload" /\ queue'[Len(queue) + 1].ed = lw'
    <3>1. i # Len(queue) + 1  BY <2>3, <2>4, <2>5
    <3> QED  BY <2>1, <2>2, <2>3, <3>1
  <2> QED  BY <2>5 DEF ReloadIsLast
<1>5. CASE TakeJob
  <2>1. /\ queue # <<>> /\ queue' = Tail(queue)
        /\ UNCHANGED <<lw, s_LastReparseFile, upc>>
    BY <1>5 DEF TakeJob, jobRest
  <2>2. /\ Len(queue) \in Nat /\ DOMAIN queue = 1..Len(queue)
        /\ DOMAIN queue' = 1..(Len(queue) - 1)
        /\ \A i \in 1..(Len(queue) - 1) : queue'[i] = queue[i + 1]
    BY <1>1, <2>1
  <2> SUFFICES ASSUME upc = "idle", s_LastReparseFile # NoEditor,
                      NEW i \in DOMAIN queue', queue'[i].kind = "file"
               PROVE  \E k \in DOMAIN queue' :
                        i < k /\ queue'[k].kind = "reload" /\ queue'[k].ed = lw
    BY <2>1 DEF ReloadIsLast
  <2>3. i + 1 \in DOMAIN queue /\ queue[i + 1].kind = "file"  BY <2>2
  <2>4. PICK k \in DOMAIN queue : i + 1 < k /\ queue[k].kind = "reload" /\ queue[k].ed = lw
    BY <1>1, <2>3 DEF ReloadIsLast
  <2>5. k - 1 \in DOMAIN queue' /\ i < k - 1 /\ (k - 1) + 1 = k  BY <2>2, <2>4
  <2>6. queue'[k - 1] = queue[k]  BY <2>2, <2>5
  <2> QED  BY <2>4, <2>5, <2>6
<1>6. CASE SkipJob
  <2>1. /\ queue # <<>> /\ queue' = Append(Tail(queue), Head(queue)) /\ Head(queue).kind # "file"
        /\ Head(queue) = queue[1] /\ UNCHANGED <<lw, s_LastReparseFile, upc>>
    BY <1>1, <1>6 DEF SkipJob, jobRest
  <2>2. /\ Len(queue) \in Nat /\ DOMAIN queue = 1..Len(queue) /\ DOMAIN queue' = 1..Len(queue)
        /\ \A i \in 1..Len(queue) :
             queue'[i] = IF i = Len(queue) THEN queue[1] ELSE queue[i + 1]
    BY <1>1, <2>1, RotatedAt
  <2> SUFFICES ASSUME upc = "idle", s_LastReparseFile # NoEditor,
                      NEW i \in DOMAIN queue', queue'[i].kind = "file"
               PROVE  \E k \in DOMAIN queue' :
                        i < k /\ queue'[k].kind = "reload" /\ queue'[k].ed = lw
    BY <2>1 DEF ReloadIsLast
  <2>3. i # Len(queue)  BY <2>1, <2>2
  <2>4. i + 1 \in DOMAIN queue /\ queue[i + 1].kind = "file"
    <3>1. i \in 1..Len(queue) /\ queue'[i] = queue[i + 1]  BY <2>2, <2>3
    <3>2. Len(queue) \in Nat /\ DOMAIN queue = 1..Len(queue)  BY <2>2
    <3>3. i + 1 \in 1..Len(queue)  BY <2>3, <3>1, <3>2
    <3> QED  BY <3>1, <3>2, <3>3
  <2>5. PICK k \in DOMAIN queue : i + 1 < k /\ queue[k].kind = "reload" /\ queue[k].ed = lw
    BY <1>1, <2>4 DEF ReloadIsLast
  <2>6. k - 1 \in DOMAIN queue' /\ i < k - 1 /\ (k - 1) + 1 = k /\ k - 1 # Len(queue)
    <3>1. i \in 1..Len(queue) /\ k \in 1..Len(queue)  BY <2>2
    <3>2. Len(queue) \in Nat /\ DOMAIN queue' = 1..Len(queue)  BY <2>2
    <3>3. i + 1 < k  BY <2>5
    <3> QED  BY <3>1, <3>2, <3>3
  <2>7. queue'[k - 1] = queue[k]  BY <2>2, <2>6
  <2> QED  BY <2>5, <2>6, <2>7
<1>7. ASSUME NEW e \in Editors, DocModifiedTimer(e) \/ Scope(e) \/ ReparseAndWaitIfNeeded(e)
      PROVE  s_LastReparseFile' = NoEditor
  BY <1>7 DEF DocModifiedTimer, Scope, ReparseAndWaitIfNeeded, QueForReparse
<1>8. ASSUME NEW e \in Editors, Type(e) \/ Save(e) \/ KeyUp(e) \/ OnSetFocus(e)
      PROVE  UNCHANGED <<queue, lw, s_LastReparseFile, upc>>
  BY <1>8 DEF Type, Save, KeyUp, OnSetFocus
<1>9. ASSUME NEW e \in Editors, ReloadTimer(e)
      PROVE  UNCHANGED <<queue, lw, s_LastReparseFile, upc>> \/ upc' # "idle"
  BY <1>9 DEF ReloadTimer
<1>10. CASE ClearOther \/ SendOther
  <2>1. upc' # "idle"  BY <1>10 DEF ClearOther, SendOther
  <2> QED  BY <1>3, <2>1
<1>11. CASE LeaveEditors \/ ProjectLoad \/ UNCHANGED vars
  BY <1>2, <1>11 DEF LeaveEditors, ProjectLoad, vars
<1>12. CASE Parser
  <2>1. CASE ~TakeJob /\ ~SkipJob
    BY <1>2, <1>12, <2>1
    DEF Parser, jobRest, Abandon, ParseThrows, RemoveAllDefs, ParseGlobals, ReadText, ParseLocals,
        SkipLocals, AnswerSetDb, FinishJob
  <2> QED  BY <1>5, <1>6, <2>1
<1> QED
  BY <1>2, <1>3, <1>4, <1>7, <1>8, <1>9, <1>10, <1>11, <1>12
  DEF Next, User, Timers, Waits, UiThread

\* Only ReloadTimer sets upc, lw and s_LastReparseFile, for the editor with the focus.
LEMMA FocusKept ==
  ASSUME IInv, LocalsInv, [Next]_vars
  PROVE  EmptiesOthers' /\ FocusIsCurrent' /\ LastIsFocused'
<1> USE DEF textVars, flagVars, timerVars, focusVars, lastVars, dbVars, uiVars, jobVars, loadVars,
            EmptiesOthers, FocusIsCurrent, LastIsFocused
<1>1. EmptiesOthers /\ FocusIsCurrent /\ LastIsFocused /\ UiTypeOK
  BY DEF IInv, TypeOK, LocalsInv
<1>2. CASE UNCHANGED <<upc, clearing, focus, g_currentEdCnt, lw, s_LastReparseFile>>
  BY <1>1, <1>2
<1>3. ASSUME NEW e \in Editors, DocModifiedTimer(e) \/ Scope(e) \/ ReparseAndWaitIfNeeded(e)
      PROVE  EmptiesOthers' /\ FocusIsCurrent' /\ LastIsFocused'
  <2>1. /\ s_LastReparseFile' = NoEditor
        /\ UNCHANGED <<upc, clearing, focus, g_currentEdCnt, lw>>
    BY <1>3 DEF DocModifiedTimer, Scope, ReparseAndWaitIfNeeded, QueForReparse
  <2> QED  BY <1>1, <2>1
<1>4. ASSUME NEW e \in Editors, Type(e) \/ Save(e) \/ KeyUp(e)
      PROVE  UNCHANGED <<upc, clearing, focus, g_currentEdCnt, lw, s_LastReparseFile>>
  BY <1>4 DEF Type, Save, KeyUp
<1>5. ASSUME LeaveEditors \/ \E e \in Editors : OnSetFocus(e)
      PROVE  EmptiesOthers' /\ FocusIsCurrent' /\ LastIsFocused'
  BY <1>1, <1>5 DEF LeaveEditors, OnSetFocus
<1>6. ASSUME NEW e \in Editors, ReloadTimer(e)
      PROVE  EmptiesOthers' /\ FocusIsCurrent' /\ LastIsFocused'
  <2>1. CASE UNCHANGED <<lastVars, uiVars>>  BY <1>2, <1>6, <2>1 DEF ReloadTimer
  <2>2. CASE ~UNCHANGED <<lastVars, uiVars>>
    <3>1. /\ focus = e /\ lw' = e /\ s_LastReparseFile' = e /\ upc' = "clear"
          /\ UNCHANGED <<focus, g_currentEdCnt>>
          /\ LET others == {o \in Editors \ (Retained \cup {e}) : ~Modified(o) /\ hasBuf[o]}
             IN \E s \in [1..Cardinality(others) -> others] : clearing' = s
      BY <1>6, <2>2 DEF ReloadTimer
    <3>2. \A i \in DOMAIN clearing' : clearing'[i] # e  BY <3>1
    <3> QED  BY <1>1, <3>1, <3>2
  <2> QED  BY <2>1, <2>2
<1>7. CASE ClearOther \/ SendOther \/ QueueReload
  <2>1. CASE ClearOther  BY <1>1, <2>1 DEF ClearOther
  <2>2. CASE SendOther
    <3>1. clearing # <<>> /\ clearing \in Seq(Editors)  BY <1>1, <2>2 DEF SendOther, UiTypeOK
    <3>2. \A i \in DOMAIN Tail(clearing) :
            i + 1 \in DOMAIN clearing /\ Tail(clearing)[i] = clearing[i + 1]
      BY <3>1
    <3>3. /\ clearing' = Tail(clearing) /\ upc' = "clear" /\ upc = "send"
          /\ UNCHANGED <<focus, g_currentEdCnt, lw, s_LastReparseFile>>
      BY <2>2 DEF SendOther
    <3>4. \A i \in DOMAIN clearing' : clearing'[i] # lw  BY <1>1, <3>2, <3>3
    <3> QED  BY <1>1, <3>3, <3>4
  <2>3. CASE QueueReload  BY <1>1, <2>3 DEF QueueReload
  <2> QED  BY <1>7, <2>1, <2>2, <2>3
<1>8. CASE ProjectLoad \/ UNCHANGED vars  BY <1>2, <1>8 DEF ProjectLoad, vars
<1>9. CASE Parser
  BY <1>2, <1>9
  DEF Parser, jobRest, TakeJob, SkipJob, Abandon, ParseThrows, RemoveAllDefs, ParseGlobals, ReadText,
      ParseLocals, SkipLocals, AnswerSetDb, FinishJob
<1> QED
  BY <1>2, <1>3, <1>4, <1>5, <1>6, <1>7, <1>8, <1>9 DEF Next, User, Timers, Waits, UiThread

-----------------------------------------------------------------------------
(* What is known of the local symbols.                                     *)

Known == TakenBefore /\ LastIsKnown /\ FocusedIsKnown

\* A step that lets go of one excuse leaves another.
LEMMA KnownKept ==
  ASSUME LocalsInv, lw' = lw, s_LastReparseFile' \in {s_LastReparseFile, NoEditor},
         upc # "idle" => upc' # "idle", TakenBefore',
         \A e \in Editors :
           /\ focus' = e => focus = e \/ reloadTimer'[e]
           /\ Excused(e) => Excused(e)' \/ (HasJob(e)' /\ s_LastReparseFile' # e)
           /\ reloadTimer[e] => reloadTimer'[e] \/ HasJob(e)'
           /\ HasJob(e) => HasJob(e)' \/ Working(e)'
           /\ s_LastReparseFile = e /\ upc = "idle" /\ (HasReload(e) \/ ReloadAtWork(e)) =>
                HasReload(e)' \/ ReloadAtWork(e)' \/ Excused(e)'
           /\ Working(e) => Working(e)' \/ Excused(e)' \/ focus' # e \/ HasJob(e)'
  PROVE  Known'
<1>1. LastIsKnown'
  <2>1. \A e \in Editors : s_LastReparseFile' = e => s_LastReparseFile = e
    BY EditorAssumption
  <2> QED  BY <2>1 DEF LocalsInv, LastIsKnown
<1>2. FocusedIsKnown'  BY DEF LocalsInv, FocusedIsKnown
<1> QED  BY <1>1, <1>2 DEF Known

LEMMA TakenKept ==
  ASSUME TypeOK, LocalsInv, \A e \in Editors : Delivered(e) => Delivered(e)',
         jpc' = "send" =>
           /\ jpc = "send" /\ job' = job
           /\ mPendingMp[job.ed] # None => mPendingMp'[job.ed] # None
  PROVE  TakenBefore'
BY JobAtWork DEF LocalsInv, TakenBefore

\* Excuses, as far as the queue and the job at work do not change.
LEMMA ExcusesKept ==
  ASSUME TypeOK, UNCHANGED <<m_pmparse, dropped, outrun>>,
         \A e \in Editors : docTimer[e] => docTimer'[e],
         \A e \in Editors : text'[e] # text[e] => docTimer'[e]
  PROVE  \A e \in Editors : Excused(e) => Excused(e)'
BY DEF Excused

LEMMA QueueKept ==
  ASSUME UNCHANGED queue
  PROVE  \A e : (HasJob(e)' <=> HasJob(e)) /\ (HasReload(e)' <=> HasReload(e))
BY DEF HasJob, HasReload, InQueue

LEMMA WorkKept ==
  ASSUME UNCHANGED <<job, jpc, stopped>>
  PROVE  \A e : (Working(e)' <=> Working(e)) /\ (ReloadAtWork(e)' <=> ReloadAtWork(e))
BY DEF Working, ReloadAtWork

LEMMA JobsMean ==
  ASSUME NEW e \in Editors PROVE HasReload(e) => HasJob(e)
BY DEF HasReload, HasJob

\* The user and the project loads: an edit starts a timer, as the focus does.
LEMMA KnownUser ==
  ASSUME IInv, LocalsInv, NEW e \in Editors,
         Type(e) \/ Save(e) \/ KeyUp(e) \/ OnSetFocus(e) \/ LeaveEditors \/ ProjectLoad \/ ClearOther
  PROVE  Known'
<1> USE DEF textVars, flagVars, timerVars, focusVars, lastVars, dbVars, uiVars, jobVars, loadVars
<1>1. TypeOK  BY DEF IInv
<1>2. UNCHANGED <<queue, job, jpc, stopped, lw, s_LastReparseFile, m_pmparse, dropped, outrun>>
  BY DEF Type, Save, KeyUp, OnSetFocus, LeaveEditors, ProjectLoad, ClearOther
<1>3. upc # "idle" => upc' # "idle"
  BY DEF Type, Save, KeyUp, OnSetFocus, LeaveEditors, ProjectLoad, ClearOther
<1>4. \A f \in Editors :
        /\ docTimer[f] => docTimer'[f]
        /\ reloadTimer[f] => reloadTimer'[f]
        /\ text'[f] # text[f] => docTimer'[f]
        /\ focus' = f => focus = f \/ reloadTimer'[f]
  <2>1. CASE Type(e)  BY <1>1, <2>1 DEF Type, TypeOK, UiTypeOK
  <2>2. CASE Save(e) \/ ProjectLoad \/ ClearOther  BY <2>2 DEF Save, ProjectLoad, ClearOther
  <2>3. CASE KeyUp(e)  BY <1>1, <2>3 DEF KeyUp, TypeOK, UiTypeOK
  <2>4. CASE OnSetFocus(e)
    BY <1>1, <2>4 DEF OnSetFocus, KillFocus, TypeOK, UiTypeOK
  <2>5. CASE LeaveEditors
    BY <1>1, <2>5, EditorAssumption DEF LeaveEditors, KillFocus, TypeOK, UiTypeOK
  <2> QED  BY <2>1, <2>2, <2>3, <2>4, <2>5
<1>5. \A f \in Editors : Excused(f) => Excused(f)'  BY <1>1, <1>2, <1>4, ExcusesKept
<1>6. \A f \in Editors : Delivered(f) => Delivered(f)'
  BY <1>2, <1>5, QueueKept DEF Delivered
<1>7. jpc = "send" /\ mPendingMp[job.ed] # None => mPendingMp'[job.ed] # None
  <2>1. CASE ClearOther
    <3>1. \A f \in Editors : mPendingMp'[f] \in {mPendingMp[f], 0}
      BY <1>1, <2>1 DEF ClearOther, TypeOK, UiTypeOK
    <3> QED  BY <1>1, <3>1, JobAtWork DEF None
  <2>2. CASE ~ClearOther
    BY <2>2 DEF Type, Save, KeyUp, OnSetFocus, LeaveEditors, ProjectLoad
  <2> QED  BY <2>1, <2>2
<1>8. TakenBefore'  BY <1>1, <1>2, <1>6, <1>7, TakenKept
<1>9. \A f \in Editors :
        /\ HasJob(f)' <=> HasJob(f)
        /\ HasReload(f)' <=> HasReload(f)
        /\ Working(f)' <=> Working(f)
        /\ ReloadAtWork(f)' <=> ReloadAtWork(f)
  BY <1>2, QueueKept, WorkKept
<1>10. lw' = lw /\ s_LastReparseFile' \in {s_LastReparseFile, NoEditor}  BY <1>2
<1> QED  BY <1>3, <1>4, <1>5, <1>8, <1>9, <1>10, KnownKept

LEMMA KnownReloadTimer ==
  ASSUME IInv, LocalsInv, NEW e \in Editors, ReloadTimer(e)
  PROVE  Known'
<1> USE DEF textVars, flagVars, timerVars, focusVars, lastVars, dbVars, uiVars, jobVars, loadVars
<1>1. TypeOK /\ LastIsKnown /\ FocusedIsKnown  BY DEF IInv, LocalsInv
<1>2. /\ UNCHANGED <<queue, job, jpc, stopped, m_pmparse, dropped, outrun, text, docTimer, focus>>
      /\ UNCHANGED mPendingMp /\ upc = "idle"
      /\ \A f \in Editors : f # e => reloadTimer'[f] = reloadTimer[f]
  BY <1>1 DEF ReloadTimer, TypeOK, UiTypeOK
<1>3. \A f \in Editors : Excused(f) => Excused(f)'  BY <1>1, <1>2, ExcusesKept
<1>4. TakenBefore'
  <2>1. \A f \in Editors : Delivered(f) => Delivered(f)'
    BY <1>2, <1>3, QueueKept DEF Delivered
  <2> QED  BY <1>1, <1>2, <2>1, TakenKept
<1>5. \A f \in Editors :
        /\ HasJob(f)' <=> HasJob(f)
        /\ HasReload(f)' <=> HasReload(f)
        /\ Working(f)' <=> Working(f)
        /\ ReloadAtWork(f)' <=> ReloadAtWork(f)
  BY <1>2, QueueKept, WorkKept
<1>6. CASE focus # e \/ (lw = e /\ s_LastReparseFile = e)
  <2>1. UNCHANGED <<lw, s_LastReparseFile, upc>>  BY <1>6 DEF ReloadTimer
  <2>2. LastIsKnown'  BY <1>1, <1>2, <1>3, <1>5, <2>1 DEF LastIsKnown
  <2>3. FocusedIsKnown'
    <3>1. focus = e => Excused(e) \/ HasJob(e) \/ Working(e)
      BY <1>1, <1>2, <1>6, JobsMean DEF LastIsKnown, ReloadAtWork
    <3> QED  BY <1>1, <1>2, <1>3, <1>5, <2>1, <3>1 DEF FocusedIsKnown
  <2> QED  BY <1>4, <2>2, <2>3 DEF Known
<1>7. CASE focus = e /\ ~(lw = e /\ s_LastReparseFile = e)
  <2>1. upc' # "idle" /\ lw' = e /\ s_LastReparseFile' = e  BY <1>7 DEF ReloadTimer
  <2> QED  BY <1>2, <1>4, <1>7, <2>1 DEF Known, LastIsKnown, FocusedIsKnown
<1> QED  BY <1>6, <1>7

\* What QueForReparse takes back, its request makes good.
LEMMA KnownRequest ==
  ASSUME IInv, LocalsInv, NEW e \in Editors, QueForReparse(e), UNCHANGED upc
  PROVE  Known'
<1> USE DEF textVars, flagVars, timerVars, focusVars, lastVars, dbVars, uiVars, jobVars, loadVars
<1>1. TypeOK  BY DEF IInv
<1>2. /\ UNCHANGED <<job, jpc, stopped, m_pmparse, outrun, text, focus, lw, mPendingMp>>
      /\ s_LastReparseFile' = NoEditor
      /\ \A f \in Editors : f # e => /\ reloadTimer'[f] = reloadTimer[f]
                                     /\ docTimer'[f] = docTimer[f] /\ dropped'[f] = dropped[f]
  BY <1>1 DEF QueForReparse, TypeOK, UiTypeOK, RestTypeOK
<1>3. \A j \in Jobs : InQueue(j)' <=> \/ j = Request(e)
                                      \/ InQueue(j) /\ ~(j.kind = "file" /\ j.ed = e)
  BY <1>1, MergeRequest DEF QueForReparse
<1>4. HasJob(e)'  BY <1>1, <1>3, RequestIsJob DEF HasJob
<1>5. \A f \in Editors : (HasJob(f) => HasJob(f)') /\ (HasReload(f) => HasReload(f)')
  BY <1>3, <1>4 DEF HasJob, HasReload
<1>6. \A f \in Editors : f # e /\ Excused(f) => Excused(f)'  BY <1>2 DEF Excused
<1>7. \A f \in Editors : Excused(f) => Excused(f)' \/ HasJob(f)'  BY <1>4, <1>6
<1>8. TakenBefore'
  <2>1. \A f \in Editors : Delivered(f) => Delivered(f)'  BY <1>5, <1>7 DEF Delivered
  <2> QED  BY <1>1, <1>2, <2>1, TakenKept
<1>9. \A f \in Editors : s_LastReparseFile' # f  BY <1>2, EditorAssumption
<1>10. \A f \in Editors : reloadTimer[f] => reloadTimer'[f] \/ HasJob(f)'  BY <1>2, <1>4
<1> QED  BY <1>2, <1>5, <1>7, <1>8, <1>9, <1>10, WorkKept, KnownKept

\* WM_VA_SET_DB brings the text of the editor, or an older one; then a newer one
\* is in the shared databases, to come, or was given up.
LEMMA DeliveryExcuses ==
  ASSUME IInv, LocalsInv, NEW e \in Editors, SetDb(e),
         UNCHANGED <<text, queue, docTimer, dropped, dictionary>>
  PROVE  /\ \A f \in Editors : Excused(f) /\ (f = e => mPendingMp[e] = None) => Excused(f)'
         /\ mPendingMp[e] # None /\ jpc = "send" => Delivered(e)'
<1>1. TypeOK /\ TypeOK /\ TextsBounded /\ EditsReachTheDictionary  BY DEF IInv, LocalsInv
<1>2. \A f \in Editors : f # e \/ mPendingMp[e] = None =>
        m_pmparse'[f] = m_pmparse[f] /\ outrun'[f] = outrun[f]
  BY <1>1 DEF SetDb, TypeOK, UiTypeOK, RestTypeOK
<1>3. ASSUME mPendingMp[e] # None, jpc = "send" PROVE Delivered(e)'
  <2>1. /\ m_pmparse'[e] = mPendingMp[e]
        /\ outrun'[e] = (0 < mPendingMp[e] /\ mPendingMp[e] < dictionary[e])
    BY <1>1, <1>3 DEF SetDb, TypeOK, UiTypeOK, RestTypeOK
  <2>2. mPendingMp[e] \in Version  BY <1>1, <1>3 DEF TypeOK, UiTypeOK
  <2>3. mPendingMp[e] \in Nat /\ mPendingMp[e] <= text[e] /\ text[e] \in Int
    BY <1>1, <2>2, Numbers, Bounds DEF TextsBounded, Version
  <2>4. CASE mPendingMp[e] \in {0, text[e]}  BY <2>1, <2>4 DEF Delivered, Excused
  <2>5. CASE mPendingMp[e] \notin {0, text[e]}
    <3>1. 0 < mPendingMp[e] /\ mPendingMp[e] < text[e] /\ text[e] > 1  BY <2>3, <2>5
    <3>2. dictionary[e] = text[e] \/ docTimer[e] \/ Requested(e) \/ "locals" \in dropped[e]
      BY <1>1, <3>1 DEF EditsReachTheDictionary, IInv, DroppedTogether
    <3>3. CASE dictionary[e] = text[e]  BY <2>1, <3>1, <3>3 DEF Delivered, Excused
    <3>4. CASE docTimer[e] \/ "locals" \in dropped[e]  BY <3>4 DEF Delivered, Excused
    <3>5. CASE Requested(e)
      <4>1. InQueue(Request(e))  BY <1>3, <3>5, RequestedMeans
      <4>2. HasJob(e)  BY <1>1, <4>1, RequestIsJob DEF HasJob
      <4> QED  BY <4>2, QueueKept DEF Delivered
    <3> QED  BY <3>2, <3>3, <3>4, <3>5
  <2> QED  BY <2>4, <2>5
<1> QED  BY <1>2, <1>3 DEF Excused

\* An editor that is emptied has not got the focus, and asked for no reload last.
LEMMA KnownSendOther ==
  ASSUME IInv, LocalsInv, SendOther
  PROVE  Known'
<1> USE DEF textVars, flagVars, timerVars, focusVars, lastVars, dbVars, uiVars, jobVars, loadVars
<1>1. /\ TypeOK /\ EmptiesOthers /\ LastIsFocused /\ TakenBefore /\ LastIsKnown
      /\ FocusedIsKnown
  BY DEF IInv, LocalsInv
<1>2. PICK o : o = Head(clearing)  OBVIOUS
<1>3. o \in Editors /\ o # lw /\ focus = lw
  <2>1. clearing \in Seq(Editors) /\ clearing # <<>> /\ upc = "send"
    BY <1>1 DEF SendOther, TypeOK, UiTypeOK
  <2>2. 1 \in DOMAIN clearing /\ o = clearing[1] /\ o \in Editors  BY <1>2, <2>1
  <2> QED  BY <1>1, <2>1, <2>2 DEF EmptiesOthers
<1>4. /\ SetDb(o) /\ upc' = "clear"
      /\ UNCHANGED <<text, queue, docTimer, reloadTimer, dropped, dictionary, job, jpc, stopped,
                     focus, lw, s_LastReparseFile>>
  BY <1>2 DEF SendOther
<1>5. /\ \A f \in Editors : Excused(f) /\ (f = o => mPendingMp[o] = None) => Excused(f)'
      /\ mPendingMp[o] # None /\ jpc = "send" => Delivered(o)'
  BY <1>3, <1>4, DeliveryExcuses
<1>6. \A f \in Editors :
        /\ HasJob(f)' <=> HasJob(f)
        /\ Working(f)' <=> Working(f)
  BY <1>4, QueueKept, WorkKept
<1>7. TakenBefore'
  <2> SUFFICES ASSUME jpc = "send", mPendingMp'[job.ed] = None PROVE Delivered(job.ed)'
    BY <1>4 DEF TakenBefore, Delivered, Excused, HasJob, InQueue
  <2>1. PICK f \in Editors : f = job.ed  BY <1>1, JobAtWork
  <2>2. CASE f = o /\ mPendingMp[o] # None  BY <1>4, <1>5, <2>1, <2>2 DEF Delivered, Excused, HasJob, InQueue
  <2>3. CASE f # o \/ mPendingMp[o] = None
    <3>1. mPendingMp[f] = None  BY <1>1, <1>4, <2>1, <2>3 DEF SetDb, TypeOK, UiTypeOK
    <3>2. Delivered(f)  BY <1>1, <2>1, <3>1 DEF TakenBefore
    <3>3. Delivered(f)'  BY <1>5, <1>6, <2>3, <3>2 DEF Delivered
    <3> QED  BY <1>4, <2>1, <3>3 DEF Delivered, Excused, HasJob, InQueue
  <2> QED  BY <2>2, <2>3
<1>8. LastIsKnown'  BY <1>4 DEF LastIsKnown
<1>9. FocusedIsKnown'  BY <1>3, <1>4 DEF FocusedIsKnown
<1> QED  BY <1>7, <1>8, <1>9 DEF Known

\* What the job sends is good, or a request waits; behind which, for the editor that
\* was reloaded last, a reload waits.
LEMMA KnownAnswer ==
  ASSUME IInv, LocalsInv, AnswerSetDb
  PROVE  Known'
<1> USE DEF textVars, timerVars, focusVars, lastVars, uiVars, loadVars, jobRest, JobStep, E
<1>1. /\ TypeOK /\ LastIsFocused /\ TakenBefore /\ LastIsKnown /\ FocusedIsKnown /\ ReloadIsLast
  BY DEF IInv, LocalsInv
<1>2. PICK e \in Editors : e = job.ed  BY <1>1, JobAtWork DEF AnswerSetDb
<1>3. /\ SetDb(e) /\ upc = "idle" /\ jpc = "send" /\ jpc' \in {"sent", "end"}
      /\ UNCHANGED <<text, queue, docTimer, reloadTimer, dropped, dictionary, job, stopped,
                     focus, lw, s_LastReparseFile, upc>>
  BY <1>2 DEF AnswerSetDb
<1>4. /\ \A f \in Editors : Excused(f) /\ (f = e => mPendingMp[e] = None) => Excused(f)'
      /\ mPendingMp[e] # None => Delivered(e)'
  BY <1>3, DeliveryExcuses
<1>5. \A f \in Editors : (HasJob(f)' <=> HasJob(f)) /\ (HasReload(f)' <=> HasReload(f))
  BY <1>3, QueueKept
<1>6. Delivered(e)'
  <2>1. mPendingMp[e] = None => Delivered(e)  BY <1>1, <1>2, <1>3 DEF TakenBefore
  <2> QED  BY <1>4, <1>5, <2>1 DEF Delivered
<1>7. \A f \in Editors : f # e => ~Working(f) /\ ~ReloadAtWork(f)
  BY <1>2 DEF Working, ReloadAtWork
<1>8. TakenBefore'  BY <1>3 DEF TakenBefore
<1>9. FocusedIsKnown'
  BY <1>1, <1>3, <1>4, <1>5, <1>6, <1>7 DEF FocusedIsKnown, Delivered
<1>10. s_LastReparseFile = e => Excused(e)' \/ HasReload(e)'
  <2> SUFFICES ASSUME s_LastReparseFile = e, HasJob(e) PROVE HasReload(e)
    BY <1>5, <1>6 DEF Delivered
  <2>1. lw = e /\ s_LastReparseFile # NoEditor  BY <1>1, EditorAssumption DEF LastIsFocused
  <2>2. queue \in Seq(Jobs)  BY <1>1 DEF TypeOK, JobTypeOK
  <2>3. PICK i \in DOMAIN queue : queue[i].ed = e  BY DEF HasJob, InQueue
  <2>4. PICK k \in DOMAIN queue : queue[k].kind = "reload" /\ queue[k].ed = e
    <3>1. queue[i] \in Jobs  BY <2>2
    <3>2. CASE queue[i].kind = "file"  BY <1>1, <1>3, <2>1, <3>2 DEF ReloadIsLast
    <3>3. CASE queue[i].kind = "reload"  BY <2>3, <3>3
    <3> QED  BY <3>1, <3>2, <3>3 DEF Jobs
  <2>5. queue[k] \in Jobs /\ InQueue(queue[k])  BY <2>2 DEF InQueue
  <2> QED  BY <2>4, <2>5 DEF HasReload
<1>11. LastIsKnown'  BY <1>1, <1>3, <1>4, <1>5, <1>7, <1>10 DEF LastIsKnown
<1> QED  BY <1>8, <1>9, <1>11 DEF Known

LEMMA KnownQueueReload ==
  ASSUME IInv, LocalsInv, QueueReload
  PROVE  Known'
<1> USE DEF textVars, timerVars, focusVars, lastVars, dbVars, loadVars
<1>1. TypeOK /\ EmptiesOthers /\ LastIsFocused  BY DEF IInv, LocalsInv
<1>2. /\ lw \in Editors /\ focus = lw /\ upc # "idle" /\ queue \in Seq(Jobs)
      /\ UNCHANGED <<text, docTimer, m_pmparse, mPendingMp, dropped, outrun, focus, lw,
                     s_LastReparseFile, job, jpc>>
  BY <1>1 DEF QueueReload, EmptiesOthers, TypeOK, UiTypeOK, JobTypeOK
<1>3. PICK reload \in Jobs :
        queue' = Append(queue, reload) /\ reload.kind = "reload" /\ reload.ed = lw
  <2> DEFINE new == [kind |-> "reload", ed |-> lw,
                     text |-> IF Modified(lw) THEN text[lw] ELSE 0]
  <2>1. 0 \in Version  BY Bounds DEF Version
  <2>2. new \in Jobs  BY <1>1, <1>2, <2>1 DEF Jobs, TypeOK, UiTypeOK
  <2>3. queue' = Append(queue, new)  BY DEF QueueReload
  <2> QED  BY <2>2, <2>3
<1>4. \A j \in Jobs : InQueue(j)' <=> InQueue(j) \/ j = reload  BY <1>2, <1>3, AppendQueue
<1>5. \A f \in Editors :
        /\ HasJob(f) => HasJob(f)'
        /\ f = lw => HasReload(f)' /\ HasJob(f)'
  BY <1>3, <1>4 DEF HasJob, HasReload
<1>6. \A f \in Editors : Excused(f) => Excused(f)'  BY <1>1, <1>2, ExcusesKept
<1>7. TakenBefore'
  <2>1. \A f \in Editors : Delivered(f) => Delivered(f)'  BY <1>5, <1>6 DEF Delivered
  <2> QED  BY <1>1, <1>2, <2>1, TakenKept
<1>8. LastIsKnown'  BY <1>1, <1>2, <1>5, EditorAssumption DEF LastIsKnown, LastIsFocused
<1>9. FocusedIsKnown'  BY <1>2, <1>5 DEF FocusedIsKnown
<1> QED  BY <1>7, <1>8, <1>9 DEF Known

\* The job at work: it stays the one that is counted upon until it has left its
\* symbols for the UI thread; it stops early only for StopIt, for a later reload,
\* or because its editor is no longer the current one.
LEMMA KnownJob ==
  ASSUME IInv, LocalsInv,
         \/ TakeJob \/ SkipJob \/ Abandon \/ ParseThrows \/ RemoveAllDefs \/ ParseGlobals
         \/ ReadText \/ ParseLocals \/ SkipLocals \/ FinishJob
  PROVE  Known'
<1> USE DEF textVars, flagVars, timerVars, focusVars, lastVars, dbVars, uiVars, jobVars, loadVars,
            jobRest, JobStep, EndJob, E
<1>1. TypeOK /\ TakenBefore /\ FocusIsCurrent /\ LastIsFocused /\ ReloadIsLast
  BY DEF IInv, LocalsInv
<1>2. /\ UNCHANGED <<text, docTimer, reloadTimer, m_pmparse, outrun, focus, lw,
                     s_LastReparseFile, upc>>
      /\ queue \in Seq(Jobs)
  BY <1>1
  DEF TypeOK, JobTypeOK, TakeJob, SkipJob, Abandon, ParseThrows, RemoveAllDefs, ParseGlobals, ReadText,
      ParseLocals, SkipLocals, FinishJob
<1>8. ASSUME ~UNCHANGED dropped
      PROVE  /\ Abandon \/ ParseThrows \/ SkipLocals
             /\ job \in Jobs /\ job.ed \in Editors
             /\ \E what \in SUBSET {"text", "locals", "flag"} : GiveUp(what)
  <2>1. Abandon \/ ParseThrows \/ SkipLocals
    BY <1>8 DEF TakeJob, SkipJob, RemoveAllDefs, ParseGlobals, ReadText, ParseLocals, FinishJob
  <2>2. job \in Jobs /\ job.ed \in Editors
    BY <1>1, <2>1, JobAtWork DEF Abandon, ParseThrows, SkipLocals
  <2>3. CASE Abandon  BY <2>1, <2>2, <2>3 DEF Abandon
  <2>4. CASE SkipLocals
    <3>1. GiveUp({"locals"})  BY <1>8, <2>4 DEF SkipLocals
    <3> QED  BY <2>1, <2>2, <3>1
  <2>5. CASE ParseThrows
    <3>1. CASE job.kind = "reload"  BY <2>1, <2>2, <2>5, <3>1 DEF ParseThrows
    <3>2. CASE job.kind = "file" /\ jpc = "locals"
      BY <2>1, <2>2, <2>5, <3>2 DEF ParseThrows
    <3>3. CASE job.kind # "reload" /\ ~(job.kind = "file" /\ jpc = "locals")
      BY <2>1, <2>2, <2>5, <3>3 DEF ParseThrows
    <3> QED  BY <3>1, <3>2, <3>3
  <2> QED  BY <2>1, <2>3, <2>4, <2>5
<1>3. \A f \in Editors : dropped[f] \subseteq dropped'[f]
  <2>1. CASE UNCHANGED dropped  BY <2>1
  <2>2. CASE ~UNCHANGED dropped
    <3>1. PICK what \in SUBSET {"text", "locals", "flag"} : GiveUp(what)  BY <1>8, <2>2
    <3> QED  BY <1>1, <1>8, <2>2, <3>1, GiveUpNotes
  <2> QED  BY <2>1, <2>2
<1>4. \A f \in Editors : Excused(f) => Excused(f)'  BY <1>2, <1>3 DEF Excused
<1>5. CASE TakeJob
  <2>6. job = NoJob /\ jpc' = "start" /\ stopped' = stopped
    BY <1>1, <1>5 DEF TakeJob, TypeOK, JobTypeOK
  <2>7. ~stopped'  BY <1>1, <2>6 DEF TypeOK, JobTypeOK, NoJob
  <2>1. /\ \A j \in Jobs : InQueue(j) <=> InQueue(j)' \/ j = job'
        /\ jpc' = "start" /\ ~stopped' /\ job = NoJob
    BY <1>2, <1>5, <2>6, <2>7, TakeHead DEF TakeJob
  <2>2. \A f \in Editors : /\ HasJob(f) => HasJob(f)' \/ Working(f)'
                           /\ HasReload(f) => HasReload(f)' \/ ReloadAtWork(f)'
    BY <2>1 DEF HasJob, HasReload, Working, ReloadAtWork
  <2>3. \A f \in Editors : ~Working(f) /\ ~ReloadAtWork(f)
    BY <2>1, EditorAssumption DEF Working, ReloadAtWork, NoJob
  <2>4. TakenBefore'  BY <2>1 DEF TakenBefore
  <2> QED  BY <1>2, <1>4, <2>2, <2>3, <2>4, KnownKept
<1>6. CASE SkipJob
  <2>1. \A j \in Jobs : InQueue(j)' <=> InQueue(j)  BY <1>2, <1>6, RotateQueue DEF SkipJob
  <2>2. \A f \in Editors : (HasJob(f)' <=> HasJob(f)) /\ (HasReload(f)' <=> HasReload(f))
    BY <2>1 DEF HasJob, HasReload
  <2>3. UNCHANGED <<job, jpc, stopped>>  BY <1>6 DEF SkipJob
  <2>4. \A f \in Editors :
          (Working(f)' <=> Working(f)) /\ (ReloadAtWork(f)' <=> ReloadAtWork(f))
    BY <2>3, WorkKept
  <2>5. TakenBefore'  BY <1>6, <2>3 DEF SkipJob, TakenBefore
  <2> QED  BY <1>2, <1>4, <2>2, <2>4, <2>5, KnownKept
<1>7. CASE ~TakeJob /\ ~SkipJob
  <2>1. UNCHANGED queue
    BY <1>7 DEF Abandon, ParseThrows, RemoveAllDefs, ParseGlobals, ReadText, ParseLocals,
                SkipLocals, FinishJob
  <2>2. \A f \in Editors : (HasJob(f)' <=> HasJob(f)) /\ (HasReload(f)' <=> HasReload(f))
    BY <2>1, QueueKept
  <2>3. job \in Jobs /\ job.ed \in Editors
    BY <1>1, <1>7, JobAtWork
    DEF Abandon, ParseThrows, RemoveAllDefs, ParseGlobals, ReadText, ParseLocals, SkipLocals,
        FinishJob
  <2>4. TakenBefore'
    <3>1. CASE ParseLocals
      <4>1. job.text # None /\ mPendingMp'[job.ed] = job.text /\ job' = job
        BY <1>1, <2>3, <3>1, Bounds DEF ParseLocals, Jobs, Version, None, TypeOK, UiTypeOK
      <4> QED  BY <4>1 DEF TakenBefore
    <3>2. CASE ~ParseLocals
      <4>1. jpc' # "send"
        BY <1>7, <3>2
        DEF Abandon, ParseThrows, RemoveAllDefs, ParseGlobals, ReadText, SkipLocals, FinishJob
      <4> QED  BY <4>1 DEF TakenBefore
    <3> QED  BY <3>1, <3>2
  <2>6. ASSUME NEW what, "locals" \in what, GivenUp(job.ed, what)
        PROVE  \A f \in Editors :
          /\ Working(f) => Excused(f)' \/ HasJob(f)'
          /\ s_LastReparseFile = f /\ upc = "idle" /\ Working(f) => Excused(f)' \/ HasReload(f)'
    <3>3. PICK e \in Editors : e = job.ed  BY <2>3
    <3>4. \A f \in Editors : Working(f) => f = e  BY <3>3 DEF Working
    <3>1. CASE what \subseteq dropped'[e]
      <4>1. Excused(e)'  BY <2>6, <3>1 DEF Excused
      <4> QED  BY <3>4, <4>1
    <3>2. CASE ~(what \subseteq dropped'[e])
      <4>1. PICK j \in Jobs : InQueue(j) /\ j.kind = "file" /\ j.ed = e
        BY <2>6, <3>2, <3>3 DEF GivenUp
      <4>2. HasJob(e)'
        <5>1. HasJob(e)  BY <4>1 DEF HasJob
        <5> QED  BY <2>2, <5>1
      <4>3. ASSUME s_LastReparseFile = e, upc = "idle" PROVE HasReload(e)'
        <5>1. lw = e /\ s_LastReparseFile # NoEditor
          BY <1>1, <4>3, EditorAssumption DEF LastIsFocused
        <5>2. PICK i \in DOMAIN queue : queue[i] = j  BY <4>1 DEF InQueue
        <5>3. PICK k \in DOMAIN queue : queue[k].kind = "reload" /\ queue[k].ed = e
          BY <1>1, <4>1, <4>3, <5>1, <5>2 DEF ReloadIsLast
        <5>4. queue[k] \in Jobs /\ InQueue(queue[k])  BY <1>2, <5>3 DEF InQueue
        <5>5. HasReload(e)  BY <5>3, <5>4 DEF HasReload
        <5> QED  BY <2>2, <5>5
      <4> QED  BY <3>4, <4>2, <4>3
    <3> QED  BY <3>1, <3>2
  <2>5. \A f \in Editors :
          /\ Working(f) => Working(f)' \/ Excused(f)' \/ focus' # f \/ HasJob(f)'
          /\ s_LastReparseFile = f /\ upc = "idle" /\ ReloadAtWork(f) =>
               ReloadAtWork(f)' \/ Excused(f)' \/ HasReload(f)'
    <3>1. CASE RemoveAllDefs \/ ParseGlobals \/ ReadText \/ ParseLocals
      <4>1. job'.ed = job.ed /\ job'.kind = job.kind /\ jpc' \notin {"sent", "end"}
        BY <2>3, <3>1 DEF RemoveAllDefs, ParseGlobals, ReadText, ParseLocals, Jobs
      <4>2. stopped' = stopped
        BY <3>1 DEF RemoveAllDefs, ParseGlobals, ReadText, ParseLocals
      <4> QED  BY <4>1, <4>2, <3>1
           DEF Working, ReloadAtWork
    <3>2. CASE Abandon \/ ParseThrows
      <4>1. PICK what \in SUBSET {"text", "locals", "flag"} :
              GiveUp(what) /\ "locals" \in what
        <5>1. CASE Abandon  BY <5>1 DEF Abandon
        <5>2. CASE ParseThrows
          <6>1. CASE job.kind = "reload"  BY <5>2, <6>1 DEF ParseThrows
          <6>2. CASE job.kind = "file" /\ jpc = "locals"  BY <5>2, <6>2 DEF ParseThrows
          <6>3. CASE job.kind # "reload" /\ ~(job.kind = "file" /\ jpc = "locals")
            BY <5>2, <6>3 DEF ParseThrows
          <6> QED  BY <6>1, <6>2, <6>3
        <5> QED  BY <3>2, <5>1, <5>2
      <4>2. GivenUp(job.ed, what)  BY <1>1, <2>3, <4>1, GiveUpNotes
      <4> QED  BY <2>6, <4>1, <4>2 DEF ReloadAtWork
    <3>3. CASE SkipLocals
      <4>1. CASE job.kind = "file" /\ StopIt
        <5>1. GiveUp({"locals"})  BY <3>3, <4>1 DEF SkipLocals
        <5>2. GivenUp(job.ed, {"locals"})  BY <1>1, <2>3, <5>1, GiveUpNotes
        <5> QED  BY <2>6, <5>2 DEF ReloadAtWork
      <4>2. CASE job.kind = "file" /\ ~StopIt
        <5>1. focus' # job.ed
          BY <1>1, <1>2, <2>3, <3>3, <4>2, EditorAssumption
          DEF SkipLocals, MayDeliver, FocusIsCurrent
        <5> QED  BY <4>2, <5>1 DEF Working, ReloadAtWork
      <4>3. CASE job.kind # "file"
        <5>1. job.kind = "reload" /\ stopped
          BY <2>3, <3>3, <4>3 DEF SkipLocals, MayDeliver, Jobs
        <5> QED  BY <5>1 DEF Working, ReloadAtWork
      <4> QED  BY <4>1, <4>2, <4>3
    <3>4. CASE FinishJob  BY <3>4 DEF FinishJob, Working, ReloadAtWork
    <3> QED  BY <1>7, <3>1, <3>2, <3>3, <3>4
  <2> QED  BY <1>2, <1>4, <2>2, <2>4, <2>5, KnownKept
<1> QED  BY <1>5, <1>6, <1>7

LEMMA LocalsInit == Init => LocalsInv
<1> SUFFICES ASSUME Init PROVE LocalsInv  OBVIOUS
<1>1. TextsBounded  BY EditorAssumption DEF Init, TextsBounded, InQueue, NoJob, None
<1>2. EmptiesOthers /\ FocusIsCurrent /\ ReloadIsLast /\ LastIsFocused
  BY DEF Init, EmptiesOthers, FocusIsCurrent, ReloadIsLast, LastIsFocused
<1>3. TakenBefore /\ LastIsKnown  BY EditorAssumption DEF Init, TakenBefore, LastIsKnown
<1>4. FocusedIsKnown  BY DEF Init, FocusedIsKnown
<1> QED  BY <1>1, <1>2, <1>3, <1>4 DEF LocalsInv

LEMMA LocalsStep ==
  ASSUME IInv, LocalsInv, [Next]_vars
  PROVE  LocalsInv'
<1>1. IInv' /\ TypeOK  BY IInvNext DEF IInv
<1>2. ReloadIsLast' /\ EmptiesOthers' /\ FocusIsCurrent' /\ LastIsFocused'
  BY OrderKept, FocusKept
<1>3. PICK first \in Editors : TRUE  BY EditorAssumption
<1>4. ASSUME NEW e \in Editors,
             Type(e) \/ Save(e) \/ KeyUp(e) \/ OnSetFocus(e) \/ ReloadTimer(e)
      PROVE  TextsBounded' /\ Known'
  BY <1>1, <1>4, TextsUi, KnownUser, KnownReloadTimer
<1>5. ASSUME NEW e \in Editors, DocModifiedTimer(e) \/ Scope(e) \/ ReparseAndWaitIfNeeded(e)
      PROVE  TextsBounded' /\ Known'
  BY <1>1, <1>5, TextsRequest, KnownRequest DEF DocModifiedTimer, Scope, ReparseAndWaitIfNeeded
<1>6. ASSUME LeaveEditors \/ ProjectLoad \/ ClearOther \/ SendOther PROVE TextsBounded' /\ Known'
  BY <1>1, <1>3, <1>6, TextsUi, KnownUser, KnownSendOther
<1>7. ASSUME QueueReload \/ Parser PROVE TextsBounded' /\ Known'
  BY <1>1, <1>7, TextsJob, KnownQueueReload, KnownAnswer, KnownJob DEF Parser
<1>8. ASSUME UNCHANGED vars PROVE TextsBounded' /\ Known'
  <2> USE <1>8 DEF vars, textVars, flagVars, timerVars, focusVars, dbVars, lastVars, loadVars,
          uiVars, jobVars
  <2>1. TextsBounded'  BY DEF LocalsInv, TextsBounded, InQueue
  <2>2. Known'
    BY DEF LocalsInv, Known, TakenBefore, LastIsKnown, FocusedIsKnown, Delivered, Excused,
           HasJob, HasReload, InQueue, Working, ReloadAtWork
  <2> QED  BY <2>1, <2>2
<1>9. TextsBounded' /\ Known'
  BY <1>4, <1>5, <1>6, <1>7, <1>8 DEF Next, User, Timers, Waits, UiThread
<1> QED  BY <1>2, <1>9 DEF LocalsInv, Known

\* The local symbols of the editor that has the focus never fall behind its text
\* unnoticed, although they are sent with the text of the time of the request, may
\* be cleared for another editor, replaced before they are taken, or skipped, and the
\* reload of an editor that was reloaded last is left out.
THEOREM LocalsAreKnown == Spec => []StaleLocalsAreKnown
<1>1. IInv /\ LocalsInv => StaleLocalsAreKnown
  <2> SUFFICES ASSUME IInv, LocalsInv, NEW e \in Editors, focus = e
               PROVE  \/ Excused(e) \/ reloadTimer[e] \/ Reloading(e)
                      \/ (lw = e /\ upc \in {"clear", "send"})
    BY DEF StaleLocalsAreKnown, Excused
  <2>1. HasJob(e) \/ Working(e) => Reloading(e)  BY DEF HasJob, InQueue, Working, Reloading
  <2>2. upc \in {"idle", "clear", "send"}  BY DEF IInv, TypeOK, UiTypeOK
  <2> QED  BY <2>1, <2>2 DEF LocalsInv, FocusedIsKnown
<1> QED  BY <1>1, LocalsInit, LocalsStep, IInvHolds, PTL DEF Spec

=============================================================================
