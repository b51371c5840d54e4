------------------------ MODULE FindReferencesProofs ------------------------
(***************************************************************************)
(* What a search of references shows is right and complete, and no load    *)
(* changes the project map under it, for any projects, files and layouts.  *)
(***************************************************************************)
EXTENDS FindReferences, FiniteSetTheorems, TLAPS

-----------------------------------------------------------------------------
(* The visits.                                                             *)

AnyProject == Projects \cup {NoProject}
VisitSet == [project : AnyProject, pair : BOOLEAN, clear : BOOLEAN]

\* Where there is no project there is the pair of files.
GoodVisits == {v \in VisitSet : v.project = NoProject => v.pair}

LEMMA VisitsAreGood ==
  ASSUME NEW s \in Seq(Projects), NEW clear \in BOOLEAN
  PROVE  Visits(s, clear) \in Seq(GoodVisits)
<1>1. \A p \in Projects : Visit(p, clear) \in GoodVisits
  BY LayoutAssumption DEF Visit, HasActiveFile, GoodVisits, VisitSet, AnyProject
<1>2. Len(s) \in Nat /\ \A i \in 1..Len(s) : s[i] \in Projects  OBVIOUS
<1>3. Visits(s, clear) \in [1..Len(s) -> GoodVisits]  BY <1>1, <1>2 DEF Visits
<1> QED  BY <1>2, <1>3

LEMMA OrdersAreSequences ==
  ASSUME NEW S \in SUBSET Projects, NEW s \in Orders(S)
  PROVE  s \in Seq(Projects)
<1>1. Cardinality(S) \in Nat
  BY LayoutAssumption, FS_Subset, FS_CardinalityType
<1>2. s \in [1..Cardinality(S) -> Projects]  BY DEF Orders
<1> QED  BY <1>1, <1>2

LEMMA JobsAreGood ==
  ASSUME layout \in Layouts, PlanVisits
  PROVE  jobs' \in Seq(GoodVisits)
<1>1. layout.shared \subseteq Projects
  BY LayoutAssumption
<1>2. ActiveProjects \subseteq Projects
  BY <1>1 DEF ActiveProjects, GetProjectForFile
<1> DEFINE first == SharedFirst(ActiveProjects)
           next == OwnNext(ActiveProjects)
           rest == ActiveProjects \ (first \cup next)
<1>3. first \subseteq Projects /\ next \subseteq Projects /\ rest \subseteq Projects
      /\ OtherProjects \subseteq Projects
  BY <1>2 DEF SharedFirst, OwnNext, OtherProjects
<1>4. PICK a \in Orders(first), b \in Orders(next), c \in Orders(rest),
           o \in Orders(OtherProjects) :
        jobs' = ActiveVisits(a \o b \o c) \o Visits(o, behavior = "sfPerProject")
  BY DEF PlanVisits, InOrder
<1> HIDE DEF first, next, rest
<1>5. /\ a \in Seq(Projects) /\ b \in Seq(Projects) /\ c \in Seq(Projects)
      /\ o \in Seq(Projects)
  BY <1>3, OrdersAreSequences
<1>6. NoProjectVisit \in GoodVisits
  BY DEF NoProjectVisit, GoodVisits, VisitSet, AnyProject
<1>7. a \o b \o c \in Seq(Projects)  BY <1>5
<1>8. ActiveVisits(a \o b \o c) \in Seq(GoodVisits)
  <2>1. <<NoProjectVisit>> \in Seq(GoodVisits)  BY <1>6
  <2>2. Visits(a \o b \o c, FALSE) \in Seq(GoodVisits)  BY <1>7, VisitsAreGood
  <2> QED  BY <2>1, <2>2 DEF ActiveVisits
<1>9. Visits(o, behavior = "sfPerProject") \in Seq(GoodVisits)
  <2>1. (behavior = "sfPerProject") \in BOOLEAN  OBVIOUS
  <2> QED  BY <1>5, <2>1, VisitsAreGood
<1> QED  BY <1>4, <1>8, <1>9

-----------------------------------------------------------------------------
(* The inductive invariant of the search.                                  *)

\* Where the search is between files, and where it names a project.
Working == {"pairProject", "pair", "all"}
VisitStates == {"lockPair", "pairProject", "pair", "project", "lockAll", "all", "flush"}

StateOK ==
  /\ layout \in Layouts
  /\ jobs \in Seq(GoodVisits)
  /\ spc \in VisitStates => jobs # <<>>
  /\ spc \in {"pairProject", "project"} => Job.project # NoProject
  /\ tasks \in [Files -> {"none", "todo", "found", "flush"}]
  /\ spc \notin Working => \A f \in Files : tasks[f] = "none"
  /\ spc = "pairProject" => \A f \in Files : tasks[f] \in {"none", "todo"}

\* The items that wait are for references, which were found in the project of the
\* moment, or left by a flush.
PendingOK ==
  /\ refVect \in Seq(Item) /\ pending \in Seq(1..Len(refVect))
  /\ taken \in 0..Len(pending) /\ left \subseteq 1..Len(refVect)
  /\ mCurrentProject \in AnyProject /\ mNotifiedProject = mCurrentProject
  /\ \A i \in DOMAIN pending :
       pending[i] \notin left => refVect[pending[i]].project = mCurrentProject

\* The observer remembers that project, under one of two names.
ObserverOK ==
  /\ observer \in [canceled : BOOLEAN, project : AnyProject, node : AnyProject]
  /\ mCurrentProject =
       IF observer.project # NoProject THEN observer.project ELSE observer.node

ShownOK ==
  /\ shown \subseteq [ref : 1..Len(refVect), node : AnyProject]
  /\ ShownUnderOwnProject

\* A reference that has not been shown waits, unless the search was stopped.
NothingLost ==
  ~observer.canceled =>
    \A r \in 1..Len(refVect) :
      (\E s \in shown : s.ref = r) \/ (\E i \in DOMAIN pending : pending[i] = r)

\* Between two projects, and after the last, nothing waits but what a flush left.
FlushedStates == {"start", "busy", "map", "next", "close", "post", "end", "done"}
NothingPending == scope # "file" /\ spc \in FlushedStates => Waiting \subseteq left

EndOK ==
  /\ complete => spc \in {"end", "done"}
  /\ thread = "deleted" => spc = "done"

SearchInv ==
  /\ StateOK /\ PendingOK /\ ObserverOK /\ ShownOK /\ NothingLost /\ NothingPending /\ EndOK

LEMMA EmptySequence ==
  ASSUME NEW S
  PROVE  <<>> \in Seq(S) /\ Len(<<>>) = 0
OBVIOUS

LEMMA SearchInvInit == Init => SearchInv
<1> SUFFICES ASSUME Init PROVE SearchInv  OBVIOUS
<1>1. StateOK  BY EmptySequence, SearchAssumption DEF Init, StateOK, VisitStates, Working
<1>2. /\ refVect = <<>> /\ pending = <<>> /\ shown = {} /\ thread = "owned" /\ ~complete
      /\ taken = 0 /\ left = {}
      /\ mCurrentProject = NoProject /\ mNotifiedProject = NoProject
      /\ observer = [canceled |-> FALSE, project |-> NoProject, node |-> NoProject]
  BY DEF Init
<1>3. /\ refVect \in Seq(Item) /\ pending \in Seq(1..Len(refVect)) /\ Len(refVect) = 0
      /\ Len(pending) = 0 /\ Waiting = {}
  BY <1>2, EmptySequence DEF Waiting
<1>4. PendingOK  BY <1>2, <1>3 DEF PendingOK, AnyProject
<1>5. ObserverOK  BY <1>2 DEF ObserverOK, AnyProject
<1>6. ShownOK  BY <1>2 DEF ShownOK, ShownUnderOwnProject
<1>7. NothingLost  BY <1>3 DEF NothingLost
<1>8. NothingPending /\ EndOK  BY <1>2, <1>3 DEF NothingPending, EndOK
<1> QED  BY <1>1, <1>4, <1>5, <1>6, <1>7, <1>8 DEF SearchInv

\* The steps that only move the search on.
LEMMA SearchInvMove ==
  ASSUME SearchInv,
         \/ Start \/ CheckBusy \/ ReadMap \/ NextProject \/ LockPair \/ LockAll \/ EndFiles
         \/ FlushProject \/ CloseMap \/ EndCancel \/ PostSearch \/ EndRun
  PROVE  SearchInv'
<1> USE DEF SearchInv, Goto, others, callVars, uiVars, loadVars, resultVars, flushRest,
            listVars, lockVars, projectVars
<1>1. UNCHANGED <<refVect, pending, taken, observer, shown, projectVars, thread, layout, scope>>
  BY DEF Start, CheckBusy, ReadMap, NextProject, LockPair, LockAll, EndFiles, FlushProject,
         CloseMap, EndCancel, PostSearch, EndRun
<1>7. left' = left \/ left' = left \cup Waiting
  BY DEF Start, CheckBusy, ReadMap, NextProject, LockPair, LockAll, EndFiles, FlushProject,
         CloseMap, EndCancel, PostSearch, EndRun, FlushAllPendingInMainThread
<1>8. left \subseteq left' /\ left' \subseteq 1..Len(refVect)
  <2>1. \A i \in DOMAIN pending : pending[i] \in 1..Len(refVect)  BY DEF PendingOK
  <2>2. left \subseteq 1..Len(refVect)  BY DEF PendingOK
  <2> QED  BY <1>7, <2>1, <2>2 DEF Waiting
<1>5. complete' => complete \/ (spc = "post" /\ spc' = "end")
  BY DEF Start, CheckBusy, ReadMap, NextProject, LockPair, LockAll, EndFiles, FlushProject,
         CloseMap, EndCancel, PostSearch, EndRun
<1>6. spc # "done" /\ (spc = "end" => spc' = "done")
  BY DEF Start, CheckBusy, ReadMap, NextProject, LockPair, LockAll, EndFiles, FlushProject,
         CloseMap, EndCancel, PostSearch, EndRun
<1>2. PendingOK' /\ ObserverOK' /\ ShownOK' /\ NothingLost' /\ EndOK'
  <2>1. PendingOK'  BY <1>1, <1>8 DEF PendingOK
  <2>2. ShownOK'  BY <1>1, <1>8 DEF ShownOK, ShownUnderOwnProject
  <2> QED  BY <1>1, <1>5, <1>6, <2>1, <2>2 DEF ObserverOK, NothingLost, EndOK
<1>3. NothingPending'
  <2>1. Waiting' = Waiting  BY <1>1 DEF Waiting
  <2>2. CASE Waiting \subseteq left  BY <1>8, <2>1, <2>2 DEF NothingPending
  <2>3. CASE ~(Waiting \subseteq left)
    <3>1. scope = "file" \/ spc \notin FlushedStates  BY <2>3 DEF NothingPending
    <3>2. \/ left' = left \cup Waiting
          \/ scope = "file" \/ spc' \notin FlushedStates
      BY <3>1
      DEF FlushedStates, Start, CheckBusy, ReadMap, NextProject, LockPair, LockAll, EndFiles,
          FlushProject, CloseMap, EndCancel, PostSearch, EndRun, FlushAllPendingInMainThread
    <3> QED  BY <1>1, <2>1, <3>2 DEF NothingPending
  <2> QED  BY <2>2, <2>3
<1>4. StateOK'
  <2> USE DEF StateOK, VisitStates, Working
  <2>1. CASE Start
    <3>1. NoProjectVisit \in GoodVisits /\ NoProjectVisit.project = NoProject
      BY DEF NoProjectVisit, GoodVisits, VisitSet, AnyProject
    <3> QED  BY <2>1, <3>1 DEF Start
  <2>2. CASE CheckBusy \/ CloseMap \/ EndCancel \/ PostSearch \/ EndRun
    BY <2>2 DEF CheckBusy, CloseMap, EndCancel, PostSearch, EndRun
  <2>3. CASE ReadMap
    <3>1. jobs' \in Seq(GoodVisits)  BY <2>3, JobsAreGood DEF ReadMap
    <3> QED  BY <2>3, <3>1 DEF ReadMap
  <2>4. CASE NextProject
    <3>1. jobs # <<>> => Job \in GoodVisits  BY DEF Job
    <3>2. jobs # <<>> /\ ~Job.pair => Job.project # NoProject  BY <3>1 DEF GoodVisits
    <3> QED  BY <2>4, <3>2 DEF NextProject, Job
  <2>5. CASE LockPair  BY <2>5 DEF LockPair, Job
  <2>6. CASE LockAll  BY <2>6 DEF LockAll, Job
  <2>7. CASE EndFiles
    <3>2. jobs # <<>>  BY <2>7 DEF EndFiles
    <3>1. Tail(jobs) \in Seq(GoodVisits)  BY <3>2
    <3> QED  BY <2>7, <3>1, <3>2 DEF EndFiles, Searched, Job
  <2>8. CASE FlushProject
    <3>1. jobs # <<>> /\ Tail(jobs) \in Seq(GoodVisits)  BY <2>8 DEF FlushProject
    <3> QED  BY <2>8, <3>1 DEF FlushProject
  <2> QED  BY <2>1, <2>2, <2>3, <2>4, <2>5, <2>6, <2>7, <2>8
<1> QED  BY <1>2, <1>3, <1>4

\* The project changes only while nothing waits but what the flush has left.
LEMMA SearchInvEnter ==
  ASSUME SearchInv, EnterProject
  PROVE  SearchInv'
<1> USE DEF SearchInv, EnterProject, Goto, others, callVars, uiVars, loadVars, lockVars,
            listVars
<1>1. /\ jobs # <<>> /\ Job \in GoodVisits /\ Job.project \in AnyProject
      /\ spc' \in {"pair", "lockAll"} /\ (spc = "pairProject" <=> spc' = "pair")
      /\ spc \in {"pairProject", "project"} /\ Job.project # NoProject
  BY DEF StateOK, VisitStates, Job, GoodVisits, VisitSet
<1>2. /\ left' = left \cup Waiting
      /\ mCurrentProject' = Job.project /\ mNotifiedProject' = Job.project
      /\ UNCHANGED <<jobs, tasks, layout, scope, refVect, pending, taken, shown, complete,
                     thread>>
      /\ observer' = IF Job.project = mNotifiedProject THEN observer
                     ELSE [observer EXCEPT !.project = Job.project]
  BY DEF UpdateCurrentProject, FlushAllPendingInMainThread
<1>3. StateOK'  BY <1>1, <1>2 DEF StateOK, VisitStates, Working
<1>10. /\ left \subseteq left' /\ left' \subseteq 1..Len(refVect)
       /\ \A i \in DOMAIN pending : pending[i] \in left'
  BY <1>2 DEF PendingOK, Waiting
<1>4. PendingOK'  BY <1>1, <1>2, <1>10 DEF PendingOK
<1>5. ObserverOK'  BY <1>1, <1>2 DEF ObserverOK, PendingOK
<1>6. ShownOK'  BY <1>2, <1>10 DEF ShownOK, ShownUnderOwnProject
<1>7. observer'.canceled = observer.canceled  BY <1>2 DEF ObserverOK
<1>8. NothingLost'  BY <1>2, <1>7 DEF NothingLost
<1>9. NothingPending' /\ EndOK'  BY <1>1, <1>2, <1>10 DEF NothingPending, EndOK, Waiting
<1> QED  BY <1>3, <1>4, <1>5, <1>6, <1>8, <1>9

\* A new reference is of the project of the moment, and waits.
LEMMA SearchInvFiles ==
  ASSUME SearchInv, NEW f \in Files, ClaimFile(f) \/ SearchedFile(f) \/ FlushFileRefs(f)
  PROVE  SearchInv'
<1> USE DEF SearchInv, others, callVars, uiVars, loadVars, lockVars, projectVars
<1>1. spc \in {"pair", "all"}
  BY DEF ClaimFile, SearchedFile, FlushFileRefs, MayStart, StateOK, Working
<1>2. /\ UNCHANGED <<spc, jobs, layout, scope, thread, complete, projectVars, observer, shown>>
      /\ tasks' \in [Files -> {"none", "todo", "found", "flush"}]
  BY DEF ClaimFile, SearchedFile, FlushFileRefs, resultVars, listVars, StateOK
<1>9. UNCHANGED <<taken, left>>
  BY DEF ClaimFile, SearchedFile, FlushFileRefs, resultVars, listVars
<1>3. StateOK'
  BY <1>1, <1>2 DEF StateOK, VisitStates, Working, Job
<1>4. EndOK' /\ ObserverOK'  BY <1>2 DEF EndOK, ObserverOK
<1>5. NothingPending'  BY <1>1, <1>2 DEF NothingPending, FlushedStates
<1>6. CASE UNCHANGED <<refVect, pending>>
  BY <1>2, <1>3, <1>4, <1>5, <1>6, <1>9
  DEF PendingOK, ShownOK, ShownUnderOwnProject, NothingLost
<1>7. CASE FlushFileRefs(f)
  <2> DEFINE item == [project |-> mCurrentProject, file |-> f]
  <2>1. /\ refVect \in Seq(Item) /\ pending \in Seq(1..Len(refVect)) /\ item \in Item
        /\ refVect' = Append(refVect, item) /\ pending' = Append(pending, Len(refVect) + 1)
    BY <1>7 DEF FlushFileRefs, NewRef, PendingOK, Item, AnyProject
  <2>2. item.project = mCurrentProject  OBVIOUS
  <2> HIDE DEF item
  <2>3. /\ refVect' \in Seq(Item) /\ Len(refVect') = Len(refVect) + 1 /\ Len(refVect) \in Nat
        /\ \A r \in 1..Len(refVect) : refVect'[r] = refVect[r]
        /\ refVect'[Len(refVect) + 1] = item
    BY <2>1
  <2>4. /\ Len(pending') = Len(pending) + 1 /\ Len(pending) \in Nat
        /\ \A i \in 1..Len(pending) : pending'[i] = pending[i] /\ pending[i] \in 1..Len(refVect)
        /\ pending'[Len(pending) + 1] = Len(refVect) + 1
        /\ DOMAIN pending = 1..Len(pending) /\ DOMAIN pending' = 1..(Len(pending) + 1)
    BY <2>1
  <2>5. pending' \in Seq(1..Len(refVect'))
    <3>1. \A i \in 1..Len(pending') : pending'[i] \in 1..Len(refVect')  BY <2>3, <2>4
    <3>2. pending' \in Seq(Nat)  BY <2>1
    <3> QED  BY <3>1, <3>2
  <2>6. \A i \in DOMAIN pending' :
          pending'[i] \notin left => refVect'[pending'[i]].project = mCurrentProject
    <3> SUFFICES ASSUME NEW i \in 1..(Len(pending) + 1), pending'[i] \notin left
                 PROVE  refVect'[pending'[i]].project = mCurrentProject
      BY <2>4
    <3>1. CASE i = Len(pending) + 1  BY <2>2, <2>3, <2>4, <3>1
    <3>2. CASE i # Len(pending) + 1
      <4>1. i \in 1..Len(pending)  BY <2>4, <3>2
      <4> QED  BY <2>3, <2>4, <4>1 DEF PendingOK
    <3> QED  BY <3>1, <3>2
  <2>10. taken' \in 0..Len(pending') /\ left' \subseteq 1..Len(refVect')
    BY <1>9, <2>3, <2>4 DEF PendingOK
  <2>7. PendingOK'  BY <1>2, <1>9, <2>3, <2>5, <2>6, <2>10 DEF PendingOK
  <2>8. ShownOK'
    <3>1. \A s \in shown : s.ref \in 1..Len(refVect)  BY DEF ShownOK
    <3>2. 1..Len(refVect) \subseteq 1..Len(refVect')  BY <2>3
    <3>3. shown' \subseteq [ref : 1..Len(refVect'), node : AnyProject]
      BY <1>2, <3>2 DEF ShownOK
    <3> QED  BY <1>2, <1>9, <2>3, <3>1, <3>3 DEF ShownOK, ShownUnderOwnProject
  <2>9. NothingLost'
    <3> SUFFICES ASSUME ~observer.canceled, NEW r \in 1..Len(refVect')
                 PROVE  \/ \E s \in shown : s.ref = r
                        \/ \E i \in DOMAIN pending' : pending'[i] = r
      BY <1>2 DEF NothingLost
    <3>1. CASE r = Len(refVect) + 1
      <4>1. Len(pending) + 1 \in DOMAIN pending'  BY <2>4
      <4> QED  BY <2>4, <3>1, <4>1
    <3>2. CASE r # Len(refVect) + 1
      <4>1. r \in 1..Len(refVect)  BY <2>3, <3>2
      <4>2. CASE \E s \in shown : s.ref = r  BY <4>2
      <4>3. CASE \E i \in DOMAIN pending : pending[i] = r
        <5>1. PICK i \in 1..Len(pending) : pending[i] = r  BY <2>4, <4>3
        <5>2. i \in DOMAIN pending' /\ pending'[i] = r  BY <2>4, <5>1
        <5> QED  BY <5>2
      <4> QED  BY <4>1, <4>2, <4>3 DEF NothingLost
    <3> QED  BY <3>1, <3>2
  <2> QED  BY <1>3, <1>4, <1>5, <2>7, <2>8, <2>9
<1> QED  BY <1>6, <1>7 DEF ClaimFile, SearchedFile, resultVars

\* An exception ends the visits; its Cancel on this thread keeps the items.
LEMMA SearchInvThrows ==
  ASSUME SearchInv, SearchThrows
  PROVE  SearchInv'
<1> USE DEF SearchInv, SearchThrows, callVars, loadVars, listVars, projectVars
<1>1. /\ UNCHANGED <<jobs, tasks, layout, scope, refVect, pending, taken, left, shown, complete,
                     thread, mCurrentProject, mNotifiedProject>>
      /\ spc \in {"next", "project"} /\ spc' = "cancel"
      /\ observer' = [observer EXCEPT !.canceled = TRUE]
  OBVIOUS
<1>2. StateOK'  BY <1>1 DEF StateOK, VisitStates, Working
<1>3. PendingOK' /\ ShownOK'  BY <1>1 DEF PendingOK, ShownOK, ShownUnderOwnProject
<1>4. ObserverOK' /\ NothingLost'  BY <1>1 DEF ObserverOK, NothingLost
<1>5. NothingPending' /\ EndOK'  BY <1>1 DEF NothingPending, FlushedStates, EndOK
<1> QED  BY <1>2, <1>3, <1>4, <1>5

\* An item is shown under the project of the moment, which is that of its reference.
LEMMA SearchInvItem ==
  ASSUME SearchInv, RunItem
  PROVE  SearchInv'
<1> USE DEF SearchInv, searchVars, others, callVars, uiVars, lockVars, projectVars
<1>1. /\ taken > 0 /\ taken' = taken - 1 /\ pending' = Tail(pending)
      /\ UNCHANGED <<spc, jobs, tasks, layout, scope, refVect, left, complete, thread,
                     mCurrentProject, mNotifiedProject>>
  BY DEF RunItem
<1>2. /\ refVect \in Seq(Item) /\ Len(refVect) \in Nat
      /\ pending \in Seq(1..Len(refVect)) /\ Len(pending) \in Nat /\ Len(pending) # 0
      /\ taken \in 1..Len(pending)
      /\ Len(pending') = Len(pending) - 1
      /\ DOMAIN pending = 1..Len(pending) /\ DOMAIN pending' = 1..(Len(pending) - 1)
      /\ \A i \in 1..(Len(pending) - 1) : pending'[i] = pending[i + 1]
  BY <1>1 DEF PendingOK
<1>3. StateOK'  BY <1>1 DEF StateOK, VisitStates, Working, Job
<1>9. Waiting' \subseteq Waiting
  <2> SUFFICES ASSUME NEW i \in 1..(Len(pending) - 1) PROVE pending'[i] \in Waiting
    BY <1>2 DEF Waiting
  <2>1. i + 1 \in DOMAIN pending /\ pending'[i] = pending[i + 1]  BY <1>2
  <2> QED  BY <2>1 DEF Waiting
<1>4. EndOK' /\ NothingPending'  BY <1>1, <1>9 DEF EndOK, NothingPending
<1>5. PendingOK'
  <2>1. pending' \in Seq(1..Len(refVect')) /\ taken' \in 0..Len(pending')  BY <1>1, <1>2
  <2>2. \A i \in DOMAIN pending' :
          pending'[i] \notin left => refVect[pending'[i]].project = mCurrentProject
    <3> SUFFICES ASSUME NEW i \in 1..(Len(pending) - 1), pending'[i] \notin left
                 PROVE  refVect[pending'[i]].project = mCurrentProject
      BY <1>2
    <3>1. i + 1 \in 1..Len(pending) /\ pending'[i] = pending[i + 1]  BY <1>2
    <3> QED  BY <1>2, <3>1 DEF PendingOK
  <2> QED  BY <1>1, <2>1, <2>2 DEF PendingOK
<1>6. /\ Head(pending) = pending[1] /\ 1 \in DOMAIN pending
      /\ Head(pending) \in 1..Len(refVect)
  BY <1>1, <1>2
<1>7. CASE observer.canceled
  <2>1. UNCHANGED <<observer, shown>>  BY <1>7 DEF RunItem
  <2>2. ObserverOK' /\ ShownOK' /\ NothingLost'
    BY <1>1, <1>7, <2>1 DEF ObserverOK, ShownOK, ShownUnderOwnProject, NothingLost
  <2> QED  BY <1>3, <1>4, <1>5, <2>2
<1>8. CASE ~observer.canceled
  <2> DEFINE node == IF observer.project # NoProject THEN observer.project ELSE observer.node
             line == [ref |-> Head(pending), node |-> node]
  <2>1. /\ observer' = [observer EXCEPT !.project = NoProject, !.node = node]
        /\ shown' = shown \cup {line}
    BY <1>8 DEF RunItem
  <2>2. node = mCurrentProject /\ node \in AnyProject  BY DEF ObserverOK, PendingOK
  <2>3. line.ref = Head(pending) /\ line.node = node /\ line = [ref |-> Head(pending), node |-> node]
    OBVIOUS
  <2> HIDE DEF node, line
  <2>4. /\ observer'.project = NoProject /\ observer'.node = node
        /\ observer'.canceled = observer.canceled
        /\ observer' \in [canceled : BOOLEAN, project : AnyProject, node : AnyProject]
    BY <2>1, <2>2 DEF ObserverOK, AnyProject
  <2>5. ObserverOK'  BY <1>1, <2>2, <2>4 DEF ObserverOK
  <2>6. ShownOK'
    <3>1. line \in [ref : 1..Len(refVect), node : AnyProject]  BY <1>6, <2>2, <2>3
    <3>2. line.ref \in left \/ refVect[line.ref].project = line.node  BY <1>6, <2>2, <2>3 DEF PendingOK
    <3> QED  BY <1>1, <2>1, <3>1, <3>2 DEF ShownOK, ShownUnderOwnProject
  <2>7. NothingLost'
    <3> SUFFICES ASSUME NEW r \in 1..Len(refVect)
                 PROVE  \/ \E s \in shown' : s.ref = r
                        \/ \E i \in DOMAIN pending' : pending'[i] = r
      BY <1>1 DEF NothingLost
    <3>1. CASE \E s \in shown : s.ref = r  BY <2>1, <3>1
    <3>2. CASE \E i \in DOMAIN pending : pending[i] = r
      <4>1. PICK i \in 1..Len(pending) : pending[i] = r  BY <1>2, <3>2
      <4>2. CASE i = 1
        <5>1. line.ref = r  BY <1>6, <2>3, <4>1, <4>2
        <5> QED  BY <2>1, <5>1
      <4>3. CASE i # 1
        <5>1. i - 1 \in 1..(Len(pending) - 1) /\ (i - 1) + 1 = i  BY <1>2, <4>3
        <5>2. i - 1 \in DOMAIN pending' /\ pending'[i - 1] = r  BY <1>2, <4>1, <5>1
        <5> QED  BY <5>2
      <4> QED  BY <4>2, <4>3
    <3> QED  BY <1>8, <3>1, <3>2 DEF NothingLost
  <2> QED  BY <1>3, <1>4, <1>5, <2>5, <2>6, <2>7
<1> QED  BY <1>7, <1>8

\* Cancel on the UI thread leaves nothing to show, but what its flush leaves.
LEMMA SearchInvCancel ==
  ASSUME SearchInv, OnCancel \/ ClearThread
  PROVE  SearchInv'
<1> USE DEF SearchInv, searchVars, callVars, projectVars
<1>1. /\ UNCHANGED <<spc, jobs, tasks, layout, scope, refVect, shown, complete,
                     mCurrentProject, mNotifiedProject>>
      /\ observer' = [observer EXCEPT !.canceled = TRUE]
      /\ left' = left \cup {pending'[i] : i \in DOMAIN pending'}
      /\ thread' = "deleted" => spc = "done" \/ thread = "deleted"
  BY DEF OnCancel, ClearThread, Cancel, Running
<1>2. StateOK'  BY <1>1 DEF StateOK, VisitStates, Working, Job
<1>7. pending' \in Seq(1..Len(refVect)) /\ taken' \in 0..Len(pending')
  <2>1. CASE pending' = <<>> /\ taken' = 0  BY <2>1, EmptySequence
  <2>2. ASSUME NEW n \in 0..taken, taken' = taken - n,
               pending' = SubSeq(pending, n + 1, Len(pending))
        PROVE  pending' \in Seq(1..Len(refVect)) /\ taken' \in 0..Len(pending')
    <3>1. /\ pending \in Seq(1..Len(refVect)) /\ Len(pending) \in Nat
          /\ taken \in 0..Len(pending) /\ n \in 0..Len(pending)
      BY DEF PendingOK
    <3>2. Len(pending') = Len(pending) - n /\ pending' \in Seq(1..Len(refVect))
      BY <2>2, <3>1
    <3> QED  BY <2>2, <3>1, <3>2
  <2> QED  BY <2>1, <2>2 DEF OnCancel, ClearThread, Cancel
<1>8. /\ left \subseteq left' /\ left' \subseteq 1..Len(refVect)
      /\ \A i \in DOMAIN pending' : pending'[i] \in left'
  BY <1>1, <1>7 DEF PendingOK
<1>3. PendingOK'  BY <1>1, <1>7, <1>8 DEF PendingOK
<1>4. ObserverOK' /\ NothingLost'  BY <1>1 DEF ObserverOK, NothingLost
<1>5. ShownOK'  BY <1>1, <1>8 DEF ShownOK, ShownUnderOwnProject
<1>6. NothingPending' /\ EndOK'  BY <1>1, <1>8 DEF NothingPending, EndOK, Waiting
<1> QED  BY <1>2, <1>3, <1>4, <1>5, <1>6

LoadStep ==
  SolutionLoadStarting \/ SolutionReload \/ LaunchProjectLoaderThread \/ ClearMap
    \/ LoadProject \/ CloseProject \/ GiveUp \/ FillMap \/ EndLoad

\* The thread is deleted only when it has run; loads and lists of items do not touch
\* the search.
LEMMA SearchInvAround ==
  ASSUME SearchInv,
         TakeList \/ EndList \/ EndWait \/ DeleteSpentFindReferencesThreads \/ LoadStep \/ UNCHANGED vars
  PROVE  SearchInv'
<1> USE DEF SearchInv, searchVars, resultVars, listVars, callVars, projectVars
<1>1. /\ UNCHANGED <<spc, jobs, tasks, layout, scope, refVect, pending, left, observer, shown,
                     complete, mCurrentProject, mNotifiedProject>>
      /\ taken' \in {taken, Len(pending)}
      /\ thread' = "deleted" => spc = "done" \/ thread = "deleted"
  BY DEF EndWait, Delete, Running, DeleteSpentFindReferencesThreads, LoadStep, vars, uiVars,
         SolutionLoadStarting, SolutionReload, LaunchProjectLoaderThread, ClearMap,
         LoadProject, CloseProject, GiveUp, FillMap, EndLoad, loadRest, TakeList, EndList,
         others
<1>7. taken' \in 0..Len(pending)
  <2>1. Len(pending) \in Nat /\ taken \in 0..Len(pending)  BY DEF PendingOK
  <2> QED  BY <1>1, <2>1
<1>2. StateOK'  BY <1>1 DEF StateOK, VisitStates, Working, Job
<1>3. PendingOK' /\ ObserverOK' /\ NothingLost'
  BY <1>1, <1>7 DEF PendingOK, ObserverOK, NothingLost
<1>4. ShownOK'  BY <1>1 DEF ShownOK, ShownUnderOwnProject
<1>5. NothingPending' /\ EndOK'  BY <1>1 DEF NothingPending, EndOK, Waiting
<1> QED  BY <1>2, <1>3, <1>4, <1>5

THEOREM SearchInvariant == Spec => []SearchInv
<1>1. SearchInv /\ [Next]_vars => SearchInv'
  <2> SUFFICES ASSUME SearchInv, [Next]_vars PROVE SearchInv'  OBVIOUS
  <2>1. CASE Search
    BY <2>1, SearchInvMove, SearchInvEnter DEF Search
  <2>2. CASE SearchFiles  BY <2>2, SearchInvFiles DEF SearchFiles
  <2>3. CASE RunItem  BY <2>3, SearchInvItem
  <2>4. CASE OnCancel \/ ClearThread  BY <2>4, SearchInvCancel
  <2>5. CASE SearchThrows  BY <2>5, SearchInvThrows
  <2>6. CASE \/ TakeList \/ EndList \/ EndWait \/ DeleteSpentFindReferencesThreads
             \/ LoadStep \/ UNCHANGED vars
    BY <2>6, SearchInvAround
  <2> QED
    BY <2>1, <2>2, <2>3, <2>4, <2>5, <2>6 DEF Next, UiThread, User, Loader, LoadStep
<1> QED  BY <1>1, SearchInvInit, PTL DEF Spec

\* The tree shows every reference under the project it was found in, but for those
\* that a flush left (OnFoundInProject, UpdateObserver and the flushes between
\* projects).
THEOREM ReferencesUnderTheirProject == Spec => []ShownUnderOwnProject
<1>1. SearchInv => ShownUnderOwnProject  BY DEF SearchInv, ShownOK
<1> QED  BY <1>1, SearchInvariant, PTL

\* The last flush comes before WM_FIND_COMPLETE: when it has been handled, every
\* reference of a search that nobody stopped has been shown, or left by a flush.
THEOREM CompleteMeansAllShown == Spec => []AllShownWhenComplete
<1>1. SearchInv => AllShownWhenComplete
  <2> SUFFICES ASSUME SearchInv, complete, scope # "file", ~observer.canceled
               PROVE  \A i \in 1..Len(refVect) : i \in left \/ \E s \in shown : s.ref = i
    BY DEF AllShownWhenComplete
  <2>1. Waiting \subseteq left
    BY DEF SearchInv, EndOK, NothingPending, FlushedStates
  <2> QED  BY <2>1 DEF SearchInv, NothingLost, Waiting
<1> QED  BY <1>1, SearchInvariant, PTL

\* The observer is deleted with its thread, when no item waits that would use it but
\* what a flush left (ClearThread, DeleteSpentFindReferencesThreads).
THEOREM DeletedObserverHasNoItem == Spec => []NoItemForDeletedObserver
<1>1. SearchInv => NoItemForDeletedObserver
  BY DEF SearchInv, EndOK, NothingPending, FlushedStates, NoItemForDeletedObserver
<1> QED  BY <1>1, SearchInvariant, PTL

-----------------------------------------------------------------------------
(* Loads.  While none is hidden, mIsLoading covers every load, from before *)
(* it asks whether a search is active, and the search is active before it  *)
(* asks whether a load is.                                                 *)

Loading == upc = "launch" \/ queued > 0 \/ lpc # "none"

LoadInv ==
  /\ queued \in Nat
  /\ ~hidden /\ (Loading \/ wanted) => mIsLoading
  /\ ~hidden /\ Loading => ~mapRead /\ spc # "map"
  /\ sIsActive <=> spc \notin {"start", "done"}
  /\ mapRead => spc \notin {"start", "busy", "map", "cancel", "post", "end", "done"}
  /\ mapRead \/ spc \in {"busy", "map"} => scope # "file"

LEMMA LoadInvSearch ==
  ASSUME LoadInv, Search \/ SearchFiles \/ User \/ TakeList \/ EndList \/ RunItem \/ EndWait
  PROVE  LoadInv' /\ (mapRead => mMap' = mMap)
<1> USE DEF LoadInv, Loading, others, callVars, uiVars, loadVars, lockVars, searchVars, Goto
<1>1. CASE Search
  <2>1. UNCHANGED <<scope, upc, mIsLoading, wanted, hidden, queued, lpc, mMap>>
    BY <1>1
    DEF Search, Start, CheckBusy, ReadMap, NextProject, LockPair, EnterProject, LockAll,
        EndFiles, FlushProject, CloseMap, EndCancel, PostSearch, EndRun
  <2>2. CASE Start \/ CheckBusy \/ ReadMap
    BY <2>1, <2>2 DEF Start, CheckBusy, IsBusy, ReadMap
  <2>3. CASE NextProject \/ LockPair \/ EnterProject \/ LockAll \/ EndFiles \/ FlushProject
    <3>1. UNCHANGED <<mapRead, sIsActive>>
          /\ spc \notin {"start", "done"}
          /\ spc' \notin {"start", "map", "done"}
          /\ spc' \notin {"cancel", "end"}
          /\ spc' # "busy"
          /\ (spc' = "post" => scope = "file")
      BY <2>3 DEF NextProject, LockPair, EnterProject, LockAll, EndFiles, FlushProject
    <3> QED  BY <2>1, <3>1
  <2>4. CASE CloseMap \/ EndCancel \/ PostSearch \/ EndRun
    BY <2>1, <2>4 DEF CloseMap, EndCancel, PostSearch, EndRun
  <2> QED  BY <1>1, <2>1, <2>2, <2>3, <2>4 DEF Search
<1>2. CASE SearchFiles \/ TakeList \/ EndList \/ RunItem \/ EndWait
  <2>1. UNCHANGED <<scope, spc, mapRead, sIsActive, mIsLoading, wanted, hidden, queued, lpc,
                    mMap>>
        /\ (upc' = upc \/ upc' = "idle")
    BY <1>2
    DEF SearchFiles, ClaimFile, SearchedFile, FlushFileRefs, TakeList, EndList, RunItem,
        EndWait
  <2> QED  BY <2>1
<1>3. CASE User
  <2>1. UNCHANGED <<scope, sIsActive, mIsLoading, wanted, hidden, queued, lpc, mMap>>
    BY <1>3
    DEF User, OnCancel, ClearThread, Cancel, DeleteSpentFindReferencesThreads, SearchThrows
  <2>2. CASE SearchThrows
    <3>1. upc' = upc /\ spc \in {"next", "project"} /\ spc' = "cancel" /\ ~mapRead'
      BY <2>2 DEF SearchThrows
    <3> QED  BY <2>1, <3>1
  <2>3. CASE OnCancel \/ ClearThread \/ DeleteSpentFindReferencesThreads
    <3>1. UNCHANGED <<spc, mapRead>> /\ (upc' = upc \/ upc' = "wait")
      BY <2>3 DEF OnCancel, ClearThread, Cancel, DeleteSpentFindReferencesThreads
    <3> QED  BY <2>1, <3>1
  <2> QED  BY <1>3, <2>2, <2>3 DEF User
<1> QED  BY <1>1, <1>2, <1>3

LEMMA LoadInvLoad ==
  ASSUME LoadInv, LoadStep
  PROVE  LoadInv' /\ (mapRead /\ ~hidden => mMap' = mMap)
<1> USE DEF LoadInv, Loading
<1>1. UNCHANGED <<scope, spc, sIsActive, mapRead>>
  BY DEF LoadStep, SolutionLoadStarting, SolutionReload, LaunchProjectLoaderThread, ClearMap,
         LoadProject, CloseProject, GiveUp, FillMap, EndLoad, loadRest, searchVars, callVars
<1>2. CASE SolutionLoadStarting  BY <1>1, <1>2 DEF SolutionLoadStarting
<1>7. CASE SolutionReload  BY <1>1, <1>7 DEF SolutionReload
<1>3. CASE LaunchProjectLoaderThread  BY <1>1, <1>3 DEF LaunchProjectLoaderThread, RejectLaunch
<1>4. CASE ClearMap  BY <1>1, <1>4 DEF ClearMap
<1>5. CASE LoadProject \/ CloseProject \/ GiveUp \/ FillMap
  <2>1. /\ Loading /\ UNCHANGED <<hidden, wanted, upc>> /\ (mIsLoading => mIsLoading')
    BY <1>5 DEF LoadProject, CloseProject, GiveUp, FillMap
  <2>3. queued' = queued \/ (queued > 0 /\ queued' = queued - 1)
    BY <1>5 DEF LoadProject, CloseProject, GiveUp, FillMap
  <2>4. queued \in Nat  OBVIOUS
  <2>2. queued' \in Nat
    BY <2>3, <2>4
  <2> QED  BY <1>1, <2>1, <2>2
<1>6. CASE EndLoad  BY <1>1, <1>6 DEF EndLoad
<1> QED  BY <1>2, <1>3, <1>4, <1>5, <1>6, <1>7 DEF LoadStep

\* No load changes the project map while a search walks it, whatever loads are
\* announced, launched and stopped meanwhile, as long as mIsLoading shows each: the
\* search and the load do without a lock that both take.
THEOREM MapIsStable == Spec => MapStaysWhileSearched
<1>1. Init => LoadInv
  <2> SUFFICES ASSUME Init PROVE LoadInv  OBVIOUS
  <2>1. /\ queued = 0 /\ lpc = "none" /\ upc = "idle" /\ wanted = FALSE /\ spc = "start"
        /\ mapRead = FALSE /\ sIsActive = FALSE
    BY DEF Init
  <2> QED  BY <2>1 DEF LoadInv, Loading
<1>2. LoadInv /\ [Next]_vars => LoadInv' /\ (mapRead /\ ~hidden => mMap' = mMap)
  <2> SUFFICES ASSUME LoadInv, [Next]_vars
               PROVE  LoadInv' /\ (mapRead /\ ~hidden => mMap' = mMap)
    OBVIOUS
  <2>1. CASE Search \/ SearchFiles \/ User \/ TakeList \/ EndList \/ RunItem \/ EndWait
    BY <2>1, LoadInvSearch
  <2>2. CASE LoadStep  BY <2>2, LoadInvLoad
  <2>3. CASE UNCHANGED vars
    BY <2>3
    DEF vars, LoadInv, Loading, callVars, uiVars, loadVars, lockVars, searchVars
  <2> QED  BY <2>1, <2>2, <2>3 DEF Next, UiThread, Loader, LoadStep
<1> QED  BY <1>1, <1>2, PTL DEF Spec, MapStaysWhileSearched
=============================================================================
