------------------------- MODULE PooledThreadProofs -------------------------
(***************************************************************************)
(* The lives of pooled threads, for any number of objects and clients of   *)
(* each kind: who outlives whom, what the reference counts count, and that *)
(* gActivePooledThreadCount is exact.                                      *)
(***************************************************************************)
EXTENDS PooledThread, FiniteSetTheorems, TLAPS

Types ==
  /\ alive \in [Objs -> BOOLEAN]
  /\ mThreadState \in [Objs -> {"Constructed", "Running", "Finished"}]
  /\ mDoneEvent \in [Objs -> BOOLEAN]
  /\ mRefCnt \in [Objs -> Int]
  /\ work \in [Objs -> [Runs -> WorkStates]]
  /\ started \in [Objs -> 0..MaxRuns]
  /\ client \in [Objs -> ClientStates]
  /\ gActivePooledThreadCount \in Int

\* A run is there when it has been started; while it is being started the client
\* is busy with that.
RunsOK(o) ==
  /\ \A r \in Runs : r > started[o] => work[o][r] = "none"
  /\ client[o] \in {"reset", "queue"} =>
       started[o] \in Runs /\ work[o][started[o]] = "none"

\* All but the loaders are started once.
OnceOK(o) ==
  KindOf[o] # "loader" =>
    /\ client[o] # "reset" /\ started[o] \in {0, 1}
    /\ client[o] = "new" <=> started[o] = 0
    /\ HasStarted(o) => work[o][1] \notin {"none", "queued"}

Holders(o) ==
  (IF Uses(o, 1) THEN 1 ELSE 0)
    + (IF KindOf[o] = "shared" /\ client[o] # "gone" THEN 1 ELSE 0)

\* The counted objects; a run that ends at its first catch keeps its reference.
CountOK(o) ==
  IF mAutoDelete(o)
    THEN /\ mRefCnt[o] >= Holders(o) /\ (o \notin ProcFails => mRefCnt[o] = Holders(o))
         /\ mRefCnt[o] > 0 => alive[o]
         /\ client[o] \in {"new", "queue"} => alive[o]
         /\ KindOf[o] = "shared" /\ alive[o] => mRefCnt[o] > 0
    ELSE mRefCnt[o] = 0

\* The event says that the run is over, or that there will be none.
Signalled == {"signalled", "leaving", "exited"}
WaitOK(o) ==
  KindOf[o] = "stack" =>
    /\ client[o] \in {"wait", "timedOut"} => HasStarted(o)
    /\ client[o] \in {"waited", "gone"} => work[o][1] \in Signalled
    /\ mDoneEvent[o] =>
         \/ work[o][1] \in Signalled
         \/ work[o][1] = "none" /\ client[o] \in {"notStarted", "awaitStart"}
    /\ ~alive[o] => client[o] = "gone"

ObjOK(o) == RunsOK(o) /\ OnceOK(o) /\ CountOK(o) /\ WaitOK(o)

PoolInv == Types /\ (\A o \in Objs : ObjOK(o)) /\ ActiveCountIsExact

LEMMA RunOne == 1 \in Runs /\ MaxRuns \in Nat \ {0}
BY KindAssumption DEF Runs

LEMMA FiniteSets ==
  /\ IsFiniteSet(PendingRuns) /\ IsFiniteSet(Starting)
  /\ Cardinality(PendingRuns) \in Nat /\ Cardinality(Starting) \in Nat
<1>1. IsFiniteSet(Runs)  BY RunOne, FS_Interval DEF Runs
<1>2. IsFiniteSet(Objs \X Runs)  BY <1>1, KindAssumption, FS_Product
<1>3. PendingRuns \subseteq Objs \X Runs /\ Starting \subseteq Objs
  BY DEF PendingRuns, Starting
<1>4. IsFiniteSet(PendingRuns) /\ IsFiniteSet(Starting)
  BY <1>2, <1>3, KindAssumption, FS_Subset
<1> QED  BY <1>4, FS_CardinalityType

LEMMA PoolInvInit == Init => PoolInv
<1> SUFFICES ASSUME Init PROVE PoolInv  OBVIOUS
<1>1. Types
  BY KindAssumption, RunOne DEF Init, Types, WorkStates, ClientStates
<1>2. ASSUME NEW o \in Objs PROVE ObjOK(o)
  BY KindAssumption, RunOne
  DEF Init, ObjOK, RunsOK, OnceOK, CountOK, WaitOK, Holders, Uses, HasStarted, mAutoDelete
<1>3. PendingRuns = {} /\ Starting = {}
  BY DEF Init, PendingRuns, Starting
<1>4. ActiveCountIsExact
  BY <1>3, FS_EmptySet DEF Init, ActiveCountIsExact
<1> QED  BY <1>1, <1>2, <1>4 DEF PoolInv

-----------------------------------------------------------------------------
(* A step concerns one object, and at most one of its runs.                *)

Same(u) ==
  /\ alive'[u] = alive[u] /\ mThreadState'[u] = mThreadState[u]
  /\ mDoneEvent'[u] = mDoneEvent[u] /\ mRefCnt'[u] = mRefCnt[u]
  /\ work'[u] = work[u] /\ started'[u] = started[u] /\ client'[u] = client[u]

LEMMA SameKeeps ==
  ASSUME NEW u \in Objs, ObjOK(u), Same(u)
  PROVE  ObjOK(u)'
BY DEF Same, ObjOK, RunsOK, OnceOK, CountOK, WaitOK, Holders, Uses, HasStarted, mAutoDelete

\* The sets that are counted change by the object or the run of the step.
LEMMA SetsUnchanged ==
  ASSUME Types, Types', NEW o \in Objs, \A u \in Objs \ {o} : Same(u),
         work'[o] = work[o], client[o] \in {"reset", "queue"} <=> client'[o] \in {"reset", "queue"},
         gActivePooledThreadCount' = gActivePooledThreadCount, ActiveCountIsExact
  PROVE  ActiveCountIsExact'
<1>1. PendingRuns' = PendingRuns
  <2>1. \A u \in Objs : work'[u] = work[u]  BY DEF Same
  <2> QED  BY <2>1 DEF PendingRuns
<1>2. Starting' = Starting  BY DEF Starting, Same
<1> QED  BY <1>1, <1>2 DEF ActiveCountIsExact

\* A run goes on, and is still counted.
LEMMA RunGoesOn ==
  ASSUME Types, NEW o \in Objs, NEW r \in Runs, NEW to \in WorkStates \ {"none", "exited"},
         work[o][r] \notin {"none", "exited"},
         work' = [work EXCEPT ![o][r] = to], client' = client,
         gActivePooledThreadCount' = gActivePooledThreadCount, ActiveCountIsExact
  PROVE  ActiveCountIsExact'
<1>1. \A u \in Objs, q \in Runs :
        work'[u][q] = IF u = o /\ q = r THEN to ELSE work[u][q]
  BY DEF Types
<1>2. PendingRuns' = PendingRuns
  BY <1>1 DEF PendingRuns
<1>3. Starting' = Starting  BY DEF Starting
<1> QED  BY <1>2, <1>3 DEF ActiveCountIsExact

\* A run ends, and is counted no more.
LEMMA RunEnds ==
  ASSUME Types, NEW o \in Objs, NEW r \in Runs, work[o][r] \notin {"none", "exited"},
         work' = [work EXCEPT ![o][r] = "exited"], client' = client,
         gActivePooledThreadCount' = gActivePooledThreadCount - 1, ActiveCountIsExact
  PROVE  ActiveCountIsExact'
<1>1. \A u \in Objs, q \in Runs :
        work'[u][q] = IF u = o /\ q = r THEN "exited" ELSE work[u][q]
  BY DEF Types
<1>2. PendingRuns' = PendingRuns \ {<<o, r>>}
  BY <1>1 DEF PendingRuns
<1>3. <<o, r>> \in PendingRuns  BY DEF PendingRuns
<1>4. Cardinality(PendingRuns') = Cardinality(PendingRuns) - 1
  BY <1>2, <1>3, FiniteSets, FS_RemoveElement
<1>5. Starting' = Starting  BY DEF Starting
<1> QED  BY <1>4, <1>5, FiniteSets DEF ActiveCountIsExact

-----------------------------------------------------------------------------
(* StartThread.                                                            *)

\* Only a loader is started more than once.
CanStart(o) == client[o] = "new" \/ (KindOf[o] = "loader" /\ client[o] \in {"idle", "waited", "timedOut"})

LEMMA BeginStartStep ==
  ASSUME PoolInv, NEW o \in Objs, CanStart(o), BeginStart(o)
  PROVE  PoolInv'
<1> USE DEF PoolInv
<1>1. /\ started'[o] = started[o] + 1 /\ started[o] \in Nat /\ started[o] + 1 \in Runs
      /\ UNCHANGED <<alive, mDoneEvent, mRefCnt, work>>
      /\ client'[o] = IF IsFinished(o) THEN "reset" ELSE "queue"
      /\ mThreadState'[o] = IF IsFinished(o) THEN "Constructed" ELSE mThreadState[o]
      /\ gActivePooledThreadCount' = gActivePooledThreadCount + 1
  BY RunOne DEF BeginStart, Types, Goto, Count, Runs
<1>2. Types'
  <2>1. started' \in [Objs -> 0..MaxRuns]  BY <1>1, RunOne DEF BeginStart, Types, Runs
  <2>2. client' \in [Objs -> ClientStates]  BY DEF BeginStart, Types, Goto, ClientStates
  <2>3. mThreadState' \in [Objs -> {"Constructed", "Running", "Finished"}]
    BY DEF BeginStart, Types
  <2> QED  BY <1>1, <2>1, <2>2, <2>3 DEF Types
<1>3. \A u \in Objs \ {o} : Same(u)
  BY DEF BeginStart, Types, Goto, Same
<1>4. ObjOK(o)'
  <2>1. RunsOK(o)'
    <3>1. work[o][started[o] + 1] = "none"  BY <1>1 DEF ObjOK, RunsOK
    <3> QED  BY <1>1, <3>1 DEF ObjOK, RunsOK, Runs
  <2>2. KindOf[o] # "loader" =>
          client[o] = "new" /\ started[o] = 0 /\ work[o][1] = "none" /\ ~HasStarted(o)
    BY RunOne DEF CanStart, ObjOK, OnceOK, RunsOK
  <2>3. OnceOK(o)'
    BY <1>1, <2>2 DEF OnceOK, HasStarted, IsFinished
  <2>4. CountOK(o)'
    <3>1. mAutoDelete(o) => client[o] = "new" /\ client'[o] = "queue"
      BY <1>1, <2>2 DEF mAutoDelete, HasStarted, IsFinished
    <3> QED  BY <1>1, <3>1 DEF ObjOK, CountOK, Holders, Uses, mAutoDelete
  <2>5. WaitOK(o)'
    <3>1. KindOf[o] = "stack" => client[o] = "new" /\ client'[o] = "queue"
      BY <1>1, <2>2 DEF HasStarted, IsFinished
    <3> QED  BY <1>1, <2>2, <3>1 DEF ObjOK, WaitOK, HasStarted
  <2> QED  BY <2>1, <2>3, <2>4, <2>5 DEF ObjOK
<1>5. ActiveCountIsExact'
  <2>1. PendingRuns' = PendingRuns  BY <1>1 DEF PendingRuns
  <2>2. Starting' = Starting \cup {o}  BY <1>1, <1>3 DEF Starting, Same
  <2>3. o \notin Starting  BY DEF Starting, CanStart
  <2>4. Cardinality(Starting') = Cardinality(Starting) + 1
    BY <2>2, <2>3, FiniteSets, FS_AddElement
  <2> QED  BY <1>1, <2>1, <2>4, FiniteSets DEF ActiveCountIsExact
<1> QED  BY <1>2, <1>3, <1>4, <1>5, SameKeeps

LEMMA ResetDoneStep ==
  ASSUME PoolInv, NEW o \in Objs, ResetDone(o)
  PROVE  PoolInv'
<1> USE DEF PoolInv
<1>1. /\ UNCHANGED <<alive, mThreadState, mRefCnt, work, started, gActivePooledThreadCount>>
      /\ client[o] = "reset" /\ client'[o] = "queue" /\ mDoneEvent'[o] = FALSE
  BY DEF ResetDone, Types, Goto
<1>2. Types'  BY DEF ResetDone, Types, Goto, ClientStates
<1>3. \A u \in Objs \ {o} : Same(u)  BY DEF ResetDone, Types, Goto, Same
<1>4. KindOf[o] = "loader"  BY <1>1 DEF ObjOK, OnceOK
<1>5. ObjOK(o)'
  BY <1>1, <1>4 DEF ObjOK, RunsOK, OnceOK, CountOK, WaitOK, mAutoDelete
<1>6. ActiveCountIsExact'  BY <1>1, <1>2, <1>3, SetsUnchanged
<1> QED  BY <1>2, <1>3, <1>5, <1>6, SameKeeps

\* The run takes its reference before it is queued.
LEMMA QueueRunStep ==
  ASSUME PoolInv, NEW o \in Objs, QueueRun(o)
  PROVE  PoolInv'
<1> USE DEF PoolInv
<1> DEFINE n == started[o]
<1>1. /\ UNCHANGED <<alive, mThreadState, mDoneEvent, started, gActivePooledThreadCount>>
      /\ client[o] = "queue" /\ client'[o] = "started"
      /\ mRefCnt'[o] = IF mAutoDelete(o) THEN mRefCnt[o] + 1 ELSE mRefCnt[o]
      /\ n \in Runs /\ work[o][n] = "none"
  BY DEF QueueRun, Types, Goto, ObjOK, RunsOK
<1>2. \A q \in Runs : work'[o][q] = IF q = n THEN "queued" ELSE work[o][q]
  BY DEF QueueRun, Types
<1>3. Types'
  BY <1>1 DEF QueueRun, Types, Goto, ClientStates, WorkStates
<1>4. \A u \in Objs \ {o} : Same(u)  BY DEF QueueRun, Types, Goto, Same
<1>5. ObjOK(o)'
  <2>1. RunsOK(o)'  BY <1>1, <1>2 DEF Types, ObjOK, RunsOK, Runs
  <2>2. KindOf[o] # "loader" => n = 1 /\ work[o][1] = "none" /\ work'[o][1] = "queued"
                                /\ ~HasStarted(o)
    BY <1>1, <1>2, RunOne DEF ObjOK, OnceOK, Runs
  <2>3. OnceOK(o)'  BY <1>1, <2>2 DEF ObjOK, OnceOK, HasStarted
  <2>4. CountOK(o)'
    BY <1>1, <2>2 DEF Types, ObjOK, CountOK, Holders, Uses, mAutoDelete
  <2>5. WaitOK(o)'  BY <1>1, <2>2 DEF ObjOK, WaitOK, HasStarted, Signalled
  <2> QED  BY <2>1, <2>3, <2>4, <2>5 DEF ObjOK
<1>6. ActiveCountIsExact'
  <2>1. PendingRuns' = PendingRuns \cup {<<o, n>>}
    BY <1>1, <1>2, <1>4 DEF PendingRuns, Same
  <2>2. <<o, n>> \notin PendingRuns  BY <1>1 DEF PendingRuns
  <2>3. Starting' = Starting \ {o}  BY <1>1, <1>4 DEF Starting, Same
  <2>4. o \in Starting  BY <1>1 DEF Starting
  <2>5. Cardinality(PendingRuns') = Cardinality(PendingRuns) + 1
    BY <2>1, <2>2, FiniteSets, FS_AddElement
  <2>6. Cardinality(Starting') = Cardinality(Starting) - 1
    BY <2>3, <2>4, FiniteSets, FS_RemoveElement
  <2> QED  BY <1>1, <2>5, <2>6, FiniteSets DEF ActiveCountIsExact
<1> QED  BY <1>3, <1>4, <1>5, <1>6, SameKeeps

\* Without a run the object is left to its client, or deleted if it has none.
LEMMA FailToQueueStep ==
  ASSUME PoolInv, NEW o \in Objs, FailToQueue(o)
  PROVE  PoolInv'
<1> USE DEF PoolInv
<1>1. /\ UNCHANGED <<mThreadState, mRefCnt, work, started>>
      /\ client[o] = "queue" /\ client'[o] = "notStarted"
      /\ mDoneEvent'[o] = TRUE /\ alive'[o] = (mAutoDelete(o) => mRefCnt[o] > 0)
      /\ gActivePooledThreadCount' = gActivePooledThreadCount - 1
  BY DEF FailToQueue, Types, Goto, Count
<1>2. Types'
  BY <1>1 DEF FailToQueue, Types, Goto, ClientStates
<1>3. \A u \in Objs \ {o} : Same(u)  BY DEF FailToQueue, Types, Goto, Same
<1>4. ObjOK(o)'
  <2>1. RunsOK(o)'  BY <1>1 DEF ObjOK, RunsOK
  <2>2. KindOf[o] # "loader" => work[o][1] = "none"
    BY <1>1, RunOne DEF ObjOK, OnceOK, RunsOK, Runs
  <2>3. OnceOK(o)'  BY <1>1 DEF ObjOK, OnceOK, HasStarted
  <2>4. CountOK(o)'  BY <1>1, <2>2 DEF Types, ObjOK, CountOK, Holders, Uses, mAutoDelete
  <2>5. WaitOK(o)'  BY <1>1, <2>2 DEF ObjOK, WaitOK, mAutoDelete
  <2> QED  BY <2>1, <2>3, <2>4, <2>5 DEF ObjOK
<1>5. ActiveCountIsExact'
  <2>1. PendingRuns' = PendingRuns  BY <1>1 DEF PendingRuns
  <2>2. Starting' = Starting \ {o}  BY <1>1, <1>3 DEF Starting, Same
  <2>3. o \in Starting  BY <1>1 DEF Starting
  <2>4. Cardinality(Starting') = Cardinality(Starting) - 1
    BY <2>2, <2>3, FiniteSets, FS_RemoveElement
  <2> QED  BY <1>1, <2>1, <2>4, FiniteSets DEF ActiveCountIsExact
<1> QED  BY <1>2, <1>3, <1>4, <1>5, SameKeeps

-----------------------------------------------------------------------------
(* ThreadProc.                                                             *)

\* The run of an object that is started once is its first.
LEMMA OnlyRun ==
  ASSUME PoolInv, NEW o \in Objs, NEW r \in Runs, NEW to \in WorkStates,
         work[o][r] # "none", work' = [work EXCEPT ![o][r] = to],
         UNCHANGED <<client, started>>
  PROVE  /\ RunsOK(o)'
         /\ \A u \in Objs \ {o} : work'[u] = work[u]
         /\ KindOf[o] # "loader" => r = 1 /\ work'[o][1] = to /\ work[o][1] = work[o][r]
<1> USE DEF PoolInv
<1>1. \A q \in Runs : work'[o][q] = IF q = r THEN to ELSE work[o][q]
  BY DEF Types
<1>2. r <= started[o]  BY DEF Types, ObjOK, RunsOK, Runs
<1>3. RunsOK(o)'
  BY <1>1, <1>2 DEF Types, ObjOK, RunsOK, Runs
<1>4. KindOf[o] # "loader" => r = 1
  BY <1>2 DEF ObjOK, OnceOK, Runs
<1> QED  BY <1>1, <1>3, <1>4 DEF Types

\* Steps that neither the event nor the references are about.
LEMMA BeginEndRunStep ==
  ASSUME PoolInv, NEW o \in Objs, NEW r \in Runs, BeginRun(o, r) \/ EndRun(o, r)
  PROVE  PoolInv'
<1> USE DEF PoolInv
<1> DEFINE to == IF BeginRun(o, r) THEN "running" ELSE "finished"
<1>1. /\ UNCHANGED <<alive, mDoneEvent, mRefCnt, started, client, gActivePooledThreadCount>>
      /\ work[o][r] \in {"queued", "running"} /\ work' = [work EXCEPT ![o][r] = to]
      /\ mThreadState'[o] # "Constructed"
  BY DEF BeginRun, EndRun, Advance, Types
<1>2. to \in WorkStates \ {"none", "exited"} /\ to \in {"running", "finished"}
  BY DEF WorkStates
<1>3. Types' /\ \A u \in Objs \ {o} : mThreadState'[u] = mThreadState[u]
  BY <1>1, <1>2 DEF BeginRun, EndRun, Types, Runs
<1> HIDE DEF to
<1>4. /\ RunsOK(o)'
      /\ \A u \in Objs \ {o} : work'[u] = work[u]
      /\ KindOf[o] # "loader" => r = 1 /\ work'[o][1] = to /\ work[o][1] = work[o][r]
  BY <1>1, <1>2, OnlyRun
<1>5. \A u \in Objs \ {o} : Same(u)  BY <1>1, <1>3, <1>4 DEF Same
<1>6. OnceOK(o)'  BY <1>1, <1>2, <1>4 DEF ObjOK, OnceOK
<1>7. CountOK(o)'
  BY <1>1, <1>2, <1>4 DEF ObjOK, CountOK, Holders, Uses, mAutoDelete
<1>8. WaitOK(o)'
  BY <1>1, <1>2, <1>4 DEF ObjOK, WaitOK, Signalled, HasStarted
<1>9. ActiveCountIsExact'
  BY <1>1, <1>2, RunGoesOn
<1> QED  BY <1>3, <1>4, <1>5, <1>6, <1>7, <1>8, <1>9, SameKeeps DEF ObjOK

LEMMA SignalDoneStep ==
  ASSUME PoolInv, NEW o \in Objs, NEW r \in Runs, SignalDone(o, r)
  PROVE  PoolInv'
<1> USE DEF PoolInv
<1>1. /\ UNCHANGED <<alive, mThreadState, mRefCnt, started, client, gActivePooledThreadCount>>
      /\ work[o][r] = "finished" /\ work' = [work EXCEPT ![o][r] = "signalled"]
      /\ mDoneEvent' = [mDoneEvent EXCEPT ![o] = TRUE]
  BY DEF SignalDone, Advance
<1>2. "signalled" \in WorkStates \ {"none", "exited"}  BY DEF WorkStates
<1>3. Types' /\ \A u \in Objs \ {o} : mDoneEvent'[u] = mDoneEvent[u]
  BY <1>1, <1>2 DEF Types
<1>4. /\ RunsOK(o)'
      /\ \A u \in Objs \ {o} : work'[u] = work[u]
      /\ KindOf[o] # "loader" => work'[o][1] = "signalled" /\ work[o][1] = "finished"
  BY <1>1, <1>2, OnlyRun
<1>5. \A u \in Objs \ {o} : Same(u)  BY <1>1, <1>3, <1>4 DEF Same
<1>6. OnceOK(o)'  BY <1>1, <1>4 DEF ObjOK, OnceOK, HasStarted
<1>7. CountOK(o)'
  BY <1>1, <1>4 DEF ObjOK, CountOK, Holders, Uses, mAutoDelete
<1>8. WaitOK(o)'
  BY <1>1, <1>4 DEF ObjOK, WaitOK, Signalled, HasStarted
<1>9. ActiveCountIsExact'
  BY <1>1, <1>2, RunGoesOn
<1> QED  BY <1>3, <1>4, <1>5, <1>6, <1>7, <1>8, <1>9, SameKeeps DEF ObjOK

\* The object goes with the last reference.
LEMMA ReleaseRunStep ==
  ASSUME PoolInv, NEW o \in Objs, NEW r \in Runs, ReleaseRun(o, r)
  PROVE  PoolInv'
<1> USE DEF PoolInv
<1>1. /\ UNCHANGED <<mThreadState, mDoneEvent, started, client, gActivePooledThreadCount>>
      /\ work[o][r] = "signalled" /\ work' = [work EXCEPT ![o][r] = "leaving"]
  BY DEF ReleaseRun, Advance
<1>2. "leaving" \in WorkStates \ {"none", "exited"}  BY DEF WorkStates
<1>3. /\ mAutoDelete(o) => /\ mRefCnt'[o] = mRefCnt[o] - 1
                           /\ alive'[o] = (alive[o] /\ mRefCnt'[o] > 0)
      /\ ~mAutoDelete(o) => alive'[o] = alive[o] /\ mRefCnt'[o] = mRefCnt[o]
      /\ \A u \in Objs \ {o} : alive'[u] = alive[u] /\ mRefCnt'[u] = mRefCnt[u]
  BY DEF ReleaseRun, Release, Types
<1>4. Types'
  <2>1. mRefCnt' \in [Objs -> Int]  BY DEF ReleaseRun, Release, Types
  <2>3. alive' \in [Objs -> BOOLEAN]
    <3>1. alive' = alive \/ alive' = [alive EXCEPT ![o] = alive[o] /\ mRefCnt'[o] > 0]
      BY DEF ReleaseRun, Release
    <3>2. (alive[o] /\ mRefCnt'[o] > 0) \in BOOLEAN  OBVIOUS
    <3> QED  BY <3>1, <3>2 DEF Types
  <2>2. work' \in [Objs -> [Runs -> WorkStates]]  BY <1>1, <1>2 DEF Types
  <2> QED  BY <1>1, <2>1, <2>2, <2>3 DEF Types
<1>5. /\ RunsOK(o)'
      /\ \A u \in Objs \ {o} : work'[u] = work[u]
      /\ KindOf[o] # "loader" => work'[o][1] = "leaving" /\ work[o][1] = "signalled"
  BY <1>1, <1>2, OnlyRun
<1>6. \A u \in Objs \ {o} : Same(u)  BY <1>1, <1>3, <1>5 DEF Same
<1>7. OnceOK(o)'  BY <1>1, <1>5 DEF ObjOK, OnceOK, HasStarted
<1>8. CountOK(o)'
  <2>1. client[o] \in {"new", "queue"} /\ KindOf[o] # "loader" => work[o][1] = "none"
    BY RunOne DEF ObjOK, OnceOK, RunsOK, Runs
  <2>2. CASE ~mAutoDelete(o)  BY <1>3, <2>2 DEF ObjOK, CountOK, mAutoDelete
  <2>3. CASE mAutoDelete(o)
    <3>1. Holders(o)' = Holders(o) - 1 /\ Holders(o) \in Nat
      BY <1>1, <1>5, <2>3 DEF Holders, Uses, mAutoDelete
    <3>2. mRefCnt[o] \in Int /\ mRefCnt'[o] = mRefCnt[o] - 1
          /\ (alive'[o] <=> alive[o] /\ mRefCnt'[o] > 0)
      BY <1>3, <2>3 DEF Types
    <3>3. client[o] \notin {"new", "queue"} /\ client'[o] = client[o]
      BY <1>1, <1>5, <2>1, <2>3 DEF mAutoDelete
    <3>4. mRefCnt[o] >= Holders(o) /\ (o \notin ProcFails => mRefCnt[o] = Holders(o))
          /\ (mRefCnt[o] > 0 => alive[o])
      BY <2>3 DEF ObjOK, CountOK
    <3>5. mRefCnt'[o] >= Holders(o)' /\ (o \notin ProcFails => mRefCnt'[o] = Holders(o)')
          /\ (mRefCnt'[o] > 0 => alive'[o]) /\ (alive'[o] => mRefCnt'[o] > 0)
      BY <3>1, <3>2, <3>4
    <3> QED  BY <2>3, <3>3, <3>5 DEF CountOK, mAutoDelete
  <2> QED  BY <2>2, <2>3
<1>9. WaitOK(o)'
  BY <1>1, <1>3, <1>5 DEF ObjOK, WaitOK, Signalled, HasStarted, mAutoDelete
<1>10. ActiveCountIsExact'
  BY <1>1, <1>2, RunGoesOn
<1> QED  BY <1>4, <1>5, <1>6, <1>7, <1>8, <1>9, <1>10, SameKeeps DEF ObjOK

LEMMA ExitRunStep ==
  ASSUME PoolInv, NEW o \in Objs, NEW r \in Runs, ExitRun(o, r) \/ FailProc(o, r)
  PROVE  PoolInv'
<1> USE DEF PoolInv
<1>1. /\ UNCHANGED <<alive, mThreadState, mDoneEvent, mRefCnt, started, client>>
      /\ work[o][r] \in {"leaving", "queued"} /\ (work[o][r] = "queued" => o \in ProcFails)
      /\ work' = [work EXCEPT ![o][r] = "exited"]
      /\ gActivePooledThreadCount' = gActivePooledThreadCount - 1
  BY DEF ExitRun, FailProc, Advance, Count
<1>2. "exited" \in WorkStates  BY DEF WorkStates
<1>3. Types'  BY <1>1, <1>2 DEF Types
<1>4. /\ RunsOK(o)'
      /\ \A u \in Objs \ {o} : work'[u] = work[u]
      /\ KindOf[o] # "loader" => work'[o][1] = "exited" /\ work[o][1] = work[o][r]
  BY <1>1, <1>2, OnlyRun
<1>5. \A u \in Objs \ {o} : Same(u)  BY <1>1, <1>4 DEF Same
<1>6. OnceOK(o)'  BY <1>1, <1>4 DEF ObjOK, OnceOK, HasStarted
<1>7. CountOK(o)'
  BY <1>1, <1>4 DEF Types, ObjOK, CountOK, Holders, Uses, mAutoDelete
<1>8. WaitOK(o)'
  BY <1>1, <1>4 DEF ObjOK, WaitOK, Signalled, HasStarted
<1>9. ActiveCountIsExact'
  BY <1>1, RunEnds
<1> QED  BY <1>3, <1>4, <1>5, <1>6, <1>7, <1>8, <1>9, SameKeeps DEF ObjOK

-----------------------------------------------------------------------------
(* The clients.                                                            *)

\* A signal ends the wait of an object on the stack only when the run is over.
LEMMA TakeSignalStep ==
  ASSUME PoolInv, NEW o \in Objs, TakeSignal(o)
  PROVE  PoolInv'
<1> USE DEF PoolInv
<1>1. /\ UNCHANGED <<alive, mThreadState, mRefCnt, work, started, gActivePooledThreadCount>>
      /\ client[o] = "wait" /\ mDoneEvent[o] /\ mDoneEvent' = [mDoneEvent EXCEPT ![o] = FALSE]
      /\ client'[o] \in {"wait", "waited"}
  BY DEF TakeSignal, Types, Goto
<1>2. Types'
  <2>1. client' \in [Objs -> ClientStates]  BY DEF TakeSignal, Types, Goto, ClientStates
  <2>2. mDoneEvent' \in [Objs -> BOOLEAN]  BY <1>1 DEF Types
  <2> QED  BY <1>1, <2>1, <2>2 DEF Types
<1>3. \A u \in Objs \ {o} : Same(u)  BY DEF TakeSignal, Types, Goto, Same
<1>4. ~mDoneEvent'[o]  BY <1>1 DEF Types
<1>5. ObjOK(o)'
  <2>1. RunsOK(o)' /\ OnceOK(o)'  BY <1>1 DEF ObjOK, RunsOK, OnceOK, HasStarted
  <2>2. CountOK(o)'  BY <1>1 DEF ObjOK, CountOK, Holders, Uses, mAutoDelete
  <2>3. WaitOK(o)'
    <3>1. KindOf[o] = "stack" => HasStarted(o) /\ work[o][1] \in Signalled
      BY <1>1 DEF ObjOK, WaitOK
    <3> QED  BY <1>1, <1>4, <3>1 DEF ObjOK, WaitOK, HasStarted
  <2> QED  BY <2>1, <2>2, <2>3 DEF ObjOK
<1>6. ActiveCountIsExact'  BY <1>1, <1>2, <1>3, SetsUnchanged
<1> QED  BY <1>2, <1>3, <1>5, <1>6, SameKeeps

\* A client that only goes on.
Moves(o, to) ==
  /\ to \in ClientStates \ {"new", "reset", "queue"} /\ Goto(o, to)
  /\ client[o] \notin {"new", "reset", "queue"}
  /\ KindOf[o] = "shared" => client[o] # "gone" /\ to # "gone"
  /\ KindOf[o] = "stack" =>
       /\ to \in {"awaitStart", "wait", "timedOut"} /\ client[o] \notin {"waited", "gone"}
       /\ to = "awaitStart" => client[o] \in {"started", "notStarted"}
       /\ to # "awaitStart" => HasStarted(o)
  /\ to \notin {"started", "waited"}
  /\ KindOf[o] = "loader" =>
       to = "awaitStart" \/ HasStarted(o) \/ client[o] \in {"idle", "wait", "waited", "timedOut"}
  /\ KindOf[o] = "shared" /\ to \in {"wait", "timedOut"} =>
       client[o] \in {"started", "wait", "timedOut"}
  /\ client[o] # "gone"
  /\ UNCHANGED <<alive, mThreadState, mDoneEvent, mRefCnt, work, started,
                 gActivePooledThreadCount, history>>

LEMMA MoveStep ==
  ASSUME PoolInv, NEW o \in Objs, NEW to, Moves(o, to)
  PROVE  PoolInv'
<1> USE DEF PoolInv
<1>1. /\ UNCHANGED <<alive, mThreadState, mDoneEvent, mRefCnt, work, started,
                     gActivePooledThreadCount>>
      /\ client'[o] = to /\ client' = [client EXCEPT ![o] = to]
      /\ to \in ClientStates \ {"new", "reset", "queue"}
      /\ client[o] \notin {"new", "reset", "queue"}
  BY DEF Moves, Types, Goto
<1>2. Types'  BY <1>1 DEF Types
<1>3. \A u \in Objs \ {o} : Same(u)  BY <1>1 DEF Types, Same
<1>4. ObjOK(o)'
  <2>1. RunsOK(o)' /\ OnceOK(o)'  BY <1>1 DEF ObjOK, RunsOK, OnceOK, HasStarted
  <2>2. CountOK(o)'  BY <1>1 DEF Moves, ObjOK, CountOK, Holders, Uses, mAutoDelete
  <2>3. WaitOK(o)'
    <3>1. CASE KindOf[o] = "stack" /\ to = "awaitStart"
      BY <1>1, <3>1 DEF Moves, ObjOK, WaitOK
    <3>2. CASE KindOf[o] = "stack" /\ to # "awaitStart"
      <4>1. work[o][1] # "none" /\ HasStarted(o) /\ to \in {"wait", "timedOut"}
        BY <3>2 DEF Moves, ObjOK, OnceOK
      <4> QED  BY <1>1, <3>2, <4>1 DEF Moves, ObjOK, WaitOK, HasStarted
    <3>3. CASE KindOf[o] # "stack"  BY <3>3 DEF WaitOK
    <3> QED  BY <3>1, <3>2, <3>3
  <2> QED  BY <2>1, <2>2, <2>3 DEF ObjOK
<1>5. ActiveCountIsExact'  BY <1>1, <1>2, <1>3, SetsUnchanged
<1> QED  BY <1>2, <1>3, <1>4, <1>5, SameKeeps

\* An owner that deletes its object; on the stack it has waited.
Destroys(o) ==
  /\ KindOf[o] \in {"stack", "window", "highlighter", "loader"}
  /\ client[o] \notin {"new", "reset", "queue", "gone"} /\ Goto(o, "gone") /\ Delete(o)
  /\ KindOf[o] = "stack" => client[o] = "waited"
  /\ KindOf[o] = "window" => ~IsRunning(o)
  /\ KindOf[o] = "highlighter" => IsFinished(o)
  /\ KindOf[o] = "loader" =>
       (client[o] = "idle" /\ ~IsRunning(o)) \/ client[o] \in {"waited", "timedOut"}
  /\ under' = [under EXCEPT ![o] = Unsignalled(o)]
  /\ hasty' = [hasty EXCEPT ![o] = @ \/ client[o] = "timedOut"]
  /\ UNCHANGED <<mThreadState, mDoneEvent, mRefCnt, work, started, gActivePooledThreadCount>>

LEMMA DestroyStep ==
  ASSUME PoolInv, NEW o \in Objs, Destroys(o)
  PROVE  PoolInv'
<1> USE DEF PoolInv
<1>1. /\ UNCHANGED <<mThreadState, mDoneEvent, mRefCnt, work, started,
                     gActivePooledThreadCount>>
      /\ client'[o] = "gone" /\ client' = [client EXCEPT ![o] = "gone"]
      /\ alive' = [alive EXCEPT ![o] = FALSE]
      /\ client[o] \notin {"new", "reset", "queue"}
      /\ ~mAutoDelete(o)
  BY DEF Destroys, Types, Goto, Delete, mAutoDelete
<1>2. Types'  BY <1>1 DEF Types, ClientStates
<1>3. \A u \in Objs \ {o} : Same(u)  BY <1>1 DEF Types, Same
<1>4. ObjOK(o)'
  <2>1. RunsOK(o)' /\ OnceOK(o)'  BY <1>1 DEF ObjOK, RunsOK, OnceOK, HasStarted
  <2>2. CountOK(o)'  BY <1>1 DEF ObjOK, CountOK, mAutoDelete
  <2>3. WaitOK(o)'
    <3>1. KindOf[o] = "stack" => work[o][1] \in Signalled
      BY DEF Destroys, ObjOK, WaitOK
    <3> QED  BY <1>1, <3>1 DEF WaitOK
  <2> QED  BY <2>1, <2>2, <2>3 DEF ObjOK
<1>5. ActiveCountIsExact'  BY <1>1, <1>2, <1>3, SetsUnchanged
<1> QED  BY <1>2, <1>3, <1>4, <1>5, SameKeeps

\* VAParseThread::DoParse gives back its reference.
ClientReleases(o) ==
  /\ KindOf[o] = "shared" /\ client[o] = "release" /\ Goto(o, "gone") /\ Release(o)
  /\ UNCHANGED <<mThreadState, mDoneEvent, work, started, gActivePooledThreadCount, history>>

LEMMA ClientReleaseStep ==
  ASSUME PoolInv, NEW o \in Objs, ClientReleases(o)
  PROVE  PoolInv'
<1> USE DEF PoolInv
<1>1. /\ UNCHANGED <<mThreadState, mDoneEvent, work, started, gActivePooledThreadCount>>
      /\ client[o] = "release" /\ client'[o] = "gone"
      /\ KindOf[o] = "shared" /\ client' = [client EXCEPT ![o] = "gone"]
  BY DEF ClientReleases, Types, Goto
<1>2. /\ mRefCnt[o] \in Int /\ mRefCnt'[o] = mRefCnt[o] - 1
      /\ (alive'[o] <=> alive[o] /\ mRefCnt'[o] > 0)
      /\ \A u \in Objs \ {o} : alive'[u] = alive[u] /\ mRefCnt'[u] = mRefCnt[u]
  BY DEF ClientReleases, Release, Types
<1>3. Types'
  <2>1. mRefCnt' \in [Objs -> Int]  BY DEF ClientReleases, Release, Types
  <2>2. alive' \in [Objs -> BOOLEAN]
    <3>1. alive' = [alive EXCEPT ![o] = alive[o] /\ mRefCnt'[o] > 0]
      BY DEF ClientReleases, Release
    <3>2. (alive[o] /\ mRefCnt'[o] > 0) \in BOOLEAN  OBVIOUS
    <3> QED  BY <3>1, <3>2 DEF Types
  <2>3. client' \in [Objs -> ClientStates]  BY <1>1 DEF Types, ClientStates
  <2> QED  BY <1>1, <2>1, <2>2, <2>3 DEF Types
<1>4. \A u \in Objs \ {o} : Same(u)  BY <1>1, <1>2 DEF Types, Same
<1>5. ObjOK(o)'
  <2>1. RunsOK(o)' /\ OnceOK(o)'  BY <1>1 DEF ObjOK, RunsOK, OnceOK, HasStarted
  <2>2. CountOK(o)'
    <3>1. Holders(o)' = Holders(o) - 1 /\ Holders(o) \in Nat  BY <1>1 DEF Holders, Uses, mAutoDelete
    <3>2. mRefCnt[o] >= Holders(o) /\ (o \notin ProcFails => mRefCnt[o] = Holders(o))
          /\ (mRefCnt[o] > 0 => alive[o])
      BY <1>1 DEF ObjOK, CountOK, mAutoDelete
    <3>3. mRefCnt'[o] >= Holders(o)' /\ (o \notin ProcFails => mRefCnt'[o] = Holders(o)')
          /\ (mRefCnt'[o] > 0 => alive'[o]) /\ (alive'[o] => mRefCnt'[o] > 0)
      BY <1>2, <3>1, <3>2
    <3> QED  BY <1>1, <3>3 DEF CountOK, mAutoDelete
  <2>3. WaitOK(o)'  BY <1>1 DEF WaitOK
  <2> QED  BY <2>1, <2>2, <2>3 DEF ObjOK
<1>6. ActiveCountIsExact'  BY <1>1, <1>3, <1>4, SetsUnchanged
<1> QED  BY <1>3, <1>4, <1>5, <1>6, SameKeeps

\* Those are all the steps of a client.
LEMMA ClientSteps ==
  ASSUME PoolInv, NEW o \in Objs, Client(o)
  PROVE  \/ StartThread(o) \/ TakeSignal(o) \/ (CanStart(o) /\ BeginStart(o))
         \/ (\E to \in ClientStates : Moves(o, to)) \/ Destroys(o) \/ ClientReleases(o)
<1> USE DEF Moves, Move, Goto, ClientStates
<1>1. CASE TimeOut(o)
  <2>1. KindOf[o] = "stack" => HasStarted(o)
    BY <1>1 DEF PoolInv, ObjOK, WaitOK, TimeOut
  <2>2. Moves(o, "timedOut")  BY <1>1, <2>1 DEF TimeOut
  <2> QED  BY <2>2
<1>2. CASE Detached(o)
  <2>1. (CanStart(o) /\ BeginStart(o)) \/ Moves(o, "gone")
    BY <1>2 DEF Detached, CanStart
  <2> QED  BY <2>1
<1>3. CASE Shared(o)
  <2>1. \/ CanStart(o) /\ BeginStart(o)
        \/ Moves(o, "wait") \/ Moves(o, "awaitStart") \/ Moves(o, "release")
        \/ ClientReleases(o)
    BY <1>3 DEF Shared, CanStart, ClientReleases
  <2> QED  BY <2>1
<1>4. CASE Stack(o)
  <2>1. client[o] = "timedOut" /\ KindOf[o] = "stack" => HasStarted(o)
    BY DEF PoolInv, ObjOK, WaitOK
  <2>2. \/ CanStart(o) /\ BeginStart(o)
        \/ Moves(o, "awaitStart") \/ Moves(o, "wait") \/ Destroys(o)
    BY <1>4, <2>1 DEF Stack, CanStart, Destroy, Destroys, IsRunning, IsFinished, HasStarted
  <2> QED  BY <2>2
<1>5. CASE Window(o)
  <2>1. \/ CanStart(o) /\ BeginStart(o)
        \/ Moves(o, "idle") \/ Moves(o, "wait") \/ Moves(o, "undeleted") \/ Destroys(o)
    BY <1>5 DEF Window, CanStart, Destroy, Destroys, IsRunning, IsFinished, HasStarted
  <2> QED  BY <2>1
<1>6. CASE Highlighter(o)
  <2>1. \/ CanStart(o) /\ BeginStart(o)
        \/ Moves(o, "idle") \/ Moves(o, "wait") \/ Moves(o, "undeleted") \/ Destroys(o)
    BY <1>6 DEF Highlighter, CanStart, Destroy, Destroys, IsRunning, IsFinished, HasStarted
  <2> QED  BY <2>1
<1>7. CASE Loader(o)
  <2>1. \/ CanStart(o) /\ BeginStart(o)
        \/ Moves(o, "awaitStart") \/ Moves(o, "wait") \/ Moves(o, "idle")
        \/ Destroys(o)
    BY <1>7 DEF Loader, CanStart, Destroy, Destroys, IsRunning, IsFinished, HasStarted
  <2> QED  BY <2>1
<1>8. CASE DeleteSpentFindReferencesThreads(o)
  BY <1>8 DEF DeleteSpentFindReferencesThreads, Destroy, Destroys, IsRunning, IsFinished
<1> QED  BY <1>1, <1>2, <1>3, <1>4, <1>5, <1>6, <1>7, <1>8 DEF Client

LEMMA PoolInvStep == PoolInv /\ [Next]_vars => PoolInv'
<1> SUFFICES ASSUME PoolInv, [Next]_vars PROVE PoolInv'  OBVIOUS
<1>1. ASSUME NEW o \in Objs, Client(o) PROVE PoolInv'
  BY <1>1, ClientSteps, BeginStartStep, ResetDoneStep, QueueRunStep, FailToQueueStep,
     TakeSignalStep, MoveStep, DestroyStep, ClientReleaseStep
  DEF StartThread
<1>2. ASSUME NEW o \in Objs, NEW r \in Runs, ThreadProc(o, r) \/ FailProc(o, r)
      PROVE PoolInv'
  BY <1>2, BeginEndRunStep, SignalDoneStep, ReleaseRunStep, ExitRunStep DEF ThreadProc
<1>3. CASE UNCHANGED vars
  <2>1. Types' /\ \A o \in Objs : Same(o)  BY <1>3 DEF vars, PoolInv, Types, Same
  <2>2. PendingRuns' = PendingRuns /\ Starting' = Starting
        /\ gActivePooledThreadCount' = gActivePooledThreadCount
    BY <1>3 DEF vars, PendingRuns, Starting
  <2> QED  BY <2>1, <2>2, SameKeeps DEF PoolInv, ActiveCountIsExact
<1> QED  BY <1>1, <1>2, <1>3 DEF Next

THEOREM PoolInvariant == Spec => []PoolInv
BY PoolInvInit, PoolInvStep, PTL DEF Spec

-----------------------------------------------------------------------------
(* The event, for clients of every kind, and what an owner deletes.         *)

Last(o) == IF started[o] = 0 THEN "none" ELSE work[o][started[o]]
HistoryTypes == hasty \in [Objs -> BOOLEAN] /\ under \in [Objs -> SUBSET WorkStates]

\* A client that is not hasty has one run at a time: mThreadState is about the
\* last run, and the event as well once it has been reset.
LastRunOK(o) ==
  /\ \A r \in Runs : r < started[o] => work[o][r] \in Signalled
  /\ ~HasStarted(o) => Last(o) \in {"none", "queued", "exited"}
  /\ IsRunning(o) => Last(o) = "running"
  /\ IsFinished(o) => Last(o) \in {"finished"} \cup Signalled
EventOK(o) ==
  /\ client[o] \in {"new", "reset", "queue"} => ~HasStarted(o) /\ Last(o) = "none"
  /\ client[o] \in {"new", "queue"} => ~mDoneEvent[o]
  /\ mDoneEvent[o] /\ client[o] # "reset" => Last(o) \in Signalled \cup {"none"}
ClientOK(o) ==
  /\ client[o] = "waited" => Last(o) \in Signalled
  /\ KindOf[o] = "loader" /\ client[o] \in {"idle", "wait", "waited", "timedOut"} =>
       HasStarted(o)
  /\ KindOf[o] = "shared" /\ client[o] \in {"started", "wait", "timedOut"} => Last(o) # "none"
HistoryOK(o) ==
  /\ KindOf[o] # "loader" /\ hasty[o] => client[o] = "gone"
  /\ under[o] \subseteq GapsOf(o)
LastOK(o) ==
  /\ client[o] = "new" => started[o] = 0 /\ ~hasty[o]
  /\ ~hasty[o] => LastRunOK(o) /\ EventOK(o) /\ ClientOK(o)
  /\ HistoryOK(o)
EventInv == HistoryTypes /\ \A o \in Objs : LastOK(o)

LEMMA EventInvInit == Init => EventInv
BY DEF Init, EventInv, HistoryTypes, LastOK, LastRunOK, EventOK, ClientOK, HistoryOK, Last,
       HasStarted, IsRunning, IsFinished, Runs

\* What the other objects keep.
AllSame(u) == Same(u) /\ hasty'[u] = hasty[u] /\ under'[u] = under[u]
LEMMA AllSameKeeps ==
  ASSUME NEW u \in Objs, LastOK(u), AllSame(u)
  PROVE  LastOK(u)'
BY DEF AllSame, Same, LastOK, LastRunOK, EventOK, ClientOK, HistoryOK, Last, HasStarted,
       IsRunning, IsFinished, GapsOf

\* Runs that are not the last have signalled, or have never been.
LEMMA OnlyLastUnsignalled ==
  ASSUME PoolInv, NEW o \in Objs, LastRunOK(o)
  PROVE  Unsignalled(o) \subseteq {Last(o)}
<1> SUFFICES ASSUME NEW r \in Runs, work[o][r] \in {"queued", "running", "finished"}
             PROVE  work[o][r] = Last(o)
  BY DEF Unsignalled
<1>1. r <= started[o]
  <2>1. r \in Int /\ started[o] \in Int  BY RunOne DEF PoolInv, Types, Runs
  <2>2. ~(r > started[o])  BY DEF PoolInv, ObjOK, RunsOK
  <2> QED  BY <2>1, <2>2
<1>2. ~(r < started[o])  BY DEF LastRunOK, Signalled
<1>3. r = started[o] /\ started[o] # 0  BY <1>1, <1>2, RunOne DEF PoolInv, Types, Runs
<1> QED  BY <1>3 DEF Last

LEMMA LastInRuns ==
  ASSUME PoolInv, NEW o \in Objs
  PROVE  /\ started[o] \in 0..MaxRuns /\ (started[o] # 0 => started[o] \in Runs)
         /\ Last(o) \in WorkStates
BY RunOne DEF PoolInv, Types, Runs, Last, WorkStates

LEMMA BeginStartEvent ==
  ASSUME PoolInv, EventInv, NEW o \in Objs, CanStart(o), BeginStart(o)
  PROVE  EventInv'
<1> DEFINE n == started[o]
<1>1. /\ started' = [started EXCEPT ![o] = @ + 1] /\ n \in 0..MaxRuns /\ n < MaxRuns
      /\ UNCHANGED <<alive, mDoneEvent, mRefCnt, work, under>>
      /\ client'[o] = IF IsFinished(o) THEN "reset" ELSE "queue"
      /\ mThreadState'[o] = IF IsFinished(o) THEN "Constructed" ELSE mThreadState[o]
      /\ hasty' = [hasty EXCEPT ![o] = @ \/ Unsignalled(o) # {}]
  BY RunOne DEF BeginStart, PoolInv, Types, Goto, Runs
<1>2. /\ started'[o] = n + 1 /\ n + 1 \in Runs
      /\ hasty'[o] = (hasty[o] \/ Unsignalled(o) # {})
  BY <1>1, RunOne DEF PoolInv, Types, EventInv, HistoryTypes, Runs
<1>3. HistoryTypes'
  <2>1. (hasty[o] \/ Unsignalled(o) # {}) \in BOOLEAN  OBVIOUS
  <2> QED  BY <1>1, <2>1 DEF EventInv, HistoryTypes
<1>4. \A u \in Objs \ {o} : AllSame(u)
  BY <1>1 DEF BeginStart, PoolInv, Types, EventInv, HistoryTypes, Goto, Same, AllSame
<1>5. work'[o][n + 1] = "none" /\ Last(o)' = "none"
  BY <1>1, <1>2 DEF PoolInv, ObjOK, RunsOK, Last, Runs
<1>6. ASSUME ~hasty'[o]
      PROVE  ~hasty[o] /\ Unsignalled(o) = {} /\ ~mThreadState'[o] \in {"Running", "Finished"}
             /\ (client[o] # "new" => client'[o] = "reset" /\ Last(o) \in Signalled)
             /\ (client[o] = "new" => client'[o] = "queue" /\ ~mDoneEvent[o])
  <2>1. ~hasty[o] /\ Unsignalled(o) = {}  BY <1>2, <1>6
  <2>2. LastRunOK(o) /\ EventOK(o) /\ ClientOK(o)  BY <2>1 DEF EventInv, LastOK
  <2>3. CASE client[o] = "new"
    <3>1. ~HasStarted(o) /\ ~mDoneEvent[o]  BY <2>2, <2>3 DEF EventOK
    <3> QED  BY <1>1, <2>1, <2>3, <3>1 DEF HasStarted, IsFinished
  <2>4. CASE client[o] # "new"
    <3>1. HasStarted(o)  BY <2>2, <2>4 DEF CanStart, ClientOK
    <3>2. n \in Runs
      BY <1>1, <2>2, <3>1, RunOne DEF PoolInv, ObjOK, RunsOK, OnceOK, CanStart, Runs, LastRunOK,
           Last, IsRunning, IsFinished, HasStarted, Types, Signalled
    <3>3. Last(o) \notin {"queued", "running", "finished"}
      BY <2>1, <3>2, RunOne DEF Last, Unsignalled, Runs
    <3>4. IsFinished(o) /\ Last(o) \in Signalled
      BY <2>2, <3>1, <3>3 DEF LastRunOK, HasStarted, IsRunning, IsFinished, PoolInv, Types
    <3> QED  BY <1>1, <2>1, <2>4, <3>4
  <2> QED  BY <2>3, <2>4
<1>7. ASSUME ~hasty'[o] PROVE LastRunOK(o)'
  <2>1. \A r \in Runs : r < n + 1 => work'[o][r] \in Signalled
    <3> SUFFICES ASSUME NEW r \in Runs, r < n + 1 PROVE work[o][r] \in Signalled
      BY <1>1
    <3>1. LastRunOK(o)  BY <1>6, <1>7 DEF EventInv, LastOK
    <3>2. CASE r < n  BY <3>1, <3>2 DEF LastRunOK
    <3>3. CASE ~(r < n)
      <4>1. r = n /\ n # 0 /\ client[o] # "new"
        BY <1>1, <3>3 DEF EventInv, LastOK, Runs
      <4> QED  BY <1>6, <1>7, <4>1 DEF Last
    <3> QED  BY <3>2, <3>3
  <2> QED  BY <1>2, <1>5, <1>6, <1>7, <2>1 DEF LastRunOK, HasStarted, IsRunning, IsFinished
<1>8. ASSUME ~hasty'[o] PROVE EventOK(o)' /\ ClientOK(o)'
  <2>1. mThreadState'[o] = "Constructed"
    BY <1>1, <1>6, <1>8 DEF PoolInv, Types
  <2>2. client'[o] = "queue" => ~mDoneEvent'[o]
    BY <1>1, <1>6, <1>8
  <2> QED  BY <1>1, <1>5, <2>1, <2>2 DEF EventOK, ClientOK, HasStarted
<1>9. HistoryOK(o)' /\ (client'[o] = "new" => started'[o] = 0 /\ ~hasty'[o])
  <2>1. KindOf[o] # "loader" => ~hasty'[o]
    <3> SUFFICES ASSUME KindOf[o] # "loader" PROVE ~hasty'[o]  OBVIOUS
    <3>1. client[o] = "new"  BY DEF CanStart
    <3>2. ~hasty[o] /\ n = 0  BY <3>1 DEF EventInv, LastOK
    <3>3. Unsignalled(o) = {}  BY <3>2 DEF PoolInv, ObjOK, RunsOK, Unsignalled, Runs
    <3> QED  BY <1>2, <3>2, <3>3
  <2>2. under'[o] \subseteq GapsOf(o)'
    BY <1>1, <1>2 DEF EventInv, LastOK, HistoryOK, GapsOf
  <2> QED  BY <1>1, <2>1, <2>2 DEF HistoryOK
<1>10. LastOK(o)'  BY <1>7, <1>8, <1>9 DEF LastOK
<1> QED  BY <1>3, <1>4, <1>10, AllSameKeeps DEF EventInv

LEMMA StartThreadEvent ==
  ASSUME PoolInv, PoolInv', EventInv, NEW o \in Objs, StartThread(o)
  PROVE  EventInv'
<1>1. UNCHANGED <<started, mThreadState, hasty, under>> /\ client[o] \in {"reset", "queue"}
  BY DEF StartThread, ResetDone, QueueRun, FailToQueue, history
<1>2. \A u \in Objs \ {o} : AllSame(u)
  BY <1>1 DEF StartThread, ResetDone, QueueRun, FailToQueue, PoolInv, Types, Goto, Same, AllSame
<1>3. started[o] \in Runs /\ work[o][started[o]] = "none" /\ started[o] # 0
  BY <1>1 DEF PoolInv, ObjOK, RunsOK, Runs
<1>4. LastOK(o)'
  <2>1. CASE ResetDone(o)
    <3>1. work' = work /\ client'[o] = "queue" /\ ~mDoneEvent'[o]
      BY <2>1 DEF ResetDone, PoolInv, Types, Goto
    <3> QED  BY <1>1, <3>1 DEF EventInv, LastOK, LastRunOK, EventOK, ClientOK, HistoryOK, Last,
                          HasStarted, IsRunning, IsFinished, GapsOf
  <2>2. CASE QueueRun(o)
    <3>1. /\ client'[o] = "started" /\ client[o] = "queue" /\ mDoneEvent' = mDoneEvent
          /\ \A q \in Runs : work'[o][q] = IF q = started[o] THEN "queued" ELSE work[o][q]
      BY <2>2 DEF QueueRun, PoolInv, Types, Goto
    <3>2. Last(o) = "none" /\ Last(o)' = "queued"  BY <1>1, <1>3, <3>1 DEF Last
    <3>3. ASSUME ~hasty[o] PROVE LastRunOK(o)' /\ EventOK(o)' /\ ClientOK(o)'
      <4>1. LastRunOK(o) /\ EventOK(o)  BY <3>3 DEF EventInv, LastOK
      <4>2. ~HasStarted(o) /\ ~mDoneEvent[o]  BY <3>1, <4>1 DEF EventOK
      <4>3. LastRunOK(o)'
        BY <1>1, <3>1, <3>2, <4>1, <4>2 DEF LastRunOK, HasStarted, IsRunning, IsFinished, Runs
      <4> QED  BY <1>1, <3>1, <3>2, <4>2, <4>3 DEF EventOK, ClientOK, HasStarted
    <3> QED  BY <1>1, <3>1, <3>3 DEF EventInv, LastOK, HistoryOK, GapsOf
  <2>3. CASE FailToQueue(o)
    <3>1. work' = work /\ client'[o] = "notStarted" /\ client[o] = "queue"
      BY <2>3 DEF FailToQueue, PoolInv, Types, Goto
    <3>2. Last(o) = "none" /\ Last(o)' = "none"  BY <1>1, <1>3, <3>1 DEF Last
    <3> QED  BY <1>1, <3>1, <3>2 DEF EventInv, LastOK, LastRunOK, EventOK, ClientOK, HistoryOK,
                          HasStarted, IsRunning, IsFinished, GapsOf
  <2> QED  BY <2>1, <2>2, <2>3 DEF StartThread
<1> QED  BY <1>1, <1>2, <1>4, AllSameKeeps DEF EventInv, HistoryTypes

\* A run that has not signalled is the last; one that has changes nothing.
LEMMA RunEvent ==
  ASSUME PoolInv, EventInv, NEW o \in Objs, NEW r \in Runs, ThreadProc(o, r) \/ FailProc(o, r)
  PROVE  EventInv'
<1>1. UNCHANGED <<started, client, hasty, under>>
  BY DEF ThreadProc, BeginRun, EndRun, SignalDone, ReleaseRun, ExitRun, FailProc, history
<1>2. \A u \in Objs \ {o} : AllSame(u)
  BY <1>1 DEF ThreadProc, BeginRun, EndRun, SignalDone, ReleaseRun, ExitRun, FailProc, Advance,
              Release, PoolInv, Types, Same, AllSame
<1> DEFINE Becomes(to) ==
        /\ work[o][r] # "none"
        /\ \A q \in Runs : work'[o][q] = IF q = r THEN to ELSE work[o][q]
        /\ \/ work[o][r] = "queued" /\ to = "running" /\ mDoneEvent' = mDoneEvent
              /\ mThreadState'[o] = "Running"
           \/ work[o][r] = "running" /\ to = "finished" /\ mDoneEvent' = mDoneEvent
              /\ mThreadState'[o] = "Finished"
           \/ work[o][r] = "finished" /\ to = "signalled" /\ mThreadState' = mThreadState
           \/ work[o][r] \in {"signalled", "leaving"} /\ to \in Signalled
              /\ UNCHANGED <<mThreadState, mDoneEvent>>
           \/ work[o][r] = "queued" /\ to = "exited" /\ UNCHANGED <<mThreadState, mDoneEvent>>
<1>3. PICK to \in WorkStates \ {"none"} : Becomes(to)
  <2>1. CASE BeginRun(o, r)
    <3>1. Becomes("running")  BY <2>1 DEF BeginRun, Advance, PoolInv, Types
    <3> QED  BY <3>1 DEF WorkStates
  <2>2. CASE EndRun(o, r)
    <3>1. Becomes("finished")  BY <2>2 DEF EndRun, Advance, PoolInv, Types
    <3> QED  BY <3>1 DEF WorkStates
  <2>3. CASE SignalDone(o, r)
    <3>1. Becomes("signalled")  BY <2>3 DEF SignalDone, Advance, PoolInv, Types
    <3> QED  BY <3>1 DEF WorkStates
  <2>4. CASE ReleaseRun(o, r)
    <3>1. Becomes("leaving")  BY <2>4 DEF ReleaseRun, Advance, PoolInv, Types, Signalled
    <3> QED  BY <3>1 DEF WorkStates
  <2>5. CASE ExitRun(o, r) \/ FailProc(o, r)
    <3>1. Becomes("exited")  BY <2>5 DEF ExitRun, FailProc, Advance, PoolInv, Types, Signalled
    <3> QED  BY <3>1 DEF WorkStates
  <2> QED  BY <2>1, <2>2, <2>3, <2>4, <2>5 DEF ThreadProc
<1>4. r <= started[o] /\ started[o] \in Runs /\ started[o] # 0
  BY <1>3, LastInRuns DEF PoolInv, ObjOK, RunsOK, Runs
<1>5. ASSUME ~hasty[o] PROVE LastRunOK(o)' /\ EventOK(o)' /\ ClientOK(o)'
  <2>1. LastRunOK(o) /\ EventOK(o) /\ ClientOK(o)  BY <1>5 DEF EventInv, LastOK
  <2>2. Last(o) = work[o][started[o]] /\ Last(o)' = work'[o][started[o]]
    BY <1>1, <1>4 DEF Last
  <2>3. CASE r = started[o]
    <3>1. Last(o) = work[o][r] /\ Last(o)' = to  BY <1>3, <2>2, <2>3
    <3>2. client[o] \notin {"new", "reset", "queue"}
      BY <1>3, <2>1, <3>1 DEF EventOK
    <3>3. \A q \in Runs : q < started[o] => work'[o][q] \in Signalled
      BY <1>3, <2>1, <2>3 DEF LastRunOK, Runs
    <3>4. LastRunOK(o)'
      <4>1. mThreadState[o] \in {"Constructed", "Running", "Finished"}  BY DEF PoolInv, Types
      <4>2. /\ mThreadState[o] = "Constructed" => work[o][r] \in {"none", "queued", "exited"}
            /\ mThreadState[o] = "Running" => work[o][r] = "running"
            /\ mThreadState[o] = "Finished" => work[o][r] \in {"finished"} \cup Signalled
        BY <2>1, <3>1 DEF LastRunOK, HasStarted, IsRunning, IsFinished
      <4>3. /\ mThreadState'[o] = "Constructed" => to \in {"none", "queued", "exited"}
            /\ mThreadState'[o] = "Running" => to = "running"
            /\ mThreadState'[o] = "Finished" => to \in {"finished"} \cup Signalled
        <5>1. \/ to = "running" /\ mThreadState'[o] = "Running"
              \/ to = "finished" /\ mThreadState'[o] = "Finished"
              \/ work[o][r] = "finished" /\ to = "signalled" /\ mThreadState'[o] = mThreadState[o]
              \/ work[o][r] \in {"signalled", "leaving"} /\ to \in Signalled
                   /\ mThreadState'[o] = mThreadState[o]
              \/ work[o][r] = "queued" /\ to = "exited" /\ mThreadState'[o] = mThreadState[o]
          BY <1>3
        <5> QED  BY <4>1, <4>2, <5>1 DEF Signalled
      <4> QED  BY <1>1, <3>1, <3>3, <4>3 DEF LastRunOK, HasStarted, IsRunning, IsFinished
    <3>5. EventOK(o)' /\ ClientOK(o)'
      BY <1>1, <1>3, <2>1, <3>1, <3>2 DEF EventOK, ClientOK, Signalled, HasStarted
    <3> QED  BY <3>4, <3>5
  <2>4. CASE r # started[o]
    <3>1. r < started[o]  BY <1>4, <2>4, LastInRuns DEF Runs
    <3>2. work[o][r] \in Signalled  BY <2>1, <3>1 DEF LastRunOK
    <3>3. to \in Signalled /\ UNCHANGED <<mThreadState, mDoneEvent>>
      BY <1>3, <3>2 DEF Signalled
    <3>4. Last(o)' = Last(o)  BY <1>3, <1>4, <2>2, <2>4
    <3> QED  BY <1>1, <1>3, <2>1, <3>3, <3>4
             DEF LastRunOK, EventOK, ClientOK, HasStarted, IsRunning, IsFinished
  <2> QED  BY <2>3, <2>4
<1>6. LastOK(o)'  BY <1>1, <1>5 DEF EventInv, LastOK, HistoryOK, GapsOf
<1> QED  BY <1>1, <1>2, <1>6, AllSameKeeps DEF EventInv, HistoryTypes

\* The event ends a wait only when the last run has set it.
LEMMA TakeSignalEvent ==
  ASSUME PoolInv, EventInv, NEW o \in Objs, TakeSignal(o)
  PROVE  EventInv'
<1>1. /\ UNCHANGED <<mThreadState, work, started, hasty, under>>
      /\ client[o] = "wait" /\ mDoneEvent[o] /\ mDoneEvent'[o] = FALSE
      /\ client'[o] = IF HasStarted(o) \/ KindOf[o] = "shared" THEN "waited" ELSE "wait"
  BY DEF TakeSignal, PoolInv, Types, Goto, history
<1>2. \A u \in Objs \ {o} : AllSame(u)
  BY <1>1 DEF TakeSignal, PoolInv, Types, Goto, Same, AllSame
<1>3. ASSUME ~hasty[o] PROVE LastRunOK(o)' /\ EventOK(o)' /\ ClientOK(o)'
  <2>1. LastRunOK(o) /\ EventOK(o) /\ ClientOK(o)  BY <1>3 DEF EventInv, LastOK
  <2>2. Last(o)' = Last(o)  BY <1>1 DEF Last
  <2>3. client'[o] = "waited" => Last(o) \in Signalled
    <3>1. Last(o) \in Signalled \cup {"none"}  BY <1>1, <2>1 DEF EventOK
    <3>2. HasStarted(o) => Last(o) # "none"
      BY <2>1 DEF LastRunOK, HasStarted, IsRunning, IsFinished, PoolInv, Types, Signalled
    <3>3. KindOf[o] = "shared" => Last(o) # "none"  BY <1>1, <2>1 DEF ClientOK
    <3> QED  BY <1>1, <3>1, <3>2, <3>3
  <2> QED  BY <1>1, <2>1, <2>2, <2>3
           DEF LastRunOK, EventOK, ClientOK, HasStarted, IsRunning, IsFinished
<1>4. LastOK(o)'  BY <1>1, <1>3 DEF EventInv, LastOK, HistoryOK, GapsOf
<1> QED  BY <1>1, <1>2, <1>4, AllSameKeeps DEF EventInv, HistoryTypes

LEMMA MoveEvent ==
  ASSUME PoolInv, EventInv, NEW o \in Objs, NEW to, Moves(o, to)
  PROVE  EventInv'
<1>1. /\ UNCHANGED <<mThreadState, mDoneEvent, work, started, hasty, under>>
      /\ client'[o] = to /\ to \notin {"new", "reset", "queue", "started", "waited"}
      /\ client[o] \notin {"new", "reset", "queue", "gone"}
  BY DEF Moves, PoolInv, Types, Goto, history
<1>2. \A u \in Objs \ {o} : AllSame(u)
  BY <1>1 DEF Moves, PoolInv, Types, Goto, Same, AllSame
<1>3. ASSUME ~hasty[o] PROVE LastRunOK(o)' /\ EventOK(o)' /\ ClientOK(o)'
  <2>1. LastRunOK(o) /\ EventOK(o) /\ ClientOK(o)  BY <1>3 DEF EventInv, LastOK
  <2>2. Last(o)' = Last(o) /\ HasStarted(o)' = HasStarted(o) /\ IsRunning(o)' = IsRunning(o)
        /\ IsFinished(o)' = IsFinished(o)
    BY <1>1 DEF Last, HasStarted, IsRunning, IsFinished
  <2>3. KindOf[o] = "loader" /\ to \in {"idle", "wait", "timedOut"} => HasStarted(o)
    BY <2>1 DEF Moves, ClientOK
  <2>4. KindOf[o] = "shared" /\ to \in {"wait", "timedOut"} => Last(o) # "none"
    BY <2>1 DEF Moves, ClientOK
  <2> QED  BY <1>1, <2>1, <2>2, <2>3, <2>4 DEF LastRunOK, EventOK, ClientOK
<1>4. HistoryOK(o)'
  BY <1>1 DEF EventInv, LastOK, HistoryOK, GapsOf
<1>5. LastOK(o)'  BY <1>1, <1>3, <1>4 DEF LastOK
<1> QED  BY <1>1, <1>2, <1>5, AllSameKeeps DEF EventInv, HistoryTypes

\* What an owner deletes its object under.
LEMMA DestroyEvent ==
  ASSUME PoolInv, EventInv, NEW o \in Objs, Destroys(o)
  PROVE  EventInv'
<1>1. /\ UNCHANGED <<mThreadState, mDoneEvent, work, started>>
      /\ client'[o] = "gone" /\ client[o] \notin {"new", "reset", "queue", "gone"}
      /\ under' = [under EXCEPT ![o] = Unsignalled(o)]
      /\ hasty' = [hasty EXCEPT ![o] = @ \/ client[o] = "timedOut"]
  BY DEF Destroys, PoolInv, Types, Goto
<1>2. HistoryTypes' /\ under'[o] = Unsignalled(o) /\ hasty'[o] = (hasty[o] \/ client[o] = "timedOut")
  <2>1. (hasty[o] \/ client[o] = "timedOut") \in BOOLEAN  OBVIOUS
  <2>2. Unsignalled(o) \in SUBSET WorkStates  BY DEF Unsignalled, WorkStates
  <2> QED  BY <1>1, <2>1, <2>2 DEF EventInv, HistoryTypes
<1>3. \A u \in Objs \ {o} : AllSame(u)
  BY <1>1 DEF Destroys, Delete, PoolInv, Types, EventInv, HistoryTypes, Goto, Same, AllSame
<1>4. Unsignalled(o) \subseteq {"queued", "running", "finished"}  BY DEF Unsignalled
<1>5. Unsignalled(o) \subseteq GapsOf(o)'
  <2>1. ASSUME KindOf[o] = "stack" PROVE Unsignalled(o) = {}
    <3>1. work[o][1] \in Signalled  BY <2>1 DEF Destroys, PoolInv, ObjOK, WaitOK
    <3>2. \A r \in Runs : r # 1 => work[o][r] = "none"
      BY <2>1 DEF PoolInv, ObjOK, OnceOK, RunsOK, Runs
    <3> QED  BY <3>1, <3>2 DEF Unsignalled, Signalled
  <2>2. ASSUME ~hasty[o] PROVE Unsignalled(o) \subseteq {Last(o)} /\ LastRunOK(o) /\ ClientOK(o)
    BY <2>2, OnlyLastUnsignalled DEF EventInv, LastOK
  <2>3. KindOf[o] # "loader" => ~hasty[o]  BY <1>1 DEF EventInv, LastOK, HistoryOK
  <2>4. CASE KindOf[o] = "stack"  BY <2>1, <2>4
  <2>5. CASE KindOf[o] = "window"
    <3>1. Last(o) # "running"
      BY <2>2, <2>3, <2>5 DEF Destroys, LastRunOK, HasStarted, IsRunning, IsFinished, PoolInv,
                              Types, Signalled
    <3> QED  BY <1>4, <2>2, <2>3, <2>5, <3>1 DEF GapsOf
  <2>6. CASE KindOf[o] = "highlighter"
    <3>1. Last(o) \in {"finished"} \cup Signalled  BY <2>2, <2>3, <2>6 DEF Destroys, LastRunOK
    <3> QED  BY <1>4, <2>2, <2>3, <2>6, <3>1 DEF GapsOf, Signalled
  <2>7. CASE KindOf[o] = "loader" /\ hasty'[o]  BY <1>4, <2>7 DEF GapsOf
  <2>8. CASE KindOf[o] = "loader" /\ ~hasty'[o]
    <3>1. ~hasty[o] /\ client[o] # "timedOut"  BY <1>2, <2>8
    <3>2. (client[o] = "idle" /\ ~IsRunning(o)) \/ client[o] = "waited"
      BY <2>8, <3>1 DEF Destroys
    <3>3. Last(o) \in {"finished"} \cup Signalled
      BY <2>2, <2>8, <3>1, <3>2 DEF LastRunOK, ClientOK, HasStarted, IsRunning, IsFinished,
                                    PoolInv, Types
    <3> QED  BY <1>4, <2>2, <2>8, <3>1, <3>3 DEF GapsOf, Signalled
  <2> QED  BY <2>4, <2>5, <2>6, <2>7, <2>8 DEF Destroys
<1>6. ASSUME ~hasty'[o] PROVE LastRunOK(o)' /\ EventOK(o)' /\ ClientOK(o)'
  <2>1. ~hasty[o]  BY <1>2, <1>6
  <2>2. LastRunOK(o) /\ EventOK(o)  BY <2>1 DEF EventInv, LastOK
  <2> QED  BY <1>1, <2>2 DEF LastRunOK, EventOK, ClientOK, Last, HasStarted, IsRunning, IsFinished
<1>7. LastOK(o)'  BY <1>1, <1>2, <1>5, <1>6 DEF LastOK, HistoryOK
<1> QED  BY <1>2, <1>3, <1>7, AllSameKeeps DEF EventInv

LEMMA ClientReleaseEvent ==
  ASSUME PoolInv, EventInv, NEW o \in Objs, ClientReleases(o)
  PROVE  EventInv'
<1>1. /\ UNCHANGED <<mThreadState, mDoneEvent, work, started, hasty, under>>
      /\ client'[o] = "gone" /\ client[o] = "release"
      /\ \A u \in Objs \ {o} : AllSame(u)
  BY DEF ClientReleases, Release, PoolInv, Types, Goto, history, Same, AllSame
<1>2. LastOK(o)'
  BY <1>1 DEF EventInv, LastOK, LastRunOK, EventOK, ClientOK, HistoryOK, Last, HasStarted,
              IsRunning, IsFinished, GapsOf
<1> QED  BY <1>1, <1>2, AllSameKeeps DEF EventInv, HistoryTypes

THEOREM EventInvariant == Spec => []EventInv
<1>1. PoolInv /\ PoolInv' /\ EventInv /\ [Next]_vars => EventInv'
  <2> SUFFICES ASSUME PoolInv, PoolInv', EventInv, [Next]_vars PROVE EventInv'  OBVIOUS
  <2>1. ASSUME NEW o \in Objs, Client(o) PROVE EventInv'
    BY <2>1, ClientSteps, BeginStartEvent, StartThreadEvent, TakeSignalEvent, MoveEvent,
       DestroyEvent, ClientReleaseEvent
  <2>2. ASSUME NEW o \in Objs, NEW r \in Runs, ThreadProc(o, r) \/ FailProc(o, r) PROVE EventInv'
    BY <2>2, RunEvent
  <2>3. CASE UNCHANGED vars
    <3>1. HistoryTypes' /\ \A o \in Objs : AllSame(o)
      BY <2>3 DEF vars, history, EventInv, HistoryTypes, AllSame, Same
    <3> QED  BY <3>1, AllSameKeeps DEF EventInv
  <2> QED  BY <2>1, <2>2, <2>3 DEF Next
<1> QED  BY <1>1, EventInvInit, PoolInvariant, PTL DEF Spec

-----------------------------------------------------------------------------
(* What follows.                                                           *)

\* The types: no reference count and no count of threads falls below zero.
THEOREM Typing == Spec => []TypeOK
<1>1. PoolInv /\ EventInv => TypeOK
  <2> SUFFICES ASSUME PoolInv, EventInv PROVE TypeOK  OBVIOUS
  <2>1. \A o \in Objs : mRefCnt[o] \in Nat
    <3> SUFFICES ASSUME NEW o \in Objs PROVE mRefCnt[o] \in Nat  OBVIOUS
    <3>1. mRefCnt[o] \in Int /\ Holders(o) \in Nat  BY DEF PoolInv, Types, Holders
    <3> QED  BY <3>1 DEF PoolInv, ObjOK, CountOK
  <2>2. mRefCnt \in [Objs -> Nat]  BY <2>1 DEF PoolInv, Types
  <2>3. gActivePooledThreadCount \in Nat
    BY FiniteSets DEF PoolInv, ActiveCountIsExact
  <2> QED  BY <2>2, <2>3 DEF PoolInv, EventInv, HistoryTypes, Types, TypeOK
<1> QED  BY <1>1, PoolInvariant, EventInvariant, PTL

\* gActivePooledThreadCount, which shutdown waits for, counts the runs that have
\* code to execute and those that are being started, whatever fails.
THEOREM ActiveCount == Spec => []ActiveCountIsExact
<1>1. PoolInv => ActiveCountIsExact  BY DEF PoolInv
<1> QED  BY <1>1, PoolInvariant, PTL

\* Wait comes back for the run that was started (the reset of the event before a
\* run is queued, TakeSignal's loop), whatever the kind of the client.
THEOREM WaitsForTheRun == Spec => []WaitedForTheRun
<1>1. PoolInv /\ EventInv => WaitedForTheRun
  <2> SUFFICES ASSUME PoolInv, EventInv, NEW o \in Objs, client[o] = "waited", ~hasty[o]
               PROVE  Unsignalled(o) = {}
    BY DEF WaitedForTheRun
  <2>1. LastRunOK(o) /\ Last(o) \in Signalled  BY DEF EventInv, LastOK, ClientOK
  <2>2. Unsignalled(o) \subseteq {Last(o)}  BY <2>1, OnlyLastUnsignalled
  <2> QED  BY <2>1, <2>2 DEF Unsignalled, Signalled
<1> QED  BY <1>1, PoolInvariant, EventInvariant, PTL

\* In an object that is started once only the first run can be there.
LEMMA OtherRunsDoNotUse ==
  ASSUME PoolInv, NEW o \in Objs, KindOf[o] # "loader", NEW r \in Runs \ {1}
  PROVE  ~Uses(o, r)
<1>1. r > started[o]  BY DEF PoolInv, ObjOK, OnceOK, Runs
<1> QED  BY <1>1 DEF PoolInv, ObjOK, RunsOK, Uses

\* An object that counts its references, or is on the stack, is not deleted while a
\* run is going to use it; the other owners leave the gaps of GapsOf and no others.
THEOREM OutlivesItsRun == Spec => []NoUseAfterDelete
<1>1. PoolInv /\ EventInv => NoUseAfterDelete
  <2> SUFFICES ASSUME PoolInv, NEW o \in Objs, KindOf[o] \in {"detached", "shared", "stack"},
                      ~alive[o], NEW r \in Runs
               PROVE  ~Uses(o, r)
    BY DEF NoUseAfterDelete, OutlivesRun, EventInv, LastOK, HistoryOK
  <2>1. ~Uses(o, 1)
    <3>1. CASE KindOf[o] = "stack"
      BY <3>1 DEF PoolInv, ObjOK, WaitOK, Signalled, Uses, mAutoDelete
    <3>2. CASE KindOf[o] # "stack"
      <4>1. mRefCnt[o] \in Int /\ mRefCnt[o] >= Holders(o) /\ ~(mRefCnt[o] > 0)
        BY <3>2 DEF PoolInv, Types, ObjOK, CountOK, mAutoDelete
      <4> QED  BY <4>1 DEF Holders
    <3> QED  BY <3>1, <3>2
  <2> QED  BY <2>1, OtherRunsDoNotUse
<1> QED  BY <1>1, PoolInvariant, EventInvariant, PTL

\* A reference count is the number of its holders, when no run of such an object
\* ends at its first catch.
THEOREM RefCounts ==
  ASSUME \A o \in ProcFails : KindOf[o] # "shared"
  PROVE  Spec => []RefCountIsHolders
<1>1. PoolInv => RefCountIsHolders
  <2> SUFFICES ASSUME PoolInv, NEW o \in Objs, KindOf[o] = "shared"
               PROVE  LET holders == Cardinality({r \in Runs : Uses(o, r)})
                                     + (IF client[o] # "gone" THEN 1 ELSE 0)
                      IN mRefCnt[o] = holders /\ (alive[o] <=> holders > 0)
    BY DEF RefCountIsHolders
  <2> DEFINE using == {r \in Runs : Uses(o, r)}
  <2>1. using = IF Uses(o, 1) THEN {1} ELSE {}
    BY OtherRunsDoNotUse, RunOne
  <2>2. Cardinality(using) = IF Uses(o, 1) THEN 1 ELSE 0
    BY <2>1, FS_EmptySet, FS_Singleton
  <2> HIDE DEF using
  <2>3. /\ o \notin ProcFails /\ mAutoDelete(o)
        /\ mRefCnt[o] = Holders(o) /\ (alive[o] <=> mRefCnt[o] > 0)
    BY DEF PoolInv, ObjOK, CountOK, mAutoDelete
  <2>4. Holders(o) = Cardinality(using) + (IF client[o] # "gone" THEN 1 ELSE 0)
    BY <2>2 DEF Holders
  <2> QED  BY <2>3, <2>4 DEF using
<1> QED  BY <1>1, PoolInvariant, PTL
=============================================================================
