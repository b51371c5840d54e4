----------------------------- MODULE RWLockLite -----------------------------
(***************************************************************************)
(* class RWLockLite (DBLock.h), the lock of the file id maps.  Unlike      *)
(* RWLock, a writer keeps mCountsLock while it waits, so that no reader    *)
(* starts, and only the number of writers tells who writes: a writer that  *)
(* finds itself the second one takes its count back and tries again.       *)
(* Each step is one access to the critical section or to a counter; a      *)
(* counter is kept as the function of what each thread has added to it.    *)
(***************************************************************************)
EXTENDS Integers, FiniteSets

CONSTANTS
  Threads,
  NoThread,  \* mActiveWriter = 0, and a free critical section
  MaxDepth,  \* bound on nested accesses of a thread
  MaxOps     \* bound on the accesses of a thread

ASSUME ThreadAssumption ==
  NoThread \notin Threads /\ MaxDepth \in Nat /\ MaxOps \in Nat

VARIABLES
  reads,         \* shares in mActiveReaders
  writes,        \* shares in mActiveWriters
  mActiveWriter,
  countsLock,    \* owner of mCountsLock
  pc,            \* where each thread is; "out" when not inside a call
  ops            \* accesses begun, for the bound

vars == <<reads, writes, mActiveWriter, countsLock, pc, ops>>

Owning == {"rTest", "rCount", "wTest", "wCount", "wRead", "wUndo", "wUnlock", "sClear"}
PcStates == Owning \cup {"out", "rLock", "rAssert", "wLock", "wAssert", "sTest", "sLock"}

TypeOK ==
  /\ reads \in [Threads -> Nat] /\ writes \in [Threads -> Nat]
  /\ mActiveWriter \in Threads \cup {NoThread}
  /\ countsLock \in Threads \cup {NoThread}
  /\ pc \in [Threads -> PcStates]
  /\ ops \in [Threads -> Nat]

Init ==
  /\ reads = [t \in Threads |-> 0] /\ writes = [t \in Threads |-> 0]
  /\ mActiveWriter = NoThread /\ countsLock = NoThread
  /\ pc = [t \in Threads |-> "out"] /\ ops = [t \in Threads |-> 0]

ActiveReaders == \E t \in Threads : reads[t] > 0
ActiveWriters == \E t \in Threads : writes[t] > 0
\* mActiveWriters is one, and t is that one.
SoleWriter(t) == writes[t] = 1 /\ \A u \in Threads \ {t} : writes[u] = 0

Goto(t, from, to) == pc[t] = from /\ pc' = [pc EXCEPT ![t] = to]

Begin(t, to) ==
  /\ reads[t] + writes[t] < MaxDepth /\ ops[t] < MaxOps
  /\ ops' = [ops EXCEPT ![t] = @ + 1]
  /\ Goto(t, "out", to)
  /\ UNCHANGED <<reads, writes, mActiveWriter, countsLock>>

LockCounts(t, from, to) ==
  /\ Goto(t, from, to)
  /\ countsLock = NoThread /\ countsLock' = t
  /\ UNCHANGED <<reads, writes, mActiveWriter, ops>>

\* Mutant: mCountsLock is not released.
UnlockCounts_keep(t, from, to) ==
  /\ Goto(t, from, to)
  /\ UNCHANGED <<reads, writes, mActiveWriter, countsLock, ops>>

UnlockCounts(t, from, to) ==
  /\ Goto(t, from, to) /\ countsLock' = NoThread
  /\ UNCHANGED <<reads, writes, mActiveWriter, ops>>

-----------------------------------------------------------------------------
(* Reading.  It may be nested in an access of either kind.                 *)

StartReading(t) == Begin(t, "rLock")

\* "re-entrant read while write lock held / this is allowed"
MayRead(t) == ActiveWriters => t = mActiveWriter

TestWriters(t) ==
  \/ /\ MayRead(t) /\ Goto(t, "rTest", "rCount")
     /\ UNCHANGED <<reads, writes, mActiveWriter, countsLock, ops>>
  \/ ~MayRead(t) /\ UnlockCounts(t, "rTest", "rLock")

CountReader(t) ==
  /\ Goto(t, "rCount", "rAssert") /\ countsLock' = NoThread
  /\ reads' = [reads EXCEPT ![t] = @ + 1]
  /\ UNCHANGED <<writes, mActiveWriter, ops>>

AssertNoWriter(t) ==
  /\ Goto(t, "rAssert", "out")
  /\ UNCHANGED <<reads, writes, mActiveWriter, countsLock, ops>>

StopReading(t) ==
  /\ pc[t] = "out" /\ reads[t] > 0
  /\ reads' = [reads EXCEPT ![t] = @ - 1]
  /\ UNCHANGED <<writes, mActiveWriter, countsLock, pc, ops>>

Read(t) ==
  \/ LockCounts(t, "rLock", "rTest") \/ TestWriters(t) \/ CountReader(t)
  \/ AssertNoWriter(t) \/ StopReading(t)

-----------------------------------------------------------------------------
(* Writing.                                                                *)

\* "(but the reverse is not)": a thread that reads does not ask to write.
StartWriting(t) == reads[t] = 0 /\ Begin(t, "wLock")

\* Mutant: the writer does not wait for them.
AwaitReaders_skip(t) ==
  /\ Goto(t, "wTest", "wCount")
  /\ UNCHANGED <<reads, writes, mActiveWriter, countsLock, ops>>

\* "wait for active readers", with mCountsLock held
AwaitReaders(t) ==
  /\ ~ActiveReaders /\ Goto(t, "wTest", "wCount")
  /\ UNCHANGED <<reads, writes, mActiveWriter, countsLock, ops>>

CountWriter(t) ==
  /\ Goto(t, "wCount", "wRead")
  /\ writes' = [writes EXCEPT ![t] = @ + 1]
  /\ UNCHANGED <<reads, mActiveWriter, countsLock, ops>>

\* Mutant: the second writer takes itself for a re-entrant one.
ReadWriters_noUndo(t) ==
  /\ mActiveWriter' = IF SoleWriter(t) THEN t ELSE mActiveWriter
  /\ Goto(t, "wRead", "wUnlock")
  /\ UNCHANGED <<reads, writes, countsLock, ops>>

\* writers = mActiveWriters: we are the active writer, or it is a re-entrant
\* write lock, or there was already a writer.
ReadWriters(t) ==
  /\ \/ /\ SoleWriter(t) /\ mActiveWriter' = t
        /\ Goto(t, "wRead", "wUnlock")
     \/ /\ ~SoleWriter(t) /\ UNCHANGED mActiveWriter
        /\ Goto(t, "wRead", IF t = mActiveWriter THEN "wUnlock" ELSE "wUndo")
  /\ UNCHANGED <<reads, writes, countsLock, ops>>

\* "retry after undoing the count increment", still with mCountsLock held
UndoWriter(t) ==
  /\ Goto(t, "wUndo", "wTest")
  /\ writes' = [writes EXCEPT ![t] = @ - 1]
  /\ UNCHANGED <<reads, mActiveWriter, countsLock, ops>>

AssertNoReader(t) ==
  /\ Goto(t, "wAssert", "out")
  /\ UNCHANGED <<reads, writes, mActiveWriter, countsLock, ops>>

\* The guards are scoped objects: what a thread reads it gives up first.
StopWriting(t) ==
  /\ writes[t] > 0 /\ reads[t] = 0 /\ Goto(t, "out", "sTest")
  /\ writes' = [writes EXCEPT ![t] = @ - 1]
  /\ UNCHANGED <<reads, mActiveWriter, countsLock, ops>>

TestLast(t) ==
  /\ Goto(t, "sTest", IF ActiveWriters THEN "out" ELSE "sLock")
  /\ UNCHANGED <<reads, writes, mActiveWriter, countsLock, ops>>

\* if (mActiveWriter == ::GetCurrentThreadId()) mActiveWriter = 0
ClearWriter(t) ==
  /\ Goto(t, "sClear", "out") /\ countsLock' = NoThread
  /\ mActiveWriter' = IF mActiveWriter = t THEN NoThread ELSE mActiveWriter
  /\ UNCHANGED <<reads, writes, ops>>

Write(t) ==
  \/ LockCounts(t, "wLock", "wTest") \/ AwaitReaders(t) \/ CountWriter(t)
  \/ ReadWriters(t) \/ UndoWriter(t) \/ UnlockCounts(t, "wUnlock", "wAssert")
  \/ AssertNoReader(t) \/ StopWriting(t) \/ TestLast(t)
  \/ LockCounts(t, "sLock", "sClear") \/ ClearWriter(t)

Next ==
  \E t \in Threads : StartReading(t) \/ Read(t) \/ StartWriting(t) \/ Write(t)

Spec == Init /\ [][Next]_vars

\* Every thread is scheduled, finishes its calls and gives up what it holds,
\* and mCountsLock is handed to each thread that waits for it.
EntersLock(t) ==
  \E from \in {"rLock", "wLock", "sLock"}, to \in Owning :
    LockCounts(t, from, to) /\ (Read(t) \/ Write(t))
Fairness ==
  \A t \in Threads : WF_vars(Read(t) \/ Write(t)) /\ SF_vars(EntersLock(t))
FairSpec == Spec /\ Fairness

-----------------------------------------------------------------------------
(* Properties.                                                             *)

\* A thread has write access when it counts in mActiveWriters and is past the
\* point where it may have to take the count back.
Undecided(t) == pc[t] \in {"wRead", "wUndo"}
Granted(t) == IF Undecided(t) THEN writes[t] - 1 ELSE writes[t]

\* While one thread has write access nobody else reads or writes, whatever
\* the order in which counts are made, taken back and given up.
WriterExclusive ==
  \A t \in Threads : Granted(t) > 0 =>
    \A u \in Threads \ {t} : reads[u] = 0 /\ Granted(u) = 0

\* AssertWriterIsThisThread: whoever has write access is mActiveWriter, so that
\* its nested accesses are recognised as its own.
WriterIsNamed ==
  \A t \in Threads : Granted(t) > 0 /\ pc[t] = "out" => mActiveWriter = t

\* "This is NOT possible!", twice: no other writer when a read starts, no
\* reader when a write starts.
AssertionsHold ==
  \A t \in Threads :
    /\ pc[t] = "rAssert" => (ActiveWriters => mActiveWriter = t)
    /\ pc[t] = "wAssert" => ~ActiveReaders

\* A thread that has access asks for more.
NestedRequest == \E t \in Threads : pc[t] \in {"rLock", "wLock"} /\ reads[t] + writes[t] > 0

\* Every access that is asked for is granted, although writers wait with
\* mCountsLock in their hands -- until somebody asks for a nested one.
RequestsGranted == \A t \in Threads : pc[t] # "out" ~> pc[t] = "out" \/ NestedRequest

\* "re-entrant read while write lock held": the thread that writes gets it.
ReentrantReadGranted ==
  \A t \in Threads : pc[t] = "rLock" /\ writes[t] > 0 ~> pc[t] = "out"

\* The lock does what ReadersWriters says.
Abstract == INSTANCE ReadersWriters WITH writes <- [t \in Threads |-> Granted(t)]
Implements == Abstract!Spec
=============================================================================
