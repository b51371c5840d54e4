------------------------------- MODULE RWLock -------------------------------
(***************************************************************************)
(* class RWLock (DBLock.h, DBLock.cpp), the lock of the in-memory symbol   *)
(* database.  Two critical sections and two atomic counters; each step     *)
(* below is one access to one of them.  A counter is kept as the function  *)
(* of what each thread has added to it: mActiveReaders is zero when every  *)
(* thread's share is.                                                      *)
(***************************************************************************)
EXTENDS Integers, FiniteSets

CONSTANTS
  Threads,
  MainThread,    \* g_mainThread
  NoThread,      \* a free critical section
  Refactorings,  \* whether RefactoringActive objects exist
  MaxDepth,      \* bound on nested accesses of a thread
  MaxOps         \* bound on the accesses of a thread

ASSUME ThreadAssumption ==
  MainThread \in Threads /\ NoThread \notin Threads /\ Refactorings \in BOOLEAN
  /\ MaxDepth \in Nat /\ MaxOps \in Nat

VARIABLES
  reads,       \* shares in mActiveReaders
  writes,      \* shares in mActiveWriters
  countsLock,  \* owner of mCountsLock
  writerHold,  \* how often each thread has entered mWriterLock (re-entrant)
  pc,          \* where each thread is; "out" when not inside a call
  refactoring, \* RefactoringActive::IsActive()
  allowance,   \* refactoringAllowance of the last StartWriting
  ops          \* accesses begun, for the bound

vars == <<reads, writes, countsLock, writerHold, pc, refactoring, allowance, ops>>

ReadStates == {"rLock", "rTest", "rWait", "rPass", "rCount", "rAssert"}
WriteStates == {"wLock", "wLoop", "wTest", "wCount", "wAssert", "wUnlock"}

TypeOK ==
  /\ reads \in [Threads -> Nat] /\ writes \in [Threads -> Nat]
  /\ countsLock \in Threads \cup {NoThread}
  /\ writerHold \in [Threads -> Nat]
  /\ pc \in [Threads -> {"out"} \cup ReadStates \cup WriteStates]
  /\ refactoring \in BOOLEAN
  /\ allowance \in [Threads -> BOOLEAN]
  /\ ops \in [Threads -> Nat]

Init ==
  /\ reads = [t \in Threads |-> 0] /\ writes = [t \in Threads |-> 0]
  /\ countsLock = NoThread /\ writerHold = [t \in Threads |-> 0]
  /\ pc = [t \in Threads |-> "out"]
  /\ refactoring = FALSE /\ allowance = [t \in Threads |-> FALSE]
  /\ ops = [t \in Threads |-> 0]

ActiveReaders == \E t \in Threads : reads[t] > 0
ActiveWriters == \E t \in Threads : writes[t] > 0

Goto(t, from, to) == pc[t] = from /\ pc' = [pc EXCEPT ![t] = to]

Begin(t, to) ==
  /\ reads[t] + writes[t] < MaxDepth /\ ops[t] < MaxOps
  /\ ops' = [ops EXCEPT ![t] = @ + 1]
  /\ Goto(t, "out", to)
  /\ UNCHANGED <<reads, writes, countsLock, writerHold, refactoring, allowance>>

LockCounts(t, from, to) ==
  /\ Goto(t, from, to)
  /\ countsLock = NoThread /\ countsLock' = t
  /\ UNCHANGED <<reads, writes, writerHold, refactoring, allowance, ops>>

\* Mutant: mWriterLock.Lock() that does not wait for the owner.
LockWriter_noWait(t, from, to) ==
  /\ Goto(t, from, to)
  /\ writerHold' = [writerHold EXCEPT ![t] = @ + 1]
  /\ UNCHANGED <<reads, writes, countsLock, refactoring, allowance, ops>>

\* mWriterLock.Lock(): a Windows critical section, re-entrant.
LockWriter(t, from, to) ==
  /\ Goto(t, from, to)
  /\ \A u \in Threads \ {t} : writerHold[u] = 0
  /\ writerHold' = [writerHold EXCEPT ![t] = @ + 1]
  /\ UNCHANGED <<reads, writes, countsLock, refactoring, allowance, ops>>

UnlockWriter(t, from, to) ==
  /\ Goto(t, from, to)
  /\ writerHold' = [writerHold EXCEPT ![t] = @ - 1]
  /\ UNCHANGED <<reads, writes, countsLock, refactoring, allowance, ops>>

-----------------------------------------------------------------------------
(* Reading.                                                                *)

\* "do not lock for reading if already owned for writing"
StartReading(t) == writes[t] = 0 /\ Begin(t, "rLock")

TestWriters(t) ==
  /\ IF ActiveWriters
     THEN Goto(t, "rTest", "rWait") /\ countsLock' = NoThread
     ELSE Goto(t, "rTest", "rCount") /\ UNCHANGED countsLock
  /\ UNCHANGED <<reads, writes, writerHold, refactoring, allowance, ops>>

CountReader(t) ==
  /\ Goto(t, "rCount", "rAssert")
  /\ reads' = [reads EXCEPT ![t] = @ + 1] /\ countsLock' = NoThread
  /\ UNCHANGED <<writes, writerHold, refactoring, allowance, ops>>

\* _ASSERTE(!mActiveWriters), after mCountsLock has been released.
AssertNoWriter(t) ==
  /\ Goto(t, "rAssert", "out")
  /\ UNCHANGED <<reads, writes, countsLock, writerHold, refactoring, allowance, ops>>

StopReading(t) ==
  /\ pc[t] = "out" /\ reads[t] > 0
  /\ reads' = [reads EXCEPT ![t] = @ - 1]
  /\ UNCHANGED <<writes, countsLock, writerHold, pc, refactoring, allowance, ops>>

Read(t) ==
  \/ LockCounts(t, "rLock", "rTest") \/ TestWriters(t)
  \/ LockWriter(t, "rWait", "rPass") \/ UnlockWriter(t, "rPass", "rLock")
  \/ CountReader(t) \/ AssertNoWriter(t) \/ StopReading(t)

-----------------------------------------------------------------------------
(* Writing.                                                                *)

\* A thread that reads does not ask to write: it would wait for itself.  The
\* main thread may while a refactoring is active.
StartWriting(t) ==
  /\ reads[t] = 0 \/ (t = MainThread /\ refactoring)
  /\ Begin(t, "wLock")

\* Mutant: the thread is not compared with g_mainThread.
MayOverlap_anyThread(t) == refactoring /\ t \in Threads

MayOverlap(t) == refactoring /\ t = MainThread

TestReaders(t) ==
  /\ IF ActiveReaders /\ ~MayOverlap(t)
     THEN Goto(t, "wTest", "wLoop") /\ countsLock' = NoThread /\ UNCHANGED allowance
     ELSE Goto(t, "wTest", "wCount") /\ UNCHANGED countsLock
          /\ allowance' = [allowance EXCEPT ![t] = ActiveReaders]
  /\ UNCHANGED <<reads, writes, writerHold, refactoring, ops>>

CountWriter(t) ==
  /\ Goto(t, "wCount", "wAssert")
  /\ writes' = [writes EXCEPT ![t] = @ + 1] /\ countsLock' = NoThread
  /\ UNCHANGED <<reads, writerHold, refactoring, allowance, ops>>

\* _ASSERTE(!mActiveReaders || refactoringAllowance)
AssertNoReader(t) ==
  /\ Goto(t, "wAssert", "out")
  /\ UNCHANGED <<reads, writes, countsLock, writerHold, refactoring, allowance, ops>>

\* Mutant: mWriterLock is not released.
StopWriting_keep(t) ==
  /\ writes[t] > 0 /\ pc[t] = "out"
  /\ writes' = [writes EXCEPT ![t] = @ - 1]
  /\ UNCHANGED <<reads, countsLock, writerHold, pc, refactoring, allowance, ops>>

\* StopWriting: the count first, mWriterLock second.
StopWriting(t) ==
  /\ writes[t] > 0 /\ Goto(t, "out", "wUnlock")
  /\ writes' = [writes EXCEPT ![t] = @ - 1]
  /\ UNCHANGED <<reads, countsLock, writerHold, refactoring, allowance, ops>>

Write(t) ==
  \/ LockWriter(t, "wLock", "wLoop") \/ LockCounts(t, "wLoop", "wTest")
  \/ TestReaders(t) \/ CountWriter(t) \/ AssertNoReader(t) \/ StopWriting(t)
  \/ UnlockWriter(t, "wUnlock", "out")

\* A RefactoringActive object comes or goes, on any thread.
ToggleRefactoring ==
  /\ Refactorings /\ refactoring' = ~refactoring
  /\ UNCHANGED <<reads, writes, countsLock, writerHold, pc, allowance, ops>>

Next ==
  \/ \E t \in Threads : StartReading(t) \/ Read(t) \/ StartWriting(t) \/ Write(t)
  \/ ToggleRefactoring

Spec == Init /\ [][Next]_vars

\* Every thread is scheduled, finishes its calls and gives up what it holds; a
\* critical section is handed to each thread that waits for it.
EntersLock(t) ==
  \/ LockCounts(t, "rLock", "rTest") \/ LockCounts(t, "wLoop", "wTest")
  \/ LockWriter(t, "rWait", "rPass") \/ LockWriter(t, "wLock", "wLoop")
Fairness ==
  \A t \in Threads : WF_vars(Read(t) \/ Write(t)) /\ SF_vars(EntersLock(t))
FairSpec == Spec /\ Fairness

-----------------------------------------------------------------------------
(* Properties.                                                             *)

\* "Allows a single writer to be active exclusively": no other thread has any
\* access while one writes.
WriterExclusive ==
  \A t \in Threads : writes[t] > 0 =>
    \A u \in Threads \ {t} : reads[u] = 0 /\ writes[u] = 0

\* Two threads never write, and only the main thread, with the refactoring
\* allowance, writes beside a reader.
OverlapOnlyWithAllowance ==
  \A t \in Threads : writes[t] > 0 =>
    \A u \in Threads \ {t} :
      writes[u] = 0 /\ (reads[u] > 0 => t = MainThread /\ allowance[t])

\* "StartReading while write is active": "This is NOT possible!"
NoWriterAtReaderAssert ==
  \A t \in Threads : pc[t] = "rAssert" => ~ActiveWriters

\* _ASSERTE(!mActiveReaders || refactoringAllowance): "This is NOT possible!"
NoReaderAtWriterAssert ==
  \A t \in Threads : pc[t] = "wAssert" => ~ActiveReaders \/ allowance[t]

\* With finite traffic every request is granted: readers and writers neither
\* deadlock nor keep each other spinning for ever.
RequestsGranted ==
  \A t \in Threads : pc[t] # "out" ~> pc[t] = "out"

\* The lock does what ReadersWriters says, as long as no refactoring is active.
Abstract == INSTANCE ReadersWriters
Implements == Abstract!Spec
=============================================================================
