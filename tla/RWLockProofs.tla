---------------------------- MODULE RWLockProofs ----------------------------
(***************************************************************************)
(* RWLock keeps writers apart from everyone else, for any number of        *)
(* threads and any nesting.                                                *)
(***************************************************************************)
EXTENDS RWLock, TLAPS

-----------------------------------------------------------------------------
(* The inductive invariant.                                                *)

\* mCountsLock is owned from the test of one counter to the count in the other.
CountsOwned ==
  \A t \in Threads : pc[t] \in {"rTest", "rCount", "wTest", "wCount"} => countsLock = t

\* A thread has entered mWriterLock once for each write access it has, and
\* once more where it asks for one, gives one up or waits for a writer.
Entered(t) == IF pc[t] \in {"wLoop", "wTest", "wCount", "wUnlock",
"rPass"} THEN 1 ELSE 0
HoldPerAccess == \A t \in Threads : writerHold[t] = writes[t] + Entered(t)

HoldExclusive ==
  \A t, u \in Threads : t # u /\ writerHold[t] > 0 => writerHold[u] = 0

\* What a thread has tested is still so when it counts itself.
ReaderTested == \A t \in Threads : pc[t] = "rCount" => \A u \in Threads : writes[u] = 0
WriterTested ==
  \A t \in Threads : pc[t] = "wCount" =>
    (\A u \in Threads : reads[u] = 0) \/ (t = MainThread /\ allowance[t])

WriterCounted == \A t \in Threads : pc[t] = "wAssert" => writes[t] > 0

OnlyMainOverlaps ==
  \A t, u \in Threads :
    t # u /\ writes[t] > 0 /\ reads[u] > 0 => t = MainThread /\ allowance[t]

NoAllowance ==
  ~Refactorings => refactoring = FALSE /\ \A t \in Threads : allowance[t] = FALSE

IInv ==
  /\ TypeOK /\ CountsOwned /\ HoldPerAccess /\ HoldExclusive
  /\ ReaderTested /\ WriterTested /\ WriterCounted /\ OnlyMainOverlaps
  /\ NoAllowance /\ NoReaderAtWriterAssert

LEMMA IInvInit == Init => IInv
<1> SUFFICES ASSUME Init PROVE IInv  OBVIOUS
<1>1. TypeOK  BY DEF Init, TypeOK
<1>2. \A t \in Threads : Entered(t) = 0  BY DEF Init, Entered
<1>3. HoldPerAccess  BY <1>2 DEF Init, HoldPerAccess
<1>4. NoReaderAtWriterAssert  BY DEF Init, NoReaderAtWriterAssert
<1> QED
  BY <1>1, <1>3, <1>4
  DEF Init, IInv, CountsOwned, HoldExclusive, ReaderTested, WriterTested,
      WriterCounted, OnlyMainOverlaps, NoAllowance

(* A test is followed by its count with mCountsLock held throughout; this is  *)
(* what CountReader and CountWriter rest on.                                  *)
LEMMA IInvThread ==
  ASSUME IInv, NEW t \in Threads,
  StartReading(t) \/ Read(t) \/ StartWriting(t) \/ Write(t)
  PROVE IInv'
<1> USE ThreadAssumption
    DEF IInv, TypeOK, CountsOwned, HoldPerAccess, Entered, HoldExclusive,
        ReaderTested, WriterTested, WriterCounted, OnlyMainOverlaps, NoAllowance,
        NoReaderAtWriterAssert, ActiveReaders, ActiveWriters, ReadStates,
        WriteStates, Goto
<1>1. CASE StartReading(t)
  BY <1>1 DEF StartReading, Begin
<1>2. CASE LockCounts(t, "rLock", "rTest")
  BY <1>2 DEF LockCounts
<1>3. CASE TestWriters(t)
  BY <1>3 DEF TestWriters
<1>4. CASE LockWriter(t, "rWait", "rPass")
  BY <1>4 DEF LockWriter
<1>5. CASE UnlockWriter(t, "rPass", "rLock")
  BY <1>5 DEF UnlockWriter
<1>6. CASE CountReader(t)
  BY <1>6 DEF CountReader
<1>7. CASE AssertNoWriter(t)
  BY <1>7 DEF AssertNoWriter
<1>8. CASE StopReading(t)
  BY <1>8 DEF StopReading
<1>9. CASE StartWriting(t)
  BY <1>9 DEF StartWriting, Begin
<1>10. CASE LockWriter(t, "wLock", "wLoop")
  BY <1>10 DEF LockWriter
<1>11. CASE LockCounts(t, "wLoop", "wTest")
  BY <1>11 DEF LockCounts
<1>12. CASE TestReaders(t)
  <2>1. CASE ActiveReaders /\ ~MayOverlap(t)
    BY <1>12, <2>1 DEF TestReaders
  <2>2. CASE ~(ActiveReaders /\ ~MayOverlap(t))
    <3>1. /\ pc[t] = "wTest" /\ pc' = [pc EXCEPT ![t] = "wCount"]
          /\ allowance' = [allowance EXCEPT ![t] = ActiveReaders]
          /\ UNCHANGED <<reads, writes, countsLock, writerHold, refactoring, ops>>
      BY <1>12, <2>2 DEF TestReaders
    <3>2. ActiveReaders \in BOOLEAN  OBVIOUS
    <3>3. TypeOK'  BY <3>1, <3>2
    <3>4. HoldPerAccess' /\ HoldExclusive' /\ CountsOwned'  BY <3>1
    <3>5. ReaderTested' /\ WriterCounted'  BY <3>1
    <3>6. WriterTested'  BY <2>2, <3>1 DEF MayOverlap
    <3>7. OnlyMainOverlaps'  BY <3>1
    <3>8. NoAllowance'  BY <2>2, <3>1 DEF MayOverlap
    <3>9. NoReaderAtWriterAssert'  BY <3>1
    <3> QED  BY <3>3, <3>4, <3>5, <3>6, <3>7, <3>8, <3>9
  <2> QED  BY <2>1, <2>2
<1>13. CASE CountWriter(t)
  BY <1>13 DEF CountWriter
<1>14. CASE AssertNoReader(t)
  BY <1>14 DEF AssertNoReader
<1>15. CASE StopWriting(t)
  BY <1>15 DEF StopWriting
<1>16. CASE UnlockWriter(t, "wUnlock", "out")
  BY <1>16 DEF UnlockWriter
<1> QED
  BY <1>1, <1>2, <1>3, <1>4, <1>5, <1>6, <1>7, <1>8, <1>9, <1>10, <1>11, <1>12, <1>13,
     <1>14, <1>15, <1>16 DEF Read, Write

LEMMA IInvStep == IInv /\ [Next]_vars => IInv'
<1> SUFFICES ASSUME IInv, [Next]_vars PROVE IInv'  OBVIOUS
<1>1. CASE \E t \in Threads : StartReading(t) \/ Read(t) \/ StartWriting(t) \/ Write(t)
  BY <1>1, IInvThread
<1> USE DEF IInv, TypeOK, CountsOwned, HoldPerAccess, Entered, HoldExclusive,
            ReaderTested, WriterTested, WriterCounted, OnlyMainOverlaps, NoAllowance,
            NoReaderAtWriterAssert, ActiveReaders
<1>2. CASE ToggleRefactoring
  BY <1>2, ThreadAssumption DEF ToggleRefactoring
<1>3. CASE UNCHANGED vars
  BY <1>3 DEF vars
<1> QED  BY <1>1, <1>2, <1>3 DEF Next

LEMMA Inductive == Spec => []IInv
  BY IInvInit, IInvStep, PTL DEF Spec

-----------------------------------------------------------------------------
(* The theorems.                                                           *)

(* A thread that has a write access is alone, except that readers may remain *)
(* beside the main thread's refactoring allowance; and writers are always    *)
(* apart (DBLock.cpp:37-60).                                                 *)
THEOREM WritersApart == Spec => []OverlapOnlyWithAllowance
<1>1. IInv => OverlapOnlyWithAllowance
  BY DEF IInv, TypeOK, HoldPerAccess, Entered, HoldExclusive, OnlyMainOverlaps,
         OverlapOnlyWithAllowance
<1> QED  BY <1>1, Inductive, PTL

(* Without refactorings the header's promise holds: a writer is exclusive.   *)
THEOREM Exclusion ==
  ASSUME ~Refactorings PROVE Spec => []WriterExclusive
<1>1. IInv => WriterExclusive
  BY DEF IInv, TypeOK, HoldPerAccess, Entered, HoldExclusive, OnlyMainOverlaps,
         NoAllowance, WriterExclusive
<1> QED  BY <1>1, Inductive, PTL

(* "This is NOT possible!" at the end of StartWriting is right: no reader is *)
(* active there that the refactoring allowance does not cover.               *)
THEOREM WriterAssertHolds == Spec => []NoReaderAtWriterAssert
<1>1. IInv => NoReaderAtWriterAssert  BY DEF IInv
<1> QED  BY <1>1, Inductive, PTL

(* Without refactorings every step of the lock is a step of ReadersWriters   *)
(* or changes none of its state.                                             *)
THEOREM Refinement ==
  ASSUME ~Refactorings PROVE Spec => Implements
<1>1. Init => Abstract!Init
  BY DEF Init, Abstract!Init
<1>2. ASSUME IInv, [Next]_vars
      PROVE [Abstract!Next]_<<reads, writes>>
  <2>1. CASE UNCHANGED vars \/ ToggleRefactoring
    BY <2>1 DEF vars, ToggleRefactoring
  <2>2. CASE \E t \in Threads : StartReading(t) \/ Read(t) \/ StartWriting(t)
    \/ Write(t)
    <3> PICK t \in Threads : StartReading(t) \/ Read(t) \/ StartWriting(t) \/ Write(t)
      BY <2>2
    <3>1. CASE CountReader(t)
      <4>1. Abstract!BeginRead(t)
        BY <1>2, <3>1
        DEF CountReader, Goto, IInv, ReaderTested, Abstract!BeginRead, Abstract!Others
      <4> QED  BY <4>1 DEF Abstract!Next
    <3>2. CASE StopReading(t)
      BY <3>2 DEF StopReading, Abstract!EndRead, Abstract!Next
    <3>3. CASE CountWriter(t)
      <4>1. \A u \in Threads \ {t} : reads[u] = 0
        BY <3>3, <1>2 DEF CountWriter, Goto, IInv, WriterTested, NoAllowance
      <4>2. \A u \in Threads \ {t} : writes[u] = 0
        BY <1>2, <3>3
        DEF CountWriter, Goto, IInv, TypeOK, HoldPerAccess, Entered, HoldExclusive
      <4>3. Abstract!BeginWrite(t)
        BY <3>3, <4>1, <4>2 DEF CountWriter, Abstract!BeginWrite, Abstract!Others
      <4> QED  BY <4>3 DEF Abstract!Next
    <3>4. CASE StopWriting(t)
      BY <3>4 DEF StopWriting, Abstract!EndWrite, Abstract!Next
    <3> QED
      BY <3>1, <3>2, <3>3, <3>4
      DEF Read, Write, StartReading, StartWriting, Begin, LockCounts, TestWriters,
          LockWriter, UnlockWriter, AssertNoWriter, TestReaders, AssertNoReader
  <2> QED  BY <1>2, <2>1, <2>2 DEF Next
<1> QED  BY <1>1, <1>2, Inductive, PTL DEF Spec, Implements, Abstract!Spec
=============================================================================
