------------------------- MODULE ParserThreadProofs -------------------------
(***************************************************************************)
(* Theorems about ParserThread, for any set of items, producers and bounds.*)
(***************************************************************************)
EXTENDS ParserThread, TLAPS, FiniteSetTheorems

USE DEF objectVars, consumerVars, threadVars, callVars, resultVars, envVars, countVars

LEMMA InitType == Init => TypeOK
<1> SUFFICES ASSUME Init PROVE TypeOK
  OBVIOUS
<1>1. /\ queue \in [Priorities -> Seq(Items)] /\ skipped \in Seq(Items) /\ order \in Seq(Items)
      /\ fileItems \subseteq FileItems /\ wi \in Items \cup {NoItem}
  BY DEF Init
<1>2. activePri \in priNone .. priHigh /\ gParser \in Nat /\ gen \in Nat
  BY DEF Init, priNone, priHigh
<1>4. /\ pc \in RunStates \cup DtorStates \cup {"gone"} /\ dirLock \in LockOwners
      /\ lowPass \in BOOLEAN
  BY DEF Init, RunStates, LockOwners, NoOne
<1>3. /\ call \in [Items -> {"new", "called", "registered", "handed", "merged", "stray"}]
      /\ ptr \in [Items -> Nat] /\ text \in [Items -> Items] /\ late \subseteq Items
      /\ skips \in [Items -> Nat]
      /\ latest \in [Files -> Items \cup {NoItem}]
      /\ parsed \in [Files -> Items \cup {NoItem, Aborted}]
  BY DEF Init
<1> QED BY <1>1, <1>2, <1>3, <1>4 DEF Init, TypeOK

LEMMA GotoType ==
  ASSUME TypeOK, NEW a, NEW b \in RunStates \cup DtorStates, Goto(a, b)
  PROVE TypeOK'
BY DEF TypeOK, Goto

LEMMA ProducerType ==
  ASSUME TypeOK, NEW w \in Items, Producer(w)
  PROVE TypeOK'
<1>1. CASE ReadGlobal(w)
  BY <1>1 DEF ReadGlobal, TypeOK
<1>2. CASE QueueFileWorkItem(w)
  <2>1. w \in FileItems /\ FileOf[w] \in Files
    BY <1>2, ItemAssumption DEF QueueFileWorkItem
  <2>2. latest' \in [Files -> Items \cup {NoItem}]
    BY <1>2, <2>1 DEF QueueFileWorkItem, TypeOK
  <2>3. /\ text' \in [Items -> Items] /\ fileItems' \subseteq FileItems
        /\ call' \in [Items -> {"new", "called", "registered", "handed", "merged", "stray"}]
    BY <1>2, <2>1 DEF QueueFileWorkItem, TypeOK
  <2>4. UNCHANGED <<queue, skipped, consumerVars, threadVars, ptr, late, order, resultVars,
                    dirLock, envVars, countVars>>
    BY <1>2 DEF QueueFileWorkItem
  <2> QED BY <2>2, <2>3, <2>4 DEF TypeOK
<1>3. CASE QueueParseWorkItem(w)
  <2>1. queue' \in [Priorities -> Seq(Items)]
    <3>1. PriOf[w] \in Priorities
      BY ItemAssumption
    <3>2. queue[PriOf[w]] \in Seq(Items)
      BY <3>1 DEF TypeOK
    <3>3. Append(queue[PriOf[w]], w) \in Seq(Items)
      BY <3>2
    <3> QED BY <1>3, <3>1, <3>3 DEF QueueParseWorkItem, TypeOK
  <2>2. order' \in Seq(Items) /\ late' \subseteq Items
    BY <1>3 DEF QueueParseWorkItem, TypeOK
  <2>3. call' \in [Items -> {"new", "called", "registered", "handed", "merged", "stray"}]
    BY <1>3 DEF QueueParseWorkItem, TypeOK
  <2> QED BY <1>3, <2>1, <2>2, <2>3 DEF QueueParseWorkItem, TypeOK
<1>4. CASE CallDestroyedThread(w)
  BY <1>4 DEF CallDestroyedThread, TypeOK
<1> QED BY <1>1, <1>2, <1>3, <1>4 DEF Producer

LEMMA TakeFromType ==
  ASSUME TypeOK, NEW p \in Priorities, queue[p] # <<>>, TakeFrom(p)
  PROVE /\ wi' \in Items
        /\ queue' \in [Priorities -> Seq(Items)]
        /\ activePri' \in priNone .. priHigh
<1>1. queue[p] \in Seq(Items)
  BY DEF TypeOK
<1>2. Head(queue[p]) \in Items /\ Tail(queue[p]) \in Seq(Items)
  BY <1>1
<1>3. queue' \in [Priorities -> Seq(Items)]
  BY <1>2 DEF TakeFrom, TypeOK
<1>4. activePri' \in priNone .. priHigh
  BY DEF TakeFrom, Priorities, priNone, priLow, priHigh
<1> QED BY <1>2, <1>3, <1>4 DEF TakeFrom

LEMMA NextPriorityQueued ==
  ASSUME HasQueuedItems
  PROVE NextPriority \in Priorities /\ queue[NextPriority] # <<>>
BY DEF HasQueuedItems, NextPriority, Priorities, priLow, priBelowNormal, priNormal, priHigh

LEMMA ParseResultType ==
  ASSUME TypeOK, NEW w \in Items, parsed' \in ParseResult(w)
  PROVE parsed' \in [Files -> Items \cup {NoItem, Aborted}]
<1>1. CASE w \in FileItems
  <2>1. FileOf[w] \in Files /\ text[w] \in Items
    BY <1>1, ItemAssumption DEF TypeOK
  <2>2. PICK r \in {text[w], Aborted} : parsed' = [parsed EXCEPT ![FileOf[w]] = r]
    BY <1>1 DEF ParseResult
  <2> QED BY <2>1, <2>2 DEF TypeOK
<1>2. CASE w \notin FileItems
  BY <1>2 DEF ParseResult, TypeOK
<1> QED BY <1>1, <1>2

-----------------------------------------------------------------------------
(* The members of a queue.                                                 *)

LEMMA SeqItemsAppend ==
  ASSUME NEW S, NEW q \in Seq(S), NEW x \in S
  PROVE SeqItems(Append(q, x)) = SeqItems(q) \cup {x}
<1>1. /\ DOMAIN Append(q, x) = 1 .. Len(q) + 1 /\ DOMAIN q = 1 .. Len(q) /\ Len(q) \in Nat
      /\ Append(q, x)[Len(q) + 1] = x
      /\ \A i \in 1 .. Len(q) : Append(q, x)[i] = q[i]
  OBVIOUS
<1>2. ASSUME NEW y \in SeqItems(Append(q, x)) PROVE y \in SeqItems(q) \cup {x}
  <2>1. PICK i \in 1 .. Len(q) + 1 : y = Append(q, x)[i]
    BY <1>1 DEF SeqItems
  <2>2. i = Len(q) + 1 \/ i \in 1 .. Len(q)
    BY <1>1, <2>1
  <2> QED BY <1>1, <2>1, <2>2 DEF SeqItems
<1>3. ASSUME NEW y \in SeqItems(q) \cup {x} PROVE y \in SeqItems(Append(q, x))
  <2>1. CASE y = x
    <3>1. Len(q) + 1 \in DOMAIN Append(q, x)
      BY <1>1
    <3> QED BY <1>1, <2>1, <3>1 DEF SeqItems
  <2>2. CASE y \in SeqItems(q)
    <3>1. PICK i \in 1 .. Len(q) : y = q[i]
      BY <1>1, <2>2 DEF SeqItems
    <3>2. i \in DOMAIN Append(q, x)
      BY <1>1, <3>1
    <3> QED BY <1>1, <3>1, <3>2 DEF SeqItems
  <2> QED BY <2>1, <2>2
<1> QED BY <1>2, <1>3

LEMMA SeqItemsHeadTail ==
  ASSUME NEW S, NEW q \in Seq(S), q # <<>>
  PROVE Head(q) \in SeqItems(q) /\ SeqItems(Tail(q)) \subseteq SeqItems(q)
<1>1. /\ DOMAIN q = 1 .. Len(q) /\ Len(q) \in Nat /\ Len(q) > 0 /\ Head(q) = q[1]
      /\ DOMAIN Tail(q) = 1 .. Len(q) - 1
      /\ \A i \in 1 .. Len(q) - 1 : Tail(q)[i] = q[i + 1]
  OBVIOUS
<1>2. ASSUME NEW y \in SeqItems(Tail(q)) PROVE y \in SeqItems(q)
  <2>1. PICK i \in 1 .. Len(q) - 1 : y = Tail(q)[i]
    BY <1>1 DEF SeqItems
  <2>2. y = q[i + 1] /\ i + 1 \in 1 .. Len(q)
    BY <1>1, <2>1
  <2> QED BY <1>1, <2>2 DEF SeqItems
<1>3. 1 \in DOMAIN q
  BY <1>1
<1> QED BY <1>1, <1>2, <1>3 DEF SeqItems

LEMMA SeqItemsConcat ==
  ASSUME NEW S, NEW q \in Seq(S), NEW r \in Seq(S)
  PROVE SeqItems(q \o r) \subseteq SeqItems(q) \cup SeqItems(r)
<1>1. /\ DOMAIN (q \o r) = 1 .. Len(q) + Len(r) /\ Len(q) \in Nat /\ Len(r) \in Nat
      /\ DOMAIN q = 1 .. Len(q) /\ DOMAIN r = 1 .. Len(r)
      /\ \A i \in 1 .. Len(q) + Len(r) :
           (q \o r)[i] = IF i <= Len(q) THEN q[i] ELSE r[i - Len(q)]
  OBVIOUS
<1>2. ASSUME NEW y \in SeqItems(q \o r) PROVE y \in SeqItems(q) \cup SeqItems(r)
  <2>1. PICK i \in 1 .. Len(q) + Len(r) : y = (q \o r)[i]
    BY <1>1 DEF SeqItems
  <2>2. CASE i <= Len(q)
    <3>1. i \in DOMAIN q /\ y = q[i]
      BY <1>1, <2>1, <2>2
    <3> QED BY <3>1 DEF SeqItems
  <2>3. CASE ~(i <= Len(q))
    <3>1. i - Len(q) \in DOMAIN r /\ y = r[i - Len(q)]
      BY <1>1, <2>1, <2>3
    <3> QED BY <3>1 DEF SeqItems
  <2> QED BY <2>2, <2>3
<1> QED BY <1>2

LEMMA SeqItemsEmpty == SeqItems(<<>>) = {}
BY DEF SeqItems

-----------------------------------------------------------------------------
(* Type correctness, with the steps at which wi is a real item.            *)

Holding == {"unregister", "run", "parsing", "drainUnregister", "drainRun"}
HoldingItem == wi \in Items <=> pc \in Holding
TypeInv == TypeOK /\ HoldingItem

LEMMA InitTypeInv == Init => TypeInv
BY InitType, ItemAssumption DEF Init, TypeInv, HoldingItem, Holding

LEMMA ConsumerTypeInv ==
  ASSUME TypeInv, Consumer
  PROVE TypeInv'
<1> USE DEF TypeInv
<1>1. CASE OuterLoop
  BY <1>1 DEF Goto, OuterLoop, TypeOK, HoldingItem, Holding, RunStates, DtorStates
<1>2. CASE InnerLoop
  BY <1>2 DEF Goto, InnerLoop, TypeOK, HoldingItem, Holding, RunStates, DtorStates
<1>3. CASE WaitForWork
  BY <1>3 DEF Goto, WaitForWork, TypeOK, HoldingItem, Holding, RunStates, DtorStates
<1>4. CASE WorkLoop
  BY <1>4 DEF Goto, WorkLoop, TypeOK, HoldingItem, Holding, RunStates, DtorStates
<1>5. CASE BeginParse
  BY <1>5 DEF Goto, BeginParse, TypeOK, HoldingItem, Holding, RunStates, DtorStates
<1>6. CASE BeginLowPass
  BY <1>6 DEF Goto, BeginLowPass, TypeOK, HoldingItem, Holding, RunStates, DtorStates
<1>7. CASE SkipLowPass
  BY <1>7 DEF Goto, SkipLowPass, TypeOK, HoldingItem, Holding, RunStates, DtorStates
<1>8. CASE ContinueLowPass
  BY <1>8 DEF Goto, ContinueLowPass, TypeOK, HoldingItem, Holding, RunStates, DtorStates
<1>9. CASE EndLowPass
  BY <1>9 DEF Goto, EndLowPass, TypeOK, HoldingItem, Holding, RunStates, DtorStates
<1>10. CASE TakeDirLock
  BY <1>10 DEF TakeDirLock, Acquire, TypeOK, HoldingItem, Holding, RunStates, DtorStates, LockOwners
<1>11. CASE GetNextJob
  <2>1. PICK move \in {<<"pop", "unregister", "run">>, <<"drain", "drainUnregister", "drainRun">>} :
          /\ pc = move[1] /\ HasQueuedItems
          /\ TakeFrom(NextPriority)
          /\ pc' = IF NextPriority = priNormal THEN move[2] ELSE move[3]
          /\ lowPass' = FALSE
          /\ UNCHANGED <<fileItems, skipped, threadVars, callVars, resultVars, dirLock,
                         envVars, countVars>>
    BY <1>11 DEF GetNextJob
  <2>2. /\ wi' \in Items /\ queue' \in [Priorities -> Seq(Items)]
        /\ activePri' \in priNone .. priHigh
    BY <2>1, NextPriorityQueued, TakeFromType
  <2>3. pc' \in {"unregister", "run", "drainUnregister", "drainRun"}
    BY <2>1
  <2>4. lowPass' \in BOOLEAN
    BY <2>1
  <2> QED BY <2>1, <2>2, <2>3, <2>4 DEF TypeOK, HoldingItem, Holding, RunStates, DtorStates
<1>12. CASE UnregisterFileItem
  BY <1>12 DEF UnregisterFileItem, TypeOK, HoldingItem, Holding, RunStates, DtorStates
<1>13. CASE GetNextLowPriorityJob
  <2>1. PICK move \in {<<"lowPop", "run">>, <<"drainLow", "drainRun">>} :
          /\ pc = move[1] /\ pc' = move[2]
          /\ HasLowPriorityQueuedItems
          /\ TakeFrom(priLow)
          /\ lowPass' = TRUE
          /\ UNCHANGED <<fileItems, skipped, threadVars, callVars, resultVars, dirLock,
                         envVars, countVars>>
    BY <1>13 DEF GetNextLowPriorityJob
  <2>2. priLow \in Priorities
    BY DEF priLow, Priorities, priHigh
  <2>3. /\ wi' \in Items /\ queue' \in [Priorities -> Seq(Items)]
        /\ activePri' \in priNone .. priHigh
    BY <2>1, <2>2, TakeFromType DEF HasLowPriorityQueuedItems
  <2>4. pc' \in {"run", "drainRun"} /\ lowPass' \in BOOLEAN
    BY <2>1
  <2> QED BY <2>1, <2>3, <2>4 DEF TypeOK, HoldingItem, Holding, RunStates, DtorStates
<1>14. CASE SkipWorkItem
  <2>1. wi \in Items
    BY <1>14 DEF SkipWorkItem, HoldingItem, Holding
  <2>2. skipped' \in Seq(Items) /\ skips' \in [Items -> Nat]
    BY <1>14, <2>1 DEF SkipWorkItem, TypeOK
  <2>3. activePri' \in priNone .. priHigh
    BY <1>14 DEF SkipWorkItem, priNone, priHigh
  <2> QED BY <1>14, <2>2, <2>3, ItemAssumption
          DEF SkipWorkItem, TypeOK, HoldingItem, Holding, RunStates, DtorStates
<1>15. CASE EndParse
  <2>1. wi \in Items
    BY <1>15 DEF EndParse, HoldingItem, Holding
  <2>2. parsed' \in [Files -> Items \cup {NoItem, Aborted}]
    BY <1>15, <2>1, ParseResultType DEF EndParse
  <2>3. activePri' \in priNone .. priHigh
    BY <1>15 DEF EndParse, priNone, priHigh
  <2> QED BY <1>15, <2>1, <2>2, <2>3, ItemAssumption
          DEF EndParse, TypeOK, HoldingItem, Holding, RunStates, DtorStates
<1>16. CASE ReleaseDirLock
  BY <1>16 DEF ReleaseDirLock, TypeOK, HoldingItem, Holding, RunStates, DtorStates, LockOwners, NoOne
<1>17. CASE RequeueSkippedItems
  <2>1. PICK move \in {<<"requeue", "low", priNormal>>, <<"lowEnd", "inner", priLow>>} :
          /\ pc = move[1] /\ pc' = move[2]
          /\ queue' = [queue EXCEPT ![move[3]] = @ \o skipped]
          /\ skipped' = <<>>
          /\ UNCHANGED <<fileItems, wi, activePri, lowPass, threadVars, callVars, resultVars,
                         dirLock, envVars, countVars>>
    BY <1>17 DEF RequeueSkippedItems
  <2>2. move[3] \in Priorities
    BY <2>1 DEF Priorities, priLow, priNormal, priHigh
  <2>3. queue[move[3]] \o skipped \in Seq(Items)
    BY <2>2 DEF TypeOK
  <2>4. queue' \in [Priorities -> Seq(Items)] /\ skipped' \in Seq(Items)
    BY <2>1, <2>2, <2>3 DEF TypeOK
  <2>5. pc \in {"requeue", "lowEnd"} /\ pc' \in {"low", "inner"}
    BY <2>1
  <2>6. UNCHANGED <<fileItems, wi, activePri, lowPass, gParser, gen, call, ptr, text, order, latest,
                    ran, dropped, leaked, late, parsed, dirLock, stopIt, shutdown, undone, ui,
                    load, skips, loads, refactors, faults>>
    BY <2>1 DEF threadVars, callVars, resultVars, envVars, countVars
  <2>7. HoldingItem'
    BY <2>5, <2>6 DEF HoldingItem, Holding
  <2> QED BY <2>4, <2>5, <2>6, <2>7 DEF TypeOK, RunStates, DtorStates
<1>18. CASE DrainItem
  <2>1. wi \in Items
    BY <1>18 DEF DrainItem, HoldingItem, Holding
  <2>2. /\ parsed' \in [Files -> Items \cup {NoItem, Aborted}]
        /\ ran' \subseteq Items /\ dropped' \subseteq Items
    <3>1. CASE wi \in AtShutdown
      BY <1>18, <2>1, <3>1, ParseResultType DEF DrainItem, TypeOK
    <3>2. CASE wi \notin AtShutdown
      BY <1>18, <2>1, <3>2 DEF DrainItem, TypeOK
    <3> QED BY <3>1, <3>2
  <2>3. activePri' \in priNone .. priHigh
    BY <1>18 DEF DrainItem, priNone, priHigh
  <2> QED BY <1>18, <2>2, <2>3, ItemAssumption
          DEF DrainItem, TypeOK, HoldingItem, Holding, RunStates, DtorStates
<1>19. CASE EndNormalDrain \/ EndDrain
  BY <1>19 DEF EndNormalDrain, Goto, EndDrain, TypeOK, HoldingItem, Holding, RunStates, DtorStates, LockOwners, NoOne
<1>20. CASE DestroyThread
  <2>1. AllQueued \subseteq Items /\ SeqItems(skipped) \subseteq Items
    <3>1. ASSUME NEW q \in Seq(Items) PROVE SeqItems(q) \subseteq Items
      BY DEF SeqItems
    <3> QED BY <3>1 DEF AllQueued, TypeOK
  <2>2. leaked' \subseteq Items
    BY <1>20, <2>1 DEF DestroyThread, TypeOK
  <2>3. queue' \in [Priorities -> Seq(Items)] /\ skipped' \in Seq(Items) /\ fileItems' \subseteq FileItems
    BY <1>20 DEF DestroyThread
  <2>4. gParser' \in Nat /\ gen' \in Nat /\ pc = "dtorEnd" /\ pc' \in {"gone", "outer"}
    BY <1>20 DEF DestroyThread, TypeOK
  <2> QED BY <1>20, <2>2, <2>3, <2>4 DEF DestroyThread, TypeOK, HoldingItem, Holding, RunStates
<1> QED BY <1>1, <1>2, <1>3, <1>4, <1>5, <1>6, <1>7, <1>8, <1>9, <1>10, <1>11, <1>12, <1>13, <1>14, <1>15, <1>16, <1>17, <1>18, <1>19, <1>20 DEF Consumer


Environment ==
  \/ RunThrows \/ BeginRefactoring \/ RequestSynchronousFileParse \/ LoadProject
  \/ FreeTheGlobals \/ Ui \/ Load

LEMMA EnvironmentTypeInv ==
  ASSUME TypeInv, Environment
  PROVE TypeInv'
<1> USE DEF TypeInv
<1>1. CASE RunThrows
  BY <1>1 DEF RunThrows, TypeOK, HoldingItem, Holding, RunStates, DtorStates
<1>2. CASE BeginRefactoring
  BY <1>2 DEF BeginRefactoring, UiStep, EnvStep, TypeOK, HoldingItem
<1>3. CASE RequestSynchronousFileParse
  BY <1>3 DEF RequestSynchronousFileParse, UiStep, EnvStep, TypeOK, HoldingItem
<1>4. CASE LoadProject
  BY <1>4 DEF LoadProject, LoadStep, EnvStep, TypeOK, HoldingItem
<1>5. CASE FreeTheGlobals
  BY <1>5 DEF FreeTheGlobals, EnvStep, TypeOK, HoldingItem
<1>6. CASE Ui
  <2>1. CASE EndRefactoring
    BY <2>1 DEF EndRefactoring, UiStep, EnvStep, TypeOK, HoldingItem
  <2>2. CASE SynchronousFileParse
    BY <2>2 DEF SynchronousFileParse, UiStep, EnvStep, Acquire, TypeOK, HoldingItem, LockOwners
  <2>3. CASE EndSynchronousFileParse
    BY <2>3 DEF EndSynchronousFileParse, UiStep, EnvStep, TypeOK, HoldingItem, LockOwners, NoOne
  <2>4. CASE StopAllThreads
    BY <2>4 DEF StopAllThreads, EnvStep, TypeOK, HoldingItem
  <2> QED BY <1>6, <2>1, <2>2, <2>3, <2>4 DEF Ui
<1>7. CASE Load
  <2>1. CASE LoadTakesDirLock
    BY <2>1 DEF LoadTakesDirLock, LoadStep, EnvStep, Acquire, TypeOK, HoldingItem, LockOwners
  <2>2. CASE LoadTestsUnloading
    BY <2>2 DEF LoadTestsUnloading, LoadStep, EnvStep, TypeOK, HoldingItem
  <2>3. CASE LoadResetsStopIt
    BY <2>3 DEF LoadResetsStopIt, LoadStep, EnvStep, TypeOK, HoldingItem
  <2>4. CASE EndLoad
    BY <2>4 DEF EndLoad, LoadStep, EnvStep, TypeOK, HoldingItem, LockOwners, NoOne
  <2> QED BY <1>7, <2>1, <2>2, <2>3, <2>4 DEF Load
<1> QED BY <1>1, <1>2, <1>3, <1>4, <1>5, <1>6, <1>7 DEF Environment

LEMMA TypeInvStep == TypeInv /\ [Next]_vars => TypeInv'
<1> SUFFICES ASSUME TypeInv, [Next]_vars PROVE TypeInv'
  OBVIOUS
<1>1. CASE \E w \in Items : Producer(w)
  <2>1. PICK w \in Items : Producer(w)
    BY <1>1
  <2>2. UNCHANGED <<wi, pc>>
    BY <2>1 DEF Producer, ReadGlobal, QueueFileWorkItem, QueueParseWorkItem, CallDestroyedThread
  <2> QED BY <2>1, <2>2, ProducerType DEF TypeInv, HoldingItem
<1>2. CASE Consumer
  BY <1>2, ConsumerTypeInv
<1>3. CASE Environment
  BY <1>3, EnvironmentTypeInv
<1>4. CASE UNCHANGED vars
  BY <1>4 DEF vars, TypeInv, TypeOK, HoldingItem
<1> QED BY <1>1, <1>2, <1>3, <1>4 DEF Next, Environment

\* Type correctness of the parser thread: in particular the consumer holds a
\* real work item exactly while it is at a step that uses one.
THEOREM Typing == Spec => [](TypeOK /\ HoldingItem)
<1>1. TypeInv <=> TypeOK /\ HoldingItem
  BY DEF TypeInv
<1> QED BY <1>1, InitTypeInv, TypeInvStep, PTL DEF Spec

-----------------------------------------------------------------------------
(* The DatabaseDirectoryLock.  JobsRunUnderDirLock becomes inductive when   *)
(* the step that releases the lock is added to those that own it.          *)

LockInv == JobsRunUnderDirLock /\ (pc = "unlock" => dirLock = "parser")

LEMMA LockInvInit == Init => LockInv
BY DEF Init, LockInv, JobsRunUnderDirLock

LEMMA LockInvConsumer ==
  ASSUME LockInv, Consumer
  PROVE LockInv'
<1> USE DEF LockInv, JobsRunUnderDirLock
<1>1. CASE \/ OuterLoop \/ InnerLoop \/ WaitForWork \/ WorkLoop \/ BeginParse \/ BeginLowPass
           \/ SkipLowPass \/ ContinueLowPass \/ EndLowPass
  BY <1>1 DEF Goto, OuterLoop, InnerLoop, WaitForWork, WorkLoop, BeginParse, BeginLowPass,
              SkipLowPass, ContinueLowPass, EndLowPass
<1>2. CASE TakeDirLock
  BY <1>2 DEF TakeDirLock, Acquire, NoOne
<1>3. CASE GetNextJob \/ UnregisterFileItem \/ GetNextLowPriorityJob
  BY <1>3 DEF GetNextJob, UnregisterFileItem, GetNextLowPriorityJob
<1>4. CASE SkipWorkItem \/ EndParse \/ DrainItem
  BY <1>4 DEF SkipWorkItem, EndParse, DrainItem
<1>5. CASE ReleaseDirLock \/ EndNormalDrain \/ EndDrain
  BY <1>5 DEF ReleaseDirLock, EndNormalDrain, Goto, EndDrain, NoOne
<1>6. CASE RequeueSkippedItems \/ DestroyThread
  BY <1>6 DEF RequeueSkippedItems, DestroyThread
<1> QED BY <1>1, <1>2, <1>3, <1>4, <1>5, <1>6 DEF Consumer

LEMMA LockInvEnvironment ==
  ASSUME LockInv, Environment
  PROVE LockInv'
<1> USE DEF LockInv, JobsRunUnderDirLock
<1>1. CASE RunThrows \/ BeginRefactoring \/ RequestSynchronousFileParse \/ LoadProject \/ FreeTheGlobals
  BY <1>1 DEF RunThrows, BeginRefactoring, RequestSynchronousFileParse, LoadProject, FreeTheGlobals,
              UiStep, LoadStep, EnvStep
<1>2. CASE Ui
  BY <1>2 DEF Ui, EndRefactoring, SynchronousFileParse, EndSynchronousFileParse, StopAllThreads,
              UiStep, EnvStep, Acquire, NoOne
<1>3. CASE Load
  BY <1>3 DEF Load, LoadTakesDirLock, LoadTestsUnloading, LoadResetsStopIt, EndLoad,
              LoadStep, EnvStep, Acquire, NoOne
<1> QED BY <1>1, <1>2, <1>3 DEF Environment

\* Every DoParseWork, in Run, in the destructor or on the UI thread, and every
\* project load has the DatabaseDirectoryLock to itself.
THEOREM DirLockOwned == Spec => []JobsRunUnderDirLock
<1>1. ASSUME LockInv, [Next]_vars PROVE LockInv'
  <2>1. CASE \E w \in Items : Producer(w)
    BY <1>1, <2>1 DEF LockInv, JobsRunUnderDirLock, Producer, ReadGlobal, QueueFileWorkItem,
                      QueueParseWorkItem, CallDestroyedThread
  <2>2. CASE UNCHANGED vars
    BY <1>1, <2>2 DEF LockInv, JobsRunUnderDirLock, vars
  <2> QED BY <1>1, <2>1, <2>2, LockInvConsumer, LockInvEnvironment DEF Next, Environment
<1>2. LockInv => JobsRunUnderDirLock
  BY DEF LockInv
<1> QED BY <1>1, <1>2, LockInvInit, PTL DEF Spec

-----------------------------------------------------------------------------
(* mQueuedFileWorkItems.                                                   *)

LEMMA OneRequestPerFileStep ==
  ASSUME OneRequestPerFile, [Next]_vars
  PROVE OneRequestPerFile'
<1> USE DEF OneRequestPerFile
<1>1. ASSUME NEW w \in Items, QueueFileWorkItem(w) PROVE OneRequestPerFile'
  <2>1. CASE fileItems' = fileItems
    BY <2>1
  <2>2. CASE fileItems' # fileItems
    BY <1>1, <2>2 DEF QueueFileWorkItem
  <2> QED BY <2>1, <2>2
<1>2. CASE fileItems' \subseteq fileItems
  BY <1>2
<1>3. CASE ~(fileItems' \subseteq fileItems)
  <2>1. CASE \E w \in Items : Producer(w)
    BY <1>1, <1>3, <2>1 DEF Producer, ReadGlobal, QueueParseWorkItem, CallDestroyedThread
  <2>2. CASE Consumer
    <3>1. CASE \/ OuterLoop \/ InnerLoop \/ WaitForWork \/ WorkLoop \/ BeginParse \/ BeginLowPass
               \/ SkipLowPass \/ ContinueLowPass \/ EndLowPass
      BY <1>3, <3>1 DEF Goto, OuterLoop, InnerLoop, WaitForWork, WorkLoop, BeginParse,
                        BeginLowPass, SkipLowPass, ContinueLowPass, EndLowPass
    <3>2. CASE \/ TakeDirLock \/ GetNextJob \/ UnregisterFileItem \/ GetNextLowPriorityJob
               \/ SkipWorkItem \/ EndParse
      BY <1>3, <3>2 DEF TakeDirLock, GetNextJob, UnregisterFileItem, GetNextLowPriorityJob,
                        SkipWorkItem, EndParse
    <3>3. CASE \/ DrainItem \/ ReleaseDirLock \/ EndNormalDrain \/ EndDrain \/ RequeueSkippedItems \/ DestroyThread
      BY <1>3, <3>3 DEF DrainItem, ReleaseDirLock, EndNormalDrain, Goto, EndDrain, RequeueSkippedItems, DestroyThread
    <3> QED BY <2>2, <3>1, <3>2, <3>3 DEF Consumer
  <2>3. CASE Environment
    BY <1>3, <2>3 DEF Environment, RunThrows, BeginRefactoring, RequestSynchronousFileParse,
       LoadProject, FreeTheGlobals, UiStep, LoadStep, EnvStep, Ui, EndRefactoring,
       SynchronousFileParse, EndSynchronousFileParse, StopAllThreads, Load, LoadTakesDirLock,
       LoadTestsUnloading, LoadResetsStopIt, EndLoad
  <2>4. CASE UNCHANGED vars
    BY <1>3, <2>4 DEF vars
  <2> QED BY <2>1, <2>2, <2>3, <2>4 DEF Next, Environment
<1> QED BY <1>2, <1>3

\* The list a new request is compared with never holds two equal requests, so
\* a new text always reaches the one job that will be run.
THEOREM RequestsUnique == Spec => []OneRequestPerFile
<1>1. Init => OneRequestPerFile
  BY DEF Init, OneRequestPerFile
<1> QED BY <1>1, OneRequestPerFileStep, PTL DEF Spec

\* An item that a later request may still update was handed over or is about to
\* be, waits in the normal queue only, and is no longer registered once the
\* consumer has gone past UnregisterFileItem.  For that it must be known that
\* whatever the thread holds or has finished was handed over before: a new
\* request registers an item that is nowhere yet.
Pool(w) ==
  \/ w = wi \/ w \in SeqItems(skipped) \/ w \in Finished
  \/ \E p \in Priorities : w \in SeqItems(queue[p])
HandedInv == \A w \in Items : Pool(w) => call[w] = "handed"
RegInv ==
  \A w \in fileItems :
    /\ call[w] \notin {"new", "called"}
    /\ w \notin Finished /\ w \notin SeqItems(skipped)
    /\ wi = w => pc \in {"unregister", "drainUnregister"}
    /\ \A p \in Priorities \ {priNormal} : w \notin SeqItems(queue[p])
QueueInv == TypeInv /\ HandedInv /\ RegInv

LEMMA QueueInvInit == Init => QueueInv
<1> SUFFICES ASSUME Init PROVE HandedInv /\ RegInv
  BY InitTypeInv DEF QueueInv
<1>1. ASSUME NEW w \in Items PROVE ~Pool(w)
  <2>1. \A p \in Priorities : SeqItems(queue[p]) = {}
    BY SeqItemsEmpty DEF Init
  <2> QED BY <2>1, SeqItemsEmpty, ItemAssumption DEF Init, Pool, Finished
<1> QED BY <1>1 DEF HandedInv, RegInv, Init

LEMMA TakeFromItems ==
  ASSUME TypeOK, NEW p \in Priorities, queue[p] # <<>>, TakeFrom(p)
  PROVE /\ wi' \in SeqItems(queue[p])
        /\ \A r \in Priorities : SeqItems(queue'[r]) \subseteq SeqItems(queue[r])
<1>1. queue[p] \in Seq(Items)
  BY DEF TypeOK
<1>2. wi' = Head(queue[p]) /\ queue' = [queue EXCEPT ![p] = Tail(queue[p])]
  BY DEF TakeFrom
<1>3. Head(queue[p]) \in SeqItems(queue[p]) /\ SeqItems(Tail(queue[p])) \subseteq SeqItems(queue[p])
  BY <1>1, SeqItemsHeadTail
<1> QED BY <1>2, <1>3 DEF TypeOK

LEMMA QueueInvProducer ==
  ASSUME QueueInv, NEW v \in Items, Producer(v)
  PROVE HandedInv' /\ RegInv'
<1> USE DEF QueueInv
<1>1. CASE ReadGlobal(v) \/ CallDestroyedThread(v)
  <2>1. /\ \A w \in Items : Pool(w)' = Pool(w) 
        /\ call[v] \in {"new", "called", "registered"}
        /\ call' \in {[call EXCEPT ![v] = "called"], [call EXCEPT ![v] = "stray"]}
        /\ UNCHANGED <<objectVars, consumerVars, ran, dropped, leaked>>
    BY <1>1 DEF ReadGlobal, CallDestroyedThread, Pool, Finished
  <2>2. v \in fileItems => call'[v] = "stray"
    BY <1>1 DEF ReadGlobal, CallDestroyedThread, RegInv, TypeInv, TypeOK
  <2>3. \A w \in Items : w # v => call'[w] = call[w]
    BY <2>1 DEF TypeInv, TypeOK
  <2>4. fileItems \subseteq Items
    BY ItemAssumption DEF TypeInv, TypeOK
  <2>5. HandedInv'
    BY <2>1, <2>3 DEF HandedInv
  <2>6. RegInv'
    BY <2>1, <2>2, <2>3, <2>4 DEF RegInv, Finished
  <2> QED BY <2>5, <2>6
<1>2. CASE QueueFileWorkItem(v)
  <2>1. /\ UNCHANGED <<queue, skipped, consumerVars, ran, dropped, leaked>>
        /\ call[v] = "called"
        /\ call' \in {[call EXCEPT ![v] = "merged"], [call EXCEPT ![v] = "registered"]}
        /\ fileItems' \subseteq fileItems \cup {v}
    BY <1>2 DEF QueueFileWorkItem
  <2>2. ~Pool(v)
    BY <2>1 DEF HandedInv
  <2>3. \A w \in Items : w # v => call'[w] = call[w]
    BY <2>1 DEF TypeInv, TypeOK
  <2>4. call'[v] \in {"merged", "registered"}
    BY <2>1 DEF TypeInv, TypeOK
  <2>5. fileItems \subseteq Items
    BY ItemAssumption DEF TypeInv, TypeOK
  <2>6. \A w \in Items : Pool(w)' = Pool(w)
    BY <2>1 DEF Pool, Finished
  <2>7. HandedInv'
    BY <2>1, <2>2, <2>3, <2>6 DEF HandedInv
  <2>8. RegInv'
    BY <2>1, <2>2, <2>3, <2>4, <2>5 DEF RegInv, Pool, Finished
  <2> QED BY <2>7, <2>8
<1>3. CASE QueueParseWorkItem(v)
  <2>1. /\ UNCHANGED <<fileItems, skipped, consumerVars, ran, dropped, leaked>>
        /\ queue' = [queue EXCEPT ![PriOf[v]] = Append(queue[PriOf[v]], v)]
        /\ call' = [call EXCEPT ![v] = "handed"]
    BY <1>3 DEF QueueParseWorkItem
  <2>2. PriOf[v] \in Priorities /\ queue[PriOf[v]] \in Seq(Items)
    BY ItemAssumption DEF TypeInv, TypeOK
  <2>3. SeqItems(Append(queue[PriOf[v]], v)) = SeqItems(queue[PriOf[v]]) \cup {v}
    BY <2>2, SeqItemsAppend
  <2>4. \A p \in Priorities : \A w \in SeqItems(queue'[p]) :
          w \in SeqItems(queue[p]) \/ (w = v /\ p = PriOf[v])
    BY <2>1, <2>2, <2>3 DEF TypeInv, TypeOK
  <2>5. call'[v] = "handed" /\ \A w \in Items : w # v => call'[w] = call[w]
    BY <2>1 DEF TypeInv, TypeOK
  <2>6. ASSUME NEW w \in Items, Pool(w)' PROVE w = v \/ Pool(w)
    <3>1. CASE \E p \in Priorities : w \in SeqItems(queue'[p])
      BY <2>4, <3>1 DEF Pool
    <3>2. CASE ~ \E p \in Priorities : w \in SeqItems(queue'[p])
      BY <2>1, <2>6, <3>2 DEF Pool, Finished
    <3> QED BY <3>1, <3>2
  <2>7. HandedInv'
    BY <2>5, <2>6 DEF HandedInv
  <2>8. fileItems \subseteq FileItems /\ FileItems \subseteq Items
    BY ItemAssumption DEF TypeInv, TypeOK
  <2>9. v \in fileItems => PriOf[v] = priNormal
    BY <2>8, ItemAssumption
  <2>10. RegInv'
    BY <2>1, <2>4, <2>5, <2>8, <2>9 DEF RegInv, Finished
  <2> QED BY <2>7, <2>10
<1> QED BY <1>1, <1>2, <1>3 DEF Producer

\* A step that moves only the program counter keeps both invariants.
LEMMA QueueInvQuiet ==
  ASSUME QueueInv, UNCHANGED <<queue, fileItems, skipped, wi, ran, dropped, leaked, call>>,
         wi \in Items => pc' = pc \/ pc \notin {"unregister", "drainUnregister"}
  PROVE HandedInv' /\ RegInv'
<1>1. \A w \in Items : Pool(w)' = Pool(w)
  BY DEF Pool, Finished
<1>2. HandedInv'
  BY <1>1 DEF QueueInv, HandedInv
<1>3. fileItems \subseteq Items
  BY ItemAssumption DEF QueueInv, TypeInv, TypeOK
<1>4. RegInv'
  BY <1>3 DEF QueueInv, RegInv, Finished
<1> QED BY <1>2, <1>4

\* What every step that takes, sets aside, finishes or requeues items does: it
\* adds nothing to the pool and registers nothing, and what it moves out of the
\* normal queue is registered at "unregister" only.
LEMMA QueueInvMove ==
  ASSUME QueueInv, UNCHANGED call, fileItems' \subseteq fileItems,
         \A w \in Items : Pool(w)' => Pool(w),
         \A w \in fileItems' :
           /\ w \notin Finished' /\ w \notin SeqItems(skipped')
           /\ wi' = w => pc' \in {"unregister", "drainUnregister"}
           /\ \A p \in Priorities \ {priNormal} : w \notin SeqItems(queue'[p])
  PROVE HandedInv' /\ RegInv'
<1>1. HandedInv'
  BY DEF QueueInv, HandedInv
<1>2. RegInv'
  BY DEF QueueInv, RegInv
<1> QED BY <1>1, <1>2

LEMMA QueueInvTake ==
  ASSUME QueueInv, GetNextJob \/ GetNextLowPriorityJob
  PROVE HandedInv' /\ RegInv'
<1> USE DEF QueueInv, TypeInv
<1>1. PICK p \in Priorities :
        /\ queue[p] # <<>> /\ TakeFrom(p)
        /\ p = priNormal => pc' \in {"unregister", "drainUnregister"}
        /\ UNCHANGED <<fileItems, skipped, call, ran, dropped, leaked>>
  <2>1. CASE GetNextJob
    <3>1. NextPriority \in Priorities /\ queue[NextPriority] # <<>> /\ TakeFrom(NextPriority)
      BY <2>1, NextPriorityQueued DEF GetNextJob
    <3>2. NextPriority = priNormal => pc' \in {"unregister", "drainUnregister"}
      BY <2>1 DEF GetNextJob
    <3> QED BY <2>1, <3>1, <3>2 DEF GetNextJob
  <2>2. CASE GetNextLowPriorityJob
    <3>1. priLow \in Priorities /\ priLow # priNormal
      BY DEF priLow, priNormal, priHigh, Priorities
    <3> QED BY <2>2, <3>1 DEF GetNextLowPriorityJob, HasLowPriorityQueuedItems
  <2> QED BY <2>1, <2>2
<1>2. /\ wi' \in SeqItems(queue[p])
      /\ \A r \in Priorities : SeqItems(queue'[r]) \subseteq SeqItems(queue[r])
  BY <1>1, TakeFromItems
<1>3. ASSUME NEW w \in Items, Pool(w)' PROVE Pool(w)
  BY <1>1, <1>2, <1>3 DEF Pool, Finished
<1>4. ASSUME NEW w \in fileItems'
      PROVE /\ w \notin Finished' /\ w \notin SeqItems(skipped')
            /\ wi' = w => pc' \in {"unregister", "drainUnregister"}
            /\ \A r \in Priorities \ {priNormal} : w \notin SeqItems(queue'[r])
  BY <1>1, <1>2, <1>4 DEF RegInv, Finished
<1> QED BY <1>1, <1>3, <1>4, QueueInvMove

LEMMA QueueInvConsumer ==
  ASSUME QueueInv, Consumer
  PROVE HandedInv' /\ RegInv'
<1> USE DEF QueueInv, TypeInv
<1>1. CASE \/ OuterLoop \/ InnerLoop \/ WaitForWork \/ WorkLoop \/ BeginParse \/ BeginLowPass
           \/ SkipLowPass \/ ContinueLowPass \/ EndLowPass
  BY <1>1, QueueInvQuiet DEF Goto, OuterLoop, InnerLoop, WaitForWork, WorkLoop, BeginParse,
     BeginLowPass, SkipLowPass, ContinueLowPass, EndLowPass
<1>2. CASE TakeDirLock \/ ReleaseDirLock \/ EndNormalDrain \/ EndDrain
  <2>1. /\ UNCHANGED <<queue, fileItems, skipped, wi, ran, dropped, leaked, call>>
        /\ pc \in {"lock", "lowLock", "exit", "unlock", "drain", "drainLow"}
    BY <1>2 DEF TakeDirLock, ReleaseDirLock, EndNormalDrain, Goto, EndDrain
  <2> QED BY <2>1, QueueInvQuiet
<1>3. CASE GetNextJob \/ GetNextLowPriorityJob
  BY <1>3, QueueInvTake
<1>4. CASE UnregisterFileItem
  <2>1. /\ UNCHANGED <<queue, skipped, wi, ran, dropped, leaked, call>>
        /\ fileItems' = fileItems \ {wi}
    BY <1>4 DEF UnregisterFileItem
  <2>2. \A w \in Items : Pool(w)' => Pool(w)
    BY <2>1 DEF Pool, Finished
  <2> QED BY <2>1, <2>2, QueueInvMove DEF RegInv, Finished
<1>5. CASE SkipWorkItem
  <2>1. /\ UNCHANGED <<queue, fileItems, ran, dropped, leaked, call>>
        /\ skipped' = Append(skipped, wi) /\ wi' = NoItem /\ pc = "run"
    BY <1>5 DEF SkipWorkItem
  <2>2. wi \in Items
    BY <2>1 DEF HoldingItem, Holding
  <2>3. SeqItems(skipped') = SeqItems(skipped) \cup {wi}
    BY <2>1, <2>2, SeqItemsAppend DEF TypeOK
  <2>4. \A w \in Items : Pool(w)' => Pool(w)
    BY <2>1, <2>3, ItemAssumption DEF Pool, Finished
  <2>5. fileItems \subseteq Items
    BY ItemAssumption DEF TypeOK
  <2> QED BY <2>1, <2>3, <2>4, <2>5, ItemAssumption, QueueInvMove DEF RegInv, Finished
<1>6. CASE EndParse \/ DrainItem
  <2>1. /\ UNCHANGED <<queue, fileItems, skipped, call, leaked>> /\ wi' = NoItem
        /\ Finished' \subseteq Finished \cup {wi}
        /\ pc \in {"parsing", "drainRun"}
    BY <1>6 DEF EndParse, DrainItem, Finished
  <2>2. \A w \in Items : Pool(w)' => Pool(w)
    BY <2>1, ItemAssumption DEF Pool
  <2>3. fileItems \subseteq Items
    BY ItemAssumption DEF TypeOK
  <2> QED BY <2>1, <2>2, <2>3, ItemAssumption, QueueInvMove DEF RegInv
<1>7. CASE RequeueSkippedItems
  <2>1. PICK p \in Priorities :
          /\ queue' = [queue EXCEPT ![p] = queue[p] \o skipped] /\ skipped' = <<>>
          /\ UNCHANGED <<fileItems, wi, call, ran, dropped, leaked>>
          /\ pc \in {"requeue", "lowEnd"}
    <3>1. PICK move \in {<<"requeue", "low", priNormal>>, <<"lowEnd", "inner", priLow>>} :
            /\ pc = move[1]
            /\ queue' = [queue EXCEPT ![move[3]] = @ \o skipped] /\ skipped' = <<>>
            /\ UNCHANGED <<fileItems, wi, call, ran, dropped, leaked>>
      BY <1>7 DEF RequeueSkippedItems
    <3>2. move[3] \in Priorities /\ move[1] \in {"requeue", "lowEnd"}
      BY DEF Priorities, priLow, priNormal, priHigh
    <3> QED BY <3>1, <3>2
  <2>2. SeqItems(queue[p] \o skipped) \subseteq SeqItems(queue[p]) \cup SeqItems(skipped)
    BY <2>1, SeqItemsConcat DEF TypeOK
  <2>3. \A r \in Priorities : SeqItems(queue'[r]) \subseteq SeqItems(queue[r]) \cup SeqItems(skipped)
    BY <2>1, <2>2 DEF TypeOK
  <2>4. SeqItems(skipped') = {}
    BY <2>1, SeqItemsEmpty
  <2>5. ASSUME NEW w \in Items, Pool(w)' PROVE Pool(w)
    BY <2>1, <2>3, <2>4, <2>5 DEF Pool, Finished
  <2>6. \A w \in fileItems : wi # w
    BY <2>1, ItemAssumption DEF RegInv
  <2> QED BY <2>1, <2>3, <2>4, <2>5, <2>6, QueueInvMove DEF RegInv, Finished
<1>8. CASE DestroyThread
  <2>1. /\ UNCHANGED <<wi, call, ran, dropped>> /\ fileItems' = {} /\ skipped' = <<>>
        /\ queue' = [p \in Priorities |-> <<>>]
        /\ leaked' = leaked \cup AllQueued \cup SeqItems(skipped)
    BY <1>8 DEF DestroyThread
  <2>2. \A p \in Priorities : SeqItems(queue'[p]) = {}
    BY <2>1, SeqItemsEmpty
  <2>3. SeqItems(skipped') = {}
    BY <2>1, SeqItemsEmpty
  <2>4. \A w \in AllQueued : \E p \in Priorities : w \in SeqItems(queue[p])
    BY DEF AllQueued
  <2>5. ASSUME NEW w \in Items, Pool(w)' PROVE Pool(w)
    BY <2>1, <2>2, <2>3, <2>4, <2>5 DEF Pool, Finished
  <2> QED BY <2>1, <2>5, QueueInvMove
<1> QED BY <1>1, <1>2, <1>3, <1>4, <1>5, <1>6, <1>7, <1>8 DEF Consumer

\* What the other threads leave alone.
LEMMA EnvironmentKeeps ==
  ASSUME Environment
  PROVE  /\ UNCHANGED <<objectVars, wi, activePri, lowPass, threadVars, callVars, resultVars>>
         /\ pc' = pc \/ (pc = "low" /\ pc' = "exit")
BY DEF Environment, RunThrows, BeginRefactoring, RequestSynchronousFileParse,
   LoadProject, FreeTheGlobals, UiStep, LoadStep, EnvStep, Ui, EndRefactoring,
   SynchronousFileParse, EndSynchronousFileParse, StopAllThreads, Load,
   LoadTakesDirLock, LoadTestsUnloading, LoadResetsStopIt, EndLoad

LEMMA QueueInvStep == QueueInv /\ [Next]_vars => QueueInv'
<1> SUFFICES ASSUME QueueInv, [Next]_vars PROVE QueueInv'
  OBVIOUS
<1>1. CASE \E w \in Items : Producer(w)
  BY <1>1, QueueInvProducer, TypeInvStep DEF QueueInv
<1>2. CASE Consumer
  BY <1>2, QueueInvConsumer, TypeInvStep DEF QueueInv
<1>3. CASE Environment
  BY <1>3, EnvironmentKeeps, QueueInvQuiet, TypeInvStep DEF QueueInv
<1>4. CASE UNCHANGED vars
  BY <1>4, QueueInvQuiet, TypeInvStep DEF QueueInv, vars
<1> QED BY <1>1, <1>2, <1>3, <1>4 DEF Next, Environment

\* No request is ever written into an item that the consumer is running, has set
\* aside or has deleted: what QueueFileWorkItem may update is still waiting.
THEOREM NoUpdateOfRunningItem == Spec => []RegisteredItemsAreWaiting
<1>1. QueueInv => RegisteredItemsAreWaiting
  BY DEF QueueInv, RegInv, RegisteredItemsAreWaiting
<1> QED BY <1>1, QueueInvInit, QueueInvStep, PTL DEF Spec

Positions(w, q) == {i \in DOMAIN q : q[i] = w}

LEMMA PositionsFinite ==
  ASSUME NEW S, NEW q \in Seq(S), NEW w
  PROVE  /\ Positions(w, q) \subseteq 1 .. Len(q)
         /\ IsFiniteSet(Positions(w, q))
         /\ Occurrences(w, q) = Cardinality(Positions(w, q))
         /\ Occurrences(w, q) \in Nat
<1>1. Positions(w, q) \subseteq 1 .. Len(q) /\ Len(q) \in Nat
  BY DEF Positions
<1>2. IsFiniteSet(1 .. Len(q))
  BY <1>1, FS_Interval
<1>3. IsFiniteSet(Positions(w, q))
  BY <1>1, <1>2, FS_Subset
<1>4. Occurrences(w, q) = Cardinality(Positions(w, q))
  BY DEF Occurrences, Positions
<1> QED BY <1>1, <1>3, <1>4, FS_CardinalityType

LEMMA ShiftCardinality ==
  ASSUME NEW S \in SUBSET Int, NEW k \in Int, IsFiniteSet(S),
         NEW T, T = {i + k : i \in S}
  PROVE  IsFiniteSet(T) /\ Cardinality(T) = Cardinality(S)
<1> DEFINE f == [i \in S |-> i + k]
<1>1. f \in [S -> T]
  OBVIOUS
<1>2. \A i, j \in S : f[i] = f[j] => i = j
  OBVIOUS
<1>3. \A t \in T : \E i \in S : f[i] = t
  OBVIOUS
<1> HIDE DEF f
<1>4. f \in Injection(S, T)
  BY <1>1, <1>2 DEF Injection, IsInjective
<1>6. f \in Surjection(S, T)
  BY <1>1, <1>3 DEF Surjection
<1>7. f \in Bijection(S, T)
  BY <1>4, <1>6 DEF Bijection
<1>5. ExistsBijection(S, T)
  BY <1>7 DEF ExistsBijection
<1> QED BY <1>5, FS_Bijection

LEMMA OccurrencesEmpty ==
  ASSUME NEW w PROVE Occurrences(w, <<>>) = 0
<1>1. {i \in DOMAIN <<>> : <<>>[i] = w} = {}
  OBVIOUS
<1> QED BY <1>1, FS_EmptySet DEF Occurrences

LEMMA OccurrencesMember ==
  ASSUME NEW S, NEW q \in Seq(S), NEW w
  PROVE  Occurrences(w, q) = 0 <=> w \notin SeqItems(q)
<1>1. Positions(w, q) = {} <=> w \notin SeqItems(q)
  BY DEF Positions, SeqItems
<1> QED BY <1>1, PositionsFinite, FS_EmptySet

LEMMA OccurrencesConcat ==
  ASSUME NEW S, NEW q \in Seq(S), NEW r \in Seq(S), NEW w
  PROVE  Occurrences(w, q \o r) = Occurrences(w, q) + Occurrences(w, r)
<1> DEFINE T == {i + Len(q) : i \in Positions(w, r)}
<1>1. /\ DOMAIN (q \o r) = 1 .. Len(q) + Len(r) /\ Len(q) \in Nat /\ Len(r) \in Nat
      /\ DOMAIN q = 1 .. Len(q) /\ DOMAIN r = 1 .. Len(r)
      /\ \A i \in 1 .. Len(q) + Len(r) :
           (q \o r)[i] = IF i <= Len(q) THEN q[i] ELSE r[i - Len(q)]
      /\ q \o r \in Seq(S)
  OBVIOUS
<1>2. IsFiniteSet(T) /\ Cardinality(T) = Occurrences(w, r)
  <2>1. Positions(w, r) \in SUBSET Int /\ IsFiniteSet(Positions(w, r))
    BY PositionsFinite, <1>1
  <2>2. Len(q) \in Int
    BY <1>1
  <2>3. IsFiniteSet(T) /\ Cardinality(T) = Cardinality(Positions(w, r))
    BY <2>1, <2>2, ShiftCardinality
  <2> QED BY <2>3, PositionsFinite
<1>3. Positions(w, q) \cap T = {}
  BY <1>1 DEF Positions
<1>4. Positions(w, q \o r) = Positions(w, q) \cup T
  <2>1. ASSUME NEW i \in Positions(w, q \o r) PROVE i \in Positions(w, q) \cup T
    <3>1. i \in 1 .. Len(q) + Len(r) /\ (q \o r)[i] = w
      BY <1>1 DEF Positions
    <3>2. CASE i <= Len(q)
      BY <1>1, <3>1, <3>2 DEF Positions
    <3>3. CASE ~(i <= Len(q))
      <4>1. i - Len(q) \in Positions(w, r) /\ i = (i - Len(q)) + Len(q)
        BY <1>1, <3>1, <3>3 DEF Positions
      <4> QED BY <4>1
    <3> QED BY <3>2, <3>3
  <2>2. ASSUME NEW i \in Positions(w, q) \cup T PROVE i \in Positions(w, q \o r)
    <3>1. CASE i \in Positions(w, q)
      BY <1>1, <3>1 DEF Positions
    <3>2. CASE i \in T
      <4>1. PICK j \in Positions(w, r) : i = j + Len(q)
        BY <3>2
      <4>2. j \in 1 .. Len(r) /\ r[j] = w
        BY <1>1 DEF Positions
      <4>3. i \in 1 .. Len(q) + Len(r) /\ ~(i <= Len(q)) /\ i - Len(q) = j
        BY <1>1, <4>1, <4>2
      <4> QED BY <1>1, <4>2, <4>3 DEF Positions
    <3> QED BY <2>2, <3>1, <3>2
  <2> QED BY <2>1, <2>2
<1>5. Cardinality(Positions(w, q) \cup T)
        = Cardinality(Positions(w, q)) + Cardinality(T) - Cardinality(Positions(w, q) \cap T)
  BY <1>2, PositionsFinite, FS_Union
<1>6. Cardinality(Positions(w, q) \cap T) = 0
  BY <1>3, FS_EmptySet
<1>7. Occurrences(w, q \o r) = Cardinality(Positions(w, q \o r))
  BY <1>1, PositionsFinite
<1> QED BY <1>2, <1>4, <1>5, <1>6, <1>7, PositionsFinite

LEMMA OccurrencesOne ==
  ASSUME NEW x, NEW w
  PROVE  Occurrences(w, <<x>>) = IF x = w THEN 1 ELSE 0
<1>1. {i \in DOMAIN <<x>> : <<x>>[i] = w} = IF x = w THEN {1} ELSE {}
  OBVIOUS
<1> QED BY <1>1, FS_EmptySet, FS_Singleton DEF Occurrences

LEMMA OccurrencesAppend ==
  ASSUME NEW S, NEW q \in Seq(S), NEW x \in S, NEW w
  PROVE  Occurrences(w, Append(q, x)) = Occurrences(w, q) + (IF x = w THEN 1 ELSE 0)
<1>1. Append(q, x) = q \o <<x>> /\ <<x>> \in Seq(S)
  OBVIOUS
<1>2. Occurrences(w, q \o <<x>>) = Occurrences(w, q) + Occurrences(w, <<x>>)
  BY <1>1, OccurrencesConcat
<1> QED BY <1>1, <1>2, OccurrencesOne

LEMMA OccurrencesHeadTail ==
  ASSUME NEW S, NEW q \in Seq(S), q # <<>>, NEW w
  PROVE  Occurrences(w, q) = Occurrences(w, Tail(q)) + (IF Head(q) = w THEN 1 ELSE 0)
<1>1. q = <<Head(q)>> \o Tail(q) /\ <<Head(q)>> \in Seq(S) /\ Tail(q) \in Seq(S)
  OBVIOUS
<1>2. Occurrences(w, q) = Occurrences(w, <<Head(q)>>) + Occurrences(w, Tail(q))
  BY <1>1, OccurrencesConcat
<1>3. Occurrences(w, Tail(q)) \in Nat
  BY <1>1, PositionsFinite
<1> QED BY <1>2, <1>3, OccurrencesOne

-----------------------------------------------------------------------------
(* Ownership.  OwnedOnce counts an item in all containers; what makes it    *)
(* inductive is that the sum is 1 for items that were handed over and 0 for *)
(* others, since every step moves one count.                                *)

One(b) == IF b THEN 1 ELSE 0
Queued(w) ==
  Occurrences(w, queue[priLow]) + Occurrences(w, queue[priBelowNormal])
  + Occurrences(w, queue[priNormal]) + Occurrences(w, queue[priHigh])
Ends(w) == One(w \in ran) + One(w \in dropped) + One(w \in leaked)
Total(w) == Queued(w) + Occurrences(w, skipped) + One(wi = w) + Ends(w)
OnceInv == \A w \in Items : Total(w) = One(call[w] = "handed")

LEMMA PriorityCases == Priorities = {priLow, priBelowNormal, priNormal, priHigh}
BY DEF Priorities, priLow, priBelowNormal, priNormal, priHigh

LEMMA CountsAreNat ==
  ASSUME TypeOK, NEW w
  PROVE  /\ \A p \in Priorities : Occurrences(w, queue[p]) \in Nat
         /\ Occurrences(w, skipped) \in Nat /\ Queued(w) \in Nat /\ Ends(w) \in 0 .. 3
<1>1. ASSUME NEW p \in Priorities PROVE Occurrences(w, queue[p]) \in Nat
  <2>1. queue[p] \in Seq(Items)
    BY DEF TypeOK
  <2> QED BY <2>1, PositionsFinite
<1>2. Occurrences(w, skipped) \in Nat
  BY PositionsFinite DEF TypeOK
<1>3. Queued(w) \in Nat
  BY <1>1, PriorityCases DEF Queued
<1> QED BY <1>1, <1>2, <1>3 DEF Ends, One

LEMMA QueueChange ==
  ASSUME TypeOK, NEW p \in Priorities, NEW w
  PROVE  \A d \in Int :
           (\A r \in Priorities : Occurrences(w, queue'[r])
                                  = Occurrences(w, queue[r]) + (IF r = p THEN d ELSE 0))
           => Queued(w)' = Queued(w) + d
<1> SUFFICES ASSUME NEW d \in Int,
                    \A r \in Priorities : Occurrences(w, queue'[r])
                                  = Occurrences(w, queue[r]) + (IF r = p THEN d ELSE 0)
             PROVE  Queued(w)' = Queued(w) + d
  OBVIOUS
<1>1. /\ priLow \in Priorities /\ priBelowNormal \in Priorities
      /\ priNormal \in Priorities /\ priHigh \in Priorities
  BY PriorityCases
<1>4. Queued(w)' = Occurrences(w, queue'[priLow]) + Occurrences(w, queue'[priBelowNormal])
                   + Occurrences(w, queue'[priNormal]) + Occurrences(w, queue'[priHigh])
  BY DEF Queued, Occurrences
<1>5. /\ priLow # priBelowNormal /\ priLow # priNormal /\ priLow # priHigh
      /\ priBelowNormal # priNormal /\ priBelowNormal # priHigh /\ priNormal # priHigh
  BY DEF priLow, priBelowNormal, priNormal, priHigh
<1>6. p \in {priLow, priBelowNormal, priNormal, priHigh}
  BY PriorityCases
<1> QED BY <1>1, <1>4, <1>5, <1>6, CountsAreNat DEF Queued

LEMMA OnceInvInit == Init => OnceInv
<1> SUFFICES ASSUME Init, NEW w \in Items PROVE Total(w) = 0 /\ call[w] = "new"
  BY DEF OnceInv, One
<1>1. \A p \in Priorities : Occurrences(w, queue[p]) = 0
  BY OccurrencesEmpty DEF Init
<1>2. Queued(w) = 0
  BY <1>1, PriorityCases DEF Queued
<1>3. Occurrences(w, skipped) = 0
  BY OccurrencesEmpty DEF Init
<1> QED BY <1>2, <1>3, ItemAssumption DEF Init, Total, Ends, One

\* A step that moves no item and hands none over.
LEMMA OnceInvQuiet ==
  ASSUME OnceInv, UNCHANGED <<queue, skipped, wi, ran, dropped, leaked>>,
         \A w \in Items : call[w] = "handed" <=> call'[w] = "handed"
  PROVE  OnceInv'
<1>1. ASSUME NEW w \in Items PROVE Total(w)' = Total(w)
  BY DEF Total, Queued, Ends, One
<1> QED BY <1>1 DEF OnceInv, One

LEMMA OnceInvProducer ==
  ASSUME TypeInv, OnceInv, NEW v \in Items, Producer(v)
  PROVE  OnceInv'
<1> USE DEF TypeInv
<1>1. CASE ReadGlobal(v) \/ CallDestroyedThread(v) \/ QueueFileWorkItem(v)
  <2>1. UNCHANGED <<queue, skipped, wi, ran, dropped, leaked>>
    BY <1>1 DEF ReadGlobal, CallDestroyedThread, QueueFileWorkItem
  <2>2. /\ call[v] \in {"new", "called", "registered"}
        /\ call' \in {[call EXCEPT ![v] = "called"], [call EXCEPT ![v] = "stray"],
                      [call EXCEPT ![v] = "merged"], [call EXCEPT ![v] = "registered"]}
    BY <1>1 DEF ReadGlobal, CallDestroyedThread, QueueFileWorkItem
  <2>3. \A w \in Items : call[w] = "handed" <=> call'[w] = "handed"
    BY <2>2 DEF TypeOK
  <2> QED BY <2>1, <2>3, OnceInvQuiet
<1>2. CASE QueueParseWorkItem(v)
  <2>1. /\ UNCHANGED <<skipped, wi, ran, dropped, leaked>>
        /\ queue' = [queue EXCEPT ![PriOf[v]] = Append(queue[PriOf[v]], v)]
        /\ call' = [call EXCEPT ![v] = "handed"]
        /\ call[v] \in {"called", "registered"}
    BY <1>2 DEF QueueParseWorkItem
  <2>2. PriOf[v] \in Priorities /\ queue[PriOf[v]] \in Seq(Items)
    BY ItemAssumption DEF TypeOK
  <2>3. ASSUME NEW w \in Items PROVE Total(w)' = Total(w) + One(w = v)
    <3>1. Occurrences(w, Append(queue[PriOf[v]], v)) = Occurrences(w, queue[PriOf[v]]) + One(w = v)
      BY <2>2, OccurrencesAppend DEF One
    <3>4. One(w = v) \in Int
      BY DEF One
    <3>5. \A r \in Priorities : Occurrences(w, queue'[r])
                  = Occurrences(w, queue[r]) + (IF r = PriOf[v] THEN One(w = v) ELSE 0)
      <4>1. /\ queue'[PriOf[v]] = Append(queue[PriOf[v]], v)
            /\ \A r \in Priorities \ {PriOf[v]} : queue'[r] = queue[r]
        BY <2>1, <2>2 DEF TypeOK
      <4>2. Occurrences(w, queue'[PriOf[v]]) = Occurrences(w, queue[PriOf[v]]) + One(w = v)
        BY <3>1, <4>1
      <4>3. \A r \in Priorities \ {PriOf[v]} : Occurrences(w, queue'[r]) = Occurrences(w, queue[r]) + 0
        <5>1. \A r \in Priorities : Occurrences(w, queue[r]) \in Nat
          BY CountsAreNat
        <5> QED BY <4>1, <5>1
      <4> QED BY <4>2, <4>3
    <3>2. Queued(w)' = Queued(w) + One(w = v)
      BY <2>2, <3>4, <3>5, QueueChange
    <3>3. Occurrences(w, skipped)' = Occurrences(w, skipped) /\ Ends(w)' = Ends(w)
      BY <2>1 DEF Ends
    <3> QED BY <2>1, <3>2, <3>3, CountsAreNat DEF Total, One
  <2>4. ASSUME NEW w \in Items PROVE One(call[w] = "handed")' = One(call[w] = "handed") + One(w = v)
    BY <2>1 DEF TypeOK, One
  <2> QED BY <2>3, <2>4 DEF OnceInv
<1> QED BY <1>1, <1>2 DEF Producer

LEMMA OnceInvTake ==
  ASSUME TypeInv, OnceInv, GetNextJob \/ GetNextLowPriorityJob
  PROVE  OnceInv'
<1> USE DEF TypeInv
<1>1. PICK p \in Priorities :
        /\ queue[p] # <<>> /\ TakeFrom(p) /\ UNCHANGED <<skipped, call, ran, dropped, leaked>>
        /\ wi = NoItem
  <2>1. wi = NoItem
    BY DEF GetNextJob, GetNextLowPriorityJob, HoldingItem, Holding, TypeOK
  <2>2. CASE GetNextJob
    <3>1. NextPriority \in Priorities /\ queue[NextPriority] # <<>> /\ TakeFrom(NextPriority)
      BY <2>2, NextPriorityQueued DEF GetNextJob
    <3>2. UNCHANGED <<skipped, call, ran, dropped, leaked>>
      BY <2>2 DEF GetNextJob
    <3> QED BY <2>1, <3>1, <3>2
  <2>3. CASE GetNextLowPriorityJob
    <3>1. /\ queue[priLow] # <<>> /\ TakeFrom(priLow)
          /\ UNCHANGED <<skipped, call, ran, dropped, leaked>>
      BY <2>3 DEF GetNextLowPriorityJob, HasLowPriorityQueuedItems
    <3>2. priLow \in Priorities
      BY PriorityCases
    <3> QED BY <2>1, <3>1, <3>2
  <2> QED BY <2>2, <2>3
<1>2. queue[p] \in Seq(Items) /\ wi' = Head(queue[p]) /\ queue' = [queue EXCEPT ![p] = Tail(queue[p])]
  BY <1>1 DEF TypeOK, TakeFrom
<1>3. ASSUME NEW w \in Items PROVE Total(w)' = Total(w)
  <2>1. Occurrences(w, queue[p]) = Occurrences(w, Tail(queue[p])) + One(wi' = w)
    BY <1>1, <1>2, OccurrencesHeadTail DEF One
  <2>2. Tail(queue[p]) \in Seq(Items)
    BY <1>1, <1>2
  <2>3. Occurrences(w, Tail(queue[p])) \in Nat
    BY <2>2, PositionsFinite
  <2>4. Occurrences(w, Tail(queue[p])) = Occurrences(w, queue[p]) + (0 - One(wi' = w))
    BY <2>1, <2>3 DEF One
  <2>8. 0 - One(wi' = w) \in Int
    BY DEF One
  <2>9. \A r \in Priorities : Occurrences(w, queue'[r])
                = Occurrences(w, queue[r]) + (IF r = p THEN 0 - One(wi' = w) ELSE 0)
    <3>1. queue'[p] = Tail(queue[p]) /\ \A r \in Priorities \ {p} : queue'[r] = queue[r]
      BY <1>2 DEF TypeOK
    <3> QED BY <2>4, <3>1, CountsAreNat
  <2>5. Queued(w)' = Queued(w) + (0 - One(wi' = w))
    BY <2>8, <2>9, QueueChange
  <2>6. Occurrences(w, skipped)' = Occurrences(w, skipped) /\ Ends(w)' = Ends(w)
    BY <1>1 DEF Ends
  <2>7. wi # w
    BY <1>1, ItemAssumption
  <2> QED BY <2>5, <2>6, <2>7, CountsAreNat DEF Total, One
<1> QED BY <1>1, <1>3 DEF OnceInv

LEMMA OnceInvFinish ==
  ASSUME TypeInv, OnceInv, EndParse \/ DrainItem
  PROVE  OnceInv'
<1> USE DEF TypeInv
<1>1. /\ UNCHANGED <<queue, skipped, leaked, call>> /\ wi \in Items /\ wi' = NoItem
      /\ \/ ran' = ran \cup {wi} /\ UNCHANGED dropped
         \/ dropped' = dropped \cup {wi} /\ UNCHANGED ran
  BY DEF EndParse, DrainItem, HoldingItem, Holding
<1>2. Total(wi) \in {0, 1}
  BY <1>1 DEF OnceInv, One
<1>3. wi \notin ran /\ wi \notin dropped
  <2>1. Ends(wi) = 0
    BY <1>2, CountsAreNat DEF Total, One
  <2> QED BY <2>1 DEF Ends, One
<1>4. ASSUME NEW w \in Items PROVE Total(w)' = Total(w)
  <2>1. Queued(w)' = Queued(w) /\ Occurrences(w, skipped)' = Occurrences(w, skipped)
    BY <1>1 DEF Queued
  <2>2. Ends(w)' = Ends(w) + One(w = wi)
    BY <1>1, <1>3 DEF Ends, One
  <2>3. wi' # w
    BY <1>1, ItemAssumption
  <2> QED BY <2>1, <2>2, <2>3, CountsAreNat DEF Total, One
<1> QED BY <1>1, <1>4 DEF OnceInv

LEMMA OnceInvSkip ==
  ASSUME TypeInv, OnceInv, SkipWorkItem
  PROVE  OnceInv'
<1> USE DEF TypeInv
<1>1. /\ UNCHANGED <<queue, ran, dropped, leaked, call>> /\ wi \in Items /\ wi' = NoItem
      /\ skipped' = Append(skipped, wi)
  BY DEF SkipWorkItem, HoldingItem, Holding
<1>2. ASSUME NEW w \in Items PROVE Total(w)' = Total(w)
  <2>1. Occurrences(w, skipped)' = Occurrences(w, skipped) + One(wi = w)
    <3>1. Occurrences(w, Append(skipped, wi)) = Occurrences(w, skipped) + (IF wi = w THEN 1 ELSE 0)
      BY <1>1, OccurrencesAppend DEF TypeOK
    <3> QED BY <1>1, <3>1 DEF One
  <2>2. Queued(w)' = Queued(w) /\ Ends(w)' = Ends(w)
    BY <1>1 DEF Queued, Ends
  <2>3. wi' # w
    BY <1>1, ItemAssumption
  <2> QED BY <2>1, <2>2, <2>3, CountsAreNat DEF Total, One
<1> QED BY <1>1, <1>2 DEF OnceInv

LEMMA OnceInvRequeue ==
  ASSUME TypeInv, OnceInv, RequeueSkippedItems
  PROVE  OnceInv'
<1> USE DEF TypeInv
<1>1. PICK p \in Priorities :
        /\ queue' = [queue EXCEPT ![p] = queue[p] \o skipped] /\ skipped' = <<>>
        /\ UNCHANGED <<wi, call, ran, dropped, leaked>>
  <2>1. PICK move \in {<<"requeue", "low", priNormal>>, <<"lowEnd", "inner", priLow>>} :
          /\ queue' = [queue EXCEPT ![move[3]] = @ \o skipped] /\ skipped' = <<>>
          /\ UNCHANGED <<wi, call, ran, dropped, leaked>>
    BY DEF RequeueSkippedItems
  <2>2. move[3] \in Priorities
    BY PriorityCases
  <2> QED BY <2>1, <2>2
<1>2. queue[p] \in Seq(Items) /\ skipped \in Seq(Items)
  BY DEF TypeOK
<1>3. /\ queue'[p] = queue[p] \o skipped
      /\ \A r \in Priorities \ {p} : queue'[r] = queue[r]
  BY <1>1 DEF TypeOK
<1>4. ASSUME NEW w \in Items PROVE Total(w)' = Total(w)
  <2>1. Occurrences(w, queue'[p]) = Occurrences(w, queue[p]) + Occurrences(w, skipped)
    BY <1>2, <1>3, OccurrencesConcat
  <2>2. /\ \A r \in Priorities : Occurrences(w, queue[r]) \in Nat
        /\ Occurrences(w, skipped) \in Nat /\ Queued(w) \in Nat /\ Ends(w) \in 0 .. 3
    BY CountsAreNat
  <2>3. \A r \in Priorities : Occurrences(w, queue'[r])
              = Occurrences(w, queue[r]) + (IF r = p THEN Occurrences(w, skipped) ELSE 0)
    <3>1. \A r \in Priorities \ {p} : Occurrences(w, queue'[r]) = Occurrences(w, queue[r]) + 0
      BY <1>3, <2>2
    <3> QED BY <2>1, <3>1
  <2>4. Queued(w)' = Queued(w) + Occurrences(w, skipped)
    BY <2>2, <2>3, QueueChange
  <2>5. Occurrences(w, skipped)' = 0
    BY <1>1, OccurrencesEmpty
  <2>6. Ends(w)' = Ends(w) /\ One(wi = w)' = One(wi = w) /\ One(wi = w) \in Nat
    BY <1>1 DEF Ends, One
  <2> QED BY <2>2, <2>4, <2>5, <2>6 DEF Total
<1> QED BY <1>1, <1>4 DEF OnceInv

LEMMA OnceInvDestroy ==
  ASSUME TypeInv, OnceInv, DestroyThread
  PROVE  OnceInv'
<1> USE DEF TypeInv
<1>1. /\ UNCHANGED <<wi, call, ran, dropped>> /\ skipped' = <<>>
      /\ queue' = [p \in Priorities |-> <<>>]
      /\ leaked' = leaked \cup AllQueued \cup SeqItems(skipped)
  BY DEF DestroyThread
<1>2. ASSUME NEW w \in Items PROVE Total(w)' = Total(w)
  <2>1. /\ \A r \in Priorities : Occurrences(w, queue[r]) \in Nat
        /\ Occurrences(w, skipped) \in Nat /\ Queued(w) \in Nat /\ Ends(w) \in 0 .. 3
    BY CountsAreNat
  <2>2. Total(w) \in {0, 1}
    BY DEF OnceInv, One
  <2>3. Queued(w)' = 0 /\ Occurrences(w, skipped)' = 0
    <3>1. \A r \in Priorities : Occurrences(w, queue'[r]) = 0
      BY <1>1, OccurrencesEmpty
    <3> QED BY <1>1, <3>1, OccurrencesEmpty, PriorityCases DEF Queued
  <2>4. /\ w \in SeqItems(skipped) <=> Occurrences(w, skipped) # 0
        /\ w \in AllQueued <=> Queued(w) # 0
    <3>1. \A r \in Priorities : w \in SeqItems(queue[r]) <=> Occurrences(w, queue[r]) # 0
      BY OccurrencesMember DEF TypeOK
    <3>2. Queued(w) # 0 <=> \E r \in Priorities : Occurrences(w, queue[r]) # 0
      BY <2>1, PriorityCases DEF Queued
    <3>3. w \in AllQueued <=> \E r \in Priorities : w \in SeqItems(queue[r])
      BY DEF AllQueued
    <3> QED BY <3>1, <3>2, <3>3, OccurrencesMember DEF TypeOK
  <2>5. One(wi = w)' = One(wi = w) /\ One(wi = w) \in {0, 1}
    BY <1>1 DEF One
  <2>6. CASE w \in AllQueued \cup SeqItems(skipped)
    <3>1. Queued(w) + Occurrences(w, skipped) = 1 /\ Ends(w) = 0
      BY <2>1, <2>2, <2>4, <2>5, <2>6 DEF Total
    <3>2. w \notin ran /\ w \notin dropped /\ w \notin leaked
      BY <3>1 DEF Ends, One
    <3>3. Ends(w)' = 1
      BY <1>1, <2>6, <3>2 DEF Ends, One
    <3> QED BY <2>1, <2>3, <2>5, <3>1, <3>3 DEF Total
  <2>7. CASE w \notin AllQueued \cup SeqItems(skipped)
    <3>1. Ends(w)' = Ends(w)
      BY <1>1, <2>7 DEF Ends, One
    <3>2. Queued(w) = 0 /\ Occurrences(w, skipped) = 0
      BY <2>4, <2>7
    <3> QED BY <2>3, <2>5, <3>1, <3>2 DEF Total
  <2> QED BY <2>6, <2>7
<1> QED BY <1>1, <1>2 DEF OnceInv

LEMMA OnceInvStep == TypeInv /\ OnceInv /\ [Next]_vars => OnceInv'
<1> SUFFICES ASSUME TypeInv, OnceInv, [Next]_vars PROVE OnceInv'
  OBVIOUS
<1>1. CASE \E w \in Items : Producer(w)
  BY <1>1, OnceInvProducer
<1>2. CASE Consumer
  <2>1. CASE \/ OuterLoop \/ InnerLoop \/ WaitForWork \/ WorkLoop \/ BeginParse \/ BeginLowPass
             \/ SkipLowPass \/ ContinueLowPass \/ EndLowPass
    BY <2>1, OnceInvQuiet DEF Goto, OuterLoop, InnerLoop, WaitForWork, WorkLoop, BeginParse,
       BeginLowPass, SkipLowPass, ContinueLowPass, EndLowPass
  <2>2. CASE TakeDirLock \/ ReleaseDirLock \/ EndNormalDrain \/ EndDrain \/ UnregisterFileItem
    BY <2>2, OnceInvQuiet DEF TakeDirLock, ReleaseDirLock, EndNormalDrain, Goto, EndDrain, UnregisterFileItem
  <2> QED BY <1>2, <2>1, <2>2, OnceInvTake, OnceInvFinish, OnceInvSkip, OnceInvRequeue,
             OnceInvDestroy DEF Consumer
<1>3. CASE Environment
  <2>1. UNCHANGED <<queue, skipped, wi, ran, dropped, leaked, call>>
    BY <1>3 DEF Environment, RunThrows, BeginRefactoring, RequestSynchronousFileParse,
       LoadProject, FreeTheGlobals, UiStep, LoadStep, EnvStep, Ui, EndRefactoring,
       SynchronousFileParse, EndSynchronousFileParse, StopAllThreads, Load,
       LoadTakesDirLock, LoadTestsUnloading, LoadResetsStopIt, EndLoad
  <2> QED BY <2>1, OnceInvQuiet
<1>4. CASE UNCHANGED vars
  BY <1>4, OnceInvQuiet DEF vars
<1> QED BY <1>1, <1>2, <1>3, <1>4 DEF Next, Environment

\* OwnedOnce counts the three ways to end with a set of their numbers.
LEMMA EndsCounted ==
  ASSUME NEW w
  PROVE  Cardinality({s \in {1, 2, 3} :
            w \in (CASE s = 1 -> ran [] s = 2 -> dropped [] s = 3 -> leaked)}) = Ends(w)
<1> DEFINE A == IF w \in ran THEN {1} ELSE {}
           B == IF w \in dropped THEN A \cup {2} ELSE A
           C == IF w \in leaked THEN B \cup {3} ELSE B
<1>1. {s \in {1, 2, 3} : w \in (CASE s = 1 -> ran [] s = 2 -> dropped [] s = 3 -> leaked)} = C
  OBVIOUS
<1>2. IsFiniteSet(A) /\ Cardinality(A) = One(w \in ran) /\ A \subseteq {1}
  BY FS_EmptySet, FS_Singleton DEF One
<1>3. /\ IsFiniteSet(B) /\ B \subseteq {1, 2}
      /\ Cardinality(B) = One(w \in ran) + One(w \in dropped)
  <2>1. IsFiniteSet(A \cup {2}) /\ Cardinality(A \cup {2}) = Cardinality(A) + 1
    BY <1>2, FS_AddElement
  <2> QED BY <1>2, <2>1 DEF One
<1>4. Cardinality(C) = One(w \in ran) + One(w \in dropped) + One(w \in leaked)
  <2>2. 3 \notin B
    BY <1>3
  <2>1. Cardinality(B \cup {3}) = Cardinality(B) + 1
    <3> HIDE DEF B
    <3> QED BY <1>3, <2>2, FS_AddElement
  <2> QED BY <1>3, <2>1 DEF One
<1> QED BY <1>1, <1>4 DEF Ends

\* Whatever was handed over is in exactly one place, and nothing else is anywhere:
\* no job is lost, run twice or deleted twice, over skipping, requeueing, the
\* drain of the destructor and restarts.
THEOREM ItemsOwnedOnce == Spec => []OwnedOnce
<1>1. TypeInv /\ OnceInv => OwnedOnce
  <2> SUFFICES ASSUME TypeInv, OnceInv, NEW w \in Items
               PROVE  /\ call[w] = "handed" <=> Copies(w) + Ends(w) = 1
                      /\ call[w] # "handed" => w \notin Held \cup Finished
    BY EndsCounted DEF OwnedOnce
  <2>1. /\ \A r \in Priorities : Occurrences(w, queue[r]) \in Nat
        /\ Occurrences(w, skipped) \in Nat /\ Queued(w) \in Nat /\ Ends(w) \in 0 .. 3
    BY CountsAreNat DEF TypeInv
  <2>2. Total(w) = Copies(w) + Ends(w) /\ Copies(w) \in Nat
    BY <2>1, PriorityCases DEF Total, Copies, Queued, One
  <2>3. Total(w) = One(call[w] = "handed")
    BY DEF OnceInv
  <2>4. call[w] = "handed" <=> Copies(w) + Ends(w) = 1
    BY <2>2, <2>3 DEF One
  <2>5. ASSUME call[w] # "handed" PROVE w \notin Held \cup Finished
    <3>1. Queued(w) = 0 /\ Occurrences(w, skipped) = 0 /\ One(wi = w) = 0 /\ Ends(w) = 0
      BY <2>1, <2>3, <2>5 DEF Total, One
    <3>2. w \notin Finished /\ wi # w
      BY <3>1 DEF Ends, One, Finished
    <3>3. \A r \in Priorities : Occurrences(w, queue[r]) = 0
      <4>1. /\ Occurrences(w, queue[priLow]) \in Nat /\ Occurrences(w, queue[priBelowNormal]) \in Nat
            /\ Occurrences(w, queue[priNormal]) \in Nat /\ Occurrences(w, queue[priHigh]) \in Nat
        BY <2>1, PriorityCases
      <4>2. /\ Occurrences(w, queue[priLow]) = 0 /\ Occurrences(w, queue[priBelowNormal]) = 0
            /\ Occurrences(w, queue[priNormal]) = 0 /\ Occurrences(w, queue[priHigh]) = 0
        BY <3>1, <4>1 DEF Queued
      <4> QED BY <4>2, PriorityCases
    <3>4. w \notin SeqItems(skipped) /\ \A r \in Priorities : w \notin SeqItems(queue[r])
      BY <3>1, <3>3, OccurrencesMember DEF TypeInv, TypeOK
    <3> QED BY <3>2, <3>4 DEF Held, AllQueued
  <2> QED BY <2>4, <2>5
<1> QED BY <1>1, InitTypeInv, OnceInvInit, TypeInvStep, OnceInvStep, PTL DEF Spec

-----------------------------------------------------------------------------
(* Where jobs are: in the queue of their priority, unless they were set     *)
(* aside, in which case RequeueSkippedItems may have raised or lowered them *)
(* to priNormal.  Low priority jobs stay among themselves, since items are  *)
(* set aside in one kind of pass at a time.                                 *)

Fits(w, p) == PriOf[w] = p \/ (w \in MaySkip /\ p = priNormal /\ PriOf[w] # priLow)
QueuesFit == \A p \in Priorities : \A w \in SeqItems(queue[p]) : Fits(w, p)
ActiveFits ==
  wi \in Items =>
    activePri \in Priorities /\ Fits(wi, activePri) /\ (lowPass <=> activePri = priLow)
AsideFits == \A w \in SeqItems(skipped) : w \in MaySkip /\ (lowPass <=> PriOf[w] = priLow)
AsideInPass ==
  \/ skipped = <<>>
  \/ pc \in {"work", "lock", "pop", "unregister", "requeue"} /\ ~lowPass
  \/ pc \in {"lowWork", "lowLock", "lowPop", "lowEnd"} /\ lowPass
  \/ pc \in {"run", "parsing", "unlock"}
PlaceInv == QueuesFit /\ ActiveFits /\ AsideFits /\ AsideInPass

LEMMA PlaceInvInit == Init => PlaceInv
<1> SUFFICES ASSUME Init PROVE PlaceInv
  OBVIOUS
<1>1. \A p \in Priorities : SeqItems(queue[p]) = {}
  BY SeqItemsEmpty DEF Init
<1> QED BY <1>1, SeqItemsEmpty, ItemAssumption
        DEF Init, PlaceInv, QueuesFit, ActiveFits, AsideFits, AsideInPass

\* A step that moves no item, if any, goes on in the same pass.
LEMMA PlaceInvQuiet ==
  ASSUME PlaceInv, UNCHANGED <<queue, skipped, wi, activePri, lowPass>>, AsideInPass'
  PROVE  PlaceInv'
BY DEF PlaceInv, QueuesFit, ActiveFits, AsideFits, Fits

LEMMA PlaceInvProducer ==
  ASSUME TypeInv, PlaceInv, NEW v \in Items, Producer(v)
  PROVE  PlaceInv'
<1> USE DEF TypeInv
<1>1. AsideInPass'
  BY DEF PlaceInv, AsideInPass, Producer, ReadGlobal, CallDestroyedThread, QueueFileWorkItem,
         QueueParseWorkItem
<1>2. CASE ReadGlobal(v) \/ CallDestroyedThread(v) \/ QueueFileWorkItem(v)
  <2>1. UNCHANGED <<queue, skipped, wi, activePri, lowPass>>
    BY <1>2 DEF ReadGlobal, CallDestroyedThread, QueueFileWorkItem
  <2> QED BY <1>1, <2>1, PlaceInvQuiet
<1>3. CASE QueueParseWorkItem(v)
  <2>1. /\ UNCHANGED <<skipped, wi, activePri, lowPass>>
        /\ queue' = [queue EXCEPT ![PriOf[v]] = Append(queue[PriOf[v]], v)]
    BY <1>3 DEF QueueParseWorkItem
  <2>2. PriOf[v] \in Priorities /\ queue[PriOf[v]] \in Seq(Items)
    BY ItemAssumption DEF TypeOK
  <2>3. SeqItems(Append(queue[PriOf[v]], v)) = SeqItems(queue[PriOf[v]]) \cup {v}
    BY <2>2, SeqItemsAppend
  <2>4. QueuesFit'
    BY <2>1, <2>2, <2>3 DEF PlaceInv, QueuesFit, Fits, TypeOK
  <2> QED BY <1>1, <2>1, <2>4 DEF PlaceInv, ActiveFits, AsideFits, Fits
<1> QED BY <1>2, <1>3 DEF Producer

LEMMA PlaceInvTake ==
  ASSUME TypeInv, PlaceInv, GetNextJob \/ GetNextLowPriorityJob
  PROVE  PlaceInv'
<1> USE DEF TypeInv
<1>1. PICK p \in Priorities :
        /\ queue[p] # <<>> /\ TakeFrom(p) /\ UNCHANGED skipped
        /\ lowPass' = IF p = priLow THEN TRUE ELSE FALSE
        /\ pc \in {"pop", "drain", "lowPop", "drainLow"} /\ pc' # pc
        /\ pc = "pop" => p # priLow /\ pc' \in {"unregister", "run"}
        /\ pc = "lowPop" => p = priLow /\ pc' = "run"
  <2>1. CASE GetNextJob
    <3>1. NextPriority \in Priorities /\ queue[NextPriority] # <<>> /\ TakeFrom(NextPriority)
      BY <2>1, NextPriorityQueued DEF GetNextJob
    <3>2. NextPriority # priLow
      BY DEF NextPriority, priLow, priBelowNormal, priNormal, priHigh
    <3>3. /\ UNCHANGED skipped /\ lowPass' = FALSE
          /\ pc \in {"pop", "drain"} /\ pc' # pc
          /\ pc = "pop" => pc' \in {"unregister", "run"}
      BY <2>1 DEF GetNextJob
    <3> QED BY <3>1, <3>2, <3>3
  <2>2. CASE GetNextLowPriorityJob
    <3>1. /\ queue[priLow] # <<>> /\ TakeFrom(priLow) /\ UNCHANGED skipped /\ lowPass' = TRUE
          /\ pc \in {"lowPop", "drainLow"} /\ pc' # pc
          /\ pc = "lowPop" => pc' = "run"
      BY <2>2 DEF GetNextLowPriorityJob, HasLowPriorityQueuedItems
    <3>2. priLow \in Priorities
      BY PriorityCases
    <3> QED BY <3>1, <3>2
  <2> QED BY <2>1, <2>2
<1>2. /\ wi' \in SeqItems(queue[p])
      /\ \A r \in Priorities : SeqItems(queue'[r]) \subseteq SeqItems(queue[r])
  BY <1>1, TakeFromItems
<1>3. skipped = <<>> \/ lowPass' = lowPass
  BY <1>1 DEF PlaceInv, AsideInPass, TypeOK
<1>4. QueuesFit' /\ ActiveFits'
  BY <1>1, <1>2 DEF PlaceInv, QueuesFit, ActiveFits, Fits, TakeFrom
<1>5. AsideFits'
  BY <1>1, <1>3, SeqItemsEmpty DEF PlaceInv, AsideFits
<1>6. AsideInPass'
  <2>1. CASE skipped = <<>>
    BY <1>1, <2>1 DEF AsideInPass
  <2>2. CASE skipped # <<>>
    BY <1>1, <1>3, <2>2 DEF PlaceInv, AsideInPass
  <2> QED BY <2>1, <2>2
<1> QED BY <1>4, <1>5, <1>6 DEF PlaceInv

LEMMA PlaceInvConsumer ==
  ASSUME TypeInv, PlaceInv, Consumer
  PROVE  PlaceInv'
<1> USE DEF TypeInv
<1>1. CASE \/ OuterLoop \/ InnerLoop \/ WaitForWork \/ WorkLoop \/ BeginParse \/ BeginLowPass
           \/ SkipLowPass \/ ContinueLowPass \/ EndLowPass
  <2>1. UNCHANGED <<queue, skipped, wi, activePri, lowPass>>
    BY <1>1 DEF Goto, OuterLoop, InnerLoop, WaitForWork, WorkLoop, BeginParse, BeginLowPass,
                SkipLowPass, ContinueLowPass, EndLowPass
  <2>2. AsideInPass'
    BY <1>1 DEF Goto, OuterLoop, InnerLoop, WaitForWork, WorkLoop, BeginParse, BeginLowPass,
                SkipLowPass, ContinueLowPass, EndLowPass, PlaceInv, AsideInPass
  <2> QED BY <2>1, <2>2, PlaceInvQuiet
<1>2. CASE TakeDirLock \/ ReleaseDirLock \/ EndNormalDrain \/ EndDrain \/ UnregisterFileItem
  <2>1. UNCHANGED <<queue, skipped, wi, activePri, lowPass>>
    BY <1>2 DEF TakeDirLock, ReleaseDirLock, EndNormalDrain, Goto, EndDrain, UnregisterFileItem
  <2>2. AsideInPass'
    BY <1>2 DEF TakeDirLock, ReleaseDirLock, EndNormalDrain, Goto, EndDrain, UnregisterFileItem, PlaceInv, AsideInPass
  <2> QED BY <2>1, <2>2, PlaceInvQuiet
<1>3. CASE GetNextJob \/ GetNextLowPriorityJob
  BY <1>3, PlaceInvTake
<1>4. CASE SkipWorkItem
  <2>1. /\ UNCHANGED <<queue, lowPass>> /\ wi \in Items \cap MaySkip /\ wi' = NoItem
        /\ skipped' = Append(skipped, wi) /\ pc' = "unlock"
    BY <1>4 DEF SkipWorkItem, HoldingItem, Holding
  <2>2. SeqItems(skipped') = SeqItems(skipped) \cup {wi}
    BY <2>1, SeqItemsAppend DEF TypeOK
  <2>3. lowPass <=> PriOf[wi] = priLow
    BY <2>1 DEF PlaceInv, ActiveFits, Fits, priLow, priNormal
  <2> QED BY <2>1, <2>2, <2>3, ItemAssumption
          DEF PlaceInv, QueuesFit, ActiveFits, AsideFits, AsideInPass
<1>5. CASE EndParse \/ DrainItem
  <2>1. UNCHANGED <<queue, skipped, lowPass>> /\ wi' = NoItem
    BY <1>5 DEF EndParse, DrainItem
  <2>2. AsideInPass'
    BY <1>5 DEF EndParse, DrainItem, PlaceInv, AsideInPass
  <2> QED BY <2>1, <2>2, ItemAssumption DEF PlaceInv, QueuesFit, ActiveFits, AsideFits
<1>6. CASE RequeueSkippedItems
  <2>1. PICK p \in {priNormal, priLow} :
          /\ queue' = [queue EXCEPT ![p] = queue[p] \o skipped] /\ skipped' = <<>>
          /\ UNCHANGED <<wi, activePri, lowPass>>
          /\ IF p = priLow THEN pc = "lowEnd" ELSE pc = "requeue"
    <3>1. PICK move \in {<<"requeue", "low", priNormal>>, <<"lowEnd", "inner", priLow>>} :
            /\ pc = move[1]
            /\ queue' = [queue EXCEPT ![move[3]] = @ \o skipped] /\ skipped' = <<>>
            /\ UNCHANGED <<wi, activePri, lowPass>>
      BY <1>6 DEF RequeueSkippedItems
    <3>2. CASE move = <<"requeue", "low", priNormal>>
      BY <3>1, <3>2 DEF priLow, priNormal
    <3>3. CASE move = <<"lowEnd", "inner", priLow>>
      BY <3>1, <3>3
    <3> QED BY <3>2, <3>3
  <2>2. p \in Priorities
    BY PriorityCases
  <2>3. SeqItems(queue[p] \o skipped) \subseteq SeqItems(queue[p]) \cup SeqItems(skipped)
    BY <2>2, SeqItemsConcat DEF TypeOK
  <2>4. \A w \in SeqItems(skipped) : Fits(w, p)
    <3>1. CASE skipped = <<>>
      BY <3>1, SeqItemsEmpty
    <3>2. CASE skipped # <<>>
      BY <2>1, <3>2 DEF PlaceInv, AsideInPass, AsideFits, Fits
    <3> QED BY <3>1, <3>2
  <2>5. QueuesFit'
    BY <2>1, <2>2, <2>3, <2>4 DEF PlaceInv, QueuesFit, Fits, TypeOK
  <2> QED BY <2>1, <2>5, SeqItemsEmpty DEF PlaceInv, ActiveFits, AsideFits, AsideInPass, Fits
<1>7. CASE DestroyThread
  <2>1. /\ UNCHANGED <<wi, activePri, lowPass>> /\ skipped' = <<>>
        /\ queue' = [p \in Priorities |-> <<>>]
    BY <1>7 DEF DestroyThread
  <2>2. \A p \in Priorities : SeqItems(queue'[p]) = {}
    BY <2>1, SeqItemsEmpty
  <2> QED BY <2>1, <2>2, SeqItemsEmpty
          DEF PlaceInv, QueuesFit, ActiveFits, AsideFits, AsideInPass, Fits
<1> QED BY <1>1, <1>2, <1>3, <1>4, <1>5, <1>6, <1>7 DEF Consumer

LEMMA PlaceInvStep == TypeInv /\ PlaceInv /\ [Next]_vars => PlaceInv'
<1> SUFFICES ASSUME TypeInv, PlaceInv, [Next]_vars PROVE PlaceInv'
  OBVIOUS
<1>1. CASE \E w \in Items : Producer(w)
  BY <1>1, PlaceInvProducer
<1>2. CASE Consumer
  BY <1>2, PlaceInvConsumer
<1>3. CASE Environment
  BY <1>3, EnvironmentKeeps, PlaceInvQuiet DEF PlaceInv, AsideInPass
<1>4. CASE UNCHANGED vars
  BY <1>4, PlaceInvQuiet DEF vars, PlaceInv, AsideInPass
<1> QED BY <1>1, <1>2, <1>3, <1>4 DEF Next, Environment

\* The reports of IsNormalJobActiveOrPending and HasBelowNormalJobActiveOrPending
\* cover a job from its push to the end of its run, between the queue and the
\* consumer too.
THEOREM ActivityHasNoGap == Spec => []NoGapInActivity
<1>1. TypeInv /\ PlaceInv => NoGapInActivity
  <2> SUFFICES ASSUME TypeInv, PlaceInv, NEW w \in Held \ SeqItems(skipped)
               PROVE  /\ PriOf[w] >= priNormal => IsNormalJobActiveOrPending
                      /\ PriOf[w] = priBelowNormal =>
                           \/ HasBelowNormalJobActiveOrPending
                           \/ w \in MaySkip /\ IsNormalJobActiveOrPending
    BY DEF NoGapInActivity
  <2>1. CASE w \in AllQueued
    <3>1. PICK p \in Priorities : w \in SeqItems(queue[p])
      BY <2>1 DEF AllQueued
    <3>2. queue[p] # <<>> /\ Fits(w, p)
      BY <3>1, SeqItemsEmpty DEF PlaceInv, QueuesFit
    <3> QED BY <3>2, PriorityCases DEF Fits, IsNormalJobActiveOrPending,
               HasBelowNormalJobActiveOrPending, priLow, priBelowNormal, priNormal, priHigh
  <2>2. CASE w \notin AllQueued
    <3>1. w = wi /\ wi \in Items
      BY <2>2 DEF Held, TypeInv, TypeOK
    <3>2. activePri \in Priorities /\ Fits(wi, activePri)
      BY <3>1 DEF PlaceInv, ActiveFits
    <3> QED BY <3>1, <3>2, PriorityCases DEF Fits, IsNormalJobActiveOrPending,
               HasBelowNormalJobActiveOrPending, priLow, priBelowNormal, priNormal, priHigh
  <2> QED BY <2>1, <2>2
<1> QED BY <1>1, InitTypeInv, PlaceInvInit, TypeInvStep, PlaceInvStep, PTL DEF Spec

\* The assertion that no item is set aside when a pass is over.
THEOREM NothingStaysAside == Spec => []NothingSetAsideBetweenPasses
<1>1. PlaceInv => NothingSetAsideBetweenPasses
  BY DEF PlaceInv, AsideInPass, NothingSetAsideBetweenPasses, DtorStates
<1> QED BY <1>1, InitTypeInv, PlaceInvInit, TypeInvStep, PlaceInvStep, PTL DEF Spec

-----------------------------------------------------------------------------
(* Order.  x is before y if y is neither taken nor finished until x is      *)
(* finished; for that x must be ahead of y in their queue.                  *)

Plain == Items \ MaySkip
Before(x, y) ==
  /\ y \in Finished \cup {wi} => x \in Finished
  /\ \A n \in DOMAIN queue[PriOf[y]] : queue[PriOf[y]][n] = y =>
       \/ x \in Finished \cup {wi}
       \/ \E m \in DOMAIN queue[PriOf[y]] : m < n /\ queue[PriOf[y]][m] = x
Paired(x, y) == x \in Plain /\ y \in Plain /\ PriOf[x] = PriOf[y]
OrderOK ==
  \A i, j \in DOMAIN order : i < j /\ Paired(order[i], order[j]) => Before(order[i], order[j])
OrderInv == TypeInv /\ OnceInv /\ PlaceInv /\ HandedInv /\ OrderOK
            /\ \A w \in SeqItems(order) : call[w] = "handed"

\* An item that was handed over is somewhere, and is finished no more than once.
LEMMA HandedIsSomewhere ==
  ASSUME TypeInv, OnceInv, NEW w \in Items, call[w] = "handed"
  PROVE  /\ Pool(w)
         /\ wi = w => w \notin Finished
         /\ ~(w \in ran /\ w \in dropped \cup leaked)
<1> USE DEF TypeInv
<1>1. /\ \A r \in Priorities : Occurrences(w, queue[r]) \in Nat
      /\ Occurrences(w, skipped) \in Nat /\ Queued(w) \in Nat /\ Ends(w) \in 0 .. 3
  BY CountsAreNat
<1>2. Queued(w) + Occurrences(w, skipped) + One(wi = w) + Ends(w) = 1
  BY DEF OnceInv, Total, One
<1>3. One(wi = w) \in {0, 1}
  BY DEF One
<1>4. Queued(w) # 0 \/ Occurrences(w, skipped) # 0 \/ One(wi = w) = 1 \/ Ends(w) # 0
  BY <1>1, <1>2, <1>3
<1>5. Queued(w) # 0 => \E p \in Priorities : w \in SeqItems(queue[p])
  <2>1. Queued(w) # 0 => \E p \in Priorities : Occurrences(w, queue[p]) # 0
    BY <1>1, PriorityCases DEF Queued
  <2> QED BY <2>1, OccurrencesMember DEF TypeOK
<1>6. Occurrences(w, skipped) # 0 => w \in SeqItems(skipped)
  BY OccurrencesMember DEF TypeOK
<1>7. One(wi = w) = 1 <=> wi = w
  BY DEF One
<1>8. Ends(w) # 0 <=> w \in Finished
  BY DEF Ends, One, Finished
<1>9. Ends(w) <= 1 /\ (One(wi = w) = 1 => Ends(w) = 0)
  BY <1>1, <1>2, <1>3
<1>10. ~(w \in ran /\ w \in dropped \cup leaked)
  BY <1>9 DEF Ends, One
<1> QED BY <1>4, <1>5, <1>6, <1>7, <1>8, <1>9, <1>10 DEF Pool

LEMMA BeforeQuiet ==
  ASSUME NEW x, NEW y, Before(x, y), UNCHANGED <<queue, wi, ran, dropped, leaked>>
  PROVE  Before(x, y)'
BY DEF Before, Finished

\* A new item comes after all that were handed over, and changes nothing between them.
LEMMA BeforeQueue ==
  ASSUME TypeInv, OnceInv, PlaceInv, HandedInv, NEW v \in Items, QueueParseWorkItem(v),
         NEW x \in Plain, NEW y \in Plain, PriOf[x] = PriOf[y]
  PROVE  /\ Before(x, y) /\ v # y => Before(x, y)'
         /\ call[x] = "handed" /\ v = y => Before(x, y)'
<1> USE DEF TypeInv
<1>1. /\ UNCHANGED <<skipped, wi, ran, dropped, leaked>>
      /\ queue' = [queue EXCEPT ![PriOf[v]] = Append(queue[PriOf[v]], v)]
      /\ call[v] # "handed"
  BY DEF QueueParseWorkItem
<1> DEFINE p == PriOf[y]
           q == queue[p]
<1>2. p \in Priorities /\ q \in Seq(Items) /\ DOMAIN q = 1 .. Len(q) /\ Len(q) \in Nat
  BY ItemAssumption DEF Plain, TypeOK
<1>3. ~Pool(v)
  BY <1>1 DEF HandedInv
<1>4. v \notin Finished /\ v # wi /\ (PriOf[v] = p => \A n \in DOMAIN q : q[n] # v)
  BY <1>2, <1>3 DEF Pool, SeqItems
<1>5. CASE PriOf[v] # p
  <2>1. queue'[p] = q
    BY <1>1, <1>2, <1>5 DEF TypeOK
  <2>2. Before(x, y) => Before(x, y)'
    BY <1>1, <2>1 DEF Before, Finished
  <2> QED BY <1>5, <2>2
<1>6. CASE PriOf[v] = p
  <2>1. /\ queue'[p] = Append(q, v)
        /\ DOMAIN queue'[p] = 1 .. Len(q) + 1
        /\ \A n \in 1 .. Len(q) : queue'[p][n] = q[n]
        /\ queue'[p][Len(q) + 1] = v
    BY <1>1, <1>2, <1>6 DEF TypeOK
  <2>2. \A n \in DOMAIN queue'[p] : n = Len(q) + 1 \/ n \in DOMAIN q
    BY <1>2, <2>1
  <2>3. \A m \in DOMAIN q : m \in DOMAIN queue'[p] /\ m < Len(q) + 1
    BY <1>2, <2>1
  <2> HIDE DEF q
  <2>4. ASSUME call[x] = "handed", v = y PROVE Before(x, y)'
    <3>1. Pool(x)
      BY <2>4, HandedIsSomewhere DEF Plain
    <3>2. x \in Finished \cup {wi} \/ \E m \in DOMAIN q : q[m] = x
      <4>1. x \notin SeqItems(skipped)
        BY DEF PlaceInv, AsideFits, Plain
      <4>2. \A r \in Priorities : x \in SeqItems(queue[r]) => r = p
        BY DEF PlaceInv, QueuesFit, Fits, Plain
      <4> QED BY <3>1, <4>1, <4>2 DEF Pool, SeqItems, q
    <3> QED BY <1>1, <1>2, <1>4, <1>6, <2>1, <2>2, <2>3, <2>4, <3>2 DEF Before, Finished
  <2>5. ASSUME Before(x, y), v # y PROVE Before(x, y)'
    <3>1. ASSUME NEW n \in DOMAIN queue'[p], queue'[p][n] = y
          PROVE  \/ x \in Finished \cup {wi}
                 \/ \E m \in DOMAIN queue'[p] : m < n /\ queue'[p][m] = x
      <4>1. n \in DOMAIN q /\ q[n] = y
        BY <1>2, <2>1, <2>2, <2>5, <3>1
      <4>2. x \in Finished \cup {wi} \/ \E m \in DOMAIN q : m < n /\ q[m] = x
        BY <2>5, <4>1 DEF Before, q
      <4> QED BY <1>2, <2>1, <2>3, <4>2
    <3> QED BY <1>1, <2>5, <3>1 DEF Before, Finished
  <2> QED BY <2>4, <2>5
<1> QED BY <1>5, <1>6

LEMMA BeforeTake ==
  ASSUME TypeInv, PlaceInv, GetNextJob \/ GetNextLowPriorityJob,
         NEW x \in Plain, NEW y \in Plain, PriOf[x] = PriOf[y], Before(x, y)
  PROVE  Before(x, y)'
<1> USE DEF TypeInv
<1>1. PICK p \in Priorities :
        /\ queue[p] # <<>> /\ TakeFrom(p) /\ UNCHANGED <<ran, dropped, leaked>>
        /\ wi = NoItem
  <2>1. wi = NoItem
    BY DEF GetNextJob, GetNextLowPriorityJob, HoldingItem, Holding, TypeOK
  <2>2. CASE GetNextJob
    <3>1. NextPriority \in Priorities /\ queue[NextPriority] # <<>> /\ TakeFrom(NextPriority)
      BY <2>2, NextPriorityQueued DEF GetNextJob
    <3>2. UNCHANGED <<ran, dropped, leaked>>
      BY <2>2 DEF GetNextJob
    <3> QED BY <2>1, <3>1, <3>2
  <2>3. CASE GetNextLowPriorityJob
    <3>1. queue[priLow] # <<>> /\ TakeFrom(priLow) /\ UNCHANGED <<ran, dropped, leaked>>
      BY <2>3 DEF GetNextLowPriorityJob, HasLowPriorityQueuedItems
    <3>2. priLow \in Priorities
      BY PriorityCases
    <3> QED BY <2>1, <3>1, <3>2
  <2> QED BY <2>2, <2>3
<1> DEFINE q == queue[p]
<1>2. /\ q \in Seq(Items) /\ wi' = Head(q) /\ queue' = [queue EXCEPT ![p] = Tail(q)]
      /\ q # <<>>
  BY <1>1 DEF TypeOK, TakeFrom
<1>3. /\ DOMAIN q = 1 .. Len(q) /\ Len(q) \in Nat /\ Len(q) > 0 /\ Head(q) = q[1]
      /\ DOMAIN Tail(q) = 1 .. Len(q) - 1
      /\ \A n \in 1 .. Len(q) - 1 : Tail(q)[n] = q[n + 1]
  BY <1>2
<1>4. x # wi /\ y # wi /\ PriOf[y] \in Priorities
  BY <1>1, ItemAssumption DEF Plain
<1>5. CASE PriOf[y] # p
  <2>1. queue'[PriOf[y]] = queue[PriOf[y]]
    BY <1>2, <1>4, <1>5 DEF TypeOK
  <2>2. y # wi'
    <3>1. wi' \in SeqItems(q)
      BY <1>1, TakeFromItems
    <3> QED BY <1>5, <3>1 DEF PlaceInv, QueuesFit, Fits, Plain
  <2> QED BY <1>1, <1>4, <2>1, <2>2 DEF Before, Finished
<1>6. CASE PriOf[y] = p
  <2>1. queue'[p] = Tail(q)
    BY <1>2 DEF TypeOK
  <2>2. ASSUME y = wi' PROVE x \in Finished
    <3>1. 1 \in DOMAIN q /\ q[1] = y
      BY <1>2, <1>3, <2>2
    <3>2. \A m \in DOMAIN q : ~(m < 1)
      BY <1>3
    <3> QED BY <1>4, <1>6, <3>1, <3>2 DEF Before
  <2>3. ASSUME NEW n \in DOMAIN Tail(q), Tail(q)[n] = y
        PROVE  x \in Finished \cup {wi'} \/ \E m \in DOMAIN Tail(q) : m < n /\ Tail(q)[m] = x
    <3>1. n + 1 \in DOMAIN q /\ q[n + 1] = y
      BY <1>3, <2>3
    <3>2. CASE x \in Finished
      BY <3>2
    <3>3. CASE x \notin Finished
      <4>1. PICK m \in DOMAIN q : m < n + 1 /\ q[m] = x
        BY <1>4, <1>6, <3>1, <3>3 DEF Before
      <4>2. CASE m = 1
        BY <1>2, <1>3, <4>1, <4>2
      <4>3. CASE m # 1
        <5>1. m - 1 \in DOMAIN Tail(q) /\ m - 1 < n /\ Tail(q)[m - 1] = x
          BY <1>3, <2>3, <4>1, <4>3
        <5> QED BY <5>1
      <4> QED BY <4>2, <4>3
    <3> QED BY <3>2, <3>3
  <2> HIDE DEF q
  <2>4. y \in Finished' => y \in Finished /\ Finished' = Finished
    BY <1>1 DEF Finished
  <2>5. Finished' = Finished
    BY <1>1 DEF Finished
  <2> QED BY <1>6, <2>1, <2>2, <2>3, <2>5 DEF Before
<1> QED BY <1>5, <1>6

LEMMA BeforeFinish ==
  ASSUME NEW x \in Items, NEW y \in Items, Before(x, y), EndParse \/ DrainItem
  PROVE  Before(x, y)'
<1>1. /\ UNCHANGED <<queue, leaked>> /\ wi' = NoItem
      /\ \/ ran' = ran \cup {wi} /\ UNCHANGED dropped
         \/ dropped' = dropped \cup {wi} /\ UNCHANGED ran
  BY DEF EndParse, DrainItem
<1>2. Finished' = Finished \cup {wi} /\ wi' # x /\ wi' # y
  BY <1>1, ItemAssumption DEF Finished
<1> QED BY <1>1, <1>2 DEF Before

LEMMA BeforeSkip ==
  ASSUME NEW x \in Plain, NEW y \in Plain, Before(x, y), SkipWorkItem
  PROVE  Before(x, y)'
<1>1. /\ UNCHANGED <<queue, ran, dropped, leaked>> /\ wi' = NoItem /\ wi \in MaySkip
  BY DEF SkipWorkItem
<1>2. wi # x /\ wi' # x /\ wi # y /\ wi' # y
  BY <1>1, ItemAssumption DEF Plain
<1> QED BY <1>1, <1>2 DEF Before, Finished

LEMMA BeforeRequeue ==
  ASSUME TypeInv, PlaceInv, NEW x \in Plain, NEW y \in Plain, Before(x, y), RequeueSkippedItems
  PROVE  Before(x, y)'
<1>1. PICK p \in Priorities :
        /\ queue' = [queue EXCEPT ![p] = queue[p] \o skipped]
        /\ UNCHANGED <<wi, ran, dropped, leaked>>
  <2>1. PICK move \in {<<"requeue", "low", priNormal>>, <<"lowEnd", "inner", priLow>>} :
          /\ queue' = [queue EXCEPT ![move[3]] = @ \o skipped]
          /\ UNCHANGED <<wi, ran, dropped, leaked>>
    BY DEF RequeueSkippedItems
  <2>2. move[3] \in Priorities
    BY PriorityCases
  <2> QED BY <2>1, <2>2
<1> DEFINE P == PriOf[y]
           q == queue[P]
<1>2. P \in Priorities /\ q \in Seq(Items) /\ skipped \in Seq(Items)
  BY ItemAssumption DEF Plain, TypeInv, TypeOK
<1>3. ASSUME NEW n \in DOMAIN queue'[P], queue'[P][n] = y
      PROVE  \/ x \in Finished \cup {wi}
             \/ \E m \in DOMAIN queue'[P] : m < n /\ queue'[P][m] = x
  <2>1. CASE p # P
    <3>1. queue'[P] = q
      BY <1>1, <1>2, <2>1 DEF TypeInv, TypeOK
    <3> QED BY <1>3, <3>1 DEF Before
  <2>2. CASE p = P
    <3>1. queue'[P] = q \o skipped
      BY <1>1, <1>2, <2>2 DEF TypeInv, TypeOK
    <3>2. /\ DOMAIN (q \o skipped) = 1 .. Len(q) + Len(skipped) /\ Len(q) \in Nat
          /\ Len(skipped) \in Nat /\ DOMAIN q = 1 .. Len(q) /\ DOMAIN skipped = 1 .. Len(skipped)
          /\ \A i \in 1 .. Len(q) + Len(skipped) :
               (q \o skipped)[i] = IF i <= Len(q) THEN q[i] ELSE skipped[i - Len(q)]
      BY <1>2
    <3>3. n \in DOMAIN q /\ q[n] = y
      <4>1. CASE n <= Len(q)
        BY <1>3, <3>1, <3>2, <4>1
      <4>2. CASE ~(n <= Len(q))
        <5>1. n - Len(q) \in DOMAIN skipped /\ skipped[n - Len(q)] = y
          BY <1>3, <3>1, <3>2, <4>2
        <5>2. y \in SeqItems(skipped)
          BY <5>1 DEF SeqItems
        <5> QED BY <5>2 DEF PlaceInv, AsideFits, Plain
      <4> QED BY <4>1, <4>2
    <3>4. \A m \in DOMAIN q : m \in DOMAIN queue'[P] /\ queue'[P][m] = q[m]
      BY <3>1, <3>2
    <3> QED BY <3>3, <3>4 DEF Before
  <2> QED BY <2>1, <2>2
<1> HIDE DEF q
<1>4. Finished' = Finished
  BY <1>1 DEF Finished
<1> QED BY <1>1, <1>3, <1>4 DEF Before

LEMMA BeforeDestroy ==
  ASSUME TypeInv, PlaceInv, NEW x \in Plain, NEW y \in Plain, PriOf[x] = PriOf[y],
         Before(x, y), DestroyThread
  PROVE  Before(x, y)'
<1>1. /\ UNCHANGED <<wi, ran, dropped>> /\ queue' = [p \in Priorities |-> <<>>]
      /\ leaked' = leaked \cup AllQueued \cup SeqItems(skipped) /\ pc = "dtorEnd"
  BY DEF DestroyThread
<1>2. wi \notin Items
  BY <1>1 DEF TypeInv, HoldingItem, Holding
<1>3. x # wi /\ y # wi /\ PriOf[y] \in Priorities
  BY <1>2, ItemAssumption DEF Plain
<1>4. ASSUME y \in Finished' PROVE x \in Finished'
  <2>1. CASE y \in Finished
    BY <1>1, <2>1 DEF Before, Finished
  <2>2. CASE y \notin Finished
    <3>1. y \in AllQueued \cup SeqItems(skipped)
      BY <1>1, <1>4, <2>2 DEF Finished
    <3>2. y \notin SeqItems(skipped)
      BY DEF PlaceInv, AsideFits, Plain
    <3>3. PICK p \in Priorities : y \in SeqItems(queue[p])
      BY <3>1, <3>2 DEF AllQueued
    <3>4. p = PriOf[y]
      BY <3>3 DEF PlaceInv, QueuesFit, Fits, Plain
    <3>5. PICK n \in DOMAIN queue[p] : queue[p][n] = y
      BY <3>3 DEF SeqItems
    <3>6. x \in Finished \/ \E m \in DOMAIN queue[p] : queue[p][m] = x
      BY <1>3, <3>4, <3>5 DEF Before
    <3>7. x \in Finished \/ x \in AllQueued
      BY <3>6 DEF AllQueued, SeqItems
    <3> QED BY <1>1, <3>7 DEF Finished
  <2> QED BY <2>1, <2>2
<1>5. DOMAIN queue'[PriOf[y]] = {}
  BY <1>1, <1>3
<1> QED BY <1>1, <1>3, <1>4, <1>5 DEF Before

LEMMA BeforeConsumer ==
  ASSUME TypeInv, PlaceInv, NEW x \in Plain, NEW y \in Plain, PriOf[x] = PriOf[y],
         Before(x, y), Consumer
  PROVE  Before(x, y)'
<1>1. CASE \/ OuterLoop \/ InnerLoop \/ WaitForWork \/ WorkLoop \/ BeginParse \/ BeginLowPass
           \/ SkipLowPass \/ ContinueLowPass \/ EndLowPass
  BY <1>1, BeforeQuiet DEF Goto, OuterLoop, InnerLoop, WaitForWork, WorkLoop, BeginParse,
     BeginLowPass, SkipLowPass, ContinueLowPass, EndLowPass
<1>2. CASE TakeDirLock \/ ReleaseDirLock \/ EndNormalDrain \/ EndDrain \/ UnregisterFileItem
  BY <1>2, BeforeQuiet DEF TakeDirLock, ReleaseDirLock, EndNormalDrain, Goto, EndDrain, UnregisterFileItem
<1>3. x \in Items /\ y \in Items
  BY DEF Plain
<1> QED BY <1>1, <1>2, <1>3, BeforeTake, BeforeFinish, BeforeSkip, BeforeRequeue, BeforeDestroy
        DEF Consumer

\* Only QueueParseWorkItem touches the history, and calls that are over stay so.

\* The consumer has no part in the calls.
LEMMA ConsumerKeepsCalls == ASSUME Consumer PROVE UNCHANGED callVars
<1>1. CASE \/ OuterLoop \/ InnerLoop \/ WaitForWork \/ WorkLoop \/ BeginParse \/ BeginLowPass
           \/ SkipLowPass \/ ContinueLowPass \/ EndLowPass
  BY <1>1 DEF Goto, OuterLoop, InnerLoop, WaitForWork, WorkLoop, BeginParse, BeginLowPass,
              SkipLowPass, ContinueLowPass, EndLowPass
<1>2. CASE \/ TakeDirLock \/ GetNextJob \/ UnregisterFileItem \/ GetNextLowPriorityJob
           \/ SkipWorkItem \/ EndParse
  BY <1>2 DEF TakeDirLock, GetNextJob, UnregisterFileItem, GetNextLowPriorityJob,
              SkipWorkItem, EndParse
<1>3. CASE \/ DrainItem \/ ReleaseDirLock \/ EndNormalDrain \/ EndDrain \/ RequeueSkippedItems \/ DestroyThread
  BY <1>3 DEF DrainItem, ReleaseDirLock, EndNormalDrain, Goto, EndDrain, RequeueSkippedItems, DestroyThread
<1> QED BY <1>1, <1>2, <1>3 DEF Consumer

LEMMA HistoryKept ==
  ASSUME TypeInv, [Next]_vars
  PROVE  /\ order' = order \/ \E v \in Items : QueueParseWorkItem(v)
         /\ \A w \in Items : call[w] = "handed" => call'[w] = "handed"
<1>1. ASSUME NEW v \in Items, Producer(v)
      PROVE  /\ order' = order \/ QueueParseWorkItem(v)
             /\ \A w \in Items : call[w] = "handed" => call'[w] = "handed"
  <2>1. /\ call[v] # "handed"
        /\ \A w \in Items : w # v => call'[w] = call[w]
    BY <1>1 DEF Producer, ReadGlobal, QueueFileWorkItem, QueueParseWorkItem, CallDestroyedThread,
                TypeInv, TypeOK
  <2>2. order' = order \/ QueueParseWorkItem(v)
    BY <1>1 DEF Producer, ReadGlobal, QueueFileWorkItem, CallDestroyedThread
  <2> QED BY <2>1, <2>2
<1>2. CASE Consumer
  BY <1>2, ConsumerKeepsCalls
<1>3. CASE Environment
  BY <1>3, EnvironmentKeeps
<1>4. CASE UNCHANGED vars
  BY <1>4 DEF vars
<1> QED BY <1>1, <1>2, <1>3, <1>4 DEF Next, Environment

LEMMA OrderedStep ==
  ASSUME OrderInv, [Next]_vars
  PROVE  OrderOK' /\ \A w \in SeqItems(order') : call'[w] = "handed"
<1> USE DEF OrderInv
<1>1. order \in Seq(Items) /\ DOMAIN order = 1 .. Len(order) /\ Len(order) \in Nat
  BY DEF TypeInv, TypeOK
<1>2. CASE \E v \in Items : QueueParseWorkItem(v)
  <2>1. PICK v \in Items : QueueParseWorkItem(v)
    BY <1>2
  <2>2. /\ order' = Append(order, v) /\ call[v] # "handed" /\ call' = [call EXCEPT ![v] = "handed"]
    BY <2>1 DEF QueueParseWorkItem
  <2>3. /\ DOMAIN order' = 1 .. Len(order) + 1 /\ order'[Len(order) + 1] = v
        /\ \A i \in 1 .. Len(order) : order'[i] = order[i]
    BY <1>1, <2>2
  <2>4. \A i \in 1 .. Len(order) : order[i] \in Items /\ call[order[i]] = "handed" /\ order[i] # v
    BY <1>1, <2>2 DEF SeqItems
  <2>5. ASSUME NEW i \in DOMAIN order', NEW j \in DOMAIN order', i < j,
               NEW x, NEW y, x = order'[i], y = order'[j], Paired(x, y)
        PROVE  Before(x, y)'
    <3>1. i \in 1 .. Len(order) /\ x = order[i] /\ call[x] = "handed"
      BY <1>1, <2>3, <2>4, <2>5
    <3>2. CASE j = Len(order) + 1
      <4>1. y = v
        BY <2>3, <2>5, <3>2
      <4> QED BY <2>1, <2>5, <3>1, <4>1, BeforeQueue DEF Paired
    <3>3. CASE j \in 1 .. Len(order)
      <4>1. y = order[j] /\ v # y
        BY <2>3, <2>4, <2>5, <3>3
      <4>2. Before(x, y)
        BY <1>1, <2>5, <3>1, <3>3, <4>1 DEF OrderOK
      <4> QED BY <2>1, <2>5, <4>1, <4>2, BeforeQueue DEF Paired
    <3> QED BY <1>1, <2>3, <3>2, <3>3
  <2>6. ASSUME NEW w \in SeqItems(order') PROVE call'[w] = "handed"
    <3>1. w \in SeqItems(order) \cup {v}
      BY <1>1, <2>2, SeqItemsAppend
    <3>2. w \in Items
      BY <1>1, <3>1 DEF SeqItems
    <3> QED BY <2>2, <3>1, <3>2 DEF TypeInv, TypeOK
  <2> QED BY <2>5, <2>6 DEF OrderOK
<1>3. CASE ~ \E v \in Items : QueueParseWorkItem(v)
  <2>1. order' = order /\ \A w \in Items : call[w] = "handed" => call'[w] = "handed"
    BY <1>3, HistoryKept
  <2>2. ASSUME NEW x, NEW y, Paired(x, y), Before(x, y) PROVE Before(x, y)'
    <3>1. CASE \E v \in Items : Producer(v)
      <4>1. UNCHANGED <<queue, wi, ran, dropped, leaked>>
        BY <1>3, <3>1 DEF Producer, ReadGlobal, QueueFileWorkItem, CallDestroyedThread
      <4> QED BY <2>2, <4>1, BeforeQuiet
    <3>2. CASE Consumer
      BY <2>2, <3>2, BeforeConsumer DEF Paired
    <3>3. CASE Environment
      BY <2>2, <3>3, EnvironmentKeeps, BeforeQuiet
    <3>4. CASE UNCHANGED vars
      BY <2>2, <3>4, BeforeQuiet DEF vars
    <3> QED BY <3>1, <3>2, <3>3, <3>4 DEF Next, Environment
  <2>3. SeqItems(order) \subseteq Items
    BY <1>1 DEF SeqItems
  <2> QED BY <2>1, <2>2, <2>3 DEF OrderOK
<1> QED BY <1>2, <1>3

LEMMA OrderInvInit == Init => OrderInv
<1> SUFFICES ASSUME Init PROVE OrderInv
  OBVIOUS
<1>1. order = <<>>
  BY DEF Init
<1>2. OrderOK /\ \A w \in SeqItems(order) : call[w] = "handed"
  BY <1>1, SeqItemsEmpty DEF OrderOK
<1> QED BY <1>2, InitTypeInv, OnceInvInit, PlaceInvInit, QueueInvInit DEF OrderInv, QueueInv

LEMMA OrderInvStep == QueueInv /\ OrderInv /\ [Next]_vars => OrderInv'
BY OrderedStep, TypeInvStep, OnceInvStep, PlaceInvStep, QueueInvStep DEF OrderInv, QueueInv

\* Jobs of one priority are started in the order of their QueueParseWorkItem calls,
\* unless they may be put off: over restarts, drains and requests that are put off
\* and come back in between.
THEOREM ServedInOrder == Spec => []FirstComeFirstServed
<1>1. OrderInv => FirstComeFirstServed
  <2> SUFFICES ASSUME OrderInv, NEW i \in DOMAIN order, NEW j \in DOMAIN order, i < j,
                      PriOf[order[i]] = PriOf[order[j]],
                      order[i] \notin MaySkip, order[j] \notin MaySkip,
                      order[j] \in ran \cup {wi}
               PROVE  order[i] \in Finished
    BY DEF FirstComeFirstServed
  <2>1. order[i] \in Items /\ order[j] \in Items
    BY DEF OrderInv, TypeInv, TypeOK
  <2>2. Before(order[i], order[j])
    BY <2>1 DEF OrderInv, OrderOK, Paired, Plain
  <2> QED BY <2>2 DEF Before, Finished
<1> QED BY <1>1, QueueInvInit, OrderInvInit, QueueInvStep, OrderInvStep, PTL DEF Spec

-----------------------------------------------------------------------------
(* Shutdown.  The destructor clears g_ParserThread first, so whatever is    *)
(* queued after its drain is late; the drain drops no job that must run,    *)
(* and such a job is never put off.                                         *)

NormalQueued == UNION {SeqItems(queue[p]) : p \in Priorities \ {priLow}}
SecondLoop == pc \in {"drainLow", "dtorEnd"} \/ (pc = "drainRun" /\ lowPass)
GlobalOK ==
  /\ gen # 0 /\ \A w \in Items : ptr[w] <= gen
  /\ gParser = IF pc \in DtorStates \cup {"gone"} THEN 0 ELSE gen
DrainedOK ==
  /\ SecondLoop => NormalQueued \subseteq late
  /\ pc = "drainUnregister" => ~lowPass
  /\ pc = "dtorEnd" => AllQueued \subseteq late
  /\ pc = "gone" => AllQueued = {} /\ wi = NoItem
LossesOK == dropped \cap AtShutdown = {} /\ leaked \cap AtShutdown \subseteq late
ShutdownInv == GlobalOK /\ DrainedOK /\ LossesOK

LEMMA NotBoth == RunStates \cap (DtorStates \cup {"gone"}) = {}
BY DEF RunStates, DtorStates

LEMMA ShutdownInvInit == Init => ShutdownInv
BY DEF Init, ShutdownInv, GlobalOK, DrainedOK, LossesOK, DtorStates, SecondLoop

LEMMA AllQueuedSame ==
  ASSUME UNCHANGED queue PROVE AllQueued' = AllQueued /\ NormalQueued' = NormalQueued
BY DEF AllQueued, NormalQueued

LEMMA ShutdownInvProducer ==
  ASSUME TypeInv, ShutdownInv, NEW v \in Items, Producer(v)
  PROVE  ShutdownInv'
<1> USE DEF TypeInv
<1>1. UNCHANGED <<wi, pc, lowPass, gen, gParser, dropped, leaked>>
  BY DEF Producer, ReadGlobal, CallDestroyedThread, QueueFileWorkItem, QueueParseWorkItem
<1>2. CASE ReadGlobal(v) \/ CallDestroyedThread(v) \/ QueueFileWorkItem(v)
  <2>1. UNCHANGED <<queue, late>>
    BY <1>2 DEF ReadGlobal, CallDestroyedThread, QueueFileWorkItem
  <2>2. ptr' = ptr \/ (ptr' = [ptr EXCEPT ![v] = gParser] /\ gParser # 0)
    BY <1>2 DEF ReadGlobal, CallDestroyedThread, QueueFileWorkItem
  <2>3. \A w \in Items : ptr'[w] <= gen
    <3>1. gParser <= gen
      BY DEF ShutdownInv, GlobalOK, TypeOK
    <3>2. ASSUME NEW w \in Items PROVE ptr'[w] = ptr[w] \/ ptr'[w] = gParser
      BY <2>2 DEF TypeOK
    <3> QED BY <3>1, <3>2 DEF ShutdownInv, GlobalOK
  <2> QED BY <1>1, <2>1, <2>3, AllQueuedSame
          DEF ShutdownInv, GlobalOK, DrainedOK, LossesOK, SecondLoop
<1>3. CASE QueueParseWorkItem(v)
  <2>1. /\ UNCHANGED ptr /\ pc # "gone"
        /\ queue' = [queue EXCEPT ![PriOf[v]] = Append(queue[PriOf[v]], v)]
        /\ late' = IF gParser = gen THEN late ELSE late \cup {v}
    BY <1>3 DEF QueueParseWorkItem, ObjectLives
  <2>2. PriOf[v] \in Priorities /\ queue[PriOf[v]] \in Seq(Items)
    BY ItemAssumption DEF TypeOK
  <2>3. SeqItems(Append(queue[PriOf[v]], v)) = SeqItems(queue[PriOf[v]]) \cup {v}
    BY <2>2, SeqItemsAppend
  <2>4. AllQueued' \subseteq AllQueued \cup {v}
    BY <2>1, <2>2, <2>3 DEF AllQueued, TypeOK
  <2>5. NormalQueued' \subseteq NormalQueued \cup {v}
    BY <2>1, <2>2, <2>3 DEF NormalQueued, TypeOK
  <2>6. SecondLoop => late' = late \cup {v}
    BY <2>1 DEF ShutdownInv, GlobalOK, DtorStates, SecondLoop
  <2> QED BY <1>1, <2>1, <2>4, <2>5, <2>6
          DEF ShutdownInv, GlobalOK, DrainedOK, LossesOK, SecondLoop
<1> QED BY <1>2, <1>3 DEF Producer

LEMMA ShutdownInvConsumer ==
  ASSUME TypeInv, PlaceInv, ShutdownInv, Consumer
  PROVE  ShutdownInv'
<1> USE DEF TypeInv
<1>1. CASE \/ OuterLoop \/ InnerLoop \/ WaitForWork \/ WorkLoop \/ BeginParse \/ BeginLowPass
           \/ SkipLowPass \/ ContinueLowPass \/ EndLowPass
  <2>1. /\ UNCHANGED <<gen, gParser, ptr, late, dropped, leaked>>
        /\ pc \notin DtorStates \cup {"gone"} /\ pc' \notin DtorStates \cup {"gone"}
    BY <1>1 DEF Goto, OuterLoop, InnerLoop, WaitForWork, WorkLoop, BeginParse, BeginLowPass,
                SkipLowPass, ContinueLowPass, EndLowPass, DtorStates
  <2> QED BY <2>1 DEF ShutdownInv, GlobalOK, DrainedOK, LossesOK, DtorStates, SecondLoop
<1>2. CASE TakeDirLock
  <2>1. /\ UNCHANGED <<queue, wi, gen, ptr, late, dropped, leaked>>
        /\ \/ pc \in {"lock", "lowLock"} /\ pc' \in {"pop", "lowPop"} /\ gParser' = gParser
           \/ pc = "exit" /\ pc' = "drain" /\ gParser' = 0
    BY <1>2 DEF TakeDirLock
  <2> QED BY <2>1 DEF ShutdownInv, GlobalOK, DrainedOK, LossesOK, DtorStates, SecondLoop
<1>3. CASE SkipWorkItem \/ ReleaseDirLock \/ UnregisterFileItem \/ GetNextJob
  <2>1. /\ UNCHANGED <<gen, gParser, ptr, late, dropped, leaked>>
        /\ \/ /\ pc \in {"pop", "unregister", "run", "unlock"}
              /\ pc' \in {"unregister", "run", "unlock", "work", "lowWork"}
           \/ /\ pc = "drain" /\ pc' \in {"drainUnregister", "drainRun"} /\ lowPass' = FALSE
           \/ /\ pc = "drainUnregister" /\ pc' = "drainRun" /\ lowPass' = lowPass
    BY <1>3 DEF GetNextJob, UnregisterFileItem, SkipWorkItem, ReleaseDirLock
  <2> QED BY <2>1 DEF ShutdownInv, GlobalOK, DrainedOK, LossesOK, DtorStates, SecondLoop
<1>9. CASE GetNextLowPriorityJob
  <2>1. /\ UNCHANGED <<gen, gParser, ptr, late, dropped, leaked>> /\ lowPass' = TRUE
        /\ queue' = [queue EXCEPT ![priLow] = Tail(queue[priLow])]
        /\ \/ pc = "lowPop" /\ pc' = "run"
           \/ pc = "drainLow" /\ pc' = "drainRun"
    BY <1>9 DEF GetNextLowPriorityJob, TakeFrom
  <2>2. NormalQueued' = NormalQueued
    BY <2>1 DEF NormalQueued, TypeOK
  <2> QED BY <2>1, <2>2 DEF ShutdownInv, GlobalOK, DrainedOK, LossesOK, DtorStates, SecondLoop
<1>4. CASE EndParse \/ RequeueSkippedItems
  <2>1. /\ UNCHANGED <<gen, gParser, ptr, late, dropped, leaked>>
        /\ pc \in {"parsing", "requeue", "lowEnd"} /\ pc' \in {"unlock", "low", "inner"}
    BY <1>4 DEF EndParse, RequeueSkippedItems
  <2> QED BY <2>1 DEF ShutdownInv, GlobalOK, DrainedOK, LossesOK, DtorStates, SecondLoop
<1>5. CASE DrainItem
  <2>1. /\ UNCHANGED <<queue, lowPass, gen, gParser, ptr, late, leaked>> /\ pc = "drainRun"
        /\ pc' = IF lowPass THEN "drainLow" ELSE "drain"
        /\ dropped' \cap AtShutdown = dropped \cap AtShutdown
    BY <1>5 DEF DrainItem
  <2> QED BY <2>1, AllQueuedSame
          DEF ShutdownInv, GlobalOK, DrainedOK, LossesOK, DtorStates, SecondLoop
<1>6. CASE EndNormalDrain
  <2>1. /\ UNCHANGED <<queue, gen, gParser, ptr, late, dropped, leaked>>
        /\ pc = "drain" /\ pc' = "drainLow" /\ ~HasQueuedItems
    BY <1>6 DEF EndNormalDrain, Goto
  <2>2. \A p \in Priorities \ {priLow} : queue[p] = <<>>
    BY <2>1, PriorityCases DEF HasQueuedItems
  <2>3. NormalQueued' = {}
    BY <2>1, <2>2, SeqItemsEmpty DEF NormalQueued
  <2> QED BY <2>1, <2>3 DEF ShutdownInv, GlobalOK, DrainedOK, LossesOK, DtorStates, SecondLoop
<1>8. CASE EndDrain
  <2>1. /\ UNCHANGED <<queue, gen, gParser, ptr, late, dropped, leaked>>
        /\ pc = "drainLow" /\ pc' = "dtorEnd" /\ queue[priLow] = <<>>
    BY <1>8 DEF EndDrain, HasLowPriorityQueuedItems
  <2>2. SeqItems(queue[priLow]) = {}
    BY <2>1, SeqItemsEmpty
  <2>3. AllQueued' \subseteq NormalQueued /\ NormalQueued' = NormalQueued
    BY <2>1, <2>2 DEF AllQueued, NormalQueued
  <2> QED BY <2>1, <2>3 DEF ShutdownInv, GlobalOK, DrainedOK, LossesOK, DtorStates, SecondLoop
<1>7. CASE DestroyThread
  <2>1. /\ UNCHANGED <<wi, ptr, late, dropped>> /\ pc = "dtorEnd"
        /\ leaked' = leaked \cup AllQueued \cup SeqItems(skipped)
        /\ queue' = [p \in Priorities |-> <<>>]
        /\ \/ pc' = "gone" /\ UNCHANGED <<gen, gParser>>
           \/ pc' = "outer" /\ gen' = gen + 1 /\ gParser' = gen + 1
    BY <1>7 DEF DestroyThread
  <2>2. AllQueued' = {}
    BY <2>1, SeqItemsEmpty DEF AllQueued
  <2>3. skipped = <<>> /\ wi = NoItem
    BY <2>1 DEF PlaceInv, AsideInPass, HoldingItem, Holding, TypeOK
  <2>4. leaked' \cap AtShutdown \subseteq late
    BY <2>1, <2>3, SeqItemsEmpty DEF ShutdownInv, DrainedOK, LossesOK
  <2>5. GlobalOK'
    BY <2>1 DEF ShutdownInv, GlobalOK, DtorStates, TypeOK
  <2> QED BY <2>1, <2>2, <2>3, <2>4, <2>5 DEF ShutdownInv, DrainedOK, LossesOK, SecondLoop
<1> QED BY <1>1, <1>2, <1>3, <1>4, <1>5, <1>6, <1>7, <1>8, <1>9 DEF Consumer

LEMMA ShutdownInvStep == TypeInv /\ PlaceInv /\ ShutdownInv /\ [Next]_vars => ShutdownInv'
<1> SUFFICES ASSUME TypeInv, PlaceInv, ShutdownInv, [Next]_vars PROVE ShutdownInv'
  OBVIOUS
<1>1. CASE \E w \in Items : Producer(w)
  BY <1>1, ShutdownInvProducer
<1>2. CASE Consumer
  BY <1>2, ShutdownInvConsumer
<1>3. CASE Environment
  BY <1>3, EnvironmentKeeps, AllQueuedSame
  DEF ShutdownInv, GlobalOK, DrainedOK, LossesOK, DtorStates, SecondLoop
<1>4. CASE UNCHANGED vars
  BY <1>4, AllQueuedSame DEF vars, ShutdownInv, GlobalOK, DrainedOK, LossesOK, SecondLoop
<1> QED BY <1>1, <1>2, <1>3, <1>4 DEF Next, Environment

\* What must run at shutdown has run when the thread is gone, unless it was queued
\* through a pointer read before the destructor cleared g_ParserThread.
THEOREM ShutdownWorkIsDone == Spec => []ShutdownWorkDone
<1>1. TypeInv /\ OnceInv /\ PlaceInv /\ ShutdownInv => ShutdownWorkDone
  <2> SUFFICES ASSUME TypeInv, OnceInv, PlaceInv, ShutdownInv, pc = "gone",
                      NEW w \in AtShutdown, call[w] = "handed", w \notin late
               PROVE  w \in ran
    BY DEF ShutdownWorkDone
  <2>1. w \in Items /\ w \notin MaySkip
    BY ItemAssumption
  <2>2. Pool(w)
    BY <2>1, HandedIsSomewhere
  <2>3. w # wi /\ w \notin SeqItems(skipped) /\ \A p \in Priorities : w \notin SeqItems(queue[p])
    BY <2>1, ItemAssumption DEF ShutdownInv, DrainedOK, AllQueued, PlaceInv, AsideFits
  <2>4. w \notin dropped /\ w \notin leaked
    BY DEF ShutdownInv, LossesOK
  <2> QED BY <2>2, <2>3, <2>4 DEF Pool, Finished
<1> QED BY <1>1, InitTypeInv, OnceInvInit, PlaceInvInit, ShutdownInvInit, TypeInvStep, OnceInvStep,
           PlaceInvStep, ShutdownInvStep, PTL DEF Spec

-----------------------------------------------------------------------------
(* Texts, for a build in which file items are not put off.  Requests for a  *)
(* file follow each other: a new item is registered only when the one       *)
(* before has been handed over and taken, so the last one has the latest    *)
(* text, and everything else for that file is before it.  A request that    *)
(* was lost with a destroyed ParserThread settles the matter otherwise.     *)

Requests(f) == {w \in FileItems : FileOf[w] = f}
Live(w) == call[w] \in {"registered", "handed"}
Lost(w) ==
  \/ call[w] = "stray" \/ w \in dropped \cup leaked
  \/ call[w] = "registered" /\ ~ObjectLives(w)
Latest(f, w) ==
  /\ Live(w) /\ text[w] = latest[f]
  /\ call[w] = "registered" => w \in fileItems
  /\ w \in ran => parsed[f] \in {text[w], Aborted}
  /\ \A v \in Requests(f) \ {w} :
       Live(v) => call[v] = "handed" /\ v \notin fileItems /\ Before(v, w)
Unrequested(f) == latest[f] = NoItem /\ \A v \in Requests(f) : ~Live(v)
TextOK(f) ==
  \/ \E v \in Requests(f) : Lost(v)
  \/ Unrequested(f)
  \/ \E w \in Requests(f) : Latest(f, w)
RegisteredLive == \A w \in fileItems : call[w] \in {"registered", "handed", "stray"}
FilesPlain == FileItems \cap MaySkip = {}
TextBase == QueueInv /\ OnceInv /\ PlaceInv /\ ShutdownInv /\ RegisteredLive /\ FilesPlain
TextsOK == \A f \in Files : TextOK(f)

LEMMA FileItemsPlain ==
  ASSUME FilesPlain, NEW f, NEW w \in Requests(f)
  PROVE  w \in Items /\ w \in FileItems /\ w \in Plain /\ PriOf[w] = priNormal /\ FileOf[w] = f
BY ItemAssumption DEF Requests, FilesPlain, Plain

LEMMA TextsInit == Init => TextsOK /\ RegisteredLive
<1> SUFFICES ASSUME Init PROVE TextsOK /\ RegisteredLive
  OBVIOUS
<1>1. ASSUME NEW f \in Files PROVE Unrequested(f)
  BY ItemAssumption DEF Init, Unrequested, Live, Requests
<1> QED BY <1>1 DEF TextsOK, TextOK, RegisteredLive, Init

\* What every step does to the state of a request: a lost one stays lost.
LEMMA LostStays ==
  ASSUME TypeInv, ShutdownInv, NEW w \in Items, Lost(w),
         call'[w] = call[w] \/ (call[w] = "registered" /\ call'[w] = "stray"),
         dropped \subseteq dropped', leaked \subseteq leaked', UNCHANGED ptr,
         \/ UNCHANGED gen /\ (pc = "gone" => pc' = "gone")
         \/ gen' = gen + 1 
  PROVE  Lost(w)'
<1>1. CASE call[w] = "registered" /\ ~ObjectLives(w)
  BY <1>1 DEF Lost, ObjectLives, ShutdownInv, GlobalOK, TypeInv, TypeOK
<1>2. CASE ~(call[w] = "registered" /\ ~ObjectLives(w))
  BY <1>2 DEF Lost
<1> QED BY <1>1, <1>2

\* A step that leaves requests and texts alone and keeps items in order keeps the
\* claim, whether the thread object survives it or not.
LEMMA TextKept ==
  ASSUME TextBase, NEW f \in Files, TextOK(f),
         UNCHANGED <<call, ptr, text, latest>>,
         dropped \subseteq dropped', leaked \subseteq leaked',
         \/ UNCHANGED gen /\ (pc = "gone" => pc' = "gone")
         \/ gen' = gen + 1,
         \A w \in Requests(f) : w \in fileItems' => w \in fileItems,
         \A w \in Requests(f) : w \in fileItems /\ w \notin fileItems' => call[w] # "registered",
         \A v, w \in Requests(f) : Before(v, w) => Before(v, w)',
         \A w \in Requests(f) :
           Latest(f, w) /\ w \in ran' => parsed'[f] \in {text[w], Aborted}
  PROVE  TextOK(f)'
<1>1. CASE \E v \in Requests(f) : Lost(v)
  <2>1. PICK v \in Requests(f) : Lost(v)
    BY <1>1
  <2>2. Lost(v)'
    BY <2>1, LostStays, FileItemsPlain DEF TextBase, QueueInv
  <2> QED BY <2>2 DEF TextOK, Requests
<1>2. CASE Unrequested(f)
  BY <1>2 DEF TextOK, Unrequested, Requests, Live
<1>3. CASE \E w \in Requests(f) : Latest(f, w)
  <2>1. PICK w \in Requests(f) : Latest(f, w)
    BY <1>3
  <2>2. w \in Items
    BY FileItemsPlain DEF TextBase
  <2>3. Latest(f, w)'
    <3>1. /\ Live(w)' /\ (text[w] = latest[f])'
          /\ (call[w] = "registered" => w \in fileItems)'
      BY <2>1, <2>2 DEF Latest, Live
    <3>2. (w \in ran => parsed[f] \in {text[w], Aborted})'
      BY <2>1
    <3>3. ASSUME NEW v \in Requests(f) \ {w}, Live(v)'
          PROVE  call'[v] = "handed" /\ v \notin fileItems' /\ Before(v, w)'
      BY <2>1, <3>3 DEF Latest, Live
    <3> QED BY <3>1, <3>2, <3>3 DEF Latest, Requests
  <2> QED BY <2>3 DEF TextOK, Requests
<1> QED BY <1>1, <1>2, <1>3 DEF TextOK

LEMMA TextRegister ==
  ASSUME TextBase, TextsOK, NEW u \in Items, QueueFileWorkItem(u)
  PROVE  TextsOK' /\ RegisteredLive'
<1> USE DEF TextBase, QueueInv, TypeInv
<1>1. /\ UNCHANGED <<queue, skipped, wi, pc, ran, dropped, leaked, parsed, gen, ptr>>
      /\ call[u] = "called" /\ u \in FileItems /\ ObjectLives(u)
      /\ latest' = [latest EXCEPT ![FileOf[u]] = text[u]]
  BY DEF QueueFileWorkItem
<1> DEFINE g == FileOf[u]
<1>2. g \in Files /\ u \in Requests(g) /\ text[u] \in Items
  BY <1>1, ItemAssumption DEF Requests, TypeOK
<1>3. \A x, y : Before(x, y)' <=> Before(x, y)
  BY <1>1 DEF Before, Finished
<1>4. /\ \A w \in Items \ {u} : call'[w] = call[w]
      /\ call'[u] \in {"merged", "registered"}
      /\ ObjectLives(u)'
      /\ \A w : ObjectLives(w)' <=> ObjectLives(w)
  BY <1>1 DEF QueueFileWorkItem, TypeOK, ObjectLives
<1>5. \A w \in fileItems : w \in Items /\ w # u
  BY <1>1, ItemAssumption DEF RegInv, TypeOK
<1>6. \A w \in Items : Lost(w) => Lost(w)'
  BY <1>1, <1>4 DEF Lost
<1>7. RegisteredLive'
  <2>1. fileItems' = fileItems \/ (fileItems' = fileItems \cup {u} /\ call'[u] = "registered")
    BY <1>1 DEF QueueFileWorkItem, TypeOK
  <2>2. \A w \in fileItems : call'[w] = call[w]
    BY <1>4, <1>5
  <2> QED BY <2>1, <2>2 DEF RegisteredLive
<1>8. ASSUME NEW f \in Files \ {g} PROVE TextOK(f)'
  <2>1. \A w \in Requests(f) : w \in Items /\ w # u
    BY FileItemsPlain DEF Requests
  <2>2. /\ latest'[f] = latest[f]
        /\ \A w \in Requests(f) : text'[w] = text[w] /\ (w \in fileItems' <=> w \in fileItems)
    BY <1>1, <2>1 DEF QueueFileWorkItem, TypeOK, Requests
  <2>3. CASE \E v \in Requests(f) : Lost(v)
    BY <1>6, <2>1, <2>3 DEF TextOK, Requests
  <2>4. CASE Unrequested(f)
    BY <1>4, <2>1, <2>2, <2>4 DEF TextOK, Unrequested, Requests, Live
  <2>5. CASE \E w \in Requests(f) : Latest(f, w)
    <3>1. PICK w \in Requests(f) : Latest(f, w)
      BY <2>5
    <3>2. Latest(f, w)'
      BY <1>1, <1>3, <1>4, <2>1, <2>2, <3>1 DEF Latest, Live, Requests
    <3> QED BY <3>2 DEF TextOK, Requests
  <2> QED BY <2>3, <2>4, <2>5 DEF TextsOK, TextOK
<1>9. TextOK(g)'
  <2>1. CASE \E v \in Requests(g) : Lost(v)
    BY <1>6, <2>1, FileItemsPlain DEF TextOK, Requests
  <2>2. CASE /\ ~ \E v \in Requests(g) : Lost(v)
             /\ \E old \in fileItems :
                  /\ FileOf[old] = g
                  /\ text' = [text EXCEPT ![old] = text[u]]
                  /\ call' = [call EXCEPT ![u] = "merged"]
                  /\ UNCHANGED fileItems
    <3>1. PICK old \in fileItems :
                  /\ FileOf[old] = g
                  /\ text' = [text EXCEPT ![old] = text[u]]
                  /\ call' = [call EXCEPT ![u] = "merged"]
                  /\ UNCHANGED fileItems
      BY <2>2
    <3>2. old \in Requests(g) /\ old \in Items /\ old # u /\ Live(old)
      BY <1>5, <2>2, <3>1 DEF RegisteredLive, Live, Lost, Requests, TypeOK
    <3>3. PICK w \in Requests(g) : Latest(g, w)
      BY <1>2, <2>2, <3>2 DEF TextsOK, TextOK, Unrequested
    <3>4. w = old
      BY <3>2, <3>3 DEF Latest
    <3>5. text'[old] = latest'[g]
      BY <1>1, <1>2, <3>1, <3>2 DEF TypeOK
    <3>6. old \notin ran
      BY DEF RegInv, Finished
    <3>7. \A v \in Requests(g) : v \in Items /\ (Live(v)' => v # u)
      BY <1>1, <3>1, FileItemsPlain DEF Live, TypeOK
    <3>8. \A v \in Requests(g) : Live(v)' => Live(v) /\ call'[v] = call[v]
      BY <1>4, <3>7 DEF Live
    <3>9. Latest(g, old)'
      BY <1>1, <1>3, <1>4, <3>1, <3>2, <3>3, <3>4, <3>5, <3>6, <3>8 DEF Latest, Live, Requests
    <3> QED BY <3>2, <3>9 DEF TextOK, Requests
  <2>3. CASE /\ ~ \E v \in Requests(g) : Lost(v)
             /\ \A old \in fileItems : FileOf[old] # g
             /\ fileItems' = fileItems \cup {u}
             /\ call' = [call EXCEPT ![u] = "registered"]
             /\ UNCHANGED text
    <3>1. call'[u] = "registered" /\ text'[u] = latest'[g] /\ u \in fileItems'
      BY <1>1, <1>2, <2>3 DEF TypeOK
    <3>2. ~Pool(u)
      BY <1>1 DEF HandedInv
    <3>3. \A v : Before(v, u)
      <4>1. u \notin Finished /\ u # wi
        BY <3>2 DEF Pool
      <4>2. PriOf[u] \in Priorities
        BY ItemAssumption
      <4>3. \A n \in DOMAIN queue[PriOf[u]] : queue[PriOf[u]][n] # u
        BY <3>2, <4>2 DEF Pool, SeqItems
      <4> QED BY <4>1, <4>3 DEF Before
    <3>4. ASSUME NEW v \in Requests(g) \ {u}, Live(v)'
          PROVE  call'[v] = "handed" /\ v \notin fileItems' /\ Before(v, u)'
      <4>1. v \in Items /\ v \notin fileItems /\ Live(v) /\ call'[v] = call[v]
        BY <1>4, <2>3, <3>4, FileItemsPlain DEF Live, Requests
      <4>2. PICK w \in Requests(g) : Latest(g, w)
        BY <1>2, <2>3, <4>1 DEF TextsOK, TextOK, Unrequested
      <4>3. call[v] = "handed"
        BY <4>1, <4>2 DEF Latest, Live
      <4> QED BY <1>3, <2>3, <3>3, <4>1, <4>3
    <3>5. u \notin ran
      BY <3>2 DEF Pool, Finished
    <3>6. Latest(g, u)'
      BY <1>1, <3>1, <3>4, <3>5 DEF Latest, Live, Requests
    <3> QED BY <1>2, <3>6 DEF TextOK, Requests
  <2> QED BY <2>1, <2>2, <2>3 DEF QueueFileWorkItem
<1> QED BY <1>7, <1>8, <1>9 DEF TextsOK

LEMMA TextHanded ==
  ASSUME TextBase, NEW f \in Files, TextOK(f), NEW u \in Items, QueueParseWorkItem(u)
  PROVE  TextOK(f)'
<1> USE DEF TextBase, QueueInv, TypeInv
<1>1. /\ UNCHANGED <<fileItems, skipped, wi, pc, ran, dropped, leaked, parsed, gen, ptr, text, latest>>
      /\ ObjectLives(u)
      /\ u \in FileItems => call[u] = "registered"
      /\ call[u] \in {"called", "registered"}
      /\ call' = [call EXCEPT ![u] = "handed"]
  BY DEF QueueParseWorkItem
<1>2. call'[u] = "handed" /\ \A w \in Items \ {u} : call'[w] = call[w]
  BY <1>1 DEF TypeOK
<1>3. \A w \in Requests(f) : w \in Items /\ w \in FileItems /\ w \in Plain /\ PriOf[w] = priNormal
  BY FileItemsPlain
<1>4. \A v, w \in Requests(f) : Before(v, w) /\ w # u => Before(v, w)'
  BY <1>3, BeforeQueue
<1>5. \A v \in Requests(f) : call[v] = "handed" /\ u \in Requests(f) => Before(v, u)'
  BY <1>3, BeforeQueue
<1>6. \A w : ObjectLives(w)' <=> ObjectLives(w)
  BY <1>1 DEF ObjectLives
<1>7. \A w \in Requests(f) : Lost(w) => Lost(w)'
  BY <1>1, <1>2, <1>3, <1>6 DEF Lost
<1>8. \A w \in Requests(f) : (Live(w)' <=> Live(w)) /\ (w # u => call'[w] = call[w])
  BY <1>1, <1>2, <1>3 DEF Live
<1>9. CASE \E v \in Requests(f) : Lost(v)
  BY <1>7, <1>9 DEF TextOK, Requests
<1>10. CASE Unrequested(f)
  BY <1>1, <1>8, <1>10 DEF TextOK, Unrequested, Requests
<1>11. CASE \E w \in Requests(f) : Latest(f, w)
  <2>1. PICK w \in Requests(f) : Latest(f, w)
    BY <1>11
  <2>2. u \in Requests(f) => u = w
    BY <1>1, <1>3, <2>1 DEF Latest, Live
  <2>3. ASSUME NEW v \in Requests(f) \ {w}, Live(v)'
        PROVE  call'[v] = "handed" /\ v \notin fileItems' /\ Before(v, w)'
    <3>1. v # u /\ Live(v) /\ call'[v] = call[v]
      BY <1>8, <2>2, <2>3
    <3>2. call[v] = "handed" /\ v \notin fileItems /\ Before(v, w)
      BY <2>1, <2>3, <3>1 DEF Latest
    <3>3. Before(v, w)'
      BY <1>4, <1>5, <2>2, <2>3, <3>2
    <3> QED BY <1>1, <3>1, <3>2, <3>3
  <2>4. Live(w)' /\ (call'[w] = "registered" => w \in fileItems')
    BY <1>1, <1>2, <1>8, <2>1 DEF Latest
  <2>5. Latest(f, w)'
    BY <1>1, <2>1, <2>3, <2>4 DEF Latest, Requests
  <2> QED BY <2>5 DEF TextOK, Requests
<1> QED BY <1>9, <1>10, <1>11 DEF TextOK

LEMMA TextCalled ==
  ASSUME TextBase, NEW f \in Files, TextOK(f), NEW u \in Items,
         ReadGlobal(u) \/ CallDestroyedThread(u)
  PROVE  TextOK(f)'
<1> USE DEF TextBase, QueueInv, TypeInv
<1>1. UNCHANGED <<fileItems, queue, wi, pc, ran, dropped, leaked, parsed, gen, text, latest>>
  BY DEF ReadGlobal, CallDestroyedThread
<1>2. /\ \A w \in Items \ {u} : call'[w] = call[w] /\ ptr'[w] = ptr[w]
      /\ \/ call[u] = "new" /\ call'[u] = "called"
         \/ call'[u] = "stray"
  BY DEF ReadGlobal, CallDestroyedThread, TypeOK
<1>3. \A w \in Requests(f) : w \in Items
  BY FileItemsPlain
<1>4. \A x, y : Before(x, y)' <=> Before(x, y)
  BY <1>1 DEF Before, Finished
<1>5. CASE u \in Requests(f) /\ call'[u] = "stray"
  BY <1>5 DEF TextOK, Lost, Requests
<1>6. CASE ~(u \in Requests(f) /\ call'[u] = "stray")
  <2>1. \A w \in Requests(f) : Lost(w) => Lost(w)'
    <3>1. ASSUME NEW w \in Requests(f), Lost(w) PROVE Lost(w)'
      <4>1. CASE w = u
        BY <1>1, <1>2, <1>6, <3>1, <4>1 DEF Lost
      <4>2. CASE w # u
        BY <1>1, <1>2, <1>3, <3>1, <4>2 DEF Lost, ObjectLives
      <4> QED BY <4>1, <4>2
    <3> QED BY <3>1
  <2>2. \A w \in Requests(f) : (Live(w)' <=> Live(w)) /\ (Live(w) => call'[w] = call[w])
    BY <1>2, <1>3, <1>6 DEF Live
  <2>3. CASE \E v \in Requests(f) : Lost(v)
    BY <2>1, <2>3 DEF TextOK, Requests
  <2>4. CASE Unrequested(f)
    BY <1>1, <2>2, <2>4 DEF TextOK, Unrequested, Requests
  <2>5. CASE \E w \in Requests(f) : Latest(f, w)
    <3>1. PICK w \in Requests(f) : Latest(f, w)
      BY <2>5
    <3>2. Latest(f, w)'
      BY <1>1, <1>4, <2>2, <3>1 DEF Latest, Requests
    <3> QED BY <3>2 DEF TextOK, Requests
  <2> QED BY <2>3, <2>4, <2>5 DEF TextOK
<1> QED BY <1>5, <1>6

\* The parse of an older request is over before the latest begins.
LEMMA ParsedLast ==
  ASSUME TextBase, NEW f \in Files, NEW w \in Requests(f), Latest(f, w),
         wi \in Items, ran' = ran \cup {wi}, parsed' \in ParseResult(wi), w \in ran'
  PROVE  parsed'[f] \in {text[w], Aborted}
<1> USE DEF TextBase, QueueInv, TypeInv
<1>1. CASE wi = w
  BY <1>1 DEF ParseResult, Requests, TypeOK
<1>2. CASE wi # w
  <2>1. w \in ran /\ parsed[f] \in {text[w], Aborted}
    BY <1>2 DEF Latest
  <2>2. wi \notin Requests(f)
    <3>1. SUFFICES ASSUME wi \in Requests(f) PROVE FALSE
      OBVIOUS
    <3>2. call[wi] = "handed"
      BY DEF HandedInv, Pool
    <3>3. Before(wi, w)
      BY <1>2, <3>1, <3>2 DEF Latest, Live
    <3>4. wi \notin Finished
      BY <3>2, HandedIsSomewhere
    <3> QED BY <2>1, <3>3, <3>4 DEF Before, Finished
  <2>3. parsed'[f] = parsed[f]
    <3>1. CASE wi \in FileItems
      BY <2>2, <3>1 DEF ParseResult, Requests, TypeOK
    <3>2. CASE wi \notin FileItems
      BY <3>2 DEF ParseResult
    <3> QED BY <3>1, <3>2
  <2> QED BY <2>1, <2>3
<1> QED BY <1>1, <1>2

LEMMA TextConsumer ==
  ASSUME TextBase, NEW f \in Files, TextOK(f), Consumer
  PROVE  TextOK(f)'
<1> USE DEF TextBase, QueueInv, TypeInv
<1>1. \A v, w \in Requests(f) : Before(v, w) => Before(v, w)'
  BY FileItemsPlain, BeforeConsumer
<1>2. \A w \in Requests(f) : w \in Items /\ (Latest(f, w) /\ w \in ran => parsed[f] \in {text[w], Aborted})
  BY FileItemsPlain DEF Latest
<1>3. CASE \/ OuterLoop \/ InnerLoop \/ WaitForWork \/ WorkLoop \/ BeginParse \/ BeginLowPass
           \/ SkipLowPass \/ ContinueLowPass \/ EndLowPass
  <2>1. /\ UNCHANGED <<call, ptr, text, latest, dropped, leaked, gen, fileItems, ran, parsed>>
        /\ pc # "gone"
    BY <1>3 DEF Goto, OuterLoop, InnerLoop, WaitForWork, WorkLoop, BeginParse,
                BeginLowPass, SkipLowPass, ContinueLowPass, EndLowPass
  <2> QED BY <1>1, <1>2, <2>1, TextKept
<1>4. CASE \/ TakeDirLock \/ ReleaseDirLock \/ EndNormalDrain \/ EndDrain \/ GetNextJob \/ GetNextLowPriorityJob
           \/ SkipWorkItem \/ RequeueSkippedItems
  <2>1. /\ UNCHANGED <<call, ptr, text, latest, dropped, leaked, gen, fileItems, ran, parsed>>
        /\ pc # "gone"
    BY <1>4 DEF TakeDirLock, ReleaseDirLock, EndNormalDrain, Goto, EndDrain, GetNextJob, GetNextLowPriorityJob,
                SkipWorkItem, RequeueSkippedItems
  <2> QED BY <1>1, <1>2, <2>1, TextKept
<1>5. CASE UnregisterFileItem
  <2>1. /\ UNCHANGED <<call, ptr, text, latest, dropped, leaked, gen, ran, parsed>>
        /\ pc # "gone" /\ fileItems' = fileItems \ {wi}
    BY <1>5 DEF UnregisterFileItem
  <2>2. \A w \in Requests(f) : w = wi => call[w] = "handed"
    BY <1>2 DEF HandedInv, Pool
  <2> QED BY <1>1, <1>2, <2>1, <2>2, TextKept
<1>6. CASE EndParse \/ DrainItem
  <2>1. /\ UNCHANGED <<call, ptr, text, latest, leaked, gen, fileItems>>
        /\ dropped \subseteq dropped' /\ pc # "gone" /\ wi \in Items
        /\ \/ ran' = ran \cup {wi} /\ parsed' \in ParseResult(wi)
           \/ UNCHANGED <<ran, parsed>>
    BY <1>6 DEF EndParse, DrainItem, HoldingItem, Holding
  <2>2. \A w \in Requests(f) : Latest(f, w) /\ w \in ran' => parsed'[f] \in {text[w], Aborted}
    BY <1>2, <2>1, ParsedLast
  <2> QED BY <1>1, <2>1, <2>2, TextKept
<1>7. CASE DestroyThread
  <2>1. /\ UNCHANGED <<call, ptr, text, latest, dropped, ran, parsed>>
        /\ leaked \subseteq leaked' /\ fileItems' = {} /\ pc # "gone"
        /\ \/ pc' = "gone" /\ UNCHANGED gen
           \/ gen' = gen + 1
    BY <1>7 DEF DestroyThread
  <2>2. CASE \E v \in Requests(f) : call[v] = "registered"
    <3>1. PICK v \in Requests(f) : call[v] = "registered"
      BY <2>2
    <3>2. ptr[v] <= gen /\ ptr[v] \in Nat /\ gen \in Nat
      BY <1>2 DEF ShutdownInv, GlobalOK, TypeOK
    <3>3. ~ObjectLives(v)'
      BY <2>1, <3>2 DEF ObjectLives
    <3> QED BY <2>1, <3>1, <3>3 DEF TextOK, Lost, Requests
  <2>3. CASE \A v \in Requests(f) : call[v] # "registered"
    BY <1>1, <1>2, <2>1, <2>3, TextKept
  <2> QED BY <2>2, <2>3
<1> QED BY <1>3, <1>4, <1>5, <1>6, <1>7 DEF Consumer

LEMMA RegisteredKept ==
  ASSUME TextBase, NEW u \in Items, ReadGlobal(u) \/ CallDestroyedThread(u) \/ QueueParseWorkItem(u)
  PROVE  RegisteredLive'
<1> USE DEF TextBase, QueueInv, TypeInv
<1>1. /\ UNCHANGED fileItems /\ \A w \in Items \ {u} : call'[w] = call[w]
      /\ call[u] = "new" \/ call'[u] \in {"handed", "stray"}
  BY DEF ReadGlobal, CallDestroyedThread, QueueParseWorkItem, TypeOK
<1>2. \A w \in fileItems : w \in Items /\ call[w] # "new"
  BY ItemAssumption DEF RegInv, TypeOK
<1> QED BY <1>1, <1>2 DEF RegisteredLive

LEMMA FewerRegistered ==
  ASSUME RegisteredLive, UNCHANGED call, fileItems' \subseteq fileItems
  PROVE  RegisteredLive'
BY DEF RegisteredLive

LEMMA RegisteredConsumer ==
  ASSUME RegisteredLive, Consumer
  PROVE  RegisteredLive'
<1>1. CASE \/ OuterLoop \/ InnerLoop \/ WaitForWork \/ WorkLoop \/ BeginParse \/ BeginLowPass
           \/ SkipLowPass \/ ContinueLowPass \/ EndLowPass
  BY <1>1, FewerRegistered DEF Goto, OuterLoop, InnerLoop, WaitForWork, WorkLoop, BeginParse,
     BeginLowPass, SkipLowPass, ContinueLowPass, EndLowPass
<1>2. CASE \/ TakeDirLock \/ GetNextJob \/ UnregisterFileItem \/ GetNextLowPriorityJob
           \/ SkipWorkItem \/ EndParse
  BY <1>2, FewerRegistered DEF TakeDirLock, GetNextJob, UnregisterFileItem,
     GetNextLowPriorityJob, SkipWorkItem, EndParse
<1>3. CASE \/ DrainItem \/ ReleaseDirLock \/ EndNormalDrain \/ EndDrain \/ RequeueSkippedItems \/ DestroyThread
  BY <1>3, FewerRegistered DEF DrainItem, ReleaseDirLock, EndNormalDrain, Goto, EndDrain, RequeueSkippedItems,
     DestroyThread
<1> QED BY <1>1, <1>2, <1>3 DEF Consumer

LEMMA TextStill ==
  ASSUME TextBase, NEW f \in Files, TextOK(f),
         UNCHANGED <<queue, wi, ran, dropped, leaked, call, ptr, text, latest, gen, fileItems, parsed>>,
         pc = "gone" => pc' = "gone"
  PROVE  TextOK(f)'
<1>1. \A v, w : Before(v, w) => Before(v, w)'
  BY BeforeQuiet
<1>2. \A w \in Requests(f) : Latest(f, w) /\ w \in ran => parsed[f] \in {text[w], Aborted}
  BY DEF Latest
<1> QED BY <1>1, <1>2, TextKept

LEMMA TextsStep ==
  ASSUME TextBase, TextsOK, [Next]_vars
  PROVE  TextsOK' /\ RegisteredLive'
<1>1. CASE \E w \in Items : Producer(w)
  <2>1. PICK w \in Items : Producer(w)
    BY <1>1
  <2>2. CASE QueueFileWorkItem(w)
    BY <2>2, TextRegister
  <2>3. CASE QueueParseWorkItem(w)
    BY <2>3, TextHanded, RegisteredKept DEF TextsOK
  <2>4. CASE ReadGlobal(w) \/ CallDestroyedThread(w)
    BY <2>4, TextCalled, RegisteredKept DEF TextsOK
  <2> QED BY <2>1, <2>2, <2>3, <2>4 DEF Producer
<1>2. CASE Consumer
  BY <1>2, TextConsumer, RegisteredConsumer DEF TextsOK, TextBase
<1>3. CASE Environment
  BY <1>3, EnvironmentKeeps, TextStill, FewerRegistered DEF TextsOK, TextBase
<1>4. CASE UNCHANGED vars
  BY <1>4, TextStill, FewerRegistered DEF TextsOK, TextBase, vars
<1> QED BY <1>1, <1>2, <1>3, <1>4 DEF Next, Environment

\* An older text never overwrites a newer one: when every request for a file has
\* been served, the definitions in the database are those of the latest text, or
\* of a parse that was cut short.  The exception is a file item that is put off,
\* which only a RAD Studio build does.
THEOREM LatestTextWins ==
  ASSUME FileItems \cap MaySkip = {}
  PROVE  Spec => []LastTextWins
<1>1. TextBase /\ TextsOK => LastTextWins
  <2> SUFFICES ASSUME TextBase, TextsOK, NEW f \in Files, Settled(f), latest[f] # NoItem
               PROVE  parsed[f] \in {latest[f], Aborted}
    BY DEF LastTextWins
  <2> USE DEF TextBase, QueueInv
  <2>1. \A w \in Requests(f) : w \in Items /\ (Live(w) \/ call[w] = "stray" => w \in ran)
    BY FileItemsPlain DEF Settled, Requests, Live
  <2>2. \A w \in Requests(f) : w \in Finished => call[w] = "handed"
    BY <2>1 DEF HandedInv, Pool
  <2>3. \A w \in Requests(f) : ~Lost(w)
    <3> SUFFICES ASSUME NEW w \in Requests(f), Lost(w) PROVE FALSE
      OBVIOUS
    <3>1. call[w] = "handed"
      BY <2>1, <2>2 DEF Lost, Live, Finished
    <3>2. w \in ran /\ w \in dropped \cup leaked
      BY <2>1, <3>1 DEF Lost, Live
    <3> QED BY <2>1, <3>1, <3>2, HandedIsSomewhere
  <2>4. PICK w \in Requests(f) : Latest(f, w)
    BY <2>3 DEF TextsOK, TextOK, Unrequested
  <2> QED BY <2>1, <2>4 DEF Latest
<1> DEFINE I == QueueInv /\ OnceInv /\ PlaceInv /\ ShutdownInv /\ RegisteredLive /\ TextsOK
<1>2. FilesPlain
  BY DEF FilesPlain
<1>3. Init => I
  BY QueueInvInit, OnceInvInit, PlaceInvInit, ShutdownInvInit, TextsInit
<1>4. I /\ [Next]_vars => I'
  BY <1>2, QueueInvStep, OnceInvStep, PlaceInvStep, ShutdownInvStep, TextsStep
  DEF QueueInv, TextBase
<1>5. I => LastTextWins
  BY <1>1, <1>2 DEF TextBase
<1> QED BY <1>3, <1>4, <1>5, PTL DEF Spec

-----------------------------------------------------------------------------
(* The contract.  A step of the thread is a step of JobService: its waiting *)
(* jobs are the queued and the skipped ones, it is closing from the moment  *)
(* that g_ParserThread is another object, and what may go first does so     *)
(* because of NextPriority and Before.                                      *)

HandedOrdered == \A w \in Items : call[w] = "handed" => w \in SeqItems(order)
ServiceInv == QueueInv /\ OrderInv /\ ShutdownInv /\ HandedOrdered

\* What the history records was handed over, and the other way round.
LEMMA HandedOrderedStep ==
  ASSUME ServiceInv, [Next]_vars PROVE HandedOrdered'
<1> USE DEF ServiceInv, OrderInv, TypeInv
<1>1. order \in Seq(Items)
  BY DEF TypeOK
<1>2. ASSUME NEW v \in Items, QueueParseWorkItem(v) PROVE HandedOrdered'
  <2>1. order' = Append(order, v) /\ call' = [call EXCEPT ![v] = "handed"]
    BY <1>2 DEF QueueParseWorkItem
  <2>2. SeqItems(order') = SeqItems(order) \cup {v}
    BY <1>1, <2>1, SeqItemsAppend
  <2>3. \A w \in Items : w # v => call'[w] = call[w]
    BY <2>1 DEF TypeOK
  <2> QED BY <2>2, <2>3 DEF HandedOrdered
<1>3. ASSUME ~ \E v \in Items : QueueParseWorkItem(v)
      PROVE  order' = order /\ \A w \in Items : call'[w] = "handed" => call[w] = "handed"
  <2>1. order' = order
    BY <1>3, HistoryKept
  <2>2. ASSUME NEW v \in Items, Producer(v)
        PROVE  \A w \in Items : call'[w] = "handed" => call[w] = "handed"
    <3>1. /\ call'[v] # "handed"
          /\ \A w \in Items : w # v => call'[w] = call[w]
      BY <1>3, <2>2 DEF Producer, ReadGlobal, QueueFileWorkItem, CallDestroyedThread, TypeOK
    <3> QED BY <3>1
  <2>3. CASE Consumer
    BY <2>3, ConsumerKeepsCalls
  <2>4. CASE Environment
    BY <2>4, EnvironmentKeeps
  <2>5. CASE UNCHANGED vars
    BY <2>5 DEF vars
  <2> QED BY <2>1, <2>2, <2>3, <2>4, <2>5 DEF Next, Environment
<1>4. CASE ~ \E v \in Items : QueueParseWorkItem(v)
  <2>1. SeqItems(order') = SeqItems(order)
    BY <1>3, <1>4
  <2> QED BY <1>3, <1>4, <2>1 DEF HandedOrdered
<1> QED BY <1>2, <1>4

LEMMA ServiceInvInit == Init => ServiceInv
<1>1. Init => HandedOrdered
  BY DEF Init, HandedOrdered
<1> QED BY <1>1, QueueInvInit, OrderInvInit, ShutdownInvInit DEF ServiceInv

LEMMA ServiceInvStep == ServiceInv /\ [Next]_vars => ServiceInv'
BY HandedOrderedStep, QueueInvStep, OrderInvStep, ShutdownInvStep
DEF ServiceInv, OrderInv, QueueInv

\* A waiting job is in a queue or set aside, and a plain one is in its own queue.
LEMMA WaitingIsQueued ==
  ASSUME ServiceInv, NEW w \in Service!Waiting
  PROVE  /\ w \in Items /\ w \notin Finished /\ w # wi
         /\ w \in AllQueued \cup SeqItems(skipped)
         /\ w \in Plain => w \in SeqItems(queue[PriOf[w]])
<1> USE DEF ServiceInv, OrderInv
<1>1. w \in SeqItems(order) /\ w \notin Finished /\ w # wi
  BY DEF Service!Waiting, Service!Known, SeqItems, Finished
<1>2. w \in Items /\ call[w] = "handed"
  BY <1>1 DEF TypeInv, TypeOK, SeqItems
<1>3. w \in SeqItems(skipped) \/ \E p \in Priorities : w \in SeqItems(queue[p])
  BY <1>1, <1>2, HandedIsSomewhere DEF Pool
<1>4. w \in Plain => w \notin SeqItems(skipped)
  BY DEF PlaceInv, AsideFits, Plain
<1>5. w \in Plain => \A p \in Priorities : w \in SeqItems(queue[p]) => PriOf[w] = p
  BY DEF PlaceInv, QueuesFit, Fits, Plain
<1> QED BY <1>1, <1>2, <1>3, <1>4, <1>5 DEF AllQueued

\* What is in a queue waits.
LEMMA QueuedIsWaiting ==
  ASSUME ServiceInv, NEW p \in Priorities, NEW w \in SeqItems(queue[p])
  PROVE  w \in Service!Waiting
<1> USE DEF ServiceInv, OrderInv
<1>1. queue[p] \in Seq(Items) /\ w \in Items
  BY DEF TypeInv, TypeOK, SeqItems
<1>2. Pool(w) /\ call[w] = "handed"
  BY <1>1 DEF HandedInv, Pool
<1>3. w \in SeqItems(order)
  BY <1>1, <1>2 DEF HandedOrdered
<1>4. w \notin Finished /\ w # wi
  <2>1. /\ \A r \in Priorities : Occurrences(w, queue[r]) \in Nat
        /\ Occurrences(w, skipped) \in Nat /\ Queued(w) \in Nat /\ Ends(w) \in 0 .. 3
    BY CountsAreNat DEF TypeInv
  <2>2. Occurrences(w, queue[p]) # 0
    BY <1>1, OccurrencesMember
  <2>3. Queued(w) # 0
    <3>1. /\ Occurrences(w, queue[priLow]) \in Nat /\ Occurrences(w, queue[priBelowNormal]) \in Nat
          /\ Occurrences(w, queue[priNormal]) \in Nat /\ Occurrences(w, queue[priHigh]) \in Nat
      BY <2>1, PriorityCases
    <3>2. p \in {priLow, priBelowNormal, priNormal, priHigh}
      BY PriorityCases
    <3>3. \/ Occurrences(w, queue[priLow]) # 0 \/ Occurrences(w, queue[priBelowNormal]) # 0
          \/ Occurrences(w, queue[priNormal]) # 0 \/ Occurrences(w, queue[priHigh]) # 0
      BY <2>2, <3>2
    <3>4. Queued(w) = 0 =>
            /\ Occurrences(w, queue[priLow]) = 0 /\ Occurrences(w, queue[priBelowNormal]) = 0
            /\ Occurrences(w, queue[priNormal]) = 0 /\ Occurrences(w, queue[priHigh]) = 0
      BY <3>1 DEF Queued
    <3> QED BY <3>3, <3>4
  <2>4. Queued(w) + Occurrences(w, skipped) + One(wi = w) + Ends(w) = 1
    BY <1>1, <1>2 DEF OnceInv, Total, One
  <2>5. One(wi = w) \in {0, 1}
    BY DEF One
  <2>6. Ends(w) = 0 /\ One(wi = w) = 0
    BY <2>1, <2>3, <2>4, <2>5
  <2> QED BY <2>6 DEF Ends, One, Finished
<1> QED BY <1>3, <1>4 DEF Service!Waiting, Service!Known, SeqItems, Finished

\* The queue that is served has the highest priority of all that have an item.
LEMMA NextPriorityIsHighest ==
  ASSUME HasQueuedItems, NEW r \in Priorities, r # priLow, queue[r] # <<>>
  PROVE  r <= NextPriority
BY PriorityCases DEF NextPriority, priLow, priBelowNormal, priNormal, priHigh

\* The job that is taken is one that the contract allows.
LEMMA TakeAllowed ==
  ASSUME ServiceInv, GetNextJob \/ GetNextLowPriorityJob
  PROVE  \E w \in Items : Service!Take(w)
<1> USE DEF ServiceInv, OrderInv, TypeInv
<1>1. PICK p \in Priorities :
        /\ queue[p] # <<>> /\ TakeFrom(p) /\ wi = NoItem
        /\ UNCHANGED <<order, ran, dropped, leaked, gParser, gen, late>>
        /\ \A r \in Priorities : r # priLow /\ queue[r] # <<>> =>
             r <= p \/ (p = priLow /\ (gParser = gen \/ SeqItems(queue[r]) \subseteq late))
  <2>1. wi = NoItem /\ UNCHANGED <<order, ran, dropped, leaked, gParser, gen, late>>
    BY DEF GetNextJob, GetNextLowPriorityJob, HoldingItem, Holding, TypeOK
  <2>2. CASE GetNextJob
    <3>1. /\ HasQueuedItems /\ TakeFrom(NextPriority)
          /\ NextPriority \in Priorities /\ queue[NextPriority] # <<>>
      BY <2>2, NextPriorityQueued DEF GetNextJob
    <3>2. \A r \in Priorities : r # priLow /\ queue[r] # <<>> => r <= NextPriority
      BY <3>1, NextPriorityIsHighest
    <3> QED BY <2>1, <3>1, <3>2
  <2>3. CASE GetNextLowPriorityJob
    <3>1. /\ queue[priLow] # <<>> /\ TakeFrom(priLow) /\ pc \in {"lowPop", "drainLow"}
      BY <2>3 DEF GetNextLowPriorityJob, HasLowPriorityQueuedItems
    <3>2. pc = "lowPop" => gParser = gen
      BY DEF ShutdownInv, GlobalOK, DtorStates
    <3>3. pc = "drainLow" => \A r \in Priorities \ {priLow} : SeqItems(queue[r]) \subseteq late
      BY DEF ShutdownInv, DrainedOK, SecondLoop, NormalQueued
    <3>4. priLow \in Priorities
      BY PriorityCases
    <3> QED BY <2>1, <3>1, <3>2, <3>3, <3>4
  <2> QED BY <2>2, <2>3
<1>2. wi' \in SeqItems(queue[p])
  BY <1>1, TakeFromItems
<1>3. wi' \in Service!Waiting
  BY <1>2, QueuedIsWaiting
<1>4. wi' \in Items /\ wi' # NoItem
  BY <1>3, WaitingIsQueued, ItemAssumption
<1>5. Fits(wi', p) /\ PriOf[wi'] \in Priorities
  BY <1>2, <1>4, ItemAssumption DEF PlaceInv, QueuesFit
<1>6. ASSUME NEW v \in Service!Waiting \ MaySkip, Service!GoesFirst(v, wi') PROVE FALSE
  <2>1. /\ v \in Plain /\ v \notin Finished /\ v \in SeqItems(queue[PriOf[v]])
        /\ PriOf[v] \in Priorities
    BY <1>6, WaitingIsQueued, ItemAssumption DEF Plain
  <2>2. CASE PriOf[v] = PriOf[wi'] /\ wi' \notin MaySkip /\ Service!Precedes(v, wi')
    <3>1. PICK i \in DOMAIN order, j \in DOMAIN order : i < j /\ order[i] = v /\ order[j] = wi'
      BY <2>2 DEF Service!Precedes
    <3>2. wi' \in Plain
      BY <1>4, <2>2 DEF Plain
    <3>3. Before(v, wi')
      BY <2>1, <2>2, <3>1, <3>2 DEF OrderOK, Paired
    <3>4. PICK y : y = wi'
      OBVIOUS
    <3>5. Before(v, y)'
      BY <2>1, <2>2, <3>2, <3>3, <3>4, BeforeTake
    <3>6. v \in Finished'
      BY <3>4, <3>5 DEF Before
    <3> QED BY <1>1, <2>1, <3>6 DEF Finished
  <2>3. CASE /\ PriOf[v] > Service!Rank(wi')
             /\ PriOf[wi'] = priLow => gParser # gen /\ v \notin late
    <3>1. queue[PriOf[v]] # <<>>
      BY <2>1, SeqItemsEmpty
    <3>2. /\ Service!Rank(wi') \in Priorities /\ Service!Rank(wi') >= p
          /\ p = priLow => PriOf[wi'] = priLow
      BY <1>5 DEF Fits, Service!Rank, Priorities, priLow, priNormal, priHigh
    <3>3. PriOf[v] > p /\ PriOf[v] # priLow
      BY <2>1, <2>3, <3>2 DEF Priorities, priLow, priHigh
    <3>4. PriOf[v] <= p \/ (p = priLow /\ (gParser = gen \/ v \in late))
      BY <1>1, <2>1, <3>1, <3>3
    <3> QED BY <2>1, <2>3, <3>2, <3>3, <3>4 DEF Priorities, priLow, priHigh
  <2> QED BY <1>6, <2>2, <2>3 DEF Service!GoesFirst
<1> QED BY <1>1, <1>3, <1>4, <1>6 DEF Service!Take

\* The end of the destructor ends the service, and only late jobs are left.
LEMMA EndAllowed ==
  ASSUME ServiceInv, DestroyThread
  PROVE  Service!End
<1> USE DEF ServiceInv, OrderInv, TypeInv
<1>1. /\ UNCHANGED <<order, wi, ran, dropped, late>> /\ pc = "dtorEnd"
      /\ leaked' = leaked \cup AllQueued \cup SeqItems(skipped)
  BY DEF DestroyThread
<1>2. skipped = <<>> /\ wi = NoItem /\ gParser # gen /\ AllQueued \subseteq late
  BY <1>1 DEF PlaceInv, AsideInPass, HoldingItem, Holding, TypeOK, ShutdownInv, GlobalOK,
              DrainedOK, DtorStates
<1>3. SeqItems(skipped) = {}
  BY <1>2, SeqItemsEmpty
<1>4. Service!Waiting = AllQueued
  <2>1. Service!Waiting \subseteq AllQueued
    BY <1>3, WaitingIsQueued
  <2>2. AllQueued \subseteq Service!Waiting
    BY QueuedIsWaiting DEF AllQueued
  <2> QED BY <2>1, <2>2
<1>5. (dropped \cup leaked)' = (dropped \cup leaked) \cup Service!Waiting
  BY <1>1, <1>3, <1>4
<1> QED BY <1>1, <1>2, <1>4, <1>5 DEF Service!End

LEMMA ConsumerServes ==
  ASSUME ServiceInv, Consumer
  PROVE  Service!Next \/ UNCHANGED Service!vars
<1> USE DEF ServiceInv, OrderInv, TypeInv
<1>1. CASE \/ OuterLoop \/ InnerLoop \/ WaitForWork \/ WorkLoop \/ BeginParse \/ BeginLowPass
           \/ SkipLowPass \/ ContinueLowPass \/ EndLowPass
  BY <1>1 DEF Goto, OuterLoop, InnerLoop, WaitForWork, WorkLoop, BeginParse, BeginLowPass,
              SkipLowPass, ContinueLowPass, EndLowPass, Service!vars
<1>2. CASE UnregisterFileItem \/ ReleaseDirLock \/ RequeueSkippedItems \/ EndNormalDrain \/ EndDrain
  BY <1>2 DEF UnregisterFileItem, ReleaseDirLock, RequeueSkippedItems, EndNormalDrain, Goto, EndDrain, Service!vars
<1>3. CASE TakeDirLock
  <2>1. /\ UNCHANGED <<order, wi, ran, dropped, leaked, gen, late>>
        /\ \/ gParser' = gParser
           \/ pc = "exit" /\ gParser' = 0
    BY <1>3 DEF TakeDirLock
  <2>2. CASE gParser' = gParser
    BY <2>1, <2>2 DEF Service!vars
  <2>3. CASE pc = "exit" /\ gParser' = 0
    <3>1. wi = NoItem /\ gParser = gen /\ gen # 0
      BY <2>3 DEF HoldingItem, Holding, TypeOK, ShutdownInv, GlobalOK, DtorStates
    <3>2. Service!Close
      BY <2>1, <2>3, <3>1 DEF Service!Close
    <3> QED BY <3>2 DEF Service!Next
  <2> QED BY <2>1, <2>2, <2>3
<1>4. CASE GetNextJob \/ GetNextLowPriorityJob
  BY <1>4, TakeAllowed DEF Service!Next
<1>5. CASE SkipWorkItem
  <2>1. /\ UNCHANGED <<order, ran, dropped, leaked, gParser, gen, late>>
        /\ pc = "run" /\ wi \in MaySkip /\ wi' = NoItem
    BY <1>5 DEF SkipWorkItem
  <2>2. gParser = gen
    BY <2>1 DEF ShutdownInv, GlobalOK, DtorStates
  <2>3. Service!PutOff
    BY <2>1, <2>2 DEF Service!PutOff
  <2> QED BY <2>3 DEF Service!Next
<1>6. CASE EndParse
  <2>1. /\ UNCHANGED <<order, dropped, leaked, gParser, gen, late>>
        /\ pc = "parsing" /\ ran' = ran \cup {wi} /\ wi' = NoItem
    BY <1>6 DEF EndParse
  <2>2. wi # NoItem /\ gParser = gen
    BY <2>1, ItemAssumption DEF HoldingItem, Holding, ShutdownInv, GlobalOK, DtorStates
  <2>3. Service!Execute
    BY <2>1, <2>2 DEF Service!Execute
  <2> QED BY <2>3 DEF Service!Next
<1>7. CASE DrainItem
  <2>1. /\ UNCHANGED <<order, leaked, gParser, gen, late>>
        /\ pc = "drainRun" /\ wi' = NoItem
        /\ \/ wi \in AtShutdown /\ ran' = ran \cup {wi} /\ UNCHANGED dropped
           \/ wi \notin AtShutdown /\ dropped' = dropped \cup {wi} /\ UNCHANGED ran
    BY <1>7 DEF DrainItem
  <2>2. wi # NoItem /\ gParser # gen
    BY <2>1, ItemAssumption DEF HoldingItem, Holding, ShutdownInv, GlobalOK, DtorStates
  <2>3. CASE wi \in AtShutdown
    <3>1. Service!Execute
      BY <2>1, <2>2, <2>3 DEF Service!Execute
    <3> QED BY <3>1 DEF Service!Next
  <2>4. CASE wi \notin AtShutdown
    <3>1. (dropped \cup leaked)' = (dropped \cup leaked) \cup {wi}
      BY <2>1, <2>4
    <3>2. Service!Discard
      BY <2>1, <2>2, <2>4, <3>1 DEF Service!Discard
    <3> QED BY <3>2 DEF Service!Next
  <2> QED BY <2>3, <2>4
<1>8. CASE DestroyThread
  BY <1>8, EndAllowed DEF Service!Next
<1> QED BY <1>1, <1>2, <1>3, <1>4, <1>5, <1>6, <1>7, <1>8 DEF Consumer

\* The parser thread does what JobService promises, for any set of jobs and
\* priorities, across jobs that are put off, restarts and shutdown.
THEOREM Refinement == Spec => Implements
<1>1. Init => Service!Init
  BY DEF Init, Service!Init
<1>2. ASSUME ServiceInv, [Next]_vars PROVE [Service!Next]_(Service!vars)
  <2>1. ASSUME NEW v \in Items, QueueParseWorkItem(v) PROVE Service!Submit(v)
    <3>1. /\ UNCHANGED <<wi, ran, dropped, leaked, gParser, gen>> /\ call[v] # "handed"
          /\ order' = Append(order, v)
          /\ late' = IF gParser = gen THEN late ELSE late \cup {v}
      BY <2>1 DEF QueueParseWorkItem
    <3>2. v \notin SeqItems(order)
      BY <1>2, <3>1 DEF ServiceInv, OrderInv
    <3> QED BY <3>1, <3>2 DEF Service!Submit, Service!Known, SeqItems
  <2>2. CASE \E v \in Items : Producer(v)
    <3>1. PICK v \in Items : Producer(v)
      BY <2>2
    <3>2. QueueParseWorkItem(v) \/ UNCHANGED Service!vars
      BY <3>1 DEF Producer, ReadGlobal, QueueFileWorkItem, CallDestroyedThread, Service!vars
    <3> QED BY <2>1, <3>2 DEF Service!Next
  <2>3. CASE Consumer
    BY <1>2, <2>3, ConsumerServes
  <2>4. CASE Environment
    BY <2>4, EnvironmentKeeps DEF Service!vars
  <2>5. CASE UNCHANGED vars
    BY <2>5 DEF vars, Service!vars
  <2> QED BY <1>2, <2>2, <2>3, <2>4, <2>5 DEF Next, Environment
<1> QED BY <1>1, <1>2, ServiceInvInit, ServiceInvStep, PTL DEF Spec, Implements, Service!Spec

=============================================================================
