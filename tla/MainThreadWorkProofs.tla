------------------------ MODULE MainThreadWorkProofs ------------------------
(***************************************************************************)
(* The tasks and items that are handed to the UI thread are neither lost,  *)
(* repeated nor reordered, but for items behind one that throws; a call    *)
(* that comes back finds its task done, and a flush leaves nothing of its  *)
(* caller behind: for any number of workers, tasks, items and nested       *)
(* message loops.                                                          *)
(***************************************************************************)
EXTENDS MainThreadWork, FiniteSetTheorems, TLAPS

USE DEF taskVars, itemVars, callVars, licenceVars, envVars

-----------------------------------------------------------------------------
(* The invariant of the stack and of the calls.                            *)

\* Only a batch has tasks; a frame that answers somebody counts itself before it
\* takes tasks.
FrameOK(f) ==
  /\ f.todo \in Seq(Tasks)
  /\ f.counted => f.at \in {"peek", "batch", "task"}
  /\ f.todo # <<>> => f.at \in {"batch", "task"}
  /\ f.at = "task" => f.cur \in Tasks
  /\ f.at = "item" => f.cur \in Items
  /\ f.at \notin {"task", "item"} => f.cur = 0
  /\ f.to # Nobody => f.exec /\ f.at \in {"begin", "item", "exec", "batch", "task"}
  /\ f.to # Nobody /\ f.at \in {"batch", "task"} => f.counted

FramesOK == \A k \in DOMAIN stack : FrameOK(stack[k])

\* A worker's message is handled in one frame.
HandledOnce ==
  /\ \A k \in DOMAIN stack : stack[k].to # Nobody => pc[stack[k].to] = "handled"
  /\ \A k, l \in DOMAIN stack : stack[k].to = stack[l].to /\ stack[k].to # Nobody => k = l

\* already_running_all
OneGenerator ==
  \A k, l \in DOMAIN stack :
    stack[k].at \in {"begin", "item"} /\ stack[l].at \in {"begin", "item"} => k = l

\* What RunUiThreadTasks tests: around a counted batch nothing is counted.
CountedAlone ==
  \A k, l \in DOMAIN stack :
    stack[k].counted /\ stack[k].at \in {"batch", "task"} /\ l < k => ~stack[l].counted

CallsOK == \A w \in Workers : callTask[w] # 0 => pc[w] \in {"send", "sent", "handled"}

\* no_trottling counts the flushes that have begun and not ended.
Flushing(w) == pc[w] \in {"send", "sent", "handled", "flushed"} /\ callTask[w] = 0
FlushesCounted == no_trottling = Cardinality({w \in Workers : Flushing(w)})

StackOK ==
  /\ stack \in Seq(Frames) /\ Len(stack) <= MaxDepth
  /\ FramesOK /\ HandledOnce /\ OneGenerator /\ CountedAlone

CallsType ==
  /\ pc \in [Workers -> WorkerStates]
  /\ callTask \in [Workers -> 0..asked]
  /\ missed \in [Workers -> BOOLEAN]

CallInv == CallsType /\ CallsOK /\ FlushesCounted

TasksType ==
  /\ asked \in 0..MaxTasks
  /\ gUiThreadTasks \in Seq(Tasks)
  /\ done \subseteq Tasks /\ early \subseteq Tasks /\ refused \subseteq Tasks

ItemsType ==
  /\ pusher \in Seq(Workers) /\ markerOf \in Seq(Markers \cup {0})
  /\ Len(pusher) <= MaxItems /\ Len(markerOf) = Len(pusher)
  /\ pendingWork \in Seq(Items) /\ batch \in Seq(Items) /\ ran \in Seq(Items)
  /\ throttled \in BOOLEAN /\ abandoned \in BOOLEAN /\ lost \subseteq Items

EnvType ==
  /\ dirLock \in Workers \cup {Nobody}
  /\ posted \in Nat /\ mLicenseInit \in BOOLEAN /\ gLicenseCountOk \in BOOLEAN

StackInv == TasksType /\ ItemsType /\ CallInv /\ EnvType /\ StackOK

-----------------------------------------------------------------------------
(* The invariant of the tasks.                                             *)

\* No two frames run the same task.
RunningApart ==
  \A k, l \in DOMAIN stack :
    stack[k].at = "task" /\ stack[l].at = "task" /\ k # l => stack[k].cur # stack[l].cur

\* The frame that answers a synchronous call has taken its task, or another has.
OwnTaskTaken ==
  \A k \in DOMAIN stack :
    stack[k].to # Nobody /\ stack[k].at \in {"batch", "task"} =>
      callTask[stack[k].to] \notin Elements(gUiThreadTasks)

\* TasksWaitInOrder, frame by frame.
Waits(t) ==
  t \in Elements(gUiThreadTasks) \/ \E k \in DOMAIN stack : t \in Elements(stack[k].todo)
Runs(t) == \E k \in DOMAIN stack : stack[k].at = "task" /\ stack[k].cur = t

InOrder ==
  /\ IsIncreasing(gUiThreadTasks) /\ \A k \in DOMAIN stack : IsIncreasing(stack[k].todo)
  /\ \A k \in DOMAIN stack :
       \A t \in Elements(stack[k].todo), u \in Elements(gUiThreadTasks) : t < u
  /\ \A k, l \in DOMAIN stack : k < l =>
       \A t \in Elements(stack[k].todo), u \in Elements(stack[l].todo) : t < u

EachOnce ==
  \A t \in Tasks :
    /\ Waits(t) \/ Runs(t) \/ t \in done
    /\ ~(Waits(t) /\ Runs(t)) /\ ~(Waits(t) /\ t \in done) /\ ~(Runs(t) /\ t \in done)

TasksInv == InOrder /\ EachOnce /\ RunningApart /\ OwnTaskTaken /\ ReturnedCallsAreDone

-----------------------------------------------------------------------------
(* The invariant of the items.                                             *)

\* The lock-free list has the newest item in front.
NewestInFront == \A j, k \in DOMAIN pendingWork : j < k => pendingWork[j] > pendingWork[k]

\* The generator has items left only while one runs or while it has yielded in
\* the middle of them, and nobody enters it again after an item has thrown.
GeneratorOK ==
  /\ batch # <<>> => throttled \/ \E k \in DOMAIN stack : stack[k].at = "item"
  /\ throttled => \A k \in DOMAIN stack : stack[k].at # "item"
  /\ abandoned => \A k \in DOMAIN stack : stack[k].at \notin {"begin", "item"}

ItemsInv == NewestInFront /\ GeneratorOK /\ ItemsRunInOrder

-----------------------------------------------------------------------------
(* The invariant of the flushes.                                           *)

NoneOf(w, items) == \A i \in items : pusher[i] # w
Unstarted == Elements(pendingWork) \cup Elements(batch)

\* How far a flush is: its frame runs the items it has taken, or is behind them,
\* or its worker has been answered.
Progress(w, place) ==
  /\ place = "item" => NoneOf(w, Elements(pendingWork))
  /\ place \in {"exec", "batch", "task", "flushed"} =>
       NoneOf(w, Unstarted \cup RunningItems)

FlushOK(w) ==
  /\ Progress(w, pc[w])
  /\ \A k \in DOMAIN stack : stack[k].to = w => Progress(w, stack[k].at)

\* A flush, if the worker makes one, has not been missed.
Awaits(w) == callTask[w] = 0 /\ ~missed[w]

FlushInv == \A w \in Workers : Awaits(w) => FlushOK(w)

IInv == StackInv /\ TasksInv /\ ItemsInv /\ FlushInv

-----------------------------------------------------------------------------
(* What the operators on lists do.                                         *)

LEMMA SeqGrows ==
  ASSUME NEW S, NEW T, S \subseteq T, NEW s \in Seq(S) PROVE s \in Seq(T)
<1>1. s \in [1..Len(s) -> S] /\ Len(s) \in Nat  OBVIOUS
<1>2. s \in [1..Len(s) -> T]  BY <1>1
<1> QED  BY <1>1, <1>2

LEMMA Appended ==
  ASSUME NEW S, NEW s \in Seq(S), NEW e \in S
  PROVE  /\ Append(s, e) \in Seq(S) /\ Len(Append(s, e)) = Len(s) + 1
         /\ Append(s, e)[Len(s) + 1] = e
         /\ \A k \in 1..Len(s) : Append(s, e)[k] = s[k]
         /\ Elements(Append(s, e)) = Elements(s) \cup {e}
<1> DEFINE t == Append(s, e)
<1>1. /\ t \in Seq(S) /\ Len(t) = Len(s) + 1 /\ t[Len(s) + 1] = e
      /\ \A k \in 1..Len(s) : t[k] = s[k]
      /\ Len(s) \in Nat /\ DOMAIN s = 1..Len(s) /\ DOMAIN t = 1..(Len(s) + 1)
  OBVIOUS
<1> HIDE DEF t
<1>2. \A k \in DOMAIN t : k \in DOMAIN s \/ k = Len(s) + 1  BY <1>1
<1>3. Len(s) + 1 \in DOMAIN t /\ \A k \in DOMAIN s : k \in DOMAIN t  BY <1>1
<1>4. Elements(t) = Elements(s) \cup {e}  BY <1>1, <1>2, <1>3 DEF Elements
<1> QED  BY <1>1, <1>4 DEF t

LEMMA Beheaded ==
  ASSUME NEW S, NEW s \in Seq(S), s # <<>>
  PROVE  /\ Head(s) \in S /\ Tail(s) \in Seq(S) /\ 1 \in DOMAIN s /\ Head(s) = s[1]
         /\ DOMAIN Tail(s) = 1..(Len(s) - 1) /\ Len(Tail(s)) = Len(s) - 1
         /\ \A k \in DOMAIN Tail(s) : k + 1 \in DOMAIN s /\ Tail(s)[k] = s[k + 1]
         /\ Elements(s) = Elements(Tail(s)) \cup {Head(s)}
<1> DEFINE t == Tail(s)
<1>1. /\ Head(s) \in S /\ t \in Seq(S) /\ Head(s) = s[1] /\ Len(s) \in Nat /\ 1 <= Len(s)
      /\ DOMAIN s = 1..Len(s) /\ DOMAIN t = 1..(Len(s) - 1) /\ Len(t) = Len(s) - 1
      /\ \A k \in 1..(Len(s) - 1) : t[k] = s[k + 1]
  OBVIOUS
<1> HIDE DEF t
<1>2. 1 \in DOMAIN s /\ \A k \in DOMAIN t : k + 1 \in DOMAIN s /\ t[k] = s[k + 1]
  BY <1>1
<1>3. ASSUME NEW k \in DOMAIN s, k # 1 PROVE k - 1 \in DOMAIN t /\ t[k - 1] = s[k]
  <2>1. k \in Nat /\ k - 1 \in DOMAIN t /\ (k - 1) + 1 = k  BY <1>1, <1>3
  <2>2. t[k - 1] = s[(k - 1) + 1]  BY <1>2, <2>1
  <2> QED  BY <2>1, <2>2
<1>4. Elements(s) \subseteq Elements(t) \cup {Head(s)}
  BY <1>1, <1>3 DEF Elements
<1>5. Elements(t) \cup {Head(s)} \subseteq Elements(s)
  BY <1>1, <1>2 DEF Elements
<1> QED  BY <1>1, <1>2, <1>4, <1>5 DEF t

LEMMA ElementsEmpty == Elements(<<>>) = {}
  BY DEF Elements

LEMMA ElementsType ==
  ASSUME NEW S, NEW s \in Seq(S) PROVE Elements(s) \subseteq S
  BY DEF Elements

\* A sequence that increases goes on doing so without its head, and behind it.
LEMMA IncreasingTail ==
  ASSUME NEW s \in Seq(Nat), s # <<>>, IsIncreasing(s)
  PROVE  IsIncreasing(Tail(s)) /\ \A e \in Elements(Tail(s)) : Head(s) < e
<1>1. /\ 1 \in DOMAIN s /\ Head(s) = s[1]
      /\ DOMAIN Tail(s) = 1..(Len(s) - 1) /\ Len(s) \in Nat
      /\ \A k \in DOMAIN Tail(s) : k + 1 \in DOMAIN s /\ Tail(s)[k] = s[k + 1]
  BY Beheaded
<1>2. \A j, k \in DOMAIN Tail(s) : j < k => j + 1 < k + 1  BY <1>1
<1>3. \A k \in DOMAIN Tail(s) : 1 < k + 1  BY <1>1
<1>4. IsIncreasing(Tail(s))  BY <1>1, <1>2 DEF IsIncreasing
<1>5. \A k \in DOMAIN Tail(s) : Head(s) < Tail(s)[k]  BY <1>1, <1>3 DEF IsIncreasing
<1> QED  BY <1>4, <1>5 DEF Elements

LEMMA IncreasingAppend ==
  ASSUME NEW s \in Seq(Nat), IsIncreasing(s), NEW e \in Nat,
         \A d \in Elements(s) : d < e
  PROVE  IsIncreasing(Append(s, e))
<1> DEFINE t == Append(s, e)
<1>1. /\ Len(t) = Len(s) + 1 /\ t[Len(s) + 1] = e
      /\ \A k \in 1..Len(s) : t[k] = s[k]
      /\ Len(s) \in Nat /\ DOMAIN s = 1..Len(s) /\ DOMAIN t = 1..(Len(s) + 1)
  OBVIOUS
<1> HIDE DEF t
<1>2. ASSUME NEW j \in DOMAIN t, NEW k \in DOMAIN t, j < k PROVE t[j] < t[k]
  <2>1. j \in DOMAIN s /\ t[j] = s[j]  BY <1>1, <1>2
  <2>2. CASE k = Len(s) + 1
    BY <1>1, <2>1, <2>2 DEF Elements
  <2>3. CASE k # Len(s) + 1
    <3>1. k \in DOMAIN s /\ t[k] = s[k]  BY <1>1, <2>3
    <3> QED  BY <1>2, <2>1, <3>1 DEF IsIncreasing
  <2> QED  BY <2>2, <2>3
<1> QED  BY <1>2 DEF IsIncreasing, t

(* retrieve_all_items: every kept place once, the last one first.            *)
LEMMA Ranked ==
  ASSUME NEW m \in Nat, NEW places \in SUBSET (1..m)
  PROVE  LET size == Cardinality(places)
             Rank(p) == Cardinality({q \in places : p <= q})
         IN  /\ size \in Nat
             /\ \A p \in places : Rank(p) \in 1..size
             /\ \A p, q \in places : p < q => Rank(q) < Rank(p)
             /\ \A n \in 1..size : \E p \in places : Rank(p) = n
<1> DEFINE size == Cardinality(places)
           From(p) == {q \in places : p <= q}
           rank == [p \in places |-> Cardinality(From(p))]
<1>1. IsFiniteSet(places) /\ size \in Nat
  <2>1. IsFiniteSet(1..m)  BY FS_Interval
  <2> QED  BY <2>1, FS_Subset, FS_CardinalityType
<1>2. ASSUME NEW p \in places
      PROVE  /\ IsFiniteSet(From(p)) /\ Cardinality(From(p)) \in 1..size /\ p \in From(p)
             /\ Cardinality(From(p)) = size => From(p) = places
  <2>1. From(p) \in SUBSET places /\ p \in From(p)  OBVIOUS
  <2>2. /\ IsFiniteSet(From(p)) /\ Cardinality(From(p)) <= size
        /\ size = Cardinality(From(p)) => places = From(p)
    BY <1>1, <2>1, FS_Subset
  <2>3. Cardinality(From(p)) \in Nat /\ Cardinality(From(p)) # 0
    <3> HIDE DEF From
    <3> QED  BY <2>1, <2>2, FS_EmptySet, FS_CardinalityType
  <2> HIDE DEF From, size
  <2> QED  BY <1>1, <2>1, <2>2, <2>3
<1>3. ASSUME NEW p \in places, NEW q \in places, p < q
      PROVE  Cardinality(From(q)) < Cardinality(From(p))
  <2>1. From(q) \in SUBSET From(p) /\ p \notin From(q)
    <3>1. \A r \in places : r \in Nat  OBVIOUS
    <3>2. p \in Nat /\ q \in Nat /\ ~(q <= p)  BY <1>3, <3>1
    <3>3. \A r \in places : q <= r => p <= r  BY <1>3, <3>1, <3>2
    <3> QED  BY <3>2, <3>3
  <2>2. From(p) # From(q)  BY <1>2, <2>1
  <2>3. /\ Cardinality(From(q)) <= Cardinality(From(p))
        /\ Cardinality(From(p)) = Cardinality(From(q)) => From(p) = From(q)
    <3>1. IsFiniteSet(From(p))  BY <1>2
    <3> HIDE DEF From
    <3> QED  BY <2>1, <3>1, FS_Subset
  <2>4. Cardinality(From(q)) \in Nat /\ Cardinality(From(p)) \in Nat
    BY <1>2, FS_CardinalityType
  <2> HIDE DEF From
  <2> QED  BY <2>2, <2>3, <2>4
<1>4. rank \in Injection(places, 1..size)
  <2>1. rank \in [places -> 1..size]  BY <1>2
  <2>2. ASSUME NEW p \in places, NEW q \in places, rank[p] = rank[q] PROVE p = q
    <3>1. PICK i \in 1..size : i = Cardinality(From(p)) /\ i = rank[p]  BY <1>2
    <3>2. PICK j \in 1..size : j = Cardinality(From(q)) /\ j = rank[q]  BY <1>2
    <3>3. i = j /\ i \in Int  BY <1>1, <2>2, <3>1, <3>2
    <3>4. ~(p < q) /\ ~(q < p)
      <4>1. p < q => j < i  BY <1>3, <3>1, <3>2
      <4>2. q < p => i < j  BY <1>3, <3>1, <3>2
      <4> QED  BY <3>3, <4>1, <4>2
    <3> QED  BY <3>4
  <2> HIDE DEF rank
  <2> QED  BY <2>1, <2>2 DEF Injection, IsInjective
<1>5. rank \in Surjection(places, 1..size)
  <2>1. IsFiniteSet(1..size) /\ Cardinality(1..size) = size
    <3> HIDE DEF size
    <3> QED  BY <1>1, FS_Interval
  <2> HIDE DEF rank, From
  <2> QED  BY <1>4, <2>1, FS_Injection
<1>6. \A n \in 1..size : \E p \in places : Cardinality(From(p)) = n
  <2>1. \A n \in 1..size : \E p \in places : rank[p] = n
    <3> HIDE DEF rank, From, size
    <3> QED  BY <1>5 DEF Surjection
  <2> QED  BY <2>1
<1> QED  BY <1>1, <1>2, <1>3, <1>6

LEMMA BackwardsFacts ==
  ASSUME NEW S, NEW list \in Seq(S), NEW places \in SUBSET DOMAIN list
  PROVE  /\ Backwards(list, places) \in Seq(S)
         /\ Elements(Backwards(list, places)) = {list[p] : p \in places}
         /\ \A i, j \in DOMAIN Backwards(list, places) : i < j =>
              \E p, q \in places :
                /\ q < p
                /\ Backwards(list, places)[i] = list[p]
                /\ Backwards(list, places)[j] = list[q]
<1> DEFINE size == Cardinality(places)
           Rank(p) == Cardinality({q \in places : p <= q})
           place == [n \in 1..size |-> CHOOSE p \in places : Rank(p) = n]
           back == [n \in 1..size |-> list[place[n]]]
<1>1. /\ size \in Nat
      /\ \A p \in places : Rank(p) \in 1..size
      /\ \A p, q \in places : p < q => Rank(q) < Rank(p)
      /\ \A n \in 1..size : \E p \in places : Rank(p) = n
  <2>1. Len(list) \in Nat /\ places \in SUBSET (1..Len(list))  OBVIOUS
  <2> QED  BY <2>1, Ranked
<1>2. back = Backwards(list, places)  BY DEF Backwards
<1>3. \A n \in 1..size : place[n] \in places /\ Rank(place[n]) = n
  <2> SUFFICES ASSUME NEW n \in 1..size PROVE place[n] \in places /\ Rank(place[n]) = n
    OBVIOUS
  <2>1. \E p \in places : Rank(p) = n  BY <1>1
  <2>2. place[n] = CHOOSE p \in places : Rank(p) = n  OBVIOUS
  <2> HIDE DEF place, Rank, size
  <2> QED  BY <2>1, <2>2
<1>4. \A p \in places : p \in Nat  OBVIOUS
<1>5. \A n \in 1..size : back[n] = list[place[n]]  OBVIOUS
<1>6. DOMAIN back = 1..size  OBVIOUS
<1>7. back \in Seq(S)
  <2>1. \A p \in places : list[p] \in S  OBVIOUS
  <2> HIDE DEF place, size, Rank
  <2>2. \A n \in 1..size : list[place[n]] \in S  BY <1>3, <2>1
  <2> QED  BY <1>1, <2>2
<1> HIDE DEF place, back, size, Rank
<1>8. \A p \in places : place[Rank(p)] = p
  <2> SUFFICES ASSUME NEW p \in places PROVE place[Rank(p)] = p  OBVIOUS
  <2>1. PICK n \in 1..size : n = Rank(p)  BY <1>1
  <2>2. PICK q \in places : q = place[n] /\ Rank(q) = n  BY <1>3
  <2>3. ~(p < q) /\ ~(q < p)  BY <1>1, <2>1, <2>2
  <2> QED  BY <1>4, <2>1, <2>2, <2>3
<1>9. Elements(back) = {list[p] : p \in places}
  <2>1. \A p \in places : \E n \in 1..size : back[n] = list[p]
    BY <1>1, <1>5, <1>8
  <2>2. \A n \in 1..size : \E p \in places : back[n] = list[p]
    BY <1>3, <1>5
  <2> QED  BY <1>6, <2>1, <2>2 DEF Elements
<1>10. ASSUME NEW i \in DOMAIN back, NEW j \in DOMAIN back, i < j
       PROVE  \E p, q \in places : q < p /\ back[i] = list[p] /\ back[j] = list[q]
  <2>1. PICK p \in places : p = place[i] /\ Rank(p) = i  BY <1>3, <1>6
  <2>2. PICK q \in places : q = place[j] /\ Rank(q) = j  BY <1>3, <1>6
  <2>3. ~(p < q) /\ p # q
    <3>1. i \in Nat /\ j \in Nat  BY <1>1, <1>6
    <3> QED  BY <1>1, <1>10, <2>1, <2>2, <3>1
  <2>4. q < p  BY <1>4, <2>3
  <2> QED  BY <1>5, <1>6, <2>1, <2>2, <2>4
<1> QED  BY <1>2, <1>7, <1>9, <1>10

\* A set of places has a first one.
LEMMA FirstPlace ==
  ASSUME NEW m \in Nat, NEW places \in SUBSET (1..m), places # {}
  PROVE  \E p \in places : \A q \in places : p <= q
<1> DEFINE size == Cardinality(places)
           From(p) == {q \in places : p <= q}
<1>1. /\ size \in Nat
      /\ \A p \in places : Cardinality(From(p)) \in 1..size
      /\ \A n \in 1..size : \E p \in places : Cardinality(From(p)) = n
  BY Ranked
<1>2. size \in 1..size
  <2>1. PICK p \in places : TRUE  OBVIOUS
  <2>2. Cardinality(From(p)) \in 1..size  BY <1>1
  <2> HIDE DEF size
  <2> QED  BY <1>1, <2>2
<1>3. PICK p \in places : Cardinality(From(p)) = size  BY <1>1, <1>2
<1>4. IsFiniteSet(places)
  <2>1. IsFiniteSet(1..m)  BY FS_Interval
  <2> QED  BY <2>1, FS_Subset
<1>5. From(p) = places
  <2>1. From(p) \in SUBSET places  OBVIOUS
  <2> HIDE DEF From
  <2> QED  BY <1>3, <1>4, <2>1, FS_Subset
<1> QED  BY <1>5

-----------------------------------------------------------------------------
(* What the operations do to the stack.                                    *)

Place(at) == at \in {"peek", "direct", "begin", "item", "exec", "batch", "task", "lock"}

LEMMA TopFrame ==
  ASSUME stack \in Seq(Frames), NEW at, Place(at), At(at)
  PROVE  /\ stack # <<>> /\ Top = stack[Len(stack)] /\ Top \in Frames
         /\ Len(stack) \in DOMAIN stack /\ Top.at = at
<1>1. stack # <<>>  BY DEF At, Top, Frame, Place
<1> QED  BY <1>1 DEF At, Top

\* Equal but for pumps.
Alike(f, g) ==
  /\ f.at = g.at /\ f.to = g.to /\ f.exec = g.exec /\ f.todo = g.todo
  /\ f.cur = g.cur /\ f.counted = g.counted

LEMMA Entered ==
  ASSUME stack \in Seq(Frames), Len(stack) <= MaxDepth, NEW f \in Frames, Enter(f)
  PROVE  /\ stack' \in Seq(Frames) /\ Len(stack') <= MaxDepth
         /\ Len(stack') = Len(stack) + 1 /\ stack'[Len(stack) + 1] = f
         /\ \A k \in DOMAIN stack : Alike(stack'[k], stack[k])
<1>1. CASE stack = <<>>
  <2>1. stack' = <<f>>  BY <1>1 DEF Enter
  <2>2. stack' \in Seq(Frames) /\ Len(stack') = 1 /\ stack'[1] = f  BY <2>1
  <2>3. Len(stack) = 0 /\ DOMAIN stack = {}  BY <1>1
  <2> QED  BY <2>2, <2>3, WorkAssumption
<1>2. CASE stack # <<>>
  <2> DEFINE n == Len(stack)
             pumped == [stack EXCEPT ![n].pumps = @ + 1]
  <2>1. /\ n \in DOMAIN stack /\ n \in Nat /\ n < MaxDepth /\ stack[n] \in Frames
        /\ stack[n].pumps < MaxPumps /\ stack' = Append(pumped, f)
    BY <1>2 DEF Enter, Top
  <2>2. [stack[n] EXCEPT !.pumps = @ + 1] \in Frames
    <3>1. PICK g \in Frames : g = stack[n]  BY <2>1
    <3>2. g.pumps \in 0..MaxPumps /\ g.pumps < MaxPumps  BY <2>1, <3>1 DEF Frames
    <3>3. g.pumps + 1 \in 0..MaxPumps  BY <3>2, WorkAssumption
    <3>4. [g EXCEPT !.pumps = @ + 1] \in Frames  BY <3>3 DEF Frames
    <3> QED  BY <3>1, <3>4
  <2>3. pumped = [stack EXCEPT ![n] = [stack[n] EXCEPT !.pumps = @ + 1]]
    BY <2>1
  <2>4. pumped \in Seq(Frames) /\ Len(pumped) = n
    BY <2>1, <2>2, <2>3
  <2>5. \A k \in DOMAIN stack : Alike(pumped[k], stack[k])
    <3>1. Alike([stack[n] EXCEPT !.pumps = @ + 1], stack[n])
      BY <2>1 DEF Alike, Frames
    <3>2. \A k \in DOMAIN stack : k # n => pumped[k] = stack[k]  BY <2>3
    <3>3. pumped[n] = [stack[n] EXCEPT !.pumps = @ + 1]  BY <2>1, <2>3
    <3> QED  BY <3>1, <3>2, <3>3 DEF Alike
  <2> HIDE DEF pumped
  <2>6. DOMAIN stack = 1..n  BY <2>1
  <2> QED  BY <2>1, <2>4, <2>5, <2>6, WorkAssumption
<1> QED  BY <1>1, <1>2

LEMMA Left1 ==
  ASSUME stack \in Seq(Frames), stack # <<>>, Leave
  PROVE  /\ stack' \in Seq(Frames) /\ Len(stack') = Len(stack) - 1
         /\ \A k \in DOMAIN stack' : stack'[k] = stack[k]
<1>1. Len(stack) \in Nat /\ 1 <= Len(stack) /\ DOMAIN stack = 1..Len(stack)  OBVIOUS
<1>2. stack' = SubSeq(stack, 1, Len(stack) - 1)  BY DEF Leave
<1>3. /\ stack' \in Seq(Frames) /\ Len(stack') = Len(stack) - 1
      /\ \A k \in 1..(Len(stack) - 1) : stack'[k] = stack[k]
  BY <1>1, <1>2
<1> QED  BY <1>1, <1>3

LEMMA Became ==
  ASSUME stack \in Seq(Frames), stack # <<>>, NEW f \in Frames, Become(f)
  PROVE  /\ stack' \in Seq(Frames) /\ Len(stack') = Len(stack)
         /\ stack'[Len(stack)] = f
         /\ \A k \in DOMAIN stack : k # Len(stack) => stack'[k] = stack[k]
  BY DEF Become

-----------------------------------------------------------------------------
(* The frames keep their order, whatever is done to the stack.             *)

Grows == Tasks \subseteq Tasks' /\ Items \subseteq Items'

LEMMA FrameKept ==
  ASSUME NEW f, NEW g, FrameOK(f), Alike(g, f), Grows PROVE FrameOK(g)'
<1>1. PICK T : T = Tasks'  OBVIOUS
<1>2. PICK s \in Seq(Tasks) : s = f.todo  BY DEF FrameOK
<1>3. s \in Seq(T)  BY <1>1, SeqGrows DEF Grows
<1>4. g.todo \in Seq(Tasks')  BY <1>1, <1>2, <1>3 DEF Alike
<1> QED  BY <1>4 DEF FrameOK, Alike, Grows

LEMMA AlikeSame == \A f : Alike(f, f)
  BY DEF Alike

LEMMA AnswersWorkers ==
  ASSUME stack \in Seq(Frames)
  PROVE  \A k \in DOMAIN stack : stack[k].to # Nobody => stack[k].to \in Workers
<1> SUFFICES ASSUME NEW k \in DOMAIN stack PROVE stack[k].to \in Workers \cup {Nobody}
  OBVIOUS
<1>1. stack[k] \in Frames  OBVIOUS
<1> QED  BY <1>1 DEF Frames

LEMMA StackSame ==
  ASSUME StackOK, UNCHANGED stack, Grows,
         \A w \in Workers : pc[w] = "handled" => pc'[w] = "handled"
  PROVE  StackOK'
<1>1. FramesOK'  BY FrameKept, AlikeSame DEF StackOK, FramesOK
<1>2. HandledOnce'
  BY AnswersWorkers DEF StackOK, HandledOnce
<1> QED  BY <1>1, <1>2 DEF StackOK, OneGenerator, CountedAlone

LEMMA StackEnter ==
  ASSUME StackOK, NEW f \in Frames, Enter(f), Grows, FrameOK(f)',
         f.at \in {"begin", "item"} => ~already_running_all,
         f.counted => f.at \notin {"batch", "task"},
         f.to # Nobody => pc[f.to] # "handled" /\ pc'[f.to] = "handled",
         \A w \in Workers : pc[w] = "handled" => pc'[w] = "handled"
  PROVE  StackOK'
<1> DEFINE n == Len(stack)
<1>1. /\ stack' \in Seq(Frames) /\ Len(stack') <= MaxDepth
      /\ Len(stack') = n + 1 /\ stack'[n + 1] = f
      /\ \A k \in DOMAIN stack : Alike(stack'[k], stack[k])
  BY Entered DEF StackOK
<1>2. n \in Nat /\ DOMAIN stack = 1..n /\ DOMAIN stack' = 1..(n + 1)
  BY <1>1 DEF StackOK
<1> HIDE DEF n
<1>3. \A k \in DOMAIN stack' : k \in DOMAIN stack \/ k = n + 1  BY <1>2
<1>4. \A k \in DOMAIN stack : stack[k].to # Nobody => stack[k].to \in Workers
  BY AnswersWorkers DEF StackOK
<1>5. FramesOK'
  BY <1>1, <1>3, FrameKept DEF StackOK, FramesOK
<1>6. HandledOnce'
  BY <1>1, <1>3, <1>4 DEF StackOK, HandledOnce, Alike
<1>7. OneGenerator'
  BY <1>1, <1>3 DEF StackOK, OneGenerator, Alike, already_running_all
<1>8. CountedAlone'
  <2> SUFFICES ASSUME NEW k \in DOMAIN stack', NEW l \in DOMAIN stack', l < k,
                      stack'[k].counted, stack'[k].at \in {"batch", "task"}
               PROVE  ~stack'[l].counted
    BY DEF CountedAlone
  <2>1. k \in DOMAIN stack  BY <1>1, <1>3
  <2>2. l \in DOMAIN stack  BY <1>2, <2>1
  <2> QED  BY <1>1, <2>1, <2>2 DEF StackOK, CountedAlone, Alike
<1> QED  BY <1>1, <1>5, <1>6, <1>7, <1>8 DEF StackOK

LEMMA StackLeave ==
  ASSUME StackOK, stack # <<>>, Leave, Grows,
         \A w \in Workers : pc[w] = "handled" => pc'[w] = "handled" \/ w = Top.to
  PROVE  StackOK'
<1> DEFINE n == Len(stack)
<1>1. /\ stack' \in Seq(Frames) /\ Len(stack') = n - 1
      /\ \A k \in DOMAIN stack' : stack'[k] = stack[k]
  BY Left1 DEF StackOK
<1>2. /\ n \in Nat /\ 1 <= n /\ DOMAIN stack = 1..n /\ DOMAIN stack' = 1..(n - 1)
      /\ Top = stack[n]
  BY <1>1 DEF StackOK, Top
<1>3. n \in DOMAIN stack /\ \A k \in DOMAIN stack' : k \in DOMAIN stack /\ k # n
  BY <1>2
<1>4. \A k \in DOMAIN stack : stack[k].to # Nobody => stack[k].to \in Workers
  BY AnswersWorkers DEF StackOK
<1> HIDE DEF n
<1>5. FramesOK'
  BY <1>1, <1>3, FrameKept, AlikeSame DEF StackOK, FramesOK
<1>6. HandledOnce'
  BY <1>1, <1>2, <1>3, <1>4 DEF StackOK, HandledOnce
<1>7. OneGenerator' /\ CountedAlone'
  BY <1>1, <1>3 DEF StackOK, OneGenerator, CountedAlone
<1>8. Len(stack') <= MaxDepth
  BY <1>1, <1>2, WorkAssumption DEF StackOK, n
<1> QED  BY <1>1, <1>5, <1>6, <1>7, <1>8 DEF StackOK

LEMMA StackBecome ==
  ASSUME StackOK, stack # <<>>, NEW f \in Frames, Become(f), Grows, FrameOK(f)',
         f.to = Top.to,
         f.at \in {"begin", "item"} => Top.at \in {"begin", "item"},
         f.counted /\ f.at \in {"batch", "task"} =>
           \/ Top.counted /\ Top.at \in {"batch", "task"}
           \/ \A k \in DOMAIN stack : ~stack[k].counted,
         \A w \in Workers : pc[w] = "handled" => pc'[w] = "handled"
  PROVE  StackOK'
<1> DEFINE n == Len(stack)
<1>1. /\ stack' \in Seq(Frames) /\ Len(stack') = n
      /\ stack'[n] = f
      /\ \A k \in DOMAIN stack : k # n => stack'[k] = stack[k]
  BY Became DEF StackOK
<1>2. /\ n \in Nat /\ 1 <= n /\ DOMAIN stack = 1..n /\ DOMAIN stack' = 1..n
      /\ Top = stack[n] /\ n \in DOMAIN stack
  BY <1>1 DEF StackOK, Top
<1> HIDE DEF n
<1>4. \A k \in DOMAIN stack : stack[k].to # Nobody => stack[k].to \in Workers
  BY AnswersWorkers DEF StackOK
<1>5. FramesOK'
  BY <1>1, <1>2, FrameKept, AlikeSame DEF StackOK, FramesOK
<1>6. HandledOnce'
  BY <1>1, <1>2, <1>4 DEF StackOK, HandledOnce
<1>7. OneGenerator'
  BY <1>1, <1>2 DEF StackOK, OneGenerator
<1>8. CountedAlone'
  <2> SUFFICES ASSUME NEW k \in DOMAIN stack', NEW l \in DOMAIN stack', l < k,
                      stack'[k].counted, stack'[k].at \in {"batch", "task"}
               PROVE  ~stack'[l].counted
    BY DEF CountedAlone
  <2>1. l # n /\ stack'[l] = stack[l]  BY <1>1, <1>2
  <2> QED  BY <1>1, <1>2, <2>1 DEF StackOK, CountedAlone
<1> QED  BY <1>1, <1>5, <1>6, <1>7, <1>8 DEF StackOK, n

-----------------------------------------------------------------------------
(* The frames before and after.                                            *)

LEMMA FrameType ==
  ASSUME NEW place, Place(place), NEW to \in Workers \cup {Nobody}
  PROVE  /\ Frame(place, to) \in Frames /\ Frame(place, to).at = place
         /\ Frame(place, to).to = to /\ Frame(place, to).exec
         /\ Frame(place, to).todo = <<>> /\ Frame(place, to).cur = 0
         /\ ~Frame(place, to).counted
<1>1. 0 \in 0..(MaxTasks + MaxItems) /\ 0 \in 0..MaxPumps  BY WorkAssumption
<1>2. <<>> \in Seq(1..MaxTasks)  OBVIOUS
<1> QED  BY <1>1, <1>2 DEF Frame, Frames, Place

LEMMA EnterFrames ==
  ASSUME StackOK, NEW f \in Frames, Enter(f)
  PROVE  /\ Len(stack) \in Nat /\ Len(stack') = Len(stack) + 1
         /\ Len(stack') \in DOMAIN stack' /\ stack'[Len(stack')] = f
         /\ \A k \in DOMAIN stack : k \in DOMAIN stack' /\ Alike(stack'[k], stack[k])
         /\ \A k \in DOMAIN stack' :
              k \in DOMAIN stack \/ (k = Len(stack') /\ stack'[k] = f)
<1> DEFINE n == Len(stack)
<1>1. /\ stack' \in Seq(Frames) /\ Len(stack') = n + 1 /\ stack'[n + 1] = f
      /\ \A k \in DOMAIN stack : Alike(stack'[k], stack[k])
  BY Entered DEF StackOK
<1>2. n \in Nat /\ DOMAIN stack = 1..n /\ DOMAIN stack' = 1..(n + 1)
  BY <1>1 DEF StackOK
<1> HIDE DEF n
<1>3. /\ n + 1 \in DOMAIN stack' /\ \A k \in DOMAIN stack : k \in DOMAIN stack'
      /\ \A k \in DOMAIN stack' : k \in DOMAIN stack \/ k = n + 1
  BY <1>2
<1>4. stack'[Len(stack')] = f /\ Len(stack') \in DOMAIN stack'  BY <1>1, <1>3
<1>5. \A k \in DOMAIN stack' : k \in DOMAIN stack \/ (k = Len(stack') /\ stack'[k] = f)
  BY <1>1, <1>3, <1>4
<1> QED  BY <1>1, <1>2, <1>3, <1>4, <1>5 DEF n

LEMMA LeaveFrames ==
  ASSUME StackOK, stack # <<>>, Leave
  PROVE  /\ Len(stack) \in Nat /\ Len(stack') = Len(stack) - 1
         /\ Len(stack) \in DOMAIN stack /\ Top = stack[Len(stack)] /\ Top \in Frames
         /\ \A k \in DOMAIN stack : k \in DOMAIN stack' \/ k = Len(stack)
         /\ \A k \in DOMAIN stack' :
              k \in DOMAIN stack /\ k # Len(stack) /\ stack'[k] = stack[k]
<1> DEFINE n == Len(stack)
<1>1. /\ stack' \in Seq(Frames) /\ Len(stack') = n - 1
      /\ \A k \in DOMAIN stack' : stack'[k] = stack[k]
  BY Left1 DEF StackOK
<1>2. /\ n \in Nat /\ 1 <= n /\ DOMAIN stack = 1..n /\ DOMAIN stack' = 1..(n - 1)
      /\ Top = stack[n] /\ stack[n] \in Frames
  BY <1>1 DEF StackOK, Top
<1> HIDE DEF n
<1>3. /\ n \in DOMAIN stack /\ \A k \in DOMAIN stack' : k \in DOMAIN stack /\ k # n
      /\ \A k \in DOMAIN stack : k \in DOMAIN stack' \/ k = n
  BY <1>2
<1> QED  BY <1>1, <1>2, <1>3 DEF n

LEMMA BecomeFrames ==
  ASSUME StackOK, stack # <<>>, NEW f \in Frames, Become(f)
  PROVE  /\ Len(stack) \in Nat /\ Len(stack') = Len(stack)
         /\ Len(stack) \in DOMAIN stack /\ Top = stack[Len(stack)] /\ Top \in Frames
         /\ DOMAIN stack' = DOMAIN stack /\ stack'[Len(stack)] = f
         /\ \A k \in DOMAIN stack : k # Len(stack) => stack'[k] = stack[k]
<1>1. /\ stack' \in Seq(Frames) /\ Len(stack') = Len(stack) /\ stack'[Len(stack)] = f
      /\ \A k \in DOMAIN stack : k # Len(stack) => stack'[k] = stack[k]
  BY Became DEF StackOK
<1>2. /\ Len(stack) \in DOMAIN stack /\ Top = stack[Len(stack)] /\ Top \in Frames
      /\ Len(stack) \in Nat
  BY DEF StackOK, Top
<1>3. DOMAIN stack' = DOMAIN stack  BY <1>1 DEF StackOK
<1> QED  BY <1>1, <1>2, <1>3

\* What is known of the frame on top.
LEMMA TopOK ==
  ASSUME StackOK, NEW at, Place(at), At(at)
  PROVE  /\ stack # <<>> /\ Top \in Frames /\ Top = stack[Len(stack)]
         /\ Len(stack) \in DOMAIN stack /\ FrameOK(Top) /\ Top.at = at
         /\ Top.to # Nobody => Top.to \in Workers /\ pc[Top.to] = "handled"
         /\ \A k \in DOMAIN stack :
              k # Len(stack) /\ stack[k].to = Top.to => Top.to = Nobody
<1>1. /\ stack # <<>> /\ Top = stack[Len(stack)] /\ Top \in Frames
      /\ Len(stack) \in DOMAIN stack /\ Top.at = at
  BY TopFrame DEF StackOK
<1>2. Top.to # Nobody => Top.to \in Workers  BY <1>1 DEF Frames
<1> QED  BY <1>1, <1>2 DEF StackOK, FramesOK, HandledOnce

LEMMA CodeNotPlace == ASSUME CodeRuns PROVE Top.at \in {"idle", "item", "task"}
  BY DEF CodeRuns

\* retrieve_all_items runs once at a time: under a generator on top there is no
\* other, and no item runs.
LEMMA OnlyGenerator ==
  ASSUME StackOK, NEW at, Place(at), At(at), at \in {"begin", "item"}
  PROVE  \A k \in DOMAIN stack : k # Len(stack) => stack[k].at \notin {"begin", "item"}
  BY TopOK DEF StackOK, OneGenerator

-----------------------------------------------------------------------------
(* The calls of the workers.                                               *)

LEMMA FlushersFinite ==
  /\ IsFiniteSet({w \in Workers : Flushing(w)})
  /\ Cardinality({w \in Workers : Flushing(w)}) \in Nat
<1>1. {w \in Workers : Flushing(w)} \in SUBSET Workers  OBVIOUS
<1>2. IsFiniteSet({w \in Workers : Flushing(w)})
  <2> DEFINE F == {w \in Workers : Flushing(w)}
  <2> HIDE DEF F
  <2>1. F \in SUBSET Workers  BY <1>1 DEF F
  <2>2. IsFiniteSet(F)  BY <2>1, FS_Subset, WorkAssumption
  <2> QED  BY <2>2 DEF F
<1> QED  BY <1>2, FS_CardinalityType

\* Without no_trottling nobody flushes.
LEMMA NobodyFlushes ==
  ASSUME FlushesCounted, no_trottling = 0 PROVE \A w \in Workers : ~Flushing(w)
<1> DEFINE F == {w \in Workers : Flushing(w)}
<1>1. IsFiniteSet(F) /\ Cardinality(F) = 0  BY FlushersFinite DEF FlushesCounted
<1>2. F = {}
  <2> HIDE DEF F
  <2> QED  BY <1>1, FS_EmptySet
<1> QED  BY <1>2

LEMMA FlushersSame ==
  ASSUME FlushesCounted, UNCHANGED no_trottling,
         \A w \in Workers : Flushing(w)' <=> Flushing(w)
  PROVE  FlushesCounted'
<1>1. {w \in Workers : Flushing(w)}' = {w \in Workers : Flushing(w)}  OBVIOUS
<1> QED  BY <1>1 DEF FlushesCounted

LEMMA CallsSame ==
  ASSUME CallInv, UNCHANGED <<pc, callTask, no_trottling>>, asked \in Nat,
         asked' \in {asked, asked + 1}, missed' \in [Workers -> BOOLEAN]
  PROVE  CallInv'
<1>1. 0..asked \subseteq 0..asked'  OBVIOUS
<1>2. CallsType'  BY <1>1 DEF CallInv, CallsType
<1>3. CallsOK'  BY DEF CallInv, CallsOK
<1>4. FlushesCounted'  BY FlushersSame DEF CallInv, Flushing
<1> QED  BY <1>2, <1>3, <1>4 DEF CallInv

LEMMA MissType ==
  ASSUME missed \in [Workers -> BOOLEAN], NEW to, Miss(to)
  PROVE  /\ missed' \in [Workers -> BOOLEAN]
         /\ \A w \in Workers : missed'[w] = (missed[w] \/ (w = to /\ callTask[w] = 0))
  BY DEF Miss

\* An answer leaves the calls of the others alone.
LEMMA Answered ==
  ASSUME CallInv, NEW w \in Workers, NEW pending \in BOOLEAN, Answer(w, pending),
         pc[w] \in {"sent", "handled"}, UNCHANGED <<asked, no_trottling>>, asked \in Nat,
         missed' \in [Workers -> BOOLEAN]
  PROVE  /\ CallInv'
         /\ \A v \in Workers : v # w => pc'[v] = pc[v] /\ callTask'[v] = callTask[v]
         /\ pc'[w] # "handled"
         /\ callTask[w] = 0 => pc'[w] = "flushed" /\ callTask'[w] = 0
         /\ callTask[w] # 0 => pc'[w] \in {"send", "idle"}
         /\ callTask'[w] \in {0, callTask[w]}
         /\ early' \subseteq early \cup
              (IF callTask[w] = 0 \/ pending THEN {} ELSE {callTask[w]} \ done)
<1>1. /\ pc \in [Workers -> WorkerStates] /\ callTask \in [Workers -> 0..asked]
  BY DEF CallInv, CallsType
<1>2. /\ \A v \in Workers : v # w => pc'[v] = pc[v] /\ callTask'[v] = callTask[v]
      /\ pc'[w] # "handled"
      /\ callTask[w] = 0 => pc'[w] = "flushed" /\ callTask'[w] = 0
      /\ callTask[w] # 0 => pc'[w] \in {"send", "idle"}
      /\ callTask'[w] \in {0, callTask[w]}
      /\ pc'[w] = "idle" => callTask'[w] = 0 
      /\ callTask[w] # 0 /\ callTask'[w] = 0 => pc'[w] = "idle"
  BY <1>1 DEF Answer, Goto
<1>3. pc' \in [Workers -> WorkerStates] /\ callTask' \in [Workers -> 0..asked']
  <2>1. callTask[w] \in 0..asked  BY <1>1
  <2>2. 0 \in 0..asked  BY <2>1
  <2> QED  BY <1>1, <2>2 DEF Answer, Goto, WorkerStates
<1>4. CallsOK'  BY <1>1, <1>2 DEF CallInv, CallsOK
<1>5. FlushesCounted'
  <2>1. \A v \in Workers : Flushing(v)' <=> Flushing(v)
    BY <1>1, <1>2 DEF Flushing
  <2> QED  BY <2>1, FlushersSame DEF CallInv
<1>6. early' \subseteq early \cup
        (IF callTask[w] = 0 \/ pending THEN {} ELSE {callTask[w]} \ done)
  BY DEF Answer
<1> QED  BY <1>2, <1>3, <1>4, <1>5, <1>6 DEF CallInv, CallsType

-----------------------------------------------------------------------------
(* The generator's frame.                                                  *)

\* The generator's frame goes on with an item, or with the message, or is left.
LEMMA YieldFrames ==
  ASSUME StackOK, NEW at \in {"begin", "item"}, At(at), Yield,
         UNCHANGED <<pc, asked, pusher>>
  PROVE  /\ StackOK'
         /\ \A k \in DOMAIN stack : k # Len(stack) => k \in DOMAIN stack' /\ stack'[k] = stack[k]
         /\ \A k \in DOMAIN stack' : k \in DOMAIN stack
         /\ Len(stack) \in DOMAIN stack' =>
              /\ stack'[Len(stack)].at = "exec" /\ stack'[Len(stack)].to = Top.to
              /\ stack'[Len(stack)].todo = <<>> /\ stack'[Len(stack)].cur = 0
         /\ Top.to # Nobody => Len(stack) \in DOMAIN stack'
<1>1. /\ stack # <<>> /\ Top \in Frames /\ Top = stack[Len(stack)] /\ FrameOK(Top)
      /\ Top.at \in {"begin", "item"}
  <2>1. Place(at)  BY DEF Place
  <2> QED  BY <2>1, TopOK
<1>2. Grows  BY DEF Grows, Tasks, Items
<1>3. CASE Top.exec
  <2>1. PICK g : g = [Top EXCEPT !.at = "exec", !.cur = 0, !.pumps = 0]  OBVIOUS
  <2>2. /\ g \in Frames /\ g.at = "exec" /\ g.to = Top.to /\ g.todo = Top.todo
        /\ g.exec /\ g.cur = 0 /\ g.counted = Top.counted
    <3>1. 0 \in 0..(MaxTasks + MaxItems) /\ 0 \in 0..MaxPumps  BY WorkAssumption
    <3> QED  BY <1>1, <1>3, <2>1, <3>1 DEF Frames
  <2>3. g.todo = <<>>  BY <1>1, <2>2 DEF FrameOK
  <2>4. FrameOK(g)'
    <3>1. ~g.counted  BY <1>1, <2>2 DEF FrameOK
    <3> QED  BY <2>2, <2>3, <3>1 DEF FrameOK
  <2>5. Become(g)  BY <1>3, <2>1 DEF Yield
  <2>6. StackOK'  BY <1>1, <1>2, <2>2, <2>4, <2>5, StackBecome
  <2>7. /\ DOMAIN stack' = DOMAIN stack /\ stack'[Len(stack)] = g
        /\ Len(stack) \in DOMAIN stack
        /\ \A k \in DOMAIN stack : k # Len(stack) => stack'[k] = stack[k]
    BY <1>1, <2>2, <2>5, BecomeFrames
  <2> QED  BY <2>2, <2>3, <2>6, <2>7
<1>4. CASE ~Top.exec
  <2>1. Leave /\ Top.to = Nobody  BY <1>1, <1>4 DEF Yield, FrameOK
  <2>2. StackOK'  BY <1>1, <1>2, <2>1, StackLeave
  <2>3. /\ \A k \in DOMAIN stack : k \in DOMAIN stack' \/ k = Len(stack)
        /\ \A k \in DOMAIN stack' :
             k \in DOMAIN stack /\ k # Len(stack) /\ stack'[k] = stack[k]
    BY <1>1, <2>1, LeaveFrames
  <2> QED  BY <2>1, <2>2, <2>3
<1> QED  BY <1>3, <1>4

LEMMA NextOfFrames ==
  ASSUME StackOK, ItemsType, NEW at \in {"begin", "item"}, At(at),
         NEW items \in Seq(Items), NextOf(items), UNCHANGED <<pc, asked, pusher>>
  PROVE  /\ StackOK' /\ batch' \in Seq(Items) /\ ran' \in Seq(Items)
         /\ \A k \in DOMAIN stack : k # Len(stack) => k \in DOMAIN stack' /\ stack'[k] = stack[k]
         /\ \A k \in DOMAIN stack' : k \in DOMAIN stack
         /\ Len(stack) \in DOMAIN stack' =>
              /\ stack'[Len(stack)].at \in {"exec", "item"}
              /\ stack'[Len(stack)].to = Top.to /\ stack'[Len(stack)].todo = <<>>
              /\ stack'[Len(stack)].at = "item" => items # <<>> 
         /\ items # <<>> =>
              /\ Len(stack) \in DOMAIN stack' /\ stack'[Len(stack)].at = "item"
              /\ stack'[Len(stack)].cur = Head(items) /\ batch' = Tail(items)
              /\ ran' = Append(ran, Head(items))
         /\ items = <<>> => batch' = <<>> /\ ran' = ran
         /\ Top.to # Nobody => Len(stack) \in DOMAIN stack'
<1>1. CASE items = <<>>
  <2>1. Yield /\ batch' = <<>> /\ ran' = ran  BY <1>1 DEF NextOf
  <2>2. batch' \in Seq(Items) /\ ran' \in Seq(Items)  BY <2>1 DEF ItemsType
  <2>3. /\ StackOK'
        /\ \A k \in DOMAIN stack : k # Len(stack) => k \in DOMAIN stack' /\ stack'[k] = stack[k]
        /\ \A k \in DOMAIN stack' : k \in DOMAIN stack
        /\ Len(stack) \in DOMAIN stack' =>
             /\ stack'[Len(stack)].at = "exec" /\ stack'[Len(stack)].to = Top.to
             /\ stack'[Len(stack)].todo = <<>>
        /\ Top.to # Nobody => Len(stack) \in DOMAIN stack'
    BY <2>1, YieldFrames
  <2> QED  BY <1>1, <2>1, <2>2, <2>3
<1>2. CASE items # <<>>
  <2>1. /\ stack # <<>> /\ Top \in Frames /\ Top = stack[Len(stack)] /\ FrameOK(Top)
        /\ Top.at \in {"begin", "item"}
    <3>1. Place(at)  BY DEF Place
    <3> QED  BY <3>1, TopOK
  <2>2. Grows  BY DEF Grows, Tasks, Items
  <2>3. /\ Head(items) \in Items /\ Tail(items) \in Seq(Items)
    BY <1>2, Beheaded
  <2>4. Head(items) \in 0..(MaxTasks + MaxItems) /\ 0 \in 0..MaxPumps
    <3>1. Len(pusher) \in Nat /\ Len(pusher) <= MaxItems  BY DEF ItemsType
    <3> QED  BY <2>3, <3>1, WorkAssumption DEF Items
  <2>5. PICK g : g = [Top EXCEPT !.at = "item", !.cur = Head(items), !.pumps = 0]
    OBVIOUS
  <2>6. /\ g \in Frames /\ g.at = "item" /\ g.to = Top.to /\ g.todo = Top.todo
        /\ g.exec = Top.exec /\ g.cur = Head(items) /\ g.counted = Top.counted
    BY <2>1, <2>4, <2>5 DEF Frames
  <2>7. g.todo = <<>>  BY <2>1, <2>6 DEF FrameOK
  <2>8. FrameOK(g)'
    <3>1. ~g.counted  BY <2>1, <2>6 DEF FrameOK
    <3>2. g.cur \in Items'  BY <2>3, <2>6 DEF Items
    <3> QED  BY <2>1, <2>6, <2>7, <3>1, <3>2 DEF FrameOK
  <2>9. Become(g) /\ batch' = Tail(items) /\ ran' = Append(ran, Head(items))
    BY <1>2, <2>5 DEF NextOf
  <2>10. StackOK'  BY <2>1, <2>2, <2>6, <2>8, <2>9, StackBecome
  <2>11. /\ DOMAIN stack' = DOMAIN stack /\ stack'[Len(stack)] = g
         /\ Len(stack) \in DOMAIN stack
         /\ \A k \in DOMAIN stack : k # Len(stack) => stack'[k] = stack[k]
    BY <2>1, <2>6, <2>9, BecomeFrames
  <2>12. batch' \in Seq(Items) /\ ran' \in Seq(Items)
    BY <2>3, <2>9 DEF ItemsType
  <2> QED  BY <1>2, <2>6, <2>7, <2>9, <2>10, <2>11, <2>12
<1> QED  BY <1>1, <1>2

-----------------------------------------------------------------------------
(* StackInv holds at the start and is kept by every step.                  *)

LEMMA StackInvTypes == StackInv => TypeOK
<1>1. FlushesCounted => no_trottling \in Nat  BY FlushersFinite DEF FlushesCounted
<1> QED
  BY <1>1 DEF StackInv, TasksType, ItemsType, CallInv, CallsType, EnvType, StackOK, TypeOK

LEMMA StackInvInit == Init => StackInv
<1> SUFFICES ASSUME Init PROVE StackInv  OBVIOUS
<1>1. TasksType /\ ItemsType /\ EnvType
  <2>1. \A S : <<>> \in Seq(S)  OBVIOUS
  <2>2. 0 \in 0..MaxTasks /\ Len(<<>>) = 0 /\ 0 <= MaxItems  BY WorkAssumption
  <2>3. TasksType  BY <2>1, <2>2 DEF Init, TasksType
  <2>4. ItemsType  BY <2>1, <2>2 DEF Init, ItemsType
  <2>5. EnvType  BY DEF Init, EnvType
  <2> QED  BY <2>3, <2>4, <2>5
<1>2. CallsType /\ CallsOK  BY DEF Init, CallsType, CallsOK, WorkerStates
<1>3. FlushesCounted
  <2>1. {w \in Workers : Flushing(w)} = {}  BY DEF Init, Flushing
  <2> QED  BY <2>1, FS_EmptySet DEF Init, FlushesCounted
<1>4. StackOK
  <2>1. stack = <<>> /\ DOMAIN stack = {} /\ Len(stack) = 0 /\ stack \in Seq(Frames)
    BY DEF Init
  <2> QED
    BY <2>1, WorkAssumption DEF StackOK, FramesOK, HandledOnce, OneGenerator, CountedAlone
<1> QED  BY <1>1, <1>2, <1>3, <1>4 DEF StackInv, CallInv

LEMMA Numbers == StackInv => asked \in Nat /\ pc \in [Workers -> WorkerStates]
  BY WorkAssumption DEF StackInv, TasksType, CallInv, CallsType

\* Steps that only touch what no frame and no call depends on.
LEMMA StackInvQuiet ==
  ASSUME StackInv, EnvType', UNCHANGED <<taskVars, itemVars, callVars, no_trottling, stack>>
  PROVE  StackInv'
<1>1. TasksType' /\ ItemsType'  BY DEF StackInv, TasksType, ItemsType, Tasks, Items
<1>2. missed' \in [Workers -> BOOLEAN] /\ asked \in Nat
  BY Numbers DEF StackInv, CallInv, CallsType
<1>3. CallInv'  BY <1>2, CallsSame DEF StackInv
<1>4. StackOK'  BY StackSame DEF StackInv, Grows, Tasks, Items
<1> QED  BY <1>1, <1>3, <1>4 DEF StackInv

LEMMA StackInvEnv ==
  ASSUME StackInv
  PROVE  /\ \A w \in Workers : LockDirectory(w) \/ UnlockDirectory(w) => StackInv'
         /\ LicenseInitComplete \/ LicenseViolation => StackInv'
<1>1. ASSUME NEW w \in Workers, LockDirectory(w) \/ UnlockDirectory(w) PROVE StackInv'
  <2>1. EnvType'  BY <1>1 DEF LockDirectory, UnlockDirectory, StackInv, EnvType
  <2> QED  BY <1>1, <2>1, StackInvQuiet DEF LockDirectory, UnlockDirectory
<1>2. ASSUME LicenseInitComplete \/ LicenseViolation PROVE StackInv'
  <2>1. EnvType'  BY <1>2 DEF LicenseInitComplete, LicenseViolation, StackInv, EnvType
  <2> QED  BY <1>2, <2>1, StackInvQuiet DEF LicenseInitComplete, LicenseViolation
<1> QED  BY <1>1, <1>2

\* A task is handed over.
LEMMA TaskAdded ==
  ASSUME StackInv, AddTask, UNCHANGED <<done, early, refused, pusher>>
  PROVE  /\ TasksType' /\ Grows /\ asked' \in Nat /\ asked' = asked + 1
         /\ Tasks' = Tasks \cup {asked + 1} /\ asked + 1 \notin Tasks
         /\ gUiThreadTasks' = Append(gUiThreadTasks, asked + 1)
         /\ Elements(gUiThreadTasks') = Elements(gUiThreadTasks) \cup {asked + 1}
<1>1. asked \in 0..MaxTasks /\ gUiThreadTasks \in Seq(Tasks)  BY DEF StackInv, TasksType
<1>2. asked \in Nat /\ asked' = asked + 1 /\ asked' \in 0..MaxTasks
  BY <1>1, WorkAssumption DEF AddTask
<1>3. /\ Tasks' = Tasks \cup {asked + 1} /\ Tasks \subseteq Tasks' /\ asked + 1 \in Tasks'
      /\ asked + 1 \notin Tasks
  BY <1>2 DEF Tasks
<1>4. PICK T : T = Tasks'  OBVIOUS
<1>5. gUiThreadTasks \in Seq(T)  BY <1>1, <1>3, <1>4, SeqGrows
<1>6. PICK e : e = asked + 1 /\ e \in T  BY <1>3, <1>4
<1>7. /\ Append(gUiThreadTasks, e) \in Seq(T)
      /\ Elements(Append(gUiThreadTasks, e)) = Elements(gUiThreadTasks) \cup {e}
  BY <1>5, <1>6, Appended
<1>8. gUiThreadTasks' = Append(gUiThreadTasks, e)  BY <1>6 DEF AddTask
<1>9. TasksType'
  BY <1>2, <1>3, <1>4, <1>7, <1>8 DEF StackInv, TasksType
<1>10. Grows  BY <1>3 DEF Grows, Items
<1> QED  BY <1>2, <1>3, <1>6, <1>7, <1>8, <1>9, <1>10

\* Steps of a worker do not touch the stack, and are not steps of one whose message
\* is being handled.
LEMMA StackInvCall ==
  ASSUME StackInv, NEW w \in Workers, NEW synchronous \in BOOLEAN, Call(w, synchronous)
  PROVE  StackInv'
<1>1. /\ TasksType' /\ Grows /\ asked' \in Nat /\ asked' = asked + 1 /\ asked \in Nat
  BY TaskAdded, Numbers DEF Call
<1>2. ItemsType'  BY DEF StackInv, ItemsType, Items, Call
<1>3. EnvType'  BY DEF StackInv, EnvType, Call
<1>4. /\ pc \in [Workers -> WorkerStates] /\ callTask \in [Workers -> 0..asked]
      /\ missed \in [Workers -> BOOLEAN] /\ pc[w] \in {"idle", "pushed"}
      /\ callTask[w] = 0
  BY DEF StackInv, CallInv, CallsType, CallsOK, Call, Free
<1>5. 0..asked \subseteq 0..asked' /\ asked + 1 \in 0..asked' /\ asked + 1 # 0  BY <1>1
<1>6. CallsType'
  BY <1>1, <1>4, <1>5 DEF CallsType, Call, Goto, WorkerStates
<1>7. CallsOK'
  BY <1>4 DEF StackInv, CallInv, CallsOK, Call, Goto
<1>8. \A v \in Workers : Flushing(v)' <=> Flushing(v)
  BY <1>4, <1>5 DEF Flushing, Call, Goto
<1>9. FlushesCounted'
  BY <1>8, FlushersSame DEF StackInv, CallInv, Call
<1>10. StackOK'
  <2>1. \A v \in Workers : pc[v] = "handled" => pc'[v] = "handled"
    BY <1>4 DEF Call, Goto
  <2> QED  BY <1>1, <2>1, StackSame DEF StackInv, Call
<1> QED  BY <1>1, <1>2, <1>3, <1>6, <1>7, <1>9, <1>10 DEF StackInv, CallInv

LEMMA StackInvWorker ==
  ASSUME StackInv, NEW w \in Workers, Send(w) \/ BeginFlush(w) \/ EndFlush(w)
  PROVE  StackInv'
<1>1. TasksType' /\ ItemsType' /\ EnvType'
  BY DEF StackInv, TasksType, ItemsType, EnvType, Tasks, Items, Send, BeginFlush, EndFlush
<1>2. /\ pc \in [Workers -> WorkerStates] /\ callTask \in [Workers -> 0..asked]
      /\ missed \in [Workers -> BOOLEAN]
      /\ pc[w] \in {"pushed", "flushed"} => callTask[w] = 0
  BY DEF StackInv, CallInv, CallsType, CallsOK
<1>3. /\ CallsType' /\ CallsOK'
      /\ \A v \in Workers : v # w => pc'[v] = pc[v]
      /\ \A v \in Workers : callTask'[v] = callTask[v]
  BY <1>2 DEF StackInv, CallInv, CallsOK, CallsType, Send, BeginFlush, EndFlush, Goto,
               WorkerStates
<1>4. FlushesCounted'
  <2>1. CASE Send(w)
    <3>1. \A v \in Workers : Flushing(v)' <=> Flushing(v)
      BY <1>2, <1>3, <2>1 DEF Flushing, Send, Goto
    <3> QED  BY <2>1, <3>1, FlushersSame DEF StackInv, CallInv, Send
  <2> DEFINE F == {v \in Workers : Flushing(v)}
  <2>2. IsFiniteSet(F) /\ no_trottling = Cardinality(F) /\ no_trottling \in Nat
    BY FlushersFinite DEF StackInv, CallInv, FlushesCounted
  <2>3. CASE BeginFlush(w)
    <3>1. w \notin F /\ F' = F \cup {w}
      BY <1>2, <1>3, <2>3 DEF Flushing, BeginFlush, Goto
    <3> HIDE DEF F
    <3>2. Cardinality(F \cup {w}) = Cardinality(F) + 1
      BY <2>2, <3>1, FS_AddElement
    <3>3. no_trottling' = Cardinality(F')  BY <2>2, <2>3, <3>1, <3>2 DEF BeginFlush
    <3> QED  BY <3>3 DEF FlushesCounted, F
  <2>4. CASE EndFlush(w)
    <3>1. w \in F /\ F' = F \ {w}
      BY <1>2, <1>3, <2>4 DEF Flushing, EndFlush, Goto
    <3> HIDE DEF F
    <3>2. Cardinality(F \ {w}) = Cardinality(F) - 1
      BY <2>2, <3>1, FS_RemoveElement
    <3>3. no_trottling' = Cardinality(F')  BY <2>2, <2>4, <3>1, <3>2 DEF EndFlush
    <3> QED  BY <3>3 DEF FlushesCounted, F
  <2> QED  BY <2>1, <2>3, <2>4
<1>5. StackOK'
  <2>1. pc[w] # "handled" /\ UNCHANGED stack /\ Grows
    BY DEF Send, BeginFlush, EndFlush, Grows, Tasks, Items
  <2>2. \A v \in Workers : pc[v] = "handled" => pc'[v] = "handled"  BY <1>3, <2>1
  <2> QED  BY <2>1, <2>2, StackSame DEF StackInv
<1> QED  BY <1>1, <1>3, <1>4, <1>5 DEF StackInv, CallInv

LEMMA ItemPushed ==
  ASSUME StackInv, NEW w \in Workers, NEW marker \in Markers \cup {0}, PushItem(w, marker)
  PROVE  /\ ItemsType' /\ Len(pusher) \in Nat /\ Len(pusher') = Len(pusher) + 1
         /\ Items' = Items \cup {Len(pusher) + 1} /\ \A i \in Items : i < Len(pusher) + 1
         /\ \A i \in Items : pusher'[i] = pusher[i] /\ markerOf'[i] = markerOf[i]
         /\ pusher'[Len(pusher) + 1] = w
         /\ Elements(pendingWork') = Elements(pendingWork) \cup {Len(pusher) + 1}
         /\ Len(pendingWork') = Len(pendingWork) + 1
         /\ pendingWork'[1] = Len(pusher) + 1
         /\ \A k \in DOMAIN pendingWork' : k # 1 =>
              k - 1 \in DOMAIN pendingWork /\ pendingWork'[k] = pendingWork[k - 1]
<1> DEFINE m == Len(pusher) + 1
<1>1. /\ pusher \in Seq(Workers) /\ markerOf \in Seq(Markers \cup {0})
      /\ Len(pusher) < MaxItems /\ Len(markerOf) = Len(pusher)
      /\ pendingWork \in Seq(Items) /\ batch \in Seq(Items) /\ ran \in Seq(Items)
      /\ throttled \in BOOLEAN /\ abandoned \in BOOLEAN /\ lost \subseteq Items
      /\ Len(pusher) \in Nat
  BY DEF StackInv, ItemsType, PushItem
<1>2. /\ pusher' = Append(pusher, w) /\ markerOf' = Append(markerOf, marker)
      /\ pendingWork' = <<m>> \o pendingWork
      /\ UNCHANGED <<batch, ran, throttled, abandoned, lost>>
  BY DEF PushItem
<1>3. /\ pusher' \in Seq(Workers) /\ Len(pusher') = m
      /\ \A i \in 1..Len(pusher) : pusher'[i] = pusher[i]
      /\ pusher'[m] = w
  BY <1>1, <1>2
<1>4. /\ markerOf' \in Seq(Markers \cup {0}) /\ Len(markerOf') = m
      /\ \A i \in 1..Len(pusher) : markerOf'[i] = markerOf[i]
  BY <1>1, <1>2
<1>5. /\ Items' = Items \cup {m} /\ Items \subseteq Items' /\ m \in Items'
      /\ \A i \in Items : i < m
  BY <1>1, <1>3 DEF Items
<1>6. PICK S : S = Items'  OBVIOUS
<1>7. pendingWork \in Seq(S) /\ batch \in Seq(S) /\ ran \in Seq(S) /\ m \in S
  <2>1. Items \subseteq S  BY <1>5, <1>6
  <2> QED  BY <1>1, <1>5, <1>6, <2>1, SeqGrows
<1> HIDE DEF m
<1>8. /\ pendingWork' \in Seq(S) /\ Len(pendingWork') = Len(pendingWork) + 1
      /\ pendingWork'[1] = m
      /\ Len(pendingWork) \in Nat /\ DOMAIN pendingWork = 1..Len(pendingWork)
      /\ \A k \in 1..Len(pendingWork) : pendingWork'[k + 1] = pendingWork[k]
  BY <1>2, <1>7
<1>9. ASSUME NEW k \in DOMAIN pendingWork', k # 1
      PROVE  k - 1 \in DOMAIN pendingWork /\ pendingWork'[k] = pendingWork[k - 1]
  <2>1. k \in Nat /\ k - 1 \in 1..Len(pendingWork) /\ (k - 1) + 1 = k  BY <1>8, <1>9
  <2>2. pendingWork'[(k - 1) + 1] = pendingWork[k - 1]  BY <1>8, <2>1
  <2> QED  BY <1>8, <2>1, <2>2
<1>10. Elements(pendingWork') = Elements(pendingWork) \cup {m}
  <2>1. DOMAIN pendingWork' = 1..(Len(pendingWork) + 1)  BY <1>8
  <2>2. 1 \in DOMAIN pendingWork' /\ \A k \in DOMAIN pendingWork : k + 1 \in DOMAIN pendingWork'
    BY <1>8, <2>1
  <2>3. Elements(pendingWork) \cup {m} \subseteq Elements(pendingWork')
    BY <1>8, <2>2 DEF Elements
  <2>4. Elements(pendingWork') \subseteq Elements(pendingWork) \cup {m}
    BY <1>8, <1>9 DEF Elements
  <2> QED  BY <2>3, <2>4
<1>11. ItemsType'
  <2>1. Len(pusher') <= MaxItems  BY <1>1, <1>3, WorkAssumption DEF m
  <2>2. lost' \subseteq Items' /\ abandoned' \in BOOLEAN  BY <1>1, <1>2, <1>5
  <2> QED  BY <1>1, <1>2, <1>3, <1>4, <1>6, <1>7, <1>8, <2>1, <2>2 DEF ItemsType
<1> QED  BY <1>1, <1>3, <1>4, <1>5, <1>8, <1>9, <1>10, <1>11 DEF Items, m

LEMMA StackInvPush ==
  ASSUME StackInv, NEW w \in Workers, NEW marker \in Markers \cup {0}, PushItem(w, marker)
  PROVE  StackInv'
<1>1. ItemsType' /\ Grows  BY ItemPushed DEF Grows, Tasks, PushItem
<1>2. TasksType' /\ EnvType'
  BY DEF StackInv, TasksType, EnvType, Tasks, PushItem
<1>3. /\ pc \in [Workers -> WorkerStates] /\ pc[w] \in {"idle", "pushed"}
      /\ callTask[w] = 0 /\ asked \in Nat
  BY Numbers DEF StackInv, CallInv, CallsType, CallsOK, PushItem, Free
<1>4. CallsType' /\ CallsOK' /\ \A v \in Workers : Flushing(v)' <=> Flushing(v)
  BY <1>3 DEF StackInv, CallInv, CallsType, CallsOK, Flushing, PushItem, Goto, WorkerStates
<1>5. FlushesCounted'  BY <1>4, FlushersSame DEF StackInv, CallInv, PushItem
<1>6. StackOK'
  <2>1. \A v \in Workers : pc[v] = "handled" => pc'[v] = "handled"
    BY <1>3 DEF PushItem, Goto
  <2> QED  BY <1>1, <2>1, StackSame DEF StackInv, PushItem
<1> QED  BY <1>1, <1>2, <1>4, <1>5, <1>6 DEF StackInv, CallInv

-----------------------------------------------------------------------------
(* Frames that are entered: none brings a task or an item with it.         *)

Enters(f) ==
  /\ f \in Frames /\ Enter(f) /\ f.todo = <<>> /\ f.cur = 0
  /\ f.at \in {"peek", "direct", "begin", "exec", "lock"}
  /\ f.counted => f.at = "peek"
  /\ f.at = "begin" => ~already_running_all
  /\ f.to # Nobody => f.exec /\ f.at \in {"begin", "exec"}

LEMMA EntersStack ==
  ASSUME StackOK, NEW f, Enters(f), Grows,
         f.to # Nobody => pc[f.to] # "handled" /\ pc'[f.to] = "handled",
         \A w \in Workers : pc[w] = "handled" => pc'[w] = "handled"
  PROVE  StackOK'
<1>1. f \in Frames /\ FrameOK(f)'  BY DEF Enters, FrameOK
<1> QED  BY <1>1, StackEnter DEF Enters

LEMMA Dispatched ==
  ASSUME StackInv, NEW to \in Workers \cup {Nobody}, Dispatch(to)
  PROVE  /\ missed' \in [Workers -> BOOLEAN]
         /\ \A w \in Workers : missed[w] => missed'[w]
         /\ \E f : /\ Enters(f) /\ f.to = to
                   /\ f.at = "exec" /\ to # Nobody /\ callTask[to] = 0 => missed'[to]
<1>1. missed \in [Workers -> BOOLEAN]  BY DEF StackInv, CallInv, CallsType
<1>2. CASE already_running_all
  <2>1. PICK f : f = Frame("exec", to)  OBVIOUS
  <2>2. Enter(f) /\ Miss(to)  BY <1>2, <2>1 DEF Dispatch
  <2>3. Place("exec")  BY DEF Place
  <2>4. /\ f \in Frames /\ f.at = "exec" /\ f.to = to /\ f.exec /\ f.todo = <<>>
        /\ f.cur = 0 /\ ~f.counted
    BY <2>1, <2>3, FrameType
  <2>5. /\ missed' \in [Workers -> BOOLEAN]
        /\ \A w \in Workers : missed'[w] = (missed[w] \/ (w = to /\ callTask[w] = 0))
    BY <1>1, <2>2, MissType
  <2> QED  BY <2>2, <2>4, <2>5 DEF Enters
<1>3. CASE ~already_running_all
  <2>1. PICK f : f = Frame("begin", to)  OBVIOUS
  <2>2. Enter(f) /\ UNCHANGED missed  BY <1>3, <2>1 DEF Dispatch
  <2>3. Place("begin")  BY DEF Place
  <2>4. /\ f \in Frames /\ f.at = "begin" /\ f.to = to /\ f.exec /\ f.todo = <<>>
        /\ f.cur = 0 /\ ~f.counted
    BY <2>1, <2>3, FrameType
  <2> QED  BY <1>1, <1>3, <2>2, <2>4 DEF Enters
<1> QED  BY <1>2, <1>3

LEMMA Entering ==
  ASSUME ReceiveOther \/ GetSettings \/ BeginPeek \/ AwaitDirectory \/ CallDirectly
  PROVE  \E f : Enters(f) /\ f.to = Nobody
<1>1. CASE ReceiveOther
  <2>1. PICK exec \in BOOLEAN : Enter([Frame("begin", Nobody) EXCEPT !.exec = exec])
    BY <1>1 DEF ReceiveOther
  <2>2. PICK f : f = [Frame("begin", Nobody) EXCEPT !.exec = exec]  OBVIOUS
  <2>3. Place("begin")  BY DEF Place
  <2>4. /\ Frame("begin", Nobody) \in Frames /\ Frame("begin", Nobody).at = "begin"
        /\ Frame("begin", Nobody).to = Nobody /\ Frame("begin", Nobody).todo = <<>>
        /\ Frame("begin", Nobody).cur = 0 /\ ~Frame("begin", Nobody).counted
    BY <2>3, FrameType
  <2>5. f \in Frames /\ f.at = "begin" /\ f.to = Nobody /\ f.todo = <<>> /\ f.cur = 0 /\ ~f.counted
    BY <2>2, <2>4 DEF Frames
  <2> QED  BY <1>1, <2>1, <2>2, <2>5 DEF Enters, ReceiveOther
<1>2. CASE GetSettings
  <2>1. PICK f : f = Frame("exec", Nobody)  OBVIOUS
  <2>2. Enter(f)  BY <1>2, <2>1 DEF GetSettings
  <2>3. Place("exec")  BY DEF Place
  <2>4. /\ f \in Frames /\ f.at = "exec" /\ f.to = Nobody /\ f.todo = <<>>
        /\ f.cur = 0 /\ ~f.counted
    BY <2>1, <2>3, FrameType
  <2> QED  BY <2>2, <2>4 DEF Enters
<1>3. CASE BeginPeek
  <2>1. PICK f : f = [Frame("peek", Nobody) EXCEPT !.counted = TRUE]  OBVIOUS
  <2>2. Enter(f)  BY <1>3, <2>1 DEF BeginPeek
  <2>3. Place("peek")  BY DEF Place
  <2>4. /\ Frame("peek", Nobody) \in Frames /\ Frame("peek", Nobody).at = "peek"
        /\ Frame("peek", Nobody).to = Nobody /\ Frame("peek", Nobody).todo = <<>>
        /\ Frame("peek", Nobody).cur = 0
    BY <2>3, FrameType
  <2>5. f \in Frames /\ f.at = "peek" /\ f.to = Nobody /\ f.todo = <<>> /\ f.cur = 0
    BY <2>1, <2>4 DEF Frames
  <2> QED  BY <2>2, <2>5 DEF Enters
<1>4. CASE AwaitDirectory
  <2>1. PICK f : f = Frame("lock", Nobody)  OBVIOUS
  <2>2. Enter(f)  BY <1>4, <2>1 DEF AwaitDirectory
  <2>3. Place("lock")  BY DEF Place
  <2>4. /\ f \in Frames /\ f.at = "lock" /\ f.to = Nobody /\ f.todo = <<>>
        /\ f.cur = 0 /\ ~f.counted
    BY <2>1, <2>3, FrameType
  <2> QED  BY <2>2, <2>4 DEF Enters
<1>5. CASE CallDirectly
  <2>1. PICK f : f = Frame("direct", Nobody)  OBVIOUS
  <2>2. Enter(f)  BY <1>5, <2>1 DEF CallDirectly
  <2>3. Place("direct")  BY DEF Place
  <2>4. /\ f \in Frames /\ f.at = "direct" /\ f.to = Nobody /\ f.todo = <<>>
        /\ f.cur = 0 /\ ~f.counted
    BY <2>1, <2>3, FrameType
  <2> QED  BY <2>2, <2>4 DEF Enters
<1> QED  BY <1>1, <1>2, <1>3, <1>4, <1>5

LEMMA StackInvReceiveSent ==
  ASSUME StackInv, NEW w \in Workers, ReceiveSent(w) PROVE StackInv'
<1>1. /\ pc \in [Workers -> WorkerStates] /\ pc[w] = "sent" /\ asked \in Nat
      /\ missed \in [Workers -> BOOLEAN] /\ callTask \in [Workers -> 0..asked]
  BY Numbers DEF StackInv, CallInv, CallsType, ReceiveSent
<1>2. ItemsType' /\ EnvType'  BY DEF StackInv, ItemsType, EnvType, Items, ReceiveSent
<1>3. Grows  BY DEF Grows, Tasks, Items, ReceiveSent
<1>4. CASE gLicenseCountOk
  <2>1. /\ Dispatch(w) /\ pc' = [pc EXCEPT ![w] = "handled"]
        /\ UNCHANGED <<early, refused, callTask>>
    BY <1>4 DEF ReceiveSent, Goto
  <2>2. PICK f : Enters(f) /\ f.to = w  BY <2>1, Dispatched
  <2>3. missed' \in [Workers -> BOOLEAN]  BY <2>1, Dispatched
  <2>4. TasksType'  BY <2>1 DEF StackInv, TasksType, Tasks, ReceiveSent
  <2>5. StackOK'  BY <1>1, <1>3, <2>1, <2>2, EntersStack DEF StackInv
  <2>6. CallsType' /\ CallsOK' /\ \A v \in Workers : Flushing(v)' <=> Flushing(v)
    BY <1>1, <2>1, <2>3
    DEF StackInv, CallInv, CallsType, CallsOK, Flushing, ReceiveSent, WorkerStates
  <2>7. FlushesCounted'  BY <2>6, FlushersSame DEF StackInv, CallInv, ReceiveSent
  <2> QED  BY <1>2, <2>4, <2>5, <2>6, <2>7 DEF StackInv, CallInv
<1>5. CASE ~gLicenseCountOk
  <2>1. /\ Answer(w, FALSE) /\ Miss(w) /\ UNCHANGED <<stack, asked, no_trottling>>
        /\ refused' = refused \cup (IF callTask[w] = 0 THEN {} ELSE {callTask[w]} \ done)
    BY <1>5 DEF ReceiveSent
  <2>2. missed' \in [Workers -> BOOLEAN]  BY <1>1, <2>1, MissType
  <2>3. /\ CallInv'
        /\ \A v \in Workers : v # w => pc'[v] = pc[v]
        /\ early' \subseteq early \cup
              (IF callTask[w] = 0 THEN {} ELSE {callTask[w]} \ done)
    BY <1>1, <2>1, <2>2, Answered DEF StackInv
  <2>4. callTask[w] # 0 => callTask[w] \in Tasks  BY <1>1 DEF Tasks
  <2>5. TasksType'
    BY <2>1, <2>3, <2>4 DEF StackInv, TasksType, Tasks, ReceiveSent
  <2>6. StackOK'  BY <1>1, <1>3, <2>1, <2>3, StackSame DEF StackInv
  <2> QED  BY <1>2, <2>3, <2>5, <2>6 DEF StackInv
<1> QED  BY <1>4, <1>5

LEMMA StackInvReceivePosted == ASSUME StackInv, ReceivePosted PROVE StackInv'
<1>1. /\ missed \in [Workers -> BOOLEAN] /\ asked \in Nat
  BY Numbers DEF StackInv, CallInv, CallsType
<1>2. TasksType' /\ ItemsType' /\ EnvType' /\ Grows
  BY DEF StackInv, TasksType, ItemsType, EnvType, Tasks, Items, Grows, ReceivePosted
<1>3. missed' \in [Workers -> BOOLEAN]  BY <1>1, Dispatched DEF ReceivePosted
<1>4. CallInv'  BY <1>1, <1>3, CallsSame DEF StackInv, ReceivePosted
<1>5. StackOK'
  <2>1. CASE gLicenseCountOk
    <3>1. PICK f : Enters(f) /\ f.to = Nobody  BY <2>1, Dispatched DEF ReceivePosted
    <3> QED  BY <1>2, <3>1, EntersStack DEF StackInv, ReceivePosted
  <2>2. CASE ~gLicenseCountOk
    BY <1>2, <2>2, StackSame DEF StackInv, ReceivePosted
  <2> QED  BY <2>1, <2>2
<1> QED  BY <1>2, <1>4, <1>5 DEF StackInv

LEMMA StackInvEntering ==
  ASSUME StackInv, ReceiveOther \/ GetSettings \/ BeginPeek \/ AwaitDirectory \/ CallDirectly
  PROVE  StackInv'
<1>1. PICK f : Enters(f) /\ f.to = Nobody  BY Entering
<1>2. TasksType' /\ Grows /\ asked' \in {asked, asked + 1}
  <2>1. CASE CallDirectly
    BY <2>1, TaskAdded DEF CallDirectly
  <2>2. CASE ReceiveOther \/ GetSettings \/ BeginPeek \/ AwaitDirectory
    BY <2>2 DEF StackInv, TasksType, Tasks, Items, Grows, ReceiveOther, GetSettings,
                BeginPeek, AwaitDirectory
  <2> QED  BY <2>1, <2>2
<1>3. ItemsType' /\ EnvType' /\ UNCHANGED <<pc, callTask, missed, no_trottling>>
  BY DEF StackInv, ItemsType, EnvType, Items, ReceiveOther, GetSettings, BeginPeek,
         AwaitDirectory, CallDirectly
<1>4. asked \in Nat /\ missed \in [Workers -> BOOLEAN]
  BY Numbers DEF StackInv, CallInv, CallsType
<1>5. CallInv'  BY <1>2, <1>3, <1>4, CallsSame DEF StackInv
<1>6. StackOK'  BY <1>1, <1>2, <1>3, EntersStack DEF StackInv
<1> QED  BY <1>2, <1>3, <1>5, <1>6 DEF StackInv

LEMMA StackInvPostOwn == ASSUME StackInv, PostOwn PROVE StackInv'
<1>1. TasksType' /\ Grows /\ asked' = asked + 1  BY TaskAdded DEF PostOwn
<1>2. ItemsType' /\ EnvType'  BY DEF StackInv, ItemsType, EnvType, Items, PostOwn
<1>3. asked \in Nat /\ missed \in [Workers -> BOOLEAN]
  BY Numbers DEF StackInv, CallInv, CallsType
<1>4. CallInv'  BY <1>1, <1>3, CallsSame DEF StackInv, PostOwn
<1>5. StackOK'  BY <1>1, StackSame DEF StackInv, PostOwn
<1> QED  BY <1>1, <1>2, <1>4, <1>5 DEF StackInv

LEMMA StackInvLeaving ==
  ASSUME StackInv, EndPeek \/ SynchronousFileParse PROVE StackInv'
<1>1. TasksType' /\ ItemsType' /\ EnvType' /\ Grows
  BY DEF StackInv, TasksType, ItemsType, EnvType, Tasks, Items, Grows, EndPeek,
         SynchronousFileParse
<1>2. asked \in Nat /\ missed \in [Workers -> BOOLEAN]
  BY Numbers DEF StackInv, CallInv, CallsType
<1>3. CallInv'  BY <1>2, CallsSame DEF StackInv, EndPeek, SynchronousFileParse
<1>4. stack # <<>>
  <2>1. Place("peek") /\ Place("lock")  BY DEF Place
  <2> QED  BY <2>1, TopOK DEF StackInv, EndPeek, SynchronousFileParse
<1>5. StackOK'
  BY <1>1, <1>4, StackLeave DEF StackInv, EndPeek, SynchronousFileParse
<1> QED  BY <1>1, <1>3, <1>5 DEF StackInv

-----------------------------------------------------------------------------
(* Steps of the generator.                                                 *)

\* What retrieve_all_items returns are items of the list, the oldest first.
LEMMA ItemsRetrieved ==
  ASSUME ItemsType
  PROVE  /\ retrieve_all_items(pendingWork) \in Seq(Items)
         /\ Elements(retrieve_all_items(pendingWork)) \subseteq Elements(pendingWork)
<1> DEFINE places == {k \in DOMAIN pendingWork : ~IsReplaced(pendingWork, k)}
<1>1. /\ pendingWork \in Seq(Items) /\ places \in SUBSET DOMAIN pendingWork
      /\ retrieve_all_items(pendingWork) = Backwards(pendingWork, places)
  BY DEF ItemsType, retrieve_all_items
<1> HIDE DEF places
<1>2. /\ Backwards(pendingWork, places) \in Seq(Items)
      /\ Elements(Backwards(pendingWork, places)) = {pendingWork[p] : p \in places}
  BY <1>1, BackwardsFacts
<1> QED  BY <1>1, <1>2 DEF Elements

\* The steps of the generator but StayThrottled and EndItemThrottled, by the items
\* it goes on with.
Generates(items) ==
  /\ NextOf(items)
  /\ \/ TakeItems /\ items = retrieve_all_items(pendingWork)
     \/ (ContinueItems \/ EndItem) /\ items = batch

LEMMA Generating ==
  ASSUME ItemsType, TakeItems \/ ContinueItems \/ EndItem
  PROVE  /\ \E items \in Seq(Items) : Generates(items)
         /\ \E at \in {"begin", "item"} : At(at)
<1>1. CASE TakeItems
  BY <1>1, ItemsRetrieved DEF TakeItems, Generates
<1>2. CASE ContinueItems \/ EndItem
  BY <1>2 DEF ContinueItems, EndItem, Generates, ItemsType
<1> QED  BY <1>1, <1>2

LEMMA StackInvGenerator ==
  ASSUME StackInv,
         TakeItems \/ ContinueItems \/ EndItem \/ StayThrottled \/ EndItemThrottled
  PROVE  StackInv'
<1>1. /\ UNCHANGED <<taskVars, markerOf, pusher, abandoned, lost, early, refused, pc,
                     callTask, no_trottling, envVars>>
  BY DEF TakeItems, ContinueItems, EndItem, StayThrottled, EndItemThrottled
<1>2. TasksType' /\ EnvType'
  BY <1>1 DEF StackInv, TasksType, EnvType, Tasks
<1>3. asked \in Nat /\ missed \in [Workers -> BOOLEAN]
  BY Numbers DEF StackInv, CallInv, CallsType
<1>4. missed' \in [Workers -> BOOLEAN]
  <2>1. PICK to : to = Top.to  OBVIOUS
  <2>2. missed' = missed \/ Miss(to)
    BY <2>1 DEF TakeItems, ContinueItems, EndItem, StayThrottled, EndItemThrottled,
                MissIfThrottled
  <2> QED  BY <1>3, <2>2, MissType
<1>5. CallInv'  BY <1>1, <1>3, <1>4, CallsSame DEF StackInv
<1>6. /\ ItemsType /\ StackOK  BY DEF StackInv
<1>7. StackOK' /\ batch' \in Seq(Items) /\ ran' \in Seq(Items)
  <2>1. CASE TakeItems \/ ContinueItems \/ EndItem
    <3>1. PICK items \in Seq(Items) : NextOf(items)
      BY <1>6, <2>1, Generating DEF Generates
    <3>2. PICK at \in {"begin", "item"} : At(at)  BY <1>6, <2>1, Generating
    <3> QED  BY <1>1, <1>6, <3>1, <3>2, NextOfFrames
  <2>2. CASE StayThrottled \/ EndItemThrottled
    <3>1. PICK at \in {"begin", "item"} : At(at)
      BY <2>2 DEF StayThrottled, EndItemThrottled
    <3>2. Yield /\ batch' = batch /\ ran' = ran  BY <2>2 DEF StayThrottled, EndItemThrottled
    <3> QED  BY <1>1, <1>6, <3>1, <3>2, YieldFrames DEF ItemsType
  <2> QED  BY <2>1, <2>2
<1>8. pendingWork' \in Seq(Items) /\ throttled' \in BOOLEAN
  <2>1. <<>> \in Seq(Items)  OBVIOUS
  <2>2. pendingWork' \in {pendingWork, <<>>} /\ throttled' \in {throttled, TRUE, FALSE}
    BY DEF TakeItems, ContinueItems, EndItem, StayThrottled, EndItemThrottled
  <2> QED  BY <1>6, <2>1, <2>2 DEF ItemsType
<1>9. ItemsType'
  <2>1. Items' = Items  BY <1>1 DEF Items
  <2> QED  BY <1>1, <1>6, <1>7, <1>8, <2>1 DEF ItemsType
<1> QED  BY <1>2, <1>5, <1>7, <1>9 DEF StackInv

-----------------------------------------------------------------------------
(* Steps of the frames that run tasks.                                     *)

\* Nothing is counted when the counter is zero.
LEMMA NotBusy ==
  ASSUME StackOK, ~Busy PROVE \A k \in DOMAIN stack : ~stack[k].counted
<1> DEFINE C == {k \in DOMAIN stack : stack[k].counted}
<1>1. IsFiniteSet(C)
  <2>1. Len(stack) \in Nat /\ DOMAIN stack = 1..Len(stack)  BY DEF StackOK
  <2>2. IsFiniteSet(DOMAIN stack)
    <3>1. IsFiniteSet(1..Len(stack))  BY <2>1, FS_Interval
    <3> QED  BY <2>1, <3>1
  <2>3. C \in SUBSET DOMAIN stack  OBVIOUS
  <2> HIDE DEF C
  <2> QED  BY <2>2, <2>3, FS_Subset
<1>2. Cardinality(C) \in Nat /\ ~(Cardinality(C) > 0)
  <2>1. Cardinality(C) \in Nat  BY <1>1, FS_CardinalityType
  <2> QED  BY <2>1 DEF Busy, gProcessingMessagesOnUiThread
<1>3. C = {}
  <2> HIDE DEF C
  <2> QED  BY <1>1, <1>2, FS_EmptySet
<1> QED  BY <1>3

\* The batch is swapped into the frame.
Takes(f) ==
  /\ f \in Frames /\ Become(f) /\ f.at = "batch" /\ f.todo = gUiThreadTasks
  /\ f.cur = 0 /\ f.to = Top.to /\ f.exec = Top.exec /\ gUiThreadTasks' = <<>>
  /\ \/ f.counted /\ \A k \in DOMAIN stack : ~stack[k].counted
     \/ f.counted = Top.counted /\ f.to = Nobody

LEMMA Taking ==
  ASSUME StackInv, (RunUiThreadTasks /\ ~Busy) \/ RunUnchecked
  PROVE  /\ \E f : Takes(f)
         /\ \E at \in {"exec", "direct"} : At(at)
         /\ UNCHANGED <<asked, done, itemVars, early, refused, pc, callTask, missed,
                        no_trottling, envVars>>
<1>1. PICK at \in {"exec", "direct"} :
        /\ At(at)
        /\ \/ at = "exec" /\ TakeTasks([Top EXCEPT !.counted = TRUE]) /\ ~Busy
           \/ at = "direct" /\ TakeTasks(Top)
  BY DEF RunUiThreadTasks, RunUnchecked
<1>2. /\ Top \in Frames /\ FrameOK(Top) /\ Top.at \in {"exec", "direct"}
      /\ At("direct") => Top.to = Nobody
  <2>1. Place(at)  BY DEF Place
  <2>2. Top \in Frames /\ FrameOK(Top) /\ Top.at = at  BY <1>1, <2>1, TopOK DEF StackInv
  <2> QED  BY <2>2 DEF FrameOK, At
<1>3. gUiThreadTasks \in Seq(1..MaxTasks)
  <2>1. asked \in 0..MaxTasks /\ gUiThreadTasks \in Seq(1..asked)
    BY DEF StackInv, TasksType, Tasks
  <2>2. 1..asked \subseteq 1..MaxTasks  BY <2>1, WorkAssumption
  <2> QED  BY <2>1, <2>2, SeqGrows
<1>4. Top.cur = 0  BY <1>2 DEF FrameOK
<1>5. CASE at = "exec"
  <2>1. PICK g : g = [Top EXCEPT !.counted = TRUE]  OBVIOUS
  <2>2. g \in Frames /\ g.counted /\ g.cur = 0 /\ g.to = Top.to /\ g.exec = Top.exec
    BY <1>2, <1>4, <2>1 DEF Frames
  <2>3. PICK f : f = [g EXCEPT !.at = "batch", !.todo = gUiThreadTasks]  OBVIOUS
  <2>4. /\ f \in Frames /\ f.at = "batch" /\ f.todo = gUiThreadTasks /\ f.counted
        /\ f.cur = 0 /\ f.to = Top.to /\ f.exec = Top.exec
    BY <1>3, <2>2, <2>3 DEF Frames
  <2>5. TakeTasks(g) /\ ~Busy  BY <1>1, <1>5, <2>1
  <2>6. Become(f) /\ gUiThreadTasks' = <<>>  BY <2>3, <2>5 DEF TakeTasks
  <2>7. \A k \in DOMAIN stack : ~stack[k].counted  BY <2>5, NotBusy DEF StackInv
  <2>8. Takes(f)  BY <2>4, <2>6, <2>7 DEF Takes
  <2> QED  BY <1>1, <2>8 DEF RunUiThreadTasks, RunUnchecked
<1>6. CASE at = "direct"
  <2>1. PICK f : f = [Top EXCEPT !.at = "batch", !.todo = gUiThreadTasks]  OBVIOUS
  <2>2. /\ f \in Frames /\ f.at = "batch" /\ f.todo = gUiThreadTasks
        /\ f.counted = Top.counted /\ f.cur = 0 /\ f.to = Top.to /\ f.exec = Top.exec
    BY <1>2, <1>3, <1>4, <2>1 DEF Frames
  <2>3. Become(f) /\ gUiThreadTasks' = <<>>  BY <1>1, <1>6, <2>1 DEF TakeTasks
  <2>4. Takes(f)  BY <1>1, <1>2, <1>6, <2>2, <2>3 DEF Takes
  <2> QED  BY <1>1, <2>4 DEF RunUiThreadTasks, RunUnchecked
<1> QED  BY <1>5, <1>6

LEMMA StackInvTaking ==
  ASSUME StackInv, (RunUiThreadTasks /\ ~Busy) \/ RunUnchecked PROVE StackInv'
<1>1. /\ UNCHANGED <<asked, done, itemVars, early, refused, pc, callTask, missed,
                     no_trottling, envVars>>
  BY Taking
<1>2. PICK f : Takes(f)  BY Taking
<1>3. PICK at \in {"exec", "direct"} : At(at)  BY Taking
<1>4. /\ TasksType' /\ ItemsType' /\ EnvType' /\ Grows
  <2>1. <<>> \in Seq(Tasks)  OBVIOUS
  <2> QED
    BY <1>1, <1>2, <2>1 DEF StackInv, TasksType, ItemsType, EnvType, Tasks, Items, Takes, Grows
<1>5. asked \in Nat /\ missed \in [Workers -> BOOLEAN]
  BY Numbers DEF StackInv, CallInv, CallsType
<1>6. CallInv'  BY <1>1, <1>5, CallsSame DEF StackInv
<1>7. StackOK'
  <2>1. stack # <<>> /\ FrameOK(Top) /\ Top.at = at
    <3>1. Place(at)  BY DEF Place
    <3> QED  BY <1>3, <3>1, TopOK DEF StackInv
  <2>2. FrameOK(f)'
    <3>1. f.todo \in Seq(Tasks)'  BY <1>2, <1>1 DEF StackInv, TasksType, Tasks, Takes
    <3> QED  BY <1>2, <2>1, <3>1 DEF Takes, FrameOK
  <2>3. f.counted /\ f.at \in {"batch", "task"} =>
          \/ Top.counted /\ Top.at \in {"batch", "task"}
          \/ \A k \in DOMAIN stack : ~stack[k].counted
    <3>1. CASE f.counted = Top.counted /\ f.to = Nobody
      \* A direct call is not counted.
      <4>1. ~Top.counted  BY <2>1 DEF FrameOK
      <4> QED  BY <1>2, <3>1, <4>1 DEF Takes
    <3>2. CASE f.counted /\ \A k \in DOMAIN stack : ~stack[k].counted
      BY <3>2
    <3> QED  BY <1>2, <3>1, <3>2 DEF Takes
  <2> QED  BY <1>1, <1>2, <1>4, <2>1, <2>2, <2>3, StackBecome DEF Takes, StackInv
<1> QED  BY <1>4, <1>6, <1>7 DEF StackInv

\* A batch goes on with its next task, or with what it has left.
RunsTask(f) ==
  /\ f \in Frames /\ Become(f) /\ f.to = Top.to /\ f.exec = Top.exec
  /\ f.counted = Top.counted
  /\ \/ /\ BeginTask /\ f.at = "task" /\ Top.todo # <<>> /\ Top.todo \in Seq(Tasks)
        /\ f.cur = Head(Top.todo) /\ f.todo = Tail(Top.todo)
     \/ EndTask /\ f.at = "batch" /\ f.cur = 0 /\ f.todo = Top.todo

LEMMA TopPlace ==
  ASSUME StackInv, NEW at \in {"batch", "task", "exec"}, At(at)
  PROVE  /\ stack # <<>> /\ Top \in Frames /\ Top = stack[Len(stack)]
         /\ Len(stack) \in DOMAIN stack /\ FrameOK(Top) /\ Top.at = at
         /\ Top.to # Nobody => Top.to \in Workers /\ pc[Top.to] = "handled"
<1>1. Place(at)  BY DEF Place
<1> QED  BY <1>1, TopOK DEF StackInv

LEMMA RunningTask ==
  ASSUME StackInv, BeginTask \/ EndTask PROVE \E f : RunsTask(f)
<1>1. CASE BeginTask
  <2>1. At("batch") /\ Top.todo # <<>>  BY <1>1 DEF BeginTask
  <2>2. Top \in Frames /\ Top.todo \in Seq(Tasks)  BY <2>1, TopPlace DEF FrameOK
  <2>3. Top.todo \in Seq(1..MaxTasks)  BY <2>2 DEF Frames
  <2>4. PICK s \in Seq(1..MaxTasks) : s = Top.todo  BY <2>3
  <2>5. Head(s) \in 1..MaxTasks /\ Tail(s) \in Seq(1..MaxTasks)
    BY <2>1, <2>4, Beheaded
  <2>6. Head(s) \in 0..(MaxTasks + MaxItems)  BY <2>5, WorkAssumption
  <2>7. PICK f : f = [Top EXCEPT !.at = "task", !.cur = Head(s), !.todo = Tail(s)]
    OBVIOUS
  <2>8. /\ f \in Frames /\ f.to = Top.to /\ f.exec = Top.exec /\ f.counted = Top.counted
        /\ f.at = "task" /\ f.cur = Head(s) /\ f.todo = Tail(s)
    BY <2>2, <2>5, <2>6, <2>7 DEF Frames
  <2>9. Become(f)  BY <1>1, <2>4, <2>7 DEF BeginTask
  <2> QED  BY <1>1, <2>1, <2>2, <2>4, <2>8, <2>9 DEF RunsTask
<1>2. CASE EndTask
  <2>1. At("task")  BY <1>2 DEF EndTask
  <2>2. Top \in Frames  BY <2>1, TopPlace
  <2>3. 0 \in 0..(MaxTasks + MaxItems) /\ 0 \in 0..MaxPumps  BY WorkAssumption
  <2>4. PICK f : f = [Top EXCEPT !.at = "batch", !.cur = 0, !.pumps = 0]  OBVIOUS
  <2>5. /\ f \in Frames /\ f.to = Top.to /\ f.exec = Top.exec /\ f.counted = Top.counted
        /\ f.at = "batch" /\ f.cur = 0 /\ f.todo = Top.todo
    BY <2>2, <2>3, <2>4 DEF Frames
  <2>6. Become(f)  BY <1>2, <2>4 DEF EndTask
  <2> QED  BY <1>2, <2>5, <2>6 DEF RunsTask
<1> QED  BY <1>1, <1>2

LEMMA StackInvRunning == ASSUME StackInv, BeginTask \/ EndTask PROVE StackInv'
<1>1. PICK f : RunsTask(f)  BY RunningTask
<1>2. /\ UNCHANGED <<asked, gUiThreadTasks, itemVars, pc, callTask, missed, no_trottling,
                     envVars>>
  BY DEF BeginTask, EndTask
<1>3. /\ stack # <<>> /\ Top \in Frames /\ FrameOK(Top) /\ Top.at \in {"batch", "task"}
      /\ At("task") => Top.cur \in Tasks
  <2>1. PICK at \in {"batch", "task"} : At(at)  BY DEF BeginTask, EndTask
  <2> QED  BY <2>1, TopPlace DEF FrameOK, At
<1>4. TasksType'
  <2>1. Tasks' = Tasks  BY <1>2 DEF Tasks
  <2>2. done' \subseteq Tasks /\ early' \subseteq early /\ refused' \subseteq refused
    BY <1>3 DEF BeginTask, EndTask, StackInv, TasksType
  <2> QED  BY <1>2, <2>1, <2>2 DEF StackInv, TasksType
<1>5. ItemsType' /\ EnvType' /\ Grows
  BY <1>2 DEF StackInv, ItemsType, EnvType, Items, Tasks, Grows
<1>6. asked \in Nat /\ missed \in [Workers -> BOOLEAN]
  BY Numbers DEF StackInv, CallInv, CallsType
<1>7. CallInv'  BY <1>2, <1>6, CallsSame DEF StackInv
<1>8. StackOK'
  <2>1. Tasks' = Tasks  BY <1>2 DEF Tasks
  <2>2. f.todo \in Seq(Tasks) /\ (f.at = "task" => f.cur \in Tasks)
    <3>0. \/ /\ f.at = "task" /\ Top.todo # <<>> /\ Top.todo \in Seq(Tasks)
             /\ f.cur = Head(Top.todo) /\ f.todo = Tail(Top.todo)
          \/ f.at = "batch" /\ f.todo = Top.todo
      BY <1>1 DEF RunsTask
    <3>1. CASE /\ f.at = "task" /\ Top.todo # <<>> /\ Top.todo \in Seq(Tasks)
               /\ f.cur = Head(Top.todo) /\ f.todo = Tail(Top.todo)
      <4>1. PICK s \in Seq(Tasks) : s = Top.todo  BY <3>1
      <4>2. Head(s) \in Tasks /\ Tail(s) \in Seq(Tasks)  BY <3>1, <4>1, Beheaded
      <4> QED  BY <3>1, <4>1, <4>2
    <3>2. CASE f.at = "batch" /\ f.todo = Top.todo
      BY <1>3, <3>2 DEF FrameOK
    <3> QED  BY <3>0, <3>1, <3>2
  <2>3. FrameOK(f)'  BY <1>1, <1>3, <2>1, <2>2 DEF RunsTask, FrameOK
  <2> QED  BY <1>1, <1>2, <1>3, <1>5, <2>3, StackBecome DEF RunsTask, StackInv
<1> QED  BY <1>4, <1>5, <1>7, <1>8 DEF StackInv

\* A frame is left, and the message answered.
Replies(pending) ==
  /\ Leave /\ Reply(Top.to, pending) /\ stack # <<>> /\ Top.todo = <<>> /\ Top.cur = 0
  /\ \/ Top.at = "exec" /\ pending
     \/ Top.at = "batch" /\ ~pending
  /\ UNCHANGED <<taskVars, itemVars, refused, missed, no_trottling, envVars>>

LEMMA Replying ==
  ASSUME StackInv, (RunUiThreadTasks /\ Busy) \/ EndBatch
  PROVE  \E pending \in BOOLEAN : Replies(pending)
<1>1. CASE RunUiThreadTasks /\ Busy
  <2>1. At("exec")  BY <1>1 DEF RunUiThreadTasks
  <2>2. stack # <<>> /\ Top.at = "exec" /\ Top.todo = <<>> /\ Top.cur = 0
    BY <2>1, TopPlace DEF FrameOK
  <2>3. Replies(TRUE)  BY <1>1, <2>2 DEF Replies, RunUiThreadTasks
  <2> QED  BY <2>3
<1>2. CASE EndBatch
  <2>1. At("batch")  BY <1>2 DEF EndBatch
  <2>2. stack # <<>> /\ Top.at = "batch" /\ Top.cur = 0
    BY <2>1, TopPlace DEF FrameOK
  <2>3. Replies(FALSE)  BY <1>2, <2>2 DEF Replies, EndBatch
  <2> QED  BY <2>3
<1> QED  BY <1>1, <1>2

\* The frame on top answers, and is left.
LEMMA LeftAnswering ==
  ASSUME StackInv, NEW at \in {"batch", "exec", "item"}, At(at),
         NEW pending \in BOOLEAN, Leave, Reply(Top.to, pending), ItemsType',
         refused' \subseteq Tasks,
         UNCHANGED <<taskVars, pusher, missed, no_trottling, envVars>>
  PROVE  /\ StackInv'
         /\ \A v \in Workers : v # Top.to => pc'[v] = pc[v] /\ callTask'[v] = callTask[v]
         /\ Top.to = Nobody => early' = early
         /\ Top.to # Nobody =>
              /\ Top.to \in Workers /\ pc[Top.to] = "handled" /\ pc'[Top.to] # "handled"
              /\ callTask[Top.to] = 0 => pc'[Top.to] = "flushed"
              /\ callTask[Top.to] # 0 => pc'[Top.to] \in {"send", "idle"}
              /\ early' \subseteq early \cup
                   (IF callTask[Top.to] = 0 \/ pending THEN {} ELSE {callTask[Top.to]} \ done)
<1>1. /\ asked \in Nat /\ missed \in [Workers -> BOOLEAN]
      /\ callTask \in [Workers -> 0..asked]
  BY Numbers DEF StackInv, CallInv, CallsType
<1>2. ItemsType' /\ EnvType' /\ Grows
  BY DEF StackInv, EnvType, Tasks, Items, Grows
<1>3. PICK to : to = Top.to  OBVIOUS
<1>6. /\ stack # <<>>
      /\ Top.to # Nobody => Top.to \in Workers /\ pc[Top.to] = "handled"
  <2>1. Place(at)  BY DEF Place
  <2> QED  BY <2>1, TopOK DEF StackInv
<1>4. CASE to = Nobody
  <2>1. UNCHANGED <<pc, early, callTask>>  BY <1>3, <1>4 DEF Reply
  <2>2. TasksType'  BY <2>1 DEF StackInv, TasksType, Tasks
  <2>3. CallInv'  BY <1>1, <2>1, CallsSame DEF StackInv
  <2>4. StackOK'  BY <1>2, <1>6, <2>1, StackLeave DEF StackInv
  <2> QED  BY <1>2, <1>3, <1>4, <2>1, <2>2, <2>3, <2>4 DEF StackInv
<1>5. CASE to # Nobody
  <2>1. to \in Workers /\ pc[to] = "handled"  BY <1>3, <1>5, <1>6
  <2>2. Answer(to, pending)  BY <1>3, <1>5 DEF Reply
  <2>3. UNCHANGED <<asked, no_trottling, missed>>  OBVIOUS
  <2>4. /\ CallInv'
        /\ \A v \in Workers : v # to => pc'[v] = pc[v] /\ callTask'[v] = callTask[v]
        /\ pc'[to] # "handled"
        /\ callTask[to] = 0 => pc'[to] = "flushed"
        /\ callTask[to] # 0 => pc'[to] \in {"send", "idle"}
        /\ early' \subseteq early \cup
              (IF callTask[to] = 0 \/ pending THEN {} ELSE {callTask[to]} \ done)
    BY <1>1, <2>1, <2>2, <2>3, Answered DEF StackInv
  <2>5. TasksType'
    <3>1. callTask[to] # 0 => callTask[to] \in Tasks  BY <1>1, <2>1 DEF Tasks
    <3> QED  BY <2>4, <3>1 DEF StackInv, TasksType, Tasks
  <2>6. StackOK'  BY <1>2, <1>3, <1>6, <2>4, StackLeave DEF StackInv
  <2> QED  BY <1>2, <1>3, <1>5, <2>1, <2>4, <2>5, <2>6 DEF StackInv
<1> QED  BY <1>4, <1>5

LEMMA Replied ==
  ASSUME StackInv, NEW pending \in BOOLEAN, Replies(pending)
  PROVE  /\ StackInv'
         /\ \A v \in Workers : v # Top.to => pc'[v] = pc[v] /\ callTask'[v] = callTask[v]
         /\ Top.to = Nobody => early' = early
         /\ Top.to # Nobody =>
              /\ Top.to \in Workers /\ pc[Top.to] = "handled" /\ pc'[Top.to] # "handled"
              /\ callTask[Top.to] = 0 => pc'[Top.to] = "flushed"
              /\ callTask[Top.to] # 0 => pc'[Top.to] \in {"send", "idle"}
              /\ early' \subseteq early \cup
                   (IF callTask[Top.to] = 0 \/ pending THEN {} ELSE {callTask[Top.to]} \ done)
<1>1. PICK at \in {"batch", "exec"} : At(at)  BY DEF Replies, At
<1>2. ItemsType' /\ refused' \subseteq Tasks
  BY DEF StackInv, ItemsType, TasksType, Items, Replies
<1>3. /\ Leave /\ Reply(Top.to, pending)
      /\ UNCHANGED <<taskVars, pusher, missed, no_trottling, envVars>>
  BY DEF Replies
<1> QED  BY <1>1, <1>2, <1>3, LeftAnswering

\* An item throws: its frame answers FALSE.
LEMMA Thrown ==
  ASSUME StackInv, ItemThrows
  PROVE  /\ StackInv'
         /\ \A v \in Workers : v # Top.to => pc'[v] = pc[v] /\ callTask'[v] = callTask[v]
         /\ Top.to = Nobody => early' = early
         /\ Top.to # Nobody =>
              /\ Top.to \in Workers /\ pc[Top.to] = "handled" /\ pc'[Top.to] # "handled"
              /\ callTask[Top.to] = 0 => pc'[Top.to] = "flushed"
              /\ callTask[Top.to] # 0 => pc'[Top.to] \in {"send", "idle"}
              /\ early' \subseteq early \cup
                   (IF callTask[Top.to] = 0 THEN {} ELSE {callTask[Top.to]} \ done)
         /\ stack # <<>> /\ Top.at = "item"
<1>1. At("item")  BY DEF ItemThrows
<1>2. ItemsType'
  <2>1. ItemsType /\ Items' = Items /\ Elements(batch) \subseteq Items
    BY ElementsType DEF StackInv, ItemsType, Items, ItemThrows
  <2>2. <<>> \in Seq(Items)  OBVIOUS
  <2>3. batch' = <<>> /\ lost' = lost \cup Elements(batch) /\ abandoned' = TRUE
        /\ UNCHANGED <<markerOf, pusher, pendingWork, throttled, ran>>
    BY DEF ItemThrows
  <2> QED  BY <2>1, <2>2, <2>3 DEF ItemsType
<1>3. refused' \subseteq Tasks  BY DEF StackInv, TasksType, ItemThrows
<1>4. /\ Leave /\ Reply(Top.to, FALSE)
      /\ UNCHANGED <<taskVars, pusher, missed, no_trottling, envVars>>
  BY DEF ItemThrows
<1>5. stack # <<>> /\ Top.at = "item"
  <2>1. Place("item")  BY DEF Place
  <2> QED  BY <1>1, <2>1, TopOK DEF StackInv
<1> QED  BY <1>1, <1>2, <1>3, <1>4, <1>5, LeftAnswering

LEMMA StackInvReplying ==
  ASSUME StackInv, (RunUiThreadTasks /\ Busy) \/ EndBatch PROVE StackInv'
  BY Replying, Replied

LEMMA StackInvStep == ASSUME StackInv, [Next]_vars PROVE StackInv'
<1>1. CASE UiThread
  <2>1. CASE TakeItems \/ ContinueItems \/ EndItem \/ StayThrottled \/ EndItemThrottled
    BY <2>1, StackInvGenerator
  <2>2. CASE RunUiThreadTasks \/ RunUnchecked
    BY <2>2, StackInvTaking, StackInvReplying
  <2>3. CASE BeginTask \/ EndTask  BY <2>3, StackInvRunning
  <2>4. CASE EndBatch  BY <2>4, StackInvReplying
  <2>5. CASE EndPeek \/ SynchronousFileParse  BY <2>5, StackInvLeaving
  <2>6. CASE ItemThrows  BY <2>6, Thrown
  <2> QED  BY <1>1, <2>1, <2>2, <2>3, <2>4, <2>5, <2>6 DEF UiThread
<1>2. CASE UiCode  BY <1>2, StackInvEntering, StackInvPostOwn DEF UiCode
<1>3. CASE Message
  BY <1>3, StackInvReceivePosted, StackInvEntering, StackInvReceiveSent DEF Message
<1>4. CASE LicenseInitComplete \/ LicenseViolation  BY <1>4, StackInvEnv
<1>5. ASSUME NEW w \in Workers, Worker(w) PROVE StackInv'
  BY <1>5, StackInvCall, StackInvWorker, StackInvEnv, StackInvPush DEF Worker
<1>6. CASE UNCHANGED vars
  <2>1. EnvType'  BY <1>6 DEF vars, StackInv, EnvType
  <2> QED  BY <1>6, <2>1, StackInvQuiet DEF vars
<1> QED  BY <1>1, <1>2, <1>3, <1>4, <1>5, <1>6 DEF Next

-----------------------------------------------------------------------------
(* The tasks keep their order.                                             *)

LEMMA OrderMeans == ASSUME StackInv, InOrder, EachOnce PROVE TasksWaitInOrder
<1>1. /\ Len(stack) \in Nat /\ DOMAIN stack = 1..Len(stack)
      /\ \A k \in DOMAIN stack : Elements(stack[k].todo) \subseteq Tasks
      /\ Elements(gUiThreadTasks) \subseteq Tasks
      /\ \A k \in DOMAIN stack : stack[k].at = "task" => stack[k].cur \in Tasks
      /\ done \subseteq Tasks
  BY ElementsType DEF StackInv, StackOK, FramesOK, FrameOK, TasksType
<1>2. \A k \in Places : (k \in DOMAIN stack /\ k # Len(stack) + 1) \/ (k = Len(stack) + 1 /\ k \notin DOMAIN stack)
  BY <1>1 DEF Places
<1>3. \A k, l \in Places : k < l => k \in DOMAIN stack  BY <1>1 DEF Places
<1>4. /\ \A k \in DOMAIN stack : k \in Places
      /\ Len(stack) + 1 \in Places /\ Len(stack) + 1 \notin DOMAIN stack
  BY <1>1 DEF Places
<1>5. \A k \in Places : IsIncreasing(Left(k))  BY <1>2 DEF Left, InOrder
<1>6. \A k, l \in Places : k < l =>
        \A t \in Elements(Left(k)), u \in Elements(Left(l)) : t < u
  BY <1>2, <1>3 DEF Left, InOrder
<1>7. \A t : t \in Waiting <=> Waits(t)
  <2>1. ASSUME NEW t, t \in Waiting PROVE Waits(t)
    <3>1. PICK k \in Places : t \in Elements(Left(k))  BY <2>1 DEF Waiting
    <3> QED  BY <1>2, <3>1 DEF Left, Waits
  <2>2. ASSUME NEW t, t \in Elements(gUiThreadTasks) PROVE t \in Waiting
    <3>1. Left(Len(stack) + 1) = gUiThreadTasks  BY <1>4 DEF Left
    <3> QED  BY <1>4, <2>2, <3>1 DEF Waiting
  <2>3. ASSUME NEW t, NEW k \in DOMAIN stack, t \in Elements(stack[k].todo)
        PROVE  t \in Waiting
    <3>1. Left(k) = stack[k].todo  BY DEF Left
    <3> QED  BY <1>4, <2>3, <3>1 DEF Waiting
  <2> QED  BY <2>1, <2>2, <2>3 DEF Waits
<1>8. \A t : t \in RunningTasks <=> Runs(t)  BY DEF RunningTasks, Runs
<1>9. \A t : Waits(t) \/ Runs(t) => t \in Tasks  BY <1>1 DEF Waits, Runs
<1> QED  BY <1>1, <1>5, <1>6, <1>7, <1>8, <1>9 DEF TasksWaitInOrder, EachOnce

\* No batch changes, but for an empty one that is left.
TasksKept ==
  /\ \A k \in DOMAIN stack' : stack'[k].at \in {"batch", "task"} =>
       k \in DOMAIN stack /\ Alike(stack'[k], stack[k])
  /\ \A k \in DOMAIN stack : stack[k].at \in {"batch", "task"} =>
       \/ k \in DOMAIN stack' /\ Alike(stack'[k], stack[k])
       \/ stack[k].at = "batch" /\ stack[k].todo = <<>>

LEMMA TodoTypes ==
  ASSUME StackInv
  PROVE  /\ \A k \in DOMAIN stack : Elements(stack[k].todo) \subseteq Tasks /\ k \in Nat
         /\ Elements(gUiThreadTasks) \subseteq Tasks
         /\ Tasks \subseteq Nat /\ 0 \notin Tasks
  BY ElementsType DEF StackInv, StackOK, FramesOK, FrameOK, TasksType, Tasks

LEMMA IncreasingEmpty == IsIncreasing(<<>>)
  BY DEF IsIncreasing

LEMMA InOrderKept ==
  ASSUME StackInv, StackInv', TasksInv, TasksKept, NEW new, done' = done,
         Elements(gUiThreadTasks') = Elements(gUiThreadTasks) \cup new,
         IsIncreasing(gUiThreadTasks'), Tasks' = Tasks \cup new,
         \A t \in new : t \notin Tasks /\ \A s \in Tasks : s < t
  PROVE  /\ InOrder' /\ EachOnce' /\ RunningApart'
         /\ \A t : t # 0 /\ HeldDirectly(t) => HeldDirectly(t)'
<1>1. \A k \in DOMAIN stack' :
        \/ stack'[k].todo = <<>>
        \/ k \in DOMAIN stack /\ stack'[k].todo = stack[k].todo
  BY DEF StackInv, StackOK, FramesOK, FrameOK, TasksKept, Alike
<1>2. \A k \in DOMAIN stack :
        \/ stack[k].todo = <<>>
        \/ k \in DOMAIN stack' /\ stack'[k].todo = stack[k].todo
  BY DEF StackInv, StackOK, FramesOK, FrameOK, TasksKept, Alike
<1>3. \A t : Runs(t)' <=> Runs(t)
  BY DEF Runs, TasksKept, Alike
<1>4. \A t : Waits(t)' <=> Waits(t) \/ t \in new
  BY <1>1, <1>2, ElementsEmpty DEF Waits
<1>5. \A t : Waits(t) \/ Runs(t) => t \in Tasks
  BY TodoTypes DEF StackInv, StackOK, FramesOK, FrameOK, Waits, Runs
<1>6. EachOnce'
  BY <1>3, <1>4, <1>5 DEF TasksInv, EachOnce, StackInv, TasksType
<1>7. RunningApart'
  BY DEF TasksInv, RunningApart, TasksKept, Alike
<1>8. InOrder'
  <2>1. \A k \in DOMAIN stack' : IsIncreasing(stack'[k].todo)
    BY <1>1, IncreasingEmpty DEF TasksInv, InOrder
  <2>2. \A k \in DOMAIN stack' : \A t \in Elements(stack'[k].todo) :
          k \in DOMAIN stack /\ t \in Elements(stack[k].todo) /\ t \in Tasks
    BY <1>1, ElementsEmpty, TodoTypes
  <2>3. \A k \in DOMAIN stack' :
          \A t \in Elements(stack'[k].todo), u \in Elements(gUiThreadTasks') : t < u
    BY <2>2 DEF TasksInv, InOrder
  <2>4. \A k, l \in DOMAIN stack' : k < l =>
          \A t \in Elements(stack'[k].todo), u \in Elements(stack'[l].todo) : t < u
    BY <2>2 DEF TasksInv, InOrder
  <2> QED  BY <2>1, <2>3, <2>4 DEF InOrder
<1>9. \A t : t # 0 /\ HeldDirectly(t) => HeldDirectly(t)'
  <2> SUFFICES ASSUME NEW t, t # 0, HeldDirectly(t) PROVE HeldDirectly(t)'  OBVIOUS
  <2>1. PICK k \in DOMAIN stack :
          /\ ~stack[k].counted /\ stack[k].at \in {"batch", "task"}
          /\ t = stack[k].cur \/ t \in Elements(stack[k].todo)
    BY DEF HeldDirectly
  <2>2. ~(stack[k].at = "batch" /\ stack[k].todo = <<>>)
    BY <2>1, ElementsEmpty DEF StackInv, StackOK, FramesOK, FrameOK
  <2>3. k \in DOMAIN stack' /\ Alike(stack'[k], stack[k])  BY <2>1, <2>2 DEF TasksKept
  <2> QED  BY <2>1, <2>3 DEF HeldDirectly, Alike
<1> QED  BY <1>6, <1>7, <1>8, <1>9

\* Steps after which the tasks wait as before, or with a new one behind them.
LEMMA TasksInvKept ==
  ASSUME StackInv, StackInv', TasksInv, TasksKept,
         \/ UNCHANGED taskVars
         \/ AddTask /\ UNCHANGED <<done, early, refused, pusher>>,
         refused \subseteq refused',
         \A t \in early' : t \in early \/ t \in refused' \/ HeldDirectly(t)',
         \A w \in Workers : pc[w] = "handled" /\ pc'[w] = "handled" =>
           callTask'[w] = callTask[w]
  PROVE  TasksInv'
<1>1. \E new : /\ Elements(gUiThreadTasks') = Elements(gUiThreadTasks) \cup new
               /\ IsIncreasing(gUiThreadTasks') /\ Tasks' = Tasks \cup new /\ 0 \notin new
               /\ \A t \in new : t \notin Tasks /\ \A s \in Tasks : s < t
  <2>1. CASE UNCHANGED taskVars
    <3>1. PICK none : none = {}  OBVIOUS
    <3>2. /\ Elements(gUiThreadTasks') = Elements(gUiThreadTasks) \cup none
          /\ Tasks' = Tasks \cup none /\ IsIncreasing(gUiThreadTasks')
          /\ 0 \notin none /\ \A t \in none : t \notin Tasks /\ \A s \in Tasks : s < t
      BY <2>1, <3>1 DEF Tasks, TasksInv, InOrder
    <3> QED  BY <3>2, Zenon
  <2>2. CASE AddTask /\ UNCHANGED <<done, early, refused, pusher>>
    <3>1. /\ Tasks' = Tasks \cup {asked + 1} /\ asked + 1 \notin Tasks
          /\ gUiThreadTasks' = Append(gUiThreadTasks, asked + 1)
          /\ Elements(gUiThreadTasks') = Elements(gUiThreadTasks) \cup {asked + 1}
          /\ asked \in Nat
      BY <2>2, TaskAdded, Numbers
    <3>2. \A s \in Tasks : s < asked + 1  BY <3>1 DEF Tasks
    <3>3. asked + 1 # 0 /\ asked + 1 \in Nat  BY <3>1
    <3>4. IsIncreasing(gUiThreadTasks')
      <4>1. PICK e \in Nat : e = asked + 1  BY <3>3
      <4>2. PICK s \in Seq(Nat) : s = gUiThreadTasks
        BY TodoTypes, SeqGrows DEF StackInv, TasksType
      <4>3. \A d \in Elements(s) : d < e  BY <3>2, <4>1, <4>2, TodoTypes
      <4>4. IsIncreasing(s)  BY <4>2 DEF TasksInv, InOrder
      <4>5. IsIncreasing(Append(s, e))  BY <4>3, <4>4, IncreasingAppend
      <4> QED  BY <3>1, <4>1, <4>2, <4>5
    <3> QED  BY <3>1, <3>2, <3>3, <3>4
  <2> QED  BY <2>1, <2>2
<1>2. PICK new :
        /\ Elements(gUiThreadTasks') = Elements(gUiThreadTasks) \cup new
        /\ IsIncreasing(gUiThreadTasks') /\ Tasks' = Tasks \cup new /\ 0 \notin new
        /\ \A t \in new : t \notin Tasks /\ \A s \in Tasks : s < t
  BY <1>1
<1>3. done' = done  OBVIOUS
<1>4. /\ InOrder' /\ EachOnce' /\ RunningApart'
      /\ \A t : t # 0 /\ HeldDirectly(t) => HeldDirectly(t)'
  BY <1>2, <1>3, InOrderKept
<1>5. OwnTaskTaken'
  <2> SUFFICES ASSUME NEW k \in DOMAIN stack', stack'[k].to # Nobody,
                      stack'[k].at \in {"batch", "task"}
               PROVE  callTask'[stack'[k].to] \notin Elements(gUiThreadTasks')
    BY DEF OwnTaskTaken
  <2>1. PICK w : w = stack'[k].to  OBVIOUS
  <2>2. k \in DOMAIN stack /\ stack[k].to = w /\ stack[k].at \in {"batch", "task"}
    BY <2>1 DEF TasksKept, Alike
  <2>3. w \in Workers  BY <2>1, <2>2, AnswersWorkers DEF StackInv, StackOK
  <2>4. pc[w] = "handled" /\ pc'[w] = "handled"
    BY <2>1, <2>2 DEF StackInv, StackOK, HandledOnce
  <2>5. callTask'[w] = callTask[w]  BY <2>3, <2>4
  <2>6. callTask[w] \notin Elements(gUiThreadTasks)
    BY <2>1, <2>2 DEF TasksInv, OwnTaskTaken
  <2>7. callTask[w] = 0 \/ callTask[w] \in Tasks
    <3>1. callTask \in [Workers -> 0..asked] /\ asked \in Nat
      BY Numbers DEF StackInv, CallInv, CallsType
    <3>2. callTask[w] \in 0..asked  BY <2>3, <3>1
    <3> QED  BY <3>1, <3>2 DEF Tasks
  <2> QED  BY <1>2, <2>1, <2>5, <2>6, <2>7
<1>6. ReturnedCallsAreDone'
  <2> SUFFICES ASSUME NEW t \in early', t \notin refused' PROVE HeldDirectly(t)'
    BY DEF ReturnedCallsAreDone
  <2>1. CASE t \in early
    <3>1. HeldDirectly(t)  BY <2>1 DEF TasksInv, ReturnedCallsAreDone
    <3>2. t # 0  BY <2>1, TodoTypes DEF StackInv, TasksType
    <3> QED  BY <1>4, <3>1, <3>2
  <2> QED  BY <2>1
<1> QED  BY <1>4, <1>5, <1>6 DEF TasksInv

LEMMA TasksKeptSame == ASSUME UNCHANGED stack PROVE TasksKept
  BY AlikeSame DEF TasksKept

LEMMA TasksKeptEnter == ASSUME StackInv, NEW f, Enters(f) PROVE TasksKept
<1>1. /\ \A k \in DOMAIN stack : k \in DOMAIN stack' /\ Alike(stack'[k], stack[k])
      /\ \A k \in DOMAIN stack' : k \in DOMAIN stack \/ stack'[k] = f
  BY EnterFrames DEF StackInv, Enters
<1> QED  BY <1>1 DEF TasksKept, Enters

LEMMA TasksKeptLeave ==
  ASSUME StackInv, stack # <<>>, Leave,
         Top.at \notin {"batch", "task"} \/ (Top.at = "batch" /\ Top.todo = <<>>)
  PROVE  TasksKept
<1>1. /\ \A k \in DOMAIN stack : k \in DOMAIN stack' \/ k = Len(stack)
      /\ \A k \in DOMAIN stack' : k \in DOMAIN stack /\ stack'[k] = stack[k]
      /\ Top = stack[Len(stack)]
  BY LeaveFrames DEF StackInv
<1>2. \A k \in DOMAIN stack' : k \in DOMAIN stack /\ Alike(stack'[k], stack[k])
  BY <1>1, AlikeSame
<1> QED  BY <1>1, <1>2 DEF TasksKept

LEMMA TasksKeptGenerator ==
  ASSUME StackInv,
         TakeItems \/ ContinueItems \/ EndItem \/ StayThrottled \/ EndItemThrottled
  PROVE  TasksKept
<1>1. ItemsType /\ StackOK /\ UNCHANGED <<pc, asked, pusher>>
  BY DEF StackInv, TakeItems, ContinueItems, EndItem, StayThrottled, EndItemThrottled
<1>2. PICK at \in {"begin", "item"} : At(at)
  BY DEF TakeItems, ContinueItems, EndItem, StayThrottled, EndItemThrottled
<1>3. /\ \A k \in DOMAIN stack : k # Len(stack) => k \in DOMAIN stack' /\ stack'[k] = stack[k]
      /\ \A k \in DOMAIN stack' : k \in DOMAIN stack
      /\ Len(stack) \in DOMAIN stack' => stack'[Len(stack)].at \in {"exec", "item"}
  <2>1. CASE TakeItems \/ ContinueItems \/ EndItem
    <3>1. PICK items \in Seq(Items) : NextOf(items)
      BY <1>1, <2>1, Generating DEF Generates
    <3> QED  BY <1>1, <1>2, <3>1, NextOfFrames
  <2>2. CASE StayThrottled \/ EndItemThrottled
    <3>1. Yield  BY <2>2 DEF StayThrottled, EndItemThrottled
    <3> QED  BY <1>1, <1>2, <3>1, YieldFrames
  <2> QED  BY <2>1, <2>2
<1>4. stack[Len(stack)].at = at
  <2>1. Place(at)  BY DEF Place
  <2> QED  BY <1>1, <1>2, <2>1, TopOK
<1> QED  BY <1>3, <1>4, AlikeSame DEF TasksKept

-----------------------------------------------------------------------------
(* TasksInv is kept by every step that does not take, begin or end a task. *)

LEMMA TasksInvSame ==
  ASSUME StackInv, StackInv', TasksInv, UNCHANGED <<taskVars, early, refused, stack>>,
         \A w \in Workers : pc[w] = "handled" => callTask'[w] = callTask[w]
  PROVE  TasksInv'
  BY TasksKeptSame, TasksInvKept

LEMMA TasksInvCalls ==
  ASSUME StackInv, StackInv', TasksInv
  PROVE  /\ \A w \in Workers : Worker(w) => TasksInv'
         /\ UNCHANGED vars \/ LicenseInitComplete \/ LicenseViolation => TasksInv'
         /\ PostOwn => TasksInv'
<1>1. ASSUME NEW w \in Workers, NEW synchronous \in BOOLEAN, Call(w, synchronous)
      PROVE  TasksInv'
  <2>1. AddTask /\ UNCHANGED <<done, early, refused, pusher, stack>>  BY <1>1 DEF Call
  <2>2. \A v \in Workers : pc[v] = "handled" => callTask'[v] = callTask[v]
    BY <1>1 DEF Call, Free, StackInv, CallInv, CallsType
  <2> QED  BY <2>1, <2>2, TasksKeptSame, TasksInvKept
<1>2. ASSUME NEW w \in Workers,
             \/ Send(w) \/ BeginFlush(w) \/ EndFlush(w) \/ LockDirectory(w)
             \/ UnlockDirectory(w) \/ \E marker \in Markers \cup {0} : PushItem(w, marker)
      PROVE  TasksInv'
  BY <1>2, TasksInvSame DEF Send, BeginFlush, EndFlush, LockDirectory, UnlockDirectory,
                            PushItem
<1>3. ASSUME UNCHANGED vars \/ LicenseInitComplete \/ LicenseViolation PROVE TasksInv'
  BY <1>3, TasksInvSame DEF vars, LicenseInitComplete, LicenseViolation
<1>4. ASSUME PostOwn PROVE TasksInv'
  <2>1. /\ AddTask /\ UNCHANGED <<done, early, refused, pusher, stack, pc, callTask>>
    BY <1>4 DEF PostOwn
  <2> QED  BY <2>1, TasksKeptSame, TasksInvKept
<1> QED  BY <1>1, <1>2, <1>3, <1>4 DEF Worker

LEMMA TasksInvMessages ==
  ASSUME StackInv, StackInv', TasksInv
  PROVE  /\ \A w \in Workers : ReceiveSent(w) => TasksInv'
         /\ ReceivePosted => TasksInv'
         /\ (ReceiveOther \/ GetSettings \/ BeginPeek \/ AwaitDirectory \/ CallDirectly)
              => TasksInv'
         /\ EndPeek \/ SynchronousFileParse => TasksInv'
         /\ (TakeItems \/ ContinueItems \/ EndItem \/ StayThrottled \/ EndItemThrottled)
              => TasksInv'
<1>1. ASSUME NEW w \in Workers, ReceiveSent(w) PROVE TasksInv'
  <2>1. /\ UNCHANGED taskVars /\ pc[w] = "sent"
    BY <1>1 DEF ReceiveSent
  <2>2. CASE gLicenseCountOk
    <3>1. Dispatch(w) /\ UNCHANGED <<early, refused, callTask>>
      BY <1>1, <2>2 DEF ReceiveSent
    <3>2. PICK f : Enters(f)  BY <3>1, Dispatched
    <3> QED  BY <2>1, <3>1, <3>2, TasksKeptEnter, TasksInvKept
  <2>3. CASE ~gLicenseCountOk
    <3>1. /\ Answer(w, FALSE) /\ Miss(w) /\ UNCHANGED <<stack, asked, no_trottling>>
          /\ refused' = refused \cup (IF callTask[w] = 0 THEN {} ELSE {callTask[w]} \ done)
      BY <1>1, <2>3 DEF ReceiveSent
    <3>2. asked \in Nat /\ missed \in [Workers -> BOOLEAN]
      BY Numbers DEF StackInv, CallInv, CallsType
    <3>3. missed' \in [Workers -> BOOLEAN]  BY <3>1, <3>2, MissType
    <3>4. /\ \A v \in Workers : v # w => callTask'[v] = callTask[v]
          /\ early' \subseteq early \cup
               (IF callTask[w] = 0 THEN {} ELSE {callTask[w]} \ done)
      BY <2>1, <3>1, <3>2, <3>3, Answered DEF StackInv
    <3>5. \A v \in Workers : pc[v] = "handled" => callTask'[v] = callTask[v]
      BY <2>1, <3>4
    <3>6. \A t \in early' : t \in early \/ t \in refused'  BY <3>1, <3>4
    <3> QED  BY <2>1, <3>1, <3>5, <3>6, TasksKeptSame, TasksInvKept
  <2> QED  BY <2>2, <2>3
<1>2. ASSUME ReceivePosted PROVE TasksInv'
  <2>1. UNCHANGED <<taskVars, early, refused, pc, callTask>>  BY <1>2 DEF ReceivePosted
  <2>2. TasksKept
    <3>1. CASE gLicenseCountOk
      <4>1. PICK f : Enters(f)  BY <1>2, <3>1, Dispatched DEF ReceivePosted
      <4> QED  BY <4>1, TasksKeptEnter
    <3>2. CASE ~gLicenseCountOk
      BY <1>2, <3>2, TasksKeptSame DEF ReceivePosted
    <3> QED  BY <3>1, <3>2
  <2> QED  BY <2>1, <2>2, TasksInvKept
<1>3. ASSUME ReceiveOther \/ GetSettings \/ BeginPeek \/ AwaitDirectory \/ CallDirectly
      PROVE  TasksInv'
  <2>1. PICK f : Enters(f)  BY <1>3, Entering
  <2>2. /\ UNCHANGED <<early, refused, pc, callTask>>
        /\ UNCHANGED taskVars \/ (AddTask /\ UNCHANGED <<done, early, refused, pusher>>)
    BY <1>3 DEF ReceiveOther, GetSettings, BeginPeek, AwaitDirectory, CallDirectly
  <2> QED  BY <2>1, <2>2, TasksKeptEnter, TasksInvKept
<1>4. ASSUME EndPeek \/ SynchronousFileParse PROVE TasksInv'
  <2>1. /\ Leave /\ UNCHANGED <<taskVars, early, refused, pc, callTask>>
    BY <1>4 DEF EndPeek, SynchronousFileParse
  <2>2. stack # <<>> /\ Top.at \in {"peek", "lock"}
    <3>1. Place("peek") /\ Place("lock")  BY DEF Place
    <3> QED  BY <1>4, <3>1, TopOK DEF StackInv, EndPeek, SynchronousFileParse
  <2> QED  BY <2>1, <2>2, TasksKeptLeave, TasksInvKept
<1>5. ASSUME TakeItems \/ ContinueItems \/ EndItem \/ StayThrottled \/ EndItemThrottled
      PROVE  TasksInv'
  <2>1. UNCHANGED <<taskVars, early, refused, pc, callTask>>
    BY <1>5 DEF TakeItems, ContinueItems, EndItem, StayThrottled, EndItemThrottled
  <2> QED  BY <1>5, <2>1, TasksKeptGenerator, TasksInvKept
<1> QED  BY <1>1, <1>2, <1>3, <1>4, <1>5

-----------------------------------------------------------------------------
(* Batches are taken, tasks begin and end, and calls are answered.         *)

LEMMA TasksInvTaking ==
  ASSUME StackInv, StackInv', TasksInv, (RunUiThreadTasks /\ ~Busy) \/ RunUnchecked
  PROVE  TasksInv'
<1>1. UNCHANGED <<asked, done, early, refused>>  BY Taking
<1>2. PICK f : Takes(f)  BY Taking
<1>3. PICK at \in {"exec", "direct"} : At(at)  BY Taking
<1>4. /\ stack # <<>> /\ FrameOK(Top) /\ Top.at = at /\ Top = stack[Len(stack)]
  <2>1. Place(at)  BY DEF Place
  <2> QED  BY <1>3, <2>1, TopOK DEF StackInv
<1> DEFINE n == Len(stack)
<1>5. /\ n \in Nat /\ n \in DOMAIN stack /\ DOMAIN stack' = DOMAIN stack /\ stack'[n] = f
      /\ \A k \in DOMAIN stack : k # n => stack'[k] = stack[k]
  BY <1>2, <1>4, BecomeFrames DEF Takes, StackInv
<1>6. \A k \in DOMAIN stack : k \in Nat /\ k <= n  BY <1>5 DEF StackInv, StackOK
<1> HIDE DEF n
<1>7. /\ stack[n].todo = <<>> /\ stack[n].at \in {"exec", "direct"}
      /\ f.at = "batch" /\ f.todo = gUiThreadTasks /\ gUiThreadTasks' = <<>>
  BY <1>2, <1>4 DEF Takes, FrameOK, n
<1>8. Tasks' = Tasks  BY <1>1 DEF Tasks
<1>9. \A t : Waits(t)' <=> Waits(t)
  BY <1>5, <1>7, ElementsEmpty DEF Waits
<1>10. \A t : Runs(t)' <=> Runs(t)  BY <1>5, <1>7 DEF Runs
<1>11. EachOnce'  BY <1>1, <1>8, <1>9, <1>10 DEF TasksInv, EachOnce
<1>12. RunningApart'  BY <1>5, <1>7 DEF TasksInv, RunningApart
<1>13. OwnTaskTaken'  BY <1>7, ElementsEmpty DEF OwnTaskTaken
<1>14. ReturnedCallsAreDone'
  BY <1>1, <1>5, <1>7 DEF TasksInv, ReturnedCallsAreDone, HeldDirectly
<1>15. InOrder'
  <2>1. IsIncreasing(gUiThreadTasks')  BY <1>7, IncreasingEmpty
  <2>2. \A k \in DOMAIN stack' : IsIncreasing(stack'[k].todo)
    BY <1>5, <1>7 DEF TasksInv, InOrder
  <2>3. \A k, l \in DOMAIN stack' : k < l =>
          \A t \in Elements(stack'[k].todo), u \in Elements(stack'[l].todo) : t < u
    <3> SUFFICES ASSUME NEW k \in DOMAIN stack, NEW l \in DOMAIN stack, k < l
                 PROVE  \A t \in Elements(stack'[k].todo), u \in Elements(stack'[l].todo) :
                          t < u
      BY <1>5
    <3>1. k # n  BY <1>5, <1>6
    <3>2. CASE l = n  BY <1>5, <1>7, <3>1, <3>2 DEF TasksInv, InOrder
    <3>3. CASE l # n  BY <1>5, <3>1, <3>3 DEF TasksInv, InOrder
    <3> QED  BY <3>2, <3>3
  <2> QED  BY <1>7, <2>1, <2>2, <2>3, ElementsEmpty DEF InOrder
<1> QED  BY <1>11, <1>12, <1>13, <1>14, <1>15 DEF TasksInv

LEMMA TasksInvBegin ==
  ASSUME StackInv, StackInv', TasksInv, BeginTask PROVE TasksInv'
<1>1. UNCHANGED <<taskVars, early, refused, callTask>> /\ Tasks' = Tasks
  BY DEF BeginTask, Tasks
<1>2. PICK f : RunsTask(f)  BY RunningTask
<1>3. /\ stack # <<>> /\ FrameOK(Top) /\ Top.at = "batch" /\ Top = stack[Len(stack)]
  <2>1. At("batch")  BY DEF BeginTask
  <2> QED  BY <2>1, TopPlace
<1> DEFINE n == Len(stack)
<1>4. /\ n \in Nat /\ n \in DOMAIN stack /\ DOMAIN stack' = DOMAIN stack /\ stack'[n] = f
      /\ \A k \in DOMAIN stack : k # n => stack'[k] = stack[k]
  BY <1>2, <1>3, BecomeFrames DEF RunsTask, StackInv
<1>5. \A k \in DOMAIN stack : k \in Nat /\ k <= n  BY <1>4 DEF StackInv, StackOK
<1> HIDE DEF n
<1>6. PICK s : s = stack[n].todo  OBVIOUS
<1>7. /\ stack[n].at = "batch" /\ stack[n].cur = 0 /\ s # <<>> /\ s \in Seq(Tasks)
      /\ f.at = "task" /\ f.cur = Head(s) /\ f.todo = Tail(s)
      /\ f.to = stack[n].to /\ f.counted = stack[n].counted
  <2>1. ~EndTask  BY <1>3 DEF EndTask, At
  <2> QED  BY <1>2, <1>3, <1>6, <2>1 DEF RunsTask, FrameOK, n
<1>8. /\ Elements(s) = Elements(Tail(s)) \cup {Head(s)} /\ Head(s) \in Tasks
  BY <1>7, Beheaded
<1>9. IsIncreasing(Tail(s)) /\ \A e \in Elements(Tail(s)) : Head(s) < e
  <2>1. s \in Seq(Nat)  BY <1>7, TodoTypes, SeqGrows
  <2>2. IsIncreasing(s)  BY <1>4, <1>6 DEF TasksInv, InOrder
  <2> QED  BY <1>7, <2>1, <2>2, IncreasingTail
<1>10. Waits(Head(s))  BY <1>4, <1>6, <1>8 DEF Waits
<1>11. \A t \in Nat : ~(t < t)  OBVIOUS
<1>12. /\ Head(s) \notin Elements(Tail(s)) /\ Head(s) \notin Elements(gUiThreadTasks)
       /\ \A k \in DOMAIN stack : k # n => Head(s) \notin Elements(stack[k].todo)
  <2>1. Head(s) \in Nat  BY <1>8, TodoTypes
  <2>2. Head(s) \notin Elements(Tail(s))  BY <1>9, <1>11, <2>1
  <2>3. Head(s) \notin Elements(gUiThreadTasks)
    BY <1>4, <1>6, <1>8, <1>11, <2>1 DEF TasksInv, InOrder
  <2>4. ASSUME NEW k \in DOMAIN stack, k # n PROVE Head(s) \notin Elements(stack[k].todo)
    <3>1. k < n  BY <1>4, <1>5, <2>4
    <3> QED  BY <1>4, <1>6, <1>8, <1>11, <2>1, <3>1 DEF TasksInv, InOrder
  <2> QED  BY <2>2, <2>3, <2>4
<1>13. \A t : Waits(t)' <=> Waits(t) /\ t # Head(s)
  <2>1. gUiThreadTasks' = gUiThreadTasks  BY <1>1
  <2> QED  BY <1>4, <1>6, <1>7, <1>8, <1>12, <2>1 DEF Waits
<1>14. \A t : Runs(t)' <=> Runs(t) \/ t = Head(s)  BY <1>4, <1>7 DEF Runs
<1>15. EachOnce'  BY <1>1, <1>8, <1>10, <1>13, <1>14 DEF TasksInv, EachOnce
<1>16. RunningApart'
  <2>1. \A k \in DOMAIN stack : stack[k].at = "task" => stack[k].cur # Head(s)
    BY <1>8, <1>10 DEF TasksInv, EachOnce, Runs
  <2> QED  BY <1>4, <1>7, <2>1 DEF TasksInv, RunningApart
<1>17. OwnTaskTaken'  BY <1>1, <1>4, <1>7 DEF TasksInv, OwnTaskTaken
<1>18. ReturnedCallsAreDone'
  <2> SUFFICES ASSUME NEW t \in early, HeldDirectly(t) PROVE HeldDirectly(t)'
    BY <1>1 DEF TasksInv, ReturnedCallsAreDone
  <2>1. t # 0  BY TodoTypes DEF StackInv, TasksType
  <2> QED  BY <1>4, <1>6, <1>7, <1>8, <2>1 DEF HeldDirectly
<1>19. InOrder'
  <2>1. \A k \in DOMAIN stack' : IsIncreasing(stack'[k].todo)
    BY <1>4, <1>7, <1>9 DEF TasksInv, InOrder
  <2>2. \A k \in DOMAIN stack' : Elements(stack'[k].todo) \subseteq Elements(stack[k].todo)
    BY <1>4, <1>6, <1>7, <1>8
  <2> QED  BY <1>1, <1>4, <2>1, <2>2 DEF TasksInv, InOrder
<1> QED  BY <1>15, <1>16, <1>17, <1>18, <1>19 DEF TasksInv

LEMMA TasksInvEnd ==
  ASSUME StackInv, StackInv', TasksInv, EndTask PROVE TasksInv'
<1>1. UNCHANGED <<asked, gUiThreadTasks, callTask>> /\ Tasks' = Tasks
  BY DEF EndTask, Tasks
<1>2. PICK f : RunsTask(f)  BY RunningTask
<1>3. /\ stack # <<>> /\ FrameOK(Top) /\ Top.at = "task" /\ Top = stack[Len(stack)]
  <2>1. At("task")  BY DEF EndTask
  <2> QED  BY <2>1, TopPlace
<1> DEFINE n == Len(stack)
<1>4. /\ n \in Nat /\ n \in DOMAIN stack /\ DOMAIN stack' = DOMAIN stack /\ stack'[n] = f
      /\ \A k \in DOMAIN stack : k # n => stack'[k] = stack[k]
  BY <1>2, <1>3, BecomeFrames DEF RunsTask, StackInv
<1> HIDE DEF n
<1>5. PICK c : c = stack[n].cur  OBVIOUS
<1>6. /\ stack[n].at = "task" /\ c \in Tasks
      /\ f.at = "batch" /\ f.cur = 0 /\ f.todo = stack[n].todo
      /\ f.to = stack[n].to /\ f.counted = stack[n].counted
      /\ done' = done \cup {c} /\ early' = early \ {c} /\ refused' = refused \ {c}
  <2>1. ~BeginTask  BY <1>3 DEF BeginTask, At
  <2> QED  BY <1>2, <1>3, <1>5, <2>1 DEF RunsTask, FrameOK, EndTask, n
<1>7. \A t : Waits(t)' <=> Waits(t)  BY <1>1, <1>4, <1>6 DEF Waits
<1>8. \A t : Runs(t)' <=> Runs(t) /\ t # c
  BY <1>4, <1>5, <1>6 DEF Runs, TasksInv, RunningApart
<1>9. Runs(c)  BY <1>4, <1>5, <1>6 DEF Runs
<1>10. EachOnce'  BY <1>1, <1>6, <1>7, <1>8, <1>9 DEF TasksInv, EachOnce
<1>11. RunningApart'  BY <1>4, <1>6 DEF TasksInv, RunningApart
<1>12. OwnTaskTaken'  BY <1>1, <1>4, <1>6 DEF TasksInv, OwnTaskTaken
<1>13. ReturnedCallsAreDone'
  <2> SUFFICES ASSUME NEW t \in early, t # c, HeldDirectly(t) PROVE HeldDirectly(t)'
    BY <1>6 DEF TasksInv, ReturnedCallsAreDone
  <2> QED  BY <1>4, <1>5, <1>6 DEF HeldDirectly
<1>14. InOrder'
  <2>1. \A k \in DOMAIN stack' : stack'[k].todo = stack[k].todo  BY <1>4, <1>6
  <2> QED  BY <1>1, <1>4, <2>1 DEF TasksInv, InOrder
<1> QED  BY <1>10, <1>11, <1>12, <1>13, <1>14 DEF TasksInv

\* Who is answered by a frame that has run its batch finds the task done, or in
\* a batch that is not counted.
LEMMA TasksInvReplying ==
  ASSUME StackInv, StackInv', TasksInv, (RunUiThreadTasks /\ Busy) \/ EndBatch
  PROVE  TasksInv'
<1>1. PICK pending \in BOOLEAN : Replies(pending)  BY Replying
<1>2. /\ stack # <<>> /\ Leave /\ Top.todo = <<>> /\ Top.cur = 0
      /\ UNCHANGED <<taskVars, refused>>
      /\ (Top.at = "exec" /\ pending) \/ (Top.at = "batch" /\ ~pending)
  BY <1>1 DEF Replies
<1>3. TasksKept  BY <1>2, TasksKeptLeave
<1>4. PICK to : to = Top.to  OBVIOUS
<1>5. /\ \A v \in Workers : v # to => callTask'[v] = callTask[v]
      /\ to = Nobody => early' = early
      /\ to # Nobody =>
           /\ to \in Workers /\ pc[to] = "handled" /\ pc'[to] # "handled"
           /\ early' \subseteq early \cup
                (IF callTask[to] = 0 \/ pending THEN {} ELSE {callTask[to]} \ done)
  BY <1>1, <1>4, Replied
<1>6. \A w \in Workers : pc[w] = "handled" /\ pc'[w] = "handled" => callTask'[w] = callTask[w]
  BY <1>5, WorkAssumption
<1>7. ASSUME NEW t \in early', t \notin early PROVE HeldDirectly(t)'
  <2>1. to # Nobody /\ t = callTask[to] /\ t # 0 /\ ~pending /\ t \notin done
    BY <1>5, <1>7
  <2>2. /\ Top.at = "batch" /\ Top.counted
    <3>1. At("batch")  BY <1>2, <2>1 DEF At
    <3> QED  BY <1>4, <2>1, <3>1, TopPlace DEF FrameOK
  <2>3. t \in Tasks
    <3>1. callTask \in [Workers -> 0..asked] /\ asked \in Nat
      BY Numbers DEF StackInv, CallInv, CallsType
    <3>2. t \in 0..asked  BY <1>5, <2>1, <3>1
    <3> QED  BY <2>1, <3>1, <3>2 DEF Tasks
  <2> DEFINE n == Len(stack)
  <2>4. /\ n \in Nat /\ n \in DOMAIN stack /\ Top = stack[n]
        /\ \A k \in DOMAIN stack : k \in DOMAIN stack' \/ k = n
        /\ \A k \in DOMAIN stack' : k \in DOMAIN stack /\ k # n /\ stack'[k] = stack[k]
    BY <1>2, LeaveFrames DEF StackInv
  <2>5. \A k \in DOMAIN stack : k # n => k < n
    BY <2>4 DEF StackInv, StackOK
  <2> HIDE DEF n
  <2>6. t \notin Elements(gUiThreadTasks)
    BY <1>4, <2>1, <2>2, <2>4 DEF TasksInv, OwnTaskTaken
  <2>7. Waits(t) \/ Runs(t)  BY <2>1, <2>3 DEF TasksInv, EachOnce
  <2>8. PICK k \in DOMAIN stack :
          \/ t \in Elements(stack[k].todo)
          \/ stack[k].at = "task" /\ stack[k].cur = t
    BY <2>6, <2>7 DEF Waits, Runs
  <2>9. k # n /\ stack[k].at \in {"batch", "task"}
    BY <1>2, <2>2, <2>4, <2>8, ElementsEmpty DEF StackInv, StackOK, FramesOK, FrameOK
  <2>10. ~stack[k].counted
    BY <2>2, <2>4, <2>5, <2>9 DEF StackInv, StackOK, CountedAlone
  <2>11. k \in DOMAIN stack' /\ stack'[k] = stack[k]  BY <2>4, <2>9
  <2> QED  BY <2>8, <2>9, <2>10, <2>11 DEF HeldDirectly
<1> QED  BY <1>2, <1>3, <1>6, <1>7, TasksInvKept

\* The task of a call that is answered because an item throws is refused.
LEMMA TasksInvThrows ==
  ASSUME StackInv, StackInv', TasksInv, ItemThrows PROVE TasksInv'
<1>1. PICK to : to = Top.to  OBVIOUS
<1>2. /\ \A v \in Workers : v # to => callTask'[v] = callTask[v]
      /\ to = Nobody => early' = early
      /\ to # Nobody =>
           /\ to \in Workers /\ pc'[to] # "handled"
           /\ early' \subseteq early \cup (IF callTask[to] = 0 THEN {} ELSE {callTask[to]} \ done)
      /\ stack # <<>> /\ Top.at = "item"
  BY <1>1, Thrown
<1>3. /\ UNCHANGED taskVars /\ Leave
      /\ refused' = refused \cup {t \in Tasks \ done : to # Nobody /\ t = callTask[to]}
  BY <1>1 DEF ItemThrows
<1>4. TasksKept  BY <1>2, <1>3, TasksKeptLeave
<1>5. \A t \in early' : t \in early \/ t \in refused'
  <2> SUFFICES ASSUME NEW t \in early', t \notin early PROVE t \in refused'  OBVIOUS
  <2>1. to # Nobody /\ t = callTask[to] /\ t # 0 /\ t \notin done  BY <1>2
  <2>2. t \in Tasks
    <3>1. callTask \in [Workers -> 0..asked] /\ asked \in Nat
      BY Numbers DEF StackInv, CallInv, CallsType
    <3>2. t \in 0..asked  BY <1>2, <2>1, <3>1
    <3> QED  BY <2>1, <3>1, <3>2 DEF Tasks
  <2> QED  BY <1>3, <2>1, <2>2
<1>6. \A w \in Workers : pc[w] = "handled" /\ pc'[w] = "handled" => callTask'[w] = callTask[w]
  BY <1>2, WorkAssumption
<1> QED  BY <1>3, <1>4, <1>5, <1>6, TasksInvKept

LEMMA TasksInvInit == Init => TasksInv
<1> SUFFICES ASSUME Init PROVE TasksInv  OBVIOUS
<1>1. DOMAIN stack = {} /\ Tasks = {} /\ gUiThreadTasks = <<>> /\ early = {}
  BY DEF Init, Tasks
<1> QED
  BY <1>1, IncreasingEmpty, ElementsEmpty
  DEF TasksInv, InOrder, EachOnce, RunningApart, OwnTaskTaken, ReturnedCallsAreDone

LEMMA TasksInvStep == ASSUME StackInv, TasksInv, [Next]_vars PROVE TasksInv'
<1>1. StackInv'  BY StackInvStep
<1>2. CASE UiThread
  <2>1. CASE TakeItems \/ ContinueItems \/ EndItem \/ StayThrottled \/ EndItemThrottled
    BY <1>1, <2>1, TasksInvMessages
  <2>2. CASE RunUiThreadTasks \/ RunUnchecked
    BY <1>1, <2>2, TasksInvTaking, TasksInvReplying
  <2>3. CASE BeginTask \/ EndTask  BY <1>1, <2>3, TasksInvBegin, TasksInvEnd
  <2>4. CASE EndBatch  BY <1>1, <2>4, TasksInvReplying
  <2>5. CASE EndPeek \/ SynchronousFileParse  BY <1>1, <2>5, TasksInvMessages
  <2>6. CASE ItemThrows  BY <1>1, <2>6, TasksInvThrows
  <2> QED  BY <1>2, <2>1, <2>2, <2>3, <2>4, <2>5, <2>6 DEF UiThread
<1>3. CASE UiCode  BY <1>1, <1>3, TasksInvMessages, TasksInvCalls DEF UiCode
<1>4. CASE Message  BY <1>1, <1>4, TasksInvMessages DEF Message
<1>5. CASE LicenseInitComplete \/ LicenseViolation \/ UNCHANGED vars
  BY <1>1, <1>5, TasksInvCalls
<1>6. ASSUME NEW w \in Workers, Worker(w) PROVE TasksInv'
  BY <1>1, <1>6, TasksInvCalls
<1> QED  BY <1>2, <1>3, <1>4, <1>5, <1>6 DEF Next

-----------------------------------------------------------------------------
(* The items keep their order.                                             *)

LEMMA IncreasingConcat ==
  ASSUME NEW s \in Seq(Nat), NEW t \in Seq(Nat), IsIncreasing(s), IsIncreasing(t),
         \A d \in Elements(s), e \in Elements(t) : d < e
  PROVE  IsIncreasing(s \o t)
<1> DEFINE u == s \o t
           m == Len(s)
           n == Len(t)
<1>1. /\ m \in Nat /\ n \in Nat /\ DOMAIN s = 1..m /\ DOMAIN t = 1..n
      /\ DOMAIN u = 1..(m + n)
      /\ \A k \in 1..(m + n) : u[k] = IF k <= m THEN s[k] ELSE t[k - m]
  OBVIOUS
<1> HIDE DEF u, m, n
<1>2. ASSUME NEW j \in DOMAIN u, NEW k \in DOMAIN u, j < k PROVE u[j] < u[k]
  <2>1. /\ j \in Nat /\ k \in Nat /\ 1 <= j /\ k <= m + n  BY <1>1
  <2>2. CASE k <= m
    <3>1. j \in DOMAIN s /\ k \in DOMAIN s /\ u[j] = s[j] /\ u[k] = s[k]
      BY <1>1, <1>2, <2>1, <2>2
    <3> QED  BY <1>2, <3>1 DEF IsIncreasing
  <2>3. CASE j <= m /\ ~(k <= m)
    <3>1. j \in DOMAIN s /\ k - m \in DOMAIN t /\ u[j] = s[j] /\ u[k] = t[k - m]
      BY <1>1, <2>1, <2>3
    <3> QED  BY <3>1 DEF Elements
  <2>4. CASE ~(j <= m)
    <3>1. /\ j - m \in DOMAIN t /\ k - m \in DOMAIN t /\ j - m < k - m
          /\ u[j] = t[j - m] /\ u[k] = t[k - m]
      BY <1>1, <1>2, <2>1, <2>4
    <3> QED  BY <3>1 DEF IsIncreasing
  <2> QED  BY <1>1, <2>1, <2>2, <2>3, <2>4
<1> QED  BY <1>2 DEF IsIncreasing, u

\* And the other way round.
LEMMA IncreasingParts ==
  ASSUME NEW s \in Seq(Nat), NEW t \in Seq(Nat), IsIncreasing(s \o t)
  PROVE  IsIncreasing(s) /\ \A d \in Elements(s), e \in Elements(t) : d < e
<1> DEFINE u == s \o t
           m == Len(s)
           n == Len(t)
<1>1. /\ m \in Nat /\ n \in Nat /\ DOMAIN s = 1..m /\ DOMAIN t = 1..n
      /\ DOMAIN u = 1..(m + n)
      /\ \A k \in 1..(m + n) : u[k] = IF k <= m THEN s[k] ELSE t[k - m]
  OBVIOUS
<1>2. \A j, k \in DOMAIN u : j < k => u[j] < u[k]  BY DEF IsIncreasing
<1> HIDE DEF u, m, n
<1>3. ASSUME NEW j \in DOMAIN s, NEW k \in DOMAIN s, j < k PROVE s[j] < s[k]
  <2>1. j \in DOMAIN u /\ k \in DOMAIN u /\ u[j] = s[j] /\ u[k] = s[k]  BY <1>1
  <2> QED  BY <1>2, <1>3, <2>1
<1>4. ASSUME NEW j \in DOMAIN s, NEW k \in DOMAIN t PROVE s[j] < t[k]
  <2>1. /\ j \in DOMAIN u /\ k + m \in DOMAIN u /\ j < k + m
        /\ u[j] = s[j] /\ u[k + m] = t[k]
    BY <1>1
  <2> QED  BY <1>2, <2>1
<1> QED  BY <1>3, <1>4 DEF IsIncreasing, Elements

LEMMA Concatenated ==
  ASSUME NEW S, NEW s \in Seq(S), NEW t \in Seq(S)
  PROVE  /\ s \o t \in Seq(S) /\ Len(s \o t) = Len(s) + Len(t)
         /\ \A k \in 1..(Len(s) + Len(t)) :
              (s \o t)[k] = IF k <= Len(s) THEN s[k] ELSE t[k - Len(s)]
  OBVIOUS

LEMMA ConcatEmpty == ASSUME NEW S, NEW s \in Seq(S) PROVE s \o <<>> = s
  OBVIOUS

LEMMA ConcatShift ==
  ASSUME NEW S, NEW s \in Seq(S), NEW t \in Seq(S), t # <<>>
  PROVE  /\ Append(s, Head(t)) \o Tail(t) = s \o t
         /\ Elements(Append(s, Head(t))) \cup Elements(Tail(t)) = Elements(s) \cup Elements(t)
<1> DEFINE m == Len(s)
           n == Len(t)
           a == Append(s, Head(t))
           b == Tail(t)
<1>1. Head(t) \in S /\ b \in Seq(S) /\ Len(b) = n - 1 /\ n \in Nat /\ 1 <= n
  BY Beheaded
<1>2. /\ a \in Seq(S) /\ Len(a) = m + 1 /\ a[m + 1] = Head(t) /\ m \in Nat
      /\ \A k \in 1..m : a[k] = s[k]
  BY <1>1
<1>3. \A k \in 1..(n - 1) : b[k] = t[k + 1]
  OBVIOUS
<1>4. Head(t) = t[1]  OBVIOUS
<1> DEFINE u == a \o b
           v == s \o t
<1>5. /\ u \in Seq(S) /\ Len(u) = m + 1 + (n - 1)
      /\ \A k \in 1..(m + n) : u[k] = IF k <= m + 1 THEN a[k] ELSE b[k - (m + 1)]
  <2> HIDE DEF a, b, m, n
  <2>1. /\ u \in Seq(S) /\ Len(u) = Len(a) + Len(b)
        /\ \A k \in 1..(Len(a) + Len(b)) :
             u[k] = IF k <= Len(a) THEN a[k] ELSE b[k - Len(a)]
    BY <1>1, <1>2, Concatenated
  <2>2. Len(a) = m + 1 /\ Len(b) = n - 1 /\ m + n = Len(a) + Len(b)  BY <1>1, <1>2
  <2> HIDE DEF u
  <2> QED  BY <2>1, <2>2
<1>6. /\ v \in Seq(S) /\ Len(v) = m + n
      /\ \A k \in 1..(m + n) : v[k] = IF k <= m THEN s[k] ELSE t[k - m]
  OBVIOUS
<1> HIDE DEF a, b, m, n, u, v
<1>7. ASSUME NEW k \in 1..(m + n) PROVE u[k] = v[k]
  <2>1. k \in Nat /\ 1 <= k /\ k <= m + n  BY <1>1, <1>2
  <2>2. CASE k <= m
    BY <1>2, <1>5, <1>6, <2>1, <2>2
  <2>3. CASE k = m + 1
    <3>1. k - m = 1 /\ ~(k <= m)  BY <1>2, <2>3
    <3>2. v[k] = t[k - m]  BY <1>6, <3>1
    <3>3. u[k] = a[k]  BY <1>2, <1>5, <2>3
    <3> QED  BY <1>2, <1>4, <2>3, <3>1, <3>2, <3>3
  <2>4. CASE ~(k <= m + 1)
    <3>1. k - (m + 1) \in 1..(n - 1) /\ (k - (m + 1)) + 1 = k - m /\ ~(k <= m)
      BY <1>1, <1>2, <2>1, <2>4
    <3>2. u[k] = b[k - (m + 1)] /\ v[k] = t[k - m]  BY <1>5, <1>6, <2>4, <3>1
    <3>3. b[k - (m + 1)] = t[(k - (m + 1)) + 1]  BY <1>3, <3>1
    <3> QED  BY <3>1, <3>2, <3>3
  <2> QED  BY <1>2, <2>1, <2>2, <2>3, <2>4
<1>8. Len(u) = Len(v) /\ Len(v) = m + n  BY <1>1, <1>2, <1>5, <1>6
<1>9. u = v  BY <1>5, <1>6, <1>7, <1>8
<1>10. Elements(t) = Elements(b) \cup {Head(t)}  BY Beheaded DEF b
<1>11. Elements(a) = Elements(s) \cup {Head(t)}  BY <1>1, Appended DEF a
<1> QED  BY <1>9, <1>10, <1>11 DEF a, b, u, v

\* The frames that run items are the same, and the generator is entered only
\* while it lives.
ItemsKept ==
  /\ \A k \in DOMAIN stack' : stack'[k].at = "item" =>
       k \in DOMAIN stack /\ stack[k].at = "item" /\ stack'[k].cur = stack[k].cur
  /\ \A k \in DOMAIN stack : stack[k].at = "item" =>
       k \in DOMAIN stack' /\ stack'[k].at = "item"
  /\ \A k \in DOMAIN stack' : abandoned /\ stack'[k].at = "begin" =>
       k \in DOMAIN stack /\ stack[k].at = "begin"

LEMMA ItemsInvKept ==
  ASSUME ItemsInv, UNCHANGED itemVars, ItemsKept PROVE ItemsInv'
<1>1. NewestInFront'  BY DEF ItemsInv, NewestInFront
<1>2. GeneratorOK'  BY DEF ItemsInv, GeneratorOK, ItemsKept
<1>3. ItemsRunInOrder'  BY DEF ItemsInv, ItemsRunInOrder, Items
<1> QED  BY <1>1, <1>2, <1>3 DEF ItemsInv

\* Steps that neither push an item nor belong to the generator.
Elsewhere ==
  \/ UNCHANGED vars \/ LicenseInitComplete \/ LicenseViolation
  \/ RunUiThreadTasks \/ RunUnchecked \/ BeginTask \/ EndTask \/ EndBatch \/ EndPeek
  \/ SynchronousFileParse \/ UiCode \/ Message
  \/ \E w \in Workers :
       \/ \E synchronous \in BOOLEAN : Call(w, synchronous)
       \/ Send(w) \/ BeginFlush(w) \/ EndFlush(w) \/ LockDirectory(w) \/ UnlockDirectory(w)

LEMMA StepCases ==
  ASSUME [Next]_vars
  PROVE  \/ Elsewhere
         \/ TakeItems \/ ContinueItems \/ EndItem \/ StayThrottled \/ EndItemThrottled
         \/ ItemThrows
         \/ \E w \in Workers, marker \in Markers \cup {0} : PushItem(w, marker)
  BY DEF Next, UiThread, Worker, Elsewhere

LEMMA ElsewhereItems ==
  ASSUME StackInv, Elsewhere PROVE UNCHANGED itemVars /\ ItemsKept
<1>1. ASSUME UNCHANGED stack PROVE ItemsKept  BY <1>1 DEF ItemsKept
<1>2. ASSUME NEW f, Enters(f) PROVE ItemsKept
  <2>1. /\ \A k \in DOMAIN stack : k \in DOMAIN stack' /\ Alike(stack'[k], stack[k])
        /\ \A k \in DOMAIN stack' : k \in DOMAIN stack \/ stack'[k] = f
    BY <1>2, EnterFrames DEF StackInv, Enters
  <2> QED  BY <1>2, <2>1 DEF ItemsKept, Enters, Alike, already_running_all
<1>3. ASSUME stack # <<>>, Leave, Top.at # "item" PROVE ItemsKept
  <2>1. /\ \A k \in DOMAIN stack : k \in DOMAIN stack' \/ k = Len(stack)
        /\ \A k \in DOMAIN stack' : k \in DOMAIN stack /\ stack'[k] = stack[k]
        /\ Top = stack[Len(stack)]
    BY <1>3, LeaveFrames DEF StackInv
  <2> QED  BY <1>3, <2>1 DEF ItemsKept
<1>4. ASSUME stack # <<>>, NEW f \in Frames, Become(f), Top.at # "item",
             f.at \notin {"begin", "item"}
      PROVE  ItemsKept
  <2>1. /\ DOMAIN stack' = DOMAIN stack /\ stack'[Len(stack)] = f
        /\ \A k \in DOMAIN stack : k # Len(stack) => stack'[k] = stack[k]
        /\ Top = stack[Len(stack)]
    BY <1>4, BecomeFrames DEF StackInv
  <2> QED  BY <1>4, <2>1 DEF ItemsKept
<1>5. ASSUME NEW at, Place(at), At(at) PROVE stack # <<>> /\ Top.at = at
  BY <1>5, TopOK DEF StackInv
<1>6. CASE UNCHANGED vars \/ LicenseInitComplete \/ LicenseViolation
  BY <1>1, <1>6 DEF vars, LicenseInitComplete, LicenseViolation
<1>7. CASE (RunUiThreadTasks /\ Busy) \/ EndBatch
  <2>1. PICK pending \in BOOLEAN : Replies(pending)  BY <1>7, Replying
  <2> QED  BY <1>3, <2>1 DEF Replies
<1>8. CASE (RunUiThreadTasks /\ ~Busy) \/ RunUnchecked
  <2>1. UNCHANGED itemVars  BY <1>8, Taking
  <2>2. PICK f : Takes(f)  BY <1>8, Taking
  <2>3. PICK at \in {"exec", "direct"} : At(at)  BY <1>8, Taking
  <2>4. Place(at)  BY DEF Place
  <2> QED  BY <1>4, <1>5, <2>1, <2>2, <2>3, <2>4 DEF Takes
<1>9. CASE BeginTask \/ EndTask
  <2>1. PICK f : RunsTask(f)  BY <1>9, RunningTask
  <2>2. PICK at \in {"batch", "task"} : At(at)  BY <1>9 DEF BeginTask, EndTask
  <2>3. Place(at)  BY DEF Place
  <2>4. f \in Frames /\ Become(f) /\ f.at \notin {"begin", "item"}  BY <2>1 DEF RunsTask
  <2> QED  BY <1>4, <1>5, <1>9, <2>2, <2>3, <2>4 DEF BeginTask, EndTask
<1>10. CASE EndPeek \/ SynchronousFileParse
  <2>1. Place("peek") /\ Place("lock")  BY DEF Place
  <2> QED  BY <1>3, <1>5, <1>10, <2>1 DEF EndPeek, SynchronousFileParse
<1>11. CASE ReceiveOther \/ GetSettings \/ BeginPeek \/ AwaitDirectory \/ CallDirectly
  <2>1. PICK f : Enters(f)  BY <1>11, Entering
  <2> QED
    BY <1>2, <1>11, <2>1 DEF ReceiveOther, GetSettings, BeginPeek, AwaitDirectory, CallDirectly
<1>12. CASE PostOwn  BY <1>1, <1>12 DEF PostOwn
<1>13. CASE ReceivePosted
  <2>1. CASE gLicenseCountOk
    <3>1. PICK f : Enters(f)  BY <1>13, <2>1, Dispatched DEF ReceivePosted
    <3> QED  BY <1>2, <1>13, <3>1 DEF ReceivePosted
  <2>2. CASE ~gLicenseCountOk  BY <1>1, <1>13, <2>2 DEF ReceivePosted
  <2> QED  BY <2>1, <2>2
<1>14. ASSUME NEW w \in Workers, ReceiveSent(w) PROVE UNCHANGED itemVars /\ ItemsKept
  <2>1. CASE gLicenseCountOk
    <3>1. PICK f : Enters(f)  BY <1>14, <2>1, Dispatched DEF ReceiveSent
    <3> QED  BY <1>2, <1>14, <3>1 DEF ReceiveSent
  <2>2. CASE ~gLicenseCountOk  BY <1>1, <1>14, <2>2 DEF ReceiveSent
  <2> QED  BY <2>1, <2>2
<1>15. ASSUME NEW w \in Workers,
              \/ \E synchronous \in BOOLEAN : Call(w, synchronous)
              \/ Send(w) \/ BeginFlush(w) \/ EndFlush(w) \/ LockDirectory(w)
              \/ UnlockDirectory(w)
       PROVE  UNCHANGED itemVars /\ ItemsKept
  BY <1>1, <1>15 DEF Call, Send, BeginFlush, EndFlush, LockDirectory, UnlockDirectory
<1> QED
  BY <1>6, <1>7, <1>8, <1>9, <1>10, <1>11, <1>12, <1>13, <1>14, <1>15
  DEF Elsewhere, UiCode, Message

LEMMA ItemNumbers ==
  ASSUME ItemsType
  PROVE  /\ Items \subseteq Nat
         /\ pendingWork \in Seq(Nat) /\ batch \in Seq(Nat) /\ ran \in Seq(Nat)
         /\ Elements(pendingWork) \subseteq Items /\ Elements(batch) \subseteq Items
         /\ Elements(ran) \subseteq Items /\ lost \subseteq Items
<1>1. Items \subseteq Nat  BY DEF Items
<1> QED  BY <1>1, SeqGrows, ElementsType DEF ItemsType

LEMMA ItemsInvPush ==
  ASSUME StackInv, ItemsInv, NEW w \in Workers, NEW marker \in Markers \cup {0},
         PushItem(w, marker)
  PROVE  ItemsInv'
<1>1. ItemsType  BY DEF StackInv
<1> DEFINE m == Len(pusher) + 1
<1>2. /\ Items' = Items \cup {m} /\ \A i \in Items : i < m
      /\ \A i \in Items : markerOf'[i] = markerOf[i]
      /\ Elements(pendingWork') = Elements(pendingWork) \cup {m}
      /\ pendingWork'[1] = m
      /\ \A k \in DOMAIN pendingWork' : k # 1 =>
           k - 1 \in DOMAIN pendingWork /\ pendingWork'[k] = pendingWork[k - 1]
  BY ItemPushed
<1>3. pendingWork' \in Seq(Items')  BY ItemPushed DEF ItemsType
<1>4. UNCHANGED <<batch, ran, throttled, abandoned, lost, stack>>  BY DEF PushItem
<1> HIDE DEF m
<1>5. NewestInFront'
  <2> SUFFICES ASSUME NEW j \in DOMAIN pendingWork', NEW k \in DOMAIN pendingWork', j < k
               PROVE  pendingWork'[j] > pendingWork'[k]
    BY DEF NewestInFront
  <2>1. j \in Nat /\ k \in Nat /\ 1 <= j /\ k # 1
    <3>1. DOMAIN pendingWork' = 1..Len(pendingWork')  BY <1>3
    <3>2. Len(pendingWork') \in Nat  BY <1>3
    <3> QED  BY <3>1, <3>2
  <2>2. k - 1 \in DOMAIN pendingWork /\ pendingWork'[k] = pendingWork[k - 1]
    BY <1>2, <2>1
  <2>3. CASE j = 1
    <3>1. pendingWork[k - 1] \in Items  BY <1>1, <2>2 DEF ItemsType
    <3>2. pendingWork[k - 1] < m /\ pendingWork[k - 1] \in Nat
      BY <1>1, <1>2, <3>1, ItemNumbers
    <3> QED  BY <1>2, <2>2, <2>3, <3>2 DEF m
  <2>4. CASE j # 1
    <3>1. j - 1 \in DOMAIN pendingWork /\ pendingWork'[j] = pendingWork[j - 1] /\ j - 1 < k - 1
      BY <1>2, <2>1, <2>4
    <3> QED  BY <2>2, <3>1 DEF ItemsInv, NewestInFront
  <2> QED  BY <2>3, <2>4
<1>6. GeneratorOK'  BY <1>4 DEF ItemsInv, GeneratorOK
<1>7. ItemsRunInOrder'
  <2> DEFINE taken == Elements(batch) \cup Elements(ran) \cup lost
  <2>1. /\ Elements(batch') \cup Elements(ran') \cup lost' = taken
        /\ IsIncreasing(ran' \o batch')
        /\ \A i \in lost' : abandoned' /\ batch' = <<>> /\ \A j \in Elements(ran') : i > j
    BY <1>4 DEF ItemsInv, ItemsRunInOrder
  <2>6. taken \subseteq Items  BY <1>1, ItemNumbers
  <2>7. \A i \in Elements(pendingWork), j \in taken : i > j
    BY DEF ItemsInv, ItemsRunInOrder
  <2> HIDE DEF taken
  <2>2. \A i \in Elements(pendingWork'), j \in taken : i > j
    <3>1. \A j \in taken : j < m /\ j \in Nat  BY <1>1, <1>2, <2>6, ItemNumbers
    <3>2. \A j \in taken : m > j  BY <3>1 DEF m
    <3> QED  BY <1>2, <2>7, <3>2
  <2> DEFINE before == Elements(pendingWork) \cup taken
             after == Elements(pendingWork') \cup taken
  <2>3. before \subseteq Items /\ after = before \cup {m}
    BY <1>1, <1>2, <2>6, ItemNumbers
  <2>4. \A i \in Items :
           \/ i \in before
           \/ \E j \in before : j > i /\ markerOf[j] = markerOf[i] /\ markerOf[i] # 0
    BY DEF ItemsInv, ItemsRunInOrder, taken
  <2> HIDE DEF before, after
  <2>5. \A i \in Items' :
           \/ i \in after
           \/ \E j \in after : j > i /\ markerOf'[j] = markerOf'[i] /\ markerOf'[i] # 0
    BY <1>2, <2>3, <2>4
  <2> QED  BY <2>1, <2>2, <2>5 DEF ItemsRunInOrder, before, after, taken
<1> QED  BY <1>5, <1>6, <1>7 DEF ItemsInv

\* Where the generator begins it has nothing left, unless it is throttled.
LEMMA BatchIsEmpty ==
  ASSUME StackInv, ItemsInv, At("begin"), ~throttled
  PROVE  batch = <<>> /\ RunningItems = {}
<1>1. \A k \in DOMAIN stack : stack[k].at # "item"
  <2>1. Place("begin")  BY DEF Place
  <2>2. stack[Len(stack)].at = "begin"  BY <2>1, TopOK DEF StackInv
  <2>3. \A k \in DOMAIN stack : k # Len(stack) => stack[k].at # "item"
    BY <2>1, OnlyGenerator DEF StackInv
  <2> QED  BY <2>2, <2>3
<1> QED  BY <1>1 DEF ItemsInv, GeneratorOK, RunningItems

\* The generator is not at its end while it runs.
LEMMA NothingLost ==
  ASSUME StackInv, ItemsInv, NEW at \in {"begin", "item"}, At(at)
  PROVE  ~abandoned /\ lost = {}
<1>1. Place(at)  BY DEF Place
<1>2. stack[Len(stack)].at = at /\ Len(stack) \in DOMAIN stack
  BY <1>1, TopOK DEF StackInv
<1>3. ~abandoned  BY <1>2 DEF ItemsInv, GeneratorOK
<1> QED  BY <1>3 DEF ItemsInv, ItemsRunInOrder

\* Each item of the list is taken, or a later one of its kind is.
LEMMA TakenOrReplaced ==
  ASSUME ItemsType, NewestInFront, NEW e \in Elements(pendingWork)
  PROVE  \/ e \in Elements(retrieve_all_items(pendingWork))
         \/ \E g \in Elements(retrieve_all_items(pendingWork)) :
              g > e /\ markerOf[g] = markerOf[e] /\ markerOf[e] # 0
<1> DEFINE list == pendingWork
           places == {k \in DOMAIN list : ~IsReplaced(list, k)}
<1>1. /\ list \in Seq(Items) /\ places \in SUBSET DOMAIN list
      /\ retrieve_all_items(list) = Backwards(list, places)
  BY DEF ItemsType, retrieve_all_items
<1>2. Elements(retrieve_all_items(list)) = {list[p] : p \in places}
  <2> HIDE DEF places, list
  <2> QED  BY <1>1, BackwardsFacts
<1>3. PICK k \in DOMAIN list : e = list[k]  BY DEF Elements
<1>4. CASE k \in places  BY <1>2, <1>3, <1>4
<1>5. CASE k \notin places
  <2>1. markerOf[e] # 0 /\ \E j \in 1..(k - 1) : markerOf[list[j]] = markerOf[e]
    BY <1>3, <1>5 DEF IsReplaced
  <2> DEFINE same == {j \in DOMAIN list : markerOf[list[j]] = markerOf[e]}
  <2>2. Len(list) \in Nat /\ DOMAIN list = 1..Len(list)  BY <1>1
  <2>3. same \in SUBSET (1..Len(list)) /\ same # {}  BY <1>3, <2>2
  <2>4. PICK p \in same : \A q \in same : p <= q  BY <2>2, <2>3, FirstPlace
  <2>5. p \in DOMAIN list /\ markerOf[list[p]] = markerOf[e] /\ p \in Nat
    BY <2>2, <2>4
  <2>6. p < k
    <3>1. PICK j \in 1..(k - 1) : markerOf[list[j]] = markerOf[e]  BY <2>1
    <3>2. k \in Nat /\ k <= Len(list) /\ j \in Nat /\ j < k  BY <2>2
    <3>3. j \in DOMAIN list  BY <2>2, <3>2
    <3>4. p <= j  BY <2>4, <3>1, <3>3
    <3> QED  BY <2>5, <3>2, <3>4
  <2>7. ~IsReplaced(list, p)
    <3> SUFFICES ASSUME NEW j \in 1..(p - 1), markerOf[list[j]] = markerOf[list[p]]
                 PROVE  FALSE
      BY DEF IsReplaced
    <3>1. j \in DOMAIN list /\ ~(p <= j)  BY <2>2, <2>5
    <3>2. j \in same  BY <2>5, <3>1
    <3> QED  BY <2>4, <3>1, <3>2
  <2>8. list[p] > list[k]  BY <2>5, <2>6 DEF NewestInFront
  <2> QED  BY <1>2, <1>3, <2>1, <2>5, <2>7, <2>8
<1> QED  BY <1>4, <1>5

\* The items the generator goes on with follow those that ran.
LEMMA ItemsToRun ==
  ASSUME StackInv, ItemsInv, TakeItems \/ ContinueItems \/ EndItem,
         NEW items \in Seq(Items), Generates(items)
  PROVE  /\ IsIncreasing(ran \o items) /\ throttled' = FALSE
         /\ Elements(items) \subseteq Unstarted
         /\ \/ items = batch /\ pendingWork' = pendingWork
            \/ /\ items = retrieve_all_items(pendingWork) /\ pendingWork' = <<>>
               /\ batch = <<>> /\ At("begin")
<1>1. ItemsType  BY DEF StackInv
<1>2. CASE (ContinueItems \/ EndItem) /\ items = batch
  <2>1. throttled' = FALSE
    <3>1. CASE EndItem
      <4>1. Place("item")  BY DEF Place
      <4>2. At("item") /\ throttled' = throttled  BY <3>1 DEF EndItem
      <4>3. stack[Len(stack)].at = "item" /\ Len(stack) \in DOMAIN stack
        BY <4>1, <4>2, TopOK DEF StackInv
      <4> QED  BY <1>1, <4>2, <4>3 DEF ItemsInv, GeneratorOK, ItemsType
    <3>2. CASE ContinueItems  BY <3>2 DEF ContinueItems
    <3> QED  BY <1>2, <3>1, <3>2
  <2>2. pendingWork' = pendingWork  BY <1>2 DEF ContinueItems, EndItem
  <2> QED  BY <1>2, <2>1, <2>2 DEF ItemsInv, ItemsRunInOrder, Unstarted
<1>3. CASE TakeItems /\ items = retrieve_all_items(pendingWork)
  <2>1. At("begin") /\ ~throttled /\ pendingWork' = <<>> /\ throttled' = throttled
    BY <1>3 DEF TakeItems
  <2>2. batch = <<>>  BY <2>1, BatchIsEmpty
  <2>3. Elements(items) \subseteq Elements(pendingWork)  BY <1>1, <1>3, ItemsRetrieved
  <2>4. IsIncreasing(items)
    <3> DEFINE places == {k \in DOMAIN pendingWork : ~IsReplaced(pendingWork, k)}
    <3>1. /\ pendingWork \in Seq(Items) /\ places \in SUBSET DOMAIN pendingWork
          /\ items = Backwards(pendingWork, places)
      BY <1>1, <1>3 DEF ItemsType, retrieve_all_items
    <3> HIDE DEF places
    <3>2. \A i, j \in DOMAIN items : i < j =>
            \E p, q \in places :
              q < p /\ items[i] = pendingWork[p] /\ items[j] = pendingWork[q]
      BY <3>1, BackwardsFacts
    <3> SUFFICES ASSUME NEW i \in DOMAIN items, NEW j \in DOMAIN items, i < j
                 PROVE  items[i] < items[j]
      BY DEF IsIncreasing
    <3>3. PICK p, q \in places :
            q < p /\ items[i] = pendingWork[p] /\ items[j] = pendingWork[q]
      BY <3>2
    <3>4. p \in DOMAIN pendingWork /\ q \in DOMAIN pendingWork  BY <3>1
    <3>5. pendingWork[q] > pendingWork[p]  BY <3>3, <3>4 DEF ItemsInv, NewestInFront
    <3>6. pendingWork[q] \in Nat /\ pendingWork[p] \in Nat  BY <1>1, <3>4, ItemNumbers
    <3> QED  BY <3>3, <3>5, <3>6
  <2>5. IsIncreasing(ran \o items)
    <3>1. ran \in Seq(Nat) /\ items \in Seq(Nat)  BY <1>1, ItemNumbers, SeqGrows
    <3>2. IsIncreasing(ran)
      BY <2>2, <3>1, ConcatEmpty DEF ItemsInv, ItemsRunInOrder
    <3>3. \A d \in Elements(ran), e \in Elements(items) : e > d
      BY <2>3 DEF ItemsInv, ItemsRunInOrder
    <3>4. \A d \in Elements(ran), e \in Elements(items) : d < e
      BY <3>1, <3>3, ElementsType
    <3> QED  BY <2>4, <3>1, <3>2, <3>4, IncreasingConcat
  <2>6. throttled' = FALSE  BY <1>1, <2>1 DEF ItemsType
  <2> QED  BY <1>3, <2>1, <2>2, <2>3, <2>5, <2>6 DEF Unstarted
<1> QED  BY <1>2, <1>3 DEF Generates

LEMMA GeneratorUnchanged ==
  ASSUME TakeItems \/ ContinueItems \/ EndItem \/ StayThrottled \/ EndItemThrottled
  PROVE  /\ UNCHANGED <<taskVars, markerOf, pusher, abandoned, lost, early, refused, pc,
                        callTask, no_trottling, envVars>>
         /\ \E at \in {"begin", "item"} : At(at)
  BY DEF TakeItems, ContinueItems, EndItem, StayThrottled, EndItemThrottled

\* What has run and what is left, after the generator has gone on.
LEMMA ItemsMoved ==
  ASSUME StackInv, ItemsInv, TakeItems \/ ContinueItems \/ EndItem,
         NEW items \in Seq(Items), Generates(items)
  PROVE  /\ ran' \o batch' = ran \o items
         /\ Elements(ran') \cup Elements(batch') = Elements(ran) \cup Elements(items)
         /\ batch' # <<>> => \E k \in DOMAIN stack' : stack'[k].at = "item"
         /\ Elements(batch') \cup RunningItems' \subseteq Elements(items)
<1>1. /\ StackOK /\ ItemsType /\ UNCHANGED <<pc, asked, pusher>> /\ NextOf(items)
  BY GeneratorUnchanged DEF StackInv, Generates
<1>2. PICK at \in {"begin", "item"} : At(at)  BY GeneratorUnchanged
<1>3. /\ \A k \in DOMAIN stack : k # Len(stack) => k \in DOMAIN stack' /\ stack'[k] = stack[k]
      /\ \A k \in DOMAIN stack' : k \in DOMAIN stack
      /\ Len(stack) \in DOMAIN stack' /\ stack'[Len(stack)].at = "item" => items # <<>>
      /\ items # <<>> =>
           /\ Len(stack) \in DOMAIN stack' /\ stack'[Len(stack)].at = "item"
           /\ stack'[Len(stack)].cur = Head(items) /\ batch' = Tail(items)
           /\ ran' = Append(ran, Head(items))
      /\ items = <<>> => batch' = <<>> /\ ran' = ran
  BY <1>1, <1>2, NextOfFrames
<1>4. ran \in Seq(Items)  BY <1>1 DEF ItemsType
<1>5. ran' \o batch' = ran \o items
  <2>1. CASE items = <<>>  BY <1>3, <2>1
  <2>2. CASE items # <<>>
    <3>1. Append(ran, Head(items)) \o Tail(items) = ran \o items
      BY <1>4, <2>2, ConcatShift
    <3> QED  BY <1>3, <2>2, <3>1
  <2> QED  BY <2>1, <2>2
<1>6. Elements(ran') \cup Elements(batch') = Elements(ran) \cup Elements(items)
  <2>1. CASE items = <<>>  BY <1>3, <2>1
  <2>2. CASE items # <<>>
    <3>1. Elements(Append(ran, Head(items))) \cup Elements(Tail(items))
            = Elements(ran) \cup Elements(items)
      BY <1>4, <2>2, ConcatShift
    <3> QED  BY <1>3, <2>2, <3>1
  <2> QED  BY <2>1, <2>2
<1>7. \A k \in DOMAIN stack : k # Len(stack) => stack[k].at # "item"
  <2>1. Place(at)  BY DEF Place
  <2> QED  BY <1>1, <1>2, <2>1, OnlyGenerator
<1>8. \A k \in DOMAIN stack' : stack'[k].at = "item" => k = Len(stack) /\ items # <<>>
  BY <1>3, <1>7
<1>9. RunningItems' \subseteq (IF items = <<>> THEN {} ELSE {Head(items)})
  BY <1>3, <1>8 DEF RunningItems
<1>10. Elements(batch') \cup RunningItems' \subseteq Elements(items)
  <2>1. CASE items = <<>>  BY <1>3, <1>9, <2>1
  <2>2. CASE items # <<>>
    <3>1. Elements(items) = Elements(Tail(items)) \cup {Head(items)}  BY <2>2, Beheaded
    <3> QED  BY <1>3, <1>9, <2>2, <3>1
  <2> QED  BY <2>1, <2>2
<1> QED  BY <1>3, <1>5, <1>6, <1>10

LEMMA ItemsInvGenerator ==
  ASSUME StackInv, ItemsInv, TakeItems \/ ContinueItems \/ EndItem PROVE ItemsInv'
<1>1. ItemsType  BY DEF StackInv
<1>2. PICK items \in Seq(Items) : Generates(items)  BY <1>1, Generating
<1>3. /\ IsIncreasing(ran \o items) /\ throttled' = FALSE
      /\ \/ items = batch /\ pendingWork' = pendingWork
         \/ items = retrieve_all_items(pendingWork) /\ pendingWork' = <<>> /\ batch = <<>>
  BY <1>2, ItemsToRun
<1>4. /\ ran' \o batch' = ran \o items
      /\ Elements(ran') \cup Elements(batch') = Elements(ran) \cup Elements(items)
      /\ batch' # <<>> => \E k \in DOMAIN stack' : stack'[k].at = "item"
  BY <1>2, ItemsMoved
<1>5. markerOf' = markerOf /\ Items' = Items  BY GeneratorUnchanged DEF Items
<1>9. ~abandoned /\ ~abandoned' /\ lost = {} /\ lost' = {}
  <2>1. PICK at \in {"begin", "item"} : At(at)  BY GeneratorUnchanged
  <2> QED  BY <2>1, NothingLost, GeneratorUnchanged
<1>6. NewestInFront'
  BY <1>3 DEF ItemsInv, NewestInFront
<1>7. GeneratorOK'  BY <1>3, <1>4, <1>9 DEF GeneratorOK
<1>8. ItemsRunInOrder'
  <2>1. IsIncreasing(ran' \o batch')  BY <1>3, <1>4
  <2>2. CASE items = batch /\ pendingWork' = pendingWork
    <3>1. Elements(ran') \cup Elements(batch') = Elements(ran) \cup Elements(batch)
      BY <1>4, <2>2
    <3> QED  BY <1>5, <1>9, <2>1, <2>2, <3>1 DEF ItemsInv, ItemsRunInOrder
  <2>3. CASE items = retrieve_all_items(pendingWork) /\ pendingWork' = <<>> /\ batch = <<>>
    <3> DEFINE before == Elements(pendingWork) \cup Elements(ran)
               after == Elements(ran) \cup Elements(items)
    <3>1. Elements(pendingWork') \cup Elements(batch') \cup Elements(ran') = after
      BY <1>4, <2>3, ElementsEmpty
    <3>2. \A i \in Items :
             \/ i \in before
             \/ \E j \in before : j > i /\ markerOf[j] = markerOf[i] /\ markerOf[i] # 0
      BY <1>9, <2>3, ElementsEmpty DEF ItemsInv, ItemsRunInOrder
    <3>3. \A j \in before :
             \/ j \in after
             \/ \E g \in after : g > j /\ markerOf[g] = markerOf[j] /\ markerOf[j] # 0
      BY <1>1, <2>3, TakenOrReplaced DEF ItemsInv
    <3>4. before \subseteq Nat /\ after \subseteq Nat /\ Items \subseteq Nat
      BY <1>1, <1>2, ItemNumbers, ElementsType
    <3> HIDE DEF before, after
    <3>5. \A i \in Items :
             \/ i \in after
             \/ \E j \in after : j > i /\ markerOf[j] = markerOf[i] /\ markerOf[i] # 0
      <4> SUFFICES ASSUME NEW i \in Items, i \notin after
                   PROVE  \E j \in after :
                            j > i /\ markerOf[j] = markerOf[i] /\ markerOf[i] # 0
        OBVIOUS
      <4>1. CASE i \in before  BY <3>3, <4>1
      <4>2. ASSUME NEW j \in before, j > i, markerOf[j] = markerOf[i], markerOf[i] # 0
            PROVE  \E g \in after : g > i /\ markerOf[g] = markerOf[i] /\ markerOf[i] # 0
        <5>1. CASE j \in after  BY <4>2, <5>1
        <5>2. ASSUME NEW g \in after, g > j, markerOf[g] = markerOf[j]
              PROVE  g > i /\ markerOf[g] = markerOf[i]
          <6>1. g \in Nat /\ j \in Nat /\ i \in Nat  BY <3>4
          <6> QED  BY <4>2, <5>2, <6>1
        <5> QED  BY <3>3, <4>2, <5>1, <5>2
      <4> QED  BY <3>2, <4>1, <4>2
    <3>6. Elements(pendingWork') = {}  BY <2>3, ElementsEmpty
    <3> QED  BY <1>5, <1>9, <2>1, <3>1, <3>5, <3>6 DEF ItemsRunInOrder
  <2> QED  BY <1>3, <2>2, <2>3
<1> QED  BY <1>6, <1>7, <1>8 DEF ItemsInv

\* No item runs any more when the generator is left in the loop.
LEMMA YieldedItems ==
  ASSUME StackInv, StayThrottled \/ EndItemThrottled
  PROVE  \A k \in DOMAIN stack' : stack'[k].at # "item"
<1>1. StackOK /\ UNCHANGED <<pc, asked, pusher>> /\ Yield
  BY DEF StackInv, StayThrottled, EndItemThrottled
<1>2. PICK at \in {"begin", "item"} : At(at)  BY GeneratorUnchanged
<1>3. \A k \in DOMAIN stack : k # Len(stack) => stack[k].at # "item"
  <2>1. Place(at)  BY DEF Place
  <2> QED  BY <1>1, <1>2, <2>1, OnlyGenerator
<1>4. /\ \A k \in DOMAIN stack : k # Len(stack) => stack'[k] = stack[k]
      /\ \A k \in DOMAIN stack' : k \in DOMAIN stack
      /\ Len(stack) \in DOMAIN stack' => stack'[Len(stack)].at = "exec"
  BY <1>1, <1>2, YieldFrames
<1> QED  BY <1>3, <1>4

LEMMA ItemsInvThrottled ==
  ASSUME StackInv, ItemsInv, StayThrottled \/ EndItemThrottled PROVE ItemsInv'
<1>1. throttled' /\ UNCHANGED <<batch, pendingWork, ran>>
  BY DEF StayThrottled, EndItemThrottled
<1>2. markerOf' = markerOf /\ Items' = Items  BY GeneratorUnchanged DEF Items
<1>5. ~abandoned /\ ~abandoned' /\ lost = {} /\ lost' = {}
  <2>1. PICK at \in {"begin", "item"} : At(at)  BY GeneratorUnchanged
  <2> QED  BY <2>1, NothingLost, GeneratorUnchanged
<1>3. NewestInFront' /\ ItemsRunInOrder'
  BY <1>1, <1>2, <1>5 DEF ItemsInv, NewestInFront, ItemsRunInOrder
<1>4. GeneratorOK'  BY <1>1, <1>5, YieldedItems DEF GeneratorOK
<1> QED  BY <1>3, <1>4 DEF ItemsInv

\* The generator's frame is the only one that runs items.
LEMMA ThrownFrames ==
  ASSUME StackInv, ItemThrows
  PROVE  /\ \A k \in DOMAIN stack' : k \in DOMAIN stack /\ k # Len(stack)
                                   /\ stack'[k] = stack[k]
         /\ \A k \in DOMAIN stack' : stack'[k].at \notin {"begin", "item"}
         /\ Len(stack) \in DOMAIN stack /\ stack[Len(stack)] = Top
<1>1. At("item") /\ Leave  BY DEF ItemThrows
<1>2. Place("item")  BY DEF Place
<1>3. stack # <<>>  BY Thrown
<1>4. \A k \in DOMAIN stack : k # Len(stack) => stack[k].at \notin {"begin", "item"}
  BY <1>1, <1>2, OnlyGenerator DEF StackInv
<1>5. /\ \A k \in DOMAIN stack' : k \in DOMAIN stack /\ k # Len(stack)
                                /\ stack'[k] = stack[k]
      /\ Len(stack) \in DOMAIN stack /\ stack[Len(stack)] = Top
  BY <1>1, <1>3, LeaveFrames DEF StackInv
<1> QED  BY <1>4, <1>5

\* What an item that throws takes with it comes after all that ran.
LEMMA ItemsInvThrows ==
  ASSUME StackInv, ItemsInv, ItemThrows PROVE ItemsInv'
<1>1. /\ abandoned' = TRUE /\ lost' = lost \cup Elements(batch) /\ batch' = <<>>
      /\ UNCHANGED <<markerOf, pusher, pendingWork, throttled, ran>> /\ At("item")
  BY DEF ItemThrows
<1>2. lost = {} /\ ItemsType  BY <1>1, NothingLost DEF StackInv
<1>3. NewestInFront'  BY <1>1 DEF ItemsInv, NewestInFront
<1>4. GeneratorOK'  BY <1>1, ThrownFrames DEF GeneratorOK
<1>5. ItemsRunInOrder'
  <2>1. ran \in Seq(Nat) /\ batch \in Seq(Nat)  BY <1>2, ItemNumbers
  <2>2. IsIncreasing(ran) /\ \A d \in Elements(ran), e \in Elements(batch) : d < e
    BY <2>1, IncreasingParts DEF ItemsInv, ItemsRunInOrder
  <2>3. IsIncreasing(ran' \o batch')  BY <1>1, <2>1, <2>2, ConcatEmpty
  <2>4. \A i \in lost', j \in Elements(ran') : i > j
    BY <1>1, <1>2, <2>1, <2>2, ElementsType
  <2>5. Elements(batch') \cup Elements(ran') \cup lost'
          = Elements(batch) \cup Elements(ran) \cup lost
    BY <1>1, ElementsEmpty
  <2>6. Items' = Items  BY <1>1 DEF Items
  <2> QED  BY <1>1, <2>3, <2>4, <2>5, <2>6 DEF ItemsInv, ItemsRunInOrder
<1> QED  BY <1>3, <1>4, <1>5 DEF ItemsInv

LEMMA ItemsInvInit == Init => ItemsInv
<1> SUFFICES ASSUME Init PROVE ItemsInv  OBVIOUS
<1>1. /\ pendingWork = <<>> /\ batch = <<>> /\ ran = <<>> /\ Items = {} /\ stack = <<>>
      /\ throttled = FALSE /\ abandoned = FALSE /\ lost = {}
  BY DEF Init, Items
<1>2. ran \o batch = <<>>  BY <1>1, ConcatEmpty
<1> QED
  BY <1>1, <1>2, IncreasingEmpty, ElementsEmpty
  DEF ItemsInv, NewestInFront, GeneratorOK, ItemsRunInOrder

LEMMA ItemsInvStep == ASSUME StackInv, ItemsInv, [Next]_vars PROVE ItemsInv'
<1>1. CASE Elsewhere  BY <1>1, ElsewhereItems, ItemsInvKept
<1>2. CASE TakeItems \/ ContinueItems \/ EndItem  BY <1>2, ItemsInvGenerator
<1>3. CASE StayThrottled \/ EndItemThrottled  BY <1>3, ItemsInvThrottled
<1>4. ASSUME NEW w \in Workers, NEW marker \in Markers \cup {0}, PushItem(w, marker)
      PROVE  ItemsInv'
  BY <1>4, ItemsInvPush
<1> QED  BY <1>1, <1>2, <1>3, <1>4, ItemsInvThrows, StepCases

-----------------------------------------------------------------------------
(* What a flush has behind it stays behind it.                             *)

LEMMA ProgressKept ==
  ASSUME NEW w, NEW place, Progress(w, place), pusher' = pusher,
         Elements(pendingWork') \subseteq Elements(pendingWork),
         Unstarted' \cup RunningItems' \subseteq Unstarted \cup RunningItems
  PROVE  Progress(w, place)'
<1>1. \A items : NoneOf(w, items)' <=> NoneOf(w, items)  BY DEF NoneOf
<1>2. place = "item" => \A i \in Elements(pendingWork') : pusher'[i] # w
  BY DEF Progress, NoneOf
<1>3. place \in {"exec", "batch", "task", "flushed"} =>
        \A i \in Unstarted' \cup RunningItems' : pusher'[i] # w
  BY DEF Progress, NoneOf
<1> QED  BY <1>2, <1>3 DEF Progress, NoneOf

Behind == {"exec", "batch", "task"}

\* Who has been answered, and whose frames are behind the items, were so before,
\* or the answer came from such a frame.
FlushesMove ==
  /\ \A w \in Workers : Awaits(w)' /\ pc'[w] = "flushed" =>
       /\ Awaits(w)
       /\ \/ pc[w] = "flushed"
          \/ \E k \in DOMAIN stack : stack[k].to = w /\ stack[k].at \in Behind
  /\ \A w \in Workers, k \in DOMAIN stack' :
       Awaits(w)' /\ stack'[k].to = w /\ stack'[k].at \in Behind \cup {"item"} =>
         /\ Awaits(w)
         /\ \E j \in DOMAIN stack :
              /\ stack[j].to = w
              /\ \/ stack[j].at = stack'[k].at
                 \/ stack[j].at \in Behind /\ stack'[k].at \in Behind

LEMMA ProgressBehind ==
  ASSUME NEW w, NEW place \in Behind, NEW other \in Behind \cup {"flushed"},
         Progress(w, place)
  PROVE  Progress(w, other)
  BY DEF Progress, Behind

LEMMA ProgressElse ==
  ASSUME NEW w, NEW place, place \notin Behind \cup {"item", "flushed"}
  PROVE  Progress(w, place)
  BY DEF Progress, Behind

LEMMA FlushInvKept ==
  ASSUME StackInv', FlushInv, UNCHANGED itemVars, ItemsKept, FlushesMove PROVE FlushInv'
<1>1. RunningItems' \subseteq RunningItems  BY DEF RunningItems, ItemsKept
<1>2. /\ pusher' = pusher /\ Elements(pendingWork') \subseteq Elements(pendingWork)
      /\ Unstarted' \cup RunningItems' \subseteq Unstarted \cup RunningItems
  BY <1>1 DEF Unstarted
<1> SUFFICES ASSUME NEW w \in Workers, Awaits(w)' PROVE FlushOK(w)'
  BY DEF FlushInv
<1>3. Progress(w, pc[w])'
  <2>1. PICK place : place = pc'[w]  OBVIOUS
  <2>2. CASE place = "flushed"
    <3>1. Awaits(w)  BY <2>1, <2>2 DEF FlushesMove
    <3>2. CASE pc[w] = "flushed"
      <4>1. Progress(w, place)  BY <2>2, <3>1, <3>2 DEF FlushInv, FlushOK
      <4>2. Progress(w, place)'  BY <1>2, <4>1, ProgressKept
      <4> QED  BY <2>1, <4>2 DEF Progress
    <3>3. ASSUME NEW k \in DOMAIN stack, stack[k].to = w, stack[k].at \in Behind
          PROVE  Progress(w, pc[w])'
      <4>1. PICK at \in Behind : at = stack[k].at  BY <3>3
      <4>2. Progress(w, at)  BY <3>1, <3>3, <4>1 DEF FlushInv, FlushOK
      <4>3. Progress(w, place)  BY <2>2, <4>2, ProgressBehind
      <4>4. Progress(w, place)'  BY <1>2, <4>3, ProgressKept
      <4> QED  BY <2>1, <4>4 DEF Progress
    <3> QED  BY <2>1, <2>2, <3>2, <3>3 DEF FlushesMove
  <2>3. CASE place # "flushed"
    <3>1. place \in WorkerStates  BY <2>1 DEF StackInv, CallInv, CallsType
    <3> QED  BY <2>1, <2>3, <3>1 DEF Progress, WorkerStates
  <2> QED  BY <2>2, <2>3
<1>4. ASSUME NEW k \in DOMAIN stack', stack'[k].to = w PROVE Progress(w, stack[k].at)'
  <2>1. PICK place : place = stack'[k].at  OBVIOUS
  <2>2. CASE place \in Behind \cup {"item"}
    <3>1. PICK j \in DOMAIN stack :
            /\ stack[j].to = w
            /\ stack[j].at = place \/ (stack[j].at \in Behind /\ place \in Behind)
      BY <1>4, <2>1, <2>2 DEF FlushesMove
    <3>2. Awaits(w)  BY <1>4, <2>1, <2>2 DEF FlushesMove
    <3>3. PICK at : at = stack[j].at  OBVIOUS
    <3>4. Progress(w, at)  BY <3>1, <3>2, <3>3 DEF FlushInv, FlushOK
    <3>5. Progress(w, place)
      <4>1. CASE at = place  BY <3>4, <4>1
      <4>2. CASE at \in Behind /\ place \in Behind  BY <3>4, <4>2, ProgressBehind
      <4> QED  BY <3>1, <3>3, <4>1, <4>2
    <3>6. Progress(w, place)'  BY <1>2, <3>5, ProgressKept
    <3> QED  BY <2>1, <3>6 DEF Progress
  <2>3. CASE place \notin Behind \cup {"item"}
    <3>1. place # "flushed"
      <4>1. stack'[k] \in Frames  BY DEF StackInv, StackOK
      <4> QED  BY <2>1, <4>1 DEF Frames
    <3> QED  BY <2>1, <2>3, <3>1 DEF Progress, Behind
  <2> QED  BY <2>2, <2>3
<1> QED  BY <1>3, <1>4 DEF FlushOK

LEMMA FrameHandled ==
  ASSUME StackInv, NEW k \in DOMAIN stack, stack[k].to # Nobody
  PROVE  stack[k].to \in Workers /\ pc[stack[k].to] = "handled"
  BY AnswersWorkers DEF StackInv, StackOK, HandledOnce

\* Steps of one worker, whose message is not being handled.
LEMMA FlushesMoveWorker ==
  ASSUME StackInv, UNCHANGED stack, NEW v \in Workers \cup {Nobody},
         v \in Workers => pc[v] # "handled" /\ (pc'[v] = "flushed" => ~Awaits(v)'),
         \A w \in Workers : w # v =>
           pc'[w] = pc[w] /\ callTask'[w] = callTask[w] /\ missed'[w] = missed[w]
  PROVE  FlushesMove
<1>1. \A k \in DOMAIN stack : stack[k].to \in Workers => stack[k].to # v
  BY FrameHandled, WorkAssumption
<1>2. \A w \in Workers : w # v => (Awaits(w)' <=> Awaits(w))  BY DEF Awaits
<1> QED  BY <1>1, <1>2 DEF FlushesMove

LEMMA FlushesMoveEnter ==
  ASSUME StackInv, NEW f, Enters(f), UNCHANGED callTask,
         \A w \in Workers : missed[w] => missed'[w],
         \A w \in Workers : pc'[w] = "flushed" => pc[w] = "flushed",
         f.at = "exec" /\ f.to # Nobody => ~Awaits(f.to)'
  PROVE  FlushesMove
<1>1. /\ \A k \in DOMAIN stack : k \in DOMAIN stack' /\ Alike(stack'[k], stack[k])
      /\ \A k \in DOMAIN stack' : k \in DOMAIN stack \/ stack'[k] = f
  BY EnterFrames DEF StackInv, Enters
<1>2. \A w \in Workers : Awaits(w)' => Awaits(w)  BY DEF Awaits
<1>3. \A w \in Workers, k \in DOMAIN stack' :
        Awaits(w)' /\ stack'[k].to = w /\ stack'[k].at \in Behind \cup {"item"} =>
          k \in DOMAIN stack
  BY <1>1, WorkAssumption DEF Enters, Behind
<1> QED  BY <1>1, <1>2, <1>3 DEF FlushesMove, Alike

LEMMA FlushesMoveBecome ==
  ASSUME StackInv, stack # <<>>, NEW f \in Frames, Become(f), f.to = Top.to,
         UNCHANGED <<pc, callTask, missed>>,
         f.to # Nobody => Top.at \in Behind /\ f.at \in Behind
  PROVE  FlushesMove
<1>1. /\ DOMAIN stack' = DOMAIN stack /\ stack'[Len(stack)] = f
      /\ Len(stack) \in DOMAIN stack /\ Top = stack[Len(stack)]
      /\ \A k \in DOMAIN stack : k # Len(stack) => stack'[k] = stack[k]
  BY BecomeFrames DEF StackInv
<1>2. \A w \in Workers : Awaits(w)' <=> Awaits(w)  BY DEF Awaits
<1> QED  BY <1>1, <1>2, WorkAssumption DEF FlushesMove

LEMMA FlushesMoveLeave ==
  ASSUME StackInv, stack # <<>>, Leave, UNCHANGED missed,
         \A w \in Workers : w # Top.to => pc'[w] = pc[w] /\ callTask'[w] = callTask[w],
         Top.to # Nobody =>
           /\ Top.at \in Behind
           /\ pc'[Top.to] = "flushed" => callTask[Top.to] = 0
  PROVE  FlushesMove
<1>1. /\ \A k \in DOMAIN stack' : k \in DOMAIN stack /\ k # Len(stack) /\ stack'[k] = stack[k]
      /\ Top = stack[Len(stack)] /\ Len(stack) \in DOMAIN stack
  BY LeaveFrames DEF StackInv
<1>2. PICK to : to = Top.to  OBVIOUS
<1>3. \A w \in Workers : w # to => (Awaits(w)' <=> Awaits(w))  BY <1>2 DEF Awaits
<1>4. \A k \in DOMAIN stack' : stack'[k].to \in Workers => stack'[k].to # to
  BY <1>1, <1>2, WorkAssumption DEF StackInv, StackOK, HandledOnce
<1>5. \A w \in Workers, k \in DOMAIN stack' :
        Awaits(w)' /\ stack'[k].to = w /\ stack'[k].at \in Behind \cup {"item"} =>
          Awaits(w) /\ k \in DOMAIN stack /\ stack[k] = stack'[k]
  BY <1>1, <1>3, <1>4
<1>6. \A w \in Workers : Awaits(w)' /\ pc'[w] = "flushed" =>
        /\ Awaits(w)
        /\ \/ pc[w] = "flushed"
           \/ \E k \in DOMAIN stack : stack[k].to = w /\ stack[k].at \in Behind
  <2> SUFFICES ASSUME NEW w \in Workers, Awaits(w)', pc'[w] = "flushed"
               PROVE  /\ Awaits(w)
                      /\ \/ pc[w] = "flushed"
                         \/ \E k \in DOMAIN stack : stack[k].to = w /\ stack[k].at \in Behind
    OBVIOUS
  <2>1. CASE w = to
    <3>1. Awaits(w)  BY <1>2, <2>1, WorkAssumption DEF Awaits
    <3> QED  BY <1>1, <1>2, <2>1, <3>1, WorkAssumption
  <2>2. CASE w # to  BY <1>2, <1>3, <2>2
  <2> QED  BY <2>1, <2>2
<1> QED  BY <1>5, <1>6 DEF FlushesMove

LEMMA ElsewhereFlushes ==
  ASSUME StackInv, StackInv', Elsewhere PROVE FlushesMove
<1>1. missed \in [Workers -> BOOLEAN] /\ pc \in [Workers -> WorkerStates] /\ asked \in Nat
  BY Numbers DEF StackInv, CallInv, CallsType
<1>2. CASE UNCHANGED <<stack, pc, callTask, missed>>
  BY <1>2, FlushesMoveWorker, WorkAssumption
<1>3. CASE UNCHANGED vars \/ LicenseInitComplete \/ LicenseViolation \/ PostOwn
  BY <1>2, <1>3 DEF vars, LicenseInitComplete, LicenseViolation, PostOwn
<1>4. CASE (RunUiThreadTasks /\ Busy) \/ EndBatch
  <2>1. PICK pending \in BOOLEAN : Replies(pending)  BY <1>4, Replying
  <2>2. /\ \A v \in Workers : v # Top.to => pc'[v] = pc[v] /\ callTask'[v] = callTask[v]
        /\ Top.to # Nobody => (callTask[Top.to] # 0 => pc'[Top.to] \in {"send", "idle"})
    BY <2>1, Replied
  <2>3. /\ stack # <<>> /\ Leave /\ UNCHANGED missed /\ Top.at \in Behind
    BY <2>1 DEF Replies, Behind
  <2> QED  BY <2>2, <2>3, FlushesMoveLeave
<1>5. CASE (RunUiThreadTasks /\ ~Busy) \/ RunUnchecked
  <2>1. UNCHANGED <<pc, callTask, missed>>  BY <1>5, Taking
  <2>2. PICK f : Takes(f)  BY <1>5, Taking
  <2>3. PICK at \in {"exec", "direct"} : At(at)  BY <1>5, Taking
  <2>4. stack # <<>> /\ FrameOK(Top) /\ Top.at = at
    <3>1. Place(at)  BY DEF Place
    <3> QED  BY <2>3, <3>1, TopOK DEF StackInv
  <2>5. f.to # Nobody => Top.at \in Behind /\ f.at \in Behind
    BY <2>2, <2>4 DEF Takes, FrameOK, Behind
  <2> QED  BY <2>1, <2>2, <2>4, <2>5, FlushesMoveBecome DEF Takes
<1>6. CASE BeginTask \/ EndTask
  <2>1. PICK f : RunsTask(f)  BY <1>6, RunningTask
  <2>2. PICK at \in {"batch", "task"} : At(at)  BY <1>6 DEF BeginTask, EndTask
  <2>3. stack # <<>> /\ Top.at = at  BY <2>2, TopPlace
  <2>4. /\ f \in Frames /\ Become(f) /\ f.to = Top.to /\ f.at \in Behind /\ Top.at \in Behind
    BY <2>1, <2>3 DEF RunsTask, Behind
  <2>5. UNCHANGED <<pc, callTask, missed>>  BY <1>6 DEF BeginTask, EndTask
  <2> QED  BY <2>3, <2>4, <2>5, FlushesMoveBecome
<1>7. CASE EndPeek \/ SynchronousFileParse
  <2>1. PICK at \in {"peek", "lock"} : At(at)  BY <1>7 DEF EndPeek, SynchronousFileParse
  <2>2. stack # <<>> /\ Top.to = Nobody
    <3>1. Place(at)  BY DEF Place
    <3> QED  BY <2>1, <3>1, TopOK DEF StackInv, FrameOK
  <2>3. Leave /\ UNCHANGED <<pc, callTask, missed>>
    BY <1>7 DEF EndPeek, SynchronousFileParse
  <2> QED  BY <2>2, <2>3, FlushesMoveLeave
<1>8. CASE ReceiveOther \/ GetSettings \/ BeginPeek \/ AwaitDirectory \/ CallDirectly
  <2>1. PICK f : Enters(f) /\ f.to = Nobody  BY <1>8, Entering
  <2>2. UNCHANGED <<pc, callTask, missed>>
    BY <1>8 DEF ReceiveOther, GetSettings, BeginPeek, AwaitDirectory, CallDirectly
  <2> QED  BY <2>1, <2>2, FlushesMoveEnter
<1>9. CASE ReceivePosted
  <2>1. CASE gLicenseCountOk
    <3>1. Dispatch(Nobody) /\ UNCHANGED <<pc, callTask>>
      BY <1>9, <2>1 DEF ReceivePosted
    <3>2. \A w \in Workers : missed[w] => missed'[w]  BY <3>1, Dispatched
    <3>3. PICK f : Enters(f) /\ f.to = Nobody  BY <3>1, Dispatched
    <3> QED  BY <3>1, <3>2, <3>3, FlushesMoveEnter
  <2>2. CASE ~gLicenseCountOk  BY <1>2, <1>9, <2>2 DEF ReceivePosted
  <2> QED  BY <2>1, <2>2
<1>10. ASSUME NEW w \in Workers, ReceiveSent(w) PROVE FlushesMove
  <2>1. CASE gLicenseCountOk
    <3>1. Dispatch(w) /\ UNCHANGED callTask /\ pc' = [pc EXCEPT ![w] = "handled"]
      BY <1>10, <2>1 DEF ReceiveSent, Goto
    <3>2. \A v \in Workers : missed[v] => missed'[v]  BY <3>1, Dispatched
    <3>3. PICK f : /\ Enters(f) /\ f.to = w
                   /\ f.at = "exec" /\ w # Nobody /\ callTask[w] = 0 => missed'[w]
      BY <3>1, Dispatched
    <3>4. \A v \in Workers : pc'[v] = "flushed" => pc[v] = "flushed"  BY <1>1, <3>1
    <3>5. f.at = "exec" /\ f.to # Nobody => ~Awaits(f.to)'
      BY <3>1, <3>3, WorkAssumption DEF Awaits
    <3> QED  BY <3>1, <3>2, <3>3, <3>4, <3>5, FlushesMoveEnter
  <2>2. CASE ~gLicenseCountOk
    <3>1. /\ Answer(w, FALSE) /\ Miss(w) /\ UNCHANGED <<stack, asked, no_trottling>>
          /\ pc[w] = "sent"
      BY <1>10, <2>2 DEF ReceiveSent
    <3>2. /\ missed' \in [Workers -> BOOLEAN]
          /\ \A v \in Workers : missed'[v] = (missed[v] \/ (v = w /\ callTask[v] = 0))
      BY <1>1, <3>1, MissType
    <3>3. /\ \A v \in Workers : v # w => pc'[v] = pc[v] /\ callTask'[v] = callTask[v]
          /\ callTask[w] # 0 => pc'[w] \in {"send", "idle"}
      BY <1>1, <3>1, <3>2, Answered DEF StackInv
    <3>4. pc'[w] = "flushed" => ~Awaits(w)'  BY <3>2, <3>3 DEF Awaits
    <3>5. \A v \in Workers : v # w => missed'[v] = missed[v]  BY <1>1, <3>2
    <3> QED  BY <3>1, <3>3, <3>4, <3>5, FlushesMoveWorker
  <2> QED  BY <2>1, <2>2
<1>11. ASSUME NEW w \in Workers,
              \/ \E synchronous \in BOOLEAN : Call(w, synchronous)
              \/ Send(w) \/ BeginFlush(w) \/ EndFlush(w)
       PROVE  FlushesMove
  <2>1. /\ UNCHANGED stack /\ pc[w] # "handled" /\ pc'[w] # "flushed"
        /\ \A v \in Workers : v # w =>
             pc'[v] = pc[v] /\ callTask'[v] = callTask[v] /\ missed'[v] = missed[v]
    BY <1>1, <1>11 DEF Call, Free, Send, BeginFlush, EndFlush, Goto, StackInv, CallInv,
                       CallsType
  <2> QED  BY <2>1, FlushesMoveWorker
<1>12. ASSUME NEW w \in Workers, LockDirectory(w) \/ UnlockDirectory(w) PROVE FlushesMove
  BY <1>2, <1>12 DEF LockDirectory, UnlockDirectory
<1> QED
  BY <1>3, <1>4, <1>5, <1>6, <1>7, <1>8, <1>9, <1>10, <1>11, <1>12
  DEF Elsewhere, UiCode, Message

LEMMA FlushInvPush ==
  ASSUME StackInv, FlushInv, NEW v \in Workers, NEW marker \in Markers \cup {0},
         PushItem(v, marker)
  PROVE  FlushInv'
<1> DEFINE m == Len(pusher) + 1
<1>1. /\ \A i \in Items : pusher'[i] = pusher[i]
      /\ pusher'[m] = v
      /\ Elements(pendingWork') = Elements(pendingWork) \cup {m}
  BY ItemPushed
<1> HIDE DEF m
<1>2. /\ UNCHANGED <<batch, stack, callTask, missed>> /\ pc[v] \in {"idle", "pushed"}
      /\ pc' = [pc EXCEPT ![v] = "pushed"] /\ pc \in [Workers -> WorkerStates]
  BY Numbers DEF PushItem, Free, Goto
<1>3. Elements(pendingWork) \subseteq Items /\ Unstarted \cup RunningItems \subseteq Items
  <2>1. RunningItems \subseteq Items
    BY DEF RunningItems, StackInv, StackOK, FramesOK, FrameOK
  <2> QED  BY <2>1, ItemNumbers DEF StackInv, Unstarted
<1>4. Unstarted' \cup RunningItems' = Unstarted \cup RunningItems \cup {m}
  BY <1>1, <1>2 DEF Unstarted, RunningItems
<1>5. ASSUME NEW w \in Workers, w # v, NEW place, Progress(w, place)
      PROVE  Progress(w, place)'
  <2>1. place = "item" => \A i \in Elements(pendingWork') : pusher'[i] # w
    BY <1>1, <1>3, <1>5 DEF Progress, NoneOf
  <2>2. place \in {"exec", "batch", "task", "flushed"} =>
          \A i \in Unstarted' \cup RunningItems' : pusher'[i] # w
    BY <1>1, <1>3, <1>4, <1>5 DEF Progress, NoneOf
  <2> QED  BY <2>1, <2>2 DEF Progress, NoneOf
<1> SUFFICES ASSUME NEW w \in Workers, Awaits(w)' PROVE FlushOK(w)'
  BY DEF FlushInv
<1>6. Awaits(w)  BY <1>2 DEF Awaits
<1>7. CASE w = v
  <2>1. Progress(w, pc[w])'  BY <1>2, <1>7 DEF Progress
  <2>2. \A k \in DOMAIN stack' : stack'[k].to # w
    BY <1>2, <1>7, FrameHandled, WorkAssumption
  <2> QED  BY <2>1, <2>2 DEF FlushOK
<1>8. CASE w # v
  <2>1. Progress(w, pc[w])'
    <3>1. PICK place : place = pc[w] /\ place = pc'[w]  BY <1>2, <1>8
    <3>2. Progress(w, place)  BY <1>6, <3>1 DEF FlushInv, FlushOK
    <3>3. Progress(w, place)'  BY <1>5, <1>8, <3>2
    <3> QED  BY <3>1, <3>3 DEF Progress
  <2>2. ASSUME NEW k \in DOMAIN stack', stack'[k].to = w
        PROVE  Progress(w, stack[k].at)'
    <3>1. PICK place : place = stack[k].at /\ place = stack'[k].at  BY <1>2
    <3>2. Progress(w, place)  BY <1>2, <1>6, <2>2, <3>1 DEF FlushInv, FlushOK
    <3>3. Progress(w, place)'  BY <1>5, <1>8, <3>2
    <3> QED  BY <3>1, <3>3 DEF Progress
  <2> QED  BY <2>1, <2>2 DEF FlushOK
<1> QED  BY <1>7, <1>8

\* The generator only takes items away from what a flush waits for; only its own
\* frame has to be looked at.
LEMMA FlushInvFromTop ==
  ASSUME StackInv, FlushInv, UNCHANGED <<pc, callTask, pusher>>, NEW n,
         Elements(pendingWork') \subseteq Elements(pendingWork),
         Unstarted' \cup RunningItems' \subseteq Unstarted \cup RunningItems,
         \A w \in Workers : missed[w] => missed'[w],
         \A k \in DOMAIN stack' : k \in DOMAIN stack /\ (k # n => stack'[k] = stack[k]),
         \A w \in Workers : Awaits(w)' /\ Awaits(w) /\ FlushOK(w)
             /\ n \in DOMAIN stack' /\ stack'[n].to = w => Progress(w, stack[n].at)'
  PROVE  FlushInv'
<1> SUFFICES ASSUME NEW w \in Workers, Awaits(w)' PROVE FlushOK(w)'
  BY DEF FlushInv
<1>1. Awaits(w) /\ FlushOK(w)  BY DEF Awaits, FlushInv
<1>2. Progress(w, pc[w])'
  <2>1. PICK place : place = pc[w] /\ place = pc'[w]  OBVIOUS
  <2>2. Progress(w, place)  BY <1>1, <2>1 DEF FlushOK
  <2>3. Progress(w, place)'  BY <2>2, ProgressKept
  <2> QED  BY <2>1, <2>3 DEF Progress
<1>3. ASSUME NEW k \in DOMAIN stack', stack'[k].to = w PROVE Progress(w, stack[k].at)'
  <2>1. CASE k # n
    <3>1. PICK place : place = stack[k].at /\ place = stack'[k].at  BY <2>1
    <3>2. Progress(w, place)  BY <1>1, <1>3, <2>1, <3>1 DEF FlushOK
    <3>3. Progress(w, place)'  BY <3>2, ProgressKept
    <3> QED  BY <3>1, <3>3 DEF Progress
  <2>2. CASE k = n  BY <1>1, <1>3, <2>2
  <2> QED  BY <2>1, <2>2
<1> QED  BY <1>2, <1>3 DEF FlushOK

LEMMA FlushInvGenerator ==
  ASSUME StackInv, ItemsInv, FlushInv, TakeItems \/ ContinueItems \/ EndItem
  PROVE  FlushInv'
<1>1. /\ StackOK /\ ItemsType /\ UNCHANGED <<pc, asked, pusher, callTask>>
  BY GeneratorUnchanged DEF StackInv
<1>2. PICK items \in Seq(Items) : Generates(items)  BY <1>1, Generating
<1>3. /\ Elements(items) \subseteq Unstarted
      /\ \/ items = batch /\ pendingWork' = pendingWork
         \/ /\ items = retrieve_all_items(pendingWork) /\ pendingWork' = <<>>
            /\ batch = <<>> /\ At("begin")
  BY <1>2, ItemsToRun
<1>4. Elements(batch') \cup RunningItems' \subseteq Elements(items)
  BY <1>2, ItemsMoved
<1>5. /\ Elements(pendingWork') \subseteq Elements(pendingWork)
      /\ Unstarted' \cup RunningItems' \subseteq Unstarted \cup RunningItems
  BY <1>3, <1>4, ElementsEmpty DEF Unstarted
<1>6. missed \in [Workers -> BOOLEAN]  BY DEF StackInv, CallInv, CallsType
<1>7. PICK n : n = Len(stack)  OBVIOUS
<1>8. PICK to : to = Top.to  OBVIOUS
<1>9. PICK at \in {"begin", "item"} : At(at)  BY GeneratorUnchanged
<1>10. stack[n].at = at /\ stack[n].to = to /\ n \in DOMAIN stack
  <2>1. Place(at)  BY DEF Place
  <2> QED  BY <1>1, <1>7, <1>8, <1>9, <2>1, TopOK
<1>11. /\ \A k \in DOMAIN stack' : k \in DOMAIN stack /\ (k # n => stack'[k] = stack[k])
       /\ n \in DOMAIN stack' =>
            /\ stack'[n].at \in {"exec", "item"} /\ stack'[n].to = to
            /\ stack'[n].at = "exec" => items = <<>>
  BY <1>1, <1>2, <1>7, <1>8, <1>9, NextOfFrames DEF Generates
<1>12. \A w \in Workers : missed[w] => missed'[w]
  <2>1. missed' = missed \/ Miss(to)
    BY <1>8 DEF TakeItems, ContinueItems, EndItem, MissIfThrottled
  <2> QED  BY <1>6, <2>1, MissType
<1>13. ASSUME NEW w \in Workers, Awaits(w)', Awaits(w), FlushOK(w), n \in DOMAIN stack',
              stack'[n].to = w
       PROVE  Progress(w, stack[n].at)'
  <2>1. to = w /\ stack[n].to = w  BY <1>10, <1>11, <1>13
  <2>2. stack'[n].at \in {"exec", "item"} /\ (stack'[n].at = "exec" => items = <<>>)
    BY <1>11, <1>13
  <2>3. stack'[n].at = "exec" => Unstarted' \cup RunningItems' \subseteq Elements(pendingWork')
    BY <1>4, <2>2, ElementsEmpty DEF Unstarted
  <2>4. \A i \in Elements(pendingWork') : pusher'[i] # w
    <3>1. CASE TakeItems
      BY <3>1, ElementsEmpty DEF TakeItems
    <3>2. CASE EndItem
      <4>1. At("item")  BY <3>2 DEF EndItem
      <4>2. Top = stack[n]  BY <1>7, <4>1, TopFrame DEF StackOK, At, Top, Frame
      <4>3. Progress(w, "item")
        BY <1>10, <1>13, <2>1, <4>1, <4>2 DEF FlushOK, At
      <4> QED  BY <1>1, <3>2, <4>3 DEF Progress, NoneOf, EndItem
    <3>3. CASE ContinueItems
      \* Its flush is missed.
      <4>1. Miss(to)  BY <1>8, <3>3 DEF ContinueItems, MissIfThrottled
      <4>2. missed'[w]  BY <1>6, <1>13, <2>1, <4>1, MissType DEF Awaits
      <4> QED  BY <1>13, <4>2 DEF Awaits
    <3> QED  BY <3>1, <3>2, <3>3
  <2>5. stack'[n].at # "item" => \A i \in Unstarted' \cup RunningItems' : pusher'[i] # w
    BY <2>2, <2>3, <2>4
  <2> QED  BY <2>2, <2>4, <2>5 DEF Progress, NoneOf
<1> QED  BY <1>1, <1>5, <1>11, <1>12, <1>13, FlushInvFromTop

LEMMA FlushInvThrottled ==
  ASSUME StackInv, FlushInv, StayThrottled PROVE FlushInv'
<1>1. /\ StackOK /\ UNCHANGED <<pc, asked, pusher, callTask, batch, pendingWork>>
      /\ Yield /\ At("begin")
  BY DEF StackInv, StayThrottled
<1>2. RunningItems' = {}  BY YieldedItems DEF RunningItems
<1>3. Elements(pendingWork') \subseteq Elements(pendingWork)
      /\ Unstarted' \cup RunningItems' \subseteq Unstarted \cup RunningItems
  BY <1>1, <1>2 DEF Unstarted
<1>4. missed \in [Workers -> BOOLEAN]  BY DEF StackInv, CallInv, CallsType
<1>5. PICK n : n = Len(stack)  OBVIOUS
<1>6. PICK to : to = Top.to  OBVIOUS
<1>7. \A w \in Workers : missed'[w] = (missed[w] \/ (w = to /\ callTask[w] = 0))
  <2>1. Miss(to)  BY <1>6 DEF StayThrottled, MissIfThrottled
  <2> QED  BY <1>4, <2>1, MissType
<1>8. \A k \in DOMAIN stack' : k \in DOMAIN stack /\ (k # n => stack'[k] = stack[k])
  BY <1>1, <1>5, YieldFrames
<1>9. n \in DOMAIN stack' => stack'[n].to = to
  BY <1>1, <1>5, <1>6, YieldFrames
<1>10. \A w \in Workers : Awaits(w)' /\ n \in DOMAIN stack' /\ stack'[n].to = w => FALSE
  BY <1>1, <1>7, <1>9 DEF Awaits
<1> QED  BY <1>1, <1>3, <1>7, <1>8, <1>10, FlushInvFromTop

\* Nothing is throttled while somebody flushes.
LEMMA FlushInvEndItemThrottled ==
  ASSUME StackInv, StackInv', FlushInv, EndItemThrottled PROVE FlushInv'
<1>1. no_trottling = 0 /\ no_trottling' = 0 /\ UNCHANGED <<pc, callTask>>
  BY DEF EndItemThrottled
<1>2. \A w \in Workers : ~Flushing(w)
  BY <1>1, NobodyFlushes DEF StackInv, CallInv
<1> SUFFICES ASSUME NEW w \in Workers, Awaits(w)' PROVE FlushOK(w)'
  BY DEF FlushInv
<1>3. pc'[w] \notin {"handled", "flushed"}
  BY <1>1, <1>2 DEF Flushing, Awaits
<1>4. pc'[w] \in WorkerStates  BY DEF StackInv, CallInv, CallsType
<1>5. Progress(w, pc[w])'  BY <1>3, <1>4 DEF Progress, WorkerStates
<1>6. \A k \in DOMAIN stack' : stack'[k].to # w
  BY <1>3, WorkAssumption DEF StackInv, StackOK, HandledOnce
<1> QED  BY <1>5, <1>6 DEF FlushOK

\* The flush whose items threw has nothing left of them; the others only lose.
LEMMA FlushInvThrows ==
  ASSUME StackInv, StackInv', FlushInv, ItemThrows PROVE FlushInv'
<1>1. PICK to : to = Top.to  OBVIOUS
<1>2. /\ \A v \in Workers : v # to => pc'[v] = pc[v] /\ callTask'[v] = callTask[v]
      /\ to # Nobody =>
           /\ callTask[to] = 0 => pc'[to] = "flushed"
           /\ callTask[to] # 0 => pc'[to] \in {"send", "idle"}
      /\ Top.at = "item"
  BY <1>1, Thrown
<1>3. /\ \A k \in DOMAIN stack' : k \in DOMAIN stack /\ k # Len(stack)
                                /\ stack'[k] = stack[k]
      /\ Len(stack) \in DOMAIN stack /\ stack[Len(stack)] = Top
      /\ RunningItems' = {}
  BY ThrownFrames DEF RunningItems
<1>4. /\ batch' = <<>> /\ UNCHANGED <<pusher, pendingWork, missed>>  BY DEF ItemThrows
<1>5. /\ Elements(pendingWork') \subseteq Elements(pendingWork)
      /\ Unstarted' \cup RunningItems' = Elements(pendingWork)
      /\ Unstarted' \cup RunningItems' \subseteq Unstarted \cup RunningItems
  BY <1>3, <1>4, ElementsEmpty DEF Unstarted
<1> SUFFICES ASSUME NEW w \in Workers, Awaits(w)' PROVE FlushOK(w)'
  BY DEF FlushInv
<1>6. CASE w = to
  <2>1. to # Nobody  BY <1>6, WorkAssumption
  <2>2. \A k \in DOMAIN stack' : stack'[k].to # w
    BY <1>1, <1>3, <1>6, <2>1 DEF StackInv, StackOK, HandledOnce
  <2>3. CASE callTask[w] = 0
    <3>1. Awaits(w)  BY <1>4, <2>3 DEF Awaits
    <3>2. Progress(w, "item")  BY <1>1, <1>2, <1>3, <1>6, <3>1 DEF FlushInv, FlushOK
    <3>3. \A i \in Unstarted' \cup RunningItems' : pusher'[i] # w
      BY <1>4, <1>5, <3>2 DEF Progress, NoneOf
    <3>4. pc'[w] = "flushed"  BY <1>2, <1>6, <2>1, <2>3
    <3> QED  BY <2>2, <3>3, <3>4 DEF FlushOK, Progress, NoneOf
  <2>4. CASE callTask[w] # 0
    <3>1. pc'[w] \in {"send", "idle"}  BY <1>2, <1>6, <2>1, <2>4
    <3> QED  BY <2>2, <3>1 DEF FlushOK, Progress
  <2> QED  BY <2>3, <2>4
<1>7. CASE w # to
  <2>1. pc'[w] = pc[w] /\ Awaits(w)  BY <1>2, <1>4, <1>7 DEF Awaits
  <2>2. FlushOK(w)  BY <2>1 DEF FlushInv
  <2>3. Progress(w, pc[w])'
    <3>1. PICK place : place = pc[w] /\ place = pc'[w]  BY <2>1
    <3>2. Progress(w, place)'  BY <1>4, <1>5, <2>2, <3>1, ProgressKept DEF FlushOK
    <3> QED  BY <3>1, <3>2 DEF Progress
  <2>4. ASSUME NEW k \in DOMAIN stack', stack'[k].to = w PROVE Progress(w, stack[k].at)'
    <3>1. PICK place : place = stack[k].at /\ place = stack'[k].at  BY <1>3
    <3>2. Progress(w, place)  BY <1>3, <2>2, <2>4, <3>1 DEF FlushOK
    <3>3. Progress(w, place)'  BY <1>4, <1>5, <3>2, ProgressKept
    <3> QED  BY <3>1, <3>3 DEF Progress
  <2> QED  BY <2>3, <2>4 DEF FlushOK
<1> QED  BY <1>6, <1>7

LEMMA FlushInvInit == Init => FlushInv
  BY DEF Init, FlushInv, FlushOK, Progress

LEMMA FlushInvStep == ASSUME StackInv, ItemsInv, FlushInv, [Next]_vars PROVE FlushInv'
<1>1. StackInv'  BY StackInvStep
<1>2. CASE Elsewhere
  BY <1>1, <1>2, ElsewhereItems, ElsewhereFlushes, FlushInvKept
<1>3. CASE TakeItems \/ ContinueItems \/ EndItem  BY <1>3, FlushInvGenerator
<1>4. CASE StayThrottled  BY <1>4, FlushInvThrottled
<1>5. CASE EndItemThrottled  BY <1>1, <1>5, FlushInvEndItemThrottled
<1>6. ASSUME NEW w \in Workers, NEW marker \in Markers \cup {0}, PushItem(w, marker)
      PROVE  FlushInv'
  BY <1>6, FlushInvPush
<1>7. CASE ItemThrows  BY <1>1, <1>7, FlushInvThrows
<1> QED  BY <1>2, <1>3, <1>4, <1>5, <1>6, <1>7, StepCases

-----------------------------------------------------------------------------
(* The theorems.                                                           *)

LEMMA IInvInit == Init => IInv
  BY StackInvInit, TasksInvInit, ItemsInvInit, FlushInvInit DEF IInv

LEMMA IInvStep == IInv /\ [Next]_vars => IInv'
  BY StackInvStep, TasksInvStep, ItemsInvStep, FlushInvStep DEF IInv

LEMMA IInvHolds == Spec => []IInv
  BY IInvInit, IInvStep, PTL DEF Spec

\* Whatever is handed to the UI thread (SubClassWnd.cpp:1224-1621), every variable
\* keeps its type: numbers stay those of tasks and items that were handed over,
\* and the stack stays within the bound.
THEOREM Typing == Spec => []TypeOK
<1>1. IInv => TypeOK  BY StackInvTypes DEF IInv
<1> QED  BY <1>1, IInvHolds, PTL

\* RunUiThreadTasksUnchecked swaps gUiThreadTasks under the lock and runs what it
\* has taken in order, while code that it runs may hand over more, and may run
\* those: however deep that goes, each task waits in one place, in the order of
\* the calls, until it runs, once.
THEOREM TasksInOrder == Spec => []TasksWaitInOrder
<1>1. IInv => TasksWaitInOrder  BY OrderMeans DEF IInv, TasksInv
<1> QED  BY <1>1, IInvHolds, PTL

\* When RunFromMainThread comes back to a thread that waited for its task, the task
\* has run, unless the message was answered without a licence or because an item
\* threw, or the UI thread holds the task in a batch it took for a direct call of its
\* own, which it does not count in gProcessingMessagesOnUiThread.
THEOREM CallsAreDone == Spec => []ReturnedCallsAreDone
<1>1. IInv => ReturnedCallsAreDone  BY DEF IInv, TasksInv
<1> QED  BY <1>1, IInvHolds, PTL

\* Items that RunFromMainThread2 pushes on the lock-free list start in the order in
\* which they were pushed, and only a later one of the same kind can take the place
\* of one, although the list is turned round by each run of the generator, which
\* may be left in the middle of its items and re-entered.  An item that throws
\* (SubClassWnd.cpp:1585) takes the rest of its list with it, all of it later than
\* what has run, and ends the generator for good; what is still on the lock-free
\* list is later than all of that.
THEOREM ItemsInOrder == Spec => []ItemsRunInOrder
<1>1. IInv => ItemsRunInOrder  BY DEF IInv, ItemsInv
<1> QED  BY <1>1, IInvHolds, PTL

\* FlushAllPendingInMainThread leaves nothing that its caller has pushed, unless its
\* message found the generator running, throttled or at its end.
THEOREM FlushesRunOwnItems == Spec => []FlushRunsOwnItems
<1>1. IInv => FlushRunsOwnItems
  <2> SUFFICES ASSUME IInv, NEW w \in Workers, pc[w] = "flushed", ~missed[w]
               PROVE  \A i \in Unstarted \cup RunningItems : pusher[i] # w
    BY DEF FlushRunsOwnItems, Unstarted
  <2>1. callTask[w] = 0  BY DEF IInv, StackInv, CallInv, CallsOK
  <2> QED  BY <2>1 DEF IInv, FlushInv, Awaits, FlushOK, Progress, NoneOf
<1> QED  BY <1>1, IInvHolds, PTL
=============================================================================
