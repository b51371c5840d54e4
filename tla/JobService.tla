----------------------------- MODULE JobService -----------------------------
(***************************************************************************)
(* What the parser thread promises to those who queue work: jobs are       *)
(* served one at a time; urgent ones first, and those of one priority in   *)
(* the order in which they were queued; none is lost, served twice or given *)
(* up before the service closes, and at closing only those that need not   *)
(* be done then.  Queues, locks, passes and threads are left open.         *)
(***************************************************************************)
EXTENDS Integers, Sequences

CONSTANTS
  Jobs, NoJob,
  PriOf,        \* the priority of each job
  Low, Normal,  \* priorities: below Low there is none, delayed jobs have Low
  MaySkip,      \* jobs that may be put off when their turn comes
  AtShutdown    \* jobs that must be executed before the service ends

VARIABLES
  submitted,  \* the jobs in the order in which they were queued
  current,    \* the job that is being served
  executed,
  discarded,
  closing,    \* the service takes leave: whoever asks is told that there is none
  late        \* the jobs of those who had asked before and queued afterwards

vars == <<submitted, current, executed, discarded, closing, late>>

Init ==
  /\ submitted = <<>> /\ current = NoJob
  /\ executed = {} /\ discarded = {} /\ closing = FALSE /\ late = {}

Known == {submitted[i] : i \in DOMAIN submitted}
Waiting == Known \ (executed \cup discarded \cup {current})
Precedes(v, w) ==
  \E i, j \in DOMAIN submitted : i < j /\ submitted[i] = v /\ submitted[j] = w

\* A job that was put off comes back as a normal one.
Rank(w) == IF w \in MaySkip /\ PriOf[w] \in Low + 1 .. Normal THEN Normal ELSE PriOf[w]

\* v has to be served before w.  Delayed jobs have times of their own; when the
\* service closes theirs comes last, and late jobs cannot keep them waiting.
GoesFirst(v, w) ==
  \/ PriOf[v] = PriOf[w] /\ w \notin MaySkip /\ Precedes(v, w)
  \/ PriOf[v] > Rank(w) /\ (PriOf[w] = Low => closing /\ v \notin late)

Submit(w) ==
  /\ w \notin Known
  /\ submitted' = Append(submitted, w)
  /\ late' = IF closing THEN late \cup {w} ELSE late
  /\ UNCHANGED <<current, executed, discarded, closing>>

Take(w) ==
  /\ current = NoJob /\ w \in Waiting
  /\ \A v \in Waiting \ MaySkip : ~GoesFirst(v, w)
  /\ current' = w
  /\ UNCHANGED <<submitted, executed, discarded, closing, late>>

PutOff ==
  /\ ~closing /\ current \in MaySkip
  /\ current' = NoJob
  /\ UNCHANGED <<submitted, executed, discarded, closing, late>>

Execute ==
  /\ current # NoJob /\ (closing => current \in AtShutdown)
  /\ executed' = executed \cup {current} /\ current' = NoJob
  /\ UNCHANGED <<submitted, discarded, closing, late>>

Discard ==
  /\ closing /\ current \notin AtShutdown \cup {NoJob}
  /\ discarded' = discarded \cup {current} /\ current' = NoJob
  /\ UNCHANGED <<submitted, executed, closing, late>>

Close ==
  /\ ~closing /\ current = NoJob /\ closing' = TRUE
  /\ UNCHANGED <<submitted, current, executed, discarded, late>>

\* The end: only late jobs can still be waiting.  Another service may open.
End ==
  /\ closing /\ current = NoJob /\ Waiting \subseteq late
  /\ discarded' = discarded \cup Waiting
  /\ closing' \in BOOLEAN
  /\ UNCHANGED <<submitted, current, executed, late>>

Next ==
  \/ \E w \in Jobs : Submit(w) \/ Take(w)
  \/ PutOff \/ Execute \/ Discard \/ Close \/ End

Spec == Init /\ [][Next]_vars
=============================================================================
