--------------------------- MODULE ReadersWriters ---------------------------
(***************************************************************************)
(* What the reader-writer locks of DBLock.h promise: any number of readers *)
(* or a single writer.  Both kinds of access may be nested by the thread   *)
(* that has them; how a lock makes the others wait is left open.           *)
(***************************************************************************)
EXTENDS Integers

CONSTANT Threads

VARIABLES
  reads,   \* how many read accesses each thread has
  writes   \* how many write accesses each thread has

Init == reads = [t \in Threads |-> 0] /\ writes = [t \in Threads |-> 0]

Others(t) == Threads \ {t}

BeginRead(t) ==
  /\ \A u \in Others(t) : writes[u] = 0
  /\ reads' = [reads EXCEPT ![t] = @ + 1] /\ UNCHANGED writes
EndRead(t) ==
  /\ reads[t] > 0
  /\ reads' = [reads EXCEPT ![t] = @ - 1] /\ UNCHANGED writes
BeginWrite(t) ==
  /\ \A u \in Others(t) : reads[u] = 0 /\ writes[u] = 0
  /\ writes' = [writes EXCEPT ![t] = @ + 1] /\ UNCHANGED reads
EndWrite(t) ==
  /\ writes[t] > 0
  /\ writes' = [writes EXCEPT ![t] = @ - 1] /\ UNCHANGED reads

Next == \E t \in Threads : BeginRead(t) \/ EndRead(t) \/ BeginWrite(t) \/ EndWrite(t)

Spec == Init /\ [][Next]_<<reads, writes>>
=============================================================================
