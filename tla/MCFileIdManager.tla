--------------------------- MODULE MCFileIdManager --------------------------
(* In Collisions names other than d have the last hash but one and d has    *)
(* the last, so that the ids tried wrap around; in Digits the id of one    *)
(* name is the beginning of that of the others.                            *)
EXTENDS FileIdManager, TLC
CONSTANTS a, b, c, d, t1, t2
Collisions == [n \in Names |-> IF n = d THEN 7 ELSE 6]
Digits == [n \in Names |-> IF n = a THEN 2 ELSE 4]
=============================================================================
