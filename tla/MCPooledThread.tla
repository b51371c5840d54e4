--------------------------- MODULE MCPooledThread ---------------------------
(* Objects named after their kinds.                                        *)
EXTENDS PooledThread
KindByName == [o \in Objs |-> o]
=============================================================================
