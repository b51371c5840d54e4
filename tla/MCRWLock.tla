------------------------------ MODULE MCRWLock ------------------------------
(* Three threads, one of them the main thread.                             *)
EXTENDS RWLock
CONSTANTS main, t1, t2
=============================================================================
