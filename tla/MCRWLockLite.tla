----------------------------- MODULE MCRWLockLite ---------------------------
(* Three threads that are alike.                                           *)
EXTENDS RWLockLite
CONSTANTS t1, t2, t3
=============================================================================
