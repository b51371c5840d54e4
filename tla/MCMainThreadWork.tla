-------------------------- MODULE MCMainThreadWork --------------------------
(* One worker beside the UI thread.                                      *)
EXTENDS MainThreadWork
=============================================================================
