-------------------------- MODULE MCEditorReparse --------------------------
(* Small instances of EditorReparse.                                       *)
EXTENDS EditorReparse

CONSTANTS a, b
=============================================================================
