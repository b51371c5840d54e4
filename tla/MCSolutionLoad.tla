--------------------------- MODULE MCSolutionLoad ---------------------------
(* Small instances of SolutionLoad. *)
EXTENDS SolutionLoad

\* The indexer failed; some projects lack files; all have files.
MCAnswers ==
  {[failed |-> TRUE, empty |-> TRUE, without |-> 0, found |-> 0],
   [failed |-> FALSE, empty |-> FALSE, without |-> 1, found |-> 0],
   [failed |-> FALSE, empty |-> FALSE, without |-> 0, found |-> 1]}
=============================================================================
