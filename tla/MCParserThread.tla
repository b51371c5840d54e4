--------------------------- MODULE MCParserThread ---------------------------
(* Small instances of ParserThread: the cfg picks the items, and their      *)
(* names say what they are.                                                 *)
EXTENDS ParserThread
CONSTANTS
  f1, f2,        \* two requests to parse the same file
  bn,            \* a job of below normal priority (CloseInheritanceDb)
  lo,            \* a delayed job of low priority (NuGetScan)
  save,          \* a job that must run at shutdown (SerializeFileIds)
  retry,         \* a job whose CanRunNow may answer false (RetrySolutionLoad)
  fileA

MCFileItems == Items \cap {f1, f2}
MCFileOf == [w \in MCFileItems |-> fileA]
MCFiles == {fileA}
MCPriOf ==
  [w \in Items |-> CASE w = lo -> priLow [] w = bn -> priBelowNormal [] OTHER -> priNormal]
MCAtShutdown == Items \cap {save}
\* CanRunNow of a file item is constant TRUE except in the RAD Studio build.
MCMaySkip == Items \cap {retry, lo}
MCMaySkipRadStudio == Items \cap {f1, f2}
=============================================================================
