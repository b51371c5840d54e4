CONSTANTS
  a = a  b = b
  Editors = {a, b}
  NoEditor = NoEditor
  First = a
  Headers = {a}
  Retained = {a}
  MaxEdits = 1
  MaxFocus = 2
  MaxFailures = 1
SPECIFICATION FairSpec
\* everything has been parsed and the user does nothing
CHECK_DEADLOCK FALSE
INVARIANTS  StaleLocalsAreKnown
PROPERTY QueuedEnds
