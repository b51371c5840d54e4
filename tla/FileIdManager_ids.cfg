CONSTANTS
  Callers = {t1, t2}
  t1 = t1  t2 = t2
  Names = {a, b, d}
  a = a  b = b  c = c  d = d
  HashOf <- Collisions
  IdCount = 8
  MaxProbes = 2
  HexBase = 2
  SaveFaults = {"kill", "full"}
  NoName = NoName  NoId = NoId
SPECIFICATION IdSpec
INVARIANTS MapsAgree GivenIdsAreStable NothingForgotten
