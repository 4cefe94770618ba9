SPECIFICATION FairSpec
CONSTANTS
  a1 = a1
  a2 = a2
  a3 = a3
  c1 = c1
  c2 = c2
  Null = Null
  Action = {a1, a2, a3}
  Container = {c1, c2}
  ContainerOf <- MCContainerOf
  LateNodes = 4
CHECK_DEADLOCK FALSE
INVARIANTS
  TypeOK
  Unique
  NoHoleWhileLive
PROPERTIES
  DeleteComplete
  DeletedNeverRuns
  ImplementsBackDelete
  FreeEnds
