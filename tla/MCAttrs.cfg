SPECIFICATION Spec
CONSTANTS
  o1 = o1
  o2 = o2
  o3 = o3
  s1 = s1
  s2 = s2
  ta = ta
  tb = tb
  Null = Null
  Object = {o1, o2, o3}
  KeyName = {o1, o3}
  AttrName <- AttrS3
  Programs <- ProgramsAttrs
CHECK_DEADLOCK FALSE
INVARIANTS
  TypeOK
  NoFault
  RefcountsExact
  TablesAgree
  HooksAgree
  IInv
  TablesInv
  ReferencesHold
  NothingStale
PROPERTIES
  ImplementsStore
