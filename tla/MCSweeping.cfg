SPECIFICATION MCFairSpec
CONSTANTS
  o1 = o1
  o2 = o2
  o3 = o3
  s1 = s1
  ta = ta
  Null = Null
  Object = {o1, o2, o3}
  KeyName = {o3}
  AttrName <- Attr3
  Lookup <- Apart
CHECK_DEADLOCK FALSE
INVARIANTS
  TypeOK
  EntriesKept
  AttrAnswers
  OneObjectEach
PROPERTIES
  SweepsClean
