SPECIFICATION CloneSpec
CONSTANTS
  o1 = o1
  o2 = o2
  o3 = o3
  s1 = s1
  s2 = s2
  ta = ta
  tb = tb
  Null = Null
  Object = {o1}
  KeyName = {}
  AttrName <- AttrS
  Programs <- ProgramWeak
CHECK_DEADLOCK FALSE
INVARIANTS
  OwnedOnce
