SPECIFICATION Spec
CONSTANTS
  o1 = o1
  o2 = o2
  o3 = o3
  s1 = s1
  s2 = s2
  ta = ta
  tb = tb
  Null = Null
  Object = {o1, o2}
  KeyName = {o1, o2}
  AttrName <- NoAttr
  Programs <- ProgramStrongIndex
CHECK_DEADLOCK FALSE
INVARIANTS
  NoFault
