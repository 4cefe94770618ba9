SPECIFICATION Spec
CONSTANTS
  o1 = o1
  o2 = o2
  o3 = o3
  s1 = s1
  s2 = s2
  ta = ta
  tb = tb
  Null = Null
  Object = {o1, o3}
  KeyName = {o3, s1}
  AttrName <- Attr3
  Programs <- ProgramStrongAttr
CHECK_DEADLOCK FALSE
INVARIANTS
  PurgeCompletes
