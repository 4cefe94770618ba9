SPECIFICATION FairSpec
CONSTANTS
  o1 = o1
  o2 = o2
  o3 = o3
  s1 = s1
  ta = ta
  Null = Null
  Object = {o1, o2}
  KeyName = {s1}
  AttrName = {}
  Lookup <- Apart
CHECK_DEADLOCK FALSE
PROPERTIES
  Forgotten
