SPECIFICATION Spec
CONSTANTS
  FAKE_REFCOUNT = 5
  MaxRefs = 4
  MaxDepth = 3
INVARIANTS
  IInv
  CountExact
  ClearedOnce
PROPERTIES
  KeptAlive
