SPECIFICATION Spec
CONSTANTS
  k1 = k1
  k2 = k2
  k3 = k3
  v1 = v1
  v2 = v2
  NoKey = NoKey
  NoVal = NoVal
  Keys <- ThreeKeys
  Values <- TwoValues
  Hash <- Colliding
  InitialSize = 2
  MaxSize = 4
INVARIANTS CountRight KeysUnique
PROPERTY ImplementsMap
