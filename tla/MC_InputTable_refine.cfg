CONSTANTS
  k1 = k1
  k2 = k2
  k3 = k3
  v1 = v1
  v2 = v2
  Keys <- MCKeys
  Values <- MCValues
  GetHash <- DistinctHash
  IndexWidth = 16
SPECIFICATION Spec
INVARIANT TypeOK
PROPERTY ImplementsIndexMap
