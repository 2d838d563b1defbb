SPECIFICATION Spec
CONSTANTS
  k1 = k1
  k2 = k2
  k3 = k3
  k4 = k4
  l1 = l1
  Pointers = {k1, k2, k3, k4, l1}
  KeyNum <- KeyNumbers
  HashOf <- Colliding
  Vals = {v1, v2}
  MinShift = 2
  Null = Null
INVARIANTS TypeOK ProbesEnd CountsExact LookupFinds
PROPERTY DictSpec
