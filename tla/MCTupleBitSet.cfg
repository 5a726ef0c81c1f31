SPECIFICATION BSpec
CONSTANTS
  NumVar = 3
  WordBits = 5
  Obj = {o1, o2}
  Address = {a1, a2, a3}
  Null = Null
  Touched <- MCTouched
SYMMETRY AddressSymmetry
INVARIANTS
  ArraysOwned
  CountExact
PROPERTIES
  ImplementsSets
