SPECIFICATION HSpec
CONSTANTS
  NumVar = 4
  MaxKey = 3
INVARIANTS
  IndicesExact
PROPERTIES
  ImplementsPool
