SPECIFICATION Spec
CONSTANTS
  NumVar = 3
  CandidateSetSize = 1
  Formulas <- MCFormulas
  UpperLimits <- MCLimits
  Shuffles = {TRUE, FALSE}
INVARIANTS
  RowCoversStart
  CoversAllValid
PROPERTIES
  Terminates
