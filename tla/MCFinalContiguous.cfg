SPECIFICATION Spec
CONSTANTS
  NumVar = 3
  CandidateSetSize = 1
  Formulas <- MCFormulas
  UpperLimits <- MCLimits

INVARIANTS
  RowsValid
  RunCovered
  ReportsFullCoverage
PROPERTIES
  Terminates
