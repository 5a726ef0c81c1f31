SPECIFICATION Spec
CONSTANTS
  NumVar = 3
  CandidateSetSize = 1
  Formulas <- MCFormulas
  UpperLimits <- MCLimits

INVARIANTS
  ScanExact
  SolutionsMatch
  DeliversCoveringArray
PROPERTIES
  Terminates
  Refines
