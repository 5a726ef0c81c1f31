SPECIFICATION Spec
CONSTANTS
  NumVar = 4
  CandidateSetSize = 1
  Formulas <- MCFourOptions
  UpperLimits <- MCNoLimit
  Shuffles = {FALSE}
INVARIANTS
  OutputValid
