SPECIFICATION SamplingSpec
CONSTANTS
  NumVar = 3
  CandidateSetSize = 2
  Formulas <- MCFormulas
  UpperLimits <- MCLimits
INVARIANTS
  RowsValid
  CoverageExact
  CountersExact
  SampleCountsExact
  QueueFresh
  RowsContribute
  EndsExhausted
\* the phase hands over to clear_final, which this module does not model
CHECK_DEADLOCK FALSE
