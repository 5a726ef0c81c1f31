SPECIFICATION Spec
CONSTANTS
  NumVar = 4
  Formulas <- MCFormulas
  AssumptionLists <- MCAssumptionLists
  MaxStarts = 2
INVARIANTS
  WatchesComplete
  DatabaseEquivalent
  AnswersRight
