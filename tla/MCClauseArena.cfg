\* The solver stops at a conflict without decisions, or at the bound.
CHECK_DEADLOCK FALSE
SPECIFICATION Spec
CONSTANTS
  NumVar = 4
  Formulas <- MCFormulas
  Lemmas <- MCLemmas
  MaxConflicts = 2
INVARIANTS
  RefsSound
  WastedExact
