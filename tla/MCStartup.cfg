\* The process ends.
CHECK_DEADLOCK FALSE
SPECIFICATION SSpec
CONSTANTS
  NumVar = 3
  Inputs <- MCInputs
  ReducedFiles <- MCReducedFiles
  LeftoverFiles <- MCLeftoverFiles
  ArgumentLists <- MCArgumentLists
  MaxMoreRows = 1
INVARIANTS
  SavedRowsValid
  ReadersAgree
PROPERTIES
  Completes
