SPECIFICATION Spec
CONSTANTS
  NumVar = 4
  Instances <- MCInstances
  WeightThreshold = 2
  LargeThreshold = 1
  HscoreScale = 2
  MaxWeight = 3
INVARIANTS
  CountsExact
  StacksExact
  ScoresExact
  BreakMakeExact
  SecondScoresExact
  WeightsBalanced
  StackPromising
  ResultValid
