SPECIFICATION Spec
CONSTANTS
  Trees <- MCTrees
  Inputs <- MCInputs
INVARIANTS TotalsAreSums CarryFollowsTasks PanicsOnlyOnErrors
