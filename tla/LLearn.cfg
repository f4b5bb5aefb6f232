SPECIFICATION FairSpec
CONSTANTS
  Alphabet <- MCAlphabet
  Outputs = {0, 1}
  States = {1, 2, 3}
  Start = 1
  Machines <- MCMachines
  Flaky = 1
  StepLimit = 5
INVARIANT TableMatchesCache HypothesisIsMinimal OnlyFlakyAborts
PROPERTY Ends
CHECK_DEADLOCK FALSE
