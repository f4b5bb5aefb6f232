CONSTANTS
  MaxBytes = 3
  MaxSize = 3
  MaxLost = 2
  Aborts = {"reset", "stop"}
SPECIFICATION MCFairSpec
INVARIANT SenderAccounts FinishedMeansReceived
PROPERTY IsBytePipe EndIsRead ResetFinishes
CHECK_DEADLOCK FALSE
