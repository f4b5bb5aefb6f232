SPECIFICATION Spec
CONSTANTS
  Requests = {0}
  MaxPushes = 1
  Themes <- SomeThemes
  MaxCalls = 3
  MaxControl = 2
  MaxBlocks = 1
  Sizes = {0, 2}
INVARIANTS ToldAsSaid NothingHeldBack PeersAgree
CHECK_DEADLOCK FALSE
