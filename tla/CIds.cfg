SPECIFICATION Spec
CONSTANTS
  Remote = {0, 1}
  Local = {0, 1}
  LocalData = 2
  LocalStreamData = 1
  LocalStreams = 1
  RemoteData = 2
  RemoteStreamData = 1
  RemoteStreams = 1
  IdLimit = 2
  Themes <- AllThemes
  UsedIds = {0, 1}
  MaxSent = 3
  MaxServer = 3
  MaxLost = 1
INVARIANTS IdsNotForgotten NoRetiredIdInUse LimitsNotForgotten NothingLegalRefused
CHECK_DEADLOCK FALSE
