CONSTANTS
  PACKET_MAX_SIZE = 1280
  MIN_ROOM = 128
  TAG_SIZE = 16
  CID_LENGTH = 8
  TOKEN_LENGTH = 40
  None = None
  Spaces <- MCSpaces
  Window = 4
  NumberBound = 1024
  StreamOrder <- MCStreamOrder
  Scenes <- MCScenes
  Which = {"application"}

SPECIFICATION Spec

INVARIANT EndIsDueOrSent
