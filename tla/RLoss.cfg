SPECIFICATION RecoverySpec
CONSTANTS
  PacketSpaces = {"handshake", "application"}
  HandshakeSpace = "handshake"
  Kinds <- MCKinds
  Timer = TRUE
  MaxSent = 4
  K_PACKET_THRESHOLD = 3
INVARIANT OneFateEach ThreeBehindIsLost
CHECK_DEADLOCK FALSE
