SPECIFICATION FiltsSpec
CONSTANTS
  N = 5
  Buffers = 1
INVARIANTS FiltsTypeOK OneReadyVM PacketKeepsItsVM
