SPECIFICATION Spec
CONSTANTS
  MinBeats = 2
  MaxBeats = 4
  PktIds = 1
  BusWires <- BeatOrIdle
  Builds = {TRUE, FALSE}
  AddrWidth = 2
  Zero = Zero
  Data <- BeatData
  MinVerdict = 2
  CpuReads <- Reads
  PacketBeats <- Lengths
  StopWhen = "quiet"
INVARIANTS TypeOK ExclusiveBuffers SelectsAgree StoredIntact DeliversAccepted
