CONSTANTS
  WordBits <- MCWordBits
  CodeSize <- MCCodeSize
  ScratchSize <- MCScratchSize
  Programs <- MCPrograms
  Packets <- MCPackets
  StopAnywhere = FALSE
  Straight = 3
  Pool = {"ld3", "ldabs", "ldind", "ldmem", "ldx2", "ldxmsh", "st", "stx", "add", "subx", "jeq", "jgtx", "ja", "tax", "txa"}
  Builds = {FALSE, TRUE}
  Careful = TRUE
SPECIFICATION FairSpec
INVARIANTS TypeOK ExecutesInOrder OperandsCurrent CommittedState KeepsJobLongEnough
PROPERTY GetsVerdict
