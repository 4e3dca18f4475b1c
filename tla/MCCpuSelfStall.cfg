CONSTANTS
  WordBits <- MCWordBits
  CodeSize <- MCCodeSize
  ScratchSize <- MCScratchSize
  Programs <- MCPrograms
  Packets <- MCPackets
  StopAnywhere = FALSE
  Straight = 2
  Pool = {"ld3", "ldabs", "ldind", "ldmem", "ldx2", "ldxmsh", "st", "stx", "add", "subx", "jeq", "jgtx", "ja", "tax", "txa"}
  Builds = {FALSE}
  Careful = FALSE
SPECIFICATION FairSpec
PROPERTY GetsVerdict
