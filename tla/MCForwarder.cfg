SPECIFICATION FairSpec
CONSTANTS
  MinBeats = 1
  MaxBeats = 4
  JobIds = 2
  Builds = {TRUE, FALSE}
  AddrWidth = 2
  Zero = Zero
INVARIANTS TypeOK SendsThePacket KeepsJobLongEnough
PROPERTIES HoldsTheBeat JobFinishes
