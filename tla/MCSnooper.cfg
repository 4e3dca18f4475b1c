SPECIFICATION FairSpec
CONSTANTS
  MinBeats = 1
  MaxBeats = 5
  PktIds = 1
  BusWires <- AnyWires
  Builds = {TRUE, FALSE}
  AddrWidth = 2
  Zero = Zero
INVARIANTS TypeOK CopiesUnlessMisled MissesNoBeat TakesEveryStart WritesOnlyWhenReady KeepsJobLongEnough
PROPERTY CopyFinishes
