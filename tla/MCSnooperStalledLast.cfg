SPECIFICATION FairSpec
CONSTANTS
  MinBeats = 1
  MaxBeats = 5
  PktIds = 1
  BusWires <- AnyWires
  Builds = {TRUE}
  AddrWidth = 2
  Zero = Zero
INVARIANT CopiesFromTheStart
