SPECIFICATION FairSpec
CONSTANT MinJob = 2
INVARIANTS TypeOK ExclusiveBuffers
PROPERTIES FrontHeldUntilDone ImplementsPingPangPung BuffersRecycled
