SPECIFICATION FairSpec
CONSTANTS
  t1 = t1  t2 = t2
  Threads <- TwoThreads
  Stages = 2
  Length = 3
  NumSections = 6
INVARIANTS TypeOK OrderHolds StagesAreExclusive IInv
PROPERTIES Termination
