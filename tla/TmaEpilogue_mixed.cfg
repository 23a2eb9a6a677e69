SPECIFICATION Spec
CONSTANTS
  l1 = l1  l2 = l2  t1 = t1  t2 = t2
  Lanes <- TwoLanes
  leader = l1
  Threads <- TwoThreads
  issuer = t1
  Policies <- OnlyMixed
INVARIANTS SourceIsIntact
