SPECIFICATION FairSpec
CONSTANT Problems <- MCProblems
INVARIANTS TypeOK SumsAreWhole EachTileOnce ClustersWorkTogether LocksAreCleared
PROPERTY Termination
