SPECIFICATION FairSpec
CONSTANTS
  w1 = w1  w2 = w2
  Clusters <- RowAndColumn
  Stages = 2
  KTiles = 3
INVARIANTS TypeOK MmaReadsWholeTiles ExitedBlocksAreQuiet
PROPERTIES Termination
