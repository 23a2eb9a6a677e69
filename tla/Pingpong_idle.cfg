SPECIFICATION FairSpec
CONSTANTS
  Kernels <- OneIdle
  Stages = 2
  StagesC = 2
  StagesD = 2
  Subtiles = 3
PROPERTIES IdleBlocksEnd
CHECK_DEADLOCK FALSE
