SPECIFICATION FairSpec
CONSTANTS
  Kernels <- SomeKernels
  Stages = 2
  StagesC = 2
  StagesD = 2
  Subtiles = 3
INVARIANTS TypeOK MmaReadsItsTile SourceIsIntact StoresAreIntact LoadsUseTheirTensorMap
PROPERTIES Termination
