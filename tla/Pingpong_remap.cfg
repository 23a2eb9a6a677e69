SPECIFICATION Spec
CONSTANTS
  Kernels <- OneGrouped
  Stages = 2
  StagesC = 2
  StagesD = 2
  Subtiles = 3
INVARIANTS StoresUseTheirTensorMap
