SPECIFICATION FairSpec
CONSTANTS
  Torn = Torn
  p1 = p1  p2 = p2  c1 = c1
  Producers <- TwoProducers
  Consumers <- OneConsumer
  Stages = 3
  NumWork = 3
  TileStart <- Work_1_4_2
  K_PIPE_MMAS = 2
INVARIANTS TypeOK MmaReadsWholeTiles WaitsAreExact EpilogueHasItsTiles TailHoldsProducers IInv
PROPERTIES ImplementsFifo Termination ImplementsFairFifo
