SPECIFICATION FairSpec
CONSTANTS
  Size = 8
  MinBatch = 3
  IndexMod = 4
  FluxCounts <- MCFluxCounts
  Terms <- MCTerms
  Paces <- MCPaces
  MaxRevs = 2
INVARIANTS
  RingFifo
  FluxInOrder
  CompleteOrIndex
  IndexStop
  NoUnderrun
  StaleTail
PROPERTIES
  WriteReturns
