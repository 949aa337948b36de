CONSTANTS
  t1 = t1
  t2 = t2
  b1 = b1
  b2 = b2
  B = B
  D = D
  None = None
  Threads <- TwoThreads
  Blocks <- TwoBlocks
  Types <- TwoTypes
  SizeOf <- Sizes
  Bases <- DerivedBase
  Counts <- UpToTwo
  MaxStats = 4
SPECIFICATION Spec
CHECK_DEADLOCK FALSE
SYMMETRY Sym
INVARIANTS TypeOK StatsExact
