CONSTANTS
  A = A
  B = B
  w1 = w1
  w2 = w2
  w3 = w3
  Main = Main
  Junk = Junk
  None = None
  Objects <- TwoObjects
  Workers <- TwoWorkers
  Owner <- Flat
  MaxStarts = 2
SPECIFICATION Spec
SYMMETRY SymTwo
CHECK_DEADLOCK FALSE
INVARIANT CurrentInTask
