CONSTANTS
  A = A
  B = B
  w1 = w1
  w2 = w2
  w3 = w3
  Main = Main
  Junk = Junk
  None = None
  Objects <- TwoObjects
  Workers <- ThreeWorkers
  Owner <- Nested
  MaxStarts = 2
SPECIFICATION Spec
SYMMETRY SymThree
CHECK_DEADLOCK FALSE
INVARIANTS TypeOK WorkerKnown NoUseAfterFree NoDanglingCurrent CurrentInFirstRun
