SPECIFICATION LoopSpec
CONSTANTS
  NumFuncs = 3
  NumPre = 2
  NumKinds = 7
  Args = {0, 1}
  Packages <- MixedAndChains
INVARIANTS
  TypeOK
  QuietIsClosed
  Grounded
  OneKindComplete
PROPERTIES
  KeepsPromise
  Terminates
