SPECIFICATION LoopSpec
CONSTANTS
  NumFuncs = 2
  NumPre = 2
  NumKinds = 7
  Args = {0}
  Packages <- Delegations
INVARIANT
  Complete
