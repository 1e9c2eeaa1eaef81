SPECIFICATION Spec
CONSTANTS
  Params <- XY
  Signatures <- AllSignatures
  Conds <- AllConds
  Statements <- AllStatements
  Stmts <- StmtsOf
  MaxLen = 3
  MaxTurns = 2
  Forms = {"plain", "methodexpr", "variadic"}
  Wild = {}
INVARIANTS
  NilResultsAnnounced
  NonNilResultsHold
  CompletionProves
  FalseMeansSet
CHECK_DEADLOCK FALSE
