SPECIFICATION Spec
CONSTANTS
  Vars = {"err", "err2"}
  ErrNames = {"err", "err2"}
  Stmts <- AllStmts
  Statements <- AllStatements
  MaxStmts = 4
  Wild = {}
  NoErr = NoErr
INVARIANTS
  LossesReported
  ReportsAreLosses
  UnclassifiedReported
CHECK_DEADLOCK FALSE
