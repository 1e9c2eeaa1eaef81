SPECIFICATION Spec
CONSTANTS
  o1 = o1
  o2 = o2
  Nil = Nil
  TypedNil = TypedNil
  ErrVal = ErrVal
  Star = "*"
  Locals = {"r", "v", "s"}
  Fields = {"a", "b"}
  Slots = {"a", "b"}
  Objects = {o1, o2}
  Ifaces = {}
  Validated = {}
  Conds <- GuardConds
  Recv = "r"
  Caller = "v"
  Copy = "s"
  Stmts <- MethodStmts
  MaxLen = 3
  MaxTurns = 2
  Wild = {}
SYMMETRY Symmetry
INVARIANT
  NilErrorMeansSet
PROPERTY
  SettledByNilReturn
CHECK_DEADLOCK FALSE
