SPECIFICATION Spec
CONSTANTS
  o1 = o1
  o2 = o2
  Nil = Nil
  TypedNil = TypedNil
  ErrVal = ErrVal
  Dead = Dead
  Star <- OneStar
  Locals = {"o", "x"}
  Fields = {"n"}
  Slots = {"n", "*"}
  Objects = {o1, o2}
  Ifaces = {}
  Validated = {}
  Errors = {}
  Exempt = {}
  Conds <- AllConds
  Languages <- ClearedLanguages
  MaxSize = 2
  Wild = {"clausewrite"}
SYMMETRY Symmetry
INVARIANT
  PanicsReported
CHECK_DEADLOCK FALSE
