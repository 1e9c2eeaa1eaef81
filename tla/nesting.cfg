SPECIFICATION Spec
CONSTANTS
  o1 = o1
  o2 = o2
  Nil = Nil
  TypedNil = TypedNil
  ErrVal = ErrVal
  Dead = Dead
  Star <- OneStar
  Locals = {"o", "x", "e"}
  Fields = {"n"}
  Slots = {"n", "*"}
  Objects = {o1, o2}
  Ifaces = {}
  Validated = {"n"}
  Errors = {"e"}
  Exempt = {}
  Conds <- AllConds
  Languages <- NestingLanguages
  MaxSize = 2
  Wild = {}
SYMMETRY Symmetry
INVARIANTS
  ProofsHold
  NamesAgree
  ErrorsVouch
  NilStatesHold
  PanicsReported
CHECK_DEADLOCK FALSE
