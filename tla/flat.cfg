SPECIFICATION Spec
CONSTANTS
  o1 = o1
  o2 = o2
  Nil = Nil
  TypedNil = TypedNil
  ErrVal = ErrVal
  Dead = Dead
  Star <- OneStar
  Locals = {"o", "x", "err", "i"}
  Fields = {"n"}
  Slots = {"n", "*"}
  Objects = {o1, o2}
  Ifaces = {"i"}
  Validated = {"n"}
  Errors = {"err"}
  Exempt = {}
  Conds <- AllConds
  Languages <- FlatLanguages
  MaxSize = 2
  Wild = {}
SYMMETRY Symmetry
INVARIANTS
  TypeOK
  ProofsHold
  NamesAgree
  ErrorsVouch
  NilStatesHold
  PanicsReported
  VisibleNilsReported
  NilSafetyHolds
CHECK_DEADLOCK FALSE
