SPECIFICATION Spec
CONSTANTS
  FieldOrder <- FG
  Locals = {"h", "k"}
  Decls <- AllDecls
  Packages <- AllPackages
  Wild = {}
INVARIANT
  LeftOutForAReason
PROPERTY
  StaysWired
CHECK_DEADLOCK FALSE
