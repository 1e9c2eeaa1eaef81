SPECIFICATION FixSpec
CONSTANTS
  KVStart = 1
  Args <- ArgsOf
  Layouts <- LayoutsOf
  Inners <- Places
  Base = 1
  Inline = Inline
PROPERTIES
  FixClears
  Converges
  PairsOnLines
CHECK_DEADLOCK FALSE
