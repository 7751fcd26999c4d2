SPECIFICATION Spec
CONSTANTS
  Infix <- InfixOps
  Prefix <- PrefixOps
  Core <- MCCore
  MaxDepth = 2
  CoreDepth = 3
  MaxChain = 3
  MaxUnits = 2
  UnitDepth = 1
INVARIANTS RoundTripsUnlessFaulty ModuleRoundTripsUnlessFaulty ParserGroupsAsTheTableSays
CHECK_DEADLOCK FALSE
