SPECIFICATION Spec
CONSTANTS
  MaxNesting = 8
  MaxSafe = 1
  MaxExpansion = 1
  Atoms <- MCAtoms
  Partners <- MCPartners
  MaxDepth = 2
INVARIANTS EqualMeansTheSame MapOrderIsInvisible TextKeepsMeaning ITFKeepsTheBehaviour
CHECK_DEADLOCK FALSE
