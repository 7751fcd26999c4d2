SPECIFICATION Spec
CONSTANTS
  Variables = {x, y}
  Vals = {u, w}
  Unconvertible = Unconvertible
  Actions = {"Bump"}
  Nil = Nil
  MaxTraces = 3
  MaxLen = 3
SYMMETRY Symmetry
INVARIANTS TypeOK CarriedForward CurIsLastState WellNumbered
PROPERTY HandlesOnlyGrow
