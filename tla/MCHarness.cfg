SPECIFICATION HarnessSpec
CONSTANTS
  Variables = {x, y}
  Vals = {u, w}
  Unconvertible = Unconvertible
  Goroutines = {g1, g2}
  Actions = {"Bump"}
  Nil = Nil
  MaxTraces = 3
  MaxLen = 3
  MaxChanges = 2
SYMMETRY Symmetry
INVARIANTS TraceIsHistory SnapshotsAreRealUnlessTorn SerialNeverPanics
CHECK_DEADLOCK FALSE
