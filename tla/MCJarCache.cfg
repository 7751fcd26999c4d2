SPECIFICATION JarSpec
CONSTANTS
  Procs = {p1, p2, p3}
  Versions = {v1, v2}
  Absent = Absent
  Size = 2
INVARIANTS NeverPartial TempsAreRemoved
PROPERTIES CacheIsAtomic
CHECK_DEADLOCK FALSE
