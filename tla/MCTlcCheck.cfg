SPECIFICATION Spec
CONSTANTS
  c1 = c1
  c2 = c2
  Procs = {"p", "q"}
  Pids = {1, 2}
  Calls = {c1, c2}
  ModuleName <- MCModuleName
  AuxNames = {"Aux"}
  Aux <- MCAux
  Outcomes <- MCOutcomes
INVARIANTS DirsAreUnique JobsAreIsolated OnlyTheDeadLeave ResultIsWhatTLCSaid
CHECK_DEADLOCK FALSE
