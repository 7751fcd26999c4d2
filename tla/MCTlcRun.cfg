SPECIFICATION FairSpec
CONSTANTS
  Scripts <- MCScripts
  PipeSize = 2
  MaxNoise = 1
  Tees = {"none", "fails"}
INVARIANTS ResultIsComplete AbortedIsNoVerdict NothingLeftBehind StatesAreAccounted LoopIsAState
PROPERTIES ReturnsOrStuck CancelReturns
CHECK_DEADLOCK FALSE
