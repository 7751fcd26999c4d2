SPECIFICATION Spec
CONSTANTS
  PodPool <- MCPodPool
  MaxReplicas = 4
  BatchCreate = FALSE
  MaxMoves = 4
INVARIANT LevelWhenIdle
PROPERTIES AnnotationsAreClaims RefinesController Settles
CHECK_DEADLOCK FALSE
