SPECIFICATION Spec
CONSTANTS
  s1 = s1  s2 = s2  v1 = v1  v2 = v2  a = a  b = b  A = A
  Unassigned = Unassigned
  MaxLen = 3
  QuietChoices = {FALSE}
  InitialChoices = {{s1}}
  States <- MCStates
  Values <- MCValues
  Labels <- MCLabels
  Operators <- MCOperators
  Jobs <- MCJobs
INVARIANT ConformsMeansAllowed
