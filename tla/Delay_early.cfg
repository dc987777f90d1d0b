SPECIFICATION Spec
CONSTANTS
  Task = {t1}
  W = 5
  NumCores = 2
  Windows = {2}
  MaxPassed = 12
INVARIANT TimeoutNotEarly
