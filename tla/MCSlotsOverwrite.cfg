CONSTANTS
  w1 = w1
  w2 = w2
  a = a
  b = b
  None = None
  Workers = {w1, w2}
  Positions = {0, 1, 2}
  Names = {a, b}
  Named <- MCNamed
  Jobs <- MCJobs
  MaxCalls = 2
  MaxPlayer = 0
SPECIFICATION Spec
PROPERTY RefusesNamedSlots
CHECK_DEADLOCK FALSE
