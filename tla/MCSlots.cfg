CONSTANTS
  w1 = w1
  w2 = w2
  a = a
  b = b
  None = None
  Workers = {w1, w2}
  Positions = {0, 1, 2}
  Names = {a, b}
  Named <- MCNamed
  Jobs <- MCJobs
  MaxCalls = 1
  MaxPlayer = 1
SPECIFICATION Spec
INVARIANTS TypeOK SavesAsPromised LevelsTheListed RecommendsOpenEmpty
CHECK_DEADLOCK FALSE
