CONSTANTS
  w1 = w1
  w2 = w2
  None = None
  Workers = {w1, w2}
  Platforms <- MCPlatforms
  Calls <- MCCalls
  MaxCalls <- MCMaxCalls
  MaxApp = 2
SPECIFICATION Spec
INVARIANTS TypeOK NeverTakesOver LeavesNothingBehind DirectIsDirect
CHECK_DEADLOCK FALSE
