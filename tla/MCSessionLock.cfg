\* A daemon in direct mode, one in bridge mode taking over, and an MCP server
\* that rides the bridge.
CONSTANTS
  d1 = d1
  d2 = d2
  m1 = m1
  Daemons = {d1, d2}
  Servers = {m1}
  Takeover = {d2}
  Direct = {d1}
  None = None
SPECIFICATION FairLockSpec
INVARIANTS
  LockTypeOK
  RecordBacked
PROPERTIES
  StaleRecordIsTaken
CHECK_DEADLOCK FALSE
