\* Three threads of one process, reports of two units, messages of up to
\* three reports, exact and short last chunks.
CONSTANTS
  caller = caller
  player = player
  heartbeat = heartbeat
  Threads = {caller, player, heartbeat}
  ProcessOf <- OneProcess
  ChunkMax = 2
  MessageLens <- ShortAndLong
  MaxSent = 2
  Free = Free
SPECIFICATION Spec
INVARIANTS
  TypeOK
  OnlyWholeMessages
PROPERTIES
  WrittenIsHeard
CHECK_DEADLOCK FALSE
