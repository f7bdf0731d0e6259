\* Two clients and a queue of one report: enough for a trim, a read that is
\* answered too late, and a client that registers during a round.  Only the pump
\* need be scheduled.
CONSTANTS
  MaxClients = 2
  ReqStride = 2
  QueueCap = 1
  MaxReports = 2
  MaxCalls <- Calls3And1
SPECIFICATION FairSpec
INVARIANTS
  TypeOK
  StreamComplete
  StreamOrdered
  QueueBounded
  SlicesDisjoint
PROPERTIES
  AnswersOwnCall
  SharesOneSession
  EveryReportHandedOut
CHECK_DEADLOCK FALSE
