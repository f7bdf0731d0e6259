\* Two spawns, a daemon started by hand, two calls of start(); nobody waits.
CONSTANTS
  p1 = p1
  p2 = p2
  hand = hand
  b1 = b1
  b2 = b2
  Ours = {p1, p2}
  Hand = {hand}
  Rude = {hand}
  Starts = {b1, b2}
  MaxRounds = 2
  None = None
SPECIFICATION FairSpec
INVARIANTS
  TypeOK
  NoOrphan
  StartingIsAtWork
PROPERTIES
  StopEnds
  StartEnds
CHECK_DEADLOCK FALSE
