SPECIFICATION FairSpec
CONSTANTS
  MaxTurns = 1
  MaxUses = 2
  MaxWire = 1
  MaxDrops = 1
  MaxSelects = 2
INVARIANTS
  TypeOK
  TurnFramed
  NothingMissing
PROPERTIES
  FollowsLog
  WatchEnds
  CompletedButForLoss
CHECK_DEADLOCK FALSE
