\* The constants of loop.go and compression.go; nine turns.
CONSTANTS
  MaxTurns = 9
  maxFinalizerReminders = 3
  deadlineNudgeTurns = 5
  keepRecentMessages = 8
  minCompressZone = 4
  keepRecent = 6
SPECIFICATION FairSpec
INVARIANTS
  RequestAccepted
  FreshResultsWhole
  HistoryIsRecent
  GivesUpFairly
PROPERTIES
  RunEnds
