\* A second compression drops the summary of the first.
CONSTANTS
  MaxTurns = 12
  maxFinalizerReminders = 3
  deadlineNudgeTurns = 5
  keepRecentMessages = 8
  minCompressZone = 4
  keepRecent = 6
SPECIFICATION Spec
INVARIANTS
  NothingForgotten
