SPECIFICATION FairSpec
CONSTANTS
  MaxCalls = 2
  MaxBlocks = 2
  RetryAfters = {0, 2, 120}
  maxAttempts = 4
  maxBackoff = 60
INVARIANT AnswerWhole
