SPECIFICATION ReviewSpec
CONSTANTS
  NFiles = 3
  parallelFileThreshold = 2
  Concurrency = 2
  Responses <- MCResponses
  Home <- MCHome
  MaxReports = 2
  MaxNamed = 2
INVARIANT ExitMatchesReport
