\* Others edit the tree at any time, and writes may fail half way.
CONSTANTS
  File = {f1, f2}
  Content = {x, y}
  Command = {test}
  Absent = Absent
  None = None
  DiskFails = TRUE
  Meddlers = 2
  AgentCalls = 5
SPECIFICATION Spec
SYMMETRY Symmetric
INVARIANTS
  TypeOK
  ReadStateCurrent
PROPERTIES
  OnlyRacesClobber
  AcceptedReportTrue
