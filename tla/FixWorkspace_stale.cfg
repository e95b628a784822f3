\* The model edits again after its verification passed.
CONSTANTS
  File = {f1, f2}
  Content = {x, y}
  Command = {test}
  Absent = Absent
  None = None
  DiskFails = FALSE
  Meddlers = 0
  AgentCalls = 3
SPECIFICATION Spec
INVARIANTS
  ZeroMeansVerified
