SPECIFICATION Spec
CONSTANTS
  Names <- MCNames
  Priority <- MCPriority
  Texts = {"x", "blank", "mark"}
  MaxLines = 3
  budget = 7
  largeDiffThreshold = 12
  maxResult = 7
  maxEvidence = 2
INVARIANTS
  TypeOK
  ParsedAsGitWrote
  OwnDiff
  ShownFits
  ResolvedLinesTrue
