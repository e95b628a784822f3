\* Three tool_use blocks of any kinds, in both modes and under every policy.
CONSTANT
  N = 3
SPECIFICATION FairSpec
INVARIANTS
  TypeOK
  PairedInOrder
  SerialOrder
  TraceMatchesResults
  NoForbiddenCall
PROPERTIES
  PromptUndisturbed
  TurnCompletes
  ImplementsTurn
