SPECIFICATION ApprovalsSpec
CONSTANTS
  Prompts = {p1, p2, c1}
  Commands = {c1}
  Discord = {p1, c1}
  None = None
  MaxRestarts = 2
INVARIANTS ApprovalsTypeOK  DurableMirrorsMemory
PROPERTY OpenPromptEnds
CHECK_DEADLOCK FALSE
