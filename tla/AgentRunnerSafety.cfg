CONSTANTS
  Prompts = {p1, p2}
  NoPrompt = NoPrompt
  MaxOutstanding = 1
  MaxQueue = 1
  MaxCmds = 1
  MaxControls = 0
SPECIFICATION Spec
SYMMETRY PromptSymmetry
INVARIANTS
  AwaitingIffHeld
  RowTellsTheTruth
  ShownIffHeld
  AnsweredOnce
