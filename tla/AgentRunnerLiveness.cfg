CONSTANTS
  Prompts = {}
  NoPrompt = NoPrompt
  MaxOutstanding = 2
  MaxQueue = 1
  MaxCmds = 2
  MaxControls = 2
SPECIFICATION FairSpec
PROPERTIES
  StopIsObeyed
  ExitIsReported
  ReadyIsNoticed
