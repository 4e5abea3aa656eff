\* One socket whose client switches to text.
SPECIFICATION Spec
CONSTANTS
  Sockets = {1}
  Words = {TRUE, FALSE}
  Stages = 2
  TtsOn = FALSE
  MaxTurns = 2
  MaxChunks = 1
  MaxLost = 1
INVARIANT
  SwitchCancels
CHECK_DEADLOCK FALSE
