\* Two sockets open together, each for one turn; two stages; audio on.
SPECIFICATION FairSpec
CONSTANTS
  Sockets = {1, 2}
  Words = {TRUE}
  Stages = 2
  TtsOn = TRUE
  MaxTurns = 1
  MaxChunks = 1
  MaxLost = 1
INVARIANTS
  RepliesInOrder ShownIsRecorded GoodbyeMeansComplete StageIsCurrent
PROPERTIES
  SocketsClose
CHECK_DEADLOCK FALSE
