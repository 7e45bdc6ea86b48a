\* Three questions with answers of up to three chunks.
SPECIFICATION TuiFairSpec
CONSTANTS
  MaxStreams = 3
  MaxChunks = 3
  MaxLog = 7
  ChanCap = 2
INVARIANTS
  OneListener
  ShownInOrder
  AnswerFollowsQuestion
  AnswerIsAll
PROPERTIES
  EscEnds
  KeepsDialogue
\* The instance has finitely many questions: it really stops.
CHECK_DEADLOCK FALSE
