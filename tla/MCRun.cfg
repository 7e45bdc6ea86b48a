\* Three launches of a worker that installs llama.cpp, may be interrupted or
\* killed at any point and whose llama-server may exit at any point; a tick
\* counter that wraps after 4.
SPECIFICATION LifeFairSpec
CONSTANTS
  Entries = {bin, ggml, cpu}
  Binary = bin
  None = None
  Launches = 3
  Wrap = 4
  Threshold = 2
  MaxClock = 5
  Unread = Unread
INVARIANTS
  NoOrphan
  
  FoundIsComplete
PROPERTIES
  ExitEndsSession
  InterruptEnds
  AwayIsMeasured
\* The instance has finitely many launches: it really stops.
CHECK_DEADLOCK FALSE
