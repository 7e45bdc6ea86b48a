\* Pulls one after the other, one of them by the command, with failures, crashes
\* and workers that fetch.
SPECIFICATION PullSpec
CONSTANTS
  v1 = v1  v2 = v2
  Sources = {v1, v2, page}
  Gguf = {v1, v2}
  Blocks = 2
  Hole = Hole
  None = None
  Pulls = {p1, p2}
  Overlap = FALSE
  Watched = {p1}
  EventCap = 1
  Fetches = {f1, f2}
SYMMETRY Symmetry
INVARIANTS
  PullTypeOK
  CatalogWhole
  CacheWhole
  LeftoverExplained
  ExitTellsOutcome
  
  BodyIsOneVersion
PROPERTIES
  PublishedIsFrozen
  ServesModels
\* The instance has finitely many pulls and launches: it really stops.
CHECK_DEADLOCK FALSE
