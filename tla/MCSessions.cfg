\* A worker that redials under its ID while the orchestrator may still
\* serve its previous connection, or two processes with one ID; the reaper.
SPECIFICATION Spec
CONSTANTS
  w1 = w1  w2 = w2  c1 = c1  c2 = c2  r1 = r1  r2 = r2
  None = None
  Workers = {w1}
  Conns = {c1, c2}
  Owner <- TwiceOwner
  Proc <- TwoProcs
  Reqs = {r1}
  Lines = 1
  WireCap = 1
  ConnOutCap = 1
  PendCap = 1
  SessOutCap = 1
  MaxBeats = 0
  Loaded = {w1}
  Gated = {}
SYMMETRY ConnSymmetry
INVARIANTS
  ConnsAlive
  RegistryOwned
  LostOnlyToNamesake
  EndIsComing
  AnswerIsComing
PROPERTIES
  OnlyLateStrands
\* The instance has finitely many connections and requests: it really stops.
CHECK_DEADLOCK FALSE
