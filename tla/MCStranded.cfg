\* The connection is cleaned up between pickWorker and registerPending.
SPECIFICATION Spec
CONSTANTS
  w1 = w1  w2 = w2  c1 = c1  c2 = c2  r1 = r1  r2 = r2
  None = None
  Workers = {w1}
  Conns = {c1}
  Owner <- OneOwner
  Proc <- OneOwner
  Reqs = {r1}
  Lines = 0
  WireCap = 1
  ConnOutCap = 1
  PendCap = 1
  SessOutCap = 1
  MaxBeats = 0
  Loaded = {w1}
  Gated = {}
INVARIANTS
  CleanupReachesAll
\* The instance has finitely many connections and requests: it really stops.
CHECK_DEADLOCK FALSE
