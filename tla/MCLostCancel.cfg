\* A Cancel that overtakes the goroutine of its request.
SPECIFICATION Spec
CONSTANTS
  w1 = w1  w2 = w2  c1 = c1  c2 = c2  r1 = r1  r2 = r2
  None = None
  Workers = {w1}
  Conns = {c1}
  Owner <- OneOwner
  Proc <- OneOwner
  Reqs = {r1}
  Lines = 0
  WireCap = 1
  ConnOutCap = 2
  PendCap = 1
  SessOutCap = 1
  MaxBeats = 0
  Loaded = {w1}
  Gated = {}
INVARIANTS
  CancelPropagates
\* The instance has finitely many connections and requests: it really stops.
CHECK_DEADLOCK FALSE
