\* A worker redials before its previous connection is found broken.
SPECIFICATION Spec
CONSTANTS
  w1 = w1  w2 = w2  c1 = c1  c2 = c2  r1 = r1  r2 = r2
  None = None
  Workers = {w1}
  Conns = {c1, c2}
  Owner <- TwiceOwner
  Proc <- TwiceOwner
  Reqs = {r1}
  Lines = 0
  WireCap = 1
  ConnOutCap = 1
  PendCap = 1
  SessOutCap = 1
  MaxBeats = 0
  Loaded = {w1}
  Gated = {}
INVARIANTS
  LiveIsListed
\* The instance has finitely many connections and requests: it really stops.
CHECK_DEADLOCK FALSE
