\* The life of one request with a stream of two lines, under fairness.
SPECIFICATION FairSpec
CONSTANTS
  w1 = w1  w2 = w2  c1 = c1  c2 = c2  r1 = r1  r2 = r2
  None = None
  Workers = {w1}
  Conns = {c1}
  Owner <- OneOwner
  Proc <- OneOwner
  Reqs = {r1}
  Lines = 2
  WireCap = 1
  ConnOutCap = 1
  PendCap = 2
  SessOutCap = 1
  MaxBeats = 1
  Loaded = {w1}
  Gated = {}
INVARIANTS
  TypeOK
  StreamInOrder
PROPERTIES
  
  BrokenIsClosed
  
  
\* The instance has finitely many connections and requests: it really stops.
CHECK_DEADLOCK FALSE
