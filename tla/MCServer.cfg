\* Two connections and three requests on one session, a second runtime for it, a
\* lost snapshot; two clients of the published list and a failing call; three
\* leases and two lost connections.  Requests are interchangeable.
SPECIFICATION MCSafety
CONSTANTS
  Conns = {c1, c2}
  Sessions = {s1}
  Slots = {q1, q2}
  None = None
  MaxRuntimes = 2
  MaxRevision = 1
  MaxRequests = 3
  MaxLost = 1
  Clients = {c1, c2}
  MaxChanges = 2
  MaxFailures = 1
  Leases = {l1, l2, l3}
  NoLease = NoLease
  MaxDisconnects = 2
SYMMETRY SlotSymmetry
INVARIANTS
  ServerTypeOK
  RuntimesExclusive
  NothingLeftBehind
  
  
CHECK_DEADLOCK FALSE
