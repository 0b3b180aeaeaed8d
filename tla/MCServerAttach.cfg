\* Two attaches of one session, and an opener that disconnects meanwhile: is
\* the session live for the client that is attached to it?
SPECIFICATION MCSafety
CONSTANTS
  Conns = {c1, c2}
  Sessions = {s1}
  Slots = {q1, q2}
  None = None
  MaxRuntimes = 1
  MaxRevision = 0
  MaxRequests = 2
  MaxLost = 0
  Clients = {c1}
  MaxChanges = 0
  MaxFailures = 0
  Leases = {l1}
  NoLease = NoLease
  MaxDisconnects = 0
INVARIANTS
  AttachedIsLive
CHECK_DEADLOCK FALSE
