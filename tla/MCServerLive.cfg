\* Liveness on a smaller instance: two or three requests, a runtime that fails or
\* is reopened, one client of the published list, two leases.
SPECIFICATION MCSpec
CONSTANTS
  Conns = {c1, c2}
  Sessions = {s1}
  Slots = {q1, q2}
  None = None
  MaxRuntimes = 2
  MaxRevision = 0
  MaxRequests = 3
  MaxLost = 0
  Clients = {c1}
  MaxChanges = 2
  MaxFailures = 1
  Leases = {l1, l2}
  NoLease = NoLease
  MaxDisconnects = 1
PROPERTIES
  ServerSettles
  LeasesSettle
CHECK_DEADLOCK FALSE
