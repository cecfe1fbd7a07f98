SPECIFICATION Spec
CONSTANTS
  Clients = {c1}
  Ports = {p1, p2}
  Via = {"direct"}
  Requests <- AllRequests
  Rate = 1
  Unit = 2
  Burst = 2
  TTL = 4
  Period = 3
  MaxTime = 3
INVARIANT
  PerAddressBound
