SPECIFICATION Spec
CONSTANTS
  Clients = {c1, c2}
  Ports = {p1}
  Via = {"X-Forwarded-For", "X-Real-IP"}
  Requests <- AllRequests
  Rate = 1
  Unit = 2
  Burst = 2
  TTL = 4
  Period = 2
  MaxTime = 6
INVARIANTS
  TypeOK
  PerAddressBound
PROPERTIES
  ImplementsTokenBucket
