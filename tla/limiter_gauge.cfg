SPECIFICATION Spec
CONSTANTS
  Requests = {r1, r2}
  Max = 2
INVARIANT
  IdleGaugeIsZero
