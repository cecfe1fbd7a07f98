SPECIFICATION FairSpec
CONSTANTS
  Requests = {r1, r2, r3}
  Max = 2
INVARIANTS
  TypeOK
  SlotsAreHeld
  ActiveIsExact
PROPERTIES
  ImplementsGate
  SlotComesBack
