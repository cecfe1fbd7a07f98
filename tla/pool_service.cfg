SPECIFICATION FairSpec
CONSTANTS
  Calls = {c1, c2, c3}
  Retriers = {c1}
  MaxRetries = 2
  Workers = {w1}
  Stoppers = {s1}
  Outcomes = {"data", "error"}
  NoCall = NoCall
INVARIANTS
  RefusedLeavesNothing
PROPERTIES
  ImplementsService
  CallsReturn
  AcceptedIsConverted
  StopReturns
