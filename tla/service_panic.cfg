SPECIFICATION Spec
CONSTANTS
  Requests = {r1}
  Max = 1
  Wants <- PooledWants
  HasUploader = FALSE
  Outcomes = {"data", "panic"}
INVARIANT
  SurvivesPanics
