SPECIFICATION Spec
CONSTANTS
  Requests = {r1, r2}
  Max = 2
  Wants <- SharedWants
  HasUploader = FALSE
  Outcomes = {"data"}
INVARIANT
  LabelIsEncoding
