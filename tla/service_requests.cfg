SPECIFICATION FairSpec
CONSTANTS
  Requests = {r1, r2}
  Max = 1
  Wants <- AllWants
  HasUploader = TRUE
  Outcomes = {"data", "error", "panic"}
INVARIANTS
  TypeOK
  OneReply
  BusyIsRetryable
  OkIsReal
  PlacesAreRequests
  HandlersBounded
PROPERTIES
  RequestsEnd
