SPECIFICATION Spec
CONSTANTS
  Calls = {c1, c2, c3, c4, c5}
  Retriers = {}
  MaxRetries = 0
  Workers = {w1, w2}
  Stoppers = {s1, s2}
  Outcomes = {"error", "panic"}
  NoCall = NoCall
SYMMETRY FullSymmetry
INVARIANTS
  TypeOK
  NoResultLost
  WaitIsAnswerable
  OnePlace
  StopDrains
  IInv
