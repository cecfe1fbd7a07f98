SPECIFICATION Spec
CONSTANTS
  Users = {u1, u2}
  Buffers = {b1, b2, b3}
  Classes = {1, 2}
  Sizes = {1, 2, 3}
  MaxCap = 3
  Data = {x}
  Nil = Nil
SYMMETRY BufferSymmetry
INVARIANTS
  TypeOK
  OneOwner
  PoolsAreClean
  CapacityAsAsked
PROPERTIES
  ImplementsPrivateBuffers
