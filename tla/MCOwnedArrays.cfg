SPECIFICATION ArraysSpec
CONSTANTS
  Owners = {x, y}
  Blocks = {b1, b2, b3}
  MaxCapacity = 2
  Payloads = {u, v}
  NoBlock = NoBlock
SYMMETRY ArraysSymmetry
INVARIANTS
  EveryArrayHasOneOwner
  CapacityIsReal
  FailedAssignmentChangesNothing
  CallsDoTheirWork
