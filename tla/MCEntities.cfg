CONSTANTS
  User = {o, a}
  Owner = o
  Nobody = Nobody
  Chore = Chore
  x1 = x1
  Operation = {x1}
  Request = {r1, r2}
  Conv = Conv
  MaxVersion <- MCMaxVersion
SPECIFICATION Spec
SYMMETRY MCSymmetry
CHECK_DEADLOCK FALSE
INVARIANTS EntitiesWellFormed RotationOnce ErasedNotNamed
PROPERTIES ImplementsMemoryEntities
