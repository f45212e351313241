CONSTANTS
  old = old
  new = new
  Media = {new}
  Completion = {c1, c2}
  Nobody = Nobody
  Earlier = Nobody
  Providers = {"s3"}
  MaxPending = 1
  MaxStored = 2
  MaxPuts = 2
  MaxFaults = 2
SPECIFICATION Spec
CHECK_DEADLOCK FALSE
INVARIANTS
  Swept
