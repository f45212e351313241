CONSTANTS
  old = old
  new = new
  Media = {old, new}
  Completion = {c1, c2}
  Nobody = Nobody
  Earlier = old
  Providers = {"oci", "s3"}
  MaxPending = 1
  MaxStored = 2
  MaxPuts = 2
  MaxFaults = 2
SPECIFICATION Spec
CHECK_DEADLOCK FALSE
SYMMETRY MCSymmetry
INVARIANTS
  ReadyIsVerified
  MediaWellFormed
  NoOrphanObject
  OneVerifier
