CONSTANTS
  r1 = r1
  r2 = r2
  k1 = k1
  k2 = k2
  s1 = s1
  o1 = o1
  Replica = {r1, r2}
  Session = {k1, k2}
  Socket = {s1}
  Op = {o1}
  ReplicaOf <- MCReplicaOf
  SessionOf <- MCSessionOf
  Capacity = 1
  Earlier = {k2}
SPECIFICATION Spec
CHECK_DEADLOCK FALSE
INVARIANTS
  TypeOK
  RevokedSessionIsSilent
  WritesPrecedeRevocation
PROPERTIES
  RevokedSocketsClose
