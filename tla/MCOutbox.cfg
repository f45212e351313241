CONSTANTS
  Event = {1, 2}
  c1 = c1
  c2 = c2
  u1 = u1
  u2 = u2
  Conversation = {c1, c2}
  User = {u1, u2}
  Device = {}
  Relay = {r1, r2}
  BatchSize = 2
  MaxFaults = 2
  AggregateOf <- MCAggregateOf
  MemberOf <- MCMemberOf
  References <- MCReferences
  OwnerOf <- MCOwnerOf
SPECIFICATION OutboxSpec
CHECK_DEADLOCK FALSE
INVARIANTS
  OutboxTypeOK
  ExclusivePublisher
  NothingLost
  NoPublishToErased
  PublishesOnlyPending
PROPERTIES
  ImplementsAtLeastOnce
