CONSTANTS
  Event = {1}
  c1 = c1
  u1 = u1
  u2 = u2
  d1 = d1
  d2 = d2
  Conversation = {c1}
  User = {u1, u2}
  Device = {d1, d2}
  Sender = {s1}
  Token = {t1}
  NoToken = NoToken
  NoSender = NoSender
  MaxAttempts = 2
  MaxFaults = 2
  Messages = {1}
  AggregateOf <- MCAggregateOf
  MemberOf <- MCMemberOf
  References <- MCReferences
  OwnerOf <- MCOwnerOf
  Relay = {r1, r2}
  BatchSize = 1
  ActorOf <- MCActorOf
  Notified <- MCNotified
SPECIFICATION PipelineSpec
CHECK_DEADLOCK FALSE
INVARIANTS
  PipelineWellFormed
  ErasureIsFinal
