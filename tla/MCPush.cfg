CONSTANTS
  Event = {1}
  c1 = c1
  u1 = u1
  u2 = u2
  d1 = d1
  d2 = d2
  Conversation = {c1}
  User = {u1, u2}
  Device = {d1, d2}
  Sender = {s1, s2}
  Token = {t1, t2}
  NoToken = NoToken
  NoSender = NoSender
  MaxAttempts = 2
  MaxFaults = 3
  Messages = {1}
  AggregateOf <- MCAggregateOf
  MemberOf <- MCMemberOf
  References <- MCReferences
  OwnerOf <- MCOwnerOf
SPECIFICATION PushSpec
CHECK_DEADLOCK FALSE
INVARIANTS
  OneSender
  SendsToCurrentOwner
  TokenHasOneOwner
PROPERTIES
  DeliverySettles
  OutcomeIsFinal
  FreshTokenSurvives
