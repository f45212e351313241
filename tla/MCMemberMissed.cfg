CONSTANTS
  User = {u1, u2, u3}
  Conversation = {g1}
  Group = {g1}
  Nobody = Nobody
  MemberCap = 2
  Kinds = {"delete"}
SPECIFICATION Spec
CHECK_DEADLOCK FALSE
INVARIANTS EveryErasedIsRemoved
