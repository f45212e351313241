CONSTANTS
  User = {u1, u2, u3}
  Conversation = {g1}
  Group = {g1}
  Nobody = Nobody
  MemberCap = 2
  Kinds = {"delete", "intent"}
SPECIFICATION SafetySpec
SYMMETRY MCSymmetry
CHECK_DEADLOCK FALSE
INVARIANTS MembersWellFormed OneOwner ErasedIsRemoved
PROPERTIES SharedHistoryStays
