CONSTANTS
  Challenge = {c1, c2}
  Worker = {w1, w2}
  Holder = {h1, h2}
  Nobody = Nobody
  MaxGuesses = 1
  MaxAttempts = 2
  MaxRotations = 2
  MaxFaults = 1
SPECIFICATION Spec
SYMMETRY MCSymmetry
CHECK_DEADLOCK FALSE
INVARIANTS ChallengesWellFormed NoStaleMail OneDialogue NoSessionOfOldPassword OneRefresher
PROPERTIES ImplementsMemoryCredentials
