-------------------------------- MODULE MCMedia --------------------------------
(* An avatar of long ago and one new upload, profile or conversation, that two *)
(* requests try to complete.                                                   *)
EXTENDS MediaLifecycle, TLC

CONSTANTS old, new

MCSymmetry == Permutations(Completion)
================================================================================
