----------------------------- MODULE MCMembership -----------------------------
(* Three interchangeable accounts; which conversations there are and which of *)
(* them are groups is up to the configuration.                                *)
EXTENDS Membership, TLC

MCSymmetry == Permutations(User)
===============================================================================
