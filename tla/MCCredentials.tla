---------------------------- MODULE MCCredentials ----------------------------
(* Two resets of one account's password, two deliveries at a time.             *)
EXTENDS Credentials, TLC

MCSymmetry ==
    {p @@ q @@ r : p \in Permutations(Worker), q \in Permutations(Holder), r \in Permutations(Challenge)}
==============================================================================
