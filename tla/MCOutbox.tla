------------------------------- MODULE MCOutbox -------------------------------
(* Two relays, two rows.  Row 1 belongs to a conversation of two members,   *)
(* row 2 to one with a single member, which dies with its account; row 1    *)
(* names u2, so erasing u2 removes it from a conversation that survives.    *)
EXTENDS Outbox, TLC

CONSTANTS c1, c2, u1, u2

MCAggregateOf == [e \in Event |-> IF e = 1 THEN c1 ELSE c2]
MCMemberOf == (c1 :> {u1, u2}) @@ (c2 :> {u2})
MCReferences == [e \in Event |-> IF e = 1 THEN {u2} ELSE {}]
MCOwnerOf == [d \in Device |-> CHOOSE u \in User : TRUE]
===============================================================================
