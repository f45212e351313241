-------------------------------- MODULE MCPush --------------------------------
(* One message event, one recipient with a device, a second account whose   *)
(* device can take the first one's token over, two senders.                 *)
EXTENDS PushDelivery

CONSTANTS c1, u1, u2, d1, d2

MCAggregateOf == [e \in Event |-> c1]
MCMemberOf == [c \in Conversation |-> {u1}]
MCReferences == [e \in Event |-> {}]
MCOwnerOf == [d \in Device |-> IF d = d1 THEN u1 ELSE u2]
===============================================================================
