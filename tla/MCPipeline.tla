------------------------------ MODULE MCPipeline ------------------------------
(* One event of a two-member conversation, caused by u1; a device for each   *)
(* member, two relays and one sender.                                        *)
EXTENDS Pipeline

CONSTANTS c1, u1, u2, d1, d2

MCAggregateOf == [e \in Event |-> c1]
MCMemberOf == [c \in Conversation |-> User]
MCReferences == [e \in Event |-> {u1}]
MCOwnerOf == [d \in Device |-> IF d = d1 THEN u1 ELSE u2]
MCActorOf == [e \in Event |-> u1]
MCNotified == [e \in Event |-> User]
===============================================================================
