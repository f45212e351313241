----------------------------- MODULE AtLeastOnce -----------------------------
(***************************************************************************)
(* What the transactional outbox promises its writers (ARCHITECTURE.md):   *)
(* a committed event is broadcast at least once before it is acknowledged, *)
(* it is never broadcast before it is committed nor after it is settled,   *)
(* and every committed event is eventually settled: acknowledged, or       *)
(* dropped together with the conversation or the account it belongs to.    *)
(***************************************************************************)
CONSTANT Event

VARIABLES
    state,     \* [Event -> State]
    broadcast  \* events that the bus accepted at least once

vars == <<state, broadcast>>

State == {"absent", "pending", "acked", "dropped"}

Init ==
    /\ state = [e \in Event |-> "absent"]
    /\ broadcast = {}

Commit(e) ==
    /\ state[e] = "absent"
    /\ state' = [state EXCEPT ![e] = "pending"]
    /\ UNCHANGED broadcast

Broadcast(e) ==
    /\ state[e] = "pending"
    /\ broadcast' = broadcast \cup {e}
    /\ UNCHANGED state

Ack(e) ==
    /\ state[e] = "pending"
    /\ e \in broadcast
    /\ state' = [state EXCEPT ![e] = "acked"]
    /\ UNCHANGED broadcast

(* A conversation or an account takes its events, settled or not, with it. *)
Drop(S) ==
    /\ \A e \in S : state[e] \in {"pending", "acked"}
    /\ state' = [e \in Event |-> IF e \in S THEN "dropped" ELSE state[e]]
    /\ UNCHANGED broadcast

Next ==
    \/ \E e \in Event : Commit(e) \/ Broadcast(e) \/ Ack(e)
    \/ \E S \in SUBSET Event : Drop(S)

Settle(e) == Broadcast(e) \/ Ack(e)

SafetySpec == Init /\ [][Next]_vars

Spec == SafetySpec /\ \A e \in Event : WF_vars(Settle(e))
=============================================================================
