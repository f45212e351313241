------------------------------- MODULE Outbox -------------------------------
(***************************************************************************)
(* The realtime half of the transactional outbox: the outbox_events rows   *)
(* whose topic is not media.delete, and the relay processes whose flush    *)
(* loop claims a batch of them under a thirty-second lease and, one row    *)
(* after the other, queues the push deliveries, publishes on the bus       *)
(* inside a transaction that holds the delivery barrier and a row share    *)
(* lock, and acknowledges the row.                                         *)
(*                                                                         *)
(* Time is abstract: locked_until is "none", "held" (in the future) or     *)
(* "expired", available_at is the Boolean due.  A lease may expire under a *)
(* relay that is still working on the row (a batch of 100 rows at up to    *)
(* ten seconds each outlives it), a relay may crash at any point, and any  *)
(* database or bus call may fail; MaxFaults bounds how often.              *)
(***************************************************************************)
EXTENDS Schema

CONSTANTS
    Relay,      \* API processes, each running one flush loop
    BatchSize   \* rows per LockRealtimeOutboxBatch

ASSUME BatchAssumption == BatchSize \in Nat \ {0}

VARIABLES
    status,     \* [Event -> RowStatus]
    attempts,   \* [Event -> Nat]: outbox_events.attempts
    lock,       \* [Event -> Lock]: outbox_events.locked_until
    due,        \* [Event -> BOOLEAN]: available_at <= now()
    pc,         \* [Relay -> Stage]
    claim,      \* [Relay -> [Event -> Nat]]: item.Attempts of the rows in hand, 0 for none
    cur,        \* [Relay -> Event \cup {NoEvent}]: the row being processed
    recipients, \* [Relay -> SUBSET User]: what the last translate of cur returned
    queued,     \* events whose push deliveries have been materialised
    onBus       \* events the bus accepted at least once

rowVars == <<status, attempts, lock, due>>
relayVars == <<pc, claim, cur, recipients>>
outboxVars == <<rowVars, relayVars, queued, onBus, faults, schemaVars>>

NoEvent == 0

(* "dropped": deleted with its conversation or account; "pruned": removed  *)
(* by retention after publication.                                         *)
RowStatus == {"absent", "unpublished", "published", "pruned", "dropped"}
Lock == {"none", "held", "expired"}
Stage == {"idle", "batch", "translated", "queued", "publishing", "accepted",
          "ack", "release"}

(* Stages in which the DeliverRealtimeOutbox transaction is open: it holds  *)
(* the delivery barrier in shared mode and the row FOR SHARE.               *)
InTx == {"publishing", "accepted"}
(* Faulty variant: the row is read without FOR SHARE. *)
RowNotShared(e) == FALSE
RowShared(e) == \E r \in Relay : pc[r] \in InTx /\ cur[r] = e
BarrierShared == \E r \in Relay : pc[r] \in InTx

OutboxTypeOK ==
    /\ SchemaTypeOK
    /\ status \in [Event -> RowStatus]
    /\ attempts \in [Event -> Nat]
    /\ lock \in [Event -> Lock]
    /\ due \in [Event -> BOOLEAN]
    /\ pc \in [Relay -> Stage]
    /\ claim \in [Relay -> [Event -> Nat]]
    /\ cur \in [Relay -> Event \cup {NoEvent}]
    /\ recipients \in [Relay -> SUBSET User]
    /\ queued \subseteq Event
    /\ onBus \subseteq Event

OutboxInit ==
    /\ SchemaInit
    /\ status = [e \in Event |-> "absent"]
    /\ attempts = [e \in Event |-> 0]
    /\ lock = [e \in Event |-> "none"]
    /\ due = [e \in Event |-> FALSE]
    /\ pc = [r \in Relay |-> "idle"]
    /\ claim = [r \in Relay |-> [e \in Event |-> 0]]
    /\ cur = [r \in Relay |-> NoEvent]
    /\ recipients = [r \in Relay |-> {}]
    /\ queued = {}
    /\ onBus = {}

(***************************************************************************)
(* Writers and the clock.                                                  *)
(***************************************************************************)

(* A writer's transaction commits with its outbox row.  Identity values    *)
(* are drawn before commit, so rows may appear out of id order.            *)
Append(e) ==
    /\ status[e] = "absent"
    /\ AggregateOf[e] \in open
    /\ status' = [status EXCEPT ![e] = "unpublished"]
    /\ due' = [due EXCEPT ![e] = TRUE]
    /\ UNCHANGED <<attempts, lock, relayVars, queued, onBus, faults, schemaVars>>

BecomesDue(e) ==
    /\ status[e] = "unpublished"
    /\ ~due[e]
    /\ due' = [due EXCEPT ![e] = TRUE]
    /\ UNCHANGED <<status, attempts, lock, relayVars, queued, onBus, faults, schemaVars>>

(* Nobody is still working under the current claim of the row. *)
Abandoned(e) == \A r \in Relay : claim[r][e] # attempts[e]

(* locked_until passes.  It does so for free when the claimant is gone; a  *)
(* claimant that is overtaken by it costs a fault.                         *)
LeaseExpires(e) ==
    /\ lock[e] = "held"
    /\ lock' = [lock EXCEPT ![e] = "expired"]
    /\ \/ Abandoned(e) /\ UNCHANGED faults
       \/ ~Abandoned(e) /\ Fault
    /\ UNCHANGED <<status, attempts, due, relayVars, queued, onBus, schemaVars>>

(***************************************************************************)
(* The flush loop of a relay.                                              *)
(***************************************************************************)

(* Faulty variant: only rows never locked are claimed. *)
ClaimableOnce(e) ==
    /\ status[e] = "unpublished"
    /\ due[e]
    /\ lock[e] = "none"

Claimable(e) ==
    /\ status[e] = "unpublished"
    /\ due[e]
    /\ lock[e] \in {"none", "expired"}
    /\ ~RowShared(e)

(* ORDER BY id ... LIMIT: the lowest identifiers that can be claimed. *)
IsBatch(S) ==
    /\ S # {}
    /\ Cardinality(S) <= BatchSize
    /\ \A e \in S : Claimable(e)
    /\ \A e \in Event \ S : Claimable(e) =>
          /\ Cardinality(S) = BatchSize
          /\ \A f \in S : f < e

(* Faulty variant: attempts=attempts-1. *)
AttemptBackwards(e) == attempts[e] - 1
NextAttempt(e) == attempts[e] + 1

LockOutboxBatch(r) ==
    /\ pc[r] = "idle"
    /\ \E S \in SUBSET Event :
          /\ IsBatch(S)
          /\ attempts' = [e \in Event |-> IF e \in S THEN NextAttempt(e) ELSE attempts[e]]
          /\ lock' = [e \in Event |-> IF e \in S THEN "held" ELSE lock[e]]
          /\ claim' = [claim EXCEPT ![r] = [e \in Event |-> IF e \in S THEN NextAttempt(e) ELSE 0]]
    /\ pc' = [pc EXCEPT ![r] = "batch"]
    /\ UNCHANGED <<status, due, cur, recipients, queued, onBus, faults, schemaVars>>

Goto(r, stage) == pc' = [pc EXCEPT ![r] = stage]

(* The loop's continue: the row leaves the batch, whose order RETURNING     *)
(* does not fix, and the relay idles once the batch is empty.               *)
NextItem(r) ==
    LET rest == [claim[r] EXCEPT ![cur[r]] = 0]
    IN  /\ claim' = [claim EXCEPT ![r] = rest]
        /\ cur' = [cur EXCEPT ![r] = NoEvent]
        /\ Goto(r, IF \E e \in Event : rest[e] # 0 THEN "batch" ELSE "idle")
        /\ recipients' = [recipients EXCEPT ![r] = {}]

(* translate: decodes the payload and reads the conversation's members. *)
Translate(r, e) ==
    /\ pc[r] = "batch"
    /\ claim[r][e] # 0
    /\ cur' = [cur EXCEPT ![r] = e]
    /\ \/ /\ Goto(r, "translated")
          /\ recipients' = [recipients EXCEPT ![r] = ConversationMemberIDs(AggregateOf[e])]
          /\ UNCHANGED faults
       \/ /\ Goto(r, "release")
          /\ Fault
          /\ UNCHANGED recipients
    /\ UNCHANGED <<rowVars, claim, queued, onBus, schemaVars>>

RowExists(e) == status[e] \in {"unpublished", "published"}

EnqueuePush(r) ==
    /\ pc[r] = "translated"
    /\ Goto(r, "queued")
    /\ queued' = queued \cup {cur[r]}
    /\ UNCHANGED <<rowVars, claim, cur, recipients, onBus, faults, schemaVars>>

(* Faulty variant: the error is logged and the loop goes on to publish. *)
EnqueueErrorIgnored(r) ==
    /\ pc[r] = "translated"
    /\ Goto(r, "queued")
    /\ \/ RowExists(cur[r]) /\ Fault
       \/ ~RowExists(cur[r]) /\ UNCHANGED faults
    /\ UNCHANGED <<rowVars, claim, cur, recipients, queued, onBus, schemaVars>>

(* The insert fails, or finds the source row gone (foreign key). *)
EnqueuePushFails(r) ==
    /\ pc[r] = "translated"
    /\ Goto(r, "release")
    /\ \/ RowExists(cur[r]) /\ Fault
       \/ ~RowExists(cur[r]) /\ UNCHANGED faults
    /\ UNCHANGED <<rowVars, claim, cur, recipients, queued, onBus, schemaVars>>

(* Faulty variant: any lease will do, whoever took it. *)
StillLeased(r, e) ==
    /\ status[e] = "unpublished"
    /\ lock[e] # "none"

(* The row as DeliverRealtimeOutbox demands it: still unpublished and      *)
(* leased under the very attempt this relay claimed, expired or not.       *)
StillClaimed(r, e) ==
    /\ status[e] = "unpublished"
    /\ attempts[e] = claim[r][e]
    /\ lock[e] # "none"

DeliverBegins(r) ==
    /\ pc[r] = "queued"
    /\ StillClaimed(r, cur[r])
    /\ Goto(r, "publishing")
    /\ recipients' = [recipients EXCEPT ![r] = ConversationMemberIDs(AggregateOf[cur[r]])]
    /\ UNCHANGED <<rowVars, claim, cur, queued, onBus, faults, schemaVars>>

(* ErrNotFound: the row was erased, acknowledged or claimed by another.     *)
DeliverLost(r) ==
    /\ pc[r] = "queued"
    /\ ~StillClaimed(r, cur[r])
    /\ NextItem(r)
    /\ UNCHANGED <<rowVars, queued, onBus, faults, schemaVars>>

(* The transaction cannot start, translate fails in the callback, the bus  *)
(* refuses the event, or the commit fails: rolled back, row released.      *)
DeliverFails(r) ==
    /\ pc[r] \in {"queued", "publishing", "accepted"}
    /\ Goto(r, "release")
    /\ Fault
    /\ UNCHANGED <<rowVars, claim, cur, recipients, queued, onBus, schemaVars>>

Publish(r) ==
    /\ pc[r] = "publishing"
    /\ Goto(r, "accepted")
    /\ onBus' = onBus \cup {cur[r]}
    /\ UNCHANGED <<rowVars, claim, cur, recipients, queued, faults, schemaVars>>

DeliverCommits(r) ==
    /\ pc[r] = "accepted"
    /\ Goto(r, "ack")
    /\ UNCHANGED <<rowVars, claim, cur, recipients, queued, onBus, faults, schemaVars>>

(* UPDATE ... WHERE id: no claim is checked, a vanished row is no error. *)
MarkOutboxPublished(r) ==
    /\ pc[r] = "ack"
    /\ ~RowShared(cur[r])
    /\ IF RowExists(cur[r])
         THEN /\ status' = [status EXCEPT ![cur[r]] = "published"]
              /\ lock' = [lock EXCEPT ![cur[r]] = "none"]
         ELSE UNCHANGED <<status, lock>>
    /\ NextItem(r)
    /\ UNCHANGED <<attempts, due, queued, onBus, faults, schemaVars>>

MarkFails(r) ==
    /\ pc[r] = "ack"
    /\ NextItem(r)
    /\ Fault
    /\ UNCHANGED <<rowVars, queued, onBus, schemaVars>>

(* UPDATE ... WHERE id AND published_at IS NULL: whoever holds the claim   *)
(* now, it is cleared.                                                     *)
ReleaseOutboxEvent(r) ==
    /\ pc[r] = "release"
    /\ ~RowShared(cur[r])
    /\ IF status[cur[r]] = "unpublished"
         THEN /\ lock' = [lock EXCEPT ![cur[r]] = "none"]
              /\ due' = [due EXCEPT ![cur[r]] = FALSE]
         ELSE UNCHANGED <<lock, due>>
    /\ NextItem(r)
    /\ UNCHANGED <<status, attempts, queued, onBus, faults, schemaVars>>

ReleaseFails(r) ==
    /\ pc[r] = "release"
    /\ NextItem(r)
    /\ Fault
    /\ UNCHANGED <<rowVars, queued, onBus, schemaVars>>

(* The process dies: an open transaction rolls back, claims stay leased,    *)
(* and the restarted process begins with an empty hand.                     *)
Crash(r) ==
    /\ pc[r] # "idle"
    /\ Goto(r, "idle")
    /\ claim' = [claim EXCEPT ![r] = [e \in Event |-> 0]]
    /\ cur' = [cur EXCEPT ![r] = NoEvent]
    /\ recipients' = [recipients EXCEPT ![r] = {}]
    /\ Fault
    /\ UNCHANGED <<rowVars, queued, onBus, schemaVars>>

(***************************************************************************)
(* Deletions.                                                              *)
(***************************************************************************)

Remove(S, how) ==
    /\ status' = [e \in Event |-> IF e \in S THEN how ELSE status[e]]
    /\ lock' = [e \in Event |-> IF e \in S THEN "none" ELSE lock[e]]

(* DeleteConversation removes the aggregate's unpublished rows; the DELETE  *)
(* waits for the row locks of running deliveries.                           *)
DeleteConversation(c) ==
    LET doomed == {e \in Event : AggregateOf[e] = c /\ status[e] = "unpublished"}
    IN  /\ c \in open
        /\ \A e \in doomed : ~RowShared(e)
        /\ open' = open \ {c}
        /\ Remove(doomed, "dropped")
        /\ UNCHANGED <<live, attempts, due, relayVars, queued, onBus, faults>>

(* sanitizeAccountOutbox: every row of the conversations that go with the  *)
(* account, and the shared conversations' rows that name it.               *)
ErasedRows(u) ==
    {e \in Event : RowExists(e) /\ (AggregateOf[e] \in OrphanedBy(u) \/ u \in References[e])}

(* Faulty variant: no delivery barrier. *)
EraseAccountUnfenced(u) ==
    /\ u \in live
    /\ Remove(ErasedRows(u), "dropped")
    /\ live' = live \ {u}
    /\ open' = open \ OrphanedBy(u)
    /\ UNCHANGED <<attempts, due, relayVars, queued, onBus, faults>>

(* deleteAccountTx takes the delivery barrier exclusively before anything  *)
(* else, so no delivery transaction is open when it reads and deletes.      *)
(* This is the erasure of a deletion intent, each of whose statements sees  *)
(* what committed before it; Membership has the other one.                  *)
EraseAccount(u) ==
    /\ u \in live
    /\ ~BarrierShared
    /\ Remove(ErasedRows(u), "dropped")
    /\ live' = live \ {u}
    /\ open' = open \ OrphanedBy(u)
    /\ UNCHANGED <<attempts, due, relayVars, queued, onBus, faults>>

PrunePublishedOutbox(e) ==
    /\ status[e] = "published"
    /\ Remove({e}, "pruned")
    /\ UNCHANGED <<attempts, due, relayVars, queued, onBus, faults, schemaVars>>

(***************************************************************************)
(* The specification.                                                      *)
(***************************************************************************)

RelayProgress(r) ==
    \/ LockOutboxBatch(r)
    \/ \E e \in Event : Translate(r, e)
    \/ EnqueuePush(r) \/ EnqueuePushFails(r)
    \/ DeliverBegins(r) \/ DeliverLost(r) \/ Publish(r) \/ DeliverCommits(r)
    \/ MarkOutboxPublished(r) \/ ReleaseOutboxEvent(r)

RelayFails(r) == DeliverFails(r) \/ MarkFails(r) \/ ReleaseFails(r) \/ Crash(r)

OutboxNext ==
    \/ \E e \in Event : Append(e) \/ BecomesDue(e) \/ LeaseExpires(e) \/ PrunePublishedOutbox(e)
    \/ \E r \in Relay : RelayProgress(r) \/ RelayFails(r)
    \/ \E c \in Conversation : DeleteConversation(c)
    \/ \E u \in User : EraseAccount(u)

OutboxSafety == OutboxInit /\ [][OutboxNext]_outboxVars

(* The three goroutines of Run tick forever and timestamps pass: a relay   *)
(* that can go on does, due times and abandoned leases come to an end.     *)
OutboxFairness ==
    /\ \A r \in Relay : WF_outboxVars(RelayProgress(r))
    /\ \A e \in Event : WF_outboxVars(BecomesDue(e)) /\ WF_outboxVars(LeaseExpires(e))

OutboxSpec == OutboxSafety /\ OutboxFairness

(***************************************************************************)
(* Properties.                                                             *)
(***************************************************************************)

(* Whatever leases expire and whoever releases whose claim, two relays are *)
(* never publishing the same row at the same time (the attempt number and  *)
(* the row share lock of DeliverRealtimeOutbox).                           *)
ExclusivePublisher ==
    \A r1, r2 \in Relay :
        (pc[r1] \in InTx /\ pc[r2] \in InTx /\ cur[r1] = cur[r2]) => r1 = r2

(* No event is lost: a row is acknowledged, and may be pruned, only after  *)
(* the bus took the event and its push deliveries were made durable, and   *)
(* the push deliveries always come first.                                  *)
NothingLost ==
    /\ onBus \subseteq queued
    /\ \A e \in Event : status[e] \in {"published", "pruned"} => e \in onBus

(* An account erased while relays hold claims of its conversations is never *)
(* a recipient of a publication that is under way (the delivery barrier).   *)
NoPublishToErased ==
    \A r \in Relay : pc[r] \in InTx => recipients[r] \subseteq live

(* A relay never publishes a row that is acknowledged, pruned or deleted:   *)
(* late acknowledgements and deletions wait for the running delivery.       *)
PublishesOnlyPending ==
    \A r \in Relay : pc[r] \in InTx => status[cur[r]] = "unpublished"

(* Refinement: the outbox implements the at-least-once contract. *)
AbstractState(s) ==
    IF s = "unpublished" THEN "pending"
    ELSE IF s \in {"published", "pruned"} THEN "acked"
    ELSE s

Contract == INSTANCE AtLeastOnce WITH
    state <- [e \in Event |-> AbstractState(status[e])],
    broadcast <- onBus

(* Every behaviour of rows and relays is one of AtLeastOnce, its eventual  *)
(* settlement included.                                                    *)
ImplementsAtLeastOnce == Contract!Spec
=============================================================================
