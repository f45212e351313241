---------------------------- MODULE OutboxProofs ----------------------------
(***************************************************************************)
(* Proofs about Outbox for any number of rows, relays, accounts and        *)
(* faults.  The inductive invariant says what a claim is worth: attempt    *)
(* numbers in hand never exceed the row's and no two relays hold the same  *)
(* one, so the test attempts = item.Attempts in DeliverRealtimeOutbox lets *)
(* through at most one relay, and the row share lock keeps that test true  *)
(* until the transaction ends.                                             *)
(***************************************************************************)
EXTENDS Outbox, TLAPS

ClaimsBelowAttempts == \A r \in Relay, e \in Event : claim[r][e] <= attempts[e]

ClaimsDistinct ==
    \A r1, r2 \in Relay : r1 # r2 =>
        \A e \in Event : claim[r1][e] # 0 => claim[r1][e] # claim[r2][e]

(* A relay past translate has a row in its hand. *)
CurInHand ==
    \A r \in Relay : pc[r] \notin {"idle", "batch"} =>
        cur[r] \in Event /\ claim[r][cur[r]] # 0

DeliveringRow == \A r \in Relay : pc[r] \in InTx => StillClaimed(r, cur[r])

(* What the stages of flush have already achieved for the row in hand. *)
StagesDone ==
    \A r \in Relay :
        /\ pc[r] \in {"queued", "publishing", "accepted", "ack"} => cur[r] \in queued
        /\ pc[r] \in {"accepted", "ack"} => cur[r] \in onBus

ClaimInv == ClaimsBelowAttempts /\ ClaimsDistinct /\ CurInHand
DeliveryInv == DeliveringRow /\ StagesDone /\ NothingLost /\ NoPublishToErased

OutboxInv == OutboxTypeOK /\ ClaimInv /\ DeliveryInv

(* The members of a conversation are accounts, and they are live. *)
LEMMA MembersAreLive ==
    ASSUME OutboxTypeOK, NEW c \in Conversation
    PROVE  ConversationMemberIDs(c) \subseteq User /\ ConversationMemberIDs(c) \subseteq live
BY MemberAssumption DEF OutboxTypeOK, SchemaTypeOK, ConversationMemberIDs

(* The loop's continue leaves the relay's own state well typed. *)
LEMMA NextItemTypes ==
    ASSUME OutboxTypeOK, NEW r \in Relay, NextItem(r)
    PROVE  /\ claim' \in [Relay -> [Event -> Nat]]
           /\ cur' \in [Relay -> Event \cup {NoEvent}]
           /\ pc' \in [Relay -> Stage]
           /\ recipients' \in [Relay -> SUBSET User]
<1> DEFINE rest == [claim[r] EXCEPT ![cur[r]] = 0]
<1>1. rest \in [Event -> Nat]
  BY DEF OutboxTypeOK
<1>2. claim' = [claim EXCEPT ![r] = rest] /\ cur' = [cur EXCEPT ![r] = NoEvent]
  BY DEF NextItem
<1>3. \/ pc' = [pc EXCEPT ![r] = "batch"]
      \/ pc' = [pc EXCEPT ![r] = "idle"]
  BY DEF NextItem, Goto
<1>4. recipients' = [recipients EXCEPT ![r] = {}]
  BY DEF NextItem
<1> HIDE DEF rest
<1> QED
  BY <1>1, <1>2, <1>3, <1>4 DEF OutboxTypeOK, Stage

(* Every step keeps the variables in their types. *)
LEMMA TypeStep == OutboxTypeOK /\ CurInHand /\ [OutboxNext]_outboxVars => OutboxTypeOK'
<1> SUFFICES ASSUME OutboxTypeOK, CurInHand, [OutboxNext]_outboxVars PROVE OutboxTypeOK'
  OBVIOUS
<1> USE FaultAssumption DEF OutboxTypeOK, SchemaTypeOK, RowStatus, Lock, Stage, schemaVars, rowVars, relayVars
<1>1. ASSUME NEW e \in Event, Append(e) PROVE OutboxTypeOK'
  BY <1>1 DEF Append
<1>2. ASSUME NEW e \in Event, BecomesDue(e) PROVE OutboxTypeOK'
  BY <1>2 DEF BecomesDue
<1>3. ASSUME NEW e \in Event, LeaseExpires(e) PROVE OutboxTypeOK'
  BY <1>3 DEF LeaseExpires, Fault
<1>4. ASSUME NEW e \in Event, PrunePublishedOutbox(e) PROVE OutboxTypeOK'
  BY <1>4 DEF PrunePublishedOutbox, Remove
<1>5. ASSUME NEW c \in Conversation, DeleteConversation(c) PROVE OutboxTypeOK'
  BY <1>5 DEF DeleteConversation, Remove
<1>6. ASSUME NEW u \in User, EraseAccount(u) PROVE OutboxTypeOK'
  BY <1>6 DEF EraseAccount, Remove
<1>7. ASSUME NEW r \in Relay, LockOutboxBatch(r) PROVE OutboxTypeOK'
  BY <1>7 DEF LockOutboxBatch, NextAttempt
<1>8. ASSUME NEW r \in Relay, NEW e \in Event, Translate(r, e) PROVE OutboxTypeOK'
  <2>1. ConversationMemberIDs(AggregateOf[e]) \subseteq User
    BY MembersAreLive, AggregateAssumption
  <2>2. recipients' \in [Relay -> SUBSET User]
    BY <1>8, <2>1 DEF Translate
  <2>3. pc' \in [Relay -> Stage] /\ cur' \in [Relay -> Event \cup {NoEvent}]
    BY <1>8 DEF Translate, Goto
  <2>4. faults' \in 0..MaxFaults
    BY <1>8 DEF Translate, Fault
  <2> QED
    BY <1>8, <2>2, <2>3, <2>4 DEF Translate
<1>9. ASSUME NEW r \in Relay, EnqueuePush(r) PROVE OutboxTypeOK'
  BY <1>9 DEF EnqueuePush, Goto, CurInHand
<1>10. ASSUME NEW r \in Relay, EnqueuePushFails(r) PROVE OutboxTypeOK'
  BY <1>10 DEF EnqueuePushFails, Goto, Fault
<1>11. ASSUME NEW r \in Relay, DeliverBegins(r) PROVE OutboxTypeOK'
  BY <1>11, MembersAreLive, AggregateAssumption DEF DeliverBegins, Goto, CurInHand
<1>12. ASSUME NEW r \in Relay, DeliverLost(r) PROVE OutboxTypeOK'
  BY <1>12, NextItemTypes DEF DeliverLost
<1>13. ASSUME NEW r \in Relay, DeliverFails(r) PROVE OutboxTypeOK'
  BY <1>13 DEF DeliverFails, Goto, Fault
<1>14. ASSUME NEW r \in Relay, Publish(r) PROVE OutboxTypeOK'
  BY <1>14 DEF Publish, Goto, CurInHand
<1>15. ASSUME NEW r \in Relay, DeliverCommits(r) PROVE OutboxTypeOK'
  BY <1>15 DEF DeliverCommits, Goto
<1>16. ASSUME NEW r \in Relay, MarkOutboxPublished(r) PROVE OutboxTypeOK'
  BY <1>16, NextItemTypes DEF MarkOutboxPublished
<1>17. ASSUME NEW r \in Relay, MarkFails(r) PROVE OutboxTypeOK'
  BY <1>17, NextItemTypes DEF MarkFails, Fault
<1>18. ASSUME NEW r \in Relay, ReleaseOutboxEvent(r) PROVE OutboxTypeOK'
  BY <1>18, NextItemTypes DEF ReleaseOutboxEvent
<1>19. ASSUME NEW r \in Relay, ReleaseFails(r) PROVE OutboxTypeOK'
  BY <1>19, NextItemTypes DEF ReleaseFails, Fault
<1>20. ASSUME NEW r \in Relay, Crash(r) PROVE OutboxTypeOK'
  BY <1>20 DEF Crash, Goto, Fault
<1>21. CASE UNCHANGED outboxVars
  BY <1>21 DEF outboxVars
<1> QED
  BY <1>1, <1>2, <1>3, <1>4, <1>5, <1>6, <1>7, <1>8, <1>9, <1>10, <1>11, <1>12, <1>13, <1>14, <1>15, <1>16, <1>17, <1>18, <1>19, <1>20, <1>21 DEF OutboxNext, RelayProgress, RelayFails
(* Claims: every step keeps attempt numbers in hand distinct and current. *)
LEMMA ClaimStep ==
    OutboxTypeOK /\ ClaimInv /\ [OutboxNext]_outboxVars => ClaimInv'
<1> SUFFICES ASSUME OutboxTypeOK, ClaimInv, [OutboxNext]_outboxVars PROVE ClaimInv'
  OBVIOUS
<1> USE DEF OutboxTypeOK, ClaimInv, ClaimsBelowAttempts, ClaimsDistinct, CurInHand, rowVars, relayVars
<1>1. ASSUME NEW e \in Event, Append(e) PROVE ClaimInv'
  BY <1>1 DEF Append
<1>2. ASSUME NEW e \in Event, BecomesDue(e) PROVE ClaimInv'
  BY <1>2 DEF BecomesDue
<1>3. ASSUME NEW e \in Event, LeaseExpires(e) PROVE ClaimInv'
  BY <1>3 DEF LeaseExpires
<1>4. ASSUME NEW e \in Event, PrunePublishedOutbox(e) PROVE ClaimInv'
  BY <1>4 DEF PrunePublishedOutbox, Remove
<1>5. ASSUME NEW c \in Conversation, DeleteConversation(c) PROVE ClaimInv'
  BY <1>5 DEF DeleteConversation, Remove
<1>6. ASSUME NEW u \in User, EraseAccount(u) PROVE ClaimInv'
  BY <1>6 DEF EraseAccount, Remove
<1>7. ASSUME NEW r \in Relay, LockOutboxBatch(r) PROVE ClaimInv'
  BY <1>7 DEF LockOutboxBatch, NextAttempt
<1>8. ASSUME NEW r \in Relay, NEW e \in Event, Translate(r, e) PROVE ClaimInv'
  BY <1>8 DEF Translate, Goto
<1>9. ASSUME NEW r \in Relay, EnqueuePush(r) PROVE ClaimInv'
  BY <1>9 DEF EnqueuePush, Goto
<1>10. ASSUME NEW r \in Relay, EnqueuePushFails(r) PROVE ClaimInv'
  BY <1>10 DEF EnqueuePushFails, Goto
<1>11. ASSUME NEW r \in Relay, DeliverBegins(r) PROVE ClaimInv'
  BY <1>11 DEF DeliverBegins, Goto
<1>12. ASSUME NEW r \in Relay, DeliverLost(r) PROVE ClaimInv'
  BY <1>12 DEF DeliverLost, NextItem, Goto
<1>13. ASSUME NEW r \in Relay, DeliverFails(r) PROVE ClaimInv'
  BY <1>13 DEF DeliverFails, Goto
<1>14. ASSUME NEW r \in Relay, Publish(r) PROVE ClaimInv'
  BY <1>14 DEF Publish, Goto
<1>15. ASSUME NEW r \in Relay, DeliverCommits(r) PROVE ClaimInv'
  BY <1>15 DEF DeliverCommits, Goto
<1>16. ASSUME NEW r \in Relay, MarkOutboxPublished(r) PROVE ClaimInv'
  BY <1>16 DEF MarkOutboxPublished, NextItem, Goto
<1>17. ASSUME NEW r \in Relay, MarkFails(r) PROVE ClaimInv'
  BY <1>17 DEF MarkFails, NextItem, Goto
<1>18. ASSUME NEW r \in Relay, ReleaseOutboxEvent(r) PROVE ClaimInv'
  BY <1>18 DEF ReleaseOutboxEvent, NextItem, Goto
<1>19. ASSUME NEW r \in Relay, ReleaseFails(r) PROVE ClaimInv'
  BY <1>19 DEF ReleaseFails, NextItem, Goto
<1>20. ASSUME NEW r \in Relay, Crash(r) PROVE ClaimInv'
  BY <1>20 DEF Crash, Goto
<1>21. CASE UNCHANGED outboxVars
  BY <1>21 DEF outboxVars
<1> QED
  BY <1>1, <1>2, <1>3, <1>4, <1>5, <1>6, <1>7, <1>8, <1>9, <1>10, <1>11, <1>12, <1>13, <1>14, <1>15, <1>16, <1>17, <1>18, <1>19, <1>20, <1>21 DEF OutboxNext, RelayProgress, RelayFails

(* Deliveries: while a delivery transaction is open nobody else can move   *)
(* its row, and the stages that are past stay done.                        *)
LEMMA DeliveryStep ==
    OutboxTypeOK /\ ClaimInv /\ DeliveryInv /\ [OutboxNext]_outboxVars => DeliveryInv'
<1> SUFFICES ASSUME OutboxTypeOK, ClaimInv, DeliveryInv, [OutboxNext]_outboxVars
             PROVE  DeliveryInv'
  OBVIOUS
<1> USE DEF OutboxTypeOK, ClaimInv, ClaimsBelowAttempts, ClaimsDistinct, CurInHand, DeliveryInv, DeliveringRow,
        StillClaimed, StagesDone, NothingLost, NoPublishToErased, InTx, rowVars, relayVars, schemaVars
<1>1. ASSUME NEW e \in Event, Append(e) PROVE DeliveryInv'
  BY <1>1 DEF Append
<1>2. ASSUME NEW e \in Event, BecomesDue(e) PROVE DeliveryInv'
  BY <1>2 DEF BecomesDue
<1>3. ASSUME NEW e \in Event, LeaseExpires(e) PROVE DeliveryInv'
  BY <1>3 DEF LeaseExpires
<1>4. ASSUME NEW e \in Event, PrunePublishedOutbox(e) PROVE DeliveryInv'
  BY <1>4 DEF PrunePublishedOutbox, Remove
<1>5. ASSUME NEW c \in Conversation, DeleteConversation(c) PROVE DeliveryInv'
  BY <1>5 DEF DeleteConversation, Remove, RowShared
<1>6. ASSUME NEW u \in User, EraseAccount(u) PROVE DeliveryInv'
  <2>1. DeliveringRow'
    BY <1>6 DEF EraseAccount, Remove, BarrierShared
  <2>2. StagesDone'
    BY <1>6 DEF EraseAccount, Remove, BarrierShared
  <2>3. NothingLost'
    BY <1>6 DEF EraseAccount, Remove, BarrierShared
  <2>4. NoPublishToErased'
    BY <1>6 DEF EraseAccount, Remove, BarrierShared
  <2> QED
    BY <2>1, <2>2, <2>3, <2>4
<1>7. ASSUME NEW r \in Relay, LockOutboxBatch(r) PROVE DeliveryInv'
  <2>1. DeliveringRow'
    BY <1>7 DEF LockOutboxBatch, IsBatch, Claimable, RowShared, NextAttempt
  <2>2. StagesDone'
    BY <1>7 DEF LockOutboxBatch, IsBatch, Claimable, RowShared, NextAttempt
  <2>3. NothingLost'
    BY <1>7 DEF LockOutboxBatch, IsBatch, Claimable, RowShared, NextAttempt
  <2>4. NoPublishToErased'
    BY <1>7 DEF LockOutboxBatch, IsBatch, Claimable, RowShared, NextAttempt
  <2> QED
    BY <2>1, <2>2, <2>3, <2>4
<1>8. ASSUME NEW r \in Relay, NEW e \in Event, Translate(r, e) PROVE DeliveryInv'
  <2>1. /\ pc[r] \notin InTx /\ pc'[r] \in {"translated", "release"}
        /\ \A q \in Relay \ {r} : pc'[q] = pc[q] /\ cur'[q] = cur[q] /\ recipients'[q] = recipients[q]
    BY <1>8 DEF Translate, Goto
  <2> QED
    BY <1>8, <2>1 DEF Translate
<1>9. ASSUME NEW r \in Relay, EnqueuePush(r) PROVE DeliveryInv'
  BY <1>9 DEF EnqueuePush, Goto
<1>10. ASSUME NEW r \in Relay, EnqueuePushFails(r) PROVE DeliveryInv'
  BY <1>10 DEF EnqueuePushFails, Goto
<1>11. ASSUME NEW r \in Relay, DeliverBegins(r) PROVE DeliveryInv'
  <2>1. DeliveringRow'
    BY <1>11, MembersAreLive, AggregateAssumption DEF DeliverBegins, Goto
  <2>2. StagesDone'
    BY <1>11, MembersAreLive, AggregateAssumption DEF DeliverBegins, Goto
  <2>3. NothingLost'
    BY <1>11, MembersAreLive, AggregateAssumption DEF DeliverBegins, Goto
  <2>4. NoPublishToErased'
    BY <1>11, MembersAreLive, AggregateAssumption DEF DeliverBegins, Goto
  <2> QED
    BY <2>1, <2>2, <2>3, <2>4
<1>12. ASSUME NEW r \in Relay, DeliverLost(r) PROVE DeliveryInv'
  BY <1>12 DEF DeliverLost, NextItem, Goto
<1>13. ASSUME NEW r \in Relay, DeliverFails(r) PROVE DeliveryInv'
  BY <1>13 DEF DeliverFails, Goto
<1>14. ASSUME NEW r \in Relay, Publish(r) PROVE DeliveryInv'
  BY <1>14 DEF Publish, Goto
<1>15. ASSUME NEW r \in Relay, DeliverCommits(r) PROVE DeliveryInv'
  BY <1>15 DEF DeliverCommits, Goto
<1>16. ASSUME NEW r \in Relay, MarkOutboxPublished(r) PROVE DeliveryInv'
  <2>1. DeliveringRow'
    BY <1>16 DEF MarkOutboxPublished, NextItem, Goto, RowShared, RowExists
  <2>2. StagesDone'
    BY <1>16 DEF MarkOutboxPublished, NextItem, Goto, RowShared, RowExists
  <2>3. NothingLost'
    BY <1>16 DEF MarkOutboxPublished, NextItem, Goto, RowShared, RowExists
  <2>4. NoPublishToErased'
    BY <1>16 DEF MarkOutboxPublished, NextItem, Goto, RowShared, RowExists
  <2> QED
    BY <2>1, <2>2, <2>3, <2>4
<1>17. ASSUME NEW r \in Relay, MarkFails(r) PROVE DeliveryInv'
  BY <1>17 DEF MarkFails, NextItem, Goto
<1>18. ASSUME NEW r \in Relay, ReleaseOutboxEvent(r) PROVE DeliveryInv'
  <2>1. DeliveringRow'
    BY <1>18 DEF ReleaseOutboxEvent, NextItem, Goto, RowShared
  <2>2. StagesDone'
    BY <1>18 DEF ReleaseOutboxEvent, NextItem, Goto, RowShared
  <2>3. NothingLost'
    BY <1>18 DEF ReleaseOutboxEvent, NextItem, Goto, RowShared
  <2>4. NoPublishToErased'
    BY <1>18 DEF ReleaseOutboxEvent, NextItem, Goto, RowShared
  <2> QED
    BY <2>1, <2>2, <2>3, <2>4
<1>19. ASSUME NEW r \in Relay, ReleaseFails(r) PROVE DeliveryInv'
  BY <1>19 DEF ReleaseFails, NextItem, Goto
<1>20. ASSUME NEW r \in Relay, Crash(r) PROVE DeliveryInv'
  BY <1>20 DEF Crash, Goto
<1>21. CASE UNCHANGED outboxVars
  BY <1>21 DEF outboxVars
<1> QED
  BY <1>1, <1>2, <1>3, <1>4, <1>5, <1>6, <1>7, <1>8, <1>9, <1>10, <1>11, <1>12, <1>13, <1>14, <1>15, <1>16, <1>17, <1>18, <1>19, <1>20, <1>21 DEF OutboxNext, RelayProgress, RelayFails

LEMMA OutboxInitInv == OutboxInit => OutboxInv
<1> SUFFICES ASSUME OutboxInit PROVE OutboxInv
  OBVIOUS
<1> USE FaultAssumption DEF OutboxInit, SchemaInit
<1>1. OutboxTypeOK
  BY DEF OutboxTypeOK, SchemaTypeOK, RowStatus, Lock, Stage, NoEvent
<1>2. ClaimInv
  BY DEF ClaimInv, ClaimsBelowAttempts, ClaimsDistinct, CurInHand
<1>3. DeliveryInv
  BY DEF DeliveryInv, DeliveringRow, StagesDone, NothingLost, NoPublishToErased, InTx
<1> QED
  BY <1>1, <1>2, <1>3 DEF OutboxInv

(* What the relays and the writers keep true of rows and claims, with any   *)
(* number of relays, rows, accounts and faults.                             *)
THEOREM OutboxInvariance == OutboxSafety => []OutboxInv
<1>1. OutboxInv /\ [OutboxNext]_outboxVars => OutboxInv'
  BY TypeStep, ClaimStep, DeliveryStep DEF OutboxInv, ClaimInv
<1> QED
  BY OutboxInitInv, <1>1, PTL DEF OutboxSafety

(* The outbox columns and the relays' local state keep their types: no row  *)
(* reaches a status, lease or attempt number the code has no branch for.    *)
THEOREM OutboxTypeCorrect == OutboxSafety => []OutboxTypeOK
<1>1. OutboxInv => OutboxTypeOK
  BY DEF OutboxInv
<1> QED
  BY OutboxInvariance, <1>1, PTL

(* Two relays never publish the same row at the same time.  Both would have *)
(* passed the test attempts = item.Attempts, but attempt numbers in hand    *)
(* are distinct and the row share lock keeps the number from moving.        *)
THEOREM OnePublisher == OutboxSafety => []ExclusivePublisher
<1>1. OutboxInv => ExclusivePublisher
  <2> SUFFICES ASSUME OutboxInv, NEW r1 \in Relay, NEW r2 \in Relay,
                      pc[r1] \in InTx, pc[r2] \in InTx, cur[r1] = cur[r2], r1 # r2
               PROVE  FALSE
    BY DEF ExclusivePublisher
  <2>1. claim[r1][cur[r1]] = claim[r2][cur[r1]]
    BY DEF OutboxInv, DeliveryInv, DeliveringRow, StillClaimed
  <2>2. cur[r1] \in Event /\ claim[r1][cur[r1]] # 0
    BY DEF OutboxInv, ClaimInv, CurInHand, InTx
  <2> QED
    BY <2>1, <2>2 DEF OutboxInv, ClaimInv, ClaimsDistinct
<1> QED
  BY OutboxInvariance, <1>1, PTL

(* A row is acknowledged or pruned only after the bus took the event, and   *)
(* the bus only after the push deliveries were stored.                      *)
THEOREM NoEventLost == OutboxSafety => []NothingLost
<1>1. OutboxInv => NothingLost
  BY DEF OutboxInv, DeliveryInv
<1> QED
  BY OutboxInvariance, <1>1, PTL

(* No publication under way addresses an erased account: the recipients are *)
(* read behind the barrier that erasure has to wait for.                    *)
THEOREM ErasedNotPublishedTo == OutboxSafety => []NoPublishToErased
<1>1. OutboxInv => NoPublishToErased
  BY DEF OutboxInv, DeliveryInv
<1> QED
  BY OutboxInvariance, <1>1, PTL

(* What is being published is pending: acknowledgements by relays that lost *)
(* their claim, releases and deletions wait for the row share lock.         *)
THEOREM PendingWhilePublished == OutboxSafety => []PublishesOnlyPending
<1>1. OutboxInv => PublishesOnlyPending
  BY DEF OutboxInv, DeliveryInv, DeliveringRow, StillClaimed, PublishesOnlyPending
<1> QED
  BY OutboxInvariance, <1>1, PTL

(* Only a change of status or of the bus shows through the mapping. *)
LEMMA SameRows ==
    ASSUME status' = status, onBus' = onBus
    PROVE  UNCHANGED Contract!vars
BY DEF Contract!vars

(* Rows that leave together are dropped together. *)
LEMMA RemoveIsDrop ==
    ASSUME NEW S \in SUBSET Event, OutboxTypeOK, Remove(S, "dropped"), onBus' = onBus,
           \A e \in S : status[e] \in {"unpublished", "published", "pruned"}
    PROVE  Contract!Drop(S)
BY DEF Contract!Drop, Remove, AbstractState, OutboxTypeOK

(* Every step of the outbox is a step of the contract or changes nothing in *)
(* its terms.                                                               *)
LEMMA RefinementStep ==
    OutboxInv /\ [OutboxNext]_outboxVars => [Contract!Next]_(Contract!vars)
<1> SUFFICES ASSUME OutboxInv, [OutboxNext]_outboxVars PROVE Contract!Next \/ UNCHANGED Contract!vars
  OBVIOUS
<1> USE DEF OutboxInv, OutboxTypeOK
<1>1. ASSUME NEW e \in Event, Append(e) PROVE Contract!Commit(e)
  BY <1>1 DEF Append, Contract!Commit, AbstractState
<1>2. ASSUME NEW e \in Event, PrunePublishedOutbox(e) PROVE UNCHANGED Contract!vars
  BY <1>2 DEF PrunePublishedOutbox, Remove, Contract!vars, AbstractState
<1>3. ASSUME NEW c \in Conversation, DeleteConversation(c) PROVE \E S \in SUBSET Event : Contract!Drop(S)
  BY <1>3, RemoveIsDrop DEF DeleteConversation
<1>4. ASSUME NEW u \in User, EraseAccount(u) PROVE \E S \in SUBSET Event : Contract!Drop(S)
  BY <1>4, RemoveIsDrop DEF EraseAccount, ErasedRows, RowExists
<1>5. ASSUME NEW r \in Relay, Publish(r) PROVE cur[r] \in Event /\ Contract!Broadcast(cur[r])
  <2>1. cur[r] \in Event /\ status[cur[r]] = "unpublished"
    BY <1>5 DEF Publish, ClaimInv, CurInHand, DeliveryInv, DeliveringRow, StillClaimed, InTx
  <2> QED
    BY <1>5, <2>1 DEF Publish, Contract!Broadcast, AbstractState, rowVars
<1>6. ASSUME NEW r \in Relay, MarkOutboxPublished(r)
      PROVE  (cur[r] \in Event /\ Contract!Ack(cur[r])) \/ UNCHANGED Contract!vars
  <2>1. cur[r] \in Event /\ cur[r] \in onBus
    BY <1>6 DEF MarkOutboxPublished, ClaimInv, CurInHand, DeliveryInv, StagesDone
  <2>2. CASE status[cur[r]] = "unpublished"
    BY <1>6, <2>1, <2>2 DEF MarkOutboxPublished, RowExists, Contract!Ack, AbstractState
  <2>3. CASE status[cur[r]] # "unpublished"
    <3>1. status' = status
      BY <1>6, <2>1, <2>3 DEF MarkOutboxPublished, RowExists
    <3> QED
      BY <1>6, <3>1, SameRows DEF MarkOutboxPublished
  <2> QED
    BY <2>2, <2>3
<1>7. ASSUME NEW e \in Event, BecomesDue(e) \/ LeaseExpires(e) PROVE UNCHANGED Contract!vars
  BY <1>7, SameRows DEF BecomesDue, LeaseExpires
<1>8. ASSUME NEW r \in Relay,
             \/ LockOutboxBatch(r) \/ \E e \in Event : Translate(r, e)
             \/ EnqueuePush(r) \/ EnqueuePushFails(r) \/ DeliverBegins(r) \/ DeliverLost(r)
             \/ DeliverCommits(r) \/ ReleaseOutboxEvent(r) \/ RelayFails(r)
      PROVE  UNCHANGED Contract!vars
  BY <1>8, SameRows
     DEF LockOutboxBatch, Translate, EnqueuePush, EnqueuePushFails, DeliverBegins, DeliverLost,
         DeliverCommits, ReleaseOutboxEvent, RelayFails, DeliverFails, MarkFails, ReleaseFails, Crash, rowVars
<1>9. CASE UNCHANGED outboxVars
  BY <1>9, SameRows DEF outboxVars, rowVars
<1> QED
  BY <1>1, <1>2, <1>3, <1>4, <1>5, <1>6, <1>7, <1>8, <1>9 DEF OutboxNext, RelayProgress, Contract!Next

(* The safety half of ImplementsAtLeastOnce: whatever rows and relays do,   *)
(* an event is broadcast only while it is pending and acknowledged only     *)
(* after it was broadcast.                                                  *)
THEOREM OutboxRefinesContract == OutboxSafety => Contract!SafetySpec
<1>1. OutboxInit => Contract!Init
  BY DEF OutboxInit, Contract!Init, AbstractState
<1> QED
  BY <1>1, RefinementStep, OutboxInvariance, PTL DEF OutboxSafety, Contract!SafetySpec
=============================================================================
