------------------------------ MODULE Pipeline ------------------------------
(***************************************************************************)
(* Outbox and PushDelivery together, as the relay process runs them over   *)
(* one database: the flush loop feeds the push queue, the foreign key from *)
(* push_deliveries to outbox_events cascades deletions, retention removes  *)
(* deliveries before their source, and account erasure takes the delivery  *)
(* barrier against both kinds of delivery transaction.                     *)
(***************************************************************************)
EXTENDS Outbox, PushDelivery

CONSTANTS
    ActorOf,  \* [Event -> User]: the account whose action the event reports
    Notified  \* [Event -> SUBSET User]: whom notificationFor would tell, {} for a silent topic

ASSUME ActorAssumption == ActorOf \in [Event -> User]
ASSUME NotifiedAssumption == Notified \in [Event -> SUBSET User]

pipelineVars == <<rowVars, relayVars, queued, onBus, queueVars, senderVars, token, blocked,
                  faults, schemaVars>>

PipelineTypeOK == OutboxTypeOK /\ PushTypeOK

PipelineInit == OutboxInit /\ PushInit

pushOnly == <<queueVars, senderVars, token, blocked>>
outboxOnly == <<rowVars, relayVars, queued, onBus>>

(* Relay.enqueuePush: those translate found, the actor left out, restricted *)
(* to the ones the notification is meant for.                               *)
PushRecipients(r) == (recipients[r] \cap Notified[cur[r]]) \ {ActorOf[cur[r]]}

(* Faulty variant: the foreign key does not cascade. *)
SourcedByNone(S) == {}
SourcedBy(S) == {x \in Delivery : EventOf(x) \in S /\ RowPresent(x)}

(* The rows are inserted only next to an existing source row (foreign key). *)
EnqueueStep(r) ==
    /\ EnqueuePush(r)
    /\ EnqueuePushDeliveries(cur[r], PushRecipients(r))
    /\ RowExists(cur[r]) \/ UNCHANGED dstatus

(* ON DELETE CASCADE: deleting the sources waits for and removes the rows. *)
DeleteConversationStep(c) ==
    LET cascade == SourcedBy({e \in Event : AggregateOf[e] = c /\ status[e] = "unpublished"})
    IN  /\ DeleteConversation(c)
        /\ \A x \in cascade : ~DeliveryShared(x)
        /\ RemoveDeliveries(cascade, "removed")
        /\ UNCHANGED <<senderVars, token, blocked>>

EraseAccountStep(u) ==
    /\ EraseAccount(u)
    /\ PurgeAccountPush(u, SourcedBy(ErasedRows(u)))

(* Retention: terminal deliveries of published sources go first, and a      *)
(* source goes only when no delivery is left.                               *)
PrunePushStep(x) ==
    /\ status[EventOf(x)] = "published"
    /\ PrunePushDelivery(x)
    /\ UNCHANGED outboxOnly

PruneSourceStep(e) ==
    /\ \A x \in Delivery : EventOf(x) = e => ~RowPresent(x)
    /\ PrunePublishedOutbox(e)
    /\ UNCHANGED pushOnly

RelayStep(r) ==
    \/ LockOutboxBatch(r)
    \/ \E e \in Event : Translate(r, e)
    \/ EnqueuePushFails(r)
    \/ DeliverBegins(r) \/ DeliverLost(r) \/ Publish(r) \/ DeliverCommits(r)
    \/ MarkOutboxPublished(r) \/ ReleaseOutboxEvent(r)
    \/ RelayFails(r)

SenderStep(w) ==
    \/ \E x \in Delivery : LockPushDelivery(w, x)
    \/ SenderProgress(w) \/ LeaseCallFails(w) \/ SenderFails(w)

DeviceStep(d) ==
    \/ ClearDevicePushToken(d)
    \/ \E t \in Token : UpsertDevice(d, t)

PipelineNext ==
    \/ \E r \in Relay : EnqueueStep(r) \/ (RelayStep(r) /\ UNCHANGED pushOnly)
    \/ \E e \in Event :
          \/ (Append(e) \/ BecomesDue(e) \/ LeaseExpires(e)) /\ UNCHANGED pushOnly
          \/ PruneSourceStep(e)
    \/ \E w \in Sender : SenderStep(w) /\ UNCHANGED outboxOnly
    \/ \E d \in Device : DeviceStep(d) /\ UNCHANGED outboxOnly
    \/ \E x \in Delivery :
          \/ PrunePushStep(x)
          \/ (SetBlock(x) \/ DeliveryBecomesDue(x) \/ DeliveryLeaseExpires(x)) /\ UNCHANGED outboxOnly
    \/ \E c \in Conversation : DeleteConversationStep(c)
    \/ \E u \in User : EraseAccountStep(u)

PipelineSpec == PipelineInit /\ [][PipelineNext]_pipelineVars

(***************************************************************************)
(* Properties.                                                             *)
(***************************************************************************)

(* No delivery outlives its source: pruning, conversation deletion and      *)
(* erasure racing with a relay that is just queueing never leave a row      *)
(* whose outbox event is gone.                                              *)
NoOrphanDelivery == \A x \in Delivery : RowPresent(x) => RowExists(EventOf(x))

(* Both queues are well formed, and so is the key between them.             *)
PipelineWellFormed == PipelineTypeOK /\ NoOrphanDelivery

(* Recipients that a relay read before an account was erased do not come   *)
(* back through the queue, the bus or a provider call after it.             *)
ErasureIsFinal ==
    /\ NothingOfErased
    /\ NoPublishToErased
    /\ \A w \in Sender : spc[w] = "sending" => OwnerOf[DeviceOf(job[w])] \in live
=============================================================================
