--------------------------- MODULE PipelineProofs ---------------------------
(***************************************************************************)
(* Proofs about the push queue, alone (PushSafety) and fed by the outbox   *)
(* (PipelineSpec), for any number of events, devices, accounts, relays,    *)
(* senders and faults.                                                     *)
(*                                                                         *)
(* The push queue's inductive invariant says what the share locks are      *)
(* worth: a sender in the middle of a provider call still has the lease of *)
(* its row, the address it uses is still its device's token, and the       *)
(* device's account is live.  Everything else about a row may change       *)
(* between the claim and the call, and between the call and the report.    *)
(***************************************************************************)
EXTENDS Pipeline, OutboxProofs

(* A sender past its claim has a row in hand, and a reply once it is told. *)
JobInHand ==
    \A w \in Sender :
        /\ spc[w] # "idle" => job[w] \in Delivery
        /\ spc[w] = "replied" => reply[w] # "none"

SendingHolds == \A w \in Sender : spc[w] = "sending" => HoldsLease(w)

PushInv ==
    /\ PushTypeOK /\ JobInHand /\ SendingHolds
    /\ SendsToCurrentOwner /\ TokenHasOneOwner /\ NothingOfErased

USE OwnerAssumption, TokenAssumption, SenderAssumption, AttemptsAssumption, FaultAssumption,
    EventAssumption

(* What a sender in the middle of a call holds has one holder. *)
LEMMA SharedByOne ==
    ASSUME PushInv, NEW w \in Sender, NEW v \in Sender, spc[w] = "sending", HoldsLease(v), job[v] = job[w]
    PROVE  v = w
BY DEF PushInv, PushTypeOK, SendingHolds, HoldsLease

(* Steps that leave senders, rows, tokens and accounts alone. *)
LEMMA PushStutter ==
    ASSUME PushInv, dstatus' = dstatus, dlease' = dlease, senderVars' = senderVars, token' = token,
           live' = live, PushTypeOK'
    PROVE  PushInv'
<1> USE DEF PushInv, senderVars
<1>1. JobInHand' /\ SendingHolds'
  BY DEF JobInHand, SendingHolds, HoldsLease
<1>2. SendsToCurrentOwner' /\ TokenHasOneOwner' /\ NothingOfErased'
  BY DEF SendsToCurrentOwner, TokenHasOneOwner, NothingOfErased, RowPresent
<1> QED
  BY <1>1, <1>2

(* The clock and the blocks. *)
LEMMA QueueTicks ==
    ASSUME PushInv, NEW x \in Delivery, SetBlock(x) \/ DeliveryBecomesDue(x) \/ DeliveryLeaseExpires(x)
    PROVE  PushInv'
<1> USE DEF PushInv, PushTypeOK, SchemaTypeOK, queueVars, senderVars, schemaVars
<1>1. PushTypeOK'
  <2>1. CASE SetBlock(x)
    BY <2>1 DEF SetBlock
  <2>2. CASE DeliveryBecomesDue(x)
    BY <2>2 DEF DeliveryBecomesDue
  <2>3. CASE DeliveryLeaseExpires(x)
    <3>1. faults' \in 0..MaxFaults
      BY <2>3 DEF DeliveryLeaseExpires, Fault
    <3> QED
      BY <2>3, <3>1 DEF DeliveryLeaseExpires
  <2> QED
    BY <2>1, <2>2, <2>3
<1> QED
  BY <1>1, PushStutter DEF SetBlock, DeliveryBecomesDue, DeliveryLeaseExpires, queueVars, senderVars, schemaVars

(* Registration and logout of a device wait for the sends to it. *)
LEMMA DeviceChanges ==
    ASSUME PushInv, NEW d \in Device, ClearDevicePushToken(d) \/ \E t \in Token : UpsertDevice(d, t)
    PROVE  PushInv'
<1> USE DEF PushInv, PushTypeOK, SchemaTypeOK, queueVars, senderVars, schemaVars
<1>1. CASE ClearDevicePushToken(d)
  <2> USE <1>1 DEF ClearDevicePushToken
  <2>1. PushTypeOK'
    OBVIOUS
  <2>2. JobInHand' /\ SendingHolds'
    BY DEF JobInHand, SendingHolds, HoldsLease
  <2>3. SendsToCurrentOwner'
    BY DEF SendsToCurrentOwner, DeviceShared
  <2>4. TokenHasOneOwner' /\ NothingOfErased'
    BY DEF TokenHasOneOwner, NothingOfErased, RowPresent
  <2> QED
    BY <2>1, <2>2, <2>3, <2>4
<1>2. ASSUME NEW t \in Token, UpsertDevice(d, t) PROVE PushInv'
  <2> USE <1>2 DEF UpsertDevice
  <2>1. PushTypeOK'
    OBVIOUS
  <2>2. JobInHand' /\ SendingHolds'
    BY DEF JobInHand, SendingHolds, HoldsLease
  <2>3. SendsToCurrentOwner'
    <3> SUFFICES ASSUME NEW w \in Sender, spc[w] = "sending"
                 PROVE  addr[w] = token'[DeviceOf(job[w])] /\ OwnerOf[DeviceOf(job[w])] \in live
      BY DEF SendsToCurrentOwner
    <3>1. DeviceOf(job[w]) \in Device /\ DeviceShared(DeviceOf(job[w]))
      BY DEF JobInHand, DeviceShared, Delivery, DeviceOf
    <3> QED
      BY <3>1 DEF SendsToCurrentOwner
  <2>4. TokenHasOneOwner' /\ NothingOfErased'
    BY DEF TokenHasOneOwner, NothingOfErased, RowPresent
  <2> QED
    BY <2>1, <2>2, <2>3, <2>4
<1> QED
  BY <1>1, <1>2

(* New rows are those of live accounts, and nobody's. *)
LEMMA EnqueueKeeps ==
    ASSUME PushInv, NEW e \in Event, NEW users, EnqueuePushDeliveries(e, users), live' = live, SchemaTypeOK'
    PROVE  PushInv'
<1> USE DEF PushInv, PushTypeOK, EnqueuePushDeliveries, senderVars
<1>1. PushTypeOK'
  BY DEF DeliveryStatus
<1>2. \A x \in Delivery : RowPresent(x) => dstatus'[x] = dstatus[x]
  BY DEF RowPresent
<1>3. JobInHand'
  BY DEF JobInHand
<1>4. SendingHolds'
  BY <1>2 DEF SendingHolds, HoldsLease, RowPresent, JobInHand
<1>5. SendsToCurrentOwner' /\ TokenHasOneOwner'
  BY DEF SendsToCurrentOwner, TokenHasOneOwner
<1>6. NothingOfErased'
  BY <1>2 DEF NothingOfErased, Eligible, RowPresent
<1> QED
  BY <1>1, <1>3, <1>4, <1>5, <1>6

LEMMA RemovalTypes ==
    ASSUME PushTypeOK, NEW S, NEW how \in {"removed", "pruned"}, RemoveDeliveries(S, how)
    PROVE  /\ dstatus' \in [Delivery -> DeliveryStatus]
           /\ dtries' \in [Delivery -> 0..MaxAttempts]
           /\ dlock' \in [Delivery -> {"none", "held", "expired"}]
           /\ dlease' \in [Delivery -> Sender \cup {NoSender}]
           /\ ddue' \in [Delivery -> BOOLEAN]
<1> USE DEF PushTypeOK, RemoveDeliveries
<1>1. dstatus' \in [Delivery -> DeliveryStatus] /\ dlock' \in [Delivery -> {"none", "held", "expired"}]
  BY DEF DeliveryStatus
<1>2. dtries' \in [Delivery -> 0..MaxAttempts]
  OBVIOUS
<1>3. dlease' \in [Delivery -> Sender \cup {NoSender}]
  OBVIOUS
<1>4. ddue' \in [Delivery -> BOOLEAN]
  BY Zenon
<1> QED
  BY <1>1, <1>2, <1>3, <1>4

(* Rows that nobody is sending may go. *)
LEMMA RemovalKeeps ==
    ASSUME PushInv, NEW S \in SUBSET Delivery, NEW how \in {"removed", "pruned"}, RemoveDeliveries(S, how),
           \A x \in S : ~DeliveryShared(x), senderVars' = senderVars, token' = token, blocked' = blocked,
           live' = live, SchemaTypeOK'
    PROVE  PushInv'
<1>1. PushTypeOK'
  <2>1. PushTypeOK
    BY DEF PushInv
  <2>2. /\ dstatus' \in [Delivery -> DeliveryStatus]
        /\ dtries' \in [Delivery -> 0..MaxAttempts]
        /\ dlock' \in [Delivery -> {"none", "held", "expired"}]
        /\ dlease' \in [Delivery -> Sender \cup {NoSender}]
        /\ ddue' \in [Delivery -> BOOLEAN]
    BY <2>1, RemovalTypes
  <2> QED
    BY <2>1, <2>2 DEF PushTypeOK, senderVars
<1> USE DEF PushInv, PushTypeOK, RemoveDeliveries, senderVars
<1>2. JobInHand' /\ SendsToCurrentOwner' /\ TokenHasOneOwner'
  BY DEF JobInHand, SendsToCurrentOwner, TokenHasOneOwner
<1>3. SendingHolds'
  BY DEF SendingHolds, HoldsLease, DeliveryShared, JobInHand
<1>4. NothingOfErased'
  BY DEF NothingOfErased, RowPresent, Terminal
<1> QED
  BY <1>1, <1>2, <1>3, <1>4

(* Retention takes terminal rows, which nobody is sending. *)
LEMMA PruningKeeps ==
    ASSUME PushInv, NEW x \in Delivery, PrunePushDelivery(x)
    PROVE  PushInv'
<1>1. ~DeliveryShared(x)
  BY DEF PushInv, SendingHolds, HoldsLease, DeliveryShared, PrunePushDelivery, Terminal
<1> QED
  BY <1>1, RemovalKeeps DEF PushInv, PushTypeOK, SchemaTypeOK, PrunePushDelivery, senderVars, schemaVars

(* Erasure waits for every send, and takes the account's rows and tokens.  *)
LEMMA ErasureKeeps ==
    ASSUME PushInv, NEW u \in User, NEW cascade \in SUBSET Delivery, PurgeAccountPush(u, cascade),
           live' = live \ {u}, SchemaTypeOK'
    PROVE  PushInv'
<1> USE DEF PushInv, PushTypeOK, PurgeAccountPush, RemoveDeliveries, senderVars
<1>1. PushTypeOK'
  <2>1. RemoveDeliveries(DeliveriesOf(u) \cup cascade, "removed")
    OBVIOUS
  <2> QED
    BY <2>1, RemovalTypes
<1>2. JobInHand'
  BY DEF JobInHand
<1>3. SendingHolds' /\ SendsToCurrentOwner'
  BY DEF SendingHolds, SendsToCurrentOwner, PushBarrierShared
<1>4. TokenHasOneOwner'
  BY DEF TokenHasOneOwner
<1>5. NothingOfErased'
  BY DEF NothingOfErased, RowPresent, DeliveriesOf, Terminal
<1> QED
  BY <1>1, <1>2, <1>3, <1>4, <1>5

(* A claim moves only rows that nobody is sending. *)
LEMMA ClaimKeeps ==
    ASSUME PushInv, NEW w \in Sender, NEW x \in Delivery, LockPushDelivery(w, x)
    PROVE  PushInv'
<1> USE DEF PushInv, PushTypeOK, LockPushDelivery, schemaVars
<1>1. PushTypeOK'
  <2>1. dtries' \in [Delivery -> 0..MaxAttempts]
    OBVIOUS
  <2> QED
    BY <2>1 DEF SchemaTypeOK, SenderStage
<1>2. JobInHand'
  BY DEF JobInHand
<1>3. SendingHolds'
  BY DEF SendingHolds, HoldsLease, DeliveryClaimable, DeliveryShared
<1>4. SendsToCurrentOwner' /\ TokenHasOneOwner' /\ NothingOfErased'
  BY DEF SendsToCurrentOwner, TokenHasOneOwner, NothingOfErased, RowPresent
<1> QED
  BY <1>1, <1>2, <1>3, <1>4

(* The call begins under the lease, with the device's token. *)
LEMMA BeginSendKeeps ==
    ASSUME PushInv, NEW w \in Sender, BeginSend(w)
    PROVE  PushInv'
<1> USE DEF PushInv, PushTypeOK, BeginSend, Replied, queueVars, schemaVars
<1>1. job[w] \in Delivery /\ DeviceOf(job[w]) \in Device
  BY DEF JobInHand, Delivery, DeviceOf
<1>2. PushTypeOK'
  BY <1>1 DEF SchemaTypeOK, SenderStage, Reply
<1>3. JobInHand' /\ SendingHolds'
  BY DEF JobInHand, SendingHolds, HoldsLease
<1>4. TokenHasOneOwner' /\ NothingOfErased'
  BY DEF TokenHasOneOwner, NothingOfErased, RowPresent
<1>5. OwnerOf[DeviceOf(job[w])] \in live
  BY <1>1 DEF HoldsLease, NothingOfErased, RowPresent
<1>6. SendsToCurrentOwner'
  BY <1>1, <1>5 DEF SendsToCurrentOwner
<1> QED
  BY <1>2, <1>3, <1>4, <1>6

(* Steps by which a sender leaves the call or the row, changing neither    *)
(* rows nor tokens.                                                        *)
LEMMA SenderLeaves ==
    ASSUME PushInv, NEW w \in Sender,
           \/ GiveUp(w) \/ Return(w) \/ LeaseCallFails(w) \/ SenderFails(w)
           \/ \E r \in Reply : ProviderReplies(w, r)
    PROVE  PushInv'
<1> USE DEF PushInv, PushTypeOK, queueVars, schemaVars
<1>1. /\ UNCHANGED <<queueVars, token, blocked, schemaVars>>
      /\ \A v \in Sender \ {w} : spc'[v] = spc[v] /\ job'[v] = job[v] /\ addr'[v] = addr[v] /\ reply'[v] = reply[v]
      /\ spc'[w] \in {"gaveUp", "idle", "replied"}
      /\ spc'[w] = "gaveUp" => job'[w] = job[w] /\ spc[w] # "idle"
      /\ spc'[w] = "replied" => job'[w] = job[w] /\ spc[w] # "idle" /\ reply'[w] # "none"
  BY DEF GiveUp, Return, LeaseCallFails, SenderFails, ProviderReplies, Replied, Rest, Fault, SenderStage
<1>2. PushTypeOK'
  <2>1. faults' \in 0..MaxFaults
    BY DEF GiveUp, Return, LeaseCallFails, SenderFails, ProviderReplies, Fault, SchemaTypeOK
  <2>2. /\ spc' \in [Sender -> SenderStage]
        /\ job' \in [Sender -> Delivery \cup {NoDelivery}]
    BY DEF GiveUp, Return, LeaseCallFails, SenderFails, ProviderReplies, Replied, Rest, SenderStage
  <2>3. /\ addr' \in [Sender -> Token \cup {NoToken}]
        /\ reply' \in [Sender -> Reply]
    BY DEF GiveUp, Return, LeaseCallFails, SenderFails, ProviderReplies, Replied, Rest, Reply
  <2> QED
    BY <1>1, <2>1, <2>2, <2>3 DEF SchemaTypeOK
<1>3. JobInHand' /\ SendingHolds'
  BY <1>1 DEF JobInHand, SendingHolds, HoldsLease
<1>4. SendsToCurrentOwner'
  BY <1>1 DEF SendsToCurrentOwner
<1>5. TokenHasOneOwner' /\ NothingOfErased'
  BY <1>1 DEF TokenHasOneOwner, NothingOfErased, RowPresent
<1> QED
  BY <1>2, <1>3, <1>4, <1>5

(* A recorded outcome is one of the table's. *)
LEMMA OutcomeTypes ==
    ASSUME PushInv, NEW w \in Sender, spc[w] = "replied"
    PROVE  Outcome(w) \in {"pending"} \cup Terminal
<1>1. reply[w] \in {"ok", "invalid", "permanent", "retryable", "no_token", "shutdown"}
  BY DEF PushInv, PushTypeOK, JobInHand, Reply
<1> QED
  BY <1>1 DEF Outcome, Terminal

(* The outcome is recorded under the lease, so not on a row being sent by   *)
(* another; a rejected token goes only if the device still has it, and      *)
(* nobody is sending to it.                                                 *)
LEMMA ReportKeeps ==
    ASSUME PushInv, NEW w \in Sender, FinishPushDelivery(w) \/ InvalidatePushDelivery(w)
    PROVE  PushInv'
<1> DEFINE d == DeviceOf(job[w])
<1>1. job[w] \in Delivery /\ d \in Device /\ spc[w] = "replied"
  BY DEF PushInv, JobInHand, Delivery, DeviceOf, FinishPushDelivery, InvalidatePushDelivery
<1>2. Outcome(w) \in {"pending"} \cup Terminal
  BY <1>1, OutcomeTypes
<1>3. Rest(w) /\ UNCHANGED <<blocked, faults, schemaVars>>
  BY DEF FinishPushDelivery, InvalidatePushDelivery
<1>4. \/ UNCHANGED queueVars
      \/ /\ HoldsLease(w) /\ Settle(w, Outcome(w))
         /\ \E b \in BOOLEAN : ddue' = [ddue EXCEPT ![job[w]] = b]
  <2>1. CASE FinishPushDelivery(w)
    BY <2>1 DEF FinishPushDelivery
  <2>2. CASE InvalidatePushDelivery(w)
    BY <2>2 DEF InvalidatePushDelivery
  <2> QED
    BY <2>1, <2>2
<1>5. \/ UNCHANGED token
      \/ token' = [token EXCEPT ![d] = NoToken] /\ ~DeviceShared(d)
  BY <1>1 DEF FinishPushDelivery, InvalidatePushDelivery, PushInv, PushTypeOK
<1>6. \A x \in Device : token'[x] \in {token[x], NoToken} /\ (DeviceShared(x) => token'[x] = token[x])
  BY <1>1, <1>5 DEF PushInv, PushTypeOK
<1> USE DEF PushInv, PushTypeOK
<1>7. \A x \in Delivery : dstatus'[x] # dstatus[x] \/ dlease'[x] # dlease[x] => x = job[w] /\ HoldsLease(w)
  BY <1>1, <1>4 DEF Settle, queueVars
<1>8. PushTypeOK'
  <2>1. /\ dstatus' \in [Delivery -> DeliveryStatus] /\ dlock' \in [Delivery -> {"none", "held", "expired"}]
        /\ dtries' \in [Delivery -> 0..MaxAttempts]
    BY <1>1, <1>2, <1>4 DEF Settle, queueVars, DeliveryStatus
  <2>2. dlease' \in [Delivery -> Sender \cup {NoSender}] /\ ddue' \in [Delivery -> BOOLEAN]
    BY <1>1, <1>4 DEF Settle, queueVars
  <2>3. token' \in [Device -> Token \cup {NoToken}]
    BY <1>5
  <2>4. /\ spc' \in [Sender -> SenderStage]
        /\ job' \in [Sender -> Delivery \cup {NoDelivery}]
        /\ addr' \in [Sender -> Token \cup {NoToken}]
        /\ reply' \in [Sender -> Reply]
    BY <1>3 DEF Rest, SenderStage, Reply
  <2> QED
    BY <1>3, <2>1, <2>2, <2>3, <2>4 DEF SchemaTypeOK, schemaVars
<1>9. JobInHand'
  BY <1>3 DEF JobInHand, Rest
<1>10. SendingHolds'
  <2> SUFFICES ASSUME NEW v \in Sender, spc'[v] = "sending" PROVE HoldsLease(v)'
    BY DEF SendingHolds
  <2>1. v # w /\ spc[v] = "sending" /\ job'[v] = job[v]
    BY <1>3 DEF Rest
  <2>2. job[v] \in Delivery /\ HoldsLease(v)
    BY <2>1 DEF JobInHand, SendingHolds
  <2>3. dstatus'[job[v]] = dstatus[job[v]] /\ dlease'[job[v]] = dlease[job[v]]
    BY <1>7, <2>1, <2>2, SharedByOne
  <2> QED
    BY <2>1, <2>2, <2>3 DEF HoldsLease
<1>11. SendsToCurrentOwner'
  <2> SUFFICES ASSUME NEW v \in Sender, spc'[v] = "sending"
               PROVE  addr'[v] = token'[DeviceOf(job'[v])] /\ OwnerOf[DeviceOf(job'[v])] \in live'
    BY DEF SendsToCurrentOwner
  <2>1. spc[v] = "sending" /\ job'[v] = job[v] /\ addr'[v] = addr[v]
    BY <1>3 DEF Rest
  <2>2. DeviceOf(job[v]) \in Device /\ DeviceShared(DeviceOf(job[v]))
    BY <2>1 DEF JobInHand, DeviceShared, Delivery, DeviceOf
  <2> QED
    BY <1>3, <1>6, <2>1, <2>2 DEF SendsToCurrentOwner, schemaVars
<1>12. TokenHasOneOwner'
  BY <1>6 DEF TokenHasOneOwner
<1>13. NothingOfErased'
  <2>1. \A x \in Delivery : RowPresent(x)' => RowPresent(x)
    BY <1>7 DEF RowPresent, HoldsLease
  <2> QED
    BY <1>3, <1>6, <2>1 DEF NothingOfErased, schemaVars
<1> QED
  BY <1>8, <1>9, <1>10, <1>11, <1>12, <1>13

(* All that a sender does. *)
LEMMA SenderKeeps ==
    ASSUME PushInv, NEW w \in Sender, SenderStep(w)
    PROVE  PushInv'
BY ClaimKeeps, BeginSendKeeps, SenderLeaves, ReportKeeps DEF SenderStep, SenderProgress

-----------------------------------------------------------------------------
(* The queue on its own. *)

LEMMA PushInitInv == PushInit => PushInv
<1> SUFFICES ASSUME PushInit PROVE PushInv
  OBVIOUS
<1> USE DEF PushInit, SchemaInit
<1>1. PushTypeOK
  BY DEF PushTypeOK, SchemaTypeOK, DeliveryStatus, SenderStage, Reply
<1>2. JobInHand /\ SendingHolds
  BY DEF JobInHand, SendingHolds
<1>3. SendsToCurrentOwner /\ TokenHasOneOwner /\ NothingOfErased
  BY DEF SendsToCurrentOwner, TokenHasOneOwner, NothingOfErased, RowPresent, Terminal
<1> QED
  BY <1>1, <1>2, <1>3 DEF PushInv

LEMMA PushStep == PushInv /\ [PushNext]_pushVars => PushInv'
<1> SUFFICES ASSUME PushInv, [PushNext]_pushVars PROVE PushInv'
  OBVIOUS
<1>1. ASSUME NEW e \in Event, Enqueue(e) PROVE PushInv'
  BY <1>1, EnqueueKeeps DEF Enqueue, PushInv, PushTypeOK, SchemaTypeOK, schemaVars
<1>2. ASSUME NEW d \in Device, ClearDevicePushToken(d) \/ \E t \in Token : UpsertDevice(d, t) PROVE PushInv'
  BY <1>2, DeviceChanges
<1>3. ASSUME NEW x \in Delivery, SetBlock(x) \/ DeliveryBecomesDue(x) \/ DeliveryLeaseExpires(x) PROVE PushInv'
  BY <1>3, QueueTicks
<1>4. ASSUME NEW x \in Delivery, PrunePushDelivery(x) PROVE PushInv'
  BY <1>4, PruningKeeps
<1>5. ASSUME NEW w \in Sender, SenderStep(w) PROVE PushInv'
  BY <1>5, SenderKeeps
<1>6. ASSUME NEW u \in User, EraseRecipient(u) PROVE PushInv'
  <2>1. {} \in SUBSET Delivery /\ PurgeAccountPush(u, {}) /\ live' = live \ {u} /\ SchemaTypeOK'
    BY <1>6 DEF EraseRecipient, PushInv, PushTypeOK, SchemaTypeOK
  <2> QED
    BY <2>1, ErasureKeeps
<1>7. CASE UNCHANGED pushVars
  BY <1>7, PushStutter DEF pushVars, queueVars, senderVars, schemaVars, PushInv, PushTypeOK, SchemaTypeOK
<1> QED
  BY <1>1, <1>2, <1>3, <1>4, <1>5, <1>6, <1>7 DEF PushNext, SenderStep

(* What leases and share locks keep true of the queue, however leases       *)
(* expire, senders fail and devices and accounts change.                    *)
THEOREM PushInvariance == PushSafety => []PushInv
BY PushInitInv, PushStep, PTL DEF PushSafety

(* Two senders never hand the same delivery to the provider at the same     *)
(* time: WithPushDeliveryLease finds the lease its own, and the share lock   *)
(* keeps it so.                                                             *)
THEOREM PushedByOne == PushSafety => []OneSender
<1>1. PushInv => OneSender
  <2> SUFFICES ASSUME PushInv, NEW w1 \in Sender, NEW w2 \in Sender,
                      spc[w1] = "sending", spc[w2] = "sending", job[w1] = job[w2]
               PROVE  w1 = w2
    BY DEF OneSender
  <2>1. HoldsLease(w2)
    BY DEF PushInv, SendingHolds
  <2> QED
    BY <2>1, SharedByOne
<1> QED
  BY PushInvariance, <1>1, PTL

(* A push goes to the current token of a device whose account is live.      *)
THEOREM PushedToOwner == PushSafety => []SendsToCurrentOwner
<1>1. PushInv => SendsToCurrentOwner
  BY DEF PushInv
<1> QED
  BY PushInvariance, <1>1, PTL

(* UpsertDevice and the clean-ups never leave a token with two devices.     *)
THEOREM TokensAreOwnedOnce == PushSafety => []TokenHasOneOwner
<1>1. PushInv => TokenHasOneOwner
  BY DEF PushInv
<1> QED
  BY PushInvariance, <1>1, PTL

(* A late FinishPushDelivery or a repeated EnqueuePushDeliveries does not    *)
(* touch a row that has its outcome.                                        *)
THEOREM OutcomesAreFinal == PushSafety => OutcomeIsFinal
<1> DEFINE Final == \A x \in Delivery : dstatus[x] \in Terminal => dstatus'[x] \in {dstatus[x], "removed", "pruned"}
<1>1. PushInv /\ [PushNext]_pushVars => [Final]_pushVars
  <2> SUFFICES ASSUME PushInv, PushNext, NEW x \in Delivery, dstatus[x] \in Terminal
               PROVE  dstatus'[x] \in {dstatus[x], "removed", "pruned"}
    OBVIOUS
  <2> USE DEF PushInv, PushTypeOK, queueVars
  <2>1. ASSUME NEW e \in Event, Enqueue(e) PROVE dstatus'[x] = dstatus[x]
    BY <2>1 DEF Enqueue, EnqueuePushDeliveries, RowPresent
  <2>2. ASSUME NEW d \in Device, ClearDevicePushToken(d) \/ \E t \in Token : UpsertDevice(d, t)
        PROVE  dstatus'[x] = dstatus[x]
    BY <2>2 DEF ClearDevicePushToken, UpsertDevice
  <2>3. ASSUME NEW y \in Delivery, SetBlock(y) \/ DeliveryBecomesDue(y) \/ DeliveryLeaseExpires(y)
        PROVE  dstatus'[x] = dstatus[x]
    BY <2>3 DEF SetBlock, DeliveryBecomesDue, DeliveryLeaseExpires
  <2>4. ASSUME NEW y \in Delivery, PrunePushDelivery(y) PROVE dstatus'[x] \in {dstatus[x], "pruned"}
    BY <2>4 DEF PrunePushDelivery, RemoveDeliveries
  <2>5. ASSUME NEW w \in Sender, NEW y \in Delivery, LockPushDelivery(w, y) PROVE dstatus'[x] = dstatus[x]
    BY <2>5 DEF LockPushDelivery
  <2>6. ASSUME NEW w \in Sender, SenderProgress(w) \/ LeaseCallFails(w) \/ SenderFails(w)
        PROVE  dstatus'[x] = dstatus[x]
    BY <2>6 DEF SenderProgress, BeginSend, GiveUp, Return, ProviderReplies, LeaseCallFails, SenderFails,
       FinishPushDelivery, InvalidatePushDelivery, Settle, HoldsLease, Terminal
  <2>7. ASSUME NEW u \in User, EraseRecipient(u) PROVE dstatus'[x] \in {dstatus[x], "removed"}
    BY <2>7 DEF EraseRecipient, PurgeAccountPush, RemoveDeliveries
  <2> QED
    BY <2>1, <2>2, <2>3, <2>4, <2>5, <2>6, <2>7 DEF PushNext
<1> QED
  BY PushInvariance, <1>1, PTL DEF PushSafety, OutcomeIsFinal

(* The provider's late verdict takes no token but the one it is about.      *)
THEOREM FreshTokensSurvive == PushSafety => FreshTokenSurvives
<1> DEFINE Survives ==
      \A w \in Sender : (spc[w] = "replied" /\ reply[w] = "invalid" /\ spc'[w] = "idle") =>
          \A d \in Device : token[d] # addr[w] => token'[d] = token[d]
<1>1. PushInv /\ [PushNext]_pushVars => [Survives]_pushVars
  <2> SUFFICES ASSUME PushInv, PushNext, NEW w \in Sender,
                      spc[w] = "replied", reply[w] = "invalid", spc'[w] = "idle",
                      NEW d \in Device, token[d] # addr[w]
               PROVE  token'[d] = token[d]
    OBVIOUS
  <2> USE DEF PushInv, PushTypeOK
  <2>1. ASSUME UNCHANGED senderVars PROVE FALSE
    BY <2>1 DEF senderVars
  <2>2. ASSUME NEW v \in Sender, NEW y \in Delivery, LockPushDelivery(v, y) PROVE token'[d] = token[d]
    BY <2>2 DEF LockPushDelivery
  <2>3. ASSUME NEW v \in Sender,
               \/ BeginSend(v) \/ GiveUp(v) \/ Return(v) \/ FinishPushDelivery(v)
               \/ \E r \in Reply : ProviderReplies(v, r)
               \/ LeaseCallFails(v) \/ SenderFails(v)
        PROVE  token'[d] = token[d]
    BY <2>3 DEF BeginSend, GiveUp, Return, FinishPushDelivery, ProviderReplies, LeaseCallFails, SenderFails
  <2>4. ASSUME NEW v \in Sender, InvalidatePushDelivery(v) PROVE token'[d] = token[d]
    <3>1. v = w
      BY <2>4 DEF InvalidatePushDelivery, Rest
    <3> QED
      BY <2>4, <3>1 DEF InvalidatePushDelivery
  <2> QED
    BY <2>1, <2>2, <2>3, <2>4 DEF PushNext, SenderProgress, Enqueue, EnqueuePushDeliveries,
       ClearDevicePushToken, UpsertDevice, SetBlock, DeliveryBecomesDue, DeliveryLeaseExpires,
       PrunePushDelivery, EraseRecipient, PurgeAccountPush
<1> QED
  BY PushInvariance, <1>1, PTL DEF PushSafety, FreshTokenSurvives

-----------------------------------------------------------------------------
(* The queue fed by the outbox. *)

PipelineInv == OutboxInv /\ PushInv /\ NoOrphanDelivery

(* What is left alone of the outbox keeps its invariant, whatever faults    *)
(* the senders count.                                                       *)
LEMMA OutboxStutter ==
    ASSUME OutboxInv, UNCHANGED outboxOnly, UNCHANGED schemaVars, SchemaTypeOK'
    PROVE  OutboxInv'
<1> USE DEF OutboxInv, outboxOnly, rowVars, relayVars, schemaVars
<1>1. OutboxTypeOK'
  BY DEF OutboxTypeOK
<1>2. ClaimInv'
  BY DEF ClaimInv, ClaimsBelowAttempts, ClaimsDistinct, CurInHand
<1>3. DeliveryInv'
  BY DEF DeliveryInv, DeliveringRow, StillClaimed, StagesDone, NothingLost, NoPublishToErased
<1> QED
  BY <1>1, <1>2, <1>3

(* Every step of an outbox component keeps the outbox's invariant. *)
LEMMA OutboxKeeps == OutboxInv /\ OutboxNext => OutboxInv'
BY TypeStep, ClaimStep, DeliveryStep DEF OutboxInv, ClaimInv

(* Rows of the outbox that stay, with deliveries that are no more than      *)
(* before, leave no orphan.                                                 *)
LEMMA SourcesStay ==
    ASSUME NoOrphanDelivery, \A x \in Delivery : RowPresent(x)' => RowPresent(x),
           \A e \in Event : RowExists(e) => RowExists(e)'
    PROVE  NoOrphanDelivery'
BY DEF NoOrphanDelivery, Delivery, EventOf

(* A relay working on a batch removes no source. *)
LEMMA RelaysKeepSources ==
    ASSUME OutboxInv, NEW r \in Relay, EnqueuePush(r) \/ RelayStep(r)
    PROVE  /\ \A e \in Event : RowExists(e) => RowExists(e)'
           /\ UNCHANGED schemaVars
<1>1. cur[r] \in Event \cup {NoEvent} /\ status \in [Event -> RowStatus]
  BY DEF OutboxInv, OutboxTypeOK
<1>2. CASE MarkOutboxPublished(r)
  BY <1>1, <1>2 DEF MarkOutboxPublished, RowExists
<1>3. CASE ~MarkOutboxPublished(r)
  <2>1. status' = status /\ UNCHANGED schemaVars
    BY <1>3 DEF EnqueuePush, RelayStep, LockOutboxBatch, Translate, EnqueuePushFails, DeliverBegins, DeliverLost,
       Publish, DeliverCommits, ReleaseOutboxEvent, RelayFails, DeliverFails, MarkFails, ReleaseFails, Crash, rowVars
  <2> QED
    BY <2>1 DEF RowExists
<1> QED
  BY <1>2, <1>3

(* Deliveries of rows that leave the outbox leave with them. *)
LEMMA CascadeLeavesNone ==
    ASSUME PipelineInv, NEW S \in SUBSET Event, Remove(S, "dropped"), NEW T, SourcedBy(S) \subseteq T,
           RemoveDeliveries(T, "removed")
    PROVE  NoOrphanDelivery'
<1> SUFFICES ASSUME NEW x \in Delivery, RowPresent(x)' PROVE RowExists(EventOf(x))'
  BY DEF NoOrphanDelivery
<1>1. EventOf(x) \in Event
  BY DEF Delivery, EventOf
<1>2. x \notin T /\ RowPresent(x)
  BY DEF RemoveDeliveries, RowPresent, Terminal
<1>3. EventOf(x) \notin S
  BY <1>2 DEF SourcedBy
<1>4. RowExists(EventOf(x))
  BY <1>2 DEF PipelineInv, NoOrphanDelivery
<1> QED
  BY <1>1, <1>3, <1>4 DEF Remove, RowExists

(* Each step of the pipeline is a step of its components, and the key       *)
(* between their tables holds across it.                                    *)
LEMMA PipelineStep == PipelineInv /\ [PipelineNext]_pipelineVars => PipelineInv'
<1> SUFFICES ASSUME PipelineInv, [PipelineNext]_pipelineVars PROVE PipelineInv'
  OBVIOUS
<1>0. OutboxInv /\ PushInv /\ NoOrphanDelivery /\ SchemaTypeOK
  BY DEF PipelineInv, PushInv, PushTypeOK
<1>1. ASSUME NEW r \in Relay, EnqueueStep(r) PROVE PipelineInv'
  <2>1. cur[r] \in Event
    BY <1>0, <1>1 DEF EnqueueStep, EnqueuePush, OutboxInv, ClaimInv, CurInHand
  <2>2. OutboxInv'
    BY <1>0, <1>1, OutboxKeeps DEF EnqueueStep, OutboxNext, RelayProgress
  <2>3. PushInv'
    BY <1>0, <1>1, <2>1, EnqueueKeeps DEF EnqueueStep, EnqueuePush, schemaVars, SchemaTypeOK
  <2>4. NoOrphanDelivery'
    <3> SUFFICES ASSUME NEW x \in Delivery, RowPresent(x)' PROVE RowExists(EventOf(x))'
      BY DEF NoOrphanDelivery
    <3>1. RowExists(EventOf(x))' <=> RowExists(EventOf(x))
      BY <1>1 DEF EnqueueStep, EnqueuePush, RowExists, rowVars
    <3>2. CASE RowPresent(x)
      BY <1>0, <3>1, <3>2 DEF NoOrphanDelivery
    <3>3. CASE ~RowPresent(x)
      BY <1>1, <3>1, <3>3 DEF EnqueueStep, EnqueuePushDeliveries, RowPresent
    <3> QED
      BY <3>2, <3>3
  <2> QED
    BY <2>2, <2>3, <2>4 DEF PipelineInv
<1>2. ASSUME UNCHANGED pushOnly, UNCHANGED schemaVars, OutboxInv', \A e \in Event : RowExists(e) => RowExists(e)'
      PROVE  PipelineInv'
  <2>1. PushInv'
    BY <1>0, <1>2, PushStutter DEF pushOnly, queueVars, senderVars, schemaVars, PushInv, PushTypeOK, OutboxInv, OutboxTypeOK
  <2>2. NoOrphanDelivery'
    BY <1>0, <1>2, SourcesStay DEF pushOnly, queueVars, RowPresent
  <2> QED
    BY <1>2, <2>1, <2>2 DEF PipelineInv
<1>3. ASSUME NEW r \in Relay, RelayStep(r), UNCHANGED pushOnly PROVE PipelineInv'
  <2>1. OutboxInv'
    BY <1>0, <1>3, OutboxKeeps DEF RelayStep, OutboxNext, RelayProgress
  <2> QED
    BY <1>0, <1>2, <1>3, <2>1, RelaysKeepSources
<1>4. ASSUME NEW e \in Event, Append(e) \/ BecomesDue(e) \/ LeaseExpires(e), UNCHANGED pushOnly PROVE PipelineInv'
  <2>1. OutboxInv'
    BY <1>0, <1>4, OutboxKeeps DEF OutboxNext
  <2>2. UNCHANGED schemaVars /\ \A f \in Event : RowExists(f) => RowExists(f)'
    BY <1>0, <1>4 DEF Append, BecomesDue, LeaseExpires, RowExists, OutboxInv, OutboxTypeOK
  <2> QED
    BY <1>2, <1>4, <2>1, <2>2
<1>5. ASSUME NEW e \in Event, PruneSourceStep(e) PROVE PipelineInv'
  <2>1. OutboxInv'
    BY <1>0, <1>5, OutboxKeeps DEF PruneSourceStep, OutboxNext
  <2>2. PushInv'
    BY <1>0, <1>5, PushStutter
       DEF PruneSourceStep, PrunePublishedOutbox, pushOnly, queueVars, senderVars, schemaVars, PushInv, PushTypeOK, SchemaTypeOK
  <2>3. NoOrphanDelivery'
    BY <1>0, <1>5 DEF PruneSourceStep, PrunePublishedOutbox, Remove, RowExists, RowPresent, NoOrphanDelivery,
       pushOnly, queueVars, Delivery, EventOf
  <2> QED
    BY <2>1, <2>2, <2>3 DEF PipelineInv
<1>6. ASSUME UNCHANGED outboxOnly, UNCHANGED schemaVars, PushInv', \A x \in Delivery : RowPresent(x)' => RowPresent(x)
      PROVE  PipelineInv'
  <2>1. OutboxInv'
    BY <1>0, <1>6, OutboxStutter DEF PushInv, PushTypeOK
  <2>2. NoOrphanDelivery'
    BY <1>0, <1>6, SourcesStay DEF outboxOnly, rowVars, RowExists
  <2> QED
    BY <1>6, <2>1, <2>2 DEF PipelineInv
<1>7. ASSUME NEW w \in Sender, SenderStep(w), UNCHANGED outboxOnly PROVE PipelineInv'
  <2>1. PushInv' /\ UNCHANGED schemaVars
    BY <1>0, <1>7, SenderKeeps DEF SenderStep, SenderProgress, LockPushDelivery, BeginSend, GiveUp, Return,
       ProviderReplies, FinishPushDelivery, InvalidatePushDelivery, LeaseCallFails, SenderFails
  <2>2. \A x \in Delivery : RowPresent(x)' => RowPresent(x)
    BY <1>0, <1>7 DEF SenderStep, SenderProgress, LockPushDelivery, BeginSend, GiveUp, Return, ProviderReplies,
       FinishPushDelivery, InvalidatePushDelivery, LeaseCallFails, SenderFails, Settle, HoldsLease,
       RowPresent, queueVars, PushInv, PushTypeOK
  <2> QED
    BY <1>6, <1>7, <2>1, <2>2
<1>8. ASSUME NEW d \in Device, DeviceStep(d), UNCHANGED outboxOnly PROVE PipelineInv'
  <2>1. PushInv'
    BY <1>0, <1>8, DeviceChanges DEF DeviceStep
  <2>2. UNCHANGED schemaVars /\ \A x \in Delivery : RowPresent(x)' => RowPresent(x)
    BY <1>8 DEF DeviceStep, ClearDevicePushToken, UpsertDevice, RowPresent, queueVars
  <2> QED
    BY <1>6, <1>8, <2>1, <2>2
<1>9. ASSUME NEW x \in Delivery, PrunePushStep(x) PROVE PipelineInv'
  <2>1. PushInv' /\ UNCHANGED outboxOnly /\ UNCHANGED schemaVars
    BY <1>0, <1>9, PruningKeeps DEF PrunePushStep, PrunePushDelivery
  <2>2. \A y \in Delivery : RowPresent(y)' => RowPresent(y)
    BY <1>9 DEF PrunePushStep, PrunePushDelivery, RemoveDeliveries, RowPresent, Terminal
  <2> QED
    BY <1>6, <2>1, <2>2
<1>10. ASSUME NEW x \in Delivery, SetBlock(x) \/ DeliveryBecomesDue(x) \/ DeliveryLeaseExpires(x),
              UNCHANGED outboxOnly
       PROVE  PipelineInv'
  <2>1. PushInv' /\ UNCHANGED schemaVars /\ dstatus' = dstatus
    BY <1>0, <1>10, QueueTicks DEF SetBlock, DeliveryBecomesDue, DeliveryLeaseExpires, queueVars
  <2> QED
    BY <1>6, <1>10, <2>1 DEF RowPresent
<1>11. ASSUME NEW c \in Conversation, DeleteConversationStep(c) PROVE PipelineInv'
  <2> DEFINE doomed == {e \in Event : AggregateOf[e] = c /\ status[e] = "unpublished"}
  <2>1. OutboxInv'
    BY <1>0, <1>11, OutboxKeeps DEF DeleteConversationStep, OutboxNext
  <2>2. /\ SourcedBy(doomed) \in SUBSET Delivery /\ RemoveDeliveries(SourcedBy(doomed), "removed")
        /\ \A x \in SourcedBy(doomed) : ~DeliveryShared(x)
        /\ UNCHANGED <<senderVars, token, blocked>> /\ live' = live
    BY <1>11 DEF DeleteConversationStep, DeleteConversation, SourcedBy
  <2>3. SchemaTypeOK'
    BY <2>1 DEF OutboxInv, OutboxTypeOK
  <2>4. PushInv'
    BY <1>0, <2>2, <2>3, RemovalKeeps
  <2>5. Remove(doomed, "dropped") /\ doomed \in SUBSET Event
    BY <1>11 DEF DeleteConversationStep, DeleteConversation
  <2>6. NoOrphanDelivery'
    BY <2>2, <2>5, CascadeLeavesNone
  <2> QED
    BY <2>1, <2>4, <2>6 DEF PipelineInv
<1>12. ASSUME NEW u \in User, EraseAccountStep(u) PROVE PipelineInv'
  <2>1. OutboxInv'
    BY <1>0, <1>12, OutboxKeeps DEF EraseAccountStep, OutboxNext
  <2>2. /\ PurgeAccountPush(u, SourcedBy(ErasedRows(u))) /\ SourcedBy(ErasedRows(u)) \in SUBSET Delivery
        /\ live' = live \ {u}
    BY <1>12 DEF EraseAccountStep, EraseAccount, SourcedBy
  <2>3. SchemaTypeOK'
    BY <2>1 DEF OutboxInv, OutboxTypeOK
  <2>4. PushInv'
    BY <1>0, <2>2, <2>3, ErasureKeeps
  <2>5. /\ Remove(ErasedRows(u), "dropped") /\ ErasedRows(u) \in SUBSET Event
        /\ RemoveDeliveries(DeliveriesOf(u) \cup SourcedBy(ErasedRows(u)), "removed")
    BY <1>12, <2>2 DEF EraseAccountStep, EraseAccount, ErasedRows, PurgeAccountPush
  <2>6. NoOrphanDelivery'
    BY <2>5, CascadeLeavesNone
  <2> QED
    BY <2>1, <2>4, <2>6 DEF PipelineInv
<1>13. CASE UNCHANGED pipelineVars
  <2>1. UNCHANGED pushOnly /\ UNCHANGED outboxOnly /\ UNCHANGED schemaVars /\ faults' = faults
    BY <1>13 DEF pipelineVars, pushOnly, outboxOnly
  <2>2. SchemaTypeOK'
    BY <1>0, <2>1 DEF SchemaTypeOK, schemaVars
  <2>3. OutboxInv'
    BY <1>0, <2>1, <2>2, OutboxStutter
  <2> QED
    BY <1>2, <2>1, <2>3 DEF outboxOnly, rowVars, RowExists
<1> QED
  BY <1>1, <1>3, <1>4, <1>5, <1>7, <1>8, <1>9, <1>10, <1>11, <1>12, <1>13 DEF PipelineNext

(* Both queues keep their invariants next to each other, over one database. *)
THEOREM PipelineInvariance == PipelineSpec => []PipelineInv
<1>1. PipelineInit => PipelineInv
  <2> SUFFICES ASSUME PipelineInit PROVE PipelineInv
    OBVIOUS
  <2>1. OutboxInv /\ PushInv
    BY OutboxInitInv, PushInitInv DEF PipelineInit
  <2>2. NoOrphanDelivery
    BY DEF PipelineInit, PushInit, NoOrphanDelivery, RowPresent, Terminal
  <2> QED
    BY <2>1, <2>2 DEF PipelineInv
<1> QED
  BY <1>1, PipelineStep, PTL DEF PipelineSpec

(* The tables of both queues keep their types, and the foreign key from     *)
(* push_deliveries to outbox_events is never left dangling by pruning,       *)
(* deletion or erasure.                                                     *)
THEOREM PipelineIsWellFormed == PipelineSpec => []PipelineWellFormed
<1>1. PipelineInv => PipelineWellFormed
  BY DEF PipelineInv, OutboxInv, PushInv, PipelineWellFormed, PipelineTypeOK
<1> QED
  BY PipelineInvariance, <1>1, PTL

(* Nothing of an erased account comes back through the queue, the bus or a  *)
(* provider call, although relays hold recipients they read before.         *)
THEOREM PipelineErasureIsFinal == PipelineSpec => []ErasureIsFinal
<1>1. PipelineInv => ErasureIsFinal
  BY DEF PipelineInv, OutboxInv, DeliveryInv, PushInv, SendsToCurrentOwner, ErasureIsFinal
<1> QED
  BY PipelineInvariance, <1>1, PTL
=============================================================================
