---------------------------- MODULE PushDelivery ----------------------------
(***************************************************************************)
(* The durable push queue: push_deliveries rows keyed by (outbox event,    *)
(* device), the senders that flushPush starts, one per claimed row, and    *)
(* the devices' push tokens that registration, logout, the provider's      *)
(* verdict and account erasure change under them.                          *)
(*                                                                         *)
(* lease_token is a fresh uuid per claim that only the claiming sender     *)
(* knows, and a sender works on one row at a time, so the model names a    *)
(* lease by its sender.  attempts is only ever compared with MaxAttempts   *)
(* and saturates there.                                                    *)
(***************************************************************************)
EXTENDS Schema

CONSTANTS
    Sender,      \* deliverPush goroutines of all relay processes
    Token,       \* (platform, push_token) pairs
    NoToken,     \* the empty push_token
    NoSender,    \* lease_token IS NULL
    MaxAttempts, \* Policy.MaxAttempts
    Messages     \* events whose deliveries have kind "message"

ASSUME TokenAssumption == NoToken \notin Token
ASSUME SenderAssumption == NoSender \notin Sender
ASSUME AttemptsAssumption == MaxAttempts \in Nat \ {0}

Delivery == Event \X Device
NoDelivery == <<0, 0>>
EventOf(x) == x[1]
DeviceOf(x) == x[2]

VARIABLES
    dstatus,  \* [Delivery -> DeliveryStatus]
    dtries,   \* [Delivery -> 0..MaxAttempts]: push_deliveries.attempts, saturated
    dlock,    \* [Delivery -> {"none", "held", "expired"}]: locked_until
    dlease,   \* [Delivery -> Sender \cup {NoSender}]: lease_token
    ddue,     \* [Delivery -> BOOLEAN]: next_attempt_at <= now()
    token,    \* [Device -> Token \cup {NoToken}]: devices.push_token
    blocked,  \* deliveries between whose recipient and sender a block exists
    spc,      \* [Sender -> SenderStage]
    job,      \* [Sender -> Delivery \cup {NoDelivery}]
    addr,     \* [Sender -> Token \cup {NoToken}]: the token read under the lease
    reply     \* [Sender -> Reply]: how the send went

queueVars == <<dstatus, dtries, dlock, dlease, ddue>>
senderVars == <<spc, job, addr, reply>>
pushVars == <<queueVars, senderVars, token, blocked, faults, schemaVars>>

Terminal == {"delivered", "invalid_token", "dead_letter", "canceled"}

(* "removed": deleted with its source row or with the recipient's account;  *)
(* "pruned": deleted by retention.                                          *)
DeliveryStatus == {"absent", "pending", "removed", "pruned"} \cup Terminal
SenderStage == {"idle", "claimed", "sending", "replied", "gaveUp"}
Reply == {"none", "ok", "invalid", "permanent", "retryable", "no_token", "shutdown"}

RowPresent(x) == dstatus[x] \in {"pending"} \cup Terminal

PushTypeOK ==
    /\ SchemaTypeOK
    /\ dstatus \in [Delivery -> DeliveryStatus]
    /\ dtries \in [Delivery -> 0..MaxAttempts]
    /\ dlock \in [Delivery -> {"none", "held", "expired"}]
    /\ dlease \in [Delivery -> Sender \cup {NoSender}]
    /\ ddue \in [Delivery -> BOOLEAN]
    /\ token \in [Device -> Token \cup {NoToken}]
    /\ blocked \subseteq Delivery
    /\ spc \in [Sender -> SenderStage]
    /\ job \in [Sender -> Delivery \cup {NoDelivery}]
    /\ addr \in [Sender -> Token \cup {NoToken}]
    /\ reply \in [Sender -> Reply]

(* WithPushDeliveryLease holds the barrier in shared mode and the delivery *)
(* and device rows FOR SHARE while the provider is called.                 *)
DeliveryShared(x) == \E w \in Sender : spc[w] = "sending" /\ job[w] = x
(* Faulty variant: the device is read without FOR SHARE. *)
DeviceNotShared(d) == FALSE
DeviceShared(d) == \E w \in Sender : spc[w] = "sending" /\ DeviceOf(job[w]) = d
PushBarrierShared == \E w \in Sender : spc[w] = "sending"

PushInit ==
    /\ SchemaInit
    /\ dstatus = [x \in Delivery |-> "absent"]
    /\ dtries = [x \in Delivery |-> 0]
    /\ dlock = [x \in Delivery |-> "none"]
    /\ dlease = [x \in Delivery |-> NoSender]
    /\ ddue = [x \in Delivery |-> FALSE]
    /\ token = [d \in Device |-> NoToken]
    /\ blocked = {}
    /\ spc = [w \in Sender |-> "idle"]
    /\ job = [w \in Sender |-> NoDelivery]
    /\ addr = [w \in Sender |-> NoToken]
    /\ reply = [w \in Sender |-> "none"]

(***************************************************************************)
(* Devices, blocks and the clock.                                          *)
(***************************************************************************)

(* Faulty variant: the token stays with the devices that had it. *)
UpsertDeviceOnly(d, t) ==
    /\ OwnerOf[d] \in live
    /\ ~DeviceShared(d)
    /\ token' = [token EXCEPT ![d] = t]
    /\ UNCHANGED <<queueVars, senderVars, blocked, faults, schemaVars>>

(* UpsertDevice: the token leaves every other device in the transaction    *)
(* that gives it to this one.  Row updates wait for senders' share locks.  *)
UpsertDevice(d, t) ==
    /\ OwnerOf[d] \in live
    /\ \A x \in Device : (x = d \/ token[x] = t) => ~DeviceShared(x)
    /\ token' = [x \in Device |->
                    IF x = d THEN t ELSE IF token[x] = t THEN NoToken ELSE token[x]]
    /\ UNCHANGED <<queueVars, senderVars, blocked, faults, schemaVars>>

(* Logout, and the device endpoint that turns notifications off. *)
ClearDevicePushToken(d) ==
    /\ token[d] # NoToken
    /\ ~DeviceShared(d)
    /\ token' = [token EXCEPT ![d] = NoToken]
    /\ UNCHANGED <<queueVars, senderVars, blocked, faults, schemaVars>>

(* A user blocks or unblocks the sender of a message already queued. *)
SetBlock(x) ==
    /\ EventOf(x) \in Messages
    /\ dstatus[x] = "pending"
    /\ blocked' = IF x \in blocked THEN blocked \ {x} ELSE blocked \cup {x}
    /\ UNCHANGED <<queueVars, senderVars, token, faults, schemaVars>>

DeliveryBecomesDue(x) ==
    /\ dstatus[x] = "pending"
    /\ ~ddue[x]
    /\ ddue' = [ddue EXCEPT ![x] = TRUE]
    /\ UNCHANGED <<dstatus, dtries, dlock, dlease, senderVars, token, blocked, faults, schemaVars>>

(* Faulty variants: the lease token is not compared; nor is the status. *)
HoldsPending(w) == dstatus[job[w]] = "pending"
HoldsRow(w) == RowPresent(job[w])

(* The sender works on the row and its lease token is still the row's. *)
HoldsLease(w) ==
    /\ dstatus[job[w]] = "pending"
    /\ dlease[job[w]] = w

LeaseOrphaned(x) == \A w \in Sender : ~(job[w] = x /\ dlease[x] = w)

(* The two minutes pass: for free when nobody works under the lease. *)
DeliveryLeaseExpires(x) ==
    /\ dlock[x] = "held"
    /\ dlock' = [dlock EXCEPT ![x] = "expired"]
    /\ \/ LeaseOrphaned(x) /\ UNCHANGED faults
       \/ ~LeaseOrphaned(x) /\ Fault
    /\ UNCHANGED <<dstatus, dtries, dlease, ddue, senderVars, token, blocked, schemaVars>>

(***************************************************************************)
(* The queue.                                                              *)
(***************************************************************************)

Eligible(x, users) ==
    /\ OwnerOf[DeviceOf(x)] \in users \cap live
    /\ token[DeviceOf(x)] # NoToken

(* EnqueuePushDeliveries: one pending row per live recipient's device that  *)
(* has a token; ON CONFLICT DO NOTHING.                                     *)
EnqueuePushDeliveries(e, users) ==
    LET new == {x \in Delivery :
                  EventOf(x) = e /\ ~RowPresent(x) /\ dstatus[x] # "pruned" /\ Eligible(x, users)}
    IN  /\ dstatus' = [x \in Delivery |-> IF x \in new THEN "pending" ELSE dstatus[x]]
        /\ ddue' = [x \in Delivery |-> IF x \in new THEN TRUE ELSE ddue[x]]
        /\ UNCHANGED <<dtries, dlock, dlease, senderVars, token, blocked>>

(* Faulty variant: an expired lease is never taken over. *)
DeliveryClaimableOnce(x) ==
    /\ dstatus[x] = "pending"
    /\ ddue[x]
    /\ dlock[x] = "none"

DeliveryClaimable(x) ==
    /\ dstatus[x] = "pending"
    /\ ddue[x]
    /\ dlock[x] \in {"none", "expired"}
    /\ ~DeliveryShared(x)

(* LockPushDeliveryBatch, for one of the rows of the batch. *)
LockPushDelivery(w, x) ==
    /\ spc[w] = "idle"
    /\ DeliveryClaimable(x)
    /\ dlock' = [dlock EXCEPT ![x] = "held"]
    /\ dlease' = [dlease EXCEPT ![x] = w]
    /\ dtries' = [dtries EXCEPT ![x] = IF @ < MaxAttempts THEN @ + 1 ELSE @]
    /\ spc' = [spc EXCEPT ![w] = "claimed"]
    /\ job' = [job EXCEPT ![w] = x]
    /\ UNCHANGED <<dstatus, ddue, addr, reply, token, blocked, faults, schemaVars>>

Replied(w, r) ==
    /\ spc' = [spc EXCEPT ![w] = "replied"]
    /\ reply' = [reply EXCEPT ![w] = r]

(* The transaction opens on a row still leased to this sender, and the     *)
(* device's current token is read under the row locks.                     *)
BeginSend(w) ==
    /\ spc[w] = "claimed"
    /\ HoldsLease(w)
    /\ job[w] \notin blocked
    /\ LET t == token[DeviceOf(job[w])]
       IN  IF t = NoToken
             THEN Replied(w, "no_token") /\ UNCHANGED addr
             ELSE /\ spc' = [spc EXCEPT ![w] = "sending"]
                  /\ addr' = [addr EXCEPT ![w] = t]
                  /\ UNCHANGED reply
    /\ UNCHANGED <<queueVars, job, token, blocked, faults, schemaVars>>

(* ErrNotFound: the row is gone or leased anew, or a block exists between   *)
(* the two users; deliverPush returns and leaves the row as it is.          *)
GiveUp(w) ==
    /\ spc[w] = "claimed"
    /\ ~HoldsLease(w) \/ job[w] \in blocked
    /\ spc' = [spc EXCEPT ![w] = "gaveUp"]
    /\ UNCHANGED <<queueVars, job, addr, reply, token, blocked, faults, schemaVars>>

Rest(w) ==
    /\ spc' = [spc EXCEPT ![w] = "idle"]
    /\ job' = [job EXCEPT ![w] = NoDelivery]
    /\ addr' = [addr EXCEPT ![w] = NoToken]
    /\ reply' = [reply EXCEPT ![w] = "none"]

Return(w) ==
    /\ spc[w] = "gaveUp"
    /\ Rest(w)
    /\ UNCHANGED <<queueVars, token, blocked, faults, schemaVars>>

(* The provider answers; a timeout is a retryable failure.  *)
ProviderReplies(w, r) ==
    /\ spc[w] = "sending"
    /\ r \in {"ok", "invalid", "permanent", "retryable"}
    /\ Replied(w, r)
    /\ UNCHANGED <<queueVars, job, addr, token, blocked, faults, schemaVars>>

(* A failed lease transaction leaves the row leased; a shutdown hands it    *)
(* back at once.                                                            *)
LeaseCallFails(w) ==
    /\ spc[w] \in {"claimed", "sending"}
    /\ Fault
    /\ \/ Rest(w)
       \/ Replied(w, "shutdown") /\ UNCHANGED <<job, addr>>
    /\ UNCHANGED <<queueVars, token, blocked, schemaVars>>

(* What deliverPush records for a reply. *)
Outcome(w) ==
    CASE reply[w] = "ok" -> "delivered"
      [] reply[w] = "invalid" -> "invalid_token"
      [] reply[w] = "no_token" -> "canceled"
      [] reply[w] = "permanent" -> "dead_letter"
      [] reply[w] = "retryable" ->
            IF dtries[job[w]] >= MaxAttempts THEN "dead_letter" ELSE "pending"
      [] reply[w] = "shutdown" -> "pending"

Settle(w, result) ==
    /\ dstatus' = [dstatus EXCEPT ![job[w]] = result]
    /\ dlock' = [dlock EXCEPT ![job[w]] = "none"]
    /\ dlease' = [dlease EXCEPT ![job[w]] = NoSender]
    /\ UNCHANGED dtries

(* FinishPushDelivery: nothing happens unless the lease is still held. *)
FinishPushDelivery(w) ==
    /\ spc[w] = "replied"
    /\ reply[w] # "invalid"
    /\ IF HoldsLease(w)
         THEN /\ Settle(w, Outcome(w))
              /\ ddue' = [ddue EXCEPT ![job[w]] = (reply[w] = "shutdown")]
         ELSE UNCHANGED queueVars
    /\ Rest(w)
    /\ UNCHANGED <<token, blocked, faults, schemaVars>>

(* Faulty variant: the device loses whatever token it has. *)
InvalidateAnyToken(w) ==
    LET d == DeviceOf(job[w])
    IN  /\ spc[w] = "replied"
        /\ reply[w] = "invalid"
        /\ IF HoldsLease(w)
             THEN /\ ~DeviceShared(d)
                  /\ Settle(w, Outcome(w))
                  /\ ddue' = [ddue EXCEPT ![job[w]] = FALSE]
                  /\ token' = [token EXCEPT ![d] = NoToken]
             ELSE UNCHANGED <<queueVars, token>>
        /\ Rest(w)
        /\ UNCHANGED <<blocked, faults, schemaVars>>

(* InvalidatePushDelivery: the device loses its token only if it is still   *)
(* the one the provider rejected.                                           *)
InvalidatePushDelivery(w) ==
    LET d == DeviceOf(job[w])
    IN  /\ spc[w] = "replied"
        /\ reply[w] = "invalid"
        /\ IF HoldsLease(w)
             THEN /\ token[d] = addr[w] => ~DeviceShared(d)
                  /\ Settle(w, Outcome(w))
                  /\ ddue' = [ddue EXCEPT ![job[w]] = FALSE]
                  /\ token' = [token EXCEPT ![d] = IF @ = addr[w] THEN NoToken ELSE @]
             ELSE UNCHANGED <<queueVars, token>>
        /\ Rest(w)
        /\ UNCHANGED <<blocked, faults, schemaVars>>

(* The call that records the outcome fails, or the process dies anywhere:   *)
(* the row stays leased until the two minutes are over.                     *)
SenderFails(w) ==
    /\ spc[w] # "idle"
    /\ Fault
    /\ Rest(w)
    /\ UNCHANGED <<queueVars, token, blocked, schemaVars>>

(***************************************************************************)
(* Deletions.                                                              *)
(***************************************************************************)

RemoveDeliveries(S, how) ==
    /\ dstatus' = [x \in Delivery |-> IF x \in S THEN how ELSE dstatus[x]]
    /\ dlock' = [x \in Delivery |-> IF x \in S THEN "none" ELSE dlock[x]]
    /\ dlease' = [x \in Delivery |-> IF x \in S THEN NoSender ELSE dlease[x]]
    /\ ddue' = [x \in Delivery |-> IF x \in S THEN FALSE ELSE ddue[x]]
    /\ dtries' = [x \in Delivery |-> IF x \in S THEN 0 ELSE dtries[x]]

DeliveriesOf(u) == {x \in Delivery : RowPresent(x) /\ OwnerOf[DeviceOf(x)] = u}

(* Faulty variant: the barrier is not taken. *)
PurgeUnfenced(u, cascade) ==
    /\ u \in live
    /\ RemoveDeliveries(DeliveriesOf(u) \cup cascade, "removed")
    /\ token' = [d \in Device |-> IF OwnerOf[d] = u THEN NoToken ELSE token[d]]
    /\ UNCHANGED <<senderVars, blocked>>

(* deleteAccountTx: behind the exclusive barrier, the account's deliveries  *)
(* are deleted and its devices lose their tokens.                           *)
PurgeAccountPush(u, cascade) ==
    /\ u \in live
    /\ ~PushBarrierShared
    /\ RemoveDeliveries(DeliveriesOf(u) \cup cascade, "removed")
    /\ token' = [d \in Device |-> IF OwnerOf[d] = u THEN NoToken ELSE token[d]]
    /\ UNCHANGED <<senderVars, blocked>>

PrunePushDelivery(x) ==
    /\ dstatus[x] \in Terminal
    /\ RemoveDeliveries({x}, "pruned")
    /\ UNCHANGED <<senderVars, token, blocked, faults, schemaVars>>

(***************************************************************************)
(* The queue on its own: events are enqueued for the members of their      *)
(* conversation, as often as relays like.                                  *)
(***************************************************************************)

Enqueue(e) ==
    /\ EnqueuePushDeliveries(e, MemberOf[AggregateOf[e]])
    /\ UNCHANGED <<faults, schemaVars>>

EraseRecipient(u) ==
    /\ PurgeAccountPush(u, {})
    /\ live' = live \ {u}
    /\ UNCHANGED <<open, faults>>

SenderProgress(w) ==
    \/ BeginSend(w) \/ GiveUp(w) \/ Return(w)
    \/ \E r \in Reply : ProviderReplies(w, r)
    \/ FinishPushDelivery(w) \/ InvalidatePushDelivery(w)

PushNext ==
    \/ \E e \in Event : Enqueue(e)
    \/ \E d \in Device : ClearDevicePushToken(d) \/ \E t \in Token : UpsertDevice(d, t)
    \/ \E x \in Delivery : SetBlock(x) \/ DeliveryBecomesDue(x) \/ DeliveryLeaseExpires(x)
                             \/ PrunePushDelivery(x)
    \/ \E w \in Sender, x \in Delivery : LockPushDelivery(w, x)
    \/ \E w \in Sender : SenderProgress(w) \/ LeaseCallFails(w) \/ SenderFails(w)
    \/ \E u \in User : EraseRecipient(u)

PushSafety == PushInit /\ [][PushNext]_pushVars

(* Senders go on, timestamps pass, and a row that keeps being due is        *)
(* eventually in a batch: a parked lease hides the older rows before it.    *)
PushFairness ==
    /\ \A w \in Sender : WF_pushVars(SenderProgress(w))
    /\ \A x \in Delivery :
          /\ WF_pushVars(DeliveryBecomesDue(x)) /\ WF_pushVars(DeliveryLeaseExpires(x))
          /\ SF_pushVars(\E w \in Sender : LockPushDelivery(w, x))

PushSpec == PushSafety /\ PushFairness

(***************************************************************************)
(* Properties.                                                             *)
(***************************************************************************)

(* A delivery is handed to the provider by at most one sender at a time,    *)
(* however leases expire and rows are claimed again.                        *)
OneSender ==
    \A w1, w2 \in Sender :
        (spc[w1] = "sending" /\ spc[w2] = "sending" /\ job[w1] = job[w2]) => w1 = w2

(* While a push is on its way to the provider, the address it goes to is   *)
(* the current token of the recipient's own device and the recipient still *)
(* has an account: transfers, logouts and erasure wait for the send.       *)
SendsToCurrentOwner ==
    \A w \in Sender : spc[w] = "sending" =>
        /\ addr[w] = token[DeviceOf(job[w])]
        /\ OwnerOf[DeviceOf(job[w])] \in live

(* A nonempty push token has exactly one device owner (ARCHITECTURE.md), so *)
(* no account receives the pushes of another on a handed-over phone.        *)
TokenHasOneOwner ==
    \A d1, d2 \in Device : (token[d1] # NoToken /\ token[d1] = token[d2]) => d1 = d2

(* Erasing an account leaves no delivery row of its devices and no token,   *)
(* whatever was being enqueued or registered when it committed.             *)
NothingOfErased ==
    /\ \A x \in Delivery : RowPresent(x) => OwnerOf[DeviceOf(x)] \in live
    /\ \A d \in Device : token[d] # NoToken => OwnerOf[d] \in live

(* A recorded outcome is final: a sender that lost its lease and comes back *)
(* late neither revives nor overwrites it.                                  *)
OutcomeIsFinal ==
    [][\A x \in Delivery : dstatus[x] \in Terminal =>
          dstatus'[x] \in {dstatus[x], "removed", "pruned"}]_pushVars

(* A token registered after the send began survives the late verdict on    *)
(* the token it replaced.                                                   *)
FreshTokenSurvives ==
    [][\A w \in Sender :
          (spc[w] = "replied" /\ reply[w] = "invalid" /\ spc'[w] = "idle") =>
              \A d \in Device : token[d] # addr[w] => token'[d] = token[d]]_pushVars

(* Every queued delivery comes to an outcome, or is held by a block. *)
DeliverySettles ==
    \A x \in Delivery : (dstatus[x] = "pending") ~> (dstatus[x] # "pending" \/ x \in blocked)
=============================================================================
