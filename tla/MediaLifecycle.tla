---------------------------- MODULE MediaLifecycle ----------------------------
(***************************************************************************)
(* Uploads of one account: a reservation row, an upload capability given   *)
(* to the client, the object in the store, its verification under a lease, *)
(* and the media.delete events by which the relay removes objects.         *)
(*                                                                         *)
(* With OCI the client writes a staging key, and completion revokes the    *)
(* capability and renames the verified object to a key that only the       *)
(* backend writes.  With S3 the key stays and the capability cannot be     *)
(* revoked, but the URL is signed for the declared checksum.               *)
(*                                                                         *)
(* Time is one bit for every upload: `late' holds the uploads whose        *)
(* upload_valid_until, which is also expires_at, has passed.               *)
(***************************************************************************)
EXTENDS Naturals, FiniteSets

CONSTANTS
    Media,       \* media ids
    Completion,  \* requests to complete an upload; also the lease tokens
    Nobody,      \* no lease token, no avatar
    Earlier,     \* the avatar uploaded some time ago, or Nobody
    Providers,   \* which of "oci" and "s3" the deployment may use
    MaxPending,  \* MaxPendingCountPerUser and MaxPendingCountConversation
    MaxStored,   \* MaxStoredCountPerUser and MaxStoredCountConversation
    MaxPuts,     \* uploads the client starts
    MaxFaults    \* calls that fail and processes that die

ASSUME NobodyAssumption == Nobody \notin Media \cup Completion
ASSUME EarlierAssumption == Earlier \in Media \cup {Nobody}
ASSUME ProvidersAssumption == Providers \subseteq {"oci", "s3"}
ASSUME LimitsAssumption ==
    /\ MaxPending \in Nat \ {0} /\ MaxStored \in Nat \ {0}
    /\ MaxPuts \in Nat /\ MaxFaults \in Nat

VARIABLES
    provider,   \* CLUSTER_MEDIA_PROVIDER
    scope,      \* [Media -> "profile" or "conversation"]: the table of the row
    row,        \* [Media -> RowStatus]
    late,       \* uploads whose upload_valid_until has passed
    lease,      \* [Media -> Completion]: token of the verification lease in force
    avatar,     \* the media users.avatar_url refers to
    erased,     \* the account is erased
    open,       \* the conversation exists
    capability, \* [Media -> "none", "live" or "revoked"]: what the client holds
    inflight,   \* [Media -> Content]: a PUT the store has accepted
    puts,       \* number of PUTs so far
    object,     \* [Media -> [Key -> Content]]: the object store
    stage,      \* [Completion -> Stage]
    target,     \* [Completion -> Media]: what the request works on
    deletes,    \* unpublished media.delete events
    cleared,    \* <<event, key>>: deleted in the event's current attempt
    faults      \* number of faults so far

rowVars == <<row, lease, avatar>>
accountVars == <<provider, erased, open>>
clientVars == <<capability, inflight, puts>>
workVars == <<stage, target>>
vars == <<accountVars, scope, rowVars, late, clientVars, object, workVars, deletes, cleared, faults>>

RowStatus == {"none", "pending", "ready", "deleted", "gone"}
Key == {"staging", "published"}
Content == {"none", "good", "bad"}
Stage == {"idle", "claimed", "revoked", "inspected", "published", "rejected", "failed"}
DeleteEvent == [media : Media, keys : SUBSET Key, after : {"now", "grace"},
                why : {"ready", "delete", "erase", "drop"}]

TypeOK ==
    /\ provider \in Providers
    /\ scope \in [Media -> {"profile", "conversation"}]
    /\ row \in [Media -> RowStatus]
    /\ late \subseteq Media
    /\ lease \in [Media -> Completion \cup {Nobody}]
    /\ avatar \in Media \cup {Nobody}
    /\ erased \in BOOLEAN
    /\ open \in BOOLEAN
    /\ capability \in [Media -> {"none", "live", "revoked"}]
    /\ inflight \in [Media -> Content]
    /\ puts \in 0..MaxPuts
    /\ object \in [Media -> [Key -> Content]]
    /\ stage \in [Completion -> Stage]
    /\ target \in [Completion -> Media \cup {Nobody}]
    /\ deletes \subseteq DeleteEvent
    /\ cleared \subseteq deletes \X Key
    /\ faults \in 0..MaxFaults

\* The key a ready row serves: what FinalizeUpload returned.
ServedKey == IF provider = "oci" THEN "published" ELSE "staging"

Init ==
    /\ provider \in Providers
    /\ scope = [m \in Media |-> "profile"]
    /\ row = [m \in Media |-> IF m = Earlier THEN "ready" ELSE "none"]
    /\ late = {Earlier} \ {Nobody}
    /\ lease = [m \in Media |-> Nobody]
    /\ avatar = Earlier
    /\ erased = FALSE
    /\ open = TRUE
    /\ capability = [m \in Media |-> IF m = Earlier THEN "revoked" ELSE "none"]
    /\ inflight = [m \in Media |-> "none"]
    /\ puts = 0
    /\ object = [m \in Media |-> [k \in Key |-> IF m = Earlier /\ k = ServedKey THEN "good" ELSE "none"]]
    /\ stage = [c \in Completion |-> "idle"]
    /\ target = [c \in Completion |-> Nobody]
    /\ deletes = {}
    /\ cleared = {}
    /\ faults = 0

-----------------------------------------------------------------------------
(* Rows and their deletion events.                                          *)

Fault == faults < MaxFaults /\ faults' = faults + 1

Delete(m, keys, after, why) ==
    [media |-> m, keys |-> keys, after |-> after, why |-> why]

\* A row becomes "deleted" and both of its keys are to be removed, but not
\* before no upload can arrive any more: mediaDeleteNotBefore.
Retire(S) ==
    /\ row' = [m \in Media |-> IF m \in S THEN "deleted" ELSE row[m]]
    /\ lease' = [m \in Media |-> IF m \in S THEN Nobody ELSE lease[m]]

(* Faulty variant: the event is due at once. *)
RetirementNow(m) == Delete(m, Key, "now", "delete")
Retirement(m) == Delete(m, Key, "grace", "delete")

\* Conversation rows are mutated under the conversation's lock by a member;
\* a conversation that is gone has no rows.
OwnerActs == ~erased

-----------------------------------------------------------------------------
(* Reservation and upload.                                                  *)

UserQuota ==
    /\ Cardinality({m \in Media : row[m] = "pending"}) + 1 <= MaxPending
    /\ Cardinality({m \in Media : row[m] \in {"pending", "ready"}}) + 1 <= MaxStored

ConversationQuota ==
    LET rows == {m \in Media : scope[m] = "conversation"} IN
    /\ Cardinality({m \in rows : row[m] = "pending"}) + 1 <= MaxPending
    /\ Cardinality({m \in rows : row[m] \in {"pending", "ready"}}) + 1 <= MaxStored

CreateMedia(m) ==
    /\ OwnerActs /\ open /\ row[m] = "none"
    /\ UserQuota /\ ConversationQuota
    /\ row' = [row EXCEPT ![m] = "pending"]
    /\ scope' = [scope EXCEPT ![m] = "conversation"]
    /\ UNCHANGED <<accountVars, lease, avatar, late, clientVars, object, workVars, deletes, cleared, faults>>

CreateProfileMedia(m) ==
    /\ OwnerActs /\ row[m] = "none"
    /\ UserQuota
    /\ row' = [row EXCEPT ![m] = "pending"]
    /\ UNCHANGED <<accountVars, scope, lease, avatar, late, clientVars, object, workVars, deletes, cleared, faults>>

\* writeMediaUpload hands the URL out once the capability's identity is in the
\* row, which must still be pending.  S3 has no such identity to persist.
IssueUpload(m) ==
    /\ row[m] # "none" /\ capability[m] = "none" /\ m \notin late
    /\ provider = "oci" => (row[m] = "pending" /\ OwnerActs)
    /\ capability' = [capability EXCEPT ![m] = "live"]
    /\ UNCHANGED <<accountVars, scope, rowVars, late, inflight, puts, object, workVars, deletes, cleared, faults>>

\* RejectPendingMedia, which asks for no lease: the provider failed, or the
\* reservation had expired when the URL was to be issued or the upload completed.
RejectPendingMedia(m) ==
    /\ OwnerActs /\ row[m] = "pending"
    /\ \/ m \in late /\ UNCHANGED <<capability, faults>>
       \/ /\ capability[m] = "none" /\ Fault
          /\ capability' = [capability EXCEPT ![m] = "revoked"]
    /\ Retire({m})
    /\ deletes' = deletes \cup {Retirement(m)}
    /\ UNCHANGED <<accountVars, scope, avatar, late, inflight, puts, object, workVars, cleared>>

\* What a PUT may contain: an S3 URL is signed for the checksum.
Uploadable == IF provider = "s3" THEN {"good"} ELSE {"good", "bad"}

PutStarts(m) ==
    /\ capability[m] = "live" /\ m \notin late
    /\ inflight[m] = "none" /\ puts < MaxPuts
    /\ \E content \in Uploadable : inflight' = [inflight EXCEPT ![m] = content]
    /\ puts' = puts + 1
    /\ UNCHANGED <<accountVars, scope, rowVars, late, capability, object, workVars, deletes, cleared, faults>>

PutEnds(m) ==
    /\ inflight[m] # "none"
    /\ inflight' = [inflight EXCEPT ![m] = "none"]
    /\ object' = [object EXCEPT ![m].staging = inflight[m]]
    /\ UNCHANGED <<accountVars, scope, rowVars, late, capability, puts, workVars, deletes, cleared, faults>>

TimePasses(m) ==
    /\ row[m] # "none" /\ m \notin late
    /\ late' = late \cup {m}
    /\ UNCHANGED <<accountVars, scope, rowVars, clientVars, object, workVars, deletes, cleared, faults>>

-----------------------------------------------------------------------------
(* Completion of an upload.                                                 *)

Busy(m) == \E c \in Completion : target[c] = m

Holds(c, m) == row[m] = "pending" /\ lease[m] = c

Goto(c, s) ==
    /\ stage' = [stage EXCEPT ![c] = s]
    /\ UNCHANGED target

Ends(c) ==
    /\ stage' = [stage EXCEPT ![c] = "idle"]
    /\ target' = [target EXCEPT ![c] = Nobody]

(* Faulty variant: the claim does not look at verification_locked_until. *)
ClaimTaken(c, m) ==
    /\ OwnerActs /\ stage[c] = "idle" /\ capability[m] # "none"
    /\ row[m] = "pending" /\ m \notin late
    /\ lease' = [lease EXCEPT ![m] = c]
    /\ stage' = [stage EXCEPT ![c] = "claimed"]
    /\ target' = [target EXCEPT ![c] = m]
    /\ UNCHANGED <<accountVars, scope, row, avatar, late, clientVars, object, deletes, cleared, faults>>
ClaimMediaVerification(c, m) ==
    /\ OwnerActs /\ stage[c] = "idle" /\ capability[m] # "none"
    /\ row[m] = "pending" /\ m \notin late /\ lease[m] = Nobody
    /\ lease' = [lease EXCEPT ![m] = c]
    /\ stage' = [stage EXCEPT ![c] = "claimed"]
    /\ target' = [target EXCEPT ![c] = m]
    /\ UNCHANGED <<accountVars, scope, row, avatar, late, clientVars, object, deletes, cleared, faults>>

\* The lease lasts fifteen seconds longer than a completion request may.
LeaseLapses(m) ==
    /\ lease[m] # Nobody /\ target[lease[m]] # m
    /\ lease' = [lease EXCEPT ![m] = Nobody]
    /\ UNCHANGED <<accountVars, scope, row, avatar, late, clientVars, object, workVars, deletes, cleared, faults>>

\* FinalizeUpload with OCI, first call: revoke the write capability.
RevokeCapability(c) ==
    /\ provider = "oci" /\ stage[c] = "claimed"
    /\ capability' = [capability EXCEPT ![target[c]] = "revoked"]
    /\ Goto(c, "revoked")
    /\ UNCHANGED <<accountVars, scope, rowVars, late, inflight, puts, object, deletes, cleared, faults>>

\* headVerified of the published key: a mismatch is definitive.
Judged(content, ifMissing) ==
    CASE content = "good" -> "published"
      [] content = "bad" -> "rejected"
      [] content = "none" -> ifMissing

\* The published and then the staging key.
Inspect(c) ==
    /\ stage[c] = "revoked"
    /\ LET found == object[target[c]] IN
       Goto(c, Judged(found.published, IF found.staging = "good" THEN "inspected" ELSE "rejected"))
    /\ UNCHANGED <<accountVars, scope, rowVars, late, clientVars, object, deletes, cleared, faults>>

\* RenameObject moves the version that was inspected (SrcObjIfMatchETag) to a
\* key that does not exist (NewObjIfNoneMatchETag).
Renames(found) == found.staging = "good" /\ found.published = "none"

\* The answer is judged by the published key alone; it may be lost.
RenameObject(c) ==
    /\ stage[c] = "inspected"
    /\ LET m == target[c]
           found == object[m]
       IN  /\ object' = IF Renames(found)
                        THEN [object EXCEPT ![m] = [staging |-> "none", published |-> found.staging]]
                        ELSE object
           /\ \/ Goto(c, Judged(object'[m].published, "failed")) /\ UNCHANGED faults
              \/ Goto(c, "failed") /\ Fault
    /\ UNCHANGED <<accountVars, scope, rowVars, late, clientVars, deletes, cleared>>

\* FinalizeUpload with S3 reads the object and compares the checksum.
Verify(c) ==
    /\ provider = "s3" /\ stage[c] = "claimed"
    /\ Goto(c, IF object[target[c]].staging = "good" THEN "published" ELSE "rejected")
    /\ UNCHANGED <<accountVars, scope, rowVars, late, clientVars, object, deletes, cleared, faults>>

CallFails(c) ==
    /\ stage[c] \in {"claimed", "revoked", "inspected"}
    /\ Fault
    /\ Goto(c, "failed")
    /\ UNCHANGED <<accountVars, scope, rowVars, late, clientVars, object, deletes, cleared>>

CompletionDies(c) ==
    /\ stage[c] # "idle"
    /\ Fault
    /\ Ends(c)
    /\ UNCHANGED <<accountVars, scope, rowVars, late, clientVars, object, deletes, cleared>>

ReleaseMediaVerification(c) ==
    /\ stage[c] = "failed"
    /\ lease' = IF Holds(c, target[c]) /\ OwnerActs
                THEN [lease EXCEPT ![target[c]] = Nobody] ELSE lease
    /\ Ends(c)
    /\ UNCHANGED <<accountVars, scope, row, avatar, late, clientVars, object, deletes, cleared, faults>>

\* After a definitive failure, and after a publication that came too late.
RejectMediaVerification(c) ==
    LET m == target[c] IN
    /\ stage[c] = "rejected" \/ (stage[c] = "published" /\ m \in late)
    /\ IF Holds(c, m) /\ OwnerActs
       THEN Retire({m}) /\ deletes' = deletes \cup {Retirement(m)}
       ELSE UNCHANGED <<row, lease, deletes>>
    /\ Ends(c)
    /\ UNCHANGED <<accountVars, scope, avatar, late, clientVars, object, cleared, faults>>

(* Faulty variant: the key is queued although the row still serves it. *)
LeftoverAlways(m) == {Delete(m, {"staging"}, "grace", "ready")}
\* The staging key of an OCI upload is to be removed, the served key is not.
Leftover(m) ==
    IF ServedKey = "staging" THEN {} ELSE {Delete(m, {"staging"}, "grace", "ready")}

MarkConversationMediaReady(c) ==
    LET m == target[c] IN
    /\ stage[c] = "published" /\ scope[m] = "conversation"
    /\ Holds(c, m) /\ m \notin late /\ OwnerActs
    /\ row' = [row EXCEPT ![m] = "ready"]
    /\ lease' = [lease EXCEPT ![m] = Nobody]
    /\ deletes' = deletes \cup Leftover(m)
    /\ Ends(c)
    /\ UNCHANGED <<accountVars, scope, avatar, late, clientVars, object, cleared, faults>>

\* The new avatar takes the place of the old one, whose row is retired.
MarkProfileMediaReady(c) ==
    LET m == target[c]
        replaced == {n \in {avatar} \ {m, Nobody} : row[n] \in {"pending", "ready"}}
    IN  /\ stage[c] = "published" /\ scope[m] = "profile"
        /\ Holds(c, m) /\ m \notin late /\ OwnerActs
        /\ row' = [n \in Media |-> IF n = m THEN "ready"
                                   ELSE IF n \in replaced THEN "deleted" ELSE row[n]]
        /\ lease' = [n \in Media |-> IF n \in replaced \cup {m} THEN Nobody ELSE lease[n]]
        /\ avatar' = m
        /\ deletes' = deletes \cup Leftover(m) \cup {Retirement(n) : n \in replaced}
        /\ Ends(c)
        /\ UNCHANGED <<accountVars, scope, late, clientVars, object, cleared, faults>>

\* The row went away while the object was being published.
MarkMediaReadyFails(c) ==
    /\ stage[c] = "published"
    /\ ~ Holds(c, target[c]) \/ ~ OwnerActs
    /\ Ends(c)
    /\ UNCHANGED <<accountVars, scope, rowVars, late, clientVars, object, deletes, cleared, faults>>

-----------------------------------------------------------------------------
(* Deletion.                                                                *)

(* Faulty variant: users.avatar_url keeps the reference. *)
DeleteMediaOnly(m) ==
    /\ OwnerActs /\ row[m] \in {"pending", "ready"}
    /\ Retire({m})
    /\ deletes' = deletes \cup {Retirement(m)}
    /\ UNCHANGED <<accountVars, scope, avatar, late, clientVars, object, workVars, cleared, faults>>
DeleteMedia(m) ==
    /\ OwnerActs /\ row[m] \in {"pending", "ready"}
    /\ Retire({m})
    /\ avatar' = IF avatar = m THEN Nobody ELSE avatar
    /\ deletes' = deletes \cup {Retirement(m)}
    /\ UNCHANGED <<accountVars, scope, late, clientVars, object, workVars, cleared, faults>>

\* RunPendingCleanup; a verification lease does not protect the row.
ExpirePendingMedia(m) ==
    /\ row[m] = "pending" /\ m \in late
    /\ Retire({m})
    /\ deletes' = deletes \cup {Retirement(m)}
    /\ UNCHANGED <<accountVars, scope, avatar, late, clientVars, object, workVars, cleared, faults>>

RowsOf(s) == {m \in Media : scope[m] = s /\ row[m] \in {"pending", "ready", "deleted"}}

Remove(S) ==
    /\ row' = [m \in Media |-> IF m \in S THEN "gone" ELSE row[m]]
    /\ lease' = [m \in Media |-> IF m \in S THEN Nobody ELSE lease[m]]

\* By the owner of the conversation, who may be the account or its successor.
DeleteConversation ==
    /\ open
    /\ open' = FALSE
    /\ Remove(RowsOf("conversation"))
    /\ deletes' = deletes \cup {Delete(m, Key, "grace", "drop") : m \in RowsOf("conversation")}
    /\ UNCHANGED <<provider, erased, scope, avatar, late, clientVars, object, workVars, cleared, faults>>

\* Erasure removes all profile rows, the account's pending rows and, where the
\* account was the last member, the conversation with all of its rows.  What
\* is not pending is to be removed at once.
ErasureDelay(m) == IF row[m] = "pending" THEN "grace" ELSE "now"

EraseAccount(lastMember) ==
    LET taken == {m \in RowsOf("conversation") : lastMember \/ row[m] = "pending"}
        rows == RowsOf("profile") \cup taken
    IN  /\ ~erased /\ (lastMember => open)
        /\ erased' = TRUE
        /\ open' = (open /\ ~lastMember)
        /\ avatar' = Nobody
        /\ Remove(rows)
        /\ deletes' = deletes \cup {Delete(m, Key, ErasureDelay(m), "erase") : m \in rows}
        /\ UNCHANGED <<provider, scope, late, clientVars, object, workVars, cleared, faults>>

\* Three minutes after the capability expired and after the event was queued;
\* a completion request ends within two, an accepted PUT "normally".
Due(e) ==
    \/ e.after = "now"
    \/ /\ e.media \in late
       /\ inflight[e.media] = "none"
       /\ ~Busy(e.media)

\* The relay's deleteMedia removes the keys of an event in no particular order.
RemoveObject(e, k) ==
    /\ e \in deletes /\ Due(e) /\ k \in e.keys /\ <<e, k>> \notin cleared
    /\ object' = [object EXCEPT ![e.media][k] = "none"]
    /\ cleared' = cleared \cup {<<e, k>>}
    /\ UNCHANGED <<accountVars, scope, rowVars, late, clientVars, workVars, deletes, faults>>

\* A key fails or the relay dies: the next attempt begins with the first key.
AttemptFails(e) ==
    /\ e \in deletes /\ \E k \in e.keys : <<e, k>> \in cleared
    /\ Fault
    /\ cleared' = {x \in cleared : x[1] # e}
    /\ UNCHANGED <<accountVars, scope, rowVars, late, clientVars, object, workVars, deletes>>

FinishDelete(e) ==
    /\ e \in deletes /\ \A k \in e.keys : <<e, k>> \in cleared
    /\ deletes' = deletes \ {e}
    /\ cleared' = {x \in cleared : x[1] # e}
    /\ UNCHANGED <<accountVars, scope, rowVars, late, clientVars, object, workVars, faults>>

-----------------------------------------------------------------------------
Next ==
    \/ \E m \in Media :
        \/ CreateMedia(m) \/ CreateProfileMedia(m) \/ IssueUpload(m)
        \/ RejectPendingMedia(m) \/ PutStarts(m) \/ PutEnds(m) \/ TimePasses(m)
        \/ LeaseLapses(m) \/ DeleteMedia(m) \/ ExpirePendingMedia(m)
    \/ \E c \in Completion :
        \/ \E m \in Media : ClaimMediaVerification(c, m)
        \/ RevokeCapability(c) \/ Inspect(c) \/ RenameObject(c) \/ Verify(c)
        \/ CallFails(c) \/ CompletionDies(c) \/ ReleaseMediaVerification(c)
        \/ RejectMediaVerification(c) \/ MarkConversationMediaReady(c)
        \/ MarkProfileMediaReady(c) \/ MarkMediaReadyFails(c)
    \/ DeleteConversation
    \/ \E lastMember \in BOOLEAN : EraseAccount(lastMember)
    \/ \E e \in deletes :
        \/ \E k \in Key : RemoveObject(e, k)
        \/ AttemptFails(e) \/ FinishDelete(e)

Spec == Init /\ [][Next]_vars

-----------------------------------------------------------------------------
(* Properties.                                                              *)

\* What a ready row serves exists and is what was declared: no late PUT, no
\* competing completion and no deletion event touches it.
ReadyIsVerified ==
    \A m \in Media : row[m] = "ready" => object[m][ServedKey] = "good"

\* The account's ready profile media and users.avatar_url name the same one:
\* a replaced avatar is deleted, a deleted one is not referred to.
AvatarIsReady ==
    {m \in Media : scope[m] = "profile" /\ row[m] = "ready"} = {avatar} \ {Nobody}

\* Rows, leases and requests are well formed, the avatar among them.
MediaWellFormed == TypeOK /\ AvatarIsReady

Unserved(m) ==
    CASE row[m] \in {"deleted", "gone"} -> Key
      [] row[m] = "ready" -> Key \ {ServedKey}
      [] OTHER -> {}

\* Every object that no row serves is still to be removed by some event.
Swept ==
    \A m \in Media : \A k \in Unserved(m) :
        object[m][k] # "none" =>
            \E e \in deletes : e.media = m /\ k \in e.keys /\ <<e, k>> \notin cleared

\* The same with the exception of what erasure does to a ready S3 upload, whose
\* URL outlives the immediate deletion.
NoOrphanObject == provider = "oci" \/ ~erased => Swept

\* Two requests never publish the same upload.
OneVerifier ==
    \A c, d \in Completion :
        stage[c] # "idle" /\ target[c] = target[d] => c = d
=============================================================================
