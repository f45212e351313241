----------------------------- MODULE MediaProofs -----------------------------
(***************************************************************************)
(* Proofs about MediaLifecycle for any number of uploads and of requests   *)
(* that complete them, any limits, either provider and any faults.         *)
(*                                                                         *)
(* Three things hold it together.  A request that works on an upload has   *)
(* its lease for as long as the row is pending, so requests do not meet.   *)
(* A row that is pending or served has no event that removes what it       *)
(* serves.  And where an object may still appear under a key that no row   *)
(* serves, an event waits that will not remove the key before nothing can  *)
(* appear any more.                                                        *)
(***************************************************************************)
EXTENDS MediaLifecycle, TLAPS

USE NobodyAssumption, EarlierAssumption, ProvidersAssumption, LimitsAssumption

(* A request has a target while it works, and the lease while it can win. *)
WorkersHold ==
    \A c \in Completion :
        /\ target[c] = Nobody <=> stage[c] = "idle"
        /\ target[c] # Nobody =>
              /\ row[target[c]] \notin {"none", "ready"}
              /\ row[target[c]] = "pending" => lease[target[c]] = c

(* With S3 there is one key, and only what was declared can be written to it. *)
OneKeyWithS3 ==
    provider = "s3" =>
        /\ \A c \in Completion : stage[c] \notin {"revoked", "inspected"}
        /\ \A m \in Media : inflight[m] # "bad" /\ object[m].published = "none"

(* What a request has published is there while its row can become ready. *)
PublishedIsGood ==
    \A c \in Completion :
        stage[c] = "published" /\ row[target[c]] = "pending" => object[target[c]][ServedKey] = "good"

(* Which events there can be for a row. *)
EventsMatch ==
    \A e \in deletes :
        /\ \/ row[e.media] \in {"deleted", "gone"}
           \/ row[e.media] = "ready" /\ e.keys = {"staging"} /\ ServedKey = "published" /\ e.why = "ready"
        /\ e.why \in {"erase", "drop"} => row[e.media] = "gone"

(* Something may still be written to the key. *)
CanAppear(m, k) ==
    IF k = "staging" THEN m \notin late \/ inflight[m] # "none" ELSE Busy(m)

Pending(e, m, k) == e.media = m /\ k \in e.keys /\ <<e, k>> \notin cleared

(* Where something may appear, an event waits for it. *)
Expected ==
    \A m \in Media : \A k \in Unserved(m) :
        CanAppear(m, k) => \E e \in deletes : Pending(e, m, k) /\ e.after = "grace"

AllExpected == provider = "oci" \/ ~erased => Expected

MediaInv ==
    /\ TypeOK /\ WorkersHold /\ OneVerifier /\ OneKeyWithS3
    /\ ReadyIsVerified /\ PublishedIsGood /\ EventsMatch /\ AvatarIsReady
    /\ NoOrphanObject /\ AllExpected

(***************************************************************************)
(* Types.                                                                  *)
(***************************************************************************)

LEMMA ServedKeyFacts ==
    TypeOK => /\ provider \in {"oci", "s3"}
              /\ provider = "oci" => ServedKey = "published"
              /\ provider = "s3" => ServedKey = "staging"
BY DEF TypeOK, ServedKey

(* A request that works has an upload. *)
LEMMA Works ==
    ASSUME MediaInv, NEW c \in Completion, stage[c] # "idle"
    PROVE  target[c] \in Media
BY DEF MediaInv, TypeOK, WorkersHold

LEMMA JudgedType ==
    ASSUME NEW content \in Content, NEW s \in Stage
    PROVE  /\ Judged(content, s) \in Stage
           /\ content = "good" => Judged(content, s) = "published"
           /\ content = "bad" => Judged(content, s) = "rejected"
           /\ content = "none" => Judged(content, s) = s
BY DEF Judged, Content, Stage

LEMMA EventTypes ==
    ASSUME NEW m \in Media, NEW keys \in SUBSET Key, NEW after \in {"now", "grace"},
           NEW why \in {"ready", "delete", "erase", "drop"}
    PROVE  Delete(m, keys, after, why) \in DeleteEvent
BY DEF Delete, DeleteEvent

(* Every step keeps the variables in their types. *)
LEMMA TypeStep == MediaInv /\ [Next]_vars => TypeOK'
<1> SUFFICES ASSUME MediaInv, [Next]_vars PROVE TypeOK'
  OBVIOUS
<1>0. TypeOK
  BY DEF MediaInv
<1> USE DEF rowVars, accountVars, clientVars, workVars
<1>1. ASSUME NEW m \in Media,
             \/ CreateMedia(m) \/ CreateProfileMedia(m) \/ IssueUpload(m) \/ TimePasses(m) \/ LeaseLapses(m)
      PROVE  TypeOK'
  BY <1>0, <1>1 DEF TypeOK, CreateMedia, CreateProfileMedia, IssueUpload, TimePasses, LeaseLapses, RowStatus
<1>2. ASSUME NEW m \in Media, PutStarts(m) \/ PutEnds(m) PROVE TypeOK'
  <2>1. CASE PutStarts(m)
    <3>1. Uploadable \subseteq Content
      BY DEF Uploadable, Content
    <3> QED
      BY <1>0, <2>1, <3>1 DEF TypeOK, PutStarts
  <2>2. CASE PutEnds(m)
    BY <1>0, <2>2 DEF TypeOK, PutEnds, Content
  <2> QED
    BY <1>2, <2>1, <2>2
<1>3. ASSUME NEW S \in SUBSET Media, Retire(S)
      PROVE  row' \in [Media -> RowStatus] /\ lease' \in [Media -> Completion \cup {Nobody}]
  BY <1>0, <1>3 DEF TypeOK, Retire, RowStatus
<1>4. ASSUME NEW S \in SUBSET Media, Remove(S)
      PROVE  row' \in [Media -> RowStatus] /\ lease' \in [Media -> Completion \cup {Nobody}]
  BY <1>0, <1>4 DEF TypeOK, Remove, RowStatus
<1>5. \A m \in Media : Retirement(m) \in DeleteEvent
  BY EventTypes DEF Retirement, Key
<1>6. \A m \in Media : Leftover(m) \subseteq DeleteEvent
  BY EventTypes DEF Leftover, Key
<1>7. ASSUME NEW m \in Media, RejectPendingMedia(m) \/ DeleteMedia(m) \/ ExpirePendingMedia(m)
      PROVE  TypeOK'
  <2>1. Retire({m}) /\ deletes' = deletes \cup {Retirement(m)}
    BY <1>7 DEF RejectPendingMedia, DeleteMedia, ExpirePendingMedia
  <2>2. row' \in [Media -> RowStatus] /\ lease' \in [Media -> Completion \cup {Nobody}]
    BY <1>3, <2>1
  <2>3. deletes' \subseteq DeleteEvent /\ cleared' = cleared /\ cleared \subseteq deletes' \X Key
    BY <1>0, <1>5, <1>7, <2>1 DEF TypeOK, RejectPendingMedia, DeleteMedia, ExpirePendingMedia
  <2>4. CASE RejectPendingMedia(m)
    <3>1. capability' \in [Media -> {"none", "live", "revoked"}] /\ faults' \in 0..MaxFaults
      BY <1>0, <2>4 DEF TypeOK, RejectPendingMedia, Fault
    <3> QED
      BY <1>0, <2>2, <2>3, <2>4, <3>1 DEF TypeOK, RejectPendingMedia
  <2>5. CASE DeleteMedia(m)
    BY <1>0, <2>2, <2>3, <2>5 DEF TypeOK, DeleteMedia
  <2>6. CASE ExpirePendingMedia(m)
    BY <1>0, <2>2, <2>3, <2>6 DEF TypeOK, ExpirePendingMedia
  <2> QED
    BY <1>7, <2>4, <2>5, <2>6
<1>8. ASSUME NEW c \in Completion, NEW m \in Media, ClaimMediaVerification(c, m) PROVE TypeOK'
  BY <1>0, <1>8 DEF TypeOK, ClaimMediaVerification, Stage
<1>9. ASSUME NEW c \in Completion, \/ RevokeCapability(c) \/ Verify(c) \/ CallFails(c) \/ CompletionDies(c)
                                   \/ ReleaseMediaVerification(c) \/ MarkMediaReadyFails(c)
      PROVE  TypeOK'
  <2>1. CASE RevokeCapability(c) \/ Verify(c)
    BY <1>0, <2>1 DEF TypeOK, RevokeCapability, Verify, Goto, Stage
  <2>2. CASE CallFails(c) \/ CompletionDies(c)
    BY <1>0, <2>2 DEF TypeOK, CallFails, CompletionDies, Goto, Ends, Stage, Fault
  <2>3. CASE ReleaseMediaVerification(c) \/ MarkMediaReadyFails(c)
    BY <1>0, <2>3 DEF TypeOK, ReleaseMediaVerification, MarkMediaReadyFails, Ends, Stage
  <2> QED
    BY <1>9, <2>1, <2>2, <2>3
<1>10. ASSUME NEW c \in Completion, Inspect(c) PROVE TypeOK'
  <2>1. target[c] \in Media
    BY <1>10, Works DEF Inspect
  <2>2. object[target[c]].published \in Content
    BY <1>0, <2>1 DEF TypeOK, Key
  <2>3. stage' \in [Completion -> Stage]
    BY <1>0, <1>10, <2>2, JudgedType DEF TypeOK, Inspect, Goto, Stage
  <2> QED
    BY <1>0, <1>10, <2>3 DEF TypeOK, Inspect, Goto
<1>11. ASSUME NEW c \in Completion, RenameObject(c) PROVE TypeOK'
  <2>1. target[c] \in Media
    BY <1>11, Works DEF RenameObject
  <2>2. object' \in [Media -> [Key -> Content]]
    <3>1. object[target[c]].staging \in Content
      BY <1>0, <2>1 DEF TypeOK, Key
    <3>2. [staging |-> "none", published |-> object[target[c]].staging] \in [Key -> Content]
      BY <3>1 DEF Key, Content
    <3> QED
      BY <1>0, <1>11, <2>1, <3>2 DEF TypeOK, RenameObject
  <2>3. object'[target[c]].published \in Content
    BY <2>1, <2>2 DEF Key
  <2>4. stage' \in [Completion -> Stage]
    BY <1>0, <1>11, <2>3, JudgedType DEF TypeOK, RenameObject, Goto, Stage
  <2> QED
    BY <1>0, <1>11, <2>2, <2>4 DEF TypeOK, RenameObject, Goto, Fault
<1>12. ASSUME NEW c \in Completion, RejectMediaVerification(c) PROVE TypeOK'
  <2>1. target[c] \in Media
    BY <1>12, Works DEF RejectMediaVerification
  <2>2. /\ row' \in [Media -> RowStatus] /\ lease' \in [Media -> Completion \cup {Nobody}]
        /\ deletes' \subseteq DeleteEvent /\ deletes \subseteq deletes' /\ cleared' = cleared
    BY <1>0, <1>3, <1>5, <1>12, <2>1 DEF TypeOK, RejectMediaVerification
  <2>3. cleared' \subseteq deletes' \X Key
    BY <1>0, <2>2 DEF TypeOK
  <2> QED
    BY <1>0, <1>12, <2>2, <2>3 DEF TypeOK, RejectMediaVerification, Ends, Stage
<1>13. ASSUME NEW c \in Completion, MarkConversationMediaReady(c) \/ MarkProfileMediaReady(c) PROVE TypeOK'
  <2>1. target[c] \in Media
    BY <1>13, Works DEF MarkConversationMediaReady, MarkProfileMediaReady
  <2>2. row' \in [Media -> RowStatus] /\ lease' \in [Media -> Completion \cup {Nobody}]
    <3>1. CASE MarkConversationMediaReady(c)
      BY <1>0, <3>1 DEF TypeOK, MarkConversationMediaReady, RowStatus
    <3>2. CASE MarkProfileMediaReady(c)
      BY <1>0, <3>2 DEF TypeOK, MarkProfileMediaReady, RowStatus
    <3> QED
      BY <1>13, <3>1, <3>2
  <2>3. deletes' \subseteq DeleteEvent /\ deletes \subseteq deletes' /\ cleared' = cleared
    <3>1. {avatar} \ {Nobody} \subseteq Media
      BY <1>0 DEF TypeOK
    <3> QED
      BY <1>0, <1>5, <1>6, <1>13, <2>1, <3>1 DEF TypeOK, MarkConversationMediaReady, MarkProfileMediaReady
  <2>4. cleared' \subseteq deletes' \X Key
    BY <1>0, <2>3 DEF TypeOK
  <2>5. avatar' \in Media \cup {Nobody}
    BY <1>0, <1>13, <2>1 DEF TypeOK, MarkConversationMediaReady, MarkProfileMediaReady
  <2> QED
    BY <1>0, <1>13, <2>2, <2>3, <2>4, <2>5
       DEF TypeOK, MarkConversationMediaReady, MarkProfileMediaReady, Ends, Stage
<1>14. CASE DeleteConversation
  <2>1. RowsOf("conversation") \subseteq Media
    BY DEF RowsOf
  <2>2. row' \in [Media -> RowStatus] /\ lease' \in [Media -> Completion \cup {Nobody}]
    BY <1>4, <1>14, <2>1 DEF DeleteConversation
  <2>3. \A m \in Media : Delete(m, Key, "grace", "drop") \in DeleteEvent
    BY EventTypes DEF Key
  <2>4. deletes' \subseteq DeleteEvent /\ deletes \subseteq deletes' /\ cleared' = cleared
    BY <1>0, <1>14, <2>1, <2>3 DEF TypeOK, DeleteConversation
  <2>5. cleared' \subseteq deletes' \X Key
    BY <1>0, <2>4 DEF TypeOK
  <2> QED
    BY <1>0, <1>14, <2>2, <2>4, <2>5 DEF TypeOK, DeleteConversation
<1>15. ASSUME NEW lastMember \in BOOLEAN, EraseAccount(lastMember) PROVE TypeOK'
  <2> DEFINE rows == RowsOf("profile") \cup {m \in RowsOf("conversation") : lastMember \/ row[m] = "pending"}
  <2>1. rows \subseteq Media
    BY DEF RowsOf
  <2>2. /\ Remove(rows) /\ cleared' = cleared
        /\ deletes' = deletes \cup {Delete(m, Key, ErasureDelay(m), "erase") : m \in rows}
    BY <1>15 DEF EraseAccount
  <2> HIDE DEF rows
  <2>3. row' \in [Media -> RowStatus] /\ lease' \in [Media -> Completion \cup {Nobody}]
    BY <1>4, <2>1, <2>2
  <2>4. \A m \in Media : Delete(m, Key, ErasureDelay(m), "erase") \in DeleteEvent
    BY EventTypes DEF Key, ErasureDelay
  <2>5. deletes' \subseteq DeleteEvent /\ deletes \subseteq deletes'
    BY <1>0, <2>1, <2>2, <2>4 DEF TypeOK
  <2>6. cleared' \subseteq deletes' \X Key
    BY <1>0, <2>2, <2>5 DEF TypeOK
  <2>7. erased' \in BOOLEAN /\ open' \in BOOLEAN
    BY <1>15 DEF EraseAccount
  <2> QED
    BY <1>0, <1>15, <2>3, <2>5, <2>6, <2>7 DEF TypeOK, EraseAccount
<1>16. ASSUME NEW e \in deletes, NEW k \in Key, RemoveObject(e, k) PROVE TypeOK'
  <2>1. e.media \in Media
    BY <1>0 DEF TypeOK, DeleteEvent
  <2> QED
    BY <1>0, <1>16, <2>1 DEF TypeOK, RemoveObject, Content
<1>17. ASSUME NEW e \in deletes, AttemptFails(e) \/ FinishDelete(e) PROVE TypeOK'
  <2>1. cleared' = {x \in cleared : x[1] # e} /\ (deletes' = deletes \/ deletes' = deletes \ {e})
    BY <1>17 DEF AttemptFails, FinishDelete
  <2>2. cleared' \subseteq deletes' \X Key /\ deletes' \subseteq DeleteEvent
    BY <1>0, <2>1 DEF TypeOK
  <2> QED
    BY <1>0, <1>17, <2>2 DEF TypeOK, AttemptFails, FinishDelete, Fault
<1>18. CASE UNCHANGED vars
  BY <1>0, <1>18 DEF vars, TypeOK
<1> QED
  BY <1>1, <1>2, <1>7, <1>8, <1>9, <1>10, <1>11, <1>12, <1>13, <1>14, <1>15, <1>16, <1>17, <1>18 DEF Next

(***************************************************************************)
(* What a step has to leave alone.                                         *)
(***************************************************************************)

LEMMA UnservedFacts ==
    ASSUME NEW m \in Media
    PROVE  /\ row[m] \in {"deleted", "gone"} => Unserved(m) = Key
           /\ row[m] = "ready" => Unserved(m) = Key \ {ServedKey}
           /\ row[m] \in {"none", "pending"} => Unserved(m) = {}
BY DEF Unserved

(* Requests keep their leases when rows end, and when leases that nobody    *)
(* works under lapse.                                                       *)
LEMMA WorkKept ==
    ASSUME MediaInv, UNCHANGED <<stage, target>>,
           \A m \in Media :
               \/ row[m] = "none"
               \/ row'[m] = row[m] /\ (lease'[m] = lease[m] \/ \A c \in Completion : target[c] # m)
               \/ row'[m] \in {"deleted", "gone"}
               \/ \A c \in Completion : target[c] # m
    PROVE  WorkersHold' /\ OneVerifier'
<1>1. OneVerifier'
  BY DEF MediaInv, OneVerifier
<1>2. ASSUME NEW c \in Completion PROVE /\ target[c] = Nobody <=> stage[c] = "idle"
                                        /\ target[c] # Nobody =>
                                              /\ row'[target[c]] \notin {"none", "ready"}
                                              /\ row'[target[c]] = "pending" => lease'[target[c]] = c
  BY DEF MediaInv, WorkersHold, TypeOK
<1> QED
  BY <1>1, <1>2 DEF WorkersHold

(* A request that moves on keeps its target. *)
LEMMA WorkMoves ==
    ASSUME MediaInv, NEW c \in Completion, stage[c] # "idle", NEW s \in Stage \ {"idle"}, Goto(c, s),
           UNCHANGED <<row, lease>>
    PROVE  WorkersHold' /\ OneVerifier'
<1>1. /\ target' = target
      /\ \A d \in Completion : stage'[d] = "idle" <=> stage[d] = "idle"
  BY DEF MediaInv, TypeOK, Goto
<1> QED
  BY <1>1 DEF MediaInv, WorkersHold, OneVerifier

(* A request that ends may change the row it had to itself. *)
LEMMA WorkEnds ==
    ASSUME MediaInv, NEW c \in Completion, stage[c] # "idle", Ends(c),
           \A m \in Media :
               \/ m = target[c]
               \/ row'[m] = row[m] /\ lease'[m] = lease[m]
               \/ row'[m] \in {"deleted", "gone"}
    PROVE  WorkersHold' /\ OneVerifier' /\ \A d \in Completion : target'[d] # target[c]
<1>1. /\ target'[c] = Nobody /\ stage'[c] = "idle"
      /\ \A d \in Completion : d # c => target'[d] = target[d] /\ stage'[d] = stage[d]
  BY DEF MediaInv, TypeOK, Ends
<1>2. target[c] \in Media /\ \A d \in Completion : d # c => target[d] # target[c]
  BY Works DEF MediaInv, OneVerifier
<1>3. OneVerifier'
  BY <1>1, <1>2 DEF MediaInv, OneVerifier, WorkersHold
<1>4. ASSUME NEW d \in Completion PROVE /\ target'[d] = Nobody <=> stage'[d] = "idle"
                                        /\ target'[d] # Nobody =>
                                              /\ row'[target'[d]] \notin {"none", "ready"}
                                              /\ row'[target'[d]] = "pending" => lease'[target'[d]] = d
  <2>1. CASE d = c
    BY <1>1, <2>1
  <2>2. CASE d # c
    <3>1. target'[d] = target[d] /\ stage'[d] = stage[d] /\ target[d] # target[c]
      BY <1>1, <1>2, <2>2
    <3>2. target[d] # Nobody => target[d] \in Media
      BY DEF MediaInv, TypeOK
    <3> QED
      BY <3>1, <3>2 DEF MediaInv, WorkersHold
  <2> QED
    BY <2>1, <2>2
<1>5. \A d \in Completion : target'[d] # target[c]
  BY <1>1, <1>2
<1> QED
  BY <1>3, <1>4, <1>5 DEF WorkersHold

(* A step that changes no object. *)
LEMMA ContentKept ==
    ASSUME MediaInv, UNCHANGED <<provider, object, inflight>>,
           \A c \in Completion :
               \/ stage'[c] = stage[c] /\ target'[c] = target[c]
               \/ stage'[c] \in {"idle", "claimed", "failed", "rejected"},
           \A m \in Media : row'[m] = "ready" => row[m] = "ready" \/ object[m][ServedKey] = "good",
           \A m \in Media : row'[m] = "pending" => row[m] \in {"none", "pending"}
    PROVE  OneKeyWithS3' /\ ReadyIsVerified' /\ PublishedIsGood'
<1>1. ServedKey' = ServedKey
  BY DEF ServedKey
<1>2. OneKeyWithS3'
  BY DEF MediaInv, OneKeyWithS3
<1>3. ReadyIsVerified'
  BY <1>1 DEF MediaInv, ReadyIsVerified
<1>4. PublishedIsGood'
  <2> SUFFICES ASSUME NEW c \in Completion, stage'[c] = "published", row'[target'[c]] = "pending"
               PROVE  object'[target'[c]][ServedKey'] = "good"
    BY DEF PublishedIsGood
  <2>1. stage[c] = "published" /\ target'[c] = target[c]
    OBVIOUS
  <2>2. target[c] \in Media /\ row[target[c]] # "none"
    BY <2>1, Works DEF MediaInv, WorkersHold, TypeOK
  <2> QED
    BY <1>1, <2>1, <2>2 DEF MediaInv, PublishedIsGood
<1> QED
  BY <1>2, <1>3, <1>4

(* Events stay true of their rows, which only move on. *)
LEMMA EventsKept ==
    ASSUME MediaInv, UNCHANGED provider,
           \A m \in Media : \/ row'[m] = row[m]
                            \/ row[m] \in {"none", "pending"}
                            \/ row[m] = "ready" /\ row'[m] = "deleted"
                            \/ row'[m] = "gone",
           \A e \in deletes' : e \in deletes
               \/ /\ \/ row'[e.media] \in {"deleted", "gone"}
                     \/ row'[e.media] = "ready" /\ e.keys = {"staging"} /\ ServedKey = "published" /\ e.why = "ready"
                  /\ e.why \in {"erase", "drop"} => row'[e.media] = "gone"
    PROVE  EventsMatch'
<1>1. ServedKey' = ServedKey
  BY DEF ServedKey
<1> SUFFICES ASSUME NEW e \in deletes'
             PROVE  /\ \/ row'[e.media] \in {"deleted", "gone"}
                       \/ row'[e.media] = "ready" /\ e.keys = {"staging"} /\ ServedKey = "published" /\ e.why = "ready"
                    /\ e.why \in {"erase", "drop"} => row'[e.media] = "gone"
  BY <1>1 DEF EventsMatch
<1>2. CASE e \in deletes
  <2>1. e.media \in Media
    BY <1>2 DEF MediaInv, TypeOK, DeleteEvent
  <2>2. /\ \/ row[e.media] \in {"deleted", "gone"}
           \/ row[e.media] = "ready" /\ e.keys = {"staging"} /\ ServedKey = "published" /\ e.why = "ready"
        /\ e.why \in {"erase", "drop"} => row[e.media] = "gone"
    BY <1>2 DEF MediaInv, EventsMatch
  <2> QED
    BY <2>1, <2>2
<1> QED
  BY <1>2

LEMMA AvatarKept ==
    ASSUME MediaInv, avatar' = avatar,
           \A m \in Media : scope'[m] = "profile" /\ row'[m] = "ready" <=> scope[m] = "profile" /\ row[m] = "ready"
    PROVE  AvatarIsReady'
BY DEF MediaInv, AvatarIsReady

(* What NoOrphanObject and AllExpected say of one key, after a step and     *)
(* before it.                                                               *)
LEMMA SweepIntro ==
    ASSUME \A m \in Media : \A k \in Unserved(m)' : provider' = "oci" \/ ~erased' =>
               /\ object'[m][k] # "none" => \E e \in deletes' : Pending(e, m, k)'
               /\ CanAppear(m, k)' => \E e \in deletes' : Pending(e, m, k)' /\ e.after = "grace"
    PROVE  NoOrphanObject' /\ AllExpected'
<1>1. NoOrphanObject'
  BY DEF NoOrphanObject, Swept, Pending
<1>2. AllExpected'
  BY DEF AllExpected, Expected
<1> QED
  BY <1>1, <1>2

LEMMA SweepElim ==
    ASSUME MediaInv, provider = "oci" \/ ~erased, NEW m \in Media, NEW k \in Unserved(m)
    PROVE  /\ object[m][k] # "none" => \E e \in deletes : Pending(e, m, k)
           /\ CanAppear(m, k) => \E e \in deletes : Pending(e, m, k) /\ e.after = "grace"
<1>1. object[m][k] # "none" => \E e \in deletes : Pending(e, m, k)
  BY DEF MediaInv, NoOrphanObject, Swept, Pending
<1>2. CanAppear(m, k) => \E e \in deletes : Pending(e, m, k) /\ e.after = "grace"
  BY DEF MediaInv, AllExpected, Expected
<1> QED
  BY <1>1, <1>2

(* Events that were there are there, and a new one is there wherever        *)
(* something newly lies, or may appear, under a key that no row serves.     *)
LEMMA SweepKept ==
    ASSUME MediaInv, TypeOK', UNCHANGED <<provider, cleared>>, deletes \subseteq deletes', erased => erased',
           \A m \in Media : \A k \in Unserved(m)' :
               \/ \E e \in deletes' \ deletes : e.media = m /\ k \in e.keys /\ e.after = "grace"
               \/ /\ k \in Unserved(m)
                  /\ object'[m][k] # "none" => object[m][k] # "none" \/ CanAppear(m, k)
                  /\ CanAppear(m, k)' => CanAppear(m, k)
               \/ object'[m][k] = "none" /\ ~CanAppear(m, k)'
    PROVE  NoOrphanObject' /\ AllExpected'
<1> SUFFICES ASSUME provider = "oci" \/ ~erased', NEW m \in Media, NEW k \in Unserved(m)'
             PROVE  /\ object'[m][k] # "none" => \E e \in deletes' : Pending(e, m, k)'
                    /\ CanAppear(m, k)' => \E e \in deletes' : Pending(e, m, k)' /\ e.after = "grace"
  BY DEF NoOrphanObject, AllExpected, Swept, Expected, Pending
<1>1. \A e \in deletes : Pending(e, m, k) => Pending(e, m, k)'
  BY DEF Pending
<1>2. CASE \E e \in deletes' \ deletes : e.media = m /\ k \in e.keys /\ e.after = "grace"
  <2>1. PICK e \in deletes' \ deletes : e.media = m /\ k \in e.keys /\ e.after = "grace"
    BY <1>2
  <2>2. <<e, k>> \notin cleared'
    BY <2>1 DEF MediaInv, TypeOK
  <2> QED
    BY <2>1, <2>2 DEF Pending
<1>3. CASE /\ k \in Unserved(m)
           /\ object'[m][k] # "none" => object[m][k] # "none" \/ CanAppear(m, k)
           /\ CanAppear(m, k)' => CanAppear(m, k)
  <2>1. /\ object[m][k] # "none" => \E e \in deletes : Pending(e, m, k)
        /\ CanAppear(m, k) => \E e \in deletes : Pending(e, m, k) /\ e.after = "grace"
    BY <1>3 DEF MediaInv, NoOrphanObject, AllExpected, Swept, Expected, Pending
  <2> QED
    BY <1>1, <1>3, <2>1
<1>4. CASE object'[m][k] = "none" /\ ~CanAppear(m, k)'
  BY <1>4
<1> QED
  BY <1>2, <1>3, <1>4

LEMMA UnservedKept ==
    ASSUME NEW m \in Media, row'[m] = row[m], provider' = provider
    PROVE  Unserved(m)' = Unserved(m)
BY DEF Unserved, ServedKey

(* A step that changes no row and no event, and writes no object but where  *)
(* one could appear.                                                        *)
LEMMA SweepUntouched ==
    ASSUME MediaInv, TypeOK', UNCHANGED <<provider, row, deletes, cleared, erased>>,
           \A m \in Media, k \in Key : row[m] \notin {"none", "pending"} =>
               /\ object'[m][k] # "none" => object[m][k] # "none" \/ CanAppear(m, k)
               /\ CanAppear(m, k)' => CanAppear(m, k)
    PROVE  NoOrphanObject' /\ AllExpected'
<1>1. \A m \in Media : \A k \in Unserved(m)' :
          /\ k \in Unserved(m)
          /\ object'[m][k] # "none" => object[m][k] # "none" \/ CanAppear(m, k)
          /\ CanAppear(m, k)' => CanAppear(m, k)
  <2> SUFFICES ASSUME NEW m \in Media, NEW k \in Unserved(m)'
               PROVE  /\ k \in Unserved(m)
                      /\ object'[m][k] # "none" => object[m][k] # "none" \/ CanAppear(m, k)
                      /\ CanAppear(m, k)' => CanAppear(m, k)
    OBVIOUS
  <2>1. k \in Unserved(m)
    BY UnservedKept
  <2>2. k \in Key /\ row[m] \notin {"none", "pending"}
    BY <2>1 DEF Unserved
  <2> QED
    BY <2>1, <2>2
<1> QED
  BY <1>1, SweepKept

(***************************************************************************)
(* The steps of the client and of the clock.                               *)
(***************************************************************************)

LEMMA ReserveStep ==
    ASSUME MediaInv, TypeOK', NEW m \in Media, CreateMedia(m) \/ CreateProfileMedia(m)
    PROVE  MediaInv'
<1>1. /\ row[m] = "none" /\ row' = [row EXCEPT ![m] = "pending"]
      /\ scope' = scope \/ scope' = [scope EXCEPT ![m] = "conversation"]
      /\ UNCHANGED <<provider, erased, lease, avatar, late, inflight, object, stage, target, deletes, cleared>>
  BY DEF CreateMedia, CreateProfileMedia, accountVars, clientVars, workVars
<1>2. /\ row'[m] = "pending"
      /\ \A n \in Media : n # m => row'[n] = row[n] /\ scope'[n] = scope[n]
  BY <1>1 DEF MediaInv, TypeOK
<1>3. WorkersHold' /\ OneVerifier'
  BY <1>1, <1>2, WorkKept
<1>4. OneKeyWithS3' /\ ReadyIsVerified' /\ PublishedIsGood'
  BY <1>1, <1>2, ContentKept
<1>5. EventsMatch'
  BY <1>1, <1>2, EventsKept
<1>6. AvatarIsReady'
  BY <1>1, <1>2, AvatarKept
<1>7. ASSUME NEW n \in Media, NEW k \in Unserved(n)'
      PROVE  /\ k \in Unserved(n)
             /\ object'[n][k] # "none" => object[n][k] # "none" \/ CanAppear(n, k)
             /\ CanAppear(n, k)' => CanAppear(n, k)
  <2>1. n # m
    BY <1>2 DEF Unserved
  <2> QED
    BY <1>1, <1>2, <2>1, UnservedKept DEF CanAppear, Busy
<1>8. NoOrphanObject' /\ AllExpected'
  BY <1>1, <1>7, SweepKept
<1> QED
  BY <1>3, <1>4, <1>5, <1>6, <1>8 DEF MediaInv

LEMMA WaitStep ==
    ASSUME MediaInv, TypeOK', NEW m \in Media, IssueUpload(m) \/ TimePasses(m) \/ LeaseLapses(m)
    PROVE  MediaInv'
<1>1. /\ UNCHANGED <<provider, erased, scope, row, avatar, inflight, object, stage, target, deletes, cleared>>
      /\ late \subseteq late'
  BY DEF IssueUpload, TimePasses, LeaseLapses, accountVars, rowVars, clientVars, workVars
<1>2. WorkersHold' /\ OneVerifier'
  <2>1. \A n \in Media : lease'[n] = lease[n] \/ row[n] # "pending" \/ \A c \in Completion : target[c] # n
    <3>1. CASE LeaseLapses(m)
      <4>1. lease'[m] = Nobody /\ target[lease[m]] # m /\ \A n \in Media : n # m => lease'[n] = lease[n]
        BY <3>1 DEF LeaseLapses, MediaInv, TypeOK
      <4> QED
        BY <4>1 DEF MediaInv, WorkersHold
    <3>2. CASE IssueUpload(m) \/ TimePasses(m)
      BY <3>2 DEF IssueUpload, TimePasses, rowVars
    <3> QED
      BY <3>1, <3>2
  <2>2. OneVerifier'
    BY <1>1 DEF MediaInv, OneVerifier
  <2>3. WorkersHold'
    BY <1>1, <2>1 DEF MediaInv, WorkersHold, TypeOK
  <2> QED
    BY <2>2, <2>3
<1>3. OneKeyWithS3' /\ ReadyIsVerified' /\ PublishedIsGood'
  BY <1>1, ContentKept
<1>4. EventsMatch'
  BY <1>1, EventsKept
<1>5. AvatarIsReady'
  BY <1>1, AvatarKept
<1>6. NoOrphanObject' /\ AllExpected'
  <2>1. \A n \in Media, k \in Key : CanAppear(n, k)' => CanAppear(n, k)
    BY <1>1 DEF CanAppear, Busy
  <2> QED
    BY <1>1, <2>1, SweepUntouched
<1> QED
  BY <1>2, <1>3, <1>4, <1>5, <1>6 DEF MediaInv

LEMMA PutStartsStep ==
    ASSUME MediaInv, TypeOK', NEW m \in Media, PutStarts(m)
    PROVE  MediaInv'
<1>1. /\ UNCHANGED <<provider, erased, scope, row, lease, avatar, late, object, stage, target, deletes, cleared>>
      /\ m \notin late
  BY DEF PutStarts, accountVars, rowVars, workVars
<1>2. PICK content \in Uploadable : inflight' = [inflight EXCEPT ![m] = content]
  BY DEF PutStarts
<1>3. WorkersHold' /\ OneVerifier'
  BY <1>1, WorkKept
<1>4. OneKeyWithS3' /\ ReadyIsVerified' /\ PublishedIsGood'
  <2>1. provider = "s3" => content = "good"
    BY DEF Uploadable
  <2>2. OneKeyWithS3'
    BY <1>1, <1>2, <2>1 DEF MediaInv, OneKeyWithS3, TypeOK
  <2> QED
    BY <1>1, <2>2 DEF MediaInv, ReadyIsVerified, PublishedIsGood, ServedKey
<1>5. EventsMatch' /\ AvatarIsReady'
  BY <1>1, EventsKept, AvatarKept
<1>6. NoOrphanObject' /\ AllExpected'
  <2>1. \A n \in Media, k \in Key : CanAppear(n, k)' => CanAppear(n, k)
    BY <1>1, <1>2 DEF CanAppear, Busy, MediaInv, TypeOK
  <2> QED
    BY <1>1, <2>1, SweepUntouched
<1> QED
  BY <1>3, <1>4, <1>5, <1>6 DEF MediaInv

LEMMA PutEndsStep ==
    ASSUME MediaInv, TypeOK', NEW m \in Media, PutEnds(m)
    PROVE  MediaInv'
<1>1. /\ UNCHANGED <<provider, erased, scope, row, lease, avatar, late, stage, target, deletes, cleared>>
      /\ inflight[m] # "none"
      /\ inflight' = [inflight EXCEPT ![m] = "none"]
      /\ object' = [object EXCEPT ![m].staging = inflight[m]]
  BY DEF PutEnds, accountVars, rowVars, workVars
<1>2. /\ object'[m].staging = inflight[m]
      /\ \A n \in Media, k \in Key : n # m \/ k = "published" => object'[n][k] = object[n][k]
      /\ \A n \in Media : inflight'[n] = "none" \/ inflight'[n] = inflight[n]
      /\ inflight[m] \in {"good", "bad"}
  BY <1>1 DEF MediaInv, TypeOK, Key, Content
<1>3. WorkersHold' /\ OneVerifier'
  BY <1>1, WorkKept
<1>4. ServedKey' = ServedKey /\ ServedKey \in Key /\ provider \in {"oci", "s3"}
  BY <1>1 DEF ServedKey, Key, MediaInv, TypeOK
<1>5. OneKeyWithS3'
  BY <1>1, <1>2 DEF MediaInv, OneKeyWithS3, Key
<1>6. \A n \in Media : object[n][ServedKey] = "good" => object'[n][ServedKey] = "good"
  <2>1. CASE provider = "oci"
    BY <1>2, <1>4, <2>1 DEF ServedKey
  <2>2. CASE provider = "s3"
    <3>1. inflight[m] = "good" /\ ServedKey = "staging"
      BY <1>2, <2>2 DEF MediaInv, OneKeyWithS3, ServedKey
    <3> QED
      BY <1>2, <1>4, <3>1
  <2> QED
    BY <1>4, <2>1, <2>2
<1>7. ReadyIsVerified' /\ PublishedIsGood'
  <2>1. ReadyIsVerified'
    BY <1>1, <1>4, <1>6 DEF MediaInv, ReadyIsVerified
  <2>2. \A c \in Completion : stage[c] = "published" => target[c] \in Media
    BY Works
  <2> QED
    BY <1>1, <1>4, <1>6, <2>1, <2>2 DEF MediaInv, PublishedIsGood
<1>8. EventsMatch' /\ AvatarIsReady'
  BY <1>1, EventsKept, AvatarKept
<1>9. NoOrphanObject' /\ AllExpected'
  <2>1. \A n \in Media, k \in Key :
            /\ object'[n][k] # "none" => object[n][k] # "none" \/ CanAppear(n, k)
            /\ CanAppear(n, k)' => CanAppear(n, k)
    BY <1>1, <1>2 DEF CanAppear, Busy, Key
  <2> QED
    BY <1>1, <2>1, SweepUntouched
<1> QED
  BY <1>3, <1>5, <1>7, <1>8, <1>9 DEF MediaInv

(***************************************************************************)
(* Retirement of a row.                                                    *)
(***************************************************************************)

(* A pending or served row has no event of retirement yet. *)
LEMMA RetirementIsNew ==
    ASSUME MediaInv, NEW m \in Media, row[m] \in {"pending", "ready"}
    PROVE  /\ Retirement(m) \notin deletes
           /\ Retirement(m).media = m /\ Retirement(m).keys = Key /\ Retirement(m).after = "grace"
           /\ Retirement(m).why = "delete"
<1>1. /\ Retirement(m).media = m /\ Retirement(m).keys = Key /\ Retirement(m).after = "grace"
      /\ Retirement(m).why = "delete"
  BY DEF Retirement, Delete
<1> QED
  BY <1>1 DEF MediaInv, EventsMatch

(* What retiring row m does to the rows, events and objects. *)
LEMMA RetireKeeps ==
    ASSUME MediaInv, TypeOK', NEW m \in Media, row[m] \in {"pending", "ready"}, Retire({m}),
           deletes' = deletes \cup {Retirement(m)},
           UNCHANGED <<provider, erased, late, inflight, object, cleared>>,
           \A n \in Media : Busy(n)' => Busy(n)
    PROVE  /\ row'[m] = "deleted"
           /\ \A n \in Media : n # m => row'[n] = row[n] /\ lease'[n] = lease[n]
           /\ EventsMatch' /\ NoOrphanObject' /\ AllExpected'
<1>1. /\ row'[m] = "deleted"
      /\ \A n \in Media : n # m => row'[n] = row[n] /\ lease'[n] = lease[n]
  BY DEF Retire
<1>2. /\ Retirement(m) \notin deletes
      /\ Retirement(m).media = m /\ Retirement(m).keys = Key /\ Retirement(m).after = "grace"
      /\ Retirement(m).why = "delete"
  BY RetirementIsNew
<1>3. EventsMatch'
  BY <1>1, <1>2, EventsKept
<1>4. ASSUME NEW n \in Media, NEW k \in Unserved(n)'
      PROVE  \/ \E e \in deletes' \ deletes : e.media = n /\ k \in e.keys /\ e.after = "grace"
             \/ /\ k \in Unserved(n)
                /\ object'[n][k] # "none" => object[n][k] # "none" \/ CanAppear(n, k)
                /\ CanAppear(n, k)' => CanAppear(n, k)
  <2>1. CASE n = m
    <3>1. k \in Key
      BY DEF Unserved
    <3> QED
      BY <1>2, <2>1, <3>1
  <2>2. CASE n # m
    <3>1. k \in Unserved(n)
      BY <1>1, <2>2, UnservedKept
    <3> QED
      BY <3>1 DEF CanAppear
  <2> QED
    BY <2>1, <2>2
<1>5. NoOrphanObject' /\ AllExpected'
  BY <1>4, SweepKept
<1> QED
  BY <1>1, <1>3, <1>5

LEMMA RetireStep ==
    ASSUME MediaInv, TypeOK', NEW m \in Media, RejectPendingMedia(m) \/ DeleteMedia(m) \/ ExpirePendingMedia(m)
    PROVE  MediaInv'
<1>1. /\ Retire({m}) /\ deletes' = deletes \cup {Retirement(m)} /\ row[m] \in {"pending", "ready"}
      /\ UNCHANGED <<provider, erased, scope, late, inflight, object, stage, target, cleared>>
      /\ \/ avatar' = avatar /\ row[m] = "pending"
         \/ avatar' = IF avatar = m THEN Nobody ELSE avatar
  BY DEF RejectPendingMedia, DeleteMedia, ExpirePendingMedia, accountVars, clientVars, workVars
<1>2. \A n \in Media : Busy(n)' => Busy(n)
  BY <1>1 DEF Busy
<1>3. /\ row'[m] = "deleted"
      /\ \A n \in Media : n # m => row'[n] = row[n] /\ lease'[n] = lease[n]
      /\ EventsMatch' /\ NoOrphanObject' /\ AllExpected'
  BY <1>1, <1>2, RetireKeeps
<1>4. WorkersHold' /\ OneVerifier'
  BY <1>1, <1>3, WorkKept
<1>5. OneKeyWithS3' /\ ReadyIsVerified' /\ PublishedIsGood'
  BY <1>1, <1>3, ContentKept
<1>6. AvatarIsReady'
  BY <1>1, <1>3 DEF MediaInv, AvatarIsReady
<1> QED
  BY <1>3, <1>4, <1>5, <1>6 DEF MediaInv

(***************************************************************************)
(* The steps of a request that completes an upload.                        *)
(***************************************************************************)

LEMMA ClaimStep ==
    ASSUME MediaInv, TypeOK', NEW c \in Completion, NEW m \in Media, ClaimMediaVerification(c, m)
    PROVE  MediaInv'
<1>1. /\ stage[c] = "idle" /\ row[m] = "pending" /\ lease[m] = Nobody
      /\ lease' = [lease EXCEPT ![m] = c]
      /\ stage' = [stage EXCEPT ![c] = "claimed"]
      /\ target' = [target EXCEPT ![c] = m]
      /\ UNCHANGED <<provider, erased, scope, row, avatar, late, inflight, object, deletes, cleared>>
  BY DEF ClaimMediaVerification, accountVars, clientVars
<1>2. /\ stage'[c] = "claimed" /\ target'[c] = m /\ lease'[m] = c
      /\ \A d \in Completion : d # c => stage'[d] = stage[d] /\ target'[d] = target[d]
      /\ \A n \in Media : n # m => lease'[n] = lease[n]
  BY <1>1 DEF MediaInv, TypeOK
<1>3. \A d \in Completion : target[d] # m
  BY <1>1 DEF MediaInv, WorkersHold
<1>4. OneVerifier'
  BY <1>1, <1>2, <1>3 DEF MediaInv, OneVerifier, WorkersHold
<1>5. WorkersHold'
  BY <1>1, <1>2, <1>3 DEF MediaInv, WorkersHold, TypeOK
<1>6. OneKeyWithS3' /\ ReadyIsVerified' /\ PublishedIsGood'
  BY <1>1, <1>2, ContentKept
<1>7. EventsMatch' /\ AvatarIsReady'
  BY <1>1, EventsKept, AvatarKept
<1>8. NoOrphanObject' /\ AllExpected'
  <2>1. \A n \in Media, k \in Key : row[n] \notin {"none", "pending"} => (CanAppear(n, k)' => CanAppear(n, k))
    BY <1>1, <1>2, <1>3 DEF CanAppear, Busy
  <2> QED
    BY <1>1, <2>1, SweepUntouched
<1> QED
  BY <1>4, <1>5, <1>6, <1>7, <1>8 DEF MediaInv

LEMMA MoveStep ==
    ASSUME MediaInv, TypeOK', NEW c \in Completion,
           RevokeCapability(c) \/ Inspect(c) \/ Verify(c) \/ CallFails(c)
    PROVE  MediaInv'
<1> DEFINE m == target[c]
<1>1. /\ stage[c] \in {"claimed", "revoked", "inspected"}
      /\ UNCHANGED <<provider, erased, scope, row, lease, avatar, late, inflight, object, deletes, cleared>>
  BY DEF RevokeCapability, Inspect, Verify, CallFails, accountVars, rowVars, clientVars
<1>2. m \in Media /\ object[m] \in [Key -> Content] /\ provider \in {"oci", "s3"}
  BY <1>1, Works DEF MediaInv, TypeOK
<1>3. \E s \in Stage \ {"idle"} :
          /\ Goto(c, s)
          /\ s = "published" => object[m][ServedKey] = "good"
          /\ s \in {"revoked", "inspected"} => provider = "oci"
  <2>1. CASE RevokeCapability(c)
    BY <2>1 DEF RevokeCapability, Stage
  <2>2. CASE CallFails(c)
    BY <2>2 DEF CallFails, Stage
  <2>3. CASE Verify(c)
    BY <2>3 DEF Verify, Stage, ServedKey
  <2>4. CASE Inspect(c)
    <3> DEFINE found == object[m]
               s == Judged(found.published, IF found.staging = "good" THEN "inspected" ELSE "rejected")
    <3>1. Goto(c, s) /\ stage[c] = "revoked"
      BY <2>4 DEF Inspect
    <3>2. provider = "oci" /\ ServedKey = "published"
      BY <1>2, <3>1 DEF MediaInv, OneKeyWithS3, ServedKey
    <3>3. found.published \in Content
      BY <1>2 DEF Key
    <3>4. s \in Stage \ {"idle"} /\ (s = "published" => found.published = "good")
      BY <3>3 DEF Judged, Content, Stage
    <3> QED
      BY <3>1, <3>2, <3>4
  <2> QED
    BY <2>1, <2>2, <2>3, <2>4
<1>4. PICK s \in Stage \ {"idle"} :
          /\ Goto(c, s)
          /\ s = "published" => object[m][ServedKey] = "good"
          /\ s \in {"revoked", "inspected"} => provider = "oci"
  BY <1>3
<1>5. WorkersHold' /\ OneVerifier'
  BY <1>1, <1>4, WorkMoves
<1>6. /\ stage'[c] = s /\ target' = target /\ ServedKey' = ServedKey
      /\ \A d \in Completion : d # c => stage'[d] = stage[d]
  BY <1>1, <1>4 DEF MediaInv, TypeOK, Goto, ServedKey
<1> HIDE DEF m
<1>7. OneKeyWithS3' /\ ReadyIsVerified'
  BY <1>1, <1>4, <1>6 DEF MediaInv, OneKeyWithS3, ReadyIsVerified
<1>8. PublishedIsGood'
  BY <1>1, <1>4, <1>6 DEF MediaInv, PublishedIsGood, m
<1>9. EventsMatch' /\ AvatarIsReady'
  BY <1>1, EventsKept, AvatarKept
<1>10. NoOrphanObject' /\ AllExpected'
  <2>1. \A n \in Media, k \in Key : CanAppear(n, k)' => CanAppear(n, k)
    BY <1>1, <1>6 DEF CanAppear, Busy
  <2> QED
    BY <1>1, <2>1, SweepUntouched
<1> QED
  BY <1>5, <1>7, <1>8, <1>9, <1>10 DEF MediaInv

LEMMA RenameStep ==
    ASSUME MediaInv, TypeOK', NEW c \in Completion, RenameObject(c)
    PROVE  MediaInv'
<1> DEFINE m == target[c]
           found == object[m]
<1>1. /\ stage[c] = "inspected"
      /\ object' = IF Renames(found)
                   THEN [object EXCEPT ![m] = [staging |-> "none", published |-> found.staging]] ELSE object
      /\ UNCHANGED <<provider, erased, scope, row, lease, avatar, late, inflight, deletes, cleared>>
  BY DEF RenameObject, accountVars, rowVars, clientVars
<1>2. m \in Media /\ found \in [Key -> Content] /\ provider = "oci" /\ ServedKey = "published"
  BY <1>1, Works DEF MediaInv, TypeOK, OneKeyWithS3, ServedKey
<1>3. /\ Renames(found) => object'[m].staging = "none" /\ object'[m].published = "good" /\ found.published = "none"
      /\ ~Renames(found) => object' = object
      /\ \A n \in Media : n # m => object'[n] = object[n]
      /\ object'[m].published \in Content
  BY <1>1, <1>2 DEF Renames, MediaInv, TypeOK, Key, Content
<1>4. \E s \in Stage \ {"idle"} :
          /\ Goto(c, s)
          /\ s = "published" => object'[m].published = "good"
          /\ s \notin {"revoked", "inspected"}
  <2>1. CASE Goto(c, Judged(object'[m].published, "failed"))
    <3>1. Judged(object'[m].published, "failed") \in {"published", "rejected", "failed"}
          /\ (Judged(object'[m].published, "failed") = "published" => object'[m].published = "good")
      BY <1>3 DEF Judged, Content
    <3> QED
      BY <2>1, <3>1 DEF Stage
  <2>2. CASE Goto(c, "failed")
    BY <2>2 DEF Stage
  <2> QED
    BY <2>1, <2>2 DEF RenameObject
<1>5. PICK s \in Stage \ {"idle"} :
          /\ Goto(c, s)
          /\ s = "published" => object'[m].published = "good"
          /\ s \notin {"revoked", "inspected"}
  BY <1>4
<1>6. WorkersHold' /\ OneVerifier'
  BY <1>1, <1>5, WorkMoves
<1>7. /\ stage'[c] = s /\ target' = target /\ ServedKey' = "published" /\ provider' = "oci"
      /\ \A d \in Completion : d # c => stage'[d] = stage[d]
  BY <1>1, <1>2, <1>5 DEF MediaInv, TypeOK, Goto, ServedKey
<1>8. \A n \in Media : object[n].published = "good" => object'[n].published = "good"
  BY <1>3
<1>9. OneKeyWithS3' /\ ReadyIsVerified'
  BY <1>1, <1>2, <1>7, <1>8 DEF MediaInv, OneKeyWithS3, ReadyIsVerified
<1>10. PublishedIsGood'
  <2>1. \A d \in Completion : stage[d] = "published" => target[d] \in Media
    BY Works
  <2> QED
    BY <1>1, <1>2, <1>5, <1>7, <1>8, <2>1 DEF MediaInv, PublishedIsGood
<1>11. EventsMatch' /\ AvatarIsReady'
  BY <1>1, EventsKept, AvatarKept
<1>12. NoOrphanObject' /\ AllExpected'
  <2>1. Busy(m)
    BY DEF Busy
  <2>2. \A n \in Media, k \in Key :
            /\ object'[n][k] # "none" => object[n][k] # "none" \/ CanAppear(n, k)
            /\ CanAppear(n, k)' => CanAppear(n, k)
    BY <1>1, <1>3, <1>7, <2>1 DEF CanAppear, Busy, Key
  <2> QED
    BY <1>1, <2>2, SweepUntouched
<1> QED
  BY <1>6, <1>9, <1>10, <1>11, <1>12 DEF MediaInv

(* A request that ends without having touched the row. *)
LEMMA GiveUpStep ==
    ASSUME MediaInv, TypeOK', NEW c \in Completion,
           CompletionDies(c) \/ ReleaseMediaVerification(c) \/ MarkMediaReadyFails(c)
    PROVE  MediaInv'
<1> DEFINE m == target[c]
<1>1. /\ stage[c] # "idle" /\ Ends(c)
      /\ UNCHANGED <<provider, erased, scope, row, avatar, late, inflight, object, deletes, cleared>>
      /\ lease' = lease \/ lease' = [lease EXCEPT ![m] = Nobody]
  BY DEF CompletionDies, ReleaseMediaVerification, MarkMediaReadyFails, accountVars, rowVars, clientVars
<1>2. \A n \in Media :
          \/ n = target[c]
          \/ row'[n] = row[n] /\ lease'[n] = lease[n]
          \/ row'[n] \in {"deleted", "gone"}
  BY <1>1 DEF MediaInv, TypeOK
<1>3. WorkersHold' /\ OneVerifier'
  BY <1>1, <1>2, WorkEnds
<1>4. /\ stage'[c] = "idle" /\ target'[c] = Nobody
      /\ \A d \in Completion : d # c => stage'[d] = stage[d] /\ target'[d] = target[d]
  BY <1>1 DEF MediaInv, TypeOK, Ends
<1>5. OneKeyWithS3' /\ ReadyIsVerified' /\ PublishedIsGood'
  BY <1>1, <1>4, ContentKept
<1>6. EventsMatch' /\ AvatarIsReady'
  BY <1>1, EventsKept, AvatarKept
<1>7. NoOrphanObject' /\ AllExpected'
  <2>1. \A n \in Media, k \in Key : CanAppear(n, k)' => CanAppear(n, k)
    BY <1>1, <1>4 DEF CanAppear, Busy
  <2> QED
    BY <1>1, <2>1, SweepUntouched
<1> QED
  BY <1>3, <1>5, <1>6, <1>7 DEF MediaInv

LEMMA RejectStep ==
    ASSUME MediaInv, TypeOK', NEW c \in Completion, RejectMediaVerification(c)
    PROVE  MediaInv'
<1> DEFINE m == target[c]
<1>1. /\ stage[c] # "idle" /\ Ends(c)
      /\ UNCHANGED <<provider, erased, scope, avatar, late, inflight, object, cleared>>
  BY DEF RejectMediaVerification, accountVars, clientVars
<1>2. m \in Media
  BY <1>1, Works
<1>3. /\ stage'[c] = "idle" /\ target'[c] = Nobody
      /\ \A d \in Completion : d # c => stage'[d] = stage[d] /\ target'[d] = target[d]
  BY <1>1 DEF MediaInv, TypeOK, Ends
<1>4. \A n \in Media : Busy(n)' => Busy(n)
  BY <1>3 DEF Busy
<1>5. CASE Holds(c, m) /\ OwnerActs
  <2>1. Retire({m}) /\ deletes' = deletes \cup {Retirement(m)} /\ row[m] = "pending"
    BY <1>5 DEF RejectMediaVerification, Holds
  <2>2. /\ row'[m] = "deleted"
        /\ \A n \in Media : n # m => row'[n] = row[n] /\ lease'[n] = lease[n]
        /\ EventsMatch' /\ NoOrphanObject' /\ AllExpected'
    BY <1>1, <1>2, <1>4, <2>1, RetireKeeps
  <2>3. WorkersHold' /\ OneVerifier'
    BY <1>1, <2>2, WorkEnds
  <2>4. OneKeyWithS3' /\ ReadyIsVerified' /\ PublishedIsGood'
    BY <1>1, <1>3, <2>2, ContentKept
  <2>5. AvatarIsReady'
    BY <1>1, <2>1, <2>2, AvatarKept
  <2> QED
    BY <2>2, <2>3, <2>4, <2>5 DEF MediaInv
<1>6. CASE ~(Holds(c, m) /\ OwnerActs)
  <2>1. UNCHANGED <<row, lease, deletes>>
    BY <1>6 DEF RejectMediaVerification
  <2>2. WorkersHold' /\ OneVerifier'
    BY <1>1, <2>1, WorkEnds
  <2>3. OneKeyWithS3' /\ ReadyIsVerified' /\ PublishedIsGood'
    BY <1>1, <1>3, <2>1, ContentKept
  <2>4. EventsMatch' /\ AvatarIsReady'
    BY <1>1, <2>1, EventsKept, AvatarKept
  <2>5. NoOrphanObject' /\ AllExpected'
    <3>1. \A n \in Media, k \in Key : CanAppear(n, k)' => CanAppear(n, k)
      BY <1>1, <1>4 DEF CanAppear
    <3> QED
      BY <1>1, <2>1, <3>1, SweepUntouched
  <2> QED
    BY <2>2, <2>3, <2>4, <2>5 DEF MediaInv
<1> QED
  BY <1>5, <1>6

(* The event for what a completed upload leaves under its staging key. *)
LEMMA LeftoverFacts ==
    ASSUME MediaInv, NEW m \in Media, row[m] = "pending"
    PROVE  /\ ServedKey = "published" =>
                 \E e \in Leftover(m) : /\ e \notin deletes /\ e.media = m
                                        /\ e.keys = {"staging"} /\ e.after = "grace"
           /\ \A e \in Leftover(m) :
                 e.media = m /\ e.keys = {"staging"} /\ e.why = "ready" /\ ServedKey = "published"
<1>1. ServedKey \in {"staging", "published"}
  BY DEF ServedKey
<1>2. \A e \in Leftover(m) :
          e.media = m /\ e.keys = {"staging"} /\ e.why = "ready" /\ e.after = "grace" /\ ServedKey = "published"
  BY <1>1 DEF Leftover, Delete
<1>3. \A e \in deletes : e.media # m
  BY DEF MediaInv, EventsMatch
<1>4. ServedKey = "published" => \E e \in Leftover(m) : TRUE
  BY DEF Leftover
<1> QED
  BY <1>2, <1>3, <1>4

(* Either MarkMediaReady: row m becomes ready, and those in R are retired. *)
LEMMA ReadyKeeps ==
    ASSUME MediaInv, TypeOK', NEW c \in Completion, stage[c] = "published", Ends(c), row[target[c]] = "pending",
           NEW R \in SUBSET (Media \ {target[c]}), \A n \in R : row[n] \in {"pending", "ready"},
           row'[target[c]] = "ready",
           \A n \in R : row'[n] = "deleted",
           \A n \in Media \ (R \cup {target[c]}) : row'[n] = row[n] /\ lease'[n] = lease[n],
           deletes' = deletes \cup Leftover(target[c]) \cup {Retirement(n) : n \in R},
           UNCHANGED <<provider, erased, late, inflight, object, cleared>>
    PROVE  /\ WorkersHold' /\ OneVerifier' /\ OneKeyWithS3' /\ ReadyIsVerified' /\ PublishedIsGood'
           /\ EventsMatch' /\ NoOrphanObject' /\ AllExpected'
<1> DEFINE m == target[c]
<1>1. m \in Media
  BY Works
<1>2. /\ stage'[c] = "idle" /\ target'[c] = Nobody
      /\ \A d \in Completion : d # c => stage'[d] = stage[d] /\ target'[d] = target[d]
  BY DEF MediaInv, TypeOK, Ends
<1>3. WorkersHold' /\ OneVerifier' /\ \A d \in Completion : target'[d] # m
  <2>1. \A n \in Media :
            \/ n = target[c]
            \/ row'[n] = row[n] /\ lease'[n] = lease[n]
            \/ row'[n] \in {"deleted", "gone"}
    OBVIOUS
  <2> QED
    BY <2>1, WorkEnds
<1>4. object[m][ServedKey] = "good"
  BY DEF MediaInv, PublishedIsGood
<1>5. OneKeyWithS3' /\ ReadyIsVerified' /\ PublishedIsGood'
  BY <1>2, <1>4, ContentKept
<1>6. \A n \in R : /\ Retirement(n) \notin deletes
                   /\ Retirement(n).media = n /\ Retirement(n).keys = Key /\ Retirement(n).after = "grace"
                   /\ Retirement(n).why = "delete"
  BY RetirementIsNew
<1>7. /\ ServedKey = "published" =>
            \E e \in Leftover(m) : /\ e \notin deletes /\ e.media = m
                                   /\ e.keys = {"staging"} /\ e.after = "grace"
      /\ \A e \in Leftover(m) :
            e.media = m /\ e.keys = {"staging"} /\ e.why = "ready" /\ ServedKey = "published"
  BY <1>1, LeftoverFacts
<1>8. EventsMatch'
  <2>1. \A n \in Media : \/ row'[n] = row[n]
                         \/ row[n] \in {"none", "pending"}
                         \/ row[n] = "ready" /\ row'[n] = "deleted"
                         \/ row'[n] = "gone"
    OBVIOUS
  <2>2. \A e \in deletes' : e \in deletes
            \/ /\ \/ row'[e.media] \in {"deleted", "gone"}
                  \/ row'[e.media] = "ready" /\ e.keys = {"staging"} /\ ServedKey = "published" /\ e.why = "ready"
               /\ e.why \in {"erase", "drop"} => row'[e.media] = "gone"
    BY <1>6, <1>7
  <2> QED
    BY <2>1, <2>2, EventsKept
<1>9. ASSUME NEW n \in Media, NEW k \in Unserved(n)'
      PROVE  \/ \E e \in deletes' \ deletes : e.media = n /\ k \in e.keys /\ e.after = "grace"
             \/ /\ k \in Unserved(n)
                /\ object'[n][k] # "none" => object[n][k] # "none" \/ CanAppear(n, k)
                /\ CanAppear(n, k)' => CanAppear(n, k)
             \/ object'[n][k] = "none" /\ ~CanAppear(n, k)'
  <2>1. k \in Key
    BY DEF Unserved
  <2>2. CASE n \in R
    BY <1>6, <2>1, <2>2
  <2>3. CASE n = m
    <3>1. k # ServedKey'
      BY <2>3 DEF Unserved
    <3>2. ServedKey' = ServedKey
      BY DEF ServedKey
    <3>3. CASE ServedKey = "published"
      BY <1>7, <2>1, <2>3, <3>1, <3>2, <3>3 DEF Key
    <3>4. CASE ServedKey = "staging"
      <4>1. provider = "s3" /\ k = "published"
        BY <2>1, <3>1, <3>2, <3>4 DEF Key, ServedKey, MediaInv, TypeOK
      <4>2. object[n].published = "none"
        BY <4>1 DEF MediaInv, OneKeyWithS3
      <4>3. ~CanAppear(n, k)'
        BY <1>3, <2>3, <4>1 DEF CanAppear, Busy
      <4> QED
        BY <4>1, <4>2, <4>3
    <3> QED
      BY <3>3, <3>4 DEF ServedKey
  <2>4. CASE n \notin R /\ n # m
    <3>1. k \in Unserved(n)
      BY <2>4, UnservedKept
    <3>2. CanAppear(n, k)' => CanAppear(n, k)
      BY <1>2 DEF CanAppear, Busy
    <3> QED
      BY <3>1, <3>2
  <2> QED
    BY <2>2, <2>3, <2>4
<1>10. NoOrphanObject' /\ AllExpected'
  BY <1>9, SweepKept
<1> QED
  BY <1>3, <1>5, <1>8, <1>10

LEMMA ReadyStep ==
    ASSUME MediaInv, TypeOK', NEW c \in Completion, MarkConversationMediaReady(c) \/ MarkProfileMediaReady(c)
    PROVE  MediaInv'
<1> DEFINE m == target[c]
           replaced == {n \in {avatar} \ {m, Nobody} : row[n] \in {"pending", "ready"}}
<1>0. m \in Media /\ replaced \subseteq Media \ {m}
  BY Works DEF MarkConversationMediaReady, MarkProfileMediaReady, MediaInv, TypeOK
<1>1. CASE MarkConversationMediaReady(c)
  <2>1. /\ stage[c] = "published" /\ Ends(c) /\ row[m] = "pending" /\ scope[m] = "conversation"
        /\ row' = [row EXCEPT ![m] = "ready"] /\ lease' = [lease EXCEPT ![m] = Nobody]
        /\ deletes' = deletes \cup Leftover(m)
        /\ UNCHANGED <<provider, erased, scope, avatar, late, inflight, object, cleared>>
    BY <1>1 DEF MarkConversationMediaReady, Holds, accountVars, clientVars
  <2>2. /\ row'[m] = "ready" /\ \A n \in Media \ ({} \cup {m}) : row'[n] = row[n] /\ lease'[n] = lease[n]
        /\ deletes' = deletes \cup Leftover(m) \cup {Retirement(n) : n \in {}}
    BY <1>0, <2>1 DEF MediaInv, TypeOK
  <2>3. /\ WorkersHold' /\ OneVerifier' /\ OneKeyWithS3' /\ ReadyIsVerified' /\ PublishedIsGood'
        /\ EventsMatch' /\ NoOrphanObject' /\ AllExpected'
    <3>1. {} \in SUBSET (Media \ {m}) /\ (\A n \in {} : row[n] \in {"pending", "ready"})
          /\ \A n \in {} : row'[n] = "deleted"
      OBVIOUS
    <3> HIDE DEF m, replaced
    <3> QED
      BY <2>1, <2>2, <3>1, ReadyKeeps DEF m
  <2>4. AvatarIsReady'
    BY <2>1, <2>2, AvatarKept
  <2> QED
    BY <2>3, <2>4 DEF MediaInv
<1>2. CASE MarkProfileMediaReady(c)
  <2>1. /\ stage[c] = "published" /\ Ends(c) /\ row[m] = "pending" /\ scope[m] = "profile"
        /\ row' = [n \in Media |-> IF n = m THEN "ready" ELSE IF n \in replaced THEN "deleted" ELSE row[n]]
        /\ lease' = [n \in Media |-> IF n \in replaced \cup {m} THEN Nobody ELSE lease[n]]
        /\ avatar' = m
        /\ deletes' = deletes \cup Leftover(m) \cup {Retirement(n) : n \in replaced}
        /\ UNCHANGED <<provider, erased, scope, late, inflight, object, cleared>>
    BY <1>2 DEF MarkProfileMediaReady, Holds, accountVars, clientVars
  <2>2. /\ row'[m] = "ready" /\ \A n \in replaced : row[n] \in {"pending", "ready"} /\ row'[n] = "deleted"
        /\ \A n \in Media \ (replaced \cup {m}) : row'[n] = row[n] /\ lease'[n] = lease[n]
    BY <1>0, <2>1
  <2>3. AvatarIsReady'
    <3>1. \A n \in Media : scope[n] = "profile" /\ row[n] = "ready" => n \in replaced
      BY <2>1 DEF MediaInv, AvatarIsReady
    <3>2. \A n \in Media : scope[n] = "profile" /\ row'[n] = "ready" <=> n = m
      BY <2>1, <2>2, <3>1
    <3> QED
      BY <1>0, <2>1, <3>2 DEF AvatarIsReady
  <2> HIDE DEF replaced
  <2>4. /\ WorkersHold' /\ OneVerifier' /\ OneKeyWithS3' /\ ReadyIsVerified' /\ PublishedIsGood'
        /\ EventsMatch' /\ NoOrphanObject' /\ AllExpected'
    BY <1>0, <2>1, <2>2, ReadyKeeps
  <2> QED
    BY <2>3, <2>4 DEF MediaInv
<1> QED
  BY <1>1, <1>2

(***************************************************************************)
(* The steps of deletion.                                                  *)
(***************************************************************************)

LEMMA RowsOfFacts ==
    ASSUME NEW s, NEW m \in RowsOf(s)
    PROVE  m \in Media /\ scope[m] = s /\ row[m] \in {"pending", "ready", "deleted"}
BY DEF RowsOf

(* Removing the rows in S: nothing else changes but the avatar and events.  *)
LEMMA RemoveKeeps ==
    ASSUME MediaInv, NEW S \in SUBSET Media, \A m \in S : row[m] \in {"pending", "ready", "deleted"},
           Remove(S), UNCHANGED <<provider, inflight, object, stage, target>>,
           \A e \in deletes' : e \in deletes \/ e.media \in S
    PROVE  /\ \A m \in S : row'[m] = "gone"
           /\ \A m \in Media \ S : row'[m] = row[m] /\ lease'[m] = lease[m]
           /\ WorkersHold' /\ OneVerifier' /\ OneKeyWithS3' /\ ReadyIsVerified' /\ PublishedIsGood'
           /\ EventsMatch'
<1>1. /\ \A m \in S : row'[m] = "gone"
      /\ \A m \in Media \ S : row'[m] = row[m] /\ lease'[m] = lease[m]
  BY DEF Remove
<1>2. WorkersHold' /\ OneVerifier'
  BY <1>1, WorkKept
<1>3. OneKeyWithS3' /\ ReadyIsVerified' /\ PublishedIsGood'
  BY <1>1, ContentKept
<1>4. EventsMatch'
  BY <1>1, EventsKept
<1> QED
  BY <1>1, <1>2, <1>3, <1>4

LEMMA DeleteConversationStep ==
    ASSUME MediaInv, TypeOK', DeleteConversation
    PROVE  MediaInv'
<1> DEFINE S == RowsOf("conversation")
           New(m) == Delete(m, Key, "grace", "drop")
<1>1. /\ Remove(S) /\ deletes' = deletes \cup {New(m) : m \in S}
      /\ UNCHANGED <<provider, erased, scope, avatar, late, inflight, object, stage, target, cleared>>
  BY DEF DeleteConversation, clientVars, workVars
<1>2. S \subseteq Media /\ \A m \in S : row[m] \in {"pending", "ready", "deleted"} /\ scope[m] = "conversation"
  BY RowsOfFacts
<1>3. \A m \in S : New(m).media = m /\ New(m).keys = Key /\ New(m).after = "grace" /\ New(m).why = "drop"
  BY DEF Delete
<1> HIDE DEF S, New
<1>4. /\ \A m \in S : row'[m] = "gone"
      /\ \A m \in Media \ S : row'[m] = row[m] /\ lease'[m] = lease[m]
      /\ WorkersHold' /\ OneVerifier' /\ OneKeyWithS3' /\ ReadyIsVerified' /\ PublishedIsGood'
      /\ EventsMatch'
  BY <1>1, <1>2, <1>3, RemoveKeeps
<1>5. AvatarIsReady'
  BY <1>1, <1>2, <1>4, AvatarKept
<1>6. \A m \in S : New(m) \in deletes' \ deletes
  BY <1>1, <1>2, <1>3 DEF MediaInv, EventsMatch
<1>7. ASSUME NEW m \in Media, NEW k \in Unserved(m)'
      PROVE  \/ \E e \in deletes' \ deletes : e.media = m /\ k \in e.keys /\ e.after = "grace"
             \/ /\ k \in Unserved(m)
                /\ object'[m][k] # "none" => object[m][k] # "none" \/ CanAppear(m, k)
                /\ CanAppear(m, k)' => CanAppear(m, k)
  <2>1. k \in Key
    BY DEF Unserved
  <2>2. CASE m \in S
    BY <1>3, <1>6, <2>1, <2>2
  <2>3. CASE m \notin S
    <3>1. k \in Unserved(m)
      BY <1>1, <1>4, <2>3, UnservedKept
    <3> QED
      BY <1>1, <3>1 DEF CanAppear, Busy
  <2> QED
    BY <2>2, <2>3
<1>8. NoOrphanObject' /\ AllExpected'
  <2>1. deletes \subseteq deletes'
    BY <1>1
  <2> QED
    BY <1>1, <1>7, <2>1, SweepKept
<1> QED
  BY <1>4, <1>5, <1>8 DEF MediaInv

(* The event of an erasure may be due before nothing can appear any more;   *)
(* with OCI an earlier one waits then.                                      *)
LEMMA EraseStep ==
    ASSUME MediaInv, TypeOK', NEW lastMember \in BOOLEAN, EraseAccount(lastMember)
    PROVE  MediaInv'
<1> DEFINE taken == {m \in RowsOf("conversation") : lastMember \/ row[m] = "pending"}
           S == RowsOf("profile") \cup taken
           New(m) == Delete(m, Key, ErasureDelay(m), "erase")
<1>1. /\ Remove(S) /\ deletes' = deletes \cup {New(m) : m \in S} /\ erased' = TRUE /\ avatar' = Nobody
      /\ UNCHANGED <<provider, scope, late, inflight, object, stage, target, cleared>>
      /\ ~erased
  BY DEF EraseAccount, clientVars, workVars
<1>2. S \subseteq Media /\ \A m \in S : row[m] \in {"pending", "ready", "deleted"}
  BY RowsOfFacts
<1>3. \A m \in S : /\ New(m).media = m /\ New(m).keys = Key /\ New(m).why = "erase"
                   /\ row[m] = "pending" => New(m).after = "grace"
  BY DEF Delete, ErasureDelay
<1>4. \A m \in Media : scope[m] = "profile" /\ row[m] = "ready" => m \in S
  BY DEF RowsOf
<1> HIDE DEF taken, S, New
<1>5. /\ \A m \in S : row'[m] = "gone"
      /\ \A m \in Media \ S : row'[m] = row[m] /\ lease'[m] = lease[m]
      /\ WorkersHold' /\ OneVerifier' /\ OneKeyWithS3' /\ ReadyIsVerified' /\ PublishedIsGood'
      /\ EventsMatch'
  BY <1>1, <1>2, <1>3, RemoveKeeps
<1>6. AvatarIsReady'
  BY <1>1, <1>4, <1>5 DEF AvatarIsReady
<1>7. \A m \in S : New(m) \in deletes' \ deletes
  BY <1>1, <1>2, <1>3 DEF MediaInv, EventsMatch
<1>8. NoOrphanObject' /\ AllExpected'
  <2> SUFFICES ASSUME NEW m \in Media, NEW k \in Unserved(m)', provider = "oci"
               PROVE  /\ object'[m][k] # "none" => \E e \in deletes' : Pending(e, m, k)'
                      /\ CanAppear(m, k)' => \E e \in deletes' : Pending(e, m, k)' /\ e.after = "grace"
    BY <1>1, SweepIntro
  <2>1. \A e \in deletes : Pending(e, m, k) => e \in deletes' /\ Pending(e, m, k)'
    BY <1>1 DEF Pending
  <2>2. CanAppear(m, k)' <=> CanAppear(m, k)
    BY <1>1 DEF CanAppear, Busy
  <2>3. k \in Key
    BY DEF Unserved
  <2>4. k \in Unserved(m) =>
            /\ object[m][k] # "none" => \E e \in deletes : Pending(e, m, k)
            /\ CanAppear(m, k) => \E e \in deletes : Pending(e, m, k) /\ e.after = "grace"
    BY SweepElim
  <2>5. CASE m \in S
    <3>0. PICK w \in deletes' \ deletes : w = New(m)
      BY <1>7, <2>5
    <3>1. w \in deletes' /\ <<w, k>> \notin cleared
      BY <3>0 DEF MediaInv, TypeOK
    <3>2. Pending(w, m, k)' /\ (row[m] = "pending" => w.after = "grace")
      BY <1>1, <1>3, <2>3, <2>5, <3>0, <3>1 DEF Pending
    <3>3. CASE row[m] = "pending"
      BY <3>1, <3>2, <3>3
    <3>4. CASE row[m] = "deleted"
      BY <2>1, <2>2, <2>3, <2>4, <3>1, <3>2, <3>4, UnservedFacts
    <3>5. CASE row[m] = "ready"
      <4>1. ServedKey = "published"
        BY DEF ServedKey
      <4>2. CASE k = "staging"
        <5>1. k \in Unserved(m)
          BY <2>3, <3>5, <4>1, <4>2, UnservedFacts
        <5> QED
          BY <2>1, <2>2, <2>4, <3>1, <3>2, <5>1
      <4>3. CASE k = "published"
        <5>1. ~Busy(m)
          BY <3>5 DEF Busy, MediaInv, WorkersHold
        <5>2. ~CanAppear(m, k)
          BY <4>3, <5>1 DEF CanAppear
        <5> QED
          BY <2>2, <3>1, <3>2, <5>2
      <4> QED
        BY <2>3, <4>2, <4>3 DEF Key
    <3> QED
      BY <1>2, <2>5, <3>3, <3>4, <3>5
  <2>6. CASE m \notin S
    <3>1. k \in Unserved(m)
      BY <1>1, <1>5, <2>6, UnservedKept
    <3> QED
      BY <1>1, <2>1, <2>2, <2>4, <3>1
  <2> QED
    BY <2>5, <2>6
<1> QED
  BY <1>5, <1>6, <1>8 DEF MediaInv

LEMMA RemoveObjectStep ==
    ASSUME MediaInv, TypeOK', NEW e \in deletes, NEW k \in Key, RemoveObject(e, k)
    PROVE  MediaInv'
<1> DEFINE m == e.media
<1>1. /\ Due(e) /\ k \in e.keys
      /\ object' = [object EXCEPT ![m][k] = "none"]
      /\ cleared' = cleared \cup {<<e, k>>}
      /\ UNCHANGED <<provider, erased, scope, row, lease, avatar, late, inflight, stage, target, deletes>>
  BY DEF RemoveObject, accountVars, rowVars, clientVars, workVars
<1>2. m \in Media
  BY DEF MediaInv, TypeOK, DeleteEvent
<1>3. /\ object'[m][k] = "none"
      /\ \A n \in Media, j \in Key : n # m \/ j # k => object'[n][j] = object[n][j]
  BY <1>1, <1>2 DEF MediaInv, TypeOK
<1>4. WorkersHold' /\ OneVerifier'
  BY <1>1, WorkKept
<1>5. ServedKey' = ServedKey /\ ServedKey \in Key
  BY <1>1 DEF ServedKey, Key
<1>6. \A n \in Media : row[n] \in {"pending", "ready"} => object'[n][ServedKey] = object[n][ServedKey]
  <2>1. row[m] \in {"pending", "ready"} => k # ServedKey
    BY <1>1 DEF MediaInv, EventsMatch
  <2> QED
    BY <1>3, <1>5, <2>1
<1>7. OneKeyWithS3'
  <2>1. \A n \in Media : object[n].published = "none" => object'[n].published = "none"
    BY <1>3 DEF Key
  <2> QED
    BY <1>1, <2>1 DEF MediaInv, OneKeyWithS3
<1>8. ReadyIsVerified'
  BY <1>1, <1>5, <1>6 DEF MediaInv, ReadyIsVerified
<1>9. PublishedIsGood'
  <2>1. \A c \in Completion : stage[c] = "published" => target[c] \in Media
    BY Works
  <2> QED
    BY <1>1, <1>5, <1>6, <2>1 DEF MediaInv, PublishedIsGood
<1>10. EventsMatch' /\ AvatarIsReady'
  BY <1>1, EventsKept, AvatarKept
<1>11. NoOrphanObject' /\ AllExpected'
  <2> SUFFICES ASSUME NEW n \in Media, NEW j \in Unserved(n)', provider = "oci" \/ ~erased
               PROVE  /\ object'[n][j] # "none" => \E f \in deletes' : Pending(f, n, j)'
                      /\ CanAppear(n, j)' => \E f \in deletes' : Pending(f, n, j)' /\ f.after = "grace"
    BY <1>1, SweepIntro
  <2> HIDE DEF m
  <2>1. j \in Unserved(n) /\ j \in Key
    <3>1. j \in Unserved(n)
      BY <1>1, UnservedKept
    <3> QED
      BY <3>1 DEF Unserved
  <2>2. /\ object[n][j] # "none" => \E f \in deletes : Pending(f, n, j)
        /\ CanAppear(n, j) => \E f \in deletes : Pending(f, n, j) /\ f.after = "grace"
    BY <2>1, SweepElim
  <2>3. CanAppear(n, j)' <=> CanAppear(n, j)
    BY <1>1 DEF CanAppear, Busy
  <2>4. \A f \in deletes : Pending(f, n, j) /\ (f # e \/ j # k) => Pending(f, n, j)'
    BY <1>1 DEF Pending
  <2>5. CASE n = m /\ j = k
    <3>1. object'[n][j] = "none"
      BY <1>3, <2>5
    <3>2. e.after = "grace" => ~CanAppear(n, j)
      BY <1>1, <2>5 DEF Due, CanAppear, m
    <3> QED
      BY <1>1, <2>2, <2>3, <2>4, <3>1, <3>2
  <2>6. CASE n # m \/ j # k
    <3>1. object'[n][j] = object[n][j]
      BY <1>3, <2>1, <2>6
    <3>2. \A f \in deletes : Pending(f, n, j) => Pending(f, n, j)'
      BY <2>4, <2>6 DEF Pending, m
    <3> QED
      BY <1>1, <2>2, <2>3, <3>1, <3>2
  <2> QED
    BY <2>5, <2>6
<1> QED
  BY <1>4, <1>7, <1>8, <1>9, <1>10, <1>11 DEF MediaInv

LEMMA AttemptStep ==
    ASSUME MediaInv, TypeOK', NEW e \in deletes, AttemptFails(e) \/ FinishDelete(e)
    PROVE  MediaInv'
<1>1. /\ cleared' = {x \in cleared : x[1] # e} /\ deletes' \subseteq deletes
      /\ \A f \in deletes : f # e => f \in deletes'
      /\ e \in deletes' \/ \A k \in e.keys : <<e, k>> \in cleared
      /\ UNCHANGED <<provider, erased, scope, row, lease, avatar, late, inflight, object, stage, target>>
  BY DEF AttemptFails, FinishDelete, accountVars, rowVars, clientVars, workVars
<1>2. WorkersHold' /\ OneVerifier'
  BY <1>1, WorkKept
<1>3. OneKeyWithS3' /\ ReadyIsVerified' /\ PublishedIsGood'
  BY <1>1, ContentKept
<1>4. EventsMatch' /\ AvatarIsReady'
  BY <1>1, EventsKept, AvatarKept
<1>5. NoOrphanObject' /\ AllExpected'
  <2> SUFFICES ASSUME NEW n \in Media, NEW j \in Unserved(n)', provider = "oci" \/ ~erased
               PROVE  /\ object'[n][j] # "none" => \E f \in deletes' : Pending(f, n, j)'
                      /\ CanAppear(n, j)' => \E f \in deletes' : Pending(f, n, j)' /\ f.after = "grace"
    BY <1>1, SweepIntro
  <2>1. j \in Unserved(n) /\ (CanAppear(n, j)' <=> CanAppear(n, j))
    BY <1>1, UnservedKept DEF CanAppear, Busy
  <2>2. /\ object[n][j] # "none" => \E f \in deletes : Pending(f, n, j)
        /\ CanAppear(n, j) => \E f \in deletes : Pending(f, n, j) /\ f.after = "grace"
    BY <2>1, SweepElim
  <2>3. \A f \in deletes : Pending(f, n, j) => f \in deletes' /\ Pending(f, n, j)'
    BY <1>1 DEF Pending
  <2> QED
    BY <1>1, <2>1, <2>2, <2>3
<1> QED
  BY <1>2, <1>3, <1>4, <1>5 DEF MediaInv

LEMMA MediaStep == MediaInv /\ [Next]_vars => MediaInv'
<1> SUFFICES ASSUME MediaInv, [Next]_vars PROVE MediaInv'
  OBVIOUS
<1>1. TypeOK'
  BY TypeStep
<1>2. CASE UNCHANGED vars
  <2>1. UNCHANGED <<provider, erased, scope, row, lease, avatar, late, inflight, object, stage, target, deletes, cleared>>
    BY <1>2 DEF vars, accountVars, rowVars, clientVars, workVars
  <2>2. \A n \in Media, k \in Key : CanAppear(n, k)' => CanAppear(n, k)
    BY <2>1 DEF CanAppear, Busy
  <2>3. WorkersHold' /\ OneVerifier' /\ OneKeyWithS3' /\ ReadyIsVerified' /\ PublishedIsGood'
    BY <2>1, WorkKept, ContentKept
  <2>4. EventsMatch' /\ AvatarIsReady' /\ NoOrphanObject' /\ AllExpected'
    BY <1>1, <2>1, <2>2, EventsKept, AvatarKept, SweepUntouched
  <2> QED
    BY <1>1, <2>3, <2>4 DEF MediaInv
<1> QED
  BY <1>1, <1>2, ReserveStep, WaitStep, PutStartsStep, PutEndsStep, RetireStep, ClaimStep, MoveStep, RenameStep,
     GiveUpStep, RejectStep, ReadyStep, DeleteConversationStep, EraseStep, RemoveObjectStep, AttemptStep DEF Next

LEMMA MediaInit == Init => MediaInv
<1> SUFFICES ASSUME Init PROVE MediaInv
  OBVIOUS
<1>1. TypeOK
  <2>1. /\ provider \in Providers /\ scope \in [Media -> {"profile", "conversation"}]
        /\ row \in [Media -> RowStatus] /\ late \subseteq Media /\ avatar \in Media \cup {Nobody}
        /\ lease \in [Media -> Completion \cup {Nobody}]
    BY DEF Init, RowStatus
  <2>2. capability \in [Media -> {"none", "live", "revoked"}] /\ inflight \in [Media -> Content]
    BY DEF Init, Content
  <2>5. erased \in BOOLEAN /\ open \in BOOLEAN
    BY DEF Init
  <2>6. puts \in 0..MaxPuts /\ faults \in 0..MaxFaults
    BY DEF Init
  <2>3. object \in [Media -> [Key -> Content]]
    <3>1. \A m \in Media : [k \in Key |-> IF m = Earlier /\ k = ServedKey THEN "good" ELSE "none"]
                              \in [Key -> Content]
      BY DEF Content
    <3> QED
      BY <3>1 DEF Init
  <2>4. /\ stage \in [Completion -> Stage] /\ target \in [Completion -> Media \cup {Nobody}]
        /\ deletes \subseteq DeleteEvent /\ cleared \subseteq deletes \X Key
    BY DEF Init, Stage
  <2> QED
    BY <2>1, <2>2, <2>3, <2>4, <2>5, <2>6 DEF TypeOK
<1>2. WorkersHold /\ OneVerifier
  BY DEF Init, WorkersHold, OneVerifier
<1>3. ServedKey \in Key /\ (provider = "s3" => ServedKey = "staging")
  BY DEF ServedKey, Key
<1>4. \A m \in Media : object[m].published # "none" => provider # "s3"
  BY <1>3 DEF Init, Key
<1>5. OneKeyWithS3 /\ ReadyIsVerified /\ PublishedIsGood
  BY <1>3, <1>4 DEF Init, OneKeyWithS3, ReadyIsVerified, PublishedIsGood
<1>6. EventsMatch /\ AvatarIsReady
  BY DEF Init, EventsMatch, AvatarIsReady
<1>7. ASSUME NEW m \in Media, NEW k \in Unserved(m) PROVE object[m][k] = "none" /\ ~CanAppear(m, k)
  <2>1. m = Earlier /\ row[m] = "ready"
    BY <1>7 DEF Init, Unserved
  <2>2. k \in Key /\ k # ServedKey
    BY <1>7, <2>1 DEF Unserved
  <2>3. object[m][k] = "none"
    BY <2>1, <2>2 DEF Init
  <2>4. m \in late /\ inflight[m] = "none" /\ ~Busy(m)
    BY <2>1 DEF Init, Busy
  <2> QED
    BY <2>3, <2>4 DEF CanAppear
<1>8. NoOrphanObject /\ AllExpected
  BY <1>7 DEF NoOrphanObject, AllExpected, Swept, Expected
<1> QED
  BY <1>1, <1>2, <1>5, <1>6, <1>8 DEF MediaInv

(* The inductive invariant holds throughout. *)
THEOREM MediaInvariance == Spec => []MediaInv
<1>1. Init => MediaInv
  BY MediaInit
<1>2. MediaInv /\ [Next]_vars => MediaInv'
  BY MediaStep
<1> QED
  BY <1>1, <1>2, PTL DEF Spec

(* What a ready row serves is there and is what was declared, whatever late *)
(* PUTs, competing completions and deletion events do.                      *)
THEOREM ServedIsVerified == Spec => []ReadyIsVerified
<1>1. MediaInv => ReadyIsVerified
  BY DEF MediaInv
<1> QED
  BY <1>1, MediaInvariance, PTL

(* users.avatar_url names the account's one ready profile upload. *)
THEOREM AvatarIsTheReadyOne == Spec => []MediaWellFormed
<1>1. MediaInv => MediaWellFormed
  BY DEF MediaInv, MediaWellFormed
<1> QED
  BY <1>1, MediaInvariance, PTL

(* No object is left behind: an event that will remove it is still queued   *)
(* (media.delete), except for what the erasure of an S3 upload leaves.      *)
THEOREM NothingIsOrphaned == Spec => []NoOrphanObject
<1>1. MediaInv => NoOrphanObject
  BY DEF MediaInv
<1> QED
  BY <1>1, MediaInvariance, PTL

(* Two requests never work on the same upload (ClaimMediaVerification). *)
THEOREM VerifiedByOne == Spec => []OneVerifier
<1>1. MediaInv => OneVerifier
  BY DEF MediaInv
<1> QED
  BY <1>1, MediaInvariance, PTL
=============================================================================
