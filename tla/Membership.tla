----------------------------- MODULE Membership -----------------------------
(***************************************************************************)
(* Who belongs to which conversation and who owns it: the member           *)
(* operations of the PostgreSQL store, each one transaction behind the     *)
(* row locks of the users it names and of the conversation, and account    *)
(* erasure, a long transaction that takes its locks one after the other    *)
(* and decides the succession of every conversation from what one query    *)
(* saw.                                                                    *)
(*                                                                         *)
(* Erasure exists twice.  DeleteAccount (DELETE /v1/me) runs serializable: *)
(* everything it reads is as of its first statement, which waits for the   *)
(* delivery barrier, and writing to a conversation changed since fails     *)
(* with 40001.  ExecuteAccountDeletionIntent runs read committed: the      *)
(* query that lists the conversations waits for their row locks, and       *)
(* PostgreSQL then re-reads the locked conversation but keeps the joined   *)
(* role, successor and owner.                                              *)
(*                                                                         *)
(* Invitations are inputs: whoever may join holds one.  joined_at is left  *)
(* out, so the successor is any other member.                              *)
(***************************************************************************)
EXTENDS Naturals, FiniteSets

CONSTANTS
    User,
    Conversation,
    Group,         \* conversations of kind "group"; the others are direct
    Nobody,        \* NULL
    MemberCap,     \* 1024
    Kinds          \* the erasures there are: "delete" is DeleteAccount, "intent"
                   \* ExecuteAccountDeletionIntent

ASSUME GroupAssumption == Group \subseteq Conversation
ASSUME NobodyAssumption == Nobody \notin User
ASSUME CapAssumption == MemberCap \in Nat
ASSUME KindsAssumption == Kinds \subseteq {"delete", "intent"}

VARIABLES
    live,      \* users.deleted_at IS NULL
    exists,    \* conversations
    createdBy, \* [Conversation -> User \cup {Nobody}]: conversations.created_by
    role,      \* [Conversation -> [User -> Role]]: conversation_members.role
    tombs,     \* [Conversation -> SUBSET User]: conversation_member_tombstones
    estage,    \* [User -> EraseStage]: the erasure of this account
    how,       \* [User -> Kinds \cup {"none"}]: the erasure it went, or goes, through
    seen,      \* [User -> [Conversation -> Sight]]: what its query returned
    stale      \* erasures whose conversations were written after the snapshot

tableVars == <<live, exists, createdBy, role, tombs>>
eraseVars == <<estage, how, seen, stale>>
vars == <<tableVars, eraseVars>>

Role == {"none", "owner", "admin", "member"}
EraseStage == {"none", "begun", "locked", "read"}

(* A row of the query in deleteAccountTx. *)
Sight == [listed : BOOLEAN, role : Role, heir : User \cup {Nobody}, owner : User \cup {Nobody}]
Unseen == [listed |-> FALSE, role |-> "none", heir |-> Nobody, owner |-> Nobody]

TypeOK ==
    /\ live \subseteq User
    /\ exists \subseteq Conversation
    /\ createdBy \in [Conversation -> User \cup {Nobody}]
    /\ role \in [Conversation -> [User -> Role]]
    /\ tombs \in [Conversation -> SUBSET User]
    /\ estage \in [User -> EraseStage]
    /\ how \in [User -> Kinds \cup {"none"}]
    /\ seen \in [User -> [Conversation -> Sight]]
    /\ stale \subseteq User

NoRoles == [u \in User |-> "none"]

Init ==
    /\ live = User
    /\ exists = {}
    /\ createdBy = [c \in Conversation |-> Nobody]
    /\ role = [c \in Conversation |-> NoRoles]
    /\ tombs = [c \in Conversation |-> {}]
    /\ estage = [u \in User |-> "none"]
    /\ how = [u \in User |-> "none"]
    /\ seen = [u \in User |-> [c \in Conversation |-> Unseen]]
    /\ stale = {}

Members(c) == {u \in User : role[c][u] # "none"}
Owners(c) == {u \in User : role[c][u] = "owner"}

(* Faulty variant: the rows are read without FOR UPDATE. *)
LiveUsers(S) == S \subseteq live

(* lockLiveUsers: erasure holds the row of its account from "locked" on. *)
LockLiveUsers(S) == S \subseteq live /\ \A u \in S : estage[u] \notin {"locked", "read"}

(* The conversation row gets a new version. *)
Touch(S) ==
    /\ stale' = stale \cup {u \in User : \E c \in S : seen[u][c].listed}
    /\ UNCHANGED <<estage, how, seen>>

(***************************************************************************)
(* The member operations.                                                  *)
(***************************************************************************)

(* ON CONFLICT DO NOTHING: an existing id changes nothing.  *)
CreateConversation(c, u, S) ==
    /\ c \notin exists
    /\ u \in S
    /\ IF c \in Group THEN Cardinality(S) <= MemberCap ELSE Cardinality(S) = 2
    /\ LockLiveUsers(S)
    /\ exists' = exists \cup {c}
    /\ createdBy' = [createdBy EXCEPT ![c] = u]
    /\ role' = [role EXCEPT ![c] =
                  [v \in User |-> IF v = u THEN "owner" ELSE IF v \in S THEN "member" ELSE "none"]]
    /\ UNCHANGED <<live, tombs, eraseVars>>

MayManage(c, u) == role[c][u] \in {"owner", "admin"}

AddConversationMember(c, actor, u, r) ==
    /\ c \in exists \cap Group
    /\ LockLiveUsers({actor, u})
    /\ r \in {"member", "admin"}
    /\ MayManage(c, actor)
    /\ role[c][u] # "owner"
    /\ role[c][u] = "none" => Cardinality(Members(c)) < MemberCap
    /\ role' = [role EXCEPT ![c][u] = r]
    /\ tombs' = [tombs EXCEPT ![c] = @ \ {u}]
    /\ Touch({c})
    /\ UNCHANGED <<live, exists, createdBy>>

(* Faulty variant: whoever returns keeps the tombstone. *)
JoinKeepsTombstone(c, u, byLink) ==
    /\ c \in exists \cap Group
    /\ LockLiveUsers({u})
    /\ role[c][u] = "none"
    /\ byLink => Cardinality(Members(c)) < MemberCap
    /\ role' = [role EXCEPT ![c][u] = "member"]
    /\ Touch({c})
    /\ UNCHANGED <<live, exists, createdBy, tombs>>

(* AcceptConversationInvite by link, and ClaimConversationInvites by phone *)
(* number; only the first looks at the member count.                       *)
Join(c, u, byLink) ==
    /\ c \in exists \cap Group
    /\ LockLiveUsers({u})
    /\ role[c][u] = "none"
    /\ byLink => Cardinality(Members(c)) < MemberCap
    /\ role' = [role EXCEPT ![c][u] = "member"]
    /\ tombs' = [tombs EXCEPT ![c] = @ \ {u}]
    /\ Touch({c})
    /\ UNCHANGED <<live, exists, createdBy>>

RemoveConversationMember(c, actor, u) ==
    /\ c \in exists \cap Group
    /\ LockLiveUsers({actor, u})
    /\ actor \in Members(c)
    /\ role[c][u] \in {"admin", "member"}
    /\ actor = u \/ MayManage(c, actor)
    /\ role' = [role EXCEPT ![c][u] = "none"]
    /\ tombs' = [tombs EXCEPT ![c] = @ \cup {u}]
    /\ Touch({c})
    /\ UNCHANGED <<live, exists, createdBy>>

(* Faulty variant: the authority pointer stays behind. *)
TransferRoleOnly(c, actor, u) ==
    /\ actor # u
    /\ c \in exists \cap Group
    /\ LockLiveUsers({actor, u})
    /\ role[c][actor] = "owner"
    /\ u \in Members(c)
    /\ role' = [role EXCEPT ![c][actor] = "admin", ![c][u] = "owner"]
    /\ Touch({c})
    /\ UNCHANGED <<live, exists, createdBy, tombs>>

TransferConversationOwnership(c, actor, u) ==
    /\ actor # u
    /\ c \in exists \cap Group
    /\ LockLiveUsers({actor, u})
    /\ role[c][actor] = "owner"
    /\ u \in Members(c)
    /\ role' = [role EXCEPT ![c][actor] = "admin", ![c][u] = "owner"]
    /\ createdBy' = [createdBy EXCEPT ![c] = u]
    /\ Touch({c})
    /\ UNCHANGED <<live, exists, tombs>>

(* The rows of a deleted conversation go with it (ON DELETE CASCADE). *)
DeleteConversation(c, actor) ==
    /\ c \in exists
    /\ LockLiveUsers({actor})
    /\ createdBy[c] = actor
    /\ role[c][actor] = "owner"
    /\ exists' = exists \ {c}
    /\ createdBy' = [createdBy EXCEPT ![c] = Nobody]
    /\ role' = [role EXCEPT ![c] = NoRoles]
    /\ tombs' = [tombs EXCEPT ![c] = {}]
    /\ Touch({c})
    /\ UNCHANGED live

(***************************************************************************)
(* Account erasure.                                                        *)
(***************************************************************************)

Others(c, u) == Members(c) \ {u}

(* Member of the set, or NULL when there is none. *)
OneOf(S) == IF S = {} THEN {Nobody} ELSE S

(* The query's row for a conversation: the account is or was a member. *)
Look(c, u) ==
    IF c \in exists /\ (u \in Members(c) \/ u \in tombs[c])
      THEN {[listed |-> TRUE, role |-> role[c][u], heir |-> h, owner |-> o] :
               h \in OneOf(Others(c, u)), o \in OneOf(Owners(c) \ {u})}
      ELSE {Unseen}

SeeAll(u) ==
    \E rows \in [Conversation -> UNION {Look(c, u) : c \in Conversation}] :
        /\ \A c \in Conversation : rows[c] \in Look(c, u)
        /\ seen' = [seen EXCEPT ![u] = rows]

Serializable(u) == how[u] = "delete"

(* The first statement asks for the delivery barrier.  A serializable       *)
(* transaction has its snapshot before it begins to wait.                   *)
BeginErase(u, kind) ==
    /\ estage[u] = "none"
    /\ u \in live
    /\ estage' = [estage EXCEPT ![u] = "begun"]
    /\ how' = [how EXCEPT ![u] = kind]
    /\ IF kind = "delete" THEN SeeAll(u) ELSE UNCHANGED seen
    /\ UNCHANGED <<tableVars, stale>>

(* The barrier, exclusive among erasures, and the user's row. *)
LockErased(u) ==
    /\ estage[u] = "begun"
    /\ u \in live
    /\ \A v \in User : estage[v] \notin {"locked", "read"}
    /\ estage' = [estage EXCEPT ![u] = "locked"]
    /\ UNCHANGED <<tableVars, how, seen, stale>>

ReadConversations(u) ==
    /\ estage[u] = "locked"
    /\ estage' = [estage EXCEPT ![u] = "read"]
    /\ IF Serializable(u) THEN UNCHANGED seen ELSE SeeAll(u)
    /\ UNCHANGED <<tableVars, how, stale>>

EndErase(u) ==
    /\ estage' = [estage EXCEPT ![u] = "none"]
    /\ seen' = [seen EXCEPT ![u] = [c \in Conversation |-> Unseen]]

Listed(u) == {c \in exists : seen[u][c].listed}
(* Faulty variant: a conversation without another owner is deleted. *)
AbandonedByOwner(u) == {c \in Listed(u) : seen[u][c].owner = Nobody}
Abandoned(u) == {c \in Listed(u) : seen[u][c].heir = Nobody}
Inherited(u) == Listed(u) \ Abandoned(u)

(* created_by of a conversation the account leaves to others. *)
NewAuthority(u, c) ==
    IF createdBy[c] # u THEN createdBy[c]
    ELSE IF seen[u][c].owner # Nobody THEN seen[u][c].owner ELSE seen[u][c].heir

PromoteSuccessor(u, c) ==
    \/ seen[u][c].role = "owner"
    \/ seen[u][c].owner = Nobody /\ createdBy[c] = u

(* The UPDATE that promotes affects no row when the successor has left. *)
RolesWithout(u, c) ==
    [v \in User |->
        IF v = u THEN "none"
        ELSE IF v = seen[u][c].heir /\ PromoteSuccessor(u, c) /\ v \in Members(c) THEN "owner"
        ELSE role[c][v]]

(* The conversations are locked, settled one by one, the account is marked  *)
(* deleted, and the transaction commits.                                    *)
CommitErase(u) ==
    /\ estage[u] = "read"
    /\ Serializable(u) => u \notin stale
    /\ live' = live \ {u}
    /\ exists' = exists \ Abandoned(u)
    /\ createdBy' = [c \in Conversation |->
                        IF c \in Abandoned(u) THEN Nobody
                        ELSE IF c \in Inherited(u) THEN NewAuthority(u, c) ELSE createdBy[c]]
    /\ role' = [c \in Conversation |->
                    IF c \in Abandoned(u) THEN NoRoles
                    ELSE IF c \in Inherited(u) THEN RolesWithout(u, c) ELSE role[c]]
    /\ tombs' = [c \in Conversation |->
                    IF c \in Abandoned(u) THEN {}
                    ELSE IF c \in Inherited(u) /\ seen[u][c].role # "none" THEN tombs[c] \cup {u}
                    ELSE tombs[c]]
    /\ EndErase(u)
    /\ UNCHANGED how
    /\ stale' = (stale \ {u}) \cup {v \in User \ {u} : \E c \in Listed(u) : seen[v][c].listed}

(* 40001, a failed session fence, a lost connection: rolled back. *)
AbortErase(u) ==
    /\ estage[u] # "none"
    /\ EndErase(u)
    /\ how' = [how EXCEPT ![u] = "none"]
    /\ stale' = stale \ {u}
    /\ UNCHANGED tableVars

(***************************************************************************)
(* The specification.                                                      *)
(***************************************************************************)

Next ==
    \/ \E c \in Conversation, u \in User :
          \/ \E S \in SUBSET User : CreateConversation(c, u, S)
          \/ \E byLink \in BOOLEAN : Join(c, u, byLink)
          \/ DeleteConversation(c, u)
          \/ \E v \in User :
                \/ \E r \in Role : AddConversationMember(c, u, v, r)
                \/ RemoveConversationMember(c, u, v)
                \/ TransferConversationOwnership(c, u, v)
    \/ \E u \in User :
          \/ \E kind \in Kinds : BeginErase(u, kind)
          \/ LockErased(u) \/ ReadConversations(u) \/ CommitErase(u) \/ AbortErase(u)

(* A transaction that has its locks runs on. *)
Fairness == \A u \in User : WF_vars(ReadConversations(u)) /\ WF_vars(CommitErase(u))

SafetySpec == Init /\ [][Next]_vars

Spec == SafetySpec /\ Fairness

(***************************************************************************)
(* Properties.                                                             *)
(***************************************************************************)

ErasedBy(kind) == {u \in User \ live : how[u] = kind}

(* "conversation must have exactly one owner matching created_by"          *)
(* (migration 21): without it nobody may delete the conversation, transfer *)
(* it or, in a group without admins, admit members.  The erasure of a      *)
(* deletion intent does not keep it: it may hand the conversation to a     *)
(* successor who left while it waited for the conversation's lock.         *)
OneOwner ==
    ErasedBy("intent") = {} => \A c \in exists : Owners(c) = {createdBy[c]}

(* "The deleted account is removed from every group"                       *)
(* (IMPLEMENTATION_CHECKPOINT.md): an account in S is nobody's member and   *)
(* owns nothing, whatever was done with it while it was being erased.      *)
RemovedEverywhere(S) ==
    \A c \in exists : Members(c) \cap S = {} /\ createdBy[c] \notin S

(* Erasure by deletion intent keeps the promise, next to erasures of        *)
(* either kind.                                                             *)
ErasedIsRemoved == RemovedEverywhere(ErasedBy("intent"))

(* The promise as it is written, of every erased account. *)
EveryErasedIsRemoved == RemovedEverywhere(User \ live)

(* "Shared messages, expenses, and settlements remain available to other    *)
(* members": DeleteAccount deletes a conversation only if nobody else is in. *)
SharedHistoryStays ==
    [][\A c \in exists \ exists' : \A u \in live \ live' :
          how[u] = "delete" => Members(c) \subseteq {u}]_vars

(* A tombstone records a departure, by whichever of the three paths: a      *)
(* member who comes back, by whichever of the others, has none left, so the *)
(* projected metadata never lists anybody as present and departed.          *)
TombstonesMatch ==
    \A c \in Conversation : tombs[c] \cap Members(c) = {}

(* Roles and tombstones are well formed, in which order ever members come,   *)
(* go and are erased.                                                        *)
MembersWellFormed == TypeOK /\ TombstonesMatch
=============================================================================
