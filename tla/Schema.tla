------------------------------- MODULE Schema -------------------------------
(***************************************************************************)
(* The keys of the tables that the delivery pipeline shares, and the two   *)
(* facts about accounts and conversations that the pipeline reads: which   *)
(* accounts are live (users.deleted_at IS NULL) and which conversations    *)
(* still exist.  Membership itself changes in other modules; here it is a  *)
(* parameter that account erasure and conversation deletion cut down.      *)
(***************************************************************************)
EXTENDS Integers, FiniteSets

CONSTANTS
    Event,        \* outbox_events.id of realtime rows (bigint identity, from 1)
    Conversation, \* conversations.id
    User,         \* users.id
    Device,       \* devices.id
    AggregateOf,  \* [Event -> Conversation]: outbox_events.aggregate_id
    MemberOf,     \* [Conversation -> SUBSET User]: conversation_members
    References,   \* [Event -> SUBSET User]: accounts whose erasure removes the row
    OwnerOf,      \* [Device -> User]: devices.user_id
    MaxFaults     \* bound on crashes, failed calls and leases lost while working

ASSUME EventAssumption == Event \subseteq Nat \ {0}
ASSUME AggregateAssumption == AggregateOf \in [Event -> Conversation]
ASSUME MemberAssumption == MemberOf \in [Conversation -> SUBSET User]
ASSUME ReferencesAssumption == References \in [Event -> SUBSET User]
ASSUME OwnerAssumption == OwnerOf \in [Device -> User]

ASSUME FaultAssumption == MaxFaults \in Nat

VARIABLES
    live,   \* accounts that have not been erased
    open,   \* conversations that have not been deleted
    faults  \* crashes, failed calls and leases lost while working, so far

schemaVars == <<live, open>>

SchemaTypeOK ==
    /\ live \subseteq User
    /\ open \subseteq Conversation
    /\ faults \in 0..MaxFaults

SchemaInit ==
    /\ live = User
    /\ open = Conversation
    /\ faults = 0

Fault ==
    /\ faults < MaxFaults
    /\ faults' = faults + 1

(* conversationMemberIDs: erasure deletes the account's membership rows and *)
(* a deleted conversation has none left.                                    *)
ConversationMemberIDs(c) == IF c \in open THEN MemberOf[c] \cap live ELSE {}

(* deleteAccountTx: a conversation the account leaves without any successor *)
(* is deleted with it.                                                      *)
OrphanedBy(u) == {c \in open : ConversationMemberIDs(c) = {u}}
=============================================================================
