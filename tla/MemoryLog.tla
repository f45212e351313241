----------------------------- MODULE MemoryLog -----------------------------
(***************************************************************************)
(* The message log of one conversation as the in-memory store keeps it:    *)
(* every operation is one critical section of the store's mutex.  It is    *)
(* the specification the PostgreSQL store of ConversationLog implements.   *)
(***************************************************************************)
EXTENDS Naturals, Sequences, SequencesExt

CONSTANTS
    User,
    Message,     \* idempotency keys: a sender and a client_message_id
    SenderOf     \* [Message -> User]

VARIABLES
    log,         \* s.messages: what was sent, in order of seq
    members,     \* s.members
    gone,        \* erased accounts
    receipts,    \* [User -> Mark]: s.receipts
    announced,   \* messages with a message.created event in the outbox
    answers      \* [Message -> the seq values the server answered]

vars == <<log, members, gone, receipts, announced, answers>>

Mark == [delivered : Nat, read : Nat]
NoMark == [delivered |-> 0, read |-> 0]

Init ==
    /\ log = <<>>
    /\ members = User
    /\ gone = {}
    /\ receipts = [u \in User |-> NoMark]
    /\ announced = {}
    /\ answers = [m \in Message |-> {}]

(* The seq of m in the log l. *)
SeqIn(l, m) == CHOOSE i \in 1..Len(l) : l[i] = m

(* The answer, whether or not the client hears it. *)
Answer(m, seq) == answers' = [answers EXCEPT ![m] = @ \cup {seq}]

(* A known client id answers with the stored message. *)
CreateMessage(m) ==
    /\ SenderOf[m] \in members
    /\ log' = IF m \in ToSet(log) THEN log ELSE Append(log, m)
    /\ announced' = announced \cup {m}
    /\ Answer(m, SeqIn(log', m))
    /\ UNCHANGED <<members, gone, receipts>>

(* The check against the last seq is the handler's. *)
UpsertReceipt(u, mark) ==
    /\ u \in members
    /\ mark.read <= mark.delivered
    /\ receipts[u].delivered <= mark.delivered
    /\ receipts[u].read <= mark.read
    /\ receipts' = [receipts EXCEPT ![u] = mark]
    /\ UNCHANGED <<log, members, gone, announced, answers>>

AddMember(u) ==
    /\ u \notin gone
    /\ members' = members \cup {u}
    /\ UNCHANGED <<log, gone, receipts, announced, answers>>

(* The receipts of whoever leaves stay, and count when they return. *)
RemoveMember(u) ==
    /\ members' = members \ {u}
    /\ UNCHANGED <<log, gone, receipts, announced, answers>>

DeleteAccount(u) ==
    /\ members' = members \ {u}
    /\ gone' = gone \cup {u}
    /\ receipts' = [receipts EXCEPT ![u] = NoMark]
    /\ UNCHANGED <<log, announced, answers>>

Next ==
    \/ \E m \in Message : CreateMessage(m)
    \/ \E u \in User :
          \/ \E d \in 0..Len(log) : \E r \in 0..d :
                UpsertReceipt(u, [delivered |-> d, read |-> r])
          \/ AddMember(u) \/ RemoveMember(u) \/ DeleteAccount(u)

Spec == Init /\ [][Next]_vars
=============================================================================
