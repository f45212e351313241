-------------------------- MODULE ConversationLog --------------------------
(***************************************************************************)
(* The messages, receipts and pages of one conversation in the PostgreSQL  *)
(* store.  Every mutation is a transaction that locks the rows of the      *)
(* users it names, in the order of their ids, and then the conversation's  *)
(* row; requests run concurrently, may be retried with the same client     *)
(* message id, and may end at any point without having committed or        *)
(* without the client hearing that they did.  A client pages through the   *)
(* log with statements of their own that lock nothing.                     *)
(*                                                                         *)
(* Erasures and blocks take the account-delivery barrier first, and a row  *)
(* that comes to refer to a user, a block or the conversation of an erased *)
(* owner, locks that user's row for its foreign key, late and in no order. *)
(*                                                                         *)
(* The erasure is the one of an executed intent, which is read committed;  *)
(* DELETE /v1/me is serializable, and what its older snapshot misses is    *)
(* Membership's.  Deleting the conversation and handing it over are        *)
(* Membership's too.                                                       *)
(***************************************************************************)
EXTENDS Naturals, FiniteSets, FiniteSetsExt

CONSTANTS
    User,
    Rank,        \* [User -> Nat]: the order of the users' ids
    Owner,       \* who created the conversation
    Message,     \* idempotency keys: a sender and a client_message_id
    SenderOf,    \* [Message -> User]
    Reader,      \* the member who reports receipts and pages through the log
    Reported,    \* the receipts its devices report
    Blocks,      \* pairs of users: who asks to block, or not to block, whom
    Request,     \* mutations that are under way at a time
    Conv,        \* the conversation's row, as a thing to lock
    Barrier,     \* the account-delivery barrier, held exclusively
    PageSize     \* the limit of a page

Mark == [delivered : Nat, read : Nat]

ASSUME ReportedAssumption == Reported \subseteq Mark
ASSUME BlocksAssumption == Blocks \subseteq User \X User
ASSUME UserAssumption ==
    /\ Owner \in User
    /\ Reader \in User
    /\ Rank \in [User -> Nat]
    /\ \A u, v \in User : Rank[u] = Rank[v] => u = v
    /\ Conv \notin User /\ Barrier \notin User /\ Conv # Barrier
ASSUME SenderAssumption == SenderOf \in [Message -> User]
ASSUME PageAssumption == PageSize \in Nat \ {0}
ASSUME MessageAssumption == IsFiniteSet(Message)
ASSUME RequestAssumption == IsFiniteSet(Request)

VARIABLES
    live,        \* users.deleted_at IS NULL
    members,     \* conversation_members
    owner,       \* conversations.created_by, who has the role while a member
    lastSeq,     \* conversations.last_seq
    seqOf,       \* [Message -> Nat]: messages.seq, 0 when there is no row
    receipts,    \* [User -> Mark]
    announced,   \* messages with a message.created event in the outbox
    answers,     \* [Message -> the seq values the server answered]
    stage,       \* [Request -> Stage]
    op,          \* [Request -> Op]: what the request is to do
    held,        \* [Request -> SUBSET Lockable]: its row locks
    drawn,       \* [Request -> Nat]: the seq of its uncommitted message
    blocked,     \* user_blocks: pairs of the one who blocks and the blocked
    checked,     \* its page has passed its membership check
    lo, hi,      \* the part of the log the reader has paged through, 0: none
    shown,       \* the seq values it was given
    hidden       \* those a block kept from it

tableVars == <<live, members, owner, lastSeq, seqOf, receipts, announced, answers>>
requestVars == <<stage, op, held, drawn>>
pageVars == <<checked, lo, hi, shown, hidden>>
vars == <<tableVars, requestVars, blocked, pageVars>>

NoMark == [delivered |-> 0, read |-> 0]

Lockable == User \cup {Conv, Barrier}

MemberKind == {"add", "remove", "erase"}
BlockKind == {"block", "unblock"}

(* users: the users locked by name; keys: those locked for a foreign key. *)
Stage == {"idle", "locking", "written"}
NoOp == [kind |-> "none"]
Send(m) == [kind |-> "send", users |-> {SenderOf[m]}, keys |-> {}, msg |-> m]
Receipt(u, mark) == [kind |-> "receipt", users |-> {u}, keys |-> {}, user |-> u, mark |-> mark]
MemberOp(kind, u, actor, keys) ==
    [kind |-> kind, users |-> {u, actor}, keys |-> keys, user |-> u, actor |-> actor]
BlockOp(kind, u, actor) ==
    [kind |-> kind, users |-> {}, keys |-> IF kind = "block" THEN {u, actor} ELSE {},
     user |-> u, actor |-> actor]

(* The variables keep the types of their columns; the log is bounded by the *)
(* messages there are.                                                      *)
TypeOK ==
    /\ live \subseteq User
    /\ members \subseteq User
    /\ owner \in User
    /\ lastSeq \in Nat
    /\ seqOf \in [Message -> Nat]
    /\ receipts \in [User -> Mark]
    /\ announced \subseteq Message
    /\ answers \in [Message -> SUBSET Nat]
    /\ stage \in [Request -> Stage]
    /\ \A r \in Request :
          \/ op[r] = NoOp
          \/ op[r].kind = "send" /\ op[r] = Send(op[r].msg) /\ op[r].msg \in Message
          \/ op[r].kind = "receipt" /\ op[r] = Receipt(op[r].user, op[r].mark) /\ op[r].mark \in Mark
          \/ op[r].kind \in MemberKind /\ op[r] = MemberOp(op[r].kind, op[r].user, op[r].actor, op[r].keys)
          \/ op[r].kind \in BlockKind /\ op[r] = BlockOp(op[r].kind, op[r].user, op[r].actor)
    /\ \A r \in Request : stage[r] # "idle" => op[r] # NoOp /\ op[r].users \cup op[r].keys \subseteq User
    /\ held \in [Request -> SUBSET Lockable]
    /\ drawn \in [Request -> Nat]
    /\ blocked \subseteq User \X User
    /\ checked \in BOOLEAN
    /\ lo \in Nat /\ hi \in Nat
    /\ shown \subseteq Nat /\ hidden \subseteq Nat

Init ==
    /\ live = User
    /\ members = User
    /\ owner = Owner
    /\ lastSeq = 0
    /\ seqOf = [m \in Message |-> 0]
    /\ receipts = [u \in User |-> NoMark]
    /\ announced = {}
    /\ answers = [m \in Message |-> {}]
    /\ stage = [r \in Request |-> "idle"]
    /\ op = [r \in Request |-> NoOp]
    /\ held = [r \in Request |-> {}]
    /\ drawn = [r \in Request |-> 0]
    /\ blocked = {}
    /\ checked = FALSE
    /\ lo = 0 /\ hi = 0
    /\ shown = {} /\ hidden = {}

(***************************************************************************)
(* A mutation: what is asked for, the locks, the effect, the commit.       *)
(***************************************************************************)

Begin(r, o) ==
    /\ stage[r] = "idle"
    /\ stage' = [stage EXCEPT ![r] = "locking"]
    /\ op' = [op EXCEPT ![r] = o]
    /\ UNCHANGED <<tableVars, held, drawn, blocked, pageVars>>

(* createMessage, after its checks of the envelope. *)
BeginSend(r, m) == Begin(r, Send(m))

(* putReceipt compares with last_seq in a statement before the transaction. *)
BeginReceipt(r, u, mark) ==
    /\ u \in members
    /\ mark.delivered <= lastSeq
    /\ mark.read <= mark.delivered
    /\ Begin(r, Receipt(u, mark))

(* Addition, removal and erasure.  What is asked about the owner would lock *)
(* the same rows and be refused.                                            *)
BeginMemberOp(r, kind, u, actor) ==
    /\ kind = "erase" => actor = u
    /\ kind # "erase" => u # owner
    /\ kind = "add" => u # actor
    /\ Begin(r, MemberOp(kind, u, actor, {}))

(* setBlock, PUT and DELETE. *)
BeginBlock(r, kind, u, actor) == u # actor /\ Begin(r, BlockOp(kind, u, actor))

End(r) ==
    /\ stage' = [stage EXCEPT ![r] = "idle"]
    /\ op' = [op EXCEPT ![r] = NoOp]
    /\ held' = [held EXCEPT ![r] = {}]
    /\ drawn' = [drawn EXCEPT ![r] = 0]

LocksOf(o) ==
    o.users \cup o.keys
      \cup {x \in {Barrier} : o.kind \in BlockKind \cup {"erase"}}
      \cup {x \in {Conv} : o.kind \notin BlockKind}
Missing(r) == LocksOf(op[r]) \ held[r]

Lowest(S) == CHOOSE u \in S : \A v \in S : Rank[u] <= Rank[v]

(* The foreign keys of a new block: the one who blocks, then the blocked. *)
NextKey(r) == CHOOSE u \in op[r].keys \ held[r] : u = op[r].actor \/ op[r].actor \in held[r]

(* Faulty variant: a removal locks the conversation first. *)
NextLockUnordered(r) ==
    IF Barrier \in Missing(r) THEN Barrier
    ELSE IF op[r].kind = "remove" /\ Conv \in Missing(r) THEN Conv
    ELSE IF op[r].users \ held[r] # {} THEN Lowest(op[r].users \ held[r])
    ELSE IF Conv \in Missing(r) THEN Conv
    ELSE NextKey(r)

(* The barrier, the users' rows one at a time, sorted by id, the            *)
(* conversation's, and what the foreign keys lock.                          *)
NextLock(r) ==
    IF Barrier \in Missing(r) THEN Barrier
    ELSE IF op[r].users \ held[r] # {} THEN Lowest(op[r].users \ held[r])
    ELSE IF Conv \in Missing(r) THEN Conv
    ELSE NextKey(r)

Wants(r) == stage[r] = "locking" /\ Missing(r) # {}

(* The next lock is one for a foreign key. *)
AtKey(r) == Wants(r) /\ NextLock(r) \in op[r].keys

(* A user locked by name is not erased.  A block is inserted between two    *)
(* users who are not, and not when it is there already.                     *)
Admitted(r) ==
    /\ NextLock(r) \in op[r].users => NextLock(r) \in live
    /\ AtKey(r) /\ op[r].kind = "block" =>
          op[r].keys \subseteq live /\ <<op[r].actor, op[r].user>> \notin blocked

(* Faulty variant: lockConversation without FOR UPDATE. *)
FreeOrConv(r, x) == x = Conv \/ \A q \in Request \ {r} : x \notin held[q]

Free(r, x) == \A q \in Request \ {r} : x \notin held[q]

Take(r) ==
    /\ Wants(r)
    /\ Admitted(r)
    /\ Free(r, NextLock(r))
    /\ held' = [held EXCEPT ![r] = @ \cup {NextLock(r)}]

ErasedRow(r) == Wants(r) /\ op[r].kind = "erase" /\ NextLock(r) \in op[r].users

(* lockLiveUser, once per user, lockConversation, the barrier, a foreign key. *)
Lock(r) ==
    /\ ~ErasedRow(r)
    /\ Take(r)
    /\ UNCHANGED <<tableVars, stage, op, drawn, blocked, pageVars>>

(* Erasure locks its account and reads who is to inherit, some other        *)
(* member, before it waits for the conversation: the new created_by is a    *)
(* foreign key.                                                             *)
LockErased(r) ==
    /\ ErasedRow(r)
    /\ Take(r)
    /\ \E heir \in members \ {op[r].user} :
          op' = [op EXCEPT ![r] = MemberOp("erase", op[r].user, op[r].actor,
                                           IF op[r].user = owner THEN {heir} ELSE {})]
    /\ UNCHANGED <<tableVars, stage, drawn, blocked, pageVars>>

Locked(r, kind) == stage[r] = "locking" /\ op[r].kind = kind /\ Missing(r) = {}

(* The answer, whether or not the client hears it. *)
Answer(m, seq) == answers' = [answers EXCEPT ![m] = @ \cup {seq}]

Known(m) == seqOf[m] # 0

(* The client id is known: the stored row is the answer, nothing is written. *)
Replay(r) ==
    /\ Locked(r, "send")
    /\ SenderOf[op[r].msg] \in members
    /\ Known(op[r].msg)
    /\ Answer(op[r].msg, seqOf[op[r].msg])
    /\ End(r)
    /\ UNCHANGED <<live, members, owner, lastSeq, seqOf, receipts, announced, blocked, pageVars>>

(* UPDATE ... RETURNING last_seq, the message and its outbox event, all     *)
(* invisible to others until the commit.                                    *)
WriteMessage(r) ==
    /\ Locked(r, "send")
    /\ SenderOf[op[r].msg] \in members
    /\ ~Known(op[r].msg)
    /\ drawn' = [drawn EXCEPT ![r] = lastSeq + 1]
    /\ stage' = [stage EXCEPT ![r] = "written"]
    /\ UNCHANGED <<tableVars, op, held, blocked, pageVars>>

CommitMessage(r) ==
    /\ stage[r] = "written"
    /\ lastSeq' = drawn[r]
    /\ seqOf' = [seqOf EXCEPT ![op[r].msg] = drawn[r]]
    /\ announced' = announced \cup {op[r].msg}
    /\ Answer(op[r].msg, drawn[r])
    /\ End(r)
    /\ UNCHANGED <<live, members, owner, receipts, blocked, pageVars>>

(* Faulty variant: the upsert without its WHERE. *)
AnyUpsert(old, new) == TRUE

Advances(old, new) == old.delivered <= new.delivered /\ old.read <= new.read

UpsertReceipt(r) ==
    /\ Locked(r, "receipt")
    /\ op[r].user \in members
    /\ Advances(receipts[op[r].user], op[r].mark)
    /\ receipts' = [receipts EXCEPT ![op[r].user] = op[r].mark]
    /\ End(r)
    /\ UNCHANGED <<live, members, owner, lastSeq, seqOf, announced, answers, blocked, pageVars>>

AddMember(r) ==
    /\ Locked(r, "add")
    /\ op[r].actor = owner /\ owner \in members /\ op[r].user # owner
    /\ members' = members \cup {op[r].user}
    /\ End(r)
    /\ UNCHANGED <<live, owner, lastSeq, seqOf, receipts, announced, answers, blocked, pageVars>>

(* The receipts of whoever leaves stay, and count when they return. *)
RemoveMember(r) ==
    /\ Locked(r, "remove")
    /\ op[r].actor \in {owner, op[r].user} \cap members
    /\ op[r].user \in members \ {owner}
    /\ members' = members \ {op[r].user}
    /\ End(r)
    /\ UNCHANGED <<live, owner, lastSeq, seqOf, receipts, announced, answers, blocked, pageVars>>

(* Erasure leaves the account's messages and deletes its receipts; the heir *)
(* may have left since it was read.                                         *)
EraseMember(r) ==
    /\ Locked(r, "erase")
    /\ live' = live \ {op[r].user}
    /\ members' = members \ {op[r].user}
    /\ owner' = IF op[r].keys = {} THEN owner ELSE CHOOSE heir \in op[r].keys : TRUE
    /\ receipts' = [receipts EXCEPT ![op[r].user] = NoMark]
    /\ End(r)
    /\ UNCHANGED <<lastSeq, seqOf, announced, answers, blocked, pageVars>>

(* SetBlock commits. *)
SetBlock(r) ==
    /\ Locked(r, "block")
    /\ blocked' = blocked \cup {<<op[r].actor, op[r].user>>}
    /\ End(r)
    /\ UNCHANGED <<tableVars, pageVars>>

RemoveBlock(r) ==
    /\ Locked(r, "unblock")
    /\ blocked' = blocked \ {<<op[r].actor, op[r].user>>}
    /\ End(r)
    /\ UNCHANGED <<tableVars, pageVars>>

(* ErrNotFound, ErrForbidden, ErrConflict, a lost connection, a deadlock    *)
(* that PostgreSQL ends: rolled back.  Or there is nothing to do.           *)
Abort(r) ==
    /\ stage[r] # "idle"
    /\ End(r)
    /\ UNCHANGED <<tableVars, blocked, pageVars>>

(***************************************************************************)
(* Paging.                                                                 *)
(***************************************************************************)

(* requireMember, a statement of its own. *)
CheckReader ==
    /\ ~checked
    /\ Reader \in members
    /\ checked' = TRUE
    /\ UNCHANGED <<tableVars, requestVars, blocked, lo, hi, shown, hidden>>

Between(a, b) == {m \in Message : Known(m) /\ a <= seqOf[m] /\ seqOf[m] <= b}
Seqs(S) == {seqOf[m] : m \in S}
Apart(u) == <<u, Reader>> \in blocked \/ <<Reader, u>> \in blocked
Visible(S) == {m \in S : ~Apart(SenderOf[m])}

(* ORDER BY seq LIMIT, from the one end or the other. *)
Oldest(S) == {s \in S : Cardinality({t \in S : t < s}) < PageSize}
Latest(S) == {s \in S : Cardinality({t \in S : t > s}) < PageSize}

(* The page is added to what the client has; an empty one changes nothing. *)
TakePage(page) ==
    LET lo1 == IF lo = 0 THEN Min(page) ELSE Min(page \cup {lo})
        hi1 == IF lo = 0 THEN Max(page) ELSE Max(page \cup {hi})
    IN  /\ checked
        /\ checked' = FALSE
        /\ IF page = {} THEN UNCHANGED <<lo, hi, shown, hidden>>
           ELSE /\ lo' = lo1
                /\ hi' = hi1
                /\ shown' = shown \cup page
                /\ hidden' = hidden \cup
                      {s \in Seqs(Between(lo1, hi1)) : (s < lo \/ s > hi) /\ s \notin page /\
                          \E m \in Message : seqOf[m] = s /\ Apart(SenderOf[m])}
        /\ UNCHANGED <<tableVars, requestVars, blocked>>

(* No cursor: the end of the log. *)
LatestPage == lo = 0 /\ TakePage(Latest(Seqs(Visible(Between(1, lastSeq)))))

(* before_seq: the page just before. *)
PageBefore == lo > 1 /\ TakePage(Latest(Seqs(Visible(Between(1, lo - 1)))))

(* Faulty variant: the page ends where the log ended, not where it starts.  *)
PageAfterLatest == TakePage(Latest(Seqs(Visible(Between(hi + 1, lastSeq)))))

(* after_seq: the page just after; after_seq=0 replays from the beginning. *)
PageAfter == TakePage(Oldest(Seqs(Visible(Between(hi + 1, lastSeq)))))

(***************************************************************************)
(* The specification.                                                      *)
(***************************************************************************)

Step(r) ==
    \/ Lock(r) \/ LockErased(r)
    \/ Replay(r) \/ WriteMessage(r) \/ CommitMessage(r) \/ UpsertReceipt(r)
    \/ AddMember(r) \/ RemoveMember(r) \/ EraseMember(r)
    \/ SetBlock(r) \/ RemoveBlock(r)

Next ==
    \/ \E r \in Request :
          \/ \E m \in Message : BeginSend(r, m)
          \/ \E mark \in Reported : BeginReceipt(r, Reader, mark)
          \/ \E u \in User, actor \in User :
                \/ \E kind \in MemberKind : BeginMemberOp(r, kind, u, actor)
                \/ <<actor, u>> \in Blocks /\ \E kind \in BlockKind : BeginBlock(r, kind, u, actor)
          \/ Step(r)
          \/ Abort(r)
    \/ CheckReader \/ LatestPage \/ PageBefore \/ PageAfter

Spec == Init /\ [][Next]_vars

(***************************************************************************)
(* Properties.                                                             *)
(***************************************************************************)

Logged == {m \in Message : Known(m)}

(* The log has one message for every seq up to last_seq: no aborted,        *)
(* retried or concurrent send leaves a hole that a client would wait for or  *)
(* a number used twice.                                                     *)
Gapless ==
    /\ Seqs(Logged) = 1..lastSeq
    /\ Cardinality(Logged) = lastSeq

(* "(conversation_id, sender_id, client_message_id) makes retries           *)
(* idempotent" (ARCHITECTURE.md): however often a message is sent, and      *)
(* whichever answers were lost, all answers name one place in the log, the  *)
(* message is there, and it was announced.                                  *)
OneAnswer ==
    \A m \in Message : answers[m] \subseteq {seqOf[m]} /\ (Known(m) <=> m \in announced)

(* "Clients replay from after_seq after reconnecting": what lies between    *)
(* the first and the last message a client was given it was given too, or a  *)
(* block stood between it and the sender when that part was read.  No late   *)
(* commit appears behind the cursor.                                        *)
WindowIsComplete == lo # 0 => lo..hi \subseteq shown \cup hidden

(* No receipt is ahead of the log or read beyond what was delivered,        *)
(* although the handler compares with last_seq before the transaction that   *)
(* stores it.                                                               *)
ReceiptsWithinLog ==
    \A u \in User : receipts[u].read <= receipts[u].delivered /\ receipts[u].delivered <= lastSeq

(* The conversation's rows are well formed: their types, a log without gaps, *)
(* answers that agree with it, and receipts within it.                       *)
LogWellFormed == TypeOK /\ Gapless /\ OneAnswer /\ ReceiptsWithinLog

(* Request q holds the lock that r needs next. *)
WaitsFor(r, q) == Wants(r) /\ Admitted(r) /\ NextLock(r) \in held[q]

(* The requests of S do not all wait for one another. *)
Unstuck(S) == \E r \in S : \A q \in S \ {r} : ~WaitsFor(r, q)

(* "Store mutation lock order is global and must not be inverted", lest it  *)
(* "creates a cycle" (postgres.go): requests never wait for each other in a *)
(* circle.                                                                  *)
NoLockCycle == \A S \in (SUBSET Request) \ {{}} : Unstuck(S)

(* The locks that are taken by name keep the order: a circle goes through a *)
(* request that waits for a user's row because of a foreign key, which only *)
(* a block or the erasure of an owner does.                                 *)
NamedLocksInOrder == \A S \in (SUBSET {r \in Request : ~AtKey(r)}) \ {{}} : Unstuck(S)

(* What commits, and what senders are told, could have come from the        *)
(* in-memory store's atomic operations.  So receipts never regress          *)
(* ("Delivery and read watermarks are monotonic"), and whoever sends is a   *)
(* member when the message commits.                                         *)
Memory == INSTANCE MemoryLog WITH
    gone <- User \ live,
    log <- [i \in 1..lastSeq |-> CHOOSE m \in Message : seqOf[m] = i]
ImplementsMemoryLog == Memory!Spec
=============================================================================
