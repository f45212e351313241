------------------------ MODULE ConversationLogProofs ------------------------
(***************************************************************************)
(* Proofs about ConversationLog for any users, messages and requests, any  *)
(* page size and any order of the users' ids.                              *)
(*                                                                         *)
(* Locks are taken in one order, those of foreign keys aside, and held to  *)
(* the end, so a request that has drawn a number has the conversation's    *)
(* row: nothing it read has changed when it commits, and the number is the *)
(* log's next.  A page is a piece of the log without a hole, and nothing   *)
(* appears where one was read.                                             *)
(***************************************************************************)
EXTENDS ConversationLog, Sequences, FiniteSetTheorems, WellFoundedInduction, TLAPS

USE UserAssumption, SenderAssumption, ReportedAssumption, PageAssumption, MessageAssumption, RequestAssumption

(***************************************************************************)
(* Smallest and largest elements.                                          *)
(***************************************************************************)

LEMMA LeastNatural ==
    ASSUME NEW T \in SUBSET Nat, T # {}
    PROVE  \E x \in T : \A y \in T : x <= y
<1> DEFINE R == OpToRel(<, Nat)
<1>1. IsWellFoundedOn(R, Nat)
  BY NatLessThanWellFounded
<1>2. \A x, y \in Nat : <<y, x>> \in R <=> y < x
  BY DEF OpToRel
<1> HIDE DEF R
<1>3. PICK x \in T : \A y \in T : ~ (<<y, x>> \in R)
  BY <1>1, WFMin
<1>4. ASSUME NEW y \in T PROVE x <= y
  <2>1. x \in Nat /\ y \in Nat
    OBVIOUS
  <2>2. ~ (y < x)
    BY <1>2, <1>3, <2>1
  <2> QED
    BY <2>1, <2>2
<1> QED
  BY <1>4

(* Of finitely many things with a natural rank one has the highest. *)
LEMMA HighestRank ==
    ASSUME NEW S, IsFiniteSet(S), S # {}, NEW f, \A x \in S : f[x] \in Nat
    PROVE  \E x \in S : \A y \in S : f[y] <= f[x]
<1> DEFINE Above(x) == {y \in S : f[y] > f[x]}
           T == {k \in Nat : \E x \in S : k = Cardinality(Above(x))}
<1>1. \A x \in S : IsFiniteSet(Above(x)) /\ Cardinality(Above(x)) \in Nat
  BY FS_Subset, FS_CardinalityType
<1>2. PICK n \in T : \A k \in T : n <= k
  <2>1. T \in SUBSET Nat /\ T # {}
    <3> HIDE DEF Above
    <3> QED
      BY <1>1
  <2> QED
    BY <2>1, LeastNatural
<1>3. PICK x \in S : n = Cardinality(Above(x))
  BY <1>2
<1>4. ASSUME NEW y \in S, f[y] > f[x] PROVE FALSE
  <2>1. Above(y) \in SUBSET Above(x) /\ y \in Above(x) /\ y \notin Above(y)
    BY <1>4
  <2> HIDE DEF Above
  <2>2. Cardinality(Above(y)) <= Cardinality(Above(x)) /\ Cardinality(Above(x)) # Cardinality(Above(y))
    BY <1>1, <2>1, FS_Subset
  <2>3. Cardinality(Above(x)) <= Cardinality(Above(y))
    BY <1>1, <1>2, <1>3
  <2> QED
    BY <1>1, <2>2, <2>3
<1> QED
  BY <1>4

LEMMA MinIsLeast ==
    ASSUME NEW T \in SUBSET Nat, T # {}
    PROVE  Min(T) \in T /\ \A y \in T : Min(T) <= y
<1>1. \E x \in T : \A y \in T : x =< y
  BY LeastNatural
<1> QED
  BY <1>1 DEF Min

LEMMA MaxIsGreatest ==
    ASSUME NEW T \in SUBSET Nat, T # {}, NEW n \in Nat, \A t \in T : t <= n
    PROVE  Max(T) \in T /\ \A y \in T : y <= Max(T)
<1> DEFINE D == {k \in Nat : \E t \in T : k = n - t}
<1>0. \A t \in T : t \in Nat /\ n - t \in Nat
  OBVIOUS
<1>1. D \in SUBSET Nat /\ D # {}
  BY <1>0
<1>2. PICK k \in D : \A j \in D : k <= j
  <2> HIDE DEF D
  <2> QED
    BY <1>1, LeastNatural
<1>3. PICK x \in T : k = n - x
  BY <1>2
<1>4. ASSUME NEW y \in T PROVE x >= y
  <2>1. n - x <= n - y
    BY <1>0, <1>2, <1>3
  <2> QED
    BY <1>0, <2>1
<1> QED
  BY <1>4 DEF Max


(***************************************************************************)
(* The inductive invariant.                                                *)
(***************************************************************************)

(* What a request may be asked to do. *)
OpShape(o) ==
    \/ o.kind = "send" /\ o.msg \in Message /\ o = Send(o.msg)
    \/ o.kind = "receipt" /\ o.mark \in Mark /\ o = Receipt(Reader, o.mark)
    \/ /\ o.kind \in MemberKind /\ o.user \in User /\ o.actor \in User /\ o.keys \in SUBSET User
       /\ o = MemberOp(o.kind, o.user, o.actor, o.keys)
    \/ /\ o.kind \in BlockKind /\ o.user \in User /\ o.actor \in User
       /\ o = BlockOp(o.kind, o.user, o.actor)

TableTypes ==
    /\ live \subseteq User
    /\ members \subseteq User
    /\ owner \in User
    /\ lastSeq \in Nat
    /\ seqOf \in [Message -> Nat]
    /\ receipts \in [User -> Mark]
    /\ announced \subseteq Message
    /\ answers \in [Message -> SUBSET Nat]

RequestTypes ==
    /\ stage \in [Request -> Stage]
    /\ held \in [Request -> SUBSET Lockable]
    /\ drawn \in [Request -> Nat]
    /\ DOMAIN op = Request /\ op = [r \in Request |-> op[r]]
    /\ \A r \in Request : IF stage[r] = "idle" THEN op[r] = NoOp /\ held[r] = {} ELSE OpShape(op[r])

PageTypes ==
    /\ blocked \subseteq User \X User
    /\ checked \in BOOLEAN
    /\ lo \in Nat /\ hi \in Nat
    /\ shown \subseteq Nat /\ hidden \subseteq Nat

(* A request that is to do o has the locks h: the barrier first, users in   *)
(* the order of their ids, the conversation, and what the foreign keys lock *)
(* last; whoever it locked by name is not erased.                           *)
Ordered(o, h, alive) ==
    /\ h \subseteq LocksOf(o) /\ h \cap o.users \subseteq alive
    /\ Barrier \in LocksOf(o) \ h => h = {}
    /\ Conv \in h => o.users \subseteq h
    /\ h \cap (o.keys \ o.users) # {} => (LocksOf(o) \ o.keys) \cup o.users \subseteq h
    /\ \A u \in h \cap o.users, v \in o.users \ h : Rank[u] < Rank[v]

LocksInOrder == \A r \in Request : stage[r] # "idle" => Ordered(op[r], held[r], live)

LocksApart == \A q, r \in Request : q # r => held[q] \cap held[r] = {}

(* What a request found when it wrote its message still holds. *)
WrittenHolds ==
    \A r \in Request : stage[r] = "written" =>
        /\ Missing(r) = {} /\ op[r].kind = "send"
        /\ ~Known(op[r].msg) /\ SenderOf[op[r].msg] \in members
        /\ drawn[r] = lastSeq + 1

(* The log that a receipt was compared with has only grown. *)
MarksWithin ==
    \A r \in Request : stage[r] # "idle" /\ op[r].kind = "receipt" =>
        op[r].mark.read <= op[r].mark.delivered /\ op[r].mark.delivered <= lastSeq

RequestInv == RequestTypes /\ LocksInOrder /\ LocksApart /\ WrittenHolds /\ MarksWithin

SeqsApart == \A m, n \in Message : Known(m) /\ seqOf[m] = seqOf[n] => m = n

AnswersKnown == \A m \in Message : ~Known(m) => answers[m] = {}

TableInv == TableTypes /\ SeqsApart /\ AnswersKnown /\ Gapless /\ OneAnswer /\ ReceiptsWithinLog

PageInv == PageTypes /\ lo <= hi /\ hi <= lastSeq /\ (lo = 0 => hi = 0) /\ WindowIsComplete

LogInv == TableInv /\ RequestInv /\ PageInv


LEMMA OpFields ==
    ASSUME NEW o, OpShape(o)
    PROVE  /\ o # NoOp /\ o.users \subseteq User /\ o.keys \subseteq User
           /\ o.kind = "send" => o.msg \in Message /\ o = Send(o.msg) /\ o.users = {SenderOf[o.msg]}
           /\ o.kind = "receipt" => o.mark \in Mark /\ o.user = Reader /\ o = Receipt(Reader, o.mark)
           /\ o.kind \in MemberKind => o.user \in User /\ o.user \in o.users /\ o.actor \in o.users
           /\ o.kind \in MemberKind => o = MemberOp(o.kind, o.user, o.actor, o.keys)
           /\ o.kind \in BlockKind => o.user \in User /\ o.actor \in User /\ o.users = {}
           /\ o.kind \in BlockKind => o = BlockOp(o.kind, o.user, o.actor)
           /\ o.kind \notin MemberKind /\ o.keys # {} => o.actor \in o.keys
           /\ o.kind \in {"send", "receipt"} \cup MemberKind \cup BlockKind
<1>1. CASE o.kind = "send" /\ o.msg \in Message /\ o = Send(o.msg)
  BY <1>1 DEF Send, NoOp, MemberKind, BlockKind
<1>2. CASE o.kind = "receipt" /\ o.mark \in Mark /\ o = Receipt(Reader, o.mark)
  BY <1>2 DEF Receipt, NoOp, MemberKind, BlockKind
<1>3. CASE /\ o.kind \in MemberKind /\ o.user \in User /\ o.actor \in User /\ o.keys \in SUBSET User
           /\ o = MemberOp(o.kind, o.user, o.actor, o.keys)
  <2>1. o # NoOp /\ o.users = {o.user, o.actor} /\ o.kind \notin {"send", "receipt"} \cup BlockKind
    BY <1>3 DEF MemberOp, NoOp, MemberKind, BlockKind
  <2> QED
    BY <1>3, <2>1
<1>4. CASE /\ o.kind \in BlockKind /\ o.user \in User /\ o.actor \in User
           /\ o = BlockOp(o.kind, o.user, o.actor)
  <2>1. /\ o # NoOp /\ o.users = {} /\ o.kind \notin {"send", "receipt"} \cup MemberKind
        /\ o.keys = IF o.kind = "block" THEN {o.user, o.actor} ELSE {}
    BY <1>4 DEF BlockOp, NoOp, MemberKind, BlockKind
  <2> QED
    BY <1>4, <2>1
<1> QED
  BY <1>1, <1>2, <1>3, <1>4 DEF OpShape

LEMMA TypesJoin ==
    ASSUME TableTypes, RequestTypes, PageTypes
    PROVE  TypeOK
<1>1. ASSUME NEW r \in Request
      PROVE  /\ \/ op[r] = NoOp
                \/ op[r].kind = "send" /\ op[r] = Send(op[r].msg) /\ op[r].msg \in Message
                \/ op[r].kind = "receipt" /\ op[r] = Receipt(op[r].user, op[r].mark) /\ op[r].mark \in Mark
                \/ op[r].kind \in MemberKind /\ op[r] = MemberOp(op[r].kind, op[r].user, op[r].actor, op[r].keys)
                \/ op[r].kind \in BlockKind /\ op[r] = BlockOp(op[r].kind, op[r].user, op[r].actor)
             /\ stage[r] # "idle" => op[r] # NoOp /\ op[r].users \cup op[r].keys \subseteq User
  <2>1. CASE stage[r] = "idle"
    BY <2>1 DEF RequestTypes
  <2>2. CASE stage[r] # "idle"
    <3>1. OpShape(op[r])
      BY <2>2 DEF RequestTypes
    <3> QED
      BY <3>1, OpFields
  <2> QED
    BY <2>1, <2>2
<1> QED
  BY <1>1 DEF TypeOK, TableTypes, RequestTypes, PageTypes

(***************************************************************************)
(* Locks.                                                                  *)
(***************************************************************************)

LEMMA LockNames == Conv \notin User /\ Barrier \notin User /\ Conv # Barrier
OBVIOUS

LEMMA LockMembers ==
    ASSUME NEW o, NEW x
    PROVE  x \in LocksOf(o) <=>
              \/ x \in o.users \/ x \in o.keys
              \/ x = Barrier /\ o.kind \in BlockKind \cup {"erase"}
              \/ x = Conv /\ o.kind \notin BlockKind
BY DEF LocksOf

LEMMA LowestIsLow ==
    ASSUME NEW M \in SUBSET User, M # {}
    PROVE  Lowest(M) \in M /\ \A v \in M : Rank[Lowest(M)] <= Rank[v]
<1> DEFINE T == {k \in Nat : \E u \in M : k = Rank[u]}
<1>1. T \in SUBSET Nat /\ T # {}
  <2>1. PICK u \in M : TRUE
    OBVIOUS
  <2>2. Rank[u] \in T
    OBVIOUS
  <2> QED
    BY <2>2
<1>2. PICK k \in T : \A j \in T : k <= j
  <2> HIDE DEF T
  <2> QED
    BY <1>1, LeastNatural
<1>3. \E u \in M : \A v \in M : Rank[u] <= Rank[v]
  BY <1>2
<1> QED
  BY <1>3 DEF Lowest

(* The next lock is missing: the barrier, the lowest user, the conversation *)
(* or, with all of these, a key.                                            *)
LEMMA NextLockFacts ==
    ASSUME NEW r \in Request, OpShape(op[r]), Missing(r) # {}
    PROVE  /\ NextLock(r) \in Missing(r)
           /\ Barrier \in Missing(r) => NextLock(r) = Barrier
           /\ Barrier \notin Missing(r) /\ op[r].users \ held[r] # {} =>
                 /\ NextLock(r) \in op[r].users \ held[r]
                 /\ \A v \in op[r].users \ held[r] : Rank[NextLock(r)] <= Rank[v]
           /\ Barrier \notin Missing(r) /\ op[r].users \subseteq held[r] =>
                 \/ NextLock(r) = Conv
                 \/ Conv \notin Missing(r) /\ NextLock(r) \in op[r].keys
<1> DEFINE M == op[r].users \ held[r]
           K == op[r].keys \ held[r]
<1>1. M \in SUBSET User /\ M \subseteq Missing(r) /\ K \subseteq Missing(r)
  BY OpFields, LockMembers DEF Missing
<1>2. CASE Barrier \in Missing(r)
  BY <1>2 DEF NextLock
<1>3. CASE Barrier \notin Missing(r) /\ M # {}
  <2>1. NextLock(r) = Lowest(M)
    BY <1>3 DEF NextLock
  <2>2. Lowest(M) \in M /\ \A v \in M : Rank[Lowest(M)] <= Rank[v]
    <3> HIDE DEF M
    <3> QED
      BY <1>1, <1>3, LowestIsLow
  <2> QED
    BY <1>1, <1>3, <2>1, <2>2
<1>4. CASE Barrier \notin Missing(r) /\ M = {} /\ Conv \in Missing(r)
  BY <1>4 DEF NextLock
<1>5. CASE Barrier \notin Missing(r) /\ M = {} /\ Conv \notin Missing(r)
  <2>1. K # {}
    BY <1>5, LockMembers DEF Missing
  <2>2. \E u \in K : u = op[r].actor \/ op[r].actor \in held[r]
    <3>1. CASE op[r].actor \in held[r]
      BY <2>1, <3>1
    <3>2. CASE op[r].actor \notin held[r]
      <4>1. op[r].kind \notin MemberKind
        BY <1>5, <3>2, OpFields
      <4>2. op[r].actor \in K
        BY <2>1, <3>2, <4>1, OpFields
      <4> QED
        BY <4>2
    <3> QED
      BY <3>1, <3>2
  <2>3. NextLock(r) = CHOOSE u \in K : u = op[r].actor \/ op[r].actor \in held[r]
    BY <1>5 DEF NextLock, NextKey
  <2>4. NextLock(r) \in K
    <3> HIDE DEF K
    <3> QED
      BY <2>2, <2>3
  <2> QED
    BY <1>1, <1>5, <2>4
<1> QED
  BY <1>2, <1>3, <1>4, <1>5

(* Whoever is ready to change the conversation has its row, and nobody else *)
(* has written.                                                             *)
LEMMA ReadyIsAlone ==
    ASSUME RequestInv, NEW r \in Request, stage[r] # "idle", Missing(r) = {}, op[r].kind \notin BlockKind
    PROVE  /\ Conv \in held[r] /\ op[r].users \subseteq held[r]
           /\ \A q \in Request \ {r} : stage[q] # "written"
<1>1. Conv \in held[r] /\ op[r].users \subseteq held[r]
  BY LockMembers DEF Missing
<1>2. ASSUME NEW q \in Request \ {r}, stage[q] = "written" PROVE FALSE
  <2>1. Missing(q) = {} /\ op[q].kind \notin BlockKind
    BY <1>2 DEF RequestInv, WrittenHolds, BlockKind
  <2>2. Conv \in held[q]
    BY <2>1, LockMembers DEF Missing
  <2> QED
    BY <1>1, <2>2 DEF RequestInv, LocksApart
<1> QED
  BY <1>1, <1>2

(* A user or the conversation is not taken before the barrier, nor a key    *)
(* before anything else.                                                    *)
LEMMA OrderedGrows ==
    ASSUME NEW r \in Request, OpShape(op[r]), Missing(r) # {}, Ordered(op[r], held[r], live),
           NextLock(r) \in op[r].users => NextLock(r) \in live,
           NEW o, OpShape(o), o.kind = op[r].kind, o.users = op[r].users,
           o.keys = op[r].keys \/ NextLock(r) \in op[r].users
    PROVE  Ordered(o, held[r] \cup {NextLock(r)}, live)
<1> DEFINE x == NextLock(r)
           h == held[r] \cup {x}
           p == op[r]
<1>1. /\ x \in Missing(r)
      /\ Barrier \in Missing(r) => x = Barrier
      /\ Barrier \notin Missing(r) /\ p.users \ held[r] # {} =>
            /\ x \in p.users \ held[r]
            /\ \A v \in p.users \ held[r] : Rank[x] <= Rank[v]
      /\ Barrier \notin Missing(r) /\ p.users \subseteq held[r] =>
            \/ x = Conv
            \/ Conv \notin Missing(r) /\ x \in p.keys
  BY NextLockFacts
<1>2. /\ held[r] \subseteq LocksOf(p) /\ held[r] \cap p.users \subseteq live
      /\ Barrier \in Missing(r) => held[r] = {}
      /\ Conv \in held[r] => p.users \subseteq held[r]
      /\ held[r] \cap (p.keys \ p.users) # {} => (LocksOf(p) \ p.keys) \cup p.users \subseteq held[r]
      /\ \A u \in held[r] \cap p.users, v \in p.users \ held[r] : Rank[u] < Rank[v]
  BY DEF Ordered, Missing
<1>3. p.users \subseteq User /\ p.keys \subseteq User /\ o.keys \subseteq User
  BY OpFields
<1>4. x \in LocksOf(p) /\ x \notin held[r]
  BY <1>1 DEF Missing
<1> HIDE DEF x
<1>5. o.keys = p.keys \/ (x \in p.users /\ held[r] \cap (p.keys \ p.users) = {})
  BY <1>2, <1>4 DEF x
<1>6. h \subseteq LocksOf(o)
  BY <1>2, <1>4, <1>5, LockMembers
<1>7. h \cap o.users \subseteq live
  BY <1>2 DEF x
<1>8. Barrier \in LocksOf(o) \ h => h = {}
  <2>1. Barrier \in LocksOf(o) => Barrier \in LocksOf(p)
    BY <1>3, LockNames, LockMembers
  <2> QED
    BY <1>1, <2>1 DEF Missing
<1>9. Conv \in h => o.users \subseteq h
  <2>1. x = Conv => p.users \subseteq held[r]
    BY <1>1, <1>3, LockNames
  <2> QED
    BY <1>2, <2>1
<1>10. h \cap (o.keys \ o.users) # {} => (LocksOf(o) \ o.keys) \cup o.users \subseteq h
  <2>1. CASE held[r] \cap (p.keys \ p.users) # {}
    <3>1. o.keys = p.keys /\ (LocksOf(p) \ p.keys) \cup p.users \subseteq held[r]
      BY <1>2, <1>5, <2>1
    <3>2. LocksOf(o) = LocksOf(p)
      BY <3>1 DEF LocksOf
    <3> QED
      BY <3>1, <3>2
  <2>2. CASE held[r] \cap (p.keys \ p.users) = {} /\ x \notin p.keys \ p.users
    <3>1. CASE o.keys = p.keys
      BY <2>2, <3>1
    <3>2. CASE o.keys # p.keys
      <4>1. x \in p.users
        BY <1>5, <3>2
      <4>2. \A y \in held[r] : y \in User => y \in p.users
        BY <1>2, <2>2, LockNames, LockMembers
      <4> QED
        BY <1>3, <4>1, <4>2
    <3> QED
      BY <3>1, <3>2
  <2>3. CASE x \in p.keys \ p.users
    <3>1. Barrier \notin Missing(r) /\ p.users \subseteq held[r] /\ Conv \notin Missing(r) /\ o.keys = p.keys
      BY <1>1, <1>3, <1>5, <2>3, LockNames
    <3>2. LocksOf(o) = LocksOf(p)
      BY <3>1 DEF LocksOf
    <3>3. LocksOf(p) \ p.keys \subseteq held[r]
      BY <3>1, LockMembers DEF Missing
    <3> QED
      BY <3>1, <3>2, <3>3
  <2> QED
    BY <2>1, <2>2, <2>3
<1>11. \A u \in h \cap o.users, v \in o.users \ h : Rank[u] < Rank[v]
  <2> SUFFICES ASSUME NEW u \in h \cap p.users, NEW v \in p.users \ h PROVE Rank[u] < Rank[v]
    OBVIOUS
  <2>1. CASE u \in held[r]
    BY <1>2, <2>1
  <2>2. CASE u = x
    <3>1. Rank[x] <= Rank[v]
      BY <1>1, <1>3, <2>2, LockNames
    <3>2. u \in User /\ v \in User /\ u # v
      BY <1>3, <2>2
    <3>3. Rank[u] \in Nat /\ Rank[v] \in Nat /\ Rank[u] # Rank[v]
      BY <3>2
    <3> QED
      BY <2>2, <3>1, <3>3
  <2> QED
    BY <2>1, <2>2
<1> QED
  BY <1>6, <1>7, <1>8, <1>9, <1>10, <1>11 DEF Ordered, x

LEMMA BeginKeeps ==
    ASSUME LogInv, NEW r \in Request, NEW o, OpShape(o), Begin(r, o),
           o.kind = "receipt" => o.mark.read <= o.mark.delivered /\ o.mark.delivered <= lastSeq
    PROVE  RequestInv'
<1>1. /\ stage[r] = "idle" /\ stage' = [stage EXCEPT ![r] = "locking"] /\ op' = [op EXCEPT ![r] = o]
      /\ UNCHANGED <<live, members, lastSeq, seqOf, held, drawn>>
  BY DEF Begin, tableVars
<1>2. RequestInv
  BY DEF LogInv
<1>3. /\ stage'[r] = "locking" /\ op'[r] = o /\ held'[r] = {}
      /\ \A q \in Request : q # r => stage'[q] = stage[q] /\ op'[q] = op[q]
  BY <1>1, <1>2 DEF RequestInv, RequestTypes
<1>4. RequestTypes'
  <2>1. stage' \in [Request -> Stage] /\ DOMAIN op' = Request /\ op' = [q \in Request |-> op'[q]]
    BY <1>1, <1>2 DEF RequestInv, RequestTypes, Stage
  <2>2. OpShape(o)'
    BY DEF OpShape, Send, Receipt, MemberOp, BlockOp
  <2>3. ASSUME NEW q \in Request
        PROVE  IF stage'[q] = "idle" THEN op'[q] = NoOp /\ held'[q] = {} ELSE OpShape(op'[q])
    BY <1>1, <1>2, <1>3, <2>3 DEF RequestInv, RequestTypes
  <2> QED
    BY <1>1, <1>2, <2>1, <2>3 DEF RequestInv, RequestTypes
<1>5. LocksInOrder' /\ LocksApart'
  <2>1. Ordered(o, {}, live)
    BY DEF Ordered
  <2>2. LocksInOrder'
    BY <1>1, <1>2, <1>3, <2>1 DEF RequestInv, LocksInOrder
  <2>3. LocksApart'
    BY <1>1, <1>2 DEF RequestInv, LocksApart
  <2> QED
    BY <2>2, <2>3
<1>6. WrittenHolds'
  BY <1>1, <1>2, <1>3 DEF RequestInv, WrittenHolds, Missing, Known
<1>7. MarksWithin'
  BY <1>1, <1>2, <1>3 DEF RequestInv, MarksWithin
<1> QED
  BY <1>4, <1>5, <1>6, <1>7 DEF RequestInv

(* A lock is taken; an erasure may have found its heir. *)
LEMMA TakeKeeps ==
    ASSUME LogInv, NEW r \in Request, Take(r), UNCHANGED <<tableVars, stage, drawn>>,
           NEW o, op' = [op EXCEPT ![r] = o],
           OpShape(o), o.kind = op[r].kind, o.users = op[r].users,
           o.keys = op[r].keys \/ NextLock(r) \in op[r].users,
           o.kind = "receipt" => o.mark = op[r].mark
    PROVE  RequestInv'
<1> DEFINE x == NextLock(r)
<1>1. /\ stage[r] = "locking" /\ Missing(r) # {} /\ (x \in op[r].users => x \in live)
      /\ \A q \in Request \ {r} : x \notin held[q]
      /\ held' = [held EXCEPT ![r] = @ \cup {x}]
      /\ UNCHANGED <<live, members, lastSeq, seqOf, stage, drawn>>
  BY DEF Take, Wants, Admitted, Free, tableVars
<1>2. RequestInv /\ TableTypes
  BY DEF LogInv, TableInv
<1>3. OpShape(op[r]) /\ Ordered(op[r], held[r], live)
  BY <1>1, <1>2 DEF RequestInv, RequestTypes, LocksInOrder
<1>4. Ordered(o, held[r] \cup {x}, live)
  BY <1>1, <1>3, OrderedGrows
<1>5. x \in Lockable
  BY <1>1, <1>3, NextLockFacts, LockMembers, OpFields DEF Missing, Lockable
<1> HIDE DEF x
<1>6. /\ held'[r] = held[r] \cup {x} /\ op'[r] = o
      /\ \A q \in Request : q # r => held'[q] = held[q] /\ op'[q] = op[q]
  BY <1>1, <1>2 DEF RequestInv, RequestTypes
<1>7. RequestTypes'
  <2>1. held' \in [Request -> SUBSET Lockable]
    BY <1>1, <1>2, <1>5 DEF RequestInv, RequestTypes
  <2>2. DOMAIN op' = Request /\ op' = [q \in Request |-> op'[q]]
    BY <1>2 DEF RequestInv, RequestTypes
  <2>3. ASSUME NEW q \in Request
        PROVE  IF stage'[q] = "idle" THEN op'[q] = NoOp /\ held'[q] = {} ELSE OpShape(op'[q])
    BY <1>1, <1>2, <1>6 DEF RequestInv, RequestTypes
  <2> QED
    BY <1>1, <1>2, <2>1, <2>2, <2>3 DEF RequestInv, RequestTypes
<1>8. LocksInOrder'
  BY <1>1, <1>2, <1>4, <1>6 DEF RequestInv, LocksInOrder
<1>9. LocksApart'
  BY <1>1, <1>2, <1>6 DEF RequestInv, LocksApart
<1>10. WrittenHolds'
  BY <1>1, <1>2, <1>6 DEF RequestInv, WrittenHolds, Missing, Known
<1>11. MarksWithin'
  BY <1>1, <1>2, <1>6 DEF RequestInv, MarksWithin
<1> QED
  BY <1>7, <1>8, <1>9, <1>10, <1>11 DEF RequestInv

LEMMA LockKeeps ==
    ASSUME LogInv, NEW r \in Request, Lock(r) \/ LockErased(r)
    PROVE  RequestInv' /\ UNCHANGED <<tableVars, blocked, pageVars>>
<1>1. Take(r) /\ Wants(r) /\ UNCHANGED <<tableVars, stage, drawn, blocked, pageVars>>
  BY DEF Lock, LockErased, Take
<1>2. OpShape(op[r]) /\ DOMAIN op = Request /\ op = [q \in Request |-> op[q]]
  BY <1>1 DEF Wants, LogInv, RequestInv, RequestTypes
<1>3. CASE Lock(r)
  <2>1. op' = [op EXCEPT ![r] = op[r]]
    BY <1>2, <1>3 DEF Lock
  <2> QED
    BY <1>1, <1>2, <2>1, TakeKeeps
<1>4. CASE LockErased(r)
  <2>1. PICK heir \in members \ {op[r].user} :
          op' = [op EXCEPT ![r] = MemberOp("erase", op[r].user, op[r].actor,
                                           IF op[r].user = owner THEN {heir} ELSE {})]
    BY <1>4 DEF LockErased
  <2> DEFINE keys == IF op[r].user = owner THEN {heir} ELSE {}
             o == MemberOp("erase", op[r].user, op[r].actor, keys)
  <2>2. op[r].kind = "erase" /\ NextLock(r) \in op[r].users
    BY <1>4 DEF LockErased, ErasedRow
  <2>3. keys \in SUBSET User
    BY <2>1 DEF LogInv, TableInv, TableTypes
  <2>4. /\ op[r] = MemberOp("erase", op[r].user, op[r].actor, op[r].keys)
        /\ op[r].user \in User /\ op[r].actor \in User
    BY <1>2, <2>2, OpFields DEF MemberKind
  <2>5. op' = [op EXCEPT ![r] = o]
    BY <2>1
  <2> HIDE DEF keys
  <2>6. op[r].users = {op[r].user, op[r].actor}
    BY ONLY <2>4 DEF MemberOp
  <2>7. /\ o.kind = "erase" /\ o.users = op[r].users /\ o.keys = keys
        /\ o.user = op[r].user /\ o.actor = op[r].actor
    BY <2>6 DEF MemberOp
  <2>8. OpShape(o)
    BY <2>3, <2>4, <2>7 DEF OpShape, MemberKind
  <2> HIDE DEF o
  <2> QED
    BY <1>1, <2>2, <2>5, <2>7, <2>8, TakeKeeps
<1> QED
  BY <1>3, <1>4

(* The end of a request, whatever it did to the tables under its locks. *)
LEMMA EndKeeps ==
    ASSUME LogInv, NEW r \in Request, End(r), lastSeq' \in Nat, lastSeq <= lastSeq',
           \A q \in Request \ {r} : held[q] \cap live \subseteq live',
           \/ UNCHANGED <<members, lastSeq, seqOf>>
           \/ \A q \in Request \ {r} : stage[q] # "written"
    PROVE  RequestInv'
<1>1. RequestInv /\ TableTypes
  BY DEF LogInv, TableInv
<1>2. /\ stage'[r] = "idle" /\ op'[r] = NoOp /\ held'[r] = {} /\ drawn'[r] = 0
      /\ \A q \in Request : q # r =>
            stage'[q] = stage[q] /\ op'[q] = op[q] /\ held'[q] = held[q] /\ drawn'[q] = drawn[q]
  BY <1>1 DEF End, RequestInv, RequestTypes
<1>3. RequestTypes'
  <2>1. /\ stage' \in [Request -> Stage] /\ DOMAIN op' = Request /\ op' = [q \in Request |-> op'[q]]
        /\ drawn' \in [Request -> Nat]
    BY <1>1 DEF End, RequestInv, RequestTypes, Stage
  <2>2. held' \in [Request -> SUBSET Lockable]
    BY <1>1 DEF End, RequestInv, RequestTypes
  <2>3. ASSUME NEW q \in Request
        PROVE  IF stage'[q] = "idle" THEN op'[q] = NoOp /\ held'[q] = {} ELSE OpShape(op'[q])
    BY <1>1, <1>2 DEF RequestInv, RequestTypes
  <2> QED
    BY <2>1, <2>2, <2>3 DEF RequestTypes
<1>4. LocksInOrder'
  <2> SUFFICES ASSUME NEW q \in Request, stage'[q] # "idle" PROVE Ordered(op'[q], held'[q], live')
    BY DEF LocksInOrder
  <2>1. q # r /\ Ordered(op[q], held[q], live)
    BY <1>1, <1>2 DEF RequestInv, LocksInOrder
  <2>2. Ordered(op[q], held[q], live')
    BY <2>1 DEF Ordered
  <2> QED
    BY <1>2, <2>1, <2>2
<1>5. LocksApart'
  BY <1>1, <1>2 DEF RequestInv, LocksApart
<1>6. WrittenHolds'
  <2> SUFFICES ASSUME NEW q \in Request, stage'[q] = "written"
               PROVE  /\ Missing(q)' = {} /\ op'[q].kind = "send"
                      /\ seqOf'[op'[q].msg] = 0 /\ SenderOf[op'[q].msg] \in members'
                      /\ drawn'[q] = lastSeq' + 1
    BY DEF WrittenHolds, Known
  <2>1. q # r
    BY <1>2
  <2> QED
    BY <1>1, <1>2, <2>1 DEF RequestInv, WrittenHolds, Missing, Known
<1>7. MarksWithin'
  <2> SUFFICES ASSUME NEW q \in Request, stage'[q] # "idle", op'[q].kind = "receipt"
               PROVE  op'[q].mark.read <= op'[q].mark.delivered /\ op'[q].mark.delivered <= lastSeq'
    BY DEF MarksWithin
  <2>1. q # r
    BY <1>2
  <2>2. /\ op[q].mark.read <= op[q].mark.delivered /\ op[q].mark.delivered <= lastSeq
        /\ OpShape(op[q]) /\ op[q].kind = "receipt" /\ op'[q] = op[q]
    BY <1>1, <1>2, <2>1 DEF RequestInv, RequestTypes, MarksWithin
  <2>3. op[q].mark.delivered \in Nat
    BY <2>2, OpFields DEF Mark
  <2> QED
    BY <1>1, <2>2, <2>3 DEF TableTypes
<1> QED
  BY <1>3, <1>4, <1>5, <1>6, <1>7 DEF RequestInv


LEMMA WriteKeeps ==
    ASSUME LogInv, NEW r \in Request, WriteMessage(r)
    PROVE  RequestInv'
<1>1. /\ stage[r] = "locking" /\ op[r].kind = "send" /\ Missing(r) = {}
      /\ SenderOf[op[r].msg] \in members /\ ~Known(op[r].msg)
      /\ drawn' = [drawn EXCEPT ![r] = lastSeq + 1]
      /\ stage' = [stage EXCEPT ![r] = "written"]
      /\ UNCHANGED <<live, members, lastSeq, seqOf, op, held>>
  BY DEF WriteMessage, Locked, tableVars
<1>2. RequestInv /\ TableTypes
  BY DEF LogInv, TableInv
<1>3. /\ stage'[r] = "written" /\ drawn'[r] = lastSeq + 1
      /\ \A q \in Request : q # r => stage'[q] = stage[q] /\ drawn'[q] = drawn[q]
  BY <1>1, <1>2 DEF RequestInv, RequestTypes
<1>4. RequestTypes'
  <2>1. stage' \in [Request -> Stage] /\ drawn' \in [Request -> Nat]
    BY <1>1, <1>2 DEF RequestInv, RequestTypes, TableTypes, Stage
  <2>2. \A q \in Request : IF stage'[q] = "idle" THEN op[q] = NoOp /\ held[q] = {} ELSE OpShape(op[q])
    BY <1>1, <1>2, <1>3 DEF RequestInv, RequestTypes
  <2> QED
    BY <1>1, <1>2, <2>1, <2>2 DEF RequestInv, RequestTypes
<1>5. LocksInOrder' /\ LocksApart'
  <2>1. LocksInOrder'
    BY <1>1, <1>2, <1>3 DEF RequestInv, LocksInOrder
  <2>2. LocksApart'
    BY <1>1, <1>2 DEF RequestInv, LocksApart
  <2> QED
    BY <2>1, <2>2
<1>6. WrittenHolds'
  BY <1>1, <1>2, <1>3 DEF RequestInv, WrittenHolds, Missing, Known
<1>7. MarksWithin'
  BY <1>1, <1>2, <1>3 DEF RequestInv, MarksWithin
<1> QED
  BY <1>4, <1>5, <1>6, <1>7 DEF RequestInv

LEMMA RequestsUntouched ==
    ASSUME LogInv, UNCHANGED <<live, members, lastSeq, seqOf, stage, op, held, drawn>>
    PROVE  RequestInv'
<1>1. RequestInv
  BY DEF LogInv
<1>2. RequestTypes'
  BY <1>1 DEF RequestInv, RequestTypes
<1>3. LocksInOrder' /\ LocksApart'
  BY <1>1 DEF RequestInv, LocksInOrder, LocksApart
<1>4. WrittenHolds' /\ MarksWithin'
  BY <1>1 DEF RequestInv, WrittenHolds, MarksWithin, Missing, Known
<1> QED
  BY <1>2, <1>3, <1>4 DEF RequestInv

(***************************************************************************)
(* The log, its answers and the receipts.                                  *)
(***************************************************************************)

LEMMA LogUntouched ==
    ASSUME LogInv, UNCHANGED <<lastSeq, seqOf>>
    PROVE  SeqsApart' /\ Gapless'
<1>1. SeqsApart /\ Gapless
  BY DEF LogInv, TableInv
<1>2. Logged' = Logged /\ Seqs(Logged)' = Seqs(Logged)
  BY DEF Logged, Known, Seqs
<1> QED
  BY <1>1, <1>2 DEF SeqsApart, Gapless, Known

LEMMA MembersMove ==
    ASSUME LogInv, live' \subseteq User, members' \subseteq User, owner' \in User,
           UNCHANGED <<lastSeq, seqOf, receipts, announced, answers>>
    PROVE  TableInv'
<1>1. TableInv
  BY DEF LogInv
<1>2. TableTypes'
  BY <1>1 DEF TableInv, TableTypes
<1>3. AnswersKnown' /\ OneAnswer' /\ ReceiptsWithinLog'
  BY <1>1 DEF TableInv, AnswersKnown, OneAnswer, ReceiptsWithinLog, Known
<1> QED
  BY <1>2, <1>3, LogUntouched DEF TableInv

LEMMA ReplayKeeps ==
    ASSUME LogInv, NEW r \in Request, Replay(r)
    PROVE  TableInv'
<1> DEFINE m == op[r].msg
<1>1. TableInv /\ OpShape(op[r]) /\ m \in Message
  BY OpFields DEF LogInv, RequestInv, RequestTypes, Replay, Locked
<1>2. /\ Known(m) /\ answers' = [answers EXCEPT ![m] = @ \cup {seqOf[m]}]
      /\ UNCHANGED <<live, members, owner, lastSeq, seqOf, receipts, announced>>
  BY DEF Replay, Answer
<1> HIDE DEF m
<1>3. answers'[m] = answers[m] \cup {seqOf[m]} /\ \A n \in Message : n # m => answers'[n] = answers[n]
  BY <1>1, <1>2 DEF TableInv, TableTypes
<1>4. TableTypes'
  BY <1>1, <1>2 DEF TableInv, TableTypes
<1>5. AnswersKnown' /\ OneAnswer'
  BY <1>1, <1>2, <1>3 DEF TableInv, AnswersKnown, OneAnswer, Known
<1>6. ReceiptsWithinLog'
  BY <1>1, <1>2 DEF TableInv, ReceiptsWithinLog
<1> QED
  BY <1>2, <1>4, <1>5, <1>6, LogUntouched DEF TableInv

(* The message that is committed takes the next place. *)
LEMMA CommitFacts ==
    ASSUME LogInv, NEW r \in Request, CommitMessage(r)
    PROVE  \E m \in Message :
              /\ m = op[r].msg /\ OpShape(op[r]) /\ op[r].kind = "send" /\ Missing(r) = {}
              /\ ~Known(m) /\ SenderOf[m] \in members
              /\ lastSeq' = lastSeq + 1
              /\ seqOf' = [seqOf EXCEPT ![m] = lastSeq + 1]
              /\ announced' = announced \cup {m}
              /\ answers' = [answers EXCEPT ![m] = @ \cup {lastSeq + 1}]
              /\ End(r)
              /\ UNCHANGED <<live, members, owner, receipts>>
<1> DEFINE m == op[r].msg
<1>1. /\ Missing(r) = {} /\ op[r].kind = "send" /\ ~Known(m) /\ SenderOf[m] \in members
      /\ drawn[r] = lastSeq + 1 /\ OpShape(op[r])
  BY DEF LogInv, RequestInv, RequestTypes, WrittenHolds, CommitMessage
<1>2. m \in Message
  BY <1>1, OpFields
<1>3. /\ lastSeq' = lastSeq + 1
      /\ seqOf' = [seqOf EXCEPT ![m] = lastSeq + 1]
      /\ announced' = announced \cup {m}
      /\ answers' = [answers EXCEPT ![m] = @ \cup {lastSeq + 1}]
      /\ End(r)
      /\ UNCHANGED <<live, members, owner, receipts>>
  BY <1>1 DEF CommitMessage, Answer
<1> HIDE DEF m
<1>4. m = op[r].msg
  BY DEF m
<1> QED
  BY <1>1, <1>2, <1>3, <1>4

LEMMA CommitKeeps ==
    ASSUME LogInv, NEW r \in Request, CommitMessage(r)
    PROVE  TableInv'
<1>1. PICK m \in Message :
              /\ m = op[r].msg /\ OpShape(op[r]) /\ op[r].kind = "send" /\ Missing(r) = {}
              /\ ~Known(m) /\ SenderOf[m] \in members
              /\ lastSeq' = lastSeq + 1
              /\ seqOf' = [seqOf EXCEPT ![m] = lastSeq + 1]
              /\ announced' = announced \cup {m}
              /\ answers' = [answers EXCEPT ![m] = @ \cup {lastSeq + 1}]
              /\ End(r)
              /\ UNCHANGED <<live, members, owner, receipts>>
  BY CommitFacts
<1>2. TableInv
  BY DEF LogInv
<1>3. /\ seqOf'[m] = lastSeq + 1 /\ answers'[m] = answers[m] \cup {lastSeq + 1}
      /\ \A n \in Message : n # m => seqOf'[n] = seqOf[n] /\ answers'[n] = answers[n]
  BY <1>1, <1>2 DEF TableInv, TableTypes
<1>4. TableTypes'
  BY <1>1, <1>2 DEF TableInv, TableTypes
<1>5. \A n \in Message : seqOf[n] \in 0..lastSeq
  BY <1>2 DEF TableInv, TableTypes, Gapless, Logged, Seqs, Known
<1>6. SeqsApart'
  <2>1. \A n \in Message : n # m => seqOf'[n] # seqOf'[m]
    BY <1>2, <1>3, <1>5 DEF TableInv, TableTypes
  <2> QED
    BY <1>2, <1>3, <2>1 DEF TableInv, SeqsApart, Known
<1>7. Gapless'
  <2>1. Logged' = Logged \cup {m} /\ m \notin Logged
    BY <1>1, <1>2, <1>3 DEF Logged, Known, TableInv, TableTypes
  <2>2. Cardinality(Logged') = lastSeq + 1
    <3>1. IsFiniteSet(Logged)
      BY FS_Subset DEF Logged
    <3> QED
      BY <1>2, <2>1, <3>1, FS_AddElement DEF TableInv, Gapless
  <2>3. Seqs(Logged)' = Seqs(Logged) \cup {lastSeq + 1}
    <3>1. \A n \in Logged : n \in Message /\ n # m /\ seqOf'[n] = seqOf[n]
      BY <1>3, <2>1 DEF Logged
    <3>2. {seqOf'[n] : n \in Logged \cup {m}} = {seqOf[n] : n \in Logged} \cup {lastSeq + 1}
      BY <1>3, <3>1
    <3> QED
      BY <2>1, <3>2 DEF Seqs
  <2>4. (1..lastSeq) \cup {lastSeq + 1} = 1..(lastSeq + 1)
    BY <1>2 DEF TableInv, TableTypes
  <2> QED
    BY <1>1, <1>2, <2>2, <2>3, <2>4 DEF TableInv, Gapless
<1>8. AnswersKnown' /\ OneAnswer'
  <2>1. answers[m] = {} /\ Known(m)' /\ \A n \in Message : n # m => (Known(n)' <=> Known(n))
    BY <1>1, <1>2, <1>3 DEF TableInv, TableTypes, AnswersKnown, Known
  <2> QED
    BY <1>1, <1>2, <1>3, <2>1 DEF TableInv, AnswersKnown, OneAnswer
<1>9. ReceiptsWithinLog'
  <2>1. \A u \in User : receipts[u].delivered \in Nat
    BY <1>2 DEF TableInv, TableTypes, Mark
  <2> QED
    BY <1>1, <1>2, <2>1 DEF TableInv, TableTypes, ReceiptsWithinLog
<1> QED
  BY <1>4, <1>6, <1>7, <1>8, <1>9 DEF TableInv

LEMMA ReceiptKeeps ==
    ASSUME LogInv, NEW r \in Request, UpsertReceipt(r) \/ EraseMember(r)
    PROVE  TableInv'
<1>1. /\ TableInv /\ OpShape(op[r])
      /\ op[r].user \in User
      /\ UpsertReceipt(r) => op[r].mark \in Mark
  <2>1. stage[r] # "idle" /\ op[r].kind \in {"receipt", "erase"} /\ (UpsertReceipt(r) => op[r].kind = "receipt")
    BY DEF UpsertReceipt, EraseMember, Locked
  <2>2. OpShape(op[r])
    BY <2>1 DEF LogInv, RequestInv, RequestTypes
  <2> QED
    BY <2>1, <2>2, OpFields DEF LogInv, MemberKind
<1>2. PICK u \in User, mark \in Mark :
        /\ receipts' = [receipts EXCEPT ![u] = mark]
        /\ mark.read <= mark.delivered /\ mark.delivered <= lastSeq
  <2>1. CASE UpsertReceipt(r)
    <3>1. op[r].mark.read <= op[r].mark.delivered /\ op[r].mark.delivered <= lastSeq
      BY <2>1 DEF UpsertReceipt, Locked, LogInv, RequestInv, MarksWithin
    <3> QED
      BY <1>1, <2>1, <3>1 DEF UpsertReceipt
  <2>2. CASE EraseMember(r)
    <3>1. NoMark \in Mark /\ NoMark.read = 0 /\ NoMark.delivered = 0
      BY DEF NoMark, Mark
    <3>2. NoMark.read <= NoMark.delivered /\ NoMark.delivered <= lastSeq
      BY <1>1, <3>1 DEF TableInv, TableTypes
    <3>3. receipts' = [receipts EXCEPT ![op[r].user] = NoMark]
      BY <2>2 DEF EraseMember
    <3> QED
      BY <1>1, <3>1, <3>2, <3>3
  <2> QED
    BY <2>1, <2>2
<1>3. /\ UNCHANGED <<lastSeq, seqOf, announced, answers>>
      /\ live' \subseteq live /\ members' \subseteq members
  BY DEF UpsertReceipt, EraseMember
<1>7. owner' \in User
  <2>1. owner \in User /\ op[r].keys \subseteq User
    BY <1>1, OpFields DEF TableInv, TableTypes
  <2>2. CASE UpsertReceipt(r)
    BY <2>1, <2>2 DEF UpsertReceipt
  <2>3. CASE EraseMember(r)
    <3>1. op[r].keys # {} => (CHOOSE heir \in op[r].keys : TRUE) \in op[r].keys
      OBVIOUS
    <3> QED
      BY <2>1, <2>3, <3>1 DEF EraseMember
  <2> QED
    BY <2>2, <2>3
<1>4. TableTypes'
  BY <1>1, <1>2, <1>3, <1>7 DEF TableInv, TableTypes
<1>5. AnswersKnown' /\ OneAnswer'
  BY <1>1, <1>3 DEF TableInv, AnswersKnown, OneAnswer, Known
<1>6. ReceiptsWithinLog'
  BY <1>1, <1>2, <1>3 DEF TableInv, TableTypes, ReceiptsWithinLog
<1> QED
  BY <1>3, <1>4, <1>5, <1>6, LogUntouched DEF TableInv


(***************************************************************************)
(* Pages.                                                                  *)
(***************************************************************************)

LEMMA PagesUntouched ==
    ASSUME LogInv, UNCHANGED <<lo, hi, shown, hidden>>, lastSeq' \in Nat, lastSeq <= lastSeq',
           blocked' \subseteq User \X User, checked' \in BOOLEAN
    PROVE  PageInv'
<1>1. PageInv /\ lastSeq \in Nat
  BY DEF LogInv, TableInv, TableTypes
<1> QED
  BY <1>1 DEF PageInv, PageTypes, WindowIsComplete

(* A page of visible messages has no hole: what lies between two of its     *)
(* entries, or between the cursor and one of them, is on it too.            *)
LEMMA LatestIsSolid ==
    ASSUME NEW S \in SUBSET Nat, IsFiniteSet(S), NEW p \in Latest(S), NEW s \in S, p <= s
    PROVE  s \in Latest(S)
<1> DEFINE After(x) == {t \in S : t > x}
<1>0. After(p) \in SUBSET S /\ p \in Nat /\ s \in Nat
  BY DEF Latest
<1>1. IsFiniteSet(After(p)) /\ After(s) \in SUBSET After(p)
  <2>1. \A t \in After(s) : t \in After(p)
    BY <1>0
  <2> HIDE DEF After
  <2> QED
    BY <1>0, <2>1, FS_Subset
<1>2. Cardinality(After(p)) < PageSize
  BY DEF Latest
<1> HIDE DEF After
<1>3. Cardinality(After(s)) <= Cardinality(After(p)) /\ Cardinality(After(p)) \in Nat
      /\ Cardinality(After(s)) \in Nat
  BY <1>1, FS_Subset, FS_CardinalityType
<1>4. Cardinality(After(s)) < PageSize
  BY <1>2, <1>3
<1> QED
  BY <1>4 DEF Latest, After

LEMMA OldestIsSolid ==
    ASSUME NEW S \in SUBSET Nat, IsFiniteSet(S), NEW p \in Oldest(S), NEW s \in S, s <= p
    PROVE  s \in Oldest(S)
<1> DEFINE Before(x) == {t \in S : t < x}
<1>0. Before(p) \in SUBSET S /\ p \in Nat /\ s \in Nat
  BY DEF Oldest
<1>1. IsFiniteSet(Before(p)) /\ Before(s) \in SUBSET Before(p)
  <2>1. \A t \in Before(s) : t \in Before(p)
    BY <1>0
  <2> HIDE DEF Before
  <2> QED
    BY <1>0, <2>1, FS_Subset
<1>2. Cardinality(Before(p)) < PageSize
  BY DEF Oldest
<1> HIDE DEF Before
<1>3. Cardinality(Before(s)) <= Cardinality(Before(p)) /\ Cardinality(Before(p)) \in Nat
      /\ Cardinality(Before(s)) \in Nat
  BY <1>1, FS_Subset, FS_CardinalityType
<1>4. Cardinality(Before(s)) < PageSize
  BY <1>2, <1>3
<1> QED
  BY <1>4 DEF Oldest, Before

(* What the log has between two places, and what of it a block hides.       *)
LEMMA VisibleFacts ==
    ASSUME LogInv, NEW a \in Nat, NEW b \in Nat, 1 <= a, b <= lastSeq
    PROVE  LET V == Seqs(Visible(Between(a, b))) IN
           /\ V \in SUBSET Nat /\ IsFiniteSet(V)
           /\ \A s \in V : a <= s /\ s <= b
           /\ \A s \in a..b : s \notin V => \E m \in Message : seqOf[m] = s /\ Apart(SenderOf[m])
<1> DEFINE V == Seqs(Visible(Between(a, b)))
<1>0. TableTypes /\ Gapless
  BY DEF LogInv, TableInv
<1>1. \A s \in V : s \in Nat /\ a <= s /\ s <= b
  BY <1>0 DEF Seqs, Visible, Between, TableTypes
<1>2. V \in SUBSET (a..b)
  BY <1>1
<1>3. IsFiniteSet(V)
  <2> HIDE DEF V
  <2>1. IsFiniteSet(a..b)
    BY FS_Interval
  <2> QED
    BY <1>2, <2>1, FS_Subset
<1>4. ASSUME NEW s \in a..b, s \notin V
      PROVE  \E m \in Message : seqOf[m] = s /\ Apart(SenderOf[m])
  <2>1. s \in 1..lastSeq
    BY <1>0 DEF TableTypes
  <2>2. PICK m \in Message : Known(m) /\ seqOf[m] = s
    BY <1>0, <2>1 DEF Gapless, Seqs, Logged
  <2>3. m \in Between(a, b)
    BY <2>2 DEF Between
  <2>4. m \notin Visible(Between(a, b))
    BY <1>4, <2>2 DEF Seqs
  <2> QED
    BY <2>2, <2>3, <2>4 DEF Visible
<1> QED
  BY <1>1, <1>3, <1>4

(* A page that is solid up to what the client has extends it without a hole. *)
LEMMA PageExtends ==
    ASSUME LogInv, NEW page \in SUBSET Nat, TakePage(page),
           \A s \in page : 1 <= s /\ s <= lastSeq /\ (s < lo \/ s > hi),
           \A s \in 1..lastSeq, p \in page, z \in page \cup ({lo, hi} \ {0}) :
              /\ (p <= s /\ s <= z) \/ (z <= s /\ s <= p)
              /\ s < lo \/ s > hi
              /\ s \notin page
              => \E m \in Message : seqOf[m] = s /\ Apart(SenderOf[m])
    PROVE  PageInv'
<1> DEFINE lo1 == IF lo = 0 THEN Min(page) ELSE Min(page \cup {lo})
           hi1 == IF lo = 0 THEN Max(page) ELSE Max(page \cup {hi})
<1>0. /\ PageInv /\ TableTypes /\ Gapless /\ PageTypes
  BY DEF LogInv, TableInv, PageInv
<1>1. /\ checked' = FALSE /\ UNCHANGED <<lastSeq, blocked, seqOf>>
      /\ IF page = {} THEN UNCHANGED <<lo, hi, shown, hidden>>
         ELSE /\ lo' = lo1
              /\ hi' = hi1
              /\ shown' = shown \cup page
              /\ hidden' = hidden \cup
                    {s \in Seqs(Between(lo1, hi1)) : (s < lo \/ s > hi) /\ s \notin page /\
                        \E m \in Message : seqOf[m] = s /\ Apart(SenderOf[m])}
  BY DEF TakePage, tableVars
<1>2. CASE page = {}
  <2>1. UNCHANGED <<lo, hi, shown, hidden>>
    BY <1>1, <1>2
  <2>2. lastSeq' \in Nat /\ lastSeq <= lastSeq' /\ blocked' \subseteq User \X User
    BY <1>0, <1>1 DEF PageTypes, TableTypes
  <2>3. checked' \in BOOLEAN
    BY <1>1
  <2> QED
    BY <2>1, <2>2, <2>3, PagesUntouched
<1>3. CASE page # {}
  <2>1. /\ lo1 \in page \cup ({lo} \ {0}) /\ hi1 \in page \cup ({hi} \ {0})
        /\ \A s \in page : lo1 <= s /\ s <= hi1
        /\ lo # 0 => lo1 <= lo /\ hi <= hi1
    <3>1. CASE lo = 0
      <4>1. Min(page) \in page /\ \A y \in page : Min(page) <= y
        BY <1>3, MinIsLeast
      <4>2. Max(page) \in page /\ \A y \in page : y <= Max(page)
        BY <1>0, <1>3, MaxIsGreatest DEF TableTypes
      <4> QED
        BY <3>1, <4>1, <4>2
    <3>2. CASE lo # 0
      <4>0. page \cup {lo} \in SUBSET Nat /\ page \cup {hi} \in SUBSET Nat /\ hi # 0 /\ hi <= lastSeq
        BY <1>0, <3>2 DEF PageInv, PageTypes
      <4>1. Min(page \cup {lo}) \in page \cup {lo} /\ \A y \in page \cup {lo} : Min(page \cup {lo}) <= y
        BY <4>0, MinIsLeast
      <4>2. Max(page \cup {hi}) \in page \cup {hi} /\ \A y \in page \cup {hi} : y <= Max(page \cup {hi})
        <5>1. \A y \in page \cup {hi} : y <= lastSeq
          BY <4>0
        <5> QED
          BY <1>0, <4>0, <5>1, MaxIsGreatest DEF TableTypes
      <4> QED
        BY <3>2, <4>0, <4>1, <4>2
    <3> QED
      BY <3>1, <3>2
  <2> HIDE DEF lo1, hi1
  <2>2. lo1 \in Nat /\ hi1 \in Nat /\ lo1 # 0 /\ lo1 <= hi1 /\ hi1 <= lastSeq
    BY <1>0, <1>3, <2>1 DEF PageInv, PageTypes, TableTypes
  <2>3. ASSUME NEW s \in lo1..hi1 PROVE s \in shown' \cup hidden'
    <3>1. s \in 1..lastSeq /\ s \in Nat
      BY <1>0, <2>2 DEF TableTypes
    <3>2. CASE lo # 0 /\ lo <= s /\ s <= hi
      <4>1. s \in lo..hi
        BY <1>0, <3>1, <3>2 DEF PageTypes
      <4> QED
        BY <1>0, <1>1, <1>3, <3>2, <4>1 DEF PageInv, WindowIsComplete
    <3>3. CASE s \in page
      BY <1>1, <1>3, <3>3
    <3>4. CASE s \notin page /\ (lo = 0 \/ s < lo \/ s > hi)
      <4>1. s < lo \/ s > hi
        BY <1>0, <3>1, <3>4 DEF PageInv, PageTypes
      <4>2. \E p \in page, z \in page \cup ({lo, hi} \ {0}) : (p <= s /\ s <= z) \/ (z <= s /\ s <= p)
        <5>1. lo1 <= s /\ s <= hi1
          BY <2>2
        <5>2. CASE lo1 \in page
          BY <2>1, <5>1, <5>2
        <5>3. CASE hi1 \in page
          BY <2>1, <5>1, <5>3
        <5>4. CASE lo1 \notin page /\ hi1 \notin page
          <6>1. lo1 = lo /\ hi1 = hi
            BY <2>1, <5>4
          <6> QED
            BY <4>1, <5>1, <6>1, <1>0 DEF PageTypes
        <5> QED
          BY <5>2, <5>3, <5>4
      <4>3. \E m \in Message : seqOf[m] = s /\ Apart(SenderOf[m])
        BY <3>1, <3>4, <4>1, <4>2
      <4>4. s \in Seqs(Between(lo1, hi1))
        <5>1. PICK m \in Message : seqOf[m] = s
          BY <4>3
        <5>2. m \in Between(lo1, hi1)
          BY <3>1, <5>1 DEF Between, Known
        <5> QED
          BY <5>1, <5>2 DEF Seqs
      <4> QED
        BY <1>1, <1>3, <3>4, <4>1, <4>3, <4>4
    <3> QED
      BY <1>0, <3>2, <3>3, <3>4, <3>1 DEF PageTypes
  <2>4. WindowIsComplete'
    BY <1>1, <1>3, <2>3 DEF WindowIsComplete
  <2>5. shown' \subseteq Nat /\ hidden' \subseteq Nat
    <3>1. Seqs(Between(lo1, hi1)) \subseteq Nat
      BY <1>0 DEF Seqs, Between, TableTypes
    <3> QED
      BY <1>0, <1>1, <1>3, <3>1 DEF PageTypes
  <2> QED
    BY <1>0, <1>1, <1>3, <2>2, <2>4, <2>5 DEF PageInv, PageTypes
<1> QED
  BY <1>2, <1>3

LEMMA LatestPageKeeps ==
    ASSUME LogInv, LatestPage
    PROVE  PageInv'
<1> DEFINE V == Seqs(Visible(Between(1, lastSeq)))
           page == Latest(V)
<1>1. lo = 0 /\ hi = 0 /\ lastSeq \in Nat /\ TakePage(page)
  BY DEF LatestPage, LogInv, TableInv, TableTypes, PageInv, PageTypes
<1>2. /\ V \in SUBSET Nat /\ IsFiniteSet(V)
      /\ \A s \in V : 1 <= s /\ s <= lastSeq
      /\ \A s \in 1..lastSeq : s \notin V => \E m \in Message : seqOf[m] = s /\ Apart(SenderOf[m])
  BY <1>1, VisibleFacts
<1> HIDE DEF V
<1>3. page \in SUBSET V /\ \A p \in page, s \in V : p <= s => s \in page
  <2>1. page \in SUBSET V
    BY DEF Latest
  <2> QED
    BY <1>2, <2>1, LatestIsSolid
<1> HIDE DEF page
<1>4. \A s \in page : 1 <= s /\ s <= lastSeq /\ (s < lo \/ s > hi)
  BY <1>1, <1>2, <1>3
<1>5. ASSUME NEW s \in 1..lastSeq, NEW p \in page, NEW z \in page \cup ({lo, hi} \ {0}),
             (p <= s /\ s <= z) \/ (z <= s /\ s <= p), s \notin page
      PROVE  \E m \in Message : seqOf[m] = s /\ Apart(SenderOf[m])
  BY <1>1, <1>2, <1>3, <1>5
<1>6. page \in SUBSET Nat
  BY <1>2, <1>3
<1> QED
  BY <1>1, <1>4, <1>5, <1>6, PageExtends

LEMMA PageBeforeKeeps ==
    ASSUME LogInv, PageBefore
    PROVE  PageInv'
<1> DEFINE V == Seqs(Visible(Between(1, lo - 1)))
           page == Latest(V)
<1>1. /\ lo \in Nat /\ hi \in Nat /\ lastSeq \in Nat /\ lo > 1 /\ lo <= hi /\ hi <= lastSeq
      /\ TakePage(page)
  BY DEF PageBefore, LogInv, TableInv, TableTypes, PageInv, PageTypes
<1>2. /\ V \in SUBSET Nat /\ IsFiniteSet(V)
      /\ \A s \in V : 1 <= s /\ s <= lo - 1
      /\ \A s \in 1..(lo - 1) : s \notin V => \E m \in Message : seqOf[m] = s /\ Apart(SenderOf[m])
  <2>1. 1 \in Nat /\ lo - 1 \in Nat /\ 1 <= 1 /\ lo - 1 <= lastSeq
    BY <1>1
  <2> QED
    BY <2>1, VisibleFacts
<1> HIDE DEF V
<1>3. page \in SUBSET V /\ \A p \in page, s \in V : p <= s => s \in page
  <2>1. page \in SUBSET V
    BY DEF Latest
  <2> QED
    BY <1>2, <2>1, LatestIsSolid
<1> HIDE DEF page
<1>4. \A s \in page : s \in Nat /\ 1 <= s /\ s <= lastSeq /\ s < lo
  BY <1>1, <1>2, <1>3
<1>5. ASSUME NEW s \in 1..lastSeq, NEW p \in page, NEW z \in page \cup ({lo, hi} \ {0}),
             (p <= s /\ s <= z) \/ (z <= s /\ s <= p), s < lo \/ s > hi, s \notin page
      PROVE  \E m \in Message : seqOf[m] = s /\ Apart(SenderOf[m])
  <2>1. s < lo /\ s \in 1..(lo - 1)
    BY <1>1, <1>4, <1>5
  <2>2. p <= s \/ (z \in page /\ z <= s)
    BY <1>1, <1>4, <1>5, <2>1
  <2>3. s \notin V
    BY <1>3, <1>5, <2>2
  <2> QED
    BY <1>2, <2>1, <2>3
<1>6. page \in SUBSET Nat
  BY <1>2, <1>3
<1> QED
  BY <1>1, <1>4, <1>5, <1>6, PageExtends

LEMMA PageAfterKeeps ==
    ASSUME LogInv, PageAfter
    PROVE  PageInv'
<1> DEFINE V == Seqs(Visible(Between(hi + 1, lastSeq)))
           page == Oldest(V)
<1>1. /\ lo \in Nat /\ hi \in Nat /\ lastSeq \in Nat /\ lo <= hi /\ hi <= lastSeq
      /\ TakePage(page)
  BY DEF PageAfter, LogInv, TableInv, TableTypes, PageInv, PageTypes
<1>2. /\ V \in SUBSET Nat /\ IsFiniteSet(V)
      /\ \A s \in V : hi + 1 <= s /\ s <= lastSeq
      /\ \A s \in (hi + 1)..lastSeq : s \notin V => \E m \in Message : seqOf[m] = s /\ Apart(SenderOf[m])
  <2>1. hi + 1 \in Nat /\ 1 <= hi + 1 /\ lastSeq <= lastSeq
    BY <1>1
  <2> QED
    BY <1>1, <2>1, VisibleFacts
<1> HIDE DEF V
<1>3. page \in SUBSET V /\ \A p \in page, s \in V : s <= p => s \in page
  <2>1. page \in SUBSET V
    BY DEF Oldest
  <2> QED
    BY <1>2, <2>1, OldestIsSolid
<1> HIDE DEF page
<1>4. \A s \in page : s \in Nat /\ 1 <= s /\ s <= lastSeq /\ s > hi
  BY <1>1, <1>2, <1>3
<1>5. ASSUME NEW s \in 1..lastSeq, NEW p \in page, NEW z \in page \cup ({lo, hi} \ {0}),
             (p <= s /\ s <= z) \/ (z <= s /\ s <= p), s < lo \/ s > hi, s \notin page
      PROVE  \E m \in Message : seqOf[m] = s /\ Apart(SenderOf[m])
  <2>1. s > hi /\ s \in (hi + 1)..lastSeq
    BY <1>1, <1>4, <1>5
  <2>2. s <= p \/ (z \in page /\ s <= z)
    BY <1>1, <1>4, <1>5, <2>1
  <2>3. s \notin V
    BY <1>3, <1>5, <2>2
  <2> QED
    BY <1>2, <2>1, <2>3
<1>6. page \in SUBSET Nat
  BY <1>2, <1>3
<1> QED
  BY <1>1, <1>4, <1>5, <1>6, PageExtends

(***************************************************************************)
(* The invariant holds.                                                    *)
(***************************************************************************)

LEMMA LogInit == Init => LogInv
<1> SUFFICES ASSUME Init PROVE LogInv
  OBVIOUS
<1>1. TableTypes
  BY DEF Init, TableTypes, Mark, NoMark
<1>2. Logged = {} /\ lastSeq = 0 /\ \A m \in Message : ~Known(m) /\ answers[m] = {}
  BY DEF Init, Logged, Known
<1>3. Gapless
  <2>1. Cardinality({}) = 0
    BY FS_EmptySet
  <2>2. Seqs({}) = {} /\ 1..0 = {}
    BY DEF Seqs
  <2> QED
    BY <1>2, <2>1, <2>2 DEF Gapless
<1>4. SeqsApart /\ AnswersKnown /\ OneAnswer
  BY <1>2 DEF SeqsApart, AnswersKnown, OneAnswer, Init
<1>5. ReceiptsWithinLog
  BY DEF Init, ReceiptsWithinLog, NoMark
<1>6. RequestTypes
  BY DEF Init, RequestTypes, Stage
<1>7. \A r \in Request : stage[r] = "idle" /\ held[r] = {}
  BY DEF Init
<1>8. LocksInOrder /\ LocksApart /\ WrittenHolds /\ MarksWithin
  BY <1>7 DEF LocksInOrder, LocksApart, WrittenHolds, MarksWithin
<1>9. PageInv
  <2>1. checked \in BOOLEAN
    BY DEF Init
  <2>2. blocked = {} /\ lo = 0 /\ hi = 0 /\ lastSeq = 0 /\ shown = {} /\ hidden = {}
    BY DEF Init
  <2> QED
    BY <2>1, <2>2 DEF PageInv, PageTypes, WindowIsComplete
<1> QED
  BY <1>1, <1>3, <1>4, <1>5, <1>6, <1>8, <1>9 DEF LogInv, TableInv, RequestInv

LEMMA BeginsKeep ==
    ASSUME LogInv, NEW r \in Request,
           \/ \E m \in Message : BeginSend(r, m)
           \/ \E mark \in Reported : BeginReceipt(r, Reader, mark)
           \/ \E u \in User, actor \in User :
                 \/ \E kind \in MemberKind : BeginMemberOp(r, kind, u, actor)
                 \/ <<actor, u>> \in Blocks /\ \E kind \in BlockKind : BeginBlock(r, kind, u, actor)
    PROVE  RequestInv' /\ UNCHANGED <<tableVars, blocked, pageVars>>
<1>1. ASSUME NEW m \in Message, BeginSend(r, m)
      PROVE  RequestInv' /\ UNCHANGED <<tableVars, blocked, pageVars>>
  <2>1. OpShape(Send(m)) /\ Send(m).kind = "send" /\ Begin(r, Send(m))
    BY <1>1 DEF BeginSend, OpShape, Send
  <2> QED
    BY <2>1, BeginKeeps DEF Begin
<1>2. ASSUME NEW mark \in Reported, BeginReceipt(r, Reader, mark)
      PROVE  RequestInv' /\ UNCHANGED <<tableVars, blocked, pageVars>>
  <2> DEFINE o == Receipt(Reader, mark)
  <2>1. mark \in Mark /\ mark.delivered <= lastSeq /\ mark.read <= mark.delivered /\ Begin(r, o)
    BY <1>2 DEF BeginReceipt
  <2>2. OpShape(o) /\ o.kind = "receipt" /\ o.mark = mark
    BY <2>1 DEF OpShape, Receipt
  <2> HIDE DEF o
  <2> QED
    BY <2>1, <2>2, BeginKeeps DEF Begin
<1>3. ASSUME NEW u \in User, NEW actor \in User, NEW kind \in MemberKind, BeginMemberOp(r, kind, u, actor)
      PROVE  RequestInv' /\ UNCHANGED <<tableVars, blocked, pageVars>>
  <2> DEFINE o == MemberOp(kind, u, actor, {})
  <2>1. o.kind = kind /\ o.user = u /\ o.actor = actor /\ o.keys = {}
    BY DEF MemberOp
  <2>2. Begin(r, o)
    BY <1>3 DEF BeginMemberOp
  <2>3. OpShape(o) /\ o.kind # "receipt"
    BY <2>1 DEF OpShape, MemberKind
  <2> HIDE DEF o
  <2> QED
    BY <2>2, <2>3, BeginKeeps DEF Begin
<1>4. ASSUME NEW u \in User, NEW actor \in User, NEW kind \in BlockKind, BeginBlock(r, kind, u, actor)
      PROVE  RequestInv' /\ UNCHANGED <<tableVars, blocked, pageVars>>
  <2> DEFINE o == BlockOp(kind, u, actor)
  <2>1. o.kind = kind /\ o.user = u /\ o.actor = actor
    BY DEF BlockOp
  <2>2. Begin(r, o)
    BY <1>4 DEF BeginBlock
  <2>3. OpShape(o) /\ o.kind # "receipt"
    BY <2>1 DEF OpShape, BlockKind
  <2> HIDE DEF o
  <2> QED
    BY <2>2, <2>3, BeginKeeps DEF Begin
<1> QED
  BY <1>1, <1>2, <1>3, <1>4

(* A change of the members is alone with the conversation's row. *)
LEMMA MemberChangesKeep ==
    ASSUME LogInv, NEW r \in Request, AddMember(r) \/ RemoveMember(r) \/ EraseMember(r)
    PROVE  TableInv' /\ RequestInv' /\ UNCHANGED <<lastSeq, blocked, pageVars>>
<1>1. /\ stage[r] # "idle" /\ Missing(r) = {} /\ op[r].kind \in MemberKind
      /\ End(r) /\ UNCHANGED <<lastSeq, seqOf, announced, answers, blocked, pageVars>>
      /\ live' \in {live, live \ {op[r].user}}
      /\ members' \in {members \cup {op[r].user}, members \ {op[r].user}}
  BY DEF AddMember, RemoveMember, EraseMember, Locked, MemberKind
<1>2. /\ TableTypes /\ RequestInv
      /\ Conv \in held[r] /\ op[r].users \subseteq held[r]
      /\ \A q \in Request \ {r} : stage[q] # "written"
  BY <1>1, ReadyIsAlone DEF LogInv, TableInv, MemberKind, BlockKind
<1>3. op[r].user \in User /\ op[r].user \in held[r]
  <2>1. OpShape(op[r])
    BY <1>1, <1>2 DEF RequestInv, RequestTypes
  <2> QED
    BY <1>1, <1>2, <2>1, OpFields
<1>4. \A q \in Request \ {r} : held[q] \cap live \subseteq live'
  BY <1>1, <1>2, <1>3 DEF RequestInv, LocksApart
<1>5. RequestInv'
  <2>1. lastSeq' \in Nat /\ lastSeq <= lastSeq'
    BY <1>1, <1>2 DEF TableTypes
  <2> QED
    BY <1>1, <1>2, <1>4, <2>1, EndKeeps
<1>6. TableInv'
  <2>1. CASE EraseMember(r)
    BY <2>1, ReceiptKeeps
  <2>2. CASE AddMember(r) \/ RemoveMember(r)
    <3>1. UNCHANGED <<live, owner, receipts>>
      BY <2>2 DEF AddMember, RemoveMember
    <3>2. live' \subseteq User /\ members' \subseteq User /\ owner' \in User
      BY <1>1, <1>2, <1>3, <3>1 DEF TableTypes
    <3> QED
      BY <1>1, <3>1, <3>2, MembersMove
  <2> QED
    BY <2>1, <2>2
<1> QED
  BY <1>1, <1>5, <1>6

LEMMA StepKeeps ==
    ASSUME LogInv, NEW r \in Request, Step(r) \/ Abort(r)
    PROVE  /\ TableInv' /\ RequestInv' /\ lastSeq <= lastSeq'
           /\ blocked' \subseteq User \X User /\ UNCHANGED pageVars
<1>0. TableInv /\ TableTypes /\ lastSeq \in Nat /\ blocked \subseteq User \X User
  BY DEF LogInv, TableInv, TableTypes, PageInv, PageTypes
<1>1. CASE Lock(r) \/ LockErased(r)
  <2>1. RequestInv' /\ UNCHANGED <<tableVars, blocked, pageVars>>
    BY <1>1, LockKeeps
  <2>2. TableInv'
    BY <1>0, <2>1, MembersMove DEF tableVars, TableTypes
  <2> QED
    BY <1>0, <2>1, <2>2 DEF tableVars
<1>2. CASE WriteMessage(r)
  <2>1. UNCHANGED <<tableVars, blocked, pageVars>>
    BY <1>2 DEF WriteMessage
  <2>2. TableInv'
    BY <1>0, <2>1, MembersMove DEF tableVars, TableTypes
  <2> QED
    BY <1>0, <1>2, <2>1, <2>2, WriteKeeps DEF tableVars
<1>3. CASE Replay(r)
  <2>1. End(r) /\ UNCHANGED <<live, members, lastSeq, seqOf, blocked, pageVars>>
    BY <1>3 DEF Replay
  <2>2. RequestInv'
    BY <1>0, <2>1, EndKeeps
  <2> QED
    BY <1>0, <1>3, <2>1, <2>2, ReplayKeeps
<1>4. CASE CommitMessage(r)
  <2>1. End(r) /\ UNCHANGED <<live, members, blocked, pageVars>> /\ stage[r] = "written"
    BY <1>4 DEF CommitMessage
  <2>2. lastSeq' = lastSeq + 1 /\ Missing(r) = {} /\ op[r].kind = "send"
    BY <1>4, CommitFacts
  <2>3. \A q \in Request \ {r} : stage[q] # "written"
    <3>1. RequestInv /\ stage[r] # "idle"
      BY <2>1 DEF LogInv
    <3> QED
      BY <2>2, <3>1, ReadyIsAlone DEF BlockKind
  <2>4. lastSeq' \in Nat /\ lastSeq <= lastSeq'
    BY <1>0, <2>2
  <2>5. RequestInv'
    BY <2>1, <2>3, <2>4, EndKeeps
  <2> QED
    BY <1>0, <1>4, <2>1, <2>4, <2>5, CommitKeeps
<1>5. CASE UpsertReceipt(r)
  <2>1. End(r) /\ UNCHANGED <<live, members, lastSeq, seqOf, blocked, pageVars>>
    BY <1>5 DEF UpsertReceipt
  <2>2. RequestInv'
    BY <1>0, <2>1, EndKeeps
  <2> QED
    BY <1>0, <1>5, <2>1, <2>2, ReceiptKeeps
<1>6. CASE AddMember(r) \/ RemoveMember(r) \/ EraseMember(r)
  <2>1. TableInv' /\ RequestInv' /\ UNCHANGED <<lastSeq, blocked, pageVars>>
    BY <1>6, MemberChangesKeep
  <2> QED
    BY <1>0, <2>1
<1>7. CASE Abort(r)
  <2>1. End(r) /\ UNCHANGED <<tableVars, blocked, pageVars>>
    BY <1>7 DEF Abort
  <2>2. RequestInv'
    BY <1>0, <2>1, EndKeeps DEF tableVars
  <2>3. TableInv'
    BY <1>0, <2>1, MembersMove DEF tableVars, TableTypes
  <2> QED
    BY <1>0, <2>1, <2>2, <2>3 DEF tableVars
<1>8. CASE SetBlock(r) \/ RemoveBlock(r)
  <2>1. /\ End(r) /\ UNCHANGED <<tableVars, pageVars>>
        /\ stage[r] # "idle" /\ op[r].kind \in BlockKind
        /\ blocked' \in {blocked \cup {<<op[r].actor, op[r].user>>}, blocked \ {<<op[r].actor, op[r].user>>}}
    BY <1>8 DEF SetBlock, RemoveBlock, Locked, BlockKind
  <2>2. OpShape(op[r])
    BY <2>1 DEF LogInv, RequestInv, RequestTypes
  <2>3. blocked' \subseteq User \X User
    <3>1. op[r].actor \in User /\ op[r].user \in User
      BY <2>1, <2>2, OpFields
    <3> QED
      BY <1>0, <2>1, <3>1
  <2>4. RequestInv'
    BY <1>0, <2>1, EndKeeps DEF tableVars
  <2>5. TableInv'
    BY <1>0, <2>1, MembersMove DEF tableVars, TableTypes
  <2> QED
    BY <1>0, <2>1, <2>3, <2>4, <2>5 DEF tableVars
<1> QED
  BY <1>1, <1>2, <1>3, <1>4, <1>5, <1>6, <1>7, <1>8 DEF Step

LEMMA LogStep == LogInv /\ [Next]_vars => LogInv'
<1> SUFFICES ASSUME LogInv, [Next]_vars PROVE LogInv'
  OBVIOUS
<1>0. /\ TableInv /\ TableTypes /\ lastSeq \in Nat
      /\ PageTypes
  BY DEF LogInv, TableInv, TableTypes, PageInv
(* What leaves the rows and the requests alone. *)
<1>1. ASSUME UNCHANGED <<tableVars, requestVars>> PROVE TableInv' /\ RequestInv'
  <2>1. TableInv'
    BY <1>0, <1>1, MembersMove DEF tableVars, TableTypes
  <2> QED
    BY <1>1, <2>1, RequestsUntouched DEF tableVars, requestVars
(* What leaves the pages alone. *)
<1>2. ASSUME UNCHANGED pageVars, blocked' \subseteq User \X User, lastSeq' \in Nat, lastSeq <= lastSeq'
      PROVE  PageInv'
  BY <1>0, <1>2, PagesUntouched DEF pageVars, PageTypes
<1>3. ASSUME NEW r \in Request,
             \/ \E m \in Message : BeginSend(r, m)
             \/ \E mark \in Reported : BeginReceipt(r, Reader, mark)
             \/ \E u \in User, actor \in User :
                   \/ \E kind \in MemberKind : BeginMemberOp(r, kind, u, actor)
                   \/ <<actor, u>> \in Blocks /\ \E kind \in BlockKind : BeginBlock(r, kind, u, actor)
      PROVE  LogInv'
  <2>1. RequestInv' /\ UNCHANGED <<tableVars, blocked, pageVars>>
    BY <1>3, BeginsKeep
  <2>2. TableInv'
    BY <1>0, <2>1, MembersMove DEF tableVars, TableTypes
  <2>3. PageInv'
    BY <1>0, <1>2, <2>1 DEF tableVars, PageTypes
  <2> QED
    BY <2>1, <2>2, <2>3 DEF LogInv
<1>4. ASSUME NEW r \in Request, Step(r) \/ Abort(r) PROVE LogInv'
  <2>1. /\ TableInv' /\ RequestInv' /\ lastSeq <= lastSeq'
        /\ blocked' \subseteq User \X User /\ UNCHANGED pageVars
    BY <1>4, StepKeeps
  <2>2. PageInv'
    BY <1>2, <2>1 DEF TableInv, TableTypes
  <2> QED
    BY <2>1, <2>2 DEF LogInv
<1>5. CASE CheckReader
  <2>1. UNCHANGED <<tableVars, requestVars, blocked, lo, hi, shown, hidden>> /\ checked' = TRUE
    BY <1>5 DEF CheckReader
  <2>2. checked' \in BOOLEAN
    BY <2>1
  <2>3. PageInv'
    BY <1>0, <2>1, <2>2, PagesUntouched DEF tableVars, PageTypes
  <2> QED
    BY <1>1, <2>1, <2>3 DEF LogInv
<1>6. CASE LatestPage \/ PageBefore \/ PageAfter
  <2>1. UNCHANGED <<tableVars, requestVars, blocked>>
    BY <1>6 DEF LatestPage, PageBefore, PageAfter, TakePage
  <2>2. PageInv'
    BY <1>6, LatestPageKeeps, PageBeforeKeeps, PageAfterKeeps
  <2> QED
    BY <1>1, <2>1, <2>2 DEF LogInv
<1>7. CASE UNCHANGED vars
  <2>1. UNCHANGED <<tableVars, requestVars, blocked, pageVars>>
    BY <1>7 DEF vars
  <2>2. PageInv'
    BY <1>0, <1>2, <2>1 DEF tableVars, PageTypes
  <2> QED
    BY <1>1, <2>1, <2>2 DEF LogInv
<1> QED
  BY <1>3, <1>4, <1>5, <1>6, <1>7 DEF Next

(* Whatever requests run at once, are retried or break off, the rows of a   *)
(* conversation, its locks and the pages read from it agree.                *)
THEOREM LogInvariance == Spec => []LogInv
BY LogInit, LogStep, PTL DEF Spec

(* The log has neither gaps nor numbers used twice, a retried send is       *)
(* answered with the one place its message has, and receipts stay within    *)
(* the log.                                                                 *)
THEOREM LogIsWellFormed == Spec => []LogWellFormed
<1>1. LogInv => LogWellFormed
  BY TypesJoin DEF LogInv, TableInv, RequestInv, PageInv, LogWellFormed
<1> QED
  BY <1>1, LogInvariance, PTL

(* A client that follows its cursors has seen everything between the first  *)
(* and the last message it was given, blocks aside: no commit lands in a    *)
(* part of the log that has been read.                                      *)
THEOREM PagesMissNothing == Spec => []WindowIsComplete
<1>1. LogInv => WindowIsComplete
  BY DEF LogInv, PageInv
<1> QED
  BY <1>1, LogInvariance, PTL

(***************************************************************************)
(* Deadlock.                                                               *)
(***************************************************************************)

(* Whoever waits for a lock by name has no lock that comes after it.  So in *)
(* a circle of such requests nobody would hold the conversation's row, and  *)
(* each would wait for a user of a higher rank than the one before.         *)
LEMMA NamedLocksAreAcyclic == LogInv => NamedLocksInOrder
<1> SUFFICES ASSUME LogInv, NEW S \in (SUBSET {r \in Request : ~AtKey(r)}), S # {},
                    \A r \in S : \E q \in S \ {r} : WaitsFor(r, q)
             PROVE  FALSE
  BY DEF NamedLocksInOrder, Unstuck
<1>1. ASSUME NEW r \in S
      PROVE  /\ r \in Request /\ OpShape(op[r]) /\ Ordered(op[r], held[r], live) /\ Conv \notin held[r]
             /\ \/ NextLock(r) = Barrier /\ held[r] = {}
                \/ NextLock(r) \in op[r].users \ held[r] /\ NextLock(r) \in User
                \/ NextLock(r) = Conv
  <2>1. stage[r] = "locking" /\ Missing(r) # {} /\ ~AtKey(r) /\ r \in Request
    BY DEF WaitsFor, Wants
  <2>2. OpShape(op[r]) /\ Ordered(op[r], held[r], live)
    BY <2>1 DEF LogInv, RequestInv, RequestTypes, LocksInOrder
  <2>3. NextLock(r) \notin op[r].keys
    BY <2>1 DEF AtKey, Wants
  <2>4. op[r].users \subseteq User
    BY <2>2, OpFields
  <2>5. Conv \in held[r] => op[r].users \subseteq held[r] /\ Barrier \notin Missing(r) /\ Conv \notin Missing(r)
    BY <2>2 DEF Ordered, Missing
  <2>6. Barrier \in Missing(r) => held[r] = {}
    BY <2>2 DEF Ordered, Missing
  <2> QED
    BY <2>1, <2>2, <2>3, <2>4, <2>5, <2>6, NextLockFacts
<1>2. \A r \in S : NextLock(r) # Conv
  BY <1>1 DEF WaitsFor
<1> DEFINE f == [r \in S |-> IF NextLock(r) = Barrier THEN 0 ELSE 1 + Rank[NextLock(r)]]
<1>3. \A r \in S : /\ f[r] \in Nat
                   /\ NextLock(r) = Barrier => f[r] = 0
                   /\ NextLock(r) # Barrier => f[r] = 1 + Rank[NextLock(r)] /\ NextLock(r) \in User
  BY <1>1, <1>2
<1>4. IsFiniteSet(S)
  BY FS_Subset
<1> HIDE DEF f
<1>5. PICK x \in S : \A y \in S : f[y] <= f[x]
  BY <1>3, <1>4, HighestRank
<1>6. PICK q \in S \ {x} : WaitsFor(x, q)
  OBVIOUS
<1>7. NextLock(x) \in held[q] /\ NextLock(q) \in op[q].users \ held[q] /\ NextLock(q) \in User
  BY <1>1, <1>2, <1>6 DEF WaitsFor
<1>8. CASE NextLock(x) = Barrier
  <2>1. f[x] = 0 /\ f[q] = 1 + Rank[NextLock(q)]
    BY <1>3, <1>7, <1>8, LockNames
  <2>2. Rank[NextLock(q)] \in Nat
    BY <1>7
  <2> QED
    BY <1>5, <2>1, <2>2
<1>9. CASE NextLock(x) # Barrier
  <2>1. NextLock(x) \in User
    BY <1>3, <1>9
  <2>2. NextLock(x) \in op[q].users
    <3>1. NextLock(x) \in LocksOf(op[q])
      BY <1>1, <1>7 DEF Ordered
    <3>2. NextLock(x) \notin op[q].keys \ op[q].users
      BY <1>1, <1>7 DEF Ordered
    <3> QED
      BY <2>1, <3>1, <3>2, LockNames, LockMembers
  <2>3. Rank[NextLock(x)] < Rank[NextLock(q)]
    BY <1>1, <1>7, <2>2 DEF Ordered
  <2>4. f[x] = 1 + Rank[NextLock(x)] /\ f[q] = 1 + Rank[NextLock(q)]
    BY <1>3, <1>7, <1>9, LockNames
  <2>5. Rank[NextLock(x)] \in Nat /\ Rank[NextLock(q)] \in Nat
    BY <1>7, <2>1
  <2> QED
    BY <1>5, <2>3, <2>4, <2>5
<1> QED
  BY <1>8, <1>9

(* The store's lock order holds among the locks that are taken by name: a   *)
(* deadlock needs a request that waits for a foreign key's user.            *)
THEOREM NamedLocksNeverCycle == Spec => []NamedLocksInOrder
BY NamedLocksAreAcyclic, LogInvariance, PTL

(***************************************************************************)
(* Refinement of the in-memory store.                                      *)
(***************************************************************************)

(* The in-memory store's log, when f gives each message's seq. *)
LogFor(f, n) == [i \in 1..n |-> CHOOSE m \in Message : f[m] = i]

(* Each of the numbers up to n is one message's; the others' is 0. *)
Numbers(f, n) ==
    /\ n \in Nat /\ f \in [Message -> Nat]
    /\ \A i \in 1..n : \E m \in Message : f[m] = i
    /\ \A m \in Message : f[m] # 0 => f[m] \in 1..n
    /\ \A m, k \in Message : f[m] # 0 /\ f[m] = f[k] => m = k

LEMMA LogForFacts ==
    ASSUME NEW f, NEW n, Numbers(f, n)
    PROVE  /\ LogFor(f, n) \in Seq(Message) /\ Len(LogFor(f, n)) = n
           /\ \A i \in 1..n : LogFor(f, n)[i] \in Message /\ f[LogFor(f, n)[i]] = i
           /\ \A m \in Message : f[m] # 0 =>
                 f[m] \in 1..n /\ LogFor(f, n)[f[m]] = m /\ Memory!SeqIn(LogFor(f, n), m) = f[m]
           /\ \A m \in Message : m \in Memory!ToSet(LogFor(f, n)) <=> f[m] # 0
<1> DEFINE l == LogFor(f, n)
<1>1. ASSUME NEW i \in 1..n PROVE l[i] \in Message /\ f[l[i]] = i
  <2>1. \E m \in Message : f[m] = i
    BY DEF Numbers
  <2>2. l[i] = CHOOSE m \in Message : f[m] = i
    BY DEF LogFor
  <2> QED
    BY <2>1, <2>2
<1>2. l \in [1..n -> Message] /\ DOMAIN l = 1..n
  BY <1>1 DEF LogFor
<1> HIDE DEF l
<1>3. l \in Seq(Message) /\ Len(l) = n
  BY <1>2 DEF Numbers
<1>4. ASSUME NEW m \in Message, f[m] # 0
      PROVE  f[m] \in 1..n /\ l[f[m]] = m /\ Memory!SeqIn(l, m) = f[m]
  <2>1. f[m] \in 1..n
    BY <1>4 DEF Numbers
  <2>2. l[f[m]] = m
    BY <1>1, <1>4, <2>1 DEF Numbers
  <2>3. \A i \in 1..Len(l) : l[i] = m <=> i = f[m]
    BY <1>1, <1>3, <2>2
  <2> QED
    BY <1>3, <2>1, <2>2, <2>3 DEF Memory!SeqIn
<1>5. ASSUME NEW m \in Message PROVE m \in Memory!ToSet(l) <=> f[m] # 0
  <2>1. m \in Memory!ToSet(l) <=> \E i \in 1..n : l[i] = m
    BY <1>2 DEF Memory!ToSet
  <2>2. \A i \in 1..n : i # 0
    BY DEF Numbers
  <2> QED
    BY <1>1, <1>4, <2>1, <2>2
<1> QED
  BY <1>1, <1>3, <1>4, <1>5 DEF l

(* The next number is the end of the log. *)
LEMMA LogForAppends ==
    ASSUME NEW f, NEW n, Numbers(f, n), NEW m \in Message, f[m] = 0
    PROVE  /\ Numbers([f EXCEPT ![m] = n + 1], n + 1)
           /\ LogFor([f EXCEPT ![m] = n + 1], n + 1) = Append(LogFor(f, n), m)
<1> DEFINE g == [f EXCEPT ![m] = n + 1]
           l == LogFor(f, n)
           k == LogFor(g, n + 1)
<1>0. n \in Nat /\ f \in [Message -> Nat]
  BY DEF Numbers
<1>1. g \in [Message -> Nat] /\ g[m] = n + 1 /\ \A x \in Message : x # m => g[x] = f[x]
  BY <1>0
<1> HIDE DEF g
<1>2. Numbers(g, n + 1)
  <2>1. \A i \in 1..(n + 1) : \E x \in Message : g[x] = i
    <3> SUFFICES ASSUME NEW i \in 1..(n + 1) PROVE \E x \in Message : g[x] = i
      OBVIOUS
    <3>1. CASE i = n + 1
      BY <1>1, <3>1
    <3>2. CASE i \in 1..n
      <4>1. PICK x \in Message : f[x] = i
        BY <3>2 DEF Numbers
      <4>2. x # m
        BY <1>0, <3>2, <4>1
      <4> QED
        BY <1>1, <4>1, <4>2
    <3> QED
      BY <1>0, <3>1, <3>2
  <2>2. \A x \in Message : g[x] # 0 => g[x] \in 1..(n + 1)
    BY <1>0, <1>1 DEF Numbers
  <2>3. \A x \in Message : x # m /\ f[x] # 0 => f[x] # n + 1
    BY <1>0 DEF Numbers
  <2>4. \A x, y \in Message : g[x] # 0 /\ g[x] = g[y] => x = y
    BY <1>0, <1>1, <2>3 DEF Numbers
  <2> QED
    BY <1>0, <1>1, <2>1, <2>2, <2>4 DEF Numbers
<1>3. /\ l \in Seq(Message) /\ Len(l) = n
      /\ \A i \in 1..n : l[i] \in Message /\ f[l[i]] = i
  BY LogForFacts
<1>4. /\ k \in Seq(Message) /\ Len(k) = n + 1
      /\ \A i \in 1..(n + 1) : k[i] \in Message /\ g[k[i]] = i
      /\ \A x \in Message : g[x] # 0 => k[g[x]] = x
  BY <1>2, LogForFacts
<1> HIDE DEF l, k
<1>5. \A i \in 1..n : k[i] = l[i]
  <2> SUFFICES ASSUME NEW i \in 1..n PROVE k[i] = l[i]
    OBVIOUS
  <2>1. l[i] # m /\ g[l[i]] = i /\ i # 0
    BY <1>0, <1>1, <1>3
  <2> QED
    BY <1>3, <1>4, <2>1
<1>6. k[n + 1] = m
  <2>1. n + 1 # 0 /\ g[m] # 0
    BY <1>0, <1>1
  <2>2. k[g[m]] = m
    BY <1>4, <2>1
  <2> QED
    BY <1>1, <2>2
<1>7. k = Append(l, m)
  <2>1. Append(l, m) \in Seq(Message) /\ Len(Append(l, m)) = n + 1
    BY <1>3
  <2>2. \A i \in 1..(n + 1) : Append(l, m)[i] = k[i]
    BY <1>0, <1>3, <1>5, <1>6
  <2> QED
    BY <1>0, <1>4, <2>1, <2>2
<1> QED
  BY <1>2, <1>7 DEF g, k, l

LEMMA LogNumbers ==
    ASSUME LogInv
    PROVE  Numbers(seqOf, lastSeq)
<1>1. TableTypes /\ SeqsApart /\ Seqs(Logged) = 1..lastSeq
  BY DEF LogInv, TableInv, Gapless
<1>2. \A i \in 1..lastSeq : \E m \in Message : seqOf[m] = i
  BY <1>1 DEF Seqs, Logged
<1>3. \A m \in Message : seqOf[m] # 0 => seqOf[m] \in 1..lastSeq
  BY <1>1 DEF Seqs, Logged, Known
<1> QED
  BY <1>1, <1>2, <1>3 DEF Numbers, TableTypes, SeqsApart, Known

LEMMA MemoryReplay ==
    ASSUME LogInv, NEW r \in Request, Replay(r)
    PROVE  \E m \in Message : Memory!CreateMessage(m)
<1>1. PICK m \in Message :
        /\ SenderOf[m] \in members /\ seqOf[m] # 0
        /\ answers' = [answers EXCEPT ![m] = @ \cup {seqOf[m]}]
        /\ UNCHANGED <<live, members, owner, lastSeq, seqOf, receipts, announced>>
  <2>1. op[r].msg \in Message
    BY OpFields DEF LogInv, RequestInv, RequestTypes, Replay, Locked
  <2> QED
    BY <2>1 DEF Replay, Answer, Known
<1>2. m \in announced
  BY <1>1 DEF LogInv, TableInv, OneAnswer, Known
<1>3. m \in Memory!ToSet(LogFor(seqOf, lastSeq)) /\ Memory!SeqIn(LogFor(seqOf, lastSeq), m) = seqOf[m]
  BY <1>1, LogNumbers, LogForFacts
<1>4. LogFor(seqOf', lastSeq') = LogFor(seqOf, lastSeq)
  BY <1>1
<1>5. announced' = announced \cup {m} /\ User \ live' = User \ live
  BY <1>1, <1>2
<1>6. Memory!CreateMessage(m)
  BY <1>1, <1>3, <1>4, <1>5 DEF Memory!CreateMessage, Memory!Answer, LogFor
<1> QED
  BY <1>6

LEMMA MemoryCommit ==
    ASSUME LogInv, NEW r \in Request, CommitMessage(r)
    PROVE  \E m \in Message : Memory!CreateMessage(m)
<1>1. PICK m \in Message :
        /\ SenderOf[m] \in members /\ seqOf[m] = 0
        /\ lastSeq' = lastSeq + 1 /\ seqOf' = [seqOf EXCEPT ![m] = lastSeq + 1]
        /\ announced' = announced \cup {m}
        /\ answers' = [answers EXCEPT ![m] = @ \cup {lastSeq + 1}]
        /\ UNCHANGED <<live, members, owner, receipts>>
  BY CommitFacts DEF CommitMessage, Known
<1>2. Numbers(seqOf, lastSeq) /\ lastSeq \in Nat /\ seqOf \in [Message -> Nat]
  BY LogNumbers DEF Numbers
<1>3. m \notin Memory!ToSet(LogFor(seqOf, lastSeq))
  BY <1>1, <1>2, LogForFacts
<1> DEFINE f == [seqOf EXCEPT ![m] = lastSeq + 1]
<1>4. Numbers(f, lastSeq + 1) /\ LogFor(f, lastSeq + 1) = Append(LogFor(seqOf, lastSeq), m)
  <2>1. seqOf[m] = 0 /\ Numbers(seqOf, lastSeq)
    BY <1>1, <1>2
  <2> QED
    BY ONLY <2>1, LogForAppends
<1>5. f[m] = lastSeq + 1 /\ f[m] # 0
  BY <1>2
<1> HIDE DEF f
<1>6. Memory!SeqIn(LogFor(f, lastSeq + 1), m) = lastSeq + 1
  BY <1>4, <1>5, LogForFacts
<1>7. LogFor(seqOf', lastSeq') = LogFor(f, lastSeq + 1)
  BY <1>1 DEF f
<1> QED
  BY <1>1, <1>3, <1>4, <1>6, <1>7 DEF Memory!CreateMessage, Memory!Answer, LogFor

LEMMA MemoryReceipt ==
    ASSUME LogInv, NEW r \in Request, UpsertReceipt(r)
    PROVE  Memory!Next
<1> DEFINE l == LogFor(seqOf, lastSeq)
<1>1. PICK u \in User, mark \in Mark :
        /\ u \in members /\ mark.read <= mark.delivered /\ mark.delivered <= lastSeq
        /\ receipts[u].delivered <= mark.delivered /\ receipts[u].read <= mark.read
        /\ receipts' = [receipts EXCEPT ![u] = mark]
        /\ UNCHANGED <<live, members, lastSeq, seqOf, announced, answers>>
  <2>1. stage[r] # "idle" /\ op[r].kind = "receipt"
    BY DEF UpsertReceipt, Locked
  <2>2. OpShape(op[r])
    BY <2>1 DEF LogInv, RequestInv, RequestTypes
  <2>3. op[r].mark \in Mark /\ op[r].user \in User
    BY <2>1, <2>2, OpFields
  <2>4. op[r].mark.read <= op[r].mark.delivered /\ op[r].mark.delivered <= lastSeq
    BY <2>1 DEF LogInv, RequestInv, MarksWithin
  <2> QED
    BY <2>3, <2>4 DEF UpsertReceipt, Advances
<1>2. PICK d \in Nat, rd \in Nat : mark = [delivered |-> d, read |-> rd] /\ mark.delivered = d /\ mark.read = rd
  BY DEF Mark
<1>3. Len(l) = lastSeq /\ lastSeq \in Nat /\ LogFor(seqOf', lastSeq') = l
  BY <1>1, LogNumbers, LogForFacts DEF Numbers
<1>4. d \in 0..Len(l) /\ rd \in 0..d
  BY <1>1, <1>2, <1>3
<1>5. Memory!UpsertReceipt(u, [delivered |-> d, read |-> rd])
  <2> HIDE DEF l
  <2> QED
    BY <1>1, <1>2, <1>3 DEF Memory!UpsertReceipt, LogFor, l
<1> QED
  BY <1>4, <1>5 DEF Memory!Next, LogFor

LEMMA MemoryMembers ==
    ASSUME LogInv, NEW r \in Request, AddMember(r) \/ RemoveMember(r) \/ EraseMember(r)
    PROVE  Memory!Next
<1>1. stage[r] # "idle" /\ Missing(r) = {} /\ op[r].kind \in MemberKind /\ RequestInv
  BY DEF AddMember, RemoveMember, EraseMember, Locked, MemberKind, LogInv
<1>2. PICK u \in User : u = op[r].user /\ u \in live
  <2>1. OpShape(op[r]) /\ op[r].users \subseteq held[r]
    BY <1>1, ReadyIsAlone DEF RequestInv, RequestTypes, MemberKind, BlockKind
  <2>2. op[r].user \in User /\ op[r].user \in held[r] \cap op[r].users
    BY <1>1, <2>1, OpFields
  <2> QED
    BY <1>1, <2>2 DEF RequestInv, LocksInOrder, Ordered
<1>3. LogFor(seqOf', lastSeq') = LogFor(seqOf, lastSeq)
  BY DEF AddMember, RemoveMember, EraseMember
<1>4. live \subseteq User
  BY DEF LogInv, TableInv, TableTypes
<1>5. CASE AddMember(r)
  BY <1>2, <1>3, <1>5 DEF AddMember, Memory!AddMember, Memory!Next, LogFor
<1>6. CASE RemoveMember(r)
  BY <1>2, <1>3, <1>6 DEF RemoveMember, Memory!RemoveMember, Memory!Next, LogFor
<1>7. CASE EraseMember(r)
  <2>1. User \ live' = (User \ live) \cup {u}
    BY <1>2, <1>4, <1>7 DEF EraseMember
  <2>2. Memory!DeleteAccount(u)
    BY <1>2, <1>3, <1>7, <2>1 DEF EraseMember, Memory!DeleteAccount, LogFor, NoMark, Memory!NoMark
  <2> QED
    BY <2>2 DEF Memory!Next
<1> QED
  BY <1>5, <1>6, <1>7

LEMMA MemoryUnseen ==
    ASSUME UNCHANGED tableVars
    PROVE  UNCHANGED Memory!vars
BY DEF tableVars, Memory!vars

LEMMA MemoryStep == LogInv /\ [Next]_vars => [Memory!Next]_Memory!vars
<1> SUFFICES ASSUME LogInv, [Next]_vars PROVE [Memory!Next]_Memory!vars
  OBVIOUS
<1>1. ASSUME NEW r \in Request, Step(r) PROVE [Memory!Next]_Memory!vars
  <2>1. CASE Lock(r) \/ LockErased(r) \/ WriteMessage(r) \/ SetBlock(r) \/ RemoveBlock(r)
    <3>1. UNCHANGED tableVars
      BY <2>1 DEF Lock, LockErased, WriteMessage, SetBlock, RemoveBlock
    <3> QED
      BY <3>1, MemoryUnseen
  <2>2. CASE Replay(r) \/ CommitMessage(r)
    BY <2>2, MemoryReplay, MemoryCommit DEF Memory!Next
  <2>3. CASE UpsertReceipt(r)
    BY <2>3, MemoryReceipt
  <2>4. CASE AddMember(r) \/ RemoveMember(r) \/ EraseMember(r)
    BY <2>4, MemoryMembers
  <2> QED
    BY <1>1, <2>1, <2>2, <2>3, <2>4 DEF Step
<1>2. ASSUME NEW r \in Request,
             \/ \E m \in Message : BeginSend(r, m)
             \/ \E mark \in Reported : BeginReceipt(r, Reader, mark)
             \/ \E u \in User, actor \in User :
                   \/ \E kind \in MemberKind : BeginMemberOp(r, kind, u, actor)
                   \/ <<actor, u>> \in Blocks /\ \E kind \in BlockKind : BeginBlock(r, kind, u, actor)
             \/ Abort(r)
      PROVE  UNCHANGED tableVars
  BY <1>2 DEF BeginSend, BeginReceipt, BeginMemberOp, BeginBlock, Begin, Abort
<1>3. CASE CheckReader \/ LatestPage \/ PageBefore \/ PageAfter \/ UNCHANGED vars
  <2>1. UNCHANGED tableVars
    BY <1>3 DEF CheckReader, LatestPage, PageBefore, PageAfter, TakePage, vars
  <2> QED
    BY <2>1, MemoryUnseen
<1> QED
  BY <1>1, <1>2, <1>3, MemoryUnseen DEF Next

(* What the PostgreSQL store commits and answers could have come from the   *)
(* in-memory store: each send, receipt and change of members is one atomic  *)
(* operation there, with the log in the order of the commits.               *)
THEOREM LogRefinement == Spec => ImplementsMemoryLog
<1>1. Init => Memory!Init
  <2> SUFFICES ASSUME Init PROVE Memory!Init
    OBVIOUS
  <2>1. lastSeq = 0 /\ User \ live = {}
    BY DEF Init
  <2>2. [i \in 1..lastSeq |-> CHOOSE m \in Message : seqOf[m] = i] = <<>>
    BY <2>1
  <2> QED
    BY <2>1, <2>2 DEF Init, Memory!Init, NoMark, Memory!NoMark
<1>2. LogInv /\ [Next]_vars => [Memory!Next]_Memory!vars
  BY MemoryStep
<1> QED
  BY <1>1, <1>2, LogInvariance, PTL DEF Spec, Memory!Spec, ImplementsMemoryLog
=============================================================================
