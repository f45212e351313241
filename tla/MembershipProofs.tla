-------------------------- MODULE MembershipProofs --------------------------
(***************************************************************************)
(* Proofs about Membership for any number of accounts and conversations,   *)
(* any member limit and both erasures side by side.                        *)
(*                                                                         *)
(* An erasure acts on rows it has read earlier, so the inductive invariant *)
(* says what those rows are still worth.  For DeleteAccount: as long as no *)
(* listed conversation was written since, they are what its query would    *)
(* return now.  For a deletion intent: the row of every conversation the   *)
(* account still has a part in is there, and the successor it names has    *)
(* not been erased, because whoever erases holds the barrier.              *)
(***************************************************************************)
EXTENDS Membership, TLAPS

USE GroupAssumption, NobodyAssumption, KindsAssumption

(* An account under erasure is live, and only one is behind the barrier. *)
Barrier ==
    /\ \A u \in User : estage[u] # "none" => u \in live /\ how[u] \in {"delete", "intent"}
    /\ \A u, v \in User :
          estage[u] \in {"locked", "read"} /\ estage[v] \in {"locked", "read"} => u = v

(* The rows of a deleted conversation went with it. *)
NoRowsLeft == \A c \in Conversation \ exists : tombs[c] = {}

(* Whoever created_by names is in the conversation or has left it. *)
AuthorityKnown == \A c \in exists : createdBy[c] \in Members(c) \cup tombs[c]

(* What DeleteAccount has seen, unless a listed conversation was written. *)
SnapshotHolds ==
    \A u \in User : estage[u] # "none" /\ how[u] = "delete" /\ u \notin stale =>
        \A c \in Conversation : seen[u][c].listed => seen[u][c] \in Look(c, u)

(* What the erasure of a deletion intent has seen. *)
IntentSees ==
    \A u \in User : estage[u] = "read" /\ how[u] = "intent" =>
        /\ \A c \in Conversation :
              {seen[u][c].heir, seen[u][c].owner} \cap (ErasedBy("intent") \cup {u}) = {}
        /\ \A c \in exists :
              /\ u \in Members(c) \/ createdBy[c] = u => seen[u][c].listed
              /\ createdBy[c] = u =>
                    {seen[u][c].heir, seen[u][c].owner} \subseteq Members(c) \cup tombs[c] \cup {Nobody}

MembersInv ==
    /\ TypeOK /\ TombstonesMatch /\ OneOwner /\ ErasedIsRemoved
    /\ Barrier /\ NoRowsLeft /\ AuthorityKnown /\ SnapshotHolds /\ IntentSees

(***************************************************************************)
(* What the query returns.                                                 *)
(***************************************************************************)

(* A listed row is of a conversation the account has a part in; its heir    *)
(* and owner are other members, or NULL when there is none.                 *)
LEMMA LookFacts ==
    ASSUME TypeOK, NEW c \in Conversation, NEW u \in User, NEW row \in Look(c, u)
    PROVE  /\ row \in Sight
           /\ row.heir \in (Members(c) \ {u}) \cup {Nobody}
           /\ row.owner \in (Owners(c) \ {u}) \cup {Nobody}
           /\ c \in exists /\ (u \in Members(c) \/ u \in tombs[c]) => row.listed
           /\ row.listed => /\ c \in exists
                            /\ row.role = role[c][u]
                            /\ row.heir = Nobody => Members(c) \subseteq {u}
                            /\ row.owner = Nobody => Owners(c) \subseteq {u}
<1>1. Nobody \notin Members(c) /\ Nobody \notin Owners(c) /\ role[c][u] \in Role
  BY DEF TypeOK, Members, Owners
<1>2. CASE c \in exists /\ (u \in Members(c) \/ u \in tombs[c])
  <2>1. PICK h \in OneOf(Others(c, u)), o \in OneOf(Owners(c) \ {u}) :
            row = [listed |-> TRUE, role |-> role[c][u], heir |-> h, owner |-> o]
    BY <1>2 DEF Look
  <2>2. h \in (Members(c) \ {u}) \cup {Nobody} /\ (h = Nobody => Members(c) \subseteq {u})
    BY <1>1 DEF OneOf, Others
  <2>3. o \in (Owners(c) \ {u}) \cup {Nobody} /\ (o = Nobody => Owners(c) \subseteq {u})
    BY <1>1 DEF OneOf
  <2>4. row \in Sight
    BY <1>1, <2>1, <2>2, <2>3 DEF Sight, Members, Owners
  <2> QED
    BY <1>2, <2>1, <2>2, <2>3, <2>4
<1>3. CASE ~(c \in exists /\ (u \in Members(c) \/ u \in tombs[c]))
  <2>1. row = Unseen
    BY <1>3 DEF Look
  <2>2. Unseen \in Sight /\ Unseen.heir = Nobody /\ Unseen.owner = Nobody /\ ~Unseen.listed
    BY DEF Unseen, Sight, Role
  <2> QED
    BY <1>3, <2>1, <2>2
<1> QED
  BY <1>2, <1>3

(* The result of the query depends on that conversation's rows only. *)
LEMMA LookSame ==
    ASSUME NEW c \in Conversation, NEW u \in User,
           c \in exists' <=> c \in exists, role'[c] = role[c], tombs'[c] = tombs[c]
    PROVE  Look(c, u)' = Look(c, u)
<1>1. Members(c)' = Members(c) /\ Owners(c)' = Owners(c)
  BY DEF Members, Owners
<1>2. Others(c, u)' = Others(c, u)
  BY <1>1 DEF Others
<1>3. OneOf(Others(c, u))' = OneOf(Others(c, u)) /\ OneOf(Owners(c) \ {u})' = OneOf(Owners(c) \ {u})
  BY <1>1, <1>2 DEF OneOf
<1> QED
  BY <1>1, <1>3 DEF Look

LEMMA SeeAllFacts ==
    ASSUME TypeOK, NEW u \in User, SeeAll(u)
    PROVE  /\ seen' \in [User -> [Conversation -> Sight]]
           /\ \A c \in Conversation : seen'[u][c] \in Look(c, u)
           /\ \A v \in User : v # u => seen'[v] = seen[v]
<1>1. PICK rows \in [Conversation -> UNION {Look(c, u) : c \in Conversation}] :
          /\ \A c \in Conversation : rows[c] \in Look(c, u)
          /\ seen' = [seen EXCEPT ![u] = rows]
  BY DEF SeeAll
<1>2. rows \in [Conversation -> Sight]
  BY <1>1, LookFacts
<1> QED
  BY <1>1, <1>2 DEF TypeOK

(***************************************************************************)
(* The member operations.                                                  *)
(***************************************************************************)

(* Accounts whose row lockLiveUsers does not get. *)
Busy(u) == u \notin live \/ estage[u] \in {"locked", "read"}

(* An operation that writes one conversation, for accounts it could lock. *)
LEMMA OneConversation ==
    ASSUME MembersInv, TypeOK', NEW c \in Conversation,
           UNCHANGED <<live, estage, how, seen>>,
           \A d \in Conversation \ {c} :
               /\ d \in exists' <=> d \in exists
               /\ createdBy'[d] = createdBy[d] /\ role'[d] = role[d] /\ tombs'[d] = tombs[d],
           \/ c \notin exists /\ stale' = stale
           \/ stale' = stale \cup {u \in User : seen[u][c].listed},
           c \in exists' /\ (c \in exists => Owners(c) = {createdBy[c]}) => Owners(c)' = {createdBy'[c]},
           tombs'[c] \cap Members(c)' = {},
           c \notin exists' => tombs'[c] = {},
           c \in exists' => createdBy'[c] \in Members(c)' \cup tombs'[c],
           \A u \in User : Busy(u) /\ c \in exists' =>
               /\ u \in Members(c)' => c \in exists /\ u \in Members(c)
               /\ createdBy'[c] = u =>
                     /\ c \in exists /\ createdBy[c] = u
                     /\ Members(c) \cup tombs[c] \subseteq Members(c)' \cup tombs'[c]
    PROVE  MembersInv'
<1>1. \A d \in Conversation \ {c} : Members(d)' = Members(d) /\ Owners(d)' = Owners(d)
  BY DEF Members, Owners
<1>2. exists' \subseteq Conversation /\ exists \subseteq Conversation
  BY DEF MembersInv, TypeOK
<1>3. ErasedBy("intent")' = ErasedBy("intent") /\ \A u \in ErasedBy("intent") : u \in User /\ Busy(u)
  BY DEF ErasedBy, Busy
<1>4. TombstonesMatch' /\ NoRowsLeft'
  BY <1>1, <1>2 DEF MembersInv, TombstonesMatch, NoRowsLeft
<1>5. OneOwner'
  BY <1>1, <1>2, <1>3 DEF MembersInv, OneOwner
<1>6. ErasedIsRemoved'
  <2> SUFFICES ASSUME NEW d \in exists'
               PROVE  Members(d)' \cap ErasedBy("intent") = {} /\ createdBy'[d] \notin ErasedBy("intent")
    BY <1>3 DEF ErasedIsRemoved, RemovedEverywhere
  <2>1. CASE d # c
    BY <1>1, <1>2, <2>1 DEF MembersInv, ErasedIsRemoved, RemovedEverywhere
  <2>2. CASE d = c
    BY <1>3, <2>2 DEF MembersInv, ErasedIsRemoved, RemovedEverywhere
  <2> QED
    BY <2>1, <2>2
<1>7. Barrier'
  BY DEF MembersInv, Barrier
<1>8. AuthorityKnown'
  BY <1>1, <1>2 DEF MembersInv, AuthorityKnown
<1>9. SnapshotHolds'
  <2> SUFFICES ASSUME NEW u \in User, estage[u] # "none", how[u] = "delete", u \notin stale',
                      NEW d \in Conversation, seen[u][d].listed
               PROVE  seen[u][d] \in Look(d, u)'
    BY DEF SnapshotHolds
  <2>1. u \notin stale /\ seen[u][d] \in Look(d, u)
    BY DEF MembersInv, SnapshotHolds
  <2>2. d \in exists
    BY <2>1, LookFacts DEF MembersInv
  <2>3. d # c
    BY <2>2
  <2> QED
    BY <2>1, <2>3, LookSame
<1>10. IntentSees'
  <2> SUFFICES ASSUME NEW u \in User, estage[u] = "read", how[u] = "intent"
               PROVE  /\ \A d \in Conversation :
                            {seen[u][d].heir, seen[u][d].owner} \cap (ErasedBy("intent") \cup {u}) = {}
                      /\ \A d \in exists' :
                            /\ u \in Members(d)' \/ createdBy'[d] = u => seen[u][d].listed
                            /\ createdBy'[d] = u =>
                                  {seen[u][d].heir, seen[u][d].owner} \subseteq Members(d)' \cup tombs'[d] \cup {Nobody}
    BY <1>3 DEF IntentSees
  <2>1. \A d \in Conversation :
            {seen[u][d].heir, seen[u][d].owner} \cap (ErasedBy("intent") \cup {u}) = {}
    BY DEF MembersInv, IntentSees
  <2> SUFFICES ASSUME NEW d \in exists'
               PROVE  /\ u \in Members(d)' \/ createdBy'[d] = u => seen[u][d].listed
                      /\ createdBy'[d] = u =>
                            {seen[u][d].heir, seen[u][d].owner} \subseteq Members(d)' \cup tombs'[d] \cup {Nobody}
    BY <2>1
  <2>2. CASE d # c
    BY <1>1, <1>2, <2>2 DEF MembersInv, IntentSees
  <2>3. CASE d = c
    <3>1. Busy(u)
      BY DEF Busy
    <3> QED
      BY <2>3, <3>1 DEF MembersInv, IntentSees
  <2> QED
    BY <2>2, <2>3
<1> QED
  BY <1>4, <1>5, <1>6, <1>7, <1>8, <1>9, <1>10 DEF MembersInv

LEMMA CreateStep ==
    ASSUME MembersInv, NEW c \in Conversation, NEW u \in User, NEW S \in SUBSET User,
           CreateConversation(c, u, S)
    PROVE  MembersInv'
<1>1. /\ c \notin exists /\ u \in S /\ exists' = exists \cup {c}
      /\ createdBy' = [createdBy EXCEPT ![c] = u]
      /\ role' = [role EXCEPT ![c] =
                  [v \in User |-> IF v = u THEN "owner" ELSE IF v \in S THEN "member" ELSE "none"]]
      /\ live' = live /\ tombs' = tombs /\ UNCHANGED <<estage, how, seen, stale>>
      /\ \A v \in S : ~Busy(v)
  BY DEF CreateConversation, LockLiveUsers, eraseVars, Busy
<1>2. /\ role' \in [Conversation -> [User -> Role]]
      /\ \A v \in User : role'[c][v] = IF v = u THEN "owner" ELSE IF v \in S THEN "member" ELSE "none"
      /\ \A d \in Conversation \ {c} : role'[d] = role[d] /\ createdBy'[d] = createdBy[d]
      /\ createdBy'[c] = u
      /\ createdBy' \in [Conversation -> User \cup {Nobody}]
  BY <1>1 DEF MembersInv, TypeOK, Role
<1>3. TypeOK'
  BY <1>1, <1>2 DEF MembersInv, TypeOK
<1>4. Members(c)' = S /\ Owners(c)' = {u}
  BY <1>1, <1>2 DEF Members, Owners
<1>5. tombs'[c] = {}
  BY <1>1 DEF MembersInv, NoRowsLeft
<1> QED
  BY <1>1, <1>2, <1>3, <1>4, <1>5, OneConversation

(* AddConversationMember, Join and RemoveConversationMember: the role of    *)
(* one account that is not the owner, and its tombstone.                    *)
LEMMA RoleChange ==
    ASSUME MembersInv, NEW c \in exists, NEW u \in User, NEW r \in {"member", "admin", "none"},
           ~Busy(u), role[c][u] # "owner",
           role' = [role EXCEPT ![c][u] = r],
           tombs' = [tombs EXCEPT ![c] = IF r = "none" THEN @ \cup {u} ELSE @ \ {u}],
           Touch({c}), UNCHANGED <<live, exists, createdBy>>
    PROVE  MembersInv'
<1>1. c \in Conversation
  BY DEF MembersInv, TypeOK
<1>2. /\ role' \in [Conversation -> [User -> Role]]
      /\ role'[c][u] = r
      /\ \A v \in User : v # u => role'[c][v] = role[c][v]
      /\ \A d \in Conversation \ {c} : role'[d] = role[d]
  BY <1>1 DEF MembersInv, TypeOK, Role
<1>3. /\ tombs' \in [Conversation -> SUBSET User]
      /\ tombs'[c] = IF r = "none" THEN tombs[c] \cup {u} ELSE tombs[c] \ {u}
      /\ \A d \in Conversation \ {c} : tombs'[d] = tombs[d]
  BY <1>1 DEF MembersInv, TypeOK
<1>4. stale' = stale \cup {v \in User : seen[v][c].listed} /\ UNCHANGED <<estage, how, seen>>
  BY DEF Touch
<1>5. TypeOK'
  BY <1>2, <1>3, <1>4 DEF MembersInv, TypeOK
<1>6. Members(c)' = (IF r = "none" THEN Members(c) \ {u} ELSE Members(c) \cup {u}) /\ Owners(c)' = Owners(c)
  BY <1>2 DEF Members, Owners
<1>7. tombs[c] \cap Members(c) = {} /\ createdBy[c] \in Members(c) \cup tombs[c]
  BY <1>1 DEF MembersInv, TombstonesMatch, AuthorityKnown
<1>8. /\ tombs'[c] \cap Members(c)' = {}
      /\ createdBy'[c] \in Members(c)' \cup tombs'[c]
      /\ Members(c) \cup tombs[c] \subseteq Members(c)' \cup tombs'[c]
  BY <1>3, <1>6, <1>7
<1> QED
  BY <1>1, <1>2, <1>3, <1>4, <1>5, <1>6, <1>8, OneConversation

LEMMA AddStep ==
    ASSUME MembersInv, NEW c \in Conversation, NEW actor \in User, NEW u \in User, NEW r \in Role,
           AddConversationMember(c, actor, u, r)
    PROVE  MembersInv'
<1>1. c \in exists /\ r \in {"member", "admin"} /\ ~Busy(u)
  BY DEF AddConversationMember, LockLiveUsers, Busy
<1>2. tombs' = [tombs EXCEPT ![c] = IF r = "none" THEN @ \cup {u} ELSE @ \ {u}]
  BY <1>1 DEF AddConversationMember
<1> QED
  BY <1>1, <1>2, RoleChange DEF AddConversationMember

LEMMA JoinStep ==
    ASSUME MembersInv, NEW c \in Conversation, NEW u \in User, NEW byLink \in BOOLEAN, Join(c, u, byLink)
    PROVE  MembersInv'
<1>1. c \in exists /\ ~Busy(u) /\ role[c][u] # "owner"
  BY DEF Join, LockLiveUsers, Busy
<1>2. tombs' = [tombs EXCEPT ![c] = IF "member" = "none" THEN @ \cup {u} ELSE @ \ {u}]
  BY DEF Join
<1> QED
  BY <1>1, <1>2, RoleChange DEF Join

LEMMA RemoveStep ==
    ASSUME MembersInv, NEW c \in Conversation, NEW actor \in User, NEW u \in User,
           RemoveConversationMember(c, actor, u)
    PROVE  MembersInv'
<1>1. c \in exists /\ ~Busy(u) /\ role[c][u] # "owner"
  BY DEF RemoveConversationMember, LockLiveUsers, Busy
<1>2. tombs' = [tombs EXCEPT ![c] = IF "none" = "none" THEN @ \cup {u} ELSE @ \ {u}]
  BY DEF RemoveConversationMember
<1> QED
  BY <1>1, <1>2, RoleChange DEF RemoveConversationMember

LEMMA TransferStep ==
    ASSUME MembersInv, NEW c \in Conversation, NEW actor \in User, NEW u \in User,
           TransferConversationOwnership(c, actor, u)
    PROVE  MembersInv'
<1>1. /\ c \in exists /\ ~Busy(u) /\ ~Busy(actor) /\ actor # u
      /\ role[c][actor] = "owner" /\ u \in Members(c)
      /\ createdBy' = [createdBy EXCEPT ![c] = u]
      /\ live' = live /\ exists' = exists /\ tombs' = tombs
  BY DEF TransferConversationOwnership, LockLiveUsers, Busy
<1>2. /\ role' \in [Conversation -> [User -> Role]]
      /\ role'[c][u] = "owner" /\ role'[c][actor] = "admin"
      /\ \A v \in User \ {u, actor} : role'[c][v] = role[c][v]
      /\ \A d \in Conversation \ {c} : role'[d] = role[d]
  BY <1>1 DEF TransferConversationOwnership, MembersInv, TypeOK, Role
<1>3. stale' = stale \cup {v \in User : seen[v][c].listed} /\ UNCHANGED <<estage, how, seen>>
  BY DEF TransferConversationOwnership, Touch
<1>4. TypeOK'
  BY <1>1, <1>2, <1>3 DEF MembersInv, TypeOK
<1>5. Members(c)' = Members(c)
  BY <1>1, <1>2 DEF Members
<1>6. Owners(c) = {createdBy[c]} => Owners(c)' = {u}
  BY <1>1, <1>2 DEF Owners
<1>7. tombs[c] \cap Members(c) = {}
  BY DEF MembersInv, TombstonesMatch
<1>8. createdBy'[c] = u /\ \A d \in Conversation \ {c} : createdBy'[d] = createdBy[d]
  BY <1>1 DEF MembersInv, TypeOK
<1> QED
  BY <1>1, <1>2, <1>3, <1>4, <1>5, <1>6, <1>7, <1>8, OneConversation

LEMMA DeleteConversationStep ==
    ASSUME MembersInv, NEW c \in Conversation, NEW actor \in User, DeleteConversation(c, actor)
    PROVE  MembersInv'
<1>1. /\ c \in exists /\ exists' = exists \ {c} /\ live' = live
      /\ createdBy' = [createdBy EXCEPT ![c] = Nobody]
      /\ role' = [role EXCEPT ![c] = NoRoles]
      /\ tombs' = [tombs EXCEPT ![c] = {}]
  BY DEF DeleteConversation
<1>2. stale' = stale \cup {v \in User : seen[v][c].listed} /\ UNCHANGED <<estage, how, seen>>
  BY DEF DeleteConversation, Touch
<1>3. NoRoles \in [User -> Role]
  BY DEF NoRoles, Role
<1>4. TypeOK'
  BY <1>1, <1>2, <1>3 DEF MembersInv, TypeOK
<1>5. /\ tombs'[c] = {}
      /\ \A d \in Conversation \ {c} :
            createdBy'[d] = createdBy[d] /\ role'[d] = role[d] /\ tombs'[d] = tombs[d]
  BY <1>1 DEF MembersInv, TypeOK
<1> QED
  BY <1>1, <1>2, <1>4, <1>5, OneConversation

(***************************************************************************)
(* Account erasure.                                                        *)
(***************************************************************************)

(* An erasure that has not committed changes no table. *)
LEMMA TablesStay ==
    ASSUME MembersInv, UNCHANGED tableVars, NEW u \in live,
           how' \in [User -> Kinds \cup {"none"}], \A v \in User : v # u => how'[v] = how[v]
    PROVE  /\ ErasedBy("intent")' = ErasedBy("intent")
           /\ \A c \in Conversation : Members(c)' = Members(c)
           /\ \A c \in Conversation, v \in User : Look(c, v)' = Look(c, v)
           /\ TombstonesMatch' /\ OneOwner' /\ ErasedIsRemoved' /\ NoRowsLeft' /\ AuthorityKnown'
<1>1. live' = live /\ exists' = exists /\ createdBy' = createdBy /\ role' = role /\ tombs' = tombs
  BY DEF tableVars
<1>2. ErasedBy("intent")' = ErasedBy("intent")
  BY <1>1 DEF ErasedBy
<1>3. \A c \in Conversation : Members(c)' = Members(c) /\ Owners(c)' = Owners(c)
  BY <1>1 DEF Members, Owners
<1>4. \A c \in Conversation, v \in User : Look(c, v)' = Look(c, v)
  BY <1>1, LookSame
<1>5. exists \subseteq Conversation
  BY DEF MembersInv, TypeOK
<1>6. TombstonesMatch' /\ NoRowsLeft' /\ AuthorityKnown'
  BY <1>1, <1>3, <1>5 DEF MembersInv, TombstonesMatch, NoRowsLeft, AuthorityKnown
<1>7. OneOwner'
  BY <1>1, <1>2, <1>3, <1>5 DEF MembersInv, OneOwner
<1>8. ErasedIsRemoved'
  BY <1>1, <1>2, <1>3, <1>5 DEF MembersInv, ErasedIsRemoved, RemovedEverywhere
<1> QED
  BY <1>2, <1>3, <1>4, <1>6, <1>7, <1>8

(* What an intent's erasure has seen stays as good as the tables stay. *)
LEMMA IntentStays ==
    ASSUME MembersInv, UNCHANGED tableVars, ErasedBy("intent")' = ErasedBy("intent"),
           \A c \in Conversation : Members(c)' = Members(c),
           \A v \in User : estage'[v] = "read" =>
               estage[v] = "read" /\ how'[v] = how[v] /\ seen'[v] = seen[v]
    PROVE  IntentSees'
<1>1. exists' = exists /\ createdBy' = createdBy /\ tombs' = tombs /\ exists \subseteq Conversation
  BY DEF tableVars, MembersInv, TypeOK
<1> SUFFICES ASSUME NEW v \in User, estage'[v] = "read", how'[v] = "intent"
             PROVE  /\ \A c \in Conversation :
                          {seen'[v][c].heir, seen'[v][c].owner} \cap (ErasedBy("intent")' \cup {v}) = {}
                    /\ \A c \in exists' :
                          /\ v \in Members(c)' \/ createdBy'[c] = v => seen'[v][c].listed
                          /\ createdBy'[c] = v =>
                                {seen'[v][c].heir, seen'[v][c].owner} \subseteq Members(c)' \cup tombs'[c] \cup {Nobody}
  BY DEF IntentSees
<1>2. estage[v] = "read" /\ how[v] = "intent" /\ seen'[v] = seen[v]
  OBVIOUS
<1>3. /\ \A c \in Conversation :
            {seen[v][c].heir, seen[v][c].owner} \cap (ErasedBy("intent") \cup {v}) = {}
      /\ \A c \in exists :
            /\ v \in Members(c) \/ createdBy[c] = v => seen[v][c].listed
            /\ createdBy[c] = v =>
                  {seen[v][c].heir, seen[v][c].owner} \subseteq Members(c) \cup tombs[c] \cup {Nobody}
  BY <1>2 DEF MembersInv, IntentSees
<1> QED
  BY <1>1, <1>2, <1>3

LEMMA BeginEraseStep ==
    ASSUME MembersInv, NEW u \in User, NEW kind \in Kinds, BeginErase(u, kind)
    PROVE  MembersInv'
<1>1. /\ u \in live /\ UNCHANGED tableVars /\ stale' = stale
      /\ live' = live /\ exists' = exists /\ createdBy' = createdBy /\ role' = role /\ tombs' = tombs
      /\ estage' = [estage EXCEPT ![u] = "begun"] /\ how' = [how EXCEPT ![u] = kind]
  BY DEF BeginErase, tableVars
<1>2. /\ estage' \in [User -> EraseStage] /\ how' \in [User -> Kinds \cup {"none"}]
      /\ estage'[u] = "begun" /\ how'[u] = kind
      /\ \A v \in User : v # u => estage'[v] = estage[v] /\ how'[v] = how[v]
  BY <1>1 DEF MembersInv, TypeOK, EraseStage
<1>3. /\ seen' \in [User -> [Conversation -> Sight]]
      /\ \A v \in User : v # u => seen'[v] = seen[v]
      /\ kind = "delete" => \A c \in Conversation : seen'[u][c] \in Look(c, u)
  <2>1. TypeOK
    BY DEF MembersInv
  <2>2. CASE kind = "delete"
    BY <2>1, <2>2, SeeAllFacts DEF BeginErase
  <2>3. CASE kind # "delete"
    BY <2>1, <2>3 DEF BeginErase, TypeOK
  <2> QED
    BY <2>2, <2>3
<1>4. TypeOK'
  BY <1>1, <1>2, <1>3 DEF MembersInv, TypeOK
<1>5. /\ ErasedBy("intent")' = ErasedBy("intent")
      /\ \A c \in Conversation : Members(c)' = Members(c)
      /\ \A c \in Conversation, v \in User : Look(c, v)' = Look(c, v)
      /\ TombstonesMatch' /\ OneOwner' /\ ErasedIsRemoved' /\ NoRowsLeft' /\ AuthorityKnown'
  BY <1>1, <1>2, TablesStay
<1>6. Barrier'
  BY <1>1, <1>2 DEF MembersInv, Barrier
<1>7. SnapshotHolds'
  BY <1>1, <1>2, <1>3, <1>5 DEF MembersInv, SnapshotHolds
<1>8. IntentSees'
  BY <1>1, <1>2, <1>3, <1>5, IntentStays
<1> QED
  BY <1>4, <1>5, <1>6, <1>7, <1>8 DEF MembersInv

LEMMA LockErasedStep ==
    ASSUME MembersInv, NEW u \in User, LockErased(u)
    PROVE  MembersInv'
<1>1. /\ u \in live /\ UNCHANGED tableVars /\ stale' = stale /\ how' = how /\ seen' = seen
      /\ live' = live /\ exists' = exists /\ createdBy' = createdBy /\ role' = role /\ tombs' = tombs
      /\ estage' = [estage EXCEPT ![u] = "locked"] /\ estage[u] = "begun"
      /\ \A v \in User : estage[v] \notin {"locked", "read"}
  BY DEF LockErased, tableVars
<1>2. /\ estage' \in [User -> EraseStage] /\ estage'[u] = "locked"
      /\ \A v \in User : v # u => estage'[v] = estage[v]
  BY <1>1 DEF MembersInv, TypeOK, EraseStage
<1>3. TypeOK'
  BY <1>1, <1>2 DEF MembersInv, TypeOK
<1>4. how' \in [User -> Kinds \cup {"none"}]
  BY <1>1 DEF MembersInv, TypeOK
<1>5. /\ \A c \in Conversation, v \in User : Look(c, v)' = Look(c, v)
      /\ TombstonesMatch' /\ OneOwner' /\ ErasedIsRemoved' /\ NoRowsLeft' /\ AuthorityKnown'
  BY <1>1, <1>4, TablesStay
<1>6. Barrier'
  BY <1>1, <1>2 DEF MembersInv, Barrier
<1>7. SnapshotHolds'
  BY <1>1, <1>2, <1>5 DEF MembersInv, SnapshotHolds
<1>8. IntentSees'
  BY <1>1, <1>2 DEF IntentSees
<1> QED
  BY <1>3, <1>5, <1>6, <1>7, <1>8 DEF MembersInv

LEMMA ReadStep ==
    ASSUME MembersInv, NEW u \in User, ReadConversations(u)
    PROVE  MembersInv'
<1>1. /\ UNCHANGED tableVars /\ stale' = stale /\ how' = how
      /\ live' = live /\ exists' = exists /\ createdBy' = createdBy /\ role' = role /\ tombs' = tombs
      /\ estage' = [estage EXCEPT ![u] = "read"] /\ estage[u] = "locked"
  BY DEF ReadConversations, tableVars
<1>2. /\ estage' \in [User -> EraseStage] /\ estage'[u] = "read"
      /\ \A v \in User : v # u => estage'[v] = estage[v]
  BY <1>1 DEF MembersInv, TypeOK, EraseStage
<1>3. u \in live /\ how[u] \in {"delete", "intent"} /\ how' \in [User -> Kinds \cup {"none"}]
  BY <1>1 DEF MembersInv, Barrier, TypeOK
<1>4. /\ seen' \in [User -> [Conversation -> Sight]]
      /\ \A v \in User : v # u => seen'[v] = seen[v]
      /\ how[u] = "intent" => \A c \in Conversation : seen'[u][c] \in Look(c, u)
      /\ how[u] = "delete" => seen' = seen
  <2>1. TypeOK
    BY DEF MembersInv
  <2>2. CASE how[u] = "intent"
    BY <2>1, <2>2, SeeAllFacts DEF ReadConversations, Serializable
  <2>3. CASE how[u] = "delete"
    BY <2>1, <2>3 DEF ReadConversations, Serializable, TypeOK
  <2> QED
    BY <1>3, <2>2, <2>3
<1>5. TypeOK'
  BY <1>1, <1>2, <1>4 DEF MembersInv, TypeOK
<1>6. /\ ErasedBy("intent")' = ErasedBy("intent")
      /\ \A c \in Conversation : Members(c)' = Members(c)
      /\ \A c \in Conversation, v \in User : Look(c, v)' = Look(c, v)
      /\ TombstonesMatch' /\ OneOwner' /\ ErasedIsRemoved' /\ NoRowsLeft' /\ AuthorityKnown'
  BY <1>1, <1>3, TablesStay
<1>7. Barrier'
  BY <1>1, <1>2, <1>3 DEF MembersInv, Barrier
<1>8. SnapshotHolds'
  BY <1>1, <1>2, <1>4, <1>6 DEF MembersInv, SnapshotHolds
<1>9. IntentSees'
  <2> SUFFICES ASSUME NEW v \in User, estage'[v] = "read", how[v] = "intent"
               PROVE  /\ \A c \in Conversation :
                            {seen'[v][c].heir, seen'[v][c].owner} \cap (ErasedBy("intent") \cup {v}) = {}
                      /\ \A c \in exists :
                            /\ v \in Members(c) \/ createdBy[c] = v => seen'[v][c].listed
                            /\ createdBy[c] = v =>
                                  {seen'[v][c].heir, seen'[v][c].owner} \subseteq Members(c) \cup tombs[c] \cup {Nobody}
    <3>1. exists \subseteq Conversation
      BY DEF MembersInv, TypeOK
    <3> QED
      BY <1>1, <1>6, <3>1 DEF IntentSees
  <2>1. v = u
    BY <1>1, <1>2 DEF MembersInv, Barrier
  <2> SUFFICES ASSUME NEW c \in Conversation
               PROVE  /\ {seen'[u][c].heir, seen'[u][c].owner} \cap (ErasedBy("intent") \cup {u}) = {}
                      /\ c \in exists =>
                            /\ u \in Members(c) \/ createdBy[c] = u => seen'[u][c].listed
                            /\ {seen'[u][c].heir, seen'[u][c].owner} \subseteq Members(c) \cup {Nobody}
    <3>1. exists \subseteq Conversation
      BY DEF MembersInv, TypeOK
    <3> QED
      BY <2>1, <3>1
  <2>2. seen'[u][c] \in Look(c, u) /\ TypeOK
    BY <1>4, <2>1 DEF MembersInv
  <2>3. /\ seen'[u][c].heir \in (Members(c) \ {u}) \cup {Nobody}
        /\ seen'[u][c].owner \in (Owners(c) \ {u}) \cup {Nobody}
        /\ c \in exists /\ (u \in Members(c) \/ u \in tombs[c]) => seen'[u][c].listed
        /\ seen'[u][c].listed => c \in exists
        /\ ~seen'[u][c].listed => seen'[u][c] = Unseen
    BY <2>2, LookFacts DEF Look
  <2>4. Owners(c) \subseteq Members(c) /\ Nobody \notin ErasedBy("intent") \cup {u}
    BY DEF Owners, Members, ErasedBy
  <2>5. c \in exists => Members(c) \cap ErasedBy("intent") = {}
    BY DEF MembersInv, ErasedIsRemoved, RemovedEverywhere
  <2>6. c \in exists /\ createdBy[c] = u => u \in Members(c) \cup tombs[c]
    BY DEF MembersInv, AuthorityKnown
  <2>7. c \notin exists => seen'[u][c].heir = Nobody /\ seen'[u][c].owner = Nobody
    BY <2>3 DEF Unseen
  <2> QED
    BY <2>3, <2>4, <2>5, <2>6, <2>7
<1> QED
  BY <1>5, <1>6, <1>7, <1>8, <1>9 DEF MembersInv

LEMMA AbortEraseStep ==
    ASSUME MembersInv, NEW u \in User, AbortErase(u)
    PROVE  MembersInv'
<1>1. /\ UNCHANGED tableVars /\ stale' = stale \ {u} /\ how' = [how EXCEPT ![u] = "none"]
      /\ live' = live /\ exists' = exists /\ createdBy' = createdBy /\ role' = role /\ tombs' = tombs
      /\ estage' = [estage EXCEPT ![u] = "none"] /\ estage[u] # "none"
      /\ seen' = [seen EXCEPT ![u] = [c \in Conversation |-> Unseen]]
  BY DEF AbortErase, EndErase, tableVars
<1>2. Unseen \in Sight
  BY DEF Unseen, Sight, Role
<1>3. /\ estage' \in [User -> EraseStage] /\ how' \in [User -> Kinds \cup {"none"}]
      /\ seen' \in [User -> [Conversation -> Sight]] /\ stale' \subseteq User
      /\ estage'[u] = "none"
      /\ \A v \in User : v # u =>
            estage'[v] = estage[v] /\ how'[v] = how[v] /\ seen'[v] = seen[v] /\ (v \notin stale' => v \notin stale)
  BY <1>1, <1>2 DEF MembersInv, TypeOK, EraseStage
<1>4. TypeOK'
  BY <1>1, <1>3 DEF MembersInv, TypeOK
<1>5. u \in live
  BY <1>1 DEF MembersInv, Barrier
<1>6. /\ ErasedBy("intent")' = ErasedBy("intent")
      /\ \A c \in Conversation : Members(c)' = Members(c)
      /\ \A c \in Conversation, v \in User : Look(c, v)' = Look(c, v)
      /\ TombstonesMatch' /\ OneOwner' /\ ErasedIsRemoved' /\ NoRowsLeft' /\ AuthorityKnown'
  BY <1>1, <1>3, <1>5, TablesStay
<1>7. Barrier'
  BY <1>1, <1>3 DEF MembersInv, Barrier
<1>8. SnapshotHolds'
  BY <1>1, <1>3, <1>6 DEF MembersInv, SnapshotHolds
<1>9. IntentSees'
  BY <1>1, <1>3, <1>6, IntentStays
<1> QED
  BY <1>4, <1>6, <1>7, <1>8, <1>9 DEF MembersInv

(* Whom an erasure leaves a conversation to: another account that is or was *)
(* in the conversation and that no deletion intent has erased.              *)
LEMMA Succession ==
    ASSUME MembersInv, NEW u \in User, estage[u] = "read", Serializable(u) => u \notin stale,
           NEW c \in Inherited(u)
    PROVE  /\ c \in exists /\ c \in Conversation
           /\ NewAuthority(u, c) \in (Members(c) \cup tombs[c]) \ ({u} \cup ErasedBy("intent"))
           /\ NewAuthority(u, c) \in User
<1> DEFINE row == seen[u][c]
<1>1. c \in exists /\ row.listed /\ row.heir # Nobody /\ c \in Conversation
  BY DEF Inherited, Listed, Abandoned, MembersInv, TypeOK
<1>2. Members(c) \subseteq User /\ tombs[c] \subseteq User /\ Owners(c) \subseteq Members(c)
  BY <1>1 DEF Members, Owners, MembersInv, TypeOK
<1>3. createdBy[c] \in Members(c) \cup tombs[c] /\ createdBy[c] \notin ErasedBy("intent")
  BY <1>1 DEF MembersInv, AuthorityKnown, ErasedIsRemoved, RemovedEverywhere
<1>4. Members(c) \cap ErasedBy("intent") = {}
  BY <1>1 DEF MembersInv, ErasedIsRemoved, RemovedEverywhere
<1>5. createdBy[c] = u => {row.heir, row.owner} \subseteq
                             ((Members(c) \cup tombs[c]) \ ({u} \cup ErasedBy("intent"))) \cup {Nobody}
  <2>1. CASE how[u] = "delete"
    <3>1. row \in Look(c, u) /\ TypeOK
      BY <1>1, <2>1 DEF MembersInv, SnapshotHolds, Serializable
    <3>2. row.heir \in (Members(c) \ {u}) \cup {Nobody} /\ row.owner \in (Owners(c) \ {u}) \cup {Nobody}
      BY <1>1, <3>1, LookFacts
    <3> QED
      BY <1>2, <1>4, <3>2
  <2>2. CASE how[u] = "intent"
    BY <1>1, <2>2 DEF MembersInv, IntentSees
  <2> QED
    BY <2>1, <2>2 DEF MembersInv, Barrier
<1> QED
  BY <1>1, <1>2, <1>3, <1>5 DEF NewAuthority

LEMMA CommitEraseStep ==
    ASSUME MembersInv, NEW u \in User, CommitErase(u)
    PROVE  MembersInv'
<1> DEFINE A == Abandoned(u)
           I == Inherited(u)
           L == Listed(u)
<1>1. /\ estage[u] = "read" /\ (Serializable(u) => u \notin stale)
      /\ live' = live \ {u} /\ exists' = exists \ A /\ how' = how
      /\ createdBy' = [c \in Conversation |->
                          IF c \in A THEN Nobody ELSE IF c \in I THEN NewAuthority(u, c) ELSE createdBy[c]]
      /\ role' = [c \in Conversation |->
                      IF c \in A THEN NoRoles ELSE IF c \in I THEN RolesWithout(u, c) ELSE role[c]]
      /\ tombs' = [c \in Conversation |->
                      IF c \in A THEN {}
                      ELSE IF c \in I /\ seen[u][c].role # "none" THEN tombs[c] \cup {u} ELSE tombs[c]]
      /\ estage' = [estage EXCEPT ![u] = "none"]
      /\ seen' = [seen EXCEPT ![u] = [c \in Conversation |-> Unseen]]
      /\ stale' = (stale \ {u}) \cup {v \in User \ {u} : \E c \in L : seen[v][c].listed}
  BY DEF CommitErase, EndErase
<1>2. /\ L \subseteq exists /\ A \subseteq L /\ I = L \ A /\ exists \subseteq Conversation
      /\ \A c \in A : seen[u][c].listed /\ seen[u][c].heir = Nobody
      /\ \A c \in I : seen[u][c].listed /\ seen[u][c].heir # Nobody
  BY DEF Listed, Abandoned, Inherited, MembersInv, TypeOK
<1>3. \A c \in I :
         /\ NewAuthority(u, c) \in (Members(c) \cup tombs[c]) \ ({u} \cup ErasedBy("intent"))
         /\ NewAuthority(u, c) \in User
  BY <1>1, Succession
<1>4. /\ u \in live /\ how[u] \in {"delete", "intent"}
      /\ \A v \in User : estage[v] \in {"locked", "read"} => v = u
  BY <1>1 DEF MembersInv, Barrier
<1> HIDE DEF A, I, L
<1>5. /\ estage' \in [User -> EraseStage] /\ estage'[u] = "none"
      /\ seen' \in [User -> [Conversation -> Sight]]
      /\ \A v \in User : v # u => estage'[v] = estage[v] /\ seen'[v] = seen[v]
      /\ stale' \subseteq User /\ live' \subseteq User /\ exists' \subseteq Conversation
  <2>1. Unseen \in Sight /\ "none" \in EraseStage
    BY DEF Unseen, Sight, Role, EraseStage
  <2> QED
    BY <1>1, <1>2, <2>1 DEF MembersInv, TypeOK
<1>6. \A c \in Conversation, v \in User :
          /\ c \in A => role'[c][v] = "none"
          /\ c \in I => role'[c][v] = IF v = u THEN "none"
                                      ELSE IF v = seen[u][c].heir /\ PromoteSuccessor(u, c) /\ v \in Members(c)
                                      THEN "owner" ELSE role[c][v]
          /\ c \notin L => role'[c][v] = role[c][v]
  BY <1>1, <1>2 DEF NoRoles, RolesWithout
<1>7. /\ role' \in [Conversation -> [User -> Role]]
      /\ createdBy' \in [Conversation -> User \cup {Nobody}]
      /\ tombs' \in [Conversation -> SUBSET User]
  <2>1. \A c \in I : RolesWithout(u, c) \in [User -> Role]
    BY <1>2 DEF RolesWithout, Role, MembersInv, TypeOK
  <2>2. NoRoles \in [User -> Role]
    BY DEF NoRoles, Role
  <2> QED
    BY <1>1, <1>3, <2>1, <2>2 DEF MembersInv, TypeOK
<1>8. TypeOK'
  BY <1>1, <1>5, <1>7 DEF MembersInv, TypeOK
<1>9. \A c \in Conversation :
          /\ c \in A => Members(c)' = {} /\ tombs'[c] = {}
          /\ c \in I => /\ Members(c)' = Members(c) \ {u}
                        /\ tombs[c] \subseteq tombs'[c] /\ tombs'[c] \subseteq tombs[c] \cup {u}
                        /\ createdBy'[c] = NewAuthority(u, c)
          /\ c \notin L => /\ Members(c)' = Members(c) /\ Owners(c)' = Owners(c)
                           /\ tombs'[c] = tombs[c] /\ createdBy'[c] = createdBy[c] /\ role'[c] = role[c]
  BY <1>1, <1>2, <1>6 DEF Members, Owners
<1>10. ErasedBy("intent")' = ErasedBy("intent") \cup IF how[u] = "intent" THEN {u} ELSE {}
  BY <1>1, <1>4 DEF ErasedBy
<1>11. TombstonesMatch' /\ NoRowsLeft' /\ AuthorityKnown'
  <2>1. TombstonesMatch'
    BY <1>2, <1>9 DEF MembersInv, TombstonesMatch
  <2>2. NoRowsLeft'
    BY <1>1, <1>2, <1>9 DEF MembersInv, NoRowsLeft
  <2>3. ASSUME NEW c \in exists' PROVE createdBy'[c] \in Members(c)' \cup tombs'[c]
    <3>1. c \in exists /\ c \in Conversation /\ c \notin A
      BY <1>1, <1>2
    <3>2. CASE c \in I
      BY <1>3, <1>9, <3>1, <3>2
    <3>3. CASE c \notin I
      BY <1>2, <1>9, <3>1, <3>3 DEF MembersInv, AuthorityKnown
    <3> QED
      BY <3>2, <3>3
  <2> QED
    BY <2>1, <2>2, <2>3 DEF AuthorityKnown
<1>12. ErasedIsRemoved'
  <2> SUFFICES ASSUME NEW c \in exists'
               PROVE  Members(c)' \cap ErasedBy("intent")' = {} /\ createdBy'[c] \notin ErasedBy("intent")'
    BY DEF ErasedIsRemoved, RemovedEverywhere
  <2>1. c \in exists /\ c \in Conversation /\ c \notin A
    BY <1>1, <1>2
  <2>2. Members(c) \cap ErasedBy("intent") = {} /\ createdBy[c] \notin ErasedBy("intent")
    BY <2>1 DEF MembersInv, ErasedIsRemoved, RemovedEverywhere
  <2>3. CASE c \in I
    BY <1>3, <1>9, <1>10, <2>1, <2>2, <2>3
  <2>4. CASE c \notin I
    <3>1. c \notin L
      BY <1>2, <2>1, <2>4
    <3>2. how[u] = "intent" => u \notin Members(c) /\ createdBy[c] # u
      BY <1>1, <2>1, <3>1 DEF MembersInv, IntentSees, L, Listed
    <3> QED
      BY <1>9, <1>10, <2>1, <2>2, <3>1, <3>2
  <2> QED
    BY <2>3, <2>4
<1>13. OneOwner'
  <2> SUFFICES ASSUME ErasedBy("intent")' = {}, NEW c \in exists'
               PROVE  Owners(c)' = {createdBy'[c]}
    BY DEF OneOwner
  <2>1. how[u] = "delete" /\ ErasedBy("intent") = {}
    BY <1>4, <1>10
  <2>2. c \in exists /\ c \in Conversation /\ c \notin A
    BY <1>1, <1>2
  <2>3. Owners(c) = {createdBy[c]}
    BY <2>1, <2>2 DEF MembersInv, OneOwner
  <2>4. CASE c \in I
    <3> DEFINE row == seen[u][c]
    <3>1. row \in Look(c, u) /\ row.listed /\ row.heir # Nobody /\ TypeOK
      BY <1>1, <1>2, <2>1, <2>2, <2>4 DEF MembersInv, SnapshotHolds, Serializable
    <3>2. /\ row.heir \in Members(c) \ {u} /\ row.owner \in (Owners(c) \ {u}) \cup {Nobody}
          /\ row.role = role[c][u]
          /\ row.owner = Nobody => Owners(c) \subseteq {u}
      BY <2>2, <3>1, LookFacts
    <3>3. createdBy[c] \in User /\ role[c][createdBy[c]] = "owner"
      BY <2>3 DEF Owners
    <3>4. CASE createdBy[c] = u
      <4>1. row.owner = Nobody /\ PromoteSuccessor(u, c) /\ NewAuthority(u, c) = row.heir
        BY <2>3, <3>2, <3>3, <3>4 DEF PromoteSuccessor, NewAuthority
      <4>2. \A v \in User : v # u => role[c][v] # "owner"
        BY <2>3, <3>4 DEF Owners
      <4>3. row.heir \in User
        BY <3>2 DEF Members
      <4> QED
        BY <1>6, <1>9, <2>2, <2>4, <3>2, <4>1, <4>2, <4>3 DEF Owners
    <3>5. CASE createdBy[c] # u
      <4>1. row.owner # Nobody /\ row.role # "owner" /\ NewAuthority(u, c) = createdBy[c]
        BY <2>3, <3>2, <3>5 DEF Owners, NewAuthority
      <4>2. ~PromoteSuccessor(u, c)
        BY <4>1 DEF PromoteSuccessor
      <4> QED
        BY <1>6, <1>9, <2>2, <2>3, <2>4, <3>5, <4>1, <4>2 DEF Owners
    <3> QED
      BY <3>4, <3>5
  <2>5. CASE c \notin I
    BY <1>2, <1>9, <2>2, <2>3, <2>5
  <2> QED
    BY <2>4, <2>5
<1>14. Barrier'
  BY <1>1, <1>4, <1>5 DEF MembersInv, Barrier
<1>15. SnapshotHolds'
  <2> SUFFICES ASSUME NEW v \in User, estage'[v] # "none", how[v] = "delete", v \notin stale',
                      NEW d \in Conversation, seen'[v][d].listed
               PROVE  seen'[v][d] \in Look(d, v)'
    BY <1>1 DEF SnapshotHolds
  <2>1. v # u /\ seen'[v] = seen[v] /\ estage[v] # "none" /\ v \notin stale /\ d \notin L
    BY <1>1, <1>5
  <2>2. seen[v][d] \in Look(d, v)
    BY <2>1 DEF MembersInv, SnapshotHolds
  <2>3. (d \in exists' <=> d \in exists) /\ role'[d] = role[d] /\ tombs'[d] = tombs[d]
    BY <1>1, <1>2, <1>9, <2>1
  <2> QED
    BY <2>1, <2>2, <2>3, LookSame
<1>16. IntentSees'
  BY <1>4, <1>5 DEF IntentSees
<1> QED
  BY <1>8, <1>11, <1>12, <1>13, <1>14, <1>15, <1>16 DEF MembersInv

LEMMA MembersStep == MembersInv /\ [Next]_vars => MembersInv'
<1> SUFFICES ASSUME MembersInv, [Next]_vars PROVE MembersInv'
  OBVIOUS
<1>1. CASE UNCHANGED vars
  <2>1. /\ live' = live /\ exists' = exists /\ createdBy' = createdBy /\ role' = role /\ tombs' = tombs
        /\ estage' = estage /\ how' = how /\ seen' = seen /\ stale' = stale
    BY <1>1 DEF vars, tableVars, eraseVars
  <2>2. \A c \in Conversation : Members(c)' = Members(c) /\ Owners(c)' = Owners(c)
    BY <2>1 DEF Members, Owners
  <2>3. \A c \in Conversation, u \in User : Look(c, u)' = Look(c, u)
    BY <2>1, LookSame
  <2>4. ErasedBy("intent")' = ErasedBy("intent") /\ exists \subseteq Conversation
    BY <2>1 DEF ErasedBy, MembersInv, TypeOK
  <2>5. TypeOK' /\ TombstonesMatch' /\ Barrier' /\ NoRowsLeft' /\ AuthorityKnown'
    BY <2>1, <2>2, <2>4 DEF MembersInv, TypeOK, TombstonesMatch, Barrier, NoRowsLeft, AuthorityKnown
  <2>6. OneOwner' /\ ErasedIsRemoved'
    BY <2>1, <2>2, <2>4 DEF MembersInv, OneOwner, ErasedIsRemoved, RemovedEverywhere
  <2>7. SnapshotHolds'
    BY <2>1, <2>3 DEF MembersInv, SnapshotHolds
  <2>8. IntentSees'
    BY <2>1, <2>2, <2>4, IntentStays DEF tableVars
  <2> QED
    BY <2>5, <2>6, <2>7, <2>8 DEF MembersInv
<1> QED
  BY <1>1, CreateStep, JoinStep, DeleteConversationStep, AddStep, RemoveStep, TransferStep,
     BeginEraseStep, LockErasedStep, ReadStep, CommitEraseStep, AbortEraseStep DEF Next

LEMMA MembersInit == Init => MembersInv
<1> SUFFICES ASSUME Init PROVE MembersInv
  OBVIOUS
<1>1. Unseen \in Sight /\ NoRoles \in [User -> Role]
  BY DEF Unseen, Sight, NoRoles, Role
<1>2. TypeOK
  BY <1>1 DEF Init, TypeOK, EraseStage
<1>3. TombstonesMatch /\ OneOwner /\ ErasedIsRemoved /\ Barrier /\ NoRowsLeft /\ AuthorityKnown
  BY DEF Init, TombstonesMatch, OneOwner, ErasedIsRemoved, RemovedEverywhere, Barrier, NoRowsLeft, AuthorityKnown
<1>4. SnapshotHolds /\ IntentSees
  BY DEF Init, SnapshotHolds, IntentSees
<1> QED
  BY <1>2, <1>3, <1>4 DEF MembersInv

(* The inductive invariant holds throughout. *)
THEOREM MembersInvariance == SafetySpec => []MembersInv
<1>1. Init => MembersInv
  BY MembersInit
<1>2. MembersInv /\ [Next]_vars => MembersInv'
  BY MembersStep
<1> QED
  BY <1>1, <1>2, PTL DEF SafetySpec

(* Nobody is listed as present and departed, by whichever of the paths they *)
(* come and go (conversation_member_tombstones).                            *)
THEOREM NobodyIsBothHereAndGone == SafetySpec => []MembersWellFormed
<1>1. MembersInv => MembersWellFormed
  BY DEF MembersInv, MembersWellFormed
<1> QED
  BY <1>1, MembersInvariance, PTL

(* A conversation has exactly one owner, created_by, through transfers,     *)
(* removals and any number of erasures by DeleteAccount.                    *)
THEOREM ExactlyOneOwner == SafetySpec => []OneOwner
<1>1. MembersInv => OneOwner
  BY DEF MembersInv
<1> QED
  BY <1>1, MembersInvariance, PTL

(* Whom a deletion intent erased is in no conversation and owns none, next  *)
(* to erasures of either kind (ExecuteAccountDeletionIntent).               *)
THEOREM IntentRemovesEverywhere == SafetySpec => []ErasedIsRemoved
<1>1. MembersInv => ErasedIsRemoved
  BY DEF MembersInv
<1> QED
  BY <1>1, MembersInvariance, PTL

(* DeleteAccount deletes no conversation that somebody else is in. *)
THEOREM HistoryStays == SafetySpec => SharedHistoryStays
<1> DEFINE Stays == \A c \in exists \ exists' : \A u \in live \ live' :
                        how[u] = "delete" => Members(c) \subseteq {u}
<1>1. MembersInv /\ [Next]_vars => [Stays]_vars
  <2> SUFFICES ASSUME MembersInv, Next, NEW c \in exists \ exists', NEW u \in live \ live', how[u] = "delete"
               PROVE  Members(c) \subseteq {u}
    OBVIOUS
  <2>1. u \in User /\ c \in Conversation
    BY DEF MembersInv, TypeOK
  <2>2. CASE CommitErase(u)
    <3>1. estage[u] = "read" /\ u \notin stale /\ c \in Abandoned(u)
      BY <2>2 DEF CommitErase, Serializable
    <3>2. seen[u][c].listed /\ seen[u][c].heir = Nobody
      BY <3>1 DEF Abandoned, Listed
    <3>3. seen[u][c] \in Look(c, u) /\ TypeOK
      BY <2>1, <3>1, <3>2 DEF MembersInv, SnapshotHolds
    <3> QED
      BY <2>1, <3>2, <3>3, LookFacts
  <2>3. ASSUME NEW v \in User, CommitErase(v) PROVE v = u
    BY <2>3 DEF CommitErase
  <2>4. CASE live' = live
    BY <2>4
  <2>5. live' = live \/ \E v \in User : CommitErase(v)
    <3>1. ASSUME NEW d \in Conversation, NEW v \in User,
                 \/ \E S \in SUBSET User : CreateConversation(d, v, S)
                 \/ \E byLink \in BOOLEAN : Join(d, v, byLink)
                 \/ DeleteConversation(d, v)
          PROVE  live' = live
      BY <3>1 DEF CreateConversation, Join, DeleteConversation
    <3>2. ASSUME NEW d \in Conversation, NEW v \in User, NEW w \in User,
                 \/ \E r \in Role : AddConversationMember(d, v, w, r)
                 \/ RemoveConversationMember(d, v, w)
                 \/ TransferConversationOwnership(d, v, w)
          PROVE  live' = live
      BY <3>2 DEF AddConversationMember, RemoveConversationMember, TransferConversationOwnership
    <3>3. ASSUME NEW v \in User,
                 \/ \E kind \in Kinds : BeginErase(v, kind)
                 \/ LockErased(v) \/ ReadConversations(v) \/ AbortErase(v)
          PROVE  live' = live
      BY <3>3 DEF BeginErase, LockErased, ReadConversations, AbortErase, tableVars
    <3> QED
      BY <3>1, <3>2, <3>3 DEF Next
  <2> QED
    BY <2>2, <2>3, <2>4, <2>5
<1> QED
  BY <1>1, MembersInvariance, PTL DEF SafetySpec, SharedHistoryStays
=============================================================================
