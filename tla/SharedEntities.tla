--------------------------- MODULE SharedEntities ---------------------------
(***************************************************************************)
(* The versioned entities of one conversation in the PostgreSQL store: a   *)
(* chore, and the feed items that its rotations leave.  Writers name the   *)
(* version they have seen.  A put shares the conversation's row with other *)
(* puts, so two of them meet at the entity's row: the first evaluates its  *)
(* conditions on the snapshot of its statement and again on the row it     *)
(* waited for.  Deletion, rotation, membership and erasure have the        *)
(* conversation's row to themselves.  A rotation is remembered under the   *)
(* client's operation id, and forgotten after ninety days.                 *)
(*                                                                         *)
(* A chore's payload names one participant; erasure keeps the id and       *)
(* redacts the name.  Feed items are entities whose payload does not       *)
(* matter here: their participants are not validated.  The erasure is that *)
(* of a deletion intent, which is read committed.                          *)
(***************************************************************************)
EXTENDS Naturals

CONSTANTS
    User,
    Owner,       \* who admits and removes the others
    Nobody,      \* what erasure leaves of a name
    Chore,       \* the id of the conversation's chore
    Operation,   \* operation ids, which are the ids of feed items too
    Request,     \* mutations that are under way at a time
    Conv,        \* the conversation's row, as a thing to lock
    MaxVersion   \* [Entity -> Nat]: bound on the versions of an entity

ASSUME EntityAssumption ==
    /\ Owner \in User
    /\ Nobody \notin User
    /\ Chore \notin Operation
    /\ Conv \notin User
    /\ MaxVersion \in [{Chore} \cup Operation -> Nat \ {0}]

Entity == {Chore} \cup Operation

VARIABLES
    live,        \* users.deleted_at IS NULL
    members,     \* conversation_members
    version,     \* [Entity -> Nat]: entities.version, 0 when there is no row
    deleted,     \* SUBSET Entity: entities.deleted_at IS NOT NULL
    named,       \* the participant the chore's payload names
    rotations,   \* [Operation -> Rotation]: chore_rotation_operations
    answers,     \* [Operation -> the chore versions the server answered]
    basis,       \* [Entity -> Nat]: the version its last writer had seen
    rotated,     \* [Operation -> Nat]: how often it moved the chore on
    stage,       \* [Request -> Stage]
    op,          \* [Request -> what the request is to do]
    held         \* [Request -> SUBSET Lockable]: its row locks

entityVars == <<version, deleted, named, basis>>
rotationVars == <<rotations, answers, rotated>>
memberVars == <<live, members>>
requestVars == <<stage, op, held>>
vars == <<entityVars, rotationVars, memberVars, requestVars>>

Lockable == User \cup {Conv}
Stage == {"idle", "locking", "checked"}

NoOp == [kind |-> "none"]
Put(e, u, w, v) == [kind |-> "put", users |-> {u}, by |-> u, entity |-> e, names |-> w, expected |-> v]
Delete(e, u, v) == [kind |-> "delete", users |-> {u}, by |-> u, entity |-> e, expected |-> v]
Rotate(x, u, w, v) == [kind |-> "rotate", users |-> {u}, by |-> u, id |-> x, names |-> w, expected |-> v]
MemberOp(kind, u, S) == [kind |-> kind, users |-> S, user |-> u]

(* A stored operation: who asked for what, and the chore it answered with. *)
NoRotation == [version |-> 0]
Rotation ==
    {NoRotation} \cup
    [actor : User, expected : Nat, wanted : User, version : Nat, named : User \cup {Nobody}]

(* Versions stay within the bound and locks belong to requests under way;   *)
(* the rest keeps the types of its columns.                                 *)
TypeOK ==
    /\ live \subseteq User
    /\ members \subseteq live
    /\ \A e \in Entity : version[e] \in 0..MaxVersion[e]
    /\ deleted \subseteq {e \in Entity : version[e] # 0}
    /\ named \in User \cup {Nobody}
    /\ \A x \in Operation : rotations[x] = NoRotation \/ rotations[x].actor \in User
    /\ answers \in [Operation -> SUBSET (1..MaxVersion[Chore])]
    /\ basis \in [Entity -> Nat]
    /\ rotated \in [Operation -> Nat]
    /\ stage \in [Request -> Stage]
    /\ held \in [Request -> SUBSET Lockable]
    /\ \A r \in Request : stage[r] = "idle" <=> op[r] = NoOp
    /\ \A r \in Request : stage[r] = "idle" => held[r] = {}

Init ==
    /\ live = User
    /\ members = User
    /\ version = [e \in Entity |-> 0]
    /\ deleted = {}
    /\ named = Nobody
    /\ rotations = [x \in Operation |-> NoRotation]
    /\ answers = [x \in Operation |-> {}]
    /\ basis = [e \in Entity |-> 0]
    /\ rotated = [x \in Operation |-> 0]
    /\ stage = [r \in Request |-> "idle"]
    /\ op = [r \in Request |-> NoOp]
    /\ held = [r \in Request |-> {}]

(***************************************************************************)
(* A request: what is asked for, and the locks.                            *)
(***************************************************************************)

Begin(r, o) ==
    /\ stage[r] = "idle"
    /\ stage' = [stage EXCEPT ![r] = "locking"]
    /\ op' = [op EXCEPT ![r] = o]
    /\ UNCHANGED <<entityVars, rotationVars, memberVars, held>>

(* putEntity and deleteEntity require expected_version. *)
BeginPut(r, e, u, w, v) == Begin(r, Put(e, u, w, v))
BeginDelete(r, e, u, v) == Begin(r, Delete(e, u, v))

(* rotateChore: the canonical request is hashed, so that a replay is one    *)
(* with the same expected version and payload.                              *)
BeginRotate(r, x, u, w, v) == v >= 1 /\ Begin(r, Rotate(x, u, w, v))

(* Admission and removal by the owner, and erasure.  Admitting a member     *)
(* again changes a role.                                                    *)
BeginMemberOp(r, kind, u) ==
    /\ u # Owner
    /\ kind = "add" <=> u \notin members
    /\ Begin(r, MemberOp(kind, u, IF kind = "erase" THEN {u} ELSE {u, Owner}))

End(r) ==
    /\ stage' = [stage EXCEPT ![r] = "idle"]
    /\ op' = [op EXCEPT ![r] = NoOp]
    /\ held' = [held EXCEPT ![r] = {}]

(* Faulty variant: PutEntity reads the conversation without FOR SHARE. *)
FreeForPut(r, x) ==
    \/ x = Conv /\ op[r].kind = "put"
    \/ \A q \in Request \ {r} : x \notin held[q]

(* FOR SHARE for a put, FOR UPDATE for everything else. *)
Free(r, x) ==
    \A q \in Request \ {r} :
        x \in held[q] => x = Conv /\ op[r].kind = "put" /\ op[q].kind = "put"

(* The users' rows before the conversation's. *)
Lock(r, x) ==
    /\ stage[r] = "locking"
    /\ x \in (op[r].users \cup {Conv}) \ held[r]
    /\ x = Conv => op[r].users \subseteq held[r]
    /\ x # Conv => x \in live
    /\ Free(r, x)
    /\ held' = [held EXCEPT ![r] = @ \cup {x}]
    /\ UNCHANGED <<entityVars, rotationVars, memberVars, stage, op>>

Locked(r, kind) == stage[r] = "locking" /\ op[r].kind = kind /\ Conv \in held[r]

(***************************************************************************)
(* PutEntity.                                                              *)
(***************************************************************************)

(* requireMember, ValidateEntityParticipants, and the snapshot of the       *)
(* upsert: version 0 creates.                                               *)
CheckPut(r) ==
    /\ Locked(r, "put")
    /\ op[r].by \in members
    /\ op[r].entity = Chore => op[r].names \in members
    /\ op[r].expected \in {0, version[op[r].entity]}
    /\ stage' = [stage EXCEPT ![r] = "checked"]
    /\ UNCHANGED <<entityVars, rotationVars, memberVars, op, held>>

(* Faulty variant: ON CONFLICT DO UPDATE without its WHERE. *)
AnyVersion(e, v) == TRUE

(* ON CONFLICT DO UPDATE ... WHERE version=expected, on the latest row. *)
StillVersion(e, v) == version[e] = v

(* The row, waited for if another put is writing it, and the commit. *)
PutEntity(r) ==
    LET o == op[r] IN
    /\ stage[r] = "checked"
    /\ StillVersion(o.entity, o.expected)
    /\ version[o.entity] < MaxVersion[o.entity]
    /\ version' = [version EXCEPT ![o.entity] = @ + 1]
    /\ deleted' = deleted \ {o.entity}
    /\ named' = IF o.entity = Chore THEN o.names ELSE named
    /\ basis' = [basis EXCEPT ![o.entity] = o.expected]
    /\ End(r)
    /\ UNCHANGED <<rotationVars, memberVars>>

(***************************************************************************)
(* DeleteEntity and RotateChore, behind the exclusive lock.                *)
(***************************************************************************)

DeleteEntity(r) ==
    LET o == op[r] IN
    /\ Locked(r, "delete")
    /\ o.by \in members
    /\ version[o.entity] # 0 /\ o.entity \notin deleted
    /\ version[o.entity] = o.expected
    /\ version[o.entity] < MaxVersion[o.entity]
    /\ version' = [version EXCEPT ![o.entity] = @ + 1]
    /\ deleted' = deleted \cup {o.entity}
    /\ basis' = [basis EXCEPT ![o.entity] = o.expected]
    /\ End(r)
    /\ UNCHANGED <<named, rotationVars, memberVars>>

(* The answer, whether or not the client hears it. *)
Answer(x, v) == answers' = [answers EXCEPT ![x] = @ \cup {v}]

SameRequest(row, o) ==
    row.actor = o.by /\ row.expected = o.expected /\ row.wanted = o.names

(* A known operation answers with its stored result, or ErrConflict. *)
ReplayRotation(r) ==
    /\ Locked(r, "rotate")
    /\ op[r].by \in members
    /\ rotations[op[r].id] # NoRotation
    /\ SameRequest(rotations[op[r].id], op[r])
    /\ Answer(op[r].id, rotations[op[r].id].version)
    /\ End(r)
    /\ UNCHANGED <<entityVars, rotations, rotated, memberVars>>

(* Faulty variant: the feed item is inserted ON CONFLICT DO NOTHING. *)
FeedItemAny(x) == TRUE

(* The feed item has the operation's id; its row outlives the operation's. *)
FeedItemFree(x) == version[x] = 0

RotateChore(r) ==
    LET o == op[r] IN
    /\ Locked(r, "rotate")
    /\ o.by \in members
    /\ rotations[o.id] = NoRotation
    /\ version[Chore] # 0 /\ Chore \notin deleted
    /\ version[Chore] = o.expected
    /\ o.names \in members
    /\ FeedItemFree(o.id)
    /\ version[Chore] < MaxVersion[Chore]
    /\ version' = [version EXCEPT ![Chore] = @ + 1, ![o.id] = 1]
    /\ named' = o.names
    /\ rotations' = [rotations EXCEPT ![o.id] =
          [actor |-> o.by, expected |-> o.expected, wanted |-> o.names,
           version |-> version[Chore] + 1, named |-> o.names]]
    /\ rotated' = [rotated EXCEPT ![o.id] = @ + 1]
    /\ Answer(o.id, version[Chore] + 1)
    /\ basis' = [basis EXCEPT ![Chore] = o.expected, ![o.id] = 0]
    /\ End(r)
    /\ UNCHANGED <<deleted, memberVars>>

(* RunRotationCleanup, once the ninety days are over. *)
PruneChoreRotationOperations(x) ==
    /\ rotations[x] # NoRotation
    /\ rotations' = [rotations EXCEPT ![x] = NoRotation]
    /\ UNCHANGED <<entityVars, answers, rotated, memberVars, requestVars>>

(***************************************************************************)
(* Members and erasure.                                                    *)
(***************************************************************************)

AddMember(r) ==
    /\ Locked(r, "add")
    /\ members' = members \cup {op[r].user}
    /\ End(r)
    /\ UNCHANGED <<entityVars, rotationVars, live>>

RemoveMember(r) ==
    /\ Locked(r, "remove")
    /\ members' = members \ {op[r].user}
    /\ End(r)
    /\ UNCHANGED <<entityVars, rotationVars, live>>

(* Faulty variant: the stored results keep the name. *)
ResultsKept(u) == rotations

(* "Those response snapshots are externally replayable". *)
ResultsWithout(u) ==
    [x \in Operation |->
        IF rotations[x] # NoRotation /\ rotations[x].named = u
          THEN [rotations[x] EXCEPT !.named = Nobody] ELSE rotations[x]]

(* A payload that names the account is rewritten under a new version. *)
DeleteAccount(r) ==
    LET u == op[r].user
        rewrite == named = u
    IN
    /\ Locked(r, "erase")
    /\ rewrite => version[Chore] < MaxVersion[Chore]
    /\ live' = live \ {u}
    /\ members' = members \ {u}
    /\ named' = IF rewrite THEN Nobody ELSE named
    /\ version' = [version EXCEPT ![Chore] = IF rewrite THEN @ + 1 ELSE @]
    /\ basis' = [basis EXCEPT ![Chore] = IF rewrite THEN version[Chore] ELSE @]
    /\ rotations' = ResultsWithout(u)
    /\ End(r)
    /\ UNCHANGED <<deleted, answers, rotated>>

(* ErrNotFound, ErrForbidden, ErrInvalid, ErrConflict, a lost connection. *)
Abort(r) ==
    /\ stage[r] # "idle"
    /\ End(r)
    /\ UNCHANGED <<entityVars, rotationVars, memberVars>>

(***************************************************************************)
(* The specification.                                                      *)
(***************************************************************************)

(* A client starts from what it has seen, or retries what it asked for; it  *)
(* is behind by the time its request has the locks.                         *)
RetriedVersions(x) ==
    {version[Chore]} \cup IF rotations[x] = NoRotation THEN {} ELSE {rotations[x].expected}

Next ==
    \/ \E r \in Request :
          \/ \E u \in User, e \in Entity :
                \/ \E w \in IF e = Chore THEN User ELSE {u} : BeginPut(r, e, u, w, version[e])
                \/ BeginDelete(r, e, u, version[e])
          \/ \E u \in User, w \in User, x \in Operation : \E v \in RetriedVersions(x) :
                BeginRotate(r, x, u, w, v)
          \/ \E u \in User, kind \in {"add", "remove", "erase"} : BeginMemberOp(r, kind, u)
          \/ \E x \in Lockable : Lock(r, x)
          \/ CheckPut(r) \/ PutEntity(r) \/ DeleteEntity(r)
          \/ ReplayRotation(r) \/ RotateChore(r)
          \/ AddMember(r) \/ RemoveMember(r) \/ DeleteAccount(r)
          \/ Abort(r)
    \/ \E x \in Operation : PruneChoreRotationOperations(x)

Spec == Init /\ [][Next]_vars

(***************************************************************************)
(* Properties.                                                             *)
(***************************************************************************)

(* "expected_version ... must match the current entity version"             *)
(* (entity_handlers.go): whoever wrote version v had seen version v - 1, so  *)
(* no accepted write is overwritten unseen, although two puts evaluate       *)
(* their condition on the same snapshot.                                    *)
NoLostUpdate ==
    \A e \in Entity : version[e] # 0 => version[e] = basis[e] + 1

(* The tables are well formed: types, locks, and versions that their         *)
(* writers had seen the one before of.                                       *)
EntitiesWellFormed == TypeOK /\ NoLostUpdate

(* An operation id moves the chore on at most once, whichever retries,      *)
(* other requests under the same id, deletions of its feed item and         *)
(* clean-ups happen: "binds an operation ID to exactly one actor and        *)
(* mutation" (store.go), and the feed item's row binds it for good.         *)
(* "Identical operation replays return the durable original result"         *)
(* (openapi.yaml): all answers to it name one version of the chore,         *)
(* whatever became of the chore since.                                      *)
RotationOnce ==
    \A x \in Operation : rotated[x] <= 1 /\ \A v, w \in answers[x] : v = w

(* An erased account is named neither in the chore nor in a result that a   *)
(* replay would return, although puts that name it were under way.          *)
ErasedNotNamed ==
    \A u \in User \ live :
        named # u /\ \A x \in Operation : rotations[x] # NoRotation => rotations[x].named # u

(* What commits, and what is answered, could have come from the in-memory   *)
(* store's atomic operations.  So whoever changes an entity is a member at   *)
(* that moment, and so is whom the new payload of a chore names: "a removal  *)
(* that owns the lock first commits before this membership recheck"          *)
(* (postgres.go).                                                            *)
Memory == INSTANCE MemoryEntities WITH gone <- User \ live
ImplementsMemoryEntities == Memory!Spec
=============================================================================
