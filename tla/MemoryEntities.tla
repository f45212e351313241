--------------------------- MODULE MemoryEntities ---------------------------
(***************************************************************************)
(* The versioned entities of one conversation and its chore rotations as   *)
(* the in-memory store keeps them: every operation is one critical section *)
(* of the store's mutex.  It is the specification the PostgreSQL store of  *)
(* SharedEntities implements.                                              *)
(***************************************************************************)
EXTENDS Naturals

CONSTANTS
    User,
    Nobody,      \* what erasure leaves of a name
    Chore,       \* the id of the conversation's chore
    Operation    \* operation ids, which are the ids of feed items too

Entity == {Chore} \cup Operation

VARIABLES
    version,     \* [Entity -> Nat]: 0 when there is none
    deleted,     \* SUBSET Entity: those with deleted_at
    basis,       \* [Entity -> Nat]: the version its last writer had seen
    named,       \* the participant the chore's payload names, with their personal data
    rotations,   \* [Operation -> Rotation \cup {NoRotation}]: s.choreRotations
    answers,     \* [Operation -> the chore versions the server answered]
    members,     \* s.members
    gone         \* erased accounts

vars == <<version, deleted, basis, named, rotations, answers, members, gone>>

(* A stored operation: who asked for what, and the chore it answered with. *)
Rotation == [actor : User, expected : Nat, wanted : User, version : Nat, named : User \cup {Nobody}]
NoRotation == [version |-> 0]

Init ==
    /\ version = [e \in Entity |-> 0]
    /\ deleted = {}
    /\ basis = [e \in Entity |-> 0]
    /\ named = Nobody
    /\ rotations = [x \in Operation |-> NoRotation]
    /\ answers = [x \in Operation |-> {}]
    /\ members = User
    /\ gone = {}

(* Participants are validated in chores, not in feed items. *)
PutEntity(e, u, w, expected) ==
    /\ u \in members
    /\ e = Chore => w \in members
    /\ version[e] = expected
    /\ version' = [version EXCEPT ![e] = @ + 1]
    /\ deleted' = deleted \ {e}
    /\ basis' = [basis EXCEPT ![e] = expected]
    /\ named' = IF e = Chore THEN w ELSE named
    /\ UNCHANGED <<rotations, answers, members, gone>>

(* A deleted entity can be deleted again. *)
DeleteEntity(e, u, expected) ==
    /\ u \in members
    /\ version[e] # 0
    /\ version[e] = expected
    /\ version' = [version EXCEPT ![e] = @ + 1]
    /\ deleted' = deleted \cup {e}
    /\ basis' = [basis EXCEPT ![e] = expected]
    /\ UNCHANGED <<named, rotations, answers, members, gone>>

Answer(x, v) == answers' = [answers EXCEPT ![x] = @ \cup {v}]

ReplayRotation(x, u, w, expected) ==
    /\ u \in members
    /\ rotations[x] # NoRotation
    /\ <<rotations[x].actor, rotations[x].expected, rotations[x].wanted>> = <<u, expected, w>>
    /\ Answer(x, rotations[x].version)
    /\ UNCHANGED <<version, deleted, basis, named, rotations, members, gone>>

RotateChore(x, u, w, expected) ==
    /\ u \in members
    /\ rotations[x] = NoRotation
    /\ version[Chore] # 0 /\ Chore \notin deleted
    /\ version[Chore] = expected
    /\ w \in members
    /\ version[x] = 0
    /\ version' = [version EXCEPT ![Chore] = @ + 1, ![x] = 1]
    /\ basis' = [basis EXCEPT ![Chore] = expected, ![x] = 0]
    /\ named' = w
    /\ rotations' = [rotations EXCEPT ![x] =
          [actor |-> u, expected |-> expected, wanted |-> w, version |-> expected + 1, named |-> w]]
    /\ Answer(x, expected + 1)
    /\ UNCHANGED <<deleted, members, gone>>

(* After ninety days. *)
PruneChoreRotationOperations(x) ==
    /\ rotations' = [rotations EXCEPT ![x] = NoRotation]
    /\ UNCHANGED <<version, deleted, basis, named, answers, members, gone>>

AddMember(u) ==
    /\ u \notin gone
    /\ members' = members \cup {u}
    /\ UNCHANGED <<version, deleted, basis, named, rotations, answers, gone>>

RemoveMember(u) ==
    /\ members' = members \ {u}
    /\ UNCHANGED <<version, deleted, basis, named, rotations, answers, gone>>

(* Payloads that name the account get a new version, stored results do not. *)
DeleteAccount(u) ==
    /\ gone' = gone \cup {u}
    /\ members' = members \ {u}
    /\ named' = IF named = u THEN Nobody ELSE named
    /\ version' = [version EXCEPT ![Chore] = IF named = u THEN @ + 1 ELSE @]
    /\ basis' = [basis EXCEPT ![Chore] = IF named = u THEN version[Chore] ELSE @]
    /\ rotations' = [x \in Operation |->
          IF rotations[x] # NoRotation /\ rotations[x].named = u
            THEN [rotations[x] EXCEPT !.named = Nobody] ELSE rotations[x]]
    /\ UNCHANGED <<deleted, answers>>

Next ==
    \/ \E u \in User, w \in User :
          \/ \E e \in Entity : PutEntity(e, u, w, version[e])
          \/ \E x \in Operation :
                \/ RotateChore(x, u, w, version[Chore])
                \/ rotations[x] # NoRotation /\ ReplayRotation(x, u, w, rotations[x].expected)
    \/ \E u \in User :
          \/ \E e \in Entity : DeleteEntity(e, u, version[e])
          \/ AddMember(u) \/ RemoveMember(u) \/ DeleteAccount(u)
    \/ \E x \in Operation : PruneChoreRotationOperations(x)

Spec == Init /\ [][Next]_vars
=============================================================================
