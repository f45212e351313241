------------------------ MODULE SharedEntitiesProofs ------------------------
(***************************************************************************)
(* Proofs about SharedEntities for any number of accounts, operations and  *)
(* concurrent requests, and any bound on versions.                         *)
(*                                                                         *)
(* The inductive invariant has two halves.  One says what the row locks    *)
(* are worth: no two requests hold the same row, except puts the           *)
(* conversation's, so what a put checked about members is still true when  *)
(* it writes.  The other ties a rotation's three traces together: the      *)
(* stored operation, the feed item of the same id, and the answers given.  *)
(***************************************************************************)
EXTENDS SharedEntities, TLAPS

(* The requests there are. *)
Ops ==
    {NoOp}
    \cup [kind : {"put"}, users : SUBSET User, by : User, entity : Entity, names : User, expected : Nat]
    \cup [kind : {"delete"}, users : SUBSET User, by : User, entity : Entity, expected : Nat]
    \cup [kind : {"rotate"}, users : SUBSET User, by : User, id : Operation, names : User, expected : Nat]
    \cup [kind : {"add", "remove", "erase"}, users : SUBSET User, user : User]

TableTypes ==
    /\ version \in [Entity -> Nat]
    /\ rotations \in [Operation -> Rotation]
    /\ \A x \in Operation :
          rotations[x] # NoRotation => rotations[x].version \in 1..MaxVersion[Chore]
    /\ op \in [Request -> Ops]

(* Locks are asked for by the request, users first, and are held by one. *)
LocksInOrder ==
    /\ \A r \in Request :
          /\ op[r].kind \in {"add", "remove", "erase"} => op[r].user \in op[r].users
          /\ Conv \in held[r] => op[r] # NoOp /\ op[r].users \subseteq held[r]
          /\ held[r] \cap User \subseteq live
    /\ \A r, q \in Request : r # q =>
          \A x \in held[r] \cap held[q] : x = Conv /\ op[r].kind = "put" /\ op[q].kind = "put"

(* What a put has checked holds until it writes. *)
ChecksHold ==
    \A r \in Request : stage[r] = "checked" =>
        /\ op[r].kind = "put" /\ Conv \in held[r]
        /\ op[r].by \in members
        /\ op[r].entity = Chore => op[r].names \in members

(* The traces of an operation agree. *)
TracesAgree ==
    \A x \in Operation :
        /\ rotated[x] <= 1
        /\ \A v, w \in answers[x] : v = w
        /\ rotations[x] # NoRotation => answers[x] \subseteq {rotations[x].version}
        /\ version[x] = 0 => rotated[x] = 0 /\ answers[x] = {} /\ rotations[x] = NoRotation

EntitiesInv ==
    /\ TypeOK /\ TableTypes /\ LocksInOrder /\ ChecksHold
    /\ NoLostUpdate /\ TracesAgree /\ ErasedNotNamed

USE EntityAssumption

(* The steps that only move the request itself. *)
LEMMA BeginTypes ==
    /\ \A e \in Entity, u \in User, w \in User, v \in Nat : Put(e, u, w, v) \in Ops \ {NoOp}
    /\ \A e \in Entity, u \in User, v \in Nat : Delete(e, u, v) \in Ops \ {NoOp}
    /\ \A x \in Operation, u \in User, w \in User, v \in Nat : Rotate(x, u, w, v) \in Ops \ {NoOp}
    /\ \A kind \in {"add", "remove", "erase"}, u \in User, S \in SUBSET User :
          MemberOp(kind, u, S) \in Ops \ {NoOp}
BY DEF Ops, NoOp, Put, Delete, Rotate, MemberOp

(* Every record of Ops of a given kind has that kind's fields. *)
LEMMA OpFields ==
    ASSUME NEW o \in Ops
    PROVE  /\ o.kind = "put" => o.users \in SUBSET User /\ o.by \in User /\ o.entity \in Entity
                                /\ o.names \in User /\ o.expected \in Nat
           /\ o.kind = "delete" => o.users \in SUBSET User /\ o.by \in User
                                   /\ o.entity \in Entity /\ o.expected \in Nat
           /\ o.kind = "rotate" => o.users \in SUBSET User /\ o.by \in User /\ o.id \in Operation
                                   /\ o.names \in User /\ o.expected \in Nat
           /\ o.kind \in {"add", "remove", "erase"} => o.users \in SUBSET User /\ o.user \in User
           /\ o.kind \in {"put", "delete", "rotate", "add", "remove", "erase"} => o # NoOp
           /\ o # NoOp => o.users \in SUBSET User
BY DEF Ops, NoOp

(* Whoever has the conversation's row to itself meets no put that has       *)
(* checked, and shares none of its accounts with another request.           *)
LEMMA HasItAlone ==
    ASSUME EntitiesInv, NEW r \in Request, Conv \in held[r], op[r].kind # "put"
    PROVE  \A q \in Request \ {r} : stage[q] # "checked" /\ op[r].users \cap held[q] = {}
BY DEF EntitiesInv, LocksInOrder, ChecksHold, Ops

(* A request that ends leaves the other requests as they were. *)
LEMMA RequestEnds ==
    ASSUME EntitiesInv, NEW r \in Request, End(r),
           \A q \in Request \ {r} : held[q] \cap User \subseteq live',
           \A q \in Request \ {r} : stage[q] = "checked" =>
               op[q].by \in members' /\ (op[q].entity = Chore => op[q].names \in members')
    PROVE  /\ stage' \in [Request -> Stage]
           /\ held' \in [Request -> SUBSET Lockable]
           /\ op' \in [Request -> Ops]
           /\ \A q \in Request : stage'[q] = "idle" <=> op'[q] = NoOp
           /\ \A q \in Request : stage'[q] = "idle" => held'[q] = {}
           /\ LocksInOrder'
           /\ ChecksHold'
<1>1. NoOp \in Ops /\ "idle" \in Stage
  BY DEF Ops, Stage
<1>2. /\ stage' \in [Request -> Stage]
      /\ held' \in [Request -> SUBSET Lockable]
      /\ op' \in [Request -> Ops]
      /\ \A q \in Request : stage'[q] = "idle" <=> op'[q] = NoOp
      /\ \A q \in Request : stage'[q] = "idle" => held'[q] = {}
  BY <1>1 DEF EntitiesInv, TypeOK, TableTypes, End
<1>3. \A q \in Request : q # r => stage'[q] = stage[q] /\ op'[q] = op[q] /\ held'[q] = held[q]
  BY DEF EntitiesInv, TypeOK, TableTypes, End
<1>4. stage'[r] = "idle" /\ op'[r] = NoOp /\ held'[r] = {}
  BY DEF EntitiesInv, TypeOK, TableTypes, End
<1>5. LocksInOrder'
  BY <1>3, <1>4 DEF EntitiesInv, LocksInOrder, NoOp
<1>6. ChecksHold'
  BY <1>3, <1>4 DEF EntitiesInv, ChecksHold
<1> QED
  BY <1>2, <1>5, <1>6

(* A request that begins, takes a lock or checks touches no table. *)
LEMMA RequestStep ==
    ASSUME EntitiesInv, NEW r \in Request, NEW o \in Ops \ {NoOp}, NEW stg \in {"locking", "checked"},
           NEW locks \in SUBSET Lockable,
           stage' = [stage EXCEPT ![r] = stg], op' = [op EXCEPT ![r] = o], held' = [held EXCEPT ![r] = locks],
           UNCHANGED <<entityVars, rotationVars, memberVars>>
    PROVE  TypeOK' /\ TableTypes' /\ NoLostUpdate' /\ TracesAgree' /\ ErasedNotNamed'
<1> USE DEF entityVars, rotationVars, memberVars
<1>1. TypeOK'
  BY DEF EntitiesInv, TypeOK, Stage, TableTypes
<1>2. TableTypes' /\ NoLostUpdate' /\ TracesAgree' /\ ErasedNotNamed'
  BY DEF EntitiesInv, TableTypes, NoLostUpdate, TracesAgree, ErasedNotNamed
<1> QED
  BY <1>1, <1>2

LEMMA BeginStep ==
    ASSUME EntitiesInv, NEW r \in Request, NEW o \in Ops \ {NoOp}, Begin(r, o),
           o.kind \in {"add", "remove", "erase"} => o.user \in o.users
    PROVE  EntitiesInv'
<1>1. held' = [held EXCEPT ![r] = held[r]] /\ held[r] \in SUBSET Lockable /\ held[r] = {}
  BY DEF EntitiesInv, TypeOK, Begin
<1>2. TypeOK' /\ TableTypes' /\ NoLostUpdate' /\ TracesAgree' /\ ErasedNotNamed'
  BY <1>1, RequestStep DEF Begin
<1>3. LocksInOrder' /\ ChecksHold'
  <2>1. \A q \in Request : q # r => stage'[q] = stage[q] /\ op'[q] = op[q]
    BY DEF EntitiesInv, TypeOK, TableTypes, Begin
  <2>2. stage'[r] = "locking" /\ op'[r] = o /\ held' = held /\ members' = members /\ live' = live
    BY DEF EntitiesInv, TypeOK, TableTypes, Begin, memberVars
  <2> QED
    BY <1>1, <2>1, <2>2 DEF EntitiesInv, LocksInOrder, ChecksHold
<1> QED
  BY <1>2, <1>3 DEF EntitiesInv

LEMMA LockStep ==
    ASSUME EntitiesInv, NEW r \in Request, NEW x \in Lockable, Lock(r, x)
    PROVE  EntitiesInv'
<1>1. op[r] \in Ops \ {NoOp} /\ op' = [op EXCEPT ![r] = op[r]] /\ stage' = [stage EXCEPT ![r] = "locking"]
  BY DEF EntitiesInv, TypeOK, TableTypes, Lock
<1>2. held[r] \cup {x} \in SUBSET Lockable /\ held' = [held EXCEPT ![r] = held[r] \cup {x}]
  BY DEF EntitiesInv, TypeOK, Lock
<1>3. TypeOK' /\ TableTypes' /\ NoLostUpdate' /\ TracesAgree' /\ ErasedNotNamed'
  BY <1>1, <1>2, RequestStep DEF Lock
<1>4. \A q \in Request : q # r => held'[q] = held[q]
  BY DEF EntitiesInv, TypeOK, Lock
<1>5. held'[r] = held[r] \cup {x} /\ op' = op /\ stage' = stage /\ members' = members /\ live' = live
  BY DEF EntitiesInv, TypeOK, Lock, memberVars
<1>6. LocksInOrder'
  <2>1. \A q \in Request :
          /\ op[q].kind \in {"add", "remove", "erase"} => op[q].user \in op[q].users
          /\ Conv \in held'[q] => op[q] # NoOp /\ op[q].users \subseteq held'[q]
          /\ held'[q] \cap User \subseteq live
    BY <1>1, <1>4, <1>5 DEF EntitiesInv, LocksInOrder, Lock
  <2>2. \A q \in Request \ {r} : x \in held[q] => x = Conv /\ op[r].kind = "put" /\ op[q].kind = "put"
    BY DEF Lock, Free
  <2>3. \A p, q \in Request : p # q =>
          \A y \in held'[p] \cap held'[q] : y = Conv /\ op[p].kind = "put" /\ op[q].kind = "put"
    BY <1>4, <1>5, <2>2 DEF EntitiesInv, LocksInOrder
  <2> QED
    BY <1>5, <2>1, <2>3 DEF LocksInOrder
<1>7. ChecksHold'
  BY <1>4, <1>5 DEF EntitiesInv, ChecksHold
<1> QED
  BY <1>3, <1>6, <1>7 DEF EntitiesInv

LEMMA CheckStep ==
    ASSUME EntitiesInv, NEW r \in Request, CheckPut(r)
    PROVE  EntitiesInv'
<1>1. op[r] \in Ops \ {NoOp} /\ op' = [op EXCEPT ![r] = op[r]]
  BY DEF EntitiesInv, TypeOK, TableTypes, CheckPut, Locked
<1>2. held[r] \in SUBSET Lockable /\ held' = [held EXCEPT ![r] = held[r]]
  BY DEF EntitiesInv, TypeOK, CheckPut
<1>3. TypeOK' /\ TableTypes' /\ NoLostUpdate' /\ TracesAgree' /\ ErasedNotNamed'
  BY <1>1, <1>2, RequestStep DEF CheckPut
<1>4. /\ held' = held /\ op' = op /\ members' = members /\ live' = live
      /\ \A q \in Request : stage'[q] = "checked" => q = r \/ stage[q] = "checked"
  BY DEF EntitiesInv, TypeOK, CheckPut, memberVars
<1>5. LocksInOrder' /\ ChecksHold'
  BY <1>4 DEF EntitiesInv, LocksInOrder, ChecksHold, CheckPut, Locked
<1> QED
  BY <1>3, <1>5 DEF EntitiesInv

(* What a request leaves of the tables, when it ends. *)
LEMMA Assemble ==
    ASSUME EntitiesInv, NEW r \in Request, End(r),
           live' \subseteq User, members' \subseteq live',
           \A q \in Request \ {r} : held[q] \cap User \subseteq live',
           \A q \in Request \ {r} : stage[q] = "checked" =>
               op[q].by \in members' /\ (op[q].entity = Chore => op[q].names \in members'),
           version' \in [Entity -> Nat],
           \A e \in Entity : version'[e] <= MaxVersion[e],
           deleted' \subseteq {e \in Entity : version'[e] # 0},
           named' \in User \cup {Nobody},
           rotations' \in [Operation -> Rotation],
           \A x \in Operation : rotations'[x] # NoRotation => rotations'[x].version \in 1..MaxVersion[Chore],
           answers' \in [Operation -> SUBSET (1..MaxVersion[Chore])],
           basis' \in [Entity -> Nat],
           rotated' \in [Operation -> Nat],
           NoLostUpdate', TracesAgree', ErasedNotNamed'
    PROVE  EntitiesInv'
<1>1. /\ stage' \in [Request -> Stage]
      /\ held' \in [Request -> SUBSET Lockable]
      /\ op' \in [Request -> Ops]
      /\ \A q \in Request : stage'[q] = "idle" <=> op'[q] = NoOp
      /\ \A q \in Request : stage'[q] = "idle" => held'[q] = {}
      /\ LocksInOrder'
      /\ ChecksHold'
  BY RequestEnds
<1>2. \A e \in Entity : version'[e] \in 0..MaxVersion'[e]
  BY DEF Entity
<1>3. \A x \in Operation : rotations'[x] = NoRotation \/ rotations'[x].actor \in User
  BY DEF Rotation
<1>4. TypeOK'
  BY <1>1, <1>2, <1>3 DEF TypeOK
<1>5. TableTypes'
  BY <1>1 DEF TableTypes
<1> QED
  BY <1>1, <1>4, <1>5 DEF EntitiesInv

(* The types of the tables, in the form the steps below use. *)
LEMMA Tables ==
    ASSUME EntitiesInv
    PROVE  /\ live \subseteq User /\ members \subseteq live
           /\ version \in [Entity -> Nat]
           /\ MaxVersion \in [Entity -> Nat \ {0}]
           /\ \A e \in Entity : version[e] <= MaxVersion[e]
           /\ deleted \subseteq {e \in Entity : version[e] # 0}
           /\ named \in User \cup {Nobody}
           /\ rotations \in [Operation -> Rotation]
           /\ \A x \in Operation : rotations[x] # NoRotation => rotations[x].version \in 1..MaxVersion[Chore]
           /\ answers \in [Operation -> SUBSET (1..MaxVersion[Chore])]
           /\ basis \in [Entity -> Nat]
           /\ rotated \in [Operation -> Nat]
           /\ Chore \in Entity /\ Operation \subseteq Entity
           /\ op \in [Request -> Ops]
           /\ \A q \in Request : held[q] \cap User \subseteq live
           /\ \A q \in Request : stage[q] = "checked" =>
                  op[q].by \in members /\ (op[q].entity = Chore => op[q].names \in members)
BY DEF EntitiesInv, TypeOK, TableTypes, LocksInOrder, ChecksHold, Entity

(* Writing one entity under the version it has. *)
LEMMA EntityWritten ==
    ASSUME EntitiesInv, NEW e \in Entity, version[e] < MaxVersion[e],
           version' = [version EXCEPT ![e] = @ + 1],
           basis' = [basis EXCEPT ![e] = version[e]],
           UNCHANGED rotationVars
    PROVE  /\ version' \in [Entity -> Nat]
           /\ \A d \in Entity : version'[d] <= MaxVersion[d]
           /\ \A d \in Entity : version[d] # 0 => version'[d] # 0
           /\ version'[e] # 0
           /\ basis' \in [Entity -> Nat]
           /\ NoLostUpdate' /\ TracesAgree'
<1>1. /\ version' \in [Entity -> Nat] /\ basis' \in [Entity -> Nat]
      /\ version'[e] = version[e] + 1 /\ basis'[e] = version[e]
      /\ \A d \in Entity : d # e => version'[d] = version[d] /\ basis'[d] = basis[d]
  BY Tables
<1>2. /\ \A d \in Entity : version'[d] <= MaxVersion[d]
      /\ \A d \in Entity : version[d] # 0 => version'[d] # 0
      /\ version'[e] # 0
  BY <1>1, Tables
<1>3. NoLostUpdate'
  BY <1>1 DEF EntitiesInv, NoLostUpdate
<1>4. TracesAgree'
  BY <1>2, Tables DEF EntitiesInv, TracesAgree, rotationVars
<1> QED
  BY <1>1, <1>2, <1>3, <1>4

LEMMA PutStep ==
    ASSUME EntitiesInv, NEW r \in Request, PutEntity(r)
    PROVE  EntitiesInv'
<1> DEFINE o == op[r]
<1>1. o \in Ops /\ o.kind = "put" /\ o.by \in members /\ (o.entity = Chore => o.names \in members)
  BY Tables DEF EntitiesInv, ChecksHold, PutEntity
<1>2. o.entity \in Entity /\ o.expected = version[o.entity]
  BY <1>1, OpFields DEF PutEntity, StillVersion
<1>3. /\ version' = [version EXCEPT ![o.entity] = @ + 1]
      /\ basis' = [basis EXCEPT ![o.entity] = version[o.entity]]
      /\ version[o.entity] < MaxVersion[o.entity]
      /\ UNCHANGED rotationVars
  BY <1>2 DEF PutEntity
<1> HIDE DEF o
<1>4. /\ version' \in [Entity -> Nat]
      /\ \A d \in Entity : version'[d] <= MaxVersion[d]
      /\ \A d \in Entity : version[d] # 0 => version'[d] # 0
      /\ basis' \in [Entity -> Nat]
      /\ NoLostUpdate' /\ TracesAgree'
  BY <1>2, <1>3, EntityWritten
<1>5. /\ deleted' \subseteq deleted
      /\ named' = named \/ named' \in members
      /\ End(r) /\ live' = live /\ members' = members
      /\ rotations' = rotations /\ answers' = answers /\ rotated' = rotated
  BY <1>1 DEF PutEntity, memberVars, rotationVars, o
<1>6. ErasedNotNamed' /\ named' \in User \cup {Nobody}
  BY <1>5, Tables DEF EntitiesInv, ErasedNotNamed
<1>7. deleted' \subseteq {e \in Entity : version'[e] # 0}
  BY <1>4, <1>5, Tables
<1> QED
  BY <1>4, <1>5, <1>6, <1>7, Tables, Assemble

LEMMA DeleteStep ==
    ASSUME EntitiesInv, NEW r \in Request, DeleteEntity(r)
    PROVE  EntitiesInv'
<1> DEFINE o == op[r]
<1>1. o \in Ops /\ o.kind = "delete"
  BY Tables DEF DeleteEntity, Locked
<1>2. o.entity \in Entity /\ o.expected = version[o.entity]
  BY <1>1, OpFields DEF DeleteEntity
<1>3. /\ version' = [version EXCEPT ![o.entity] = @ + 1]
      /\ basis' = [basis EXCEPT ![o.entity] = version[o.entity]]
      /\ version[o.entity] < MaxVersion[o.entity]
      /\ UNCHANGED rotationVars
  BY <1>2 DEF DeleteEntity
<1>4. /\ deleted' = deleted \cup {o.entity}
      /\ named' = named
      /\ End(r) /\ live' = live /\ members' = members
      /\ rotations' = rotations /\ answers' = answers /\ rotated' = rotated
  BY DEF DeleteEntity, memberVars, rotationVars
<1> HIDE DEF o
<1>5. /\ version' \in [Entity -> Nat]
      /\ \A d \in Entity : version'[d] <= MaxVersion[d]
      /\ \A d \in Entity : version[d] # 0 => version'[d] # 0
      /\ version'[o.entity] # 0
      /\ basis' \in [Entity -> Nat]
      /\ NoLostUpdate' /\ TracesAgree'
  BY <1>2, <1>3, EntityWritten
<1>6. ErasedNotNamed'
  BY <1>4 DEF EntitiesInv, ErasedNotNamed
<1>7. deleted' \subseteq {e \in Entity : version'[e] # 0}
  BY <1>2, <1>4, <1>5, Tables
<1> QED
  BY <1>4, <1>5, <1>6, <1>7, Tables, Assemble

LEMMA ReplayStep ==
    ASSUME EntitiesInv, NEW r \in Request, ReplayRotation(r)
    PROVE  EntitiesInv'
<1> DEFINE x == op[r].id
<1>1. x \in Operation /\ rotations[x] # NoRotation
  BY Tables, OpFields DEF ReplayRotation, Locked
<1>2. /\ answers' = [answers EXCEPT ![x] = @ \cup {rotations[x].version}]
      /\ End(r) /\ live' = live /\ members' = members /\ version' = version /\ deleted' = deleted
      /\ named' = named /\ basis' = basis /\ rotations' = rotations /\ rotated' = rotated
  BY DEF ReplayRotation, Answer, memberVars, entityVars
<1> HIDE DEF x
<1>3. answers' \in [Operation -> SUBSET (1..MaxVersion[Chore])]
  BY <1>1, <1>2, Tables
<1>4. /\ answers'[x] \subseteq {rotations[x].version}
      /\ version[x] # 0
      /\ \A y \in Operation : y # x => answers'[y] = answers[y]
  BY <1>1, <1>2, Tables DEF EntitiesInv, TracesAgree
<1>5. TracesAgree'
  BY <1>1, <1>2, <1>4 DEF EntitiesInv, TracesAgree
<1>6. NoLostUpdate' /\ ErasedNotNamed'
  BY <1>2 DEF EntitiesInv, NoLostUpdate, ErasedNotNamed
<1> QED
  BY <1>2, <1>3, <1>5, <1>6, Tables, Assemble

LEMMA RotateStep ==
    ASSUME EntitiesInv, NEW r \in Request, RotateChore(r)
    PROVE  EntitiesInv'
<1> DEFINE o == op[r]
           x == o.id
           v == version[Chore]
           row == [actor |-> o.by, expected |-> o.expected, wanted |-> o.names,
                   version |-> v + 1, named |-> o.names]
<1>1. /\ o \in Ops /\ o.kind = "rotate"
      /\ x \in Operation /\ o.by \in User /\ o.names \in User /\ o.expected \in Nat
  BY Tables, OpFields DEF RotateChore, Locked
<1>2. /\ v # 0 /\ v = o.expected /\ v < MaxVersion[Chore]
      /\ version[x] = 0 /\ o.names \in members
  BY DEF RotateChore, FeedItemFree
<1>3. /\ version' = [version EXCEPT ![Chore] = @ + 1, ![x] = 1]
      /\ basis' = [basis EXCEPT ![Chore] = v, ![x] = 0]
      /\ rotations' = [rotations EXCEPT ![x] = row]
      /\ rotated' = [rotated EXCEPT ![x] = @ + 1]
      /\ answers' = [answers EXCEPT ![x] = @ \cup {v + 1}]
      /\ named' = o.names
      /\ deleted' = deleted /\ live' = live /\ members' = members /\ End(r)
  BY <1>2 DEF RotateChore, Answer, memberVars
<1>4. v \in Nat /\ x # Chore /\ Chore \in Entity /\ x \in Entity
  BY <1>1, Tables
<1>5. row \in Rotation /\ row # NoRotation /\ row.version = v + 1 /\ row.named = o.names
  BY <1>1, <1>2, <1>4 DEF Rotation, NoRotation
<1> HIDE DEF o, x, v, row
<1>6. /\ version' \in [Entity -> Nat] /\ basis' \in [Entity -> Nat]
      /\ version'[Chore] = v + 1 /\ version'[x] = 1 /\ basis'[Chore] = v /\ basis'[x] = 0
      /\ \A e \in Entity \ {Chore, x} : version'[e] = version[e] /\ basis'[e] = basis[e]
  BY <1>1, <1>3, <1>4, Tables DEF v
<1>7. \A e \in Entity : version'[e] <= MaxVersion[e]
  <2>1. \A e \in Entity : MaxVersion[e] >= 1
    BY Tables
  <2> QED
    BY <1>2, <1>4, <1>6, <2>1, Tables
<1>8. NoLostUpdate'
  BY <1>6, <1>4 DEF EntitiesInv, NoLostUpdate
<1>9. /\ rotations' \in [Operation -> Rotation] /\ rotations'[x] = row
      /\ \A y \in Operation : y # x => rotations'[y] = rotations[y]
  BY <1>1, <1>3, <1>5, Tables
<1>10. /\ answers[x] = {} /\ rotated[x] = 0
  BY <1>1, <1>2 DEF EntitiesInv, TracesAgree
<1>11. /\ answers' \in [Operation -> SUBSET (1..MaxVersion[Chore])] /\ answers'[x] = {v + 1}
       /\ rotated' \in [Operation -> Nat] /\ rotated'[x] = 1
       /\ \A y \in Operation : y # x => answers'[y] = answers[y] /\ rotated'[y] = rotated[y]
  BY <1>1, <1>2, <1>3, <1>4, <1>10, Tables
<1>12. TracesAgree'
  <2>1. \A y \in Operation : y # x => y # Chore /\ version'[y] = version[y]
    BY <1>6, Tables
  <2> QED
    BY <1>4, <1>5, <1>6, <1>9, <1>11, <2>1 DEF EntitiesInv, TracesAgree
<1>13. \A y \in Operation : rotations'[y] # NoRotation => rotations'[y].version \in 1..MaxVersion[Chore]
  BY <1>2, <1>4, <1>5, <1>9, Tables
<1>14. ErasedNotNamed'
  BY <1>2, <1>3, <1>5, <1>9, Tables DEF EntitiesInv, ErasedNotNamed
<1>15. deleted' \subseteq {e \in Entity : version'[e] # 0} /\ named' \in User \cup {Nobody}
  BY <1>1, <1>3, <1>4, <1>6, Tables
<1> QED
  BY <1>3, <1>6, <1>7, <1>8, <1>9, <1>11, <1>12, <1>13, <1>14, <1>15, Tables, Assemble

LEMMA PruneStep ==
    ASSUME EntitiesInv, NEW x \in Operation, PruneChoreRotationOperations(x)
    PROVE  EntitiesInv'
<1>1. /\ version' = version /\ deleted' = deleted /\ named' = named /\ basis' = basis
      /\ answers' = answers /\ rotated' = rotated /\ live' = live /\ members' = members
      /\ stage' = stage /\ op' = op /\ held' = held
  BY DEF PruneChoreRotationOperations, entityVars, memberVars, requestVars
<1>2. /\ rotations' \in [Operation -> Rotation]
      /\ \A y \in Operation : rotations'[y] # NoRotation => rotations'[y] = rotations[y]
      /\ \A y \in Operation : rotations[y] = NoRotation => rotations'[y] = NoRotation
  BY Tables DEF PruneChoreRotationOperations, Rotation
<1>3. TypeOK' /\ TableTypes'
  BY <1>1, <1>2 DEF EntitiesInv, TypeOK, TableTypes
<1>4. NoLostUpdate' /\ LocksInOrder' /\ ChecksHold'
  BY <1>1 DEF EntitiesInv, NoLostUpdate, LocksInOrder, ChecksHold
<1>5. TracesAgree' /\ ErasedNotNamed'
  BY <1>1, <1>2 DEF EntitiesInv, TracesAgree, ErasedNotNamed
<1> QED
  BY <1>3, <1>4, <1>5 DEF EntitiesInv

LEMMA MemberStep ==
    ASSUME EntitiesInv, NEW r \in Request, AddMember(r) \/ RemoveMember(r)
    PROVE  EntitiesInv'
<1> DEFINE u == op[r].user
<1>1. /\ Conv \in held[r] /\ op[r].kind \in {"add", "remove"} /\ End(r)
      /\ members' = members \cup {u} \/ members' = members \ {u}
      /\ version' = version /\ deleted' = deleted /\ named' = named /\ basis' = basis
      /\ rotations' = rotations /\ answers' = answers /\ rotated' = rotated /\ live' = live
  BY DEF AddMember, RemoveMember, Locked, entityVars, rotationVars
<1>2. u \in live
  BY <1>1, Tables, OpFields DEF EntitiesInv, LocksInOrder
<1>3. \A q \in Request \ {r} : stage[q] # "checked"
  BY <1>1, HasItAlone
<1>4. NoLostUpdate' /\ TracesAgree' /\ ErasedNotNamed'
  BY <1>1 DEF EntitiesInv, NoLostUpdate, TracesAgree, ErasedNotNamed
<1>5. members' \subseteq live'
  BY <1>1, <1>2, Tables
<1> HIDE DEF u
<1> QED
  BY <1>1, <1>3, <1>4, <1>5, Tables, Assemble

LEMMA EraseStep ==
    ASSUME EntitiesInv, NEW r \in Request, DeleteAccount(r)
    PROVE  EntitiesInv'
<1> DEFINE u == op[r].user
<1>1. /\ Conv \in held[r] /\ op[r].kind = "erase" /\ End(r)
      /\ live' = live \ {u} /\ members' = members \ {u}
      /\ named' = IF named = u THEN Nobody ELSE named
      /\ version' = [version EXCEPT ![Chore] = IF named = u THEN @ + 1 ELSE @]
      /\ basis' = [basis EXCEPT ![Chore] = IF named = u THEN version[Chore] ELSE @]
      /\ rotations' = ResultsWithout(u)
      /\ named = u => version[Chore] < MaxVersion[Chore]
      /\ deleted' = deleted /\ answers' = answers /\ rotated' = rotated
  BY DEF DeleteAccount, Locked
<1>2. u \in User /\ u \in op[r].users
  BY <1>1, Tables, OpFields DEF EntitiesInv, LocksInOrder
<1>3. \A q \in Request \ {r} : stage[q] # "checked" /\ u \notin held[q]
  BY <1>1, <1>2, HasItAlone
<1> HIDE DEF u
<1>4. /\ version' \in [Entity -> Nat] /\ basis' \in [Entity -> Nat]
      /\ \A e \in Entity \ {Chore} : version'[e] = version[e] /\ basis'[e] = basis[e]
      /\ named = u => version'[Chore] = version[Chore] + 1 /\ basis'[Chore] = version[Chore]
      /\ named # u => version'[Chore] = version[Chore] /\ basis'[Chore] = basis[Chore]
  BY <1>1, Tables
<1>5. \A e \in Entity : version'[e] <= MaxVersion[e] /\ (version[e] # 0 => version'[e] # 0)
  BY <1>1, <1>4, Tables
<1>6. NoLostUpdate'
  BY <1>4, Tables DEF EntitiesInv, NoLostUpdate
<1>7. \A x \in Operation :
        /\ rotations[x] = NoRotation => rotations'[x] = NoRotation
        /\ rotations[x] # NoRotation =>
              /\ rotations'[x] \in Rotation
              /\ rotations'[x].version = rotations[x].version
              /\ rotations'[x].named = IF rotations[x].named = u THEN Nobody ELSE rotations[x].named
  BY <1>1, Tables DEF ResultsWithout, Rotation, NoRotation
<1>8. rotations' \in [Operation -> Rotation]
  <2>1. rotations' = [x \in Operation |-> rotations'[x]]
    BY <1>1 DEF ResultsWithout
  <2> QED
    BY <1>7, <2>1 DEF Rotation
<1>9. \A x \in Operation : rotations'[x] # NoRotation => rotations[x] # NoRotation
  BY <1>7
<1>10. TracesAgree'
  <2>1. \A x \in Operation : version'[x] = version[x]
    BY <1>4, Tables
  <2> QED
    BY <1>1, <1>7, <1>9, <2>1 DEF EntitiesInv, TracesAgree
<1>11. ErasedNotNamed'
  <2> SUFFICES ASSUME NEW w \in User, w \notin live'
               PROVE  /\ named' # w
                      /\ \A x \in Operation : rotations'[x] # NoRotation => rotations'[x].named # w
    BY DEF ErasedNotNamed
  <2>1. w = u \/ w \notin live
    BY <1>1
  <2>2. w # u => /\ named # w
                 /\ \A x \in Operation : rotations[x] # NoRotation => rotations[x].named # w
    BY <2>1 DEF EntitiesInv, ErasedNotNamed
  <2> QED
    BY <1>1, <1>7, <1>9, <2>2
<1>12. \A x \in Operation : rotations'[x] # NoRotation => rotations'[x].version \in 1..MaxVersion[Chore]
  BY <1>7, <1>9, Tables
<1>13. /\ live' \subseteq User /\ members' \subseteq live'
       /\ \A q \in Request \ {r} : held[q] \cap User \subseteq live'
       /\ deleted' \subseteq {e \in Entity : version'[e] # 0}
       /\ named' \in User \cup {Nobody}
  BY <1>1, <1>3, <1>5, Tables
<1> QED
  BY <1>1, <1>3, <1>4, <1>5, <1>6, <1>8, <1>10, <1>11, <1>12, <1>13, Tables, Assemble

LEMMA AbortStep ==
    ASSUME EntitiesInv, NEW r \in Request, Abort(r)
    PROVE  EntitiesInv'
<1>1. /\ version' = version /\ deleted' = deleted /\ named' = named /\ basis' = basis
      /\ rotations' = rotations /\ answers' = answers /\ rotated' = rotated
      /\ live' = live /\ members' = members /\ End(r)
  BY DEF Abort, entityVars, rotationVars, memberVars
<1>2. NoLostUpdate' /\ TracesAgree' /\ ErasedNotNamed'
  BY <1>1 DEF EntitiesInv, NoLostUpdate, TracesAgree, ErasedNotNamed
<1> QED
  BY <1>1, <1>2, Tables, Assemble

LEMMA EntitiesStep == EntitiesInv /\ [Next]_vars => EntitiesInv'
<1> SUFFICES ASSUME EntitiesInv, [Next]_vars PROVE EntitiesInv'
  OBVIOUS
<1>1. ASSUME NEW r \in Request, NEW u \in User, NEW e \in Entity, NEW w \in IF e = Chore THEN User ELSE {u},
             BeginPut(r, e, u, w, version[e])
      PROVE  EntitiesInv'
  <2>1. version[e] \in Nat /\ w \in User
    BY Tables
  <2>2. Put(e, u, w, version[e]) \in Ops \ {NoOp}
    BY <2>1, BeginTypes
  <2> QED
    BY <1>1, <2>2, BeginStep DEF BeginPut, Put
<1>2. ASSUME NEW r \in Request, NEW u \in User, NEW e \in Entity, BeginDelete(r, e, u, version[e])
      PROVE  EntitiesInv'
  <2>1. version[e] \in Nat
    BY Tables
  <2>2. Delete(e, u, version[e]) \in Ops \ {NoOp}
    BY <2>1, BeginTypes
  <2> QED
    BY <1>2, <2>2, BeginStep DEF BeginDelete, Delete
<1>3. ASSUME NEW r \in Request, NEW u \in User, NEW w \in User, NEW x \in Operation,
             NEW v \in RetriedVersions(x), BeginRotate(r, x, u, w, v)
      PROVE  EntitiesInv'
  <2>1. v \in Nat
    BY Tables DEF RetriedVersions, Rotation
  <2>2. Rotate(x, u, w, v) \in Ops \ {NoOp}
    BY <2>1, BeginTypes
  <2> QED
    BY <1>3, <2>2, BeginStep DEF BeginRotate, Rotate
<1>4. ASSUME NEW r \in Request, NEW u \in User, NEW kind \in {"add", "remove", "erase"},
             BeginMemberOp(r, kind, u)
      PROVE  EntitiesInv'
  <2> DEFINE S == IF kind = "erase" THEN {u} ELSE {u, Owner}
  <2>1. S \in SUBSET User /\ u \in S /\ Begin(r, MemberOp(kind, u, S))
    BY <1>4 DEF BeginMemberOp
  <2> HIDE DEF S
  <2>2. MemberOp(kind, u, S) \in Ops \ {NoOp}
    BY <2>1, BeginTypes
  <2>3. MemberOp(kind, u, S).user \in MemberOp(kind, u, S).users
    BY <2>1 DEF MemberOp
  <2> QED
    BY <2>1, <2>2, <2>3, BeginStep
<1>5. ASSUME NEW r \in Request, NEW x \in Lockable, Lock(r, x) PROVE EntitiesInv'
  BY <1>5, LockStep
<1>6. ASSUME NEW r \in Request, CheckPut(r) \/ PutEntity(r) \/ DeleteEntity(r) PROVE EntitiesInv'
  BY <1>6, CheckStep, PutStep, DeleteStep
<1>7. ASSUME NEW r \in Request, ReplayRotation(r) \/ RotateChore(r) PROVE EntitiesInv'
  BY <1>7, ReplayStep, RotateStep
<1>8. ASSUME NEW r \in Request, AddMember(r) \/ RemoveMember(r) PROVE EntitiesInv'
  BY <1>8, MemberStep
<1>9. ASSUME NEW r \in Request, DeleteAccount(r) \/ Abort(r) PROVE EntitiesInv'
  BY <1>9, EraseStep, AbortStep
<1>10. ASSUME NEW x \in Operation, PruneChoreRotationOperations(x) PROVE EntitiesInv'
  BY <1>10, PruneStep
<1>11. CASE UNCHANGED vars
  BY <1>11 DEF vars, entityVars, rotationVars, memberVars, requestVars, EntitiesInv, TypeOK, TableTypes,
               LocksInOrder, ChecksHold, NoLostUpdate, TracesAgree, ErasedNotNamed
<1> QED
  BY <1>1, <1>2, <1>3, <1>4, <1>5, <1>6, <1>7, <1>8, <1>9, <1>10, <1>11 DEF Next

LEMMA EntitiesInit == Init => EntitiesInv
<1> SUFFICES ASSUME Init PROVE EntitiesInv
  OBVIOUS
<1>1. TypeOK
  BY DEF Init, TypeOK, Entity, Stage
<1>2. TableTypes /\ NoLostUpdate /\ TracesAgree /\ ErasedNotNamed
  BY DEF Init, TableTypes, NoLostUpdate, TracesAgree, ErasedNotNamed, Entity, Rotation, Ops
<1>3. LocksInOrder /\ ChecksHold
  BY DEF Init, LocksInOrder, ChecksHold, NoOp
<1> QED
  BY <1>1, <1>2, <1>3 DEF EntitiesInv

(* The inductive invariant holds throughout. *)
THEOREM EntitiesInvariance == Spec => []EntitiesInv
<1>1. Init => EntitiesInv
  BY EntitiesInit
<1>2. EntitiesInv /\ [Next]_vars => EntitiesInv'
  BY EntitiesStep
<1> QED
  BY <1>1, <1>2, PTL DEF Spec

(* No accepted write of an entity is overwritten unseen, for any number of  *)
(* puts that evaluate their condition on one snapshot (PutEntity).          *)
THEOREM NoUpdateIsLost == Spec => []EntitiesWellFormed
<1>1. EntitiesInv => EntitiesWellFormed
  BY DEF EntitiesInv, EntitiesWellFormed
<1> QED
  BY <1>1, EntitiesInvariance, PTL

(* An operation id moves the chore on at most once and is answered with one *)
(* version, whatever is retried, deleted or pruned (RotateChore).           *)
THEOREM RotatesOnce == Spec => []RotationOnce
<1>1. EntitiesInv => RotationOnce
  BY DEF EntitiesInv, RotationOnce, TracesAgree
<1> QED
  BY <1>1, EntitiesInvariance, PTL

(* An erased account is named neither in the chore nor in a stored result   *)
(* (DeleteAccount), although puts that name it were under way.              *)
THEOREM ErasedAreNotNamed == Spec => []ErasedNotNamed
<1>1. EntitiesInv => ErasedNotNamed
  BY DEF EntitiesInv
<1> QED
  BY <1>1, EntitiesInvariance, PTL

(* Steps of a request that touch no table are invisible to the memory store. *)
LEMMA InvisibleStep ==
    UNCHANGED <<entityVars, rotationVars, memberVars>> => UNCHANGED Memory!vars
BY DEF entityVars, rotationVars, memberVars, Memory!vars

LEMMA MemoryPut ==
    ASSUME EntitiesInv, NEW r \in Request, PutEntity(r)
    PROVE  Memory!Next
<1> DEFINE o == op[r]
<1>1. o \in Ops /\ o.kind = "put" /\ o.by \in members /\ (o.entity = Chore => o.names \in members)
  BY Tables DEF EntitiesInv, ChecksHold, PutEntity
<1>2. o.entity \in Entity /\ o.names \in User /\ o.by \in User /\ o.expected = version[o.entity]
  BY <1>1, OpFields DEF PutEntity, StillVersion
<1>3. Memory!PutEntity(o.entity, o.by, o.names, version[o.entity])
  BY <1>1, <1>2 DEF PutEntity, Memory!PutEntity, rotationVars, memberVars
<1> QED
  BY <1>2, <1>3 DEF Memory!Next, Memory!Entity, Entity

LEMMA MemoryDelete ==
    ASSUME EntitiesInv, NEW r \in Request, DeleteEntity(r)
    PROVE  Memory!Next
<1> DEFINE o == op[r]
<1>1. o \in Ops /\ o.kind = "delete" /\ o.by \in members
  BY Tables DEF DeleteEntity, Locked
<1>2. o.entity \in Entity /\ o.by \in User /\ o.expected = version[o.entity]
  BY <1>1, OpFields DEF DeleteEntity
<1>3. Memory!DeleteEntity(o.entity, o.by, version[o.entity])
  BY <1>1, <1>2 DEF DeleteEntity, Memory!DeleteEntity, rotationVars, memberVars
<1> QED
  BY <1>2, <1>3 DEF Memory!Next, Memory!Entity, Entity

LEMMA MemoryReplay ==
    ASSUME EntitiesInv, NEW r \in Request, ReplayRotation(r)
    PROVE  Memory!Next
<1> DEFINE o == op[r]
           x == o.id
<1>1. /\ o \in Ops /\ o.kind = "rotate" /\ o.by \in members
      /\ x \in Operation /\ o.by \in User /\ o.names \in User
  BY Tables, OpFields DEF ReplayRotation, Locked
<1>2. /\ rotations[x] # NoRotation
      /\ rotations[x].actor = o.by /\ rotations[x].expected = o.expected /\ rotations[x].wanted = o.names
  BY DEF ReplayRotation, SameRequest
<1>3. Memory!ReplayRotation(x, o.by, o.names, rotations[x].expected)
  BY <1>1, <1>2
     DEF ReplayRotation, Memory!ReplayRotation, Answer, Memory!Answer, NoRotation, Memory!NoRotation,
         entityVars, memberVars
<1> QED
  BY <1>1, <1>2, <1>3 DEF Memory!Next, NoRotation, Memory!NoRotation

LEMMA MemoryRotate ==
    ASSUME EntitiesInv, NEW r \in Request, RotateChore(r)
    PROVE  Memory!Next
<1> DEFINE o == op[r]
           x == o.id
<1>1. /\ o \in Ops /\ o.kind = "rotate" /\ o.by \in members /\ o.names \in members
      /\ x \in Operation /\ o.by \in User /\ o.names \in User
  BY Tables, OpFields DEF RotateChore, Locked
<1>2. o.expected = version[Chore]
  BY DEF RotateChore
<1>3. Memory!RotateChore(x, o.by, o.names, version[Chore])
  BY <1>1, <1>2
     DEF RotateChore, Memory!RotateChore, Answer, Memory!Answer, NoRotation, Memory!NoRotation,
         FeedItemFree, memberVars
<1> QED
  BY <1>1, <1>3 DEF Memory!Next

LEMMA MemoryMember ==
    ASSUME EntitiesInv, NEW r \in Request, AddMember(r) \/ RemoveMember(r) \/ DeleteAccount(r)
    PROVE  Memory!Next
<1> DEFINE u == op[r].user
<1>1. u \in live /\ u \in User
  BY Tables, OpFields DEF EntitiesInv, LocksInOrder, AddMember, RemoveMember, DeleteAccount, Locked
<1>2. ASSUME AddMember(r) PROVE Memory!AddMember(u)
  BY <1>1, <1>2 DEF AddMember, Memory!AddMember, entityVars, rotationVars
<1>3. ASSUME RemoveMember(r) PROVE Memory!RemoveMember(u)
  BY <1>1, <1>3 DEF RemoveMember, Memory!RemoveMember, entityVars, rotationVars
<1>4. ASSUME DeleteAccount(r) PROVE Memory!DeleteAccount(u)
  <2>1. User \ live' = (User \ live) \cup {u}
    BY <1>1, <1>4 DEF DeleteAccount
  <2> QED
    BY <1>1, <1>4, <2>1
       DEF DeleteAccount, Memory!DeleteAccount, ResultsWithout, NoRotation, Memory!NoRotation
<1> QED
  BY <1>1, <1>2, <1>3, <1>4 DEF Memory!Next

(* Every step of the row locks and statements is a step of the in-memory    *)
(* store's mutex, or invisible to it.                                       *)
LEMMA MemoryStep == EntitiesInv /\ [Next]_vars => [Memory!Next]_Memory!vars
<1> SUFFICES ASSUME EntitiesInv, [Next]_vars PROVE [Memory!Next]_Memory!vars
  OBVIOUS
<1>1. ASSUME NEW r \in Request, NEW o, Begin(r, o) PROVE UNCHANGED Memory!vars
  BY <1>1, InvisibleStep DEF Begin
<1>2. ASSUME NEW r \in Request, NEW x \in Lockable, Lock(r, x) PROVE UNCHANGED Memory!vars
  BY <1>2, InvisibleStep DEF Lock
<1>3. ASSUME NEW r \in Request, CheckPut(r) \/ Abort(r) PROVE UNCHANGED Memory!vars
  BY <1>3, InvisibleStep DEF CheckPut, Abort
<1>4. ASSUME NEW r \in Request,
             \/ PutEntity(r) \/ DeleteEntity(r) \/ ReplayRotation(r) \/ RotateChore(r)
             \/ AddMember(r) \/ RemoveMember(r) \/ DeleteAccount(r)
      PROVE  Memory!Next
  BY <1>4, MemoryPut, MemoryDelete, MemoryReplay, MemoryRotate, MemoryMember
<1>5. ASSUME NEW x \in Operation, PruneChoreRotationOperations(x) PROVE Memory!Next
  <2>1. Memory!PruneChoreRotationOperations(x)
    BY <1>5 DEF PruneChoreRotationOperations, Memory!PruneChoreRotationOperations,
                NoRotation, Memory!NoRotation, entityVars, memberVars
  <2> QED
    BY <2>1 DEF Memory!Next
<1>6. CASE UNCHANGED vars
  BY <1>6, InvisibleStep DEF vars
<1> QED
  BY <1>1, <1>2, <1>3, <1>4, <1>5, <1>6
     DEF Next, BeginPut, BeginDelete, BeginRotate, BeginMemberOp

(* What commits and what is answered under row locks could have come from   *)
(* the in-memory store's atomic operations.                                 *)
THEOREM EntitiesRefinement == Spec => ImplementsMemoryEntities
<1>1. Init => Memory!Init
  BY DEF Init, Memory!Init, Memory!Entity, Entity, NoRotation, Memory!NoRotation
<1>2. EntitiesInv /\ [Next]_vars => [Memory!Next]_Memory!vars
  BY MemoryStep
<1> QED
  BY <1>1, <1>2, EntitiesInvariance, PTL DEF Spec, Memory!Spec, ImplementsMemoryEntities
=============================================================================
