------------------------- MODULE SessionFenceProofs -------------------------
(***************************************************************************)
(* Proofs about SessionFence for any number of replicas, sockets, sessions *)
(* and concurrent revocations, any cache capacity, any crashes, outages of *)
(* the bus and unfenced revocations.  What is said of a socket is said as  *)
(* long as its replica has not stalled past its lease unnoticed.           *)
(*                                                                         *)
(* A socket in the scope of a revocation is cut off in one of two ways:    *)
(* its guard is revoked, or its replica's lease is gone; a lease that      *)
(* comes back finds every guard past the scan revoked, or the replica has  *)
(* stalled.  The invariant says how far each revocation has got with that: *)
(* a replica that still has to acknowledge is accounted for by the         *)
(* revocation's list of guards, one that has acknowledged is cut, and      *)
(* whoever registers meanwhile meets the marker, which stands as long as   *)
(* the revocation can still commit.                                        *)
(***************************************************************************)
EXTENDS SessionFence, TLAPS

(* Nothing is admitted under a lease that is not fresh, and nothing is      *)
(* being written under one that is gone.                                    *)
LeaseGates ==
    \A r \in Replica :
        /\ lease[r] # "fresh" => \A s \in SocketsOn(r) : s \notin valid
        /\ lease[r] = "absent" => \A s \in SocketsOn(r) : stage[s] # "writing"

MarkerStands ==
    \A o \in Op :
        ostage[o] \in {"marked", "listed", "fenced", "committed"} /\ home[o] \in up => o \in markers

(* Sockets that will not look at the markers again. *)
Scanned(s) == stage[s] \in {"scanned", "open", "writing"}

Cut(s) == ReplicaOf[s] \in stalled \/ s \in revoked \/ lease[ReplicaOf[s]] = "absent"

(* How far revocation o has got with socket s. *)
Reached(o, s) ==
    /\ ostage[o] = "listed" =>
          /\ ReplicaOf[s] \in pending[o] \cap handling[o] => s \in revoked \cup todo[o]
          /\ ReplicaOf[s] \notin pending[o] => Cut(s)
    /\ ostage[o] \in {"fenced", "committed"} => Cut(s)

FenceReaches ==
    \A o \in Op, s \in Socket :
        home[o] \in up /\ SessionOf[s] \in covers[o] /\ Scanned(s) => Reached(o, s)

NothingHandledYet == \A o \in Op : ostage[o] # "listed" => handling[o] = {}

(* Nobody gets in with a session that a fenced revocation has revoked. *)
CutOffIsRevoked == CutOff \cap active = {}

DurablyCut ==
    \A s \in Socket : SessionOf[s] \in CutOff /\ stage[s] \in {"open", "writing"} => Cut(s)

FenceInv ==
    /\ TypeOK /\ WritesPrecedeRevocation /\ LeaseGates /\ MarkerStands
    /\ FenceReaches /\ NothingHandledYet /\ CutOffIsRevoked /\ DurablyCut

USE ReplicaOfAssumption, SessionOfAssumption, EarlierAssumption

LEMMA ScopeIsSessions ==
    ASSUME TypeOK, NEW o \in Op
    PROVE  covers[o] \in SUBSET Session /\ home[o] \in Replica
BY DEF TypeOK, Scope

(* What the cache records are sessions, and what it revokes are guards. *)
LEMMA RevokeTypes ==
    ASSUME TypeOK, NEW r \in Replica, NEW scope \in SUBSET Session, NEW leaving, Revoke(r, scope, leaving)
    PROVE  /\ records' \in [Replica -> SUBSET Session]
           /\ closedTo' \subseteq Replica
           /\ revoking' \subseteq Socket
<1>1. KeysOf(r, scope) \subseteq Session /\ Hit(r, scope) \subseteq Socket
  BY DEF KeysOf, Hit, SocketsOn, Guarded
<1>2. revoking' \subseteq Socket
  BY <1>1 DEF Revoke, TypeOK
<1>3. CASE Overflows(r, scope)
  <2>1. PICK kept \in SUBSET KeysOf(r, scope) : records' = [records EXCEPT ![r] = @ \cup kept]
    BY <1>3 DEF Revoke
  <2>2. closedTo' = closedTo \cup {r}
    BY <1>3 DEF Revoke
  <2> QED
    BY <1>1, <1>2, <2>1, <2>2 DEF TypeOK
<1>4. CASE ~Overflows(r, scope)
  <2>1. records' = [records EXCEPT ![r] = @ \cup KeysOf(r, scope)] /\ closedTo' = closedTo
    BY <1>4 DEF Revoke
  <2> QED
    BY <1>1, <1>2, <2>1 DEF TypeOK
<1> QED
  BY <1>3, <1>4

(* Every step keeps the variables in their types. *)
LEMMA TypeStep == TypeOK /\ [Next]_vars => TypeOK'
<1> SUFFICES ASSUME TypeOK, [Next]_vars PROVE TypeOK'
  OBVIOUS
<1> USE DEF askedVars, replicaVars, cacheVars, opVars, Enter, OpEnter, Serve, Unregister, Forget, SocketStage, OpStage
<1>1. ASSUME NEW s \in Socket, SocketNext(s) PROVE TypeOK'
  <2> DEFINE r == ReplicaOf[s]
  <2>0. r \in Replica /\ SessionOf[s] \in Session /\ Session \in SUBSET Session
    OBVIOUS
  <2>1. CASE Register(s)
    BY <2>1 DEF Register, TypeOK
  <2>2. CASE RegisterOwner(s)
    BY <2>2 DEF RegisterOwner, TypeOK
  <2>3. CASE LeaseVerified(s)
    BY <2>3 DEF LeaseVerified, TypeOK
  <2>4. CASE RegistrationFails(s)
    <3>1. Revoke(r, Session, {s})
      BY <2>4 DEF RegistrationFails
    <3> QED
      BY <2>0, <2>4, <3>1, RevokeTypes DEF RegistrationFails, TypeOK
  <2>5. CASE ScanMarkers(s)
    <3>1. UNION {covers[o] : o \in Matching(s)} \in SUBSET Session
      BY ScopeIsSessions DEF Matching, TypeOK
    <3>2. CASE Matching(s) = {}
      BY <2>5, <3>2 DEF ScanMarkers, TypeOK
    <3>3. CASE Matching(s) # {}
      <4>1. Revoke(r, UNION {covers[o] : o \in Matching(s)}, {s})
        BY <2>5, <3>3 DEF ScanMarkers
      <4>2. /\ records' \in [Replica -> SUBSET Session]
            /\ closedTo' \subseteq Replica
            /\ revoking' \subseteq Socket
        BY <2>0, <3>1, <4>1, RevokeTypes
      <4> QED
        BY <2>5, <3>3, <4>2 DEF ScanMarkers, TypeOK
    <3> QED
      BY <3>2, <3>3
  <2>6. CASE DurableCheck(s)
    <3>1. CASE SessionOf[s] \in active
      BY <2>6, <3>1 DEF DurableCheck, TypeOK
    <3>2. CASE SessionOf[s] \notin active
      <4>1. Revoke(r, {SessionOf[s]}, {s})
        BY <2>6, <3>2 DEF DurableCheck
      <4>2. /\ records' \in [Replica -> SUBSET Session]
            /\ closedTo' \subseteq Replica
            /\ revoking' \subseteq Socket
        BY <2>0, <4>1, RevokeTypes
      <4> QED
        BY <2>6, <3>2, <4>2 DEF DurableCheck, TypeOK
    <3> QED
      BY <3>1, <3>2
  <2>7. CASE GuardRevoked(s)
    BY <2>7 DEF GuardRevoked, TypeOK
  <2>8. CASE BeginWrite(s) \/ RefuseWrite(s) \/ EndWrite(s) \/ CloseSocket(s)
    BY <2>8 DEF BeginWrite, RefuseWrite, EndWrite, CloseSocket, TypeOK
  <2>9. CASE Recheck(s)
    <3>1. Revoke(r, {SessionOf[s]}, {s})
      BY <2>9 DEF Recheck
    <3>2. /\ records' \in [Replica -> SUBSET Session]
          /\ closedTo' \subseteq Replica
          /\ revoking' \subseteq Socket
      BY <2>0, <3>1, RevokeTypes
    <3> QED
      BY <2>9, <3>2 DEF Recheck, TypeOK
  <2> QED
    BY <1>1, <2>1, <2>2, <2>3, <2>4, <2>5, <2>6, <2>7, <2>8, <2>9 DEF SocketNext
<1>2. ASSUME NEW r \in Replica, ReplicaNext(r) PROVE TypeOK'
  <2>1. CASE RefreshLease(r) \/ AdmissionEnds(r) \/ LeaseExpires(r) \/ RecordsExpire(r)
    BY <2>1 DEF RefreshLease, AdmissionEnds, LeaseExpires, RecordsExpire, Owned, TypeOK
  <2>2. CASE RefreshFails(r)
    <3>1. Revoke(r, Session, {}) /\ Session \in SUBSET Session
      BY <2>2 DEF RefreshFails
    <3>2. /\ records' \in [Replica -> SUBSET Session]
          /\ closedTo' \subseteq Replica
          /\ revoking' \subseteq Socket
      BY <3>1, RevokeTypes
    <3> QED
      BY <2>2, <3>2 DEF RefreshFails, TypeOK
  <2>3. CASE ReplicaCrash(r)
    BY <2>3 DEF ReplicaCrash, TypeOK
  <2> QED
    BY <1>2, <2>1, <2>2, <2>3 DEF ReplicaNext
<1>3. ASSUME NEW o \in Op, OpNext(o) PROVE TypeOK'
  <2>1. CASE FenceLocal(o)
    <3>1. Revoke(home[o], covers[o], {}) /\ home[o] \in Replica /\ covers[o] \in SUBSET Session
      BY <2>1, ScopeIsSessions DEF FenceLocal
    <3>2. /\ records' \in [Replica -> SUBSET Session]
          /\ closedTo' \subseteq Replica
          /\ revoking' \subseteq Socket
      BY <3>1, RevokeTypes
    <3>3. Hit(home[o], covers[o]) \subseteq Socket
      BY DEF Hit, Guarded
    <3> QED
      BY <2>1, <3>2, <3>3 DEF FenceLocal, TypeOK
  <2>2. CASE InstallMarker(o) \/ ListOwners(o)
    BY <2>2 DEF InstallMarker, ListOwners, TypeOK
  <2>3. ASSUME NEW r \in Replica, HandleFence(o, r) PROVE TypeOK'
    <3>1. Hit(r, covers[o]) \subseteq Socket /\ covers[o] \in SUBSET Session
      BY ScopeIsSessions DEF Hit, Guarded
    <3>2. CASE Revoke(r, covers[o], {})
      <4>1. /\ records' \in [Replica -> SUBSET Session]
            /\ closedTo' \subseteq Replica
            /\ revoking' \subseteq Socket
        BY <3>1, <3>2, RevokeTypes
      <4> QED
        BY <2>3, <3>1, <4>1 DEF HandleFence, TypeOK
    <3>3. CASE UNCHANGED <<cacheVars, revoking, todo>>
      BY <2>3, <3>3 DEF HandleFence, TypeOK
    <3> QED
      BY <2>3, <3>2, <3>3 DEF HandleFence
  <2>4. ASSUME NEW r \in Replica, AckFence(o, r) PROVE TypeOK'
    BY <2>4 DEF AckFence, TypeOK
  <2>5. CASE FenceComplete(o) \/ CommitRevocation(o) \/ ReleaseTicket(o)
    BY <2>5 DEF FenceComplete, CommitRevocation, ReleaseTicket, TypeOK
  <2>6. CASE RevocationFails(o) \/ MarkerExpires(o)
    BY <2>6 DEF RevocationFails, MarkerExpires, TypeOK
  <2> QED
    BY <1>3, <2>1, <2>2, <2>3, <2>4, <2>5, <2>6 DEF OpNext
<1>4. ASSUME NEW k \in Session, ReuseRevokes(k) PROVE TypeOK'
  BY <1>4 DEF ReuseRevokes, TypeOK
<1>5. CASE UNCHANGED vars
  BY <1>5 DEF vars, TypeOK
<1> QED
  BY <1>1, <1>2, <1>3, <1>4, <1>5 DEF Next

(* A guard changes hands only between writes. *)
LEMMA WritesStep == TypeOK /\ WritesPrecedeRevocation /\ [Next]_vars => WritesPrecedeRevocation'
<1> SUFFICES ASSUME TypeOK, WritesPrecedeRevocation, [Next]_vars PROVE WritesPrecedeRevocation'
  OBVIOUS
<1> USE DEF TypeOK, WritesPrecedeRevocation, askedVars, replicaVars, cacheVars, opVars, Enter, Unregister
<1>1. ASSUME NEW s \in Socket, SocketNext(s) PROVE WritesPrecedeRevocation'
  BY <1>1 DEF SocketNext, Register, RegisterOwner, LeaseVerified, RegistrationFails, ScanMarkers,
     DurableCheck, GuardRevoked, BeginWrite, RefuseWrite, EndWrite, CloseSocket, Recheck
<1>2. ASSUME NEW r \in Replica, ReplicaNext(r) PROVE WritesPrecedeRevocation'
  BY <1>2 DEF ReplicaNext, RefreshLease, RefreshFails, AdmissionEnds, LeaseExpires, ReplicaCrash, RecordsExpire
<1>3. ASSUME NEW o \in Op, OpNext(o) PROVE WritesPrecedeRevocation'
  BY <1>3 DEF OpNext, FenceLocal, InstallMarker, ListOwners, HandleFence, AckFence, FenceComplete,
     CommitRevocation, ReleaseTicket, RevocationFails, MarkerExpires
<1>4. ASSUME NEW k \in Session, ReuseRevokes(k) PROVE WritesPrecedeRevocation'
  BY <1>4 DEF ReuseRevokes
<1>5. CASE UNCHANGED vars
  BY <1>5 DEF vars
<1> QED
  BY <1>1, <1>2, <1>3, <1>4, <1>5 DEF Next

(* The lease: admission ends before it does, and writing before it is gone. *)
LEMMA LeaseStep == TypeOK /\ LeaseGates /\ [Next]_vars => LeaseGates'
<1> SUFFICES ASSUME TypeOK, LeaseGates, [Next]_vars PROVE LeaseGates'
  OBVIOUS
<1> USE DEF TypeOK, LeaseGates, SocketsOn, askedVars, replicaVars, cacheVars, opVars, Enter, Unregister
<1>1. ASSUME NEW s \in Socket, SocketNext(s) PROVE LeaseGates'
  BY <1>1 DEF SocketNext, Register, RegisterOwner, LeaseVerified, RegistrationFails, ScanMarkers,
     DurableCheck, GuardRevoked, BeginWrite, RefuseWrite, EndWrite, CloseSocket, Recheck
<1>2. ASSUME NEW r \in Replica, ReplicaNext(r) PROVE LeaseGates'
  BY <1>2 DEF ReplicaNext, RefreshLease, RefreshFails, AdmissionEnds, LeaseExpires, ReplicaCrash, RecordsExpire
<1>3. ASSUME NEW o \in Op, OpNext(o) PROVE LeaseGates'
  BY <1>3 DEF OpNext, FenceLocal, InstallMarker, ListOwners, HandleFence, AckFence, FenceComplete,
     CommitRevocation, ReleaseTicket, RevocationFails, MarkerExpires
<1>4. ASSUME NEW k \in Session, ReuseRevokes(k) PROVE LeaseGates'
  BY <1>4 DEF ReuseRevokes
<1>5. CASE UNCHANGED vars
  BY <1>5 DEF vars
<1> QED
  BY <1>1, <1>2, <1>3, <1>4, <1>5 DEF Next

(* The marker of a revocation that can still commit is in place. *)
LEMMA MarkerStep == TypeOK /\ MarkerStands /\ [Next]_vars => MarkerStands'
<1> SUFFICES ASSUME TypeOK, MarkerStands, [Next]_vars PROVE MarkerStands'
  OBVIOUS
<1> USE DEF TypeOK, MarkerStands, askedVars, replicaVars, cacheVars, opVars
<1>1. ASSUME NEW s \in Socket, SocketNext(s) PROVE MarkerStands'
  BY <1>1 DEF SocketNext, Register, RegisterOwner, LeaseVerified, RegistrationFails, ScanMarkers,
     DurableCheck, GuardRevoked, BeginWrite, RefuseWrite, EndWrite, CloseSocket, Recheck
<1>2. ASSUME NEW r \in Replica, ReplicaNext(r) PROVE MarkerStands'
  BY <1>2 DEF ReplicaNext, RefreshLease, RefreshFails, AdmissionEnds, LeaseExpires, ReplicaCrash, RecordsExpire
<1>3. ASSUME NEW o \in Op, OpNext(o) PROVE MarkerStands'
  BY <1>3 DEF OpNext, OpEnter, Serve, FenceLocal, InstallMarker, ListOwners, HandleFence, AckFence,
     FenceComplete, CommitRevocation, ReleaseTicket, RevocationFails, MarkerExpires
<1>4. ASSUME NEW k \in Session, ReuseRevokes(k) PROVE MarkerStands'
  BY <1>4 DEF ReuseRevokes
<1>5. CASE UNCHANGED vars
  BY <1>5 DEF vars
<1> QED
  BY <1>1, <1>2, <1>3, <1>4, <1>5 DEF Next

(* Whoever is cut off stays so until the handler has returned. *)
LEMMA CutStays ==
    ASSUME TypeOK, LeaseGates, [Next]_vars, NEW s \in Socket, Cut(s),
           stage[s] \in {"scanned", "open", "writing"}, stage'[s] \notin {"off", "closed"}
    PROVE  Cut(s)'
<1> USE DEF TypeOK, Cut, SocketsOn, Guarded, askedVars, replicaVars, cacheVars, opVars, Enter, Unregister
<1>1. ASSUME NEW t \in Socket, SocketNext(t) PROVE Cut(s)'
  BY <1>1 DEF SocketNext, Register, RegisterOwner, LeaseVerified, RegistrationFails, ScanMarkers,
     DurableCheck, GuardRevoked, BeginWrite, RefuseWrite, EndWrite, CloseSocket, Recheck
<1>2. ASSUME NEW r \in Replica, ReplicaNext(r) PROVE Cut(s)'
  <2>1. CASE RefreshLease(r)
    <3>1. CASE r # ReplicaOf[s]
      BY <2>1, <3>1 DEF RefreshLease
    <3>2. CASE r = ReplicaOf[s] /\ s \notin revoked /\ r \notin stalled
      <4>1. lease[r] = "absent" /\ stage[s] # "writing"
        BY <3>2 DEF LeaseGates
      <4>2. Unnoticed(r)
        BY <3>2, <4>1 DEF Unnoticed
      <4> QED
        BY <2>1, <3>2, <4>2 DEF RefreshLease
    <3>3. CASE s \in revoked \/ ReplicaOf[s] \in stalled
      BY <2>1, <3>3 DEF RefreshLease
    <3> QED
      BY <3>1, <3>2, <3>3
  <2>2. CASE RefreshFails(r) \/ AdmissionEnds(r) \/ LeaseExpires(r) \/ ReplicaCrash(r) \/ RecordsExpire(r)
    BY <2>2 DEF RefreshFails, AdmissionEnds, LeaseExpires, ReplicaCrash, RecordsExpire
  <2> QED
    BY <1>2, <2>1, <2>2 DEF ReplicaNext
<1>3. ASSUME NEW o \in Op, OpNext(o) PROVE Cut(s)'
  BY <1>3 DEF OpNext, FenceLocal, InstallMarker, ListOwners, HandleFence, AckFence, FenceComplete,
     CommitRevocation, ReleaseTicket, RevocationFails, MarkerExpires
<1>4. ASSUME NEW k \in Session, ReuseRevokes(k) PROVE Cut(s)'
  BY <1>4 DEF ReuseRevokes
<1>5. CASE UNCHANGED vars
  BY <1>5 DEF vars
<1> QED
  BY <1>1, <1>2, <1>3, <1>4, <1>5 DEF Next

(* What a request asks for does not change. *)
LEMMA AskedStays == [Next]_vars => UNCHANGED <<home, covers>>
<1> SUFFICES ASSUME [Next]_vars PROVE UNCHANGED <<home, covers>>
  OBVIOUS
<1> USE DEF askedVars, replicaVars
<1>1. ASSUME NEW s \in Socket, SocketNext(s) PROVE UNCHANGED <<home, covers>>
  BY <1>1 DEF SocketNext, Register, RegisterOwner, LeaseVerified, RegistrationFails, ScanMarkers,
     DurableCheck, GuardRevoked, BeginWrite, RefuseWrite, EndWrite, CloseSocket, Recheck
<1>2. ASSUME NEW r \in Replica, ReplicaNext(r) PROVE UNCHANGED <<home, covers>>
  BY <1>2 DEF ReplicaNext, RefreshLease, RefreshFails, AdmissionEnds, LeaseExpires, ReplicaCrash, RecordsExpire
<1>3. ASSUME NEW o \in Op, OpNext(o) PROVE UNCHANGED <<home, covers>>
  BY <1>3 DEF OpNext, FenceLocal, InstallMarker, ListOwners, HandleFence, AckFence, FenceComplete,
     CommitRevocation, ReleaseTicket, RevocationFails, MarkerExpires
<1> QED
  BY <1>1, <1>2, <1>3 DEF Next, ReuseRevokes, vars

(* Revocations reach every socket that will not meet their marker. *)
LEMMA ReachStep ==
    FenceInv /\ [Next]_vars => FenceReaches' /\ NothingHandledYet'
<1> SUFFICES ASSUME FenceInv, [Next]_vars PROVE FenceReaches' /\ NothingHandledYet'
  OBVIOUS
<1> USE DEF FenceInv, TypeOK
<1>1. NothingHandledYet'
  <2>1. ASSUME NEW o \in Op, OpNext(o) PROVE NothingHandledYet'
    BY <2>1 DEF NothingHandledYet, OpNext, OpEnter, Serve, Forget, FenceLocal, InstallMarker, ListOwners,
       HandleFence, AckFence, FenceComplete, CommitRevocation, ReleaseTicket, RevocationFails, MarkerExpires
  <2>2. ASSUME UNCHANGED opVars PROVE NothingHandledYet'
    BY <2>2 DEF NothingHandledYet, opVars
  <2>3. ASSUME NEW s \in Socket, SocketNext(s) PROVE UNCHANGED opVars
    BY <2>3 DEF SocketNext, Register, RegisterOwner, LeaseVerified, RegistrationFails, ScanMarkers,
     DurableCheck, GuardRevoked, BeginWrite, RefuseWrite, EndWrite, CloseSocket, Recheck
  <2>4. ASSUME NEW r \in Replica, ReplicaNext(r) PROVE UNCHANGED opVars
    BY <2>4 DEF ReplicaNext, RefreshLease, RefreshFails, AdmissionEnds, LeaseExpires, ReplicaCrash, RecordsExpire
  <2>5. ASSUME NEW k \in Session, ReuseRevokes(k) PROVE UNCHANGED opVars
    BY <2>5 DEF ReuseRevokes
  <2> QED
    BY <2>1, <2>2, <2>3, <2>4, <2>5 DEF Next, vars
<1>2. FenceReaches'
  <2>0. home' = home /\ covers' = covers
    BY AskedStays
  <2> SUFFICES ASSUME NEW o \in Op, NEW s \in Socket,
                      home[o] \in up', SessionOf[s] \in covers[o], Scanned(s)'
               PROVE  Reached(o, s)'
    BY <2>0 DEF FenceReaches
  <2>1. Cut(s) /\ Scanned(s) => Cut(s)'
    BY CutStays DEF Scanned
  <2>2. home[o] \in up
    <3>1. ASSUME NEW t \in Socket, SocketNext(t) PROVE up' = up
      BY <3>1 DEF SocketNext, Register, RegisterOwner, LeaseVerified, RegistrationFails, ScanMarkers,
       DurableCheck, GuardRevoked, BeginWrite, RefuseWrite, EndWrite, CloseSocket, Recheck, replicaVars
    <3>2. ASSUME NEW r \in Replica, ReplicaNext(r) PROVE up' \subseteq up
      BY <3>2 DEF ReplicaNext, RefreshLease, RefreshFails, AdmissionEnds, LeaseExpires, ReplicaCrash,
         RecordsExpire, replicaVars
    <3>3. ASSUME NEW q \in Op, OpNext(q) PROVE up' = up
      BY <3>3 DEF OpNext, FenceLocal, InstallMarker, ListOwners, HandleFence, AckFence, FenceComplete,
         CommitRevocation, ReleaseTicket, RevocationFails, MarkerExpires, replicaVars
    <3>4. ASSUME NEW k \in Session, ReuseRevokes(k) PROVE up' = up
      BY <3>4 DEF ReuseRevokes, replicaVars
    <3> QED
      BY <3>1, <3>2, <3>3, <3>4 DEF Next, vars, replicaVars
  <2>3. Scanned(s) => Reached(o, s)
    BY <2>2 DEF FenceReaches
  <2>4. ASSUME s \in revoked PROVE s \in revoked'
    <3> USE <2>4 DEF SocketsOn, Guarded, Scanned, Enter, Unregister
    <3>1. ASSUME NEW t \in Socket, SocketNext(t) PROVE s \in revoked'
      BY <3>1 DEF SocketNext, Register, RegisterOwner, LeaseVerified, RegistrationFails, ScanMarkers,
         DurableCheck, GuardRevoked, BeginWrite, RefuseWrite, EndWrite, CloseSocket, Recheck
    <3>2. ASSUME NEW r \in Replica, ReplicaNext(r) PROVE s \in revoked'
      BY <3>2 DEF ReplicaNext, RefreshLease, RefreshFails, AdmissionEnds, LeaseExpires, ReplicaCrash, RecordsExpire
    <3>3. ASSUME NEW q \in Op, OpNext(q) PROVE s \in revoked'
      BY <3>3 DEF OpNext, FenceLocal, InstallMarker, ListOwners, HandleFence, AckFence, FenceComplete,
         CommitRevocation, ReleaseTicket, RevocationFails, MarkerExpires
    <3>4. ASSUME NEW k \in Session, ReuseRevokes(k) PROVE s \in revoked'
      BY <3>4 DEF ReuseRevokes
    <3> QED
      BY <3>1, <3>2, <3>3, <3>4 DEF Next, vars
  <2>5. ASSUME UNCHANGED opVars, Scanned(s) PROVE Reached(o, s)'
    BY <2>1, <2>3, <2>4, <2>5 DEF Reached, opVars
  <2>6. ASSUME NEW t \in Socket, SocketNext(t) PROVE Reached(o, s)'
    <3>1. UNCHANGED opVars
      BY <2>6 DEF SocketNext, Register, RegisterOwner, LeaseVerified, RegistrationFails, ScanMarkers,
         DurableCheck, GuardRevoked, BeginWrite, RefuseWrite, EndWrite, CloseSocket, Recheck
    <3>2. CASE Scanned(s)
      BY <2>5, <3>1, <3>2
    <3>3. CASE ~Scanned(s)
      <4>1. t = s /\ ScanMarkers(s)
        BY <2>6, <3>3 DEF Scanned, Enter, Unregister, SocketNext, Register, RegisterOwner, LeaseVerified,
           RegistrationFails, ScanMarkers, DurableCheck, GuardRevoked, BeginWrite, RefuseWrite, EndWrite,
           CloseSocket, Recheck
      <4>2. CASE ostage[o] \in {"listed", "fenced", "committed"}
        <5>1. o \in Matching(s)
          BY <2>2, <4>2 DEF MarkerStands, Matching
        <5>2. s \in revoked'
          BY <4>1, <5>1 DEF ScanMarkers
        <5> QED
          BY <3>1, <5>2 DEF Reached, Cut, opVars
      <4>3. CASE ostage[o] \notin {"listed", "fenced", "committed"}
        BY <3>1, <4>3 DEF Reached, opVars
      <4> QED
        BY <4>2, <4>3
    <3> QED
      BY <3>2, <3>3
  <2>7. ASSUME NEW r \in Replica, ReplicaNext(r) PROVE Reached(o, s)'
    <3>1. UNCHANGED opVars /\ Scanned(s)
      BY <2>7 DEF Scanned, ReplicaNext, RefreshLease, RefreshFails, AdmissionEnds, LeaseExpires,
         ReplicaCrash, RecordsExpire
    <3> QED
      BY <2>5, <3>1
  <2>8. ASSUME NEW q \in Op, OpNext(q) PROVE Reached(o, s)'
    <3>1. stage' = stage /\ Scanned(s)
      BY <2>8 DEF Scanned, OpNext, FenceLocal, InstallMarker, ListOwners, HandleFence, AckFence,
         FenceComplete, CommitRevocation, ReleaseTicket, RevocationFails, MarkerExpires
    <3> USE <2>1, <2>3, <2>4, <3>1 DEF Reached, OpEnter, Serve, Forget
    <3>2. CASE FenceLocal(q) \/ InstallMarker(q) \/ RevocationFails(q) \/ MarkerExpires(q) \/ ReleaseTicket(q)
      BY <3>2 DEF FenceLocal, InstallMarker, RevocationFails, MarkerExpires, ReleaseTicket
    <3>3. CASE ListOwners(q)
      BY <3>3 DEF ListOwners, NothingHandledYet, Cut
    <3>4. ASSUME NEW r \in Replica, HandleFence(q, r) PROVE Reached(o, s)'
      <4>1. CASE q = o /\ r = ReplicaOf[s]
        <5>1. s \in Owned \cap SocketsOn(r) /\ s \in Guarded
          BY <4>1, <3>1 DEF Scanned, Owned, SocketsOn, Guarded
        <5>2. s \in Hit(r, covers[o])
          BY <5>1 DEF Hit
        <5>3. todo'[o] = todo[o] \cup Hit(r, covers[o])
          BY <3>4, <4>1, <5>1 DEF HandleFence
        <5> QED
          BY <3>4, <4>1, <5>2, <5>3 DEF HandleFence
      <4>2. CASE ~(q = o /\ r = ReplicaOf[s])
        <5>1. /\ ReplicaOf[s] \in handling'[o] => ReplicaOf[s] \in handling[o]
              /\ todo[o] \subseteq todo'[o]
          BY <3>4, <4>2 DEF HandleFence
        <5> QED
          BY <3>4, <5>1 DEF HandleFence
      <4> QED
        BY <4>1, <4>2
    <3>5. ASSUME NEW r \in Replica, AckFence(q, r) PROVE Reached(o, s)'
      <4>1. CASE q = o /\ r = ReplicaOf[s]
        <5>1. s \in revoked
          BY <3>5, <4>1 DEF AckFence, Fenced, SocketsOn, Scanned
        <5> QED
          BY <3>5, <4>1, <5>1 DEF AckFence, Cut
      <4>2. CASE ~(q = o /\ r = ReplicaOf[s])
        BY <3>5, <4>2 DEF AckFence
      <4> QED
        BY <4>1, <4>2
    <3>6. CASE FenceComplete(q) \/ CommitRevocation(q)
      BY <3>6 DEF FenceComplete, CommitRevocation
    <3> QED
      BY <2>8, <3>2, <3>3, <3>4, <3>5, <3>6 DEF OpNext
  <2>9. ASSUME NEW k \in Session, ReuseRevokes(k) PROVE Reached(o, s)'
    BY <2>5, <2>9 DEF ReuseRevokes, Scanned
  <2>10. CASE UNCHANGED vars
    BY <2>5, <2>10 DEF vars, opVars, Scanned
  <2> QED
    BY <2>6, <2>7, <2>8, <2>9, <2>10 DEF Next
<1> QED
  BY <1>1, <1>2

(* Which sessions a fenced revocation has revoked changes with its commit. *)
LEMMA CutOffMoves ==
    ASSUME TypeOK, [Next]_vars
    PROVE  \/ CutOff' = CutOff
           \/ \E o \in Op : CommitRevocation(o) /\ CutOff' = CutOff \cup covers[o]
<1>0. home' = home /\ covers' = covers
  BY AskedStays
<1>1. ASSUME NEW o \in Op, CommitRevocation(o) PROVE CutOff' = CutOff \cup covers[o]
  <2>1. ostage' = [ostage EXCEPT ![o] = "committed"] /\ ostage[o] = "fenced"
    BY <1>1 DEF CommitRevocation, Serve, OpEnter
  <2> QED
    BY <1>0, <2>1 DEF CutOff, TypeOK
<1>2. ASSUME \A o \in Op : ostage'[o] \in {"committed", "done"} <=> ostage[o] \in {"committed", "done"}
      PROVE  CutOff' = CutOff
  BY <1>0, <1>2 DEF CutOff
<1>3. ASSUME NEW s \in Socket, SocketNext(s) PROVE CutOff' = CutOff
  BY <1>2, <1>3 DEF SocketNext, Register, RegisterOwner, LeaseVerified, RegistrationFails, ScanMarkers,
     DurableCheck, GuardRevoked, BeginWrite, RefuseWrite, EndWrite, CloseSocket, Recheck, opVars
<1>4. ASSUME NEW r \in Replica, ReplicaNext(r) PROVE CutOff' = CutOff
  BY <1>2, <1>4 DEF ReplicaNext, RefreshLease, RefreshFails, AdmissionEnds, LeaseExpires, ReplicaCrash,
     RecordsExpire, opVars
<1>5. ASSUME NEW o \in Op, OpNext(o), ~CommitRevocation(o) PROVE CutOff' = CutOff
  <2>1. \A q \in Op : ostage'[q] \in {"committed", "done"} <=> ostage[q] \in {"committed", "done"}
    BY <1>5 DEF TypeOK, OpStage, OpNext, OpEnter, Serve, FenceLocal, InstallMarker, ListOwners, HandleFence, AckFence,
       FenceComplete, ReleaseTicket, RevocationFails, MarkerExpires
  <2> QED
    BY <1>2, <2>1
<1>6. CASE UNCHANGED vars \/ \E k \in Session : ReuseRevokes(k)
  BY <1>2, <1>6 DEF vars, opVars, ReuseRevokes
<1> QED
  BY <1>1, <1>3, <1>4, <1>5, <1>6 DEF Next

(* active shrinks. *)
LEMMA ActiveShrinks == [Next]_vars => active' \subseteq active
<1> SUFFICES ASSUME [Next]_vars PROVE active' \subseteq active
  OBVIOUS
<1>1. ASSUME NEW s \in Socket, SocketNext(s) PROVE active' = active
  BY <1>1 DEF SocketNext, Register, RegisterOwner, LeaseVerified, RegistrationFails, ScanMarkers,
     DurableCheck, GuardRevoked, BeginWrite, RefuseWrite, EndWrite, CloseSocket, Recheck
<1>2. ASSUME NEW r \in Replica, ReplicaNext(r) PROVE active' = active
  BY <1>2 DEF ReplicaNext, RefreshLease, RefreshFails, AdmissionEnds, LeaseExpires, ReplicaCrash, RecordsExpire
<1>3. ASSUME NEW o \in Op, OpNext(o) PROVE active' \subseteq active
  BY <1>3 DEF OpNext, FenceLocal, InstallMarker, ListOwners, HandleFence, AckFence, FenceComplete,
     CommitRevocation, ReleaseTicket, RevocationFails, MarkerExpires
<1> QED
  BY <1>1, <1>2, <1>3 DEF Next, ReuseRevokes, vars

(* Whom a fenced revocation revokes is cut off before, and the durable      *)
(* check lets nobody in afterwards.                                         *)
LEMMA DurableStep == FenceInv /\ [Next]_vars => CutOffIsRevoked' /\ DurablyCut'
<1> SUFFICES ASSUME FenceInv, [Next]_vars PROVE CutOffIsRevoked' /\ DurablyCut'
  OBVIOUS
<1> USE DEF FenceInv, TypeOK
<1>1. CutOffIsRevoked'
  <2>1. CASE CutOff' = CutOff
    BY <2>1, ActiveShrinks DEF CutOffIsRevoked
  <2>2. ASSUME NEW o \in Op, CommitRevocation(o), CutOff' = CutOff \cup covers[o] PROVE CutOffIsRevoked'
    BY <2>2 DEF CommitRevocation, CutOffIsRevoked
  <2> QED
    BY <2>1, <2>2, CutOffMoves
<1>2. ASSUME NEW s \in Socket, SessionOf[s] \in CutOff', stage'[s] \in {"open", "writing"} PROVE Cut(s)'
  <2>1. stage[s] \in {"open", "writing"}
    <3>1. ASSUME NEW t \in Socket, SocketNext(t) PROVE stage[s] \in {"open", "writing"}
      <4>1. SessionOf[s] \notin active
        BY <1>1, <1>2, <3>1, ActiveShrinks DEF CutOffIsRevoked, SocketNext, Register, RegisterOwner, LeaseVerified,
           RegistrationFails, ScanMarkers, DurableCheck, GuardRevoked, BeginWrite, RefuseWrite, EndWrite,
           CloseSocket, Recheck
      <4> QED
        BY <1>2, <3>1, <4>1 DEF SocketNext, Register, RegisterOwner, LeaseVerified, RegistrationFails, ScanMarkers,
           DurableCheck, GuardRevoked, BeginWrite, RefuseWrite, EndWrite, CloseSocket, Recheck, Enter, Unregister
    <3>2. ASSUME NEW r \in Replica, ReplicaNext(r) PROVE stage[s] \in {"open", "writing"}
      BY <1>2, <3>2 DEF ReplicaNext, RefreshLease, RefreshFails, AdmissionEnds, LeaseExpires, ReplicaCrash, RecordsExpire
    <3>3. ASSUME NEW o \in Op, OpNext(o) PROVE stage[s] \in {"open", "writing"}
      BY <1>2, <3>3 DEF OpNext, FenceLocal, InstallMarker, ListOwners, HandleFence, AckFence, FenceComplete,
         CommitRevocation, ReleaseTicket, RevocationFails, MarkerExpires
    <3>4. CASE UNCHANGED vars \/ \E k \in Session : ReuseRevokes(k)
      BY <1>2, <3>4 DEF vars, ReuseRevokes
    <3> QED
      BY <3>1, <3>2, <3>3, <3>4 DEF Next
  <2>2. Cut(s) => Cut(s)'
    BY <1>2, <2>1, CutStays
  <2>3. CASE SessionOf[s] \in CutOff
    BY <2>1, <2>2, <2>3 DEF DurablyCut
  <2>4. ASSUME NEW o \in Op, CommitRevocation(o), SessionOf[s] \in covers[o] PROVE Cut(s)'
    <3>1. Cut(s)
      BY <2>1, <2>4 DEF CommitRevocation, Serve, FenceReaches, Reached, Scanned
    <3> QED
      BY <2>2, <3>1
  <2> QED
    BY <1>2, <2>3, <2>4, CutOffMoves
<1> QED
  BY <1>1, <1>2 DEF DurablyCut

LEMMA FenceInitInv == Init => FenceInv
<1> SUFFICES ASSUME Init PROVE FenceInv
  OBVIOUS
<1>1. TypeOK
  BY DEF Init, TypeOK, SocketStage, OpStage
<1>2. WritesPrecedeRevocation /\ LeaseGates /\ MarkerStands
  BY DEF Init, WritesPrecedeRevocation, LeaseGates, MarkerStands
<1>3. FenceReaches /\ NothingHandledYet /\ DurablyCut
  BY DEF Init, FenceReaches, Scanned, NothingHandledYet, DurablyCut
<1>4. CutOffIsRevoked
  BY DEF Init, CutOff, CutOffIsRevoked
<1> QED
  BY <1>1, <1>2, <1>3, <1>4 DEF FenceInv

(* The fence's state keeps its types, stalls or not.                        *)
THEOREM FenceTypeCorrect == SafetySpec => []TypeOK
<1>1. Init => TypeOK
  BY FenceInitInv DEF FenceInv
<1> QED
  BY <1>1, TypeStep, PTL DEF SafetySpec

(* A guard is never revoked in the middle of a write, stalls or not: the    *)
(* mutex of realtimeSessionGuard orders what was being sent before it.      *)
THEOREM WritesComeFirst == SafetySpec => []WritesPrecedeRevocation
<1>1. Init => WritesPrecedeRevocation
  BY FenceInitInv DEF FenceInv
<1> QED
  BY <1>1, FenceTypeCorrect, WritesStep, PTL DEF SafetySpec

(* What the fence keeps true, with any number of revocations under way.     *)
THEOREM FenceInvariance == SafetySpec => []FenceInv
<1>1. FenceInv /\ [Next]_vars => FenceInv'
  BY TypeStep, WritesStep, LeaseStep, MarkerStep, ReachStep, DurableStep DEF FenceInv
<1> QED
  BY FenceInitInv, <1>1, PTL DEF SafetySpec

(* Once logout, a password reset or an erasure has committed, no replica is *)
(* sending or can start to send on a socket of the session, unless it has   *)
(* stalled past its lease unnoticed: every socket that passed the marker    *)
(* scan was fenced, by the revocation or by its replica's failed refreshes, *)
(* or its replica's lease is gone.                                          *)
THEOREM RevocationSilences == SafetySpec => []RevokedSessionIsSilent
<1>1. FenceInv => RevokedSessionIsSilent
  <2> SUFFICES ASSUME FenceInv, NEW s \in Socket, SessionOf[s] \in CutOff, ReplicaOf[s] \notin stalled
               PROVE  stage[s] # "writing" /\ ~CanSend(s)
    BY DEF RevokedSessionIsSilent
  <2>1. stage[s] \in {"open", "writing"} => s \in revoked \/ lease[ReplicaOf[s]] = "absent"
    BY DEF FenceInv, DurablyCut, Cut
  <2>2. stage[s] # "writing"
    BY <2>1 DEF FenceInv, TypeOK, WritesPrecedeRevocation, LeaseGates, SocketsOn
  <2>3. ~CanSend(s)
    BY <2>1 DEF FenceInv, TypeOK, LeaseGates, SocketsOn, CanSend
  <2> QED
    BY <2>2, <2>3
<1> QED
  BY FenceInvariance, <1>1, PTL
=============================================================================
