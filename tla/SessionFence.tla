---------------------------- MODULE SessionFence ----------------------------
(***************************************************************************)
(* How logout, password reset and account deletion cut off the WebSockets  *)
(* of a user's sessions on every replica before the database says so.      *)
(*                                                                         *)
(* A socket registers a guard with its replica's revocation cache and an   *)
(* owner with the bus, checks that the replica's owner lease is fresh,     *)
(* scans the fence markers, checks the session in the database and only    *)
(* then sends, every send passing the guard.  A revocation fences its own  *)
(* replica, installs a marker, lists the replicas that hold a lease, has   *)
(* each of them fence its owners and acknowledge, commits the database     *)
(* change and removes the marker.                                          *)
(*                                                                         *)
(* One user.  Time is abstract: a lease is "fresh" for the admission       *)
(* window of three seconds after a refresh, then "draining" until its      *)
(* fifteen seconds are over, then "absent".                                *)
(*                                                                         *)
(* Two things break the chain, and both are steps of the model: a refresh  *)
(* token used twice revokes its session without a fence, and a process may *)
(* stall for longer than its lease lives and refresh it afterwards.  The   *)
(* five-second recheck is all there is against either.                     *)
(***************************************************************************)
EXTENDS Naturals, FiniteSets

CONSTANTS
    Replica,   \* API processes (replicaID, generation)
    Session,   \* sessions of the user
    Socket,    \* WebSocket connections, each used once
    ReplicaOf, \* [Socket -> Replica]
    SessionOf, \* [Socket -> Session]
    Op,        \* revocations
    Capacity,  \* sessionRevocationCacheCapacity
    Earlier    \* sessions revoked just before, still recorded by every replica

ASSUME ReplicaOfAssumption == ReplicaOf \in [Socket -> Replica]
ASSUME SessionOfAssumption == SessionOf \in [Socket -> Session]
ASSUME CapacityAssumption == Capacity \in Nat \ {0}
ASSUME EarlierAssumption == Earlier \subseteq Session

VARIABLES
    active,   \* sessions that are not revoked in the database
    home,     \* [Op -> Replica]: the process that serves the request
    covers,   \* [Op -> SUBSET Session]: what it revokes
    up,       \* replicas that run
    lease,    \* [Replica -> {"fresh", "draining", "absent"}]: owner KV entry
    stalled,  \* history: replicas whose lease ended unnoticed while they served
    records,  \* [Replica -> SUBSET Session]: sessionRevocationCache.records
    closedTo, \* replicas in a fail-closed epoch (failClosedUntil)
    stage,    \* [Socket -> SocketStage]
    valid,    \* sockets whose owner's validUntil lies ahead
    revoked,  \* sockets whose guard is revoked
    revoking, \* sockets on whose guard a Revoke waits for the mutex
    markers,  \* revocations whose fence marker is in the KV bucket
    ostage,   \* [Op -> OpStage]
    pending,  \* [Op -> SUBSET Replica]: listed replicas still to acknowledge
    handling, \* [Op -> SUBSET Replica]: replicas that received the command
    todo      \* [Op -> SUBSET Socket]: sockets whose fencing the revocation awaits

askedVars == <<home, covers>>
replicaVars == <<askedVars, up, lease, stalled>>
cacheVars == <<records, closedTo>>
opVars == <<markers, ostage, pending, handling, todo>>
vars == <<active, replicaVars, cacheVars, stage, valid, revoked, revoking, opVars>>

SocketStage == {"off", "guarded", "owned", "leased", "scanned", "open", "writing", "closed"}
OpStage == {"off", "local", "marked", "listed", "fenced", "committed", "done", "failed"}

(* A logout revokes the session that asks for it, a reset or a deletion all. *)
Scope == {Session} \cup {{k} : k \in Session \ Earlier}

TypeOK ==
    /\ active \subseteq Session
    /\ home \in [Op -> Replica]
    /\ covers \in [Op -> Scope]
    /\ up \subseteq Replica
    /\ lease \in [Replica -> {"fresh", "draining", "absent"}]
    /\ stalled \subseteq Replica
    /\ records \in [Replica -> SUBSET Session]
    /\ closedTo \subseteq Replica
    /\ stage \in [Socket -> SocketStage]
    /\ valid \subseteq Socket
    /\ revoked \subseteq Socket
    /\ revoking \subseteq Socket
    /\ markers \subseteq Op
    /\ ostage \in [Op -> OpStage]
    /\ pending \in [Op -> SUBSET Replica]
    /\ handling \in [Op -> SUBSET Replica]
    /\ todo \in [Op -> SUBSET Socket]

Init ==
    /\ active = Session \ Earlier
    /\ home \in [Op -> Replica]
    /\ covers \in [Op -> Scope]
    /\ up = Replica
    /\ lease = [r \in Replica |-> "fresh"]
    /\ stalled = {}
    /\ records = [r \in Replica |-> Earlier]
    /\ closedTo = {}
    /\ stage = [s \in Socket |-> "off"]
    /\ valid = {}
    /\ revoked = {}
    /\ revoking = {}
    /\ markers = {}
    /\ ostage = [o \in Op |-> "off"]
    /\ pending = [o \in Op |-> {}]
    /\ handling = [o \in Op |-> {}]
    /\ todo = [o \in Op |-> {}]

SocketsOn(r) == {s \in Socket : ReplicaOf[s] = r}
Guarded == {s \in Socket : stage[s] \notin {"off", "closed"}}
Owned == {s \in Socket : stage[s] \in {"owned", "leased", "scanned", "open", "writing"}}

(***************************************************************************)
(* sessionRevocationCache.Revoke on a replica: record the sessions, or     *)
(* fail closed when the records are full, and revoke the matching guards;  *)
(* a guard whose socket is writing is revoked when the write is over.      *)
(***************************************************************************)

(* Faulty variant: the guards' sockets are recorded, not their sessions. *)
KeysOfSockets(r, scope) ==
    IF scope = Session THEN Guarded \cap SocketsOn(r) ELSE scope

(* A user-wide revocation records the sessions that have a guard now. *)
KeysOf(r, scope) ==
    IF scope = Session THEN {SessionOf[s] : s \in Guarded \cap SocketsOn(r)} ELSE scope

Overflows(r, scope) == Cardinality(records[r] \cup KeysOf(r, scope)) > Capacity

Hit(r, scope) ==
    {s \in Guarded \cap SocketsOn(r) : Overflows(r, scope) \/ SessionOf[s] \in scope}

Revoke(r, scope, leaving) ==
    /\ revoking' = (revoking \cup Hit(r, scope)) \ leaving
    /\ IF Overflows(r, scope)
         THEN /\ \E kept \in SUBSET KeysOf(r, scope) :
                   /\ Cardinality(records[r] \cup kept) = Capacity
                   /\ records' = [records EXCEPT ![r] = @ \cup kept]
              /\ closedTo' = closedTo \cup {r}
         ELSE /\ records' = [records EXCEPT ![r] = @ \cup KeysOf(r, scope)]
              /\ UNCHANGED closedTo

(* Faulty variant: the flag is set without the mutex. *)
GuardRevokedAtOnce(s) ==
    /\ s \in revoking
    /\ revoking' = revoking \ {s}
    /\ revoked' = revoked \cup {s}
    /\ UNCHANGED <<active, replicaVars, cacheVars, stage, valid, opVars>>

(* realtimeSessionGuard.Revoke gets the mutex. *)
GuardRevoked(s) ==
    /\ s \in revoking
    /\ stage[s] # "writing"
    /\ revoking' = revoking \ {s}
    /\ revoked' = revoked \cup {s}
    /\ UNCHANGED <<active, replicaVars, cacheVars, stage, valid, opVars>>

(* The thirty seconds of retention pass. *)
RecordsExpire(r) ==
    /\ records[r] # {} \/ r \in closedTo
    /\ records' = [records EXCEPT ![r] = {}]
    /\ closedTo' = closedTo \ {r}
    /\ UNCHANGED <<active, replicaVars, stage, valid, revoked, revoking, opVars>>

(***************************************************************************)
(* A socket.                                                               *)
(***************************************************************************)

Enter(s, st) == stage' = [stage EXCEPT ![s] = st]

(* The handler returns: the owner is closed and the guard unregistered. *)
Unregister(s) ==
    /\ Enter(s, "closed")
    /\ valid' = valid \ {s}
    /\ revoked' = revoked \ {s}

Register(s) ==
    LET r == ReplicaOf[s]
    IN  /\ stage[s] = "off"
        /\ r \in up
        /\ Enter(s, "guarded")
        /\ revoked' = IF r \in closedTo \/ SessionOf[s] \in records[r]
                        THEN revoked \cup {s} ELSE revoked
        /\ UNCHANGED <<active, replicaVars, cacheVars, valid, revoking, opVars>>

RegisterOwner(s) ==
    /\ stage[s] = "guarded"
    /\ Enter(s, "owned")
    /\ UNCHANGED <<active, replicaVars, cacheVars, valid, revoked, revoking, opVars>>

(* The lease must have been refreshed within the admission window. *)
LeaseVerified(s) ==
    /\ stage[s] = "owned"
    /\ lease[ReplicaOf[s]] = "fresh"
    /\ Enter(s, "leased")
    /\ valid' = valid \cup {s}
    /\ UNCHANGED <<active, replicaVars, cacheVars, revoked, revoking, opVars>>

(* Registration fails: the owner fences the whole user on this replica and  *)
(* the request is refused.                                                  *)
RegistrationFails(s) ==
    /\ \/ stage[s] = "owned" /\ lease[ReplicaOf[s]] # "fresh"
       \/ stage[s] = "leased"
    /\ Revoke(ReplicaOf[s], Session, {s})
    /\ Unregister(s)
    /\ UNCHANGED <<active, replicaVars, opVars>>

(* Faulty variant: registration does not scan the markers. *)
MatchingNone(s) == {}
Matching(s) == {o \in markers : SessionOf[s] \in covers[o]}

(* Every marker that applies fences this replica's guards, this socket's    *)
(* among them, before RegisterSessionOwner returns.                         *)
ScanMarkers(s) ==
    LET scope == UNION {covers[o] : o \in Matching(s)}
    IN  /\ stage[s] = "leased"
        /\ Enter(s, "scanned")
        /\ IF Matching(s) = {}
             THEN UNCHANGED <<cacheVars, revoked, revoking>>
             ELSE /\ Revoke(ReplicaOf[s], scope, {s})
                  /\ revoked' = revoked \cup {s}
        /\ UNCHANGED <<active, replicaVars, valid, opVars>>

(* SessionActive, after the owner is registered. *)
DurableCheck(s) ==
    /\ stage[s] = "scanned"
    /\ \/ /\ SessionOf[s] \in active
          /\ s \notin revoked
          /\ Enter(s, "open")
          /\ UNCHANGED <<cacheVars, valid, revoked, revoking>>
       \/ /\ SessionOf[s] \in active
          /\ s \in revoked
          /\ Unregister(s)
          /\ revoking' = revoking \ {s}
          /\ UNCHANGED cacheVars
       \/ /\ SessionOf[s] \notin active
          /\ Revoke(ReplicaOf[s], {SessionOf[s]}, {s})
          /\ Unregister(s)
    /\ UNCHANGED <<active, replicaVars, opVars>>

(* guard.WhileActive: an event, a hello or a typing notice goes out. *)
BeginWrite(s) ==
    /\ stage[s] = "open"
    /\ s \notin revoked
    /\ s \in valid
    /\ Enter(s, "writing")
    /\ UNCHANGED <<active, replicaVars, cacheVars, valid, revoked, revoking, opVars>>

(* WhileActive finds the lease lapsed and revokes the guard. *)
RefuseWrite(s) ==
    /\ stage[s] = "open"
    /\ s \notin revoked
    /\ s \notin valid
    /\ revoked' = revoked \cup {s}
    /\ UNCHANGED <<active, replicaVars, cacheVars, stage, valid, revoking, opVars>>

EndWrite(s) ==
    /\ stage[s] = "writing"
    /\ Enter(s, "open")
    /\ UNCHANGED <<active, replicaVars, cacheVars, valid, revoked, revoking, opVars>>

(* The loop sees the guard revoked, the client goes away, or the upgrade or *)
(* the durable check fails.                                                 *)
CloseSocket(s) ==
    /\ stage[s] \in {"scanned", "open"}
    /\ Unregister(s)
    /\ revoking' = revoking \ {s}
    /\ UNCHANGED <<active, replicaVars, cacheVars, opVars>>

(* Faulty variant: the ticker trusts the revocation cache. *)
RecheckCache(s) ==
    /\ stage[s] = "open"
    /\ s \in revoked
    /\ Revoke(ReplicaOf[s], {SessionOf[s]}, {s})
    /\ Unregister(s)
    /\ UNCHANGED <<active, replicaVars, opVars>>

(* The five-second ticker asks the database again. *)
Recheck(s) ==
    /\ stage[s] = "open"
    /\ SessionOf[s] \notin active
    /\ Revoke(ReplicaOf[s], {SessionOf[s]}, {s})
    /\ Unregister(s)
    /\ UNCHANGED <<active, replicaVars, opVars>>

(***************************************************************************)
(* The owner lease of a replica.                                           *)
(***************************************************************************)

(* The lease ended and the process did not notice: it has a socket past the *)
(* scan that no failed refresh has fenced.  The two-second ticker missed    *)
(* every tick of fifteen seconds.                                           *)
Unnoticed(r) ==
    /\ lease[r] = "absent"
    /\ \E s \in SocketsOn(r) : stage[s] \in {"scanned", "open"} /\ s \notin revoked

(* refreshOwners: put, verify, admit every owner for three more seconds.    *)
(* The entry may be gone: after an outage of the bus, in which refreshes    *)
(* failed, or after a stall.                                                *)
RefreshLease(r) ==
    /\ r \in up
    /\ lease' = [lease EXCEPT ![r] = "fresh"]
    /\ valid' = valid \cup (Owned \cap SocketsOn(r))
    /\ stalled' = IF Unnoticed(r) THEN stalled \cup {r} ELSE stalled
    /\ UNCHANGED <<active, askedVars, up, cacheVars, stage, revoked, revoking, opVars>>

(* The refresh fails: every owner is invalidated and fenced. *)
RefreshFails(r) ==
    /\ r \in up
    /\ Owned \cap SocketsOn(r) # {}
    /\ valid' = valid \ SocketsOn(r)
    /\ Revoke(r, Session, {})
    /\ UNCHANGED <<active, replicaVars, stage, revoked, opVars>>

AdmissionEnds(r) ==
    /\ lease[r] = "fresh"
    /\ lease' = [lease EXCEPT ![r] = "draining"]
    /\ valid' = valid \ SocketsOn(r)
    /\ UNCHANGED <<active, askedVars, up, stalled, cacheVars, stage, revoked, revoking, opVars>>

(* The entry's TTL.  Three seconds of admission and ten of a guarded action *)
(* fit into its fifteen, so nothing is being written under it any more.     *)
LeaseExpires(r) ==
    /\ lease[r] = "draining"
    /\ \A s \in SocketsOn(r) : stage[s] # "writing"
    /\ lease' = [lease EXCEPT ![r] = "absent"]
    /\ UNCHANGED <<active, askedVars, up, stalled, cacheVars, stage, valid, revoked, revoking, opVars>>

(* The process dies with its sockets and its cache; its lease stays until the TTL. *)
ReplicaCrash(r) ==
    /\ r \in up
    /\ up' = up \ {r}
    /\ stage' = [s \in Socket |-> IF s \in Guarded \cap SocketsOn(r) THEN "closed" ELSE stage[s]]
    /\ valid' = valid \ SocketsOn(r)
    /\ revoked' = revoked \ SocketsOn(r)
    /\ revoking' = revoking \ SocketsOn(r)
    /\ records' = [records EXCEPT ![r] = {}]
    /\ closedTo' = closedTo \ {r}
    /\ UNCHANGED <<active, askedVars, lease, stalled, opVars>>

(***************************************************************************)
(* A revocation.                                                           *)
(***************************************************************************)

OpEnter(o, st) == ostage' = [ostage EXCEPT ![o] = st]
Serve(o, st) == home[o] \in up /\ OpEnter(o, st)
Fenced(S) == \A s \in S : s \in revoked \/ stage[s] = "closed"

(* publishSessionRevocation fences the sockets of its own process first. *)
FenceLocal(o) ==
    /\ ostage[o] = "off"
    /\ Revoke(home[o], covers[o], {})
    /\ todo' = [todo EXCEPT ![o] = Hit(home[o], covers[o])]
    /\ Serve(o, "local")
    /\ UNCHANGED <<active, replicaVars, stage, valid, revoked, markers, pending, handling>>

InstallMarker(o) ==
    /\ ostage[o] = "local"
    /\ Fenced(todo[o])
    /\ markers' = markers \cup {o}
    /\ Serve(o, "marked")
    /\ UNCHANGED <<active, replicaVars, cacheVars, stage, valid, revoked, revoking, pending, handling, todo>>

ListOwners(o) ==
    /\ ostage[o] = "marked"
    /\ pending' = [pending EXCEPT ![o] = {r \in Replica : lease[r] # "absent"}]
    /\ Serve(o, "listed")
    /\ UNCHANGED <<active, replicaVars, cacheVars, stage, valid, revoked, revoking, markers, handling, todo>>

(* handleFenceCommand on a replica that owns a socket in scope: its cache   *)
(* revokes every guard in scope.                                            *)
HandleFence(o, r) ==
    /\ ostage[o] = "listed"
    /\ r \in pending[o] \ handling[o]
    /\ r \in up
    /\ handling' = [handling EXCEPT ![o] = @ \cup {r}]
    /\ IF \E s \in Owned \cap SocketsOn(r) : SessionOf[s] \in covers[o]
         THEN /\ Revoke(r, covers[o], {})
              /\ todo' = [todo EXCEPT ![o] = @ \cup Hit(r, covers[o])]
         ELSE UNCHANGED <<cacheVars, revoking, todo>>
    /\ UNCHANGED <<active, replicaVars, stage, valid, revoked, markers, ostage, pending>>

(* The acknowledgement leaves after every guard of this replica is fenced. *)
AckFence(o, r) ==
    /\ ostage[o] = "listed"
    /\ r \in pending[o] \cap handling[o]
    /\ r \in up
    /\ Fenced(todo[o] \cap SocketsOn(r))
    /\ pending' = [pending EXCEPT ![o] = @ \ {r}]
    /\ UNCHANGED <<active, replicaVars, cacheVars, stage, valid, revoked, revoking, markers, ostage, handling, todo>>

(* FenceSessions returns. *)
Forget(o) ==
    /\ pending' = [pending EXCEPT ![o] = {}]
    /\ handling' = [handling EXCEPT ![o] = {}]
    /\ todo' = [todo EXCEPT ![o] = {}]

FenceComplete(o) ==
    /\ ostage[o] = "listed"
    /\ pending[o] = {}
    /\ Serve(o, "fenced")
    /\ Forget(o)
    /\ UNCHANGED <<active, replicaVars, cacheVars, stage, valid, revoked, revoking, markers>>

(* RevokeSession, the password reset or the account deletion commits.       *)
(* RevokeSession finds no row when the session is revoked already.          *)
CommitRevocation(o) ==
    /\ ostage[o] = "fenced"
    /\ covers[o] = Session \/ covers[o] \subseteq active
    /\ active' = active \ covers[o]
    /\ Serve(o, "committed")
    /\ UNCHANGED <<replicaVars, cacheVars, stage, valid, revoked, revoking, markers, pending, handling, todo>>

(* The ticket is released after the mutation; success is reported. *)
ReleaseTicket(o) ==
    /\ ostage[o] = "committed"
    /\ markers' = markers \ {o}
    /\ Serve(o, "done")
    /\ UNCHANGED <<active, replicaVars, cacheVars, stage, valid, revoked, revoking, pending, handling, todo>>

(* A lost message, a timeout, a dead replica, a failed mutation or a dead   *)
(* server: nothing is committed, the marker is released or left to its TTL. *)
RevocationFails(o) ==
    /\ ostage[o] \in {"local", "marked", "listed", "fenced"}
    /\ OpEnter(o, "failed")
    /\ markers' \in {markers, markers \ {o}}
    /\ Forget(o)
    /\ UNCHANGED <<active, replicaVars, cacheVars, stage, valid, revoked, revoking>>

MarkerExpires(o) ==
    /\ o \in markers
    /\ ostage[o] = "failed" \/ home[o] \notin up
    /\ markers' = markers \ {o}
    /\ UNCHANGED <<active, replicaVars, cacheVars, stage, valid, revoked, revoking, ostage, pending, handling, todo>>

(* RotateSession is given a refresh token for the second time: the session  *)
(* is revoked in the database.  Nothing is fenced and nobody is told.       *)
ReuseRevokes(k) ==
    /\ k \in active
    /\ active' = active \ {k}
    /\ UNCHANGED <<replicaVars, cacheVars, stage, valid, revoked, revoking, opVars>>

(***************************************************************************)
(* The specification.                                                      *)
(***************************************************************************)

SocketNext(s) ==
    \/ Register(s) \/ RegisterOwner(s) \/ LeaseVerified(s) \/ RegistrationFails(s)
    \/ ScanMarkers(s) \/ DurableCheck(s) \/ GuardRevoked(s)
    \/ BeginWrite(s) \/ RefuseWrite(s) \/ EndWrite(s) \/ CloseSocket(s) \/ Recheck(s)

ReplicaNext(r) ==
    \/ RefreshLease(r) \/ RefreshFails(r) \/ AdmissionEnds(r) \/ LeaseExpires(r)
    \/ ReplicaCrash(r) \/ RecordsExpire(r)

OpNext(o) ==
    \/ FenceLocal(o) \/ InstallMarker(o) \/ ListOwners(o)
    \/ \E r \in Replica : HandleFence(o, r) \/ AckFence(o, r)
    \/ FenceComplete(o) \/ CommitRevocation(o) \/ ReleaseTicket(o)
    \/ RevocationFails(o) \/ MarkerExpires(o)

Next ==
    \/ \E s \in Socket : SocketNext(s)
    \/ \E r \in Replica : ReplicaNext(r)
    \/ \E o \in Op : OpNext(o)
    \/ \E k \in Session : ReuseRevokes(k)

SafetySpec == Init /\ [][Next]_vars

(* Writes end (ten-second deadline), tickers tick, mutexes are handed on. *)
Fairness ==
    \A s \in Socket :
        /\ WF_vars(EndWrite(s))
        /\ SF_vars(Recheck(s))
        /\ WF_vars(GuardRevoked(s))

Spec == SafetySpec /\ Fairness

(***************************************************************************)
(* Properties.                                                             *)
(***************************************************************************)

CanSend(s) == stage[s] = "open" /\ s \notin revoked /\ s \in valid

(* Sessions that a fenced revocation has revoked: logout, password reset,   *)
(* account deletion.                                                        *)
CutOff == Earlier \cup UNION {covers[o] : o \in {q \in Op : ostage[q] \in {"committed", "done"}}}

(* Once logout, a password reset or a deletion has revoked a session in the *)
(* database, no replica is sending or can start to send on any of its       *)
(* sockets, although leases expire and recover and sessions are revoked     *)
(* without a fence meanwhile: "returning success while another replica can  *)
(* still send is not [safe]" (logout).  A replica that has stalled past its *)
(* lease without noticing is excepted; its sockets are RevokedSocketsClose's. *)
RevokedSessionIsSilent ==
    \A s \in Socket :
        SessionOf[s] \in CutOff /\ ReplicaOf[s] \notin stalled => stage[s] # "writing" /\ ~CanSend(s)

(* A guard is never revoked in the middle of a write: what was being sent   *)
(* is ordered before the revocation, and the fence waits for it.            *)
WritesPrecedeRevocation == \A s \in Socket : stage[s] = "writing" => s \notin revoked

(* The durable recheck closes every socket of a revoked session: after a    *)
(* stall, and after the reuse of a refresh token, which fences nothing.     *)
RevokedSocketsClose ==
    \A s \in Socket : (SessionOf[s] \notin active) ~> (stage[s] \notin {"open", "writing"})
=============================================================================
