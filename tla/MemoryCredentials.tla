-------------------------- MODULE MemoryCredentials --------------------------
(***************************************************************************)
(* Password, session, reset challenges and mail queue of one account as    *)
(* the in-memory store keeps them: every operation is one critical section *)
(* of the store's mutex.  It is the specification the PostgreSQL store of  *)
(* Credentials implements.                                                 *)
(*                                                                         *)
(* SMTP dialogues are not part of it.  Here a reset and an erasure wait    *)
(* for every dialogue, and a lease that ends during one can be claimed     *)
(* anew; PostgreSQL waits for the rows it touches and claims none of them. *)
(***************************************************************************)
EXTENDS Naturals

CONSTANTS
    Challenge,
    Worker,
    Nobody,      \* uuid.Nil
    MaxGuesses,
    NoLogin      \* a session that no password opened

Mail == Challenge \X {"reset", "changed"}

VARIABLES
    alive,       \* the account's profile is not {"deleted":true}
    password,    \* how often the password was replaced
    chal,        \* s.passwordResets
    guesses,     \* their Attempts, while they are active
    mail,        \* the Status in s.mailDeliveries
    lease,       \* the LeaseToken
    session,     \* whether a session of s.sessions is in force
    token,       \* its RefreshTokenHash: the number of rotations
    since        \* the password it was opened with

userVars == <<alive, password>>
chalVars == <<chal, guesses>>
mailVars == <<mail, lease>>
sessionVars == <<session, token, since>>
vars == <<userVars, chalVars, mailVars, sessionVars>>

Init ==
    /\ alive = TRUE
    /\ password = 0
    /\ chal = [c \in Challenge |-> "none"]
    /\ guesses = [c \in Challenge |-> 0]
    /\ mail = [m \in Mail |-> "none"]
    /\ lease = [m \in Mail |-> Nobody]
    /\ session = FALSE
    /\ token = 0
    /\ since = NoLogin

Unconsumed == {c \in Challenge : chal[c] \in {"active", "expired"}}
Pending == {m \in Mail : mail[m] = "pending"}

(* The mails in S are canceled, and the mails in Q queued. *)
CancelAndQueue(S, Q) ==
    /\ mail' = [m \in Mail |-> IF m \in Q THEN "pending" ELSE IF m \in S THEN "canceled" ELSE mail[m]]
    /\ lease' = [m \in Mail |-> IF m \in S \cup Q THEN Nobody ELSE lease[m]]

ForgetGuesses == guesses' = [c \in Challenge |-> IF chal'[c] = "active" THEN guesses[c] ELSE 0]

ConsumeAll == [c \in Challenge |-> IF c \in Unconsumed THEN "consumed" ELSE chal[c]]

(* A mail cannot be sealed for an erased account, which has no address. *)
CreatePasswordResetChallenge(c) ==
    /\ alive
    /\ chal[c] = "none"
    /\ chal' = [ConsumeAll EXCEPT ![c] = "active"]
    /\ CancelAndQueue({m \in Pending : m[1] \in Unconsumed}, {<<c, "reset">>})
    /\ ForgetGuesses
    /\ UNCHANGED <<userVars, sessionVars>>

Expire(c) ==
    /\ chal[c] = "active"
    /\ chal' = [chal EXCEPT ![c] = "expired"]
    /\ ForgetGuesses
    /\ UNCHANGED <<userVars, mailVars, sessionVars>>

WrongCode(c) ==
    /\ chal[c] = "active" /\ guesses[c] < MaxGuesses
    /\ guesses' = [guesses EXCEPT ![c] = @ + 1]
    /\ UNCHANGED <<userVars, chal, mailVars, sessionVars>>

Revoke == session' = FALSE /\ token' = 0 /\ since' = NoLogin

ConsumePasswordResetChallenge(c) ==
    /\ chal[c] = "active" /\ guesses[c] < MaxGuesses
    /\ alive
    /\ password' = password + 1
    /\ CancelAndQueue(Pending \cap {<<c, "reset">>}, {<<c, "changed">>})
    /\ Revoke
    /\ chal' = ConsumeAll
    /\ ForgetGuesses
    /\ UNCHANGED alive

(* expected is the password to be compared with, or NoLogin. *)
IssueSession(expected) ==
    /\ alive
    /\ ~session
    /\ expected \in {password, NoLogin}
    /\ session' = TRUE
    /\ since' = expected
    /\ UNCHANGED <<userVars, chalVars, mailVars, token>>

(* The expected token is exchanged; the one before it ends the session. *)
RotateSession(presented) ==
    /\ session /\ alive
    /\ \/ presented = token /\ token' = token + 1 /\ UNCHANGED <<session, since>>
       \/ presented + 1 = token /\ Revoke
    /\ UNCHANGED <<userVars, chalVars, mailVars>>

RevokeSession ==
    /\ session
    /\ Revoke
    /\ UNCHANGED <<userVars, chalVars, mailVars>>

(* Mails whose challenge is no longer active are canceled, and one that is   *)
(* due may be leased.                                                        *)
LockMailDeliveryBatch(w, m) ==
    LET inactive == {n \in Pending : n[2] = "reset" /\ chal[n[1]] # "active"} IN
    /\ m = Nobody \/ mail[m] = "pending"
    /\ IF m = Nobody THEN inactive # {} ELSE m \notin inactive
    /\ lease' = [n \in Mail |-> IF n \in inactive THEN Nobody ELSE IF n = m THEN w ELSE lease[n]]
    /\ mail' = [n \in Mail |-> IF n \in inactive THEN "canceled" ELSE mail[n]]
    /\ UNCHANGED <<userVars, chalVars, sessionVars>>

(* Under the lease token only.  A dead letter takes its challenge along. *)
FinishMailDelivery(m, result) ==
    /\ m \in Pending /\ lease[m] # Nobody
    /\ lease' = [lease EXCEPT ![m] = Nobody]
    /\ mail' = [mail EXCEPT ![m] = result]
    /\ chal' = IF result = "dead_letter" /\ m[2] = "reset" /\ m[1] \in Unconsumed
                 THEN [chal EXCEPT ![m[1]] = "consumed"] ELSE chal
    /\ ForgetGuesses
    /\ UNCHANGED <<userVars, sessionVars>>

PruneMailDeliveries(m) ==
    /\ mail[m] \in {"delivered", "dead_letter", "canceled"}
    /\ mail' = [mail EXCEPT ![m] = "gone"]
    /\ UNCHANGED <<userVars, chalVars, lease, sessionVars>>

DeleteAccount ==
    /\ alive
    /\ alive' = FALSE
    /\ Revoke
    /\ chal' = [c \in Challenge |-> IF chal[c] = "none" THEN "none" ELSE "gone"]
    /\ mail' = [m \in Mail |-> IF mail[m] = "none" THEN "none" ELSE "gone"]
    /\ lease' = [m \in Mail |-> Nobody]
    /\ ForgetGuesses
    /\ UNCHANGED password

Next ==
    \/ \E c \in Challenge :
          \/ CreatePasswordResetChallenge(c) \/ Expire(c)
          \/ WrongCode(c) \/ ConsumePasswordResetChallenge(c)
    \/ \E expected \in {password, NoLogin} : IssueSession(expected)
    \/ \E presented \in 0..token : RotateSession(presented)
    \/ RevokeSession
    \/ LockMailDeliveryBatch(Nobody, Nobody)
    \/ \E m \in Mail :
          \/ \E w \in Worker : LockMailDeliveryBatch(w, m)
          \/ \E result \in {"pending", "delivered", "dead_letter"} : FinishMailDelivery(m, result)
          \/ PruneMailDeliveries(m)
    \/ DeleteAccount

Spec == Init /\ [][Next]_vars
==============================================================================
