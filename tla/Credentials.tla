---------------------------- MODULE Credentials ----------------------------
(***************************************************************************)
(* The credentials of one account: its password, the sessions it opens,    *)
(* the challenges that reset it, and the encrypted mail queue that carries *)
(* their codes.  Logging in reads the password hash in one statement and   *)
(* issues the session in a later transaction.  Mail workers claim a row    *)
(* under a lease, hold the row in share mode through the SMTP dialogue,    *)
(* and report the outcome afterwards under the lease token; a code may be  *)
(* spent, replaced or expire, and the account erased, at any of these      *)
(* points.  Everything that takes the account's row to itself (reset,      *)
(* confirmation, issue, rotation, erasure) is one step, enabled when the   *)
(* rows it has to wait for are free; a deadlock's victim changes nothing.  *)
(*                                                                         *)
(* The erasure is that of a deletion intent, which is read committed.      *)
(*                                                                         *)
(* Whoever holds a refresh token is a Holder: a device, and a copy of it   *)
(* restored from a backup.  Codes, hashes and ciphertexts are left out.    *)
(***************************************************************************)
EXTENDS Naturals, FiniteSets

CONSTANTS
    Challenge,     \* ids of password_reset_challenges
    Worker,        \* deliveries the mail workers have in hand
    Holder,        \* who may present refresh tokens
    Nobody,        \* no worker, NULL
    MaxGuesses,    \* wrong codes a challenge survives
    MaxAttempts,   \* deliveries of a mail before it is a dead letter
    MaxRotations,  \* bound on the refreshes of a session
    MaxFaults      \* bound on crashes, stalls and failed reports

ASSUME BoundsAssumption ==
    /\ MaxGuesses \in Nat \ {0}
    /\ MaxAttempts \in Nat \ {0}
    /\ MaxRotations \in Nat
    /\ MaxFaults \in Nat
ASSUME ChallengeAssumption == IsFiniteSet(Challenge)

Purpose == {"reset", "changed"}
Mail == Challenge \X Purpose

ASSUME NobodyAssumption == Nobody \notin Worker \cup Mail

VARIABLES
    alive,      \* users.deleted_at IS NULL
    password,   \* how often users.password_hash was replaced
    chal,       \* [Challenge -> ChalState]
    guesses,    \* [Challenge -> Nat]: password_reset_challenges.attempts, while it is active
    resets,     \* [Challenge -> Nat]: how often its code replaced the password
    mail,       \* [Mail -> MailState]: mail_deliveries.status
    lease,      \* [Mail -> Worker \cup {Nobody}]: mail_deliveries.lease_token
    due,        \* pending mails whose lease and next attempt are past
    attempts,   \* [Mail -> 0..MaxAttempts]: mail_deliveries.attempts of pending mails,
                \* up to the last that is told apart
    worker,     \* [Worker -> WorkerState]
    login,      \* the password a login in progress was verified against
    session,    \* whether the account has a session in force
    token,      \* the refresh token it expects: the number of rotations
    since,      \* the password a login opened it with, or NoLogin
    has,        \* [Holder -> the token it holds]
    refreshed,  \* holders who exchanged a token
    faults

userVars == <<alive, password>>
chalVars == <<chal, guesses, resets>>
mailVars == <<mail, lease, due, attempts>>
sessionVars == <<session, token, since, has, refreshed>>
vars == <<userVars, chalVars, mailVars, worker, login, sessionVars, faults>>

(* Expired challenges are unconsumed ones. *)
ChalState == {"none", "active", "expired", "consumed", "gone"}
MailState == {"none", "pending", "delivered", "dead_letter", "canceled", "gone"}
Result == {"ok", "retry", "permanent"}
Idle == [stage |-> "idle", mail |-> Nobody, result |-> "ok"]
NoToken == MaxRotations + 1
NoLogin == Cardinality(Challenge) + 1

(* Leases are those of pending mails (the table's CHECK), and what a worker *)
(* has in hand is a mail.                                                   *)
TypeOK ==
    /\ alive \in BOOLEAN
    /\ password \in 0..Cardinality(Challenge)
    /\ chal \in [Challenge -> ChalState]
    /\ guesses \in [Challenge -> 0..MaxGuesses]
    /\ resets \in [Challenge -> Nat]
    /\ mail \in [Mail -> MailState]
    /\ lease \in [Mail -> Worker \cup {Nobody}]
    /\ \A m \in Mail : lease[m] # Nobody => mail[m] = "pending"
    /\ due \subseteq {m \in Mail : mail[m] = "pending"}
    /\ attempts \in [Mail -> 0..MaxAttempts]
    /\ \A w \in Worker : worker[w] = Idle \/ worker[w].mail \in Mail
    /\ login \in 0..NoLogin
    /\ session \in BOOLEAN
    /\ token \in 0..MaxRotations
    /\ since \in (0..Cardinality(Challenge)) \cup {NoLogin}
    /\ has \in [Holder -> 0..NoToken]
    /\ refreshed \subseteq Holder
    /\ faults \in 0..MaxFaults

Init ==
    /\ alive = TRUE
    /\ password = 0
    /\ chal = [c \in Challenge |-> "none"]
    /\ guesses = [c \in Challenge |-> 0]
    /\ resets = [c \in Challenge |-> 0]
    /\ mail = [m \in Mail |-> "none"]
    /\ lease = [m \in Mail |-> Nobody]
    /\ due = {}
    /\ attempts = [m \in Mail |-> 0]
    /\ worker = [w \in Worker |-> Idle]
    /\ login = NoLogin
    /\ session = FALSE
    /\ token = 0
    /\ since = NoLogin
    /\ has = [h \in Holder |-> NoToken]
    /\ refreshed = {}
    /\ faults = 0

Unconsumed == {c \in Challenge : chal[c] \in {"active", "expired"}}

(* Rows in share mode under an SMTP dialogue. *)
InDialogue == {worker[w].mail : w \in {v \in Worker : worker[v].stage = "sending"}}

(* Whether a row that left the queue was often attempted plays no role.     *)
Forget(S) == attempts' = [m \in Mail |-> IF m \in S THEN 0 ELSE attempts[m]]

(* Nor does it how often a challenge was guessed at that is no longer active. *)
ForgetGuesses == guesses' = [c \in Challenge |-> IF chal'[c] = "active" THEN guesses[c] ELSE 0]

(* The mails in S, which are pending and which nobody is sending, become    *)
(* canceled.  The statement waits for a row that is being sent.             *)
Cancel(S) ==
    /\ S \cap InDialogue = {}
    /\ mail' = [m \in Mail |-> IF m \in S THEN "canceled" ELSE mail[m]]
    /\ lease' = [m \in Mail |-> IF m \in S THEN Nobody ELSE lease[m]]
    /\ due' = due \ S
    /\ Forget(S)

(***************************************************************************)
(* Password reset.                                                         *)
(***************************************************************************)

(* startPasswordReset: the challenge replaces the one before, whose mail is *)
(* canceled, and its own mail is queued, all in one transaction.            *)
CreatePasswordResetChallenge(c) ==
    LET old == {m \in Mail : m[1] \in Unconsumed /\ mail[m] = "pending"} IN
    /\ alive
    /\ chal[c] = "none"
    /\ old \cap InDialogue = {}
    /\ chal' = [d \in Challenge |->
                  IF d = c THEN "active" ELSE IF d \in Unconsumed THEN "consumed" ELSE chal[d]]
    /\ mail' = [m \in Mail |->
                  IF m = <<c, "reset">> THEN "pending" ELSE IF m \in old THEN "canceled" ELSE mail[m]]
    /\ lease' = [m \in Mail |-> IF m \in old THEN Nobody ELSE lease[m]]
    /\ due' = (due \ old) \cup {<<c, "reset">>}
    /\ Forget(old)
    /\ ForgetGuesses
    /\ UNCHANGED <<userVars, resets, worker, login, sessionVars, faults>>

Expire(c) ==
    /\ chal[c] = "active"
    /\ chal' = [chal EXCEPT ![c] = "expired"]
    /\ ForgetGuesses
    /\ UNCHANGED <<userVars, resets, mailVars, worker, login, sessionVars, faults>>

(* Faulty variant: a consumed challenge is not told apart. *)
UsableAgain(c) == chal[c] \in {"active", "consumed"} /\ guesses[c] < MaxGuesses

(* Not consumed, not expired, not guessed at too often. *)
Usable(c) == chal[c] = "active" /\ guesses[c] < MaxGuesses

WrongCode(c) ==
    /\ alive
    /\ Usable(c)
    /\ guesses' = [guesses EXCEPT ![c] = @ + 1]
    /\ UNCHANGED <<userVars, chal, resets, mailVars, worker, login, sessionVars, faults>>

(* The session ends.  Its tokens, which nothing accepts any more, are        *)
(* forgotten, and the account may open another session.                      *)
Revoke ==
    /\ session' = FALSE
    /\ token' = 0
    /\ since' = NoLogin
    /\ has' = [h \in Holder |-> NoToken]
    /\ refreshed' = {}

(* The mail whose code is spent with the challenge. *)
Spent(c) == {m \in {<<c, "reset">>} : mail[m] = "pending"}

(* The right code: the sockets are fenced, the code's mail canceled, the    *)
(* password replaced, the sessions revoked, the challenges consumed and the *)
(* notice queued.  The push tokens it clears are PushDelivery's, the fence  *)
(* is SessionFence's.                                                       *)
ConsumePasswordResetChallenge(c) ==
    LET spent == Spent(c) IN
    /\ alive
    /\ Usable(c)
    /\ password < Cardinality(Challenge)
    /\ spent \cap InDialogue = {}
    /\ mail' = [m \in Mail |->
                  IF m \in spent THEN "canceled" ELSE IF m = <<c, "changed">> THEN "pending" ELSE mail[m]]
    /\ lease' = [m \in Mail |-> IF m \in spent THEN Nobody ELSE lease[m]]
    /\ due' = (due \ spent) \cup {<<c, "changed">>}
    /\ password' = password + 1
    /\ Revoke
    /\ chal' = [d \in Challenge |-> IF d \in Unconsumed THEN "consumed" ELSE chal[d]]
    /\ resets' = [resets EXCEPT ![c] = @ + 1]
    /\ Forget(spent)
    /\ ForgetGuesses
    /\ UNCHANGED <<alive, worker, login, faults>>

(***************************************************************************)
(* Sessions.                                                               *)
(***************************************************************************)

(* login, up to the verified password. *)
VerifyPassword ==
    /\ alive
    /\ login = NoLogin
    /\ ~session
    /\ login' = password
    /\ UNCHANGED <<userVars, chalVars, mailVars, worker, sessionVars, faults>>

(* Faulty variant: the hash is not compared again. *)
AnyPassword == TRUE

(* RequirePasswordHashMatch. *)
SamePassword == login = password

(* The new token is the device's, and whoever restores its backup has it. *)
Open(from) ==
    /\ session' = TRUE
    /\ since' = from
    /\ has' = [h \in Holder |-> 0]
    /\ UNCHANGED <<token, refreshed>>

(* IssueSession behind the account's row. *)
IssueAfterLogin ==
    /\ login # NoLogin
    /\ login' = NoLogin
    /\ IF alive /\ SamePassword THEN Open(login) ELSE UNCHANGED sessionVars
    /\ UNCHANGED <<userVars, chalVars, mailVars, worker, faults>>

(* Registration, Apple and phone sign-in do not depend on the password. *)
IssueOtherwise ==
    /\ alive
    /\ ~session
    /\ login = NoLogin
    /\ Open(NoLogin)
    /\ UNCHANGED <<userVars, chalVars, mailVars, worker, login, faults>>

(* The expected token is exchanged for the next, and the answer is heard or  *)
(* lost.                                                                     *)
Exchange(h, heard) ==
    /\ token < MaxRotations
    /\ token' = token + 1
    /\ has' = IF heard THEN [has EXCEPT ![h] = token + 1] ELSE has
    /\ refreshed' = refreshed \cup {h}
    /\ UNCHANGED <<session, since>>

(* Faulty variant: the token before the expected one is accepted too. *)
RotateGraceful(h) ==
    /\ session /\ alive
    /\ CASE has[h] = token -> \E heard \in BOOLEAN : Exchange(h, heard)
         [] has[h] + 1 = token -> /\ has' = [has EXCEPT ![h] = token]
                                  /\ refreshed' = refreshed \cup {h}
                                  /\ UNCHANGED <<session, token, since>>
         [] OTHER -> UNCHANGED sessionVars
    /\ UNCHANGED <<userVars, chalVars, mailVars, worker, login, faults>>

(* RotateSession: the expected token is exchanged, the one before it ends    *)
(* the session, older ones are refused.                                      *)
RotateSession(h) ==
    /\ session /\ alive
    /\ CASE has[h] = token -> \E heard \in BOOLEAN : Exchange(h, heard)
         [] has[h] + 1 = token -> Revoke
         [] OTHER -> UNCHANGED sessionVars
    /\ UNCHANGED <<userVars, chalVars, mailVars, worker, login, faults>>

(* logout, after the fence of SessionFence, or the session's expiry. *)
RevokeSession ==
    /\ session
    /\ Revoke
    /\ UNCHANGED <<userVars, chalVars, mailVars, worker, login, faults>>

(***************************************************************************)
(* The mail worker.                                                        *)
(***************************************************************************)

Set(w, stage, m, result) ==
    worker' = [worker EXCEPT ![w] = [stage |-> stage, mail |-> m, result |-> result]]

Inactive == {m \in Mail : m[2] = "reset" /\ mail[m] = "pending" /\ chal[m[1]] # "active"}

(* SKIP LOCKED passes over a row that is being sent. *)
Claimable ==
    {m \in Mail : mail[m] = "pending" /\ m \in due /\ m \notin Inactive /\ m \notin InDialogue}

(* LockMailDeliveryBatch: mails of challenges that are no longer active are *)
(* canceled, and one of the others is leased to the worker.                 *)
ClaimMail(w, m) ==
    /\ worker[w].stage = "idle"
    /\ m \in Claimable
    /\ Inactive \cap InDialogue = {}
    /\ mail' = [n \in Mail |-> IF n \in Inactive THEN "canceled" ELSE mail[n]]
    /\ lease' = [n \in Mail |-> IF n \in Inactive THEN Nobody ELSE IF n = m THEN w ELSE lease[n]]
    /\ due' = due \ (Inactive \cup {m})
    /\ attempts' = [n \in Mail |->
                      IF n \in Inactive THEN 0
                      ELSE IF n = m /\ attempts[n] < MaxAttempts THEN attempts[n] + 1 ELSE attempts[n]]
    /\ Set(w, "claimed", m, "ok")
    /\ UNCHANGED <<userVars, chalVars, login, sessionVars, faults>>

(* There is nothing to claim. *)
CancelInactive ==
    /\ Claimable = {}
    /\ Inactive # {}
    /\ Cancel(Inactive)
    /\ UNCHANGED <<userVars, chalVars, worker, login, sessionVars, faults>>

(* Faulty variant: the lease call looks at the row only. *)
LeasedOrNot(w, m) == mail[m] = "pending"

LeasedTo(w, m) == mail[m] = "pending" /\ lease[m] = w

(* WithMailDeliveryLease: the row is shared until the dialogue is over; a   *)
(* row that is gone, settled or another's is left alone.                    *)
BeginDialogue(w) ==
    LET m == worker[w].mail IN
    /\ worker[w].stage = "claimed"
    /\ IF LeasedTo(w, m) THEN Set(w, "sending", m, "ok") ELSE worker' = [worker EXCEPT ![w] = Idle]
    /\ UNCHANGED <<userVars, chalVars, mailVars, login, sessionVars, faults>>

(* classifyDeliveryError; a payload that cannot be opened is permanent.  A   *)
(* lease call whose transaction fails, before or after the mail was          *)
(* accepted, is to be retried.                                               *)
EndDialogue(w, result) ==
    /\ worker[w].stage = "sending" \/ (worker[w].stage = "claimed" /\ result = "retry")
    /\ Set(w, "sent", worker[w].mail, result)
    /\ UNCHANGED <<userVars, chalVars, mailVars, login, sessionVars, faults>>

(* Faulty variant: the report names the row by its id. *)
ReportsAnyway(w, m) == mail[m] \notin {"none", "gone"}

Reports(w, m) == mail[m] = "pending" /\ lease[m] = w

DeadLetter(w, m) ==
    worker[w].result = "permanent" \/ (worker[w].result = "retry" /\ attempts[m] >= MaxAttempts)

(* Nobody can have read the code of a dead letter. *)
ChallengeOfDeadLetter(m) ==
    IF m[2] = "reset" THEN [chal EXCEPT ![m[1]] = "consumed"] ELSE chal

(* FinishMailDelivery with the lease token, or ErrConflict. *)
FinishMailDelivery(w) ==
    LET m == worker[w].mail
        dead == DeadLetter(w, m)
        outcome == IF dead THEN "dead_letter" ELSE IF worker[w].result = "ok" THEN "delivered" ELSE "pending"
    IN
    /\ worker[w].stage = "sent"
    /\ worker' = [worker EXCEPT ![w] = Idle]
    /\ IF Reports(w, m)
         THEN /\ m \notin InDialogue
              /\ mail' = [mail EXCEPT ![m] = outcome]
              /\ lease' = [lease EXCEPT ![m] = Nobody]
              /\ due' = due \ {m}
              /\ Forget(IF outcome = "pending" THEN {} ELSE {m})
              /\ chal' = IF dead THEN ChallengeOfDeadLetter(m) ELSE chal
         ELSE UNCHANGED <<mailVars, chal>>
    /\ ForgetGuesses
    /\ UNCHANGED <<userVars, resets, login, sessionVars, faults>>

(* Shutdown during a dialogue: the mail is pending again, and due. *)
ReleaseOnShutdown(w) ==
    LET m == worker[w].mail IN
    /\ worker[w].stage = "sent" /\ worker[w].result = "retry"
    /\ faults < MaxFaults
    /\ faults' = faults + 1
    /\ worker' = [worker EXCEPT ![w] = Idle]
    /\ IF Reports(w, m)
         THEN lease' = [lease EXCEPT ![m] = Nobody] /\ due' = due \cup {m}
         ELSE UNCHANGED <<lease, due>>
    /\ UNCHANGED <<userVars, chalVars, mail, attempts, login, sessionVars>>

(* A crash, or a report that fails: the lease stays. *)
Crash(w) ==
    /\ worker[w].stage # "idle"
    /\ faults < MaxFaults
    /\ faults' = faults + 1
    /\ worker' = [worker EXCEPT ![w] = Idle]
    /\ UNCHANGED <<userVars, chalVars, mailVars, login, sessionVars>>

(* Time passes: a backoff ends, or a lease, which is a stall when its       *)
(* worker is still at it.                                                   *)
Elapse(m) ==
    LET stall == \E w \in Worker : worker[w].mail = m IN
    /\ mail[m] = "pending"
    /\ m \notin due
    /\ stall => faults < MaxFaults
    /\ faults' = IF stall THEN faults + 1 ELSE faults
    /\ due' = due \cup {m}
    /\ UNCHANGED <<userVars, chalVars, mail, lease, attempts, worker, login, sessionVars>>

(* A day after it was settled at the least: its code has expired and no      *)
(* worker has it in hand.                                                    *)
PruneMailDeliveries(m) ==
    /\ mail[m] \in {"delivered", "dead_letter", "canceled"}
    /\ chal[m[1]] # "active"
    /\ \A w \in Worker : worker[w].mail # m
    /\ mail' = [mail EXCEPT ![m] = "gone"]
    /\ UNCHANGED <<userVars, chalVars, lease, due, attempts, worker, login, sessionVars, faults>>

(* Faulty variant: erasure does not wait for the delivery barrier. *)
NoBarrier == TRUE

(* The delivery barrier, which every dialogue shares. *)
Barrier == InDialogue = {}

(* Erasure deletes sessions and challenges, and the mails by cascade. *)
DeleteAccount ==
    /\ alive
    /\ Barrier
    /\ alive' = FALSE
    /\ Revoke
    /\ chal' = [c \in Challenge |-> IF chal[c] = "none" THEN "none" ELSE "gone"]
    /\ mail' = [m \in Mail |-> IF mail[m] = "none" THEN "none" ELSE "gone"]
    /\ lease' = [m \in Mail |-> Nobody]
    /\ due' = {}
    /\ Forget(Mail)
    /\ ForgetGuesses
    /\ UNCHANGED <<password, resets, worker, login, faults>>

(***************************************************************************)
(* The specification.                                                      *)
(***************************************************************************)

Next ==
    \/ \E c \in Challenge :
          \/ CreatePasswordResetChallenge(c) \/ Expire(c)
          \/ WrongCode(c) \/ ConsumePasswordResetChallenge(c)
    \/ VerifyPassword \/ IssueAfterLogin \/ IssueOtherwise
    \/ \E h \in Holder : RotateSession(h)
    \/ RevokeSession
    \/ \E w \in Worker :
          \/ \E m \in Mail : ClaimMail(w, m)
          \/ BeginDialogue(w)
          \/ \E result \in Result : EndDialogue(w, result)
          \/ FinishMailDelivery(w) \/ ReleaseOnShutdown(w) \/ Crash(w)
    \/ CancelInactive
    \/ \E m \in Mail : Elapse(m) \/ PruneMailDeliveries(m)
    \/ DeleteAccount

Spec == Init /\ [][Next]_vars

(***************************************************************************)
(* Properties.                                                             *)
(***************************************************************************)

(* "any still-pending copy of that code must never leave the queue"         *)
(* (password_reset.go): the mail of a challenge that was used, replaced or   *)
(* given up is neither waiting nor being sent, although a worker may have    *)
(* claimed it before.                                                       *)
NoSpentCodeLeaves ==
    \A c \in Challenge : chal[c] \in {"consumed", "gone"} =>
        mail[<<c, "reset">>] # "pending" /\ <<c, "reset">> \notin InDialogue

(* Nothing is sent for an erased account, and nothing waits to be.          *)
NothingToErased == ~alive => InDialogue = {} /\ \A m \in Mail : mail[m] # "pending"

(* A mail that must not be sent any more neither waits nor is being sent.    *)
NoStaleMail == NoSpentCodeLeaves /\ NothingToErased

(* Two deliveries of one mail never run at the same time, however leases    *)
(* lapse and workers restart.                                               *)
OneDialogue ==
    \A v, w \in Worker :
        worker[v].stage = "sending" /\ worker[w].stage = "sending" /\ v # w =>
            worker[v].mail # worker[w].mail

(* A code replaces the password at most once, and at most one challenge is  *)
(* open, whatever clients retry or confirm at the same time and whichever    *)
(* of its mails is given up.                                                 *)
CodeUsedOnce ==
    /\ \A c \in Challenge : resets[c] <= 1
    /\ Cardinality(Unconsumed) <= 1

(* Challenges, mails and sessions are well formed: their types, and codes    *)
(* that work once.                                                           *)
ChallengesWellFormed == TypeOK /\ CodeUsedOnce

(* "closes the verify/reset stale-hash race" (tokens.go): a session that was *)
(* opened with a password is not active once the password was replaced,      *)
(* even if the login was under way then.                                     *)
NoSessionOfOldPassword ==
    session /\ since # NoLogin => since = password /\ alive

(* Of a device and its copy, who start from one refresh token, only one ever *)
(* exchanges it, although answers are lost and requests repeated.            *)
OneRefresher == Cardinality(refreshed) <= 1

(* Whatever the workers, devices and mail dialogues do to each other, what   *)
(* the PostgreSQL store commits could have come from the in-memory store's   *)
(* atomic operations.  So a late report changes no outcome: delivered, dead  *)
(* and canceled mails stay so until they are pruned.                         *)
Memory == INSTANCE MemoryCredentials
ImplementsMemoryCredentials == Memory!Spec
=============================================================================
