-------------------------- MODULE CredentialsProofs --------------------------
(***************************************************************************)
(* Proofs about Credentials for any number of challenges, mail workers and *)
(* holders of refresh tokens, and for any limits.                          *)
(*                                                                         *)
(* The mails rest on two facts: a dialogue has the lease of its mail, and  *)
(* at most one challenge is open, so that spending one code spends every   *)
(* code that can be in the queue.  The sessions rest on the account's row: *)
(* what a login verified is compared again where the session is issued,    *)
(* and who does not refresh keeps the session's first token.               *)
(***************************************************************************)
EXTENDS Credentials, FiniteSetTheorems, TLAPS

USE BoundsAssumption, ChallengeAssumption, NobodyAssumption

Working == [stage : {"claimed", "sending", "sent"}, mail : Mail, result : Result]

(* What a worker has in hand. *)
WorkersTyped == worker \in [Worker -> {Idle} \cup Working]

(* A dialogue has the lease of its mail. *)
DialoguesHold ==
    \A w \in Worker : worker[w].stage = "sending" => LeasedTo(w, worker[w].mail)

OneOpen == \A c, d \in Unconsumed : c = d

CodesSpent ==
    \A c \in Challenge : resets[c] = 0 \/ (resets[c] = 1 /\ chal[c] \in {"consumed", "gone"})

(* Which mails a challenge can have. *)
MailsMatch ==
    \A c \in Challenge :
        /\ chal[c] = "none" => mail[<<c, "reset">>] = "none"
        /\ chal[c] \in {"none", "active", "expired"} => mail[<<c, "changed">>] = "none"
        /\ chal[c] \in {"consumed", "gone"} => mail[<<c, "reset">>] # "pending"

ErasedHasNone == ~alive => \A m \in Mail : mail[m] # "pending"

GuessesForgotten == \A c \in Challenge : chal[c] # "active" => guesses[c] = 0

(* A login in progress has no session, and the tokens of a session.         *)
LoginFirst == login # NoLogin => ~session

HoldersKeep ==
    /\ ~session => token = 0
    /\ token = 0 => refreshed = {}
    /\ session => \A h \in Holder \ refreshed : has[h] = 0
    /\ \A g, h \in refreshed : g = h

MailInv ==
    /\ DialoguesHold /\ OneOpen /\ CodesSpent /\ MailsMatch /\ ErasedHasNone /\ GuessesForgotten

SessionInv == NoSessionOfOldPassword /\ LoginFirst /\ HoldersKeep

CredentialsInv == TypeOK /\ WorkersTyped /\ MailInv /\ SessionInv


(***************************************************************************)
(* Types.                                                                  *)
(***************************************************************************)

SessionTypes ==
    /\ alive \in BOOLEAN /\ session \in BOOLEAN
    /\ password \in 0..Cardinality(Challenge)
    /\ login \in 0..NoLogin
    /\ since \in (0..Cardinality(Challenge)) \cup {NoLogin}
    /\ token \in 0..MaxRotations
    /\ has \in [Holder -> 0..NoToken]
    /\ refreshed \subseteq Holder

MailTypes ==
    /\ chal \in [Challenge -> ChalState]
    /\ guesses \in [Challenge -> 0..MaxGuesses]
    /\ resets \in [Challenge -> Nat]
    /\ mail \in [Mail -> MailState]
    /\ lease \in [Mail -> Worker \cup {Nobody}]
    /\ \A m \in Mail : lease[m] # Nobody => mail[m] = "pending"
    /\ due \subseteq {m \in Mail : mail[m] = "pending"}
    /\ attempts \in [Mail -> 0..MaxAttempts]

LEMMA Sizes ==
    /\ Cardinality(Challenge) \in Nat
    /\ NoLogin \in Nat /\ NoLogin = Cardinality(Challenge) + 1
    /\ NoLogin \notin 0..Cardinality(Challenge)
    /\ NoToken \in Nat /\ NoToken = MaxRotations + 1
<1>1. Cardinality(Challenge) \in Nat
  BY FS_CardinalityType
<1> QED
  BY <1>1 DEF NoLogin, NoToken

LEMMA WorkingFields ==
    ASSUME WorkersTyped, NEW w \in Worker
    PROVE  /\ worker[w] = Idle \/ worker[w] \in Working
           /\ worker[w].stage # "idle" => worker[w].mail \in Mail /\ worker[w].result \in Result
           /\ worker[w].stage = "idle" => worker[w].mail = Nobody
BY DEF WorkersTyped, Working, Idle

LEMMA TypesJoin ==
    ASSUME SessionTypes, MailTypes, WorkersTyped, faults \in 0..MaxFaults
    PROVE  TypeOK
<1>1. \A w \in Worker : worker[w] = Idle \/ worker[w].mail \in Mail
  BY WorkingFields DEF Idle, Working
<1> QED
  BY <1>1 DEF TypeOK, SessionTypes, MailTypes

LEMMA TypesSplit == TypeOK => SessionTypes /\ MailTypes /\ faults \in 0..MaxFaults
BY DEF TypeOK, SessionTypes, MailTypes

(***************************************************************************)
(* Sessions.                                                               *)
(***************************************************************************)

LEMMA RevokeEnds ==
    ASSUME CredentialsInv, Revoke, alive' \in BOOLEAN,
           password' \in 0..Cardinality(Challenge), login' \in 0..NoLogin
    PROVE  SessionTypes' /\ SessionInv'
<1>1. SessionTypes'
  <2>1. session' \in BOOLEAN /\ refreshed' \subseteq Holder /\ since' = NoLogin
    BY DEF Revoke
  <2>2. token' \in 0..MaxRotations /\ has' \in [Holder -> 0..NoToken]
    BY Sizes DEF Revoke
  <2> QED
    BY <2>1, <2>2 DEF SessionTypes
<1>2. NoSessionOfOldPassword' /\ LoginFirst'
  BY DEF Revoke, NoSessionOfOldPassword, LoginFirst
<1>3. HoldersKeep'
  BY DEF Revoke, HoldersKeep
<1> QED
  BY <1>1, <1>2, <1>3 DEF SessionInv

LEMMA OpenStarts ==
    ASSUME CredentialsInv, NEW from, Open(from), ~session, alive,
           from = NoLogin \/ from = password,
           UNCHANGED userVars, login' = NoLogin
    PROVE  SessionTypes' /\ SessionInv'
<1>1. SessionTypes
  BY TypesSplit DEF CredentialsInv
<1>2. SessionTypes'
  BY <1>1, Sizes DEF Open, SessionTypes, userVars
<1>3. NoSessionOfOldPassword' /\ LoginFirst'
  BY DEF Open, NoSessionOfOldPassword, LoginFirst, userVars
<1>4. HoldersKeep'
  BY DEF Open, CredentialsInv, SessionInv, HoldersKeep
<1> QED
  BY <1>2, <1>3, <1>4 DEF SessionInv

(* Only who holds the expected token exchanges it: the first to do so, and  *)
(* from then on the same one.                                               *)
LEMMA ExchangeKeeps ==
    ASSUME CredentialsInv, NEW h \in Holder, NEW heard \in BOOLEAN, session, has[h] = token,
           Exchange(h, heard), UNCHANGED <<userVars, login>>
    PROVE  SessionTypes' /\ SessionInv'
<1>1. SessionTypes
  BY TypesSplit DEF CredentialsInv
<1>2. SessionTypes'
  BY <1>1, Sizes DEF Exchange, SessionTypes, userVars
<1>3. NoSessionOfOldPassword' /\ LoginFirst'
  BY DEF Exchange, CredentialsInv, SessionInv, NoSessionOfOldPassword, LoginFirst, userVars
<1>4. HoldersKeep'
  <2>1. refreshed = {} \/ refreshed = {h}
    BY <1>1 DEF CredentialsInv, SessionInv, HoldersKeep, SessionTypes
  <2>2. refreshed' = {h} /\ token' = token + 1 /\ session' = session
    BY <2>1 DEF Exchange
  <2>3. token' # 0
    BY <1>1, <2>2 DEF SessionTypes
  <2>4. \A g \in Holder \ {h} : has'[g] = has[g] /\ has[g] = 0
    BY <1>1, <2>1 DEF Exchange, SessionTypes, CredentialsInv, SessionInv, HoldersKeep
  <2> QED
    BY <2>2, <2>3, <2>4 DEF HoldersKeep
<1> QED
  BY <1>2, <1>3, <1>4 DEF SessionInv

LEMMA SessionsUntouched ==
    ASSUME CredentialsInv, UNCHANGED <<userVars, login, sessionVars>>
    PROVE  SessionTypes' /\ SessionInv'
<1>1. SessionTypes
  BY TypesSplit DEF CredentialsInv
<1>2. SessionTypes'
  BY <1>1 DEF SessionTypes, userVars, sessionVars
<1>3. NoSessionOfOldPassword' /\ LoginFirst'
  BY DEF CredentialsInv, SessionInv, NoSessionOfOldPassword, LoginFirst, userVars, sessionVars
<1>4. HoldersKeep'
  BY DEF CredentialsInv, SessionInv, HoldersKeep, sessionVars
<1> QED
  BY <1>2, <1>3, <1>4 DEF SessionInv

LEMMA SessionStep == CredentialsInv /\ [Next]_vars => SessionTypes' /\ SessionInv'
<1> SUFFICES ASSUME CredentialsInv, [Next]_vars PROVE SessionTypes' /\ SessionInv'
  OBVIOUS
<1>0. SessionTypes /\ SessionInv
  BY TypesSplit DEF CredentialsInv
<1>1. CASE UNCHANGED vars
  BY <1>1, SessionsUntouched DEF vars
<1>2. ASSUME NEW c \in Challenge, CreatePasswordResetChallenge(c) \/ Expire(c) \/ WrongCode(c)
      PROVE  SessionTypes' /\ SessionInv'
  BY <1>2, SessionsUntouched DEF CreatePasswordResetChallenge, Expire, WrongCode
<1>3. ASSUME NEW c \in Challenge, ConsumePasswordResetChallenge(c) PROVE SessionTypes' /\ SessionInv'
  <2>1. password' \in 0..Cardinality(Challenge) /\ alive' \in BOOLEAN /\ login' \in 0..NoLogin
    BY <1>0, <1>3, Sizes DEF SessionTypes, ConsumePasswordResetChallenge
  <2>2. Revoke
    BY <1>3 DEF ConsumePasswordResetChallenge
  <2> QED
    BY <2>1, <2>2, RevokeEnds
<1>4. CASE VerifyPassword
  <2>1. /\ alive /\ ~session /\ login' = password
        /\ UNCHANGED <<alive, password, session, token, since, has, refreshed>>
    BY <1>4 DEF VerifyPassword, userVars, sessionVars
  <2>2. SessionTypes'
    BY <1>0, <2>1, Sizes DEF SessionTypes
  <2>3. NoSessionOfOldPassword' /\ LoginFirst'
    BY <1>0, <2>1 DEF SessionInv, NoSessionOfOldPassword, LoginFirst
  <2>4. HoldersKeep'
    BY <1>0, <2>1 DEF SessionInv, HoldersKeep
  <2> QED
    BY <2>2, <2>3, <2>4 DEF SessionInv
<1>5. CASE IssueAfterLogin
  <2>1. login # NoLogin /\ login' = NoLogin /\ UNCHANGED userVars /\ ~session
    BY <1>0, <1>5 DEF IssueAfterLogin, SessionInv, LoginFirst
  <2>2. CASE alive /\ SamePassword
    BY <1>5, <2>1, <2>2, OpenStarts DEF IssueAfterLogin, SamePassword
  <2>3. CASE ~(alive /\ SamePassword)
    <3>1. UNCHANGED <<alive, password, session, token, since, has, refreshed>>
      BY <1>5, <2>1, <2>3 DEF IssueAfterLogin, sessionVars, userVars
    <3>2. SessionTypes'
      BY <1>0, <2>1, <3>1, Sizes DEF SessionTypes
    <3>3. NoSessionOfOldPassword' /\ LoginFirst'
      BY <1>0, <2>1, <3>1 DEF SessionInv, NoSessionOfOldPassword, LoginFirst
    <3>4. HoldersKeep'
      BY <1>0, <3>1 DEF SessionInv, HoldersKeep
    <3> QED
      BY <3>2, <3>3, <3>4 DEF SessionInv
  <2> QED
    BY <2>2, <2>3
<1>6. CASE IssueOtherwise
  BY <1>6, OpenStarts DEF IssueOtherwise
<1>7. ASSUME NEW h \in Holder, RotateSession(h) PROVE SessionTypes' /\ SessionInv'
  <2>0. UNCHANGED <<userVars, login>> /\ session
    BY <1>7 DEF RotateSession
  <2>1. CASE has[h] = token
    <3>1. has[h] + 1 # token
      BY <1>0, <2>1, Sizes DEF SessionTypes
    <3>2. \E heard \in BOOLEAN : Exchange(h, heard)
      BY <1>7, <2>1, <3>1 DEF RotateSession
    <3> QED
      BY <2>0, <2>1, <3>2, ExchangeKeeps
  <2>2. CASE has[h] # token /\ has[h] + 1 = token
    <3>1. Revoke
      BY <1>7, <2>2 DEF RotateSession
    <3> QED
      BY <1>0, <2>0, <3>1, RevokeEnds DEF SessionTypes, userVars
  <2>3. CASE has[h] # token /\ has[h] + 1 # token
    <3>1. UNCHANGED sessionVars
      BY <1>7, <2>3 DEF RotateSession
    <3> QED
      BY <2>0, <3>1, SessionsUntouched
  <2> QED
    BY <2>1, <2>2, <2>3
<1>8. CASE RevokeSession
  BY <1>0, <1>8, RevokeEnds DEF RevokeSession, SessionTypes, userVars
<1>9. CASE DeleteAccount
  <2>1. Revoke /\ alive' \in BOOLEAN /\ password' = password /\ login' = login
    BY <1>9 DEF DeleteAccount
  <2> QED
    BY <1>0, <2>1, RevokeEnds DEF SessionTypes
<1>10. ASSUME NEW w \in Worker,
              \/ \E m \in Mail : ClaimMail(w, m)
              \/ BeginDialogue(w)
              \/ \E result \in Result : EndDialogue(w, result)
              \/ FinishMailDelivery(w) \/ ReleaseOnShutdown(w) \/ Crash(w)
       PROVE  SessionTypes' /\ SessionInv'
  BY <1>10, SessionsUntouched DEF ClaimMail, BeginDialogue, EndDialogue, FinishMailDelivery,
                                  ReleaseOnShutdown, Crash
<1>11. CASE CancelInactive \/ \E m \in Mail : Elapse(m) \/ PruneMailDeliveries(m)
  BY <1>11, SessionsUntouched DEF CancelInactive, Elapse, PruneMailDeliveries
<1> QED
  BY <1>1, <1>2, <1>3, <1>4, <1>5, <1>6, <1>7, <1>8, <1>9, <1>10, <1>11 DEF Next


(***************************************************************************)
(* Challenges, mails and workers.                                          *)
(***************************************************************************)

MailPart == MailTypes /\ WorkersTyped /\ faults \in 0..MaxFaults /\ MailInv

LEMMA Parts == CredentialsInv => MailPart
BY TypesSplit DEF CredentialsInv, MailPart

LEMMA MailFacts ==
    /\ \A c \in Challenge, p \in Purpose : <<c, p>> \in Mail /\ <<c, p>>[1] = c /\ <<c, p>>[2] = p
    /\ \A m \in Mail : m[1] \in Challenge /\ m[2] \in Purpose /\ m = <<m[1], m[2]>>
    /\ "reset" \in Purpose /\ "changed" \in Purpose
BY DEF Mail, Purpose

LEMMA DialogueIsLeased ==
    ASSUME CredentialsInv, NEW m \in InDialogue
    PROVE  m \in Mail /\ mail[m] = "pending" /\ \E w \in Worker : lease[m] = w
<1>1. PICK w \in Worker : worker[w].stage = "sending" /\ worker[w].mail = m
  BY DEF InDialogue
<1> QED
  BY <1>1, WorkingFields DEF CredentialsInv, MailInv, DialoguesHold, LeasedTo

(* A step that leaves the rows of the dialogues alone. *)
LEMMA DialoguesKept ==
    ASSUME CredentialsInv, worker' = worker,
           \A m \in InDialogue : mail'[m] = mail[m] /\ lease'[m] = lease[m]
    PROVE  DialoguesHold'
<1>1. \A w \in Worker : worker[w].stage = "sending" => worker[w].mail \in InDialogue
  BY DEF InDialogue
<1> QED
  BY <1>1 DEF CredentialsInv, MailInv, DialoguesHold, LeasedTo

LEMMA GuessesKept ==
    ASSUME CredentialsInv, ForgetGuesses
    PROVE  guesses' \in [Challenge -> 0..MaxGuesses] /\ GuessesForgotten'
<1>1. guesses \in [Challenge -> 0..MaxGuesses]
  BY Parts DEF MailPart, MailTypes
<1>2. guesses' \in [Challenge -> 0..MaxGuesses]
  BY <1>1 DEF ForgetGuesses
<1>3. GuessesForgotten'
  BY DEF ForgetGuesses, GuessesForgotten
<1> QED
  BY <1>2, <1>3

LEMMA ForgetType ==
    ASSUME CredentialsInv, NEW S, Forget(S)
    PROVE  attempts' \in [Mail -> 0..MaxAttempts]
<1>1. attempts \in [Mail -> 0..MaxAttempts]
  BY Parts DEF MailPart, MailTypes
<1> QED
  BY <1>1 DEF Forget

(* A step of the worker w, after which it has m in hand or nothing. *)
LEMMA WorkerMoves ==
    ASSUME CredentialsInv, NEW w \in Worker, NEW r \in {Idle} \cup Working,
           worker' = [worker EXCEPT ![w] = r]
    PROVE  /\ WorkersTyped' /\ worker'[w] = r
           /\ \A v \in Worker : v # w => worker'[v] = worker[v]
BY Parts DEF MailPart, WorkersTyped

(* Steps that are not about challenges and mails. *)
LEMMA MailsUntouched ==
    ASSUME CredentialsInv, UNCHANGED <<alive, chalVars, mailVars, worker, faults>>
    PROVE  MailPart'
<1>1. MailPart /\ UNCHANGED <<alive, chal, guesses, resets, mail, lease, due, attempts, worker, faults>>
  BY Parts DEF chalVars, mailVars
<1>2. MailTypes'
  BY <1>1 DEF MailPart, MailTypes
<1>3. WorkersTyped' /\ faults' \in 0..MaxFaults
  BY <1>1 DEF MailPart, WorkersTyped
<1>4. DialoguesHold'
  BY <1>1, DialoguesKept
<1>5. OneOpen' /\ CodesSpent' /\ MailsMatch'
  BY <1>1 DEF MailPart, MailInv, OneOpen, Unconsumed, CodesSpent, MailsMatch
<1>6. ErasedHasNone' /\ GuessesForgotten'
  BY <1>1 DEF MailPart, MailInv, ErasedHasNone, GuessesForgotten
<1> QED
  BY <1>2, <1>3, <1>4, <1>5, <1>6 DEF MailPart, MailInv

LEMMA GuessStep ==
    ASSUME CredentialsInv, NEW c \in Challenge, Expire(c) \/ WrongCode(c)
    PROVE  MailPart'
<1>1. MailPart /\ UNCHANGED <<alive, resets, mail, lease, due, attempts, worker, faults>>
  BY Parts DEF Expire, WrongCode, mailVars, userVars
<1>2. /\ chal' \in [Challenge -> ChalState] /\ guesses' \in [Challenge -> 0..MaxGuesses]
      /\ GuessesForgotten'
      /\ chal' = chal \/ (chal[c] = "active" /\ chal' = [chal EXCEPT ![c] = "expired"])
  <2>1. CASE Expire(c)
    <3>1. chal' \in [Challenge -> ChalState]
      BY <1>1, <2>1 DEF Expire, MailPart, MailTypes, ChalState
    <3>2. guesses' \in [Challenge -> 0..MaxGuesses] /\ GuessesForgotten'
      BY <2>1, GuessesKept DEF Expire
    <3> QED
      BY <2>1, <3>1, <3>2 DEF Expire
  <2>2. CASE WrongCode(c)
    <3>1. guesses' \in [Challenge -> 0..MaxGuesses]
      BY <1>1, <2>2 DEF WrongCode, Usable, MailPart, MailTypes
    <3>2. GuessesForgotten'
      BY <1>1, <2>2 DEF WrongCode, Usable, MailPart, MailTypes, MailInv, GuessesForgotten
    <3> QED
      BY <1>1, <2>2, <3>1, <3>2 DEF WrongCode, MailPart, MailTypes
  <2> QED
    BY <2>1, <2>2
<1>3. MailTypes'
  BY <1>1, <1>2 DEF MailPart, MailTypes
<1>4. WorkersTyped' /\ faults' \in 0..MaxFaults /\ DialoguesHold'
  BY <1>1, DialoguesKept DEF MailPart, WorkersTyped
<1>5. Unconsumed' = Unconsumed
  BY <1>1, <1>2 DEF Unconsumed, MailPart, MailTypes
<1>6. OneOpen'
  BY <1>1, <1>5 DEF MailPart, MailInv, OneOpen
<1>7. CodesSpent' /\ MailsMatch'
  BY <1>1, <1>2 DEF MailPart, MailTypes, MailInv, CodesSpent, MailsMatch
<1>8. ErasedHasNone'
  BY <1>1 DEF MailPart, MailInv, ErasedHasNone
<1> QED
  BY <1>2, <1>3, <1>4, <1>6, <1>7, <1>8 DEF MailPart, MailInv

LEMMA CreateStep ==
    ASSUME CredentialsInv, NEW c \in Challenge, CreatePasswordResetChallenge(c)
    PROVE  MailPart'
<1> DEFINE old == {m \in Mail : m[1] \in Unconsumed /\ mail[m] = "pending"}
           own == <<c, "reset">>
<1>1. /\ MailPart /\ alive /\ chal[c] = "none" /\ old \cap InDialogue = {}
      /\ chal' = [d \in Challenge |->
                    IF d = c THEN "active" ELSE IF d \in Unconsumed THEN "consumed" ELSE chal[d]]
      /\ mail' = [m \in Mail |-> IF m = own THEN "pending" ELSE IF m \in old THEN "canceled" ELSE mail[m]]
      /\ lease' = [m \in Mail |-> IF m \in old THEN Nobody ELSE lease[m]]
      /\ due' = (due \ old) \cup {own}
      /\ Forget(old) /\ ForgetGuesses
      /\ UNCHANGED <<alive, resets, worker, faults>>
  BY Parts DEF CreatePasswordResetChallenge, userVars
<1>2. own \in Mail /\ own \notin old /\ mail[own] = "none" /\ lease[own] = Nobody
  <2>1. own \in Mail /\ own[1] = c /\ c \notin Unconsumed
    BY <1>1, MailFacts DEF Unconsumed
  <2>2. mail[own] = "none"
    BY <1>1 DEF MailPart, MailInv, MailsMatch
  <2>3. lease[own] = Nobody
    BY <1>1, <2>1, <2>2 DEF MailPart, MailTypes
  <2> HIDE DEF own
  <2> QED
    BY <2>1, <2>2, <2>3
<1>3. old \subseteq Mail /\ \A m \in old : m[1] \in Unconsumed /\ mail[m] = "pending"
  OBVIOUS
<1>4. \A d \in Unconsumed, p \in Purpose : mail[<<d, p>>] = "pending" => <<d, p>> \in old
  BY MailFacts DEF Unconsumed
<1> HIDE DEF old, own
<1>5. MailTypes'
  <2>1. chal' \in [Challenge -> ChalState] /\ mail' \in [Mail -> MailState]
    BY <1>1, <1>2 DEF MailPart, MailTypes, ChalState, MailState
  <2>2. /\ lease' \in [Mail -> Worker \cup {Nobody}]
        /\ \A m \in Mail : lease'[m] # Nobody => mail'[m] = "pending"
        /\ due' \subseteq {m \in Mail : mail'[m] = "pending"}
    BY <1>1, <1>2 DEF MailPart, MailTypes
  <2> QED
    BY <1>1, <2>1, <2>2, GuessesKept, ForgetType DEF MailPart, MailTypes
<1>6. WorkersTyped' /\ faults' \in 0..MaxFaults
  BY <1>1 DEF MailPart, WorkersTyped
<1>7. DialoguesHold'
  <2>1. \A m \in InDialogue : m \in Mail /\ m \notin old /\ m # own
    BY <1>1, <1>2, DialogueIsLeased
  <2> QED
    BY <1>1, <2>1, DialoguesKept
<1>8. Unconsumed' = {c}
  BY <1>1 DEF Unconsumed
<1>9. OneOpen'
  BY <1>8 DEF OneOpen
<1>10. CodesSpent'
  BY <1>1 DEF MailPart, MailInv, CodesSpent, Unconsumed
<1>11. MailsMatch'
  <2> SUFFICES ASSUME NEW d \in Challenge
               PROVE  /\ chal'[d] = "none" => mail'[<<d, "reset">>] = "none"
                      /\ chal'[d] \in {"none", "active", "expired"} => mail'[<<d, "changed">>] = "none"
                      /\ chal'[d] \in {"consumed", "gone"} => mail'[<<d, "reset">>] # "pending"
    BY DEF MailsMatch
  <2>1. <<d, "reset">> \in Mail /\ <<d, "changed">> \in Mail /\ <<d, "changed">> # own
        /\ (<<d, "reset">> = own => d = c)
    BY MailFacts DEF own
  <2>2. /\ chal[d] = "none" => mail[<<d, "reset">>] = "none"
        /\ chal[d] \in {"none", "active", "expired"} => mail[<<d, "changed">>] = "none"
        /\ chal[d] \in {"consumed", "gone"} => mail[<<d, "reset">>] # "pending"
    BY <1>1 DEF MailPart, MailInv, MailsMatch
  <2>3. CASE d = c
    BY <1>1, <1>3, <2>1, <2>2, <2>3
  <2>4. CASE d # c /\ d \in Unconsumed
    BY <1>1, <1>4, <2>1, <2>2, <2>4, MailFacts
  <2>5. CASE d # c /\ d \notin Unconsumed
    BY <1>1, <1>3, <2>1, <2>2, <2>5, MailFacts
  <2> QED
    BY <2>3, <2>4, <2>5
<1>12. ErasedHasNone'
  BY <1>1 DEF ErasedHasNone
<1> QED
  BY <1>1, <1>5, <1>6, <1>7, <1>9, <1>10, <1>11, <1>12, GuessesKept DEF MailPart, MailInv

LEMMA ConsumeStep ==
    ASSUME CredentialsInv, NEW c \in Challenge, ConsumePasswordResetChallenge(c)
    PROVE  MailPart'
<1> DEFINE spent == Spent(c)
           code == <<c, "reset">>
           own == <<c, "changed">>
<1>1. /\ MailPart /\ alive /\ chal[c] = "active" /\ spent \cap InDialogue = {}
      /\ mail' = [m \in Mail |-> IF m \in spent THEN "canceled" ELSE IF m = own THEN "pending" ELSE mail[m]]
      /\ lease' = [m \in Mail |-> IF m \in spent THEN Nobody ELSE lease[m]]
      /\ due' = (due \ spent) \cup {own}
      /\ chal' = [d \in Challenge |-> IF d \in Unconsumed THEN "consumed" ELSE chal[d]]
      /\ resets' = [resets EXCEPT ![c] = @ + 1]
      /\ Forget(spent) /\ ForgetGuesses
      /\ UNCHANGED <<alive, worker, faults>>
  BY Parts DEF ConsumePasswordResetChallenge, Usable
<1>2. /\ own \in Mail /\ own # code /\ code \in Mail
      /\ spent \subseteq {code} /\ (mail[code] = "pending" => code \in spent)
      /\ mail[own] = "none" /\ lease[own] = Nobody
  BY <1>1, MailFacts DEF MailPart, MailTypes, MailInv, MailsMatch, Spent
<1>3. Unconsumed = {c}
  BY <1>1 DEF MailPart, MailInv, OneOpen, Unconsumed
<1>4. \A d \in Challenge : /\ <<d, "reset">> \in Mail /\ <<d, "changed">> \in Mail /\ <<d, "changed">> # code
                           /\ <<d, "reset">> # own /\ (<<d, "reset">> = code => d = c)
                           /\ (<<d, "changed">> = own => d = c)
  BY MailFacts
<1> HIDE DEF spent, code, own
<1>5. MailTypes'
  <2>1. chal' \in [Challenge -> ChalState] /\ mail' \in [Mail -> MailState]
    BY <1>1, <1>2 DEF MailPart, MailTypes, ChalState, MailState
  <2>2. /\ lease' \in [Mail -> Worker \cup {Nobody}]
        /\ \A m \in Mail : lease'[m] # Nobody => mail'[m] = "pending"
        /\ due' \subseteq {m \in Mail : mail'[m] = "pending"}
    BY <1>1, <1>2 DEF MailPart, MailTypes
  <2>3. resets' \in [Challenge -> Nat]
    BY <1>1 DEF MailPart, MailTypes
  <2> QED
    BY <1>1, <2>1, <2>2, <2>3, GuessesKept, ForgetType DEF MailPart, MailTypes
<1>6. WorkersTyped' /\ faults' \in 0..MaxFaults
  BY <1>1 DEF MailPart, WorkersTyped
<1>7. DialoguesHold'
  <2>1. \A m \in InDialogue : m \in Mail /\ m \notin spent /\ m # own
    BY <1>1, <1>2, DialogueIsLeased
  <2> QED
    BY <1>1, <2>1, DialoguesKept
<1>8. Unconsumed' = {} /\ OneOpen'
  BY <1>1 DEF Unconsumed, OneOpen
<1>9. CodesSpent'
  <2>1. resets[c] = 0 /\ chal'[c] = "consumed"
    BY <1>1, <1>3 DEF MailPart, MailInv, CodesSpent
  <2>2. resets'[c] = 1
    BY <1>1, <2>1 DEF MailPart, MailTypes
  <2>3. \A d \in Challenge : d # c => resets'[d] = resets[d] /\ chal'[d] = chal[d]
    BY <1>1, <1>3 DEF MailPart, MailTypes
  <2> QED
    BY <1>1, <2>1, <2>2, <2>3 DEF MailPart, MailInv, CodesSpent
<1>10. MailsMatch'
  <2> SUFFICES ASSUME NEW d \in Challenge
               PROVE  /\ chal'[d] = "none" => mail'[<<d, "reset">>] = "none"
                      /\ chal'[d] \in {"none", "active", "expired"} => mail'[<<d, "changed">>] = "none"
                      /\ chal'[d] \in {"consumed", "gone"} => mail'[<<d, "reset">>] # "pending"
    BY DEF MailsMatch
  <2>1. /\ chal[d] = "none" => mail[<<d, "reset">>] = "none"
        /\ chal[d] \in {"none", "active", "expired"} => mail[<<d, "changed">>] = "none"
        /\ chal[d] \in {"consumed", "gone"} => mail[<<d, "reset">>] # "pending"
    BY <1>1 DEF MailPart, MailInv, MailsMatch
  <2>2. CASE d = c
    <3>1. chal'[d] = "consumed" /\ mail'[code] # "pending" /\ code = <<d, "reset">>
      BY <1>1, <1>2, <1>3, <2>2 DEF code
    <3> QED
      BY <3>1
  <2>3. CASE d # c
    BY <1>1, <1>2, <1>3, <1>4, <2>1, <2>3
  <2> QED
    BY <2>2, <2>3
<1>11. ErasedHasNone'
  BY <1>1 DEF ErasedHasNone
<1> QED
  BY <1>1, <1>5, <1>6, <1>7, <1>8, <1>9, <1>10, <1>11, GuessesKept DEF MailPart, MailInv


(* Mails of challenges that are no longer active are canceled, and perhaps  *)
(* one of the others is leased.                                             *)
LEMMA InactiveFacts ==
    Inactive \subseteq Mail /\ \A m \in Inactive : mail[m] = "pending" /\ m[2] = "reset"
BY DEF Inactive

LEMMA BatchKeeps ==
    ASSUME CredentialsInv, Inactive \cap InDialogue = {}, NEW m \in Mail \cup {Nobody}, NEW w \in Worker \cup {Nobody},
           m \in Mail => mail[m] = "pending" /\ m \notin Inactive /\ m \notin InDialogue,
           mail' = [n \in Mail |-> IF n \in Inactive THEN "canceled" ELSE mail[n]],
           lease' = [n \in Mail |-> IF n \in Inactive THEN Nobody ELSE IF n = m THEN w ELSE lease[n]],
           due' = due \ (Inactive \cup {m}),
           attempts' \in [Mail -> 0..MaxAttempts],
           UNCHANGED <<alive, chalVars, faults>>
    PROVE  /\ MailTypes' /\ faults' \in 0..MaxFaults
           /\ OneOpen' /\ CodesSpent' /\ MailsMatch' /\ ErasedHasNone' /\ GuessesForgotten'
<1>1. MailPart /\ UNCHANGED <<alive, chal, guesses, resets, faults>>
  BY Parts DEF chalVars
<1>2. MailTypes'
  <2>1. mail' \in [Mail -> MailState] /\ lease' \in [Mail -> Worker \cup {Nobody}]
    BY <1>1 DEF MailPart, MailTypes, MailState
  <2>2. /\ \A n \in Mail : lease'[n] # Nobody => mail'[n] = "pending"
        /\ due' \subseteq {n \in Mail : mail'[n] = "pending"}
    BY <1>1 DEF MailPart, MailTypes
  <2> QED
    BY <1>1, <2>1, <2>2 DEF MailPart, MailTypes
<1>3. OneOpen' /\ CodesSpent' /\ GuessesForgotten'
  BY <1>1 DEF MailPart, MailInv, OneOpen, Unconsumed, CodesSpent, GuessesForgotten
<1>4. MailsMatch' /\ ErasedHasNone'
  <2>1. \A n \in Mail : /\ mail'[n] = "pending" => mail[n] = "pending"
                        /\ mail[n] = "none" => mail'[n] = "none"
    BY InactiveFacts
  <2>2. \A c \in Challenge : <<c, "reset">> \in Mail /\ <<c, "changed">> \in Mail
    BY MailFacts
  <2>3. MailsMatch'
    BY <1>1, <2>1, <2>2 DEF MailPart, MailInv, MailsMatch
  <2>4. ErasedHasNone'
    BY <1>1, <2>1 DEF MailPart, MailInv, ErasedHasNone
  <2> QED
    BY <2>3, <2>4
<1> QED
  BY <1>1, <1>2, <1>3, <1>4 DEF MailPart

LEMMA ClaimStep ==
    ASSUME CredentialsInv, NEW w \in Worker, NEW m \in Mail, ClaimMail(w, m)
    PROVE  MailPart'
<1>1. /\ mail[m] = "pending" /\ m \notin Inactive /\ m \notin InDialogue
      /\ Inactive \cap InDialogue = {}
      /\ mail' = [n \in Mail |-> IF n \in Inactive THEN "canceled" ELSE mail[n]]
      /\ lease' = [n \in Mail |-> IF n \in Inactive THEN Nobody ELSE IF n = m THEN w ELSE lease[n]]
      /\ due' = due \ (Inactive \cup {m})
      /\ worker' = [worker EXCEPT ![w] = [stage |-> "claimed", mail |-> m, result |-> "ok"]]
      /\ UNCHANGED <<alive, chalVars, faults>>
  BY DEF ClaimMail, Claimable, Set, userVars
<1>2. attempts' \in [Mail -> 0..MaxAttempts]
  <2>1. attempts \in [Mail -> 0..MaxAttempts]
    BY Parts DEF MailPart, MailTypes
  <2> QED
    BY <2>1 DEF ClaimMail
<1>3. /\ MailTypes' /\ faults' \in 0..MaxFaults
      /\ OneOpen' /\ CodesSpent' /\ MailsMatch' /\ ErasedHasNone' /\ GuessesForgotten'
  BY <1>1, <1>2, BatchKeeps
<1>4. [stage |-> "claimed", mail |-> m, result |-> "ok"] \in Working
  BY DEF Working, Result
<1>5. /\ WorkersTyped' /\ worker'[w] = [stage |-> "claimed", mail |-> m, result |-> "ok"]
      /\ \A v \in Worker : v # w => worker'[v] = worker[v]
  BY <1>1, <1>4, WorkerMoves
<1>6. DialoguesHold'
  <2> SUFFICES ASSUME NEW v \in Worker, worker'[v].stage = "sending"
               PROVE  mail'[worker'[v].mail] = "pending" /\ lease'[worker'[v].mail] = v
    BY DEF DialoguesHold, LeasedTo
  <2>1. v # w /\ worker'[v] = worker[v]
    BY <1>5
  <2>2. worker[v].mail \in InDialogue
    BY <2>1 DEF InDialogue
  <2>3. /\ worker[v].mail \in Mail /\ worker[v].mail \notin Inactive /\ worker[v].mail # m
        /\ mail[worker[v].mail] = "pending" /\ lease[worker[v].mail] = v
    BY <1>1, <2>1, <2>2, DialogueIsLeased DEF CredentialsInv, MailInv, DialoguesHold, LeasedTo
  <2> QED
    BY <1>1, <2>1, <2>3
<1> QED
  BY <1>3, <1>5, <1>6 DEF MailPart, MailInv

LEMMA CancelStep ==
    ASSUME CredentialsInv, CancelInactive
    PROVE  MailPart'
<1>1. /\ Inactive \cap InDialogue = {} /\ Nobody \notin Mail
      /\ mail' = [n \in Mail |-> IF n \in Inactive THEN "canceled" ELSE mail[n]]
      /\ lease' = [n \in Mail |-> IF n \in Inactive THEN Nobody ELSE lease[n]]
      /\ due' = due \ Inactive
      /\ Forget(Inactive)
      /\ UNCHANGED <<alive, chalVars, worker, faults>>
  BY DEF CancelInactive, Cancel, userVars
<1>2. attempts' \in [Mail -> 0..MaxAttempts]
  BY <1>1, ForgetType
<1>3. due' = due \ (Inactive \cup {Nobody})
  BY <1>1, Parts DEF MailPart, MailTypes
<1>4. lease' = [n \in Mail |-> IF n \in Inactive THEN Nobody ELSE IF n = Nobody THEN Nobody ELSE lease[n]]
  BY <1>1
<1>5. /\ MailTypes' /\ faults' \in 0..MaxFaults
      /\ OneOpen' /\ CodesSpent' /\ MailsMatch' /\ ErasedHasNone' /\ GuessesForgotten'
  BY <1>1, <1>2, <1>3, <1>4, BatchKeeps
<1>6. DialoguesHold'
  <2>1. \A m \in InDialogue : m \in Mail /\ m \notin Inactive
    BY <1>1, DialogueIsLeased
  <2> QED
    BY <1>1, <2>1, DialoguesKept
<1>7. WorkersTyped'
  BY <1>1, Parts DEF MailPart, WorkersTyped
<1> QED
  BY <1>5, <1>6, <1>7 DEF MailPart, MailInv

(* Steps of a worker that do not touch its row, and its crash. *)
LEMMA InHandKeeps ==
    ASSUME CredentialsInv, NEW w \in Worker, NEW r \in {Idle} \cup Working,
           worker' = [worker EXCEPT ![w] = r],
           r.stage = "sending" => LeasedTo(w, r.mail),
           UNCHANGED <<alive, chalVars, mailVars>>, faults' \in 0..MaxFaults
    PROVE  MailPart'
<1>1. MailPart /\ UNCHANGED <<alive, chal, guesses, resets, mail, lease, due, attempts>>
  BY Parts DEF chalVars, mailVars
<1>2. MailTypes'
  BY <1>1 DEF MailPart, MailTypes
<1>3. /\ WorkersTyped' /\ worker'[w] = r
      /\ \A v \in Worker : v # w => worker'[v] = worker[v]
  BY WorkerMoves
<1>4. DialoguesHold'
  BY <1>1, <1>3 DEF MailPart, MailInv, DialoguesHold, LeasedTo
<1>5. OneOpen' /\ CodesSpent' /\ MailsMatch'
  BY <1>1 DEF MailPart, MailInv, OneOpen, Unconsumed, CodesSpent, MailsMatch
<1>6. ErasedHasNone' /\ GuessesForgotten'
  BY <1>1 DEF MailPart, MailInv, ErasedHasNone, GuessesForgotten
<1> QED
  BY <1>2, <1>3, <1>4, <1>5, <1>6 DEF MailPart, MailInv

LEMMA DialogueStep ==
    ASSUME CredentialsInv, NEW w \in Worker,
           BeginDialogue(w) \/ Crash(w) \/ \E result \in Result : EndDialogue(w, result)
    PROVE  MailPart'
<1>1. MailPart /\ Idle.stage = "idle" /\ worker[w].stage # "idle" /\ worker[w].mail \in Mail
  <2>1. worker[w].stage # "idle"
    BY DEF BeginDialogue, Crash, EndDialogue
  <2> QED
    BY <2>1, Parts, WorkingFields DEF Idle, MailPart
<1>2. CASE BeginDialogue(w)
  <2>1. UNCHANGED <<alive, chalVars, mailVars, faults>>
    BY <1>2 DEF BeginDialogue, userVars
  <2>2. CASE LeasedTo(w, worker[w].mail)
    <3> DEFINE r == [stage |-> "sending", mail |-> worker[w].mail, result |-> "ok"]
    <3>1. r \in Working /\ r.mail = worker[w].mail
      BY <1>1 DEF Working, Result
    <3>2. worker' = [worker EXCEPT ![w] = r]
      BY <1>2, <2>2 DEF BeginDialogue, Set
    <3> HIDE DEF r
    <3> QED
      BY <1>1, <2>1, <2>2, <3>1, <3>2, InHandKeeps DEF MailPart
  <2>3. CASE ~LeasedTo(w, worker[w].mail)
    <3>1. worker' = [worker EXCEPT ![w] = Idle]
      BY <1>2, <2>3 DEF BeginDialogue
    <3> QED
      BY <1>1, <2>1, <3>1, InHandKeeps DEF MailPart
  <2> QED
    BY <2>2, <2>3
<1>3. CASE Crash(w)
  <2>1. faults' \in 0..MaxFaults
    BY <1>1, <1>3 DEF Crash, MailPart
  <2> QED
    BY <1>1, <1>3, <2>1, InHandKeeps DEF Crash, userVars
<1>4. ASSUME NEW result \in Result, EndDialogue(w, result) PROVE MailPart'
  <2> DEFINE r == [stage |-> "sent", mail |-> worker[w].mail, result |-> result]
  <2>1. r \in Working /\ r.stage # "sending"
    BY <1>1 DEF Working
  <2>2. worker' = [worker EXCEPT ![w] = r] /\ UNCHANGED <<alive, chalVars, mailVars, faults>>
    BY <1>4 DEF EndDialogue, Set, userVars
  <2> HIDE DEF r
  <2> QED
    BY <1>1, <2>1, <2>2, InHandKeeps DEF MailPart
<1> QED
  BY <1>2, <1>3, <1>4


LEMMA GuessesSame ==
    ASSUME CredentialsInv, ForgetGuesses, chal' = chal
    PROVE  guesses' = guesses
<1>1. guesses \in [Challenge -> 0..MaxGuesses] /\ GuessesForgotten
  BY Parts DEF MailPart, MailTypes, MailInv
<1> QED
  BY <1>1 DEF ForgetGuesses, GuessesForgotten

(* A report under the lease: the row leaves the queue or waits again, and a *)
(* dead letter takes its challenge along.                                   *)
LEMMA ReportFacts ==
    ASSUME CredentialsInv, NEW w \in Worker, FinishMailDelivery(w), Reports(w, worker[w].mail)
    PROVE  \E m \in Mail, outcome \in {"pending", "delivered", "dead_letter"} :
              /\ m = worker[w].mail
              /\ mail[m] = "pending" /\ lease[m] = w /\ m \notin InDialogue
              /\ mail' = [mail EXCEPT ![m] = outcome]
              /\ lease' = [lease EXCEPT ![m] = Nobody]
              /\ due' = due \ {m}
              /\ attempts' \in [Mail -> 0..MaxAttempts]
              /\ chal' = IF outcome = "dead_letter" /\ m[2] = "reset"
                           THEN [chal EXCEPT ![m[1]] = "consumed"] ELSE chal
              /\ worker' = [worker EXCEPT ![w] = Idle]
              /\ ForgetGuesses
              /\ UNCHANGED <<alive, resets, faults>>
<1> DEFINE m == worker[w].mail
           dead == DeadLetter(w, m)
           outcome == IF dead THEN "dead_letter" ELSE IF worker[w].result = "ok" THEN "delivered" ELSE "pending"
<1>1. m \in Mail
  BY WorkingFields DEF CredentialsInv, FinishMailDelivery
<1>2. outcome \in {"pending", "delivered", "dead_letter"} /\ (dead <=> outcome = "dead_letter")
  OBVIOUS
<1>3. /\ mail[m] = "pending" /\ lease[m] = w /\ m \notin InDialogue
      /\ mail' = [mail EXCEPT ![m] = outcome]
      /\ lease' = [lease EXCEPT ![m] = Nobody]
      /\ due' = due \ {m}
      /\ Forget(IF outcome = "pending" THEN {} ELSE {m})
      /\ chal' = IF dead THEN ChallengeOfDeadLetter(m) ELSE chal
      /\ worker' = [worker EXCEPT ![w] = Idle]
      /\ ForgetGuesses
      /\ UNCHANGED <<alive, resets, faults>>
  BY DEF FinishMailDelivery, Reports, userVars
<1> HIDE DEF outcome, dead
<1>4. attempts' \in [Mail -> 0..MaxAttempts]
  BY <1>3, ForgetType
<1>5. chal' = IF outcome = "dead_letter" /\ m[2] = "reset"
                THEN [chal EXCEPT ![m[1]] = "consumed"] ELSE chal
  BY <1>2, <1>3 DEF ChallengeOfDeadLetter
<1> HIDE DEF m
<1>6. m = worker[w].mail
  BY DEF m
<1> QED
  BY <1>1, <1>2, <1>3, <1>4, <1>5, <1>6

LEMMA FinishStep ==
    ASSUME CredentialsInv, NEW w \in Worker, FinishMailDelivery(w)
    PROVE  MailPart'
<1>1. CASE ~Reports(w, worker[w].mail)
  <2>1. /\ worker' = [worker EXCEPT ![w] = Idle] /\ ForgetGuesses
        /\ UNCHANGED <<alive, chal, resets, mailVars, faults>>
    BY <1>1 DEF FinishMailDelivery, userVars
  <2>2. UNCHANGED chalVars
    BY <2>1, GuessesSame DEF chalVars
  <2>3. Idle.stage = "idle" /\ faults' \in 0..MaxFaults
    BY <2>1, Parts DEF Idle, MailPart
  <2> QED
    BY <2>1, <2>2, <2>3, InHandKeeps
<1>2. CASE Reports(w, worker[w].mail)
  <2>1. PICK m \in Mail, outcome \in {"pending", "delivered", "dead_letter"} :
              /\ m = worker[w].mail
              /\ mail[m] = "pending" /\ lease[m] = w /\ m \notin InDialogue
              /\ mail' = [mail EXCEPT ![m] = outcome]
              /\ lease' = [lease EXCEPT ![m] = Nobody]
              /\ due' = due \ {m}
              /\ attempts' \in [Mail -> 0..MaxAttempts]
              /\ chal' = IF outcome = "dead_letter" /\ m[2] = "reset"
                           THEN [chal EXCEPT ![m[1]] = "consumed"] ELSE chal
              /\ worker' = [worker EXCEPT ![w] = Idle]
              /\ ForgetGuesses
              /\ UNCHANGED <<alive, resets, faults>>
    BY <1>2, ReportFacts
  <2>2. MailPart /\ Idle.stage = "idle"
    BY Parts DEF Idle
  <2>3. /\ mail'[m] = outcome /\ lease'[m] = Nobody
        /\ \A n \in Mail : n # m => mail'[n] = mail[n] /\ lease'[n] = lease[n]
    BY <2>1, <2>2 DEF MailPart, MailTypes
  <2>4. /\ \A d \in Challenge : \/ chal'[d] = chal[d]
                                \/ chal'[d] = "consumed" /\ m = <<d, "reset">> /\ outcome = "dead_letter"
        /\ chal' \in [Challenge -> ChalState]
    BY <2>1, <2>2, MailFacts DEF MailPart, MailTypes, ChalState
  <2>5. MailTypes'
    <3>1. mail' \in [Mail -> MailState] /\ lease' \in [Mail -> Worker \cup {Nobody}]
      BY <2>1, <2>2 DEF MailPart, MailTypes, MailState
    <3>2. /\ \A n \in Mail : lease'[n] # Nobody => mail'[n] = "pending"
          /\ due' \subseteq {n \in Mail : mail'[n] = "pending"}
      BY <2>1, <2>2, <2>3 DEF MailPart, MailTypes
    <3> QED
      BY <2>1, <2>2, <2>4, <3>1, <3>2, GuessesKept DEF MailPart, MailTypes
  <2>6. /\ WorkersTyped' /\ worker'[w] = Idle
        /\ \A v \in Worker : v # w => worker'[v] = worker[v]
    BY <2>1, WorkerMoves
  <2>7. DialoguesHold'
    <3> SUFFICES ASSUME NEW v \in Worker, worker'[v].stage = "sending"
                 PROVE  mail'[worker'[v].mail] = "pending" /\ lease'[worker'[v].mail] = v
      BY DEF DialoguesHold, LeasedTo
    <3>1. v # w /\ worker'[v] = worker[v]
      BY <2>2, <2>6
    <3>2. worker[v].mail \in InDialogue
      BY <3>1 DEF InDialogue
    <3>3. /\ worker[v].mail \in Mail /\ worker[v].mail # m
          /\ mail[worker[v].mail] = "pending" /\ lease[worker[v].mail] = v
      BY <2>1, <3>1, <3>2, DialogueIsLeased DEF CredentialsInv, MailInv, DialoguesHold, LeasedTo
    <3> QED
      BY <2>3, <3>1, <3>3
  <2>8. OneOpen'
    <3>1. Unconsumed' \subseteq Unconsumed
      BY <2>4 DEF Unconsumed
    <3> QED
      BY <2>2, <3>1 DEF MailPart, MailInv, OneOpen
  <2>9. CodesSpent'
    BY <2>1, <2>2, <2>4 DEF MailPart, MailInv, CodesSpent
  <2>10. MailsMatch'
    <3> SUFFICES ASSUME NEW d \in Challenge
                 PROVE  /\ chal'[d] = "none" => mail'[<<d, "reset">>] = "none"
                        /\ chal'[d] \in {"none", "active", "expired"} => mail'[<<d, "changed">>] = "none"
                        /\ chal'[d] \in {"consumed", "gone"} => mail'[<<d, "reset">>] # "pending"
      BY DEF MailsMatch
    <3>1. /\ chal[d] = "none" => mail[<<d, "reset">>] = "none"
          /\ chal[d] \in {"none", "active", "expired"} => mail[<<d, "changed">>] = "none"
          /\ chal[d] \in {"consumed", "gone"} => mail[<<d, "reset">>] # "pending"
      BY <2>2 DEF MailPart, MailInv, MailsMatch
    <3>2. <<d, "reset">> \in Mail /\ <<d, "changed">> \in Mail
      BY MailFacts
    <3>3. CASE chal'[d] = chal[d]
      BY <2>1, <2>3, <3>1, <3>2, <3>3
    <3>4. CASE chal'[d] = "consumed" /\ m = <<d, "reset">> /\ outcome = "dead_letter"
      BY <2>3, <3>4
    <3> QED
      BY <2>4, <3>3, <3>4
  <2>11. ErasedHasNone'
    BY <2>1, <2>2, <2>3 DEF MailPart, MailInv, ErasedHasNone
  <2> QED
    BY <2>1, <2>2, <2>5, <2>6, <2>7, <2>8, <2>9, <2>10, <2>11, GuessesKept DEF MailPart, MailInv
<1> QED
  BY <1>1, <1>2

LEMMA ReleaseStep ==
    ASSUME CredentialsInv, NEW w \in Worker, ReleaseOnShutdown(w)
    PROVE  MailPart'
<1> DEFINE m == worker[w].mail
<1>1. /\ MailPart /\ m \in Mail /\ worker[w].stage = "sent" /\ Idle.stage = "idle"
      /\ worker' = [worker EXCEPT ![w] = Idle]
      /\ UNCHANGED <<alive, chal, guesses, resets, mail, attempts>>
  BY Parts, WorkingFields DEF CredentialsInv, ReleaseOnShutdown, chalVars, userVars, Idle
<1>2. faults' \in 0..MaxFaults
  BY <1>1 DEF ReleaseOnShutdown, MailPart
<1>3. \/ UNCHANGED <<lease, due>>
      \/ mail[m] = "pending" /\ lease[m] = w /\ lease' = [lease EXCEPT ![m] = Nobody] /\ due' = due \cup {m}
  BY DEF ReleaseOnShutdown, Reports
<1> HIDE DEF m
<1>4. MailTypes'
  BY <1>1, <1>3 DEF MailPart, MailTypes
<1>5. /\ WorkersTyped' /\ worker'[w] = Idle
      /\ \A v \in Worker : v # w => worker'[v] = worker[v]
  BY <1>1, WorkerMoves
<1>6. DialoguesHold'
  <2> SUFFICES ASSUME NEW v \in Worker, worker'[v].stage = "sending"
               PROVE  mail'[worker'[v].mail] = "pending" /\ lease'[worker'[v].mail] = v
    BY DEF DialoguesHold, LeasedTo
  <2>1. v # w /\ worker'[v] = worker[v]
    BY <1>1, <1>5
  <2>2. mail[worker[v].mail] = "pending" /\ lease[worker[v].mail] = v /\ worker[v].mail \in Mail
    BY <1>1, <2>1, WorkingFields DEF MailPart, MailInv, DialoguesHold, LeasedTo
  <2> QED
    BY <1>1, <1>3, <2>1, <2>2 DEF MailPart, MailTypes
<1>7. OneOpen' /\ CodesSpent' /\ MailsMatch'
  BY <1>1 DEF MailPart, MailInv, OneOpen, Unconsumed, CodesSpent, MailsMatch
<1>8. ErasedHasNone' /\ GuessesForgotten'
  BY <1>1 DEF MailPart, MailInv, ErasedHasNone, GuessesForgotten
<1> QED
  BY <1>2, <1>4, <1>5, <1>6, <1>7, <1>8 DEF MailPart, MailInv

LEMMA ElapseStep ==
    ASSUME CredentialsInv, NEW m \in Mail, Elapse(m)
    PROVE  MailPart'
<1>1. /\ MailPart /\ mail[m] = "pending" /\ due' = due \cup {m}
      /\ UNCHANGED <<alive, chal, guesses, resets, mail, lease, attempts, worker>>
  BY Parts DEF Elapse, chalVars, userVars
<1>2. faults' \in 0..MaxFaults
  BY <1>1 DEF Elapse, MailPart
<1>3. MailTypes'
  BY <1>1 DEF MailPart, MailTypes
<1>4. WorkersTyped' /\ DialoguesHold'
  BY <1>1, DialoguesKept DEF MailPart, WorkersTyped
<1>5. OneOpen' /\ CodesSpent' /\ MailsMatch'
  BY <1>1 DEF MailPart, MailInv, OneOpen, Unconsumed, CodesSpent, MailsMatch
<1>6. ErasedHasNone' /\ GuessesForgotten'
  BY <1>1 DEF MailPart, MailInv, ErasedHasNone, GuessesForgotten
<1> QED
  BY <1>2, <1>3, <1>4, <1>5, <1>6 DEF MailPart, MailInv

LEMMA PruneStep ==
    ASSUME CredentialsInv, NEW m \in Mail, PruneMailDeliveries(m)
    PROVE  MailPart'
<1>1. /\ MailPart /\ mail[m] \in {"delivered", "dead_letter", "canceled"}
      /\ mail' = [mail EXCEPT ![m] = "gone"]
      /\ UNCHANGED <<alive, chal, guesses, resets, lease, due, attempts, worker, faults>>
  BY Parts DEF PruneMailDeliveries, chalVars, userVars
<1>2. MailTypes'
  BY <1>1 DEF MailPart, MailTypes, MailState
<1>3. \A n \in Mail : /\ mail'[n] = "pending" <=> mail[n] = "pending"
                      /\ mail[n] = "none" => mail'[n] = "none"
  BY <1>1 DEF MailPart, MailTypes
<1>4. DialoguesHold'
  <2>1. \A n \in InDialogue : n \in Mail /\ n # m
    BY <1>1, DialogueIsLeased
  <2> QED
    BY <1>1, <2>1, DialoguesKept DEF MailPart, MailTypes
<1>5. WorkersTyped' /\ faults' \in 0..MaxFaults
  BY <1>1 DEF MailPart, WorkersTyped
<1>6. OneOpen' /\ CodesSpent' /\ GuessesForgotten'
  BY <1>1 DEF MailPart, MailInv, OneOpen, Unconsumed, CodesSpent, GuessesForgotten
<1>7. MailsMatch'
  BY <1>1, <1>3, MailFacts DEF MailPart, MailInv, MailsMatch
<1>8. ErasedHasNone'
  BY <1>1, <1>3 DEF MailPart, MailInv, ErasedHasNone
<1> QED
  BY <1>2, <1>4, <1>5, <1>6, <1>7, <1>8 DEF MailPart, MailInv

LEMMA EraseStep ==
    ASSUME CredentialsInv, DeleteAccount
    PROVE  MailPart'
<1>1. /\ MailPart /\ InDialogue = {} /\ alive' = FALSE
      /\ chal' = [c \in Challenge |-> IF chal[c] = "none" THEN "none" ELSE "gone"]
      /\ mail' = [m \in Mail |-> IF mail[m] = "none" THEN "none" ELSE "gone"]
      /\ lease' = [m \in Mail |-> Nobody]
      /\ due' = {}
      /\ Forget(Mail) /\ ForgetGuesses
      /\ UNCHANGED <<resets, worker, faults>>
  BY Parts DEF DeleteAccount, Barrier
<1>2. MailTypes'
  <2>1. /\ chal' \in [Challenge -> ChalState] /\ mail' \in [Mail -> MailState]
        /\ lease' \in [Mail -> Worker \cup {Nobody}]
    BY <1>1 DEF MailPart, MailTypes, ChalState, MailState
  <2>2. attempts' \in [Mail -> 0..MaxAttempts] /\ guesses' \in [Challenge -> 0..MaxGuesses]
    BY <1>1, ForgetType, GuessesKept
  <2> QED
    BY <1>1, <2>1, <2>2 DEF MailPart, MailTypes
<1>3. WorkersTyped' /\ faults' \in 0..MaxFaults
  BY <1>1 DEF MailPart, WorkersTyped
<1>4. DialoguesHold'
  BY <1>1, DialoguesKept
<1>5. OneOpen' /\ CodesSpent'
  BY <1>1 DEF MailPart, MailInv, OneOpen, Unconsumed, CodesSpent
<1>6. MailsMatch'
  BY <1>1, MailFacts DEF MailPart, MailInv, MailsMatch
<1>7. ErasedHasNone'
  BY <1>1 DEF ErasedHasNone
<1> QED
  BY <1>1, <1>2, <1>3, <1>4, <1>5, <1>6, <1>7, GuessesKept DEF MailPart, MailInv

LEMMA MailStep == CredentialsInv /\ [Next]_vars => MailPart'
<1> SUFFICES ASSUME CredentialsInv, [Next]_vars PROVE MailPart'
  OBVIOUS
<1>1. CASE \/ UNCHANGED vars \/ VerifyPassword \/ IssueAfterLogin \/ IssueOtherwise
           \/ \E h \in Holder : RotateSession(h)
           \/ RevokeSession
  BY <1>1, MailsUntouched DEF vars, VerifyPassword, IssueAfterLogin, IssueOtherwise, RotateSession,
                              RevokeSession, userVars
<1> QED
  BY <1>1, GuessStep, CreateStep, ConsumeStep, ClaimStep, CancelStep, DialogueStep, FinishStep, ReleaseStep,
     ElapseStep, PruneStep, EraseStep DEF Next


(***************************************************************************)
(* The inductive invariant and what follows from it.                       *)
(***************************************************************************)

LEMMA CredentialsInit == Init => CredentialsInv
<1> SUFFICES ASSUME Init PROVE CredentialsInv
  OBVIOUS
<1>1. SessionTypes
  <2>1. alive \in BOOLEAN /\ session \in BOOLEAN /\ refreshed \subseteq Holder /\ since = NoLogin
    BY DEF Init
  <2>2. /\ password \in 0..Cardinality(Challenge) /\ login \in 0..NoLogin /\ token \in 0..MaxRotations
        /\ has \in [Holder -> 0..NoToken]
    BY Sizes DEF Init
  <2> QED
    BY <2>1, <2>2 DEF SessionTypes
<1>2. MailTypes
  <2>1. chal \in [Challenge -> ChalState] /\ mail \in [Mail -> MailState]
    BY DEF Init, ChalState, MailState
  <2>2. lease \in [Mail -> Worker \cup {Nobody}] /\ \A m \in Mail : lease[m] = Nobody
    BY DEF Init
  <2>3. /\ guesses \in [Challenge -> 0..MaxGuesses] /\ resets \in [Challenge -> Nat]
        /\ attempts \in [Mail -> 0..MaxAttempts] /\ due = {}
    BY DEF Init
  <2> QED
    BY <2>1, <2>2, <2>3 DEF MailTypes
<1>3. WorkersTyped /\ \A w \in Worker : worker[w].stage = "idle"
  BY DEF Init, WorkersTyped, Idle
<1>4. faults \in 0..MaxFaults
  BY DEF Init
<1>5. DialoguesHold /\ OneOpen /\ CodesSpent /\ GuessesForgotten
  BY <1>3 DEF Init, DialoguesHold, OneOpen, Unconsumed, CodesSpent, GuessesForgotten
<1>6. MailsMatch /\ ErasedHasNone
  BY MailFacts DEF Init, MailsMatch, ErasedHasNone
<1>7. SessionInv
  BY DEF Init, SessionInv, NoSessionOfOldPassword, LoginFirst, HoldersKeep
<1> QED
  BY <1>1, <1>2, <1>3, <1>4, <1>5, <1>6, <1>7, TypesJoin DEF CredentialsInv, MailInv

LEMMA CredentialsStep == CredentialsInv /\ [Next]_vars => CredentialsInv'
<1> SUFFICES ASSUME CredentialsInv, [Next]_vars PROVE CredentialsInv'
  OBVIOUS
<1>1. SessionTypes' /\ SessionInv' /\ MailPart'
  BY SessionStep, MailStep
<1>2. MailTypes' /\ WorkersTyped' /\ (faults \in 0..MaxFaults)' /\ MailInv'
  BY <1>1 DEF MailPart
<1>3. (\A w \in Worker : worker[w] = Idle \/ worker[w].mail \in Mail)'
  BY <1>2 DEF WorkersTyped, Working
<1>4. TypeOK'
  BY <1>1, <1>2, <1>3 DEF TypeOK, SessionTypes, MailTypes
<1> QED
  BY <1>1, <1>2, <1>4 DEF CredentialsInv

(* The inductive invariant holds throughout. *)
THEOREM CredentialsInvariance == Spec => []CredentialsInv
<1>1. Init => CredentialsInv
  BY CredentialsInit
<1>2. CredentialsInv /\ [Next]_vars => CredentialsInv'
  BY CredentialsStep
<1> QED
  BY <1>1, <1>2, PTL DEF Spec

LEMMA AtMostOne ==
    ASSUME NEW S, \A x, y \in S : x = y
    PROVE  Cardinality(S) <= 1
<1>1. CASE S = {}
  BY <1>1, FS_EmptySet
<1>2. CASE S # {}
  <2>1. PICK x : S = {x}
    BY <1>2
  <2> QED
    BY <2>1, FS_Singleton
<1> QED
  BY <1>1, <1>2

(* A reset code replaces the password at most once and one challenge is     *)
(* open (ConsumePasswordResetChallenge), whatever is retried at once.       *)
THEOREM CodesWorkOnce == Spec => []ChallengesWellFormed
<1>1. CredentialsInv => ChallengesWellFormed
  <2> SUFFICES ASSUME CredentialsInv PROVE ChallengesWellFormed
    OBVIOUS
  <2>1. TypeOK /\ OneOpen /\ CodesSpent
    BY DEF CredentialsInv, MailInv
  <2>2. \A c \in Challenge : resets[c] <= 1
    BY <2>1 DEF CodesSpent
  <2>3. Cardinality(Unconsumed) <= 1
    BY <2>1, AtMostOne DEF OneOpen
  <2> QED
    BY <2>1, <2>2, <2>3 DEF ChallengesWellFormed, CodeUsedOnce
<1> QED
  BY <1>1, CredentialsInvariance, PTL

(* A spent, replaced or erased code neither waits nor is being sent,        *)
(* although a worker claimed its mail before (WithMailDeliveryLease).       *)
THEOREM SpentCodesStay == Spec => []NoStaleMail
<1>1. CredentialsInv => NoStaleMail
  <2> SUFFICES ASSUME CredentialsInv PROVE NoStaleMail
    OBVIOUS
  <2>1. MailsMatch /\ ErasedHasNone
    BY DEF CredentialsInv, MailInv
  <2>2. \A m \in InDialogue : m \in Mail /\ mail[m] = "pending"
    BY DialogueIsLeased
  <2>3. NoSpentCodeLeaves
    BY <2>1, <2>2 DEF NoSpentCodeLeaves, MailsMatch
  <2>4. NothingToErased
    BY <2>1, <2>2 DEF NothingToErased, ErasedHasNone
  <2> QED
    BY <2>3, <2>4 DEF NoStaleMail
<1> QED
  BY <1>1, CredentialsInvariance, PTL

(* Two workers are never in a dialogue about the same mail. *)
THEOREM OneDialogueAtATime == Spec => []OneDialogue
<1>1. CredentialsInv => OneDialogue
  BY DEF CredentialsInv, MailInv, DialoguesHold, LeasedTo, OneDialogue
<1> QED
  BY <1>1, CredentialsInvariance, PTL

(* No session outlives the password that opened it, not even one whose      *)
(* login was under way when the password was replaced (IssueSession).       *)
THEOREM OldPasswordsOpenNothing == Spec => []NoSessionOfOldPassword
<1>1. CredentialsInv => NoSessionOfOldPassword
  BY DEF CredentialsInv, SessionInv
<1> QED
  BY <1>1, CredentialsInvariance, PTL

(* Of all who hold a copy of a refresh token, one exchanges tokens          *)
(* (RotateSession).                                                         *)
THEOREM OnlyOneRefreshes == Spec => []OneRefresher
<1>1. CredentialsInv => OneRefresher
  BY AtMostOne DEF CredentialsInv, SessionInv, HoldersKeep, OneRefresher
<1> QED
  BY <1>1, CredentialsInvariance, PTL


(***************************************************************************)
(* Refinement of the in-memory store.                                      *)
(***************************************************************************)

LEMMA SameNames ==
    /\ Memory!Mail = Mail
    /\ Memory!Unconsumed = Unconsumed
    /\ Memory!Pending = {m \in Mail : mail[m] = "pending"}
BY DEF Memory!Mail, Mail, Purpose, Memory!Unconsumed, Unconsumed, Memory!Pending

LEMMA Invisible ==
    ASSUME UNCHANGED <<alive, password, chal, guesses, mail, lease, session, token, since>>
    PROVE  UNCHANGED Memory!vars
BY DEF Memory!vars, Memory!userVars, Memory!chalVars, Memory!mailVars, Memory!sessionVars

LEMMA MemoryCreate ==
    ASSUME CredentialsInv, NEW c \in Challenge, CreatePasswordResetChallenge(c)
    PROVE  Memory!CreatePasswordResetChallenge(c)
<1> DEFINE old == {m \in Mail : m[1] \in Unconsumed /\ mail[m] = "pending"}
           own == <<c, "reset">>
<1>1. /\ alive /\ chal[c] = "none"
      /\ chal' = [d \in Challenge |->
                    IF d = c THEN "active" ELSE IF d \in Unconsumed THEN "consumed" ELSE chal[d]]
      /\ mail' = [m \in Mail |-> IF m = own THEN "pending" ELSE IF m \in old THEN "canceled" ELSE mail[m]]
      /\ lease' = [m \in Mail |-> IF m \in old THEN Nobody ELSE lease[m]]
      /\ ForgetGuesses
      /\ UNCHANGED <<alive, password, session, token, since>>
  BY DEF CreatePasswordResetChallenge, userVars, sessionVars
<1>2. own \in Mail /\ lease[own] = Nobody
  <2>1. own \in Mail
    BY MailFacts
  <2>2. mail[own] = "none"
    BY <1>1 DEF CredentialsInv, MailInv, MailsMatch
  <2> QED
    BY <2>1, <2>2, Parts DEF MailPart, MailTypes
<1>3. {m \in Memory!Pending : m[1] \in Memory!Unconsumed} = old
  BY SameNames
<1>4. chal' = [Memory!ConsumeAll EXCEPT ![c] = "active"]
  BY <1>1, SameNames DEF Memory!ConsumeAll
<1> HIDE DEF old, own
<1>5. Memory!CancelAndQueue(old, {own})
  BY <1>1, <1>2, SameNames DEF Memory!CancelAndQueue
<1>6. Memory!ForgetGuesses
  BY <1>1 DEF ForgetGuesses, Memory!ForgetGuesses
<1> QED
  BY <1>1, <1>3, <1>4, <1>5, <1>6
     DEF Memory!CreatePasswordResetChallenge, Memory!userVars, Memory!sessionVars, own

LEMMA MemoryConsume ==
    ASSUME CredentialsInv, NEW c \in Challenge, ConsumePasswordResetChallenge(c)
    PROVE  Memory!ConsumePasswordResetChallenge(c)
<1> DEFINE spent == Spent(c)
           own == <<c, "changed">>
<1>1. /\ alive /\ chal[c] = "active" /\ guesses[c] < MaxGuesses
      /\ mail' = [m \in Mail |-> IF m \in spent THEN "canceled" ELSE IF m = own THEN "pending" ELSE mail[m]]
      /\ lease' = [m \in Mail |-> IF m \in spent THEN Nobody ELSE lease[m]]
      /\ password' = password + 1
      /\ chal' = [d \in Challenge |-> IF d \in Unconsumed THEN "consumed" ELSE chal[d]]
      /\ Revoke /\ ForgetGuesses
      /\ alive' = alive
  BY DEF ConsumePasswordResetChallenge, Usable
<1>2. own \in Mail /\ lease[own] = Nobody /\ own \notin spent
  <2>1. own \in Mail /\ own # <<c, "reset">>
    BY MailFacts
  <2>2. mail[own] = "none"
    BY <1>1 DEF CredentialsInv, MailInv, MailsMatch
  <2> QED
    BY <2>1, <2>2, Parts DEF MailPart, MailTypes, Spent
<1>3. Memory!Pending \cap {<<c, "reset">>} = spent
  BY SameNames, MailFacts DEF Spent
<1>4. chal' = Memory!ConsumeAll
  BY <1>1, SameNames DEF Memory!ConsumeAll
<1> HIDE DEF spent, own
<1>5. Memory!CancelAndQueue(spent, {own})
  BY <1>1, <1>2, SameNames DEF Memory!CancelAndQueue
<1>6. Memory!ForgetGuesses /\ Memory!Revoke
  BY <1>1 DEF ForgetGuesses, Memory!ForgetGuesses, Revoke, Memory!Revoke
<1> QED
  BY <1>1, <1>3, <1>4, <1>5, <1>6 DEF Memory!ConsumePasswordResetChallenge, own

LEMMA MemoryBatch ==
    ASSUME CredentialsInv, NEW w, NEW m,
           \/ w \in Worker /\ m \in Mail /\ ClaimMail(w, m)
           \/ w = Nobody /\ m = Nobody /\ CancelInactive
    PROVE  Memory!LockMailDeliveryBatch(w, m)
<1>1. Inactive = {n \in Memory!Pending : n[2] = "reset" /\ chal[n[1]] # "active"}
  BY SameNames DEF Inactive
<1>2. Nobody \notin Mail
  OBVIOUS
<1>3. UNCHANGED <<alive, password, chal, guesses, session, token, since>>
  BY DEF ClaimMail, CancelInactive, userVars, chalVars, sessionVars
<1>4. /\ mail' = [n \in Mail |-> IF n \in Inactive THEN "canceled" ELSE mail[n]]
      /\ lease' = [n \in Mail |-> IF n \in Inactive THEN Nobody ELSE IF n = m THEN w ELSE lease[n]]
  <2>1. CASE w = Nobody /\ m = Nobody /\ CancelInactive
    <3>1. /\ mail' = [n \in Mail |-> IF n \in Inactive THEN "canceled" ELSE mail[n]]
          /\ lease' = [n \in Mail |-> IF n \in Inactive THEN Nobody ELSE lease[n]]
      BY <2>1 DEF CancelInactive, Cancel
    <3> QED
      BY <1>2, <2>1, <3>1
  <2>2. CASE ClaimMail(w, m)
    BY <2>2 DEF ClaimMail
  <2> QED
    BY <2>1, <2>2
<1>5. /\ m = Nobody \/ mail[m] = "pending"
      /\ IF m = Nobody THEN Inactive # {} ELSE m \notin Inactive
  BY <1>2 DEF ClaimMail, Claimable, CancelInactive
<1> QED
  BY <1>1, <1>3, <1>4, <1>5, SameNames
     DEF Memory!LockMailDeliveryBatch, Memory!userVars, Memory!chalVars, Memory!sessionVars

LEMMA MemoryFinish ==
    ASSUME CredentialsInv, NEW w \in Worker, FinishMailDelivery(w) \/ ReleaseOnShutdown(w)
    PROVE  \/ UNCHANGED Memory!vars
           \/ \E m \in Mail, result \in {"pending", "delivered", "dead_letter"} :
                 Memory!FinishMailDelivery(m, result)
<1> USE DEF userVars, sessionVars
<1>1. CASE FinishMailDelivery(w) /\ Reports(w, worker[w].mail)
  <2>1. PICK m \in Mail, outcome \in {"pending", "delivered", "dead_letter"} :
              /\ m = worker[w].mail
              /\ mail[m] = "pending" /\ lease[m] = w /\ m \notin InDialogue
              /\ mail' = [mail EXCEPT ![m] = outcome]
              /\ lease' = [lease EXCEPT ![m] = Nobody]
              /\ due' = due \ {m}
              /\ attempts' \in [Mail -> 0..MaxAttempts]
              /\ chal' = IF outcome = "dead_letter" /\ m[2] = "reset"
                           THEN [chal EXCEPT ![m[1]] = "consumed"] ELSE chal
              /\ worker' = [worker EXCEPT ![w] = Idle]
              /\ ForgetGuesses
              /\ UNCHANGED <<alive, resets, faults>>
    BY <1>1, ReportFacts
  <2>2. m[2] = "reset" => m[1] \in Unconsumed
    <3> SUFFICES ASSUME m[2] = "reset" PROVE m[1] \in Unconsumed
      OBVIOUS
    <3>1. m[1] \in Challenge /\ m = <<m[1], "reset">>
      BY MailFacts
    <3>2. chal[m[1]] \notin {"none", "consumed", "gone"} /\ chal[m[1]] \in ChalState
      BY <2>1, <3>1, Parts DEF MailPart, MailInv, MailsMatch, MailTypes
    <3> QED
      BY <3>1, <3>2 DEF Unconsumed, ChalState
  <2>3. UNCHANGED <<alive, password, session, token, since>> /\ lease[m] # Nobody /\ m \in Memory!Pending
    BY <1>1, <2>1, SameNames DEF FinishMailDelivery
  <2>4. Memory!ForgetGuesses
    BY <2>1 DEF ForgetGuesses, Memory!ForgetGuesses
  <2>5. Memory!FinishMailDelivery(m, outcome)
    BY <2>1, <2>2, <2>3, <2>4, SameNames DEF Memory!FinishMailDelivery, Memory!userVars, Memory!sessionVars
  <2> QED
    BY <2>5
<1>2. CASE FinishMailDelivery(w) /\ ~Reports(w, worker[w].mail)
  <2>1. ForgetGuesses /\ UNCHANGED <<alive, password, chal, mail, lease, session, token, since>>
    BY <1>2 DEF FinishMailDelivery, mailVars
  <2>2. guesses' = guesses
    BY <2>1, GuessesSame
  <2> QED
    BY <2>1, <2>2, Invisible
<1>3. CASE ReleaseOnShutdown(w) /\ Reports(w, worker[w].mail)
  <2>1. PICK m \in Mail : m = worker[w].mail
    BY <1>3, WorkingFields DEF CredentialsInv, ReleaseOnShutdown
  <2>2. /\ mail[m] = "pending" /\ lease[m] = w /\ lease' = [lease EXCEPT ![m] = Nobody]
        /\ UNCHANGED <<alive, password, chal, guesses, mail, session, token, since>>
    BY <1>3, <2>1 DEF ReleaseOnShutdown, Reports, chalVars
  <2>3. mail' = [mail EXCEPT ![m] = "pending"] /\ lease[m] # Nobody /\ m \in Memory!Pending
    BY <2>2, Parts, SameNames DEF MailPart, MailTypes
  <2>4. Memory!ForgetGuesses
    <3>1. guesses \in [Challenge -> 0..MaxGuesses] /\ GuessesForgotten
      BY Parts DEF MailPart, MailTypes, MailInv
    <3> QED
      BY <2>2, <3>1 DEF Memory!ForgetGuesses, GuessesForgotten
  <2>5. Memory!FinishMailDelivery(m, "pending")
    BY <2>2, <2>3, <2>4 DEF Memory!FinishMailDelivery, Memory!userVars, Memory!sessionVars
  <2> QED
    BY <2>5
<1>4. CASE ReleaseOnShutdown(w) /\ ~Reports(w, worker[w].mail)
  BY <1>4, Invisible DEF ReleaseOnShutdown, chalVars
<1> QED
  BY <1>1, <1>2, <1>3, <1>4

LEMMA MemoryIssue ==
    ASSUME CredentialsInv, IssueAfterLogin \/ IssueOtherwise
    PROVE  UNCHANGED Memory!vars \/ \E expected \in {password, NoLogin} : Memory!IssueSession(expected)
<1> USE DEF userVars, chalVars, mailVars, Memory!userVars, Memory!chalVars, Memory!mailVars
<1>1. CASE IssueAfterLogin /\ alive /\ SamePassword
  <2>1. ~session
    BY <1>1 DEF IssueAfterLogin, CredentialsInv, SessionInv, LoginFirst
  <2>2. Memory!IssueSession(password)
    BY <1>1, <2>1 DEF IssueAfterLogin, SamePassword, Open, Memory!IssueSession
  <2> QED
    BY <2>2
<1>2. CASE IssueAfterLogin /\ ~(alive /\ SamePassword)
  BY <1>2, Invisible DEF IssueAfterLogin, sessionVars
<1>3. CASE IssueOtherwise
  <2>1. Memory!IssueSession(NoLogin)
    BY <1>3 DEF IssueOtherwise, Open, Memory!IssueSession
  <2> QED
    BY <2>1
<1> QED
  BY <1>1, <1>2, <1>3

LEMMA MemoryRotate ==
    ASSUME CredentialsInv, NEW h \in Holder, RotateSession(h)
    PROVE  UNCHANGED Memory!vars \/ \E presented \in 0..token : Memory!RotateSession(presented)
<1> USE DEF userVars, chalVars, mailVars, Memory!userVars, Memory!chalVars, Memory!mailVars
<1>1. has[h] \in Nat /\ token \in Nat
  BY TypesSplit, Sizes DEF CredentialsInv, SessionTypes
<1>2. session /\ alive /\ UNCHANGED <<alive, password, chal, guesses, mail, lease>>
  BY DEF RotateSession
<1>3. CASE has[h] = token
  <2>1. has[h] + 1 # token
    BY <1>1, <1>3
  <2>2. \E heard \in BOOLEAN : Exchange(h, heard)
    BY <1>3, <2>1 DEF RotateSession
  <2>3. Memory!RotateSession(token)
    BY <1>2, <2>2 DEF Exchange, Memory!RotateSession
  <2> QED
    BY <1>1, <2>3
<1>4. CASE has[h] # token /\ has[h] + 1 = token
  <2>1. Revoke
    BY <1>4 DEF RotateSession
  <2>2. Memory!RotateSession(has[h])
    BY <1>2, <1>4, <2>1 DEF Revoke, Memory!Revoke, Memory!RotateSession
  <2> QED
    BY <1>1, <1>4, <2>2
<1>5. CASE has[h] # token /\ has[h] + 1 # token
  <2>1. UNCHANGED sessionVars
    BY <1>5 DEF RotateSession
  <2> QED
    BY <1>2, <2>1, Invisible DEF sessionVars
<1> QED
  BY <1>3, <1>4, <1>5

LEMMA MemoryOthers ==
    ASSUME CredentialsInv
    PROVE  /\ \A c \in Challenge : Expire(c) => Memory!Expire(c)
           /\ \A c \in Challenge : WrongCode(c) => Memory!WrongCode(c)
           /\ RevokeSession => Memory!RevokeSession
           /\ \A m \in Mail : PruneMailDeliveries(m) => Memory!PruneMailDeliveries(m)
           /\ DeleteAccount => Memory!DeleteAccount
<1> USE DEF userVars, chalVars, mailVars, sessionVars,
            Memory!userVars, Memory!chalVars, Memory!mailVars, Memory!sessionVars
<1>1. ASSUME NEW c \in Challenge, Expire(c) PROVE Memory!Expire(c)
  BY <1>1 DEF Expire, Memory!Expire, ForgetGuesses, Memory!ForgetGuesses
<1>2. ASSUME NEW c \in Challenge, WrongCode(c) PROVE Memory!WrongCode(c)
  BY <1>2 DEF WrongCode, Memory!WrongCode, Usable
<1>3. ASSUME RevokeSession PROVE Memory!RevokeSession
  BY <1>3 DEF RevokeSession, Memory!RevokeSession, Revoke, Memory!Revoke
<1>4. ASSUME NEW m \in Mail, PruneMailDeliveries(m) PROVE Memory!PruneMailDeliveries(m)
  BY <1>4 DEF PruneMailDeliveries, Memory!PruneMailDeliveries
<1>5. ASSUME DeleteAccount PROVE Memory!DeleteAccount
  BY <1>5, SameNames DEF DeleteAccount, Memory!DeleteAccount, Revoke, Memory!Revoke,
                         ForgetGuesses, Memory!ForgetGuesses
<1> QED
  BY <1>1, <1>2, <1>3, <1>4, <1>5

(* Every step of the PostgreSQL store, its workers and its clients is a     *)
(* critical section of the in-memory store, or invisible to it.             *)
LEMMA MemoryStep == CredentialsInv /\ [Next]_vars => [Memory!Next]_Memory!vars
<1> SUFFICES ASSUME CredentialsInv, [Next]_vars PROVE [Memory!Next]_Memory!vars
  OBVIOUS
<1>1. ASSUME NEW c \in Challenge,
             \/ CreatePasswordResetChallenge(c) \/ Expire(c)
             \/ WrongCode(c) \/ ConsumePasswordResetChallenge(c)
      PROVE  Memory!Next
  BY <1>1, MemoryCreate, MemoryConsume, MemoryOthers DEF Memory!Next
<1>2. CASE IssueAfterLogin \/ IssueOtherwise \/ \E h \in Holder : RotateSession(h)
  BY <1>2, MemoryIssue, MemoryRotate DEF Memory!Next
<1>3. CASE RevokeSession \/ DeleteAccount
  BY <1>3, MemoryOthers DEF Memory!Next
<1>4. CASE CancelInactive
  <2>1. Memory!LockMailDeliveryBatch(Nobody, Nobody)
    BY <1>4, MemoryBatch
  <2> QED
    BY <2>1 DEF Memory!Next
<1>5. ASSUME NEW w \in Worker, NEW m \in Mail, ClaimMail(w, m) PROVE Memory!Next
  <2>1. Memory!LockMailDeliveryBatch(w, m)
    BY <1>5, MemoryBatch
  <2> QED
    BY <2>1, SameNames DEF Memory!Next
<1>6. ASSUME NEW w \in Worker, FinishMailDelivery(w) \/ ReleaseOnShutdown(w)
      PROVE  [Memory!Next]_Memory!vars
  BY <1>6, MemoryFinish, SameNames DEF Memory!Next
<1>7. ASSUME NEW m \in Mail, PruneMailDeliveries(m) PROVE Memory!Next
  BY <1>7, MemoryOthers, SameNames DEF Memory!Next
<1>8. ASSUME \/ UNCHANGED vars \/ VerifyPassword \/ \E m \in Mail : Elapse(m)
             \/ \E w \in Worker : \/ BeginDialogue(w) \/ Crash(w)
                                  \/ \E result \in Result : EndDialogue(w, result)
      PROVE  UNCHANGED Memory!vars
  BY <1>8, Invisible DEF vars, userVars, chalVars, mailVars, sessionVars, VerifyPassword, Elapse,
                         BeginDialogue, Crash, EndDialogue
<1> QED
  BY <1>1, <1>2, <1>3, <1>4, <1>5, <1>6, <1>7, <1>8 DEF Next

(* What the PostgreSQL store commits could have come from the in-memory     *)
(* store's mutex.                                                           *)
THEOREM CredentialsRefinement == Spec => ImplementsMemoryCredentials
<1>1. Init => Memory!Init
  BY SameNames DEF Init, Memory!Init
<1>2. CredentialsInv /\ [Next]_vars => [Memory!Next]_Memory!vars
  BY MemoryStep
<1> QED
  BY <1>1, <1>2, CredentialsInvariance, PTL DEF Spec, Memory!Spec, ImplementsMemoryCredentials
=============================================================================
