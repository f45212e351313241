# Clixor backend: TLA+ models

Models, model-checking runs and machine-checked proofs for the Go service under
`src/` (HTTP API, PostgreSQL store, NATS bus, relay). Paths below are relative
to `src/`.

## 1. Inventory

| Part | State it keeps | Operations | What is hard | What makes it correct |
|---|---|---|---|---|
| Realtime outbox relay (`internal/outbox/relay.go`, `internal/store/postgres/postgres.go`) | `outbox_events`: published, attempts, locked_until, available_at; the relay's batch in memory | claim a batch, queue pushes, deliver in a transaction, acknowledge, release, prune | leases shorter than a batch, crashes between any two calls, acknowledgements and releases that check no claim, deletion and erasure under a running delivery | nothing lost, one publisher per row, no erased recipient, every row settled |
| Push queue (same files, `internal/push`) | `push_deliveries`: status, attempts, lease token, due time; `devices.push_token` | enqueue, claim, send under lease, finish, invalidate, prune; register, hand over and clear tokens | late outcomes, tokens that change during a send, blocks set after queueing, cascades | right device, one sender, final outcomes, every delivery settled |
| Realtime sockets and session fence (`internal/events/nats.go`, `internal/httpapi/session_events.go`, `realtime.go`) | per replica: guards, revocation records, fail-closed epoch, owners and their validity; in the bus: owner leases, fence markers | register, verify lease, scan markers, check durably, write under guard, recheck; fence locally, mark, list, command, acknowledge, commit, release | admission on one replica racing revocation on another, leases that lapse, a full cache, replicas that die, a revocation that fences nothing | a session cut off by logout, reset or deletion is silent on every replica; every revoked one is closed in the end |
| Membership and ownership (`postgres.go`, `conversation_invites.go`) | `conversations.created_by`, `conversation_members`, tombstones | create, add, join by link or phone, remove, transfer, delete | lock order over users and conversations, erasure deciding from what it read before it waited | one owner, who is `created_by`; departures and tombstones agree |
| Account erasure (`account.go`, `deletion_intents.go`) | everything above | `DELETE /v1/me` (serializable) and the deletion intent (read committed) | snapshots older than the locks | nothing of the account is left, shared history stays |
| Media lifecycle (`postgres.go`, `internal/httpapi/media_handlers.go`, `internal/media`, `internal/mediakey`) | `media_objects`, `profile_media_objects`: status, expiry, verification lease, object key; `users.avatar_url`; upload capabilities and objects in the store; `media.delete` events | reserve, issue a URL, claim, finalize, mark ready, release, reject, delete, expire, erase; the relay's deletions | PUTs that arrive after revocation, expiry or deletion, renames whose answer is lost, completions that are retried or die | what is ready is what was declared; nothing unserved stays in the store |
| Messages and receipts (`postgres.go`, `internal/httpapi/conversation_handlers.go`) | `conversations.last_seq`, `messages`, receipts | send, acknowledge, page by `after_seq` and `before_seq` | retries whose first answer was lost, checks made before the transaction, row locks in several orders, some taken by foreign keys | no gaps, one answer per client id, pages that miss nothing, monotonic watermarks |
| Shared entities and chore rotation (`postgres.go`, `internal/httpapi/entity_handlers.go`, `chore_rotation.go`, `internal/chores`) | `entities` with versions, `chore_rotation_operations` | put, delete, rotate, replay, prune | puts that share the conversation's lock, replays after later changes and after retention, erasure that rewrites payloads | no lost update, one rotation per operation id, no name of an erased account |
| Sessions, tokens, password reset (`postgres.go`, `password_reset.go`, `internal/auth/tokens.go`) | `sessions`, `password_reset_challenges`, `users.password_hash` | log in, issue, rotate, revoke, start and confirm a reset | a login under way during a reset, two holders of one refresh token, lost answers | no session of an old password, one refresher, a code works once |
| Encrypted mail queue (`internal/mail`, `mail_delivery.go`) | `mail_deliveries`: status, attempts, lease token, due time | claim, send under the row's lock, report, release, prune | codes that are spent or replaced while their mail is queued or being sent, late reports, erasure during a dialogue | a spent code never leaves, one dialogue per mail, final outcomes |
| In-memory store (`internal/store/memory`) | the same tables under one mutex | the same operations | - | what the PostgreSQL store does, it could have done |
| Prekeys, phone verification, configuration, presence, rate limits, compliance intake, migrations, deployment | - | - | - | not modelled; reasons in section 7 and in `PROJECT.json` |

The relay process runs three loops over one database. `flush` turns outbox rows
into push deliveries and bus events, `flushPush` sends the deliveries,
`pruneRetention` removes both. Writers only insert outbox rows in their own
transactions. Erasure takes an advisory lock, the delivery barrier, that every
running bus publication and provider call holds in shared mode, and revokes the
account's sessions through the fence before it commits. A mail worker's SMTP
dialogue holds the same barrier, and its row, in shared mode.

The in-memory store implements the interface that PostgreSQL implements, each
operation under one mutex. That makes it a specification: `MemoryLog`,
`MemoryEntities` and `MemoryCredentials` are translated from it, and the modules of
the PostgreSQL store, where an operation is a transaction with locks, waits and
failures, are shown to implement them, by TLC and by proof.

## 2. Modules

| Module | Models | Uses |
|---|---|---|
| `Schema` | keys, live accounts, open conversations, the fault budget | |
| `AtLeastOnce` | what the outbox promises its writers | |
| `Outbox` | rows and relays | `Schema`; implements `AtLeastOnce` |
| `PushDelivery` | deliveries, senders, tokens, blocks | `Schema` |
| `Pipeline` | the two over one database: foreign key, cascade, retention order, one barrier | `Outbox`, `PushDelivery` |
| `SessionFence` | sockets, replicas, revocations | |
| `Membership` | member operations and the two erasures | |
| `MediaLifecycle` | uploads of one account, the object store, `media.delete` events | |
| `MemoryLog`, `MemoryEntities`, `MemoryCredentials` | the in-memory store, one critical section per operation | |
| `ConversationLog` | messages, receipts and pages of one conversation | implements `MemoryLog` |
| `SharedEntities` | a chore, its rotations and feed items | implements `MemoryEntities` |
| `Credentials` | password, session, reset challenges and mails of one account | implements `MemoryCredentials` |
| `OutboxProofs`, `PipelineProofs`, `SessionFenceProofs`, `MembershipProofs`, `MediaProofs`, `ConversationLogProofs`, `SharedEntitiesProofs`, `CredentialsProofs` | the theorems about those modules; `PipelineProofs` also those about `PushDelivery` | the module, TLAPS |
| `MC*` | small instances | |

Definitions keep the names of the functions they model; `PROJECT.json` gives the
lines of each. Definitions introduced as a "faulty variant" are the same operation
with one plausible mistake; they are used to see that each property notices it.

### Outbox

A row is `status`, `attempts`, `lock` (locked_until: none, held, expired) and
`due` (available_at). A relay is its program counter through one iteration of
`flush`, the attempt number it holds for each row of its batch (`claim`), the row
in hand and the recipients it last read. Each database call is one action.
`DeliverBegins` opens the transaction of `DeliverRealtimeOutbox`: from then to
`DeliverCommits` or `DeliverFails` the relay holds the barrier in shared mode and
the row `FOR SHARE`, so claims skip the row, and updates, deletions and erasure
wait. `MarkOutboxPublished` and `ReleaseOutboxEvent` check no claim, as in the code.

`NothingLost` is about the relay's order (queue, publish, acknowledge).
`ExclusivePublisher` needs the attempt number: a released row can be claimed anew
while the first claimant still has it in its batch.

### PushDelivery

`lease_token` is a fresh UUID that only the claiming sender knows, so a lease is
named by its sender. `attempts` saturates at `MaxAttempts`, the only value it is
compared with. `BeginSend` to `ProviderReplies` is the lease transaction, which
holds the delivery and the device row `FOR SHARE`; the outcome is recorded after
it, in a statement that compares status and lease. The claim query only returns
rows of platforms that have a provider, so a disabled provider is not a step.
A delivery pruned after its retention of 24 hours is not queued again: a relay
that holds recipients for a day is not modelled.

### Pipeline

Every action of the two modules, with the joint ones redefined: queueing needs the
source row, deleting sources cascades and waits for running sends, retention takes
a delivery only under a published source and a source only without deliveries.
`Notified` is what `notificationFor` decides for the event.

### SessionFence

One user. An owner lease is "fresh" during the three seconds of admission after a
refresh, "draining" until its fifteen seconds are over, then "absent". A guarded
action is bounded to ten seconds; 3 + 10 < 15 is the arithmetic behind the guard of
`LeaseExpires`. `Revoke` is the cache's function, including the fail-closed epoch
when its records are full; a guard whose socket is writing is revoked when the
mutex is free, and whoever asked for it waits (`Fenced`). Which replica serves a
revocation and what it covers, one session or all, is chosen at the start (`home`,
`covers`). The publication of a last typing notice while the handler is torn down
is not modelled.

Two steps get past the fence. `ReuseRevokes` is the reuse detection of
`RotateSession`: it sets `revoked_at` in the database and calls no fence.
`RefreshLease` after an absent lease is the recovery from a bus outage when the
failed refreshes have fenced every owner; when they have not, the process stalled
past its lease, was not asked to fence, and `refreshOwners` makes its owners valid
again without a scan of the markers. The history variable `stalled` remembers such a
replica. `RevokedSessionIsSilent` is about the revocations that are fenced
(`CutOff`: logout, password reset, deletion) and replicas that are not `stalled`;
for everything else there is `RevokedSocketsClose`, the recheck after at most five
seconds.

### Membership

The member operations are one action each: all of them lock the users they name
and then the conversation, and so does the model's guard. Erasure is four steps,
because it waits between them: it asks for the barrier, gets the barrier and the
user's row, runs the query that lists the conversations with successor and owner,
and settles the conversations and commits. Every account picks the kind of its
erasure (`how`). `DELETE /v1/me` is `Serializable`: the query's answer is as of the
first step and a conversation written since makes the commit fail. A deletion
intent's answer is as of the third step, and the wait for the conversation's lock
refreshes the conversation row but not the joined ones. `joined_at` is left out, so
a successor is any other member, and invitations are inputs.

`OneOwner` is stated for states in which no deletion intent was executed, and
`ErasedIsRemoved` for accounts erased by one: each kind of erasure breaks the
other's promise (section 4).

### MediaLifecycle

The uploads of one account, in its profile or in one conversation. A row is "none",
"pending", "ready", "deleted" or, once a deletion has taken it from the table,
"gone". `upload_valid_until` and `expires_at` are the same instant and one bit of
time (`late`). A completion request walks through `FinalizeUpload` call by call;
its lease is named by the request, and lapses only after it, because the lease
lasts fifteen seconds longer than the request's deadline. A PUT is two steps, since
the store may accept it before and commit it after a revocation, an expiry or a
delete. With OCI its content is the client's choice; an S3 URL is signed for the
declared checksum. `Due` is `mediaDeleteNotBefore`: three minutes after the URL's
expiry and after queueing, when a completion (two minutes at most) has ended and an
accepted PUT, as the architecture document assumes, has committed. Conditional
renaming compares the content that was inspected, which is what the ETag is for.
Byte counts, the limit on concurrent verifications and members who leave with an
upload pending are left out. Erasure is one step: an upload reserved while it waits
for its locks stays pending, and expires.

### ConversationLog

A request is what it is to do (`op`), how far it is (`stage`) and the locks it has
(`held`). It takes them one step each (`NextLock`): the delivery barrier, for erasures
and blocks; the users it names, in the order of their ids; the conversation's row; and
what its foreign keys lock. Only then the effect of the transaction is one step, except
for a message, whose sequence number is drawn in one step and committed in another.

Foreign keys matter where the row they point to is not locked already: a block
key-shares the one who blocks and then the blocked, whatever their ids, and the
erasure of an owner key-shares the heir that becomes `created_by`. Messages, receipts,
members and tombstones refer to users their transaction has locked by name. Both kinds
are exclusive at the barrier, so that key shares do not conflict with each other need
not be modelled. The heir is read before the wait for the conversation (`LockErased`),
and may have left when it inherits. The erasure is the one of an executed intent, read
committed; what the older snapshot of `DELETE /v1/me` misses is in `Membership`. An
erasure that leaves nobody in the conversation deletes it, and is not followed here.

`Abort` ends a request anywhere: a refused check, a conflict, a lost connection. An
answer is recorded whether or not the client hears it, and any request may be made
again. `putReceipt` reads `last_seq` before the transaction, so `BeginReceipt` does.
A page is two statements, the membership check and the query. The client keeps the
interval it has paged through; a block in either direction hides the sender's
messages at the time of the query. Message bodies, push and events other than `message.created` are left out.

### SharedEntities

One chore and the feed items whose ids are operation ids. A put holds the
conversation's row in shared mode, so two puts can both pass `CheckPut`; the second
waits for the entity's row and `ON CONFLICT DO UPDATE ... WHERE` looks at the row
again (`StillVersion`). All others have the conversation to themselves. Of a chore's
payload the model keeps whom it names. `basis` and `rotated` are history: the
version a writer had seen, and how often an operation moved the chore.
Retention removes a stored result at any time, which is earlier than the code's
ninety days. The in-memory store deletes an entity that is already deleted, and
PostgreSQL does not: the refinement allows what the former does.

### Credentials

One account, one session at a time, whose refresh token is held by a device and by
a copy of the device. A login is two steps, as in `IssueWithDevice`: the hash that
was verified is compared again behind the account's row. What locks the account's
row is one step, which waits for the rows it must have. Two lock orders differ in the
code: a refresh locks session then user, a reset user then sessions; a report of a
dead letter locks mail then challenge, a confirmation challenge then mail. PostgreSQL
ends one of the two, and the victim changes nothing.

A mail worker claims, opens the dialogue (`BeginDialogue`, which holds the row and
the barrier in shared mode), ends it with a result, and reports. `LeasedTo` and
`Reports` are the comparisons with the lease token; a lease is named by its worker,
who has one mail in hand, where the code claims a batch under one token. A lease
that ends while its worker is at it counts as a fault. `attempts` and `guesses` are
kept while they matter. Retention is a day at least, so a mail is pruned when its
code has expired and no worker has it. `MemoryCredentials` has no dialogues: the
in-memory store waits for all of them where PostgreSQL waits for the mails it
touches, and both come to the same tables.

## 3. Runs

| Run | Instance | Shows |
|---|---|---|
| `outbox` | 2 relays, 2 rows, batches of 2, 2 faults | all outbox properties, and refinement of `AtLeastOnce` with its liveness |
| `push` | 2 senders, 2 devices of 2 accounts, one of them the recipient, 2 tokens, 3 faults | all queue properties; every delivery settles |
| `pipeline` | 1 event, 2 relays, 1 sender, 2 devices, 2 faults | no orphaned delivery; erasure is final |
| `fence` | 2 replicas, a socket on one, a revocation served by either, of its session or of all; a cache of 1 that still holds the record of a session revoked earlier (`Earlier`), so the revocation overflows it and the replica fails closed | the session is silent once cut off; writes come first; the recheck closes what stalls and reuse detection leave open |
| `member` | 3 accounts, 1 group, limit 2, erasures of both kinds | one owner, tombstones, shared history; no trace of who was erased by intent |
| `log` | the owner and another member, who reads; 3 messages, 2 requests at a time, 2 receipts of which neither includes the other (`Reported`), blocks by the owner, whose id comes last (`Blocks`), pages of 1 | all log properties, and refinement of `MemoryLog` |
| `log_cycle` | the same, 2 messages, no receipts | violation: see findings |
| `entities` | the owner and another member, 2 requests, 1 operation id, 3 versions of the chore, 2 of the feed item | all entity properties, and refinement of `MemoryEntities` |
| `credentials` | 2 challenges, 2 deliveries at a time, 2 holders of refresh tokens, 1 wrong code, 2 attempts, 2 rotations, 1 fault | all credential and mail properties, and refinement of `MemoryCredentials` |
| `media` | an avatar of long ago and a new upload, 2 requests to complete it, 2 PUTs, 2 faults, both providers | ready objects are verified, one avatar, no orphaned object, one verifier |
| `media_erased` | 1 upload, S3 | violation: see findings |
| `member_missed` | 3 accounts, 1 group, serializable erasure | violation: see findings |

The type invariant of a module is checked with what else makes its rows well formed,
as a conjunction of named parts (`LogWellFormed`, `EntitiesWellFormed`, ...; that of
`PushDelivery` in the `pipeline` run). What follows from a refinement is not stated
again: that receipts never go back, that whoever writes is a member when the write
commits, that a late report changes no outcome of a mail.

Bounds. Two relays and two senders are enough for one to be overtaken by another;
a third would repeat the roles. Two rows give a batch whose second row outlives
the lease. The fault budget counts crashes, failed calls and leases lost while
working: one lets a claimant be overtaken, two let the successor fail as well.
Three accounts are an owner, a successor and one who comes or goes; the member
limit of 2 is reached. The two PUTs of the media run are one that is verified and one
that arrives late; its two faults let a completion die and its successor fail.
Three messages and pages of one give a page with something on either side of it,
from two senders, one of whom may be blocked. Two requests are one that is overtaken
and one that overtakes; both lock cycles of section 4 are circles of two. Three
versions of a chore let a rotation be followed by a change before it is replayed.
Two challenges are one replaced by the other, and two rotations leave a copy with a
token that is older than the previous one. Symmetry is used in the runs that check
no liveness, over accounts, requests, messages of one sender, workers, holders and
challenges. `CHECK_DEADLOCK FALSE` everywhere: all rows settled, all sockets
closed or all accounts erased are proper ends.

Fairness. Relays and senders: `Run` ticks until shutdown, so a step that stays
possible is taken; timestamps pass, so due times and abandoned leases end. A
claim of a delivery is strongly fair: the batch is ordered by due time, so a row
that keeps coming due is eventually among the first. Failures are never fair. In
the fence: writes end (deadline), mutexes are handed on, and the five-second
recheck is taken eventually although writes keep interrupting it. In membership a
transaction that has its locks goes on.

## 4. Findings

- `member_missed`: the serializable erasure takes its snapshot with the statement
  that waits for the barrier, so a membership that commits during the wait is
  overlooked and the erased account stays a member or the owner.
- `media_erased`: erasure queues the deletion of objects whose rows are not pending
  with no delay. With S3 the upload URL is still valid or a PUT under way, and the
  object comes back after its last event; no row knows it. `DeleteMedia` and
  `DeleteConversation` wait for `upload_valid_until`. `NoOrphanObject`, which the
  `media` run checks, is `Swept` without this case.
- `log_cycle`: the comment above `lockLiveUser` states a global lock order and forbids a
  user lock after a conversation's. A foreign key's lock is one. A new block locks the
  one who blocks and then the blocked, and a removal that names both locks them by id:
  each may have what the other needs. The erasure of an owner has the conversation and
  needs the heir's row, which the heir's own send has while it waits for the
  conversation; TLC finds this one when blocks are left out. PostgreSQL ends one of the
  two after a second, and only `DeleteAccount` retries. `NamedLocksInOrder`, which the
  `log` run checks, is what is left of the order: no circle among requests that wait for
  locks they take by name.

Met while modelling, without a run of their own:

- Reuse detection in `RotateSession` revokes a session with no fence, where logout holds
  that success is unsafe while another replica can still send. The sockets of that
  session go on sending until the five-second recheck (`RevokedSocketsClose`).
- The erasure of a deletion intent reads successor and owner before it waits for the
  conversation's lock. A successor who leaves meanwhile becomes `created_by` without
  being a member, and a conversation that somebody joins meanwhile is deleted with
  the last member it had. `OneOwner` and `SharedHistoryStays` except executed intents and
  so say nothing about it; they are about `DELETE /v1/me`.
- The snapshot behind `member_missed` is as blind to a reset challenge, a session or
  a push delivery that commits while `DELETE /v1/me` waits for the barrier.
- `deliverPush` takes `ErrNotFound` for a row that was removed; it is also the answer
  for a pair of users with a block, whose row stays pending and is claimed again
  every two minutes while the block stands. `DeliverySettles` is stated without blocked
  pairs, and no property covers this.
- A refresh whose answer is lost ends the session when the device retries.
- `ListEntities` pages by `updated_at`, the start of the writer's transaction; a
  transaction that commits late can be behind a client's cursor.

## 5. Proofs

Every safety property of a passing run, invariant or action property, is a theorem
for any values of the constants, and so are the refinements of the in-memory store
and the safety part of `AtLeastOnce`. Each proof module extends the module it is
about, states an inductive invariant, shows it of `Init` and of every action, and
derives the properties from it. The invariants were checked by TLC on the instances
of section 3 before they were proved.

| Module | Proves | Inductive invariant: what it adds, and why |
|---|---|---|
| `OutboxProofs` | the type invariant and four safety invariants of `outbox`; `OutboxSafety => Contract!SafetySpec` | `OutboxInv`: an attempt number held by a relay is at most the row's, and two relays never hold the same one; a relay past queueing has its row in `queued`, one past the bus in `onBus`; inside the delivery transaction the row is unpublished, its attempt is the relay's and the recipients are live. `StillClaimed` establishes the last part, the share lock and the barrier keep it |
| `PipelineProofs` | `OneSender`, `SendsToCurrentOwner`, `TokenHasOneOwner`, `OutcomeIsFinal`, `FreshTokenSurvives` of the queue alone; `PipelineWellFormed`, `ErasureIsFinal` of both queues together | `PushInv`: a sender in a provider call still has its lease, its address is the device's token, the account is live. `PipelineInv`: that, `OutboxInv`, and the foreign key |
| `SessionFenceProofs` | `TypeOK`, `WritesPrecedeRevocation`, `RevokedSessionIsSilent` | `FenceInv`: how far each revocation has got. A replica that has still to acknowledge is on the revocation's list, one that has acknowledged is cut off, and who registers meanwhile meets the marker, which stands while the revocation can still commit; all of it for replicas that are not `stalled` |
| `MembershipProofs` | `MembersWellFormed`, `OneOwner`, `ErasedIsRemoved`, `SharedHistoryStays` | `MembersInv`: what an erasure has read is worth. For `DeleteAccount`, as long as no listed conversation was written since, it is what the query would return now; for an intent, the conversations the account has a part in are listed and no named successor is erased, because erasures exclude each other at the barrier |
| `MediaProofs` | `ReadyIsVerified`, `MediaWellFormed`, `NoOrphanObject`, `OneVerifier` | `MediaInv`: a working request has the lease while the row is pending; a pending or served row has no event that removes what it serves; where an object may still appear under a key nobody serves, an event waits until nothing can appear |
| `SharedEntitiesProofs` | `EntitiesWellFormed`, `RotationOnce`, `ErasedNotNamed`, refinement of `MemoryEntities` | `EntitiesInv`: which row locks exclude which, so what a put checked still holds when it writes; and a rotation's three traces (stored operation, feed item, answers) agree, the feed item outliving the other two |
| `CredentialsProofs` | `ChallengesWellFormed`, `NoStaleMail`, `OneDialogue`, `NoSessionOfOldPassword`, `OneRefresher`, refinement of `MemoryCredentials` | `CredentialsInv`: a dialogue has its mail's lease; at most one challenge is open, so spending it spends every code in the queue; whoever has not refreshed keeps the session's first token |
| `ConversationLogProofs` | `LogWellFormed`, `WindowIsComplete`, `NamedLocksInOrder`, refinement of `MemoryLog` | `LogInv`: the barrier is locked first, users by rank, then the conversation, foreign keys' users last (`Ordered`), and nothing twice; who has drawn a number has all its locks, and the number is `lastSeq + 1`; distinct messages have distinct numbers; the mark of a receipt under way is within the log; the pages read are an interval of the log |

Three arguments are worth knowing. *Deadlock*: a request that has the conversation's
row and still waits, waits for a foreign key; among those that wait for a lock by name
nobody has the conversation, and nobody a foreign key's user. So in a circle of them
each waits for the barrier or a user, the next one holds it and waits for something
that comes later in the order, and finitely many requests have a last (`HighestRank`,
by well-founded induction on the naturals). *Pages*: the latest, or oldest, entries of
a finite set are closed under everything beyond, or before, any of them
(`LatestIsSolid`, `OldestIsSolid`), so a page next to what the client has extends it
without a hole (`PageExtends`).
*Log*: the refinement maps the log to the sequence whose i-th element is the message
with number i; drawing the next number appends to it (`LogForAppends`).

Assumptions are the named ones of the modules, which TLC evaluates in the runs:
besides typing of the constants they say that messages, requests and reset
challenges are finite in number (a process serves finitely many requests at a time,
and tables are finite), that ranks tell users apart (ids are primary keys), that
version bounds are positive, and that the value for "nobody" is none of the things
it stands next to.

Only model-checked: liveness, which is beyond the prover (the fair part of
`AtLeastOnce`, `DeliverySettles`, `RevokedSocketsClose`). The three violations are
counterexamples and have no theorem.

## 6. Plan

1. Theorems about what the runs do not state on their own: that receipts are
   monotonic and that outcomes of mails are final, as action properties of
   `ConversationLog` and `Credentials` (both follow from the refinements).
2. What the violations leave of the promise: that the serializable erasure overlooks
   only what committed while it waited for the barrier, and that the exception of
   `NoOrphanObject` is needed for ready uploads only.
3. Liveness of mails and media (every mail is settled, every reservation ends), and
   the serializable erasure over deliveries and challenges.

## 7. Not modelled

One-time prekeys are claimed in a single statement, and presence, rate limits and
phone codes are single Redis scripts: there is no protocol between their steps that
the modelled parts take part in. The wire formats of APNs, FCM, SMTP, OCI and S3,
hashing, encryption and the walk over JSON documents that anonymises them are data,
not control. Configuration, TLS, metrics, migrations and the deployment scripts keep
no state while the service runs; the constraints that migrations install are used as
guards. Of the compliance tables only blocks interact with what is modelled.
