# Verification of the team messaging backend

TLA+ models, TLC configurations and TLAPS proofs for the NestJS chat backend of
this repository. Paths below are relative to the repository; `features/` stands
for `src/features/`. The models are written from the code: from the handlers, the
entities and the foreign keys the migrations create.

## 1. The system

One Node.js process serves HTTP and socket.io. It keeps its state in PostgreSQL
(through TypeORM) and in Redis (the token cache and the Bull queue); the process
itself keeps nothing but the requests in flight and the connected sockets.
A handler runs to its next `await` without interruption; between two awaits any
other handler may run. There are no transactions across statements: each
`save`, `delete` or `upsert` commits on its own, and `save` of a loaded entity is
two statements, a SELECT and then an UPDATE or an INSERT.

| Component | State | Operations | Talks to |
|---|---|---|---|
| Sessions and tokens (`features/authentication`: controller, `token.service`, strategies) | Redis key `user-token:<id>`, table `refresh_token_entity` | login, refresh, logout, change-password, delete-account, the two JWT guards | Accounts, Redis |
| Accounts (`features/users`) | table `user_entity` | create, authenticate, findOne, update, updatePassword, deleteUser | foreign keys of every other table |
| Registration and verification (`authentication.service`, `email.processor`) | table `verification_code_entity`, Bull queue | register, resend, process a mail job, verify | Accounts, queue, mailer |
| Password reset (`authentication.service`) | table `password_reset_token_entity` | forgotPassword, resetPassword | Accounts, mailer |
| Conversations (`features/chat/services/conversation.service`) | tables `conversation_entity`, `participant_entity` | create group, create one-to-one, list | Accounts |
| Sending of messages (`features/chat/services/message.service`) | tables `message_entity`, `participant_entity.read` | sendMessage, getMessages | gateway |
| Chat gateway (`features/chat/gateway`) | connected sockets, `client.user`, rooms | connect, validate, join, leave, disconnect, emit | token cache |
| Pagination (`utils/misc`, `common/pipes`) | none | parse the query, compute the metadata | lists of messages and conversations |

What is hard to test in it:

* **Interleaving at awaits.** Two logins, a login and a logout, a password change
  and a deletion, two sends of one member: each is a chain of database and Redis
  calls, and the tests of the repository run none of them together.
* **State read before an await and used after it.** The guard's `req.user` is the
  row of some moments ago; `changePassword` compares with it and saves it.
* **Partial failure and crashes.** Statements commit one by one; a foreign key may
  refuse the last one; a crash may come between any two.
* **Order of effects.** Redis writes that nobody awaits, emits after saves.

The properties that make each component correct:

* sessions: a token that was taken out is never accepted again; the answer of a
  login works; nothing outlives the account it belongs to; every request ends;
* messages: ids and events agree, an acknowledged message stays, memberships and
  read markers follow the account and its messages, clients hear causes before
  effects, what is stored is announced;
* conversations: an acknowledged one has all its members, every one has its admin
  as a member, a pair finds the conversation it has;
* password reset: no code works again after a use that was acknowledged (two
  overlapping resets with one code may both pass, and both succeed), a code works only
  for the account it was generated for, a later link retires the earlier ones, an
  account has one working link, and a verified account stays verified until a PATCH
  says otherwise;
* verification: a link works until it is used, what is acknowledged has happened (even
  if another handler takes the flag back later), no code is stored that nobody can
  reach, and every job that was added is mailed;
* pagination: a client that follows the pages misses nothing and gets nothing twice,
  unless the list changed in a way that is stated, and comes to an end of a list that
  stops growing.

`PROJECT.json` lists the hazards line by line, each with the properties that cover
it or the reason why none does.

## 2. Modules

| Module | Content |
|---|---|
| `SessionSlot` | abstract: one slot per user, filled only with a token signed now, or emptied |
| `Sessions` | tokens, refresh rows, accounts and the session handlers |
| `MCSessions` | symmetry for TLC |
| `SessionsProofs` | proofs about `Sessions` |
| `ChatLog` | abstract: messages are posted under growing ids, announced at most once and after they are posted |
| `Messaging` | sendMessage, read markers, sockets and rooms, account deletion with its cascades |
| `MCMessaging` | symmetry for TLC |
| `MessagingProofs` | proofs about `Messaging` |
| `ConversationBook` | abstract: conversations are opened under growing ids for a list of people, who enter, and leave all at once unless they own one |
| `Conversations` | creation of group and one-to-one conversations, account deletion |
| `MCConversations` | symmetry for TLC |
| `ConversationsProofs` | proofs about `Conversations` |
| `Paging` | the lists of messages and conversations, read page by page while they change |
| `MCPaging` | the instance for TLC |
| `PagingProofs` | proofs about `Paging` |
| `OneTimeCodes` | abstract: a code is issued, goes live when it is stored, and is dead once used, replaced or given up; requests pass with live codes only, and success is acknowledged only for dead ones |
| `OneTimeCodesProofs` | what follows from `OneTimeCodes`, for every component that implements it |
| `PasswordReset` | forgotPassword, resetPassword and the writes of user rows that race them; implements `OneTimeCodes` |
| `MCPasswordReset` | symmetry and bounds for TLC |
| `PasswordResetProofs` | proofs about `PasswordReset` |
| `Verification` | register, resend, the mail queue and its processor, verifyEmail; implements `OneTimeCodes` |
| `MCVerification` | bounds for TLC |
| `VerificationProofs` | proofs about `Verification` |

Operators whose comment begins with "Mutant" are plausible mistakes in the
operator that follows them. No specification uses them: they are there to put in
its place and see the property break.

### Sessions

A JWT is signed over `(id, iat)` with `iat` in seconds, so a token *is* the triple
of its kind, its user and the second of its signature. `cache[u]` is the `iat` of
the token under the key of `u`; `refreshRows[u]` is the digest and the expiration
of the row; `users[u]` is the password whose bcrypt hash the row of `u` holds.
`requests[r]` is the handler's program counter and local variables: `row` is the
`req.user` the guard loaded, `found` what the SELECT of `save` returned.

| Handler | Steps |
|---|---|
| login | `LoginStart` (LocalStrategy), `LoginSign` (both tokens signed, the access token cached, all before the first await), `LoginStore` (hash and upsert), `Reply` |
| refresh | `PresentRefresh`, `FindUser`, `RefreshGrant`, `Reply` |
| logout | `Present`, `FindUser`, `Logout` |
| change-password | `Present`, `FindUser`, `ChangeSelect`, `ChangeWrite`, `ChangeDrop` |
| delete-account | `Present`, `FindUser`, `DeleteUncache`, `DeleteConfirm`, `DeleteErase` or `DeleteRefused` |

Abstractions. Commands on the one Redis connection take effect in the order in
which they are issued, so a `set` or `del` that is not awaited has its effect in
the step that issues it. bcrypt compares are part of the step that reads the row
they compare with; that both JWT signatures of a login carry the same second
follows from their being one synchronous stretch of code, in which the clock may
at worst turn once. bcrypt reads 72 bytes, which for large user ids do not hold
all digits of `iat`: `Digest` forgets `iat \div HashSeconds`. Accounts are
verified ones; `LocalStrategy` refuses the others. A refused request that changes
nothing is no step. `DeleteRefused` is possible whenever a deletion is: the tables
that may refuse it are not part of this module.

`GoneForGood` speaks of the handlers of this module. The save of `resetPassword`, which
brings a deleted account back just as that of a password change does, is in
`PasswordReset`; and a deletion that is refused has logged a live account out, which
the property does not call wrong.

### Messaging

The model is parameterised by `Users`, `Convs`, `Sockets`, `Requests`; every user
takes part in every conversation, and the users in `Admins` are the admin of one,
so that the database refuses their deletion. A participant row is named by its
user and conversation, which the schema makes unique. `attached` is FALSE in a row
whose `conversationId` and `userId` are NULL, which is what `save` inserts when
the row it was loaded from is gone.

| Code | Steps |
|---|---|
| sendMessage | `SendFind`, `SendInsert`, `SendLoad` and `SendWrite` (the two statements of the save of the marker), `SendAnnounce`, `SendReply` |
| deleteUser | `DeleteUser`, with the cascade to participants and messages |
| updatePassword | `ReviveUser`: a password change that loaded the account before it was deleted saves it back, without its rows |
| gateway | `Connect`, `Validated`, `Disconnect`, `JoinConversation`, `LeaveConversation` |

`heard[s]` records what reached the client of socket `s`, over reconnects and
crashes; `deleted` holds the users whose account was deleted at some time, `Kept` are
those whose account never was; `author`, `announced`, `acked` and `before` are history. A pair `<<m, n>>`
is in `before` when the sender of `m` had its answer before the send of `n` began.

### Conversations

| Code | Steps |
|---|---|
| createGroupConversation | `StartGroup`, `FindGroup`, `Store`, `Join` for each member, `Answer` |
| createOneToOneConversation | `StartOneToOne`, `FindOther`, `CheckPair`, `Store`, `Join` for both, `Answer` |
| deleteUser, updatePassword | `DeleteUser` (refused for the admin of a conversation, whose row refers to it without cascade), `ReviveUser` |

The two handlers differ in what they check before the conversation is stored and
agree from there on, so `Store`, `Join` and `Answer` are shared. The saves that
`Promise.all` starts take effect in any order; one that the foreign key refuses
fails the answer and stops no other. `asked[c]` is the list conversation `c` was
stored for, `acked` the conversations whose creator got the answer, `lost` those
that were half made when the process died. A pair `<<c, d>>` is in `before` when
`c` was acknowledged before the request that stored `d` began. Payloads are sets:
`findByIds` returns fewer rows than a list with a repeated id has entries, so such
a list is refused, which changes nothing. The two queries of the pair check are one
step: types never change and no code deletes a conversation.

### Paging

| Code | Steps |
|---|---|
| GET of messages or conversations | `Begin` (without a page, the pipe makes it 1) or `Follow` (the `nextPage` of the last answer), `Count` and `Find`, `Answer` |
| sendMessage, creation of a conversation | `Insert` |
| deleteUser | `Remove` (messages) |

`list` is which of the two lists the client reads and never changes. For messages
both queries are started together and are answered in any order; for
conversations the page is fetched after the count. A page is defined by the rank of
its rows, the number of rows in front of a row, which is what ORDER BY, OFFSET and
LIMIT mean. The query for conversations gives no order; for a page of joined rows
TypeORM selects the ids ordered by the primary key (external to this repository).
A conversation leaves the list of a user only with the account, so only messages are
removed. A request that is refused ends a walk and is left out. Ids come from a
sequence, but rows get visible when they commit, so any unused id may be inserted.

Two things that the code allows are left out. A page size of zero passes the pipe, and
with it the page count is infinite or not a number and `nextPage` never null; a page of
zero gives a negative offset. And a list may grow for ever: `MaxId` bounds it here,
nothing does in the code, where a conversation that gains a page of messages for every
page read is walked without end. `WalkEnds` therefore has the premise `GrowthStops`, that
from some time on nothing is inserted. Under `MaxId` every behaviour satisfies it, so the
run shows that a walk through a list that stops growing ends, and nothing about one that
does not.

### Password reset

| Code | Steps |
|---|---|
| forgotPassword | `ForgotStart`, `ForgotFind`; `ForgotLoad` and `ForgotWrite` (the two statements of the save of the token row) beside `ForgotMail`; `ForgotAnswer` |
| resetPassword | `ResetStart`; `ResetFindUser` beside `ResetFindRow`; `UserLoad` and `UserWrite` (the save of the account) beside `ResetRemove`; `ResetAnswer` |
| changePassword | `ChangeStart`; `UserLoad` and `UserWrite`; `ChangeAnswer` |
| other writers of `user_entity` | `Update` (PATCH of a profile), `VerifyUser` (updateVerificationStatus), `DeleteUser` with the cascade to the token row |
| faults | `EffectFails` (one of the two effects fails, the other goes on), `Crash` |

A code stands for the random string, for the JWT that holds it together with the
address, and for the password that a reset with it sets, so `users[u].password` says
which reset wrote it; it is 0 for a password that no reset set, such as those of
`changePassword` and of a PATCH. Whether the 24 hours are over is left open: `ResetFindRow` may
refuse any request. `save` of a loaded account compares the entity with a fresh
SELECT and writes the columns that differ, so `seen` (what was loaded) can overwrite
`email` and `verified`; `save` of a row that is gone inserts it again, for a token
row without its account. `changePassword` ends in the same save of the same entity; what
it does to the session, and its check of the old password, is in `Sessions`. A PATCH
hands its body to the query builder as it came, since `whitelist` is commented out in
`main.ts`: `Update` writes any free address, any password that no reset set and any
value of the flag (a body with an `id` or with columns no property speaks of is left
out). An address may be taken by another account after the first
one gave it up, which is why the lookup of the row by code *and* address matters.

History: `owner[c]` is the account a code was generated for, `acked` the codes whose
forgotPassword succeeded, `superseded` those that an acknowledged later one
replaces, `passed` those that a reset found stored, `redeemed` those whose reset
succeeded; `shaken` are the codes of resets between whose two queries some address
changed: the row is then found for one account and the user is another.
`mails` holds every link that was mailed, with the address in its JWT; whose mailbox
it is in is left open, as the code mails all of them to one address
(`authentication.service.ts:139`).

### Verification

| Code | Steps |
|---|---|
| register, resendVerifyEmail | `Register`, `Resend`, then `Add` (the handler does not wait for the queue) |
| `AuthEmailProcessor` | `Take`, `Store`, `Send`, or `Fails` (the exception is swallowed) |
| Bull (external) | `Requeue` (a job whose process died), `LoseLock` (a job whose process was too busy), both by `Stalls`: once the job waits again, the second time it fails |
| verifyEmail | `Verify`; `VerifyRemove` beside `VerifyMark` and `VerifyConfirm`; `VerifyAnswer`; `PartFails` |
| PATCH of a profile | `Update` (writes any value of the flag) |
| the save in resetPassword, changePassword | `SaveUser` (writes the value it loaded, or brings a deleted account back with it) |
| deleteUser | `DeleteUser` (refused while the account has codes, whose rows refer to it without cascade) |
| the process | `Crash`: executions, requests and unfinished calls of `add` are lost, rows and jobs are not |

A code names the execution of a job that generated it, since every execution
generates one and the upsert never meets a row it conflicts with. `verifyEmail`
opens a transaction and uses the repositories outside it, so each call commits on
its own and a failure of one does not undo the other. Addresses are left out
(their uniqueness refuses a registration, which changes nothing), and so is the
expiry of a link. The mailer is one call, which succeeds or throws. The
processor of forgot-password jobs is left out because no code adds such a job.

`users[u]` tells an account that is not verified and never was (`unverified`) from one
that was (`lapsed`): the flag is FALSE in both, and either may ask for another link.
The latter arises because verification can be undone without any fault, by a
PATCH or by the save of an entity that was loaded before. `SaveUser` abstracts the load:
a value that the account has had is written at any time.

History: `work[c]` is the job of execution `c`, `spoiled` the executions a fault
ended, `cut` the codes whose mail or use a crash or a failing call cut short,
`passed` and `redeemed` as above, `marked` the codes whose request made their account
verified.

## 3. Runs

| Run | Instance | Shows |
|---|---|---|
| `sessions_safety` | 1 user, 2 passwords, 3 requests, 2 seconds, 1 crash | `TypeOK`, `RetiredStaysDead`, `RefreshRowHasOwner`, `UndisturbedLoginHolds`, `GoneForGood`, `SlotRefinement` |
| `sessions_liveness` | 1 user, 2 requests, 3 seconds, no crash, fair | `RequestsSettle`, `ChangeEndsSession` |
| `sessions_logs_out` | 2 requests | violated: `ChangeLogsOut` |
| `sessions_old_password` | 3 passwords, 2 requests | violated: `ChangeChecksCurrent` |
| `messaging_safety` | 2 users (one an admin), 1 conversation, 1 socket, 2 sends at a time, 3 messages, 1 crash | `TypeOK`, `MembershipFollowsAccount`, `ReadMarkerSound`, `MarkerNeverFallsBack`, `AckedDurable`, `CausalOrder`, `LogRefinement` |
| `messaging_liveness` | as above, 2 messages, no crash, fair | `StoredIsAnnounced` |
| `conversations_safety` | 2 users, 2 creations at a time, 2 conversations, 1 crash | `TypeOK`, `AckedIsComplete`, `AdminIsMember`, `PairIsFound`, `BookRefinement` |
| `conversations_liveness` | 3 users, 1 creation at a time, 1 conversation, no crash, fair | `EverybodyJoins` |
| `conversations_pair` | 2 users, 2 creations | violated: `OnePerPair` |
| `paging` | page size 2, ids 1 to 4, either list, any rows at the start, fair | `TypeOK`, `NothingSkipped`, `NothingTwice`, `WalkEnds` |
| `password_reset` | 2 accounts, 3 addresses, 2 requests at a time, 2 codes, 1 fault, 2 writes of accounts by others, in the combinations given below | `TypeOK`, `UsedOnce`, `LaterRetiresEarlier`, `CodeIsPersonal`, `OneLinkPerUser`, `VerifiedStays`, `CodesRefinement` |
| `verification` | 2 accounts, 2 requests and 2 workers at a time, 2 jobs, 4 executions, 2 faults, fair | `TypeOK`, `NothingHalfDone`, `LinksWork`, `StoredIsReachable`, `MailsPerJob`, `CodesRefinement`, `AskedIsMailed` |

Bounds. One user is enough for sessions: no step reads the state of another user,
and the theorems hold for any set of users. Three requests are needed: the races
about a deleted account take a login, a change and a deletion. `RefreshTTL` is
smaller than `AccessTTL` as in `.env` (7200 and 36000), and one second may pass, so
that tokens of the same and of different seconds meet and refresh tokens expire;
the liveness run goes one second further. For messages two overlapping sends and
one more after the first answer are what `MarkerNeverFallsBack` and `CausalOrder`
need; the second user is an admin, whose account stays. For conversations a pair
and two creations, one after the other or overlapping, are what `PairIsFound` is
about, and a group of an admin and one other already has a save that is refused
next to one that is not; the liveness run has a group of three instead, whose joins
do not depend on other creations. For the lists two pages of two rows, with rows
that come in front of, between and behind those read, already shift rows across
the boundary of a page; the theorems hold for every page size. For password reset
two codes of one account make every order of an earlier and a later link, two
requests every overlap of two handlers, and two accounts with three addresses the
exchange of an address. The constraint `Bounded` of `MCPasswordReset` keeps
the product of these small. With one account, two overlapping requests meet one
fault, or one write by others if one of the two is a reset; requests one after the
other meet two. A change of the password, which does not touch token rows, overlaps a
reset or another change, without a fault, once the first code is there: its save and
theirs, with a verification, a PATCH or a deletion in between, are what `VerifiedStays`
is about. With two accounts there is one request at a time, no fault and no change,
which is enough for an address to change hands between the two queries of a reset. For verification,
two jobs are a registration and a resend, or two registrations; four executions are
two for each job, the most that `Stalls` allows. `Bounded` of `MCVerification`
allows both faults while there is one job, no more than two faults and verifications
under way together with two jobs of one account, and no fault with two accounts. The
theorems hold without any of these bounds. For
`AskedIsMailed` the bounds cut off no fair step: states
outside `Bounded` are entered only by faults and requests, so whatever the
queue has to do in a state that is explored is explored too. `MaxMessages`, `MaxConvs`, `MaxId`,
`MaxTime` and `MaxCrashes` bound the sequences of ids, the clock and the crashes, and nothing
else; `MaxCodes`, `MaxJobs`, `MaxEdits` and `MaxFaults` bound the codes, the
jobs, the writes by other handlers and the faults. Symmetry is used in safety runs only.

Deadlock is not checked: the clock and the ids are bounded (a creation waits at
`Store` when the bound is reached), an account that is deleted sends nothing, and a system in which no request is in flight may really
stop. That a request in flight does not hang is `RequestsSettle`.

Fairness is weak fairness of `Continue(r)`, the next step of one request: the code
has no locks and waits for nothing but answers of the database, Redis, bcrypt and
the event loop, each of which is assumed to come, with success or with an error.
In `Paging` it is weak fairness of the two queries, the answer and `Follow`:
`WalkEnds` is about a client that goes on while there is a next page, through a list
that stops growing. In
`Verification` it is weak fairness of the queue: `Add` (Redis answers), `Take` (Bull
hands a waiting job to a free worker), `Requeue` (Bull's check for stalled jobs is
periodic), `Store` and `Send` (an execution goes on until it returns). Nothing else
is assumed of clients, of the clock or of crashes. `ChangeEndsSession`,
`StoredIsAnnounced` and `EverybodyJoins` promise nothing across a crash, and the
code does not: there is no recovery of a half-done request. Their runs have no crash.

Three runs end in a violation, each of what a comment or a message of the code says:

* "log the user out." (`authentication.service.ts:98`): `logout` deletes the cached
  access token; the refresh row stays, so a refresh token handed out before the
  change still opens a session after it.
* "1. old password must correct" (`authentication.service.ts:77`): the comparison is
  with the row the guard read. Two overlapping changes are both let through, and
  the later write replaces a password that is not the old password of its request.
* "Conversation already existed." (`conversation.service.ts:95`): two overlapping
  creations for one pair both find none, and the pair has two conversations. What
  does hold is `PairIsFound`, about requests that begin after the first answer.

## 4. Proofs

All theorems are proved by TLAPS for every value of the constants that satisfies
`SessionsAssumption`, `MessagingAssumption`, `NoneIsNoRow`,
`ConversationsAssumption`, `NoneIsNoConversation`, `PagingAssumption`,
`ResetAssumption`, `NoneIsNoAccount` and `VerificationAssumption` (the bounds
are naturals, the times to live, the page size and the number of workers are
positive, there is an account to register, each job has its two executions, `None`
is none of the data). A page size of zero passes the pipe and is not covered.

`SessionsProofs`: `TypeCorrect` and `ImplementsSlot` are the base. What makes
`RetiredStaysDead` inductive is that a retired token is older than the clock (it
left the cache after its own second) and that the cache is only ever filled with
the current second. `TokensNeverComeBack` says the same without a history
variable: a token of an earlier second that is not the accepted one of its user,
for whatever reason, never is again. `RefreshRowHasOwner` is inductive because the upsert is
checked by the foreign key in the step that writes. `UndisturbedLoginHolds` needs
the flag `alone` to hold through both program counters after the signature: while
it is set, the cached token is the one of this login, and after the upsert the
refresh row is too. `GoneForGood` is an action property: a request that could
write the row back has passed `FindUser`, which finds no row in a state in which
the account is gone.

`MessagingProofs`: the inductive invariant is `TypeInv` (the type and the
well-formed request records), `Ledger` (`author` and `messages` agree: ids from
`nextId` on are unused, a stored message is its author's, and each request in
flight carries the id of a message of its sender) and `Fresh` (no two requests in
flight carry the same id, an id is announced only at its reply, `acked` is a
subset of `announced`, the messages a request has seen were acknowledged).
`MembershipFollowsAccount` comes with it: the members are exactly the users whose
account was never deleted. The rows of an account that is saved back do not come
back with it, and a save of a marker that does not find its row inserts one that
belongs to no conversation.
`ReadMarkerSound` and `AckedDurable` follow from `Ledger` and the membership.
`CausalOrder` rests on `HeardAnnounced`: what a client heard was announced, and
the first of a pair in `before` was announced before the second had an id.
`MarkerNeverFallsBack` is strengthened to all messages whose marker write has
happened. `ImplementsLog` maps `posted` to the ids that have an author; a step
that fills an id is a `Post`, `SendAnnounce` is an `Announce`, every other step is
a stutter. Two theorems about the listeners follow: `NobodyHearsTwice` (an
`Announce` takes an id that was not announced, and what was heard was announced)
and `NobodyHearsPhantoms` (what was heard is stored, or its author's account was
deleted).

`ConversationsProofs`: `Shelf` says that rows and history agree (unused ids, what
was acknowledged is stored, a request joins only people its conversation is for);
`ImplementsBook` needs no more. `Membership` carries the progress of the joins:
whoever is not in `todo` any more is a member or was deleted, which at the answer
is `AckedIsComplete`; and the admin of a stored conversation has a row, is in
`todo` or is a member, unless the conversation is in `lost`. That the admin cannot
be deleted any more is what makes the last part inductive. `PairsAreFound` adds
`Checked`: a request that passed the check knows, for every conversation of its
pair that was acknowledged before it began, that one of the two was deleted;
`AckedIsComplete` gives this in the step of the check, and deletions only add to it.
From the refinement alone come `OnlyTheAskedTakePart` (nobody is in a conversation
who was not on its list) and `AdminsStay` (an admin who got in stays in, and stays
the admin): `Open` never touches a conversation that is open, and `Leave` spares
owners.

`PagingProofs`: `Reached` is the rank up to which the walk has looked. While nothing
is removed, every row of the start that was not got yet is still in the list at
`Reached` or behind it, because an insertion moves rows only back (`Ahead`); and at
the last page the count says that there is nothing behind it (`Counted`), unless a
row came between the count and the page. `NothingComesTwice` is the mirror image:
what was got stays in front of `Reached` as long as nothing comes in front of a row
(`Behind`). `PagesHoldAll` is the arithmetic of `Math.ceil`. The ranks are
cardinalities; the lemmas about them rest on the library's `FiniteSetTheorems`.
`PagesPartitionTheList` is about the two operators themselves: `Page` and
`TotalPages` cut a list that stands still into pages that hold every row exactly
once and no more rows than asked for (the rank is one-to-one, and every rank is on
one page). `WalksAreBounded` says that `nextPage` never leads behind the pages of the
longest list that `MaxId` allows.

`PasswordResetProofs`: `Shape` fixes, for each request, which fields go with which
program counter; with the type it is `Base`, which every other invariant builds on.
Only `ForgotWrite`, `ResetRemove` and `DeleteUser` touch token rows, and `RowsNext`
says what they do to them: `OneLinkWorks` follows, because a row with an account is
created only when there is none. `VerifiedAccountsStay` follows in the same way from
what a step does to an account (`WritesNext`) and to what a request has seen
(`SeenNext`); a PATCH that takes the flag back is the one exception (`Revokes`).
`Ledger` is the bookkeeping of codes: the codes of two forgotPassword
requests are `Apart`, one that is still to be saved is `Fresh` (in no row, found by no
reset), every stored code is in one row, a reset has `Reached` the one row its code
is in, the code is in no row once the removal succeeded (`Cleared`), and a redeemed
code is in none: a save that brings back a row writes the code of its own
forgotPassword, never the one that was used. `CodesAreUsedOnce` is its last part.
`Retired` does the same for later links: the codes that were acknowledged before a
forgotPassword began are in no row that a reset can find, or in the row that its save
is about to overwrite (`Replaces`), and in none once it succeeded.
`CodesArePersonal` carries, from the row to the request to the account, who a code
was generated for, with `shaken` as the only exception. `ImplementsOneTimeCodes`
maps each step to one of `OneTimeCodes` or a stutter; most steps are quiet
(`QuietNext`) and move no code.

`VerificationProofs`: `NothingIsHalfDone` rests on a code in use being known by its
request until `mark` is done, on a request that has done it without failing having put
its code in `marked`, and on no handler making an account that was once verified look
as if it never was. `MailedLinksWork` and `StoredCodesAreReachable` use
that only a request that passed removes a row, and that an execution stores before
it sends (`Shelf`). `AtMostTwoMails` counts: a job that waits has had as many
executions as stalls, and afterwards one more (`Rationed`), so at most two, each of
which mails one link.
`ImplementsOneTimeCodes` maps `Take` to `Issue`, `Store` to `Publish`, `VerifyRemove`
and the end of an execution to `Retire`, `Verify` to `Pass`, and a successful
answer to `Redeem`.

`OneTimeCodesProofs` proves once what the two components promise by implementing
`OneTimeCodes`: a code only moves forward (`CodesMoveForward`), and once a request
was told that it succeeded, the code it passed with is dead for good
(`AcknowledgedUseIsTheLast`). `VerificationProofs` and `PasswordResetProofs` take the
theorem over through the refinement: `AcknowledgedLinksAreSpent` (the row of the
code never comes back) and `AcknowledgedResetsAreTheLast` (no row that a reset can
find ever holds the code again).

Liveness. `ENABLED` is out of the prover's reach, so the theorems take fairness in
the form that it unfolds to, with the condition for the step written out: weak
fairness of `A`, which can be taken when `CanA` holds, is
`[]<>~CanA \/ []<><<A>>_vars`, strong fairness `<>[]~CanA \/ []<><<A>>_vars`. A
`[]` before such a formula changes nothing, since it speaks of the infinite future;
it lets the prover use it at any later time. What is proved under it:

| Theorem | Property | Fairness assumed |
|---|---|---|
| `ServedRequestsSettle` | `RequestsSettle` | weak, of `Continue(r)` for every request, as in the run |
| `ServedChangesEndSessions` | `ChangeEndsSession` | the same |
| `ServedMessagesAreAnnounced` | `StoredIsAnnounced`, with `MaxCrashes = 0` as in the run | weak, of `Continue(r)` |
| `ServedMembersJoinOrLost` | whoever a conversation is for joins, or is deleted, or a crash caught the creation half made; any number of crashes | weak, of each save `Join(r, u)` |
| `ServedMembersJoin` | `EverybodyJoins`, with `MaxCrashes = 0` as in the run | the same |
| `ServedWalksAdvance` | a walk at page p ends or gets to page p + 1; whether there is always one more page is left open | weak, of the queries, the answer and `Follow`, as in the run |
| `ServedJobsAreMailed` | `AskedIsMailed`, for any number of workers, jobs and faults | weak, of `Requeue`, `Store` and `Send`; strong, of `Take` |

In two places this is more than the runs assume. For the conversations the run has
weak fairness of the request as a whole, which takes an induction over the saves left
to go through; that every save of `Promise.all` is answered is what the code relies
on just as well. For the jobs, weak fairness of `Take` would do only because the other
jobs run out; that a waiting job is taken although others are taken before it is
strong fairness, which Bull's queue, first in, first out, gives. `ServedJobsAreMailed`
needs besides that executions end and free their workers (`RoomAgain`), that
`MaxCodes` never keeps a waiting job from its execution (`NeverShort`), and that a job
has two turns at the most. `ServedMessagesAreAnnounced`
rests on `CarryInv`: the sender of a stored message has a participant row, and a
marker write that did not find one is of a message that is gone, so the write that
fails never takes a stored message with it (`Carried`).

Only model-checked: that the fairness conditions of the runs, stated with `ENABLED`,
give those of the theorems; `WalkEnds` as a whole, for which `ServedWalksAdvance` and
`WalksAreBounded` leave the induction over the pages, and the prover has no induction
over temporal formulas; and, of course, the violated properties.

## 5. Not modelled, and the plan

Not modelled, for good: the mailer (I/O), wiring and configuration, Bull's own
bookkeeping beyond what the processor sees, `online_user_entity` and the websocket
guard (no code uses them), cookies (the client's state), message contents.

Left out of `PasswordReset`: to whom a mail goes. Some hazards in `PROJECT.json` have
no property, with the reason given there: two overlapping logins and the 72 bytes of
bcrypt (the code promises nothing about the tokens of disturbed logins), a crash inside
a password change, a leave of an unauthenticated connection, the plain-text password of
a profile update, and the pipe on a page or a page size of zero.

What is left, in this order:

1. The pipe of the pagination on unusual input (zero, fractions), as an operator.
2. Compositions: the deletion of an account against every table that refers to it;
   the sockets against the token cache.
