# Minimum messenger: formal models

TLA+ models of the messenger in this repository, TLC configurations that check
them on small instances, and TLAPS proofs of what matters most. Every
definition is translated from the code under `src/`; `PROJECT.json` maps each
one to the lines it stands for, and lists the runs, the mutants that show each
property can fail, the hazards and the theorems.

Paths below are relative to `src/`; backend modules live in
`backend/app/modules/`.

## 1. The system and its parts

A FastAPI backend (any number of processes) over PostgreSQL, Redis and an S3
store, a React web client and a React Native client. Clients call a REST API
and hold one WebSocket each. The server sees ciphertext only.

| Component | State | Operations | Talks to |
|---|---|---|---|
| auth, users (`auth/`, `users/`) | `users`, `sessions` (hash of a refresh token, expiry, revocation) | register, login, refresh, logout, update_me | devices, audit |
| devices (`devices/`) | `devices` (fingerprint unique per user, `is_active`) | register, revoke, list | audit |
| prekeys (`keys/`) | `one_time_prekeys` (`is_used`) | upload, pop with a bundle | devices |
| chats (`chats/`) | `chats`, `chat_members` (`left_at`), `chat_key_versions` | create_direct, create_group, add_member, remove_member, leave, update | outbox, devices |
| messages (`messages/`) | `messages`, `message_recipients`, `group_message_keys` | send, history, delivered, read, delete | chats, devices, attachments, outbox |
| outbox (`workers/`) | `outbox_events` (status, attempts, next_retry_at) | publish; the polling worker of each process | Redis pub/sub |
| websocket (`websocket/`) | registry of sockets, presence keys in Redis | connect, disconnect, client events, Redis subscriber | Redis, outbox (by channel) |
| attachments, contacts, admin, audit | one table each | upload and download, add and delete, ban, log | S3; all |
| clients: connection (`shared/api/`, `shared/store/auth.ts`) | tokens, the shared refresh promise, the WebSocket and its reconnect timer | login, logout, refresh, connect, disconnect, reconnect | REST, WebSocket |
| clients: chats (`ChatsPage.tsx`, `ChatScreen.tsx`, `navigation/index.tsx`, `shared/store/chat.ts`) | the query cache, unread counters, delivery statuses, typing signs, banner | events, fetches, receipts, open and close a chat | WebSocket, REST |
| clients: composer (the same pages) | draft, attachment, shared key, typing state | type, attach, encrypt, send | REST, WebSocket |
| clients: forms and key store (`shared/crypto/e2ee.ts`, login and register pages) | identity keys on the device | register, log in | REST |
| clients: new chats (`ChatsPage.tsx`, `ChatListScreen.tsx`) | the chat list, search panel, group dialogue | create, list | chats |

"Clients" are the web client (`frontend/src/`) and the mobile client
(`mobile/src/`): ports of each other, with differences that matter.

How they interact. A REST request is one database transaction (`db/session.py`:
commit after the handler, rollback on any exception, `autoflush=False`,
READ COMMITTED). Services that have something to tell others add an
`outbox_events` row to that transaction. A worker in every process polls these
rows and publishes them on the Redis channels `ws:user:<id>`; the subscriber of
every process relays a channel's events to the sockets of that user it holds.

Where it is hard, and what makes each part correct:

- *Outbox*: several workers, back-off, publishes that fail half way or whose
  reply is lost, crashes between publish and commit, lost row locks. Correct if
  nothing is reported processed that did not reach Redis for all targets,
  duplicates have a cause, rows are not fought over and everything is settled.
- *Messages*: two statements of a request see different states, retries overlap
  the first attempt, receipts overwrite each other. Correct if one key makes one
  message, a message is never without its recipients and its event, and it
  goes to those entitled to it.
- *Sessions, devices*: check-then-act on user name, fingerprint and token; a
  rollback takes everything of the request with it. Correct if tokens rotate
  atomically and revoked devices stay out.
- *Groups*: check-then-act on member rows and version numbers. Correct if
  versions are unique, in order, and belong to one rotation each.
- *Connections*: handlers, relay and cleanup interleave at every await. Correct
  if a live socket is registered and gets what is published for it, in order.
- *Client connection*: closes, refreshes, effects and logouts overlap at every
  promise. Correct if a page that wants a connection gets one, one socket at a
  time, with a fresh token of the user who is logged in.
- *Client chats*: events come twice, late or not at all, and race the fetches
  they cause. Correct if what is shown stays, counters agree with the screen,
  signs go away and new messages appear and are marked read.
- *Composer*: encryption, uploads and answers end when the chat, the draft or
  the attachment is another. Correct if a message carries what belongs to it,
  once.
- *Key store*: attempts overlap, fail half way and leave keys behind. Correct if
  the key in use is the one the server shows for the device.
- *New chats*: check-then-act in `create_direct`, lost answers, a list that is
  fetched while chats are created. Correct if two people get one chat and
  everyone who has a list finds it there.

## 2. Modules

| Module | Models | Written for |
|---|---|---|
| `Delivery` | abstract promise of the outbox: post, reach, settle | refinement target |
| `Outbox` | `workers/outbox.py` | TLC and proofs |
| `OutboxProofs` | theorems about `Outbox` | TLAPS |
| `Messages` | `messages/service.py`, one chat | TLC and proofs |
| `MessagesProofs` | theorems about `Messages` | TLAPS |
| `Sessions` | `auth/`, `devices/`, ban, audit rows | TLC and proofs |
| `SessionsProofs` | theorems about `Sessions` | TLAPS |
| `Groups` | group chats and key versions of `chats/service.py` | TLC and proofs |
| `GroupsProofs` | theorems about `Groups` | TLAPS |
| `Connections` | `websocket/manager.py`, `websocket/router.py`, one process | TLC and proofs |
| `ConnectionsProofs` | theorems about `Connections` | TLAPS |
| `Clients`, `Pages` | what the client modules share: the platform; the chats | with them |
| `WsClient` | a client's WebSocket, tokens and refresh (`shared/api/`, `shared/store/auth.ts`, the effects of `ChatsPage.tsx` and `navigation/index.tsx`) | TLC and proofs |
| `ChatClient` | what a client shows of its chats (`ChatsPage.tsx`, `ChatScreen.tsx`, `navigation/index.tsx`, `InAppBanner.tsx`, `shared/store/chat.ts`) | TLC and proofs |
| `Composer` | composing and sending (`ChatWindow` of `ChatsPage.tsx`, `ChatScreen.tsx`) | TLC and proofs |
| `Onboarding` | login and registration over the key store (`shared/crypto/e2ee.ts` and the forms) | TLC and proofs |
| `ClientProofs` | theorems about `WsClient` and `Onboarding` | TLAPS |
| `PagesProofs` | theorems about `ChatClient` and `Composer` | TLAPS |
| `NewChats` | search panel, group dialogue and chat list of several clients, composed with `create_direct`, `create_group` and `leave` of `chats/service.py` | TLC and proofs |
| `NewChatsProofs` | theorems about `NewChats` | TLAPS |
| `MC...`, one for each of the modelling modules above | constants and symmetry of the instances | TLC |

Operators whose comment says `DEFECT (mutant)` are plausible wrong versions of
the definition that follows them. They are never part of a specification;
`PROJECT.json` pairs each with the property that detects it.

**How transactions are modelled** (`Messages`, `Sessions`, `Groups`). A request
occupies a slot and moves through program points (`pc`), one for each statement
another transaction can be interleaved with. A read sees the committed state of
its moment. What a request writes is kept in its slot until the commit, which
applies it at once; `RollsBack` (a crash, a lost connection, a failed commit)
drops it at any point. The answer comes with the commit, except in `Messages` and
`NewChats`, where it may also leave first and the commit be lost. An INSERT waits for an uncommitted row with the same
unique key and fails the request if that row is committed (`KeyHeld`,
`RowPending`, `VersionPending`); an UPDATE by primary key waits for another one
of the row and then overwrites it (`TokenLocked`). Since `autoflush` is off,
changes without an explicit `flush` (receipts) are written by the commit.

**Outbox.** `status`, `attempts` and `resting` are the committed row
(`resting`: `next_retry_at` is in the future). `batch`, `current`, `sent` and
`outcome` are the worker's local variables: selected rows, the event being
dispatched, the targets published so far, the attribute changes not yet
committed. `linked` says that the transaction with its row locks is alive.
`copies`, `failures`, `aborted` are history variables. One action per step of
`_process_batch` and `_dispatch`; `DispatchRaises` covers an exception before
and after Redis took the event.

**Messages.** `joined`/`members` and `device` are what the chat and device
services commit meanwhile. `SendChecks`, `SendInserts`, `SendListsMembers`,
`SendFansOut` (once for each member), `SendPublishes` and `SendCommits` are the
statements of `send`: `list_members`, one `list_active` per member and
`list_members` again read different moments. The 201 leaves after the commit or
before it (`SendAnswers`), since the FastAPI versions from 0.118 on end a
dependency after the response and those before it, back to 0.106, end it first;
the range in `pyproject.toml` (`fastapi>=0.115.0`) allows both. `early` are the
answers whose commit has not come, which it may never do.

**Sessions.** A session row is its device, its predecessor, what opened it and
whether it is live, expired or revoked; `access` are devices that hold an
unexpired access token. Passwords and hashes appear only as the branch they
decide.

**Groups.** One chat. `versions` are `chat_key_versions` rows in commit order,
`keys` the `group_message_keys` rows of rotations; a group key is the number of
the request that made it up.

**Connections.** One process, one event loop: a step is what runs between two
awaits. `pc` is the position of each endpoint handler, `registry` is
`manager._connections` (a missing entry and an empty set are the same),
`feed` the pmessages waiting for the subscriber, `relay` the `send_to_user` in
progress over its copy of the set. `Typing` changes nothing: the router builds
the list of members it would send to and never fills it.

**The client modules.** Both clients run JavaScript: a step is a task, or what
runs between two awaits of one. `platform` selects the client in each
behaviour, so one run checks both; where they differ the actions have a name
for each (`WebLogout`, `MobileLogout`). React's batching is modelled where it
shows: an effect is an action of its own that becomes due when what it depends
on changed. `react-query` and `zustand` are external and modelled from the
options the code passes: a query has an answer, a fetch under way and a flag
that says that it is stale; an invalidation of what is shown drops a fetch under way
for a new one, unless it is the first.

**WsClient.** `client` is the `WebSocketClient` singleton: `ws`,
`shouldReconnect`, `isConnecting`, the timer, the sockets and their states and
the calls of `open()` that wait for a token; `closers` are `handleClose()` calls
that wait for a refresh; `inflight` is the shared `refreshPromise` and `answer`
what its continuations are about to be told, with only React's effects between
the answer and them. `store` is the persisted auth store. `mounted` says that the effect on
`accessToken` is in force and its cleanup due (web: `ChatsPage` is rendered;
phone: its last run found a token, since without one it returns early), `dirty`
that it is to run again. `/auth/logout` may be answered when the user of the web
client is back in `ChatsPage`: then the effect disconnects. A login is a number that
stands for its tokens and its user. `crossed` and `overlapped` are histories of
the contended cases the properties exclude.

The four modules about a client extend `Clients` (and two of them `Pages`), so
that one module can hold the proofs of two of them: what both would call `Next`
or `Spec` is `ComposerNext` or `OnboardingSpec` in one.

**ChatClient.** Events are on their way until the socket hands them over, in any
order and up to `MaxCopies` more than once; losing the connection loses them.
`query` is the cache entry of each chat's messages, `live` the list that the
phone keeps beside it, `marked` is `markedReadRef`, `posts` the receipts sent.
A fetch answers the newest `PageSize` messages of the chat that are not deleted,
as `list_by_chat` does; no client asks for older ones, and no event tells of a
deletion. `active` is the chat that is rendered, `ref` the chat whose effects
have run (`activeChatIdRef`, the observed query): a click runs both at once
(`WebPressesChat`), since React flushes the effects of a click before the task
ends; a notification or the answer to the creation of a chat leaves the effects
to a later task (`WebOpensChat`, `WebRunsEffects`), and events come in between.
`Feeds` is the bound on the kinds of events one behaviour has; the kinds share no
state but the pages, which all have.

**Composer.** `chat`, `text`, `att`, `key`, `isTyping` and `timer` are the state
and refs of the component, which on the web lives on when the chat is switched; `derives`,
`uploads`, `encrypting` and `sending` are what it awaits, each with the values
its closure captured. A draft is the number of its last edit; a key is the chat
it is shared in. `Uses` is the bound on what one behaviour combines. `doubled`
are the contents that the properties excuse from being sent once: submitted
while `isPending` did not tell of the first message (`Overlooked`: it tells of
the last request only), or stored without an answer.

**Onboarding.** `attempt` are the forms under way with their program points,
`kept` is the key store (records in the order of their fingerprints on the web,
one slot on the phone), `accounts` and `devices` what the server has. On the phone
a slot that cannot be read is taken for an empty one, and one that cannot be
written is left as it was. A form is
left for the other while its promises go on: attempts overlap.

**NewChats.** `panel`, `open` and `list` are each client's, `request` a creation
on its way from the post over the two statements of `create_direct` to the
answer, `chats` what was inserted, `settled` once its transaction is over: others
see it then, which may be after the answer (`Commits`) or never (`RollsBack`).
A pair is `contended` if a creation for it looked for a chat while another one
had not committed. `Posts` and `Field` say which names each client
gives the fields of the body and which the schema requires. `Cases` (the bound
`Uses`) says which clients, dialogues and incidents one behaviour has.

## 3. Runs

| Run | Instance | Shows |
|---|---|---|
| `outbox` | 2 workers, a message for 2 users and a chat event, 2 attempts, 1 crash or lost connection | locks, accounted copies, give-up, settlement (liveness), refinement of `Delivery` |
| `messages_send` | 2 users, 3 devices, 2 requests with one key, 2 message ids, answers before or after the commit, joins, leaves, revocations | idempotency, atomicity, addressing |
| `messages_receipts` | 1 message, 3 requests, up to 4 receipts | exactness without contention; what contention cannot destroy |
| `sessions` | 2 requests at once, any 4 in sequence, bans, expiry, rollback | registration, rotation, revocation, audit |
| `connections` | 2 sockets of one user and a user without one, 2 events, 1 Redis failure or restart | registration, order, arrival |
| `groups` | 3 users, 2 devices, 2 requests at once, 3 in sequence | key versions, member rows |
| `ws_client` | each platform, 3 sockets at a time, 2 logins, 1 expiry, 2 waiting `handleClose()` | timers, tokens, one socket, fresh handshakes, reconnection (liveness) |
| `chat_client` | each platform, 2 chats, 1 message each way in one of them, a page of 1, and in turn: staleness with 1 loss or failure, second copies, a deletion | signs, counters, nothing taken back, new messages shown and read (liveness) |
| `composer` | each platform, 2 direct chats and a group, 2 files, 2 edits, 2 sends (3 of drafts under a key), 1 failure | what a message carries, drafts, typing signals |
| `onboarding` | each platform, 2 users, 3 keys, 2 forms at once | the key in use is the key of the device |
| `new_chats` | 3 users, two web clients and a phone, 2 creations committed before or after their answers, 1 event, 1 departure, 1 failure | one direct chat, the list (liveness) |
| `logout_disconnects` | the phone of `ws_client` | expected violation, below |

Why the bounds are enough: every property relates at most two transactions (or
two workers, two sockets, two forms, two messages being sent) that overlap, plus
one that came before or fails between them; a third message, event or user
would only repeat a role that is already played. (An exception is `isPending`,
which forgets a request when a later one is made and ends: a third message then
doubles the first. `composer` has it, with drafts only.) Two sockets of one user are
needed for a dead one beside a live one, two events for order, two message ids
for a duplicate. A page of one message is full after one, so that two messages
push one out; the second chat of `chat_client` is what the user leaves the first
for. In `messages_send` only one other member is listed: two `list_active` of
one send differ no more than one and the list of members before it, and the
proof holds for any number. A third session needs three of the four requests of `sessions`
(register, refresh, refresh). A client's third socket opens while one is
closing and one is forgotten. A third key is generated when a second form
overlaps the first after a failed one. The cases of `NewChats` and the feeds
and uses of the client modules split a behaviour by what it combines, because
the product of all of them is too large; each pair that shares state is in one.

A module's type invariant is a conjunct of one of its other invariants where the
run does not list it: `TypeOK` is part of `OneMessagePerKey`, `AuditMatches`,
`RelayedInOrder`, `TimerWanted`, `SignsWillEnd`, `PayloadFits` (as
`ComposerTypeOK`), `KeyMatchesDevice` (as `OnboardingTypeOK`) and `UncontendedDirectOnce`.

### What the documentation says otherwise

One run expects a violation, `logout_disconnects`. docs/MOBILE.md:117 says that
the logout disconnects the WebSocket. On the phone, a new access token makes the
effect of `navigation/index.tsx` disconnect and connect again. When the old
socket then reports its close, `onclose` (`shared/api/websocket.ts:71-75`) sets
`this.ws` to null although it holds the new socket; the logout finds nothing to
close, and the new socket outlives it.

The models show other disagreements, which have no run of their own:

| Sentence | What the code does |
|---|---|
| `outbox.py:6`: at-least-once delivery even if the publish fails | five dispatches that raise give an event up (`Exhausted`) |
| README.md:191: a refresh token used twice gets 401 | two uses that overlap both succeed (`Sessions`) |
| README.md:195: the audit log captures failed logins | the row is rolled back with the request (`Sessions`) |
| docs/E2EE.md:76-81, README.md:45: removal of a member, revocation of a device rotate the group key | neither does (`Groups`) |
| docs/WEBSOCKET.md:263: typing is fanned out to the members | to none (`Typing` of `Connections`) |
| docs/WEBSOCKET.md:100-123: the server sends message.delivered and message.read | the worker's branch is `pass` (`Outbox`) |
| `core/metrics.py:9-12`: the current number of connections | a failed setup stays counted (`Connections`) |
| docs/WEBSOCKET.md:245: fetch what was missed after a reconnect | neither client listens for it (`ChatClient`); the query named there returns older messages |
| docs/WEBSOCKET.md:96-98: post delivered on message.new; count what is in no open chat | the phone counts the open chat too and posts no delivered for closed ones; the web posts read in a hidden tab |
| docs/WEBSOCKET.md:265: a typing sign expires after 7 s | the phone has no timer |
| docs/MOBILE.md:97-98: the phone creates chats | its bodies have other field names than the schema requires, and are refused (`NewChats`) |

Behaviours without a sentence against them, to know when reading the models: with
FastAPI from 0.118 on, a message or a chat can be answered and then not stored; a
banner that is pressed goes away and leads nowhere, since
`InAppBanner.tsx:128` names a route that `navigation/index.tsx` does not have
(`BannerPressed`); a message that comes between the opening of a chat and the
effect that sets `activeChatIdRef` is counted as unread although it is on the
screen (`Early`), and one of the chat before is posted as read; the 51st message
of a chat and a deletion take a message from the open chat without a word
(`PushedOut`); the web sends in the clear, or with the key of the chat before,
until the derivation is done; a draft typed while a message is on its way is
cleared by its answer; each attempt of a send has a new `client_message_id`, so
a repetition by hand is a second message; on the web a draft can be submitted
again while its first request is unanswered, if a request made later has ended
(`Overlooked`); a live message vanishes on the phone
when the chat is opened again before its query is stale; a failed registration
replaces the phone's key, and leaves one more key in the browser; two creations
that overlap leave two direct chats.

### Fairness and deadlock

`outbox` assumes weak fairness of each worker's next step (its asyncio task runs
in a `while True` that catches every exception) and of the clock passing a row's
`next_retry_at`; it assumes nothing of requests, of Redis, or of crashes, whose
number is bounded. Failed publishes need no assumption: the attempts run out.
`connections` assumes weak fairness of the relay (the event loop runs the
subscriber, and each `send_text` ends by accepting the frame or by raising);
clients, connects and Redis owe nothing. `ws_client` assumes that a request
for a refresh is answered, that continuations, effects, timers and asked-for
closes run (all weak), and that of the handshakes tried again and again one
succeeds (strong: the loop retries for ever, and a server that refuses for ever
connects nobody). `chat_client` assumes that a fetch is served and ends, with its
answer or an error, and that React runs the effect of what it rendered;
`new_chats` the same of the fetches of the list. Users, events, networks and
failures owe nothing anywhere. The other specifications have no fairness: their
properties are safety.

`connections`, `ws_client`, `logout_disconnects`, `chat_client` and `composer`
turn deadlock checking off because what drives them is finite: when the events,
logins or edits of the bound are used up and nothing is under way, nothing more
happens. In the other instances a refused request, an idle poll or a reload is
always possible.

## 4. Proofs

Eight modules have theorems, all in the same form: an invariant that says what
is known of everything under way, a lemma for each action that it is preserved
(`...Keeps`, `...Step`), and the properties of the runs as consequences. Every
theorem holds for any sets the constants name, finite or not unless an
assumption says so, and for any bounds. Between them they state every invariant
and every action property that a run checks, and the refinement; what the runs
alone show is liveness.

`OutboxProofs` proves, for any finite or infinite sets of events, users and
workers and any positive bounds, from the assumptions `KindAssumption`,
`AudienceAssumption`, `BoundsAssumption` and `NoneAssumption` of `Outbox`
(audiences are sequences without repetition, bounds are positive, `None` is no
event):

| Theorem | Says |
|---|---|
| `TypeCorrect` | `SafetySpec => []TypeOK` |
| `RowLocksHold` | live transactions hold disjoint sets of pending rows |
| `ProcessedRowsReachedAll` | processed implies handed to Redis for every target |
| `GivenUpLate` | failed implies `MaxAttempts` dispatches that raised |
| `CopiesAreAccountedFor` | each surplus copy has a failure or an abort of its own |
| `OutboxImplementsDelivery` | `SafetySpec => Delivery!Safety` |

The argument. None of the safety properties is inductive. `ProcessedReachedAll`
speaks of committed rows, but a row becomes processed from an outcome noted
earlier in a worker's memory, and that outcome from a dispatch that counted its
publishes. The inductive invariant follows this chain: the targets before
`sent[w]` have a copy (`DispatchProgress`), an outcome "sent" means that all
targets have one (`SentMeansReached`), so the commit may write "processed".
Because `copies` only grows, other workers cannot disturb it, which is why it
holds even for a worker that lost its locks. `GivenUpOnlyAfterMaxAttempts`
needs that an error outcome not yet committed has its own failure among
`failures[e]`; only one live transaction can hold the row (`RowLocks`), so an
attempt is counted for each failure at most once. `CopiesAccountedFor` is shown
by keeping accounts (`Balanced`): the copies made, plus one for each batch that
has lost its locks and may still give one (`Owing`), are at most the failures and
aborts plus the one copy that a live batch or the settled row has earned
(`Earned`). A batch that loses its locks goes from one side to the other, and
the row locks see to it that only one batch earns at a time. The refinement maps a commit
to `Settle`, a publish to `Reach` and everything else to a stutter or `Post`;
it uses the invariant to show that settled rows were pending and reached.

`GroupsProofs` proves every property of the `groups` run, for any sets of
users, devices and request slots and any bound on requests, from
`BoundAssumption` and `NoneAssumption` of `Groups`:

| Theorem | Says |
|---|---|
| `GroupsTypeCorrect` | `Spec => []TypeOK`, with which a created group has a first version |
| `GroupsVersionsInCommitOrder` | overlapping rotations commit as 1, 2, 3, ... |
| `GroupsOneSecretPerVersion` | the keys of a version are those of the request that made it |
| `GroupsAddedWithRotation` | one version and one event for each member added |
| `GroupsFormerMembersStayOut` | no overlap of requests brings a former member back |

The argument. A version number is computed, inserted and committed in three
steps, and other rotations commit between them. `Rotations` says what is known
at each: a computed number is at most one past the last (it may be overtaken),
an inserted one is exactly the next, and only one is inserted at a time,
because an INSERT waits for an uncommitted row of its number. `Joins` says the
same of member rows: whose row is inserted has none committed and one request
inserts it, so a commit of `add_member` never touches a former member and
always adds one user. `Departs` says that only those who were members leave,
so the number of those added does not change. Counting them (`Counted`) is a
second induction on top of these.

`MessagesProofs`, from `NoneAssumption` of `Messages` (no id or key is `None`)
and what it states of its constants:

| Theorem | Says |
|---|---|
| `OneMessageForEachKey` | one message for each idempotency key (and the types) |
| `AckedMeansStored` | a 201 names the stored message of its key, unless its commit is still to come or was lost; a stored message has one event, another none |
| `NoReceiptIsLost` | no race on a receipt row loses a timestamp or an event, or returns it to pending |
| `UncontendedReceiptsAreExact` | one event per receipt and the last status, where no two requests met |
| `WhoStaysIsAddressed` | who was there from check to commit is addressed, who had left is not |

The argument. `Holders` says that who has inserted a key holds it alone until
the commit; an INSERT that waits is what makes it inductive. `Addressing` compares
the lists of a send with the directory of now: a member only leaves
and a device is only revoked once, so whoever is in both was in between.
`Receiving` says that a row is still what its request has read, unless the
history calls it contended.

`SessionsProofs`, from the assumptions of `Sessions`:

| Theorem | Says |
|---|---|
| `TokensAreUsedOnce` | one successor for each refresh token, where no two uses met |
| `AuditIsExact` | one registration for each name; the audit counts what was committed (and the types) |
| `RevokedForGood` | a revoked device is never active again |
| `LockedOut` | what was revoked or banned before a request opens no session in it |
| `RotationIsAtomic` | predecessor revoked and successor opened together |

The argument. A request checks, other requests commit, and it commits what it
had decided. `Accounts` and `DeviceRows` say that the unique keys give a new row
to one request; `Remembered`, that what was revoked or banned at the beginning
still is, so it need not be read again; `Rotation`, that a session used by one
request alone has no successor yet. `Audited` counts sessions by what opened
them, which each commit raises by the one that it audits.

`ConnectionsProofs`, from the assumptions of `Connections`:

| Theorem | Says |
|---|---|
| `LiveAreRegistered` | a live connected socket is in the registry and in the gauge |
| `RelayKeepsOrder` | a connection is sent the events of its user in the order they were published |

The end of a relay takes sockets out of the registry that were found dead some
awaits before; the invariant (`RelayInv`) is that they still are, because a
socket does not come back to life. Order rests on this, and on what the
subscriber has yet to take being the end of what was published (`Backlog`): an
event is relayed to all the sockets of its user before the next is taken, and
what a connection got is at most the relayed part. Both sides are the filter
`Of` of a queue, a recursive function. No induction rule can be cited for it
(those of the library have an operator as a parameter), so `UpTo` proves
induction over the naturals from the well-foundedness of `<`, with a set in the
place of the operator, and the facts about `Of` (that it is a filter, that it
commutes with appending and with taking the head) follow from that.

`ClientProofs`, from the assumptions of `Clients`, `WsClient` and `Onboarding` (among them
`SocketsAssumption`: sockets are finitely many, since `opens` is bounded by
their number):

| Theorem | Says |
|---|---|
| `TimersAreWanted` | a reconnect is pending only while an effect wants it (and the types) |
| `TokensAreTheUsers` | tokens and ids in the store are of one login, unless one crossed a refresh |
| `OneSocketIfUncontended` | the client holds each live socket, unless open and close overlapped |
| `HandshakesAreFresh` | every handshake has a fresh token |
| `KeyIsTheDevices` | the key in use is the one of the device |

The argument is what is known of each thing under way: whose token the shared
refresh posted (`InflightMatches`), that a continuation which is about to be
told of a token finds it fresh (`AnswerFresh`), that who reconnects has its
effect in force (`PageWants`), and that during a wait for a token there is no socket
(`OneAtATime`).

`KeyIsTheDevices`, of the same module, is about `Onboarding`: the key in use is
the one the server has for the device. A form's key is what the store gives out from the moment it is stored or found
(`Presented`), and without overlap nothing is stored before the form ends
(`Alone`).

`NewChatsProofs` proves `OneDirectChat`, from the assumptions of `NewChats`: two
people share one direct chat unless creations overlapped, and each answer is
what was asked for. `Waiting` says that what `create_direct` has not found is
still not there when it inserts, unless the pair is contended; nobody comes
back to a direct chat, so only another insert, or the commit of an earlier one,
could falsify it, and `UnderWay` sees both.

`PagesProofs`, from the assumptions of `Pages`, `ChatClient` and `Composer`:

| Theorem | Says |
|---|---|
| `SignsEnd` | what is shown as happening now has a timer that clears it |
| `WatchedIsRead` | a chat that stays on the screen of the web client has no unread count, unless an event came before the effects of its opening |
| `ShownStays` | no step takes back what is on the screen, but what was deleted or pushed out of the page (an action property) |
| `PayloadsFit` | a stored message has the key of its chat and the file it names |
| `DraftsAreSentOnce` | a draft stays until it is sent and is sent once |
| `TypingStops` | who was told that the user types will be told that it stopped |

For `ChatClient` the invariant (`PageInv`) adds to the properties that an answer
that was served has what its list has, but for what was deleted or has a page of
newer messages by now (`QueryFits`), so it takes nothing else back when it
arrives, and that a watched chat is on a visible screen (`Screen`). For
`ShownStays` every action is shown to keep the invariant and, beside it, what
only a pair of states can tell (`Keeps`).

For `Composer` the invariant is about what is on its way. A draft is not cleared
unsent, because while a message is on its way the text field and the attachment
hold what is in it, nothing, or what came since (`OwnedIs`); the answer clears
no more. A draft is not sent twice, because a message that nobody waits for any
more is `Gone`, its content can never be that of the composer again, unless
it is in `doubled`; one that somebody waits for is the last request, which
`isPending` blocks on, or `Overlooked`. That a content does not come back needs
that drafts are numbered (`Filled`: none is newer than the last edit) and that a
file is not picked twice. The file of a message is the one it names since an
upload under way is that of the attachment, unless the user removed that or
another upload began (`UploadsAre`), and the key fits since at most one
derivation will store its result, on the web that of the open chat
(`DerivesOne`). The same invariant was the finding of the proof: with two
messages it seemed that only a message being encrypted could be submitted
again; the proof did not go through, and with three TLC showed the request that
`isPending` has forgotten.

Model-checked only: liveness (`EventuallySettled`, `EventsArrive`,
`StaysConnected`, `NewMessagesShownAndRead`, `OpenedIsListed`), which is beyond
the prover: it has no rule for fairness or ENABLED.

## 5. Not modelled

- Ciphertext, key agreement and signatures: primitives, taken as what they
  promise. Layout and wording of pages and screens.
- Rate limits (enforced by a library) and deployment and monitoring configuration:
  no state of the system.
- Prekeys, attachments (backend), contacts and the presence keys: single
  statements on one table or key, with no relation to the other components'
  state that a property is about. No client of this repository uses prekeys.
- Of the clients: voice recording, the players and decrypted previews, pins,
  themes, notifications, presence, and the Admin, Devices and Settings pages.
  They read, or write one value, and no other part depends on it. `ChatScreen`
  calls the hook of its recorder under a condition, so what recording does
  depends on React's treatment of an error of the program.
- Two tabs that share one stored token: it is the contended case of `Sessions`.
- Queries that change nothing and whose result no property is about. Time is
  abstracted to "has passed or not".

## 6. Order of the work

Done, in this order: `Delivery` and `Outbox`; `Messages`; `Sessions`;
`Connections`; `Groups`; `WsClient`; `ChatClient`; `Composer`; `Onboarding`;
`NewChats`; and the proofs of the safety properties of all of these.

Worth adding next: an end-to-end composition of `Messages`, `Outbox` and two
processes' `Connections`.
