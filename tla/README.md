# Firemoot: formal models

TLA+ models of Firemoot, a chat server (Scala, Postgres, WebSockets) with a
TypeScript client SDK. Every module is a translation of the code under `src/`;
`PROJECT.json` names, for each definition, the lines it stands for. TLC checks
small instances, TLAPS proves the invariants listed below for every value of
the constants.

## 1. The system

A request changes a channel in one Postgres transaction: it updates rows,
allocates the channel's next `seq` and appends a row to `channel_events`. After
the commit the handler publishes the event on an in-process topic, the
*backplane*. Two kinds of subscriber listen: one per WebSocket connection and
one that fans events out into webhook deliveries. A client holds a cache of each
channel that it fills over REST and keeps current from the socket; after a lost
connection it resumes from the highest `seq` it has seen.

| Part | State | Operations | What makes it correct |
|---|---|---|---|
| Services over Postgres (`service/*`, `db/*`) | channels, messages, members, reactions, users, `channel_events` | create, send, edit, delete, attach thumbnail, update, soft delete, add and remove member, react, unreact, mark read, delete and upsert user | the log is gapless and each change is one event; tables and log agree; deleted text never returns; counts are exact |
| WebSocket gateway (`ws/WsRoutes`, `ResumeBuffer`, `EventReplay`) and backplane | per connection: topic queue, resume phase with buffer and high-water mark, outbound queue | subscribe, replay, flush, live delivery, close, restart | exactly the events past the resume point, in order, once; a slow reader stops nobody for ever |
| Webhooks (`webhook/*`, `WebhookService`, `WebhookRepo`) | endpoints, delivery rows, claims in memory | register, enqueue, reap, claim, post, settle, replay | at least once, no two live claims, a retry ladder of fixed length, nothing stuck |
| Client SDK channel (`channel.ts`, `state.ts`, `outbox.ts`, `client.ts`) | cached messages, channel data and read state, `lastSeq`, watching, outbox | watch, resync, hydrate, send, mark read, event folding, unwatch | the cache converges to what the server holds; a send is shown once |
| Client SDK connection (`connection.ts`) | socket, status, attempt, timer, the promise of `connect()` | connect, URL provider, hello, reconnect, close | one socket, no timer left behind, resubscription on hello, every promise settled |
| Stream facade (`stream-compat/src/client.ts`) | client, `currentUser`, `token`, memoised channels | connectUser, disconnectUser, openConnection, closeConnection, channel, queryChannels | no socket under another user's token; the user shown is the client's; no channel of a dropped client |
| Presence and typing (`ws/ConnectionRegistry`, `PresenceService`, `TypingTracker`) | reference counts, typists with expiry generations | register, unregister, start, stop, expire, shutdown | online exactly while connected; an indicator always ends |
| Thumbnail worker, rate limiter, metrics, auth, admin console | claim loop, token buckets, aggregates | | see `PROJECT.json` |

What is hard here: statements of concurrent transactions interleave under READ
COMMITTED; commit and publish are two steps; each connection runs two fibers
that share one phase; a socket, the HTTP answers and the event stream reach the
client in any order; asynchronous calls of the client overlap and look at
nothing when they continue; presence and typing decide in one atomic step and
tell in another; processes stop between any two of these steps. The
`hazards` of `PROJECT.json` name each of them at its line, with the properties
that watch it or the reason none does yet.

## 2. Modules

    SeqFeed  <--- implements ---  Gateway (GatewayFeed, GatewayWire)
                                                             GatewayProofs
    ChannelLog  <-- implements -- ChannelStore (StoreLog)    StoreProofs, StoreLogProofs
    WebhookQueue (WebhookPromise)                            WebhookProofs
    ClientChannel                                            ClientChannelProofs
    ClientConnection  <-- implements --  StreamClient (MCStream)
                                         ClientConnectionProofs, StreamProofs
    Ephemeral (MCEphemeral)              EphemeralProofs

The components meet in their abstract specifications. `ChannelLog` is what the
gateway's `Commit` takes for granted (one event per step, no holes), and
`SeqFeed` is what `ClientChannel`'s server side takes for granted, but for the
one stray frame a resubscription can leave (`gateway_resubscribe`). They are not
composed into one state space: that would repeat the detail that the
refinements remove.

### ChannelStore, ChannelLog, StoreLog, MCStore

One channel. A transaction (`Tx`) runs one request, statement after statement;
`at` is its next statement, `draft` its uncommitted row versions, which are also
its row locks, `shared` the user rows its foreign keys hold, `local` what it
read and carries on, `found` what its scrub has found, `emitted` its event.
`Wants` and `Blockers` are Postgres' lock waits; any statement may fail, by a
broken deadlock too (`Rollback`). A statement on one row reads it when it has
its lock, as READ COMMITTED does. The scrub of a user's messages has many rows
and is two steps: `FindAuthored` is its snapshot, `ScrubAuthored` changes what
it found and still matches, once no lock is in the way; what is committed
between the two is missed. `UpsertUser` creates a user, also one that was
deleted before; `erased` is a history of where in the log a user was.
Abstractions: a statement takes all its locks together; there is one channel
and one reaction type; text is present or absent, and "erased" means text only
(the code leaves attachments and the payloads of `channel_events` in place);
`custom` and archiving are left out; unread counts are left out.

`ChannelLog` has one indivisible step per kind of event and the channel's
status. `StoreLog` maps the committed channel row and log to it.

### Gateway, SeqFeed, GatewayFeed, GatewayWire, MCGateway

Handlers (`Writer`) commit, read the topic's subscribers once, and send to them
one by one, waiting for room. Each connection is a receive fiber (`reading`,
`pending`, `mark`) and a live fiber (`inbox`, `chosen`) around the ResumeBuffer
(`phase`, `buffer`, `hwm`), each `modify` one action. `asked` and `out` are
history. `SeqFeed` is a cursor per subscriber that moves through the log one
event at a time, and the `wire`: the seqs on its socket in order, which is all
a subscriber sees. `GatewayFeed` maps the gateway to it. A frame says nothing
of the subscription it was chosen for, and the tags that `out` carries for the
other properties are dropped in `wire`. So when a client subscribes again on an
open connection, an event the live fiber has already chosen for the earlier
subscription goes out among the frames of the new one. `SeqFeed` says so: `Ask`
may leave one event, the one due next before it, in `stray`, and `Stray` puts it
on the wire at any later point. `GatewayWire` adds a history of where on the
wire the last subscribe frame was handled, for the claim that this refutes.

`GatewayFeed` names the environments: `GentleSpec` assumes that the live fiber has
joined the topic before the first subscribe frame is handled (`AttachFirst`), that
retention keeps the newest row and does not run between a frame's two log queries
(`GentlePrune`), and that handlers publish in the order they committed and send
to each connection in that order (`InTurn`). Nothing in the code enforces any of
the three; without them the splice can lose events, which is why `NoGap`,
`ImplementsFeed` and the liveness properties are checked under them, and the
ordering properties without them.

### WebhookQueue, WebhookPromise

Endpoints, delivery rows, the subscriber's queue, and each process's poll cycle
(`held` claims and how far each is). Two servers are two processes on one
database, as during a rolling restart. `Elapse` is time reaching
`next_attempt_at`; the order of deadlines is left out, so any due row may be
claimed first. A crash empties all that is memory. `accepted` and `lapses` are
history. `WebhookPromise` adds `owed`: the deliveries of an event to the
endpoints that are enabled when it is committed, by a server whose worker
streams run.

### ClientChannel

One `Channel` handle against a server that keeps `SeqFeed`'s promise. The
content of a message, of the channel's own data and of the user's read state is
the `seq` of the event it was taken from. A REST request reads the server at
moments between its start
and its answer, one per statement (`LoadInitial` two, `Hydrate` two); answers
arrive in any order; `Drop` loses the frames under way in both directions. The
answer of a send goes through the reducer like an event, as in the code. The
answer of `markRead` and the notification to the user's other devices bring a
read state beside the stream: `ReadArrives` lets any committed one come, at any
time, more than once or not at all, which allows more than the code does.
A deleted message may still be updated, as a late thumbnail does
(`MessageRepo.scala:92-97` does not look at `deleted_at`).
Abstractions: the page limit, list order, the payload of `message.deleted`,
unread counts, the user's own reactions and typing are left out; the user stays
a member, and each `markRead` advances; retention keeps the newest row;
`MaxTurns` bounds calls and lost connections together.

### ClientConnection, StreamClient, MCStream

`ClientConnection` has any number of `Connection` objects. The state of an
object is its fields (`status`, `attempt`, `userClosed`, `socket`, `timer`,
`settle`) and whether a channel of its client is watched. The code's callbacks
are closures that do not look at who calls them, so each `connect()` is a
*chain* of its own (`phase`: awaiting the URL, dialing, live, closing, waiting
for its timer), and the chains of one object act on the same fields: `OnClose`
clears `socket` whichever socket closed, `TimerFires` clears `timer` whichever
timer fired. A closed socket tells so later, in a callback. `UrlReady` has
three outcomes: the socket is made, the attempt is no longer wanted, or the
socket factory throws (`connection.ts:157`, outside the `try`), which leaves a
chain that `threw`: no callback, no retry, the status still connecting or
reconnecting, the promise pending until `close()`. Backoff delays are
left out; `MaxRetries` is the policy's limit (the facade sets none, the
instance sets 1, so that running out of retries happens).

`StreamClient` extends it with the session of one `StreamChat` object in a
browser. A `FiremootClient` is named by the `connectUser` call that makes it.
`connectUser` is up to three actions: `ConnectUser` up to the first `await`,
`Resume` after the old client is disconnected, `Finish` when `connect()` has
resolved. What runs in one turn of the event loop is one action: sockets and
timers speak only when no continuation is `Due`. `Channel` needs a client only,
and with data it replaces the memoised channel, as in the code. Bounds: a
channel is watched once the user is connected, with one query at a time.

The code does not guard against every overlap, and the properties name what
they except rather than excluding it from the model. The hazards behind these
exceptions are therefore not caught by any property, and `PROJECT.json` says so:

- `threw`: see above; `FieldsHonest` lets such an object say connecting, and
  `PendingIsPursued` leaves its promise out.
- `doubled`: `connect()` while an attempt, a timer or a closing socket is
  outstanding starts a second chain. From then on the late `onClose` of one
  socket clears the reference to the other, a timer can no longer be cleared,
  the older promise cannot be settled, and a `hello` may resubscribe on a
  socket that is still dialing, which throws.
- `lapped`: two `connectUser` calls that both wait for a disconnect both make
  a client; the first one is never closed.
- `late`: a `connectUser` that was overtaken still sets `currentUser` when it
  ends, so the user shown is not the client's, and the next `connectUser` for
  that user does nothing.
- `stale`: the answer of a `queryChannels` asked of an earlier client
  memoises that client's channels in the new session.

### Ephemeral, MCEphemeral

The registry counts a user's connections (`count`), a tracker per connection
holds its typist (`entry`, `gen`, and `armed`, the timers that run). Each
decides atomically and tells from another fiber: `notices` and `signals` are
the decisions not told yet, told in any order by `FanOut` and `Tell`, or lost
(`FanOutFails`, `HandlerInterrupted`). A peer shows what it was told last.
A handshake that is accepted and whose streams never start stays registered
(`accepted`), because only the streams' finalizer unregisters. Abstractions:
one peer in one shared channel stands for the audience; the throttle has a
clock of its own and is a free choice; a timer may fire at any time.
`informed` and `current` tell whether the newest decision was the last one
told: the code promises nothing when it was not, and then a peer can show a
connected user offline, or a typing indicator nobody is behind.

## 3. Runs

| Run | Bounds | What it shows |
|---|---|---|
| `gateway_order` | 1 connection, 2 handlers, 3 events, 2 subscribe frames | frames of a subscription ascend and lie past its resume point, with no assumption on the environment |
| `gateway_exact` | 1 connection, 2 handlers publishing in turn, 3 events, 2 frames, queue of 2 | no gap, the untagged frames are those of `SeqFeed`, every event delivered, every publish finishes |
| `gateway_resubscribe` | 1 connection, 1 handler, 2 events, 2 frames | *violation* of `OnceAfterSubscribe` |
| `gateway_two_writers` | as above, 1 frame, handlers publishing in any order | *violation* of `NoGap` |
| `store_rows` | 4 transactions, 2 messages, 2 users, 20 requests | log dense, tables agree with the log, deletion final, no orphans, locks in order, `ChannelLog` implemented |
| `store_erasure` | 3 transactions | *violation* of `ErasedWithUser` |
| `webhook_queue` | 2 processes, 1 endpoint, 1 event and 1 flag, ladder of 2 attempts, 1 failure, 1 slow worker, 1 replay | claims, length of the ladder, outcomes, drain |
| `webhook_lost` | 1 process, 1 event, 1 endpoint, 1 crash or failure | *violation* of `AtLeastOnce` |
| `client_channel` | 1 message of others, 1 of its own, 3 events, 2 turns | the cache converges, a send is shown once |
| `client_behind` | same, 1 turn | *violation* of `NothingMissed` |
| `stream_client` | 3 connectUser or openConnection calls, 2 users (symmetric), 1 channel, 1 retry | objects describe their chains, promises are pursued, hellos resubscribe, sockets, user and channels belong to the session |
| `ephemeral` | 1 user, 2 connections, 2 and 1 start frames | presence and indicators tell the truth when told in order, superseded timers do nothing, both go off in the end |

Why the bounds are enough. The gateway's connections share nothing but the log
and the handlers, so one connection shows every interleaving of its two fibers;
a second handler is what reorders publications; two frames give one
resubscription, three events one below, one in and one after a replay. In the
store, two transactions make a race and a third a deadlock cycle with a bystander;
four let a race be observed by a later request, and let a user be deleted and
created again between two others. Webhooks: two attempts
are the shortest ladder with a retry; one slow worker gives two holders of one
row. `DirectEvent` is empty in the passing instance; that such events get no row
is proved for every value. Client: three events hold an older version, a newer
one and a neighbour; two turns give two requests in flight, or a request and a
lost connection. Facade: the first `connectUser` makes a client, the second
displaces it and the third overlaps the second; or a third call connects a
client again; two users make a switch, one retry makes both a reconnect and
the end of the retries. Ephemeral: two connections of one user are what the
reference count is for; two starts make one superseded timer, and the second
connection's one start mixes two trackers in one indicator. Users share nothing.

The converging cache is checked with exceptions, and they are the point.
`suspect` is set when an event past a gap was applied, when a version whose
successor had passed by was put (back) into the cache, or when a resync failed;
`Converges` says that *nothing else* leaves the cache wrong, and a full reload
clears it. All three happen: the answer of a send can be ahead of the socket
(`client_behind`) or behind an edit, a late hydrate answer can put back a
deleted message (`channel.ts:181`), a late answer of `markRead` an older read
state (`channel.ts:373`), and `client.ts:157` does not look at the
result of `resync()`.

### What the violations show

1. `gateway_two_writers`: `send` publishes after its commit, outside any lock.
   Two handlers can publish in the opposite order of their seqs, and `onLive`
   drops the lower one.
2. `gateway_resubscribe`: `onLive` decides and the live fiber sends later; a
   client that subscribes again in between gets that event among those of the
   replay, a second time or out of order. The SDK's reducer survives it, as it
   puts any event in its place; the order that `ResumeBuffer.scala:8-11` and
   `WsRoutes.scala:35-36` state does not hold on the wire.
3. `store_erasure`: the scrub sees what is committed when it starts; a message
   under way while its author is deleted keeps its text. `ErasedUnlessSending`
   proves that nothing else does.
4. `webhook_lost`: between commit and the insert of delivery rows an event is
   in memory only, so a crash there loses it for an endpoint that was enabled
   all along.
5. `client_behind`: the answer of a send moves `lastSeq` past events that have
   not arrived; after a reconnect they are never asked for.

Two smaller disagreements were met while modelling and have no run: SPEC.md says
that `last_seen_seq` 0 streams from now, and the code replays the whole log; a
reaction's counts are read before the lock that orders the events, so two
concurrent reactions can both report 1 where `docs/guide/protocol.md:82` says
"Per-type counts after the change".

## 4. Fairness

Weak fairness, of single steps, and only of what the program or its platform
schedules: runnable fibers of the effect runtime (`Gateway!Fairness`), the
worker streams, the passing of time and a supervisor that starts a process that
exited (`WebhookQueue!Fairness`), timers, fibers that have decided something to
tell, and a cleanup that has begun (`Ephemeral!Fairness`). Clients, requests,
crashes, retention and endpoints owe nothing. The store has no liveness
property: that a transaction ends is up to Postgres, which breaks every
deadlock. What is up to the code is the order in which it takes locks.
`LocksInOrder` says that every service takes its own rows first and the channel
row last, and that only a `send` (channel, then message) or an erasure can close
a circle; so of two requests that deadlock one is always of these.

## 5. Proofs

| Theorem | Module | Establishes |
|---|---|---|
| `TypeCorrect`, `SpliceExact`, `DeliveredInOrder`, `DeliveredAsAsked` | GatewayProofs | `TypeOK`, `SpliceInv`, `OrderedOnce`, `OnlyAskedFor` |
| `LosesNothing`, `GatewayImplementsFeed` | GatewayProofs | `NoGap` and the refinement of `SeqFeed`, for `GentleSpec` |
| `StoreTypeCorrect` | StoreProofs | `TypeOK` |
| `LogIsDense`, `StoreImplementsLog`, `NoOrphansEver`, `RowsFollowLog`, `DeletedStaysDeleted`, `SetsFollowLog`, `ReceiptsNeverBack`, `RepliesCounted`, `ReplyCountNeverClamped`, `ErasedUnlessSending` | StoreLogProofs | `LogDense`, the refinement of `ChannelLog`, `NoOrphans`, `RowsMatchLog`, `DeletedForGood`, `SetsMatchLog`, `ReceiptsInOrder`, `ReplyCountExact`, that the clamp of the decrement never meets a 0, and `ErasedWithUser` under `NoneSending` |
| `QueueTypeCorrect`, `QueueRowsHaveCause`, `QueueDeliveredWasAccepted`, `QueueDeadAfterLadder`, `QueueClaimedOnce`, `QueueDeliveredStays` | WebhookProofs | the properties of those names |
| `FieldsAreHonest`, `ConnectedIsSubscribed`, `PromisesPursued` | ClientConnectionProofs | `FieldsHonest`, `WatchedIsSubscribed`, `PendingIsPursued`, for every behaviour of the connections |
| `FacadeImplementsConnections`, `StreamTypeCorrect`, `SocketsAreTheUsers`, `ShownUserIsClients`, `MemoisedIsFresh` | StreamProofs | the refinement of `ConnSpec`, then `TypeOK`, `OpenAsSelf`, `UserIsClients`, `FacadeFresh` |
| `ClientTypeCorrect`, `SentShownOnce`, `CacheConverges` | ClientChannelProofs | `TypeOK`, `ShownOnce`, `Converges` |
| `EphemeralTypeCorrect`, `PresenceIsTrue`, `IndicatorNeverStuck`, `SupersededTimersIdle` | EphemeralProofs | `TypeOK`, `PresenceTruth`, `NeverStuck`, `NotCutShort` |

They assume only each module's named assumption on its constants
(`GatewayAssumption`, `StoreAssumption`, `WebhookAssumption`, `ClientAssumption`,
`ConnectionAssumption`, `StreamAssumption`, `EphemeralAssumption`), which TLC
evaluates in the runs.

*Gateway.* `OrderedOnce` speaks of frames already sent and is not inductive: it
needs to know what may still be sent. `SpliceInv` says that the running
subscription has let through nothing above `mark` while it replays and nothing
above `hwm` once it is live, that what is pending lies above, and that a frame
the live fiber has decided on is newer than all of its subscription, even after
a resubscription has begun. `NoGap` and `ImplementsFeed` are theorems of
`GentleSpec`, for any number of handlers (`gateway_two_writers` shows that
handlers publishing out of turn do lose events). `GapInv` adds that what the
handlers still owe a connection is the newest part of the log (`Owed`, `IsTop`),
and how far its live fiber has got (`Low`: the last event it has taken from its
queue): the queue goes on from there without a hole, up to the first event owed;
while a connection replays, what is pending goes on from `mark`, and whatever
the live fiber took beyond is in the buffer; once it is live, nothing past `hwm`
has been taken; and a frame in hand follows what its own subscription delivered.
For the refinement the last part is what bounds a stray: a frame in hand at a
subscribe frame is the event due next to the subscription it ends.

*Store.* Types are inductive only with the position of each transaction
(`TypeInv`): a reply's parent exists where the reply count is decremented. The
log is dense because whoever holds the channel row's lock is alone
(`Exclusive`) and its event carries the next seq (`Turn`): `ChannelInv`. From
the same invariant every commit is one step of `ChannelLog` and every other
step leaves it unchanged. Three more invariants rest on it. `RowInv` follows the
locks: no two transactions have changed one row, whoever makes a row refer to a
user holds a key share of the user until it ends, and an erasure that is about
to commit has a version of every row that refers to the user, none of which
does; hence `NoOrphans`. `MessageInv` says that a transaction's version of a
message is never behind the committed row, and that what its event says of the
message (new, there, about to be deleted) still holds when it commits; hence
`RowsMatchLog` and `DeletedForGood`. `OwnInv` and `SetInv` say that what a
transaction has changed of members, reactions and pointers differs from the
committed rows exactly as its request says and as its event will report, where
the events of a user count from the user's last erasure; hence
`SetsMatchLog` and `ReceiptsInOrder`. `ReplyInv` is about counting: the messages
that count for a parent are those committed with that parent and not logged as
deleted (`Counted`), and a transaction's version of a count differs from the
committed one by what the transaction itself will add to that set or take from
it when it commits (`Counts`); a parent exists (`Rooted`), so a new message
starts with no replies; hence `ReplyCountExact`.

`ErasedWithUser` is violated, and `ErasedUnlessSending` says by what alone: it
holds of every behaviour in which no send has inserted a message of a user and
not committed it between the snapshot of the user's scrub and the delete of the
user (`NoneSending`, a condition on the schedule that the code does not enforce).
`EraseInv` says that a message of the log has its author's name on its row until
the author is gone and is deleted from then on (`Written`), that only the
erasure of the author takes the name away (`Authorship`), and that after the
scrub every committed message of the user is deleted, and during it every one
is among those its snapshot found (`Scrubbed`).

*Webhooks.* `QueueInv` follows an event through the pipeline: until it has been
fanned out it is in one place and has no rows (`Pipeline`); while no deadline
has passed on a delivery its claim is the only one and the row is as it was
claimed (`Claims`); a row's status tells how many attempts it had (`Rows`).

*Client channel.* `Converges` speaks of a handle with nothing to wait for, so its
invariant has to say what a handle is still waiting for. `ClientInv` has two
such parts. `Covers`: no change up to `lastSeq` is newer than what the cache
shows, but for messages left out by a preview or deleted since. `Follows`: while
the handle is watched and connected, what lies past `lastSeq` is accounted for:
the last subscribe frame under way asks for it, or a resync is due, or it is in
an unbroken run of seqs (`Run`) that ends the frames under way and goes on at
the subscription. With nothing under way the run is empty and begins past the
log's end, so `lastSeq` is at the end, and `Covers` makes the cache exact. The
resume point needs `SparesNewest`: a subscription that retention moves forward
still has the newest event to deliver, which shows the gap. That the maxima and
minima the model takes exist is proved from well-foundedness of strict
inclusion on finite sets.

*Connections.* The invariant `ConnInv` speaks of one object at a time: an
object not in `doubled` has one chain at most, described by its fields, whose
promise, if pending, is the one the object refers to, unless it threw. A step of one object
leaves every other as it was, which is stated once as a frame lemma and cited
by each action.

*Facade.* Every step of the facade is a step of `ClientConnection` or leaves
it unchanged, so the connections' theorems hold of the facade's objects too.
`StreamInv` adds what the session knows: the token is that of the client's
user, a client that is not the session's and not lapped was closed, and while a
`connectUser` waits to resume no user is shown (unless late) and no `connect()`
of the session's client has resolved without its `Finish` (`TurnOK`). The last
part is why the client that `Resume` makes does not meet another's user.

*Ephemeral.* `EphInv` says that a count is the number of the user's registered
connections (by the cardinality of finite sets), that the newest decision, told
or not, says what the count or the entry says now, and that an entry's own timer
is running.

Only model-checked: the liveness properties, which are beyond the prover with
fairness and ENABLED, and `LocksInOrder`, which is about every set of
transactions that wait for each other at once. Every other safety property the
passing runs check is a theorem.

## 6. Not modelled

The thumbnail worker's loop, the rate limiter, unread counts, media storage,
metrics, authentication, the last-active tracker, the admin console, generated
code; of the Stream adapter the server mode, the renaming of calls and events,
and listeners (`off()` at `client.ts:506` never detaches what `on()` wrapped:
pure bookkeeping that no modelled state depends on). `PROJECT.json` gives the
reason of each. Integer overflow: seqs are 64-bit and cannot reach their limit.
Most of the repository's lines are in these parts: the console's script alone
is a third.

## 7. Plan

Done, in this order because each rests on the one before: ChannelStore with
ChannelLog, Gateway with SeqFeed, WebhookQueue, ClientChannel, ClientConnection
with StreamClient, Ephemeral. What would add most next:

1. **Thumbnail worker and rate limiter**: the claim loop against sends and
   edits; the bucket as a pure step over rational time against a reference.
2. **ClientChannel**, extended: unread counts, edits and deletes through the
   handle, liveness of resync under a stated retention; then composed with
   `ClientConnection`, whose hello is its resync.
