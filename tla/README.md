# A TLA+ model of pinakes

pinakes is a message bus for agents: agents register with a TTL, send each
other requests, responses and informs over HTTP, take them from an inbox by
polling or get them pushed, and acknowledge and finish the work they asked for.
This directory models that bus: its state, the backends that keep it, the clients
that wait for it, the credentials that guard it, and the two offline moves of a
deployment (from the JSON file to SQLite, and from bare to prefixed names). TLC
model-checks small instances, and TLAPS proves the core invariants for every
instance. Paths are relative to the repository root.

## 1. Inventory

| Part | State | Operations | Talks to | What is hard | What makes it correct |
|---|---|---|---|---|---|
| In-memory store, `pkg/bus/store.go` | agents, messages, inboxes with a base cursor, idempotency table, conversations, id counters, `lastSweepAt` | `RegisterAgent`, `CreateConversation`, `sendMessage`, `inject`, `pollInbox`, `ack`, `postEvent`, `sweepLocked`, `pruneLocked` | called by both backends and by the HTTP server, under `s.mu` | the clock is read before the lock; sweeps are driven by calls; five retention clocks; queued requests | one acceptance per key and window, one inbox event per message, no deadline outlived, terminal states final, conversations outlive their messages |
| SQLite backend, `pkg/bus/sqlite.go`, `sqlite_delivery.go` | the tables of the schema, above all `deliveries`, `delivery_cursors`, `idempotency`, `counters` | `persistAcceptance`, `persistAck`, `readDurableInbox`, `claimDuePushes`, `recordPush*`, `pruneDB`, load and close | wraps the store with `s.mu` of its own; `deliveryLoop` and `pruneLoop` run beside the calls | two locks, memory and database out of step, crashes, lost responses and receipts | at-least-once delivery, one push at a time, monotone cursors, retries find the original |
| JSON-file backend, `pkg/bus/persistent.go` | the state file | every call followed by `persist` | wraps the store | visible before durable, concurrent rewrites, failed writes | what was answered survives |
| Push workers, `store.go` 670-830 | bounded queue, wait group | enqueue, attempts with backoff, drain | receipts to the SQLite backend | queue full, shutdown | one receipt per job |
| Long-poll notifiers, `store.go` 603-628, 1594-1608 | a channel per agent | wait, signal | polls and appends | lost wake-up | a waiting poll sees every append |
| Observe ring, `store.go` 630-668, 832-847, 2051-2119 | capped ring, ids, epoch | publish, `ObserveSince` | every handler publishes | a reader that falls behind | ids without gaps or repeats |
| Scope policy, `pkg/bus/scope.go` | configuration | name to scope, access | guards of the store | compat and strict mode | access is what the scope grants |
| Migration of the JSON file, `pkg/bus/migrate.go` | two files | import, two renames | startup | crash between the renames | imported once, never lost |
| HTTP server, `pkg/httpapi` | agent secrets, allowlist, open streams | handlers, registration proof, allowlist reload, event stream | all of the above | registration is five steps under different locks; the file is rewritten while it is read, or between its load and its watch | a secret changes only with proof, what was answered is in force |
| Namespace tool, `internal/nsmigrate` | a database copy, a manifest | parse, invert, preflight, rewrite | the database of a stopped bus | names are in eight columns; a bare name's scope is configuration | no identities merge, scopes stay apart, a run can be undone |
| Client SDK, `pkg/busclient` | none | one call per method | HTTP | - | - |
| Compaction and commands, `pkg/bus/compact.go`, `cmd/*` | files | compact, configure | database copies | - | - |

`PROJECT.json` lists the same parts with their status and, under `hazards`, what
in this code is hard to test, each at its line.

## 2. Modules

| Module | Models |
|---|---|
| `Store` | the in-memory store; one action per handler, plus `Sweep`, `Tick`, `ReadClock` |
| `Acceptances` | `Store` with the history of what `sendMessage` accepted |
| `MessageLifecycle` | abstract: what a sender may see of a message's state |
| `MemoryBus` | `Store` and its polling clients, with lost responses and old cursors |
| `Backend` | what both durable backends add to `Store`: a process that stops and starts, clients with cursors |
| `SqliteStore` | `Store` in front of the database, with push workers, shutdown, crashes and restarts |
| `Delivery` | abstract: durable at-least-once delivery |
| `JsonStore` | `Store` in front of the state file, with failing writes and crashes |
| `Migrate` | `JsonStore`, then the boots that import its file, then `SqliteStore` |
| `Streams` | long polls and observers: channels, ring, connections, restarts |
| `Credentials` | registration over HTTP, agent secrets, the allowlist file and its watcher |
| `Namespaces` | scope policy and the tool that renames identities |
| `MCStore`, `MCMemoryBus`, `MCSqlite`, `MCMigrate`, `MCStreams`, `MCCredentials`, `MCNamespaces` | sets and model values for TLC |
| `StoreProofs` | types, deadlines, inboxes, conversations and lifecycle of `Store`, windows of `Acceptances` |
| `MemoryBusProofs` | cursors of `MemoryBus` |
| `JsonProofs` | `JsonStore`: what survives, and cursors |
| `SqliteProofs` | `SqliteStore`: types, what holds without conditions, and that it implements `Delivery` |
| `MigrateProofs` | `Migrate`: what the move keeps, from the invariants of both backends |
| `StreamsProofs` | theorems about `Streams` |
| `CredentialsProofs` | theorems about `Credentials` |
| `NamespacesProofs` | renaming, manifests and their inverses; theorems about `Namespaces` |

### How `Store` corresponds to the code

Handlers hold `s.mu` from the sweep to their return, so each is one action, and
its guards are the handler's checks in their order. Calls that fail or find a
duplicate change nothing and have no action of their own.

*Sweep first.* Every handler begins with `sweepLocked(now)`, which does nothing
unless `SweepMinInterval` has passed. In the model the sweep is the action
`Sweep`, and handlers have the guard `~SweepDue`; a handler that finds the sweep
due is `Sweep` followed by the handler at the same time. `Sweep` alone is the
effect of the calls that only read, such as `Health`. The sweep goes through a Go
map, so the order of the requests it releases is arbitrary (`ReleaseOrders`).

*Two clocks.* A handler reads the clock, then waits for the lock. `clock` is the
time and `now` what the handler that has the lock has read; `ReadClock` sets it to
anything at most `MaxLag` old. So times in the tables need not be monotone.
`MaxLag` is not in the code, which bounds the wait by nothing; the properties that
depend on it name it.

*Data.* Bodies, titles and metadata are left out; an event has a size, because
the byte budget evicts by it. Access is a constant relation (`Access`,
`ControlPlane`), which stands for `scope.go`. Automatic conversation ids and ids
that clients choose are numbers of one set, since a client may choose the id that
the counter will reach. Time 0 is the zero `time.Time`.

*Pruned messages.* By default a message is pruned an hour after its end, while its
request id is remembered for a day, and `sendMessage` answers a retry in between from
the idempotency entry alone (`store.go` 1342-1348). What it accepted before can then
not be read from `messages`. `Acceptances` adds `accepted`, a history that no action
reads: the id, key and time of every message `sendMessage` accepted.

### How `SqliteStore` corresponds to the code

`sendMessage`, `inject`, `ack` and `postEvent` call their commit function with both
locks held, so the handler and the transaction are one action (`DurableSend`,
`DurableInject`, `DurableAck`, `DurableEvent`). `LateAck` and `LateEvent` are the early
returns for terminal messages: the second commits, the first does not. `RegisterAgent`
and `CreateConversation` change memory first and write later (`saves`, `creations`);
registrations may be written in any order or not at all. A poll is `BeginPoll`,
`readDurableInbox` (one transaction) and `FinishPoll`. A push is `claimDuePushes` or an
acceptance, `enqueueClaimedPush`, `sendPushCallback` (all attempts of one job) and
`recordPush`, whose write may fail. `Crash` can come between any two steps; `Restart`
recovers, prunes and loads as `NewSQLiteStore` does. Shutdown is `closePushWorkers`,
after which the pool takes no more jobs, the drain (`PushPool` goes on; a cancelled job
is one that failed) and `Close`; calls that outlive the HTTP server's own drain go on in
between. `claimDuePushes` takes at most 32 rows in the code; the instances never have as
many.

`arrived` and `acked` are history: messages that reached their recipient, and
messages whose ack succeeded. `cursors` are the cursors a client may send: 0, and
whatever a response brought it.

### How `JsonStore` corresponds to the code

A call changes the store (an action of `Store`), waits in `calls` for `p.mu`,
takes its snapshot (`BeginPersist`) and ends with the rename or an error
(`EndPersist`). `writing` is the set of snapshots on their way; the mutex is the
guard that it is empty. A poll persists only when it has something to say, and
answers even if the write failed. `Restart` is `load`.

### How `Migrate` corresponds to the code

`stage` says which binary runs. `Steps` are the steps of a boot in the order of
`MigrateJSONStateToSQLite`: look at the files, import into `<db>.tmp`, rename it into
place, rename the state file to `.migrated`, open the store. Each may fail, and
`CrashInBoot` may come before each; a failed boot starts from the first step again.
`Imported` is what `importStateToSQLite` makes of the state file. After the move the
actions are those of `SqliteStore`, and the clients keep their cursors, which both
backends take from `Backend`. `OnImport` has what can happen to imported rows; new sends
and registrations on SQLite are left to the SQLite runs.

### How `Streams` corresponds to the code

The handlers of `Store` are reduced to what they do to inboxes, channels and the
ring. `notify` is `inboxNotify`; a channel is a member of `Channels` that is reused
once nobody holds it, and `closed` are the closed ones still held. A poll takes its
channel (`BeginPoll`), reads (`ReadPoll`) and waits; `WakePoll` is the next pass of
the loop and `TimeoutPoll` its timer. `pollDurableInbox` releases the lock between
the first two, `pollInbox` does not, which is the case that nothing comes between.
A handler that publishes two events under one lock is two publications in a row here,
which lets observers see more than they can in the code. An observer is a client
and a connection: `ObserveSince` is one pass of its loop, `SendEvent` the write of
one event, `KeepAlive` its timer. Clients compare the epoch of the response header
and start over when it is new.

### How `Credentials` corresponds to the code

A registration goes through `handleRegisterAgent` one lock at a time: `CheckAllowed`,
`CheckProof`, `StoreAgent` (the runtime registry), `SaveAgent` (the row),
`SetAgentSecret` (its secret column) and `Answer` (the server's table and the
response). The number of a registration stands for what it sets. Either write may
fail, which ends it with an error, and `Crash` may come anywhere. A signature is the
key it was made with. `alone` and `last` are history: whether no other registration
of the agent has overlapped this one, and what the row must be, if anything can be
said. The backend is SQLite; `SetAgentSecret` of the JSON backend, which changes
memory before it writes, is not modelled.

A start has two steps, as in `main`: `Restart` is `NewServerFromEnv`, which reads the
allowlist file and the secrets (`main.go` 235), and `WatchAllowlistFile` adds the watch
(`main.go` 240) and does not read the file again; requests are served only after it.
`CredentialsInit` is the first start between the two. The watcher's events are
`changed`: with the watch in place `WriteFile` and `TouchFile` set it, a removal does
not, and `reloadAllowlist` reads whatever is there by then. What is written between
the two steps raises no event. `missed`, a history, says that the last write fell
there and nothing came after it.

### How `Namespaces` corresponds to the code

A name is the sequence of its labels. `ScopeOfName` to `agentCanAccessName` are
`scope.go`; `validateMapping`, `ParseManifest`, `InvertManifest` and `Allowlist` are
the manifest rules; `preflight`, `Accepts` and `applyPlan` are `Run` of the tool.
`applyPlan` renames all tables at once: the code goes through one mapping after the
other in a transaction, and since no target is a name of the database the order does
not matter. The bus fills the database through handlers reduced to the columns that
hold names, one call at a time. A message keeps its `request`, which tells an injection
(`Injected`, "inject-" and a time) from a message of an agent: injections have no
participants, no scope check and no receipt, so `ReferencesAgree` and `ScopesStayApart`
except them. Writes that overlap, such as the late conversation
write of `sqlite.go` 877-917, are the subject of `SqliteStore`.

### Mutations

Operators whose comment begins with "Mutation:" are not part of the model. Each
is a plausible slip in the definition that follows it, and `PROJECT.json` says
which property must fail when it takes that definition's place.

## 3. What the runs check

| Run | Properties | Question |
|---|---|---|
| `store_delivery` | `TypeOK`, `InboxOnce`, `OncePerWindow`, `DeadlinesSwept`, `ConversationKeepsMessages`, `SweepReleases`, `ImplementsLifecycle` | Do retries, late handlers, sweeps, pruning and agents that come and go keep windows (over all that was ever accepted), deadlines, inboxes, conversations and the lifecycle? |
| `memory_bus` | `BusTypeOK`, `ReclaimedWereReceived`, `EveryRequestEnds` | Is a cursor proof of receipt under limits, caps and lost responses, and does every request end without its recipient's help? |
| `sqlite_delivery` | `SqliteTypeOK`, `OnePushPerDelivery`, `ImplementsDelivery`, `CursorsAdvance` | Are pushing and polling at-least-once, with one job at a time, through full queues, lost receipts, crashes and shutdowns? |
| `sqlite_settles` | `EveryDeliverySettles`, `ShutdownEnds` | Is every delivery settled in the end, and does a shutdown end? |
| `sqlite_replies` | `TakenUpNotRedelivered`, `RetriesFindOriginal`, `MessageHasConversation` | Is work that was taken up left alone, does a retry find its original after a restart, and do late writes and pruning keep conversation rows? |
| `json_migrate` | `JsonTypeOK`, `AnsweredSendsAreKept`, `AnsweredAcksAreKept`, `CursorsOutliveFile`, `MigrationKeepsPending`, `MigrationRedeliversNothing` | Does what was answered survive concurrent rewrites, failed writes and crashes on the JSON file, and the move of the file to SQLite? |
| `streams` | `StreamsTypeOK`, `PollsAreWoken`, `ObserversAreWoken`, `ObservedInOrder`, `OnlyEvictionSkips`, `ObserversCatchUp` | Is no wake-up lost, and do observers get everything in order but what the ring has dropped? |
| `credentials` | `AnsweredIsInForce`, `OwnedKeepSecret`, `RotationIsProved`, `AllowlistFollows` | Is an answered registration in force with its secret, do secrets change only with proof, and does the allowlist follow its file, but for an edit between load and watch? |
| `namespaces` | `ReferencesAgree`, `NoIdentityMerged`, `ScopesStayApart`, `UndoRestores`, `StrictReady` | Does renaming keep the tables consistent and the scopes apart, can it be undone, and can the bus run in strict mode afterwards? |

All of these hold. Three runs state what a document or comment says and find that
the code does something else; `findings` in `PROJECT.json` quotes the lines.

| Run | What it shows |
|---|---|
| `sqlite_late_ack` | The ack of a request that a sweep has timed out succeeds without a commit; the delivery stays open. |
| `sqlite_counters` | `CreateConversation` can write back counters from before a concurrent send. |
| `sqlite_links` | After pruning and a restart a new conversation link can replace an older one. |

More behaviours of the code show in the models and limit what the properties say:

- An ack or event on the runtime copy of a message writes back a row that `pruneDB` had
  deleted, possibly without its conversation. `MessageHasConversation` therefore
  excepts rows whose own retention is over.
- A progress event on a request that is still queued is answered and leaves the request
  pending: it is delivered all the same. `AnsweredAcksAreKept` is not about such events.
- A message without a recipient uses up an id and has no delivery; `undirected` in
  `Delivery` are their ids.
- With `AgentRetention` on, an agent that is pruned and returns has its inbox
  numbered from 0 again, and its old cursor reclaims events it never got.
  `memory_bus` therefore runs with `AgentRetention` off.
- A delivery that expires before it is offered is skipped by one poll's cursor and
  marked received by the next. `Delivery` therefore lets an expired message become
  received without having arrived.
- The sweep's transitions to `error` are never written to the database.
- The sweep releases requests only, in the order of a Go map: a response or inform
  queued for an expired agent never enters the in-memory inbox.
- A key that has expired in memory but not in the database makes a send with that key
  fail until `pruneDB` has run (the row is a plain INSERT).
- A poll of the JSON backend whose write failed answers all the same, with a cursor
  that a crash can make wrong. `CursorsOutliveFile` and `MigrationKeepsPending` except
  the clients that got such an answer (`unwritten`).
- The import renumbers deliveries densely (`migrate.go` 190-233), so that a message
  behind one that is not imported may lie under a cursor its client already has; and
  a message queued for an agent in its grace period is in no inbox and gets no
  delivery row, although `docs/elephant-checks/WP2_DURABLE_DELIVERY.md` 69-70 wants
  still-pending deliveries to survive. `MigrationKeepsPending` is about the rest.
- Of two overlapping registrations of one agent, memory, row and secret may come from
  different ones. The properties of `Credentials` are about registrations that did
  not overlap.
- An allowlist file seen empty between truncation and write allows every agent until
  the next event. `AllowlistFollows` says what is in force in the end.
- An allowlist edit between the load of the file (`main.go` 235) and its watch
  (`main.go` 240) raises no event, and stays unseen until the file is touched or the
  process restarts, although `docs/BUS_STABILITY_SPEC.md` 72 says of an edit that the
  "bus picks it up automatically. No restart." `AllowlistFollows` excepts it (`missed`);
  without the exception TLC finds the write, then `WatchAllowlistFile`, then nothing.
- The import drops the receipts whose key does not split into three parts
  (`migrate.go` 249-254). Keys are triples in the model, so `AnsweredSendsAreKept`
  says nothing of an agent or request id that contains the separator.
- A long poll that outlives its agent's expiry is not woken for what was accepted in
  the meantime, unless a sweep releases it; it ends with its timer.
- The undo of a namespace run also takes back rows that had been applied before it;
  a manifest may have rows in both directions, so that a second run need not be a
  no-op; a conversation that an injection created is stored with `null` participants
  and makes the tool refuse the database; the `human:` senders of injections have to
  be in the manifest.

### Bounds

The instances of `Store` and its backends have one or two agents, one or two
messages (three in `sqlite_links`), two to five ticks, and timeouts of one to three
ticks, so that each timeout passes on its own and together with others. Two agents
are enough for the properties about pairs of messages and for one agent that expires
while another sends; the SQLite and JSON instances have one agent, which sends to
itself or gets injections, since the steps of a delivery do not depend on who sent
it. One crash or shutdown is enough for a loss between any two steps. `MaxInFlight`
is 2 in `sqlite_settles`, where two polls and two registrations overlap a shutdown,
and 1 elsewhere, which is one call that waits and one that writes, enough for either
to overtake the other. `sqlite_delivery` has two messages, a push queue of one and
one worker, so that the second job waits or is refused.
`sqlite_replies` sweeps memory every third tick only, so that `pruneDB` deletes rows
whose runtime copies can still be acknowledged. It has the constraint
`CreationsAndPollsApart`: polls and creations of conversations write no table in common,
and both overlap with sends, acks, events, pruning and crashes.
`MaxLag` is 1 in `store_delivery` and 0 elsewhere. `store_delivery` keeps a message for
one tick after its end and a request id for two, as the defaults keep them for one hour
and 24, so that a key is looked up inside its window when its message is gone; four
ticks are enough to accept it again after the window.

`streams` has two pollers that share a channel and may hold different ones, three
channels, a ring that holds two small events or one large one, three events and
one restart: enough for eviction behind a connected and a broken connection.
`credentials` has two agents, one of them in the control plane, two secrets and three
registrations, which is one that overlaps another and one after both. `namespaces`
has a bare name, its prefixed form, a name of the other scope, a control-plane agent
and a human, every manifest that parses among the subsets of nine rows for the bare
name and its prefixed form, and one message: renaming looks at each message on its
own, and at pairs only through names and sequence numbers.

`MaxTime`, `MaxMessages`, `MaxConversations`, `MaxInFlight`, `MaxCrashes`, `MaxLag`,
`MaxRows`, `MaxObserveID`, `MaxRestarts`, `MaxRegistrations` and `MaxEdits` are bounds
of the model; they appear in guards and do not change what an action does. Every run
checks for deadlock: where the clock or a counter has stopped, an agent can still
register, a client still poll or an operator still touch a file.

### Fairness

`FairBusSpec` assumes that the clock runs and that a sweep which is due happens:
`deploy/docker-compose.yml` has a health check every five seconds, and `Health`
sweeps. Nothing is assumed of senders and recipients. `FairSqliteSpec` assumes
that the clock runs, that `deliveryLoop` gets its turns (a ticker of one second)
and hands on what it claimed, that push jobs end (attempts and the HTTP client have
bounds), that a process told to stop goes on stopping, and that the container
restarts it. Nothing is assumed of polls, receipts that are written, or `pruneDB`.
`FairStreamsSpec` assumes that the goroutine of a connection runs: it reads, wakes
when its channel is closed, and writes. Its timer is not assumed, so that
`ObserversCatchUp` shows the wake-ups to be enough. `FairCredentialsSpec` assumes that
`main` goes on to the watch, that the watcher's goroutine runs, and that the container
restarts the process.

## 4. What is proved

Each theorem holds for every value of the constants that the named assumptions allow:
`ConfigAssumption` and `InputAssumption` of `Store` (which sets may be chosen from, and
that intervals are positive), `LimitsAssumption`, `BackendAssumption`,
`SqliteAssumption`, `StreamsAssumption`, `CredentialsAssumption` and
`NamespacesAssumption`. None of them bounds a set. TLC evaluates them on every run, and
TLC checked each inductive invariant before it was proved. `PROJECT.json` lists the
theorems with the properties they state.

### `Store` (`StoreProofs`)

- `TypeCorrect`: `TypeOK` is inductive. The lemmas say what each helper returns:
  trimming and appending keep an inbox an inbox, `SweptMessage` keeps a message a
  message, the order of released requests is a sequence of live ids.
- `Idempotent`, about `AcceptancesSpec`: `OncePerWindow` says nothing of the table that
  enforces it, so it is strengthened by `WindowCovered`: an acceptance that is young
  enough to matter has an entry for its key that is no older, whatever became of the
  message. A sweep drops an entry only if it is older than the window at the sweep's
  `now`, a send is refused on the entry alone, and a later send comes with a `now` at
  most `MaxLag` behind: this is where the bound loses `MaxLag`. `IdsGrow` orders the
  acceptances: ids of pruned messages are not issued again. Each step of
  `AcceptancesSpec` is one of `Spec`, so `TypeCorrect` applies.
- `DeadlinesKept`: `DeadlinesSwept`, strengthened by `QueuedHasGrace` (a queued message
  has a grace deadline, and its target was within grace when it was queued), without
  which a sweep might keep a queued request forever.
- `InboxOnceHolds`: `InboxesHold` adds that no event is about a message that is still
  queued or for another agent, and that every event's id has been issued. The first
  is why the release of a queued request cannot be a second copy, the second why a new
  message cannot be one.
- `ConversationKeepsMessagesHolds`: `ConversationsHold` adds that a conversation lists
  ids in the order in which they were issued, and that every message that is there is
  listed by its conversation.
- `SweepReleasesHolds`: an action property, from what one sweep does to each request.
- `ImplementsLifecycleHolds`: every step maps to a step of `MessageLifecycle` or to a
  stutter. It needs `QueuedPending`, that a queued message has not been offered yet.

Every proof about the messages goes through `StepKinds`, which sorts the steps into a
few kinds by what they do to messages, inboxes and conversations; the modules about the
backends use the same lemma for the steps of the store within theirs.

### `MemoryBus` (`MemoryBusProofs`)

- `BusTypeCorrect`: a client's cursor never exceeds the number of messages there may
  be. This is not visible in an inbox, whose base goes up with every reclaimed event; it
  needs `EndsCounted`: the end of an inbox, together with the requests that a sweep
  could still release into it, is at most the number of messages accepted.
- `ReclaimedWereReceivedHolds`: `BusSpec /\ NoAgentPruned => ReclaimedWereReceived`.
  `CursorsCovered` says that the inbox has come as far as every cursor, and what it
  still holds up to there has been received. Inboxes only grow (`Grows`: positions
  go up and one that was taken keeps its event), so a covered cursor stays covered,
  except when `pruneLocked` deletes an inbox with its base. That case is a real
  exception (section 3), and the hypothesis excludes only it.
- `ReclaimedWithoutRetention`: with `AgentRetention = 0` nothing is left of the
  hypothesis.

### `JsonStore` (`JsonProofs`)

- `JsonTypeCorrect`, `AnsweredSendsAreKeptHolds`, `AnsweredAcksAreKeptHolds`, from
  `JsonInv`. The properties speak of the file or of the runtime state alone. Inductive
  is that three states honour what was answered, the file, the snapshot being written
  and the runtime state, and that the last two honour what calls on their way are going
  to answer: a call waits with its change in memory (`Promised`), the snapshot taken
  under `p.mu` has it, and the file has it before the answer goes out. `Later` compares
  the states in that order, so an older snapshot never overwrites a newer one. `JsonInv`
  also says of each of the three that a process could go on from it (`Sound`).
- `CursorsOutliveFileHolds`: `JsonSpec /\ NothingPruned => CursorsOutliveFile`.
  `CursorInv` says of file, snapshot and runtime state that they honour every cursor of
  every client that is not in `unwritten`, and of runtime state and snapshot that they
  honour the cursors of answers on their way. Some cursors are answered without a write,
  when a poll finds nothing and reclaims nothing. Such a cursor is the base of an empty
  inbox, and `Drained` says that the client had one no lower: inboxes are emptied by
  polls only. `CursorsOutliveWithoutRetention` is the case `AgentRetention = 0`.

### `SqliteStore` (`SqliteProofs`)

`SqliteSpec` has a weaker type invariant than `SqliteTypeOK` (`Types`, `JobsType`: its
numbers are natural numbers without the bounds). `SqliteTypeOK` itself is not an
invariant for all constants: `CreateConversation` can put the message counter back (run
`sqlite_counters`), after which a restart hands out ids, and with them sequence
numbers, that are taken.

- `TakenUpNotRedeliveredHolds` is inductive together with the types.
- `RetriesFindOriginalHolds`: likewise, since both tables drop a key by the same window
  and a restart loads the durable one.
- `MessageHasConversationHolds`: `Kept` says it of a row's own retention; `Covers`
  adds that a runtime copy is what became of its row, and that a copy without a row is
  itself out of retention, so that an ack which writes it back restores nothing to keep.
- `CursorsAdvanceHolds`: from `CursorsInOrder`, a cursor row lies at or below the next
  number and every delivery below it is settled.

Under the hypothesis `CountersNeverGoBack`, that no step commits a message counter older
than the committed one (without it neither holds, by the finding above; the creation of
conversations and the late commit of their counters are otherwise unrestricted):

- `OnePushPerDeliveryHolds`: `PushQueue` says that a delivery is claimed, or has one
  job, or neither, and `Numbers` that a new message has a new id.
- `ImplementsDeliveryHolds`: every step maps to a step of `Delivery` or to a stutter.
  `Returned` carries the polls: everything below a cursor that a client has, or that a
  response is bringing, has arrived or is past its deadline, so the poll that brings
  the cursor may settle it. `Numbering` has sequence numbers used once per inbox.

### `Migrate` (`MigrateProofs`)

For every state file the JSON backend can leave, and any number of boots that fail or
crash at any step:

- `AnsweredSendsOutliveMove` (`AnsweredSendsAreKept`), `AnsweredAcksOutliveMove`
  (`AnsweredAcksAreKept`) and `MigrationRedeliversNothingHolds`.
- `MigrationKeepsPendingHolds`: `MigrateSpec /\ NothingPrunedBefore =>
  []MigrationKeepsPending`. The hypothesis is that of `CursorsOutliveFileHolds`, while
  the JSON binary runs. `PendingOutlivesWithoutRetention` is the case
  `AgentRetention = 0`, where it is not needed.

`MigrateInv` holds `JsonInv` while the JSON binary runs. From then on the state file
stays what `JsonInv` has made it (`FileKept`), and `TablesKept` says of the database what
the theorems about `SqliteStore` need, and that every receipt which the JSON backend gave
is found in it once there is one. `Boots` ties the step of a boot to the files: there is
no database before the installing step, and one when the state file is gone or the next
step is to open. That is what rules out an empty database over a waiting state file, which
`NewSQLiteStore` would create.

Every step after the installation is a step of `SqliteStore` (`OpenStep`, `WaitStep`,
`OnImportStep`), so its lemmas apply; `KeysStay` adds that no step drops a durable key of
the window. `InstalledTables` starts them off: `Imported` of a sound state file is well
typed, and `ImportedRows` finds a delivery row only for what was not taken up.

`WaitInv` is what `MigrationKeepsPending` needs besides: `CursorInv` while the JSON binary
runs, then that the state file honours the cursors that clients have (`FileWaits`), and
once the database is in place that its rows do (`RowsWait`). The step from one to the
other is the import: an inbox whose events are all to be delivered keeps its numbers
(`WholeInbox`: the k-th event gets base + k - 1, as a poll of the JSON backend counted
it), so what lies below a cursor has arrived (`ImportKeeps`), and no two rows of any
inbox share a number (`ImportOrders`, from `OffsetOrder`). From then on a row that is due
stays open until its recipient has the message (`WaitsOn`), and `CursorsInOrder` puts no
open row below the acknowledged cursor. Polls of the inboxes that the property excepts
may settle what has not arrived; `Got` sets their rows aside, and `Trusted` is the rest.

### `Streams` (`StreamsProofs`)

For every number of agents, pollers, observers, channels, restarts and every size of the
ring; `StreamsAssumption` asks for one agent at least.

- `StreamsTypeOKHolds`.
- `PollsAreWokenHolds`: `PollChannels` adds that the channel of an agent is open and
  its own, so that an append closes it and nobody else's, and that a new channel is
  nobody's.
- `ObserversAreWokenHolds`, `ObservedInOrderHolds`, `OnlyEvictionSkipsHolds`: `ObserveInv`
  follows a client through its phases. What an observer has seen says nothing of the
  client of a broken connection nor of a batch that is half sent; `Resumable` says that
  nothing below a client's last id is missing, `Reading` that the connection's cursor
  passes nothing the client lacks, and `Sending` that the rest of a batch comes after
  all the client has and closes the gap up to the batch's last event.

### `Credentials` (`CredentialsProofs`)

- `CredentialsTypeCorrect`, `SecretsKept` (`OwnedKeepSecret`), `AnswersKept`
  (`AnsweredIsInForce`) and `RotationProved` (`RotationIsProved`).

The inductive invariant `RegistrationInv` says how far each registration has come.
`AnsweredIsInForce` alone says nothing of the steps before the answer, so
`AloneInStep` follows a registration that is alone through registry, row, secret and
proof; `AloneIsOnly` makes sure that nobody else moves the row meanwhile;
`StoredIsDisputed` drops the earlier answer as soon as the registry has a new
registration; `KeptHasSecret` carries the secret over overlapping registrations,
where `AloneInStep` has nothing to say; `LastHasSecret` and `NothingWhileDown` make
restarts harmless.

### `Namespaces` (`NamespacesProofs`)

For every set of names, grants, manifests and conversations, and any number of messages;
`NamespacesAssumption` asks that control-plane names have one label and that manifests
are sets of rows.

- `TablesAgree` (`ReferencesAgree`), `ApartForever` (`ScopesStayApart`), `NothingMerged`
  (`NoIdentityMerged`), `RunsCanBeUndone` (`UndoRestores`) and `ReadyForStrict`
  (`StrictReady`).

The inductive invariant `NamespacesInv` has two parts. `Sound` says of the database what
every handler and every pruning step keeps: its tables have rows (`Tables`) and finitely
many names, they agree (`Agreement`, which adds to `ReferencesAgree` that every delivery
lies below the cursor of its target and that an agent's message has a conversation), and
no message joins the closed scopes (`Apart`). `Followed` says of the last run, until the
next write, that the manifest parsed, was accepted, and that the database is what
`applyPlan` made of the one before.

What a run does is derived once, for any function that is one-to-one on the identities
of the database (`Renames`). `ApplyPlanRenames` turns `applyPlan` into `Renamed`, column
by column, and from that come `RenamedTables`, `RenamedAgreement`, `RenamedIdentities`
and `RoundTrip`. `RenamingRenames` shows that the renaming of a manifest is such a
function: `ParseManifest` uses no target twice, and the preflight finds no target among
the names in use. `AppliedApart` is where the preflight's look at conversations is
needed: the sender and the target of an agent's message are among the participants of
its conversation, so a conversation that does not mix has no message that does.

Going back, `InverseActive` shows that the rows the inverse takes back are those that
the run carried out, for which `AlreadyApplied = {}` is needed, and that what it restores
is not in use. That the inverse passes the preflight also needs `Forward`: a name that
had a scope before the run has kept it, so conversations mix no more than they did after
the run. `ForwardNames` gives each name of a forward run its scope in strict mode.

### Only model-checked

- Liveness (`EveryRequestEnds`, `EveryDeliverySettles`, `ShutdownEnds`,
  `ObserversCatchUp`, `AllowlistFollows`), which is out of the prover's reach.
- `SqliteTypeOK`, which is no invariant for all constants (above).

## 5. Not modelled

- HTTP handlers other than registration and the event stream: they verify one
  signature and call the store. Tokens, formatting and parsing.
- Agent secrets on the JSON backend.
- Sub-second time: the database compares times as strings, which agrees with the
  order of times for whole ticks.
- The backfill of databases from before `deliveries` (`sqlite_delivery.go` 35-192) and
  schema changes; compaction, which is SQLite's own.
- The Go client SDK, which keeps no state; what clients do with cursors is in the
  models of the backends.
- The comparison of two databases and the synthetic fixture of the namespace tool,
  which are test tools.
- The wiring in `cmd/*`, except the choice of backend and of namespace mode.

## 6. Plan

`Store` with its lifecycle came first, because everything else rests on it, then the
two backends, then the parts around them: `Streams`, `Credentials`, `Migrate` and
`Namespaces`, then the proofs in the same order. What is left is the backfill of older
databases and the secrets on the JSON backend.
