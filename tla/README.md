# Verification of qq-maid-bot

This directory is the TLA+ side of qq-maid-bot: modules that model the parts of
the bot where order, failure and restarts decide what the user gets, the
configurations that check them with TLC, and proofs checked by TLAPS.
Source paths below are relative to the root of the repository; `core` is
`qq-maid-core/src`, `gateway` is `qq-maid-gateway-rs/src/gateway`.

    tlc -workers 2 -config MCOutboxRows.cfg MCNotificationOutbox.tla
    tlapm NotificationOutboxProofs.tla

The other modules whose name ends in `Proofs` are checked the same way.

`PROJECT.json` lists the runs with their properties, for every property a
mutation of the model that breaks it (the operators marked "Mutant" or named
after the mistake in the modules), and for every definition the lines of code
it stands for.

## The system and its parts

One process holds the gateway, which talks to the chat platforms, and the core,
which answers. A private QQ message takes this way:

    WebSocket loop -> aggregator -> dispatcher -> worker of the scope -> core
                         |              |
                      dedupe         reject notices

and a OneBot message this one:

    WebSocket loop -> OneBot scope dispatcher (with dedupe) -> worker -> core

In the core the worker, or the task that the WeChat service account starts for
every callback, takes a turn of the conversation's session:

    session row -> pending operation or command, or else
                -> agent loop -> route over model candidates -> gate -> model
                       |
                     tools (todos, RSS, search, ...)
    session row <- exchange, claim, compaction, title

What the bot says unasked (a reminder, an RSS item, the end of an operation)
takes another:

    producer -> outbox table -> notification worker -> push sink -> platform
                     ^                  |
                     +---- sent hook <--+     (a recurring todo moves on)

| Component | State | Operations | What is hard | What makes it correct |
|---|---|---|---|---|
| Notification outbox (`core/storage/notification.rs`, `core/runtime/notification.rs`) | the table; the batch and the task of each worker in memory | upsert, insert_if_absent, cancel_by_source(_type), claim_due, delivery_state, mark_part_delivered, mark_sent, mark_failed, the hook | leases that expire under a live worker, crashes at any step, a push whose recording fails, a changed payload | sent means received; sent is final; the hook runs once; every row ends |
| Todo reminders (`core/runtime/tools/todo`) | a todo row and the outbox rows of its reminder | create, edit, merge, complete, skip, restore, delete; the same from the management API; the hook | two stores written by separate calls, on two paths, by several writers; one path that forgets the second store | the queued row is the todo's reminder, and only that |
| Conversation dispatcher (`gateway/dispatcher`) | the actor's table of scopes, the command channel, the workers' queues, slots | enqueue, idle expiry, dequeue and exit reports, rejection, shutdown | idle timeout against arrival, slots released before exits are reported, bounded channels in both directions, panics | per scope first in first out, one at a time, at most once; no caller waits for ever |
| OneBot scope dispatcher (`gateway/onebot11/scope_dispatcher.rs`) | a map of workers under a mutex, the dedupe table | enqueue, a worker's loop, shutdown with abort | the same without an actor; duplicates that overlap | the same promise; the map and the workers agree |
| Deduplication (`gateway/dedupe.rs`) | keys reserved or committed | reserve_many, commit, rollback, expiry | a reservation that outlives its message | a message once, or again if it was refused |
| Message aggregator (`gateway/aggregator`) | open batches, barriers, timers | a private message, a timer, a barrier's end, shutdown | awaits in the middle of a command, timers of earlier batches, flushes that fail, two notions of a duplicate | in order, within limits, never stuck in a batch |
| Agent turn (`qq-maid-llm/src/agent_loop`, `provider`, `core/service/streaming.rs`) | the candidate, the round, the caches of its tool executor, what was shown, the deadline | a status, a model request, a tool batch, a fallback, a cancellation, a timeout, a panic | when to fall back, what may run after the end, what is known of a write that was cut off | no write under two candidates, no text twice, every unknown result told, a write cut short only where it must be, the turn ends |
| RSS (`core/runtime/tools/rss`) | subscriptions, the entries seen and waiting | a scan: fetch, compare, keep, ask, mark; subscribe, unsubscribe | a crash between the request and the mark, a table trimmed while the feed still offers the entry, a deletion during a scan | every new entry is announced, none is passed over, the table is bounded |
| Sessions and pending operations (`core/storage/session`, `core/runtime/respond`, `core/runtime/pending`) | the session row, copied by every request | chat, commands, confirm, cancel, answer a question, compact, title | a copy read before an await and written back after it, crashes between claim and deed, a deed done and its tool failed, overlapping requests | a confirmed operation runs once, no exchange is lost, nothing blocks for ever |
| Configuration centre (`core/config/center`) | three files, encrypted secrets, a master key | start, save, import, edit by hand | two processes without a common lock, saves that must fit together, two comparisons before a rename | secrets readable, the saved configuration starts, nothing unseen replaced |
| QQ session (`gateway/protocol.rs`, `gateway/mod.rs`) | session id, sequence number | hello, identify, resume, heartbeat, reconnect | what a resume repeats or loses | not modelled |
| Memory, management authentication (`core/runtime/tools/memory`, `core/management`) | tables | a consolidation; log in | a stale proposal; an expiry against a use | not modelled |

The rest (ingress parsing, OneBot and WeChat connections, stream delivery,
caches, formatting, HTTP routes, tools that answer from a table or a remote
service, the command line) is listed in `PROJECT.json` with the reason each is
left out: it is text, plain input and output, or a protocol with a server this
repository does not hold.

The hazards of this code, each at its line and with the properties that would
catch it going wrong, are in `PROJECT.json` under `hazards`.

## The modules

| Module | Stands for | Is |
|---|---|---|
| `NotificationPromise` | nothing in the code: what producers and the hook may rely on | abstract specification |
| `NotificationOutbox` | the store and its workers | implements `NotificationPromise` |
| `TodoReminder` | the todos and their reminders | composed with `NotificationPromise` |
| `SerialMailbox` | nothing in the code: what the gateway promises for a scope's messages | abstract specification |
| `Dispatcher` | the actor, its workers, its callers | implements `SerialMailbox` |
| `MessageDedupe` | the dedupe table | a part used by the next two |
| `OneBotDispatcher` | the mutex, the workers, the shutdown | uses `MessageDedupe`, implements `SerialMailbox` |
| `MessageAggregator` | the aggregator's actor | uses `MessageDedupe` and, as the dispatcher, `SerialMailbox` |
| `AgentTurn` | agent loop, tool executor, route, gate, the task of the core service | one machine, since a fault of one layer is handled in another |
| `SessionTurns` | the session row and the requests on it | relies on `SerialMailbox` where messages queue |
| `RssScheduler` | one subscription and its scan | relies on the outbox's keys |
| `ConfigCenter` | the files, the secrets, the key, two processes | |
| `NotificationOutboxProofs`, `DispatcherProofs`, `OneBotDispatcherProofs`, `MessageAggregatorProofs`, `AgentTurnProofs`, `SessionTurnsProofs`, `ConfigCenterProofs` | | theorems about the module each is named after |
| `ProducerProofs` | | theorems about the two producers of notifications with a table of their own, `RssScheduler` and `TodoReminder` (whose `ReminderSpec`, `ReminderInit`, ... are named so that one module can extend both) |

The abstract specifications carry the composition. `TodoReminder` does not
repeat leases and retries: its outbox is the promise that `NotificationOutbox`
is shown, and proved, to keep. `MessageAggregator` hands its turns to the
mailbox that `Dispatcher` is shown, and proved, to implement; `SessionTurns` in mode "queue"
takes one request after the other because that mailbox does. `RssScheduler`
reduces the outbox to the set of keys asked for, as `NotificationPromise` allows:
a key once accepted is never a second notification.

Each `MC...` module gives the constants of its component's instances.

### NotificationOutbox

`row` is the table, one row for each dedupe key (the column is unique).
`batch` and `job` are what a worker has in memory, `pc` where it is in
`run_once` and `deliver`. `received` (what the platform took) and `hooked` are
history. Every statement or transaction is one action, so that anything may
come between two of them: `ClaimDue` is the claiming transaction, `CheckLease`
is `delivery_state` before each part, `Push` the call to the platform with its
three outcomes (taken; taken, but the call fails; not taken),
`MarkPartDelivered`, `MarkSent`, `ReadAttempts` and `MarkFailed` the updates
that ask for the lease. `DatabaseError` covers both places an error may leave a
worker: one while checking or recording fails the task, one while finishing
ends the round. `Crash` forgets a worker's memory; a restart has another id and
is another worker.

Time is relative: `wait` ticks until a row is due, `age` ticks since it was
claimed. The content of a row (target, channel and payload) is one value with a
number of parts; 0 parts is a payload `validated_parts` refuses.

### TodoReminder

`todo` is the table, `op` where each conversation and the hook is between its calls,
and `phase`, `got`, `ran` the outbox as `NotificationPromise` has it. On the chat
path and in the hook the todo transaction (`Wrote`) is followed by `Prepare`,
`CancelRows` and `UpsertRow`, each a step of its own as in `sync_reminder_task`; the
management API and the group delete write everything in one (`WroteBoth`). A chat
edit reads the todo in one step and writes a whole draft in another. A merge is such
an edit of its target (`MergeRead`, `EditWrite` and the synchronisation, `merging`
naming the source) and then the delete of the source, which writes the todo and
calls the outbox for nothing (`DeleteSource`); the status "merged" tells a source so
deleted from what a confirmed delete leaves. Time is a number of slots and a
recurrence adds `Period` of them; `calm` marks a todo whose last writer met no
other.

### Dispatcher

`entry` is the actor's table, `worker` the worker tasks by generation, with their
receivers, `channel` the one bounded command channel callers and workers share. A
worker that has been idle asks the actor (`AskToRetire`), which marks the scope
retiring and from then on keeps messages in its backlog until the exit is reported
(`Succeed`, `EvictBacklog`, `ForgetScope`). A task's slot is free at `ReleaseSlot`,
before `ReportExited`: that order is the code's, and its price is that a message
accepted into the backlog of a retiring scope may be evicted when another scope
takes the slot first; `LossHasCause` counts it as a cause. Reject notices have a
bounded channel and, for groups, a cooldown.

### OneBotDispatcher and MessageDedupe

An action is what one task does between two points where another may run: a
lock, an await, a cancelled token. `Reserve` and `EnqueueLocked` are the two
halves of `enqueue`; a reservation that is dropped rolls back. `RetireOrTake` is
the second look at the receiver, under the lock, after the idle timeout. A
worker that panicked or was cancelled is in stage `leaving` with its receiver
open until `Leave`. `shutdown` is the sequence `StopAccepting`, `Cancel`,
`WaitTimeout`, `Aborted`, `ClearScopes`.

### MessageAggregator

`busy` says at which await the actor is: `decide` after the classification,
`flush` while a batch is handed on before the message in hand, `barrier` and
`plain` while the message itself is, `hold` before the append, `seal` while a
batch that reached a limit or a deadline is handed on. `barrier` holds the
commands handed on and not known to be processed, `acks` those whose task has
ended and that the actor has not yet joined; they may be joined in any order.
`timers` are the sleeping tasks; a timer keeps the generation it was started
with, and generations begin anew with each batch. What the core answers to the
classification is nondeterministic. A message has dedupe keys (`KeysOf`) and ids
(`IdsOf`): the keys of a part of a message hold its index, its ids do not. The
open batch is asked for the ids, so `Aggregate` may give up a message whose keys
were new, without a word (`Overlook`, fate "repeated").

### AgentTurn

`pc` is where the task of the turn stands: waiting for the gate, in a model request,
between the calls of a tool batch, ended. `cand` is the candidate of the route,
`loop` the round and what it may still do, `exec` the tool executor, which is made
anew for every candidate, `batch` the calls left of one answer. `clock` is how much
of the request's budget is left, in the four classes the code tells apart. `outer`
is the task in the core that watches the deadline and, when a write is running,
grants it a grace before the abort; `report` is what it tells the reader. A turn's
task ends by itself ("ok", "failed"), is aborted, panics (`Panic`; its report is an
internal error without a look at the writes) or is dropped with whatever it does: a
request whose words promise a tool gets a status before it begins and another a
while later (`eager`), and if the reader has left by the second, `SendRunningStatus`
ends the turn where it stands. `shown` and `ran` are history: the rounds whose text
was seen, and every write with what became of it. A tool stands for a call of it
with one set of arguments; the model, the tools and the reader may do anything at
any time.

The executor and its counts are per candidate. A tool with a limit of calls per
request (`max_calls_per_request`) may therefore run once more under the next
candidate; no property here says otherwise.

### RssScheduler

`row` is what is stored of each entry and `seen` the entries already dealt with,
oldest first, which is the order in which `TrimTo` forgets them. `scan` is
`process_subscription`: `Check` fetches and stores, `LoadPending` selects,
`AskNotification` writes to the outbox, `MarkPushed` marks; a crash or an error
may come between any two. A subscription deleted in between ends the scan where
the code's foreign keys and conditions end it. `known` and `past` are history.

### SessionTurns

`row` is the session in the database, `turns` the requests with their copies of
it. Every read and every write of the store is one action; between them stand
the model, the tools and the other requests. `mode` is how the gateway hands
messages on: "queue" (QQ, OneBot) or "spawn" (WeChat). A pending operation is a
deletion, claimed (`Claim`), carried out (`RunDelete`) and recorded, or a
question whose answer a tool takes (`AnswerTool`). In answering, the model may call
a tool again after every result (`StartTool` from "Tooled"), also after one that
did what was asked and then failed at the reminder, before the question was
cleared (`ClearQuestion`). `ran` counts the deletions carried out and the questions
closed by the tool that did what their answer meant. Commands come before or after
what is pending: `Instant` ones look past it (`Late`), whether they forget the
history ("Clear"), write their exchange ("Note": the fortune, /set, /unset) or
nothing ("Look": /state, /help, /list, /ops, dice, an unknown command); the others
are answers to it. `CompactIfCurrent` and
`TitleArrives` are the two writes that look whether the row is still the one they
were made for. `TimesOut` is the deadline of the core, `Crash` the process.

### ConfigCenter

`file` is what each file holds, `secret` the row of the one secret with the key
it was encrypted with, `key` the master key, `proc` how far the bot and the import
have started, `task` every save under way. A save of a file goes through
`Examine` (revision and validity, under the mutex of its process), `LookAgain`
(the second comparison), `Replace` (the rename) and `Sync`; a save of the secret
is one transaction (`SaveSecret`). What makes a combination valid is the constant
`Startable`, with its two parts that hold in the set-up as well (`Connected`,
`Enabled`). `foreign` is history: someone else has written since the bot read its
configuration; `late`: a save was overtaken between its second comparison and its
rename, the window that docs/development/config-center.md:21 admits.
A crash between the creation of the default agent.toml and its content
(`WriteDefault`, `core/config/agent/mod.rs:69`) leaves an empty file that the next
start takes for the user's: the bot then offers the set-up, which cannot write
agent.toml. Nothing in the repository says it should recover, and no property asks.

## What the runs check

Passing runs:

| Run | Instance | Shows |
|---|---|---|
| `outbox` | two keys of one source, payloads of two parts and of none, 2 workers, 2 requests, a fault | `SentMeansReceived`, `PushesTheRow`, that the outbox keeps `NotificationPromise`; `LeasesAreSound`: attempts stay bounded unless leases expire, no early return forgets a task; `EveryRowSettles` |
| `reminder_sync` | two todos that may be merged, two conversations, management API, hook, 3 requests, a fault | `SyncIsSound`: a writer that no other overlaps repairs whatever it finds and leaves the other todo alone, and only the source of a merge keeps a task it should not; `OnlyEditsRevive` |
| `dispatcher_scopes` | four messages, two scopes for one slot, queues of two, a command channel of two, a panic, a shutdown | implements `SerialMailbox`; `TableIsSound` (the count of queued messages is exact, a loss has a cause), `EveryCallReturns`, `EveryMessageSettles` |
| `onebot_scopes` | four deliveries, two of them of one message, two scopes for one slot, a panic, an expiry, a shutdown | implements `SerialMailbox`; `WorkersAreSound` (an entry has its receiver, a loss has a cause, a shutdown is final), `OnceOrAgain`, `EveryMessageSettles`, `ShutdownEnds` |
| `aggregator` | four messages of two users, two of them parts of one message, two with one key, one a cancellation, that fill, overflow or fit a batch; room for one batch | `BatchesAreSound` (barrier and batch exclude each other, an open batch has its timer, the limits hold), `KeysFollowMessages`, `NothingIsLeft` (a running aggregator passes over a message only for one with its id in the batch, and a stopped one leaves none in a batch), `HandsOnInOrder`, `EveryMessageSettles` |
| `agent_turn` | two candidates, two rounds, batches of two calls, with early statuses or without; a search of limited use, a write | `WritesStayWithTheirCandidate`, `ReaderIsToldTruly`, `ExecutorIsSound`, `NothingStartsAfterTheEnd`, `WritesGetTheirGrace` (a write is cut short by the end of the grace, by a panic, or by the second status to a reader who has left, and by nothing else), `TurnEnds` |
| `rss` | three entries, two changes of the feed, retention and push limit of one, two subscriptions, a fault | `TableIsSound`, `SeenIsSound`, `PendingIsKept`, `EveryEntryIsAsked` |
| `session_turns` | four requests in turn with two operations and a fault, or three at once with one operation; a history compacted as soon as it holds an exchange | `NothingIsLeftRunning`, `ConfirmedRunsOnce` (confirmed deletions, and questions once closed), `HistoryIsKept`, `ExpiredIsDropped`, `LateWritesTakeNothing` |
| `config_center` | two requests at once, an import, two starts, crashes, an edit or a lost key | `SecretsAreReadable`, `StartsAgain`, `NothingUnseenIsReplaced` |

Each module's type invariant is checked too, by itself for the outbox and as a
conjunct elsewhere (`SyncIsSound`, `TableIsSound`, `WorkersAreSound`,
`BatchesAreSound`, `ExecutorIsSound`, `NothingIsLeftRunning`,
`SecretsAreReadable`).

Where a property of `SessionTurns` says `mode = "queue"`, it is about the
gateways whose dispatcher keeps the messages of a conversation apart; on WeChat it
does not hold, and `session_claim` shows one instance of that. What holds there
too is said of the automatic compaction alone, which compares before it writes.

Runs that find a statement of the repository violated:

| Run | Statement | What happens |
|---|---|---|
| `reminder_follow` | changing a reminder cancels the old one and queues the new one; completing or deleting cancels it (docs/development/management-api.md:269-270) | a conversation has written its todo and not yet its task; the management API sets a reminder in between; the conversation then cancels it |
| `rss_history` | the first subscription marks what is there as read and pushes no past articles (respond/help.rs:97) | the feed offers more entries than the retention keeps; those forgotten are new to the next scan |
| `session_claim` | of concurrent or repeated confirmations only one gets the right to execute (storage/session/mod.rs:205) | a request that read the session before the confirmation appends its exchange after it, and with it the operation as it was |

`reminder_sync` keeps its reader honest about the first: it says what does
hold of the same code, `SyncHeals` that a lone writer heals whatever such a race
left, `OnlyEditsRevive` that of all writers only a chat edit brings a delivered
reminder back.

### Known departures

Some of what the documents say is not so, and no run is needed to see it: the model
does what the code does, and the property nearest to the statement names the
exception instead of hiding it.

- A merge deletes its source with `delete_pending_by_ids` and cancels nothing
  (`core/runtime/tools/todo/merge.rs:245`), while completing or deleting a todo is
  said to cancel its old reminder (docs/development/management-api.md:270) and a
  state that lapses to call `cancel_by_source` (qq-maid-core/README.md:93): the task
  of the source stays queued. `DeleteSource` does so; `SyncHeals` leaves out the
  status "merged", and nothing else.
- Two parts of one message have dedupe keys of their own, since an index, where
  there is one, belongs to the key (`gateway/dedupe.rs:236`), but the open batch
  compares bare ids (`gateway/aggregator/actor.rs:272`): the second part is dropped,
  its reservation rolled back, and its user not told. `Overlook` does so;
  `NothingIsLeft` allows this silence, for a common id only.
- A tool call that has started is said to be allowed its real result when the turn
  is cancelled (docs/DEVELOPMENT.md:213). The second early status, sent beside the
  turn, fails when the reader has left and takes the turn down with the write in it
  (`core/service/streaming.rs:418`). `SendRunningStatus` does so;
  `WritesGetTheirGrace` lists it beside the grace and a panic.
- A panic of the turn is reported as an internal error, without the list of writes
  whose result nobody knows (`core/service/streaming.rs:118-125`).
  `ReaderIsToldTruly` says that no other end is silent about them.
- Asking again after an answer is said to have no side effect
  (`core/runtime/tools/todo/flow/pending.rs:498`). A tool that completed a recurring
  todo and failed at its reminder returns before it clears the question (`complete.rs:128`),
  which is then asked again, and the next answer, or another call of the same
  answer, does the deed once more. `AnswerTool` and `ClearQuestion` do so;
  `ConfirmedRunsOnce` speaks of confirmed deletions and of questions once closed.
- /compact (`core/runtime/respond/session_flow.rs:291-340`) and direct answers write
  back the session they copied before the model was asked, without comparing. Where
  requests overlap they may undo what was stored meanwhile. The repository claims
  nothing else; `AutoCompactionLosesNothing` is about the compaction that compares.

### Bounds

Every bound is a constant: `MaxRequests`, `MaxFaults`, `MaxLate` (outbox), `MaxNow`,
`MaxSlot`, `MaxOps`, `MaxFailures` (reminders), `MaxPanics`, `MaxExpiries`,
`BatchMax` (agent), `MaxRev`, `MaxTime`, `MaxEdits`, `MaxSubs`, `MaxFaults` (RSS),
`Turns`, `Spawned`, `MaxActs`, `SpawnedActs`, `SpawnedExpired`, `MaxFaults`,
`SpawnedFaults` (sessions), `MaxSaves`, `MaxStarts`, `MaxForeign` (configuration).
The messages of the gateway's modules are finitely many, and generations are bounded
by them, since every worker is started with a message.

- Outbox. Interference needs two workers and one row; a third worker adds
  only another late one. Two parts are the least with a progress between
  nothing and all. Two requests replace a payload once; two rows, so that one
  waits in a batch while the other is delivered. The batch limit does not
  bind there; the theorems hold for any limit, any number of rows and workers.
- Reminders. Every operation but a merge touches one todo, and
  `sync_reminder_task` only its rows. Two conversations, the management API and the
  hook are all the kinds of writers, with two of the kind that is not atomic. Three
  requests make two todos and merge them, or race twice over one. Four slots and a
  clock that ticks once give a recurring todo a reminder that is overdue, one that
  is due and two to come.
- Dispatcher. One slot for two scopes makes every start of a worker contend;
  two messages may wait in a queue or a backlog behind one in hand, so an order
  can be wrong. A command channel of two fills up with a caller and a report.
- OneBot. As the dispatcher; two deliveries of one message make the dedupe act.
- Aggregator. A batch needs two messages to have an order and a third to be
  overtaken, overflow or find the barrier of an earlier one. `Quiet` is shorter
  than `MaxWait`, so the quiet deadline can be put off and the hard one reached. Room
  for one batch makes the second user's be refused.
- Agent. A fallback needs a second candidate; a second round is the first in
  which something has run before. A batch of two calls has a call whose
  predecessor failed, was refused or wrote.
- RSS. A retention and a limit of one make every scan forget and select; three
  entries leave one waiting behind one pushed and one forgotten. Two
  subscriptions are one and its successor during a scan.
- Sessions. Where messages queue, the fourth request sees what three have left; two
  operations are one and the next. A history of one exchange is long already, so a
  compaction fires while others are under way: where requests overlap, three are an
  exchange to compact, the request that does and one that overtakes it. Nothing
  claimed there depends on a second operation, an expiry or a fault, so these are
  left to the queued mode.
- Configuration. Two requests compete, the import and the hand compete with
  them; a second start follows a crash, a lost key or a save. One value of each
  file conflicts with one of another, which is all a combination can do.

Symmetry is used for safety only: conversations, and the requests of the console.
Runs with a liveness
property use none. Deadlock is checked in the outbox, whose clock never stops;
elsewhere the finite supply of messages or requests lets the system stop for
good, and the configurations say so.

### Fairness

Weak fairness only, of what a scheduler or a timeout in the code guarantees: a
spawned task that can go on does (worker tasks, the two actors, a call of
`enqueue`, `shutdown` once begun), a call to the platform or to the core returns
since its HTTP client has a timeout, time passes, a sleeping timer wakes, the
scheduler of RSS starts a scan. Strong fairness is assumed once: a feed that can be
fetched again and again is fetched in the end (`Check`), without which nothing it
offers could be promised.
In `AgentTurn` less is assumed: time passes and the watching task runs, nothing of
the turn's own task, the model, the tools or the gate. `SessionTurns` and
`ConfigCenter` have safety properties only and no fairness.
Nothing is assumed of users, producers or a shutdown, and no fairness makes a
push succeed, a fault end or a message arrive. `EveryRowSettles` uses that a
last worker survives: the process is started again after a crash.

## What is proved

`NotificationOutboxProofs` proves for any keys, workers, payloads, limits and
bounds, from `OutboxAssumption` only (types of the constants; at least one
source and one content; `None` is no worker and no task):

- `TypeCorrect`: `TypeOK`, with the fact that exactly the rows in "sending"
  name a lease holder;
- `SentIsReceived`, `HookRunsOnce`: `SentMeansReceived` and `HookOnce`;
- `SentStaysSent`, `PushFollowsRow`: the action properties `SentIsFinal` and
  `PushesTheRow`; `HookOnce` and `SentIsFinal` have no run of their own, since
  `KeepsPromise` implies them;
- `OutboxKeepsPromise`: every behaviour of the outbox is one of
  `NotificationPromise`.

None of these is inductive alone. A worker's `mark_sent` is conditional on the
lease and the progress, and says nothing of the payload; that the payload the
worker pushed is the row's needs `SnapshotOK`: as long as a worker holds the
lease of a task it has in memory, content and progress of the row are those it
took. This in turn needs that a worker has one task for a key at most
(`HandOK`), or it could record the progress of one under the other. `StageOK`
says what a worker knows at each step (the part it records was received; the
row whose hook it is about to run is sent, and its hook has not run) and
`HookAlone` that no two are about to run the same one. `IInv` is their
conjunction with `TypeOK`, `SentMeansReceived` and `HookOnce`. There is one
lemma for each action (`ClaimDueStep`, `MarkPartStep`, ...); steps that change a
row without giving out its lease share the lemmas about `Quiet`. The refinement
is proved action by action from the same invariant (`PushPromised`,
`MarkSentPromised`, ...).

`LeasesStaySound` (`LeasesAreSound`) needs two more facts, proved relative to
`IInv`: `AttemptsFit` says which statuses go with a row's attempts, and
`LeaseFits` that a row in "sending" has a lease that has not run out and is in
its holder's hands, or a fault has gone by that pays for one more attempt.

`DispatcherProofs` (from `DispatcherAssumption`: types of the constants):

- `TableStaysSound`: `TableIsSound`, which is `TypeOK`, `QueueLenIsExact` and
  `LossHasCause`;
- `OrderIsKept`: the refinement `KeepsOrder`, that every behaviour of the actor
  and its workers is one of `SerialMailbox`.

`QueueLenIsExact` speaks of a scope, its worker and the channel between them, and
all three move on their own. `EntriesFit` ties them together: what the actor
counts as queued is what the worker has not begun and the reports of it that are
still in the channel; the worker of a retiring scope serves no more, and a scope
has a backlog only when it is retiring. That is inductive with what a command on
its way still means when it is read (`ChannelFits`: a worker that asked to retire
still waits for the answer, and asks once; the actor lets it go only when it
counts nothing as queued, and by `NothingLeft` its queue is then empty and no
report of it is on its way), with
one serving worker for each scope, the one its entry names until the actor has
stopped (`ServersFit`), and with the slots taken by the workers that have not
ended (`SlotsFit`). `BirthsFit` bounds the generations by the messages. What
the reports of a channel are when one is added or taken is counted by the
lemmas about `Places`. The steps of a worker are instances of `Moves`, those of the
actor of `Sends`, `Spawns` and `Forgets`, each with one lemma for the invariant.
For the refinement, a scope's queue is its worker's as long as that serves and
its backlog afterwards (`Left`), never both: so a message put in the one is
behind all that were put in the other.

`OneBotDispatcherProofs` (from `OneBotAssumption`: types of the constants):

- `WorkersStaySound`: `WorkersAreSound`;
- `AcceptedOnce`: `OnceOrAgain`;
- `OrderIsKept`: the refinement `KeepsOrder`, that every behaviour is one of
  `SerialMailbox` under the mapping the run checks.

The promise about order rests on `EntryHasReceiver`: the one worker of a scope
that may still handle its messages is the one the map names, so a message is put
at the end of the only queue its scope has. It is inductive with what a worker
has at each stage (`WorkersFit`), with the entry being of a worker of that scope
(`EntriesFit`) and with the order of the shutdown (`ClosingFits`,
`ShutdownIsFinal`); `BirthsFit` bounds the generations by the messages accepted.
`OnceOrAgain` comes from `FatesFit`, which of the accepted messages a worker
still has, and `KeysFit`: a reserved key is that of a call of `enqueue` that
has not returned, a key of an accepted message is committed until it expires. A
worker that panicked and its successor are one queue in the abstract mailbox, of
which the panic loses the front; `SerialMailbox` therefore may lose, of any scope,
a front part of the queue and the message in hand.

`MessageAggregatorProofs` (from `AggregatorAssumption`: types of the constants,
limits above zero, the quiet time no longer than the longest wait):

- `OrderOfArrivalIsKept`, `KeysStayWithMessages`: `HandsOnInOrder`,
  `KeysFollowMessages`;
- `BatchesStaySound`: `BatchesAreSound`, which is `TypeOK`, `BarrierExcludesBatch`,
  `OpenBatchIsTimed` (unless it is being closed) and `BatchesAreBounded`;
- `NothingStaysBehind`: `NothingIsLeft`, with `RepeatsFit`: a message passed over
  has a partner of the same user and id that was in a batch, and whatever becomes
  of that partner it never goes back to being on its way (`FatesMove`).

The order is that of one line for each user, what was handed on followed by what
is in the batch (`OrderFits`): a step hands on a front part, or puts at the end the
message on its way, which arrived after all others because the loop waits for its
answer (`FlightFits`). It must then be said what the actor has in hand at each
await (`BusyFits`) and that what is to join a batch finds room in it, or for a new
one, and no barrier (`RoomFits`): all that was looked at before an await still
holds after it. `BatchesFit` holds the batches to their limits, those apart that
are being handed on, and ties the generation to the length, so a timer of an
earlier batch, or of none, is told from this one's or finds deadlines that have not
passed. `KeysFit` says whose the reservations are and that what has its keys
reserved or committed shares none with another. A barrier is of a command that was
accepted once, and its acknowledgement comes once, after the turn (`TurnsFit`,
`BarriersFit`); what is left when some of them are released is a rest of the
sequence (`ReleasedIs`), by the least position that is not resolved. The steps
that end a batch or a message, handed on, refused or cancelled, are instances of
`Closes` and `Hands`, those that move no message of `IdleStep`.

`AgentTurnProofs` (from `TurnAssumption`):

- `WritesStay`, `ReaderIsTold`, `ExecutorStaysSound`: the three invariants;
- `NothingStarts`, `WritesAreGraced`: the two action properties.

What each layer takes for granted of the others has to be said: that there is a call
in hand, and of what kind, wherever the executor is at one (`CallFits`); that of all
writes at most the last has no result, and it is the one that runs or was cut off,
by an abort, a drop or a panic (`RunsFit`); that text was seen only before the first
tool was announced, and its stream knows (`TextFits`); that a report is the end, of
the task as well (`EndFits`); that nothing in the cache is older than the last write
(`CachedReadsAreFresh`). `ReaderIsToldTruly` and `WritesStayWithTheirCandidate` are
parts of the invariant themselves. `WritesGetTheirGrace` names every way a write is
cut short, and that there is no other is proved action by action.

`ProducerProofs`, in its first part about `RssScheduler` (from `RssAssumption`):

- `TableStaysSound`, `SeenStaysSound`, `PendingStays`: `TableIsSound`,
  `SeenIsSound`, `PendingIsKept`.

An id of a subscription is never given again (`IdsFit`), so what a scan has in
its queue is what is stored as long as its subscription lives, and at the mark
the notification has been asked for (`QueueFits`): that is what `PushedIsAsked`
needs. The bound on what is remembered holds after a trimming by the retention
and during a scan because what it will yet push has room (`RoomFits`). `Without`,
which takes entries out of the order, is a recursive function: what it keeps and
how long it is are proved by the least index at which they could fail.

Its second part is about `TodoReminder`, from `ReminderAssumption` only (types of
the constants, room for one period after the last tick, the hook is no
conversation), for any todos, conversations and period:

- `RemindersHeal`: `SyncIsSound`;
- `RemindersRevivedByEditsOnly`: the action property `OnlyEditsRevive`.

`SyncHeals` leaves out one todo, the source of a merge. It alone says nothing of a
sync that is half done, and its three calls work from an item and a slot that were
read earlier, while the clock goes on, the worker sends and gives up rows, and other
syncs come and go. `OnTrack` says what a process that nobody overlapped still knows
at each call: before `Prepare` its item is the todo; a slot it left out belongs to
no reminder to come, however late the call is; a slot it will queue is the todo's;
and after `CancelRows` no row of the todo is queued. `OneWriter` keeps the others
out: such a process is the only one syncing its todo, and a calm todo has none, so
an older sync that has lost the race can only leave the todo not calm. That a
reminder to come can be queued at all needs `SentIsPast`: what was sent or given up
was due. `AtWork` bounds the hook's slot by the clock, so that the next reminder
fits the bound. `ReminderInv` is their conjunction with `ReminderTypeOK` and
`SyncHeals`. The todo transaction (`WroteKeeps`), the management transaction and the
delete of a merge's source (`WroteItemKeeps`), every other step of one process
(`OwnStepKeeps`) and the clock (`TickKeeps`) have a lemma each, and the actions are
instances of these. For the second theorem every step but the writing of an edit
gives a todo no recurring reminder other than its own or one later than the clock
(`OtherStepsMoveOn`, from `NextIsLater` for the arithmetic of periods), and by
`SentIsPast` none that was delivered is later than the clock.

`SessionTurnsProofs` (from `SessionAssumption`):

- `NothingStaysRunning`, `ConfirmedStaysOnce`, `HistoryStays`,
  `ExpiredStaysDropped`: the four invariants;
- `LateWritesStayHarmless`: both action properties.

Where messages queue the argument is that of the one request under way (`OneByOne`,
`OnlyOne`). `CopiesFit` says of it, at every step, how its copy may differ from the
row: in the exchange it is to append, in the title, which a title task may have set
meanwhile, and, once its answer to a pending operation is known, in that operation.
`RunsFit` says that what waits, and any question, has never been carried out or
closed (`Unrun`), and that what is in execution is in the hands of the request that
claimed it or of one that was lost; with `CopiesFit`, that a request at a deed has
claimed it and not yet done it, this gives `ConfirmedRunsOnce`. `LatesFit` follows a
request that found an expired operation, and does not look past it, until it has
dropped it; `DropsFit` that nothing written later brings it back. Where requests
overlap only `Types`, `LatesFit` and the harmlessness of a late automatic compaction
hold, and only these are claimed. `AppendIs` and `CompactedIs` say what appending
and compacting do to the members and the order of a history; `ReadStep`, `WroteStep`
and `RanStep` reduce a step of a request to what it does to its copy.

`ConfigCenterProofs` (from `ConfigAssumption`, and `ModelsOnlyDisable`, that
models.json can only disable what the configuration needs):

- `SecretsStayReadable`, `SavesStart`: `SecretsAreReadable`, `StartsAgain`;
- `NothingIsReplacedUnseen`: `NothingUnseenIsReplaced`.

A process past its look at the key has the one in the file, and no key is put
where another encrypts (`KeysFit`); only a bot that runs serves the console
(`ModesFit`, `TasksFit`); the mutex lets one save of a process be between its
look and its rename (`OneAtATime`); past its second look a save knows what it
replaces or is marked late (`LooksAreFresh`); and the combination it examined is
still the one it makes (`SavesFit`), which keeps `StartsAgain`.

Every inductive invariant was checked by TLC on the instance of its run before
it was proved.

Every invariant, refinement and action property of the passing runs is proved.
Only model-checked are the liveness properties (`EveryRowSettles`,
`EveryCallReturns`, `EveryMessageSettles`, `ShutdownEnds`, `TurnEnds`,
`EveryEntryIsAsked`), since fairness and ENABLED are beyond TLAPS.

## Not modelled, and the plan

Within the modelled parts: texts, retry delays beyond "later", the capacity of the
dedupe table, group messages that pass through the aggregator, the one second after
which its joining gives up, the daily digest of todos, a stale draft of the
management API (it is refused there); the size of contexts and the wire formats of
model providers; translations and the parsing of feeds; the commands that change the
active session (/new, /resume), and snapshots of shown lists; provider presets and
model discovery.

Not modelled: the QQ session, the OneBot connection and stream delivery are
protocols with servers this repository does not hold, whose answers it only
observes; memory, management authentication, knowledge and the other tools are
single transactions or reads over tables, with little between two of their steps;
the rest is text. `PROJECT.json` gives the reason for each.

Modules, in order of what matters most to the user:

1. `NotificationOutbox` with its promise, its runs and its proofs. Done.
2. `TodoReminder` on top of the promise. Done; the daily digest is left.
3. `SerialMailbox`, `Dispatcher`. Done.
4. `MessageDedupe`, `OneBotDispatcher`. Done.
5. `MessageAggregator` on both. Done; group pass-through is left.
6. `AgentTurn`: agent loop, executor, route, gate, deadline. Done.
7. `RssScheduler`, on the outbox's promise. Done for one subscription.
8. `SessionTurns`, on the mailbox's. Done but for the choice of session.
9. `ConfigCenter`. Done for one secret.
10. The QQ session's resume and the memory's proposals, if ever more is wanted.

No safety proof is left. Liveness stays with TLC.
