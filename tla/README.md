# A specification of idefix-go

TLA+ modules, TLC models and TLAPS proofs about the Go library in `src/`.
Every definition follows the code; `PROJECT.json` gives the lines of each one.

## 1. The system

`idefix-go` talks to a device cloud over MQTT and builds on that connection:
calls, streams, remote files, event queries, and a persistent pipeline for
events.

| Component | Source | State | Operations |
|---|---|---|---|
| event source, stages | `eventpipe/event_source.go`, `event_stage.go` | producer's cursor variable, events in flight, the manager's context | `Push`, `Run`, `producerFunc`, the function `Push` wraps around a stage |
| source manager | `eventpipe/event_source_manager.go` | context, storage | `Init`, `Close`, `NewSource` |
| events storage | `eventpipe/events_storage.go` | none | one call of the storage each; `UnlockAllEvents` is a loop of them |
| sqlite storage | `eventpipe/storage/storage_sqlite.go` | tables `sources`, `items` | `Push`, `Update`, `Lock`, `Unlock`, `Delete`, `Get*`, `UpdateCursor` |
| memory storage | `eventpipe/storage/storage_memory.go` | three maps behind a lock | the same interface |
| minips | `minips/minips.go` | topic to channels map | `Subscribe`, `Unsubscribe*`, `Publish`, `WaitOne*`, `Close` |
| client | `client.go`, `messages.go` | connection state, contexts, sessions, minips bus | `Connect`, `Disconnect`, `login`, connection lost, send and receive |
| calls | `methods.go` | subscriptions on the bus | `Call*`, `Publish`, `Answer`, `NewSubscriber`, `WaitOne` |
| streams | `stream_pub.go`, `stream_sub.go` | stream id, keepalive timer, buffers | `New*`, `Publish`/`Read`, `Close` |
| bstates query | `events_bstates.go`, `bstates/` | map of states per source, schema cache | `GetBstates` |
| remote files | `os.go` | none | chunked write, read, list |
| evaluator | `eval/` | none | evaluating a filter on the meta of an event |
| messages, normalize | `messages/`, `normalize/` | none, but the caller's map is changed in place | structs to maps and back, `EncodeTypes`, `DecodeTypes` |
| errors | `errors/` | none | codes |
| CLI | `tools/idefix/` | flags, files | one or several calls per command; `cmd_update*` runs a protocol, `cmd_events*` page and poll, `cmd_stream` reads |
| examples | `examples/` | none | uses of the library |

How they interact.  The application calls the client; the client's MQTT
callback publishes every message received on the minips bus, where calls,
streams and subscribers wait for theirs.  An event source calls the client for
`events.get` and the storage for everything else; its producer and the workers
of its stages are goroutines of an external pipeline library that hands items
from stage to stage through bounded buffers.  All sources of a manager share
one context and one storage, and the end of any run cancels that context.

What is hard.  The producer and the stages share rows without a lock beyond
the single statement; a run may end between any two storage calls, and the next
one starts from the rows and the cursor it finds.  The bus drops messages when
a channel is full and may meet a channel that is closed under it.  The client
has callbacks of the MQTT library racing `Connect`, `Disconnect` and calls.
The `hazards` of `PROJECT.json` list these at their lines.

What correctness means, per component:

- *event pipeline*: no event is lost, an event is in the pipeline once, a
  restart resumes at the stage that comes next, a stage is not repeated, a row
  leaves the storage only when its event is finished, rows are not left locked,
  every event is finished some day;
- *storage*: both backends answer the same calls alike and are the queue the
  pipeline relies on; a migration that was cut short is finished;
- *bus*: who is subscribed and has room gets the message once; no send on a
  closed channel escapes; closing ends every wait;
- *client*: a call returns its own answer or an error; after a lost connection
  its context is cancelled; nothing waits for ever on a closed client;
- *streams*: values come in order and none that reached the stream is missing, a
  closed stream stops its keepalive, a reader that reads does not stop the client;
- *queries*: pages and polls join without gap or repetition, source by source;
- *updates*: a device that is told to update has all it needs, and retrying
  suffices after whatever failures;
- *messages*: what arrives is what was sent, whatever the order in which the
  maps are ranged over; a filter does not see which encoding its event took.

## 2. The modules

| Module | What it is |
|---|---|
| `AtLeastOnce` | the contract: what an event source promises its stages |
| `EventStorage` | the items table and each SQL statement as an operator |
| `EventPipe` | one event source: producer, stages, storage, crashes, restarts; refines `AtLeastOnce` |
| `MCEventPipe` | pipelines for its instances |
| `EventPipe_proofs` | what each statement changes, its inductive invariant, the theorems, the refinement |
| `ItemQueue` | the abstract storage: per source a queue of items and a cursor |
| `Storages` | sqlite and memory side by side; both refine `ItemQueue` |
| `Storages_proofs` | the refinements, and that both answer alike |
| `Minips` | the message bus: subscribers, lists of channels, `Publish` |
| `MCMinips` | topics for its instances |
| `Minips_proofs` | delivery, and the removal from lists that shift |
| `Client` | connect, disconnect, lost connections, and calls over the bus |
| `Client_proofs` | its inductive invariant and the theorems |
| `Streams` | publisher and subscriber streams over one client's router |
| `Streams_proofs` | the calls under way, and the values on their way |
| `Query` | `GetBstates` with its caches, under the commands that call it |
| `MCQuery` | sources of blobs for its instances |
| `Query_proofs` | nothing skipped or repeated, and the bound of an answer |
| `Updates` | the update commands, the chunked `FileWrite`, the device |
| `Updates_proofs` | what a device that counts down has, and no chunk left |
| `Values` | kinds of Go values |
| `Messages` | from struct to map to wire and back; storage and patch files too |
| `Logic` | the list operators `$and`, `$or`, `$nor` of the evaluator |
| `Logic_proofs` | their laws, for lists of every length |
| `Eval` | the evaluator of filter expressions |
| `Filters` | filters on messages that arrived |
| `Patches` | patch files, made, sent through a file, and applied |
| `MCFilters` | maps, structs, filters and files for their instance |

What composes what: `EventPipe` and `Storages` are both built on the statements
of `EventStorage`, so the rows the pipeline is proved about are the rows that
are compared with the memory backend and with `ItemQueue`, and the lemmas about the
statements, with which `EventPipe_proofs` begins, are about both.  `Eval` extends
`Logic`, `Filters` and `Patches` extend `Messages` and `Eval`, and `MCFilters` both of
them.  `Streams`
uses of a call what `Client` checks: it is sent, answered, times out, or is
refused because the client is closed.

`Client` keeps of the bus only what a call needs: its own subscriber, with a
channel of one.  That a message published there reaches it is what `Minips`
checks (`Reached`, with a channel that has room).

### EventPipe

An event is its position in the feed; a `ContinuationID` is the position of the
last event it covers, and 0 is the empty string.  `items` and `cursor` are the
two tables and survive a crash with `Backend = "sqlite"`; `cursor = NoCursor`
means that the source has no row, `cursor = 0` that it has one with an empty
cursor, which `Push` inserts (`storage_sqlite.go:344`).  `pc` is the place
`producerFunc` is at, and every storage call, `put` and fetch is a step of its
own:

    unlock -> cursor -> wait -> load -> lock <-> put ... lock -> fetch
                         ^                                     | |
                         +------- push (page, UpdateCursor) <--+ |
                         +---------------- timeout --------------+

`flight` holds the items between `put` and the end of their passage, each with
the stage it is at, the context it carries (the stages marked as processed) and
the next thing that stage does with it (`phase`).  Stages work on several items
at once: up to `Concurrency` in work and `BufferSize` waiting at each.

`AtLeastOnce` is the same without tables, locks, goroutines and buffers: the stored
events with the stages on record for each, what is settled, what the cursor is past, and
the open calls of stages.  In `EventPipe` the record of an event is the `done` of its
row, and its open call is the item in `flight` between the call of `Process` and the
storage call that its answer leads to (`process`, `remove`, `update`).  The producer, the
locks, the buffers, and marking a stage in an item's context are stutters.

Disturbances: `Crash` (the process is gone at any step), `Cancel` (the
manager's context), a failing storage call at any call site, a failing fetch,
and a stage that returns an error.  `Start` may bring another list of stages.

Abstractions.  Payloads and stage data are not modelled; a stage answers with
any of `Outcomes`.  A stage is taken to keep the UID of its event.  An item
with `passthrough` set touches nothing any more and is dropped from `flight`;
what it can still do, fail the pipeline after a cancellation, is
`PassthroughCancelled`.  The pipeline library is external: bounded buffers, a
number of workers per stage, and a teardown when a stage fails.

`Backend = "memory"` starts empty after every restart and refuses nothing.  The
theorems cover it; the runs are with sqlite, and `Storages` compares the two
backends call by call.

Bounds.  `FeedLen`, `PageLimit` and `LoadLimit` are 3 or 4, 2 and 2, so that a
feed takes several pages, a page has several events, a page may be empty of
wanted events, and more rows are pending than one load takes.  Two stages are
the least with a stage that is not the last.  `MaxFaults` is 2: a disturbance
and another one during the recovery from it; the theorems are without bounds.

Fairness (`FairSpec`).  Goroutines are scheduled and `Run` is called again,
hence weak fairness of `Start`, `Producer`, `RunReturns` and the stages' work
on each event.  A poll that is repeated for ever is answered (`SF` of
`FetchPage`: it competes with the timeout), and a stage called for ever with
the same event answers `Processed` once (`SF` of `ProcessedOf`).  Nothing is
assumed of the disturbances.

### Minips

`topics` is the map of lists, changed under the mutex, so a registration or
its removal is one step.  `Publish` holds the mutex from its first list to its
last; its sends are steps of their own, since readers empty channels meanwhile
and `close` needs no mutex.  `publisher` is the `Publish` that holds it.
`Subscribe` looks at `closed` and then registers topic by topic; `Close` is
three steps.  A topic is the sequence of its segments, which is all that
`topicSplitterRegexp` looks at.  The removal of a channel is modelled on the
array, because the code ranges over a list while it shifts it.

`Shared` are the subscribers that several goroutines call at once, which no code in
`src/` does: a subscriber belongs to the call or stream that made it.  `NoneClosed`
is stated for the others, and the part of `Delivery` that everybody with room is
reached for the states in which no closed channel is registered: `Publish` gives up a
list at the first closed channel it meets.

Bounds.  A topic of three segments published to subscribers of its first two
and of the root has a prefix with a subscriber, one without, and the root; one
message fills a channel of one that is subscribed to two of these.  Two subscribers
on one list have a first and a last; one of the two is shared, so that closed channels
are met.  `MaxTimes` is how often a channel may be put on one list; the run has 1.

Fairness: a `Publish` that has the mutex goes on (`WF` of `Publishing`).
Readers owe nothing.

### Client

The fields of `Client` have no lock.  `app` is the place of the goroutine that
calls `Connect` and `Disconnect`, one assignment or MQTT operation a step;
`lost` are the running `connectionLostHandler`s, which the MQTT library starts
in goroutines of their own; `call` are the calls of other goroutines.  The
g-th `Connect` makes context, bus and MQTT client g, and `ctx`, `mqtt` say
which of them the fields name, so a handler or a call that reads a field late
gets what it names by then.

The MQTT library is external: a connection that is up may be lost at any step,
comes back by itself until it is disconnected, without its subscription (clean
session), and gives up the unacknowledged messages of a connection that is
lost or closed.  `Receive` answers a call at any time once it is sent, also
before the sender has seen the acknowledgement, or twice.  The login of
`Connect` is a call whose outcome is a choice.  `ConnectRefused` is `Connect`
returning after it made its context and before it made its MQTT client: `SkipLogin`
without a session, or no session id to be had.  A `Connect` after it calls `Disconnect`,
which cancels its context, only if `c.client` was set by an earlier one; so the contexts
that were made before the first MQTT client stay alive, and `EarlierCancelled` is about
the later ones.  Encodings and a cancelled parent context are left out.

The calls are of four kinds: `Call` and `CallWithContext`, which send first and
look at a context only while they wait, resp. in both phases, and `WaitOne` with
and without a context.  `ContextEnds` ends the caller's context at any time;
`SendGivenUp` is `sendMessageWithContext` leaving its helper behind.

Bounds.  Two connections are the least for something of one to hit the other;
the theorems are for any number.  One call is enough, because calls meet only in
the fields of the client, none of which a call writes.

Fairness.  Goroutines that can go on do, an MQTT operation of `Connect` ends
one way or the other, a started handler runs, timers and the contexts of callers
end.  `FairSpec` adds a broker that acknowledges what it was sent while the
connection stays, for calls of kind `Call` only: without it, such a call never
returns, since its timeout starts after the acknowledgement.  A call with a
context needs no such broker.

What the model also reaches, and no run is spent on: a connection lost between
the login and `setState` leaves a client that says `Connected` with a cancelled
context; a handler that runs late cancels the context of a later connection,
since it reads `c.ctx` when it comes to it; both end the waits of calls, which is
what `CallsReturn` and `LossNoticed` are stated for.

### Storages and ItemQueue

Each call of `storage.Storage` is one action that changes the sqlite state
(`sources`, `table`, `schema`, `conn`) and the memory state (`items`, `cursors`,
`nextIndex`) at once, so that the two can be compared after every call.
`UnlockAllEvents` is a loop of calls (`SweepRead`, `SweepUnlock`) in each backend
by itself.  A source is in `apart` once a write was done by one of them only: an
item pushed again (sqlite refuses it, memory replaces it), a failing statement, a
closed or restarted process.  Opening the database is `CreateTables`,
`AddLockedColumn`, `SetVersion`; a crash may come between any two of them, and a
file may be one of the release before.  A read is an error or a value: sqlite answers
with an error when it is not open, or has no locked column to ask for, and memory
always answers.  `SameAnswers` compares the two where the database is open, the reads of
locked and unlocked rows where it has that column.

`ItemQueue` is what the pipeline relies on: a queue of items with distinct ids, a
cursor, no indexes.  `SqliteIsQueue` and `MemoryIsQueue` are the refinements, with
the items sorted by their order index as the queue; the memory backend's queue
puts an item that is pushed again at its end.

Bounds: one source, because every statement has `WHERE source_id` and every map
access the source as its key; two items and pages of one, so that a page is not
all; order indexes up to 3, so that the newest item is deleted and pushed again.

### Streams

One stream of either kind.  `new`, `ka` and `user` are the places of the three
goroutines that make calls for a stream: `New*Stream`, `keepalive` and the user's
`Close`.  `router` is the goroutine of the MQTT library that calls every handler
of the client, one message after the other: a stream whose buffer is full holds it
up, and with it the answers to the client's calls.  The device, which forgets what
is not refreshed, and the broker are external.

A call is in `sending` until the broker acknowledges its message (`Acknowledge`), or
the client's context ends (`SendFails`); it has no deadline until then, and only then do
its five seconds begin (`TimesOut`).  Its answer may be in the channel of its
subscriber before that (`mail`), which it looks at afterwards (`Answered`).  An answer
that comes after its call timed out is for `"nobody"`: it stays in the router, holds up
what is behind it, and is dropped when its turn comes.

Values go with QoS 0.  `PublishValue` sends one that reaches the router or is lost;
`Subscribe` does not look at its token, so the broker has the subscription some time
later or never (`Listen`); and a value that does not decode is dropped by the handler
(`Undecodable`).  All these are in `lost`.  `Received` says that of the others, those
that reach the handler and decode, the stream drops none.  The values of a stream are
numbered in the order they are published.

Bounds: buffers of 0 (handed over), 1 and 2; two values, so that the sticky payload and
one after it, or a full buffer and one more, happen; one refresh, which may meet Close,
the end of the client, or a device that has forgotten the stream.  An instance with more
refreshes or two streams has too many states for a run; the theorems are for any number
of them.

Fairness: goroutines that can go on do, timeouts fire, readers read until their
stream is over, the device forgets what nobody refreshes.  The device owes no
answer, the broker no acknowledgement and no subscription, and the router is only assumed
to take a message that can be taken.  So `ClosedForGood` and `NewReturns` except a stream
of which a call is never acknowledged while the client stays connected: there the code
has no deadline (`methods.go:48`), and `New`, the keepalive or `Close` waits for ever.

### Query

`cid`, `total`, `stateMap` and `schemas` are the variables of the same names in
`events_bstates.go`, `page` and `count` those of `fillStateMap`.  `mode` is the
command: `bstates` once or with `--continue`, one event by its UID, or raw events.
Events arrive while the command works, the cloud answers with any number up to the
limit, a request may fail, a schema may not come in time, a blob may be corrupt, the
user may interrupt.  A result files its blobs by source: a schema and an origin, which
stands for domain, address and meta.  `showEvents` ranges over the sources in Go's random
order and shows those of one source together, so only within a source is there an order
to keep.  What is shown of a page is its blobs; deltas, timestamps and tables are layout.

Bounds: a feed of four, a limit of two, so that a query takes two pages and goes
over its limit in the second; three sources, of which two share a schema, that may be
cached, and two an origin.

Fairness: every request is answered or times out.

### Updates

A command is a plan of tasks, one remote call or one `FileWrite` each.  `FileWrite`
is `Check` (the hash), `Create`, for every chunk `Chunk` and `Write`, then `Join`,
`Verify`, `Clean`.  A call that fails may have had its effect, none, or half of it;
the operator runs a failed command again from the start.  The device may stop for
its update at any time after it was asked to, also under a command that is run
again; it may keep `/tmp` or not.  Of a file whose chunks are not all there and whole
only its hash matters, which is that of no content (`Broken`).  The device's own update
and the release manager are external.

Bounds: three chunks, a first, a middle and a last one; three failures, so that one
hits a command that is already the repair of another.

Fairness: the operator goes on, the device stops when it was asked to, a release
that was set as target is deployed.

### Messages, Eval, Filters, Patches

A value is a pair of its Go kind and what it holds.  A message goes through
`EncodeTypes`, which rewrites the caller's map in place, and `DecodeTypes`; Go ranges
over a map in any order, so every key is a step, in any order, and a key that was added
meanwhile may be met or not.  Of the structs there are the four combinations of hooks the
message types have (`millis`, `text`, `secs`, `plain`).  `Encodings` are those of the
client (`"j"`, `"m"`), that of a patch file (`"file"`, compressed where it helps) and
that of an event storage (`"store"`: msgpack, no normalisation, `normalizeMap` on the way
back).  Times are ticks, of which a second has four and a millisecond two, so that
what RFC3339 and milliseconds cut off is seen; the zero time is kept apart.

`receiveMessage` returns without a word when `To` is empty or begins with the client's own
address: `to` is what the cloud leaves of it, chosen when the message is marshalled.  It
also does for a key `DecodeTypes` refuses; and a key that ends in `trans(` makes
`DecodeTypes` slice to a negative length and panic, an end of its own.  `Faithful` says
that these are the only ends of a well-formed message.  A payload that does not
decompress or unmarshal, or flags without a codec, are not modelled.

`Eval` is `eval.go` operator by operator, with its errors, its conversions between numbers
and its short circuits.  The operators over lists are in `Logic`, where they are about the
results of the operands, so that something can be proved of them; `LogicHolds` compares
whole filters with the logic of `Truth`.  For `isNumber` a `time.Duration` is a number,
since its kind is int64; what `ei` converts is external (`FloatKinds`), and if it did not
convert one, `cmp` would be an error.  In `Patches` two files have a difference that
makes one of the other; `Apply` is what a device and `update apply` do with it.

Bounds: maps of one or two keys from a list that has every kind of value, nested maps and
lists, keys with one, several, unknown and fitting encodings; a map is sent twice; three
files.  Every step is about one key, so two keys are the least for one to be met before
another.

## 3. The runs

| Run | Question |
|---|---|
| `EventPipe_faults` | With every kind of disturbance, two in any combination, and a redeployment with a stage less: is an event ever lost, in memory twice, at the wrong stage, given again to a stage that is done with it, deleted unfinished, or called for while another call for it is open?  No: this is the contract of `AtLeastOnce`, and it is implemented. |
| `EventPipe_restarts` | Two workers per stage, a `ContinuationID`, restarts and aborted runs: does a healthy run hold every locked row, and does the stored cursor only grow?  Yes. |
| `EventPipe_steady` | No disturbance, four events on two pages: is the feed's order kept, is a finished event removed, is every event finished although stages answer retry?  Yes. |
| `EventPipe_resume` | One crash: is every event finished?  No: between the push of an event and `UpdateCursor` the page is fetched again, and `Push` refuses the event that is still there, in every run. |
| `Minips_topics` | Is a message sent to whoever subscribed to its topic, a prefix or the root, once, is no closed channel of a subscriber with one caller ever registered, does removing a subscriber remove it and nobody else, while subscribers come and go, and does `Publish` return with full and even closed channels?  Yes. |
| `Client_calls` | Can two MQTT clients of one client run?  No.  Two contexts be alive?  Only if a `Connect` was refused before the first MQTT client was made.  Does every call return, and is every loss noticed?  Yes, under `FairSpec`. |
| `Storages_calls` | Does an open sqlite answer as memory does, is a migration that was cut short finished, does `UnlockAllEvents` end with nothing locked, and do both implement `ItemQueue`?  Yes. |
| `Streams_one` | Are values read in order, and none missing that reached the handler and decodes, is a stream given up only when it is refused, does a closed one leave nothing behind on either side, does `New*Stream` return, does the router move while readers read?  Yes, but for a call that is never acknowledged, which never returns, and a stream without a buffer that gets a sticky payload, whose `New` never returns. |
| `Query_bstates` | Is every blob shown once and behind the earlier ones of its source, over pages, polls and failures?  Yes, or its schema, not seen before, could not be fetched.  How large is an answer?  Less than twice the limit.  Do the commands end?  Yes. |
| `Query_limit` | Is `Limit` "the maximum number of results to return in the response", as its comment says?  No: a page that has fewer blobs makes the query ask for a whole page more. |
| `Updates_send` | Has a device that counts down to its update all it needs, although the command is run again?  Yes, unless a call fails in that very time.  Does retrying suffice?  Yes, but for a cloud update whose failing call is not looked at. |
| `Filters_meta` | Does a message arrive as it was sent?  Yes, or it has a key that cannot be decoded or no `To` for this client.  Is a context that was stored the one that was kept?  Yes.  Does a filter see the encoding?  Only with a number in the list of `$in` or `$nin`.  Does a patch file turn its source into its destination and back, and no other file?  Yes. |

Invariants and action properties are conjunctions of named parts where the parts
answer one question: `Delivery`, `Removal`, `SameAnswers`, `Sweeps`, `Received`,
`ClosedForGood`, `Complete`, `BoundedAnswer`, `Ends`, `SafeUpdate`,
`RetriesSuffice`, `Faithful` and `OneByOne`.  Type invariants, but for those of
`EventPipe` and `Client`, are parts of them.

Distinct states: EventPipe_faults 639,684, EventPipe_restarts 259,497,
EventPipe_steady 24,889, EventPipe_resume 3,526, Minips_topics 80,874,
Client_calls 168,732, Storages_calls 119,721, Streams_one 121,941, Query_bstates
717,929, Updates_send 54,314, Filters_meta 77,235.

`EventPipe_resume` finds a disagreement between the code and its README, and
`Query_limit` one between the code and a comment, quoted in `findings`; `AllFinished`
holds without a crash, and `BoundedAnswer` is what the limit does bound.  `NoOrphan` is checked without
a redeployment, and fails with one: if the new last stage finds an event already
processed, it goes by and its row stays locked, after every restart.  `Removal` is
checked for channels registered once: one that subscribed twice to a topic stays
registered after `UnsubscribeAll`, since the list is shifted while it is ranged
over.

The model of the event source shows more of that kind, which no run is spent
on: an event that is done comes back if its page was not complete when the
process died; the `ContinuationID` is ignored after a crash between the first
`Push` and the first `UpdateCursor`; a failing `GetCursor` counts as no cursor;
and a `Delete` that fails leaves a locked row until the restart.

These systems may stop: `Client` at `MaxConnects`, `Streams` when everything is
closed, `Query` and `Updates` when the command is over, a message when it was
delivered.  Their runs therefore do not check deadlock.

## 4. The proofs

Eight modules prove theorems, seven of them about the specifications `Spec`, without
fairness and without the bounds of the runs.  They assume what the modules assume of their
constants (types, and for `EventPipe` that a pipeline is a non-empty list of distinct
names, which `Push` enforces), and no more where nothing is said below.  The inductive
invariants were checked by TLC on the instances of the runs before they were proved.

### EventPipe

For every feed, filter, pipeline, number of workers, buffer size, backend, set of
disturbances and bound on them, `TypeOK`, `NoEventLost`, `OneActiveItem`, `ResumePoint`
and `NoRepeatedStage` are invariants, and with sqlite `OnlyFinishedLeave` holds of every
step.  None of these is inductive.  `IInv` adds

- `RunInv`: what is in memory exists only in its phase of a run, e.g. nothing
  is in flight when `unlockAllEvents` works;
- `LoadedInv`: a row that was loaded stays unlocked, unchanged and out of the
  pipeline until its turn in the loop, so the snapshot is right when used;
- `FlightInv`: an item in flight has a locked row with the same context, and
  is the only item of its event; hence what a load finds unlocked is not in
  flight, which keeps `OneActiveItem`;
- `StageInv`: the context of an item names all stages before its own;
- `CoverInv`: both cursors have only stored or finished events, or events of
  the page in hand, behind them, which is what makes `UpdateCursor` safe;
- `MemoryInv`: the memory backend has no primary key that refuses a row, and
  needs none, since its rows are all of this run.

`PromiseKept` is the refinement: `Spec` implements `AtLeastOnce` under the mapping above,
with either backend, and TLC checks it as `KeepsPromise` of `EventPipe_faults`.  The
invariants above are what it needs.  An event is called for only if its row names the
stages before (`StageInv`, and `FlightInv`: row and item agree) and no other item of it
is in flight (`OneActiveItem`); a row that goes was settled (`FlightInv`); a cursor
that is stored has only stored or settled events behind it (`CoverInv`).  An item whose
call ended otherwise, or that a crash took, is a call that left no trace, which the
contract allows and answers with another call: that is why it is "at least" once.

Three more theorems hold under conditions of their own:

- `CursorMonotone`, with sqlite and if no storage call fails, by `CursorInv` (the
  producer's variable is not behind the stored cursor).  A failing `GetCursor` counts
  as no cursor (`event_source.go:206`), and then the feed starts again; the memory
  backend starts every process without a cursor.
- `NoOrphan`, if no storage call fails and no deployment ends with a stage after which
  another goes on (`SameEnd`), by `EndInv`: no row is recorded as processed by a last
  stage, which deletes it.  Without `SameEnd` an event goes by its last stage and leaves
  its row locked, and so does a `Delete` that fails.
- `OneByOne`, in a run without disturbances and errors of stages (`Steady`), by
  `SteadyInv`: what was pushed precedes what is still on the page.  A crash makes the
  source push a page again, behind what it already has.

### Storages

`SqliteIsQueue` and
`MemoryIsQueue` are proved for every set of sources, ids and cursors and every page
size: the initial states map to the empty queue and each step to a step of `ItemQueue`
or a stutter.  The queue is a table sorted by its order index; `Rank`, the number of
rows up to a row, is the inverse of `Nth`, so that what a statement does to a row is
what the queue does at one place.  `SInv` has distinct indexes, indexes of the memory
backend below its next one, and for a source that is not `apart` the same ids, the same
relative order and the same data in both backends: from it `SameAnswers`, although the
indexes differ.  A sweep unlocks the tables one after the other, so the locks agree only
outside of one.  `Migrated` and the safety part of `Sweeps` (`SweptClean`) are proved
too; the latter needs that a page has at least one row.  `SweepShrinks` is why a sweep
ends: the page of a sweep has only locked items, each once (`PageLocked`), so each of
its calls unlocks one, or takes up a page that is not empty, or ends it, while no other
call locks any.

### Minips

`Delivery`, `NoneClosed`, `Removal`, and that no send meets a closed channel
(`NeverPanics`, so the `recover` of `publishTopic` has nothing to do), for every number
of subscribers, topics, messages and places.  They assume

- `OneCaller`: every subscriber is used by one goroutine at a time (`Shared` is empty) and
  does not subscribe to what it has.  All of `src/` uses it so; without it a channel can be registered after
  its `Close` unregistered it, and `UnsubscribeAll` misses one that is registered twice;
- `Named`: no segment of a published topic is empty.  `Publish` stops its walk at an
  empty segment, and visits the root twice when it is itself a prefix.

`MInv`: no list has a channel twice, a closing subscriber is on no list, and what a
subscriber got and will still get of a message are not more than its subscriptions and
not fewer than one, unless its channel was full.  The loops that remove a channel from
the list they range over, and the walk to the prefixes, are recursive functions on
numbers; what they compute is proved by the least number at which it would be wrong.

`NeverBlocks` says why `PublishEnds` needs no more than fairness: while a `Publish` has
the mutex, its next step is open to it (a list to leave, or a channel that takes the
message or is full and passed by), shortens what it has left, and nobody else touches
that.  It assumes `OneCaller` and `Named` for the same reasons.

### Client

For every number of calls and connections `TypeOK`, `OneMqttClient` and
`EarlierCancelled` are invariants.  What makes them inductive is `Places`: at each place
of `Connect` and `Disconnect`, which connection the fields name and what is left of it.
Once there was an MQTT client, the context is gone from "stop" on, and every MQTT client
is from "context" on, so what `DialSucceeds` adds is alone.  `Links`: a refused `Connect`
leaves `ctx` ahead of `mqtt`, and only the connection of `ctx` can run.

Three theorems are what the liveness properties of `Client` rest on.  `LossWatched`: while
a connection is down and its context lives, its handler is among the `lost`, whatever
else happened since; with fairness of the handlers that is `LossNoticed`.
`CallsAttended`: a call in "ack" has its message with the client of the field `mqtt`,
and that is up, so `FairSpec` asks the broker for nothing but to acknowledge what it has
over a connection that stays.  `CallsGoForward`: no step takes a call back, and each of
its own takes it on; with fairness of its steps that is `CallsReturn`.

### Streams

For any number of streams, capacities, refreshes and values.  `OnlyRefusedDies` rests on
`CallInv` (who waits has asked once, and an answer for a caller that waits is the only
one, because late ones are for nobody) and `RemoteInv` (the device has nothing of a
stream before its create and nothing after it is gone, so a refused refresh met a stream
that is gone).  `RouterNotStuck`: a value at the head of the router, if it has no room, is for
a stream whose reader can make some, or has quit, which is what `RouterMoves` rests on;
and the sticky value of `New` meets an empty buffer, which is what `NewReturns` rests on.
`Received` rests on `ValuesInv`: nothing is read before the stream is
open, the buffer has at most the sticky payload by then, what is routed was published
after the subscription, and every value that is not in `lost` is read, buffered or routed.
`ClosedForGood` and `NewReturns` are liveness and only model-checked.

### Query

`Complete` and `BoundedAnswer`, for every feed, limit, set of sources and number of
faults, by `QInv`: a source's blobs, shown and collected, follow the feed; the page is the piece of the feed that ends at the `ContinuationID`, so that what was
shown, collected and missed is all the query has looked at; and a page has no more events
than the query may still count, which is why it is never left before its end.
`BoundedWork` counts the steps a command has left that does not poll, or was interrupted:
a natural number, at most `4 * FeedLen + 5` at first, that each of its steps makes
smaller, however many requests fail, and that arriving events do not change.

### Updates

`SafeUpdate` and `NoLitter`, for every set of commands, number of chunks and number of
failures.  `UInv` says what a command knows of the tasks behind it.  While the device
counts down their files are whole, since only the update takes files away and it ends
the countdown; without it they may also have been used up by an update that worked
(`UsedUp`).  `Kept`: under a countdown in which no call failed all tasks are done, and a
file that is written nevertheless is one that was used up.  A failing call in this very
time breaks that, and `SafeUpdate` excludes it.  Of a rollback to the running binary it
says only that a file of its name is there: the device makes that copy, and no command
looks at what is in it.  `NoLitter` is proved from `Tidy`, which
chunks there are at each place of `FileWrite`'s loops.
`AttemptsEnd` bounds the calls of an attempt, three for every chunk and four more for
every task of its plan, and every call that is made, with whatever result, takes one of
them; from where it ends, only running the command again leads on.

### Logic

`evalListOp` returns at the first operand that errs or decides.  `ListEnd` says so for
lists of any length, and from it: without errors the operators are the quantifiers
(`ListLogic`); an error is returned exactly when it comes before what decides
(`FirstError`); adding a filter with `$and` never lets more through (`Passes`), also
when a part errs; `$nor` is `$or` negated (`NorNegatesOr`), both laws of De Morgan hold
(`DeMorgan`), and a list may be cut in two (`Nesting`), errors included.  That the filter
as a whole behaves so is `LogicHolds`, which TLC checks.

### What is only model-checked

- Liveness: `AllFinished`, `PublishEnds`, `LossNoticed`, `CallsReturn`, `SweepEnds`,
  `ClosedForGood`, `NewReturns`, `RouterMoves`, `Ends`, `RetriesSuffice`.  The prover
  has no rules for fairness, nor for `ENABLED`.  What can be proved of them without
  either is in `NeverBlocks`, `LossWatched`, `CallsAttended`, `CallsGoForward`,
  `SweepShrinks`, `RouterNotStuck`, `BoundedWork` and `AttemptsEnd`.
- `Faithful`, `Restored`, `SameFilter`, `LogicHolds`, `PatchesApply`: `Messages` and
  `Eval` walk through nested values with `RECURSIVE` operators, and a proof about them
  is an induction over data, which the installed provers cannot do.

## 5. Plan

Done: the event pipeline, the storages and their refinement, `Minips`, the client with
all its kinds of calls, streams, the bstates query, updates, messages, the evaluator,
patch files; proofs of every safety property of the modules without `RECURSIVE`
operators; the at-least-once contract and its refinement; and the measures by which
`Publish`, calls, sweeps, queries and updates come to an end.

Next:

1. `NoOrphan` with a bound instead of `SameEnd`: the rows that a redeployment orphans.
2. The second schema cache, `bstates/schemas.go`, whose entries are looked up under
   one lock and removed under another.
3. Tunnels: two streams and a network interface.

## 6. What is not modelled

- The contents of payloads, wording, tables and CSV files of the CLI, logging.
- TLS, the MQTT library, the pipeline library, SQL itself, the cloud and the device,
  except for how they answer; SQLite's file handling beyond "open" and "closed".
- The compression of MQTT messages, and what `receiveMessage` drops because it does not
  decompress, unmarshal or know the codec; `Iden`; a parent context that is cancelled, and
  the configuration file.
- `bstates/schemas.go` (2. of the plan) and the deltas of `bstates`.
- `cmd_tun.go` (3. of the plan).
- Of the updates: the launcher as target, alternative paths, and `move-gsr2 prod`,
  whose outcome depends on what the device answers to the removal of a file that
  is not there.
- The methods of `menhir.go`, `address.go` and their like, and the CLI's commands
  that make one call: there is no state behind them.
- The individual message types: a field, its name and its tag are data, and what the
  hooks do with one is in `Messages`.
