# Webfuse activity analyzer: TLA+ models, model checking and proofs

The repository records what happens in Webfuse co-browsing sessions. A browser
extension captures events and posts them in batches; a Go server stores them in
PostgreSQL next to the session rows that Webfuse's webhooks maintain; a dashboard
shows sessions live over server-sent events (SSE) and replays ended ones. This
directory holds TLA+ specifications of that system, configurations that check
them with TLC, and proofs checked by TLAPS. Source paths below are relative to
`src/`.

## 1. Inventory

### Server (`server/`)

| Component | State | Operations | Interacts with |
|---|---|---|---|
| Store (`internal/store`) | tables `sessions`, `events` | one SQL statement per method, each its own transaction | called by the lifecycle only |
| Session lifecycle (`internal/session/lifecycle.go`) | none of its own | `Started`, `Ended`, `ParticipantsChanged`, `RecordEvents`, `ReapIdle`, reads | statements of the store, then `Hub.Publish` |
| Webhook adapter (`internal/webhook`) | none | verify, decode, `apply` by category | lifecycle; Webfuse retries deliveries |
| Ingest adapter (`internal/ingest`) | none | validate a whole batch, `RecordEvents`, 202/400/500 | lifecycle; the extension resends batches |
| Reaper (`internal/reaper`) | ticker | one sweep at a time | lifecycle |
| Stream hub (`internal/stream/hub.go`) | next id, subscribers, closed | `Publish`, `Subscribe`, cancel, `Close` | SSE requests through bounded channels |
| SSE requests (`internal/stream/sse.go`) | one goroutine per client | subscribe, receive, write, end | hub, browser |
| Read API (`internal/api`) | none | list, get, events | lifecycle reads |
| Process (`cmd/server/main.go`, `internal/config`) | signal context, the goroutines it starts | load, open, migrate, listen, shutdown | closes the listener, the hub, the database |
| HTTP helpers (`internal/httpx`) | none | read a JSON body, CORS, write an answer | every handler |

Hard behaviour: every request is a goroutine, so statements and `Publish` calls
of several requests and of the reaper interleave; there are no transactions over
several statements; webhooks and batches arrive late, twice and out of order; a
statement may fail, or be committed with its answer lost; the process may stop
anywhere; subscribers may be slow; a signal may come at any step of the start, and
the shutdown meets requests that hang and streams that never end by themselves.

What makes it correct: webhooks apply in increasing sequence order and never
revive an ended session; every event is stored once; what is announced is true
and announced at most once; a stream has no gap; idle sessions end; a request that
is refused has left no trace, and an answer says what was done; shutdown waits for
the requests before it closes the database and is not held up by streams.

### Extension (`extension/src/`)

| Component | State | Operations |
|---|---|---|
| Recorder (`background/recorder.ts`) | `seq`, `ended` | `record`, `observeUrl`, `end` |
| Batcher (`background/batcher.ts`) | queue, timer, sending, failures | `add`, `flush`, timer callback, end of a send |
| Transport (`background/transport.ts`) | none | one `fetch` per batch, throws unless 2xx |
| Background entry (`background/index.ts`, `session.ts`) | client id per boot | wiring, session_ended listeners |
| Meter, sensitive URL detector | sliding windows | `push`, `snapshot`, `observe` |
| Capture, popup | DOM listeners, rendering | inputs and outputs of the above |

Hard behaviour: an awaited fetch separates two steps of `flush`, and anything may
be added in between; timers race with key events, full queues and the end of a
send; answers get lost; the browser may stop the background at any time.

What makes it correct: nothing recorded is lost, reordered or stored twice as
long as the background lives, and no queued event waits for a wake-up that never
comes; a sensitive URL that two sources report yields one event, and the rate of
events is right although they arrive late and out of order.

### Dashboard (`server/web/`)

`session.html` keeps a live feed (backfill, stream, reconnect), switches to replay
when the session ends, and plays the log; `index.html` keeps the list of sessions
from list responses and stream messages; `app.js` has the stream client and the
meter. Hard behaviour: responses and stream frames interleave, responses may be
older than frames already applied, connections break, timers interleave with
clicks.

What makes it correct: the feed shows each event once and lacks none the page could
have had, and a page follows the end of its session; the player's timer, position
and feed stay together; a quiet overview shows the sessions as they are stored.

## 2. Modules

| Module | Models | Composes |
|---|---|---|
| `SessionStore` | rows, guards of the UPDATE statements, the idle rule, stream messages | |
| `SessionTable` | abstract specification: what the tables and the stream promise | `SessionStore` |
| `Lifecycle` | the lifecycle with webhook and ingest requests, the reaper, failures, restarts | `SessionStore`, implements `SessionTable` |
| `LifecycleProofs` | theorems about `Lifecycle`: types, the single announcements | `Lifecycle` |
| `LifecycleRefinement` | theorems about `Lifecycle`: its refinement of `SessionTable`, webhooks, batches, the sweep, the balance of writes and announcements | `LifecycleProofs` |
| `Hub` | the hub and its SSE requests | |
| `Batcher` | the batcher's code between two awaits, as operators on its state | |
| `EventDelivery` | abstract specification: each boot's events reach the table in order, once | |
| `Recorder` | recorder, batcher, transport, network, ingest request, restarts of the background | `Batcher`, implements `EventDelivery` |
| `RecorderProofs` | theorems about `Recorder` and the operators of `Batcher` | `Recorder` |
| `HubProofs` | theorems about `Hub` | `Hub` |
| `Intake` | what the handlers check before they call the lifecycle, as operators on a request | |
| `Server` | the process: configuration, start, signal, shutdown; the reaper's loop; requests and a stream in it | `Intake` |
| `ServerProofs` | theorems about `Server` and the gates of `Intake` | `Server` |
| `Background` | the recorder with the meter and the sensitive URL detector, under late events | |
| `BackgroundProofs` | theorems about `Background` | `Background` |
| `SessionPage` | the session page: backfill, stream, reconnect, switch to replay, player | an abstraction of `Lifecycle` and `Hub` as its server |
| `SessionPageProofs` | theorems about `SessionPage` | `SessionPage` |
| `OverviewPage` | the overview page: list, stream, reconnect, order of the rows | an abstraction of `Lifecycle`, `Hub` and the list query as its server |
| `OverviewPageProofs` | theorems about `OverviewPage` | `OverviewPage` |
| `MCLifecycle`, `MCRecorder`, `MCHub`, `MCServer`, `MCOverviewPage` | instances for TLC | |

### Lifecycle

`sessions` and `events` are the tables, `published` the sequence of messages handed
to `Hub.Publish`. `proc[w]` is a request goroutine: `pc` names the statement or call
it runs next, `snap` is the local row `s` of the Go code, `rest` what is left of the
batch. One action is one statement or one `Publish` call, because that is where
requests interleave; code between two of them is folded into the action before.
`Receive` starts a request for any delivery of the constant sets `Webhooks` and
`Batches`, any number of times, so retries, duplicates and reordering need no
actions of their own. `InsertConflict` and `GetExisting` are the two statements of
`FindOrCreateSession`. `reaper` is the sweep: `todo` is the list it read, `at` the
time it took before reading. The order in which candidates are ended is left open.

`Narrowed` is what `store.go` makes of a webhook's participant count, which the column
holds as an int32: it wraps around above `MaxCount`. `reaper.listed` is a history: the
rows as the sweep's listing read them.

`RequestFails` and `SweepFails` end a call at any step: a statement that fails, and
one that was committed although its answer was lost, look the same to the caller.
`Restart` clears everything but the tables. `writes` is a history variable that counts
the committed changes of a row.

`SessionTable` says what all this amounts to: a row is created live, takes webhooks
in increasing order, ends once and is final; an event is stored once and kept; an
event is announced at most once and after it is stored; an ended session is
announced at most once with its final row, and a live announcement may be late but
never ahead of the row. The refinement mapping is the identity on `sessions`,
`events` and `published`; every other variable of `Lifecycle` is hidden.

### Hub

Methods of the hub run under its mutex and never block, so each is one action. A
stream is one SSE request; it can be slow between `Receive` and `Write`, and its
channel, a sequence of at most `Buffer` ids, fills up meanwhile. `Ping` is the comment
line the ticker writes. A write has no deadline and may never return. `closes` counts
how often a channel was closed, since a second time is a panic in Go. `since` and
`until` are history variables: the length of `published` when a stream subscribed and
when it was removed. `Returns` includes the deferred cancel.

### Batcher and Recorder

JavaScript runs one callback at a time, so the code of `flush` up to its `await`, and
the code after it, are atomic; `Batcher` defines them as operators on one record.
`Recorder` runs them: `Record` is the message listener's call, with the recorder's
gate, sequence number and `add`; a send that starts puts a request into `requests`.
The server inserts the events of a request one by one (`StoreEvent`), may fail in
the middle, and may go on with a request whose answer nobody awaits any more.
`LoseConnection` makes the awaited fetch fail whatever the server did or does.
`Reboot` is the browser stopping and starting the background: queue and timer are
gone, the new boot has a new client id. `timer` is {} or the set of the one delay it
was armed with; when it fires is left open. `failures` stops at `FailureCap`, from
where the backoff does not change any more.

`EventDelivery` promises that of every boot the table holds a prefix of what it
recorded, each event once and in order.

### SessionPage

The page is one thread; its callbacks and the code after each `await` are actions.
`calls` are the API calls in flight: the server evaluates one at some moment
(`Answer`), the page uses the answer later (`Boot`, `Backfill`, `Reread`, `Replay`),
so an answer may be older than frames handled before it. `frames` is what is on its
way over the EventSource; `LoseConnection` loses any suffix of it and the browser
connects again. `holding` is `pending !== null` in `startLive`, `held` its content.
`missed` is a history variable: what the server published while the stream was not
open, or what was lost with a connection, since the backfill's query, and what it
never published. `LiveFeedComplete` says that nothing else is ever missing. The server
part keeps commit and publish apart, as `Lifecycle` does, and a commit whose answer is
lost is never announced (`Commits`, a fault).

`players` is what calls of `startReplay` have set up: the closure's `events`, `pos`
and `playing`, and how many of its timers are pending. `Step` is the timer's callback;
`Play`, `Pause`, `ToStart`, `ToEnd` and `Scrub` are the handlers of the controls, which
drive the latest player and only while they are enabled (`enabled`; `renderControls`
re-enables two of them on every call, whichever player it belongs to).
A page can start the replay twice, because `onReconnect` and `onSession` both
switch and the first does so after an await; then the first player's timer goes on
writing into the feed. A backfill that arrives after the switch appends the log to
it. `disturbed` records that one of the two has happened.

### OverviewPage

`table` and `keys` are the server's tables, `entries` the page's `Map` of rows and
`order` the rows of the HTML table. `LoadList` is `loadList` after its await, for
every row of the answer, with the sorting at its end; at boot it also subscribes.
`UpsertFromStream` and `UpsertFromList` are the two uses of `upsertSession`: the
answer of the list carries a key event count, a stream message does not. As for the
session page, a commit may stay unannounced (`Commits`). `place` is called only when
the status has changed. Rows that compare as equal may be in either order. `missed`,
`failed`, `newest`, `heard`, `listed` and `blurred` are history variables; with them
`SettledOverviewIsCurrent` names every way in which a quiet page can differ from the
tables.

### Server and Intake

`Intake` has one operator per check, in the order of the code: `ReadBody`, `Verify`,
`Parse`, `Decodes` for webhooks; `ReadJSON`, `Validate`, `ValidateEvent` for batches;
`ParseLimit` for the list. A request is a record of what the checks tell apart: sizes
and lengths against the limits, over which bytes the signature was made, what kind of
data it has. The `tail` of a batch is what follows its JSON value: `dec.More`, with
which `ReadJSON` looks for it, reports none before a closing bracket or a read error.
`Gate` is the status a request is refused with, or `Pass`.

`Server` runs `run` of `main.go`: `main` is where it is, `exit` why it returns,
`ctxDone` the signal context. `listener`, `reaper`, `hub`, `request` and `watcher` are
the other goroutines: `ListenAndServe`, the reaper's loop, the hub.Close that
`Shutdown` starts, an ordinary request and an SSE request. A request that passes its
gate takes `StoreCalls` calls of the store, each a step that succeeds, finds nothing,
fails or hangs; then its answer is being written (`writing`), which lasts as long as
the client takes, and holds `Shutdown` like the calls do. What the calls do is in
`Lifecycle`, whose `Restart` stands for all of this module. A Duration is a number
modulo `2^WordSize`, so that `seconds` wraps as the product with `time.Second` does.
`NewTicker` panics on an interval that is not positive, which ends the process.

### Background

A captured event carries the time at which a content script made it and arrives up to
`MaxLag` later. `Record`, `RecordNavigation` and `ObserveUrl` are the paths through the
recorder with `accept`, `push` and `observe`; `Subscribe` is a popup's snapshot. `window`
is `rateWindowTs`, `seen` the detector's map. `prune` of the meter works from the front,
`prune` of the detector by the time of the event at hand. `accepted`, `observed` and
`emitted` are history variables, against which the rate and the deduplication are
compared. The batcher behind the recorder is left to `Recorder`, which in turn lets
the detector decide either way.

## 3. Runs

| Run | Module, cfg | Question |
|---|---|---|
| `webhooks` | `MCLifecycle`, `LifecycleWebhooks.cfg` | do concurrent, repeated, reordered webhooks keep the row and the stream right? |
| `ingest` | `MCLifecycle`, `LifecycleIngest.cfg` | do overlapping batches store and announce events once, and is every write announced? |
| `reaper` | `MCLifecycle`, `LifecycleReaper.cfg` | are idle sessions ended, and which active ones can be? |
| `delivery` | `MCRecorder`, `RecorderDelivery.cfg` | do recorded events reach the table once, in order and eventually? |
| `streams` | `MCHub`, `HubStreams.cfg` | are streams gapless, channels closed once, slow clients isolated, and does shutdown end them? |
| `page` | `SessionPage`, `SessionPageLive.cfg` | does the live feed show each event once, and what can it lack? does the page follow the end? do timer, position and feed of the replay stay together? |
| `server` | `MCServer`, `Server.cfg` | do answers say what was done, does shutdown wait for the requests and not for streams, and end, does the reaper go on? |
| `overview` | `MCOverviewPage`, `OverviewPage.cfg` | how can a quiet overview differ from the tables, do counts move backwards, are live rows first? |
| `background` | `Background`, `Background.cfg` | how far off is the rate, how often is a sensitive URL recorded, when events come late? |
| `stale_live` | `MCLifecycle`, `LifecycleStaleLive.cfg` | violation: a live message can follow the ended one |
| `key_events` | `MCRecorder`, `RecorderKeyEvents.cfg` | violation: a key event can wait for the interval timer |
| `page_gap` | `SessionPage`, `SessionPageMissed.cfg` | violation: an event between the backfill and the opening of the stream is never shown |

### Bounds

Two request workers are enough for every race the lifecycle has: its hazards are pairs
(two deliveries, a delivery and a sweep), and a worker that has answered takes the
next delivery, so longer histories still occur. The webhook scenario has four
deliveries of one session because rows of different sessions never meet in a
statement. One fault is enough to separate a commit from its announcement and from its
retry. In the `webhooks` run the clock ticks once and the idle time is zero, so that
sweeps race with the webhooks to end the row; one webhook carries a count of seven,
which an int32 of `MaxCount` two stores as one. The clock stands still in the `ingest`
run, where no sweep finds anything to end; in the `reaper` run it makes three ticks
with an idle time of one, enough for a session to become idle, be listed, become
active in between and become idle again. `WorkerSymmetry` is used only in runs without
liveness properties.

`delivery`: batches of two, three events in the first boot and one in the second,
two faults. Three events make a queue longer than one batch after a failure; two
faults allow a batch to be lost twice, or lost and then half stored. The backoff is
at its maximum from the second failure.

`streams`: two streams, channels of two messages, three publications. The third fills
a channel nobody reads; one message matches both filters, the other only the
overview's. The real buffer of 64 differs in length only.

`page`: two events and the end give every order of a backfilled, a held and a live
frame; two faults allow a lost connection during the first and a failed read after it,
two reconnects and so two players, or an event or an end that is never announced. A
log of two has a first, a middle and a last position. Deadlock is not checked there:
the page rests when nothing is in flight and nothing more happens to the session.

`server`: every limit of `Intake` is one or two, and requests have each field on both
sides of it; fields that decide together (encoding with size and signature, category
with data) are combined. The settings of the idle time and of the tick both include
one that wraps. One ordinary request and one stream at a time are enough because
requests meet only in the database, which is `Lifecycle`'s subject; a new one may
follow an answered one. With a `WordSize` of 4 a setting of eight seconds is the first
that wraps. Deadlock is not checked: the process ends.

`overview`: two sessions are what an order needs, and they are interchangeable
(`Interchangeable`; the run has no liveness property). Two changes allow a row to be
created and ended, or changed twice; two key events a count that a list and a message
disagree on; one fault a lost connection with what was under way, a failed call, or a
commit that is never announced. Deadlock is not checked, as for `page`.

`background`: the two windows do not depend on each other, so their real ratio (two
seconds and ten) does not matter; the lag is as long as one of them and shorter than
the other. Six units of time let a URL be forgotten and reported again; four events
fill the ring of two twice.

### Fairness

- `Lifecycle!FairSpec`: every worker with a statement to run eventually runs it (a
  goroutine is not starved, a statement returns or fails), the sweep is started by a
  ticker and goes on, time passes. No delivery has to arrive; a fault never has to
  happen, and at most `MaxFaults` do.
- `Recorder!FairSpec`: a pending timer fires, an awaited fetch that has a result
  settles, and the server gets on with the awaited request. Recording, ending and
  restarting are never forced.
- `Hub!FairSpec`: a loop that is again and again back in its select takes what its
  channel holds, or sees that the channel is closed: strong fairness of `Receive` and
  `EndOfChannel`, because pings go on meanwhile and `select` picks at random. Nothing
  obliges a write to end, by the client's reading or by an error.
- `SessionPage!FairSpec`: what a goroutine is about to publish is published, calls are
  answered, the browser connects and runs its callbacks. Losing a connection, a call
  or an announcement is never forced and happens at most `MaxFaults` times.
- `Server!FairSpec`: goroutines that have something to run take their steps, the
  ticker ticks, the shutdown's deadline passes, but not before the goroutines that
  have something to run have run it (ten seconds are long). A body need not arrive; a
  store call, a sweep, or the write of an answer or a message need never end. Opening
  the database ends by the ping's timeout; migrations are only forced to end once the
  signal has cancelled their context. A stream whose channel is closed may still be in
  a write for each message its buffer holds, and is back in its select after each:
  strong fairness.
- `OverviewPage` and `Background` are checked for safety only.

### What the violation runs show

- `stale_live`: `Started` commits, `Ended` commits and publishes, `Started` publishes. A
  dashboard that applies messages as they come shows the session live again.
- `key_events`: a plain event arms the interval timer while a send is awaited, a key
  event follows, the send succeeds, and `schedule(0)` keeps the older timer.
- `page_gap`: the log is read, an event is stored and published, then the server
  accepts the stream. The comment at `session.html:105` takes the held frames to
  cover that time; they start only when the stream is open.

Comments the code does not quite keep, which have no run of their own; the models
follow the code:

- `lifecycle.go:95` says that `Started` returns the current row either way. When an
  ended webhook commits between its read and its guarded update, it returns the row it
  read. Its caller uses only `changed`.
- `webhook/handler.go:121` expects the participant count to drift low only. Two
  concurrent `participant_left` deliveries that read the same count take off one, and
  leave it too high until the next joined.
- `httpx/json.go:28` says that `ReadJSON` rejects trailing data. `dec.More`, made for
  the elements of an array or object, does not see data that begins with `}` or `]`,
  nor what lies behind a read error; `ReadJSON` of `Intake` accepts such batches, and
  `AnswersTellWhatWasDone` says that it accepts no others.
- `config.go:74` says that `seconds` parses a positive number of seconds. A setting
  too large for a Duration wraps; a negative tick makes `NewTicker` panic (which
  `ReaperKeepsSweeping` has to except), a negative idle time makes every live session
  idle.
- `popup.ts:95` speaks of a decaying rate; the popup renders the rate it was last
  sent.


## 4. Proofs

Every invariant and every action property that a passing run checks, and both
refinements, are proved: for all sets of sessions, webhooks, batches, streams and
requests, and for every value of the limits and bounds. Each proof module has one
inductive invariant `Inv` (`Base` for the hub; several that build on each other for
the lifecycle) and lemmas that show for each action, or for a few alike, that it is
kept.

| Module | Theorem | Property of a run |
|---|---|---|
| `LifecycleProofs` | `TypeCorrect` | `TypeOK` |
| | `EndIsAnnouncedOnce` | `EndAnnouncedOnce` |
| | `ActivityIsAnnouncedOnce` | `ActivityAnnouncedOnce` |
| `LifecycleRefinement` | `LifecycleImplementsSessionTable` | `ImplementsSessionTable` |
| | `WebhooksAreNotLost` | `WebhookAppliedOrSuperseded` |
| | `CountIsOfLastWebhook` | `CountOfLastWebhook` |
| | `AcceptedBatchesAreStored` | `AcceptedBatchIsStored` |
| | `ReaperMissesOnlyTheSweep` | `ReapsOnlyIdleAtSweepStart` |
| | `AnnouncesOnlyChanges` | `PublishesOnlyChanges` |
| | `NoWriteIsSilent` | `EveryWritePublishes` |
| `HubProofs` | `HubTypes` | `TypeOK` |
| | `ClosedOnce` | `ChannelClosedOnce` |
| | `DropsOnlyFull` | `DropsOnlyFullStreams` |
| | `FeedsHaveNoGaps` | `GaplessFeed` |
| `RecorderProofs` | `RecorderTypes` | `TypeOK` |
| | `NothingIsForgotten` | `PendingIsTheUnstoredTail` |
| | `QueueIsWatched` | `NoLostWakeUp` |
| | `RecorderImplementsEventDelivery` | `ImplementsEventDelivery` |
| `ServerProofs` | `ServerTypes` | `TypeOK` |
| | `AnswersAreTruthful` | `AnswersTellWhatWasDone` |
| | `DatabaseClosesLast` | `DatabaseOutlivesRequests` |
| `OverviewPageProofs` | `OverviewTypes` | `TypeOK` |
| | `CountsKeepWhatWasSeen` | `KeyCountKeepsWhatWasSeen` |
| | `LiveRowsStandFirst` | `LiveRowsFirst` |
| | `SettledOverviewIsRight` | `SettledOverviewIsCurrent` |
| `SessionPageProofs` | `SessionPageTypes` | `TypeOK` |
| | `FeedShowsOnce` | `LiveFeedOnce` |
| | `FeedDropsNothing` | `LiveFeedComplete` |
| | `ReplayFollowsEnd` | `ReplayOnlyAfterEnd` |
| | `ReplayStaysInStep` | `PlaybackInStep` |
| `BackgroundProofs` | `BackgroundTypes` | `TypeOK` |
| | `RateIsRight` | `RateRightUpToLag` |
| | `SensitiveUrlsOnce` | `SensitiveUrlOncePerWindow` |

### Assumptions

They are the named ASSUMEs of the modules, which TLC evaluates on every run: bounds
are natural numbers; limits, buffers and batch sizes are positive; webhooks have
positive sequence numbers and batches positive event numbers (`Parse` and
`validateEvent` refuse others, with which no call of the lifecycle is reached);
filters name a session or the overview; the page's default limit is not above its
maximum. `BatcherAssumption` says that the cap on `failures` lies where the
backoff has reached its maximum, so that the cap cuts off nothing. `ServerAssumption`
says that a request has one of the three forms of `Intake`, whose fields range over
all values the checks tell apart. `OverviewAssumption` makes the set of sessions
finite, since `order` lists them.

### Lifecycle

`TypeOK` is not inductive alone: that a `CASE` of `FirstStep` or the tail of `rest` is
well-typed depends on which request a worker is at. `LocalsOK` adds that link
(`LifecycleTypes` proves both together). `EndAnnouncedOnce` needs to know who may
still announce an ended row: at most one goroutine holds it, it equals the row in the
table, and it has not been published yet. That holds because the guard
`status = 'live'` makes ending a row a step only one caller can take and nothing
changes the row afterwards. `ActivityAnnouncedOnce` is the same argument for events:
the goroutine between `InsertEvent` and its `Publish` is the only one that inserted
that event, since the unique constraint lets one insert through.

`LifecycleRefinement` starts from `TablesOnlyGrow`: a statement leaves a row as it is
or moves it forward (`Follows`), and events stay. So what a request has read remains a
lower bound for what it finds later. `RowsHeld` says this of every request at every
statement: the row of its session is there and at least as far as `snap`, a live row
has no end, and a webhook past its guarded update has been applied or superseded. From
it and the announcement rights of `LifecycleProofs` every step is shown to be one of
`SessionTable` or to leave its variables (`StepsAreAllowed`), since a live
announcement is never ahead of its row. `CountsKept` ties a row's count to the webhook
that its sequence number names: the narrowed count it carried, or for a departure one
less than a count that some webhook carried; `BatchesKept` says what of a batch is
stored at each point of the loop; `SweepKept` says what the listing knew of the
candidates that are left. `PublishesOnlyChanges` is an account: the announcements of a
session, the goroutines that hold a right to one, and the sweep's, together are no
more than `writes` (`WritesBalanced`). The finite sets of holders change by one member
at a time (`BalanceWrite`, `BalancePublish`). `EveryWritePublishes` goes the other way
while no call has failed: the current row and each event are in `published` or owed by
whoever wrote them. It is inductive with the announced rows as they are.

### Hub

The invariant `Base` adds `StreamsOK` to the types and to
`ChannelClosedOnce`: a buffer is never over its limit, only a stream in its loop is
registered, a new one has accepted nothing, and the ids at which streams came and
left lie in the past. `ChannelClosedOnce` needs the second of these (a stream that
has not subscribed cannot be removed), `DropsOnlyFullStreams` the first.
`GaplessFeed` is then inductive relative to `Base`: a step leaves a stream's accepted
ids and its feed alone (`GaplessKept`), or adds the newest id to both, or the stream
has just subscribed and both are empty. That messages move from the channel to the
handler's hand and to the client without changing what is accepted is
`TakeFromChannel`; that the newest id keeps the order is `AppendGreater`.

### Recorder

The batcher's operators are treated first, each on its own: `StartSend`, `Flush`, `Add`,
`SendSucceeded` and `SendFailed` keep the queue and the batch in flight one run of
consecutive numbers and keep a wake-up for what is queued (`BatcherOK`). The
invariant adds where that run may start: not behind what is stored, and the same for
what every ingest request has still to insert, whether it is awaited or not
(`RequestFits`). So `StoreEvent` stores the next number or one that is there already
(`NextRow`), which is the whole refinement. That the backoff is a number rests on
`2^n` being one (`TwoToThe`).

### Server

The gates are pure: `PassedFacts` says for each form of request what passing means
(`Informative`, `Acceptable`), `GateAnswers` which statuses a refusal can have.
`AnswersTellWhatWasDone` is then kept by each step of a request. The end of the process
is an invariant of its own (`RunOK`, `ListenerOK`): where `run` is fixes which of the
deferred calls have been made, and why it returns fixes whether requests were waited
for.

### Overview page

Two facts carry the invariant. Answers of the list hold states of the same growing sets
of key events, so of two of them one contains the other, and the larger count is the
later one: hence the page, which keeps the larger, never falls behind what it has
seen. And a row that the page does not show as it is stored is covered: by a message
that is to be published or on its way, by a call of the list, or because it is
recorded as missed or misordered (`Covered`); for a quiet page only the latter is
left. `PlaceSorts` shows that rows placed by the page's comparison have the live ones on
top; a callback that places nothing has changed no status.

### Session page

What `startLive` makes of its feed is a recursive function of the events applied
(`AfterAll`). That it exists, and that the feed stays free of duplicates and takes in
all that was applied, goes by induction on their number. The library's induction
theorems take an operator and cannot be used; `SetInduction` states induction for a
set instead and follows from the well-foundedness of `<` (`NatLessThanWellFounded`,
`WFMin`). Until the switch the invariant says that feed and `seen` hold the same stored
events and that everything else is held, under way, or missed (`LiveFeedOK`,
`LiveFeedComplete`, `CallsOK`). After the switch it says that nothing of the stream is
left and that, unless disturbed, one call or one player is there (`ModesOK`,
`PlayersOK`). The controls are few operators on a player, and one lemma for each says
what they do to its timers (`SoughtFact`, `StoppedFact`, `ScheduledFact`).

### Background

`PrunedDropsTheOld` says what pruning an unordered window from its front leaves: a
suffix, whose front is inside the window, after times that are all out of it. The
invariant is that the window is a suffix of all accepted times and that what was
dropped is out of the window by the clock for good (`WindowOf`), and that no time lies
more than `MaxLag` before one that arrived earlier (`Arrived`). The two bounds on the
rate compare the suffix with the sets `Since` counts. For the detector, every emission
is the one it knows or a whole window old by the clock (`KnownOrOld`), although it
forgets by the time of whatever event comes; a later event is at most `MaxLag` behind
the clock, which is where the lag enters the bound.

### Only model-checked

Liveness, under the fairness of section 3, stays with TLC, because TLAPS does not
reason about fairness and ENABLED: `IdleSessionsAreReaped`, `RecordedEventsAreStored`,
`ClosedHubEndsStreams`, `PageFollowsEnd`, `StreamsDoNotHoldShutdown`,
`SignalEndsTheProcess` and `ReaperKeepsSweeping`. The three runs that expect a
violation are counterexamples and need no proof. No module declares a RECURSIVE
operator; recursion is written as functions.

## 5. Not modelled

- Capture: DOM listeners that turn browser events into messages. Their output, late
  and in any order, is the input of `Recorder` and `Background`.
- Popup: renders the last meter state it was sent. The meter of the dashboard's
  session page restates the feed as counters.
- Code generated by sqlc, represented by `queries.sql`; build and upload scripts;
  static files, `/healthz`, caching headers and logging.
- Columns no statement tests (`space_id`, `metadata`, `created_at`), the names of the
  fields of JSON answers, and an event's data beyond its kind and size.
- The latest key event of a session on the overview, and the limits of lists and feeds
  where they only cut off old rows.
- What a negative idle time, from a setting that wraps, does to the sessions: `Server`
  has the wrap, `Lifecycle` an idle time that is not negative.
- A missing `COLLECTOR_URL`, with which the transport drops batches on purpose.

The HMAC is a function that tells over which bytes a signature was made; gzip and JSON
decode or do not. PostgreSQL is taken at its word: a statement is atomic and sees all
committed rows. `net/http` and `database/sql` are modelled by what `main.go` relies on.

## 6. Plan

What is modelled is what the code keeps state in, and its safety is proved. What is
left, in this order:

1. The abstract specifications: theorems about `SessionTable` and `EventDelivery`
   themselves (an ended row is final, a stored event stays), which hold of `Lifecycle`
   and `Recorder` through the refinements.
2. The gates of `Intake` one by one: the status of every request at each limit, as
   lemmas that do not go through `Server`.
3. The preconditions of the liveness properties as far as they are safety: that a
   waiting goroutine is waiting for something that is under way.
