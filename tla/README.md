# AI-Revolver: specification and verification

TLA+ specifications of the proxy in `src/backend`, the TLC runs that check them
on small instances, and TLAPS proofs of what they promise for every value of the
constants. `PROJECT.json` lists the runs, maps every definition to the lines
it was translated from, and names for each property a faulty variant of the code
(an operator called "a faulty variant" in the modules) that violates it.

## 1. The system

AI-Revolver is an HTTP proxy in front of several providers of language models.
A request names a provider and a model or leaves the choice to the proxy, which
tries the models in an order that depends on how they have behaved so far, and
fails over from one to the next.

| Component | Source (`src/backend/`) | State it keeps | Operations | Used by |
|---|---|---|---|---|
| circuit breaker | `proxy/failures.go` | a track per `provider:model` (status, reason, deadline, counts, latency), failures in a row per provider, two settings, the channel `StatusEvents` | `RecordFailure`, `RecordSuccess`, `ResetFailures`, `ResetAllFailures`, `CleanupOldEntries`, setters; readers `GetModelStatus`, `GetModelLatency`, `GetBlockedModels`, `GetBestFallbackModel` | every request, the warm-up, the cleanup ticker, the MCP tools, the configuration handler |
| candidate selection | `proxy/selector.go`, `getCandidates` | none | `getAllCandidates` | requests, warm-up |
| failover | `proxy/proxy.go`, `proxy/last_model.go` | the loop of a request (candidates left, attempts, skipped), the last successful model | `Proxy`, `Stream`, `tryProviders`, `tryFallbackModel`, `tryFallbackStreamModel` | the handlers of `main.go`, the warm-up |
| stream relay | `proxy/proxy.go` (gate, `TrackingResponseWriter`, `stream*Response`), `chatCompletionsHandler` | the lines held back, whether something was written | `FeedLine`, `Finish`, the attempts of `Stream`, the end of the answer | streaming requests |
| statistics queue | `db/db.go`, `main` | a channel of jobs, a batch per worker, the database | `LogRequest` and its siblings, `worker`, `flushBatch`, `InitDB`, `Close` | requests, warm-up, shutdown |
| MCP sessions | `proxy/streamable.go` | sessions with a notifier each, time of the last report per provider | create, use, expire, delete; SSE handler; `OnPersistentFailure` | MCP clients, and `RecordFailure` through the callback |
| configuration store | `config/config.go`, `proxy/mcp_loadout.go`, `handleConfigUpdate`, SIGHUP | the configuration in memory, its file, the temporary file, the backups | `UpdateConfig`, `LoadConfig`, the loadout tools | all |
| warm-up | `proxy/warmup.go` | requests in flight, debounce timers, the last top two | `Start`, `handleStatusChange`, `handlePeriodicWarmup`, `sendWarmupRequest` | status events, its ticker and timers |
| metrics | `proxy/metrics.go` | a sliding window of requests per provider | report, read, cleanup | statistics handler |
| logger | `logger/` | a lock, a channel, a ring buffer | `Init`, `send`, `asyncWriter`, `Shutdown`; the readers of the ring | all |
| process | `main.go` | the server, the signal | start, serve, shut down | the operating system |
| request pool | `main.go`, `RequestPool` of `proxy/proxy.go` | request objects that are used again | `readProxyRequest`, the handlers' `Get` and `Put` | the handlers |
| handlers, MCP routing | `main.go`, `proxy/streamable.go`, `proxy/mcp_tools.go` | none of their own | the HTTP and JSON-RPC API | clients |

**How they interact.** A handler takes a request object from a pool and calls
`Proxy` or `Stream`. These ask the selector for candidates; the selector reads
the breaker and the last successful model. Each attempt ends in a call of a
recorder of the breaker, which holds one mutex; from the third failure of a
provider in a row on `RecordFailure` lets go of the mutex, calls
`OnPersistentFailure`, which broadcasts to the MCP sessions under a mutex of its
own, and goes on. The recorders put status changes on a channel that the warm-up
reads. Requests and recorders put statistics on the queue without waiting.
Configuration updates come from the dashboard (which then clears the last model
and resets the breaker), from MCP tools and from the user, who edits the file by
hand and sends a SIGHUP.

**What is hard.**

* interleavings: the gap in `RecordFailure`; goroutines that fail at the same
  time; sessions deleted while a broadcast goes on; indices and models looked up
  before the lock of the configuration is taken;
* stale state: an order of candidates chosen at one time and used later; a
  fallback to a model of a provider that is gone; a configuration file that was
  edited and not reloaded;
* failure and disconnection: which outcome of an attempt counts against a model,
  when a request may fail over and when it no longer may;
* order: who ends a streamed answer, and what ends first at a shutdown;
* crashes: between backup, temporary file, rename and memory;
* limits: full channels, deadlines at equality, the backoff's 64-bit duration, a
  ring that wraps around;
* reuse: a request object that another request has used.

**What makes each component correct.** Breaker: a track is in one of three
shapes, its readers agree, and a block ends only by time, success or reset.
Selection: no usable model is lost, repeated or out of its tier. Failover: no
model twice, a bounded number of attempts, one writer, failure only when
everything usable was tried, an end. Relay: the client sees the lines of one
model, complete and in order, and hears an end. Queue: an accepted job is in one
place and is written, and the end waits for it. Sessions: notifiers closed once,
reports apart and in order, nobody hangs. Configuration: the file is whole, an
update is made of what the program works with and backs up what it replaces, the
tools change what they name. Warm-up: one
request per model, no change of the order unnoticed, the best two warm. Logger:
one order, nothing taken is lost, no sender meets the closed channel. Process: it
ends, and in the right order. Request pool: an object has one user and says
nothing of an earlier one.

## 2. The modules

| Module | Models | Extends |
|---|---|---|
| `ModelTrack` | one track: what a failure, a success and a reset do to it, how readers see it (pure) | |
| `FailureTracker` | the breaker: tracks, callers, settings, events | `ModelTrack` |
| `Sequencing` | `Only`: the loops that keep some elements of a list in their order (pure) | |
| `Selector` | the order of candidates, as the set of orders `sort.Slice` allows (pure) | `Sequencing` |
| `Selection` | one selection, and the order it promises | `Selector` |
| `Failover` | requests over the shared breaker | `FailureTracker`, `Selector` |
| `ClientStream` | abstract: what the client of a stream is promised | |
| `StreamRelay` | one streamed answer, from the upstream's lines to the client's; implements `ClientStream` | |
| `AsyncQueue` | abstract: what a queue written behind its callers' backs promises | |
| `StatsQueue` | the queue of statistics and `main`; implements `AsyncQueue` | |
| `AsyncLog` | the logger and its ring; implements `AsyncQueue` | |
| `Shutdown` | the process: both queues, the goroutines that use both, the signal, the end | `StatsQueue`, `AsyncLog` |
| `Warmup` | the warm-up's loop, timers and requests in flight | |
| `McpSessions` | sessions, SSE handlers, sampling requests | |
| `ConfigStore` | updates, reloads, crashes | |
| `RequestPool` | the objects handlers decode requests into | |
| `MC*` | constants, symmetry and claims for TLC | |
| `SequenceProofs` | lemmas: induction, and the laws of `Only`, concatenation, flattening and orders of sequences | `Sequencing` |
| `*Proofs` | the theorems about the module of that name; `FailoverProofs` covers `Selection` and rests on `FailureTrackerProofs`, `ShutdownProofs` covers both queues, `HandlerProofs` what a handler works with (`StreamRelay` and `RequestPool`) | |

Three refinements connect them: `Failover` implements `FailureTracker`
(`TrackerSpec`), `StreamRelay` implements `ClientStream`
(`ImplementsClientStream`), and `StatsQueue` and `AsyncLog`, alone and inside
`Shutdown`, implement `AsyncQueue` (`DbIsAsyncQueue`, `LogIsAsyncQueue`).
`AsyncQueue` is the one module without lines of its own in the map: it says what
two channels of the program have in common.

### State and actions against the code

**FailureTracker.** A step is a critical section of `tracker.mu`.
`failures[k]` is the entry of `tracker.failures`, `NoTrack` where there is none.
`caller[c]` is where a goroutine is: `idle`, `callback` (between the two critical
sections of `RecordFailure`, with the pointer it holds; `attached` tells whether
the map still has that track) or `emit` (mutex released, event not yet sent).
`RecordFailure` is the first section, `ResumeRecordFailure` the second;
`EmitStatusChange` is the non-blocking send. `CleanupOldEntries` and
`ResetAllFailures` detach the pointers to what they remove. Reads of the clock
inside one section are one instant. `backoffLevel` and the durations are
integers; `Signed` is the wrap-around of the 64-bit `time.Duration`. The moving
average of latencies is replaced by what matters of it: a sample replaces 0, and
otherwise the average moves to any value between itself and the sample.

**Selector and Selection.** `GetAllCandidates(cfg, status, latency, last)` is the
set of sequences the code may return: ties in `sort.Slice` go either way
(`SortedBy`). `RoundRobin` is the double loop, `Tier` one of its three `append`s,
`LastFirst` the final assembly. `Selection` is one call of it: an input is chosen
in `SelectionInit`, and `Choose` returns one of the sequences. `Failover` calls it
in `Start`.

**Failover.** `req[r].pc`: `loop` (at the head of the loop of `tryProviders` or
`Stream`), `upstream` (a call is out), `failed`/`succeeded` (inside a recorder),
`fallback`, `done`. A request is also a caller of the breaker, so that its
recorder is interleaved with everybody else's, and its callback too. It keeps the
configuration it started with (`cfg`, `retries`): `Proxy` and `Stream` call
`GetConfig` once, so that two requests of one behaviour may work with different
ones. `canceled` is the state of its context; the loops look at it, the fallbacks
do not. `StreamBreaks` and `ClientWriteFails` are the two ends of a stream of
which a part has reached the client. `Background` callers stand for other
traffic: only the outcomes they record matter.

**StreamRelay and ClientStream.** A line is one of four kinds: with content,
other data, blank, `[DONE]`. `gate` is `substantiveSSEGate`, `written` is that of
`TrackingResponseWriter`, `wire` is what the client has, with the attempt each
line comes from. `format` decides how the lines come: a scanner over SSE, chunks
of Ollama, or one JSON answer turned into a stream. The breaker is left out: an
attempt may fail for any reason. In the mapping `heard` is `wire`, `model` is the
attempt of its first line, `over` says that `Stream` or the handler is done,
`gone` that it is because the client has disconnected. `BreakOff` and `BreakLate`
are the same lines of the handler: the error and the `[DONE]` behind a model that
broke off before its own `[DONE]`, and behind one that broke off after it.

**StatsQueue.** `main` goes through `start`, `serving`, `closing` (the server no
longer listens), `waiting` (in `wg.Wait`), `closed`, `exited`. A worker is in its
`select`, in `flush` (a transaction) or in `last` (the one behind the closed
channel). A send on the closed channel panics and ends the program unless a
request makes it, whose panic the server recovers: `EnqueuePanics`.

**AsyncLog.** `send` has two steps, `SendLocks` (the lock and the look at
`initialized`) and `SendPuts` (the non-blocking send and the unlock); `Shutdown`
is `SealLog` (under the lock), `CloseLog` and `ShutdownReturns` (`wg.Wait`). The
writer puts what it receives into the ring and prints it in a second step.
`RingGet` is what the readers of the log compute, with their filter by level.

**Shutdown.** The goroutine of the signal logs and calls `server.Shutdown`, which
makes `ListenAndServe` return; `main` then calls `db.Close` and
`logger.Shutdown`. Producers log as well as they report, under either order, and
are not waited for.

**Warmup.** `loop` is where `Start` is, with the models it has still to warm in
this round; the `select` is a choice among `HandleStatusChange`,
`HandlePeriodicWarmup` and `Stop`. `armed` are the timers of `debounceTimers`,
`fired` the goroutines of those that went off, `inFlight` the map of that name.
`top` is what `getTop2` would return: `Selector` and the breaker decide it, here
it changes freely, with a status event (which may find the channel full) or
without one (time, latency, configuration). `missed` marks the second kind, and
an event taken while the warm-up is switched off.

**RequestPool.** `Get` takes an object from the pool or a new one;
`ReadProxyRequest` is the reset of `readProxyRequest` and the decoding, which
leaves alone what the body does not name; `ReadFails` is the same with an error
at the end. The field `provider` stands for all fields the reset names alike, and
`calls` for the optional parts of a message.

**McpSessions.** `deletion` is the section that deletes sessions, in the three
steps of `deleteSessionUnsafe`; it excludes the other users of the manager's
lock, but not the senders of a broadcast, which hold only `samplingMu`, nor the
readers. The send of a broadcast has the alternatives Go has: `SendEvent`,
`PassOver` (canceled, or full) and `SendPanics`, chosen freely where more than
one is ready.

**ConfigStore.** `actor[a]` is a tool or an upload with the patch it has built
from what it read (`Decide`, one critical section), or that the client of
`update_config` has made (`UpdateConfigTool`); `UpdateConfig` is `BackupConfig`,
`ApplyPatch`, `WriteFile`, `RenameFile` under `mu`, each of which may fail. A patch
is one operation, as the tools build them; `Apply` gives the configuration it
makes or nothing if its path does not exist, which ends the update: an index out
of range, or `enabled` of a provider that does not have it in the JSON (`"unset"`).
A list of models is taken to be there. `Torn` is a file written in part. `Crash`
may happen between any two steps and `Restart` loads the file. `EditFile` is the
user with an editor that replaces the file whole, at any time. Two histories say
when memory and file may differ although nobody is in `UpdateConfig`, and when a
version may escape the backups: `diverged` (the file was edited and not
reloaded, or a reload has stored a version that was replaced while it waited for
the lock) and `edited` (the file was edited since the last backup was taken). The
clock is read for the name of a backup only, and moves there: `now` is the second
of the last one.

## 3. The runs

All with TLC; `CHECK_DEADLOCK FALSE`, because the program may stop: every request
may end, the bounds are used up, the process exits. `Selector` does check it: an
input without candidates would be a deadlock.

| Run | Distinct states | Properties |
|---|---|---|
| `FailureTracker` | 1.3 M | `TypeOK`, `TrackConsistent`, `ViewsAgree`, `StaysBlocked` |
| `Selector` | 0.6 M | `SelectionIsTiered`, `FallbackIsFastest` |
| `Failover` | 1.4 M | `FailoverTypeOK`, `FailsOnlyIfExhausted`, `OneWriter`, `AttemptsAreBounded`, `TrackerSpec`, `RequestEnds` |
| `StreamRelay` | 16 k | `TypeOK`, `RelayIsFaithful`, `ImplementsClientStream` |
| `Shutdown` | 0.6 M | `ProcessTypeOK`, `JobIsInOnePlace`, `NoSendOnClosed`, `LogIsInOrder`, `DbIsAsyncQueue`, `LogIsAsyncQueue`, `JobsAreWritten`, `ProgramEnds` |
| `McpSessions` | 0.2 M | `TypeOK`, `EventsInOrder`, `ReportsAreApart`, `NotifierClosedOnce`, `CallbackReturns`, `ReaderReturns` |
| `ConfigStore` | 4.0 M | `TypeOK`, `FileIsWhole`, `MemoryIsFile`, `PatchesBuildOnMemory`, `ReplacedIsBackedUp`, `ToolKeepsTheOthers` |
| `Warmup` | 353 k | `OneWarmupPerModel`, `TimersAreOfTopTwo`, `NoChangeIsMissed`, `TopStaysWarm`, `LoopStops` |
| `Claim_cancel` | violated | `CancelIsNotCharged` |
| `Claim_remove_provider` | violated | `RemovesTheProviderItNames` |
| `Claim_closed_session` | violated | `NobodySendsToAClosedSession` |
| `Claim_clean_request` | violated | `RequestIsItsBody` |

**What they show, and why the bounds are enough.**

* `FailureTracker`: two goroutines on one model, so that both can be in the gap
  of the callback at once, with one code of each class (401, 429, 400, 5xx or
  network error, other), the latency threshold on and off, a clock of three
  instants (before, at and after a deadline), a channel of one event. The
  callback starts at the second failure in a row instead of the third, which
  puts the gap in reach. Tracks of different models share only the provider's
  count and the mutex, which two callers of one model exercise as well.
* `Selector`: every status and latency of the four models of three providers,
  two of them with one priority, one with two models, one enabled or not, and
  every last successful model, one of which is not in the configuration (a
  request that ends behind a configuration update sets such a one), compared with
  a definition of the order by its properties (`IsTiered`). The latencies 0, 1, 2
  include unmeasured and equal. `Breaker` is the `FailureTracker` that would say
  of the models what the input does (`MCTracks`): its `GetBestFallbackModel` meets
  any mixture of slow, blocked, fast and unmeasured entries in every order of the
  iteration.
* `Failover`: one request of each kind and one background caller that blocks,
  frees and resets, over two configurations. With two providers, a plain request
  may make two attempts and a stream one; its order of candidates is stale as
  soon as the other caller blocks what is still ahead. With one provider over its
  rate limit, every kind (plain, stream, probe, warm-up) goes to the fallback,
  which may find the model of the provider that was removed. The events of the
  breaker find a channel without room.
* `StreamRelay`: two attempts show what leaks from one to the next; five lines
  are enough for two held back, one with content, a `[DONE]` and its blank.
* `Shutdown`: one request and one warm-up, which the server does not wait for,
  each with one job and one log entry; a channel of one place for jobs and for
  entries, so that both fill and drop; two workers compete for batches of two; a
  ring of two wraps around with the third entry; two levels tell the filter of
  the readers. The signal and the failure of the server may come at any time.
* `Warmup`: two models are enough for every change of a top two (entering,
  leaving, changing places, fewer than two), a channel of one event is full at
  the second change. More models add nothing that a model that is not in the top
  two does not already show; the proofs are for any number.
* `McpSessions`: two sessions and two goroutines, each broadcast reaching both
  in any order, notifiers of one event, an idle limit that runs out.
* `ConfigStore`: two actors, two providers, every tool, a patch of a client and
  an upload, the removal of a model by hand at any time, two replacements of the
  file (the updates that are under way may still follow), backups in one second
  or in two; the interesting case needs two updates of which one shifts the
  indices of the other, or an edit between an update's backup and its rename. The
  actors are symmetric.
* `Claim_clean_request`: two handlers and two objects, one value besides the zero
  value, one message: an object has to be used twice for the counterexample.

The clocks stop at `MaxTime`; `MaxFailures` and `MaxLevel` bound the failures in
a row of one model or provider, and `MCHorizon`/`MCEnough` check that the second
never stops a failure under way. `MaxJobs`, `MaxLogs`, `MaxBroadcasts`,
`MaxUpdates`, `MaxLines`, `MaxProviders`, `MaxModels` and `MaxMessages` bound how
much happens in a behaviour; in `Warmup` one goroutine of a model's timers waits
at a time.

**Fairness.** `FailoverFairness`: the goroutine of a request is scheduled, and
the call of a request that is not a stream is answered, because the client has a
response timeout (`Answer` includes the timeout). Nothing of the kind is assumed
of a stream, which has none, and `RequestEnds` says nothing of streams.
`ProcessFairness`: `main`, the workers, the writer of the log and a sender that
holds its lock are scheduled, and the ticker of a worker ticks; weak fairness,
because only the goroutine itself takes these steps away. `main` needs the lock of the
log, which senders take again and again: strong fairness for it, because a sender
holds it for one step and Go hands a mutex over to who has waited for long. No
producer is assumed to do anything, and no signal to come. `Warmup`: the loop and
its ticker are scheduled, a call is answered or times out after ten seconds;
strong fairness for the cases of the `select`, which Go chooses among at random.
`McpSessions`: goroutines are scheduled; nobody is assumed to read from a session
that has no SSE handler, or to disconnect. Weak fairness is enough for the
mutexes because a holder lets go of them without waiting for anybody and the
number of competing broadcasts is bounded.

### Where the code and its own words differ

Four runs are counterexamples, each to a sentence of the repository.

* `Claim_cancel`: both fallbacks record a failure when the client's
  disconnection aborts the call (`proxy.go:526`); `failover_test.go:298` says a
  disconnect must not be charged to the provider. The loops do ask.
* `Claim_remove_provider`: the index found in a copy of the configuration is used
  after another update may have shifted it (`mcp_loadout.go:68`); the tool then
  says "Provider '%s' removed." of a provider that is still there. The other
  tools build their paths in the same way.
* `Claim_closed_session`: the `select` of a broadcast has two ready cases when
  the session was deleted after the copy, and the send on the closed notifier
  panics (`streamable.go:1114`), against the comment two lines above. The panic
  passes through `RecordFailure` while its failure is counted but not classified.
* `Claim_clean_request`: the reset of a pooled request object forgets
  `is_warmup`, and cuts `Messages` to no elements over the old array, whose
  elements `encoding/json` decodes the new ones into (`main.go:757`); a request
  may be served with what an earlier one has said, against the comment there.

Others were met while modelling and are written into the models as the code has
them, without a run of their own; the properties are stated so that they hold
beside them:

* an acknowledged update may be lost. `LoadConfig` reads the file before it takes
  the lock (`config.go:97-111`): an update saved in between, of which
  `streamable.go:893` said "Configuration updated successfully and saved to disk",
  is in the file and not in memory, and the next one overwrites it. An edit by
  hand that nothing has reloaded ends in the same way (`config.go:270`; README:
  "You can edit it manually or via the Web UI"). In the model this is `diverged`;
  `PatchesBuildOnMemory` speaks of what the memory holds, and nothing else. What
  is overwritten is in a backup (`ReplacedIsBackedUp`), unless it was edited
  behind it;
* `optimize_provider` calls the models one by one, each for seconds, and then
  writes the list it had read (`mcp_loadout.go:446`): a model added meanwhile is
  gone, one removed is back, although the tool is to "Sort models of a provider"
  (`streamable.go:686`): `OptimizeProvider` decides long before it applies;
* a stream that breaks after its own `[DONE]` gets an error and a second one:
  `Stream` returns `false` with the error whatever was written (`proxy.go:787`),
  to a handler whose comment says "Only emit DONE when upstream did not already
  send it" (`main.go:391`). `ClientStream` has this as `BreakLate`, apart from the
  end it promises otherwise;
* `GetBestFallbackModel` keeps the first entry the iteration meets whether or not
  it was measured (`failures.go:461`); its comment says it returns nothing "if no
  blocked models with latency data", and that it returns the one "with lowest
  latency": no measured one ever replaces an unmeasured one, whose latency is 0.
  `FallbackIsFastest` is what is left for the measured ones;
* a 429, 400 or 5xx of a request that was under way turns a permanent block into
  one of minutes (`failures.go:186`; README: "permanently skipped"), and shortens
  a longer backoff in the same way. `StaysBlocked` therefore says blocked, not
  until when;
* a block duration of 0 does not disable the cleanup but makes it remove every
  entry that is not blocked (`failures.go:400`; README: "0 = disable cleanup"),
  and an entry without failures goes at the next cleanup, its measured latency
  with it (the comment there: "cleanup after cooldown");
* the backoff overflows from level 27 on and sets a deadline in the past
  (`failures.go:220`). The threshold is one failure and every failure of a
  request under way raises the level, so that 27 requests that fail together on
  one model are enough. The properties are stated below that level (`Horizon`);
* a probe whose model's provider is over its limit is answered by another model
  (`proxy.go:406`);
* a `[DONE]` before any content is dropped and counts as written
  (`proxy.go:1262`). It shows only if content follows it, which `TrailingLines`
  switches on: `ImplementsClientStream` is violated then, while
  `RelayIsFaithful` still holds;
* `ListenAndServe` returns when `Shutdown` begins, so the queue closes under
  requests still served and warm-ups (`main.go:131`, `db.go:246`): a request's
  panic is recovered by the server, a warm-up's ends the program, and the batches
  of the workers with it (`EnqueuePanics`);
* what is logged after `logger.Shutdown` has begun is dropped without a word
  (`logger.go:95`), as is what finds the channel full;
* `logger.Fatal` does not end the program, although its comment says it "logs a
  fatal message and exits" (`logger.go:128`, `main.go:85-91`): `InitDBFails`;
* the ticker warms a model that has just entered the top two, without the wait of
  the comment at `warmup.go:87`; the timers are not stopped when the loop ends;
  a warm-up that is switched on later never starts (`warmup.go:29`);
* backups of one second share a name (`config.go:203`);
* the readers of the metrics clean them up under a read lock (`metrics.go:105`),
  so that two of them may trim one window (not modelled).

## 4. The proofs

Checked by `tlapm` for every value of the constants. Each rests on the named
assumption of its module (`ConfigAssumption`, `LogAssumption`, ...), which says
of the constants what the code does, and on what is named below.

`FailureTrackerProofs`, under `Horizon` (the durations of the backoff levels up to
`MaxLevel` are positive, and the clock stays within the 365 days of a fatal
block; both hold of the program's durations below level 27):

* `TypeCorrect`: `Spec => []TypeOK`;
* `TracksStayConsistent`: `Spec => []TrackConsistent`;
* `PointersStayInMap`: `Spec => []AttachedIsInMap`;
* `ViewsStayInAgreement`: `Spec => []ViewsAgree`;
* `BlockedModelsStayBlocked`: `Spec => StaysBlocked`;
* `FallbackStaysFastest`: `Spec => []FallbackIsFastest`: the fallback is a model
  that is blocked for a time or slow, there is one if one of those was measured,
  and no measured one is faster than a measured one it returns.

The inductive invariant is `IInv == TypeOK /\ AttachedIsInMap /\ TrackConsistent`.
`TrackConsistent` is not inductive alone: the second critical section of
`RecordFailure` writes to the track it finds through its pointer, and to know
that this is a consistent track of the map one needs that an attached pointer
points to an entry, which is `AttachedIsInMap`; that in turn needs that no
cleanup removes an entry without detaching its pointers and that a recorder
never undoes the date of a failure, hence its part `lastFailure # ZeroTime`.
The lemmas about `ModelTrack` say what each class of failure, a success and a
reset make of a consistent track; `PutAndEmit` is the common end of the
recorders; there is one lemma per action, and `NextIInv` puts them together.
`FallbackStaysFastest` is about a loop, not about a history: it is proved by
induction along the order in which the map is iterated (`BestIsFound`,
`BestIsFast`) and uses that the map is finite. `Horizon` comes in because it needs
that latencies are numbers.

`FailoverProofs`, about one selection and about the requests:

* `SelectionStaysTiered`: `SelectionSpec => []SelectionIsTiered`;
* `RequestsImplementTracker`: `FailoverSpec => TrackerSpec`, so that everything
  proved about the breaker holds below requests: `BreakerHoldsBelow`, with `Horizon`;
* `OneModelWrites`: `FailoverSpec => []OneWriter`;
* `FailoverTypeCorrect`: `FailoverSpec => []FailoverTypeOK`, with `Horizon`;
* `AttemptsStayBounded`: `FailoverSpec => []AttemptsAreBounded`, if
  `ConfigsAreDistinct`;
* `FailuresAreExhausted`: `FailoverSpec => []FailsOnlyIfExhausted`, if
  `ConfigsAreDistinct` and `Horizon`.

`ConfigsAreDistinct` says that no configuration lists a provider or a model
twice. It is a hypothesis and not an assumption of the module: the program takes
such a configuration, and a request for it does call a model twice. Its instance
in `Failover`'s run satisfies it (`MCDistinct`).

The selection is proved piece by piece, on sequences seen as orders of their
elements (`Distinct`, `Before`): `Only` keeps the order of what it keeps
(`OnlyOrder`), `SortedBy` makes an order of the same elements with rising ranks,
`RoundOrder` says what one round takes of the providers, and `RoundRobinOrder`
puts the rounds together: the place of an element of the flattened sequence is a
round and a place in it, in lexicographic order (`FlattenBlocks`), and a name and
a model stand at one place of the configuration (`OnePlace`). `LastFirstOrder` and
`TiersOrder` do the rest. `CandidatesAreSound` carries the two facts the requests
need to `getCandidates`: nothing is repeated, and for a request for any model
nothing usable is lost. The last two theorems rest on them.

The inductive invariant of the requests is
`RInv == RequestsTyped /\ HasCalled /\ OneWriter`. A
step of a request is a step of the breaker only if the model it records an
outcome of is a key of the map; `Current(r)` is one because a request that is
waiting for an answer has called a model (`HasCalled`) and all its calls are
keys (`RequestsTyped`). For the attempts it is `CallsInv` (what has been called and
what is left repeat nothing and are apart, and the attempts count the calls unless
the one call is the fallback's) and `CoverInv` (of any model that is not called,
the request still has it or has found it unfit), under `RInv`: neither the
breaker, which other requests change between two attempts, nor the fallback, nor
a skipped candidate makes a request repeat or lose one.

`HandlerProofs`, about the relay: `RelayTypeCorrect`, `RelayStaysFaithful`
(`Spec => []RelayIsFaithful`) and, if no upstream sends content behind its
`[DONE]` (`~TrailingLines`), the refinement `RelayImplementsClientStream`. The
invariant is `RelayInv == TypeOK /\ OpenInv /\ FeedInv /\ WireInv`:
while an attempt goes on, the gate has seen content exactly if something is on
the wire (`OpenInv`), nothing but blanks is behind a `[DONE]` unless
`TrailingLines` (`FeedInv`), and all of the wire is of the current attempt
(`WireInv`). The first is what makes a failover invisible, the other two what
keeps everything but blanks from following a `[DONE]`; a second `[DONE]` comes
only with `BreakLate`. `RelayIsFaithful` compares what is on the wire
with a definition of what the gate owes for all the lines sent so far; `HeardInv`
adds what the gate holds back (`preamble` is what it will owe of the lines before
the first content), so that one more line changes both sides alike.

About the pool, for any bound on the messages: `ObjectsAreNotShared`
(`ObjectHasOneUser`: no two handlers work with one object, none with one in the
pool) and `ResetIsClean` (`ResetFieldsAreOwn`: what the reset does name is the
request's own), from `PoolInv`. They are the part of the claim that holds.

`WarmupProofs`: `WarmupTypeCorrect`, `WarmupsAreApart`, `TimersFollowTopTwo`,
`DroppedEventsAreHarmless`, for any number of models and any capacity of the
channel. `WarmupInv == TypeOK /\ OneWarmupPerModel /\ LoopInv`; `LoopInv` extends
the two statements about the loop in its `select` to the rounds in which it
waits for a request: an event is dropped only if the channel holds another,
which the loop will read after it.

`ShutdownProofs`: `JobsHaveOnePlace` and `DbQueueIsAsync` of the statistics,
`NoSenderMeetsTheClose`, `LogStaysInOrder` and `LogQueueIsAsync` of the
log, each on its own, and `ProcessKeepsJobs`, `ProcessKeepsEntries` and
`ProcessTypeCorrect` of the process: every step of the process is a step of the
queue or leaves it alone. `QueueInv` adds to `JobIsInOnePlace` where `main` and
the workers are (`QueueShape`), that a worker that has heard of the end leaves
nothing behind (`WorkersLeaveClean`), and that a new job has a new number. `LogInv`
does the same for the log; that no sender meets the closed channel rests on the
lock, which `SealLog` takes and `logReady` remembers. `RingInv` says what the slots hold, for any size and however often the ring
has wrapped around: those before `head` the entries received last and, once it
is full, those from `head` on the ones received before; `RingIsRead` follows the
loop of `Get` over it, with the filter by level.

`ConfigStoreProofs`: `ConfigTypeCorrect`, `FileStaysWhole`, `MemoryFollowsFile`,
`UpdatesBuildOnMemory`, `BackupsHoldTheReplaced`, `ToolsStayApart`, for any number
of tools, reloads and edits by hand and any crashes.
`ConfigInv == TypeOK /\ LockInv /\ UpdateInv /\ FilesInv`:
whoever is inside `UpdateConfig` is the holder of `mu` (`LockInv`); what it has
prepared is therefore still its patch applied to what is in memory, all of it
is in the temporary file once that is to be renamed, and the file is among the
backups unless it was edited since (`UpdateInv`); the file is a whole
configuration, the one in memory unless the two have diverged (`FilesInv`).
`UpdatesBuildOnMemory` does not say that no update is lost: what the memory does
not hold is, and so is what a stale patch overwrites (section 3). For `ToolsStayApart`,
`AimInv` says of every patch under way that it is aimed (`Aimed`): the index it
carries is the place of the provider it names in the configuration its tool has
looked at. Whether that is still the one in memory is the hypothesis of the
property.

`McpSessionsProofs`: `McpTypeCorrect`, `ReportsStayApart`, `EventsStayInOrder`,
`NotifiersAreClosedOnce`, for any number of sessions, goroutines and providers
and notifiers of any capacity. `McpInv == TypeOK /\ DeletionInv /\ ReportInv /\
EventInv`: what has been done to a session is what the deletion under way has done, and
nobody comes back to one that is canceled (`DeletionInv`); one goroutine is inside
`samplingMu`, and `lastSampling` is not older than any report (`ReportInv`); a
session that a broadcast has still to reach holds no event as new as its own
(`EventInv`).

Nothing the runs check as an invariant or an action property is left unproved.
What makes statements about lists provable without induction over data is in
`SequenceProofs`: the library's induction theorems take an operator, which the
provers cannot instantiate, but a set of numbers that has no least element is
empty (`LeastNatural`, from the well-foundedness of the naturals), and with that
come induction over a set of numbers (`Induction`) and over a set of sequences
(`SeqInduction`), the values of a recursive function (`IteratesExist`,
`IteratesAreOne`), and from these the laws of `Only`, `FlattenSeq`, `Max` and
`SetToSeqs`.

**Model-checked only.** `RequestEnds`, `JobsAreWritten`, `ProgramEnds`,
`CallbackReturns`, `ReaderReturns`, `TopStaysWarm` and `LoopStops`: liveness and
`ENABLED` are out of the prover's reach.

## 5. What is not modelled

* The metrics: a window of requests per provider that nothing reads but the
  handler that shows it.
* The conversion of bodies between the formats: pure functions that the unit
  tests cover, whose outcome (content, empty, unreadable) is an input here.
* Queries of the statistics, discovery of models, masking of keys, the defaults
  `GetConfig` fills in, the text of MCP answers: they read and format.
* The routing of MCP requests: every tool and method that changes state is an
  action of `McpSessions`, `ConfigStore` (`update_config` included),
  `FailureTracker` (`reset_failures`, the two settings) or `Failover`
  (`clear_last_model`); the others answer from a copy, or call a provider without
  recording the outcome.
* Patches of more than one operation, which only the client of `update_config`
  can make, the settings of the configuration next to its providers, and an
  editor that writes the file in place: a reload of what it has written so far
  fails or takes it for the whole.
* The settings of the HTTP transport, the test doubles (`mock_server.go`), the
  web interface and the deployment.
* What `main` logs itself, `Reset` of the ring (tests only), `Stop` of the
  warm-up (which nobody calls and which has the effect of `Cancel`).
* The ten seconds of a warm-up's call as a deadline of `Failover`: there a
  warm-up is a request without a client, in `Warmup` a call that ends.

## 6. The plan

Done: `ModelTrack`, `FailureTracker`, `Selector`, `Failover` with its refinement
of the breaker; `StreamRelay` and `ClientStream`; `StatsQueue`, `AsyncLog` and
`AsyncQueue`, composed in `Shutdown`; `Warmup`; `McpSessions`; `ConfigStore`;
`RequestPool`; the proofs of section 4.

What would come next, in this order:

1. `Metrics`, for the read lock of its readers.
2. A composition of `McpSessions` with the callback of `FailureTracker`: what a
   panic in the broadcast leaves behind in the breaker.
3. A composition of `Warmup` with `Selector` over the breaker, which would make
   `top` a state function in place of an input.
