# WalStream: models, checks and proofs

WalStream captures changes of a PostgreSQL database, buffers them in Redis and
Kafka, and replays a time window of them into a target on demand. This directory
holds TLA+ models of its control and data paths, the TLC configurations that
check them and the TLAPS proofs about them. Line numbers refer to the sources
under `src/`.

## 1. Inventory

| Part | State it keeps | Operations | Talks to |
|---|---|---|---|
| Job service and REST handlers (`control/app/services/job_service.py`, `api/v1/jobs.py`) | table `replay_jobs` | create, start, pause, resume, cancel, PATCH, delete | control database |
| Job workers (`control/app/workers/`) | `running`, `current_job_id`, a copy of the job, the position in its stream | acquire, execute, checkpoint, complete, fail, renew lease, stop | control database, sources, replayer |
| Replay sources (`services/replay_router.py`) | Redis cursor; Kafka consumer positions, completed partitions | count, stream from a checkpoint, pick a source | Redis, Kafka |
| Replayer (`replayer/server.py`) | dedup table with expiry; target tables | ReplayEvent (exists, apply, mark), Health, hourly clean-up | control database, target |
| Ingestor (`ingestor/ingestor.py`) | replication slot position, Redis stream, Kafka topic | parse, publish twice, send feedback, restart | source database, Redis, Kafka |
| Event WebSocket (`api/v1/events.py`) | a consumer group per connection | create, read, acknowledge, destroy | Redis, browser |
| Rate limiter (`middleware/rate_limit.py`) | a token bucket per client, in Redis | take a token, fail open | Redis |
| Auth, audit, API keys (`api/deps.py`, `api/v1/auth.py`, `middleware/`) | users, keys, audit log | register, log in, check | control database |
| Metrics publisher (`metrics.py`) | gauges | query and publish | control database |
| Console: events (`frontend/src/hooks/useWebSocket.ts`, `useEvents.ts`, `stores/eventStore.ts`, `components/events/`) | sockets, status, attempts, timers; the event list, filters, search text | open, reconnect, add, pause, filter, search | WebSocket, recent events |
| Console: jobs (`hooks/useJobs.ts`, `components/jobs/`, `app/(dashboard)/jobs/`) | cached answers, page number, filter, fields of the form | poll, invalidate, start ... delete, page, create | REST |
| Console: session (`stores/authStore.ts`, `middleware.ts`, `lib/api/client.ts`, `AuthGuard.tsx`) | a cookie, the localStorage, a store per tab | sign in and out, redirect, a 401 | REST, other tabs |
| Console: numbers and messages (`hooks/useMetrics.ts`, `lib/utils/prometheus-parser.ts`, `hooks/use-toast.ts`) | last answer, history; messages and timers | scrape, parse, rate; add, dismiss, remove | `/api/metrics` |

What is hard: workers, renewal loops and API requests share rows of
`replay_jobs` with neither row locks nor versions; workers crash, stall and are
restarted under the same ids; RPCs time out after they took effect; the
replayer's check, apply and mark are three transactions; the ingestor writes to
two stores and acknowledges a log; Redis trims what a replay may still need. In the
browser, effects, timers, answers and events of sockets that are gone interleave, and
what a page shows, what its store holds and what the server knows differ.
`PROJECT.json` lists each of these hazards at its line, with the properties that
cover it or the reason why none does.

What makes each part correct:

- **Jobs and workers.** A checkpoint or a completion never claims an event the
  target has not received; one worker executes a job at a time; a RUNNING job
  whose worker is gone is taken over; a terminal job stays terminal; a paused or
  cancelled job holds no lease.
- **Sources.** Streaming from a checkpoint returns each later event of the window,
  per partition in order, and none is lost at a batch, seek or window boundary.
- **Replayer.** An event is marked only after it was applied; it is applied again
  only after a crash, a race or the end of its TTL.
- **Ingestor.** A WAL position is acknowledged only when everything up to it is in
  both stores; an event is in Kafka at least once.
- **Live events.** A connected page misses no event but those its sources do not
  keep; a session that has lost its client gives up its group.
- **Rate limiter.** At most burst + rate * t requests pass in t seconds.
- **Console.** A connection lost is shown as lost and made again; a page that was left
  does nothing any more; the search applies; a button leads to what it offers; the page
  catches up with the server; cookie, storage and pages agree on who is signed in, and
  no redirect chases another; a rate is not more than was counted; a dismissed message
  goes; what the form accepts the server accepts.

## 2. Modules

| Module | What it is |
|---|---|
| `ReplayJobs` | The job table, the REST handlers and the workers. |
| `ReplayProgress` | What replaying promises, abstractly: in-order first delivery, covered checkpoints and completions. |
| `MCReplayJobs` | `ReplayJobs` for TLC. |
| `MCJobs` | Two instances of `ReplayJobs` in one run: the lease under the conditions that make it exclude, and overlapping requests of all kinds. |
| `ReplayJobs_proofs` | Theorems about `ReplayJobs` and their proofs. |
| `ReplayJobs_exclusion` | Theorems about who executes a job, under the conditions of `jobs_exclusive`, and their proofs. |
| `TargetTable` | The target of a replay and what applying a change does to it; the idempotency key. |
| `Replayer` | The gRPC handlers over target and dedup table, and their callers. Extends `TargetTable`. |
| `TargetCopy` | What replaying a log promises, abstractly: the target follows it. |
| `MCReplayer` | `Replayer` for TLC: logs and symmetry. |
| `Replayer_proofs` | Theorems about `Replayer` and their proofs. |
| `Ingestor` | The path from the replication slot into Redis and Kafka. |
| `MCIngestor` | `Ingestor` for TLC: logs of messages. |
| `Ingestor_proofs` | Theorems about `Ingestor` and their proofs. |
| `ReplaySource` | The Redis stream and the Kafka topic as a job reads them, and the router between them. |
| `ReplaySource_proofs` | Theorems about `ReplaySource`. |
| `MCReplaySource` | `ReplaySource` for TLC: windows. |
| `MCPipeline` | `Ingestor`, `ReplaySource` and two instances of `Replayer` in one run. |
| `Connection` | What the event page promises about its connection, abstractly. |
| `Connection_proofs` | Theorems about `Connection` and their proofs. |
| `EventSocket` | `useWebSocket` with its attempts and timers; implements `Connection`. |
| `EventFeed` | The socket endpoint, the query for recent events and `useEventStream`, over `Connection`. |
| `EventFeed_proofs` | Theorems about `EventFeed` and their proofs. |
| `EventList` | The event store, the filters, the search box and its debounce, the dialog. |
| `MCEventList` | `EventList` for TLC, with what was typed last. |
| `JobConsole` | The job pages, their queries and mutations against a server that moves on. |
| `JobPaging` | The list of jobs by page and filter. |
| `JobForm` | The form for a job: local times, quick ranges, the schema and the server's. |
| `Session` | Cookie, localStorage and the stores of the tabs, and who redirects to where. |
| `Metrics` | The exporter, the parser, rates and percentiles. |
| `Toasts` | The messages and their timers. |
| `RateLimit` | The token bucket in front of the API. |
| `Console` | The parts of the console and the limiter, put together. |
| `Console_proofs` | Theorems about all of these and their proofs. |
| `MCConsole` | `Console` for TLC: values of its constants. |

### ReplayJobs

**Table.** `row[j]` has the four columns the protocol depends on: `status`,
`worker` (`worker_id`), `lease` (`lease_expires_at`, as the ticks that are left:
-1 is NULL, 0 is past) and `lastId` (`last_processed_id`, as a position in the
window: -1 is NULL, 0 the empty string that `job.last_processed_id or ""` writes).
A row that does not exist yet is `ABSENT`, a deleted one `DELETED` (ids are fresh
UUIDs and never reused).

**Transactions.** Every session reads a row with a plain SELECT at READ COMMITTED,
assigns attributes and flushes; there is no `with_for_update` and no version
column outside the acquisition. So each transaction is a read step and a commit
step, and what it carries in between (`req[c].write`, `write[w]`) is
`Changes(old, new)`: the columns whose assigned value differs from the loaded
one, as SQLAlchemy's unit of work emits them. `Merge` applies them to whatever
the row has become. An UPDATE that matches no row raises (StaleDataError). The
flush holds the row's lock until the commit right behind it, hence one step.
`Acquire` and `Renew` are single UPDATE statements in the code and single steps
here; the re-fetch after the acquiring commit is `Fetch`.

**Requests.** Each handler is one action that reads, checks and computes, and
`ApiCommit` ends it. Requests that are refused (400, 404) change nothing and are
not steps. PATCH can do what its transition table allows.

**Workers.** `pc[w]` follows the coroutine `start`/`_execute_job` from one await to
the next: `idle` (poll), `fetch`, `prepare`, `stream`, `check`, `replay`,
`record`/`recordCommit`, and `complete`, `checkpoint`, `fail` with their commits.
`last[w]` is `last_processed_id` of the worker's copy of the job; the stream is
opened from it and both advance with each recorded event, so the position of the
generator needs no variable. `cur[w]` is `current_job_id`: set in `Fetch`,
cleared where the code clears it, and left set by the paths that forget it. The
renewal loop is the action `Renew`, at any time while `running[w]`.

**Failures.** `Error` is an exception at any await (with a commit that may have
happened nevertheless), routed as the `except` clauses route it: into `_fail_job`,
or out of it. `Stop` is the graceful shutdown, `Crash` the death of a worker,
also by cancellation 30 s after the stop, `Restart` its return under the same id.
`RpcFails` covers refusals, errors and timeouts, with or without effect. `Raise` is what the
`except` clause of `_execute_job` does: it calls `_fail_job`, unless the rollback has expired
the copy of the job the worker holds, for then its own `job.id` raises and the exception
escapes. A rollback expires it in the transaction that records an event, and may in the one
that prepares the job.

**Time.** `Tick` lets every lease run down. With `Timely` it does not let the
lease of a live holder run out: 300 s leases renewed every 10 s, and tasks that
are cancelled 30 s after a stop. Without it the event loop or the database may
stall a holder for longer than its lease.

**Abstractions.** All jobs replay the same window, so `delivered` is one set. The
source is an ordered list; the worker's waiting for virtual time only delays it;
counters, timestamps and `speed_factor` are left out. The replayer answers
"duplicate" only for an event it has applied before.

### ReplayProgress

`Deliver(e)`: an event reaches the target for the first time only after its
predecessors, or again. `Save(j)`: a job's row is written, and its checkpoint and
completion are covered by what was delivered. The refinement mapping takes
`saved` from `lastId` and `done` from the status COMPLETED.

### Replayer and TargetTable

**Target.** One table with a primary key; a row is its key and one value.
`Inserted`, `Updated` and `Deleted` are the three statements `apply` builds, as
what they do to the table: ON CONFLICT DO NOTHING leaves the row that is there, an
UPDATE or a DELETE without a match does nothing, an UPDATE into a key that is taken
is refused. `old` is the primary key, as a table with the default replica identity
sends it. Tables without a primary key and several tables are not modelled.

**Handler.** `pc[h]` follows `ReplayEvent` through its awaits: `exists`, `apply`,
`mark`, then the response. Each store operation is a transaction of its own, so
each is a step. `Fail` is an exception in any of them or an `apply` that returns
False; `Cancel` is the end of the RPC (deadline, connection, server shutdown) while
the handler is anywhere. In both the statement in flight may have taken effect
(`InFlight`).

**Callers** are the workers: they send the events of a window in order, try again
after a failure, and start over from an earlier position (`Rerun`: a job taken up
from its checkpoint, or another job over the window). `ReplayJobs` has the
checkpoints; here any earlier position will do. `Abandon` is a caller that is gone
while its handler lives on, which `Prompt` rules out.

**Dedup table.** `marks[k]` is the time until the row expires: `Absent` is no row,
0 is a row past its expiry that clean-up has not removed yet. `exists` ignores such
rows and `mark_processed` is an upsert. `Health` calls `check_and_mark` with a key
of its own.

`TargetCopy` has one action, `Follow`: the next change of the log takes effect. The
refinement mapping takes its position from the number of delivered events.

### Ingestor

`pc` follows `process_message` record by record: `redis`, `send`, `await` (the
`future.get`), then `feedback`. A message is its position in `Wal`, with the number
of changes it brings and the shape of its JSON, which decides how many of them the parser
finds (`Parsed`): all of a list under `change`, none of one at the top level. `Handled`
counts what a message brings, `Unread` names those the parser passes over. A record is
`<<m, k>>`.

**Faults**, each bounded by `MaxFaults`: Redis raises before or after adding the
entry; `send` raises; the future times out while the record stays in the buffer; the
producer gives a record up that the broker may have; `send_feedback` raises;
`consume_stream` raises; a connection fails; SIGTERM (which flushes the buffer); the
death of the process (which may lose it).

**External parts.** The producer's buffer is a set that is delivered in any order:
the topic has partitions, and a record that timed out may arrive late. The slot
resumes at any position up to the one acknowledged last, since PostgreSQL need not
have stored the latest. `streamed` is everything that was ever added; trimming is in
`ReplaySource`.

**Restart.** `port` is taken from the first call of `start()` until the process
ends. `main` calls `start()` again in the same process, where `start_http_server`
raises first; so a second `Start` needs a new process.

### ReplaySource

**Stores.** `Publish` writes an event to both, `Trim` is MAXLEN, `Expire` the retention
of the topic. Times never go back within a store, because one ingestor writes them as
they come. Events carry the time of the log as it was published, and the two stores the
same one; the difference of milliseconds between them is left out.

**Redis.** `XRange` reads a batch of at most `BATCH_SIZE` entries behind the cursor and
within the window; a short batch is the last one. `YieldRedis` hands one to the worker.

**Kafka.** `Open` assigns the partitions, `Lookup` is the one call of `offsets_for_times` and
the seeks that need no other answer (`SeekTo`: behind the saved offset, or to the start of
the window), `SeekToEnd` the seek of a partition in which it found nothing, after an
`end_offsets` of its own, `SnapshotEnds` takes the end offsets and marks what is at its end
already, `Poll` takes the next record of any partition. Each is an await, and events are
published between any two: `skipped` keeps those of the window a `SeekToEnd` has passed
over. `NoTopic` is the return for a topic that has no partitions. A record beyond the window
completes its own partition.

**Job.** `Record` saves the position, per partition for Kafka; `Interrupt` stands for
every way a run of the job ends early, with the event in hand delivered or not, and
`Open` for the next one. `GetSource` keeps the source a job began with.

**External.** The consumer is told from the calls the code makes: seeks, polls, end
offsets and the reset to the earliest record (`auto_offset_reset`). `position()` is
taken not to fail.

### Connection, EventSocket, EventFeed

A socket is a slot with its readyState; `owner` says whether the page that opened it is
still mounted (`mountedRef`). `status` is what was set last, `shown` what the last commit
shows. `EventSocket` adds what decides when to connect: `attempts` as set and `used` as of
the last commit, the timer of each socket, the attempts its `connect` has captured
(`att`). React's rule is taken from its documentation: an effect whose dependencies changed
is cleaned up and run after the commit that changed them. Every step of it is a step of
`Connection` (`ImplementsConnection`); `EventFeed` uses `Connection` itself, so that
`FeedComplete` holds whatever the policy is.

`EventFeed` follows a session of the server from `accept` over `xgroup_create` at "$" to
reads, sends with their `xack`, heartbeats and the end. Starlette raises
WebSocketDisconnect from the first send after the client has gone, and another error from
later ones; the handler of parse errors around a message's send takes the first for one of
its own (`SendSwallowed`), and the session never ends ("stuck"). The query for recent
events runs on every change to "connected", is answered later, in any order with the
socket's events, and its answer is added to the store when it comes.

### EventList, JobConsole, JobPaging, JobForm, Session, Metrics, Toasts

Each is a part of the console with a state of its own, one action per handler, effect,
timer or answer; what the server, another tab or another client does meanwhile are
actions too.

- `EventList`: events reduced to table, operation and a word. The two effects of
  `EventFilters` run together after the render that changed what they depend on
  (`Effects`); the debounce is one timer.
- `JobConsole`: a query has a cached answer, at most one request under way, and is asked
  again every five seconds or when a mutation invalidates it, which cancels what was
  under way (react-query). The server commits a mutation before or after its answer,
  as FastAPI's dependencies with yield do or did. Dialogs are modal: no other button can
  be used behind one.
- `JobPaging`: answers are kept per page and filter, as react-query keeps them. `fresh` and
  `reached` are history: which answers are younger than the last deletion or change of
  status, and whether the page at hand is one that a button of such an answer led to.
- `JobForm`: hours stand for times, and the local clock changes once, forward or back.
- `Session`: tokens are numbers; the server accepts some of them. Redirects run by
  themselves; expiry of the cookie is `aged`. `quiet` are the tabs that send nothing by
  themselves: those out of view, whose polls react-query rests, and those at `/jobs/new`,
  which has no query.
- `Metrics`: counters that restart with the ingestor, scrapes that fail, a page that is
  left and opened again. A poll is two steps: `Scrape`, when the route reads the exporters,
  and `Load`, when its answer is rendered and the memo reads the clock, or `Lose`; `counted`
  and `before` keep what had been ingested at the one and the other. `computeRate`,
  `extractPercentile` and the parser are operators.
  The histogram is cumulative, as Prometheus exports it: `latency[b]` counts the
  observations up to the bound of `b`.
- `Toasts`: the state outside React and its timers; a timer fires minutes after its
  message was dismissed. Messages are a set, for their ids give their order.

`Console` puts them and the limiter side by side. They share no state, so a behaviour
exercises one of them, its `focus`; nothing is lost by that, and their states add up instead
of multiplying.

### RateLimit

One bucket, as one script call leaves it: `tokens`, `ts` (the caller's clock) and
`written` (Redis's clock, which expires the key). `Arrive` reads the clock, `Consume` runs the
script, later and in any order with other requests; `FailOpen` is every error of Redis.
`since`, `passed`, `late` and `lost` only count: `Watch` begins the count at any moment,
so that `RateBound` is about every interval. The handler behind is left out.

## 3. Runs

Symmetry is used over workers, clients, callers and handlers in runs without liveness:
nothing in the code compares their identities except for equality. Deadlock is not checked:
once the requests are used up and no job is queued the service rests.

A run with more than one instance chooses one of them at the start (`instance`, `part`,
`focus`) and leaves the others where they are: they share no state, and their states add up
instead of multiplying. The fairness of one owes nothing in the behaviours of another.

| Run | Instance | Shows |
|---|---|---|
| `jobs_lifecycle` | 1 job, 2 workers, 1 client with 4 requests of any kind, 1 fault of any kind, 2 events, leases that expire under live workers, fairness | `TypeOK`, `CheckpointSafe`, `CompletedSafe`, the refinement `ProgressSpec` and `EventuallySettled` |
| `jobs_exclusive` | 2 jobs, 2 workers, one request at a time (start, cancel, delete), 2 faults of any kind, 1 retry, timely renewals | `OneExecutor`, `RunningIsLeased`, `CheckpointAdvances` |
| | or 1 job, 2 workers, 2 clients whose 3 requests of any kind overlap, 1 fault of any kind, leases that expire under live workers | `LifeSafe`: `TypeOK`, `CheckpointSafe`, `CompletedSafe` |
| `pipeline` | the ingestor with 6 messages (two changes, no JSON, no change, format-version 2, one, one), 3 faults of any kind, fairness | `IngestTypeOK`, `AckedOrCounted`, `NoGap`, `EventuallyDrained` |
| | or the source: 2 partitions, 2 events, 3 moments, batches of 1, a stream of 1, 1 interruption, fairness; windows that are read from Redis or Kafka | `SourceTypeOK`, `PositionCovers`, `DoneIsComplete`, `OneRepeatPerStop`, `OnlyTheWindow`, `StreamEnds` |
| | or the replayer: 2 callers that may abandon their calls, 2 handlers, 1 rerun, expiry and clean-up; two changes with one key | `TypeOK`, `MarkedIsDelivered`, `AckedIsDelivered` |
| | or the replayer with 1 caller, 2 reruns, no expiry; a row that is inserted, moved, deleted, inserted again, a truncate, an unknown operation | the refinement `AloneFollowsLog` (`FollowsLog` of that instance) |
| `live_events` | 2 sockets and sessions, 2 events of which one does not parse, 1 query under way at a time, fairness | `TypeOK`, `FeedComplete`, `SessionNotices` |
| `console` | one part at a time: 3 sockets, 1 lost connection, 2 visits; 2 events in the list; 1 job, 2 requests or changes; 2 tabs, 2 sign-ins; 2 series, 2 bounds, 1 restart; 4 messages; 2 jobs on pages of 1, 3 changes; a form over 3 hours; a bucket of 2 with 2 requests | the properties named below |
| `jobs_two_executors` | start, pause, resume, no fault, timely renewals | `NeverBothReplaying` is violated |
| `jobs_transitions` | 1 worker, 1 client, a start and a cancel, no fault | `EndedStays` is violated |
| `source_passes_over` | 1 partition, 2 events, no interruption | `NothingPassedOver` is violated |
| `replayer_race` | 2 callers without faults; an insert and its delete | `Converged` is violated |
| `ingestor_flat` | the 6 messages, no fault | `AtLeastOnce` is violated |
| `feed_settles` | 3 sockets, 1 lost connection, 1 visit, fairness | `ConnectionSettles` is violated |
| `search_applies` | the list alone, with a table and two words, fairness | `SearchApplies` is violated |

Two workers and one contended job are enough for every interleaving that
involves an owner and a usurper; two events are the least with a checkpoint
strictly inside the window; four requests are a start, a pause, a resume and a
cancel, the longest chain one job goes through; two jobs let a worker move on
to another job with `current_job_id` still set. Two callers and two handlers give
every race for one key, also of a caller with its own abandoned handler; one tick
of TTL already lets some marks expire before others. Three faults let an error,
a redelivery and a crash fall on one message, and two messages behind it show what
becomes of those that follow. The proofs need none of these bounds.

Two partitions are the least where one can be complete and the other not; with two
events and a stream of one, trimming, retention and the end of a window each fall
before, on and after a position; one interruption gives a second run of the job, and a
second would repeat it. Two sessions overlap as a connection is replaced, and a list of
`RECENT` = 1 lets an event be too old for the query. Three sockets are one that is
closing, its replacement, and one whose timer still runs. Two attempts
(`MAX_ATTEMPTS`) let the counter reach its limit.

What `console` checks, by part:

| Part | Properties |
|---|---|
| connection | `ImplementsConnection`: the refinement, and with it what every page keeps that connects as `Connection` does, whatever its policy (section 4): it never goes on showing a connection it has lost, and opens nothing once it was left. `AutoReconnect`: while fewer connections fail than allowed, it is connected again and again. |
| list | `SearchSettles`: the two effects come to rest; on what is the finding below. |
| jobs | `RefusedOnlyStale`: the server refuses a button only if the job has changed since it was shown. `ViewCatchesUp`: pages show the job as it is in the end. |
| session | `SameSession`: cookie and storage come and go together, but for expiry. `TabsSettle`: redirects end, and a session the server has ended leaves every page that polls and is in view. |
| numbers | `RateIsHonest`: the growth behind a rate is at most what was ingested between the two scrapes, but after a failed one; and at most what was ingested in its interval, if the earlier answer was rendered as it was scraped. `PercentileInBucket`. |
| messages | `TimersMatch`: a dismissed message goes, and no timer takes another. |
| pages, form | `ButtonsLeadSomewhere`: the buttons of an answer lead to no empty page, unless jobs were deleted or moved on since it was loaded or the filter is changed. `QuickRangeExact`: a quick range asks for the hours it names, but around an hour that is repeated. |
| limiter | `RateBound`. |
| all | `TypesOK`. |

**Fairness** (`FairSpec` of `ReplayJobs`): each worker's coroutine, each renewal loop, each open
request and the clock go on (weak fairness: each is an event loop task, a request
task or time, continuously ready until it runs). Clients, faults and restarts
are never required to happen; a crashed worker may stay away.

`FairSpec` of `Ingestor`: the message loop goes on, brokers accept what the producer
keeps sending, and an ingestor that is down is started, after the end of its process
by whoever deploys it (`docker-compose.yml` has no restart policy). Under these
`EventuallyDrained` leaves one exception, the process that hangs in its restart loop.

`ReplaySource` owes that an open stream is read on and that brokers serve what they
have; publishing, trimming, interruptions and reopening owe nothing. `EventFeed` owes
that the server's event loop runs its sessions (`SessionNotices`); the network and the
page owe nothing. `FairSpec` of `EventSocket` and `ConsoleFairness`: React runs effects and
commits, the browser its timers and the events of sockets that are due, polls of pages that
have one and are in view recur and of those of the page on display some are answered (strong fairness, since some fail and a
mutation may cancel others), the server commits; users, other clients and faults owe
nothing.

### Findings

With a run each:

1. *Two executors* (`job_worker.py:230`, against `README.md:64`). The worker stops on
   PAUSED and CANCELLED only. After a pause and a resume the row is QUEUED or, with
   another worker, RUNNING again by the time it looks, and it goes on.
2. *A race resurrects a row* (`server.py:469`). With two callers, as finding 1 makes
   them, an INSERT is applied again after the DELETE behind it, whose own second
   sending is a duplicate.
3. *Opening a socket closes it* (`useWebSocket.ts:125`, against line 108 and
   `README.md:882`). `connect` depends on the attempts, and `onopen` resets them: after
   a lost connection the socket that opens is closed by the clean-up of the effect it has
   set off, and no later one is kept either. With each that opens the backoff begins anew.
4. *Terminal jobs move* (`job_worker.py:435`, against `job_service.py:18`). COMPLETED,
   FAILED and PAUSED are written over a CANCELLED that committed since the worker looked;
   a PAUSED one can be resumed.
5. *Published between two lookups* (`replay_router.py:244`, against line 242). What arrives
   in an empty partition after `offsets_for_times` and before `end_offsets` is skipped, and
   the offset saved for the next event covers it.
6. *Format-version 2 is not parsed* (`ingestor.py:150`, against lines 108 and 332). The slot
   is asked for it (line 392), the parser looks for `change`, which only version 1 has; the
   message is acknowledged as empty.
7. *The search never applies* (`EventFilters.tsx:51`, against `README.md:886` and 917): the
   second effect puts the typed text back to the query before the debounce has passed.

Met on the way, outside what the passing runs allow or state, without a run of their own:

- *A failing `_fail_job` leaves an orphan* (`job_worker.py:444`, against `README.md:65`).
  `current_job_id` is reset after its commit only; until the worker finds another job it
  renews the lease of a RUNNING row that nobody executes.
- *Acknowledged past a failure* (`ingestor.py:363`, against its docstring at 332). The
  loop goes on after a message that could not be published, and the next feedback covers
  both. `AckedOrCounted` is what holds instead.
- *A cancel can keep a lease* (`job_service.py:176`, against line 93 and
  `README.md:797`): columns that were NULL when read are not part of its UPDATE.
- *RUNNING without a lease* (`job_worker.py:415`): no disjunct of the eligibility test
  matches such a row (`Unleased` in `EventuallySettled`; `Forgotten` is the orphan above).
- *Staggered expiry* (`server.py:347`): marks expire one by one, so a window replayed
  while only its first marks are gone applies the INSERT and skips the DELETE. Hence
  `AloneFollowsLog` is checked without expiry.
- *Colliding keys* (`server.py:561`): changes of one message share its lsn
  (`ingestor.py:123`), so one that repeats the values of an earlier one is a
  duplicate. `Known` speaks of keys for that reason, and `NothingSkipped` is
  proved for logs with distinct keys.
- *Restart loop* (`ingestor.py:382`): `Stuck` in `EventuallyDrained`.
- *A session that never ends* (`events.py:198`): see `SendSwallowed`; its consumer group
  stays.
- *Lost to both* (`useEvents.ts:77`): an event published after the query for recent
  events and before the group of the session was created; an exception of `FeedComplete`.
- *Recent events* are put in front of newer ones, twice after a reconnection, and a
  pause drops what comes for good (`eventStore.ts:50`-`65`).
- *A stream that waits for ever* (`replay_router.py`): Kafka's retention has removed the
  rest of a partition below its end offset; `Starved` in `StreamEnds`. Redis's MAXLEN
  passes over trimmed events in silence (`Gone` in `PositionCovers`).
- *Before the window* (`OnlyTheWindow`): a job that starts before its window begins reads
  every partition from its end, and delivers what comes before the window too.
- *Rates* (`useMetrics.ts:122`): too high after a failed scrape, when an earlier answer was
  slow, or when the page is opened again with an old one in the cache: growth is counted
  from scrape to scrape, time from rendering to rendering. Only the first series of the ingestor's counter is
  read, and labels with a closing brace are not parsed.
- *Percentiles* (`prometheus-parser.ts:145`): beyond the largest bucket 0 is shown.
- *A cookie that expires* before the storage does leaves the middleware and the pages
  disagreeing; another tab that signs out is noticed at its next request only, and by a page that does
  not poll (`/jobs/new`, a tab out of view) not before the user does something.
- *An empty page* (`JobsTable.tsx:99`): after deletions a page has no jobs and no buttons,
  also when the button stood on an answer older than the deletion, which the queries keep.
- *More attempts than allowed* (`useWebSocket.ts:115`): a timer is armed only while
  `attempts` as captured is below the maximum, but the count itself goes past it when
  sockets that captured it earlier close later. `TypeOK` of `EventSocket` says what holds.
- *Quick ranges* (`JobCreateForm.tsx:79`) that span a change of the clock can be off by an
  hour or refused.
- *The limiter* (`rate_limit.py:128`): its except clause surrounds the handler too, so a
  handler that raises is called a second time. `_script_sha` is loaded once, so that after
  a restart of Redis every request passes until the process restarts.

## 4. Proofs

All theorems hold for every value of the constants under the named assumptions of
the modules (which TLC evaluates in the runs; those of `Ingestor` and `ReplaySource` are
hypotheses of their theorems, and `PipelineAssumption` in the run): any number of jobs, workers,
clients, callers, handlers, events, messages and faults, any log, timely or not.

`ReplayJobs_proofs`:

- `TypeCorrect`: the type invariant, in three parts (`CoroutinesOK`, `RequestsOK`,
  `RestOK`) because most actions disturb only one of them.
- `CoveredAlways`: `CheckpointSafe`, `CompletedSafe` and `LeaseHasOwner` are not
  inductive, since a commit writes what an earlier read decided. `Covered` adds
  what is still to be written: positions and pending checkpoints lie below what was
  delivered, a pending COMPLETED implies a delivered window, requests never write
  either, and a pending write clears both lease columns or none (`Paired`). The
  lemmas `ChangesFacts` and `MergeFacts` describe the column-wise writes, the rest is
  one lemma per action.
- `CheckpointIsSafe`, `CompletedIsSafe`, `LeaseIsOwned` are its conjuncts.
- `Refinement`: every step maps to a step of `ReplayProgress` or a stutter.
  `OneRowAtATime` and `InOrder` split the steps.

`ReplayJobs_exclusion`, under `Exclusive` (renewals in time, requests one at a time, none but
start, cancel and delete; any crashes, stops, restarts and errors):

- `ExclAlways`: the invariant `Excl`. Whoever executes a job has taken it out of the queue,
  and no request puts it back, for start writes QUEUED over PENDING only and no worker
  writes QUEUED at all; while the row is RUNNING its executor holds it and its lease is
  not past. So nobody can acquire it. For the checkpoint, `Excl` also keeps the saved
  position below the executor's and below what it is about to write.
- `OneExecutorAlways`, `RunningIsLeasedAlways` and `CheckpointAdvancesAlways` follow. The run `jobs_two_executors` shows that a pause
  breaks the first.

`Replayer_proofs`:

- `TypeCorrect`, over `EffectType` (applying a change leaves a table).
- `JustifiedAlways`: `MarkedIsDelivered` needs that a handler about to mark has applied,
  `AckedIsDelivered` that a handler about to answer with success has; `Justified` adds
  both. `MarkedWasDelivered` and `AckedWasDelivered` follow.
- `AtLeastOnce`: with `UniqueKeys`, known keys are delivered events, so
  `NothingSkipped` holds, concurrency and expiry included.
- `TargetFollowsLog`: the refinement of `TargetCopy` under `Sequential` (one caller,
  prompt calls, no expiry, unique keys). The invariant `InStep`: what was delivered is
  a prefix of the log (`Frontier`), only its last event can be unmarked, and applying
  that again changes nothing. The last part is the lemma `Idempotent`, on each
  operation of the target.

`Connection_proofs`: `ConnectionIsShown` and `LeftIsQuiet`, what a page keeps whatever its
policy of reconnecting.

`Console_proofs` (under `RateAssumption`: capacity and rate are positive, and
`ConsoleAssumption`, the conjunction of what each part assumes of its constants: mostly
that bounds are natural numbers and sets are finite). A step of `Console` is a step of
one part or leaves it alone (`SocketStep`, `JobStep`, ...), so each part is proved with an
invariant of its own:

- Limiter: `Bounded` and `BoundedAlways`, which is `RateBound` for every capacity, rate,
  number of requests and interval. `RateBound` is not inductive, for it does not say how
  many tokens are left: `InBudget` bounds these together with what has passed by what was
  refilled up to the bucket's own clock (`WithinBudget`). A script that puts the clock back
  is paid for by `late` (`ConsumeInBudget`), a key that expires was there long enough to be
  full (`LongEnough`).
- Connection: `ConnectionImplemented` is `ImplementsConnection`, the refinement, for any
  number of sockets, attempts and lost connections. The mapping forgets the
  owner of a free slot, on which the hook leaves the last one. It needs `SocketInv`: a page
  that was left owns no socket, and a socket the hook holds is its own. `Connects` says that
  every call of `connect`, whatever it closes first, is one step of `Connection`.
  `HookShowsConnection` and `HookLeftQuiet` carry the theorems of `Connection_proofs` over to
  the hook, by instantiating that module with the same mapping (`Whose`).
- List: `SearchNeverArrives`, the reason why `SearchApplies` is violated, whatever is typed.
  That the query stays empty is not inductive. `Unsearched` adds that the debounced text does too, and that the timer
  holds the text of the box or none.
- Jobs: `RefusedOnlyStaleAlways`. A request keeps the status its page showed, for which the
  button was offered (`RequestsOK`), and what is offered for a status the server allows
  for it (`OfferedAllowed`): a refusal means another status.
- Session: `SameSessionAlways`, inductive with the types.
- Numbers: `RateIsAlwaysHonest`. What the query keeps, what the hook keeps, the answer on
  its way and what a scrape would give now are readings of one counter, and `NumbersInv` has
  them in order (`Ordered`): a later one grew by no more than was ingested since the earlier
  (`Follows`), unless that is the zero of a failed scrape. It rests on what the parser
  makes of the exporter's text (`ScrapedIs`), on that series keep their order so that the
  first readable one stays the first (`IngestScraped`), and on that a series never exceeds
  what was ingested (`ExportedOK`). A restart only lowers it.
- Percentiles: `PercentileIsInBucket`, from `LatencyOK` (the counts are cumulative): each
  share has a rank (`RankExists`), each rank a bucket (`BucketExists`), and the first bucket
  that reaches the share is the bucket of the rank (`FirstOfRank`), inside which the
  interpolation stays.
- Messages: `TimersAlwaysMatch`. `MessagesInv` adds to `DismissedIsTimed` that a message
  whose removal is timed is one that was dismissed, with which a timer takes no open one.
- Pages: `ButtonsAlwaysLeadSomewhere`. `PagingInv` says that fresh answers are still true of
  the server (`AreSound`): as many jobs as they say, or more; and that a page a button led
  to begins before the last job (`IsReached`). It needs the arithmetic of pages
  (`PagesIs`, `PageBefore`) and that a new job only adds to what matches (`MoreMatch`).
- Form: `QuickRangeExactAlways`, from `FormInv` (the fields hold the ends of the range as
  text) and `RoundTrip` (a text that stands for one moment is parsed to that).
- `TypesAlwaysOK`: the types of all parts.

`EventFeed_proofs`: `TypeCorrect`, and `FeedIsComplete` (`FeedComplete`). `FeedComplete` speaks
of a group that has read everything, so it needs `ReadIsKept` on the way there: what a
group has read since it was created is in the list, still in the batch at hand, pending
after a failed send, or does not parse, as long as the page's socket is served.

`Ingestor_proofs`:

- `TypeCorrect`, `NoSilentLoss` (`AckedOrCounted`), `TopicHasNoGap`, `RedisIsFirst`, the
  last three from one invariant `Sound`: whatever is archived or in the buffer is
  preceded by messages that are handled or unread and by archived changes, every message up
  to the current one is so too unless it is in hand, and the changes of that one before `k`
  are archived. It needs the buffer too, since a record that timed out arrives later.

`ReplaySource_proofs` (under `SourceAssumption`):

- `ReadingInvariant`, from which the rest follows, is `Inv`: the types; that topics are in
  the order of time and the stream has each record once; and `Reading`. The properties
  speak of what is saved and of the end, the reader is ahead of the one and before the
  other, and what a seek to the end passes over is in `skipped` before any of them. So `RedisRead` says that up to the cursor nothing is owed but the event in hand,
  and that the batch skips nothing of the window; `KafkaRead` says the same of each
  partition up to its position, and of one that is completed that it owes nothing that
  was promised. A partition is completed by a record beyond the window, which needs the
  order of time, or by its end, which is beyond all that was promised (`PollKeeps`).
- `TypeCorrect`, `PositionIsCovered` (`PositionCovers`), `DoneIsCompleteAlways`
  (`DoneIsComplete`).
- `OnlyTheWindowAlways`: `Late` keeps that what a partition holds from its position on, and
  is older than the window, came after the replay was opened.
- `OneRepeatAlways`: `OneRepeatPerStop` does not count what is going to be repeated.
  `Budget` adds the events delivered and not saved, of which an interruption leaves
  one more and a second delivery one less (`OneSaved`).

Every invariant, action property and refinement of the passing runs is a theorem. Only
model-checked is what needs fairness, which the proof system does not treat:
`EventuallySettled`, `StreamEnds`, `EventuallyDrained`, `SessionNotices`, `AutoReconnect`,
`ViewCatchesUp`, `TabsSettle` and `SearchSettles`. What the findings violate has its
counterexamples only.

## 5. Plan and what is not modelled

The modules above are the plan, and done.

Not modelled:

- Presentation (layout, charts, badges, wording), HTTP wrappers, formats of tokens and
  dates, migrations, dashboards: no state that anything else depends on.
- Registration: its check-then-insert is decided by unique indexes of the table.
- Audit, API keys, roles: checks of one request, without shared mutable state.
- The metrics publisher and the health endpoints: read-only.
- The legacy dedup store of the control service: nothing calls it.
- `walstream-proto`: data classes and generated code.
- The counters of a job, its virtual time and the count of events for the progress bar.
- Of the socket endpoint, a consumer group that exists already (`events.py:161`) and a read
  error that never ends (218), after which the session loops as in the stuck case of
  `SessionNotices`.
