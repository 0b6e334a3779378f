# TLA+ verification of CrossCamReID

This directory specifies the parts of the ReID system whose correctness depends
on order, time or concurrency, checks them with TLC on small instances and
proves part of the results with TLAPS for every instance. Paths below are
relative to `src/production/src/crosscamreid/` unless they start with `src/`.

## The system

Cameras are read over RTSP. Each frame goes through a pose detector with a
tracker, which gives every detected person a *raw id*; a *stable id* is kept over
short losses; an appearance embedding is compared with a gallery of identities
(*SIDs*) that all cameras of an organisation share. A MASTER camera enrols people
it does not know, a SLAVE camera only recognises. Head counts, dwell times and
alerts are computed from the identified people and sent to clients.

Four programs use these parts: a people-counting WebSocket server, a ReID
WebSocket server, an HLS server and a desktop application. The network that gives
the embeddings is trained with `fast-reid`, a library kept in the repository.

| Component | Code | State | Operations | Modelled in |
|---|---|---|---|---|
| Entry/exit tracker, alerts | `counting/entry_exit.py`, `counting/occupancy.py` | who is inside since when, totals, recent exits, last alert level | observe, sweep, recent_exits, update | `EntryExit`, `HeadCount` |
| Cross-camera dwell | `counting/entry_exit.py`, `websocket/people_counting_runner.py` | ledger per organisation, track table per camera | lifetime_dwell_sec, _peer_active_for, sweep | `DwellLedger` |
| Stable track ids | `state.py` | per-track state, raw→stable map, last boxes, misses, counter | remap_tids, get, forget | `TIDState` |
| Identity and gallery | `processor.py`, `store.py` | votes, buffers and locks per track; embeddings per SID; next SID | the three `process_*` flows, search, append, new_sid, prune | `Identity` |
| Frame step, SID conflicts | `websocket/people_counting_runner.py` | records of the frame | occlusion mask, conflict resolution (this program alone has them) | `Identity` with `Masks`, `Resolve` |
| Sessions and handler | `websocket/people_counting_handler.py`, `..._runner.py` | sessions per client, workers per camera | start_stream, stop_stream, stop_all, disconnect | `OrgSessions` |
| Camera worker threads | `websocket/people_counting_runner.py` | stop event, thread, capture | start, stop with joins that time out, run | `OrgSessions` |
| Organisation registry | `counting/org_registry.py` | resources and reference count per organisation | acquire, release, wipe, reset | `OrgSessions` |
| RTSP capture | `capture.py` | last frame, running flag, failed reads | start, stop, reconnect loop | `Capture`, composed by `HlsSession` |
| ReID WebSocket server | `websocket/reid_handler.py`, `websocket/reid_runner.py`, `src/production/app_server.py` | sessions with a streaming flag, thread pools, storage queue | start, stop, run, store | `ReidServer` |
| HLS server | `server/hls_session.py`, `server/ffmpeg_hls.py`, `src/production/app_hls.py` | captures, writers, ffmpeg process, directory | start, stop, write, close | `HlsSession` |
| fast-reid training | `src/fast-reid/fastreid/engine/`, `utils/checkpoint.py` and others | counters, optimizer and schedules, checkpoints on disk, batches fetched ahead | train, hooks, save, resume | `Training` |
| Everything else | see *Not modelled* | | | |

How they interact: a client's message is handled on one event loop, which starts
and stops worker threads and calls the registry. A worker owns its capture, its
stable ids and its entry/exit tracker, and shares the gallery and the dwell
ledger with the other cameras of its organisation. Sessions of an organisation
share these through the registry, which counts them. Workers answer the client by
scheduling sends on the event loop.

What is hard about it:

- threads of several cameras use one gallery that has no lock;
- the dwell a camera reports is put together from a locked ledger and from other
  workers' tables that are read without a lock;
- the event loop waits for threads, with time-outs, and goes on when they are
  over, so threads survive the tables that knew them;
- a gallery may be emptied at a connection, which must never happen under a
  camera that is streaming;
- identities are carried from frame to frame by three layers (raw id, stable id,
  SID) each of which can hand state to the wrong person;
- a stop request meets a thread that is still setting itself up, and a file, a
  process or a folder comes back after it was removed;
- a training job dies between two writes and goes on from what it finds on disk;
- time-outs in ticks of a wall clock, counters with edges, lists that are cut.

`PROJECT.json` lists these hazards at their lines.

## Modules

### `HeadCount`, `EntryExit`, `EntryExitProofs`

`EntryExit` is one camera's head count. An action `Tick(visible)` is a whole pass
of the worker loop that processes a frame in which the people in `visible` are
identified: observe, sweep, alert, in the code's order. The tracker belongs to one
thread, so nothing runs in between. `Advance` lets the wall clock pass by any
amount. `active` is `_active`, `recentExits` the list that is cut to `RecentCap`
(32 in the code), `ReportN` is the 10 that a payload quotes. The order in which a
sweep visits the table is insertion order; identities with equal entry times come
in any order, because a frame lists them in any order.

`HeadCount` is the abstract specification: a set of people inside, moves in and
out, totals. `EntryExit` implements it with `inside <- DOMAIN active`.

### `TIDState`, `TIDStateProofs`, `MCTIDTakeover`

`TIDState` is one camera's `TIDStateManager`. `Frame` is remap_tids, a `get` for
each detection and forget; `EmptyFrame` is a frame without detections, which does
*not* call remap_tids and keeps the old mapping. The three passes of
remap_tids are `Kept`, `Recoveries` and `Numbers`. A greedy walk over pairs sorted
by overlap is stated by its result: no two pairs taken clash, and every pair
passed over clashes with a better or equal one that was taken. Boxes are members of
a small set and `IoU` is a table; the overlap arithmetic is not modelled.
`holder` is a history variable: under which raw id a track was last seen.

`MCTIDTakeover` adds what a well-behaved tracker does, issuing raw ids in
increasing order, so that the finding below does not rest on a tracker that
reuses ids.

### `Identity`, `IdentityProofs`

Identities of several cameras with one gallery. A camera thread's frame is
`StartFrame`, one action per detection, `EndFrame` (forget and conflict
resolution). Every call on the gallery is a step of its own: `Qualify` and
`RoiMiss` search, and if they find nobody the enrolment is `Alloc`, one `Upsert`
per embedding and `Finish` (prune and lock), so that another camera's search or
upsert can fall in between. `Crash` is an exception of the store or the model
in the middle of a frame and `Restart` a new worker for the camera.

`Masks` and `Resolve` say whose frame step it is. Only the people-counting worker
computes which boxes overlap and passes it to the processors, and only it resolves
conflicts within a frame (`_detect_and_reid`). The desktop pipeline
(`pipeline.py:87-117`, the only caller of the region flow), the ReID runner
(`websocket/reid_runner.py:94-99`) and the HLS worker (`server/hls_session.py:52-57`)
do neither: `CallerAssumption` is that masking comes with resolving, and resolving
without regions. `Frozen` is the processors' test of the mask.

An embedding is whose it is and whether the crop was overlapped. Recognition is an
oracle: a search finds a SID if it holds an embedding of someone `Alike`. What a
detection looks like (`view`: gate failed, occluded, clean) is an input. With
`Alike` empty the run asks what the program does when the network is right, with
`Alike` full what the conflict resolution does when it is wrong. Stable ids are
taken as given: at most one detection per track and per person in a frame, and a
track that is out of view may be forgotten (`TIDState` says when).

### `OrgSessions`, `OrgSessionsProofs`

Connections, sessions, workers, captures and registry. The handlers of all
clients run on one event loop, and stopping a worker blocks it: `loop` says what
it is in the middle of, and every handler action needs it idle. Stopping is
`Signal` (set the event, stop the capture there is), `Joined` (the thread ended
*or* the time-out is over), then `Stopped` or `CloseDone`. A worker's thread goes
through `SetUp` (which does not look at the stop event), `TickBegins`,
`TickEnds`, and `Leave`, whose `finally` stops the capture. A `generation` counts
how often an organisation's gallery was emptied; a worker remembers which it
started with. `config` is chosen at start among `Settings`.

### `DwellLedger`, `DwellLedgerProofs`

One person, several cameras, several connections of an organisation. `Observe`,
then the report in the code's steps: `ReadLedger` (under the lock), `AddOwn`,
`AddPeer` for each of the session's other workers (without a lock), `Report`; then
the sweep as `Credit` (ledger, under the lock) and `Drop` (own total and table).
`quiet` notes whether anything the report reads has changed since it began, so
that exactness can be asked of undisturbed reports only. `QuietReportExact` holds
them against the total that the docstring of `lifetime_dwell_sec` promises, over
all cameras of the organisation, wherever the code can reach it: `AllInSession`
says that every visit in progress is on a camera of the same connection and none
is half-way through its sweep.

### `ReidServer`, `ReidServerProofs`

The ReID WebSocket server: connections, the table of sessions by client id, the
runner of each `start_stream` and its storage worker. A handler works on the table
between two awaits, so each message is one step; but two connections may name one
client id, and then replace and remove each other's entry (`Connect`, `Leave`;
`Fails` is the handler that finds its entry gone). A runner learns of a stop only
by reading the `streaming` flag under its client id, at the head of a cycle.
`Cancelled` marks the job of an entry: a job in the pool's line is skipped
(`Dropped`), one that a thread has taken up runs on. A runner goes through `SetUp`,
`CycleBegins`, `CycleEnds`, and, when it leaves the loop, `StopsCaptures` and
`PutsSentinel`, which waits for room in its queue. Its storage worker may have to
wait for a thread of a second pool; `waiting` is that line. `TakesRow` saves or
loses a row, `TakesSentinel` ends the worker. Rows are numbered by cycle. A storage
worker without a database takes rows and loses each of them, as one does whose
inserts all raise.

A request is a list of cameras in which an id may occur twice, since the handler
does not look. `captures` are the list's entries whose reader threads run, and
`InTable` the entries that the runner's table still knows: of two with one id the
later one. `StopsCaptures` stops these and no others.

### `Capture`, `HlsSession`, `HlsSessionProofs`

`Capture` is the reader thread of a camera as a record and operators on it, so
that a module with several of them keeps a function of records: `OpenSource`,
`Waited` and `ReadFrame` map a record to the records of the next state.

`HlsSession` is one session of the HLS server with everything it owns. `Register`,
`AssignThread` and `StartThread` are the request that creates it; the id can be
read and the session stopped in between. The worker's `pc` walks through its
set-up (`SetUpCapture`, `SetUpWriter` camera by camera), a `Pass` over the cameras
(`Camera`), a frame given to a writer (`Lock`, then `Written`) and its leaving
(`TellCapture`, `CloseWriter`); `FrameFails`, `FfmpegFails` and `SetUpFails` are
the exceptions in between and `FfmpegDies` the process ending by itself. The
stopper walks the same tables while the worker fills them: `TellCapture` for each
capture, `Join` with the worker's end or the time-out, `CloseWriter`, then
`RemoveFolder`. A writer's closed flag is tested before its lock is taken, as in
the code.

### `Training`, `TrainingProofs`

A training job of fast-reid: the loop of `TrainerBase.train` and, in the order
`build_hooks` registers them, the hooks after an epoch (`Schedule`, `Evaluate`,
`Checkpoint`). `RunStep` is an iteration with the hooks around it: the batch that
is handed out once the next one has been fetched, frozen layers, an update that
mixed precision may drop, a step of warm-up. What a model has learnt is how often
its head, its frozen layers and their statistics have been updated. A save is
four steps on the output directory: `OpenFile` empties the file, `WriteFile`
fills it, `OpenTag` and `WriteTag` do the same to `last_checkpoint`. `Crash` can
fall between any two of them, `Fails` is an exception, `Launch` a start with
`--resume`, `Resume` what it finds. `newest`, `resumed` and `top` are history
variables. `cfg` is chosen at start among `Configs`.

### Seeded faults

Operators whose comment begins "Seeded fault" are not part of a specification:
each is a definition as a plausible bug would have it, and replacing the
definition by it makes TLC violate the property that `PROJECT.json` pairs it
with. They show that the properties can fail.

## Runs

Run one with `tlc -workers 2 -config X.cfg M`.

| Run | Module, cfg | Question |
|---|---|---|
| `entry_exit` | `MCEntryExit` | Do counts, exits and alerts agree with each other and with `HeadCount` over every sequence of frames? |
| `tid_state` | `MCTIDState` | Are stable ids distinct and handed over only for a reason the code has? |
| `tid_takeover` (violation) | `MCTIDTakeover` | Is a new raw id linked to an old track only by overlap? |
| `identity_zones` | `MCIdentity`, `MCIdentityZones.cfg` | The desktop pipeline, with a camera of each enrolling flow, pruning and crashes: are SIDs sound, and is everybody identified? |
| `identity_conflict` | `MCIdentity`, `MCIdentityConflict.cfg` | The people-counting worker, with two people who look alike and may overlap: what does a frame show and lock, and is the gallery free of overlapped crops? |
| `identity_race` (violation) | `MCIdentity`, `MCIdentityRace.cfg` | Two enrolling cameras see one new person at once. |
| `org_sessions` | `MCOrgSessions`, `MCOrgSessions.cfg` | Four configurations: reference count, orphans, galleries under streaming cameras, and whether stopped workers end. |
| `dwell` | `MCDwellLedger` | Is the ledger exact, when is a report the total over the organisation, and what is it worth while other cameras sweep? |
| `reid_server` | `MCReidServer`, `MCReidServer.cfg` | Do streams that were stopped end, with the pools and the queue full and a camera named twice, and are rows saved in order? |
| `reid_restart` (violation) | `MCReidServer`, `MCReidRestart.cfg` | Does a runner end when its stream is started again? |
| `hls_session` | `MCHlsSession` | Stopped at any moment, does a session end with its captures, and are no ffmpeg process and no folder left? |
| `training` | `MCTraining` | Does a job that dies anywhere go on where an uninterrupted one would be, but for its frozen layers, from a file that loads, and does it end? |

### Bounds, and why they are enough

- `entry_exit`: three people against a threshold of two (below, at and over),
  four units of time against a timeout of one (seen again in time, too late, a
  second visit), a list of three exits of which two are quoted.
- `tid_state`: three raw ids at three places of which neighbours overlap, one
  allowed miss, five stable ids. Two tracks can compete for one recovery and one
  track for two; a number can be taken, free or fresh. A frame that would need a
  sixth id is not taken, which is why the run may stop (`CHECK_DEADLOCK FALSE`).
- `identity_*`: one or two people per view, one or two cameras; the frame
  counts (qualify, enrol, samples) are cut to one to three, the smallest at which
  the counting-down is visible and pruning (three embeddings) can happen.
  `identity_zones` has two people and three SIDs, so that everybody is still
  identified after an enrolment that died has burnt one. Its views have no
  overlapped crops, since nothing would mark them there. The runs stop when the
  SIDs are used up.
- `org_sessions`: two clients, two cameras, room for both in a session, requests of
  one or two and two workers: a second request meets a camera that runs already,
  which the duplicate check alone refuses, stop_all and closing have two workers to
  stop, and a camera can be restarted while its predecessor still runs. A request
  beyond the limit needs a third camera and is left to the proof (`LimitCorrect`).
  Two emptyings of the gallery; four configurations: as shipped, reset on
  connect with and without a kept database, dispose at zero.
- `dwell`: three cameras, two of which share a connection, and two units of time
  with a timeout of zero: a visit can end and begin again, and a peer's visit can
  begin after the reporting tick read the clock. All cameras may be stopped, so
  the run may stop.
- `reid_server`: three connections, two of which name one client id, pools of one
  thread and queues of two rows, so that pools and queues are full and a runner
  can wait for a storage thread that another one holds; two runners in all
  (`MaxJobs`) of three rows each (`MaxRows`): two rows can be queued in an order,
  a third find the queue full and be dropped, or join them when one has been
  taken. The request names one camera twice and another once. A runner that has
  made its rows stays in its loop, as a runner without new frames does.
  `reid_restart` needs one connection, with a pool that has room for both runners.
- `hls_session`: two cameras with different ids, one failed read before a capture
  opens its source again. Stop can meet the worker before, between and after two
  captures and writers. A session that has ended stays so, so the run stops.
- `training`: five jobs of at most four epochs of two iterations, started three
  times: a warm-up that ends within an epoch, with frozen layers; a delayed
  schedule whose last epoch the evaluation period leaves out, resumed from a
  checkpoint whose layers were still frozen; mixed precision; no evaluation at all;
  every epoch evaluated and saved, so that a job can be resumed from `model_best`
  and lose it in the same epoch.
  Three starts let a resumed job die and resume once more, two scores let a later
  model be better, equal or worse. A finished job stays so, and the run stops
  after the last start.

`CHECK_DEADLOCK FALSE` appears only where bounds or stopped cameras end the run.

### Fairness

- `Identity.FairSpec`: weak fairness of each camera's thread. The thread is a
  loop without a wait for anyone; its store and model calls return or raise. Crash
  and restart are not fair.
- `OrgSessions.FairSpec`: the loop's own steps (`Signal`, `Joined`, `Stopped`,
  `CloseDone`) are weakly fair since each join has a time-out; a worker's set-up
  returns or fails and its tick ends, since they are calls that return. Nothing
  is assumed of clients: that they connect, ask or leave. A worker is not assumed
  to begin ticks, only to end what it has begun.
- `HlsSession.FairSpec`: weak fairness of the request that starts the session, of
  the worker, of the stopper and of each capture thread: every wait in them is a
  join with a time-out, a sleep, or a lock whose holder goes on. ffmpeg takes what
  it is given or dies. Nobody has to stop a session.
- `Training.FairSpec`: weak fairness of the process and of its loading thread.
  Nobody has to start a process and none has to die.
- `ReidServer.FairSpec`: weak fairness of the detection pool, of each runner and
  of each storage worker: they are threads whose calls return or raise, and
  `put(None)` waits for room, which fairness alone does not promise. Nothing is
  assumed of clients: they may connect, ask and leave, or not.

Safety runs use `Spec`, without fairness.

## Results

All passing runs hold. Three runs show that the code does not do what its
documentation says:

- `tid_takeover`: `remap_tids` promises to re-link a new raw id to a lost track
  by overlap (`state.py:82-83`). Its third pass keeps a raw id as stable id
  whenever no detection *of this frame* holds it (`state.py:138`), although a
  track missing for a frame may. Fresh stable ids are allocated as one more than
  the largest id known, which is the number a tracker issues next. The next new
  person then inherits the missing person's votes and lock, wherever they stand.
- `identity_race`: `src/production/README.md:273-274` and `org_registry.py:6-8`
  promise ids that are stable across an organisation's cameras. Two MASTER
  cameras search and enrol without a lock, so a person who is new to both gets
  two SIDs. With one enrolling camera per person the property holds (`identity_zones`).
- `reid_restart`: the handler of `start_stream` turns the flag off "to stop any
  running session before starting a new one" (`websocket/reid_handler.py:125`) and
  on again before it awaits anything. The old runner does not see it: it runs on
  beside the new one, holding its cameras and a thread of the pool of five. When
  the client stops or leaves, both end (`StoppedStreamsEnd`).

What the passing runs say has limits that are the code's:

- `GalleryClean` speaks of the caller that masks, the people-counting worker, and
  says nothing of the others; see below.
- `QuietReportExact` asks that no camera of another connection sees the person and
  that no visit is half-way through its sweep; see below.
- `StoppedStreamsEnd` leaves out the capture that a request with a repeated id
  loses: it reads on for ever. When the ids of a request differ, it leaves out
  nothing.
- `FolderRemoved` allows one folder when the join has timed out: a frame past the
  closed flag can still write it.
- `Recoverable` excepts two cases. A crash between emptying and writing
  `last_checkpoint` leaves it empty, and the next start raises although every
  checkpoint is whole. A job resumed from `model_best`, because it had died between
  the two saves of an epoch, overwrites the file it came from and cannot resume if
  it dies while doing so (`Overwriting`). Nothing bounds what the second case
  loses: a job that dies behind each of its best saves, before the periodic one,
  has `model_best` as its only file, and none is whole when it dies in the next.
  The comment "Put it behind best model save to make last checkpoint valid"
  (`src/fast-reid/fastreid/utils/checkpoint.py`) orders the two saves of an epoch
  and does not reach this case. Outside it, the file that is named is whole, and
  some whole file holds the newest epoch ever named or a later one.
- `LineageExact` is exact for the epoch schedule and, without mixed precision, for
  the warm-up and the head; with it these are bounded from above only, since an
  iteration that changes the scale takes no step of warm-up and none is made up
  for. Frozen layers are never updated before their time, but do not follow an
  uninterrupted job: the optimizer counts frozen steps from the start of the
  process, so every start holds them back again, by at most `freezeIters` of the
  head's updates. No iteration is trained past the end of the schedule (`T_max`);
  the step behind the last epoch may pass it, and `model_final` is saved with that.
- `BestIsBest` speaks of one start: a resumed job forgets the best metric and
  replaces a better `model_best` at its first save.
- `TrainingEnds` excepts a loading thread that has died: nobody tells the trainer,
  which waits for the next batch for ever.

Read in the code while modelling, and not the subject of a run:

- Overlapped crops. `src/production/README.md:13-14` says that switching between
  the programs does not change the pipeline, and lines 83-87 and
  `src/production/config/config.yaml:90-94` that overlapping crops are kept out of
  the gallery. The desktop pipeline, the ReID runner and the HLS worker mark no
  overlaps, so there they are stored. With `Masks` and `Resolve` FALSE in the
  configuration of `identity_conflict`, and without the property's condition on
  `Masks`, TLC refutes `GalleryClean` in eight states: the second frame of an
  overlapped person qualifies it and stores its crop.
- A report's peers. `entry_exit.py:154-159` and `src/production/README.md:23`,
  464-466 and 550-553 promise the visits in progress on every camera of the
  organisation; `_peer_active_for` asks the workers of its own connection only.
  Without `AllInSession` TLC refutes `QuietReportExact` in six states: the person
  comes into view on camera 1, time passes, and camera 3, of another connection,
  sees the same person and reports nothing of the first visit. And a visit whose
  sweep has credited the ledger but not yet left the track table is counted twice
  by a report at that moment.
- A request to the ReID server that names a camera id twice
  (`websocket/reid_runner.py:215`; `websocket/reid_handler.py:90-99` does not
  refuse it) starts two captures, keeps one, and never stops the other.
  `reid_server` makes such requests; with no capture left out of `AtRest` TLC
  refutes `StoppedStreamsEnd`.
- A request to the HLS server may name a camera id twice, too. The second capture then
  replaces the first in its table and nobody stops the first. `hls_session` assumes
  ids that differ; with `Cameras = <<cam1, cam1>>` TLC refutes that every capture
  ends.
- After a failed last epoch `after_train` evaluates all the same, where the
  comment (`src/fast-reid/fastreid/engine/hooks.py:381`) wants to prevent it; an
  evaluation period of 0, which `after_epoch` allows, divides by zero there, and a
  finished job that is resumed raises because it has no epoch counter.
- An evaluation puts frozen layers back into training mode, and the hook does not
  freeze them again. The jobs here do not evaluate before the layers are free; nor
  do the shipped configurations on the data sets they name, where the first
  evaluation comes after thousands of iterations.
- `Average_dwell_time` is the mean over everyone who ever visited the camera
  (`counting/dwell.py`, `average`), while `src/production/README.md:508-509`
  speaks of the people currently visible.
- A later `start_stream` retunes the session but not workers already running.
- The runner's test for a repeated frame compares `id()` of a copy
  (`people_counting_runner.py:277-289`), and `RTSPCapture` never clears its frame:
  after a stream is lost the last picture is counted again and again.

## Proofs

TLAPS proves, for every value of the constants allowed by the named assumptions:

`EntryExitProofs` (from `EntryExitAssumption`: finite set of SIDs, naturals, rate
between 0 and 100, positive `ReportN`): `TypeCorrect`, `NetCountCorrect`,
`DwellBounded`, `ExitTimingCorrect`, `AlertsCorrect` (for a positive rate),
`ExitsReportedCorrect` and `HeadCountRefined`, the refinement of `HeadCount`. Type
correctness is inductive with the order entry ≤ last ≤ now; the counts need that a
sweep removes exactly the set it counts; the dwell bound is strengthened by
"completed dwell on this camera ends before the visit in progress began"; the
alerts need that the fired level is the level of the current occupancy; that exits
are quoted needs that cutting a list to its last *n* keeps those at their distance
from the end, twice.

`TIDStateProofs` (from `TIDStateAssumption`): `TypeCorrect`, `DistinctCorrect`,
`MappingCorrect`, `HandoverCorrect`, `RetirementCorrect`. The inductive invariant
`IInv` is `TypeOK`, `StableDistinct` and `MappingCurrent` together: the tables are
in step and the counter is beyond every track, the raw→stable map is one-to-one,
and it points at no track that another raw id holds. A number is fresh only
because of the first, kept ids are distinct only because of the second, and a
handover through the kept mapping is excluded by the third.

`OrgSessionsProofs` (from `OrgSessionsAssumption`: finite sets, positive limit):
`TypeCorrect`, `RefcountCorrect`, `OrphansNever`, `GalleryStableCorrect`,
`OutlivesCorrect`, `LimitCorrect`, for any number of clients, organisations,
cameras, workers and configurations. Two inductive invariants carry them. `Books`:
an organisation that is not built has count zero, the client of a closing loop is
still attached, and the count is the number of sessions. `Ownership`: the client
of an unstopped worker is attached to the worker's organisation, a closing session
has empty slots, every unstopped worker is in its session's slots or in the loop's
list, and its gallery is the current one. Together they make the count positive
whenever a worker streams, so that no reset or wipe can happen under it. The limit
of cameras rests on `Within`: the slots of a client and what the loop is about to
stop for it are together within the limit, a worker only goes from the one to the
other, and the list is empty when a request is cut and its workers are started.

`ReidServerProofs` (from `ReidServerAssumption`: finite connections, positive pool
and queue sizes, requests that are not empty and may repeat an id): `TypeCorrect`,
`EntriesCorrect`, `StorageCanEndCorrect`, `RowsInOrderCorrect`, for any
connections, client ids, pools, queues and any number of runners.
`EntriesHaveConnections` is inductive by itself. The rest is carried by `IInv`:
for each runner `Staged` (what its phase says of its storage worker and of its
queue: empty before the set-up, a sentinel only at the end and only after the
runner is gone) and `Ordered` (saved rows, then queued ones, rise and are no newer
than the runner's last cycle); and `InLine`, that a worker waits for a thread
once. `InLine` is needed because taking up the first of the line must not leave
the same worker in it.

`DwellLedgerProofs` (from `DwellAssumption`: a finite set of cameras, each with a
session): `TypeCorrect`, `ConservationCorrect`, `ReportsExact`, `ReportsCover`. The
ledger is the sum of what the cameras hold: the lemmas about `SumFunctionOnSet`
(what changing one summand does to the sum) are proved from the fold's definition
by looking at a smallest subset on which they would fail. Exactness needs
`QuietReading`: as long as nothing has been disturbed, what has been added up and the
visits of the peers still to look at are together the whole sum of the session;
when all visits in progress are the session's, the other cameras add nothing to
the organisation's (`SumWithoutZeros`). Cover needs
`OwnReading`: the reporting camera's own part is in from the start, disturbed or not.

`IdentityProofs` (from `IdentityAssumption` and `CallerAssumption`, any cameras,
tracks and people): `TypeCorrect`, `LocksCorrect`, `GalleryCorrect`,
`FrameCorrect`, `ConflictsCorrect` and `PeopleCorrect`. The inductive invariant
has five parts. `Shape`: an enrolment is of a detection of the frame. `Known`:
votes and an enrolment that has stored its crops are of identities with
embeddings; pruning keeps at least one, and a lock is set only after the first
upsert. `Clean`: in a caller that masks, crops are clean in every buffer and queue
on the way to the gallery; `GalleryCorrect` says this of masking callers only,
which is the people-counting worker. `Shown`: a record that is done with agrees
with its track's lock, which is what the conflict resolution relies on when it
clears both. `People`: a camera that enrols has collected crops of the one person
of the track, that person has no identity but the one under way, and no other
camera has its number. `PeopleCorrect` has the hypothesis `Apart`: a track of an
enrolling camera shows one person, no two enrolling cameras show the same one,
nobody is taken for another, a MASTER locks its first match, and crops that
overlap, if there are any, are marked. `identity_zones` is an instance of it, and
`identity_race` shows that without the second of these the statement is false.

`HlsSessionProofs` (from `HlsSessionAssumption`: a list of cameras, not empty, also
one that names an id twice): `TypeCorrect`, `NoOrphanCorrect`, `FolderCorrect`.
`Places` says where the two threads are in their loops and what the tables hold by
then; `Processes` that a writer is locked only while the worker writes to it and
that ffmpeg runs only where the worker's clean-up has still to come; `Folders` that
after the stop at most the frame that was past its closed flag can write. The
folder needs all three: once the writers are closed, only one writer can be in use.

`TrainingProofs` (from `TrainingAssumption`, for every configuration and any number
of starts): `TypeCorrect`, `RecoverableCorrect`, `BestCorrect`, `LineageCorrect`.
`Shape` relates the counters to the phase (an iteration lies within its epoch, by
products of variables) and says what a save under way and a file can hold.
`Tagged` says which file `last_checkpoint` names inside an epoch, `Named` that it
holds the newest epoch or later, `Topped` what `model_best` holds through the steps
of a save, `Measured` of which epoch the metric is. `InMemory` and `OnDisk` are
the lineage with the epoch in place of the quotient of the iterations. `Missed`
carries the other bound on frozen layers through starts: what the head is ahead of
them is at most what this start has frozen so far and `freezeIters` for each start
before. The
invariant was model-checked on the run's jobs first; the attempt to prove an
earlier `Recoverable`, which bounded the loss by one period, is how its
exception was found to have no bound, and the fifth job was added for it.

`DwellBounded`, `RetirementCorrect`, `EntriesCorrect` and `LimitCorrect` state
properties that no run checks, since they are proved for every instance.

Every invariant of a passing run, every action property and the refinement are
stated by one of these theorems. Only model-checked:

- liveness under fairness (`Identified`, `StoppedWorkersEnd`, `StoppedStreamsEnd`,
  `StoppedSessionsEnd`, `TrainingEnds`), which the prover cannot do, nor anything
  with ENABLED;
- the three violations, which are counterexamples and need no proof.

No module uses a RECURSIVE operator. Induction over data is out of the prover's
reach as the library states it, with an operator as parameter; the one such argument
here, over the finite sets of a sum, is made from the well-foundedness of the strict
subset order.

## Not modelled

- Authentication, GPU statistics, KVS resolution: stateless library calls; a
  failing one is a failing set-up in `OrgSessions`.
- Keypoint gating, overlap arithmetic, embeddings, cosine scores, the pose model
  and the ReID backends: numerical computation. The models take their results as
  inputs.
- Message formats, overlays, dashboards, logging, the configuration parser.
- The Postgres tables: one insert per frame, which succeeds or raises
  (`TakesRow`).
- The frames a ReID client is sent, and a send that fails: it is logged and the
  cycle goes on.
- The rescan of a persisted gallery at a process start, a reset that fails
  half-way, and the shutdown hooks of the WebSocket servers.
- A wall clock that is set back, and negative timeouts.
- Of `src/fast-reid` everything but the training loop: networks, layers, losses,
  image transforms, data-set readers, samplers, ranking metrics, visualisation,
  the converters to Caffe, ONNX and TensorRT with their generated protobuf code,
  and the sub-projects. It is a vendored research library of numerical code, nearly
  all of the repository's lines, of which the system calls one network's forward
  pass. This is why the share of lines modelled is small although most of the
  system's own stateful code is. Of the training loop: more than one rank, precise
  batch-norm statistics, weight averaging, and a start without `--resume` on a
  directory that has checkpoints.

## Plan

1. Compositions: `OrgSessions` with the gallery (a worker that outlives its
   join and writes after a reset), `EntryExit` with `Capture` (a repeated frame is
   counted again).
2. Abstract specifications for what is now stated by invariants only: a ledger of
   completed visits that `DwellLedger` implements, a checkpoint store for `Training`.
3. Action properties to prove: `newest` falls only where the store was overwritten;
   a lock of `Identity` is given up only by a conflict or a forgotten track.
