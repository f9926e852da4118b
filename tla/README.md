# TelemetrySpeed: a TLA+ model of the engine

TelemetrySpeed records the UDP telemetry of the F1 25/26 games. A Go engine
(`src/engine`) receives and parses packets, keeps track of sessions, laps and
sectors, and stores everything in PostgreSQL. A Godot client (`src/client`)
starts the engine, reads what it stored over HTTP and WebSocket, and draws it.

This directory holds TLA+ models of the engine from datagram to chart, the TLC
configurations that check them, and TLAPS proofs about them. `PROJECT.json`
lists components, runs, hazards, findings and theorems, and maps every
definition to the lines it models.

The repository has no tests. What the code is meant to do is taken from its
comments, from the schema in `migrations/` and from `src/engine/docs/`.

## 1. Inventory

    game --UDP--> Listener.receive --rawChan--> parserWorker x4 --routerChan-->
      SourceRouter --inChan (one per source)--> SourceHandler --writeCh-->
      TelemetryWriter --COPY--> PostgreSQL <-- consumer_api <-- client
                          SourceHandler --SessionWriter--> PostgreSQL

| Component | State | Operations | Talks to |
|---|---|---|---|
| UDP listener, `listener_udp.go`, `processor.go` | `rawChan`, socket, wait group | `Start`, `receive`, `enqueue`, `parserWorker`, `sendToRouter` | router over `routerChan`; stopped by a context |
| Source router, `source/router.go` | map of handlers by source address | `Run`, `dispatch`, `cleanupStale`, `shutdown` | handlers over `inChan`; reads their `lastSeen` |
| Source handler, `source/handler.go`, `frame.go` | `sessionState`, cached lap data, the frame being assembled | one handler per packet type, mid-join, frame assembly | `SessionWriter` (synchronous calls), `writeCh` |
| Session writer, `database/session_writer.go` | tables `sessions`, `laps`, `sectors`, `lap_times`, `participants` | one statement per method | PostgreSQL |
| Telemetry writer, `database/writer.go` | `buf`, ticker | `run`, `flush`, `bulkInsert`, drain at shutdown | PostgreSQL |
| Engine process, `cmd/engine/main.go`, `consumer_api/listener_control.go` | `listenerManager` (cancel, done, port), main's shutdown steps | start, stop, shutdown | all of the above |
| Live stream, `consumer_api/stream.go` | high-water mark, idle count | poll, send, give up when idle | PostgreSQL, client |
| Queries, `database/reader.go`, `fields.go` | none | laps, telemetry, best sectors, ideal lap, encoding of rows | PostgreSQL |
| Export and import, `database/export.go` | none; the file and the tables | one query or statement after the other, no transaction | PostgreSQL, another computer by way of the file |
| Schema, `database.go`, `migrations/` | schema, partitions | migrate with the backfill 007, create partitions, at every start | PostgreSQL |
| Parsers, `internal/parser` | none | decode the layouts of two games | parser workers |
| Client, `src/client` | engine process, selection, charts, live series | start, poll, stop the engine; requests; decode and draw | engine over HTTP and WebSocket |

What is hard:

* **Delivery.** UDP loses packets, four workers reorder them, three queues drop
  them when full. The handler gets SSTA, SEND and CHQF at any moment or not at all,
  and infers sessions and laps from what does arrive.
* **State spread over fields and tables.** `lapID`, `lapNum`, `lapOpen`,
  `sector`, `inPit` and the cached `car*` fields change at different places, each
  between database calls that may fail and whose errors are mostly ignored.
* **Goroutines and channel closes.** `inChan` is closed in two places and written
  in a third; `rawChan` and `routerChan` are closed during teardown.
* **Late commits.** A row is stamped when its frame begins, offered when the next frame
  begins, and committed with its batch; the live stream and the export read in between.
* **Statements without transactions.** Import and export are sequences of statements; the start of
  the engine repairs what it finds with a backfill that cannot tell a half-done import from a bad lap.
* **Tables kept in step by hand.** Packet layouts, field registry, column types, encoder and decoder.
* **Stopping.** A request, a signal, the router, the workers and the writer each
  react to a context or to a closed channel in their own time.

What makes each component correct:

* *Handler*: at most one session, lap and sector in progress, and the handler
  tracks exactly those; an ended session is never changed; a telemetry row is one
  frame of one session, in the order of frames where the network keeps it; a lap time is the one the game
  counted, written once.
* *Router and listener*: no send on, and no second close of, a closed channel;
  a source that is not silent keeps its handler; `Start` returns, and when it has
  returned nothing of the listener runs; events are lost only where the code says so.
* *Writer*: rows are stored in the order they were accepted, at most once, a batch
  wholly or not at all; accepted rows are stored in the end.
* *Engine*: no listener runs that nobody can stop; a shutdown ends; the pool is
  closed last.
* *Live stream*: every row of its session and lap once, in order, none skipped; it ends.
* *Library* (export, import, start): a file restores the laps it was made of; repeating or
  breaking off an import duplicates nothing and takes no lap away for good; the engine starts.
* *Conversions*: a field comes from the bytes the game put it in, and is read at the bytes and type it
  was written; no lap that can contribute to the ideal lap is faster than it; the stitched lap can be charted.

Section 7 lists what is not modelled.

## 2. Modules

| Module | Models | Extends |
|---|---|---|
| `SourceHandler` | `handler.go` with `session_writer.go` and the tables it writes; packets in any order | |
| `FrameOrder` | the same with a history of which frames' packets were overtaken by later ones | `SourceHandler` |
| `RecordedRace` | the same handler fed by one game over a channel that keeps the order and may lose packets; the game is external | `SourceHandler` |
| `SourceRouter` | `router.go`, the select loop of the handlers | |
| `Listener` | `listener_udp.go` and `processor.go` around the router | `SourceRouter` |
| `RowLog` | abstract specification: what the telemetry writer promises | |
| `TelemetryWriter` | `writer.go` | instantiates `RowLog` |
| `Engine` | `main.go`, `listenerManager`, `listener_control.go`, with the writer | `TelemetryWriter` |
| `LiveStream` | `stream.go` and the poll query of `reader.go` against rows on their way through the writer | `TelemetryWriter` |
| `Library` | `export.go` (both), the start of the engine, `EnsureCurrentPartitions`, migration 007, `ListLapTimes` | |
| `Parsers` | the parse functions of both games as layouts, their guards and dispatch | |
| `WireFormat` | field registry, encoding, the client's decoder and live blob | |
| `IdealLap` | best sectors, stitching, the client's delta walk | |
| `Conversions` | one call of any of the three above after the other, on boundary inputs | `Parsers`, `WireFormat`, `IdealLap` |
| `MC...` | instances for TLC: packet sets, symmetry | |
| `...Proofs` | theorems and their proofs | the module they are about, and `TLAPS` |

Definitions whose comment begins with *Faulty* are not part of any specification.
They are plausible mistakes in the operation next to them, one per property, and
`PROJECT.json` ("mutants") says which property each one breaks.

### SourceHandler

State: the fields of `SourceHandler` and `sessionState` (`session`, `lap`, `car`,
`prevLapNum`, `curFrameID`, `curFrame`) and the tables. A lap row is named by its
unique key (session, lap number), a sector row by (lap, sector), and `ended_at` by
the number of times it was written (0 is NULL). The contents of a packet in a frame
are named by the packet, so that rows can be told apart by where their parts
came from. One action per packet type: `SessionStarted` (SSTA),
`SessionEnded` (SEND, CHQF), `SessionPacket`, `ParticipantsPacket`, `FramePacket`
(Motion, Telemetry, Status, Damage, MotionEx), `LapData`, `LapDataNoSession`; `Stop`
is the end of `run`, `Restart` the handler that the next packet creates.

A handler runs its database calls one after the other, and nobody else writes its
session, so a packet is one step. `Fallible` names the calls that may fail. An
`Exec` whose error is ignored takes effect or not; a failing `CreateSession` or
`OpenLap` may have inserted its row (the connection broke after the commit).
A restarted handler never picks up the session of the one before.

`FrameOrder` adds the order in which packets reach the handler: the newest frame id merged and the set `late` of
frames one of whose packets came after a packet of a later frame or apart from the others of its frame. `RowsInFrameOrder`
says that such frames, and no others, give a second row or one that goes back in time.

### RecordedRace

A game that sends the packets of `PerFrame` in each frame (LapData and CarTelemetry in the run), with frame ids
from 1 in each race, a lap time that is back to 0 in the packet that advances the
lap number, sectors that only go up within a lap, and laps that may be given up
(restart, garage). The details of the session may come at any moment (`Details`). Packets and events may be lost; none are reordered. The history
variables `truth` (the game's last data of each lap) and `lossy` (something was
lost) serve the properties only.

### SourceRouter, Listener

Channels are sequences with capacities, goroutines are program counters. Handling a
packet takes two steps so that the router runs in between. Time is abstracted to
whether `staleTimeout` has passed: an age of a source or of a handler is `recent`,
`old` or, for the zero time of a new handler, `never`. `lastSeen` is read and written
without a lock; the model lets every comparison see the value before or after a
write, and a torn first write still compares as stale. `panicked` records a send on
or a close of a closed channel.

### TelemetryWriter, RowLog, Engine

The n-th row offered is the number n, which is enough to tell order, loss and repetition. A
COPY stores the whole buffer or nothing. `RowLog` promises: rows are accepted or refused as
they are offered; an insert takes a prefix of the accepted rows and appends all or none of
it to the table. The mapping reads `pending` as the buffer followed by the channel; `offered` and
`table` are themselves.
In `Engine` a listener is what `Listener.Start` runs: it sends rows while it is up and returns
after it was cancelled. Whether it does return is the subject of `Listener`. One that is started after `main` has
cancelled the parent context is `deaf`: `receive` returns before it reads anything (`listener_udp.go:100`), so it sends no row.
`Stop` is three steps (take under the lock, cancel, wait for done) by any of several
requests or by `main`.

### LiveStream

One connection; others are independent of it. The writer and its channel are those of `TelemetryWriter`, so a
row is offered, buffered and stored in separate steps, with polls between them. A row has a timestamp, a session and a
lap. The handler's timestamps are the game's frames on one clock and never step back within a session; the clock is
coarse enough that rows share one. `hwm`, `idle` and the three ends of a stream (a query that fails, at any moment; too many polls
without rows; a failed write) are the code's. The pool is closed after the context was cancelled, as `main` does it. `FlushedBeforeIdle` is a timing assumption: the stream gives up after 30 s
without rows (`main.go:78`), while an accepted row is flushed within 100 ms.

### Library

The tables as export and import see them: a lap of a car has a time (valid or not) and telemetry (a number of copies,
since the table has no key). The export is one query per table and the import one statement per row, each of which can fail or be the last
one before a kill. Recording goes on meanwhile, and the time of a lap may be recorded more than once with either verdict, since it is an upsert
(`session_writer.go:104`). Of laps with the same name, number and time `ListLapTimes` shows one (`DISTINCT ON`): `Listed` is the set before
this choice, which never hides a name, number and time altogether. The engine starts with the backfill and the partitions of
this month and the next, and the calendar moves on. The file can be taken to a second computer.

### Parsers, WireFormat, IdealLap, Conversions

These have no state in the code; each is written as operators, and `Conversions` calls them. `Parsers` is not an
interpreter of bytes: a layout is the sequence of reads of a parse function, from which follow the bytes each field comes from and
whether a read goes beyond the slice. `WireFormat` does the same for rows. `IdealLap` works on
recorded laps: rows with a time, a distance and a sector, some of them missing. A row has the lap time of the game and a timestamp of the
engine's clock, up to `MaxDelay` later; a lap ends with the last lap data that was handled (`handler.go:371`), which is that of its last row when
nothing is lost.

## 3. Runs

| Run | Shows | Instance |
|---|---|---|
| `SourceHandlerLaps` | the session, lap, sector and pit life cycle, packets in any order | 2 sessions, 2 laps, 2 sectors, pit, stop and restart, a name for the driver |
| `SourceHandlerFailures` | frames, their order and the lap cursor when `CloseSession` and `OpenLap` fail and packets are reordered (module `MCFrameOrder`) | 2 sessions, 2 laps, frame ids 0, 1 and 2, one other payload, full `writeCh` |
| `Race` | lap times and sectors for one race with lost packets and events | 3 laps, 5 frames of 2 packets, times to 3, a listener started before or in the race, a track |
| `Listener` | channel closes, teardown, stale handlers, where events get lost, and that a stop ends | 1 source, 2 workers, 2 handlers, 2 packets that are events, frames or rubbish, capacities 1 |
| `Engine` | requests against the shutdown; the writer implements `RowLog`; accepted rows are stored | 2 requests, 2 listeners, 2 ports, 2 rows, batches of 2, failing inserts |
| `LiveStream` | polls against offers, batches and late commits | 3 rows at 2 times, 2 laps, batches of 2, all laps or one, a lookback of 1, an idle end after 2 polls, inserts that succeed, queries that may fail |
| `Library` | export, import, restarts, months, a second computer | 1 session with 2 drivers of a lap each, 3 months, 2 copies |
| `Conversions` | layouts, encoding, ideal lap | 4 formats and an unknown one, all packet ids to 14, players around 22, 24 and 255, lengths around every guard; answers of 0 to 3 rows; 2 laps of 4 frames on 6 places with frames lost and stamps up to 1 late |
| `EngineFinalFlush` | finding 1, in a shutdown that no request races | 1 request, 1 row |
| `ImportTwice` | finding 2 | as `Library` |
| `DamageSlot` | finding 3 | as `Conversions` |
| `LiveChart` | finding 4 | as `Conversions` |

**Bounds and why they are enough.** *Sessions*: the properties of a session compare it
with the one before; with two, one ends and the next begins, under SSTA, SEND and
mid-join. *Laps*: a change needs two; `Race` has three so that a lap is given up between two
finished ones. *Sectors*: 0 and 2 suffice where only "first" and "last" matter, `Race`
uses all three. *Frames*: 0, which the code also uses for "none", and 1 and 2, one of which can come around the other; `Race` has 1 to 5, and
`RowIsOneFrame` and `RowsInFrameOrder` are proved for any frame ids.
`MaxStamps` 2 tells "once" from "more than once". *Capacities* of 1 make a
queue full with one packet, and the second one meets it full. *Workers*: two are the least that reorder. *Handlers*: a stale
drop uses a second one. The safety of the listener is proved for all values, so
its run is sized for liveness. *Requests*: two and `main` give every pair of
start, stop and shutdown. *Rows of the stream*: one that has been sent, one that is on its way, and one more with the timestamp of
either; with two laps there is one the filter refuses. *Months*: the one of the start, the one it prepares, and the first it
does not. *Drivers*: the file of a lap names one, the other must be left alone. *Conversions*: a guard
compares a length with one number, so one below, at and above it are all cases; the fields of a layout do not depend on the
length; four frames are a lap with one row per sector and one more, so that the final sector has one row or two, and a delay of one frame
makes a row later than the next one was due.
`SourceHandlerLaps` and `SourceHandlerFailures` keep lap times 0, so none is recorded: they are the subject of `Race`. In `SourceHandlerLaps` a
packet in the pit lane is in the first sector (`LifecyclePackets`): an entry does not look at the sector.
`CHECK_DEADLOCK FALSE` is set where the system may stop (a stopped listener, an exited
process, all packets or rows sent); in the `SourceHandler` runs and in `Conversions` deadlock is checked.

**Fairness.** `ListenerFairness`: every goroutine that can take a step takes it (the Go
scheduler), a handler's packet is handled in the end, and a worker that waits to send to
`routerChan` gets its turn when there is room again and again (strong fairness: Go channels
serve waiting senders first come, first served). Nothing is assumed of the sources, of the stale
ticker or of a cancellation. `EngineFairness`: the writer's goroutine, its ticker, the end of
a COPY and the timer of the drain; `main` once it is shutting down; requests in `Stop`; and a
cancelled listener returns, which `Listener` shows unless a worker is stuck with an event. `LiveFairness`: the writer as before,
and the ticker of the stream with its query (`PollAnswered`): a query of an open pool need not fail, one of a closed pool does. No request, row, shutdown or client has to come.

## 4. Findings

1. **The final flush does not happen** (`main.go:126`, run `EngineFinalFlush`): `main` cancels the context, shuts the API down, closes the
   pool and exits without waiting for the writer, whose drain alone takes 500 ms. The run excludes requests that race the shutdown: every
   listener has returned before the cancel, and the row it sent is lost all the same.
   `docs/02-backend.md:300` promises "one final flush".
2. **An import is not always repeatable** (`export.go:456`, run `ImportTwice`). The telemetry that is deleted before the COPY is that of the
   cars in `participants` of the file, the telemetry that is copied is all of it. A session exported before its
   Participants packet came (or an export that reads `participants` just before it) has the second
   without the first, and each import adds a copy. `NoDuplicateTelemetry` shows that this is the only way.
3. **F1 25 damage is read from the wrong car position** (`f1_2025.go:11`, run `DamageSlot`): the code takes 42 bytes per car, the specification of
   the game under `docs/` gives the packet 1041 bytes, which is 46 per car. Only for car 0 are both the same. `packets.go:130` repeats the 42. The same
   specification gives the MotionEx packet 273 bytes, wheel camber included, which the code reads for F1 26 only; nothing is
   misread there.
4. **A live series is never plotted** (`chart_canvas.gd:382`, run `LiveChart`): `append_series_rows` counts rows at byte 4 of the blob,
   everything else reads the count at byte 26, where it stays 0.

Seen while modelling, without a run of their own:

* A session that is abandoned by a stop, a restart or a stale handler keeps `ended_at` NULL; `OneSessionInProgress` speaks of the others.
* SSTA over a live session ends the session row, but its lap and sector keep `ended_at` NULL (`handler.go:199`), which
  `docs/01-database.md:56` reserves for laps in progress.
* When SEND, CHQF and SSTA between two races are all lost, the second is recorded into the session of the first: `OpenLap` of its
  laps fails on the unique key, and `RecordLapTime` overwrites times (`handler.go:370`). `Race` has one race for this reason.
* A handler whose goroutine has not taken its first packet has a zero `lastSeen` and is dropped by a cleanup tick (`router.go:109`); the next packet
  makes a second handler. `IdleHandlerWasSilent` therefore says "silent, or with packets still queued".
* A worker that waits to send an event to a full `routerChan` (512) when the router has already returned blocks
  a stop for ever (`processor.go:44`): `EventStuck` in `Listener`. `StopsUnlessEventStuck` shows that nothing else does.
* Two rows with one timestamp, of which the second is committed after a poll sent the first, are the rows a stream
  loses (`Tied`): `t.ts > since` skips the second.
* Deleting the telemetry of a driver before the COPY removes the driver's other laps when the file has one lap only
  (`ListedLapStays` allows for it). A COPY that then fails loses them until the import is repeated, and a restart in between marks their times
  invalid (migration 007); `BackupRestores` shows that the repeated import makes the laps of the file valid again, others stay invalid.
* An engine kept running for two months stores rows in `telemetry_default` and cannot create the partition of that
  month when it starts the next time in it: it ends with `log.Fatalf` (`overran`).
* The ideal lap of laps with lost rows can be shorter than anything driven, since a sector is taken to begin
  at its first row stored.
* A lap that begins in the pit lane (`FirstLap`) opens a sector and sets `inPit`; when
  the lap number changes that sector is not closed, and keeps `ended_at` NULL.
* SEND in the pit lane stamps again the sector that pit entry ended.
* SSTA ends the old session before it creates the new one; when `CreateSession` fails, the handler goes on
  recording into the ended session. `RecordsIntoOpenSession` and `EndedSessionFrozen` are therefore checked and
  proved for a `CreateSession` that succeeds. The properties of the life cycle (`OneSessionInProgress`,
  `OneLapInProgress`, `TrackedSector`, `EndClosesLaps`) are checked and proved for calls that all succeed: the
  handler ignores errors and never repeats a failed statement.
* A frame whose packets arrive around one of another frame becomes two rows, against "One row per car per frame"
  (`docs/01-database.md:73`), and a frame that comes late gives a row after that of a later one. `RowsInFrameOrder` shows that this takes a packet that was overtaken.
* A lap whose final sector has one row, the last one, is listed but not a candidate for the ideal lap: its finish is the time of that row, and
  `reader.go:249` asks for a later one. It can be faster than the ideal lap, or leave none (`OneRowIn`).
* A late packet of the lap before sets `carLapNum` back (`handler.go:383`), and the next packet records that lap again.
* A dropped source's first handler may still be busy when its second one starts.
* `prevLapNum` is kept over a session: a session may begin in the middle of a lap when the
  first lap number seen after SEND differs from the last seen before the session.
* A start request that races the shutdown leaves a listener running while the pool is closed;
  `raced` marks these behaviours, and `PoolOutlivesListeners` is about the others.

## 5. Proofs

TLAPS proves, for every value of the constants that meets the named assumptions (finite
or infinite sets of sessions, sources, handlers, workers and requests, any capacity, month or number of rows):

| Module | Theorems | Inductive invariant |
|---|---|---|
| `SourceHandlerProofs` | `TypeCorrect`, `CursorCorrect`, `OpenCorrect`, `RowsCorrect`, `EndedSessionsFrozen` | `SafetyInv`: `TypeOK`, `LapCursorRecorded`, `RecordsIntoOpenSession`, `RowIsOneFrame` with `FreshSessionsOpen`, `FrameInv`, `NoStaleCursor` |
| | `RowsAreInFrameOrder` (of `FrameOrder`) | `RecordInv`, `RowsBehind` |
| | `SessionsAreEnded`, `LapsDoNotOverlap`, `SectorsDoNotOverlap`, `EndClosesEveryLap` | `LapInv`: the properties with `ForeignKeys`, `LapHistory`, `SectorHistory` |
| `RecordedRaceProofs` | `RaceIsRecording`, `LapTimesWereDriven`, `LapTimesWrittenOnce`, `LapTimesAreExact`, `HandlerKeepsUp` | `GameInv`, `FreshStart`; `TimeInv`; `CursorInv` |
| `ListenerProofs` | `RouterTypeCorrect`, `RouterNeverPanics`, `RouterOutlivesHandlers` (of `SourceRouter`) | `RouterInv`, `SilenceInv` |
| | `ListenerTypeCorrect`, `ListenerNeverPanics`, `ListenerLeavesNothing`, `ListenerLosesNoEvent`, `ListenerDropsSilent` | `ListenerInv`: `RouterInv` and the stages of `Start`; `EventInv` |
| `TelemetryWriterProofs` | `WriterTypeCorrect`, `WriterImplementsLog` | `WriterTypeOK` |
| `EngineProofs` | `EngineTypeCorrect`, `NoListenerOrphaned`, `PoolClosedLast`, `EngineImplementsLog` | `EngineInv` |
| `LiveStreamProofs` | `StreamTypeCorrect`, `StreamSendsOnce`, `StreamSkipsNothing` | `StreamInv`: the properties with `CommitOrder`, `ClockOrder`, `HighWater`, `Polled` |
| `LibraryProofs` | `LibraryTypeCorrect`, `ImportsStaySingle`, `EngineStartsAgain`, `ExportIsBackup`, `ListedLapsStay` | `LibraryInv` |
| `ConversionsProofs` | `PayloadsAreDocumented`, `ClientReadsEngineRows`, `IdealLapIsCharted` | `CallsAreTyped` |

`RouterTypeOK` and `RouterWaitsForHandlers` are proved of `SourceRouter` alone, with any source of packets; the runs
check the router as part of `Listener`.

*The handler.* `LapCursorRecorded` is inductive with the type invariant: `lapID` changes with
`lapNum` and `lapOpen` only where `OpenLap` succeeded. `RowIsOneFrame` is not: the frame being
assembled decides the next row, so the strengthening says of `curFrame` what the property says of the rows.
It has to speak of the moment too: while a session is recorded and `curFrameID` is not 0, the frame is of
that session and id; an active frame has lap data. SSTA and mid-join empty the frame, which is why no
row mixes two sessions. `RecordsIntoOpenSession` and `EndedSessionFrozen` assume that `CreateSession` does not fail
(the assumption is in the theorem); the second follows from the first step by step, since every write names the session
being recorded. It also needs that a fresh session id has no `ended_at` (`FreshSessionsOpen`) and that a handler
without an open lap stamps no lap of an earlier session (`NoStaleCursor`).

*Rows in order.* `RowsBehind` puts the rows of the session at frames no later than the newest one merged, and before the frame being
assembled unless a packet of that was overtaken. Nothing is assumed of the order of packets, of losses or of failing statements.

*Laps and sectors.* That laps do not overlap is not inductive: it has to be known that the lap being opened is the
newest of its session (`LapHistory`) and that a new sector comes after all others of its lap (`SectorHistory`), so that
neither statement meets a row that is already there. `OneLapInProgress` speaks of every session: once the handler has let one go, its laps are never
opened or closed again, so the one lap that a second SSTA leaves in progress stays the only one. The theorems assume that the statements they
rest on do not fail; the assumptions name them. Packets come in any order.

*A race.* `RaceIsRecording` shows that every step of a race is a step of `SourceHandler`, so what is proved of that for
every order of packets holds in a race and its type and frame invariants come for free. The rest needs to know how far the game
was when the packet in hand was sent. `RaceSteps` first sorts the steps into five kinds by what they do to the
recording (a session begins, ends, another packet, the lap data, the next frame); each part of the invariant is then shown for each kind.
`TimeInv` follows a lap time back to the game: what was shown of each lap (`Shown`), that the cached lap data is of a lap
that was shown and no later than shown (`Cached`), that only laps before the cached one have a time (`Recorded`: this is why a time
is written once, and why the game no longer changes a lap that has one), and, while nothing is lost, that the cache lags the
game by no more than the lap data still to be delivered (`InStep`). `CursorInv` says the same of `lapNum` and
`sector`. The theorems take any frames, laps, kinds of payload, packet loss and set of failing statements, with two exceptions named in the
theorems (`RecordLapTime` for `LapTimesAreExact`, `OpenLap` for `HandlerKeepsUp`), and assume `Separate`: events are not lost, or there is one race.
Without it they are false, see section 4.

*The router.* `NoPanic` needs to know that, while the router runs, the map names no handler whose
`inChan` is closed, and that a handler not yet created is neither closed nor in the map: then
`cleanupStale` and `shutdown` close open channels only, and `dispatch` writes to open ones.
`RouterOutlivesHandlers` adds that no handler is created once the router waits. That a dropped handler was silent follows
from `SilenceInv`: a handler with an empty queue received after its source was last heard, and no two sources share one.

*The listener.* The router's invariant survives because the listener touches only what the
router reads. `routerChan` is closed after all workers are done, and only then does `Start` wait for the router.
`ListenerLosesNoEvent` follows an event from place to place; a place is overwritten only when it is empty, which the program
counters tell (`EventInv`), and a handler ends with a queue behind it only when the listener is cancelled.

*The writer and the engine.* `WriterImplementsLog` maps each step of the writer to a step of `RowLog` or
to a stutter: `Take` and `Drain` move a row from the head of the channel to the end of the buffer, and
their concatenation does not change. The environment may cancel and close the pool at any time.
`NoOrphanListener` says nothing of a listener that was told to stop, so the invariant adds that every listener
that is up is the manager's or in the hands of a caller of `Stop` (`HeldListeners`). `PoolOutlivesListeners` needs how far
`main` is and that, without a race, nobody but `main` holds a listener after the shutdown began (`ShutdownOrder`).
`EngineImplementsLog` reuses the writer's lemmas, since all
other steps of the engine leave the log alone.

*The live stream.* Rows are committed in the order they were offered (`CommitOrder`, of the table, the buffer and the channel
together) and stamped by a clock that does not step back within a session (`ClockOrder`), so what is
stored after a poll is not older than what that poll sent: it is newer than `hwm`, or tied.

*The library.* `LibraryInv` follows the two requests statement by statement: what the file holds of
what was listed when the export began (`PromiseInv`), what an import has restored so far (`ImportInv`), that telemetry is recorded once and copied
by an import of the file only (`CopyInv`), and that nothing is
stored outside the partitions in a month still to come (`PartitionInv`).

*The conversions.* Nothing is remembered from call to call: `CallsAreTyped` says what the inputs are, and the work is in
lemmas about the operators. Those that loop in the code are recursive functions here. The library's induction
theorems take an operator as a parameter, so `InductionOnSet` states induction for a set of naturals instead, and proves it from
the least element of its complement. With it a recursive function is shown to be a given table (`PosIs`, `OffsetsAre`), or to agree with
a function that is shown to exist (`RecursiveFunction`, for the rows of a sector and for the walk).

* A parser: `PosIs` gives the cursor after each read of the fourteen layouts, from which the `...Fields` lemmas get the documented bytes.
  `SlotInGrid` is why no read leaves the datagram: the length guard counts the slots of all cars, the index guard admits none beyond.
* A row: the default fields are registered and distinct, so `ResolveFields` returns them as they are; `DefaultRow` computes the offsets and the row
  size, which are the constants of the client; `TypesScanned` compares the registry with the column types. The number of rows is arbitrary.
* The ideal lap: the laps are any with rows whose clocks, distance and sector go forward and whose stamps spread no more than `MaxDelay`
  beyond their lap times (`IsLap`), which the laps of `Ideal` are (`StampsFollowTime`). A sector's rows
  are a subsequence of the lap's (`Picks`), so they run forward, for no longer than the sector (`Segment`).
  `Joined` shows that a segment put behind another keeps both clocks running, and that its duration is added, so the stitched
  lap lasts no longer than the sum of the best sectors and one delay for each. `SectorTimes` shows that the sector times of a candidate add up to its own
  time, so that sum is no more than it. `WalkEncloses` needs of the two runs only that they go forward: the walk
  does not step back, and what it has passed lies behind every later row.

**Model-checked only**: liveness (`StopsUnlessEventStuck`, `QueuedIsHandled`, `ShutdownEnds`,
`AcceptedIsStored`, `RowReachesClient`, `StreamEnds`), which needs fairness and `ENABLED`. Every safety property and action property of
a passing run is proved.

## 6. How to run

    tlc -workers 2 -config Race.cfg MCRecordedRace
    tlapm EngineProofs.tla

Each configuration is named after its run; `PROJECT.json` names its module.

## 7. Not modelled, and the plan

Left out of the modelled parts:

* the 90 copied fields of a frame, the scaling of parsed values, names of teams and tracks, log lines and counters;
* flashbacks: `FLBK` is ignored by the handler, and a frame id or distance that goes back afterwards is not in `RecordedRace`
  or in the recorded laps of `IdealLap` (the client's delta walk moves forward only);
* several listeners' handlers writing to one database (they share no session);
* two imports, or an import and an export, at once, and gzip and JSON around the file;
* a frame of the live stream that spans two changes of lap;
* starting and stopping PostgreSQL, the TimescaleDB variant of the schema, migrations that repeat without effect;
* the 10 s limit of the API's shutdown (`ApiShutDown` may happen at once) and the client's 8 s before it kills the
  engine (`EngineEnds` in `Library` may happen at any moment).

Not modelled at all: the standalone binaries (the same parts, wired without `listenerManager`), the client's requests,
selection, scenes and widgets, the plain listings of games, sessions and participants, the installer.

What is left to do:

1. `EngineProcess`: the client's start, health polling and shutdown on its timers, composed with `Engine`.
2. `ClientRequests`: answers that come after the selection has changed.
3. A second connection and two concurrent imports, which today are independent by assumption.
