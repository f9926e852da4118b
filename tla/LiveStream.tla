------------------------------ MODULE LiveStream ------------------------------
(***************************************************************************)
(* GET /ws/stream (consumer_api/stream.go): a connection pinned to one     *)
(* session polls the telemetry table for rows newer than the newest it has *)
(* sent, while the handlers offer rows and the writer stores them.  A row  *)
(* gets its timestamp when its frame begins and is offered when the next   *)
(* frame begins, any time later; the clock is a count of its own           *)
(* granularity, so that rows may share a timestamp.                        *)
(***************************************************************************)
EXTENDS TelemetryWriter, Integers

CONSTANTS
  MaxClock,    \* bound on the clock
  MaxSessions, \* sessions that handlers record or have recorded
  MaxLap,      \* bound on the lap numbers; 0 is "every lap"
  Filters,     \* laps that the client may ask for
  Lookback,    \* how far before now a stream starts (5 s)
  MaxIdleTicks \* polls without rows that end a stream (60)

ASSUME StreamAssumption ==
  /\ MaxClock \in Nat /\ MaxSessions \in Nat /\ MaxLap \in Nat
  /\ Filters \subseteq 0 .. MaxLap
  /\ Lookback \in Nat /\ MaxIdleTicks \in Nat \ {0}

VARIABLES
  clock,
  row,       \* row n is row[n]: its timestamp, session and lap
  stream,    \* "none", "open", "closed", or "failed" when a query ended it: one
             \* connection; others are independent
  client,    \* "here", "gone"
  pinned,    \* session of the stream
  lapFilter, \* lap asked for; 0 is live-follow
  start,     \* hwm at the beginning
  hwm,       \* newest timestamp sent
  idle,      \* polls without rows in a row
  sent,      \* history: rows sent on this connection
  misplaced  \* history: rows sent after one that was not older

recordVars == <<clock, row>>
streamVars == <<stream, client, pinned, lapFilter, start, hwm, idle, sent, misplaced>>
liveVars   == <<writerVars, recordVars, streamVars>>

Sample == [ts : 0 .. MaxClock, session : 1 .. MaxSessions, lap : 1 .. MaxLap]

-----------------------------------------------------------------------------
(* The handlers.  Timestamps of one session never step back. *)

OfferRow ==
  /\ Offer
  /\ \E r \in Sample :
       /\ r.ts <= clock
       /\ \A n \in 1 .. offered :
            row[n].session = r.session => row[n].ts <= r.ts
       /\ row' = Append(row, r)
  /\ UNCHANGED <<clock, streamVars>>

ClockTicks ==
  /\ clock < MaxClock
  /\ clock' = clock + 1
  /\ UNCHANGED <<writerVars, row, streamVars>>

-----------------------------------------------------------------------------
(* The stream. *)

\* The client names the session, or ResolveSessionID finds the newest one of
\* the game and track: the one being recorded only if its track is known yet.
Connect(s, lap) ==
  /\ stream = "none" /\ ~poolClosed
  /\ stream' = "open" /\ client' = "here"
  /\ pinned' = s /\ lapFilter' = lap
  /\ start' = clock - Lookback /\ hwm' = clock - Lookback
  /\ UNCHANGED <<writerVars, recordVars, idle, sent, misplaced>>

Stored == {table[i] : i \in 1 .. Len(table)}

Matches(n) == row[n].session = pinned /\ lapFilter \in {0, row[n].lap}

\* Faulty: >= instead of >.
FreshOrSame == {n \in Stored : Matches(n) /\ row[n].ts >= hwm}

\* PollTelemetryPinned: t.ts > since.
Fresh == {n \in Stored : Matches(n) /\ row[n].ts > hwm}

\* Timing: the 30 s without rows that end a stream are far longer than the
\* 100 ms after which an accepted row is flushed.
FlushedBeforeIdle == idle + 1 < MaxIdleTicks \/ buf \o writeCh = <<>> \/ cancelled

\* A query that fails, on a closed pool or on any other, ends the stream.
PollFails ==
  /\ stream = "open"
  /\ stream' = "failed"
  /\ UNCHANGED <<writerVars, recordVars, client, pinned, lapFilter, start, hwm,
                 idle, sent, misplaced>>

\* Faulty: nothing ends a stream without rows.
WaitsForRows ==
  /\ stream = "open" /\ ~poolClosed /\ Fresh = {}
  /\ idle' = MaxIdleTicks
  /\ UNCHANGED <<writerVars, recordVars, stream, client, pinned, lapFilter, start,
                 hwm, sent, misplaced>>

\* Faulty: > instead of >=.
PollEmptyOnceMore ==
  /\ stream = "open" /\ ~poolClosed /\ Fresh = {} /\ FlushedBeforeIdle
  /\ idle' = idle + 1
  /\ stream' = IF idle + 1 > MaxIdleTicks THEN "closed" ELSE "open"
  /\ UNCHANGED <<writerVars, recordVars, client, pinned, lapFilter, start, hwm,
                 sent, misplaced>>

PollEmpty ==
  /\ stream = "open" /\ ~poolClosed /\ Fresh = {} /\ FlushedBeforeIdle
  /\ idle' = idle + 1
  /\ stream' = IF idle + 1 >= MaxIdleTicks THEN "closed" ELSE "open"
  /\ UNCHANGED <<writerVars, recordVars, client, pinned, lapFilter, start, hwm,
                 sent, misplaced>>

\* Faulty: the next poll begins at the time of this one.
PollFromNow ==
  /\ stream = "open" /\ ~poolClosed /\ Fresh # {}
  /\ hwm' = clock /\ idle' = 0 /\ sent' = sent \cup Fresh
  /\ misplaced' = misplaced \cup {n \in Fresh : \E m \in sent : row[m].ts >= row[n].ts}
  /\ UNCHANGED <<writerVars, recordVars, stream, client, pinned, lapFilter, start>>

\* Rows are sent in the order of their timestamps.  The write fails once the
\* client has gone, though not at once.
PollRows ==
  /\ stream = "open" /\ ~poolClosed /\ Fresh # {}
  /\ \E n \in Fresh : (\A m \in Fresh : row[m].ts <= row[n].ts) /\ hwm' = row[n].ts
  /\ idle' = 0
  /\ \/ /\ sent' = sent \cup Fresh
        /\ misplaced' = misplaced \cup {n \in Fresh : \E m \in sent : row[m].ts >= row[n].ts}
        /\ UNCHANGED stream
     \/ /\ client = "gone"
        /\ stream' = "closed"
        /\ UNCHANGED <<sent, misplaced>>
  /\ UNCHANGED <<writerVars, recordVars, client, pinned, lapFilter, start>>

ClientLeaves ==
  /\ stream = "open" /\ client = "here"
  /\ client' = "gone"
  /\ UNCHANGED <<writerVars, recordVars, stream, pinned, lapFilter, start, hwm,
                 idle, sent, misplaced>>

-----------------------------------------------------------------------------
LiveInit ==
  /\ WriterInit
  /\ clock = 0 /\ row = <<>>
  /\ stream = "none" /\ client = "gone" /\ pinned = 0 /\ lapFilter = 0
  /\ start = 0 /\ hwm = 0 /\ idle = 0 /\ sent = {} /\ misplaced = {}

\* No query of an open pool has to fail.
PollAnswered == PollEmpty \/ PollRows \/ (poolClosed /\ PollFails)

Poll == PollFails \/ PollEmpty \/ PollRows

\* main cancels the context before it closes the pool; neither looks at the
\* streams.
Ends == CancelCtx \/ (cancelled /\ ClosePool)

LiveNext ==
  \/ OfferRow
  \/ (WriterStep \/ Ends) /\ UNCHANGED <<recordVars, streamVars>>
  \/ ClockTicks
  \/ \E s \in 1 .. MaxSessions, lap \in Filters : Connect(s, lap)
  \/ Poll
  \/ ClientLeaves

LiveSpec == LiveInit /\ [][LiveNext]_liveVars

\* The goroutines are scheduled, COPY and SELECT return, tickers tick.
LiveFairness ==
  /\ WF_liveVars(Take /\ UNCHANGED <<recordVars, streamVars>>)
  /\ WF_liveVars(Tick /\ UNCHANGED <<recordVars, streamVars>>)
  /\ WF_liveVars(Flush /\ UNCHANGED <<recordVars, streamVars>>)
  /\ WF_liveVars(PollAnswered)

FairLiveSpec == LiveSpec /\ LiveFairness

-----------------------------------------------------------------------------
(* Properties. *)

StreamTypeOK ==
  /\ WriterTypeOK
  /\ clock \in 0 .. MaxClock
  /\ row \in Seq(Sample) /\ Len(row) = offered
  /\ stream \in {"none", "open", "closed", "failed"} /\ client \in {"here", "gone"}
  /\ pinned \in 0 .. MaxSessions /\ lapFilter \in 0 .. MaxLap
  /\ start \in Int /\ hwm \in Int /\ start <= hwm
  /\ idle \in 0 .. MaxIdleTicks
  /\ sent \subseteq Stored /\ misplaced \subseteq sent

\* A connection gets every row once and in the order of the timestamps,
\* however the polls fall between the commits of the writer.
SentOnceInOrder == misplaced = {}

\* Shares its timestamp with a row that was sent, maybe before it was stored.
Tied(n) == n \in Stored /\ \E m \in sent : row[m].ts = row[n].ts

\* A poll leaves nothing behind: what is stored with a timestamp between the
\* start of the stream and the newest row sent has been sent, rows committed
\* after the poll that passed their timestamp included.  Only rows that share
\* the timestamp of a row sent before they were stored are lost.
NothingSkipped ==
  stream = "open" =>
    \A n \in Stored :
      Matches(n) /\ start < row[n].ts /\ row[n].ts <= hwm => n \in sent \/ Tied(n)

\* A row accepted on writeCh reaches the client that is streaming its session
\* and lap: every batch is flushed and polled.  Only a client that leaves, the
\* end of the engine, a failed insert or query or a tie comes between.
RowReachesClient ==
  \A n \in Row :
    /\ stream = "open"
    /\ InRows(n, writeCh) /\ Matches(n) /\ row[n].ts > start
    ~> \/ n \in sent \/ n \in failed \/ Tied(n)
       \/ client = "gone" \/ cancelled \/ stream = "failed"

\* No connection polls forever: a stream whose session or lap gets no more
\* rows ends, whether or not its client is there (stream.go:116).  Rows are
\* finite here; while they keep coming, the write to a client that has gone
\* ends the stream.
StreamEnds == stream = "open" ~> stream \in {"closed", "failed"}
=============================================================================
