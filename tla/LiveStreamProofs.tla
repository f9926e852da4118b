--------------------------- MODULE LiveStreamProofs ---------------------------
(***************************************************************************)
(* Theorems about LiveStream, for every value of its constants: however    *)
(* the polls fall between the commits of the writer, a stream sends a row  *)
(* once, in the order of the timestamps, and leaves nothing behind.        *)
(***************************************************************************)
EXTENDS LiveStream, TelemetryWriterProofs

Buffered == {buf[i] : i \in 1 .. Len(buf)}
Queued   == {writeCh[i] : i \in 1 .. Len(writeCh)}

\* Rows are stored in the order they were offered.
CommitOrder ==
  /\ Stored \cup Buffered \cup Queued \subseteq 1 .. offered
  /\ \A m \in Stored, n \in Buffered \cup Queued : m < n
  /\ \A m \in Buffered, n \in Queued : m < n
  /\ \A i, j \in 1 .. Len(writeCh) : i < j => writeCh[i] < writeCh[j]

\* The timestamps of one session never step back.
ClockOrder ==
  \A m, n \in 1 .. offered :
    m < n /\ row[m].session = row[n].session => row[m].ts <= row[n].ts

\* hwm is the newest timestamp that was sent.
HighWater ==
  /\ \A n \in sent : Matches(n) /\ row[n].ts <= hwm
  /\ stream = "open" => hwm = start \/ \E n \in sent : row[n].ts = hwm

\* A stream that is polled has not reached its limit, one that has not begun
\* has sent nothing.
Polled ==
  /\ stream = "open" => idle < MaxIdleTicks
  /\ stream = "none" => sent = {} /\ idle = 0

StreamInv ==
  /\ StreamTypeOK /\ CommitOrder /\ ClockOrder /\ HighWater /\ Polled
  /\ SentOnceInOrder /\ NothingSkipped

LEMMA ConcatElements ==
  ASSUME NEW s \in Seq(Row), NEW t \in Seq(Row)
  PROVE  {(s \o t)[i] : i \in 1 .. Len(s \o t)} \subseteq
           {s[i] : i \in 1 .. Len(s)} \cup {t[i] : i \in 1 .. Len(t)}
<1> SUFFICES ASSUME NEW i \in 1 .. Len(s \o t)
             PROVE  \/ \E j \in 1 .. Len(s) : (s \o t)[i] = s[j]
                    \/ \E j \in 1 .. Len(t) : (s \o t)[i] = t[j]
  OBVIOUS
<1>1. CASE i <= Len(s)
  BY <1>1
<1>2. CASE i > Len(s)
  <2>1. i - Len(s) \in 1 .. Len(t) /\ (s \o t)[i] = t[i - Len(s)]
    BY <1>2
  <2> QED BY <2>1
<1> QED BY <1>1, <1>2

\* Rows and their timestamps.
LEMMA RowTimes ==
  ASSUME StreamTypeOK
  PROVE  /\ offered \in Nat
         /\ \A n \in 1 .. offered : row[n] \in Sample /\ row[n].ts \in Int
<1>1. offered \in Nat /\ row \in Seq(Sample) /\ Len(row) = offered
  BY DEF StreamTypeOK, WriterTypeOK
<1>2. \A n \in 1 .. offered : row[n] \in Sample
  BY <1>1
<1>3. \A r \in Sample : r.ts \in Int
  BY DEF Sample
<1> QED BY <1>1, <1>2, <1>3

LEMMA StreamInvInit == LiveInit => StreamInv
<1> SUFFICES ASSUME LiveInit PROVE StreamInv
  OBVIOUS
<1>1. WriterTypeOK
  BY WriterTypeInit DEF LiveInit
<1>2. Stored = {} /\ Buffered = {} /\ Queued = {}
  BY DEF LiveInit, WriterInit, Stored, Buffered, Queued
<1>3. row \in Seq(Sample) /\ Len(row) = offered
  BY DEF LiveInit, WriterInit
<1>4. StreamTypeOK
  BY <1>1, <1>3, StreamAssumption DEF LiveInit, StreamTypeOK
<1>5. CommitOrder /\ ClockOrder
  BY <1>2 DEF LiveInit, WriterInit, CommitOrder, ClockOrder
<1> QED BY <1>4, <1>5 DEF LiveInit, StreamInv, HighWater, Polled, SentOnceInOrder, NothingSkipped

-----------------------------------------------------------------------------
(* The order in which rows are stored. *)

LEMMA OfferKeepsOrder ==
  ASSUME WriterTypeOK, CommitOrder, Offer
  PROVE  CommitOrder'
<1>1. offered \in Nat /\ offered' = offered + 1 /\ Stored' = Stored /\ Buffered' = Buffered
  BY DEF WriterTypeOK, Offer, Stored, Buffered
<1>2. CASE Len(writeCh) < ChCap
  <2>1. /\ Len(writeCh') = Len(writeCh) + 1 /\ writeCh'[Len(writeCh) + 1] = offered + 1
        /\ \A i \in 1 .. Len(writeCh) : writeCh'[i] = writeCh[i]
    BY <1>2 DEF WriterTypeOK, Offer
  <2>2. Queued' = Queued \cup {offered + 1}
    <3>1. Len(writeCh) \in Nat
      BY DEF WriterTypeOK
    <3>2. 1 .. Len(writeCh') = (1 .. Len(writeCh)) \cup {Len(writeCh) + 1}
      BY <2>1, <3>1
    <3> QED BY <2>1, <3>2 DEF Queued
  <2>3. \A i \in 1 .. Len(writeCh) : writeCh[i] \in 1 .. offered
    BY DEF CommitOrder, Queued
  <2>4. \A i, j \in 1 .. Len(writeCh') : i < j => writeCh'[i] < writeCh'[j]
    <3>1. \A i \in 1 .. Len(writeCh) : writeCh[i] < offered + 1
      BY <1>1, <2>3
    <3>2. Len(writeCh) \in Nat
      BY DEF WriterTypeOK
    <3> QED BY <2>1, <3>1, <3>2 DEF CommitOrder
  <2> QED BY <1>1, <2>2, <2>4 DEF CommitOrder
<1>3. CASE ~(Len(writeCh) < ChCap)
  <2>1. writeCh' = writeCh /\ Queued' = Queued
    BY <1>3 DEF Offer, Queued
  <2> QED BY <1>1, <2>1 DEF CommitOrder
<1> QED BY <1>2, <1>3

LEMMA StepKeepsOrder ==
  ASSUME WriterTypeOK, CommitOrder, WriterStep
  PROVE  CommitOrder'
<1>1. CASE Take \/ Drain
  <2>1. /\ writeCh # <<>> /\ writeCh' = Tail(writeCh)
        /\ buf' = Append(buf, Head(writeCh)) /\ UNCHANGED <<offered, table>>
    BY <1>1 DEF Take, Drain
  <2>2. /\ Len(writeCh') = Len(writeCh) - 1
        /\ \A i \in 1 .. Len(writeCh') : writeCh'[i] = writeCh[i + 1]
    BY <2>1 DEF WriterTypeOK
  <2>3. /\ Len(buf') = Len(buf) + 1 /\ buf'[Len(buf) + 1] = writeCh[1]
        /\ \A i \in 1 .. Len(buf) : buf'[i] = buf[i]
    BY <2>1 DEF WriterTypeOK
  <2>4. Len(writeCh) \in Nat \ {0} /\ Len(buf) \in Nat
    BY <2>1 DEF WriterTypeOK
  <2>5. Buffered' = Buffered \cup {writeCh[1]}
    BY <2>3, <2>4 DEF Buffered
  <2>6. Queued' \subseteq Queued /\ \A n \in Queued' : writeCh[1] < n
    BY <2>2, <2>4 DEF Queued, CommitOrder
  <2>7. writeCh[1] \in Queued /\ Stored' = Stored
    BY <2>1, <2>4 DEF Queued, Stored
  <2>8. \A i, j \in 1 .. Len(writeCh') : i < j => writeCh'[i] < writeCh'[j]
    BY <2>2, <2>4 DEF CommitOrder
  <2> QED BY <2>1, <2>5, <2>6, <2>7, <2>8 DEF CommitOrder
<1>2. CASE Flush
  <2>1. /\ buf' = <<>> /\ table' \in {table, table \o buf} /\ UNCHANGED <<offered, writeCh>>
    BY <1>2 DEF Flush
  <2>2. Buffered' = {} /\ Queued' = Queued
    BY <2>1 DEF Buffered, Queued
  <2>3. Stored' \subseteq Stored \cup Buffered
    <3>1. CASE table' = table
      BY <3>1 DEF Stored
    <3>2. CASE table' = table \o buf
      BY <3>2, ConcatElements DEF Stored, Buffered, WriterTypeOK
    <3> QED BY <2>1, <3>1, <3>2
  <2> QED BY <2>1, <2>2, <2>3 DEF CommitOrder
<1>3. CASE Tick \/ StartDrain \/ DrainEnds
  BY <1>3 DEF Tick, StartDrain, DrainEnds, CommitOrder, Stored, Buffered, Queued
<1> QED BY <1>1, <1>2, <1>3 DEF WriterStep

LEMMA SameLogKeepsOrder ==
  ASSUME CommitOrder, UNCHANGED <<offered, writeCh, buf, table>>
  PROVE  CommitOrder'
BY DEF CommitOrder, Stored, Buffered, Queued

-----------------------------------------------------------------------------
(* The steps. *)

LEMMA OfferRowKeepsInv ==
  ASSUME StreamInv, OfferRow
  PROVE  StreamInv'
<1>1. WriterTypeOK' /\ CommitOrder'
  BY OfferType, OfferKeepsOrder DEF StreamInv, StreamTypeOK, OfferRow
<1>2. PICK r \in Sample :
        /\ \A n \in 1 .. offered : row[n].session = r.session => row[n].ts <= r.ts
        /\ row' = Append(row, r)
  BY DEF OfferRow
<1>3. /\ offered \in Nat /\ offered' = offered + 1
      /\ row \in Seq(Sample) /\ Len(row) = offered
  BY DEF StreamInv, StreamTypeOK, WriterTypeOK, OfferRow, Offer
<1>4. /\ row' \in Seq(Sample) /\ Len(row') = offered'
      /\ row'[offered + 1] = r /\ \A n \in 1 .. offered : row'[n] = row[n]
  BY <1>2, <1>3
<1>5. Stored' = Stored /\ Stored \subseteq 1 .. offered /\ sent \subseteq Stored
  BY DEF OfferRow, Offer, Stored, StreamInv, CommitOrder, StreamTypeOK
<1>6. UNCHANGED <<clock, stream, client, pinned, lapFilter, start, hwm, idle, sent, misplaced>>
  BY DEF OfferRow, streamVars
<1>7. StreamTypeOK'
  BY <1>1, <1>4, <1>5, <1>6 DEF StreamInv, StreamTypeOK
<1>8. ClockOrder'
  BY <1>2, <1>3, <1>4 DEF ClockOrder, StreamInv
<1>9. \A n \in 1 .. offered : Matches(n)' <=> Matches(n)
  BY <1>4, <1>6 DEF Matches
<1>10. HighWater' /\ Polled' /\ SentOnceInOrder'
  BY <1>4, <1>5, <1>6, <1>9 DEF StreamInv, HighWater, Polled, SentOnceInOrder
<1>11. NothingSkipped'
  BY <1>4, <1>5, <1>6, <1>9 DEF StreamInv, NothingSkipped, Tied
<1> QED BY <1>1, <1>7, <1>8, <1>10, <1>11 DEF StreamInv

\* What is stored after a row was sent is not older than that row: if the
\* stream is past its timestamp, the two are tied.
LEMMA WriterStepKeepsInv ==
  ASSUME StreamInv, WriterStep, UNCHANGED <<recordVars, streamVars>>
  PROVE  StreamInv'
<1>1. WriterTypeOK' /\ CommitOrder'
  BY WriterStepType, StepKeepsOrder DEF StreamInv, StreamTypeOK
<1>2. /\ offered' = offered
      /\ UNCHANGED <<clock, row, stream, client, pinned, lapFilter, start, hwm, idle,
                     sent, misplaced>>
  BY DEF WriterStep, Take, Tick, Flush, StartDrain, Drain, DrainEnds, recordVars, streamVars
<1>3. Stored \subseteq Stored' /\ Stored' \subseteq Stored \cup Buffered
  <2>1. CASE Flush
    <3>1. table \in Seq(Row) /\ buf \in Seq(Row) /\ table' \in {table, table \o buf}
      BY <2>1 DEF Flush, StreamInv, StreamTypeOK, WriterTypeOK
    <3>2. \A i \in 1 .. Len(table) : i \in 1 .. Len(table') /\ table'[i] = table[i]
      BY <3>1
    <3>3. Stored \subseteq Stored'
      BY <3>2 DEF Stored
    <3>4. {table'[i] : i \in 1 .. Len(table')} \subseteq Stored \cup Buffered
      <4>1. CASE table' = table
        BY <4>1 DEF Stored
      <4>2. CASE table' = table \o buf
        BY <3>1, <4>2, ConcatElements DEF Stored, Buffered
      <4> QED BY <3>1, <4>1, <4>2
    <3> QED BY <3>3, <3>4 DEF Stored
  <2>2. CASE ~Flush
    BY <2>2 DEF WriterStep, Take, Tick, StartDrain, Drain, DrainEnds, Stored
  <2> QED BY <2>1, <2>2
<1>4. StreamTypeOK'
  BY <1>1, <1>2, <1>3 DEF StreamInv, StreamTypeOK
<1>5. ClockOrder' /\ HighWater' /\ Polled' /\ SentOnceInOrder'
  BY <1>2 DEF StreamInv, ClockOrder, HighWater, Polled, SentOnceInOrder, Matches
<1>6. ASSUME stream = "open", NEW n \in Stored', Matches(n), start < row[n].ts, row[n].ts <= hwm
      PROVE  n \in sent \/ \E m \in sent : row[m].ts = row[n].ts
  <2>1. CASE n \in Stored
    BY <1>6, <2>1 DEF StreamInv, NothingSkipped, Tied
  <2>2. CASE n \in Buffered
    <3>1. hwm # start
      <4>1. n \in 1 .. offered /\ StreamTypeOK
        BY <2>2 DEF StreamInv, CommitOrder
      <4>2. row[n].ts \in Int /\ start \in Int
        BY <4>1, RowTimes DEF StreamTypeOK
      <4> QED BY <1>6, <4>2
    <3>2. PICK m \in sent : row[m].ts = hwm
      BY <1>6, <3>1 DEF StreamInv, HighWater
    <3>3. m \in Stored /\ m < n /\ m \in 1 .. offered /\ n \in 1 .. offered
      BY <2>2 DEF StreamInv, StreamTypeOK, CommitOrder
    <3>4. row[m].session = row[n].session
      BY <1>6 DEF StreamInv, HighWater, Matches
    <3>5. row[m].ts <= row[n].ts
      BY <3>3, <3>4 DEF StreamInv, ClockOrder
    <3>6. row[m].ts \in Int /\ row[n].ts \in Int
      BY <3>3, RowTimes DEF StreamInv
    <3> QED BY <1>6, <3>2, <3>5, <3>6
  <2> QED BY <1>3, <2>1, <2>2
<1>7. NothingSkipped'
  BY <1>2, <1>6 DEF NothingSkipped, Tied, Matches
<1> QED BY <1>1, <1>4, <1>5, <1>7 DEF StreamInv

\* Steps that neither store nor send.
LEMMA OutsideKeepsInv ==
  ASSUME StreamInv,
         \/ Ends /\ UNCHANGED <<recordVars, streamVars>>
         \/ ClockTicks \/ ClientLeaves \/ UNCHANGED liveVars
  PROVE  StreamInv'
<1>1. /\ UNCHANGED <<offered, writeCh, buf, table, row, stream, pinned, lapFilter, start,
                     hwm, idle, sent, misplaced>>
      /\ clock' \in 0 .. MaxClock /\ client' \in {"here", "gone"}
      /\ CancelCtx \/ ClosePool \/ UNCHANGED writerVars
  <2>1. clock \in 0 .. MaxClock /\ client \in {"here", "gone"} /\ MaxClock \in Nat
    BY StreamAssumption DEF StreamInv, StreamTypeOK
  <2>2. CASE Ends /\ UNCHANGED <<recordVars, streamVars>>
    BY <2>1, <2>2 DEF Ends, CancelCtx, ClosePool, recordVars, streamVars
  <2>3. CASE ClockTicks
    BY <2>1, <2>3 DEF ClockTicks, writerVars, streamVars
  <2>4. CASE ClientLeaves
    BY <2>1, <2>4 DEF ClientLeaves, writerVars, recordVars
  <2>5. CASE UNCHANGED liveVars
    BY <2>1, <2>5 DEF liveVars, writerVars, recordVars, streamVars
  <2> QED BY <2>2, <2>3, <2>4, <2>5
<1>2. WriterTypeOK' /\ CommitOrder' /\ Stored' = Stored
  BY <1>1, SignalType, SameLogKeepsOrder DEF StreamInv, StreamTypeOK, Stored
<1>3. StreamTypeOK'
  BY <1>1, <1>2 DEF StreamInv, StreamTypeOK
<1>4. ClockOrder' /\ HighWater' /\ Polled' /\ SentOnceInOrder' /\ NothingSkipped'
  BY <1>1, <1>2
     DEF StreamInv, ClockOrder, HighWater, Polled, SentOnceInOrder, NothingSkipped, Tied, Matches
<1> QED BY <1>2, <1>3, <1>4 DEF StreamInv

\* A stream begins.
LEMMA ConnectKeepsInv ==
  ASSUME StreamInv, NEW s \in 1 .. MaxSessions, NEW lap \in Filters, Connect(s, lap)
  PROVE  StreamInv'
<1>1. /\ UNCHANGED writerVars /\ UNCHANGED <<offered, writeCh, buf, table, clock, row, idle, sent, misplaced>>
      /\ stream = "none" /\ stream' = "open" /\ client' = "here" /\ pinned' = s /\ lapFilter' = lap
      /\ start' = clock - Lookback /\ hwm' = clock - Lookback
  BY DEF Connect, writerVars, recordVars
<1>2. WriterTypeOK' /\ CommitOrder' /\ Stored' = Stored
  BY <1>1, SignalType, SameLogKeepsOrder DEF StreamInv, StreamTypeOK, Stored
<1>3. sent = {} /\ idle = 0
  BY <1>1 DEF StreamInv, Polled
<1>4. /\ s \in 0 .. MaxSessions /\ lap \in 0 .. MaxLap /\ start' \in Int /\ hwm' = start'
      /\ 0 < MaxIdleTicks
  BY <1>1, StreamAssumption DEF StreamInv, StreamTypeOK
<1>5. StreamTypeOK'
  BY <1>1, <1>2, <1>4 DEF StreamInv, StreamTypeOK
<1>6. ClockOrder' /\ HighWater' /\ Polled' /\ SentOnceInOrder'
  BY <1>1, <1>3, <1>4 DEF StreamInv, ClockOrder, HighWater, Polled, SentOnceInOrder
<1>7. NothingSkipped'
  <2>1. \A n \in Stored : row[n].ts \in Int
    BY RowTimes DEF StreamInv, CommitOrder
  <2> QED BY <1>1, <1>2, <1>4, <2>1 DEF NothingSkipped
<1> QED BY <1>2, <1>5, <1>6, <1>7 DEF StreamInv

\* A poll without rows, or one that fails.
LEMMA EmptyPollKeepsInv ==
  ASSUME StreamInv, PollFails \/ PollEmpty
  PROVE  StreamInv'
<1>1. /\ UNCHANGED writerVars
      /\ UNCHANGED <<offered, writeCh, buf, table, clock, row, client, pinned, lapFilter,
                     start, hwm, sent, misplaced>>
      /\ stream = "open" /\ stream' \in {"open", "closed", "failed"}
  BY DEF PollFails, PollEmpty, writerVars, recordVars
<1>2. WriterTypeOK' /\ CommitOrder' /\ Stored' = Stored
  BY <1>1, SignalType, SameLogKeepsOrder DEF StreamInv, StreamTypeOK, Stored
<1>3. idle' \in 0 .. MaxIdleTicks /\ (stream' = "open" => idle' < MaxIdleTicks)
  BY StreamAssumption DEF StreamInv, StreamTypeOK, Polled, PollFails, PollEmpty
<1>4. StreamTypeOK'
  BY <1>1, <1>2, <1>3 DEF StreamInv, StreamTypeOK
<1>5. ClockOrder' /\ HighWater' /\ Polled' /\ SentOnceInOrder' /\ NothingSkipped'
  BY <1>1, <1>2, <1>3
     DEF StreamInv, ClockOrder, HighWater, Polled, SentOnceInOrder, NothingSkipped, Tied, Matches
<1> QED BY <1>2, <1>4, <1>5 DEF StreamInv

\* A poll that finds rows.
LEMMA RowsPollKeepsInv ==
  ASSUME StreamInv, PollRows
  PROVE  StreamInv'
<1>1. /\ UNCHANGED writerVars
      /\ UNCHANGED <<offered, writeCh, buf, table, clock, row, client, pinned, lapFilter, start>>
      /\ stream = "open" /\ idle' = 0
  BY DEF PollRows, writerVars, recordVars
<1>2. WriterTypeOK' /\ CommitOrder' /\ Stored' = Stored
  BY <1>1, SignalType, SameLogKeepsOrder DEF StreamInv, StreamTypeOK, Stored
<1>3. PICK n \in Fresh : (\A m \in Fresh : row[m].ts <= row[n].ts) /\ hwm' = row[n].ts
  BY DEF PollRows
<1>4. \A m \in Stored : row[m].ts \in Int
  BY RowTimes DEF StreamInv, CommitOrder
<1>5. Fresh \subseteq Stored /\ sent \subseteq Stored
  BY DEF Fresh, StreamInv, StreamTypeOK
<1>6. start \in Int /\ hwm \in Int /\ start <= hwm /\ hwm' \in Int /\ hwm < hwm' /\ start <= hwm'
  BY <1>3, <1>4, <1>5 DEF Fresh, StreamInv, StreamTypeOK
<1>7. \A m \in sent : row[m].ts <= hwm /\ row[m].ts <= hwm' /\ Matches(m)
  BY <1>4, <1>5, <1>6 DEF StreamInv, HighWater
<1>8. 0 \in 0 .. MaxIdleTicks /\ 0 < MaxIdleTicks
  BY StreamAssumption
<1>9. ClockOrder'
  BY <1>1 DEF StreamInv, ClockOrder
<1>10. CASE UNCHANGED stream /\ sent' = sent \cup Fresh
            /\ misplaced' = misplaced \cup {k \in Fresh : \E m \in sent : row[m].ts >= row[k].ts}
  <2>1. \A k \in Fresh, m \in sent : ~(row[m].ts >= row[k].ts)
    BY <1>4, <1>5, <1>6, <1>7 DEF Fresh
  <2>2. misplaced' = {}
    BY <1>10, <2>1 DEF StreamInv, SentOnceInOrder
  <2>3. StreamTypeOK'
    BY <1>1, <1>2, <1>5, <1>6, <1>8, <1>10, <2>2 DEF StreamInv, StreamTypeOK
  <2>4. HighWater'
    BY <1>1, <1>3, <1>7, <1>10 DEF HighWater, Matches, Fresh
  <2>5. Polled' /\ SentOnceInOrder'
    BY <1>1, <1>8, <1>10, <2>2 DEF Polled, SentOnceInOrder
  <2>6. ASSUME NEW k \in Stored, Matches(k), start < row[k].ts, row[k].ts <= hwm'
        PROVE  k \in sent' \/ \E m \in sent' : row[m].ts = row[k].ts
    <3>1. CASE row[k].ts > hwm
      BY <1>10, <2>6, <3>1 DEF Fresh
    <3>2. CASE row[k].ts <= hwm
      BY <1>1, <1>10, <2>6, <3>2 DEF StreamInv, NothingSkipped, Tied
    <3> QED BY <1>4, <1>6, <3>1, <3>2
  <2>7. NothingSkipped'
    BY <1>1, <1>2, <1>10, <2>6 DEF NothingSkipped, Tied, Matches
  <2> QED BY <1>2, <1>9, <2>3, <2>4, <2>5, <2>7 DEF StreamInv
<1>11. CASE stream' = "closed" /\ UNCHANGED <<sent, misplaced>>
  <2>1. StreamTypeOK'
    BY <1>1, <1>2, <1>6, <1>8, <1>11 DEF StreamInv, StreamTypeOK
  <2>2. HighWater' /\ Polled' /\ SentOnceInOrder' /\ NothingSkipped'
    BY <1>1, <1>7, <1>11 DEF StreamInv, HighWater, Polled, SentOnceInOrder, NothingSkipped, Matches
  <2> QED BY <1>2, <1>9, <2>1, <2>2 DEF StreamInv
<1> QED BY <1>10, <1>11 DEF PollRows

LEMMA StreamInvStep == StreamInv /\ [LiveNext]_liveVars => StreamInv'
<1> SUFFICES ASSUME StreamInv, [LiveNext]_liveVars PROVE StreamInv'
  OBVIOUS
<1>1. CASE OfferRow
  BY <1>1, OfferRowKeepsInv
<1>2. CASE WriterStep /\ UNCHANGED <<recordVars, streamVars>>
  BY <1>2, WriterStepKeepsInv
<1>3. CASE \/ Ends /\ UNCHANGED <<recordVars, streamVars>>
           \/ ClockTicks \/ ClientLeaves \/ UNCHANGED liveVars
  BY <1>3, OutsideKeepsInv
<1>4. CASE \E s \in 1 .. MaxSessions, lap \in Filters : Connect(s, lap)
  BY <1>4, ConnectKeepsInv
<1>5. CASE Poll
  BY <1>5, EmptyPollKeepsInv, RowsPollKeepsInv DEF Poll
<1> QED BY <1>1, <1>2, <1>3, <1>4, <1>5 DEF LiveNext

LEMMA StreamInvAlways == LiveSpec => []StreamInv
BY StreamInvInit, StreamInvStep, PTL DEF LiveSpec

-----------------------------------------------------------------------------
\* The variables of the stream keep their types, hwm never falls below the
\* start, and only stored rows are sent.
THEOREM StreamTypeCorrect == LiveSpec => []StreamTypeOK
<1>1. StreamInv => StreamTypeOK
  BY DEF StreamInv
<1> QED BY <1>1, StreamInvAlways, PTL

\* A connection gets every row once and in the order of the timestamps,
\* whatever the size of the batches and the moment of the polls.
THEOREM StreamSendsOnce == LiveSpec => []SentOnceInOrder
<1>1. StreamInv => SentOnceInOrder
  BY DEF StreamInv
<1> QED BY <1>1, StreamInvAlways, PTL

\* A poll leaves nothing behind, rows committed after it included: only a tie
\* with a row sent before can lose a row.
THEOREM StreamSkipsNothing == LiveSpec => []NothingSkipped
<1>1. StreamInv => NothingSkipped
  BY DEF StreamInv
<1> QED BY <1>1, StreamInvAlways, PTL
=============================================================================
