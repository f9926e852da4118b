------------------------ MODULE TelemetryWriterProofs ------------------------
(* Theorems about TelemetryWriter, for every value of its constants. *)
EXTENDS TelemetryWriter, TLAPS

-----------------------------------------------------------------------------
(* Type correctness. *)

LEMMA RowsTaken ==
  ASSUME NEW q \in Seq(Row), q # <<>>
  PROVE  Head(q) \in Row /\ Tail(q) \in Seq(Row) /\ Len(Tail(q)) < Len(q)
OBVIOUS

LEMMA WriterTypeInit == WriterInit => WriterTypeOK
<1> SUFFICES ASSUME WriterInit PROVE WriterTypeOK
  OBVIOUS
<1>1. <<>> \in Seq(Row) /\ Len(<<>>) <= ChCap /\ 0 \in 0 .. MaxOffered
  BY WriterAssumption
<1> QED BY <1>1 DEF WriterInit, WriterTypeOK

LEMMA OfferType ==
  ASSUME WriterTypeOK, Offer
  PROVE  WriterTypeOK'
<1>1. offered + 1 \in 0 .. MaxOffered /\ offered + 1 \in Row
  BY WriterAssumption DEF WriterTypeOK, Offer, Row
<1>2. writeCh' \in Seq(Row) /\ Len(writeCh') <= ChCap
  <2>1. CASE Len(writeCh) < ChCap
    BY <1>1, <2>1, WriterAssumption DEF WriterTypeOK, Offer
  <2>2. CASE ~(Len(writeCh) < ChCap)
    BY <2>2 DEF WriterTypeOK, Offer
  <2> QED BY <2>1, <2>2
<1> QED BY <1>1, <1>2 DEF WriterTypeOK, Offer

LEMMA WriterStepType ==
  ASSUME WriterTypeOK, WriterStep
  PROVE  WriterTypeOK'
<1>1. CASE Take
  <2>1. Head(writeCh) \in Row /\ writeCh' \in Seq(Row) /\ Len(writeCh') <= ChCap
    BY <1>1, RowsTaken, WriterAssumption DEF WriterTypeOK, Take
  <2>2. buf' \in Seq(Row)
    BY <1>1, <2>1 DEF WriterTypeOK, Take
  <2>3. writer' \in {"run", "insert"}
    BY <1>1 DEF Take
  <2> QED BY <1>1, <2>1, <2>2, <2>3 DEF WriterTypeOK, Take
<1>2. CASE Drain
  <2>1. Head(writeCh) \in Row /\ writeCh' \in Seq(Row) /\ Len(writeCh') <= ChCap
    BY <1>2, RowsTaken, WriterAssumption DEF WriterTypeOK, Drain
  <2>2. buf' \in Seq(Row)
    BY <1>2, <2>1 DEF WriterTypeOK, Drain
  <2> QED BY <1>2, <2>1, <2>2 DEF WriterTypeOK, Drain
<1>3. CASE Flush
  <2>1. \A i \in 1 .. Len(buf) : buf[i] \in Row
    BY DEF WriterTypeOK
  <2>2. table' \in Seq(Row) /\ failed' \subseteq Row
    <3>1. table' \in {table, table \o buf}
      BY <1>3 DEF Flush
    <3>2. table \o buf \in Seq(Row)
      BY DEF WriterTypeOK
    <3>3. failed' \in {failed, failed \cup {buf[i] : i \in 1 .. Len(buf)}}
      BY <1>3 DEF Flush
    <3> QED BY <2>1, <3>1, <3>2, <3>3 DEF WriterTypeOK
  <2>3. buf' \in Seq(Row) /\ writer' \in {"run", "done"}
    BY <1>3 DEF Flush
  <2> QED BY <1>3, <2>2, <2>3 DEF WriterTypeOK, Flush
<1>4. CASE Tick
  BY <1>4 DEF WriterTypeOK, Tick
<1>5. CASE StartDrain
  BY <1>5 DEF WriterTypeOK, StartDrain
<1>6. CASE DrainEnds
  <2>1. writer' \in {"done", "final"}
    BY <1>6 DEF DrainEnds
  <2> QED BY <1>6, <2>1 DEF WriterTypeOK, DrainEnds
<1> QED BY <1>1, <1>2, <1>3, <1>4, <1>5, <1>6 DEF WriterStep

\* Steps of the environment that the writer only sees.
LEMMA SignalType ==
  ASSUME WriterTypeOK, CancelCtx \/ ClosePool \/ UNCHANGED writerVars
  PROVE  WriterTypeOK'
BY DEF WriterTypeOK, CancelCtx, ClosePool, writerVars

\* The writer's variables keep their types and writeCh its capacity.
THEOREM WriterTypeCorrect == WriterSpec => []WriterTypeOK
<1>1. WriterTypeOK /\ [WriterNext]_writerVars => WriterTypeOK'
  BY OfferType, WriterStepType, SignalType DEF WriterNext
<1> QED BY <1>1, WriterTypeInit, PTL DEF WriterSpec

-----------------------------------------------------------------------------
(* The refinement: rows that wait in buf or in writeCh are pending. *)

LEMMA AcceptedRow ==
  ASSUME NEW b \in Seq(Row), NEW q \in Seq(Row), NEW r \in Row
  PROVE  b \o Append(q, r) = Append(b \o q, r)
OBVIOUS

LEMMA MovedRow ==
  ASSUME NEW b \in Seq(Row), NEW q \in Seq(Row), q # <<>>
  PROVE  Append(b, Head(q)) \o Tail(q) = b \o q
OBVIOUS

LEMMA FlushedRows ==
  ASSUME NEW b \in Seq(Row), NEW q \in Seq(Row)
  PROVE  /\ SubSeq(b \o q, 1, Len(b)) = b
         /\ SubSeq(b \o q, Len(b) + 1, Len(b \o q)) = q
         /\ <<>> \o q = q /\ b \o <<>> = b
         /\ Len(b \o q) = Len(b) + Len(q)
OBVIOUS

LEMMA WriterRefinesInit == WriterInit => Log!LogInit
<1>1. <<>> \o <<>> = <<>>
  BY FlushedRows
<1> QED BY <1>1 DEF WriterInit, Log!LogInit

LEMMA OfferRefines ==
  ASSUME WriterTypeOK, Offer
  PROVE  Log!Accept \/ Log!Refuse
<1>1. offered + 1 \in Row
  BY WriterAssumption DEF WriterTypeOK, Offer, Row
<1>2. CASE Len(writeCh) < ChCap
  BY <1>1, <1>2, AcceptedRow DEF WriterTypeOK, Offer, Log!Accept
<1>3. CASE ~(Len(writeCh) < ChCap)
  BY <1>3 DEF Offer, Log!Refuse
<1> QED BY <1>2, <1>3

LEMMA FlushRefines ==
  ASSUME WriterTypeOK, Flush
  PROVE  Log!Insert \/ UNCHANGED Log!logVars
<1>1. /\ buf' = <<>> /\ writeCh' = writeCh /\ offered' = offered
      /\ table' \in {table, table \o buf}
  BY DEF Flush
<1>2. CASE buf = <<>>
  BY <1>1, <1>2, FlushedRows DEF WriterTypeOK, Log!logVars
<1>3. CASE buf # <<>>
  <2>1. Len(buf) \in 1 .. Len(buf \o writeCh)
    BY <1>3, FlushedRows DEF WriterTypeOK
  <2>2. /\ buf' \o writeCh' = SubSeq(buf \o writeCh, Len(buf) + 1, Len(buf \o writeCh))
        /\ buf = SubSeq(buf \o writeCh, 1, Len(buf))
    BY <1>1, FlushedRows DEF WriterTypeOK
  <2> QED BY <1>1, <2>1, <2>2 DEF Log!Insert
<1> QED BY <1>2, <1>3

LEMMA WriterStepRefines ==
  ASSUME WriterTypeOK, WriterStep
  PROVE  Log!Insert \/ UNCHANGED Log!logVars
<1>1. CASE Take \/ Drain
  <2>1. /\ writeCh # <<>> /\ writeCh' = Tail(writeCh)
        /\ buf' = Append(buf, Head(writeCh)) /\ UNCHANGED <<offered, table>>
    BY <1>1 DEF Take, Drain
  <2> QED BY <2>1, MovedRow DEF WriterTypeOK, Log!logVars
<1>2. CASE Flush
  BY <1>2, FlushRefines
<1>3. CASE Tick \/ StartDrain \/ DrainEnds
  BY <1>3 DEF Tick, StartDrain, DrainEnds, Log!logVars
<1> QED BY <1>1, <1>2, <1>3 DEF WriterStep

\* Rows reach the table in the order they were offered and at most once: the
\* writer implements RowLog, however its batches are cut.
THEOREM WriterImplementsLog == WriterSpec => ImplementsRowLog
<1>1. /\ WriterTypeOK
      /\ [WriterNext]_writerVars
      => [Log!Accept \/ Log!Refuse \/ Log!Insert]_Log!logVars
  <2> SUFFICES ASSUME WriterTypeOK, [WriterNext]_writerVars
               PROVE  Log!Accept \/ Log!Refuse \/ Log!Insert \/ UNCHANGED Log!logVars
    OBVIOUS
  <2>1. CASE Offer
    BY <2>1, OfferRefines
  <2>2. CASE WriterStep
    BY <2>2, WriterStepRefines
  <2>3. CASE CancelCtx \/ ClosePool \/ UNCHANGED writerVars
    BY <2>3 DEF CancelCtx, ClosePool, writerVars, Log!logVars
  <2> QED BY <2>1, <2>2, <2>3 DEF WriterNext
<1> QED
  BY <1>1, WriterRefinesInit, WriterTypeCorrect, PTL
     DEF WriterSpec, ImplementsRowLog, Log!LogSpec
=============================================================================
