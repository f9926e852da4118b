--------------------------- MODULE TelemetryWriter ---------------------------
(***************************************************************************)
(* TelemetryWriter (internal/database/writer.go): the goroutine between    *)
(* writeCh and the telemetry table.  A message is one row, as finalizeFrame*)
(* sends it; rows are numbered in the order they are offered.  Whatever    *)
(* else is going on (producers, cancellation, the pool) is an action that  *)
(* Engine refines.                                                         *)
(***************************************************************************)
EXTENDS Naturals, Sequences

CONSTANTS
  ChCap,       \* capacity of writeCh (1024)
  BatchSize,   \* rows that trigger a flush (500)
  MaxOffered,  \* bound on the rows offered
  InsertFails  \* whether the COPY may fail while the pool is open

ASSUME WriterAssumption ==
  /\ ChCap \in Nat \ {0}
  /\ BatchSize \in Nat \ {0}
  /\ MaxOffered \in Nat
  /\ InsertFails \in BOOLEAN

VARIABLES
  offered,    \* rows offered to writeCh so far
  writeCh,
  buf,
  writer,     \* "run", "insert" (in bulkInsert), "drain", "final" (the last
              \* bulkInsert), "done"
  table,      \* rows in the telemetry table, in the order of their COPY
  cancelled,  \* ctx is done
  poolClosed, \* db.Close has returned
  failed      \* history: rows whose COPY failed

writerVars == <<offered, writeCh, buf, writer, table, cancelled, poolClosed, failed>>

\* finalizeFrame: a row that finds writeCh full is dropped.
Offer ==
  /\ offered < MaxOffered
  /\ offered' = offered + 1
  /\ writeCh' = IF Len(writeCh) < ChCap THEN Append(writeCh, offered + 1) ELSE writeCh
  /\ UNCHANGED <<buf, writer, table, cancelled, poolClosed, failed>>

Take ==
  /\ writer = "run" /\ writeCh # <<>>
  /\ writeCh' = Tail(writeCh)
  /\ buf' = Append(buf, Head(writeCh))
  /\ writer' = IF Len(buf') >= BatchSize THEN "insert" ELSE "run"
  /\ UNCHANGED <<offered, table, cancelled, poolClosed, failed>>

\* Faulty: only a full batch is flushed.
TickOnFullBatch ==
  /\ writer = "run" /\ Len(buf) >= BatchSize
  /\ writer' = "insert"
  /\ UNCHANGED <<offered, writeCh, buf, table, cancelled, poolClosed, failed>>

\* flushInterval has passed.
Tick ==
  /\ writer = "run" /\ buf # <<>>
  /\ writer' = "insert"
  /\ UNCHANGED <<offered, writeCh, buf, table, cancelled, poolClosed, failed>>

\* flush: one COPY, which stores the whole buffer or, failing, nothing; the
\* buffer is emptied either way.
Flush ==
  /\ writer \in {"insert", "final"}
  /\ \/ ~poolClosed /\ table' = table \o buf /\ failed' = failed
     \/ /\ poolClosed \/ InsertFails
        /\ table' = table
        /\ failed' = failed \cup {buf[i] : i \in 1 .. Len(buf)}
  /\ buf' = <<>>
  /\ writer' = IF writer = "insert" THEN "run" ELSE "done"
  /\ UNCHANGED <<offered, writeCh, cancelled, poolClosed>>

StartDrain ==
  /\ writer = "run" /\ cancelled
  /\ writer' = "drain"
  /\ UNCHANGED <<offered, writeCh, buf, table, cancelled, poolClosed, failed>>

\* Faulty: the drained row is put in front.
DrainInFront ==
  /\ writer = "drain" /\ writeCh # <<>>
  /\ writeCh' = Tail(writeCh)
  /\ buf' = <<Head(writeCh)>> \o buf
  /\ UNCHANGED <<offered, writer, table, cancelled, poolClosed, failed>>

Drain ==
  /\ writer = "drain" /\ writeCh # <<>>
  /\ writeCh' = Tail(writeCh)
  /\ buf' = Append(buf, Head(writeCh))
  /\ UNCHANGED <<offered, writer, table, cancelled, poolClosed, failed>>

\* The 500 ms are over: the final flush, if there is anything to flush.
DrainEnds ==
  /\ writer = "drain"
  /\ writer' = IF buf = <<>> THEN "done" ELSE "final"
  /\ UNCHANGED <<offered, writeCh, buf, table, cancelled, poolClosed, failed>>

CancelCtx ==
  /\ ~cancelled
  /\ cancelled' = TRUE
  /\ UNCHANGED <<offered, writeCh, buf, writer, table, poolClosed, failed>>

ClosePool ==
  /\ ~poolClosed
  /\ poolClosed' = TRUE
  /\ UNCHANGED <<offered, writeCh, buf, writer, table, cancelled, failed>>

WriterInit ==
  /\ offered = 0 /\ writeCh = <<>> /\ buf = <<>> /\ writer = "run" /\ table = <<>>
  /\ cancelled = FALSE /\ poolClosed = FALSE /\ failed = {}

WriterStep == Take \/ Tick \/ Flush \/ StartDrain \/ Drain \/ DrainEnds

WriterNext == Offer \/ WriterStep \/ CancelCtx \/ ClosePool

WriterSpec == WriterInit /\ [][WriterNext]_writerVars

-----------------------------------------------------------------------------
(* Properties. *)

Row == 1 .. MaxOffered

WriterTypeOK ==
  /\ offered \in 0 .. MaxOffered
  /\ writeCh \in Seq(Row) /\ Len(writeCh) <= ChCap
  /\ buf \in Seq(Row) /\ table \in Seq(Row)
  /\ writer \in {"run", "insert", "drain", "final", "done"}
  /\ cancelled \in BOOLEAN /\ poolClosed \in BOOLEAN
  /\ failed \subseteq Row

\* The table is an ordered, duplicate-free part of what was offered: the
\* writer implements RowLog.
Log == INSTANCE RowLog WITH pending <- buf \o writeCh

ImplementsRowLog == Log!LogSpec

InRows(n, s) == \E i \in 1 .. Len(s) : s[i] = n

\* A row that was accepted is stored in the end, unless its own COPY failed
\* or the engine is shutting down: no row waits in the buffer for others to
\* fill the batch.
AcceptedIsStored ==
  \A n \in Row :
    InRows(n, writeCh) ~> (InRows(n, table) \/ n \in failed \/ cancelled \/ poolClosed)
=============================================================================
