------------------------------- MODULE RowLog -------------------------------
(***************************************************************************)
(* What the telemetry writer promises to the handlers that feed it: rows   *)
(* reach the table in the order they were offered and at most once; the    *)
(* ones refused and the ones whose insert fails are lost for good.         *)
(***************************************************************************)
EXTENDS Naturals, Sequences

VARIABLES
  offered, \* rows offered so far: the n-th row is n
  pending, \* rows accepted and neither stored nor lost
  table    \* rows stored, in order

logVars == <<offered, pending, table>>

Accept ==
  /\ offered' = offered + 1
  /\ pending' = Append(pending, offered + 1)
  /\ UNCHANGED table

Refuse ==
  /\ offered' = offered + 1
  /\ UNCHANGED <<pending, table>>

\* One insert takes the oldest rows; it stores all of them or none.
Insert ==
  \E n \in 1 .. Len(pending) :
    /\ pending' = SubSeq(pending, n + 1, Len(pending))
    /\ table' \in {table, table \o SubSeq(pending, 1, n)}
    /\ UNCHANGED offered

LogInit == offered = 0 /\ pending = <<>> /\ table = <<>>

LogSpec == LogInit /\ [][Accept \/ Refuse \/ Insert]_logVars
=============================================================================
