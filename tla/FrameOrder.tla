------------------------------ MODULE FrameOrder ------------------------------
(***************************************************************************)
(* SourceHandler with a history of the order in which the packets of its   *)
(* frames reach it.  The UDP socket and the four workers that parse        *)
(* concurrently (handler.go:438) keep no order: a packet of one frame may  *)
(* come after packets of the next.                                         *)
(***************************************************************************)
EXTENDS SourceHandler

VARIABLES
  newest,  \* history: highest frame id merged since the session began
  late     \* history: frames of the session one of whose packets came after a
           \* packet of a later frame, or apart from the others of its frame

orderVars == <<vars, newest, late>>

-----------------------------------------------------------------------------
\* The packet of frame f is not of the frame being assembled, and this frame
\* or a later one was merged before.  A frame with id 0 gives no row.
Overtaken(f) == f # curFrameID /\ f \in 1 .. newest

Arrives(f) ==
  /\ newest' = IF newest < f THEN f ELSE newest
  /\ late' = IF Overtaken(f) THEN late \cup {f} ELSE late

\* Steps that begin or end a session forget its frames.
Otherwise ==
  \/ session' = session /\ UNCHANGED <<newest, late>>
  \/ session' # session /\ newest' = 0 /\ late' = {}

OrderInit == Init /\ newest = 0 /\ late = {}

OrderNext ==
  \/ NoMerge /\ Otherwise
  \/ \E k \in Kinds, f \in FrameIDs : FramePacket(k, f) /\ Arrives(f)
  \/ \E p \in LapPackets, f \in FrameIDs : LapData(p, f) /\ Arrives(f)

OrderSpec == OrderInit /\ [][OrderNext]_orderVars

-----------------------------------------------------------------------------
\* A step that sends a row of frame f after rows of the same session.
NextRowIsLater ==
  \A i \in 1 .. Len(rows) :
    /\ Len(rows) < Len(rows')
    /\ rows[i].session = rows'[Len(rows')].session
    => \/ rows[i].id < rows'[Len(rows')].id
       \/ rows'[Len(rows')].id \in late

\* In whatever order packets arrive, a telemetry row is of a later frame than
\* every row of its session before it, so that a frame gives no second row and
\* no row goes back in time, unless one of its own packets was overtaken
\* (handler.go:438 sends a frame's row when a packet of another arrives).
RowsInFrameOrder == [][NextRowIsLater]_orderVars
=============================================================================
