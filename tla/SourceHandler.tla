---------------------------- MODULE SourceHandler ----------------------------
(***************************************************************************)
(* One SourceHandler goroutine (internal/source/handler.go): the state it  *)
(* keeps for one UDP source, the rows it writes to the recording tables    *)
(* through SessionWriter (internal/database/session_writer.go), and the    *)
(* telemetry rows it offers to the writer's channel.                       *)
(*                                                                         *)
(* Packets arrive in any order: the UDP socket and the parser workers may  *)
(* lose and reorder them.  What a game in order produces is RecordedRace.  *)
(*                                                                         *)
(* Abstractions of data: a session id, a track and a driver name are model *)
(* values; a lap row is named by its unique key <<session, lap number>>    *)
(* and a sector row by <<lap, sector>>; ended_at is the number of times it *)
(* was written (0 is NULL), capped at MaxStamps; the values a packet puts  *)
(* in a frame are named by the packet they came from.                      *)
(***************************************************************************)
EXTENDS Naturals, Sequences

CONSTANTS
  Sessions,   \* session ids the database can hand out (a bound)
  LapNums,    \* values of CurrentLapNum
  LapTimes,   \* values of CurrentLapTimeMS
  LapPackets, \* the lap data the game may send
  FrameIDs,   \* values of the header's FrameID
  Kinds,      \* per-frame payloads other than LapData: Motion, Telemetry, ...
  Tracks,     \* track names of Session packets
  Drivers,    \* names of Participants packets; the empty name is skipped
  Fallible,   \* the SessionWriter calls that may fail
  WriteChMayFill, \* whether a row may find writeCh full
  MaxStamps,  \* bound on the writes of one ended_at that are told apart
  MaxRows,    \* bound on the telemetry rows sent
  None        \* absent value

LapPacket == [lapNum : LapNums, time : LapTimes, sector : 0 .. 2,
              pit : BOOLEAN, invalid : BOOLEAN, active : BOOLEAN]

ASSUME ConstantsAssumption ==
  /\ LapPackets \subseteq LapPacket
  /\ LapNums \subseteq Nat
  /\ LapTimes \subseteq Nat
  /\ FrameIDs \subseteq Nat
  /\ MaxStamps \in Nat \ {0, 1}
  /\ MaxRows \in Nat
  /\ WriteChMayFill \in BOOLEAN
  /\ None \notin Sessions \cup Tracks \cup Drivers \cup (Sessions \X LapNums)
  /\ "Lap" \notin Kinds

VARIABLES
  running,      \* the goroutine is in its select loop
  session,      \* h.session.sessionID, None when h.session is nil
  lap,          \* lapID, lapOpen, lapNum, sector, inPit of h.session
  car,          \* carLapNum, carLapTimeMS, carLapInvalid, carSector
  prevLapNum,   \* last lap number seen while there was no session
  curFrameID,   \* 0 when no frame is being assembled
  curFrame,     \* the frame being assembled
  sessions,     \* table sessions: its ids
  sessionEnds,  \* writes of sessions.ended_at
  tracks,       \* sessions.track
  participants, \* table participants: the player's name per session
  laps,         \* table laps: its keys
  lapEnds,      \* writes of laps.ended_at
  sectors,      \* table sectors: its keys
  sectorEnds,   \* writes of sectors.ended_at
  lapTimes,     \* table lap_times
  rows,         \* telemetry rows sent to writeCh, in order
  abandoned     \* history: sessions whose handler stopped while recording

handlerVars == <<session, lap, car, curFrameID, curFrame>>
frameVars   == <<curFrameID, curFrame, rows>>
lapVars     == <<lap, laps, lapEnds, sectors, sectorEnds>>
timeVars    == <<car, lapTimes>>
sessionVars == <<sessions, sessionEnds, tracks, participants>>
vars == <<running, session, lap, car, prevLapNum, curFrameID, curFrame,
          sessions, sessionEnds, tracks, participants, laps, lapEnds,
          sectors, sectorEnds, lapTimes, rows, abandoned>>

-----------------------------------------------------------------------------
LapKeys    == Sessions \X LapNums
SectorKeys == LapKeys \X (1 .. 3)

\* Faulty: the game's sector number written as it is.
SectorKeyUnshifted(id, sector) == <<id, sector>>

SectorKey(id, sector) == <<id, sector + 1>>     \* game 0, 1, 2: DB 1, 2, 3

\* The parts merged into a frame, named by the packet and by the session
\* that was being recorded when it arrived.
Part == [kind : Kinds \cup {"Lap"}, frame : FrameIDs, session : Sessions]

Frame == [session : Sessions \cup {None}, id : FrameIDs \cup {0},
          parts : SUBSET Part, active : BOOLEAN]

NoLap   == [id |-> None, open |-> FALSE, num |-> 0, sector |-> 0, inPit |-> FALSE]
NoCar   == [lapNum |-> 0, time |-> 0, invalid |-> FALSE, sector |-> 0]
NoFrame == [session |-> None, id |-> 0, parts |-> {}, active |-> FALSE]

\* Whether a statement whose error the handler ignores takes effect.
Applied(call) == IF call \in Fallible THEN BOOLEAN ELSE {TRUE}

\* UPDATE ... SET ended_at = now WHERE the key is this one.
Stamp(ends, table, key, applied) ==
  IF applied /\ key \in table /\ ends[key] < MaxStamps
  THEN [ends EXCEPT ![key] = @ + 1]
  ELSE ends

-----------------------------------------------------------------------------
(* Frame assembly. *)

\* What writeCh may hold after finalizeFrame: an inactive car has no row, and
\* a row that finds the channel full is dropped.
Finalized ==
  IF curFrameID # 0 /\ curFrame.active
  THEN {Append(rows, curFrame)} \cup IF WriteChMayFill THEN {rows} ELSE {}
  ELSE {rows}

FinalizeFrame ==
  /\ rows' \in Finalized
  /\ curFrameID' = 0
  /\ UNCHANGED curFrame

\* Faulty: a frame that was begun is always finalized.
NoFrameYet(f) == curFrameID = 0

\* checkNewFrame has no earlier frame to finalize.
SameFrame(f) == curFrameID \in {0, f}

\* checkNewFrame and the merge of one packet; lap data sets ResultStatus.
\* While curFrameID is 0 every packet starts the frame over.
AssembleFrame(kind, f, active) ==
  LET part == [kind |-> kind, frame |-> f, session |-> session]
      base == IF curFrameID # 0 /\ f = curFrameID
              THEN curFrame
              ELSE [NoFrame EXCEPT !.session = session, !.id = f]
  IN  /\ Len(rows) < MaxRows
      /\ rows' \in IF SameFrame(f) THEN {rows} ELSE Finalized
      /\ curFrameID' = f
      /\ curFrame' = [base EXCEPT !.parts = @ \cup {part},
                                  !.active = IF kind = "Lap" THEN active ELSE @]

-----------------------------------------------------------------------------
(* Laps and sectors. *)

\* Faulty: the lap number is remembered before the error is looked at.
OpenLapTooEarly(s, p, pit, onError) ==
  LET id == <<s, p.lapNum>>
  IN  \/ /\ id \notin laps
         /\ laps' = laps \cup {id}
         /\ lap' = [id |-> id, open |-> TRUE, num |-> p.lapNum,
                    sector |-> p.sector, inPit |-> pit]
         /\ sectors' = sectors \cup {SectorKey(id, p.sector)}
      \/ /\ id \in laps \/ "OpenLap" \in Fallible
         /\ lap' = [onError EXCEPT !.num = p.lapNum]
         /\ UNCHANGED <<laps, sectors>>

\* SessionWriter.OpenLap for session s, and OpenSector when it succeeds.  An
\* existing row makes the INSERT return nothing, which is an error too; a
\* call that fails may still have inserted the row.
OpenLap(s, p, pit, onError) ==
  LET id == <<s, p.lapNum>>
  IN  \/ /\ id \notin laps
         /\ laps' = laps \cup {id}
         /\ lap' = [id |-> id, open |-> TRUE, num |-> p.lapNum,
                    sector |-> p.sector, inPit |-> pit]
         /\ \E done \in Applied("OpenSector") :
              sectors' = IF done THEN sectors \cup {SectorKey(id, p.sector)}
                                 ELSE sectors
      \/ /\ \/ id \in laps /\ laps' = laps
            \/ "OpenLap" \in Fallible /\ laps' \in {laps, laps \cup {id}}
         /\ lap' = onError
         /\ UNCHANGED sectors

CloseSector ==
  \E done \in Applied("CloseSector") :
    sectorEnds' = Stamp(sectorEnds, sectors, SectorKey(lap.id, lap.sector), done)

\* Faulty: the lap is closed under the sector's pit condition.
CloseLapOnTrack ==
  lapEnds' = Stamp(lapEnds, laps, lap.id, ~lap.inPit)

CloseLap ==
  \E done \in Applied("CloseLap") : lapEnds' = Stamp(lapEnds, laps, lap.id, done)

\* First lap data of the session.
FirstLap(p) ==
  /\ ~lap.open /\ p.lapNum > 0
  /\ OpenLap(session, p, p.pit, lap)
  /\ UNCHANGED <<lapEnds, sectorEnds>>

\* The lap number went up: close the lap, open the next one.
NextLap(p) ==
  /\ lap.open /\ p.lapNum > lap.num
  /\ IF lap.inPit THEN UNCHANGED sectorEnds ELSE CloseSector
  /\ CloseLap
  /\ OpenLap(session, p, FALSE, lap)

SameLap(p) == p.lapNum <= lap.num

\* Faulty: the sector is closed but the pit visit is not remembered.
PitEntryForgotten(p) ==
  /\ SameLap(p) /\ ~lap.inPit /\ p.pit
  /\ IF lap.open THEN CloseSector ELSE UNCHANGED sectorEnds
  /\ UNCHANGED <<lap, laps, lapEnds, sectors>>

PitEntry(p) ==
  /\ SameLap(p) /\ ~lap.inPit /\ p.pit
  /\ lap' = [lap EXCEPT !.inPit = TRUE]
  /\ IF lap.open THEN CloseSector ELSE UNCHANGED sectorEnds
  /\ UNCHANGED <<laps, lapEnds, sectors>>

\* Faulty: the new sector is opened but not remembered.
SectorAdvanceForgotten(p) ==
  /\ SameLap(p) /\ ~lap.inPit /\ ~p.pit /\ p.sector > lap.sector
  /\ CloseSector
  /\ sectors' = IF lap.id \in laps
                THEN sectors \cup {SectorKey(lap.id, p.sector)} ELSE sectors
  /\ UNCHANGED <<lap, laps, lapEnds>>

\* With no lap row (lap number 0 after SSTA) the INSERT breaks its foreign
\* key and nothing is written.
SectorAdvance(p) ==
  /\ SameLap(p) /\ ~lap.inPit /\ ~p.pit /\ p.sector > lap.sector
  /\ lap' = [lap EXCEPT !.sector = p.sector]
  /\ CloseSector
  /\ \E done \in Applied("OpenSector") :
       sectors' = IF done /\ lap.id \in laps
                  THEN sectors \cup {SectorKey(lap.id, p.sector)}
                  ELSE sectors
  /\ UNCHANGED <<laps, lapEnds>>

NoBoundary(p) ==
  /\ SameLap(p)
  /\ lap.inPit \/ (~p.pit /\ p.sector <= lap.sector)
  /\ UNCHANGED lapVars

\* Faulty: recorded while the lap is still being driven.
LapRunning(p) == car.lapNum > 0 /\ p.lapNum >= car.lapNum /\ car.time > 0

LapFinished(p) == car.lapNum > 0 /\ p.lapNum > car.lapNum /\ car.time > 0

\* Faulty: only the game's own flag decides.
FinishedTimeAsFlagged == [time |-> car.time, invalid |-> car.invalid]

\* Faulty: a lap in its final sector counts whatever the game's flag says.
FinishedTimeBySector == [time |-> car.time, invalid |-> car.sector < 2]

\* The time of the lap that just finished is the one cached from the packet
\* before; short of the final sector it is forced invalid.
FinishedTime == [time |-> car.time, invalid |-> car.invalid \/ car.sector < 2]

\* recordLapTimes.
RecordLapTimes(p) ==
  IF ~p.active THEN UNCHANGED timeVars
  ELSE
    /\ car' = [lapNum |-> p.lapNum, time |-> p.time,
               invalid |-> p.invalid, sector |-> p.sector]
    /\ IF LapFinished(p)
       THEN \E done \in Applied("RecordLapTime") :
              lapTimes' =
                IF done
                THEN [lapTimes EXCEPT ![<<session, car.lapNum>>] = FinishedTime]
                ELSE lapTimes
       ELSE UNCHANGED lapTimes

-----------------------------------------------------------------------------
(* Handlers of the packet types. *)

\* Faulty: the frame of the session before is kept.
ResetKeepingFrame(s) ==
  /\ session' = s
  /\ car' = NoCar
  /\ UNCHANGED <<curFrameID, curFrame>>

\* A fresh sessionState and an empty frame.
ResetFor(s) ==
  /\ session' = s
  /\ car' = NoCar
  /\ curFrameID' = 0
  /\ curFrame' = NoFrame

\* Faulty: h.session keeps the state of the session that ended.
SessionKept == UNCHANGED <<session, lap, car>>

\* h.session = nil, and a handler that returns.
SessionDropped == session' = None /\ lap' = NoLap /\ car' = NoCar

\* Faulty: no statement is sent.
CloseSessionSkipped == UNCHANGED sessionEnds

CloseSession ==
  \E done \in Applied("CloseSession") :
    sessionEnds' = Stamp(sessionEnds, sessions, session, done)

\* CreateSession failed; its INSERT may have taken effect.
CreateFails(s) ==
  /\ "CreateSession" \in Fallible
  /\ sessions' \in {sessions, sessions \cup {s}}
  /\ UNCHANGED handlerVars

\* SSTA: end a lingering session, create the new one.
SessionStarted ==
  /\ running
  /\ CloseSession
  /\ \E s \in Sessions \ sessions :
       \/ CreateFails(s)
       \/ /\ sessions' = sessions \cup {s}
          /\ ResetFor(s)
          /\ lap' = NoLap
  /\ UNCHANGED <<running, prevLapNum, tracks, participants, laps, lapEnds,
                 sectors, sectorEnds, lapTimes, rows, abandoned>>

\* SEND or CHQF: flush the frame, close sector, lap and session.
SessionEnded ==
  /\ running /\ session # None
  /\ FinalizeFrame
  /\ IF lap.open THEN CloseSector /\ CloseLap ELSE UNCHANGED <<sectorEnds, lapEnds>>
  /\ CloseSession
  /\ SessionDropped
  /\ UNCHANGED <<running, prevLapNum, sessions, tracks, participants, laps,
                 sectors, lapTimes, abandoned>>

SessionPacket(track) ==
  /\ running /\ session # None
  /\ \E done \in Applied("UpdateSessionTrack") :
       tracks' = IF done THEN [tracks EXCEPT ![session] = track] ELSE tracks
  /\ UNCHANGED <<running, handlerVars, prevLapNum, sessions, sessionEnds,
                 participants, laps, lapEnds, sectors, sectorEnds, lapTimes,
                 rows, abandoned>>

ParticipantsPacket(name) ==
  /\ running /\ session # None
  /\ \E done \in Applied("UpsertParticipants") :
       participants' = IF done THEN [participants EXCEPT ![session] = name]
                               ELSE participants
  /\ UNCHANGED <<running, handlerVars, prevLapNum, sessions, sessionEnds,
                 tracks, laps, lapEnds, sectors, sectorEnds, lapTimes, rows,
                 abandoned>>

\* Motion, Telemetry, Status, Damage, MotionEx.
FramePacket(kind, f) ==
  /\ running /\ session # None
  /\ AssembleFrame(kind, f, FALSE)
  /\ UNCHANGED <<running, session, prevLapNum, sessionVars, lapVars, timeVars,
                 abandoned>>

\* Lap data with a session.
LapData(p, f) ==
  /\ running /\ session # None
  /\ AssembleFrame("Lap", f, p.active)
  /\ RecordLapTimes(p)
  /\ FirstLap(p) \/ NextLap(p) \/ PitEntry(p) \/ SectorAdvance(p) \/ NoBoundary(p)
  /\ UNCHANGED <<running, session, prevLapNum, sessionVars, abandoned>>

\* autoCreateSession: session, lap and sector from a lap boundary seen
\* without SSTA.
AutoCreateSession(p) ==
  /\ \E s \in Sessions \ sessions :
       \/ /\ CreateFails(s)
          /\ UNCHANGED <<laps, sectors>>
       \/ /\ sessions' = sessions \cup {s}
          /\ ResetFor(s)
          /\ OpenLap(s, p, p.pit, NoLap)
  /\ UNCHANGED <<sessionEnds, tracks, participants, lapEnds, sectorEnds,
                 lapTimes, rows>>

\* Lap data without a session: wait for the lap number to change.
LapDataNoSession(p) ==
  /\ running /\ session = None
  /\ p.active /\ p.lapNum # 0
  /\ prevLapNum' = p.lapNum
  /\ IF prevLapNum > 0 /\ p.lapNum # prevLapNum
     THEN AutoCreateSession(p)
     ELSE UNCHANGED <<handlerVars, sessionVars, laps, lapEnds, sectors,
                      sectorEnds, lapTimes, rows>>
  /\ UNCHANGED <<running, abandoned>>

\* inChan closed (stale source, listener stopped) or ctx cancelled: flush the
\* frame and return.  The session stays as it is in the database.
Stop ==
  /\ running
  /\ running' = FALSE
  /\ IF session = None THEN UNCHANGED <<curFrameID, curFrame, rows>>
                       ELSE FinalizeFrame
  /\ abandoned' = IF session = None THEN abandoned ELSE abandoned \cup {session}
  /\ SessionDropped
  /\ UNCHANGED <<prevLapNum, sessionVars, laps, lapEnds, sectors, sectorEnds,
                 lapTimes>>

\* newSourceHandler, for the next packet of the source.
Restart ==
  /\ ~running
  /\ running' = TRUE
  /\ prevLapNum' = 0 /\ curFrameID' = 0 /\ curFrame' = NoFrame
  /\ UNCHANGED <<session, sessionVars, lapVars, timeVars, rows, abandoned>>

-----------------------------------------------------------------------------
Init ==
  /\ running = TRUE
  /\ session = None /\ lap = NoLap /\ car = NoCar /\ prevLapNum = 0
  /\ curFrameID = 0 /\ curFrame = NoFrame
  /\ sessions = {} /\ sessionEnds = [s \in Sessions |-> 0]
  /\ tracks = [s \in Sessions |-> None]
  /\ participants = [s \in Sessions |-> None]
  /\ laps = {} /\ lapEnds = [l \in LapKeys |-> 0]
  /\ sectors = {} /\ sectorEnds = [k \in SectorKeys |-> 0]
  /\ lapTimes = [l \in LapKeys |-> None]
  /\ rows = <<>> /\ abandoned = {}

\* The steps that merge no packet into a frame.
NoMerge ==
  \/ SessionStarted
  \/ SessionEnded
  \/ \E t \in Tracks : SessionPacket(t)
  \/ \E d \in Drivers : ParticipantsPacket(d)
  \/ \E p \in LapPackets : LapDataNoSession(p)
  \/ Stop
  \/ Restart

Next ==
  \/ NoMerge
  \/ \E k \in Kinds, f \in FrameIDs : FramePacket(k, f)
  \/ \E p \in LapPackets, f \in FrameIDs : LapData(p, f)

Spec == Init /\ [][Next]_vars

-----------------------------------------------------------------------------
(* Properties. *)

TypeOK ==
  /\ running \in BOOLEAN
  /\ session \in Sessions \cup {None}
  /\ lap \in [id : LapKeys \cup {None}, open : BOOLEAN, num : LapNums \cup {0},
              sector : 0 .. 2, inPit : BOOLEAN]
  /\ car \in [lapNum : LapNums \cup {0}, time : LapTimes \cup {0},
              invalid : BOOLEAN, sector : 0 .. 2]
  /\ prevLapNum \in LapNums \cup {0}
  /\ curFrameID \in FrameIDs \cup {0}
  /\ curFrame \in Frame
  /\ sessions \subseteq Sessions
  /\ sessionEnds \in [Sessions -> 0 .. MaxStamps]
  /\ tracks \in [Sessions -> Tracks \cup {None}]
  /\ participants \in [Sessions -> Drivers \cup {None}]
  /\ laps \subseteq LapKeys
  /\ lapEnds \in [LapKeys -> 0 .. MaxStamps]
  /\ sectors \subseteq SectorKeys
  /\ sectorEnds \in [SectorKeys -> 0 .. MaxStamps]
  /\ lapTimes \in [LapKeys -> [time : LapTimes, invalid : BOOLEAN] \cup {None}]
  /\ rows \in Seq(Frame)
  /\ abandoned \subseteq Sessions

\* The lap the handler stamps is a row of the session it records, whatever
\* call failed before: no UPDATE ends a lap or sector of another session
\* (lapID, lapNum and session are three fields assigned at four places).
LapCursorRecorded ==
  /\ session # None => session \in sessions
  /\ lap.open => /\ session # None
                 /\ lap.num > 0
                 /\ lap.id = <<session, lap.num>>
                 /\ lap.id \in laps

\* What the handler records goes into a session still in progress: ended_at
\* is NULL (docs/01-database.md).  Needs CreateSession to succeed: SSTA ends
\* the old session first and keeps it when the new one cannot be created.
RecordsIntoOpenSession == session # None => sessionEnds[session] = 0

\* A session in progress is the handler's, or one whose handler stopped
\* while it was recording: SSTA, SEND and a mid-join leave no other behind.
OneSessionInProgress ==
  \A s \in sessions : sessionEnds[s] = 0 => s = session \/ s \in abandoned

\* Of the session being recorded no lap but the handler's is in progress.
HandlersLapOnly ==
  \A l \in laps : l[1] = session /\ lapEnds[l] = 0 => lap.open /\ l = lap.id

\* The laps of a session do not overlap: two of them are never in progress,
\* and while the session is recorded the one that is, is the handler's.  A
\* second SSTA (handler.go:199) leaves one in progress for good.
OneLapInProgress ==
  /\ \A l, m \in laps : l[1] = m[1] /\ lapEnds[l] = 0 /\ lapEnds[m] = 0 => l = m
  /\ HandlersLapOnly

OpenSectors(l) == {k \in sectors : k[1] = l /\ sectorEnds[k] = 0}

\* Of the lap being recorded no sector but the handler's is in progress, and
\* on track exactly that one is: the sectors of a lap do not overlap and
\* leave no gap until the pit lane.
TrackedSector ==
  lap.open =>
    /\ OpenSectors(lap.id) \subseteq {SectorKey(lap.id, lap.sector)}
    /\ ~lap.inPit => OpenSectors(lap.id) # {}

\* A telemetry row is one frame of one session: every packet merged into it
\* carried its frame id and arrived while its session was recorded, and lap
\* data is among them.
RowIsOneFrame ==
  \A i \in 1 .. Len(rows) :
    /\ rows[i].session \in sessions
    /\ \A part \in rows[i].parts :
         part.frame = rows[i].id /\ part.session = rows[i].session
    /\ \E part \in rows[i].parts : part.kind = "Lap"

\* Rows of session s in the recording tables.
Record(s) ==
  <<sessionEnds[s], tracks[s], participants[s],
    {l \in laps : l[1] = s}, [n \in LapNums |-> lapEnds[<<s, n>>]],
    {k \in sectors : k[1][1] = s},
    [k \in LapNums \X (1 .. 3) |-> sectorEnds[<<<<s, k[1]>>, k[2]>>]],
    [n \in LapNums |-> lapTimes[<<s, n>>]]>>

\* A session that was ended never changes again: no later packet reopens,
\* restamps or adds to it, and no telemetry row of it is sent.
EndedSessionFrozen ==
  [][\A s \in Sessions :
       sessionEnds[s] > 0 =>
         /\ Record(s)' = Record(s)
         /\ \A i \in (Len(rows) + 1) .. Len(rows') : rows'[i].session # s]_vars

\* SEND and CHQF leave no lap of the session in progress, however many laps,
\* pit visits and repeated packets came before.
EndClosesLaps ==
  [][running' /\ session # None /\ session' = None =>
       \A l \in laps' : l[1] = session => lapEnds'[l] > 0]_vars
=============================================================================
