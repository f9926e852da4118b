------------------------- MODULE SourceHandlerProofs -------------------------
(* Theorems about SourceHandler and, for the order of its rows, about        *)
(* FrameOrder, for every value of their constants.                         *)
EXTENDS FrameOrder, TLAPS

-----------------------------------------------------------------------------
(* Lemmas about the operators: what each of them leaves well typed. *)

\* An UPDATE of ended_at keeps the column's type.
LEMMA StampType ==
  ASSUME NEW S, NEW ends \in [S -> 0 .. MaxStamps], NEW table \in SUBSET S,
         NEW key, NEW applied \in BOOLEAN
  PROVE  Stamp(ends, table, key, applied) \in [S -> 0 .. MaxStamps]
<1>1. CASE applied /\ key \in table /\ ends[key] < MaxStamps
  <2>1. key \in S /\ ends[key] + 1 \in 0 .. MaxStamps
    BY <1>1, ConstantsAssumption
  <2> QED BY <1>1, <2>1 DEF Stamp
<1>2. CASE ~(applied /\ key \in table /\ ends[key] < MaxStamps)
  BY <1>2 DEF Stamp
<1> QED BY <1>1, <1>2

LEMMA AppliedType == \A call : Applied(call) \subseteq BOOLEAN
BY DEF Applied

LEMMA CloseSectorType ==
  ASSUME TypeOK, CloseSector
  PROVE  sectorEnds' \in [SectorKeys -> 0 .. MaxStamps]
<1>1. PICK done \in Applied("CloseSector") :
        sectorEnds' = Stamp(sectorEnds, sectors, SectorKey(lap.id, lap.sector), done)
  BY DEF CloseSector
<1>2. done \in BOOLEAN
  BY AppliedType
<1>3. sectorEnds \in [SectorKeys -> 0 .. MaxStamps] /\ sectors \in SUBSET SectorKeys
  BY DEF TypeOK
<1> QED BY <1>1, <1>2, <1>3, StampType

LEMMA CloseLapType ==
  ASSUME TypeOK, CloseLap
  PROVE  lapEnds' \in [LapKeys -> 0 .. MaxStamps]
<1>1. PICK done \in Applied("CloseLap") :
        lapEnds' = Stamp(lapEnds, laps, lap.id, done)
  BY DEF CloseLap
<1>2. done \in BOOLEAN
  BY AppliedType
<1>3. lapEnds \in [LapKeys -> 0 .. MaxStamps] /\ laps \in SUBSET LapKeys
  BY DEF TypeOK
<1> QED BY <1>1, <1>2, <1>3, StampType

LEMMA CloseSessionType ==
  ASSUME TypeOK, CloseSession
  PROVE  sessionEnds' \in [Sessions -> 0 .. MaxStamps]
<1>1. PICK done \in Applied("CloseSession") :
        sessionEnds' = Stamp(sessionEnds, sessions, session, done)
  BY DEF CloseSession
<1>2. done \in BOOLEAN
  BY AppliedType
<1>3. sessionEnds \in [Sessions -> 0 .. MaxStamps] /\ sessions \in SUBSET Sessions
  BY DEF TypeOK
<1> QED BY <1>1, <1>2, <1>3, StampType

\* What a lap's key and a sector's key are made of.
LEMMA KeyType ==
  ASSUME NEW s \in Sessions, NEW p \in LapPackets
  PROVE  /\ p.lapNum \in LapNums /\ p.sector \in 0 .. 2 /\ p.time \in LapTimes
         /\ p.pit \in BOOLEAN /\ p.invalid \in BOOLEAN /\ p.active \in BOOLEAN
         /\ <<s, p.lapNum>> \in LapKeys
         /\ \A l \in LapKeys : SectorKey(l, p.sector) \in SectorKeys
BY ConstantsAssumption DEF LapPacket, LapKeys, SectorKeys, SectorKey

LapType == [id : LapKeys \cup {None}, open : BOOLEAN, num : LapNums \cup {0},
            sector : 0 .. 2, inPit : BOOLEAN]

LEMMA OpenLapType ==
  ASSUME TypeOK, NEW s \in Sessions, NEW p \in LapPackets, NEW pit \in BOOLEAN,
         NEW onError \in LapType, OpenLap(s, p, pit, onError)
  PROVE  /\ lap' \in LapType
         /\ laps' \subseteq LapKeys
         /\ sectors' \subseteq SectorKeys
<1> DEFINE id == <<s, p.lapNum>>
           new == [id |-> id, open |-> TRUE, num |-> p.lapNum,
                   sector |-> p.sector, inPit |-> pit]
<1>1. id \in LapKeys /\ SectorKey(id, p.sector) \in SectorKeys
  BY KeyType
<1>2. new \in LapType
  BY <1>1, KeyType DEF LapType
<1>3. /\ lap' \in {new, onError}
      /\ laps' \in {laps, laps \cup {id}}
      /\ sectors' \in {sectors, sectors \cup {SectorKey(id, p.sector)}}
  BY DEF OpenLap
<1> HIDE DEF id, new
<1> QED BY <1>1, <1>2, <1>3 DEF TypeOK

\* A row handed to writeCh is a frame.
LEMMA FinalizedType ==
  ASSUME TypeOK
  PROVE  Finalized \subseteq Seq(Frame)
<1>1. rows \in Seq(Frame) /\ Append(rows, curFrame) \in Seq(Frame)
  BY DEF TypeOK
<1>2. Finalized \subseteq {rows, Append(rows, curFrame)}
  BY DEF Finalized
<1> QED BY <1>1, <1>2

LEMMA FinalizeFrameType ==
  ASSUME TypeOK, FinalizeFrame
  PROVE  curFrameID' = 0 /\ curFrame' \in Frame /\ rows' \in Seq(Frame)
BY FinalizedType DEF FinalizeFrame, TypeOK

LEMMA AssembleFrameType ==
  ASSUME TypeOK, session # None, NEW kind \in Kinds \cup {"Lap"},
         NEW f \in FrameIDs, NEW active \in BOOLEAN, AssembleFrame(kind, f, active)
  PROVE  curFrameID' \in FrameIDs /\ curFrame' \in Frame /\ rows' \in Seq(Frame)
<1> DEFINE part == [kind |-> kind, frame |-> f, session |-> session]
           base == IF curFrameID # 0 /\ f = curFrameID THEN curFrame
                   ELSE [NoFrame EXCEPT !.session = session, !.id = f]
<1>1. part \in Part
  BY DEF TypeOK, Part
<1>2. base \in Frame
  BY DEF TypeOK, Frame, NoFrame
<1>3. curFrame' = [base EXCEPT !.parts = @ \cup {part},
                               !.active = IF kind = "Lap" THEN active ELSE @]
  BY DEF AssembleFrame
<1> HIDE DEF part, base
<1>4. curFrame' \in Frame
  BY <1>1, <1>2, <1>3 DEF Frame
<1>5. curFrameID' \in FrameIDs /\ rows' \in Seq(Frame)
  BY FinalizedType DEF AssembleFrame, TypeOK
<1> QED BY <1>4, <1>5

LEMMA RecordLapTimesType ==
  ASSUME TypeOK, session # None, NEW p \in LapPackets, RecordLapTimes(p)
  PROVE  /\ car' \in [lapNum : LapNums \cup {0}, time : LapTimes \cup {0},
                      invalid : BOOLEAN, sector : 0 .. 2]
         /\ lapTimes' \in [LapKeys -> [time : LapTimes, invalid : BOOLEAN] \cup {None}]
<1>1. CASE ~p.active
  BY <1>1 DEF RecordLapTimes, timeVars, TypeOK
<1>2. CASE p.active
  <2>1. car' = [lapNum |-> p.lapNum, time |-> p.time, invalid |-> p.invalid,
                sector |-> p.sector]
    BY <1>2 DEF RecordLapTimes
  <2>2. session \in Sessions
    BY DEF TypeOK
  <2>3. car' \in [lapNum : LapNums \cup {0}, time : LapTimes \cup {0},
                  invalid : BOOLEAN, sector : 0 .. 2]
    BY <2>1, <2>2, KeyType
  <2>4. LapFinished(p) => FinishedTime \in [time : LapTimes, invalid : BOOLEAN]
    BY DEF LapFinished, FinishedTime, TypeOK
  <2>5. \/ lapTimes' = lapTimes
        \/ /\ LapFinished(p)
           /\ lapTimes' = [lapTimes EXCEPT ![<<session, car.lapNum>>] = FinishedTime]
    BY <1>2 DEF RecordLapTimes
  <2>6. lapTimes' \in [LapKeys -> [time : LapTimes, invalid : BOOLEAN] \cup {None}]
    BY <2>4, <2>5 DEF TypeOK
  <2> QED BY <2>3, <2>6
<1> QED BY <1>1, <1>2

LEMMA LapBoundaryType ==
  ASSUME TypeOK, session # None, NEW p \in LapPackets,
         FirstLap(p) \/ NextLap(p) \/ PitEntry(p) \/ SectorAdvance(p) \/ NoBoundary(p)
  PROVE  /\ lap' \in LapType
         /\ laps' \subseteq LapKeys
         /\ sectors' \subseteq SectorKeys
         /\ lapEnds' \in [LapKeys -> 0 .. MaxStamps]
         /\ sectorEnds' \in [SectorKeys -> 0 .. MaxStamps]
<1> session \in Sessions /\ lap \in LapType
  BY DEF TypeOK, LapType
<1>1. CASE FirstLap(p)
  <2>1. p.pit \in BOOLEAN
    BY KeyType
  <2>2. OpenLap(session, p, p.pit, lap) /\ UNCHANGED <<lapEnds, sectorEnds>>
    BY <1>1 DEF FirstLap
  <2> QED BY <2>1, <2>2, OpenLapType DEF TypeOK
<1>2. CASE NextLap(p)
  BY <1>2, OpenLapType, CloseLapType, CloseSectorType DEF NextLap, TypeOK
<1>3. CASE PitEntry(p)
  BY <1>3, CloseSectorType DEF PitEntry, TypeOK, LapType
<1>4. CASE SectorAdvance(p)
  <2>1. lap' = [lap EXCEPT !.sector = p.sector] /\ CloseSector
    BY <1>4 DEF SectorAdvance
  <2>2. lap' \in LapType
    BY <2>1, KeyType DEF LapType
  <2>3. sectors' \subseteq SectorKeys
    BY <1>4, KeyType DEF SectorAdvance, TypeOK
  <2> QED BY <1>4, <2>1, <2>2, <2>3, CloseSectorType DEF SectorAdvance, TypeOK
<1>5. CASE NoBoundary(p)
  BY <1>5 DEF NoBoundary, lapVars, TypeOK, LapType
<1> QED BY <1>1, <1>2, <1>3, <1>4, <1>5

-----------------------------------------------------------------------------
(* Type correctness. *)

LEMMA TypeInit == Init => TypeOK
BY ConstantsAssumption DEF Init, TypeOK, NoLap, NoCar, NoFrame, Frame

LEMMA TypeStep == TypeOK /\ [Next]_vars => TypeOK'
<1> SUFFICES ASSUME TypeOK, [Next]_vars PROVE TypeOK'
  OBVIOUS
<1>1. CASE SessionStarted
  <2>1. sessionEnds' \in [Sessions -> 0 .. MaxStamps]
    BY <1>1, CloseSessionType DEF SessionStarted
  <2>2. PICK s \in Sessions \ sessions :
          \/ CreateFails(s)
          \/ sessions' = sessions \cup {s} /\ ResetFor(s) /\ lap' = NoLap
    BY <1>1 DEF SessionStarted
  <2>3. CASE CreateFails(s)
    BY <1>1, <2>1, <2>3 DEF SessionStarted, CreateFails, handlerVars, TypeOK
  <2>4. CASE sessions' = sessions \cup {s} /\ ResetFor(s) /\ lap' = NoLap
    BY <1>1, <2>1, <2>4
       DEF SessionStarted, ResetFor, NoLap, NoCar, NoFrame, Frame, TypeOK
  <2> QED BY <2>2, <2>3, <2>4
<1>2. CASE SessionEnded
  <2>1. curFrameID' = 0 /\ curFrame' \in Frame /\ rows' \in Seq(Frame)
    BY <1>2, FinalizeFrameType DEF SessionEnded
  <2>2. /\ sectorEnds' \in [SectorKeys -> 0 .. MaxStamps]
        /\ lapEnds' \in [LapKeys -> 0 .. MaxStamps]
    BY <1>2, CloseSectorType, CloseLapType DEF SessionEnded, TypeOK
  <2>3. sessionEnds' \in [Sessions -> 0 .. MaxStamps]
    BY <1>2, CloseSessionType DEF SessionEnded
  <2> QED BY <1>2, <2>1, <2>2, <2>3
          DEF SessionEnded, SessionDropped, NoLap, NoCar, TypeOK
<1>3. ASSUME NEW t \in Tracks, SessionPacket(t) PROVE TypeOK'
  BY <1>3 DEF SessionPacket, handlerVars, TypeOK
<1>4. ASSUME NEW d \in Drivers, ParticipantsPacket(d) PROVE TypeOK'
  BY <1>4 DEF ParticipantsPacket, handlerVars, TypeOK
<1>5. ASSUME NEW k \in Kinds, NEW f \in FrameIDs, FramePacket(k, f) PROVE TypeOK'
  <2>1. curFrameID' \in FrameIDs /\ curFrame' \in Frame /\ rows' \in Seq(Frame)
    BY <1>5, AssembleFrameType DEF FramePacket
  <2> QED BY <1>5, <2>1 DEF FramePacket, sessionVars, lapVars, timeVars, TypeOK
<1>6. ASSUME NEW p \in LapPackets, NEW f \in FrameIDs, LapData(p, f) PROVE TypeOK'
  <2>1. p.active \in BOOLEAN /\ session # None
    BY <1>6, KeyType DEF LapData, TypeOK
  <2>2. curFrameID' \in FrameIDs /\ curFrame' \in Frame /\ rows' \in Seq(Frame)
    BY <1>6, <2>1, AssembleFrameType DEF LapData
  <2>3. /\ car' \in [lapNum : LapNums \cup {0}, time : LapTimes \cup {0},
                     invalid : BOOLEAN, sector : 0 .. 2]
        /\ lapTimes' \in [LapKeys -> [time : LapTimes, invalid : BOOLEAN] \cup {None}]
    BY <1>6, <2>1, RecordLapTimesType DEF LapData
  <2>4. /\ lap' \in LapType
        /\ laps' \subseteq LapKeys
        /\ sectors' \subseteq SectorKeys
        /\ lapEnds' \in [LapKeys -> 0 .. MaxStamps]
        /\ sectorEnds' \in [SectorKeys -> 0 .. MaxStamps]
    BY <1>6, <2>1, LapBoundaryType DEF LapData
  <2>5. UNCHANGED <<running, session, prevLapNum, sessions, sessionEnds,
                    tracks, participants, abandoned>>
    BY <1>6 DEF LapData, sessionVars
  <2> QED BY <2>2, <2>3, <2>4, <2>5 DEF TypeOK, LapType
<1>7. ASSUME NEW p \in LapPackets, LapDataNoSession(p) PROVE TypeOK'
  <2>1. prevLapNum' \in LapNums /\ UNCHANGED <<running, abandoned>>
    BY <1>7, ConstantsAssumption DEF LapDataNoSession, LapPacket
  <2>2. CASE AutoCreateSession(p)
    <3>1. PICK s \in Sessions \ sessions :
            \/ CreateFails(s) /\ UNCHANGED <<laps, sectors>>
            \/ /\ sessions' = sessions \cup {s} /\ ResetFor(s)
               /\ OpenLap(s, p, p.pit, NoLap)
      BY <2>2 DEF AutoCreateSession
    <3>2. UNCHANGED <<sessionEnds, tracks, participants, lapEnds, sectorEnds,
                      lapTimes, rows>>
      BY <2>2 DEF AutoCreateSession
    <3>3. CASE CreateFails(s) /\ UNCHANGED <<laps, sectors>>
      BY <2>1, <3>2, <3>3 DEF CreateFails, handlerVars, TypeOK
    <3>4. CASE /\ sessions' = sessions \cup {s} /\ ResetFor(s)
               /\ OpenLap(s, p, p.pit, NoLap)
      <4>1. NoLap \in LapType /\ p.pit \in BOOLEAN
        BY ConstantsAssumption DEF NoLap, LapType, LapPacket
      <4>2. /\ lap' \in LapType
            /\ laps' \subseteq LapKeys
            /\ sectors' \subseteq SectorKeys
        BY <3>4, <4>1, OpenLapType
      <4>3. /\ session' \in Sessions /\ curFrameID' = 0
            /\ car' = NoCar /\ curFrame' = NoFrame
        BY <3>4 DEF ResetFor
      <4> QED BY <2>1, <3>2, <3>4, <4>2, <4>3
              DEF TypeOK, LapType, NoCar, NoFrame, Frame
    <3> QED BY <3>1, <3>3, <3>4
  <2>3. CASE UNCHANGED <<handlerVars, sessionVars, laps, lapEnds, sectors,
                         sectorEnds, lapTimes, rows>>
    BY <2>1, <2>3 DEF handlerVars, sessionVars, TypeOK
  <2> QED BY <1>7, <2>2, <2>3 DEF LapDataNoSession
<1>8. CASE Stop
  <2>1. curFrameID' \in FrameIDs \cup {0} /\ curFrame' \in Frame /\ rows' \in Seq(Frame)
    BY <1>8, FinalizeFrameType DEF Stop, TypeOK
  <2>2. session' = None /\ lap' = NoLap /\ car' = NoCar
    BY <1>8 DEF Stop, SessionDropped
  <2>3. abandoned' \subseteq Sessions /\ running' \in BOOLEAN
    BY <1>8 DEF Stop, TypeOK
  <2>4. UNCHANGED <<prevLapNum, sessions, sessionEnds, tracks, participants,
                    laps, lapEnds, sectors, sectorEnds, lapTimes>>
    BY <1>8 DEF Stop, sessionVars
  <2> QED BY <2>1, <2>2, <2>3, <2>4 DEF NoLap, NoCar, TypeOK
<1>9. CASE Restart
  BY <1>9 DEF Restart, sessionVars, lapVars, timeVars, NoFrame, Frame, TypeOK
<1>10. CASE UNCHANGED vars
  BY <1>10 DEF vars, TypeOK
<1> QED BY <1>1, <1>2, <1>3, <1>4, <1>5, <1>6, <1>7, <1>8, <1>9, <1>10 DEF Next, NoMerge

\* In a run of the handler every field and every column keeps its type:
\* in particular no sector but 1, 2, 3 and no lap time of 0 is written.
THEOREM TypeCorrect == Spec => []TypeOK
BY TypeInit, TypeStep, PTL DEF Spec

-----------------------------------------------------------------------------
(* The lap cursor. *)

LEMMA CursorInit == Init => LapCursorRecorded
BY DEF Init, LapCursorRecorded, NoLap

\* OpenLap puts the cursor on a row of the session, or leaves it where it was.
LEMMA OpenLapCursor ==
  ASSUME NEW s, NEW p, NEW pit, NEW onError, OpenLap(s, p, pit, onError)
  PROVE  /\ laps \subseteq laps'
         /\ \/ lap' = onError
            \/ /\ lap'.open /\ lap'.num = p.lapNum
               /\ lap'.id = <<s, p.lapNum>> /\ lap'.id \in laps'
BY DEF OpenLap

LEMMA CursorBoundary ==
  ASSUME TypeOK, LapCursorRecorded, session # None, UNCHANGED <<session, sessions>>,
         NEW p \in LapPackets,
         FirstLap(p) \/ NextLap(p) \/ PitEntry(p) \/ SectorAdvance(p) \/ NoBoundary(p)
  PROVE  LapCursorRecorded'
<1> p.lapNum \in Nat /\ lap.num \in Nat
  <2>1. p.lapNum \in LapNums /\ lap.num \in LapNums \cup {0}
    BY ConstantsAssumption DEF LapPacket, TypeOK
  <2>2. LapNums \subseteq Nat
    BY ConstantsAssumption
  <2>3. 0 \in Nat
    OBVIOUS
  <2> QED BY <2>1, <2>2, <2>3, Zenon
<1>1. CASE FirstLap(p)
  <2>1. OpenLap(session, p, p.pit, lap) /\ ~lap.open /\ p.lapNum > 0
    BY <1>1 DEF FirstLap
  <2>2. lap' = lap \/ (lap'.open /\ lap'.num = p.lapNum
                        /\ lap'.id = <<session, p.lapNum>> /\ lap'.id \in laps')
    BY <2>1, OpenLapCursor
  <2> QED BY <2>1, <2>2 DEF LapCursorRecorded
<1>2. CASE NextLap(p)
  <2>1. OpenLap(session, p, FALSE, lap) /\ lap.open /\ p.lapNum > lap.num
    BY <1>2 DEF NextLap
  <2>2. /\ laps \subseteq laps'
        /\ \/ lap' = lap
           \/ /\ lap'.open /\ lap'.num = p.lapNum
              /\ lap'.id = <<session, p.lapNum>> /\ lap'.id \in laps'
    BY <2>1, OpenLapCursor
  <2> QED BY <2>1, <2>2 DEF LapCursorRecorded
<1>3. CASE PitEntry(p)
  BY <1>3 DEF PitEntry, LapCursorRecorded, TypeOK
<1>4. CASE SectorAdvance(p)
  <2>1. lap' = [lap EXCEPT !.sector = p.sector] /\ laps' = laps
    BY <1>4 DEF SectorAdvance
  <2> QED BY <2>1 DEF LapCursorRecorded, TypeOK
<1>5. CASE NoBoundary(p)
  BY <1>5 DEF NoBoundary, lapVars, LapCursorRecorded
<1> QED BY <1>1, <1>2, <1>3, <1>4, <1>5

LEMMA CursorStep == TypeOK /\ LapCursorRecorded /\ [Next]_vars => LapCursorRecorded'
<1> SUFFICES ASSUME TypeOK, LapCursorRecorded, [Next]_vars PROVE LapCursorRecorded'
  OBVIOUS
<1>1. CASE SessionStarted
  BY <1>1 DEF SessionStarted, CreateFails, ResetFor, handlerVars, NoLap, LapCursorRecorded
<1>2. CASE SessionEnded
  BY <1>2 DEF SessionEnded, SessionDropped, NoLap, LapCursorRecorded
<1>3. ASSUME NEW t \in Tracks, SessionPacket(t) PROVE LapCursorRecorded'
  BY <1>3 DEF SessionPacket, handlerVars, LapCursorRecorded
<1>4. ASSUME NEW d \in Drivers, ParticipantsPacket(d) PROVE LapCursorRecorded'
  BY <1>4 DEF ParticipantsPacket, handlerVars, LapCursorRecorded
<1>5. ASSUME NEW k \in Kinds, NEW f \in FrameIDs, FramePacket(k, f)
      PROVE LapCursorRecorded'
  BY <1>5 DEF FramePacket, sessionVars, lapVars, LapCursorRecorded
<1>6. ASSUME NEW p \in LapPackets, NEW f \in FrameIDs, LapData(p, f)
      PROVE LapCursorRecorded'
  BY <1>6, CursorBoundary DEF LapData, sessionVars
<1>7. ASSUME NEW p \in LapPackets, LapDataNoSession(p) PROVE LapCursorRecorded'
  <2>1. CASE AutoCreateSession(p)
    <3>1. p.lapNum > 0
      BY <1>7, ConstantsAssumption DEF LapDataNoSession, LapPacket
    <3>2. PICK s \in Sessions \ sessions :
            \/ CreateFails(s) /\ UNCHANGED <<laps, sectors>>
            \/ /\ sessions' = sessions \cup {s} /\ ResetFor(s)
               /\ OpenLap(s, p, p.pit, NoLap)
      BY <2>1 DEF AutoCreateSession
    <3>3. CASE CreateFails(s) /\ UNCHANGED <<laps, sectors>>
      BY <3>3 DEF CreateFails, handlerVars, LapCursorRecorded
    <3>4. CASE /\ sessions' = sessions \cup {s} /\ ResetFor(s)
               /\ OpenLap(s, p, p.pit, NoLap)
      <4>1. session' = s /\ s # None
        BY <3>4, ConstantsAssumption DEF ResetFor
      <4>2. ~NoLap.open
        BY DEF NoLap
      <4> QED BY <3>1, <3>4, <4>1, <4>2, OpenLapCursor DEF LapCursorRecorded
    <3> QED BY <3>2, <3>3, <3>4
  <2>2. CASE UNCHANGED <<handlerVars, sessionVars, laps, lapEnds, sectors,
                         sectorEnds, lapTimes, rows>>
    BY <2>2 DEF handlerVars, sessionVars, LapCursorRecorded
  <2> QED BY <1>7, <2>1, <2>2 DEF LapDataNoSession
<1>8. CASE Stop
  BY <1>8 DEF Stop, SessionDropped, NoLap, LapCursorRecorded
<1>9. CASE Restart
  BY <1>9 DEF Restart, sessionVars, lapVars, LapCursorRecorded
<1>10. CASE UNCHANGED vars
  BY <1>10 DEF vars, LapCursorRecorded
<1> QED BY <1>1, <1>2, <1>3, <1>4, <1>5, <1>6, <1>7, <1>8, <1>9, <1>10 DEF Next, NoMerge

\* Whichever statements fail, the handler only stamps laps and sectors of the
\* session it is recording: lapID, lapNum and the session agree.
THEOREM CursorCorrect == Spec => []LapCursorRecorded
BY TypeInit, TypeStep, CursorInit, CursorStep, PTL DEF Spec

-----------------------------------------------------------------------------
(* The session being recorded is in progress. *)

\* A session that was not handed out yet has no ended_at.
FreshSessionsOpen == \A s \in Sessions \ sessions : sessionEnds[s] = 0

OpenInv == RecordsIntoOpenSession /\ FreshSessionsOpen

\* An UPDATE changes the row of its key and no other.
LEMMA StampOther ==
  ASSUME NEW S, NEW ends \in [S -> 0 .. MaxStamps], NEW table \in SUBSET S,
         NEW key, NEW applied \in BOOLEAN,
         NEW k \in S, k # key \/ k \notin table
  PROVE  Stamp(ends, table, key, applied)[k] = ends[k]
BY DEF Stamp

LEMMA CloseSessionOther ==
  ASSUME TypeOK, CloseSession, NEW s \in Sessions, s # session \/ s \notin sessions
  PROVE  sessionEnds'[s] = sessionEnds[s]
<1>1. PICK done \in Applied("CloseSession") :
        sessionEnds' = Stamp(sessionEnds, sessions, session, done)
  BY DEF CloseSession
<1>2. done \in BOOLEAN
  BY AppliedType
<1>3. sessionEnds \in [Sessions -> 0 .. MaxStamps] /\ sessions \in SUBSET Sessions
  BY DEF TypeOK
<1> QED BY <1>1, <1>2, <1>3, StampOther

LEMMA OpenInit == Init => OpenInv
BY DEF Init, OpenInv, RecordsIntoOpenSession, FreshSessionsOpen

LEMMA OpenStep ==
  ASSUME "CreateSession" \notin Fallible
  PROVE  TypeOK /\ LapCursorRecorded /\ OpenInv /\ [Next]_vars => OpenInv'
<1> SUFFICES ASSUME TypeOK, LapCursorRecorded, OpenInv, [Next]_vars PROVE OpenInv'
  OBVIOUS
<1> USE DEF OpenInv, RecordsIntoOpenSession, FreshSessionsOpen
<1>1. CASE SessionStarted
  <2>1. PICK s \in Sessions \ sessions : sessions' = sessions \cup {s} /\ session' = s
    BY <1>1 DEF SessionStarted, CreateFails, ResetFor
  <2>2. \A x \in Sessions \ sessions : sessionEnds'[x] = 0
    BY <1>1, CloseSessionOther DEF SessionStarted
  <2> QED BY <2>1, <2>2
<1>2. CASE SessionEnded
  <2>1. session' = None /\ sessions' = sessions
    BY <1>2 DEF SessionEnded, SessionDropped
  <2>2. \A x \in Sessions \ sessions : sessionEnds'[x] = 0
    BY <1>2, CloseSessionOther DEF SessionEnded
  <2> QED BY <2>1, <2>2
<1>3. ASSUME NEW t \in Tracks, SessionPacket(t) PROVE OpenInv'
  BY <1>3 DEF SessionPacket, handlerVars
<1>4. ASSUME NEW d \in Drivers, ParticipantsPacket(d) PROVE OpenInv'
  BY <1>4 DEF ParticipantsPacket, handlerVars
<1>5. ASSUME NEW k \in Kinds, NEW f \in FrameIDs, FramePacket(k, f) PROVE OpenInv'
  BY <1>5 DEF FramePacket, sessionVars
<1>6. ASSUME NEW p \in LapPackets, NEW f \in FrameIDs, LapData(p, f) PROVE OpenInv'
  BY <1>6 DEF LapData, sessionVars
<1>7. ASSUME NEW p \in LapPackets, LapDataNoSession(p) PROVE OpenInv'
  <2>1. CASE AutoCreateSession(p)
    <3>1. PICK s \in Sessions \ sessions : sessions' = sessions \cup {s} /\ session' = s
      BY <2>1 DEF AutoCreateSession, CreateFails, ResetFor
    <3>2. sessionEnds' = sessionEnds
      BY <2>1 DEF AutoCreateSession
    <3> QED BY <3>1, <3>2
  <2>2. CASE UNCHANGED <<handlerVars, sessionVars, laps, lapEnds, sectors,
                         sectorEnds, lapTimes, rows>>
    BY <2>2 DEF handlerVars, sessionVars
  <2> QED BY <1>7, <2>1, <2>2 DEF LapDataNoSession
<1>8. CASE Stop
  BY <1>8 DEF Stop, SessionDropped, sessionVars
<1>9. CASE Restart
  BY <1>9 DEF Restart, sessionVars
<1>10. CASE UNCHANGED vars
  BY <1>10 DEF vars
<1> QED BY <1>1, <1>2, <1>3, <1>4, <1>5, <1>6, <1>7, <1>8, <1>9, <1>10 DEF Next, NoMerge

\* As long as CreateSession succeeds, the handler records into a session whose
\* ended_at is NULL, whatever other statement fails.
THEOREM OpenCorrect ==
  ASSUME "CreateSession" \notin Fallible
  PROVE  Spec => []RecordsIntoOpenSession
<1>1. OpenInv => RecordsIntoOpenSession
  BY DEF OpenInv
<1> QED BY <1>1, TypeInit, TypeStep, CursorInit, CursorStep, OpenInit, OpenStep, PTL
        DEF Spec

-----------------------------------------------------------------------------
(* Telemetry rows. *)

\* What a row promises.
GoodRow(r) ==
  /\ r.session \in sessions
  /\ \A part \in r.parts : part.frame = r.id /\ part.session = r.session
  /\ \E part \in r.parts : part.kind = "Lap"

\* The frame being assembled is one frame of the session being recorded, and
\* only lap data makes it active.
FrameInv ==
  curFrameID # 0 =>
    /\ session # None
    /\ curFrame.session = session /\ curFrame.id = curFrameID
    /\ \A part \in curFrame.parts : part.frame = curFrameID /\ part.session = session
    /\ curFrame.active => \E part \in curFrame.parts : part.kind = "Lap"

LEMMA RowInit == Init => FrameInv /\ RowIsOneFrame
BY DEF Init, FrameInv, RowIsOneFrame

\* The frame that a finalization hands over is a good row.
LEMMA FinalizedRow ==
  ASSUME TypeOK, LapCursorRecorded, FrameInv, RowIsOneFrame,
         rows' \in Finalized, sessions' = sessions
  PROVE  RowIsOneFrame'
<1>1. CASE rows' = rows
  BY <1>1 DEF RowIsOneFrame
<1>2. CASE rows' # rows
  <2>1. rows' = Append(rows, curFrame) /\ curFrameID # 0 /\ curFrame.active
    BY <1>2 DEF Finalized
  <2>2. GoodRow(curFrame)
    BY <2>1 DEF FrameInv, GoodRow, LapCursorRecorded
  <2>3. rows \in Seq(Frame) /\ curFrame \in Frame
    BY DEF TypeOK
  <2>4. ASSUME NEW i \in 1 .. Len(rows') PROVE GoodRow(rows'[i])
    <3>1. CASE i = Len(rows) + 1
      BY <2>1, <2>2, <2>3, <3>1
    <3>2. CASE i # Len(rows) + 1
      <4>1. i \in 1 .. Len(rows) /\ rows'[i] = rows[i]
        BY <2>1, <2>3, <2>4, <3>2
      <4> QED BY <4>1 DEF RowIsOneFrame, GoodRow
    <3> QED BY <3>1, <3>2
  <2> QED BY <2>4 DEF RowIsOneFrame, GoodRow
<1> QED BY <1>1, <1>2

LEMMA AssembleRow ==
  ASSUME TypeOK, LapCursorRecorded, FrameInv, RowIsOneFrame, session # None,
         NEW kind \in Kinds \cup {"Lap"}, NEW f \in FrameIDs, NEW active \in BOOLEAN,
         kind = "Lap" \/ ~active,
         AssembleFrame(kind, f, active), UNCHANGED <<session, sessions>>
  PROVE  FrameInv' /\ RowIsOneFrame'
<1> DEFINE part == [kind |-> kind, frame |-> f, session |-> session]
           base == IF curFrameID # 0 /\ f = curFrameID THEN curFrame
                   ELSE [NoFrame EXCEPT !.session = session, !.id = f]
<1>1. /\ base \in Frame /\ base.session = session /\ base.id = f
      /\ \A q \in base.parts : q.frame = f /\ q.session = session
      /\ base.active => \E q \in base.parts : q.kind = "Lap"
  <2>1. CASE curFrameID # 0 /\ f = curFrameID
    BY <2>1 DEF FrameInv, TypeOK
  <2>2. CASE ~(curFrameID # 0 /\ f = curFrameID)
    BY <2>2 DEF NoFrame, Frame, TypeOK
  <2> QED BY <2>1, <2>2
<1>2. curFrame' = [base EXCEPT !.parts = @ \cup {part},
                               !.active = IF kind = "Lap" THEN active ELSE @]
      /\ curFrameID' = f
  BY DEF AssembleFrame
<1>3. part.kind = kind /\ part.frame = f /\ part.session = session
  OBVIOUS
<1> HIDE DEF base, part
<1>4. /\ curFrame'.session = session /\ curFrame'.id = f
      /\ curFrame'.parts = base.parts \cup {part}
      /\ curFrame'.active = IF kind = "Lap" THEN active ELSE base.active
  BY <1>1, <1>2 DEF Frame
<1>5. FrameInv'
  BY <1>1, <1>2, <1>3, <1>4 DEF FrameInv
<1>6. rows' = rows \/ rows' \in Finalized
  BY DEF AssembleFrame
<1>7. rows' = rows => RowIsOneFrame'
  BY DEF RowIsOneFrame
<1> QED BY <1>5, <1>6, <1>7, FinalizedRow

\* A step that leaves the rows alone, and the frame too or starts without one.
LEMMA RowsKept ==
  ASSUME FrameInv, RowIsOneFrame, rows' = rows, sessions \subseteq sessions',
         curFrameID' = 0 \/ UNCHANGED <<curFrameID, curFrame, session>>
  PROVE  FrameInv' /\ RowIsOneFrame'
BY DEF FrameInv, RowIsOneFrame

LEMMA RowStep ==
  TypeOK /\ LapCursorRecorded /\ FrameInv /\ RowIsOneFrame /\ [Next]_vars
    => (FrameInv /\ RowIsOneFrame)'
<1> SUFFICES ASSUME TypeOK, LapCursorRecorded, FrameInv, RowIsOneFrame, [Next]_vars
             PROVE  FrameInv' /\ RowIsOneFrame'
  OBVIOUS
<1>1. CASE SessionStarted
  BY <1>1, RowsKept DEF SessionStarted, CreateFails, ResetFor, handlerVars
<1>2. CASE SessionEnded
  <2>1. rows' \in Finalized /\ curFrameID' = 0 /\ sessions' = sessions
    BY <1>2 DEF SessionEnded, FinalizeFrame
  <2> QED BY <2>1, FinalizedRow DEF FrameInv
<1>3. ASSUME NEW t \in Tracks, SessionPacket(t) PROVE FrameInv' /\ RowIsOneFrame'
  BY <1>3, RowsKept DEF SessionPacket, handlerVars
<1>4. ASSUME NEW d \in Drivers, ParticipantsPacket(d) PROVE FrameInv' /\ RowIsOneFrame'
  BY <1>4, RowsKept DEF ParticipantsPacket, handlerVars
<1>5. ASSUME NEW k \in Kinds, NEW f \in FrameIDs, FramePacket(k, f)
      PROVE  FrameInv' /\ RowIsOneFrame'
  BY <1>5, AssembleRow DEF FramePacket, sessionVars
<1>6. ASSUME NEW p \in LapPackets, NEW f \in FrameIDs, LapData(p, f)
      PROVE  FrameInv' /\ RowIsOneFrame'
  <2>1. p.active \in BOOLEAN
    BY ConstantsAssumption DEF LapPacket
  <2> QED BY <1>6, <2>1, AssembleRow DEF LapData, sessionVars
<1>7. ASSUME NEW p \in LapPackets, LapDataNoSession(p)
      PROVE  FrameInv' /\ RowIsOneFrame'
  BY <1>7, RowsKept
     DEF LapDataNoSession, AutoCreateSession, CreateFails, ResetFor, handlerVars, sessionVars
<1>8. CASE Stop
  <2>1. CASE session = None
    <3>1. UNCHANGED <<rows, sessions, curFrameID>> /\ curFrameID = 0
      BY <1>8, <2>1 DEF Stop, sessionVars, FrameInv
    <3> QED BY <3>1, RowsKept
  <2>2. CASE session # None
    <3>1. rows' \in Finalized /\ curFrameID' = 0 /\ sessions' = sessions
      BY <1>8, <2>2 DEF Stop, sessionVars, FinalizeFrame
    <3> QED BY <3>1, FinalizedRow DEF FrameInv
  <2> QED BY <2>1, <2>2
<1>9. CASE Restart
  BY <1>9, RowsKept DEF Restart, sessionVars
<1>10. CASE UNCHANGED vars
  BY <1>10, RowsKept DEF vars
<1> QED BY <1>1, <1>2, <1>3, <1>4, <1>5, <1>6, <1>7, <1>8, <1>9, <1>10 DEF Next, NoMerge

\* Every telemetry row holds packets of one frame of one session, lap data
\* among them, in whatever order packets arrive and whichever statement fails.
THEOREM RowsCorrect == Spec => []RowIsOneFrame
BY TypeInit, TypeStep, CursorInit, CursorStep, RowInit, RowStep, PTL DEF Spec

-----------------------------------------------------------------------------
(* Rows in frame order, whatever the order of packets. *)

\* The rows of the session are of frames no later than the newest merged, and
\* before the frame being assembled unless a packet of it was overtaken.
RowsBehind ==
  /\ newest \in Nat /\ curFrameID <= newest
  /\ \A i \in 1 .. Len(rows) : rows[i].session = session => rows[i].id <= newest
  /\ curFrameID # 0 =>
       \/ curFrameID \in late
       \/ \A i \in 1 .. Len(rows) : rows[i].session = session => rows[i].id < curFrameID

RecordInv == TypeOK /\ LapCursorRecorded /\ FrameInv /\ RowIsOneFrame

LEMMA RecordInvStep ==
  ASSUME RecordInv, [Next]_vars
  PROVE  RecordInv'
BY TypeStep, CursorStep, RowStep DEF RecordInv

LEMMA RowIds ==
  ASSUME NEW q \in Seq(Frame), NEW i \in 1 .. Len(q)
  PROVE  q[i].id \in Nat
<1>1. q[i] \in Frame
  OBVIOUS
<1>2. q[i].id \in FrameIDs \cup {0}
  BY <1>1 DEF Frame
<1>3. FrameIDs \subseteq Nat /\ 0 \in Nat
  BY ConstantsAssumption
<1> QED BY <1>2, <1>3, Zenon

\* A finalization sends the frame being assembled, or nothing.
LEMMA FinalizedSends ==
  ASSUME RecordInv, rows' \in Finalized
  PROVE  \/ rows' = rows
         \/ /\ curFrameID # 0 /\ curFrame.session = session /\ curFrame.id = curFrameID
            /\ Len(rows) \in Nat /\ Len(rows') = Len(rows) + 1
            /\ rows'[Len(rows) + 1] = curFrame
            /\ \A i \in 1 .. Len(rows) : rows'[i] = rows[i]
<1>1. rows \in Seq(Frame)
  BY DEF RecordInv, TypeOK
<1>2. rows' # rows => rows' = Append(rows, curFrame) /\ curFrameID # 0
  BY DEF Finalized
<1> QED BY <1>1, <1>2 DEF RecordInv, FrameInv

LEMMA SentInOrder ==
  ASSUME RecordInv, RowsBehind, rows' \in Finalized
  PROVE  NextRowIsLater
<1>1. CASE rows' = rows
  <2>1. rows \in Seq(Frame)
    BY DEF RecordInv, TypeOK
  <2>2. ~(Len(rows) < Len(rows'))
    BY <1>1, <2>1
  <2> QED BY <2>2 DEF NextRowIsLater
<1>2. CASE rows' # rows
  <2>1. /\ curFrameID # 0
        /\ rows'[Len(rows')].session = session /\ rows'[Len(rows')].id = curFrameID
    BY <1>2, FinalizedSends
  <2> QED BY <2>1 DEF NextRowIsLater, RowsBehind
<1> QED BY <1>1, <1>2

LEMMA NothingSent ==
  ASSUME RecordInv, rows' = rows
  PROVE  NextRowIsLater
<1>1. rows \in Seq(Frame)
  BY DEF RecordInv, TypeOK
<1>2. ~(Len(rows) < Len(rows'))
  BY <1>1
<1> QED BY <1>2 DEF NextRowIsLater

LEMMA ArrivalInOrder ==
  ASSUME RecordInv, RowsBehind, session # None, session' = session,
         NEW f \in FrameIDs, NEW kind, NEW active, AssembleFrame(kind, f, active), Arrives(f)
  PROVE  NextRowIsLater /\ RowsBehind'
<1>1. /\ rows \in Seq(Frame) /\ curFrameID \in Nat /\ f \in Nat /\ newest \in Nat
      /\ curFrameID' = f
  BY ConstantsAssumption DEF RecordInv, TypeOK, AssembleFrame, RowsBehind
<1>2. \A i \in 1 .. Len(rows) : rows[i].id \in Nat
  BY <1>1, RowIds
<1>3. /\ newest' \in Nat /\ newest <= newest' /\ f <= newest'
      /\ late \subseteq late'
      /\ f # curFrameID /\ f # 0 /\ f <= newest => f \in late'
  BY <1>1 DEF Arrives, Overtaken
<1>4. CASE SameFrame(f)
  <2>1. rows' = rows
    BY <1>4 DEF AssembleFrame
  <2>2. \A i \in 1 .. Len(rows') : rows'[i].session = session' => rows'[i].id <= newest'
    BY <1>1, <1>2, <1>3, <2>1 DEF RowsBehind
  <2>3. CASE f = curFrameID
    BY <1>1, <1>3, <2>1, <2>2, <2>3, NothingSent DEF RowsBehind
  <2>4. CASE f # curFrameID /\ f <= newest
    BY <1>1, <1>3, <2>1, <2>2, <2>4, NothingSent DEF RowsBehind
  <2>5. CASE newest < f
    BY <1>1, <1>2, <1>3, <2>1, <2>2, <2>5, NothingSent DEF RowsBehind
  <2> QED BY <1>1, <2>3, <2>4, <2>5
<1>5. CASE ~SameFrame(f)
  <2>1. rows' \in Finalized /\ f # curFrameID
    BY <1>1, <1>5 DEF AssembleFrame, SameFrame
  <2>2. \A i \in 1 .. Len(rows') : rows'[i].session = session' =>
          rows'[i].id \in Nat /\ rows'[i].id <= newest
    <3> SUFFICES ASSUME NEW i \in 1 .. Len(rows'), rows'[i].session = session'
                 PROVE  rows'[i].id \in Nat /\ rows'[i].id <= newest
      OBVIOUS
    <3>1. CASE rows' = rows
      BY <1>2, <3>1 DEF RowsBehind
    <3>2. CASE rows' # rows
      <4>1. /\ curFrame.id = curFrameID /\ Len(rows) \in Nat /\ Len(rows') = Len(rows) + 1
            /\ rows'[Len(rows) + 1] = curFrame
            /\ \A j \in 1 .. Len(rows) : rows'[j] = rows[j]
        BY <2>1, <3>2, FinalizedSends
      <4>2. i \in 1 .. Len(rows) \/ i = Len(rows) + 1
        BY <4>1
      <4> QED BY <1>1, <1>2, <4>1, <4>2 DEF RowsBehind
    <3> QED BY <3>1, <3>2
  <2>3. \A i \in 1 .. Len(rows') : rows'[i].session = session' => rows'[i].id <= newest'
    BY <1>1, <1>3, <2>2
  <2>4. f # 0 => \/ f \in late'
                 \/ \A i \in 1 .. Len(rows') : rows'[i].session = session' => rows'[i].id < f
    BY <1>1, <1>3, <2>1, <2>2
  <2> QED BY <1>1, <1>3, <2>1, <2>3, <2>4, SentInOrder DEF RowsBehind
<1> QED BY <1>4, <1>5

\* A session that begins has no rows, and one that ends sends its last frame.
LEMMA NoMergeInOrder ==
  ASSUME RecordInv, RowsBehind, NoMerge, Otherwise, RecordInv'
  PROVE  NextRowIsLater /\ RowsBehind'
<1>1. /\ \A i \in 1 .. Len(rows') : rows'[i].session \in sessions'
      /\ sessions' \subseteq Sessions
      /\ None \notin Sessions /\ curFrameID \in Nat
  <2>1. RowIsOneFrame' /\ TypeOK' /\ TypeOK
    BY DEF RecordInv
  <2>2. curFrameID \in FrameIDs \cup {0} /\ sessions' \subseteq Sessions
    BY <2>1 DEF TypeOK
  <2>3. FrameIDs \subseteq Nat /\ None \notin Sessions
    BY ConstantsAssumption
  <2>4. \A i \in 1 .. Len(rows') : rows'[i].session \in sessions'
    BY <2>1 DEF RowIsOneFrame
  <2> QED BY <2>2, <2>3, <2>4
<1>2. session # None => session \in sessions
  BY DEF RecordInv, LapCursorRecorded
<1>3. ASSUME session' = session, rows' = rows, curFrameID' \in {0, curFrameID}
      PROVE  NextRowIsLater /\ RowsBehind'
  <2>1. UNCHANGED <<newest, late>>
    BY <1>3 DEF Otherwise
  <2> QED BY <1>1, <1>3, <2>1, NothingSent DEF RowsBehind
<1>4. ASSUME session' # session, curFrameID' = 0, rows' \in Finalized,
             \A i \in 1 .. Len(rows') : rows'[i].session # session'
      PROVE  NextRowIsLater /\ RowsBehind'
  <2>1. newest' = 0
    BY <1>4 DEF Otherwise
  <2> QED BY <1>4, <2>1, SentInOrder DEF RowsBehind
<1>5. ASSUME NEW s \in Sessions \ sessions, session' = s, curFrameID' = 0, rows' = rows
      PROVE  NextRowIsLater /\ RowsBehind'
  <2>1. session' # session /\ \A i \in 1 .. Len(rows') : rows'[i].session # session'
    BY <1>1, <1>2, <1>5 DEF RecordInv, RowIsOneFrame
  <2>2. newest' = 0
    BY <2>1 DEF Otherwise
  <2> QED BY <1>5, <2>1, <2>2, NothingSent DEF RowsBehind
<1>6. CASE SessionStarted
  <2>1. PICK s \in Sessions \ sessions :
          CreateFails(s) \/ (sessions' = sessions \cup {s} /\ ResetFor(s) /\ lap' = NoLap)
    BY <1>6 DEF SessionStarted
  <2>2. rows' = rows
    BY <1>6 DEF SessionStarted
  <2>3. CASE CreateFails(s)
    BY <1>3, <2>2, <2>3 DEF CreateFails, handlerVars
  <2>4. CASE ResetFor(s)
    BY <1>5, <2>2, <2>4 DEF ResetFor
  <2> QED BY <2>1, <2>3, <2>4
<1>7. CASE SessionEnded
  BY <1>1, <1>4, <1>7 DEF SessionEnded, SessionDropped, FinalizeFrame
<1>8. ASSUME NEW t \in Tracks, SessionPacket(t) PROVE NextRowIsLater /\ RowsBehind'
  BY <1>3, <1>8 DEF SessionPacket, handlerVars
<1>9. ASSUME NEW d \in Drivers, ParticipantsPacket(d) PROVE NextRowIsLater /\ RowsBehind'
  BY <1>3, <1>9 DEF ParticipantsPacket, handlerVars
<1>10. ASSUME NEW p \in LapPackets, LapDataNoSession(p) PROVE NextRowIsLater /\ RowsBehind'
  <2>1. rows' = rows
    BY <1>10 DEF LapDataNoSession, AutoCreateSession
  <2>2. CASE AutoCreateSession(p)
    <3>1. PICK s \in Sessions \ sessions : CreateFails(s) \/ ResetFor(s)
      BY <2>2 DEF AutoCreateSession
    <3>2. CASE CreateFails(s)
      BY <1>3, <2>1, <3>2 DEF CreateFails, handlerVars
    <3>3. CASE ResetFor(s)
      BY <1>5, <2>1, <3>3 DEF ResetFor
    <3> QED BY <3>1, <3>2, <3>3
  <2>3. CASE UNCHANGED handlerVars
    BY <1>3, <2>1, <2>3 DEF handlerVars
  <2> QED BY <1>10, <2>2, <2>3 DEF LapDataNoSession
<1>11. CASE Stop
  <2>1. CASE session = None
    BY <1>3, <1>11, <2>1 DEF Stop, SessionDropped
  <2>2. CASE session # None
    BY <1>1, <1>4, <1>11, <2>2 DEF Stop, SessionDropped, FinalizeFrame
  <2> QED BY <2>1, <2>2
<1>12. CASE Restart
  BY <1>3, <1>12 DEF Restart
<1> QED BY <1>6, <1>7, <1>8, <1>9, <1>10, <1>11, <1>12 DEF NoMerge

LEMMA OrderStep ==
  ASSUME RecordInv, RowsBehind, [OrderNext]_orderVars
  PROVE  RecordInv' /\ NextRowIsLater /\ RowsBehind'
<1>1. [Next]_vars
  BY DEF OrderNext, Next, orderVars
<1>2. RecordInv'
  BY <1>1, RecordInvStep
<1>3. CASE NoMerge /\ Otherwise
  BY <1>2, <1>3, NoMergeInOrder
<1>4. ASSUME NEW k \in Kinds, NEW f \in FrameIDs, FramePacket(k, f), Arrives(f)
      PROVE  NextRowIsLater /\ RowsBehind'
  BY <1>4, ArrivalInOrder DEF FramePacket
<1>5. ASSUME NEW p \in LapPackets, NEW f \in FrameIDs, LapData(p, f), Arrives(f)
      PROVE  NextRowIsLater /\ RowsBehind'
  BY <1>5, ArrivalInOrder DEF LapData
<1>6. CASE UNCHANGED orderVars
  <2>1. newest' = newest /\ late' = late /\ curFrameID' = curFrameID /\ rows' = rows
        /\ session' = session
    BY <1>6 DEF orderVars, vars
  <2>2. NextRowIsLater
    BY <2>1, NothingSent
  <2>3. RowsBehind'
    BY <2>1 DEF RowsBehind
  <2> QED BY <1>2, <2>2, <2>3
<1> QED BY <1>2, <1>3, <1>4, <1>5, <1>6 DEF OrderNext

\* Whichever way the packets of frames are mixed and whichever statements
\* fail, a row that is not of an overtaken frame comes after the rows of
\* earlier frames of its session and is the only one of its frame.
THEOREM RowsAreInFrameOrder == OrderSpec => RowsInFrameOrder
<1>1. OrderInit => RecordInv /\ RowsBehind
  <2>1. Len(<<>>) = 0
    OBVIOUS
  <2>2. OrderInit => RowsBehind
    BY <2>1 DEF OrderInit, Init, RowsBehind
  <2> QED BY <2>2, TypeInit, CursorInit, RowInit DEF OrderInit, RecordInv
<1>2. RecordInv /\ RowsBehind /\ [OrderNext]_orderVars => (RecordInv /\ RowsBehind)'
  BY OrderStep
<1>3. RecordInv /\ RowsBehind /\ [OrderNext]_orderVars => [NextRowIsLater]_orderVars
  BY OrderStep
<1> QED BY <1>1, <1>2, <1>3, PTL DEF OrderSpec, RowsInFrameOrder

-----------------------------------------------------------------------------
(* A session that ended is never written again. *)

\* While no lap is open there is no lap to stamp.
NoStaleCursor == ~lap.open => lap.id = None

LEMMA StaleInit == Init => NoStaleCursor
BY DEF Init, NoStaleCursor, NoLap

LEMMA StaleStep == TypeOK /\ NoStaleCursor /\ [Next]_vars => NoStaleCursor'
<1> SUFFICES ASSUME TypeOK, NoStaleCursor, [Next]_vars PROVE NoStaleCursor'
  OBVIOUS
<1> USE DEF NoStaleCursor
<1>1. CASE SessionStarted
  BY <1>1 DEF SessionStarted, CreateFails, ResetFor, handlerVars, NoLap
<1>2. CASE SessionEnded
  BY <1>2 DEF SessionEnded, SessionDropped, NoLap
<1>3. ASSUME NEW t \in Tracks, SessionPacket(t) PROVE NoStaleCursor'
  BY <1>3 DEF SessionPacket, handlerVars
<1>4. ASSUME NEW d \in Drivers, ParticipantsPacket(d) PROVE NoStaleCursor'
  BY <1>4 DEF ParticipantsPacket, handlerVars
<1>5. ASSUME NEW k \in Kinds, NEW f \in FrameIDs, FramePacket(k, f)
      PROVE  NoStaleCursor'
  BY <1>5 DEF FramePacket, lapVars
<1>6. ASSUME NEW p \in LapPackets, NEW f \in FrameIDs, LapData(p, f)
      PROVE  NoStaleCursor'
  <2>1. CASE FirstLap(p)
    BY <2>1, OpenLapCursor DEF FirstLap
  <2>2. CASE NextLap(p)
    BY <2>2, OpenLapCursor DEF NextLap
  <2>3. CASE PitEntry(p)
    <3>1. lap' = [lap EXCEPT !.inPit = TRUE]
      BY <2>3 DEF PitEntry
    <3>2. lap'.open = lap.open /\ lap'.id = lap.id
      BY <3>1 DEF TypeOK
    <3> QED BY <3>2
  <2>4. CASE SectorAdvance(p)
    <3>1. lap' = [lap EXCEPT !.sector = p.sector]
      BY <2>4 DEF SectorAdvance
    <3>2. lap'.open = lap.open /\ lap'.id = lap.id
      BY <3>1 DEF TypeOK
    <3> QED BY <3>2
  <2>5. CASE NoBoundary(p)
    BY <2>5 DEF NoBoundary, lapVars
  <2> QED BY <1>6, <2>1, <2>2, <2>3, <2>4, <2>5 DEF LapData
<1>7. ASSUME NEW p \in LapPackets, LapDataNoSession(p) PROVE NoStaleCursor'
  <2>1. CASE AutoCreateSession(p)
    BY <2>1, OpenLapCursor DEF AutoCreateSession, CreateFails, handlerVars, NoLap
  <2>2. CASE UNCHANGED handlerVars
    BY <2>2 DEF handlerVars
  <2> QED BY <1>7, <2>1, <2>2 DEF LapDataNoSession
<1>8. CASE Stop
  BY <1>8 DEF Stop, SessionDropped, NoLap
<1>9. CASE Restart
  BY <1>9 DEF Restart, lapVars
<1>10. CASE UNCHANGED vars
  BY <1>10 DEF vars
<1> QED BY <1>1, <1>2, <1>3, <1>4, <1>5, <1>6, <1>7, <1>8, <1>9, <1>10 DEF Next, NoMerge

\* The rows of session s in each table, one by one.
Untouched(s) ==
  /\ sessionEnds'[s] = sessionEnds[s]
  /\ tracks'[s] = tracks[s] /\ participants'[s] = participants[s]
  /\ \A l \in LapKeys : l[1] = s =>
       /\ l \in laps' <=> l \in laps
       /\ lapEnds'[l] = lapEnds[l] /\ lapTimes'[l] = lapTimes[l]
  /\ \A k \in SectorKeys : k[1][1] = s =>
       /\ k \in sectors' <=> k \in sectors
       /\ sectorEnds'[k] = sectorEnds[k]

NoNewRowOf(s) == \A i \in (Len(rows) + 1) .. Len(rows') : rows'[i].session # s

LEMMA RecordKept ==
  ASSUME TypeOK, TypeOK', NEW s \in Sessions, Untouched(s)
  PROVE  Record(s)' = Record(s)
<1>1. {l \in laps' : l[1] = s} = {l \in laps : l[1] = s}
  BY DEF TypeOK, Untouched
<1>2. {k \in sectors' : k[1][1] = s} = {k \in sectors : k[1][1] = s}
  BY DEF TypeOK, Untouched
<1>3. /\ \A n \in LapNums : lapEnds'[<<s, n>>] = lapEnds[<<s, n>>]
      /\ \A n \in LapNums : lapTimes'[<<s, n>>] = lapTimes[<<s, n>>]
  <2>1. \A n \in LapNums : <<s, n>> \in LapKeys /\ <<s, n>>[1] = s
    BY DEF LapKeys
  <2> QED BY <2>1 DEF Untouched
<1>4. \A k \in LapNums \X (1 .. 3) :
        sectorEnds'[<<<<s, k[1]>>, k[2]>>] = sectorEnds[<<<<s, k[1]>>, k[2]>>]
  <2> TAKE k \in LapNums \X (1 .. 3)
  <2>1. <<<<s, k[1]>>, k[2]>> \in SectorKeys /\ <<<<s, k[1]>>, k[2]>>[1][1] = s
    BY DEF LapKeys, SectorKeys
  <2> QED BY <2>1 DEF Untouched
<1>5. [n \in LapNums |-> lapEnds'[<<s, n>>]] = [n \in LapNums |-> lapEnds[<<s, n>>]]
  BY <1>3
<1>6. [n \in LapNums |-> lapTimes'[<<s, n>>]] = [n \in LapNums |-> lapTimes[<<s, n>>]]
  BY <1>3
<1>7. [k \in LapNums \X (1 .. 3) |-> sectorEnds'[<<<<s, k[1]>>, k[2]>>]]
        = [k \in LapNums \X (1 .. 3) |-> sectorEnds[<<<<s, k[1]>>, k[2]>>]]
  BY <1>4
<1>8. /\ sessionEnds'[s] = sessionEnds[s]
      /\ tracks'[s] = tracks[s] /\ participants'[s] = participants[s]
  BY DEF Untouched
<1> QED BY <1>1, <1>2, <1>5, <1>6, <1>7, <1>8 DEF Record

LEMMA OpenLapOther ==
  ASSUME TypeOK, NEW s0 \in Sessions, NEW p \in LapPackets, NEW pit, NEW onError,
         OpenLap(s0, p, pit, onError), NEW s \in Sessions, s # s0
  PROVE  /\ \A l \in LapKeys : l[1] = s => (l \in laps' <=> l \in laps)
         /\ \A k \in SectorKeys : k[1][1] = s => (k \in sectors' <=> k \in sectors)
<1>1. laps' \in {laps, laps \cup {<<s0, p.lapNum>>}}
  BY DEF OpenLap
<1>2. sectors' \in {sectors, sectors \cup {SectorKey(<<s0, p.lapNum>>, p.sector)}}
  BY DEF OpenLap
<1>3. /\ <<s0, p.lapNum>>[1] = s0
      /\ SectorKey(<<s0, p.lapNum>>, p.sector)[1] = <<s0, p.lapNum>>
  BY DEF SectorKey
<1> QED BY <1>1, <1>2, <1>3

\* The cursor points into the session being recorded, or to no lap at all.
LEMMA CursorOwner ==
  ASSUME TypeOK, LapCursorRecorded, NoStaleCursor, NEW l \in LapKeys, l = lap.id
  PROVE  l[1] = session
<1>1. lap.open
  BY ConstantsAssumption DEF NoStaleCursor, LapKeys
<1> QED BY <1>1 DEF LapCursorRecorded

LEMMA CloseLapOther ==
  ASSUME TypeOK, LapCursorRecorded, NoStaleCursor, CloseLap,
         NEW l \in LapKeys, l[1] # session
  PROVE  lapEnds'[l] = lapEnds[l]
<1>1. PICK done \in Applied("CloseLap") :
        lapEnds' = Stamp(lapEnds, laps, lap.id, done)
  BY DEF CloseLap
<1>2. done \in BOOLEAN
  BY AppliedType
<1>3. lapEnds \in [LapKeys -> 0 .. MaxStamps] /\ laps \in SUBSET LapKeys
  BY DEF TypeOK
<1>4. l # lap.id
  BY CursorOwner
<1> QED BY <1>1, <1>2, <1>3, <1>4, StampOther

LEMMA CloseSectorOther ==
  ASSUME TypeOK, LapCursorRecorded, NoStaleCursor, CloseSector,
         NEW k \in SectorKeys, k[1][1] # session
  PROVE  sectorEnds'[k] = sectorEnds[k]
<1>1. PICK done \in Applied("CloseSector") :
        sectorEnds' = Stamp(sectorEnds, sectors, SectorKey(lap.id, lap.sector), done)
  BY DEF CloseSector
<1>2. done \in BOOLEAN
  BY AppliedType
<1>3. sectorEnds \in [SectorKeys -> 0 .. MaxStamps] /\ sectors \in SUBSET SectorKeys
  BY DEF TypeOK
<1>4. k # SectorKey(lap.id, lap.sector)
  <2>1. k[1] \in LapKeys /\ SectorKey(lap.id, lap.sector)[1] = lap.id
    BY DEF SectorKeys, SectorKey
  <2> QED BY <2>1, CursorOwner
<1> QED BY <1>1, <1>2, <1>3, <1>4, StampOther

LEMMA BoundaryOther ==
  ASSUME TypeOK, LapCursorRecorded, NoStaleCursor, session # None,
         NEW p \in LapPackets,
         FirstLap(p) \/ NextLap(p) \/ PitEntry(p) \/ SectorAdvance(p) \/ NoBoundary(p),
         NEW s \in Sessions, s # session
  PROVE  /\ \A l \in LapKeys : l[1] = s =>
              (l \in laps' <=> l \in laps) /\ lapEnds'[l] = lapEnds[l]
         /\ \A k \in SectorKeys : k[1][1] = s =>
              (k \in sectors' <=> k \in sectors) /\ sectorEnds'[k] = sectorEnds[k]
<1>0. session \in Sessions
  BY DEF TypeOK
<1>1. CASE FirstLap(p)
  BY <1>0, <1>1, OpenLapOther DEF FirstLap
<1>2. CASE NextLap(p)
  <2>1. CloseLap /\ OpenLap(session, p, FALSE, lap)
        /\ (UNCHANGED sectorEnds \/ CloseSector)
    BY <1>2 DEF NextLap
  <2>2. /\ \A l \in LapKeys : l[1] = s => (l \in laps' <=> l \in laps)
        /\ \A k \in SectorKeys : k[1][1] = s => (k \in sectors' <=> k \in sectors)
    BY <1>0, <2>1, OpenLapOther
  <2>3. \A l \in LapKeys : l[1] = s => lapEnds'[l] = lapEnds[l]
    BY <2>1, CloseLapOther
  <2>4. \A k \in SectorKeys : k[1][1] = s => sectorEnds'[k] = sectorEnds[k]
    BY <2>1, CloseSectorOther
  <2> QED BY <2>2, <2>3, <2>4
<1>3. CASE PitEntry(p)
  <2>1. UNCHANGED <<laps, lapEnds, sectors>> /\ (UNCHANGED sectorEnds \/ CloseSector)
    BY <1>3 DEF PitEntry
  <2>2. \A k \in SectorKeys : k[1][1] = s => sectorEnds'[k] = sectorEnds[k]
    BY <2>1, CloseSectorOther
  <2> QED BY <2>1, <2>2
<1>4. CASE SectorAdvance(p)
  <2>1. UNCHANGED <<laps, lapEnds>> /\ CloseSector
    BY <1>4 DEF SectorAdvance
  <2>2. \A k \in SectorKeys : k[1][1] = s => sectorEnds'[k] = sectorEnds[k]
    BY <2>1, CloseSectorOther
  <2>3. \/ sectors' = sectors
        \/ lap.id \in laps /\ sectors' = sectors \cup {SectorKey(lap.id, p.sector)}
    BY <1>4 DEF SectorAdvance
  <2>4. \A k \in SectorKeys : k[1][1] = s => k # SectorKey(lap.id, p.sector)
    <3> SUFFICES ASSUME NEW k \in SectorKeys, k[1][1] = s, k = SectorKey(lap.id, p.sector)
                 PROVE  FALSE
      OBVIOUS
    <3>1. k[1] \in LapKeys /\ k[1] = lap.id
      BY DEF SectorKeys, SectorKey
    <3> QED BY <3>1, CursorOwner
  <2> QED BY <2>1, <2>2, <2>3, <2>4
<1>5. CASE NoBoundary(p)
  BY <1>5 DEF NoBoundary, lapVars
<1> QED BY <1>1, <1>2, <1>3, <1>4, <1>5

LEMMA LapTimesOther ==
  ASSUME TypeOK, NEW p \in LapPackets, RecordLapTimes(p),
         NEW l \in LapKeys, l[1] # session
  PROVE  lapTimes'[l] = lapTimes[l]
<1>1. \/ lapTimes' = lapTimes
      \/ lapTimes' = [lapTimes EXCEPT ![<<session, car.lapNum>>] = FinishedTime]
  BY DEF RecordLapTimes, timeVars
<1>2. l # <<session, car.lapNum>>
  OBVIOUS
<1> QED BY <1>1, <1>2 DEF TypeOK

\* A row that is sent belongs to the session being recorded.
LEMMA NewRowOwner ==
  ASSUME TypeOK, FrameInv, rows' \in Finalized \cup {rows}, NEW s, s # session
  PROVE  NoNewRowOf(s)
<1>1. \/ rows' = rows
      \/ rows' = Append(rows, curFrame) /\ curFrameID # 0
  BY DEF Finalized
<1>2. rows \in Seq(Frame) /\ curFrame \in Frame
  BY DEF TypeOK
<1>3. CASE rows' = rows
  BY <1>2, <1>3 DEF NoNewRowOf
<1>4. CASE rows' = Append(rows, curFrame) /\ curFrameID # 0
  <2>1. curFrame.session # s
    BY <1>4 DEF FrameInv
  <2>2. Len(rows') = Len(rows) + 1 /\ rows'[Len(rows) + 1] = curFrame
    BY <1>2, <1>4
  <2>3. \A i \in (Len(rows) + 1) .. Len(rows') : i = Len(rows) + 1
    BY <1>2, <2>2
  <2> QED BY <2>1, <2>2, <2>3 DEF NoNewRowOf
<1> QED BY <1>1, <1>3, <1>4

\* All that the recording of one session rests on.
SafetyInv ==
  TypeOK /\ LapCursorRecorded /\ NoStaleCursor /\ OpenInv /\ FrameInv /\ RowIsOneFrame

LEMMA FrozenStep ==
  ASSUME "CreateSession" \notin Fallible, SafetyInv, [Next]_vars,
         NEW s \in Sessions, sessionEnds[s] > 0
  PROVE  Untouched(s) /\ NoNewRowOf(s)
<1> USE DEF SafetyInv
<1>1. s \in sessions /\ s # session /\ s # None
  BY ConstantsAssumption DEF OpenInv, RecordsIntoOpenSession, FreshSessionsOpen
<1>2. rows' = rows => NoNewRowOf(s)
  BY <1>1, NewRowOwner
<1>3. CASE SessionStarted
  <2>1. sessionEnds'[s] = sessionEnds[s]
    BY <1>1, <1>3, CloseSessionOther DEF SessionStarted
  <2> QED BY <1>2, <1>3, <2>1 DEF SessionStarted, Untouched
<1>4. CASE SessionEnded
  <2>1. sessionEnds'[s] = sessionEnds[s]
    BY <1>1, <1>4, CloseSessionOther DEF SessionEnded
  <2>2. \A l \in LapKeys : l[1] = s => lapEnds'[l] = lapEnds[l]
    BY <1>1, <1>4, CloseLapOther DEF SessionEnded
  <2>3. \A k \in SectorKeys : k[1][1] = s => sectorEnds'[k] = sectorEnds[k]
    BY <1>1, <1>4, CloseSectorOther DEF SessionEnded
  <2>4. NoNewRowOf(s)
    BY <1>1, <1>4, NewRowOwner DEF SessionEnded, FinalizeFrame
  <2> QED BY <1>4, <2>1, <2>2, <2>3, <2>4 DEF SessionEnded, Untouched
<1>5. ASSUME NEW t \in Tracks, SessionPacket(t) PROVE Untouched(s) /\ NoNewRowOf(s)
  <2>1. tracks'[s] = tracks[s]
    BY <1>1, <1>5 DEF SessionPacket, TypeOK
  <2> QED BY <1>2, <1>5, <2>1 DEF SessionPacket, Untouched
<1>6. ASSUME NEW d \in Drivers, ParticipantsPacket(d)
      PROVE  Untouched(s) /\ NoNewRowOf(s)
  <2>1. participants'[s] = participants[s]
    BY <1>1, <1>6 DEF ParticipantsPacket, TypeOK
  <2> QED BY <1>2, <1>6, <2>1 DEF ParticipantsPacket, Untouched
<1>7. ASSUME NEW k \in Kinds, NEW f \in FrameIDs, FramePacket(k, f)
      PROVE  Untouched(s) /\ NoNewRowOf(s)
  <2>1. rows' \in Finalized \cup {rows}
    BY <1>7 DEF FramePacket, AssembleFrame
  <2> QED BY <1>1, <1>7, <2>1, NewRowOwner
          DEF FramePacket, sessionVars, lapVars, timeVars, Untouched
<1>8. ASSUME NEW p \in LapPackets, NEW f \in FrameIDs, LapData(p, f)
      PROVE  Untouched(s) /\ NoNewRowOf(s)
  <2>1. rows' \in Finalized \cup {rows}
    BY <1>8 DEF LapData, AssembleFrame
  <2>2. \A l \in LapKeys : l[1] = s => lapTimes'[l] = lapTimes[l]
    BY <1>1, <1>8, LapTimesOther DEF LapData
  <2>3. /\ \A l \in LapKeys : l[1] = s =>
              (l \in laps' <=> l \in laps) /\ lapEnds'[l] = lapEnds[l]
        /\ \A k \in SectorKeys : k[1][1] = s =>
              (k \in sectors' <=> k \in sectors) /\ sectorEnds'[k] = sectorEnds[k]
    BY <1>1, <1>8, BoundaryOther DEF LapData
  <2>4. UNCHANGED <<sessionEnds, tracks, participants>>
    BY <1>8 DEF LapData, sessionVars
  <2> QED BY <1>1, <2>1, <2>2, <2>3, <2>4, NewRowOwner DEF Untouched
<1>9. ASSUME NEW p \in LapPackets, LapDataNoSession(p)
      PROVE  Untouched(s) /\ NoNewRowOf(s)
  <2>1. CASE AutoCreateSession(p)
    <3>1. PICK new \in Sessions \ sessions : OpenLap(new, p, p.pit, NoLap)
      BY <2>1 DEF AutoCreateSession, CreateFails
    <3>2. /\ \A l \in LapKeys : l[1] = s => (l \in laps' <=> l \in laps)
          /\ \A k \in SectorKeys : k[1][1] = s => (k \in sectors' <=> k \in sectors)
      BY <1>1, <3>1, OpenLapOther
    <3> QED BY <1>2, <2>1, <3>2 DEF AutoCreateSession, Untouched
  <2>2. CASE UNCHANGED <<handlerVars, sessionVars, laps, lapEnds, sectors,
                         sectorEnds, lapTimes, rows>>
    BY <1>2, <2>2 DEF sessionVars, Untouched
  <2> QED BY <1>9, <2>1, <2>2 DEF LapDataNoSession
<1>10. CASE Stop
  <2>1. rows' \in Finalized \cup {rows}
    BY <1>10 DEF Stop, FinalizeFrame
  <2> QED BY <1>1, <1>10, <2>1, NewRowOwner DEF Stop, sessionVars, Untouched
<1>11. CASE Restart
  BY <1>2, <1>11 DEF Restart, sessionVars, lapVars, timeVars, Untouched
<1>12. CASE UNCHANGED vars
  BY <1>2, <1>12 DEF vars, Untouched
<1> QED BY <1>3, <1>4, <1>5, <1>6, <1>7, <1>8, <1>9, <1>10, <1>11, <1>12 DEF Next, NoMerge

\* As long as CreateSession succeeds, a session that was ended keeps its
\* record for good: no row of it is added, ended again or overwritten, and no
\* telemetry row of it is sent.
THEOREM EndedSessionsFrozen ==
  ASSUME "CreateSession" \notin Fallible
  PROVE  Spec => EndedSessionFrozen
<1>1. Init => SafetyInv
  BY TypeInit, CursorInit, StaleInit, OpenInit, RowInit DEF SafetyInv
<1>2. SafetyInv /\ [Next]_vars => SafetyInv'
  BY TypeStep, CursorStep, StaleStep, OpenStep, RowStep DEF SafetyInv
<1>3. SafetyInv /\ SafetyInv' /\ [Next]_vars =>
        [\A s \in Sessions :
           sessionEnds[s] > 0 =>
             /\ Record(s)' = Record(s)
             /\ \A i \in (Len(rows) + 1) .. Len(rows') : rows'[i].session # s]_vars
  <2> SUFFICES ASSUME SafetyInv, SafetyInv', [Next]_vars,
                      NEW s \in Sessions, sessionEnds[s] > 0
               PROVE  /\ Record(s)' = Record(s)
                      /\ NoNewRowOf(s)
    BY DEF NoNewRowOf
  <2>1. Untouched(s) /\ NoNewRowOf(s)
    BY FrozenStep
  <2>2. TypeOK /\ TypeOK'
    BY DEF SafetyInv
  <2> QED BY <2>1, <2>2, RecordKept
<1> QED BY <1>1, <1>2, <1>3, PTL DEF Spec, EndedSessionFrozen

-----------------------------------------------------------------------------
(* What the handler leaves in progress. *)

\* One UPDATE that does not fail, and its effect.
Stamped(ends, table, key) ==
  IF key \in table /\ ends[key] < MaxStamps THEN [ends EXCEPT ![key] = @ + 1] ELSE ends

StampsOnly(S, ends, table, key, after) ==
  /\ key \in table => after[key] > 0
  /\ \A k \in S : k # key => after[k] = ends[k]
  /\ \A k \in S : ends[k] > 0 => after[k] > 0
  /\ \A k \in S : after[k] > 0 => ends[k] > 0 \/ k \in table

LEMMA StampEffect ==
  ASSUME NEW S, NEW ends \in [S -> 0 .. MaxStamps], NEW table \in SUBSET S, NEW key
  PROVE  StampsOnly(S, ends, table, key, Stamped(ends, table, key))
<1> DEFINE after == Stamped(ends, table, key)
<1>1. \A k \in S : ends[k] \in Nat /\ ends[k] <= MaxStamps
  OBVIOUS
<1>2. MaxStamps \in Nat /\ MaxStamps > 1
  BY ConstantsAssumption
<1>3. CASE key \in table /\ ends[key] < MaxStamps
  <2>1. after = [ends EXCEPT ![key] = @ + 1]
    BY <1>3 DEF Stamped
  <2>2. key \in S /\ after[key] = ends[key] + 1
    BY <1>3, <2>1
  <2>3. \A k \in S : k # key => after[k] = ends[k]
    BY <2>1
  <2>4. ends[key] \in Nat
    BY <1>1, <2>2
  <2>5. after[key] > 0
    BY <2>2, <2>4
  <2> HIDE DEF after
  <2>6. \A k \in S : ends[k] > 0 => after[k] > 0
    <3> TAKE k \in S
    <3>1. CASE k = key
      BY <2>5, <3>1
    <3>2. CASE k # key
      BY <2>3, <3>2
    <3> QED BY <3>1, <3>2
  <2>7. \A k \in S : after[k] > 0 => ends[k] > 0 \/ k \in table
    <3> TAKE k \in S
    <3>1. CASE k = key
      BY <1>3, <3>1
    <3>2. CASE k # key
      BY <2>3, <3>2
    <3> QED BY <3>1, <3>2
  <2>8. StampsOnly(S, ends, table, key, after)
    BY <2>3, <2>5, <2>6, <2>7 DEF StampsOnly
  <2> QED BY <2>8 DEF after
<1>4. CASE ~(key \in table /\ ends[key] < MaxStamps)
  <2>1. after = ends
    BY <1>4 DEF Stamped
  <2>2. key \in table => ends[key] > 0
    BY <1>1, <1>2, <1>4
  <2> QED BY <2>1, <2>2 DEF StampsOnly
<1> QED BY <1>3, <1>4

-----------------------------------------------------------------------------
(* Sessions. *)

LEMMA CloseSessionEffect ==
  ASSUME TypeOK, CloseSession, "CloseSession" \notin Fallible
  PROVE  /\ session \in sessions => sessionEnds'[session] > 0
         /\ \A s \in Sessions : sessionEnds[s] > 0 => sessionEnds'[s] > 0
<1>1. sessionEnds' = Stamped(sessionEnds, sessions, session)
  BY DEF CloseSession, Applied, Stamp, Stamped
<1>2. sessionEnds \in [Sessions -> 0 .. MaxStamps] /\ sessions \in SUBSET Sessions
  BY DEF TypeOK
<1>3. StampsOnly(Sessions, sessionEnds, sessions, session, sessionEnds')
  BY <1>1, <1>2, StampEffect
<1> QED BY <1>3 DEF StampsOnly

LEMMA SessionStep ==
  ASSUME {"CreateSession", "CloseSession"} \cap Fallible = {},
         TypeOK, LapCursorRecorded, OneSessionInProgress, [Next]_vars
  PROVE  OneSessionInProgress'
<1> sessions \subseteq Sessions /\ sessionEnds \in [Sessions -> 0 .. MaxStamps]
  BY DEF TypeOK
<1>1. CASE SessionStarted
  <2>1. PICK s \in Sessions \ sessions : sessions' = sessions \cup {s} /\ session' = s
    BY <1>1 DEF SessionStarted, CreateFails, ResetFor
  <2>2. CloseSession /\ abandoned' = abandoned
    BY <1>1 DEF SessionStarted
  <2>3. \A t \in Sessions : sessionEnds'[t] = 0 => ~(sessionEnds[t] > 0)
    BY <2>2, CloseSessionEffect
  <2>4. \A t \in sessions : sessionEnds'[t] = 0 => sessionEnds[t] = 0 /\ t # session
    BY <2>2, <2>3, CloseSessionEffect
  <2> QED BY <2>1, <2>2, <2>4 DEF OneSessionInProgress
<1>2. CASE SessionEnded
  <2>1. CloseSession /\ UNCHANGED <<sessions, abandoned>>
    BY <1>2 DEF SessionEnded
  <2>2. \A t \in sessions : sessionEnds'[t] = 0 => sessionEnds[t] = 0 /\ t # session
    BY <2>1, CloseSessionEffect
  <2> QED BY <2>1, <2>2 DEF OneSessionInProgress
<1>3. CASE \E p \in LapPackets : LapDataNoSession(p)
  <2>1. session = None /\ UNCHANGED <<sessionEnds, abandoned>>
    BY <1>3 DEF LapDataNoSession, AutoCreateSession, sessionVars
  <2>2. \/ UNCHANGED <<sessions, session>>
        \/ \E s \in Sessions : sessions' = sessions \cup {s} /\ session' = s
    BY <1>3 DEF LapDataNoSession, AutoCreateSession, CreateFails, ResetFor, sessionVars, handlerVars
  <2>3. None \notin sessions
    BY ConstantsAssumption
  <2> QED BY <2>1, <2>2, <2>3 DEF OneSessionInProgress
<1>4. CASE Stop
  <2>1. /\ UNCHANGED <<sessions, sessionEnds>> /\ session' = None
        /\ abandoned' = IF session = None THEN abandoned ELSE abandoned \cup {session}
    BY <1>4 DEF Stop, SessionDropped, sessionVars
  <2>2. None \notin sessions
    BY ConstantsAssumption
  <2> QED BY <2>1, <2>2 DEF OneSessionInProgress
<1>5. CASE UNCHANGED <<session, sessions, sessionEnds, abandoned>>
  BY <1>5 DEF OneSessionInProgress
<1>6. \/ SessionStarted \/ SessionEnded \/ Stop
      \/ \E p \in LapPackets : LapDataNoSession(p)
      \/ UNCHANGED <<session, sessions, sessionEnds, abandoned>>
  BY DEF Next, NoMerge, SessionPacket, ParticipantsPacket, FramePacket, LapData, Restart, vars,
         handlerVars, sessionVars
<1> QED BY <1>1, <1>2, <1>3, <1>4, <1>5, <1>6

\* A session in progress is the one being recorded, or its handler stopped
\* while recording it: no SSTA, SEND or mid-join leaves another behind.
THEOREM SessionsAreEnded ==
  ASSUME {"CreateSession", "CloseSession"} \cap Fallible = {}
  PROVE  Spec => []OneSessionInProgress
<1>1. Init => OneSessionInProgress
  BY DEF Init, OneSessionInProgress
<1>2. TypeOK /\ LapCursorRecorded /\ OneSessionInProgress /\ [Next]_vars => OneSessionInProgress'
  BY SessionStep
<1> QED BY <1>1, <1>2, TypeCorrect, CursorCorrect, PTL DEF Spec

-----------------------------------------------------------------------------
(* Laps and sectors.  No statement that opens or closes one fails. *)

NoFailure == {"OpenLap", "CloseLap", "OpenSector", "CloseSector"} \cap Fallible = {}

ForeignKeys ==
  /\ \A l \in laps : l[1] \in sessions
  /\ \A k \in sectors : k[1] \in laps
  /\ \A k \in SectorKeys : sectorEnds[k] > 0 => k \in sectors

\* The laps of the session lead up to the one being driven.
LapHistory ==
  session # None => \A l \in laps : l[1] = session => lap.open /\ l[2] <= lap.num

\* The sectors of the lap lead up to the one being driven.
SectorHistory ==
  lap.open => \A k \in sectors : k[1] = lap.id => k[2] <= lap.sector + 1

LapInv == ForeignKeys /\ LapHistory /\ SectorHistory /\ HandlersLapOnly /\ TrackedSector

LEMMA LapInvInit == Init => LapInv
BY DEF Init, LapInv, ForeignKeys, LapHistory, SectorHistory, HandlersLapOnly, TrackedSector, NoLap

LEMMA CloseSectorEffect ==
  ASSUME TypeOK, CloseSector, NoFailure
  PROVE  LET key == SectorKey(lap.id, lap.sector)
         IN  /\ key \in sectors => sectorEnds'[key] > 0
             /\ \A k \in SectorKeys : /\ k # key => sectorEnds'[k] = sectorEnds[k]
                                      /\ sectorEnds[k] > 0 => sectorEnds'[k] > 0
                                      /\ sectorEnds'[k] > 0 => sectorEnds[k] > 0 \/ k \in sectors
<1>1. sectorEnds' = Stamped(sectorEnds, sectors, SectorKey(lap.id, lap.sector))
  BY DEF CloseSector, Applied, NoFailure, Stamp, Stamped
<1>2. sectorEnds \in [SectorKeys -> 0 .. MaxStamps] /\ sectors \in SUBSET SectorKeys
  BY DEF TypeOK
<1>3. StampsOnly(SectorKeys, sectorEnds, sectors, SectorKey(lap.id, lap.sector), sectorEnds')
  BY <1>1, <1>2, StampEffect
<1> QED BY <1>3 DEF StampsOnly

LEMMA CloseLapEffect ==
  ASSUME TypeOK, CloseLap, NoFailure
  PROVE  /\ lap.id \in laps => lapEnds'[lap.id] > 0
         /\ \A l \in LapKeys : /\ l # lap.id => lapEnds'[l] = lapEnds[l]
                               /\ lapEnds[l] > 0 => lapEnds'[l] > 0
<1>1. lapEnds' = Stamped(lapEnds, laps, lap.id)
  BY DEF CloseLap, Applied, NoFailure, Stamp, Stamped
<1>2. lapEnds \in [LapKeys -> 0 .. MaxStamps] /\ laps \in SUBSET LapKeys
  BY DEF TypeOK
<1>3. StampsOnly(LapKeys, lapEnds, laps, lap.id, lapEnds')
  BY <1>1, <1>2, StampEffect
<1> QED BY <1>3 DEF StampsOnly

\* The first row of a lap and of its first sector.
LEMMA OpenFreshLap ==
  ASSUME TypeOK, NoFailure, ForeignKeys, NEW s \in Sessions, NEW p \in LapPackets,
         NEW pit \in BOOLEAN, NEW onError, OpenLap(s, p, pit, onError),
         <<s, p.lapNum>> \notin laps
  PROVE  LET id == <<s, p.lapNum>>
         IN  /\ laps' = laps \cup {id}
             /\ sectors' = sectors \cup {SectorKey(id, p.sector)}
             /\ lap'.open /\ lap'.id = id /\ lap'.num = p.lapNum /\ lap'.sector = p.sector
             /\ \A k \in sectors' : k[1] = id => k = SectorKey(id, p.sector)
             /\ SectorKey(id, p.sector) \in SectorKeys
             /\ SectorKey(id, p.sector) \notin sectors
<1> DEFINE id == <<s, p.lapNum>>
<1>1. /\ laps' = laps \cup {id}
      /\ lap' = [id |-> id, open |-> TRUE, num |-> p.lapNum, sector |-> p.sector, inPit |-> pit]
      /\ sectors' = sectors \cup {SectorKey(id, p.sector)}
  BY DEF OpenLap, NoFailure, Applied
<1>2. /\ lap'.open /\ lap'.id = id /\ lap'.num = p.lapNum /\ lap'.sector = p.sector
  BY <1>1
<1>3. id \notin laps
  OBVIOUS
<1>4. \A k \in sectors : k[1] # id
  BY <1>3 DEF ForeignKeys
<1>5. SectorKey(id, p.sector)[1] = id /\ SectorKey(id, p.sector) \in SectorKeys
  BY KeyType DEF SectorKey
<1> HIDE DEF id
<1>6. SectorKey(id, p.sector) \notin sectors
  BY <1>4, <1>5
<1> QED BY <1>1, <1>2, <1>4, <1>5, <1>6 DEF id

\* A lap begins, in a session that is new or has ended its laps before.
LEMMA OpenLapKeepsInv ==
  ASSUME TypeOK, NoFailure, LapInv, NEW s \in Sessions, NEW p \in LapPackets,
         NEW pit \in BOOLEAN, NEW onError, OpenLap(s, p, pit, onError),
         session' = s, s \in sessions', sessions \subseteq sessions',
         <<s, p.lapNum>> \notin laps,
         \A l \in laps : l[1] = s => lapEnds'[l] > 0 /\ l[2] <= p.lapNum,
         \A k \in SectorKeys : /\ k \notin sectors => sectorEnds'[k] = sectorEnds[k]
                               /\ sectorEnds'[k] > 0 => sectorEnds[k] > 0 \/ k \in sectors
  PROVE  LapInv'
<1> DEFINE id == <<s, p.lapNum>>
           key == SectorKey(id, p.sector)
<1>1. /\ laps' = laps \cup {id} /\ sectors' = sectors \cup {key}
      /\ lap'.open /\ lap'.id = id /\ lap'.num = p.lapNum /\ lap'.sector = p.sector
      /\ \A k \in sectors' : k[1] = id => k = key
      /\ key \in SectorKeys /\ key \notin sectors
  BY OpenFreshLap DEF LapInv
<1>2. key[1] = id /\ key[2] = p.sector + 1 /\ id[1] = s /\ id[2] = p.lapNum
  BY DEF SectorKey
<1>3. p.lapNum \in Nat /\ p.sector \in Nat
  BY KeyType, ConstantsAssumption
<1>4. ~(sectorEnds[key] > 0) /\ sectorEnds[key] \in 0 .. MaxStamps
  BY <1>1 DEF LapInv, ForeignKeys, TypeOK
<1>5. sectorEnds'[key] = 0
  BY <1>1, <1>4
<1> HIDE DEF id, key
<1>6. ForeignKeys'
  BY <1>1, <1>2 DEF LapInv, ForeignKeys
<1>7. LapHistory' /\ SectorHistory'
  BY <1>1, <1>2, <1>3 DEF LapHistory, SectorHistory
<1>8. HandlersLapOnly'
  BY <1>1 DEF HandlersLapOnly
<1>9. TrackedSector'
  <2>1. OpenSectors(id)' = {key}
    BY <1>1, <1>2, <1>5 DEF OpenSectors
  <2> QED BY <1>1, <2>1 DEF TrackedSector, key
<1> QED BY <1>6, <1>7, <1>8, <1>9 DEF LapInv

LEMMA BoundaryKeepsInv ==
  ASSUME TypeOK, NoFailure, LapCursorRecorded, LapInv, session # None,
         UNCHANGED <<session, sessions>>, NEW p \in LapPackets,
         FirstLap(p) \/ NextLap(p) \/ PitEntry(p) \/ SectorAdvance(p) \/ NoBoundary(p)
  PROVE  LapInv'
<1>1. /\ session \in Sessions /\ session \in sessions /\ p.pit \in BOOLEAN
      /\ p.lapNum \in Nat /\ lap.num \in Nat /\ p.sector \in Nat /\ lap.sector \in Nat
      /\ laps \subseteq LapKeys /\ sectors \subseteq SectorKeys
  <2>1. session \in Sessions /\ session \in sessions
    BY DEF TypeOK, LapCursorRecorded
  <2>2. p.pit \in BOOLEAN /\ p.lapNum \in LapNums /\ p.sector \in 0 .. 2
    BY <2>1, KeyType
  <2>3. LapNums \subseteq Nat
    BY ConstantsAssumption
  <2>4. lap.num \in LapNums \cup {0} /\ lap.sector \in 0 .. 2
    BY DEF TypeOK
  <2>5. laps \subseteq LapKeys /\ sectors \subseteq SectorKeys
    BY DEF TypeOK
  <2>6. p.lapNum \in Nat /\ lap.num \in Nat
    <3>1. 0 \in Nat
      OBVIOUS
    <3> QED BY <2>2, <2>3, <2>4, <3>1, Zenon
  <2>7. p.sector \in Nat /\ lap.sector \in Nat
    BY <2>2, <2>4
  <2> QED BY <2>1, <2>2, <2>5, <2>6, <2>7
<1>2. \A l \in laps : l[1] = session => lap.open /\ l[2] <= lap.num /\ l[2] \in Nat
  BY <1>1, ConstantsAssumption DEF LapInv, LapHistory, LapKeys
<1>3. CASE FirstLap(p)
  <2>1. /\ OpenLap(session, p, p.pit, lap) /\ UNCHANGED <<lapEnds, sectorEnds>>
        /\ \A l \in laps : l[1] # session
    BY <1>2, <1>3 DEF FirstLap
  <2>2. <<session, p.lapNum>> \notin laps
    BY <2>1
  <2> QED BY <1>1, <2>1, <2>2, OpenLapKeepsInv
<1>4. CASE NextLap(p)
  <2>1. /\ OpenLap(session, p, FALSE, lap) /\ CloseLap /\ p.lapNum > lap.num
        /\ CloseSector \/ sectorEnds' = sectorEnds
    BY <1>4 DEF NextLap
  <2>2. <<session, p.lapNum>> \notin laps
    <3> SUFFICES ASSUME <<session, p.lapNum>> \in laps PROVE FALSE
      OBVIOUS
    <3>1. p.lapNum <= lap.num
      BY <1>2
    <3> QED BY <1>1, <2>1, <3>1
  <2>3. \A l \in laps : l[1] = session => lapEnds'[l] > 0 /\ l[2] <= p.lapNum
    <3> SUFFICES ASSUME NEW l \in laps, l[1] = session PROVE lapEnds'[l] > 0 /\ l[2] <= p.lapNum
      OBVIOUS
    <3>1. l[2] <= p.lapNum
      BY <1>1, <1>2, <2>1
    <3>2. CASE l = lap.id
      BY <2>1, <3>1, <3>2, CloseLapEffect
    <3>3. CASE l # lap.id
      <4>1. l \in LapKeys /\ lapEnds[l] # 0 /\ lapEnds[l] \in Nat
        BY <1>1, <3>3 DEF LapInv, HandlersLapOnly, TypeOK
      <4> QED BY <2>1, <3>1, <4>1, CloseLapEffect
    <3> QED BY <3>2, <3>3
  <2>4. \A k \in SectorKeys : /\ k \notin sectors => sectorEnds'[k] = sectorEnds[k]
                              /\ sectorEnds'[k] > 0 => sectorEnds[k] > 0 \/ k \in sectors
    <3>1. CASE sectorEnds' = sectorEnds
      BY <3>1
    <3>2. CASE CloseSector
      <4>1. sectorEnds' = Stamped(sectorEnds, sectors, SectorKey(lap.id, lap.sector))
        BY <3>2 DEF CloseSector, Applied, NoFailure, Stamp, Stamped
      <4>2. sectorEnds \in [SectorKeys -> 0 .. MaxStamps]
        BY DEF TypeOK
      <4>3. ASSUME NEW k \in SectorKeys, k \notin sectors PROVE sectorEnds'[k] = sectorEnds[k]
        BY <4>1, <4>2, <4>3 DEF Stamped
      <4> QED BY <3>2, <4>3, CloseSectorEffect
    <3> QED BY <2>1, <3>1, <3>2
  <2> QED BY <1>1, <2>1, <2>2, <2>3, <2>4, OpenLapKeepsInv
<1>5. CASE PitEntry(p)
  <2>1. /\ UNCHANGED <<laps, lapEnds, sectors>>
        /\ lap' = [lap EXCEPT !.inPit = TRUE]
        /\ IF lap.open THEN CloseSector ELSE UNCHANGED sectorEnds
    BY <1>5 DEF PitEntry
  <2>2. /\ lap'.open = lap.open /\ lap'.id = lap.id /\ lap'.num = lap.num
        /\ lap'.sector = lap.sector /\ lap'.inPit
    BY <2>1 DEF TypeOK
  <2>3. ForeignKeys'
    BY <1>1, <2>1, CloseSectorEffect DEF LapInv, ForeignKeys
  <2>4. LapHistory' /\ SectorHistory' /\ HandlersLapOnly'
    BY <2>1, <2>2 DEF LapInv, LapHistory, SectorHistory, HandlersLapOnly
  <2>5. TrackedSector'
    <3>1. ASSUME lap.open PROVE OpenSectors(lap.id)' \subseteq {SectorKey(lap.id, lap.sector)}
      <4>1. \A k \in SectorKeys : sectorEnds[k] > 0 => sectorEnds'[k] > 0
        BY <2>1, <3>1, CloseSectorEffect
      <4>2. \A k \in SectorKeys : sectorEnds[k] \in Nat
        BY DEF TypeOK
      <4>3. OpenSectors(lap.id)' \subseteq OpenSectors(lap.id)
        BY <1>1, <2>1, <2>2, <4>1, <4>2 DEF OpenSectors
      <4> QED BY <3>1, <4>3 DEF LapInv, TrackedSector
    <3> QED BY <2>2, <3>1 DEF TrackedSector, OpenSectors
  <2> QED BY <2>3, <2>4, <2>5 DEF LapInv
<1>6. CASE SectorAdvance(p)
  <2> DEFINE old == SectorKey(lap.id, lap.sector)
             new == SectorKey(lap.id, p.sector)
  <2>1. /\ UNCHANGED <<laps, lapEnds>> /\ CloseSector
        /\ lap' = [lap EXCEPT !.sector = p.sector] /\ p.sector > lap.sector
        /\ sectors' = IF lap.id \in laps THEN sectors \cup {new} ELSE sectors
    BY <1>6 DEF SectorAdvance, Applied, NoFailure
  <2>2. /\ lap'.open = lap.open /\ lap'.id = lap.id /\ lap'.num = lap.num
        /\ lap'.sector = p.sector
    BY <2>1 DEF TypeOK
  <2>3. /\ new[1] = lap.id /\ new[2] = p.sector + 1 /\ old[1] = lap.id /\ old[2] = lap.sector + 1
        /\ lap.id \in laps => new \in SectorKeys
    BY <1>1, KeyType DEF SectorKey
  <2>4. new # old
    BY <1>1, <2>1, <2>3
  <2>5. /\ old \in sectors => sectorEnds'[old] > 0
        /\ \A k \in SectorKeys : /\ k # old => sectorEnds'[k] = sectorEnds[k]
                                 /\ sectorEnds[k] > 0 => sectorEnds'[k] > 0
                                 /\ sectorEnds'[k] > 0 => sectorEnds[k] > 0 \/ k \in sectors
    BY <2>1, CloseSectorEffect
  <2> HIDE DEF old, new
  <2>6. ForeignKeys'
    BY <1>1, <2>1, <2>3, <2>5 DEF LapInv, ForeignKeys
  <2>7. LapHistory' /\ HandlersLapOnly'
    BY <2>1, <2>2 DEF LapInv, LapHistory, HandlersLapOnly
  <2>8. ASSUME lap.open PROVE \A k \in sectors : k[1] = lap.id => k[2] \in Nat /\ k[2] <= lap.sector + 1
    <3>1. \A k \in sectors : k[2] \in Nat
      BY <1>1 DEF SectorKeys
    <3> QED BY <2>8, <3>1 DEF LapInv, SectorHistory
  <2>9. SectorHistory'
    BY <1>1, <2>1, <2>2, <2>3, <2>8 DEF SectorHistory
  <2>10. TrackedSector'
    <3> SUFFICES ASSUME lap.open PROVE OpenSectors(lap.id)' = {new}
      BY <2>2 DEF TrackedSector, new
    <3>1. lap.id \in laps
      BY DEF LapCursorRecorded
    <3>2. new \notin sectors
      BY <1>1, <2>1, <2>3, <2>8
    <3>3. sectorEnds'[new] = 0
      <4>1. sectorEnds[new] \in Nat /\ ~(sectorEnds[new] > 0)
        BY <2>3, <3>1, <3>2 DEF LapInv, ForeignKeys, TypeOK
      <4> QED BY <2>3, <2>4, <2>5, <3>1, <4>1
    <3>4. ASSUME NEW k \in sectors, k[1] = lap.id PROVE sectorEnds'[k] # 0
      <4>1. CASE k = old
        BY <2>5, <4>1
      <4>2. CASE k # old
        <5>1. sectorEnds[k] # 0
          BY <3>4, <4>2 DEF LapInv, TrackedSector, OpenSectors, old
        <5> QED BY <1>1, <2>5, <4>2, <5>1
      <4> QED BY <4>1, <4>2
    <3>5. OpenSectors(lap.id)' = {k \in sectors' : k[1] = lap.id /\ sectorEnds'[k] = 0}
      BY <2>2 DEF OpenSectors
    <3> QED BY <2>1, <2>3, <3>1, <3>3, <3>4, <3>5
  <2> QED BY <2>6, <2>7, <2>9, <2>10 DEF LapInv
<1>7. CASE NoBoundary(p)
  BY <1>7 DEF NoBoundary, lapVars, LapInv, ForeignKeys, LapHistory, SectorHistory,
              HandlersLapOnly, TrackedSector, OpenSectors
<1> QED BY <1>3, <1>4, <1>5, <1>6, <1>7

\* A session begins: no lap or sector of it is there yet.
LEMMA FreshSessionKeepsInv ==
  ASSUME TypeOK, LapInv, NEW s \in Sessions \ sessions, session' = s,
         sessions' = sessions \cup {s}, lap' = NoLap,
         UNCHANGED <<laps, lapEnds, sectors, sectorEnds>>
  PROVE  LapInv'
<1>1. \A l \in laps : l[1] # s
  BY DEF LapInv, ForeignKeys
<1>2. ~lap'.open
  BY DEF NoLap
<1> QED BY <1>1, <1>2
        DEF LapInv, ForeignKeys, LapHistory, SectorHistory, HandlersLapOnly, TrackedSector

\* The handler lets the session go.
LEMMA DroppedSessionKeepsInv ==
  ASSUME TypeOK, LapInv, session' = None, lap' = NoLap, UNCHANGED <<sessions, laps, sectors>>,
         \A k \in SectorKeys : sectorEnds'[k] > 0 => sectorEnds[k] > 0 \/ k \in sectors
  PROVE  LapInv'
<1>1. \A l \in laps : l[1] # None
  BY ConstantsAssumption DEF TypeOK, LapKeys
<1>2. ~lap'.open
  BY DEF NoLap
<1> QED BY <1>1, <1>2
        DEF LapInv, ForeignKeys, LapHistory, SectorHistory, HandlersLapOnly, TrackedSector

\* Steps that leave the laps alone.
LEMMA SameLapsKeepInv ==
  ASSUME LapInv, sessions \subseteq sessions',
         UNCHANGED <<session, lap, laps, lapEnds, sectors, sectorEnds>>
  PROVE  LapInv'
BY DEF LapInv, ForeignKeys, LapHistory, SectorHistory, HandlersLapOnly, TrackedSector, OpenSectors

LEMMA LapInvStep ==
  ASSUME NoFailure, TypeOK, LapCursorRecorded, LapInv, [Next]_vars
  PROVE  LapInv'
<1>1. CASE SessionStarted
  <2>1. PICK s \in Sessions \ sessions :
          \/ CreateFails(s)
          \/ sessions' = sessions \cup {s} /\ ResetFor(s) /\ lap' = NoLap
    BY <1>1 DEF SessionStarted
  <2>2. UNCHANGED <<laps, lapEnds, sectors, sectorEnds>>
    BY <1>1 DEF SessionStarted
  <2>3. CASE CreateFails(s)
    BY <2>2, <2>3, SameLapsKeepInv DEF CreateFails, handlerVars
  <2>4. CASE sessions' = sessions \cup {s} /\ ResetFor(s) /\ lap' = NoLap
    BY <2>2, <2>4, FreshSessionKeepsInv DEF ResetFor
  <2> QED BY <2>1, <2>3, <2>4
<1>2. CASE SessionEnded
  <2>1. /\ session' = None /\ lap' = NoLap /\ UNCHANGED <<sessions, laps, sectors>>
        /\ CloseSector \/ sectorEnds' = sectorEnds
    BY <1>2 DEF SessionEnded, SessionDropped
  <2>2. \A k \in SectorKeys : sectorEnds'[k] > 0 => sectorEnds[k] > 0 \/ k \in sectors
    BY <2>1, CloseSectorEffect
  <2> QED BY <2>1, <2>2, DroppedSessionKeepsInv
<1>3. CASE Stop
  BY <1>3, DroppedSessionKeepsInv DEF Stop, SessionDropped, sessionVars
<1>4. ASSUME NEW p \in LapPackets, LapDataNoSession(p) PROVE LapInv'
  <2>1. CASE AutoCreateSession(p)
    <3>1. PICK s \in Sessions \ sessions :
            \/ CreateFails(s) /\ UNCHANGED <<laps, sectors>>
            \/ /\ sessions' = sessions \cup {s} /\ ResetFor(s)
               /\ OpenLap(s, p, p.pit, NoLap)
      BY <2>1 DEF AutoCreateSession
    <3>2. UNCHANGED <<lapEnds, sectorEnds>>
      BY <2>1 DEF AutoCreateSession
    <3>3. CASE CreateFails(s) /\ UNCHANGED <<laps, sectors>>
      BY <3>2, <3>3, SameLapsKeepInv DEF CreateFails, handlerVars
    <3>4. CASE sessions' = sessions \cup {s} /\ ResetFor(s) /\ OpenLap(s, p, p.pit, NoLap)
      <4>1. session' = s /\ p.pit \in BOOLEAN
        BY <3>4, KeyType DEF ResetFor
      <4>2. \A l \in laps : l[1] # s
        BY DEF LapInv, ForeignKeys
      <4>3. <<s, p.lapNum>> \notin laps
        BY <4>2
      <4> QED BY <3>2, <3>4, <4>1, <4>2, <4>3, OpenLapKeepsInv
    <3> QED BY <3>1, <3>3, <3>4
  <2>2. CASE UNCHANGED <<handlerVars, sessionVars, laps, lapEnds, sectors, sectorEnds, lapTimes, rows>>
    BY <2>2, SameLapsKeepInv DEF handlerVars, sessionVars
  <2> QED BY <1>4, <2>1, <2>2 DEF LapDataNoSession
<1>5. ASSUME NEW p \in LapPackets, NEW f \in FrameIDs, LapData(p, f) PROVE LapInv'
  BY <1>5, BoundaryKeepsInv DEF LapData, sessionVars
<1>6. CASE UNCHANGED <<session, lap, laps, lapEnds, sectors, sectorEnds, sessions>>
  BY <1>6, SameLapsKeepInv
<1>7. \/ SessionStarted \/ SessionEnded \/ Stop
      \/ \E p \in LapPackets : LapDataNoSession(p)
      \/ \E p \in LapPackets, f \in FrameIDs : LapData(p, f)
      \/ UNCHANGED <<session, lap, laps, lapEnds, sectors, sectorEnds, sessions>>
  BY DEF Next, NoMerge, SessionPacket, ParticipantsPacket, FramePacket, Restart, vars, handlerVars,
         sessionVars, lapVars
<1> QED BY <1>1, <1>2, <1>3, <1>4, <1>5, <1>6, <1>7

LEMMA LapInvAlways ==
  ASSUME NoFailure
  PROVE  Spec => []LapInv
<1>1. TypeOK /\ LapCursorRecorded /\ LapInv /\ [Next]_vars => LapInv'
  BY LapInvStep
<1> QED BY <1>1, LapInvInit, TypeCorrect, CursorCorrect, PTL DEF Spec

\* A lap row that a step adds is of the session it leaves being recorded, and
\* no step takes ended_at away.
LEMMA LapRowsGrow ==
  ASSUME NoFailure, TypeOK, [Next]_vars
  PROVE  /\ \A l \in laps' : l \in laps \/ l[1] = session'
         /\ \A l \in LapKeys : lapEnds[l] > 0 => lapEnds'[l] > 0
<1>1. \A s, p, pit, onError : OpenLap(s, p, pit, onError) => laps' \subseteq laps \cup {<<s, p.lapNum>>}
  BY DEF OpenLap
<1>2. \A l \in LapKeys : CloseLap => (lapEnds[l] > 0 => lapEnds'[l] > 0)
  BY CloseLapEffect
<1>3. CASE SessionStarted
  BY <1>3 DEF SessionStarted
<1>4. CASE SessionEnded
  BY <1>2, <1>4 DEF SessionEnded
<1>5. ASSUME NEW p \in LapPackets, LapDataNoSession(p)
      PROVE  (\A l \in laps' : l \in laps \/ l[1] = session') /\ lapEnds' = lapEnds
  <2>1. CASE AutoCreateSession(p)
    <3>1. PICK s \in Sessions \ sessions :
            \/ CreateFails(s) /\ UNCHANGED <<laps, sectors>>
            \/ ResetFor(s) /\ OpenLap(s, p, p.pit, NoLap)
      BY <2>1 DEF AutoCreateSession
    <3>2. lapEnds' = lapEnds
      BY <2>1 DEF AutoCreateSession
    <3>3. CASE ResetFor(s) /\ OpenLap(s, p, p.pit, NoLap)
      BY <1>1, <3>2, <3>3 DEF ResetFor
    <3> QED BY <3>1, <3>2, <3>3
  <2> QED BY <1>5, <2>1 DEF LapDataNoSession
<1>6. ASSUME NEW p \in LapPackets, NEW f \in FrameIDs, LapData(p, f)
      PROVE  /\ \A l \in laps' : l \in laps \/ l[1] = session'
             /\ \A l \in LapKeys : lapEnds[l] > 0 => lapEnds'[l] > 0
  <2>1. session' = session
    BY <1>6 DEF LapData
  <2>2. CASE FirstLap(p)
    BY <1>1, <2>1, <2>2 DEF FirstLap
  <2>3. CASE NextLap(p)
    <3>1. CloseLap /\ OpenLap(session, p, FALSE, lap)
      BY <2>3 DEF NextLap
    <3>2. laps' \subseteq laps \cup {<<session, p.lapNum>>}
      BY <1>1, <3>1
    <3> QED BY <1>2, <2>1, <3>1, <3>2
  <2>4. CASE PitEntry(p) \/ SectorAdvance(p) \/ NoBoundary(p)
    BY <2>4 DEF PitEntry, SectorAdvance, NoBoundary, lapVars
  <2> QED BY <1>6, <2>2, <2>3, <2>4 DEF LapData
<1>7. \/ SessionStarted \/ SessionEnded
      \/ \E p \in LapPackets : LapDataNoSession(p)
      \/ \E p \in LapPackets, f \in FrameIDs : LapData(p, f)
      \/ UNCHANGED <<laps, lapEnds>>
  BY DEF Next, NoMerge, SessionPacket, ParticipantsPacket, FramePacket, Stop, Restart, vars, lapVars
<1> QED BY <1>3, <1>4, <1>5, <1>6, <1>7

\* The laps of a session do not overlap, whether it is the one being recorded
\* or one that an SSTA or a stop left with a lap in progress.
THEOREM LapsDoNotOverlap ==
  ASSUME NoFailure
  PROVE  Spec => []OneLapInProgress
<1>1. Init => OneLapInProgress
  BY DEF Init, OneLapInProgress, HandlersLapOnly
<1>2. TypeOK /\ TypeOK' /\ LapInv' /\ OneLapInProgress /\ [Next]_vars => OneLapInProgress'
  <2> SUFFICES ASSUME TypeOK, TypeOK', LapInv', OneLapInProgress, [Next]_vars
               PROVE  OneLapInProgress'
    OBVIOUS
  <2>1. HandlersLapOnly'
    BY DEF LapInv
  <2>2. ASSUME NEW l \in laps', NEW m \in laps', l[1] = m[1], lapEnds'[l] = 0, lapEnds'[m] = 0
        PROVE  l = m
    <3>1. CASE l[1] = session'
      BY <2>1, <2>2, <3>1 DEF HandlersLapOnly
    <3>2. CASE l[1] # session'
      <4>1. l \in laps /\ m \in laps
        BY <2>2, <3>2, LapRowsGrow
      <4>2. /\ l \in LapKeys /\ lapEnds[l] \in Nat /\ m \in LapKeys /\ lapEnds[m] \in Nat
        BY <4>1 DEF TypeOK
      <4>3. ~(lapEnds[l] > 0) /\ ~(lapEnds[m] > 0)
        BY <2>2, <4>2, LapRowsGrow
      <4> QED BY <2>2, <4>1, <4>2, <4>3 DEF OneLapInProgress
    <3> QED BY <3>1, <3>2
  <2> QED BY <2>1, <2>2 DEF OneLapInProgress
<1> QED BY <1>1, <1>2, LapInvAlways, TypeCorrect, PTL DEF Spec

\* The sectors of a lap do not overlap, and leave no gap until the pit lane.
THEOREM SectorsDoNotOverlap ==
  ASSUME NoFailure
  PROVE  Spec => []TrackedSector
<1>1. LapInv => TrackedSector
  BY DEF LapInv
<1> QED BY <1>1, LapInvAlways, PTL

LEMMA EndStep ==
  ASSUME NoFailure, TypeOK, LapInv, [Next]_vars, running', session # None, session' = None,
         NEW l \in laps', l[1] = session
  PROVE  lapEnds'[l] > 0
<1>1. None \notin Sessions
  BY ConstantsAssumption
<1>2. SessionEnded
  <2>1. ~SessionStarted
    BY <1>1 DEF SessionStarted, CreateFails, ResetFor, handlerVars
  <2>2. ~Stop
    BY DEF Stop
  <2> QED BY <2>1, <2>2
          DEF Next, NoMerge, SessionPacket, ParticipantsPacket, FramePacket, LapData, LapDataNoSession,
              Restart, vars, handlerVars
<1>3. laps' = laps /\ IF lap.open THEN CloseLap ELSE UNCHANGED lapEnds
  BY <1>2 DEF SessionEnded
<1>4. l \in LapKeys /\ lapEnds[l] \in Nat
  BY <1>3 DEF TypeOK
<1>5. CASE lapEnds[l] = 0
  <2>1. lap.open /\ l = lap.id
    BY <1>3, <1>5 DEF LapInv, HandlersLapOnly
  <2> QED BY <1>3, <2>1, CloseLapEffect
<1>6. CASE lapEnds[l] > 0
  BY <1>3, <1>4, <1>6, CloseLapEffect
<1> QED BY <1>4, <1>5, <1>6

\* SEND and CHQF leave no lap of their session in progress.  A sector that was
\* opened in the pit lane may stay so.
THEOREM EndClosesEveryLap ==
  ASSUME NoFailure
  PROVE  Spec => EndClosesLaps
<1>1. TypeOK /\ LapInv /\ [Next]_vars
      => [ running' /\ session # None /\ session' = None =>
             \A l \in laps' : l[1] = session => lapEnds'[l] > 0 ]_vars
  BY EndStep
<1> QED BY <1>1, LapInvAlways, TypeCorrect, PTL DEF Spec, EndClosesLaps
=============================================================================
