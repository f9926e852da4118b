-------------------------- MODULE RecordedRaceProofs --------------------------
(* Theorems about RecordedRace, for every value of its constants. *)
EXTENDS RecordedRace, SourceHandlerProofs

-----------------------------------------------------------------------------
(* The game and its packets. *)

HasLap(q) == \E i \in 1 .. Len(q) : q[i] = "Lap"

Distinct(q) == \A i, j \in 1 .. Len(q) : q[i] = q[j] => i = j

\* The lap data of the player: driven on track, by an active car.
DrivenPacket == [lapNum : Nat \ {0}, time : Nat, sector : 0 .. 2, pit : {FALSE},
                 invalid : BOOLEAN, active : {TRUE}]

GameInv ==
  /\ phase \in {"menu", "race", "over"}
  /\ races \in Nat /\ (phase # "menu" => races > 0)
  /\ frame \in 0 .. MaxFrame
  /\ data \in DrivenPacket /\ (frame > 0 => data \in LapPackets)
  /\ pending \in Seq(Kinds \cup {"Lap"}) /\ Distinct(pending)
  /\ pending # <<>> => frame > 0 /\ phase # "menu"
  /\ truth \in [LapKeys -> LapPackets \cup {None}]

\* Delivering the head of a frame's packets: lap data comes once.
LEMMA TailOfFrame ==
  ASSUME NEW S, NEW q \in Seq(S), q # <<>>, Distinct(q)
  PROVE  /\ Tail(q) \in Seq(S) /\ Distinct(Tail(q)) /\ Head(q) \in S
         /\ HasLap(Tail(q)) => HasLap(q)
         /\ Head(q) = "Lap" => ~HasLap(Tail(q))
         /\ Head(q) # "Lap" /\ HasLap(q) => HasLap(Tail(q))
<1>1. /\ Len(q) \in Nat /\ Len(q) > 0 /\ Head(q) = q[1] /\ Tail(q) \in Seq(S) /\ Head(q) \in S
      /\ Len(Tail(q)) = Len(q) - 1
      /\ \A i \in 1 .. Len(Tail(q)) : Tail(q)[i] = q[i + 1]
  OBVIOUS
<1>2. \A i \in 1 .. Len(Tail(q)) : i + 1 \in 1 .. Len(q) /\ i + 1 # 1
  BY <1>1
<1>3. Distinct(Tail(q))
  <2> SUFFICES ASSUME NEW i \in 1 .. Len(Tail(q)), NEW j \in 1 .. Len(Tail(q)),
                      Tail(q)[i] = Tail(q)[j]
               PROVE  i = j
    BY DEF Distinct
  <2>1. i + 1 = j + 1
    BY <1>1, <1>2 DEF Distinct
  <2> QED BY <2>1
<1>4. HasLap(Tail(q)) => HasLap(q)
  BY <1>1, <1>2 DEF HasLap
<1>5. ASSUME Head(q) = "Lap", HasLap(Tail(q)) PROVE FALSE
  <2>1. PICK i \in 1 .. Len(Tail(q)) : Tail(q)[i] = "Lap"
    BY <1>5 DEF HasLap
  <2>2. q[i + 1] = q[1] /\ 1 \in 1 .. Len(q)
    BY <1>1, <1>5, <2>1
  <2> QED BY <1>2, <2>2 DEF Distinct
<1>6. ASSUME Head(q) # "Lap", HasLap(q) PROVE HasLap(Tail(q))
  <2>1. PICK i \in 1 .. Len(q) : q[i] = "Lap"
    BY <1>6 DEF HasLap
  <2>2. i - 1 \in 1 .. Len(Tail(q)) /\ Tail(q)[i - 1] = "Lap"
    <3>1. i # 1
      BY <1>1, <1>6, <2>1
    <3>2. i - 1 \in 1 .. Len(Tail(q)) /\ (i - 1) + 1 = i
      BY <1>1, <3>1
    <3> QED BY <1>1, <2>1, <3>2
  <2> QED BY <2>2 DEF HasLap
<1> QED BY <1>1, <1>3, <1>4, <1>5, <1>6

LEMMA NoPacket == ~HasLap(<<>>) /\ Distinct(<<>>) /\ \A S : <<>> \in Seq(S)
<1>1. Len(<<>>) = 0
  OBVIOUS
<1> QED BY <1>1 DEF HasLap, Distinct

LEMMA FullFrame == PerFrame \in Seq(Kinds \cup {"Lap"}) /\ Distinct(PerFrame) /\ HasLap(PerFrame)
BY RaceAssumption DEF Distinct, HasLap

\* How the lap data of the next frame follows from this one's.
LEMMA NextData ==
  ASSUME data \in DrivenPacket, NEW d \in {data} \cup Driven
  PROVE  /\ d \in DrivenPacket
         /\ \/ d.lapNum = data.lapNum + 1
            \/ d.lapNum = data.lapNum /\ data.time <= d.time /\ data.sector <= d.sector
<1>0. /\ data.lapNum \in Nat /\ data.lapNum # 0 /\ data.time \in Nat /\ data.sector \in 0 .. 2
      /\ data.invalid \in BOOLEAN
  BY DEF DrivenPacket
<1>1. CASE d = data
  <2>1. d \in DrivenPacket
    BY <1>1
  <2> QED BY <1>0, <1>1, <2>1
<1>2. ASSUME NEW s \in {data.sector, data.sector + 1} \cap (0 .. 2), NEW i \in {data.invalid, TRUE},
             d = [data EXCEPT !.time = @ + 1, !.sector = s, !.invalid = i]
      PROVE  d \in DrivenPacket /\ d.lapNum = data.lapNum
             /\ data.time <= d.time /\ data.sector <= d.sector
  BY <1>2 DEF DrivenPacket
<1>3. CASE d = [FirstData EXCEPT !.lapNum = data.lapNum + 1]
  <2>1. d = [lapNum |-> data.lapNum + 1, time |-> 0, sector |-> 0, pit |-> FALSE,
             invalid |-> FALSE, active |-> TRUE]
    BY <1>3 DEF FirstData
  <2>2. data.lapNum + 1 \in Nat \ {0}
    BY <1>0
  <2>3. d \in DrivenPacket
    BY <2>1, <2>2 DEF DrivenPacket
  <2> QED BY <2>1, <2>3
<1> QED BY <1>1, <1>2, <1>3 DEF Driven

LEMMA GameInit == RaceInit => GameInv
<1> SUFFICES ASSUME RaceInit PROVE GameInv
  OBVIOUS
<1>1. FirstData \in DrivenPacket
  BY DEF FirstData, DrivenPacket
<1>2. MaxFrame \in Nat
  BY RaceAssumption
<1> QED BY <1>1, <1>2, NoPacket DEF RaceInit, GameInv

LEMMA GameStep ==
  ASSUME TypeOK, GameInv, [RaceNext]_raceVars
  PROVE  GameInv'
<1> USE DEF GameInv
<1>1. CASE RaceStarts
  <2>1. FirstData \in DrivenPacket /\ MaxFrame \in Nat
    BY RaceAssumption DEF FirstData, DrivenPacket
  <2> QED BY <1>1, <2>1, NoPacket DEF RaceStarts
<1>2. CASE RaceEnds
  BY <1>2 DEF RaceEnds
<1>3. CASE NextFrame
  <2>1. /\ frame' \in 0 .. MaxFrame /\ frame' > 0
        /\ data' \in {data} \cup Driven /\ data' \in LapPackets
    BY <1>3, RaceAssumption DEF NextFrame
  <2>2. data' \in DrivenPacket
    BY <2>1, NextData
  <2>3. truth' \in [LapKeys -> LapPackets \cup {None}]
    BY <1>3, <2>1 DEF NextFrame
  <2> QED BY <1>3, <2>1, <2>2, <2>3, FullFrame DEF NextFrame
<1>4. CASE Deliver \/ Lose
  <2>1. /\ pending # <<>> /\ pending' = Tail(pending)
        /\ UNCHANGED <<phase, races, frame, data, truth>>
    BY <1>4 DEF Deliver, DeliverLap, DeliverKind, Lose, gameVars
  <2> QED BY <2>1, TailOfFrame
<1>5. CASE Details \/ UNCHANGED raceVars
  BY <1>5 DEF Details, raceVars, gameVars
<1> QED BY <1>1, <1>2, <1>3, <1>4, <1>5 DEF RaceNext

-----------------------------------------------------------------------------
(* A race is a run of the handler. *)

LEMMA StepIsRecording ==
  ASSUME GameInv, [RaceNext]_raceVars
  PROVE  [Next]_vars
<1>1. CASE RaceStarts
  BY <1>1 DEF RaceStarts, Event, Next, NoMerge
<1>2. CASE RaceEnds
  BY <1>2 DEF RaceEnds, Event, Next, NoMerge
<1>3. CASE NextFrame
  BY <1>3 DEF NextFrame
<1>4. CASE Deliver
  <2>1. /\ pending # <<>> /\ data \in LapPackets /\ frame \in FrameIDs
        /\ Head(pending) \in Kinds \cup {"Lap"}
    BY <1>4, TailOfFrame, RaceAssumption DEF Deliver, DeliverLap, DeliverKind, GameInv
  <2>2. CASE DeliverLap
    BY <2>1, <2>2 DEF DeliverLap, Next, NoMerge
  <2>3. CASE DeliverKind
    BY <2>1, <2>3 DEF DeliverKind, Next, NoMerge
  <2> QED BY <1>4, <2>2, <2>3 DEF Deliver
<1>5. CASE Lose
  BY <1>5 DEF Lose
<1>6. CASE Details
  BY <1>6 DEF Details, Next, NoMerge
<1>7. CASE UNCHANGED raceVars
  BY <1>7 DEF raceVars
<1> QED BY <1>1, <1>2, <1>3, <1>4, <1>5, <1>6, <1>7 DEF RaceNext

HandlerInv == TypeOK /\ LapCursorRecorded /\ FrameInv /\ RowIsOneFrame

LEMMA HandlerInit == RaceInit => HandlerInv
BY TypeInit, CursorInit, RowInit DEF RaceInit, HandlerInv

LEMMA HandlerStep ==
  ASSUME HandlerInv, GameInv, [RaceNext]_raceVars
  PROVE  HandlerInv'
<1>1. [Next]_vars
  BY StepIsRecording
<1> QED BY <1>1, TypeStep, CursorStep, RowStep DEF HandlerInv

LEMMA HandlerAlways == RaceSpec => [](HandlerInv /\ GameInv)
<1>1. HandlerInv /\ GameInv /\ [RaceNext]_raceVars => (HandlerInv /\ GameInv)'
  BY HandlerStep, GameStep DEF HandlerInv
<1> QED BY <1>1, HandlerInit, GameInit, PTL DEF RaceSpec

\* Whatever the game drives and the network loses, a race is one of the runs
\* of SourceHandler: all that is proved of every packet order holds in it.
THEOREM RaceIsRecording == RaceSpec => Spec
<1>1. RaceInit => Init
  BY DEF RaceInit
<1>2. GameInv /\ [RaceNext]_raceVars => [Next]_vars
  BY StepIsRecording
<1> QED BY <1>1, <1>2, HandlerAlways, PTL DEF RaceSpec, Spec

-----------------------------------------------------------------------------
(* Races are recorded apart.  A session outlives its race only when its SEND *)
(* is lost; the next race would then be recorded into it, and its laps would *)
(* have the numbers of laps that are already there.                          *)

Separate == ~EventLoss \/ MaxRaces <= 1

FreshStart == phase = "menu" /\ races < MaxRaces => session = None

LEMMA FreshInit == RaceInit => FreshStart
BY DEF RaceInit, Init, FreshStart

LEMMA FreshStep ==
  ASSUME Separate, GameInv, FreshStart, [RaceNext]_raceVars
  PROVE  FreshStart'
<1> races \in Nat /\ MaxRaces \in Nat
  BY RaceAssumption DEF GameInv
<1>1. CASE RaceStarts
  BY <1>1 DEF RaceStarts, FreshStart
<1>2. CASE RaceEnds
  <2>1. CASE EventLoss
    BY <1>2, <2>1 DEF RaceEnds, Separate, GameInv, FreshStart
  <2>2. CASE ~EventLoss
    BY <1>2, <2>2 DEF RaceEnds, Event, SessionEnded, SessionDropped, vars, FreshStart
  <2> QED BY <2>1, <2>2
<1>3. CASE NextFrame
  BY <1>3 DEF NextFrame, FreshStart
<1>4. CASE Deliver \/ Lose
  <2>1. phase # "menu" /\ phase' = phase
    BY <1>4 DEF Deliver, DeliverLap, DeliverKind, Lose, gameVars, GameInv
  <2> QED BY <2>1 DEF FreshStart
<1>5. CASE Details
  BY <1>5 DEF Details, SessionPacket, ParticipantsPacket, handlerVars, gameVars, FreshStart
<1>6. CASE UNCHANGED raceVars
  BY <1>6 DEF raceVars, vars, gameVars, FreshStart
<1> QED BY <1>1, <1>2, <1>3, <1>4, <1>5, <1>6 DEF RaceNext

-----------------------------------------------------------------------------
(* The steps of a race, by what they do to the recording. *)

\* SSTA and a mid-join begin a session that has no row yet, or none at all.
SessionBegins ==
  /\ session = None /\ sessions \subseteq sessions'
  /\ \/ session' = None
     \/ session' \in (Sessions \ sessions) \cap sessions' /\ car' = NoCar /\ curFrameID' = 0
  /\ \/ laps' = laps /\ (session' = None \/ lap' = NoLap)
     \/ data' = data /\ data \in LapPackets /\ OpenLap(session', data, FALSE, NoLap)
  /\ UNCHANGED <<lapTimes, rows, truth>>
  /\ ~HasLap(pending')
  /\ lossy => lossy'

\* SEND and CHQF let the session go, after the last frame.
SessionEnds ==
  /\ session' = None /\ sessions' = sessions
  /\ rows' \in Finalized
  /\ UNCHANGED <<laps, lapTimes, truth, lossy>>

\* A packet that is not lap data reaches the handler, or any packet is lost;
\* a detail of the session touches nothing of this.
NoLapData ==
  /\ UNCHANGED <<session, sessions, lap, laps, car, lapTimes, frame, data, truth>>
  /\ HasLap(pending') => HasLap(pending)
  /\ \/ lossy'
     \/ lossy' = lossy /\ (HasLap(pending) => HasLap(pending'))
  /\ \/ UNCHANGED <<curFrameID, curFrame, rows>>
     \/ frame > 0 /\ session # None /\ \E k \in Kinds : AssembleFrame(k, frame, FALSE)

\* The lap data of the frame reaches the handler.
LapDataArrives ==
  /\ session # None /\ frame > 0 /\ data \in LapPackets
  /\ HasLap(pending) /\ ~HasLap(pending')
  /\ UNCHANGED <<session, sessions, frame, data, truth, lossy>>
  /\ AssembleFrame("Lap", frame, TRUE)
  /\ car' = [lapNum |-> data.lapNum, time |-> data.time, invalid |-> data.invalid,
             sector |-> data.sector]
  /\ \/ FirstLap(data) \/ NextLap(data) \/ PitEntry(data) \/ SectorAdvance(data)
     \/ NoBoundary(data)
  /\ \/ lapTimes' = lapTimes /\ (LapFinished(data) => "RecordLapTime" \in Fallible)
     \/ /\ LapFinished(data)
        /\ lapTimes' = [lapTimes EXCEPT ![<<session, car.lapNum>>] = FinishedTime]

LEMMA RaceSteps ==
  ASSUME HandlerInv, GameInv, FreshStart, [RaceNext]_raceVars
  PROVE  SessionBegins \/ SessionEnds \/ NoLapData \/ LapDataArrives \/ NextFrame
<1>1. CASE RaceStarts
  <2>1. /\ session = None /\ ~HasLap(pending') /\ truth' = truth
        /\ \/ SessionStarted /\ lossy' = lossy
           \/ lossy' /\ UNCHANGED vars
    BY <1>1, NoPacket DEF RaceStarts, Event, FreshStart
  <2>2. CASE SessionStarted /\ lossy' = lossy
    <3>1. UNCHANGED <<laps, lapTimes, rows>>
      BY <2>2 DEF SessionStarted
    <3>2. PICK s \in Sessions \ sessions :
            \/ CreateFails(s)
            \/ sessions' = sessions \cup {s} /\ ResetFor(s) /\ lap' = NoLap
      BY <2>2 DEF SessionStarted
    <3>3. CASE CreateFails(s)
      BY <2>1, <2>2, <3>1, <3>3 DEF CreateFails, handlerVars, SessionBegins
    <3>4. CASE sessions' = sessions \cup {s} /\ ResetFor(s) /\ lap' = NoLap
      BY <2>1, <2>2, <3>1, <3>4 DEF ResetFor, SessionBegins
    <3> QED BY <3>2, <3>3, <3>4
  <2>3. CASE lossy' /\ UNCHANGED vars
    BY <2>1, <2>3 DEF vars, SessionBegins
  <2> QED BY <2>1, <2>2, <2>3
<1>2. CASE RaceEnds
  <2>1. CASE SessionEnded /\ UNCHANGED lossy
    BY <1>2, <2>1 DEF RaceEnds, SessionEnded, SessionDropped, FinalizeFrame, SessionEnds
  <2>2. CASE UNCHANGED vars /\ (lossy' \/ lossy' = lossy)
    BY <1>2, <2>2 DEF RaceEnds, vars, NoLapData
  <2> QED BY <1>2, <2>1, <2>2 DEF RaceEnds, Event
<1>3. CASE Deliver
  <2>1. /\ pending # <<>> /\ pending' = Tail(pending) /\ frame > 0 /\ data \in LapPackets
        /\ data.active = TRUE /\ data.pit = FALSE
        /\ UNCHANGED <<frame, data, truth, lossy>>
    BY <1>3 DEF Deliver, DeliverLap, DeliverKind, gameVars, GameInv, DrivenPacket
  <2>2. CASE DeliverLap
    <3>1. ~HasLap(pending') /\ HasLap(pending)
      <4>1. Head(pending) = pending[1] /\ 1 \in 1 .. Len(pending)
        BY <2>1 DEF GameInv
      <4> QED BY <2>1, <2>2, <4>1, TailOfFrame DEF DeliverLap, HasLap, GameInv
    <3>2. CASE LapData(data, frame)
      <4>1. /\ session # None /\ AssembleFrame("Lap", frame, TRUE)
            /\ RecordLapTimes(data) /\ UNCHANGED <<session, sessions>>
            /\ \/ FirstLap(data) \/ NextLap(data) \/ PitEntry(data) \/ SectorAdvance(data)
               \/ NoBoundary(data)
        BY <2>1, <3>2 DEF LapData, sessionVars
      <4>2. /\ car' = [lapNum |-> data.lapNum, time |-> data.time, invalid |-> data.invalid,
                       sector |-> data.sector]
            /\ \/ lapTimes' = lapTimes /\ (LapFinished(data) => "RecordLapTime" \in Fallible)
               \/ /\ LapFinished(data)
                  /\ lapTimes' = [lapTimes EXCEPT ![<<session, car.lapNum>>] = FinishedTime]
        BY <2>1, <4>1 DEF RecordLapTimes, Applied
      <4> QED BY <2>1, <3>1, <4>1, <4>2 DEF LapDataArrives
    <3>3. CASE LapDataNoSession(data)
      <4>1. session = None
        BY <3>3 DEF LapDataNoSession
      <4>2. CASE AutoCreateSession(data)
        <5>1. UNCHANGED <<lapTimes, rows>>
          BY <4>2 DEF AutoCreateSession
        <5>2. PICK s \in Sessions \ sessions :
                \/ CreateFails(s) /\ UNCHANGED laps
                \/ /\ sessions' = sessions \cup {s} /\ ResetFor(s)
                   /\ OpenLap(s, data, FALSE, NoLap)
          BY <2>1, <4>2 DEF AutoCreateSession
        <5> QED BY <2>1, <3>1, <4>1, <5>1, <5>2
                DEF CreateFails, handlerVars, ResetFor, SessionBegins
      <4>3. CASE UNCHANGED <<handlerVars, sessionVars, laps, lapEnds, sectors, sectorEnds,
                             lapTimes, rows>>
        BY <2>1, <3>1, <4>1, <4>3 DEF handlerVars, sessionVars, SessionBegins
      <4> QED BY <3>3, <4>2, <4>3 DEF LapDataNoSession
    <3> QED BY <2>2, <3>2, <3>3 DEF DeliverLap
  <2>3. CASE DeliverKind
    <3>1. /\ Head(pending) \in Kinds
          /\ HasLap(pending') => HasLap(pending)
          /\ HasLap(pending) => HasLap(pending')
      BY <2>1, <2>3, TailOfFrame DEF DeliverKind, GameInv
    <3>2. CASE FramePacket(Head(pending), frame)
      <4>1. /\ session # None /\ AssembleFrame(Head(pending), frame, FALSE)
            /\ UNCHANGED <<session, sessions, lap, laps, car, lapTimes>>
        BY <3>2 DEF FramePacket, sessionVars, lapVars, timeVars
      <4> QED BY <2>1, <3>1, <4>1 DEF NoLapData
    <3>3. CASE UNCHANGED vars
      BY <2>1, <3>1, <3>3 DEF vars, NoLapData
    <3> QED BY <2>3, <3>2, <3>3 DEF DeliverKind
  <2> QED BY <1>3, <2>2, <2>3 DEF Deliver
<1>4. CASE Lose
  <2>1. HasLap(pending') => HasLap(pending)
    BY <1>4, TailOfFrame DEF Lose, GameInv
  <2> QED BY <1>4, <2>1 DEF Lose, vars, gameVars, NoLapData
<1>5. CASE Details
  <2>1. UNCHANGED <<handlerVars, sessions, laps, lapTimes, rows>>
    BY <1>5 DEF Details, SessionPacket, ParticipantsPacket
  <2> QED BY <1>5, <2>1 DEF Details, handlerVars, gameVars, NoLapData
<1>6. CASE UNCHANGED raceVars
  BY <1>6 DEF raceVars, vars, gameVars, NoLapData
<1> QED BY <1>1, <1>2, <1>3, <1>4, <1>5, <1>6 DEF RaceNext

-----------------------------------------------------------------------------
(* Lap times. *)

\* What the game has shown of the laps of the recorded sessions: of the one
\* being recorded no lap after the game's, and of that lap its latest data.
Shown ==
  /\ \A l \in LapKeys : truth[l] # None => l[1] \in sessions
  /\ session # None =>
       /\ \A n \in LapNums : truth[<<session, n>>] # None =>
            n <= data.lapNum /\ (n = data.lapNum => truth[<<session, n>>] = data)
       /\ HasLap(pending) => truth[<<session, data.lapNum>>] = data

\* The cached lap data is of a lap that was shown, and no later than shown.
Cached ==
  session # None /\ car.lapNum > 0 =>
    /\ truth[<<session, car.lapNum>>] # None
    /\ car.time <= truth[<<session, car.lapNum>>].time
    /\ car.sector <= truth[<<session, car.lapNum>>].sector

\* Of the session being recorded only laps before the cached one have a time.
Recorded ==
  \A l \in LapKeys : lapTimes[l] # None =>
    l[1] \in sessions /\ (l[1] = session => l[2] < car.lapNum)

CarIs(t) == t.time = car.time /\ t.invalid = car.invalid /\ t.sector = car.sector

\* With nothing lost the cached lap data is what was shown last, but for the
\* lap data that is still to be delivered.
InStep ==
  ~lossy /\ session # None =>
    IF car.lapNum = 0
    THEN \A n \in LapNums :
           (HasLap(pending) /\ n = data.lapNum) \/ truth[<<session, n>>] = None
    ELSE \/ car.lapNum = data.lapNum
            /\ (HasLap(pending) \/ CarIs(truth[<<session, car.lapNum>>]))
         \/ /\ HasLap(pending) /\ car.lapNum + 1 = data.lapNum
            /\ CarIs(truth[<<session, car.lapNum>>])

\* The first half of LapTimeIsExact.
TimesAreExact ==
  ~lossy => \A l \in LapKeys : lapTimes[l] # None =>
    /\ lapTimes[l].time = truth[l].time
    /\ lapTimes[l].invalid = (truth[l].invalid \/ truth[l].sector < 2)

\* Every lap before the cached one has its time.
EveryLapTimed ==
  "RecordLapTime" \notin Fallible /\ ~lossy /\ session # None =>
    \A n \in LapNums : n < car.lapNum =>
      \/ lapTimes[<<session, n>>] # None
      \/ truth[<<session, n>>] = None
      \/ truth[<<session, n>>].time = 0

TimeInv == /\ Shown /\ Cached /\ Recorded /\ InStep
           /\ LapTimeWasDriven /\ TimesAreExact /\ EveryLapTimed

LEMMA TimeInit == RaceInit => TimeInv
BY DEF RaceInit, Init, TimeInv, Shown, Cached, Recorded, InStep, LapTimeWasDriven,
       TimesAreExact, EveryLapTimed

\* A lap's key and its parts.
LEMMA KeyParts ==
  /\ \A l \in LapKeys : l[1] \in Sessions /\ l[2] \in LapNums /\ l = <<l[1], l[2]>>
  /\ \A s \in Sessions, n \in LapNums :
       <<s, n>> \in LapKeys /\ <<s, n>>[1] = s /\ <<s, n>>[2] = n
  /\ LapNums \subseteq Nat /\ None \notin Sessions
BY ConstantsAssumption DEF LapKeys

\* The types of what a lap time is made from.
LEMMA CarType ==
  ASSUME HandlerInv, GameInv
  PROVE  /\ session # None => session \in Sessions /\ session \in sessions
         /\ car.lapNum \in Nat /\ car.time \in Nat /\ car.invalid \in BOOLEAN /\ car.sector \in 0 .. 2
         /\ car.lapNum > 0 => car.lapNum \in LapNums
         /\ data.lapNum \in Nat /\ data.lapNum > 0 /\ data.time \in Nat
         /\ data.invalid \in BOOLEAN /\ data.sector \in 0 .. 2
         /\ frame > 0 => data.lapNum \in LapNums
<1>1. car \in [lapNum : LapNums \cup {0}, time : LapTimes \cup {0}, invalid : BOOLEAN, sector : 0 .. 2]
  BY DEF HandlerInv, TypeOK
<1>2. car.lapNum \in LapNums \cup {0} /\ car.time \in LapTimes \cup {0}
  BY <1>1
<1>3. car.invalid \in BOOLEAN /\ car.sector \in 0 .. 2
  BY <1>1
<1>4. LapNums \cup {0} \subseteq Nat /\ LapTimes \cup {0} \subseteq Nat
  BY ConstantsAssumption
<1>5. car.lapNum \in Nat /\ car.time \in Nat
  BY <1>2, <1>4, Zenon
<1>6. session # None => session \in Sessions /\ session \in sessions
  BY DEF HandlerInv, TypeOK, LapCursorRecorded
<1>7. /\ data.lapNum \in Nat /\ data.lapNum > 0 /\ data.time \in Nat
      /\ data.invalid \in BOOLEAN /\ data.sector \in 0 .. 2
  BY DEF GameInv, DrivenPacket
<1>8. frame > 0 => data.lapNum \in LapNums
  BY ConstantsAssumption DEF GameInv, LapPacket
<1>9. car.lapNum > 0 => car.lapNum \in LapNums
  BY <1>2
<1> QED BY <1>3, <1>5, <1>6, <1>7, <1>8, <1>9

LEMMA TruthType ==
  ASSUME GameInv, NEW l \in LapKeys, truth[l] # None
  PROVE  truth[l].time \in Nat /\ truth[l].sector \in 0 .. 2 /\ truth[l].invalid \in BOOLEAN
<1>1. truth[l] \in LapPackets
  BY DEF GameInv
<1> QED BY <1>1, ConstantsAssumption DEF LapPacket

\* The game is never behind the cached lap.
LEMMA CarBehind ==
  ASSUME HandlerInv, GameInv, TimeInv, session # None
  PROVE  car.lapNum <= data.lapNum
<1>1. CASE car.lapNum = 0
  BY <1>1, CarType
<1>2. CASE car.lapNum > 0
  BY <1>2, CarType DEF TimeInv, Cached, Shown
<1> QED BY <1>1, <1>2, CarType

LEMMA TimeBegins ==
  ASSUME HandlerInv, GameInv, TimeInv, SessionBegins
  PROVE  TimeInv'
<1>1. /\ session = None /\ sessions \subseteq sessions' /\ ~HasLap(pending')
      /\ lapTimes' = lapTimes /\ truth' = truth /\ (lossy => lossy')
      /\ session' # None => session' \notin sessions /\ car' = NoCar
  BY DEF SessionBegins
<1>2. /\ \A l \in LapKeys : truth[l] # None => l[1] \in sessions
      /\ \A l \in LapKeys : lapTimes[l] # None => l[1] \in sessions
  BY DEF TimeInv, Shown, Recorded
<1>3. session' # None => \A n \in LapNums : truth[<<session', n>>] = None
  <2> SUFFICES ASSUME session' # None, NEW n \in LapNums, truth[<<session', n>>] # None PROVE FALSE
    OBVIOUS
  <2>1. session' \in Sessions
    BY DEF SessionBegins
  <2> QED BY <1>1, <1>2, <2>1, KeyParts
<1>4. Shown' /\ Cached' /\ Recorded'
  <2>1. Recorded'
    BY <1>1, <1>2, KeyParts DEF Recorded
  <2>2. Cached'
    BY <1>1 DEF Cached, NoCar
  <2>3. Shown'
    BY <1>1, <1>2, <1>3 DEF Shown
  <2> QED BY <2>1, <2>2, <2>3
<1>5. InStep'
  BY <1>1, <1>3 DEF InStep, NoCar
<1>6. LapTimeWasDriven' /\ TimesAreExact'
  BY <1>1 DEF TimeInv, LapTimeWasDriven, TimesAreExact
<1>7. EveryLapTimed'
  BY <1>1, <1>3 DEF EveryLapTimed
<1> QED BY <1>4, <1>5, <1>6, <1>7 DEF TimeInv

LEMMA TimeEnds ==
  ASSUME HandlerInv, GameInv, TimeInv, SessionEnds
  PROVE  TimeInv'
<1>1. session' = None /\ UNCHANGED <<sessions, lapTimes, truth, lossy>>
  BY DEF SessionEnds
<1>2. Shown' /\ Cached' /\ InStep' /\ EveryLapTimed'
  BY <1>1 DEF TimeInv, Shown, Cached, InStep, EveryLapTimed
<1>3. Recorded'
  BY <1>1, KeyParts DEF TimeInv, Recorded
<1> QED BY <1>1, <1>2, <1>3 DEF TimeInv, LapTimeWasDriven, TimesAreExact

LEMMA TimeKept ==
  ASSUME HandlerInv, GameInv, TimeInv, NoLapData
  PROVE  TimeInv'
<1>1. /\ UNCHANGED <<session, sessions, car, lapTimes, frame, data, truth>>
      /\ HasLap(pending') => HasLap(pending)
      /\ lossy' \/ (lossy' = lossy /\ (HasLap(pending) => HasLap(pending')))
  BY DEF NoLapData
<1>2. Shown' /\ Cached' /\ Recorded' /\ LapTimeWasDriven'
  BY <1>1 DEF TimeInv, Shown, Cached, Recorded, LapTimeWasDriven
<1>3. CASE lossy'
  BY <1>2, <1>3 DEF TimeInv, InStep, TimesAreExact, EveryLapTimed
<1>4. CASE lossy' = lossy /\ HasLap(pending') = HasLap(pending)
  BY <1>1, <1>2, <1>4 DEF TimeInv, InStep, TimesAreExact, EveryLapTimed, CarIs
<1>5. HasLap(pending') \in BOOLEAN /\ HasLap(pending) \in BOOLEAN
  BY DEF HasLap
<1> QED BY <1>1, <1>3, <1>4, <1>5

\* The lap data of a frame: the cached lap, when it is over, gets its time.
LEMMA TimeArrives ==
  ASSUME HandlerInv, GameInv, TimeInv, LapDataArrives
  PROVE  TimeInv'
<1> DEFINE was == <<session, car.lapNum>>
           is  == <<session, data.lapNum>>
<1>1. /\ session # None /\ session' = session /\ sessions' = sessions
      /\ data' = data /\ truth' = truth /\ lossy' = lossy
      /\ HasLap(pending) /\ ~HasLap(pending')
      /\ session \in Sessions /\ data.lapNum \in LapNums
  BY CarType DEF LapDataArrives
<1>2. /\ car'.lapNum = data.lapNum /\ car'.time = data.time
      /\ car'.invalid = data.invalid /\ car'.sector = data.sector
  BY DEF LapDataArrives
<1>3. /\ is \in LapKeys /\ truth[is] = data /\ data # None
      /\ car.lapNum <= data.lapNum
  BY <1>1, KeyParts, CarBehind, RaceAssumption DEF TimeInv, Shown, LapDataArrives
<1>4. /\ data.lapNum \in Nat /\ data.lapNum > 0 /\ data.time \in Nat /\ data.sector \in 0 .. 2
      /\ car.lapNum \in Nat /\ car.time \in Nat /\ car.sector \in 0 .. 2 /\ car.invalid \in BOOLEAN
      /\ car.lapNum > 0 => car.lapNum \in LapNums
  BY CarType
<1>5. lapTimes \in [LapKeys -> [time : LapTimes, invalid : BOOLEAN] \cup {None}]
  BY DEF HandlerInv, TypeOK
<1>6. \/ lapTimes' = lapTimes /\ (LapFinished(data) => "RecordLapTime" \in Fallible)
      \/ LapFinished(data) /\ lapTimes' = [lapTimes EXCEPT ![was] = FinishedTime]
  BY DEF LapDataArrives
<1>7. Shown' /\ Cached'
  BY <1>1, <1>2, <1>3, <1>4 DEF TimeInv, Shown, Cached
<1>8. ASSUME LapFinished(data)
      PROVE  /\ car.lapNum > 0 /\ car.lapNum < data.lapNum /\ car.time > 0
             /\ was \in LapKeys /\ was[1] = session /\ was[2] = car.lapNum
             /\ lapTimes[was] = None /\ FinishedTime # None
             /\ truth[was] # None /\ truth[was].sector \in 0 .. 2
             /\ car.time <= truth[was].time /\ car.sector <= truth[was].sector
             /\ ~lossy => CarIs(truth[was])
  <2>1. car.lapNum > 0 /\ car.lapNum < data.lapNum /\ car.time > 0
    BY <1>4, <1>8 DEF LapFinished
  <2>2. was \in LapKeys /\ was[1] = session /\ was[2] = car.lapNum
    BY <1>1, <1>4, <2>1, KeyParts
  <2>3. lapTimes[was] = None
    BY <1>4, <2>2 DEF TimeInv, Recorded
  <2>4. FinishedTime # None
    <3>1. car.time \in LapTimes
      BY <1>4, <2>1 DEF HandlerInv, TypeOK
    <3>2. FinishedTime \in [time : LapTimes, invalid : BOOLEAN]
      BY <1>4, <3>1 DEF FinishedTime
    <3> QED BY <3>2, RaceAssumption
  <2>5. /\ truth[was] # None
        /\ car.time <= truth[was].time /\ car.sector <= truth[was].sector
    BY <1>1, <2>1 DEF TimeInv, Cached
  <2>6. truth[was].sector \in 0 .. 2
    BY <2>2, <2>5, TruthType
  <2>7. ~lossy => CarIs(truth[was])
    BY <1>1, <1>4, <2>1 DEF TimeInv, InStep
  <2> QED BY <2>1, <2>2, <2>3, <2>4, <2>5, <2>6, <2>7
<1> HIDE DEF was, is
<1>9. ASSUME NEW l \in LapKeys
      PROVE  IF lapTimes[l] # None THEN lapTimes'[l] = lapTimes[l]
             ELSE \/ lapTimes'[l] = None
                  \/ LapFinished(data) /\ l = was /\ lapTimes'[l] = FinishedTime
  BY <1>5, <1>6, <1>8
<1>10. Recorded'
  <2> SUFFICES ASSUME NEW l \in LapKeys, lapTimes'[l] # None
               PROVE  l[1] \in sessions /\ (l[1] = session => l[2] < data.lapNum)
    BY <1>1, <1>2 DEF Recorded
  <2>1. CASE lapTimes[l] # None
    <3>1. l[1] \in sessions /\ (l[1] = session => l[2] < car.lapNum) /\ l[2] \in Nat
      BY <2>1, KeyParts DEF TimeInv, Recorded
    <3> QED BY <1>3, <1>4, <3>1
  <2>2. CASE lapTimes[l] = None
    <3>1. LapFinished(data) /\ l = was
      BY <1>9, <2>2
    <3>2. was[1] = session /\ was[2] = car.lapNum /\ car.lapNum < data.lapNum
      BY <1>8, <3>1
    <3>3. session \in sessions
      BY <1>1, CarType
    <3> QED BY <3>1, <3>2, <3>3
  <2> QED BY <2>1, <2>2
<1>11. LapTimeWasDriven'
  <2> SUFFICES ASSUME NEW l \in LapKeys, lapTimes'[l] # None
               PROVE  /\ truth[l] # None
                      /\ lapTimes'[l].time <= truth[l].time
                      /\ ~lapTimes'[l].invalid => truth[l].sector = 2
    BY <1>1 DEF LapTimeWasDriven
  <2>1. CASE lapTimes[l] # None
    BY <1>9, <2>1 DEF TimeInv, LapTimeWasDriven
  <2>2. CASE lapTimes[l] = None
    <3>1. LapFinished(data) /\ l = was /\ lapTimes'[l] = FinishedTime
      BY <1>9, <2>2
    <3>2. FinishedTime.time = car.time /\ (~FinishedTime.invalid => ~(car.sector < 2))
      BY <1>4 DEF FinishedTime
    <3> QED BY <1>4, <1>8, <3>1, <3>2
  <2> QED BY <2>1, <2>2
<1>12. TimesAreExact'
  <2> SUFFICES ASSUME ~lossy, NEW l \in LapKeys, lapTimes'[l] # None
               PROVE  /\ lapTimes'[l].time = truth[l].time
                      /\ lapTimes'[l].invalid = (truth[l].invalid \/ truth[l].sector < 2)
    BY <1>1 DEF TimesAreExact
  <2>1. CASE lapTimes[l] # None
    BY <1>9, <2>1 DEF TimeInv, TimesAreExact
  <2>2. CASE lapTimes[l] = None
    BY <1>8, <1>9, <2>2 DEF FinishedTime, CarIs
  <2> QED BY <2>1, <2>2
<1>13. InStep'
  <2>1. CarIs(truth[is])'
    BY <1>1, <1>2, <1>3 DEF CarIs, is
  <2> QED BY <1>1, <1>2, <1>4, <2>1 DEF InStep, is
<1>14. EveryLapTimed'
  <2> SUFFICES ASSUME "RecordLapTime" \notin Fallible, ~lossy, NEW n \in LapNums, n < data.lapNum
               PROVE  \/ lapTimes'[<<session, n>>] # None
                      \/ truth[<<session, n>>] = None
                      \/ truth[<<session, n>>].time = 0
    BY <1>1, <1>2 DEF EveryLapTimed
  <2>1. n \in Nat /\ <<session, n>> \in LapKeys
    BY <1>1, KeyParts
  <2>2. CASE n < car.lapNum
    <3>1. \/ lapTimes[<<session, n>>] # None
          \/ truth[<<session, n>>] = None
          \/ truth[<<session, n>>].time = 0
      BY <1>1, <2>2 DEF TimeInv, EveryLapTimed
    <3> QED BY <1>9, <2>1, <3>1
  <2>3. CASE n = car.lapNum
    <3>1. car.lapNum > 0 => CarIs(truth[<<session, n>>])
      BY <1>1, <1>4, <2>3 DEF TimeInv, InStep
    <3>2. CASE car.lapNum > 0 /\ car.time > 0
      <4>1. LapFinished(data)
        BY <2>3, <3>2 DEF LapFinished
      <4>2. lapTimes' = [lapTimes EXCEPT ![was] = FinishedTime] /\ FinishedTime # None
        BY <1>6, <1>8, <4>1
      <4> QED BY <1>5, <2>1, <2>3, <4>2 DEF was
    <3>3. CASE car.lapNum > 0 /\ car.time = 0
      BY <3>1, <3>3 DEF CarIs
    <3>4. CASE car.lapNum = 0
      BY <1>1, <1>4, <2>1, <2>3, <3>4 DEF TimeInv, InStep
    <3> QED BY <1>4, <3>2, <3>3, <3>4
  <2>4. CASE n > car.lapNum
    BY <1>1, <1>4, <2>1, <2>4 DEF TimeInv, InStep
  <2> QED BY <1>4, <2>1, <2>2, <2>3, <2>4
<1> QED BY <1>7, <1>10, <1>11, <1>12, <1>13, <1>14 DEF TimeInv

\* The game drives on: a lap that has its time is not shown again.
LEMMA TimeShown ==
  ASSUME HandlerInv, GameInv, TimeInv, NextFrame
  PROVE  TimeInv'
<1> DEFINE is == <<session, data'.lapNum>>
<1>1. /\ UNCHANGED <<session, sessions, car, lapTimes, lossy>>
      /\ pending = <<>> /\ HasLap(pending') /\ ~HasLap(pending)
  BY FullFrame, NoPacket DEF NextFrame, vars
<1>2. data' \in {data} \cup Driven /\ data' \in LapPackets
  BY DEF NextFrame
<1>3. /\ data' \in DrivenPacket
      /\ \/ data'.lapNum = data.lapNum + 1
         \/ data'.lapNum = data.lapNum /\ data.time <= data'.time /\ data.sector <= data'.sector
  BY <1>2, NextData DEF GameInv
<1>4. /\ data'.lapNum \in Nat /\ data'.lapNum > 0 /\ data'.time \in Nat /\ data'.sector \in 0 .. 2
      /\ data' # None /\ data'.lapNum \in LapNums
  <2>1. data'.lapNum \in Nat /\ data'.lapNum > 0 /\ data'.time \in Nat /\ data'.sector \in 0 .. 2
    BY <1>3 DEF DrivenPacket
  <2>2. data' # None /\ data'.lapNum \in LapNums
    BY <1>2, RaceAssumption, ConstantsAssumption DEF LapPacket
  <2> QED BY <2>1, <2>2
<1>5. /\ data.lapNum \in Nat /\ data.time \in Nat /\ data.sector \in 0 .. 2
      /\ car.lapNum \in Nat /\ car.time \in Nat /\ car.sector \in 0 .. 2
      /\ car.lapNum > 0 => car.lapNum \in LapNums
      /\ session # None => session \in Sessions /\ session \in sessions
  BY CarType
<1>6. CASE session = None
  <2>1. truth' = truth
    BY <1>6 DEF NextFrame
  <2> QED BY <1>1, <1>6, <2>1
          DEF TimeInv, Shown, Cached, Recorded, InStep, LapTimeWasDriven, TimesAreExact,
              EveryLapTimed
<1>7. CASE session # None
  <2>1. is \in LapKeys /\ is[1] = session /\ is[2] = data'.lapNum
    BY <1>4, <1>5, <1>7, KeyParts
  <2>2. truth' = [truth EXCEPT ![is] = data']
    BY <1>7 DEF NextFrame
  <2>3. \A l \in LapKeys : truth'[l] = IF l = is THEN data' ELSE truth[l]
    BY <2>1, <2>2 DEF GameInv
  <2>4. ASSUME NEW n \in LapNums
        PROVE  /\ <<session, n>> \in LapKeys /\ n \in Nat
               /\ truth'[<<session, n>>] = IF n = data'.lapNum THEN data' ELSE truth[<<session, n>>]
    <3>1. <<session, n>> \in LapKeys /\ n \in Nat
      BY <1>5, <1>7, KeyParts
    <3> QED BY <2>3, <3>1
  <2> HIDE DEF is
  <2>5. car.lapNum <= data.lapNum
    BY <1>7, CarBehind
  <2>6. Shown'
    <3>1. \A l \in LapKeys : truth'[l] # None => l[1] \in sessions
      BY <1>5, <1>7, <2>1, <2>3 DEF TimeInv, Shown
    <3>2. ASSUME NEW n \in LapNums, truth'[<<session, n>>] # None
          PROVE  n <= data'.lapNum /\ (n = data'.lapNum => truth'[<<session, n>>] = data')
      <4>1. CASE n = data'.lapNum
        BY <1>4, <2>4, <4>1
      <4>2. CASE n # data'.lapNum
        <5>1. n <= data.lapNum
          BY <1>7, <2>4, <3>2, <4>2 DEF TimeInv, Shown
        <5> QED BY <1>3, <1>4, <1>5, <2>4, <4>2, <5>1
      <4> QED BY <4>1, <4>2
    <3>3. truth'[<<session, data'.lapNum>>] = data'
      BY <1>4, <2>4
    <3> QED BY <1>1, <3>1, <3>2, <3>3 DEF Shown
  <2>7. Cached'
    <3> SUFFICES ASSUME car.lapNum > 0
                 PROVE  /\ truth'[<<session, car.lapNum>>] # None
                        /\ car.time <= truth'[<<session, car.lapNum>>].time
                        /\ car.sector <= truth'[<<session, car.lapNum>>].sector
      BY <1>1 DEF Cached
    <3>1. /\ truth[<<session, car.lapNum>>] # None
          /\ car.time <= truth[<<session, car.lapNum>>].time
          /\ car.sector <= truth[<<session, car.lapNum>>].sector
      BY <1>7 DEF TimeInv, Cached
    <3>2. CASE car.lapNum # data'.lapNum
      BY <1>5, <2>4, <3>1, <3>2
    <3>3. CASE car.lapNum = data'.lapNum
      <4>1. car.lapNum = data.lapNum /\ data.time <= data'.time /\ data.sector <= data'.sector
        BY <1>3, <1>5, <2>5, <3>3
      <4>2. truth[<<session, car.lapNum>>] = data
        BY <1>5, <1>7, <3>1, <4>1 DEF TimeInv, Shown
      <4>3. truth'[<<session, car.lapNum>>] = data'
        BY <1>5, <2>4, <3>3
      <4>4. car.time <= data.time /\ car.sector <= data.sector
        BY <3>1, <4>2
      <4>5. car.time <= data'.time /\ car.sector <= data'.sector
        BY <1>4, <1>5, <4>1, <4>4
      <4> QED BY <1>4, <4>3, <4>5
    <3> QED BY <3>2, <3>3
  <2>8. ASSUME NEW l \in LapKeys, lapTimes[l] # None PROVE truth'[l] = truth[l]
    <3>1. l # is
      <4>1. l[1] = session => l[2] < car.lapNum /\ l[2] \in Nat
        BY <2>8, KeyParts DEF TimeInv, Recorded
      <4> QED BY <1>3, <1>4, <1>5, <2>1, <2>5, <4>1
    <3> QED BY <2>3, <3>1
  <2>9. Recorded' /\ LapTimeWasDriven' /\ TimesAreExact'
    <3>1. Recorded'
      BY <1>1 DEF TimeInv, Recorded
    <3>2. LapTimeWasDriven'
      BY <1>1, <2>8 DEF TimeInv, LapTimeWasDriven
    <3>3. TimesAreExact'
      BY <1>1, <2>8 DEF TimeInv, TimesAreExact
    <3> QED BY <3>1, <3>2, <3>3
  <2>10. InStep'
    <3> SUFFICES ASSUME ~lossy
                 PROVE  IF car.lapNum = 0
                        THEN \A n \in LapNums : n = data'.lapNum \/ truth'[<<session, n>>] = None
                        ELSE \/ car.lapNum = data'.lapNum
                             \/ /\ car.lapNum + 1 = data'.lapNum
                                /\ CarIs(truth'[<<session, car.lapNum>>])
      BY <1>1, <1>7 DEF InStep, CarIs
    <3>1. CASE car.lapNum = 0
      BY <1>1, <1>7, <2>4, <3>1 DEF TimeInv, InStep
    <3>2. CASE car.lapNum # 0
      <4>1. car.lapNum = data.lapNum /\ CarIs(truth[<<session, car.lapNum>>])
        BY <1>1, <1>7, <3>2 DEF TimeInv, InStep
      <4>2. CASE data'.lapNum = data.lapNum
        BY <3>2, <4>1, <4>2
      <4>3. CASE data'.lapNum = data.lapNum + 1
        <5>1. truth'[<<session, car.lapNum>>] = truth[<<session, car.lapNum>>]
          BY <1>5, <2>4, <3>2, <4>1, <4>3
        <5> QED BY <3>2, <4>1, <4>3, <5>1
      <4> QED BY <1>3, <4>2, <4>3
    <3> QED BY <3>1, <3>2
  <2>11. EveryLapTimed'
    <3> SUFFICES ASSUME "RecordLapTime" \notin Fallible, ~lossy, NEW n \in LapNums, n < car.lapNum
                 PROVE  \/ lapTimes[<<session, n>>] # None
                        \/ truth'[<<session, n>>] = None
                        \/ truth'[<<session, n>>].time = 0
      BY <1>1 DEF EveryLapTimed
    <3>1. n # data'.lapNum
      BY <1>3, <1>4, <1>5, <2>4, <2>5
    <3> QED BY <1>7, <2>4, <3>1 DEF TimeInv, EveryLapTimed
  <2> QED BY <2>6, <2>7, <2>9, <2>10, <2>11 DEF TimeInv
<1> QED BY <1>6, <1>7

LEMMA TimeStep ==
  ASSUME HandlerInv, GameInv, FreshStart, TimeInv, [RaceNext]_raceVars
  PROVE  TimeInv'
BY RaceSteps, TimeBegins, TimeEnds, TimeKept, TimeArrives, TimeShown

\* A lap that has its time is not the cached one: its time stays.
LEMMA WrittenOnce ==
  ASSUME HandlerInv, GameInv, FreshStart, TimeInv, [RaceNext]_raceVars,
         NEW l \in LapKeys, lapTimes[l] # None
  PROVE  lapTimes'[l] = lapTimes[l]
<1>1. CASE LapDataArrives
  <2>1. lapTimes' = lapTimes \/ lapTimes' = [lapTimes EXCEPT ![<<session, car.lapNum>>] = FinishedTime]
    BY <1>1 DEF LapDataArrives
  <2>2. l # <<session, car.lapNum>>
    <3>1. l[1] = session => l[2] < car.lapNum /\ l[2] \in Nat
      BY KeyParts DEF TimeInv, Recorded
    <3> QED BY <3>1, CarType
  <2>3. lapTimes \in [LapKeys -> [time : LapTimes, invalid : BOOLEAN] \cup {None}]
    BY DEF HandlerInv, TypeOK
  <2> QED BY <2>1, <2>2, <2>3
<1>2. CASE ~LapDataArrives
  BY <1>2, RaceSteps DEF SessionBegins, SessionEnds, NoLapData, NextFrame, vars
<1> QED BY <1>1, <1>2

RaceInv == HandlerInv /\ GameInv /\ FreshStart /\ TimeInv

LEMMA RaceAlways ==
  ASSUME Separate
  PROVE  RaceSpec => []RaceInv
<1>1. GameInv /\ FreshStart /\ [RaceNext]_raceVars => FreshStart'
  BY FreshStep
<1>2. HandlerInv /\ GameInv /\ FreshStart /\ TimeInv /\ [RaceNext]_raceVars => TimeInv'
  BY TimeStep
<1> QED BY <1>1, <1>2, HandlerAlways, FreshInit, TimeInit, PTL DEF RaceSpec, RaceInv

\* No lap time exceeds what the game counted for that lap, and a valid one is
\* of a lap that reached its final sector, whichever packets are lost.
THEOREM LapTimesWereDriven ==
  ASSUME Separate
  PROVE  RaceSpec => []LapTimeWasDriven
<1>1. RaceInv => LapTimeWasDriven
  BY DEF RaceInv, TimeInv
<1> QED BY <1>1, RaceAlways, PTL

\* Once written, a lap time stays, whichever packets are lost and whichever
\* statements fail.
THEOREM LapTimesWrittenOnce ==
  ASSUME Separate
  PROVE  RaceSpec => LapTimeWrittenOnce
<1>1. RaceInv /\ [RaceNext]_raceVars
      => [ \A l \in LapKeys : lapTimes[l] # None => lapTimes'[l] = lapTimes[l] ]_vars
  BY WrittenOnce DEF RaceInv
<1> QED BY <1>1, RaceAlways, PTL DEF RaceSpec, LapTimeWrittenOnce

-----------------------------------------------------------------------------
(* The handler's lap and the game's. *)

\* The handler is never on a lap after the game's or after the cached one.
LapAhead ==
  session # None =>
    lap.num <= data.lapNum /\ (car.lapNum = 0 \/ lap.num <= car.lapNum)

\* Nor, on the game's lap, in a later sector; the pit lane is not entered.
SectorAhead ==
  session # None =>
    /\ ~lap.inPit
    /\ ~lap.open => lap.num = 0
    /\ lap.open /\ lap.num = data.lapNum => lap.sector <= data.sector

\* Lap rows are of recorded sessions, and the handler is on the last of its
\* session.
LastLap ==
  /\ \A l \in laps : l[1] \in sessions
  /\ "OpenLap" \notin Fallible => LapHistory

\* Between the lap data of two frames the handler is where the game is.
UpToDate ==
  "OpenLap" \notin Fallible /\ session # None /\ ~lossy /\ ~HasLap(pending) /\ lap.open =>
    lap.num = data.lapNum /\ lap.sector = data.sector

CursorInv == LapAhead /\ SectorAhead /\ LastLap /\ UpToDate

LEMMA RaceCursorInit == RaceInit => CursorInv
BY DEF RaceInit, Init, CursorInv, LapAhead, SectorAhead, LastLap, UpToDate, LapHistory

\* Without a failure a lap that has no row is opened.
LEMMA OpenLapOpens ==
  ASSUME NEW s, NEW p, NEW pit, NEW onError, OpenLap(s, p, pit, onError)
  PROVE  \/ /\ laps' = laps \cup {<<s, p.lapNum>>}
            /\ lap' = [id |-> <<s, p.lapNum>>, open |-> TRUE, num |-> p.lapNum,
                       sector |-> p.sector, inPit |-> pit]
         \/ /\ lap' = onError /\ laps' \in {laps, laps \cup {<<s, p.lapNum>>}}
            /\ "OpenLap" \notin Fallible => <<s, p.lapNum>> \in laps /\ laps' = laps
BY DEF OpenLap

LEMMA CursorType ==
  ASSUME HandlerInv
  PROVE  /\ lap.num \in Nat /\ lap.sector \in 0 .. 2 /\ lap.inPit \in BOOLEAN /\ lap.open \in BOOLEAN
         /\ \A l \in laps : l \in LapKeys /\ l[2] \in Nat
<1>1. lap.num \in LapNums \cup {0} /\ LapNums \cup {0} \subseteq Nat
  BY ConstantsAssumption DEF HandlerInv, TypeOK
<1>2. lap.num \in Nat
  BY <1>1, Zenon
<1>3. lap.sector \in 0 .. 2 /\ lap.inPit \in BOOLEAN /\ lap.open \in BOOLEAN /\ laps \subseteq LapKeys
  BY DEF HandlerInv, TypeOK
<1> QED BY <1>2, <1>3, KeyParts

LEMMA CursorBegins ==
  ASSUME HandlerInv, GameInv, GameInv', HandlerInv', CursorInv, SessionBegins
  PROVE  CursorInv'
<1>1. session = None /\ sessions \subseteq sessions'
  BY DEF SessionBegins
<1>2. \A l \in laps : l[1] \in sessions
  BY DEF CursorInv, LastLap
<1>3. CASE session' = None
  <2>1. \A l \in laps' : l[1] \in sessions'
    <3>1. CASE laps' = laps
      BY <1>1, <1>2, <3>1
    <3>2. CASE OpenLap(session', data, FALSE, NoLap)
      <4>1. laps' \subseteq laps \cup {<<None, data.lapNum>>} /\ laps' \subseteq LapKeys
        BY <1>3, <3>2, OpenLapOpens DEF HandlerInv, TypeOK
      <4>2. laps' = laps \cap laps'
        BY <4>1, KeyParts
      <4> QED BY <1>1, <1>2, <4>2
    <3> QED BY <3>1, <3>2 DEF SessionBegins
  <2> QED BY <1>3, <2>1 DEF CursorInv, LapAhead, SectorAhead, LastLap, UpToDate, LapHistory
<1>4. CASE session' # None
  <2>1. /\ session' \notin sessions /\ session' \in sessions' /\ session' \in Sessions
        /\ car'.lapNum = 0
    BY <1>4 DEF SessionBegins, NoCar
  <2>2. \A l \in laps : l[1] # session'
    BY <1>2, <2>1
  <2>3. data'.lapNum \in Nat /\ data'.lapNum > 0 /\ data'.sector \in 0 .. 2
    BY DEF GameInv, DrivenPacket
  <2>4. CASE laps' = laps /\ lap' = NoLap
    <3>1. lap'.num = 0 /\ lap'.open = FALSE /\ lap'.inPit = FALSE
      BY <2>4 DEF NoLap
    <3> QED BY <1>1, <1>2, <2>1, <2>2, <2>3, <2>4, <3>1
            DEF CursorInv, LapAhead, SectorAhead, LastLap, UpToDate, LapHistory
  <2>5. CASE data' = data /\ data \in LapPackets /\ OpenLap(session', data, FALSE, NoLap)
    <3> DEFINE id == <<session', data.lapNum>>
    <3>1. id[1] = session' /\ id[2] = data.lapNum
      OBVIOUS
    <3>2. CASE /\ laps' = laps \cup {id}
               /\ lap' = [id |-> id, open |-> TRUE, num |-> data.lapNum,
                          sector |-> data.sector, inPit |-> FALSE]
      <4>1. /\ lap'.num = data.lapNum /\ lap'.open = TRUE /\ lap'.inPit = FALSE
            /\ lap'.sector = data.sector
        BY <3>2
      <4> HIDE DEF id
      <4> QED BY <1>1, <1>2, <2>1, <2>2, <2>3, <2>5, <3>1, <3>2, <4>1
              DEF CursorInv, LapAhead, SectorAhead, LastLap, UpToDate, LapHistory
    <3>3. CASE /\ lap' = NoLap /\ laps' \in {laps, laps \cup {id}}
               /\ "OpenLap" \notin Fallible => id \in laps /\ laps' = laps
      <4>1. lap'.num = 0 /\ lap'.open = FALSE /\ lap'.inPit = FALSE
        BY <3>3 DEF NoLap
      <4> HIDE DEF id
      <4> QED BY <1>1, <1>2, <2>1, <2>2, <2>3, <3>1, <3>3, <4>1
              DEF CursorInv, LapAhead, SectorAhead, LastLap, UpToDate, LapHistory
    <3> QED BY <2>5, <3>2, <3>3, OpenLapOpens
  <2> QED BY <1>4, <2>4, <2>5 DEF SessionBegins
<1> QED BY <1>3, <1>4

LEMMA RaceCursorEnds ==
  ASSUME CursorInv, SessionEnds
  PROVE  CursorInv'
BY DEF SessionEnds, CursorInv, LapAhead, SectorAhead, LastLap, UpToDate, LapHistory

LEMMA CursorKept ==
  ASSUME CursorInv, NoLapData
  PROVE  CursorInv'
<1>1. /\ UNCHANGED <<session, sessions, lap, laps, car, data>>
      /\ \/ lossy'
         \/ lossy' = lossy /\ (HasLap(pending) => HasLap(pending'))
  BY DEF NoLapData
<1> QED BY <1>1 DEF CursorInv, LapAhead, SectorAhead, LastLap, UpToDate, LapHistory

LEMMA CursorShown ==
  ASSUME HandlerInv, GameInv, CursorInv, NextFrame
  PROVE  CursorInv'
<1>1. UNCHANGED <<session, sessions, lap, laps, car, lossy>> /\ HasLap(pending')
  BY FullFrame DEF NextFrame, vars
<1>2. /\ data'.lapNum \in Nat /\ data'.sector \in 0 .. 2
      /\ \/ data'.lapNum = data.lapNum + 1
         \/ data'.lapNum = data.lapNum /\ data.sector <= data'.sector
  <2>1. data' \in {data} \cup Driven /\ data \in DrivenPacket
    BY DEF NextFrame, GameInv
  <2>2. data' \in DrivenPacket
    BY <2>1, NextData
  <2>3. data'.lapNum \in Nat /\ data'.sector \in 0 .. 2
    BY <2>2 DEF DrivenPacket
  <2> QED BY <2>1, <2>3, NextData
<1> QED BY <1>1, <1>2, CarType, CursorType
        DEF CursorInv, LapAhead, SectorAhead, LastLap, UpToDate, LapHistory

LEMMA CursorArrives ==
  ASSUME HandlerInv, GameInv, TimeInv, CursorInv, LapDataArrives
  PROVE  CursorInv'
<1> DEFINE id == <<session, data.lapNum>>
<1>1. /\ session # None /\ session' = session /\ sessions' = sessions /\ data' = data
      /\ car'.lapNum = data.lapNum
      /\ session \in sessions
  BY CarType DEF LapDataArrives
<1>2. /\ data.lapNum \in Nat /\ data.lapNum > 0 /\ data.sector \in 0 .. 2 /\ data.pit = FALSE
      /\ lap.num \in Nat /\ lap.sector \in 0 .. 2 /\ lap.open \in BOOLEAN
      /\ \A l \in laps : l[2] \in Nat
  BY CarType, CursorType DEF GameInv, DrivenPacket
<1>3. /\ lap.num <= data.lapNum /\ lap.inPit = FALSE /\ (~lap.open => lap.num = 0)
      /\ lap.num = data.lapNum => lap.open /\ lap.sector <= data.sector
      /\ \A l \in laps : l[1] \in sessions
      /\ "OpenLap" \notin Fallible =>
           \A l \in laps : l[1] = session => lap.open /\ l[2] <= lap.num
  BY <1>1, <1>2, CursorType DEF CursorInv, LapAhead, SectorAhead, LastLap, LapHistory
<1>4. id[1] = session /\ id[2] = data.lapNum
  OBVIOUS
<1>5. ASSUME OpenLap(session, data, FALSE, lap),
             ~lap.open \/ (lap.open /\ data.lapNum > lap.num)
      PROVE  CursorInv'
  <2>1. CASE /\ laps' = laps \cup {id}
             /\ lap' = [id |-> id, open |-> TRUE, num |-> data.lapNum,
                        sector |-> data.sector, inPit |-> FALSE]
    <3>1. /\ lap'.num = data.lapNum /\ lap'.open = TRUE /\ lap'.inPit = FALSE
          /\ lap'.sector = data.sector
      BY <2>1
    <3>2. "OpenLap" \notin Fallible =>
            \A l \in laps : l[1] = session => l[2] <= data.lapNum
      BY <1>2, <1>3
    <3> HIDE DEF id
    <3>3. LastLap'
      BY <1>1, <1>2, <1>3, <1>4, <2>1, <3>1, <3>2 DEF LastLap, LapHistory
    <3> QED BY <1>1, <1>2, <3>1, <3>3 DEF CursorInv, LapAhead, SectorAhead, UpToDate
  <2>2. CASE /\ lap' = lap /\ laps' \in {laps, laps \cup {id}}
             /\ "OpenLap" \notin Fallible => id \in laps /\ laps' = laps
    <3>1. "OpenLap" \in Fallible
      <4> SUFFICES ASSUME "OpenLap" \notin Fallible PROVE FALSE
        OBVIOUS
      <4>1. id \in laps
        BY <2>2
      <4>2. lap.open /\ data.lapNum <= lap.num
        BY <1>3, <1>4, <4>1
      <4> QED BY <1>2, <1>5, <4>2
    <3> HIDE DEF id
    <3>2. LastLap'
      BY <1>1, <1>3, <1>4, <2>2, <3>1 DEF LastLap
    <3>3. lap.num # data.lapNum
      BY <1>2, <1>3, <1>5
    <3> QED BY <1>1, <1>2, <1>3, <2>2, <3>1, <3>2, <3>3
            DEF CursorInv, LapAhead, SectorAhead, UpToDate
  <2> QED BY <1>5, <2>1, <2>2, OpenLapOpens
<1>6. CASE FirstLap(data)
  BY <1>2, <1>5, <1>6 DEF FirstLap
<1>7. CASE NextLap(data)
  BY <1>5, <1>7 DEF NextLap
<1>8. CASE PitEntry(data)
  BY <1>2, <1>8 DEF PitEntry
<1>9. CASE SectorAdvance(data)
  <2>1. lap' = [lap EXCEPT !.sector = data.sector] /\ laps' = laps /\ data.lapNum <= lap.num
    BY <1>9 DEF SectorAdvance, SameLap
  <2>2. /\ lap'.num = lap.num /\ lap'.open = lap.open /\ lap'.inPit = lap.inPit
        /\ lap'.sector = data.sector
    BY <2>1 DEF HandlerInv, TypeOK
  <2>3. lap.num = data.lapNum
    BY <1>2, <1>3, <2>1
  <2> QED BY <1>1, <1>2, <1>3, <2>1, <2>2, <2>3
          DEF CursorInv, LapAhead, SectorAhead, LastLap, LapHistory, UpToDate
<1>10. CASE NoBoundary(data)
  <2>1. lap' = lap /\ laps' = laps /\ data.lapNum <= lap.num /\ data.sector <= lap.sector
    BY <1>3, <1>10 DEF NoBoundary, lapVars, SameLap
  <2>2. lap.num = data.lapNum /\ lap.sector = data.sector
    <3>1. lap.num = data.lapNum
      BY <1>2, <1>3, <2>1
    <3> QED BY <1>2, <1>3, <2>1, <3>1
  <2> QED BY <1>1, <1>2, <1>3, <2>1, <2>2
          DEF CursorInv, LapAhead, SectorAhead, LastLap, LapHistory, UpToDate
<1> QED BY <1>6, <1>7, <1>8, <1>9, <1>10 DEF LapDataArrives

LEMMA RaceCursorStep ==
  ASSUME RaceInv, RaceInv', CursorInv, [RaceNext]_raceVars
  PROVE  CursorInv'
<1> HandlerInv /\ GameInv /\ FreshStart /\ TimeInv /\ HandlerInv' /\ GameInv'
  BY DEF RaceInv
<1>1. SessionBegins => CursorInv'
  BY CursorBegins
<1>2. SessionEnds => CursorInv'
  BY RaceCursorEnds
<1>3. NoLapData => CursorInv'
  BY CursorKept
<1>4. LapDataArrives => CursorInv'
  BY CursorArrives
<1>5. NextFrame => CursorInv'
  BY CursorShown
<1> QED BY <1>1, <1>2, <1>3, <1>4, <1>5, RaceSteps

LEMMA CursorAlways ==
  ASSUME Separate
  PROVE  RaceSpec => [](RaceInv /\ CursorInv)
<1>1. RaceInv /\ RaceInv' /\ CursorInv /\ [RaceNext]_raceVars => CursorInv'
  BY RaceCursorStep
<1> QED BY <1>1, RaceAlways, RaceCursorInit, PTL DEF RaceSpec

\* With nothing lost and every statement that writes a lap time successful,
\* the lap times are the game's, and no lap driven before the handler's lap is
\* without one.
THEOREM LapTimesAreExact ==
  ASSUME Separate, "RecordLapTime" \notin Fallible
  PROVE  RaceSpec => []LapTimeIsExact
<1>1. RaceInv /\ CursorInv => LapTimeIsExact
  <2> SUFFICES ASSUME HandlerInv, GameInv, TimeInv, LapAhead, ~lossy, NEW l \in LapKeys,
                      l \in laps, l[1] = session, l[2] < lap.num
               PROVE  lapTimes[l] # None \/ truth[l] = None \/ truth[l].time = 0
    BY DEF RaceInv, CursorInv, LapTimeIsExact, TimeInv, TimesAreExact
  <2>1. /\ session # None /\ l = <<session, l[2]>> /\ l[2] \in LapNums /\ l[2] \in Nat
    BY KeyParts
  <2>2. /\ lap.num \in Nat /\ car.lapNum \in Nat /\ data.lapNum \in Nat
        /\ lap.num <= data.lapNum /\ (car.lapNum = 0 \/ lap.num <= car.lapNum)
    BY <2>1, CarType, CursorType DEF LapAhead
  <2>3. CASE car.lapNum = 0
    <3>1. l[2] # data.lapNum
      BY <2>1, <2>2
    <3> QED BY <2>1, <2>3, <3>1 DEF TimeInv, InStep
  <2>4. CASE car.lapNum # 0
    <3>1. l[2] < car.lapNum
      BY <2>1, <2>2, <2>4
    <3> QED BY <2>1, <3>1 DEF TimeInv, EveryLapTimed
  <2> QED BY <2>3, <2>4
<1> QED BY <1>1, CursorAlways, PTL

\* With nothing lost, once a frame's lap data is in, the handler is on the
\* game's lap and in its sector, as long as OpenLap succeeds.
THEOREM HandlerKeepsUp ==
  ASSUME Separate, "OpenLap" \notin Fallible
  PROVE  RaceSpec => []HandlerFollowsGame
<1>1. RaceInv /\ CursorInv => HandlerFollowsGame
  <2> SUFFICES ASSUME HandlerInv, UpToDate, ~lossy, pending = <<>>, lap.open
               PROVE  lap.num = data.lapNum /\ lap.sector = data.sector
    BY DEF RaceInv, CursorInv, HandlerFollowsGame
  <2>1. session # None
    BY DEF HandlerInv, LapCursorRecorded
  <2> QED BY <2>1, NoPacket DEF UpToDate
<1> QED BY <1>1, CursorAlways, PTL
=============================================================================
