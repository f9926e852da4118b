----------------------------- MODULE RecordedRace -----------------------------
(***************************************************************************)
(* SourceHandler fed by one game through a channel that keeps the order of *)
(* packets and may lose some.  The game is external: it is modelled from   *)
(* what handler.go says of it (one frame id for all packets of a frame,    *)
(* the lap time back to 0 in the packet that advances the lap number, lap  *)
(* numbers that also advance on a restart or a return to the garage).      *)
(***************************************************************************)
EXTENDS SourceHandler

CONSTANTS
  PerFrame,    \* the payloads the game sends in each frame, in order
  MaxFrame,    \* bound: frames of one race
  MaxRaces,    \* bound: races
  PacketLoss,  \* frame packets may be lost
  EventLoss    \* SSTA, CHQF and SEND may be lost

\* A frame has one packet of each payload, lap data among them.
ASSUME RaceAssumption ==
  /\ PerFrame \in Seq(Kinds \cup {"Lap"})
  /\ \E i \in 1 .. Len(PerFrame) : PerFrame[i] = "Lap"
  /\ \A i, j \in 1 .. Len(PerFrame) : PerFrame[i] = PerFrame[j] => i = j
  /\ MaxFrame \in Nat /\ MaxRaces \in Nat
  /\ 1 .. MaxFrame \subseteq FrameIDs
  /\ PacketLoss \in BOOLEAN /\ EventLoss \in BOOLEAN
  /\ None \notin LapPackets \cup [time : LapTimes, invalid : BOOLEAN]

VARIABLES
  phase,    \* "menu", "race", "over": after the flag the game still sends frames
  races,    \* races begun
  frame,    \* frame id of the game, from 1 in each race
  data,     \* the player's lap data in this frame
  pending,  \* packets of this frame still to be delivered
  lossy,    \* history: a packet or an event was lost
  truth     \* history: the game's last lap data of each lap of each session

gameVars == <<phase, races, frame, data>>
raceVars == <<vars, gameVars, pending, lossy, truth>>

FirstData == [lapNum |-> 1, time |-> 0, sector |-> 0, pit |-> FALSE,
              invalid |-> FALSE, active |-> TRUE]

-----------------------------------------------------------------------------
(* The game. *)

\* Delivered to the handler, or lost.
Event(handled) == \/ handled /\ UNCHANGED lossy
                  \/ EventLoss /\ UNCHANGED vars /\ lossy' = TRUE

RaceStarts ==
  /\ phase = "menu" /\ races < MaxRaces /\ pending = <<>>
  /\ phase' = "race" /\ races' = races + 1
  /\ frame' = 0 /\ data' = FirstData
  /\ Event(SessionStarted)
  /\ UNCHANGED <<pending, truth>>

\* CHQF ends the race; SEND comes when the game leaves it.
RaceEnds ==
  /\ pending = <<>>
  /\ \/ phase = "race" /\ phase' = "over"
     \/ phase \in {"race", "over"} /\ phase' = "menu"
  /\ \/ Event(SessionEnded)
     \/ session = None /\ UNCHANGED <<vars, lossy>>
  /\ UNCHANGED <<races, frame, data, pending, truth>>

\* The car drives on, reaches the next sector, crosses the line, or loses the
\* lap to a restart or the garage.
Driven ==
  {[data EXCEPT !.time = @ + 1, !.sector = s, !.invalid = i] :
     s \in {data.sector, data.sector + 1} \cap (0 .. 2),
     i \in {data.invalid, TRUE}}
  \cup {[FirstData EXCEPT !.lapNum = data.lapNum + 1]}

NextFrame ==
  /\ phase \in {"race", "over"} /\ pending = <<>> /\ frame < MaxFrame
  /\ frame' = frame + 1
  /\ data' \in (IF frame = 0 THEN {data} ELSE Driven) \cap LapPackets
  /\ pending' = PerFrame
  /\ truth' = IF session = None THEN truth
              ELSE [truth EXCEPT ![<<session, data'.lapNum>>] = data']
  /\ UNCHANGED <<vars, phase, races, lossy>>

-----------------------------------------------------------------------------
(* The channel. *)

DeliverLap ==
  /\ pending # <<>> /\ Head(pending) = "Lap"
  /\ LapData(data, frame) \/ LapDataNoSession(data)

\* Without a session the payload is dropped (logDropped).
DeliverKind ==
  /\ pending # <<>> /\ Head(pending) # "Lap"
  /\ \/ FramePacket(Head(pending), frame)
     \/ session = None /\ UNCHANGED vars

Deliver ==
  /\ running
  /\ DeliverLap \/ DeliverKind
  /\ pending' = Tail(pending)
  /\ UNCHANGED <<gameVars, lossy, truth>>

Lose ==
  /\ PacketLoss /\ pending # <<>>
  /\ pending' = Tail(pending)
  /\ lossy' = TRUE
  /\ UNCHANGED <<vars, gameVars, truth>>

\* The session's details: sent beside the frames, often, whatever is pending.
Details ==
  /\ \/ \E t \in Tracks : SessionPacket(t)
     \/ \E d \in Drivers : ParticipantsPacket(d)
  /\ UNCHANGED <<gameVars, pending, lossy, truth>>

\* The listener may have been started in the middle of a race.
RaceInit ==
  /\ Init
  /\ phase \in {"menu", "race"} /\ races = (IF phase = "race" THEN 1 ELSE 0)
  /\ frame = 0 /\ data = FirstData /\ pending = <<>>
  /\ truth = [l \in LapKeys |-> None] /\ lossy = FALSE

RaceNext ==
  RaceStarts \/ RaceEnds \/ NextFrame \/ Deliver \/ Lose \/ Details

RaceSpec == RaceInit /\ [][RaceNext]_raceVars

-----------------------------------------------------------------------------
(* Properties. *)

\* A lap time is written once (migrations/006_lap_times.sql) and no later
\* lap of the session changes it.
LapTimeWrittenOnce ==
  [][\A l \in LapKeys : lapTimes[l] # None => lapTimes'[l] = lapTimes[l]]_vars

\* Whatever is lost on the way, a lap time never exceeds the time the game
\* counted for that lap, and a valid one belongs to a lap that reached the
\* final sector: a lap given up in the garage is never a personal best.
LapTimeWasDriven ==
  \A l \in LapKeys :
    lapTimes[l] # None =>
      /\ truth[l] # None
      /\ lapTimes[l].time <= truth[l].time
      /\ ~lapTimes[l].invalid => truth[l].sector = 2

\* With nothing lost, the lap time is the game's last one of that lap, with
\* the game's validity for a lap that ended in the final sector, and every
\* earlier lap of the session being recorded has one.
LapTimeIsExact ==
  ~lossy => \A l \in LapKeys :
    /\ lapTimes[l] # None =>
         /\ lapTimes[l].time = truth[l].time
         /\ lapTimes[l].invalid = (truth[l].invalid \/ truth[l].sector < 2)
    /\ l \in laps /\ l[1] = session /\ l[2] < lap.num =>
         lapTimes[l] # None \/ truth[l] = None \/ truth[l].time = 0

\* With nothing lost, once the frame's lap data is in, the handler is on the
\* game's lap and, out of the pit lane, in its sector.
HandlerFollowsGame ==
  ~lossy /\ phase = "race" /\ pending = <<>> /\ frame > 0 /\ lap.open =>
    lap.num = data.lapNum /\ lap.sector = data.sector
=============================================================================
