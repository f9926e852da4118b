------------------------------- MODULE Parsers -------------------------------
(***************************************************************************)
(* internal/parser and f1.ParseHeader: which bytes of a datagram become    *)
(* which field of a payload.  A layout is the sequence of reads that a     *)
(* parse function makes through its cursor, each <<field, bytes>>; the     *)
(* four wheels of a quantity, read one after the other, are one field.     *)
(***************************************************************************)
EXTENDS Integers, Sequences

HeaderSize == 29

Skip(n) == <<"skip", n>>

\* Where the cursor stands after the first i reads.
Pos(layout) ==
  LET pos[i \in 0 .. Len(layout)] == IF i = 0 THEN 0 ELSE pos[i - 1] + layout[i][2]
  IN  pos

\* The fields a layout delivers: <<field, first byte, byte after the last>>.
FieldsOf(layout) ==
  {<<layout[i][1], Pos(layout)[i - 1], Pos(layout)[i]>> :
     i \in {j \in DOMAIN layout : layout[j][1] # "skip"}}

-----------------------------------------------------------------------------
(* The parse functions, with the width of what F1 26 packs differently.    *)

Motion(g) ==
  << <<"PosX", 4>>, <<"PosY", 4>>, <<"PosZ", 4>>, <<"VelX", 4>>, <<"VelY", 4>>, <<"VelZ", 4>>,
     Skip(12), <<"GLateral", g>>, <<"GLong", g>>, <<"GVert", g>>,
     <<"Yaw", 4>>, <<"Pitch", 4>>, <<"Roll", 4>> >>

CarTelemetry(engTemp) ==
  << <<"Speed", 2>>, <<"Throttle", 4>>, <<"Steer", 4>>, <<"Brake", 4>>, <<"Clutch", 1>>,
     <<"Gear", 1>>, <<"RPM", 2>>, <<"DRS", 1>>, Skip(3), <<"BrakesTemp", 8>>,
     <<"TyreSurfTemp", 4>>, <<"TyreInnerTemp", 4>>, <<"EngTemp", engTemp>>, <<"TyrePressure", 16>> >>

CarStatus ==
  << <<"TractionControl", 1>>, <<"AntiLockBrakes", 1>>, <<"FuelMix", 1>>, Skip(1), <<"PitLimiter", 1>>,
     <<"FuelInTank", 4>>, Skip(4), <<"FuelRemLaps", 4>>, Skip(8), <<"TyreCompound", 1>>, Skip(1),
     <<"TyreAgeLaps", 1>>, Skip(1), <<"EnginePowerICE", 4>>, <<"EnginePowerMGUK", 4>>,
     <<"ERSStore", 4>>, <<"ERSDeployMode", 1>> >>

CarDamage   == << <<"TyresWear", 16>>, Skip(4), <<"BrakesDamage", 4>> >>
CarDamage26 == << <<"TyresWear", 16>>, Skip(4), <<"BrakesDamage", 4>>, <<"TyreBlisters", 4>> >>

MotionEx ==
  << <<"SuspensionPos", 16>>, <<"SuspensionVel", 16>>, <<"SuspensionAccel", 16>>, <<"WheelSpeed", 16>>,
     <<"WheelSlipRatio", 16>>, <<"WheelSlipAngle", 16>>, <<"WheelLatForce", 16>>, <<"WheelLongForce", 16>>,
     Skip(4), <<"LocalVelX", 4>>, <<"LocalVelY", 4>>, <<"LocalVelZ", 4>>, <<"AngularVelX", 4>>,
     <<"AngularVelY", 4>>, <<"AngularVelZ", 4>>, Skip(12), <<"FrontWheelsAngle", 4>>,
     <<"WheelVertForce", 16>>, <<"FrontAeroHeight", 4>>, <<"RearAeroHeight", 4>> >>

MotionEx26 ==
  << <<"SuspensionPos", 16>>, <<"SuspensionVel", 16>>, <<"SuspensionAccel", 16>>, <<"WheelSpeed", 16>>,
     <<"WheelSlipRatio", 16>>, <<"WheelSlipAngle", 16>>, <<"WheelLatForce", 16>>, <<"WheelLongForce", 16>>,
     Skip(4), <<"LocalVelX", 4>>, <<"LocalVelY", 4>>, <<"LocalVelZ", 4>>, <<"AngularVelX", 4>>,
     <<"AngularVelY", 4>>, <<"AngularVelZ", 4>>, Skip(12), <<"FrontWheelsAngle", 4>>,
     <<"WheelVertForce", 16>>, <<"FrontAeroHeight", 4>>, <<"RearAeroHeight", 4>>,
     Skip(16), <<"WheelCamber", 16>> >>

\* driverId and teamId are cut to their low byte (uint8), which comes first.
Participants(id, gap) ==
  << Skip(1), <<"DriverID", id>>, Skip(gap), <<"TeamID", id>>, Skip(1),
     <<"RaceNumber", 1>>, Skip(1), <<"Name", 32>> >>

LapData ==
  << Skip(4), <<"CurrentLapTimeMS", 4>>, Skip(12), <<"LapDistance", 4>>, Skip(8), <<"CarPosition", 1>>,
     <<"CurrentLapNum", 1>>, <<"PitStatus", 1>>, Skip(1), <<"Sector", 1>>, <<"LapInvalid", 1>>,
     <<"Penalties", 1>>, Skip(5), <<"DriverStatus", 1>>, <<"ResultStatus", 1>> >>

Event   == << <<"Code", 4>> >>
Session == << Skip(6), <<"SessionType", 1>>, <<"TrackID", 1>> >>

F125 ==
  [cars   |-> 22,
   size   |-> [Motion |-> 60, LapData |-> 57, CarTelemetry |-> 60, CarStatus |-> 55, CarDamage |-> 42,
               MotionEx |-> 212, Participants |-> 57, Event |-> 4, Session |-> 8],
   layout |-> [Motion |-> Motion(4), LapData |-> LapData, CarTelemetry |-> CarTelemetry(2),
               CarStatus |-> CarStatus, CarDamage |-> CarDamage, MotionEx |-> MotionEx,
               Participants |-> Participants(1, 1), Event |-> Event, Session |-> Session]]

F126 ==
  [cars   |-> 24,
   size   |-> [Motion |-> 54, LapData |-> 57, CarTelemetry |-> 59, CarStatus |-> 59, CarDamage |-> 46,
               MotionEx |-> 244, Participants |-> 60, Event |-> 4, Session |-> 8],
   layout |-> [Motion |-> Motion(2), LapData |-> LapData, CarTelemetry |-> CarTelemetry(1),
               CarStatus |-> CarStatus, CarDamage |-> CarDamage26,
               MotionEx |-> MotionEx26,
               Participants |-> Participants(2, 2), Event |-> Event, Session |-> Session]]

-----------------------------------------------------------------------------
(* Dispatch: the format selects the parser, the packet id the function.    *)

registered == [format \in 2023 .. 2026 |-> IF format = 2026 THEN F126 ELSE F125]

PacketKind ==
  [id \in {0, 1, 2, 3, 4, 6, 7, 10, 13} |->
     CASE id = 0 -> "Motion"       [] id = 1 -> "Session"   [] id = 2 -> "LapData"    [] id = 3 -> "Event"
       [] id = 4 -> "Participants" [] id = 6 -> "CarTelemetry" [] id = 7 -> "CarStatus"
       [] id = 10 -> "CarDamage"   [] id = 13 -> "MotionEx"]

PerCar == {"Motion", "LapData", "CarTelemetry", "CarStatus", "CarDamage", "Participants"}

\* numActiveCars stands in front of the participants.
Lead(kind) == IF kind = "Participants" THEN 1 ELSE 0

Start(p, kind, car) == HeaderSize + Lead(kind) + (IF kind \in PerCar THEN car * p.size[kind] ELSE 0)

\* Faulty: numActiveCars is forgotten where the length is checked.
NeededWithoutLead(p, kind) == HeaderSize + (IF kind \in PerCar THEN p.cars ELSE 1) * p.size[kind]

\* The length a datagram must have: the whole grid, not just the player's slot.
Needed(p, kind) == HeaderSize + Lead(kind) + (IF kind \in PerCar THEN p.cars ELSE 1) * p.size[kind]

Accepts(p, kind, d) ==
  /\ kind \in PerCar => d.player < p.cars
  /\ d.len >= Needed(p, kind)

Rejected == [ok |-> FALSE, panic |-> FALSE, fields |-> {}]

\* What the worker makes of a datagram; a read or a slice beyond its end would
\* panic, and nothing recovers.
Parse(d) ==
  IF d.len < HeaderSize \/ d.format \notin DOMAIN registered \/ d.id \notin DOMAIN PacketKind
  THEN Rejected
  ELSE
    LET p      == registered[d.format]
        kind   == PacketKind[d.id]
        start  == Start(p, kind, d.player)
        slot   == IF kind \in {"Event", "Session"} THEN d.len - start ELSE p.size[kind]
        layout == p.layout[kind]
    IN  IF ~Accepts(p, kind, d) THEN Rejected
        ELSE [ok     |-> TRUE,
              panic  |-> start + slot > d.len \/ Pos(layout)[Len(layout)] > slot,
              fields |-> {<<f[1], start + f[2], start + f[3]>> : f \in FieldsOf(layout)}]

-----------------------------------------------------------------------------
(* The tables of f1/packets.go; of the specification of the game where it  *)
(* has none (participants, event, session).                                *)

Documented(format) ==
  LET f26(old, new) == IF format = 2026 THEN new ELSE old IN
  [Motion |->
     {<<"PosX", 0, 4>>, <<"PosY", 4, 8>>, <<"PosZ", 8, 12>>,
      <<"VelX", 12, 16>>, <<"VelY", 16, 20>>, <<"VelZ", 20, 24>>} \union
     f26({<<"GLateral", 36, 40>>, <<"GLong", 40, 44>>, <<"GVert", 44, 48>>,
          <<"Yaw", 48, 52>>, <<"Pitch", 52, 56>>, <<"Roll", 56, 60>>},
         {<<"GLateral", 36, 38>>, <<"GLong", 38, 40>>, <<"GVert", 40, 42>>,
          <<"Yaw", 42, 46>>, <<"Pitch", 46, 50>>, <<"Roll", 50, 54>>}),
   LapData |->
     {<<"CurrentLapTimeMS", 4, 8>>, <<"LapDistance", 20, 24>>, <<"CarPosition", 32, 33>>,
      <<"CurrentLapNum", 33, 34>>, <<"PitStatus", 34, 35>>, <<"Sector", 36, 37>>, <<"LapInvalid", 37, 38>>,
      <<"Penalties", 38, 39>>, <<"DriverStatus", 44, 45>>, <<"ResultStatus", 45, 46>>},
   CarTelemetry |->
     {<<"Speed", 0, 2>>, <<"Throttle", 2, 6>>, <<"Steer", 6, 10>>, <<"Brake", 10, 14>>, <<"Clutch", 14, 15>>,
      <<"Gear", 15, 16>>, <<"RPM", 16, 18>>, <<"DRS", 18, 19>>, <<"BrakesTemp", 22, 30>>,
      <<"TyreSurfTemp", 30, 34>>, <<"TyreInnerTemp", 34, 38>>} \union
     f26({<<"EngTemp", 38, 40>>, <<"TyrePressure", 40, 56>>}, {<<"EngTemp", 38, 39>>, <<"TyrePressure", 39, 55>>}),
   CarStatus |->
     {<<"TractionControl", 0, 1>>, <<"AntiLockBrakes", 1, 2>>, <<"FuelMix", 2, 3>>, <<"PitLimiter", 4, 5>>,
      <<"FuelInTank", 5, 9>>, <<"FuelRemLaps", 13, 17>>, <<"TyreCompound", 25, 26>>, <<"TyreAgeLaps", 27, 28>>,
      <<"EnginePowerICE", 29, 33>>, <<"EnginePowerMGUK", 33, 37>>, <<"ERSStore", 37, 41>>, <<"ERSDeployMode", 41, 42>>},
   CarDamage |->
     {<<"TyresWear", 0, 16>>, <<"BrakesDamage", 20, 24>>} \union f26({}, {<<"TyreBlisters", 24, 28>>}),
   MotionEx |->
     {<<"SuspensionPos", 0, 16>>, <<"SuspensionVel", 16, 32>>, <<"SuspensionAccel", 32, 48>>, <<"WheelSpeed", 48, 64>>,
      <<"WheelSlipRatio", 64, 80>>, <<"WheelSlipAngle", 80, 96>>, <<"WheelLatForce", 96, 112>>,
      <<"WheelLongForce", 112, 128>>, <<"LocalVelX", 132, 136>>, <<"LocalVelY", 136, 140>>, <<"LocalVelZ", 140, 144>>,
      <<"AngularVelX", 144, 148>>, <<"AngularVelY", 148, 152>>, <<"AngularVelZ", 152, 156>>,
      <<"FrontWheelsAngle", 168, 172>>, <<"WheelVertForce", 172, 188>>,
      <<"FrontAeroHeight", 188, 192>>, <<"RearAeroHeight", 192, 196>>} \union f26({}, {<<"WheelCamber", 212, 228>>}),
   Participants |->
     f26({<<"DriverID", 1, 2>>, <<"TeamID", 3, 4>>, <<"RaceNumber", 5, 6>>, <<"Name", 7, 39>>},
         {<<"DriverID", 1, 3>>, <<"TeamID", 5, 7>>, <<"RaceNumber", 8, 9>>, <<"Name", 10, 42>>}),
   Event   |-> {<<"Code", 0, 4>>},
   Session |-> {<<"SessionType", 6, 7>>, <<"TrackID", 7, 8>>}]

\* Bytes per car in the specifications of F1 25 and F1 26 under docs/.
GameStride(format) ==
  IF format = 2026
  THEN [Motion |-> 54, LapData |-> 57, CarTelemetry |-> 59, CarStatus |-> 59, CarDamage |-> 46, Participants |-> 60]
  ELSE [Motion |-> 60, LapData |-> 57, CarTelemetry |-> 60, CarStatus |-> 55, CarDamage |-> 46, Participants |-> 57]

\* Where the slot of a car starts in a datagram of the game.
GameStart(format, kind, car) ==
  HeaderSize + Lead(kind) + (IF kind \in PerCar THEN car * GameStride(format)[kind] ELSE 0)
=============================================================================
