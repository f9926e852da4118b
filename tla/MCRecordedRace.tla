--------------------------- MODULE MCRecordedRace ---------------------------
(* Bounded instances of RecordedRace. *)
EXTENDS RecordedRace, TLC

CONSTANTS s1, s2

\* Session ids are interchangeable.
Symmetric == Permutations(Sessions)

RacePackets ==
  [lapNum : LapNums, time : LapTimes, sector : 0 .. 2, pit : {FALSE},
   invalid : BOOLEAN, active : {TRUE}]

\* CarTelemetry follows LapData in a frame.
LapAndTelemetry == <<"Lap", "Telemetry">>
=============================================================================
