------------------------------ MODULE IdealLap ------------------------------
(***************************************************************************)
(* The ideal lap of a track (database/reader.go: BestSectors,              *)
(* QueryTelemetrySector, BuildIdealLapRows; consumer_api/telemetry.go) and *)
(* the delta chart drawn against it (telemetry_decoder.gd).                *)
(*                                                                         *)
(* A recorded lap is its telemetry rows in the order of ts, the lap time   *)
(* of lap_times and its validity.  Times are milliseconds.                 *)
(***************************************************************************)
EXTENDS Integers, Sequences

Ranks(s) == 1 .. Len(s)

TimesIn(lap, sector) == {lap.rows[i].time : i \in {j \in Ranks(lap.rows) : lap.rows[j].sector = sector}}

MinOf(S) == CHOOSE x \in S : \A y \in S : x <= y

S2Start(lap) == MinOf(TimesIn(lap, 1))
S3Start(lap) == MinOf(TimesIn(lap, 2))

\* The duration of one sector of a lap, 0 to 2.
SectorTime(lap, sector) ==
  CASE sector = 0 -> S2Start(lap)
    [] sector = 1 -> S3Start(lap) - S2Start(lap)
    [] sector = 2 -> lap.finish - S3Start(lap)

Covered(lap) == \A sector \in 0 .. 2 : TimesIn(lap, sector) # {}

OneRowIn(lap, sector) ==
  \A i, j \in Ranks(lap.rows) : lap.rows[i].sector = sector /\ lap.rows[j].sector = sector => i = j

\* What ListLapTimes lists.
Listed(laps) == {lap \in laps : lap.invalid = 0 /\ Covered(lap)}

\* The laps that contribute a time for each sector.
Candidates(laps) ==
  {lap \in laps : /\ lap.invalid = 0 /\ Covered(lap)
                  /\ S2Start(lap) > 0
                  /\ S3Start(lap) > S2Start(lap)
                  /\ lap.finish > S3Start(lap)}

\* The lap with the fastest time of a sector; the first one of equals.
Best(laps, sector) ==
  CHOOSE lap \in Candidates(laps) :
    \A other \in Candidates(laps) : SectorTime(lap, sector) <= SectorTime(other, sector)

IdealTime(laps) ==
  SectorTime(Best(laps, 0), 0) + SectorTime(Best(laps, 1), 1) + SectorTime(Best(laps, 2), 2)

QueryTelemetrySector(lap, sector) ==
  LET upTo[i \in 0 .. Len(lap.rows)] ==
        IF i = 0 THEN <<>>
        ELSE IF lap.rows[i].sector = sector THEN Append(upTo[i - 1], lap.rows[i]) ELSE upTo[i - 1]
  IN  upTo[Len(lap.rows)]

Shift(row, ts, dist) == [row EXCEPT !.ts = @ + ts, !.dist = @ + dist]

\* Faulty: the first row of the segment is not dropped.
AppendWholeSegment(out, seg) ==
  IF seg = <<>> THEN out
  ELSE IF out = <<>> THEN seg
  ELSE LET last == out[Len(out)]
           rest == [i \in 1 .. Len(seg) |->
                      Shift(seg[i], last.ts - seg[1].ts, last.dist - seg[1].dist)]
       IN  out \o rest

\* One segment put behind the rows so far: its first row would fall on the last
\* one of these and is dropped.
AppendSegment(out, seg) ==
  IF seg = <<>> THEN out
  ELSE IF out = <<>> THEN seg
  ELSE LET last == out[Len(out)]
           rest == [i \in 1 .. Len(seg) - 1 |->
                      Shift(seg[i + 1], last.ts - seg[1].ts, last.dist - seg[1].dist)]
       IN  out \o rest

BuildIdealLapRows(seg1, seg2, seg3) == AppendSegment(AppendSegment(seg1, seg2), seg3)

IdealRows(laps) ==
  BuildIdealLapRows(QueryTelemetrySector(Best(laps, 0), 0),
                    QueryTelemetrySector(Best(laps, 1), 1),
                    QueryTelemetrySector(Best(laps, 2), 2))

\* Both clocks of a lap run on from row to row.
Runs(rows) ==
  \A i, j \in Ranks(rows) : i < j => rows[i].ts < rows[j].ts /\ rows[i].dist < rows[j].dist

-----------------------------------------------------------------------------
(* to_delta_chart_points: row i of a lap is compared with the reference    *)
(* between its rows Walk[i] and Walk[i] + 1, found by walking forward only.*)

Walk(data, ref) ==
  LET Ahead(from, dist) ==
        MinOf({k \in from .. Len(ref) - 1 : k = Len(ref) - 1 \/ ref[k + 1].dist >= dist})
      walk[i \in Ranks(data)] == Ahead(IF i = 1 THEN 1 ELSE walk[i - 1], data[i].dist)
  IN  walk

\* The two rows of the reference that enclose a distance, or its nearest end.
Encloses(ref, k, dist) ==
  /\ k \in 1 .. Len(ref) - 1
  /\ k > 1 => ref[k].dist < dist
  /\ k < Len(ref) - 1 => dist <= ref[k + 1].dist
=============================================================================
