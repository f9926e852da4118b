---------------------------- MODULE Conversions ----------------------------
(***************************************************************************)
(* The computations without a state of their own, from datagram to chart:  *)
(* one call after the other, on inputs at every boundary of the code.      *)
(***************************************************************************)
EXTENDS Parsers, WireFormat, IdealLap, FiniteSets

CONSTANTS
  Frames,    \* frames of a lap
  MaxDelay,  \* how late the handler may stamp a row
  Places,    \* places on the track, a third of them in each sector
  MaxRows    \* rows in one answer or frame

ASSUME ConversionsAssumption ==
  /\ Frames \in Nat /\ MaxDelay \in Nat
  /\ Places \in Nat \ {0} /\ MaxRows \in Nat

VARIABLE call \* the last call: its kind and its input

none == [kind |-> "none"]

-----------------------------------------------------------------------------
(* A datagram arrives.  Lengths: those at which a guard changes its mind,  *)
(* and the one the game sends.                                             *)

GameSize(format, kind) ==
  LET p == registered[format]
      trailer == CASE kind = "LapData" -> 2 [] kind = "CarTelemetry" -> 3 [] OTHER -> 0
  IN  HeaderSize + Lead(kind) + trailer + p.cars * GameStride(format)[kind]

Lengths(format, id) ==
  {0, HeaderSize - 1, HeaderSize} \union
  IF format \notin DOMAIN registered \/ id \notin DOMAIN PacketKind THEN {1500}
  ELSE {Needed(registered[format], PacketKind[id]) + n : n \in -1 .. 1} \union
       IF PacketKind[id] \in PerCar THEN {GameSize(format, PacketKind[id])} ELSE {}

Headers ==
  [format : {0} \union 2023 .. 2026, id : 0 .. 14, player : {0, 1, 21, 22, 23, 24, 255}]

Datagram ==
  \E h \in Headers : \E len \in Lengths(h.format, h.id) :
    call' = [kind |-> "datagram", d |-> [format |-> h.format, id |-> h.id, player |-> h.player, len |-> len]]

\* A lap is fetched, or rows are streamed.
Answer ==
  \E n \in 0 .. MaxRows, isHttp \in BOOLEAN :
    call' = [kind |-> "answer", n |-> n, isHttp |-> isHttp]

\* Two laps have been recorded, without some of their frames; the car moves on
\* from frame to frame.  A row is stamped by the clock of the engine when its
\* frame is handled, and has the lap time of the game; the lap ends with the
\* last lap data that was handled, that of the last row if no frame was lost.
SectorOf(place) == (3 * place) \div Places

Rising(n, S) == {s \in [1 .. n -> S] : \A i, j \in 1 .. n : i < j => s[i] < s[j]}

\* The clocks of a lap with n rows.
Drives(n) ==
  {d \in [frames : Rising(n, 0 .. Frames - 1), stamps : Rising(n, 0 .. Frames - 1 + MaxDelay),
          finish : 1 .. Frames - 1] :
     \A i \in 1 .. n : /\ d.stamps[i] \in d.frames[i] .. d.frames[i] + MaxDelay
                       /\ d.frames[i] <= d.finish}

LapOf(start, d, places, invalid) ==
  [rows    |-> [i \in DOMAIN places |->
                 [ts |-> start + d.stamps[i], time |-> d.frames[i], dist |-> places[i],
                  sector |-> SectorOf(places[i])]],
   finish  |-> d.finish,
   invalid |-> invalid]

RecordedLaps(start) ==
  UNION {{LapOf(start, d, places, invalid) :
            d \in Drives(n), places \in Rising(n, 0 .. Places - 1), invalid \in 0 .. 1} :
         n \in 0 .. Frames}

Ideal ==
  \E one \in RecordedLaps(0), two \in RecordedLaps(100) :
    /\ one \in Listed({one})
    /\ call' = [kind |-> "ideal", laps |-> {one, two}]

\* A live series has been watched from lap 1 on: each frame of the stream is the
\* laps of its rows.
Watch ==
  LET rows == UNION {[1 .. n -> 1 .. 2] : n \in 1 .. MaxRows}
      frames == {f \in rows : \A i, j \in DOMAIN f : i < j => f[i] <= f[j]}
  IN  \E first, second \in frames :
        call' = [kind |-> "watch", frames |-> <<first, second>>]

ConversionsInit == call = none

ConversionsNext ==
  \/ call = none /\ (Datagram \/ Answer \/ Ideal \/ Watch)
  \/ call # none /\ call' = none

ConversionsSpec == ConversionsInit /\ [][ConversionsNext]_call

-----------------------------------------------------------------------------

\* The damage of F1 25, but for the first car, is read in the wrong slot:
\* PlayersOwnSlot.
Misplaced(d) == d.format = 2025 /\ PacketKind[d.id] = "CarDamage" /\ d.player > 0

\* Whatever a datagram says, no parser reads beyond it; and of F1 25 and F1 26,
\* the games whose specifications are under docs/, each field comes from the
\* bytes that these and f1/packets.go give it, in the slot of the player's car
\* where they put it, the damage of F1 25 excepted.
PayloadAsDocumented ==
  call.kind = "datagram" =>
    LET d == call.d
        r == Parse(d)
    IN  /\ ~r.panic
        /\ \A f \in r.fields : f[3] <= d.len
        /\ r.ok /\ d.format \in {2025, 2026} /\ ~Misplaced(d) =>
             LET kind  == PacketKind[d.id]
                 start == GameStart(d.format, kind, d.player)
             IN  r.fields = {<<f[1], start + f[2], start + f[3]>> : f \in Documented(d.format)[kind]}

\* A datagram as the game sends it yields the values of the player's own car:
\* the slot lies where the specification of the game puts it ("Car Damage
\* Packet ... Size: 1041 bytes", 46 bytes for each of 22 cars).
PlayersOwnSlot ==
  call.kind = "datagram" =>
    LET d == call.d IN
    d.format \in {2025, 2026} /\ Parse(d).ok /\ PacketKind[d.id] \in PerCar /\ d.len = GameSize(d.format, PacketKind[d.id]) =>
      Start(registered[d.format], PacketKind[d.id], d.player) = GameStart(d.format, PacketKind[d.id], d.player)

\* The engine encodes every row without a failed type assertion, and the client
\* reads each value at the bytes and as the type the engine wrote, whole rows
\* up to the end of the body.
ClientReadsEngineRow ==
  call.kind = "answer" =>
    LET fields  == ResolveFields(DEFAULT_FIELD_NAMES)
        body    == IF call.isHttp THEN EncodeTelemetryBinary(fields, call.n) ELSE EncodeTelemetryFrame(fields, call.n)
        decoded == Decoded(call.n, call.isHttp)
    IN  /\ ~RowPanics(fields)
        /\ decoded.count = body.count
        /\ decoded.values = body.values
        /\ body.size = decoded.count + 4 + call.n * ROW_SIZE

\* A listed lap is a candidate for the ideal lap unless a single row of its final
\* sector was stored.  With a candidate there is an ideal lap: no candidate is
\* faster, the stitched lap runs forward in time and distance, no longer than the
\* ideal time but for the delays of the stamps, and the forward walk of the delta
\* chart finds for every row of a listed lap the rows of the stitched lap around it.
IdealLapCharts ==
  call.kind = "ideal" =>
    LET rows == IdealRows(call.laps) IN
    /\ \A lap \in Listed(call.laps) : lap \in Candidates(call.laps) \/ OneRowIn(lap, 2)
    /\ Candidates(call.laps) # {} =>
         /\ \A lap \in Candidates(call.laps) : IdealTime(call.laps) <= lap.finish
         /\ Runs(rows)
         /\ rows[Len(rows)].ts - rows[1].ts <= IdealTime(call.laps) + 3 * MaxDelay
         /\ Len(rows) > 1 =>
              \A lap \in Listed(call.laps) : \A i \in Ranks(lap.rows) :
                Encloses(rows, Walk(lap.rows, rows)[i], lap.rows[i].dist)

\* The chart of a live series shows the rows that have arrived for its lap
\* ("so points accumulate without needing to re-fetch everything").
LiveRowsPlotted ==
  call.kind = "watch" =>
    LET board == StreamFrame(StreamFrame([lap |-> 1, raw |-> empty_raw_blob], call.frames[1]), call.frames[2])
    IN  Plotted(board.raw) = board.raw.rows
=============================================================================
