----------------------------- MODULE WireFormat -----------------------------
(***************************************************************************)
(* A telemetry row on its way from a query to a chart: the registry of     *)
(* fields and the encoding (database/fields.go, reader.go), and the        *)
(* client's decoder (telemetry_decoder.gd).  A value is known by its row   *)
(* and its field; what is modelled is where its bytes go and as what.      *)
(* The four wheels of a quantity are one name here; the client asks for    *)
(* none of these.                                                          *)
(***************************************************************************)
EXTENDS Integers, Sequences, TLC

Wheels   == {"tyre_surf_temp", "tyre_inner_temp", "tyre_pressure", "tyre_wear", "brake_temp",
             "susp_pos", "susp_vel", "susp_accel", "wheel_speed", "wheel_slip_ratio", "wheel_slip_angle",
             "wheel_lat_force", "wheel_long_force", "wheel_vert_force", "wheel_camber"}
Averages == {"tyre_surf_avg", "tyre_inner_avg", "tyre_press_avg", "tyre_wear_avg", "brake_temp_avg"}

\* fieldRegistry: the fields of each declared type.
TypeF32 == Wheels \union Averages \union
  {"speed", "throttle", "brake", "steering", "clutch", "pos_x", "pos_y", "pos_z", "vel_x", "vel_y", "vel_z",
   "yaw", "pitch", "roll", "g_lat", "g_long", "g_vert", "eng_temp", "fuel", "fuel_rem_laps",
   "engine_power_ice", "engine_power_mguk", "ers_store", "local_vel_x", "local_vel_y", "local_vel_z",
   "ang_vel_x", "ang_vel_y", "ang_vel_z", "front_wheels_angle", "front_aero_height", "rear_aero_height"}
TypeI16 == {"gear", "drs", "fuel_mix", "pit_limiter", "ers_deploy_mode", "traction_control", "abs",
            "tyre_compound", "tyre_age_laps", "tyre_blister", "brake_damage", "car_position", "sector",
            "pit_status", "driver_status", "lap_invalid", "penalties"}
TypeI32 == {"rpm", "lap_time_ms"}

Registry == TypeF32 \union TypeI16 \union TypeI32

Size(f) == IF f \in TypeI16 THEN 2 ELSE 4

FieldType(f) == CASE f \in TypeF32 -> "float32" [] f \in TypeI16 -> "int16" [] f \in TypeI32 -> "int32"

\* The columns of the table telemetry that are not REAL.
Smallint == {"gear", "drs", "fuel_mix", "pit_limiter", "ers_deploy_mode", "traction_control", "abs",
             "tyre_compound", "tyre_age_laps", "tyre_blister", "brake_damage", "car_position", "sector",
             "pit_status", "driver_status", "lap_invalid", "penalties"}
Integer  == {"rpm", "lap_time_ms"}

\* Faulty: the average of four REAL columns is DOUBLE PRECISION.
ScannedUncast(f) ==
  CASE f \in Averages -> "float64" [] f \in Smallint -> "int16" [] f \in Integer -> "int32" [] OTHER -> "float32"

\* What the driver scans a column into; the averages are cast to REAL.
Scanned(f) == CASE f \in Smallint -> "int16" [] f \in Integer -> "int32" [] OTHER -> "float32"

-----------------------------------------------------------------------------
(* The engine.                                                             *)

\* The first occurrence of each name, in order; unknown names are refused.
ResolveFields(names) ==
  IF \E i \in DOMAIN names : names[i] \notin Registry
  THEN <<>>
  ELSE LET first == {i \in DOMAIN names : \A j \in 1 .. i - 1 : names[j] # names[i]}
           out[i \in 0 .. Len(names)] ==
             IF i = 0 THEN <<>> ELSE IF i \in first THEN Append(out[i - 1], names[i]) ELSE out[i - 1]
       IN  out[Len(names)]

\* ts, car_index, lap_num, lap_distance, then a value per field.
FieldOffset(fields) ==
  LET at[i \in 1 .. Len(fields) + 1] == IF i = 1 THEN 16 ELSE at[i - 1] + Size(fields[i - 1])
  IN  at

RowSize(fields) == FieldOffset(fields)[Len(fields) + 1]

\* encodeTelemetryRow asserts the type of each value: it panics on another one.
RowPanics(fields) == \E i \in DOMAIN fields : Scanned(fields[i]) # FieldType(fields[i])

\* What one row holds: <<field, first byte, type>>.
EncodedRow(fields) ==
  {<<"ts", 0, "int64">>, <<"car_index", 8, "int16">>, <<"lap_num", 10, "int16">>, <<"lap_distance", 12, "float32">>}
    \union {<<fields[i], FieldOffset(fields)[i], FieldType(fields[i])>> : i \in DOMAIN fields}

\* Each value of the body: <<row, field, first byte, type>>.
EncodedRows(fields, n, start) ==
  {<<r, v[1], start + (r - 1) * RowSize(fields) + v[2], v[3]>> : r \in 1 .. n, v \in EncodedRow(fields)}

\* An HTTP response (magic, version, field count and ids first) or a frame.
EncodeTelemetryBinary(fields, n) ==
  [count |-> 4 + Len(fields), values |-> EncodedRows(fields, n, 8 + Len(fields)),
   size |-> 8 + Len(fields) + n * RowSize(fields)]
EncodeTelemetryFrame(fields, n) ==
  [count |-> 0, values |-> EncodedRows(fields, n, 4), size |-> 4 + n * RowSize(fields)]

-----------------------------------------------------------------------------
(* The client.                                                             *)

DEFAULT_FIELD_NAMES ==
  <<"throttle", "brake", "steering", "clutch", "gear", "drs", "speed", "g_lat", "g_long", "g_vert",
    "rpm", "eng_temp", "engine_power_ice", "engine_power_mguk", "ers_store", "fuel", "fuel_rem_laps",
    "tyre_surf_avg", "tyre_inner_avg", "tyre_press_avg", "tyre_wear_avg", "brake_temp_avg">>

ROW_SIZE         == 100
HTTP_HEADER_SIZE == 30

\* The constants F_* with what field() decodes there.
Offsets ==
  {<<"ts", 0, "int64">>, <<"car_index", 8, "int16">>, <<"lap_num", 10, "int16">>, <<"lap_distance", 12, "float32">>,
   <<"throttle", 16, "float32">>, <<"brake", 20, "float32">>, <<"steering", 24, "float32">>, <<"clutch", 28, "float32">>,
   <<"gear", 32, "int16">>, <<"drs", 34, "int16">>, <<"speed", 36, "float32">>, <<"g_lat", 40, "float32">>,
   <<"g_long", 44, "float32">>, <<"g_vert", 48, "float32">>, <<"rpm", 52, "int32">>, <<"eng_temp", 56, "float32">>,
   <<"engine_power_ice", 60, "float32">>, <<"engine_power_mguk", 64, "float32">>, <<"ers_store", 68, "float32">>,
   <<"fuel", 72, "float32">>, <<"fuel_rem_laps", 76, "float32">>, <<"tyre_surf_avg", 80, "float32">>,
   <<"tyre_inner_avg", 84, "float32">>, <<"tyre_press_avg", 88, "float32">>, <<"tyre_wear_avg", 92, "float32">>,
   <<"brake_temp_avg", 96, "float32">>}

\* What to_chart_points reads of a body with n rows: <<row, field, byte, type>>.
Decoded(n, isHttp) ==
  LET header == IF isHttp THEN HTTP_HEADER_SIZE ELSE 4
  IN  [count  |-> header - 4,
       values |-> {<<r, o[1], header + (r - 1) * ROW_SIZE + o[2], o[3]>> : r \in 1 .. n, o \in Offsets}]

-----------------------------------------------------------------------------
(* A live series on a chart: an HTTP-shaped blob that grows by the rows of *)
(* the frames.  Of the bytes before the rows only two words matter.        *)

empty_raw_blob == [word |-> (4 :> 0) @@ (HTTP_HEADER_SIZE - 4 :> 0), rows |-> <<>>]

append_series_rows(raw, rows) ==
  [word |-> [raw.word EXCEPT ![4] = @ + Len(rows)], rows |-> raw.rows \o rows]

\* The rows to_chart_points plots of it.
Plotted(raw) == SubSeq(raw.rows, 1, raw.word[HTTP_HEADER_SIZE - 4])

\* _on_stream_frame: the rows up to the first one of another lap, then that row
\* and all that follow, into a series cleared for its lap.
StreamFrame(board, rows) ==
  LET others == {i \in DOMAIN rows : rows[i] # board.lap}
      split  == CHOOSE i \in others : \A j \in others : i <= j
  IN  IF others = {}
      THEN [board EXCEPT !.raw = append_series_rows(@, rows)]
      ELSE [lap |-> rows[split],
            raw |-> append_series_rows(empty_raw_blob, SubSeq(rows, split, Len(rows)))]
=============================================================================
