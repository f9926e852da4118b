------------------------- MODULE ConversionsProofs -------------------------
(***************************************************************************)
(* Theorems about Conversions: what its runs check on short laps and small *)
(* answers, for every value of its constants.  A function defined by       *)
(* recursion is shown to be the one that a witness table describes.        *)
(***************************************************************************)
EXTENDS Conversions, WellFoundedInduction, TLAPS

\* Induction over the naturals without an operator parameter: a set of naturals
\* has a least element, and a set closed under successor holds them all.
LEMMA LeastNatural ==
  ASSUME NEW S \in SUBSET Nat, S # {}
  PROVE  \E x \in S : \A y \in S : x <= y
<1>1. PICK x \in S : \A y \in S : ~ (<<y, x>> \in OpToRel(<, Nat))
  BY NatLessThanWellFounded, WFMin
<1>2. \A y \in S : ~(y < x)
  BY <1>1 DEF OpToRel
<1> QED BY <1>2

LEMMA InductionOnSet ==
  ASSUME NEW S, 0 \in S, \A n \in Nat : n \in S => n + 1 \in S
  PROVE  Nat \subseteq S
<1> SUFFICES ASSUME Nat \ S # {} PROVE FALSE
  OBVIOUS
<1>1. PICK x \in Nat \ S : \A y \in Nat \ S : x <= y
  BY LeastNatural
<1>2. x # 0 /\ x - 1 \in Nat /\ x - 1 \in S
  BY <1>1
<1> QED BY <1>2

Updates(n, V) == [1 .. n -> [V -> V]]
Computes(f, n, base, F) == f[0] = base /\ \A i \in 1 .. n : f[i] = F[i][f[i - 1]]

\* A recursive function over 0 .. N with values in V exists: it starts at base,
\* and F[i] makes its value at i of the one before.
LEMMA RecursiveFunction ==
  ASSUME NEW N \in Nat, NEW V, NEW base \in V, NEW F \in Updates(N, V)
  PROVE  \E f \in [0 .. N -> V] : Computes(f, N, base, F)
<1> USE DEF Updates, Computes
<1> DEFINE Good(n, f) == f[0] = base /\ \A i \in 1 .. n : f[i] = F[i][f[i - 1]]
           S == {n \in Nat : n <= N => \E f \in [0 .. n -> V] : Good(n, f)}
<1>1. 0 \in S
  <2>1. [i \in 0 .. 0 |-> base] \in [0 .. 0 -> V] /\ Good(0, [i \in 0 .. 0 |-> base])
    OBVIOUS
  <2> QED BY <2>1
<1>2. ASSUME NEW n \in Nat, n \in S PROVE n + 1 \in S
  <2> SUFFICES ASSUME n + 1 <= N PROVE \E f \in [0 .. n + 1 -> V] : Good(n + 1, f)
    OBVIOUS
  <2>1. PICK f \in [0 .. n -> V] : Good(n, f)
    BY <1>2
  <2> DEFINE g == [i \in 0 .. n + 1 |-> IF i = n + 1 THEN F[n + 1][f[n]] ELSE f[i]]
  <2>2. F[n + 1][f[n]] \in V
    <3>1. n + 1 \in 1 .. N /\ f[n] \in V
      OBVIOUS
    <3> QED BY <3>1
  <2>3. g \in [0 .. n + 1 -> V]
    BY <2>2
  <2>4. Good(n + 1, g)
    BY <2>1
  <2> QED BY <2>3, <2>4
<1> HIDE DEF S
<1>3. N \in S
  BY <1>1, <1>2, InductionOnSet
<1> QED BY <1>3 DEF S

-----------------------------------------------------------------------------
(* From a datagram to a payload. *)

\* at: where the cursor stands after each read of a layout.
StandsAt(at, layout) ==
  /\ at \in [0 .. Len(layout) -> Nat] /\ at[0] = 0
  /\ \A i \in 1 .. Len(layout) : at[i] = at[i - 1] + layout[i][2]

\* The cursor of a layout stands where the table of its positions says.
LEMMA PosIs ==
  ASSUME NEW layout, Len(layout) \in Nat, NEW at, StandsAt(at, layout)
  PROVE  Pos(layout) = at
<1>0. PICK N \in Nat : N = Len(layout)
  OBVIOUS
<1> USE <1>0 DEF StandsAt
<1> DEFINE Body(g) == [i \in 0 .. Len(layout) |-> IF i = 0 THEN 0 ELSE g[i - 1] + layout[i][2]]
<1>1. at = Body(at)
  <2>1. ASSUME NEW i \in 0 .. N PROVE at[i] = IF i = 0 THEN 0 ELSE at[i - 1] + layout[i][2]
    <3>1. i = 0 \/ i \in 1 .. N
      OBVIOUS
    <3> QED BY <3>1
  <2>2. at = [i \in 0 .. N |-> at[i]]
    OBVIOUS
  <2> QED BY <2>1, <2>2
<1>2. ASSUME NEW g, g = Body(g) PROVE g = at
  <2> DEFINE S == {n \in Nat : n <= N => g[n] = at[n]}
  <2>1. 0 \in S
    BY <1>2
  <2>2. ASSUME NEW n \in Nat, n \in S PROVE n + 1 \in S
    <3> SUFFICES ASSUME n + 1 <= N PROVE g[n + 1] = at[n + 1]
      OBVIOUS
    <3>1. n + 1 \in 1 .. N /\ n + 1 \in 0 .. N /\ n + 1 - 1 = n /\ n + 1 # 0
      OBVIOUS
    <3>2. g[n + 1] = g[n] + layout[n + 1][2]
      BY <1>2, <3>1
    <3>3. at[n + 1] = at[n] + layout[n + 1][2]
      BY <3>1
    <3> QED BY <2>2, <3>2, <3>3
  <2> HIDE DEF S
  <2>3. Nat \subseteq S
    BY <2>1, <2>2, InductionOnSet
  <2>4. ASSUME NEW i \in 0 .. N PROVE g[i] = at[i]
    BY <2>3 DEF S
  <2>5. g = [i \in 0 .. N |-> g[i]] /\ at = [i \in 0 .. N |-> at[i]]
    BY <1>2
  <2> QED BY <2>4, <2>5
<1>3. Pos(layout) = CHOOSE g : g = Body(g)
  BY DEF Pos
<1> HIDE DEF Body
<1> QED BY <1>1, <1>2, <1>3

\* The fields of a layout, whose cursor stands at at.
FieldTable(layout, at) ==
  {<<layout[i][1], at[i - 1], at[i]>> : i \in {j \in DOMAIN layout : layout[j][1] # "skip"}}

LEMMA FieldsAre ==
  ASSUME NEW layout, Len(layout) \in Nat, DOMAIN layout = 1 .. Len(layout), NEW at, StandsAt(at, layout)
  PROVE  FieldsOf(layout) = FieldTable(layout, at) /\ Pos(layout)[Len(layout)] = at[Len(layout)]
BY PosIs DEF FieldsOf, FieldTable

\* The reads of a layout deliver these fields, and end after last bytes.
Reads(layout, fields, last) ==
  /\ FieldsOf(layout) = fields
  /\ \A f \in fields : f[3] \in 0 .. last
  /\ Pos(layout)[Len(layout)] = last

\* Each layout, read through its cursor, against the table of f1/packets.go.
LEMMA Motion25Fields ==
  \A format : format # 2026 => Reads(Motion(4), Documented(format)["Motion"], 60)
<1> DEFINE ends == <<4, 8, 12, 16, 20, 24, 36, 40, 44, 48, 52, 56, 60>>
           at == [i \in 0 .. 13 |-> IF i = 0 THEN 0 ELSE ends[i]]
           table == {<<"PosX", 0, 4>>, <<"PosY", 4, 8>>, <<"PosZ", 8, 12>>, <<"VelX", 12, 16>>,
                     <<"VelY", 16, 20>>, <<"VelZ", 20, 24>>, <<"GLateral", 36, 40>>,
                     <<"GLong", 40, 44>>, <<"GVert", 44, 48>>, <<"Yaw", 48, 52>>,
                     <<"Pitch", 52, 56>>, <<"Roll", 56, 60>>}
<1>1. StandsAt(at, Motion(4))
  BY DEF StandsAt, Motion, Skip
<1>2. /\ Len(Motion(4)) = 13 /\ DOMAIN Motion(4) = 1 .. 13
      /\ Len(Motion(4)) \in Nat /\ DOMAIN Motion(4) = 1 .. Len(Motion(4)) /\ at[Len(Motion(4))] = 60
  BY DEF Motion, Skip
<1>3. {j \in 1 .. 13 : Motion(4)[j][1] # "skip"} = {1, 2, 3, 4, 5, 6, 8, 9, 10, 11, 12, 13}
  BY DEF Motion, Skip
<1>4. {<<Motion(4)[i][1], at[i - 1], at[i]>> : i \in {1, 2, 3, 4, 5, 6, 8, 9, 10, 11, 12, 13}} = table
  BY DEF Motion, Skip
<1>5. \A f \in table : f[3] \in 0 .. 60
  OBVIOUS
<1>6. \A format : format # 2026 => Documented(format)["Motion"] = table
  BY DEF Documented
<1> HIDE DEF ends, at, table
<1>7. FieldTable(Motion(4), at) = table
  BY <1>2, <1>3, <1>4 DEF FieldTable
<1>8. FieldsOf(Motion(4)) = FieldTable(Motion(4), at) /\ Pos(Motion(4))[Len(Motion(4))] = at[Len(Motion(4))]
  <2>1. Len(Motion(4)) \in Nat /\ DOMAIN Motion(4) = 1 .. Len(Motion(4))
    BY <1>2
  <2> QED BY <1>1, <2>1, FieldsAre
<1> QED BY <1>2, <1>5, <1>6, <1>7, <1>8 DEF Reads

LEMMA Motion26Fields ==
  Reads(Motion(2), Documented(2026)["Motion"], 54)
<1> DEFINE ends == <<4, 8, 12, 16, 20, 24, 36, 38, 40, 42, 46, 50, 54>>
           at == [i \in 0 .. 13 |-> IF i = 0 THEN 0 ELSE ends[i]]
           table == {<<"PosX", 0, 4>>, <<"PosY", 4, 8>>, <<"PosZ", 8, 12>>, <<"VelX", 12, 16>>,
                     <<"VelY", 16, 20>>, <<"VelZ", 20, 24>>, <<"GLateral", 36, 38>>,
                     <<"GLong", 38, 40>>, <<"GVert", 40, 42>>, <<"Yaw", 42, 46>>,
                     <<"Pitch", 46, 50>>, <<"Roll", 50, 54>>}
<1>1. StandsAt(at, Motion(2))
  BY DEF StandsAt, Motion, Skip
<1>2. /\ Len(Motion(2)) = 13 /\ DOMAIN Motion(2) = 1 .. 13
      /\ Len(Motion(2)) \in Nat /\ DOMAIN Motion(2) = 1 .. Len(Motion(2)) /\ at[Len(Motion(2))] = 54
  BY DEF Motion, Skip
<1>3. {j \in 1 .. 13 : Motion(2)[j][1] # "skip"} = {1, 2, 3, 4, 5, 6, 8, 9, 10, 11, 12, 13}
  BY DEF Motion, Skip
<1>4. {<<Motion(2)[i][1], at[i - 1], at[i]>> : i \in {1, 2, 3, 4, 5, 6, 8, 9, 10, 11, 12, 13}} = table
  BY DEF Motion, Skip
<1>5. \A f \in table : f[3] \in 0 .. 54
  OBVIOUS
<1>6. Documented(2026)["Motion"] = table
  BY DEF Documented
<1> HIDE DEF ends, at, table
<1>7. FieldTable(Motion(2), at) = table
  BY <1>2, <1>3, <1>4 DEF FieldTable
<1>8. FieldsOf(Motion(2)) = FieldTable(Motion(2), at) /\ Pos(Motion(2))[Len(Motion(2))] = at[Len(Motion(2))]
  <2>1. Len(Motion(2)) \in Nat /\ DOMAIN Motion(2) = 1 .. Len(Motion(2))
    BY <1>2
  <2> QED BY <1>1, <2>1, FieldsAre
<1> QED BY <1>2, <1>5, <1>6, <1>7, <1>8 DEF Reads

LEMMA LapDataFields ==
  \A format : Reads(LapData, Documented(format)["LapData"], 46)
<1> DEFINE ends == <<4, 8, 20, 24, 32, 33, 34, 35, 36, 37, 38, 39, 44, 45, 46>>
           at == [i \in 0 .. 15 |-> IF i = 0 THEN 0 ELSE ends[i]]
           table == {<<"CurrentLapTimeMS", 4, 8>>, <<"LapDistance", 20, 24>>,
                     <<"CarPosition", 32, 33>>, <<"CurrentLapNum", 33, 34>>,
                     <<"PitStatus", 34, 35>>, <<"Sector", 36, 37>>, <<"LapInvalid", 37, 38>>,
                     <<"Penalties", 38, 39>>, <<"DriverStatus", 44, 45>>,
                     <<"ResultStatus", 45, 46>>}
<1>1. StandsAt(at, LapData)
  BY DEF StandsAt, LapData, Skip
<1>2. /\ Len(LapData) = 15 /\ DOMAIN LapData = 1 .. 15
      /\ Len(LapData) \in Nat /\ DOMAIN LapData = 1 .. Len(LapData) /\ at[Len(LapData)] = 46
  BY DEF LapData, Skip
<1>3. {j \in 1 .. 15 : LapData[j][1] # "skip"} = {2, 4, 6, 7, 8, 10, 11, 12, 14, 15}
  BY DEF LapData, Skip
<1>4. {<<LapData[i][1], at[i - 1], at[i]>> : i \in {2, 4, 6, 7, 8, 10, 11, 12, 14, 15}} = table
  BY DEF LapData, Skip
<1>5. \A f \in table : f[3] \in 0 .. 46
  OBVIOUS
<1>6. \A format : Documented(format)["LapData"] = table
  BY DEF Documented
<1> HIDE DEF ends, at, table
<1>7. FieldTable(LapData, at) = table
  BY <1>2, <1>3, <1>4 DEF FieldTable
<1>8. FieldsOf(LapData) = FieldTable(LapData, at) /\ Pos(LapData)[Len(LapData)] = at[Len(LapData)]
  <2>1. Len(LapData) \in Nat /\ DOMAIN LapData = 1 .. Len(LapData)
    BY <1>2
  <2> QED BY <1>1, <2>1, FieldsAre
<1> QED BY <1>2, <1>5, <1>6, <1>7, <1>8 DEF Reads

LEMMA CarTelemetry25Fields ==
  \A format : format # 2026 => Reads(CarTelemetry(2), Documented(format)["CarTelemetry"], 56)
<1> DEFINE ends == <<2, 6, 10, 14, 15, 16, 18, 19, 22, 30, 34, 38, 40, 56>>
           at == [i \in 0 .. 14 |-> IF i = 0 THEN 0 ELSE ends[i]]
           table == {<<"Speed", 0, 2>>, <<"Throttle", 2, 6>>, <<"Steer", 6, 10>>,
                     <<"Brake", 10, 14>>, <<"Clutch", 14, 15>>, <<"Gear", 15, 16>>,
                     <<"RPM", 16, 18>>, <<"DRS", 18, 19>>, <<"BrakesTemp", 22, 30>>,
                     <<"TyreSurfTemp", 30, 34>>, <<"TyreInnerTemp", 34, 38>>, <<"EngTemp", 38, 40>>,
                     <<"TyrePressure", 40, 56>>}
<1>1. StandsAt(at, CarTelemetry(2))
  BY DEF StandsAt, CarTelemetry, Skip
<1>2. /\ Len(CarTelemetry(2)) = 14 /\ DOMAIN CarTelemetry(2) = 1 .. 14
      /\ Len(CarTelemetry(2)) \in Nat /\ DOMAIN CarTelemetry(2) = 1 .. Len(CarTelemetry(2)) /\ at[Len(CarTelemetry(2))] = 56
  BY DEF CarTelemetry, Skip
<1>3. {j \in 1 .. 14 : CarTelemetry(2)[j][1] # "skip"} = {1, 2, 3, 4, 5, 6, 7, 8, 10, 11, 12, 13, 14}
  BY DEF CarTelemetry, Skip
<1>4. {<<CarTelemetry(2)[i][1], at[i - 1], at[i]>> : i \in {1, 2, 3, 4, 5, 6, 7, 8, 10, 11, 12, 13, 14}} = table
  BY DEF CarTelemetry, Skip
<1>5. \A f \in table : f[3] \in 0 .. 56
  OBVIOUS
<1>6. \A format : format # 2026 => Documented(format)["CarTelemetry"] = table
  BY DEF Documented
<1> HIDE DEF ends, at, table
<1>7. FieldTable(CarTelemetry(2), at) = table
  BY <1>2, <1>3, <1>4 DEF FieldTable
<1>8. FieldsOf(CarTelemetry(2)) = FieldTable(CarTelemetry(2), at) /\ Pos(CarTelemetry(2))[Len(CarTelemetry(2))] = at[Len(CarTelemetry(2))]
  <2>1. Len(CarTelemetry(2)) \in Nat /\ DOMAIN CarTelemetry(2) = 1 .. Len(CarTelemetry(2))
    BY <1>2
  <2> QED BY <1>1, <2>1, FieldsAre
<1> QED BY <1>2, <1>5, <1>6, <1>7, <1>8 DEF Reads

LEMMA CarTelemetry26Fields ==
  Reads(CarTelemetry(1), Documented(2026)["CarTelemetry"], 55)
<1> DEFINE ends == <<2, 6, 10, 14, 15, 16, 18, 19, 22, 30, 34, 38, 39, 55>>
           at == [i \in 0 .. 14 |-> IF i = 0 THEN 0 ELSE ends[i]]
           table == {<<"Speed", 0, 2>>, <<"Throttle", 2, 6>>, <<"Steer", 6, 10>>,
                     <<"Brake", 10, 14>>, <<"Clutch", 14, 15>>, <<"Gear", 15, 16>>,
                     <<"RPM", 16, 18>>, <<"DRS", 18, 19>>, <<"BrakesTemp", 22, 30>>,
                     <<"TyreSurfTemp", 30, 34>>, <<"TyreInnerTemp", 34, 38>>, <<"EngTemp", 38, 39>>,
                     <<"TyrePressure", 39, 55>>}
<1>1. StandsAt(at, CarTelemetry(1))
  BY DEF StandsAt, CarTelemetry, Skip
<1>2. /\ Len(CarTelemetry(1)) = 14 /\ DOMAIN CarTelemetry(1) = 1 .. 14
      /\ Len(CarTelemetry(1)) \in Nat /\ DOMAIN CarTelemetry(1) = 1 .. Len(CarTelemetry(1)) /\ at[Len(CarTelemetry(1))] = 55
  BY DEF CarTelemetry, Skip
<1>3. {j \in 1 .. 14 : CarTelemetry(1)[j][1] # "skip"} = {1, 2, 3, 4, 5, 6, 7, 8, 10, 11, 12, 13, 14}
  BY DEF CarTelemetry, Skip
<1>4. {<<CarTelemetry(1)[i][1], at[i - 1], at[i]>> : i \in {1, 2, 3, 4, 5, 6, 7, 8, 10, 11, 12, 13, 14}} = table
  BY DEF CarTelemetry, Skip
<1>5. \A f \in table : f[3] \in 0 .. 55
  OBVIOUS
<1>6. Documented(2026)["CarTelemetry"] = table
  BY DEF Documented
<1> HIDE DEF ends, at, table
<1>7. FieldTable(CarTelemetry(1), at) = table
  BY <1>2, <1>3, <1>4 DEF FieldTable
<1>8. FieldsOf(CarTelemetry(1)) = FieldTable(CarTelemetry(1), at) /\ Pos(CarTelemetry(1))[Len(CarTelemetry(1))] = at[Len(CarTelemetry(1))]
  <2>1. Len(CarTelemetry(1)) \in Nat /\ DOMAIN CarTelemetry(1) = 1 .. Len(CarTelemetry(1))
    BY <1>2
  <2> QED BY <1>1, <2>1, FieldsAre
<1> QED BY <1>2, <1>5, <1>6, <1>7, <1>8 DEF Reads

LEMMA CarStatusFields ==
  \A format : Reads(CarStatus, Documented(format)["CarStatus"], 42)
<1> DEFINE ends == <<1, 2, 3, 4, 5, 9, 13, 17, 25, 26, 27, 28, 29, 33, 37, 41, 42>>
           at == [i \in 0 .. 17 |-> IF i = 0 THEN 0 ELSE ends[i]]
           table == {<<"TractionControl", 0, 1>>, <<"AntiLockBrakes", 1, 2>>, <<"FuelMix", 2, 3>>,
                     <<"PitLimiter", 4, 5>>, <<"FuelInTank", 5, 9>>, <<"FuelRemLaps", 13, 17>>,
                     <<"TyreCompound", 25, 26>>, <<"TyreAgeLaps", 27, 28>>,
                     <<"EnginePowerICE", 29, 33>>, <<"EnginePowerMGUK", 33, 37>>,
                     <<"ERSStore", 37, 41>>, <<"ERSDeployMode", 41, 42>>}
<1>1. StandsAt(at, CarStatus)
  BY DEF StandsAt, CarStatus, Skip
<1>2. /\ Len(CarStatus) = 17 /\ DOMAIN CarStatus = 1 .. 17
      /\ Len(CarStatus) \in Nat /\ DOMAIN CarStatus = 1 .. Len(CarStatus) /\ at[Len(CarStatus)] = 42
  BY DEF CarStatus, Skip
<1>3. {j \in 1 .. 17 : CarStatus[j][1] # "skip"} = {1, 2, 3, 5, 6, 8, 10, 12, 14, 15, 16, 17}
  BY DEF CarStatus, Skip
<1>4. {<<CarStatus[i][1], at[i - 1], at[i]>> : i \in {1, 2, 3, 5, 6, 8, 10, 12, 14, 15, 16, 17}} = table
  BY DEF CarStatus, Skip
<1>5. \A f \in table : f[3] \in 0 .. 42
  OBVIOUS
<1>6. \A format : Documented(format)["CarStatus"] = table
  BY DEF Documented
<1> HIDE DEF ends, at, table
<1>7. FieldTable(CarStatus, at) = table
  BY <1>2, <1>3, <1>4 DEF FieldTable
<1>8. FieldsOf(CarStatus) = FieldTable(CarStatus, at) /\ Pos(CarStatus)[Len(CarStatus)] = at[Len(CarStatus)]
  <2>1. Len(CarStatus) \in Nat /\ DOMAIN CarStatus = 1 .. Len(CarStatus)
    BY <1>2
  <2> QED BY <1>1, <2>1, FieldsAre
<1> QED BY <1>2, <1>5, <1>6, <1>7, <1>8 DEF Reads

LEMMA CarDamage25Fields ==
  \A format : format # 2026 => Reads(CarDamage, Documented(format)["CarDamage"], 24)
<1> DEFINE ends == <<16, 20, 24>>
           at == [i \in 0 .. 3 |-> IF i = 0 THEN 0 ELSE ends[i]]
           table == {<<"TyresWear", 0, 16>>, <<"BrakesDamage", 20, 24>>}
<1>1. StandsAt(at, CarDamage)
  BY DEF StandsAt, CarDamage, Skip
<1>2. /\ Len(CarDamage) = 3 /\ DOMAIN CarDamage = 1 .. 3
      /\ Len(CarDamage) \in Nat /\ DOMAIN CarDamage = 1 .. Len(CarDamage) /\ at[Len(CarDamage)] = 24
  BY DEF CarDamage, Skip
<1>3. {j \in 1 .. 3 : CarDamage[j][1] # "skip"} = {1, 3}
  BY DEF CarDamage, Skip
<1>4. {<<CarDamage[i][1], at[i - 1], at[i]>> : i \in {1, 3}} = table
  BY DEF CarDamage, Skip
<1>5. \A f \in table : f[3] \in 0 .. 24
  OBVIOUS
<1>6. \A format : format # 2026 => Documented(format)["CarDamage"] = table
  BY DEF Documented
<1> HIDE DEF ends, at, table
<1>7. FieldTable(CarDamage, at) = table
  BY <1>2, <1>3, <1>4 DEF FieldTable
<1>8. FieldsOf(CarDamage) = FieldTable(CarDamage, at) /\ Pos(CarDamage)[Len(CarDamage)] = at[Len(CarDamage)]
  <2>1. Len(CarDamage) \in Nat /\ DOMAIN CarDamage = 1 .. Len(CarDamage)
    BY <1>2
  <2> QED BY <1>1, <2>1, FieldsAre
<1> QED BY <1>2, <1>5, <1>6, <1>7, <1>8 DEF Reads

LEMMA CarDamage26Fields ==
  Reads(CarDamage26, Documented(2026)["CarDamage"], 28)
<1> DEFINE ends == <<16, 20, 24, 28>>
           at == [i \in 0 .. 4 |-> IF i = 0 THEN 0 ELSE ends[i]]
           table == {<<"TyresWear", 0, 16>>, <<"BrakesDamage", 20, 24>>, <<"TyreBlisters", 24, 28>>}
<1>1. StandsAt(at, CarDamage26)
  BY DEF StandsAt, CarDamage26, Skip
<1>2. /\ Len(CarDamage26) = 4 /\ DOMAIN CarDamage26 = 1 .. 4
      /\ Len(CarDamage26) \in Nat /\ DOMAIN CarDamage26 = 1 .. Len(CarDamage26) /\ at[Len(CarDamage26)] = 28
  BY DEF CarDamage26, Skip
<1>3. {j \in 1 .. 4 : CarDamage26[j][1] # "skip"} = {1, 3, 4}
  BY DEF CarDamage26, Skip
<1>4. {<<CarDamage26[i][1], at[i - 1], at[i]>> : i \in {1, 3, 4}} = table
  BY DEF CarDamage26, Skip
<1>5. \A f \in table : f[3] \in 0 .. 28
  OBVIOUS
<1>6. Documented(2026)["CarDamage"] = table
  BY DEF Documented
<1> HIDE DEF ends, at, table
<1>7. FieldTable(CarDamage26, at) = table
  BY <1>2, <1>3, <1>4 DEF FieldTable
<1>8. FieldsOf(CarDamage26) = FieldTable(CarDamage26, at) /\ Pos(CarDamage26)[Len(CarDamage26)] = at[Len(CarDamage26)]
  <2>1. Len(CarDamage26) \in Nat /\ DOMAIN CarDamage26 = 1 .. Len(CarDamage26)
    BY <1>2
  <2> QED BY <1>1, <2>1, FieldsAre
<1> QED BY <1>2, <1>5, <1>6, <1>7, <1>8 DEF Reads

LEMMA MotionEx25Fields ==
  \A format : format # 2026 => Reads(MotionEx, Documented(format)["MotionEx"], 196)
<1> DEFINE ends == <<16, 32, 48, 64, 80, 96, 112, 128, 132, 136, 140, 144, 148, 152, 156, 168, 172, 188, 192, 196>>
           at == [i \in 0 .. 20 |-> IF i = 0 THEN 0 ELSE ends[i]]
           table == {<<"SuspensionPos", 0, 16>>, <<"SuspensionVel", 16, 32>>,
                     <<"SuspensionAccel", 32, 48>>, <<"WheelSpeed", 48, 64>>,
                     <<"WheelSlipRatio", 64, 80>>, <<"WheelSlipAngle", 80, 96>>,
                     <<"WheelLatForce", 96, 112>>, <<"WheelLongForce", 112, 128>>,
                     <<"LocalVelX", 132, 136>>, <<"LocalVelY", 136, 140>>,
                     <<"LocalVelZ", 140, 144>>, <<"AngularVelX", 144, 148>>,
                     <<"AngularVelY", 148, 152>>, <<"AngularVelZ", 152, 156>>,
                     <<"FrontWheelsAngle", 168, 172>>, <<"WheelVertForce", 172, 188>>,
                     <<"FrontAeroHeight", 188, 192>>, <<"RearAeroHeight", 192, 196>>}
<1>1. StandsAt(at, MotionEx)
  BY DEF StandsAt, MotionEx, Skip
<1>2. /\ Len(MotionEx) = 20 /\ DOMAIN MotionEx = 1 .. 20
      /\ Len(MotionEx) \in Nat /\ DOMAIN MotionEx = 1 .. Len(MotionEx) /\ at[Len(MotionEx)] = 196
  BY DEF MotionEx, Skip
<1>3. {j \in 1 .. 20 : MotionEx[j][1] # "skip"} = {1, 2, 3, 4, 5, 6, 7, 8, 10, 11, 12, 13, 14, 15, 17, 18, 19, 20}
  BY DEF MotionEx, Skip
<1>4. {<<MotionEx[i][1], at[i - 1], at[i]>> : i \in {1, 2, 3, 4, 5, 6, 7, 8, 10, 11, 12, 13, 14, 15, 17, 18, 19, 20}} = table
  BY DEF MotionEx, Skip
<1>5. \A f \in table : f[3] \in 0 .. 196
  OBVIOUS
<1>6. \A format : format # 2026 => Documented(format)["MotionEx"] = table
  BY DEF Documented
<1> HIDE DEF ends, at, table
<1>7. FieldTable(MotionEx, at) = table
  BY <1>2, <1>3, <1>4 DEF FieldTable
<1>8. FieldsOf(MotionEx) = FieldTable(MotionEx, at) /\ Pos(MotionEx)[Len(MotionEx)] = at[Len(MotionEx)]
  <2>1. Len(MotionEx) \in Nat /\ DOMAIN MotionEx = 1 .. Len(MotionEx)
    BY <1>2
  <2> QED BY <1>1, <2>1, FieldsAre
<1> QED BY <1>2, <1>5, <1>6, <1>7, <1>8 DEF Reads

LEMMA MotionEx26Fields ==
  Reads(MotionEx26, Documented(2026)["MotionEx"], 228)
<1> DEFINE ends == <<16, 32, 48, 64, 80, 96, 112, 128, 132, 136, 140, 144, 148, 152, 156, 168, 172, 188, 192, 196, 212, 228>>
           at == [i \in 0 .. 22 |-> IF i = 0 THEN 0 ELSE ends[i]]
           table == {<<"SuspensionPos", 0, 16>>, <<"SuspensionVel", 16, 32>>,
                     <<"SuspensionAccel", 32, 48>>, <<"WheelSpeed", 48, 64>>,
                     <<"WheelSlipRatio", 64, 80>>, <<"WheelSlipAngle", 80, 96>>,
                     <<"WheelLatForce", 96, 112>>, <<"WheelLongForce", 112, 128>>,
                     <<"LocalVelX", 132, 136>>, <<"LocalVelY", 136, 140>>,
                     <<"LocalVelZ", 140, 144>>, <<"AngularVelX", 144, 148>>,
                     <<"AngularVelY", 148, 152>>, <<"AngularVelZ", 152, 156>>,
                     <<"FrontWheelsAngle", 168, 172>>, <<"WheelVertForce", 172, 188>>,
                     <<"FrontAeroHeight", 188, 192>>, <<"RearAeroHeight", 192, 196>>,
                     <<"WheelCamber", 212, 228>>}
<1>1. StandsAt(at, MotionEx26)
  BY DEF StandsAt, MotionEx26, Skip
<1>2. /\ Len(MotionEx26) = 22 /\ DOMAIN MotionEx26 = 1 .. 22
      /\ Len(MotionEx26) \in Nat /\ DOMAIN MotionEx26 = 1 .. Len(MotionEx26) /\ at[Len(MotionEx26)] = 228
  BY DEF MotionEx26, Skip
<1>3. {j \in 1 .. 22 : MotionEx26[j][1] # "skip"} = {1, 2, 3, 4, 5, 6, 7, 8, 10, 11, 12, 13, 14, 15, 17, 18, 19, 20, 22}
  BY DEF MotionEx26, Skip
<1>4. {<<MotionEx26[i][1], at[i - 1], at[i]>> : i \in {1, 2, 3, 4, 5, 6, 7, 8, 10, 11, 12, 13, 14, 15, 17, 18, 19, 20, 22}} = table
  BY DEF MotionEx26, Skip
<1>5. \A f \in table : f[3] \in 0 .. 228
  OBVIOUS
<1>6. Documented(2026)["MotionEx"] = table
  BY DEF Documented
<1> HIDE DEF ends, at, table
<1>7. FieldTable(MotionEx26, at) = table
  BY <1>2, <1>3, <1>4 DEF FieldTable
<1>8. FieldsOf(MotionEx26) = FieldTable(MotionEx26, at) /\ Pos(MotionEx26)[Len(MotionEx26)] = at[Len(MotionEx26)]
  <2>1. Len(MotionEx26) \in Nat /\ DOMAIN MotionEx26 = 1 .. Len(MotionEx26)
    BY <1>2
  <2> QED BY <1>1, <2>1, FieldsAre
<1> QED BY <1>2, <1>5, <1>6, <1>7, <1>8 DEF Reads

LEMMA Participants25Fields ==
  \A format : format # 2026 => Reads(Participants(1, 1), Documented(format)["Participants"], 39)
<1> DEFINE ends == <<1, 2, 3, 4, 5, 6, 7, 39>>
           at == [i \in 0 .. 8 |-> IF i = 0 THEN 0 ELSE ends[i]]
           table == {<<"DriverID", 1, 2>>, <<"TeamID", 3, 4>>, <<"RaceNumber", 5, 6>>,
                     <<"Name", 7, 39>>}
<1>1. StandsAt(at, Participants(1, 1))
  BY DEF StandsAt, Participants, Skip
<1>2. /\ Len(Participants(1, 1)) = 8 /\ DOMAIN Participants(1, 1) = 1 .. 8
      /\ Len(Participants(1, 1)) \in Nat /\ DOMAIN Participants(1, 1) = 1 .. Len(Participants(1, 1)) /\ at[Len(Participants(1, 1))] = 39
  BY DEF Participants, Skip
<1>3. {j \in 1 .. 8 : Participants(1, 1)[j][1] # "skip"} = {2, 4, 6, 8}
  BY DEF Participants, Skip
<1>4. {<<Participants(1, 1)[i][1], at[i - 1], at[i]>> : i \in {2, 4, 6, 8}} = table
  BY DEF Participants, Skip
<1>5. \A f \in table : f[3] \in 0 .. 39
  OBVIOUS
<1>6. \A format : format # 2026 => Documented(format)["Participants"] = table
  BY DEF Documented
<1> HIDE DEF ends, at, table
<1>7. FieldTable(Participants(1, 1), at) = table
  BY <1>2, <1>3, <1>4 DEF FieldTable
<1>8. FieldsOf(Participants(1, 1)) = FieldTable(Participants(1, 1), at) /\ Pos(Participants(1, 1))[Len(Participants(1, 1))] = at[Len(Participants(1, 1))]
  <2>1. Len(Participants(1, 1)) \in Nat /\ DOMAIN Participants(1, 1) = 1 .. Len(Participants(1, 1))
    BY <1>2
  <2> QED BY <1>1, <2>1, FieldsAre
<1> QED BY <1>2, <1>5, <1>6, <1>7, <1>8 DEF Reads

LEMMA Participants26Fields ==
  Reads(Participants(2, 2), Documented(2026)["Participants"], 42)
<1> DEFINE ends == <<1, 3, 5, 7, 8, 9, 10, 42>>
           at == [i \in 0 .. 8 |-> IF i = 0 THEN 0 ELSE ends[i]]
           table == {<<"DriverID", 1, 3>>, <<"TeamID", 5, 7>>, <<"RaceNumber", 8, 9>>,
                     <<"Name", 10, 42>>}
<1>1. StandsAt(at, Participants(2, 2))
  BY DEF StandsAt, Participants, Skip
<1>2. /\ Len(Participants(2, 2)) = 8 /\ DOMAIN Participants(2, 2) = 1 .. 8
      /\ Len(Participants(2, 2)) \in Nat /\ DOMAIN Participants(2, 2) = 1 .. Len(Participants(2, 2)) /\ at[Len(Participants(2, 2))] = 42
  BY DEF Participants, Skip
<1>3. {j \in 1 .. 8 : Participants(2, 2)[j][1] # "skip"} = {2, 4, 6, 8}
  BY DEF Participants, Skip
<1>4. {<<Participants(2, 2)[i][1], at[i - 1], at[i]>> : i \in {2, 4, 6, 8}} = table
  BY DEF Participants, Skip
<1>5. \A f \in table : f[3] \in 0 .. 42
  OBVIOUS
<1>6. Documented(2026)["Participants"] = table
  BY DEF Documented
<1> HIDE DEF ends, at, table
<1>7. FieldTable(Participants(2, 2), at) = table
  BY <1>2, <1>3, <1>4 DEF FieldTable
<1>8. FieldsOf(Participants(2, 2)) = FieldTable(Participants(2, 2), at) /\ Pos(Participants(2, 2))[Len(Participants(2, 2))] = at[Len(Participants(2, 2))]
  <2>1. Len(Participants(2, 2)) \in Nat /\ DOMAIN Participants(2, 2) = 1 .. Len(Participants(2, 2))
    BY <1>2
  <2> QED BY <1>1, <2>1, FieldsAre
<1> QED BY <1>2, <1>5, <1>6, <1>7, <1>8 DEF Reads

LEMMA EventFields ==
  \A format : Reads(Event, Documented(format)["Event"], 4)
<1> DEFINE ends == <<4>>
           at == [i \in 0 .. 1 |-> IF i = 0 THEN 0 ELSE ends[i]]
           table == {<<"Code", 0, 4>>}
<1>1. StandsAt(at, Event)
  BY DEF StandsAt, Event, Skip
<1>2. /\ Len(Event) = 1 /\ DOMAIN Event = 1 .. 1
      /\ Len(Event) \in Nat /\ DOMAIN Event = 1 .. Len(Event) /\ at[Len(Event)] = 4
  BY DEF Event, Skip
<1>3. {j \in 1 .. 1 : Event[j][1] # "skip"} = {1}
  BY DEF Event, Skip
<1>4. {<<Event[i][1], at[i - 1], at[i]>> : i \in {1}} = table
  BY DEF Event, Skip
<1>5. \A f \in table : f[3] \in 0 .. 4
  OBVIOUS
<1>6. \A format : Documented(format)["Event"] = table
  BY DEF Documented
<1> HIDE DEF ends, at, table
<1>7. FieldTable(Event, at) = table
  BY <1>2, <1>3, <1>4 DEF FieldTable
<1>8. FieldsOf(Event) = FieldTable(Event, at) /\ Pos(Event)[Len(Event)] = at[Len(Event)]
  <2>1. Len(Event) \in Nat /\ DOMAIN Event = 1 .. Len(Event)
    BY <1>2
  <2> QED BY <1>1, <2>1, FieldsAre
<1> QED BY <1>2, <1>5, <1>6, <1>7, <1>8 DEF Reads

LEMMA SessionFields ==
  \A format : Reads(Session, Documented(format)["Session"], 8)
<1> DEFINE ends == <<6, 7, 8>>
           at == [i \in 0 .. 3 |-> IF i = 0 THEN 0 ELSE ends[i]]
           table == {<<"SessionType", 6, 7>>, <<"TrackID", 7, 8>>}
<1>1. StandsAt(at, Session)
  BY DEF StandsAt, Session, Skip
<1>2. /\ Len(Session) = 3 /\ DOMAIN Session = 1 .. 3
      /\ Len(Session) \in Nat /\ DOMAIN Session = 1 .. Len(Session) /\ at[Len(Session)] = 8
  BY DEF Session, Skip
<1>3. {j \in 1 .. 3 : Session[j][1] # "skip"} = {2, 3}
  BY DEF Session, Skip
<1>4. {<<Session[i][1], at[i - 1], at[i]>> : i \in {2, 3}} = table
  BY DEF Session, Skip
<1>5. \A f \in table : f[3] \in 0 .. 8
  OBVIOUS
<1>6. \A format : Documented(format)["Session"] = table
  BY DEF Documented
<1> HIDE DEF ends, at, table
<1>7. FieldTable(Session, at) = table
  BY <1>2, <1>3, <1>4 DEF FieldTable
<1>8. FieldsOf(Session) = FieldTable(Session, at) /\ Pos(Session)[Len(Session)] = at[Len(Session)]
  <2>1. Len(Session) \in Nat /\ DOMAIN Session = 1 .. Len(Session)
    BY <1>2
  <2> QED BY <1>1, <2>1, FieldsAre
<1> QED BY <1>2, <1>5, <1>6, <1>7, <1>8 DEF Reads

\* Every payload of a kind is read from the documented fields, within the bytes
\* counted for one slot of that kind.
WellRead(p, format, kind) ==
  /\ p.size[kind] \in Nat
  /\ \E last \in 0 .. p.size[kind] :
       /\ Reads(p.layout[kind], Documented(format)[kind], last)
       /\ kind \in {"Event", "Session"} => last = p.size[kind]

Kinds == PerCar \union {"MotionEx", "Event", "Session"}

\* The layouts of F1 25, also registered for 2023 and 2024, and of F1 26.
LEMMA WellRead25 ==
  ASSUME NEW format, format # 2026, NEW kind \in Kinds
  PROVE  WellRead(F125, format, kind)
<1>1. CASE kind = "Motion"
  <2>1. F125.layout[kind] = Motion(4) /\ F125.size[kind] = 60
    BY <1>1 DEF F125
  <2>2. Reads(Motion(4), Documented(format)[kind], 60)
    BY <1>1, Motion25Fields
  <2> QED BY <1>1, <2>1, <2>2 DEF WellRead
<1>2. CASE kind = "LapData"
  <2>1. F125.layout[kind] = LapData /\ F125.size[kind] = 57
    BY <1>2 DEF F125
  <2>2. Reads(LapData, Documented(format)[kind], 46)
    BY <1>2, LapDataFields
  <2> QED BY <1>2, <2>1, <2>2 DEF WellRead
<1>3. CASE kind = "CarTelemetry"
  <2>1. F125.layout[kind] = CarTelemetry(2) /\ F125.size[kind] = 60
    BY <1>3 DEF F125
  <2>2. Reads(CarTelemetry(2), Documented(format)[kind], 56)
    BY <1>3, CarTelemetry25Fields
  <2> QED BY <1>3, <2>1, <2>2 DEF WellRead
<1>4. CASE kind = "CarStatus"
  <2>1. F125.layout[kind] = CarStatus /\ F125.size[kind] = 55
    BY <1>4 DEF F125
  <2>2. Reads(CarStatus, Documented(format)[kind], 42)
    BY <1>4, CarStatusFields
  <2> QED BY <1>4, <2>1, <2>2 DEF WellRead
<1>5. CASE kind = "CarDamage"
  <2>1. F125.layout[kind] = CarDamage /\ F125.size[kind] = 42
    BY <1>5 DEF F125
  <2>2. Reads(CarDamage, Documented(format)[kind], 24)
    BY <1>5, CarDamage25Fields
  <2> QED BY <1>5, <2>1, <2>2 DEF WellRead
<1>6. CASE kind = "Participants"
  <2>1. F125.layout[kind] = Participants(1, 1) /\ F125.size[kind] = 57
    BY <1>6 DEF F125
  <2>2. Reads(Participants(1, 1), Documented(format)[kind], 39)
    BY <1>6, Participants25Fields
  <2> QED BY <1>6, <2>1, <2>2 DEF WellRead
<1>7. CASE kind = "MotionEx"
  <2>1. F125.layout[kind] = MotionEx /\ F125.size[kind] = 212
    BY <1>7 DEF F125
  <2>2. Reads(MotionEx, Documented(format)[kind], 196)
    BY <1>7, MotionEx25Fields
  <2> QED BY <1>7, <2>1, <2>2 DEF WellRead
<1>8. CASE kind = "Event"
  <2>1. F125.layout[kind] = Event /\ F125.size[kind] = 4
    BY <1>8 DEF F125
  <2>2. Reads(Event, Documented(format)[kind], 4)
    BY <1>8, EventFields
  <2> QED BY <1>8, <2>1, <2>2 DEF WellRead
<1>9. CASE kind = "Session"
  <2>1. F125.layout[kind] = Session /\ F125.size[kind] = 8
    BY <1>9 DEF F125
  <2>2. Reads(Session, Documented(format)[kind], 8)
    BY <1>9, SessionFields
  <2> QED BY <1>9, <2>1, <2>2 DEF WellRead
<1> QED BY <1>1, <1>2, <1>3, <1>4, <1>5, <1>6, <1>7, <1>8, <1>9 DEF Kinds, PerCar

LEMMA WellRead26 ==
  ASSUME NEW kind \in Kinds
  PROVE  WellRead(F126, 2026, kind)
<1>1. CASE kind = "Motion"
  <2>1. F126.layout[kind] = Motion(2) /\ F126.size[kind] = 54
    BY <1>1 DEF F126
  <2>2. Reads(Motion(2), Documented(2026)[kind], 54)
    BY <1>1, Motion26Fields
  <2> QED BY <1>1, <2>1, <2>2 DEF WellRead
<1>2. CASE kind = "LapData"
  <2>1. F126.layout[kind] = LapData /\ F126.size[kind] = 57
    BY <1>2 DEF F126
  <2>2. Reads(LapData, Documented(2026)[kind], 46)
    BY <1>2, LapDataFields
  <2> QED BY <1>2, <2>1, <2>2 DEF WellRead
<1>3. CASE kind = "CarTelemetry"
  <2>1. F126.layout[kind] = CarTelemetry(1) /\ F126.size[kind] = 59
    BY <1>3 DEF F126
  <2>2. Reads(CarTelemetry(1), Documented(2026)[kind], 55)
    BY <1>3, CarTelemetry26Fields
  <2> QED BY <1>3, <2>1, <2>2 DEF WellRead
<1>4. CASE kind = "CarStatus"
  <2>1. F126.layout[kind] = CarStatus /\ F126.size[kind] = 59
    BY <1>4 DEF F126
  <2>2. Reads(CarStatus, Documented(2026)[kind], 42)
    BY <1>4, CarStatusFields
  <2> QED BY <1>4, <2>1, <2>2 DEF WellRead
<1>5. CASE kind = "CarDamage"
  <2>1. F126.layout[kind] = CarDamage26 /\ F126.size[kind] = 46
    BY <1>5 DEF F126
  <2>2. Reads(CarDamage26, Documented(2026)[kind], 28)
    BY <1>5, CarDamage26Fields
  <2> QED BY <1>5, <2>1, <2>2 DEF WellRead
<1>6. CASE kind = "Participants"
  <2>1. F126.layout[kind] = Participants(2, 2) /\ F126.size[kind] = 60
    BY <1>6 DEF F126
  <2>2. Reads(Participants(2, 2), Documented(2026)[kind], 42)
    BY <1>6, Participants26Fields
  <2> QED BY <1>6, <2>1, <2>2 DEF WellRead
<1>7. CASE kind = "MotionEx"
  <2>1. F126.layout[kind] = MotionEx26 /\ F126.size[kind] = 244
    BY <1>7 DEF F126
  <2>2. Reads(MotionEx26, Documented(2026)[kind], 228)
    BY <1>7, MotionEx26Fields
  <2> QED BY <1>7, <2>1, <2>2 DEF WellRead
<1>8. CASE kind = "Event"
  <2>1. F126.layout[kind] = Event /\ F126.size[kind] = 4
    BY <1>8 DEF F126
  <2>2. Reads(Event, Documented(2026)[kind], 4)
    BY <1>8, EventFields
  <2> QED BY <1>8, <2>1, <2>2 DEF WellRead
<1>9. CASE kind = "Session"
  <2>1. F126.layout[kind] = Session /\ F126.size[kind] = 8
    BY <1>9 DEF F126
  <2>2. Reads(Session, Documented(2026)[kind], 8)
    BY <1>9, SessionFields
  <2> QED BY <1>9, <2>1, <2>2 DEF WellRead
<1> QED BY <1>1, <1>2, <1>3, <1>4, <1>5, <1>6, <1>7, <1>8, <1>9 DEF Kinds, PerCar

\* The slot of a car lies within the grid.
LEMMA SlotInGrid ==
  ASSUME NEW car \in Nat, NEW cars \in Nat, NEW size \in Nat, car < cars
  PROVE  car * size \in Nat /\ cars * size \in Nat /\ car * size + size <= cars * size
<1>1. PICK k \in Nat : cars = car + 1 + k
  <2>1. cars - car - 1 \in Nat /\ cars = car + 1 + (cars - car - 1)
    OBVIOUS
  <2> QED BY <2>1
<1>2. cars * size = car * size + size + k * size
  BY <1>1
<1>3. k * size \in Nat /\ car * size \in Nat /\ cars * size \in Nat
  OBVIOUS
<1> QED BY <1>2, <1>3

\* The dispatch tables send a datagram to one of the two parsers and a known kind.
LEMMA Dispatched ==
  /\ \A format \in DOMAIN registered :
       /\ registered[format] = IF format = 2026 THEN F126 ELSE F125
       /\ registered[format].cars \in Nat
  /\ \A id \in DOMAIN PacketKind : PacketKind[id] \in Kinds
<1>1. \A format \in DOMAIN registered :
        /\ registered[format] = IF format = 2026 THEN F126 ELSE F125
        /\ registered[format].cars \in Nat
  BY DEF registered, F125, F126
<1>2. \A id \in DOMAIN PacketKind : PacketKind[id] \in Kinds
  BY DEF PacketKind, Kinds, PerCar
<1> QED BY <1>1, <1>2

LEMMA SlotsAreRead ==
  ASSUME NEW format \in DOMAIN registered, NEW id \in DOMAIN PacketKind
  PROVE  WellRead(registered[format], format, PacketKind[id])
<1>1. PacketKind[id] \in Kinds
  BY Dispatched
<1>2. CASE format = 2026
  BY <1>1, <1>2, Dispatched, WellRead26
<1>3. CASE format # 2026
  BY <1>1, <1>3, Dispatched, WellRead25
<1> QED BY <1>2, <1>3

\* A payload for one datagram: the length guard of its parse function covers the
\* slot of every car, so that of the player too.
LEMMA PayloadRead ==
  ASSUME NEW d, d.player \in Nat, d.len \in Int
  PROVE  LET r == Parse(d)
         IN  /\ ~r.panic
             /\ r.ok => LET kind  == PacketKind[d.id]
                            start == Start(registered[d.format], kind, d.player)
                        IN  /\ r.fields = {<<f[1], start + f[2], start + f[3]>> : f \in Documented(d.format)[kind]}
                            /\ \A f \in r.fields : f[3] <= d.len
             /\ ~r.ok => r.fields = {}
             /\ r.ok => d.id \in DOMAIN PacketKind
<1> DEFINE p == registered[d.format]
           kind == PacketKind[d.id]
           start == Start(p, kind, d.player)
           slot == IF kind \in {"Event", "Session"} THEN d.len - start ELSE p.size[kind]
           layout == p.layout[kind]
           last == Pos(layout)[Len(layout)]
           fields == {<<f[1], start + f[2], start + f[3]>> : f \in FieldsOf(layout)}
<1>1. CASE d.len < HeaderSize \/ d.format \notin DOMAIN registered \/ d.id \notin DOMAIN PacketKind
  BY <1>1 DEF Parse, Rejected
<1>2. CASE ~(d.len < HeaderSize \/ d.format \notin DOMAIN registered \/ d.id \notin DOMAIN PacketKind)
  <2>1. d.format \in DOMAIN registered /\ d.id \in DOMAIN PacketKind
    BY <1>2
  <2>2. kind \in Kinds /\ p.cars \in Nat
    BY <2>1, Dispatched
  <2>3. WellRead(p, d.format, kind)
    BY <2>1, SlotsAreRead
  <2>4. CASE ~Accepts(p, kind, d)
    BY <1>2, <2>4 DEF Parse, Rejected
  <2>5. CASE Accepts(p, kind, d)
    <3> DEFINE beyond == start + slot > d.len \/ last > slot
    <3>1. Parse(d) = [ok |-> TRUE, panic |-> beyond, fields |-> fields]
      BY <1>2, <2>5 DEF Parse
    <3>2. /\ p.size[kind] \in Nat /\ last \in Nat /\ last <= p.size[kind] /\ Lead(kind) \in Nat
          /\ kind \in {"Event", "Session"} => last = p.size[kind]
          /\ FieldsOf(layout) = Documented(d.format)[kind]
          /\ \A f \in Documented(d.format)[kind] : f[3] \in Nat /\ f[3] <= p.size[kind]
      <4> HIDE DEF p, kind
      <4>1. PICK end \in 0 .. p.size[kind] :
              /\ Reads(p.layout[kind], Documented(d.format)[kind], end)
              /\ kind \in {"Event", "Session"} => end = p.size[kind]
        BY <2>3 DEF WellRead
      <4>2. p.size[kind] \in Nat /\ Lead(kind) \in Nat
        BY <2>3 DEF WellRead, Lead
      <4>3. last = end /\ FieldsOf(layout) = Documented(d.format)[kind]
        BY <4>1 DEF Reads
      <4>4. \A f \in Documented(d.format)[kind] : f[3] \in Nat /\ f[3] <= p.size[kind]
        BY <4>1, <4>2 DEF Reads
      <4> QED BY <4>1, <4>2, <4>3, <4>4
    <3>3. start \in Nat /\ start + p.size[kind] <= Needed(p, kind) /\ Needed(p, kind) \in Nat
      <4> DEFINE size == p.size[kind]
                 cars == p.cars
      <4>1. CASE kind \in PerCar
        <5>1. d.player < cars
          BY <2>5, <4>1 DEF Accepts
        <5>2. d.player * size \in Nat /\ cars * size \in Nat /\ d.player * size + size <= cars * size
          BY <2>2, <3>2, <5>1, SlotInGrid
        <5>3. start = 29 + Lead(kind) + d.player * size /\ Needed(p, kind) = 29 + Lead(kind) + cars * size
          BY <4>1 DEF Start, Needed, HeaderSize
        <5> DEFINE before == d.player * size
                   grid == cars * size
                   lead == Lead(kind)
        <5>4. size \in Nat /\ lead \in Nat
          BY <3>2
        <5>5. before \in Nat /\ grid \in Nat /\ before + size <= grid
          BY <5>2
        <5>6. start = 29 + lead + before /\ Needed(p, kind) = 29 + lead + grid
          BY <5>3
        <5> HIDE DEF start, size, before, grid, lead
        <5>7. start \in Nat /\ start + size <= Needed(p, kind) /\ Needed(p, kind) \in Nat
          BY <5>4, <5>5, <5>6
        <5> QED BY <5>7 DEF size
      <4>2. CASE kind \notin PerCar
        <5>1. start = 29 + Lead(kind) + 0 /\ Needed(p, kind) = 29 + Lead(kind) + 1 * size
          BY <4>2 DEF Start, Needed, HeaderSize
        <5> DEFINE lead == Lead(kind)
        <5>2. size \in Nat /\ lead \in Nat
          BY <3>2
        <5> HIDE DEF start, size, lead
        <5>3. start \in Nat /\ start + size <= Needed(p, kind) /\ Needed(p, kind) \in Nat
          BY <5>1, <5>2 DEF lead
        <5> QED BY <5>3 DEF size
      <4> QED BY <4>1, <4>2
    <3>4. Needed(p, kind) <= d.len /\ Needed(p, kind) \in Int
      <4>1. d.len >= Needed(p, kind)
        BY <2>5 DEF Accepts
      <4> QED BY <3>3, <4>1
    <3>5. fields = {<<f[1], start + f[2], start + f[3]>> : f \in Documented(d.format)[kind]}
      BY <3>2
    <3>6. \A f \in Documented(d.format)[kind] : f[3] \in Nat /\ f[3] <= p.size[kind]
      BY <3>2
    <3> HIDE DEF p, kind, start, layout, last, fields
    <3>7. ~(start + slot > d.len \/ last > slot)
      <4>1. CASE kind \in {"Event", "Session"}
        BY <3>2, <3>3, <3>4, <4>1
      <4>2. CASE kind \notin {"Event", "Session"}
        BY <3>2, <3>3, <3>4, <4>2
      <4> QED BY <4>1, <4>2
    <3>8. \A f \in fields : f[3] <= d.len
      <4> SUFFICES ASSUME NEW f \in Documented(d.format)[kind] PROVE start + f[3] <= d.len
        BY <3>5
      <4> QED BY <3>2, <3>3, <3>4, <3>6
    <3> HIDE DEF slot
    <3>9. ~Parse(d).panic /\ Parse(d).ok /\ Parse(d).fields = fields
      <4>1. beyond = FALSE
        BY <3>7
      <4> HIDE DEF beyond
      <4> QED BY <3>1, <4>1
    <3> QED BY <2>1, <3>5, <3>8, <3>9 DEF fields, start, kind, p
  <2> QED BY <2>4, <2>5
<1> QED BY <1>1, <1>2

\* The slots of the code are those of the game, but for the damage of F1 25.
LEMMA SlotOfGame ==
  ASSUME NEW format \in {2025, 2026}, NEW kind \in Kinds, NEW car \in Nat,
         ~(format = 2025 /\ kind = "CarDamage" /\ car > 0)
  PROVE  Start(registered[format], kind, car) = GameStart(format, kind, car)
<1>1. registered[format] = IF format = 2026 THEN F126 ELSE F125
  BY DEF registered
<1>2. CASE kind \in PerCar /\ ~(format = 2025 /\ kind = "CarDamage")
  <2>1. registered[format].size[kind] = GameStride(format)[kind]
    BY <1>1, <1>2 DEF F125, F126, GameStride, PerCar
  <2> QED BY <1>2, <2>1 DEF Start, GameStart
<1>3. CASE format = 2025 /\ kind = "CarDamage"
  <2>1. registered[format].size[kind] = 42 /\ GameStride(format)[kind] = 46 /\ car = 0
    BY <1>1, <1>3 DEF F125, GameStride
  <2> QED BY <2>1 DEF Start, GameStart
<1>4. CASE kind \notin PerCar
  BY <1>4 DEF Start, GameStart
<1> QED BY <1>2, <1>3, <1>4

-----------------------------------------------------------------------------
(* From a row to the bytes of an answer, and back. *)

\* at: where the value of each of the N fields of a row starts.
StartsAt(at, fields, N) ==
  /\ at \in [1 .. N + 1 -> Nat] /\ at[1] = 16
  /\ \A i \in 2 .. N + 1 : at[i] = at[i - 1] + Size(fields[i - 1])

\* The values of a row start where the table of the sizes before them says.
LEMMA OffsetsAre ==
  ASSUME NEW fields, NEW N \in Nat, Len(fields) = N, NEW at, StartsAt(at, fields, N)
  PROVE  FieldOffset(fields) = at
<1> USE DEF StartsAt
<1> DEFINE Body(g) == [i \in 1 .. Len(fields) + 1 |-> IF i = 1 THEN 16 ELSE g[i - 1] + Size(fields[i - 1])]
<1>1. at = Body(at)
  <2>1. ASSUME NEW i \in 1 .. N + 1 PROVE at[i] = IF i = 1 THEN 16 ELSE at[i - 1] + Size(fields[i - 1])
    <3>1. i = 1 \/ i \in 2 .. N + 1
      OBVIOUS
    <3> QED BY <3>1
  <2>2. at = [i \in 1 .. N + 1 |-> at[i]]
    OBVIOUS
  <2> QED BY <2>1, <2>2
<1>2. ASSUME NEW g, g = Body(g) PROVE g = at
  <2> DEFINE S == {n \in Nat : n + 1 <= N + 1 => g[n + 1] = at[n + 1]}
  <2>1. 0 \in S
    BY <1>2
  <2>2. ASSUME NEW n \in Nat, n \in S PROVE n + 1 \in S
    <3> SUFFICES ASSUME n + 2 <= N + 1 PROVE g[n + 2] = at[n + 2]
      OBVIOUS
    <3>1. n + 2 \in 2 .. N + 1 /\ n + 2 \in 1 .. N + 1 /\ n + 2 - 1 = n + 1 /\ n + 2 # 1
      OBVIOUS
    <3>2. g[n + 2] = g[n + 1] + Size(fields[n + 1])
      BY <1>2, <3>1
    <3>3. at[n + 2] = at[n + 1] + Size(fields[n + 1])
      BY <3>1
    <3> QED BY <2>2, <3>2, <3>3
  <2> HIDE DEF S
  <2>3. Nat \subseteq S
    BY <2>1, <2>2, InductionOnSet
  <2>4. ASSUME NEW i \in 1 .. N + 1 PROVE g[i] = at[i]
    <3>1. i - 1 \in S /\ i - 1 + 1 = i
      BY <2>3
    <3> QED BY <3>1 DEF S
  <2>5. g = [i \in 1 .. N + 1 |-> g[i]] /\ at = [i \in 1 .. N + 1 |-> at[i]]
    BY <1>2
  <2> QED BY <2>4, <2>5
<1>3. FieldOffset(fields) = CHOOSE g : g = Body(g)
  BY DEF FieldOffset
<1> HIDE DEF Body
<1> QED BY <1>1, <1>2, <1>3

\* A list of registered fields without a duplicate is resolved as it stands.
LEMMA ResolvedUnchanged ==
  ASSUME NEW names \in Seq(Registry), \A i, j \in 1 .. Len(names) : i < j => names[i] # names[j]
  PROVE  ResolveFields(names) = names
<1> DEFINE N == Len(names)
           first == {i \in DOMAIN names : \A j \in 1 .. i - 1 : names[j] # names[i]}
           Body(g) == [i \in 0 .. Len(names) |->
                         IF i = 0 THEN <<>> ELSE IF i \in first THEN Append(g[i - 1], names[i]) ELSE g[i - 1]]
           upto == [i \in 0 .. N |-> [k \in 1 .. i |-> names[k]]]
<1>1. N \in Nat /\ DOMAIN names = 1 .. N /\ \A i \in 1 .. N : names[i] \in Registry /\ i \in first
  OBVIOUS
<1>2. upto[0] = <<>> /\ upto[N] = names
  OBVIOUS
<1>3. ASSUME NEW i \in 1 .. N PROVE upto[i] = Append(upto[i - 1], names[i])
  <2>1. i \in 0 .. N /\ i - 1 \in 0 .. N /\ i - 1 \in Nat
    BY <1>1
  <2>2. upto[i] = [k \in 1 .. i |-> names[k]] /\ upto[i - 1] = [k \in 1 .. i - 1 |-> names[k]]
    BY <2>1
  <2>3. upto[i - 1] \in Seq(Registry) /\ Len(upto[i - 1]) = i - 1
    BY <1>1, <2>1, <2>2
  <2>4. upto[i] \in Seq(Registry) /\ Len(upto[i]) = i
    BY <1>1, <2>1, <2>2
  <2> HIDE DEF upto
  <2>5. \A k \in 1 .. i : Append(upto[i - 1], names[i])[k] = names[k]
    BY <1>1, <2>1, <2>2, <2>3
  <2>6. Append(upto[i - 1], names[i]) = [k \in 1 .. i |-> names[k]]
    BY <1>1, <2>1, <2>3, <2>5
  <2> QED BY <2>2, <2>6
<1> HIDE DEF first, upto
<1>4. ASSUME NEW g, g = Body(g) PROVE g[N] = names
  <2> DEFINE S == {n \in Nat : n <= N => g[n] = upto[n]}
  <2>1. 0 \in S
    BY <1>1, <1>2, <1>4
  <2>2. ASSUME NEW n \in Nat, n \in S PROVE n + 1 \in S
    <3> SUFFICES ASSUME n + 1 <= N PROVE g[n + 1] = upto[n + 1]
      OBVIOUS
    <3>1. n + 1 \in 1 .. N /\ n + 1 \in 0 .. N /\ n + 1 - 1 = n /\ n + 1 # 0
      BY <1>1
    <3>2. g[n + 1] = Append(g[n], names[n + 1])
      <4>1. g[n + 1] = IF n + 1 = 0 THEN <<>>
                       ELSE IF n + 1 \in first THEN Append(g[n + 1 - 1], names[n + 1]) ELSE g[n + 1 - 1]
        <5> DEFINE k == n + 1
        <5>1. k \in 0 .. Len(names)
          BY <3>1
        <5> HIDE DEF k, S
        <5>2. g[k] = IF k = 0 THEN <<>> ELSE IF k \in first THEN Append(g[k - 1], names[k]) ELSE g[k - 1]
          BY <1>4, <5>1
        <5> QED BY <5>2 DEF k
      <4> QED BY <1>1, <3>1, <4>1
    <3> QED BY <1>3, <2>2, <3>1, <3>2
  <2> HIDE DEF S
  <2>3. N \in S
    BY <1>1, <2>1, <2>2, InductionOnSet
  <2> QED BY <1>1, <1>2, <2>3 DEF S
<1>5. \E g : g = Body(g)
  <2> DEFINE w == [i \in 0 .. N |-> upto[i]]
  <2>1. ASSUME NEW i \in 0 .. N
        PROVE  upto[i] = IF i = 0 THEN <<>> ELSE IF i \in first THEN Append(w[i - 1], names[i]) ELSE w[i - 1]
    <3>1. CASE i = 0
      BY <1>2, <3>1
    <3>2. CASE i \in 1 .. N
      <4>1. i - 1 \in 0 .. N /\ i # 0 /\ i \in first
        BY <1>1, <3>2
      <4> QED BY <1>3, <3>2, <4>1
    <3> QED BY <1>1, <3>1, <3>2
  <2>2. w = Body(w)
    BY <2>1
  <2> QED BY <2>2
<1>6. ResolveFields(names) = (CHOOSE g : g = Body(g))[N]
  BY <1>1 DEF ResolveFields, first
<1> HIDE DEF Body
<1> QED BY <1>4, <1>5, <1>6

\* The default fields: registered, distinct, of the sizes and types that the
\* registry of the engine gives them.
LEMMA DefaultNames ==
  LET names == DEFAULT_FIELD_NAMES IN
  /\ Len(names) = 22 /\ names \in Seq(Registry)
  /\ \A i, j \in 1 .. 22 : i < j => names[i] # names[j]
<1> DEFINE names == DEFAULT_FIELD_NAMES
<1>1. Len(names) = 22
  BY DEF DEFAULT_FIELD_NAMES
<1>2. \A i \in 1 .. 22 : names[i] \in Registry
  BY DEF DEFAULT_FIELD_NAMES, Registry, TypeF32, TypeI16, TypeI32, Averages
<1>3. names \in Seq(Registry)
  BY <1>1, <1>2 DEF DEFAULT_FIELD_NAMES
<1>4. \A i, j \in 1 .. 22 : i < j => names[i] # names[j]
  BY DEF DEFAULT_FIELD_NAMES
<1> QED BY <1>1, <1>3, <1>4

LEMMA DefaultSizes ==
  \A i \in 1 .. 22 : Size(DEFAULT_FIELD_NAMES[i]) = IF i \in 5 .. 6 THEN 2 ELSE 4
BY DEF DEFAULT_FIELD_NAMES, Size, TypeI16

\* The type that a column is scanned into is the one encodeTelemetryRow asserts.
LEMMA TypesScanned == \A f \in Registry : Scanned(f) = FieldType(f)
BY DEF Scanned, FieldType, Registry, TypeF32, TypeI16, TypeI32, Smallint, Integer, Averages, Wheels

DefaultAt ==
  <<16, 20, 24, 28, 32, 34, 36, 40, 44, 48, 52, 56, 60, 64, 68, 72, 76, 80, 84, 88, 92, 96, 100>>

LEMMA DefaultOffsets == FieldOffset(DEFAULT_FIELD_NAMES) = DefaultAt
<1>1. DefaultAt \in [1 .. 22 + 1 -> Nat] /\ DefaultAt[1] = 16
  BY DEF DefaultAt
<1>2. \A i \in 2 .. 22 + 1 : DefaultAt[i] = DefaultAt[i - 1] + (IF i - 1 \in 5 .. 6 THEN 2 ELSE 4)
  BY DEF DefaultAt
<1>3. ASSUME NEW i \in 2 .. 22 + 1 PROVE DefaultAt[i] = DefaultAt[i - 1] + Size(DEFAULT_FIELD_NAMES[i - 1])
  <2>1. i - 1 \in 1 .. 22
    OBVIOUS
  <2> QED BY <1>2, <2>1, DefaultSizes
<1>4. Len(DEFAULT_FIELD_NAMES) = 22
  BY DefaultNames
<1>5. StartsAt(DefaultAt, DEFAULT_FIELD_NAMES, 22)
  BY <1>1, <1>3 DEF StartsAt
<1> QED BY <1>4, <1>5, OffsetsAre

LEMMA DefaultTypes ==
  \A i \in 1 .. 22 :
    FieldType(DEFAULT_FIELD_NAMES[i]) = IF i \in 5 .. 6 THEN "int16" ELSE IF i = 11 THEN "int32" ELSE "float32"
BY DEF DEFAULT_FIELD_NAMES, FieldType, TypeF32, TypeI16, TypeI32, Averages

\* A row of the default fields has the offsets and the size that the client has
\* written down as constants.
LEMMA DefaultRow ==
  EncodedRow(DEFAULT_FIELD_NAMES) = Offsets /\ RowSize(DEFAULT_FIELD_NAMES) = ROW_SIZE
<1> DEFINE names == DEFAULT_FIELD_NAMES
           e(i) == <<names[i], FieldOffset(names)[i], FieldType(names[i])>>
           head == {<<"ts", 0, "int64">>, <<"car_index", 8, "int16">>, <<"lap_num", 10, "int16">>,
                    <<"lap_distance", 12, "float32">>}
<1>1. DOMAIN names = 1 .. 22
  BY DEF DEFAULT_FIELD_NAMES
<1>2. \A i \in 1 .. 22 : e(i) = <<names[i], DefaultAt[i], IF i \in 5 .. 6 THEN "int16" ELSE IF i = 11 THEN "int32" ELSE "float32">>
  BY DefaultOffsets, DefaultTypes
<1>3. Offsets = head \union {<<names[i], DefaultAt[i], IF i \in 5 .. 6 THEN "int16" ELSE IF i = 11 THEN "int32" ELSE "float32">> : i \in 1 .. 22}
  BY DEF Offsets, DEFAULT_FIELD_NAMES, DefaultAt
<1>4. EncodedRow(names) = head \union {e(i) : i \in 1 .. 22}
  BY <1>1 DEF EncodedRow
<1>5. EncodedRow(names) = Offsets
  <2> HIDE DEF e, head, names
  <2> QED BY <1>2, <1>3, <1>4
<1>6. RowSize(names) = ROW_SIZE
  BY DefaultNames, DefaultOffsets DEF RowSize, ROW_SIZE, DefaultAt
<1> QED BY <1>5, <1>6

\* ClientReadsEngineRow for one answer.
LEMMA BodyDecoded ==
  ASSUME NEW n \in Nat, NEW isHttp \in BOOLEAN
  PROVE  LET fields  == ResolveFields(DEFAULT_FIELD_NAMES)
             body    == IF isHttp THEN EncodeTelemetryBinary(fields, n) ELSE EncodeTelemetryFrame(fields, n)
             decoded == Decoded(n, isHttp)
         IN  /\ ~RowPanics(fields)
             /\ decoded.count = body.count
             /\ decoded.values = body.values
             /\ body.size = decoded.count + 4 + n * ROW_SIZE
<1> DEFINE names == DEFAULT_FIELD_NAMES
           header == IF isHttp THEN HTTP_HEADER_SIZE ELSE 4
           body(fields) == IF isHttp THEN EncodeTelemetryBinary(fields, n) ELSE EncodeTelemetryFrame(fields, n)
<1>1. ResolveFields(names) = names
  BY DefaultNames, ResolvedUnchanged
<1>2. ~RowPanics(names)
  <2>1. names \in Seq(Registry)
    BY DefaultNames
  <2> HIDE DEF names
  <2>2. \A i \in DOMAIN names : names[i] \in Registry
    BY <2>1
  <2> QED BY <2>2, TypesScanned DEF RowPanics
<1>3. Len(names) = 22
  BY DefaultNames
<1>4. EncodedRows(names, n, header) = Decoded(n, isHttp).values
  BY DefaultRow DEF EncodedRows, Decoded
<1>5. /\ body(names).values = EncodedRows(names, n, header)
      /\ body(names).count = header - 4
      /\ body(names).size = header + n * ROW_SIZE
  <2> HIDE DEF names
  <2>1. CASE isHttp
    BY <1>3, <2>1, DefaultRow DEF EncodeTelemetryBinary, HTTP_HEADER_SIZE, names
  <2>2. CASE ~isHttp
    BY <1>3, <2>2, DefaultRow DEF EncodeTelemetryFrame, names
  <2> QED BY <2>1, <2>2
<1>6. Decoded(n, isHttp).count = header - 4 /\ header \in Nat
  BY DEF Decoded, HTTP_HEADER_SIZE
<1>7. n * ROW_SIZE \in Int
  BY DEF ROW_SIZE
<1>8. body(names).size = header - 4 + 4 + n * ROW_SIZE
  BY <1>5, <1>6, <1>7
<1> HIDE DEF names, header, body
<1>9. /\ ~RowPanics(names)
      /\ Decoded(n, isHttp).count = body(names).count
      /\ Decoded(n, isHttp).values = body(names).values
      /\ body(names).size = Decoded(n, isHttp).count + 4 + n * ROW_SIZE
  BY <1>2, <1>4, <1>5, <1>6, <1>8
<1> QED BY <1>1, <1>9 DEF names, body
-----------------------------------------------------------------------------
(* The ideal lap. *)

\* up[n] is what a sector has of the first n rows.
Collects(up, R, rows, sector, N) ==
  /\ up \in [0 .. N -> Seq(R)]
  /\ up[0] = <<>>
  /\ \A i \in 1 .. N : up[i] = IF rows[i].sector = sector THEN Append(up[i - 1], rows[i]) ELSE up[i - 1]

\* The query for the rows of a sector, as the loop it stands for.
LEMMA SectorRows ==
  ASSUME NEW R, NEW lap, NEW rows \in Seq(R), lap.rows = rows, NEW sector, NEW N \in Nat, N = Len(rows)
  PROVE  \E up :
           Collects(up, R, rows, sector, N) /\ QueryTelemetrySector(lap, sector) = up[N]
<1> DEFINE F == [i \in 1 .. N |-> [v \in Seq(R) |-> IF rows[i].sector = sector THEN Append(v, rows[i]) ELSE v]]
           Body(f) == [i \in 0 .. N |->
                         IF i = 0 THEN <<>>
                         ELSE IF rows[i].sector = sector THEN Append(f[i - 1], rows[i]) ELSE f[i - 1]]
           Steps(f) == /\ f[0] = <<>>
                       /\ \A i \in 1 .. N :
                            f[i] = IF rows[i].sector = sector THEN Append(f[i - 1], rows[i]) ELSE f[i - 1]
<1>1. F \in Updates(N, Seq(R)) /\ <<>> \in Seq(R)
  BY DEF Updates
<1>2. PICK f \in [0 .. N -> Seq(R)] : Computes(f, N, <<>>, F)
  <2> HIDE DEF F
  <2> QED BY <1>1, RecursiveFunction
<1>3. f[0] = <<>> /\ \A i \in 1 .. N : f[i] = F[i][f[i - 1]]
  BY <1>2 DEF Computes
<1>4. Steps(f)
  <2> SUFFICES ASSUME NEW i \in 1 .. N
               PROVE  f[i] = IF rows[i].sector = sector THEN Append(f[i - 1], rows[i]) ELSE f[i - 1]
    BY <1>3
  <2>1. i - 1 \in 0 .. N
    OBVIOUS
  <2>2. f[i - 1] \in Seq(R)
    BY <2>1
  <2> QED BY <1>3, <2>2
<1>5. ASSUME NEW g, g = Body(g) PROVE Steps(g)
  <2>1. g[0] = <<>>
    BY <1>5
  <2>2. ASSUME NEW i \in 1 .. N
        PROVE  g[i] = IF rows[i].sector = sector THEN Append(g[i - 1], rows[i]) ELSE g[i - 1]
    <3>1. i \in 0 .. N /\ i # 0
      OBVIOUS
    <3> QED BY <1>5, <3>1
  <2> QED BY <2>1, <2>2
<1>6. f = Body(f)
  <2>1. f = [i \in 0 .. N |-> f[i]]
    OBVIOUS
  <2>2. \A i \in 0 .. N : f[i] = IF i = 0 THEN <<>>
                               ELSE IF rows[i].sector = sector THEN Append(f[i - 1], rows[i]) ELSE f[i - 1]
    <3> SUFFICES ASSUME NEW i \in 0 .. N, i # 0
                 PROVE  f[i] = IF rows[i].sector = sector THEN Append(f[i - 1], rows[i]) ELSE f[i - 1]
      BY <1>4
    <3>1. i \in 1 .. N
      OBVIOUS
    <3> QED BY <1>4, <3>1, Zenon
  <2>3. Body(f) = [i \in 0 .. N |-> f[i]]
    BY <2>2
  <2> QED BY <2>1, <2>3
<1>7. ASSUME NEW g, g = Body(g) PROVE g = f
  <2> DEFINE S == {n \in Nat : n <= N => g[n] = f[n]}
  <2>1. 0 \in S
    BY <1>4, <1>5, <1>7
  <2>2. ASSUME NEW n \in Nat, n \in S PROVE n + 1 \in S
    <3> SUFFICES ASSUME n + 1 <= N PROVE g[n + 1] = f[n + 1]
      OBVIOUS
    <3>1. n + 1 \in 1 .. N /\ n + 1 - 1 = n /\ g[n] = f[n]
      BY <2>2
    <3>2. Steps(f) /\ Steps(g)
      BY <1>4, <1>5, <1>7
    <3> QED BY <3>1, <3>2
  <2> HIDE DEF S
  <2>3. Nat \subseteq S
    BY <2>1, <2>2, InductionOnSet
  <2>4. \A i \in 0 .. N : g[i] = f[i]
    BY <2>3 DEF S
  <2>5. g = [i \in 0 .. N |-> g[i]] /\ f = [i \in 0 .. N |-> f[i]]
    BY <1>7
  <2> QED BY <2>4, <2>5
<1>8. QueryTelemetrySector(lap, sector) = (CHOOSE g : g = Body(g))[N]
  BY DEF QueryTelemetrySector
<1>9. (CHOOSE g : g = Body(g)) = f
  <2> HIDE DEF Body
  <2> QED BY <1>6, <1>7
<1>10. Collects(f, R, rows, sector, N)
  BY <1>4, Zenon DEF Collects
<1> QED BY <1>8, <1>9, <1>10

Row == [ts : Int, time : Nat, dist : Int, sector : 0 .. 2]

\* m: where the first n rows of a lap have those of a sector.
Picks(m, seg, rows, sector, n) ==
  /\ m \in [1 .. Len(seg) -> 1 .. n]
  /\ \A k \in 1 .. Len(seg) : seg[k] = rows[m[k]] /\ rows[m[k]].sector = sector
  /\ \A k, l \in 1 .. Len(seg) : k < l => m[k] < m[l]
  /\ \A j \in 1 .. n : rows[j].sector = sector => \E k \in 1 .. Len(seg) : m[k] = j

\* One more row: it joins its sector, behind the rows already there.
LEMMA PickNext ==
  ASSUME NEW R, NEW rows \in Seq(R), NEW sector, NEW n \in Nat, NEW m, NEW seg \in Seq(R), Picks(m, seg, rows, sector, n),
         n + 1 <= Len(rows), rows[n + 1].sector = sector
  PROVE  \E q : Picks(q, Append(seg, rows[n + 1]), rows, sector, n + 1)
<1> DEFINE L == Len(seg)
           long == Append(seg, rows[n + 1])
           q == [k \in 1 .. L + 1 |-> IF k = L + 1 THEN n + 1 ELSE m[k]]
<1>0. rows[n + 1] \in R /\ L \in Nat
  OBVIOUS
<1>1. /\ Len(long) = L + 1 /\ long[L + 1] = rows[n + 1]
      /\ \A k \in 1 .. L : long[k] = seg[k]
  BY <1>0
<1>2. /\ m \in [1 .. L -> 1 .. n]
      /\ \A k \in 1 .. L : seg[k] = rows[m[k]] /\ rows[m[k]].sector = sector
      /\ \A k, l \in 1 .. L : k < l => m[k] < m[l]
      /\ \A j \in 1 .. n : rows[j].sector = sector => \E k \in 1 .. L : m[k] = j
  BY DEF Picks
<1> HIDE DEF L, long
<1>3. q \in [1 .. L + 1 -> 1 .. n + 1]
  BY <1>0, <1>2
<1>4. q[L + 1] = n + 1 /\ \A k \in 1 .. L : q[k] = m[k]
  BY <1>0
<1> HIDE DEF q
<1>5. \A k \in 1 .. L + 1 : long[k] = rows[q[k]] /\ rows[q[k]].sector = sector
  <2> SUFFICES ASSUME NEW k \in 1 .. L + 1
               PROVE  long[k] = rows[q[k]] /\ rows[q[k]].sector = sector
    OBVIOUS
  <2>1. CASE k = L + 1
    BY <1>1, <1>4, <2>1
  <2>2. CASE k \in 1 .. L
    BY <1>1, <1>2, <1>4, <2>2
  <2> QED BY <1>0, <2>1, <2>2
<1>6. \A k, l \in 1 .. L + 1 : k < l => q[k] < q[l]
  <2> SUFFICES ASSUME NEW k \in 1 .. L + 1, NEW l \in 1 .. L + 1, k < l
               PROVE  q[k] < q[l]
    OBVIOUS
  <2>1. k \in 1 .. L /\ m[k] \in 1 .. n
    BY <1>0, <1>2
  <2>2. CASE l = L + 1
    BY <1>0, <1>4, <2>1, <2>2
  <2>3. CASE l \in 1 .. L
    BY <1>2, <1>4, <2>1, <2>3
  <2> QED BY <1>0, <2>2, <2>3
<1>7. \A j \in 1 .. n + 1 : rows[j].sector = sector => \E k \in 1 .. L + 1 : q[k] = j
  <2> SUFFICES ASSUME NEW j \in 1 .. n + 1, rows[j].sector = sector
               PROVE  \E k \in 1 .. L + 1 : q[k] = j
    OBVIOUS
  <2>1. CASE j = n + 1
    BY <1>0, <1>4, <2>1
  <2>2. CASE j \in 1 .. n
    <3>1. PICK k \in 1 .. L : m[k] = j
      BY <1>2, <2>2
    <3> QED BY <1>0, <1>4, <3>1
  <2> QED BY <2>1, <2>2
<1>8. Picks(q, long, rows, sector, n + 1)
  BY <1>1, <1>3, <1>5, <1>6, <1>7 DEF Picks
<1> QED BY <1>8 DEF long

\* The rows of a sector are rows of its lap, in their order.
LEMMA SectorPicked ==
  ASSUME NEW R, NEW lap, NEW rows \in Seq(R), lap.rows = rows, NEW sector
  PROVE  /\ QueryTelemetrySector(lap, sector) \in Seq(R)
         /\ \E m : Picks(m, QueryTelemetrySector(lap, sector), rows, sector, Len(rows))
<1>0. PICK N \in Nat : N = Len(rows)
  OBVIOUS
<1>1. PICK up :
        Collects(up, R, rows, sector, N) /\ QueryTelemetrySector(lap, sector) = up[N]
  BY <1>0, SectorRows
<1> DEFINE S == {n \in Nat : n <= N => \E m : Picks(m, up[n], rows, sector, n)}
<1>2. 0 \in S
  <2>1. Picks([k \in 1 .. 0 |-> 0], <<>>, rows, sector, 0)
    BY DEF Picks
  <2> QED BY <1>1, <2>1 DEF Collects
<1>3. ASSUME NEW n \in Nat, n \in S PROVE n + 1 \in S
  <2> SUFFICES ASSUME n + 1 <= N PROVE \E q : Picks(q, up[n + 1], rows, sector, n + 1)
    OBVIOUS
  <2>1. PICK m : Picks(m, up[n], rows, sector, n)
    BY <1>3
  <2>2. /\ n + 1 \in 1 .. N /\ n \in 0 .. N /\ up[n] \in Seq(R)
        /\ up[n + 1] = IF rows[n + 1].sector = sector THEN Append(up[n], rows[n + 1]) ELSE up[n]
    BY <1>1 DEF Collects
  <2>3. CASE rows[n + 1].sector = sector
    BY <1>0, <2>1, <2>2, <2>3, PickNext
  <2>4. CASE rows[n + 1].sector # sector
    <3>1. Picks(m, up[n], rows, sector, n + 1)
      <4>1. m \in [1 .. Len(up[n]) -> 1 .. n]
        BY <2>1 DEF Picks
      <4>2. m \in [1 .. Len(up[n]) -> 1 .. n + 1]
        BY <4>1
      <4>3. \A j \in 1 .. n + 1 : rows[j].sector = sector => j \in 1 .. n
        BY <2>4
      <4> QED BY <2>1, <4>2, <4>3 DEF Picks
    <3> QED BY <2>2, <2>4, <3>1
  <2> QED BY <2>3, <2>4
<1> HIDE DEF S
<1>4. N \in S
  BY <1>2, <1>3, InductionOnSet
<1>5. \E m : Picks(m, up[N], rows, sector, N)
  BY <1>4 DEF S
<1>6. up[N] \in Seq(R)
  BY <1>1 DEF Collects
<1> QED BY <1>0, <1>1, <1>5, <1>6

\* A lap as it was recorded: the clock of the engine follows that of the game
\* within MaxDelay, the car moves forward, and the lap ends with its last row or
\* after it.
IsLap(lap) ==
  /\ lap.rows \in Seq(Row) /\ lap.finish \in Nat
  /\ \A i, j \in Ranks(lap.rows) : i < j =>
       /\ lap.rows[i].ts < lap.rows[j].ts
       /\ lap.rows[i].dist < lap.rows[j].dist
       /\ lap.rows[i].sector <= lap.rows[j].sector
       /\ lap.rows[i].time < lap.rows[j].time
       /\ lap.rows[j].ts - lap.rows[i].ts <= lap.rows[j].time - lap.rows[i].time + MaxDelay
  /\ \A i \in Ranks(lap.rows) : lap.rows[i].time <= lap.finish

Duration(rows) == rows[Len(rows)].ts - rows[1].ts

\* Rows are records of integers; moving one in time and distance gives a row.
LEMMA RowFields ==
  ASSUME NEW rows \in Seq(Row), NEW i \in 1 .. Len(rows)
  PROVE  /\ rows[i] \in Row /\ rows[i].ts \in Int /\ rows[i].time \in Nat
         /\ rows[i].dist \in Int /\ rows[i].sector \in 0 .. 2
<1>1. rows[i] \in Row
  OBVIOUS
<1> QED BY <1>1 DEF Row

LEMMA ShiftedRow ==
  ASSUME NEW row \in Row, NEW dt \in Int, NEW dd \in Int
  PROVE  /\ Shift(row, dt, dd) \in Row
         /\ Shift(row, dt, dd).ts = row.ts + dt
         /\ Shift(row, dt, dd).dist = row.dist + dd
<1>1. row.ts + dt \in Int /\ row.dist + dd \in Int
  BY DEF Row
<1>2. [row EXCEPT !.ts = row.ts + dt] \in Row
  BY DEF Row
<1>3. \A r \in Row, d \in Int : [r EXCEPT !.dist = d] \in Row
  BY DEF Row
<1>4. Shift(row, dt, dd) = [[row EXCEPT !.ts = row.ts + dt] EXCEPT !.dist = row.dist + dd]
  BY DEF Shift, Row
<1>5. Shift(row, dt, dd) \in Row
  BY <1>1, <1>2, <1>3, <1>4
<1>6. Shift(row, dt, dd).ts = row.ts + dt
  BY DEF Shift, Row
<1>7. Shift(row, dt, dd).dist = row.dist + dd
  BY DEF Shift, Row
<1> QED BY <1>5, <1>6, <1>7

\* Facts of arithmetic, for terms that the provers should not look into.
LEMMA ShiftedOrder == \A a, b, c \in Int : a < b => a + c < b + c
OBVIOUS

LEMMA LessIsTransitive == \A a, b, c \in Int : a < b /\ b < c => a < c
OBVIOUS

LEMMA SumOfBounds ==
  ASSUME NEW a \in Int, NEW b \in Int, NEW c \in Int, NEW x \in Int, NEW y \in Int, NEW z \in Int,
         NEW slack \in Int, a <= x + slack, b <= y + slack, c <= z + slack
  PROVE  a + b + c <= x + y + z + 3 * slack
OBVIOUS

\* MinOf is the least member of a set of naturals.
LEMMA MinOfIsLeast ==
  ASSUME NEW S \in SUBSET Nat, S # {}
  PROVE  MinOf(S) \in S /\ \A y \in S : MinOf(S) <= y
BY LeastNatural DEF MinOf

\* A lap with rows in every sector enters them one after the other, and leaves the
\* last one before its end, unless a single row of that one was stored.
LEMMA ListedLap ==
  ASSUME NEW lap, IsLap(lap), Covered(lap)
  PROVE  /\ S2Start(lap) \in Nat /\ S3Start(lap) \in Nat
         /\ 0 < S2Start(lap) /\ S2Start(lap) < S3Start(lap) /\ S3Start(lap) <= lap.finish
         /\ \A i \in Ranks(lap.rows) :
              /\ lap.rows[i].sector = 0 => lap.rows[i].time < S2Start(lap)
              /\ lap.rows[i].sector = 1 => S2Start(lap) <= lap.rows[i].time /\ lap.rows[i].time < S3Start(lap)
              /\ lap.rows[i].sector = 2 => S3Start(lap) <= lap.rows[i].time
         /\ S3Start(lap) < lap.finish \/ OneRowIn(lap, 2)
<1> DEFINE rows == lap.rows
<1>1. /\ \A i \in Ranks(rows) : rows[i] \in Row /\ rows[i].time \in Nat /\ rows[i].sector \in 0 .. 2
      /\ Len(rows) \in Nat
  BY RowFields DEF IsLap, Ranks
<1>2. \A sector \in 0 .. 2 : /\ TimesIn(lap, sector) \in SUBSET Nat /\ TimesIn(lap, sector) # {}
  <2>1. \A sector \in 0 .. 2 : TimesIn(lap, sector) \in SUBSET Nat
    BY <1>1 DEF TimesIn
  <2>2. \A sector \in 0 .. 2 : TimesIn(lap, sector) # {}
    BY Zenon DEF Covered
  <2> QED BY <2>1, <2>2, Zenon
<1>3. \A sector \in 0 .. 2 : \A t \in TimesIn(lap, sector) :
        \E i \in Ranks(rows) : rows[i].sector = sector /\ rows[i].time = t
  BY DEF TimesIn
<1>4. \A i \in Ranks(rows) : rows[i].time \in TimesIn(lap, rows[i].sector)
  BY DEF TimesIn
<1>5. \A i, j \in Ranks(rows) : rows[i].sector < rows[j].sector => rows[i].time < rows[j].time
  <2> SUFFICES ASSUME NEW i \in Ranks(rows), NEW j \in Ranks(rows), rows[i].sector < rows[j].sector
               PROVE  rows[i].time < rows[j].time
    OBVIOUS
  <2>1. i < j
    <3>1. j < i => rows[j].sector <= rows[i].sector
      BY Zenon DEF IsLap
    <3>2. i \in Nat /\ j \in Nat /\ rows[i].sector \in Nat /\ rows[j].sector \in Nat
      BY <1>1 DEF Ranks
    <3> QED BY <3>1, <3>2
  <2> QED BY <2>1 DEF IsLap
<1>6. S2Start(lap) \in TimesIn(lap, 1) /\ \A t \in TimesIn(lap, 1) : S2Start(lap) <= t
  BY <1>2, MinOfIsLeast DEF S2Start
<1>7. S3Start(lap) \in TimesIn(lap, 2) /\ \A t \in TimesIn(lap, 2) : S3Start(lap) <= t
  BY <1>2, MinOfIsLeast DEF S3Start
<1>8. PICK a \in Ranks(rows) : rows[a].sector = 1 /\ rows[a].time = S2Start(lap)
  BY <1>3, <1>6
<1>9. PICK b \in Ranks(rows) : rows[b].sector = 2 /\ rows[b].time = S3Start(lap)
  BY <1>3, <1>7
<1>10. 0 < rows[a].time /\ rows[b].time <= lap.finish /\ lap.finish \in Nat
  <2>1. rows[b].time <= lap.finish /\ lap.finish \in Nat
    BY DEF IsLap
  <2>2. TimesIn(lap, 0) # {}
    BY DEF Covered
  <2>3. PICK z \in Ranks(rows) : rows[z].sector = 0
    BY <2>2 DEF TimesIn
  <2>4. rows[z].sector < rows[a].sector
    BY <1>8, <2>3
  <2>5. rows[z].time < rows[a].time /\ rows[z].time \in Nat /\ rows[a].time \in Nat
    BY <1>1, <1>5, <2>4
  <2> QED BY <2>1, <2>5
<1> DEFINE two == S2Start(lap)
           three == S3Start(lap)
<1>11. two \in Nat /\ three \in Nat /\ rows[a].time = two /\ rows[b].time = three
  BY <1>1, <1>8, <1>9
<1>12. 0 < two /\ two < three /\ three <= lap.finish
  <2>1. rows[a].time < rows[b].time
    <3>1. rows[a].sector < rows[b].sector
      BY <1>8, <1>9
    <3> QED BY <1>5, <3>1
  <2> QED BY <1>10, <1>11, <2>1
<1>13. ASSUME NEW i \in Ranks(rows)
       PROVE  /\ rows[i].sector = 0 => rows[i].time < two
              /\ rows[i].sector = 1 => two <= rows[i].time /\ rows[i].time < three
              /\ rows[i].sector = 2 => three <= rows[i].time
  <2>1. ASSUME rows[i].sector = 0 PROVE rows[i].time < two
    <3>1. rows[i].sector < rows[a].sector
      BY <1>8, <2>1
    <3> QED BY <1>5, <1>11, <3>1
  <2>2. ASSUME rows[i].sector = 1 PROVE two <= rows[i].time /\ rows[i].time < three
    <3>1. rows[i].sector < rows[b].sector
      BY <1>9, <2>2
    <3>2. rows[i].time \in TimesIn(lap, 1)
      BY <1>4, <2>2
    <3> QED BY <1>5, <1>6, <1>11, <3>1, <3>2
  <2>3. ASSUME rows[i].sector = 2 PROVE three <= rows[i].time
    <3>1. rows[i].time \in TimesIn(lap, 2)
      BY <1>4, <2>3
    <3> QED BY <1>7, <3>1
  <2> QED BY <2>1, <2>2, <2>3
<1>14. three < lap.finish \/ OneRowIn(lap, 2)
  <2> SUFFICES ASSUME ~(three < lap.finish), NEW i \in Ranks(rows), NEW j \in Ranks(rows),
                      rows[i].sector = 2, rows[j].sector = 2
               PROVE  i = j
    BY DEF OneRowIn
  <2>1. \A k \in Ranks(rows) : rows[k].sector = 2 => rows[k].time = three
    <3> SUFFICES ASSUME NEW k \in Ranks(rows), rows[k].sector = 2 PROVE rows[k].time = three
      OBVIOUS
    <3>1. three <= rows[k].time /\ rows[k].time <= lap.finish /\ rows[k].time \in Nat
      BY <1>1, <1>13 DEF IsLap
    <3> QED BY <1>10, <1>11, <3>1
  <2>2. rows[i].time = three /\ rows[j].time = three
    BY <2>1
  <2>3. ~(i < j) /\ ~(j < i)
    BY <1>11, <2>2 DEF IsLap
  <2> QED BY <1>1, <2>3 DEF Ranks
<1> QED BY <1>11, <1>12, <1>13, <1>14

\* The sector times of a listed lap add up to its lap time.
LEMMA SectorTimes ==
  ASSUME NEW lap, IsLap(lap), Covered(lap)
  PROVE  /\ \A sector \in 0 .. 2 : SectorTime(lap, sector) \in Nat
         /\ SectorTime(lap, 0) + SectorTime(lap, 1) + SectorTime(lap, 2) = lap.finish
<1>1. /\ SectorTime(lap, 0) = S2Start(lap)
      /\ SectorTime(lap, 1) = S3Start(lap) - S2Start(lap)
      /\ SectorTime(lap, 2) = lap.finish - S3Start(lap)
  BY DEF SectorTime
<1>2. lap.finish \in Nat
  BY DEF IsLap
<1>3. /\ S2Start(lap) \in Nat /\ S3Start(lap) \in Nat
      /\ 0 < S2Start(lap) /\ S2Start(lap) < S3Start(lap) /\ S3Start(lap) <= lap.finish
  BY ListedLap
<1>4. \A sector \in 0 .. 2 : sector = 0 \/ sector = 1 \/ sector = 2
  OBVIOUS
<1> HIDE DEF SectorTime
<1> QED BY <1>1, <1>2, <1>3, <1>4

\* A candidate is a listed lap, and a listed lap is a candidate but for one case.
LEMMA CandidatesListed ==
  ASSUME NEW laps, \A lap \in laps : IsLap(lap)
  PROVE  /\ Candidates(laps) \subseteq Listed(laps)
         /\ \A lap \in Listed(laps) : lap \in Candidates(laps) \/ OneRowIn(lap, 2)
<1>1. Candidates(laps) \subseteq Listed(laps)
  BY DEF Candidates, Listed
<1>2. ASSUME NEW lap \in Listed(laps) PROVE lap \in Candidates(laps) \/ OneRowIn(lap, 2)
  <2>1. lap \in laps /\ lap.invalid = 0 /\ IsLap(lap) /\ Covered(lap)
    BY DEF Listed
  <2>2. /\ S2Start(lap) \in Nat /\ S3Start(lap) \in Nat
        /\ 0 < S2Start(lap) /\ S2Start(lap) < S3Start(lap)
        /\ S3Start(lap) < lap.finish \/ OneRowIn(lap, 2)
    BY <2>1, ListedLap
  <2>3. lap.finish \in Nat
    BY <2>1 DEF IsLap
  <2>4. CASE S3Start(lap) < lap.finish
    BY <2>1, <2>2, <2>3, <2>4 DEF Candidates
  <2> QED BY <2>2, <2>4
<1> QED BY <1>1, <1>2

\* The fastest candidate for a sector is a candidate, and none is faster.
LEMMA Fastest ==
  ASSUME NEW laps, \A lap \in laps : IsLap(lap), Candidates(laps) # {}
  PROVE  \A sector \in 0 .. 2 :
           /\ Best(laps, sector) \in Candidates(laps)
           /\ \A other \in Candidates(laps) :
                SectorTime(Best(laps, sector), sector) <= SectorTime(other, sector)
<1>1. \A lap \in Candidates(laps) : IsLap(lap) /\ Covered(lap)
  BY DEF Candidates
<1>2. ASSUME NEW sector \in 0 .. 2
      PROVE  \E lap \in Candidates(laps) : \A other \in Candidates(laps) : SectorTime(lap, sector) <= SectorTime(other, sector)
  <2> DEFINE times == {SectorTime(lap, sector) : lap \in Candidates(laps)}
  <2>1. times \in SUBSET Nat /\ times # {}
    BY <1>1, SectorTimes
  <2> HIDE DEF times
  <2>2. PICK t \in times : \A u \in times : t <= u
    BY <2>1, LeastNatural
  <2> QED BY <2>2 DEF times
<1> QED BY <1>2 DEF Best

\* The rows of a listed lap in a sector run forward, for no longer than its time
\* there and the delay of a stamp.
LEMMA Segment ==
  ASSUME NEW lap, IsLap(lap), Covered(lap), NEW sector \in 0 .. 2
  PROVE  LET seg == QueryTelemetrySector(lap, sector) IN
         /\ seg \in Seq(Row) /\ 0 < Len(seg) /\ Runs(seg)
         /\ Duration(seg) <= SectorTime(lap, sector) + MaxDelay
<1> DEFINE rows == lap.rows
           seg == QueryTelemetrySector(lap, sector)
<1>1. rows \in Seq(Row)
  BY DEF IsLap
<1>2. seg \in Seq(Row) /\ \E m : Picks(m, seg, rows, sector, Len(rows))
  BY <1>1, SectorPicked
<1> HIDE DEF seg
<1>3. PICK m : Picks(m, seg, rows, sector, Len(rows))
  BY <1>2
<1>4. /\ m \in [1 .. Len(seg) -> 1 .. Len(rows)]
      /\ \A k \in 1 .. Len(seg) : seg[k] = rows[m[k]] /\ rows[m[k]].sector = sector
      /\ \A k, l \in 1 .. Len(seg) : k < l => m[k] < m[l]
      /\ \A j \in 1 .. Len(rows) : rows[j].sector = sector => \E k \in 1 .. Len(seg) : m[k] = j
  BY <1>3 DEF Picks
<1>5. Len(seg) \in Nat /\ 0 < Len(seg)
  <2>1. TimesIn(lap, sector) # {}
    BY DEF Covered
  <2>2. PICK j \in 1 .. Len(rows) : rows[j].sector = sector
    BY <2>1 DEF TimesIn, Ranks
  <2> QED BY <1>2, <1>4, <2>2
<1>6. Runs(seg)
  <2> SUFFICES ASSUME NEW k \in 1 .. Len(seg), NEW l \in 1 .. Len(seg), k < l
               PROVE  seg[k].ts < seg[l].ts /\ seg[k].dist < seg[l].dist
    BY DEF Runs, Ranks
  <2>1. m[k] \in Ranks(rows) /\ m[l] \in Ranks(rows) /\ m[k] < m[l]
    BY <1>4 DEF Ranks
  <2> QED BY <1>4, <2>1 DEF IsLap
<1>7. Duration(seg) <= SectorTime(lap, sector) + MaxDelay
  <2> DEFINE first == m[1]
             last  == m[Len(seg)]
  <2>1. first \in Ranks(rows) /\ last \in Ranks(rows) /\ first <= last
    BY <1>4, <1>5 DEF Ranks
  <2>2. /\ seg[1] = rows[first] /\ seg[Len(seg)] = rows[last]
        /\ rows[first].sector = sector /\ rows[last].sector = sector
    BY <1>4, <1>5
  <2> HIDE DEF first, last
  <2>3. rows[first] \in Row /\ rows[last] \in Row
    BY <1>1, <2>1 DEF Ranks
  <2>0. MaxDelay \in Nat
    BY ConversionsAssumption
  <2>4. rows[last].ts - rows[first].ts <= rows[last].time - rows[first].time + MaxDelay
    <3>1. CASE first = last
      BY <2>0, <2>3, <3>1 DEF Row
    <3>2. CASE first < last
      BY <2>1, <3>2 DEF IsLap
    <3> QED BY <2>1, <3>1, <3>2 DEF Ranks
  <2>5. rows[last].time <= lap.finish /\ lap.finish \in Nat
    BY <2>1 DEF IsLap
  <2>6. /\ S2Start(lap) \in Nat /\ S3Start(lap) \in Nat
        /\ sector = 0 => rows[last].time < S2Start(lap)
        /\ sector = 1 => S2Start(lap) <= rows[first].time /\ rows[last].time < S3Start(lap)
        /\ sector = 2 => S3Start(lap) <= rows[first].time
    BY <2>1, <2>2, ListedLap
  <2>7. /\ sector = 0 => SectorTime(lap, sector) = S2Start(lap)
        /\ sector = 1 => SectorTime(lap, sector) = S3Start(lap) - S2Start(lap)
        /\ sector = 2 => SectorTime(lap, sector) = lap.finish - S3Start(lap)
    BY DEF SectorTime
  <2>8. /\ rows[first].time \in Nat /\ rows[last].time \in Nat
        /\ Duration(seg) \in Int
        /\ Duration(seg) <= rows[last].time - rows[first].time + MaxDelay
    BY <2>2, <2>3, <2>4 DEF Duration, Row
  <2>9. sector = 0 \/ sector = 1 \/ sector = 2
    OBVIOUS
  <2> QED BY <2>0, <2>5, <2>6, <2>7, <2>8, <2>9
<1> QED BY <1>2, <1>5, <1>6, <1>7 DEF seg

\* appendSegment moves a segment to where the stitched lap ends, leaves out its
\* first row, and so prolongs the lap by the duration of the segment.
LEMMA Joined ==
  ASSUME NEW out \in Seq(Row), NEW seg \in Seq(Row), 0 < Len(out), 0 < Len(seg), Runs(out), Runs(seg)
  PROVE  LET both == AppendSegment(out, seg) IN
         /\ both \in Seq(Row) /\ 0 < Len(both) /\ Runs(both)
         /\ Duration(both) = Duration(out) + Duration(seg)
<1> DEFINE L == Len(out)
           M == Len(seg)
           last == out[L]
           dt == last.ts - seg[1].ts
           dd == last.dist - seg[1].dist
           rest == [i \in 1 .. M - 1 |-> Shift(seg[i + 1], dt, dd)]
           both == AppendSegment(out, seg)
<1>1. L \in Nat \ {0} /\ M \in Nat \ {0} /\ out # <<>> /\ seg # <<>>
  OBVIOUS
<1>2. both = out \o rest
  BY <1>1 DEF AppendSegment
<1>3. \A i \in 1 .. L : out[i] \in Row /\ out[i].ts \in Int /\ out[i].dist \in Int
  BY RowFields
<1>4. \A i \in 1 .. M : seg[i] \in Row /\ seg[i].ts \in Int /\ seg[i].dist \in Int
  BY RowFields
<1>5. dt \in Int /\ dd \in Int
  BY <1>1, <1>3, <1>4
<1>6. ASSUME NEW i \in 1 .. M - 1
      PROVE  /\ Shift(seg[i + 1], dt, dd) \in Row
             /\ Shift(seg[i + 1], dt, dd).ts = seg[i + 1].ts + dt
             /\ Shift(seg[i + 1], dt, dd).dist = seg[i + 1].dist + dd
  <2>1. i + 1 \in 1 .. M
    BY <1>1
  <2> HIDE DEF dt, dd
  <2> QED BY <1>4, <1>5, <2>1, ShiftedRow
<1>7. rest \in Seq(Row) /\ Len(rest) = M - 1
  <2> HIDE DEF dt, dd
  <2> QED BY <1>1, <1>6
<1>8. ASSUME NEW k \in 1 .. M - 1
      PROVE  rest[k].ts = seg[k + 1].ts + dt /\ rest[k].dist = seg[k + 1].dist + dd
  BY <1>6
<1> HIDE DEF rest
<1>9. /\ both \in Seq(Row) /\ Len(both) = L + M - 1
      /\ \A i \in 1 .. L : both[i] = out[i]
      /\ \A k \in 1 .. M - 1 : both[L + k] = rest[k]
  BY <1>1, <1>2, <1>7
<1> HIDE DEF both
<1>10. \A k \in 1 .. M : both[L + k - 1].ts = seg[k].ts + dt /\ both[L + k - 1].dist = seg[k].dist + dd
  <2> SUFFICES ASSUME NEW k \in 1 .. M
               PROVE  both[L + k - 1].ts = seg[k].ts + dt /\ both[L + k - 1].dist = seg[k].dist + dd
    OBVIOUS
  <2>1. CASE k = 1
    <3>1. both[L + k - 1] = last
      BY <1>1, <1>9, <2>1
    <3>2. last.ts \in Int /\ last.dist \in Int /\ seg[1].ts \in Int /\ seg[1].dist \in Int
      BY <1>1, <1>3, <1>4
    <3> QED BY <2>1, <3>1, <3>2
  <2>2. CASE k - 1 \in 1 .. M - 1
    <3>1. both[L + (k - 1)] = rest[k - 1] /\ k - 1 + 1 = k /\ L + (k - 1) = L + k - 1
      BY <1>1, <1>9, <2>2
    <3> HIDE DEF dt, dd
    <3> QED BY <1>8, <2>2, <3>1
  <2> QED BY <1>1, <2>1, <2>2
<1> HIDE DEF dt, dd
<1>11. Runs(both)
  <2> SUFFICES ASSUME NEW i \in 1 .. L + M - 1, NEW j \in 1 .. L + M - 1, i < j
               PROVE  both[i].ts < both[j].ts /\ both[i].dist < both[j].dist
    BY <1>9 DEF Runs, Ranks
  <2>1. \A k, l \in 1 .. L : k < l => both[k].ts < both[l].ts /\ both[k].dist < both[l].dist
    BY <1>9 DEF Runs, Ranks
  <2>2. ASSUME NEW k \in 1 .. M, NEW l \in 1 .. M, k < l
        PROVE  both[L + k - 1].ts < both[L + l - 1].ts /\ both[L + k - 1].dist < both[L + l - 1].dist
    <3>1. seg[k].ts < seg[l].ts /\ seg[k].dist < seg[l].dist
      BY <2>2 DEF Runs, Ranks
    <3>2. /\ both[L + k - 1].ts = seg[k].ts + dt /\ both[L + k - 1].dist = seg[k].dist + dd
          /\ both[L + l - 1].ts = seg[l].ts + dt /\ both[L + l - 1].dist = seg[l].dist + dd
      BY <1>10
    <3>3. /\ seg[k].ts \in Int /\ seg[k].dist \in Int /\ seg[l].ts \in Int /\ seg[l].dist \in Int
      BY <1>4
    <3>4. seg[k].ts + dt < seg[l].ts + dt /\ seg[k].dist + dd < seg[l].dist + dd
      BY <1>5, <3>1, <3>3, ShiftedOrder
    <3> QED BY <3>2, <3>4, Zenon
  <2>3. ASSUME NEW k \in L .. L + M - 1, NEW l \in L .. L + M - 1, k < l
        PROVE  both[k].ts < both[l].ts /\ both[k].dist < both[l].dist
    <3>1. /\ k - L + 1 \in 1 .. M /\ l - L + 1 \in 1 .. M /\ k - L + 1 < l - L + 1
          /\ L + (k - L + 1) - 1 = k /\ L + (l - L + 1) - 1 = l
      BY <1>1, <2>3
    <3> QED BY <2>2, <3>1
  <2>4. CASE j <= L
    BY <1>1, <2>1, <2>4
  <2>5. CASE i >= L
    BY <1>1, <2>3, <2>5
  <2>6. CASE i < L /\ L < j
    <3>1. both[i].ts < both[L].ts /\ both[i].dist < both[L].dist
      BY <1>1, <2>1, <2>6
    <3>2. both[L].ts < both[j].ts /\ both[L].dist < both[j].dist
      BY <1>1, <2>3, <2>6
    <3>3. \A k \in 1 .. Len(both) : both[k].ts \in Int /\ both[k].dist \in Int
      BY <1>9, RowFields
    <3>4. i \in 1 .. Len(both) /\ L \in 1 .. Len(both) /\ j \in 1 .. Len(both)
      BY <1>1, <1>9
    <3>5. /\ both[i].ts \in Int /\ both[L].ts \in Int /\ both[j].ts \in Int
          /\ both[i].dist \in Int /\ both[L].dist \in Int /\ both[j].dist \in Int
      BY <3>3, <3>4
    <3> QED BY <3>1, <3>2, <3>5, LessIsTransitive, Zenon
  <2> QED BY <1>1, <2>4, <2>5, <2>6
<1>12. Duration(both) = Duration(out) + Duration(seg)
  <2>1. both[1] = out[1] /\ both[L + M - 1].ts = seg[M].ts + dt
    BY <1>1, <1>9, <1>10
  <2>2. PICK a \in Int, b \in Int : out[1].ts = a /\ out[L].ts = b
    BY <1>1, <1>3
  <2>3. PICK c \in Int, d \in Int : seg[1].ts = c /\ seg[M].ts = d
    BY <1>1, <1>4
  <2>4. dt = b - c
    BY <2>2, <2>3, Zenon DEF dt
  <2>5. Duration(both) = d + (b - c) - a
    <3> DEFINE end == both[L + M - 1].ts
               start == both[1].ts
    <3>1. Duration(both) = end - start
      BY <1>9, Zenon DEF Duration
    <3>2. start = a /\ end = d + dt
      BY <2>1, <2>2, <2>3, Zenon
    <3> HIDE DEF end, start
    <3> QED BY <2>4, <3>1, <3>2
  <2>6. Duration(out) = b - a /\ Duration(seg) = d - c
    BY <2>2, <2>3, Zenon DEF Duration
  <2>7. d + (b - c) - a = (b - a) + (d - c)
    OBVIOUS
  <2> QED BY <2>5, <2>6, <2>7, Zenon
<1> QED BY <1>1, <1>9, <1>11, <1>12 DEF both

\* The forward walk of the delta chart, along rows that run forward, finds the
\* pair of reference rows around each row, though it never looks back.
LEMMA WalkEncloses ==
  ASSUME NEW data \in Seq(Row), NEW ref \in Seq(Row), 1 < Len(ref), Runs(data), Runs(ref)
  PROVE  \A i \in Ranks(data) : Encloses(ref, Walk(data, ref)[i], data[i].dist)
<1> DEFINE Here(from, dist) == {k \in from .. Len(ref) - 1 : k = Len(ref) - 1 \/ ref[k + 1].dist >= dist}
           Ahead(from, dist) == MinOf(Here(from, dist))
           Body(g) == [i \in Ranks(data) |-> Ahead(IF i = 1 THEN 1 ELSE g[i - 1], data[i].dist)]
           V == 1 .. Len(ref) - 1
           N == Len(data)
           F == [i \in 1 .. N |-> [v \in V |-> Ahead(v, data[i].dist)]]
           walk == CHOOSE g : g = Body(g)
<1>1. Len(ref) \in Nat /\ N \in Nat /\ 1 \in V /\ V \subseteq Nat
  OBVIOUS
<1>2. ASSUME NEW v \in V, NEW d \in Int
      PROVE  /\ Ahead(v, d) \in V /\ v <= Ahead(v, d)
             /\ Ahead(v, d) = Len(ref) - 1 \/ ref[Ahead(v, d) + 1].dist >= d
             /\ \A k \in v .. Ahead(v, d) - 1 : ref[k + 1].dist < d
  <2>1. Len(ref) - 1 \in Here(v, d) /\ Here(v, d) \in SUBSET Nat
    BY <1>1
  <2>2. Ahead(v, d) \in Here(v, d) /\ \A k \in Here(v, d) : Ahead(v, d) <= k
    <3> HIDE DEF Here
    <3> QED BY <2>1, MinOfIsLeast
  <2> HIDE DEF Ahead
  <2>3. ASSUME NEW k \in v .. Ahead(v, d) - 1 PROVE ref[k + 1].dist < d
    <3>1. k \notin Here(v, d) /\ k \in v .. Len(ref) - 1 /\ k + 1 \in 1 .. Len(ref)
      BY <1>1, <2>2
    <3>2. ref[k + 1].dist \in Int
      BY <3>1, RowFields
    <3> QED BY <3>1, <3>2
  <2>4. /\ Ahead(v, d) \in v .. Len(ref) - 1
        /\ Ahead(v, d) = Len(ref) - 1 \/ ref[Ahead(v, d) + 1].dist >= d
    BY <2>2
  <2> QED BY <1>1, <2>3, <2>4
<1>3. \A i \in 1 .. N : data[i].dist \in Int
  BY RowFields
<1> HIDE DEF Ahead
<1>4. F \in Updates(N, V)
  BY <1>2, <1>3 DEF Updates
<1>5. PICK f \in [0 .. N -> V] : Computes(f, N, 1, F)
  <2> HIDE DEF F, V, N
  <2> QED BY <1>1, <1>4, RecursiveFunction
<1>6. f[0] = 1 /\ \A i \in 1 .. N : f[i - 1] \in V /\ f[i] \in V /\ f[i] = Ahead(f[i - 1], data[i].dist)
  <2>1. f[0] = 1 /\ \A i \in 1 .. N : f[i] = F[i][f[i - 1]]
    BY <1>5 DEF Computes
  <2>2. \A i \in 0 .. N : f[i] \in V
    OBVIOUS
  <2>3. \A i \in 1 .. N : i - 1 \in 0 .. N /\ i \in 0 .. N
    BY <1>1
  <2> HIDE DEF V, N
  <2>4. \A i \in 1 .. N : f[i - 1] \in V /\ f[i] \in V
    BY <2>2, <2>3
  <2> QED BY <2>1, <2>4
<1> DEFINE w == [i \in 1 .. N |-> f[i]]
<1>7. w = Body(w)
  <2>1. ASSUME NEW i \in 1 .. N
        PROVE  f[i] = Ahead(IF i = 1 THEN 1 ELSE w[i - 1], data[i].dist)
    <3>1. CASE i = 1
      BY <1>6, <3>1
    <3>2. CASE i - 1 \in 1 .. N
      BY <1>6, <3>2
    <3> QED BY <1>1, <3>1, <3>2
  <2> HIDE DEF Ahead
  <2> QED BY <2>1 DEF Ranks
<1>8. walk = Body(walk)
  <2> HIDE DEF Body
  <2> QED BY <1>7
<1>9. Walk(data, ref) = walk
  BY DEF Walk, Ahead
<1>10. ASSUME NEW i \in 1 .. N
       PROVE  walk[i] = Ahead(IF i = 1 THEN 1 ELSE walk[i - 1], data[i].dist)
  <2> HIDE DEF walk, Ahead
  <2> QED BY <1>8 DEF Ranks
<1> HIDE DEF walk, Body, F, w
<1>11. ASSUME NEW v \in V, NEW d \in Int, v > 1 => ref[v].dist < d
       PROVE  Ahead(v, d) \in V /\ Encloses(ref, Ahead(v, d), d)
  <2> DEFINE k == Ahead(v, d)
  <2>1. /\ k \in V /\ v <= k
        /\ k = Len(ref) - 1 \/ ref[k + 1].dist >= d
        /\ \A l \in v .. k - 1 : ref[l + 1].dist < d
    BY <1>2
  <2> HIDE DEF k
  <2>2. k > 1 => ref[k].dist < d
    <3>1. CASE k = v
      BY <1>11, <3>1
    <3>2. CASE k - 1 \in v .. k - 1
      <4>1. k - 1 + 1 = k
        BY <2>1
      <4> QED BY <2>1, <3>2, <4>1
    <3> QED BY <2>1, <3>1, <3>2
  <2>3. k + 1 \in 1 .. Len(ref)
    BY <2>1
  <2>4. ref[k + 1].dist \in Int
    BY <2>3, RowFields
  <2> QED BY <2>1, <2>2, <2>4 DEF Encloses, k
<1> DEFINE S == {n \in Nat : n + 1 <= N =>
                   walk[n + 1] \in V /\ Encloses(ref, walk[n + 1], data[n + 1].dist)}
<1>12. 0 \in S
  <2> SUFFICES ASSUME 1 <= N PROVE walk[1] \in V /\ Encloses(ref, walk[1], data[1].dist)
    OBVIOUS
  <2>1. 1 \in 1 .. N /\ ~(1 > 1)
    BY <1>1
  <2>2. walk[1] = Ahead(1, data[1].dist)
    BY <1>10, <2>1
  <2> QED BY <1>1, <1>3, <1>11, <2>1, <2>2
<1>13. ASSUME NEW n \in Nat, n \in S PROVE n + 1 \in S
  <2> DEFINE i == n + 2
  <2> SUFFICES ASSUME i <= N PROVE walk[i] \in V /\ Encloses(ref, walk[i], data[i].dist)
    OBVIOUS
  <2>1. /\ i \in 1 .. N /\ i - 1 \in 1 .. N /\ i # 1 /\ i - 1 < i /\ i - 1 = n + 1
    BY <1>1
  <2>2. walk[i - 1] \in V /\ Encloses(ref, walk[i - 1], data[i - 1].dist)
    BY <1>13, <2>1
  <2> HIDE DEF i, S
  <2>3. walk[i] = Ahead(walk[i - 1], data[i].dist)
    BY <1>10, <2>1
  <2>4. data[i - 1].dist < data[i].dist
    BY <2>1 DEF Runs, Ranks
  <2>5. walk[i - 1] > 1 => ref[walk[i - 1]].dist < data[i].dist
    <3> SUFFICES ASSUME walk[i - 1] > 1 PROVE ref[walk[i - 1]].dist < data[i].dist
      OBVIOUS
    <3>1. ref[walk[i - 1]].dist < data[i - 1].dist
      BY <2>2 DEF Encloses
    <3>2. ref[walk[i - 1]].dist \in Int
      BY <1>1, <2>2, RowFields
    <3> QED BY <1>3, <2>1, <2>4, <3>1, <3>2
  <2> QED BY <1>3, <1>11, <2>1, <2>2, <2>3, <2>5
<1> HIDE DEF S
<1>14. Nat \subseteq S
  BY <1>12, <1>13, InductionOnSet
<1>15. ASSUME NEW i \in 1 .. N PROVE Encloses(ref, walk[i], data[i].dist)
  <2>1. i - 1 \in S /\ i - 1 + 1 = i
    BY <1>1, <1>14
  <2> QED BY <2>1 DEF S
<1> QED BY <1>9, <1>15 DEF Ranks

\* All that IdealLapCharts says of a set of laps, for any number of laps of any length.
LEMMA StitchedLap ==
  ASSUME NEW laps, \A lap \in laps : IsLap(lap), Candidates(laps) # {}
  PROVE  LET rows == IdealRows(laps) IN
         /\ rows \in Seq(Row) /\ Runs(rows)
         /\ Duration(rows) <= IdealTime(laps) + 3 * MaxDelay
         /\ \A lap \in Candidates(laps) : IdealTime(laps) <= lap.finish
<1> DEFINE Seg(sector) == QueryTelemetrySector(Best(laps, sector), sector)
           Time(sector) == SectorTime(Best(laps, sector), sector)
           two   == AppendSegment(Seg(0), Seg(1))
           three == AppendSegment(two, Seg(2))
<1>1. \A sector \in 0 .. 2 : IsLap(Best(laps, sector)) /\ Covered(Best(laps, sector))
  BY Fastest DEF Candidates
<1>2. \A sector \in 0 .. 2 : /\ Seg(sector) \in Seq(Row) /\ 0 < Len(Seg(sector)) /\ Runs(Seg(sector))
                            /\ Duration(Seg(sector)) <= Time(sector) + MaxDelay
                            /\ Time(sector) \in Nat
  BY <1>1, Segment, SectorTimes
<1>3. \A sector \in 0 .. 2 : Duration(Seg(sector)) \in Int
  <2> SUFFICES ASSUME NEW sector \in 0 .. 2 PROVE Duration(Seg(sector)) \in Int
    OBVIOUS
  <2>1. Seg(sector) \in Seq(Row) /\ 0 < Len(Seg(sector))
    BY <1>2
  <2> HIDE DEF Seg
  <2>2. 1 \in 1 .. Len(Seg(sector)) /\ Len(Seg(sector)) \in 1 .. Len(Seg(sector))
    BY <2>1
  <2> QED BY <2>1, <2>2, RowFields DEF Duration
<1> HIDE DEF Seg, Time
<1>4. two \in Seq(Row) /\ 0 < Len(two) /\ Runs(two) /\ Duration(two) = Duration(Seg(0)) + Duration(Seg(1))
  BY <1>2, Joined
<1> HIDE DEF two
<1>5. three \in Seq(Row) /\ Runs(three) /\ Duration(three) = Duration(two) + Duration(Seg(2))
  BY <1>2, <1>4, Joined
<1> HIDE DEF three
<1>6. IdealRows(laps) = three
  BY DEF IdealRows, BuildIdealLapRows, three, two, Seg
<1>7. IdealTime(laps) = Time(0) + Time(1) + Time(2)
  BY DEF IdealTime, Time
<1>8. Duration(three) <= Time(0) + Time(1) + Time(2) + 3 * MaxDelay
  <2> DEFINE d(sector) == Duration(Seg(sector))
  <2>1. d(0) \in Int /\ d(1) \in Int /\ d(2) \in Int
    BY <1>3
  <2>2. Time(0) \in Int /\ Time(1) \in Int /\ Time(2) \in Int /\ MaxDelay \in Int
    BY <1>2, ConversionsAssumption
  <2>3. d(0) <= Time(0) + MaxDelay /\ d(1) <= Time(1) + MaxDelay /\ d(2) <= Time(2) + MaxDelay
    BY <1>2
  <2>4. Duration(three) = d(0) + d(1) + d(2)
    BY <1>4, <1>5, Zenon
  <2> HIDE DEF d
  <2> QED BY <2>1, <2>2, <2>3, <2>4, SumOfBounds
<1>9. ASSUME NEW lap \in Candidates(laps) PROVE IdealTime(laps) <= lap.finish
  <2>1. IsLap(lap) /\ Covered(lap)
    BY DEF Candidates
  <2>2. /\ \A sector \in 0 .. 2 : SectorTime(lap, sector) \in Nat
        /\ SectorTime(lap, 0) + SectorTime(lap, 1) + SectorTime(lap, 2) = lap.finish
    BY <2>1, SectorTimes
  <2>3. \A sector \in 0 .. 2 : Time(sector) <= SectorTime(lap, sector)
    BY Fastest DEF Time
  <2>4. 0 \in 0 .. 2 /\ 1 \in 0 .. 2 /\ 2 \in 0 .. 2
    OBVIOUS
  <2> QED BY <1>2, <1>7, <2>2, <2>3, <2>4
<1> QED BY <1>5, <1>6, <1>7, <1>8, <1>9

LEMMA SectorOfIsMonotone ==
  ASSUME NEW p \in 0 .. Places - 1, NEW q \in 0 .. Places - 1, p <= q
  PROVE  SectorOf(p) \in 0 .. 2 /\ SectorOf(p) <= SectorOf(q)
BY ConversionsAssumption DEF SectorOf

\* A stamp is late by at most MaxDelay.
LEMMA StampsFollowTime ==
  ASSUME NEW start \in Int, NEW early \in Int, NEW late \in Int,
         NEW first \in Int, NEW second \in Int, NEW delay \in Int,
         early < late, first < second, first <= early, late <= second + delay
  PROVE  /\ start + early < start + late
         /\ (start + late) - (start + early) <= second - first + delay
OBVIOUS

\* What the recorder leaves of a lap driven forward is a lap in the sense above.
LEMMA RecordedLapsAreLaps ==
  ASSUME NEW start \in Int, NEW lap \in RecordedLaps(start)
  PROVE  IsLap(lap)
<1>1. PICK n \in 0 .. Frames :
        \E d \in Drives(n), places \in Rising(n, 0 .. Places - 1), invalid \in 0 .. 1 :
          lap = LapOf(start, d, places, invalid)
  BY DEF RecordedLaps
<1>2. PICK d \in Drives(n), places \in Rising(n, 0 .. Places - 1), invalid \in 0 .. 1 :
          lap = LapOf(start, d, places, invalid)
  BY <1>1
<1>3. n \in Nat /\ Frames \in Nat /\ Places \in Nat /\ MaxDelay \in Nat
  BY ConversionsAssumption
<1> DEFINE frames == d.frames
           stamps == d.stamps
<1>4. /\ d \in [frames : Rising(n, 0 .. Frames - 1), stamps : Rising(n, 0 .. Frames - 1 + MaxDelay),
                finish : 1 .. Frames - 1]
      /\ \A i \in 1 .. n : stamps[i] \in frames[i] .. frames[i] + MaxDelay /\ frames[i] <= d.finish
  BY DEF Drives
<1>5. /\ frames \in [1 .. n -> 0 .. Frames - 1] /\ \A i, j \in 1 .. n : i < j => frames[i] < frames[j]
      /\ stamps \in [1 .. n -> 0 .. Frames - 1 + MaxDelay]
      /\ \A i, j \in 1 .. n : i < j => stamps[i] < stamps[j]
      /\ places \in [1 .. n -> 0 .. Places - 1] /\ \A i, j \in 1 .. n : i < j => places[i] < places[j]
      /\ d.finish \in 1 .. Frames - 1
  BY <1>4 DEF Rising
<1> DEFINE row(i) == lap.rows[i]
<1>6. /\ lap.rows = [i \in 1 .. n |-> [ts |-> start + stamps[i], time |-> frames[i], dist |-> places[i],
                                      sector |-> SectorOf(places[i])]]
      /\ lap.finish = d.finish
  BY <1>2, <1>5 DEF LapOf
<1>7. ASSUME NEW i \in 1 .. n
      PROVE  /\ row(i).ts = start + stamps[i] /\ row(i).time = frames[i] /\ row(i).dist = places[i]
             /\ row(i).sector = SectorOf(places[i])
             /\ frames[i] \in Nat /\ stamps[i] \in Nat /\ places[i] \in 0 .. Places - 1
             /\ SectorOf(places[i]) \in 0 .. 2
             /\ row(i) \in Row
  <2>1. frames[i] \in 0 .. Frames - 1 /\ stamps[i] \in 0 .. Frames - 1 + MaxDelay
        /\ places[i] \in 0 .. Places - 1
    BY <1>5
  <2>2. SectorOf(places[i]) \in 0 .. 2
    BY <2>1, SectorOfIsMonotone
  <2>3. row(i) = [ts |-> start + stamps[i], time |-> frames[i], dist |-> places[i], sector |-> SectorOf(places[i])]
    BY <1>6
  <2> HIDE DEF row, frames, stamps
  <2> QED BY <1>3, <2>1, <2>2, <2>3 DEF Row
<1>8. lap.rows \in Seq(Row) /\ Len(lap.rows) = n
  <2>1. lap.rows = [i \in 1 .. n |-> row(i)]
    BY <1>6
  <2> HIDE DEF row
  <2> QED BY <1>3, <1>7, <2>1
<1>9. ASSUME NEW i \in 1 .. n, NEW j \in 1 .. n, i < j
      PROVE  /\ row(i).ts < row(j).ts /\ row(i).dist < row(j).dist /\ row(i).sector <= row(j).sector
             /\ row(i).time < row(j).time
             /\ row(j).ts - row(i).ts <= row(j).time - row(i).time + MaxDelay
  <2>1. frames[i] < frames[j] /\ stamps[i] < stamps[j] /\ places[i] < places[j]
    BY <1>5, <1>9
  <2>2. frames[i] <= stamps[i] /\ stamps[j] <= frames[j] + MaxDelay
    <3>1. stamps[i] \in frames[i] .. frames[i] + MaxDelay /\ stamps[j] \in frames[j] .. frames[j] + MaxDelay
      BY <1>4
    <3>2. frames[i] \in Nat /\ stamps[i] \in Nat /\ frames[j] \in Nat /\ stamps[j] \in Nat
      BY <1>7
    <3> HIDE DEF frames, stamps
    <3> QED BY <1>3, <3>1, <3>2
  <2>3. SectorOf(places[i]) <= SectorOf(places[j])
    BY <1>7, <2>1, SectorOfIsMonotone
  <2>4. /\ row(i).ts = start + stamps[i] /\ row(i).time = frames[i] /\ row(i).dist = places[i]
        /\ row(j).ts = start + stamps[j] /\ row(j).time = frames[j] /\ row(j).dist = places[j]
    BY <1>7
  <2>5. row(i).sector = SectorOf(places[i]) /\ row(j).sector = SectorOf(places[j])
    BY <1>7
  <2>6. /\ frames[i] \in Nat /\ stamps[i] \in Nat /\ places[i] \in Nat
        /\ frames[j] \in Nat /\ stamps[j] \in Nat /\ places[j] \in Nat
    BY <1>7
  <2>7. row(i).time < row(j).time /\ row(i).dist < row(j).dist
    BY <2>1, <2>4, Zenon
  <2>8. row(i).ts < row(j).ts /\ row(j).ts - row(i).ts <= row(j).time - row(i).time + MaxDelay
    <3> DEFINE fi == frames[i]
               fj == frames[j]
               si == stamps[i]
               sj == stamps[j]
    <3>0. fi \in Nat /\ fj \in Nat /\ si \in Nat /\ sj \in Nat
      BY <2>6, Zenon
    <3>1. /\ start \in Int /\ stamps[i] \in Int /\ stamps[j] \in Int
          /\ frames[i] \in Int /\ frames[j] \in Int /\ MaxDelay \in Int
      <4>1. start \in Int /\ MaxDelay \in Int
        BY <1>3
      <4> HIDE DEF fi, fj, si, sj
      <4>2. fi \in Int /\ fj \in Int /\ si \in Int /\ sj \in Int
        BY <3>0
      <4> QED BY <4>1, <4>2, Zenon DEF fi, fj, si, sj
    <3>2. /\ start + stamps[i] < start + stamps[j]
          /\ (start + stamps[j]) - (start + stamps[i]) <= frames[j] - frames[i] + MaxDelay
      BY <2>1, <2>2, <3>1, StampsFollowTime
    <3> QED BY <2>4, <3>2, Zenon
  <2>9. row(i).sector <= row(j).sector
    BY <2>3, <2>5, Zenon
  <2> QED BY <2>7, <2>8, <2>9
<1>10. \A i \in 1 .. n : row(i).time <= lap.finish
  BY <1>4, <1>6, <1>7
<1>11. lap.finish \in Nat
  BY <1>3, <1>5, <1>6
<1> QED BY <1>8, <1>9, <1>10, <1>11 DEF IsLap, Ranks

-----------------------------------------------------------------------------
(* The theorems. *)

\* The inputs of a call of each kind, whatever the bounds.
CallsAreTyped ==
  /\ call.kind = "datagram" => call.d.player \in Nat /\ call.d.len \in Int
  /\ call.kind = "answer" => call.n \in Nat /\ call.isHttp \in BOOLEAN
  /\ call.kind = "ideal" => \A lap \in call.laps : IsLap(lap)

\* The calls of ConversionsNext are typed.
LEMMA LengthsAreIntegers ==
  ASSUME NEW format, NEW id, NEW len \in Lengths(format, id)
  PROVE  len \in Int
<1>1. CASE format \notin DOMAIN registered \/ id \notin DOMAIN PacketKind
  BY <1>1 DEF Lengths, HeaderSize
<1>2. CASE format \in DOMAIN registered /\ id \in DOMAIN PacketKind
  <2> DEFINE p == registered[format]
             kind == PacketKind[id]
  <2>1. kind \in Kinds /\ p.cars \in Nat
    BY <1>2, Dispatched
  <2>2. p.size[kind] \in Nat
    BY <1>2, SlotsAreRead DEF WellRead
  <2>3. Needed(p, kind) \in Int
    BY <2>1, <2>2 DEF Needed, HeaderSize, Lead
  <2>4. kind \in PerCar => GameSize(format, kind) \in Int
    <3> SUFFICES ASSUME kind \in PerCar PROVE GameSize(format, kind) \in Int
      OBVIOUS
    <3>1. GameStride(format)[kind] \in Nat
      BY DEF GameStride, PerCar
    <3> DEFINE trailer == CASE kind = "LapData" -> 2 [] kind = "CarTelemetry" -> 3 [] OTHER -> 0
    <3>2. trailer \in Int
      OBVIOUS
    <3>3. GameSize(format, kind) = 29 + Lead(kind) + trailer + p.cars * GameStride(format)[kind]
      BY DEF GameSize, HeaderSize
    <3>4. Lead(kind) \in Int
      BY DEF Lead
    <3> HIDE DEF trailer, p, kind
    <3>5. p.cars * GameStride(format)[kind] \in Int
      BY <2>1, <3>1
    <3> QED BY <3>2, <3>3, <3>4, <3>5
  <2> HIDE DEF p, kind
  <2>5. \/ len \in {0, HeaderSize - 1, HeaderSize}
        \/ len \in {Needed(p, kind) + n : n \in -1 .. 1}
        \/ kind \in PerCar /\ len = GameSize(format, kind)
    BY <1>2 DEF Lengths, p, kind
  <2> QED BY <2>3, <2>4, <2>5 DEF HeaderSize
<1> QED BY <1>1, <1>2

LEMMA TypedCalls == ConversionsSpec => []CallsAreTyped
<1> USE DEF CallsAreTyped
<1>1. ConversionsInit => CallsAreTyped
  BY DEF ConversionsInit, none
<1>2. CallsAreTyped /\ [ConversionsNext]_call => CallsAreTyped'
  <2> SUFFICES ASSUME CallsAreTyped, [ConversionsNext]_call PROVE CallsAreTyped'
    OBVIOUS
  <2>1. CASE Datagram
    <3>1. PICK h \in Headers : \E len \in Lengths(h.format, h.id) :
            call' = [kind |-> "datagram", d |-> [format |-> h.format, id |-> h.id, player |-> h.player, len |-> len]]
      BY <2>1 DEF Datagram
    <3>2. PICK len \in Lengths(h.format, h.id) :
            call' = [kind |-> "datagram", d |-> [format |-> h.format, id |-> h.id, player |-> h.player, len |-> len]]
      BY <3>1
    <3>3. len \in Int
      BY LengthsAreIntegers
    <3>4. h.player \in Nat
      BY DEF Headers
    <3> QED BY <3>2, <3>3, <3>4
  <2>2. CASE Answer
    BY <2>2, ConversionsAssumption DEF Answer
  <2>3. CASE Ideal
    <3>1. PICK one \in RecordedLaps(0), two \in RecordedLaps(100) :
            call' = [kind |-> "ideal", laps |-> {one, two}]
      BY <2>3 DEF Ideal
    <3>2. IsLap(one) /\ IsLap(two)
      BY RecordedLapsAreLaps
    <3>3. call'.kind = "ideal" /\ call'.laps = {one, two}
      BY <3>1
    <3> QED BY <3>2, <3>3
  <2>4. CASE Watch
    BY <2>4 DEF Watch
  <2>5. CASE call' = none
    BY <2>5 DEF none
  <2>6. CASE UNCHANGED call
    BY <2>6
  <2> QED BY <2>1, <2>2, <2>3, <2>4, <2>5, <2>6 DEF ConversionsNext
<1> QED BY <1>1, <1>2, PTL DEF ConversionsSpec

\* Whatever its length, format, packet id and player index say, no datagram
\* makes a parser of internal/parser read beyond it; and each field of a payload
\* of F1 25 and F1 26 comes from the bytes documented for it, in the slot where
\* the game puts the player's car, the damage of F1 25 excepted.
THEOREM PayloadsAreDocumented == ConversionsSpec => []PayloadAsDocumented
<1>1. CallsAreTyped => PayloadAsDocumented
  <2> SUFFICES ASSUME CallsAreTyped, call.kind = "datagram" PROVE PayloadAsDocumented
    BY DEF PayloadAsDocumented
  <2> DEFINE d == call.d
             kind == PacketKind[d.id]
             start == Start(registered[d.format], kind, d.player)
  <2>1. d.player \in Nat /\ d.len \in Int
    BY DEF CallsAreTyped
  <2>2. /\ ~Parse(d).panic
        /\ Parse(d).ok =>
             /\ Parse(d).fields = {<<f[1], start + f[2], start + f[3]>> : f \in Documented(d.format)[kind]}
             /\ \A f \in Parse(d).fields : f[3] <= d.len
        /\ ~Parse(d).ok => Parse(d).fields = {}
        /\ Parse(d).ok => d.id \in DOMAIN PacketKind
    <3> HIDE DEF d
    <3> QED BY <2>1, PayloadRead
  <2>3. ASSUME Parse(d).ok, d.format \in {2025, 2026}, ~Misplaced(d)
        PROVE  start = GameStart(d.format, kind, d.player)
    <3>1. kind \in Kinds
      BY <2>2, <2>3, Dispatched
    <3> QED BY <2>1, <2>3, <3>1, SlotOfGame DEF Misplaced
  <2>4. \A f \in Parse(d).fields : f[3] <= d.len
    BY <2>2
  <2>5. Parse(d).ok /\ d.format \in {2025, 2026} /\ ~Misplaced(d) =>
          Parse(d).fields = {<<f[1], GameStart(d.format, kind, d.player) + f[2],
                               GameStart(d.format, kind, d.player) + f[3]>> :
                               f \in Documented(d.format)[kind]}
    BY <2>2, <2>3
  <2> QED BY <2>2, <2>4, <2>5 DEF PayloadAsDocumented
<1> QED BY <1>1, TypedCalls, PTL

\* For any number of rows, over HTTP and in a live frame, the engine encodes
\* every row without a failed type assertion (reader.go encodeTelemetryRow) and
\* the client reads from it, at the same bytes and as the same types, what was
\* written.
THEOREM ClientReadsEngineRows == ConversionsSpec => []ClientReadsEngineRow
<1>1. CallsAreTyped => ClientReadsEngineRow
  <2> SUFFICES ASSUME CallsAreTyped, call.kind = "answer" PROVE ClientReadsEngineRow
    BY DEF ClientReadsEngineRow
  <2> DEFINE n == call.n
             isHttp == call.isHttp
  <2>1. n \in Nat /\ isHttp \in BOOLEAN
    BY DEF CallsAreTyped
  <2> QED BY <2>1, BodyDecoded DEF ClientReadsEngineRow
<1> QED BY <1>1, TypedCalls, PTL

\* Of any two recorded laps, however many frames each lacks and however late they
\* are stamped: GET /laps lists no lap that BestSectors leaves out, but one with a
\* single row of its final sector; if BestSectors has a candidate, handleIdealLap
\* (ideallap.go) stitches a lap that runs forward, no longer than the sum of the
\* best sectors and the delays; that sum beats or equals every candidate; and the
\* chart's walk along it finds the rows around each row of a listed lap.
THEOREM IdealLapIsCharted == ConversionsSpec => []IdealLapCharts
<1>1. CallsAreTyped => IdealLapCharts
  <2> SUFFICES ASSUME CallsAreTyped, call.kind = "ideal" PROVE IdealLapCharts
    BY DEF IdealLapCharts
  <2> DEFINE laps == call.laps
             rows == IdealRows(laps)
  <2>1. \A lap \in laps : IsLap(lap)
    BY DEF CallsAreTyped
  <2> HIDE DEF laps
  <2>2. \A lap \in Listed(laps) : lap \in Candidates(laps) \/ OneRowIn(lap, 2)
    BY <2>1, CandidatesListed
  <2>3. ASSUME Candidates(laps) # {}
        PROVE  /\ \A lap \in Candidates(laps) : IdealTime(laps) <= lap.finish
               /\ rows \in Seq(Row) /\ Runs(rows)
               /\ rows[Len(rows)].ts - rows[1].ts <= IdealTime(laps) + 3 * MaxDelay
    BY <2>1, <2>3, StitchedLap DEF Duration
  <2> HIDE DEF rows
  <2>4. ASSUME Candidates(laps) # {}, Len(rows) > 1, NEW lap \in Listed(laps)
        PROVE  \A i \in Ranks(lap.rows) : Encloses(rows, Walk(lap.rows, rows)[i], lap.rows[i].dist)
    <3>1. IsLap(lap)
      BY <2>1 DEF Listed
    <3>2. lap.rows \in Seq(Row) /\ Runs(lap.rows)
      BY <3>1 DEF IsLap, Runs
    <3>3. rows \in Seq(Row) /\ Runs(rows) /\ 1 < Len(rows)
      BY <2>3, <2>4
    <3> QED BY <3>2, <3>3, WalkEncloses
  <2> QED BY <2>2, <2>3, <2>4 DEF IdealLapCharts, rows, laps
<1> QED BY <1>1, TypedCalls, PTL
=============================================================================
