---------------------------- MODULE LibraryProofs ----------------------------
(***************************************************************************)
(* Theorems about Library, for every set of laps and every calendar:       *)
(* imports that fail, are repeated or follow a restart keep the telemetry  *)
(* of the drivers in the file single, restore the laps that the export     *)
(* promised, and take a listed lap away only as the import must.           *)
(***************************************************************************)
EXTENDS Library, TLAPS

Times == {None, "valid", "invalid"}

\* The one exporting or importing request, and what it relies on.
RequestInv ==
  /\ export \in {"none", "sessions", "participants", "lapTimes", "telemetry", "done"}
  /\ export \notin {"none", "done"} => engine = "up" /\ scope.ids \subseteq sessions
  /\ export # "done" => recorder /\ import = "none"
  /\ import # "none" => engine = "up"

\* The file names the session of everything it holds.
FileInv ==
  /\ file \in [sessions : SUBSET Sessions, participants : SUBSET Cars,
               lapTimes : [Keys -> Times], telemetry : [Keys -> {0, 1}]]
  /\ \A c \in file.participants : c[1] \in file.sessions
  /\ \A k \in Keys : file.lapTimes[k] # None \/ file.telemetry[k] > 0 => k[1] \in file.sessions
  /\ export = "sessions" => file = Empty
  /\ export \in {"participants", "lapTimes", "telemetry"} => file.sessions = scope.ids

\* What the export promised is in the tables until it is in the file.
PromiseInv ==
  \A k \in promised :
    /\ export \notin {"none", "done"} => Chosen(k) /\ Car(k) \in participants /\ telemetry[k] > 0
    /\ export \in {"sessions", "participants", "lapTimes"} => lapTimes[k] = "valid"
    /\ export \in {"lapTimes", "telemetry", "done"} => Car(k) \in file.participants
    /\ export \in {"telemetry", "done"} => file.lapTimes[k] = "valid"
    /\ export = "done" => file.telemetry[k] > 0

\* What an import has gone through.
ImportInv ==
  /\ import \in {"participants", "lapTimes", "delete", "copy"} => file.sessions \subseteq sessions
  /\ import \in {"lapTimes", "delete", "copy"} => file.participants \subseteq participants
  /\ import \in {"delete", "copy"} => \A k \in promised : lapTimes[k] = "valid"
  /\ import = "copy" =>
       \A k \in Keys : Car(k) \in file.participants => telemetry[k] = 0 \/ file.telemetry[k] = 0

\* Telemetry is recorded once, and only an import of the file copies it.
CopyInv ==
  /\ \A k \in Keys : telemetry[k] > 0 \/ file.telemetry[k] > 0 => k \in driven
  /\ export # "done" => \A k \in Keys : telemetry[k] <= 1
  /\ NoDuplicateTelemetry

\* An engine that is up has the partitions of two months, and outside every
\* partition there are only rows of months that are over.
PartitionInv ==
  /\ startedIn <= month /\ \A s \in Sessions : drivenIn[s] <= month
  /\ engine = "up" => startedIn \in partitions /\ startedIn + 1 \in partitions
  /\ ~overran => \A k \in Keys : telemetry[k] > 0 /\ drivenIn[k[1]] = month => month \in partitions
  /\ StartsUnlessOverran

LibraryInv ==
  /\ LibraryTypeOK /\ RequestInv /\ FileInv /\ PromiseInv
  /\ ImportInv /\ CopyInv /\ PartitionInv

-----------------------------------------------------------------------------
LEMMA KeyParts ==
  ASSUME NEW k \in Keys
  PROVE  k[1] \in Sessions /\ Car(k) \in Cars /\ Car(k)[1] = k[1]
BY DEF Sessions, Cars, Car

LEMMA EmptyBundle ==
  Empty \in [sessions : SUBSET Sessions, participants : SUBSET Cars,
             lapTimes : [Keys -> Times], telemetry : [Keys -> {0, 1}]]
BY DEF Empty, Times

LEMMA CopiesBounded ==
  ASSUME NEW n \in Nat
  PROVE  /\ Copies(n) \in 0 .. MaxCopies /\ Copies(n) <= n
         /\ n > 0 => Copies(n) > 0
         /\ n <= 1 => Copies(n) = n
BY LibraryAssumption DEF Copies

LEMMA LibraryInvInit == LibraryInit => LibraryInv
<1> SUFFICES ASSUME LibraryInit PROVE LibraryInv
  OBVIOUS
<1>1. LibraryTypeOK
  <2>1. /\ lapTimes = [k \in Keys |-> None] /\ telemetry = [k \in Keys |-> 0]
        /\ participants = {} /\ drivenIn = [s \in Sessions |-> 0]
    BY DEF LibraryInit, Empty
  <2>2. 0 \in 0 .. MaxMonth /\ 0 \in 0 .. MaxCopies
    BY LibraryAssumption
  <2>3. \A k \in Keys : ~(lapTimes[k] # None \/ telemetry[k] > 0)
    BY <2>1
  <2> QED BY <2>1, <2>2, <2>3 DEF LibraryInit, LibraryTypeOK
<1>2. RequestInv /\ PromiseInv
  BY DEF LibraryInit, RequestInv, PromiseInv
<1>3. FileInv
  BY EmptyBundle DEF LibraryInit, FileInv, Empty
<1>4. ImportInv /\ CopyInv
  BY DEF LibraryInit, ImportInv, CopyInv, NoDuplicateTelemetry, Empty
<1>5. PartitionInv
  BY DEF LibraryInit, PartitionInv, StartsUnlessOverran, Empty
<1> QED BY <1>1, <1>2, <1>3, <1>4, <1>5 DEF LibraryInv

-----------------------------------------------------------------------------
(* The engine, the calendar and the other computer. *)

\* No row of this month or the next is in the default partition, unless an
\* engine overran its partitions.
LEMMA StartKeepsPartitions ==
  ASSUME LibraryInv, StartEngine
  PROVE  PartitionInv'
<1>1. UNCHANGED <<month, telemetry, drivenIn, overran>> /\ startedIn' = month
  BY DEF StartEngine, drives
<1>2. month \in Nat /\ startedIn \in Nat /\ \A s \in Sessions : drivenIn[s] \in Nat
  BY DEF LibraryInv, LibraryTypeOK
<1> DEFINE refused == {m \in NeededMonths \ partitions : InDefault(m)}
<1>3. /\ engine' = IF refused = {} THEN "up" ELSE "failed"
      /\ partitions' = partitions \cup {m \in NeededMonths : \A r \in refused : m < r}
  BY DEF StartEngine, EnsurePartitions
<1>4. ASSUME NEW m \in refused PROVE overran
  <2>1. PICK k \in Keys : telemetry[k] > 0 /\ drivenIn[k[1]] = m /\ m \notin partitions
    BY <1>4 DEF InDefault
  <2>2. m \in {month, month + 1} /\ m <= month
    BY <1>4, <2>1, KeyParts DEF NeededMonths, LibraryInv, PartitionInv
  <2>3. m = month
    BY <1>2, <2>2
  <2> QED BY <2>1, <2>3 DEF LibraryInv, PartitionInv
<1>5. engine' = "up" => month \in partitions' /\ month + 1 \in partitions'
  BY <1>3 DEF NeededMonths
<1>6. StartsUnlessOverran'
  BY <1>1, <1>3, <1>4 DEF StartsUnlessOverran
<1>7. partitions \subseteq partitions'
  BY <1>3
<1> QED BY <1>1, <1>2, <1>5, <1>6, <1>7 DEF LibraryInv, PartitionInv

LEMMA StartKeepsInv ==
  ASSUME LibraryInv, StartEngine
  PROVE  LibraryInv'
<1>1. /\ UNCHANGED <<month, recorder, sessions, participants, telemetry, drivenIn, driven,
                     export, scope, file, promised, import, overran>>
      /\ startedIn' = month /\ engine' \in {"up", "failed"}
      /\ partitions' \subseteq partitions \cup NeededMonths
      /\ lapTimes' = [k \in Keys |-> IF lapTimes[k] = "valid" /\ telemetry[k] = 0
                                     THEN "invalid" ELSE lapTimes[k]]
      /\ engine # "up"
  BY DEF StartEngine, Backfill, EnsurePartitions, drives, exportVars
<1>2. export \in {"none", "done"} /\ import = "none"
  BY <1>1 DEF LibraryInv, RequestInv
<1>3. NeededMonths \subseteq Months /\ month \in 0 .. MaxMonth
  BY LibraryAssumption DEF NeededMonths, Months, LibraryInv, LibraryTypeOK
<1>4. \A k \in Keys : lapTimes'[k] \in Times
  BY <1>1 DEF LibraryInv, LibraryTypeOK, Times
<1>5. \A k \in Keys : lapTimes'[k] # None => lapTimes[k] # None
  BY <1>1, LibraryAssumption
<1>6. LibraryTypeOK'
  BY <1>1, <1>3, <1>4, <1>5 DEF LibraryInv, LibraryTypeOK, Times
<1>7. RequestInv' /\ FileInv' /\ PromiseInv' /\ ImportInv'
  BY <1>1, <1>2 DEF LibraryInv, RequestInv, FileInv, PromiseInv, ImportInv, Empty
<1>8. CopyInv'
  BY <1>1 DEF LibraryInv, CopyInv, NoDuplicateTelemetry
<1> QED BY <1>6, <1>7, <1>8, StartKeepsPartitions DEF LibraryInv

LEMMA EndKeepsInv ==
  ASSUME LibraryInv, EngineEnds
  PROVE  LibraryInv'
<1>1. /\ UNCHANGED <<month, startedIn, recorder, partitions, sessions, participants, lapTimes,
                     telemetry, drivenIn, driven, scope, file, promised, overran>>
      /\ engine' = "down" /\ import' = "none"
      /\ export' = IF export = "done" THEN "done" ELSE "none"
  BY DEF EngineEnds, tables, drives
<1>2. LibraryTypeOK' /\ RequestInv' /\ FileInv'
  BY <1>1 DEF LibraryInv, LibraryTypeOK, RequestInv, FileInv
<1>3. PromiseInv' /\ ImportInv' /\ CopyInv' /\ PartitionInv'
  BY <1>1
     DEF LibraryInv, PromiseInv, ImportInv, CopyInv, PartitionInv,
         NoDuplicateTelemetry, StartsUnlessOverran
<1> QED BY <1>2, <1>3 DEF LibraryInv

LEMMA NextMonthKeepsInv ==
  ASSUME LibraryInv, NextMonth
  PROVE  LibraryInv'
<1>1. /\ UNCHANGED <<engine, startedIn, recorder, partitions, sessions, participants, lapTimes,
                     telemetry, drivenIn, driven, export, scope, file, promised, import, overran>>
      /\ month' = month + 1 /\ month < MaxMonth
  BY DEF NextMonth, tables, drives, exportVars
<1>2. LibraryTypeOK'
  BY <1>1, LibraryAssumption DEF LibraryInv, LibraryTypeOK
<1>3. PartitionInv'
  <2>1. month \in Nat /\ startedIn \in Nat /\ \A s \in Sessions : drivenIn[s] \in Nat /\ drivenIn[s] <= month
    BY DEF LibraryInv, LibraryTypeOK, PartitionInv
  <2>2. \A k \in Keys : drivenIn[k[1]] # month + 1
    BY <2>1, KeyParts
  <2> QED BY <1>1, <2>1, <2>2 DEF LibraryInv, PartitionInv, StartsUnlessOverran
<1>4. RequestInv' /\ FileInv' /\ PromiseInv' /\ ImportInv' /\ CopyInv'
  BY <1>1
     DEF LibraryInv, RequestInv, FileInv, PromiseInv, ImportInv, CopyInv,
         NoDuplicateTelemetry, Listed, Chosen
<1> QED BY <1>2, <1>3, <1>4 DEF LibraryInv

LEMMA OtherComputerKeepsInv ==
  ASSUME LibraryInv, OtherComputer
  PROVE  LibraryInv'
<1>1. /\ UNCHANGED <<month, startedIn, drivenIn, driven, export, scope, file, promised, import>>
      /\ recorder' = FALSE /\ engine' = "down" /\ partitions' = {}
      /\ sessions' = {} /\ participants' = {} /\ overran' = FALSE
      /\ lapTimes' = [k \in Keys |-> None] /\ telemetry' = [k \in Keys |-> 0]
      /\ export = "done" /\ engine # "up"
  BY DEF OtherComputer, drives, exportVars, Empty
<1>2. import = "none"
  BY <1>1 DEF LibraryInv, RequestInv
<1>3. LibraryTypeOK'
  <2>1. 0 \in 0 .. MaxCopies
    BY LibraryAssumption
  <2>2. \A k \in Keys : ~(lapTimes'[k] # None \/ telemetry'[k] > 0)
    BY <1>1
  <2> QED BY <1>1, <2>1, <2>2 DEF LibraryInv, LibraryTypeOK
<1>4. RequestInv' /\ FileInv' /\ PromiseInv' /\ ImportInv'
  BY <1>1, <1>2 DEF LibraryInv, RequestInv, FileInv, PromiseInv, ImportInv
<1>5. CopyInv' /\ PartitionInv'
  BY <1>1, LibraryAssumption
     DEF LibraryInv, CopyInv, PartitionInv, NoDuplicateTelemetry, StartsUnlessOverran
<1> QED BY <1>3, <1>4, <1>5 DEF LibraryInv

-----------------------------------------------------------------------------
(* Recording. *)

LEMMA RecordSessionKeepsInv ==
  ASSUME LibraryInv, NEW s \in Sessions, RecordSession(s),
         UNCHANGED <<calendar, requests>>
  PROVE  LibraryInv'
<1>1. /\ UNCHANGED <<month, engine, startedIn, recorder, partitions, participants, lapTimes,
                     telemetry, driven, export, scope, file, promised, import, overran>>
      /\ sessions' = sessions \cup {s} /\ s \notin sessions
      /\ drivenIn' = [drivenIn EXCEPT ![s] = month]
  BY DEF RecordSession, calendar, requests
<1>2. drivenIn' \in [Sessions -> 0 .. MaxMonth]
  BY <1>1 DEF LibraryInv, LibraryTypeOK
<1>3. LibraryTypeOK'
  BY <1>1, <1>2 DEF LibraryInv, LibraryTypeOK
<1>4. PartitionInv'
  <2>1. \A k \in Keys : telemetry[k] > 0 => k[1] # s
    BY <1>1 DEF LibraryInv, LibraryTypeOK
  <2>2. \A k \in Keys : telemetry[k] > 0 => drivenIn'[k[1]] = drivenIn[k[1]]
    BY <1>1, <2>1, KeyParts DEF LibraryInv, LibraryTypeOK
  <2>3. month \in Nat /\ drivenIn \in [Sessions -> 0 .. MaxMonth]
    BY DEF LibraryInv, LibraryTypeOK
  <2>4. \A t \in Sessions : drivenIn'[t] <= month
    BY <1>1, <2>3 DEF LibraryInv, PartitionInv
  <2> QED BY <1>1, <2>2, <2>4 DEF LibraryInv, PartitionInv, StartsUnlessOverran
<1>5. RequestInv' /\ FileInv' /\ PromiseInv' /\ ImportInv' /\ CopyInv'
  BY <1>1
     DEF LibraryInv, RequestInv, FileInv, PromiseInv, ImportInv, CopyInv,
         NoDuplicateTelemetry, Listed, Chosen
<1> QED BY <1>3, <1>4, <1>5 DEF LibraryInv

LEMMA RecordParticipantKeepsInv ==
  ASSUME LibraryInv, NEW c \in Cars, RecordParticipant(c),
         UNCHANGED <<calendar, requests>>
  PROVE  LibraryInv'
<1>1. /\ UNCHANGED <<month, engine, startedIn, recorder, partitions, sessions, lapTimes, telemetry,
                     drivenIn, driven, export, scope, file, promised, import, overran>>
      /\ participants' = participants \cup {c} /\ c[1] \in sessions
  BY DEF RecordParticipant, Recording, calendar, requests, drives
<1>2. LibraryTypeOK'
  BY <1>1 DEF LibraryInv, LibraryTypeOK
<1>3. PromiseInv'
  BY <1>1 DEF LibraryInv, PromiseInv, Listed, Chosen
<1>4. RequestInv' /\ FileInv' /\ ImportInv' /\ CopyInv' /\ PartitionInv'
  BY <1>1
     DEF LibraryInv, RequestInv, FileInv, ImportInv, CopyInv, PartitionInv,
         NoDuplicateTelemetry, StartsUnlessOverran
<1> QED BY <1>2, <1>3, <1>4 DEF LibraryInv

\* A promise is kept, or given up when the lap is recorded again as invalid.
LEMMA RecordLapTimeKeepsInv ==
  ASSUME LibraryInv, NEW k \in Keys, NEW verdict \in {"valid", "invalid"},
         RecordLapTime(k, verdict), UNCHANGED <<calendar, requests>>
  PROVE  LibraryInv'
<1>1. /\ UNCHANGED <<month, engine, startedIn, recorder, partitions, sessions, participants,
                     telemetry, drivenIn, driven, export, scope, file, import, overran>>
      /\ lapTimes' = [lapTimes EXCEPT ![k] = verdict]
      /\ promised' = IF Unsettled /\ verdict = "invalid" THEN promised \ {k} ELSE promised
      /\ k[1] \in sessions
  BY DEF RecordLapTime, Recording, calendar, requests, drives
<1>2. lapTimes \in [Keys -> Times]
  BY DEF LibraryInv, LibraryTypeOK, Times
<1>3. /\ lapTimes' \in [Keys -> Times] /\ lapTimes'[k] = verdict
      /\ \A j \in Keys \ {k} : lapTimes'[j] = lapTimes[j]
  BY <1>1, <1>2 DEF Times
<1>4. LibraryTypeOK'
  BY <1>1, <1>3 DEF LibraryInv, LibraryTypeOK, Times
<1>5. /\ promised' \subseteq promised /\ promised \subseteq Keys
      /\ Unsettled /\ verdict = "invalid" => k \notin promised'
  BY <1>1 DEF LibraryInv, LibraryTypeOK
<1>6. Unsettled => \A j \in promised' : lapTimes[j] = "valid" => lapTimes'[j] = "valid"
  BY <1>3, <1>5
<1>7. PromiseInv'
  BY <1>1, <1>5, <1>6 DEF LibraryInv, PromiseInv, Chosen, Unsettled
<1>8. ImportInv'
  BY <1>1, <1>5, <1>6 DEF LibraryInv, ImportInv, Unsettled
<1>9. RequestInv' /\ FileInv' /\ CopyInv' /\ PartitionInv'
  BY <1>1
     DEF LibraryInv, RequestInv, FileInv, CopyInv, PartitionInv, NoDuplicateTelemetry,
         StartsUnlessOverran
<1> QED BY <1>4, <1>7, <1>8, <1>9 DEF LibraryInv

LEMMA RecordTelemetryKeepsInv ==
  ASSUME LibraryInv, NEW k \in Keys, RecordTelemetry(k),
         UNCHANGED <<calendar, requests>>
  PROVE  LibraryInv'
<1>1. /\ UNCHANGED <<month, engine, startedIn, recorder, partitions, sessions, participants,
                     lapTimes, drivenIn, export, scope, file, promised, import>>
      /\ telemetry' = [telemetry EXCEPT ![k] = Copies(@ + 1)]
      /\ driven' = driven \cup {k} /\ overran' = (overran \/ month > startedIn + 1)
      /\ engine = "up" /\ k[1] \in sessions /\ month = drivenIn[k[1]] /\ k \notin driven
  BY DEF RecordTelemetry, Recording, calendar, requests
<1>2. telemetry \in [Keys -> 0 .. MaxCopies] /\ MaxCopies \in Nat
  BY LibraryAssumption DEF LibraryInv, LibraryTypeOK
<1>3. telemetry[k] = 0 /\ file.telemetry[k] = 0
  BY <1>1, <1>2 DEF LibraryInv, CopyInv, FileInv
<1>4. /\ telemetry' \in [Keys -> 0 .. MaxCopies] /\ telemetry'[k] = 1
      /\ \A j \in Keys \ {k} : telemetry'[j] = telemetry[j]
  BY <1>1, <1>2, <1>3, CopiesBounded
<1>5. LibraryTypeOK'
  BY <1>1, <1>4 DEF LibraryInv, LibraryTypeOK
<1>6. PromiseInv'
  <2>1. \A j \in Keys : telemetry[j] > 0 => telemetry'[j] > 0
    BY <1>3, <1>4
  <2>2. promised \subseteq Keys
    BY DEF LibraryInv, LibraryTypeOK
  <2> QED BY <1>1, <2>1, <2>2 DEF LibraryInv, PromiseInv, Chosen
<1>7. ImportInv' /\ CopyInv'
  BY <1>1, <1>3, <1>4 DEF LibraryInv, ImportInv, CopyInv, NoDuplicateTelemetry
<1>8. PartitionInv'
  <2>1. month \in Nat /\ startedIn \in Nat /\ startedIn <= month
    BY DEF LibraryInv, LibraryTypeOK, PartitionInv
  <2>2. ~(month > startedIn + 1) => month \in {startedIn, startedIn + 1}
    BY <2>1
  <2>3. ~overran' => month \in partitions
    BY <1>1, <2>2 DEF LibraryInv, PartitionInv
  <2> QED BY <1>1, <1>4, <2>3 DEF LibraryInv, PartitionInv, StartsUnlessOverran
<1>9. RequestInv' /\ FileInv'
  BY <1>1 DEF LibraryInv, RequestInv, FileInv
<1> QED BY <1>5, <1>6, <1>7, <1>8, <1>9 DEF LibraryInv

LEMMA RecordKeepsInv ==
  ASSUME LibraryInv, Record
  PROVE  LibraryInv'
BY RecordSessionKeepsInv, RecordParticipantKeepsInv, RecordLapTimeKeepsInv,
   RecordTelemetryKeepsInv DEF Record

-----------------------------------------------------------------------------
(* Export. *)

LEMMA ExportBeginsKeepsInv ==
  ASSUME LibraryInv, NEW ids \in SUBSET sessions, NEW only, ExportBegins(ids, only)
  PROVE  LibraryInv'
<1>1. /\ UNCHANGED <<month, engine, startedIn, recorder, partitions, sessions, participants,
                     lapTimes, telemetry, drivenIn, driven, import, overran>>
      /\ engine = "up" /\ export = "none" /\ export' = "sessions"
      /\ scope' = [ids |-> ids, only |-> only] /\ file' = Empty
      /\ promised' = {k \in Listed : k[1] \in ids /\ only \in {None, k}}
  BY DEF ExportBegins, calendar, tables, drives
<1>2. import = "none" /\ recorder
  BY <1>1 DEF LibraryInv, RequestInv
<1>3. LibraryTypeOK'
  BY <1>1 DEF LibraryInv, LibraryTypeOK, Listed
<1>4. RequestInv'
  BY <1>1, <1>2 DEF LibraryInv, RequestInv
<1>5. FileInv'
  BY <1>1, EmptyBundle DEF FileInv, Empty
<1>6. PromiseInv'
  <2>2. scope'.ids = ids /\ scope'.only = only
    BY <1>1
  <2>3. \A k \in promised' : k \in Listed /\ Chosen(k)'
    BY <1>1, <2>2 DEF Chosen
  <2> QED BY <1>1, <2>3 DEF PromiseInv, Listed
<1>7. ImportInv' /\ PartitionInv'
  BY <1>1, <1>2 DEF LibraryInv, ImportInv, PartitionInv, StartsUnlessOverran
<1>8. CopyInv'
  BY <1>1 DEF LibraryInv, CopyInv, NoDuplicateTelemetry, Empty
<1> QED BY <1>3, <1>4, <1>5, <1>6, <1>7, <1>8 DEF LibraryInv

\* Between the queries recording adds to the tables and renews times; what was
\* promised is still there when its table is read.
LEMMA QueriesKeepFile ==
  ASSUME LibraryInv, ExportQueries
  PROVE  FileInv' /\ PromiseInv'
<1>1. UNCHANGED <<participants, lapTimes, telemetry, driven, scope, promised>>
  BY DEF ExportQueries, tables, drives
<1>2. /\ file \in [sessions : SUBSET Sessions, participants : SUBSET Cars,
                   lapTimes : [Keys -> Times], telemetry : [Keys -> {0, 1}]]
      /\ participants \subseteq Cars /\ lapTimes \in [Keys -> Times]
      /\ telemetry \in [Keys -> 0 .. MaxCopies]
      /\ sessions \subseteq Sessions /\ promised \subseteq Keys
  BY DEF LibraryInv, LibraryTypeOK, FileInv, Times
<1>3. /\ export \notin {"none", "done"} /\ scope.ids \subseteq sessions
      /\ \A k \in Keys : telemetry[k] <= 1
    BY DEF ExportQueries, Query, LibraryInv, RequestInv, CopyInv
<1>4. Listed' = Listed /\ \A k \in Keys : Chosen(k)' <=> Chosen(k)
  BY <1>1 DEF Listed, Chosen
<1>5. \A k \in Keys : Chosen(k) => k[1] \in scope.ids
  BY DEF Chosen
<1>6. CASE Query("sessions", "participants", [file EXCEPT !.sessions = ChosenSessions])
  <2>1. /\ export = "sessions" /\ export' = "participants"
        /\ file' = [file EXCEPT !.sessions = ChosenSessions] /\ file = Empty
    BY <1>6 DEF Query, LibraryInv, FileInv
  <2>2. ChosenSessions = scope.ids /\ ChosenSessions \in SUBSET Sessions
    BY <1>2, <1>3 DEF ChosenSessions
  <2>3. /\ file'.sessions = scope.ids /\ file'.participants = {}
        /\ file'.lapTimes = file.lapTimes /\ file'.telemetry = file.telemetry
    BY <1>2, <2>1, <2>2 DEF Empty
  <2>4. \A k \in Keys : file.lapTimes[k] = None /\ file.telemetry[k] = 0
    BY <2>1 DEF Empty
  <2>5. FileInv'
    BY <1>1, <1>2, <2>1, <2>2, <2>3, <2>4 DEF FileInv
  <2>6. PromiseInv'
    BY <1>1, <1>2, <1>3, <1>4, <2>1 DEF LibraryInv, PromiseInv
  <2> QED BY <2>5, <2>6
<1>7. CASE Query("participants", "lapTimes", [file EXCEPT !.participants = ChosenParticipants])
  <2>1. /\ export = "participants" /\ export' = "lapTimes"
        /\ file' = [file EXCEPT !.participants = ChosenParticipants]
        /\ file.sessions = scope.ids
    BY <1>7 DEF Query, LibraryInv, FileInv
  <2>2. ChosenParticipants \in SUBSET Cars /\ \A c \in ChosenParticipants : c[1] \in scope.ids
    BY <1>2 DEF ChosenParticipants
  <2>3. /\ file'.sessions = file.sessions /\ file'.participants = ChosenParticipants
        /\ file'.lapTimes = file.lapTimes /\ file'.telemetry = file.telemetry
    BY <1>2, <2>1
  <2>4. FileInv'
    BY <1>1, <1>2, <2>1, <2>2, <2>3 DEF LibraryInv, FileInv
  <2>5. \A k \in promised : Car(k) \in ChosenParticipants
    <3> SUFFICES ASSUME NEW k \in promised PROVE Car(k) \in ChosenParticipants
      OBVIOUS
    <3>1. k \in Keys /\ Car(k) \in participants /\ Chosen(k)
      BY <1>2, <1>3 DEF LibraryInv, PromiseInv, Listed
    <3> QED BY <3>1, KeyParts DEF Chosen, ChosenParticipants
  <2>6. PromiseInv'
    BY <1>1, <1>2, <1>3, <1>4, <2>1, <2>3, <2>5 DEF LibraryInv, PromiseInv
  <2> QED BY <2>4, <2>6
<1>8. CASE Query("lapTimes", "telemetry", [file EXCEPT !.lapTimes = ChosenLapTimes])
  <2>1. /\ export = "lapTimes" /\ export' = "telemetry"
        /\ file' = [file EXCEPT !.lapTimes = ChosenLapTimes]
        /\ file.sessions = scope.ids
    BY <1>8 DEF Query, LibraryInv, FileInv
  <2>2. ChosenLapTimes \in [Keys -> Times]
    BY <1>2 DEF ChosenLapTimes, Times
  <2>3. \A k \in Keys : ChosenLapTimes[k] # None => k[1] \in scope.ids
    BY <1>5 DEF ChosenLapTimes
  <2>4. /\ file'.sessions = file.sessions /\ file'.participants = file.participants
        /\ file'.lapTimes = ChosenLapTimes /\ file'.telemetry = file.telemetry
    BY <1>2, <2>1
  <2>5. FileInv'
    BY <1>1, <1>2, <2>1, <2>2, <2>3, <2>4 DEF LibraryInv, FileInv
  <2>6. \A k \in promised : ChosenLapTimes[k] = "valid"
    BY <1>2, <1>3, <2>1 DEF LibraryInv, PromiseInv, Listed, ChosenLapTimes
  <2>7. PromiseInv'
    BY <1>1, <1>2, <1>3, <1>4, <2>1, <2>4, <2>6 DEF LibraryInv, PromiseInv
  <2> QED BY <2>5, <2>7
<1>9. CASE Query("telemetry", "done", [file EXCEPT !.telemetry = ChosenTelemetry])
  <2>1. /\ export = "telemetry" /\ export' = "done"
        /\ file' = [file EXCEPT !.telemetry = ChosenTelemetry]
        /\ file.sessions = scope.ids
    BY <1>9 DEF Query, LibraryInv, FileInv
  <2>2. \A k \in Keys : telemetry[k] \in {0, 1}
    BY <1>2, <1>3, LibraryAssumption
  <2>3. ChosenTelemetry \in [Keys -> {0, 1}]
    BY <2>2 DEF ChosenTelemetry
  <2>4. \A k \in Keys : ChosenTelemetry[k] > 0 => k[1] \in scope.ids
    BY <1>5 DEF ChosenTelemetry
  <2>5. /\ file'.sessions = file.sessions /\ file'.participants = file.participants
        /\ file'.lapTimes = file.lapTimes /\ file'.telemetry = ChosenTelemetry
    BY <1>2, <2>1
  <2>6. FileInv'
    BY <1>1, <1>2, <2>1, <2>3, <2>4, <2>5 DEF LibraryInv, FileInv
  <2>7. \A k \in promised : ChosenTelemetry[k] > 0
    BY <1>2, <1>3 DEF LibraryInv, PromiseInv, Listed, ChosenTelemetry
  <2>8. PromiseInv'
    BY <1>1, <1>2, <1>3, <1>4, <2>1, <2>5, <2>7 DEF LibraryInv, PromiseInv
  <2> QED BY <2>6, <2>8
<1> QED BY <1>6, <1>7, <1>8, <1>9 DEF ExportQueries

LEMMA QueriesKeepInv ==
  ASSUME LibraryInv, ExportQueries
  PROVE  LibraryInv'
<1>1. /\ UNCHANGED <<month, engine, startedIn, recorder, partitions, sessions, participants,
                     lapTimes, telemetry, drivenIn, driven, scope, promised, import, overran>>
      /\ export \notin {"none", "done"}
      /\ export' \in {"participants", "lapTimes", "telemetry", "done"}
  BY DEF ExportQueries, Query, calendar, tables, drives
<1>2. import = "none" /\ recorder /\ \A k \in Keys : telemetry[k] <= 1
  BY <1>1 DEF LibraryInv, RequestInv, CopyInv
<1>3. LibraryTypeOK' /\ RequestInv'
  BY <1>1, <1>2 DEF LibraryInv, LibraryTypeOK, RequestInv
<1>4. ImportInv' /\ PartitionInv'
  BY <1>1, <1>2 DEF LibraryInv, ImportInv, PartitionInv, StartsUnlessOverran
<1>5. file \in [sessions : SUBSET Sessions, participants : SUBSET Cars,
                lapTimes : [Keys -> Times], telemetry : [Keys -> {0, 1}]]
  BY DEF LibraryInv, FileInv
<1>7. CopyInv'
  <2>1. \A k \in Keys : telemetry'[k] <= 1
    BY <1>1, <1>2
  <2>2. file'.telemetry \in {file.telemetry, ChosenTelemetry}
    BY <1>5 DEF ExportQueries, Query
  <2>3. \A k \in Keys : ChosenTelemetry[k] > 0 => telemetry[k] > 0
    BY DEF ChosenTelemetry
  <2>4. \A k \in Keys : telemetry'[k] > 0 \/ file'.telemetry[k] > 0 => k \in driven'
    BY <1>1, <2>2, <2>3 DEF LibraryInv, CopyInv
  <2> QED BY <2>1, <2>4 DEF CopyInv, NoDuplicateTelemetry
<1> QED BY <1>3, <1>4, <1>7, QueriesKeepFile DEF LibraryInv

-----------------------------------------------------------------------------
(* Import. *)

\* An import begins, or a statement on sessions or participants is executed.
LEMMA NamesKeepInv ==
  ASSUME LibraryInv,
         \/ ImportBegins
         \/ (UpsertSessions \/ UpsertParticipants) /\ UNCHANGED <<calendar, drives, exportVars>>
  PROVE  LibraryInv'
<1>1. /\ UNCHANGED <<month, engine, startedIn, recorder, partitions, lapTimes, telemetry,
                     drivenIn, driven, export, scope, file, promised, overran>>
      /\ engine = "up"
      /\ import' \in {"none", "sessions", "participants", "lapTimes"}
      /\ sessions \subseteq sessions' /\ sessions' \subseteq sessions \cup file.sessions
      /\ participants \subseteq participants'
      /\ participants' \subseteq participants \cup file.participants
  BY DEF ImportBegins, UpsertSessions, UpsertParticipants, Goes, calendar, tables, drives, exportVars
<1>2. export = "done"
  BY DEF ImportBegins, UpsertSessions, UpsertParticipants, Goes, LibraryInv, RequestInv
<1>3. ImportInv'
  <2>1. CASE ImportBegins
    BY <2>1 DEF ImportBegins, ImportInv
  <2>2. CASE UpsertSessions
    BY <1>1, <2>2 DEF UpsertSessions, Goes, ImportInv
  <2>3. CASE UpsertParticipants
    BY <1>1, <2>3 DEF LibraryInv, UpsertParticipants, Goes, ImportInv
  <2> QED BY <2>1, <2>2, <2>3
<1>4. LibraryTypeOK'
  <2>1. file.sessions \subseteq Sessions /\ file.participants \subseteq Cars
    BY DEF LibraryInv, FileInv
  <2>2. \A c \in participants' : c[1] \in sessions'
    <3>1. CASE UpsertParticipants
      <4>1. file.sessions \subseteq sessions
        BY <3>1 DEF UpsertParticipants, Goes, LibraryInv, ImportInv
      <4> QED BY <1>1, <4>1 DEF LibraryInv, LibraryTypeOK, FileInv
    <3>2. CASE participants' = participants
      BY <1>1, <3>2 DEF LibraryInv, LibraryTypeOK
    <3> QED BY <3>1, <3>2 DEF ImportBegins, UpsertSessions, tables
  <2> QED BY <1>1, <2>1, <2>2 DEF LibraryInv, LibraryTypeOK
<1>5. RequestInv' /\ FileInv' /\ PromiseInv' /\ CopyInv' /\ PartitionInv'
  BY <1>1, <1>2
     DEF LibraryInv, RequestInv, FileInv, PromiseInv, CopyInv, PartitionInv,
         NoDuplicateTelemetry, StartsUnlessOverran
<1> QED BY <1>3, <1>4, <1>5 DEF LibraryInv

LEMMA TimesKeepInv ==
  ASSUME LibraryInv, UpsertLapTimes, UNCHANGED <<calendar, drives, exportVars>>
  PROVE  LibraryInv'
<1>1. PICK done \in SUBSET TimedInFile :
        /\ Goes("lapTimes", "delete", done, TimedInFile)
        /\ lapTimes' = UpsertedTimes(done)
  BY DEF UpsertLapTimes
<1>2. /\ UNCHANGED <<month, engine, startedIn, recorder, partitions, sessions, participants,
                     telemetry, drivenIn, driven, export, scope, file, promised, overran>>
      /\ engine = "up" /\ import = "lapTimes" /\ import' \in {"none", "delete"}
  BY <1>1 DEF UpsertLapTimes, Goes, calendar, drives, exportVars
<1>3. export = "done" /\ file.sessions \subseteq sessions /\ file.participants \subseteq participants
  BY <1>2 DEF LibraryInv, RequestInv, ImportInv
<1>4. /\ lapTimes' \in [Keys -> Times]
      /\ \A k \in Keys : \/ lapTimes'[k] = lapTimes[k]
                         \/ lapTimes'[k] = file.lapTimes[k] /\ file.lapTimes[k] # None
  BY <1>1 DEF UpsertedTimes, TimedInFile, LibraryInv, LibraryTypeOK, FileInv, Times
<1>5. LibraryTypeOK'
  BY <1>2, <1>3, <1>4 DEF LibraryInv, LibraryTypeOK, FileInv, Times
<1>7. ImportInv'
  <2>1. promised \subseteq Keys /\ \A k \in promised : file.lapTimes[k] = "valid"
    BY <1>3 DEF LibraryInv, LibraryTypeOK, PromiseInv
  <2>2. ASSUME import' = "delete", NEW k \in promised PROVE lapTimes'[k] = "valid"
    <3>1. done = TimedInFile
      BY <1>1, <2>2 DEF Goes
    <3>2. k \in Keys /\ k \in TimedInFile
      BY <2>1, LibraryAssumption DEF TimedInFile
    <3> QED BY <1>1, <2>1, <3>1, <3>2 DEF UpsertedTimes
  <2> QED BY <1>2, <1>3, <2>2 DEF ImportInv
<1>8. RequestInv' /\ FileInv' /\ PromiseInv' /\ CopyInv' /\ PartitionInv'
  BY <1>2, <1>3
     DEF LibraryInv, RequestInv, FileInv, PromiseInv, CopyInv, PartitionInv,
         NoDuplicateTelemetry, StartsUnlessOverran
<1> QED BY <1>5, <1>7, <1>8 DEF LibraryInv

LEMMA DeleteKeepsInv ==
  ASSUME LibraryInv, DeleteTelemetry, UNCHANGED <<calendar, drives, exportVars>>
  PROVE  LibraryInv'
<1>1. PICK done \in SUBSET file.participants :
        /\ Goes("delete", "copy", done, file.participants)
        /\ telemetry' = [k \in Keys |-> IF k \in RowsOf(done) THEN 0 ELSE telemetry[k]]
  BY DEF DeleteTelemetry
<1>2. /\ UNCHANGED <<month, engine, startedIn, recorder, partitions, sessions, participants,
                     lapTimes, drivenIn, driven, export, scope, file, promised, overran>>
      /\ engine = "up" /\ import = "delete" /\ import' \in {"none", "copy"}
  BY <1>1 DEF DeleteTelemetry, Goes, calendar, drives, exportVars
<1>3. export = "done"
  BY <1>2 DEF LibraryInv, RequestInv
<1>4. telemetry \in [Keys -> 0 .. MaxCopies] /\ 0 \in 0 .. MaxCopies
  BY LibraryAssumption DEF LibraryInv, LibraryTypeOK
<1>5. /\ telemetry' \in [Keys -> 0 .. MaxCopies]
      /\ \A k \in Keys : telemetry'[k] \in {0, telemetry[k]}
  BY <1>1, <1>4
<1>6. LibraryTypeOK'
  BY <1>2, <1>5 DEF LibraryInv, LibraryTypeOK
<1>7. ImportInv'
  <2>1. ASSUME import' = "copy", NEW k \in Keys, Car(k) \in file.participants
        PROVE  telemetry'[k] = 0
    <3>1. done = file.participants
      BY <1>1, <2>1 DEF Goes
    <3> QED BY <1>1, <2>1, <3>1 DEF RowsOf
  <2> QED BY <1>2, <2>1 DEF LibraryInv, ImportInv
<1>8. CopyInv' /\ PartitionInv'
  <2>1. \A k \in Keys : (telemetry'[k] > 0 => telemetry[k] > 0) /\ (telemetry[k] <= 1 => telemetry'[k] <= 1)
    BY <1>5
  <2> QED BY <1>2, <1>3, <2>1
          DEF LibraryInv, CopyInv, PartitionInv, NoDuplicateTelemetry, StartsUnlessOverran
<1>9. RequestInv' /\ FileInv' /\ PromiseInv'
  BY <1>2, <1>3 DEF LibraryInv, RequestInv, FileInv, PromiseInv
<1> QED BY <1>6, <1>7, <1>8, <1>9 DEF LibraryInv

LEMMA CopyKeepsInv ==
  ASSUME LibraryInv, CopyTelemetry, UNCHANGED <<calendar, drives, exportVars>>
  PROVE  LibraryInv'
<1>1. /\ UNCHANGED <<month, engine, startedIn, recorder, partitions, sessions, participants,
                     lapTimes, drivenIn, driven, export, scope, file, promised>>
      /\ engine = "up" /\ import = "copy" /\ import' = "none"
  BY DEF CopyTelemetry, calendar, drives, exportVars
<1>2. export = "done" /\ file.sessions \subseteq sessions
  BY <1>1 DEF LibraryInv, RequestInv, ImportInv
<1>3. telemetry \in [Keys -> 0 .. MaxCopies] /\ file.telemetry \in [Keys -> {0, 1}] /\ MaxCopies \in Nat
  BY LibraryAssumption DEF LibraryInv, LibraryTypeOK, FileInv
<1>4. RequestInv' /\ FileInv' /\ PromiseInv' /\ ImportInv'
  BY <1>1, <1>2 DEF LibraryInv, RequestInv, FileInv, PromiseInv, ImportInv
<1>5. CASE UNCHANGED <<telemetry, overran>>
  BY <1>1, <1>2, <1>4, <1>5
     DEF LibraryInv, LibraryTypeOK, CopyInv, PartitionInv, NoDuplicateTelemetry, StartsUnlessOverran
<1>6. CASE /\ telemetry' = [k \in Keys |-> Copies(telemetry[k] + file.telemetry[k])]
           /\ overran' = (overran \/ month > startedIn + 1)
  <2>1. \A k \in Keys : telemetry[k] + file.telemetry[k] \in Nat
    BY <1>3
  <2>2. telemetry' \in [Keys -> 0 .. MaxCopies]
    BY <1>6, <2>1, CopiesBounded
  <2>3. \A k \in Keys : telemetry'[k] > 0 => telemetry[k] > 0 \/ file.telemetry[k] > 0
    <3>1. \A k \in Keys : telemetry'[k] <= telemetry[k] + file.telemetry[k]
      BY <1>6, <2>1, CopiesBounded
    <3> QED BY <1>3, <2>2, <3>1
  <2>4. \A k \in Keys : Car(k) \in file.participants => telemetry'[k] <= 1
    <3> SUFFICES ASSUME NEW k \in Keys, Car(k) \in file.participants PROVE telemetry'[k] <= 1
      OBVIOUS
    <3>1. telemetry[k] <= 1 /\ (telemetry[k] = 0 \/ file.telemetry[k] = 0)
      BY <1>1 DEF LibraryInv, CopyInv, NoDuplicateTelemetry, ImportInv
    <3>2. telemetry[k] + file.telemetry[k] <= 1
      BY <1>3, <3>1
    <3> QED BY <1>6, <2>1, <3>2, CopiesBounded
  <2>5. LibraryTypeOK'
    <3>1. \A k \in Keys : telemetry'[k] > 0 => k[1] \in sessions
      BY <1>2, <2>3 DEF LibraryInv, LibraryTypeOK, FileInv
    <3>2. overran' \in BOOLEAN
      BY <1>6
    <3> QED BY <1>1, <2>2, <3>1, <3>2 DEF LibraryInv, LibraryTypeOK
  <2>6. CopyInv'
    BY <1>1, <1>2, <2>3, <2>4 DEF LibraryInv, CopyInv, NoDuplicateTelemetry
  <2>7. PartitionInv'
    <3>1. month \in Nat /\ startedIn \in Nat /\ startedIn <= month
      BY DEF LibraryInv, LibraryTypeOK, PartitionInv
    <3>2. ~(month > startedIn + 1) => month \in {startedIn, startedIn + 1}
      BY <3>1
    <3>3. ~overran' => month \in partitions
      BY <1>1, <1>6, <3>2 DEF LibraryInv, PartitionInv
    <3> QED BY <1>1, <1>6, <3>3 DEF LibraryInv, PartitionInv, StartsUnlessOverran
  <2> QED BY <1>4, <2>5, <2>6, <2>7 DEF LibraryInv
<1> QED BY <1>5, <1>6 DEF CopyTelemetry

-----------------------------------------------------------------------------
LEMMA StutterKeepsInv ==
  ASSUME LibraryInv, UNCHANGED libraryVars
  PROVE  LibraryInv'
<1>1. UNCHANGED <<month, engine, startedIn, recorder, partitions, sessions, participants, lapTimes,
                  telemetry, drivenIn, driven, export, scope, file, promised, import, overran>>
  BY DEF libraryVars, calendar, tables, drives, exportVars
<1>2. LibraryTypeOK' /\ RequestInv' /\ FileInv'
  BY <1>1 DEF LibraryInv, LibraryTypeOK, RequestInv, FileInv
<1>3. PromiseInv' /\ ImportInv' /\ CopyInv' /\ PartitionInv'
  BY <1>1
     DEF LibraryInv, PromiseInv, ImportInv, CopyInv, PartitionInv,
         NoDuplicateTelemetry, StartsUnlessOverran, Listed, Chosen
<1> QED BY <1>2, <1>3 DEF LibraryInv

LEMMA LibraryInvStep == LibraryInv /\ [LibraryNext]_libraryVars => LibraryInv'
<1> SUFFICES ASSUME LibraryInv, [LibraryNext]_libraryVars PROVE LibraryInv'
  OBVIOUS
<1>1. CASE StartEngine \/ EngineEnds \/ NextMonth \/ OtherComputer \/ Record
  BY <1>1, StartKeepsInv, EndKeepsInv, NextMonthKeepsInv, OtherComputerKeepsInv, RecordKeepsInv
<1>2. CASE \/ \E ids \in SUBSET sessions \ {{}} : ExportBegins(ids, None)
           \/ \E k \in Keys : k[1] \in sessions /\ ExportBegins({k[1]}, k)
  BY <1>2, ExportBeginsKeepsInv
<1>3. CASE ExportQueries \/ ImportBegins
  BY <1>3, QueriesKeepInv, NamesKeepInv
<1>4. CASE ImportStatement
  BY <1>4, NamesKeepInv, TimesKeepInv, DeleteKeepsInv, CopyKeepsInv DEF ImportStatement
<1>5. CASE UNCHANGED libraryVars
  BY <1>5, StutterKeepsInv
<1> QED BY <1>1, <1>2, <1>3, <1>4, <1>5 DEF LibraryNext

LEMMA LibraryInvAlways == LibrarySpec => []LibraryInv
BY LibraryInvInit, LibraryInvStep, PTL DEF LibrarySpec

-----------------------------------------------------------------------------
\* The tables keep their types and their foreign keys.
THEOREM LibraryTypeCorrect == LibrarySpec => []LibraryTypeOK
<1>1. LibraryInv => LibraryTypeOK
  BY DEF LibraryInv
<1> QED BY <1>1, LibraryInvAlways, PTL

\* However often imports of a file fail, are repeated or follow a restart, the
\* telemetry of the drivers it names is there at most once.
THEOREM ImportsStaySingle == LibrarySpec => []NoDuplicateTelemetry
<1>1. LibraryInv => NoDuplicateTelemetry
  BY DEF LibraryInv, CopyInv
<1> QED BY <1>1, LibraryInvAlways, PTL

\* An engine that never stored rows beyond its partitions starts again.
THEOREM EngineStartsAgain == LibrarySpec => []StartsUnlessOverran
<1>1. LibraryInv => StartsUnlessOverran
  BY DEF LibraryInv, PartitionInv
<1> QED BY <1>1, LibraryInvAlways, PTL

\* Only CopyTelemetry ends a copy and changes telemetry.
LEMMA CopyRestores ==
  ASSUME LibraryInv, [LibraryNext]_libraryVars,
         import = "copy", import' = "none", telemetry' # telemetry
  PROVE  promised \subseteq Listed'
<1>1. engine = "up" /\ export = "done"
  BY DEF LibraryInv, RequestInv
<1>2. ImportStatement
  <2>1. ~(StartEngine \/ OtherComputer)
    BY <1>1 DEF StartEngine, OtherComputer
  <2>2. ~(EngineEnds \/ NextMonth \/ ExportQueries \/ ImportBegins)
    BY DEF EngineEnds, NextMonth, ExportQueries, ImportBegins, tables
  <2>3. ~Record
    BY DEF Record, requests
  <2>4. ~\E ids, only : ExportBegins(ids, only)
    BY DEF ExportBegins, tables
  <2>5. ~UNCHANGED libraryVars
    BY DEF libraryVars, tables
  <2> QED BY <2>1, <2>2, <2>3, <2>4, <2>5 DEF LibraryNext
<1>3. CopyTelemetry
  BY <1>2
     DEF ImportStatement, UpsertSessions, UpsertParticipants, UpsertLapTimes, DeleteTelemetry, Goes
<1>4. telemetry' = [k \in Keys |-> Copies(telemetry[k] + file.telemetry[k])]
      /\ UNCHANGED <<participants, lapTimes>>
  BY <1>3 DEF CopyTelemetry
<1> SUFFICES ASSUME NEW k \in promised PROVE k \in Listed'
  OBVIOUS
<1>5. k \in Keys /\ lapTimes[k] = "valid" /\ Car(k) \in participants /\ file.telemetry[k] > 0
  BY <1>1 DEF LibraryInv, LibraryTypeOK, ImportInv, PromiseInv
<1>6. telemetry[k] + file.telemetry[k] \in Nat /\ telemetry[k] + file.telemetry[k] > 0
  BY <1>5, LibraryAssumption DEF LibraryInv, LibraryTypeOK, FileInv
<1> QED BY <1>4, <1>5, <1>6, CopiesBounded DEF Listed

\* The file is a backup: an import that has gone through lists again every lap
\* that the export promised, whatever failed before.
THEOREM ExportIsBackup == LibrarySpec => BackupRestores
<1>1. LibraryInv /\ [LibraryNext]_libraryVars
      => [ import = "copy" /\ import' = "none" /\ telemetry' # telemetry
           => promised \subseteq Listed' ]_libraryVars
  BY CopyRestores
<1> QED BY <1>1, LibraryInvAlways, PTL DEF LibrarySpec, BackupRestores

\* What a step may take from a listed lap.
LEMMA StepKeepsListed ==
  ASSUME LibraryInv, [LibraryNext]_libraryVars, NEW k \in Listed, k \notin Listed'
  PROVE  \/ recorder # recorder'
         \/ RecordLapTime(k, "invalid")
         \/ import = "lapTimes" /\ file.lapTimes[k] = "invalid"
         \/ import = "delete" /\ Car(k) \in file.participants
<1>1. /\ k \in Keys /\ lapTimes[k] = "valid" /\ Car(k) \in participants /\ telemetry[k] > 0
      /\ telemetry[k] \in Nat /\ telemetry \in [Keys -> 0 .. MaxCopies]
      /\ lapTimes \in [Keys -> Times] /\ file.telemetry[k] \in Nat
  BY LibraryAssumption DEF Listed, LibraryInv, LibraryTypeOK, FileInv, Times
<1>2. CASE UNCHANGED <<participants, lapTimes, telemetry>>
  BY <1>2 DEF Listed
<1>3. CASE StartEngine
  BY <1>1, <1>3 DEF StartEngine, Backfill, Listed
<1>4. CASE OtherComputer
  BY <1>4 DEF OtherComputer
<1>5. CASE Record
  <2>1. ASSUME NEW j \in Keys, NEW verdict \in {"valid", "invalid"}, RecordLapTime(j, verdict)
        PROVE  RecordLapTime(k, "invalid")
    <3>1. lapTimes' = [lapTimes EXCEPT ![j] = verdict] /\ UNCHANGED <<participants, telemetry>>
      BY <2>1 DEF RecordLapTime
    <3>2. lapTimes'[k] # "valid"
      BY <1>1, <3>1 DEF Listed
    <3>3. j = k /\ verdict = "invalid"
      BY <1>1, <3>1, <3>2
    <3> QED BY <2>1, <3>3
  <2>2. ASSUME NEW j \in Keys, RecordTelemetry(j) PROVE FALSE
    BY <1>1, <2>2, CopiesBounded DEF RecordTelemetry, Listed
  <2>3. ASSUME NEW c \in Cars, RecordParticipant(c) PROVE FALSE
    BY <1>1, <2>3 DEF RecordParticipant, Listed
  <2>4. ASSUME NEW s \in Sessions, RecordSession(s) PROVE FALSE
    BY <1>1, <2>4 DEF RecordSession, Listed
  <2> QED BY <1>5, <2>1, <2>2, <2>3, <2>4 DEF Record
<1>6. CASE ImportStatement
  <2>1. CASE UpsertSessions
    BY <1>1, <2>1 DEF UpsertSessions, Listed
  <2>2. CASE UpsertParticipants
    BY <1>1, <2>2 DEF UpsertParticipants, Listed
  <2>3. CASE UpsertLapTimes
    <3>1. import = "lapTimes" /\ UNCHANGED <<participants, telemetry>>
      BY <2>3 DEF UpsertLapTimes, Goes
    <3>2. PICK done \in SUBSET TimedInFile : lapTimes' = UpsertedTimes(done)
      BY <2>3 DEF UpsertLapTimes
    <3>3. lapTimes'[k] # "valid"
      BY <1>1, <3>1 DEF Listed
    <3>4. k \in TimedInFile /\ file.lapTimes[k] # "valid"
      BY <1>1, <3>2, <3>3 DEF UpsertedTimes
    <3>5. file.lapTimes[k] = "invalid"
      BY <1>1, <3>4 DEF TimedInFile, LibraryInv, FileInv, Times
    <3> QED BY <3>1, <3>5
  <2>4. CASE DeleteTelemetry
    <3>1. Car(k) \in file.participants
      BY <1>1, <2>4 DEF DeleteTelemetry, RowsOf, Listed
    <3> QED BY <2>4, <3>1 DEF DeleteTelemetry, Goes
  <2>5. CASE CopyTelemetry
    <3>1. Copies(telemetry[k] + file.telemetry[k]) > 0
      BY <1>1, CopiesBounded
    <3> QED BY <1>1, <2>5, <3>1 DEF CopyTelemetry, Listed
  <2> QED BY <1>6, <2>1, <2>2, <2>3, <2>4, <2>5 DEF ImportStatement
<1>7. CASE EngineEnds \/ NextMonth \/ ExportQueries \/ ImportBegins \/ UNCHANGED libraryVars
  BY <1>2, <1>7 DEF EngineEnds, NextMonth, ExportQueries, ImportBegins, libraryVars, tables
<1>8. CASE \E ids, only : ExportBegins(ids, only)
  BY <1>2, <1>8 DEF ExportBegins, tables
<1> QED BY <1>3, <1>4, <1>5, <1>6, <1>7, <1>8 DEF LibraryNext

\* A listed lap stays listed, unless it is recorded again as invalid or an
\* import brings its invalid time or replaces the telemetry of its driver.
THEOREM ListedLapsStay == LibrarySpec => ListedLapStays
<1>1. LibraryInv /\ [LibraryNext]_libraryVars
      => [ \A k \in Listed \ Listed' :
             \/ recorder # recorder'
             \/ RecordLapTime(k, "invalid")
             \/ import = "lapTimes" /\ file.lapTimes[k] = "invalid"
             \/ import = "delete" /\ Car(k) \in file.participants ]_libraryVars
  BY StepKeepsListed
<1> QED BY <1>1, LibraryInvAlways, PTL DEF LibrarySpec, ListedLapStays
=============================================================================
