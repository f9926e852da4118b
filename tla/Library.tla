------------------------------- MODULE Library -------------------------------
(***************************************************************************)
(* The database as a library of laps: what recording leaves in it, the     *)
(* start of the engine (migrations with the backfill 007, partitions),     *)
(* GET /export and POST /import (database/export.go), each a sequence of   *)
(* statements without a transaction, beside recording and other requests,  *)
(* with failures, kills and restarts between any two statements.           *)
(*                                                                         *)
(* A lap of a car is a key <<session, car, lap>>; its telemetry (all three *)
(* sectors) is one unit.  The tables laps and sectors, which nothing here  *)
(* reads, are exported and imported between participants and lap_times the *)
(* same way and are left out.                                              *)
(***************************************************************************)
EXTENDS Integers, FiniteSets

CONSTANTS
  None,
  Keys,      \* laps of cars that may be driven
  MaxMonth,  \* bound on the calendar
  MaxCopies  \* bound on the copies of one lap's telemetry that are told apart

Sessions == {k[1] : k \in Keys}
Car(k)   == <<k[1], k[2]>>
Cars     == {Car(k) : k \in Keys}
Months   == 0 .. MaxMonth + 1

ASSUME LibraryAssumption ==
  /\ None \notin {"valid", "invalid"}
  /\ MaxMonth \in Nat
  /\ MaxCopies \in Nat \ {0}

VARIABLES
  month,        \* the calendar
  engine,       \* "down", "up", "failed": log.Fatalf in EnsureCurrentPartitions
  startedIn,    \* month of the last start
  recorder,     \* whether this computer is the one that records
  partitions,   \* months with a partition of their own
  sessions, participants, lapTimes, telemetry, \* the tables
  drivenIn,     \* month of each session
  driven,       \* laps whose telemetry has been recorded
  export,       \* the next query of GET /export, or "none"
  scope,        \* [ids, only]: sessions of the export, the one lap or None
  file,         \* the bundle, complete once export is "done"
  import,       \* the next statement of POST /import, or "none": the client sends
                \* one request at a time
  promised,     \* history: laps of the scope that were listed when it began, but
                \* those whose time was recorded again as invalid too soon
  overran       \* history: rows stored two months or more after the start

tables     == <<sessions, participants, lapTimes, telemetry>>
drives     == <<drivenIn, driven>>
calendar   == <<month, engine, startedIn, recorder, partitions>>
exportVars == <<export, scope, file, promised>>
requests   == <<export, scope, file, import>>
libraryVars == <<calendar, tables, drives, exportVars, import, overran>>

Empty == [sessions |-> {}, participants |-> {},
          lapTimes |-> [k \in Keys |-> None], telemetry |-> [k \in Keys |-> 0]]

\* Rows outside every partition are in telemetry_default.
InDefault(m) == \E k \in Keys : telemetry[k] > 0 /\ drivenIn[k[1]] = m /\ m \notin partitions

Copies(n) == IF n > MaxCopies THEN MaxCopies ELSE n

-----------------------------------------------------------------------------
(* The start of the engine and its end. *)

\* 007: a valid lap time without rows in every sector becomes invalid.
Backfill ==
  lapTimes' = [k \in Keys |-> IF lapTimes[k] = "valid" /\ telemetry[k] = 0
                              THEN "invalid" ELSE lapTimes[k]]

\* Faulty: the month after is left to the next start.
ThisMonth == {month}

\* EnsureCurrentPartitions: this month and the next one.
NeededMonths == {month, month + 1}

\* CREATE TABLE ... PARTITION OF fails on rows of the month in the default
\* partition; the one of this month comes first.
EnsurePartitions ==
  LET refused == {m \in NeededMonths \ partitions : InDefault(m)}
  IN  /\ engine' = IF refused = {} THEN "up" ELSE "failed"
      /\ partitions' = partitions \cup {m \in NeededMonths : \A r \in refused : m < r}

StartEngine ==
  /\ engine # "up"
  /\ Backfill
  /\ EnsurePartitions
  /\ startedIn' = month
  /\ UNCHANGED <<month, recorder, sessions, participants, telemetry, drives,
                 exportVars, import, overran>>

\* A shutdown or a kill, between any two statements.
EngineEnds ==
  /\ engine = "up"
  /\ engine' = "down"
  /\ import' = "none"
  /\ export' = IF export = "done" THEN "done" ELSE "none"
  /\ UNCHANGED <<month, startedIn, recorder, partitions, tables, drives, scope, file,
                 promised, overran>>

NextMonth ==
  /\ month < MaxMonth
  /\ month' = month + 1
  /\ UNCHANGED <<engine, startedIn, recorder, partitions, tables, drives, exportVars,
                 import, overran>>

\* The file is taken to a computer with an empty database.
OtherComputer ==
  /\ engine # "up" /\ recorder /\ export = "done"
  /\ recorder' = FALSE /\ engine' = "down" /\ partitions' = {}
  /\ sessions' = {} /\ participants' = {}
  /\ lapTimes' = Empty.lapTimes /\ telemetry' = Empty.telemetry
  /\ overran' = FALSE
  /\ UNCHANGED <<month, startedIn, drives, exportVars, import>>

-----------------------------------------------------------------------------
(* Recording: SessionWriter and TelemetryWriter. *)

Recording(s) == engine = "up" /\ recorder /\ s \in sessions /\ month = drivenIn[s]

RecordSession(s) ==
  /\ engine = "up" /\ recorder /\ s \notin sessions
  /\ sessions' = sessions \cup {s}
  /\ drivenIn' = [drivenIn EXCEPT ![s] = month]
  /\ UNCHANGED <<participants, lapTimes, telemetry, driven, promised, overran>>

RecordParticipant(c) ==
  /\ Recording(c[1]) /\ c \notin participants
  /\ participants' = participants \cup {c}
  /\ UNCHANGED <<sessions, lapTimes, telemetry, drives, promised, overran>>

\* The time of a lap is not yet in the file, or has just been imported.
Unsettled == export \in {"sessions", "participants", "lapTimes"} \/ import \in {"delete", "copy"}

\* An upsert: a late packet or a race merged into this one records a lap again,
\* with another verdict.
RecordLapTime(k, verdict) ==
  /\ Recording(k[1])
  /\ lapTimes' = [lapTimes EXCEPT ![k] = verdict]
  /\ promised' = IF Unsettled /\ verdict = "invalid" THEN promised \ {k} ELSE promised
  /\ UNCHANGED <<sessions, participants, telemetry, drives, overran>>

RecordTelemetry(k) ==
  /\ Recording(k[1]) /\ k \notin driven
  /\ telemetry' = [telemetry EXCEPT ![k] = Copies(@ + 1)]
  /\ driven' = driven \cup {k}
  /\ overran' = (overran \/ month > startedIn + 1)
  /\ UNCHANGED <<sessions, participants, lapTimes, drivenIn, promised>>

Record ==
  /\ \/ \E s \in Sessions : RecordSession(s)
     \/ \E c \in Cars : RecordParticipant(c)
     \/ \E k \in Keys : RecordTelemetry(k)
     \/ \E k \in Keys, verdict \in {"valid", "invalid"} : RecordLapTime(k, verdict)
  /\ UNCHANGED <<calendar, requests>>

-----------------------------------------------------------------------------
(* Export. *)

\* ListLapTimes: a valid time, a driver's name and rows in every sector.  Of
\* several such laps with the same name, number and time it shows the latest.
Listed == {k \in Keys : lapTimes[k] = "valid" /\ Car(k) \in participants /\ telemetry[k] > 0}

\* The lap scope asks for one car and one lap; the others for whole sessions.
Chosen(k) == k[1] \in scope.ids /\ scope.only \in {None, k}

\* Scopes "all" and "track" resolve the session ids first.
ExportBegins(ids, only) ==
  /\ engine = "up" /\ export = "none"
  /\ export' = "sessions"
  /\ scope' = [ids |-> ids, only |-> only]
  /\ file' = Empty
  /\ promised' = {k \in Listed : k[1] \in ids /\ only \in {None, k}}
  /\ UNCHANGED <<calendar, tables, drives, import, overran>>

\* Faulty: a lap is exported without its session.
SessionsOfWholeExport == IF scope.only = None THEN sessions \cap scope.ids ELSE {}

ChosenSessions     == sessions \cap scope.ids
ChosenParticipants == {c \in participants :
                        c[1] \in scope.ids /\ (scope.only # None => c = Car(scope.only))}
ChosenLapTimes     == [k \in Keys |-> IF Chosen(k) THEN lapTimes[k] ELSE None]
ChosenTelemetry    == [k \in Keys |-> IF Chosen(k) THEN telemetry[k] ELSE 0]

Query(now, next, bundle) ==
  /\ engine = "up" /\ export = now
  /\ export' = next
  /\ file' = bundle

\* One query after the other; recording goes on in between.
ExportQueries ==
  /\ \/ Query("sessions", "participants", [file EXCEPT !.sessions = ChosenSessions])
     \/ Query("participants", "lapTimes", [file EXCEPT !.participants = ChosenParticipants])
     \/ Query("lapTimes", "telemetry", [file EXCEPT !.lapTimes = ChosenLapTimes])
     \/ Query("telemetry", "done", [file EXCEPT !.telemetry = ChosenTelemetry])
  /\ UNCHANGED <<calendar, tables, drives, scope, promised, import, overran>>

-----------------------------------------------------------------------------
(* Import. *)

ImportBegins ==
  /\ engine = "up" /\ export = "done" /\ import = "none"
  /\ import' = "sessions"
  /\ UNCHANGED <<calendar, tables, drives, exportVars, overran>>

\* A statement that fails ends the request; what the earlier rows of its
\* table did stays.
Goes(now, next, done, all) ==
  /\ engine = "up" /\ import = now
  /\ import' = IF done = all THEN next ELSE "none"

UpsertSessions ==
  \E done \in SUBSET file.sessions :
    /\ Goes("sessions", "participants", done, file.sessions)
    /\ sessions' = sessions \cup done
    /\ UNCHANGED <<participants, lapTimes, telemetry, overran>>

UpsertParticipants ==
  \E done \in SUBSET file.participants :
    /\ Goes("participants", "lapTimes", done, file.participants)
    /\ participants' = participants \cup done
    /\ UNCHANGED <<sessions, lapTimes, telemetry, overran>>

TimedInFile == {k \in Keys : file.lapTimes[k] # None}

\* Faulty: ON CONFLICT DO NOTHING.
InsertedTimes(done) ==
  [k \in Keys |-> IF k \in done /\ lapTimes[k] = None THEN file.lapTimes[k] ELSE lapTimes[k]]

UpsertedTimes(done) ==
  [k \in Keys |-> IF k \in done THEN file.lapTimes[k] ELSE lapTimes[k]]

UpsertLapTimes ==
  \E done \in SUBSET TimedInFile :
    /\ Goes("lapTimes", "delete", done, TimedInFile)
    /\ lapTimes' = UpsertedTimes(done)
    /\ UNCHANGED <<sessions, participants, telemetry, overran>>

\* Faulty: rows of every car in the sessions of the file.
AnyDriverOf(done) == {k \in Keys : \E c \in done : c[1] = k[1]}

\* Faulty: only the laps that the file brings.
LapsBrought(done) == {k \in Keys : Car(k) \in done /\ file.lapTimes[k] # None}

\* DELETE: all laps of the drivers that the file names.
RowsOf(done) == {k \in Keys : Car(k) \in done}

DeleteTelemetry ==
  \E done \in SUBSET file.participants :
    /\ Goes("delete", "copy", done, file.participants)
    /\ telemetry' = [k \in Keys |-> IF k \in RowsOf(done) THEN 0 ELSE telemetry[k]]
    /\ UNCHANGED <<sessions, participants, lapTimes, overran>>

\* One COPY, of all rows or none.
CopyTelemetry ==
  /\ engine = "up" /\ import = "copy"
  /\ import' = "none"
  /\ \/ /\ telemetry' = [k \in Keys |-> Copies(telemetry[k] + file.telemetry[k])]
        /\ overran' = (overran \/ month > startedIn + 1)
     \/ UNCHANGED <<telemetry, overran>>
  /\ UNCHANGED <<sessions, participants, lapTimes>>

ImportStatement ==
  /\ \/ UpsertSessions \/ UpsertParticipants \/ UpsertLapTimes
     \/ DeleteTelemetry \/ CopyTelemetry
  /\ UNCHANGED <<calendar, drives, exportVars>>

-----------------------------------------------------------------------------
LibraryInit ==
  /\ month = 0 /\ engine = "down" /\ startedIn = 0 /\ recorder = TRUE /\ partitions = {}
  /\ sessions = {} /\ participants = {}
  /\ lapTimes = Empty.lapTimes /\ telemetry = Empty.telemetry
  /\ drivenIn = [s \in Sessions |-> 0] /\ driven = {}
  /\ export = "none" /\ scope = [ids |-> {}, only |-> None] /\ file = Empty /\ promised = {}
  /\ import = "none"
  /\ overran = FALSE

LibraryNext ==
  \/ StartEngine \/ EngineEnds \/ NextMonth \/ OtherComputer
  \/ Record
  \/ \E ids \in SUBSET sessions \ {{}} : ExportBegins(ids, None)
  \/ \E k \in Keys : k[1] \in sessions /\ ExportBegins({k[1]}, k)
  \/ ExportQueries
  \/ ImportBegins \/ ImportStatement

LibrarySpec == LibraryInit /\ [][LibraryNext]_libraryVars

-----------------------------------------------------------------------------
(* Properties. *)

LibraryTypeOK ==
  /\ month \in 0 .. MaxMonth /\ engine \in {"down", "up", "failed"}
  /\ startedIn \in 0 .. MaxMonth /\ recorder \in BOOLEAN /\ partitions \subseteq Months
  /\ sessions \subseteq Sessions
  /\ \A c \in participants : c \in Cars /\ c[1] \in sessions
  /\ lapTimes \in [Keys -> {None, "valid", "invalid"}]
  /\ telemetry \in [Keys -> 0 .. MaxCopies]
  /\ \A k \in Keys : lapTimes[k] # None \/ telemetry[k] > 0 => k[1] \in sessions
  /\ drivenIn \in [Sessions -> 0 .. MaxMonth] /\ driven \subseteq Keys /\ promised \subseteq Keys
  /\ import \in {"none", "sessions", "participants", "lapTimes", "delete", "copy"}
  /\ overran \in BOOLEAN

\* However often imports of the file fail, are repeated or follow a restart,
\* the telemetry of a driver that the file names is there at most once.
NoDuplicateTelemetry ==
  \A k \in Keys : Car(k) \in file.participants => telemetry[k] <= 1

\* export.go:364, "safe to re-run the same import twice".
ImportedOnce == \A k \in Keys : telemetry[k] <= 1

\* The file is a backup: once an import of it has gone through, whatever
\* earlier attempts, restarts with their backfill, new times and other computers
\* came before, every lap of its scope that was listed when the export began is
\* listed again, unless its time was recorded again as invalid before the file
\* had it or after the import had put it back.
BackupRestores ==
  [][ import = "copy" /\ import' = "none" /\ telemetry' # telemetry
      => promised \subseteq Listed' ]_libraryVars

\* A listed lap stays listed, through restarts with their backfill, exports and
\* imports, unless its time is recorded again as invalid, or an import replaces
\* its time by the invalid one that its file has, or the telemetry of its own
\* driver.
ListedLapStays ==
  [][ \A k \in Listed \ Listed' :
        \/ recorder # recorder'
        \/ RecordLapTime(k, "invalid")
        \/ import = "lapTimes" /\ file.lapTimes[k] = "invalid"
        \/ import = "delete" /\ Car(k) \in file.participants ]_libraryVars

\* The engine refuses to start over its partitions only if one that had been
\* started two or more months before was still storing rows.
StartsUnlessOverran == engine = "failed" => overran
=============================================================================
