------------------------------- MODULE Engine -------------------------------
(***************************************************************************)
(* The engine process (cmd/engine/main.go): main's shutdown sequence, the  *)
(* listenerManager behind POST /listener/start and /listener/stop, the     *)
(* listeners it starts, and the TelemetryWriter they feed.                 *)
(*                                                                         *)
(* A listener is what Listener.Start runs: it may send rows until it has   *)
(* returned, and returns when it is cancelled (the module Listener shows   *)
(* when it does not).                                                      *)
(***************************************************************************)
EXTENDS TelemetryWriter

CONSTANTS
  Clients,   \* HTTP requests that may be in progress
  Listeners, \* listeners that can be started (a bound)
  Ports,
  Main,      \* main as a caller of listenerManager.Stop
  None       \* absent value

ASSUME EngineAssumption ==
  /\ Main \notin Clients
  /\ None \notin Listeners \cup Ports

VARIABLES
  main,     \* "serve", "stop" (lm.Stop), "cancel", "api" (api.Shutdown),
            \* "close" (db.Close), "pg" (stopPG), "exit"
  current,  \* the listener of m.cancel, m.done and m.port; None when nil
  up,       \* listeners whose Start has not returned
  ended,    \* listeners whose Start has returned
  told,     \* listeners whose own context was cancelled
  deaf,     \* listeners started when the engine's context was done
  port,     \* port a listener is bound to
  raced,    \* history: a request was in progress while main shut down
  stopping  \* what each caller of Stop is doing: none, "cancel" or "wait"

managerVars == <<current, up, ended, told, deaf, port, stopping>>
engineVars  == <<writerVars, main, managerVars, raced>>

Callers == Clients \cup {Main}

NotStopping == [step |-> "none", listener |-> None]

Idle(c) == stopping[c] = NotStopping

\* api.Shutdown accepts no new request, but one accepted before may reach the
\* manager until it returns.
ApiOpen == main \in {"serve", "stop", "cancel", "api"}

\* A request that changes the manager.
Request ==
  /\ ApiOpen
  /\ raced' = (raced \/ main # "serve")

Fresh == Listeners \ (up \cup ended)

-----------------------------------------------------------------------------
(* listenerManager. *)

\* Faulty: a second listener may be started.
StartUnchecked(p) ==
  /\ Request
  /\ \A l \in up : port[l] # p
  /\ \E l \in Fresh :
       /\ current' = l
       /\ up' = up \cup {l}
       /\ port' = [port EXCEPT ![l] = p]
       /\ deaf' = IF cancelled THEN deaf \cup {l} ELSE deaf
  /\ UNCHANGED <<writerVars, main, ended, told, stopping>>

\* Start, which fails when a listener is running or the port is taken.
StartListener(p) ==
  /\ Request /\ current = None
  /\ \A l \in up : port[l] # p
  /\ \E l \in Fresh :
       /\ current' = l
       /\ up' = up \cup {l}
       /\ port' = [port EXCEPT ![l] = p]
       /\ deaf' = IF cancelled THEN deaf \cup {l} ELSE deaf
  /\ UNCHANGED <<writerVars, main, ended, told, stopping>>

\* Faulty: Stop goes on without a listener.
TakeUnchecked(c) ==
  /\ stopping' = [stopping EXCEPT ![c] = [step |-> "cancel", listener |-> current]]
  /\ current' = None

\* The locked part of Stop: take the listener out of the manager.
TakeListener(c) ==
  /\ stopping' = [stopping EXCEPT ![c] =
                    IF current = None THEN NotStopping
                    ELSE [step |-> "cancel", listener |-> current]]
  /\ current' = None

StopListener(c) ==
  /\ Request /\ Idle(c) /\ current # None
  /\ TakeListener(c)
  /\ UNCHANGED <<writerVars, main, up, ended, told, deaf, port>>

\* Faulty: the listener is not cancelled.
StopForgetsCancel(c) ==
  /\ stopping[c].step = "cancel"
  /\ stopping' = [stopping EXCEPT ![c].step = "wait"]
  /\ UNCHANGED <<writerVars, main, current, up, ended, told, deaf, port, raced>>

\* cancel(), after the lock was released.
StopCancels(c) ==
  /\ stopping[c].step = "cancel"
  /\ told' = told \cup {stopping[c].listener}
  /\ stopping' = [stopping EXCEPT ![c].step = "wait"]
  /\ UNCHANGED <<writerVars, main, current, up, ended, deaf, port, raced>>

\* Faulty: Stop does not wait for the listener.
StopReturnsEarly(c) ==
  /\ stopping[c].step = "wait"
  /\ stopping' = [stopping EXCEPT ![c] = NotStopping]
  /\ UNCHANGED <<writerVars, main, current, up, ended, told, deaf, port, raced>>

\* <-done.
StopReturns(c) ==
  /\ stopping[c].step = "wait" /\ stopping[c].listener \in ended
  /\ stopping' = [stopping EXCEPT ![c] = NotStopping]
  /\ UNCHANGED <<writerVars, main, current, up, ended, told, deaf, port, raced>>

-----------------------------------------------------------------------------
(* The listeners. *)

\* A row of a packet that receive took: it takes none when its context is done
\* as it begins, but the packets taken before a cancel are still handled.
ListenerSendsRow ==
  up \ deaf # {} /\ Offer /\ UNCHANGED <<main, managerVars, raced>>

\* Listener.Start returns; its last act may be to send rows.
ListenerReturns(l) ==
  /\ l \in up /\ (l \in told \/ cancelled)
  /\ up' = up \ {l} /\ ended' = ended \cup {l}
  /\ UNCHANGED <<writerVars, main, current, told, deaf, port, raced, stopping>>

-----------------------------------------------------------------------------
(* main. *)

\* A signal or POST /shutdown; then lm.Stop.
ShutdownBegins ==
  /\ main = "serve"
  /\ main' = "stop"
  /\ raced' = \E c \in Clients : ~Idle(c)
  /\ TakeListener(Main)
  /\ UNCHANGED <<writerVars, up, ended, told, deaf, port>>

MainStopped ==
  /\ main = "stop" /\ Idle(Main)
  /\ main' = "cancel"
  /\ UNCHANGED <<writerVars, managerVars, raced>>

MainCancels ==
  main = "cancel" /\ main' = "api" /\ CancelCtx /\ UNCHANGED <<managerVars, raced>>

\* api.Shutdown returns when no request is in progress, or after 10 s.
ApiShutDown ==
  /\ main = "api"
  /\ main' = "close"
  /\ UNCHANGED <<writerVars, managerVars, raced>>

\* db.Close waits for the connections in use, not for the goroutines.
MainClosesPool ==
  main = "close" /\ main' = "pg" /\ ClosePool /\ UNCHANGED <<managerVars, raced>>

MainExits ==
  /\ main = "pg"
  /\ main' = "exit"
  /\ UNCHANGED <<writerVars, managerVars, raced>>

-----------------------------------------------------------------------------
EngineInit ==
  /\ WriterInit
  /\ main = "serve" /\ current = None /\ raced = FALSE
  /\ up = {} /\ ended = {} /\ told = {} /\ deaf = {}
  /\ port = [l \in Listeners |-> None]
  /\ stopping = [c \in Callers |-> NotStopping]

MainShutdown == MainStopped \/ MainCancels \/ ApiShutDown \/ MainClosesPool \/ MainExits

\* Nothing runs once the process has exited.
EngineNext ==
  /\ main # "exit"
  /\ \/ WriterStep /\ UNCHANGED <<main, managerVars, raced>>
     \/ ShutdownBegins
     \/ MainShutdown
     \/ \E p \in Ports : StartListener(p)
     \/ \E c \in Clients : StopListener(c)
     \/ \E c \in Callers : StopCancels(c)
     \/ \E c \in Callers : StopReturns(c)
     \/ ListenerSendsRow
     \/ \E l \in Listeners : ListenerReturns(l)

EngineSpec == EngineInit /\ [][EngineNext]_engineVars

\* A step of the writer's goroutine.
Writer(step) == main # "exit" /\ step /\ UNCHANGED <<main, managerVars, raced>>

\* Goroutines are scheduled, a cancelled listener returns; the writer's ticker
\* ticks, its COPY returns and the timer of its drain fires.
EngineFairness ==
  /\ WF_engineVars(Writer(Take)) /\ WF_engineVars(Writer(Tick))
  /\ WF_engineVars(Writer(Flush)) /\ WF_engineVars(Writer(StartDrain))
  /\ WF_engineVars(Writer(DrainEnds))
  /\ WF_engineVars(MainShutdown)
  /\ \A c \in Callers : WF_engineVars(StopCancels(c)) /\ WF_engineVars(StopReturns(c))
  /\ \A l \in Listeners : WF_engineVars(ListenerReturns(l))

FairEngineSpec == EngineSpec /\ EngineFairness

-----------------------------------------------------------------------------
(* Properties. *)

EngineTypeOK ==
  /\ WriterTypeOK
  /\ main \in {"serve", "stop", "cancel", "api", "close", "pg", "exit"}
  /\ raced \in BOOLEAN
  /\ current \in Listeners \cup {None}
  /\ up \subseteq Listeners /\ ended \subseteq Listeners
  /\ told \subseteq Listeners /\ deaf \subseteq Listeners
  /\ port \in [Listeners -> Ports \cup {None}]
  /\ stopping \in [Callers -> [step : {"none", "cancel", "wait"},
                               listener : Listeners \cup {None}]]
  /\ \A c \in Callers : Idle(c) <=> stopping[c].listener = None

\* A listener that runs is the manager's, or is being stopped by someone, or
\* sees the engine's own context cancelled: none is left running that nobody
\* can stop, however requests and the shutdown interleave.
NoOrphanListener ==
  \A l \in up :
    \/ l = current
    \/ l \in told \/ cancelled
    \/ \E c \in Callers : stopping[c] = [step |-> "cancel", listener |-> l]

\* docs/02-backend.md:60: "Graceful shutdown: drain queues, flush DB writer
\* buffer, close pool".  The pool outlives every listener unless a request was
\* in progress while main shut down: main's Stop does not wait for a listener
\* that another Stop has taken, and may come before a Start.
PoolOutlivesListeners == poolClosed /\ ~raced => up = {}

\* A shutdown that was asked for ends, whatever requests race it.
ShutdownEnds == (main = "stop") ~> (main = "exit")

\* docs/02-backend.md:300: "On shutdown the goroutine drains the channel and
\* does one final flush before returning".  main does not wait for it, not even
\* in a shutdown that no request raced, with every listener stopped in time.
AcceptedRowsFlushed ==
  main = "exit" /\ ~raced => \A n \in Row : ~InRows(n, buf \o writeCh) /\ n \notin failed
=============================================================================
