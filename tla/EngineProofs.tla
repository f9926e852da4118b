----------------------------- MODULE EngineProofs -----------------------------
(* Theorems about Engine, for every value of its constants. *)
EXTENDS Engine, TelemetryWriterProofs

-----------------------------------------------------------------------------
(* The inductive invariant.  NoOrphanListener and PoolOutlivesListeners do  *)
(* not say who holds a listener that was already told to stop, nor that no  *)
(* caller of Stop is overtaken: HeldListeners and ShutdownOrder do.         *)

\* A listener that runs is the manager's or some caller of Stop has it.
HeldListeners ==
  /\ up \cap ended = {}
  /\ \A l \in up : l = current \/ \E c \in Callers : stopping[c].listener = l

\* How far main is, and what it has left behind.
ShutdownOrder ==
  /\ main \in {"serve", "cancel", "api", "close", "pg", "exit"} => Idle(Main)
  /\ poolClosed => main \in {"pg", "exit"}
  /\ main # "serve" /\ ~raced => current = None /\ \A c \in Clients : Idle(c)

EngineInv == EngineTypeOK /\ NoOrphanListener /\ HeldListeners /\ ShutdownOrder

LEMMA EngineInvInit == EngineInit => EngineInv
<1> SUFFICES ASSUME EngineInit PROVE EngineInv
  OBVIOUS
<1>1. WriterTypeOK /\ poolClosed = FALSE
  BY WriterTypeInit DEF EngineInit, WriterInit
<1>2. \A c \in Callers : stopping[c] = NotStopping
  BY DEF EngineInit
<1>3. EngineTypeOK
  BY <1>1, <1>2 DEF EngineInit, EngineTypeOK, NotStopping, Idle
<1> QED
  BY <1>1, <1>2, <1>3 DEF EngineInit, EngineInv, NoOrphanListener, HeldListeners,
     ShutdownOrder, Idle, Callers

\* Steps that leave main and the manager alone.
LEMMA ManagerKept ==
  ASSUME EngineInv, WriterTypeOK', cancelled' = cancelled,
         poolClosed' = poolClosed, UNCHANGED <<main, managerVars, raced>>
  PROVE  EngineInv'
BY DEF EngineInv, EngineTypeOK, NoOrphanListener, HeldListeners, ShutdownOrder,
   managerVars, Idle

LEMMA WriterTypeKept ==
  ASSUME WriterTypeOK, UNCHANGED writerVars
  PROVE  WriterTypeOK'
BY DEF WriterTypeOK, writerVars

\* What TakeListener does, field by field.
LEMMA TakeListenerEffect ==
  ASSUME EngineTypeOK, NEW c \in Callers, Idle(c), TakeListener(c)
  PROVE  /\ current' = None
         /\ stopping'[c].listener = current
         /\ current # None => stopping'[c] = [step |-> "cancel", listener |-> current]
         /\ Idle(c)' <=> current = None
         /\ \A d \in Callers \ {c} : stopping'[d] = stopping[d]
         /\ stopping' \in [Callers -> [step : {"none", "cancel", "wait"},
                                       listener : Listeners \cup {None}]]
<1>1. CASE current = None
  BY <1>1 DEF EngineTypeOK, TakeListener, NotStopping, Idle
<1>2. CASE current # None
  <2>1. stopping'[c] = [step |-> "cancel", listener |-> current]
    BY <1>2 DEF EngineTypeOK, TakeListener
  <2>2. ~Idle(c)'
    BY <2>1 DEF Idle, NotStopping
  <2> QED BY <1>2, <2>1, <2>2 DEF EngineTypeOK, TakeListener
<1> QED BY <1>1, <1>2

LEMMA StartListenerInv ==
  ASSUME EngineInv, NEW p \in Ports, StartListener(p)
  PROVE  EngineInv'
<1>1. PICK l \in Fresh : current' = l /\ up' = up \cup {l}
                         /\ port' = [port EXCEPT ![l] = p]
                         /\ deaf' \in {deaf, deaf \cup {l}}
  BY DEF StartListener
<1>2. l \in Listeners /\ l \notin up /\ l \notin ended /\ l # None
  BY <1>1, EngineAssumption DEF Fresh
<1>3. /\ UNCHANGED <<writerVars, main, ended, told, stopping>>
      /\ raced' = (raced \/ main # "serve") /\ current = None
  BY DEF StartListener, Request
<1>4. WriterTypeOK' /\ UNCHANGED <<cancelled, poolClosed>>
  BY <1>3, WriterTypeKept DEF EngineInv, EngineTypeOK, writerVars
<1>5. EngineTypeOK'
  BY <1>1, <1>2, <1>3, <1>4 DEF EngineInv, EngineTypeOK, Idle
<1>6. NoOrphanListener'
  BY <1>1, <1>3, <1>4, EngineAssumption DEF EngineInv, EngineTypeOK, NoOrphanListener
<1>7. HeldListeners'
  BY <1>1, <1>2, <1>3, EngineAssumption DEF EngineInv, EngineTypeOK, HeldListeners
<1>8. ShutdownOrder'
  BY <1>3, <1>4 DEF EngineInv, ShutdownOrder, Idle
<1> QED BY <1>5, <1>6, <1>7, <1>8 DEF EngineInv

LEMMA StopListenerInv ==
  ASSUME EngineInv, NEW c \in Clients, StopListener(c)
  PROVE  EngineInv'
<1>1. /\ Idle(c) /\ TakeListener(c) /\ current # None /\ c \in Callers
      /\ UNCHANGED <<writerVars, main, up, ended, told, deaf, port>>
      /\ raced' = (raced \/ main # "serve")
  BY DEF StopListener, Request, Callers
<1>2. WriterTypeOK' /\ UNCHANGED <<cancelled, poolClosed>>
  BY <1>1, WriterTypeKept DEF EngineInv, EngineTypeOK, writerVars
<1>3. /\ current' = None
      /\ stopping'[c] = [step |-> "cancel", listener |-> current]
      /\ stopping'[c].listener = current /\ ~Idle(c)'
      /\ \A d \in Callers \ {c} : stopping'[d] = stopping[d]
      /\ stopping' \in [Callers -> [step : {"none", "cancel", "wait"},
                                    listener : Listeners \cup {None}]]
  BY <1>1, TakeListenerEffect DEF EngineInv
<1>4. EngineTypeOK'
  BY <1>1, <1>2, <1>3 DEF EngineInv, EngineTypeOK, Idle
<1>5. NoOrphanListener'
  BY <1>1, <1>2, <1>3 DEF EngineInv, EngineTypeOK, NoOrphanListener, Idle, NotStopping
<1>6. HeldListeners'
  BY <1>1, <1>3, EngineAssumption DEF EngineInv, EngineTypeOK, HeldListeners, Idle, NotStopping
<1>7. ShutdownOrder'
  <2>1. c # Main /\ Main \in Callers
    BY EngineAssumption DEF Callers
  <2>2. Idle(Main)' <=> Idle(Main)
    BY <1>3, <2>1 DEF Idle
  <2> QED BY <1>1, <1>2, <2>2 DEF EngineInv, ShutdownOrder
<1> QED BY <1>4, <1>5, <1>6, <1>7 DEF EngineInv

LEMMA ShutdownBeginsInv ==
  ASSUME EngineInv, ShutdownBegins
  PROVE  EngineInv'
<1>1. /\ main = "serve" /\ main' = "stop" /\ Main \in Callers /\ TakeListener(Main)
      /\ raced' = \E c \in Clients : ~Idle(c)
      /\ UNCHANGED <<writerVars, up, ended, told, deaf, port>>
  BY DEF ShutdownBegins, Callers
<1>2. WriterTypeOK' /\ UNCHANGED <<cancelled, poolClosed>>
  BY <1>1, WriterTypeKept DEF EngineInv, EngineTypeOK, writerVars
<1>3. Idle(Main)
  BY <1>1 DEF EngineInv, ShutdownOrder
<1>4. /\ current' = None
      /\ stopping'[Main].listener = current
      /\ current # None => stopping'[Main] = [step |-> "cancel", listener |-> current]
      /\ Idle(Main)' <=> current = None
      /\ \A d \in Callers \ {Main} : stopping'[d] = stopping[d]
      /\ stopping' \in [Callers -> [step : {"none", "cancel", "wait"},
                                    listener : Listeners \cup {None}]]
  BY <1>1, <1>3, TakeListenerEffect DEF EngineInv
<1>5. EngineTypeOK'
  BY <1>1, <1>2, <1>4 DEF EngineInv, EngineTypeOK, Idle
<1>6. NoOrphanListener'
  <2> SUFFICES ASSUME NEW l \in up
               PROVE  \/ l \in told \/ cancelled
                      \/ \E c \in Callers : stopping'[c] = [step |-> "cancel", listener |-> l]
    BY <1>1, <1>2 DEF NoOrphanListener
  <2>1. CASE l = current
    BY <1>1, <1>4, <2>1, EngineAssumption DEF EngineInv, EngineTypeOK
  <2>2. CASE \E c \in Callers : stopping[c] = [step |-> "cancel", listener |-> l]
    <3>1. PICK c \in Callers : stopping[c] = [step |-> "cancel", listener |-> l]
      BY <2>2
    <3>2. c # Main
      BY <1>3, <3>1 DEF Idle, NotStopping
    <3> QED BY <1>4, <3>1, <3>2
  <2> QED BY <2>1, <2>2 DEF EngineInv, NoOrphanListener
<1>7. HeldListeners'
  <2>1. stopping[Main].listener = None
    BY <1>3 DEF Idle, NotStopping
  <2> QED BY <1>1, <1>4, <2>1, EngineAssumption DEF EngineInv, EngineTypeOK, HeldListeners
<1>8. ShutdownOrder'
  <2>1. ~raced' => \A c \in Clients : Idle(c)'
    BY <1>1, <1>4, EngineAssumption DEF Idle, Callers
  <2> QED BY <1>1, <1>2, <1>4, <2>1 DEF EngineInv, ShutdownOrder
<1> QED BY <1>5, <1>6, <1>7, <1>8 DEF EngineInv

LEMMA StopCancelsInv ==
  ASSUME EngineInv, NEW c \in Callers, StopCancels(c)
  PROVE  EngineInv'
<1>1. /\ stopping[c].step = "cancel" /\ told' = told \cup {stopping[c].listener}
      /\ stopping' = [stopping EXCEPT ![c].step = "wait"]
      /\ UNCHANGED <<writerVars, main, current, up, ended, deaf, port, raced>>
  BY DEF StopCancels
<1>2. WriterTypeOK' /\ UNCHANGED <<cancelled, poolClosed>>
  BY <1>1, WriterTypeKept DEF EngineInv, EngineTypeOK, writerVars
<1>3. /\ stopping[c] \in [step : {"none", "cancel", "wait"}, listener : Listeners \cup {None}]
      /\ ~Idle(c) /\ stopping[c].listener \in Listeners
  BY <1>1 DEF EngineInv, EngineTypeOK, Idle, NotStopping
<1>4. /\ stopping'[c] = [step |-> "wait", listener |-> stopping[c].listener]
      /\ stopping'[c].listener = stopping[c].listener
      /\ \A d \in Callers \ {c} : stopping'[d] = stopping[d]
      /\ stopping' \in [Callers -> [step : {"none", "cancel", "wait"},
                                    listener : Listeners \cup {None}]]
  BY <1>1, <1>3 DEF EngineInv, EngineTypeOK
<1>5. \A d \in Callers : Idle(d)' <=> Idle(d)
  BY <1>3, <1>4 DEF Idle, NotStopping
<1>6. EngineTypeOK'
  BY <1>1, <1>2, <1>3, <1>4, <1>5 DEF EngineInv, EngineTypeOK
<1>7. NoOrphanListener'
  <2> SUFFICES ASSUME NEW l \in up
               PROVE  \/ l = current \/ l \in told' \/ cancelled
                      \/ \E d \in Callers : stopping'[d] = [step |-> "cancel", listener |-> l]
    BY <1>1, <1>2 DEF NoOrphanListener
  <2>1. CASE stopping[c] = [step |-> "cancel", listener |-> l]
    BY <1>1, <2>1
  <2>2. CASE stopping[c] # [step |-> "cancel", listener |-> l]
    BY <1>1, <1>4, <2>2 DEF EngineInv, NoOrphanListener
  <2> QED BY <2>1, <2>2
<1>8. HeldListeners'
  BY <1>1, <1>4 DEF EngineInv, HeldListeners
<1>9. ShutdownOrder'
  BY <1>1, <1>2, <1>5 DEF EngineInv, ShutdownOrder, Callers
<1> QED BY <1>6, <1>7, <1>8, <1>9 DEF EngineInv

LEMMA StopReturnsInv ==
  ASSUME EngineInv, NEW c \in Callers, StopReturns(c)
  PROVE  EngineInv'
<1>1. /\ stopping[c].step = "wait" /\ stopping[c].listener \in ended
      /\ stopping' = [stopping EXCEPT ![c] = NotStopping]
      /\ UNCHANGED <<writerVars, main, current, up, ended, told, deaf, port, raced>>
  BY DEF StopReturns
<1>2. WriterTypeOK' /\ UNCHANGED <<cancelled, poolClosed>>
  BY <1>1, WriterTypeKept DEF EngineInv, EngineTypeOK, writerVars
<1>3. /\ stopping'[c] = NotStopping
      /\ \A d \in Callers \ {c} : stopping'[d] = stopping[d]
      /\ stopping' \in [Callers -> [step : {"none", "cancel", "wait"},
                                    listener : Listeners \cup {None}]]
  BY <1>1 DEF EngineInv, EngineTypeOK, NotStopping
<1>4. \A d \in Callers : Idle(d) => Idle(d)'
  BY <1>3 DEF Idle
<1>5. EngineTypeOK'
  BY <1>1, <1>2, <1>3 DEF EngineInv, EngineTypeOK, Idle, NotStopping
<1>6. NoOrphanListener'
  <2>1. \A l : stopping[c] # [step |-> "cancel", listener |-> l]
    BY <1>1
  <2> QED BY <1>1, <1>2, <1>3, <2>1 DEF EngineInv, NoOrphanListener
<1>7. HeldListeners'
  BY <1>1, <1>3 DEF EngineInv, HeldListeners
<1>8. ShutdownOrder'
  BY <1>1, <1>2, <1>4 DEF EngineInv, ShutdownOrder, Callers
<1> QED BY <1>5, <1>6, <1>7, <1>8 DEF EngineInv

LEMMA ListenerReturnsInv ==
  ASSUME EngineInv, NEW l \in Listeners, ListenerReturns(l)
  PROVE  EngineInv'
<1>1. /\ up' = up \ {l} /\ ended' = ended \cup {l}
      /\ UNCHANGED <<writerVars, main, current, told, deaf, port, raced, stopping>>
  BY DEF ListenerReturns
<1>2. WriterTypeOK' /\ UNCHANGED <<cancelled, poolClosed>>
  BY <1>1, WriterTypeKept DEF EngineInv, EngineTypeOK, writerVars
<1> QED
  BY <1>1, <1>2 DEF EngineInv, EngineTypeOK, NoOrphanListener, HeldListeners,
     ShutdownOrder, Idle

LEMMA MainShutdownInv ==
  ASSUME EngineInv, MainShutdown
  PROVE  EngineInv'
<1>1. CASE MainStopped
  <2>1. WriterTypeOK' /\ UNCHANGED <<cancelled, poolClosed>>
    BY <1>1, WriterTypeKept DEF MainStopped, EngineInv, EngineTypeOK, writerVars
  <2> QED
    BY <1>1, <2>1 DEF MainStopped, EngineInv, EngineTypeOK, NoOrphanListener,
       HeldListeners, ShutdownOrder, managerVars, Idle
<1>2. CASE MainCancels
  <2>1. WriterTypeOK' /\ poolClosed' = poolClosed /\ cancelled' = TRUE
    BY <1>2 DEF MainCancels, CancelCtx, EngineInv, EngineTypeOK, WriterTypeOK
  <2> QED
    BY <1>2, <2>1 DEF MainCancels, EngineInv, EngineTypeOK, NoOrphanListener,
       HeldListeners, ShutdownOrder, managerVars, Idle
<1>3. CASE ApiShutDown
  <2>1. WriterTypeOK' /\ UNCHANGED <<cancelled, poolClosed>>
    BY <1>3, WriterTypeKept DEF ApiShutDown, EngineInv, EngineTypeOK, writerVars
  <2> QED
    BY <1>3, <2>1 DEF ApiShutDown, EngineInv, EngineTypeOK, NoOrphanListener,
       HeldListeners, ShutdownOrder, managerVars, Idle
<1>4. CASE MainClosesPool
  <2>1. WriterTypeOK' /\ poolClosed' = TRUE /\ cancelled' = cancelled
    BY <1>4 DEF MainClosesPool, ClosePool, EngineInv, EngineTypeOK, WriterTypeOK
  <2> QED
    BY <1>4, <2>1 DEF MainClosesPool, EngineInv, EngineTypeOK, NoOrphanListener,
       HeldListeners, ShutdownOrder, managerVars, Idle
<1>5. CASE MainExits
  <2>1. WriterTypeOK' /\ UNCHANGED <<cancelled, poolClosed>>
    BY <1>5, WriterTypeKept DEF MainExits, EngineInv, EngineTypeOK, writerVars
  <2> QED
    BY <1>5, <2>1 DEF MainExits, EngineInv, EngineTypeOK, NoOrphanListener,
       HeldListeners, ShutdownOrder, managerVars, Idle
<1> QED BY <1>1, <1>2, <1>3, <1>4, <1>5 DEF MainShutdown

LEMMA EngineInvStep == EngineInv /\ [EngineNext]_engineVars => EngineInv'
<1> SUFFICES ASSUME EngineInv, [EngineNext]_engineVars PROVE EngineInv'
  OBVIOUS
<1>1. CASE WriterStep /\ UNCHANGED <<main, managerVars, raced>>
  <2>1. WriterTypeOK'
    BY <1>1, WriterStepType DEF EngineInv, EngineTypeOK
  <2>2. UNCHANGED <<cancelled, poolClosed>>
    BY <1>1 DEF WriterStep, Take, Tick, Flush, StartDrain, Drain, DrainEnds
  <2> QED BY <1>1, <2>1, <2>2, ManagerKept
<1>2. CASE ShutdownBegins
  BY <1>2, ShutdownBeginsInv
<1>3. CASE MainShutdown
  BY <1>3, MainShutdownInv
<1>4. CASE \E p \in Ports : StartListener(p)
  BY <1>4, StartListenerInv
<1>5. CASE \E c \in Clients : StopListener(c)
  BY <1>5, StopListenerInv
<1>6. CASE \E c \in Callers : StopCancels(c)
  BY <1>6, StopCancelsInv
<1>7. CASE \E c \in Callers : StopReturns(c)
  BY <1>7, StopReturnsInv
<1>8. CASE ListenerSendsRow
  <2>1. WriterTypeOK'
    BY <1>8, OfferType DEF ListenerSendsRow, EngineInv, EngineTypeOK
  <2>2. UNCHANGED <<cancelled, poolClosed>> /\ UNCHANGED <<main, managerVars, raced>>
    BY <1>8 DEF ListenerSendsRow, Offer
  <2> QED BY <2>1, <2>2, ManagerKept
<1>9. CASE \E l \in Listeners : ListenerReturns(l)
  BY <1>9, ListenerReturnsInv
<1>10. CASE UNCHANGED engineVars
  <2>1. WriterTypeOK' /\ UNCHANGED <<cancelled, poolClosed>>
    BY <1>10, WriterTypeKept DEF engineVars, writerVars, EngineInv, EngineTypeOK
  <2> QED BY <1>10, <2>1, ManagerKept DEF engineVars
<1> QED
  BY <1>1, <1>2, <1>3, <1>4, <1>5, <1>6, <1>7, <1>8, <1>9, <1>10 DEF EngineNext

LEMMA EngineInvariant == EngineSpec => []EngineInv
BY EngineInvInit, EngineInvStep, PTL DEF EngineSpec

-----------------------------------------------------------------------------
\* The engine's variables, the writer's included, keep their types.
THEOREM EngineTypeCorrect == EngineSpec => []EngineTypeOK
<1>1. EngineInv => EngineTypeOK
  BY DEF EngineInv
<1> QED BY <1>1, EngineInvariant, PTL

\* However requests and the shutdown interleave, a running listener is the
\* manager's, or somebody is about to cancel it, or it has been cancelled:
\* listenerManager never loses one.
THEOREM NoListenerOrphaned == EngineSpec => []NoOrphanListener
<1>1. EngineInv => NoOrphanListener
  BY DEF EngineInv
<1> QED BY <1>1, EngineInvariant, PTL

\* Unless a request raced the shutdown, main closes the pool only after the
\* last listener has returned.
THEOREM PoolClosedLast == EngineSpec => []PoolOutlivesListeners
<1>1. EngineInv => PoolOutlivesListeners
  <2> SUFFICES ASSUME EngineInv, poolClosed, ~raced PROVE up = {}
    BY DEF PoolOutlivesListeners
  <2>1. current = None /\ \A c \in Callers : Idle(c)
    BY DEF EngineInv, ShutdownOrder, Callers
  <2>2. current = None /\ \A c \in Callers : stopping[c].listener = None
    BY <2>1 DEF Idle, NotStopping
  <2> QED BY <2>2, EngineAssumption DEF EngineInv, EngineTypeOK, HeldListeners
<1> QED BY <1>1, EngineInvariant, PTL

\* The engine's writer keeps the promise of RowLog through listeners that
\* come and go and through the shutdown.
THEOREM EngineImplementsLog == EngineSpec => ImplementsRowLog
<1>1. EngineInit => WriterInit
  BY DEF EngineInit
<1>2. [EngineNext]_engineVars => [WriterNext]_writerVars
  <2> SUFFICES ASSUME [EngineNext]_engineVars
               PROVE  WriterNext \/ UNCHANGED writerVars
    OBVIOUS
  <2>1. CASE UNCHANGED engineVars
    BY <2>1 DEF engineVars
  <2>2. CASE MainShutdown
    BY <2>2 DEF MainShutdown, MainStopped, MainCancels, ApiShutDown, MainClosesPool,
       MainExits, WriterNext
  <2>3. CASE EngineNext /\ ~MainShutdown
    BY <2>3 DEF EngineNext, ShutdownBegins, StartListener, StopListener, StopCancels,
       StopReturns, ListenerSendsRow, ListenerReturns, WriterNext
  <2> QED BY <2>1, <2>2, <2>3
<1>3. EngineSpec => WriterSpec
  BY <1>1, <1>2, PTL DEF EngineSpec, WriterSpec
<1> QED BY <1>3, WriterImplementsLog, PTL
=============================================================================
