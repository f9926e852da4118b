---------------------------- MODULE SourceRouter ----------------------------
(***************************************************************************)
(* The SourceRouter goroutine (internal/source/router.go) and the select   *)
(* loops of the SourceHandlers it starts (SourceHandler.run in handler.go):*)
(* which handler gets a packet, when a handler is dropped as stale, and    *)
(* how all of them stop.  What a handler does with a packet is the module  *)
(* SourceHandler; here handling one takes two steps, so that the router    *)
(* and other handlers run in between.                                      *)
(*                                                                         *)
(* Time is abstracted to what cleanupStale compares: whether staleTimeout  *)
(* has passed since an event ("recent", "old"), and "never" for the zero   *)
(* time of a handler that has not received yet.  The router reads lastSeen *)
(* without the lock the handler would need; a torn read of the first       *)
(* assignment still looks older than the cutoff, later ones give the old   *)
(* or the new value, so the data race adds no outcome.                     *)
(***************************************************************************)
EXTENDS Naturals, Sequences

CONSTANTS
  Keys,         \* source addresses (IP and port)
  Handlers,     \* SourceHandlers that can be created; one per packet is enough
  Kinds,        \* payloads: "Event", "Frame", and "Bad" for one that cannot be parsed
  RouterCap,    \* capacity of routerChan (512)
  InCap,        \* capacity of inChan (512)
  MaxPackets,   \* bound on the packets sent
  None          \* absent value

Packet == [n : 1 .. MaxPackets, key : Keys, kind : Kinds]

ASSUME RouterAssumption ==
  /\ Kinds \subseteq {"Event", "Frame", "Bad"}
  /\ RouterCap \in Nat \ {0}
  /\ InCap \in Nat \ {0}
  /\ MaxPackets \in Nat
  /\ None \notin Handlers \cup Packet

VARIABLES
  sent,         \* packets the sources have sent so far
  routerChan,   \* packets parsed and waiting for the router
  routerClosed, \* routerChan is closed
  cancelled,    \* ctx is done
  router,       \* "run", "wait" (in wg.Wait), "done" (Run has returned)
  sources,      \* the router's map; None where there is no entry
  inChan,       \* packets queued at a handler
  inClosed,     \* handlers whose inChan is closed
  pc,           \* of a handler: "absent", "select", "busy", "done"
  current,      \* packet a busy handler works on
  lastSeen,     \* h.lastSeen: "never", "recent", "old"
  heard,        \* history: age of the source's last packet at the router
  handled,      \* history: numbers of the packets handled
  lost,         \* history: packets dropped at a full inChan
  panicked      \* a send on, or a close of, a closed channel

handlerVars == <<inChan, inClosed, pc, current, lastSeen>>
inputVars   == <<sent, routerChan, routerClosed, cancelled>>
historyVars == <<handled, lost>>
routerVars  == <<routerChan, router, sources, handlerVars, heard, historyVars,
                 panicked>>
vars        == <<inputVars, router, sources, handlerVars, heard, historyVars,
                 panicked>>

Mapped == {sources[k] : k \in Keys} \ {None}

-----------------------------------------------------------------------------
(* The router. *)

CloseAll(hs) ==
  /\ inClosed' = inClosed \cup hs
  /\ panicked' = (panicked \/ hs \cap inClosed # {})

\* The non-blocking send to h.inChan; a send on a closed channel panics even
\* with a default case.
Offer(h, pkt) ==
  /\ panicked' = (panicked \/ h \in inClosed)
  /\ IF Len(inChan[h]) < InCap
     THEN /\ inChan' = [inChan EXCEPT ![h] = Append(@, pkt)]
          /\ UNCHANGED lost
     ELSE /\ lost' = lost \cup {pkt}
          /\ UNCHANGED inChan

\* dispatch: the source's handler, or a new one that starts running.
RouterDispatch ==
  /\ router = "run" /\ routerChan # <<>>
  /\ routerChan' = Tail(routerChan)
  /\ LET pkt == Head(routerChan)
     IN  /\ heard' = [heard EXCEPT ![pkt.key] = "recent"]
         /\ \/ /\ sources[pkt.key] # None
               /\ Offer(sources[pkt.key], pkt)
               /\ UNCHANGED <<sources, pc>>
            \/ /\ sources[pkt.key] = None
               /\ \E h \in Handlers :
                    /\ pc[h] = "absent"
                    /\ sources' = [sources EXCEPT ![pkt.key] = h]
                    /\ pc' = [pc EXCEPT ![h] = "select"]
                    /\ Offer(h, pkt)
  /\ UNCHANGED <<sent, routerClosed, cancelled, router, inClosed, current,
                 lastSeen, handled>>

\* lastSeen.Before(cutoff): the zero time is before any cutoff.
Stale(h) == lastSeen[h] # "recent"

CleanupStale ==
  LET stale == {k \in Keys : sources[k] # None /\ Stale(sources[k])}
  IN  /\ router = "run" /\ stale # {}
      /\ sources' = [k \in Keys |-> IF k \in stale THEN None ELSE sources[k]]
      /\ CloseAll({sources[k] : k \in stale})
      /\ UNCHANGED <<inputVars, router, inChan, pc, current, lastSeen, heard,
                     historyVars>>

\* ctx.Done, or routerChan closed and empty: shutdown up to wg.Wait.
RouterShutdown ==
  /\ router = "run"
  /\ cancelled \/ (routerClosed /\ routerChan = <<>>)
  /\ router' = "wait"
  /\ CloseAll(Mapped)
  /\ UNCHANGED <<inputVars, sources, inChan, pc, current, lastSeen, heard,
                 historyVars>>

\* wg.Wait is over: every handler ever started has returned.
RouterReturns ==
  /\ router = "wait"
  /\ \A h \in Handlers : pc[h] \in {"absent", "done"}
  /\ router' = "done"
  /\ UNCHANGED <<inputVars, sources, handlerVars, heard, historyVars, panicked>>

-----------------------------------------------------------------------------
(* The handlers' select loops. *)

\* Faulty: lastSeen is set once, when the first packet arrives.
TakesWithoutRefresh(h) ==
  /\ pc[h] = "select" /\ inChan[h] # <<>>
  /\ inChan' = [inChan EXCEPT ![h] = Tail(@)]
  /\ current' = [current EXCEPT ![h] = Head(inChan[h])]
  /\ lastSeen' = [lastSeen EXCEPT ![h] = IF @ = "never" THEN "recent" ELSE @]
  /\ pc' = [pc EXCEPT ![h] = "busy"]
  /\ UNCHANGED <<inputVars, router, sources, inClosed, heard, historyVars, panicked>>

\* A closed channel still gives the packets queued in it.
HandlerTakes(h) ==
  /\ pc[h] = "select" /\ inChan[h] # <<>>
  /\ inChan' = [inChan EXCEPT ![h] = Tail(@)]
  /\ current' = [current EXCEPT ![h] = Head(inChan[h])]
  /\ lastSeen' = [lastSeen EXCEPT ![h] = "recent"]
  /\ pc' = [pc EXCEPT ![h] = "busy"]
  /\ UNCHANGED <<inputVars, router, sources, inClosed, heard, historyVars, panicked>>

\* dispatch returns, database calls included.
HandlerFinishes(h) ==
  /\ pc[h] = "busy"
  /\ handled' = handled \cup {current[h].n}
  /\ current' = [current EXCEPT ![h] = None]
  /\ pc' = [pc EXCEPT ![h] = "select"]
  /\ UNCHANGED <<inputVars, router, sources, inChan, inClosed, lastSeen, heard,
                 lost, panicked>>

\* Faulty: a handler whose channel was closed leaves its queue behind.
EndsWithoutDraining(h) ==
  /\ pc[h] = "select"
  /\ cancelled \/ h \in inClosed
  /\ pc' = [pc EXCEPT ![h] = "done"]
  /\ UNCHANGED <<inputVars, router, sources, inChan, inClosed, current, lastSeen,
                 heard, historyVars, panicked>>

HandlerEnds(h) ==
  /\ pc[h] = "select"
  /\ cancelled \/ (h \in inClosed /\ inChan[h] = <<>>)
  /\ pc' = [pc EXCEPT ![h] = "done"]
  /\ UNCHANGED <<inputVars, router, sources, inChan, inClosed, current, lastSeen,
                 heard, historyVars, panicked>>

-----------------------------------------------------------------------------
(* The environment. *)

\* staleTimeout has passed since the last packet of source k.
HeardAges(k) ==
  /\ heard[k] = "recent"
  /\ heard' = [heard EXCEPT ![k] = "old"]
  /\ UNCHANGED <<inputVars, router, sources, handlerVars, historyVars, panicked>>

\* staleTimeout has passed since the handler of source k received.  A handler
\* with an empty queue received after its source was last heard.
SeenAges(k) ==
  /\ sources[k] # None
  /\ LET h == sources[k]
     IN  /\ lastSeen[h] = "recent"
         /\ heard[k] = "old" \/ inChan[h] # <<>>
         /\ lastSeen' = [lastSeen EXCEPT ![h] = "old"]
  /\ UNCHANGED <<inputVars, router, sources, inChan, inClosed, pc, current, heard,
                 historyVars, panicked>>

\* A parser worker passes on a packet of source k.
Arrive(k, kind) ==
  /\ ~routerClosed /\ sent < MaxPackets /\ Len(routerChan) < RouterCap
  /\ sent' = sent + 1
  /\ routerChan' = Append(routerChan, [n |-> sent + 1, key |-> k, kind |-> kind])
  /\ UNCHANGED <<routerClosed, cancelled, router, sources, handlerVars, heard,
                 historyVars, panicked>>

CloseInput ==
  /\ ~routerClosed
  /\ routerClosed' = TRUE
  /\ UNCHANGED <<sent, routerChan, cancelled, router, sources, handlerVars, heard,
                 historyVars, panicked>>

Cancel ==
  /\ ~cancelled
  /\ cancelled' = TRUE
  /\ UNCHANGED <<sent, routerChan, routerClosed, router, sources, handlerVars,
                 heard, historyVars, panicked>>

-----------------------------------------------------------------------------
RouterInit ==
  /\ sent = 0 /\ routerChan = <<>> /\ routerClosed = FALSE /\ cancelled = FALSE
  /\ router = "run" /\ sources = [k \in Keys |-> None]
  /\ inChan = [h \in Handlers |-> <<>>] /\ inClosed = {}
  /\ pc = [h \in Handlers |-> "absent"] /\ current = [h \in Handlers |-> None]
  /\ lastSeen = [h \in Handlers |-> "never"] /\ heard = [k \in Keys |-> "old"]
  /\ handled = {} /\ lost = {} /\ panicked = FALSE

RouterStep ==
  \/ RouterDispatch
  \/ CleanupStale
  \/ RouterShutdown
  \/ RouterReturns
  \/ \E h \in Handlers : HandlerTakes(h)
  \/ \E h \in Handlers : HandlerFinishes(h)
  \/ \E h \in Handlers : HandlerEnds(h)
  \/ \E k \in Keys : HeardAges(k)
  \/ \E k \in Keys : SeenAges(k)

RouterNext ==
  \/ RouterStep
  \/ \E k \in Keys, kind \in Kinds : Arrive(k, kind)
  \/ CloseInput
  \/ Cancel

RouterSpec == RouterInit /\ [][RouterNext]_vars

-----------------------------------------------------------------------------
(* Properties. *)

RouterTypeOK ==
  /\ sent \in 0 .. MaxPackets
  /\ routerChan \in Seq(Packet) /\ Len(routerChan) <= RouterCap
  /\ routerClosed \in BOOLEAN /\ cancelled \in BOOLEAN
  /\ router \in {"run", "wait", "done"}
  /\ sources \in [Keys -> Handlers \cup {None}]
  /\ inChan \in [Handlers -> Seq(Packet)]
  /\ \A h \in Handlers : Len(inChan[h]) <= InCap
  /\ inClosed \subseteq Handlers
  /\ pc \in [Handlers -> {"absent", "select", "busy", "done"}]
  /\ current \in [Handlers -> Packet \cup {None}]
  /\ \A h \in Handlers : pc[h] = "busy" <=> current[h] # None
  /\ lastSeen \in [Handlers -> {"never", "recent", "old"}]
  /\ heard \in [Keys -> {"recent", "old"}]
  /\ handled \subseteq 1 .. MaxPackets
  /\ lost \subseteq Packet
  /\ panicked \in BOOLEAN

\* No packet is sent to, and no close repeated on, a closed channel: stale
\* cleanup and shutdown close each inChan once and never one still in use.
NoPanic == ~panicked

\* Run returns only when every handler it started has returned, the ones it
\* dropped as stale included: after Listener.Start nothing uses writeCh or
\* the database.
RouterWaitsForHandlers ==
  router = "done" => \A h \in Handlers : pc[h] \in {"absent", "done"}

\* A handler that is up to date with its queue is dropped only when its
\* source has been silent for staleTimeout.
IdleHandlerWasSilent ==
  [][\A k \in Keys :
       sources[k] # None /\ sources'[k] # sources[k] =>
         heard[k] = "old" \/ inChan[sources[k]] # <<>>]_vars

\* A packet queued at a handler is handled, dropped as stale or not, unless
\* the listener is cancelled.
QueuedIsHandled ==
  \A n \in 1 .. MaxPackets :
    (\E h \in Handlers : \E i \in 1 .. Len(inChan[h]) : inChan[h][i].n = n)
      ~> (n \in handled \/ cancelled)
=============================================================================
