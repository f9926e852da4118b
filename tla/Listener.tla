------------------------------ MODULE Listener ------------------------------
(***************************************************************************)
(* The UDP listener (internal/listener_udp): the receive loop, the parser  *)
(* workers, the channels between them, and the order in which Start tears  *)
(* them down, around the SourceRouter that reads their output.             *)
(***************************************************************************)
EXTENDS SourceRouter

CONSTANTS
  Workers, \* parser workers
  RawCap   \* capacity of rawChan (UDPQueueSize)

ASSUME ListenerAssumption == RawCap \in Nat \ {0}

VARIABLES
  start,     \* Start: "receive", "evict" (enqueue found rawChan full),
             \* "workers" (in wg.Wait), "router" (waits for routerDone), "done"
  arriving,  \* packet that the receive loop holds while it evicts
  rawChan,   \* packets received and not parsed
  rawClosed, \* rawChan is closed
  worker,    \* "idle", "send", "done"
  parsed,    \* packet that a worker is about to send
  evicted,   \* history: packets dropped from a full rawChan
  events     \* history: events received

startVars    == <<start, arriving>>
workerVars   == <<worker, parsed>>
listenerVars == <<vars, startVars, rawChan, rawClosed, workerVars, evicted, events>>

\* What the router's actions leave alone.
upstreamVars == <<startVars, rawChan, rawClosed, workerVars, evicted, events>>

-----------------------------------------------------------------------------
(* The receive loop. *)

\* ReadFromUDP and the first select of enqueue.
Receive(k, kind) ==
  LET pkt == [n |-> sent + 1, key |-> k, kind |-> kind]
  IN  /\ start = "receive" /\ sent < MaxPackets
      /\ sent' = sent + 1
      /\ \/ /\ Len(rawChan) < RawCap
            /\ rawChan' = Append(rawChan, pkt)
            /\ UNCHANGED startVars
         \/ /\ Len(rawChan) >= RawCap
            /\ start' = "evict" /\ arriving' = pkt
            /\ UNCHANGED rawChan
      /\ events' = IF kind = "Event" THEN events \cup {pkt} ELSE events
      /\ UNCHANGED <<routerVars, routerClosed, cancelled, rawClosed, workerVars, evicted>>

\* Faulty: no packet makes room.
EvictNothing ==
  /\ start = "evict"
  /\ start' = "receive" /\ arriving' = None
  /\ rawChan' = Append(rawChan, arriving)
  /\ UNCHANGED <<vars, rawClosed, workerVars, evicted, events>>

\* The rest of enqueue: the oldest packet, if one is still there, makes room.
Evict ==
  /\ start = "evict"
  /\ start' = "receive" /\ arriving' = None
  /\ rawChan' = Append(IF rawChan = <<>> THEN <<>> ELSE Tail(rawChan), arriving)
  /\ evicted' = IF rawChan = <<>> THEN evicted ELSE evicted \cup {Head(rawChan)}
  /\ UNCHANGED <<vars, rawClosed, workerVars, events>>

\* Faulty: rawChan stays open.
RawChanLeftOpen ==
  /\ start = "receive" /\ cancelled
  /\ start' = "workers"
  /\ UNCHANGED <<vars, arriving, rawChan, rawClosed, workerVars, evicted, events>>

\* receive returns on ctx.Done, at the latest after the read deadline; Start
\* closes rawChan.
ReceiveEnds ==
  /\ start = "receive" /\ cancelled
  /\ start' = "workers"
  /\ rawClosed' = TRUE
  /\ UNCHANGED <<vars, arriving, rawChan, workerVars, evicted, events>>

\* Faulty: routerChan is closed before the workers are waited for.
WorkersNotWaitedFor ==
  /\ start = "workers"
  /\ start' = "router"
  /\ routerClosed' = TRUE
  /\ UNCHANGED <<sent, routerVars, cancelled, arriving, rawChan, rawClosed,
                 workerVars, evicted, events>>

\* wg.Wait is over: close routerChan.
WorkersEnded ==
  /\ start = "workers" /\ \A w \in Workers : worker[w] = "done"
  /\ start' = "router"
  /\ routerClosed' = TRUE
  /\ UNCHANGED <<sent, routerVars, cancelled, arriving, rawChan, rawClosed,
                 workerVars, evicted, events>>

\* Faulty: Start does not wait for the router.
StartReturnsEarly ==
  /\ start = "router"
  /\ start' = "done"
  /\ UNCHANGED <<vars, arriving, rawChan, rawClosed, workerVars, evicted, events>>

\* routerDone is closed: close the socket and return.
StartReturns ==
  /\ start = "router" /\ router = "done"
  /\ start' = "done"
  /\ UNCHANGED <<vars, arriving, rawChan, rawClosed, workerVars, evicted, events>>

-----------------------------------------------------------------------------
(* The parser workers. *)

\* A packet that cannot be parsed is skipped.
WorkerTakes(w) ==
  /\ worker[w] = "idle" /\ rawChan # <<>>
  /\ rawChan' = Tail(rawChan)
  /\ IF Head(rawChan).kind = "Bad"
     THEN UNCHANGED workerVars
     ELSE /\ worker' = [worker EXCEPT ![w] = "send"]
          /\ parsed' = [parsed EXCEPT ![w] = Head(rawChan)]
  /\ UNCHANGED <<vars, startVars, rawClosed, evicted, events>>

\* Faulty: an event is sent like any other packet.
SendsWithoutBlocking(w) ==
  /\ worker[w] = "send"
  /\ worker' = [worker EXCEPT ![w] = "idle"]
  /\ parsed' = [parsed EXCEPT ![w] = None]
  /\ routerChan' = IF Len(routerChan) < RouterCap
                   THEN Append(routerChan, parsed[w]) ELSE routerChan
  /\ panicked' = (panicked \/ routerClosed)
  /\ UNCHANGED <<sent, routerClosed, cancelled, router, sources, handlerVars,
                 heard, historyVars, startVars, rawChan, rawClosed, evicted, events>>

\* sendToRouter: an event waits for room, another packet is dropped.
WorkerSends(w) ==
  /\ worker[w] = "send"
  /\ parsed[w].kind = "Event" => Len(routerChan) < RouterCap \/ routerClosed
  /\ worker' = [worker EXCEPT ![w] = "idle"]
  /\ parsed' = [parsed EXCEPT ![w] = None]
  /\ routerChan' = IF Len(routerChan) < RouterCap
                   THEN Append(routerChan, parsed[w]) ELSE routerChan
  /\ panicked' = (panicked \/ routerClosed)
  /\ UNCHANGED <<sent, routerClosed, cancelled, router, sources, handlerVars,
                 heard, historyVars, startVars, rawChan, rawClosed, evicted, events>>

\* rawChan is closed and empty.
WorkerEnds(w) ==
  /\ worker[w] = "idle" /\ rawClosed /\ rawChan = <<>>
  /\ worker' = [worker EXCEPT ![w] = "done"]
  /\ UNCHANGED <<vars, startVars, rawChan, rawClosed, parsed, evicted, events>>

-----------------------------------------------------------------------------
\* SIGINT, or the engine's POST /listener/stop.
CancelListener == Cancel /\ UNCHANGED upstreamVars

ListenerInit ==
  /\ RouterInit
  /\ start = "receive" /\ arriving = None
  /\ rawChan = <<>> /\ rawClosed = FALSE
  /\ worker = [w \in Workers |-> "idle"] /\ parsed = [w \in Workers |-> None]
  /\ evicted = {} /\ events = {}

ListenerNext ==
  \/ RouterStep /\ UNCHANGED upstreamVars
  \/ \E k \in Keys, kind \in Kinds : Receive(k, kind)
  \/ Evict
  \/ ReceiveEnds
  \/ WorkersEnded
  \/ StartReturns
  \/ \E w \in Workers : WorkerTakes(w)
  \/ \E w \in Workers : WorkerSends(w)
  \/ \E w \in Workers : WorkerEnds(w)
  \/ CancelListener

ListenerSpec == ListenerInit /\ [][ListenerNext]_listenerVars

\* Every goroutine is scheduled, database calls return, and a select whose
\* cases stay ready takes each of them some time (Go picks one at random); a
\* worker whose send is possible takes its turn in the end (blocked senders of
\* a Go channel queue up).
ListenerFairness ==
  /\ WF_listenerVars(RouterDispatch /\ UNCHANGED upstreamVars)
  /\ WF_listenerVars(RouterShutdown /\ UNCHANGED upstreamVars)
  /\ WF_listenerVars(RouterReturns /\ UNCHANGED upstreamVars)
  /\ \A h \in Handlers :
       /\ WF_listenerVars(HandlerTakes(h) /\ UNCHANGED upstreamVars)
       /\ WF_listenerVars(HandlerFinishes(h) /\ UNCHANGED upstreamVars)
       /\ WF_listenerVars(HandlerEnds(h) /\ UNCHANGED upstreamVars)
  /\ WF_listenerVars(Evict) /\ WF_listenerVars(ReceiveEnds)
  /\ WF_listenerVars(WorkersEnded) /\ WF_listenerVars(StartReturns)
  /\ \A w \in Workers : /\ WF_listenerVars(WorkerTakes(w))
                        /\ WF_listenerVars(WorkerEnds(w))
                        /\ SF_listenerVars(WorkerSends(w))

FairListenerSpec == ListenerSpec /\ ListenerFairness

-----------------------------------------------------------------------------
(* Properties. *)

ListenerTypeOK ==
  /\ RouterTypeOK
  /\ start \in {"receive", "evict", "workers", "router", "done"}
  /\ arriving \in Packet \cup {None}
  /\ rawChan \in Seq(Packet) /\ Len(rawChan) <= RawCap
  /\ rawClosed \in BOOLEAN
  /\ worker \in [Workers -> {"idle", "send", "done"}]
  /\ parsed \in [Workers -> Packet \cup {None}]
  /\ evicted \subseteq Packet /\ events \subseteq Packet

\* Once Start has returned no worker and no handler runs: what the caller
\* closes next (the database pool) is not in use any more.
NothingRunsAfterStart ==
  start = "done" =>
    /\ router = "done"
    /\ \A w \in Workers : worker[w] = "done"
    /\ \A h \in Handlers : pc[h] \in {"absent", "done"}

InSeq(pkt, s) == \E i \in 1 .. Len(s) : s[i] = pkt

\* Where a packet can be while the listener runs.  What is queued at a handler
\* that has returned is lost.
InFlight(pkt) ==
  \/ pkt = arriving \/ InSeq(pkt, rawChan)
  \/ \E w \in Workers : parsed[w] = pkt
  \/ InSeq(pkt, routerChan)
  \/ \E h \in Handlers : pc[h] # "done" /\ (InSeq(pkt, inChan[h]) \/ current[h] = pkt)

\* Every event received is on its way, handled, pushed out of a full rawChan
\* or refused by a full inChan: it gets lost nowhere else, whatever the
\* workers, the stale cleanup and the other packets do meanwhile.
EventsAccountedFor ==
  ~cancelled =>
    \A pkt \in events : pkt.n \in handled \/ pkt \in evicted \cup lost \/ InFlight(pkt)

\* A parsed event waits for room in routerChan, and no router is left to make
\* any.
EventStuck ==
  /\ router = "done" /\ ~routerClosed /\ Len(routerChan) >= RouterCap
  /\ \E w \in Workers : worker[w] = "send" /\ parsed[w].kind = "Event"

\* Cancelled, Start returns (docs/02-backend.md:60, "Graceful shutdown: drain
\* queues, flush DB writer buffer, close pool"), unless the router, which
\* returns at once, leaves routerChan full in front of a worker with an event:
\* sendToRouter does not look at the context, and Start waits for the worker.
StopsUnlessEventStuck == cancelled ~> (start = "done" \/ EventStuck)
=============================================================================
