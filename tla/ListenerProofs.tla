--------------------------- MODULE ListenerProofs ---------------------------
(* Theorems about SourceRouter and about Listener, which composes it with *)
(* the receive loop and the workers, for every value of their constants.  *)
EXTENDS Listener, TLAPS

-----------------------------------------------------------------------------
(* The router by itself: type correctness. *)

\* The head of a queue of packets is a packet, and its tail a queue.
LEMMA QueueType ==
  ASSUME NEW q \in Seq(Packet), q # <<>>
  PROVE  /\ Head(q) \in Packet /\ Tail(q) \in Seq(Packet)
         /\ Len(Tail(q)) = Len(q) - 1
OBVIOUS

LEMMA PacketType ==
  ASSUME NEW pkt \in Packet
  PROVE  /\ pkt.key \in Keys /\ pkt.kind \in Kinds
         /\ pkt.n \in 1 .. MaxPackets /\ pkt # None
BY RouterAssumption DEF Packet

LEMMA OfferType ==
  ASSUME RouterTypeOK, NEW h \in Handlers, NEW pkt \in Packet, Offer(h, pkt)
  PROVE  /\ inChan' \in [Handlers -> Seq(Packet)]
         /\ \A x \in Handlers : Len(inChan'[x]) <= InCap
         /\ lost' \subseteq Packet /\ panicked' \in BOOLEAN
<1> USE DEF RouterTypeOK
<1>1. panicked' \in BOOLEAN
  BY DEF Offer
<1>2. CASE Len(inChan[h]) < InCap
  <2>1. inChan' = [inChan EXCEPT ![h] = Append(@, pkt)] /\ lost' = lost
    BY <1>2 DEF Offer
  <2>2. /\ Append(inChan[h], pkt) \in Seq(Packet)
        /\ Len(Append(inChan[h], pkt)) <= InCap
    BY <1>2, RouterAssumption
  <2> QED BY <1>1, <2>1, <2>2
<1>3. CASE ~(Len(inChan[h]) < InCap)
  BY <1>1, <1>3 DEF Offer
<1> QED BY <1>2, <1>3

LEMMA RouterTypeInit == RouterInit => RouterTypeOK
<1>1. <<>> \in Seq(Packet) /\ Len(<<>>) <= RouterCap /\ Len(<<>>) <= InCap
  BY RouterAssumption
<1>2. 0 \in 0 .. MaxPackets
  BY RouterAssumption
<1> SUFFICES ASSUME RouterInit PROVE RouterTypeOK
  OBVIOUS
<1>3. /\ inChan \in [Handlers -> Seq(Packet)]
      /\ \A h \in Handlers : Len(inChan[h]) <= InCap
  BY <1>1 DEF RouterInit
<1>4. /\ sent \in 0 .. MaxPackets
      /\ routerChan \in Seq(Packet) /\ Len(routerChan) <= RouterCap
  BY <1>1, <1>2 DEF RouterInit
<1>5. /\ pc \in [Handlers -> {"absent", "select", "busy", "done"}]
      /\ current \in [Handlers -> Packet \cup {None}]
      /\ \A h \in Handlers : pc[h] = "busy" <=> current[h] # None
  BY DEF RouterInit
<1> QED BY <1>3, <1>4, <1>5 DEF RouterInit, RouterTypeOK

LEMMA RouterTypeStep ==
  ASSUME RouterTypeOK, RouterStep
  PROVE  RouterTypeOK'
<1>1. CASE RouterDispatch
  <2> DEFINE pkt == Head(routerChan)
  <2>1. /\ pkt \in Packet /\ routerChan' \in Seq(Packet)
        /\ Len(routerChan') <= RouterCap
    BY <1>1, QueueType, RouterAssumption DEF RouterDispatch, RouterTypeOK
  <2>2. pkt.key \in Keys
    BY <2>1, PacketType
  <2>3. PICK h \in Handlers :
          /\ Offer(h, pkt)
          /\ \/ UNCHANGED <<sources, pc>>
             \/ /\ pc[h] = "absent"
                /\ sources' = [sources EXCEPT ![pkt.key] = h]
                /\ pc' = [pc EXCEPT ![h] = "select"]
    BY <1>1, <2>2 DEF RouterDispatch, RouterTypeOK
  <2> HIDE DEF pkt
  <2>4. /\ inChan' \in [Handlers -> Seq(Packet)]
        /\ \A x \in Handlers : Len(inChan'[x]) <= InCap
        /\ lost' \subseteq Packet /\ panicked' \in BOOLEAN
    BY <2>1, <2>3, OfferType
  <2>5. /\ sources' \in [Keys -> Handlers \cup {None}]
        /\ pc' \in [Handlers -> {"absent", "select", "busy", "done"}]
        /\ \A x \in Handlers : pc'[x] = "busy" <=> pc[x] = "busy"
    BY <2>2, <2>3 DEF RouterTypeOK
  <2>6. heard' \in [Keys -> {"recent", "old"}]
    BY <1>1, <2>2 DEF RouterDispatch, RouterTypeOK
  <2>7. UNCHANGED <<sent, routerClosed, cancelled, router, inClosed, current,
                    lastSeen, handled>>
    BY <1>1 DEF RouterDispatch
  <2> QED BY <2>1, <2>4, <2>5, <2>6, <2>7 DEF RouterTypeOK
<1>2. CASE CleanupStale
  <2> DEFINE stale == {k \in Keys : sources[k] # None /\ Stale(sources[k])}
  <2>1. {sources[k] : k \in stale} \subseteq Handlers
    BY DEF RouterTypeOK
  <2>2. inClosed' \subseteq Handlers /\ panicked' \in BOOLEAN
    BY <1>2, <2>1 DEF CleanupStale, CloseAll, RouterTypeOK
  <2>3. sources' \in [Keys -> Handlers \cup {None}]
    BY <1>2 DEF CleanupStale, RouterTypeOK
  <2> QED BY <1>2, <2>2, <2>3
          DEF CleanupStale, inputVars, historyVars, RouterTypeOK
<1>3. CASE RouterShutdown
  <2>1. inClosed' \subseteq Handlers /\ panicked' \in BOOLEAN
    BY <1>3 DEF RouterShutdown, CloseAll, Mapped, RouterTypeOK
  <2> QED BY <1>3, <2>1 DEF RouterShutdown, inputVars, historyVars, RouterTypeOK
<1>4. CASE RouterReturns
  BY <1>4 DEF RouterReturns, inputVars, handlerVars, historyVars, RouterTypeOK
<1>5. ASSUME NEW h \in Handlers, HandlerTakes(h) PROVE RouterTypeOK'
  <2>1. /\ Head(inChan[h]) \in Packet /\ Tail(inChan[h]) \in Seq(Packet)
        /\ Len(Tail(inChan[h])) <= InCap
    BY <1>5, QueueType, RouterAssumption DEF HandlerTakes, RouterTypeOK
  <2>2. Head(inChan[h]) # None
    BY <2>1, PacketType
  <2>3. /\ inChan' \in [Handlers -> Seq(Packet)]
        /\ \A x \in Handlers : Len(inChan'[x]) <= InCap
    BY <1>5, <2>1 DEF HandlerTakes, RouterTypeOK
  <2>4. /\ pc' \in [Handlers -> {"absent", "select", "busy", "done"}]
        /\ current' \in [Handlers -> Packet \cup {None}]
        /\ \A x \in Handlers : pc'[x] = "busy" <=> current'[x] # None
        /\ lastSeen' \in [Handlers -> {"never", "recent", "old"}]
    BY <1>5, <2>1, <2>2 DEF HandlerTakes, RouterTypeOK
  <2>5. UNCHANGED <<inputVars, router, sources, inClosed, heard, historyVars, panicked>>
    BY <1>5 DEF HandlerTakes
  <2> QED BY <2>3, <2>4, <2>5 DEF inputVars, historyVars, RouterTypeOK
<1>6. ASSUME NEW h \in Handlers, HandlerFinishes(h) PROVE RouterTypeOK'
  <2>1. current[h].n \in 1 .. MaxPackets
    BY <1>6, PacketType DEF HandlerFinishes, RouterTypeOK
  <2>2. /\ pc' \in [Handlers -> {"absent", "select", "busy", "done"}]
        /\ current' \in [Handlers -> Packet \cup {None}]
        /\ \A x \in Handlers : pc'[x] = "busy" <=> current'[x] # None
        /\ handled' \subseteq 1 .. MaxPackets
    BY <1>6, <2>1 DEF HandlerFinishes, RouterTypeOK
  <2>3. UNCHANGED <<inputVars, router, sources, inChan, inClosed, lastSeen, heard,
                    lost, panicked>>
    BY <1>6 DEF HandlerFinishes
  <2> QED BY <2>2, <2>3 DEF inputVars, RouterTypeOK
<1>7. ASSUME NEW h \in Handlers, HandlerEnds(h) PROVE RouterTypeOK'
  <2>1. /\ pc' \in [Handlers -> {"absent", "select", "busy", "done"}]
        /\ \A x \in Handlers : pc'[x] = "busy" <=> pc[x] = "busy"
    BY <1>7 DEF HandlerEnds, RouterTypeOK
  <2> QED BY <1>7, <2>1 DEF HandlerEnds, inputVars, historyVars, RouterTypeOK
<1>8. ASSUME NEW k \in Keys, HeardAges(k) PROVE RouterTypeOK'
  BY <1>8 DEF HeardAges, inputVars, handlerVars, historyVars, RouterTypeOK
<1>9. ASSUME NEW k \in Keys, SeenAges(k) PROVE RouterTypeOK'
  BY <1>9 DEF SeenAges, inputVars, historyVars, RouterTypeOK
<1> QED BY <1>1, <1>2, <1>3, <1>4, <1>5, <1>6, <1>7, <1>8, <1>9 DEF RouterStep

LEMMA AppendType ==
  ASSUME NEW q \in Seq(Packet), Len(q) < RouterCap, NEW pkt \in Packet
  PROVE  Append(q, pkt) \in Seq(Packet) /\ Len(Append(q, pkt)) <= RouterCap
BY RouterAssumption

LEMMA RouterEnvironmentType ==
  ASSUME RouterTypeOK,
         (\E k \in Keys, kind \in Kinds : Arrive(k, kind)) \/ CloseInput \/ Cancel
  PROVE  RouterTypeOK'
<1>1. ASSUME NEW k \in Keys, NEW kind \in Kinds, Arrive(k, kind) PROVE RouterTypeOK'
  <2> DEFINE pkt == [n |-> sent + 1, key |-> k, kind |-> kind]
  <2>1. sent + 1 \in 1 .. MaxPackets
    BY <1>1, RouterAssumption DEF Arrive, RouterTypeOK
  <2>2. pkt \in Packet
    BY <2>1 DEF Packet
  <2>3. routerChan' \in Seq(Packet) /\ Len(routerChan') <= RouterCap
    BY <1>1, <2>2, AppendType DEF Arrive, RouterTypeOK
  <2> QED BY <1>1, <2>1, <2>3 DEF Arrive, handlerVars, historyVars, RouterTypeOK
<1>2. CASE CloseInput
  BY <1>2 DEF CloseInput, handlerVars, historyVars, RouterTypeOK
<1>3. CASE Cancel
  BY <1>3 DEF Cancel, handlerVars, historyVars, RouterTypeOK
<1> QED BY <1>1, <1>2, <1>3

\* The router and its handlers keep to their types, channels to their
\* capacity, and a handler holds a packet exactly while it is busy.
THEOREM RouterTypeCorrect == RouterSpec => []RouterTypeOK
<1>1. RouterTypeOK /\ UNCHANGED vars => RouterTypeOK'
  BY DEF vars, inputVars, handlerVars, historyVars, RouterTypeOK
<1>2. RouterTypeOK /\ [RouterNext]_vars => RouterTypeOK'
  BY <1>1, RouterTypeStep, RouterEnvironmentType DEF RouterNext
<1> QED BY <1>2, RouterTypeInit, PTL DEF RouterSpec

-----------------------------------------------------------------------------
(* Channels are closed once and not used afterwards. *)

\* While the router runs, the handlers in its map have open channels; a
\* handler that was not created is not in the map and has no channel to close.
RouterInv ==
  /\ ~panicked
  /\ router = "run" => Mapped \cap inClosed = {}
  /\ \A h \in Handlers : pc[h] = "absent" => h \notin inClosed \cup Mapped
  /\ router = "done" => \A h \in Handlers : pc[h] \in {"absent", "done"}

LEMMA MappedMember == \A k \in Keys : sources[k] # None => sources[k] \in Mapped
BY DEF Mapped

LEMMA RouterInvInit == RouterInit => RouterInv
BY DEF RouterInit, RouterInv, Mapped

LEMMA RouterInvStep ==
  ASSUME RouterTypeOK, RouterInv, RouterStep
  PROVE  RouterInv'
<1>1. CASE RouterDispatch
  <2> DEFINE pkt == Head(routerChan)
  <2>1. pkt.key \in Keys
    BY <1>1, QueueType, PacketType DEF RouterDispatch, RouterTypeOK
  <2>2. PICK h \in Handlers :
          /\ Offer(h, pkt)
          /\ \/ sources[pkt.key] = h /\ UNCHANGED <<sources, pc>>
             \/ /\ pc[h] = "absent"
                /\ sources' = [sources EXCEPT ![pkt.key] = h]
                /\ pc' = [pc EXCEPT ![h] = "select"]
    <3>1. CASE sources[pkt.key] # None
      <4>1. sources[pkt.key] \in Handlers
        BY <2>1, <3>1 DEF RouterTypeOK
      <4> QED BY <1>1, <3>1, <4>1 DEF RouterDispatch
    <3>2. CASE sources[pkt.key] = None
      BY <1>1, <3>2 DEF RouterDispatch
    <3> QED BY <3>1, <3>2
  <2>3. router = "run" /\ UNCHANGED <<router, inClosed>>
    BY <1>1 DEF RouterDispatch
  <2> HIDE DEF pkt
  <2>4. h \notin inClosed /\ (h \in Mapped \/ pc'[h] = "select")
    <3>1. CASE sources[pkt.key] = h /\ UNCHANGED <<sources, pc>>
      <4>1. h \in Mapped
        BY <2>1, <3>1, MappedMember, RouterAssumption
      <4> QED BY <2>3, <4>1 DEF RouterInv
    <3>2. CASE pc[h] = "absent" /\ pc' = [pc EXCEPT ![h] = "select"]
      BY <3>2 DEF RouterInv, RouterTypeOK
    <3> QED BY <2>2, <3>1, <3>2
  <2>5. Mapped' \subseteq Mapped \cup {h}
    BY <2>1, <2>2 DEF Mapped, RouterTypeOK
  <2>6. ~panicked'
    BY <2>2, <2>4 DEF Offer, RouterInv
  <2>7. \A x \in Handlers : pc'[x] = "absent" => x # h /\ pc[x] = "absent"
    BY <2>2, <2>4 DEF RouterInv, RouterTypeOK
  <2> QED BY <2>3, <2>4, <2>5, <2>6, <2>7 DEF RouterInv
<1>2. CASE CleanupStale
  <2> DEFINE stale == {k \in Keys : sources[k] # None /\ Stale(sources[k])}
             dead  == {sources[k] : k \in stale}
  <2>1. router = "run" /\ router' = router /\ pc' = pc
    BY <1>2 DEF CleanupStale
  <2>2. dead \subseteq Mapped
    BY DEF Mapped
  <2>3. inClosed' = inClosed \cup dead /\ panicked' = (panicked \/ dead \cap inClosed # {})
    BY <1>2 DEF CleanupStale, CloseAll
  <2>4. sources' = [k \in Keys |-> IF k \in stale THEN None ELSE sources[k]]
    BY <1>2 DEF CleanupStale
  <2>5. Mapped' \subseteq Mapped /\ Mapped' \cap dead = {}
    BY <2>4 DEF Mapped
  <2> QED BY <2>1, <2>2, <2>3, <2>5 DEF RouterInv
<1>3. CASE RouterShutdown
  <2>1. Mapped \cap inClosed = {}
    BY <1>3 DEF RouterShutdown, RouterInv
  <2>2. /\ sources' = sources /\ router' = "wait" /\ pc' = pc
        /\ inClosed' = inClosed \cup Mapped
        /\ panicked' = (panicked \/ Mapped \cap inClosed # {})
    BY <1>3 DEF RouterShutdown, CloseAll
  <2>3. Mapped' = Mapped
    BY <2>2 DEF Mapped
  <2> QED BY <2>1, <2>2, <2>3 DEF RouterInv
<1>4. CASE RouterReturns
  BY <1>4 DEF RouterReturns, handlerVars, RouterInv, Mapped
<1>5. ASSUME NEW h \in Handlers,
             HandlerTakes(h) \/ HandlerFinishes(h) \/ HandlerEnds(h)
      PROVE  RouterInv'
  <2>1. /\ pc[h] \in {"select", "busy"}
        /\ \E v \in {"select", "busy", "done"} : pc' = [pc EXCEPT ![h] = v]
    BY <1>5 DEF HandlerTakes, HandlerFinishes, HandlerEnds
  <2>2. UNCHANGED <<router, sources, inClosed, panicked>>
    BY <1>5 DEF HandlerTakes, HandlerFinishes, HandlerEnds
  <2>3. Mapped' = Mapped
    BY <2>2 DEF Mapped
  <2>4. router # "done"
    BY <2>1 DEF RouterInv
  <2>5. \A x \in Handlers : pc'[x] = "absent" => pc[x] = "absent"
    BY <2>1 DEF RouterTypeOK
  <2> QED BY <2>2, <2>3, <2>4, <2>5 DEF RouterInv
<1>6. ASSUME NEW k \in Keys, HeardAges(k) \/ SeenAges(k) PROVE RouterInv'
  BY <1>6 DEF HeardAges, SeenAges, handlerVars, RouterInv, Mapped
<1> QED BY <1>1, <1>2, <1>3, <1>4, <1>5, <1>6 DEF RouterStep

LEMMA RouterInvKept ==
  ASSUME RouterInv, UNCHANGED <<router, sources, inClosed, pc, panicked>>
  PROVE  RouterInv'
BY DEF RouterInv, Mapped

LEMMA RouterSafe == RouterSpec => [](RouterTypeOK /\ RouterInv)
<1>1. RouterTypeOK /\ RouterInv /\ [RouterNext]_vars => RouterInv'
  <2> SUFFICES ASSUME RouterTypeOK, RouterInv, [RouterNext]_vars PROVE RouterInv'
    OBVIOUS
  <2>1. CASE RouterStep
    BY <2>1, RouterInvStep
  <2>2. CASE ~RouterStep
    BY <2>2, RouterInvKept
       DEF RouterNext, Arrive, CloseInput, Cancel, handlerVars, vars
  <2> QED BY <2>1, <2>2
<1> QED BY <1>1, RouterTypeCorrect, RouterInvInit, PTL DEF RouterSpec

\* Whatever the sources send and whenever handlers are dropped as stale, the
\* router never sends to nor closes a channel that is closed.
THEOREM RouterNeverPanics == RouterSpec => []NoPanic
<1>1. RouterInv => NoPanic
  BY DEF RouterInv, NoPanic
<1> QED BY <1>1, RouterSafe, PTL

\* When Run returns, every handler it ever started has returned.
THEOREM RouterOutlivesHandlers == RouterSpec => []RouterWaitsForHandlers
<1>1. RouterInv => RouterWaitsForHandlers
  BY DEF RouterInv, RouterWaitsForHandlers
<1> QED BY <1>1, RouterSafe, PTL

-----------------------------------------------------------------------------
(* Stale handlers. *)

\* Two sources share no handler, and a handler that is up to date with its
\* queue received after its source was last heard.
SilenceInv ==
  /\ \A j, k \in Keys : sources[j] # None /\ sources[j] = sources[k] => j = k
  /\ \A k \in Keys :
       sources[k] # None /\ heard[k] = "recent" /\ inChan[sources[k]] = <<>>
         => lastSeen[sources[k]] = "recent"

LEMMA SilenceInit == RouterInit => SilenceInv
BY DEF RouterInit, SilenceInv

LEMMA SilenceKept == SilenceInv /\ UNCHANGED <<sources, heard, inChan, lastSeen>> => SilenceInv'
BY DEF SilenceInv

LEMMA SilenceStep ==
  ASSUME RouterTypeOK, RouterInv, SilenceInv, RouterStep
  PROVE  SilenceInv'
<1> USE DEF RouterTypeOK
<1>1. CASE RouterDispatch
  <2> DEFINE pkt == Head(routerChan)
  <2>1. pkt \in Packet /\ pkt.key \in Keys
    BY <1>1, QueueType, PacketType DEF RouterDispatch
  <2>2. /\ heard' = [heard EXCEPT ![pkt.key] = "recent"]
        /\ lastSeen' = lastSeen
    BY <1>1 DEF RouterDispatch
  <2>3. PICK h \in Handlers :
          /\ Offer(h, pkt) /\ sources' = [sources EXCEPT ![pkt.key] = h]
          /\ sources[pkt.key] = h \/ pc[h] = "absent"
    <3>1. CASE sources[pkt.key] # None
      BY <1>1, <2>1, <3>1 DEF RouterDispatch
    <3>2. CASE sources[pkt.key] = None
      BY <1>1, <3>2 DEF RouterDispatch
    <3> QED BY <3>1, <3>2
  <2> HIDE DEF pkt
  <2>4. /\ sources'[pkt.key] = h
        /\ \A k \in Keys : k # pkt.key => sources'[k] = sources[k] /\ heard'[k] = heard[k]
    BY <2>1, <2>2, <2>3
  <2>5. \A k \in Keys : k # pkt.key /\ sources[k] # None => sources[k] # h
    BY <2>1, <2>3, MappedMember DEF RouterInv, SilenceInv
  <2>6. inChan'[h] # <<>> /\ \A x \in Handlers : x # h => inChan'[x] = inChan[x]
    <3>1. CASE Len(inChan[h]) < InCap
      <4>1. inChan' = [inChan EXCEPT ![h] = Append(inChan[h], pkt)]
        BY <2>3, <3>1 DEF Offer
      <4>2. Len(Append(inChan[h], pkt)) = Len(inChan[h]) + 1 /\ Len(inChan[h]) \in Nat
        BY <2>1
      <4>3. Append(inChan[h], pkt) # <<>>
        <5> SUFFICES ASSUME Append(inChan[h], pkt) = <<>> PROVE FALSE
          OBVIOUS
        <5>1. Len(Append(inChan[h], pkt)) = 0
          OBVIOUS
        <5> QED BY <4>2, <5>1
      <4> QED BY <4>1, <4>3
    <3>2. CASE ~(Len(inChan[h]) < InCap)
      <4>1. inChan' = inChan
        BY <2>3, <3>2 DEF Offer
      <4>2. inChan[h] # <<>>
        BY <3>2, RouterAssumption
      <4> QED BY <4>1, <4>2
    <3> QED BY <3>1, <3>2
  <2>7. \A j, k \in Keys : sources'[j] # None /\ sources'[j] = sources'[k] => j = k
    <3> TAKE j, k \in Keys
    <3> HAVE sources'[j] # None /\ sources'[j] = sources'[k]
    <3>1. CASE j # pkt.key /\ k # pkt.key
      BY <2>4, <3>1 DEF SilenceInv
    <3>2. CASE j = pkt.key \/ k = pkt.key
      BY <2>4, <2>5, <3>2
    <3> QED BY <3>1, <3>2
  <2>8. ASSUME NEW k \in Keys, sources'[k] # None, heard'[k] = "recent",
               inChan'[sources'[k]] = <<>>
        PROVE  lastSeen'[sources'[k]] = "recent"
    <3>1. k # pkt.key /\ sources[k] \in Handlers \ {h}
      BY <2>4, <2>5, <2>6, <2>8
    <3> QED BY <2>2, <2>4, <2>6, <2>8, <3>1 DEF SilenceInv
  <2> QED BY <2>7, <2>8 DEF SilenceInv
<1>2. CASE CleanupStale
  <2>1. /\ UNCHANGED <<heard, inChan, lastSeen>>
        /\ \A k \in Keys : sources'[k] \in {sources[k], None}
    BY <1>2 DEF CleanupStale
  <2> QED BY <2>1 DEF SilenceInv
<1>3. CASE RouterShutdown \/ RouterReturns
  BY <1>3, SilenceKept DEF RouterShutdown, RouterReturns, handlerVars
<1>4. ASSUME NEW h \in Handlers, HandlerTakes(h)
      PROVE  SilenceInv'
  <2>1. /\ UNCHANGED <<sources, heard>> /\ lastSeen'[h] = "recent"
        /\ \A x \in Handlers : x # h => inChan'[x] = inChan[x] /\ lastSeen'[x] = lastSeen[x]
    BY <1>4 DEF HandlerTakes
  <2> QED BY <2>1 DEF SilenceInv
<1>5. CASE \E h \in Handlers : HandlerFinishes(h) \/ HandlerEnds(h)
  BY <1>5, SilenceKept DEF HandlerFinishes, HandlerEnds
<1>6. ASSUME NEW k \in Keys, HeardAges(k)
      PROVE  SilenceInv'
  <2>1. /\ UNCHANGED <<sources, inChan, lastSeen>>
        /\ \A j \in Keys : heard'[j] = "recent" => heard[j] = "recent"
    BY <1>6 DEF HeardAges, handlerVars
  <2> QED BY <2>1 DEF SilenceInv
<1>7. ASSUME NEW k \in Keys, SeenAges(k)
      PROVE  SilenceInv'
  <2>1. /\ UNCHANGED <<sources, inChan, heard>>
        /\ sources[k] \in Handlers /\ (heard[k] = "old" \/ inChan[sources[k]] # <<>>)
        /\ \A x \in Handlers : x # sources[k] => lastSeen'[x] = lastSeen[x]
    BY <1>7 DEF SeenAges
  <2>2. \A j \in Keys : j # k /\ sources[j] # None => sources[j] # sources[k]
    BY <2>1, RouterAssumption DEF SilenceInv
  <2> QED BY <2>1, <2>2 DEF SilenceInv
<1>8. CASE \E h \in Handlers : HandlerTakes(h)
  BY <1>4, <1>8
<1>9. CASE \E k \in Keys : HeardAges(k) \/ SeenAges(k)
  BY <1>6, <1>7, <1>9
<1> QED BY <1>1, <1>2, <1>3, <1>5, <1>8, <1>9 DEF RouterStep

\* Only a silent source, or one whose packets wait, loses its handler.
LEMMA DropsAreSilent ==
  ASSUME RouterTypeOK, SilenceInv, RouterStep,
         NEW k \in Keys, sources[k] # None, sources'[k] # sources[k]
  PROVE  heard[k] = "old" \/ inChan[sources[k]] # <<>>
<1> USE DEF RouterTypeOK
<1>1. CASE CleanupStale
  BY <1>1 DEF CleanupStale, Stale, SilenceInv
<1>2. CASE RouterDispatch
  <2>1. Head(routerChan).key \in Keys
    BY <1>2, QueueType, PacketType DEF RouterDispatch
  <2> QED BY <1>2, <2>1 DEF RouterDispatch
<1>3. UNCHANGED sources \/ CleanupStale \/ RouterDispatch
  BY DEF RouterStep, RouterShutdown, RouterReturns, HandlerTakes, HandlerFinishes,
         HandlerEnds, HeardAges, SeenAges
<1> QED BY <1>1, <1>2, <1>3

-----------------------------------------------------------------------------
(* The listener around it: type correctness. *)

LEMMA ListenerTypeInit == ListenerInit => ListenerTypeOK
<1> SUFFICES ASSUME ListenerInit PROVE ListenerTypeOK
  OBVIOUS
<1>1. RouterTypeOK
  BY RouterTypeInit DEF ListenerInit
<1>2. rawChan \in Seq(Packet) /\ Len(rawChan) <= RawCap
  BY ListenerAssumption DEF ListenerInit
<1> QED BY <1>1, <1>2 DEF ListenerInit, ListenerTypeOK

LEMMA RouterTypeKept ==
  ASSUME RouterTypeOK, UNCHANGED vars
  PROVE  RouterTypeOK'
BY DEF vars, inputVars, handlerVars, historyVars, RouterTypeOK

LEMMA RawAppendType ==
  ASSUME NEW q \in Seq(Packet), Len(q) < RawCap, NEW pkt \in Packet
  PROVE  Append(q, pkt) \in Seq(Packet) /\ Len(Append(q, pkt)) <= RawCap
BY ListenerAssumption

LEMMA ReceiveType ==
  ASSUME ListenerTypeOK, NEW k \in Keys, NEW kind \in Kinds, Receive(k, kind)
  PROVE  ListenerTypeOK'
<1> DEFINE pkt == [n |-> sent + 1, key |-> k, kind |-> kind]
<1>1. sent + 1 \in 1 .. MaxPackets /\ sent' = sent + 1
  BY RouterAssumption DEF Receive, ListenerTypeOK, RouterTypeOK
<1>2. pkt \in Packet
  BY <1>1 DEF Packet
<1>3. \/ /\ Len(rawChan) < RawCap /\ rawChan' = Append(rawChan, pkt)
         /\ UNCHANGED <<start, arriving>>
      \/ start' = "evict" /\ arriving' = pkt /\ rawChan' = rawChan
  BY DEF Receive, startVars
<1>4. events' \in {events, events \cup {pkt}}
  BY DEF Receive
<1>5. RouterTypeOK'
  BY <1>1 DEF Receive, routerVars, handlerVars, historyVars, RouterTypeOK, ListenerTypeOK
<1>6. UNCHANGED <<rawClosed, worker, parsed, evicted>>
  BY DEF Receive, workerVars
<1> HIDE DEF pkt
<1>7. rawChan' \in Seq(Packet) /\ Len(rawChan') <= RawCap
  BY <1>2, <1>3, RawAppendType DEF ListenerTypeOK
<1>8. /\ start' \in {"receive", "evict", "workers", "router", "done"}
      /\ arriving' \in Packet \cup {None}
  BY <1>2, <1>3 DEF ListenerTypeOK
<1> QED BY <1>2, <1>4, <1>5, <1>6, <1>7, <1>8 DEF ListenerTypeOK

LEMMA EvictType ==
  ASSUME ListenerTypeOK, start = "evict" => arriving # None, Evict
  PROVE  ListenerTypeOK'
<1>1. arriving \in Packet
  BY DEF Evict, ListenerTypeOK
<1>2. CASE rawChan = <<>>
  <2>1. rawChan' = Append(rawChan, arriving) /\ evicted' = evicted
    BY <1>2 DEF Evict
  <2>2. Len(rawChan) < RawCap
    BY <1>2, ListenerAssumption
  <2>3. rawChan' \in Seq(Packet) /\ Len(rawChan') <= RawCap
    BY <1>1, <2>1, <2>2, RawAppendType DEF ListenerTypeOK
  <2> QED BY <2>1, <2>3, RouterTypeKept DEF Evict, workerVars, ListenerTypeOK
<1>3. CASE rawChan # <<>>
  <2>1. /\ rawChan' = Append(Tail(rawChan), arriving)
        /\ evicted' = evicted \cup {Head(rawChan)}
    BY <1>3 DEF Evict
  <2>2. /\ Head(rawChan) \in Packet /\ Tail(rawChan) \in Seq(Packet)
        /\ Len(Tail(rawChan)) < RawCap
    BY <1>3, QueueType, ListenerAssumption DEF ListenerTypeOK
  <2>3. rawChan' \in Seq(Packet) /\ Len(rawChan') <= RawCap
    BY <1>1, <2>1, <2>2, RawAppendType
  <2> QED BY <2>1, <2>2, <2>3, RouterTypeKept DEF Evict, workerVars, ListenerTypeOK
<1> QED BY <1>2, <1>3

LEMMA WorkerType ==
  ASSUME ListenerTypeOK, NEW w \in Workers, worker[w] = "send" => parsed[w] # None,
         WorkerTakes(w) \/ WorkerSends(w) \/ WorkerEnds(w)
  PROVE  ListenerTypeOK'
<1>1. CASE WorkerTakes(w)
  <2>1. /\ Head(rawChan) \in Packet /\ Tail(rawChan) \in Seq(Packet)
        /\ Len(Tail(rawChan)) <= RawCap
    BY <1>1, QueueType, ListenerAssumption DEF WorkerTakes, ListenerTypeOK
  <2>2. /\ worker' \in [Workers -> {"idle", "send", "done"}]
        /\ parsed' \in [Workers -> Packet \cup {None}]
    BY <1>1, <2>1 DEF WorkerTakes, workerVars, ListenerTypeOK
  <2> QED BY <1>1, <2>1, <2>2, RouterTypeKept DEF WorkerTakes, startVars, ListenerTypeOK
<1>2. CASE WorkerSends(w)
  <2>1. parsed[w] \in Packet
    BY <1>2 DEF WorkerSends, ListenerTypeOK
  <2>2. routerChan' = IF Len(routerChan) < RouterCap
                      THEN Append(routerChan, parsed[w]) ELSE routerChan
    BY <1>2 DEF WorkerSends
  <2>3. routerChan' \in Seq(Packet) /\ Len(routerChan') <= RouterCap
    BY <2>1, <2>2, AppendType DEF ListenerTypeOK, RouterTypeOK
  <2>4. panicked' \in BOOLEAN
    BY <1>2 DEF WorkerSends, ListenerTypeOK, RouterTypeOK
  <2>5. UNCHANGED <<sent, routerClosed, cancelled, router, sources, handlerVars,
                    heard, historyVars>>
    BY <1>2 DEF WorkerSends
  <2>6. RouterTypeOK'
    BY <2>3, <2>4, <2>5 DEF handlerVars, historyVars, RouterTypeOK, ListenerTypeOK
  <2>7. /\ worker' \in [Workers -> {"idle", "send", "done"}]
        /\ parsed' \in [Workers -> Packet \cup {None}]
    BY <1>2 DEF WorkerSends, ListenerTypeOK
  <2>8. UNCHANGED <<startVars, rawChan, rawClosed, evicted, events>>
    BY <1>2 DEF WorkerSends
  <2> QED BY <2>6, <2>7, <2>8 DEF startVars, ListenerTypeOK
<1>3. CASE WorkerEnds(w)
  BY <1>3, RouterTypeKept DEF WorkerEnds, startVars, ListenerTypeOK
<1> QED BY <1>1, <1>2, <1>3

-----------------------------------------------------------------------------
(* The order of the shutdown. *)

\* Whoever holds a packet has one; routerChan is closed only after every
\* worker has returned, and Start returns only after the router has.
ListenerInv ==
  /\ RouterInv
  /\ start = "evict" => arriving # None
  /\ \A w \in Workers : worker[w] = "send" => parsed[w] # None
  /\ routerClosed => /\ start \in {"router", "done"}
                     /\ \A w \in Workers : worker[w] = "done"
  /\ start \in {"router", "done"} => \A w \in Workers : worker[w] = "done"
  /\ start = "done" => router = "done"

LEMMA ListenerInvInit == ListenerInit => ListenerInv
<1> SUFFICES ASSUME ListenerInit PROVE ListenerInv
  OBVIOUS
<1>1. RouterInv /\ ~routerClosed
  BY RouterInvInit DEF ListenerInit, RouterInit
<1> QED BY <1>1 DEF ListenerInit, ListenerInv

LEMMA ListenerStep ==
  ASSUME ListenerTypeOK, ListenerInv, [ListenerNext]_listenerVars
  PROVE  ListenerTypeOK' /\ ListenerInv'
<1>1. CASE RouterStep /\ UNCHANGED upstreamVars
  <2>1. RouterTypeOK' /\ RouterInv'
    BY <1>1, RouterTypeStep, RouterInvStep DEF ListenerTypeOK, ListenerInv
  <2>2. UNCHANGED <<start, arriving, rawChan, rawClosed, worker, parsed, evicted,
                    events>>
    BY <1>1 DEF upstreamVars, startVars, workerVars
  <2>3. routerClosed' = routerClosed /\ (router = "done" => router' = "done")
    BY <1>1 DEF RouterStep, RouterDispatch, CleanupStale, RouterShutdown,
                RouterReturns, HandlerTakes, HandlerFinishes, HandlerEnds,
                HeardAges, SeenAges, inputVars
  <2> QED BY <2>1, <2>2, <2>3 DEF ListenerTypeOK, ListenerInv
<1>2. ASSUME NEW k \in Keys, NEW kind \in Kinds, Receive(k, kind)
      PROVE  ListenerTypeOK' /\ ListenerInv'
  <2>1. ListenerTypeOK'
    BY <1>2, ReceiveType
  <2>2. sent + 1 \in 1 .. MaxPackets
    BY <1>2, RouterAssumption DEF Receive, ListenerTypeOK, RouterTypeOK
  <2>3. [n |-> sent + 1, key |-> k, kind |-> kind] # None
    BY <2>2, PacketType DEF Packet
  <2>4. start' = "evict" => arriving' # None
    BY <1>2, <2>3 DEF Receive, startVars, ListenerInv
  <2>5. start = "receive" /\ start' \in {"receive", "evict"}
    BY <1>2 DEF Receive, startVars
  <2>6. UNCHANGED <<routerVars, routerClosed, workerVars>>
    BY <1>2 DEF Receive
  <2>7. RouterInv'
    BY <2>6, RouterInvKept DEF routerVars, handlerVars, ListenerInv
  <2> QED BY <2>1, <2>4, <2>5, <2>6, <2>7 DEF workerVars, ListenerInv
<1>3. CASE Evict
  <2>1. ListenerTypeOK'
    BY <1>3, EvictType DEF ListenerInv
  <2>2. RouterInv'
    BY <1>3, RouterInvKept DEF Evict, vars, handlerVars, ListenerInv
  <2> QED BY <1>3, <2>1, <2>2 DEF Evict, vars, inputVars, workerVars, ListenerInv
<1>4. CASE ReceiveEnds
  <2>1. RouterTypeOK' /\ RouterInv'
    BY <1>4, RouterTypeKept, RouterInvKept
       DEF ReceiveEnds, vars, handlerVars, ListenerTypeOK, ListenerInv
  <2> QED BY <1>4, <2>1
          DEF ReceiveEnds, vars, inputVars, workerVars, ListenerTypeOK, ListenerInv
<1>5. CASE WorkersEnded
  <2>1. RouterTypeOK'
    BY <1>5 DEF WorkersEnded, routerVars, handlerVars, historyVars, RouterTypeOK,
                ListenerTypeOK
  <2>2. RouterInv'
    BY <1>5, RouterInvKept DEF WorkersEnded, routerVars, handlerVars, ListenerInv
  <2> QED BY <1>5, <2>1, <2>2 DEF WorkersEnded, workerVars, ListenerTypeOK, ListenerInv
<1>6. CASE StartReturns
  <2>1. RouterTypeOK' /\ RouterInv'
    BY <1>6, RouterTypeKept, RouterInvKept
       DEF StartReturns, vars, handlerVars, ListenerTypeOK, ListenerInv
  <2> QED BY <1>6, <2>1
          DEF StartReturns, vars, inputVars, workerVars, ListenerTypeOK, ListenerInv
<1>7. ASSUME NEW w \in Workers, WorkerTakes(w)
      PROVE  ListenerTypeOK' /\ ListenerInv'
  <2>1. ListenerTypeOK'
    BY <1>7, WorkerType DEF ListenerInv
  <2>2. rawChan # <<>> => Head(rawChan) # None
    BY QueueType, PacketType DEF ListenerTypeOK
  <2>3. \A x \in Workers : worker'[x] = "send" => parsed'[x] # None
    BY <1>7, <2>2 DEF WorkerTakes, workerVars, ListenerTypeOK, ListenerInv
  <2>4. ~(\A x \in Workers : worker[x] = "done")
    BY <1>7 DEF WorkerTakes
  <2>5. RouterInv' /\ UNCHANGED <<start, arriving, routerClosed, router>>
    BY <1>7, RouterInvKept DEF WorkerTakes, vars, inputVars, handlerVars, startVars,
                               ListenerInv
  <2> QED BY <2>1, <2>3, <2>4, <2>5 DEF ListenerInv
<1>8. ASSUME NEW w \in Workers, WorkerSends(w)
      PROVE  ListenerTypeOK' /\ ListenerInv'
  <2>1. ListenerTypeOK'
    BY <1>8, WorkerType DEF ListenerInv
  <2>2. ~(\A x \in Workers : worker[x] = "done")
    BY <1>8 DEF WorkerSends
  <2>3. ~routerClosed /\ ~panicked'
    BY <1>8, <2>2 DEF WorkerSends, ListenerInv, RouterInv
  <2>4. UNCHANGED <<router, sources, inClosed, pc, routerClosed, start, arriving>>
    BY <1>8 DEF WorkerSends, handlerVars, startVars
  <2>5. RouterInv'
    BY <2>3, <2>4 DEF ListenerInv, RouterInv, Mapped
  <2>6. \A x \in Workers : worker'[x] = "send" => parsed'[x] # None
    BY <1>8 DEF WorkerSends, ListenerTypeOK, ListenerInv
  <2> QED BY <2>1, <2>2, <2>3, <2>4, <2>5, <2>6 DEF ListenerInv
<1>9. ASSUME NEW w \in Workers, WorkerEnds(w)
      PROVE  ListenerTypeOK' /\ ListenerInv'
  <2>1. ListenerTypeOK'
    BY <1>9, WorkerType DEF ListenerInv
  <2>2. /\ ~(\A x \in Workers : worker[x] = "done")
        /\ \A x \in Workers : worker'[x] = "send" => parsed'[x] # None
    BY <1>9 DEF WorkerEnds, ListenerTypeOK, ListenerInv
  <2>3. RouterInv' /\ UNCHANGED <<start, arriving, routerClosed, router>>
    BY <1>9, RouterInvKept DEF WorkerEnds, vars, inputVars, handlerVars, startVars,
                               ListenerInv
  <2> QED BY <2>1, <2>2, <2>3 DEF ListenerInv
<1>10. CASE CancelListener
  <2>1. RouterTypeOK' /\ RouterInv'
    BY <1>10, RouterEnvironmentType, RouterInvKept
       DEF CancelListener, Cancel, handlerVars, ListenerTypeOK, ListenerInv
  <2> QED BY <1>10, <2>1
          DEF CancelListener, Cancel, upstreamVars, startVars, workerVars,
              ListenerTypeOK, ListenerInv
<1>11. CASE UNCHANGED listenerVars
  <2>1. RouterTypeOK' /\ RouterInv'
    BY <1>11, RouterTypeKept, RouterInvKept
       DEF listenerVars, vars, handlerVars, ListenerTypeOK, ListenerInv
  <2> QED BY <1>11, <2>1
          DEF listenerVars, vars, inputVars, startVars, workerVars,
              ListenerTypeOK, ListenerInv
<1> QED BY <1>1, <1>2, <1>3, <1>4, <1>5, <1>6, <1>7, <1>8, <1>9, <1>10, <1>11
        DEF ListenerNext

LEMMA ListenerSafe == ListenerSpec => [](ListenerTypeOK /\ ListenerInv)
BY ListenerTypeInit, ListenerInvInit, ListenerStep, PTL DEF ListenerSpec

\* Every queue of the pipeline keeps to its capacity.
THEOREM ListenerTypeCorrect == ListenerSpec => []ListenerTypeOK
BY ListenerSafe, PTL

\* With any number of workers no packet is sent to routerChan or to an inChan
\* that is closed: rawChan, the workers, routerChan and the handlers are shut
\* down in an order in which nobody is left to send.
THEOREM ListenerNeverPanics == ListenerSpec => []NoPanic
<1>1. ListenerInv => NoPanic
  BY DEF ListenerInv, RouterInv, NoPanic
<1> QED BY <1>1, ListenerSafe, PTL

\* When Start has returned no worker and no handler is left that could use
\* the database.
THEOREM ListenerLeavesNothing == ListenerSpec => []NothingRunsAfterStart
<1>1. ListenerInv => NothingRunsAfterStart
  BY DEF ListenerInv, RouterInv, NothingRunsAfterStart
<1> QED BY <1>1, ListenerSafe, PTL

-----------------------------------------------------------------------------
(* Events. *)

\* What accounts for an event, and the strengthening that carries it: an event
\* is held by one place at a time only where the program counters say so, and
\* while nobody has cancelled the router runs and a handler ends only with its
\* channel closed.
Accounted(pkt) == pkt.n \in handled \/ pkt \in evicted \cup lost \/ InFlight(pkt)

EventInv ==
  /\ \A pkt \in events : pkt.kind = "Event"
  /\ start # "evict" => arriving = None
  /\ \A w \in Workers : worker[w] # "send" => parsed[w] = None
  /\ ~cancelled => start \in {"receive", "evict"} /\ router = "run"
  /\ \A h \in Handlers : pc[h] = "done" => cancelled \/ h \in inClosed

LEMMA EventInvInit == ListenerInit => EventInv /\ EventsAccountedFor
<1> SUFFICES ASSUME ListenerInit PROVE EventInv /\ EventsAccountedFor
  OBVIOUS
<1> QED BY DEF ListenerInit, RouterInit, EventInv, EventsAccountedFor

LEMMA EventInvStep ==
  ASSUME ListenerTypeOK, ListenerInv, EventInv, [ListenerNext]_listenerVars
  PROVE  EventInv'
<1> USE DEF EventInv
<1>1. ~cancelled => ~routerClosed
  BY DEF ListenerInv
<1>2. CASE RouterStep /\ UNCHANGED upstreamVars
  <2>1. UNCHANGED <<start, arriving, worker, parsed, events>>
    BY <1>2 DEF upstreamVars, startVars, workerVars
  <2>2. cancelled' = cancelled
    BY <1>2 DEF RouterStep, RouterDispatch, CleanupStale, RouterShutdown, RouterReturns,
                HandlerTakes, HandlerFinishes, HandlerEnds, HeardAges, SeenAges, inputVars
  <2>3. ~cancelled => router' = "run"
    BY <1>1, <1>2 DEF RouterStep, RouterDispatch, CleanupStale, RouterShutdown,
                RouterReturns, HandlerTakes, HandlerFinishes, HandlerEnds, HeardAges,
                SeenAges, inputVars
  <2>4. inClosed \subseteq inClosed'
    BY <1>2 DEF RouterStep, RouterDispatch, CleanupStale, RouterShutdown, RouterReturns,
                HandlerTakes, HandlerFinishes, HandlerEnds, HeardAges, SeenAges,
                handlerVars, CloseAll
  <2>5. \A h \in Handlers : pc'[h] = "done" => pc[h] = "done" \/ HandlerEnds(h)
    <3> USE DEF ListenerTypeOK, RouterTypeOK
    <3>1. CASE RouterDispatch
      BY <3>1 DEF RouterDispatch
    <3>2. CASE CleanupStale \/ RouterShutdown \/ RouterReturns
      BY <3>2 DEF CleanupStale, RouterShutdown, RouterReturns, handlerVars
    <3>3. CASE \E k \in Keys : HeardAges(k) \/ SeenAges(k)
      BY <3>3 DEF HeardAges, SeenAges, handlerVars
    <3>4. CASE \E h \in Handlers : HandlerTakes(h) \/ HandlerFinishes(h)
      BY <3>4 DEF HandlerTakes, HandlerFinishes
    <3>5. CASE \E h \in Handlers : HandlerEnds(h)
      <4>1. PICK x \in Handlers : HandlerEnds(x)
        BY <3>5
      <4>2. pc' = [pc EXCEPT ![x] = "done"]
        BY <4>1 DEF HandlerEnds
      <4> QED BY <4>1, <4>2
    <3> QED BY <1>2, <3>1, <3>2, <3>3, <3>4, <3>5 DEF RouterStep
  <2>6. \A h \in Handlers : pc'[h] = "done" => cancelled \/ h \in inClosed
    BY <2>5 DEF HandlerEnds
  <2> QED BY <2>1, <2>2, <2>3, <2>4, <2>6
<1>3. CASE \E k \in Keys, kind \in Kinds : Receive(k, kind)
  BY <1>3 DEF Receive, startVars, workerVars, routerVars, handlerVars
<1>4. CASE Evict
  BY <1>4 DEF Evict, vars, inputVars, handlerVars, workerVars
<1>5. CASE ReceiveEnds
  BY <1>5 DEF ReceiveEnds, vars, inputVars, handlerVars, workerVars
<1>6. CASE WorkersEnded
  BY <1>6 DEF WorkersEnded, routerVars, handlerVars, workerVars
<1>7. CASE StartReturns
  BY <1>7 DEF StartReturns, vars, inputVars, handlerVars, workerVars
<1>8. ASSUME NEW w \in Workers, WorkerTakes(w) \/ WorkerSends(w) \/ WorkerEnds(w)
      PROVE  EventInv'
  <2>1. UNCHANGED <<start, arriving, cancelled, router, pc, inClosed, events>>
    BY <1>8 DEF WorkerTakes, WorkerSends, WorkerEnds, vars, inputVars, handlerVars,
                startVars
  <2>2. \A x \in Workers : worker'[x] # "send" => parsed'[x] = None
    <3> USE DEF ListenerTypeOK
    <3>1. CASE WorkerTakes(w)
      BY <3>1 DEF WorkerTakes, workerVars
    <3>2. CASE WorkerSends(w)
      BY <3>2 DEF WorkerSends
    <3>3. CASE WorkerEnds(w)
      BY <3>3 DEF WorkerEnds
    <3> QED BY <1>8, <3>1, <3>2, <3>3
  <2> QED BY <2>1, <2>2
<1>9. CASE CancelListener
  BY <1>9 DEF CancelListener, Cancel, upstreamVars, startVars, workerVars, handlerVars
<1>10. CASE UNCHANGED listenerVars
  BY <1>10 DEF listenerVars, vars, inputVars, handlerVars, startVars, workerVars
<1> QED BY <1>2, <1>3, <1>4, <1>5, <1>6, <1>7, <1>8, <1>9, <1>10 DEF ListenerNext

\* What a queue holds when a packet is appended or taken.
LEMMA InAppend ==
  ASSUME NEW q \in Seq(Packet), NEW x \in Packet
  PROVE  /\ InSeq(x, Append(q, x))
         /\ \A p \in Packet : InSeq(p, q) => InSeq(p, Append(q, x))
<1>1. /\ Len(Append(q, x)) = Len(q) + 1 /\ Append(q, x)[Len(q) + 1] = x
      /\ Len(q) + 1 \in 1 .. Len(q) + 1
  OBVIOUS
<1>2. \A i \in 1 .. Len(q) : i \in 1 .. Len(q) + 1 /\ Append(q, x)[i] = q[i]
  OBVIOUS
<1> QED BY <1>1, <1>2 DEF InSeq

LEMMA InTail ==
  ASSUME NEW q \in Seq(Packet), q # <<>>, NEW p \in Packet, InSeq(p, q)
  PROVE  p = Head(q) \/ InSeq(p, Tail(q))
<1>1. PICK i \in 1 .. Len(q) : q[i] = p
  BY DEF InSeq
<1>2. CASE i = 1
  BY <1>1, <1>2
<1>3. CASE i # 1
  <2>1. i - 1 \in 1 .. Len(Tail(q)) /\ Tail(q)[i - 1] = p
    BY <1>1, <1>3
  <2> QED BY <2>1 DEF InSeq
<1> QED BY <1>2, <1>3

\* An event stays accounted for in a step of the router or of a handler.
LEMMA RouterKeepsEvent ==
  ASSUME ListenerTypeOK, ListenerInv, EventInv, RouterStep, UNCHANGED upstreamVars,
         ~cancelled, NEW pkt \in Packet, Accounted(pkt)
  PROVE  Accounted(pkt)'
<1>1. UNCHANGED <<arriving, rawChan, parsed, evicted>>
  BY DEF upstreamVars, startVars, workerVars
<1>2. RouterTypeOK /\ RouterInv
  BY DEF ListenerTypeOK, ListenerInv
<1> DEFINE Held(h) == pc[h] # "done" /\ (InSeq(pkt, inChan[h]) \/ current[h] = pkt)
<1>3. /\ handled \subseteq handled' /\ lost \subseteq lost'
      /\ InSeq(pkt, routerChan) =>
           InSeq(pkt, routerChan') \/ pkt \in lost' \/ \E h \in Handlers : Held(h)'
      /\ \A h \in Handlers : Held(h) => Held(h)' \/ pkt.n \in handled'
  <2>1. CASE RouterDispatch
    <3> DEFINE hd == Head(routerChan)
    <3>1. /\ hd \in Packet /\ hd.key \in Keys
          /\ routerChan # <<>> /\ routerChan' = Tail(routerChan)
          /\ UNCHANGED <<current, handled>>
      BY <2>1, <1>2, QueueType, PacketType DEF RouterDispatch, RouterTypeOK
    <3>2. PICK h \in Handlers :
            /\ Offer(h, hd) /\ pc[h] # "done" /\ pc'[h] # "done"
            /\ \A x \in Handlers : x # h => pc'[x] = pc[x]
      <4>1. CASE sources[hd.key] # None
        <5>1. /\ sources[hd.key] \in Handlers /\ pc' = pc
              /\ Offer(sources[hd.key], hd)
          BY <2>1, <3>1, <4>1, <1>2 DEF RouterDispatch, RouterTypeOK
        <5>2. pc[sources[hd.key]] # "done"
          BY <1>2, <3>1, <4>1, <5>1, MappedMember DEF EventInv, RouterInv
        <5> QED BY <5>1, <5>2
      <4>2. CASE sources[hd.key] = None
        <5>1. PICK h \in Handlers :
                /\ pc[h] = "absent" /\ pc' = [pc EXCEPT ![h] = "select"] /\ Offer(h, hd)
          BY <2>1, <4>2 DEF RouterDispatch
        <5> QED BY <1>2, <5>1 DEF RouterTypeOK
      <4> QED BY <4>1, <4>2
    <3>3. handled' = handled /\ lost \subseteq lost'
      BY <3>1, <3>2 DEF Offer
    <3>4. /\ \A x \in Handlers : InSeq(pkt, inChan[x]) => InSeq(pkt, inChan'[x])
          /\ InSeq(hd, inChan'[h]) \/ hd \in lost'
      <4>1. CASE Len(inChan[h]) < InCap
        <5>1. inChan' = [inChan EXCEPT ![h] = Append(inChan[h], hd)]
          BY <3>2, <4>1 DEF Offer
        <5>2. inChan[h] \in Seq(Packet) /\ inChan \in [Handlers -> Seq(Packet)]
          BY <1>2 DEF RouterTypeOK
        <5>3. /\ inChan'[h] = Append(inChan[h], hd)
              /\ \A x \in Handlers : x # h => inChan'[x] = inChan[x]
          BY <5>1, <5>2
        <5>4. /\ InSeq(hd, inChan'[h])
              /\ InSeq(pkt, inChan[h]) => InSeq(pkt, inChan'[h])
          BY <3>1, <5>2, <5>3, InAppend
        <5> HIDE DEF hd
        <5> QED BY <5>3, <5>4
      <4>2. CASE ~(Len(inChan[h]) < InCap)
        BY <3>2, <4>2 DEF Offer
      <4> QED BY <4>1, <4>2
    <3>5. InSeq(pkt, routerChan) => pkt = hd \/ InSeq(pkt, routerChan')
      BY <1>2, <3>1, InTail DEF RouterTypeOK
    <3>6. \A x \in Handlers : Held(x) => Held(x)'
      BY <3>1, <3>2, <3>4
    <3>7. pkt = hd => pkt \in lost' \/ Held(h)'
      BY <3>2, <3>4
    <3> QED BY <3>3, <3>5, <3>6, <3>7
  <2>2. CASE CleanupStale \/ RouterShutdown \/ RouterReturns
    BY <2>2 DEF CleanupStale, RouterShutdown, RouterReturns, handlerVars, inputVars,
                historyVars
  <2>3. CASE \E k \in Keys : HeardAges(k) \/ SeenAges(k)
    BY <2>3 DEF HeardAges, SeenAges, handlerVars, inputVars, historyVars
  <2>4. ASSUME NEW h \in Handlers, HandlerTakes(h)
        PROVE  /\ UNCHANGED <<routerChan, handled, lost>>
               /\ \A x \in Handlers : Held(x) => Held(x)'
    <3>1. /\ pc[h] = "select" /\ inChan[h] # <<>> /\ inChan[h] \in Seq(Packet)
          /\ inChan' = [inChan EXCEPT ![h] = Tail(inChan[h])]
          /\ current' = [current EXCEPT ![h] = Head(inChan[h])]
          /\ pc' = [pc EXCEPT ![h] = "busy"]
      BY <2>4, <1>2 DEF HandlerTakes, RouterTypeOK
    <3>2. current[h] = None /\ pkt # None
      BY <1>2, <3>1, PacketType DEF RouterTypeOK
    <3>3. /\ inChan'[h] = Tail(inChan[h]) /\ current'[h] = Head(inChan[h])
          /\ pc'[h] = "busy"
          /\ \A x \in Handlers : x # h =>
               inChan'[x] = inChan[x] /\ current'[x] = current[x] /\ pc'[x] = pc[x]
      BY <1>2, <3>1 DEF RouterTypeOK
    <3>4. Held(h) => Held(h)'
      BY <3>1, <3>2, <3>3, InTail
    <3>5. UNCHANGED <<routerChan, handled, lost>>
      BY <2>4 DEF HandlerTakes, inputVars, historyVars
    <3> QED BY <3>3, <3>4, <3>5
  <2>5. ASSUME NEW h \in Handlers, HandlerFinishes(h)
        PROVE  /\ UNCHANGED <<routerChan, lost>> /\ handled \subseteq handled'
               /\ \A x \in Handlers : Held(x) => Held(x)' \/ pkt.n \in handled'
    <3>1. /\ current' = [current EXCEPT ![h] = None] /\ inChan' = inChan
          /\ pc' = [pc EXCEPT ![h] = "select"]
          /\ handled' = handled \cup {current[h].n}
          /\ UNCHANGED <<routerChan, lost>>
      BY <2>5 DEF HandlerFinishes, inputVars
    <3>2. /\ pc'[h] = "select"
          /\ \A x \in Handlers : x # h => current'[x] = current[x] /\ pc'[x] = pc[x]
      BY <1>2, <3>1 DEF RouterTypeOK
    <3>3. Held(h) => Held(h)' \/ pkt.n \in handled'
      BY <3>1, <3>2
    <3> QED BY <3>1, <3>2, <3>3
  <2>6. ASSUME NEW h \in Handlers, HandlerEnds(h)
        PROVE  /\ UNCHANGED <<routerChan, handled, lost>>
               /\ \A x \in Handlers : Held(x) => Held(x)'
    <3>1. /\ pc[h] = "select" /\ inChan[h] = <<>> /\ pc' = [pc EXCEPT ![h] = "done"]
          /\ UNCHANGED <<inChan, current, routerChan, handled, lost>>
      BY <2>6 DEF HandlerEnds, inputVars, historyVars
    <3>2. current[h] # pkt /\ ~InSeq(pkt, inChan[h])
      BY <1>2, <3>1, PacketType DEF RouterTypeOK, InSeq
    <3>3. \A x \in Handlers : x # h => pc'[x] = pc[x]
      BY <1>2, <3>1 DEF RouterTypeOK
    <3> QED BY <3>1, <3>2, <3>3
  <2> HIDE DEF Held
  <2>7. CASE \E h \in Handlers : HandlerTakes(h)
    BY <2>4, <2>7
  <2>8. CASE \E h \in Handlers : HandlerFinishes(h)
    BY <2>5, <2>8
  <2>9. CASE \E h \in Handlers : HandlerEnds(h)
    BY <2>6, <2>9
  <2> QED BY <2>1, <2>2, <2>3, <2>7, <2>8, <2>9 DEF RouterStep
<1> QED BY <1>1, <1>3 DEF Accounted, InFlight

\* And in a step of the listener.
LEMMA ListenerKeepsEvent ==
  ASSUME ListenerTypeOK, ListenerInv, EventInv, [ListenerNext]_listenerVars,
         ~cancelled, NEW pkt \in Packet, pkt.kind = "Event", Accounted(pkt)
  PROVE  Accounted(pkt)'
<1> pkt # None
  BY PacketType
<1>1. CASE RouterStep /\ UNCHANGED upstreamVars
  BY <1>1, RouterKeepsEvent
<1>2. CASE \E k \in Keys, kind \in Kinds : Receive(k, kind)
  <2>1. PICK k \in Keys, kind \in Kinds : Receive(k, kind)
    BY <1>2
  <2> DEFINE new == [n |-> sent + 1, key |-> k, kind |-> kind]
  <2>2. UNCHANGED <<handled, lost, evicted, parsed, routerChan, inChan, pc, current>>
    BY <2>1 DEF Receive, routerVars, handlerVars, historyVars, workerVars
  <2>3. arriving # pkt
    BY <2>1 DEF Receive, EventInv
  <2>4. InSeq(pkt, rawChan) => InSeq(pkt, rawChan')
    <3>1. new \in Packet
      BY <2>1, RouterAssumption DEF Receive, ListenerTypeOK, RouterTypeOK, Packet
    <3> HIDE DEF new
    <3>2. rawChan' = rawChan \/ rawChan' = Append(rawChan, new)
      BY <2>1 DEF Receive, new
    <3> QED BY <3>1, <3>2, InAppend DEF ListenerTypeOK
  <2> QED BY <2>2, <2>3, <2>4 DEF Accounted, InFlight
<1>3. CASE Evict
  <2>1. UNCHANGED <<handled, lost, parsed, routerChan, inChan, pc, current>>
    BY <1>3 DEF Evict, vars, inputVars, handlerVars, historyVars, workerVars
  <2>2. /\ arriving \in Packet /\ rawChan \in Seq(Packet)
        /\ evicted \subseteq evicted'
    BY <1>3 DEF Evict, ListenerTypeOK, ListenerInv
  <2>3. CASE rawChan = <<>>
    <3>1. rawChan' = Append(<<>>, arriving) /\ ~InSeq(pkt, rawChan)
      BY <1>3, <2>3 DEF Evict, InSeq
    <3>2. InSeq(arriving, rawChan')
      BY <2>2, <2>3, <3>1, InAppend
    <3> QED BY <2>1, <2>2, <3>1, <3>2 DEF Accounted, InFlight
  <2>4. CASE rawChan # <<>>
    <3>1. /\ rawChan' = Append(Tail(rawChan), arriving) /\ Head(rawChan) \in evicted'
          /\ Tail(rawChan) \in Seq(Packet)
      BY <1>3, <2>2, <2>4, QueueType DEF Evict
    <3>2. InSeq(pkt, rawChan) => pkt \in evicted' \/ InSeq(pkt, rawChan')
      BY <2>2, <2>4, <3>1, InTail, InAppend
    <3>3. InSeq(arriving, rawChan')
      BY <2>2, <3>1, InAppend
    <3> QED BY <2>1, <2>2, <3>2, <3>3 DEF Accounted, InFlight
  <2> QED BY <2>3, <2>4
<1>4. CASE ReceiveEnds \/ WorkersEnded \/ StartReturns
  BY <1>4 DEF ReceiveEnds, WorkersEnded, StartReturns, vars, inputVars, routerVars,
              handlerVars, historyVars, workerVars, Accounted, InFlight
<1>5. ASSUME NEW w \in Workers, WorkerTakes(w)
      PROVE  Accounted(pkt)'
  <2>1. UNCHANGED <<handled, lost, evicted, arriving, routerChan, inChan, pc, current>>
    BY <1>5 DEF WorkerTakes, vars, inputVars, handlerVars, historyVars, startVars
  <2>2. /\ rawChan \in Seq(Packet) /\ rawChan # <<>> /\ rawChan' = Tail(rawChan)
        /\ parsed[w] = None /\ parsed \in [Workers -> Packet \cup {None}]
    BY <1>5 DEF WorkerTakes, ListenerTypeOK, EventInv
  <2>3. pkt = Head(rawChan) => parsed'[w] = pkt
    BY <1>5, <2>2 DEF WorkerTakes
  <2>4. \A x \in Workers : parsed[x] = pkt => parsed'[x] = pkt
    BY <1>5, <2>2 DEF WorkerTakes, workerVars
  <2>5. InSeq(pkt, rawChan) => pkt = Head(rawChan) \/ InSeq(pkt, rawChan')
    BY <2>2, InTail
  <2> QED BY <2>1, <2>3, <2>4, <2>5 DEF Accounted, InFlight
<1>6. ASSUME NEW w \in Workers, WorkerSends(w)
      PROVE  Accounted(pkt)'
  <2>1. UNCHANGED <<handled, lost, evicted, arriving, rawChan, inChan, pc, current>>
    BY <1>6 DEF WorkerSends, handlerVars, historyVars, startVars
  <2>2. /\ routerChan \in Seq(Packet) /\ ~routerClosed
        /\ parsed[w] \in Packet /\ parsed \in [Workers -> Packet \cup {None}]
    BY <1>6 DEF WorkerSends, ListenerTypeOK, RouterTypeOK, ListenerInv
  <2>3. \A x \in Workers : x # w => parsed'[x] = parsed[x]
    BY <1>6, <2>2 DEF WorkerSends
  <2>4. InSeq(pkt, routerChan) => InSeq(pkt, routerChan')
    BY <1>6, <2>2, InAppend DEF WorkerSends
  <2>5. parsed[w] = pkt => InSeq(pkt, routerChan')
    BY <1>6, <2>2, InAppend DEF WorkerSends
  <2> QED BY <2>1, <2>3, <2>4, <2>5 DEF Accounted, InFlight
<1>7. CASE \E w \in Workers : WorkerEnds(w)
  BY <1>7 DEF WorkerEnds, vars, inputVars, handlerVars, historyVars, startVars,
              Accounted, InFlight
<1>8. CASE CancelListener
  BY <1>8 DEF CancelListener, Cancel, upstreamVars, startVars, workerVars, handlerVars,
              historyVars, Accounted, InFlight
<1>9. CASE UNCHANGED listenerVars
  BY <1>9 DEF listenerVars, vars, inputVars, handlerVars, historyVars, startVars,
              workerVars, Accounted, InFlight
<1> QED
  BY <1>1, <1>2, <1>3, <1>4, <1>5, <1>6, <1>7, <1>8, <1>9 DEF ListenerNext

LEMMA EventStep ==
  ASSUME ListenerTypeOK, ListenerTypeOK', ListenerInv, EventInv, EventInv',
         EventsAccountedFor, [ListenerNext]_listenerVars
  PROVE  EventsAccountedFor'
<1> SUFFICES ASSUME ~cancelled', NEW pkt \in events'
             PROVE  Accounted(pkt)'
  BY DEF EventsAccountedFor, Accounted
<1>1. pkt \in Packet /\ pkt.kind = "Event"
  BY DEF ListenerTypeOK, EventInv
<1>2. ~cancelled
  BY DEF ListenerNext, RouterStep, RouterDispatch, CleanupStale, RouterShutdown,
         RouterReturns, HandlerTakes, HandlerFinishes, HandlerEnds, HeardAges, SeenAges,
         Receive, Evict, ReceiveEnds, WorkersEnded, StartReturns, WorkerTakes,
         WorkerSends, WorkerEnds, CancelListener, Cancel, listenerVars, vars, inputVars
<1>3. CASE pkt \in events
  BY <1>1, <1>2, <1>3, ListenerKeepsEvent DEF EventsAccountedFor, Accounted
<1>4. CASE pkt \notin events
  <2>1. PICK k \in Keys, kind \in Kinds : Receive(k, kind)
    BY <1>4 DEF ListenerNext, Evict, ReceiveEnds, WorkersEnded, StartReturns,
                WorkerTakes, WorkerSends, WorkerEnds, CancelListener, upstreamVars,
                listenerVars
  <2>2. pkt = [n |-> sent + 1, key |-> k, kind |-> kind]
    BY <1>4, <2>1 DEF Receive
  <2>3. rawChan' = Append(rawChan, pkt) \/ arriving' = pkt
    BY <2>1, <2>2 DEF Receive
  <2>4. InSeq(pkt, rawChan') \/ pkt = arriving'
    BY <1>1, <2>3, InAppend DEF ListenerTypeOK
  <2> QED BY <2>4 DEF Accounted, InFlight
<1> QED BY <1>3, <1>4

\* With any number of workers, sources and handlers an event that was received
\* is lost nowhere but in a full rawChan or a full inChan.
THEOREM ListenerLosesNoEvent == ListenerSpec => []EventsAccountedFor
<1> DEFINE Inv == ListenerTypeOK /\ ListenerInv /\ EventInv /\ EventsAccountedFor
<1>1. ListenerInit => Inv
  BY ListenerTypeInit, ListenerInvInit, EventInvInit
<1>2. Inv /\ [ListenerNext]_listenerVars => Inv'
  BY ListenerStep, EventInvStep, EventStep
<1>3. Inv => EventsAccountedFor
  OBVIOUS
<1> QED BY <1>1, <1>2, <1>3, PTL DEF ListenerSpec

LEMMA ListenerSilence ==
  ASSUME ListenerTypeOK, ListenerInv, SilenceInv, [ListenerNext]_listenerVars
  PROVE  SilenceInv'
<1>1. RouterStep \/ UNCHANGED <<sources, heard, inChan, lastSeen>>
  BY DEF ListenerNext, Receive, Evict, ReceiveEnds, WorkersEnded, StartReturns,
         WorkerTakes, WorkerSends, WorkerEnds, CancelListener, Cancel, listenerVars, vars,
         routerVars, handlerVars
<1> QED BY <1>1, SilenceStep, SilenceKept DEF ListenerTypeOK, ListenerInv

\* A handler that keeps up with its queue is dropped as stale only when its
\* source has been silent, for any number of sources and handlers.
THEOREM ListenerDropsSilent == ListenerSpec => IdleHandlerWasSilent
<1> DEFINE Inv == ListenerTypeOK /\ ListenerInv /\ SilenceInv
           Drop(k) == sources[k] # None /\ sources'[k] # sources[k]
                        => heard[k] = "old" \/ inChan[sources[k]] # <<>>
<1>1. ListenerInit => Inv
  BY ListenerTypeInit, ListenerInvInit, SilenceInit DEF ListenerInit
<1>2. Inv /\ [ListenerNext]_listenerVars => Inv'
  BY ListenerStep, ListenerSilence
<1>3. Inv /\ [ListenerNext]_listenerVars => [\A k \in Keys : Drop(k)]_vars
  <2> SUFFICES ASSUME Inv, [ListenerNext]_listenerVars, NEW k \in Keys,
                      sources[k] # None, sources'[k] # sources[k]
               PROVE  heard[k] = "old" \/ inChan[sources[k]] # <<>>
    OBVIOUS
  <2>1. RouterStep
    BY DEF ListenerNext, Receive, Evict, ReceiveEnds, WorkersEnded, StartReturns,
           WorkerTakes, WorkerSends, WorkerEnds, CancelListener, Cancel, listenerVars,
           vars, routerVars
  <2> QED BY <2>1, DropsAreSilent DEF ListenerTypeOK
<1> QED BY <1>1, <1>2, <1>3, PTL DEF ListenerSpec, IdleHandlerWasSilent
=============================================================================
