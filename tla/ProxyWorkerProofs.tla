------------------------- MODULE ProxyWorkerProofs -------------------------
(***************************************************************************)
(* Proofs about ProxyWorker for every slab size and set of connections,    *)
(* with or without descriptors running out.                                *)
(***************************************************************************)
EXTENDS ProxyWorker, FiniteSetTheorems, TLAPS

\* The tables a handler reads and writes, and nothing of the loop around it.
TablesOK ==
    /\ flows \in [Slot -> Flow]
    /\ res \in Resources
    /\ refused \subseteq Conns
    /\ SlabConsistent
    /\ HoldingsMatchState

LoopOK ==
    /\ phase \in {"wait", "batch", "accept", "retry", "sweep"}
    /\ batch \subseteq Event
    /\ listen \in BOOLEAN
    /\ pending \subseteq Slot
    /\ fresh \subseteq Conns
    /\ backlog \subseteq Conns
    /\ edge \in BOOLEAN

\* The slots still listed for maintain are live: nothing but maintain itself
\* closes a flow between the listing and the visit.
PendingLive ==
    \A i \in pending : /\ flows[i].live
                       /\ phase \in {"retry", "sweep"}
                       /\ phase = "retry" => flows[i].retry

IInv == TablesOK /\ LoopOK /\ PendingLive

\* One flow's part of HoldingsMatchState.
Shape(f) ==
    /\ f.conn # NoConn <=> f.live
    /\ f.counted <=> f.live /\ f.state # "Peeking"
    /\ f.up # "none" <=> f.live /\ f.state # "Peeking"
    /\ f.piped <=> f.live /\ f.state = "Relaying"
    /\ f.retry => f.piped

\* What a handler may assume of its slot, flow and resources: the slot is its
\* own, that is, neither free nor held by anyone else.
Handed(i, r) ==
    /\ i \in Slot
    /\ r \in Resources
    /\ {r.free[k] : k \in DOMAIN r.free} = {j \in Slot : j # i /\ ~flows[j].live}
    /\ \A j, k \in DOMAIN r.free : r.free[j] = r.free[k] => j = k

Tables == flows \in [Slot -> Flow] /\ refused \subseteq Conns /\ HoldingsMatchState

LEMMA SlotFacts == Slot \subseteq Nat /\ PipeLimit \in Nat
  BY WorkerAssumption DEF Slot, PipeLimit

\* Keeping a well-shaped live flow in its own slot preserves the tables.
LEMMA KeepPreserves ==
  ASSUME NEW i, NEW f, NEW r, Tables, Handed(i, r),
         f \in Flow, f.live, Shape(f), Keep(i, f, r)
  PROVE  TablesOK'
  <1>1. flows' \in [Slot -> Flow] /\ res' \in Resources /\ refused' \subseteq Conns
    BY DEF Keep, Tables, Handed
  <1>2. \A j \in Slot : flows'[j] = IF j = i THEN f ELSE flows[j]
    BY DEF Keep, Tables, Handed
  <1>3. HoldingsMatchState'
    BY <1>2 DEF HoldingsMatchState, Shape, Tables, Handed
  <1>4. SlabConsistent'
    BY <1>2 DEF SlabConsistent, FreeSlots, LiveSlots, Keep, Handed
  <1> QED
    BY <1>1, <1>3, <1>4 DEF TablesOK

\* Recycling touches nothing but the two pool counters.
LEMMA RecycleFacts ==
  ASSUME NEW f, NEW r \in Resources, NEW q \in Recycle(f, r)
  PROVE  q \in Resources /\ q.free = r.free /\ q.active = r.active
  <1>1. CASE ~f.piped
    BY <1>1 DEF Recycle
  <1>2. CASE f.piped
    <2>1. PICK dirty \in 0..2 :
            q = [r EXCEPT !.idle = r.idle + (2 - dirty),
                          !.made = IF r.made > dirty THEN r.made - dirty ELSE 0]
      BY <1>2 DEF Recycle
    <2>2. r.idle + (2 - dirty) \in Nat
      BY DEF Resources
    <2>3. (IF r.made > dirty THEN r.made - dirty ELSE 0) \in Nat
      BY DEF Resources
    <2> QED
      BY <2>1, <2>2, <2>3 DEF Resources
  <1> QED
    BY <1>1, <1>2

\* Nor does acquiring, whether or not it succeeds.
LEMMA AcquireFacts ==
  ASSUME NEW r \in Resources, NEW got \in Acquire(r)
  PROVE  got.res \in Resources /\ got.res.free = r.free /\ got.res.active = r.active
  BY SlotFacts DEF Acquire, Resources

LEMMA AcquirePairFacts ==
  ASSUME NEW r \in Resources, NEW got \in AcquirePair(r)
  PROVE  got.res \in Resources /\ got.res.free = r.free /\ got.res.active = r.active
  <1>1. PICK a \in Acquire(r) : got \in {[ok |-> a.ok /\ b.ok, res |-> b.res] : b \in Acquire(a.res)}
    BY DEF AcquirePair
  <1>2. PICK b \in Acquire(a.res) : got = [ok |-> a.ok /\ b.ok, res |-> b.res]
    BY <1>1
  <1>3. a.res \in Resources /\ a.res.free = r.free /\ a.res.active = r.active
    BY AcquireFacts
  <1>4. b.res \in Resources /\ b.res.free = a.res.free /\ b.res.active = a.res.active
    BY <1>3, AcquireFacts
  <1> QED
    BY <1>2, <1>3, <1>4

\* Handed does not depend on the pool.
LEMMA HandedSameFree ==
  ASSUME NEW i, NEW r, NEW q \in Resources, Handed(i, r), q.free = r.free
  PROVE  Handed(i, q)
  BY DEF Handed

\* Vacating the slot a handler was given and pushing it preserves the tables.
LEMMA TeardownPreserves ==
  ASSUME NEW i, NEW f, NEW r, Tables, Handed(i, r), f \in Flow, Teardown(i, f, r)
  PROVE  /\ flows' \in [Slot -> Flow]
         /\ res' \in Resources
         /\ SlabConsistent'
         /\ HoldingsMatchState'
  <1> DEFINE g == Vacated(f)
  <1>1. PICK q \in Recycle(f, r) :
          res' = [q EXCEPT !.free = Append(@, i),
                           !.active = IF f.counted /\ @ > 0 THEN @ - 1 ELSE @]
    BY DEF Teardown
  <1>2. r \in Resources /\ i \in Slot
    BY DEF Handed
  <1>3. q \in Resources /\ q.free = r.free
    BY <1>2, RecycleFacts
  <1>4. g \in Flow /\ Shape(g) /\ ~g.live
    BY WorkerAssumption DEF Flow, Shape, Vacated
  <1>5. flows' = [flows EXCEPT ![i] = g]
    BY DEF Teardown
  <1>6. res'.free = Append(r.free, i) /\ r.free \in Seq(Slot)
    BY <1>1, <1>2, <1>3 DEF Resources
  <1>7. res' \in Resources
    <2> DEFINE gauge == IF f.counted /\ q.active > 0 THEN q.active - 1 ELSE q.active
    <2>1. Append(q.free, i) \in Seq(Slot) /\ q.idle \in Nat /\ q.made \in Nat
      BY <1>2, <1>3 DEF Resources
    <2>2. gauge \in Nat
      BY <1>3 DEF Resources
    <2>3. res' = [q EXCEPT !.free = Append(q.free, i), !.active = gauge]
      BY <1>1
    <2> QED
      BY <1>3, <2>1, <2>2, <2>3 DEF Resources
  <1>8. \A j \in Slot : flows'[j] = IF j = i THEN g ELSE flows[j]
    BY <1>5 DEF Tables
  <1>9. HoldingsMatchState'
    BY <1>4, <1>8 DEF HoldingsMatchState, Shape, Tables
  <1>10. /\ DOMAIN res'.free = 1..(Len(r.free) + 1)
         /\ DOMAIN r.free = 1..Len(r.free)
         /\ Len(r.free) \in Nat
         /\ \A k \in 1..Len(r.free) : res'.free[k] = r.free[k]
         /\ res'.free[Len(r.free) + 1] = i
    BY <1>2, <1>6
  <1>11. \A k \in DOMAIN r.free : r.free[k] # i
    BY DEF Handed
  <1>12. SlabConsistent'
    <2>1. FreeSlots' = {r.free[k] : k \in DOMAIN r.free} \cup {i}
      BY <1>10 DEF FreeSlots
    <2>2. LiveSlots' = {j \in Slot : j # i /\ flows[j].live}
      BY <1>4, <1>8 DEF LiveSlots
    <2>3. FreeSlots' = Slot \ LiveSlots'
      BY <1>2, <2>1, <2>2 DEF Handed
    <2>4. \A j, k \in DOMAIN res'.free : res'.free[j] = res'.free[k] => j = k
      BY <1>10, <1>11 DEF Handed
    <2> QED
      BY <2>3, <2>4 DEF SlabConsistent
  <1> QED
    BY <1>4, <1>5, <1>7, <1>9, <1>12 DEF Tables

LEMMA ClosePreserves ==
  ASSUME NEW i, NEW f, NEW r, Tables, Handed(i, r), f \in Flow, f.live, Close(i, f, r)
  PROVE  TablesOK'
  <1>1. Teardown(i, f, r) /\ refused' = refused
    BY DEF Close
  <1> QED
    BY <1>1, TeardownPreserves DEF TablesOK, Tables

-----------------------------------------------------------------------------
(* The handlers, innermost first *)

LEMMA RelayPreserves ==
  ASSUME NEW i, NEW f, NEW r, Tables, Handed(i, r), f \in Flow, f.live,
         f.conn # NoConn, f.state = "Relaying", f.piped, f.counted, f.up # "none", Relay(i, f, r)
  PROVE  TablesOK'
  <1>1. CASE Close(i, f, r)
    BY <1>1, ClosePreserves
  <1>2. ASSUME NEW moved \in BOOLEAN, NEW throttled \in BOOLEAN,
               Keep(i, [f EXCEPT !.quiet = @ /\ ~moved, !.retry = throttled], r)
        PROVE  TablesOK'
    <2> DEFINE g == [f EXCEPT !.quiet = @ /\ ~moved, !.retry = throttled]
    <2>1. g \in Flow /\ g.live /\ Shape(g)
      BY WorkerAssumption DEF Flow, Shape
    <2> QED
      BY <1>2, <2>1, KeepPreserves
  <1> QED
    BY <1>1, <1>2 DEF Relay

LEMMA ConnectedPreserves ==
  ASSUME NEW i, NEW f, NEW r, NEW failed, Tables, Handed(i, r), f \in Flow, f.live,
         f.counted, f.up # "none", f.conn # NoConn, Connected(i, f, r, failed)
  PROVE  TablesOK'
  <1>1. CASE Close(i, f, r)
    BY <1>1, ClosePreserves
  <1>2. ASSUME NEW got \in AcquirePair(r), got.ok,
               Relay(i, [f EXCEPT !.piped = TRUE, !.state = "Relaying", !.quiet = FALSE], got.res)
        PROVE  TablesOK'
    <2> DEFINE g == [f EXCEPT !.piped = TRUE, !.state = "Relaying", !.quiet = FALSE]
    <2>1. /\ g \in Flow /\ g.live /\ g.state = "Relaying" /\ g.piped /\ g.counted
          /\ g.up # "none" /\ g.conn # NoConn
      BY DEF Flow
    <2>2. Handed(i, got.res)
      BY AcquirePairFacts, HandedSameFree DEF Handed
    <2> QED
      BY <1>2, <2>1, <2>2, RelayPreserves
  <1>3. ASSUME NEW got \in AcquirePair(r), Teardown(i, f, got.res),
               refused' = refused \cup {f.conn}
        PROVE  TablesOK'
    <2>1. Handed(i, got.res)
      BY AcquirePairFacts, HandedSameFree DEF Handed
    <2>2. refused' \subseteq Conns
      BY <1>3 DEF Tables, Flow
    <2> QED
      BY <1>3, <2>1, <2>2, TeardownPreserves DEF TablesOK
  <1> QED
    BY <1>1, <1>2, <1>3 DEF Connected

LEMMA OpenUpstreamPreserves ==
  ASSUME NEW i, NEW f, NEW r, Tables, Handed(i, r), f \in Flow, f.live, ~f.piped, ~f.retry,
         f.counted, f.conn # NoConn, OpenUpstream(i, f, r)
  PROVE  TablesOK'
  <1> DEFINE g == [f EXCEPT !.state = "Connecting", !.quiet = FALSE]
             h == [g EXCEPT !.up = "inflight"]
             e == [g EXCEPT !.up = "established"]
  <1>1. CASE Close(i, f, r)
    BY <1>1, ClosePreserves
  <1>2. CASE Keep(i, h, r)
    <2>1. h \in Flow /\ h.live /\ Shape(h)
      BY WorkerAssumption DEF Flow, Shape
    <2> QED
      BY <1>2, <2>1, KeepPreserves
  <1>3. CASE Connected(i, e, r, FALSE)
    <2>1. e \in Flow /\ e.live /\ e.counted /\ e.up # "none" /\ e.conn # NoConn
      BY DEF Flow
    <2> QED
      BY <1>3, <2>1, ConnectedPreserves
  <1> QED
    BY <1>1, <1>2, <1>3 DEF OpenUpstream

LEMMA PeekPreserves ==
  ASSUME NEW i, NEW f, NEW r, Tables, Handed(i, r), f \in Flow, f.live, Shape(f),
         f.state = "Peeking", Peek(i, f, r)
  PROVE  TablesOK'
  <1>1. CASE Close(i, f, r)
    BY <1>1, ClosePreserves
  <1>2. CASE Keep(i, f, r)
    BY <1>2, KeepPreserves
  <1> DEFINE g == [f EXCEPT !.quiet = FALSE]
  <1>3. g \in Flow /\ g.live /\ Shape(g) /\ g.conn # NoConn /\ ~g.piped /\ ~g.retry
    BY WorkerAssumption DEF Flow, Shape
  <1>4. CASE Keep(i, g, r)
    BY <1>3, <1>4, KeepPreserves
  <1>5. CASE Decide(i, g, r)
    <2> DEFINE h == [g EXCEPT !.counted = TRUE]
               q == [r EXCEPT !.active = @ + 1]
    <2>1. h \in Flow /\ h.live /\ h.counted /\ h.conn # NoConn /\ ~h.piped /\ ~h.retry
      BY <1>3 DEF Flow
    <2>2. q \in Resources /\ q.free = r.free
      BY DEF Handed, Resources
    <2>3. Handed(i, q)
      BY <2>2, HandedSameFree
    <2>4. Close(i, h, q) \/ OpenUpstream(i, h, q)
      BY <1>5 DEF Decide
    <2> QED
      BY <2>1, <2>3, <2>4, ClosePreserves, OpenUpstreamPreserves
  <1> QED
    BY <1>1, <1>2, <1>4, <1>5 DEF Peek

-----------------------------------------------------------------------------
(* The steps of the loop *)

\* A live flow's slot is its own: what flow_ready, Resume and Reap work on.
LEMMA LiveIsHanded ==
  ASSUME TablesOK, NEW i \in Slot, flows[i].live
  PROVE  /\ Tables
         /\ Handed(i, res)
         /\ flows[i] \in Flow
         /\ Shape(flows[i])
  BY DEF TablesOK, Tables, Handed, SlabConsistent, FreeSlots, LiveSlots, HoldingsMatchState,
         Shape

LEMMA FlowReadyStep ==
  ASSUME IInv, NEW e \in batch, FlowReady(e)
  PROVE  IInv'
  <1> DEFINE i == e.slot
             f == flows[i]
  <1>1. i \in Slot /\ TablesOK /\ LoopOK /\ PendingLive
    BY DEF IInv, LoopOK, Event
  <1>2. TablesOK'
    <2>1. CASE ~f.live \/ (f.state = "Connecting" /\ e.side # "upstream")
      <3>1. UNCHANGED <<flows, res, refused>>
        BY <2>1 DEF FlowReady
      <3> QED
        BY <1>1, <3>1 DEF TablesOK, SlabConsistent, FreeSlots, LiveSlots, HoldingsMatchState
    <2>2. CASE f.live /\ f.state = "Peeking"
      <3>1. Close(i, f, res) \/ Peek(i, f, res)
        BY <2>2 DEF FlowReady
      <3> QED
        BY <1>1, <2>2, <3>1, LiveIsHanded, ClosePreserves, PeekPreserves
    <2>3. CASE f.live /\ f.state = "Connecting" /\ e.side = "upstream"
      <3>1. Connected(i, f, res, e.failed)
        BY <2>3 DEF FlowReady
      <3>2. f.counted /\ f.up # "none" /\ f.conn # NoConn
        BY <1>1, <2>3, LiveIsHanded DEF Shape
      <3> QED
        BY <1>1, <2>3, <3>1, <3>2, LiveIsHanded, ConnectedPreserves
    <2>4. CASE f.live /\ f.state = "Relaying"
      <3>1. Relay(i, f, res)
        BY <2>4 DEF FlowReady
      <3>2. f.counted /\ f.up # "none" /\ f.conn # NoConn /\ f.piped
        BY <1>1, <2>4, LiveIsHanded DEF Shape
      <3> QED
        BY <1>1, <2>4, <3>1, <3>2, LiveIsHanded, RelayPreserves
    <2> QED
      BY <1>1, <2>1, <2>2, <2>3, <2>4 DEF TablesOK, Flow
  <1>3. LoopOK'
    BY <1>1 DEF LoopOK, FlowReady, kernelVars
  <1>4. PendingLive'
    BY <1>1 DEF PendingLive, FlowReady
  <1> QED
    BY <1>2, <1>3, <1>4 DEF IInv

LEMMA AcceptStep ==
  ASSUME IInv, NEW c \in backlog, Accept(c)
  PROVE  IInv'
  <1>1. TablesOK /\ LoopOK /\ PendingLive /\ c \in Conns
    BY DEF IInv, LoopOK
  <1>2. TablesOK'
    <2>1. CASE TurnAway(c)
      <3>1. UNCHANGED <<flows, res>> /\ refused' \subseteq Conns
        BY <1>1, <2>1 DEF TurnAway, TablesOK
      <3> QED
        BY <1>1, <3>1 DEF TablesOK, SlabConsistent, FreeSlots, LiveSlots, HoldingsMatchState
    <2>2. CASE Admit(c)
      <3> DEFINE n == Len(res.free)
                 i == res.free[n]
                 popped == [res EXCEPT !.free = SubSeq(@, 1, Len(@) - 1)]
                 f == [Vacant EXCEPT !.live = TRUE, !.conn = c]
      <3>1. /\ res.free \in Seq(Slot)
            /\ res.free # <<>>
            /\ n \in Nat \ {0}
            /\ DOMAIN res.free = 1..n
            /\ i \in Slot
        BY <1>1, <2>2 DEF Admit, TablesOK, Resources
      <3>2. /\ popped \in Resources
            /\ DOMAIN popped.free = 1..(n - 1)
            /\ \A k \in 1..(n - 1) : popped.free[k] = res.free[k]
        <4> DEFINE rest == SubSeq(res.free, 1, n - 1)
        <4>1. /\ rest \in Seq(Slot)
              /\ Len(rest) = n - 1
              /\ \A k \in 1..(n - 1) : rest[k] = res.free[k]
          BY <3>1
        <4>2. DOMAIN rest = 1..(n - 1)
          BY <4>1
        <4>3. popped = [res EXCEPT !.free = rest] /\ res \in Resources
          BY <1>1 DEF TablesOK
        <4> QED
          BY <4>1, <4>2, <4>3 DEF Resources
      <3>3. ~flows[i].live
        BY <1>1, <3>1 DEF TablesOK, SlabConsistent, FreeSlots, LiveSlots
      <3>4. Handed(i, popped)
        <4>1. \A k \in 1..(n - 1) : res.free[k] # i
          BY <1>1, <3>1 DEF TablesOK, SlabConsistent
        <4>2. {popped.free[k] : k \in DOMAIN popped.free} = FreeSlots \ {i}
          BY <3>1, <3>2, <4>1 DEF FreeSlots
        <4>3. FreeSlots = {j \in Slot : ~flows[j].live}
          BY <1>1 DEF TablesOK, SlabConsistent, LiveSlots
        <4>4. \A j, k \in DOMAIN popped.free : popped.free[j] = popped.free[k] => j = k
          BY <1>1, <3>1, <3>2 DEF TablesOK, SlabConsistent
        <4> QED
          BY <3>1, <3>2, <4>2, <4>3, <4>4 DEF Handed
      <3>5. f \in Flow /\ f.live /\ Shape(f) /\ f.state = "Peeking"
        BY <1>1, WorkerAssumption DEF Flow, Shape, Vacant
      <3>6. Tables
        BY <1>1 DEF TablesOK, Tables
      <3>7. CASE Peek(i, f, popped)
        BY <3>4, <3>5, <3>6, <3>7, PeekPreserves
      <3>8. CASE Keep(i, Vacant, res)
        <4>1. Vacant \in Flow /\ Shape(Vacant) /\ ~Vacant.live
          BY DEF Vacant, Flow, Shape
        <4>2. /\ flows' \in [Slot -> Flow] /\ res' = res /\ refused' = refused
              /\ \A j \in Slot : flows'[j] = IF j = i THEN Vacant ELSE flows[j]
          BY <1>1, <3>1, <3>8, <4>1 DEF Keep, TablesOK
        <4>3. LiveSlots' = LiveSlots
          BY <3>1, <3>3, <4>1, <4>2 DEF LiveSlots
        <4>4. SlabConsistent'
          BY <1>1, <4>2, <4>3 DEF TablesOK, SlabConsistent, FreeSlots
        <4>5. HoldingsMatchState'
          BY <1>1, <4>1, <4>2 DEF TablesOK, HoldingsMatchState, Shape
        <4> QED
          BY <1>1, <4>2, <4>4, <4>5 DEF TablesOK
      <3> QED
        BY <2>2, <3>7, <3>8 DEF Admit
    <2> QED
      BY <2>1, <2>2 DEF Accept
  <1>3. LoopOK'
    BY <1>1 DEF LoopOK, Accept
  <1>4. PendingLive'
    BY <1>1 DEF PendingLive, Accept
  <1> QED
    BY <1>2, <1>3, <1>4 DEF IInv

LEMMA MaintainStep ==
  ASSUME IInv, NEW i \in pending, Resume(i) \/ Reap(i)
  PROVE  IInv'
  <1> DEFINE f == flows[i]
             g == [f EXCEPT !.retry = FALSE]
  <1>1. TablesOK /\ LoopOK /\ PendingLive /\ i \in Slot /\ f.live
    BY DEF IInv, LoopOK, PendingLive
  <1>2. Tables /\ Handed(i, res) /\ f \in Flow /\ Shape(f)
    BY <1>1, LiveIsHanded
  <1>3. TablesOK'
    <2>1. CASE Resume(i)
      <3>1. f.retry
        BY <1>1, <2>1 DEF Resume, PendingLive
      <3>2. /\ g \in Flow /\ g.live /\ g.conn # NoConn /\ g.state = "Relaying"
            /\ g.piped /\ g.counted /\ g.up # "none"
        BY <1>1, <1>2, <3>1 DEF Flow, Shape
      <3> QED
        BY <1>2, <2>1, <3>2, RelayPreserves DEF Resume
    <2>2. CASE Reap(i)
      BY <1>1, <1>2, <2>2, ClosePreserves DEF Reap
    <2> QED
      BY <2>1, <2>2
  <1>4. LoopOK'
    BY <1>1 DEF LoopOK, Resume, Reap, kernelVars
  <1>5. \A j \in Slot \ {i} : flows'[j] = flows[j]
    BY <1>1, <1>2 DEF Resume, Reap, Relay, Close, Teardown, Keep, Tables
  <1>6. PendingLive'
    BY <1>1, <1>5 DEF PendingLive, LoopOK, Resume, Reap
  <1> QED
    BY <1>3, <1>4, <1>6 DEF IInv

LEMMA KernelStep ==
  ASSUME IInv, NEW i \in Slot, ConnectEnds(i) \/ GoesQuiet(i)
  PROVE  IInv'
  <1>1. TablesOK /\ LoopOK /\ PendingLive
    BY DEF IInv
  <1>2. PICK f \in Flow :
          /\ flows' = [flows EXCEPT ![i] = f]
          /\ Shape(f)
          /\ f.live = flows[i].live /\ f.retry = flows[i].retry
    <2>1. flows[i] \in Flow /\ Shape(flows[i])
      BY <1>1 DEF TablesOK, HoldingsMatchState, Shape
    <2>2. CASE ConnectEnds(i)
      <3>1. PICK outcome \in {"established", "failed"} : flows' = [flows EXCEPT ![i].up = outcome]
        BY <2>2 DEF ConnectEnds
      <3>2. flows[i].up = "inflight"
        BY <2>2 DEF ConnectEnds
      <3>3. [flows[i] EXCEPT !.up = outcome] \in Flow
        BY <2>1 DEF Flow
      <3> QED
        BY <2>1, <3>1, <3>2, <3>3 DEF Flow, Shape
    <2>3. CASE GoesQuiet(i)
      <3>1. flows' = [flows EXCEPT ![i].quiet = TRUE]
        BY <2>3 DEF GoesQuiet
      <3>2. [flows[i] EXCEPT !.quiet = TRUE] \in Flow
        BY <2>1 DEF Flow
      <3> QED
        BY <2>1, <3>1, <3>2 DEF Flow, Shape
    <2> QED
      BY <2>2, <2>3
  <1>3. \A j \in Slot : flows'[j] = IF j = i THEN f ELSE flows[j]
    BY <1>1, <1>2 DEF TablesOK
  <1>4. UNCHANGED <<res, phase, batch, listen, pending, fresh, backlog, edge, refused>>
    BY DEF ConnectEnds, GoesQuiet, kernelVars
  <1>5. flows' \in [Slot -> Flow] /\ HoldingsMatchState'
    BY <1>1, <1>2, <1>3 DEF TablesOK, HoldingsMatchState, Shape
  <1>6. LiveSlots' = LiveSlots
    BY <1>2, <1>3 DEF LiveSlots
  <1>7. TablesOK'
    BY <1>1, <1>4, <1>5, <1>6 DEF TablesOK, SlabConsistent, FreeSlots
  <1>8. PendingLive' /\ LoopOK'
    BY <1>1, <1>2, <1>3, <1>4 DEF PendingLive, LoopOK
  <1> QED
    BY <1>7, <1>8 DEF IInv

\* Steps that leave the tables alone.
LEMMA LoopStep ==
  ASSUME IInv,
         EpollWait \/ ListenerReady \/ AcceptReturns \/ MaintainRetries \/ MaintainSweep
           \/ MaintainDone \/ \E c \in Conns : Arrive(c)
  PROVE  IInv'
  <1>1. TablesOK /\ LoopOK /\ PendingLive
    BY DEF IInv
  <1>2. UNCHANGED <<flows, res, refused>>
    BY DEF EpollWait, ListenerReady, AcceptReturns, MaintainRetries, MaintainSweep,
           MaintainDone, Arrive
  <1>3. TablesOK'
    BY <1>1, <1>2 DEF TablesOK, SlabConsistent, FreeSlots, LiveSlots, HoldingsMatchState
  <1>4. \A i \in Slot : Reportable(i) \subseteq Event
    <2> SUFFICES ASSUME NEW i \in Slot, flows[i].live
                 PROVE  Reportable(i) \subseteq Event
      BY DEF Reportable
    <2>1. flows[i].conn \in Conns
      BY <1>1 DEF TablesOK, HoldingsMatchState, Flow
    <2> QED
      BY <2>1 DEF Reportable, Event, Sides
  <1>5. CASE EpollWait
    <2>1. batch' \subseteq Event
      BY <1>4, <1>5 DEF EpollWait
    <2> QED
      BY <1>1, <1>3, <1>5, <2>1 DEF EpollWait, LoopOK, PendingLive, IInv
  <1>6. CASE ListenerReady
    BY <1>1, <1>3, <1>6 DEF ListenerReady, LoopOK, PendingLive, IInv, kernelVars
  <1>7. CASE AcceptReturns
    BY <1>1, <1>3, <1>7 DEF AcceptReturns, LoopOK, PendingLive, IInv, kernelVars
  <1>8. CASE MaintainRetries
    BY <1>1, <1>3, <1>8 DEF MaintainRetries, LoopOK, PendingLive, IInv, kernelVars
  <1>9. CASE MaintainSweep
    BY <1>1, <1>3, <1>9 DEF MaintainSweep, LoopOK, PendingLive, IInv, kernelVars
  <1>10. CASE MaintainDone
    BY <1>1, <1>3, <1>10 DEF MaintainDone, LoopOK, PendingLive, IInv, kernelVars
  <1>11. ASSUME NEW c \in Conns, Arrive(c)
         PROVE  IInv'
    BY <1>1, <1>3, <1>11 DEF Arrive, LoopOK, PendingLive, IInv
  <1> QED
    BY <1>5, <1>6, <1>7, <1>8, <1>9, <1>10, <1>11

LEMMA InitIInv == Init => IInv
  <1> SUFFICES ASSUME Init PROVE IInv
    OBVIOUS
  <1> DEFINE stack == [k \in 1..Capacity |-> Capacity - k]
  <1>1. Vacant \in Flow /\ Shape(Vacant) /\ ~Vacant.live
    BY DEF Vacant, Flow, Shape
  <1>2. flows \in [Slot -> Flow] /\ HoldingsMatchState /\ LiveSlots = {}
    BY <1>1 DEF Init, HoldingsMatchState, Shape, LiveSlots
  <1>3. stack \in Seq(Slot) /\ DOMAIN stack = 1..Capacity
    BY WorkerAssumption DEF Slot
  <1>4. res \in Resources /\ res.free = stack
    BY <1>3 DEF Init, Resources
  <1>5. FreeSlots = Slot
    <2>1. FreeSlots = {Capacity - k : k \in 1..Capacity}
      BY <1>3, <1>4 DEF FreeSlots
    <2>2. \A i \in Slot : Capacity - i \in 1..Capacity /\ Capacity - (Capacity - i) = i
      BY WorkerAssumption DEF Slot
    <2>3. \A k \in 1..Capacity : Capacity - k \in Slot
      BY WorkerAssumption DEF Slot
    <2> QED
      BY <2>1, <2>2, <2>3
  <1>6. SlabConsistent
    BY <1>2, <1>3, <1>4, <1>5, WorkerAssumption DEF SlabConsistent
  <1>7. TablesOK
    BY <1>2, <1>4, <1>6 DEF TablesOK, Init
  <1>8. LoopOK /\ PendingLive
    BY DEF Init, LoopOK, PendingLive
  <1> QED
    BY <1>7, <1>8 DEF IInv

LEMMA NextIInv == IInv /\ [Next]_vars => IInv'
  <1> SUFFICES ASSUME IInv, [Next]_vars PROVE IInv'
    OBVIOUS
  <1>1. ASSUME NEW e \in batch, FlowReady(e) PROVE IInv'
    BY <1>1, FlowReadyStep
  <1>2. ASSUME NEW c \in backlog, Accept(c) PROVE IInv'
    BY <1>2, AcceptStep
  <1>3. ASSUME NEW i \in pending, Resume(i) \/ Reap(i) PROVE IInv'
    BY <1>3, MaintainStep
  <1>4. ASSUME NEW i \in Slot, ConnectEnds(i) \/ GoesQuiet(i) PROVE IInv'
    BY <1>4, KernelStep
  <1>5. CASE EpollWait \/ ListenerReady \/ AcceptReturns \/ MaintainRetries \/ MaintainSweep
               \/ MaintainDone \/ \E c \in Conns : Arrive(c)
    BY <1>5, LoopStep
  <1>6. CASE UNCHANGED vars
    BY <1>6 DEF vars, IInv, TablesOK, LoopOK, PendingLive, SlabConsistent, FreeSlots, LiveSlots,
                HoldingsMatchState
  <1> QED
    BY <1>1, <1>2, <1>3, <1>4, <1>5, <1>6 DEF Next, Kernel, Worker

LEMMA SpecIInv == Spec => []IInv
  BY InitIInv, NextIInv, PTL DEF Spec

\* Every variable keeps its type.
THEOREM WorkerTypeOK == Spec => []TypeOK
  <1>1. IInv => TypeOK
    BY DEF IInv, TablesOK, LoopOK, TypeOK
  <1> QED
    BY <1>1, SpecIInv, PTL

\* The free list is exactly the vacant slots, each once, whatever the order of
\* events, connects, closes and descriptor failures.
THEOREM WorkerSlabConsistent == Spec => []SlabConsistent
  <1>1. IInv => SlabConsistent
    BY DEF IInv, TablesOK
  <1> QED
    BY <1>1, SpecIInv, PTL

\* A slot's counting, upstream, pipes and retry agree with its state, so a
\* vacated slot hands nothing of the old flow to the next.
THEOREM WorkerHoldingsMatchState == Spec => []HoldingsMatchState
  <1>1. IInv => HoldingsMatchState
    BY DEF IInv, TablesOK
  <1> QED
    BY <1>1, SpecIInv, PTL

-----------------------------------------------------------------------------
(* The pipe pool *)

\* Pipes are held by pairs; h is how many flows hold one.
Fits(r, h) ==
    /\ r.made >= r.idle + 2 * h
    /\ r.made <= PipeLimit
    /\ ~Scarce => r.made = r.idle + 2 * h

\* The flows that hold pipes, seen from a handler working on slot i.
OthersPiped(i) == PipedSlots \ {i}
Holding(i, f) == Cardinality(OthersPiped(i)) + (IF f.piped THEN 1 ELSE 0)

PoolOK == Fits(res, Cardinality(PipedSlots))

\* What a handler may assume, and what it leaves behind: it touches no slot but
\* its own, in which the same connection lives on or none, and refuses nobody
\* unless descriptors run out.
Ready(i, f, r) ==
    /\ flows \in [Slot -> Flow]
    /\ i \in Slot
    /\ f \in Flow
    /\ f.live
    /\ r \in Resources
    /\ Fits(r, Holding(i, f))

Handled(i, f) ==
    /\ PoolOK'
    /\ \E g \in Flow : /\ flows' = [flows EXCEPT ![i] = g]
                       /\ g.live => g.conn = f.conn
    /\ ~Scarce => refused' = refused

LEMMA PipedFacts ==
  ASSUME flows \in [Slot -> Flow], NEW i \in Slot
  PROVE  /\ IsFiniteSet(OthersPiped(i))
         /\ Cardinality(OthersPiped(i)) \in 0..(Capacity - 1)
         /\ Cardinality(PipedSlots) = Holding(i, flows[i])
  <1>1. IsFiniteSet(Slot) /\ Cardinality(Slot) = Capacity
    BY FS_Interval, WorkerAssumption DEF Slot
  <1>2. IsFiniteSet(Slot \ {i}) /\ Cardinality(Slot \ {i}) = Capacity - 1
    BY <1>1, FS_RemoveElement
  <1>3. OthersPiped(i) \in SUBSET (Slot \ {i}) /\ i \notin OthersPiped(i)
    BY DEF OthersPiped, PipedSlots
  <1>4. IsFiniteSet(OthersPiped(i)) /\ Cardinality(OthersPiped(i)) <= Capacity - 1
    BY <1>2, <1>3, FS_Subset
  <1>5. Cardinality(OthersPiped(i)) \in Nat
    BY <1>4, FS_CardinalityType
  <1>6. Cardinality(OthersPiped(i)) \in 0..(Capacity - 1)
    BY <1>4, <1>5, WorkerAssumption
  <1>7. CASE flows[i].piped
    <2>1. PipedSlots = OthersPiped(i) \cup {i}
      BY <1>7 DEF OthersPiped, PipedSlots
    <2>2. Cardinality(PipedSlots) = Cardinality(OthersPiped(i)) + 1
      BY <1>3, <1>4, <2>1, FS_AddElement
    <2> QED
      BY <1>4, <1>6, <1>7, <2>2 DEF Holding
  <1>8. CASE ~flows[i].piped
    <2>1. PipedSlots = OthersPiped(i)
      BY <1>8 DEF OthersPiped, PipedSlots
    <2> QED
      BY <1>4, <1>6, <1>8, <2>1 DEF Holding
  <1> QED
    BY <1>7, <1>8

\* Writing a flow to its slot: the pipes it holds are those held there now.
LEMMA WriteHolds ==
  ASSUME flows \in [Slot -> Flow], NEW i \in Slot, NEW g \in Flow,
         flows' = [flows EXCEPT ![i] = g]
  PROVE  Cardinality(PipedSlots') = Holding(i, g)
  <1>1. OthersPiped(i)' = OthersPiped(i)
    BY DEF OthersPiped, PipedSlots
  <1>2. flows' \in [Slot -> Flow] /\ flows'[i] = g
    OBVIOUS
  <1>3. IsFiniteSet(OthersPiped(i)) /\ i \notin OthersPiped(i)
        /\ Cardinality(OthersPiped(i)) \in Nat
    BY PipedFacts, WorkerAssumption DEF OthersPiped
  <1>4. PipedSlots' = IF g.piped THEN OthersPiped(i) \cup {i} ELSE OthersPiped(i)
    BY <1>1, <1>2 DEF OthersPiped, PipedSlots
  <1>5. CASE g.piped
    <2>1. PipedSlots' = OthersPiped(i) \cup {i}
      BY <1>4, <1>5
    <2>2. Cardinality(PipedSlots') = Cardinality(OthersPiped(i)) + 1
      BY <1>3, <2>1, FS_AddElement
    <2> QED
      BY <1>5, <2>2 DEF Holding
  <1>6. CASE ~g.piped
    BY <1>3, <1>4, <1>6 DEF Holding
  <1> QED
    BY <1>5, <1>6

LEMMA HandledSameConn ==
  ASSUME NEW i, NEW f, NEW g, Handled(i, g), g.conn = f.conn
  PROVE  Handled(i, f)
  BY DEF Handled

LEMMA KeepPool ==
  ASSUME NEW i, NEW f, NEW r, Ready(i, f, r), Keep(i, f, r)
  PROVE  Handled(i, f)
  <1>1. flows' = [flows EXCEPT ![i] = f] /\ res' = r /\ refused' = refused
    BY DEF Keep
  <1>2. Cardinality(PipedSlots') = Holding(i, f)
    BY <1>1, WriteHolds DEF Ready
  <1> QED
    BY <1>1, <1>2 DEF Ready, Handled, PoolOK, Fits

\* Pipes given back: what is closed is uncounted, what is kept is idle.
LEMMA RecycleFits ==
  ASSUME NEW f \in Flow, NEW r \in Resources, NEW h \in Nat, NEW q \in Recycle(f, r),
         Fits(r, h + (IF f.piped THEN 1 ELSE 0))
  PROVE  Fits(q, h)
  <1>0. r.idle \in Nat /\ r.made \in Nat /\ PipeLimit \in Nat
    BY SlotFacts DEF Resources
  <1>1. CASE ~f.piped
    BY <1>0, <1>1 DEF Recycle, Fits
  <1>2. CASE f.piped
    <2>1. PICK dirty \in 0..2 :
            q = [r EXCEPT !.idle = r.idle + (2 - dirty),
                          !.made = IF r.made > dirty THEN r.made - dirty ELSE 0]
      BY <1>2 DEF Recycle
    <2>2. /\ q.idle = r.idle + (2 - dirty)
          /\ q.made = IF r.made > dirty THEN r.made - dirty ELSE 0
      BY <2>1 DEF Resources
    <2>3. /\ r.made >= r.idle + 2 * (h + 1)
          /\ r.made <= PipeLimit
          /\ ~Scarce => r.made = r.idle + 2 * (h + 1)
      BY <1>2 DEF Fits
    <2> QED
      BY <1>0, <2>2, <2>3 DEF Fits
  <1> QED
    BY <1>1, <1>2

LEMMA TeardownPool ==
  ASSUME NEW i, NEW f, NEW r, Ready(i, f, r), Teardown(i, f, r)
  PROVE  PoolOK' /\ Vacated(f) \in Flow /\ ~Vacated(f).live
         /\ flows' = [flows EXCEPT ![i] = Vacated(f)]
  <1> DEFINE n == Cardinality(OthersPiped(i))
  <1>1. PICK q \in Recycle(f, r) :
          res' = [q EXCEPT !.free = Append(@, i),
                           !.active = IF f.counted /\ @ > 0 THEN @ - 1 ELSE @]
    BY DEF Teardown
  <1>2. n \in Nat /\ Fits(r, n + (IF f.piped THEN 1 ELSE 0))
    BY PipedFacts, WorkerAssumption DEF Ready, Holding
  <1>3. Fits(q, n) /\ q \in Resources
    BY <1>2, RecycleFits, RecycleFacts DEF Ready
  <1>4. res'.idle = q.idle /\ res'.made = q.made
    BY <1>1, <1>3 DEF Resources
  <1>5. Vacated(f) \in Flow /\ ~Vacated(f).live /\ ~Vacated(f).piped
    BY DEF Ready, Flow, Vacated
  <1>6. flows' = [flows EXCEPT ![i] = Vacated(f)]
    BY DEF Teardown
  <1>7. Cardinality(PipedSlots') = n
    <2>1. Cardinality(PipedSlots') = Holding(i, Vacated(f))
      BY <1>5, <1>6, WriteHolds DEF Ready
    <2> QED
      BY <1>2, <1>5, <2>1 DEF Holding
  <1> QED
    BY <1>3, <1>4, <1>5, <1>6, <1>7 DEF PoolOK, Fits

LEMMA ClosePool ==
  ASSUME NEW i, NEW f, NEW r, Ready(i, f, r), Close(i, f, r)
  PROVE  Handled(i, f)
  <1>1. Teardown(i, f, r) /\ refused' = refused
    BY DEF Close, Ready
  <1> QED
    BY <1>1, TeardownPool DEF Handled

\* A pipe acquired is idle no more, or counted anew; a pair is had whenever two
\* flows' worth of room is left and descriptors do not run out.
LEMMA AcquireFits ==
  ASSUME NEW r \in Resources, NEW got \in Acquire(r), r.made <= PipeLimit
  PROVE  /\ got.res \in Resources /\ got.res.made <= PipeLimit
         /\ got.ok \in BOOLEAN
         /\ got.ok => got.res.made - got.res.idle = r.made - r.idle + 1
         /\ ~got.ok => got.res = r /\ (Scarce \/ (r.idle = 0 /\ r.made = PipeLimit))
  <1>0. r.idle \in Nat /\ r.made \in Nat /\ PipeLimit \in Nat
    BY SlotFacts DEF Resources
  <1>1. CASE r.idle > 0
    <2> DEFINE q == [r EXCEPT !.idle = r.idle - 1]
    <2>1. got = [ok |-> TRUE, res |-> q]
      BY <1>1 DEF Acquire
    <2>2. r.idle - 1 \in Nat
      BY <1>0, <1>1
    <2>3. q \in Resources /\ q.idle = r.idle - 1 /\ q.made = r.made
      BY <2>2 DEF Resources
    <2> HIDE DEF q
    <2> QED
      BY <1>0, <2>1, <2>3
  <1>2. CASE ~(r.idle > 0) /\ got = [ok |-> TRUE, res |-> [r EXCEPT !.made = r.made + 1]]
             /\ ~(r.made >= PipeLimit)
    <2>1. [r EXCEPT !.made = r.made + 1] \in Resources
      BY <1>0 DEF Resources
    <2> QED
      BY <1>0, <1>2, <2>1 DEF Resources
  <1>3. CASE ~(r.idle > 0) /\ got = [ok |-> FALSE, res |-> r] /\ (r.made >= PipeLimit \/ Scarce)
    BY <1>0, <1>3
  <1> QED
    BY <1>1, <1>2, <1>3, WorkerAssumption DEF Acquire

LEMMA AcquirePairFits ==
  ASSUME NEW r \in Resources, NEW h \in 0..(Capacity - 1), Fits(r, h), NEW got \in AcquirePair(r)
  PROVE  /\ got.res \in Resources
         /\ got.ok => Fits(got.res, h + 1)
         /\ ~got.ok => Scarce /\ Fits(got.res, h)
  <1>1. PICK a \in Acquire(r) : got \in {[ok |-> a.ok /\ b.ok, res |-> b.res] : b \in Acquire(a.res)}
    BY DEF AcquirePair
  <1>2. PICK b \in Acquire(a.res) : got = [ok |-> a.ok /\ b.ok, res |-> b.res]
    BY <1>1
  <1>3. r.made <= PipeLimit
    BY DEF Fits
  <1>4. /\ a.res \in Resources /\ a.res.made <= PipeLimit /\ a.ok \in BOOLEAN
        /\ a.ok => a.res.made - a.res.idle = r.made - r.idle + 1
        /\ ~a.ok => a.res = r /\ (Scarce \/ (r.idle = 0 /\ r.made = PipeLimit))
    BY <1>3, AcquireFits
  <1>5. /\ b.res \in Resources /\ b.res.made <= PipeLimit /\ b.ok \in BOOLEAN
        /\ b.ok => b.res.made - b.res.idle = a.res.made - a.res.idle + 1
        /\ ~b.ok => b.res = a.res /\ (Scarce \/ (a.res.idle = 0 /\ a.res.made = PipeLimit))
    BY <1>4, AcquireFits
  <1>6. /\ r.made \in Nat /\ r.idle \in Nat /\ a.res.made \in Nat /\ a.res.idle \in Nat
        /\ b.res.made \in Nat /\ b.res.idle \in Nat
        /\ PipeLimit = 2 * Capacity /\ Capacity \in Nat /\ h \in Nat /\ h <= Capacity - 1
    BY <1>4, <1>5, WorkerAssumption DEF Resources, PipeLimit
  <1>7. got.res = b.res /\ (got.ok <=> a.ok /\ b.ok)
    BY <1>2
  <1>8. /\ r.made >= r.idle + 2 * h
        /\ ~Scarce => r.made = r.idle + 2 * h
    BY DEF Fits
  <1>9. CASE a.ok /\ b.ok
    <2>1. b.res.made - b.res.idle = r.made - r.idle + 2
      BY <1>4, <1>5, <1>6, <1>9
    <2> QED
      BY <1>5, <1>6, <1>7, <1>8, <1>9, <2>1 DEF Fits
  <1>10. CASE ~a.ok
    <2>1. Scarce
      BY <1>4, <1>6, <1>8, <1>10
    <2>2. b.res.made - b.res.idle >= r.made - r.idle
      BY <1>4, <1>5, <1>6, <1>10
    <2> QED
      BY <1>5, <1>6, <1>7, <1>8, <1>10, <2>1, <2>2 DEF Fits
  <1>11. CASE a.ok /\ ~b.ok
    <2>1. Scarce
      BY <1>4, <1>5, <1>6, <1>8, <1>11
    <2>2. b.res.made - b.res.idle >= r.made - r.idle
      BY <1>4, <1>5, <1>6, <1>11
    <2> QED
      BY <1>5, <1>6, <1>7, <1>8, <1>11, <2>1, <2>2 DEF Fits
  <1> QED
    BY <1>4, <1>5, <1>9, <1>10, <1>11

LEMMA RelayPool ==
  ASSUME NEW i, NEW f, NEW r, Ready(i, f, r), Relay(i, f, r)
  PROVE  Handled(i, f)
  <1>1. CASE Close(i, f, r)
    BY <1>1, ClosePool
  <1>2. ASSUME NEW moved \in BOOLEAN, NEW throttled \in BOOLEAN,
               Keep(i, [f EXCEPT !.quiet = @ /\ ~moved, !.retry = throttled], r)
        PROVE  Handled(i, f)
    <2> DEFINE g == [f EXCEPT !.quiet = @ /\ ~moved, !.retry = throttled]
    <2>1. g \in Flow /\ g.live /\ g.piped = f.piped /\ g.conn = f.conn
      BY DEF Ready, Flow
    <2>2. Ready(i, g, r)
      BY <2>1 DEF Ready, Holding
    <2>3. Handled(i, g)
      BY <1>2, <2>2, KeepPool
    <2> HIDE DEF g
    <2> QED
      BY <2>1, <2>3, HandledSameConn
  <1> QED
    BY <1>1, <1>2 DEF Relay

LEMMA ConnectedPool ==
  ASSUME NEW i, NEW f, NEW r, NEW failed, Ready(i, f, r), ~f.piped, Connected(i, f, r, failed)
  PROVE  Handled(i, f)
  <1>0. /\ Holding(i, f) = Cardinality(OthersPiped(i))
        /\ Holding(i, f) \in 0..(Capacity - 1)
    BY PipedFacts, WorkerAssumption DEF Ready, Holding
  <1>1. CASE Close(i, f, r)
    BY <1>1, ClosePool
  <1>2. ASSUME NEW got \in AcquirePair(r), got.ok,
               Relay(i, [f EXCEPT !.piped = TRUE, !.state = "Relaying", !.quiet = FALSE], got.res)
        PROVE  Handled(i, f)
    <2> DEFINE g == [f EXCEPT !.piped = TRUE, !.state = "Relaying", !.quiet = FALSE]
    <2>1. g \in Flow /\ g.live /\ g.piped /\ g.conn = f.conn
      BY DEF Ready, Flow
    <2>2. got.res \in Resources /\ Fits(got.res, Holding(i, f) + 1)
      BY <1>0, <1>2, AcquirePairFits DEF Ready
    <2>3. Ready(i, g, got.res)
      BY <1>0, <2>1, <2>2 DEF Ready, Holding
    <2>4. Handled(i, g)
      BY <1>2, <2>3, RelayPool
    <2> HIDE DEF g
    <2> QED
      BY <2>1, <2>4, HandledSameConn
  <1>3. ASSUME NEW got \in AcquirePair(r), ~got.ok, Teardown(i, f, got.res)
        PROVE  Handled(i, f)
    <2>1. Scarce /\ got.res \in Resources /\ Fits(got.res, Holding(i, f))
      BY <1>0, <1>3, AcquirePairFits DEF Ready
    <2>2. Ready(i, f, got.res)
      BY <2>1 DEF Ready
    <2> QED
      BY <1>3, <2>1, <2>2, TeardownPool DEF Handled
  <1> QED
    BY <1>1, <1>2, <1>3 DEF Connected

LEMMA OpenUpstreamPool ==
  ASSUME NEW i, NEW f, NEW r, Ready(i, f, r), ~f.piped, OpenUpstream(i, f, r)
  PROVE  Handled(i, f)
  <1> DEFINE g == [f EXCEPT !.state = "Connecting", !.quiet = FALSE]
             h == [g EXCEPT !.up = "inflight"]
             e == [g EXCEPT !.up = "established"]
  <1>1. CASE Close(i, f, r)
    BY <1>1, ClosePool
  <1>2. CASE Keep(i, h, r)
    <2>1. h \in Flow /\ h.live /\ ~h.piped /\ h.conn = f.conn
      BY DEF Ready, Flow
    <2>2. Ready(i, h, r)
      BY <2>1 DEF Ready, Holding
    <2>3. Handled(i, h)
      BY <1>2, <2>2, KeepPool
    <2> HIDE DEF h
    <2> QED
      BY <2>1, <2>3, HandledSameConn
  <1>3. CASE Connected(i, e, r, FALSE)
    <2>1. e \in Flow /\ e.live /\ ~e.piped /\ e.conn = f.conn
      BY DEF Ready, Flow
    <2>2. Ready(i, e, r)
      BY <2>1 DEF Ready, Holding
    <2>3. Handled(i, e)
      BY <1>3, <2>1, <2>2, ConnectedPool
    <2> HIDE DEF e
    <2> QED
      BY <2>1, <2>3, HandledSameConn
  <1> QED
    BY <1>1, <1>2, <1>3 DEF OpenUpstream

LEMMA PeekPool ==
  ASSUME NEW i, NEW f, NEW r, Ready(i, f, r), ~f.piped, Peek(i, f, r)
  PROVE  Handled(i, f)
  <1> DEFINE g == [f EXCEPT !.quiet = FALSE]
             h == [g EXCEPT !.counted = TRUE]
             q == [r EXCEPT !.active = @ + 1]
  <1>1. CASE Close(i, f, r)
    BY <1>1, ClosePool
  <1>2. CASE Keep(i, f, r)
    BY <1>2, KeepPool
  <1>3. CASE Keep(i, g, r)
    <2>1. g \in Flow /\ g.live /\ ~g.piped /\ g.conn = f.conn
      BY DEF Ready, Flow
    <2>2. Ready(i, g, r)
      BY <2>1 DEF Ready, Holding
    <2>3. Handled(i, g)
      BY <1>3, <2>2, KeepPool
    <2> HIDE DEF g
    <2> QED
      BY <2>1, <2>3, HandledSameConn
  <1>4. CASE Decide(i, g, r)
    <2>1. h \in Flow /\ h.live /\ ~h.piped /\ h.conn = f.conn
      BY DEF Ready, Flow
    <2>2. q \in Resources /\ q.idle = r.idle /\ q.made = r.made
      BY DEF Ready, Resources
    <2>3. Ready(i, h, q)
      BY <2>1, <2>2 DEF Ready, Holding, Fits
    <2>4. Close(i, h, q) \/ OpenUpstream(i, h, q)
      BY <1>4 DEF Decide
    <2>5. Handled(i, h)
      BY <2>1, <2>3, <2>4, ClosePool, OpenUpstreamPool
    <2> HIDE DEF h
    <2> QED
      BY <2>1, <2>5, HandledSameConn
  <1> QED
    BY <1>1, <1>2, <1>3, <1>4 DEF Peek

-----------------------------------------------------------------------------
(* Connections *)

\* A connection is in one place at a time, and in one slot at most.
ConnOK ==
    /\ fresh \cap backlog = {}
    /\ refused \cap (fresh \cup backlog) = {}
    /\ \A i \in LiveSlots : flows[i].conn \in Conns \ (fresh \cup backlog \cup refused)
    /\ \A i, j \in LiveSlots : flows[i].conn = flows[j].conn => i = j

\* Every step hands one flow to a handler, or leaves pipes and slots alone. A flow
\* that is handed out is live, or admitted from the backlog in this step.
SameFlows == \A i \in Slot : /\ flows'[i].piped = flows[i].piped
                             /\ flows'[i].live = flows[i].live
                             /\ flows'[i].conn = flows[i].conn

Quiescent == SameFlows /\ UNCHANGED <<res, refused, backlog, fresh>>

Handles ==
    \E i \in Slot : /\ flows[i].live
                    /\ Handled(i, flows[i])
                    /\ UNCHANGED <<backlog, fresh>>

Admits ==
    \E c \in backlog, i \in Slot :
        /\ ~flows[i].live
        /\ Handled(i, [Vacant EXCEPT !.live = TRUE, !.conn = c])
        /\ backlog' = backlog \ {c} /\ fresh' = fresh

TurnsAway ==
    \E c \in backlog :
        /\ refused' = refused \/ (refused' = refused \cup {c} /\ LiveSlots = Slot)
        /\ backlog' = backlog \ {c}
        /\ SameFlows /\ UNCHANGED <<res, fresh>>

Arrives ==
    \E c \in fresh : /\ fresh' = fresh \ {c}
                     /\ backlog' = backlog \cup {c}
                     /\ SameFlows /\ UNCHANGED <<res, refused>>

LEMMA LiveIsReady ==
  ASSUME IInv, PoolOK, NEW i \in Slot, flows[i].live
  PROVE  Ready(i, flows[i], res) /\ (flows[i].piped <=> flows[i].state = "Relaying")
  BY PipedFacts DEF IInv, TablesOK, Ready, PoolOK, HoldingsMatchState

LEMMA FlowReadyKind ==
  ASSUME IInv, PoolOK, NEW e \in batch, FlowReady(e)
  PROVE  Handles \/ Quiescent
  <1> DEFINE i == e.slot
             f == flows[i]
  <1>1. i \in Slot /\ UNCHANGED <<backlog, fresh>>
    BY DEF IInv, LoopOK, Event, FlowReady, kernelVars
  <1>2. CASE ~f.live \/ (f.live /\ f.state = "Connecting" /\ e.side # "upstream")
    <2>1. UNCHANGED <<flows, res, refused>>
      BY <1>2 DEF FlowReady
    <2> QED
      BY <1>1, <2>1 DEF Quiescent, SameFlows
  <1>3. CASE f.live /\ f.state = "Peeking"
    <2>1. Ready(i, f, res) /\ ~f.piped
      BY <1>1, <1>3, LiveIsReady
    <2>2. Close(i, f, res) \/ Peek(i, f, res)
      BY <1>3 DEF FlowReady
    <2>3. Handled(i, f)
      BY <2>1, <2>2, ClosePool, PeekPool
    <2> QED
      BY <1>1, <1>3, <2>3 DEF Handles
  <1>4. CASE f.live /\ f.state = "Connecting" /\ e.side = "upstream"
    <2>1. Ready(i, f, res) /\ ~f.piped
      BY <1>1, <1>4, LiveIsReady
    <2>2. Connected(i, f, res, e.failed)
      BY <1>4 DEF FlowReady
    <2>3. Handled(i, f)
      BY <2>1, <2>2, ConnectedPool
    <2> QED
      BY <1>1, <1>4, <2>3 DEF Handles
  <1>5. CASE f.live /\ f.state = "Relaying"
    <2>1. Ready(i, f, res)
      BY <1>1, <1>5, LiveIsReady
    <2>2. Relay(i, f, res)
      BY <1>5 DEF FlowReady
    <2>3. Handled(i, f)
      BY <2>1, <2>2, RelayPool
    <2> QED
      BY <1>1, <1>5, <2>3 DEF Handles
  <1> QED
    BY <1>1, <1>2, <1>3, <1>4, <1>5 DEF IInv, TablesOK, Flow

LEMMA MaintainKind ==
  ASSUME IInv, PoolOK, NEW i \in pending, Resume(i) \/ Reap(i)
  PROVE  Handles
  <1> DEFINE f == flows[i]
             g == [f EXCEPT !.retry = FALSE]
  <1>1. i \in Slot /\ f.live /\ UNCHANGED <<backlog, fresh>>
    BY DEF IInv, LoopOK, PendingLive, Resume, Reap, kernelVars
  <1>2. Ready(i, f, res)
    BY <1>1, LiveIsReady
  <1>3. CASE Resume(i)
    <2>1. g \in Flow /\ g.live /\ g.piped = f.piped /\ g.conn = f.conn
      BY <1>2 DEF Ready, Flow
    <2>2. Ready(i, g, res)
      BY <1>2, <2>1 DEF Ready, Holding
    <2>3. Handled(i, g)
      BY <1>3, <2>2, RelayPool DEF Resume
    <2> HIDE DEF g
    <2>4. Handled(i, f)
      BY <2>1, <2>3, HandledSameConn
    <2> QED
      BY <1>1, <2>4 DEF Handles
  <1>4. CASE Reap(i)
    <2>1. Handled(i, f)
      BY <1>2, <1>4, ClosePool DEF Reap
    <2> QED
      BY <1>1, <2>1 DEF Handles
  <1> QED
    BY <1>3, <1>4

LEMMA AcceptKind ==
  ASSUME IInv, PoolOK, NEW c \in backlog, Accept(c)
  PROVE  TurnsAway \/ Admits
  <1>1. TablesOK /\ c \in Conns /\ fresh' = fresh /\ backlog' = backlog \ {c}
    BY DEF IInv, LoopOK, Accept
  <1>2. CASE TurnAway(c)
    <2>1. res.free = <<>> => LiveSlots = Slot
      BY <1>1 DEF TablesOK, SlabConsistent, FreeSlots, LiveSlots
    <2> QED
      BY <1>1, <1>2, <2>1 DEF TurnAway, TurnsAway, SameFlows
  <1>3. CASE Admit(c)
    <2> DEFINE n == Len(res.free)
               i == res.free[n]
               popped == [res EXCEPT !.free = SubSeq(@, 1, Len(@) - 1)]
               f == [Vacant EXCEPT !.live = TRUE, !.conn = c]
    <2>1. /\ res \in Resources /\ res.free \in Seq(Slot)
          /\ n \in Nat \ {0} /\ DOMAIN res.free = 1..n /\ i \in Slot
      BY <1>1, <1>3 DEF Admit, TablesOK, Resources
    <2>2. ~flows[i].live /\ ~flows[i].piped /\ flows[i].conn = NoConn
      BY <1>1, <2>1 DEF TablesOK, SlabConsistent, FreeSlots, LiveSlots, HoldingsMatchState
    <2>3. CASE Peek(i, f, popped)
      <3>1. SubSeq(res.free, 1, n - 1) \in Seq(Slot)
        BY <2>1
      <3>2. popped \in Resources /\ popped.idle = res.idle /\ popped.made = res.made
        BY <2>1, <3>1 DEF Resources
      <3>3. f \in Flow /\ f.live /\ ~f.piped
        BY <1>1 DEF Flow, Vacant
      <3>4. Ready(i, f, popped)
        BY <1>1, <2>1, <2>2, <3>2, <3>3, PipedFacts DEF TablesOK, Ready, Holding, PoolOK, Fits
      <3>5. Handled(i, f)
        BY <2>3, <3>3, <3>4, PeekPool
      <3> QED
        BY <1>1, <2>1, <2>2, <3>5 DEF Admits
    <2>4. CASE Keep(i, Vacant, res)
      <3>1. SameFlows /\ res' = res /\ refused' = refused
        <4>1. flows \in [Slot -> Flow] /\ flows[i] \in Flow
          BY <1>1, <2>1 DEF TablesOK
        <4>2. flows[i].piped = FALSE /\ flows[i].live = FALSE /\ flows[i].conn = NoConn
          BY <2>2, <4>1 DEF Flow
        <4>3. Vacant.piped = FALSE /\ Vacant.live = FALSE /\ Vacant.conn = NoConn
          BY DEF Vacant
        <4>4. \A j \in Slot : flows'[j] = IF j = i THEN Vacant ELSE flows[j]
          BY <2>1, <2>4, <4>1 DEF Keep
        <4> QED
          BY <2>4, <4>2, <4>3, <4>4 DEF Keep, SameFlows
      <3> QED
        BY <1>1, <3>1 DEF TurnsAway
    <2> QED
      BY <1>3, <2>3, <2>4 DEF Admit
  <1> QED
    BY <1>2, <1>3 DEF Accept

LEMMA StepKind ==
  ASSUME IInv, PoolOK, [Next]_vars
  PROVE  Quiescent \/ Handles \/ Admits \/ TurnsAway \/ Arrives
  <1>1. CASE EpollWait \/ ListenerReady \/ AcceptReturns \/ MaintainRetries \/ MaintainSweep
               \/ MaintainDone \/ UNCHANGED vars
    <2>1. UNCHANGED <<flows, res, refused, backlog, fresh>>
      BY <1>1 DEF EpollWait, ListenerReady, AcceptReturns, MaintainRetries, MaintainSweep,
                  MaintainDone, kernelVars, vars
    <2> QED
      BY <2>1 DEF Quiescent, SameFlows
  <1>2. ASSUME NEW c \in Conns, Arrive(c)
        PROVE  Arrives
    BY <1>2 DEF Arrive, Arrives, SameFlows
  <1>3. ASSUME NEW i \in Slot, ConnectEnds(i) \/ GoesQuiet(i)
        PROVE  Quiescent
    <2>1. flows \in [Slot -> Flow]
      BY DEF IInv, TablesOK
    <2>2. UNCHANGED <<res, refused, backlog, fresh>>
      BY <1>3 DEF ConnectEnds, GoesQuiet, kernelVars
    <2>3. SameFlows
      <3>1. CASE ConnectEnds(i)
        BY <2>1, <3>1 DEF ConnectEnds, SameFlows, Flow
      <3>2. CASE GoesQuiet(i)
        BY <2>1, <3>2 DEF GoesQuiet, SameFlows, Flow
      <3> QED
        BY <1>3, <3>1, <3>2
    <2> QED
      BY <2>2, <2>3 DEF Quiescent
  <1> QED
    BY <1>1, <1>2, <1>3, FlowReadyKind, MaintainKind, AcceptKind DEF Next, Kernel, Worker

LEMMA NextPoolOK ==
  ASSUME IInv, PoolOK, [Next]_vars
  PROVE  PoolOK'
  <1>1. CASE Quiescent \/ TurnsAway \/ Arrives
    <2>1. SameFlows /\ res' = res
      BY <1>1 DEF Quiescent, TurnsAway, Arrives
    <2>2. PipedSlots' = PipedSlots
      BY <2>1 DEF SameFlows, PipedSlots
    <2> QED
      BY <2>1, <2>2 DEF PoolOK, Fits
  <1>2. CASE Handles \/ Admits
    BY <1>2 DEF Handles, Admits, Handled
  <1> QED
    BY <1>1, <1>2, StepKind

LEMMA InitPoolOK == Init => PoolOK
  <1> SUFFICES ASSUME Init PROVE PoolOK
    OBVIOUS
  <1>1. PipedSlots = {}
    BY DEF Init, PipedSlots, Vacant
  <1>2. Cardinality(PipedSlots) = 0
    BY <1>1, FS_EmptySet
  <1> QED
    BY <1>2, WorkerAssumption DEF Init, PoolOK, Fits, PipeLimit

LEMMA SpecPoolOK == Spec => []PoolOK
  BY InitPoolOK, SpecIInv, NextPoolOK, PTL DEF Spec

\* Whatever fails, descriptors included, the pool has counted every pipe that is
\* idle or held, and counts no more than its limit.
THEOREM WorkerPoolBounded == Spec => []PoolBounded
  <1>1. PoolOK => PoolBounded
    BY DEF PoolOK, Fits, PoolBounded
  <1> QED
    BY <1>1, SpecPoolOK, PTL

\* While descriptors do not run out the count is exact, and the pool never refuses
\* a flow the flow cap admitted: a connecting flow leaves at least its own two
\* pipes of 2 * Capacity to be had.
THEOREM WorkerPoolExact == ASSUME ~Scarce PROVE Spec => []PoolExact
  <1>1. IInv /\ PoolOK => PoolExact
    <2> SUFFICES ASSUME IInv, PoolOK PROVE PoolExact
      OBVIOUS
    <2>1. PipesAccounted
      BY DEF PoolOK, Fits, PipesAccounted
    <2>2. ASSUME NEW i \in LiveSlots, flows[i].state = "Connecting"
          PROVE  res.idle + PipeLimit - res.made >= 2
      <3>1. i \in Slot /\ flows[i].live
        BY DEF LiveSlots
      <3>2. ~flows[i].piped
        BY <2>2, <3>1, LiveIsReady
      <3>3. Cardinality(PipedSlots) \in 0..(Capacity - 1)
        BY <3>1, <3>2, PipedFacts, WorkerAssumption DEF IInv, TablesOK, Holding
      <3>4. res.idle \in Nat /\ res.made \in Nat
        BY DEF IInv, TablesOK, Resources
      <3> QED
        BY <2>1, <3>3, <3>4, WorkerAssumption DEF PipesAccounted, PipeLimit
    <2> QED
      BY <2>1, <2>2 DEF PoolExact, PoolServesEveryFlow
  <1> QED
    BY <1>1, SpecIInv, SpecPoolOK, PTL

-----------------------------------------------------------------------------
(* The worker implements FlowAdmission *)

ServedConns == {flows[i].conn : i \in LiveSlots}

LEMMA InitConnOK == Init => ConnOK
  BY DEF Init, ConnOK, LiveSlots, Vacant

LEMMA NextConnOK ==
  ASSUME ~Scarce, IInv, PoolOK, ConnOK, [Next]_vars
  PROVE  ConnOK'
  <1>0. flows \in [Slot -> Flow]
    BY DEF IInv, TablesOK
  <1>1. CASE Quiescent \/ TurnsAway \/ Arrives
    <2>1. /\ LiveSlots' = LiveSlots
          /\ \A i \in LiveSlots : flows'[i].conn = flows[i].conn
      BY <1>1 DEF Quiescent, TurnsAway, Arrives, SameFlows, LiveSlots
    <2>2. CASE Quiescent
      BY <2>1, <2>2 DEF Quiescent, ConnOK
    <2>3. CASE TurnsAway
      BY <2>1, <2>3 DEF TurnsAway, ConnOK
    <2>4. CASE Arrives
      BY <2>1, <2>4 DEF Arrives, ConnOK
    <2> QED
      BY <1>1, <2>2, <2>3, <2>4
  <1>2. CASE Handles
    <2>1. PICK i \in Slot : /\ flows[i].live
                            /\ Handled(i, flows[i])
                            /\ UNCHANGED <<backlog, fresh>>
      BY <1>2 DEF Handles
    <2>2. PICK g \in Flow : /\ flows' = [flows EXCEPT ![i] = g]
                            /\ g.live => g.conn = flows[i].conn
      BY <2>1 DEF Handled
    <2>3. \A j \in Slot : flows'[j] = IF j = i THEN g ELSE flows[j]
      BY <1>0, <2>2
    <2>4. /\ LiveSlots' \subseteq LiveSlots
          /\ \A j \in LiveSlots' : flows'[j].conn = flows[j].conn
      BY <2>1, <2>2, <2>3 DEF LiveSlots
    <2> QED
      BY <2>1, <2>4 DEF Handled, ConnOK
  <1>3. CASE Admits
    <2>1. PICK c \in backlog, i \in Slot :
            /\ ~flows[i].live
            /\ Handled(i, [Vacant EXCEPT !.live = TRUE, !.conn = c])
            /\ backlog' = backlog \ {c} /\ fresh' = fresh
      BY <1>3 DEF Admits
    <2>2. PICK g \in Flow : /\ flows' = [flows EXCEPT ![i] = g]
                            /\ g.live => g.conn = c
      BY <2>1 DEF Handled, Vacant
    <2>3. \A j \in Slot : flows'[j] = IF j = i THEN g ELSE flows[j]
      BY <1>0, <2>2
    <2>4. /\ LiveSlots' \subseteq LiveSlots \cup {i} /\ i \notin LiveSlots
          /\ \A j \in LiveSlots' \ {i} : flows'[j].conn = flows[j].conn
          /\ i \in LiveSlots' => flows'[i].conn = c
      BY <2>1, <2>2, <2>3 DEF LiveSlots
    <2>5. refused' = refused /\ c \in Conns
      BY <2>1 DEF Handled, IInv, LoopOK
    <2>6. c \notin fresh \cup refused /\ \A j \in LiveSlots : flows[j].conn # c
      BY <2>1 DEF ConnOK
    <2> QED
      BY <2>1, <2>4, <2>5, <2>6 DEF ConnOK
  <1> QED
    BY <1>1, <1>2, <1>3, StepKind

\* The five places a connection may be in, one by one.
StatusMeans ==
    \A c \in Conns :
        /\ c \in fresh <=> Status[c] = "new"
        /\ c \in backlog <=> Status[c] = "queued"
        /\ c \in refused <=> Status[c] = "refused"
        /\ c \in ServedConns <=> Status[c] = "served"
        /\ c \notin fresh \cup backlog \cup refused \cup ServedConns <=> Status[c] = "ended"

LEMMA StatusIs == ConnOK => StatusMeans
  <1> SUFFICES ASSUME ConnOK, NEW c \in Conns
               PROVE  /\ c \in fresh <=> Status[c] = "new"
                      /\ c \in backlog <=> Status[c] = "queued"
                      /\ c \in refused <=> Status[c] = "refused"
                      /\ c \in ServedConns <=> Status[c] = "served"
                      /\ c \notin fresh \cup backlog \cup refused \cup ServedConns
                           <=> Status[c] = "ended"
    BY DEF StatusMeans
  <1>1. CASE c \in fresh
    BY <1>1 DEF Status, ConnOK, ServedConns
  <1>2. CASE c \in backlog
    BY <1>2 DEF Status, ConnOK, ServedConns
  <1>3. CASE c \in refused
    BY <1>3 DEF Status, ConnOK, ServedConns
  <1>4. CASE c \in ServedConns
    BY <1>4 DEF Status, ConnOK, ServedConns
  <1>5. CASE c \notin fresh \cup backlog \cup refused \cup ServedConns
    BY <1>5 DEF Status, ConnOK, ServedConns
  <1> QED
    BY <1>1, <1>2, <1>3, <1>4, <1>5

LEMMA StatusIsNext == ConnOK' => StatusMeans'
  BY StatusIs, PTL

\* Connections served and slots taken are in bijection.
LEMMA ServedCount ==
  ASSUME ConnOK
  PROVE  /\ Admission!Served = ServedConns
         /\ Cardinality(ServedConns) = Cardinality(LiveSlots)
         /\ Cardinality(LiveSlots) <= Capacity
         /\ LiveSlots = Slot => Cardinality(LiveSlots) = Capacity
         /\ LiveSlots # Slot => Cardinality(LiveSlots) < Capacity
  <1>1. Admission!Served = ServedConns
    BY StatusIs DEF Admission!Served, StatusMeans, ServedConns, ConnOK
  <1>2. IsFiniteSet(Slot) /\ Cardinality(Slot) = Capacity
    BY FS_Interval, WorkerAssumption DEF Slot
  <1>3. LiveSlots \in SUBSET Slot
    BY DEF LiveSlots
  <1>4. /\ IsFiniteSet(LiveSlots) /\ Cardinality(LiveSlots) <= Capacity
        /\ Cardinality(LiveSlots) \in Nat
        /\ Cardinality(LiveSlots) = Capacity => LiveSlots = Slot
    BY <1>2, <1>3, FS_Subset, FS_CardinalityType
  <1>5. ExistsBijection(LiveSlots, ServedConns)
    <2> DEFINE b == [i \in LiveSlots |-> flows[i].conn]
    <2>1. b \in [LiveSlots -> ServedConns] /\ \A i \in LiveSlots : b[i] = flows[i].conn
      BY DEF ServedConns
    <2>2. \A i, j \in LiveSlots : b[i] = b[j] => i = j
      BY <2>1 DEF ConnOK
    <2>3. \A c \in ServedConns : \E i \in LiveSlots : b[i] = c
      BY <2>1 DEF ServedConns
    <2> HIDE DEF b
    <2>4. b \in Bijection(LiveSlots, ServedConns)
      BY <2>1, <2>2, <2>3 DEF Bijection, Injection, Surjection, IsInjective
    <2> QED
      BY <2>4 DEF ExistsBijection
  <1>6. Cardinality(ServedConns) = Cardinality(LiveSlots)
    BY <1>4, <1>5, FS_Bijection
  <1> QED
    BY <1>1, <1>2, <1>4, <1>6, WorkerAssumption

\* A step that leaves all connections but c where they are, moves c.
LEMMA OneMoves ==
  ASSUME ConnOK, ConnOK', NEW c \in Conns,
         \A d \in Conns \ {c} : /\ d \in fresh' <=> d \in fresh
                                /\ d \in backlog' <=> d \in backlog
                                /\ d \in refused' <=> d \in refused
                                /\ d \in ServedConns' <=> d \in ServedConns
  PROVE  Status' = [Status EXCEPT ![c] = Status'[c]]
  <1>1. ASSUME NEW d \in Conns \ {c}
        PROVE  Status'[d] = Status[d]
    BY <1>1, StatusIs, StatusIsNext DEF StatusMeans
  <1>2. /\ Status = [d \in Conns |-> Status[d]]
        /\ Status' = [d \in Conns |-> Status'[d]]
    BY DEF Status
  <1> QED
    BY <1>1, <1>2

\* The instance brings its own copy of Cardinality.
LEMMA SameCardinality == \A S : Admission!Cardinality(S) = Cardinality(S)
  BY DEF Admission!Cardinality, Cardinality

LEMMA AdmissionStep ==
  ASSUME ~Scarce, IInv, PoolOK, ConnOK, [Next]_vars
  PROVE  [Admission!Next]_Status
  <1>0. ConnOK' /\ StatusMeans /\ StatusMeans' /\ flows \in [Slot -> Flow]
    BY NextConnOK, StatusIs, StatusIsNext DEF IInv, TablesOK
  <1>1. CASE Quiescent
    <2>1. ServedConns' = ServedConns /\ LiveSlots' = LiveSlots
      BY <1>1 DEF Quiescent, SameFlows, ServedConns, LiveSlots
    <2>2. \A c \in Conns : Status'[c] = Status[c]
      BY <1>0, <1>1, <2>1 DEF StatusMeans, Quiescent
    <2>3. /\ Status = [d \in Conns |-> Status[d]]
          /\ Status' = [d \in Conns |-> Status'[d]]
      BY DEF Status
    <2>4. Status' = Status
      BY <2>2, <2>3
    <2> QED
      BY <2>4
  <1>2. CASE Handles
    <2>1. PICK i \in Slot : /\ flows[i].live
                            /\ Handled(i, flows[i])
                            /\ UNCHANGED <<backlog, fresh>>
      BY <1>2 DEF Handles
    <2>2. PICK g \in Flow : /\ flows' = [flows EXCEPT ![i] = g]
                            /\ g.live => g.conn = flows[i].conn
      BY <2>1 DEF Handled
    <2> DEFINE c == flows[i].conn
    <2>3. \A j \in Slot : flows'[j] = IF j = i THEN g ELSE flows[j]
      BY <1>0, <2>2
    <2>4. i \in LiveSlots /\ c \in Conns /\ c \in ServedConns /\ refused' = refused
      BY <2>1 DEF LiveSlots, ConnOK, ServedConns, Handled
    <2>5. \A d \in Conns \ {c} : d \in ServedConns' <=> d \in ServedConns
      BY <2>2, <2>3, <2>4 DEF ServedConns, LiveSlots
    <2>6. Status' = [Status EXCEPT ![c] = Status'[c]]
      BY <1>0, <2>1, <2>4, <2>5, OneMoves
    <2>7. Status[c] = "served" /\ Status'[c] \in {"served", "ended"}
      <3>1. c \notin fresh' \cup backlog' \cup refused'
        BY <2>1, <2>4 DEF ConnOK
      <3> QED
        BY <1>0, <2>4, <3>1 DEF StatusMeans
    <2> HIDE DEF c
    <2>8. CASE Status'[c] = "ended"
      <3>1. Admission!End(c)
        BY <2>6, <2>7, <2>8 DEF Admission!End
      <3> QED
        BY <2>4, <3>1 DEF Admission!Next
    <2>9. CASE Status'[c] = "served"
      <3>1. Status = [d \in Conns |-> Status[d]]
        BY DEF Status
      <3>2. Status' = Status
        BY <2>6, <2>7, <2>9, <3>1
      <3> QED
        BY <3>2
    <2> QED
      BY <2>7, <2>8, <2>9
  <1>3. CASE Admits
    <2>1. PICK c \in backlog, i \in Slot :
            /\ ~flows[i].live
            /\ Handled(i, [Vacant EXCEPT !.live = TRUE, !.conn = c])
            /\ backlog' = backlog \ {c} /\ fresh' = fresh
      BY <1>3 DEF Admits
    <2>2. PICK g \in Flow : /\ flows' = [flows EXCEPT ![i] = g]
                            /\ g.live => g.conn = c
      BY <2>1 DEF Handled, Vacant
    <2>3. \A j \in Slot : flows'[j] = IF j = i THEN g ELSE flows[j]
      BY <1>0, <2>2
    <2>4. c \in Conns /\ refused' = refused /\ i \notin LiveSlots /\ LiveSlots # Slot
      BY <2>1 DEF Handled, IInv, LoopOK, LiveSlots
    <2>5. \A d \in Conns \ {c} : d \in ServedConns' <=> d \in ServedConns
      BY <2>1, <2>2, <2>3 DEF ServedConns, LiveSlots
    <2>6. Status' = [Status EXCEPT ![c] = Status'[c]]
      BY <1>0, <2>1, <2>4, <2>5, OneMoves
    <2>7. Status[c] = "queued" /\ Status'[c] \in {"served", "ended"}
      <3>1. c \notin fresh' \cup backlog' \cup refused'
        BY <2>1, <2>4 DEF ConnOK
      <3> QED
        BY <1>0, <2>1, <2>4, <3>1 DEF StatusMeans
    <2>8. CASE Status'[c] = "ended"
      <3>1. Admission!End(c)
        BY <2>6, <2>7, <2>8 DEF Admission!End
      <3> QED
        BY <2>4, <3>1 DEF Admission!Next
    <2>9. CASE Status'[c] = "served"
      <3>1. Cardinality(Admission!Served) < Capacity
        BY <2>4, ServedCount
      <3>2. Admission!Admit(c)
        BY <2>6, <2>7, <2>9, <3>1, SameCardinality DEF Admission!Admit
      <3> QED
        BY <2>4, <3>2 DEF Admission!Next
    <2> QED
      BY <2>7, <2>8, <2>9
  <1>4. CASE TurnsAway
    <2>1. PICK c \in backlog :
            /\ refused' = refused \/ (refused' = refused \cup {c} /\ LiveSlots = Slot)
            /\ backlog' = backlog \ {c}
            /\ SameFlows /\ UNCHANGED <<res, fresh>>
      BY <1>4 DEF TurnsAway
    <2>2. c \in Conns /\ ServedConns' = ServedConns
      BY <2>1 DEF IInv, LoopOK, SameFlows, ServedConns, LiveSlots
    <2>3. Status' = [Status EXCEPT ![c] = Status'[c]]
      BY <1>0, <2>1, <2>2, OneMoves
    <2>4. Status[c] = "queued" /\ c \notin fresh' \cup backlog' \cup ServedConns'
      BY <1>0, <2>1, <2>2 DEF StatusMeans, ConnOK, ServedConns
    <2>5. CASE refused' = refused
      <3>1. Status'[c] = "ended"
        BY <1>0, <2>1, <2>2, <2>4, <2>5 DEF StatusMeans, ConnOK
      <3>2. Admission!End(c)
        BY <2>3, <2>4, <3>1 DEF Admission!End
      <3> QED
        BY <2>2, <3>2 DEF Admission!Next
    <2>6. CASE refused' = refused \cup {c} /\ LiveSlots = Slot
      <3>1. Status'[c] = "refused"
        BY <1>0, <2>2, <2>6 DEF StatusMeans
      <3>2. Cardinality(Admission!Served) = Capacity
        BY <2>6, ServedCount
      <3>3. Admission!Refuse(c)
        BY <2>3, <2>4, <3>1, <3>2, SameCardinality DEF Admission!Refuse
      <3> QED
        BY <2>2, <3>3 DEF Admission!Next
    <2> QED
      BY <2>1, <2>5, <2>6
  <1>5. CASE Arrives
    <2>1. PICK c \in fresh : /\ fresh' = fresh \ {c}
                             /\ backlog' = backlog \cup {c}
                             /\ SameFlows /\ UNCHANGED <<res, refused>>
      BY <1>5 DEF Arrives
    <2>2. c \in Conns /\ ServedConns' = ServedConns
      BY <2>1 DEF IInv, LoopOK, SameFlows, ServedConns, LiveSlots
    <2>3. Status' = [Status EXCEPT ![c] = Status'[c]]
      BY <1>0, <2>1, <2>2, OneMoves
    <2>4. Status[c] = "new" /\ Status'[c] = "queued"
      BY <1>0, <2>1, <2>2 DEF StatusMeans
    <2>5. Admission!Arrive(c)
      BY <2>3, <2>4 DEF Admission!Arrive
    <2> QED
      BY <2>2, <2>5 DEF Admission!Next
  <1> QED
    BY <1>1, <1>2, <1>3, <1>4, <1>5, StepKind

\* While descriptors do not run out, the worker does what FlowAdmission promises,
\* for any slab and any number of connections: one is turned away for want of room
\* only while Capacity others are served, and one that has ended never returns.
THEOREM WorkerImplementsAdmission == ASSUME ~Scarce PROVE Spec => ImplementsAdmission
  <1>1. Init => Admission!Init
    <2> SUFFICES ASSUME Init PROVE Admission!Init
      OBVIOUS
    <2>1. ConnOK /\ fresh = Conns
      BY InitConnOK DEF Init
    <2>2. \A c \in Conns : Status[c] = "new"
      BY <2>1, StatusIs DEF StatusMeans
    <2>3. Status = [c \in Conns |-> Status[c]]
      BY DEF Status
    <2> QED
      BY <2>2, <2>3 DEF Admission!Init
  <1> QED
    BY <1>1, InitConnOK, NextConnOK, AdmissionStep, SpecIInv, SpecPoolOK, PTL
    DEF Spec, ImplementsAdmission, Admission!Spec

=============================================================================
