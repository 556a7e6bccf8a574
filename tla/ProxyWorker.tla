---------------------------- MODULE ProxyWorker ----------------------------
(***************************************************************************)
(* One worker thread of native/privacy-proxy: the slab of flows, the epoll *)
(* batch it works through, and the pipe pool.                              *)
(*                                                                         *)
(* The thread is the only writer of its flows, so one event is one step;   *)
(* what it races with is the kernel, which completes connects, queues new  *)
(* connections and readies sockets at any moment, and with its own past: a *)
(* batch of events is copied out of the kernel before any of them is       *)
(* handled, and a token names a slot and a side, not a connection.         *)
(*                                                                         *)
(* Bytes are not modelled here (ProxyRelay does that), nor which rule a    *)
(* flow matches: a prelude may be inconclusive, block the flow or open an  *)
(* upstream, a relay pass may keep the flow or end it.                     *)
(***************************************************************************)
EXTENDS FiniteSets, Integers, Sequences

CONSTANTS Conns,        \* client connections, each of which arrives once
          Redirected,   \* those netfilter redirected: original_dst answers
          Capacity,     \* slots of the slab (max_flows / workers)
          Scarce,       \* may a call that makes a descriptor or a watch fail?
          MaxBatch,     \* bound: flow events per epoll_wait (EVENT_BATCH = 256)
          NoConn        \* the connection of a vacant slot

ASSUME WorkerAssumption ==
    /\ Capacity \in Nat \ {0}
    /\ Redirected \subseteq Conns
    /\ NoConn \notin Conns
    /\ Scarce \in BOOLEAN
    /\ MaxBatch \in Nat

Slot == 0..(Capacity - 1)
Sides == {"client", "upstream"}
PipeLimit == 2 * Capacity

VARIABLES flows,     \* the slab
          res,       \* free list, pipe pool and the active-flows gauge
          phase,     \* where the worker's loop stands
          batch,     \* flow events of this epoll_wait not yet handled
          listen,    \* is the listener's event among them?
          pending,   \* slots maintain() has still to visit
          fresh,     \* connections that have not arrived yet
          backlog,   \* accept queue of the listening socket
          edge,      \* has the listener an unreported readiness edge?
          refused    \* connections dropped with DEGRADED_FLOW_CAP raised

vars == <<flows, res, phase, batch, listen, pending, fresh, backlog, edge, refused>>
kernelVars == <<fresh, backlog, edge>>

Flow == [live    : BOOLEAN,
         conn    : Conns \cup {NoConn},
         state   : {"Peeking", "Connecting", "Relaying"},
         up      : {"none", "inflight", "established", "failed"},
         counted : BOOLEAN,   \* stats_slot.is_some()
         piped   : BOOLEAN,   \* to_upstream and to_client hold a pipe each
         retry   : BOOLEAN,   \* retry_at.is_some()
         quiet   : BOOLEAN]   \* last_active is older than idle_secs

Vacant == [live |-> FALSE, conn |-> NoConn, state |-> "Peeking", up |-> "none",
           counted |-> FALSE, piped |-> FALSE, retry |-> FALSE, quiet |-> FALSE]

Resources == [free : Seq(Slot), idle : Nat, made : Nat, active : Nat]

\* `conn` is not in the token: it is the connection whose socket the kernel
\* reported, kept to compare it with the one the worker applies the event to.
Event == [slot : Slot, side : Sides, conn : Conns, failed : BOOLEAN]

TypeOK ==
    /\ flows \in [Slot -> Flow]
    /\ res \in Resources
    /\ phase \in {"wait", "batch", "accept", "retry", "sweep"}
    /\ batch \subseteq Event
    /\ listen \in BOOLEAN
    /\ pending \subseteq Slot
    /\ fresh \subseteq Conns
    /\ backlog \subseteq Conns
    /\ edge \in BOOLEAN
    /\ refused \subseteq Conns

Init ==
    /\ flows = [i \in Slot |-> Vacant]
    \* pushed in reverse, so slot 0 is on top
    /\ res = [free   |-> [k \in 1..Capacity |-> Capacity - k],
              idle   |-> 0,
              made   |-> 0,
              active |-> 0]
    /\ phase = "wait"
    /\ batch = {}
    /\ listen = FALSE
    /\ pending = {}
    /\ fresh = Conns
    /\ backlog = {}
    /\ edge = FALSE
    /\ refused = {}

-----------------------------------------------------------------------------
(* The pipe pool *)

\* PipePool::acquire: an idle pipe, else a new one below the limit. None and an
\* error both fail the caller.
Acquire(r) ==
    LET reused == [ok |-> TRUE, res |-> [r EXCEPT !.idle = @ - 1]]
        made   == [ok |-> TRUE, res |-> [r EXCEPT !.made = @ + 1]]
        failed == [ok |-> FALSE, res |-> r]
    IN  IF r.idle > 0 THEN {reused}
        ELSE IF r.made >= PipeLimit THEN {failed}
        ELSE IF Scarce THEN {made, failed} ELSE {made}

\* The pair pattern of `connected` evaluates both calls before it looks at
\* either, and simply drops a pipe whose partner could not be had.
AcquirePair(r) ==
    UNION {{[ok |-> a.ok /\ b.ok, res |-> b.res] : b \in Acquire(a.res)} : a \in Acquire(r)}

\* Mutants: a closed pipe stays counted; a closed pipe is kept as well.
Recycle_StaysCounted(f, r) ==
    IF ~f.piped THEN {r} ELSE {[r EXCEPT !.idle = @ + (2 - dirty)] : dirty \in 0..2}
Recycle_KeepsClosed(f, r) ==
    IF ~f.piped THEN {r}
    ELSE {[r EXCEPT !.idle = @ + 2, !.made = IF @ > dirty THEN @ - dirty ELSE 0] : dirty \in 0..2}

\* PipePool::release for both pumps of f: a pipe that still holds bytes is
\* closed and uncounted, an empty one goes back to the pool.
Recycle(f, r) ==
    IF ~f.piped THEN {r}
    ELSE {[r EXCEPT !.idle = @ + (2 - dirty),
                    !.made = IF @ > dirty THEN @ - dirty ELSE 0] : dirty \in 0..2}

-----------------------------------------------------------------------------
(* The handlers. Each takes the slot, the flow and the resources as it      *)
(* finds them, and every path through it ends in Keep or in Teardown.       *)

Keep(i, f, r) ==
    /\ flows' = [flows EXCEPT ![i] = f]
    /\ res' = r
    /\ UNCHANGED refused

Vacated(f) == [f EXCEPT !.live = FALSE, !.conn = NoConn, !.up = "none",
                        !.counted = FALSE, !.piped = FALSE, !.retry = FALSE]

\* Mutants: flow_ended is called, unsaturated, for flows never counted; retry_at
\* survives.
Teardown_UncountsAll(i, f, r) ==
    /\ flows' = [flows EXCEPT ![i] = Vacated(f)]
    /\ \E q \in Recycle(f, r) :
          res' = [q EXCEPT !.free = Append(@, i), !.active = @ - 1]
Teardown_RetrySurvives(i, f, r) ==
    /\ flows' = [flows EXCEPT ![i] = [Vacated(f) EXCEPT !.retry = f.retry]]
    /\ \E q \in Recycle(f, r) :
          res' = [q EXCEPT !.free = Append(@, i),
                           !.active = IF f.counted /\ @ > 0 THEN @ - 1 ELSE @]

\* Worker::close past its first test: what it does not take or reset stays in
\* the vacated slot.
Teardown(i, f, r) ==
    /\ flows' = [flows EXCEPT ![i] = Vacated(f)]
    /\ \E q \in Recycle(f, r) :
          res' = [q EXCEPT !.free = Append(@, i),
                           !.active = IF f.counted /\ @ > 0 THEN @ - 1 ELSE @]

\* Worker::close: closing a slot that is vacant already does nothing.
Close(i, f, r) ==
    /\ IF f.live THEN Teardown(i, f, r) ELSE UNCHANGED <<flows, res>>
    /\ UNCHANGED refused

\* One relay pass: a splice fails or both directions are done, or the flow goes
\* on, last_active moving if bytes did and retry_at following the rate limit.
Relay(i, f, r) ==
    \/ Close(i, f, r)
    \/ \E moved, throttled \in BOOLEAN :
          Keep(i, [f EXCEPT !.quiet = @ /\ ~moved, !.retry = throttled], r)

\* `failed` is the event's word, which may be about another flow's socket;
\* socket_error, asked next, is about this one's.
Connected(i, f, r, failed) ==
    IF failed \/ f.up = "failed" THEN Close(i, f, r)
    ELSE \E got \in AcquirePair(r) :
            IF got.ok
            THEN Relay(i, [f EXCEPT !.piped = TRUE, !.state = "Relaying", !.quiet = FALSE],
                       got.res)
            ELSE /\ Teardown(i, f, got.res)
                 /\ refused' = refused \cup {f.conn}

\* The first disjunct: no socket, SO_BINDTODEVICE or connect refused, no watch.
OpenUpstream(i, f, r) ==
    LET g == [f EXCEPT !.state = "Connecting", !.quiet = FALSE] IN
    \/ Close(i, f, r)
    \/ Keep(i, [g EXCEPT !.up = "inflight"], r)
    \/ Connected(i, [g EXCEPT !.up = "established"], r, FALSE)

\* The flow is counted before anything that can fail; a block rule and an exit
\* that is down end it at once.
Decide(i, f, r) ==
    LET g == [f EXCEPT !.counted = TRUE]
        q == [r EXCEPT !.active = @ + 1]
    IN  Close(i, g, q) \/ OpenUpstream(i, g, q)

\* EOF or an error; nothing buffered yet; an inconclusive prelude; a verdict.
Peek(i, f, r) ==
    \/ Close(i, f, r)
    \/ Keep(i, f, r)
    \/ Keep(i, [f EXCEPT !.quiet = FALSE], r)
    \/ Decide(i, [f EXCEPT !.quiet = FALSE], r)

-----------------------------------------------------------------------------
(* The worker's loop *)

\* What epoll may report of slot i: any readiness of a socket whose handshake
\* is over, nothing of a connect still in flight, an error of one that failed.
Reportable(i) ==
    LET f == flows[i] IN
    IF ~f.live THEN {}
    ELSE [slot : {i}, side : {"client"}, conn : {f.conn}, failed : BOOLEAN] \cup
         [slot : {i}, side : {"upstream"}, conn : {f.conn},
          failed : CASE f.up = "established" -> BOOLEAN
                     [] f.up = "failed"      -> {TRUE}
                     [] OTHER                -> {}]

\* epoll_wait copies at most one event per watched socket, in arrival order:
\* any order, as far as the worker can tell. It times out with none.
EpollWait ==
    /\ phase = "wait"
    /\ batch' \in {evs \in SUBSET UNION {Reportable(i) : i \in Slot} :
                     /\ Cardinality(evs) <= MaxBatch
                     /\ \A d, e \in evs : d.slot = e.slot /\ d.side = e.side => d = e}
    /\ listen' = edge
    /\ edge' = FALSE
    /\ phase' = "batch"
    /\ UNCHANGED <<flows, res, pending, fresh, backlog, refused>>

\* flow_ready for one event of the batch, applied to whatever flow lives in the
\* slot the token names by now.
FlowReady(e) ==
    LET i == e.slot
        f == flows[i]
    IN  /\ phase = "batch"
        /\ e \in batch
        /\ batch' = batch \ {e}
        /\ CASE ~f.live -> UNCHANGED <<flows, res, refused>>
             [] f.live /\ f.state = "Peeking" ->
                    IF e.failed THEN Close(i, f, res) ELSE Peek(i, f, res)
             [] f.live /\ f.state = "Connecting" ->
                    IF e.side = "upstream" THEN Connected(i, f, res, e.failed)
                    ELSE UNCHANGED <<flows, res, refused>>
             [] f.live /\ f.state = "Relaying" -> Relay(i, f, res)
        /\ UNCHANGED <<phase, listen, pending, kernelVars>>

\* The listener's event of the batch: accept_ready starts draining the queue.
ListenerReady ==
    /\ phase = "batch"
    /\ listen
    /\ listen' = FALSE
    /\ phase' = "accept"
    /\ UNCHANGED <<flows, res, batch, pending, kernelVars, refused>>

\* Mutant: the last slot is never given away.
TurnAway_Early(c) ==
    /\ IF c \in Redirected
       THEN /\ Len(res.free) <= 1
            /\ refused' = refused \cup {c}
       ELSE UNCHANGED refused
    /\ UNCHANGED <<flows, res>>

\* admit, first half: a connection netfilter did not redirect is not ours, and
\* one that finds no free slot is refused.
TurnAway(c) ==
    /\ IF c \in Redirected
       THEN /\ res.free = <<>>
            /\ refused' = refused \cup {c}
       ELSE UNCHANGED refused
    /\ UNCHANGED <<flows, res>>

\* Mutant: a failed watch does not give the slot back.
Admit_SlotLost(c) ==
    /\ c \in Redirected
    /\ res.free # <<>>
    /\ LET i == res.free[Len(res.free)]
           popped == [res EXCEPT !.free = SubSeq(@, 1, Len(@) - 1)]
       IN  \/ Peek(i, [Vacant EXCEPT !.live = TRUE, !.conn = c], popped)
           \/ /\ Scarce
              /\ Keep(i, Vacant, popped)

\* admit, second half: the slot on top of the free list is taken, and the
\* readiness `accept` consumed is made up for by peeking at once. A watch that
\* cannot be registered gives the slot back.
Admit(c) ==
    /\ c \in Redirected
    /\ res.free # <<>>
    /\ LET i == res.free[Len(res.free)]
           popped == [res EXCEPT !.free = SubSeq(@, 1, Len(@) - 1)]
       IN  \/ Peek(i, [Vacant EXCEPT !.live = TRUE, !.conn = c], popped)
           \/ /\ Scarce
              /\ Keep(i, Vacant, res)

\* One round of accept_ready's loop.
Accept(c) ==
    /\ phase = "accept"
    /\ c \in backlog
    /\ backlog' = backlog \ {c}
    /\ TurnAway(c) \/ Admit(c)
    /\ UNCHANGED <<phase, batch, listen, pending, fresh, edge>>

\* Mutant: one connection per readiness event.
AcceptReturns_Early ==
    /\ phase = "accept"
    /\ phase' = "batch"
    /\ UNCHANGED <<flows, res, batch, listen, pending, kernelVars, refused>>

\* accept_ready returns: the queue is empty, or accept failed for want of a
\* descriptor and leaves it as it is.
AcceptReturns ==
    /\ phase = "accept"
    /\ backlog = {} \/ Scarce
    /\ phase' = "batch"
    /\ UNCHANGED <<flows, res, batch, listen, pending, kernelVars, refused>>

\* The batch is done; maintain lists the flows whose retry_at has come.
MaintainRetries ==
    /\ phase = "batch"
    /\ batch = {}
    /\ ~listen
    /\ phase' = "retry"
    /\ pending' \in SUBSET {i \in Slot : flows[i].live /\ flows[i].retry}
    /\ UNCHANGED <<flows, res, batch, listen, kernelVars, refused>>

Resume(i) ==
    /\ phase = "retry"
    /\ i \in pending
    /\ pending' = pending \ {i}
    /\ Relay(i, [flows[i] EXCEPT !.retry = FALSE], res)
    /\ UNCHANGED <<phase, batch, listen, kernelVars>>

\* Mutant: only relaying flows are reaped.
MaintainSweep_RelayingOnly ==
    /\ phase = "retry"
    /\ pending = {}
    /\ \/ phase' = "wait" /\ UNCHANGED pending
       \/ /\ phase' = "sweep"
          /\ pending' = {i \in Slot : flows[i].live /\ flows[i].quiet /\ flows[i].piped}
    /\ UNCHANGED <<flows, res, batch, listen, kernelVars, refused>>

\* Then, once per SWEEP_INTERVAL, it lists the flows idle for too long.
MaintainSweep ==
    /\ phase = "retry"
    /\ pending = {}
    /\ \/ phase' = "wait" /\ UNCHANGED pending
       \/ /\ phase' = "sweep"
          /\ pending' = {i \in Slot : flows[i].live /\ flows[i].quiet}
    /\ UNCHANGED <<flows, res, batch, listen, kernelVars, refused>>

Reap(i) ==
    /\ phase = "sweep"
    /\ i \in pending
    /\ pending' = pending \ {i}
    /\ Close(i, flows[i], res)
    /\ UNCHANGED <<phase, batch, listen, kernelVars>>

MaintainDone ==
    /\ phase = "sweep"
    /\ pending = {}
    /\ phase' = "wait"
    /\ UNCHANGED <<flows, res, batch, listen, pending, kernelVars, refused>>

-----------------------------------------------------------------------------
(* The kernel and the clock *)

Arrive(c) ==
    /\ c \in fresh
    /\ fresh' = fresh \ {c}
    /\ backlog' = backlog \cup {c}
    /\ edge' = TRUE
    /\ UNCHANGED <<flows, res, phase, batch, listen, pending, refused>>

ConnectEnds(i) ==
    /\ flows[i].up = "inflight"
    /\ \E outcome \in {"established", "failed"} :
          flows' = [flows EXCEPT ![i].up = outcome]
    /\ UNCHANGED <<res, phase, batch, listen, pending, kernelVars, refused>>

GoesQuiet(i) ==
    /\ flows[i].live
    /\ ~flows[i].quiet
    /\ flows' = [flows EXCEPT ![i].quiet = TRUE]
    /\ UNCHANGED <<res, phase, batch, listen, pending, kernelVars, refused>>

Kernel == \/ \E c \in Conns : Arrive(c)
          \/ \E i \in Slot : ConnectEnds(i) \/ GoesQuiet(i)

Worker == \/ EpollWait
          \/ \E e \in batch : FlowReady(e)
          \/ ListenerReady
          \/ \E c \in backlog : Accept(c)
          \/ AcceptReturns
          \/ MaintainRetries
          \/ \E i \in pending : Resume(i) \/ Reap(i)
          \/ MaintainSweep
          \/ MaintainDone

Next == Kernel \/ Worker

\* epoll_wait is given at most 200 ms, so the loop always goes round; the sweep
\* comes due every second, so of the rounds some reach it.
Spec == Init /\ [][Next]_vars
FairSpec == Spec /\ WF_vars(Worker) /\ SF_vars(MaintainSweep /\ phase' = "sweep")

-----------------------------------------------------------------------------
(* Properties *)

LiveSlots == {i \in Slot : flows[i].live}
FreeSlots == {res.free[k] : k \in DOMAIN res.free}
PipedSlots == {i \in Slot : flows[i].piped}

\* The free list holds every vacant slot exactly once: close and the reaper may
\* both reach for a flow, and a slot pushed twice would be given to two clients.
SlabConsistent ==
    /\ FreeSlots = Slot \ LiveSlots
    /\ \A j, k \in DOMAIN res.free : res.free[j] = res.free[k] => j = k

\* What a flow holds agrees with its state in every slot, so that maintain never
\* relays a flow without upstream and a vacated slot keeps nothing for the next.
HoldingsMatchState ==
    \A i \in Slot :
        LET f == flows[i] IN
        /\ f.conn # NoConn <=> f.live
        /\ f.counted <=> f.live /\ f.state # "Peeking"
        /\ f.up # "none" <=> f.live /\ f.state # "Peeking"
        /\ f.piped <=> f.live /\ f.state = "Relaying"
        /\ f.retry => f.piped

\* relay.rs: "A closing flow returns its pipes; a new flow takes them back." The
\* pool's count of pipes that exist is the idle ones and those flows hold.
PipesAccounted == res.made = res.idle + 2 * Cardinality(PipedSlots)

\* Whatever fails, the pool never holds more pipes than it has counted, and
\* never counts more than its limit.
PoolBounded ==
    /\ res.made >= res.idle + 2 * Cardinality(PipedSlots)
    /\ res.made <= PipeLimit

\* A flow whose connect is under way will find its two pipes: the pool's limit
\* never refuses a flow that the flow cap admitted.
PoolServesEveryFlow ==
    \A i \in LiveSlots : flows[i].state = "Connecting" => res.idle + PipeLimit - res.made >= 2

\* While no call fails for want of a descriptor, the pool's count is exact, and
\* so never the reason a flow is lost.
PoolExact == PipesAccounted /\ PoolServesEveryFlow

\* Where a connection stands, as FlowAdmission tells it.
Status == [c \in Conns |->
    CASE c \in fresh   -> "new"
      [] c \in backlog -> "queued"
      [] c \in refused -> "refused"
      [] \E i \in LiveSlots : flows[i].conn = c -> "served"
      [] OTHER -> "ended"]

Admission == INSTANCE FlowAdmission WITH status <- Status

\* The worker implements FlowAdmission: DEGRADED_FLOW_CAP is raised for a
\* connection only while every slot is taken, and an ended one never returns.
ImplementsAdmission == Admission!Spec

\* A connection queued on the listener is taken off it, though its readiness
\* edge may have been consumed by a batch that is still being worked through.
QueuedIsAccepted == \A c \in Conns : c \in backlog ~> c \notin backlog

\* A flow that goes quiet, one stuck in a connect included, loses its slot or
\* comes to life again.
QuietFlowIsReaped ==
    \A i \in Slot : flows[i].live /\ flows[i].quiet ~> ~flows[i].live \/ ~flows[i].quiet

=============================================================================
