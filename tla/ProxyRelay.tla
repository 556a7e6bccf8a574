----------------------------- MODULE ProxyRelay -----------------------------
(***************************************************************************)
(* The bytes of one flow (relay.rs, Worker::relay, throttle.rs): two pumps *)
(* of one pipe each between two sockets, edge-triggered readiness, and the *)
(* token bucket of the flow's rule.                                        *)
(*                                                                         *)
(* A relay pass is a sequence of splice calls; between any two of them the *)
(* peers send, close, read and reset, and time refills the bucket. The     *)
(* kernel reports a change of readiness once: a pass that leaves work      *)
(* behind must be sure of an edge to come or set its own timer.            *)
(*                                                                         *)
(* Bytes are counted, not told apart. Connecting and idle reaping are in   *)
(* ProxyWorker; other flows on the same bucket are not modelled.           *)
(***************************************************************************)
EXTENDS Integers

CONSTANTS PipeCap,     \* capacity of a pipe
          SendBuffer,  \* what a destination socket takes before its peer reads
          Burst,       \* capacity of the token bucket
          MaxOut,      \* bound: bytes the client sends
          MaxIn        \* bound: bytes the upstream sends

ASSUME RelayAssumption ==
    /\ PipeCap \in Nat \ {0}
    /\ SendBuffer \in Nat \ {0}
    /\ Burst \in Nat \ {0}
    /\ MaxOut \in Nat /\ MaxIn \in Nat

Dirs == {"out", "in"}
MaxSent == [out |-> MaxOut, in |-> MaxIn]
Sides == {"client", "upstream"}
Source(d) == IF d = "out" THEN "client" ELSE "upstream"
Destination(d) == IF d = "out" THEN "upstream" ELSE "client"

VARIABLES pump,      \* the two Pumps
          source,    \* per direction: the receiving end of its source socket
          dest,      \* per direction: the sending end of its destination socket
          reset,     \* sockets their peer has reset
          edge,      \* has epoll an unreported edge of either socket?
          pass,      \* the relay pass under way, if any
          retry,     \* retry_at.is_some()
          limited,   \* has the flow's rule a rate limit?
          tokens,    \* the bucket
          counted    \* stats: bytes of each direction

kernel == <<source, dest, reset>>
bucket == <<limited, tokens>>
vars == <<pump, kernel, edge, pass, retry, bucket, counted>>

Unlimited == MaxOut + MaxIn + 1
PerDir == [Dirs -> Nat]
Nothing == [d \in Dirs |-> 0]

Pump == [buffered : 0..PipeCap, eof : BOOLEAN, shut : BOOLEAN]
SourceEnd == [sent : Nat, unread : Nat, fin : BOOLEAN]
DestEnd == [room : 0..SendBuffer, nospace : BOOLEAN, got : Nat]
Pass == [at       : {"idle", "fill", "drain", "end", "closed", "failed"},
         dir      : Dirs,
         budget   : Nat,
         progress : BOOLEAN,
         moved    : PerDir]

TypeOK ==
    /\ pump \in [Dirs -> Pump]
    /\ source \in [Dirs -> SourceEnd]
    /\ dest \in [Dirs -> DestEnd]
    /\ reset \subseteq Sides
    /\ edge \in BOOLEAN
    /\ pass \in Pass
    /\ retry \in BOOLEAN
    /\ limited \in BOOLEAN
    /\ tokens \in 0..Burst
    /\ counted \in PerDir

\* Mutant: the bucket keeps what the pass may spend.
Begun_BucketKept ==
    /\ pass' = [at |-> "fill", dir |-> "out", progress |-> FALSE, moved |-> Nothing,
                budget |-> IF limited THEN tokens ELSE Unlimited]
    /\ UNCHANGED tokens

\* Worker::budget and the start of its pass. All the tokens are taken, and what
\* the pass does not spend is not given back.
Begun ==
    /\ pass' = [at |-> "fill", dir |-> "out", progress |-> FALSE, moved |-> Nothing,
                budget |-> IF limited THEN tokens ELSE Unlimited]
    /\ tokens' = IF limited THEN 0 ELSE tokens

\* `connected` has just made the pumps, re-armed both watches and calls relay.
Init ==
    /\ pump = [d \in Dirs |-> [buffered |-> 0, eof |-> FALSE, shut |-> FALSE]]
    /\ source = [d \in Dirs |-> [sent |-> 0, unread |-> 0, fin |-> FALSE]]
    /\ dest = [d \in Dirs |-> [room |-> SendBuffer, nospace |-> FALSE, got |-> 0]]
    /\ reset = {}
    /\ edge = TRUE
    /\ pass = [at |-> "idle", dir |-> "out", budget |-> 0, progress |-> FALSE, moved |-> Nothing]
    /\ retry = FALSE
    /\ limited \in BOOLEAN
    /\ tokens = Burst
    /\ counted = Nothing

Over == pass.at \in {"closed", "failed"}

-----------------------------------------------------------------------------
(* The worker *)

\* flow_ready on an edge of either socket, or maintain when retry_at has come.
Wake ==
    /\ pass.at = "idle"
    /\ \/ edge /\ edge' = FALSE /\ UNCHANGED retry
       \/ retry /\ retry' = FALSE /\ UNCHANGED edge
    /\ Begun
    /\ UNCHANGED <<pump, kernel, limited, counted>>

Goes(p) == pass' = p
Fails == /\ pass' = [pass EXCEPT !.at = "failed"]
         /\ UNCHANGED <<pump, source, dest>>

\* Pump::fill: nothing is wanted once the source is done.
Wanted(q) == IF q.eof THEN 0
             ELSE IF PipeCap - q.buffered < pass.budget THEN PipeCap - q.buffered
             ELSE pass.budget

\* Mutant: end of file is reported on every call.
Filled_EofRepeats(d, s, q) ==
    IF s.unread > 0
    THEN \E n \in 1..s.unread :
            /\ n <= Wanted(q)
            /\ pump' = [pump EXCEPT ![d].buffered = @ + n]
            /\ source' = [source EXCEPT ![d].unread = @ - n]
            /\ Goes([pass EXCEPT !.at = "drain", !.progress = TRUE,
                                 !.budget = @ - n, !.moved = [pass.moved EXCEPT ![d] = @ + n]])
    ELSE /\ pump' = [pump EXCEPT ![d].eof = s.fin]
         /\ Goes([pass EXCEPT !.at = "drain", !.progress = @ \/ s.fin])
         /\ UNCHANGED source

\* splice from the source: some of what is there, end of file, or EAGAIN.
Filled(d, s, q) ==
    IF Wanted(q) = 0
    THEN Goes([pass EXCEPT !.at = "drain"]) /\ UNCHANGED <<pump, source>>
    ELSE IF s.unread > 0
    THEN \E n \in 1..s.unread :
            /\ n <= Wanted(q)
            /\ pump' = [pump EXCEPT ![d].buffered = @ + n]
            /\ source' = [source EXCEPT ![d].unread = @ - n]
            /\ Goes([pass EXCEPT !.at = "drain", !.progress = TRUE,
                                 !.budget = @ - n, !.moved = [pass.moved EXCEPT ![d] = @ + n]])
    ELSE /\ pump' = [pump EXCEPT ![d].eof = s.fin]
         /\ Goes([pass EXCEPT !.at = "drain", !.progress = @ \/ s.fin])
         /\ UNCHANGED source

\* The first half of `step`.
Fill ==
    LET d == pass.dir IN
    /\ pass.at = "fill"
    /\ IF Source(d) \in reset /\ Wanted(pump[d]) > 0
       THEN Fails
       ELSE Filled(d, source[d], pump[d]) /\ UNCHANGED dest
    /\ UNCHANGED <<reset, edge, retry, bucket, counted>>

\* Mutant: a source that is done is enough.
Finished_Early(q) == q.eof
\* Pump::finished
Finished(q) == q.eof /\ q.buffered = 0

\* Mutant: only the second direction's progress counts.
After_LastOnly(progress) ==
    IF pass.dir = "out"
    THEN [pass EXCEPT !.at = "fill", !.dir = "in", !.progress = FALSE]
    ELSE [pass EXCEPT !.at = IF progress THEN "fill" ELSE "end",
                      !.dir = "out", !.progress = FALSE]

\* The other direction's turn, another round, or the end of relay's loop.
After(progress) ==
    IF pass.dir = "out"
    THEN [pass EXCEPT !.at = "fill", !.dir = "in", !.progress = progress]
    ELSE [pass EXCEPT !.at = IF progress THEN "fill" ELSE "end",
                      !.dir = "out", !.progress = FALSE]

\* The second half of `step`: splice to the destination, which takes some of
\* what is buffered or has no room, and then Pump::finish.
Drain ==
    LET d == pass.dir
        q == pump[d]
    IN  /\ pass.at = "drain"
        /\ IF Destination(d) \in reset /\ q.buffered > 0
           THEN Fails
           ELSE \E n \in 0..q.buffered :
                  LET left == [q EXCEPT !.buffered = @ - n] IN
                  /\ n <= dest[d].room
                  /\ n = 0 => q.buffered = 0 \/ dest[d].room = 0
                  /\ pump' = [pump EXCEPT ![d] = [left EXCEPT !.shut = @ \/ Finished(left)]]
                  /\ dest' = [dest EXCEPT ![d] = [room    |-> @.room - n,
                                                 nospace |-> @.nospace \/ q.buffered > @.room,
                                                 got     |-> @.got + n]]
                  /\ Goes(After(pass.progress \/ n > 0))
                  /\ UNCHANGED source
        /\ UNCHANGED <<reset, edge, retry, bucket, counted>>

\* Mutant: no timer when something was moved.
RetryAfter_OnlyIfStuck == limited /\ pass.budget = 0 /\ pass.moved = Nothing
\* A timer if, and only if, the rate limit is what ended the pass.
RetryAfter == limited /\ pass.budget = 0

Done == \A d \in Dirs : Finished(pump[d])

\* Mutant: what came in is left to the next pass.
Tally_OutOnly == [counted EXCEPT !["out"] = @ + pass.moved["out"]]
Tally == [d \in Dirs |-> counted[d] + pass.moved[d]]

\* The rest of relay. A flow that is done is torn down by its caller.
End ==
    /\ pass.at = "end"
    /\ counted' = Tally
    /\ retry' = (RetryAfter /\ ~Done)
    /\ Goes([pass EXCEPT !.at = IF Done THEN "closed" ELSE "idle",
                         !.budget = 0, !.moved = Nothing])
    /\ UNCHANGED <<pump, kernel, edge, bucket>>

-----------------------------------------------------------------------------
(* The peers, the kernel and the clock *)

Send(d) ==
    /\ source[d].sent < MaxSent[d] /\ ~source[d].fin
    /\ Source(d) \notin reset
    /\ source' = [source EXCEPT ![d] = [sent |-> @.sent + 1, unread |-> @.unread + 1, fin |-> @.fin]]
    /\ edge' = TRUE
    /\ UNCHANGED <<pump, dest, reset, pass, retry, bucket, counted>>

HalfClose(d) ==
    /\ ~source[d].fin
    /\ Source(d) \notin reset
    /\ source' = [source EXCEPT ![d].fin = TRUE]
    /\ edge' = TRUE
    /\ UNCHANGED <<pump, dest, reset, pass, retry, bucket, counted>>

\* Room announces itself only to a writer that was refused some, and only once
\* there is enough of it: at the latest when the buffer is empty.
Read(d) ==
    /\ dest[d].room < SendBuffer
    /\ \E wakes \in {dest[d].nospace} \cup (IF dest[d].room + 1 < SendBuffer THEN {FALSE} ELSE {}) :
          /\ dest' = [dest EXCEPT ![d] = [room |-> @.room + 1, nospace |-> @.nospace /\ ~wakes, got |-> @.got]]
          /\ edge' = (edge \/ wakes)
    /\ UNCHANGED <<pump, source, reset, pass, retry, bucket, counted>>

Reset(side) ==
    /\ side \notin reset
    /\ reset' = reset \cup {side}
    /\ edge' = TRUE
    /\ UNCHANGED <<pump, source, dest, pass, retry, bucket, counted>>

\* TokenBucket::refill: what has accrued by the next take.
Refill ==
    /\ limited
    /\ tokens < Burst
    /\ tokens' = tokens + 1
    /\ UNCHANGED <<pump, kernel, edge, pass, retry, limited, counted>>

-----------------------------------------------------------------------------

Worker == Wake \/ Fill \/ Drain \/ End
Next == \/ ~Over /\ Worker
        \/ ~Over /\ \E d \in Dirs : Send(d) \/ HalfClose(d) \/ Read(d)
        \/ ~Over /\ \E side \in Sides : Reset(side)
        \/ ~Over /\ Refill

Spec == Init /\ [][Next]_vars

\* The worker's loop comes back to epoll_wait and to maintain; time passes; and
\* where a peer reads, delivery is wanted.
FairSpec == /\ Spec
            /\ WF_vars(~Over /\ Worker)
            /\ WF_vars(~Over /\ Refill)
            /\ \A d \in Dirs : WF_vars(~Over /\ Read(d))

-----------------------------------------------------------------------------
(* Properties *)

\* Worker::relay: "the one place the relay cannot rely on epoll". A flow at rest
\* with neither edge nor timer to come has nothing it could move: no byte and no
\* end of file to take in, and room only where the kernel owes it an edge.
NoLostWakeup ==
    pass.at = "idle" /\ ~edge /\ ~retry =>
        \A d \in Dirs :
            /\ pump[d].buffered < PipeCap /\ ~pump[d].eof =>
                   source[d].unread = 0 /\ ~source[d].fin
            /\ pump[d].buffered > 0 /\ dest[d].room > 0 => dest[d].nospace

\* relay.rs, Pump::finish: a destination is told that the stream ended after
\* every byte of it, and only if the source said so.
ShutdownComesLast ==
    \A d \in Dirs : pump[d].shut => source[d].fin /\ dest[d].got = source[d].sent

\* A flow that ends without an error has delivered both streams whole and told
\* both peers: a half-closed flow is not torn down under its other direction.
EndedIsWhole ==
    pass.at = "closed" =>
        \A d \in Dirs : pump[d].shut /\ dest[d].got = source[d].sent

\* The two ends of a stream agree on where it ends, in both directions.
StreamsEndInOrder == TypeOK /\ ShutdownComesLast /\ EndedIsWhole

\* throttle.rs: a limited flow takes in only what the bucket held: whatever a step
\* takes in has left the bucket, or the allowance the pass took out of it, and
\* nothing but time puts any back.
TakenIn == source["out"].sent - source["out"].unread + source["in"].sent - source["in"].unread
RatePaid == limited /\ ~Refill =>
    TakenIn' - TakenIn <= tokens + pass.budget - (tokens' + pass.budget')
RateHolds == [][RatePaid]_vars

\* Between passes the accounting table has every byte taken in, once.
CountedBetweenPasses ==
    pass.at \in {"idle", "closed"} =>
        \A d \in Dirs : counted[d] = source[d].sent - source[d].unread

\* Every byte sent arrives and every half-close is passed on, or the flow ends;
\* a pass that never returned to epoll would break this as well.
StreamArrives ==
    \A d \in Dirs :
        source[d].fin ~> \/ pump[d].shut
                         \/ reset # {}

=============================================================================
