---------------------------- MODULE TrafficIngest ----------------------------
(***************************************************************************)
(* From the proxy's cumulative counters to PolySIEM's monthly totals       *)
(* (services/privacy-router-traffic.ts), for one privacy router.           *)
(*                                                                         *)
(* The proxy counts, publishes its counters in a file and may restart; a   *)
(* poll has the agent read that file (once for STARTED, once more for the  *)
(* SERVICE lines), reads the cursor of the last poll, and stores the       *)
(* difference, the rollup and the new cursor in one transaction. Nothing   *)
(* but that transaction is atomic. The scheduler starts a poll every       *)
(* minute one is due and does not wait for the one before it.              *)
(*                                                                         *)
(* A pair is a (hostname, action), its three counters one. Samples are     *)
(* pruned after seven days, which is beyond the clock here.                *)
(***************************************************************************)
EXTENDS FiniteSets, Integers

CONSTANTS Pairs,
          Pollers,     \* polls under way at a time: ticks, or replicas
          Interval,    \* poll interval
          HalfSecond,  \* an interval shorter than this rounds to 0 seconds
          Skewed,      \* may the clock be set, back as well as forward?
          None,        \* null: no cursor, no poll yet, no stats file
          MaxClock,    \* bound: instants
          MaxCount,    \* bound: what the proxy ever counts for a pair
          MaxStarted   \* bound: STARTED, in seconds

ASSUME IngestAssumption ==
    /\ IsFiniteSet(Pairs)
    /\ Interval \in Nat
    /\ HalfSecond \in Nat \ {0}
    /\ Skewed \in BOOLEAN
    /\ MaxClock \in Nat /\ MaxCount \in Nat /\ MaxStarted \in Nat

Instants == 0..MaxClock
Counts == [Pairs -> Nat]
Zero == [k \in Pairs |-> 0]

VARIABLES proxy,    \* the running proxy: STARTED and its counters
          truth,    \* what proxies have counted in all
          file,     \* the stats file
          clock,    \* PolySIEM's
          poll,     \* where each poll stands
          cursor,   \* AppSetting: the last reading, when and since when
          samples,  \* stored intervals, by pair and instant; 0 is no row
          rollup,   \* the month's total of each pair
          lastPoll  \* AppSetting: lastPollAt

world == <<proxy, truth, file, clock>>
db == <<cursor, samples, rollup>>
ingestVars == <<world, poll, db, lastPoll>>

Stats == [started : Nat, count : Counts]
Cursor == [started : Nat, at : Instants, count : Counts]
Poll == [pc       : {"idle", "started", "services", "cursor", "commit", "status"},
         now      : Instants,
         started  : Nat,
         services : Counts,
         seen     : Cursor \cup {None}]

\* null is not a value.
ASSUME NoneAssumption == None \notin Int /\ None \notin Stats /\ None \notin Cursor

IngestTypeOK ==
    /\ proxy \in Stats
    /\ truth \in Counts
    /\ file \in Stats \cup {None}
    /\ clock \in Instants
    /\ poll \in [Pollers -> Poll]
    /\ cursor \in Cursor \cup {None}
    /\ samples \in [Pairs -> [Instants -> Nat]]
    /\ rollup \in Counts
    /\ lastPoll \in Instants \cup {None}

NoPoll == [pc |-> "idle", now |-> 0, started |-> 0, services |-> Zero, seen |-> None]

IngestInit ==
    /\ proxy = [started |-> 1, count |-> Zero]
    /\ truth = Zero
    /\ file = None
    /\ clock = 0
    /\ poll = [p \in Pollers |-> NoPoll]
    /\ cursor = None
    /\ samples = [k \in Pairs |-> [t \in Instants |-> 0]]
    /\ rollup = Zero
    /\ lastPoll = None

-----------------------------------------------------------------------------
(* The proxy *)

Count(k) ==
    /\ truth[k] < MaxCount
    /\ proxy' = [proxy EXCEPT !.count[k] = @ + 1]
    /\ truth' = [truth EXCEPT ![k] = @ + 1]
    /\ UNCHANGED <<file, clock, poll, db, lastPoll>>

Publish ==
    /\ file' = proxy
    /\ UNCHANGED <<proxy, truth, clock, poll, db, lastPoll>>

\* STARTED is in whole seconds, so a quick restart may repeat it; a reboot of the
\* router takes the file, which is in /run, along.
Restart ==
    /\ \E s \in proxy.started..MaxStarted : proxy' = [started |-> s, count |-> Zero]
    /\ file' \in {file, None}
    /\ UNCHANGED <<truth, clock, poll, db, lastPoll>>

-----------------------------------------------------------------------------
(* A poll *)

At(p, pc) == poll[p].pc = pc
PollGoes(p, r) == poll' = [poll EXCEPT ![p] = r]

\* runPrivacyRouterTrafficPollIfDue: the tick's instant is the poll's.
Start(p) ==
    /\ At(p, "idle")
    /\ lastPoll # None => lastPoll + Interval <= clock
    /\ PollGoes(p, [NoPoll EXCEPT !.pc = "started", !.now = clock])
    /\ UNCHANGED <<world, db, lastPoll>>

\* The agent's proxy_state_lines; no file is reported as 0, which is parsed as null.
ReadStarted(p) ==
    /\ At(p, "started")
    /\ PollGoes(p, [poll[p] EXCEPT !.pc = "services",
                               !.started = IF file = None THEN 0 ELSE file.started])
    /\ UNCHANGED <<world, db, lastPoll>>

\* The agent's service_lines, a second reading of the file.
ReadServices(p) ==
    /\ At(p, "services")
    /\ PollGoes(p, [poll[p] EXCEPT !.pc = "cursor",
                               !.services = IF file = None THEN Zero ELSE file.count])
    /\ UNCHANGED <<world, db, lastPoll>>

\* ingestServiceTraffic: readCursor, before the transaction.
ReadCursor(p) ==
    /\ At(p, "cursor")
    /\ PollGoes(p, [poll[p] EXCEPT !.pc = "commit", !.seen = cursor])
    /\ UNCHANGED <<world, db, lastPoll>>

\* Any of these makes the reading a baseline.
Baseline(r) ==
    \/ r.seen = None
    \/ r.started = 0
    \/ r.seen.started # r.started
    \/ r.now - r.seen.at < HalfSecond

\* Mutant: a pair the cursor does not know is skipped.
IntervalOf_SkipsNew(r, k) ==
    IF r.seen.count[k] > 0 /\ r.services[k] >= r.seen.count[k]
    THEN r.services[k] - r.seen.count[k] ELSE 0

\* diffAgainstCursor: a pair that went back, or stood still, has no row.
IntervalOf(r, k) ==
    IF r.services[k] >= r.seen.count[k] THEN r.services[k] - r.seen.count[k] ELSE 0

\* mergedCounters: a pair the reading does not mention keeps its old counter.
Merged(r) == [k \in Pairs |-> IF r.services[k] = 0 THEN r.seen.count[k] ELSE r.services[k]]

\* A baseline stores no row and starts over from what was read.
Rows(r) == IF Baseline(r) THEN Zero ELSE [k \in Pairs |-> IntervalOf(r, k)]
NextCursor(r) == [started |-> r.started, at |-> r.now,
                  count   |-> IF Baseline(r) THEN r.services ELSE Merged(r)]

\* @@unique([routerId, hostname, action, sampledAt])
Duplicate(r) == \E k \in Pairs : Rows(r)[k] > 0 /\ samples[k][r.now] > 0

\* Mutant: the cursor is left to a later write.
Store_CursorApart(r) ==
    /\ cursor' \in {cursor, NextCursor(r)}
    /\ rollup' = [k \in Pairs |-> rollup[k] + Rows(r)[k]]
    /\ samples' = [k \in Pairs |-> [samples[k] EXCEPT ![r.now] = @ + Rows(r)[k]]]

\* writeIngest's transaction; a unique violation rolls all of it back.
Store(r) ==
    IF Duplicate(r) THEN UNCHANGED db
    ELSE /\ cursor' = NextCursor(r)
         /\ rollup' = [k \in Pairs |-> rollup[k] + Rows(r)[k]]
         /\ samples' = [k \in Pairs |-> [samples[k] EXCEPT ![r.now] = @ + Rows(r)[k]]]

Commit(p) ==
    /\ At(p, "commit")
    /\ Store(poll[p])
    /\ PollGoes(p, [poll[p] EXCEPT !.pc = "status"])
    /\ UNCHANGED <<world, lastPoll>>

\* The session, a read or the transaction fails; pollOne catches it.
Fail(p) ==
    /\ poll[p].pc \in {"started", "services", "cursor", "commit"}
    /\ PollGoes(p, [poll[p] EXCEPT !.pc = "status"])
    /\ UNCHANGED <<world, db, lastPoll>>

\* The tick ends with the status map written, or with that write failing.
WriteStatus(p) ==
    /\ At(p, "status")
    /\ lastPoll' \in {lastPoll, poll[p].now}
    /\ PollGoes(p, NoPoll)
    /\ UNCHANGED <<world, db>>

\* PolySIEM dies and comes back: a transaction is in the database or is not.
Crash ==
    /\ poll' = [p \in Pollers |-> NoPoll]
    /\ UNCHANGED <<world, db, lastPoll>>

Tick ==
    /\ clock' \in IF Skewed THEN Instants \ {clock} ELSE Instants \cap {clock + 1}
    /\ UNCHANGED <<proxy, truth, file, poll, db, lastPoll>>

-----------------------------------------------------------------------------

IngestNext == \/ \E k \in Pairs : Count(k)
        \/ Publish
        \/ Restart
        \/ \E p \in Pollers : \/ Start(p)
                              \/ ReadStarted(p)
                              \/ ReadServices(p)
                              \/ ReadCursor(p)
                              \/ Commit(p)
                              \/ Fail(p)
                              \/ WriteStatus(p)
        \/ Crash
        \/ Tick

IngestSpec == IngestInit /\ [][IngestNext]_ingestVars

-----------------------------------------------------------------------------
(* Properties *)

\* No byte is counted twice: a month's total never exceeds what proxies have
\* counted, whatever restarts, clock steps, crashes and failures come between.
\* stats.rs: "so a duplicate or concurrent poll is harmless".
NeverOvercounts == \A k \in Pairs : rollup[k] <= truth[k]

\* What the rollup gains when the cursor moves, unless the move is a baseline.
RollupFollowsCursor ==
    LET advance == [started |-> cursor'.started, now |-> cursor'.at, seen |-> cursor] IN
    cursor' # cursor => cursor = None \/ Baseline(advance)
      \/ \A k \in Pairs :
            rollup'[k] - rollup[k] = IF cursor'.count[k] < cursor.count[k] THEN 0
                                     ELSE cursor'.count[k] - cursor.count[k]

\* No byte is lost between two readings of one proxy either: while nothing forces
\* a baseline, a month's total moves by what the cursor moves, for a pair seen for
\* the first time too, and a pair that went back leaves it alone.
CursorAndRollupMoveTogether == []IngestTypeOK /\ [][RollupFollowsCursor]_db

=============================================================================
