---------------------------- MODULE TrafficProofs ----------------------------
(***************************************************************************)
(* Proofs about the bytes of the privacy proxy: TrafficIngest, from its    *)
(* counters to the monthly totals, for any set of pairs and any bounds,    *)
(* one poll at a time; and ProxyRelay, a flow between its two sockets, for *)
(* any capacity of the pipes, the socket buffers and the token bucket.     *)
(***************************************************************************)
EXTENDS TrafficIngest, ProxyRelay, FiniteSetTheorems, TLAPS

-----------------------------------------------------------------------------
(* TrafficIngest: types *)

LEMMA IngestInitType == IngestInit => IngestTypeOK
  BY IngestAssumption DEF IngestInit, IngestTypeOK, Stats, Counts, Zero, Instants,
     Poll, NoPoll, Cursor

LEMMA PollTypes ==
    ASSUME IngestTypeOK, NEW p \in Pollers
    PROVE  poll[p] \in Poll
  BY DEF IngestTypeOK

LEMMA AddedType ==
    ASSUME NEW D, NEW f \in [D -> Nat], NEW t, NEW n \in Nat
    PROVE  [f EXCEPT ![t] = @ + n] \in [D -> Nat]
  <1>1. ASSUME NEW d \in D PROVE [f EXCEPT ![t] = @ + n][d] \in Nat
    <2>1. f[d] \in Nat
      OBVIOUS
    <2>2. [f EXCEPT ![t] = @ + n][d] = IF d = t THEN f[d] + n ELSE f[d]
      OBVIOUS
    <2>3. QED  BY <2>1, <2>2
  <1>2. QED  BY <1>1

LEMMA NextCursorType ==
    ASSUME NEW r \in Poll
    PROVE  NextCursor(r) \in Cursor
  <1>1. Baseline(r) \/ r.seen \in Cursor
    BY DEF Baseline, Poll
  <1>2. ~Baseline(r) => Merged(r) \in Counts
    BY <1>1 DEF Merged, Counts, Poll, Cursor
  <1>3. QED  BY <1>2 DEF NextCursor, Poll, Cursor

\* What a commit stores has its type, whatever was read.
LEMMA StoreType ==
    ASSUME IngestTypeOK, NEW r \in Poll, Store(r)
    PROVE  /\ cursor' \in Cursor \cup {None}
           /\ samples' \in [Pairs -> [Instants -> Nat]]
           /\ rollup' \in Counts
  <1>1. CASE Duplicate(r)
    BY <1>1 DEF Store, IngestTypeOK, db
  <1>2. CASE ~Duplicate(r)
    <2>1. Baseline(r) \/ r.seen \in Cursor
      BY DEF Baseline, Poll
    <2>2. Rows(r) \in Counts
      BY <2>1 DEF Rows, IntervalOf, Zero, Counts, Poll, Cursor
    <2>3. NextCursor(r) \in Cursor
      BY NextCursorType
    <2>4. /\ cursor' = NextCursor(r)
          /\ rollup' = [k \in Pairs |-> rollup[k] + Rows(r)[k]]
          /\ samples' = [k \in Pairs |-> [samples[k] EXCEPT ![r.now] = @ + Rows(r)[k]]]
      BY <1>2 DEF Store
    <2>5. rollup' \in Counts
      BY <2>2, <2>4 DEF IngestTypeOK, Counts
    <2>6. samples' \in [Pairs -> [Instants -> Nat]]
      <3>1. ASSUME NEW k \in Pairs
            PROVE  [samples[k] EXCEPT ![r.now] = @ + Rows(r)[k]] \in [Instants -> Nat]
        <4>1. Rows(r)[k] \in Nat /\ samples[k] \in [Instants -> Nat]
          BY <2>2 DEF IngestTypeOK, Counts
        <4>2. QED  BY <4>1, AddedType
      <3>2. QED  BY <2>4, <3>1
    <2>7. QED  BY <2>3, <2>4, <2>5, <2>6
  <1>3. QED  BY <1>1, <1>2

LEMMA IngestNextType ==
    ASSUME IngestTypeOK, [IngestNext]_ingestVars
    PROVE  IngestTypeOK'
  <1> USE IngestAssumption DEF IngestTypeOK
  <1>1. ASSUME NEW k \in Pairs, Count(k) PROVE IngestTypeOK'
    <2>1. proxy' = [started |-> proxy.started,
                    count   |-> [proxy.count EXCEPT ![k] = @ + 1]]
      BY <1>1 DEF Count, Stats
    <2>2. [proxy.count EXCEPT ![k] = @ + 1] \in Counts /\ truth' \in Counts
      BY <1>1 DEF Count, Stats, Counts
    <2>3. QED  BY <1>1, <2>1, <2>2 DEF Count, db, Stats
  <1>2. CASE Publish
    BY <1>2 DEF Publish, db
  <1>3. CASE Restart
    BY <1>3 DEF Restart, db, Stats, Counts, Zero
  <1>4. ASSUME NEW p \in Pollers, Start(p) PROVE IngestTypeOK'
    BY <1>4 DEF Start, PollGoes, NoPoll, Zero, Poll, Counts, world, db
  <1>5. ASSUME NEW p \in Pollers, ReadStarted(p) PROVE IngestTypeOK'
    BY <1>5, PollTypes DEF ReadStarted, PollGoes, Poll, Stats, world, db
  <1>6. ASSUME NEW p \in Pollers, ReadServices(p) PROVE IngestTypeOK'
    BY <1>6, PollTypes DEF ReadServices, PollGoes, Poll, Stats, Counts, Zero, world, db
  <1>7. ASSUME NEW p \in Pollers, ReadCursor(p) PROVE IngestTypeOK'
    BY <1>7, PollTypes DEF ReadCursor, PollGoes, Poll, world, db
  <1>8. ASSUME NEW p \in Pollers, Commit(p) PROVE IngestTypeOK'
    <2>1. [poll[p] EXCEPT !.pc = "status"] \in Poll
      BY PollTypes DEF Poll
    <2>2. QED  BY <1>8, <2>1, StoreType, PollTypes DEF Commit, PollGoes, world
  <1>9. ASSUME NEW p \in Pollers, Fail(p) PROVE IngestTypeOK'
    BY <1>9, PollTypes DEF Fail, PollGoes, Poll, world, db
  <1>10. ASSUME NEW p \in Pollers, WriteStatus(p) PROVE IngestTypeOK'
    <2>1. NoPoll \in Poll
      BY DEF NoPoll, Zero, Poll, Counts, Instants
    <2>2. poll[p].now \in Instants
      BY PollTypes DEF Poll
    <2>3. QED  BY <1>10, <2>1, <2>2 DEF WriteStatus, PollGoes, world, db
  <1>11. CASE Crash
    BY <1>11 DEF Crash, NoPoll, Zero, Poll, Counts, Instants, world, db
  <1>12. CASE Tick
    BY <1>12 DEF Tick, db
  <1>13. CASE UNCHANGED ingestVars
    BY <1>13 DEF ingestVars, world, db
  <1>14. QED
    BY <1>1, <1>2, <1>3, <1>4, <1>5, <1>6, <1>7, <1>8, <1>9, <1>10, <1>11, <1>12, <1>13
    DEF IngestNext

\* Type correctness of the traffic ingest, for any number of polls at a time.
THEOREM IngestTypeCorrect == IngestSpec => []IngestTypeOK
  BY IngestInitType, IngestNextType, PTL DEF IngestSpec

-----------------------------------------------------------------------------
(* TrafficIngest: what is counted on the way is counted once *)

\* What a counter gains from one reading to the next; going back is no gain.
Gain(a, b) == IF a <= b THEN b - a ELSE 0

\* The readings of a pair, oldest first: the cursor's, the one the poll holds
\* (or the cursor's again), the file's and the running proxy's.
Recorded(k) == IF cursor = None THEN 0 ELSE cursor.count[k]
Held(p, k) == IF poll[p].pc \in {"cursor", "commit"} THEN poll[p].services[k] ELSE Recorded(k)
Published(k) == IF file = None THEN 0 ELSE file.count[k]
Running(k) == proxy.count[k]

\* What is still to gain on the way to the total is among what has been counted
\* and is not in the total yet. STARTED plays no part: a baseline gains nothing,
\* and two proxies of one second are only two more readings.
OnTheWay(p, k) == /\ rollup[k] <= truth[k]
                  /\ Gain(Recorded(k), Held(p, k)) + Gain(Held(p, k), Published(k))
                        + Gain(Published(k), Running(k)) <= truth[k] - rollup[k]

\* With one poll at a time the cursor it read is still the cursor when it commits.
SeenOK(p) == poll[p].pc = "commit" => poll[p].seen = cursor

IngestOK(p) == /\ IngestTypeOK
               /\ SeenOK(p)
               /\ \A k \in Pairs : OnTheWay(p, k)

LEMMA ReadingTypes ==
    ASSUME IngestTypeOK, NEW p \in Pollers, NEW k \in Pairs
    PROVE  /\ Recorded(k) \in Nat /\ Held(p, k) \in Nat
           /\ Published(k) \in Nat /\ Running(k) \in Nat
           /\ truth[k] \in Nat /\ rollup[k] \in Nat
  BY PollTypes DEF IngestTypeOK, Recorded, Held, Published, Running, Stats, Cursor, Counts, Poll

\* A commit adds to the total at most what the reading gains on the cursor, and
\* the cursor moves to the reading, or stays if the reading is silent on the pair.
LEMMA CommitGains ==
    ASSUME IngestTypeOK, NEW p \in Pollers, SeenOK(p), Commit(p), NEW k \in Pairs
    PROVE  \/ Recorded(k)' = Recorded(k) /\ rollup'[k] = rollup[k]
           \/ /\ Recorded(k)' = poll[p].services[k]
              /\ \/ rollup'[k] = rollup[k]
                 \/ rollup'[k] = rollup[k] + Gain(Recorded(k), poll[p].services[k])
  <1> DEFINE r == poll[p]
  <1>1. r \in Poll /\ r.seen = cursor /\ Store(r)
    BY PollTypes DEF SeenOK, Commit, At
  <1>2. CASE Duplicate(r)
    BY <1>1, <1>2 DEF Store, db, Recorded
  <1>3. CASE ~Duplicate(r)
    <2>1. /\ cursor' = NextCursor(r)
          /\ rollup'[k] = rollup[k] + Rows(r)[k]
      BY <1>1, <1>3 DEF Store
    <2>2. cursor' # None
      BY <1>1, <2>1, NextCursorType, NoneAssumption
    <2>3. CASE Baseline(r)
      BY <2>1, <2>2, <2>3, ReadingTypes DEF Rows, NextCursor, Zero, Recorded
    <2>4. CASE ~Baseline(r)
      <3>1. r.seen # None /\ Recorded(k) = r.seen.count[k]
        BY <1>1, <2>4 DEF Baseline, Recorded
      <3>2. r.services[k] \in Nat /\ Recorded(k) \in Nat
        BY <1>1, ReadingTypes DEF Poll, Counts
      <3>3. rollup'[k] = rollup[k] + Gain(Recorded(k), r.services[k])
        BY <2>1, <2>4, <3>1, <3>2 DEF Rows, IntervalOf, Gain
      <3>4. Recorded(k)' = IF r.services[k] = 0 THEN Recorded(k) ELSE r.services[k]
        BY <2>1, <2>2, <2>4, <3>1 DEF NextCursor, Merged, Recorded
      <3>5. CASE r.services[k] = 0
        BY <3>2, <3>3, <3>4, <3>5, ReadingTypes DEF Gain
      <3>6. CASE r.services[k] # 0
        BY <3>3, <3>4, <3>6
      <3>7. QED  BY <3>5, <3>6
    <2>5. QED  BY <2>3, <2>4
  <1>4. QED  BY <1>2, <1>3

\* The arithmetic of a commit: the file and the proxy are where they were.
LEMMA CommitKeepsTheWay ==
    ASSUME IngestTypeOK, NEW p \in Pollers, SeenOK(p), Commit(p), NEW k \in Pairs,
           OnTheWay(p, k)
    PROVE  OnTheWay(p, k)'
  <1> DEFINE s == poll[p].services[k]
  <1>1. At(p, "commit") /\ poll'[p].pc = "status"
    BY PollTypes DEF Commit, PollGoes, Poll, IngestTypeOK
  <1>2. Held(p, k) = s /\ Held(p, k)' = Recorded(k)'
    BY <1>1 DEF Held, At
  <1>3. /\ Published(k)' = Published(k) /\ Running(k)' = Running(k)
        /\ truth' = truth
    BY DEF Commit, world, Published, Running
  <1>4. /\ Recorded(k) \in Nat /\ s \in Nat /\ Published(k) \in Nat
        /\ Running(k) \in Nat /\ truth[k] \in Nat /\ rollup[k] \in Nat
    BY <1>2, ReadingTypes
  <1>5. CASE Recorded(k)' = Recorded(k) /\ rollup'[k] = rollup[k]
    BY <1>2, <1>3, <1>4, <1>5 DEF OnTheWay, Gain
  <1>6. CASE /\ Recorded(k)' = s
             /\ \/ rollup'[k] = rollup[k]
                \/ rollup'[k] = rollup[k] + Gain(Recorded(k), s)
    BY <1>2, <1>3, <1>4, <1>6 DEF OnTheWay, Gain
  <1>7. QED  BY <1>5, <1>6, CommitGains

LEMMA IngestNextWay ==
    ASSUME NEW p, Pollers = {p}, IngestOK(p), [IngestNext]_ingestVars
    PROVE  IngestOK(p)'
  <1> USE DEF IngestOK
  <1>1. IngestTypeOK'
    BY IngestNextType
  <1>2. p \in Pollers
    OBVIOUS
  <1>3. poll[p] \in Poll /\ poll \in [Pollers -> Poll]
    BY <1>2 DEF IngestTypeOK
  <1>4. ASSUME NEW k \in Pairs
        PROVE  /\ Recorded(k) \in Nat /\ Held(p, k) \in Nat
               /\ Published(k) \in Nat /\ Running(k) \in Nat
               /\ truth[k] \in Nat /\ rollup[k] \in Nat
    BY <1>2, ReadingTypes
  <1>5. ASSUME NEW j \in Pairs, Count(j) PROVE SeenOK(p)' /\ \A k \in Pairs : OnTheWay(p, k)'
    <2>1. SeenOK(p)'
      BY <1>5 DEF Count, db, SeenOK
    <2>2. ASSUME NEW k \in Pairs PROVE OnTheWay(p, k)'
      <3>1. /\ Recorded(k)' = Recorded(k) /\ Held(p, k)' = Held(p, k)
            /\ Published(k)' = Published(k) /\ rollup' = rollup
        BY <1>5 DEF Count, db, Recorded, Held, Published
      <3>2. /\ truth'[k] = IF k = j THEN truth[k] + 1 ELSE truth[k]
            /\ Running(k)' = IF k = j THEN Running(k) + 1 ELSE Running(k)
        BY <1>5 DEF Count, Running, IngestTypeOK, Stats, Counts
      <3>3. QED  BY <1>4, <3>1, <3>2 DEF OnTheWay, Gain
    <2>3. QED  BY <2>1, <2>2
  <1>6. CASE Publish
    <2>1. SeenOK(p)'
      BY <1>6 DEF Publish, db, SeenOK
    <2>2. ASSUME NEW k \in Pairs PROVE OnTheWay(p, k)'
      <3>1. /\ Recorded(k)' = Recorded(k) /\ Held(p, k)' = Held(p, k)
            /\ Running(k)' = Running(k) /\ rollup' = rollup /\ truth' = truth
        BY <1>6 DEF Publish, db, Recorded, Held, Running
      <3>2. Published(k)' = Running(k)
        BY <1>6, NoneAssumption DEF Publish, Published, Running, IngestTypeOK
      <3>3. QED  BY <1>4, <3>1, <3>2 DEF OnTheWay, Gain
    <2>3. QED  BY <1>1, <2>1, <2>2
  <1>7. CASE Restart
    <2>1. SeenOK(p)'
      BY <1>7 DEF Restart, db, SeenOK
    <2>2. ASSUME NEW k \in Pairs PROVE OnTheWay(p, k)'
      <3>1. /\ Recorded(k)' = Recorded(k) /\ Held(p, k)' = Held(p, k)
            /\ Running(k)' = 0 /\ rollup' = rollup /\ truth' = truth
        BY <1>7 DEF Restart, db, Recorded, Held, Running, Zero
      <3>2. Published(k)' \in {Published(k), 0}
        BY <1>7 DEF Restart, Published
      <3>3. QED  BY <1>4, <3>1, <3>2 DEF OnTheWay, Gain
    <2>3. QED  BY <1>1, <2>1, <2>2
  \* A step of the poll that leaves the world and the database alone.
  <1>8. ASSUME UNCHANGED <<world, db>>,
               \A k \in Pairs : Held(p, k)' \in {Held(p, k), Recorded(k), Published(k)}
        PROVE  \A k \in Pairs : OnTheWay(p, k)'
    <2>1. ASSUME NEW k \in Pairs PROVE OnTheWay(p, k)'
      <3>1. /\ Recorded(k)' = Recorded(k) /\ Published(k)' = Published(k)
            /\ Running(k)' = Running(k) /\ rollup' = rollup /\ truth' = truth
        BY <1>8 DEF world, db, Recorded, Published, Running
      <3>2. Held(p, k)' \in {Held(p, k), Recorded(k), Published(k)}
        BY <1>8
      <3>3. QED  BY <1>4, <3>1, <3>2 DEF OnTheWay, Gain
    <2>2. QED  BY <2>1
  <1>9. CASE Start(p)
    <2>1. poll'[p].pc = "started"
      BY <1>3, <1>9 DEF Start, PollGoes, NoPoll
    <2>2. UNCHANGED <<world, db>> /\ \A k \in Pairs : Held(p, k)' = Recorded(k)
      BY <1>9, <2>1 DEF Start, db, Held, Recorded
    <2>3. QED  BY <1>1, <1>8, <2>1, <2>2 DEF SeenOK
  <1>10. CASE ReadStarted(p)
    <2>1. poll'[p].pc = "services"
      BY <1>3, <1>10 DEF ReadStarted, PollGoes, Poll
    <2>2. UNCHANGED <<world, db>> /\ \A k \in Pairs : Held(p, k)' = Recorded(k)
      BY <1>10, <2>1 DEF ReadStarted, db, Held, Recorded
    <2>3. QED  BY <1>1, <1>8, <2>1, <2>2 DEF SeenOK
  <1>11. CASE ReadServices(p)
    <2>1. /\ poll'[p].pc = "cursor"
          /\ poll'[p].services = IF file = None THEN Zero ELSE file.count
      BY <1>3, <1>11 DEF ReadServices, PollGoes, Poll
    <2>2. UNCHANGED <<world, db>> /\ \A k \in Pairs : Held(p, k)' = Published(k)
      BY <1>11, <2>1 DEF ReadServices, Held, Published, Zero
    <2>3. QED  BY <1>1, <1>8, <2>1, <2>2 DEF SeenOK
  <1>12. CASE ReadCursor(p)
    <2>1. /\ poll[p].pc = "cursor" /\ poll'[p].pc = "commit"
          /\ poll'[p].services = poll[p].services /\ poll'[p].seen = cursor
          /\ UNCHANGED <<world, db>>
      BY <1>3, <1>12 DEF ReadCursor, PollGoes, Poll, At
    <2>2. \A k \in Pairs : Held(p, k)' = Held(p, k)
      BY <2>1 DEF Held
    <2>3. QED  BY <1>1, <1>8, <2>1, <2>2 DEF SeenOK, db
  <1>13. CASE Commit(p)
    <2>1. poll'[p].pc = "status"
      BY <1>3, <1>13 DEF Commit, PollGoes, Poll
    <2>2. QED  BY <1>1, <1>2, <1>13, <2>1, CommitKeepsTheWay DEF SeenOK
  <1>14. CASE Fail(p)
    <2>1. poll'[p].pc = "status"
      BY <1>3, <1>14 DEF Fail, PollGoes, Poll
    <2>2. UNCHANGED <<world, db>> /\ \A k \in Pairs : Held(p, k)' = Recorded(k)
      BY <1>14, <2>1 DEF Fail, db, Held, Recorded
    <2>3. QED  BY <1>1, <1>8, <2>1, <2>2 DEF SeenOK
  <1>15. CASE WriteStatus(p)
    <2>1. poll'[p].pc = "idle"
      BY <1>3, <1>15 DEF WriteStatus, PollGoes, NoPoll
    <2>2. UNCHANGED <<world, db>> /\ \A k \in Pairs : Held(p, k)' = Recorded(k)
      BY <1>15, <2>1 DEF WriteStatus, db, Held, Recorded
    <2>3. QED  BY <1>1, <1>8, <2>1, <2>2 DEF SeenOK
  <1>16. CASE Crash
    <2>1. poll'[p].pc = "idle"
      BY <1>2, <1>16 DEF Crash, NoPoll
    <2>2. UNCHANGED <<world, db>> /\ \A k \in Pairs : Held(p, k)' = Recorded(k)
      BY <1>16, <2>1 DEF Crash, db, Held, Recorded
    <2>3. QED  BY <1>1, <1>8, <2>1, <2>2 DEF SeenOK
  \* The clock and the stutter.
  <1>17. CASE UNCHANGED <<proxy, truth, file, poll, db>>
    <2>1. SeenOK(p)'
      BY <1>17 DEF db, SeenOK
    <2>2. ASSUME NEW k \in Pairs PROVE OnTheWay(p, k)'
      BY <1>17, <2>2 DEF db, OnTheWay, Recorded, Held, Published, Running
    <2>3. QED  BY <1>1, <2>1, <2>2
  <1>18. CASE Tick
    BY <1>17, <1>18 DEF Tick
  <1>19. CASE UNCHANGED ingestVars
    BY <1>17, <1>19 DEF ingestVars, world
  <1>20. QED
    BY <1>1, <1>2, <1>5, <1>6, <1>7, <1>9, <1>10, <1>11, <1>12, <1>13, <1>14, <1>15, <1>16,
       <1>18, <1>19
    DEF IngestNext

LEMMA IngestInitWay ==
    ASSUME NEW p, Pollers = {p}, IngestInit
    PROVE  IngestOK(p)
  <1>1. IngestTypeOK
    BY IngestInitType
  <1>2. SeenOK(p)
    BY DEF IngestInit, NoPoll, SeenOK
  <1>3. ASSUME NEW k \in Pairs PROVE OnTheWay(p, k)
    BY <1>3 DEF IngestInit, NoPoll, Zero, OnTheWay, Recorded, Held, Published, Running, Gain
  <1>4. QED  BY <1>1, <1>2, <1>3 DEF IngestOK

\* With one poll at a time no byte is counted twice, whatever restarts, repeated
\* STARTED seconds, clock steps, crashes and failed transactions come between
\* (ingestServiceTraffic, diffAgainstCursor, writeIngest).
THEOREM IngestNeverOvercounts ==
    ASSUME NEW p, Pollers = {p}
    PROVE  IngestSpec => []NeverOvercounts
  <1>1. IngestInit => IngestOK(p)
    BY IngestInitWay
  <1>2. IngestOK(p) /\ [IngestNext]_ingestVars => IngestOK(p)'
    BY IngestNextWay
  <1>3. IngestOK(p) => NeverOvercounts
    BY DEF IngestOK, OnTheWay, NeverOvercounts
  <1>4. QED  BY <1>1, <1>2, <1>3, PTL DEF IngestSpec

\* Nothing but a commit moves the cursor, and a commit that does moves it to what
\* the poll has read.
LEMMA CommitFollows ==
    ASSUME IngestTypeOK, NEW p \in Pollers, SeenOK(p), Commit(p)
    PROVE  RollupFollowsCursor
  <1> DEFINE r == poll[p]
             advance == [started |-> cursor'.started, now |-> cursor'.at, seen |-> cursor]
  <1>1. r \in Poll /\ r.seen = cursor /\ Store(r)
    BY PollTypes DEF SeenOK, Commit, At
  <1>2. SUFFICES ASSUME cursor' # cursor, ~Baseline(advance), cursor # None, NEW k \in Pairs
                 PROVE  rollup'[k] - rollup[k] = IF cursor'.count[k] < cursor.count[k] THEN 0
                                                 ELSE cursor'.count[k] - cursor.count[k]
    BY DEF RollupFollowsCursor
  <1>3. /\ cursor' = NextCursor(r)
        /\ rollup'[k] = rollup[k] + Rows(r)[k]
    BY <1>1, <1>2 DEF Store, db
  <1>4. ~Baseline(r)
    BY <1>1, <1>2, <1>3 DEF Baseline, NextCursor
  <1>5. /\ cursor'.count[k] = IF r.services[k] = 0 THEN cursor.count[k] ELSE r.services[k]
        /\ rollup'[k] = rollup[k] + IntervalOf(r, k)
    BY <1>1, <1>3, <1>4 DEF NextCursor, Merged, Rows
  <1>6. cursor.count[k] \in Nat /\ r.services[k] \in Nat /\ rollup[k] \in Nat
    BY <1>1, <1>2 DEF IngestTypeOK, Cursor, Counts, Poll
  <1>7. QED  BY <1>1, <1>5, <1>6 DEF IntervalOf

LEMMA IngestNextFollows ==
    ASSUME NEW p, Pollers = {p}, IngestOK(p), [IngestNext]_ingestVars
    PROVE  [RollupFollowsCursor]_db
  <1>1. CASE Commit(p)
    BY <1>1, CommitFollows DEF IngestOK
  <1>2. CASE UNCHANGED db
    BY <1>2
  <1>3. QED
    BY <1>1, <1>2
    DEF IngestNext, ingestVars, Count, Publish, Restart, Start, ReadStarted, ReadServices,
        ReadCursor, Fail, WriteStatus, Crash, Tick

\* With one poll at a time the cursor and the month's totals move together, so
\* that no byte between two readings of one proxy is lost (writeIngest).
THEOREM IngestMovesTogether ==
    ASSUME NEW p, Pollers = {p}
    PROVE  IngestSpec => CursorAndRollupMoveTogether
  <1>1. IngestInit => IngestOK(p)
    BY IngestInitWay
  <1>2. IngestOK(p) /\ [IngestNext]_ingestVars => IngestOK(p)'
    BY IngestNextWay
  <1>3. IngestOK(p) /\ [IngestNext]_ingestVars => [RollupFollowsCursor]_db
    BY IngestNextFollows
  <1>4. IngestOK(p) => IngestTypeOK
    BY DEF IngestOK
  <1>5. QED
    BY <1>1, <1>2, <1>3, <1>4, PTL DEF IngestSpec, CursorAndRollupMoveTogether

-----------------------------------------------------------------------------
(* ProxyRelay: types *)

LEMMA BegunType ==
    ASSUME TypeOK, Begun
    PROVE  pass' \in Pass /\ tokens' \in 0..Burst
  BY RelayAssumption DEF Begun, TypeOK, Pass, Unlimited, Dirs, Nothing, PerDir

LEMMA WantedType ==
    ASSUME TypeOK, NEW d \in Dirs
    PROVE  /\ Wanted(pump[d]) \in Nat
           /\ Wanted(pump[d]) <= pass.budget
           /\ Wanted(pump[d]) + pump[d].buffered <= PipeCap
  BY RelayAssumption DEF Wanted, TypeOK, Pump, Pass

LEMMA AfterType ==
    ASSUME TypeOK, NEW b \in BOOLEAN
    PROVE  After(b) \in Pass
  BY DEF After, TypeOK, Pass, Dirs

\* The cases of a step of the worker, as assignments to records.
FillIdle(d) ==
    /\ Wanted(pump[d]) = 0
    /\ pass' = [pass EXCEPT !.at = "drain"]
    /\ UNCHANGED <<pump, source, dest>>
FillBytes(d, n) ==
    /\ n \in Nat /\ 1 <= n /\ n <= source[d].unread /\ n <= Wanted(pump[d])
    /\ pump' = [pump EXCEPT ![d] = [pump[d] EXCEPT !.buffered = pump[d].buffered + n]]
    /\ source' = [source EXCEPT ![d] = [source[d] EXCEPT !.unread = source[d].unread - n]]
    /\ pass' = [at |-> "drain", dir |-> d, progress |-> TRUE, budget |-> pass.budget - n,
                moved |-> [pass.moved EXCEPT ![d] = pass.moved[d] + n]]
    /\ UNCHANGED dest
FillEmpty(d) ==
    /\ Wanted(pump[d]) # 0 /\ source[d].unread = 0
    /\ pump' = [pump EXCEPT ![d] = [pump[d] EXCEPT !.eof = source[d].fin]]
    /\ pass' = [pass EXCEPT !.at = "drain", !.progress = pass.progress \/ source[d].fin]
    /\ UNCHANGED <<source, dest>>
Errs == pass' = [pass EXCEPT !.at = "failed"] /\ UNCHANGED <<pump, source, dest>>

LEMMA FillCases ==
    ASSUME TypeOK, Fill
    PROVE  \/ Errs /\ \E d \in Dirs : d = pass.dir /\ Wanted(pump[d]) > 0
           \/ \E d \in Dirs : /\ d = pass.dir
                              /\ \/ FillIdle(d)
                                 \/ \E n \in Nat : FillBytes(d, n)
                                 \/ FillEmpty(d)
  <1> DEFINE d == pass.dir
             Broken == Source(d) \in reset /\ Wanted(pump[d]) > 0
  <1>1. d \in Dirs /\ pump[d] \in Pump /\ source[d] \in SourceEnd /\ pass \in Pass
    BY DEF TypeOK, Pass
  <1>2. CASE Broken
    BY <1>1, <1>2 DEF Fails, Errs, Fill
  <1>3. CASE Wanted(pump[d]) = 0 /\ ~Broken
    BY <1>1, <1>3 DEF Fill, Filled, Goes, FillIdle
  <1>4. CASE Wanted(pump[d]) # 0 /\ source[d].unread > 0 /\ ~Broken
    <2>1. PICK n \in 1..source[d].unread :
             /\ n <= Wanted(pump[d])
             /\ pump' = [pump EXCEPT ![d].buffered = @ + n]
             /\ source' = [source EXCEPT ![d].unread = @ - n]
             /\ pass' = [pass EXCEPT !.at = "drain", !.progress = TRUE, !.budget = @ - n,
                                     !.moved = [pass.moved EXCEPT ![d] = @ + n]]
             /\ UNCHANGED dest
      BY <1>4 DEF Fill, Filled, Goes
    <2>2. n \in Nat /\ 1 <= n /\ n <= source[d].unread
      BY <1>1, <2>1 DEF SourceEnd
    <2>3. FillBytes(d, n)
      BY <1>1, <2>1, <2>2 DEF FillBytes, Pass, TypeOK
    <2>4. QED  BY <1>1, <2>2, <2>3
  <1>5. CASE Wanted(pump[d]) # 0 /\ ~(source[d].unread > 0) /\ ~Broken
    <2>1. source[d].unread = 0
      BY <1>1, <1>5 DEF SourceEnd
    <2>2. FillEmpty(d)
      BY <1>1, <1>5, <2>1 DEF Fill, Filled, Goes, FillEmpty, TypeOK
    <2>3. QED  BY <1>1, <2>2
  <1>6. QED  BY <1>2, <1>3, <1>4, <1>5

Drained(d, n) ==
    LET left == [pump[d] EXCEPT !.buffered = pump[d].buffered - n] IN
    /\ n \in 0..pump[d].buffered
    /\ n <= dest[d].room
    /\ n = 0 => pump[d].buffered = 0 \/ dest[d].room = 0
    /\ pump' = [pump EXCEPT ![d] = [left EXCEPT !.shut = left.shut \/ Finished(left)]]
    /\ dest' = [dest EXCEPT ![d] =
                  [room    |-> dest[d].room - n,
                   nospace |-> dest[d].nospace \/ pump[d].buffered > dest[d].room,
                   got     |-> dest[d].got + n]]
    /\ pass' = After(pass.progress \/ n > 0)
    /\ UNCHANGED source

LEMMA DrainCases ==
    ASSUME TypeOK, Drain
    PROVE  \/ Errs /\ \E d \in Dirs : d = pass.dir /\ pump[d].buffered > 0
           \/ \E d \in Dirs : d = pass.dir /\ \E n \in Nat : Drained(d, n)
  <1> DEFINE d == pass.dir
  <1>1. d \in Dirs /\ pump[d] \in Pump /\ dest[d] \in DestEnd
    BY DEF TypeOK, Pass
  <1>2. CASE Destination(d) \in reset /\ pump[d].buffered > 0
    BY <1>1, <1>2 DEF Drain, Fails, Errs
  <1>3. CASE ~(Destination(d) \in reset /\ pump[d].buffered > 0)
    <2>1. PICK n \in 0..pump[d].buffered :
              LET left == [pump[d] EXCEPT !.buffered = @ - n] IN
              /\ n <= dest[d].room
              /\ n = 0 => pump[d].buffered = 0 \/ dest[d].room = 0
              /\ pump' = [pump EXCEPT ![d] = [left EXCEPT !.shut = @ \/ Finished(left)]]
              /\ dest' = [dest EXCEPT ![d] =
                            [room    |-> @.room - n,
                             nospace |-> @.nospace \/ pump[d].buffered > @.room,
                             got     |-> @.got + n]]
              /\ pass' = After(pass.progress \/ n > 0)
              /\ UNCHANGED source
      BY <1>3 DEF Drain, Goes
    <2>2. n \in Nat
      BY <1>1, <2>1 DEF Pump
    <2>3. Drained(d, n)
      BY <1>1, <2>1, <2>2 DEF Drained, TypeOK
    <2>4. QED  BY <1>1, <2>2, <2>3
  <1>4. QED  BY <1>2, <1>3

\* What a relay pass leaves alone between its start and its end.
Apart == <<reset, edge, retry, bucket, counted>>

LEMMA RelayInitType == Init => TypeOK
  <1> SUFFICES ASSUME Init PROVE TypeOK
    OBVIOUS
  <1>1. [buffered |-> 0, eof |-> FALSE, shut |-> FALSE] \in Pump
    BY RelayAssumption DEF Pump
  <1>2. [sent |-> 0, unread |-> 0, fin |-> FALSE] \in SourceEnd
    BY DEF SourceEnd
  <1>3. [room |-> SendBuffer, nospace |-> FALSE, got |-> 0] \in DestEnd
    BY RelayAssumption DEF DestEnd
  <1>4. Nothing \in PerDir /\ "out" \in Dirs
    BY DEF Nothing, PerDir, Dirs
  <1>5. pass \in Pass
    BY <1>4 DEF Init, Pass
  <1>6. tokens \in 0..Burst
    BY RelayAssumption DEF Init
  <1>7. QED  BY <1>1, <1>2, <1>3, <1>4, <1>5, <1>6 DEF Init, TypeOK

LEMMA FillStepType ==
    ASSUME TypeOK, NEW d \in Dirs, d = pass.dir, UNCHANGED Apart,
           FillIdle(d) \/ (\E n \in Nat : FillBytes(d, n)) \/ FillEmpty(d)
    PROVE  TypeOK'
  <1>1. pump[d] \in Pump /\ source[d] \in SourceEnd /\ pass \in Pass /\ pass.moved \in PerDir
    BY DEF TypeOK, Pass
  <1>2. UNCHANGED <<reset, edge, retry, limited, tokens, counted>>
    BY DEF Apart, bucket
  <1>3. CASE FillIdle(d)
    BY <1>1, <1>2, <1>3 DEF FillIdle, TypeOK, Pass
  <1>4. ASSUME NEW n \in Nat, FillBytes(d, n) PROVE TypeOK'
    <2>1. [pump[d] EXCEPT !.buffered = pump[d].buffered + n] \in Pump
      BY <1>1, <1>4, WantedType, RelayAssumption DEF FillBytes, Pump
    <2>2. [source[d] EXCEPT !.unread = source[d].unread - n] \in SourceEnd
      BY <1>1, <1>4 DEF FillBytes, SourceEnd
    <2>3. pass' \in Pass
      <3>1. pass.budget - n \in Nat
        BY <1>1, <1>4, WantedType DEF FillBytes, Pass
      <3>2. [pass.moved EXCEPT ![d] = pass.moved[d] + n] \in PerDir
        BY <1>1 DEF PerDir
      <3>3. QED  BY <1>1, <1>4, <3>1, <3>2 DEF FillBytes, Pass
    <2>4. QED  BY <1>2, <1>4, <2>1, <2>2, <2>3 DEF FillBytes, TypeOK
  <1>5. CASE FillEmpty(d)
    <2>1. [pump[d] EXCEPT !.eof = source[d].fin] \in Pump
      BY <1>1 DEF Pump, SourceEnd
    <2>2. pass' \in Pass
      BY <1>1, <1>5 DEF FillEmpty, Pass, SourceEnd
    <2>3. QED  BY <1>2, <1>5, <2>1, <2>2 DEF FillEmpty, TypeOK
  <1>6. QED  BY <1>3, <1>4, <1>5

LEMMA DrainStepType ==
    ASSUME TypeOK, NEW d \in Dirs, d = pass.dir, UNCHANGED Apart, NEW n \in Nat, Drained(d, n)
    PROVE  TypeOK'
  <1> DEFINE left == [pump[d] EXCEPT !.buffered = pump[d].buffered - n]
  <1>1. pump[d] \in Pump /\ dest[d] \in DestEnd /\ pass \in Pass
    BY DEF TypeOK
  <1>2. left \in Pump
    BY <1>1, RelayAssumption DEF Drained, Pump
  <1>3. [left EXCEPT !.shut = left.shut \/ Finished(left)] \in Pump
    BY <1>2 DEF Pump, Finished
  <1>4. [room    |-> dest[d].room - n,
         nospace |-> dest[d].nospace \/ pump[d].buffered > dest[d].room,
         got     |-> dest[d].got + n] \in DestEnd
    BY <1>1, RelayAssumption DEF Drained, DestEnd, Pump
  <1>5. pass' \in Pass
    BY <1>1, AfterType DEF Drained, Pass
  <1>6. QED  BY <1>3, <1>4, <1>5 DEF Drained, TypeOK, Apart, bucket

LEMMA RelayNextType ==
    ASSUME TypeOK, [Next]_vars
    PROVE  TypeOK'
  <1>1. CASE Wake
    BY <1>1, BegunType DEF Wake, TypeOK, kernel
  <1>2. CASE Errs /\ UNCHANGED Apart
    BY <1>2 DEF Errs, TypeOK, Pass, Apart, bucket
  <1>3. CASE Fill
    BY <1>2, <1>3, FillCases, FillStepType DEF Fill, Apart
  <1>4. CASE Drain
    BY <1>2, <1>4, DrainCases, DrainStepType DEF Drain, Apart
  <1>5. CASE End
    <2>1. pass' \in Pass /\ counted' \in PerDir /\ retry' \in BOOLEAN
      <3>1. Nothing \in PerDir
        BY DEF Nothing, PerDir
      <3>2. pass' \in Pass
        BY <1>5, <3>1 DEF End, Goes, TypeOK, Pass
      <3>3. counted' \in PerDir
        BY <1>5 DEF End, Tally, TypeOK, Pass, PerDir
      <3>4. retry' \in BOOLEAN
        BY <1>5 DEF End
      <3>5. QED  BY <3>2, <3>3, <3>4
    <2>2. QED  BY <1>5, <2>1 DEF End, TypeOK, kernel, bucket
  <1>6. ASSUME NEW d \in Dirs, Send(d) PROVE TypeOK'
    BY <1>6 DEF Send, TypeOK, SourceEnd, bucket
  <1>7. ASSUME NEW d \in Dirs, HalfClose(d) PROVE TypeOK'
    BY <1>7 DEF HalfClose, TypeOK, SourceEnd, bucket
  <1>8. ASSUME NEW d \in Dirs, Read(d) PROVE TypeOK'
    <2>1. PICK wakes \in {dest[d].nospace}
                           \cup (IF dest[d].room + 1 < SendBuffer THEN {FALSE} ELSE {}) :
             /\ dest' = [dest EXCEPT ![d] = [room |-> @.room + 1, nospace |-> @.nospace /\ ~wakes,
                                             got |-> @.got]]
             /\ edge' = (edge \/ wakes)
      BY <1>8 DEF Read
    <2>2. wakes \in BOOLEAN
      BY DEF TypeOK, DestEnd
    <2>3. [room |-> dest[d].room + 1, nospace |-> dest[d].nospace /\ ~wakes,
           got |-> dest[d].got] \in DestEnd
      BY <1>8, <2>2, RelayAssumption DEF Read, TypeOK, DestEnd
    <2>4. dest' \in [Dirs -> DestEnd] /\ edge' \in BOOLEAN
      BY <2>1, <2>2, <2>3 DEF TypeOK
    <2>5. QED  BY <1>8, <2>4 DEF Read, TypeOK, bucket
  <1>9. ASSUME NEW side \in Sides, Reset(side) PROVE TypeOK'
    BY <1>9 DEF Reset, TypeOK, bucket
  <1>10. CASE Refill
    BY <1>10, RelayAssumption DEF Refill, TypeOK, kernel
  <1>11. CASE UNCHANGED vars
    BY <1>11 DEF vars, kernel, bucket, TypeOK
  <1>12. QED
    BY <1>1, <1>3, <1>4, <1>5, <1>6, <1>7, <1>8, <1>9, <1>10, <1>11 DEF Next, Worker

-----------------------------------------------------------------------------
(* ProxyRelay: streams *)

\* Every byte sent is unread, in the pipe or delivered; and the bound on sending.
BytesOK == \A d \in Dirs :
    /\ source[d].sent = source[d].unread + pump[d].buffered + dest[d].got
    /\ source[d].sent <= MaxSent[d]

\* End of file is seen when nothing is left to read, and passed on in the very step
\* that finishes the pump, or in the second half of the step that saw it.
EndsOK == \A d \in Dirs :
    /\ pump[d].eof => source[d].fin /\ source[d].unread = 0
    /\ pump[d].shut => Finished(pump[d])
    /\ Finished(pump[d]) /\ ~pump[d].shut => pass.at = "drain" /\ pass.dir = d
    /\ pass.at = "closed" => Finished(pump[d])

LEMMA FieldTypes ==
    ASSUME TypeOK, NEW d \in Dirs
    PROVE  /\ source[d].sent \in Nat /\ source[d].unread \in Nat /\ source[d].fin \in BOOLEAN
           /\ pump[d].buffered \in Nat /\ pump[d].buffered <= PipeCap
           /\ pump[d].eof \in BOOLEAN /\ pump[d].shut \in BOOLEAN
           /\ dest[d].room \in Nat /\ dest[d].got \in Nat /\ dest[d].nospace \in BOOLEAN
           /\ pass.budget \in Nat /\ pass.moved[d] \in Nat /\ pass.progress \in BOOLEAN
           /\ counted[d] \in Nat /\ tokens \in Nat /\ MaxSent[d] \in Nat
           /\ pass.dir \in Dirs
  BY RelayAssumption DEF TypeOK, SourceEnd, Pump, DestEnd, Pass, PerDir, MaxSent, Dirs

\* A step of one direction leaves the other alone.
OthersAlone(d) == \A e \in Dirs \ {d} :
    /\ pump'[e] = pump[e] /\ source'[e] = source[e] /\ dest'[e] = dest[e]
    /\ pass'.moved[e] = pass.moved[e]

\* What each step does to the fields of its own direction.
LEMMA FillBytesFields ==
    ASSUME TypeOK, NEW d \in Dirs, d = pass.dir, NEW n \in Nat, FillBytes(d, n)
    PROVE  /\ pump'[d].buffered = pump[d].buffered + n
           /\ pump'[d].eof = pump[d].eof /\ pump'[d].shut = pump[d].shut
           /\ source'[d].unread = source[d].unread - n
           /\ source'[d].sent = source[d].sent /\ source'[d].fin = source[d].fin
           /\ pass'.moved[d] = pass.moved[d] + n
           /\ pass'.at = "drain" /\ pass'.dir = d /\ pass'.progress = TRUE
           /\ pass'.budget = pass.budget - n /\ dest' = dest
           /\ OthersAlone(d)
  <1>1. source[d] \in SourceEnd /\ pump[d] \in Pump /\ pass.moved \in PerDir
    BY DEF TypeOK, Pass
  <1>2. /\ pump'[d] = [pump[d] EXCEPT !.buffered = pump[d].buffered + n]
        /\ source'[d] = [source[d] EXCEPT !.unread = source[d].unread - n]
    BY DEF FillBytes, TypeOK
  <1>3. pass'.moved[d] = pass.moved[d] + n
    BY <1>1 DEF FillBytes, PerDir
  <1>4. OthersAlone(d)
    BY <1>1 DEF FillBytes, PerDir, OthersAlone, TypeOK
  <1>5. QED  BY <1>1, <1>2, <1>3, <1>4 DEF FillBytes, SourceEnd, Pump

LEMMA FillEmptyFields ==
    ASSUME TypeOK, NEW d \in Dirs, d = pass.dir, FillEmpty(d)
    PROVE  /\ pump'[d].buffered = pump[d].buffered /\ pump'[d].shut = pump[d].shut
           /\ pump'[d].eof = source[d].fin
           /\ source' = source /\ dest' = dest /\ source[d].unread = 0
           /\ pass'.at = "drain" /\ pass'.dir = d /\ pass'.moved = pass.moved
           /\ pass'.progress = (pass.progress \/ source[d].fin)
           /\ pass'.budget = pass.budget
           /\ OthersAlone(d)
  BY DEF FillEmpty, TypeOK, Pump, Pass, OthersAlone

LEMMA FillIdleFields ==
    ASSUME TypeOK, NEW d \in Dirs, d = pass.dir, FillIdle(d)
    PROVE  /\ pump' = pump /\ source' = source /\ dest' = dest
           /\ pass'.at = "drain" /\ pass'.dir = d /\ pass'.moved = pass.moved
           /\ pass'.progress = pass.progress /\ pass'.budget = pass.budget
  BY DEF FillIdle, TypeOK, Pass

LEMMA ErrsFields ==
    ASSUME TypeOK, Errs
    PROVE  /\ pump' = pump /\ source' = source /\ dest' = dest
           /\ pass'.at = "failed" /\ pass'.dir = pass.dir /\ pass'.moved = pass.moved
           /\ pass'.progress = pass.progress /\ pass'.budget = pass.budget
  BY DEF Errs, TypeOK, Pass

LEMMA DrainedFields ==
    ASSUME TypeOK, NEW d \in Dirs, d = pass.dir, NEW n \in Nat, Drained(d, n)
    PROVE  /\ pump'[d].buffered = pump[d].buffered - n /\ pump'[d].eof = pump[d].eof
           /\ pump'[d].shut <=> pump[d].shut \/ (pump[d].eof /\ pump[d].buffered = n)
           /\ dest'[d].got = dest[d].got + n
           /\ dest'[d].nospace <=> dest[d].nospace \/ pump[d].buffered > dest[d].room
           /\ n <= pump[d].buffered
           /\ n = 0 => pump[d].buffered = 0 \/ dest[d].room = 0
           /\ source' = source
           /\ pass'.moved = pass.moved /\ pass'.budget = pass.budget
           /\ d = "out" => /\ pass'.at = "fill" /\ pass'.dir = "in"
                           /\ pass'.progress <=> pass.progress \/ n > 0
           /\ d = "in" => /\ pass'.at = IF pass.progress \/ n > 0 THEN "fill" ELSE "end"
                          /\ pass'.dir = "out" /\ pass'.progress = FALSE
           /\ OthersAlone(d)
  <1> DEFINE left == [pump[d] EXCEPT !.buffered = pump[d].buffered - n]
  <1>1. pump[d] \in Pump /\ dest[d] \in DestEnd /\ pass \in Pass
    BY DEF TypeOK
  <1>2. /\ left.buffered = pump[d].buffered - n /\ left.eof = pump[d].eof
        /\ left.shut = pump[d].shut /\ left \in [buffered : Int, eof : BOOLEAN, shut : BOOLEAN]
    BY <1>1, FieldTypes DEF Pump
  <1>3. pump'[d] = [left EXCEPT !.shut = left.shut \/ Finished(left)]
    BY DEF Drained, TypeOK
  <1>4. dest'[d] = [room    |-> dest[d].room - n,
                    nospace |-> dest[d].nospace \/ pump[d].buffered > dest[d].room,
                    got     |-> dest[d].got + n]
    BY DEF Drained, TypeOK
  <1>5. n \in 0..pump[d].buffered /\ (n = 0 => pump[d].buffered = 0 \/ dest[d].room = 0)
        /\ source' = source
    BY DEF Drained
  <1>6. /\ pass'.moved = pass.moved /\ pass'.budget = pass.budget
        /\ d = "out" => /\ pass'.at = "fill" /\ pass'.dir = "in"
                        /\ pass'.progress = (pass.progress \/ n > 0)
        /\ d = "in" => /\ pass'.at = IF pass.progress \/ n > 0 THEN "fill" ELSE "end"
                       /\ pass'.dir = "out" /\ pass'.progress = FALSE
    BY <1>1 DEF Drained, After, Pass
  <1>7. /\ pump'[d].buffered = pump[d].buffered - n /\ pump'[d].eof = pump[d].eof
        /\ pump'[d].shut <=> pump[d].shut \/ (pump[d].eof /\ pump[d].buffered = n)
    <2>1. Finished(left) <=> pump[d].eof /\ pump[d].buffered = n
      BY <1>2, <1>5, FieldTypes DEF Finished
    <2>2. QED  BY <1>2, <1>3, <2>1
  <1>8. OthersAlone(d)
    BY <1>6 DEF Drained, OthersAlone, TypeOK
  <1>9. /\ dest'[d].got = dest[d].got + n /\ n <= pump[d].buffered
        /\ dest'[d].nospace <=> dest[d].nospace \/ pump[d].buffered > dest[d].room
    <2>1. dest'[d].nospace <=> dest[d].nospace \/ pump[d].buffered > dest[d].room
      <3>1. dest'[d].nospace = (dest[d].nospace \/ pump[d].buffered > dest[d].room)
        BY <1>4
      <3>2. QED  BY <3>1
    <2>2. dest'[d].got = dest[d].got + n /\ n <= pump[d].buffered
      BY <1>4, <1>5, FieldTypes
    <2>3. QED  BY <2>1, <2>2
  <1>10. QED  BY <1>5, <1>6, <1>7, <1>8, <1>9

LEMMA SendFields ==
    ASSUME TypeOK, NEW d \in Dirs, Send(d)
    PROVE  /\ source'[d].sent = source[d].sent + 1 /\ source'[d].unread = source[d].unread + 1
           /\ ~source'[d].fin /\ ~source[d].fin /\ source'[d].sent <= MaxSent[d]
           /\ edge' = TRUE
           /\ UNCHANGED <<pump, dest, pass, retry, limited, counted, tokens>>
           /\ OthersAlone(d)
  <1>1. source'[d] = [sent |-> source[d].sent + 1, unread |-> source[d].unread + 1,
                      fin |-> source[d].fin]
    BY DEF Send, TypeOK
  <1>2. source[d].sent < MaxSent[d] /\ ~source[d].fin
    BY DEF Send
  <1>3. OthersAlone(d)
    BY DEF Send, OthersAlone, TypeOK
  <1>4. QED  BY <1>1, <1>2, <1>3, FieldTypes DEF Send, bucket

LEMMA HalfCloseFields ==
    ASSUME TypeOK, NEW d \in Dirs, HalfClose(d), NEW e \in Dirs
    PROVE  /\ source'[e].sent = source[e].sent /\ source'[e].unread = source[e].unread
           /\ source[e].fin => source'[e].fin
           /\ edge' = TRUE
           /\ UNCHANGED <<pump, dest, pass, retry, limited, counted, tokens>>
  BY DEF HalfClose, TypeOK, SourceEnd, bucket

LEMMA ReadFields ==
    ASSUME TypeOK, NEW d \in Dirs, Read(d), NEW e \in Dirs
    PROVE  /\ dest'[e].got = dest[e].got
           /\ edge => edge'
           /\ dest[e].nospace => dest'[e].nospace \/ edge'
           /\ UNCHANGED <<pump, source, pass, retry, limited, counted, tokens>>
  <1>1. PICK wakes \in {dest[d].nospace}
                         \cup (IF dest[d].room + 1 < SendBuffer THEN {FALSE} ELSE {}) :
           /\ dest' = [dest EXCEPT ![d] = [room |-> @.room + 1, nospace |-> @.nospace /\ ~wakes,
                                           got |-> @.got]]
           /\ edge' = (edge \/ wakes)
    BY DEF Read
  <1>2. wakes \in BOOLEAN
    BY FieldTypes
  <1>3. dest'[e] = IF e = d THEN [room |-> dest[d].room + 1, nospace |-> dest[d].nospace /\ ~wakes,
                                  got |-> dest[d].got]
                   ELSE dest[e]
    BY <1>1 DEF TypeOK
  <1>4. dest'[e].got = dest[e].got /\ dest'[e].nospace = (dest[e].nospace /\ ~(e = d /\ wakes))
    BY <1>3, FieldTypes
  <1>5. QED  BY <1>1, <1>2, <1>4 DEF Read, bucket

\* Wake, and End, leave the sockets and the pipes alone.
LEMMA WakeFields ==
    ASSUME TypeOK, Wake
    PROVE  /\ pass.at = "idle" /\ pass'.at = "fill" /\ pass'.dir = "out" /\ pass'.progress = FALSE
           /\ pass'.moved = Nothing
           /\ pass'.budget = IF limited THEN tokens ELSE Unlimited
           /\ tokens' = IF limited THEN 0 ELSE tokens
           /\ UNCHANGED <<pump, source, dest, reset, limited, counted>>
  BY DEF Wake, Begun, kernel

LEMMA EndFields ==
    ASSUME TypeOK, End
    PROVE  /\ pass.at = "end" /\ pass'.at = (IF Done THEN "closed" ELSE "idle")
           /\ pass'.moved = Nothing /\ pass'.budget = 0
           /\ counted' = Tally /\ retry' = (RetryAfter /\ ~Done)
           /\ UNCHANGED <<pump, source, dest, reset, edge, limited, tokens>>
  BY DEF End, Goes, kernel, bucket, TypeOK, Pass

\* The other steps: the reset of a socket, the refill, and the stutter.
LEMMA QuietFields ==
    ASSUME (\E side \in Sides : Reset(side)) \/ Refill \/ UNCHANGED vars
    PROVE  /\ UNCHANGED <<pump, source, dest, pass, retry, limited, counted>>
           /\ edge => edge'
  BY DEF Reset, Refill, vars, kernel, bucket

\* A step is one of these.
Steps ==
    \/ Wake
    \/ \E d \in Dirs :
          /\ d = pass.dir /\ pass.at = "fill" /\ UNCHANGED Apart
          /\ FillIdle(d) \/ (\E n \in Nat : FillBytes(d, n)) \/ FillEmpty(d)
    \/ /\ pass.at = "fill" \/ (pass.at = "drain" /\ pump[pass.dir].buffered > 0)
       /\ Errs /\ UNCHANGED Apart
    \/ \E d \in Dirs, n \in Nat :
          d = pass.dir /\ pass.at = "drain" /\ UNCHANGED Apart /\ Drained(d, n)
    \/ End
    \/ \E d \in Dirs : Send(d) \/ HalfClose(d) \/ Read(d)
    \/ (\E side \in Sides : Reset(side)) \/ Refill \/ UNCHANGED vars

LEMMA NextSteps ==
    ASSUME TypeOK, [Next]_vars
    PROVE  Steps
  <1>1. CASE Fill
    <2>1. pass.at = "fill" /\ UNCHANGED Apart
      BY <1>1 DEF Fill, Apart
    <2>2. QED  BY <1>1, <2>1, FillCases DEF Steps
  <1>2. CASE Drain
    <2>1. pass.at = "drain" /\ UNCHANGED Apart
      BY <1>2 DEF Drain, Apart
    <2>2. QED  BY <1>2, <2>1, DrainCases DEF Steps
  <1>3. QED  BY <1>1, <1>2 DEF Steps, Next, Worker

LEMMA StreamStep ==
    ASSUME TypeOK, BytesOK, EndsOK, ~Over \/ UNCHANGED vars, Steps
    PROVE  BytesOK' /\ EndsOK'
  <1> SUFFICES ASSUME NEW e \in Dirs
               PROVE  /\ source'[e].sent = source'[e].unread + pump'[e].buffered + dest'[e].got
                      /\ source'[e].sent <= MaxSent[e]
                      /\ pump'[e].eof => source'[e].fin /\ source'[e].unread = 0
                      /\ pump'[e].shut => Finished(pump'[e])
                      /\ Finished(pump'[e]) /\ ~pump'[e].shut => pass'.at = "drain" /\ pass'.dir = e
                      /\ pass'.at = "closed" => Finished(pump'[e])
    BY DEF BytesOK, EndsOK, Finished
  <1> DEFINE Bytes == /\ source'[e].sent = source'[e].unread + pump'[e].buffered + dest'[e].got
                      /\ source'[e].sent <= MaxSent[e]
             Ends == /\ pump'[e].eof => source'[e].fin /\ source'[e].unread = 0
                     /\ pump'[e].shut => Finished(pump'[e])
                     /\ Finished(pump'[e]) /\ ~pump'[e].shut
                           => pass'.at = "drain" /\ pass'.dir = e
                     /\ pass'.at = "closed" => Finished(pump'[e])
  <1>1. /\ source[e].sent = source[e].unread + pump[e].buffered + dest[e].got
        /\ source[e].sent <= MaxSent[e]
        /\ pump[e].eof => source[e].fin /\ source[e].unread = 0
        /\ pump[e].shut => pump[e].eof /\ pump[e].buffered = 0
        /\ pump[e].eof /\ pump[e].buffered = 0 /\ ~pump[e].shut
              => pass.at = "drain" /\ pass.dir = e
        /\ pass.at = "closed" => pump[e].eof /\ pump[e].buffered = 0
    BY DEF BytesOK, EndsOK, Finished
  <1>0. /\ source[e].sent \in Nat /\ source[e].unread \in Nat /\ pump[e].buffered \in Nat
        /\ dest[e].got \in Nat /\ MaxSent[e] \in Nat
    BY FieldTypes
  <1> USE DEF Finished
  <1>2. CASE Wake
    BY <1>1, <1>2, WakeFields
  <1>3. ASSUME NEW d \in Dirs, d = pass.dir, pass.at = "fill", FillIdle(d)
        PROVE  Bytes /\ Ends
    BY <1>1, <1>3, FillIdleFields
  <1>4. ASSUME NEW d \in Dirs, d = pass.dir, pass.at = "fill", NEW n \in Nat, FillBytes(d, n)
        PROVE  Bytes /\ Ends
    <2>1. 1 <= n /\ n <= source[d].unread /\ ~pump[d].eof
      BY <1>4 DEF FillBytes, Wanted
    <2>2. CASE e = d
      <3>1. /\ pump'[e].buffered = pump[e].buffered + n /\ source'[e].unread = source[e].unread - n
            /\ pump'[e].eof = pump[e].eof /\ pump'[e].shut = pump[e].shut
            /\ source'[e].sent = source[e].sent /\ dest' = dest /\ pass'.at = "drain"
        BY <1>4, <2>2, FillBytesFields
      <3>2. QED  BY <1>0, <1>1, <1>4, <2>1, <2>2, <3>1
    <2>3. CASE e # d
      <3>1. /\ pump'[e] = pump[e] /\ source'[e] = source[e] /\ dest'[e] = dest[e]
            /\ pass'.at = "drain"
        <4>1. OthersAlone(d) /\ pass'.at = "drain"
          BY <1>4, FillBytesFields
        <4>2. QED  BY <2>3, <4>1 DEF OthersAlone
      <3>2. QED  BY <1>1, <1>4, <2>3, <3>1
    <2>4. QED  BY <2>2, <2>3
  <1>5. ASSUME NEW d \in Dirs, d = pass.dir, pass.at = "fill", FillEmpty(d)
        PROVE  Bytes /\ Ends
    <2>1. ~pump[d].eof
      BY <1>5 DEF FillEmpty, Wanted
    <2>2. CASE e = d
      BY <1>0, <1>1, <1>5, <2>1, <2>2, FillEmptyFields
    <2>3. CASE e # d
      BY <1>1, <1>5, <2>3, FillEmptyFields DEF OthersAlone
    <2>4. QED  BY <2>2, <2>3
  <1>6. CASE /\ pass.at = "fill" \/ (pass.at = "drain" /\ pump[pass.dir].buffered > 0)
             /\ Errs
    BY <1>1, <1>6, ErrsFields, FieldTypes
  <1>7. ASSUME NEW d \in Dirs, NEW n \in Nat, d = pass.dir, pass.at = "drain", Drained(d, n)
        PROVE  Bytes /\ Ends
    <2>1. d \in {"in", "out"} /\ pass'.at # "closed"
      BY <1>7, DrainedFields DEF Dirs
    <2>2. CASE e = d
      <3>1. /\ pump'[e].eof = pump[e].eof /\ pump'[e].buffered = pump[e].buffered - n
            /\ pump'[e].shut <=> pump[e].shut \/ (pump[e].eof /\ pump[e].buffered = n)
            /\ dest'[e].got = dest[e].got + n
            /\ n <= pump[e].buffered /\ source' = source
        BY <1>7, <2>2, DrainedFields
      <3>2. Bytes
        BY <1>0, <1>1, <1>7, <3>1
      <3>3. Ends
        <4>1. /\ pump'[e].buffered = 0 <=> pump[e].buffered = n
              /\ pump[e].buffered = 0 => pump[e].buffered = n
          BY <1>0, <1>7, <3>1
        <4>2. QED  BY <1>1, <2>1, <3>1, <4>1, Zenon
      <3>4. QED  BY <3>2, <3>3
    <2>3. CASE e # d
      <3>1. pump'[e] = pump[e] /\ source'[e] = source[e] /\ dest'[e] = dest[e]
        BY <1>7, <2>3, DrainedFields DEF OthersAlone
      <3>2. QED  BY <1>1, <1>7, <2>1, <2>3, <3>1
    <2>4. QED  BY <2>2, <2>3
  <1>8. CASE End
    <2>1. pass'.at = "closed" => Finished(pump[e])
      BY <1>8, EndFields DEF Done
    <2>2. QED  BY <1>1, <1>8, <2>1, EndFields
  <1>9. ASSUME NEW d \in Dirs, Send(d)
        PROVE  Bytes /\ Ends
    <2>1. CASE e = d
      <3>1. /\ source'[e].sent = source[e].sent + 1 /\ source'[e].unread = source[e].unread + 1
            /\ ~source[e].fin /\ source'[e].sent <= MaxSent[e]
            /\ UNCHANGED <<pump, dest, pass>>
        BY <1>9, <2>1, SendFields
      <3>2. QED  BY <1>0, <1>1, <3>1
    <2>2. CASE e # d
      BY <1>1, <1>9, <2>2, SendFields DEF OthersAlone
    <2>3. QED  BY <2>1, <2>2
  <1>10. ASSUME NEW d \in Dirs, HalfClose(d) \/ Read(d)
         PROVE  Bytes /\ Ends
    BY <1>1, <1>10, HalfCloseFields, ReadFields
  <1>11. CASE (\E side \in Sides : Reset(side)) \/ Refill \/ UNCHANGED vars
    BY <1>1, <1>11, QuietFields
  <1>12. QED
    BY <1>2, <1>3, <1>4, <1>5, <1>6, <1>7, <1>8, <1>9, <1>10, <1>11 DEF Steps

-----------------------------------------------------------------------------
(* ProxyRelay: the accounting table *)

\* What a pass has moved is not counted yet; what is left of its allowance and what
\* it has moved make up the allowance, which only a rate limit can use up.
TallyOK ==
    /\ \A d \in Dirs : counted[d] + pass.moved[d] = source[d].sent - source[d].unread
    /\ pass.at \in {"idle", "closed"} => pass.budget = 0 /\ pass.moved = Nothing
    /\ pass.at \notin {"idle", "closed"} /\ ~limited =>
          pass.budget + pass.moved["out"] + pass.moved["in"] = Unlimited

LEMMA TallyStep ==
    ASSUME TypeOK, TallyOK, TypeOK', Steps
    PROVE  TallyOK'
  <1> DEFINE Moves == \A d \in Dirs : counted'[d] + pass'.moved[d] = source'[d].sent - source'[d].unread
             Rests == pass'.at \in {"idle", "closed"} => pass'.budget = 0 /\ pass'.moved = Nothing
             Allows == pass'.at \notin {"idle", "closed"} /\ ~limited' =>
                           pass'.budget + pass'.moved["out"] + pass'.moved["in"] = Unlimited
  <1>1. \A d \in Dirs : /\ counted[d] \in Nat /\ pass.moved[d] \in Nat
                        /\ source[d].sent \in Nat /\ source[d].unread \in Nat
    BY FieldTypes
  <1>2. SUFFICES Moves /\ Rests /\ Allows
    BY DEF TallyOK, Unlimited
  <1>3. CASE Wake
    <2>1. /\ pass.moved = Nothing /\ pass'.moved = Nothing /\ pass'.at = "fill"
          /\ pass'.budget = IF limited THEN tokens ELSE Unlimited
          /\ UNCHANGED <<source, counted, limited>>
      BY <1>3, WakeFields DEF TallyOK
    <2>2. pass'.moved["out"] = 0 /\ pass'.moved["in"] = 0 /\ Unlimited \in Nat
      BY <2>1, RelayAssumption DEF Nothing, Dirs, Unlimited
    <2>3. QED  BY <2>1, <2>2 DEF TallyOK
  <1>4. ASSUME NEW d \in Dirs, d = pass.dir, pass.at = "fill", UNCHANGED Apart,
               FillIdle(d) \/ FillEmpty(d)
        PROVE  Moves /\ Rests /\ Allows
    <2>1. /\ pass'.moved = pass.moved /\ pass'.budget = pass.budget /\ pass'.at = "drain"
          /\ UNCHANGED <<source, counted, limited>>
      BY <1>4, FillIdleFields, FillEmptyFields DEF Apart, bucket
    <2>2. QED  BY <1>4, <2>1 DEF TallyOK
  <1>5. ASSUME NEW d \in Dirs, d = pass.dir, pass.at = "fill", UNCHANGED Apart,
               NEW n \in Nat, FillBytes(d, n)
        PROVE  Moves /\ Rests /\ Allows
    <2>1. /\ pass'.moved[d] = pass.moved[d] + n /\ source'[d].unread = source[d].unread - n
          /\ source'[d].sent = source[d].sent /\ pass'.at = "drain"
          /\ pass'.budget = pass.budget - n
      BY <1>5, FillBytesFields
    <2>2. \A e \in Dirs \ {d} : pass'.moved[e] = pass.moved[e] /\ source'[e] = source[e]
      BY <1>5, FillBytesFields DEF OthersAlone
    <2>3. counted' = counted /\ limited' = limited
      BY <1>5 DEF Apart, bucket
    <2>4. Moves
      <3>1. ASSUME NEW e \in Dirs
            PROVE  counted'[e] + pass'.moved[e] = source'[e].sent - source'[e].unread
        <4>1. CASE e = d
          BY <1>1, <1>5, <2>1, <2>3, <4>1 DEF TallyOK
        <4>2. CASE e # d
          BY <2>2, <2>3, <4>2 DEF TallyOK
        <4>3. QED  BY <4>1, <4>2
      <3>2. QED  BY <3>1
    <2>5. Allows
      <3>1. pass'.moved["out"] + pass'.moved["in"] = pass.moved["out"] + pass.moved["in"] + n
        BY <1>1, <1>5, <2>1, <2>2 DEF Dirs
      <3>2. /\ pass.budget \in Nat /\ pass.moved["out"] \in Nat /\ pass.moved["in"] \in Nat
            /\ pass'.moved["out"] \in Nat /\ pass'.moved["in"] \in Nat
        BY <1>1 DEF TypeOK, Dirs, Pass, PerDir
      <3>3. ~limited => pass.budget + pass.moved["out"] + pass.moved["in"] = Unlimited
        BY <1>5 DEF TallyOK
      <3>4. ~limited => pass'.budget + pass'.moved["out"] + pass'.moved["in"] = Unlimited
        <4>1. pass'.budget = pass.budget - n /\ n \in Nat
          BY <1>5, <2>1
        <4>2. QED  BY <3>1, <3>2, <3>3, <4>1
      <3>5. QED  BY <2>3, <3>4
    <2>6. QED  BY <2>1, <2>4, <2>5
  <1>6. CASE Errs /\ pass.at \in {"fill", "drain"} /\ UNCHANGED Apart
    <2>1. /\ pass'.moved = pass.moved /\ pass'.budget = pass.budget /\ pass'.at = "failed"
          /\ UNCHANGED <<source, counted, limited>>
      BY <1>6, ErrsFields DEF Apart, bucket
    <2>2. QED  BY <1>6, <2>1 DEF TallyOK
  <1>7. ASSUME NEW d \in Dirs, NEW n \in Nat, d = pass.dir, pass.at = "drain", UNCHANGED Apart,
               Drained(d, n)
        PROVE  Moves /\ Rests /\ Allows
    <2>1. /\ pass'.moved = pass.moved /\ pass'.budget = pass.budget
          /\ pass'.at \in {"fill", "end"}
          /\ UNCHANGED <<source, counted, limited>>
      BY <1>7, DrainedFields DEF Apart, bucket, Dirs
    <2>2. QED  BY <1>7, <2>1 DEF TallyOK
  <1>8. CASE End
    <2>1. /\ pass'.moved = Nothing /\ pass'.budget = 0 /\ counted' = Tally
          /\ pass'.at \in {"idle", "closed"} /\ source' = source
      BY <1>8, EndFields
    <2>2. \A d \in Dirs : pass'.moved[d] = 0 /\ counted'[d] = counted[d] + pass.moved[d]
      BY <2>1 DEF Nothing, Tally
    <2>3. QED  BY <1>1, <2>1, <2>2 DEF TallyOK
  <1>9. ASSUME NEW d \in Dirs, Send(d)
        PROVE  Moves /\ Rests /\ Allows
    <2>1. /\ source'[d].sent = source[d].sent + 1 /\ source'[d].unread = source[d].unread + 1
          /\ UNCHANGED <<pass, limited, counted>>
          /\ \A e \in Dirs \ {d} : source'[e] = source[e]
      BY <1>9, SendFields DEF OthersAlone
    <2>2. ASSUME NEW e \in Dirs
          PROVE  source'[e].sent - source'[e].unread = source[e].sent - source[e].unread
      <3>1. CASE e = d
        BY <1>1, <2>1, <3>1
      <3>2. CASE e # d
        BY <2>1, <3>2
      <3>3. QED  BY <3>1, <3>2
    <2>3. QED  BY <2>1, <2>2 DEF TallyOK
  <1>10. ASSUME NEW d \in Dirs, HalfClose(d) \/ Read(d)
         PROVE  Moves /\ Rests /\ Allows
    <2>1. /\ UNCHANGED <<pass, limited, counted>>
          /\ \A e \in Dirs : source'[e].sent = source[e].sent /\ source'[e].unread = source[e].unread
      BY <1>10, HalfCloseFields, ReadFields
    <2>2. QED  BY <2>1 DEF TallyOK
  <1>11. CASE (\E side \in Sides : Reset(side)) \/ Refill \/ UNCHANGED vars
    <2>1. UNCHANGED <<source, pass, limited, counted>>
      BY <1>11, QuietFields
    <2>2. QED  BY <2>1 DEF TallyOK
  <1>12. QED
    BY <1>3, <1>4, <1>5, <1>6, <1>7, <1>8, <1>9, <1>10, <1>11 DEF Steps

-----------------------------------------------------------------------------
(* ProxyRelay: wakeups *)

\* Nothing to take in, and room only where the kernel owes an edge for it.
InAtRest(d) == pump[d].buffered < PipeCap /\ ~pump[d].eof =>
                  source[d].unread = 0 /\ ~source[d].fin
OutAtRest(d) == pump[d].buffered > 0 => dest[d].nospace

\* The pass has been over this half of the direction since it last made progress.
InVisited(d) ==
    \/ pass.at = "end"
    \/ pass.at = "drain" /\ ~pass.progress /\ (pass.dir = d \/ pass.dir = "in")
    \/ pass.at = "fill" /\ ~pass.progress /\ pass.dir = "in" /\ d = "out"
OutVisited(d) ==
    \/ pass.at = "end"
    \/ pass.at \in {"fill", "drain"} /\ ~pass.progress /\ pass.dir = "in" /\ d = "out"

\* What a pass has visited without progress is at rest, unless an edge has come since
\* or the allowance is used up; and so is a flow between passes, unless its timer is set.
WakeOK == \A d \in Dirs :
    /\ InVisited(d) /\ ~edge /\ pass.budget > 0 => InAtRest(d)
    /\ OutVisited(d) /\ ~edge => OutAtRest(d)
    /\ pass.at = "idle" /\ ~edge /\ ~retry => InAtRest(d) /\ OutAtRest(d)

\* Without a rate limit the allowance is never used up.
LEMMA BudgetLeft ==
    ASSUME TypeOK, BytesOK, TallyOK, pass.at \notin {"idle", "closed"}, ~limited
    PROVE  pass.budget > 0
  <1>1. \A d \in Dirs : /\ counted[d] \in Nat /\ pass.moved[d] \in Nat
                        /\ source[d].sent \in Nat /\ source[d].unread \in Nat
    BY FieldTypes
  <1>2. \A d \in Dirs : pass.moved[d] <= MaxSent[d]
    <2>1. ASSUME NEW d \in Dirs PROVE pass.moved[d] <= MaxSent[d]
      <3>1. /\ counted[d] + pass.moved[d] = source[d].sent - source[d].unread
            /\ source[d].sent <= MaxSent[d] /\ MaxSent[d] \in Nat
        BY FieldTypes DEF TallyOK, BytesOK
      <3>2. QED  BY <1>1, <3>1
    <2>2. QED  BY <2>1
  <1>3. pass.moved["out"] <= MaxOut /\ pass.moved["in"] <= MaxIn
    BY <1>2 DEF MaxSent, Dirs
  <1>4. /\ pass.budget + pass.moved["out"] + pass.moved["in"] = MaxOut + MaxIn + 1
        /\ pass.budget \in Nat /\ pass.moved["out"] \in Nat /\ pass.moved["in"] \in Nat
    BY <1>1 DEF TallyOK, Unlimited, TypeOK, Pass, Dirs
  <1>5. QED  BY <1>3, <1>4, RelayAssumption

LEMMA WakeStep ==
    ASSUME TypeOK, BytesOK, TallyOK, WakeOK, Steps
    PROVE  WakeOK'
  <1> SUFFICES ASSUME NEW e \in Dirs
               PROVE  /\ InVisited(e)' /\ ~edge' /\ pass'.budget > 0 => InAtRest(e)'
                      /\ OutVisited(e)' /\ ~edge' => OutAtRest(e)'
                      /\ pass'.at = "idle" /\ ~edge' /\ ~retry' => InAtRest(e)' /\ OutAtRest(e)'
    BY DEF WakeOK
  <1> DEFINE In == InVisited(e)' /\ ~edge' /\ pass'.budget > 0 => InAtRest(e)'
             Out == OutVisited(e)' /\ ~edge' => OutAtRest(e)'
             Idle == pass'.at = "idle" /\ ~edge' /\ ~retry' => InAtRest(e)' /\ OutAtRest(e)'
  <1>1. /\ InVisited(e) /\ ~edge /\ pass.budget > 0 => InAtRest(e)
        /\ OutVisited(e) /\ ~edge => OutAtRest(e)
        /\ pass.at = "idle" /\ ~edge /\ ~retry => InAtRest(e) /\ OutAtRest(e)
    BY DEF WakeOK
  <1>2. e \in {"in", "out"}
    BY DEF Dirs
  <1>3. CASE Wake
    <2>1. pass'.at = "fill" /\ pass'.dir = "out"
      BY <1>3, WakeFields
    <2>2. QED  BY <2>1 DEF InVisited, OutVisited
  <1>4. ASSUME NEW d \in Dirs, d = pass.dir, pass.at = "fill", UNCHANGED Apart, FillIdle(d)
        PROVE  In /\ Out /\ Idle
    <2>1. /\ UNCHANGED <<pump, source, dest, edge>>
          /\ pass'.at = "drain" /\ pass'.dir = d /\ pass'.progress = pass.progress
          /\ pass'.budget = pass.budget
      BY <1>4, FillIdleFields DEF Apart
    <2>2. pass.budget > 0 => InAtRest(d)
      BY <1>4, FieldTypes, RelayAssumption DEF FillIdle, Wanted, InAtRest
    <2>3. InAtRest(e)' = InAtRest(e) /\ OutAtRest(e)' = OutAtRest(e)
      BY <2>1 DEF InAtRest, OutAtRest
    <2>4. Idle
      BY <2>1
    <2>5. Out
      BY <1>1, <1>4, <2>1, <2>3 DEF OutVisited
    <2>6. CASE e = d
      BY <2>1, <2>2, <2>3, <2>4, <2>5, <2>6
    <2>7. CASE e # d
      BY <1>1, <1>2, <1>4, <2>1, <2>3, <2>4, <2>5, <2>7 DEF InVisited
    <2>8. QED  BY <2>6, <2>7
  <1>5. ASSUME NEW d \in Dirs, d = pass.dir, pass.at = "fill", UNCHANGED Apart,
               NEW n \in Nat, FillBytes(d, n)
        PROVE  In /\ Out /\ Idle
    <2>1. pass'.at = "drain" /\ pass'.progress = TRUE
      BY <1>5, FillBytesFields
    <2>2. QED  BY <2>1 DEF InVisited, OutVisited
  <1>6. ASSUME NEW d \in Dirs, d = pass.dir, pass.at = "fill", UNCHANGED Apart, FillEmpty(d)
        PROVE  In /\ Out /\ Idle
    <2>1. /\ UNCHANGED <<source, dest, edge>>
          /\ pump'[d].buffered = pump[d].buffered
          /\ source[d].unread = 0
          /\ pass'.at = "drain" /\ pass'.dir = d
          /\ pass'.progress = (pass.progress \/ source[d].fin)
          /\ pass'.budget = pass.budget
      BY <1>6, FillEmptyFields DEF Apart
    <2>2. e # d => pump'[e] = pump[e]
      BY <1>6, FillEmptyFields DEF OthersAlone
    <2>3. Idle
      BY <2>1
    <2>4. CASE e = d
      <3>1. ~pass'.progress => InAtRest(e)'
        BY <2>1, <2>4 DEF InAtRest
      <3>2. OutAtRest(e)' = OutAtRest(e)
        BY <2>1, <2>4 DEF OutAtRest
      <3>3. Out
        BY <1>1, <1>6, <2>1, <3>2 DEF OutVisited
      <3>4. QED  BY <2>1, <2>3, <3>1, <3>3 DEF InVisited
    <2>5. CASE e # d
      <3>1. InAtRest(e)' = InAtRest(e) /\ OutAtRest(e)' = OutAtRest(e)
        BY <2>1, <2>2, <2>5 DEF InAtRest, OutAtRest
      <3>2. QED  BY <1>1, <1>2, <1>6, <2>1, <2>3, <2>5, <3>1 DEF InVisited, OutVisited
    <2>6. QED  BY <2>4, <2>5
  <1>7. CASE Errs
    <2>1. pass'.at = "failed"
      BY <1>7, ErrsFields
    <2>2. QED  BY <2>1 DEF InVisited, OutVisited
  <1>8. ASSUME NEW d \in Dirs, NEW n \in Nat, d = pass.dir, pass.at = "drain", UNCHANGED Apart,
               Drained(d, n)
        PROVE  In /\ Out /\ Idle
    <2>1. /\ pump'[d].buffered = pump[d].buffered - n /\ pump'[d].eof = pump[d].eof
          /\ dest'[d].nospace <=> dest[d].nospace \/ pump[d].buffered > dest[d].room
          /\ n = 0 => pump[d].buffered = 0 \/ dest[d].room = 0
          /\ source' = source /\ edge' = edge /\ pass'.budget = pass.budget
          /\ d = "out" => /\ pass'.at = "fill" /\ pass'.dir = "in"
                          /\ pass'.progress <=> pass.progress \/ n > 0
          /\ d = "in" => /\ pass'.at = IF pass.progress \/ n > 0 THEN "fill" ELSE "end"
                         /\ pass'.dir = "out" /\ pass'.progress = FALSE
      BY <1>8, DrainedFields DEF Apart
    <2>2. e # d => pump'[e] = pump[e] /\ dest'[e] = dest[e]
      BY <1>8, DrainedFields DEF OthersAlone
    <2>3. d \in {"in", "out"} /\ Idle
      BY <2>1 DEF Dirs
    <2>4. CASE n > 0 \/ pass.progress
      <3>1. ~InVisited(e)' /\ ~OutVisited(e)'
        BY <2>1, <2>3, <2>4 DEF InVisited, OutVisited
      <3>2. QED  BY <2>3, <3>1
    <2>5. CASE n = 0 /\ ~pass.progress
      <3>1. /\ pump[d].buffered \in Nat /\ dest[d].room \in Nat
            /\ pump'[d].buffered = pump[d].buffered
        BY <2>1, <2>5, FieldTypes
      <3>2. OutAtRest(d)'
        BY <2>1, <2>5, <3>1 DEF OutAtRest
      <3>3. InAtRest(e)' = InAtRest(e)
        BY <2>1, <2>2, <3>1 DEF InAtRest
      <3>4. e # d => OutAtRest(e)' = OutAtRest(e)
        BY <2>2 DEF OutAtRest
      <3>5. Out
        BY <1>1, <1>2, <1>8, <2>1, <2>3, <2>5, <3>2, <3>4 DEF OutVisited
      <3>6. In
        BY <1>1, <1>2, <1>8, <2>1, <2>3, <2>5, <3>3 DEF InVisited
      <3>7. QED  BY <2>3, <3>5, <3>6
    <2>6. QED  BY <2>4, <2>5
  <1>9. CASE End
    <2>1. /\ pass.at = "end" /\ pass'.at = (IF Done THEN "closed" ELSE "idle")
          /\ retry' = (RetryAfter /\ ~Done)
          /\ UNCHANGED <<pump, source, dest, edge>>
      BY <1>9, EndFields
    <2>2. InAtRest(e)' = InAtRest(e) /\ OutAtRest(e)' = OutAtRest(e)
      BY <2>1 DEF InAtRest, OutAtRest
    <2>3. pass.budget > 0 \/ RetryAfter
      BY <2>1, BudgetLeft, FieldTypes DEF RetryAfter
    <2>4. QED  BY <1>1, <2>1, <2>2, <2>3 DEF InVisited, OutVisited
  <1>10. ASSUME NEW d \in Dirs, Send(d) \/ HalfClose(d)
         PROVE  In /\ Out /\ Idle
    <2>1. edge' = TRUE
      BY <1>10 DEF Send, HalfClose
    <2>2. QED  BY <2>1
  <1>11. ASSUME NEW d \in Dirs, Read(d)
         PROVE  In /\ Out /\ Idle
    <2>1. /\ edge => edge'
          /\ dest[e].nospace => dest'[e].nospace \/ edge'
          /\ UNCHANGED <<pump, source, pass, retry>>
      BY <1>11, ReadFields
    <2>2. InAtRest(e)' = InAtRest(e) /\ (OutAtRest(e) => OutAtRest(e)' \/ edge')
      BY <2>1 DEF InAtRest, OutAtRest
    <2>3. QED  BY <1>1, <2>1, <2>2 DEF InVisited, OutVisited
  <1>12. CASE (\E side \in Sides : Reset(side)) \/ Refill \/ UNCHANGED vars
    <2>1. (edge => edge') /\ UNCHANGED <<pump, source, dest, pass, retry>>
      BY <1>12, QuietFields
    <2>2. InAtRest(e)' = InAtRest(e) /\ OutAtRest(e)' = OutAtRest(e)
      BY <2>1 DEF InAtRest, OutAtRest
    <2>3. QED  BY <1>1, <2>1, <2>2 DEF InVisited, OutVisited
  <1>13. QED
    BY <1>3, <1>4, <1>5, <1>6, <1>7, <1>8, <1>9, <1>10, <1>11, <1>12 DEF Steps

-----------------------------------------------------------------------------
(* ProxyRelay: theorems *)

RelayOK ==
    /\ TypeOK
    /\ BytesOK
    /\ EndsOK
    /\ TallyOK
    /\ WakeOK

LEMMA RelayInitOK == Init => RelayOK
  <1> SUFFICES ASSUME Init PROVE RelayOK
    OBVIOUS
  <1>1. TypeOK
    BY RelayInitType
  <1>2. \A d \in Dirs : MaxSent[d] \in Nat
    BY RelayAssumption DEF MaxSent, Dirs
  <1>3. BytesOK /\ EndsOK
    BY <1>2 DEF Init, BytesOK, EndsOK, Finished
  <1>4. TallyOK
    BY DEF Init, TallyOK, Nothing
  <1>5. WakeOK
    BY DEF Init, WakeOK, InVisited, OutVisited
  <1>6. QED  BY <1>1, <1>3, <1>4, <1>5 DEF RelayOK

LEMMA RelayNextOK == RelayOK /\ [Next]_vars => RelayOK'
  <1> SUFFICES ASSUME RelayOK, [Next]_vars PROVE RelayOK'
    OBVIOUS
  <1>1. TypeOK' /\ Steps
    BY RelayNextType, NextSteps DEF RelayOK
  <1>2. ~Over \/ UNCHANGED vars
    BY DEF Next
  <1>3. QED
    BY <1>1, <1>2, StreamStep, TallyStep, WakeStep DEF RelayOK

LEMMA RelayInvariant == Spec => []RelayOK
  BY RelayInitOK, RelayNextOK, PTL DEF Spec

\* Type correctness of the relay.
THEOREM RelayTypeCorrect == Spec => []TypeOK
  BY RelayInvariant, PTL DEF RelayOK

\* Worker::relay: a flow at rest without an edge or a timer to come has nothing it
\* could move, wherever in a pass the peers have sent, read, closed or reset.
THEOREM RelayNeverSleepsOnWork == Spec => []NoLostWakeup
  <1>1. RelayOK => NoLostWakeup
    BY DEF RelayOK, WakeOK, NoLostWakeup, InAtRest, OutAtRest
  <1>2. QED  BY <1>1, RelayInvariant, PTL

\* Pump::finish and Worker::relay: a destination is told of the end of a stream
\* after every byte of it, and a flow that ends well has delivered both whole.
THEOREM RelayStreamsWhole == Spec => []StreamsEndInOrder
  <1>1. RelayOK => StreamsEndInOrder
    <2> SUFFICES ASSUME RelayOK PROVE StreamsEndInOrder
      OBVIOUS
    <2>1. ASSUME NEW d \in Dirs, Finished(pump[d])
          PROVE  source[d].fin /\ dest[d].got = source[d].sent
      <3>1. /\ source[d].fin /\ source[d].unread = 0 /\ pump[d].buffered = 0
            /\ source[d].sent = source[d].unread + pump[d].buffered + dest[d].got
        BY <2>1 DEF RelayOK, BytesOK, EndsOK, Finished
      <3>2. QED  BY <3>1, FieldTypes DEF RelayOK
    <2>2. ShutdownComesLast
      BY <2>1 DEF RelayOK, EndsOK, ShutdownComesLast
    <2>3. EndedIsWhole
      BY <2>1 DEF RelayOK, EndsOK, EndedIsWhole
    <2>4. QED  BY <2>2, <2>3 DEF RelayOK, StreamsEndInOrder
  <1>2. QED  BY <1>1, RelayInvariant, PTL

\* relay.rs, stats.rs: between passes the accounting table has every byte taken in.
THEOREM RelayCountsEveryByte == Spec => []CountedBetweenPasses
  <1>1. RelayOK => CountedBetweenPasses
    <2> SUFFICES ASSUME RelayOK, pass.at \in {"idle", "closed"}, NEW d \in Dirs
                 PROVE  counted[d] = source[d].sent - source[d].unread
      BY DEF CountedBetweenPasses
    <2>1. pass.moved[d] = 0 /\ counted[d] + pass.moved[d] = source[d].sent - source[d].unread
      BY DEF RelayOK, TallyOK, Nothing
    <2>2. QED  BY <2>1, FieldTypes DEF RelayOK
  <1>2. QED  BY <1>1, RelayInvariant, PTL

\* What a step takes in, it takes out of the bucket or of the pass's allowance.
LEMMA RateStep ==
    ASSUME TypeOK, TypeOK', TallyOK, Steps, limited, ~Refill
    PROVE  TakenIn' - TakenIn <= tokens + pass.budget - (tokens' + pass'.budget)
  <1>1. \A d \in Dirs : source[d].sent \in Nat /\ source[d].unread \in Nat
    BY FieldTypes
  <1>2. "out" \in Dirs /\ "in" \in Dirs
    BY DEF Dirs
  <1>3. TakenIn \in Int /\ tokens \in Nat /\ pass.budget \in Nat
    BY <1>1, <1>2, FieldTypes DEF TakenIn
  <1>4. ASSUME UNCHANGED source PROVE TakenIn' = TakenIn
    BY <1>4 DEF TakenIn
  <1>5. CASE Wake
    <2>1. tokens' = 0 /\ pass'.budget = tokens /\ source' = source
      BY <1>5, WakeFields
    <2>2. QED  BY <1>3, <1>4, <2>1
  <1>6. ASSUME NEW d \in Dirs, d = pass.dir, UNCHANGED Apart, FillIdle(d) \/ FillEmpty(d)
        PROVE  TakenIn' - TakenIn <= tokens + pass.budget - (tokens' + pass'.budget)
    <2>1. tokens' = tokens /\ pass'.budget = pass.budget /\ source' = source
      BY <1>6, FillIdleFields, FillEmptyFields DEF Apart, bucket
    <2>2. QED  BY <1>3, <1>4, <2>1
  <1>7. ASSUME NEW d \in Dirs, d = pass.dir, UNCHANGED Apart, NEW n \in Nat, FillBytes(d, n)
        PROVE  TakenIn' - TakenIn <= tokens + pass.budget - (tokens' + pass'.budget)
    <2>1. /\ source'[d].unread = source[d].unread - n /\ source'[d].sent = source[d].sent
          /\ pass'.budget = pass.budget - n
      BY <1>7, FillBytesFields
    <2>2. \A e \in Dirs \ {d} : source'[e] = source[e]
      BY <1>7, FillBytesFields DEF OthersAlone
    <2>3. tokens' = tokens
      BY <1>7 DEF Apart, bucket
    <2>4. TakenIn' = TakenIn + n
      BY <1>1, <1>2, <1>7, <2>1, <2>2 DEF TakenIn, Dirs
    <2>5. QED  BY <1>3, <1>7, <2>1, <2>3, <2>4
  <1>8. CASE Errs /\ UNCHANGED Apart
    <2>1. tokens' = tokens /\ pass'.budget = pass.budget /\ source' = source
      BY <1>8, ErrsFields DEF Apart, bucket
    <2>2. QED  BY <1>3, <1>4, <2>1
  <1>9. ASSUME NEW d \in Dirs, NEW n \in Nat, d = pass.dir, UNCHANGED Apart, Drained(d, n)
        PROVE  TakenIn' - TakenIn <= tokens + pass.budget - (tokens' + pass'.budget)
    <2>1. tokens' = tokens /\ pass'.budget = pass.budget /\ source' = source
      BY <1>9, DrainedFields DEF Apart, bucket
    <2>2. QED  BY <1>3, <1>4, <2>1
  <1>10. CASE End
    <2>1. tokens' = tokens /\ pass'.budget = 0 /\ source' = source
      BY <1>10, EndFields
    <2>2. QED  BY <1>3, <1>4, <2>1
  <1>11. ASSUME NEW d \in Dirs, Send(d)
         PROVE  TakenIn' - TakenIn <= tokens + pass.budget - (tokens' + pass'.budget)
    <2>1. /\ source'[d].sent = source[d].sent + 1 /\ source'[d].unread = source[d].unread + 1
          /\ tokens' = tokens /\ pass' = pass
          /\ \A e \in Dirs \ {d} : source'[e] = source[e]
      BY <1>11, SendFields DEF OthersAlone
    <2>2. TakenIn' = TakenIn
      BY <1>1, <1>2, <2>1 DEF TakenIn, Dirs
    <2>3. QED  BY <1>3, <2>1, <2>2
  <1>12. ASSUME NEW d \in Dirs, HalfClose(d) \/ Read(d)
         PROVE  TakenIn' - TakenIn <= tokens + pass.budget - (tokens' + pass'.budget)
    <2>1. /\ tokens' = tokens /\ pass' = pass
          /\ \A e \in Dirs : source'[e].sent = source[e].sent /\ source'[e].unread = source[e].unread
      BY <1>12, HalfCloseFields, ReadFields
    <2>2. TakenIn' = TakenIn
      BY <1>2, <2>1 DEF TakenIn
    <2>3. QED  BY <1>3, <2>1, <2>2
  <1>13. CASE (\E side \in Sides : Reset(side)) \/ UNCHANGED vars
    <2>1. tokens' = tokens /\ pass' = pass /\ source' = source
      BY <1>13 DEF Reset, vars, kernel, bucket
    <2>2. QED  BY <1>3, <1>4, <2>1
  <1>14. QED
    BY <1>5, <1>6, <1>7, <1>8, <1>9, <1>10, <1>11, <1>12, <1>13 DEF Steps

\* throttle.rs: a limited flow takes in only what the bucket held.
THEOREM RelayRateHolds == Spec => RateHolds
  <1>1. RelayOK /\ RelayOK' /\ [Next]_vars => [RatePaid]_vars
    BY NextSteps, RateStep DEF RelayOK, RatePaid
  <1>2. QED
    BY <1>1, RelayInvariant, PTL DEF Spec, RateHolds

=============================================================================
