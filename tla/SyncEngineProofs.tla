-------------------------- MODULE SyncEngineProofs --------------------------
(***************************************************************************)
(* Proofs about SyncEngine, for any entities, callers, threshold and       *)
(* number of runs, with and without overruns.                              *)
(***************************************************************************)
EXTENDS SyncEngine, TLAPS

\* Times come from the clock.
TimesOK ==
    /\ \A c \in Callers : call[c].start <= clock
    /\ \A e \in Entities : inventory[e].seen <= clock

\* One run at a time.
LockOK == \A c \in Callers : ~At(c, "idle") => lock = c

\* How far a run has come fixes what it knows and what the rows say.
StageOK(r) ==
    /\ r.pc \in {"create", "fetch"} => ~r.sweeps /\ r.status = "SUCCESS"
    /\ r.pc = "apply" => IF r.sweeps THEN r.status = "SUCCESS" ELSE r.status # "FAILED"
    /\ r.pc \in {"fetch", "apply"} => \A e \in Entities : inventory[e].seen < r.start
    /\ r.pc \in {"removed", "staled"} =>
          /\ r.status = "SUCCESS"
          /\ \A e \in Entities : IF e \in r.snapshot THEN inventory[e] = Seen(e, r.start)
                                                     ELSE inventory[e].seen < r.start
    /\ r.pc = "staled" =>
          \A e \in Entities \ r.snapshot :
              misses[e] = Threshold \/ inventory[e].miss < misses[e]
    /\ r.pc \in {"record", "config"} /\ r.sweeps /\ r.status = "SUCCESS" =>
          \A e \in Entities :
              IF e \in r.snapshot THEN inventory[e].status = "ACTIVE" /\ inventory[e].miss = 0
                                  ELSE inventory[e].status # "ACTIVE"

RunsOK == \A c \in Callers : StageOK(call[c])

\* A row's missCount is behind what was really missing, never ahead of it.
AgesOK ==
    \A e \in Entities :
        /\ misses[e] = Threshold \/ inventory[e].miss <= misses[e]
        /\ inventory[e].status = "REMOVED" => misses[e] = Threshold

IInv == TypeOK /\ TimesOK /\ (~expired => LockOK /\ RunsOK /\ AgesOK)

-----------------------------------------------------------------------------

LEMMA InitOK == Init => IInv
<1> SUFFICES ASSUME Init PROVE IInv
  OBVIOUS
<1>1. 0 \in 0..MaxRuns /\ 0 \in 0..Threshold
  BY SyncAssumption
<1>2. NoCall \in Call
  BY <1>1 DEF Call, NoCall, Final
<1>3. TypeOK
  <2>1. [status |-> "none", miss |-> 0, seen |-> 0] \in Row
    BY <1>1 DEF Row
  <2> QED BY <1>1, <1>2, <2>1 DEF Init, TypeOK
<1>4. TimesOK /\ LockOK /\ AgesOK
  BY DEF Init, TimesOK, LockOK, AgesOK, At, NoCall
<1>5. RunsOK
  BY DEF Init, RunsOK, StageOK, NoCall
<1> QED BY <1>3, <1>4, <1>5 DEF IInv

\* A run that moves on, the rows as they were, answers only for itself.
LEMMA MovesOK ==
  ASSUME IInv, NEW c \in Callers, NEW r \in Call, Goes(c, r),
         UNCHANGED <<upstream, inventory, last, clock, misses, expired>>,
         lock' \in Callers \cup {Nobody}, r.start <= clock,
         ~expired => /\ StageOK(r)
                     /\ r.pc # "idle" => lock' = c
                     /\ \A b \in Callers \ {c} : At(b, "idle") \/ lock' = b
  PROVE  IInv'
<1>1. call' \in [Callers -> Call] /\ call'[c] = r /\ \A b \in Callers \ {c} : call'[b] = call[b]
  BY DEF IInv, TypeOK, Goes
<1>2. TypeOK' /\ TimesOK'
  BY <1>1 DEF IInv, TypeOK, TimesOK
<1>3. ASSUME ~expired PROVE LockOK' /\ RunsOK' /\ AgesOK'
  <2>1. LockOK'
    BY <1>1, <1>3 DEF LockOK, At, IInv
  <2>2. RunsOK'
    BY <1>1, <1>3 DEF RunsOK, StageOK, IInv, Seen
  <2> QED BY <1>3, <2>1, <2>2 DEF IInv, AgesOK
<1> QED BY <1>2, <1>3 DEF IInv

\* The steps that leave the rows and the clock alone.
LEMMA QuietOK ==
  ASSUME IInv, NEW c \in Callers,
         RunSync(c) \/ NoRunLeft(c) \/ Fetch(c) \/ Record(c) \/ Throw(c) \/ Leave(c) \/ Crash(c)
  PROVE  IInv'
<1> USE DEF bookkeeping, ghosts
<1>0. call[c] \in Call /\ call[c].start <= clock /\ NoCall \in Call /\ NoCall.start <= clock
      /\ (~expired => StageOK(call[c])) /\ (~expired => LockOK)
  BY SyncAssumption DEF IInv, TypeOK, TimesOK, RunsOK, Call, NoCall, Final
<1>1. CASE RunSync(c)
  <2> DEFINE r == [NoCall EXCEPT !.pc = "create"]
  <2>1. r \in Call /\ r.start <= clock /\ StageOK(r)
    BY <1>0 DEF Call, NoCall, StageOK
  <2>2. ~expired => \A b \in Callers : At(b, "idle")
    BY <1>0, <1>1, SyncAssumption DEF RunSync, Lock, LockOK
  <2> QED BY <1>1, <2>1, <2>2, MovesOK DEF RunSync, Lock
<1>2. CASE NoRunLeft(c) \/ Record(c)
  <2> DEFINE q(pc) == [call[c] EXCEPT !.pc = pc]
  <2>1. \A pc \in {"leave", "config"} : q(pc) \in Call /\ q(pc).start <= clock
    BY <1>0 DEF Call
  <2>2. ~expired => StageOK(q("leave")) /\ (At(c, "record") => StageOK(q("config")))
    BY <1>0 DEF StageOK, At, Call
  <2>3. ~expired /\ ~At(c, "idle") => lock = c /\ \A b \in Callers \ {c} : At(b, "idle")
    BY <1>0 DEF LockOK
  <2>4. lock \in Callers \cup {Nobody}
    BY DEF IInv, TypeOK
  <2> QED BY <1>2, <2>1, <2>2, <2>3, <2>4, MovesOK DEF NoRunLeft, Record, At
<1>3. CASE Fetch(c)
  <2>1. PICK f \in Fetched(c) :
          Goes(c, [call[c] EXCEPT !.pc = "apply", !.snapshot = f.snapshot,
                                  !.sweeps = f.sweeps, !.status = f.status])
    BY <1>3 DEF Fetch
  <2> DEFINE r == [call[c] EXCEPT !.pc = "apply", !.snapshot = f.snapshot,
                                  !.sweeps = f.sweeps, !.status = f.status]
  <2>2. /\ f.snapshot \in SUBSET Entities /\ f.sweeps \in BOOLEAN
        /\ f.status \in {"SUCCESS", "PARTIAL"} /\ (f.sweeps => f.status = "SUCCESS")
    <3>1. upstream \subseteq Entities
      BY DEF IInv, TypeOK
    <3>2. CASE f \in [snapshot : SUBSET upstream, sweeps : {FALSE}, status : {"PARTIAL"}]
      BY <3>1, <3>2
    <3>3. CASE f = [snapshot |-> upstream, sweeps |-> TRUE, status |-> "SUCCESS"]
      BY <3>1, <3>3
    <3>4. CASE f = [snapshot |-> {}, sweeps |-> FALSE, status |-> "SUCCESS"]
      BY <3>4
    <3> QED BY <3>2, <3>3, <3>4 DEF Fetched
  <2>3. r \in Call /\ r.start = call[c].start /\ r.pc = "apply" /\ r.sweeps = f.sweeps
        /\ r.status = f.status
    BY <1>0, <2>2 DEF Call, Final
  <2>4. ~expired => StageOK(r)
    BY <1>0, <1>3, <2>2, <2>3 DEF StageOK, Fetch, At
  <2>5. ~expired => lock = c /\ \A b \in Callers \ {c} : At(b, "idle")
    BY <1>0, <1>3 DEF LockOK, Fetch, At
  <2>6. lock \in Callers \cup {Nobody}
    BY DEF IInv, TypeOK
  <2> QED BY <1>0, <1>3, <2>1, <2>3, <2>4, <2>5, <2>6, MovesOK DEF Fetch
<1>4. CASE Throw(c)
  <2> DEFINE r == IF call[c].status = "FAILED" THEN [call[c] EXCEPT !.pc = "leave"]
                  ELSE [call[c] EXCEPT !.pc = "record", !.status = "FAILED"]
  <2>1. r \in Call /\ r.start <= clock /\ r.pc # "idle" /\ StageOK(r)
    BY <1>0 DEF Call, Final, StageOK
  <2>2. ~expired => lock = c /\ \A b \in Callers \ {c} : At(b, "idle")
    BY <1>0, <1>4 DEF LockOK, Throw, At
  <2>3. lock \in Callers \cup {Nobody}
    BY DEF IInv, TypeOK
  <2> QED BY <1>4, <2>1, <2>2, <2>3, MovesOK DEF Throw
<1>5. CASE Leave(c) \/ Crash(c)
  <2>1. StageOK(NoCall) /\ NoCall.pc = "idle"
    BY DEF StageOK, NoCall
  <2>2. ~expired => lock = c /\ \A b \in Callers \ {c} : At(b, "idle")
    BY <1>0, <1>5 DEF LockOK, Leave, Crash, At
  <2>3. lock' \in Callers \cup {Nobody}
    BY <1>5 DEF Leave, Crash, IInv, TypeOK
  <2> QED BY <1>0, <1>5, <2>1, <2>2, <2>3, MovesOK DEF Leave, Crash
<1> QED BY <1>1, <1>2, <1>3, <1>4, <1>5

\* A row's update keeps the types, its last sight as it was.
LEMMA AgedOK ==
  ASSUME NEW row \in Row, NEW s \in {"STALE", "REMOVED"}
  PROVE  Aged(row, s) \in Row /\ Aged(row, s).seen = row.seen
         /\ Aged(row, s).status = s /\ Aged(row, s).miss = row.miss + 1
<1>1. /\ row \in [status : {"none", "ACTIVE", "STALE", "REMOVED"}, miss : Nat, seen : 0..MaxRuns]
      /\ row.miss + 1 \in Nat
  BY DEF Row
<1> DEFINE new == [row EXCEPT !.status = s, !.miss = row.miss + 1]
<1>2. /\ new \in [status : {"none", "ACTIVE", "STALE", "REMOVED"}, miss : Nat, seen : 0..MaxRuns]
      /\ new.seen = row.seen /\ new.status = s /\ new.miss = row.miss + 1
  BY <1>1
<1>3. new \in Row
  BY <1>2 DEF Row
<1> QED BY <1>2, <1>3 DEF Aged

\* A run that is created is later than anything in the rows.
LEMMA CreateOK == ASSUME IInv, NEW c \in Callers, CreateRun(c) PROVE IInv'
<1> USE DEF bookkeeping, ghosts
<1>0. call[c] \in Call /\ call[c].start <= clock /\ clock \in 0..MaxRuns /\ MaxRuns \in Nat
      /\ lock \in Callers \cup {Nobody}
      /\ (~expired => StageOK(call[c]) /\ LockOK)
  BY SyncAssumption DEF IInv, TypeOK, TimesOK, RunsOK
<1>1. ~expired => lock = c /\ \A b \in Callers \ {c} : At(b, "idle")
  BY <1>0 DEF LockOK, CreateRun, At
<1>2. CASE UNCHANGED bookkeeping
  <2> DEFINE r == [call[c] EXCEPT !.pc = "leave"]
  <2>1. r \in Call /\ r.start <= clock
    BY <1>0 DEF Call
  <2>2. StageOK(r)
    BY <1>0 DEF StageOK, Call
  <2>3. Goes(c, r) /\ UNCHANGED <<upstream, inventory, lock, last, clock, misses, expired>>
    BY <1>0, <1>2 DEF CreateRun
  <2> QED BY <1>0, <1>1, <2>1, <2>2, <2>3, MovesOK
<1>3. CASE clock' = clock + 1
  <2> DEFINE r == [call[c] EXCEPT !.pc = "fetch", !.start = clock + 1]
  <2>0. clock + 1 \in 0..MaxRuns
    BY <1>0, <1>3 DEF CreateRun
  <2>1. /\ r \in Call /\ r.pc = "fetch" /\ r.start = clock + 1
        /\ r.sweeps = call[c].sweeps /\ r.status = call[c].status
    BY <1>0, <2>0 DEF Call
  <2>2. Goes(c, r) /\ UNCHANGED <<upstream, inventory, lock, last, misses, expired>>
    BY <1>0, <1>3 DEF CreateRun
  <2>3. call' \in [Callers -> Call] /\ call'[c] = r /\ \A b \in Callers \ {c} : call'[b] = call[b]
    BY <2>1, <2>2 DEF Goes, IInv, TypeOK
  <2>4. TypeOK' /\ TimesOK'
    <3>1. clock' \in 0..MaxRuns /\ clock <= clock'
      BY <1>0, <1>3 DEF CreateRun
    <3>2. TypeOK'
      BY <2>2, <2>3, <3>1 DEF IInv, TypeOK
    <3>3. \A b \in Callers : call[b].start \in 0..MaxRuns
      BY DEF IInv, TypeOK, Call
    <3>4. \A e \in Entities : inventory[e].seen \in 0..MaxRuns
      BY DEF IInv, TypeOK, Row
    <3>5. call'[c].start = clock' /\ \A b \in Callers \ {c} : call'[b].start <= clock'
      BY <1>0, <1>3, <2>1, <2>3, <3>3 DEF IInv, TimesOK
    <3>6. \A e \in Entities : inventory'[e].seen <= clock'
      BY <1>0, <1>3, <2>2, <3>4 DEF IInv, TimesOK
    <3> QED BY <3>1, <3>2, <3>5, <3>6 DEF TimesOK
  <2>5. ASSUME ~expired PROVE LockOK' /\ RunsOK' /\ AgesOK'
    <3>1. LockOK' /\ AgesOK'
      BY <1>1, <2>2, <2>3, <2>5 DEF IInv, LockOK, AgesOK, At
    <3>2. \A e \in Entities : inventory[e].seen < clock + 1
      BY <1>0 DEF IInv, TypeOK, Row, TimesOK
    <3>3. StageOK(call[c])'
      BY <1>0, <1>3, <2>1, <2>2, <2>3, <2>5, <3>2 DEF StageOK, CreateRun, At
    <3>4. ASSUME NEW b \in Callers \ {c} PROVE StageOK(call[b])'
      BY <1>1, <2>3, <2>5 DEF StageOK, At
    <3> QED BY <2>3, <3>1, <3>3, <3>4 DEF RunsOK
  <2> QED BY <2>2, <2>4, <2>5 DEF IInv
<1> QED BY <1>2, <1>3 DEF CreateRun

\* What a step of a run knows before it: its own stage, and that it is alone.
LEMMA AloneOK ==
  ASSUME IInv, NEW c \in Callers, ~At(c, "idle")
  PROVE  /\ call[c] \in Call /\ call[c].start <= clock
         /\ ~expired => /\ StageOK(call[c]) /\ lock = c /\ LockOK
                        /\ \A b \in Callers \ {c} : At(b, "idle")
  BY DEF IInv, TypeOK, TimesOK, LockOK, RunsOK

\* The caller's step leaves the others idle.
LEMMA OthersOK ==
  ASSUME IInv, NEW c \in Callers, NEW r \in Call, Goes(c, r), ~At(c, "idle"),
         lock' = lock, ~expired
  PROVE  LockOK' /\ \A b \in Callers \ {c} : StageOK(call[b])'
<1>1. call'[c] = r /\ \A b \in Callers \ {c} : call'[b] = call[b]
  BY DEF IInv, TypeOK, Goes
<1>2. lock = c /\ \A b \in Callers \ {c} : call[b].pc = "idle"
  BY AloneOK DEF At
<1>3. LockOK'
  BY <1>1, <1>2 DEF LockOK, At
<1>4. ASSUME NEW b \in Callers \ {c} PROVE StageOK(call[b])'
  BY <1>1, <1>2 DEF StageOK
<1> QED BY <1>3, <1>4

LEMMA ApplyOK == ASSUME IInv, NEW c \in Callers, Apply(c) PROVE IInv'
<1> DEFINE q == call[c]
           r == [q EXCEPT !.pc = IF q.sweeps THEN "removed" ELSE "record"]
<1>0. q.pc = "apply" /\ ~At(c, "idle") /\ Goes(c, r) /\ lock' = lock /\ clock' = clock
      /\ last' = last /\ expired' = expired /\ upstream' = upstream
  BY DEF Apply, At, bookkeeping
<1>1. /\ r \in Call /\ r.start = q.start /\ r.snapshot = q.snapshot /\ r.status = q.status
      /\ r.pc = (IF q.sweeps THEN "removed" ELSE "record") /\ r.sweeps = q.sweeps
      /\ q.start \in 0..MaxRuns /\ q.start <= clock
  BY <1>0, AloneOK DEF Call
<1>2. call' \in [Callers -> Call] /\ call'[c] = r /\ \A b \in Callers \ {c} : call'[b] = call[b]
  BY <1>0, <1>1 DEF Goes, IInv, TypeOK
<1>3. /\ \A e \in Entities : inventory'[e] = IF e \in q.snapshot THEN Seen(e, q.start)
                                                                  ELSE inventory[e]
      /\ \A e \in Entities : misses'[e] = IF e \in q.snapshot THEN 0 ELSE misses[e]
  BY DEF Apply
<1>4. TypeOK'
  <2>1. \A e \in Entities : Seen(e, q.start) \in Row
    BY <1>1 DEF Seen, Row
  <2>2. inventory' \in [Entities -> Row]
    BY <2>1 DEF Apply, IInv, TypeOK
  <2>3. misses' \in [Entities -> 0..Threshold]
    BY SyncAssumption DEF Apply, IInv, TypeOK
  <2> QED BY <1>0, <1>2, <2>2, <2>3 DEF IInv, TypeOK
<1>5. TimesOK'
  <2>1. \A e \in Entities : inventory'[e].seen = q.start \/ inventory'[e] = inventory[e]
    BY <1>3 DEF Seen
  <2> QED BY <1>0, <1>1, <1>2, <2>1 DEF IInv, TimesOK
<1>6. ASSUME ~expired PROVE LockOK' /\ RunsOK' /\ AgesOK'
  <2>1. LockOK' /\ \A b \in Callers \ {c} : StageOK(call[b])'
    BY <1>0, <1>1, <1>6, OthersOK
  <2>2. StageOK(call[c])'
    BY <1>0, <1>1, <1>2, <1>3, <1>6, AloneOK DEF StageOK, Seen
  <2>3. AgesOK'
    BY <1>3, <1>6, SyncAssumption DEF IInv, AgesOK, Seen
  <2> QED BY <2>1, <2>2, <2>3 DEF RunsOK
<1> QED BY <1>0, <1>4, <1>5, <1>6 DEF IInv

LEMMA SweepRemovedOK == ASSUME IInv, NEW c \in Callers, SweepRemoved(c) PROVE IInv'
<1> DEFINE q == call[c]
           r == [q EXCEPT !.pc = "staled"]
           gone(e) == NotSeen(e, q.start) /\ inventory[e].miss >= LastMiss
<1>0. q.pc = "removed" /\ ~At(c, "idle") /\ Goes(c, r) /\ lock' = lock /\ clock' = clock
      /\ last' = last /\ expired' = expired /\ upstream' = upstream
  BY DEF SweepRemoved, At, bookkeeping
<1>1. /\ r \in Call /\ r.start = q.start /\ r.snapshot = q.snapshot /\ r.status = q.status
      /\ r.pc = "staled" /\ r.sweeps = q.sweeps
      /\ q.start \in 0..MaxRuns /\ q.start <= clock
  BY <1>0, AloneOK DEF Call
<1>2. call' \in [Callers -> Call] /\ call'[c] = r /\ \A b \in Callers \ {c} : call'[b] = call[b]
  BY <1>0, <1>1 DEF Goes, IInv, TypeOK
<1>3. \A e \in Entities :
        /\ inventory[e] \in Row /\ misses[e] \in 0..Threshold
        /\ inventory'[e] = IF gone(e) THEN Aged(inventory[e], "REMOVED") ELSE inventory[e]
        /\ misses'[e] = IF q.status = "SUCCESS" /\ e \notin q.snapshot /\ misses[e] < Threshold
                        THEN misses[e] + 1 ELSE misses[e]
  BY DEF SweepRemoved, IInv, TypeOK
<1>4. \A e \in Entities : inventory'[e] \in Row /\ inventory'[e].seen = inventory[e].seen
  BY <1>3, AgedOK
<1>5. \A e \in Entities : misses'[e] \in 0..Threshold
  BY <1>3, SyncAssumption
<1>6. TypeOK'
  <2>1. inventory' \in [Entities -> Row]
    BY <1>4 DEF SweepRemoved
  <2>2. misses' \in [Entities -> 0..Threshold]
    BY <1>5 DEF SweepRemoved
  <2> QED BY <1>0, <1>2, <2>1, <2>2 DEF IInv, TypeOK
<1>7. TimesOK'
  BY <1>0, <1>1, <1>2, <1>4 DEF IInv, TimesOK
<1>8. ASSUME ~expired PROVE LockOK' /\ RunsOK' /\ AgesOK'
  <2>1. LockOK' /\ \A b \in Callers \ {c} : StageOK(call[b])'
    BY <1>0, <1>1, <1>8, OthersOK
  <2>2. /\ q.status = "SUCCESS"
        /\ \A e \in Entities : IF e \in q.snapshot THEN inventory[e] = Seen(e, q.start)
                                                     ELSE inventory[e].seen < q.start
    BY <1>0, <1>8, AloneOK DEF StageOK
  <2>3. \A e \in Entities : gone(e) => e \notin q.snapshot
    BY <1>1, <2>2 DEF Seen, NotSeen
  \* A row that is removed, or may be aged next, has been missing once more.
  <2>4. ASSUME NEW e \in Entities, e \notin q.snapshot
        PROVE  /\ misses'[e] = Threshold \/ inventory[e].miss < misses'[e]
               /\ misses'[e] = Threshold \/ misses'[e] = misses[e] + 1
    BY <1>3, <1>8, <2>2, <2>4, SyncAssumption DEF IInv, AgesOK, Row
  <2>5. ASSUME NEW e \in Entities, gone(e) PROVE misses'[e] = Threshold
    <3>1. inventory[e].miss \in Nat /\ misses[e] \in Nat /\ misses'[e] \in 0..Threshold
      BY <1>3, <1>5, SyncAssumption DEF Row
    <3> QED BY <2>3, <2>4, <2>5, <3>1, SyncAssumption DEF LastMiss
  <2>6. AgesOK'
    <3> SUFFICES ASSUME NEW e \in Entities
                 PROVE  /\ misses'[e] = Threshold \/ inventory'[e].miss <= misses'[e]
                        /\ inventory'[e].status = "REMOVED" => misses'[e] = Threshold
      BY DEF AgesOK
    <3>1. CASE gone(e)
      BY <2>5, <3>1
    <3>2. CASE ~gone(e) /\ e \in q.snapshot
      BY <1>3, <1>8, <3>2 DEF IInv, AgesOK
    <3>3. CASE ~gone(e) /\ e \notin q.snapshot
      <4>1. /\ misses[e] \in Nat /\ misses[e] <= Threshold /\ misses'[e] \in 0..Threshold
            /\ inventory[e].miss \in Nat /\ inventory'[e] = inventory[e]
        BY <1>3, <1>5, <3>3, SyncAssumption DEF Row
      <4>2. inventory[e].status = "REMOVED" => misses[e] = Threshold
        BY <1>8 DEF IInv, AgesOK
      <4>3. misses'[e] = Threshold \/ misses'[e] = misses[e] + 1
        BY <2>4, <3>3
      <4> QED BY <2>4, <3>3, <4>1, <4>2, <4>3, SyncAssumption
    <3> QED BY <3>1, <3>2, <3>3
  <2>7. StageOK(call[c])'
    <3>1. \A e \in Entities : IF e \in q.snapshot THEN inventory'[e] = Seen(e, q.start)
                                                  ELSE inventory'[e].seen < q.start
      BY <1>3, <1>4, <2>2, <2>3
    <3>2. \A e \in Entities \ q.snapshot :
            misses'[e] = Threshold \/ inventory'[e].miss < misses'[e]
      BY <1>3, <2>4, <2>5
    <3> QED BY <1>1, <1>2, <2>2, <3>1, <3>2 DEF StageOK, Seen
  <2> QED BY <2>1, <2>6, <2>7 DEF RunsOK
<1> QED BY <1>0, <1>6, <1>7, <1>8 DEF IInv

LEMMA SweepStaledOK == ASSUME IInv, NEW c \in Callers, SweepStaled(c) PROVE IInv'
<1> DEFINE q == call[c]
           r == [q EXCEPT !.pc = "record"]
<1>0. q.pc = "staled" /\ ~At(c, "idle") /\ Goes(c, r) /\ lock' = lock /\ clock' = clock
      /\ last' = last /\ expired' = expired /\ upstream' = upstream /\ misses' = misses
  BY DEF SweepStaled, At, bookkeeping, ghosts
<1>1. /\ r \in Call /\ r.start = q.start /\ r.snapshot = q.snapshot /\ r.status = q.status
      /\ r.pc = "record" /\ r.sweeps = q.sweeps /\ q.start <= clock
  BY <1>0, AloneOK DEF Call
<1>2. call' \in [Callers -> Call] /\ call'[c] = r /\ \A b \in Callers \ {c} : call'[b] = call[b]
  BY <1>0, <1>1 DEF Goes, IInv, TypeOK
<1>3. \A e \in Entities :
        /\ inventory[e] \in Row
        /\ inventory'[e] = IF NotSeen(e, q.start) THEN Aged(inventory[e], "STALE")
                                                  ELSE inventory[e]
  BY DEF SweepStaled, IInv, TypeOK
<1>4. \A e \in Entities : inventory'[e] \in Row /\ inventory'[e].seen = inventory[e].seen
  BY <1>3, AgedOK
<1>5. TypeOK'
  <2>1. inventory' \in [Entities -> Row]
    BY <1>4 DEF SweepStaled
  <2> QED BY <1>0, <1>2, <2>1 DEF IInv, TypeOK
<1>6. TimesOK'
  BY <1>0, <1>1, <1>2, <1>4 DEF IInv, TimesOK
<1>7. ASSUME ~expired PROVE LockOK' /\ RunsOK' /\ AgesOK'
  <2>1. LockOK' /\ \A b \in Callers \ {c} : StageOK(call[b])'
    BY <1>0, <1>1, <1>7, OthersOK
  <2>2. /\ \A e \in Entities : IF e \in q.snapshot THEN inventory[e] = Seen(e, q.start)
                                                  ELSE inventory[e].seen < q.start
        /\ \A e \in Entities \ q.snapshot :
              misses[e] = Threshold \/ inventory[e].miss < misses[e]
    BY <1>0, <1>7, AloneOK DEF StageOK
  <2>3. ASSUME NEW e \in Entities, e \in q.snapshot
        PROVE  inventory'[e] = inventory[e] /\ inventory'[e] = Seen(e, q.start)
    <3>1. ~NotSeen(e, q.start)
      BY <1>1, <2>2, <2>3 DEF Seen, NotSeen, Call
    <3> QED BY <1>3, <2>2, <2>3, <3>1
  <2>4. ASSUME NEW e \in Entities, e \notin q.snapshot
        PROVE  /\ inventory'[e].status # "ACTIVE"
               /\ \/ inventory'[e] = inventory[e]
                  \/ inventory'[e].status = "STALE" /\ inventory'[e].miss = inventory[e].miss + 1
    <3>1. CASE NotSeen(e, q.start)
      BY <1>3, <3>1, AgedOK
    <3>2. CASE ~NotSeen(e, q.start)
      BY <1>3, <2>2, <2>4, <3>2 DEF NotSeen
    <3> QED BY <3>1, <3>2
  <2>5. StageOK(call[c])'
    BY <1>1, <1>2, <2>3, <2>4 DEF StageOK, Seen
  <2>6. AgesOK'
    <3> SUFFICES ASSUME NEW e \in Entities
                 PROVE  /\ misses'[e] = Threshold \/ inventory'[e].miss <= misses'[e]
                        /\ inventory'[e].status = "REMOVED" => misses'[e] = Threshold
      BY DEF AgesOK
    <3>1. CASE inventory'[e] = inventory[e]
      BY <1>0, <1>7, <3>1 DEF IInv, AgesOK
    <3>2. CASE inventory'[e] # inventory[e]
      <4>1. e \notin q.snapshot
        BY <2>3, <3>2
      <4>2. inventory[e].miss \in Nat /\ misses[e] \in Nat
        BY <1>3, SyncAssumption DEF Row, IInv, TypeOK
      <4> QED BY <1>0, <2>2, <2>4, <3>2, <4>1, <4>2
    <3> QED BY <3>1, <3>2
  <2> QED BY <2>1, <2>5, <2>6 DEF RunsOK
<1> QED BY <1>0, <1>5, <1>6, <1>7 DEF IInv

LEMMA ConfigureOK == ASSUME IInv, NEW c \in Callers, Configure(c) PROVE IInv'
<1> DEFINE r == [call[c] EXCEPT !.pc = "leave"]
<1>0. ~At(c, "idle") /\ Goes(c, r) /\ UNCHANGED <<upstream, inventory, lock, clock, ghosts>>
      /\ last' = call[c].start
  BY DEF Configure, At
<1>1. r \in Call /\ r.start = call[c].start /\ r.pc = "leave" /\ r.start \in 0..MaxRuns
      /\ r.start <= clock
  BY <1>0, AloneOK DEF Call
<1>2. call' \in [Callers -> Call] /\ call'[c] = r /\ \A b \in Callers \ {c} : call'[b] = call[b]
  BY <1>0, <1>1 DEF Goes, IInv, TypeOK
<1>3. TypeOK' /\ TimesOK'
  BY <1>0, <1>1, <1>2 DEF IInv, TypeOK, TimesOK, ghosts
<1>4. ASSUME ~expired PROVE LockOK' /\ RunsOK' /\ AgesOK'
  <2>1. LockOK' /\ \A b \in Callers \ {c} : StageOK(call[b])'
    BY <1>0, <1>1, <1>4, OthersOK
  <2>2. StageOK(call[c])'
    BY <1>1, <1>2 DEF StageOK
  <2> QED BY <1>0, <1>4, <2>1, <2>2 DEF IInv, RunsOK, AgesOK, ghosts
<1> QED BY <1>0, <1>3, <1>4 DEF IInv, ghosts

LEMMA NextOK == ASSUME IInv, [Next]_vars PROVE IInv'
<1>1. ASSUME NEW c \in Callers, TransactionTimesOut(c) PROVE IInv'
  BY <1>1 DEF TransactionTimesOut, IInv, TypeOK, TimesOK, bookkeeping
<1>2. ASSUME NEW e \in Entities, Change(e) PROVE IInv'
  BY <1>2 DEF Change, IInv, TypeOK, TimesOK, LockOK, At, RunsOK, StageOK, Seen, AgesOK,
              bookkeeping, ghosts
<1>3. CASE UNCHANGED vars
  BY <1>3 DEF vars, IInv, TypeOK, TimesOK, LockOK, At, RunsOK, StageOK, Seen, AgesOK
<1> QED BY <1>1, <1>2, <1>3, QuietOK, CreateOK, ApplyOK, SweepRemovedOK, SweepStaledOK,
           ConfigureOK DEF Next, Step

\* engine.ts, runSync and executeSync under the lock: until a sync outlives its
\* transaction, a complete run that has swept leaves the rows as its snapshot was,
\* whatever throws, crashes or changes upstream.
THEOREM SyncReconcilesInTime == Spec => []SweepReconcilesInTime
<1>1. IInv => SweepReconcilesInTime
  BY DEF IInv, SweepReconcilesInTime, SweepReconciles, RunsOK, StageOK
<1> QED BY <1>1, InitOK, NextOK, PTL DEF Spec

\* sync-helpers.ts, staleSweep: no row is REMOVED before its entity was missing
\* from as many complete snapshots in a row as the threshold asks for.
THEOREM SyncRemovesOnlyAfterMisses == Spec => []RemovedOnlyAfterMisses
<1>1. IInv => RemovedOnlyAfterMisses
  BY DEF IInv, RemovedOnlyAfterMisses, AgesOK
<1> QED BY <1>1, InitOK, NextOK, PTL DEF Spec
=============================================================================
