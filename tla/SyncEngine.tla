----------------------------- MODULE SyncEngine -----------------------------
(***************************************************************************)
(* Inventory synchronization of one integration (lib/integrations):        *)
(* runSync under its advisory lock, executeSync, and what the snapshot and *)
(* the stale sweep make of the inventory rows.                             *)
(*                                                                         *)
(* The lock belongs to a transaction that does nothing else: every read    *)
(* and write of executeSync goes over other connections, and commits on    *)
(* its own. When that transaction runs out its 600 s the lock is gone and  *)
(* executeSync goes on.                                                    *)
(*                                                                         *)
(* One family of entities. SyncRun rows are read by nothing but the answer *)
(* to a caller that finds the lock taken, and left out. A run is named by  *)
(* its runStart, 0 being before any of them. A caller is the scheduler of  *)
(* a replica, a user or an MCP client; the scheduler's wait until a sync   *)
(* is due only makes some of the attempts below not happen.                *)
(***************************************************************************)
EXTENDS FiniteSets, Integers

CONSTANTS Entities,   \* what the upstream system may have
          Callers,    \* who may call runSync, each once at a time
          Threshold,  \* setting staleRemoveThreshold
          Overruns,   \* may a sync outlive the transaction that holds its lock?
          Nobody,     \* no caller
          MaxRuns     \* bound: runs started

ASSUME SyncAssumption ==
    /\ IsFiniteSet(Entities)
    /\ Threshold \in Nat
    /\ Overruns \in BOOLEAN
    /\ Nobody \notin Callers
    /\ MaxRuns \in Nat

VARIABLES upstream,   \* entities the upstream system has
          inventory,  \* their rows
          lock,       \* holder of the advisory lock
          call,       \* where each caller's runSync stands
          last,       \* IntegrationConfig: lastSyncAt
          clock,      \* runs started so far: runStart of the latest
          misses,     \* ghost: complete snapshots an entity was missing from in a row
          expired     \* ghost: has a transaction ever run out under its sync?

vars == <<upstream, inventory, lock, call, last, clock, misses, expired>>
ghosts == <<misses, expired>>
bookkeeping == <<last, clock>>

Final == {"SUCCESS", "PARTIAL", "FAILED"}
Row == {r \in [status : {"none", "ACTIVE", "STALE", "REMOVED"}, miss : Nat, seen : 0..MaxRuns] :
            r.status \in {"none", "ACTIVE"} => r.miss = 0}
Call == [pc       : {"idle", "create", "fetch", "apply", "removed", "staled",
                     "record", "config", "leave"},
         start    : 0..MaxRuns,
         snapshot : SUBSET Entities,
         sweeps   : BOOLEAN,
         status   : Final]

NoCall == [pc |-> "idle", start |-> 0, snapshot |-> {}, sweeps |-> FALSE, status |-> "SUCCESS"]

TypeOK ==
    /\ upstream \subseteq Entities
    /\ inventory \in [Entities -> Row]
    /\ lock \in Callers \cup {Nobody}
    /\ call \in [Callers -> Call]
    /\ last \in 0..MaxRuns
    /\ clock \in 0..MaxRuns
    /\ misses \in [Entities -> 0..Threshold]
    /\ expired \in BOOLEAN

Init ==
    /\ upstream \in SUBSET Entities
    /\ inventory = [e \in Entities |-> [status |-> "none", miss |-> 0, seen |-> 0]]
    /\ lock = Nobody
    /\ call = [c \in Callers |-> NoCall]
    /\ last = 0
    /\ clock = 0
    /\ misses = [e \in Entities |-> 0]
    /\ expired = FALSE

At(c, pc) == call[c].pc = pc
Goes(c, r) == call' = [call EXCEPT ![c] = r]

-----------------------------------------------------------------------------
(* runSync *)

\* Mutant: the lock is not tried.
Lock_Skipped(c) ==
    /\ Goes(c, [NoCall EXCEPT !.pc = "create"])
    /\ lock' = c

\* pg_try_advisory_xact_lock. A loser is shown the newest RUNNING run, or 409.
Lock(c) ==
    /\ lock = Nobody
    /\ lock' = c
    /\ Goes(c, [NoCall EXCEPT !.pc = "create"])

RunSync(c) ==
    /\ At(c, "idle")
    /\ clock < MaxRuns
    /\ Lock(c)
    /\ UNCHANGED <<upstream, inventory, bookkeeping, ghosts>>

\* Mutant: a failed run keeps the lock.
Leave_FailureKeepsLock(c) ==
    /\ At(c, "leave")
    /\ lock' = IF lock = c /\ call[c].status # "FAILED" THEN Nobody ELSE lock
    /\ Goes(c, NoCall)
    /\ UNCHANGED <<upstream, inventory, bookkeeping, ghosts>>

\* executeSync has returned or thrown, and the transaction ends with it.
Leave(c) ==
    /\ At(c, "leave")
    /\ lock' = IF lock = c THEN Nobody ELSE lock
    /\ Goes(c, NoCall)
    /\ UNCHANGED <<upstream, inventory, bookkeeping, ghosts>>

\* Prisma ends the transaction after 600 s; its callback runs on.
TransactionTimesOut(c) ==
    /\ Overruns
    /\ lock = c
    /\ lock' = Nobody
    /\ expired' = TRUE
    /\ UNCHANGED <<upstream, inventory, call, bookkeeping, misses>>

-----------------------------------------------------------------------------
(* executeSync *)

\* The run's row is created, or that fails and the error leaves runSync.
CreateRun(c) ==
    /\ At(c, "create")
    /\ clock < MaxRuns
    /\ \/ /\ clock' = clock + 1
          /\ Goes(c, [call[c] EXCEPT !.pc = "fetch", !.start = clock + 1])
          /\ UNCHANGED last
       \/ /\ Goes(c, [call[c] EXCEPT !.pc = "leave"])
          /\ UNCHANGED bookkeeping
    /\ UNCHANGED <<upstream, inventory, lock, ghosts>>

\* The bound: an attempt that finds no run left goes away.
NoRunLeft(c) ==
    /\ At(c, "create")
    /\ clock = MaxRuns
    /\ Goes(c, [call[c] EXCEPT !.pc = "leave"])
    /\ UNCHANGED <<upstream, inventory, lock, bookkeeping, ghosts>>

\* Mutant: an incomplete snapshot sweeps as well.
Fetched_PartialSweeps(c) ==
    {[snapshot |-> upstream, sweeps |-> TRUE, status |-> "SUCCESS"],
     [snapshot |-> {}, sweeps |-> FALSE, status |-> "SUCCESS"]} \cup
    [snapshot : SUBSET upstream, sweeps : {TRUE}, status : {"PARTIAL"}]

\* What synchronizer.sync may bring: all of it; the family left out for want of a
\* privilege and excluded from the sweep; or, with errors, some of it.
Fetched(c) ==
    {[snapshot |-> upstream, sweeps |-> TRUE, status |-> "SUCCESS"],
     [snapshot |-> {}, sweeps |-> FALSE, status |-> "SUCCESS"]} \cup
    [snapshot : SUBSET upstream, sweeps : {FALSE}, status : {"PARTIAL"}]

Fetch(c) ==
    /\ At(c, "fetch")
    /\ \E f \in Fetched(c) :
          Goes(c, [call[c] EXCEPT !.pc = "apply", !.snapshot = f.snapshot,
                                  !.sweeps = f.sweeps, !.status = f.status])
    /\ UNCHANGED <<upstream, inventory, lock, bookkeeping, ghosts>>

Seen(e, start) == [status |-> "ACTIVE", miss |-> 0, seen |-> start]

\* apply*Snapshot: whatever was fetched is created or updated, in one transaction
\* per family; a row once REMOVED comes back.
Apply(c) ==
    /\ At(c, "apply")
    /\ LET r == call[c] IN
       /\ inventory' = [e \in Entities |-> IF e \in r.snapshot THEN Seen(e, r.start)
                                                               ELSE inventory[e]]
       /\ misses' = [e \in Entities |-> IF e \in r.snapshot THEN 0 ELSE misses[e]]
       /\ Goes(c, [r EXCEPT !.pc = IF r.sweeps THEN "removed" ELSE "record"])
    /\ UNCHANGED <<upstream, lock, bookkeeping, expired>>

\* staleSweep's notSeen.
NotSeen(e, start) ==
    /\ inventory[e].status \notin {"none", "REMOVED"}
    /\ inventory[e].seen < start

Aged(row, status) == [row EXCEPT !.status = status, !.miss = @ + 1]
LastMiss == IF Threshold = 0 THEN 0 ELSE Threshold - 1

\* The two updateMany of staleSweep, which nothing makes one.
SweepRemoved(c) ==
    /\ At(c, "removed")
    /\ inventory' = [e \in Entities |->
                       IF NotSeen(e, call[c].start) /\ inventory[e].miss >= LastMiss
                       THEN Aged(inventory[e], "REMOVED") ELSE inventory[e]]
    /\ misses' = [e \in Entities |->
                    IF /\ call[c].status = "SUCCESS"
                       /\ e \notin call[c].snapshot
                       /\ misses[e] < Threshold
                    THEN misses[e] + 1 ELSE misses[e]]
    /\ Goes(c, [call[c] EXCEPT !.pc = "staled"])
    /\ UNCHANGED <<upstream, lock, bookkeeping, expired>>

SweepStaled(c) ==
    /\ At(c, "staled")
    /\ inventory' = [e \in Entities |->
                       IF NotSeen(e, call[c].start)
                       THEN Aged(inventory[e], "STALE") ELSE inventory[e]]
    /\ Goes(c, [call[c] EXCEPT !.pc = "record"])
    /\ UNCHANGED <<upstream, lock, bookkeeping, ghosts>>

\* The run's row, then the integration's.
Record(c) ==
    /\ At(c, "record")
    /\ Goes(c, [call[c] EXCEPT !.pc = "config"])
    /\ UNCHANGED <<upstream, inventory, lock, bookkeeping, ghosts>>

Configure(c) ==
    /\ At(c, "config")
    /\ last' = call[c].start
    /\ Goes(c, [call[c] EXCEPT !.pc = "leave"])
    /\ UNCHANGED <<upstream, inventory, lock, clock, ghosts>>

\* Any statement may throw. The catch block records FAILED; when that throws too,
\* the error leaves runSync and the row is RUNNING, or whatever it was.
Throw(c) ==
    /\ call[c].pc \in {"fetch", "apply", "removed", "staled", "record", "config"}
    /\ Goes(c, IF call[c].status = "FAILED" THEN [call[c] EXCEPT !.pc = "leave"]
               ELSE [call[c] EXCEPT !.pc = "record", !.status = "FAILED"])
    /\ UNCHANGED <<upstream, inventory, lock, bookkeeping, ghosts>>

-----------------------------------------------------------------------------

\* The caller's process dies: Postgres ends its transaction, the run's row stays
\* RUNNING.
Crash(c) ==
    /\ ~At(c, "idle")
    /\ Goes(c, NoCall)
    /\ lock' = IF lock = c THEN Nobody ELSE lock
    /\ UNCHANGED <<upstream, inventory, bookkeeping, ghosts>>

\* The upstream system gains or loses an entity.
Change(e) ==
    /\ upstream' = IF e \in upstream THEN upstream \ {e} ELSE upstream \cup {e}
    /\ UNCHANGED <<inventory, lock, call, bookkeeping, ghosts>>

Step(c) == \/ CreateRun(c) \/ NoRunLeft(c) \/ Fetch(c) \/ Apply(c)
           \/ SweepRemoved(c) \/ SweepStaled(c) \/ Record(c) \/ Configure(c)
           \/ Throw(c) \/ Leave(c)

Next == \/ \E c \in Callers : RunSync(c) \/ Step(c) \/ TransactionTimesOut(c) \/ Crash(c)
        \/ \E e \in Entities : Change(e)

Spec == Init /\ [][Next]_vars

\* Every request of a sync has a timeout, so a run under way goes on.
FairSpec == Spec /\ \A c \in Callers : WF_vars(Step(c))

-----------------------------------------------------------------------------
(* Properties *)

\* engine.ts: "Entities not seen this run go stale (and eventually REMOVED)". Once
\* a complete run has swept, the rows say what its snapshot said, all of it and
\* nothing else.
SweepReconciles ==
    \A c \in Callers :
        LET r == call[c] IN
        r.pc \in {"record", "config"} /\ r.sweeps /\ r.status = "SUCCESS" =>
            \A e \in Entities :
                IF e \in r.snapshot
                THEN inventory[e].status = "ACTIVE" /\ inventory[e].miss = 0
                ELSE inventory[e].status # "ACTIVE"

\* So it is as long as no sync outlives its transaction, whatever throws or
\* crashes, since the lock keeps runs one at a time.
SweepReconcilesInTime == TypeOK /\ (~expired => SweepReconciles)

\* A row is REMOVED only when as many complete snapshots in a row as the threshold
\* asks for were without its entity: partial runs, excluded families, failures
\* between the sweep's two statements and crashes never age it.
RemovedOnlyAfterMisses ==
    \A e \in Entities : ~expired /\ inventory[e].status = "REMOVED" => misses[e] = Threshold

\* engine.ts: a sync "can never leak the lock and permanently wedge the
\* integration", whatever of it fails.
LockIsReleased == \A c \in Callers : lock = c ~> lock # c

=============================================================================
