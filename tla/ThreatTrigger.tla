---------------------------- MODULE ThreatTrigger ---------------------------
(***************************************************************************)
(* The workflow trigger that fires for new security tickets (workflows/    *)
(* scheduler.ts, threat-trigger-runner.ts, trigger-state.ts), for one node *)
(* of one workflow that stays enabled.                                     *)
(*                                                                         *)
(* Once a minute the trigger asks for the tickets opened after its cursor, *)
(* a bounded number at a time, moves the cursor past them, and only then   *)
(* starts a run for each that passes the filter, whether or not that run   *)
(* then fails. Scans (see TicketScan) and operators open tickets in the    *)
(* meantime: a row has its createdAt before anybody can see it, and its    *)
(* severity may change at any time. The trigger is the only user of its    *)
(* cursor, and a tick waits for the one before.                            *)
(***************************************************************************)
EXTENDS Naturals, FiniteSets

CONSTANTS
  Tickets,    \* the tickets there may be
  Batch,      \* MAX_TICKETS_PER_POLL
  MaxClock,   \* bound: milliseconds
  MaxFaults,  \* bound: statements that fail
  MaxCrashes  \* bound: the process dies

ASSUME TriggerAssumption ==
  /\ IsFiniteSet(Tickets) /\ Batch \in Nat \ {0}
  /\ {MaxClock, MaxFaults, MaxCrashes} \subseteq Nat

VARIABLES
  tickets, \* every ticket: not opened, on its way to the database, or there
  clock,
  cursor,  \* the stored cursor, in a set that is empty until the trigger is armed
  trigger, \* the evaluation in progress
  fired,   \* runs started, by ticket
  since,   \* history: the instant the trigger was armed with
  faults, crashes

triggerVars == <<tickets, clock, cursor, trigger, fired, since, faults, crashes>>

Instants == 0..MaxClock
Unopened == [state |-> "none", at |-> 0, passes |-> FALSE]
Asleep == [pc |-> "idle", now |-> 0, next |-> {}, due |-> {}]

TriggerTypeOK ==
  /\ tickets \in [Tickets -> [state : {"none", "sent", "open"}, at : Instants, passes : BOOLEAN]]
  /\ clock \in Instants
  /\ cursor \subseteq Instants /\ since \subseteq Instants
  /\ trigger \in [pc : {"idle", "query", "store", "fire"}, now : Instants,
                  next : SUBSET Instants, due : SUBSET Tickets]
  /\ fired \in [Tickets -> Nat]
  /\ faults \in 0..MaxFaults /\ crashes \in 0..MaxCrashes

TriggerInit ==
  /\ tickets = [t \in Tickets |-> Unopened]
  /\ clock = 0
  /\ cursor = {} /\ since = {} /\ trigger = Asleep
  /\ fired = [t \in Tickets |-> 0]
  /\ faults = 0 /\ crashes = 0

Fault == faults < MaxFaults /\ faults' = faults + 1
-----------------------------------------------------------------------------
(* Tickets, and time.                                                      *)

\* The row is made, with its createdAt, and sent.
Submit(t) ==
  /\ tickets[t].state = "none"
  /\ \E p \in BOOLEAN :
       tickets' = [tickets EXCEPT ![t] = [state |-> "sent", at |-> clock, passes |-> p]]
  /\ UNCHANGED <<clock, cursor, trigger, fired, since, faults, crashes>>

\* It is committed.
Opened(t) ==
  /\ tickets[t].state = "sent"
  /\ tickets' = [tickets EXCEPT ![t].state = "open"]
  /\ UNCHANGED <<clock, cursor, trigger, fired, since, faults, crashes>>

\* Its severity is raised by a scan, or edited.
Regrade(t) ==
  /\ tickets[t].state = "open"
  /\ tickets' = [tickets EXCEPT ![t].passes = ~@]
  /\ UNCHANGED <<clock, cursor, trigger, fired, since, faults, crashes>>

Pass ==
  /\ clock < MaxClock /\ clock' = clock + 1
  /\ UNCHANGED <<tickets, cursor, trigger, fired, since, faults, crashes>>
-----------------------------------------------------------------------------
(* The trigger.                                                            *)

Open == {t \in Tickets : tickets[t].state = "open"}
After(time) == {t \in Open : \A c \in time : tickets[t].at > c}

\* Mutant: the tickets of the cursor's own instant are asked for again.
Newer_Inclusive == {t \in Open : \A c \in cursor : tickets[t].at >= c}

Newer == After(cursor)

\* Mutant: the newest come first.
Batches_NewestFirst ==
  {B \in SUBSET Newer :
     /\ Cardinality(B) <= Batch
     /\ B # Newer => Cardinality(B) = Batch
     /\ \A t \in B, u \in Newer \ B : tickets[t].at >= tickets[u].at}

\* The query, oldest first and cut: which of several tickets of one instant are
\* within the cut is open.
Batches ==
  {B \in SUBSET Newer :
     /\ Cardinality(B) <= Batch
     /\ B # Newer => Cardinality(B) = Batch
     /\ \A t \in B, u \in Newer \ B : tickets[t].at <= tickets[u].at}

\* createdAt of the last row.
Newest(B) == {tickets[t].at : t \in {u \in B : \A v \in B : tickets[v].at <= tickets[u].at}}

\* A tick takes its time before it comes to this workflow.
Wake ==
  /\ trigger.pc = "idle"
  /\ trigger' = [Asleep EXCEPT !.pc = "query", !.now = clock]
  /\ UNCHANGED <<tickets, clock, cursor, fired, since, faults, crashes>>

\* evaluateThreatTrigger, the first time: arm, without replaying the backlog.
Arm ==
  /\ trigger.pc = "query" /\ cursor = {}
  /\ trigger' = [Asleep EXCEPT !.pc = "store", !.next = {trigger.now}]
  /\ UNCHANGED <<tickets, clock, cursor, fired, since, faults, crashes>>

\* evaluateThreatTrigger: everything that is examined is passed, matching or not.
Query ==
  /\ trigger.pc = "query" /\ cursor # {}
  /\ \E B \in Batches :
       trigger' = [Asleep EXCEPT !.pc = "store",
                     !.next = IF B = {} THEN cursor ELSE Newest(B),
                     !.due = {t \in B : tickets[t].passes}]
  /\ UNCHANGED <<tickets, clock, cursor, fired, since, faults, crashes>>

\* writeTriggerState, before any run is started.
StoreCursor ==
  /\ trigger.pc = "store"
  /\ cursor' = trigger.next
  /\ since' = IF cursor = {} THEN trigger.next ELSE since
  /\ trigger' = [trigger EXCEPT !.pc = "fire", !.next = {}]
  /\ UNCHANGED <<tickets, clock, fired, faults, crashes>>

\* executeWorkflow, oldest ticket first.
Fire ==
  /\ trigger.pc = "fire"
  /\ \E t \in trigger.due :
       /\ \A u \in trigger.due : tickets[t].at <= tickets[u].at
       /\ fired' = [fired EXCEPT ![t] = @ + 1]
       /\ trigger' = [trigger EXCEPT !.due = @ \ {t}]
  /\ UNCHANGED <<tickets, clock, cursor, since, faults, crashes>>

Sleep ==
  /\ trigger.pc = "fire" /\ trigger.due = {}
  /\ trigger' = Asleep
  /\ UNCHANGED <<tickets, clock, cursor, fired, since, faults, crashes>>

\* The query, or the write of the state, fails: nothing has fired yet.
Throws ==
  /\ trigger.pc \in {"query", "store"} /\ Fault
  /\ trigger' = Asleep
  /\ UNCHANGED <<tickets, clock, cursor, fired, since, crashes>>

\* The process dies, and what was on its way to the database with it.
Crash ==
  /\ crashes < MaxCrashes /\ crashes' = crashes + 1
  /\ trigger' = Asleep
  /\ tickets' = [t \in Tickets |-> IF t \in Open THEN tickets[t] ELSE Unopened]
  /\ UNCHANGED <<clock, cursor, fired, since, faults>>

Evaluation == Wake \/ Arm \/ Query \/ StoreCursor \/ Fire \/ Sleep

TriggerNext ==
  \/ \E t \in Tickets : Submit(t) \/ Opened(t) \/ Regrade(t)
  \/ Pass \/ Evaluation \/ Throws \/ Crash

TriggerSpec == TriggerInit /\ [][TriggerNext]_triggerVars

\* The scheduler ticks every minute; runs end, since their actions have timeouts.
TriggerFairSpec == TriggerSpec /\ WF_triggerVars(Evaluation)
-----------------------------------------------------------------------------
\* scheduler.ts: state "is written before any run starts, so a workflow that
\* throws cannot make the same tickets fire again on the next tick". No ticket
\* starts two runs, whatever fails and dies, and although tickets appear behind the
\* cursor and at its very instant; one that has fired is behind the stored cursor,
\* and none of the backlog of the day the trigger was armed ever fires.
FiredOnce ==
  /\ TriggerTypeOK
  /\ \A t \in Tickets :
       /\ fired[t] <= 1
       /\ fired[t] = 1 => t \notin After(cursor) /\ t \notin trigger.due
       /\ fired[t] = 1 => since # {} /\ t \in After(since)

\* Two tickets of one instant: the cut may leave one of them behind the cursor.
Tied(t) == \E u \in Open \ {t} : tickets[u].at = tickets[t].at

\* "so a burst can't stampede the engine": a ticket the trigger has not passed and
\* that the filter lets through is acted upon, however many are opened at once;
\* unless it shares its instant with another, the process dies, or its severity
\* is lowered before it is seen.
OpenedIsFired ==
  \A t \in Tickets, n \in 0..MaxCrashes :
    /\ cursor # {} /\ t \in After(cursor) /\ trigger.pc # "store"
    /\ tickets[t].passes /\ crashes = n
    ~> fired[t] > 0 \/ Tied(t) \/ crashes > n \/ ~tickets[t].passes
=============================================================================
