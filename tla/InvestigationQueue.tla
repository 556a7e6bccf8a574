------------------------- MODULE InvestigationQueue -------------------------
(***************************************************************************)
(* The background investigations of security tickets (lib/ai/agent/        *)
(* worker.ts, investigate.ts): requests mark a ticket "queued" and kick    *)
(* one loop per process, which takes the ticket queued longest, marks it   *)
(* "running", runs the agent and stores the outcome. The queue is a column *)
(* of the tickets and survives the process; the loop and its two flags do  *)
(* not. Every await is a point where requests, the sweep of a fresh        *)
(* process and the investigations a log scan runs by itself come between.  *)
(*                                                                         *)
(* The agent is whatever it reports; it ends, being aborted after four     *)
(* minutes. Tickets are never deleted. Progress and reports are left out.  *)
(***************************************************************************)
EXTENDS Naturals

CONSTANTS
  Tickets,     \* the tickets, all of which exist
  Callers,     \* requests in progress at once
  NONE,        \* no ticket
  MaxRequests, \* bound: requests that get past the status test
  MaxFailures  \* bound: statements that fail

ASSUME QueueAssumption ==
  NONE \notin Tickets /\ MaxRequests \in Nat /\ MaxFailures \in Nat

VARIABLES
  inv,      \* investigationStatus of every ticket
  order,    \* of each two tickets, which has the older investigationStartedAt
  up,       \* the process runs
  sweep,    \* the straggler sweep of this process: "todo", "kick" or over
  worker,   \* the loop and its wake flag; running is pc # "off"
  calls,    \* requests between their statements
  auto,     \* the investigations scans run outside the queue
  requests, failures

vars == <<inv, order, up, sweep, worker, calls, auto, requests, failures>>

Statuses == {"none", "queued", "running", "success", "failed"}
Off == [pc |-> "off", ticket |-> NONE, wake |-> FALSE, outcome |-> "none"]
NoCall == [pc |-> "idle", ticket |-> NONE]

TypeOK ==
  /\ inv \in [Tickets -> Statuses]
  /\ order \subseteq Tickets \X Tickets
  /\ up \in BOOLEAN /\ sweep \in {"todo", "kick", "over"}
  /\ worker \in [pc : {"off", "query", "got", "agent", "save", "giveup"},
                 ticket : Tickets \union {NONE}, wake : BOOLEAN,
                 outcome : {"none", "success", "failed"}]
  /\ worker.pc \in {"agent", "save", "giveup"} => worker.ticket # NONE
  /\ calls \in [Callers -> [pc : {"idle", "write", "kick"}, ticket : Tickets \union {NONE}]]
  /\ auto \in [Tickets -> {"no", "running", "over"}]
  /\ requests \in 0..MaxRequests /\ failures \in 0..MaxFailures

StrictOrder(R) ==
  /\ \A t, u \in Tickets : t # u => (<<t, u>> \in R <=> <<u, t>> \notin R)
  /\ \A t \in Tickets : <<t, t>> \notin R
  /\ \A t, u, w \in Tickets : <<t, u>> \in R /\ <<u, w>> \in R => <<t, w>> \in R

Init ==
  /\ inv = [t \in Tickets |-> "none"]
  /\ order \in {R \in SUBSET (Tickets \X Tickets) : StrictOrder(R)}
  /\ up = TRUE /\ sweep = "todo" /\ worker = Off
  /\ calls = [c \in Callers |-> NoCall]
  /\ auto = [t \in Tickets |-> "no"]
  /\ requests = 0 /\ failures = 0
-----------------------------------------------------------------------------
(* Mutant: the flag is only set by the kick that starts the loop. *)
Kicked_FlagLost(w) == IF w.pc = "off" THEN [Off EXCEPT !.pc = "query"] ELSE w

(* kickWorker, and the loop up to its first query: it takes the flag back. *)
Kicked(w) ==
  IF w.pc = "off" THEN [Off EXCEPT !.pc = "query"] ELSE [w EXCEPT !.wake = TRUE]

(* A status written with a new investigationStartedAt.                     *)
Mark(t, status) ==
  /\ inv' = [inv EXCEPT ![t] = status]
  /\ order' = {p \in order : p[1] # t} \union {<<u, t>> : u \in Tickets \ {t}}

Fail == failures < MaxFailures /\ failures' = failures + 1

(* enqueueInvestigation: the status is read, ...                           *)
EnqueueRead(c, t) ==
  /\ up /\ calls[c].pc = "idle" /\ requests < MaxRequests
  /\ inv[t] \notin {"queued", "running"}
  /\ calls' = [calls EXCEPT ![c] = [pc |-> "write", ticket |-> t]]
  /\ requests' = requests + 1
  /\ UNCHANGED <<inv, order, up, sweep, worker, auto, failures>>

(* ... written, whatever it has become, ...                                *)
EnqueueWrite(c) ==
  /\ calls[c].pc = "write"
  /\ Mark(calls[c].ticket, "queued")
  /\ calls' = [calls EXCEPT ![c].pc = "kick"]
  /\ UNCHANGED <<up, sweep, worker, auto, requests, failures>>

EnqueueWriteFails(c) ==
  /\ calls[c].pc = "write"
  /\ calls' = [calls EXCEPT ![c] = NoCall]
  /\ UNCHANGED <<inv, order, up, sweep, worker, auto, requests, failures>>

(* ... and, once audited, the worker is kicked.                            *)
EnqueueKick(c) ==
  /\ calls[c].pc = "kick"
  /\ worker' = Kicked(worker)
  /\ calls' = [calls EXCEPT ![c] = NoCall]
  /\ UNCHANGED <<inv, order, up, sweep, auto, requests, failures>>
-----------------------------------------------------------------------------
(* drainLoop.                                                              *)

Queued == {t \in Tickets : inv[t] = "queued"}
Longest == {t \in Queued : \A u \in Queued \ {t} : <<t, u>> \in order}

(* The query is answered; the loop has not seen the answer yet.            *)
FindNext ==
  /\ worker.pc = "query"
  /\ \E t \in IF Queued = {} THEN {NONE} ELSE Longest :
       worker' = [worker EXCEPT !.pc = "got", !.ticket = t]
  /\ UNCHANGED <<inv, order, up, sweep, calls, auto, requests, failures>>

(* The query fails: nothing catches it before the loop has ended.          *)
FindFails ==
  /\ worker.pc = "query" /\ Fail
  /\ worker' = Off
  /\ UNCHANGED <<inv, order, up, sweep, calls, auto, requests>>

(* Nothing is queued: the loop ends unless it was kicked meanwhile.        *)
Drained ==
  /\ worker.pc = "got" /\ worker.ticket = NONE
  /\ worker' = IF worker.wake THEN [Off EXCEPT !.pc = "query"] ELSE Off
  /\ UNCHANGED <<inv, order, up, sweep, calls, auto, requests, failures>>

(* processTicket.                                                          *)
StartRun ==
  /\ worker.pc = "got" /\ worker.ticket # NONE
  /\ Mark(worker.ticket, "running")
  /\ worker' = [worker EXCEPT !.pc = "agent"]
  /\ UNCHANGED <<up, sweep, calls, auto, requests, failures>>

StartFails ==
  /\ worker.pc = "got" /\ worker.ticket # NONE /\ Fail
  /\ worker' = [worker EXCEPT !.pc = "giveup"]
  /\ UNCHANGED <<inv, order, up, sweep, calls, auto, requests>>

(* The agent ends, with a report or without one.                           *)
AgentEnds ==
  /\ worker.pc = "agent"
  /\ \E outcome \in {"success", "failed"} :
       worker' = [worker EXCEPT !.pc = "save", !.outcome = outcome]
  /\ UNCHANGED <<inv, order, up, sweep, calls, auto, requests, failures>>

ToNext == [worker EXCEPT !.pc = "query", !.ticket = NONE, !.outcome = "none"]

SaveOutcome ==
  /\ worker.pc = "save"
  /\ inv' = [inv EXCEPT ![worker.ticket] = worker.outcome]
  /\ worker' = ToNext
  /\ UNCHANGED <<order, up, sweep, calls, auto, requests, failures>>

SaveFails ==
  /\ worker.pc = "save" /\ Fail
  /\ worker' = [worker EXCEPT !.pc = "giveup", !.outcome = "none"]
  /\ UNCHANGED <<inv, order, up, sweep, calls, auto, requests>>

(* markFailed, whose own failure is swallowed.                             *)
MarkFailed ==
  /\ worker.pc = "giveup"
  /\ \/ inv' = [inv EXCEPT ![worker.ticket] = "failed"] /\ UNCHANGED failures
     \/ Fail /\ UNCHANGED inv
  /\ worker' = ToNext
  /\ UNCHANGED <<order, up, sweep, calls, auto, requests>>
-----------------------------------------------------------------------------
(* A log scan investigates a ticket it has created, outside the queue.     *)
AutoStart(t) ==
  /\ up /\ auto[t] = "no"
  /\ auto' = [auto EXCEPT ![t] = "running"]
  /\ UNCHANGED <<inv, order, up, sweep, worker, calls, requests, failures>>

AutoEnds(t) ==
  /\ auto[t] = "running"
  /\ auto' = [auto EXCEPT ![t] = "over"]
  /\ inv' \in {inv, [inv EXCEPT ![t] = "success"]}
  /\ UNCHANGED <<order, up, sweep, worker, calls, requests, failures>>

(* The process dies, and is started again.                                 *)
Crash ==
  /\ up
  /\ up' = FALSE /\ sweep' = "over" /\ worker' = Off
  /\ calls' = [c \in Callers |-> NoCall]
  /\ auto' = [t \in Tickets |-> IF auto[t] = "running" THEN "over" ELSE auto[t]]
  /\ UNCHANGED <<inv, order, requests, failures>>

Boot ==
  /\ ~up
  /\ up' = TRUE /\ sweep' = "todo"
  /\ UNCHANGED <<inv, order, worker, calls, auto, requests, failures>>

(* Mutant: the worker is kicked only if there were stragglers. *)
SweepWrite_KicksIfAny ==
  /\ sweep = "todo"
  /\ inv' = [t \in Tickets |-> IF inv[t] = "running" THEN "queued" ELSE inv[t]]
  /\ sweep' = IF inv' # inv THEN "kick" ELSE "over"
  /\ UNCHANGED <<order, up, worker, calls, auto, requests, failures>>

(* requeueStragglers, which nothing waits for: the requests of the new     *)
(* process and their runs may come before it.                              *)
SweepWrite ==
  /\ sweep = "todo"
  /\ inv' = [t \in Tickets |-> IF inv[t] = "running" THEN "queued" ELSE inv[t]]
  /\ sweep' = "kick"
  /\ UNCHANGED <<order, up, worker, calls, auto, requests, failures>>

SweepFails ==
  /\ sweep = "todo" /\ Fail
  /\ sweep' = "over"
  /\ UNCHANGED <<inv, order, up, worker, calls, auto, requests>>

SweepKick ==
  /\ sweep = "kick"
  /\ sweep' = "over"
  /\ worker' = Kicked(worker)
  /\ UNCHANGED <<inv, order, up, calls, auto, requests, failures>>

Call(c) == EnqueueWrite(c) \/ EnqueueWriteFails(c) \/ EnqueueKick(c)
Drain == \/ FindNext \/ FindFails \/ Drained \/ StartRun \/ StartFails
         \/ AgentEnds \/ SaveOutcome \/ SaveFails \/ MarkFailed
Sweep == SweepWrite \/ SweepFails \/ SweepKick

Next ==
  \/ \E c \in Callers : Call(c) \/ \E t \in Tickets : EnqueueRead(c, t)
  \/ Drain
  \/ \E t \in Tickets : AutoStart(t) \/ AutoEnds(t)
  \/ Crash \/ Boot \/ Sweep

(* A process that is up goes on with what it awaits, and one that died is  *)
(* started again.                                                          *)
Fairness ==
  /\ \A c \in Callers : WF_vars(Call(c))
  /\ WF_vars(Drain) /\ WF_vars(Sweep) /\ WF_vars(Boot)

Spec == Init /\ [][Next]_vars
FairSpec == Spec /\ Fairness
-----------------------------------------------------------------------------
(* Somebody will look at the ticket without being asked again.             *)
KickComing == ~up \/ sweep # "over" \/ worker.wake \/ \E c \in Callers : calls[c].pc = "kick"

Attended(t) ==
  /\ inv[t] = "queued" =>
       \/ KickComing
       \/ worker.pc # "off" /\ (worker.pc = "got" => worker.ticket # NONE)
  /\ inv[t] = "running" => ~up \/ sweep = "todo" \/ worker.ticket = t

(* worker.ts: "a ticket enqueued mid-drain is still picked up (closes the  *)
(* enqueue/finish race)"; a ticket is marked running only while the loop   *)
(* is on it. Only a statement that failed can leave a ticket behind.       *)
NobodyIsForgotten == TypeOK /\ (failures = 0 => \A t \in Tickets : Attended(t))

(* Once the process stays up, a ticket that is queued or running, since    *)
(* before it died or not, is settled, unless a failed statement has left   *)
(* it behind.                                                              *)
QueuedIsSettled ==
  <>[]up => \A t \in Tickets :
    inv[t] \in {"queued", "running"} ~>
      \/ inv[t] \in {"success", "failed"}
      \/ failures > 0 /\ ~Attended(t)
=============================================================================
