----------------------------- MODULE TicketScan -----------------------------
(***************************************************************************)
(* The log scans that open security tickets (lib/ai/scan/engine.ts), the   *)
(* two ways a scan is started (ai/scan/scheduler.ts and services/scan.ts)  *)
(* and the operators who work on the same tickets (services/tickets.ts).   *)
(*                                                                         *)
(* A scan reads the tickets once, then goes through its scopes; what the   *)
(* model reports of a scope is applied finding by finding, against the     *)
(* tickets as they were read or, where the model names none, against the   *)
(* row with the finding's dedupe key. Every await is a point where another *)
(* scan or an operator comes between. A row still RUNNING after fifteen    *)
(* minutes is failed by whoever wants to start a scan: by a request, or by *)
(* the scheduler while scanning is enabled, which it is not by default.    *)
(*                                                                         *)
(* A ticket is named by its dedupe key, which is unique, and never         *)
(* deleted. Which of the closed tickets the model is shown is left open,   *)
(* and so is what it reports. Tickets opened by hand, which differ in      *)
(* having no key and in that operators may edit them, are left out.        *)
(***************************************************************************)
EXTENDS Naturals, FiniteSets

CONSTANTS
  Tickets,     \* the tickets there may be, by dedupe key
  Tick,        \* the scheduler of the process
  Requests,    \* manual scans in progress at once
  Scopes,      \* number of enabled scopes
  High,        \* severities from here on are HIGH or CRITICAL
  MaxSeverity,
  NONE,        \* no ticket
  MaxScans,    \* bound: scans
  MaxFindings, \* bound: findings, over all scans
  MaxEdits,    \* bound: changes operators make
  MaxFaults    \* bound: statements that fail

Starters == Requests \union {Tick}
Scans == 1..MaxScans
Severities == 1..MaxSeverity

ASSUME ScanAssumption ==
  /\ NONE \notin Tickets /\ Tick \notin Requests
  /\ {Scopes, MaxSeverity} \subseteq Nat \ {0} /\ High \in Nat
  /\ {MaxScans, MaxFindings, MaxEdits, MaxFaults} \subseteq Nat

VARIABLES
  tickets, \* the SecurityTicket rows
  runs,    \* status of the AiScanRun rows, in the order of startedAt
  old,     \* the rows RUNNING for more than fifteen minutes
  scan,    \* what each starter is doing
  enabled, \* AiScanConfig.enabled: whether the scheduler scans
  findings, edits, faults

vars == <<tickets, runs, old, scan, enabled, findings, edits, faults>>

Statuses == {"none", "OPEN", "CLOSED"}
Ticket == [status : Statuses, severity : Severities, text : 0..MaxScans]
NoTicket == [status |-> "none", severity |-> 1, text |-> 0]

\* What is known of a ticket, and the finding that is to be written to it.
Read == [status : Statuses, severity : Severities]
Unread == [status |-> "none", severity |-> 1]
Plan == [ticket : Tickets \union {NONE}, read : Read, severity : Severities,
         matched : BOOLEAN]
NoPlan == [ticket |-> NONE, read |-> Unread, severity |-> 1, matched |-> FALSE]

Idle == [pc |-> "idle", run |-> 0, context |-> [t \in Tickets |-> Unread], left |-> 0,
         errors |-> 0, fresh |-> {}, plan |-> NoPlan]
Scanning == [pc : {"idle", "check", "create", "context", "scope", "write"},
             run : 0..MaxScans, context : [Tickets -> Read], left : 0..Scopes,
             errors : Nat, fresh : SUBSET Tickets, plan : Plan]

TypeOK ==
  /\ tickets \in [Tickets -> Ticket]
  /\ runs \in [Scans -> {"none", "RUNNING", "SUCCESS", "PARTIAL", "FAILED"}]
  /\ old \subseteq Scans
  /\ scan \in [Starters -> Scanning]
  /\ enabled \in BOOLEAN
  /\ findings \in 0..MaxFindings /\ edits \in 0..MaxEdits /\ faults \in 0..MaxFaults

Init ==
  /\ tickets = [t \in Tickets |-> NoTicket]
  /\ runs = [s \in Scans |-> "none"]
  /\ old = {}
  /\ scan = [c \in Starters |-> Idle]
  /\ enabled \in BOOLEAN
  /\ findings = 0 /\ edits = 0 /\ faults = 0

Exists(t) == tickets[t].status # "none"
Fault == faults < MaxFaults /\ faults' = faults + 1
Goes(c, r) == scan' = [scan EXCEPT ![c] = r]
-----------------------------------------------------------------------------
(* Starting a scan.                                                        *)

Started == {s \in Scans : runs[s] # "none"}
Running == {s \in Scans : runs[s] = "RUNNING"}
Latest(s) == s \in Started /\ \A r \in Started : r <= s

\* The bound leaves a row for every starter that has passed its check.
Room == Cardinality(Started) + Cardinality({c \in Starters : scan[c].pc = "create"}) < MaxScans

\* Mutant: only the manual way fails rows that are too old.
FailStale_ManualOnly(c) ==
  runs' = [s \in Scans |-> IF s \in old /\ c # Tick THEN "FAILED" ELSE runs[s]]

FailStale(c) == runs' = [s \in Scans |-> IF s \in old THEN "FAILED" ELSE runs[s]]

\* A tick returns at once while scanning is disabled; a request does not look.
MayAsk(c) == c = Tick => enabled

\* The tick, or the request: rows that are too old are failed first.
Ask(c) ==
  /\ scan[c].pc = "idle" /\ MayAsk(c)
  /\ FailStale(c)
  /\ old' = {s \in old : runs'[s] = "RUNNING"}
  /\ scan' = [scan EXCEPT ![c].pc = "check"]
  /\ UNCHANGED <<tickets, enabled, findings, edits, faults>>

\* The tick looks at the latest row only, and at the interval; a request at all.
MayStart(c) == IF c = Tick THEN ~\E s \in Running : Latest(s) ELSE Running = {}

Refuse(c) ==
  /\ scan[c].pc = "check"
  /\ c = Tick \/ ~MayStart(c) \/ ~Room
  /\ scan' = [scan EXCEPT ![c] = Idle]
  /\ UNCHANGED <<tickets, runs, old, enabled, findings, edits, faults>>

Accept(c) ==
  /\ scan[c].pc = "check" /\ MayStart(c) /\ Room
  /\ scan' = [scan EXCEPT ![c].pc = "create"]
  /\ UNCHANGED <<tickets, runs, old, enabled, findings, edits, faults>>

\* runScan begins: nothing has been locked since the check.
CreateRun(c) ==
  /\ scan[c].pc = "create"
  /\ \E s \in Scans \ Started :
       /\ \A r \in Scans \ Started : s <= r
       /\ runs' = [runs EXCEPT ![s] = "RUNNING"]
       /\ scan' = [scan EXCEPT ![c] = [Idle EXCEPT !.pc = "context", !.run = s]]
  /\ UNCHANGED <<tickets, old, enabled, findings, edits, faults>>

\* A statement outside the scopes fails: the row is left RUNNING.
ScanThrows(c) ==
  /\ \/ scan[c].pc \in {"check", "create", "context"}
     \/ scan[c].pc = "scope" /\ scan[c].left = 0
  /\ Fault
  /\ scan' = [scan EXCEPT ![c] = Idle]
  /\ UNCHANGED <<tickets, runs, old, enabled, findings, edits>>
-----------------------------------------------------------------------------
(* The scopes, one after the other.                                        *)

\* fetchContextTickets, for all scopes of the run.
FetchContext(c) ==
  /\ scan[c].pc = "context"
  /\ Goes(c, [scan[c] EXCEPT !.pc = "scope", !.left = Scopes,
       !.context = [t \in Tickets |-> [status   |-> tickets[t].status,
                                       severity |-> tickets[t].severity]]])
  /\ UNCHANGED <<tickets, runs, old, enabled, findings, edits, faults>>

\* The finding matches a ticket the model was shown, ...
Matched(c, v) ==
  {[ticket |-> t, read |-> scan[c].context[t], severity |-> v, matched |-> TRUE]
     : t \in {u \in Tickets : scan[c].context[u].status # "none"}}

\* ... or it is looked up by its key.
Keyed(v) ==
  {[ticket  |-> k, read |-> [status |-> tickets[k].status, severity |-> tickets[k].severity],
    severity |-> v, matched |-> FALSE] : k \in Tickets}

\* A finding of the current scope, and what is read for it.
Report(c) ==
  /\ scan[c].pc = "scope" /\ scan[c].left > 0 /\ findings < MaxFindings
  /\ \E v \in Severities : \E p \in Matched(c, v) \union Keyed(v) :
       Goes(c, [scan[c] EXCEPT !.pc = "write", !.plan = p])
  /\ findings' = findings + 1
  /\ UNCHANGED <<tickets, runs, old, enabled, edits, faults>>

\* Mutant: a ticket the model names is brought up to date whatever its state.
PlanFinding_MatchedIsOpen(p) ==
  IF p.matched THEN "attach-open"
  ELSE CASE p.read.status = "none" -> "create"
         [] p.read.status = "OPEN" -> "attach-open"
         [] p.read.status = "CLOSED" -> "suppress"

PlanFinding(p) ==
  CASE p.read.status = "none" -> "create"
    [] p.read.status = "OPEN" -> "attach-open"
    [] p.read.status = "CLOSED" -> IF p.matched THEN "attach-closed" ELSE "suppress"

\* The row after the update. Severity is compared with what was read.
Updated(p, run) ==
  LET raised == IF p.severity > p.read.severity THEN p.severity ELSE tickets[p.ticket].severity
  IN  CASE PlanFinding(p) = "suppress" -> tickets[p.ticket]
        [] PlanFinding(p) = "attach-closed" -> [tickets[p.ticket] EXCEPT !.severity = raised]
        [] PlanFinding(p) = "attach-open" ->
             [tickets[p.ticket] EXCEPT !.severity = raised, !.text = run]

\* applyFinding's write.
Apply(c) ==
  LET p == scan[c].plan IN
  /\ scan[c].pc = "write"
  /\ PlanFinding(p) = "create" => ~Exists(p.ticket)
  /\ tickets' = [tickets EXCEPT ![p.ticket] =
       IF PlanFinding(p) = "create"
       THEN [status |-> "OPEN", severity |-> p.severity, text |-> scan[c].run]
       ELSE Updated(p, scan[c].run)]
  /\ Goes(c, [scan[c] EXCEPT !.pc = "scope", !.plan = NoPlan,
       !.fresh = IF PlanFinding(p) = "create" /\ p.severity >= High
                 THEN @ \union {p.ticket} ELSE @])
  /\ UNCHANGED <<runs, old, enabled, findings, edits, faults>>

\* The scope is done, or ...
EndScope(c) ==
  /\ scan[c].pc = "scope" /\ scan[c].left > 0
  /\ scan' = [scan EXCEPT ![c].left = @ - 1]
  /\ UNCHANGED <<tickets, runs, old, enabled, findings, edits, faults>>

\* ... it throws, and the rest of its findings is given up: ...
GiveUpScope(c) ==
  /\ Goes(c, [scan[c] EXCEPT !.pc = "scope", !.left = @ - 1, !.errors = @ + 1,
                             !.plan = NoPlan])
  /\ UNCHANGED <<tickets, runs, old, enabled, findings, edits>>

\* the key has been taken since the lookup, or ...
KeyTaken(c) ==
  /\ scan[c].pc = "write"
  /\ PlanFinding(scan[c].plan) = "create" /\ Exists(scan[c].plan.ticket)
  /\ GiveUpScope(c) /\ UNCHANGED faults

\* the collection, the model or a statement fails.
ScopeThrows(c) ==
  /\ scan[c].pc \in {"scope", "write"} /\ scan[c].left > 0
  /\ GiveUpScope(c) /\ Fault

ScanStatus(errors) ==
  IF errors = 0 THEN "SUCCESS" ELSE IF errors = Scopes THEN "FAILED" ELSE "PARTIAL"

\* Auto-investigation of the new tickets that are HIGH or CRITICAL, of which a
\* failure counts as an error of the run; the status is written whatever the row
\* says by now.
Finish(c) ==
  /\ scan[c].pc = "scope" /\ scan[c].left = 0
  /\ \E failed \in 0..Cardinality(scan[c].fresh) :
       /\ faults + failed <= MaxFaults /\ faults' = faults + failed
       /\ runs' = [runs EXCEPT ![scan[c].run] = ScanStatus(scan[c].errors + failed)]
  /\ old' = old \ {scan[c].run}
  /\ scan' = [scan EXCEPT ![c] = Idle]
  /\ UNCHANGED <<tickets, enabled, findings, edits>>
-----------------------------------------------------------------------------
(* Operators, and time.                                                    *)

Edit == edits < MaxEdits /\ edits' = edits + 1

\* patchTicket.
Close(t) ==
  /\ tickets[t].status = "OPEN" /\ Edit
  /\ tickets' = [tickets EXCEPT ![t].status = "CLOSED"]
  /\ UNCHANGED <<runs, old, scan, enabled, findings, faults>>

Reopen(t) ==
  /\ tickets[t].status = "CLOSED"
  /\ tickets' = [tickets EXCEPT ![t].status = "OPEN"]
  /\ UNCHANGED <<runs, old, scan, enabled, findings, edits, faults>>

\* updateScanConfig, as often as operators like; a scan under way goes on.
SetEnabled ==
  /\ enabled' = ~enabled
  /\ UNCHANGED <<tickets, runs, old, scan, findings, edits, faults>>

\* Fifteen minutes are soon over for a scan that waits for a model, and for one
\* whose process has died.
Age(s) ==
  /\ runs[s] = "RUNNING" /\ s \notin old
  /\ old' = old \union {s}
  /\ UNCHANGED <<tickets, runs, scan, enabled, findings, edits, faults>>

\* The process dies.
Crash ==
  /\ scan' = [c \in Starters |-> Idle]
  /\ UNCHANGED <<tickets, runs, old, enabled, findings, edits, faults>>
-----------------------------------------------------------------------------
Progress(c) ==
  \/ Refuse(c) \/ Accept(c) \/ CreateRun(c) \/ FetchContext(c) \/ Apply(c)
  \/ KeyTaken(c) \/ EndScope(c) \/ Finish(c)

Next ==
  \/ \E c \in Starters : Ask(c) \/ Progress(c) \/ ScanThrows(c) \/ Report(c) \/ ScopeThrows(c)
  \/ \E t \in Tickets : Close(t) \/ Reopen(t)
  \/ SetEnabled
  \/ \E s \in Scans : Age(s)
  \/ Crash

Spec == Init /\ [][Next]_vars

\* The requests of a scan have timeouts, and that an automatic investigation ends,
\* which is given no signal, is supposed. While scanning is enabled the scheduler
\* asks every minute, unless a scan it has started is under way; a request is
\* carried through; fifteen minutes pass. Nobody has to enable or to ask.
FairSpec ==
  /\ Spec
  /\ WF_vars(Ask(Tick))
  /\ \A c \in Starters : WF_vars(Progress(c))
  /\ \A s \in Scans : WF_vars(Age(s))
-----------------------------------------------------------------------------
\* What was known of a ticket to the scans that write to it in this step.
ReadOf(t) ==
  {scan[c].plan.read : c \in {x \in Starters : scan[x].plan.ticket = t /\ scan'[x].plan = NoPlan}}

\* policy.ts: "once an operator closes a ticket it is handled"; engine.ts: "keep
\* it CLOSED and DON'T rewrite the operator's content", "Only escalate severity if
\* the finding is strictly worse". No step of a scan opens a closed ticket; one
\* replaces the text of a closed ticket only if it read the ticket as open; one
\* lowers a severity only if it read a lower one. What a scan has read may be out
\* of date, by another scan, by an operator or by a finding of its own.
Stands(t) ==
  /\ Exists(t)'
  /\ tickets[t].status = "CLOSED" /\ scan' # scan => tickets'[t].status = "CLOSED"
  /\ tickets[t].status = "CLOSED" /\ tickets'[t].text # tickets[t].text =>
       \E r \in ReadOf(t) : r.status = "OPEN"
  /\ tickets'[t].severity < tickets[t].severity =>
       \E r \in ReadOf(t) : r.severity < tickets[t].severity
DecisionsStand == []TypeOK /\ [][\A t \in Tickets : Exists(t) => Stands(t)]_vars

\* Scanning stays enabled from some time on, or requests keep coming.
SomebodyAsks ==
  \/ <>[]enabled
  \/ []<><<\E r \in Requests : Ask(r)>>_vars

\* scheduler.ts: a crashed process's row "neither blocks manual runs nor counts as
\* the latest successful start". As long as somebody asks, every row that says
\* RUNNING comes to say how the scan ended, although its process may die and its
\* last update may fail. With scanning disabled, as it is by default, the row of a
\* manual scan that has died says RUNNING until the next request.
ScanIsSettled ==
  SomebodyAsks => \A s \in Scans : runs[s] = "RUNNING" ~> runs[s] # "RUNNING"
=============================================================================
