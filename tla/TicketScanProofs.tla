-------------------------- MODULE TicketScanProofs --------------------------
(***************************************************************************)
(* Proofs about TicketScan, for any tickets, requests, scopes and          *)
(* severities, and any number of scans, findings and failures.             *)
(***************************************************************************)
EXTENDS TicketScan, TLAPS

\* A finding is written to a ticket, in a scope that is not over.
WritesOK ==
  \A c \in Starters : scan[c].pc = "write" =>
    scan[c].plan \in Plan /\ scan[c].plan.ticket \in Tickets /\ scan[c].left > 0

\* What a scan has read of, there is: tickets are never deleted.
KnownOK ==
  \A c \in Starters :
    /\ \A t \in Tickets : scan[c].context[t].status # "none" => Exists(t)
    /\ scan[c].pc = "write" /\ scan[c].plan.read.status # "none" => Exists(scan[c].plan.ticket)

IInv == TypeOK /\ WritesOK /\ KnownOK

-----------------------------------------------------------------------------

LEMMA Constants ==
  /\ 0 \in 0..MaxScans /\ 0 \in 0..Scopes /\ 0 \in 0..MaxFindings
  /\ 0 \in 0..MaxEdits /\ 0 \in 0..MaxFaults
  /\ Scopes \in Nat /\ 1 \in Severities /\ Scans \subseteq 0..MaxScans
  /\ NoTicket \in Ticket /\ Unread \in Read /\ NoPlan \in Plan /\ Idle \in Scanning
  BY ScanAssumption
  DEF Severities, Scans, NoTicket, Ticket, Statuses, Unread, Read, NoPlan, Plan, Idle, Scanning

LEMMA InitOK == Init => IInv
  BY Constants DEF Init, IInv, TypeOK, WritesOK, KnownOK, Idle, Unread

\* A row keeps its type whatever is written to it.
LEMMA UpdatedType ==
  ASSUME TypeOK, NEW p \in Plan, p.ticket \in Tickets, NEW run \in 0..MaxScans,
         PlanFinding(p) # "create"
  PROVE  /\ Updated(p, run) \in Ticket
         /\ Updated(p, run).status = tickets[p.ticket].status
         /\ Updated(p, run).text # tickets[p.ticket].text => p.read.status = "OPEN"
         /\ Updated(p, run).severity < tickets[p.ticket].severity =>
              p.read.severity < tickets[p.ticket].severity
<1>1. tickets[p.ticket] \in Ticket /\ p.read \in Read /\ p.severity \in Severities
  BY DEF TypeOK, Plan
<1>2. p.read.status \in {"OPEN", "CLOSED"}
  BY <1>1 DEF PlanFinding, Read, Statuses
<1>3. PlanFinding(p) \in {"attach-open", "attach-closed", "suppress"}
      /\ (PlanFinding(p) = "attach-open" <=> p.read.status = "OPEN")
  BY <1>2 DEF PlanFinding
<1> DEFINE raised == IF p.severity > p.read.severity THEN p.severity
                                                    ELSE tickets[p.ticket].severity
<1>4. /\ raised \in Severities
      /\ raised < tickets[p.ticket].severity => p.read.severity < tickets[p.ticket].severity
  BY <1>1, ScanAssumption DEF Ticket, Read, Severities
<1>5. CASE PlanFinding(p) = "suppress"
  BY <1>1, <1>5, ScanAssumption DEF Updated, Ticket, Severities
<1>6. CASE PlanFinding(p) = "attach-closed"
  <2>1. Updated(p, run) = [tickets[p.ticket] EXCEPT !.severity = raised]
    BY <1>6 DEF Updated
  <2> HIDE DEF raised
  <2> QED BY <1>1, <1>4, <2>1 DEF Ticket
<1>7. CASE PlanFinding(p) = "attach-open"
  <2>1. Updated(p, run) = [tickets[p.ticket] EXCEPT !.severity = raised, !.text = run]
    BY <1>7 DEF Updated
  <2> HIDE DEF raised
  <2> QED BY <1>1, <1>3, <1>4, <1>7, <2>1 DEF Ticket
<1> QED BY <1>3, <1>5, <1>6, <1>7

\* The step that writes a finding.
LEMMA ApplyOK ==
  ASSUME IInv, NEW c \in Starters, Apply(c)
  PROVE  IInv' /\ \A t \in Tickets : Exists(t) => Stands(t)
<1> DEFINE p == scan[c].plan
           row == IF PlanFinding(p) = "create"
                  THEN [status |-> "OPEN", severity |-> p.severity, text |-> scan[c].run]
                  ELSE Updated(p, scan[c].run)
<1>1. /\ scan[c] \in Scanning /\ p \in Plan /\ p.ticket \in Tickets
      /\ scan[c].pc = "write" /\ scan[c].left > 0
  BY DEF Apply, IInv, TypeOK, WritesOK
<1>2. /\ PlanFinding(p) = "create" => ~Exists(p.ticket)
      /\ tickets' = [tickets EXCEPT ![p.ticket] = row]
      /\ UNCHANGED <<runs, old, enabled, findings, edits, faults>>
  BY DEF Apply
<1>3. scan[c].run \in 0..MaxScans /\ p.severity \in Severities
  BY <1>1 DEF Scanning, Plan
<1>4. /\ row \in Ticket /\ row.status # "none"
      /\ Exists(p.ticket) =>
           /\ row.status = tickets[p.ticket].status
           /\ row.text # tickets[p.ticket].text => p.read.status = "OPEN"
           /\ row.severity < tickets[p.ticket].severity =>
                p.read.severity < tickets[p.ticket].severity
  <2>1. CASE PlanFinding(p) = "create"
    BY <1>2, <1>3, <2>1 DEF Ticket, Statuses
  <2>2. CASE PlanFinding(p) # "create"
    <3>1. row = Updated(p, scan[c].run)
      BY <2>2
    <3>2. p.read.status # "none"
      BY <1>1, <2>2 DEF PlanFinding, Plan, Read, Statuses
    <3>3. Exists(p.ticket)
      BY <1>1, <3>2 DEF IInv, KnownOK
    <3> HIDE DEF row
    <3> QED BY <1>1, <1>3, <2>2, <3>1, <3>3, UpdatedType DEF IInv, Exists
  <2> QED BY <2>1, <2>2
<1> HIDE DEF row
<1>5. tickets' \in [Tickets -> Ticket] /\ \A t \in Tickets : Exists(t) => Exists(t)'
  BY <1>1, <1>2, <1>4 DEF IInv, TypeOK, Exists
<1>6. /\ scan' \in [Starters -> Scanning]
      /\ scan'[c].pc = "scope" /\ scan'[c].plan = NoPlan /\ scan'[c].context = scan[c].context
      /\ \A x \in Starters \ {c} : scan'[x] = scan[x]
  <2> DEFINE F == IF PlanFinding(p) = "create" /\ p.severity >= High
                  THEN scan[c].fresh \union {p.ticket} ELSE scan[c].fresh
           r == [scan[c] EXCEPT !.pc = "scope", !.plan = NoPlan, !.fresh = F]
  <2>1. scan' = [scan EXCEPT ![c] = r]
    BY DEF Apply, Goes
  <2>2. F \in SUBSET Tickets
    BY <1>1 DEF Scanning
  <2> HIDE DEF F
  <2>3. /\ r \in Scanning
        /\ r.pc = "scope" /\ r.plan = NoPlan /\ r.context = scan[c].context
    BY <1>1, <2>2, Constants DEF Scanning
  <2> HIDE DEF r
  <2> QED BY <2>1, <2>3 DEF IInv, TypeOK
<1>7. IInv'
  <2>1. TypeOK'
    BY <1>2, <1>5, <1>6 DEF IInv, TypeOK
  <2>2. WritesOK'
    BY <1>6 DEF IInv, WritesOK
  <2>3. KnownOK'
    <3> SUFFICES ASSUME NEW x \in Starters
                 PROVE  /\ \A t \in Tickets :
                             scan'[x].context[t].status # "none" => tickets'[t].status # "none"
                        /\ scan'[x].pc = "write" /\ scan'[x].plan.read.status # "none"
                             => tickets'[scan'[x].plan.ticket].status # "none"
      BY DEF KnownOK, Exists
    <3>1. CASE x = c
      BY <1>5, <1>6, <3>1 DEF IInv, KnownOK, Exists
    <3>2. CASE x # c
      BY <1>5, <1>6, <3>2 DEF IInv, KnownOK, WritesOK, Exists
    <3> QED BY <3>1, <3>2
  <2> QED BY <2>1, <2>2, <2>3 DEF IInv
<1>8. ASSUME NEW t \in Tickets, Exists(t) PROVE Stands(t)
  <2>1. CASE t = p.ticket
    <3>1. p.read \in ReadOf(t)
      BY <1>6, <2>1 DEF ReadOf
    <3>2. tickets'[t] = row
      BY <1>1, <1>2, <2>1 DEF IInv, TypeOK
    <3>3. Exists(t)' /\ Exists(p.ticket)
      BY <1>5, <1>8, <2>1
    <3> QED BY <1>4, <2>1, <3>1, <3>2, <3>3 DEF Stands
  <2>2. CASE t # p.ticket
    <3>1. tickets'[t] = tickets[t]
      BY <1>1, <1>2, <2>2 DEF IInv, TypeOK
    <3>2. ~ (tickets[t].severity < tickets[t].severity)
      BY ScanAssumption DEF IInv, TypeOK, Ticket, Severities
    <3> QED BY <1>5, <1>8, <3>1, <3>2 DEF Stands
  <2> QED BY <2>1, <2>2
<1> QED BY <1>7, <1>8

\* A step that leaves the tickets alone, and the scans to themselves.
LEMMA ScanStep ==
  ASSUME IInv, UNCHANGED tickets, TypeOK',
         \A c \in Starters :
           /\ \A t \in Tickets : scan'[c].context[t].status \in {"none", scan[c].context[t].status}
           /\ \/ scan'[c].pc # "write"
              \/ scan'[c].pc = scan[c].pc /\ scan'[c].plan = scan[c].plan
                   /\ scan'[c].left = scan[c].left
  PROVE  IInv' /\ \A t \in Tickets : Exists(t) => Stands(t)
<1>1. WritesOK' /\ KnownOK'
  BY DEF IInv, WritesOK, KnownOK, Exists
<1>2. \A t \in Tickets : ~ (tickets[t].severity < tickets[t].severity)
  BY ScanAssumption DEF IInv, TypeOK, Ticket, Severities
<1> QED BY <1>1, <1>2 DEF IInv, Stands, Exists

\* Starting, going on with and giving up a scan.
LEMMA StarterOK ==
  ASSUME IInv, NEW c \in Starters,
         \/ Ask(c) \/ Refuse(c) \/ Accept(c) \/ CreateRun(c) \/ ScanThrows(c)
         \/ KeyTaken(c) \/ ScopeThrows(c) \/ EndScope(c) \/ Finish(c)
  PROVE  IInv' /\ \A t \in Tickets : Exists(t) => Stands(t)
<1>0. scan[c] \in Scanning /\ scan \in [Starters -> Scanning]
  BY DEF IInv, TypeOK
<1>1. UNCHANGED <<tickets, enabled, findings, edits>>
  BY DEF Ask, Refuse, Accept, CreateRun, ScanThrows, KeyTaken, ScopeThrows, GiveUpScope,
         EndScope, Finish
<1>2. faults' \in 0..MaxFaults
  <2>0. faults \in 0..MaxFaults /\ MaxFaults \in Nat
    BY ScanAssumption DEF IInv, TypeOK
  <2>1. CASE Ask(c) \/ Refuse(c) \/ Accept(c) \/ CreateRun(c) \/ KeyTaken(c) \/ EndScope(c)
    BY <2>0, <2>1 DEF Ask, Refuse, Accept, CreateRun, KeyTaken, EndScope
  <2>2. CASE ScanThrows(c) \/ ScopeThrows(c)
    BY <2>0, <2>2 DEF ScanThrows, ScopeThrows, Fault
  <2>3. CASE Finish(c)
    BY <2>0, <2>3 DEF Finish
  <2> QED BY <2>1, <2>2, <2>3
<1>3. /\ runs' \in [Scans -> {"none", "RUNNING", "SUCCESS", "PARTIAL", "FAILED"}]
      /\ old' \subseteq Scans
  BY DEF IInv, TypeOK, Ask, Refuse, Accept, CreateRun, ScanThrows, KeyTaken, ScopeThrows,
         GiveUpScope, EndScope, Finish, FailStale, ScanStatus
<1>4. /\ scan' \in [Starters -> Scanning]
      /\ \A x \in Starters \ {c} : scan'[x] = scan[x]
      /\ scan'[c].pc # "write"
      /\ scan'[c].context \in {scan[c].context, [t \in Tickets |-> Unread]}
  <2>1. CASE Ask(c) \/ Accept(c)
    <3>1. PICK pc \in {"check", "create"} : scan' = [scan EXCEPT ![c].pc = pc]
      BY <2>1 DEF Ask, Accept
    <3>2. scan'[c].pc = pc /\ scan'[c].context = scan[c].context
      BY <1>0, <3>1 DEF Scanning
    <3>3. scan' \in [Starters -> Scanning]
      BY <1>0, <3>1 DEF Scanning
    <3> QED BY <1>0, <3>1, <3>2, <3>3
  <2>2. CASE Refuse(c) \/ ScanThrows(c) \/ Finish(c)
    <3>1. scan' = [scan EXCEPT ![c] = Idle]
      BY <2>2 DEF Refuse, ScanThrows, Finish
    <3>2. Idle.pc # "write" /\ Idle.context = [t \in Tickets |-> Unread]
      BY DEF Idle
    <3> QED BY <1>0, <3>1, <3>2, Constants
  <2>3. CASE CreateRun(c)
    <3>1. PICK s \in Scans :
            scan' = [scan EXCEPT ![c] = [Idle EXCEPT !.pc = "context", !.run = s]]
      BY <2>3 DEF CreateRun
    <3>2. [Idle EXCEPT !.pc = "context", !.run = s] \in Scanning
      BY Constants DEF Scanning
    <3> QED BY <1>0, <3>1, <3>2 DEF Idle
  <2>4. CASE KeyTaken(c) \/ ScopeThrows(c)
    <3>1. scan[c].left - 1 \in 0..Scopes /\ scan[c].errors + 1 \in Nat
      BY <1>0, <2>4, Constants
      DEF IInv, WritesOK, KeyTaken, ScopeThrows, Scanning
    <3> DEFINE r == [scan[c] EXCEPT !.pc = "scope", !.left = scan[c].left - 1,
                                    !.errors = scan[c].errors + 1, !.plan = NoPlan]
    <3>2. scan' = [scan EXCEPT ![c] = r]
      BY <2>4 DEF KeyTaken, ScopeThrows, GiveUpScope, Goes
    <3>3. r \in Scanning /\ r.pc = "scope" /\ r.context = scan[c].context
      BY <1>0, <3>1, Constants DEF Scanning
    <3> HIDE DEF r
    <3> QED BY <1>0, <3>2, <3>3
  <2>5. CASE EndScope(c)
    <3>1. scan[c].left - 1 \in 0..Scopes
      BY <1>0, <2>5, Constants DEF EndScope, Scanning
    <3> QED BY <1>0, <2>5, <3>1 DEF EndScope, Scanning
  <2> QED BY <2>1, <2>2, <2>3, <2>4, <2>5
<1>5. TypeOK'
  BY <1>1, <1>2, <1>3, <1>4 DEF IInv, TypeOK
<1> QED BY <1>1, <1>4, <1>5, ScanStep DEF Unread

\* What a scan reads is what there is.
LEMMA ReadingOK ==
  ASSUME IInv, NEW c \in Starters, FetchContext(c) \/ Report(c)
  PROVE  IInv' /\ \A t \in Tickets : Exists(t) => Stands(t)
<1>0. scan[c] \in Scanning /\ scan \in [Starters -> Scanning]
  BY DEF IInv, TypeOK
<1>1. UNCHANGED <<tickets, runs, old, enabled, edits, faults>> /\ findings' \in 0..MaxFindings
  <2>1. findings \in 0..MaxFindings /\ MaxFindings \in Nat
    BY ScanAssumption DEF IInv, TypeOK
  <2>2. UNCHANGED <<tickets, runs, old, enabled, edits, faults>>
    BY DEF FetchContext, Report
  <2>3. findings' = findings \/ (findings < MaxFindings /\ findings' = findings + 1)
    BY DEF FetchContext, Report
  <2> QED BY <2>1, <2>2, <2>3
<1>2. \A t \in Tickets : [status |-> tickets[t].status, severity |-> tickets[t].severity] \in Read
  BY DEF IInv, TypeOK, Ticket, Read
<1>3. /\ scan' \in [Starters -> Scanning]
      /\ \A x \in Starters \ {c} : scan'[x] = scan[x]
      /\ \A t \in Tickets : scan'[c].context[t].status # "none" => Exists(t)
      /\ scan'[c].pc = "write" =>
           /\ scan'[c].plan \in Plan /\ scan'[c].plan.ticket \in Tickets /\ scan'[c].left > 0
           /\ scan'[c].plan.read.status # "none" => Exists(scan'[c].plan.ticket)
  <2>1. CASE FetchContext(c)
    <3> DEFINE seen == [t \in Tickets |-> [status   |-> tickets[t].status,
                                           severity |-> tickets[t].severity]]
    <3>1. seen \in [Tickets -> Read]
      BY <1>2
    <3> DEFINE r == [scan[c] EXCEPT !.pc = "scope", !.left = Scopes, !.context = seen]
    <3>2. scan' = [scan EXCEPT ![c] = r]
      BY <2>1 DEF FetchContext, Goes
    <3>3. \A t \in Tickets : seen[t].status # "none" => Exists(t)
      BY DEF Exists
    <3>4. Scopes \in 0..Scopes
      BY Constants
    <3> HIDE DEF seen
    <3>5. r \in Scanning /\ r.pc = "scope" /\ r.context = seen
      BY <1>0, <3>1, <3>4 DEF Scanning
    <3> HIDE DEF r
    <3> QED BY <1>0, <3>2, <3>3, <3>5
  <2>2. CASE Report(c)
    <3>0. PICK v \in Severities : \E p \in Matched(c, v) \union Keyed(v) :
            scan' = [scan EXCEPT ![c] = [scan[c] EXCEPT !.pc = "write", !.plan = p]]
      BY <2>2 DEF Report, Goes
    <3>1. PICK p \in Matched(c, v) \union Keyed(v) :
            scan' = [scan EXCEPT ![c] = [scan[c] EXCEPT !.pc = "write", !.plan = p]]
      BY <3>0
    <3>2. \A t \in Tickets : scan[c].context[t] \in Read
      BY <1>0 DEF Scanning
    <3>3. p \in Plan /\ p.ticket \in Tickets /\ (p.read.status # "none" => Exists(p.ticket))
      <4>1. CASE p \in Matched(c, v)
        <5>1. PICK t \in Tickets :
                /\ scan[c].context[t].status # "none"
                /\ p = [ticket |-> t, read |-> scan[c].context[t], severity |-> v, matched |-> TRUE]
          BY <4>1 DEF Matched
        <5> QED BY <3>2, <5>1 DEF Plan, IInv, KnownOK
      <4>2. CASE p \in Keyed(v)
        <5>1. PICK t \in Tickets :
                p = [ticket |-> t, severity |-> v, matched |-> FALSE,
                     read   |-> [status |-> tickets[t].status, severity |-> tickets[t].severity]]
          BY <4>2 DEF Keyed
        <5> QED BY <1>2, <5>1 DEF Plan, Exists
      <4> QED BY <3>1, <4>1, <4>2
    <3>4. scan[c].left > 0 /\ \A t \in Tickets : scan[c].context[t].status # "none" => Exists(t)
      BY <2>2 DEF Report, IInv, KnownOK
    <3> DEFINE r == [scan[c] EXCEPT !.pc = "write", !.plan = p]
    <3>5. /\ r \in Scanning
          /\ r.pc = "write" /\ r.plan = p /\ r.context = scan[c].context /\ r.left > 0
      BY <1>0, <3>3, <3>4 DEF Scanning
    <3>6. scan' = [scan EXCEPT ![c] = r]
      BY <3>1
    <3> HIDE DEF r
    <3> QED BY <1>0, <3>3, <3>4, <3>5, <3>6
  <2> QED BY <2>1, <2>2
<1>4. TypeOK'
  BY <1>1, <1>3 DEF IInv, TypeOK
<1>5. WritesOK' /\ KnownOK'
  BY <1>1, <1>3 DEF IInv, WritesOK, KnownOK, Exists
<1>6. \A t \in Tickets : ~ (tickets[t].severity < tickets[t].severity)
  BY ScanAssumption DEF IInv, TypeOK, Ticket, Severities
<1> QED BY <1>1, <1>4, <1>5, <1>6 DEF IInv, Stands, Exists

\* Operators, settings, time and crashes.
LEMMA AroundOK ==
  ASSUME IInv,
         \/ \E t \in Tickets : Close(t) \/ Reopen(t)
         \/ SetEnabled
         \/ \E s \in Scans : Age(s)
         \/ Crash
         \/ UNCHANGED vars
  PROVE  IInv' /\ \A t \in Tickets : Exists(t) => [Stands(t)]_vars
<1>0. \A t \in Tickets : ~ (tickets[t].severity < tickets[t].severity)
  BY ScanAssumption DEF IInv, TypeOK, Ticket, Severities
<1>1. ASSUME NEW u \in Tickets, Close(u) \/ Reopen(u)
      PROVE  IInv' /\ \A t \in Tickets : Exists(t) => Stands(t)
  <2>1. /\ UNCHANGED <<runs, old, scan, enabled, findings, faults>> /\ edits' \in 0..MaxEdits
        /\ \E s \in {"OPEN", "CLOSED"} : tickets' = [tickets EXCEPT ![u].status = s]
    BY <1>1, ScanAssumption DEF Close, Reopen, Edit, IInv, TypeOK
  <2>2. /\ tickets' \in [Tickets -> Ticket] /\ \A t \in Tickets : Exists(t) => Exists(t)'
        /\ \A t \in Tickets : /\ tickets'[t].severity = tickets[t].severity
                              /\ tickets'[t].text = tickets[t].text
    BY <2>1 DEF IInv, TypeOK, Ticket, Statuses, Exists
  <2>3. IInv'
    BY <2>1, <2>2 DEF IInv, TypeOK, WritesOK, KnownOK
  <2> QED BY <1>0, <2>1, <2>2, <2>3 DEF Stands
<1>2. CASE \E s \in Scans : Age(s)
  <2>1. TypeOK' /\ UNCHANGED <<tickets, scan>>
    BY <1>2 DEF Age, IInv, TypeOK
  <2> QED BY <2>1, ScanStep
<1>3. CASE Crash
  <2>1. TypeOK' /\ UNCHANGED tickets /\ \A c \in Starters : scan'[c] = Idle
    BY <1>3, Constants DEF Crash, IInv, TypeOK
  <2> QED BY <2>1, ScanStep DEF Idle, Unread
<1>4. CASE SetEnabled
  <2>1. TypeOK' /\ UNCHANGED <<tickets, scan>>
    BY <1>4 DEF SetEnabled, IInv, TypeOK
  <2> QED BY <2>1, ScanStep
<1>5. CASE UNCHANGED vars
  BY <1>5 DEF vars, IInv, TypeOK, WritesOK, KnownOK, Exists
<1> QED BY <1>1, <1>2, <1>3, <1>4, <1>5

LEMMA NextOK ==
  ASSUME IInv, [Next]_vars
  PROVE  IInv' /\ [\A t \in Tickets : Exists(t) => Stands(t)]_vars
  BY ApplyOK, StarterOK, ReadingOK, AroundOK DEF Next, Progress

\* engine.ts, applyFinding, and policy.ts, planFinding: however scans, requests and
\* operators interleave, no step of a scan reopens a closed ticket, and none takes
\* back its text or a severity but on a reading that was out of date.
THEOREM ScanDecisionsStand == Spec => DecisionsStand
<1>1. IInv => TypeOK
  BY DEF IInv
<1> QED BY <1>1, InitOK, NextOK, PTL DEF Spec, DecisionsStand
=============================================================================
