---------------------- MODULE InvestigationQueueProofs ----------------------
(***************************************************************************)
(* Proofs about InvestigationQueue, for any tickets and requests and any   *)
(* number of crashes.                                                      *)
(***************************************************************************)
EXTENDS InvestigationQueue, TLAPS

\* A loop that is off, or asks for its next ticket, has none, and the flag is the
\* loop's; a request holds its ticket until it has written.
HoldingsOK ==
  /\ worker.pc \in {"off", "query"} => worker.ticket = NONE
  /\ worker.pc = "off" => ~worker.wake
  /\ \A c \in Callers : calls[c].pc = "write" => calls[c].ticket \in Tickets

IInv == TypeOK /\ HoldingsOK /\ (failures = 0 => \A t \in Tickets : Attended(t))

-----------------------------------------------------------------------------

LEMMA InitOK == Init => IInv
  BY QueueAssumption
  DEF Init, IInv, TypeOK, HoldingsOK, Attended, KickComing, Off, NoCall, Statuses

\* Marking a ticket keeps both columns well typed.
LEMMA MarkType ==
  ASSUME TypeOK, NEW t \in Tickets, NEW s \in Statuses, Mark(t, s)
  PROVE  /\ inv' \in [Tickets -> Statuses]
         /\ order' \subseteq Tickets \X Tickets
         /\ inv'[t] = s /\ \A u \in Tickets \ {t} : inv'[u] = inv[u]
  BY DEF TypeOK, Mark

\* A kick leaves the loop on, or about to look again, with the ticket it has.
LEMMA KickedOK ==
  ASSUME TypeOK, HoldingsOK, worker' = Kicked(worker)
  PROVE  /\ worker'.pc # "off" /\ worker'.ticket = worker.ticket
         /\ worker'.wake \/ worker'.pc = "query"
         /\ worker' \in [pc : {"off", "query", "got", "agent", "save", "giveup"},
                         ticket : Tickets \union {NONE}, wake : BOOLEAN,
                         outcome : {"none", "success", "failed"}]
         /\ worker'.pc \in {"agent", "save", "giveup"} => worker'.ticket # NONE
         /\ worker'.pc \in {"off", "query"} => worker'.ticket = NONE
  BY QueueAssumption DEF TypeOK, HoldingsOK, Kicked, Off

\* The requests.
LEMMA CallOK ==
  ASSUME IInv, NEW c \in Callers, Call(c) \/ \E t \in Tickets : EnqueueRead(c, t)
  PROVE  IInv'
<1> USE DEF NoCall
<1>1. ASSUME NEW t \in Tickets, EnqueueRead(c, t) PROVE IInv'
  BY <1>1, QueueAssumption DEF EnqueueRead, IInv, TypeOK, HoldingsOK, Attended, KickComing
<1>2. CASE EnqueueWrite(c)
  <2> DEFINE t == calls[c].ticket
  <2>1. t \in Tickets /\ "queued" \in Statuses
    BY <1>2 DEF EnqueueWrite, IInv, HoldingsOK, Statuses
  <2>2. /\ inv' \in [Tickets -> Statuses] /\ order' \subseteq Tickets \X Tickets
        /\ inv'[t] = "queued" /\ \A u \in Tickets \ {t} : inv'[u] = inv[u]
    BY <1>2, <2>1, MarkType DEF EnqueueWrite, IInv
  <2>3. TypeOK' /\ HoldingsOK'
    BY <1>2, <2>2 DEF EnqueueWrite, IInv, TypeOK, HoldingsOK
  <2>4. calls'[c].pc = "kick"
    BY <1>2 DEF EnqueueWrite, IInv, TypeOK
  <2>5. (failures = 0 => \A u \in Tickets : Attended(u))'
    BY <1>2, <2>1, <2>2, <2>4 DEF EnqueueWrite, IInv, Attended, KickComing
  <2> QED BY <2>3, <2>5 DEF IInv
<1>3. CASE EnqueueWriteFails(c)
  BY <1>3 DEF EnqueueWriteFails, IInv, TypeOK, HoldingsOK, Attended, KickComing
<1>4. CASE EnqueueKick(c)
  <2>1. TypeOK' /\ HoldingsOK'
    BY <1>4, KickedOK DEF EnqueueKick, IInv, TypeOK, HoldingsOK
  <2>2. (failures = 0 => \A u \in Tickets : Attended(u))'
    BY <1>4, KickedOK DEF EnqueueKick, IInv, Attended, KickComing
  <2> QED BY <2>1, <2>2 DEF IInv
<1> QED BY <1>1, <1>2, <1>3, <1>4 DEF Call

\* The loop.
LEMMA DrainOK == ASSUME IInv, Drain PROVE IInv'
<1> USE DEF Fail
<1>1. CASE FindNext
  <2>1. PICK t \in IF Queued = {} THEN {NONE} ELSE Longest :
          worker' = [worker EXCEPT !.pc = "got", !.ticket = t]
    BY <1>1 DEF FindNext
  <2>2. t \in Tickets \union {NONE} /\ (Queued # {} => t # NONE)
    BY <2>1, QueueAssumption DEF Longest, Queued
  <2>3. TypeOK' /\ HoldingsOK'
    BY <1>1, <2>1, <2>2 DEF FindNext, IInv, TypeOK, HoldingsOK
  <2>4. worker'.pc = "got" /\ worker'.ticket = t /\ worker'.wake = worker.wake
    BY <2>1 DEF IInv, TypeOK
  <2>5. worker.ticket = NONE
    BY <1>1 DEF FindNext, IInv, HoldingsOK
  <2>6. (failures = 0 => \A u \in Tickets : Attended(u))'
    BY <1>1, <2>2, <2>4, <2>5, QueueAssumption
    DEF FindNext, IInv, Attended, KickComing, Queued
  <2> QED BY <2>3, <2>6 DEF IInv
<1>2. CASE FindFails
  <2>1. failures' # 0
    BY <1>2 DEF FindFails, IInv, TypeOK
  <2>2. TypeOK' /\ HoldingsOK'
    BY <1>2, QueueAssumption DEF FindFails, IInv, TypeOK, HoldingsOK, Off
  <2> QED BY <2>1, <2>2 DEF IInv
<1>3. CASE Drained
  <2>1. TypeOK' /\ HoldingsOK'
    BY <1>3 DEF Drained, IInv, TypeOK, HoldingsOK, Off
  <2>2. (failures = 0 => \A u \in Tickets : Attended(u))'
    BY <1>3, QueueAssumption DEF Drained, IInv, Attended, KickComing, Off
  <2> QED BY <2>1, <2>2 DEF IInv
<1>4. CASE StartRun
  <2> DEFINE t == worker.ticket
  <2>1. t \in Tickets /\ "running" \in Statuses
    BY <1>4 DEF StartRun, IInv, TypeOK, Statuses
  <2>2. /\ inv' \in [Tickets -> Statuses] /\ order' \subseteq Tickets \X Tickets
        /\ inv'[t] = "running" /\ \A u \in Tickets \ {t} : inv'[u] = inv[u]
    BY <1>4, <2>1, MarkType DEF StartRun, IInv
  <2>3. worker'.pc = "agent" /\ worker'.ticket = t
    BY <1>4 DEF StartRun, IInv, TypeOK
  <2>4. TypeOK' /\ HoldingsOK'
    BY <1>4, <2>2 DEF StartRun, IInv, TypeOK, HoldingsOK
  <2>5. (failures = 0 => \A u \in Tickets : Attended(u))'
    BY <1>4, <2>1, <2>2, <2>3 DEF StartRun, IInv, Attended
  <2> QED BY <2>4, <2>5 DEF IInv
<1>5. CASE StartFails \/ SaveFails
  <2>1. failures' # 0
    BY <1>5 DEF StartFails, SaveFails, IInv, TypeOK
  <2>2. TypeOK' /\ HoldingsOK'
    <3>1. CASE StartFails
      <4>1. failures' \in 0..MaxFailures
        BY <3>1, QueueAssumption DEF StartFails, IInv, TypeOK
      <4> QED BY <3>1, <4>1 DEF StartFails, IInv, TypeOK, HoldingsOK
    <3>2. CASE SaveFails
      <4>1. failures' \in 0..MaxFailures
        BY <3>2, QueueAssumption DEF SaveFails, IInv, TypeOK
      <4> QED BY <3>2, <4>1 DEF SaveFails, IInv, TypeOK, HoldingsOK
    <3> QED BY <1>5, <3>1, <3>2
  <2> QED BY <2>1, <2>2 DEF IInv
<1>6. CASE AgentEnds
  <2>1. TypeOK' /\ HoldingsOK'
    BY <1>6 DEF AgentEnds, IInv, TypeOK, HoldingsOK
  <2>2. worker'.pc = "save" /\ worker'.ticket = worker.ticket
    BY <1>6 DEF AgentEnds, IInv, TypeOK
  <2>3. (failures = 0 => \A u \in Tickets : Attended(u))'
    BY <1>6, <2>2 DEF AgentEnds, IInv, Attended, KickComing
  <2> QED BY <2>1, <2>3 DEF IInv
<1>7. CASE SaveOutcome \/ MarkFailed
  <2>1. /\ worker' = ToNext /\ worker.ticket \in Tickets
        /\ UNCHANGED <<order, up, sweep, calls, auto, requests>>
    BY <1>7 DEF SaveOutcome, MarkFailed, IInv, TypeOK
  <2>2. TypeOK' /\ HoldingsOK'
    <3>1. inv' \in [Tickets -> Statuses] /\ failures' \in 0..MaxFailures
      BY <1>7, QueueAssumption DEF SaveOutcome, MarkFailed, IInv, TypeOK, Statuses
    <3> QED BY <2>1, <3>1 DEF ToNext, IInv, TypeOK, HoldingsOK
  <2>3. worker'.pc = "query" /\ worker'.wake = worker.wake
    BY <2>1 DEF ToNext, IInv, TypeOK
  <2>4. ASSUME failures' = 0
        PROVE  /\ failures = 0 /\ inv'[worker.ticket] # "running"
               /\ \A u \in Tickets \ {worker.ticket} : inv'[u] = inv[u]
    BY <1>7, <2>1, <2>4 DEF SaveOutcome, MarkFailed, IInv, TypeOK
  <2>5. (failures = 0 => \A u \in Tickets : Attended(u))'
    BY <2>1, <2>3, <2>4 DEF IInv, Attended, KickComing
  <2> QED BY <2>2, <2>5 DEF IInv
<1> QED BY <1>1, <1>2, <1>3, <1>4, <1>5, <1>6, <1>7 DEF Drain

\* The sweep of a fresh process.
LEMMA SweepOK == ASSUME IInv, Sweep PROVE IInv'
<1> USE DEF Fail
<1>1. CASE SweepWrite
  <2>1. inv' \in [Tickets -> Statuses] /\ sweep' = "kick"
    BY <1>1 DEF SweepWrite, IInv, TypeOK, Statuses
  <2>2. TypeOK' /\ HoldingsOK'
    BY <1>1, <2>1 DEF SweepWrite, IInv, TypeOK, HoldingsOK
  <2>3. \A t \in Tickets : inv'[t] # "running"
    BY <1>1 DEF SweepWrite
  <2> QED BY <2>1, <2>2, <2>3 DEF IInv, Attended, KickComing
<1>2. CASE SweepFails
  <2>1. failures' \in 0..MaxFailures /\ failures' # 0
    BY <1>2, QueueAssumption DEF SweepFails, IInv, TypeOK
  <2> QED BY <1>2, <2>1 DEF SweepFails, IInv, TypeOK, HoldingsOK
<1>3. CASE SweepKick
  <2>1. TypeOK' /\ HoldingsOK'
    BY <1>3, KickedOK DEF SweepKick, IInv, TypeOK, HoldingsOK
  <2>2. (failures = 0 => \A u \in Tickets : Attended(u))'
    BY <1>3, KickedOK DEF SweepKick, IInv, Attended, KickComing
  <2> QED BY <2>1, <2>2 DEF IInv
<1> QED BY <1>1, <1>2, <1>3 DEF Sweep

LEMMA NextOK == ASSUME IInv, [Next]_vars PROVE IInv'
<1>1. ASSUME NEW t \in Tickets, AutoStart(t) PROVE IInv'
  BY <1>1 DEF AutoStart, IInv, TypeOK, HoldingsOK, Attended, KickComing
<1>2. ASSUME NEW t \in Tickets, AutoEnds(t) PROVE IInv'
  <2>1. TypeOK' /\ HoldingsOK'
    BY <1>2 DEF AutoEnds, IInv, TypeOK, HoldingsOK, Statuses
  <2>2. (failures = 0 => \A u \in Tickets : Attended(u))'
    BY <1>2 DEF AutoEnds, IInv, TypeOK, Attended, KickComing
  <2> QED BY <2>1, <2>2 DEF IInv
<1>3. CASE Crash
  <2>1. TypeOK'
    BY <1>3, QueueAssumption DEF Crash, Off, NoCall, IInv, TypeOK
  <2>2. HoldingsOK'
    BY <1>3 DEF Crash, Off, NoCall, HoldingsOK
  <2> QED BY <1>3, <2>1, <2>2 DEF Crash, IInv, Attended, KickComing
<1>4. CASE Boot
  BY <1>4 DEF Boot, IInv, TypeOK, HoldingsOK, Attended, KickComing
<1>5. CASE UNCHANGED vars
  BY <1>5 DEF vars, IInv, TypeOK, HoldingsOK, Attended, KickComing
<1> QED BY <1>1, <1>2, <1>3, <1>4, <1>5, CallOK, DrainOK, SweepOK DEF Next

\* worker.ts, kickWorker and drainLoop: however many requests race with the end
\* of the drain, with the sweep and with crashes, nothing but a failed statement
\* leaves a ticket that nobody will come for.
THEOREM QueueForgetsNobody == Spec => []NobodyIsForgotten
<1>1. IInv => NobodyIsForgotten
  BY DEF IInv, NobodyIsForgotten
<1> QED BY <1>1, InitOK, NextOK, PTL DEF Spec
=============================================================================
