----------------------------- MODULE EdgeApply -----------------------------
(***************************************************************************)
(* Pushing the ruleset of an edge NAT server (services/edge-networks.ts)   *)
(* and the agent on the box that swaps it in (integrations/edge-nat/       *)
(* agent.ts).                                                              *)
(*                                                                         *)
(* An apply numbers the desired ruleset in one transaction, sends it over  *)
(* SSH with no lock held, and records the answer in a second transaction;  *)
(* rule edits, other applies and the periodic sync run in between. The     *)
(* agent builds chains for the new number, swaps the dispatchers, renames  *)
(* the state file and the request file into place and removes the old      *)
(* chains; it can fail or be killed between any two of these steps, and a  *)
(* reboot leaves only the two files, from which a unit replays the last    *)
(* request.                                                                *)
(*                                                                         *)
(* A ruleset stands for its canonical document, tunnel included, and is    *)
(* its own hash. Two writers of the settings row take no lock: the sync    *)
(* that stores its snapshot and the host-key enrolment. Not modelled: a    *)
(* server that is disabled or deleted, and the tables of one dispatcher    *)
(* swap taken apart.                                                       *)
(***************************************************************************)
EXTENDS Integers, FiniteSets

CONSTANTS
  Rulesets,   \* what the rules of the server can derive to
  EMPTY,      \* the ruleset of a clear
  FOREIGN,    \* chains somebody else has changed
  NONE,       \* no hash, no ruleset
  MaxApplies, \* bound: applies in progress at once
  MaxRev,     \* bound: revisions handed out
  MaxMishaps  \* bound: kills, failures, reboots, foreign changes, and
              \* stores, without the lock, of a row that has changed

ASSUME EdgeAssumption ==
  /\ EMPTY \notin Rulesets \union {FOREIGN, NONE}
  /\ {FOREIGN, NONE} \intersect Rulesets = {} /\ FOREIGN # NONE
  /\ MaxApplies \in Nat /\ MaxRev \in Nat /\ MaxMishaps \in Nat

VARIABLES
  desired,    \* what the rules and links in the database derive to
  row,        \* the settings of the integration
  apply,      \* the control plane's side of each apply
  reply,      \* what its SSH session has answered
  inbox,      \* requests the box has received and not begun
  agent,      \* the agent holding apply.lock
  disp,       \* the revision the dispatchers jump to; 0: they are empty
  chains,     \* the chains of every revision
  stateFile,  \* /etc/polysiem-edge/state
  rulesFile,  \* /etc/polysiem-edge/rules, replayed at boot
  booting,    \* the boot unit has not succeeded yet
  writer,     \* the snapshot of a sync, the row read without the lock
  faults,     \* how many faults have happened
  races,      \* how many changed rows have been written back
  issued, installed  \* history: every ruleset sent, and installed

cpVars == <<desired, row, apply, writer, races, issued>>
boxVars == <<inbox, agent, disp, chains, stateFile, rulesFile, booting, installed>>
vars == <<desired, row, apply, reply, inbox, agent, disp, chains, stateFile,
          rulesFile, booting, writer, faults, races, issued, installed>>

Applies == 1..MaxApplies
Hashes == Rulesets \union {EMPTY, NONE}
Revisions == 0..MaxRev
Numbered == [rev : Revisions, rules : Hashes]
Nothing == [rev |-> 0, rules |-> NONE]

Snapshots == [seen : BOOLEAN, rev : Revisions, hash : Hashes, drift : BOOLEAN]
NoSnapshot == [seen |-> FALSE, rev |-> 0, hash |-> NONE, drift |-> FALSE]

Rows == [rulesRev : Revisions, desiredHash : Hashes, applied : Numbered,
         pending : BOOLEAN, snap : Snapshots]

(* Who has sent a request: an apply, the boot unit, or an apply that is no  *)
(* longer waiting for the answer.                                          *)
Boot == 0
Gone == MaxApplies + 1
Senders == 0..Gone

Idle == [pc |-> "idle", from |-> Boot, rev |-> 0, rules |-> NONE, old |-> 0]
NoApply == [pc |-> "idle", rev |-> 0, rules |-> NONE]
NoWriter == [snap |-> NoSnapshot, row |-> {}]

TypeOK ==
  /\ desired \in Rulesets \union {EMPTY}
  /\ row \in Rows
  /\ apply \in [Applies -> [pc : {"idle", "sent"}, rev : Revisions, rules : Hashes]]
  /\ reply \in [Applies -> {"none", "applied", "refused"}]
  /\ inbox \subseteq [from : Senders, rev : Revisions, rules : Hashes]
  /\ agent \in [pc : {"idle", "built", "swapped", "stated", "committed"},
                from : Senders, rev : Revisions, rules : Hashes, old : Revisions]
  /\ disp \in Revisions
  /\ chains \in [Revisions -> Hashes \union {FOREIGN}]
  /\ stateFile \in Numbered /\ rulesFile \in Numbered
  /\ booting \in BOOLEAN
  /\ writer \in [snap : Snapshots, row : SUBSET Rows]
  /\ Cardinality(writer.row) <= 1
  /\ faults \in 0..MaxMishaps /\ races \in 0..MaxMishaps
  /\ issued \subseteq Numbered /\ installed \subseteq issued

Init ==
  /\ desired = EMPTY
  /\ row = [rulesRev |-> 0, desiredHash |-> NONE, applied |-> Nothing,
            pending |-> FALSE, snap |-> NoSnapshot]
  /\ apply = [a \in Applies |-> NoApply]
  /\ reply = [a \in Applies |-> "none"]
  /\ inbox = {} /\ agent = Idle /\ disp = 0
  /\ chains = [r \in Revisions |-> NONE]
  /\ stateFile = Nothing /\ rulesFile = Nothing /\ booting = FALSE
  /\ writer = NoWriter
  /\ faults = 0 /\ races = 0 /\ issued = {} /\ installed = {}
-----------------------------------------------------------------------------
(* The control plane. Every action that takes withEdgeRuleLock is one      *)
(* transaction under the advisory lock.                                    *)

NextRevision(r) ==
  (IF r.rulesRev >= r.applied.rev THEN r.rulesRev ELSE r.applied.rev) + 1

MarkPending(r, rules) ==
  [r EXCEPT !.rulesRev = NextRevision(r), !.desiredHash = rules,
            !.pending = rules # r.applied.rules]

(* A rule, or a connector this server routes to, changes.                  *)
EditRules ==
  /\ NextRevision(row) <= MaxRev
  /\ \E rules \in (Rulesets \union {EMPTY}) \ {desired} :
       /\ desired' = rules
       /\ row' = MarkPending(row, rules)
  /\ UNCHANGED <<apply, reply, writer, faults, races, issued, boxVars>>

(* The first transaction of an apply, or of a clear, and the request.      *)
Prepare(a, clear) ==
  LET rules == IF clear THEN EMPTY ELSE desired
      rev == NextRevision(row)
  IN /\ apply[a].pc = "idle" /\ \A b \in 1..(a - 1) : apply[b].pc # "idle"
     /\ rev <= MaxRev
     /\ row' = [row EXCEPT !.rulesRev = rev,
                           !.desiredHash = IF clear THEN @ ELSE rules]
     /\ apply' = [apply EXCEPT ![a] = [pc |-> "sent", rev |-> rev, rules |-> rules]]
     /\ reply' = [reply EXCEPT ![a] = "none"]
     /\ inbox' = inbox \union {[from |-> a, rev |-> rev, rules |-> rules]}
     /\ issued' = issued \union {[rev |-> rev, rules |-> rules]}
     /\ UNCHANGED <<desired, writer, faults, races, agent, disp, chains, stateFile,
                    rulesFile, booting, installed>>

PatchedSnapshot(snap, done) ==
  IF snap.seen
    THEN [snap EXCEPT !.rev = done.rev, !.hash = done.rules, !.drift = FALSE]
    ELSE snap

(* The second transaction: the answer is recorded over whatever the row    *)
(* says by now, and compared with what is desired by now.                  *)
Finalize(a) ==
  LET done == [rev |-> apply[a].rev, rules |-> apply[a].rules]
  IN /\ apply[a].pc = "sent" /\ reply[a] = "applied"
     /\ row' = [row EXCEPT !.desiredHash = desired, !.applied = done,
                           !.pending = desired # done.rules,
                           !.snap = PatchedSnapshot(@, done)]
     /\ apply' = [apply EXCEPT ![a] = NoApply]
     /\ reply' = [reply EXCEPT ![a] = "none"]
     /\ UNCHANGED <<desired, writer, faults, races, issued, boxVars>>

(* The session of an apply is over: what was delivered may still be run.   *)
Forget(a) ==
  /\ apply' = [apply EXCEPT ![a] = NoApply]
  /\ reply' = [reply EXCEPT ![a] = "none"]
  /\ agent' = IF agent.from = a THEN [agent EXCEPT !.from = Gone] ELSE agent
  /\ LET others == {q \in inbox : q.from # a}
         orphans == {[q EXCEPT !.from = Gone] : q \in inbox \ others}
     IN inbox' \in {others, others \union orphans}
  /\ UNCHANGED <<desired, writer, races, issued, disp, chains, stateFile, rulesFile,
                 booting, installed>>

(* The catch: the helper refused, the session was lost or timed out, or    *)
(* the second transaction failed.                                          *)
FailApply(a) ==
  /\ apply[a].pc = "sent"
  /\ row' = [row EXCEPT !.pending = TRUE]
  /\ Forget(a)
  /\ UNCHANGED faults

(* The server process dies during an apply: nothing is recorded.           *)
AbandonApply(a) ==
  /\ apply[a].pc = "sent" /\ faults + races < MaxMishaps
  /\ faults' = faults + 1
  /\ Forget(a)
  /\ UNCHANGED row
-----------------------------------------------------------------------------
(* The writers that take no lock.                                          *)

(* STATUS, which does not wait for an apply in progress.                   *)
(* Mutant: the chains are not looked at. *)
Status_TrustsState ==
  [seen |-> TRUE, rev |-> stateFile.rev, hash |-> stateFile.rules, drift |-> FALSE]

Status ==
  CASE stateFile.rev = 0 -> [NoSnapshot EXCEPT !.seen = TRUE]
    [] stateFile.rev > 0 /\ disp # stateFile.rev ->
         [seen |-> TRUE, rev |-> 0, hash |-> NONE, drift |-> TRUE]
    [] OTHER ->
         LET intact == chains[disp] # FOREIGN
         IN [seen |-> TRUE, rev |-> disp, drift |-> ~intact,
             hash |-> IF intact THEN stateFile.rules ELSE NONE]

SyncCapture ==
  /\ writer = NoWriter
  /\ writer' = [snap |-> Status, row |-> {}]
  /\ UNCHANGED <<desired, row, apply, reply, faults, races, issued, boxVars>>

(* The row is read whole: by the sync, whose snapshot has come, or by an   *)
(* enrolment that goes on to scan the host for its key ...                 *)
WriterLoad ==
  /\ faults + races < MaxMishaps
  /\ writer # NoWriter /\ writer.row = {}
  /\ writer' = [writer EXCEPT !.row = {row}]
  /\ UNCHANGED <<desired, row, apply, reply, faults, races, issued, boxVars>>

Store(read, snap) ==
  /\ races' = IF read = row THEN races ELSE races + 1
  /\ faults + races' <= MaxMishaps
  /\ row' = [read EXCEPT !.snap = snap]
  /\ UNCHANGED <<desired, apply, reply, faults, issued, boxVars>>

(* ... and written whole: with the snapshot by the sync, over the row that *)
(* was read or a newer one, ...                                            *)
SyncStore ==
  /\ writer # NoWriter
  /\ \E read \in writer.row \union {row} : Store(read, writer.snap)
  /\ writer' = NoWriter

(* ... with a new key, and otherwise as it was read, by the enrolment.     *)
PinHostKey ==
  /\ \E read \in writer.row \ {row} : Store(read, read.snap)
  /\ writer' = [writer EXCEPT !.row = {}]
-----------------------------------------------------------------------------
(* The agent, under flock -n on apply.lock.                                *)

Answer(from, what) ==
  reply' = IF from \in Applies THEN [reply EXCEPT ![from] = what] ELSE reply

(* Mutant: the boot unit is not there. *)
Requests_NotReplayed == inbox

(* A request from the inbox, or the one the boot unit replays.             *)
Requests ==
  inbox \union
  (IF booting THEN {[from |-> Boot, rev |-> rulesFile.rev, rules |-> rulesFile.rules]}
              ELSE {})

(* Mutant: only a number that comes with another ruleset is turned away. *)
Stale_LateIsRun(q) == q.rev = stateFile.rev /\ q.rules # stateFile.rules

Stale(q) ==
  q.rev < stateFile.rev \/ (q.rev = stateFile.rev /\ q.rules # stateFile.rules)

(* The fast path: this revision is the one on disk, linked and untouched.  *)
Active(q) ==
  q.rev = stateFile.rev /\ q.rules = stateFile.rules /\ disp = q.rev
  /\ chains[q.rev] # FOREIGN

(* The lock is held, the revision is stale, or its chains are linked but   *)
(* are not what was committed (exits 4, 5 and 6).                          *)
AgentRefuse(q) ==
  /\ agent.pc # "idle" \/ Stale(q) \/ (disp = q.rev /\ ~Active(q))
  /\ inbox' = inbox \ {q}
  /\ Answer(q.from, "refused")
  /\ UNCHANGED <<faults, agent, disp, chains, stateFile, rulesFile, booting,
                 installed, cpVars>>

AgentConfirm(q) ==
  /\ agent.pc = "idle" /\ Active(q)
  /\ inbox' = inbox \ {q}
  /\ Answer(q.from, "applied")
  /\ booting' = (booting /\ q.from # Boot)
  /\ UNCHANGED <<faults, agent, disp, chains, stateFile, rulesFile, installed, cpVars>>

(* What an interrupted attempt left of this revision is removed, the new   *)
(* chains are built and tested; nothing jumps to them yet.                 *)
AgentBuild(q) ==
  /\ agent.pc = "idle" /\ ~Stale(q) /\ disp # q.rev
  /\ inbox' = inbox \ {q}
  /\ agent' = [pc |-> "built", from |-> q.from, rev |-> q.rev, rules |-> q.rules,
               old |-> stateFile.rev]
  /\ chains' = [chains EXCEPT ![q.rev] = q.rules]
  /\ UNCHANGED <<reply, faults, disp, stateFile, rulesFile, booting, installed, cpVars>>

AgentSwap ==
  /\ agent.pc = "built"
  /\ disp' = agent.rev
  /\ agent' = [agent EXCEPT !.pc = "swapped"]
  /\ UNCHANGED <<reply, faults, inbox, chains, stateFile, rulesFile, booting,
                 installed, cpVars>>

AgentSaveState ==
  /\ agent.pc = "swapped"
  /\ stateFile' = [rev |-> agent.rev, rules |-> agent.rules]
  /\ installed' = installed \union {stateFile'}
  /\ agent' = [agent EXCEPT !.pc = "stated"]
  /\ UNCHANGED <<reply, faults, inbox, disp, chains, rulesFile, booting, cpVars>>

(* Mutant: the answer is written before the request is saved. *)
AgentSaveRules_AfterAnswer ==
  /\ agent.pc = "stated"
  /\ \/ /\ Answer(agent.from, "applied")
        /\ UNCHANGED <<agent, rulesFile>>
     \/ /\ rulesFile' = [rev |-> agent.rev, rules |-> agent.rules]
        /\ agent' = [agent EXCEPT !.pc = "committed"]
        /\ UNCHANGED reply
  /\ UNCHANGED <<faults, inbox, disp, chains, stateFile, booting, installed, cpVars>>

AgentSaveRules ==
  /\ agent.pc = "stated"
  /\ rulesFile' = [rev |-> agent.rev, rules |-> agent.rules]
  /\ agent' = [agent EXCEPT !.pc = "committed"]
  /\ UNCHANGED <<reply, faults, inbox, disp, chains, stateFile, booting,
                 installed, cpVars>>

(* Mutant: the chains the state file named go, those just linked included. *)
AgentDone_OldAlways ==
  /\ agent.pc = "committed"
  /\ chains' = [chains EXCEPT ![agent.old] = NONE]
  /\ Answer(agent.from, "applied")
  /\ booting' = (booting /\ agent.from # Boot)
  /\ agent' = Idle
  /\ UNCHANGED <<faults, inbox, disp, stateFile, rulesFile, installed, cpVars>>

(* The old chains go, the answer is written, the lock is given up.         *)
AgentDone ==
  /\ agent.pc = "committed"
  /\ chains' = IF agent.old # agent.rev THEN [chains EXCEPT ![agent.old] = NONE]
                                        ELSE chains
  /\ Answer(agent.from, "applied")
  /\ booting' = (booting /\ agent.from # Boot)
  /\ agent' = Idle
  /\ UNCHANGED <<faults, inbox, disp, stateFile, rulesFile, installed, cpVars>>

(* Where the saved dispatchers lead; iptables refuses a jump to chains     *)
(* that are not there, and the dispatchers stay.                           *)
RolledBack ==
  IF agent.old = 0 \/ chains[agent.old] # NONE THEN agent.old ELSE disp

(* A command fails or a signal is caught: the trap rolls back what was     *)
(* swapped and not committed. The last signal may come between the rename  *)
(* of the request and the flag that says it is committed.                  *)
AgentFail ==
  /\ agent.pc # "idle" /\ faults + races < MaxMishaps
  /\ faults' = faults + 1
  /\ disp' \in CASE agent.pc = "built" -> {disp}
               [] agent.pc \in {"swapped", "stated"} -> {RolledBack}
               [] OTHER -> {RolledBack, disp}
  /\ Answer(agent.from, "refused")
  /\ agent' = Idle
  /\ UNCHANGED <<inbox, chains, stateFile, rulesFile, booting, installed, cpVars>>

(* The agent is killed: no trap runs.                                      *)
AgentKilled ==
  /\ agent.pc # "idle" /\ faults + races < MaxMishaps
  /\ faults' = faults + 1
  /\ Answer(agent.from, "refused")
  /\ agent' = Idle
  /\ UNCHANGED <<inbox, disp, chains, stateFile, rulesFile, booting, installed, cpVars>>

(* The box goes down and comes up: the kernel has no rules, the files are  *)
(* there, every session is lost.                                           *)
Reboot ==
  /\ faults + races < MaxMishaps
  /\ faults' = faults + 1
  /\ agent' = Idle /\ inbox' = {} /\ disp' = 0
  /\ chains' = [r \in Revisions |-> NONE]
  /\ booting' = (rulesFile.rev > 0)
  /\ reply' = [a \in Applies |-> IF apply[a].pc = "sent" THEN "refused" ELSE "none"]
  /\ UNCHANGED <<stateFile, rulesFile, installed, cpVars>>

(* Somebody else empties the dispatchers, or edits the chains in use.      *)
Tamper ==
  /\ disp # 0 /\ agent.pc = "idle" /\ faults + races < MaxMishaps
  /\ faults' = faults + 1
  /\ \/ disp' = 0 /\ chains' = chains
     \/ disp' = disp /\ chains' = [chains EXCEPT ![disp] = FOREIGN]
  /\ UNCHANGED <<reply, inbox, agent, stateFile, rulesFile, booting, installed, cpVars>>

AgentStep == AgentSwap \/ AgentSaveState \/ AgentSaveRules \/ AgentDone
AgentTake(q) == AgentRefuse(q) \/ AgentConfirm(q) \/ AgentBuild(q)
BootReplay == booting /\ \E q \in Requests : q.from = Boot /\ AgentTake(q)

Next ==
  \/ EditRules
  \/ \E a \in Applies : \/ \E clear \in BOOLEAN : Prepare(a, clear)
                        \/ Finalize(a) \/ FailApply(a) \/ AbandonApply(a)
  \/ SyncCapture \/ WriterLoad \/ SyncStore \/ PinHostKey
  \/ \E q \in Requests : AgentTake(q)
  \/ AgentStep
  \/ AgentFail \/ AgentKilled \/ Reboot \/ Tamper

(* The scheduler starts a sync again and again and a started one goes on;  *)
(* an agent that is not killed goes on; systemd restarts the boot unit     *)
(* every five seconds, without a limit, until it succeeds.                 *)
Fairness ==
  /\ WF_vars(SyncCapture) /\ WF_vars(SyncStore)
  /\ WF_vars(AgentStep)
  /\ WF_vars(BootReplay)

Spec == Init /\ [][Next]_vars
FairSpec == Spec /\ Fairness
-----------------------------------------------------------------------------
(* What the application shows (deriveEdgeLifecycle).                       *)
Reconciliation ==
  LET snap == row.snap
      applied == row.applied.rules
      shown == IF applied # NONE THEN applied ELSE snap.hash
      remoteDrift ==
        /\ snap.seen
        /\ \/ snap.drift
           \/ snap.hash = NONE /\ snap.rev > 0 /\ shown # NONE
           \/ snap.hash # NONE /\ shown # NONE /\ snap.hash # shown
  IN CASE remoteDrift -> "drifted"
       [] ~remoteDrift /\ (row.pending \/ row.desiredHash # shown) -> "pending"
       [] ~remoteDrift /\ ~row.pending /\ row.desiredHash = shown ->
            IF shown # NONE THEN "in_sync" ELSE "unknown"

Running == IF disp = 0 THEN NONE ELSE chains[disp]

Quiet ==
  /\ \A a \in Applies : apply[a].pc = "idle"
  /\ inbox = {} /\ agent.pc = "idle" /\ ~booting

(* What is recorded as applied survives a reboot: the request the boot     *)
(* unit replays is at least as new as the revision the control plane holds *)
(* for applied, wherever the agent was interrupted. It needs that no row   *)
(* is written back by a writer without the lock: that hands out numbers    *)
(* again, and a number on disk before the crash is confirmed unreplayed.   *)
RecordedSurvivesReboot ==
  TypeOK /\ (races = 0 => row.applied.rev <= rulesFile.rev)

(* Traffic only ever meets whole generations: the dispatchers change by    *)
(* jumping to chains that are complete, and the chains they jump to are    *)
(* never rebuilt or removed by an agent, whatever an interrupted attempt   *)
(* of the same or of another revision left behind.                         *)
TrafficMeetsWholeGenerations ==
  [][disp' # 0 => \/ chains'[disp'] \in Rulesets \union {EMPTY}
                     /\ (disp' = disp => chains'[disp] = chains[disp])
                  \/ chains'[disp'] = FOREIGN]_vars

(* The box and the record of it, whatever is lost, late or written back,   *)
(* implement the promise of pushing numbered rulesets.                     *)
Promise == INSTANCE VersionedConfig WITH
  Rulesets <- Rulesets \union {EMPTY}, current <- stateFile, confirmed <- row.applied
ImplementsVersionedConfig == Promise!Spec

(* A claim that the edge is in sync, made while it runs something else     *)
(* than the ruleset the claim is about, does not stay: the next sync       *)
(* reports the difference.                                                 *)
WrongClaim == Reconciliation = "in_sync" /\ Running # row.desiredHash
WrongClaimIsDropped == (Quiet /\ WrongClaim) ~> (~Quiet \/ ~WrongClaim)

(* After a reboot the dispatchers lead again to the revision on disk,      *)
(* unless the reboot came between the two renames.                         *)
RestoredAfterBoot ==
  booting ~> (disp = stateFile.rev \/ rulesFile.rev # stateFile.rev)
=============================================================================
