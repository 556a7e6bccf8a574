--------------------------- MODULE EdgeApplyProofs ---------------------------
(***************************************************************************)
(* Proofs about EdgeApply, for any rulesets, and any number of applies,    *)
(* revisions, faults and rows written back.                                *)
(***************************************************************************)
EXTENDS EdgeApply, FiniteSetTheorems, TLAPS

Documents == Rulesets \union {EMPTY}
NumberOf(r) == [rev |-> r.rev, rules |-> r.rules]
Busy == agent.pc # "idle"

\* Whatever is on its way, in the agent, in a file or in the record was sent, with
\* the number it has, and what was recorded was installed.
HistoryOK ==
  /\ issued \subseteq [rev : 1..MaxRev, rules : Documents]
  /\ installed \subseteq issued
  /\ \A q \in inbox : NumberOf(q) \in issued
  /\ Busy => NumberOf(agent) \in issued
  /\ stateFile \in installed \union {Nothing}
  /\ rulesFile \in installed \union {Nothing}
  /\ booting => rulesFile # Nothing
  /\ row.applied \in installed \union {Nothing}
  /\ \A r \in writer.row : r.applied \in installed \union {Nothing}

\* The agent works on a number that is not older than the one on disk.
AgentOK ==
  /\ rulesFile.rev <= stateFile.rev
  /\ agent.pc \in {"built", "swapped"} =>
       agent.rev > stateFile.rev \/ NumberOf(agent) = stateFile
  /\ agent.pc \in {"stated", "committed"} => NumberOf(agent) = stateFile
  /\ agent.pc = "committed" => rulesFile = stateFile

\* An apply has one request, which waits, is worked on, or has been answered.
SessionsOK ==
  /\ \A q \in inbox : q.from \in Applies =>
       /\ apply[q.from] = [pc |-> "sent", rev |-> q.rev, rules |-> q.rules]
       /\ reply[q.from] = "none" /\ agent.from # q.from
  /\ agent.from \in Applies =>
       /\ apply[agent.from] = [pc |-> "sent", rev |-> agent.rev, rules |-> agent.rules]
       /\ reply[agent.from] = "none"
  /\ \A q \in inbox : q.from # Boot
  /\ ~Busy => agent.from = Boot
  /\ \A a \in Applies : reply[a] = "applied" =>
       apply[a].pc = "sent" /\ NumberOf(apply[a]) \in installed

\* Chains that are jumped to, or about to be, are there.
ChainsOK ==
  /\ disp # 0 => chains[disp] # NONE
  /\ Busy => agent.rev # 0 /\ chains[agent.rev] \in Documents
  /\ agent.pc = "built" => disp # agent.rev
  /\ agent.pc \in {"swapped", "stated", "committed"} => disp = agent.rev

\* While no row was written back, numbers are not used again: a request that waits
\* is news to the box.
FreshOK ==
  /\ \A n \in issued : n.rev <= row.rulesRev
  /\ \A q \in inbox : /\ \A p \in inbox : p.rev = q.rev => p = q
                      /\ Busy => agent.rev # q.rev
                      /\ \A n \in installed : n.rev # q.rev
  /\ \A a \in Applies : reply[a] = "applied" => apply[a].rev <= rulesFile.rev
  /\ row.applied.rev <= rulesFile.rev

IInv == TypeOK /\ HistoryOK /\ AgentOK /\ SessionsOK /\ ChainsOK /\ (races = 0 => FreshOK)

-----------------------------------------------------------------------------

LEMMA Sizes ==
  /\ MaxApplies \in Nat /\ MaxRev \in Nat /\ MaxMishaps \in Nat
  /\ 0 \in Revisions /\ Boot \notin Applies /\ Gone \notin Applies
  /\ Boot \in Senders /\ Gone \in Senders /\ Applies \subseteq Senders /\ Boot # Gone
  /\ NONE \notin Documents /\ FOREIGN \notin Documents /\ FOREIGN # NONE
  /\ Documents \subseteq Hashes /\ NONE \in Hashes
  BY EdgeAssumption DEF Revisions, Boot, Gone, Senders, Applies, Documents, Hashes

LEMMA Blanks ==
  /\ Nothing \in Numbered /\ Nothing.rev = 0 /\ Nothing.rules = NONE
  /\ NoSnapshot \in Snapshots
  /\ NoWriter \in [snap : Snapshots, row : SUBSET Rows] /\ NoWriter.row = {}
  /\ NoApply \in [pc : {"idle", "sent"}, rev : Revisions, rules : Hashes] /\ NoApply.pc = "idle"
  /\ Idle \in [pc : {"idle", "built", "swapped", "stated", "committed"},
               from : Senders, rev : Revisions, rules : Hashes, old : Revisions]
  /\ Idle.pc = "idle" /\ Idle.from = Boot
<1> USE Sizes
<1>1. Nothing \in Numbered /\ Nothing.rev = 0 /\ Nothing.rules = NONE
  BY DEF Nothing, Numbered
<1>2. NoSnapshot \in Snapshots
  BY DEF NoSnapshot, Snapshots
<1>3. NoWriter \in [snap : Snapshots, row : SUBSET Rows] /\ NoWriter.row = {}
  BY <1>2 DEF NoWriter
<1>4. NoApply \in [pc : {"idle", "sent"}, rev : Revisions, rules : Hashes] /\ NoApply.pc = "idle"
  BY DEF NoApply
<1>5. /\ Idle \in [pc : {"idle", "built", "swapped", "stated", "committed"},
                   from : Senders, rev : Revisions, rules : Hashes, old : Revisions]
      /\ Idle.pc = "idle" /\ Idle.from = Boot
  BY DEF Idle
<1> QED BY <1>1, <1>2, <1>3, <1>4, <1>5

\* The files hold something numbered, or nothing.
LEMMA FilesOK ==
  ASSUME IInv
  PROVE  /\ \A n \in issued : n.rev \in 1..MaxRev /\ n.rules \in Documents
                               /\ n = [rev |-> n.rev, rules |-> n.rules]
         /\ \A n \in installed \union {Nothing} : n.rev \in Revisions
         /\ stateFile.rev \in Revisions /\ rulesFile.rev \in Revisions
         /\ row.applied.rev \in Revisions /\ row.rulesRev \in Revisions
<1>1. \A n \in issued : n.rev \in 1..MaxRev /\ n.rules \in Documents
                         /\ n = [rev |-> n.rev, rules |-> n.rules]
  BY DEF IInv, HistoryOK
<1>2. \A n \in installed \union {Nothing} : n.rev \in Revisions
  BY <1>1, Sizes, Blanks DEF IInv, HistoryOK, Revisions
<1>3. row.rulesRev \in Revisions
  BY DEF IInv, TypeOK, Rows
<1> QED BY <1>1, <1>2, <1>3 DEF IInv, HistoryOK

LEMMA InitOK == Init => IInv
<1> SUFFICES ASSUME Init PROVE IInv
  OBVIOUS
<1> USE Sizes, Blanks
<1>1. TypeOK
  <2>1. row \in Rows
    BY DEF Init, Rows
  <2>2. /\ desired \in Rulesets \union {EMPTY}
        /\ apply \in [Applies -> [pc : {"idle", "sent"}, rev : Revisions, rules : Hashes]]
        /\ reply \in [Applies -> {"none", "applied", "refused"}]
        /\ inbox \subseteq [from : Senders, rev : Revisions, rules : Hashes]
        /\ disp \in Revisions
        /\ chains \in [Revisions -> Hashes \union {FOREIGN}]
        /\ stateFile \in Numbered /\ rulesFile \in Numbered
        /\ booting \in BOOLEAN
    BY DEF Init, Hashes
  <2>3. writer \in [snap : Snapshots, row : SUBSET Rows] /\ Cardinality(writer.row) <= 1
    BY FS_EmptySet DEF Init
  <2>4. faults \in 0..MaxMishaps /\ races \in 0..MaxMishaps
    BY DEF Init
  <2>5. issued \subseteq Numbered /\ installed \subseteq issued
    BY DEF Init
  <2> QED BY <2>1, <2>2, <2>3, <2>4, <2>5 DEF Init, TypeOK
<1>2. HistoryOK
  BY DEF Init, HistoryOK, Busy
<1>3. AgentOK /\ ChainsOK /\ SessionsOK
  BY DEF Init, AgentOK, ChainsOK, SessionsOK, Busy
<1>4. FreshOK
  BY DEF Init, FreshOK
<1> QED BY <1>1, <1>2, <1>3, <1>4 DEF IInv

\* The control plane's steps that are about the row alone.
LEMMA RowOK ==
  ASSUME IInv, NEW new \in Rows, row' = new, desired' \in Rulesets \union {EMPTY},
         UNCHANGED <<apply, reply, faults, issued, inbox, agent, disp, chains, stateFile,
                     rulesFile, booting, installed>>,
         writer' \in [snap : Snapshots, row : SUBSET Rows], Cardinality(writer'.row) <= 1,
         races' \in 0..MaxMishaps, races <= races',
         new.applied \in installed \union {Nothing},
         \A r \in writer'.row : r.applied \in installed \union {Nothing},
         races' = 0 => new.applied = row.applied /\ row.rulesRev <= new.rulesRev
  PROVE  IInv'
<1>0. races \in Nat /\ (races' = 0 => races = 0)
  BY Sizes DEF IInv, TypeOK
<1>1. TypeOK'
  BY DEF IInv, TypeOK
<1>2. HistoryOK'
  BY DEF IInv, HistoryOK, Busy, NumberOf
<1>3. AgentOK' /\ ChainsOK' /\ SessionsOK'
  BY DEF IInv, AgentOK, ChainsOK, SessionsOK, Busy, NumberOf
<1>4. ASSUME races' = 0 PROVE FreshOK'
  <2>1. \A n \in issued : n.rev <= row'.rulesRev
    BY <1>0, <1>4, FilesOK, Sizes DEF IInv, FreshOK, Revisions, Rows
  <2> QED BY <1>0, <1>4, <2>1 DEF IInv, FreshOK, Busy
<1> QED BY <1>1, <1>2, <1>3, <1>4 DEF IInv

\* The next number is beyond what the row knows.
LEMMA NextRevisionOK ==
  ASSUME IInv
  PROVE  /\ NextRevision(row) \in Nat \ {0}
         /\ row.rulesRev < NextRevision(row)
  BY FilesOK, Sizes DEF NextRevision, Revisions

LEMMA EditRulesOK == ASSUME IInv, EditRules PROVE IInv'
<1>1. PICK rules \in (Rulesets \union {EMPTY}) \ {desired} :
        desired' = rules /\ row' = MarkPending(row, rules)
  BY DEF EditRules
<1> DEFINE new == MarkPending(row, rules)
<1>2. NextRevision(row) \in Revisions /\ rules \in Hashes /\ row \in Rows
  BY NextRevisionOK, Sizes DEF EditRules, Revisions, IInv, TypeOK, Hashes
<1>3. new \in Rows /\ new.applied = row.applied /\ new.rulesRev = NextRevision(row)
  BY <1>2 DEF MarkPending, Rows
<1>4. /\ row.rulesRev <= new.rulesRev /\ races' = races /\ races <= races'
      /\ races' \in 0..MaxMishaps
  BY <1>3, NextRevisionOK, FilesOK, Sizes DEF EditRules, Revisions, IInv, TypeOK
<1>5. UNCHANGED <<apply, reply, faults, issued, inbox, agent, disp, chains, stateFile,
                  rulesFile, booting, installed, writer>>
  BY DEF EditRules, boxVars
<1>6. /\ writer' \in [snap : Snapshots, row : SUBSET Rows] /\ Cardinality(writer'.row) <= 1
      /\ new.applied \in installed \union {Nothing}
      /\ \A r \in writer'.row : r.applied \in installed \union {Nothing}
  BY <1>3, <1>5 DEF IInv, TypeOK, HistoryOK
<1> QED BY <1>1, <1>3, <1>4, <1>5, <1>6, RowOK

\* What STATUS reports is a snapshot.
LEMMA StatusOK == ASSUME IInv PROVE Status \in Snapshots
<1>1. stateFile.rules \in Hashes /\ stateFile.rev \in Revisions /\ disp \in Revisions
      /\ NONE \in Hashes /\ 0 \in Revisions
  BY Sizes DEF IInv, TypeOK, Numbered
<1>2. CASE stateFile.rev = 0
  BY <1>1, <1>2 DEF Status, NoSnapshot, Snapshots
<1>3. CASE stateFile.rev > 0 /\ disp # stateFile.rev
  BY <1>1, <1>3, Sizes DEF Status, Snapshots, Revisions
<1>4. CASE ~(stateFile.rev = 0) /\ ~(stateFile.rev > 0 /\ disp # stateFile.rev)
  BY <1>1, <1>4 DEF Status, Snapshots
<1> QED BY <1>2, <1>3, <1>4

\* The writers without the lock: a row that was read is put back as it was, with a
\* snapshot of its own.
LEMMA StoreOK ==
  ASSUME IInv, NEW read \in writer.row \union {row}, NEW snap \in Snapshots, Store(read, snap),
         writer' \in [snap : Snapshots, row : SUBSET Rows], writer'.row = {}
  PROVE  IInv'
<1> DEFINE new == [read EXCEPT !.snap = snap]
<1>1. read \in Rows /\ read.applied \in installed \union {Nothing}
  BY DEF IInv, TypeOK, HistoryOK
<1>2. new \in Rows /\ new.applied = read.applied /\ new.rulesRev = read.rulesRev
  BY <1>1 DEF Rows
<1>3. races \in Nat /\ races' \in 0..MaxMishaps /\ races <= races' /\ (races' = 0 => read = row)
  BY Sizes DEF Store, IInv, TypeOK
<1>4. row.rulesRev <= row.rulesRev
  BY FilesOK, Sizes DEF Revisions
<1>5. row' = new /\ UNCHANGED <<desired, apply, reply, faults, issued, inbox, agent, disp, chains,
                               stateFile, rulesFile, booting, installed>>
  BY DEF Store, boxVars
<1>6. Cardinality(writer'.row) <= 1
  BY FS_EmptySet
<1>7. desired' \in Rulesets \union {EMPTY}
  BY <1>5 DEF IInv, TypeOK
<1> QED BY <1>1, <1>2, <1>3, <1>4, <1>5, <1>6, <1>7, RowOK

LEMMA WritersOK ==
  ASSUME IInv, SyncCapture \/ WriterLoad \/ SyncStore \/ PinHostKey
  PROVE  IInv'
<1>0. /\ writer \in [snap : Snapshots, row : SUBSET Rows] /\ row \in Rows
      /\ \A r \in writer.row \union {row} : r.applied \in installed \union {Nothing}
      /\ races \in 0..MaxMishaps /\ races <= races /\ row.rulesRev <= row.rulesRev
      /\ desired \in Rulesets \union {EMPTY}
  BY FilesOK, Sizes DEF IInv, TypeOK, HistoryOK, Revisions
<1>1. CASE SyncCapture
  <2>1. /\ row' = row /\ desired' = desired /\ races' = races
        /\ UNCHANGED <<apply, reply, faults, issued, inbox, agent, disp, chains, stateFile,
                       rulesFile, booting, installed>>
        /\ writer' = [snap |-> Status, row |-> {}]
    BY <1>1 DEF SyncCapture, boxVars
  <2>2. /\ writer' \in [snap : Snapshots, row : SUBSET Rows] /\ writer'.row = {}
        /\ Cardinality(writer'.row) <= 1
    BY <2>1, StatusOK, FS_EmptySet
  <2> QED BY <1>0, <2>1, <2>2, RowOK
<1>2. CASE WriterLoad
  <2>1. /\ row' = row /\ desired' = desired /\ races' = races
        /\ UNCHANGED <<apply, reply, faults, issued, inbox, agent, disp, chains, stateFile,
                       rulesFile, booting, installed>>
    BY <1>2 DEF WriterLoad, boxVars
  <2>2. writer' = [writer EXCEPT !.row = {row}]
    BY <1>2 DEF WriterLoad
  <2>3. writer' \in [snap : Snapshots, row : SUBSET Rows] /\ writer'.row = {row}
    BY <1>0, <2>2
  <2>4. Cardinality(writer'.row) <= 1
    BY <1>0, <2>3, FS_Singleton
  <2> QED BY <1>0, <2>1, <2>3, <2>4, RowOK
<1>3. CASE SyncStore
  BY <1>0, <1>3, StoreOK, Blanks DEF SyncStore
<1>4. CASE PinHostKey
  <2>1. PICK read \in writer.row \ {row} : Store(read, read.snap)
    BY <1>4 DEF PinHostKey
  <2>2. read.snap \in Snapshots
    BY <1>0 DEF Rows
  <2>3. writer' \in [snap : Snapshots, row : SUBSET Rows] /\ writer'.row = {}
    BY <1>0, <1>4 DEF PinHostKey
  <2> QED BY <2>1, <2>2, <2>3, StoreOK
<1> QED BY <1>1, <1>2, <1>3, <1>4

LEMMA PrepareOK ==
  ASSUME IInv, NEW a \in Applies, NEW clear \in BOOLEAN, Prepare(a, clear)
  PROVE  IInv'
<1> DEFINE rules == IF clear THEN EMPTY ELSE desired
           rev == NextRevision(row)
           q == [from |-> a, rev |-> rev, rules |-> rules]
           n == [rev |-> rev, rules |-> rules]
           new == [row EXCEPT !.rulesRev = rev, !.desiredHash = IF clear THEN @ ELSE rules]
           sent == [pc |-> "sent", rev |-> rev, rules |-> rules]
<1>1. /\ rev \in 1..MaxRev /\ rev \in Revisions /\ row.rulesRev < rev
      /\ rules \in Documents /\ rules \in Hashes
  <2>1. desired \in Documents
    BY DEF IInv, TypeOK, Documents
  <2>2. rev <= MaxRev
    BY DEF Prepare
  <2> QED BY <2>1, <2>2, NextRevisionOK, FilesOK, Sizes DEF Documents, Hashes, Revisions
<1>2. new \in Rows /\ new.applied = row.applied /\ new.rulesRev = rev
  BY <1>1 DEF IInv, TypeOK, Rows
<1>3. /\ row' = new /\ apply[a].pc = "idle" /\ apply' = [apply EXCEPT ![a] = sent]
      /\ reply' = [reply EXCEPT ![a] = "none"] /\ inbox' = inbox \union {q}
      /\ issued' = issued \union {n}
      /\ UNCHANGED <<desired, writer, faults, races, agent, disp, chains, stateFile,
                     rulesFile, booting, installed>>
  BY DEF Prepare
<1>4. /\ apply' \in [Applies -> [pc : {"idle", "sent"}, rev : Revisions, rules : Hashes]]
      /\ apply'[a] = sent /\ \A b \in Applies \ {a} : apply'[b] = apply[b]
      /\ reply' \in [Applies -> {"none", "applied", "refused"}]
      /\ reply'[a] = "none" /\ \A b \in Applies \ {a} : reply'[b] = reply[b]
  BY <1>1, <1>3 DEF IInv, TypeOK
<1>5. TypeOK'
  <2>1. q \in [from : Senders, rev : Revisions, rules : Hashes] /\ n \in Numbered
    BY <1>1, Sizes DEF Numbered
  <2> QED BY <1>2, <1>3, <1>4, <2>1 DEF IInv, TypeOK
<1>6. HistoryOK'
  BY <1>1, <1>2, <1>3 DEF IInv, HistoryOK, Busy, NumberOf
<1>7. AgentOK' /\ ChainsOK'
  BY <1>3 DEF IInv, AgentOK, ChainsOK, Busy, NumberOf
<1>8. SessionsOK'
  <2>1. (\A r \in inbox : r.from # a) /\ agent.from # a
    <3>1. apply[a].pc = "idle"
      BY <1>3
    <3>2. ASSUME NEW r \in inbox, r.from \in Applies PROVE apply[r.from].pc = "sent"
      <4>1. apply[r.from] = [pc |-> "sent", rev |-> r.rev, rules |-> r.rules]
        BY <3>2 DEF IInv, SessionsOK
      <4> QED BY <4>1
    <3>3. agent.from \in Applies => apply[agent.from].pc = "sent"
      BY DEF IInv, SessionsOK
    <3> QED BY <3>1, <3>2, <3>3
  <2>2. /\ q.from = a /\ q.rev = rev /\ q.rules = rules /\ a # Boot
    BY Sizes
  <2> QED BY <1>3, <1>4, <2>1, <2>2 DEF IInv, SessionsOK, Busy, NumberOf
<1>9. ASSUME races' = 0 PROVE FreshOK'
  <2>1. FreshOK /\ row.rulesRev \in Nat /\ rev \in Nat
    BY <1>1, <1>3, <1>9, FilesOK, Sizes DEF IInv, Revisions
  <2>2. \A m \in issued : m.rev # rev /\ m.rev <= rev
    BY <1>1, <2>1, FilesOK DEF FreshOK
  <2>3. \A p \in inbox : p.rev # rev
    BY <2>2 DEF IInv, HistoryOK, NumberOf
  <2>4. Busy => agent.rev # rev
    BY <2>2 DEF IInv, HistoryOK, NumberOf
  <2>5. \A m \in installed : m.rev # rev
    BY <2>2 DEF IInv, HistoryOK
  <2>6. \A m \in issued' : m.rev <= row'.rulesRev
    BY <1>2, <1>3, <2>1, <2>2
  <2>7. \A r \in inbox' : /\ \A p \in inbox' : p.rev = r.rev => p = r
                          /\ Busy' => agent'.rev # r.rev
                          /\ \A m \in installed' : m.rev # r.rev
    BY <1>3, <2>1, <2>3, <2>4, <2>5 DEF FreshOK, Busy
  <2>8. \A b \in Applies : reply'[b] = "applied" => apply'[b].rev <= rulesFile'.rev
    BY <1>3, <1>4, <2>1 DEF FreshOK
  <2> QED BY <1>2, <1>3, <2>1, <2>6, <2>7, <2>8 DEF FreshOK
<1> QED BY <1>5, <1>6, <1>7, <1>8, <1>9 DEF IInv

LEMMA FinalizeOK == ASSUME IInv, NEW a \in Applies, Finalize(a) PROVE IInv'
<1> DEFINE done == [rev |-> apply[a].rev, rules |-> apply[a].rules]
           new == [row EXCEPT !.desiredHash = desired, !.applied = done,
                              !.pending = desired # done.rules,
                              !.snap = PatchedSnapshot(@, done)]
<1>1. /\ row' = new /\ apply[a].pc = "sent" /\ reply[a] = "applied"
      /\ apply' = [apply EXCEPT ![a] = NoApply] /\ reply' = [reply EXCEPT ![a] = "none"]
      /\ UNCHANGED <<desired, writer, faults, races, issued, inbox, agent, disp, chains,
                     stateFile, rulesFile, booting, installed>>
  BY DEF Finalize, boxVars
<1>2. done \in installed /\ done \in Numbered /\ done.rev = apply[a].rev
  BY <1>1 DEF IInv, SessionsOK, NumberOf, TypeOK
<1>3. new \in Rows /\ new.applied = done /\ new.rulesRev = row.rulesRev
  <2>1. row \in Rows /\ desired \in Hashes
    BY Sizes DEF IInv, TypeOK, Documents, Hashes
  <2>2. PatchedSnapshot(row.snap, done) \in Snapshots
    <3>1. row.snap \in Snapshots
      BY <2>1 DEF Rows
    <3>2. [row.snap EXCEPT !.rev = done.rev, !.hash = done.rules, !.drift = FALSE] \in Snapshots
      BY <1>2, <3>1 DEF Snapshots, Numbered
    <3> QED BY <3>1, <3>2 DEF PatchedSnapshot
  <2> QED BY <1>2, <2>1, <2>2 DEF Rows
<1>4. /\ apply' \in [Applies -> [pc : {"idle", "sent"}, rev : Revisions, rules : Hashes]]
      /\ \A b \in Applies \ {a} : apply'[b] = apply[b]
      /\ reply' \in [Applies -> {"none", "applied", "refused"}]
      /\ reply'[a] = "none" /\ \A b \in Applies \ {a} : reply'[b] = reply[b]
  BY <1>1, Blanks DEF IInv, TypeOK
<1>5. TypeOK'
  BY <1>1, <1>3, <1>4 DEF IInv, TypeOK
<1>6. HistoryOK'
  BY <1>1, <1>2, <1>3 DEF IInv, HistoryOK, Busy, NumberOf
<1>7. AgentOK' /\ ChainsOK'
  BY <1>1 DEF IInv, AgentOK, ChainsOK, Busy, NumberOf
<1>8. SessionsOK'
  <2>1. (\A r \in inbox : r.from # a) /\ agent.from # a
    BY <1>1 DEF IInv, SessionsOK
  <2> QED BY <1>1, <1>4, <2>1 DEF IInv, SessionsOK, Busy, NumberOf
<1>9. races' = 0 => FreshOK'
  BY <1>1, <1>2, <1>3, <1>4 DEF IInv, FreshOK, Busy
<1> QED BY <1>5, <1>6, <1>7, <1>8, <1>9 DEF IInv

\* An apply that ends without an answer leaves at most an orphan behind.
LEMMA ForgetOK ==
  ASSUME IInv, NEW a \in Applies, Forget(a), NEW new \in Rows, row' = new,
         new.applied = row.applied, new.rulesRev = row.rulesRev, faults' \in 0..MaxMishaps
  PROVE  IInv'
<1> DEFINE others == {r \in inbox : r.from # a}
           orphans == {[r EXCEPT !.from = Gone] : r \in inbox \ others}
<1>1. /\ apply' = [apply EXCEPT ![a] = NoApply] /\ reply' = [reply EXCEPT ![a] = "none"]
      /\ agent' = IF agent.from = a THEN [agent EXCEPT !.from = Gone] ELSE agent
      /\ inbox' = others \/ inbox' = others \union orphans
      /\ UNCHANGED <<desired, writer, races, issued, disp, chains, stateFile, rulesFile,
                     booting, installed>>
  BY DEF Forget
<1>2. /\ apply' \in [Applies -> [pc : {"idle", "sent"}, rev : Revisions, rules : Hashes]]
      /\ \A b \in Applies \ {a} : apply'[b] = apply[b]
      /\ reply' \in [Applies -> {"none", "applied", "refused"}]
      /\ reply'[a] = "none" /\ \A b \in Applies \ {a} : reply'[b] = reply[b]
  BY <1>1, Blanks DEF IInv, TypeOK
<1>3. /\ agent' \in [pc : {"idle", "built", "swapped", "stated", "committed"},
                     from : Senders, rev : Revisions, rules : Hashes, old : Revisions]
      /\ agent'.pc = agent.pc /\ agent'.rev = agent.rev /\ agent'.rules = agent.rules
      /\ agent'.from = IF agent.from = a THEN Gone ELSE agent.from
  <2>1. agent \in [pc : {"idle", "built", "swapped", "stated", "committed"},
                   from : Senders, rev : Revisions, rules : Hashes, old : Revisions]
    BY DEF IInv, TypeOK
  <2>2. CASE agent.from = a
    BY <1>1, <2>1, <2>2, Sizes
  <2>3. CASE agent.from # a
    BY <1>1, <2>1, <2>3
  <2> QED BY <2>2, <2>3
<1>4. \A p \in inbox' : \/ p \in inbox /\ p.from # a
                        \/ /\ p.from = Gone /\ p \in [from : Senders, rev : Revisions, rules : Hashes]
                           /\ \E r \in inbox : r.from = a /\ p = [r EXCEPT !.from = Gone]
                                             /\ r.rev = p.rev /\ r.rules = p.rules
  <2>1. inbox \subseteq [from : Senders, rev : Revisions, rules : Hashes]
    BY DEF IInv, TypeOK
  <2>2. ASSUME NEW p \in orphans
        PROVE  /\ p.from = Gone /\ p \in [from : Senders, rev : Revisions, rules : Hashes]
               /\ \E r \in inbox : r.from = a /\ p = [r EXCEPT !.from = Gone]
                                 /\ r.rev = p.rev /\ r.rules = p.rules
    BY <2>1, <2>2, Sizes
  <2> QED BY <1>1, <2>2
<1>5. TypeOK'
  <2>1. inbox' \subseteq [from : Senders, rev : Revisions, rules : Hashes]
    BY <1>4 DEF IInv, TypeOK
  <2> QED BY <1>1, <1>2, <1>3, <2>1 DEF IInv, TypeOK
<1>6. HistoryOK'
  <2>1. \A p \in inbox' : NumberOf(p) \in issued'
    BY <1>1, <1>4 DEF IInv, HistoryOK, NumberOf
  <2>2. Busy' => NumberOf(agent') \in issued'
    BY <1>1, <1>3 DEF IInv, HistoryOK, NumberOf, Busy
  <2> QED BY <1>1, <2>1, <2>2 DEF IInv, HistoryOK, Busy, NumberOf
<1>7. AgentOK' /\ ChainsOK'
  BY <1>1, <1>3 DEF IInv, AgentOK, ChainsOK, Busy, NumberOf
<1>8. SessionsOK'
  <2>1. \A p \in inbox' : p.from \in Applies =>
          p \in inbox /\ p.from # a /\ p.from # agent.from
    BY <1>4, Sizes DEF IInv, SessionsOK
  <2>2. \A p \in inbox' : p.from # Boot
    BY <1>4, Sizes DEF IInv, SessionsOK
  <2>3. agent'.from \in Applies => agent'.from = agent.from /\ agent.from # a
    BY <1>3, Sizes
  <2>4. ~Busy' => agent'.from = Boot
    BY <1>3, Sizes DEF IInv, SessionsOK, Busy
  <2> QED BY <1>1, <1>2, <1>3, <2>1, <2>2, <2>3, <2>4 DEF IInv, SessionsOK, Busy, NumberOf
<1>9. ASSUME races' = 0 PROVE FreshOK'
  <2>1. FreshOK
    BY <1>1, <1>9 DEF IInv
  <2>2. \A p, r \in inbox' : p.rev = r.rev => p = r
    BY <1>4, <2>1 DEF FreshOK
  <2>3. \A p \in inbox' : (Busy' => agent'.rev # p.rev) /\ \A m \in installed' : m.rev # p.rev
    BY <1>1, <1>3, <1>4, <2>1 DEF FreshOK, Busy
  <2> QED BY <1>1, <1>2, <2>1, <2>2, <2>3 DEF FreshOK
<1> QED BY <1>5, <1>6, <1>7, <1>8, <1>9 DEF IInv

LEMMA FailedApplyOK ==
  ASSUME IInv, NEW a \in Applies, FailApply(a) \/ AbandonApply(a)
  PROVE  IInv'
<1>0. row \in Rows /\ faults \in 0..MaxMishaps /\ races \in 0..MaxMishaps
  BY DEF IInv, TypeOK
<1>1. CASE FailApply(a)
  <2> DEFINE new == [row EXCEPT !.pending = TRUE]
  <2>1. new \in Rows /\ new.applied = row.applied /\ new.rulesRev = row.rulesRev
    BY <1>0 DEF Rows
  <2> QED BY <1>0, <1>1, <2>1, ForgetOK DEF FailApply
<1>2. CASE AbandonApply(a)
  <2>1. faults' \in 0..MaxMishaps
    BY <1>0, <1>2, Sizes DEF AbandonApply
  <2> QED BY <1>0, <1>2, <2>1, ForgetOK DEF AbandonApply
<1> QED BY <1>1, <1>2

-----------------------------------------------------------------------------

\* A request that is taken was sent; it is from the inbox, or the one on disk.
LEMMA RequestOK ==
  ASSUME IInv, NEW q \in Requests
  PROVE  /\ q \in [from : Senders, rev : Revisions, rules : Hashes]
         /\ NumberOf(q) \in issued /\ q.rev # 0 /\ q.rules \in Documents
         /\ \/ q \in inbox /\ q.from # Boot
            \/ q \notin inbox /\ q.from = Boot /\ NumberOf(q) = rulesFile /\ rulesFile \in installed
<1>1. CASE q \in inbox
  <2>1. NumberOf(q) \in issued /\ q.from # Boot
        /\ q \in [from : Senders, rev : Revisions, rules : Hashes]
    BY <1>1 DEF IInv, HistoryOK, SessionsOK, TypeOK
  <2>2. NumberOf(q).rev # 0 /\ NumberOf(q).rules \in Documents
    BY <2>1, FilesOK, Sizes
  <2> QED BY <1>1, <2>1, <2>2 DEF NumberOf
<1>2. CASE q \notin inbox
  <2>1. booting /\ q = [from |-> Boot, rev |-> rulesFile.rev, rules |-> rulesFile.rules]
    BY <1>2 DEF Requests
  <2>2. rulesFile \in installed /\ rulesFile \in issued
    BY <2>1 DEF IInv, HistoryOK
  <2>3. NumberOf(q) = rulesFile /\ q.rev # 0 /\ q.rules \in Documents
        /\ q.rev \in Revisions
    BY <2>1, <2>2, FilesOK, Sizes DEF NumberOf
  <2> QED BY <1>2, <2>1, <2>2, <2>3, Sizes
<1> QED BY <1>1, <1>2

\* The agent's steps: what each conjunct asks of the box once the control plane
\* has not moved.
LEMMA BoxOK ==
  ASSUME IInv, cpVars' = cpVars, inbox' \subseteq inbox, faults' \in 0..MaxMishaps,
         agent' \in [pc : {"idle", "built", "swapped", "stated", "committed"},
                     from : Senders, rev : Revisions, rules : Hashes, old : Revisions],
         disp' \in Revisions, chains' \in [Revisions -> Hashes \union {FOREIGN}],
         stateFile' \in installed' \union {Nothing}, rulesFile' \in installed' \union {Nothing},
         booting' \in BOOLEAN, booting' => rulesFile' # Nothing,
         installed \subseteq installed', installed' \subseteq issued,
         Busy' => NumberOf(agent') \in issued,
         AgentOK', ChainsOK',
         rulesFile.rev <= rulesFile'.rev,
         \* who is answered, and by whom
         reply' \in [Applies -> {"none", "applied", "refused"}],
         \A a \in Applies : reply'[a] = "applied" /\ reply[a] # "applied" =>
            /\ apply[a].pc = "sent" /\ NumberOf(apply[a]) \in installed'
            /\ races = 0 => apply[a].rev <= rulesFile'.rev,
         \A a \in Applies : reply'[a] # reply[a] =>
            agent'.from # a /\ \A q \in inbox' : q.from # a,
         \A q \in inbox' : q.from \in Applies => agent'.from # q.from,
         agent'.from \in Applies =>
            apply[agent'.from] = [pc |-> "sent", rev |-> agent'.rev, rules |-> agent'.rules]
            /\ reply[agent'.from] = "none",
         ~Busy' => agent'.from = Boot,
         \* while numbers are fresh, what waits has not been begun
         races = 0 => \A q \in inbox' : /\ Busy' => agent'.rev # q.rev
                                        /\ \A n \in installed' : n.rev # q.rev
  PROVE  IInv'
<1>1. UNCHANGED <<desired, row, apply, writer, races, issued>>
  BY DEF cpVars
<1>2. TypeOK'
  <2>1. issued \subseteq Numbered
    BY DEF IInv, TypeOK
  <2>2. stateFile' \in Numbered /\ rulesFile' \in Numbered
    BY <2>1, Blanks
  <2> QED BY <1>1, <2>2 DEF IInv, TypeOK
<1>3. HistoryOK'
  BY <1>1 DEF IInv, HistoryOK
<1>4. SessionsOK'
  BY <1>1 DEF IInv, SessionsOK
<1>5. ASSUME races' = 0 PROVE FreshOK'
  <2>1. FreshOK /\ races = 0
    BY <1>1, <1>5 DEF IInv
  <2>2. rulesFile.rev \in Nat /\ rulesFile'.rev \in Nat
    BY <1>1, FilesOK, Sizes DEF Revisions
  <2>3. row.applied.rev <= rulesFile'.rev
    BY <2>1, <2>2, FilesOK, Sizes DEF FreshOK, Revisions
  <2>4. ASSUME NEW a \in Applies, reply'[a] = "applied" PROVE apply[a].rev <= rulesFile'.rev
    <3>1. apply[a].rev \in Nat
      BY Sizes DEF IInv, TypeOK, Revisions
    <3> QED BY <2>1, <2>2, <2>4, <3>1 DEF FreshOK
  <2> QED BY <1>1, <2>1, <2>3, <2>4 DEF FreshOK
<1> QED BY <1>2, <1>3, <1>4, <1>5 DEF IInv

\* The facts of the state before that every one of the agent's steps starts from.
LEMMA BoxBefore ==
  ASSUME IInv
  PROVE  /\ agent \in [pc : {"idle", "built", "swapped", "stated", "committed"},
                          from : Senders, rev : Revisions, rules : Hashes, old : Revisions]
         /\ inbox \subseteq [from : Senders, rev : Revisions, rules : Hashes]
         /\ reply \in [Applies -> {"none", "applied", "refused"}]
         /\ disp \in Revisions /\ chains \in [Revisions -> Hashes \union {FOREIGN}]
         /\ booting \in BOOLEAN /\ faults \in 0..MaxMishaps /\ races \in 0..MaxMishaps
         /\ AgentOK /\ ChainsOK /\ SessionsOK /\ HistoryOK /\ (races = 0 => FreshOK)
         /\ rulesFile.rev <= rulesFile.rev
  BY FilesOK, Sizes DEF IInv, TypeOK, Revisions

\* An answer goes to the apply that waits for it, if one does.
LEMMA AnswerOK ==
  ASSUME IInv, NEW from \in Senders, NEW what \in {"applied", "refused"}, Answer(from, what)
  PROVE  /\ reply' \in [Applies -> {"none", "applied", "refused"}]
         /\ \A a \in Applies : reply'[a] = IF a = from THEN what ELSE reply[a]
  BY BoxBefore DEF Answer

\* An apply has one request in the inbox.
LEMMA OneRequest ==
  ASSUME IInv, NEW q \in Requests, NEW p \in inbox, p.from \in Applies, p.from = q.from
  PROVE  p = q
<1>1. q \in inbox
  BY RequestOK, Sizes
<1>2. /\ apply[p.from] = [pc |-> "sent", rev |-> p.rev, rules |-> p.rules]
      /\ apply[q.from] = [pc |-> "sent", rev |-> q.rev, rules |-> q.rules]
  BY <1>1, BoxBefore DEF SessionsOK
<1>3. p.rev = q.rev /\ p.rules = q.rules
  BY <1>2
<1>4. /\ p \in [from : Senders, rev : Revisions, rules : Hashes]
      /\ q \in [from : Senders, rev : Revisions, rules : Hashes]
  BY RequestOK, BoxBefore
<1> QED BY <1>3, <1>4

LEMMA AgentRefuseOK == ASSUME IInv, NEW q \in Requests, AgentRefuse(q) PROVE IInv'
<1>1. /\ inbox' = inbox \ {q} /\ Answer(q.from, "refused")
      /\ UNCHANGED <<faults, agent, disp, chains, stateFile, rulesFile, booting, installed>>
      /\ cpVars' = cpVars
  BY DEF AgentRefuse
<1>2. q.from \in Senders /\ (q.from \in Applies => q \in inbox)
  BY RequestOK, Sizes
<1>3. /\ reply' \in [Applies -> {"none", "applied", "refused"}]
      /\ \A a \in Applies : reply'[a] = IF a = q.from THEN "refused" ELSE reply[a]
  BY <1>1, <1>2, AnswerOK
<1>4. AgentOK' /\ ChainsOK'
  BY <1>1, BoxBefore DEF AgentOK, ChainsOK, Busy, NumberOf
<1>5. \A p \in inbox : p.from \in Applies /\ p.from = q.from => p = q
  BY OneRequest
<1>6. ASSUME NEW a \in Applies, reply'[a] # reply[a]
      PROVE  agent'.from # a /\ \A p \in inbox' : p.from # a
  <2>1. a = q.from /\ q \in inbox
    BY <1>2, <1>3, <1>6
  <2>2. agent.from # a
    BY <2>1, BoxBefore DEF SessionsOK
  <2> QED BY <1>1, <1>5, <2>1, <2>2
<1>7. /\ \A p \in inbox' : p.from \in Applies => agent'.from # p.from
      /\ agent'.from \in Applies =>
            apply[agent'.from] = [pc |-> "sent", rev |-> agent'.rev, rules |-> agent'.rules]
            /\ reply[agent'.from] = "none"
      /\ ~Busy' => agent'.from = Boot
      /\ Busy' => NumberOf(agent') \in issued
  BY <1>1, BoxBefore DEF SessionsOK, HistoryOK, Busy, NumberOf
<1>8. races = 0 => \A p \in inbox' : /\ Busy' => agent'.rev # p.rev
                                     /\ \A n \in installed' : n.rev # p.rev
  BY <1>1, BoxBefore DEF FreshOK, Busy
<1> QED BY <1>1, <1>3, <1>4, <1>6, <1>7, <1>8, BoxBefore, BoxOK DEF HistoryOK

LEMMA AgentConfirmOK == ASSUME IInv, NEW q \in Requests, AgentConfirm(q) PROVE IInv'
<1>1. /\ inbox' = inbox \ {q} /\ Answer(q.from, "applied")
      /\ booting' = (booting /\ q.from # Boot) /\ agent.pc = "idle" /\ NumberOf(q) = stateFile
      /\ UNCHANGED <<faults, agent, disp, chains, stateFile, rulesFile, installed>>
      /\ cpVars' = cpVars
  <2>1. q.rev = stateFile.rev /\ q.rules = stateFile.rules /\ stateFile \in Numbered
    BY DEF AgentConfirm, Active, IInv, TypeOK
  <2> QED BY <2>1 DEF AgentConfirm, NumberOf, Numbered
<1>2. q.from \in Senders /\ (q.from \in Applies => q \in inbox)
  BY RequestOK, Sizes
<1>3. /\ reply' \in [Applies -> {"none", "applied", "refused"}]
      /\ \A a \in Applies : reply'[a] = IF a = q.from THEN "applied" ELSE reply[a]
  BY <1>1, <1>2, AnswerOK
<1>4. AgentOK' /\ ChainsOK'
  BY <1>1, BoxBefore DEF AgentOK, ChainsOK, Busy, NumberOf
<1>5. \A p \in inbox : p.from \in Applies /\ p.from = q.from => p = q
  BY OneRequest
<1>6. stateFile \in installed /\ stateFile.rev = q.rev
  BY <1>1, RequestOK, BoxBefore, Blanks DEF HistoryOK, NumberOf
<1>7. ASSUME NEW a \in Applies, reply'[a] # reply[a]
      PROVE  /\ agent'.from # a /\ \A p \in inbox' : p.from # a
             /\ a = q.from /\ q \in inbox
  <2>1. a = q.from /\ q \in inbox
    BY <1>2, <1>3, <1>7
  <2>2. agent.from # a
    BY <2>1, BoxBefore DEF SessionsOK
  <2> QED BY <1>1, <1>5, <2>1, <2>2
<1>8. ASSUME NEW a \in Applies, reply'[a] = "applied", reply[a] # "applied"
      PROVE  /\ apply[a].pc = "sent" /\ NumberOf(apply[a]) \in installed'
             /\ races = 0 => apply[a].rev <= rulesFile'.rev
  <2>1. a = q.from /\ q \in inbox
    BY <1>7, <1>8
  <2>2. apply[a] = [pc |-> "sent", rev |-> q.rev, rules |-> q.rules]
    BY <2>1, BoxBefore DEF SessionsOK
  <2>3. NumberOf(apply[a]) = stateFile /\ apply[a].pc = "sent"
    BY <1>1, <2>2 DEF NumberOf
  <2>4. races # 0
    BY <1>6, <2>1, BoxBefore DEF FreshOK
  <2> QED BY <1>1, <1>6, <2>3, <2>4
<1>9. /\ \A p \in inbox' : p.from \in Applies => agent'.from # p.from
      /\ agent'.from \in Applies =>
            apply[agent'.from] = [pc |-> "sent", rev |-> agent'.rev, rules |-> agent'.rules]
            /\ reply[agent'.from] = "none"
      /\ ~Busy' => agent'.from = Boot
      /\ Busy' => NumberOf(agent') \in issued
      /\ booting' \in BOOLEAN /\ (booting' => rulesFile' # Nothing)
  BY <1>1, BoxBefore DEF SessionsOK, HistoryOK, Busy, NumberOf
<1>10. races = 0 => \A p \in inbox' : /\ Busy' => agent'.rev # p.rev
                                      /\ \A n \in installed' : n.rev # p.rev
  BY <1>1, BoxBefore DEF FreshOK, Busy
<1> QED BY <1>1, <1>3, <1>4, <1>7, <1>8, <1>9, <1>10, BoxBefore, BoxOK DEF HistoryOK

LEMMA AgentBuildOK == ASSUME IInv, NEW q \in Requests, AgentBuild(q) PROVE IInv'
<1> DEFINE busy == [pc |-> "built", from |-> q.from, rev |-> q.rev, rules |-> q.rules,
                    old |-> stateFile.rev]
<1>1. /\ inbox' = inbox \ {q} /\ agent' = busy /\ agent.pc = "idle" /\ disp # q.rev
      /\ ~Stale(q) /\ chains' = [chains EXCEPT ![q.rev] = q.rules]
      /\ UNCHANGED <<reply, faults, disp, stateFile, rulesFile, booting, installed>>
      /\ cpVars' = cpVars
  BY DEF AgentBuild
<1>2. /\ q \in [from : Senders, rev : Revisions, rules : Hashes]
      /\ NumberOf(q) \in issued /\ q.rev # 0 /\ q.rules \in Documents
      /\ (q.from \in Applies => q \in inbox)
  BY RequestOK, Sizes
<1>3. /\ busy \in [pc : {"idle", "built", "swapped", "stated", "committed"},
                             from : Senders, rev : Revisions, rules : Hashes, old : Revisions]
      /\ NumberOf(busy) = NumberOf(q)
  BY <1>2, FilesOK DEF NumberOf
<1>4. /\ chains' \in [Revisions -> Hashes \union {FOREIGN}]
      /\ chains'[q.rev] = q.rules /\ \A r \in Revisions \ {q.rev} : chains'[r] = chains[r]
  BY <1>1, <1>2, BoxBefore
<1>5. AgentOK'
  <2>1. q.rev > stateFile.rev \/ (q.rev = stateFile.rev /\ q.rules = stateFile.rules)
    BY <1>1, <1>2, FilesOK, Sizes DEF Stale, Revisions
  <2>2. stateFile = [rev |-> stateFile.rev, rules |-> stateFile.rules]
    BY DEF IInv, TypeOK, Numbered
  <2> QED BY <1>1, <2>1, <2>2, BoxBefore DEF AgentOK, NumberOf
<1>6. ChainsOK'
  BY <1>1, <1>2, <1>4, BoxBefore, Sizes DEF ChainsOK, Busy
<1>7. /\ \A p \in inbox' : p.from \in Applies => agent'.from # p.from
      /\ agent'.from \in Applies =>
            apply[agent'.from] = [pc |-> "sent", rev |-> agent'.rev, rules |-> agent'.rules]
            /\ reply[agent'.from] = "none"
      /\ Busy' /\ NumberOf(agent') \in issued
  BY <1>1, <1>2, <1>3, OneRequest, BoxBefore DEF SessionsOK, Busy
<1>8. ASSUME races = 0, NEW p \in inbox'
      PROVE  agent'.rev # p.rev /\ \A n \in installed' : n.rev # p.rev
  <2>1. FreshOK /\ p \in inbox /\ p # q
    BY <1>1, <1>8, BoxBefore
  <2>2. CASE q \in inbox
    BY <1>1, <2>1, <2>2 DEF FreshOK
  <2>3. CASE q \notin inbox
    <3>1. NumberOf(q) \in installed
      BY <2>3, RequestOK
    <3> QED BY <1>1, <2>1, <3>1 DEF FreshOK, NumberOf
  <2> QED BY <2>2, <2>3
<1> QED BY <1>1, <1>3, <1>4, <1>5, <1>6, <1>7, <1>8, BoxBefore, BoxOK DEF HistoryOK

\* A step of the agent at work that changes neither the queue nor the answers, and
\* of the record only what it has in hand.
LEMMA WorkOK ==
  ASSUME IInv, Busy, NEW pc \in {"swapped", "stated", "committed"},
         agent' = [agent EXCEPT !.pc = pc],
         cpVars' = cpVars, UNCHANGED <<reply, faults, inbox, chains, booting>>,
         disp' \in Revisions, stateFile' \in installed' \union {Nothing},
         rulesFile' \in installed' \union {Nothing}, rulesFile.rev <= rulesFile'.rev,
         rulesFile # Nothing => rulesFile' # Nothing,
         installed \subseteq installed', installed' \subseteq installed \union {NumberOf(agent)},
         AgentOK', ChainsOK'
  PROVE  IInv'
<1>1. /\ agent' \in [pc : {"idle", "built", "swapped", "stated", "committed"},
                               from : Senders, rev : Revisions, rules : Hashes, old : Revisions]
      /\ agent'.rev = agent.rev /\ agent'.rules = agent.rules /\ agent'.from = agent.from
      /\ agent'.pc = pc /\ Busy' /\ NumberOf(agent') = NumberOf(agent)
  BY BoxBefore DEF Busy, NumberOf
<1>2. NumberOf(agent) \in issued /\ installed' \subseteq issued
  BY BoxBefore DEF HistoryOK
<1>3. booting' \in BOOLEAN /\ (booting' => rulesFile' # Nothing)
  BY BoxBefore DEF HistoryOK
<1>4. /\ \A q \in inbox' : q.from \in Applies => agent'.from # q.from
      /\ agent'.from \in Applies =>
            apply[agent'.from] = [pc |-> "sent", rev |-> agent'.rev, rules |-> agent'.rules]
            /\ reply[agent'.from] = "none"
  BY <1>1, BoxBefore DEF SessionsOK
<1>5. races = 0 => \A q \in inbox' : /\ Busy' => agent'.rev # q.rev
                                     /\ \A n \in installed' : n.rev # q.rev
  BY <1>1, BoxBefore DEF FreshOK, NumberOf
<1> QED BY <1>1, <1>2, <1>3, <1>4, <1>5, BoxBefore, BoxOK

LEMMA AgentSwapOK == ASSUME IInv, AgentSwap PROVE IInv'
<1>1. /\ agent.pc = "built" /\ disp' = agent.rev /\ agent' = [agent EXCEPT !.pc = "swapped"]
      /\ UNCHANGED <<reply, faults, inbox, chains, stateFile, rulesFile, booting, installed>>
      /\ cpVars' = cpVars
  BY DEF AgentSwap
<1>2. agent'.pc = "swapped" /\ agent'.rev = agent.rev /\ NumberOf(agent') = NumberOf(agent)
      /\ Busy /\ agent.rev \in Revisions
  BY <1>1, BoxBefore DEF Busy, NumberOf
<1>3. AgentOK' /\ ChainsOK'
  BY <1>1, <1>2, BoxBefore, Sizes DEF AgentOK, ChainsOK, Busy
<1> QED BY <1>1, <1>2, <1>3, BoxBefore, WorkOK DEF HistoryOK

LEMMA AgentSaveStateOK == ASSUME IInv, AgentSaveState PROVE IInv'
<1>1. /\ agent.pc = "swapped" /\ stateFile' = NumberOf(agent)
      /\ installed' = installed \union {stateFile'} /\ agent' = [agent EXCEPT !.pc = "stated"]
      /\ UNCHANGED <<reply, faults, inbox, disp, chains, rulesFile, booting>>
      /\ cpVars' = cpVars
  BY DEF AgentSaveState, NumberOf
<1>2. agent'.pc = "stated" /\ agent'.rev = agent.rev /\ NumberOf(agent') = NumberOf(agent)
      /\ Busy /\ agent.rev \in Revisions
  BY <1>1, BoxBefore DEF Busy, NumberOf
<1>3. stateFile'.rev = agent.rev /\ stateFile.rev <= agent.rev
  BY <1>1, <1>2, BoxBefore, FilesOK, Sizes DEF AgentOK, NumberOf, Revisions
<1>4. AgentOK'
  BY <1>1, <1>2, <1>3, BoxBefore, FilesOK, Sizes DEF AgentOK, Revisions
<1>5. ChainsOK'
  BY <1>1, <1>2, BoxBefore DEF ChainsOK, Busy
<1> QED BY <1>1, <1>2, <1>4, <1>5, BoxBefore, WorkOK DEF HistoryOK

LEMMA AgentSaveRulesOK == ASSUME IInv, AgentSaveRules PROVE IInv'
<1>1. /\ agent.pc = "stated" /\ rulesFile' = NumberOf(agent)
      /\ agent' = [agent EXCEPT !.pc = "committed"]
      /\ UNCHANGED <<reply, faults, inbox, disp, chains, stateFile, booting, installed>>
      /\ cpVars' = cpVars
  BY DEF AgentSaveRules, NumberOf
<1>2. agent'.pc = "committed" /\ agent'.rev = agent.rev /\ NumberOf(agent') = NumberOf(agent)
      /\ Busy /\ agent.rev \in Revisions
  BY <1>1, BoxBefore DEF Busy, NumberOf
<1>3. stateFile = NumberOf(agent) /\ stateFile' = stateFile
  BY <1>1, BoxBefore DEF AgentOK
<1>4. AgentOK' /\ rulesFile.rev <= rulesFile'.rev
  BY <1>1, <1>2, <1>3, BoxBefore, FilesOK, Sizes DEF AgentOK, Revisions
<1>5. ChainsOK'
  BY <1>1, <1>2, BoxBefore DEF ChainsOK, Busy
<1>6. stateFile' \in installed' \union {Nothing} /\ rulesFile' \in installed' \union {Nothing}
  BY <1>1, <1>3, BoxBefore DEF HistoryOK
<1>7. agent.rev # 0 /\ rulesFile' # Nothing
  BY <1>1, <1>2, BoxBefore, Blanks DEF ChainsOK, NumberOf
<1> QED BY <1>1, <1>2, <1>4, <1>5, <1>6, <1>7, BoxBefore, WorkOK

\* The agent ends, one way or the other, and gives up the lock.
LEMMA StopOK ==
  ASSUME IInv, Busy, NEW what \in {"applied", "refused"}, Answer(agent.from, what),
         what = "applied" => agent.pc = "committed",
         agent' = Idle, cpVars' = cpVars, UNCHANGED <<inbox, stateFile, rulesFile, installed>>,
         faults' \in 0..MaxMishaps, disp' \in Revisions,
         chains' \in [Revisions -> Hashes \union {FOREIGN}], disp' # 0 => chains'[disp'] # NONE,
         booting' \in BOOLEAN, booting' => booting
  PROVE  IInv'
<1>1. ~Busy' /\ agent'.from = Boot /\ AgentOK' /\ ChainsOK'
  BY Blanks, BoxBefore DEF AgentOK, ChainsOK, Busy
<1>2. agent.from \in Senders
  BY BoxBefore
<1>3. /\ reply' \in [Applies -> {"none", "applied", "refused"}]
      /\ \A a \in Applies : reply'[a] = IF a = agent.from THEN what ELSE reply[a]
  BY <1>2, AnswerOK
<1>4. ASSUME NEW a \in Applies, reply'[a] # reply[a]
      PROVE  agent'.from # a /\ \A q \in inbox' : q.from # a
  <2>1. a = agent.from
    BY <1>3, <1>4
  <2>2. \A q \in inbox : q.from # a
    BY <2>1, BoxBefore DEF SessionsOK
  <2> QED BY <1>1, <2>2, Sizes
<1>5. ASSUME NEW a \in Applies, reply'[a] = "applied", reply[a] # "applied"
      PROVE  /\ apply[a].pc = "sent" /\ NumberOf(apply[a]) \in installed'
             /\ races = 0 => apply[a].rev <= rulesFile'.rev
  <2>1. a = agent.from /\ agent.pc = "committed"
    BY <1>3, <1>5
  <2>2. apply[a] = [pc |-> "sent", rev |-> agent.rev, rules |-> agent.rules]
    BY <2>1, BoxBefore DEF SessionsOK
  <2>3. /\ apply[a].pc = "sent" /\ NumberOf(apply[a]) = NumberOf(agent)
        /\ apply[a].rev = NumberOf(agent).rev
    BY <2>2 DEF NumberOf
  <2>4. NumberOf(agent) = stateFile /\ rulesFile = stateFile
    BY <2>1, BoxBefore DEF AgentOK
  <2>5. stateFile \in installed
    <3>1. stateFile.rev # 0
      BY <2>1, <2>4, BoxBefore DEF ChainsOK, NumberOf, Busy
    <3> QED BY <3>1, BoxBefore, Blanks DEF HistoryOK
  <2> QED BY <2>3, <2>4, <2>5, BoxBefore
<1>6. races = 0 => \A q \in inbox' : \A n \in installed' : n.rev # q.rev
  BY BoxBefore DEF FreshOK
<1> QED BY <1>1, <1>3, <1>4, <1>5, <1>6, BoxBefore, Blanks, Sizes, BoxOK DEF HistoryOK, SessionsOK

LEMMA AgentDoneOK == ASSUME IInv, AgentDone PROVE IInv'
<1>1. /\ agent.pc = "committed" /\ Busy /\ Answer(agent.from, "applied") /\ agent' = Idle
      /\ chains' = IF agent.old # agent.rev THEN [chains EXCEPT ![agent.old] = NONE] ELSE chains
      /\ booting' = (booting /\ agent.from # Boot)
      /\ UNCHANGED <<faults, inbox, disp, stateFile, rulesFile, installed>> /\ cpVars' = cpVars
  BY DEF AgentDone, Busy
<1>2. disp = agent.rev /\ (disp # 0 => chains[disp] # NONE)
  BY <1>1, BoxBefore DEF ChainsOK
<1>3. chains' \in [Revisions -> Hashes \union {FOREIGN}] /\ (disp # 0 => chains'[disp] # NONE)
  BY <1>1, <1>2, BoxBefore, Sizes
<1>4. booting' \in BOOLEAN /\ (booting' => booting)
  BY <1>1
<1> QED BY <1>1, <1>3, <1>4, BoxBefore, StopOK

\* Rolling back leads to chains that are there.
LEMMA RolledBackOK ==
  ASSUME IInv
  PROVE  RolledBack \in Revisions /\ (RolledBack # 0 => chains[RolledBack] # NONE)
  BY BoxBefore DEF RolledBack, ChainsOK

LEMMA AgentFailOK == ASSUME IInv, AgentFail \/ AgentKilled PROVE IInv'
<1>1. /\ Busy /\ Answer(agent.from, "refused") /\ agent' = Idle
      /\ faults' \in 0..MaxMishaps
      /\ UNCHANGED <<inbox, chains, stateFile, rulesFile, booting, installed>>
      /\ cpVars' = cpVars
  BY BoxBefore, Sizes DEF AgentFail, AgentKilled, Busy
<1>2. disp' = disp \/ disp' = RolledBack
  BY DEF AgentFail, AgentKilled
<1>3. disp' \in Revisions /\ (disp' # 0 => chains'[disp'] # NONE)
  BY <1>1, <1>2, RolledBackOK, BoxBefore DEF ChainsOK
<1> QED BY <1>1, <1>3, BoxBefore, StopOK

LEMMA RebootOK == ASSUME IInv, Reboot PROVE IInv'
<1>1. /\ agent' = Idle /\ inbox' = {} /\ disp' = 0 /\ chains' = [r \in Revisions |-> NONE]
      /\ booting' = (rulesFile.rev > 0)
      /\ reply' = [a \in Applies |-> IF apply[a].pc = "sent" THEN "refused" ELSE "none"]
      /\ UNCHANGED <<stateFile, rulesFile, installed>> /\ cpVars' = cpVars
      /\ faults' \in 0..MaxMishaps
  BY BoxBefore, Sizes DEF Reboot
<1>2. /\ disp' \in Revisions /\ chains' \in [Revisions -> Hashes \union {FOREIGN}]
      /\ booting' \in BOOLEAN /\ (booting' => rulesFile' # Nothing)
      /\ reply' \in [Applies -> {"none", "applied", "refused"}]
      /\ \A a \in Applies : reply'[a] # "applied"
  <2>1. rulesFile.rev > 0 => rulesFile # Nothing
    BY Blanks
  <2>2. /\ reply' \in [Applies -> {"none", "applied", "refused"}]
        /\ \A a \in Applies : reply'[a] # "applied"
    BY <1>1
  <2>3. chains' \in [Revisions -> Hashes \union {FOREIGN}]
    BY <1>1, Sizes
  <2>4. booting' \in BOOLEAN
    BY <1>1
  <2>5. booting' => rulesFile' # Nothing
    BY <1>1, <2>1
  <2>6. disp' \in Revisions
    BY <1>1, Sizes
  <2> QED BY <2>2, <2>3, <2>4, <2>5, <2>6
<1>3. ~Busy' /\ agent'.from = Boot /\ AgentOK' /\ ChainsOK'
  BY <1>1, Blanks, BoxBefore DEF AgentOK, ChainsOK, Busy
<1> QED BY <1>1, <1>2, <1>3, Blanks, BoxBefore, Sizes, BoxOK DEF HistoryOK

LEMMA TamperOK == ASSUME IInv, Tamper PROVE IInv'
<1>1. /\ ~Busy /\ UNCHANGED <<reply, inbox, agent, stateFile, rulesFile, booting, installed>>
      /\ cpVars' = cpVars /\ faults' \in 0..MaxMishaps
  <2>1. faults + 1 \in 0..MaxMishaps
    BY BoxBefore, Sizes DEF Tamper
  <2> QED BY <2>1 DEF Tamper, Busy
<1>2. /\ disp' \in Revisions /\ chains' \in [Revisions -> Hashes \union {FOREIGN}]
      /\ disp' # 0 => chains'[disp'] # NONE
  <2>1. CASE disp' = 0 /\ chains' = chains
    BY <2>1, BoxBefore, Sizes
  <2>2. CASE disp' = disp /\ chains' = [chains EXCEPT ![disp] = FOREIGN]
    BY <2>2, BoxBefore, Sizes
  <2> QED BY <2>1, <2>2 DEF Tamper
<1>3. AgentOK' /\ ChainsOK'
  BY <1>1, <1>2, BoxBefore DEF AgentOK, ChainsOK, Busy, NumberOf
<1> QED BY <1>1, <1>2, <1>3, BoxBefore, Sizes, BoxOK DEF HistoryOK, SessionsOK, FreshOK, Busy

LEMMA NextOK == ASSUME IInv, [Next]_vars PROVE IInv'
<1>1. CASE UNCHANGED vars
  <2>1. UNCHANGED <<desired, row, apply, reply, inbox, agent, disp, chains, stateFile,
                    rulesFile, booting, writer, faults, races, issued, installed>>
    BY <1>1 DEF vars
  <2>2. TypeOK'
    BY <2>1 DEF IInv, TypeOK
  <2>3. HistoryOK' /\ AgentOK' /\ SessionsOK' /\ ChainsOK' /\ (races' = 0 => FreshOK')
    BY <2>1 DEF IInv, HistoryOK, AgentOK, SessionsOK, ChainsOK, FreshOK, Busy, NumberOf
  <2> QED BY <2>2, <2>3 DEF IInv
<1>2. ASSUME NEW a \in Applies,
             (\E clear \in BOOLEAN : Prepare(a, clear)) \/ Finalize(a)
             \/ FailApply(a) \/ AbandonApply(a)
      PROVE  IInv'
  BY <1>2, PrepareOK, FinalizeOK, FailedApplyOK
<1>3. ASSUME NEW q \in Requests, AgentTake(q) PROVE IInv'
  BY <1>3, AgentRefuseOK, AgentConfirmOK, AgentBuildOK DEF AgentTake
<1>4. CASE AgentStep
  BY <1>4, AgentSwapOK, AgentSaveStateOK, AgentSaveRulesOK, AgentDoneOK DEF AgentStep
<1> QED BY <1>1, <1>2, <1>3, <1>4, EditRulesOK, WritersOK, AgentFailOK, RebootOK, TamperOK
        DEF Next

LEMMA Invariant == Spec => []IInv
  BY InitOK, NextOK, PTL DEF Spec

\* edge-networks.ts and agent.ts: what the control plane holds for applied is not
\* newer than the request the boot unit replays, so a reboot does not lose it.
THEOREM EdgeRecordSurvivesReboot == Spec => []RecordedSurvivesReboot
<1>1. IInv => RecordedSurvivesReboot
  BY DEF IInv, RecordedSurvivesReboot, FreshOK
<1> QED BY <1>1, Invariant, PTL

-----------------------------------------------------------------------------

\* Every step is one of the promise's, or none.
LEMMA StepImplements == ASSUME IInv, [Next]_vars PROVE [Promise!Next]_Promise!vcVars
<1> USE DEF Promise!vcVars
<1>0. /\ row.applied \in installed \union {Nothing} /\ Promise!Nothing = Nothing
      /\ \A r \in writer.row \union {row} : r.applied \in installed \union {Nothing}
  BY BoxBefore DEF HistoryOK, Promise!Nothing, Nothing
<1>1. CASE UNCHANGED <<issued, installed, stateFile, row.applied>>
  BY <1>1
<1>2. CASE UNCHANGED <<issued, installed, stateFile>> /\ row'.applied \in installed \union {Nothing}
  BY <1>0, <1>2 DEF Promise!Next, Promise!Record
<1>3. ASSUME NEW a \in Applies, NEW clear \in BOOLEAN, Prepare(a, clear)
      PROVE  Promise!Next
  <2>1. IInv'
    BY <1>3, PrepareOK
  <2>2. issued' \subseteq [rev : Nat \ {0}, rules : Rulesets \union {EMPTY}]
    BY <2>1, Sizes DEF IInv, HistoryOK, Documents
  <2>3. issued \subseteq issued' /\ UNCHANGED <<installed, stateFile>>
    BY <1>3 DEF Prepare
  <2>4. row'.applied = row.applied
    BY <1>3 DEF Prepare, IInv, TypeOK, Rows
  <2> QED BY <2>2, <2>3, <2>4 DEF Promise!Next, Promise!Issue
<1>4. ASSUME AgentSaveState PROVE Promise!Next
  <2>1. stateFile' = NumberOf(agent) /\ agent.pc = "swapped" /\ Busy
        /\ installed' = installed \union {stateFile'} /\ UNCHANGED <<issued, row>>
    BY <1>4 DEF AgentSaveState, cpVars, NumberOf, Busy
  <2>2. stateFile' \in issued
    BY <2>1, BoxBefore DEF HistoryOK
  <2>3. stateFile'.rev > stateFile.rev \/ stateFile' = stateFile
    BY <2>1, BoxBefore DEF AgentOK, NumberOf
  <2> QED BY <2>1, <2>2, <2>3 DEF Promise!Next, Promise!Install
<1>5. ASSUME NEW a \in Applies, Finalize(a)
      PROVE  /\ UNCHANGED <<issued, installed, stateFile>>
             /\ row'.applied \in installed \union {Nothing}
  <2>1. IInv' /\ UNCHANGED <<issued, installed, stateFile>>
    BY <1>5, FinalizeOK DEF Finalize, boxVars
  <2> QED BY <2>1 DEF IInv, HistoryOK
<1>6. ASSUME NEW a \in Applies, FailApply(a) \/ AbandonApply(a)
      PROVE  UNCHANGED <<issued, installed, stateFile, row.applied>>
  BY <1>6 DEF FailApply, AbandonApply, Forget, IInv, TypeOK, Rows
<1>7. ASSUME EditRules PROVE UNCHANGED <<issued, installed, stateFile, row.applied>>
  BY <1>7 DEF EditRules, MarkPending, boxVars, IInv, TypeOK, Rows
<1>8. ASSUME SyncCapture \/ WriterLoad \/ SyncStore \/ PinHostKey
      PROVE  /\ UNCHANGED <<issued, installed, stateFile>>
             /\ row'.applied \in installed \union {Nothing}
  <2>1. IInv' /\ UNCHANGED <<issued, installed, stateFile>>
    BY <1>8, WritersOK DEF SyncCapture, WriterLoad, SyncStore, PinHostKey, Store, boxVars
  <2> QED BY <2>1 DEF IInv, HistoryOK
<1>9. ASSUME NEW q \in Requests, AgentTake(q)
      PROVE  UNCHANGED <<issued, installed, stateFile, row.applied>>
  BY <1>9 DEF AgentTake, AgentRefuse, AgentConfirm, AgentBuild, cpVars
<1>10. ASSUME AgentSwap \/ AgentSaveRules \/ AgentDone \/ AgentFail \/ AgentKilled \/ Reboot \/ Tamper
       PROVE  UNCHANGED <<issued, installed, stateFile, row.applied>>
  BY <1>10 DEF AgentSwap, AgentSaveRules, AgentDone, AgentFail, AgentKilled, Reboot, Tamper, cpVars
<1>11. CASE UNCHANGED vars
  BY <1>11 DEF vars
<1> QED BY <1>1, <1>2, <1>3, <1>4, <1>5, <1>6, <1>7, <1>8, <1>9, <1>10, <1>11
        DEF Next, AgentStep

\* Whatever is lost, late, killed, rebooted or written back: the box installs only
\* what was sent under its number and never goes back, and what is recorded was
\* installed.
THEOREM EdgeKeepsPromise == Spec => ImplementsVersionedConfig
<1>1. Init => Promise!Init
  BY DEF Init, Promise!Init, Promise!Nothing, Nothing
<1> QED BY <1>1, Invariant, StepImplements, PTL DEF Spec, ImplementsVersionedConfig, Promise!Spec

\* A step leaves the dispatchers at chains that are complete and, if they stay, at
\* the same, except for what others have done to them.
LEMMA StepMeetsWhole ==
  ASSUME IInv, [Next]_vars, disp' # 0
  PROVE  \/ chains'[disp'] \in Rulesets \union {EMPTY}
            /\ (disp' = disp => chains'[disp] = chains[disp])
         \/ chains'[disp'] = FOREIGN
<1>1. IInv'
  BY NextOK
<1>2. chains'[disp'] \in Rulesets \union {EMPTY, FOREIGN}
  <2>1. chains'[disp'] # NONE
    BY <1>1 DEF IInv, ChainsOK
  <2>2. disp' \in Revisions /\ chains' \in [Revisions -> Hashes \union {FOREIGN}]
    BY <1>1 DEF IInv, TypeOK
  <2> QED BY <2>1, <2>2 DEF Hashes
<1>3. ASSUME disp' = disp PROVE chains'[disp] = chains[disp] \/ chains'[disp] = FOREIGN
  <2>0. chains \in [Revisions -> Hashes \union {FOREIGN}] /\ disp \in Revisions
    BY BoxBefore
  <2>1. ASSUME NEW q \in Requests, AgentBuild(q) PROVE chains'[disp] = chains[disp]
    BY <2>0, <2>1 DEF AgentBuild
  <2>2. ASSUME AgentDone PROVE chains'[disp] = chains[disp]
    <3>1. disp = agent.rev
      BY <2>2, BoxBefore DEF AgentDone, ChainsOK
    <3> QED BY <2>0, <2>2, <3>1 DEF AgentDone
  <2>3. ASSUME Tamper PROVE chains'[disp] = chains[disp] \/ chains'[disp] = FOREIGN
    BY <2>0, <2>3 DEF Tamper
  <2>4. CASE UNCHANGED chains
    BY <2>4
  <2>5. ~Reboot
    BY <1>3 DEF Reboot
  <2>6. ASSUME NEW a \in Applies,
               (\E clear \in BOOLEAN : Prepare(a, clear)) \/ Finalize(a)
               \/ FailApply(a) \/ AbandonApply(a)
        PROVE  UNCHANGED chains
    BY <2>6 DEF Prepare, Finalize, FailApply, AbandonApply, Forget, boxVars
  <2>7. ASSUME EditRules \/ SyncCapture \/ WriterLoad \/ SyncStore \/ PinHostKey
        PROVE  UNCHANGED chains
    BY <2>7 DEF EditRules, SyncCapture, WriterLoad, SyncStore, PinHostKey, Store, boxVars
  <2>8. ASSUME NEW q \in Requests, AgentRefuse(q) \/ AgentConfirm(q) PROVE UNCHANGED chains
    BY <2>8 DEF AgentRefuse, AgentConfirm
  <2>9. ASSUME AgentSwap \/ AgentSaveState \/ AgentSaveRules \/ AgentFail \/ AgentKilled
        PROVE  UNCHANGED chains
    BY <2>9 DEF AgentSwap, AgentSaveState, AgentSaveRules, AgentFail, AgentKilled
  <2>10. CASE UNCHANGED vars
    BY <2>10 DEF vars
  <2> QED BY <2>1, <2>2, <2>3, <2>4, <2>5, <2>6, <2>7, <2>8, <2>9, <2>10
          DEF Next, AgentStep, AgentTake
<1> QED BY <1>2, <1>3

\* agent.ts: the chains traffic is led to are never rebuilt or removed by an agent.
THEOREM EdgeMeetsWholeGenerations == Spec => TrafficMeetsWholeGenerations
<1>1. IInv /\ [Next]_vars =>
        [disp' # 0 => \/ chains'[disp'] \in Rulesets \union {EMPTY}
                         /\ (disp' = disp => chains'[disp] = chains[disp])
                      \/ chains'[disp'] = FOREIGN]_vars
  BY StepMeetsWhole
<1> QED BY <1>1, Invariant, PTL DEF Spec, TrafficMeetsWholeGenerations
=============================================================================
