--------------------------- MODULE WorkflowProofs ---------------------------
(***************************************************************************)
(* Proofs about workflows: WorkflowRun, a run and its steps, for every set *)
(* of workflows and every limit on the steps run at once, with and without *)
(* faults; and ThreatTrigger, which starts runs, for any tickets, any size *)
(* of a batch and any number of failures and crashes.                      *)
(***************************************************************************)
EXTENDS WorkflowRun, ThreatTrigger, WellFoundedInduction, TLAPS

-----------------------------------------------------------------------------
(* WorkflowRun *)

Quiet(n) == phase[n] \in {"none", "over"}

\* Where executeWaves stands. Steps are under way in the current slice only, and
\* a step that waits for its turn is untouched.
Control ==
    /\ pc \in {"waves", "running"} => todo = {}
    /\ pc = "waves" => wave = {}
    /\ pc \in {"waves", "sorting", "returned"} => \A n \in Nodes : Quiet(n)
    /\ pc = "running" => \A n \in Nodes \ chunk : Quiet(n)
    /\ todo \cap wave = {}
    /\ \A n \in todo \cup wave : phase[n] = "none" /\ state[n] = "none"

\* What is known of a step by how far its runNode has come.
StepOK(n) ==
    /\ state[n] # "none" \/ phase[n] # "none" \/ n \in outputs => n \in started
    /\ n \in started =>
          state[n] # "none" \/ n \in todo \cup wave \/ phase[n] \in {"starting", "acting", "thrown"}
    /\ phase[n] = "none" => state[n] \in {"none", "SKIPPED"}
    /\ phase[n] \in {"starting", "acting"} => state[n] = "none"
    /\ phase[n] = "saving" => state[n] = "SUCCESS"
    /\ phase[n] = "failing" => state[n] = "FAILED"
    /\ phase[n] = "over" => state[n] \in {"SUCCESS", "FAILED"} /\ step[n] = state[n]
    /\ phase[n] = "thrown" => state[n] \in {"none", "FAILED"}
    /\ state[n] = "SKIPPED" /\ pc \in {"waves", "sorting", "running"} => step[n] = "SKIPPED"
    /\ state[n] = "FAILED" => failed

\* What leads to a step has settled for good.
Decided(n) == \A e \in Incoming(n) : Settled(e.from) /\ Quiet(e.from)

Reached(n) == n = active \/ \E e \in Incoming(n) : Followed(e)

\* A step that cannot resolve its template, as it reads one that has not started.
Blocked(n) == \E r \in wf.refs[n] : r \notin started

\* Why a step is where it is.
ReachOK(n) ==
    /\ n \in todo => Decided(n)
    /\ n \in wave => Decided(n) /\ Reached(n)
    /\ phase[n] \in {"starting", "acting"} => (Decided(n) /\ Reached(n)) \/ Blocked(n)
    /\ state[n] = "SUCCESS" => Decided(n) /\ Reached(n)
    /\ state[n] = "SKIPPED" /\ ~failed => Decided(n) /\ ~Reached(n)

FailureHasStep == failed => \E n \in Steps(wf) : state[n] = "FAILED"

RunOK ==
    run # "RUNNING" =>
        /\ pc \in {"returned", "threw", "dead"}
        /\ \A n \in Nodes : Quiet(n)
        /\ RunAgreesWithSteps
        /\ SuccessIsExact

IInv == /\ TypeOK
        /\ Control
        /\ \A n \in Nodes : StepOK(n) /\ ReachOK(n)
        /\ FailureHasStep
        /\ RunOK

-----------------------------------------------------------------------------
(* The graph *)

LEMMA LeastNatural ==
  ASSUME NEW T, T \subseteq Nat, T # {}
  PROVE  \E x \in T : \A y \in T : x <= y
  <1> DEFINE R == {p \in Nat \X Nat : p[1] < p[2]}
  <1>1. IsWellFoundedOn(R, Nat)
    BY NatLessThanWellFounded DEF OpToRel
  <1>2. \E x \in T : \A y \in T : <<y, x>> \notin R
    <2> HIDE DEF R
    <2>1. QED BY <1>1, WFMin
  <1>3. PICK x \in T : \A y \in T : <<y, x>> \notin R
    BY <1>2
  <1>4. ASSUME NEW y \in T PROVE x <= y
    <2>1. x \in Nat /\ y \in Nat /\ ~(y < x)
      BY <1>3, <1>4
    <2>2. QED BY <2>1
  <1>5. QED BY <1>4

LEMMA GraphFacts ==
  ASSUME NEW w \in Workflows
  PROVE  /\ Steps(w) \subseteq Nodes
         /\ w.triggers \subseteq Steps(w)
         /\ \A n \in Nodes : w.refs[n] \subseteq Nodes
         /\ \A e \in w.edges : e.from \in Steps(w) /\ e.to \in Steps(w) /\ e.to \notin w.triggers
  <1>1. Valid(w) /\ w \in Workflow
    BY WorkflowAssumption DEF Valid
  <1>2. w.order \in Seq(Nodes) /\ w.refs \in [Nodes -> SUBSET Nodes]
    BY <1>1 DEF Workflow
  <1>3. Steps(w) \subseteq Nodes
    BY <1>2 DEF Steps
  <1>4. QED BY <1>1, <1>2, <1>3 DEF Valid, Steps

\* The first of some steps is one of them, and what leads to it is not.
LEMMA FirstFacts ==
  ASSUME NEW w \in Workflows, NEW S \in SUBSET Steps(w), S # {}
  PROVE  /\ FirstOf(w, S) \in S
         /\ \A e \in w.edges : e.to = FirstOf(w, S) => e.from \notin S
  <1> DEFINE F(i) == w.order[i] \in S /\ \A j \in 1..(i - 1) : w.order[j] \notin S
             T == {i \in DOMAIN w.order : w.order[i] \in S}
  <1>1. Valid(w) /\ w.order \in Seq(Nodes)
    BY WorkflowAssumption DEF Valid, Workflow
  <1>2. T \subseteq Nat /\ T # {} /\ DOMAIN w.order = 1..Len(w.order) /\ Len(w.order) \in Nat
    BY <1>1 DEF Steps
  <1>3. PICK x \in T : \A y \in T : x <= y
    BY <1>2, LeastNatural
  <1>4. x \in DOMAIN w.order /\ F(x)
    BY <1>2, <1>3
  <1>5. PICK i \in DOMAIN w.order : F(i) /\ FirstOf(w, S) = w.order[i]
    <2>1. \E i \in DOMAIN w.order : F(i)
      BY <1>4
    <2>2. LET c == CHOOSE i \in DOMAIN w.order : F(i) IN c \in DOMAIN w.order /\ F(c)
      BY <2>1
    <2>3. QED BY <2>2 DEF FirstOf
  <1>6. ASSUME NEW e \in w.edges, e.to = FirstOf(w, S) PROVE e.from \notin S
    <2>1. PICK j, k \in DOMAIN w.order : j < k /\ w.order[j] = e.from /\ w.order[k] = e.to
      BY <1>1, <1>6 DEF Valid
    <2>2. k = i
      BY <1>1, <1>5, <1>6, <2>1 DEF Valid
    <2>3. j \in 1..(i - 1)
      BY <1>2, <2>1, <2>2
    <2>4. QED BY <1>5, <2>1, <2>3
  <1>7. QED BY <1>5, <1>6

-----------------------------------------------------------------------------
(* What has been decided stays decided *)

Stable ==
    /\ UNCHANGED <<wf, active>>
    /\ \A p \in Nodes : Settled(p) /\ Quiet(p) =>
          state'[p] = state[p] /\ phase'[p] = phase[p] /\ result'[p] = result[p]

LEMMA DecidedStays ==
  ASSUME NEW n \in Nodes, TypeOK, Stable, Decided(n)
  PROVE  Decided(n)' /\ (Reached(n)' <=> Reached(n))
  <1>1. Incoming(n)' = Incoming(n) /\ \A e \in Incoming(n) : e.from \in Nodes
    BY GraphFacts DEF Incoming, Stable, TypeOK
  <1>2. ASSUME NEW e \in Incoming(n)
        PROVE  /\ state'[e.from] = state[e.from] /\ phase'[e.from] = phase[e.from]
               /\ result'[e.from] = result[e.from]
    BY <1>1, <1>2 DEF Decided, Stable
  <1>3. Decided(n)'
    BY <1>1, <1>2 DEF Decided, Settled, Quiet
  <1>4. \A e \in Incoming(n) : Followed(e)' <=> Followed(e)
    BY <1>1, <1>2 DEF Followed
  <1>5. QED BY <1>1, <1>3, <1>4 DEF Reached, Stable

\* The run's row is not final while a step is on its way or executeWaves is.
LEMMA RunIsOpen ==
  ASSUME IInv, pc \in {"waves", "sorting", "running"} \/ \E n \in Nodes : ~Quiet(n)
  PROVE  run = "RUNNING"
  BY DEF IInv, RunOK

LEMMA OnlyStepsStart ==
  ASSUME IInv, NEW n \in Nodes
  PROVE  /\ outputs \subseteq Nodes /\ started \subseteq Nodes
         /\ n \notin started => phase[n] = "none" /\ state[n] = "none" /\ n \notin outputs
  BY GraphFacts DEF IInv, TypeOK, StepOK

-----------------------------------------------------------------------------
(* executeWaves *)

LEMMA FormWaveStep ==
  ASSUME IInv, FormWave
  PROVE  IInv'
  <1> DEFINE ready == {n \in Steps(wf) : Ready(n)}
  <1>1. /\ pc = "waves" /\ pc' = "sorting" /\ todo' = ready /\ started' = started \cup ready
        /\ UNCHANGED <<wf, active, wave, chunk, phase, state, result, outputs, failed, step, run>>
    BY DEF FormWave, memory, rows
  <1>2. TypeOK /\ Control /\ RunOK /\ FailureHasStep /\ todo = {} /\ wave = {}
    BY <1>1 DEF IInv, Control
  <1>3. ready \subseteq Steps(wf) /\ ready \subseteq Nodes
    BY <1>2, GraphFacts DEF TypeOK
  <1>4. \A n \in ready : phase[n] = "none" /\ state[n] = "none"
    BY <1>3, OnlyStepsStart DEF Ready
  <1>5. TypeOK'
    BY <1>1, <1>2, <1>3 DEF TypeOK, Steps
  <1>6. Control'
    BY <1>1, <1>2, <1>4 DEF Control, Quiet
  <1>7. Stable
    BY <1>1 DEF Stable
  <1>8. ASSUME NEW n \in Nodes PROVE StepOK(n)'
    BY <1>1, <1>2, <1>4 DEF IInv, StepOK
  <1>9. ASSUME NEW n \in ready PROVE Decided(n)'
    <2>1. Decided(n)
      BY <1>1, <1>2, <1>3, GraphFacts DEF Decided, Ready, Control, Incoming, TypeOK
    <2>2. QED BY <1>2, <1>3, <1>7, <2>1, DecidedStays
  <1>10. ASSUME NEW n \in Nodes PROVE ReachOK(n)'
    <2>1. ReachOK(n) /\ Quiet(n)
      BY <1>1, <1>2 DEF IInv, Control
    <2>2. QED BY <1>1, <1>2, <1>7, <1>9, <2>1, DecidedStays DEF ReachOK, Quiet
  <1>11. FailureHasStep' /\ RunOK'
    BY <1>1, <1>2, RunIsOpen DEF FailureHasStep, RunOK, Steps
  <1>12. QED BY <1>5, <1>6, <1>8, <1>10, <1>11 DEF IInv

LEMMA UnblockStep ==
  ASSUME IInv, Unblock
  PROVE  IInv'
  <1> DEFINE rest == Steps(wf) \ started
  <1>1. TypeOK /\ Control /\ RunOK /\ FailureHasStep /\ todo = {} /\ wave = {} /\ wf \in Workflows
    BY DEF IInv, Control, TypeOK, Unblock
  <1>2. started \subseteq Steps(wf) /\ rest # {} /\ Steps(wf) \subseteq Nodes
    BY <1>1, GraphFacts DEF TypeOK, Unblock
  <1>3. PICK next \in rest :
          /\ next = FirstOf(wf, rest)
          /\ next \in Nodes
          /\ \A e \in Incoming(next) : e.from \in started /\ e.from \in Nodes
    BY <1>1, <1>2, FirstFacts, GraphFacts DEF Incoming
  <1>4. /\ pc = "waves" /\ pc' = "running" /\ started' = started \cup {next} /\ chunk' = {next}
        /\ phase' = [phase EXCEPT ![next] = "starting"]
        /\ \A n \in Steps(wf) : ~Ready(n)
        /\ UNCHANGED <<wf, active, todo, wave, state, result, outputs, failed, step, run>>
    BY <1>3 DEF Unblock, rows
  <1>5. phase[next] = "none" /\ state[next] = "none" /\ next \notin outputs
    BY <1>3, OnlyStepsStart
  <1>6. \A n \in started : Settled(n)
    BY <1>4, <1>1, <1>2 DEF IInv, StepOK, Control, Settled, Quiet
  <1>7. Blocked(next)'
    <2>1. ~Ready(next)
      BY <1>4, <1>3
    <2>2. PICK r \in wf.refs[next] \ {next} : r \in Steps(wf) /\ ~Settled(r)
      BY <1>3, <1>6, <2>1 DEF Ready
    <2>3. r \notin started'
      BY <1>4, <1>6, <2>2
    <2>4. QED BY <1>4, <2>2, <2>3 DEF Blocked
  <1>8. TypeOK'
    BY <1>4, <1>1, <1>2, <1>3 DEF TypeOK, Steps
  <1>9. Control'
    BY <1>4, <1>1, <1>3 DEF Control, Quiet, TypeOK
  <1>10. Stable
    BY <1>4, <1>1, <1>3, <1>5 DEF Stable, Settled, TypeOK
  <1>11. ASSUME NEW n \in Nodes PROVE StepOK(n)'
    BY <1>4, <1>1, <1>3, <1>5 DEF IInv, StepOK, TypeOK
  <1>12. ASSUME NEW n \in Nodes PROVE ReachOK(n)'
    <2>1. ReachOK(n) /\ Quiet(n)
      BY <1>4, <1>1 DEF IInv, Control
    <2>2. n # next => phase'[n] = phase[n]
      BY <1>4, <1>1 DEF TypeOK
    <2>3. QED
      BY <1>4, <1>1, <1>5, <1>7, <1>10, <2>1, <2>2, DecidedStays DEF ReachOK, Quiet
  <1>13. FailureHasStep' /\ RunOK'
    BY <1>4, <1>1, RunIsOpen DEF FailureHasStep, RunOK, Steps
  <1>14. QED BY <1>8, <1>9, <1>11, <1>12, <1>13 DEF IInv

LEMMA SortStep ==
  ASSUME IInv, NEW m \in todo, Sort(m)
  PROVE  IInv'
  <1>1. /\ pc = "sorting" /\ todo' = todo \ {m}
        /\ UNCHANGED <<wf, active, started, chunk, phase, result, outputs, failed, run>>
        /\ \A n \in Nodes : Quiet(n)
        /\ TypeOK /\ Control /\ RunOK /\ FailureHasStep /\ wf \in Workflows
    BY DEF Sort, IInv, Control, TypeOK
  <1>2. m \in Nodes /\ m \in Steps(wf) /\ Decided(m) /\ state[m] = "none" /\ phase[m] = "none"
    <2>1. m \in Steps(wf) /\ m \in Nodes
      BY <1>1, GraphFacts DEF TypeOK
    <2>2. QED BY <2>1 DEF IInv, Control, ReachOK
  <1>3. CASE Skipped(m)
    <2>1. /\ state' = [state EXCEPT ![m] = "SKIPPED"] /\ wave' = wave
          /\ \/ pc' = "sorting" /\ step' = [step EXCEPT ![m] = "SKIPPED"]
             \/ pc' = "threw" /\ step' \in {step, [step EXCEPT ![m] = "SKIPPED"]}
      BY <1>1, <1>2, <1>3 DEF Sort, Updates, TypeOK
    <2>2. TypeOK'
      BY <1>1, <1>2, <2>1 DEF TypeOK, Steps
    <2>3. Control'
      BY <1>1, <1>2, <2>1 DEF Control, Quiet, TypeOK
    <2>4. Stable
      BY <1>1, <1>2, <2>1 DEF Stable, Settled, TypeOK
    <2>5. ASSUME NEW n \in Nodes PROVE StepOK(n)'
      <3>1. StepOK(n) /\ Quiet(n)
        BY <1>1 DEF IInv
      <3>2. CASE n = m
        BY <1>1, <1>2, <2>1, <3>1, <3>2 DEF StepOK, TypeOK, Quiet
      <3>3. CASE n # m
        <4>1. state'[n] = state[n] /\ step'[n] = step[n]
          BY <1>1, <2>1, <3>3 DEF TypeOK
        <4>2. QED BY <1>1, <2>1, <3>1, <3>3, <4>1 DEF StepOK, Quiet
      <3>4. QED BY <3>2, <3>3
    <2>6. ~failed => ~Reached(m)
      <3>1. ASSUME ~failed, m = active PROVE FALSE
        <4>1. m \in wf.triggers /\ Incoming(m) = {}
          BY <1>1, <3>1, GraphFacts DEF TypeOK, Incoming
        <4>2. QED BY <1>3, <3>1, <4>1 DEF Skipped, ShouldRun
      <3>2. ASSUME ~failed, NEW e \in Incoming(m), Followed(e) PROVE FALSE
        <4>1. m \notin wf.triggers
          BY <1>1, <3>2, GraphFacts DEF Incoming
        <4>2. QED BY <1>3, <3>2, <4>1 DEF Skipped, ShouldRun
      <3>3. QED BY <3>1, <3>2 DEF Reached
    <2>7. ASSUME NEW n \in Nodes PROVE ReachOK(n)'
      <3>1. ReachOK(n) /\ (n # m => state'[n] = state[n]) /\ (n = m => state'[n] = "SKIPPED")
        BY <1>1, <1>2, <2>1 DEF IInv, TypeOK
      <3>2. Decided(n) => Decided(n)' /\ (Reached(n)' <=> Reached(n))
        BY <1>1, <2>4, DecidedStays
      <3>3. QED
        BY <1>1, <1>2, <2>1, <2>6, <3>1, <3>2 DEF ReachOK, Quiet
    <2>8. FailureHasStep' /\ RunOK'
      <3>1. run = "RUNNING"
        BY <1>1, RunIsOpen
      <3>2. FailureHasStep'
        <4>1. ASSUME NEW n \in Steps(wf), state[n] = "FAILED" PROVE state'[n] = "FAILED"
          BY <1>1, <1>2, <2>1, <4>1 DEF TypeOK
        <4>2. QED BY <1>1, <4>1 DEF FailureHasStep, Steps
      <3>3. QED BY <1>1, <3>1, <3>2 DEF RunOK
    <2>9. QED BY <2>2, <2>3, <2>5, <2>7, <2>8 DEF IInv
  <1>4. CASE ~Skipped(m)
    <2>1. wave' = wave \cup {m} /\ UNCHANGED <<pc, state, step>>
      BY <1>4 DEF Sort
    <2>2. TypeOK'
      BY <1>1, <2>1 DEF TypeOK, Steps
    <2>3. Control'
      BY <1>1, <1>2, <2>1 DEF Control, Quiet
    <2>4. Stable
      BY <1>1, <2>1 DEF Stable
    <2>5. ASSUME NEW n \in Nodes PROVE StepOK(n)'
      BY <1>1, <2>1 DEF IInv, StepOK
    <2>6. Reached(m)
      <3>1. CASE Incoming(m) = {}
        BY <1>4, <3>1 DEF Skipped, ShouldRun, Reached
      <3>2. CASE Incoming(m) # {}
        BY <1>4, <3>2 DEF Skipped, ShouldRun, Reached
      <3>3. QED BY <3>1, <3>2
    <2>7. ASSUME NEW n \in Nodes PROVE ReachOK(n)'
      <3>1. ReachOK(n)
        BY DEF IInv
      <3>2. Decided(n) => Decided(n)' /\ (Reached(n)' <=> Reached(n))
        BY <1>1, <2>4, DecidedStays
      <3>3. Quiet(n)
        BY <1>1
      <3>4. QED BY <1>1, <1>2, <2>1, <2>6, <3>1, <3>2, <3>3 DEF ReachOK, Quiet
    <2>8. FailureHasStep' /\ RunOK'
      BY <1>1, <2>1, RunIsOpen DEF FailureHasStep, RunOK, Steps
    <2>9. QED BY <2>2, <2>3, <2>5, <2>7, <2>8 DEF IInv
  <1>5. QED BY <1>3, <1>4

\* The slice that is over, if there is one, is quiet.
LEMMA SliceOver ==
  ASSUME IInv, \/ pc = "sorting" /\ todo = {}
               \/ pc = "running" /\ \A n \in chunk : phase[n] = "over"
  PROVE  todo = {} /\ (\A n \in Nodes : Quiet(n)) /\ run = "RUNNING"
  BY RunIsOpen DEF IInv, Control, Quiet

LEMMA StartChunkStep ==
  ASSUME IInv, StartChunk
  PROVE  IInv'
  <1>1. /\ pc' = "running" /\ wave' = wave \ chunk' /\ chunk' \subseteq wave
        /\ phase' = [n \in Nodes |-> IF n \in chunk' THEN "starting" ELSE phase[n]]
        /\ UNCHANGED <<wf, active, started, todo, state, result, outputs, failed, step, run>>
    BY DEF StartChunk, Chunks, rows
  <1>2. todo = {} /\ (\A n \in Nodes : Quiet(n)) /\ run = "RUNNING"
    BY SliceOver DEF StartChunk
  <1>3. TypeOK /\ Control /\ FailureHasStep
    BY DEF IInv
  <1>4. chunk' \subseteq wave /\ wave \subseteq Nodes
    BY <1>1, <1>3, GraphFacts DEF TypeOK
  <1>5. TypeOK'
    <2>1. phase' \in [Nodes -> {"none", "starting", "acting", "saving", "failing", "over", "thrown"}]
      BY <1>1, <1>3 DEF TypeOK
    <2>2. QED BY <1>1, <1>3, <2>1 DEF TypeOK, Steps
  <1>6. Control'
    BY <1>1, <1>2, <1>3, <1>4 DEF Control, Quiet
  <1>7. Stable
    BY <1>1, <1>2, <1>3, <1>4 DEF Stable, Settled, Control
  <1>8. ASSUME NEW n \in Nodes PROVE StepOK(n)'
    <2>1. StepOK(n) /\ phase'[n] = (IF n \in chunk' THEN "starting" ELSE phase[n])
      BY <1>1 DEF IInv
    <2>2. n \in chunk' => n \in started /\ phase[n] = "none" /\ state[n] = "none"
      BY <1>3, <1>4 DEF Control, TypeOK
    <2>3. pc \in {"sorting", "running"}
      BY DEF StartChunk
    <2>4. QED BY <1>1, <2>1, <2>2, <2>3 DEF StepOK
  <1>9. ASSUME NEW n \in Nodes PROVE ReachOK(n)'
    <2>1. ReachOK(n) /\ Quiet(n) /\ phase'[n] = (IF n \in chunk' THEN "starting" ELSE phase[n])
      BY <1>1, <1>2 DEF IInv
    <2>2. Decided(n) => Decided(n)' /\ (Reached(n)' <=> Reached(n))
      BY <1>3, <1>7, DecidedStays
    <2>3. QED BY <1>1, <1>2, <1>4, <2>1, <2>2 DEF ReachOK, Quiet
  <1>10. FailureHasStep' /\ RunOK'
    BY <1>1, <1>2, <1>3 DEF FailureHasStep, RunOK, Steps
  <1>11. QED BY <1>5, <1>6, <1>8, <1>9, <1>10 DEF IInv

\* A step that leaves every process where it is keeps what is known of it.
LEMMA NothingMoves ==
  ASSUME IInv, UNCHANGED <<wf, active, started, todo, wave, memory, step>>,
         pc' \in {"waves", "sorting", "running"} => pc \in {"waves", "sorting", "running"}
  PROVE  /\ \A n \in Nodes : StepOK(n)' /\ ReachOK(n)'
         /\ FailureHasStep'
  <1>1. Stable /\ TypeOK
    BY DEF Stable, memory, IInv
  <1>2. ASSUME NEW n \in Nodes PROVE StepOK(n)'
    BY DEF IInv, StepOK, memory
  <1>3. ASSUME NEW n \in Nodes PROVE ReachOK(n)'
    <2>1. ReachOK(n) /\ (Decided(n) => Decided(n)' /\ (Reached(n)' <=> Reached(n)))
      BY <1>1, DecidedStays DEF IInv
    <2>2. Blocked(n) => Blocked(n)'
      BY DEF Blocked
    <2>3. QED BY <2>1, <2>2 DEF ReachOK, memory
  <1>4. FailureHasStep'
    BY DEF IInv, FailureHasStep, Steps, memory
  <1>5. QED BY <1>2, <1>3, <1>4

LEMMA EndWaveStep ==
  ASSUME IInv, EndWave
  PROVE  IInv'
  <1>1. /\ pc' = "waves" /\ chunk' = {} /\ wave = {}
        /\ UNCHANGED <<wf, active, started, todo, wave, memory, rows>>
        /\ UNCHANGED <<phase, state, result, outputs, failed, step, run>>
        /\ pc \in {"sorting", "running"}
    BY DEF EndWave, memory, rows
  <1>2. todo = {} /\ (\A n \in Nodes : Quiet(n)) /\ run = "RUNNING"
    BY SliceOver DEF EndWave
  <1>3. TypeOK' /\ Control'
    BY <1>1, <1>2 DEF IInv, TypeOK, Control, Quiet, Steps
  <1>4. (\A n \in Nodes : StepOK(n)' /\ ReachOK(n)') /\ FailureHasStep'
    BY <1>1, NothingMoves
  <1>5. RunOK'
    BY <1>1, <1>2 DEF RunOK
  <1>6. QED BY <1>3, <1>4, <1>5 DEF IInv

LEMMA ThrowStep ==
  ASSUME IInv, Throw
  PROVE  IInv'
  <1>1. /\ pc = "running" /\ pc' = "threw"
        /\ UNCHANGED <<wf, active, started, todo, wave, chunk, memory, rows>>
        /\ UNCHANGED <<phase, state, result, outputs, failed, step, run>>
    BY DEF Throw, memory, rows
  <1>2. run' = "RUNNING"
    BY <1>1, RunIsOpen
  <1>3. TypeOK' /\ Control'
    BY <1>1 DEF IInv, TypeOK, Control, Quiet, Steps
  <1>4. (\A n \in Nodes : StepOK(n)' /\ ReachOK(n)') /\ FailureHasStep'
    BY <1>1, NothingMoves
  <1>5. QED BY <1>2, <1>3, <1>4 DEF IInv, RunOK

\* When no step is left, every step's row says what executeWorkflow knows of it.
LEMMA AllSettled ==
  ASSUME IInv, pc = "waves", started = Steps(wf), NEW n \in Steps(wf)
  PROVE  /\ n \in Nodes
         /\ state[n] \in {"SUCCESS", "FAILED", "SKIPPED"} /\ step[n] = state[n]
  <1>1. n \in Nodes
    BY GraphFacts DEF IInv, TypeOK
  <1>2. StepOK(n) /\ Quiet(n) /\ todo = {} /\ wave = {}
    BY <1>1 DEF IInv, Control
  <1>3. QED BY <1>1, <1>2 DEF StepOK, Quiet

LEMMA FinishStep ==
  ASSUME IInv, Finish
  PROVE  IInv'
  <1>1. /\ pc = "waves" /\ started = Steps(wf)
        /\ UNCHANGED <<wf, active, started, todo, wave, chunk, memory, step>>
        /\ UNCHANGED <<phase, state, result, outputs, failed>>
        /\ pc' \in {"returned", "threw"}
        /\ run' \in {run, IF failed THEN "FAILED" ELSE "SUCCESS"}
    BY DEF Finish, memory
  <1>2. run = "RUNNING" /\ (\A n \in Nodes : Quiet(n)) /\ TypeOK /\ Control
    BY <1>1, RunIsOpen DEF IInv, Control
  <1>3. TypeOK' /\ Control'
    BY <1>1, <1>2 DEF TypeOK, Control, Quiet, Steps
  <1>4. (\A n \in Nodes : StepOK(n)' /\ ReachOK(n)') /\ FailureHasStep'
    BY <1>1, NothingMoves
  <1>5. run' # "RUNNING" => RunAgreesWithSteps'
    <2>1. \A n \in Steps(wf) : step[n] \in {"SUCCESS", "FAILED", "SKIPPED"} /\ step[n] = state[n]
      BY <1>1, AllSettled
    <2>2. failed <=> \E n \in Steps(wf) : state[n] = "FAILED"
      <3>1. ASSUME NEW n \in Steps(wf), state[n] = "FAILED" PROVE failed
        BY <1>1, <3>1, AllSettled DEF IInv, StepOK
      <3>2. QED BY <3>1 DEF IInv, FailureHasStep
    <2>3. run' # "RUNNING" => run' = IF failed THEN "FAILED" ELSE "SUCCESS"
      BY <1>1, <1>2
    <2>4. QED BY <1>1, <2>1, <2>2, <2>3 DEF RunAgreesWithSteps, Steps
  <1>6. run' = "SUCCESS" => SuccessIsExact'
    <2> SUFFICES ASSUME run' = "SUCCESS", NEW n \in Steps(wf)
                 PROVE  step[n] = "SUCCESS" <=>
                          \/ n = active
                          \/ \E e \in Incoming(n) : step[e.from] = "SUCCESS"
                                                    /\ e.branch \in {"none", result[e.from]}
      BY <1>1 DEF SuccessIsExact, Incoming, Steps
    <2>1. ~failed /\ n \in Nodes
      BY <1>1, <1>2, AllSettled
    <2>2. state[n] # "FAILED" /\ state[n] \in {"SUCCESS", "FAILED", "SKIPPED"} /\ step[n] = state[n]
      BY <1>1, <2>1, AllSettled DEF IInv, StepOK
    <2>3. step[n] = "SUCCESS" <=> Reached(n)
      BY <2>1, <2>2 DEF IInv, ReachOK
    <2>4. \A e \in Incoming(n) : step[e.from] = state[e.from]
      BY <1>1, <1>2, AllSettled, GraphFacts DEF Incoming, TypeOK
    <2>5. QED BY <2>3, <2>4 DEF Reached, Followed
  <1>7. RunOK'
    BY <1>1, <1>2, <1>5, <1>6 DEF RunOK, SuccessIsExact, Quiet
  <1>8. QED BY <1>3, <1>4, <1>7 DEF IInv

LEMMA DieStep ==
  ASSUME IInv, Die
  PROVE  IInv'
  <1>1. /\ pc' = "dead"
        /\ UNCHANGED <<wf, active, started, todo, wave, chunk, memory, rows>>
        /\ UNCHANGED <<phase, state, result, outputs, failed, step, run>>
    BY DEF Die, memory, rows
  <1>2. TypeOK' /\ Control'
    BY <1>1 DEF IInv, TypeOK, Control, Quiet, Steps
  <1>3. (\A n \in Nodes : StepOK(n)' /\ ReachOK(n)') /\ FailureHasStep'
    BY <1>1, NothingMoves
  <1>4. RunOK'
    BY <1>1 DEF IInv, RunOK, Quiet, RunAgreesWithSteps, SuccessIsExact, Incoming, Steps
  <1>5. QED BY <1>2, <1>3, <1>4 DEF IInv

-----------------------------------------------------------------------------
(* runNode *)

\* What any step of runNode leaves alone; the rest of it is about m.
Course(m) ==
    /\ UNCHANGED <<wf, active, pc, started, todo, wave, chunk, run>>
    /\ phase'  = [phase  EXCEPT ![m] = phase'[m]]
    /\ state'  = [state  EXCEPT ![m] = state'[m]]
    /\ result' = [result EXCEPT ![m] = result'[m]]
    /\ step'   = [step   EXCEPT ![m] = step'[m]]

\* The step under way is one of the run's, has not been settled for good, and the
\* row of the run is open; nothing is known of the others that its course changes.
LEMMA CourseFacts ==
  ASSUME IInv, NEW m \in Nodes, ~Quiet(m), Course(m)
  PROVE  /\ Stable
         /\ run' = "RUNNING"
         /\ m \in started /\ m \notin todo \cup wave
         /\ pc \notin {"waves", "sorting", "returned"}
         /\ pc = "running" => m \in chunk
         /\ \A n \in Nodes \ {m} : /\ phase'[n] = phase[n] /\ state'[n] = state[n]
                                   /\ result'[n] = result[n] /\ step'[n] = step[n]
  <1>1. TypeOK /\ Control /\ StepOK(m)
    BY DEF IInv
  <1>2. \A n \in Nodes \ {m} : /\ phase'[n] = phase[n] /\ state'[n] = state[n]
                               /\ result'[n] = result[n] /\ step'[n] = step[n]
    BY <1>1 DEF Course, TypeOK
  <1>3. Stable
    BY <1>2 DEF Stable, Course
  <1>4. run' = "RUNNING"
    BY RunIsOpen DEF Course
  <1>5. m \in started /\ m \notin todo \cup wave
    BY <1>1 DEF StepOK, Control, Quiet
  <1>6. pc \notin {"waves", "sorting", "returned"} /\ (pc = "running" => m \in chunk)
    BY <1>1 DEF Control
  <1>7. QED BY <1>2, <1>3, <1>4, <1>5, <1>6

\* So what has to be shown of a step's course is what becomes of that step.
LEMMA CourseStep ==
  ASSUME IInv, NEW m \in Nodes, ~Quiet(m), Course(m),
         TypeOK', StepOK(m)', FailureHasStep',
         failed => failed',
         outputs' \subseteq outputs \cup {m},
         outputs \subseteq outputs',
         phase'[m] \in {"starting", "acting"} => phase[m] \in {"starting", "acting"},
         state'[m] = "SUCCESS" => Decided(m) /\ Reached(m),
         state'[m] # "SKIPPED"
  PROVE  IInv'
  <1>1. /\ Stable /\ run' = "RUNNING" /\ m \in started /\ m \notin todo \cup wave
        /\ pc \notin {"waves", "sorting", "returned"}
        /\ pc = "running" => m \in chunk
    BY CourseFacts
  <1>2. \A n \in Nodes \ {m} : /\ phase'[n] = phase[n] /\ state'[n] = state[n]
                               /\ result'[n] = result[n] /\ step'[n] = step[n]
    BY CourseFacts
  <1>3. UNCHANGED <<wf, active, pc, started, todo, wave, chunk, run>>
    BY DEF Course
  <1>4. Control'
    <2>1. Control
      BY DEF IInv
    <2>2. \A n \in todo \cup wave : n \in Nodes /\ n # m
      BY <1>1, GraphFacts DEF IInv, TypeOK
    <2>3. QED BY <1>1, <1>2, <1>3, <2>1, <2>2 DEF Control, Quiet
  <1>5. ASSUME NEW n \in Nodes PROVE StepOK(n)'
    <2>1. CASE n = m
      BY <2>1
    <2>2. CASE n # m
      <3>1. StepOK(n) /\ (n \in outputs' <=> n \in outputs)
        BY <2>2 DEF IInv
      <3>2. QED BY <1>2, <1>3, <2>2, <3>1 DEF StepOK
    <2>3. QED BY <2>1, <2>2
  <1>6. ASSUME NEW n \in Nodes PROVE ReachOK(n)'
    <2>1. ReachOK(n) /\ (Decided(n) => Decided(n)' /\ (Reached(n)' <=> Reached(n)))
      BY <1>1, DecidedStays DEF IInv
    <2>2. Blocked(n) => Blocked(n)'
      BY <1>3 DEF Blocked
    <2>3. CASE n = m
      BY <1>1, <1>3, <2>1, <2>2, <2>3 DEF ReachOK
    <2>4. CASE n # m
      <3>1. phase'[n] = phase[n] /\ state'[n] = state[n]
        BY <1>2, <2>4
      <3>2. QED BY <1>3, <2>1, <2>2, <3>1 DEF ReachOK
    <2>5. QED BY <2>3, <2>4
  <1>7. QED BY <1>1, <1>4, <1>5, <1>6 DEF IInv, RunOK

\* A row update is one of the step's own row, whether it is applied or not.
LEMMA UpdatesFacts ==
  ASSUME TypeOK, NEW m \in Nodes, NEW s \in {"RUNNING", "SUCCESS", "FAILED"}, NEW ok \in BOOLEAN,
         Updates(m, s, ok)
  PROVE  /\ step' = [step EXCEPT ![m] = step'[m]]
         /\ step' \in [Nodes -> {"PENDING", "RUNNING", "SUCCESS", "FAILED", "SKIPPED"}]
         /\ ok => step'[m] = s
  <1>1. step' = step \/ step' = [step EXCEPT ![m] = s]
    BY DEF Updates
  <1>2. ok => step' = [step EXCEPT ![m] = s]
    BY DEF Updates
  <1>3. QED BY <1>1, <1>2 DEF TypeOK

LEMMA FailureStays ==
  ASSUME IInv, NEW m \in Nodes, Course(m), failed' => failed,
         state[m] = "FAILED" => state'[m] = "FAILED"
  PROVE  FailureHasStep'
  <1>1. ASSUME NEW n \in Steps(wf), state[n] = "FAILED" PROVE state'[n] = "FAILED"
    <2>1. n \in Nodes
      BY GraphFacts DEF IInv, TypeOK
    <2>2. QED BY <1>1, <2>1 DEF Course, IInv, TypeOK
  <1>2. QED BY <1>1 DEF FailureHasStep, IInv, Course, Steps

LEMMA MarkRunningStep ==
  ASSUME IInv, NEW m \in Nodes, MarkRunning(m)
  PROVE  IInv'
  <1>1. TypeOK /\ StepOK(m)
    BY DEF IInv
  <1>2. PICK ok \in BOOLEAN : Updates(m, "RUNNING", ok) /\ Go(m, IF ok THEN "acting" ELSE "thrown")
    BY DEF MarkRunning
  <1>3. /\ phase[m] = "starting"
        /\ phase' = [phase EXCEPT ![m] = IF ok THEN "acting" ELSE "thrown"]
        /\ UNCHANGED <<wf, active, pc, started, todo, wave, chunk, state, result, outputs, failed, run>>
    BY <1>2 DEF MarkRunning, At, Go, waves
  <1>4. /\ step' = [step EXCEPT ![m] = step'[m]]
        /\ step' \in [Nodes -> {"PENDING", "RUNNING", "SUCCESS", "FAILED", "SKIPPED"}]
    BY <1>1, <1>2, UpdatesFacts
  <1>5. Course(m) /\ phase'[m] \in {"acting", "thrown"}
    BY <1>1, <1>3, <1>4 DEF Course, TypeOK
  <1>6. TypeOK'
    BY <1>1, <1>3, <1>4 DEF TypeOK, Steps
  <1>7. StepOK(m)'
    BY <1>1, <1>3, <1>5 DEF StepOK
  <1>8. FailureHasStep'
    BY <1>3, <1>5, FailureStays
  <1>9. QED BY <1>1, <1>3, <1>5, <1>6, <1>7, <1>8, CourseStep DEF StepOK, Quiet

LEMMA SucceedStep ==
  ASSUME IInv, NEW m \in Nodes, Succeed(m)
  PROVE  IInv'
  <1>1. TypeOK /\ StepOK(m) /\ ReachOK(m)
    BY DEF IInv
  <1>2. /\ phase[m] = "acting" /\ Resolves(m)
        /\ phase' = [phase EXCEPT ![m] = "saving"]
        /\ state' = [state EXCEPT ![m] = "SUCCESS"]
        /\ outputs' = outputs \cup {m}
        /\ UNCHANGED <<wf, active, pc, started, todo, wave, chunk, failed, step, run>>
    BY DEF Succeed, At, Go, waves, rows
  <1>3. PICK b \in Branch : result' = [result EXCEPT ![m] = b]
    BY DEF Succeed, Branch
  <1>4. Course(m) /\ phase'[m] = "saving" /\ state'[m] = "SUCCESS"
    BY <1>1, <1>2, <1>3 DEF Course, TypeOK
  <1>5. TypeOK'
    <2>1. m \in started
      BY <1>1, <1>2 DEF StepOK
    <2>2. result' \in [Nodes -> Branch]
      BY <1>1, <1>3 DEF TypeOK
    <2>3. QED BY <1>1, <1>2, <2>1, <2>2 DEF TypeOK, Steps
  <1>6. StepOK(m)'
    BY <1>1, <1>2, <1>4 DEF StepOK
  <1>7. FailureHasStep'
    BY <1>1, <1>2, <1>4, FailureStays DEF StepOK
  <1>8. Decided(m) /\ Reached(m)
    <2>1. ~Blocked(m)
      BY <1>1, <1>2 DEF Resolves, Blocked, TypeOK
    <2>2. QED BY <1>1, <1>2, <2>1 DEF ReachOK
  <1>9. QED BY <1>2, <1>4, <1>5, <1>6, <1>7, <1>8, CourseStep DEF Quiet

\* The catch block, entered with or without a change of the step's row.
LEMMA CatchStep ==
  ASSUME IInv, NEW m \in Nodes, ~Quiet(m), Catch(m),
         UNCHANGED <<wf, active, waves, result, outputs, run>>,
         step' = [step EXCEPT ![m] = step'[m]],
         step' \in [Nodes -> {"PENDING", "RUNNING", "SUCCESS", "FAILED", "SKIPPED"}]
  PROVE  IInv'
  <1>1. TypeOK /\ StepOK(m)
    BY DEF IInv
  <1>2. /\ phase' = [phase EXCEPT ![m] = "failing"] /\ state' = [state EXCEPT ![m] = "FAILED"]
        /\ failed' = TRUE
        /\ UNCHANGED <<wf, active, pc, started, todo, wave, chunk, result, outputs, run>>
    BY DEF Catch, Go, waves
  <1>3. Course(m) /\ phase'[m] = "failing" /\ state'[m] = "FAILED"
    BY <1>1, <1>2 DEF Course, TypeOK
  <1>4. TypeOK'
    BY <1>1, <1>2 DEF TypeOK, Steps
  <1>5. m \in started
    BY <1>3, CourseFacts
  <1>6. StepOK(m)'
    BY <1>1, <1>2, <1>3, <1>5 DEF StepOK
  <1>7. FailureHasStep'
    BY <1>1, <1>2, <1>3, <1>5 DEF FailureHasStep, TypeOK, Steps
  <1>8. QED BY <1>2, <1>3, <1>4, <1>6, <1>7, CourseStep

LEMMA FailStep ==
  ASSUME IInv, NEW m \in Nodes, Fail(m)
  PROVE  IInv'
  <1>1. ~Quiet(m) /\ Catch(m) /\ UNCHANGED <<wf, active, waves, result, outputs, step, run>>
    BY DEF Fail, At, Quiet, rows
  <1>2. TypeOK
    BY DEF IInv
  <1>3. /\ step' = [step EXCEPT ![m] = step'[m]]
        /\ step' \in [Nodes -> {"PENDING", "RUNNING", "SUCCESS", "FAILED", "SKIPPED"}]
    BY <1>1, <1>2 DEF TypeOK
  <1>4. QED BY <1>1, <1>3, CatchStep

LEMMA MarkSuccessStep ==
  ASSUME IInv, NEW m \in Nodes, MarkSuccess(m)
  PROVE  IInv'
  <1>1. TypeOK /\ StepOK(m) /\ ReachOK(m) /\ phase[m] = "saving" /\ state[m] = "SUCCESS"
    BY DEF IInv, MarkSuccess, At, StepOK
  <1>2. PICK ok \in BOOLEAN :
          /\ Updates(m, "SUCCESS", ok)
          /\ IF ok THEN Go(m, "over") /\ UNCHANGED <<state, failed>> ELSE Catch(m)
    BY DEF MarkSuccess
  <1>3. UNCHANGED <<wf, active, pc, started, todo, wave, chunk, result, outputs, run>>
    BY DEF MarkSuccess, waves
  <1>4. /\ step' = [step EXCEPT ![m] = step'[m]]
        /\ step' \in [Nodes -> {"PENDING", "RUNNING", "SUCCESS", "FAILED", "SKIPPED"}]
        /\ ok => step'[m] = "SUCCESS"
    BY <1>1, <1>2, UpdatesFacts
  <1>5. CASE ok
    <2>1. phase' = [phase EXCEPT ![m] = "over"] /\ UNCHANGED <<state, failed>>
      BY <1>2, <1>5 DEF Go
    <2>2. Course(m) /\ phase'[m] = "over" /\ state'[m] = "SUCCESS" /\ step'[m] = "SUCCESS"
      BY <1>1, <1>3, <1>4, <1>5, <2>1 DEF Course, TypeOK
    <2>3. TypeOK'
      BY <1>1, <1>3, <1>4, <2>1 DEF TypeOK, Steps
    <2>4. StepOK(m)'
      BY <1>1, <1>3, <2>1, <2>2 DEF StepOK
    <2>5. FailureHasStep'
      BY <1>1, <2>1, <2>2, FailureStays
    <2>6. Decided(m) /\ Reached(m)
      BY <1>1 DEF ReachOK
    <2>7. QED BY <1>1, <1>3, <2>1, <2>2, <2>3, <2>4, <2>5, <2>6, CourseStep DEF Quiet
  <1>6. CASE ~ok
    <2>1. Catch(m) /\ UNCHANGED <<wf, active, waves, result, outputs, run>>
      BY <1>2, <1>6 DEF MarkSuccess
    <2>2. QED BY <1>1, <1>4, <2>1, CatchStep DEF Quiet
  <1>7. QED BY <1>5, <1>6

LEMMA MarkFailedStep ==
  ASSUME IInv, NEW m \in Nodes, MarkFailed(m)
  PROVE  IInv'
  <1>1. TypeOK /\ StepOK(m) /\ phase[m] = "failing" /\ state[m] = "FAILED"
    BY DEF IInv, MarkFailed, At, StepOK
  <1>2. PICK ok \in BOOLEAN : Updates(m, "FAILED", ok) /\ Go(m, IF ok THEN "over" ELSE "thrown")
    BY DEF MarkFailed
  <1>3. /\ phase' = [phase EXCEPT ![m] = IF ok THEN "over" ELSE "thrown"]
        /\ UNCHANGED <<wf, active, pc, started, todo, wave, chunk, state, result, outputs, failed, run>>
    BY <1>2 DEF MarkFailed, Go, waves
  <1>4. /\ step' = [step EXCEPT ![m] = step'[m]]
        /\ step' \in [Nodes -> {"PENDING", "RUNNING", "SUCCESS", "FAILED", "SKIPPED"}]
        /\ ok => step'[m] = "FAILED"
    BY <1>1, <1>2, UpdatesFacts
  <1>5. Course(m) /\ phase'[m] = (IF ok THEN "over" ELSE "thrown") /\ state'[m] = "FAILED"
    BY <1>1, <1>3, <1>4 DEF Course, TypeOK
  <1>6. TypeOK'
    BY <1>1, <1>3, <1>4 DEF TypeOK, Steps
  <1>7. StepOK(m)'
    BY <1>1, <1>3, <1>4, <1>5 DEF StepOK
  <1>8. FailureHasStep'
    BY <1>1, <1>3, <1>5, FailureStays
  <1>9. QED BY <1>1, <1>3, <1>5, <1>6, <1>7, <1>8, CourseStep DEF Quiet

-----------------------------------------------------------------------------
(* The theorems *)

LEMMA InitInv == Init => IInv
  <1> SUFFICES ASSUME Init PROVE IInv
    OBVIOUS
  <1>1. wf \in Workflows /\ wf.triggers \subseteq Steps(wf) /\ Steps(wf) \subseteq Nodes
    BY GraphFacts DEF Init
  <1>2. active \in wf.triggers
    <2>1. PICK requested \in wf.triggers \cup {NoTrigger} : active = Activated(wf, requested)
      BY DEF Init
    <2>2. CASE requested # NoTrigger
      BY <2>1, <2>2 DEF Activated
    <2>3. CASE requested = NoTrigger
      <3>1. wf.triggers # {} /\ wf.manual \subseteq wf.triggers
        BY <1>1, WorkflowAssumption DEF Valid
      <3>2. wf.manual # {} => FirstOf(wf, wf.manual) \in wf.manual
        BY <1>1, <3>1, FirstFacts
      <3>3. FirstOf(wf, wf.triggers) \in wf.triggers
        BY <1>1, <3>1, FirstFacts
      <3>4. CASE wf.manual # {}
        BY <2>1, <2>3, <3>1, <3>2, <3>4 DEF Activated
      <3>5. CASE wf.manual = {}
        BY <2>1, <2>3, <3>3, <3>5 DEF Activated
      <3>6. QED BY <3>4, <3>5
    <2>4. QED BY <2>2, <2>3
  <1>3. TypeOK
    BY <1>1, <1>2 DEF Init, TypeOK, Branch
  <1>4. Control
    BY DEF Init, Control, Quiet
  <1>5. \A n \in Nodes : StepOK(n) /\ ReachOK(n)
    BY DEF Init, StepOK, ReachOK
  <1>6. FailureHasStep /\ RunOK
    BY DEF Init, FailureHasStep, RunOK
  <1>7. QED BY <1>3, <1>4, <1>5, <1>6 DEF IInv

LEMMA NextInv == IInv /\ [Next]_vars => IInv'
  <1> SUFFICES ASSUME IInv, [Next]_vars PROVE IInv'
    OBVIOUS
  <1>1. CASE Executor
    <2>1. CASE FormWave
      BY <2>1, FormWaveStep
    <2>2. CASE Unblock
      BY <2>2, UnblockStep
    <2>3. CASE \E n \in todo : Sort(n)
      BY <2>3, SortStep
    <2>4. CASE StartChunk
      BY <2>4, StartChunkStep
    <2>5. CASE EndWave
      BY <2>5, EndWaveStep
    <2>6. CASE Throw
      BY <2>6, ThrowStep
    <2>7. CASE Finish
      BY <2>7, FinishStep
    <2>8. QED BY <1>1, <2>1, <2>2, <2>3, <2>4, <2>5, <2>6, <2>7 DEF Executor
  <1>2. ASSUME NEW n \in Nodes, StepProceeds(n) PROVE IInv'
    <2>1. CASE MarkRunning(n)
      BY <2>1, MarkRunningStep
    <2>2. CASE Succeed(n)
      BY <2>2, SucceedStep
    <2>3. CASE Fail(n)
      BY <2>3, FailStep
    <2>4. CASE MarkSuccess(n)
      BY <2>4, MarkSuccessStep
    <2>5. CASE MarkFailed(n)
      BY <2>5, MarkFailedStep
    <2>6. QED BY <1>2, <2>1, <2>2, <2>3, <2>4, <2>5 DEF StepProceeds
  <1>3. CASE Die
    BY <1>3, DieStep
  <1>4. CASE UNCHANGED vars
    <2>1. /\ UNCHANGED <<wf, active, started, todo, wave, chunk, memory, rows>>
          /\ UNCHANGED <<pc, phase, state, result, outputs, failed, step, run>>
      BY <1>4 DEF vars, waves, memory, rows
    <2>2. TypeOK' /\ Control'
      BY <2>1 DEF IInv, TypeOK, Control, Quiet, Steps
    <2>3. (\A n \in Nodes : StepOK(n)' /\ ReachOK(n)') /\ FailureHasStep'
      BY <2>1, NothingMoves
    <2>4. RunOK'
      BY <2>1 DEF IInv, RunOK, Quiet, RunAgreesWithSteps, SuccessIsExact, Incoming, Steps
    <2>5. QED BY <2>2, <2>3, <2>4 DEF IInv
  <1>5. QED BY <1>1, <1>2, <1>3, <1>4 DEF Next

\* The inductive invariant, of which the others are parts or consequences.
THEOREM WorkflowInvariant == Spec => []IInv
  BY InitInv, NextInv, PTL DEF Spec

\* Every variable of a run stays within its type: executeWaves takes up steps of
\* the graph only, and waits for steps it has taken up.
THEOREM WorkflowTypeOK == Spec => []TypeOK
  <1>1. IInv => TypeOK
    BY DEF IInv
  <1>2. QED BY WorkflowInvariant, <1>1, PTL

\* No action is called before what leads to its step has settled, nor for a step
\* which the run has not reached: readyNodes and shouldRunNode together allow only
\* that, and a step run at executor.ts:280 for want of a ready one fails first.
THEOREM WorkflowActionsRunWhenReached == Spec => []ActionsRunWhenReached
  <1>1. IInv => ActionsRunWhenReached
    <2> SUFFICES ASSUME IInv, NEW n \in Nodes, phase[n] = "acting", Resolves(n)
                 PROVE  Decided(n) /\ Reached(n)
      BY DEF ActionsRunWhenReached, Decided, Reached
    <2>1. ReachOK(n) /\ outputs \subseteq started
      BY DEF IInv, TypeOK
    <2>2. ~Blocked(n)
      BY <2>1 DEF Resolves, Blocked
    <2>3. QED BY <2>1, <2>2 DEF ReachOK
  <1>2. QED BY WorkflowInvariant, <1>1, PTL

\* finishRun never records an outcome that the rows of the steps contradict, as
\* they all are final before it and executeWorkflow knows of each what its row says.
THEOREM WorkflowRunAgreesWithSteps == Spec => []RunAgreesWithSteps
  <1>1. IInv => RunAgreesWithSteps
    BY DEF IInv, RunOK, RunAgreesWithSteps
  <1>2. QED BY WorkflowInvariant, <1>1, PTL

\* A run recorded as SUCCESS has run the steps that its trigger leads to through
\* the branches its conditions took, and no others, however the graph was cut into
\* waves and slices.
THEOREM WorkflowSuccessIsExact == Spec => []SuccessIsExact
  <1>1. IInv => SuccessIsExact
    BY DEF IInv, RunOK, SuccessIsExact
  <1>2. QED BY WorkflowInvariant, <1>1, PTL

\* No row is written once finishRun has been applied: no runNode is under way by
\* then, not even one of a slice whose Promise.all had rejected.
THEOREM WorkflowFinalIsFinal == Spec => FinalIsFinal
  <1>1. ASSUME IInv, Next, run # "RUNNING" PROVE UNCHANGED rows
    <2>1. pc \notin {"waves", "sorting", "running"} /\ \A n \in Nodes : Quiet(n)
      BY <1>1 DEF IInv, RunOK
    <2>2. ~Executor
      BY <2>1 DEF Executor, FormWave, Unblock, Sort, StartChunk, EndWave, Throw, Finish
    <2>3. ASSUME NEW n \in Nodes PROVE ~StepProceeds(n)
      BY <2>1 DEF StepProceeds, MarkRunning, Succeed, Fail, MarkSuccess, MarkFailed, At, Quiet
    <2>4. QED BY <1>1, <2>2, <2>3 DEF Next, Die, rows
  <1>2. IInv /\ [Next]_vars => [run # "RUNNING" => UNCHANGED rows]_vars
    BY <1>1
  <1>3. QED BY WorkflowInvariant, <1>2, PTL DEF Spec, FinalIsFinal

-----------------------------------------------------------------------------
(* ThreatTrigger *)

\* At most one instant, and the trigger is armed from the first one on.
CursorOK ==
  /\ \A c, d \in cursor : c = d
  /\ since = {} <=> cursor = {}
  /\ \A s \in since, c \in cursor : s <= c

\* What is to be stored is past every ticket that is to be fired.
StoreOK == trigger.pc = "store" =>
  /\ trigger.next # {}
  /\ \A m, n \in trigger.next : m = n
  /\ \A n \in trigger.next, c \in cursor : c <= n
  /\ cursor = {} => trigger.due = {}
  /\ trigger.due \subseteq After(cursor)
  /\ \A t \in trigger.due : \E n \in trigger.next : tickets[t].at <= n

\* What is fired has been passed, and is none of the backlog.
FireOK == trigger.pc = "fire" =>
  /\ since # {}
  /\ trigger.due \subseteq After(since)
  /\ \A t \in trigger.due : t \notin After(cursor)

Counted == \A t \in Tickets :
  /\ fired[t] <= 1
  /\ fired[t] = 1 => /\ since # {} /\ t \in After(since)
                     /\ t \notin After(cursor) /\ t \notin trigger.due

TriggerIInv ==
  /\ TriggerTypeOK
  /\ CursorOK
  /\ trigger.pc \in {"idle", "query"} => trigger.due = {}
  /\ StoreOK
  /\ FireOK
  /\ Counted

-----------------------------------------------------------------------------

\* A set of numbers below a bound has a largest one.
LEMMA LargestExists ==
  ASSUME NEW S, S \subseteq 0..MaxClock, S # {}
  PROVE  \E x \in S : \A y \in S : y <= x
<1>0. MaxClock \in Nat
  BY TriggerAssumption
<1> DEFINE T == {MaxClock - x : x \in S}
<1>1. T \subseteq Nat /\ T # {}
  <2>1. \A x \in S : MaxClock - x \in Nat
    BY <1>0
  <2> QED BY <2>1
<1>2. PICK m \in T : \A y \in T : ~ (<<y, m>> \in OpToRel(<, Nat))
  BY <1>1, NatLessThanWellFounded, WFMin
<1>3. \A y \in T : ~ (y < m)
  BY <1>1, <1>2 DEF OpToRel
<1>4. PICK x \in S : m = MaxClock - x
  BY <1>2
<1>5. \A y \in S : y <= x
  <2> TAKE y \in S
  <2>1. MaxClock - y \in T
    OBVIOUS
  <2>2. ~ (MaxClock - y < MaxClock - x)
    BY <2>1, <1>3, <1>4
  <2> QED BY <2>2, <1>0
<1> QED BY <1>5

\* The newest of a batch is one instant, and none of the batch is later.
LEMMA NewestOfBatch ==
  ASSUME TriggerTypeOK, NEW B, B \subseteq Tickets, B # {}
  PROVE  /\ Newest(B) # {} /\ Newest(B) \subseteq Instants
         /\ \A m, n \in Newest(B) : m = n
         /\ \A t \in B : \A n \in Newest(B) : tickets[t].at <= n
         /\ \A n \in Newest(B) : \E t \in B : n = tickets[t].at
<1> DEFINE S == {tickets[t].at : t \in B}
<1>0. MaxClock \in Nat /\ \A t \in B : tickets[t].at \in 0..MaxClock
  BY TriggerAssumption DEF TriggerTypeOK, Instants
<1>1. S \subseteq 0..MaxClock /\ S # {}
  BY <1>0
<1>2. PICK x \in S : \A y \in S : y <= x
  BY <1>1, LargestExists
<1>3. PICK u \in B : x = tickets[u].at
  BY <1>2
<1>4. u \in {w \in B : \A v \in B : tickets[v].at <= tickets[w].at}
  BY <1>2, <1>3
<1>5. Newest(B) # {}
  BY <1>4 DEF Newest
<1>6. \A n \in Newest(B) : \E t \in B : n = tickets[t].at /\ \A v \in B : tickets[v].at <= n
  BY DEF Newest
<1>7. \A m, n \in Newest(B) : m = n
  <2> TAKE m, n \in Newest(B)
  <2>1. m <= n /\ n <= m
    BY <1>6
  <2> QED BY <2>1, <1>6, <1>0
<1> QED BY <1>0, <1>5, <1>6, <1>7 DEF Instants

-----------------------------------------------------------------------------

LEMMA InitOK == TriggerInit => TriggerIInv
  BY TriggerAssumption
  DEF TriggerInit, TriggerIInv, TriggerTypeOK, CursorOK, StoreOK, FireOK, Counted, Unopened, Asleep, Instants,
      After, Open

\* Opening, grading and crashing leave every open ticket open, at its instant.
LEMMA TicketsKeep ==
  ASSUME TriggerIInv, TriggerTypeOK', UNCHANGED <<cursor, fired, since>>,
         \A t \in Open : t \in Open' /\ tickets'[t].at = tickets[t].at,
         \/ UNCHANGED trigger
         \/ trigger' = Asleep
  PROVE  TriggerIInv'
<1>1. CursorOK' /\ (trigger.pc \in {"idle", "query"} => trigger.due = {})'
  BY DEF TriggerIInv, CursorOK, Asleep
<1>2. \A t \in Open, S \in {cursor, since} : t \in After(S)' <=> t \in After(S)
  BY DEF After, Open
<1>2a. \A t \in Open : /\ t \in After(cursor)' <=> t \in After(cursor)
                       /\ t \in After(since)' <=> t \in After(since)
  BY DEF After
<1>3. After(cursor) \subseteq Open /\ After(since) \subseteq Open
  BY DEF After
<1>4. Counted'
  BY <1>2a, <1>3 DEF TriggerIInv, Counted, Asleep
<1>5. StoreOK'
  BY <1>2a, <1>3 DEF TriggerIInv, StoreOK, Asleep
<1>6. FireOK'
  BY <1>2a, <1>3 DEF TriggerIInv, FireOK, Asleep
<1> QED BY <1>1, <1>4, <1>5, <1>6 DEF TriggerIInv

LEMMA QueryOK == ASSUME TriggerIInv, Query PROVE TriggerIInv'
<1>1. PICK B \in Batches :
        trigger' = [Asleep EXCEPT !.pc = "store",
                      !.next = IF B = {} THEN cursor ELSE Newest(B),
                      !.due = {t \in B : tickets[t].passes}]
  BY DEF Query
<1>2. B \subseteq After(cursor) /\ B \subseteq Tickets
  BY DEF Batches, Newer, After, Open
<1>3. UNCHANGED <<tickets, clock, cursor, fired, since, faults, crashes>> /\ cursor # {}
  BY DEF Query
<1>4. /\ trigger'.pc = "store" /\ trigger'.now = 0
      /\ trigger'.next = IF B = {} THEN cursor ELSE Newest(B)
      /\ trigger'.due = {t \in B : tickets[t].passes}
  BY <1>1 DEF Asleep
<1>5. TriggerTypeOK'
  <2>1. trigger'.next \subseteq Instants
    BY <1>2, <1>4, NewestOfBatch DEF TriggerIInv, TriggerTypeOK
  <2>2. trigger' \in [pc : {"idle", "query", "store", "fire"}, now : Instants,
                      next : SUBSET Instants, due : SUBSET Tickets]
    <3>1. trigger' = [pc |-> "store", now |-> 0, next |-> trigger'.next, due |-> trigger'.due]
      BY <1>1 DEF Asleep
    <3>2. 0 \in Instants /\ trigger'.due \subseteq Tickets
      BY <1>2, <1>4, TriggerAssumption DEF Instants
    <3> QED BY <2>1, <3>1, <3>2
  <2> QED BY <1>3, <2>2 DEF TriggerIInv, TriggerTypeOK
<1>6. CursorOK' /\ FireOK' /\ (trigger.pc \in {"idle", "query"} => trigger.due = {})'
  BY <1>3, <1>4 DEF TriggerIInv, CursorOK, FireOK
<1>7. \A S : After(S)' = After(S)
  BY <1>3 DEF After, Open
<1>8. StoreOK'
  <2>1. CASE B = {}
    <3>1. cursor \subseteq Instants /\ \A c \in cursor : c <= c
      BY TriggerAssumption DEF TriggerIInv, TriggerTypeOK, Instants
    <3> QED BY <1>3, <1>4, <2>1, <3>1 DEF TriggerIInv, CursorOK, StoreOK
  <2>2. CASE B # {}
    <3>1. /\ Newest(B) # {} /\ \A m, n \in Newest(B) : m = n
          /\ \A t \in B : \E n \in Newest(B) : tickets[t].at <= n
          /\ \A n \in Newest(B) : \E t \in B : n = tickets[t].at
      BY <1>2, <2>2, NewestOfBatch DEF TriggerIInv
    <3>2. \A n \in Newest(B), c \in cursor : c <= n
      <4> TAKE n \in Newest(B), c \in cursor
      <4>1. PICK t \in B : n = tickets[t].at
        BY <3>1
      <4>2. n > c /\ n \in Nat /\ c \in Nat
        BY <4>1, <1>2, TriggerAssumption DEF After, TriggerIInv, TriggerTypeOK, Instants
      <4> QED BY <4>2
    <3>3. trigger'.due \subseteq After(cursor)'
      BY <1>2, <1>3, <1>4 DEF After, Open
    <3> QED BY <1>2, <1>3, <1>4, <2>2, <3>1, <3>2, <3>3 DEF StoreOK
  <2> QED BY <2>1, <2>2
<1>9. Counted'
  BY <1>2, <1>3, <1>4 DEF TriggerIInv, Counted, After, Open
<1> QED BY <1>5, <1>6, <1>8, <1>9 DEF TriggerIInv

LEMMA StoreCursorOK == ASSUME TriggerIInv, StoreCursor PROVE TriggerIInv'
<1>1. /\ trigger.pc = "store" /\ cursor' = trigger.next
      /\ since' = IF cursor = {} THEN trigger.next ELSE since
      /\ trigger'.pc = "fire" /\ trigger'.next = {} /\ trigger'.due = trigger.due
      /\ UNCHANGED <<tickets, clock, fired, faults, crashes>>
  BY DEF StoreCursor, TriggerIInv, TriggerTypeOK
<1>2. TriggerTypeOK'
  BY DEF StoreCursor, TriggerIInv, TriggerTypeOK
<1>3. /\ trigger.next # {} /\ \A m, n \in trigger.next : m = n
      /\ \A n \in trigger.next, c \in cursor : c <= n
      /\ cursor = {} => trigger.due = {}
      /\ trigger.due \subseteq After(cursor)
      /\ \A t \in trigger.due : \E n \in trigger.next : tickets[t].at <= n
  BY <1>1 DEF TriggerIInv, StoreOK
<1>4. /\ cursor \subseteq Nat /\ since \subseteq Nat /\ trigger.next \subseteq Nat
      /\ \A t \in Tickets : tickets[t].at \in Nat
  BY TriggerAssumption DEF TriggerIInv, TriggerTypeOK, Instants
<1>5. CursorOK'
  <2>1. \A s \in since', c \in cursor' : s <= c
    <3> TAKE s \in since', c \in cursor'
    <3>1. CASE cursor = {}
      BY <1>1, <1>3, <1>4, <3>1
    <3>2. CASE cursor # {}
      <4>1. PICK d \in cursor : TRUE
        BY <3>2
      <4>2. s \in since /\ s <= d /\ d <= c /\ c \in Nat /\ d \in Nat /\ s \in Nat
        BY <1>1, <1>3, <1>4, <3>2, <4>1 DEF TriggerIInv, CursorOK
      <4> QED BY <4>2
    <3> QED BY <3>1, <3>2
  <2> QED BY <1>1, <1>3, <2>1 DEF TriggerIInv, CursorOK
<1>6. trigger.due \subseteq Tickets /\ trigger.due \subseteq Open /\ Open' = Open
  BY <1>1, <1>3 DEF After, Open
<1>7. \A t \in trigger.due : t \notin After(cursor)'
  <2> TAKE t \in trigger.due
  <2>1. PICK n \in trigger.next : tickets[t].at <= n
    BY <1>3
  <2> QED BY <1>1, <1>4, <1>6, <2>1 DEF After
<1>8. trigger.due \subseteq After(since)'
  <2> SUFFICES ASSUME NEW t \in trigger.due PROVE t \in After(since)'
    OBVIOUS
  <2>1. cursor # {} /\ since' = since
    BY <1>1, <1>3
  <2>2. \A s \in since : tickets[t].at > s
    <3> TAKE s \in since
    <3>1. PICK c \in cursor : TRUE
      BY <2>1
    <3>2. s <= c /\ tickets[t].at > c
      BY <1>3, <3>1 DEF TriggerIInv, CursorOK, After
    <3> QED BY <1>4, <1>6, <3>1, <3>2
  <2> QED BY <1>1, <1>6, <2>1, <2>2 DEF After
<1>9. FireOK'
  BY <1>1, <1>3, <1>7, <1>8 DEF TriggerIInv, CursorOK, FireOK
<1>10. Counted'
  <2> SUFFICES ASSUME NEW t \in Tickets, fired[t] = 1
               PROVE  /\ since' # {} /\ t \in After(since)'
                      /\ t \notin After(cursor)' /\ t \notin trigger'.due
    BY <1>1 DEF TriggerIInv, Counted
  <2>1. /\ since # {} /\ t \in After(since) /\ t \notin After(cursor)
        /\ t \notin trigger.due
    BY DEF TriggerIInv, Counted
  <2>2. cursor # {} /\ since' = since
    BY <2>1, <1>1 DEF TriggerIInv, CursorOK
  <2>3. t \in Open
    BY <2>1 DEF After
  <2>4. PICK c \in cursor : tickets[t].at <= c
    BY <2>1, <2>3, <1>4 DEF After
  <2>5. PICK n \in trigger.next : c <= n
    BY <1>3
  <2>6. t \notin After(cursor)'
    BY <1>1, <1>4, <2>4, <2>5 DEF After
  <2>7. t \in After(since)'
    BY <1>1, <1>6, <2>1, <2>2 DEF After
  <2> QED BY <1>1, <2>1, <2>2, <2>6, <2>7
<1> QED BY <1>1, <1>2, <1>5, <1>9, <1>10 DEF TriggerIInv, StoreOK

LEMMA FireStepOK == ASSUME TriggerIInv, Fire PROVE TriggerIInv'
<1>1. PICK t \in trigger.due : /\ fired' = [fired EXCEPT ![t] = @ + 1]
                               /\ trigger' = [trigger EXCEPT !.due = @ \ {t}]
  BY DEF Fire
<1>2. trigger.pc = "fire" /\ UNCHANGED <<tickets, clock, cursor, since, faults, crashes>>
  BY DEF Fire
<1>3. t \in Tickets
  BY DEF TriggerIInv, TriggerTypeOK
<1>4. TriggerTypeOK'
  BY <1>1, <1>2, <1>3 DEF TriggerIInv, TriggerTypeOK
<1>5. trigger'.pc = "fire" /\ trigger'.due = trigger.due \ {t}
  BY <1>1, <1>2 DEF TriggerIInv, TriggerTypeOK
<1>6. After(cursor)' = After(cursor) /\ After(since)' = After(since)
  BY <1>2 DEF After, Open
<1>7. since # {} /\ t \in After(since) /\ t \notin After(cursor)
  BY <1>2 DEF TriggerIInv, FireOK
<1>8. fired[t] = 0
  BY <1>3 DEF TriggerIInv, TriggerTypeOK, Counted
<1>9. Counted'
  <2> SUFFICES ASSUME NEW u \in Tickets
               PROVE  /\ fired'[u] <= 1
                      /\ fired'[u] = 1 => /\ since' # {} /\ u \in After(since)'
                                          /\ u \notin After(cursor)' /\ u \notin trigger'.due
    BY DEF Counted
  <2>1. CASE u = t
    BY <1>1, <1>2, <1>3, <1>5, <1>6, <1>7, <1>8, <2>1 DEF TriggerIInv, TriggerTypeOK
  <2>2. CASE u # t
    BY <1>1, <1>2, <1>3, <1>5, <1>6, <2>2 DEF TriggerIInv, TriggerTypeOK, Counted
  <2> QED BY <2>1, <2>2
<1>10. FireOK'
  BY <1>2, <1>5, <1>6 DEF TriggerIInv, FireOK
<1> QED BY <1>2, <1>4, <1>5, <1>9, <1>10 DEF TriggerIInv, CursorOK, StoreOK

LEMMA NextOK == ASSUME TriggerIInv, [TriggerNext]_triggerVars PROVE TriggerIInv'
<1> USE DEF Fault
<1>1. ASSUME NEW t \in Tickets, Submit(t) PROVE TriggerIInv'
  <2>1. TriggerTypeOK'
    BY <1>1 DEF Submit, TriggerIInv, TriggerTypeOK
  <2>2. \A u \in Open : u \in Open' /\ tickets'[u].at = tickets[u].at
    BY <1>1 DEF Submit, Open, TriggerIInv, TriggerTypeOK
  <2> QED BY <1>1, <2>1, <2>2, TicketsKeep DEF Submit
<1>2. ASSUME NEW t \in Tickets, Opened(t) PROVE TriggerIInv'
  <2>1. TriggerTypeOK'
    BY <1>2 DEF Opened, TriggerIInv, TriggerTypeOK
  <2>2. \A u \in Open : u \in Open' /\ tickets'[u].at = tickets[u].at
    BY <1>2 DEF Opened, Open, TriggerIInv, TriggerTypeOK
  <2> QED BY <1>2, <2>1, <2>2, TicketsKeep DEF Opened
<1>3. ASSUME NEW t \in Tickets, Regrade(t) PROVE TriggerIInv'
  <2>1. TriggerTypeOK'
    BY <1>3 DEF Regrade, TriggerIInv, TriggerTypeOK
  <2>2. \A u \in Open : u \in Open' /\ tickets'[u].at = tickets[u].at
    BY <1>3 DEF Regrade, Open, TriggerIInv, TriggerTypeOK
  <2> QED BY <1>3, <2>1, <2>2, TicketsKeep DEF Regrade
<1>4. CASE Pass
  <2>1. TriggerTypeOK'
    BY <1>4, TriggerAssumption DEF Pass, TriggerIInv, TriggerTypeOK, Instants
  <2>2. \A u \in Open : u \in Open' /\ tickets'[u].at = tickets[u].at
    BY <1>4 DEF Pass, Open
  <2> QED BY <1>4, <2>1, <2>2, TicketsKeep DEF Pass
<1>5. CASE Wake
  <2>1. TriggerTypeOK'
    BY <1>5, TriggerAssumption DEF Wake, Asleep, TriggerIInv, TriggerTypeOK, Instants
  <2>2. trigger'.pc = "query" /\ trigger'.due = {}
    BY <1>5 DEF Wake, Asleep
  <2> QED BY <1>5, <2>1, <2>2
          DEF Wake, TriggerIInv, CursorOK, StoreOK, FireOK, Counted, After, Open
<1>6. CASE Arm
  <2>1. TriggerTypeOK'
    <3>1. trigger' = [pc |-> "store", now |-> 0, next |-> {trigger.now}, due |-> {}]
      BY <1>6 DEF Arm, Asleep
    <3>2. 0 \in Instants /\ trigger.now \in Instants
      BY TriggerAssumption DEF TriggerIInv, TriggerTypeOK, Instants
    <3> QED BY <1>6, <3>1, <3>2 DEF Arm, TriggerIInv, TriggerTypeOK
  <2>2. trigger'.pc = "store" /\ trigger'.due = {} /\ trigger'.next = {trigger.now}
    BY <1>6 DEF Arm, Asleep
  <2>3. StoreOK'
    BY <1>6, <2>2 DEF Arm, StoreOK
  <2> QED BY <1>6, <2>1, <2>2, <2>3
          DEF Arm, TriggerIInv, CursorOK, FireOK, Counted, After, Open
<1>7. CASE Query
  BY <1>7, QueryOK
<1>8. CASE StoreCursor
  BY <1>8, StoreCursorOK
<1>9. CASE Fire
  BY <1>9, FireStepOK
<1>10. CASE Sleep \/ Throws
  <2>1. TriggerTypeOK'
    <3>1. 0 \in Instants
      BY TriggerAssumption DEF Instants
    <3>2. CASE Sleep
      BY <3>1, <3>2 DEF Sleep, Asleep, TriggerIInv, TriggerTypeOK
    <3>3. CASE Throws
      BY <3>1, <3>3, TriggerAssumption DEF Throws, Asleep, TriggerIInv, TriggerTypeOK
    <3> QED BY <1>10, <3>2, <3>3
  <2>2. \A u \in Open : u \in Open' /\ tickets'[u].at = tickets[u].at
    BY <1>10 DEF Sleep, Throws, Open
  <2> QED BY <1>10, <2>1, <2>2, TicketsKeep DEF Sleep, Throws
<1>11. CASE Crash
  <2>1. TriggerTypeOK'
    BY <1>11, TriggerAssumption DEF Crash, Asleep, Unopened, TriggerIInv, TriggerTypeOK, Instants
  <2>2. \A u \in Open : u \in Open' /\ tickets'[u].at = tickets[u].at
    BY <1>11 DEF Crash, Open
  <2> QED BY <1>11, <2>1, <2>2, TicketsKeep DEF Crash
<1>12. CASE UNCHANGED triggerVars
  BY <1>12 DEF triggerVars, TriggerIInv, TriggerTypeOK, CursorOK, StoreOK, FireOK, Counted, After, Open
<1> QED BY <1>1, <1>2, <1>3, <1>4, <1>5, <1>6, <1>7, <1>8, <1>9, <1>10, <1>11, <1>12
        DEF TriggerNext, Evaluation

\* trigger-state.ts and scheduler.ts: for any number of tickets, any batch, any
\* crash between the cursor and the runs, no ticket starts two runs and none of
\* the backlog starts one.
THEOREM TriggerFiresOnce == TriggerSpec => []FiredOnce
<1>1. TriggerIInv => FiredOnce
  BY DEF TriggerIInv, Counted, FiredOnce
<1> QED BY <1>1, InitOK, NextOK, PTL DEF TriggerSpec

=============================================================================
