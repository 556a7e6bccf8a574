----------------------------- MODULE WorkflowRun -----------------------------
(***************************************************************************)
(* One run of a workflow (lib/workflows/executor.ts, graph-execution.ts).  *)
(*                                                                         *)
(* A workflow is a DAG of steps. executeWorkflow repeatedly takes every    *)
(* step whose predecessors have settled, skips those no live branch        *)
(* reaches, and runs the others concurrently, MaxParallel at a time. Each  *)
(* step is a small process: its row is marked RUNNING, its action runs,    *)
(* its row is marked SUCCESS or FAILED. What executeWorkflow knows is in   *)
(* memory; what anyone else sees are the rows of the database.             *)
(*                                                                         *)
(* A database call may fail, with or without having been applied, and the  *)
(* process may die, where Faults is TRUE. Data that flows between steps is *)
(* left out, except that a step which refers to the output of one without  *)
(* any fails.                                                              *)
(***************************************************************************)
EXTENDS FiniteSets, Integers, Sequences

CONSTANTS Nodes,        \* step ids
          Workflows,    \* the graphs a run may be of
          MaxParallel,  \* MAX_PARALLEL_STEPS = 8
          Faults,       \* whether database calls fail and processes die
          NoTrigger     \* opts.triggerNodeId left undefined

Branch == {"true", "false", "none"}

Workflow == [order    : Seq(Nodes),                \* topologicalOrder(graph)
             edges    : SUBSET [from : Nodes, to : Nodes, branch : Branch],
             refs     : [Nodes -> SUBSET Nodes],   \* templateNodeRefs
             triggers : SUBSET Nodes,
             manual   : SUBSET Nodes,              \* those of kind trigger.manual
             conditions : SUBSET Nodes]

\* graph.nodes
Steps(w) == {w.order[i] : i \in DOMAIN w.order}

\* What validateGraph insists on before a run is created. That a template refers
\* to a step upstream is a warning and not among it.
Valid(w) ==
    /\ w \in Workflow
    /\ \A i, j \in DOMAIN w.order : w.order[i] = w.order[j] => i = j
    /\ \A e \in w.edges :
        /\ e.to \notin w.triggers
        /\ e.branch = "none" <=> e.from \notin w.conditions
        /\ \E i, j \in DOMAIN w.order : i < j /\ w.order[i] = e.from /\ w.order[j] = e.to
    /\ w.triggers # {}
    /\ w.triggers \subseteq Steps(w)
    /\ w.manual \subseteq w.triggers
    /\ \A n \in Steps(w) \ w.triggers : \E e \in w.edges : e.to = n

ASSUME WorkflowAssumption ==
    /\ \A w \in Workflows : Valid(w)
    /\ MaxParallel \in Nat \ {0}
    /\ Faults \in BOOLEAN
    /\ NoTrigger \notin Nodes

VARIABLES wf,       \* the graph
          active,   \* activeTriggerId
          pc,       \* where executeWorkflow stands
          started,  \* the steps executeWaves has taken up
          todo,     \* of the ready steps, those not looked at yet
          wave,     \* those of them to run that are not running yet
          chunk,    \* the steps Promise.all waits for
          phase,    \* where runNode stands, per step
          state,    \* states[id].status, "none" for undefined
          result,   \* states[id].conditionResult
          outputs,  \* the keys of nodeOutputs
          failed,   \* failMessage !== null
          step,     \* status of the WorkflowRunStep rows
          run       \* status of the WorkflowRun row

waves  == <<pc, started, todo, wave, chunk>>
memory == <<phase, state, result, outputs, failed>>
rows   == <<step, run>>
vars   == <<wf, active, waves, memory, rows>>

TypeOK ==
    /\ wf \in Workflows
    /\ active \in wf.triggers
    /\ pc \in {"waves", "sorting", "running", "returned", "threw", "dead"}
    /\ started \in SUBSET Steps(wf)
    /\ todo \in SUBSET started
    /\ wave \in SUBSET started
    /\ chunk \in SUBSET started
    /\ phase \in [Nodes -> {"none", "starting", "acting", "saving", "failing", "over", "thrown"}]
    /\ state \in [Nodes -> {"none", "SUCCESS", "FAILED", "SKIPPED"}]
    /\ result \in [Nodes -> Branch]
    /\ outputs \in SUBSET started
    /\ failed \in BOOLEAN
    /\ step \in [Nodes -> {"PENDING", "RUNNING", "SUCCESS", "FAILED", "SKIPPED"}]
    /\ run \in {"RUNNING", "SUCCESS", "FAILED"}

\* The first of a set of steps in topological order.
FirstOf(w, S) ==
    w.order[CHOOSE i \in DOMAIN w.order :
              w.order[i] \in S /\ \A j \in 1..(i - 1) : w.order[j] \notin S]

\* The trigger asked for; or else the manual one, or else the first.
Activated(w, requested) ==
    CASE requested # NoTrigger -> requested
      [] requested = NoTrigger /\ w.manual # {} -> FirstOf(w, w.manual)
      [] OTHER -> FirstOf(w, w.triggers)

\* executeWorkflow has created the run and its PENDING steps.
Init ==
    /\ wf \in Workflows
    /\ \E requested \in wf.triggers \cup {NoTrigger} : active = Activated(wf, requested)
    /\ pc = "waves"
    /\ started = {} /\ todo = {} /\ wave = {} /\ chunk = {}
    /\ phase = [n \in Nodes |-> "none"]
    /\ state = [n \in Nodes |-> "none"]
    /\ result = [n \in Nodes |-> "none"]
    /\ outputs = {}
    /\ failed = FALSE
    /\ step = [n \in Nodes |-> "PENDING"]
    /\ run = "RUNNING"

-----------------------------------------------------------------------------
(* graph-execution.ts *)

Incoming(n) == {e \in wf.edges : e.to = n}
Settled(n) == state[n] # "none"

\* Mutant: one settled predecessor is enough.
Ready_OnePredecessor(n) ==
    /\ n \in Steps(wf) \ started
    /\ Incoming(n) # {} => \E e \in Incoming(n) : Settled(e.from)
    /\ \A r \in wf.refs[n] \ {n} : r \in Steps(wf) => Settled(r)

\* readyNodes: the steps whose predecessors and template references have settled.
Ready(n) ==
    /\ n \in Steps(wf) \ started
    /\ \A e \in Incoming(n) : Settled(e.from)
    /\ \A r \in wf.refs[n] \ {n} : r \in Steps(wf) => Settled(r)

\* An edge that is followed: its source succeeded, on this branch.
Followed(e) == state[e.from] = "SUCCESS" /\ e.branch \in {"none", result[e.from]}

\* shouldRunNode
ShouldRun(n) == IF Incoming(n) = {} THEN n \in wf.triggers
                ELSE \E e \in Incoming(n) : Followed(e)

-----------------------------------------------------------------------------
(* executeWaves *)

Alive == pc # "dead"

\* A row update: applied, or failed, in which case it may have been applied.
Updates(n, status, ok) ==
    \/ ok /\ step' = [step EXCEPT ![n] = status]
    \/ Faults /\ ~ok /\ step' \in {step, [step EXCEPT ![n] = status]}

\* The next wave: every step that is ready.
FormWave ==
    /\ pc = "waves"
    /\ LET ready == {n \in Steps(wf) : Ready(n)} IN
        /\ ready # {}
        /\ todo' = ready
        /\ started' = started \cup ready
    /\ pc' = "sorting"
    /\ UNCHANGED <<wf, active, wave, chunk, memory, rows>>

\* Mutant: there is always one.
Unblock_Never == FALSE

\* No step is ready though some have not started, templates having made a circle:
\* the first of those is run whatever it waits for.
Unblock ==
    /\ pc = "waves"
    /\ started # Steps(wf)
    /\ \A n \in Steps(wf) : ~Ready(n)
    /\ LET next == FirstOf(wf, Steps(wf) \ started) IN
        /\ started' = started \cup {next}
        /\ chunk' = {next}
        /\ phase' = [phase EXCEPT ![next] = "starting"]
    /\ pc' = "running"
    /\ UNCHANGED <<wf, active, todo, wave, state, result, outputs, failed, rows>>

\* Mutant: a trigger is one whichever it is.
Skipped_NotDormant(n) == failed \/ ~ShouldRun(n)

\* An earlier step failed, another trigger started this run, or no branch
\* reached it.
Skipped(n) == failed \/ (n \in wf.triggers /\ n # active) \/ ~ShouldRun(n)

\* A ready step joins the wave, or is skipped by skipNode. (The code takes them
\* in topological order, which makes no difference: they do not depend on each
\* other, and nothing else is running.)
Sort(n) ==
    /\ pc = "sorting"
    /\ n \in todo
    /\ todo' = todo \ {n}
    /\ IF Skipped(n)
       THEN /\ state' = [state EXCEPT ![n] = IF @ = "none" THEN "SKIPPED" ELSE @]
            /\ \E ok \in BOOLEAN : /\ Updates(n, "SKIPPED", ok)
                                   /\ pc' = IF ok THEN pc ELSE "threw"
            /\ UNCHANGED wave
       ELSE /\ wave' = wave \cup {n}
            /\ UNCHANGED <<pc, state, step>>
    /\ UNCHANGED <<wf, active, started, chunk, phase, result, outputs, failed, run>>

\* wave.slice: MaxParallel steps of the wave, or what is left of it.
Chunks(S) ==
    {c \in SUBSET S : Cardinality(c) = IF Cardinality(S) < MaxParallel THEN Cardinality(S)
                                       ELSE MaxParallel}

\* Promise.all over the next slice of the wave, the one before having settled,
\* whether a step of that one has failed or not.
StartChunk ==
    /\ \/ pc = "sorting" /\ todo = {}
       \/ pc = "running" /\ \A n \in chunk : phase[n] = "over"
    /\ wave # {}
    /\ chunk' \in Chunks(wave)
    /\ wave' = wave \ chunk'
    /\ phase' = [n \in Nodes |-> IF n \in chunk' THEN "starting" ELSE phase[n]]
    /\ pc' = "running"
    /\ UNCHANGED <<wf, active, started, todo, state, result, outputs, failed, rows>>

\* The wave is through.
EndWave ==
    /\ \/ pc = "sorting" /\ todo = {}
       \/ pc = "running" /\ \A n \in chunk : phase[n] = "over"
    /\ wave = {}
    /\ chunk' = {}
    /\ pc' = "waves"
    /\ UNCHANGED <<wf, active, started, todo, wave, memory, rows>>

\* Mutant: the run is recorded as failed on the way out.
Throw_Records ==
    /\ pc = "running"
    /\ \E n \in chunk : phase[n] = "thrown"
    /\ pc' = "threw"
    /\ run' = "FAILED"
    /\ UNCHANGED <<wf, active, started, todo, wave, chunk, memory, step>>

\* runNode threw: Promise.all rejects and executeWorkflow with it. The other
\* steps of the slice go on; nobody records that the run is over.
Throw ==
    /\ pc = "running"
    /\ \E n \in chunk : phase[n] = "thrown"
    /\ pc' = "threw"
    /\ UNCHANGED <<wf, active, started, todo, wave, chunk, memory, rows>>

\* finishRun
Finish ==
    /\ pc = "waves"
    /\ started = Steps(wf)
    /\ LET outcome == IF failed THEN "FAILED" ELSE "SUCCESS" IN
        \/ run' = outcome /\ pc' = "returned"
        \/ Faults /\ run' \in {run, outcome} /\ pc' = "threw"
    /\ UNCHANGED <<wf, active, started, todo, wave, chunk, memory, step>>

-----------------------------------------------------------------------------
(* runNode, one step's course; several are under way at a time *)

At(n, p) == Alive /\ phase[n] = p
Go(n, p) == phase' = [phase EXCEPT ![n] = p]

\* The row is marked RUNNING, outside the try.
MarkRunning(n) ==
    /\ At(n, "starting")
    /\ \E ok \in BOOLEAN : Updates(n, "RUNNING", ok) /\ Go(n, IF ok THEN "acting" ELSE "thrown")
    /\ UNCHANGED <<wf, active, waves, state, result, outputs, failed, run>>

\* resolveConfig finds an output for every template reference.
Resolves(n) == wf.refs[n] \subseteq outputs

\* The action has run and its result is in memory; a condition has a branch.
Succeed(n) ==
    /\ At(n, "acting")
    /\ Resolves(n)
    /\ outputs' = outputs \cup {n}
    /\ state' = [state EXCEPT ![n] = "SUCCESS"]
    /\ \E b \in (IF n \in wf.conditions THEN {"true", "false"} ELSE {"none"}) :
          result' = [result EXCEPT ![n] = b]
    /\ Go(n, "saving")
    /\ UNCHANGED <<wf, active, waves, failed, rows>>

\* Mutant: only the step's own state is set.
Catch_Quietly(n) ==
    /\ state' = [state EXCEPT ![n] = "FAILED"]
    /\ Go(n, "failing")
    /\ UNCHANGED failed

\* The catch block, up to its await.
Catch(n) ==
    /\ state' = [state EXCEPT ![n] = "FAILED"]
    /\ failed' = TRUE
    /\ Go(n, "failing")

\* The template does not resolve, the config does not parse or the action throws.
Fail(n) ==
    /\ At(n, "acting")
    /\ Catch(n)
    /\ UNCHANGED <<wf, active, waves, result, outputs, rows>>

\* The row is marked SUCCESS, inside the try: if that fails the step has failed.
MarkSuccess(n) ==
    /\ At(n, "saving")
    /\ \E ok \in BOOLEAN : /\ Updates(n, "SUCCESS", ok)
                           /\ IF ok THEN Go(n, "over") /\ UNCHANGED <<state, failed>>
                              ELSE Catch(n)
    /\ UNCHANGED <<wf, active, waves, result, outputs, run>>

\* The row is marked FAILED, in the catch block.
MarkFailed(n) ==
    /\ At(n, "failing")
    /\ \E ok \in BOOLEAN : Updates(n, "FAILED", ok) /\ Go(n, IF ok THEN "over" ELSE "thrown")
    /\ UNCHANGED <<wf, active, waves, state, result, outputs, failed, run>>

\* The process dies. Nothing takes a run up again.
Die ==
    /\ Faults
    /\ Alive
    /\ pc # "returned"
    /\ pc' = "dead"
    /\ UNCHANGED <<wf, active, started, todo, wave, chunk, memory, rows>>

-----------------------------------------------------------------------------

Executor == \/ FormWave
            \/ Unblock
            \/ \E n \in todo : Sort(n)
            \/ StartChunk
            \/ EndWave
            \/ Throw
            \/ Finish

StepProceeds(n) == \/ MarkRunning(n)
                   \/ Succeed(n)
                   \/ Fail(n)
                   \/ MarkSuccess(n)
                   \/ MarkFailed(n)

Next == \/ Executor
        \/ \E n \in Nodes : StepProceeds(n)
        \/ Die

Spec == Init /\ [][Next]_vars

\* executeWaves is one async function: it goes on when what it awaits settles. That
\* a step's action settles is an assumption about actions (each brings its own
\* time limits; executeWorkflow sets none), that a query settles one about Prisma.
FairSpec == Spec /\ WF_vars(Executor) /\ \A n \in Nodes : WF_vars(StepProceeds(n))

-----------------------------------------------------------------------------
(* Properties *)

\* An action is called only for a step whose predecessors have all settled and
\* which the run has reached: the trigger that started it, or a step some edge
\* leads to whose source succeeded on that branch. This holds of the step that
\* executeWaves runs for want of a ready one, too: what it waits for has no
\* output, so that its template fails before its action is called.
ActionsRunWhenReached ==
    \A n \in Nodes : phase[n] = "acting" /\ Resolves(n) =>
        /\ \A e \in Incoming(n) : Settled(e.from)
        /\ n = active \/ \E e \in Incoming(n) : Followed(e)

\* What the run's row says agrees with the rows of its steps, which are all final
\* by then: SUCCESS when none failed, FAILED when one did.
RunAgreesWithSteps ==
    run # "RUNNING" =>
        /\ \A n \in Steps(wf) : step[n] \in {"SUCCESS", "FAILED", "SKIPPED"}
        /\ run = "FAILED" <=> \E n \in Steps(wf) : step[n] = "FAILED"

\* A run that succeeded has done all of what its trigger leads to, through the
\* branches its conditions took, and nothing else: whatever the waves and
\* slices were, a step of it ran exactly if it is that trigger or follows one
\* that ran.
SuccessIsExact ==
    run = "SUCCESS" =>
        \A n \in Steps(wf) :
            step[n] = "SUCCESS" <=>
                \/ n = active
                \/ \E e \in Incoming(n) : step[e.from] = "SUCCESS"
                                          /\ e.branch \in {"none", result[e.from]}

\* Once the run's row is final neither it nor a step's row changes.
FinalIsFinal == [][run # "RUNNING" => UNCHANGED rows]_vars

\* executeWorkflow comes to an end, templates that refer to each other in a
\* circle notwithstanding.
RunEnds == <>(pc \in {"returned", "threw", "dead"})

=============================================================================
