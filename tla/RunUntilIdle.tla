---------------------------- MODULE RunUntilIdle ----------------------------
(***************************************************************************)
(* The run loop of the dispatcher (dispatch/runner.py), over the workflow  *)
(* engine: `vedaws run' takes snapshots of the ready tasks, one per cycle, *)
(* offers every task of a snapshot to the dispatcher in a fixed order, and *)
(* stops when nothing is ready, a task failed, nobody can do what is left, *)
(* a bound is reached or the caller asks it to.                            *)
(*                                                                         *)
(* The process that runs the loop does nothing else: the other commands    *)
(* work between runs.  It can be killed at any point of a dispatch.        *)
(***************************************************************************)
EXTENDS WorkflowEngine, Naturals

CONSTANTS
  Rank,        \* the order of the snapshot: by workflow id, then task id
  Served,      \* the tasks for whose capability there is a worker
  MaxTasks,    \* max_tasks; 10000 in the command
  MaxCycles    \* max_cycles; 1000 in the command

ASSUME RankAssumption == Rank \in [Tasks -> Nat]
ASSUME ServedAssumption == Served \subseteq Tasks
ASSUME BoundsAssumption == MaxTasks \in Nat /\ MaxCycles \in Nat \ {0}

VARIABLE run   \* the run of this process, or how the last one ended

runVars == <<vars, run>>

\* What the summary of a run tells: "idle" is a summary that is not blocked,
\* and it is also all that is left of a run its task limit cut off.
Endings ==
  {"never_ran", "idle", "failed", "no_worker", "max_cycles", "cancelled",
   "killed"}

\* dispatched, cycles: the counters of the summary.  queue: what is left of
\* the snapshot.  unserved: the tasks of the snapshot without a worker.
RunTypeOK ==
  /\ TypeOK
  /\ run \in [phase : {"off", "scan", "work"}, ended : Endings,
              queue : SUBSET Tasks, unserved : SUBSET Tasks,
              progressed : BOOLEAN, dispatched : 0..MaxTasks,
              cycles : 0..MaxCycles]

ReadyTasks == {t \in Tasks : taskStatus[t] = "ready"}

Off(ending) ==
  [phase |-> "off", ended |-> ending, queue |-> {}, unserved |-> {},
   progressed |-> FALSE, dispatched |-> 0, cycles |-> 0]

\* The last lines of the function: at the cycle bound no run is idle.
EndRun(ending, cycles) ==
  run' = Off(IF cycles >= MaxCycles /\ ending = "idle"
               THEN "max_cycles" ELSE ending)

-----------------------------------------------------------------------------

\* `vedaws run', or a caller of run_until_idle.
StartRun ==
  /\ run.phase = "off"
  /\ dispatch = Idle
  /\ run' = [Off(run.ended) EXCEPT !.phase = "scan"]
  /\ UNCHANGED vars

\* Mutant: one cycle too many.
MayCycleOnceMore == run.dispatched < MaxTasks /\ run.cycles <= MaxCycles

\* The condition of the loop.
MayCycle == run.dispatched < MaxTasks /\ run.cycles < MaxCycles

\* Mutant: a cycle is not counted.
BeginCycleUncounted ==
  /\ run.phase = "scan"
  /\ MayCycle
  /\ UNCHANGED vars
  /\ IF ReadyTasks = {}
       THEN EndRun("idle", run.cycles)
       ELSE run' = [run EXCEPT !.phase = "work", !.queue = ReadyTasks,
                               !.unserved = {}, !.progressed = FALSE]

\* A snapshot of the ready tasks; with none the run is over.
BeginCycle ==
  /\ run.phase = "scan"
  /\ MayCycle
  /\ UNCHANGED vars
  /\ IF ReadyTasks = {}
       THEN EndRun("idle", run.cycles + 1)
       ELSE run' = [run EXCEPT !.phase = "work", !.cycles = @ + 1,
                               !.queue = ReadyTasks, !.unserved = {},
                               !.progressed = FALSE]

\* stop_requested answers yes, at the top of the loop.
Cancel ==
  /\ run.phase = "scan"
  /\ MayCycle
  /\ EndRun("cancelled", run.cycles)
  /\ UNCHANGED vars

\* The condition of the loop no longer holds.  The task limit leaves no trace.
StopAtBound ==
  /\ run.phase = "scan"
  /\ ~MayCycle
  /\ EndRun("idle", run.cycles)
  /\ UNCHANGED vars

\* The dispatcher is offered task t, the first of what is left.
Offered(t) ==
  /\ run.phase = "work"
  /\ dispatch = Idle
  /\ run.dispatched < MaxTasks
  /\ t \in run.queue
  /\ \A u \in run.queue : Rank[t] <= Rank[u]

\* SKIPPED: the task is no longer ready, or the project state forbids it.
SkipTask(t) ==
  /\ Offered(t)
  /\ \/ taskStatus[t] # "ready"
     \/ t \in Served /\ projectState \notin DispatchAllowed
  /\ run' = [run EXCEPT !.queue = @ \ {t}]
  /\ UNCHANGED vars

\* NO_WORKER, which the dispatcher finds out before it looks at the state.
MissWorker(t) ==
  /\ Offered(t)
  /\ taskStatus[t] = "ready"
  /\ t \notin Served
  /\ run' = [run EXCEPT !.queue = @ \ {t}, !.unserved = @ \cup {t}]
  /\ UNCHANGED vars

DispatchOffered(t) ==
  /\ Offered(t)
  /\ t \in Served
  /\ PrepareDispatch(t)
  /\ run' = [run EXCEPT !.queue = @ \ {t}]

\* The handover of the task to its worker, in a run or for a single task.
HandOver ==
  /\ MarkDispatched \/ MarkRunning
  /\ UNCHANGED run

\* Mutant: the failure of a worker that raised is not recorded.
FinishDispatchUnrecorded(success) ==
  /\ IF success THEN RecordWorkerOutcome(success)
     ELSE /\ dispatch.step = "running"
          /\ dispatch' = Idle
          /\ UNCHANGED <<taskStatus, workflowStatus, projectState>>
  /\ IF run.phase = "off" THEN UNCHANGED run
     ELSE IF success
       THEN run' = [run EXCEPT !.dispatched = @ + 1, !.progressed = TRUE]
       ELSE EndRun("failed", run.cycles)

(***************************************************************************)
(* The dispatcher returns.  A success is counted and the snapshot goes on; *)
(* a failure, or an error of the worker, blocks the run and ends it.       *)
(***************************************************************************)
FinishDispatch(success) ==
  /\ RecordWorkerOutcome(success)
  /\ IF run.phase = "off" THEN UNCHANGED run
     ELSE IF success
       THEN run' = [run EXCEPT !.dispatched = @ + 1, !.progressed = TRUE]
       ELSE EndRun("failed", run.cycles)

\* Mutant: every retry of the tasks nobody can do blocks the run.
EndCycleAnyUnserved ==
  /\ run.phase = "work"
  /\ dispatch = Idle
  /\ run.queue = {} \/ run.dispatched = MaxTasks
  /\ IF run.unserved # {}
       THEN EndRun("no_worker", run.cycles)
       ELSE run' = [run EXCEPT !.phase = "scan", !.queue = {}]
  /\ UNCHANGED vars

(***************************************************************************)
(* The snapshot is used up.  Tasks without a worker are tried again in the *)
(* next cycle only if this one made progress.                              *)
(***************************************************************************)
EndCycle ==
  /\ run.phase = "work"
  /\ dispatch = Idle
  /\ run.queue = {} \/ run.dispatched = MaxTasks
  /\ IF run.unserved # {} /\ ~run.progressed
       THEN EndRun("no_worker", run.cycles)
       ELSE run' = [run EXCEPT !.phase = "scan", !.queue = {}]
  /\ UNCHANGED vars

-----------------------------------------------------------------------------

\* `workers run <worker> <task>': the dispatcher without the loop.
DispatchOne(t) ==
  /\ run.phase = "off"
  /\ t \in Served
  /\ PrepareDispatch(t)
  /\ UNCHANGED run

\* The commands of other processes, between the runs.
OtherCommand ==
  /\ run.phase = "off"
  /\ \/ \E w \in Workflows : Activate(w)
     \/ \E t \in Tasks : CompleteTask(t) \/ FailTask(t)
     \/ \E target \in ProjectStates : HumanTransition(target)
  /\ UNCHANGED run

\* The process is killed in the middle of a dispatch, and its run with it.
KillRun ==
  /\ Crash
  /\ run' = Off("killed")

RunInit == Init /\ run = Off("never_ran")

\* What the process does by itself once a run or a dispatch has begun.
RunStep ==
  \/ BeginCycle \/ StopAtBound \/ EndCycle \/ HandOver
  \/ \E t \in Tasks : SkipTask(t) \/ MissWorker(t) \/ DispatchOffered(t)
  \/ \E success \in BOOLEAN : FinishDispatch(success)

RunNext ==
  \/ RunStep
  \/ StartRun \/ Cancel \/ KillRun \/ OtherCommand
  \/ \E t \in Tasks : DispatchOne(t)

(***************************************************************************)
(* The loop and the dispatcher are straight-line code: they go on as long  *)
(* as the process lives, provided every worker returns.  Nothing obliges   *)
(* anybody to start, cancel or kill a run.                                 *)
(***************************************************************************)
RunSpec == RunInit /\ [][RunNext]_runVars /\ WF_runVars(RunStep)

-----------------------------------------------------------------------------
(* Properties.                                                             *)

\* A run ends, however often the snapshot is taken again.
RunTerminates == run.phase # "off" ~> run.phase = "off"

(***************************************************************************)
(* A run does not leave work behind: when it ends by itself, other than    *)
(* with its task limit used up or on a failure, a ready task that has a    *)
(* worker remains only because the project state forbids dispatch.  The    *)
(* loop never learns that: it repeats its cycles up to the bound and       *)
(* reports the bound.  A cycle bound no larger than the longest chain of   *)
(* tasks would cut work off too (the command allows 1000 cycles and 10000  *)
(* tasks).                                                                 *)
(***************************************************************************)
NoServedTaskLeft ==
  [][ /\ run.phase # "off" /\ run'.phase = "off"
      /\ \/ run'.ended \in {"no_worker", "max_cycles"}
         \/ run'.ended = "idle" /\ run.dispatched < MaxTasks
      => projectState \notin DispatchAllowed \/ ReadyTasks \cap Served = {}
    ]_runVars

(***************************************************************************)
(* What a run reports it can account for: one that says it is idle leaves  *)
(* no ready task or has used up its task limit (which of the two it does   *)
(* not say), one that says a task failed leaves a failed task, and one     *)
(* that says nobody can do the rest leaves a task without a worker.        *)
(***************************************************************************)
EndingStep ==
  run.phase # "off" /\ run'.phase = "off" =>
    /\ run'.ended = "idle" => ReadyTasks = {} \/ run.dispatched = MaxTasks
    /\ run'.ended = "failed" =>
         \E t \in Tasks : taskStatus[t] # "failed" /\ taskStatus'[t] = "failed"
    /\ run'.ended = "no_worker" => ReadyTasks \ Served # {}

EndingTruthful == [][EndingStep]_runVars

=============================================================================
