------------------------- MODULE RunUntilIdleProofs --------------------------
(***************************************************************************)
(* Proofs about the run loop, for every order of the snapshots, every set  *)
(* of tasks with a worker and every pair of bounds.                        *)
(*                                                                         *)
(* What the loop does to the engine is what the engine does, so the        *)
(* invariant of WorkflowEngineProofs carries over.  Added to it is what    *)
(* the loop knows: that the task at work was within the limit and has a    *)
(* worker, and that a task without one is still ready as long as its cycle *)
(* has made no progress.  A second invariant counts cycles against tasks   *)
(* recorded: it is why a run that ends leaves no work behind.              *)
(***************************************************************************)
EXTENDS RunUntilIdle, WorkflowEngineProofs, FiniteSetTheorems

Runs ==
  [phase : {"off", "scan", "work"}, ended : Endings,
   queue : SUBSET Tasks, unserved : SUBSET Tasks,
   progressed : BOOLEAN, dispatched : 0..MaxTasks, cycles : 0..MaxCycles]

\* A dispatch of the loop was within the limit and has a worker.
Within ==
  /\ run.phase = "scan" => dispatch = Idle
  /\ run.phase = "work" /\ dispatch # Idle =>
       run.dispatched < MaxTasks /\ dispatch.task \in Served

\* What nobody could do is there still, unless the cycle made progress.
Waiting ==
  /\ run.unserved \cap Served = {}
  /\ run.phase = "work" /\ ~run.progressed =>
       \A t \in run.unserved : taskStatus[t] = "ready"

RunIInv == IInv /\ run \in Runs /\ Within /\ Waiting

-----------------------------------------------------------------------------
(* Lemmas.                                                                 *)

\* A run that is off is one.
LEMMA OffType ==
  ASSUME NEW ending \in Endings
  PROVE  /\ Off(ending) \in Runs
         /\ Off(ending).phase = "off" /\ Off(ending).ended = ending
         /\ Off(ending).unserved = {}
BY BoundsAssumption DEF Off, Runs

\* How EndRun ends a run.
LEMMA EndRunFacts ==
  ASSUME NEW ending \in Endings, NEW cycles, EndRun(ending, cycles)
  PROVE  /\ run' \in Runs /\ run'.phase = "off" /\ run'.unserved = {}
         /\ run'.ended \in {ending, "max_cycles"}
BY OffType DEF EndRun, Endings

\* The engine's step a step of the loop is, if it is not one of the loop's own.
LEMMA StepRefines ==
  ASSUME [RunNext]_runVars
  PROVE  [Next]_vars
<1>1. CASE BeginCycle \/ StopAtBound \/ EndCycle \/ StartRun \/ Cancel
  BY <1>1 DEF BeginCycle, StopAtBound, EndCycle, StartRun, Cancel
<1>2. CASE HandOver
  BY <1>2 DEF HandOver, Next, DispatchStep
<1>3. CASE \E t \in Tasks : SkipTask(t) \/ MissWorker(t)
  BY <1>3 DEF SkipTask, MissWorker
<1>4. CASE \E t \in Tasks : DispatchOffered(t) \/ DispatchOne(t)
  BY <1>4 DEF DispatchOffered, DispatchOne, Next
<1>5. CASE \E success \in BOOLEAN : FinishDispatch(success)
  BY <1>5 DEF FinishDispatch, Next, DispatchStep
<1>6. CASE KillRun
  BY <1>6 DEF KillRun, Next
<1>7. CASE OtherCommand
  BY <1>7 DEF OtherCommand, Next
<1>8. CASE UNCHANGED runVars
  BY <1>8 DEF runVars
<1> QED
  BY <1>1, <1>2, <1>3, <1>4, <1>5, <1>6, <1>7, <1>8 DEF RunNext, RunStep

-----------------------------------------------------------------------------
(* The invariant.                                                          *)

LEMMA RunInitRunIInv == RunInit => RunIInv
<1> SUFFICES ASSUME RunInit
             PROVE  RunIInv
  OBVIOUS
<1>1. IInv /\ dispatch = Idle
  BY InitIInv DEF RunInit, Init
<1>2. run = Off("never_ran") /\ "never_ran" \in Endings
  BY DEF RunInit, Endings
<1>3. run \in Runs /\ run.phase = "off" /\ run.unserved = {}
  BY <1>2, OffType
<1> QED
  BY <1>1, <1>3 DEF RunIInv, Within, Waiting

\* While the loop is off or looks for work, any change of the engine that
\* leaves no dispatch of the loop behind is none of its concern.
LEMMA RunOver ==
  ASSUME run' \in Runs, run'.phase = "off", run'.unserved = {}
  PROVE  Within' /\ Waiting'
BY DEF Within, Waiting

\* A task the loop was offered is started or left alone.
LEMMA OfferedKeeps ==
  ASSUME RunIInv, NEW t \in Tasks,
         SkipTask(t) \/ MissWorker(t) \/ DispatchOffered(t)
  PROVE  run' \in Runs /\ Within' /\ Waiting'
<1>1. run \in Runs /\ Within /\ Waiting
  BY DEF RunIInv
<1>2. /\ run.phase = "work" /\ run.dispatched < MaxTasks /\ dispatch = Idle
      /\ taskStatus' = taskStatus
  BY DEF SkipTask, MissWorker, DispatchOffered, PrepareDispatch, Offered, vars
<1>3. CASE SkipTask(t)
  <2>1. run' = [run EXCEPT !.queue = @ \ {t}] /\ dispatch' = dispatch
    BY <1>3 DEF SkipTask, vars
  <2>2. run' \in Runs /\ run'.phase = "work" /\ run'.unserved = run.unserved
        /\ run'.progressed = run.progressed
    BY <1>1, <1>2, <2>1 DEF Runs
  <2> QED
    BY <1>1, <1>2, <2>1, <2>2 DEF Within, Waiting
<1>4. CASE MissWorker(t)
  <2>1. /\ run' = [run EXCEPT !.queue = @ \ {t}, !.unserved = @ \cup {t}]
        /\ dispatch' = dispatch /\ taskStatus[t] = "ready" /\ t \notin Served
    BY <1>4 DEF MissWorker, vars
  <2>2. run' \in Runs /\ run'.phase = "work" /\ run'.unserved = run.unserved \cup {t}
        /\ run'.progressed = run.progressed
    BY <1>1, <1>2, <2>1 DEF Runs
  <2> QED
    BY <1>1, <1>2, <2>1, <2>2 DEF Within, Waiting
<1>5. CASE DispatchOffered(t)
  <2>1. /\ run' = [run EXCEPT !.queue = @ \ {t}] /\ t \in Served
        /\ dispatch' = [task |-> t, step |-> "prepared"]
    BY <1>5 DEF DispatchOffered, PrepareDispatch
  <2>2. run' \in Runs /\ run'.phase = "work" /\ run'.unserved = run.unserved
        /\ run'.progressed = run.progressed /\ run'.dispatched = run.dispatched
    BY <1>1, <1>2, <2>1 DEF Runs
  <2> QED
    BY <1>1, <1>2, <2>1, <2>2 DEF Within, Waiting
<1> QED
  BY <1>3, <1>4, <1>5

\* Handing a task over changes the status of that task, which has a worker.
LEMMA HandOverKeeps ==
  ASSUME RunIInv, HandOver
  PROVE  run' \in Runs /\ Within' /\ Waiting'
<1>1. /\ run' = run /\ dispatch # Idle
      /\ dispatch' = [dispatch EXCEPT !.step = IF @ = "prepared" THEN "assigned" ELSE "running"]
      /\ \E status \in {"dispatched", "running"} :
           taskStatus' = [taskStatus EXCEPT ![dispatch.task] = status]
  BY DEF HandOver, MarkDispatched, MarkRunning, Idle
<1>2. /\ run \in Runs /\ Within /\ Waiting
      /\ taskStatus \in [Tasks -> Reached]
      /\ dispatch \in [task : Tasks \cup {NoTask},
                       step : {"idle", "prepared", "assigned", "running"}]
  BY DEF RunIInv, IInv, Typed
<1>3. dispatch'.task = dispatch.task
  BY <1>1, <1>2
<1>4. Within'
  BY <1>1, <1>2, <1>3 DEF Within
<1>5. ASSUME run.phase = "work", ~run.progressed, NEW t \in run.unserved
      PROVE  taskStatus'[t] = "ready"
  <2>1. t \in Tasks /\ taskStatus[t] = "ready" /\ t # dispatch.task
    BY <1>1, <1>2, <1>5 DEF Runs, Within, Waiting
  <2> QED
    BY <1>1, <1>2, <2>1
<1> QED
  BY <1>1, <1>2, <1>4, <1>5 DEF Waiting

\* An outcome is counted within the limit, or ends the run.
LEMMA FinishKeeps ==
  ASSUME RunIInv, NEW success \in BOOLEAN, FinishDispatch(success)
  PROVE  run' \in Runs /\ Within' /\ Waiting'
<1>1. run \in Runs /\ Within /\ Waiting
  BY DEF RunIInv
<1>2. dispatch # Idle /\ dispatch' = Idle
  BY DEF FinishDispatch, RecordWorkerOutcome, Idle
<1>3. CASE run.phase = "off"
  <2>1. run' = run
    BY <1>3 DEF FinishDispatch
  <2> QED
    BY <1>1, <1>3, <2>1 DEF Within, Waiting
<1>4. CASE run.phase # "off" /\ success
  <2>1. run' = [run EXCEPT !.dispatched = @ + 1, !.progressed = TRUE]
    BY <1>4 DEF FinishDispatch
  <2>2. run.dispatched + 1 \in 0 .. MaxTasks
    <3>1. run.phase = "work"
      BY <1>1, <1>2, <1>4 DEF Runs, Within
    <3>2. run.dispatched \in 0 .. MaxTasks /\ run.dispatched < MaxTasks
      BY <1>1, <1>2, <3>1 DEF Runs, Within
    <3> QED
      BY <3>2, BoundsAssumption
  <2>3. run' \in Runs /\ run'.unserved = run.unserved /\ run'.progressed = TRUE
    BY <1>1, <2>1, <2>2 DEF Runs
  <2> QED
    BY <1>1, <1>2, <2>3 DEF Within, Waiting
<1>5. CASE run.phase # "off" /\ ~success
  <2>1. EndRun("failed", run.cycles) /\ "failed" \in Endings
    BY <1>5 DEF FinishDispatch, Endings
  <2> QED
    BY <2>1, EndRunFacts, RunOver
<1> QED
  BY <1>3, <1>4, <1>5

\* Beginning and ending cycles and runs.
LEMMA CycleKeeps ==
  ASSUME RunIInv,
         StartRun \/ BeginCycle \/ Cancel \/ StopAtBound \/ EndCycle
  PROVE  run' \in Runs /\ Within' /\ Waiting'
<1>1. run \in Runs /\ Within /\ Waiting
  BY DEF RunIInv
<1>2. taskStatus' = taskStatus /\ dispatch' = dispatch /\ dispatch = Idle
  BY <1>1 DEF StartRun, BeginCycle, Cancel, StopAtBound, EndCycle, vars, Within
<1>3. {"idle", "no_worker", "cancelled"} \subseteq Endings
  BY DEF Endings
<1>4. CASE StartRun
  <2>1. run' = [Off(run.ended) EXCEPT !.phase = "scan"]
    BY <1>4 DEF StartRun
  <2>2. run' \in Runs /\ run'.phase = "scan" /\ run'.unserved = {}
    <3>1. run.ended \in Endings
      BY <1>1 DEF Runs
    <3>2. Off(run.ended) \in Runs /\ Off(run.ended).unserved = {}
      BY <3>1, OffType
    <3> QED
      BY <2>1, <3>2 DEF Runs
  <2> QED
    BY <1>2, <2>2 DEF Within, Waiting
<1>5. CASE Cancel \/ StopAtBound
  BY <1>3, <1>5, EndRunFacts, RunOver DEF Cancel, StopAtBound
<1>6. CASE BeginCycle
  <2>1. CASE ReadyTasks = {}
    BY <1>3, <1>6, <2>1, EndRunFacts, RunOver DEF BeginCycle
  <2>2. CASE ReadyTasks # {}
    <3>1. /\ run' = [run EXCEPT !.phase = "work", !.cycles = @ + 1,
                                !.queue = ReadyTasks, !.unserved = {},
                                !.progressed = FALSE]
          /\ run.cycles < MaxCycles
      BY <1>6, <2>2 DEF BeginCycle, MayCycle
    <3>2. run.cycles + 1 \in 0 .. MaxCycles
      <4>1. run.cycles \in 0 .. MaxCycles
        BY <1>1 DEF Runs
      <4> QED
        BY <3>1, <4>1, BoundsAssumption
    <3>3. ReadyTasks \subseteq Tasks
      BY DEF ReadyTasks
    <3>4. run' \in Runs /\ run'.unserved = {} /\ run'.phase = "work"
      BY <1>1, <3>1, <3>2, <3>3 DEF Runs
    <3> QED
      BY <1>2, <3>4 DEF Within, Waiting
  <2> QED
    BY <2>1, <2>2
<1>7. CASE EndCycle
  <2>1. \/ EndRun("no_worker", run.cycles)
        \/ run' = [run EXCEPT !.phase = "scan", !.queue = {}]
    BY <1>7 DEF EndCycle
  <2>2. CASE EndRun("no_worker", run.cycles)
    BY <1>3, <2>2, EndRunFacts, RunOver
  <2>3. CASE run' = [run EXCEPT !.phase = "scan", !.queue = {}]
    <3>1. run' \in Runs /\ run'.phase = "scan" /\ run'.unserved = run.unserved
      BY <1>1, <2>3 DEF Runs
    <3> QED
      BY <1>1, <1>2, <3>1 DEF Within, Waiting
  <2> QED
    BY <2>1, <2>2, <2>3
<1> QED
  BY <1>4, <1>5, <1>6, <1>7

LEMMA RunNextKeeps == RunIInv /\ [RunNext]_runVars => RunIInv'
<1> SUFFICES ASSUME RunIInv, [RunNext]_runVars
             PROVE  RunIInv'
  OBVIOUS
<1>1. IInv'
  BY StepRefines, NextIInv DEF RunIInv
<1>2. CASE StartRun \/ BeginCycle \/ Cancel \/ StopAtBound \/ EndCycle
  BY <1>1, <1>2, CycleKeeps DEF RunIInv
<1>3. CASE HandOver
  BY <1>1, <1>3, HandOverKeeps DEF RunIInv
<1>4. CASE \E t \in Tasks : SkipTask(t) \/ MissWorker(t) \/ DispatchOffered(t)
  BY <1>1, <1>4, OfferedKeeps DEF RunIInv
<1>5. CASE \E success \in BOOLEAN : FinishDispatch(success)
  BY <1>1, <1>5, FinishKeeps DEF RunIInv
<1>6. CASE KillRun
  <2>1. run' = Off("killed") /\ "killed" \in Endings
    BY <1>6 DEF KillRun, Endings
  <2> QED
    BY <1>1, <2>1, OffType, RunOver DEF RunIInv
<1>7. CASE OtherCommand \/ \E t \in Tasks : DispatchOne(t)
  <2>1. run' = run /\ run.phase = "off"
    BY <1>7 DEF OtherCommand, DispatchOne
  <2> QED
    BY <1>1, <2>1 DEF RunIInv, Within, Waiting
<1>8. CASE UNCHANGED runVars
  BY <1>1, <1>8 DEF runVars, vars, RunIInv, Within, Waiting
<1> QED
  BY <1>2, <1>3, <1>4, <1>5, <1>6, <1>7, <1>8 DEF RunNext, RunStep

-----------------------------------------------------------------------------
(* The theorems.                                                           *)

\* Every behaviour of the run loop is one of the engine (its safety part is
\* all there is to the engine's specification).
THEOREM RunImplementsEngine == RunSpec => Spec
<1>1. RunInit => Init
  BY DEF RunInit
<1>2. [RunNext]_runVars => [Next]_vars
  BY StepRefines
<1> QED
  BY <1>1, <1>2, PTL DEF RunSpec, Spec

(***************************************************************************)
(* The strengthened invariant of the run loop (run_until_idle): what its   *)
(* counters, its lists and its dispatch in hand have to do with each other *)
(* holds after every step of a run, of a kill and of any other command.    *)
(***************************************************************************)
THEOREM RunInductive == RunSpec => []RunIInv
<1> QED
  BY RunInitRunIInv, RunNextKeeps, PTL DEF RunSpec

\* Type correctness: in particular the counters stay within their bounds
\* although they are tested in several places (run_until_idle).
THEOREM RunTypeCorrect == RunSpec => []RunTypeOK
<1>1. RunIInv => RunTypeOK
  <2>1. IInv => TypeOK
    BY DEF IInv, Typed, TypeOK, Reached, TaskStatuses
  <2> QED
    BY <2>1 DEF RunIInv, RunTypeOK, Runs
<1> QED
  BY <1>1, RunInductive, PTL

\* A recorded failure is new: the task was running until then.
LEMMA FailureIsNew ==
  ASSUME IInv, RecordWorkerOutcome(FALSE)
  PROVE  \E t \in Tasks : taskStatus[t] # "failed" /\ taskStatus'[t] = "failed"
<1> DEFINE t == dispatch.task
<1>1. t \in Tasks /\ taskStatus[t] = "running"
  BY DEF RecordWorkerOutcome, IInv, Owned
<1>2. taskStatus' = OutcomeTasks(t, FALSE, workflowStatus, taskStatus)
  BY DEF RecordWorkerOutcome, ApplyTaskOutcome
<1>3. taskStatus'[t] = "failed"
  BY <1>1, <1>2, OutcomeFacts
<1> QED
  BY <1>1, <1>3

LEMMA NextEndingStep ==
  ASSUME RunIInv, [RunNext]_runVars
  PROVE  EndingStep
<1> SUFFICES ASSUME run.phase # "off", run'.phase = "off"
             PROVE  /\ run'.ended = "idle" =>
                         ReadyTasks = {} \/ run.dispatched = MaxTasks
                    /\ run'.ended = "failed" =>
                         \E t \in Tasks :
                           taskStatus[t] # "failed" /\ taskStatus'[t] = "failed"
                    /\ run'.ended = "no_worker" => ReadyTasks \ Served # {}
  BY DEF EndingStep
<1>1. run \in Runs /\ Waiting
  BY DEF RunIInv
<1>2. {"idle", "no_worker", "cancelled", "failed"} \subseteq Endings
  BY DEF Endings
<1>3. CASE Cancel
  <2>1. run'.ended \in {"cancelled", "max_cycles"}
    BY <1>2, <1>3, EndRunFacts DEF Cancel
  <2> QED
    BY <2>1
<1>10. CASE StopAtBound
  <2>1. run'.ended \in {"idle", "max_cycles"}
    BY <1>2, <1>10, EndRunFacts DEF StopAtBound
  <2>2. run'.ended = "idle" => run.cycles < MaxCycles
    <3>1. run.cycles \in Nat /\ MaxCycles \in Nat
      BY <1>1, BoundsAssumption DEF Runs
    <3> QED
      BY <1>10, <3>1 DEF StopAtBound, EndRun, Off
  <2>3. ~(run.dispatched < MaxTasks /\ run.cycles < MaxCycles)
    BY <1>10 DEF StopAtBound, MayCycle
  <2>4. run.dispatched \in 0 .. MaxTasks /\ MaxTasks \in Nat
    BY <1>1, BoundsAssumption DEF Runs
  <2> QED
    BY <2>1, <2>2, <2>3, <2>4
<1>4. CASE BeginCycle
  <2>1. CASE ReadyTasks = {}
    <3>1. run'.ended \in {"idle", "max_cycles"}
      BY <1>2, <1>4, <2>1, EndRunFacts DEF BeginCycle
    <3> QED
      BY <2>1, <3>1
  <2>2. CASE ReadyTasks # {}
    <3>1. run'.phase = "work"
      BY <1>1, <1>4, <2>2 DEF BeginCycle, Runs
    <3> QED
      BY <3>1
  <2> QED
    BY <2>1, <2>2
<1>5. CASE EndCycle
  <2>1. CASE run.unserved # {} /\ ~run.progressed
    <3>1. run'.ended \in {"no_worker", "max_cycles"}
      BY <1>2, <1>5, <2>1, EndRunFacts DEF EndCycle
    <3>2. PICK t \in run.unserved : TRUE
      BY <2>1
    <3>3. t \in Tasks /\ t \notin Served /\ taskStatus[t] = "ready"
      BY <1>1, <1>5, <2>1, <3>2 DEF EndCycle, Runs, Waiting
    <3> QED
      BY <3>1, <3>3 DEF ReadyTasks
  <2>2. CASE ~(run.unserved # {} /\ ~run.progressed)
    <3>1. run' = [run EXCEPT !.phase = "scan", !.queue = {}]
      BY <1>5, <2>2 DEF EndCycle
    <3>2. run'.phase = "scan"
      BY <1>1, <3>1 DEF Runs
    <3> QED
      BY <3>2
  <2> QED
    BY <2>1, <2>2
<1>6. CASE \E success \in BOOLEAN : FinishDispatch(success)
  <2>1. PICK success \in BOOLEAN : FinishDispatch(success)
    BY <1>6
  <2>2. CASE success
    <3>1. run' = [run EXCEPT !.dispatched = @ + 1, !.progressed = TRUE]
      BY <2>1, <2>2 DEF FinishDispatch
    <3>2. run'.phase = run.phase
      BY <1>1, <3>1 DEF Runs
    <3> QED
      BY <3>2
  <2>3. CASE ~success
    <3>1. EndRun("failed", run.cycles) /\ RecordWorkerOutcome(success) /\ success = FALSE
      BY <2>1, <2>3 DEF FinishDispatch
    <3>2. \E t \in Tasks : taskStatus[t] # "failed" /\ taskStatus'[t] = "failed"
      BY <3>1, FailureIsNew DEF RunIInv
    <3>3. run'.ended \in {"failed", "max_cycles"}
      BY <1>2, <3>1, EndRunFacts
    <3> QED
      BY <3>2, <3>3
  <2> QED
    BY <2>2, <2>3
<1>7. CASE KillRun
  <2>1. run'.ended = "killed"
    BY <1>7 DEF KillRun, Off
  <2> QED
    BY <2>1
<1>8. CASE \E t \in Tasks : SkipTask(t) \/ MissWorker(t) \/ DispatchOffered(t)
  <2>1. run'.phase = run.phase
    BY <1>1, <1>8 DEF SkipTask, MissWorker, DispatchOffered, Runs
  <2> QED
    BY <2>1
<1>9. CASE StartRun \/ HandOver \/ OtherCommand
             \/ (\E t \in Tasks : DispatchOne(t)) \/ UNCHANGED runVars
  <2>1. run'.phase = run.phase
    BY <1>9 DEF StartRun, HandOver, OtherCommand, DispatchOne, runVars
  <2> QED
    BY <2>1
<1> QED
  BY <1>10, <1>3, <1>4, <1>5, <1>6, <1>7, <1>8, <1>9 DEF RunNext, RunStep

(***************************************************************************)
(* What a run reports it can account for (run_until_idle), for every order *)
(* of the snapshot and whatever the bounds: "no worker" is only said while *)
(* a ready task is there that nobody can do, which the retry after a cycle *)
(* with progress makes far from obvious.  "Idle" says less: with its task  *)
(* limit used up a run is called idle whatever is ready still.             *)
(***************************************************************************)
THEOREM RunEndingTruthful == RunSpec => EndingTruthful
<1>1. RunIInv /\ [RunNext]_runVars => [EndingStep]_runVars
  BY NextEndingStep
<1> QED
  BY <1>1, RunInductive, PTL DEF RunSpec, EndingTruthful

-----------------------------------------------------------------------------
(***************************************************************************)
(* No work left behind.  A cycle either records a task or finds that the   *)
(* project state forbids dispatch, and then so does every later one.  With *)
(* at least as many cycles as tasks the bound is therefore reached only    *)
(* when all are recorded or the state forbids dispatch.                    *)
(***************************************************************************)

RecordedTasks == {t \in Tasks : taskStatus[t] = "recorded"}

\* There are cycles enough for every task: the loop allows 1000 unless its
\* caller says otherwise (run_until_idle), and a project has fewer tasks.
EnoughCycles == IsFiniteSet(Tasks) /\ Cardinality(Tasks) <= MaxCycles

\* The project state refuses whatever the loop offers.
Refused == dispatch = Idle /\ projectState \notin DispatchAllowed

\* A ready task is on offer still, or nobody can do it, or it was refused.
Accounted ==
  run.phase = "work" /\ ~run.progressed =>
    /\ run.dispatched < MaxTasks
    /\ dispatch = Idle =>
         /\ ReadyTasks # {}
         /\ \A t \in ReadyTasks : t \in run.queue \cup run.unserved \/ Refused

\* Each cycle but one in hand has recorded a task, unless all is refused.
Counted ==
  \/ run.phase = "off"
  \/ Refused
  \/ run.cycles <= run.dispatched
  \/ run.phase = "work" /\ ~run.progressed /\ run.cycles <= run.dispatched + 1

\* What the run counts has been recorded.
Backed ==
  run.phase # "off" => run.dispatched <= Cardinality(RecordedTasks)

LeftIInv == RunIInv /\ Accounted /\ Counted /\ Backed

\* The recorded tasks are finitely many; when all are, none is ready.
LEMMA RecordedFinite ==
  ASSUME EnoughCycles
  PROVE  /\ IsFiniteSet(RecordedTasks) /\ Cardinality(RecordedTasks) \in Nat
         /\ Cardinality(Tasks) \in Nat
         /\ Cardinality(RecordedTasks) <= Cardinality(Tasks)
         /\ Cardinality(RecordedTasks) = Cardinality(Tasks) => ReadyTasks = {}
<1>1. RecordedTasks \in SUBSET Tasks /\ IsFiniteSet(Tasks)
  BY DEF RecordedTasks, EnoughCycles
<1>2. /\ IsFiniteSet(RecordedTasks)
      /\ Cardinality(RecordedTasks) <= Cardinality(Tasks)
      /\ Cardinality(Tasks) = Cardinality(RecordedTasks) => Tasks = RecordedTasks
  BY <1>1, FS_Subset
<1>3. Cardinality(RecordedTasks) \in Nat /\ Cardinality(Tasks) \in Nat
  BY <1>1, <1>2, FS_CardinalityType
<1>4. Tasks = RecordedTasks => ReadyTasks = {}
  BY DEF RecordedTasks, ReadyTasks
<1> QED
  BY <1>2, <1>3, <1>4

\* A success adds its task to the recorded ones.
LEMMA SuccessCounts ==
  ASSUME EnoughCycles, IInv, RecordWorkerOutcome(TRUE)
  PROVE  Cardinality(RecordedTasks') >= Cardinality(RecordedTasks) + 1
<1> DEFINE t == dispatch.task
<1>1. t \in Tasks /\ taskStatus[t] = "running"
  BY DEF RecordWorkerOutcome, IInv, Owned
<1>2. taskStatus' = OutcomeTasks(t, TRUE, workflowStatus, taskStatus)
  BY DEF RecordWorkerOutcome, ApplyTaskOutcome
<1>3. \A success \in BOOLEAN :
        LET ts == OutcomeTasks(t, success, workflowStatus, taskStatus) IN
        /\ ts[t] = IF success THEN "recorded" ELSE "failed"
        /\ \A u \in Tasks \ {t} :
             \/ ts[u] = taskStatus[u]
             \/ taskStatus[u] = "pending" /\ ts[u] = "ready"
  <2> TAKE success \in BOOLEAN
  <2> DEFINE ts == OutcomeTasks(t, success, workflowStatus, taskStatus)
  <2>1. taskStatus[t] \in {"ready", "running"} /\ t \in Tasks
    BY <1>1
  <2>2. ts = OutcomeTasks(t, success, workflowStatus, taskStatus)
    OBVIOUS
  <2> HIDE DEF ts, t
  <2>3. /\ ts[t] = IF success THEN "recorded" ELSE "failed"
        /\ \A u \in Tasks \ {t} :
             \/ ts[u] = taskStatus[u]
             \/ taskStatus[u] = "pending" /\ ts[u] = "ready"
    BY <2>1, <2>2, OutcomeFacts
  <2> QED
    BY <2>3 DEF ts
<1> HIDE DEF t
<1>4. RecordedTasks' = RecordedTasks \cup {t} /\ t \notin RecordedTasks
  <2>1. /\ taskStatus'[t] = "recorded"
        /\ \A u \in Tasks \ {t} :
             \/ taskStatus'[u] = taskStatus[u]
             \/ taskStatus[u] = "pending" /\ taskStatus'[u] = "ready"
    BY <1>2, <1>3
  <2> QED
    BY <1>1, <2>1 DEF RecordedTasks
<1>5. IsFiniteSet(RecordedTasks) /\ Cardinality(RecordedTasks) \in Nat
  BY RecordedFinite
<1>6. Cardinality(RecordedTasks \cup {t}) = Cardinality(RecordedTasks) + 1
  BY <1>4, <1>5, FS_AddElement
<1> QED
  BY <1>4, <1>5, <1>6

\* Handing a task over records none.
LEMMA HandOverRecords ==
  ASSUME IInv, HandOver
  PROVE  RecordedTasks' = RecordedTasks
<1>1. /\ dispatch.task \in Tasks /\ taskStatus \in [Tasks -> Reached]
      /\ taskStatus[dispatch.task] # "recorded"
      /\ \E status \in {"dispatched", "running"} :
           taskStatus' = [taskStatus EXCEPT ![dispatch.task] = status]
  BY DEF HandOver, MarkDispatched, MarkRunning, IInv, Typed, Owned
<1> QED
  BY <1>1 DEF RecordedTasks

\* A run that is over has nothing to account for.
LEMMA LeftOver ==
  ASSUME run'.phase = "off"
  PROVE  Accounted' /\ Counted' /\ Backed'
BY DEF Accounted, Counted, Backed

\* What is offered is refused, missed or started.
LEMMA OfferedLeft ==
  ASSUME LeftIInv, NEW t \in Tasks,
         SkipTask(t) \/ MissWorker(t) \/ DispatchOffered(t)
  PROVE  Accounted' /\ Counted' /\ Backed'
<1>1. /\ run \in Runs /\ Accounted /\ Counted /\ Backed
      /\ run.phase = "work" /\ dispatch = Idle
      /\ taskStatus' = taskStatus
  BY DEF LeftIInv, RunIInv, SkipTask, MissWorker, DispatchOffered,
         PrepareDispatch, Offered, vars
<1>2. \E unserved \in SUBSET Tasks :
        run' = [run EXCEPT !.queue = @ \ {t}, !.unserved = unserved]
  <2>1. run' = [run EXCEPT !.queue = @ \ {t}, !.unserved = run.unserved]
        \/ run' = [run EXCEPT !.queue = @ \ {t}, !.unserved = run.unserved \cup {t}]
    BY <1>1 DEF SkipTask, MissWorker, DispatchOffered, Runs
  <2>2. run.unserved \in SUBSET Tasks /\ run.unserved \cup {t} \in SUBSET Tasks
    BY <1>1 DEF Runs
  <2> QED
    BY <2>1, <2>2, Zenon
<1>3. /\ run'.phase = "work" /\ run'.progressed = run.progressed
      /\ run'.dispatched = run.dispatched /\ run'.cycles = run.cycles
      /\ run'.queue = run.queue \ {t}
  BY <1>1, <1>2 DEF Runs
<1>4. Backed' /\ ReadyTasks' = ReadyTasks
  BY <1>1, <1>3 DEF Backed, RecordedTasks, ReadyTasks
<1>5. CASE SkipTask(t)
  <2>1. /\ dispatch' = dispatch /\ projectState' = projectState
        /\ run'.unserved = run.unserved
        /\ t \notin ReadyTasks \/ Refused
    BY <1>1, <1>5 DEF SkipTask, ReadyTasks, Refused, Runs, vars
  <2>2. Refused' <=> Refused
    BY <2>1 DEF Refused
  <2>3. Accounted'
    BY <1>1, <1>3, <1>4, <2>1, <2>2 DEF Accounted
  <2> QED
    BY <1>1, <1>3, <1>4, <2>2, <2>3 DEF Counted
<1>6. CASE MissWorker(t)
  <2>1. /\ dispatch' = dispatch /\ projectState' = projectState
        /\ run'.unserved = run.unserved \cup {t}
    BY <1>1, <1>6 DEF MissWorker, Runs, vars
  <2>2. Refused' <=> Refused
    BY <2>1 DEF Refused
  <2>3. Accounted'
    BY <1>1, <1>3, <1>4, <2>1, <2>2 DEF Accounted
  <2> QED
    BY <1>1, <1>3, <1>4, <2>2, <2>3 DEF Counted
<1>7. CASE DispatchOffered(t)
  <2>1. /\ dispatch' # Idle /\ ~Refused
        /\ run.dispatched < MaxTasks
    BY <1>7, NoTaskAssumption
       DEF DispatchOffered, Offered, PrepareDispatch, Refused, Idle
  <2>2. Accounted'
    BY <1>3, <2>1, BoundsAssumption DEF Accounted
  <2> QED
    BY <1>1, <1>3, <1>4, <2>1, <2>2 DEF Counted
<1> QED
  BY <1>5, <1>6, <1>7

\* The handover of a task changes no number.
LEMMA HandOverLeft ==
  ASSUME LeftIInv, HandOver
  PROVE  Accounted' /\ Counted' /\ Backed'
<1>1. Accounted /\ Counted /\ Backed /\ run' = run
  BY DEF LeftIInv, HandOver
<1>2. RecordedTasks' = RecordedTasks
  BY HandOverRecords DEF LeftIInv, RunIInv
<1>3. dispatch # Idle /\ dispatch' # Idle
  <2>1. dispatch \in [task : Tasks \cup {NoTask},
                      step : {"idle", "prepared", "assigned", "running"}]
    BY DEF LeftIInv, RunIInv, IInv, Typed
  <2> QED
    BY <2>1 DEF HandOver, MarkDispatched, MarkRunning, Idle
<1> QED
  BY <1>1, <1>2, <1>3 DEF Accounted, Counted, Backed, Refused

\* A success counts for its cycle; after a failure there is no run.
LEMMA FinishLeft ==
  ASSUME EnoughCycles, LeftIInv, NEW success \in BOOLEAN, FinishDispatch(success)
  PROVE  Accounted' /\ Counted' /\ Backed'
<1>1. run \in Runs /\ IInv /\ Counted /\ Backed /\ dispatch # Idle
  BY DEF LeftIInv, RunIInv, FinishDispatch, RecordWorkerOutcome, Idle
<1>2. CASE run.phase = "off"
  BY <1>2, LeftOver DEF FinishDispatch
<1>3. CASE run.phase # "off" /\ success
  <2>1. /\ run' = [run EXCEPT !.dispatched = @ + 1, !.progressed = TRUE]
        /\ RecordWorkerOutcome(TRUE)
    BY <1>3 DEF FinishDispatch
  <2>2. /\ run'.phase = run.phase /\ run'.progressed = TRUE
        /\ run'.dispatched = run.dispatched + 1 /\ run'.cycles = run.cycles
    BY <1>1, <2>1 DEF Runs
  <2>3. run.dispatched \in Nat /\ run.cycles \in Nat
    BY <1>1, BoundsAssumption DEF Runs
  <2>4. Backed'
    <3>1. Cardinality(RecordedTasks') >= Cardinality(RecordedTasks) + 1
      BY <1>1, <2>1, SuccessCounts
    <3>2. Cardinality(RecordedTasks) \in Nat /\ Cardinality(RecordedTasks') \in Nat
      <4>1. RecordedTasks' \in SUBSET Tasks /\ IsFiniteSet(Tasks)
        BY DEF RecordedTasks, EnoughCycles
      <4>2. IsFiniteSet(RecordedTasks')
        BY <4>1, FS_Subset
      <4> QED
        BY <4>2, RecordedFinite, FS_CardinalityType
    <3> QED
      BY <1>1, <1>3, <2>2, <2>3, <3>1, <3>2 DEF Backed
  <2>5. Counted'
    BY <1>1, <2>2, <2>3 DEF Counted, Refused
  <2> QED
    BY <2>2, <2>4, <2>5 DEF Accounted
<1>4. CASE run.phase # "off" /\ ~success
  <2>1. EndRun("failed", run.cycles) /\ "failed" \in Endings
    BY <1>4 DEF FinishDispatch, Endings
  <2> QED
    BY <2>1, EndRunFacts, LeftOver
<1> QED
  BY <1>2, <1>3, <1>4

\* A cycle begins with what is ready, and ends with nothing left to offer.
LEMMA CycleLeft ==
  ASSUME EnoughCycles, LeftIInv,
         StartRun \/ BeginCycle \/ Cancel \/ StopAtBound \/ EndCycle
  PROVE  Accounted' /\ Counted' /\ Backed'
<1>1. /\ run \in Runs /\ Accounted /\ Counted /\ Backed /\ Waiting
      /\ UNCHANGED vars /\ dispatch = Idle
  BY DEF LeftIInv, RunIInv, Within,
         StartRun, BeginCycle, Cancel, StopAtBound, EndCycle
<1>2. /\ RecordedTasks' = RecordedTasks /\ ReadyTasks' = ReadyTasks
      /\ Refused' <=> Refused
      /\ dispatch' = dispatch
  BY <1>1 DEF RecordedTasks, ReadyTasks, Refused, vars
<1>3. {"idle", "no_worker", "cancelled"} \subseteq Endings
  BY DEF Endings
<1>4. run.dispatched \in Nat /\ run.cycles \in Nat /\ MaxTasks \in Nat
  BY <1>1, BoundsAssumption DEF Runs
<1>5. CASE StartRun
  <2>1. run'.phase = "scan" /\ run'.dispatched = 0 /\ run'.cycles = 0
    BY <1>5 DEF StartRun, Off
  <2>2. Cardinality(RecordedTasks) \in Nat
    BY RecordedFinite
  <2> QED
    BY <1>2, <2>1, <2>2 DEF Accounted, Counted, Backed
<1>6. CASE Cancel \/ StopAtBound
  BY <1>3, <1>6, EndRunFacts, LeftOver DEF Cancel, StopAtBound
<1>7. CASE BeginCycle
  <2>1. CASE ReadyTasks = {}
    BY <1>3, <1>7, <2>1, EndRunFacts, LeftOver DEF BeginCycle
  <2>2. CASE ReadyTasks # {}
    <3>1. /\ run' = [run EXCEPT !.phase = "work", !.cycles = @ + 1,
                                !.queue = ReadyTasks, !.unserved = {},
                                !.progressed = FALSE]
          /\ run.phase = "scan" /\ run.dispatched < MaxTasks
      BY <1>7, <2>2 DEF BeginCycle, MayCycle
    <3>2. /\ run'.phase = "work" /\ run'.cycles = run.cycles + 1
          /\ run'.queue = ReadyTasks /\ run'.dispatched = run.dispatched
          /\ run'.progressed = FALSE
      BY <1>1, <3>1 DEF Runs
    <3>3. Accounted'
      BY <1>2, <2>2, <3>1, <3>2 DEF Accounted
    <3>4. Counted'
      BY <1>1, <1>2, <1>4, <3>1, <3>2 DEF Counted
    <3> QED
      BY <1>1, <1>2, <3>1, <3>2, <3>3, <3>4 DEF Backed
  <2> QED
    BY <2>1, <2>2
<1>8. CASE EndCycle
  <2>1. \/ EndRun("no_worker", run.cycles)
        \/ /\ run' = [run EXCEPT !.phase = "scan", !.queue = {}]
           /\ run.unserved = {} \/ run.progressed
           /\ run.queue = {} \/ run.dispatched = MaxTasks
           /\ run.phase = "work"
    BY <1>8 DEF EndCycle
  <2>2. CASE EndRun("no_worker", run.cycles)
    BY <1>3, <2>2, EndRunFacts, LeftOver
  <2>3. CASE ~EndRun("no_worker", run.cycles)
    <3>1. /\ run'.phase = "scan" /\ run'.cycles = run.cycles
          /\ run'.dispatched = run.dispatched /\ run.phase = "work"
      BY <1>1, <2>1, <2>3 DEF Runs
    <3>2. ~run.progressed => Refused
      BY <1>1, <1>4, <2>1, <2>3 DEF Accounted
    <3>3. Counted'
      BY <1>1, <1>2, <3>1, <3>2 DEF Counted
    <3> QED
      BY <1>1, <1>2, <3>1, <3>3 DEF Accounted, Backed
  <2> QED
    BY <2>2, <2>3
<1> QED
  BY <1>5, <1>6, <1>7, <1>8

\* Every step of the loop and of the commands between runs keeps this.
LEMMA LeftNextKeeps ==
  ASSUME EnoughCycles, LeftIInv, [RunNext]_runVars
  PROVE  LeftIInv'
<1>1. RunIInv'
  BY RunNextKeeps DEF LeftIInv
<1>2. CASE StartRun \/ BeginCycle \/ Cancel \/ StopAtBound \/ EndCycle
  BY <1>1, <1>2, CycleLeft DEF LeftIInv
<1>3. CASE HandOver
  BY <1>1, <1>3, HandOverLeft DEF LeftIInv
<1>4. CASE \E t \in Tasks : SkipTask(t) \/ MissWorker(t) \/ DispatchOffered(t)
  BY <1>1, <1>4, OfferedLeft DEF LeftIInv
<1>5. CASE \E success \in BOOLEAN : FinishDispatch(success)
  BY <1>1, <1>5, FinishLeft DEF LeftIInv
<1>6. CASE KillRun
  <2>1. run'.phase = "off"
    BY <1>6 DEF KillRun, Off
  <2> QED
    BY <1>1, <2>1, LeftOver DEF LeftIInv
<1>7. CASE OtherCommand \/ \E t \in Tasks : DispatchOne(t)
  <2>1. run'.phase = "off"
    BY <1>7 DEF OtherCommand, DispatchOne
  <2> QED
    BY <1>1, <2>1, LeftOver DEF LeftIInv
<1>8. CASE UNCHANGED runVars
  BY <1>1, <1>8 DEF runVars, vars, LeftIInv, Accounted, Counted, Backed,
                    Refused, ReadyTasks, RecordedTasks
<1> QED
  BY <1>2, <1>3, <1>4, <1>5, <1>6, <1>7, <1>8 DEF RunNext, RunStep

(***************************************************************************)
(* Cycles and successes (run_until_idle): with at least as many cycles as  *)
(* tasks, every cycle of a run but the one in hand has recorded a task, or *)
(* the project state forbids dispatch.                                     *)
(***************************************************************************)
THEOREM CyclesProgress ==
  ASSUME EnoughCycles
  PROVE  RunSpec => []LeftIInv
<1>1. RunInit => LeftIInv
  <2> SUFFICES ASSUME RunInit
               PROVE  LeftIInv
    OBVIOUS
  <2>1. run.phase = "off"
    BY DEF RunInit, Off
  <2> QED
    BY <2>1, RunInitRunIInv DEF LeftIInv, Accounted, Counted, Backed
<1>2. LeftIInv /\ [RunNext]_runVars => LeftIInv'
  BY LeftNextKeeps
<1> QED
  BY <1>1, <1>2, PTL DEF RunSpec

\* The step that ends a run leaves no ready task that could be dispatched.
ServedStep ==
  /\ run.phase # "off" /\ run'.phase = "off"
  /\ \/ run'.ended \in {"no_worker", "max_cycles"}
     \/ run'.ended = "idle" /\ run.dispatched < MaxTasks
  => projectState \notin DispatchAllowed \/ ReadyTasks \cap Served = {}

\* A step that ends a run is within what NoServedTaskLeft says of it.
LEMMA NextServedStep ==
  ASSUME EnoughCycles, LeftIInv, [RunNext]_runVars
  PROVE  ServedStep
<1> SUFFICES ASSUME run.phase # "off", run'.phase = "off",
                    \/ run'.ended \in {"no_worker", "max_cycles"}
                    \/ run'.ended = "idle" /\ run.dispatched < MaxTasks,
                    projectState \in DispatchAllowed
             PROVE  ReadyTasks \cap Served = {}
  BY DEF ServedStep
<1>1. run \in Runs /\ Waiting /\ Accounted /\ Counted /\ Backed /\ ~Refused
  BY DEF LeftIInv, RunIInv, Refused
<1>2. {"idle", "no_worker", "cancelled", "failed"} \subseteq Endings
  BY DEF Endings
<1>3. /\ run.dispatched \in 0 .. MaxTasks /\ run.cycles \in 0 .. MaxCycles
      /\ MaxTasks \in Nat /\ MaxCycles \in Nat
  BY <1>1, BoundsAssumption DEF Runs
<1>4. CASE StopAtBound
  <2>1. run.cycles >= MaxCycles /\ run.phase = "scan"
    <3>1. ~(run.dispatched < MaxTasks /\ run.cycles < MaxCycles)
      BY <1>4 DEF StopAtBound, MayCycle
    <3>2. run'.ended = IF run.cycles >= MaxCycles THEN "max_cycles" ELSE "idle"
      BY <1>4 DEF StopAtBound, EndRun, Off
    <3> QED
      BY <1>3, <1>4, <3>1, <3>2 DEF StopAtBound
  <2>2. MaxCycles <= run.dispatched /\ run.dispatched <= Cardinality(RecordedTasks)
    BY <1>1, <1>3, <2>1 DEF Counted, Backed
  <2>3. Cardinality(RecordedTasks) = Cardinality(Tasks)
    BY <1>3, <2>2, RecordedFinite DEF EnoughCycles
  <2> QED
    BY <2>3, RecordedFinite
<1>5. CASE BeginCycle
  <2>1. CASE ReadyTasks = {}
    BY <2>1
  <2>2. CASE ReadyTasks # {}
    <3>1. run'.phase = "work"
      BY <1>1, <1>5, <2>2 DEF BeginCycle, Runs
    <3> QED
      BY <3>1
  <2> QED
    BY <2>1, <2>2
<1>6. CASE EndCycle
  <2>1. CASE run.unserved # {} /\ ~run.progressed
    <3>1. /\ run.phase = "work" /\ dispatch = Idle
          /\ run.queue = {} \/ run.dispatched = MaxTasks
      BY <1>6 DEF EndCycle
    <3>2. \A t \in ReadyTasks : t \in run.unserved
      BY <1>1, <1>3, <2>1, <3>1 DEF Accounted
    <3> QED
      BY <1>1, <3>2 DEF Waiting
  <2>2. CASE ~(run.unserved # {} /\ ~run.progressed)
    <3>1. run'.phase = "scan"
      BY <1>1, <1>6, <2>2 DEF EndCycle, Runs
    <3> QED
      BY <3>1
  <2> QED
    BY <2>1, <2>2
<1>7. CASE Cancel \/ KillRun \/ \E success \in BOOLEAN : FinishDispatch(success)
  <2>1. CASE Cancel
    BY <2>1, BoundsAssumption DEF Cancel, EndRun, Off, MayCycle
  <2>2. CASE KillRun
    BY <2>2 DEF KillRun, Off
  <2>3. CASE \E success \in BOOLEAN : FinishDispatch(success)
    <3>1. PICK success \in BOOLEAN : FinishDispatch(success)
      BY <2>3
    <3>2. CASE success
      <4>1. run'.phase = run.phase
        BY <1>1, <3>1, <3>2 DEF FinishDispatch, Runs
      <4> QED
        BY <4>1
    <3>3. CASE ~success
      BY <3>1, <3>3 DEF FinishDispatch, EndRun, Off
    <3> QED
      BY <3>2, <3>3
  <2> QED
    BY <1>7, <2>1, <2>2, <2>3
<1>8. CASE \E t \in Tasks : SkipTask(t) \/ MissWorker(t) \/ DispatchOffered(t)
  <2>1. run'.phase = run.phase
    BY <1>1, <1>8 DEF SkipTask, MissWorker, DispatchOffered, Runs
  <2> QED
    BY <2>1
<1>9. CASE StartRun \/ HandOver \/ OtherCommand
             \/ (\E t \in Tasks : DispatchOne(t)) \/ UNCHANGED runVars
  <2>1. run'.phase = run.phase
    BY <1>9 DEF StartRun, HandOver, OtherCommand, DispatchOne, runVars
  <2> QED
    BY <2>1
<1> QED
  BY <1>4, <1>5, <1>6, <1>7, <1>8, <1>9 DEF RunNext, RunStep

(***************************************************************************)
(* A run leaves no work behind (run_until_idle): with at least as many     *)
(* cycles as tasks, whatever the order of the snapshots, the workers and   *)
(* the task limit, a run that says it is idle below its task limit, or is  *)
(* without a worker or out of cycles, leaves no ready task that could have *)
(* been dispatched.                                                        *)
(***************************************************************************)
THEOREM NoWorkLeft ==
  ASSUME EnoughCycles
  PROVE  RunSpec => NoServedTaskLeft
<1>1. LeftIInv /\ [RunNext]_runVars => [ServedStep]_runVars
  BY NextServedStep
<1> QED
  BY <1>1, CyclesProgress, PTL DEF RunSpec, NoServedTaskLeft, ServedStep

=============================================================================
