---------------------------- MODULE BridgeSession ----------------------------
(***************************************************************************)
(* The Bridge: the operations the Executor invokes, each in a process of   *)
(* its own, and the vedaws commands they run (bridge dispatcher/,          *)
(* operations/, cli/adapter.py, validation/, projection/).                 *)
(*                                                                         *)
(* `todo' holds the steps the running operation still has to take, the     *)
(* next one first.  A step takes the head of `todo' and may put the steps  *)
(* it calls in its place.  The steps of a Bridge operation end with one    *)
(* named "answer"; an operation that gives up goes on behind it.           *)
(*                                                                         *)
(* A command is killed when its time is over, before or after it had its   *)
(* effect, and is started again; it may fail to start; and it may exit     *)
(* with an error for reasons of its own.  Commands that only read are one  *)
(* step: repeating them changes nothing, so only their last answer counts. *)
(***************************************************************************)
EXTENDS WorkflowProgress, BridgeManifest

CONSTANTS
  TaskOrder,      \* the tasks in the order `workflow show' prints them
  Automated,      \* the tasks some worker of the project serves
  ReadFailures,   \* what cli_result_code may make of a command that only reads
  PingFailures,   \* the same for the command that looks for the runtime
  Manifests,      \* manifest.toml as an operation may find it
  RunIterations,  \* run.max_iterations of the manifest, at most 3
  StrictRun       \* run.strict_mode of the manifest

ASSUME TaskOrderAssumption == ToSet(TaskOrder) = Tasks
ASSUME BridgeAssumption ==
  /\ Automated \subseteq Tasks
  /\ RunIterations \in 1 .. 3
  /\ StrictRun \in BOOLEAN

VARIABLES
  runtime,   \* the vedaws project: [project, ts, ws, ps]
  context,   \* project_context.md
  task,      \* current_task.md
  backlog,   \* titles in backlog.md
  handoff,   \* HANDOFF_FOR_DOCUMENTER.md
  logs,      \* tasks/completed/
  status,    \* status.md
  todo,      \* the steps still to be taken
  last,      \* FALSE once a command failed whose answer the handler wants
  result,    \* the BridgeResult: [op, ok, codes]
  session    \* what an orchestration of the Executor has gathered

paws == <<context, task, backlog, handoff, logs, status>>
vars == <<runtime, paws, todo, last, result, session>>

Idle == todo = <<>>
Call(steps) == todo' = steps \o Tail(todo)
Return == Call(<<>>)
At(op) == todo # <<>> /\ Head(todo).op = op
Step == Head(todo)

Plain(op) == [op |-> op]
Command(op, name, arg, wanted) ==
  [op |-> op, name |-> name, arg |-> arg, wanted |-> wanted, retries |-> 0]
\* The handler asks how the command went, or only warns if it failed.
Cli(name, arg) == Command("cli", name, arg, TRUE)
Try(name, arg) == Command("cli", name, arg, FALSE)
Run(wanted) == Command("run", "run", FALSE, wanted)
Sync(report) == [op |-> "sync", report |-> report]
Answer(verdict) == [op |-> "answer", verdict |-> verdict]

BlockingCodes ==
  {"vedaws_missing", "missing_manifest", "invalid_manifest", "invalid_path",
   "layout_conflict", "version_mismatch", "bootstrap_failed",
   "doctor_blocked", "design_gate_blocked", "state_ineligible",
   "state_transition_denied", "task_complete_denied", "artifacts_missing",
   "workflow_corrupt", "cli_failed", "cli_timeout", "cli_spawn_error",
   "internal_error"}

Blocking(codes) == codes \cap BlockingCodes

\* cli_result_code has no other answers than these for what went wrong.
ASSUME AnswersAssumption ==
  ReadFailures \subseteq BlockingCodes /\ PingFailures \subseteq BlockingCodes

ASSUME ManifestsAssumption ==
  \A m \in Manifests : m.file \in {"none", "unreadable", "toml"}

Started(op) == [op |-> op, ok |-> FALSE, codes |-> {}]
Failed(op, code) == [op |-> op, ok |-> FALSE, codes |-> {code}]
Coded(codes) == [result EXCEPT !.codes = @ \cup codes]

\* What is left once the operation has answered.
AfterAnswer ==
  LET i == SelectInSeq(todo, LAMBDA s : s.op = "answer")
  IN  SubSeq(todo, i + 1, Len(todo))

\* The handler returns early with a failure.
GiveUp(code) ==
  result' = Failed(result.op, code) /\ last' = TRUE /\ todo' = AfterAnswer

Ends(succeeded) == Return /\ last' = (succeeded \/ ~Step.wanted)

-----------------------------------------------------------------------------
(* The vedaws project, as the commands see and change it.                  *)

Software == "software"

\* The template the project is made from brings the workflow along.
ASSUME SoftwareAssumption == Software \in Workflows

NewProject ==
  [project |-> "full", ts |-> [t \in Tasks |-> "defined"],
   ws |-> [w \in Workflows |-> "defined"], ps |-> "created"]

NoProject == [NewProject EXCEPT !.project = "none"]

\* init_project writes the manifest first: killed later, it leaves that much.
PartialProject == [NewProject EXCEPT !.project = "partial"]

\* The last task listed as ready or running, of a project with the workflow.
ActiveIn(rt) ==
  LET live == SelectSeq(TaskOrder, LAMBDA t : rt.ts[t] \in {"ready", "running"})
  IN  IF rt.project # "full" \/ live = <<>> THEN NoValue ELSE Last(live)

ActiveTask == ActiveIn(runtime)

WithOutcome(rt, t, success) ==
  LET w  == WorkflowOf[t]
      ts == OutcomeTasks(t, success, rt.ws, rt.ts)
      ws == RefreshedStatus(w, rt.ws, ts)
      ps == CompletionState(w, success, ws, OutcomeState(t, success, rt.ps))
  IN  [rt EXCEPT !.ts = ts, !.ws = ws, !.ps = SyncProjectState(ws, ts, ps)]

WithActivation(rt) ==
  LET ts == ActivatedTasks(Software, rt.ts)
      ws == RefreshedStatus(Software, [rt.ws EXCEPT ![Software] = "activated"],
                            ts)
  IN  [rt EXCEPT !.ts = ts, !.ws = ws,
         !.ps = SyncProjectState(ws, ts, ApplyTransition(rt.ps, "planning"))]

\* The command does what it is for, instead of reporting an error.
Obeys(name, arg) ==
  CASE name = "init" -> runtime.project = "none"
    [] name = "activate" ->
         runtime.project = "full" /\ runtime.ws[Software] \in Inactive
    [] name = "transition" ->
         runtime.project # "none" /\ CanTransition(runtime.ps, arg)
    [] name \in {"complete", "fail"} ->
         runtime.project = "full" /\ arg \in Tasks /\ runtime.ts[arg] = "ready"

Effect(name, arg) ==
  CASE name = "init" -> NewProject
    [] name = "activate" -> WithActivation(runtime)
    [] name = "transition" -> [runtime EXCEPT !.ps = arg]
    [] name \in {"complete", "fail"} ->
         WithOutcome(runtime, arg, name = "complete")

-----------------------------------------------------------------------------
(* CliAdapter.run: one counter of retries for timeouts and failed starts.  *)

MaxTimeoutRetries == 1
MaxSpawnRetries == 2

Again(limit) ==
  IF Step.retries < limit
    THEN Call(<<[Step EXCEPT !.retries = @ + 1]>>) /\ UNCHANGED last
    ELSE Ends(FALSE)

CommandCompletes ==
  /\ At("cli")
  /\ \/ /\ Obeys(Step.name, Step.arg)
        /\ runtime' = Effect(Step.name, Step.arg)
        /\ Ends(TRUE)
     \/ UNCHANGED runtime /\ Ends(FALSE)
  /\ UNCHANGED <<paws, result, session>>

CommandTimesOut ==
  /\ At("cli")
  /\ Again(MaxTimeoutRetries)
  /\ \/ UNCHANGED runtime
     \/ /\ Obeys(Step.name, Step.arg)
        /\ runtime' \in {Effect(Step.name, Step.arg)}
             \cup (IF Step.name = "init" THEN {PartialProject} ELSE {})
  /\ UNCHANGED <<paws, result, session>>

\* A run that has not done anything yet is as good as not started.
CommandNotStarted ==
  /\ \/ At("cli")
     \/ At("run") /\ ~Step.arg
  /\ Again(MaxSpawnRetries)
  /\ UNCHANGED <<runtime, paws, result, session>>

(***************************************************************************)
(* `vedaws run'.  The argument of the step says whether a task has been    *)
(* executed; while one is being executed it is that task.                  *)
(***************************************************************************)
Running(op, arg) == [Step EXCEPT !.op = op, !.arg = arg]

ReadyTasks ==
  IF runtime.project = "full"
    THEN {t \in Tasks : runtime.ts[t] = "ready"} ELSE {}

Executable == IF runtime.ps \in DispatchAllowed
                THEN ReadyTasks \cap Automated ELSE {}

RunTakes ==
  /\ At("run")
  /\ \E t \in Executable :
       /\ runtime' = [runtime EXCEPT
            !.ts = [@ EXCEPT ![t] = "running"],
            !.ps = ApplyTransition(@, "executing")]
       /\ Call(<<Running("running", t)>>)
  /\ UNCHANGED <<paws, last, result, session>>

\* A failure ends the run; a success goes on with what is ready now.
RunFinishes ==
  /\ At("running")
  /\ \E success \in BOOLEAN :
       /\ runtime' = WithOutcome(runtime, Step.arg, success)
       /\ IF success THEN Call(<<Running("run", TRUE)>>) /\ UNCHANGED last
          ELSE Ends(FALSE)
  /\ UNCHANGED <<paws, result, session>>

\* Nothing more can be executed: an error if a task is still ready, one without
\* a worker or one the state of the project forbids, whatever was executed.
RunEnds ==
  /\ At("run")
  /\ Executable = {}
  /\ Ends(ReadyTasks = {} /\ runtime.project # "none")
  /\ UNCHANGED <<runtime, paws, result, session>>

\* Killed, it leaves the task it was executing behind.
RunTimesOut ==
  /\ At("run") \/ At("running")
  /\ IF Step.retries < MaxTimeoutRetries
       THEN /\ Call(<<[Run(Step.wanted) EXCEPT !.retries = Step.retries + 1]>>)
            /\ UNCHANGED last
       ELSE Ends(FALSE)
  /\ UNCHANGED <<runtime, paws, result, session>>

-----------------------------------------------------------------------------
(* Commands that only read.                                                *)

\* What `status' and `workflow show' may answer.
StatusAnswers == {"cli_ok"} \cup ReadFailures
ShowAnswers ==
  (IF runtime.project = "none" THEN {"cli_failed"} ELSE {"cli_ok"})
    \cup ReadFailures

\* The project state of `status'.  parse_state finds none in what `state'
\* prints, so the snapshot has it from `status' alone.
StateRead(answer) ==
  IF answer # "cli_ok" THEN NoValue
  ELSE IF runtime.project = "none" THEN "(none)" ELSE runtime.ps

StateParsed == NoValue

(***************************************************************************)
(* sync_status: a snapshot, then status.md.  The managed lines it writes   *)
(* to the notes of current_task.md are for people; nothing reads them.     *)
(* `report' is FALSE where the caller leaves the codes of the nested       *)
(* result out of its own.                                                  *)
(***************************************************************************)
SyncStatus ==
  /\ At("sync")
  /\ \E st \in StatusAnswers, sh \in ShowAnswers :
       LET issues == {st, sh} \ {"cli_ok"} IN
       /\ status' = Projection(status,
                               IF sh = "cli_ok" THEN ActiveTask ELSE NoValue,
                               StateRead(st), issues # {})
       /\ result' = IF Step.report THEN Coded(issues) ELSE result
  /\ Return
  /\ UNCHANGED <<runtime, context, task, backlog, handoff, logs, last, session>>

\* The result of the operation: judged by its codes, or fixed by the handler.
AnswerOperation ==
  /\ At("answer")
  /\ result' = [result EXCEPT !.ok =
                  CASE Step.verdict = "judge" -> Blocking(result.codes) = {}
                    [] Step.verdict = "ok" -> TRUE
                    [] Step.verdict = "given" -> result.ok]
  /\ Return
  /\ UNCHANGED <<runtime, paws, last, session>>

-----------------------------------------------------------------------------
(* bootstrap                                                               *)

\* `codes' are those of the manifest.
BootstrapSteps(codes) ==
  <<Plain("boot_init"), Plain("boot_show"),
    [op |-> "boot_doctor", codes |-> codes], Sync(TRUE)>>

\* A project without a manifest is initialised first.
BootInit ==
  /\ At("boot_init")
  /\ IF runtime.project = "none"
       THEN Call(<<Cli("init", NoValue), Plain("boot_inited")>>)
       ELSE Return
  /\ UNCHANGED <<runtime, paws, last, result, session>>

BootInited ==
  /\ At("boot_inited")
  /\ IF last THEN Return /\ UNCHANGED <<last, result>>
     ELSE GiveUp("bootstrap_failed")
  /\ UNCHANGED <<runtime, paws, session>>

\* The workflow is activated whenever it could be shown; errors are warnings.
BootShow ==
  /\ At("boot_show")
  /\ \E sh \in ShowAnswers :
       IF sh = "cli_ok" THEN Call(<<Try("activate", NoValue)>>) ELSE Return
  /\ UNCHANGED <<runtime, paws, last, result, session>>

DoctorAnswers == {"cli_ok", "doctor_blocked"}

BootDoctor ==
  /\ At("boot_doctor")
  /\ \E doctor \in DoctorAnswers, st \in StatusAnswers :
       /\ result' = Coded(Step.codes \cup ({doctor} \ {"cli_ok"}))
       /\ IF doctor = "cli_ok" /\ StateRead(st) = "created"
            THEN Call(<<Try("transition", "initialized")>>)
            ELSE Return
  /\ UNCHANGED <<runtime, paws, last, session>>

-----------------------------------------------------------------------------
(* ingest_master_prompt                                                    *)

IngestSteps(phase, codes) ==
  <<[op |-> "ingest_boot", codes |-> codes],
    [op |-> "ingest_state", phase |-> phase], Sync(TRUE), Answer("judge")>>

IngestBoot ==
  /\ At("ingest_boot")
  /\ IF runtime.project = "none"
       THEN Call(BootstrapSteps(Step.codes) \o <<Plain("ingest_booted")>>)
       ELSE Return
  /\ UNCHANGED <<runtime, paws, last, result, session>>

\* A failed bootstrap is returned as it is; a good one leaves no codes.
IngestBooted ==
  /\ At("ingest_booted")
  /\ IF Blocking(result.codes) = {}
       THEN Return /\ result' = Started("ingest_master_prompt")
       ELSE /\ result' = [result EXCEPT !.op = "bootstrap", !.ok = FALSE]
            /\ todo' = AfterAnswer
  /\ UNCHANGED <<runtime, paws, last, session>>

ExecutingPhases == {"implement", "test", "review", "handoff"}

(***************************************************************************)
(* _ingest_state_transitions: out of the approval by way of executing and  *)
(* ready, out of the beginning, and to executing if the phase wants it.    *)
(***************************************************************************)
IngestTargets(state, phase) ==
  LET toPlanning ==
        IF state = "awaiting_approval" THEN <<"executing", "ready", "planning">>
        ELSE IF state \in {NoValue, "created", "initialized"} THEN <<"planning">>
        ELSE <<>>
      from == IF toPlanning = <<>> THEN state ELSE "planning"
  IN  toPlanning \o
        (IF phase \notin ExecutingPhases THEN <<>>
         ELSE IF from = "planning" THEN <<"ready", "executing">>
         ELSE IF from = "ready" THEN <<"executing">> ELSE <<>>)

IngestState ==
  /\ At("ingest_state")
  /\ \E st \in StatusAnswers :
       LET targets == IngestTargets(StateRead(st), Step.phase) IN
       Call([i \in 1 .. 2 * Len(targets) |->
               IF i % 2 = 1 THEN Cli("transition", targets[(i + 1) \div 2])
               ELSE Plain("require")])
  /\ UNCHANGED <<runtime, paws, last, result, session>>

RequireTransition ==
  /\ At("require")
  /\ IF last THEN Return /\ UNCHANGED <<last, result>>
     ELSE GiveUp("state_transition_denied")
  /\ UNCHANGED <<runtime, paws, session>>

-----------------------------------------------------------------------------
(* pre_implement_check                                                     *)

DesignOnly == {"scope", "architecture", "api-design"}

\* validate_design_gate, for a task that is about a user interface.
DesignBlocks(active, ready) == active \in DesignOnly \/ ~ready

ImplementStates == {"planning", "ready", "executing", "recovering"}

\* validate_workflow_eligibility: a state that was not read is eligible.
Ineligible(state) == state # NoValue /\ state \notin ImplementStates

(***************************************************************************)
(* The layout, the dispatcher has looked at already.  The state comes from *)
(* what `state' prints alone, so StateParsed it is; and the words          *)
(* validate_workflow_corrupt looks for in what `workflow show' prints are  *)
(* those of `workflow list': it never adds a code.  A task that is another *)
(* than the phase's is a warning.                                          *)
(***************************************************************************)
CheckGate ==
  /\ At("gate")
  /\ \E doctor \in DoctorAnswers, sh \in ShowAnswers,
        ui \in BOOLEAN, ready \in BOOLEAN :
       LET active == IF sh = "cli_ok" THEN ActiveTask ELSE NoValue
           codes ==
             Step.codes \cup ({doctor} \ {"cli_ok"})
               \cup {c \in {"design_gate_blocked"} :
                       ui /\ DesignBlocks(active, ready)}
               \cup {c \in {"state_ineligible"} :
                       sh = "cli_ok" /\ Ineligible(StateParsed)}
       IN  result' = [Coded(codes) EXCEPT !.ok = Blocking(codes) = {}]
  /\ Return
  /\ UNCHANGED <<runtime, paws, last, session>>

-----------------------------------------------------------------------------
(* post_implement                                                          *)

Iterate(left) == [op |-> "iterate", left |-> left]

\* Mutant: the automation is run until it succeeds.
RunUntilSuccess ==
  /\ At("iterate")
  /\ IF Step.left < RunIterations /\ last
       THEN /\ Return
            /\ result' = [result EXCEPT !.ok = TRUE]
            /\ last' = TRUE
       ELSE /\ Call(<<Run(TRUE), Iterate(0)>>)
            /\ UNCHANGED <<last, result>>
  /\ UNCHANGED <<runtime, paws, session>>

\* Up to RunIterations runs, until one succeeds.
RunAgain ==
  /\ At("iterate")
  /\ IF Step.left = 0 \/ (Step.left < RunIterations /\ last)
       THEN /\ Return
            /\ result' = IF last THEN [result EXCEPT !.ok = TRUE]
                         ELSE [Coded({"cli_failed"}) EXCEPT !.ok = ~StrictRun]
            /\ last' = TRUE
       ELSE /\ Call(<<Run(TRUE), Iterate(Step.left - 1)>>)
            /\ UNCHANGED <<last, result>>
  /\ UNCHANGED <<runtime, paws, session>>

-----------------------------------------------------------------------------
(* post_phase_complete                                                     *)

\* Mutant: the status is projected before the project waits for the approval.
AfterOutcomeSyncedEarly(gate) ==
  <<Run(FALSE), Sync(TRUE)>>
    \o (IF gate THEN <<Try("transition", "awaiting_approval")>> ELSE <<>>)
    \o <<Answer("ok")>>

\* What follows the record of the outcome: a run, the human gate, a sync.
AfterOutcome(gate) ==
  <<Run(FALSE)>> \o (IF gate THEN <<Try("transition", "awaiting_approval")>> ELSE <<>>)
          \o <<Sync(TRUE), Answer("ok")>>

PhaseSteps(t, outcome, gate) ==
  <<[op |-> "phase", task |-> t, outcome |-> outcome]>> \o AfterOutcome(gate)

\* A task the shown workflow does not have is denied.
BeginPhaseComplete ==
  /\ At("phase")
  /\ \E sh \in ShowAnswers :
       IF /\ sh = "cli_ok"
          /\ runtime.project = "full"
          /\ Step.task \notin Tasks
         THEN GiveUp("task_complete_denied")
         ELSE /\ UNCHANGED result
              /\ Call(CASE Step.outcome = "completed" ->
                             <<Cli("complete", Step.task),
                               [op |-> "recorded", task |-> Step.task]>>
                        [] Step.outcome = "failed" -> <<Try("fail", Step.task)>>
                        [] OTHER -> <<>>)
  /\ UNCHANGED <<runtime, paws, last, session>>

RequireRecord ==
  /\ At("recorded")
  /\ IF last THEN Return /\ UNCHANGED <<last, result>>
     ELSE GiveUp("task_complete_denied")
  /\ UNCHANGED <<runtime, paws, session>>

-----------------------------------------------------------------------------
(* pre_documenter                                                          *)

Handoff == "handoff"

DocumenterSteps ==
  <<Plain("artifacts"), Sync(FALSE), Answer("judge")>>

ArtifactAnswers == {"cli_ok", "artifacts_missing"}

\* The handoff is recorded when doctor and artifacts pass, fresh or not.
CheckArtifacts ==
  /\ At("artifacts")
  /\ \E doctor \in DoctorAnswers, artifacts \in ArtifactAnswers,
        recent \in BOOLEAN :
       LET missed == {doctor, artifacts} \ {"cli_ok"} IN
       /\ result' = Coded(missed \cup
            IF HandoffFresh(handoff, recent) THEN {} ELSE {"handoff_stale"})
       /\ Call(IF missed = {} THEN <<Try("complete", Handoff)>> ELSE <<>>)
  /\ UNCHANGED <<runtime, paws, last, session>>

-----------------------------------------------------------------------------
(* Dispatcher.dispatch, and the client that waits for its result.          *)

Bridge(name, arg) == [op |-> "bridge", name |-> name, arg |-> arg]

GateSteps(codes) == <<[op |-> "gate", codes |-> codes], Answer("given")>>

\* With the codes the handler makes of manifest m.
Operation(name, arg, m) ==
  CASE name = "bootstrap" ->
         BootstrapSteps(BootstrapCodes(m)) \o <<Answer("judge")>>
    [] name = "ingest_master_prompt" -> IngestSteps(arg, BootstrapCodes(m))
    [] name = "sync_status" -> <<Sync(TRUE), Answer("ok")>>
    [] name = "pre_implement_check" -> GateSteps(ValidateIntegrity(m))
    [] name = "post_implement" -> <<Iterate(RunIterations), Answer("given")>>
    [] name = "post_phase_complete" -> PhaseSteps(arg.task, arg.outcome, arg.gate)
    [] name = "pre_documenter" -> DocumenterSteps

Refused(m) == Refusals(m, Mode(context))

BridgeHandles ==
  /\ At("bridge")
  /\ \E m \in Manifests :
       /\ Refused(m) = {}
       /\ Call(Operation(Step.name, Step.arg, m))
  /\ result' = Started(Step.name)
  /\ UNCHANGED <<runtime, paws, last, session>>

BridgeRefuses ==
  /\ At("bridge")
  /\ \E m \in Manifests :
       \E code \in Refused(m) : result' = Failed(Step.name, code)
  /\ Return
  /\ UNCHANGED <<runtime, paws, last, session>>

\* The runtime does not answer: only sync_status goes on, with what it has.
BridgeUnavailable ==
  /\ At("bridge")
  /\ \E m \in Manifests : Refused(m) = {}
  /\ Step.name # "sync_status"
  /\ \E code \in PingFailures : result' = Failed(Step.name, code)
  /\ Return
  /\ UNCHANGED <<runtime, paws, last, session>>

BridgeOffline ==
  /\ At("bridge")
  /\ \E m \in Manifests : Refused(m) = {}
  /\ Step.name = "sync_status"
  /\ PingFailures # {}
  /\ status' = Projection(status, NoValue, "offline", TRUE)
  /\ result' = [op |-> "sync_status", ok |-> TRUE,
                codes |-> {"orchestration_offline", "vedaws_missing"}]
  /\ Return
  /\ UNCHANGED <<runtime, context, task, backlog, handoff, logs, last, session>>

\* The process leaves no result.
BridgeFails ==
  /\ At("bridge")
  /\ result' = Failed(Step.name, "bridge_invoke_failed")
  /\ Return
  /\ UNCHANGED <<runtime, paws, last, session>>

\* Killed in the middle of an operation, or an exception the dispatcher turns
\* into a result.
BridgeDies ==
  /\ \E i \in DOMAIN todo : todo[i].op = "answer"
  /\ \E code \in {"bridge_invoke_failed", "internal_error"} :
       result' = Failed(result.op, code)
  /\ todo' = AfterAnswer
  /\ last' = TRUE
  /\ UNCHANGED <<runtime, paws, session>>

BridgeStep ==
  \/ BridgeHandles \/ BridgeRefuses \/ BridgeUnavailable \/ BridgeOffline
  \/ BridgeFails \/ BridgeDies
  \/ CommandCompletes \/ CommandTimesOut \/ CommandNotStarted
  \/ RunTakes \/ RunFinishes \/ RunEnds \/ RunTimesOut
  \/ SyncStatus \/ AnswerOperation
  \/ BootInit \/ BootInited \/ BootShow \/ BootDoctor
  \/ IngestBoot \/ IngestBooted \/ IngestState \/ RequireTransition
  \/ CheckGate \/ RunAgain \/ BeginPhaseComplete \/ RequireRecord
  \/ CheckArtifacts

=============================================================================
