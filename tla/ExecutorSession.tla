--------------------------- MODULE ExecutorSession ---------------------------
(***************************************************************************)
(* The orchestrations of the Executor (executor startup/, orchestration/,  *)
(* sync/) over the Bridge: startup, the ingest of a Master Prompt, the     *)
(* gate before an implementation, the hooks after it, the completion of a  *)
(* phase with its close-out, and the gate before the documenter.           *)
(*                                                                         *)
(* They run one at a time, each started by a person; between them the      *)
(* person may move the project with the vedaws command.  The process may   *)
(* be killed between any two writes; nothing of what it had gathered       *)
(* survives.                                                               *)
(***************************************************************************)
EXTENDS BridgeSession

CONSTANTS
  InitialContexts, \* project_context.md as a new workspace may have it
  Prompts,         \* the documents that may be handed in
  ForcedPhases,    \* force_phase of a session, NoPhase for none
  ChangedRoots,    \* the sets of roots an implementation may have touched
  Reports,         \* the completions a person may report: [task, outcome, gate]
  OperatorStates   \* the states a person moves the project to by hand

Fresh == [blocked |-> FALSE, phaseOk |-> TRUE]
NoResult == [op |-> "none", ok |-> TRUE, codes |-> {}]

Absorb(how) == [op |-> "absorb", how |-> how]
Writes(file, with) == [op |-> file, with |-> with]
SyncAfter == <<Bridge("sync_status", NoValue), Absorb("all")>>
End == Plain("end")

Begin(steps) ==
  /\ Idle
  /\ todo' = Append(steps, End)
  /\ UNCHANGED <<runtime, paws, last, result, session>>

\* The invocation is over; its answer is the person's.
EndFlow ==
  /\ At("end")
  /\ Return
  /\ result' = NoResult
  /\ session' = Fresh
  /\ UNCHANGED <<runtime, paws, last>>

-----------------------------------------------------------------------------
(* How a result of the Bridge is read (bridge/interpret.py).               *)

OfflineSync(res) ==
  /\ res.op = "sync_status"
  /\ res.ok
  /\ res.codes \cap {"orchestration_offline", "vedaws_missing"} # {}

\* summarize_blockers(...) is not empty; an offline sync has none.
HasBlockers(res) ==
  /\ ~OfflineSync(res)
  /\ \/ Blocking(res.codes) # {}
     \/ res.codes \cap {"bridge_missing", "bridge_invoke_failed"} # {}

ShouldBlock(res) ==
  /\ ~OfflineSync(res)
  /\ ~res.ok \/ Blocking(res.codes) # {}

(***************************************************************************)
(* apply_bridge_result.  Of a phase completion it is kept whether it went  *)
(* well; after an implementation only a result that is not ok counts.  The *)
(* gates before an implementation and the documenter ask ShouldBlock.      *)
(***************************************************************************)
AbsorbResult ==
  /\ At("absorb")
  /\ session' =
       [blocked |-> \/ session.blocked
                    \/ CASE Step.how = "gate" -> ShouldBlock(result)
                         [] Step.how = "failures" ->
                              ~result.ok /\ HasBlockers(result)
                         [] OTHER -> HasBlockers(result),
        phaseOk |-> IF Step.how = "phase" THEN result.ok ELSE session.phaseOk]
  /\ Return
  /\ result' = NoResult
  /\ UNCHANGED <<runtime, paws, last>>

-----------------------------------------------------------------------------
(* startup/sequence.py                                                     *)

Startup ==
  /\ UserspaceResolvable(context)
  /\ Begin((IF runtime.project = "none"
              THEN <<Bridge("bootstrap", NoValue), Plain("booted")>> ELSE <<>>)
             \o SyncAfter)

\* A bootstrap that failed ends the startup.
StartupBooted ==
  /\ At("booted")
  /\ IF result.ok /\ ~HasBlockers(result) THEN Return ELSE todo' = <<End>>
  /\ result' = NoResult
  /\ UNCHANGED <<runtime, paws, last, session>>

-----------------------------------------------------------------------------
(* orchestration/ingest.py                                                 *)

\* The files are written first; what the Bridge says does not undo them.
Ingest ==
  \E doc \in Prompts, force \in ForcedPhases :
    /\ \E alias \in InstructionTitles \cap ToSet(doc.titles) :
         Accepted(doc, alias)
    /\ LET found == ResolvePhase(PhaseHint(doc.task), doc.task.substrings,
                                 force)
       IN  Begin(<<Writes("write_context", doc), Writes("write_task", doc),
                   Writes("write_backlog", doc),
                   Bridge("ingest_master_prompt", found.phase), Absorb("all")>>
                   \o SyncAfter \o <<Writes("write_handoff", doc.task.goal)>>)

WriteContext ==
  /\ At("write_context")
  /\ context' = MergeContext(context, Step.with.updates)
  /\ Return
  /\ UNCHANGED <<runtime, task, backlog, handoff, logs, status, last, result, session>>

WriteTask ==
  /\ At("write_task")
  /\ task' = StartedTask(Step.with.task.goal)
  /\ Return
  /\ UNCHANGED <<runtime, context, backlog, handoff, logs, status,
                 last, result, session>>

WriteBacklog ==
  /\ At("write_backlog")
  /\ backlog' = AppendBacklog(backlog, Step.with)
  /\ Return
  /\ UNCHANGED <<runtime, context, task, handoff, logs, status, last, result, session>>

\* The seed of an ingest and the refresh of a close-out.
WriteTheHandoff ==
  /\ At("write_handoff")
  /\ handoff' = WriteHandoff(handoff, Step.with)
  /\ Return
  /\ UNCHANGED <<runtime, context, task, backlog, logs, status, last, result, session>>

-----------------------------------------------------------------------------
(* orchestration/gate.py, implement.py, documenter.py                      *)

\* The edit of the sources itself is not a step of the program.
Gate == Begin(<<Bridge("pre_implement_check", NoValue), Absorb("gate")>>)

\* A change of a forbidden file stops before anything is written.
Implement ==
  /\ \E roots \in ChangedRoots : ~HasViolations(roots)
  /\ Begin(<<Plain("write_progress"),
             Bridge("post_implement", NoValue), Absorb("failures")>> \o SyncAfter)

WriteProgress ==
  /\ At("write_progress")
  /\ task' = WithProgress(task)
  /\ Return
  /\ UNCHANGED <<runtime, context, backlog, handoff, logs, status,
                 last, result, session>>

Documenter == Begin(<<Bridge("pre_documenter", NoValue), Absorb("gate")>>)

-----------------------------------------------------------------------------
(* orchestration/complete.py, finalize.py                                  *)

\* Only an outcome of "completed" is ever closed out.
Closing(t, outcome, goal) ==
  IF outcome = "completed"
    THEN <<[op |-> "close_out", task |-> t, goal |-> goal]>> ELSE <<>>

(***************************************************************************)
(* orchestrate_completion takes the goal from whoever calls it; here they  *)
(* pass on the one of current_task.md.  Nothing in the code compares the   *)
(* two: of another goal the log would be, and the task idle.               *)
(***************************************************************************)
Complete ==
  \E report \in Reports :
    /\ task.goal # NoGoal
    /\ Begin(<<Bridge("post_phase_complete", report), Absorb("phase")>>
               \o SyncAfter \o Closing(report.task, report.outcome, task.goal))

\* Mutant: the task is closed before the log of it is written.
CloseStepsIdleFirst(t, goal) ==
  <<Writes("write_handoff", goal), Writes("set_status", "idle"),
    [op |-> "write_log", task |-> t, goal |-> goal], Plain("write_progress")>>

CloseSteps(t, goal) ==
  <<Writes("write_handoff", goal),
    [op |-> "write_log", task |-> t, goal |-> goal],
    Writes("set_status", "idle"), Plain("write_progress")>>

\* Mutant: the close-out does not ask how the Bridge fared.
CloseOutAnyway ==
  /\ At("close_out")
  /\ Call(CloseSteps(Step.task, Step.goal))
  /\ UNCHANGED <<runtime, paws, last, result, session>>

\* Only a phase the Bridge has recorded without complaint is closed.
CloseOut ==
  /\ At("close_out")
  /\ Call(IF session.phaseOk /\ ~session.blocked
             THEN CloseSteps(Step.task, Step.goal) ELSE <<>>)
  /\ UNCHANGED <<runtime, paws, last, result, session>>

WriteTheLog ==
  /\ At("write_log")
  /\ \E sameDay \in BOOLEAN :
       logs' = WriteLog(logs, sameDay, Step.goal, Step.task)
  /\ Return
  /\ UNCHANGED <<runtime, context, task, backlog, handoff, status,
                 last, result, session>>

SetTaskStatus ==
  /\ At("set_status")
  /\ task' = WithStatus(task, Step.with)
  /\ Return
  /\ UNCHANGED <<runtime, context, backlog, handoff, logs, status,
                 last, result, session>>

-----------------------------------------------------------------------------
(* The world around, and the specification.                                *)

\* A person approves, or sends the project back, with `vedaws state'.
OperatorTransition ==
  /\ Idle
  /\ \E s \in OperatorStates :
       /\ Obeys("transition", s)
       /\ runtime' = Effect("transition", s)
  /\ UNCHANGED <<paws, todo, last, result, session>>

Killed ==
  /\ ~Idle
  /\ todo' = <<>>
  /\ last' = TRUE
  /\ result' = NoResult
  /\ session' = Fresh
  /\ UNCHANGED <<runtime, paws>>

Init ==
  /\ runtime = NoProject
  /\ context \in InitialContexts
  /\ task = TemplateTask
  /\ backlog = {}
  /\ handoff = NoFile
  /\ logs = {}
  /\ status = TemplateStatus
  /\ todo = <<>>
  /\ last = TRUE
  /\ result = NoResult
  /\ session = Fresh

\* Every step of an orchestration that has begun.
Proceed ==
  \/ BridgeStep
  \/ AbsorbResult \/ StartupBooted \/ EndFlow
  \/ WriteContext \/ WriteTask \/ WriteBacklog \/ WriteTheHandoff
  \/ WriteProgress \/ CloseOut \/ WriteTheLog \/ SetTaskStatus

Next ==
  \/ Startup \/ Ingest \/ Gate \/ Implement \/ Complete \/ Documenter
  \/ Proceed
  \/ OperatorTransition \/ Killed

\* A process that was not killed goes on.
Spec == Init /\ [][Next]_vars /\ WF_vars(Proceed)

-----------------------------------------------------------------------------
(* Properties.                                                             *)

\* Modes a context may have: the default, or one that a document named.
KnownModes ==
  {"sidecar"} \cup {c.mode : c \in InitialContexts \ {NoFile}}
    \cup ({d.updates.mode : d \in Prompts} \ {NoValue})

(***************************************************************************)
(* The project, the files and the result stay within the values the code   *)
(* gives them.                                                             *)
(***************************************************************************)
SessionTypeOK ==
  /\ runtime.project \in {"none", "partial", "full"}
  /\ runtime.ts \in [Tasks -> TaskStatuses]
  /\ runtime.ws \in [Workflows -> WorkflowStatuses]
  /\ runtime.ps \in ProjectStates
  /\ context = NoFile \/ context.mode \in KnownModes
  /\ task.status \in {"template", "in_progress", "idle"}
  /\ handoff = NoFile \/ handoff.dated
  /\ result.codes \subseteq BlockingCodes \cup
       {"bridge_invoke_failed", "handoff_stale", "orchestration_offline"}
  /\ session \in [blocked : BOOLEAN, phaseOk : BOOLEAN]

(***************************************************************************)
(* A task that is over was logged: wherever the close-out is killed, and   *)
(* whatever the Bridge answers, current_task.md never says idle for a goal *)
(* of which tasks/completed/ has nothing.                                  *)
(***************************************************************************)
IdleMeansLogged ==
  task.goal # NoGoal /\ ~Resumable(task)
    => \E l \in logs : l.goal = task.goal

(***************************************************************************)
(* Runtime and files close a phase together: what the log says is recorded *)
(* in the workflow, and nothing recorded or logged is lost by a timeout, a *)
(* second attempt or a kill.                                               *)
(***************************************************************************)
PhaseOf(t) ==
  IF \E l \in logs : l.task = t THEN "closed"
  ELSE IF runtime.ts[t] = "recorded" THEN "done" ELSE "open"

Protocol == INSTANCE PhaseProtocol WITH
  Phases <- Tasks, phase <- [t \in Tasks |-> PhaseOf(t)]

ImplementsPhases == Protocol!Spec

(***************************************************************************)
(* An operation that ends with a synchronisation and reports no trouble    *)
(* leaves status.md as the runtime is: no command of the operation changes *)
(* the project behind the projection.                                      *)
(***************************************************************************)
Projecting ==
  {"bootstrap", "ingest_master_prompt", "sync_status", "post_phase_complete"}

SettledStatus ==
  [][AnswerOperation /\ result.op \in Projecting /\ result.codes = {}
       => status' = Projection(status, ActiveTask, runtime'.ps, FALSE)]_vars

(***************************************************************************)
(* Every orchestration comes to its end, unless it is killed: the retries  *)
(* of every command are bounded, the runs of the automation end, and no    *)
(* step waits.                                                             *)
(***************************************************************************)
FlowsEnd == ~Idle ~> Idle

(***************************************************************************)
(* The specification of the Bridge forbids to implement while the project  *)
(* waits for an approval (VESPAWD_BRIDGE_SPEC.md, the table of states).    *)
(***************************************************************************)
WaitsForApproval ==
  [][AnswerOperation /\ result.op = "pre_implement_check" /\ result'.ok
       => runtime.ps # "awaiting_approval"]_vars

(***************************************************************************)
(* The specification promises operations idempotent enough to resume after *)
(* an interruption: a completion repeated because its close-out was lost   *)
(* is not refused.                                                         *)
(***************************************************************************)
CompletionResumable ==
  [][\A t \in Tasks :
       RequireRecord /\ Step.task = t /\ PhaseOf(t) = "done"
         => "task_complete_denied" \notin result'.codes]_vars

=============================================================================
