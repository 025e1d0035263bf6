------------------------------ MODULE PawsFiles ------------------------------
(***************************************************************************)
(* The files the Executor and the Bridge keep for the people of a project: *)
(* project_context.md, current_task.md, the backlog, the handoff, the      *)
(* completed logs and status.md (executor sync/, bridge projection/).      *)
(* Every write replaces its file atomically, so a write is one step; the   *)
(* operators below are what the writers make of the file they found.       *)
(***************************************************************************)
EXTENDS MasterPrompt, Integers, FiniteSets

CONSTANTS
  NoFile,          \* the value of a file that does not exist
  NoValue,         \* a field a document does not mention
  ResolvableApps   \* application code paths whose parent directory exists

\* current_task.md as the template has it; no regex finds a status to set.
TemplateTask ==
  [status |-> "template", goal |-> NoGoal, progress |-> FALSE]

\* status.md before the first projection.
TemplateStatus == [phase |-> "unknown", state |-> "unknown"]

EmptyHandoff == [built |-> NoGoal, dated |-> FALSE]

-----------------------------------------------------------------------------
(* project_context.md (sync/project_context.py).                           *)

\* _default_context: the paths a new file starts with.
DefaultContext == [mode |-> "sidecar", app |-> "main/src/"]

Replaced(old, new) == IF new = NoValue THEN old ELSE new

\* merge_project_context: only what the document names is superseded.
MergeContext(context, updates) ==
  LET old == IF context = NoFile THEN DefaultContext ELSE context IN
  [mode |-> Replaced(old.mode, updates.mode),
   app  |-> Replaced(old.app, updates.app)]

\* The Mode a layout is validated against.
Mode(context) == IF context = NoFile THEN NoValue ELSE context.mode

\* validate_userspace_resolvable; without a file the default is main/src.
UserspaceResolvable(context) ==
  context # NoFile => context.app \in ResolvableApps

-----------------------------------------------------------------------------
(* current_task.md (sync/current_task.py, progress_log.py).                *)

\* write_current_task: the file is written anew.
StartedTask(goal) ==
  [status |-> "in_progress", goal |-> goal, progress |-> TRUE]

\* set_task_status: nothing where no status line is found.
WithStatus(task, status) ==
  IF task.status = "template" THEN task ELSE [task EXCEPT !.status = status]

\* append_progress_entry; of the rows it is kept that there are some.
WithProgress(task) == [task EXCEPT !.progress = TRUE]

\* read_resume_state: the work described in the file can be taken up again.
Resumable(task) ==
  task.goal # NoGoal /\ task.status \in {"in_progress", "blocked"}

-----------------------------------------------------------------------------
(* The handoff, the completed logs, the backlog.                           *)

\* Mutant: the footer is left out of a handoff that is new.
WriteHandoffUndated(handoff, goal) ==
  LET old == IF handoff = NoFile THEN EmptyHandoff ELSE handoff IN
  [old EXCEPT !.built = IF @ = NoGoal THEN goal ELSE @]

\* A section is filled only while it is empty.
FillSection(old, goal) == IF old = NoGoal THEN goal ELSE old

\* "Last updated:" is written where there is none, never again.
UpsertFooter(handoff) == [handoff EXCEPT !.dated = TRUE]

\* refresh_handoff, and the seed of it at an ingest.
WriteHandoff(handoff, goal) ==
  LET old == IF handoff = NoFile THEN EmptyHandoff ELSE handoff IN
  UpsertFooter([old EXCEPT !.built = FillSection(@, goal)])

\* read_handoff_freshness; `recent' says that its date is at most 48 hours old.
HandoffFresh(handoff, recent) ==
  handoff # NoFile /\ handoff.dated /\ recent

(***************************************************************************)
(* write_completed_log: one log per day and goal (the first words of it),  *)
(* the first one stays.  `sameDay' says that the earlier ones are today's. *)
(***************************************************************************)
WriteLog(logs, sameDay, goal, task) ==
  IF sameDay /\ \E l \in logs : l.goal = goal
    THEN logs
    ELSE logs \cup {[goal |-> goal, task |-> task]}

\* append_backlog_items: titles that are there already are left out.
AppendBacklog(backlog, doc) == backlog \cup BacklogItems(doc)

-----------------------------------------------------------------------------
(* status.md (write_status).                                               *)

(***************************************************************************)
(* What is written of a snapshot with active task `task' and project state *)
(* `state', NoValue where a command gave none.  The phase of the old file  *)
(* is kept only if reading had issues or the runtime is offline.           *)
(***************************************************************************)
Projection(old, task, state, keepPhase) ==
  [phase |-> IF task # NoValue THEN task
             ELSE IF keepPhase THEN old.phase ELSE "unknown",
   state |-> IF state # NoValue THEN state ELSE "unknown"]

=============================================================================
