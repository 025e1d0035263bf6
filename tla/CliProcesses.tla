---------------------------- MODULE CliProcesses ----------------------------
(***************************************************************************)
(* The vedaws command line at the grain of its file writes.  Every command *)
(* is a process that loads .vedaws/state.toml, transitions.jsonl and       *)
(* workflow-progress.json, works on that copy and writes the files back    *)
(* one at a time, without a lock and without reading them again            *)
(* (project/state/persistence.py, workflow/persistence.py).                *)
(*                                                                         *)
(* What the commands compute is WorkflowProgress; this module adds in      *)
(* which order a command writes it, what a kill between two writes leaves  *)
(* behind, and what two processes at once do to each other.                *)
(***************************************************************************)
EXTENDS WorkflowProgress, Sequences

CONSTANT Processes

VARIABLES
  disk,   \* the three files
  proc    \* proc[p]: the copy process p works on and what it has yet to write

cliVars == <<disk, proc>>

Files == {"state", "progress", "history"}

\* What a process keeps in memory of the files it has loaded.
Memories ==
  [tasks : [Tasks -> TaskStatuses],
   workflows : [Workflows -> WorkflowStatuses],
   state : ProjectStates]

Steps == {"off", "loaded", "once", "looping"}

\* disk.last: the target of the last record of the history.  disk.chained:
\* each record starts where the one before it ended.  disk.torn: the files
\* that are truncated and not written again.
CliTypeOK ==
  /\ [tasks |-> disk.tasks, workflows |-> disk.workflows,
      state |-> disk.state] \in Memories
  /\ disk.last \in ProjectStates
  /\ disk.chained \in BOOLEAN
  /\ disk.torn \subseteq Files \ {"history"}
  /\ \A p \in Processes :
       /\ proc[p].step \in Steps
       /\ proc[p].memory \in Memories
       /\ proc[p].open \in BOOLEAN
       /\ \A i \in DOMAIN proc[p].plan : proc[p].plan[i].file \in Files

NewProject ==
  [tasks |-> [t \in Tasks |-> "defined"],
   workflows |-> [w \in Workflows |-> "defined"],
   state |-> "created"]

Off == [step |-> "off", memory |-> NewProject, plan |-> <<>>, open |-> FALSE]

-----------------------------------------------------------------------------
(* The writes of a command, in the order it makes them.                    *)

\* A transition saves the state, then appends the record.
Enter(from, to) ==
  <<[file |-> "state", from |-> from, to |-> to],
    [file |-> "history", from |-> from, to |-> to]>>

\* Mutant: the bridge's step is taken but not saved.
TransitionWritesUnbridged(current, target) ==
  LET end == ApplyTransition(current, target)
  IN  IF end # current THEN Enter(current, end) ELSE <<>>

\* Asking for a target makes no transition, one, or two with the bridge.
TransitionWrites(current, target) ==
  LET via == IF current = target \/ CanTransition(current, target)
               THEN current ELSE AfterBridge(current, target)
      end == ApplyTransition(current, target)
  IN  (IF via # current THEN Enter(current, via) ELSE <<>>)
        \o (IF end # via THEN Enter(via, end) ELSE <<>>)

SyncWrites(ws, ts, ps) ==
  LET target == DeriveProjectState(ws, ts, ps) IN
  IF target = NoTarget THEN <<>> ELSE TransitionWrites(ps, target)

Save(ts, ws) == <<[file |-> "progress", tasks |-> ts, workflows |-> ws]>>

\* The refresh persists before the reconciliation, and the command after it.
ActivateEffect(w, m) ==
  LET ts == ActivatedTasks(w, m.tasks)
      ws == RefreshedStatus(w, [m.workflows EXCEPT ![w] = "activated"], ts)
      ps == ApplyTransition(m.state, "planning")
  IN  [memory |-> [tasks |-> ts, workflows |-> ws,
                   state |-> SyncProjectState(ws, ts, ps)],
       plan |-> TransitionWrites(m.state, "planning") \o Save(ts, ws)
                  \o SyncWrites(ws, ts, ps) \o Save(ts, ws)]

\* The transition an outcome asks for before anything about it is persisted.
OutcomeWrites(t, success, ps) ==
  IF ~success THEN TransitionWrites(ps, "failed")
  ELSE IF t \in RequiresApproval
    THEN TransitionWrites(ps, "awaiting_approval")
    ELSE <<>>

\* Mutant: the progress is persisted before the transition is made.
OutcomeEffectProgressFirst(t, success, m) ==
  LET ts  == OutcomeTasks(t, success, m.workflows, m.tasks)
      ws  == RefreshedStatus(WorkflowOf[t], m.workflows, ts)
      ps1 == OutcomeState(t, success, m.state)
      ps2 == CompletionState(WorkflowOf[t], success, ws, ps1)
  IN  [memory |-> [tasks |-> ts, workflows |-> ws,
                   state |-> SyncProjectState(ws, ts, ps2)],
       plan |-> Save(ts, ws) \o OutcomeWrites(t, success, m.state)
                  \o (IF ps2 # ps1 THEN TransitionWrites(ps1, "completed")
                                   ELSE <<>>)
                  \o SyncWrites(ws, ts, ps2) \o Save(ts, ws)]

OutcomeEffect(t, success, m) ==
  LET ts  == OutcomeTasks(t, success, m.workflows, m.tasks)
      ws  == RefreshedStatus(WorkflowOf[t], m.workflows, ts)
      ps1 == OutcomeState(t, success, m.state)
      ps2 == CompletionState(WorkflowOf[t], success, ws, ps1)
  IN  [memory |-> [tasks |-> ts, workflows |-> ws,
                   state |-> SyncProjectState(ws, ts, ps2)],
       plan |-> OutcomeWrites(t, success, m.state) \o Save(ts, ws)
                  \o (IF ps2 # ps1 THEN TransitionWrites(ps1, "completed")
                                   ELSE <<>>)
                  \o SyncWrites(ws, ts, ps2) \o Save(ts, ws)]

\* Mutant: that the task was handed over is not persisted.
DispatchEffectUnmarked(t, success, m) ==
  LET running == [m.tasks EXCEPT ![t] = "running"]
      ps      == ApplyTransition(m.state, "executing")
      outcome == OutcomeEffect(
                   t, success, [m EXCEPT !.tasks = running, !.state = ps])
  IN  [memory |-> outcome.memory,
       plan |-> TransitionWrites(m.state, "executing")
                  \o Save(running, m.workflows) \o outcome.plan]

\* Promotion, the two marks, the worker, and its outcome.
DispatchEffect(t, success, m) ==
  LET dispatched == [m.tasks EXCEPT ![t] = "dispatched"]
      running    == [m.tasks EXCEPT ![t] = "running"]
      ps         == ApplyTransition(m.state, "executing")
      outcome    == OutcomeEffect(
                      t, success,
                      [m EXCEPT !.tasks = running, !.state = ps])
  IN  [memory |-> outcome.memory,
       plan |-> TransitionWrites(m.state, "executing")
                  \o Save(dispatched, m.workflows)
                  \o Save(running, m.workflows) \o outcome.plan]

-----------------------------------------------------------------------------

\* A command starts: it reads all three files, or fails on a torn one.  The
\* refresh of the load is done in memory alone.
Load(p) ==
  /\ proc[p].step = "off"
  /\ disk.torn = {}
  /\ LET ts == [t \in Tasks |->
                  RefreshedTasks(WorkflowOf[t], disk.workflows, disk.tasks)[t]]
         ws == [w \in Workflows |->
                  DeriveWorkflowStatus(w, disk.workflows[w], ts)]
     IN proc' = [proc EXCEPT ![p] =
                   [step |-> "loaded", plan |-> <<>>, open |-> FALSE,
                    memory |-> [tasks |-> ts, workflows |-> ws,
                                state |-> disk.state]]]
  /\ UNCHANGED disk

\* Process p goes on to make the writes of an effect.
Perform(p, step, effect) ==
  /\ proc' = [proc EXCEPT ![p] =
                [step |-> step, memory |-> effect.memory,
                 plan |-> effect.plan, open |-> FALSE]]
  /\ UNCHANGED disk

ActivateCommand(p, w) ==
  /\ proc[p].step = "loaded"
  /\ proc[p].memory.workflows[w] \in Inactive
  /\ Perform(p, "once", ActivateEffect(w, proc[p].memory))

OutcomeCommand(p, t, success) ==
  /\ proc[p].step = "loaded"
  /\ proc[p].memory.tasks[t] = "ready"
  /\ Perform(p, "once", OutcomeEffect(t, success, proc[p].memory))

TransitionCommand(p, target) ==
  /\ proc[p].step = "loaded"
  /\ CanTransition(proc[p].memory.state, target)
  /\ Perform(p, "once",
             [memory |-> [proc[p].memory EXCEPT !.state = target],
              plan |-> Enter(proc[p].memory.state, target)])

\* A dispatch; the run loop makes one after the other on the same copy.
DispatchCommand(p, t, success) ==
  /\ proc[p].step \in {"loaded", "looping"}
  /\ proc[p].plan = <<>>
  /\ proc[p].memory.tasks[t] = "ready"
  /\ proc[p].memory.state \in DispatchAllowed
  /\ Perform(p, IF success THEN "looping" ELSE "once",
             DispatchEffect(t, success, proc[p].memory))

\* The file a process is about to write, or is writing.
Target(p) == Head(proc[p].plan).file

(***************************************************************************)
(* write_text truncates the file it opens; an append does not.  Two        *)
(* processes do not have one file open at the same time: of the interplay  *)
(* of processes only whole writes are modelled.                            *)
(***************************************************************************)
OpenFile(p) ==
  /\ proc[p].plan # <<>>
  /\ ~proc[p].open
  /\ Target(p) # "history"
  /\ \A q \in Processes : proc[q].open => Target(q) # Target(p)
  /\ disk' = [disk EXCEPT !.torn = @ \cup {Target(p)}]
  /\ proc' = [proc EXCEPT ![p].open = TRUE]

\* Mutant: the statuses of the workflows are not saved.
WrittenTasksOnly(d, write) ==
  CASE write.file = "state" ->
         [d EXCEPT !.state = write.to, !.torn = @ \ {"state"}]
    [] write.file = "progress" ->
         [d EXCEPT !.tasks = write.tasks, !.torn = @ \ {"progress"}]
    [] write.file = "history" ->
         [d EXCEPT !.last = write.to, !.chained = @ /\ write.from = d.last]

\* The files d once a write is complete.
Written(d, write) ==
  CASE write.file = "state" ->
         [d EXCEPT !.state = write.to, !.torn = @ \ {"state"}]
    [] write.file = "progress" ->
         [d EXCEPT !.tasks = write.tasks, !.workflows = write.workflows,
                   !.torn = @ \ {"progress"}]
    [] write.file = "history" ->
         [d EXCEPT !.last = write.to, !.chained = @ /\ write.from = d.last]

FinishWrite(p) ==
  /\ proc[p].plan # <<>>
  /\ proc[p].open <=> Target(p) # "history"
  /\ disk' = Written(disk, Head(proc[p].plan))
  /\ proc' = [proc EXCEPT ![p].plan = Tail(@), ![p].open = FALSE]

\* The command has made its writes, or had none to make.
Exit(p) ==
  /\ proc[p].step # "off"
  /\ proc[p].plan = <<>>
  /\ proc' = [proc EXCEPT ![p] = Off]
  /\ UNCHANGED disk

\* The process is killed, between two writes or in the middle of one.
Kill(p) ==
  /\ proc[p].plan # <<>>
  /\ proc' = [proc EXCEPT ![p] = Off]
  /\ UNCHANGED disk

CliInit ==
  /\ disk = [tasks |-> NewProject.tasks, workflows |-> NewProject.workflows,
             state |-> "created", last |-> "created", chained |-> TRUE,
             torn |-> {}]
  /\ proc = [p \in Processes |-> Off]

CliNext ==
  \E p \in Processes :
    \/ Load(p) \/ OpenFile(p) \/ FinishWrite(p) \/ Exit(p) \/ Kill(p)
    \/ \E w \in Workflows : ActivateCommand(p, w)
    \/ \E t \in Tasks, success \in BOOLEAN :
         OutcomeCommand(p, t, success) \/ DispatchCommand(p, t, success)
    \/ \E target \in ProjectStates : TransitionCommand(p, target)

CliSpec == CliInit /\ [][CliNext]_cliVars

-----------------------------------------------------------------------------
(* Properties.                                                             *)

\* The core, looked at through the files alone.
OnDisk == INSTANCE WorkflowEngine WITH
  taskStatus <- disk.tasks,
  workflowStatus <- disk.workflows,
  projectState <- disk.state,
  NoTask <- "none",
  dispatch <- [task |-> "none", step |-> "idle"]

(***************************************************************************)
(* Whichever write a kill comes after, the progress file that was last     *)
(* completed is a consistent one: no task is released before what it       *)
(* depends on, every workflow's status agrees with its tasks, and the      *)
(* refresh of the next load finds nothing to change.                       *)
(***************************************************************************)
ProgressFileConsistent ==
  /\ OnDisk!DependenciesRecorded
  /\ OnDisk!WorkflowStatusTruthful
  /\ OnDisk!ReloadStable

(***************************************************************************)
(* Seen through the progress file, write by write, the tasks keep to their *)
(* life cycle: no kill and no later command takes a task back, or over a   *)
(* step of its way that the file never showed.                             *)
(***************************************************************************)
FilesKeepLifecycle == OnDisk!ImplementsLifecycle

(***************************************************************************)
(* The state file only ever goes from one state to another by a transition *)
(* of the table, also from what a killed command left there.               *)
(***************************************************************************)
ValidTransitionsOnly ==
  [][disk'.state # disk.state =>
       CanTransition(disk.state, disk'.state)]_cliVars

(***************************************************************************)
(* The order of the writes keeps a kill from losing a halt.  By the time   *)
(* the progress file shows a failed task, the state file has left every    *)
(* state in which work is under way, and by the time it shows a task that  *)
(* needs approval as recorded, it has left ready and executing (nothing is *)
(* asked of an approval recorded in recovering, which has no transition to *)
(* awaiting_approval).  The project is only marked completed when the file *)
(* shows a completed workflow, or by a command that writes no progress.    *)
(***************************************************************************)
HaltsBeforeProgress ==
  [][ /\ \A t \in Tasks : disk'.tasks[t] # disk.tasks[t] =>
           /\ disk'.tasks[t] = "failed" =>
                disk.state \notin {"ready", "executing", "awaiting_approval",
                                  "blocked", "recovering"}
           /\ disk'.tasks[t] = "recorded" /\ t \in RequiresApproval =>
                disk.state \notin {"ready", "executing"}
      /\ disk.state # "completed" /\ disk'.state = "completed" =>
           \/ \E w \in Workflows : disk.workflows[w] = "completed"
           \/ \E p \in Processes : Len(proc[p].plan) = 2
    ]_cliVars

-----------------------------------------------------------------------------
(* What the documents say and the code does not do.                        *)

(***************************************************************************)
(* design/006_STATE_MACHINE.md: a transition is applied atomically and     *)
(* every transition has a recorded cause.  A kill after the state is saved *)
(* and before the record is appended leaves a transition without a record. *)
(***************************************************************************)
TransitionsRecorded ==
  (\A p \in Processes : proc[p].step = "off") => disk.last = disk.state

(***************************************************************************)
(* design/006_STATE_MACHINE.md: before a transition is applied, the        *)
(* project must currently occupy the source state.  A process checks that  *)
(* against the copy it loaded, whatever another one has written since.     *)
(***************************************************************************)
SourceStateHeld ==
  [][\A p \in Processes :
       FinishWrite(p) /\ Target(p) = "state" =>
         Head(proc[p].plan).from = disk.state]_cliVars

=============================================================================
