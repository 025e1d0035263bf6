------------------------- MODULE CliProcessesProofs --------------------------
(***************************************************************************)
(* Proofs about the command line at the grain of its file writes, for any  *)
(* number of processes at once, each of them killed anywhere.              *)
(*                                                                         *)
(* What makes the progress file consistent whoever wrote it last is that a *)
(* process only ever writes a whole and consistent copy: the invariant     *)
(* says so of the files, of the copies in memory and of the writes that    *)
(* are still to be made.                                                   *)
(*                                                                         *)
(* With one command at a time more holds: what is still to be written      *)
(* leads the files, by steps of the table and of the life cycle, to where  *)
(* the copy in memory is.                                                  *)
(***************************************************************************)
EXTENDS CliProcesses, WorkflowProgressProofs, SequenceTheorems

\* The writes a command may have to make.
ProgressWrites ==
  {w \in [file : {"progress"}, tasks : [Tasks -> TaskStatuses],
          workflows : [Workflows -> WorkflowStatuses]] :
     Consistent(w.tasks, w.workflows)}

StateWrites ==
  [file : {"state", "history"}, from : ProjectStates, to : ProjectStates]

Writes == ProgressWrites \cup StateWrites

\* The copies a command works on.
Copies == {m \in Memories : Consistent(m.tasks, m.workflows)}

Effects == [memory : Copies, plan : Seq(Writes)]

Disks ==
  [tasks : [Tasks -> TaskStatuses], workflows : [Workflows -> WorkflowStatuses],
   state : ProjectStates, last : ProjectStates, chained : BOOLEAN,
   torn : SUBSET {"state", "progress"}]

Procs == [step : Steps, memory : Copies, plan : Seq(Writes), open : BOOLEAN]

CliIInv ==
  /\ disk \in Disks
  /\ Consistent(disk.tasks, disk.workflows)
  /\ proc \in [Processes -> Procs]

-----------------------------------------------------------------------------
(* Lemmas: what a command keeps in memory and what it writes.              *)

\* Consistent tasks and workflows have statuses.
LEMMA ConsistentTypes ==
  ASSUME NEW ts, NEW ws, Consistent(ts, ws)
  PROVE  ts \in [Tasks -> TaskStatuses] /\ ws \in [Workflows -> WorkflowStatuses]
BY DEF Consistent, Reached, TaskStatuses

\* Consistent progress and a state make a copy.
LEMMA CopyType ==
  ASSUME NEW ts, NEW ws, Consistent(ts, ws), NEW ps \in ProjectStates
  PROVE  [tasks |-> ts, workflows |-> ws, state |-> ps] \in Copies
BY ConsistentTypes DEF Copies, Memories

\* A copy has its parts.
LEMMA CopyParts ==
  ASSUME NEW m \in Copies
  PROVE  Consistent(m.tasks, m.workflows) /\ m.state \in ProjectStates
BY DEF Copies, Memories

\* Saving consistent progress is a write.
LEMMA SaveType ==
  ASSUME NEW ts, NEW ws, Consistent(ts, ws)
  PROVE  Save(ts, ws) \in Seq(Writes)
<1>1. [file |-> "progress", tasks |-> ts, workflows |-> ws] \in Writes
  BY ConsistentTypes DEF Writes, ProgressWrites
<1> QED
  BY <1>1 DEF Save

\* Entering a state is a sequence of writes.
LEMMA EnterType ==
  ASSUME NEW from \in ProjectStates, NEW to \in ProjectStates
  PROVE  Enter(from, to) \in Seq(Writes)
<1>1. /\ [file |-> "state", from |-> from, to |-> to] \in Writes
      /\ [file |-> "history", from |-> from, to |-> to] \in Writes
  BY DEF Writes, StateWrites
<1> QED
  BY <1>1 DEF Enter

\* So is a transition, by its bridge or without.
LEMMA TransitionWritesType ==
  ASSUME NEW current \in ProjectStates, NEW target \in ProjectStates
  PROVE  TransitionWrites(current, target) \in Seq(Writes)
<1> DEFINE via == IF current = target \/ CanTransition(current, target)
                    THEN current ELSE AfterBridge(current, target)
           end == ApplyTransition(current, target)
           first == IF via # current THEN Enter(current, via) ELSE <<>>
           second == IF end # via THEN Enter(via, end) ELSE <<>>
<1>1. via \in ProjectStates /\ end \in ProjectStates
  BY ApplyTransitionType DEF AfterBridge, ProjectStates
<1>2. first \in Seq(Writes) /\ second \in Seq(Writes)
  <2> HIDE DEF via, end
  <2> QED
    BY <1>1, EnterType, EmptySeq
<1>3. TransitionWrites(current, target) = first \o second
  BY DEF TransitionWrites
<1> HIDE DEF first, second
<1> QED
  BY <1>2, <1>3, ConcatProperties

\* So is reconciling the project state.
LEMMA SyncWritesType ==
  ASSUME NEW ws, NEW ts, NEW ps \in ProjectStates
  PROVE  SyncWrites(ws, ts, ps) \in Seq(Writes)
<1> DEFINE target == DeriveProjectState(ws, ts, ps)
<1>1. target \in ProjectStates \cup {NoTarget}
  BY DEF DeriveProjectState, ProjectStates, NoTarget
<1>2. SyncWrites(ws, ts, ps) = IF target = NoTarget THEN <<>>
                               ELSE TransitionWrites(ps, target)
  BY DEF SyncWrites
<1> HIDE DEF target
<1> QED
  BY <1>1, <1>2, TransitionWritesType, EmptySeq

\* Four writes in a row.
LEMMA Concat4 ==
  ASSUME NEW a \in Seq(Writes), NEW b \in Seq(Writes),
         NEW c \in Seq(Writes), NEW d \in Seq(Writes)
  PROVE  a \o b \o c \o d \in Seq(Writes)
<1>1. a \o b \in Seq(Writes)
  BY ConcatProperties
<1>2. a \o b \o c \in Seq(Writes)
  BY <1>1, ConcatProperties
<1> QED
  BY <1>2, ConcatProperties

\* An activation makes a copy and writes, all consistent.
LEMMA ActivateEffectType ==
  ASSUME NEW m \in Copies, NEW w \in Workflows, m.workflows[w] \in Inactive
  PROVE  ActivateEffect(w, m) \in Effects
<1> DEFINE ts == ActivatedTasks(w, m.tasks)
           ws == RefreshedStatus(w, [m.workflows EXCEPT ![w] = "activated"], ts)
           ps == ApplyTransition(m.state, "planning")
<1>1. Consistent(m.tasks, m.workflows) /\ m.state \in ProjectStates
  BY CopyParts
<1>2. Consistent(ts, ws)
  BY <1>1, ActivationConsistent
<1>3. "planning" \in ProjectStates
  BY DEF ProjectStates
<1>4. ps \in ProjectStates /\ SyncProjectState(ws, ts, ps) \in ProjectStates
  BY <1>1, <1>3, ApplyTransitionType, SyncType
<1>5. ActivateEffect(w, m) =
        [memory |-> [tasks |-> ts, workflows |-> ws,
                     state |-> SyncProjectState(ws, ts, ps)],
         plan |-> TransitionWrites(m.state, "planning") \o Save(ts, ws)
                    \o SyncWrites(ws, ts, ps) \o Save(ts, ws)]
  BY DEF ActivateEffect
<1> HIDE DEF ts, ws, ps
<1>6. [tasks |-> ts, workflows |-> ws, state |-> SyncProjectState(ws, ts, ps)] \in Copies
  BY <1>2, <1>4, CopyType
<1>7. /\ TransitionWrites(m.state, "planning") \in Seq(Writes)
      /\ Save(ts, ws) \in Seq(Writes) /\ SyncWrites(ws, ts, ps) \in Seq(Writes)
  BY <1>1, <1>2, <1>3, <1>4, TransitionWritesType, SaveType, SyncWritesType
<1>8. TransitionWrites(m.state, "planning") \o Save(ts, ws)
        \o SyncWrites(ws, ts, ps) \o Save(ts, ws) \in Seq(Writes)
  BY <1>7, Concat4
<1> QED
  BY <1>5, <1>6, <1>8 DEF Effects

\* So does an outcome.
LEMMA OutcomeEffectType ==
  ASSUME NEW m \in Copies, NEW t \in Tasks, NEW success \in BOOLEAN,
         m.tasks[t] \in {"ready", "running"}
  PROVE  OutcomeEffect(t, success, m) \in Effects
<1> DEFINE ts  == OutcomeTasks(t, success, m.workflows, m.tasks)
           ws  == RefreshedStatus(WorkflowOf[t], m.workflows, ts)
           ps1 == OutcomeState(t, success, m.state)
           ps2 == CompletionState(WorkflowOf[t], success, ws, ps1)
           completing == IF ps2 # ps1 THEN TransitionWrites(ps1, "completed") ELSE <<>>
<1>1. Consistent(m.tasks, m.workflows) /\ m.state \in ProjectStates
  BY CopyParts
<1>2. Consistent(ts, ws)
  BY <1>1, OutcomeConsistent
<1>3. {"failed", "awaiting_approval", "completed"} \subseteq ProjectStates
  BY DEF ProjectStates
<1>4. ps1 \in ProjectStates
  BY <1>1, <1>3, ApplyTransitionType DEF OutcomeState
<1>5. ps2 \in ProjectStates
  <2> HIDE DEF ps1, ws, ts
  <2> QED
    BY <1>3, <1>4, ApplyTransitionType DEF CompletionState
<1>6. OutcomeEffect(t, success, m) =
        [memory |-> [tasks |-> ts, workflows |-> ws,
                     state |-> SyncProjectState(ws, ts, ps2)],
         plan |-> OutcomeWrites(t, success, m.state) \o Save(ts, ws)
                    \o completing \o SyncWrites(ws, ts, ps2) \o Save(ts, ws)]
  BY DEF OutcomeEffect
<1> HIDE DEF ts, ws, ps1, ps2
<1>7. OutcomeWrites(t, success, m.state) \in Seq(Writes)
  BY <1>1, <1>3, TransitionWritesType, EmptySeq DEF OutcomeWrites
<1>8. completing \in Seq(Writes)
  BY <1>3, <1>4, TransitionWritesType, EmptySeq
<1>9. /\ Save(ts, ws) \in Seq(Writes) /\ SyncWrites(ws, ts, ps2) \in Seq(Writes)
      /\ SyncProjectState(ws, ts, ps2) \in ProjectStates
  BY <1>2, <1>5, SaveType, SyncWritesType, SyncType
<1>10. [tasks |-> ts, workflows |-> ws, state |-> SyncProjectState(ws, ts, ps2)]
         \in Copies
  BY <1>2, <1>9, CopyType
<1> HIDE DEF completing
<1>11. OutcomeWrites(t, success, m.state) \o Save(ts, ws) \o completing
         \o SyncWrites(ws, ts, ps2) \in Seq(Writes)
  BY <1>7, <1>8, <1>9, Concat4
<1>12. OutcomeWrites(t, success, m.state) \o Save(ts, ws) \o completing
         \o SyncWrites(ws, ts, ps2) \o Save(ts, ws) \in Seq(Writes)
  BY <1>9, <1>11, ConcatProperties
<1> QED
  BY <1>6, <1>10, <1>12 DEF Effects

\* The copy a dispatch hands to the outcome, field by field.
LEMMA CopyWith ==
  ASSUME NEW m \in Memories,
         NEW ts \in [Tasks -> TaskStatuses], NEW ps \in ProjectStates
  PROVE  [m EXCEPT !.tasks = ts, !.state = ps] =
           [tasks |-> ts, workflows |-> m.workflows, state |-> ps]
<1> DEFINE r == [m EXCEPT !.tasks = ts, !.state = ps]
<1>1. r \in Memories
  BY DEF Memories
<1>2. r.tasks = ts /\ r.workflows = m.workflows /\ r.state = ps
  BY DEF Memories
<1>3. r = [tasks |-> r.tasks, workflows |-> r.workflows, state |-> r.state]
  <2> HIDE DEF r
  <2> QED
    BY <1>1 DEF Memories
<1> QED
  BY <1>2, <1>3

\* So does a whole dispatch.
LEMMA DispatchEffectType ==
  ASSUME NEW m \in Copies, NEW t \in Tasks, NEW success \in BOOLEAN,
         m.tasks[t] = "ready"
  PROVE  DispatchEffect(t, success, m) \in Effects
<1> DEFINE dispatched == [m.tasks EXCEPT ![t] = "dispatched"]
           running    == [m.tasks EXCEPT ![t] = "running"]
           ps         == ApplyTransition(m.state, "executing")
           handed     == [m EXCEPT !.tasks = running, !.state = ps]
           outcome    == OutcomeEffect(t, success, handed)
<1>1. Consistent(m.tasks, m.workflows) /\ m.state \in ProjectStates
  BY CopyParts
<1>2. Consistent(dispatched, m.workflows) /\ Consistent(running, m.workflows)
  BY <1>1, HandoverConsistent
<1>3. "executing" \in ProjectStates /\ ps \in ProjectStates
  BY <1>1, ApplyTransitionType DEF ProjectStates
<1>4. handed = [tasks |-> running, workflows |-> m.workflows, state |-> ps]
  <2>1. m \in Memories /\ running \in [Tasks -> TaskStatuses]
    BY <1>2 DEF Copies, Consistent, Reached, TaskStatuses
  <2> HIDE DEF running, ps
  <2> QED
    BY <1>3, <2>1, CopyWith
<1>5. running[t] = "running"
  BY <1>1 DEF Consistent
<1>6. DispatchEffect(t, success, m) =
        [memory |-> outcome.memory,
         plan |-> TransitionWrites(m.state, "executing")
                    \o Save(dispatched, m.workflows)
                    \o Save(running, m.workflows) \o outcome.plan]
  BY DEF DispatchEffect
<1> HIDE DEF dispatched, running, ps, outcome
<1>7. handed \in Copies /\ handed.tasks[t] = "running"
  BY <1>2, <1>3, <1>4, <1>5, CopyType
<1>8. outcome \in Effects
  <2> HIDE DEF handed
  <2> QED
    BY <1>7, OutcomeEffectType DEF outcome
<1>9. outcome.memory \in Copies /\ outcome.plan \in Seq(Writes)
  BY <1>8 DEF Effects
<1>10. /\ TransitionWrites(m.state, "executing") \in Seq(Writes)
       /\ Save(dispatched, m.workflows) \in Seq(Writes)
       /\ Save(running, m.workflows) \in Seq(Writes)
  BY <1>1, <1>2, <1>3, TransitionWritesType, SaveType
<1>11. TransitionWrites(m.state, "executing") \o Save(dispatched, m.workflows)
         \o Save(running, m.workflows) \o outcome.plan \in Seq(Writes)
  BY <1>9, <1>10, Concat4
<1> QED
  BY <1>6, <1>9, <1>11 DEF Effects

-----------------------------------------------------------------------------
(* The invariant.                                                          *)

\* A new project is consistent, and nobody works on it.
LEMMA InitCliIInv == CliInit => CliIInv
<1> SUFFICES ASSUME CliInit
             PROVE  CliIInv
  OBVIOUS
<1>1. Consistent(NewProject.tasks, NewProject.workflows)
  BY InitialConsistent DEF NewProject
<1>2. "created" \in ProjectStates
  BY DEF ProjectStates
<1>3. NewProject \in Copies
  BY <1>1, <1>2, CopyType DEF NewProject
<1>4. Off \in Procs
  BY <1>3, EmptySeq DEF Off, Procs, Steps
<1>5. disk \in Disks /\ Consistent(disk.tasks, disk.workflows)
  BY <1>1, <1>2, ConsistentTypes DEF CliInit, Disks
<1> QED
  BY <1>4, <1>5 DEF CliInit, CliIInv

\* A process takes on an effect.
LEMMA PerformKeeps ==
  ASSUME CliIInv, NEW p \in Processes, NEW step \in Steps, NEW effect \in Effects,
         Perform(p, step, effect)
  PROVE  CliIInv'
<1>1. effect.memory \in Copies /\ effect.plan \in Seq(Writes)
  BY DEF Effects
<1>2. [step |-> step, memory |-> effect.memory, plan |-> effect.plan, open |-> FALSE]
        \in Procs
  BY <1>1 DEF Procs
<1> QED
  BY <1>2 DEF Perform, CliIInv

\* The copy of a process at work.
LEMMA MemoryType ==
  ASSUME CliIInv, NEW p \in Processes
  PROVE  proc[p] \in Procs /\ proc[p].memory \in Copies /\ proc[p].plan \in Seq(Writes)
BY DEF CliIInv, Procs

(***************************************************************************)
(* The refresh of a load finds nothing to change, so the copy is what the  *)
(* files hold.                                                             *)
(***************************************************************************)
LEMMA LoadKeeps ==
  ASSUME CliIInv, NEW p \in Processes, Load(p)
  PROVE  CliIInv'
<1> DEFINE ts == [t \in Tasks |->
                    RefreshedTasks(WorkflowOf[t], disk.workflows, disk.tasks)[t]]
           ws == [w \in Workflows |-> DeriveWorkflowStatus(w, disk.workflows[w], ts)]
<1>1. Consistent(disk.tasks, disk.workflows) /\ disk.state \in ProjectStates
  BY DEF CliIInv, Disks
<1>2. ts = disk.tasks
  <2>1. \A t \in Tasks :
          RefreshedTasks(WorkflowOf[t], disk.workflows, disk.tasks) = disk.tasks
    BY <1>1, RefreshStable, WorkflowOfAssumption
  <2> QED
    BY <1>1, <2>1 DEF Consistent
<1> HIDE DEF ts
<1>3. ws = disk.workflows
  BY <1>1, <1>2 DEF Consistent, DerivedIn
<1> HIDE DEF ws
<1>4. [tasks |-> ts, workflows |-> ws, state |-> disk.state] \in Copies
  BY <1>1, <1>2, <1>3, CopyType
<1>5. [step |-> "loaded", plan |-> <<>>, open |-> FALSE,
       memory |-> [tasks |-> ts, workflows |-> ws, state |-> disk.state]] \in Procs
  BY <1>4, EmptySeq DEF Procs, Steps
<1>6. /\ proc' = [proc EXCEPT ![p] =
            [step |-> "loaded", plan |-> <<>>, open |-> FALSE,
             memory |-> [tasks |-> ts, workflows |-> ws, state |-> disk.state]]]
      /\ disk' = disk
  BY DEF Load, ts, ws
<1> QED
  BY <1>5, <1>6 DEF CliIInv

\* A write that is complete leaves a consistent file.
LEMMA FinishWriteKeeps ==
  ASSUME CliIInv, NEW p \in Processes, FinishWrite(p)
  PROVE  CliIInv'
<1> DEFINE write == Head(proc[p].plan)
<1>1. /\ proc[p].plan # <<>> /\ disk' = Written(disk, write)
      /\ proc' = [proc EXCEPT ![p].plan = Tail(@), ![p].open = FALSE]
  BY DEF FinishWrite
<1>2. write \in Writes /\ Tail(proc[p].plan) \in Seq(Writes)
  BY <1>1, MemoryType, HeadTailProperties
<1>3. proc' \in [Processes -> Procs]
  BY <1>1, <1>2 DEF CliIInv, Procs
<1> HIDE DEF write
<1>4. CASE write \in ProgressWrites
  <2>1. /\ write.file = "progress" /\ Consistent(write.tasks, write.workflows)
        /\ write.tasks \in [Tasks -> TaskStatuses]
        /\ write.workflows \in [Workflows -> WorkflowStatuses]
    BY <1>4 DEF ProgressWrites
  <2>2. disk' = [disk EXCEPT !.tasks = write.tasks, !.workflows = write.workflows,
                             !.torn = @ \ {"progress"}]
    BY <1>1, <2>1 DEF Written
  <2>3. disk' \in Disks /\ Consistent(disk'.tasks, disk'.workflows)
    BY <2>1, <2>2 DEF CliIInv, Disks
  <2> QED
    BY <1>3, <2>3 DEF CliIInv
<1>5. CASE write \in StateWrites /\ write.file = "state"
  <2>1. disk' = [disk EXCEPT !.state = write.to, !.torn = @ \ {"state"}]
    BY <1>1, <1>5 DEF Written
  <2>2. write.to \in ProjectStates
    BY <1>5 DEF StateWrites
  <2>3. disk' \in Disks /\ disk'.tasks = disk.tasks /\ disk'.workflows = disk.workflows
    BY <2>1, <2>2 DEF CliIInv, Disks
  <2> QED
    BY <1>3, <2>3 DEF CliIInv
<1>6. CASE write \in StateWrites /\ write.file = "history"
  <2>1. disk' = [disk EXCEPT !.last = write.to,
                             !.chained = @ /\ write.from = disk.last]
    BY <1>1, <1>6 DEF Written
  <2>2. write.to \in ProjectStates
    BY <1>6 DEF StateWrites
  <2>3. disk' \in Disks /\ disk'.tasks = disk.tasks /\ disk'.workflows = disk.workflows
    <3>1. (disk.chained /\ write.from = disk.last) \in BOOLEAN
      OBVIOUS
    <3> QED
      BY <2>1, <2>2, <3>1 DEF CliIInv, Disks
  <2> QED
    BY <1>3, <2>3 DEF CliIInv
<1> QED
  BY <1>2, <1>4, <1>5, <1>6 DEF Writes, StateWrites

\* A file that is opened may stay torn, but not the history.
LEMMA OpenFileKeeps ==
  ASSUME CliIInv, NEW p \in Processes, OpenFile(p)
  PROVE  CliIInv'
<1>1. Head(proc[p].plan) \in Writes
  BY MemoryType, HeadTailProperties DEF OpenFile
<1>2. Target(p) \in {"state", "progress"}
  BY <1>1 DEF OpenFile, Target, Writes, ProgressWrites, StateWrites
<1>3. disk' \in Disks /\ disk'.tasks = disk.tasks /\ disk'.workflows = disk.workflows
  BY <1>2 DEF OpenFile, CliIInv, Disks
<1>4. proc' \in [Processes -> Procs]
  BY DEF OpenFile, CliIInv, Procs
<1> QED
  BY <1>3, <1>4 DEF CliIInv

\* Every step of every process keeps the invariant.
LEMMA CliNextKeeps == CliIInv /\ [CliNext]_cliVars => CliIInv'
<1> SUFFICES ASSUME CliIInv, [CliNext]_cliVars
             PROVE  CliIInv'
  OBVIOUS
<1>1. ASSUME NEW p \in Processes, Load(p) \/ OpenFile(p) \/ FinishWrite(p)
      PROVE  CliIInv'
  BY <1>1, LoadKeeps, OpenFileKeeps, FinishWriteKeeps
<1>2. ASSUME NEW p \in Processes, Exit(p) \/ Kill(p)
      PROVE  CliIInv'
  <2>1. disk' = disk /\ proc' = [proc EXCEPT ![p] = Off]
    BY <1>2 DEF Exit, Kill
  <2>2. NewProject \in Copies
    BY InitialConsistent, CopyType DEF NewProject, ProjectStates
  <2>3. Off \in Procs
    BY <2>2, EmptySeq DEF Off, Procs, Steps
  <2> QED
    BY <2>1, <2>3 DEF CliIInv
<1>3. ASSUME NEW p \in Processes, NEW w \in Workflows, ActivateCommand(p, w)
      PROVE  CliIInv'
  BY <1>3, MemoryType, ActivateEffectType, PerformKeeps DEF ActivateCommand, Steps
<1>4. ASSUME NEW p \in Processes, NEW t \in Tasks, NEW success \in BOOLEAN,
             OutcomeCommand(p, t, success)
      PROVE  CliIInv'
  BY <1>4, MemoryType, OutcomeEffectType, PerformKeeps DEF OutcomeCommand, Steps
<1>5. ASSUME NEW p \in Processes, NEW t \in Tasks, NEW success \in BOOLEAN,
             DispatchCommand(p, t, success)
      PROVE  CliIInv'
  BY <1>5, MemoryType, DispatchEffectType, PerformKeeps DEF DispatchCommand, Steps
<1>6. ASSUME NEW p \in Processes, NEW target \in ProjectStates,
             TransitionCommand(p, target)
      PROVE  CliIInv'
  <2> DEFINE m == proc[p].memory
             effect == [memory |-> [m EXCEPT !.state = target],
                        plan |-> Enter(m.state, target)]
  <2>1. m \in Copies /\ m.state \in ProjectStates
    BY MemoryType, CopyParts
  <2>2. [m EXCEPT !.state = target] \in Copies
    BY <2>1 DEF Copies, Memories
  <2>3. Enter(m.state, target) \in Seq(Writes)
    BY <2>1, EnterType
  <2>4. effect \in Effects
    BY <2>2, <2>3 DEF Effects
  <2>5. Perform(p, "once", effect)
    BY <1>6 DEF TransitionCommand
  <2> HIDE DEF effect
  <2> QED
    BY <2>4, <2>5, PerformKeeps DEF Steps
<1>7. CASE UNCHANGED cliVars
  BY <1>7 DEF cliVars, CliIInv
<1> QED
  BY <1>1, <1>2, <1>3, <1>4, <1>5, <1>6, <1>7 DEF CliNext

-----------------------------------------------------------------------------
(* The theorems.                                                           *)

\* The strengthened invariant, for any number of processes.
THEOREM CliInductive == CliSpec => []CliIInv
<1> QED
  BY InitCliIInv, CliNextKeeps, PTL DEF CliSpec

\* Type correctness of files, copies and writes; the history is never torn.
THEOREM CliTypeCorrect == CliSpec => []CliTypeOK
<1>1. CliIInv => CliTypeOK
  <2> SUFFICES ASSUME CliIInv
               PROVE  CliTypeOK
    OBVIOUS
  <2>1. /\ disk.tasks \in [Tasks -> TaskStatuses]
        /\ disk.workflows \in [Workflows -> WorkflowStatuses]
        /\ disk.state \in ProjectStates
        /\ disk.last \in ProjectStates /\ disk.chained \in BOOLEAN
        /\ disk.torn \subseteq Files \ {"history"}
    BY DEF CliIInv, Disks, Files
  <2>2. [tasks |-> disk.tasks, workflows |-> disk.workflows, state |-> disk.state]
          \in Memories
    BY <2>1 DEF Memories
  <2>3. ASSUME NEW p \in Processes
        PROVE  /\ proc[p].step \in Steps /\ proc[p].memory \in Memories
               /\ proc[p].open \in BOOLEAN
               /\ \A i \in DOMAIN proc[p].plan : proc[p].plan[i].file \in Files
    <3>1. proc[p] \in Procs /\ proc[p].plan \in Seq(Writes)
      BY MemoryType
    <3>2. \A i \in DOMAIN proc[p].plan : proc[p].plan[i] \in Writes
      BY <3>1, ElementOfSeq
    <3> QED
      BY <3>1, <3>2 DEF Procs, Copies, Writes, ProgressWrites, StateWrites, Files
  <2> QED
    BY <2>1, <2>2, <2>3 DEF CliTypeOK
<1> QED
  BY <1>1, CliInductive, PTL

(***************************************************************************)
(* Whichever write of however many processes comes last, and whoever is    *)
(* killed where, the progress file that was last completed is consistent   *)
(* (save_progress): concurrent commands lose updates, not consistency.     *)
(***************************************************************************)
THEOREM ProgressAlwaysConsistent == CliSpec => []ProgressFileConsistent
<1>1. CliIInv => ProgressFileConsistent
  <2> SUFFICES ASSUME CliIInv
               PROVE  ProgressFileConsistent
    OBVIOUS
  <2>1. Consistent(disk.tasks, disk.workflows)
    BY DEF CliIInv
  <2>2. OnDisk!InFlight = InFlight
    BY DEF OnDisk!InFlight, InFlight
  <2>3. \A w : OnDisk!TasksOf(w) = TasksOf(w)
    BY DEF OnDisk!TasksOf, TasksOf
  <2>4. OnDisk!DependenciesRecorded
    BY <2>1, <2>2, ReleasedMeansRecorded DEF OnDisk!DependenciesRecorded
  <2>5. \A w \in Workflows :
          Agrees(disk.workflows[w], {disk.tasks[t] : t \in TasksOf(w)})
    BY <2>1, StatusAgrees
  <2>6. OnDisk!WorkflowStatusTruthful
    BY <2>3, <2>5 DEF OnDisk!WorkflowStatusTruthful, Agrees
  <2>7. \A w : OnDisk!RefreshedTasks(w, disk.workflows, disk.tasks)
               = RefreshedTasks(w, disk.workflows, disk.tasks)
    BY DEF OnDisk!RefreshedTasks, RefreshedTasks, OnDisk!EvaluateTaskReadiness,
           EvaluateTaskReadiness, OnDisk!DependenciesSatisfied,
           DependenciesSatisfied, OnDisk!Done, Done, OnDisk!Inactive, Inactive
  <2>8. \A w : OnDisk!RefreshedStatus(w, disk.workflows, disk.tasks)
               = RefreshedStatus(w, disk.workflows, disk.tasks)
    BY <2>2, <2>3
       DEF OnDisk!RefreshedStatus, RefreshedStatus,
           OnDisk!DeriveWorkflowStatus, DeriveWorkflowStatus, OnDisk!Done, Done,
           OnDisk!Inactive, Inactive, OnDisk!Active, Active
  <2>9. OnDisk!ReloadStable
    BY <2>1, <2>7, <2>8, RefreshStable DEF OnDisk!ReloadStable
  <2> QED
    BY <2>4, <2>6, <2>9 DEF ProgressFileConsistent
<1> QED
  BY <1>1, CliInductive, PTL

-----------------------------------------------------------------------------
(* One command at a time: the way of the files along the writes.           *)

Memory(ts, ws, ps) == [tasks |-> ts, workflows |-> ws, state |-> ps]

\* Tasks ts become new in one step of their life cycle, or stay.
Onward(ts, new) ==
  \/ new = ts
  \/ \E worked \in Tasks : \A t \in Tasks :
       \/ new[t] = ts[t]
       \/ ts[t] = "defined" /\ new[t] \in {"pending", "ready"}
       \/ ts[t] = "pending" /\ new[t] = "ready"
       \/ /\ t = worked
          /\ \/ ts[t] = "ready" /\ new[t] \in {"dispatched", "recorded", "failed"}
             \/ ts[t] = "dispatched" /\ new[t] = "running"
             \/ ts[t] = "running" /\ new[t] \in {"recorded", "failed"}

\* Where the project has to stand before the file shows that.
Halted(ts, new, ps) ==
  \A t \in Tasks : new[t] # ts[t] =>
    /\ new[t] = "failed" =>
         ps \notin {"ready", "executing", "awaiting_approval", "blocked",
                    "recovering"}
    /\ new[t] = "recorded" /\ t \in RequiresApproval =>
         ps \notin {"ready", "executing"}

\* Write w takes the files from m to n, as it should.
Makes(m, w, n) ==
  \/ w.file = "history" /\ n = m
  \/ /\ w.file = "state" /\ CanTransition(m.state, w.to)
     /\ n = Memory(m.tasks, m.workflows, w.to)
  \/ /\ w.file = "progress" /\ n = Memory(w.tasks, w.workflows, m.state)
     /\ Onward(m.tasks, w.tasks) /\ Halted(m.tasks, w.tasks, m.state)

\* Some workflow is completed in m.
Finished(m) == \E w \in Workflows : m.workflows[w] = "completed"

\* A project is marked completed when the files show it.
Shown(m, w) == w.file = "state" /\ w.to = "completed" => Finished(m)

\* Function c is the way of the files along the writes s.
Way(c, s, a, b) ==
  /\ c \in [0 .. Len(s) -> Copies] /\ c[0] = a /\ c[Len(s)] = b
  /\ \A i \in 1 .. Len(s) : Makes(c[i - 1], s[i], c[i])

\* The writes s lead from a to b.
Leads(s, a, b) ==
  /\ s \in Seq(Writes)
  /\ \E c : Way(c, s, a, b) /\ \A i \in 1 .. Len(s) : Shown(c[i - 1], s[i])

\* The same, where the last two writes may be a human's.
Ends(s, a, b) ==
  /\ s \in Seq(Writes)
  /\ \E c : /\ Way(c, s, a, b)
            /\ \A i \in 1 .. Len(s) : Shown(c[i - 1], s[i]) \/ i = Len(s) - 1

\* No writes lead nowhere.
LEMMA LeadsNowhere ==
  ASSUME NEW a \in Copies
  PROVE  Leads(<<>>, a, a)
<1> DEFINE c == [i \in 0 .. 0 |-> a]
<1>1. <<>> \in Seq(Writes) /\ Len(<<>>) = 0
  BY EmptySeq
<1>2. Way(c, <<>>, a, a)
  BY <1>1 DEF Way
<1> QED
  BY <1>1, <1>2 DEF Leads

\* One write leads as far as it goes.
LEMMA LeadsOne ==
  ASSUME NEW a \in Copies, NEW b \in Copies, NEW w \in Writes,
         Makes(a, w, b), Shown(a, w)
  PROVE  Leads(<<w>>, a, b)
<1> DEFINE s == <<w>>
           c == [i \in 0 .. 1 |-> IF i = 0 THEN a ELSE b]
<1>1. s \in Seq(Writes) /\ Len(s) = 1 /\ s[1] = w
  OBVIOUS
<1> HIDE DEF s
<1>2. c \in [0 .. 1 -> Copies] /\ c[0] = a /\ c[1] = b
  OBVIOUS
<1> HIDE DEF c
<1>3. \A i \in 1 .. Len(s) : i = 1 /\ i - 1 = 0
  BY <1>1
<1>4. Way(c, s, a, b)
  BY <1>1, <1>2, <1>3 DEF Way
<1>5. Leads(s, a, b)
  BY <1>1, <1>2, <1>3, <1>4 DEF Leads
<1> QED
  BY <1>5 DEF s

\* Where one way ends another may begin.
LEMMA LeadsOn ==
  ASSUME NEW s, NEW a, NEW b, Leads(s, a, b),
         NEW t, NEW d, Leads(t, b, d)
  PROVE  Leads(s \o t, a, d)
<1> DEFINE u == s \o t
           n == Len(s)
           k == Len(t)
<1>1. /\ s \in Seq(Writes) /\ t \in Seq(Writes) /\ n \in Nat /\ k \in Nat
  BY DEF Leads
<1>2. /\ u \in Seq(Writes) /\ Len(u) = n + k
      /\ \A i \in 1 .. n + k : u[i] = IF i <= n THEN s[i] ELSE t[i - n]
  BY <1>1, ConcatProperties
<1>3. PICK e : Way(e, s, a, b) /\ \A i \in 1 .. n : Shown(e[i - 1], s[i])
  BY DEF Leads
<1>4. PICK f : Way(f, t, b, d) /\ \A i \in 1 .. k : Shown(f[i - 1], t[i])
  BY DEF Leads
<1> DEFINE c == [i \in 0 .. n + k |-> IF i <= n THEN e[i] ELSE f[i - n]]
<1> HIDE DEF u
<1>5. /\ e \in [0 .. n -> Copies] /\ e[0] = a /\ e[n] = b
      /\ \A i \in 1 .. n : Makes(e[i - 1], s[i], e[i])
  BY <1>3 DEF Way
<1>6. /\ f \in [0 .. k -> Copies] /\ f[0] = b /\ f[k] = d
      /\ \A i \in 1 .. k : Makes(f[i - 1], t[i], f[i])
  BY <1>4 DEF Way
<1> HIDE DEF n, k
<1>7. \A i \in 0 .. n : c[i] = e[i]
  BY <1>1
<1>8. \A i \in 0 .. k : c[n + i] = f[i]
  <2>1. ASSUME NEW i \in 0 .. k
        PROVE  c[n + i] = f[i]
    <3>1. n + i \in 0 .. n + k /\ (n + i) - n = i /\ (n + i <= n => i = 0)
      BY <1>1
    <3>2. CASE n + i <= n
      BY <1>5, <1>6, <3>1, <3>2, <1>1
    <3>3. CASE ~(n + i <= n)
      BY <3>1, <3>3
    <3> QED
      BY <3>2, <3>3
  <2> QED
    BY <2>1
<1>9. c \in [0 .. n + k -> Copies]
  <2>1. ASSUME NEW i \in 0 .. n + k
        PROVE  c[i] \in Copies
    <3>1. CASE i <= n
      BY <1>1, <1>5, <3>1
    <3>2. CASE ~(i <= n)
      <4>1. i - n \in 0 .. k
        BY <1>1, <3>2
      <4> QED
        BY <1>6, <3>2, <4>1
    <3> QED
      BY <3>1, <3>2
  <2>2. c = [i \in 0 .. n + k |-> c[i]]
    OBVIOUS
  <2> HIDE DEF c
  <2> QED
    BY <2>1, <2>2
<1> HIDE DEF c
<1>10. ASSUME NEW i \in 1 .. n + k
       PROVE  Makes(c[i - 1], u[i], c[i]) /\ Shown(c[i - 1], u[i])
  <2>1. CASE i <= n
    <3>1. i \in 1 .. n /\ i - 1 \in 0 .. n /\ i \in 0 .. n
      BY <1>1, <2>1
    <3>2. c[i - 1] = e[i - 1] /\ c[i] = e[i] /\ u[i] = s[i]
      BY <1>2, <1>7, <2>1, <3>1
    <3> QED
      BY <1>3, <1>5, <3>1, <3>2
  <2>2. CASE ~(i <= n)
    <3> DEFINE j == i - n
    <3>1. j \in 1 .. k /\ j - 1 \in 0 .. k /\ j \in 0 .. k /\ n + j = i
          /\ n + (j - 1) = i - 1
      BY <1>1, <2>2
    <3>2. u[i] = t[j]
      BY <1>2, <2>2
    <3> HIDE DEF j
    <3>3. c[i - 1] = f[j - 1] /\ c[i] = f[j]
      BY <1>8, <3>1
    <3> QED
      BY <1>4, <1>6, <3>1, <3>2, <3>3
  <2> QED
    BY <2>1, <2>2
<1>11. c[0] = a /\ c[n + k] = d
  BY <1>1, <1>5, <1>6, <1>7, <1>8
<1>12. Way(c, u, a, d)
  BY <1>2, <1>9, <1>10, <1>11 DEF Way
<1>13. Leads(u, a, d)
  BY <1>2, <1>10, <1>12 DEF Leads
<1> QED
  BY <1>13 DEF u

\* Memory m with the project in state ps.
At(m, ps) == Memory(m.tasks, m.workflows, ps)

\* A copy stays one in another state of the project.
LEMMA AtType ==
  ASSUME NEW m \in Copies, NEW ps \in ProjectStates
  PROVE  /\ At(m, ps) \in Copies /\ At(m, ps).tasks = m.tasks
         /\ At(m, ps).workflows = m.workflows /\ At(m, ps).state = ps
         /\ m.state \in ProjectStates
BY CopyParts, CopyType DEF At, Memory

\* In its own state it is itself.
LEMMA AtSame ==
  ASSUME NEW m \in Copies
  PROVE  At(m, m.state) = m
BY DEF At, Memory, Copies, Memories

\* A transition, by its two writes.
LEMMA EnterLeads ==
  ASSUME NEW m \in Copies, NEW to \in ProjectStates, CanTransition(m.state, to),
         to = "completed" => Finished(m)
  PROVE  Leads(Enter(m.state, to), m, At(m, to))
<1> DEFINE first == [file |-> "state", from |-> m.state, to |-> to]
           second == [file |-> "history", from |-> m.state, to |-> to]
<1>1. At(m, to) \in Copies /\ m.state \in ProjectStates
  BY AtType
<1>2. /\ first \in Writes /\ first.file = "state" /\ first.to = to
      /\ second \in Writes /\ second.file = "history"
  BY <1>1 DEF Writes, StateWrites
<1>3. Enter(m.state, to) = <<first>> \o <<second>>
  BY DEF Enter
<1> HIDE DEF first, second
<1>4. Leads(<<first>>, m, At(m, to))
  BY <1>1, <1>2, LeadsOne DEF Makes, Shown, At
<1>5. Leads(<<second>>, At(m, to), At(m, to))
  BY <1>1, <1>2, LeadsOne DEF Makes, Shown
<1> QED
  BY <1>3, <1>4, <1>5, LeadsOn

\* Asking for a target, with the bridge or refused.
LEMMA TransitionLeads ==
  ASSUME NEW m \in Copies, NEW target \in ProjectStates,
         target = "completed" => Finished(m)
  PROVE  Leads(TransitionWrites(m.state, target), m,
               At(m, ApplyTransition(m.state, target)))
<1> DEFINE current == m.state
           via == IF current = target \/ CanTransition(current, target)
                    THEN current ELSE AfterBridge(current, target)
           end == ApplyTransition(current, target)
           first == IF via # current THEN Enter(current, via) ELSE <<>>
           second == IF end # via THEN Enter(via, end) ELSE <<>>
<1>1. current \in ProjectStates
  BY AtType
<1>2. via # current => via = "executing" /\ CanTransition(current, via)
  BY DEF AfterBridge
<1>3. end # via => end = target /\ CanTransition(via, end)
  BY DEF ApplyTransition
<1>4. via \in ProjectStates /\ end \in ProjectStates
  BY <1>1, <1>2, ApplyTransitionType DEF ProjectStates
<1>5. TransitionWrites(current, target) = first \o second
  BY DEF TransitionWrites
<1> HIDE DEF via, end
<1>6. Leads(first, m, At(m, via))
  <2>1. CASE via = current
    BY <2>1, AtSame, LeadsNowhere
  <2>2. CASE via # current
    BY <1>2, <1>4, <2>2, EnterLeads
  <2> QED
    BY <2>1, <2>2
<1>7. Leads(second, At(m, via), At(m, end))
  <2>1. At(m, via) \in Copies /\ At(m, via).state = via
        /\ At(At(m, via), end) = At(m, end)
    BY <1>4, AtType DEF At, Memory
  <2>2. CASE end = via
    BY <2>1, <2>2, LeadsNowhere
  <2>3. CASE end # via
    <3>1. end = "completed" => Finished(At(m, via))
      BY <1>3, <1>4, <2>3, AtType DEF Finished
    <3> QED
      BY <1>3, <1>4, <2>1, <2>3, <3>1, EnterLeads
  <2> QED
    BY <2>2, <2>3
<1> HIDE DEF first, second
<1>8. Leads(first \o second, m, At(m, end))
  BY <1>6, <1>7, LeadsOn
<1> QED
  BY <1>5, <1>8 DEF end

\* Reconciling, from files that agree with themselves.
LEMMA SyncLeads ==
  ASSUME NEW m \in Copies
  PROVE  Leads(SyncWrites(m.workflows, m.tasks, m.state), m,
               At(m, SyncProjectState(m.workflows, m.tasks, m.state)))
<1> DEFINE target == DeriveProjectState(m.workflows, m.tasks, m.state)
<1>1. target \in ProjectStates \cup {NoTarget}
  BY DEF DeriveProjectState, ProjectStates, NoTarget
<1>2. target = "completed" => Finished(m)
  <2>1. SUFFICES ASSUME target = "completed"
                 PROVE  Finished(m)
    OBVIOUS
  <2>2. /\ Workflows # {}
        /\ {DeriveWorkflowStatus(w, m.workflows[w], m.tasks) : w \in Workflows}
             = {"completed"}
    BY <2>1 DEF DeriveProjectState, NoTarget
  <2>3. \A w \in Workflows :
          m.workflows[w] = DeriveWorkflowStatus(w, m.workflows[w], m.tasks)
    BY CopyParts DEF Consistent, DerivedIn
  <2> QED
    BY <2>2, <2>3 DEF Finished
<1>3. /\ SyncWrites(m.workflows, m.tasks, m.state) =
           IF target = NoTarget THEN <<>> ELSE TransitionWrites(m.state, target)
      /\ SyncProjectState(m.workflows, m.tasks, m.state) =
           IF target = NoTarget THEN m.state ELSE ApplyTransition(m.state, target)
  BY DEF SyncWrites, SyncProjectState
<1> HIDE DEF target
<1>4. CASE target = NoTarget
  BY <1>3, <1>4, AtSame, LeadsNowhere
<1>5. CASE target # NoTarget
  BY <1>1, <1>2, <1>3, <1>5, TransitionLeads
<1> QED
  BY <1>4, <1>5

\* Saving the progress is a step of the tasks that comes after the halt.
LEMMA SaveLeads ==
  ASSUME NEW ts, NEW ws, NEW ps \in ProjectStates, Consistent(ts, ws),
         NEW new, NEW refreshed, Consistent(new, refreshed),
         Onward(ts, new), Halted(ts, new, ps)
  PROVE  Leads(Save(new, refreshed), Memory(ts, ws, ps), Memory(new, refreshed, ps))
<1> DEFINE w == [file |-> "progress", tasks |-> new, workflows |-> refreshed]
           m == Memory(ts, ws, ps)
           n == Memory(new, refreshed, ps)
<1>1. m \in Copies /\ n \in Copies
  BY CopyType DEF Memory
<1>2. w \in Writes
  BY ConsistentTypes DEF Writes, ProgressWrites
<1>3. /\ w.file = "progress" /\ w.tasks = new /\ w.workflows = refreshed
      /\ m.tasks = ts /\ m.state = ps
  BY DEF Memory
<1>4. n = Memory(w.tasks, w.workflows, m.state)
  BY <1>3
<1> HIDE DEF w, m, n
<1>5. Makes(m, w, n) /\ Shown(m, w)
  BY <1>3, <1>4 DEF Makes, Shown
<1>6. Leads(<<w>>, m, n)
  BY <1>1, <1>2, <1>5, LeadsOne
<1> QED
  BY <1>6 DEF w, m, n, Save

\* Saving what is in the file already.
LEMMA SaveAgain ==
  ASSUME NEW m \in Copies
  PROVE  Leads(Save(m.tasks, m.workflows), m, m)
<1>1. Consistent(m.tasks, m.workflows) /\ m.state \in ProjectStates
  BY CopyParts
<1>2. Onward(m.tasks, m.tasks) /\ Halted(m.tasks, m.tasks, m.state)
  BY DEF Onward, Halted
<1>3. Memory(m.tasks, m.workflows, m.state) = m
  BY AtSame DEF At
<1> QED
  BY <1>1, <1>2, <1>3, SaveLeads

\* The writes of an activation.
LEMMA ActivateLeads ==
  ASSUME NEW m \in Copies, NEW w \in Workflows, m.workflows[w] \in Inactive
  PROVE  Leads(ActivateEffect(w, m).plan, m, ActivateEffect(w, m).memory)
<1> DEFINE ts == ActivatedTasks(w, m.tasks)
           ws == RefreshedStatus(w, [m.workflows EXCEPT ![w] = "activated"], ts)
           ps == ApplyTransition(m.state, "planning")
           last == SyncProjectState(ws, ts, ps)
           n == Memory(ts, ws, ps)
           end == Memory(ts, ws, last)
<1>1. Consistent(m.tasks, m.workflows) /\ m.state \in ProjectStates
  BY CopyParts
<1>2. "planning" \in ProjectStates /\ ps \in ProjectStates /\ last \in ProjectStates
  BY <1>1, ApplyTransitionType, SyncType DEF ProjectStates
<1>3. Consistent(ts, ws)
  BY <1>1, ActivationConsistent
<1>4. m.workflows[w] = "defined"
  BY <1>1 DEF Consistent, Inactive
<1>5. /\ ts \in [Tasks -> Reached] /\ m.tasks \in [Tasks -> Reached]
      /\ \A t \in Tasks :
           \/ ts[t] = m.tasks[t]
           \/ m.tasks[t] = "defined" /\ ts[t] \in {"pending", "ready"}
  BY <1>1, <1>4, ActivatedTasksFacts DEF Consistent
<1>6. /\ ActivateEffect(w, m).memory = end
      /\ ActivateEffect(w, m).plan =
           TransitionWrites(m.state, "planning") \o Save(ts, ws)
             \o SyncWrites(ws, ts, ps) \o Save(ts, ws)
  BY DEF ActivateEffect, Memory
<1> HIDE DEF ts, ws, ps
<1>7. n \in Copies /\ end \in Copies
  BY <1>2, <1>3, CopyType DEF Memory
<1>8. /\ n.tasks = ts /\ n.workflows = ws /\ n.state = ps
      /\ end.tasks = ts /\ end.workflows = ws /\ At(n, last) = end
  BY DEF Memory, At
<1> HIDE DEF last, n, end
<1>9. Leads(TransitionWrites(m.state, "planning"), m, At(m, ps))
  BY <1>2, TransitionLeads DEF ps
<1>10. Onward(m.tasks, ts) /\ Halted(m.tasks, ts, ps)
  <2>1. Onward(m.tasks, ts)
    <3>1. CASE Tasks = {}
      BY <1>5, <3>1 DEF Onward
    <3>2. CASE Tasks # {}
      BY <1>5, <3>2 DEF Onward
    <3> QED
      BY <3>1, <3>2
  <2>2. Halted(m.tasks, ts, ps)
    BY <1>5 DEF Halted
  <2> QED
    BY <2>1, <2>2
<1>11. Leads(Save(ts, ws), At(m, ps), n)
  BY <1>1, <1>2, <1>3, <1>10, SaveLeads DEF At, n
<1>12. Leads(SyncWrites(ws, ts, ps), n, end)
  BY <1>7, <1>8, SyncLeads DEF last
<1>13. Leads(Save(ts, ws), end, end)
  BY <1>7, <1>8, SaveAgain
<1>14. Leads(TransitionWrites(m.state, "planning") \o Save(ts, ws), m, n)
  BY <1>9, <1>11, LeadsOn
<1>15. Leads(TransitionWrites(m.state, "planning") \o Save(ts, ws)
               \o SyncWrites(ws, ts, ps), m, end)
  BY <1>12, <1>14, LeadsOn
<1> QED
  BY <1>6, <1>13, <1>15, LeadsOn

\* The transition an outcome asks for comes first, and is the one that halts.
LEMMA OutcomeHalts ==
  ASSUME NEW ps \in ProjectStates, NEW t, NEW success \in BOOLEAN
  PROVE  /\ ~success => OutcomeState(t, success, ps) \notin
              {"ready", "executing", "awaiting_approval", "blocked", "recovering"}
         /\ success /\ t \in RequiresApproval =>
              OutcomeState(t, success, ps) \notin {"ready", "executing"}
BY DEF OutcomeState, ApplyTransition, AfterBridge, BridgesThroughExecuting,
       CanTransition, VALID_TRANSITIONS, ProjectStates

\* The writes of an outcome.
LEMMA OutcomeLeads ==
  ASSUME NEW m \in Copies, NEW t \in Tasks, NEW success \in BOOLEAN,
         m.tasks[t] \in {"ready", "running"}
  PROVE  Leads(OutcomeEffect(t, success, m).plan, m,
               OutcomeEffect(t, success, m).memory)
<1> DEFINE ts == OutcomeTasks(t, success, m.workflows, m.tasks)
           ws == RefreshedStatus(WorkflowOf[t], m.workflows, ts)
           ps1 == OutcomeState(t, success, m.state)
           ps2 == CompletionState(WorkflowOf[t], success, ws, ps1)
           last == SyncProjectState(ws, ts, ps2)
           completing == IF ps2 # ps1 THEN TransitionWrites(ps1, "completed") ELSE <<>>
           n1 == Memory(ts, ws, ps1)
           n2 == Memory(ts, ws, ps2)
           end == Memory(ts, ws, last)
<1>1. Consistent(m.tasks, m.workflows) /\ m.state \in ProjectStates
  BY CopyParts
<1>2. {"failed", "awaiting_approval", "completed"} \subseteq ProjectStates
  BY DEF ProjectStates
<1>3. Consistent(ts, ws)
  BY <1>1, OutcomeConsistent
<1>4. /\ m.tasks \in [Tasks -> Reached] /\ ts \in [Tasks -> Reached]
      /\ ts[t] = IF success THEN "recorded" ELSE "failed"
      /\ \A u \in Tasks \ {t} :
           \/ ts[u] = m.tasks[u]
           \/ m.tasks[u] = "pending" /\ ts[u] = "ready"
  BY <1>1, OutcomeTasksFacts DEF Consistent
<1>5. ps1 \in ProjectStates
  BY <1>1, <1>2, ApplyTransitionType DEF OutcomeState
<1>6. /\ OutcomeEffect(t, success, m).memory = end
      /\ OutcomeEffect(t, success, m).plan =
           OutcomeWrites(t, success, m.state) \o Save(ts, ws)
             \o completing \o SyncWrites(ws, ts, ps2) \o Save(ts, ws)
  BY DEF OutcomeEffect, Memory
<1>7. ps2 = IF success /\ ws[WorkflowOf[t]] = "completed"
              THEN ApplyTransition(ps1, "completed") ELSE ps1
  BY DEF CompletionState
<1> HIDE DEF ts, ws, ps1, ps2
<1>8. ps2 \in ProjectStates
  BY <1>2, <1>5, <1>7, ApplyTransitionType
<1>9. last \in ProjectStates
  BY <1>8, SyncType
<1>10. n1 \in Copies /\ n2 \in Copies /\ end \in Copies
  BY <1>3, <1>5, <1>8, <1>9, CopyType DEF Memory
<1>11. /\ n1.tasks = ts /\ n1.workflows = ws /\ n1.state = ps1
       /\ n2.tasks = ts /\ n2.workflows = ws /\ n2.state = ps2
       /\ end.tasks = ts /\ end.workflows = ws
       /\ At(n1, ps2) = n2 /\ At(n2, last) = end
  BY DEF Memory, At
<1> HIDE DEF last, n1, n2, end
<1>12. Leads(OutcomeWrites(t, success, m.state), m, At(m, ps1))
  <2>1. CASE ~success
    BY <1>2, <2>1, TransitionLeads DEF OutcomeWrites, OutcomeState, ps1
  <2>2. CASE success /\ t \in RequiresApproval
    BY <1>2, <2>2, TransitionLeads DEF OutcomeWrites, OutcomeState, ps1
  <2>3. CASE success /\ t \notin RequiresApproval
    BY <2>3, AtSame, LeadsNowhere DEF OutcomeWrites, OutcomeState, ps1
  <2> QED
    BY <2>1, <2>2, <2>3
<1>13. Onward(m.tasks, ts)
  BY <1>4 DEF Onward
<1>14. Halted(m.tasks, ts, ps1)
  <2>1. /\ ~success => ps1 \notin {"ready", "executing", "awaiting_approval",
                                   "blocked", "recovering"}
        /\ success /\ t \in RequiresApproval => ps1 \notin {"ready", "executing"}
    BY <1>1, OutcomeHalts DEF ps1
  <2> QED
    BY <1>4, <2>1 DEF Halted
<1>15. Leads(Save(ts, ws), At(m, ps1), n1)
  BY <1>1, <1>3, <1>5, <1>13, <1>14, SaveLeads DEF At, n1
<1>16. Leads(completing, n1, n2)
  <2>1. CASE ps2 = ps1
    BY <1>10, <1>11, <2>1, AtSame, LeadsNowhere
  <2>2. CASE ps2 # ps1
    <3>1. Finished(n1) /\ ps2 = ApplyTransition(ps1, "completed")
      BY <1>7, <1>11, <2>2, WorkflowOfAssumption DEF Finished
    <3> QED
      BY <1>2, <1>10, <1>11, <2>2, <3>1, TransitionLeads
  <2> QED
    BY <2>1, <2>2
<1> HIDE DEF completing
<1>17. Leads(SyncWrites(ws, ts, ps2), n2, end)
  BY <1>10, <1>11, SyncLeads DEF last
<1>18. Leads(Save(ts, ws), end, end)
  BY <1>10, <1>11, SaveAgain
<1>19. Leads(OutcomeWrites(t, success, m.state) \o Save(ts, ws), m, n1)
  BY <1>12, <1>15, LeadsOn
<1>20. Leads(OutcomeWrites(t, success, m.state) \o Save(ts, ws) \o completing, m, n2)
  BY <1>16, <1>19, LeadsOn
<1>21. Leads(OutcomeWrites(t, success, m.state) \o Save(ts, ws) \o completing
               \o SyncWrites(ws, ts, ps2), m, end)
  BY <1>17, <1>20, LeadsOn
<1> QED
  BY <1>6, <1>18, <1>21, LeadsOn

\* The copy a dispatch hands to the outcome.
LEMMA HandedOver ==
  ASSUME NEW m \in Copies, NEW ts, Consistent(ts, m.workflows),
         NEW ps \in ProjectStates
  PROVE  [m EXCEPT !.tasks = ts, !.state = ps] = Memory(ts, m.workflows, ps)
<1>1. m \in Memories /\ ts \in [Tasks -> TaskStatuses]
  BY ConsistentTypes DEF Copies
<1> QED
  BY <1>1, CopyWith, Zenon DEF Memory

\* The writes of a dispatch.
LEMMA DispatchLeads ==
  ASSUME NEW m \in Copies, NEW t \in Tasks, NEW success \in BOOLEAN,
         m.tasks[t] = "ready"
  PROVE  Leads(DispatchEffect(t, success, m).plan, m,
               DispatchEffect(t, success, m).memory)
<1> DEFINE dispatched == [m.tasks EXCEPT ![t] = "dispatched"]
           running    == [m.tasks EXCEPT ![t] = "running"]
           ps         == ApplyTransition(m.state, "executing")
           handed     == [m EXCEPT !.tasks = running, !.state = ps]
           n1         == Memory(dispatched, m.workflows, ps)
           n2         == Memory(running, m.workflows, ps)
           outcome    == OutcomeEffect(t, success, n2)
<1>1. Consistent(m.tasks, m.workflows) /\ m.state \in ProjectStates
  BY CopyParts
<1>2. Consistent(dispatched, m.workflows) /\ Consistent(running, m.workflows)
  BY <1>1, HandoverConsistent
<1>3. "executing" \in ProjectStates /\ ps \in ProjectStates
  BY <1>1, ApplyTransitionType DEF ProjectStates
<1>4. handed = n2
  <2> HIDE DEF running, ps
  <2> QED
    BY <1>2, <1>3, HandedOver, Zenon
<1>5. /\ \A u \in Tasks : dispatched[u] = IF u = t THEN "dispatched" ELSE m.tasks[u]
      /\ \A u \in Tasks : running[u] = IF u = t THEN "running" ELSE m.tasks[u]
  BY <1>1 DEF Consistent
<1>6. /\ DispatchEffect(t, success, m).memory = outcome.memory
      /\ DispatchEffect(t, success, m).plan =
           TransitionWrites(m.state, "executing")
             \o Save(dispatched, m.workflows)
             \o Save(running, m.workflows) \o outcome.plan
  BY <1>4 DEF DispatchEffect
<1> HIDE DEF dispatched, running, ps, outcome
<1>7. n2 \in Copies /\ n2.tasks = running
  BY <1>2, <1>3, CopyType DEF Memory
<1> HIDE DEF n1, n2
<1>8. Leads(TransitionWrites(m.state, "executing"), m, At(m, ps))
  BY <1>3, TransitionLeads DEF ps
<1>9. /\ Onward(m.tasks, dispatched) /\ Halted(m.tasks, dispatched, ps)
      /\ Onward(dispatched, running) /\ Halted(dispatched, running, ps)
  <2>1. Onward(m.tasks, dispatched)
    BY <1>5 DEF Onward
  <2>2. Onward(dispatched, running)
    BY <1>5 DEF Onward
  <2>3. Halted(m.tasks, dispatched, ps) /\ Halted(dispatched, running, ps)
    BY <1>5 DEF Halted
  <2> QED
    BY <2>1, <2>2, <2>3
<1>10. Leads(Save(dispatched, m.workflows), At(m, ps), n1)
  BY <1>1, <1>2, <1>3, <1>9, SaveLeads DEF At, n1
<1>11. Leads(Save(running, m.workflows), n1, n2)
  BY <1>2, <1>3, <1>9, SaveLeads DEF n1, n2
<1>12. Leads(outcome.plan, n2, outcome.memory)
  BY <1>5, <1>7, OutcomeLeads DEF outcome
<1>13. Leads(TransitionWrites(m.state, "executing") \o Save(dispatched, m.workflows),
             m, n1)
  BY <1>8, <1>10, LeadsOn
<1>14. Leads(TransitionWrites(m.state, "executing") \o Save(dispatched, m.workflows)
               \o Save(running, m.workflows), m, n2)
  BY <1>11, <1>13, LeadsOn
<1> QED
  BY <1>6, <1>12, <1>14, LeadsOn

-----------------------------------------------------------------------------
(* One command at a time: the invariant.                                   *)

\* What the files hold, as long as they are not torn.
OnFile == Memory(disk.tasks, disk.workflows, disk.state)

(***************************************************************************)
(* What a process still has to write takes the files, step by step, to     *)
(* where its copy is; before a command acts its copy is what they hold.    *)
(***************************************************************************)
Alone ==
  \A p \in Processes :
    /\ proc[p].step # "off" => Ends(proc[p].plan, OnFile, proc[p].memory)
    /\ proc[p].step \in {"off", "loaded"} => proc[p].plan = <<>>

\* What leads somewhere ends there.
LEMMA LeadsEnds ==
  ASSUME NEW s, NEW a, NEW b, Leads(s, a, b)
  PROVE  Ends(s, a, b)
BY DEF Leads, Ends

\* Without writes nothing moves.
LEMMA EndsHere ==
  ASSUME NEW a, NEW b, Ends(<<>>, a, b)
  PROVE  a = b
BY EmptySeq DEF Ends, Way

\* The first of the writes takes its step, and the others lead on from there.
LEMMA EndsFirst ==
  ASSUME NEW s, NEW a, NEW b, Ends(s, a, b), s # <<>>
  PROVE  \E n \in Copies :
           /\ a \in Copies /\ Makes(a, Head(s), n)
           /\ Shown(a, Head(s)) \/ Len(s) = 2
           /\ Ends(Tail(s), n, b)
<1> DEFINE k == Len(s)
<1>1. s \in Seq(Writes) /\ k \in Nat /\ k > 0
  BY EmptySeq DEF Ends
<1>2. PICK c : /\ Way(c, s, a, b)
               /\ \A i \in 1 .. k : Shown(c[i - 1], s[i]) \/ i = k - 1
  BY DEF Ends
<1>3. /\ c \in [0 .. k -> Copies] /\ c[0] = a /\ c[k] = b
      /\ \A i \in 1 .. k : Makes(c[i - 1], s[i], c[i])
  BY <1>2 DEF Way
<1>4. /\ Tail(s) \in Seq(Writes) /\ Len(Tail(s)) = k - 1 /\ Head(s) = s[1]
      /\ \A i \in 1 .. k - 1 : Tail(s)[i] = s[i + 1]
  BY <1>1, HeadTailProperties
<1> HIDE DEF k
<1>5. 1 \in 1 .. k /\ 1 - 1 = 0 /\ 0 \in 0 .. k /\ 1 \in 0 .. k
  BY <1>1
<1>6. a \in Copies /\ c[1] \in Copies /\ Makes(a, Head(s), c[1])
  BY <1>3, <1>4, <1>5
<1>7. Shown(a, Head(s)) \/ k = 2
  <2>1. Shown(c[1 - 1], s[1]) \/ 1 = k - 1
    BY <1>2, <1>5
  <2> QED
    BY <1>1, <1>3, <1>4, <1>5, <2>1
<1> DEFINE d == [i \in 0 .. k - 1 |-> c[i + 1]]
<1>8. \A i \in 0 .. k - 1 : i + 1 \in 0 .. k
  BY <1>1
<1>9. d \in [0 .. k - 1 -> Copies] /\ d[0] = c[1] /\ d[k - 1] = b
  <2>1. 0 \in 0 .. k - 1 /\ k - 1 \in 0 .. k - 1 /\ 0 + 1 = 1 /\ (k - 1) + 1 = k
    BY <1>1
  <2> QED
    BY <1>3, <1>8, <2>1
<1>10. \A i \in 0 .. k - 1 : d[i] = c[i + 1]
  OBVIOUS
<1> HIDE DEF d
<1>11. ASSUME NEW i \in 1 .. k - 1
       PROVE  /\ Makes(d[i - 1], Tail(s)[i], d[i])
              /\ Shown(d[i - 1], Tail(s)[i]) \/ i = (k - 1) - 1
  <2> DEFINE j == i + 1
  <2>1. /\ j \in 1 .. k /\ j - 1 = i /\ i - 1 \in 0 .. k - 1 /\ i \in 0 .. k - 1
        /\ (i - 1) + 1 = i /\ (j = k - 1 => i = (k - 1) - 1)
    BY <1>1
  <2>2. d[i - 1] = c[i] /\ d[i] = c[j] /\ Tail(s)[i] = s[j]
    BY <1>4, <1>10, <2>1
  <2> HIDE DEF j
  <2>3. Makes(c[j - 1], s[j], c[j]) /\ (Shown(c[j - 1], s[j]) \/ j = k - 1)
    BY <1>2, <1>3, <2>1 DEF k
  <2> QED
    BY <2>1, <2>2, <2>3
<1>12. Way(d, Tail(s), c[1], b)
  BY <1>4, <1>9, <1>11 DEF Way
<1>13. Ends(Tail(s), c[1], b)
  BY <1>4, <1>11, <1>12 DEF Ends
<1> QED
  BY <1>6, <1>7, <1>13 DEF k

\* What a human writes, in the end.
LEMMA HumanEnds ==
  ASSUME NEW m \in Copies, NEW to \in ProjectStates, CanTransition(m.state, to)
  PROVE  Ends(Enter(m.state, to), m, At(m, to))
<1> DEFINE first == [file |-> "state", from |-> m.state, to |-> to]
           second == [file |-> "history", from |-> m.state, to |-> to]
           s == <<first, second>>
           c == [i \in 0 .. 2 |-> IF i = 0 THEN m ELSE At(m, to)]
<1>1. At(m, to) \in Copies /\ m.state \in ProjectStates
  BY AtType
<1>2. /\ first \in Writes /\ first.file = "state" /\ first.to = to
      /\ second \in Writes /\ second.file = "history"
  BY <1>1 DEF Writes, StateWrites
<1> HIDE DEF first, second
<1>3. s \in Seq(Writes) /\ Len(s) = 2 /\ s[1] = first /\ s[2] = second
  BY <1>2
<1>4. Enter(m.state, to) = s
  BY DEF Enter, first, second
<1> HIDE DEF s
<1>5. c \in [0 .. 2 -> Copies] /\ c[0] = m /\ c[1] = At(m, to) /\ c[2] = At(m, to)
  BY <1>1
<1> HIDE DEF c
<1>6. Makes(m, first, At(m, to)) /\ Makes(At(m, to), second, At(m, to))
      /\ Shown(At(m, to), second)
  BY <1>2 DEF Makes, Shown, At
<1>7. \A i \in 1 .. Len(s) : \/ i = 1 /\ i - 1 = 0 /\ i = Len(s) - 1
                             \/ i = 2 /\ i - 1 = 1
  BY <1>3
<1>8. Way(c, s, m, At(m, to))
  BY <1>3, <1>5, <1>6, <1>7 DEF Way
<1>9. Ends(s, m, At(m, to))
  BY <1>3, <1>5, <1>6, <1>7, <1>8 DEF Ends
<1> QED
  BY <1>4, <1>9

\* No two commands run at once.
OneAtATime == \A p, q \in Processes : p = q

\* Before a command acts, its copy is what the files hold.
LEMMA CopyIsFile ==
  ASSUME Alone, NEW p \in Processes,
         proc[p].step \in {"loaded", "looping"}, proc[p].plan = <<>>
  PROVE  proc[p].memory = OnFile
BY EndsHere DEF Alone

\* A process takes on an effect whose writes lead from the files to its copy.
LEMMA PerformAlone ==
  ASSUME CliIInv, OneAtATime, NEW p \in Processes,
         NEW step \in {"once", "looping"}, NEW effect \in Effects,
         Ends(effect.plan, OnFile, effect.memory), Perform(p, step, effect)
  PROVE  Alone'
<1>1. /\ proc'[p].step = step /\ proc'[p].plan = effect.plan
      /\ proc'[p].memory = effect.memory
  BY DEF Perform, CliIInv
<1>2. OnFile' = OnFile
  BY DEF Perform, OnFile
<1>3. \A q \in Processes : q = p
  BY DEF OneAtATime
<1> QED
  BY <1>1, <1>2, <1>3 DEF Alone

\* A load takes the files as they are.
LEMMA LoadAlone ==
  ASSUME CliIInv, OneAtATime, NEW p \in Processes, Load(p)
  PROVE  Alone'
<1> DEFINE ts == [t \in Tasks |->
                    RefreshedTasks(WorkflowOf[t], disk.workflows, disk.tasks)[t]]
           ws == [w \in Workflows |-> DeriveWorkflowStatus(w, disk.workflows[w], ts)]
<1>1. Consistent(disk.tasks, disk.workflows) /\ disk.state \in ProjectStates
  BY DEF CliIInv, Disks
<1>2. ts = disk.tasks
  <2>1. \A t \in Tasks :
          RefreshedTasks(WorkflowOf[t], disk.workflows, disk.tasks) = disk.tasks
    BY <1>1, RefreshStable, WorkflowOfAssumption
  <2> QED
    BY <1>1, <2>1 DEF Consistent
<1> HIDE DEF ts
<1>3. ws = disk.workflows
  BY <1>1, <1>2 DEF Consistent, DerivedIn
<1> HIDE DEF ws
<1>4. /\ proc' = [proc EXCEPT ![p] =
            [step |-> "loaded", plan |-> <<>>, open |-> FALSE,
             memory |-> [tasks |-> ts, workflows |-> ws, state |-> disk.state]]]
      /\ disk' = disk
  BY DEF Load, ts, ws
<1>5. /\ proc'[p].step = "loaded" /\ proc'[p].plan = <<>>
      /\ proc'[p].memory = OnFile
  BY <1>2, <1>3, <1>4 DEF CliIInv, OnFile, Memory
<1>6. OnFile \in Copies /\ OnFile' = OnFile
  BY <1>1, <1>4, CopyType DEF OnFile, Memory
<1>7. Ends(<<>>, OnFile, OnFile)
  BY <1>6, LeadsNowhere, LeadsEnds
<1>8. \A q \in Processes : q = p
  BY DEF OneAtATime
<1> QED
  BY <1>5, <1>6, <1>7, <1>8 DEF Alone

\* A write that is complete takes the files one step along their way.
LEMMA FinishMakes ==
  ASSUME CliIInv, Alone, NEW p \in Processes, FinishWrite(p)
  PROVE  LET write == Head(proc[p].plan)
         IN /\ Makes(OnFile, write, OnFile')
            /\ Shown(OnFile, write) \/ Len(proc[p].plan) = 2
            /\ Ends(Tail(proc[p].plan), OnFile', proc[p].memory)
            /\ write \in Writes /\ disk' = Written(disk, write)
<1> DEFINE s == proc[p].plan
           write == Head(s)
<1>1. s # <<>> /\ disk' = Written(disk, write)
  BY DEF FinishWrite
<1>2. proc[p] \in Procs /\ proc[p].memory \in Copies /\ s \in Seq(Writes)
  BY MemoryType
<1>3. Ends(s, OnFile, proc[p].memory)
  BY <1>1 DEF Alone
<1>4. PICK n \in Copies :
        /\ OnFile \in Copies /\ Makes(OnFile, write, n)
        /\ Shown(OnFile, write) \/ Len(s) = 2
        /\ Ends(Tail(s), n, proc[p].memory)
  BY <1>1, <1>3, EndsFirst
<1>5. write \in Writes
  BY <1>1, <1>2, HeadTailProperties
<1> HIDE DEF write, s
<1>6. OnFile' = n
  <2>1. OnFile.tasks = disk.tasks /\ OnFile.workflows = disk.workflows
        /\ OnFile.state = disk.state /\ disk \in Disks
    BY DEF OnFile, Memory, CliIInv
  <2>2. CASE write.file = "history" /\ n = OnFile
    <3>1. disk' = [disk EXCEPT !.last = write.to,
                               !.chained = @ /\ write.from = disk.last]
      BY <1>1, <2>2 DEF Written
    <3>2. disk'.tasks = disk.tasks /\ disk'.workflows = disk.workflows
          /\ disk'.state = disk.state
      BY <2>1, <3>1 DEF Disks
    <3> QED
      BY <2>2, <3>2 DEF OnFile
  <2>3. CASE write.file = "state" /\ n = Memory(OnFile.tasks, OnFile.workflows, write.to)
    <3>1. disk' = [disk EXCEPT !.state = write.to, !.torn = @ \ {"state"}]
      BY <1>1, <2>3 DEF Written
    <3>2. disk'.tasks = disk.tasks /\ disk'.workflows = disk.workflows
          /\ disk'.state = write.to
      BY <2>1, <3>1 DEF Disks
    <3> QED
      BY <2>1, <2>3, <3>2 DEF OnFile
  <2>4. CASE /\ write.file = "progress"
             /\ n = Memory(write.tasks, write.workflows, OnFile.state)
    <3>1. disk' = [disk EXCEPT !.tasks = write.tasks, !.workflows = write.workflows,
                               !.torn = @ \ {"progress"}]
      BY <1>1, <2>4 DEF Written
    <3>2. disk'.tasks = write.tasks /\ disk'.workflows = write.workflows
          /\ disk'.state = disk.state
      BY <2>1, <3>1 DEF Disks
    <3> QED
      BY <2>1, <2>4, <3>2 DEF OnFile
  <2> QED
    BY <1>4, <2>2, <2>3, <2>4 DEF Makes
<1> QED
  BY <1>1, <1>4, <1>5, <1>6 DEF s, write

\* The rest of the writes leads on.
LEMMA FinishAlone ==
  ASSUME CliIInv, OneAtATime, Alone, NEW p \in Processes, FinishWrite(p)
  PROVE  Alone'
<1>1. /\ proc'[p].step = proc[p].step /\ proc'[p].memory = proc[p].memory
      /\ proc'[p].plan = Tail(proc[p].plan) /\ proc[p].plan # <<>>
  BY DEF FinishWrite, CliIInv, Procs
<1>2. Ends(Tail(proc[p].plan), OnFile', proc[p].memory)
  BY FinishMakes
<1>3. proc[p].step \notin {"off", "loaded"}
  BY <1>1 DEF Alone
<1>4. \A q \in Processes : q = p
  BY DEF OneAtATime
<1> QED
  BY <1>1, <1>2, <1>3, <1>4 DEF Alone

\* Nobody has begun.
LEMMA InitAlone == CliInit => Alone
BY DEF CliInit, Alone, Off

\* Whatever the one command does, its writes lead from the files to its copy.
LEMMA NextAlone ==
  ASSUME OneAtATime, CliIInv, Alone, [CliNext]_cliVars
  PROVE  Alone'
<1>1. ASSUME NEW p \in Processes, Load(p) \/ FinishWrite(p)
      PROVE  Alone'
  BY <1>1, LoadAlone, FinishAlone
<1>2. ASSUME NEW p \in Processes, OpenFile(p)
      PROVE  Alone'
  <2>1. /\ disk' = [disk EXCEPT !.torn = @ \cup {Target(p)}]
        /\ proc' = [proc EXCEPT ![p].open = TRUE]
    BY <1>2 DEF OpenFile
  <2>2. \A q \in Processes :
          /\ proc'[q].step = proc[q].step /\ proc'[q].plan = proc[q].plan
          /\ proc'[q].memory = proc[q].memory
    BY <2>1 DEF CliIInv, Procs
  <2>3. OnFile' = OnFile
    BY <2>1 DEF OnFile, CliIInv, Disks
  <2> QED
    BY <2>2, <2>3 DEF Alone
<1>3. ASSUME NEW p \in Processes, Exit(p) \/ Kill(p)
      PROVE  Alone'
  <2>1. disk' = disk /\ proc' = [proc EXCEPT ![p] = Off]
    BY <1>3 DEF Exit, Kill
  <2>2. proc'[p].step = "off" /\ proc'[p].plan = <<>>
    BY <2>1 DEF CliIInv, Off
  <2>3. \A q \in Processes : q = p
    BY DEF OneAtATime
  <2> QED
    BY <2>2, <2>3 DEF Alone
<1>4. ASSUME NEW p \in Processes, NEW w \in Workflows, ActivateCommand(p, w)
      PROVE  Alone'
  <2> DEFINE m == proc[p].memory
             effect == ActivateEffect(w, m)
  <2>1. proc[p].step = "loaded" /\ m.workflows[w] \in Inactive
        /\ Perform(p, "once", effect)
    BY <1>4 DEF ActivateCommand
  <2>2. m \in Copies /\ m = OnFile
    BY <2>1, MemoryType, CopyIsFile DEF Alone
  <2>3. effect \in Effects /\ Ends(effect.plan, OnFile, effect.memory)
    BY <2>1, <2>2, ActivateEffectType, ActivateLeads, LeadsEnds
  <2> HIDE DEF effect
  <2> QED
    BY <2>1, <2>3, PerformAlone
<1>5. ASSUME NEW p \in Processes, NEW t \in Tasks, NEW success \in BOOLEAN,
             OutcomeCommand(p, t, success)
      PROVE  Alone'
  <2> DEFINE m == proc[p].memory
             effect == OutcomeEffect(t, success, m)
  <2>1. proc[p].step = "loaded" /\ m.tasks[t] = "ready"
        /\ Perform(p, "once", effect)
    BY <1>5 DEF OutcomeCommand
  <2>2. m \in Copies /\ m = OnFile
    BY <2>1, MemoryType, CopyIsFile DEF Alone
  <2>3. effect \in Effects /\ Ends(effect.plan, OnFile, effect.memory)
    BY <2>1, <2>2, OutcomeEffectType, OutcomeLeads, LeadsEnds
  <2> HIDE DEF effect
  <2> QED
    BY <2>1, <2>3, PerformAlone
<1>6. ASSUME NEW p \in Processes, NEW t \in Tasks, NEW success \in BOOLEAN,
             DispatchCommand(p, t, success)
      PROVE  Alone'
  <2> DEFINE m == proc[p].memory
             effect == DispatchEffect(t, success, m)
             step == IF success THEN "looping" ELSE "once"
  <2>1. proc[p].step \in {"loaded", "looping"} /\ proc[p].plan = <<>>
        /\ m.tasks[t] = "ready" /\ Perform(p, step, effect)
    BY <1>6 DEF DispatchCommand
  <2>2. m \in Copies /\ m = OnFile
    BY <2>1, MemoryType, CopyIsFile
  <2>3. effect \in Effects /\ Ends(effect.plan, OnFile, effect.memory)
    BY <2>1, <2>2, DispatchEffectType, DispatchLeads, LeadsEnds
  <2>4. step \in {"once", "looping"}
    OBVIOUS
  <2> HIDE DEF effect, step
  <2> QED
    BY <2>1, <2>3, <2>4, PerformAlone
<1>7. ASSUME NEW p \in Processes, NEW target \in ProjectStates,
             TransitionCommand(p, target)
      PROVE  Alone'
  <2> DEFINE m == proc[p].memory
             effect == [memory |-> [m EXCEPT !.state = target],
                        plan |-> Enter(m.state, target)]
  <2>1. proc[p].step = "loaded" /\ CanTransition(m.state, target)
        /\ Perform(p, "once", effect)
    BY <1>7 DEF TransitionCommand
  <2>2. m \in Copies /\ m = OnFile /\ m.state \in ProjectStates
    BY <2>1, MemoryType, CopyIsFile, CopyParts DEF Alone
  <2>3. [m EXCEPT !.state = target] = At(m, target)
    BY <2>2 DEF Copies, Memories, At, Memory
  <2>4. At(m, target) \in Copies /\ Enter(m.state, target) \in Seq(Writes)
    BY <2>2, AtType, EnterType
  <2>5. effect \in Effects
    BY <2>3, <2>4 DEF Effects
  <2>6. Ends(effect.plan, OnFile, effect.memory)
    BY <2>1, <2>2, <2>3, HumanEnds
  <2> HIDE DEF effect
  <2> QED
    BY <2>1, <2>5, <2>6, PerformAlone
<1>8. CASE UNCHANGED cliVars
  BY <1>8 DEF cliVars, Alone, OnFile
<1> QED
  BY <1>1, <1>2, <1>3, <1>4, <1>5, <1>6, <1>7, <1>8 DEF CliNext

-----------------------------------------------------------------------------
(* One command at a time: the theorems.                                    *)

\* What the files hold changes by a complete write alone.
LEMMA FilesMove ==
  ASSUME CliIInv, Alone, [CliNext]_cliVars
  PROVE  \/ OnFile' = OnFile
         \/ \E p \in Processes, write \in Writes :
              /\ Makes(OnFile, write, OnFile')
              /\ Shown(OnFile, write) \/ Len(proc[p].plan) = 2
<1>1. ASSUME NEW p \in Processes, OpenFile(p)
      PROVE  OnFile' = OnFile
  BY <1>1 DEF OpenFile, OnFile, CliIInv, Disks
<1>2. ASSUME NEW p \in Processes, FinishWrite(p)
      PROVE  \E write \in Writes :
               /\ Makes(OnFile, write, OnFile')
               /\ Shown(OnFile, write) \/ Len(proc[p].plan) = 2
  BY <1>2, FinishMakes
<1>3. CASE UNCHANGED disk
  BY <1>3 DEF OnFile
<1> QED
  BY <1>1, <1>2, <1>3
  DEF CliNext, cliVars, Load, Exit, Kill, ActivateCommand, OutcomeCommand,
      DispatchCommand, TransitionCommand, Perform

\* What the files hold, part by part.
LEMMA OnFileParts ==
  /\ OnFile.tasks = disk.tasks /\ OnFile.workflows = disk.workflows
  /\ OnFile.state = disk.state /\ OnFile'.tasks = disk'.tasks
  /\ OnFile'.workflows = disk'.workflows /\ OnFile'.state = disk'.state
BY DEF OnFile, Memory

\* A step of the way is one of the table, and one that comes after the halt.
LEMMA StateMoves ==
  ASSUME CliIInv, Alone, [CliNext]_cliVars, disk'.state # disk.state
  PROVE  /\ CanTransition(disk.state, disk'.state)
         /\ disk'.tasks = disk.tasks
         /\ disk'.state = "completed" =>
              \/ \E w \in Workflows : disk.workflows[w] = "completed"
              \/ \E p \in Processes : Len(proc[p].plan) = 2
<1>1. PICK p \in Processes, write \in Writes :
        /\ Makes(OnFile, write, OnFile')
        /\ Shown(OnFile, write) \/ Len(proc[p].plan) = 2
  BY FilesMove, OnFileParts
<1>2. /\ write.file = "state" /\ CanTransition(OnFile.state, write.to)
      /\ OnFile' = Memory(OnFile.tasks, OnFile.workflows, write.to)
  BY <1>1, OnFileParts DEF Makes, Memory
<1>3. OnFile'.state = write.to /\ OnFile'.tasks = OnFile.tasks
  BY <1>2 DEF Memory
<1> QED
  BY <1>1, <1>2, <1>3, OnFileParts DEF Shown, Finished

\* So is a step of the tasks.
LEMMA TaskMoves ==
  ASSUME CliIInv, Alone, [CliNext]_cliVars, disk'.tasks # disk.tasks
  PROVE  /\ Onward(disk.tasks, disk'.tasks)
         /\ Halted(disk.tasks, disk'.tasks, disk.state)
<1>1. PICK write \in Writes : Makes(OnFile, write, OnFile')
  BY FilesMove, OnFileParts
<1>2. /\ OnFile' = Memory(write.tasks, write.workflows, OnFile.state)
      /\ Onward(OnFile.tasks, write.tasks)
      /\ Halted(OnFile.tasks, write.tasks, OnFile.state)
  BY <1>1, OnFileParts DEF Makes, Memory
<1>3. OnFile'.tasks = write.tasks
  BY <1>2 DEF Memory
<1> QED
  BY <1>2, <1>3, OnFileParts

\* The invariant of one command at a time.
THEOREM AloneInductive ==
  ASSUME OneAtATime
  PROVE  CliSpec => [](CliIInv /\ Alone)
<1>1. CliInit => CliIInv /\ Alone
  BY InitCliIInv, InitAlone
<1>2. CliIInv /\ Alone /\ [CliNext]_cliVars => (CliIInv /\ Alone)'
  BY CliNextKeeps, NextAlone
<1> QED
  BY <1>1, <1>2, PTL DEF CliSpec

\* From wherever a killed command left the state, the next one goes on by the
\* table (save_current_state, apply_state_transition).
THEOREM StatesByTheTable ==
  ASSUME OneAtATime
  PROVE  CliSpec => ValidTransitionsOnly
<1>1. CliIInv /\ Alone /\ [CliNext]_cliVars
        => [disk'.state # disk.state => CanTransition(disk.state, disk'.state)]_cliVars
  BY StateMoves
<1> QED
  BY <1>1, AloneInductive, PTL DEF CliSpec, ValidTransitionsOnly

(***************************************************************************)
(* The order of the writes keeps every kill from losing a halt: the file   *)
(* shows a failure, or work that waits for an approval, only once the      *)
(* project has stopped (_apply_task_outcome).                              *)
(***************************************************************************)
THEOREM HaltsComeFirst ==
  ASSUME OneAtATime
  PROVE  CliSpec => HaltsBeforeProgress
<1> DEFINE Step ==
      /\ \A t \in Tasks : disk'.tasks[t] # disk.tasks[t] =>
           /\ disk'.tasks[t] = "failed" =>
                disk.state \notin {"ready", "executing", "awaiting_approval",
                                  "blocked", "recovering"}
           /\ disk'.tasks[t] = "recorded" /\ t \in RequiresApproval =>
                disk.state \notin {"ready", "executing"}
      /\ disk.state # "completed" /\ disk'.state = "completed" =>
           \/ \E w \in Workflows : disk.workflows[w] = "completed"
           \/ \E p \in Processes : Len(proc[p].plan) = 2
<1>1. ASSUME CliIInv, Alone, [CliNext]_cliVars
      PROVE  Step
  <2>1. disk'.tasks # disk.tasks => Halted(disk.tasks, disk'.tasks, disk.state)
    BY <1>1, TaskMoves
  <2>2. disk'.state # disk.state /\ disk'.state = "completed" =>
          \/ \E w \in Workflows : disk.workflows[w] = "completed"
          \/ \E p \in Processes : Len(proc[p].plan) = 2
    BY <1>1, StateMoves
  <2> QED
    BY <2>1, <2>2 DEF Halted
<1>2. CliIInv /\ Alone /\ [CliNext]_cliVars => [Step]_cliVars
  BY <1>1
<1> QED
  BY <1>2, AloneInductive, PTL DEF CliSpec, HaltsBeforeProgress

\* A step of the tasks in the file is one of TaskLifecycle.
LEMMA FileStep ==
  ASSUME CliIInv', Onward(disk.tasks, disk'.tasks), disk'.tasks # disk.tasks
  PROVE  OnDisk!Lifecycle!Next
<1>1. disk'.tasks \in [Tasks -> Reached] /\ SettledIn(disk'.tasks)
  BY DEF CliIInv, Consistent
<1>2. disk'.tasks \in [Tasks -> OnDisk!Lifecycle!Statuses]
  BY <1>1 DEF OnDisk!Lifecycle!Statuses, Reached
<1>3. PICK worked \in Tasks : \A t \in Tasks :
       \/ disk'.tasks[t] = disk.tasks[t]
       \/ disk.tasks[t] = "defined" /\ disk'.tasks[t] \in {"pending", "ready"}
       \/ disk.tasks[t] = "pending" /\ disk'.tasks[t] = "ready"
       \/ /\ t = worked
          /\ \/ disk.tasks[t] = "ready"
                /\ disk'.tasks[t] \in {"dispatched", "recorded", "failed"}
             \/ disk.tasks[t] = "dispatched" /\ disk'.tasks[t] = "running"
             \/ disk.tasks[t] = "running" /\ disk'.tasks[t] \in {"recorded", "failed"}
  BY DEF Onward
<1>4. ASSUME NEW t \in Tasks
      PROVE  disk'.tasks[t] = disk.tasks[t] \/ OnDisk!Lifecycle!Move(t)
  <2>1. disk'.tasks[t] = "ready" =>
          \A d \in DependsOn[t] : d \in Tasks /\ disk'.tasks[d] = "recorded"
    <3>1. SUFFICES ASSUME disk'.tasks[t] = "ready", NEW d \in DependsOn[t]
                   PROVE  d \in Tasks /\ disk'.tasks[d] = "recorded"
      OBVIOUS
    <3>2. DependenciesSatisfied(t, disk'.tasks)
      BY <1>1, <3>1 DEF SettledIn
    <3> QED
      BY <1>1, <3>2 DEF DependenciesSatisfied, Reached, Done
  <2>2. \/ disk'.tasks[t] = disk.tasks[t]
        \/ disk'.tasks[t] \in OnDisk!Lifecycle!Successors[disk.tasks[t]]
    BY <1>3 DEF OnDisk!Lifecycle!Successors
  <2> QED
    BY <2>1, <2>2 DEF OnDisk!Lifecycle!Move
<1>5. \A t, u \in Tasks :
        OnDisk!Lifecycle!Worked(t) /\ OnDisk!Lifecycle!Worked(u) => t = u
  BY <1>3 DEF OnDisk!Lifecycle!Worked
<1> QED
  BY <1>2, <1>4, <1>5 DEF OnDisk!Lifecycle!Next

(***************************************************************************)
(* Seen through the progress file, write by write and kill by kill, the    *)
(* tasks keep the life cycle that WorkflowEngine promises.                 *)
(***************************************************************************)
THEOREM FilesImplementLifecycle ==
  ASSUME OneAtATime
  PROVE  CliSpec => FilesKeepLifecycle
<1>1. CliInit => OnDisk!Lifecycle!Init
  BY DEF CliInit, NewProject, OnDisk!Lifecycle!Init
<1>2. CliIInv /\ Alone /\ CliIInv' /\ [CliNext]_cliVars
        => [OnDisk!Lifecycle!Next]_(disk.tasks)
  BY TaskMoves, FileStep
<1> QED
  BY <1>1, <1>2, AloneInductive, PTL
  DEF CliSpec, FilesKeepLifecycle, OnDisk!ImplementsLifecycle, OnDisk!Lifecycle!Spec

=============================================================================
