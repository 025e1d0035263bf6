------------------------ MODULE ExecutorSessionProofs ------------------------
(***************************************************************************)
(* Proofs about ExecutorSession: for every project, every manifest, every  *)
(* document handed in, every report, and every way a command can fail.     *)
(*                                                                         *)
(* Everything rests on one inductive invariant, SInv, about the steps that *)
(* are still to be taken.  Layered: the steps of a Bridge operation are in *)
(* front and end with its answer, those of the orchestration follow, so an *)
(* operation that gives up or dies leaves the orchestration intact.        *)
(* Promised: a close-out still to come is of a phase that is recorded, or  *)
(* whose completion is still on its way, or has failed - in which case the *)
(* session knows; Checked: the record of it follows its command at once.   *)
(* Closes: a close-out is of the goal in the file, and logs it before the  *)
(* task is set idle.  Synced and Projected: the status is written right    *)
(* before the answer.  Executes: only the step in front runs a task.       *)
(***************************************************************************)
EXTENDS ExecutorSession, WorkflowProgressProofs, SequenceTheorems,
        WellFoundedInduction

-----------------------------------------------------------------------------
(* The inductive invariant.                                                *)

CliNames == {"init", "activate", "transition", "complete", "fail"}

BridgeNames ==
  {"bootstrap", "ingest_master_prompt", "sync_status", "pre_implement_check",
   "post_implement", "post_phase_complete", "pre_documenter"}

Codes == BlockingCodes \cup
  {"bridge_invoke_failed", "handoff_stale", "orchestration_offline"}

\* Kinds of steps that belong to an operation of the Bridge.
OperationOps ==
  {"cli", "run", "running", "sync", "boot_init", "boot_inited", "boot_show",
   "boot_doctor", "ingest_boot", "ingest_booted", "ingest_state", "require",
   "gate", "iterate", "phase", "recorded", "artifacts", "answer"}

\* What a step carries.
StepOK(s) ==
  /\ s.op \in {"cli", "run", "running"} =>
       /\ s = [op |-> s.op, name |-> s.name, arg |-> s.arg,
               wanted |-> s.wanted, retries |-> s.retries]
       /\ s.wanted \in BOOLEAN
  /\ s.op = "cli" => s.name \in CliNames
  /\ s.op = "running" => s.arg \in Tasks
  /\ s.op \in {"boot_doctor", "ingest_boot", "gate"} => s.codes \subseteq BlockingCodes
  /\ s.op = "bridge" => s.name \in BridgeNames
  /\ s.op = "answer" => s.verdict \in {"judge", "ok", "given"}
  /\ s.op = "write_context" => s.with \in Prompts
  /\ s.op = "set_status" => s.with = "idle"

\* The steps to take, as a value: the lemmas compare two of them.
IsStack(st) ==
  /\ st \in Seq(ToSet(st))
  /\ \A i \in 1 .. Len(st) : StepOK(st[i])

\* A vedaws project as its commands leave it.
ProjectOK(rt) ==
  /\ rt = [project |-> rt.project, ts |-> rt.ts, ws |-> rt.ws, ps |-> rt.ps]
  /\ rt.project \in {"none", "partial", "full"}
  /\ Consistent(rt.ts, rt.ws)
  /\ rt.ps \in ProjectStates
  /\ rt.project # "full" => \A t \in Tasks : rt.ts[t] = "defined"

RecordedIn(rt) == {t \in Tasks : rt.ts[t] = "recorded"}

\* Only the step in front executes a task, which is then running.
Executes(st, rt) ==
  \A i \in 1 .. Len(st) : st[i].op = "running" =>
    i = 1 /\ rt.ts[st[i].arg] = "running"

FilesOK ==
  /\ context = NoFile \/ context.mode \in KnownModes
  /\ task = [status |-> task.status, goal |-> task.goal,
             progress |-> task.progress]
  /\ task.status \in {"template", "in_progress", "idle"}
  /\ handoff = NoFile
       \/ handoff = [built |-> handoff.built, dated |-> TRUE]

AnswersOK ==
  /\ last \in BOOLEAN
  /\ result = [op |-> result.op, ok |-> result.ok, codes |-> result.codes]
  /\ result.ok \in BOOLEAN
  /\ result.codes \subseteq Codes
  /\ session \in [blocked : BOOLEAN, phaseOk : BOOLEAN]

\* Operation in front, its answer last of it; nothing behind an end.
Layered(st) ==
  /\ \A i, j \in 1 .. Len(st) :
       i < j /\ st[j].op \in OperationOps =>
         st[i].op \in OperationOps \ {"answer"}
  /\ \A i \in 1 .. Len(st) : st[i].op \in OperationOps =>
       \E j \in 1 .. Len(st) : st[j].op = "answer"
  /\ \A i \in 1 .. Len(st) : st[i].op = "end" => i = Len(st)

ClosingOps == {"close_out", "write_log", "set_status"}

\* A close-out is about the goal in the file, and logs it before it is idle.
Closes(st, goal, logged) ==
  /\ \A i, j \in 1 .. Len(st) :
       st[i].op \in ClosingOps => st[j].op # "write_task"
  /\ \A i \in 1 .. Len(st) :
       st[i].op \in {"close_out", "write_log"} => st[i].goal = goal
  /\ \A i \in 1 .. Len(st) : st[i].op = "set_status" =>
       logged \/ \E j \in 1 .. i - 1 : st[j].op = "write_log"

\* What the status of the task says about the log.
LoggedIdle ==
  /\ task.status = "template" => task.goal = NoGoal
  /\ task.status = "idle" =>
       task.goal = NoGoal \/ \E l \in logs : l.goal = task.goal

AbsorbsPhase(step) == step.op = "absorb" /\ step.how = "phase"

\* The step will have task t recorded, or has made sure that it is.
Records(step, t) ==
  \/ step.op = "phase" /\ step.task = t /\ step.outcome = "completed"
  \/ step.op = "recorded" /\ step.task = t

(***************************************************************************)
(* The completion of task t, absorbed at position k, has failed already    *)
(* (`ok' is FALSE), has not begun, or stands before its record.            *)
(***************************************************************************)
Underway(st, ok, k, t) ==
  \/ k = 1 /\ ~ok
  \/ /\ k = 2
     /\ st[1].op = "bridge" /\ st[1].name = "post_phase_complete"
     /\ st[1].arg.task = t /\ st[1].arg.outcome = "completed"
  \/ /\ k > 1 /\ st[k - 1].op = "answer"
     /\ \E j \in 1 .. k - 1 : Records(st[j], t)

(***************************************************************************)
(* `done' are the tasks recorded, `phaseOk' what the session has heard of  *)
(* the completion, `ok' what the last result says.                         *)
(***************************************************************************)
Promised(st, done, phaseOk, ok) ==
  /\ \A i, j \in 1 .. Len(st) :
       AbsorbsPhase(st[i]) /\ AbsorbsPhase(st[j]) => i = j
  /\ \A i \in 1 .. Len(st) : st[i].op = "write_log" => st[i].task \in done
  /\ \A i \in 1 .. Len(st) : st[i].op = "close_out" =>
       \/ st[i].task \in done
       \/ ~phaseOk /\ \A k \in 1 .. Len(st) : ~AbsorbsPhase(st[k])
       \/ \E k \in 1 .. i - 1 :
            AbsorbsPhase(st[k]) /\ Underway(st, ok, k, st[i].task)

\* The record of a completion follows its command at once.
Checked(st, done, succeeded) ==
  \A i \in 1 .. Len(st) : st[i].op = "recorded" =>
    \/ i = 1 /\ (succeeded => st[i].task \in done)
    \/ /\ i = 2
       /\ st[1].op = "cli" /\ st[1].name = "complete"
       /\ st[1].arg = st[i].task /\ st[1].wanted = TRUE

\* An operation that projects does so right before it answers.
Synced(st, projects) ==
  /\ projects => \A i \in 2 .. Len(st) : st[i].op = "answer" =>
       st[i - 1].op = "sync" /\ st[i - 1].report = TRUE
  /\ \A i \in 1 .. Len(st) :
       st[i].op \in {"ingest_boot", "ingest_booted"} => projects

Recorded == RecordedIn(runtime)
IsLogged == \E l \in logs : l.goal = task.goal
Projects == result.op \in Projecting

\* The projection is still true when the operation answers.
Projected ==
  At("answer") /\ Projects /\ result.codes = {} =>
    status = Projection(status, ActiveTask, runtime.ps, FALSE)

\* The part of the invariant that is about the steps to take.
StepsOK(st) ==
  /\ IsStack(st) /\ Layered(st)
  /\ Closes(st, task.goal, IsLogged)
  /\ Promised(st, Recorded, session.phaseOk, result.ok)
  /\ Checked(st, Recorded, last)
  /\ Synced(st, Projects)
  /\ Executes(st, runtime)

SInv ==
  /\ ProjectOK(runtime) /\ FilesOK /\ LoggedIdle
  /\ AnswersOK /\ StepsOK(todo) /\ Projected

-----------------------------------------------------------------------------
(* Stacks of steps.                                                        *)

\* A tuple is a sequence of its components.
LEMMA Tuples ==
  /\ <<>> \in Seq(ToSet(<<>>)) /\ Len(<<>>) = 0
  /\ \A a : <<a>> \in Seq(ToSet(<<a>>)) /\ Len(<<a>>) = 1
  /\ \A a, b : <<a, b>> \in Seq(ToSet(<<a, b>>)) /\ Len(<<a, b>>) = 2
  /\ \A a, b, c :
       <<a, b, c>> \in Seq(ToSet(<<a, b, c>>)) /\ Len(<<a, b, c>>) = 3
  /\ \A a, b, c, d :
       /\ <<a, b, c, d>> \in Seq(ToSet(<<a, b, c, d>>))
       /\ Len(<<a, b, c, d>>) = 4
BY DEF ToSet

(***************************************************************************)
(* `new' is `st' with its first m steps replaced by k others.              *)
(***************************************************************************)
Shifted(st, new, m, k) ==
  /\ m \in 0 .. Len(st) /\ k \in 0 .. Len(new)
  /\ Len(st) \in Nat /\ Len(new) \in Nat
  /\ Len(new) - k = Len(st) - m
  /\ \A i \in k + 1 .. Len(new) :
       i - k + m \in m + 1 .. Len(st) /\ new[i] = st[i - k + m]
  /\ \A i \in m + 1 .. Len(st) :
       i - m + k \in k + 1 .. Len(new) /\ new[i - m + k] = st[i]

\* The same in the form in which it is used.
Carries(st, new, m, k) ==
  /\ m \in Nat /\ k \in Nat /\ Len(st) \in Nat /\ Len(new) \in Nat
  /\ m <= Len(st) /\ k <= Len(new) /\ Len(new) - k = Len(st) - m
  /\ \A i \in 1 .. Len(new) :
       \/ i \in 1 .. k
       \/ /\ i \in k + 1 .. Len(new)
          /\ i - k + m \in m + 1 .. Len(st) /\ i - k + m \in 1 .. Len(st)
          /\ new[i] = st[i - k + m]
  /\ \A i \in m + 1 .. Len(st) :
       /\ i \in 1 .. Len(st)
       /\ i - m + k \in k + 1 .. Len(new) /\ i - m + k \in 1 .. Len(new)
       /\ new[i - m + k] = st[i]

\* Every position of the new stack is in front or comes from the old one.
LEMMA Carried ==
  ASSUME NEW st, NEW new, NEW m, NEW k, Shifted(st, new, m, k)
  PROVE  Carries(st, new, m, k)
<1>1. m \in Nat /\ k \in Nat /\ Len(st) \in Nat /\ Len(new) \in Nat
  BY DEF Shifted
<1>2. ASSUME NEW i \in 1 .. Len(new), i \notin 1 .. k
      PROVE  /\ i \in k + 1 .. Len(new)
             /\ i - k + m \in m + 1 .. Len(st) /\ i - k + m \in 1 .. Len(st)
             /\ new[i] = st[i - k + m]
  <2>1. i \in k + 1 .. Len(new)
    BY <1>1, <1>2
  <2>2. i - k + m \in m + 1 .. Len(st) /\ new[i] = st[i - k + m]
    BY <2>1 DEF Shifted
  <2> QED
    BY <1>1, <2>1, <2>2
<1>3. ASSUME NEW i \in m + 1 .. Len(st)
      PROVE  /\ i \in 1 .. Len(st)
             /\ i - m + k \in k + 1 .. Len(new) /\ i - m + k \in 1 .. Len(new)
             /\ new[i - m + k] = st[i]
  <2>1. i - m + k \in k + 1 .. Len(new) /\ new[i - m + k] = st[i]
    BY DEF Shifted
  <2> QED
    BY <1>1, <2>1
<1> QED
  BY <1>1, <1>2, <1>3 DEF Carries, Shifted

\* A step that calls others replaces the head by them.
Called(steps, st) == steps \o Tail(st)

LEMMA CallCarries ==
  ASSUME NEW st, IsStack(st), st # <<>>,
         NEW steps, IsStack(steps),
         NEW new, new = Called(steps, st)
  PROVE  /\ Carries(st, new, 1, Len(steps)) /\ IsStack(new)
         /\ \A i \in 1 .. Len(steps) : i \in 1 .. Len(new) /\ new[i] = steps[i]
<1>1. st \in Seq(ToSet(st)) /\ steps \in Seq(ToSet(steps))
  BY DEF IsStack
<1>2. /\ new \in Seq(ToSet(new))
      /\ Len(st) \in Nat \ {0} /\ Len(steps) \in Nat
      /\ Len(new) = Len(steps) + Len(st) - 1
      /\ \A i \in 1 .. Len(new) :
           \/ i \in 1 .. Len(steps) /\ new[i] = steps[i]
           \/ /\ i - Len(steps) + 1 \in 2 .. Len(st)
              /\ new[i] = st[i - Len(steps) + 1]
      /\ \A i \in 1 .. Len(steps) : i \in 1 .. Len(new) /\ new[i] = steps[i]
      /\ \A i \in 2 .. Len(st) :
           i + Len(steps) - 1 \in 1 .. Len(new) /\ new[i + Len(steps) - 1] = st[i]
  <2> DEFINE S == ToSet(st) \cup ToSet(steps)
  <2>1. st \in Seq(S) /\ steps \in Seq(S)
    BY <1>1, SeqMonotonic
  <2>2. /\ Tail(st) \in Seq(S) /\ Len(Tail(st)) = Len(st) - 1
        /\ Len(st) \in Nat \ {0} /\ Len(steps) \in Nat
        /\ \A i \in 1 .. Len(st) - 1 : Tail(st)[i] = st[i + 1]
    BY <2>1, HeadTailProperties, EmptySeq, LenProperties
  <2>3. /\ new \in Seq(S)
        /\ Len(new) = Len(steps) + Len(st) - 1
        /\ \A i \in 1 .. Len(new) :
             new[i] = IF i <= Len(steps) THEN steps[i]
                      ELSE Tail(st)[i - Len(steps)]
    BY <2>1, <2>2, ConcatProperties DEF Called
  <2>4. new \in Seq(Range(new))
    BY <2>3, SeqOfRange
  <2>5. Range(new) = ToSet(new)
    BY DEF ToSet, Range
  <2> HIDE DEF S
  <2>6. ASSUME NEW i \in 1 .. Len(new), i \notin 1 .. Len(steps)
        PROVE  /\ i - Len(steps) + 1 \in 2 .. Len(st)
               /\ new[i] = st[i - Len(steps) + 1]
    BY <2>2, <2>3, <2>6
  <2>7. ASSUME NEW i \in 1 .. Len(steps)
        PROVE  i \in 1 .. Len(new) /\ new[i] = steps[i]
    BY <2>2, <2>3, <2>7
  <2>8. ASSUME NEW i \in 2 .. Len(st)
        PROVE  /\ i + Len(steps) - 1 \in 1 .. Len(new)
               /\ new[i + Len(steps) - 1] = st[i]
    <3>1. /\ i + Len(steps) - 1 \in 1 .. Len(new)
          /\ ~ (i + Len(steps) - 1 <= Len(steps))
          /\ (i + Len(steps) - 1) - Len(steps) = i - 1
      BY <2>2, <2>3
    <3>2. Tail(st)[i - 1] = st[i]
      <4>1. i - 1 \in 1 .. Len(st) - 1 /\ (i - 1) + 1 = i
        BY <2>2
      <4> QED
        BY <2>2, <4>1
    <3> QED
      BY <2>3, <3>1, <3>2
  <2>9. \A i \in 1 .. Len(new) :
          i \in 1 .. Len(steps) => new[i] = steps[i]
    BY <2>7
  <2> QED
    BY <2>2, <2>3, <2>4, <2>5, <2>6, <2>7, <2>8, <2>9
<1>3. Len(new) \in Nat
  BY <1>2
<1>4. ASSUME NEW i \in Len(steps) + 1 .. Len(new)
      PROVE  i - Len(steps) + 1 \in 2 .. Len(st) /\ new[i] = st[i - Len(steps) + 1]
  BY <1>2, <1>3
<1>5. ASSUME NEW i \in 2 .. Len(st)
      PROVE  /\ i - 1 + Len(steps) \in Len(steps) + 1 .. Len(new)
             /\ new[i - 1 + Len(steps)] = st[i]
  <2>1. i + Len(steps) - 1 = i - 1 + Len(steps)
    BY <1>2
  <2> QED
    BY <1>2, <1>3, <2>1
<1>6. ASSUME NEW i \in 1 .. Len(new) PROVE StepOK(new[i])
  <2>1. CASE i \in 1 .. Len(steps) /\ new[i] = steps[i]
    BY <2>1 DEF IsStack
  <2>2. CASE i - Len(steps) + 1 \in 2 .. Len(st)
               /\ new[i] = st[i - Len(steps) + 1]
    <3>1. i - Len(steps) + 1 \in 1 .. Len(st)
      BY <1>2, <2>2
    <3> QED
      BY <2>2, <3>1 DEF IsStack
  <2> QED
    BY <1>2, <2>1, <2>2
<1>7. Shifted(st, new, 1, Len(steps))
  <2>1. /\ 1 \in 0 .. Len(st) /\ Len(steps) \in 0 .. Len(new)
        /\ Len(new) - Len(steps) = Len(st) - 1
    BY <1>2, <1>3
  <2>2. 1 + 1 = 2
    OBVIOUS
  <2> QED
    BY <1>2, <1>3, <1>4, <1>5, <2>1, <2>2 DEF Shifted
<1> QED
  BY <1>2, <1>6, <1>7, Carried DEF IsStack

\* The first answer: what it means to look for it.
LEMMA FirstAnswer ==
  ASSUME NEW n \in 1 .. Len(todo), IsStack(todo), todo[n].op = "answer",
         \A i \in 1 .. Len(todo) : todo[i].op = "answer" => i = n
  PROVE  /\ AfterAnswer = SubSeq(todo, n + 1, Len(todo))
         /\ Carries(todo, AfterAnswer, n, 0) /\ IsStack(AfterAnswer)
<1> DEFINE I == {i \in 1 .. Len(todo) : todo[i].op = "answer"}
           rest == SubSeq(todo, n + 1, Len(todo))
<1>1. AfterAnswer = rest
  <2>1. I = {n}
    OBVIOUS
  <2>2. Min(I) = n
    BY <2>1 DEF Min
  <2> QED
    BY <2>1, <2>2 DEF AfterAnswer, SelectInSeq
<1>2. /\ Len(todo) \in Nat /\ rest \in Seq(ToSet(todo))
      /\ Len(rest) = Len(todo) - n
      /\ \A i \in 1 .. Len(todo) - n : rest[i] = todo[n + i]
  BY DEF IsStack
<1>3. rest \in Seq(ToSet(rest))
  <2>1. rest \in Seq(Range(rest))
    BY <1>2, SeqOfRange
  <2>2. Range(rest) = ToSet(rest)
    BY DEF ToSet, Range
  <2> QED
    BY <2>1, <2>2
<1> HIDE DEF rest
<1>4. Shifted(todo, rest, n, 0)
  <2>1. \A i \in 0 + 1 .. Len(rest) :
          i - 0 + n \in n + 1 .. Len(todo) /\ rest[i] = todo[i - 0 + n]
    BY <1>2
  <2>2. \A i \in n + 1 .. Len(todo) :
          i - n + 0 \in 0 + 1 .. Len(rest) /\ rest[i - n + 0] = todo[i]
    BY <1>2
  <2> QED
    BY <1>2, <2>1, <2>2 DEF Shifted
<1>5. IsStack(rest)
  BY <1>2, <1>3 DEF IsStack
<1> QED
  BY <1>1, <1>4, <1>5, Carried DEF rest

-----------------------------------------------------------------------------
(* How the parts of the invariant about the steps follow the stack.        *)

\* A step of an operation that calls others leaves the answer where it is.
LEMMA LayeredInside ==
  ASSUME NEW st, NEW new, NEW m, NEW k, Carries(st, new, m, k), Layered(st),
         \A i \in 1 .. k : new[i].op \in OperationOps \ {"answer", "end"},
         \E j \in m + 1 .. Len(st) : st[j].op = "answer"
  PROVE  Layered(new)
<1>1. ASSUME NEW i \in 1 .. Len(new), NEW j \in 1 .. Len(new), i < j,
             new[j].op \in OperationOps
      PROVE  new[i].op \in OperationOps \ {"answer"}
  <2>1. CASE i \in 1 .. k
    BY <2>1
  <2>2. CASE i \notin 1 .. k
    <3>1. /\ i - k + m \in 1 .. Len(st) /\ new[i] = st[i - k + m]
          /\ j - k + m \in 1 .. Len(st) /\ new[j] = st[j - k + m]
          /\ i - k + m < j - k + m
      BY <1>1, <2>2 DEF Carries
    <3> QED
      BY <1>1, <3>1 DEF Layered
  <2> QED
    BY <2>1, <2>2
<1>2. \E j \in 1 .. Len(new) : new[j].op = "answer"
  <2>1. PICK j \in m + 1 .. Len(st) : st[j].op = "answer"
    OBVIOUS
  <2>2. j - m + k \in 1 .. Len(new) /\ new[j - m + k].op = "answer"
    BY <2>1 DEF Carries
  <2> QED
    BY <2>2
<1>3. ASSUME NEW i \in 1 .. Len(new), new[i].op = "end"
      PROVE  i = Len(new)
  <2>1. i - k + m \in 1 .. Len(st) /\ new[i] = st[i - k + m]
    BY <1>3 DEF Carries
  <2>2. i - k + m = Len(st)
    BY <1>3, <2>1 DEF Layered
  <2> QED
    BY <2>2 DEF Carries
<1> QED
  BY <1>1, <1>2, <1>3 DEF Layered

\* Without steps of an operation behind, what is in front must be complete.
LEMMA LayeredBehind ==
  ASSUME NEW st, NEW new, NEW m, NEW k, Carries(st, new, m, k), Layered(st),
         \A i \in m + 1 .. Len(st) : st[i].op \notin OperationOps,
         \A i \in 1 .. k : new[i].op # "end",
         \/ \A i \in 1 .. k : new[i].op \notin OperationOps
         \/ /\ k > 0 /\ new[k].op = "answer"
            /\ \A i \in 1 .. k - 1 : new[i].op \in OperationOps \ {"answer"}
  PROVE  Layered(new)
<1>1. ASSUME NEW i \in 1 .. Len(new), new[i].op \in OperationOps
      PROVE  i \in 1 .. k
  BY <1>1 DEF Carries
<1>2. ASSUME NEW i \in 1 .. Len(new), NEW j \in 1 .. Len(new), i < j,
             new[j].op \in OperationOps
      PROVE  new[i].op \in OperationOps \ {"answer"}
  <2>1. i \in 1 .. k - 1 /\ j \in 1 .. k
    BY <1>1, <1>2 DEF Carries
  <2> QED
    BY <1>2, <2>1
<1>3. ASSUME NEW i \in 1 .. Len(new), new[i].op \in OperationOps
      PROVE  \E j \in 1 .. Len(new) : new[j].op = "answer"
  <2>1. k \in 1 .. Len(new)
    BY <1>1, <1>3 DEF Carries
  <2> QED
    BY <1>1, <1>3, <2>1
<1>4. ASSUME NEW i \in 1 .. Len(new), new[i].op = "end"
      PROVE  i = Len(new)
  <2>1. i - k + m \in 1 .. Len(st) /\ new[i] = st[i - k + m]
    BY <1>4 DEF Carries
  <2>2. i - k + m = Len(st)
    BY <1>4, <2>1 DEF Layered
  <2> QED
    BY <2>2 DEF Carries
<1> QED
  BY <1>2, <1>3, <1>4 DEF Layered

\* A close-out still to come stays in order while no log is left unwritten.
LEMMA ClosesCarried ==
  ASSUME NEW st, NEW new, NEW m, NEW k, Carries(st, new, m, k),
         NEW goal, NEW logged, Closes(st, goal, logged),
         NEW logged1, logged => logged1,
         \A i \in 1 .. m : st[i].op = "write_log" => logged1,
         \A i \in 1 .. k :
           /\ new[i].op \notin {"write_task", "close_out"}
           /\ new[i].op \in ClosingOps =>
                \A j \in m + 1 .. Len(st) : st[j].op # "write_task"
           /\ new[i].op = "write_log" => new[i].goal = goal
           /\ new[i].op = "set_status" =>
                \E j \in 1 .. i - 1 : new[j].op = "write_log"
  PROVE  Closes(new, goal, logged1)
<1>1. ASSUME NEW i \in 1 .. Len(new), i \notin 1 .. k
      PROVE  /\ i - k + m \in 1 .. Len(st) /\ new[i] = st[i - k + m]
             /\ i - k + m \in m + 1 .. Len(st)
  BY <1>1 DEF Carries
<1>2. ASSUME NEW i \in 1 .. Len(new), NEW j \in 1 .. Len(new),
             new[i].op \in ClosingOps
      PROVE  new[j].op # "write_task"
  <2>1. CASE i \in 1 .. k
    BY <1>1, <1>2, <2>1
  <2>2. CASE i \notin 1 .. k
    BY <1>1, <1>2, <2>2 DEF Closes
  <2> QED
    BY <2>1, <2>2
<1>3. ASSUME NEW i \in 1 .. Len(new), new[i].op \in {"close_out", "write_log"}
      PROVE  new[i].goal = goal
  BY <1>1, <1>3 DEF Closes
<1>4. ASSUME NEW i \in 1 .. Len(new), new[i].op = "set_status", ~logged1
      PROVE  \E j \in 1 .. i - 1 : new[j].op = "write_log"
  <2>1. CASE i \in 1 .. k
    BY <1>4, <2>1
  <2>2. CASE i \notin 1 .. k
    <3>1. i - k + m \in 1 .. Len(st) /\ st[i - k + m].op = "set_status"
      BY <1>1, <1>4, <2>2
    <3>2. PICK j \in 1 .. (i - k + m) - 1 : st[j].op = "write_log"
      BY <1>4, <3>1 DEF Closes
    <3>3. j \in m + 1 .. Len(st) /\ j - m + k < i
      BY <1>4, <3>1, <3>2 DEF Carries
    <3>4. j - m + k \in 1 .. i - 1 /\ new[j - m + k].op = "write_log"
      BY <3>2, <3>3 DEF Carries
    <3> QED
      BY <3>4
  <2> QED
    BY <2>1, <2>2
<1> QED
  BY <1>2, <1>3, <1>4 DEF Closes

\* A promise is kept as long as completions under way stay under way.
LEMMA PromisedCarried ==
  ASSUME NEW st, NEW new, NEW m, NEW k, Carries(st, new, m, k),
         NEW done, NEW done1, done \subseteq done1,
         NEW phaseOk, NEW ok, NEW ok1, Promised(st, done, phaseOk, ok),
         \A i \in 1 .. k :
           /\ new[i].op \notin {"absorb", "close_out"}
           /\ new[i].op = "write_log" => new[i].task \in done1,
         \A i \in 1 .. m : ~AbsorbsPhase(st[i]),
         \A a \in m + 1 .. Len(st) : \A t :
           AbsorbsPhase(st[a]) /\ Underway(st, ok, a, t) =>
             t \in done1 \/ Underway(new, ok1, a - m + k, t)
  PROVE  Promised(new, done1, phaseOk, ok1)
<1>1. ASSUME NEW i \in 1 .. Len(new),
             \/ new[i].op \in {"absorb", "close_out"}
             \/ i \notin 1 .. k
      PROVE  /\ i - k + m \in 1 .. Len(st) /\ new[i] = st[i - k + m]
             /\ i - k + m \in m + 1 .. Len(st)
  BY <1>1 DEF Carries
<1>2. ASSUME NEW i \in 1 .. Len(new), NEW j \in 1 .. Len(new),
             AbsorbsPhase(new[i]), AbsorbsPhase(new[j])
      PROVE  i = j
  <2>1. /\ i - k + m \in 1 .. Len(st) /\ AbsorbsPhase(st[i - k + m])
        /\ j - k + m \in 1 .. Len(st) /\ AbsorbsPhase(st[j - k + m])
    BY <1>1, <1>2 DEF AbsorbsPhase
  <2>2. i - k + m = j - k + m
    BY <2>1 DEF Promised
  <2> QED
    BY <2>2 DEF Carries
<1>3. ASSUME NEW i \in 1 .. Len(new), new[i].op = "write_log"
      PROVE  new[i].task \in done1
  BY <1>1, <1>3 DEF Promised
<1>4. ASSUME NEW i \in 1 .. Len(new), new[i].op = "close_out",
             new[i].task \notin done1,
             ~ (~phaseOk /\ \A j \in 1 .. Len(new) : ~AbsorbsPhase(new[j]))
      PROVE  \E j \in 1 .. i - 1 :
               AbsorbsPhase(new[j]) /\ Underway(new, ok1, j, new[i].task)
  <2>1. i - k + m \in 1 .. Len(st) /\ st[i - k + m] = new[i]
    BY <1>1, <1>4
  <2>2. ~ (~phaseOk /\ \A j \in 1 .. Len(st) : ~AbsorbsPhase(st[j]))
    <3>1. CASE phaseOk
      BY <3>1
    <3>2. CASE \E j \in 1 .. Len(new) : AbsorbsPhase(new[j])
      BY <1>1, <3>2 DEF AbsorbsPhase
    <3> QED
      BY <1>4, <3>1, <3>2
  <2>3. PICK a \in 1 .. (i - k + m) - 1 :
          AbsorbsPhase(st[a]) /\ Underway(st, ok, a, new[i].task)
    BY <1>4, <2>1, <2>2 DEF Promised
  <2>4. a \in m + 1 .. Len(st)
    BY <2>1, <2>3 DEF Carries
  <2>5. Underway(new, ok1, a - m + k, new[i].task)
    BY <1>4, <2>3, <2>4
  <2>6. AbsorbsPhase(new[a - m + k]) /\ a - m + k \in 1 .. i - 1
    BY <2>1, <2>3, <2>4 DEF Carries
  <2> QED
    BY <2>5, <2>6
<1> QED
  BY <1>2, <1>3, <1>4 DEF Promised

(***************************************************************************)
(* Inside an operation: the step before the record is still to come if the *)
(* one taken did not see to it.                                            *)
(***************************************************************************)
LEMMA UnderwayInside ==
  ASSUME NEW st, NEW new, NEW k, Carries(st, new, 1, k), Len(st) > 0,
         st[1].op \in OperationOps \ {"answer"},
         NEW done1, NEW ok, NEW ok1,
         \A t : Records(st[1], t) =>
           t \in done1 \/ \E j \in 1 .. k : Records(new[j], t),
         NEW a \in 2 .. Len(st), NEW t, Underway(st, ok, a, t), t \notin done1
  PROVE  Underway(new, ok1, a - 1 + k, t)
<1> DEFINE b == a - 1 + k
<1>1. /\ a > 1 /\ st[a - 1].op = "answer"
      /\ \E j \in 1 .. a - 1 : Records(st[j], t)
  BY DEF Underway, OperationOps
<1>2. a - 1 \in 2 .. Len(st)
  BY <1>1
<1>3. new[b - 1].op = "answer" /\ b > 1
  <2>1. (a - 1) - 1 + k = b - 1
    BY DEF Carries
  <2>2. a - 1 \in 1 + 1 .. Len(st)
    BY <1>2
  <2>3. new[(a - 1) - 1 + k] = st[a - 1]
    BY <2>2 DEF Carries
  <2>4. a - 1 + k > 1
    BY <1>2 DEF Carries
  <2> QED
    BY <1>1, <2>1, <2>3, <2>4
<1>4. PICK j \in 1 .. a - 1 : Records(st[j], t)
  BY <1>1
<1>5. \E i \in 1 .. b - 1 : Records(new[i], t)
  <2>1. CASE j = 1
    <3>1. PICK i \in 1 .. k : Records(new[i], t)
      BY <1>4, <2>1
    <3>2. i \in 1 .. b - 1
      BY <1>2, <3>1 DEF Carries
    <3> QED
      BY <3>1, <3>2
  <2>2. CASE j # 1
    <3>1. j \in 1 + 1 .. Len(st)
      BY <1>4, <2>2
    <3>2. new[j - 1 + k] = st[j]
      BY <3>1 DEF Carries
    <3>3. j - 1 + k \in 1 .. b - 1
      BY <1>4, <3>1 DEF Carries
    <3> QED
      BY <1>4, <3>2, <3>3
  <2> QED
    BY <2>1, <2>2
<1> HIDE DEF b
<1>6. Underway(new, ok1, b, t)
  BY <1>3, <1>5 DEF Underway
<1> QED
  BY <1>6 DEF b

\* Inside an operation: the synchronisation stays in front of the answer.
LEMMA SyncedInside ==
  ASSUME NEW st, NEW new, NEW k, Carries(st, new, 1, k), Len(st) > 0,
         NEW projects \in BOOLEAN, Synced(st, projects),
         st[1].op = "sync" => k = 0,
         \A i \in 1 .. k : new[i].op # "answer",
         \A i \in 1 .. k :
           new[i].op \in {"ingest_boot", "ingest_booted"} => projects
  PROVE  /\ Synced(new, projects)
         /\ projects /\ st[1].op # "sync" /\ Len(new) > 0 =>
              new[1].op # "answer"
<1>1. ASSUME NEW i \in 1 .. Len(new), i \notin 1 .. k
      PROVE  i - k + 1 \in 2 .. Len(st) /\ new[i] = st[i - k + 1]
  BY <1>1 DEF Carries
<1>2. ASSUME projects, NEW i \in 2 .. Len(new), new[i].op = "answer"
      PROVE  new[i - 1].op = "sync" /\ new[i - 1].report = TRUE
  <2>1. i - k + 1 \in 2 .. Len(st) /\ new[i] = st[i - k + 1]
    BY <1>1, <1>2
  <2>2. st[i - k].op = "sync" /\ st[i - k].report = TRUE
    <3>1. (i - k + 1) - 1 = i - k
      BY DEF Carries
    <3> QED
      BY <1>2, <2>1, <3>1 DEF Synced
  <2>3. i - k # 1
    BY <2>2, <1>2
  <2>4. i - 1 \in 1 .. Len(new) /\ i - 1 \notin 1 .. k /\ i - 1 - k + 1 = i - k
    BY <2>1, <2>3 DEF Carries
  <2> QED
    BY <1>1, <2>2, <2>4
<1>3. ASSUME NEW i \in 1 .. Len(new),
             new[i].op \in {"ingest_boot", "ingest_booted"}
      PROVE  projects
  BY <1>1, <1>3 DEF Synced
<1>4. ASSUME projects, st[1].op # "sync", Len(new) > 0
      PROVE  new[1].op # "answer"
  <2>1. CASE k > 0
    BY <2>1 DEF Carries
  <2>2. CASE ~ (k > 0)
    <3>1. 1 - k + 1 = 2 /\ new[1] = st[2] /\ 2 \in 2 .. Len(st)
      BY <1>1, <1>4, <2>2 DEF Carries
    <3>2. 2 - 1 = 1
      OBVIOUS
    <3> QED
      BY <1>4, <3>1, <3>2 DEF Synced
  <2> QED
    BY <2>1, <2>2
<1> QED
  BY <1>2, <1>3, <1>4 DEF Synced

-----------------------------------------------------------------------------
(* What the commands make of a project.                                    *)

LEMMA NewProjectOK ==
  \A rt \in {NewProject, NoProject, PartialProject} :
    ProjectOK(rt) /\ RecordedIn(rt) = {}
BY InitialConsistent
   DEF NewProject, NoProject, PartialProject, ProjectOK, RecordedIn, ProjectStates

\* The outcome of a task: nothing is forgotten, and nothing else is recorded.
LEMMA OutcomeOK ==
  ASSUME NEW rt, ProjectOK(rt), NEW t \in Tasks, NEW success \in BOOLEAN,
         rt.ts[t] \in {"ready", "running"},
         NEW new, new = WithOutcome(rt, t, success)
  PROVE  /\ ProjectOK(new)
         /\ success =>
              \A u : u \in RecordedIn(new) <=> u \in RecordedIn(rt) \/ u = t
         /\ ~success =>
              \A u : u \in RecordedIn(new) <=> u \in RecordedIn(rt)
<1> DEFINE w  == WorkflowOf[t]
           ts == OutcomeTasks(t, success, rt.ws, rt.ts)
           ws == RefreshedStatus(w, rt.ws, ts)
           os == CompletionState(w, success, ws, OutcomeState(t, success, rt.ps))
           ps == SyncProjectState(ws, ts, os)
<1>1. /\ new = [rt EXCEPT !.ts = ts, !.ws = ws, !.ps = ps]
      /\ rt = [project |-> rt.project, ts |-> rt.ts, ws |-> rt.ws, ps |-> rt.ps]
  BY DEF WithOutcome, ProjectOK
<1>2. Consistent(ts, ws)
  BY OutcomeConsistent DEF ProjectOK
<1>3. /\ ts[t] = IF success THEN "recorded" ELSE "failed"
      /\ \A u \in Tasks \ {t} : \/ ts[u] = rt.ts[u]
                                \/ rt.ts[u] = "pending" /\ ts[u] = "ready"
  BY OutcomeTasksFacts DEF ProjectOK
<1>4. ps \in ProjectStates
  <2>1. os \in ProjectStates
    BY OutcomeStateType DEF ProjectOK
  <2> HIDE DEF os
  <2> QED
    BY <2>1, SyncType
<1> HIDE DEF w, ts, ws, os, ps
<1>5. new = [project |-> rt.project, ts |-> ts, ws |-> ws, ps |-> ps]
  BY <1>1
<1>6. rt.project = "full"
  BY DEF ProjectOK
<1> QED
  BY <1>2, <1>3, <1>4, <1>5, <1>6 DEF ProjectOK, RecordedIn

LEMMA ActivationOK ==
  ASSUME NEW rt, ProjectOK(rt), rt.project = "full", rt.ws[Software] \in Inactive,
         NEW new, new = WithActivation(rt)
  PROVE  ProjectOK(new) /\ RecordedIn(new) = RecordedIn(rt)
<1> DEFINE ts == ActivatedTasks(Software, rt.ts)
           ws == RefreshedStatus(Software, [rt.ws EXCEPT ![Software] = "activated"],
                                 ts)
           ps == SyncProjectState(ws, ts, ApplyTransition(rt.ps, "planning"))
<1>1. /\ new = [rt EXCEPT !.ts = ts, !.ws = ws, !.ps = ps]
      /\ rt = [project |-> rt.project, ts |-> rt.ts, ws |-> rt.ws, ps |-> rt.ps]
  BY DEF WithActivation, ProjectOK
<1>2. Consistent(ts, ws)
  BY ActivationConsistent, SoftwareAssumption DEF ProjectOK
<1>3. /\ \A t \in Tasks : WorkflowOf[t] = Software =>
           rt.ts[t] = "defined" /\ ts[t] \in {"pending", "ready"}
      /\ \A t \in Tasks : WorkflowOf[t] # Software => ts[t] = rt.ts[t]
  <2>1. rt.ws[Software] = "defined"
    BY SoftwareAssumption DEF ProjectOK, Consistent, Inactive
  <2> QED
    BY <2>1, ActivatedTasksFacts, SoftwareAssumption DEF ProjectOK
<1>4. ps \in ProjectStates
  <2>1. ApplyTransition(rt.ps, "planning") \in ProjectStates
    BY ApplyTransitionType DEF ProjectOK, ProjectStates
  <2> QED
    BY <2>1, SyncType
<1> HIDE DEF ts, ws, ps
<1>5. new = [project |-> rt.project, ts |-> ts, ws |-> ws, ps |-> ps]
  BY <1>1
<1> QED
  BY <1>2, <1>3, <1>4, <1>5 DEF ProjectOK, RecordedIn

LEMMA TransitionType ==
  ASSUME NEW ps \in ProjectStates, NEW target, CanTransition(ps, target)
  PROVE  target \in ProjectStates
BY DEF ProjectStates, CanTransition, VALID_TRANSITIONS

\* A command that obeys records the task it completes, and no other.
LEMMA EffectOK ==
  ASSUME ProjectOK(runtime), NEW name \in CliNames, NEW arg, Obeys(name, arg),
         NEW new, new = Effect(name, arg)
  PROVE  /\ ProjectOK(new)
         /\ name = "complete" => arg \in Tasks /\ arg \notin RecordedIn(runtime)
         /\ \A u : u \in RecordedIn(new) <=>
              u \in RecordedIn(runtime) \/ (name = "complete" /\ u = arg)
<1>1. CASE name = "init"
  <2>1. runtime.project = "none" /\ new = NewProject
    BY <1>1 DEF Obeys, Effect
  <2>2. RecordedIn(runtime) = {}
    BY <2>1 DEF ProjectOK, RecordedIn
  <2> QED
    BY <1>1, <2>1, <2>2, NewProjectOK
<1>2. CASE name = "activate"
  <2>1. /\ runtime.project = "full" /\ runtime.ws[Software] \in Inactive
        /\ new = WithActivation(runtime)
    BY <1>2 DEF Obeys, Effect
  <2> QED
    BY <1>2, <2>1, ActivationOK
<1>3. CASE name = "transition"
  <2>1. CanTransition(runtime.ps, arg) /\ new = [runtime EXCEPT !.ps = arg]
    BY <1>3 DEF Obeys, Effect
  <2>2. arg \in ProjectStates
    BY <2>1, TransitionType DEF ProjectOK
  <2>3. new = [project |-> runtime.project, ts |-> runtime.ts,
               ws |-> runtime.ws, ps |-> arg]
    BY <2>1 DEF ProjectOK
  <2> QED
    BY <1>3, <2>2, <2>3 DEF ProjectOK, RecordedIn
<1>4. CASE name = "complete"
  <2>1. /\ arg \in Tasks /\ runtime.ts[arg] = "ready"
        /\ new = WithOutcome(runtime, arg, TRUE)
    BY <1>4 DEF Obeys, Effect
  <2>2. arg \notin RecordedIn(runtime)
    BY <2>1 DEF RecordedIn
  <2>3. /\ ProjectOK(new)
        /\ \A u : u \in RecordedIn(new) <=> u \in RecordedIn(runtime) \/ u = arg
    <3>1. runtime.ts[arg] \in {"ready", "running"}
      BY <2>1
    <3>2. ASSUME NEW s \in BOOLEAN, s, new = WithOutcome(runtime, arg, s)
          PROVE  /\ ProjectOK(new)
                 /\ \A u : u \in RecordedIn(new)
                             <=> u \in RecordedIn(runtime) \/ u = arg
      BY <2>1, <3>1, <3>2, OutcomeOK
    <3> QED
      BY <2>1, <3>2
  <2> QED
    BY <1>4, <2>1, <2>2, <2>3
<1>5. CASE name = "fail"
  <2>1. /\ arg \in Tasks /\ runtime.ts[arg] = "ready"
        /\ new = WithOutcome(runtime, arg, FALSE)
    BY <1>5 DEF Obeys, Effect
  <2>2. /\ ProjectOK(new)
        /\ \A u : u \in RecordedIn(new) <=> u \in RecordedIn(runtime)
    <3>1. runtime.ts[arg] \in {"ready", "running"}
      BY <2>1
    <3>2. ASSUME NEW s \in BOOLEAN, ~s, new = WithOutcome(runtime, arg, s)
          PROVE  /\ ProjectOK(new)
                 /\ \A u : u \in RecordedIn(new) <=> u \in RecordedIn(runtime)
      BY <2>1, <3>1, <3>2, OutcomeOK
    <3> QED
      BY <2>1, <3>2
  <2> QED
    BY <1>5, <2>2
<1> QED
  BY <1>1, <1>2, <1>3, <1>4, <1>5 DEF CliNames

\* A run that takes a task leaves it running.
Taken(rt, t) ==
  [rt EXCEPT !.ts = [@ EXCEPT ![t] = "running"],
             !.ps = ApplyTransition(@, "executing")]

LEMMA TakeOK ==
  ASSUME NEW rt, ProjectOK(rt), NEW t \in Tasks, rt.ts[t] = "ready",
         NEW new, new = Taken(rt, t)
  PROVE  /\ ProjectOK(new) /\ new.ts[t] = "running"
         /\ RecordedIn(new) = RecordedIn(rt)
<1> DEFINE ts == [rt.ts EXCEPT ![t] = "running"]
           ps == ApplyTransition(rt.ps, "executing")
<1>1. new = [project |-> rt.project, ts |-> ts, ws |-> rt.ws, ps |-> ps]
  BY DEF ProjectOK, Taken
<1>2. Consistent(ts, rt.ws)
  BY HandoverConsistent DEF ProjectOK
<1>3. ps \in ProjectStates
  BY ApplyTransitionType DEF ProjectOK, ProjectStates
<1>4. rt.project = "full"
  BY DEF ProjectOK
<1>5. ts[t] = "running" /\ \A u \in Tasks \ {t} : ts[u] = rt.ts[u]
  BY DEF ProjectOK, Consistent
<1> HIDE DEF ts, ps
<1>6. RecordedIn(new) = RecordedIn(rt)
  <2>1. \A u \in Tasks : ts[u] = "recorded" <=> rt.ts[u] = "recorded"
    BY <1>5
  <2>2. new.ts = ts
    BY <1>1
  <2> QED
    BY <2>1, <2>2 DEF RecordedIn
<1>7. ProjectOK(new)
  BY <1>1, <1>2, <1>3, <1>4 DEF ProjectOK
<1> QED
  BY <1>1, <1>5, <1>6, <1>7

-----------------------------------------------------------------------------
(* The kinds of steps.                                                     *)

\* With an answer at n, what is in front of n is the operation's.
LEMMA OneAnswer ==
  ASSUME NEW st, Layered(st), Len(st) \in Nat,
         NEW n \in 1 .. Len(st), st[n].op = "answer"
  PROVE  /\ \A i \in 1 .. Len(st) : st[i].op = "answer" => i = n
         /\ \A i \in 1 .. Len(st) : i < n => st[i].op \in OperationOps
         /\ \A i \in n + 1 .. Len(st) : st[i].op \notin OperationOps
<1>1. "answer" \in OperationOps
  BY DEF OperationOps
<1> QED
  BY <1>1 DEF Layered

\* No record is waited for behind a step that is not a command.
LEMMA NothingChecked ==
  ASSUME NEW st, NEW done, NEW succeeded, Checked(st, done, succeeded),
         st[1].op # "cli", NEW i \in 2 .. Len(st)
  PROVE  st[i].op # "recorded"
BY DEF Checked

(***************************************************************************)
(* A step of an operation other than its answer.                           *)
(***************************************************************************)
LEMMA InsideStep ==
  ASSUME StepsOK(todo), AnswersOK, todo # <<>>,
         todo[1].op \in OperationOps \ {"answer"},
         NEW steps, IsStack(steps), todo' = steps \o Tail(todo),
         \A i \in 1 .. Len(steps) :
           /\ steps[i].op \in OperationOps \ {"answer"}
           /\ steps[i].op \in {"ingest_boot", "ingest_booted"} => Projects
           /\ steps[i].op = "running" =>
                i = 1 /\ runtime'.ts[steps[i].arg] = "running",
         UNCHANGED <<task, logs, session>>, Recorded \subseteq Recorded',
         Projects' = Projects,
         \A t : Records(todo[1], t) =>
           t \in Recorded' \/ \E j \in 1 .. Len(steps) : Records(steps[j], t),
         todo[1].op = "sync" => steps = <<>>,
         Checked(todo', Recorded', last')
  PROVE  /\ StepsOK(todo)'
         /\ Projects /\ todo[1].op # "sync" => ~ (At("answer"))'
<1> DEFINE k == Len(steps)
           new == todo'
<1>1. /\ Carries(todo, new, 1, k) /\ IsStack(new)
      /\ \A i \in 1 .. k : i \in 1 .. Len(new) /\ new[i] = steps[i]
  <2>1. IsStack(todo)
    BY DEF StepsOK
  <2>2. new = Called(steps, todo)
    BY DEF Called
  <2> HIDE DEF new, k
  <2>3. /\ Carries(todo, new, 1, Len(steps)) /\ IsStack(new)
        /\ \A i \in 1 .. Len(steps) : i \in 1 .. Len(new) /\ new[i] = steps[i]
    BY <2>1, <2>2, CallCarries
  <2> QED
    BY <2>3 DEF k
<1>2. Len(todo) \in Nat /\ Len(todo) > 0
  <2>1. 1 <= Len(todo) /\ Len(todo) \in Nat
    BY <1>1 DEF Carries
  <2> QED
    BY <2>1
<1>3. \E j \in 1 + 1 .. Len(todo) : todo[j].op = "answer"
  <2>1. PICK j \in 1 .. Len(todo) : todo[j].op = "answer"
    BY <1>2 DEF StepsOK, Layered
  <2>2. j # 1
    BY <2>1
  <2> QED
    BY <1>2, <2>1, <2>2
<1> HIDE DEF new
<1>4. \A i \in 1 .. k : new[i].op \in OperationOps \ {"answer"}
  BY <1>1
<1>5. Layered(new)
  <2>1. \A i \in 1 .. k : new[i].op \in OperationOps \ {"answer", "end"}
    BY <1>4 DEF OperationOps
  <2> QED
    BY <1>1, <1>3, <2>1, LayeredInside DEF StepsOK
<1>6. Closes(new, task.goal, IsLogged)
  <2>1. \A i \in 1 .. k :
          new[i].op \notin {"write_task", "close_out"} \cup ClosingOps
    BY <1>4 DEF OperationOps, ClosingOps
  <2>2. \A i \in 1 .. 1 : todo[i].op # "write_log"
    BY DEF OperationOps
  <2>3. \A i \in 1 .. k : new[i].op # "write_log" /\ new[i].op # "set_status"
    BY <2>1 DEF ClosingOps
  <2> QED
    BY <1>1, <2>1, <2>2, <2>3, ClosesCarried DEF StepsOK
<1>7. Promised(new, Recorded', session.phaseOk, result'.ok)
  <2>1. \A i \in 1 .. k :
          new[i].op \notin {"absorb", "close_out", "write_log"}
    BY <1>4 DEF OperationOps
  <2>2. \A i \in 1 .. 1 : ~AbsorbsPhase(todo[i])
    BY DEF OperationOps, AbsorbsPhase
  <2>3. \A t : Records(todo[1], t) =>
          t \in Recorded' \/ \E j \in 1 .. k : Records(new[j], t)
    BY <1>1
  <2>4. ASSUME NEW a \in 1 + 1 .. Len(todo), NEW t,
               Underway(todo, result.ok, a, t), t \notin Recorded'
        PROVE  Underway(new, result'.ok, a - 1 + k, t)
    <3>1. a \in 2 .. Len(todo)
      OBVIOUS
    <3> QED
      BY <1>1, <1>2, <2>3, <2>4, <3>1, UnderwayInside
  <2> QED
    BY <1>1, <2>1, <2>2, <2>4, PromisedCarried DEF StepsOK
<1>8. /\ Synced(new, Projects)
      /\ Projects /\ todo[1].op # "sync" /\ Len(new) > 0 => new[1].op # "answer"
  <2>1. todo[1].op = "sync" => k = 0
    BY Tuples
  <2>2. Projects \in BOOLEAN
    BY DEF Projects
  <2>3. /\ \A i \in 1 .. k : new[i].op # "answer"
        /\ \A i \in 1 .. k :
             new[i].op \in {"ingest_boot", "ingest_booted"} => Projects
    BY <1>1
  <2> QED
    BY <1>1, <1>2, <2>1, <2>2, <2>3, SyncedInside DEF StepsOK
<1>9. Executes(new, runtime')
  <2>1. ASSUME NEW i \in 1 .. Len(new), new[i].op = "running"
        PROVE  i = 1 /\ runtime'.ts[new[i].arg] = "running"
    <3>1. CASE i \in 1 .. k
      BY <1>1, <2>1, <3>1
    <3>2. CASE i \notin 1 .. k
      <4>1. i - k + 1 \in 1 .. Len(todo) /\ todo[i - k + 1].op = "running"
              /\ i - k + 1 # 1
        BY <1>1, <2>1, <3>2 DEF Carries
      <4> QED
        BY <4>1 DEF StepsOK, Executes
    <3> QED
      BY <3>1, <3>2
  <2> QED
    BY <2>1 DEF Executes
<1>10. (At("answer"))' => new[1].op = "answer" /\ Len(new) > 0
  <2>1. new = todo'
    BY DEF new
  <2>2. new # <<>> => Len(new) > 0 /\ Head(new) = new[1]
    <3>1. new \in Seq(ToSet(new))
      BY <1>1 DEF IsStack
    <3> QED
      BY <3>1, EmptySeq, LenProperties, HeadTailProperties
  <2> QED
    BY <2>1, <2>2 DEF At
<1>11. StepsOK(todo)'
  <2>1. /\ new = todo' /\ (task.goal)' = task.goal /\ IsLogged' = IsLogged
        /\ (session.phaseOk)' = session.phaseOk
    BY DEF new, IsLogged
  <2> QED
    BY <1>1, <1>5, <1>6, <1>7, <1>8, <1>9, <2>1 DEF StepsOK
<1> QED
  BY <1>8, <1>10, <1>11

(***************************************************************************)
(* An operation that is over, at its answer or before: what goes on behind *)
(* it belongs to the orchestration.                                        *)
(***************************************************************************)
LEMMA AnsweredStep ==
  ASSUME StepsOK(todo), NEW n \in 1 .. Len(todo), todo[n].op = "answer",
         Carries(todo, todo', n, 0), IsStack(todo'),
         UNCHANGED <<runtime, task, logs, session>>,
         n = 1 \/ result'.ok = FALSE
  PROVE  /\ StepsOK(todo)'
         /\ \A i \in 1 .. Len(todo') : todo'[i].op \notin OperationOps
<1> DEFINE new == todo'
<1>1. Carries(todo, new, n, 0) /\ Len(todo) \in Nat /\ n \in Nat \ {0}
  BY DEF Carries
<1>2. /\ \A i \in 1 .. Len(todo) : i < n => todo[i].op \in OperationOps
      /\ \A i \in n + 1 .. Len(todo) : todo[i].op \notin OperationOps
  BY <1>1, OneAnswer DEF StepsOK
<1>3. Recorded' = Recorded /\ IsLogged' = IsLogged
  BY DEF Recorded, RecordedIn, IsLogged
<1>4. "answer" \in OperationOps
  BY DEF OperationOps
<1> HIDE DEF new
<1>5. \A i \in 1 .. Len(new) : new[i].op \notin OperationOps
  BY <1>1, <1>2 DEF Carries
<1>6. Layered(new)
  <2>1. /\ \A i \in 1 .. 0 : new[i].op # "end"
        /\ \A i \in 1 .. 0 : new[i].op \notin OperationOps
    OBVIOUS
  <2> QED
    BY <1>1, <1>2, <2>1, LayeredBehind DEF StepsOK
<1>7. Closes(new, task.goal, IsLogged)
  <2>1. \A i \in 1 .. n : todo[i].op \in OperationOps
    BY <1>1, <1>2, <1>4
  <2>2. \A i \in 1 .. n : todo[i].op # "write_log"
    BY <2>1 DEF OperationOps
  <2>3. \A i \in 1 .. 0 : FALSE
    OBVIOUS
  <2> QED
    BY <1>1, <2>2, <2>3, ClosesCarried DEF StepsOK
<1>8. Promised(new, Recorded', session.phaseOk, result'.ok)
  <2>1. \A i \in 1 .. n : todo[i].op \in OperationOps
    BY <1>1, <1>2, <1>4
  <2>2. \A i \in 1 .. n : ~AbsorbsPhase(todo[i])
    BY <2>1 DEF OperationOps, AbsorbsPhase
  <2>3. ASSUME NEW a \in n + 1 .. Len(todo), NEW t,
               Underway(todo, result.ok, a, t)
        PROVE  Underway(new, result'.ok, a - n + 0, t)
    <3>1. a > 1 /\ todo[1].op \in OperationOps /\ todo[1].op # "bridge"
      BY <1>1, <2>1 DEF OperationOps
    <3>2. todo[a - 1].op = "answer" /\ \E j \in 1 .. a - 1 : Records(todo[j], t)
      BY <2>3, <3>1 DEF Underway
    <3>3. a = n + 1
      <4>1. a - 1 \in 1 .. Len(todo) /\ ~ (a - 1 \in n + 1 .. Len(todo))
        BY <1>1, <1>2, <1>4, <3>1, <3>2
      <4> QED
        BY <1>1, <4>1
    <3>4. n # 1
      BY <3>2, <3>3 DEF Records
    <3>5. a - n + 0 = 1 /\ ~result'.ok
      BY <1>1, <3>3, <3>4
    <3> QED
      BY <3>5 DEF Underway
  <2>4. \A i \in 1 .. 0 : FALSE
    OBVIOUS
  <2>5. Recorded \subseteq Recorded'
    BY <1>3
  <2> QED
    BY <1>1, <2>2, <2>3, <2>4, <2>5, PromisedCarried DEF StepsOK
<1>9. /\ Checked(new, Recorded', last') /\ Synced(new, Projects')
      /\ Executes(new, runtime')
  BY <1>5 DEF Checked, Synced, Executes, OperationOps
<1>10. /\ new = todo' /\ (task.goal)' = task.goal
       /\ (session.phaseOk)' = session.phaseOk
  BY DEF new
<1> QED
  BY <1>3, <1>5, <1>6, <1>7, <1>8, <1>9, <1>10 DEF StepsOK

(***************************************************************************)
(* A step of an orchestration that calls no operation.                     *)
(***************************************************************************)
LEMMA FlowStep ==
  ASSUME StepsOK(todo), todo # <<>>, todo[1].op \notin OperationOps,
         NEW steps, IsStack(steps), todo' = steps \o Tail(todo),
         Recorded' = Recorded,
         \/ task'.goal = task.goal /\ (IsLogged => IsLogged')
         \/ todo[1].op = "write_task" /\ steps = <<>>,
         todo[1].op = "write_log" => IsLogged',
         \A i \in 1 .. Len(steps) :
           /\ steps[i].op \notin OperationOps
           /\ steps[i].op \notin {"end", "write_task", "close_out", "absorb"}
           /\ steps[i].op \in ClosingOps =>
                \A j \in 2 .. Len(todo) : todo[j].op # "write_task"
           /\ steps[i].op = "write_log" =>
                steps[i].goal = task.goal /\ steps[i].task \in Recorded
           /\ steps[i].op = "set_status" =>
                \E j \in 1 .. i - 1 : steps[j].op = "write_log",
         \/ ~AbsorbsPhase(todo[1]) /\ session'.phaseOk = session.phaseOk
         \/ /\ AbsorbsPhase(todo[1]) /\ session'.phaseOk = result.ok
            /\ steps = <<>>,
         todo[1].op = "bridge" => steps = <<>>,
         todo[1].op = "bridge" /\ todo[1].name = "post_phase_complete" =>
           ~result'.ok
  PROVE  StepsOK(todo)' /\ ~ (At("answer"))'
<1> DEFINE k == Len(steps)
           new == todo'
<1>1. /\ Carries(todo, new, 1, k) /\ IsStack(new)
      /\ \A i \in 1 .. k : i \in 1 .. Len(new) /\ new[i] = steps[i]
  <2>1. IsStack(todo)
    BY DEF StepsOK
  <2>2. new = Called(steps, todo)
    BY DEF Called
  <2> HIDE DEF new, k
  <2>3. /\ Carries(todo, new, 1, Len(steps)) /\ IsStack(new)
        /\ \A i \in 1 .. Len(steps) : i \in 1 .. Len(new) /\ new[i] = steps[i]
    BY <2>1, <2>2, CallCarries
  <2> QED
    BY <2>3 DEF k
<1>2. Len(todo) \in Nat /\ 1 \in 1 .. Len(todo)
  <2>1. 1 <= Len(todo) /\ Len(todo) \in Nat
    BY <1>1 DEF Carries
  <2> QED
    BY <2>1
<1> HIDE DEF new
<1>3. \A i \in 1 .. Len(todo) : todo[i].op \notin OperationOps
  <2>1. ASSUME NEW i \in 1 .. Len(todo), todo[i].op \in OperationOps
        PROVE  FALSE
    <3>1. 1 < i
      BY <2>1
    <3> QED
      BY <1>2, <2>1, <3>1 DEF StepsOK, Layered
  <2> QED
    BY <2>1
<1>4. \A i \in 1 .. Len(new) : new[i].op \notin OperationOps
  <2>1. ASSUME NEW i \in 1 .. Len(new) PROVE new[i].op \notin OperationOps
    <3>1. CASE i \in 1 .. k
      BY <1>1, <3>1
    <3>2. CASE i \notin 1 .. k
      BY <1>1, <1>3, <3>2 DEF Carries
    <3> QED
      BY <3>1, <3>2
  <2> QED
    BY <2>1
<1>5. Layered(new)
  <2>1. /\ \A i \in 1 .. k : new[i].op # "end"
        /\ \A i \in 1 .. k : new[i].op \notin OperationOps
    BY <1>1
  <2>2. \A i \in 1 + 1 .. Len(todo) : todo[i].op \notin OperationOps
    BY <1>2, <1>3
  <2> QED
    BY <1>1, <2>1, <2>2, LayeredBehind DEF StepsOK
<1>6. Closes(new, task'.goal, IsLogged')
  <2>1. CASE task'.goal = task.goal /\ (IsLogged => IsLogged')
    <3> DEFINE logged == IsLogged
               logged1 == IsLogged'
               goal == task.goal
    <3>1. ASSUME NEW i \in 1 .. k
          PROVE  /\ new[i].op \notin {"write_task", "close_out"}
                 /\ new[i].op \in ClosingOps =>
                      \A j \in 1 + 1 .. Len(todo) : todo[j].op # "write_task"
                 /\ new[i].op = "write_log" => new[i].goal = goal
                 /\ new[i].op = "set_status" =>
                      \E j \in 1 .. i - 1 : new[j].op = "write_log"
      <4>1. new[i] = steps[i]
        BY <1>1
      <4>2. new[i].op = "set_status" =>
              \E j \in 1 .. i - 1 : new[j].op = "write_log"
        <5>1. ASSUME new[i].op = "set_status"
              PROVE  \E j \in 1 .. i - 1 : new[j].op = "write_log"
          <6>1. PICK j \in 1 .. i - 1 : steps[j].op = "write_log"
            BY <4>1, <5>1
          <6>2. j \in 1 .. k
            BY <6>1, <1>1 DEF Carries
          <6> QED
            BY <1>1, <6>1, <6>2
        <5> QED
          BY <5>1
      <4>3. /\ new[i].op \notin {"write_task", "close_out"}
            /\ new[i].op = "write_log" => new[i].goal = goal
        BY <4>1
      <4>4. new[i].op \in ClosingOps =>
              \A j \in 2 .. Len(todo) : todo[j].op # "write_task"
        BY <4>1
      <4> QED
        BY <4>2, <4>3, <4>4
    <3>2. \A i \in 1 .. 1 : todo[i].op = "write_log" => logged1
      OBVIOUS
    <3>3. Closes(todo, goal, logged) /\ (logged => logged1)
      BY <2>1 DEF StepsOK
    <3> HIDE DEF k, logged, logged1, goal
    <3>4. Closes(new, goal, logged1)
      BY <1>1, <3>1, <3>2, <3>3, ClosesCarried
    <3> QED
      BY <2>1, <3>4 DEF goal, logged1
  <2>2. CASE todo[1].op = "write_task" /\ steps = <<>>
    <3>1. \A i \in 1 .. Len(todo) : todo[i].op \notin ClosingOps
      BY <1>2, <2>2 DEF StepsOK, Closes
    <3>2. k = 0
      BY <2>2, Tuples
    <3>3. \A i \in 1 .. Len(new) : new[i].op \notin ClosingOps
      BY <1>1, <3>1, <3>2 DEF Carries
    <3> QED
      BY <3>3 DEF Closes, ClosingOps
  <2> QED
    BY <2>1, <2>2
<1>7. Promised(new, Recorded', session'.phaseOk, result'.ok)
  <2>1. CASE ~AbsorbsPhase(todo[1])
    <3>1. \A i \in 1 .. k :
            /\ new[i].op \notin {"absorb", "close_out"}
            /\ new[i].op = "write_log" => new[i].task \in Recorded'
      BY <1>1
    <3>2. ASSUME NEW a \in 1 + 1 .. Len(todo), NEW t,
                 AbsorbsPhase(todo[a]), Underway(todo, result.ok, a, t)
          PROVE  Underway(new, result'.ok, a - 1 + k, t)
      <4>1. a > 1 /\ todo[a - 1].op # "answer"
        <5>1. a - 1 \in 1 .. Len(todo)
          BY <1>2
        <5> QED
          BY <1>3, <5>1 DEF OperationOps
      <4>2. a = 2 /\ todo[1].op = "bridge" /\ todo[1].name = "post_phase_complete"
        BY <3>2, <4>1 DEF Underway
      <4>3. ~result'.ok
        BY <4>2
      <4>4. k = 0
        BY <4>2, Tuples
      <4>5. a - 1 + k = 1
        BY <4>2, <4>4
      <4> QED
        BY <4>3, <4>5 DEF Underway
    <3>3. \A i \in 1 .. 1 : ~AbsorbsPhase(todo[i])
      BY <2>1
    <3>4. Promised(new, Recorded', session.phaseOk, result'.ok)
      BY <1>1, <3>1, <3>2, <3>3, PromisedCarried DEF StepsOK
    <3> QED
      BY <2>1, <3>4
  <2>2. CASE AbsorbsPhase(todo[1])
    <3>1. k = 0 /\ session'.phaseOk = result.ok
      BY <2>2, Tuples
    <3>2. ASSUME NEW i \in 1 .. Len(new)
          PROVE  i + 1 \in 2 .. Len(todo) /\ new[i] = todo[i + 1]
      BY <1>1, <3>1 DEF Carries
    <3>3. \A i \in 1 .. Len(new) : ~AbsorbsPhase(new[i])
      BY <1>2, <2>2, <3>2 DEF StepsOK, Promised
    <3>4. ASSUME NEW i \in 1 .. Len(new), new[i].op = "close_out",
                 new[i].task \notin Recorded
          PROVE  ~result.ok
      <4>1. PICK j \in 1 .. (i + 1) - 1 :
              AbsorbsPhase(todo[j]) /\ Underway(todo, result.ok, j, new[i].task)
        <5>1. i + 1 \in 1 .. Len(todo) /\ todo[i + 1] = new[i]
          BY <1>2, <3>2
        <5>2. ~ \A j \in 1 .. Len(todo) : ~AbsorbsPhase(todo[j])
          BY <1>2, <2>2
        <5>3. Promised(todo, Recorded, session.phaseOk, result.ok)
          BY DEF StepsOK
        <5> QED
          BY <3>4, <5>1, <5>2, <5>3 DEF Promised
      <4>2. j \in 1 .. Len(todo)
        BY <1>2, <3>2, <4>1
      <4>3. j = 1
        BY <1>2, <2>2, <4>1, <4>2 DEF StepsOK, Promised
      <4> QED
        BY <4>1, <4>3 DEF Underway
    <3>5. \A i \in 1 .. Len(new) : new[i].op = "write_log" =>
            new[i].task \in Recorded
      <4>1. \A i \in 1 .. Len(new) :
              i + 1 \in 1 .. Len(todo) /\ new[i] = todo[i + 1]
        BY <1>2, <3>2
      <4> QED
        BY <4>1 DEF StepsOK, Promised
    <3> QED
      BY <3>1, <3>3, <3>4, <3>5 DEF Promised
  <2> QED
    BY <2>1, <2>2
<1>8. /\ Checked(new, Recorded', last') /\ Synced(new, Projects')
      /\ Executes(new, runtime')
  BY <1>4 DEF Checked, Synced, Executes, OperationOps
<1>9. /\ new = todo' /\ (task.goal)' = task'.goal
      /\ (session.phaseOk)' = session'.phaseOk
  BY DEF new
<1>10. ~ (At("answer"))'
  <2>1. new # <<>> => Head(new) = new[1] /\ 1 \in 1 .. Len(new)
    <3>1. new \in Seq(ToSet(new))
      BY <1>1 DEF IsStack
    <3> QED
      BY <3>1, EmptySeq, LenProperties, HeadTailProperties
  <2> QED
    BY <1>4, <1>9, <2>1 DEF At, OperationOps
<1> QED
  BY <1>1, <1>5, <1>6, <1>7, <1>8, <1>9, <1>10 DEF StepsOK

\* With nothing left to do nothing is promised.
LEMMA NothingLeft ==
  ASSUME todo' = <<>>
  PROVE  StepsOK(todo)' /\ ~ (At("answer"))'
<1>1. Len(<<>>) = 0 /\ <<>> \in Seq(ToSet(<<>>)) /\ \A i : i \notin 1 .. 0
  BY Tuples
<1>2. Len(todo') = 0 /\ \A i : i \notin 1 .. Len(todo')
  BY <1>1
<1>3. IsStack(todo')
  BY <1>1, <1>2 DEF IsStack
<1>4. Layered(todo') /\ Closes(todo', task'.goal, IsLogged')
  BY <1>2 DEF Layered, Closes
<1>5. Promised(todo', Recorded', session'.phaseOk, result'.ok)
  BY <1>2 DEF Promised
<1>6. Checked(todo', Recorded', last') /\ Executes(todo', runtime')
  BY <1>2 DEF Checked, Executes
<1>7. Synced(todo', Projects')
  <2>1. \A i : i \notin 2 .. Len(todo')
    BY <1>1
  <2> QED
    BY <1>2, <2>1 DEF Synced
<1> QED
  BY <1>3, <1>4, <1>5, <1>6, <1>7 DEF StepsOK, At

-----------------------------------------------------------------------------
(* Stacks that are put together.                                           *)

LEMMA StackTuples ==
  /\ IsStack(<<>>) /\ Len(<<>>) = 0
  /\ \A a : StepOK(a) => IsStack(<<a>>) /\ Len(<<a>>) = 1
  /\ \A a, b : StepOK(a) /\ StepOK(b) => IsStack(<<a, b>>) /\ Len(<<a, b>>) = 2
  /\ \A a, b, c :
       StepOK(a) /\ StepOK(b) /\ StepOK(c) =>
         IsStack(<<a, b, c>>) /\ Len(<<a, b, c>>) = 3
  /\ \A a, b, c, d :
       StepOK(a) /\ StepOK(b) /\ StepOK(c) /\ StepOK(d) =>
         IsStack(<<a, b, c, d>>) /\ Len(<<a, b, c, d>>) = 4
<1>1. IsStack(<<>>) /\ Len(<<>>) = 0
  BY Tuples DEF IsStack
<1>2. ASSUME NEW a, StepOK(a) PROVE IsStack(<<a>>) /\ Len(<<a>>) = 1
  BY <1>2, Tuples DEF IsStack
<1>3. ASSUME NEW a, NEW b, StepOK(a), StepOK(b)
      PROVE  IsStack(<<a, b>>) /\ Len(<<a, b>>) = 2
  BY <1>3, Tuples DEF IsStack
<1>4. ASSUME NEW a, NEW b, NEW c, StepOK(a), StepOK(b), StepOK(c)
      PROVE  IsStack(<<a, b, c>>) /\ Len(<<a, b, c>>) = 3
  BY <1>4, Tuples DEF IsStack
<1>5. ASSUME NEW a, NEW b, NEW c, NEW d,
             StepOK(a), StepOK(b), StepOK(c), StepOK(d)
      PROVE  IsStack(<<a, b, c, d>>) /\ Len(<<a, b, c, d>>) = 4
  BY <1>5, Tuples DEF IsStack
<1> QED
  BY <1>1, <1>2, <1>3, <1>4, <1>5

LEMMA StackConcat ==
  ASSUME NEW a, NEW b, IsStack(a), IsStack(b)
  PROVE  /\ IsStack(a \o b) /\ Len(a) \in Nat /\ Len(b) \in Nat
         /\ Len(a \o b) = Len(a) + Len(b)
         /\ \A i \in 1 .. Len(a \o b) :
              \/ i \in 1 .. Len(a) /\ (a \o b)[i] = a[i]
              \/ i - Len(a) \in 1 .. Len(b) /\ (a \o b)[i] = b[i - Len(a)]
<1> DEFINE S == ToSet(a) \cup ToSet(b)
           c == a \o b
<1>1. a \in Seq(S) /\ b \in Seq(S)
  BY SeqMonotonic DEF IsStack
<1>2. /\ c \in Seq(S) /\ Len(a) \in Nat /\ Len(b) \in Nat
      /\ Len(c) = Len(a) + Len(b)
      /\ \A i \in 1 .. Len(c) :
           c[i] = IF i <= Len(a) THEN a[i] ELSE b[i - Len(a)]
  BY <1>1, ConcatProperties, LenProperties
<1>3. c \in Seq(Range(c)) /\ Range(c) = ToSet(c)
  <2>1. c \in Seq(Range(c))
    BY <1>2, SeqOfRange
  <2>2. Range(c) = ToSet(c)
    BY DEF ToSet, Range
  <2> QED
    BY <2>1, <2>2
<1> HIDE DEF S, c
<1>4. ASSUME NEW i \in 1 .. Len(c)
      PROVE  \/ i \in 1 .. Len(a) /\ c[i] = a[i]
             \/ i - Len(a) \in 1 .. Len(b) /\ c[i] = b[i - Len(a)]
  BY <1>2
<1>5. ASSUME NEW i \in 1 .. Len(c) PROVE StepOK(c[i])
  BY <1>4 DEF IsStack
<1> QED
  BY <1>2, <1>3, <1>4, <1>5 DEF IsStack, c

LEMMA AtHead ==
  ASSUME IsStack(todo), NEW op, At(op)
  PROVE  /\ todo # <<>> /\ Step = todo[1] /\ todo[1].op = op
         /\ StepOK(todo[1]) /\ 1 \in 1 .. Len(todo) /\ Len(todo) \in Nat
<1>1. todo # <<>> /\ Step.op = op
  BY DEF At, Step
<1>2. todo \in Seq(ToSet(todo))
  BY DEF IsStack
<1>3. Step = todo[1] /\ Len(todo) \in Nat /\ Len(todo) # 0
  BY <1>1, <1>2, HeadTailProperties, EmptySeq, LenProperties DEF Step
<1> QED
  BY <1>1, <1>3 DEF IsStack

-----------------------------------------------------------------------------
(* Steps of an operation keep the invariant.                               *)

\* No step is a record, and none waits for one.
LEMMA UncheckedStep ==
  ASSUME NEW st, NEW new, NEW k, Carries(st, new, 1, k),
         NEW done, NEW succeeded, Checked(st, done, succeeded),
         st[1].op # "cli", \A i \in 1 .. k : new[i].op # "recorded",
         NEW done1, NEW succeeded1
  PROVE  Checked(new, done1, succeeded1)
<1>1. ASSUME NEW i \in 1 .. Len(new) PROVE new[i].op # "recorded"
  <2>1. CASE i \in 1 .. k
    BY <2>1
  <2>2. CASE i \notin 1 .. k
    <3>1. i - k + 1 \in 2 .. Len(st) /\ new[i] = st[i - k + 1]
      BY <2>2 DEF Carries
    <3> QED
      BY <3>1, NothingChecked
  <2> QED
    BY <2>1, <2>2
<1> QED
  BY <1>1 DEF Checked

LEMMA PlainStep ==
  ASSUME SInv, todo # <<>>,
         todo[1].op \in OperationOps
           \ {"answer", "cli", "sync", "phase", "recorded"},
         NEW steps, IsStack(steps), todo' = steps \o Tail(todo),
         \A i \in 1 .. Len(steps) :
           /\ steps[i].op \in OperationOps \ {"answer", "recorded"}
           /\ steps[i].op \in {"ingest_boot", "ingest_booted"} => Projects
           /\ steps[i].op = "running" =>
                i = 1 /\ runtime'.ts[steps[i].arg] = "running",
         UNCHANGED <<paws, session>>,
         ProjectOK(runtime'), Recorded \subseteq Recorded',
         AnswersOK', Projects' = Projects
  PROVE  SInv'
<1>1. StepsOK(todo) /\ AnswersOK
  BY DEF SInv
<1>2. UNCHANGED <<task, logs, session>> /\ UNCHANGED <<context, handoff>>
  BY DEF paws
<1>3. Checked(todo', Recorded', last')
  <2>1. IsStack(todo) /\ Checked(todo, Recorded, last)
    BY <1>1 DEF StepsOK
  <2> DEFINE new == todo'
  <2>2. new = Called(steps, todo)
    BY DEF Called
  <2> HIDE DEF new
  <2>3. /\ Carries(todo, new, 1, Len(steps))
        /\ \A i \in 1 .. Len(steps) : new[i] = steps[i]
    BY <2>1, <2>2, CallCarries
  <2>4. \A i \in 1 .. Len(steps) : new[i].op # "recorded"
    BY <2>3
  <2>5. todo[1].op # "cli"
    OBVIOUS
  <2>6. Checked(new, Recorded', last')
    BY <2>1, <2>3, <2>4, <2>5, UncheckedStep
  <2> QED
    BY <2>6 DEF new
<1>4. \A t : ~Records(todo[1], t)
  BY DEF Records
<1>5. StepsOK(todo)' /\ (Projects /\ todo[1].op # "sync" => ~ (At("answer"))')
  BY <1>1, <1>2, <1>3, <1>4, InsideStep
<1>6. FilesOK' /\ LoggedIdle'
  BY <1>2 DEF SInv, FilesOK, LoggedIdle
<1>7. Projected'
  BY <1>5 DEF Projected
<1> QED
  BY <1>5, <1>6, <1>7 DEF SInv

LEMMA ReturnStep ==
  ASSUME SInv, todo # <<>>,
         todo[1].op \in OperationOps
           \ {"answer", "cli", "sync", "phase", "recorded"},
         Return, UNCHANGED <<paws, session>>,
         ProjectOK(runtime'), Recorded \subseteq Recorded',
         AnswersOK', Projects' = Projects
  PROVE  SInv'
<1> DEFINE steps == <<>>
<1>1. IsStack(steps) /\ \A i : i \notin 1 .. Len(steps)
  BY StackTuples
<1>2. todo' = steps \o Tail(todo)
  BY DEF Return, Call
<1> HIDE DEF steps
<1> QED
  BY <1>1, <1>2, PlainStep

\* An operation that gives up, or dies.
LEMMA GiveUpStep ==
  ASSUME SInv, NEW n \in 1 .. Len(todo), todo[n].op = "answer",
         todo' = AfterAnswer, result'.ok = FALSE,
         UNCHANGED <<runtime, paws, session>>, AnswersOK'
  PROVE  SInv'
<1>1. StepsOK(todo) /\ IsStack(todo) /\ Layered(todo) /\ Len(todo) \in Nat
  BY LenProperties DEF SInv, StepsOK, IsStack
<1>2. UNCHANGED <<runtime, task, logs, session>> /\ UNCHANGED <<context, handoff>>
  BY DEF paws
<1>3. \A i \in 1 .. Len(todo) : todo[i].op = "answer" => i = n
  BY <1>1, OneAnswer
<1>4. Carries(todo, todo', n, 0) /\ IsStack(todo')
  BY <1>1, <1>3, FirstAnswer
<1>5. /\ StepsOK(todo)'
      /\ \A i \in 1 .. Len(todo') : todo'[i].op \notin OperationOps
  BY <1>1, <1>2, <1>4, AnsweredStep
<1>6. ~ (At("answer"))'
  <2>1. todo' # <<>> => Head(todo') = todo'[1] /\ 1 \in 1 .. Len(todo')
    <3>1. todo' \in Seq(ToSet(todo'))
      BY <1>4 DEF IsStack
    <3> QED
      BY <3>1, EmptySeq, LenProperties, HeadTailProperties
  <2> QED
    BY <1>5, <2>1 DEF At, OperationOps
<1>7. FilesOK' /\ LoggedIdle' /\ Projected'
  BY <1>2, <1>6 DEF SInv, FilesOK, LoggedIdle, Projected
<1> QED
  BY <1>2, <1>5, <1>7 DEF SInv

\* A handler that returns early from a step of an operation.
LEMMA HandlerGivesUp ==
  ASSUME SInv, todo # <<>>, todo[1].op \in OperationOps,
         todo' = AfterAnswer, result'.ok = FALSE,
         UNCHANGED <<runtime, paws, session>>, AnswersOK'
  PROVE  SInv'
<1>1. IsStack(todo) /\ Layered(todo)
  BY DEF SInv, StepsOK
<1>2. 1 \in 1 .. Len(todo)
  <2>1. todo \in Seq(ToSet(todo))
    BY <1>1 DEF IsStack
  <2> QED
    BY <2>1, LenProperties, EmptySeq
<1>3. PICK n \in 1 .. Len(todo) : todo[n].op = "answer"
  BY <1>1, <1>2 DEF Layered
<1> QED
  BY <1>3, GiveUpStep

LEMMA FailedOK ==
  ASSUME AnswersOK, NEW op, NEW code \in Codes, result' = Failed(op, code),
         last' \in BOOLEAN, UNCHANGED session
  PROVE  AnswersOK' /\ result'.ok = FALSE
BY DEF AnswersOK, Failed

LEMMA GiveUpKeeps ==
  ASSUME SInv, todo # <<>>, todo[1].op \in OperationOps,
         NEW code \in Codes, GiveUp(code), UNCHANGED <<runtime, paws, session>>
  PROVE  SInv'
<1>1. AnswersOK' /\ result'.ok = FALSE
  BY FailedOK DEF SInv, GiveUp
<1> QED
  BY <1>1, HandlerGivesUp DEF GiveUp

LEMMA BridgeDiesKeeps ==
  ASSUME SInv, BridgeDies
  PROVE  SInv'
<1>1. PICK n \in DOMAIN todo : todo[n].op = "answer"
  BY DEF BridgeDies
<1>2. n \in 1 .. Len(todo)
  BY <1>1, LenProperties DEF SInv, StepsOK, IsStack
<1>3. PICK code \in {"bridge_invoke_failed", "internal_error"} :
        result' = Failed(result.op, code)
  BY DEF BridgeDies
<1>4. AnswersOK' /\ result'.ok = FALSE
  BY <1>3, FailedOK DEF SInv, BridgeDies, Codes, BlockingCodes
<1> QED
  BY <1>1, <1>2, <1>4, GiveUpStep DEF BridgeDies

LEMMA StepInFront ==
  ASSUME SInv, NEW op, At(op)
  PROVE  /\ todo # <<>> /\ Step = todo[1] /\ todo[1].op = op /\ StepOK(todo[1])
         /\ AnswersOK /\ ProjectOK(runtime) /\ Len(todo) \in Nat
         /\ 1 \in 1 .. Len(todo)
BY AtHead DEF SInv, StepsOK

\* The project and the answers stay as they were.
LEMMA SameKept ==
  ASSUME SInv
  PROVE  /\ UNCHANGED runtime =>
              ProjectOK(runtime') /\ Recorded \subseteq Recorded'
         /\ UNCHANGED <<result, session>> /\ last' \in BOOLEAN =>
              AnswersOK' /\ Projects' = Projects
BY DEF SInv, AnswersOK, Projects, Recorded, RecordedIn

\* Codes are added to those of the result.
LEMMA CodedKept ==
  ASSUME SInv, NEW codes, codes \subseteq Codes, result' = Coded(codes),
         UNCHANGED session, last' \in BOOLEAN
  PROVE  AnswersOK' /\ Projects' = Projects /\ result'.ok = result.ok
           /\ result'.op = result.op /\ result'.codes = result.codes \cup codes
<1>1. AnswersOK
  BY DEF SInv
<1>2. result' = [op |-> result.op, ok |-> result.ok,
                 codes |-> result.codes \cup codes]
  BY <1>1 DEF AnswersOK, Coded
<1> QED
  BY <1>1, <1>2 DEF AnswersOK, Projects

\* A new verdict, or new codes, of the same operation.
LEMMA ResultKept ==
  ASSUME SInv, UNCHANGED session, last' \in BOOLEAN,
         NEW ok \in BOOLEAN, NEW codes, codes \subseteq Codes,
         result' = [op |-> result.op, ok |-> ok, codes |-> codes]
  PROVE  AnswersOK' /\ Projects' = Projects
<1>1. session \in [blocked : BOOLEAN, phaseOk : BOOLEAN]
  BY DEF SInv, AnswersOK
<1>2. result'.op = result.op /\ result'.ok \in BOOLEAN /\ result'.codes = codes
  OBVIOUS
<1>3. result' = [op |-> result'.op, ok |-> result'.ok, codes |-> result'.codes]
  OBVIOUS
<1> QED
  BY <1>1, <1>2, <1>3 DEF AnswersOK, Projects

\* Steps an operation may push whatever it has answered so far.
Pushable == OperationOps \
  {"answer", "recorded", "ingest_boot", "ingest_booted", "running"}

LEMMA PushStep ==
  ASSUME SInv, todo # <<>>,
         todo[1].op \in OperationOps
           \ {"answer", "cli", "sync", "phase", "recorded"},
         NEW steps, IsStack(steps), Call(steps),
         \A i \in 1 .. Len(steps) : steps[i].op \in Pushable,
         UNCHANGED <<paws, session>>,
         ProjectOK(runtime'), Recorded \subseteq Recorded',
         AnswersOK', Projects' = Projects
  PROVE  SInv'
<1>1. \A i \in 1 .. Len(steps) :
         /\ steps[i].op \in OperationOps \ {"answer", "recorded"}
         /\ steps[i].op \notin {"ingest_boot", "ingest_booted", "running"}
  BY DEF Pushable
<1>2. todo' = steps \o Tail(todo)
  BY DEF Call
<1> QED
  BY <1>1, <1>2, PlainStep

LEMMA PushOne ==
  ASSUME SInv, todo # <<>>,
         todo[1].op \in OperationOps
           \ {"answer", "cli", "sync", "phase", "recorded"},
         NEW a, StepOK(a), a.op \in Pushable, Call(<<a>>),
         UNCHANGED <<paws, session>>,
         ProjectOK(runtime'), Recorded \subseteq Recorded',
         AnswersOK', Projects' = Projects
  PROVE  SInv'
<1> DEFINE steps == <<a>>
<1>1. IsStack(steps) /\ Len(steps) = 1 /\ steps[1] = a /\ Call(steps)
  BY StackTuples
<1> HIDE DEF steps
<1>2. \A i \in 1 .. Len(steps) : steps[i].op \in Pushable
  BY <1>1
<1> QED
  BY <1>1, <1>2, PushStep

LEMMA PushTwo ==
  ASSUME SInv, todo # <<>>,
         todo[1].op \in OperationOps
           \ {"answer", "cli", "sync", "phase", "recorded"},
         NEW a, StepOK(a), a.op \in Pushable,
         NEW b, StepOK(b), b.op \in Pushable, Call(<<a, b>>),
         UNCHANGED <<paws, session>>,
         ProjectOK(runtime'), Recorded \subseteq Recorded',
         AnswersOK', Projects' = Projects
  PROVE  SInv'
<1> DEFINE steps == <<a, b>>
<1>1. /\ IsStack(steps) /\ Len(steps) = 2 /\ steps[1] = a /\ steps[2] = b
      /\ Call(steps)
  BY StackTuples
<1> HIDE DEF steps
<1>2. \A i \in 1 .. Len(steps) : steps[i].op \in Pushable
  BY <1>1
<1> QED
  BY <1>1, <1>2, PushStep

\* The steps the handlers push.
LEMMA PlainOK ==
  ASSUME NEW op \in {"boot_init", "boot_inited", "boot_show", "ingest_booted",
                     "require", "artifacts", "write_progress", "booted",
                     "end"}
  PROVE  StepOK(Plain(op)) /\ Plain(op).op = op
BY DEF StepOK, Plain

LEMMA CommandOK ==
  ASSUME NEW name \in CliNames, NEW arg
  PROVE  /\ StepOK(Cli(name, arg)) /\ StepOK(Try(name, arg))
         /\ Cli(name, arg).op = "cli" /\ Try(name, arg).op = "cli"
         /\ Cli(name, arg).name = name /\ Cli(name, arg).arg = arg
         /\ Cli(name, arg).wanted = TRUE
BY DEF StepOK, Cli, Try, Command

LEMMA RunOK ==
  ASSUME NEW wanted \in BOOLEAN
  PROVE  StepOK(Run(wanted)) /\ Run(wanted).op = "run"
BY DEF StepOK, Run, Command

LEMMA BootInitKeeps ==
  ASSUME SInv, BootInit
  PROVE  SInv'
<1>1. /\ todo # <<>> /\ todo[1].op = "boot_init" /\ AnswersOK
  BY StepInFront DEF BootInit
<1>2. UNCHANGED <<runtime, paws, last, result, session>>
  BY DEF BootInit
<1>3. /\ ProjectOK(runtime') /\ Recorded \subseteq Recorded'
      /\ AnswersOK' /\ Projects' = Projects
  BY <1>1, <1>2, SameKept DEF AnswersOK
<1>4. CASE Return
  BY <1>1, <1>2, <1>3, <1>4, ReturnStep DEF OperationOps
<1>5. CASE Call(<<Cli("init", NoValue), Plain("boot_inited")>>)
  <2>1. StepOK(Cli("init", NoValue)) /\ Cli("init", NoValue).op = "cli"
    BY CommandOK DEF CliNames
  <2>2. StepOK(Plain("boot_inited")) /\ Plain("boot_inited").op = "boot_inited"
    BY PlainOK
  <2> QED
    BY <1>1, <1>2, <1>3, <1>5, <2>1, <2>2, PushTwo DEF OperationOps, Pushable
<1> QED
  BY <1>4, <1>5 DEF BootInit

LEMMA BootInitedKeeps ==
  ASSUME SInv, BootInited
  PROVE  SInv'
<1>1. /\ todo # <<>> /\ todo[1].op = "boot_inited" /\ AnswersOK
  BY StepInFront DEF BootInited
<1>2. UNCHANGED <<runtime, paws, session>>
  BY DEF BootInited
<1>3. CASE Return /\ UNCHANGED <<last, result>>
  BY <1>1, <1>2, <1>3, SameKept, ReturnStep DEF OperationOps, AnswersOK
<1>4. CASE GiveUp("bootstrap_failed")
  BY <1>1, <1>2, <1>4, GiveUpKeeps DEF OperationOps, Codes, BlockingCodes
<1> QED
  BY <1>3, <1>4 DEF BootInited

LEMMA RequireTransitionKeeps ==
  ASSUME SInv, RequireTransition
  PROVE  SInv'
<1>1. /\ todo # <<>> /\ todo[1].op = "require" /\ AnswersOK
  BY StepInFront DEF RequireTransition
<1>2. UNCHANGED <<runtime, paws, session>>
  BY DEF RequireTransition
<1>3. CASE Return /\ UNCHANGED <<last, result>>
  BY <1>1, <1>2, <1>3, SameKept, ReturnStep DEF OperationOps, AnswersOK
<1>4. CASE GiveUp("state_transition_denied")
  BY <1>1, <1>2, <1>4, GiveUpKeeps DEF OperationOps, Codes, BlockingCodes
<1> QED
  BY <1>3, <1>4 DEF RequireTransition

LEMMA BootShowKeeps ==
  ASSUME SInv, BootShow
  PROVE  SInv'
<1>1. /\ todo # <<>> /\ todo[1].op = "boot_show" /\ AnswersOK
  BY StepInFront DEF BootShow
<1>2. UNCHANGED <<runtime, paws, last, result, session>>
  BY DEF BootShow
<1>3. /\ ProjectOK(runtime') /\ Recorded \subseteq Recorded'
      /\ AnswersOK' /\ Projects' = Projects
  BY <1>1, <1>2, SameKept DEF AnswersOK
<1>4. CASE Return
  BY <1>1, <1>2, <1>3, <1>4, ReturnStep DEF OperationOps
<1>5. CASE Call(<<Try("activate", NoValue)>>)
  <2>1. StepOK(Try("activate", NoValue)) /\ Try("activate", NoValue).op = "cli"
    BY CommandOK DEF CliNames
  <2> QED
    BY <1>1, <1>2, <1>3, <1>5, <2>1, PushOne DEF OperationOps, Pushable
<1> QED
  BY <1>4, <1>5 DEF BootShow

LEMMA BootDoctorKeeps ==
  ASSUME SInv, BootDoctor
  PROVE  SInv'
<1>1. /\ todo # <<>> /\ todo[1].op = "boot_doctor" /\ AnswersOK
      /\ Step.codes \subseteq BlockingCodes
  BY StepInFront DEF BootDoctor, StepOK
<1>2. UNCHANGED <<runtime, paws, last, session>>
  BY DEF BootDoctor
<1>3. PICK doctor \in DoctorAnswers, st \in StatusAnswers :
        /\ result' = Coded(Step.codes \cup ({doctor} \ {"cli_ok"}))
        /\ IF doctor = "cli_ok" /\ StateRead(st) = "created"
             THEN Call(<<Try("transition", "initialized")>>)
             ELSE Return
  BY DEF BootDoctor
<1>4. /\ ProjectOK(runtime') /\ Recorded \subseteq Recorded'
      /\ AnswersOK' /\ Projects' = Projects
  <2>1. Step.codes \cup ({doctor} \ {"cli_ok"}) \subseteq Codes
    BY <1>1 DEF Codes, BlockingCodes, DoctorAnswers
  <2>2. AnswersOK' /\ Projects' = Projects
    BY <1>1, <1>2, <1>3, <2>1, CodedKept DEF AnswersOK
  <2> QED
    BY <1>2, <2>2, SameKept
<1>5. CASE Return
  BY <1>1, <1>2, <1>4, <1>5, ReturnStep DEF OperationOps
<1>6. CASE Call(<<Try("transition", "initialized")>>)
  <2>1. /\ StepOK(Try("transition", "initialized"))
        /\ Try("transition", "initialized").op = "cli"
    BY CommandOK DEF CliNames
  <2> QED
    BY <1>1, <1>2, <1>4, <1>6, <2>1, PushOne DEF OperationOps, Pushable
<1> QED
  BY <1>3, <1>5, <1>6

\* The steps of a bootstrap.
LEMMA BootstrapStack ==
  ASSUME NEW codes, codes \subseteq BlockingCodes,
         NEW steps, steps = BootstrapSteps(codes)
  PROVE  /\ IsStack(steps) /\ Len(steps) = 4
         /\ \A i \in 1 .. 4 :
              steps[i].op \in {"boot_init", "boot_show", "boot_doctor", "sync"}
         /\ steps[4] = Sync(TRUE)
<1>1. /\ StepOK(Plain("boot_init")) /\ StepOK(Plain("boot_show"))
      /\ StepOK([op |-> "boot_doctor", codes |-> codes]) /\ StepOK(Sync(TRUE))
  BY PlainOK DEF StepOK, Sync
<1>2. IsStack(steps) /\ Len(steps) = 4
  BY <1>1, StackTuples DEF BootstrapSteps
<1>3. \A i \in 1 .. 4 :
        steps[i].op \in {"boot_init", "boot_show", "boot_doctor", "sync"}
  BY DEF BootstrapSteps, Plain, Sync
<1> QED
  BY <1>2, <1>3 DEF BootstrapSteps

LEMMA IngestBootKeeps ==
  ASSUME SInv, IngestBoot
  PROVE  SInv'
<1>1. /\ todo # <<>> /\ todo[1].op = "ingest_boot" /\ AnswersOK
      /\ Step.codes \subseteq BlockingCodes /\ 1 \in 1 .. Len(todo)
  BY StepInFront DEF IngestBoot, StepOK
<1>2. UNCHANGED <<runtime, paws, last, result, session>>
  BY DEF IngestBoot
<1>3. /\ ProjectOK(runtime') /\ Recorded \subseteq Recorded'
      /\ AnswersOK' /\ Projects' = Projects
  BY <1>1, <1>2, SameKept DEF AnswersOK
<1>4. CASE Return
  BY <1>1, <1>2, <1>3, <1>4, ReturnStep DEF OperationOps
<1>5. CASE Call(BootstrapSteps(Step.codes) \o <<Plain("ingest_booted")>>)
  <2> DEFINE boot == BootstrapSteps(Step.codes)
             after == <<Plain("ingest_booted")>>
             steps == boot \o after
  <2>1. /\ IsStack(boot) /\ Len(boot) = 4
        /\ \A i \in 1 .. 4 :
             boot[i].op \in {"boot_init", "boot_show", "boot_doctor", "sync"}
    BY <1>1, BootstrapStack
  <2>2. IsStack(after) /\ Len(after) = 1 /\ after[1].op = "ingest_booted"
    BY StackTuples, PlainOK
  <2>3. todo' = steps \o Tail(todo)
    BY <1>5 DEF Call
  <2> HIDE DEF boot, after
  <2>4. /\ IsStack(steps)
        /\ \A i \in 1 .. Len(steps) :
             steps[i].op \in {"boot_init", "boot_show", "boot_doctor", "sync",
                              "ingest_booted"}
    <3>1. /\ IsStack(steps) /\ Len(steps) = Len(boot) + Len(after)
          /\ \A i \in 1 .. Len(steps) :
               \/ i \in 1 .. Len(boot) /\ steps[i] = boot[i]
               \/ /\ i - Len(boot) \in 1 .. Len(after)
                  /\ steps[i] = after[i - Len(boot)]
      BY <2>1, <2>2, StackConcat
    <3> HIDE DEF steps
    <3> QED
      BY <2>1, <2>2, <3>1
  <2> HIDE DEF steps
  <2>5. Projects
    BY <1>1 DEF SInv, StepsOK, Synced
  <2>6. \A i \in 1 .. Len(steps) :
           /\ steps[i].op \in OperationOps \ {"answer", "recorded"}
           /\ steps[i].op # "running"
    BY <2>4 DEF OperationOps
  <2> QED
    BY <1>1, <1>2, <1>3, <2>3, <2>4, <2>5, <2>6, PlainStep DEF OperationOps
<1> QED
  BY <1>4, <1>5 DEF IngestBoot

LEMMA IngestBootedKeeps ==
  ASSUME SInv, IngestBooted
  PROVE  SInv'
<1>1. /\ todo # <<>> /\ todo[1].op = "ingest_booted" /\ AnswersOK
      /\ 1 \in 1 .. Len(todo)
  BY StepInFront DEF IngestBooted
<1>2. UNCHANGED <<runtime, paws, last, session>>
  BY DEF IngestBooted
<1>3. CASE Return /\ result' = Started("ingest_master_prompt")
  <2>1. Projects
    BY <1>1 DEF SInv, StepsOK, Synced
  <2>2. AnswersOK' /\ Projects'
    BY <1>1, <1>2, <1>3 DEF AnswersOK, Started, Projects, Projecting
  <2> QED
    BY <1>1, <1>2, <1>3, <2>1, <2>2, SameKept, ReturnStep DEF OperationOps
<1>4. CASE /\ result' = [result EXCEPT !.op = "bootstrap", !.ok = FALSE]
           /\ todo' = AfterAnswer
  <2>1. AnswersOK' /\ result'.ok = FALSE
    BY <1>1, <1>2, <1>4 DEF AnswersOK
  <2> QED
    BY <1>1, <1>2, <1>4, <2>1, HandlerGivesUp DEF OperationOps
<1> QED
  BY <1>3, <1>4 DEF IngestBooted

LEMMA TargetsLength ==
  ASSUME NEW state, NEW phase
  PROVE  Len(IngestTargets(state, phase)) \in Nat
<1> DEFINE States == {"executing", "ready", "planning"}
<1> DEFINE toPlanning ==
      IF state = "awaiting_approval" THEN <<"executing", "ready", "planning">>
      ELSE IF state \in {NoValue, "created", "initialized"} THEN <<"planning">>
      ELSE <<>>
    from == IF toPlanning = <<>> THEN state ELSE "planning"
    onwards == IF phase \notin ExecutingPhases THEN <<>>
               ELSE IF from = "planning" THEN <<"ready", "executing">>
               ELSE IF from = "ready" THEN <<"executing">> ELSE <<>>
<1>1. /\ <<>> \in Seq(States)
      /\ <<"planning">> \in Seq(States) /\ <<"executing">> \in Seq(States)
      /\ <<"ready", "executing">> \in Seq(States)
      /\ <<"executing", "ready", "planning">> \in Seq(States)
  <2>1. ASSUME NEW S, NEW a \in S, NEW b \in S, NEW c \in S
        PROVE  /\ <<>> \in Seq(S) /\ <<a>> \in Seq(S)
               /\ <<a, b>> \in Seq(S) /\ <<a, b, c>> \in Seq(S)
    OBVIOUS
  <2> QED
    BY <2>1
<1>2. toPlanning \in Seq(States)
  BY <1>1, Zenon
<1> HIDE DEF from, States
<1>3. onwards \in Seq(States)
  BY <1>1, Zenon
<1> USE DEF from
<1>4. IngestTargets(state, phase) = toPlanning \o onwards
  BY DEF IngestTargets
<1> HIDE DEF toPlanning, onwards
<1> QED
  BY <1>2, <1>3, <1>4, ConcatProperties, LenProperties

LEMMA IngestStateKeeps ==
  ASSUME SInv, IngestState
  PROVE  SInv'
<1>1. /\ todo # <<>> /\ todo[1].op = "ingest_state" /\ AnswersOK
  BY StepInFront DEF IngestState
<1>2. UNCHANGED <<runtime, paws, last, result, session>>
  BY DEF IngestState
<1>3. /\ ProjectOK(runtime') /\ Recorded \subseteq Recorded'
      /\ AnswersOK' /\ Projects' = Projects
  BY <1>1, <1>2, SameKept DEF AnswersOK
<1>4. PICK st \in StatusAnswers :
        Call([i \in 1 .. 2 * Len(IngestTargets(StateRead(st), Step.phase)) |->
                IF i % 2 = 1
                  THEN Cli("transition",
                           IngestTargets(StateRead(st), Step.phase)[(i + 1) \div 2])
                  ELSE Plain("require")])
  BY DEF IngestState
<1> DEFINE targets == IngestTargets(StateRead(st), Step.phase)
           n == 2 * Len(targets)
           steps == [i \in 1 .. n |->
                       IF i % 2 = 1 THEN Cli("transition", targets[(i + 1) \div 2])
                       ELSE Plain("require")]
<1>5. n \in Nat /\ Call(steps)
  BY <1>4, TargetsLength
<1> HIDE DEF n
<1>6. /\ \A a : StepOK(Cli("transition", a)) /\ Cli("transition", a).op = "cli"
      /\ StepOK(Plain("require")) /\ Plain("require").op = "require"
  <2>1. \A a : StepOK(Cli("transition", a)) /\ Cli("transition", a).op = "cli"
    BY CommandOK DEF CliNames
  <2>2. StepOK(Plain("require")) /\ Plain("require").op = "require"
    BY PlainOK
  <2> QED
    BY <2>1, <2>2
<1>7. \A i \in 1 .. n : steps[i].op \in {"cli", "require"} /\ StepOK(steps[i])
  BY <1>6
<1>8. Len(steps) = n /\ steps \in Seq(ToSet(steps))
  <2>1. DOMAIN steps = 1 .. n
    OBVIOUS
  <2> HIDE DEF steps
  <2>2. \A i \in 1 .. n : steps[i] \in ToSet(steps)
    BY <2>1 DEF ToSet
  <2>3. steps = [i \in 1 .. n |-> steps[i]]
    BY <2>1 DEF steps
  <2>4. steps \in [1 .. n -> ToSet(steps)]
    BY <2>2, <2>3
  <2> QED
    BY <1>5, <2>4, LenProperties, SeqDef
<1> HIDE DEF steps
<1>9. IsStack(steps) /\ \A i \in 1 .. Len(steps) : steps[i].op \in Pushable
  BY <1>7, <1>8 DEF IsStack, Pushable, OperationOps
<1> QED
  BY <1>1, <1>2, <1>3, <1>5, <1>9, PushStep DEF OperationOps

LEMMA CheckGateKeeps ==
  ASSUME SInv, CheckGate
  PROVE  SInv'
<1>1. /\ todo # <<>> /\ todo[1].op = "gate" /\ AnswersOK
      /\ Step.codes \subseteq BlockingCodes
  BY StepInFront DEF CheckGate, StepOK
<1>2. UNCHANGED <<runtime, paws, last, session>> /\ Return
  BY DEF CheckGate
<1>3. PICK codes : /\ codes \subseteq Codes
                   /\ result' = [Coded(codes) EXCEPT !.ok = Blocking(codes) = {}]
  <2>1. PICK doctor \in DoctorAnswers, sh \in ShowAnswers,
             ui \in BOOLEAN, ready \in BOOLEAN :
          LET active == IF sh = "cli_ok" THEN ActiveTask ELSE NoValue
              codes ==
                Step.codes \cup ({doctor} \ {"cli_ok"})
                  \cup {c \in {"design_gate_blocked"} :
                          ui /\ DesignBlocks(active, ready)}
                  \cup {c \in {"state_ineligible"} :
                          sh = "cli_ok" /\ Ineligible(StateParsed)}
          IN  result' = [Coded(codes) EXCEPT !.ok = Blocking(codes) = {}]
    BY DEF CheckGate
  <2> DEFINE active == IF sh = "cli_ok" THEN ActiveTask ELSE NoValue
             codes ==
               Step.codes \cup ({doctor} \ {"cli_ok"})
                 \cup {c \in {"design_gate_blocked"} :
                         ui /\ DesignBlocks(active, ready)}
                 \cup {c \in {"state_ineligible"} :
                         sh = "cli_ok" /\ Ineligible(StateParsed)}
  <2>2. codes \subseteq Codes
    BY <1>1 DEF DoctorAnswers, Codes, BlockingCodes
  <2>3. result' = [Coded(codes) EXCEPT !.ok = Blocking(codes) = {}]
    BY <2>1
  <2> HIDE DEF codes
  <2> QED
    BY <2>2, <2>3
<1>4. result' = [op |-> result.op, ok |-> Blocking(codes) = {},
                 codes |-> result.codes \cup codes]
  BY <1>1, <1>3 DEF AnswersOK, Coded
<1>5. AnswersOK' /\ Projects' = Projects
  <2>1. result.codes \cup codes \subseteq Codes /\ last' \in BOOLEAN
    BY <1>1, <1>2, <1>3 DEF AnswersOK
  <2> DEFINE ok == Blocking(codes) = {}
  <2>2. ok \in BOOLEAN
    OBVIOUS
  <2> HIDE DEF ok
  <2>3. result' = [op |-> result.op, ok |-> ok,
                   codes |-> result.codes \cup codes]
    BY <1>4 DEF ok
  <2> QED
    BY <1>2, <2>1, <2>2, <2>3, ResultKept
<1> QED
  BY <1>1, <1>2, <1>5, SameKept, ReturnStep DEF OperationOps

LEMMA CheckArtifactsKeeps ==
  ASSUME SInv, CheckArtifacts
  PROVE  SInv'
<1>1. /\ todo # <<>> /\ todo[1].op = "artifacts" /\ AnswersOK
  BY StepInFront DEF CheckArtifacts
<1>2. UNCHANGED <<runtime, paws, last, session>>
  BY DEF CheckArtifacts
<1>3. PICK codes : /\ codes \subseteq Codes /\ result' = Coded(codes)
                   /\ \/ Call(<<Try("complete", Handoff)>>) \/ Call(<<>>)
  <2>1. PICK doctor \in DoctorAnswers, artifacts \in ArtifactAnswers,
             recent \in BOOLEAN :
          LET missed == {doctor, artifacts} \ {"cli_ok"} IN
          /\ result' = Coded(missed \cup
               IF HandoffFresh(handoff, recent) THEN {} ELSE {"handoff_stale"})
          /\ Call(IF missed = {} THEN <<Try("complete", Handoff)>> ELSE <<>>)
    BY DEF CheckArtifacts
  <2> DEFINE missed == {doctor, artifacts} \ {"cli_ok"}
             codes == missed \cup
               IF HandoffFresh(handoff, recent) THEN {} ELSE {"handoff_stale"}
  <2>2. codes \subseteq Codes
    BY DEF DoctorAnswers, ArtifactAnswers, Codes, BlockingCodes
  <2>3. /\ result' = Coded(codes)
        /\ \/ Call(<<Try("complete", Handoff)>>) \/ Call(<<>>)
    BY <2>1
  <2> HIDE DEF codes
  <2> QED
    BY <2>2, <2>3
<1>4. /\ ProjectOK(runtime') /\ Recorded \subseteq Recorded'
      /\ AnswersOK' /\ Projects' = Projects
  BY <1>1, <1>2, <1>3, CodedKept, SameKept DEF AnswersOK
<1>5. CASE Call(<<>>)
  BY <1>1, <1>2, <1>4, <1>5, ReturnStep DEF Return, OperationOps
<1>6. CASE Call(<<Try("complete", Handoff)>>)
  <2>1. StepOK(Try("complete", Handoff)) /\ Try("complete", Handoff).op = "cli"
    BY CommandOK DEF CliNames
  <2> QED
    BY <1>1, <1>2, <1>4, <1>6, <2>1, PushOne DEF OperationOps, Pushable
<1> QED
  BY <1>3, <1>5, <1>6

LEMMA RunAgainKeeps ==
  ASSUME SInv, RunAgain
  PROVE  SInv'
<1>1. /\ todo # <<>> /\ todo[1].op = "iterate" /\ AnswersOK
  BY StepInFront DEF RunAgain
<1>2. UNCHANGED <<runtime, paws, session>>
  BY DEF RunAgain
<1>3. CASE /\ Return /\ last' = TRUE
           /\ result' = IF last THEN [result EXCEPT !.ok = TRUE]
                        ELSE [Coded({"cli_failed"}) EXCEPT !.ok = ~StrictRun]
  <2>1. AnswersOK' /\ Projects' = Projects
    <3>1. CASE last
      <4>1. result' = [op |-> result.op, ok |-> TRUE, codes |-> result.codes]
        BY <1>1, <1>3, <3>1 DEF AnswersOK
      <4> QED
        BY <1>1, <1>2, <1>3, <4>1, ResultKept DEF AnswersOK
    <3>2. CASE ~last
      <4>1. result' = [op |-> result.op, ok |-> ~StrictRun,
                       codes |-> result.codes \cup {"cli_failed"}]
        BY <1>1, <1>3, <3>2 DEF AnswersOK, Coded
      <4>2. result.codes \cup {"cli_failed"} \subseteq Codes
        BY <1>1 DEF AnswersOK, Codes, BlockingCodes
      <4> DEFINE ok == ~StrictRun
      <4>3. ok \in BOOLEAN
        BY BridgeAssumption
      <4>4. result' = [op |-> result.op, ok |-> ok,
                       codes |-> result.codes \cup {"cli_failed"}]
        BY <4>1
      <4> HIDE DEF ok
      <4> QED
        BY <1>2, <1>3, <4>2, <4>3, <4>4, ResultKept
    <3> QED
      BY <3>1, <3>2
  <2> QED
    BY <1>1, <1>2, <1>3, <2>1, SameKept, ReturnStep DEF OperationOps
<1>4. CASE Call(<<Run(TRUE), Iterate(Step.left - 1)>>) /\ UNCHANGED <<last, result>>
  <2>1. /\ StepOK(Run(TRUE)) /\ Run(TRUE).op = "run"
        /\ StepOK(Iterate(Step.left - 1)) /\ Iterate(Step.left - 1).op = "iterate"
    BY RunOK DEF Iterate, StepOK
  <2>2. /\ ProjectOK(runtime') /\ Recorded \subseteq Recorded'
        /\ AnswersOK' /\ Projects' = Projects
    BY <1>1, <1>2, <1>4, SameKept DEF AnswersOK
  <2> QED
    BY <1>1, <1>2, <1>4, <2>1, <2>2, PushTwo DEF OperationOps, Pushable
<1> QED
  BY <1>3, <1>4 DEF RunAgain

-----------------------------------------------------------------------------
(* Commands, and runs of the automation.                                   *)

\* A command is over, or is started once more.
LEMMA CommandStep ==
  ASSUME SInv, todo # <<>>, todo[1].op = "cli",
         NEW steps, IsStack(steps), Call(steps),
         \/ Len(steps) = 0
         \/ /\ Len(steps) = 1 /\ steps[1].op = "cli"
            /\ steps[1].name = todo[1].name /\ steps[1].arg = todo[1].arg
            /\ steps[1].wanted = todo[1].wanted,
         UNCHANGED <<paws, result, session>>, last' \in BOOLEAN,
         ProjectOK(runtime'), Recorded \subseteq Recorded',
         Len(steps) = 0 /\ last' /\ todo[1].wanted = TRUE
           /\ todo[1].name = "complete" => todo[1].arg \in Recorded'
  PROVE  SInv'
<1>1. StepsOK(todo) /\ AnswersOK
  BY DEF SInv
<1>2. UNCHANGED <<task, logs, session>> /\ UNCHANGED <<context, handoff>>
  BY DEF paws
<1>3. todo' = steps \o Tail(todo)
  BY DEF Call
<1>4. \A i \in 1 .. Len(steps) : steps[i].op = "cli"
  OBVIOUS
<1>5. AnswersOK' /\ Projects' = Projects
  BY <1>1 DEF AnswersOK, Projects
<1>6. Checked(todo', Recorded', last')
  <2>1. IsStack(todo) /\ Checked(todo, Recorded, last)
    BY <1>1 DEF StepsOK
  <2> DEFINE new == todo'
  <2>2. new = Called(steps, todo)
    BY <1>3 DEF Called
  <2> HIDE DEF new
  <2>3. /\ Carries(todo, new, 1, Len(steps))
        /\ \A i \in 1 .. Len(steps) : new[i] = steps[i]
    BY <2>1, <2>2, CallCarries
  <2>4. ASSUME NEW i \in 1 .. Len(new), new[i].op = "recorded"
        PROVE  \/ i = 1 /\ (last' => new[i].task \in Recorded')
               \/ /\ i = 2
                  /\ new[1].op = "cli" /\ new[1].name = "complete"
                  /\ new[1].arg = new[i].task /\ new[1].wanted = TRUE
    <3>1. i \notin 1 .. Len(steps)
      BY <1>4, <2>3, <2>4
    <3>2. /\ i - Len(steps) + 1 \in 1 .. Len(todo)
          /\ i - Len(steps) + 1 # 1
          /\ new[i] = todo[i - Len(steps) + 1]
      BY <2>3, <3>1 DEF Carries
    <3>3. /\ i - Len(steps) + 1 = 2
          /\ todo[1].name = "complete" /\ todo[1].wanted = TRUE
          /\ todo[1].arg = new[i].task
      BY <2>1, <2>4, <3>2 DEF Checked
    <3>4. CASE Len(steps) = 0
      BY <3>3, <3>4
    <3>5. CASE Len(steps) = 1
      <4>1. i = 2
        BY <3>3, <3>5
      <4>2. new[1] = steps[1]
        BY <2>3, <3>5
      <4> QED
        BY <3>3, <3>5, <4>1, <4>2
    <3> QED
      BY <3>4, <3>5
  <2>5. Checked(new, Recorded', last')
    BY <2>4 DEF Checked
  <2> QED
    BY <2>5 DEF new
<1>7. \A t : ~Records(todo[1], t)
  BY DEF Records
<1>8. /\ todo[1].op \in OperationOps \ {"answer"}
      /\ \A i \in 1 .. Len(steps) :
           /\ steps[i].op \in OperationOps \ {"answer"}
           /\ steps[i].op \notin {"ingest_boot", "ingest_booted", "running"}
  BY <1>4 DEF OperationOps
<1>9. StepsOK(todo)' /\ (Projects => ~ (At("answer"))')
  BY <1>1, <1>2, <1>3, <1>5, <1>6, <1>7, <1>8, InsideStep
<1>10. FilesOK' /\ LoggedIdle' /\ Projected'
  BY <1>2, <1>5, <1>9 DEF SInv, FilesOK, LoggedIdle, Projected
<1> QED
  BY <1>5, <1>9, <1>10 DEF SInv

LEMMA EndsLast ==
  ASSUME NEW succeeded \in BOOLEAN, Ends(succeeded), Step.wanted \in BOOLEAN
  PROVE  Return /\ last' \in BOOLEAN /\ (~succeeded /\ Step.wanted => ~last')
BY DEF Ends

\* What is started once more is the same command, one retry later.
LEMMA AgainSteps ==
  ASSUME NEW limit, Again(limit), StepOK(Step), Step.op \in {"cli", "run"}
  PROVE  \/ Ends(FALSE)
         \/ /\ UNCHANGED last
            /\ \E a : /\ StepOK(a) /\ Call(<<a>>)
                      /\ a.op = Step.op /\ a.name = Step.name
                      /\ a.arg = Step.arg /\ a.wanted = Step.wanted
<1>1. CASE Call(<<[Step EXCEPT !.retries = @ + 1]>>) /\ UNCHANGED last
  <2> DEFINE a == [Step EXCEPT !.retries = @ + 1]
  <2>1. a = [op |-> Step.op, name |-> Step.name, arg |-> Step.arg,
             wanted |-> Step.wanted, retries |-> Step.retries + 1]
    BY DEF StepOK
  <2>2. Call(<<a>>)
    BY <1>1
  <2> HIDE DEF a
  <2>3. StepOK(a) /\ a.op = Step.op /\ a.name = Step.name /\ a.arg = Step.arg
        /\ a.wanted = Step.wanted
    BY <2>1 DEF StepOK
  <2> QED
    BY <1>1, <2>2, <2>3
<1>2. CASE Ends(FALSE)
  BY <1>2
<1> QED
  BY <1>1, <1>2 DEF Again

\* A command that failed, or whose answer nobody wants.
LEMMA CommandEnds ==
  ASSUME SInv, At("cli"), NEW succeeded \in BOOLEAN, Ends(succeeded),
         UNCHANGED <<paws, result, session>>,
         ProjectOK(runtime'), Recorded \subseteq Recorded',
         succeeded /\ todo[1].name = "complete" => todo[1].arg \in Recorded'
  PROVE  SInv'
<1>1. /\ todo # <<>> /\ todo[1].op = "cli" /\ Step = todo[1]
      /\ todo[1].wanted \in BOOLEAN
  BY StepInFront DEF StepOK
<1>2. /\ Return /\ last' \in BOOLEAN
      /\ ~succeeded /\ todo[1].wanted = TRUE => ~last'
  BY <1>1, EndsLast
<1> DEFINE steps == <<>>
<1>3. IsStack(steps) /\ Len(steps) = 0 /\ Call(steps)
  BY <1>2, StackTuples DEF Return
<1> HIDE DEF steps
<1> QED
  BY <1>1, <1>2, <1>3, CommandStep

LEMMA CommandAgain ==
  ASSUME SInv, At("cli"), NEW limit, Again(limit),
         UNCHANGED <<paws, result, session>>,
         ProjectOK(runtime'), Recorded \subseteq Recorded'
  PROVE  SInv'
<1>1. /\ todo # <<>> /\ todo[1].op = "cli" /\ Step = todo[1]
      /\ StepOK(todo[1]) /\ AnswersOK
  BY StepInFront
<1>2. CASE Ends(FALSE)
  <2>1. ASSUME NEW s \in BOOLEAN, ~s, Ends(s) PROVE SInv'
    BY <2>1, CommandEnds
  <2> QED
    BY <1>2, <2>1
<1>3. CASE /\ UNCHANGED last
           /\ \E a : /\ StepOK(a) /\ Call(<<a>>)
                     /\ a.op = Step.op /\ a.name = Step.name
                     /\ a.arg = Step.arg /\ a.wanted = Step.wanted
  <2>1. PICK a : /\ StepOK(a) /\ Call(<<a>>)
                 /\ a.op = Step.op /\ a.name = Step.name
                 /\ a.arg = Step.arg /\ a.wanted = Step.wanted
    BY <1>3
  <2> DEFINE steps == <<a>>
  <2>2. IsStack(steps) /\ Len(steps) = 1 /\ steps[1] = a /\ Call(steps)
    BY <2>1, StackTuples
  <2> HIDE DEF steps
  <2>3. last' \in BOOLEAN
    BY <1>1, <1>3 DEF AnswersOK
  <2>4. /\ Len(steps) = 1 /\ steps[1].op = "cli"
        /\ steps[1].name = todo[1].name /\ steps[1].arg = todo[1].arg
        /\ steps[1].wanted = todo[1].wanted
    BY <1>1, <2>1, <2>2
  <2>5. ~ (Len(steps) = 0)
    BY <2>4
  <2> QED
    BY <1>1, <2>2, <2>3, <2>4, <2>5, CommandStep
<1> QED
  BY <1>1, <1>2, <1>3, AgainSteps

LEMMA CommandCompletesKeeps ==
  ASSUME SInv, CommandCompletes
  PROVE  SInv'
<1>1. /\ todo # <<>> /\ todo[1].op = "cli" /\ Step = todo[1]
      /\ todo[1].name \in CliNames /\ ProjectOK(runtime)
  BY StepInFront DEF CommandCompletes, StepOK
<1>2. UNCHANGED <<paws, result, session>> /\ At("cli")
  BY DEF CommandCompletes
<1>3. CASE /\ Obeys(Step.name, Step.arg)
           /\ runtime' = Effect(Step.name, Step.arg)
           /\ Ends(TRUE)
  <2>1. /\ ProjectOK(runtime')
        /\ \A u : u \in RecordedIn(runtime') <=>
             u \in RecordedIn(runtime)
               \/ (todo[1].name = "complete" /\ u = todo[1].arg)
    BY <1>1, <1>3, EffectOK
  <2>2. /\ Recorded \subseteq Recorded'
        /\ todo[1].name = "complete" => todo[1].arg \in Recorded'
    BY <2>1 DEF Recorded
  <2>3. ASSUME NEW s \in BOOLEAN, s, Ends(s) PROVE SInv'
    BY <1>2, <2>1, <2>2, <2>3, CommandEnds
  <2> QED
    BY <1>3, <2>3
<1>4. CASE UNCHANGED runtime /\ Ends(FALSE)
  <2>1. ProjectOK(runtime') /\ Recorded \subseteq Recorded'
    BY <1>4, SameKept
  <2>2. ASSUME NEW s \in BOOLEAN, ~s, Ends(s) PROVE SInv'
    BY <1>2, <2>1, <2>2, CommandEnds
  <2> QED
    BY <1>4, <2>2
<1> QED
  BY <1>3, <1>4 DEF CommandCompletes

LEMMA CommandTimesOutKeeps ==
  ASSUME SInv, CommandTimesOut
  PROVE  SInv'
<1>1. /\ todo # <<>> /\ todo[1].op = "cli" /\ Step = todo[1]
      /\ todo[1].name \in CliNames /\ ProjectOK(runtime)
  BY StepInFront DEF CommandTimesOut, StepOK
<1>2. /\ UNCHANGED <<paws, result, session>> /\ At("cli")
      /\ Again(MaxTimeoutRetries)
  BY DEF CommandTimesOut
<1>3. ProjectOK(runtime') /\ Recorded \subseteq Recorded'
  <2>1. CASE UNCHANGED runtime
    BY <2>1, SameKept
  <2>2. CASE /\ Obeys(Step.name, Step.arg)
             /\ runtime' = Effect(Step.name, Step.arg)
    <3>1. /\ ProjectOK(runtime')
          /\ \A u : u \in RecordedIn(runtime') <=>
               u \in RecordedIn(runtime)
                 \/ (todo[1].name = "complete" /\ u = todo[1].arg)
      BY <1>1, <2>2, EffectOK
    <3> QED
      BY <3>1 DEF Recorded
  <2>3. CASE /\ Obeys(Step.name, Step.arg) /\ Step.name = "init"
             /\ runtime' = PartialProject
    <3>1. runtime.project = "none"
      BY <2>3 DEF Obeys
    <3>2. RecordedIn(runtime) = {}
      BY <1>1, <3>1 DEF ProjectOK, RecordedIn
    <3> QED
      BY <2>3, <3>2, NewProjectOK DEF Recorded
  <2> QED
    BY <2>1, <2>2, <2>3 DEF CommandTimesOut
<1> QED
  BY <1>2, <1>3, CommandAgain

LEMMA CommandNotStartedKeeps ==
  ASSUME SInv, CommandNotStarted
  PROVE  SInv'
<1>1. UNCHANGED <<runtime, paws, result, session>> /\ Again(MaxSpawnRetries)
  BY DEF CommandNotStarted
<1>2. ProjectOK(runtime') /\ Recorded \subseteq Recorded'
  BY <1>1, SameKept
<1>3. CASE At("cli")
  BY <1>1, <1>2, <1>3, CommandAgain
<1>4. CASE At("run")
  <2>1. /\ todo # <<>> /\ todo[1].op = "run" /\ Step = todo[1]
        /\ StepOK(todo[1]) /\ AnswersOK /\ todo[1].wanted \in BOOLEAN
    BY <1>4, StepInFront DEF StepOK
  <2>2. CASE Ends(FALSE)
    <3>1. Return /\ last' \in BOOLEAN
      <4>1. ASSUME NEW s \in BOOLEAN, ~s, Ends(s)
            PROVE  Return /\ last' \in BOOLEAN
        BY <2>1, <4>1, EndsLast
      <4> QED
        BY <2>2, <4>1
    <3>2. AnswersOK' /\ Projects' = Projects
      BY <1>1, <3>1, SameKept
    <3> QED
      BY <1>1, <1>2, <2>1, <3>1, <3>2, ReturnStep DEF OperationOps
  <2>3. CASE /\ UNCHANGED last
             /\ \E a : /\ StepOK(a) /\ Call(<<a>>)
                       /\ a.op = Step.op /\ a.name = Step.name
                       /\ a.arg = Step.arg /\ a.wanted = Step.wanted
    <3>1. PICK a : StepOK(a) /\ Call(<<a>>) /\ a.op = "run"
      BY <2>1, <2>3
    <3>2. AnswersOK' /\ Projects' = Projects
      BY <1>1, <2>1, <2>3, SameKept DEF AnswersOK
    <3> QED
      BY <1>1, <1>2, <2>1, <3>1, <3>2, PushOne DEF OperationOps, Pushable
  <2> QED
    BY <1>1, <2>1, <2>2, <2>3, AgainSteps
<1> QED
  BY <1>3, <1>4 DEF CommandNotStarted

\* A command with other fields.
IsCommand(s) == s = [op |-> s.op, name |-> s.name, arg |-> s.arg,
                     wanted |-> s.wanted, retries |-> s.retries]

Altered(s, op, arg) == [s EXCEPT !.op = op, !.arg = arg]
Retried(s, n) == [s EXCEPT !.retries = n]

LEMMA CommandAltered ==
  ASSUME NEW s, IsCommand(s), NEW op, NEW arg
  PROVE  /\ IsCommand(Altered(s, op, arg))
         /\ Altered(s, op, arg).op = op /\ Altered(s, op, arg).arg = arg
         /\ Altered(s, op, arg).wanted = s.wanted
<1> DEFINE s1 == [s EXCEPT !.op = op]
<1>1. s1 = [op |-> op, name |-> s.name, arg |-> s.arg,
            wanted |-> s.wanted, retries |-> s.retries]
  BY DEF IsCommand
<1>2. Altered(s, op, arg) = [s1 EXCEPT !.arg = arg]
  BY DEF Altered
<1> HIDE DEF s1
<1> QED
  BY <1>1, <1>2 DEF IsCommand

LEMMA CommandRetried ==
  ASSUME NEW s, IsCommand(s), NEW n
  PROVE  /\ IsCommand(Retried(s, n)) /\ Retried(s, n).op = s.op
         /\ Retried(s, n).wanted = s.wanted
BY DEF IsCommand, Retried

\* The run in front, in its next state.
LEMMA RunningStep ==
  ASSUME StepOK(Step), Step.op \in {"run", "running"},
         NEW op \in {"run", "running"}, NEW arg, op = "running" => arg \in Tasks
  PROVE  /\ StepOK(Running(op, arg)) /\ Running(op, arg).op = op
         /\ Running(op, arg).arg = arg
<1>1. IsCommand(Step) /\ Step.wanted \in BOOLEAN
  BY DEF StepOK, IsCommand
<1>2. Running(op, arg) = Altered(Step, op, arg)
  BY DEF Running, Altered
<1>3. /\ IsCommand(Running(op, arg)) /\ Running(op, arg).op = op
      /\ Running(op, arg).arg = arg /\ Running(op, arg).wanted = Step.wanted
  BY <1>1, <1>2, CommandAltered
<1> HIDE DEF Running
<1> QED
  BY <1>1, <1>3 DEF StepOK, IsCommand

LEMMA RunTakesKeeps ==
  ASSUME SInv, RunTakes
  PROVE  SInv'
<1>1. /\ todo # <<>> /\ todo[1].op = "run" /\ Step = todo[1]
      /\ StepOK(todo[1]) /\ AnswersOK /\ ProjectOK(runtime)
  BY StepInFront DEF RunTakes
<1>2. UNCHANGED <<paws, last, result, session>>
  BY DEF RunTakes
<1>3. PICK t \in Executable :
        runtime' = Taken(runtime, t) /\ Call(<<Running("running", t)>>)
  BY Zenon DEF RunTakes, Taken
<1>4. t \in Tasks /\ runtime.ts[t] = "ready"
  BY <1>3 DEF Executable, ReadyTasks
<1>5. /\ ProjectOK(runtime') /\ runtime'.ts[t] = "running"
      /\ Recorded' = Recorded
  BY <1>1, <1>3, <1>4, TakeOK DEF Recorded
<1>6. AnswersOK' /\ Projects' = Projects
  BY <1>1, <1>2, SameKept DEF AnswersOK
<1> DEFINE a == Running("running", t)
           steps == <<a>>
<1>7. StepOK(a) /\ a.op = "running" /\ a.arg = t
  BY <1>1, <1>4, RunningStep
<1>8. todo' = steps \o Tail(todo)
  BY <1>3 DEF Call
<1> HIDE DEF a
<1>9. IsStack(steps) /\ Len(steps) = 1 /\ steps[1] = a
  BY <1>7, StackTuples
<1> HIDE DEF steps
<1>10. \A i \in 1 .. Len(steps) :
         /\ steps[i].op \in OperationOps \ {"answer", "recorded"}
         /\ steps[i].op \notin {"ingest_boot", "ingest_booted"}
         /\ i = 1 /\ runtime'.ts[steps[i].arg] = "running"
  BY <1>5, <1>7, <1>9 DEF OperationOps
<1> QED
  BY <1>1, <1>2, <1>5, <1>6, <1>8, <1>9, <1>10, PlainStep DEF OperationOps

LEMMA RunFinishesKeeps ==
  ASSUME SInv, RunFinishes
  PROVE  SInv'
<1>1. /\ todo # <<>> /\ todo[1].op = "running" /\ Step = todo[1]
      /\ StepOK(todo[1]) /\ AnswersOK /\ ProjectOK(runtime)
      /\ todo[1].arg \in Tasks /\ todo[1].wanted \in BOOLEAN
      /\ 1 \in 1 .. Len(todo)
  BY StepInFront DEF RunFinishes, StepOK
<1>2. UNCHANGED <<paws, result, session>>
  BY DEF RunFinishes
<1>3. runtime.ts[todo[1].arg] = "running"
  BY <1>1 DEF SInv, StepsOK, Executes
<1>4. PICK success \in BOOLEAN :
        /\ runtime' = WithOutcome(runtime, Step.arg, success)
        /\ IF success THEN Call(<<Running("run", TRUE)>>) /\ UNCHANGED last
           ELSE Ends(FALSE)
  BY DEF RunFinishes
<1>5. ProjectOK(runtime') /\ Recorded \subseteq Recorded'
  <2>1. /\ ProjectOK(runtime')
        /\ success => \A u : u \in RecordedIn(runtime') <=>
             u \in RecordedIn(runtime) \/ u = todo[1].arg
        /\ ~success => \A u : u \in RecordedIn(runtime') <=>
             u \in RecordedIn(runtime)
    BY <1>1, <1>3, <1>4, OutcomeOK
  <2> QED
    BY <2>1 DEF Recorded
<1>6. CASE success
  <2>1. /\ StepOK(Running("run", TRUE)) /\ Running("run", TRUE).op = "run"
        /\ Call(<<Running("run", TRUE)>>)
    BY <1>1, <1>4, <1>6, RunningStep
  <2>2. AnswersOK' /\ Projects' = Projects
    BY <1>1, <1>2, <1>4, <1>6, SameKept DEF AnswersOK
  <2> QED
    BY <1>1, <1>2, <1>5, <2>1, <2>2, PushOne DEF OperationOps, Pushable
<1>7. CASE ~success
  <2>1. Return /\ last' \in BOOLEAN
    <3>1. ASSUME NEW s \in BOOLEAN, ~s, Ends(s) PROVE Return /\ last' \in BOOLEAN
      BY <1>1, <3>1, EndsLast
    <3> QED
      BY <1>4, <1>7, <3>1
  <2>2. AnswersOK' /\ Projects' = Projects
    BY <1>2, <2>1, SameKept
  <2> QED
    BY <1>1, <1>2, <1>5, <2>1, <2>2, ReturnStep DEF OperationOps
<1> QED
  BY <1>6, <1>7

LEMMA RunEndsKeeps ==
  ASSUME SInv, RunEnds
  PROVE  SInv'
<1>1. /\ todo # <<>> /\ todo[1].op = "run" /\ Step = todo[1]
      /\ todo[1].wanted \in BOOLEAN
  BY StepInFront DEF RunEnds, StepOK
<1>2. UNCHANGED <<runtime, paws, result, session>>
  BY DEF RunEnds
<1>3. Return /\ last' \in BOOLEAN
  <2> DEFINE s == ReadyTasks = {} /\ runtime.project # "none"
  <2>1. s \in BOOLEAN /\ Ends(s)
    BY DEF RunEnds
  <2> HIDE DEF s
  <2> QED
    BY <1>1, <2>1, EndsLast
<1>4. /\ AnswersOK' /\ Projects' = Projects
      /\ ProjectOK(runtime') /\ Recorded \subseteq Recorded'
  BY <1>2, <1>3, SameKept
<1> QED
  BY <1>1, <1>2, <1>3, <1>4, ReturnStep DEF OperationOps

LEMMA RunTimesOutKeeps ==
  ASSUME SInv, RunTimesOut
  PROVE  SInv'
<1>1. /\ todo # <<>> /\ todo[1].op \in {"run", "running"} /\ Step = todo[1]
      /\ todo[1].wanted \in BOOLEAN /\ AnswersOK
  <2>1. CASE At("run")
    BY <2>1, StepInFront DEF StepOK
  <2>2. CASE At("running")
    BY <2>2, StepInFront DEF StepOK
  <2> QED
    BY <2>1, <2>2 DEF RunTimesOut
<1>2. UNCHANGED <<runtime, paws, result, session>>
  BY DEF RunTimesOut
<1>3. ProjectOK(runtime') /\ Recorded \subseteq Recorded'
  BY <1>2, SameKept
<1>4. CASE /\ Call(<<[Run(Step.wanted) EXCEPT !.retries = Step.retries + 1]>>)
           /\ UNCHANGED last
  <2> DEFINE a == [Run(Step.wanted) EXCEPT !.retries = Step.retries + 1]
  <2>1. IsCommand(a) /\ a.op = "run" /\ a.wanted = Step.wanted
    <3>1. IsCommand(Run(Step.wanted)) /\ Run(Step.wanted).op = "run"
          /\ Run(Step.wanted).wanted = Step.wanted
      BY DEF Run, Command, IsCommand
    <3>2. a = Retried(Run(Step.wanted), Step.retries + 1)
      BY DEF Retried
    <3> HIDE DEF a
    <3> QED
      BY <3>1, <3>2, CommandRetried
  <2>2. Call(<<a>>)
    BY <1>4
  <2> HIDE DEF a
  <2>3. StepOK(a) /\ a.op = "run"
    BY <1>1, <2>1 DEF StepOK, IsCommand
  <2>4. AnswersOK' /\ Projects' = Projects
    BY <1>1, <1>2, <1>4, SameKept DEF AnswersOK
  <2> QED
    BY <1>1, <1>2, <1>3, <2>2, <2>3, <2>4, PushOne DEF OperationOps, Pushable
<1>5. CASE Ends(FALSE)
  <2>1. Return /\ last' \in BOOLEAN
    <3>1. ASSUME NEW s \in BOOLEAN, ~s, Ends(s) PROVE Return /\ last' \in BOOLEAN
      BY <1>1, <3>1, EndsLast
    <3> QED
      BY <1>5, <3>1
  <2>2. AnswersOK' /\ Projects' = Projects
    BY <1>2, <2>1, SameKept
  <2> QED
    BY <1>1, <1>2, <1>3, <2>1, <2>2, ReturnStep DEF OperationOps
<1> QED
  BY <1>4, <1>5 DEF RunTimesOut

\* The status is written as the runtime is: what a reader was told is so.
LEMMA SyncStatusKeeps ==
  ASSUME SInv, SyncStatus
  PROVE  SInv'
<1>1. /\ todo # <<>> /\ todo[1].op = "sync" /\ Step = todo[1]
      /\ AnswersOK /\ StepsOK(todo) /\ IsStack(todo)
  BY StepInFront DEF SyncStatus, SInv, StepsOK
<1>2. UNCHANGED <<runtime, context, task, backlog, handoff, logs, last, session>>
  BY DEF SyncStatus
<1>3. PICK st \in StatusAnswers, sh \in ShowAnswers :
        LET issues == {st, sh} \ {"cli_ok"} IN
        /\ status' = Projection(status,
                                IF sh = "cli_ok" THEN ActiveTask ELSE NoValue,
                                StateRead(st), issues # {})
        /\ result' = IF Step.report THEN Coded(issues) ELSE result
  BY DEF SyncStatus
<1> DEFINE issues == {st, sh} \ {"cli_ok"}
<1>4. issues \subseteq Codes
  BY AnswersAssumption
     DEF StatusAnswers, ShowAnswers, Codes, BlockingCodes
<1> HIDE DEF issues
<1>5. /\ AnswersOK' /\ Projects' = Projects
      /\ Step.report = TRUE => result'.codes = result.codes \cup issues
  <2>1. CASE Step.report
    <3>1. result' = Coded(issues)
      BY <1>3, <2>1 DEF issues
    <3> QED
      BY <1>1, <1>2, <1>4, <3>1, CodedKept DEF AnswersOK
  <2>2. CASE ~Step.report
    <3>1. result' = result
      BY <1>3, <2>2
    <3>2. AnswersOK' /\ Projects' = Projects
      BY <1>1, <1>2, <3>1, SameKept DEF AnswersOK
    <3> QED
      BY <2>2, <3>2
  <2> QED
    BY <2>1, <2>2
<1> DEFINE steps == <<>>
           new == todo'
<1>6. /\ IsStack(steps) /\ Len(steps) = 0 /\ (\A i : i \notin 1 .. Len(steps))
      /\ todo' = steps \o Tail(todo) /\ steps = <<>> /\ new = Called(steps, todo)
  BY StackTuples DEF SyncStatus, Return, Call, Called
<1> HIDE DEF steps, new
<1>7. Carries(todo, new, 1, Len(steps)) /\ Carries(todo, new, 1, 0) /\ IsStack(new)
  <2>1. Carries(todo, new, 1, Len(steps)) /\ IsStack(new)
    BY <1>1, <1>6, CallCarries
  <2> QED
    BY <1>6, <2>1
<1>8. StepsOK(todo)'
  <2>1. Checked(todo', Recorded', last')
    <3>1. Checked(todo, Recorded, last) /\ todo[1].op # "cli"
            /\ \A i \in 1 .. Len(steps) : new[i].op # "recorded"
      BY <1>1, <1>6 DEF StepsOK
    <3>2. Checked(new, Recorded', last')
      BY <1>7, <3>1, UncheckedStep
    <3> QED
      BY <3>2 DEF new
  <2>2. \A t : ~Records(todo[1], t)
    BY <1>1 DEF Records
  <2>3. Recorded \subseteq Recorded' /\ UNCHANGED <<task, logs, session>>
    BY <1>2 DEF Recorded, RecordedIn
  <2>4. todo[1].op \in OperationOps \ {"answer"}
    BY <1>1 DEF OperationOps
  <2> QED
    BY <1>1, <1>5, <1>6, <2>1, <2>2, <2>3, <2>4, InsideStep
<1>9. Projected'
  <2>1. SUFFICES ASSUME (At("answer"))', Projects', result'.codes = {}
                 PROVE  status' = Projection(status', ActiveTask', runtime'.ps, FALSE)
    BY DEF Projected
  <2>2. Projects
    BY <1>5, <2>1
  <2>3. /\ 2 \in 2 .. Len(todo) /\ todo[2].op = "answer"
    <3>1. todo' # <<>> /\ Head(todo').op = "answer"
      BY <2>1 DEF At
    <3>2. new # <<>> /\ Head(new).op = "answer" /\ new \in Seq(ToSet(new))
      BY <1>7, <3>1 DEF new, IsStack
    <3>3. 1 \in 1 .. Len(new) /\ new[1].op = "answer"
      BY <3>2, EmptySeq, LenProperties, HeadTailProperties
    <3>4. 1 - 0 + 1 \in 1 + 1 .. Len(todo) /\ new[1] = todo[1 - 0 + 1]
      BY <1>7, <3>3 DEF Carries
    <3> QED
      BY <3>3, <3>4
  <2>4. Step.report = TRUE
    <3>1. todo[2 - 1].report = TRUE
      BY <1>1, <2>2, <2>3 DEF StepsOK, Synced
    <3> QED
      BY <1>1, <3>1
  <2>5. issues = {}
    BY <1>5, <2>1, <2>4
  <2>6. st = "cli_ok" /\ sh = "cli_ok"
    BY <2>5 DEF issues
  <2>7. runtime.project # "none"
    BY <2>6, AnswersAssumption DEF ShowAnswers, BlockingCodes
  <2>8. status' = Projection(status, ActiveTask, runtime.ps, FALSE)
    <3>1. StateRead(st) = runtime.ps
      BY <2>6, <2>7 DEF StateRead
    <3>2. status' = Projection(status, ActiveTask, runtime.ps, issues # {})
      BY <1>3, <2>6, <3>1 DEF issues
    <3> QED
      BY <2>5, <3>2 DEF Projection
  <2>9. ActiveTask' = ActiveTask /\ runtime' = runtime
    BY <1>2 DEF ActiveTask
  <2> QED
    BY <2>8, <2>9 DEF Projection
<1>10. /\ ProjectOK(runtime') /\ FilesOK' /\ LoggedIdle'
  BY <1>2 DEF SInv, FilesOK, LoggedIdle
<1> QED
  BY <1>5, <1>8, <1>9, <1>10 DEF SInv

-----------------------------------------------------------------------------
(* The record of a phase.                                                  *)

\* The steps of a phase: what is to be recorded stays so, or is recorded.
LEMMA PhaseStep ==
  ASSUME SInv, todo # <<>>, todo[1].op \in {"phase", "recorded"},
         NEW steps, IsStack(steps), Call(steps),
         \A i \in 1 .. Len(steps) : steps[i].op \in {"cli", "recorded"},
         \A i \in 1 .. Len(steps) : steps[i].op = "recorded" =>
           /\ i = 2 /\ steps[1].op = "cli" /\ steps[1].name = "complete"
           /\ steps[1].arg = steps[i].task /\ steps[1].wanted = TRUE,
         \A t : Records(todo[1], t) =>
           t \in Recorded \/ \E j \in 1 .. Len(steps) : Records(steps[j], t),
         UNCHANGED <<runtime, paws, last, result, session>>
  PROVE  SInv'
<1>1. StepsOK(todo) /\ AnswersOK /\ IsStack(todo)
  BY DEF SInv, StepsOK
<1>2. UNCHANGED <<task, logs, session>> /\ UNCHANGED <<context, handoff>>
  BY DEF paws
<1>3. todo' = steps \o Tail(todo)
  BY DEF Call
<1>4. /\ AnswersOK' /\ Projects' = Projects
      /\ Recorded' = Recorded /\ ProjectOK(runtime')
  BY DEF SInv, AnswersOK, Projects, Recorded, RecordedIn
<1>5. Checked(todo', Recorded', last')
  <2> DEFINE new == todo'
  <2>1. new = Called(steps, todo)
    BY <1>3 DEF Called
  <2> HIDE DEF new
  <2>2. /\ Carries(todo, new, 1, Len(steps))
        /\ \A i \in 1 .. Len(steps) : new[i] = steps[i]
    BY <1>1, <2>1, CallCarries
  <2>3. ASSUME NEW i \in 1 .. Len(new), new[i].op = "recorded"
        PROVE  /\ i = 2
               /\ new[1].op = "cli" /\ new[1].name = "complete"
               /\ new[1].arg = new[i].task /\ new[1].wanted = TRUE
    <3>1. CASE i \in 1 .. Len(steps)
      <4>1. new[i] = steps[i] /\ i = 2
        BY <2>2, <2>3, <3>1
      <4>2. 1 \in 1 .. Len(steps)
        BY <3>1, <4>1
      <4>3. new[1] = steps[1]
        BY <2>2, <4>2
      <4> QED
        BY <2>3, <3>1, <4>1, <4>3
    <3>2. CASE i \notin 1 .. Len(steps)
      <4>1. /\ i - Len(steps) + 1 \in 2 .. Len(todo)
            /\ new[i] = todo[i - Len(steps) + 1]
        BY <2>2, <3>2 DEF Carries
      <4>2. Checked(todo, Recorded, last) /\ todo[1].op # "cli"
        BY <1>1 DEF StepsOK
      <4> QED
        BY <2>3, <4>1, <4>2, NothingChecked
    <3> QED
      BY <3>1, <3>2
  <2>4. Checked(new, Recorded', last')
    BY <2>3 DEF Checked
  <2> QED
    BY <2>4 DEF new
<1>6. /\ todo[1].op \in OperationOps \ {"answer"} /\ todo[1].op # "sync"
      /\ \A i \in 1 .. Len(steps) :
           /\ steps[i].op \in OperationOps \ {"answer"}
           /\ steps[i].op \notin {"ingest_boot", "ingest_booted", "running"}
  BY DEF OperationOps
<1>7. /\ Recorded \subseteq Recorded'
      /\ \A t : Records(todo[1], t) =>
           t \in Recorded' \/ \E j \in 1 .. Len(steps) : Records(steps[j], t)
  BY <1>4
<1>8. StepsOK(todo)' /\ (Projects => ~ (At("answer"))')
  BY <1>1, <1>2, <1>3, <1>4, <1>5, <1>6, <1>7, InsideStep
<1>9. FilesOK' /\ LoggedIdle' /\ Projected'
  BY <1>2, <1>4, <1>8 DEF SInv, FilesOK, LoggedIdle, Projected
<1> QED
  BY <1>4, <1>8, <1>9 DEF SInv

LEMMA BeginPhaseCompleteKeeps ==
  ASSUME SInv, BeginPhaseComplete
  PROVE  SInv'
<1>1. /\ todo # <<>> /\ todo[1].op = "phase" /\ Step = todo[1]
  BY StepInFront DEF BeginPhaseComplete
<1>2. UNCHANGED <<runtime, paws, session>>
  BY DEF BeginPhaseComplete
<1>3. CASE GiveUp("task_complete_denied")
  BY <1>1, <1>2, <1>3, GiveUpKeeps DEF OperationOps, Codes, BlockingCodes
<1>4. CASE /\ UNCHANGED <<last, result>>
           /\ Call(CASE Step.outcome = "completed" ->
                          <<Cli("complete", Step.task),
                            [op |-> "recorded", task |-> Step.task]>>
                     [] Step.outcome = "failed" -> <<Try("fail", Step.task)>>
                     [] OTHER -> <<>>)
  <2>1. CASE Step.outcome = "completed"
    <3> DEFINE a == Cli("complete", Step.task)
               b == [op |-> "recorded", task |-> Step.task]
               steps == <<a, b>>
    <3>1. StepOK(a) /\ a.op = "cli" /\ a.name = "complete" /\ a.arg = Step.task
            /\ a.wanted = TRUE
      BY CommandOK DEF CliNames
    <3>2. StepOK(b) /\ b.op = "recorded" /\ b.task = Step.task
      BY DEF StepOK
    <3>3. Call(steps)
      BY <1>4, <2>1
    <3> HIDE DEF a, b
    <3>4. /\ IsStack(steps) /\ Len(steps) = 2
          /\ steps[1] = a /\ steps[2] = b
      BY <3>1, <3>2, StackTuples
    <3> HIDE DEF steps
    <3>5. /\ \A i \in 1 .. Len(steps) : steps[i].op \in {"cli", "recorded"}
          /\ \A i \in 1 .. Len(steps) : steps[i].op = "recorded" =>
               /\ i = 2 /\ steps[1].op = "cli" /\ steps[1].name = "complete"
               /\ steps[1].arg = steps[i].task /\ steps[1].wanted = TRUE
      BY <3>1, <3>2, <3>4
    <3>6. \A t : Records(todo[1], t) => \E j \in 1 .. Len(steps) : Records(steps[j], t)
      <4>1. ASSUME NEW t, Records(todo[1], t) PROVE Records(steps[2], t)
        BY <1>1, <3>2, <3>4, <4>1 DEF Records
      <4>2. 2 \in 1 .. Len(steps)
        BY <3>4
      <4> QED
        BY <4>1, <4>2
    <3> QED
      BY <1>1, <1>2, <1>4, <3>3, <3>4, <3>5, <3>6, PhaseStep
  <2>2. CASE Step.outcome # "completed"
    <3>1. \A t : ~Records(todo[1], t)
      BY <1>1, <2>2 DEF Records
    <3>2. CASE Call(<<Try("fail", Step.task)>>)
      <4> DEFINE a == Try("fail", Step.task)
                 steps == <<a>>
      <4>1. StepOK(a) /\ a.op = "cli" /\ Call(steps)
        BY <3>2, CommandOK DEF CliNames
      <4> HIDE DEF a
      <4>2. IsStack(steps) /\ Len(steps) = 1 /\ steps[1] = a
        BY <4>1, StackTuples
      <4> HIDE DEF steps
      <4>3. \A i \in 1 .. Len(steps) : steps[i].op = "cli"
        BY <4>1, <4>2
      <4> QED
        BY <1>1, <1>2, <1>4, <3>1, <4>1, <4>2, <4>3, PhaseStep
    <3>3. CASE Call(<<>>)
      <4> DEFINE steps == <<>>
      <4>1. Call(steps) /\ IsStack(steps) /\ \A i : i \notin 1 .. Len(steps)
        BY <3>3, StackTuples
      <4> HIDE DEF steps
      <4> QED
        BY <1>1, <1>2, <1>4, <3>1, <4>1, PhaseStep
    <3> QED
      BY <1>4, <2>2, <3>2, <3>3
  <2> QED
    BY <2>1, <2>2
<1> QED
  BY <1>3, <1>4 DEF BeginPhaseComplete

LEMMA RequireRecordKeeps ==
  ASSUME SInv, RequireRecord
  PROVE  SInv'
<1>1. /\ todo # <<>> /\ todo[1].op = "recorded" /\ 1 \in 1 .. Len(todo)
  BY StepInFront DEF RequireRecord
<1>2. UNCHANGED <<runtime, paws, session>>
  BY DEF RequireRecord
<1>3. CASE GiveUp("task_complete_denied")
  BY <1>1, <1>2, <1>3, GiveUpKeeps DEF OperationOps, Codes, BlockingCodes
<1>4. CASE last /\ Return /\ UNCHANGED <<last, result>>
  <2>1. \A t : Records(todo[1], t) => t \in Recorded
    <3>1. todo[1].task \in Recorded
      <4>1. Checked(todo, Recorded, last)
        BY DEF SInv, StepsOK
      <4> QED
        BY <1>1, <1>4, <4>1 DEF Checked
    <3> QED
      BY <1>1, <3>1 DEF Records
  <2> DEFINE steps == <<>>
  <2>2. Call(steps) /\ IsStack(steps) /\ \A i : i \notin 1 .. Len(steps)
    BY <1>4, StackTuples DEF Return
  <2> HIDE DEF steps
  <2> QED
    BY <1>1, <1>2, <1>4, <2>1, <2>2, PhaseStep
<1> QED
  BY <1>3, <1>4 DEF RequireRecord

-----------------------------------------------------------------------------
(* The answer, and what calls an operation.                                *)

LEMMA AnswerOperationKeeps ==
  ASSUME SInv, AnswerOperation
  PROVE  SInv'
<1>1. /\ todo # <<>> /\ todo[1].op = "answer" /\ Step = todo[1]
      /\ StepOK(todo[1]) /\ AnswersOK /\ StepsOK(todo) /\ IsStack(todo)
      /\ 1 \in 1 .. Len(todo)
  BY StepInFront DEF AnswerOperation, SInv, StepsOK
<1>2. UNCHANGED <<runtime, task, logs, session>> /\ UNCHANGED <<context, handoff>>
      /\ UNCHANGED last
  BY DEF AnswerOperation, paws
<1>3. AnswersOK'
  <2> DEFINE ok == CASE Step.verdict = "judge" -> Blocking(result.codes) = {}
                     [] Step.verdict = "ok" -> TRUE
                     [] Step.verdict = "given" -> result.ok
  <2>1. ok \in BOOLEAN
    BY <1>1 DEF StepOK, AnswersOK
  <2>2. result' = [result EXCEPT !.ok = ok]
    BY DEF AnswerOperation
  <2> HIDE DEF ok
  <2>3. result' = [op |-> result.op, ok |-> ok, codes |-> result.codes]
    BY <1>1, <2>2 DEF AnswersOK
  <2>4. UNCHANGED session /\ last' \in BOOLEAN /\ result.codes \subseteq Codes
    BY <1>1, <1>2 DEF AnswersOK
  <2> QED
    BY <2>1, <2>3, <2>4, ResultKept
<1> DEFINE steps == <<>>
           new == todo'
<1>4. /\ IsStack(steps) /\ Len(steps) = 0 /\ new = Called(steps, todo)
  BY StackTuples DEF AnswerOperation, Return, Call, Called
<1> HIDE DEF steps, new
<1>5. Carries(todo, new, 1, 0) /\ IsStack(new)
  <2>1. Carries(todo, new, 1, Len(steps)) /\ IsStack(new)
    BY <1>1, <1>4, CallCarries
  <2> QED
    BY <1>4, <2>1
<1>6. /\ StepsOK(todo)'
      /\ \A i \in 1 .. Len(todo') : todo'[i].op \notin OperationOps
  <2>1. Carries(todo, todo', 1, 0) /\ IsStack(todo')
    BY <1>5 DEF new
  <2> QED
    BY <1>1, <1>2, <2>1, AnsweredStep
<1>7. ~ (At("answer"))'
  <2>1. new # <<>> => Head(new) = new[1] /\ 1 \in 1 .. Len(new)
    <3>1. new \in Seq(ToSet(new))
      BY <1>5 DEF IsStack
    <3> QED
      BY <3>1, EmptySeq, LenProperties, HeadTailProperties
  <2> QED
    BY <1>6, <2>1 DEF At, OperationOps, new
<1> QED
  BY <1>2, <1>3, <1>6, <1>7 DEF SInv, FilesOK, LoggedIdle, Projected

(***************************************************************************)
(* The Bridge is invoked: the steps of its operation come in front.        *)
(***************************************************************************)
LEMMA InvokeStep ==
  ASSUME StepsOK(todo), todo # <<>>, todo[1].op = "bridge",
         NEW steps, IsStack(steps), todo' = steps \o Tail(todo),
         Len(steps) > 0, steps[Len(steps)].op = "answer",
         \A i \in 1 .. Len(steps) - 1 :
           steps[i].op \in OperationOps \ {"answer", "recorded", "running"},
         \A i \in 1 .. Len(steps) :
           steps[i].op \in {"ingest_boot", "ingest_booted"} => Projects',
         Projects' => /\ Len(steps) > 1
                      /\ steps[Len(steps) - 1].op = "sync"
                      /\ steps[Len(steps) - 1].report = TRUE,
         todo[1].name = "post_phase_complete"
           /\ todo[1].arg.outcome = "completed" =>
             Records(steps[1], todo[1].arg.task),
         UNCHANGED <<runtime, task, logs, session>>
  PROVE  StepsOK(todo)' /\ (Projects' => ~ (At("answer"))')
<1> DEFINE k == Len(steps)
           new == todo'
<1>1. /\ Carries(todo, new, 1, k) /\ IsStack(new)
      /\ \A i \in 1 .. k : i \in 1 .. Len(new) /\ new[i] = steps[i]
  <2>1. IsStack(todo)
    BY DEF StepsOK
  <2>2. new = Called(steps, todo)
    BY DEF Called
  <2> HIDE DEF new, k
  <2>3. /\ Carries(todo, new, 1, Len(steps)) /\ IsStack(new)
        /\ \A i \in 1 .. Len(steps) : i \in 1 .. Len(new) /\ new[i] = steps[i]
    BY <2>1, <2>2, CallCarries
  <2> QED
    BY <2>3 DEF k
<1>2. /\ Len(todo) \in Nat /\ 1 \in 1 .. Len(todo) /\ Len(new) \in Nat
      /\ k \in Nat /\ k > 0 /\ k \in 1 .. Len(new) /\ 1 \in 1 .. k
  <2>1. 1 <= Len(todo) /\ Len(todo) \in Nat /\ Len(new) \in Nat /\ k \in Nat
          /\ k <= Len(new)
    BY <1>1 DEF Carries
  <2> QED
    BY <2>1
<1>3. /\ new[k].op = "answer"
      /\ \A i \in 1 .. k - 1 :
           /\ new[i].op \in OperationOps \ {"answer", "recorded", "running"}
           /\ new[i] = steps[i]
  <2>1. \A i \in 1 .. k : new[i] = steps[i]
    BY <1>1
  <2>2. \A i \in 1 .. k - 1 : i \in 1 .. k
    BY <1>2
  <2>3. k \in 1 .. k
    BY <1>2
  <2> QED
    BY <2>1, <2>2, <2>3
<1>4. Projects' => new[k - 1].op = "sync" /\ new[k - 1].report = TRUE /\ k > 1
  <2>1. ASSUME Projects' PROVE k - 1 \in 1 .. k - 1 /\ k > 1
    BY <1>2, <2>1
  <2> QED
    BY <1>3, <2>1
<1> HIDE DEF new
<1>5. \A i \in 1 .. Len(todo) : todo[i].op \notin OperationOps
  <2>1. ASSUME NEW i \in 1 .. Len(todo), todo[i].op \in OperationOps
        PROVE  FALSE
    <3>1. todo[1].op \notin OperationOps
      BY DEF OperationOps
    <3>2. 1 < i
      BY <2>1, <3>1
    <3> QED
      BY <1>2, <2>1, <3>1, <3>2 DEF StepsOK, Layered
  <2> QED
    BY <2>1
<1>6. \A i \in 1 .. k : new[i].op \in OperationOps
  <2>1. "answer" \in OperationOps
    BY DEF OperationOps
  <2>2. \A i \in 1 .. k : i = k \/ i \in 1 .. k - 1
    BY <1>2
  <2> QED
    BY <1>3, <2>1, <2>2
<1>7. Layered(new)
  <2>1. \A i \in 1 .. k : new[i].op # "end"
    BY <1>6 DEF OperationOps
  <2>2. \A i \in 1 + 1 .. Len(todo) : todo[i].op \notin OperationOps
    BY <1>2, <1>5
  <2>3. k > 0 /\ new[k].op = "answer"
          /\ \A i \in 1 .. k - 1 : new[i].op \in OperationOps \ {"answer"}
    BY <1>2, <1>3
  <2> HIDE DEF k
  <2> QED
    BY <1>1, <2>1, <2>2, <2>3, LayeredBehind DEF StepsOK
<1>8. Closes(new, task.goal, IsLogged)
  <2>1. \A i \in 1 .. k :
          new[i].op \notin {"write_task", "close_out"} \cup ClosingOps
    BY <1>6 DEF OperationOps, ClosingOps
  <2>2. \A i \in 1 .. 1 : todo[i].op # "write_log"
    OBVIOUS
  <2>3. \A i \in 1 .. k : new[i].op # "write_log" /\ new[i].op # "set_status"
    BY <2>1 DEF ClosingOps
  <2> HIDE DEF k
  <2> QED
    BY <1>1, <2>1, <2>2, <2>3, ClosesCarried DEF StepsOK
<1>9. Promised(new, Recorded', session.phaseOk, result'.ok)
  <2>1. \A i \in 1 .. k : new[i].op \notin {"absorb", "close_out", "write_log"}
    BY <1>6 DEF OperationOps
  <2>2. \A i \in 1 .. 1 : ~AbsorbsPhase(todo[i])
    BY DEF AbsorbsPhase
  <2>3. ASSUME NEW a \in 1 + 1 .. Len(todo), NEW t,
               Underway(todo, result.ok, a, t)
        PROVE  Underway(new, result'.ok, a - 1 + k, t)
    <3>1. a > 1 /\ todo[a - 1].op # "answer"
      <4>1. a - 1 \in 1 .. Len(todo) /\ a > 1
        BY <1>2
      <4> QED
        BY <1>5, <4>1 DEF OperationOps
    <3>2. /\ a = 2 /\ todo[1].name = "post_phase_complete"
          /\ todo[1].arg.task = t /\ todo[1].arg.outcome = "completed"
      BY <2>3, <3>1 DEF Underway
    <3>3. Records(new[1], t)
      <4>1. Records(steps[1], t)
        BY <3>2
      <4>2. new[1] = steps[1]
        BY <1>1, <1>2
      <4> QED
        BY <4>1, <4>2
    <3>4. /\ a - 1 + k = k + 1 /\ k + 1 > 1 /\ (k + 1) - 1 = k
          /\ 1 \in 1 .. (k + 1) - 1
      BY <1>2, <3>2
    <3>5. new[(k + 1) - 1].op = "answer"
      BY <1>3, <3>4
    <3> HIDE DEF k
    <3>6. Underway(new, result'.ok, k + 1, t)
      BY <3>3, <3>4, <3>5 DEF Underway
    <3> QED
      BY <3>4, <3>6
  <2>4. Recorded \subseteq Recorded'
    BY DEF Recorded, RecordedIn
  <2> HIDE DEF k
  <2> QED
    BY <1>1, <2>1, <2>2, <2>3, <2>4, PromisedCarried DEF StepsOK
<1>10. ASSUME NEW i \in 1 .. Len(new)
       PROVE  i \in 1 .. k - 1 \/ i = k \/ new[i].op \notin OperationOps
  <2>1. CASE i \in 1 .. k
    BY <1>2, <2>1
  <2>2. CASE i \notin 1 .. k
    BY <1>1, <1>5, <2>2 DEF Carries
  <2> QED
    BY <2>1, <2>2
<1>11. Checked(new, Recorded', last') /\ Executes(new, runtime')
  <2>1. \A i \in 1 .. Len(new) : new[i].op \notin {"recorded", "running"}
    BY <1>3, <1>10 DEF OperationOps
  <2> QED
    BY <2>1 DEF Checked, Executes
<1>12. Synced(new, Projects')
  <2>1. ASSUME Projects', NEW i \in 2 .. Len(new), new[i].op = "answer"
        PROVE  new[i - 1].op = "sync" /\ new[i - 1].report = TRUE
    <3>1. i = k
      BY <1>3, <1>10, <2>1 DEF OperationOps
    <3> QED
      BY <1>4, <2>1, <3>1
  <2>2. ASSUME NEW i \in 1 .. Len(new),
               new[i].op \in {"ingest_boot", "ingest_booted"}
        PROVE  Projects'
    <3>1. i \in 1 .. k - 1
      BY <1>3, <1>10, <2>2 DEF OperationOps
    <3>2. i \in 1 .. k
      BY <1>2, <3>1
    <3> QED
      BY <1>1, <2>2, <3>2
  <2> QED
    BY <2>1, <2>2 DEF Synced
<1>13. Projects' => ~ (At("answer"))'
  <2>1. new # <<>> => Head(new) = new[1]
    <3>1. new \in Seq(ToSet(new))
      BY <1>1 DEF IsStack
    <3> QED
      BY <3>1, HeadTailProperties
  <2>2. ASSUME Projects' PROVE new[1].op # "answer"
    <3>1. 1 \in 1 .. k - 1
      BY <1>2, <1>4, <2>2
    <3> QED
      BY <1>3, <3>1
  <2> QED
    BY <2>1, <2>2 DEF At, new
<1>14. StepsOK(todo)'
  <2>1. /\ new = todo' /\ (task.goal)' = task.goal /\ IsLogged' = IsLogged
        /\ (session.phaseOk)' = session.phaseOk
    BY DEF new, IsLogged
  <2> QED
    BY <1>1, <1>7, <1>8, <1>9, <1>11, <1>12, <2>1 DEF StepsOK
<1> QED
  BY <1>13, <1>14

-----------------------------------------------------------------------------
(* The operations.                                                         *)

BodyOps == OperationOps \
  {"answer", "recorded", "running", "ingest_boot", "ingest_booted"}

\* The steps of the operation `name', from its first to its answer.
OperationOK(steps, name) ==
  /\ IsStack(steps) /\ Len(steps) > 0 /\ steps[Len(steps)].op = "answer"
  /\ \A i \in 1 .. Len(steps) - 1 :
       \/ steps[i].op \in BodyOps
       \/ steps[i].op = "ingest_boot" /\ name \in Projecting
  /\ name \in Projecting =>
       /\ Len(steps) > 1
       /\ steps[Len(steps) - 1].op = "sync"
       /\ steps[Len(steps) - 1].report = TRUE

LEMMA OperationPrefixed ==
  ASSUME NEW a, IsStack(a), \A i \in 1 .. Len(a) : a[i].op \in BodyOps,
         NEW z, NEW name, OperationOK(z, name)
  PROVE  /\ OperationOK(a \o z, name)
         /\ Len(a) > 0 => (a \o z)[1] = a[1]
<1> DEFINE s == a \o z
<1>1. /\ IsStack(s) /\ Len(a) \in Nat /\ Len(z) \in Nat
      /\ Len(s) = Len(a) + Len(z)
      /\ \A i \in 1 .. Len(s) :
           \/ i \in 1 .. Len(a) /\ s[i] = a[i]
           \/ i - Len(a) \in 1 .. Len(z) /\ s[i] = z[i - Len(a)]
  BY StackConcat DEF OperationOK
<1> HIDE DEF s
<1>2. /\ Len(s) > 0 /\ Len(s) \in 1 .. Len(s) /\ Len(s) \notin 1 .. Len(a)
      /\ Len(s) - Len(a) = Len(z)
  BY <1>1 DEF OperationOK
<1>3. s[Len(s)].op = "answer"
  <2>1. s[Len(s)] = z[Len(z)]
    BY <1>1, <1>2
  <2> QED
    BY <2>1 DEF OperationOK
<1>4. ASSUME NEW i \in 1 .. Len(s) - 1
      PROVE  \/ s[i].op \in BodyOps
             \/ s[i].op = "ingest_boot" /\ name \in Projecting
  <2>1. i \in 1 .. Len(s)
    BY <1>1
  <2>2. CASE i \in 1 .. Len(a) /\ s[i] = a[i]
    BY <2>2
  <2>3. CASE i - Len(a) \in 1 .. Len(z) /\ s[i] = z[i - Len(a)]
    <3>1. i - Len(a) \in 1 .. Len(z) - 1
      BY <1>1, <2>3
    <3> QED
      BY <2>3, <3>1 DEF OperationOK
  <2> QED
    BY <1>1, <2>1, <2>2, <2>3
<1>5. ASSUME name \in Projecting
      PROVE  /\ Len(s) > 1
             /\ s[Len(s) - 1].op = "sync" /\ s[Len(s) - 1].report = TRUE
  <2>1. Len(z) > 1 /\ z[Len(z) - 1].op = "sync" /\ z[Len(z) - 1].report = TRUE
    BY <1>5 DEF OperationOK
  <2>2. /\ Len(s) > 1 /\ Len(s) - 1 \in 1 .. Len(s)
        /\ Len(s) - 1 \notin 1 .. Len(a) /\ (Len(s) - 1) - Len(a) = Len(z) - 1
    BY <1>1, <2>1
  <2>3. s[Len(s) - 1] = z[Len(z) - 1]
    BY <1>1, <2>2
  <2> QED
    BY <2>1, <2>2, <2>3
<1>6. ASSUME Len(a) > 0 PROVE s[1] = a[1]
  <2>1. 1 \in 1 .. Len(s) /\ ~ (1 - Len(a) \in 1 .. Len(z))
    BY <1>1, <1>6
  <2> QED
    BY <1>1, <2>1
<1> QED
  BY <1>1, <1>2, <1>3, <1>4, <1>5, <1>6 DEF OperationOK, s

\* The steps the operations end with.
LEMMA EndingOK ==
  ASSUME NEW name, NEW a, StepOK(a), a.op \in BodyOps,
         name \in Projecting => a.op = "sync" /\ a.report = TRUE,
         NEW verdict \in {"judge", "ok", "given"}
  PROVE  OperationOK(<<a, Answer(verdict)>>, name)
<1>1. StepOK(Answer(verdict)) /\ Answer(verdict).op = "answer"
  BY DEF StepOK, Answer
<1> DEFINE b == Answer(verdict)
           s == <<a, b>>
<1> HIDE DEF b
<1>2. IsStack(s) /\ Len(s) = 2 /\ s[1] = a /\ s[2] = b
  BY <1>1, StackTuples DEF b
<1> HIDE DEF s
<1>3. b.op = "answer"
  BY <1>1 DEF b
<1>4. OperationOK(s, name)
  <2>1. \A i \in 1 .. Len(s) - 1 : s[i] = a
    BY <1>2
  <2>2. s[Len(s)] = b /\ s[Len(s) - 1] = a /\ Len(s) > 1 /\ Len(s) > 0
    BY <1>2
  <2> QED
    BY <1>2, <1>3, <2>1, <2>2 DEF OperationOK
<1> QED
  BY <1>4 DEF s, b

LEMMA OneInFront ==
  ASSUME NEW a, StepOK(a), a.op \in BodyOps, NEW z, NEW name,
         OperationOK(z, name)
  PROVE  OperationOK(<<a>> \o z, name) /\ (<<a>> \o z)[1] = a
<1> DEFINE s == <<a>>
<1>1. IsStack(s) /\ Len(s) = 1 /\ s[1] = a
  BY StackTuples
<1> HIDE DEF s
<1>2. \A i \in 1 .. Len(s) : s[i].op \in BodyOps
  BY <1>1
<1>3. /\ OperationOK(s \o z, name)
      /\ Len(s) > 0 => (s \o z)[1] = s[1]
  BY <1>1, <1>2, OperationPrefixed
<1> QED
  BY <1>1, <1>3 DEF s

LEMMA BootstrapOperation ==
  ASSUME NEW codes, codes \subseteq BlockingCodes
  PROVE  OperationOK(BootstrapSteps(codes) \o <<Answer("judge")>>, "bootstrap")
<1> DEFINE a == BootstrapSteps(codes)
           z == <<Answer("judge")>>
           s == a \o z
<1>1. /\ IsStack(a) /\ Len(a) = 4
      /\ \A i \in 1 .. 4 :
           a[i].op \in {"boot_init", "boot_show", "boot_doctor", "sync"}
      /\ a[4].op = "sync" /\ a[4].report = TRUE
  BY BootstrapStack DEF Sync
<1>2. IsStack(z) /\ Len(z) = 1 /\ z[1].op = "answer"
  <2>1. StepOK(Answer("judge")) /\ Answer("judge").op = "answer"
    BY DEF StepOK, Answer
  <2> QED
    BY <2>1, StackTuples
<1> HIDE DEF a, z
<1>3. /\ IsStack(s) /\ Len(s) = 5
      /\ \A i \in 1 .. Len(s) :
           \/ i \in 1 .. Len(a) /\ s[i] = a[i]
           \/ i - Len(a) \in 1 .. Len(z) /\ s[i] = z[i - Len(a)]
  <2>1. /\ IsStack(s) /\ Len(s) = Len(a) + Len(z)
        /\ \A i \in 1 .. Len(s) :
             \/ i \in 1 .. Len(a) /\ s[i] = a[i]
             \/ i - Len(a) \in 1 .. Len(z) /\ s[i] = z[i - Len(a)]
    <3>1. IsStack(a) /\ IsStack(z)
      BY <1>1, <1>2
    <3> QED
      BY <3>1, StackConcat
  <2> QED
    BY <1>1, <1>2, <2>1
<1> HIDE DEF s
<1>4. /\ \A i \in 1 .. 4 : s[i] = a[i]
      /\ s[5] = z[1]
  BY <1>1, <1>2, <1>3
<1>5. /\ \A i \in 1 .. Len(s) - 1 : s[i].op \in BodyOps
      /\ s[Len(s) - 1].op = "sync" /\ s[Len(s) - 1].report = TRUE
      /\ s[Len(s)].op = "answer" /\ Len(s) > 1
  <2>1. Len(s) - 1 = 4 /\ Len(s) = 5 /\ Len(s) > 1
    BY <1>3
  <2>2. \A i \in 1 .. 4 : s[i].op \in {"boot_init", "boot_show", "boot_doctor", "sync"}
    BY <1>1, <1>4
  <2>3. s[4].op = "sync" /\ s[4].report = TRUE /\ s[5].op = "answer"
    BY <1>1, <1>2, <1>4
  <2> QED
    BY <2>1, <2>2, <2>3 DEF BodyOps, OperationOps
<1> QED
  BY <1>3, <1>5 DEF OperationOK, s, a, z

LEMMA IngestOperation ==
  ASSUME NEW codes, codes \subseteq BlockingCodes, NEW phase
  PROVE  OperationOK(IngestSteps(phase, codes), "ingest_master_prompt")
<1> DEFINE a == [op |-> "ingest_boot", codes |-> codes]
           b == [op |-> "ingest_state", phase |-> phase]
           c == Sync(TRUE)
           d == Answer("judge")
           s == <<a, b, c, d>>
<1>1. /\ StepOK(a) /\ StepOK(b) /\ StepOK(c) /\ StepOK(d)
      /\ a.op = "ingest_boot" /\ b.op = "ingest_state"
      /\ c.op = "sync" /\ c.report = TRUE /\ d.op = "answer"
  BY DEF StepOK, Sync, Answer
<1> HIDE DEF a, b, c, d
<1>2. IsStack(s) /\ Len(s) = 4 /\ s[1] = a /\ s[2] = b /\ s[3] = c /\ s[4] = d
  BY <1>1, StackTuples
<1>3. s = IngestSteps(phase, codes)
  BY DEF IngestSteps, a, b, c, d
<1> HIDE DEF s
<1>4. /\ \A i \in 1 .. Len(s) - 1 :
           s[i].op \in BodyOps \/ s[i].op = "ingest_boot"
      /\ s[Len(s) - 1].op = "sync" /\ s[Len(s) - 1].report = TRUE
      /\ s[Len(s)].op = "answer" /\ Len(s) > 1
  <2>1. Len(s) - 1 = 3 /\ Len(s) = 4 /\ Len(s) > 1
    BY <1>2
  <2>2. \A i \in 1 .. 3 : i = 1 \/ i = 2 \/ i = 3
    OBVIOUS
  <2>3. \A i \in 1 .. 3 : s[i].op \in {"ingest_boot", "ingest_state", "sync"}
    BY <1>1, <1>2, <2>2
  <2> QED
    BY <1>1, <1>2, <2>1, <2>3 DEF BodyOps, OperationOps
<1>5. OperationOK(s, "ingest_master_prompt")
  BY <1>2, <1>4 DEF OperationOK, Projecting
<1> QED
  BY <1>3, <1>5

LEMMA PhaseOperation ==
  ASSUME NEW t, NEW outcome, NEW gate,
         NEW steps, steps = PhaseSteps(t, outcome, gate)
  PROVE  /\ OperationOK(steps, "post_phase_complete")
         /\ outcome = "completed" => Records(steps[1], t)
<1> DEFINE ph == [op |-> "phase", task |-> t, outcome |-> outcome]
           g == IF gate THEN <<Try("transition", "awaiting_approval")>> ELSE <<>>
           z == <<Sync(TRUE), Answer("ok")>>
           run == <<Run(FALSE)>>
           name == "post_phase_complete"
<1>1. OperationOK(z, name)
  <2>1. StepOK(Sync(TRUE)) /\ Sync(TRUE).op = "sync" /\ Sync(TRUE).report = TRUE
    BY DEF StepOK, Sync
  <2> QED
    BY <2>1, EndingOK DEF BodyOps, OperationOps
<1>2. /\ IsStack(g) /\ \A i \in 1 .. Len(g) : g[i].op \in BodyOps
  <2> DEFINE c == Try("transition", "awaiting_approval")
  <2>1. StepOK(c) /\ c.op \in BodyOps
    <3>1. StepOK(c) /\ c.op = "cli"
      BY CommandOK DEF CliNames
    <3> QED
      BY <3>1 DEF BodyOps, OperationOps
  <2> HIDE DEF c
  <2>2. CASE g = <<c>>
    BY <2>1, <2>2, StackTuples
  <2>3. CASE g = <<>>
    <3>1. IsStack(g) /\ Len(g) = 0
      BY <2>3, StackTuples
    <3> QED
      BY <3>1
  <2> QED
    BY <2>2, <2>3 DEF c
<1>3. /\ IsStack(run) /\ \A i \in 1 .. Len(run) : run[i].op \in BodyOps
  <2> DEFINE r == Run(FALSE)
  <2>1. StepOK(r) /\ r.op \in BodyOps
    BY DEF Run, Command, StepOK, BodyOps, OperationOps
  <2> HIDE DEF r
  <2>2. IsStack(<<r>>) /\ Len(<<r>>) = 1 /\ <<r>>[1] = r
    BY <2>1, StackTuples
  <2>3. run = <<r>>
    BY DEF r
  <2> HIDE DEF run
  <2> QED
    BY <2>1, <2>2, <2>3
<1>4. StepOK(ph) /\ ph.op \in BodyOps /\ (outcome = "completed" => Records(ph, t))
  BY DEF StepOK, BodyOps, OperationOps, Records
<1>5. steps = <<ph>> \o ((run \o g) \o z)
  BY DEF PhaseSteps, AfterOutcome
<1> HIDE DEF ph, g, z, run, name
<1>6. IsStack(run \o g) /\ \A i \in 1 .. Len(run \o g) : (run \o g)[i].op \in BodyOps
  BY <1>2, <1>3, StackConcat
<1>7. OperationOK((run \o g) \o z, name)
  BY <1>1, <1>6, OperationPrefixed
<1>8. OperationOK(<<ph>> \o ((run \o g) \o z), name)
        /\ (<<ph>> \o ((run \o g) \o z))[1] = ph
  BY <1>4, <1>7, OneInFront
<1> QED
  BY <1>4, <1>5, <1>8 DEF name

LEMMA ShortOperation ==
  ASSUME NEW name \in {"sync_status", "pre_implement_check", "post_implement"},
         NEW arg, NEW m
  PROVE  OperationOK(Operation(name, arg, m), name)
<1>1. CASE name = "sync_status"
  <2>1. StepOK(Sync(TRUE)) /\ Sync(TRUE).op = "sync" /\ Sync(TRUE).report = TRUE
    BY DEF StepOK, Sync
  <2>2. OperationOK(<<Sync(TRUE), Answer("ok")>>, "sync_status")
    BY <2>1, EndingOK DEF BodyOps, OperationOps
  <2> QED
    BY <1>1, <2>2 DEF Operation
<1>2. CASE name = "pre_implement_check"
  <2> DEFINE gate == [op |-> "gate", codes |-> ValidateIntegrity(m)]
  <2>1. StepOK(gate) /\ gate.op = "gate"
    BY DEF StepOK, ValidateIntegrity, BlockingCodes
  <2>2. "pre_implement_check" \notin Projecting
    BY DEF Projecting
  <2>3. Operation(name, arg, m) = <<gate, Answer("given")>>
    BY <1>2 DEF Operation, GateSteps
  <2> HIDE DEF gate
  <2>4. OperationOK(<<gate, Answer("given")>>, "pre_implement_check")
    BY <2>1, <2>2, EndingOK DEF BodyOps, OperationOps
  <2> QED
    BY <1>2, <2>3, <2>4
<1>3. CASE name = "post_implement"
  <2>1. StepOK(Iterate(RunIterations)) /\ Iterate(RunIterations).op = "iterate"
    BY DEF StepOK, Iterate
  <2>2. "post_implement" \notin Projecting
    BY DEF Projecting
  <2>3. OperationOK(<<Iterate(RunIterations), Answer("given")>>, "post_implement")
    BY <2>1, <2>2, EndingOK DEF BodyOps, OperationOps
  <2> QED
    BY <1>3, <2>3 DEF Operation
<1> QED
  BY <1>1, <1>2, <1>3

LEMMA DocumenterOperation ==
  OperationOK(DocumenterSteps, "pre_documenter")
<1> DEFINE a == Plain("artifacts")
           c == Sync(FALSE)
           d == Answer("judge")
           z == <<c, d>>
<1>1. /\ StepOK(a) /\ a.op = "artifacts" /\ StepOK(c) /\ c.op = "sync"
      /\ StepOK(d) /\ d.op = "answer"
  BY DEF StepOK, Plain, Sync, Answer
<1> HIDE DEF a, c, d
<1> DEFINE s == <<a, c, d>>
<1>2. IsStack(s) /\ Len(s) = 3 /\ s[1] = a /\ s[2] = c /\ s[3] = d
  BY <1>1, StackTuples
<1>3. s = DocumenterSteps
  BY DEF DocumenterSteps, a, c, d
<1> HIDE DEF s
<1>4. /\ \A i \in 1 .. Len(s) - 1 : s[i].op \in BodyOps
      /\ s[Len(s)].op = "answer" /\ Len(s) > 0
  <2>1. Len(s) - 1 = 2 /\ Len(s) = 3 /\ Len(s) > 0
    BY <1>2
  <2>2. \A i \in 1 .. 2 : i = 1 \/ i = 2
    OBVIOUS
  <2>3. \A i \in 1 .. 2 : s[i].op \in {"artifacts", "sync"}
    BY <1>1, <1>2, <2>2
  <2> QED
    BY <1>1, <1>2, <2>1, <2>3 DEF BodyOps, OperationOps
<1>5. OperationOK(s, "pre_documenter")
  BY <1>2, <1>4 DEF OperationOK, Projecting
<1> QED
  BY <1>3, <1>5

\* Every operation runs from its first step to its answer.
LEMMA EveryOperation ==
  ASSUME NEW name \in BridgeNames, NEW arg, NEW m,
         NEW steps, steps = Operation(name, arg, m)
  PROVE  /\ OperationOK(steps, name)
         /\ name = "post_phase_complete" /\ arg.outcome = "completed" =>
              Records(steps[1], arg.task)
<1> DEFINE codes == BootstrapCodes(m)
<1>1. codes \subseteq BlockingCodes
  BY DEF BootstrapCodes, ValidateVersion, ValidateIntegrity, BlockingCodes
<1>2. CASE name = "bootstrap"
  <2>1. steps = BootstrapSteps(codes) \o <<Answer("judge")>>
    BY <1>2 DEF Operation
  <2> HIDE DEF codes
  <2> QED
    BY <1>1, <1>2, <2>1, BootstrapOperation
<1>3. CASE name = "ingest_master_prompt"
  <2>1. steps = IngestSteps(arg, codes)
    BY <1>3 DEF Operation
  <2> HIDE DEF codes
  <2> QED
    BY <1>1, <1>3, <2>1, IngestOperation
<1>4. CASE name = "post_phase_complete"
  <2>1. steps = PhaseSteps(arg.task, arg.outcome, arg.gate)
    BY <1>4 DEF Operation
  <2> QED
    BY <1>4, <2>1, PhaseOperation
<1>5. CASE name = "pre_documenter"
  <2>1. steps = DocumenterSteps
    BY <1>5 DEF Operation
  <2> QED
    BY <1>5, <2>1, DocumenterOperation
<1>6. CASE name \in {"sync_status", "pre_implement_check", "post_implement"}
  BY <1>6, ShortOperation
<1> QED
  BY <1>2, <1>3, <1>4, <1>5, <1>6 DEF BridgeNames

LEMMA BridgeHandlesKeeps ==
  ASSUME SInv, BridgeHandles
  PROVE  SInv'
<1>1. /\ todo # <<>> /\ todo[1].op = "bridge" /\ Step = todo[1]
      /\ todo[1].name \in BridgeNames /\ AnswersOK /\ StepsOK(todo)
  BY StepInFront DEF BridgeHandles, StepOK, SInv
<1>2. UNCHANGED <<runtime, task, logs, session>> /\ UNCHANGED <<context, handoff>>
      /\ UNCHANGED last /\ result' = Started(todo[1].name)
  BY <1>1 DEF BridgeHandles, paws
<1>3. PICK m \in Manifests :
        Call(Operation(Step.name, Step.arg, m))
  BY DEF BridgeHandles
<1> DEFINE steps == Operation(todo[1].name, todo[1].arg, m)
           name == todo[1].name
<1>4. /\ OperationOK(steps, name)
      /\ name = "post_phase_complete" /\ todo[1].arg.outcome = "completed" =>
           Records(steps[1], todo[1].arg.task)
  BY <1>1, EveryOperation
<1>5. todo' = steps \o Tail(todo)
  BY <1>1, <1>3 DEF Call
<1>6. AnswersOK' /\ (Projects' <=> name \in Projecting)
  BY <1>1, <1>2 DEF AnswersOK, Projects, Started
<1> HIDE DEF steps
<1>7. /\ \A i \in 1 .. Len(steps) - 1 :
           steps[i].op \in OperationOps \ {"answer", "recorded", "running"}
      /\ \A i \in 1 .. Len(steps) :
           steps[i].op \in {"ingest_boot", "ingest_booted"} => Projects'
  <2>1. /\ IsStack(steps) /\ steps[Len(steps)].op = "answer"
        /\ \A i \in 1 .. Len(steps) - 1 :
             \/ steps[i].op \in BodyOps
             \/ steps[i].op = "ingest_boot" /\ name \in Projecting
    BY <1>4 DEF OperationOK
  <2>2. Len(steps) \in Nat
    BY <2>1, LenProperties DEF IsStack
  <2>3. \A i \in 1 .. Len(steps) : i \in 1 .. Len(steps) - 1 \/ i = Len(steps)
    BY <2>2
  <2> HIDE DEF name
  <2>4. \A i \in 1 .. Len(steps) - 1 :
          steps[i].op \in OperationOps \ {"answer", "recorded", "running"}
    BY <2>1 DEF BodyOps, OperationOps
  <2>5. ASSUME NEW i \in 1 .. Len(steps),
               steps[i].op \in {"ingest_boot", "ingest_booted"}
        PROVE  Projects'
    <3>1. i \in 1 .. Len(steps) - 1
      BY <2>1, <2>3, <2>5
    <3>2. steps[i].op \notin BodyOps
      BY <2>5 DEF BodyOps
    <3> QED
      BY <1>6, <2>1, <3>1, <3>2
  <2> QED
    BY <2>4, <2>5
<1>8. /\ IsStack(steps) /\ Len(steps) > 0 /\ steps[Len(steps)].op = "answer"
      /\ Projects' => /\ Len(steps) > 1
                      /\ steps[Len(steps) - 1].op = "sync"
                      /\ steps[Len(steps) - 1].report = TRUE
  BY <1>4, <1>6 DEF OperationOK
<1>9. StepsOK(todo)' /\ (Projects' => ~ (At("answer"))')
  BY <1>1, <1>2, <1>4, <1>5, <1>7, <1>8, InvokeStep
<1> QED
  BY <1>2, <1>6, <1>9 DEF SInv, FilesOK, LoggedIdle, Projected

-----------------------------------------------------------------------------
(* Steps of the orchestrations.                                            *)

\* The step is done, and nothing is called.
LEMMA FlowReturn ==
  ASSUME StepsOK(todo), todo # <<>>, todo[1].op \notin OperationOps, Return,
         UNCHANGED runtime,
         \/ task'.goal = task.goal /\ (IsLogged => IsLogged')
         \/ todo[1].op = "write_task",
         todo[1].op = "write_log" => IsLogged',
         \/ ~AbsorbsPhase(todo[1]) /\ session'.phaseOk = session.phaseOk
         \/ AbsorbsPhase(todo[1]) /\ session'.phaseOk = result.ok,
         todo[1].op = "bridge" /\ todo[1].name = "post_phase_complete" =>
           ~result'.ok
  PROVE  StepsOK(todo)' /\ ~ (At("answer"))'
<1> DEFINE steps == <<>>
<1>1. IsStack(steps) /\ \A i : i \notin 1 .. Len(steps)
  BY StackTuples
<1>2. todo' = steps \o Tail(todo) /\ steps = <<>>
  BY DEF Return, Call
<1>3. Recorded' = Recorded
  BY DEF Recorded
<1> HIDE DEF steps
<1> QED
  BY <1>1, <1>2, <1>3, FlowStep

\* An operation has answered without having been carried out.
LEMMA BridgeReturns ==
  ASSUME SInv, At("bridge"), Return, AnswersOK',
         UNCHANGED <<runtime, context, task, handoff, logs, session>>,
         Step.name = "post_phase_complete" => ~result'.ok
  PROVE  SInv'
<1>1. /\ todo # <<>> /\ todo[1].op = "bridge" /\ Step = todo[1]
      /\ StepsOK(todo)
  BY StepInFront DEF SInv
<1>2. todo[1].op \notin OperationOps /\ ~AbsorbsPhase(todo[1])
  BY <1>1 DEF OperationOps, AbsorbsPhase
<1>3. IsLogged => IsLogged'
  BY DEF IsLogged
<1>4. StepsOK(todo)' /\ ~ (At("answer"))'
  BY <1>1, <1>2, <1>3, FlowReturn
<1> QED
  BY <1>4 DEF SInv, FilesOK, LoggedIdle, Projected

LEMMA RefusalCodes ==
  ASSUME NEW m \in Manifests
  PROVE  Refused(m) \subseteq BlockingCodes
<1>1. m.file \in {"none", "unreadable", "toml"}
  BY ManifestsAssumption
<1>2. /\ LoadManifest(m) \subseteq {"missing_manifest", "invalid_manifest"}
      /\ ValidateSchema(m) \subseteq {"invalid_manifest"}
  BY <1>1 DEF LoadManifest, ValidateSchema
<1>3. /\ ValidateVersion(m) \subseteq {"version_mismatch"}
      /\ ValidateLayout(m, Mode(context)) \subseteq {"layout_conflict"}
  BY DEF ValidateVersion, ValidateLayout
<1> QED
  BY <1>2, <1>3 DEF Refused, Refusals, BlockingCodes

LEMMA BridgeRefusesKeeps ==
  ASSUME SInv, BridgeRefuses
  PROVE  SInv'
<1>1. At("bridge") /\ Return /\ UNCHANGED <<runtime, paws, last, session>>
  BY DEF BridgeRefuses
<1>2. PICK m \in Manifests :
        \E code \in Refused(m) : result' = Failed(Step.name, code)
  BY DEF BridgeRefuses
<1>3. PICK code \in Refused(m) : result' = Failed(Step.name, code)
  BY <1>2
<1>4. code \in Codes
  BY RefusalCodes DEF Codes
<1>5. AnswersOK' /\ result'.ok = FALSE
  BY <1>1, <1>3, <1>4, FailedOK DEF SInv, AnswersOK
<1> QED
  BY <1>1, <1>5, BridgeReturns DEF paws

LEMMA BridgeUnavailableKeeps ==
  ASSUME SInv, BridgeUnavailable
  PROVE  SInv'
<1>1. At("bridge") /\ Return /\ UNCHANGED <<runtime, paws, last, session>>
  BY DEF BridgeUnavailable
<1>2. PICK code \in PingFailures : result' = Failed(Step.name, code)
  BY DEF BridgeUnavailable
<1>3. code \in Codes
  BY AnswersAssumption DEF Codes
<1>4. AnswersOK' /\ result'.ok = FALSE
  BY <1>1, <1>2, <1>3, FailedOK DEF SInv, AnswersOK
<1> QED
  BY <1>1, <1>4, BridgeReturns DEF paws

LEMMA BridgeOfflineKeeps ==
  ASSUME SInv, BridgeOffline
  PROVE  SInv'
<1>1. /\ At("bridge") /\ Return /\ Step.name = "sync_status"
      /\ UNCHANGED <<runtime, context, task, backlog, handoff, logs, last, session>>
      /\ result' = [op |-> "sync_status", ok |-> TRUE,
                    codes |-> {"orchestration_offline", "vedaws_missing"}]
  BY DEF BridgeOffline
<1>2. AnswersOK'
  BY <1>1 DEF SInv, AnswersOK, Codes, BlockingCodes
<1> QED
  BY <1>1, <1>2, BridgeReturns

LEMMA BridgeFailsKeeps ==
  ASSUME SInv, BridgeFails
  PROVE  SInv'
<1>1. At("bridge") /\ Return /\ UNCHANGED <<runtime, paws, last, session>>
  BY DEF BridgeFails
<1>2. AnswersOK' /\ result'.ok = FALSE
  BY <1>1, FailedOK DEF SInv, AnswersOK, BridgeFails, Codes
<1> QED
  BY <1>1, <1>2, BridgeReturns DEF paws

\* A file is written that says nothing of the task.
LEMMA FlowWrites ==
  ASSUME SInv, todo # <<>>, todo[1].op \notin OperationOps \cup
           {"bridge", "absorb", "write_task", "write_log"},
         Return, UNCHANGED <<runtime, last, result, session, logs>>,
         task'.goal = task.goal, FilesOK', LoggedIdle'
  PROVE  SInv'
<1>1. StepsOK(todo) /\ ~AbsorbsPhase(todo[1]) /\ AnswersOK /\ ProjectOK(runtime)
  BY DEF SInv, AbsorbsPhase
<1>2. IsLogged => IsLogged'
  BY DEF IsLogged
<1>3. StepsOK(todo)' /\ ~ (At("answer"))'
  BY <1>1, <1>2, FlowReturn
<1>4. AnswersOK' /\ ProjectOK(runtime')
  BY <1>1 DEF AnswersOK
<1> QED
  BY <1>3, <1>4 DEF SInv, Projected

LEMMA WriteContextKeeps ==
  ASSUME SInv, WriteContext
  PROVE  SInv'
<1>1. /\ todo # <<>> /\ todo[1].op = "write_context" /\ Step = todo[1]
      /\ todo[1].with \in Prompts
  BY StepInFront DEF WriteContext, StepOK
<1>2. /\ Return /\ UNCHANGED <<runtime, last, result, session, logs>>
      /\ UNCHANGED <<task, handoff>>
      /\ context' = MergeContext(context, todo[1].with.updates)
  BY <1>1 DEF WriteContext
<1> DEFINE u == todo[1].with.updates.mode
<1>3. u = NoValue \/ u \in KnownModes
  BY <1>1 DEF KnownModes
<1>4. (context = NoFile \/ context.mode \in KnownModes)
  BY DEF SInv, FilesOK
<1>5. "sidecar" \in KnownModes
  BY DEF KnownModes
<1>6. context'.mode = Replaced((IF context = NoFile THEN DefaultContext ELSE context).mode, u)
  BY <1>2 DEF MergeContext
<1>7. context'.mode \in KnownModes
  BY <1>3, <1>4, <1>5, <1>6 DEF Replaced, DefaultContext
<1>8. FilesOK' /\ LoggedIdle'
  BY <1>2, <1>7 DEF SInv, FilesOK, LoggedIdle
<1> QED
  BY <1>1, <1>2, <1>8, FlowWrites DEF OperationOps

LEMMA WriteBacklogKeeps ==
  ASSUME SInv, WriteBacklog
  PROVE  SInv'
<1>1. todo # <<>> /\ todo[1].op = "write_backlog"
  BY StepInFront DEF WriteBacklog
<1>2. /\ Return /\ UNCHANGED <<runtime, last, result, session, logs>>
      /\ UNCHANGED <<context, task, handoff>>
  BY DEF WriteBacklog
<1>3. FilesOK' /\ LoggedIdle'
  BY <1>2 DEF SInv, FilesOK, LoggedIdle
<1> QED
  BY <1>1, <1>2, <1>3, FlowWrites DEF OperationOps

LEMMA WriteTheHandoffKeeps ==
  ASSUME SInv, WriteTheHandoff
  PROVE  SInv'
<1>1. todo # <<>> /\ todo[1].op = "write_handoff"
  BY StepInFront DEF WriteTheHandoff
<1>2. /\ Return /\ UNCHANGED <<runtime, last, result, session, logs>>
      /\ UNCHANGED <<context, task>>
      /\ handoff' = WriteHandoff(handoff, Step.with)
  BY DEF WriteTheHandoff
<1>3. \E b : handoff' = [built |-> b, dated |-> TRUE]
  BY <1>2 DEF SInv, FilesOK, WriteHandoff, UpsertFooter, EmptyHandoff
<1>4. FilesOK' /\ LoggedIdle'
  BY <1>2, <1>3 DEF SInv, FilesOK, LoggedIdle
<1> QED
  BY <1>1, <1>2, <1>4, FlowWrites DEF OperationOps

LEMMA WriteProgressKeeps ==
  ASSUME SInv, WriteProgress
  PROVE  SInv'
<1>1. todo # <<>> /\ todo[1].op = "write_progress"
  BY StepInFront DEF WriteProgress
<1>2. /\ Return /\ UNCHANGED <<runtime, last, result, session, logs>>
      /\ UNCHANGED <<context, handoff>>
      /\ task' = WithProgress(task)
  BY DEF WriteProgress
<1>3. task' = [status |-> task.status, goal |-> task.goal, progress |-> TRUE]
  BY <1>2 DEF SInv, FilesOK, WithProgress
<1>4. FilesOK' /\ LoggedIdle' /\ task'.goal = task.goal
  BY <1>2, <1>3 DEF SInv, FilesOK, LoggedIdle
<1> QED
  BY <1>1, <1>2, <1>4, FlowWrites DEF OperationOps

LEMMA WriteTaskKeeps ==
  ASSUME SInv, WriteTask
  PROVE  SInv'
<1>1. todo # <<>> /\ todo[1].op = "write_task" /\ StepsOK(todo)
  BY StepInFront DEF WriteTask, SInv
<1>2. /\ Return /\ UNCHANGED <<runtime, last, result, session, logs>>
      /\ UNCHANGED <<context, handoff>>
      /\ task' = StartedTask(Step.with.task.goal)
  BY DEF WriteTask
<1>3. todo[1].op \notin OperationOps /\ ~AbsorbsPhase(todo[1])
  BY <1>1 DEF OperationOps, AbsorbsPhase
<1>4. StepsOK(todo)' /\ ~ (At("answer"))'
  BY <1>1, <1>2, <1>3, FlowReturn
<1>5. FilesOK' /\ LoggedIdle'
  BY <1>2 DEF SInv, FilesOK, LoggedIdle, StartedTask
<1>6. AnswersOK' /\ ProjectOK(runtime')
  BY <1>2 DEF SInv, AnswersOK
<1> QED
  BY <1>4, <1>5, <1>6 DEF SInv, Projected

LEMMA AbsorbResultKeeps ==
  ASSUME SInv, AbsorbResult
  PROVE  SInv'
<1>1. /\ todo # <<>> /\ todo[1].op = "absorb" /\ Step = todo[1]
      /\ StepsOK(todo) /\ AnswersOK
  BY StepInFront DEF AbsorbResult, SInv
<1>2. /\ Return /\ result' = NoResult /\ UNCHANGED <<runtime, last>>
      /\ UNCHANGED <<context, task, handoff, logs>>
  BY DEF AbsorbResult, paws
<1>3. session'.phaseOk = IF todo[1].how = "phase" THEN result.ok
                         ELSE session.phaseOk
  BY <1>1 DEF AbsorbResult
<1>4. todo[1].op \notin OperationOps
  BY <1>1 DEF OperationOps
<1>5. IsLogged => IsLogged'
  BY <1>2 DEF IsLogged
<1>6. StepsOK(todo)' /\ ~ (At("answer"))'
  BY <1>1, <1>2, <1>3, <1>4, <1>5, FlowReturn DEF AbsorbsPhase
<1>7. session' \in [blocked : BOOLEAN, phaseOk : BOOLEAN]
  <2> DEFINE b == \/ session.blocked
                  \/ CASE Step.how = "gate" -> ShouldBlock(result)
                       [] Step.how = "failures" ->
                            ~result.ok /\ HasBlockers(result)
                       [] OTHER -> HasBlockers(result)
             p == IF Step.how = "phase" THEN result.ok ELSE session.phaseOk
  <2>1. session' = [blocked |-> b, phaseOk |-> p]
    BY DEF AbsorbResult
  <2>2. p \in BOOLEAN
    BY <1>1 DEF AnswersOK
  <2>3. b \in BOOLEAN
    OBVIOUS
  <2> HIDE DEF b, p
  <2> QED
    BY <2>1, <2>2, <2>3
<1>8. AnswersOK'
  BY <1>1, <1>2, <1>7 DEF AnswersOK, NoResult
<1> QED
  BY <1>2, <1>6, <1>8 DEF SInv, FilesOK, LoggedIdle, Projected

LEMMA WriteTheLogKeeps ==
  ASSUME SInv, WriteTheLog
  PROVE  SInv'
<1>1. /\ todo # <<>> /\ todo[1].op = "write_log" /\ Step = todo[1]
      /\ StepsOK(todo) /\ 1 \in 1 .. Len(todo)
  BY StepInFront DEF WriteTheLog, SInv
<1>2. /\ Return /\ UNCHANGED <<runtime, last, result, session>>
      /\ UNCHANGED <<context, task, handoff>>
  BY DEF WriteTheLog
<1>3. todo[1].goal = task.goal
  BY <1>1 DEF StepsOK, Closes
<1>4. logs \subseteq logs' /\ \E l \in logs' : l.goal = task.goal
  <2> DEFINE entry == [goal |-> Step.goal, task |-> Step.task]
  <2>1. \/ logs' = logs /\ \E l \in logs : l.goal = Step.goal
        \/ logs' = logs \cup {entry}
    BY DEF WriteTheLog, WriteLog
  <2>2. entry.goal = task.goal /\ Step.goal = task.goal
    BY <1>1, <1>3
  <2> HIDE DEF entry
  <2> QED
    BY <2>1, <2>2
<1>5. IsLogged'
  BY <1>2, <1>4 DEF IsLogged
<1>6. todo[1].op \notin OperationOps /\ ~AbsorbsPhase(todo[1])
  BY <1>1 DEF OperationOps, AbsorbsPhase
<1>7. StepsOK(todo)' /\ ~ (At("answer"))'
  BY <1>1, <1>2, <1>5, <1>6, FlowReturn
<1>8. FilesOK' /\ LoggedIdle'
  BY <1>2, <1>4 DEF SInv, FilesOK, LoggedIdle
<1>9. AnswersOK' /\ ProjectOK(runtime')
  BY <1>2 DEF SInv, AnswersOK
<1> QED
  BY <1>7, <1>8, <1>9 DEF SInv, Projected

LEMMA SetTaskStatusKeeps ==
  ASSUME SInv, SetTaskStatus
  PROVE  SInv'
<1>1. /\ todo # <<>> /\ todo[1].op = "set_status" /\ todo[1].with = "idle"
      /\ Step = todo[1] /\ StepsOK(todo) /\ 1 \in 1 .. Len(todo)
  BY StepInFront DEF SetTaskStatus, StepOK, SInv
<1>2. /\ Return /\ UNCHANGED <<runtime, last, result, session, logs>>
      /\ UNCHANGED <<context, handoff>>
      /\ task' = WithStatus(task, "idle")
  BY <1>1 DEF SetTaskStatus
<1>3. \E l \in logs : l.goal = task.goal
  <2>1. IsLogged \/ \E j \in 1 .. 1 - 1 : todo[j].op = "write_log"
    BY <1>1 DEF StepsOK, Closes
  <2> QED
    BY <2>1 DEF IsLogged
<1>4. \/ task' = task
      \/ task' = [status |-> "idle", goal |-> task.goal,
                  progress |-> task.progress]
  BY <1>2 DEF SInv, FilesOK, WithStatus
<1>5. FilesOK' /\ LoggedIdle' /\ task'.goal = task.goal
  BY <1>2, <1>3, <1>4 DEF SInv, FilesOK, LoggedIdle
<1> QED
  BY <1>1, <1>2, <1>5, FlowWrites DEF OperationOps

LEMMA EndFlowKeeps ==
  ASSUME SInv, EndFlow
  PROVE  SInv'
<1>1. /\ todo # <<>> /\ todo[1].op = "end" /\ Step = todo[1]
      /\ StepsOK(todo) /\ 1 \in 1 .. Len(todo)
  BY StepInFront DEF EndFlow, SInv
<1>2. Len(todo) = 1 /\ todo \in Seq(ToSet(todo))
  BY <1>1 DEF StepsOK, Layered, IsStack
<1>3. todo' = <<>>
  BY <1>2 DEF EndFlow, Return, Call
<1>4. /\ result' = NoResult /\ session' = Fresh /\ UNCHANGED <<runtime, last>>
      /\ UNCHANGED <<context, task, handoff, logs>>
  BY DEF EndFlow, paws
<1>5. AnswersOK'
  BY <1>4 DEF SInv, AnswersOK, NoResult, Fresh
<1>6. StepsOK(todo)' /\ ~ (At("answer"))'
  BY <1>3, NothingLeft
<1> QED
  BY <1>4, <1>5, <1>6 DEF SInv, FilesOK, LoggedIdle, Projected

LEMMA KilledKeeps ==
  ASSUME SInv, Killed
  PROVE  SInv'
<1>1. /\ result' = NoResult /\ session' = Fresh /\ last' = TRUE
      /\ todo' = <<>> /\ UNCHANGED <<runtime, context, task, handoff, logs>>
  BY DEF Killed, paws
<1>2. AnswersOK'
  BY <1>1 DEF AnswersOK, NoResult, Fresh
<1>3. StepsOK(todo)' /\ ~ (At("answer"))'
  BY <1>1, NothingLeft
<1> QED
  BY <1>1, <1>2, <1>3 DEF SInv, FilesOK, LoggedIdle, Projected

LEMMA OperatorKeeps ==
  ASSUME SInv, OperatorTransition
  PROVE  SInv'
<1>1. PICK s \in OperatorStates :
        Obeys("transition", s) /\ runtime' = Effect("transition", s)
  BY DEF OperatorTransition
<1>2. todo' = <<>> /\ UNCHANGED <<last, result, session>>
      /\ UNCHANGED <<context, task, handoff, logs>>
  BY DEF OperatorTransition, paws, Idle
<1>3. ProjectOK(runtime')
  BY <1>1, EffectOK DEF SInv, CliNames
<1>4. StepsOK(todo)' /\ ~ (At("answer"))'
  BY <1>2, NothingLeft
<1> QED
  BY <1>2, <1>3, <1>4 DEF SInv, FilesOK, LoggedIdle, Projected, AnswersOK

\* Steps an orchestration may begin with, unless it completes a phase.
Calm(s) ==
  /\ StepOK(s) /\ ~AbsorbsPhase(s)
  /\ s.op \in {"bridge", "absorb", "booted", "write_context", "write_task",
               "write_backlog", "write_handoff", "write_progress"}

IsCalm(steps) ==
  IsStack(steps) /\ \A i \in 1 .. Len(steps) : Calm(steps[i])

(***************************************************************************)
(* What an orchestration may begin with: a close-out is about the goal in  *)
(* the file, and follows the completion of its task.                       *)
(***************************************************************************)
Opens(steps, goal) ==
  /\ IsStack(steps)
  /\ \A i \in 1 .. Len(steps) :
       /\ steps[i].op \notin OperationOps \cup {"end", "write_log", "set_status"}
       /\ AbsorbsPhase(steps[i]) => i = 2
       /\ steps[i].op = "close_out" =>
            /\ i > 2 /\ steps[i].goal = goal
            /\ \A j \in 1 .. Len(steps) : steps[j].op # "write_task"
            /\ AbsorbsPhase(steps[2]) /\ steps[1].op = "bridge"
            /\ steps[1].name = "post_phase_complete"
            /\ steps[1].arg.task = steps[i].task
            /\ steps[1].arg.outcome = "completed"

LEMMA FlowBegins ==
  ASSUME SInv, NEW steps, Begin(steps), Opens(steps, task.goal)
  PROVE  SInv'
<1> DEFINE new == todo'
           n == Len(steps)
<1>1. new = Append(steps, End)
  BY DEF Begin
<1>2. UNCHANGED <<runtime, last, result, session>>
      /\ UNCHANGED <<context, task, handoff, logs>>
  BY DEF Begin, paws
<1>3. IsStack(steps) /\ steps \in Seq(ToSet(steps)) /\ n \in Nat
  BY LenProperties DEF Opens, IsStack
<1>4. StepOK(End) /\ End.op = "end"
  BY PlainOK DEF End
<1>5. /\ Len(new) = n + 1
      /\ \A i \in 1 .. Len(new) :
           \/ i \in 1 .. n /\ new[i] = steps[i]
           \/ i = n + 1 /\ new[i] = End
  <2>1. steps \in Seq(ToSet(steps) \cup {End})
    BY <1>3, SeqMonotonic
  <2> HIDE DEF End
  <2> QED
    BY <1>1, <1>3, <2>1, AppendProperties
<1>6. IsStack(new)
  <2>1. new \in Seq(ToSet(steps) \cup {End})
    <3>1. steps \in Seq(ToSet(steps) \cup {End})
      BY <1>3, SeqMonotonic
    <3> QED
      BY <1>1, <3>1, AppendProperties
  <2>2. new \in Seq(Range(new)) /\ Range(new) = ToSet(new)
    <3>1. new \in Seq(Range(new))
      BY <2>1, SeqOfRange
    <3>2. Range(new) = ToSet(new)
      BY DEF ToSet, Range
    <3> QED
      BY <3>1, <3>2
  <2> HIDE DEF new
  <2>3. \A i \in 1 .. Len(new) : StepOK(new[i])
    BY <1>3, <1>4, <1>5 DEF IsStack
  <2> QED
    BY <2>2, <2>3 DEF IsStack
<1> HIDE DEF new, n
<1>7. \A i \in 1 .. Len(new) : i \in 1 .. n \/ (i = n + 1 /\ new[i].op = "end")
  BY <1>4, <1>5
<1>8. \A i \in 1 .. n : i \in 1 .. Len(new) /\ new[i] = steps[i]
  BY <1>3, <1>5
<1>9. \A i \in 1 .. Len(new) :
        new[i].op \notin OperationOps \cup {"write_log", "set_status"}
  BY <1>7, <1>8 DEF Opens, OperationOps, n
<1>10. Layered(new)
  <2>1. \A i \in 1 .. Len(new) : new[i].op = "end" => i = Len(new)
    <3>1. \A i \in 1 .. n : new[i].op # "end"
      BY <1>8 DEF Opens, n
    <3> QED
      BY <1>5, <1>7, <3>1
  <2> QED
    BY <1>9, <2>1 DEF Layered
<1>11. \A i \in 1 .. Len(new) : AbsorbsPhase(new[i]) => i = 2
  BY <1>7, <1>8 DEF Opens, n, AbsorbsPhase
<1>12. ASSUME NEW i \in 1 .. Len(new), new[i].op = "close_out"
       PROVE  /\ i > 2 /\ i \in 1 .. n /\ new[i].goal = task.goal
              /\ \A j \in 1 .. Len(new) : new[j].op # "write_task"
              /\ AbsorbsPhase(new[2]) /\ new[1].op = "bridge"
              /\ new[1].name = "post_phase_complete"
              /\ new[1].arg.task = new[i].task
              /\ new[1].arg.outcome = "completed"
  <2>1. i \in 1 .. n /\ new[i] = steps[i]
    BY <1>7, <1>8, <1>12
  <2>2. /\ i > 2 /\ steps[i].goal = task.goal
        /\ \A j \in 1 .. n : steps[j].op # "write_task"
        /\ AbsorbsPhase(steps[2]) /\ steps[1].op = "bridge"
        /\ steps[1].name = "post_phase_complete"
        /\ steps[1].arg.task = steps[i].task
        /\ steps[1].arg.outcome = "completed"
    BY <1>12, <2>1 DEF Opens, n
  <2>3. 1 \in 1 .. n /\ 2 \in 1 .. n
    BY <1>3, <2>1, <2>2
  <2>4. new[1] = steps[1] /\ new[2] = steps[2]
    BY <1>8, <2>3
  <2>5. \A j \in 1 .. Len(new) : new[j].op # "write_task"
    BY <1>7, <1>8, <2>2
  <2> QED
    BY <2>1, <2>2, <2>4, <2>5
<1>13. Closes(new, task.goal, IsLogged)
  <2>1. ASSUME NEW i \in 1 .. Len(new), new[i].op \in ClosingOps
        PROVE  new[i].op = "close_out"
    BY <1>9, <2>1 DEF ClosingOps
  <2>2. ASSUME NEW i \in 1 .. Len(new), NEW j \in 1 .. Len(new),
               new[i].op \in ClosingOps
        PROVE  new[j].op # "write_task"
    BY <1>12, <2>1, <2>2
  <2>3. \A i \in 1 .. Len(new) :
          new[i].op \in {"close_out", "write_log"} => new[i].goal = task.goal
    BY <1>9, <1>12
  <2> QED
    BY <1>9, <2>2, <2>3 DEF Closes
<1>14. Promised(new, Recorded, session.phaseOk, result.ok)
  <2>1. ASSUME NEW i \in 1 .. Len(new), new[i].op = "close_out"
        PROVE  \E k \in 1 .. i - 1 :
                 AbsorbsPhase(new[k]) /\ Underway(new, result.ok, k, new[i].task)
    <3>1. 2 \in 1 .. i - 1
      BY <1>12, <2>1
    <3>2. Underway(new, result.ok, 2, new[i].task)
      BY <1>12, <2>1 DEF Underway
    <3> QED
      BY <1>12, <2>1, <3>1, <3>2
  <2>2. \A i, j \in 1 .. Len(new) :
          AbsorbsPhase(new[i]) /\ AbsorbsPhase(new[j]) => i = j
    BY <1>11
  <2> QED
    BY <1>9, <2>1, <2>2 DEF Promised
<1>15. Checked(new, Recorded, last) /\ Synced(new, Projects) /\ Executes(new, runtime)
  <2>1. \A i \in 1 .. Len(new) : new[i].op \notin
          {"recorded", "answer", "ingest_boot", "ingest_booted", "running"}
    BY <1>9 DEF OperationOps
  <2>2. \A i \in 2 .. Len(new) : i \in 1 .. Len(new)
    BY <1>3, <1>5
  <2> QED
    BY <2>1, <2>2 DEF Checked, Synced, Executes
<1>16. StepsOK(new)
  BY <1>6, <1>10, <1>13, <1>14, <1>15 DEF StepsOK
<1>17. StepsOK(todo)'
  <2>1. /\ Closes(new, task'.goal, IsLogged')
        /\ Promised(new, Recorded', session'.phaseOk, result'.ok)
        /\ Checked(new, Recorded', last') /\ Synced(new, Projects')
        /\ Executes(new, runtime')
    BY <1>2, <1>13, <1>14, <1>15 DEF IsLogged, Recorded, Projects
  <2> QED
    BY <1>6, <1>10, <2>1 DEF StepsOK, new
<1>18. ~ (At("answer"))'
  <2>1. 1 \in 1 .. Len(new) /\ new # <<>> /\ new[1] = Head(new)
    <3>1. new \in Seq(ToSet(new)) /\ Len(new) # 0 /\ Len(new) \in Nat
      BY <1>3, <1>5, <1>6 DEF IsStack
    <3> QED
      BY <3>1, EmptySeq, LenProperties, HeadTailProperties
  <2>2. new[1].op # "answer"
    BY <1>9, <2>1 DEF OperationOps
  <2> QED
    BY <2>1, <2>2 DEF At, new
<1> QED
  BY <1>2, <1>17, <1>18 DEF SInv, FilesOK, LoggedIdle, Projected, AnswersOK

LEMMA CalmOpens ==
  ASSUME NEW steps, IsCalm(steps), NEW goal
  PROVE  Opens(steps, goal)
BY DEF IsCalm, Calm, Opens, OperationOps

LEMMA CalmTuples ==
  /\ IsCalm(<<>>)
  /\ \A a : Calm(a) => IsCalm(<<a>>)
  /\ \A a, b : Calm(a) /\ Calm(b) => IsCalm(<<a, b>>)
  /\ \A a, b, c : Calm(a) /\ Calm(b) /\ Calm(c) => IsCalm(<<a, b, c>>)
  /\ \A a, b, c, d, e : Calm(a) /\ Calm(b) /\ Calm(c) /\ Calm(d) /\ Calm(e) =>
       IsCalm(<<a, b, c, d, e>>)
<1>1. IsCalm(<<>>)
  BY StackTuples DEF IsCalm
<1>2. ASSUME NEW a, Calm(a) PROVE IsCalm(<<a>>)
  BY <1>2, StackTuples DEF IsCalm, Calm
<1>3. ASSUME NEW a, NEW b, Calm(a), Calm(b) PROVE IsCalm(<<a, b>>)
  BY <1>3, StackTuples DEF IsCalm, Calm
<1>4. ASSUME NEW a, NEW b, NEW c, Calm(a), Calm(b), Calm(c)
      PROVE  IsCalm(<<a, b, c>>)
  BY <1>4, StackTuples DEF IsCalm, Calm
<1>5. ASSUME NEW a, NEW b, NEW c, NEW d, NEW e,
             Calm(a), Calm(b), Calm(c), Calm(d), Calm(e)
      PROVE  IsCalm(<<a, b, c, d, e>>)
  <2> DEFINE st == <<a, b, c, d, e>>
  <2>1. st \in Seq(ToSet(st)) /\ Len(st) = 5
    BY DEF ToSet
  <2>2. \A i \in 1 .. 5 : Calm(st[i])
    BY <1>5
  <2>3. \A i \in 1 .. 5 : StepOK(st[i])
    BY <2>2 DEF Calm
  <2> HIDE DEF st
  <2>4. IsCalm(st)
    BY <2>1, <2>2, <2>3 DEF IsCalm, IsStack
  <2> QED
    BY <2>4 DEF st
<1> QED
  BY <1>1, <1>2, <1>3, <1>4, <1>5

LEMMA CalmConcat ==
  ASSUME NEW a, NEW b, IsCalm(a), IsCalm(b)
  PROVE  IsCalm(a \o b)
BY StackConcat DEF IsCalm

LEMMA CalmSteps ==
  /\ \A arg : \A name \in BridgeNames : Calm(Bridge(name, arg))
  /\ \A how : how # "phase" => Calm(Absorb(how))
  /\ Calm(Plain("booted")) /\ Calm(Plain("write_progress"))
  /\ \A doc \in Prompts : /\ Calm(Writes("write_context", doc))
                          /\ Calm(Writes("write_task", doc))
                          /\ Calm(Writes("write_backlog", doc))
  /\ \A goal : Calm(Writes("write_handoff", goal))
BY DEF Calm, StepOK, AbsorbsPhase, Bridge, Absorb, Plain, Writes

LEMMA SyncAfterCalm == IsCalm(SyncAfter)
BY CalmTuples, CalmSteps DEF SyncAfter, BridgeNames

LEMMA StartupKeeps ==
  ASSUME SInv, Startup
  PROVE  SInv'
<1> DEFINE boot == <<Bridge("bootstrap", NoValue), Plain("booted")>>
           steps == (IF runtime.project = "none" THEN boot ELSE <<>>) \o SyncAfter
<1>1. IsCalm(boot) /\ IsCalm(<<>>)
  BY CalmTuples, CalmSteps DEF BridgeNames
<1>2. Begin(steps)
  BY DEF Startup
<1>3. IsCalm(steps)
  <2> HIDE DEF boot
  <2>1. CASE runtime.project = "none"
    <3>1. steps = boot \o SyncAfter
      BY <2>1
    <3> HIDE DEF steps
    <3> QED
      BY <1>1, <3>1, SyncAfterCalm, CalmConcat
  <2>2. CASE runtime.project # "none"
    <3>1. steps = <<>> \o SyncAfter
      BY <2>2
    <3> HIDE DEF steps
    <3> QED
      BY <1>1, <3>1, SyncAfterCalm, CalmConcat
  <2> QED
    BY <2>1, <2>2
<1> HIDE DEF steps
<1>4. Opens(steps, task.goal)
  BY <1>3, CalmOpens
<1> QED
  BY <1>2, <1>4, FlowBegins

LEMMA IngestKeeps ==
  ASSUME SInv, Ingest
  PROVE  SInv'
<1>1. PICK doc \in Prompts, force \in ForcedPhases :
        LET found == ResolvePhase(PhaseHint(doc.task), doc.task.substrings,
                                  force)
        IN  Begin(<<Writes("write_context", doc), Writes("write_task", doc),
                    Writes("write_backlog", doc),
                    Bridge("ingest_master_prompt", found.phase), Absorb("all")>>
                    \o SyncAfter \o <<Writes("write_handoff", doc.task.goal)>>)
  BY Zenon DEF Ingest
<1> DEFINE found == ResolvePhase(PhaseHint(doc.task), doc.task.substrings, force)
           files == <<Writes("write_context", doc), Writes("write_task", doc),
                      Writes("write_backlog", doc),
                      Bridge("ingest_master_prompt", found.phase), Absorb("all")>>
           seed == <<Writes("write_handoff", doc.task.goal)>>
           steps == files \o SyncAfter \o seed
<1>2. Begin(steps)
  BY <1>1
<1> HIDE DEF found
<1>3. IsCalm(files)
  <2>1. "ingest_master_prompt" \in BridgeNames
    BY DEF BridgeNames
  <2>2. /\ Calm(Writes("write_context", doc)) /\ Calm(Writes("write_task", doc))
        /\ Calm(Writes("write_backlog", doc))
        /\ Calm(Bridge("ingest_master_prompt", found.phase))
        /\ Calm(Absorb("all"))
    BY <2>1, CalmSteps
  <2> QED
    BY <2>2, CalmTuples
<1>4. IsCalm(seed)
  BY CalmTuples, CalmSteps
<1> HIDE DEF files, seed
<1>5. IsCalm(files \o SyncAfter)
  BY <1>3, SyncAfterCalm, CalmConcat
<1>6. IsCalm(steps)
  BY <1>4, <1>5, CalmConcat
<1> HIDE DEF steps
<1>7. Opens(steps, task.goal)
  BY <1>6, CalmOpens
<1> QED
  BY <1>2, <1>7, FlowBegins

\* Implement, and the two gates.
LEMMA ShortFlowsKeep ==
  ASSUME SInv, Gate \/ Implement \/ Documenter
  PROVE  SInv'
<1>1. CASE Gate
  <2> DEFINE steps == <<Bridge("pre_implement_check", NoValue), Absorb("gate")>>
  <2>1. IsCalm(steps)
    BY CalmTuples, CalmSteps DEF BridgeNames
  <2>2. Begin(steps)
    BY <1>1 DEF Gate
  <2> HIDE DEF steps
  <2> QED
    BY <2>1, <2>2, CalmOpens, FlowBegins
<1>2. CASE Documenter
  <2> DEFINE steps == <<Bridge("pre_documenter", NoValue), Absorb("gate")>>
  <2>1. IsCalm(steps)
    BY CalmTuples, CalmSteps DEF BridgeNames
  <2>2. Begin(steps)
    BY <1>2 DEF Documenter
  <2> HIDE DEF steps
  <2> QED
    BY <2>1, <2>2, CalmOpens, FlowBegins
<1>3. CASE Implement
  <2> DEFINE front == <<Plain("write_progress"),
                        Bridge("post_implement", NoValue), Absorb("failures")>>
             steps == front \o SyncAfter
  <2>1. IsCalm(front)
    BY CalmTuples, CalmSteps DEF BridgeNames
  <2>2. Begin(steps)
    BY <1>3 DEF Implement
  <2> HIDE DEF front
  <2>3. IsCalm(steps)
    BY <2>1, SyncAfterCalm, CalmConcat
  <2> HIDE DEF steps
  <2> QED
    BY <2>2, <2>3, CalmOpens, FlowBegins
<1> QED
  BY <1>1, <1>2, <1>3

\* Steps that leave the task alone.
LeavesTask(s) == Calm(s) /\ s.op \notin {"write_task", "close_out"}

LEMMA CompleteKeeps ==
  ASSUME SInv, Complete
  PROVE  SInv'
<1>1. PICK report \in Reports :
        Begin(<<Bridge("post_phase_complete", report), Absorb("phase")>>
                \o SyncAfter \o Closing(report.task, report.outcome, task.goal))
  BY DEF Complete
<1> DEFINE front == <<Bridge("post_phase_complete", report), Absorb("phase")>>
           close == Closing(report.task, report.outcome, task.goal)
           head == front \o SyncAfter
           steps == head \o close
<1>2. Begin(steps)
  BY <1>1
<1>3. /\ IsStack(front) /\ Len(front) = 2
      /\ front[1] = Bridge("post_phase_complete", report)
      /\ front[2] = Absorb("phase")
  <2>1. StepOK(Bridge("post_phase_complete", report)) /\ StepOK(Absorb("phase"))
    BY DEF StepOK, Bridge, Absorb, BridgeNames
  <2> QED
    BY <2>1, StackTuples
<1>4. /\ IsStack(close)
      /\ \A i \in 1 .. Len(close) :
           /\ close[i].op = "close_out" /\ close[i].goal = task.goal
           /\ close[i].task = report.task /\ report.outcome = "completed"
  <2> DEFINE a == [op |-> "close_out", task |-> report.task, goal |-> task.goal]
  <2>1. StepOK(a) /\ a.op = "close_out" /\ a.goal = task.goal /\ a.task = report.task
    BY DEF StepOK
  <2> HIDE DEF a
  <2>2. CASE report.outcome = "completed"
    <3>1. close = <<a>>
      BY <2>2 DEF Closing, a
    <3> QED
      BY <2>1, <2>2, <3>1, StackTuples
  <2>3. CASE report.outcome # "completed"
    <3>1. close = <<>>
      BY <2>3 DEF Closing
    <3> QED
      BY <3>1, StackTuples
  <2> QED
    BY <2>2, <2>3
<1>5. /\ IsStack(SyncAfter)
      /\ \A i \in 1 .. Len(SyncAfter) : LeavesTask(SyncAfter[i])
  <2>1. /\ SyncAfter[1] = Bridge("sync_status", NoValue)
        /\ SyncAfter[2] = Absorb("all") /\ Len(SyncAfter) = 2
    BY StackTuples DEF SyncAfter
  <2> QED
    BY <2>1, SyncAfterCalm DEF IsCalm, LeavesTask, Bridge, Absorb
<1> HIDE DEF front, close
<1>6. /\ IsStack(head) /\ Len(head) \in Nat /\ Len(head) >= 2
      /\ head[1] = front[1] /\ head[2] = front[2]
      /\ \A i \in 1 .. Len(head) : i \in {1, 2} \/ LeavesTask(head[i])
  <2>1. /\ IsStack(head) /\ Len(head) = 2 + Len(SyncAfter)
        /\ Len(SyncAfter) \in Nat
        /\ \A i \in 1 .. Len(head) :
             \/ i \in 1 .. 2 /\ head[i] = front[i]
             \/ i - 2 \in 1 .. Len(SyncAfter) /\ head[i] = SyncAfter[i - 2]
    <3>1. /\ IsStack(head) /\ Len(head) = Len(front) + Len(SyncAfter)
          /\ Len(SyncAfter) \in Nat
          /\ \A i \in 1 .. Len(head) :
               \/ i \in 1 .. Len(front) /\ head[i] = front[i]
               \/ i - Len(front) \in 1 .. Len(SyncAfter)
                    /\ head[i] = SyncAfter[i - Len(front)]
      BY <1>3, <1>5, StackConcat
    <3> HIDE DEF head
    <3> QED
      BY <1>3, <3>1
  <2> HIDE DEF head
  <2>2. Len(head) \in Nat /\ Len(head) >= 2
    BY <2>1
  <2>3. head[1] = front[1] /\ head[2] = front[2]
    BY <2>1, <2>2
  <2>4. \A i \in 1 .. Len(head) : i \in {1, 2} \/ LeavesTask(head[i])
    BY <1>5, <2>1
  <2> QED
    BY <2>1, <2>2, <2>3, <2>4
<1> HIDE DEF head
<1>7. /\ IsStack(steps)
      /\ \A i \in 1 .. Len(steps) :
           \/ i \in 1 .. Len(head) /\ steps[i] = head[i]
           \/ i > 2 /\ i - Len(head) \in 1 .. Len(close)
                /\ steps[i] = close[i - Len(head)]
      /\ Len(steps) >= 2 /\ Len(steps) \in Nat
  <2>1. /\ IsStack(steps) /\ Len(steps) = Len(head) + Len(close)
        /\ Len(close) \in Nat
        /\ \A i \in 1 .. Len(steps) :
             \/ i \in 1 .. Len(head) /\ steps[i] = head[i]
             \/ i - Len(head) \in 1 .. Len(close)
                  /\ steps[i] = close[i - Len(head)]
    BY <1>4, <1>6, StackConcat
  <2> HIDE DEF steps
  <2> QED
    BY <1>6, <2>1
<1> HIDE DEF steps
<1>8. steps[1] = front[1] /\ steps[2] = front[2]
  BY <1>6, <1>7
<1>9. ASSUME NEW i \in 1 .. Len(steps)
      PROVE  \/ i = 1 /\ steps[i] = Bridge("post_phase_complete", report)
             \/ i = 2 /\ steps[i] = Absorb("phase")
             \/ LeavesTask(steps[i])
             \/ /\ i > 2 /\ steps[i].op = "close_out"
                /\ steps[i].goal = task.goal /\ steps[i].task = report.task
                /\ report.outcome = "completed"
  <2>1. CASE i = 1
    BY <1>3, <1>8, <2>1
  <2>2. CASE i = 2
    BY <1>3, <1>8, <2>2
  <2>3. CASE i \in 1 .. Len(head) /\ steps[i] = head[i] /\ i \notin {1, 2}
    BY <1>6, <2>3
  <2>4. CASE i > 2 /\ i - Len(head) \in 1 .. Len(close)
               /\ steps[i] = close[i - Len(head)]
    BY <1>4, <2>4
  <2> QED
    BY <1>7, <2>1, <2>2, <2>3, <2>4
<1>10. Opens(steps, task.goal)
  <2>1. ASSUME NEW i \in 1 .. Len(steps)
        PROVE  /\ steps[i].op \notin
                    OperationOps \cup {"end", "write_log", "set_status"}
               /\ AbsorbsPhase(steps[i]) => i = 2
    BY <1>9 DEF LeavesTask, Calm, AbsorbsPhase, Bridge, Absorb, OperationOps
  <2>2. ASSUME NEW i \in 1 .. Len(steps), steps[i].op = "close_out"
        PROVE  /\ i > 2 /\ steps[i].goal = task.goal
               /\ \A j \in 1 .. Len(steps) : steps[j].op # "write_task"
               /\ AbsorbsPhase(steps[2]) /\ steps[1].op = "bridge"
               /\ steps[1].name = "post_phase_complete"
               /\ steps[1].arg.task = steps[i].task
               /\ steps[1].arg.outcome = "completed"
    <3>1. /\ i > 2 /\ steps[i].goal = task.goal /\ steps[i].task = report.task
          /\ report.outcome = "completed"
      BY <1>9, <2>2 DEF LeavesTask, Bridge, Absorb
    <3>2. \A j \in 1 .. Len(steps) : steps[j].op # "write_task"
      BY <1>9 DEF LeavesTask, Bridge, Absorb
    <3>3. /\ steps[1] = Bridge("post_phase_complete", report)
          /\ steps[2] = Absorb("phase")
      BY <1>3, <1>8
    <3>4. /\ AbsorbsPhase(steps[2]) /\ steps[1].op = "bridge"
          /\ steps[1].name = "post_phase_complete" /\ steps[1].arg = report
      BY <3>3 DEF Bridge, Absorb, AbsorbsPhase
    <3> QED
      BY <3>1, <3>2, <3>4
  <2> QED
    BY <1>7, <2>1, <2>2 DEF Opens
<1> QED
  BY <1>2, <1>10, FlowBegins

\* What is left of an invocation that gave up is its end.
LEMMA OnlyTheEnd ==
  ASSUME todo' = <<End>>
  PROVE  StepsOK(todo)' /\ ~ (At("answer"))'
<1> DEFINE new == todo'
<1>1. IsStack(new) /\ Len(new) = 1 /\ new[1] = End /\ Head(new) = End
  BY StackTuples, PlainOK DEF End
<1>2. End.op = "end"
  BY DEF End, Plain
<1> HIDE DEF new
<1>3. \A i \in 1 .. Len(new) : new[i].op = "end" /\ i = 1
  BY <1>1, <1>2
<1>4. Layered(new) /\ Closes(new, task'.goal, IsLogged')
  BY <1>1, <1>3 DEF Layered, Closes, OperationOps, ClosingOps
<1>5. Promised(new, Recorded', session'.phaseOk, result'.ok)
  BY <1>1, <1>3 DEF Promised, AbsorbsPhase
<1>6. Checked(new, Recorded', last') /\ Executes(new, runtime')
  BY <1>1, <1>3 DEF Checked, Executes
<1>7. Synced(new, Projects')
  <2>1. \A i \in 2 .. Len(new) : i \in 1 .. Len(new)
    BY <1>1
  <2> QED
    BY <1>3, <2>1 DEF Synced
<1>8. ~ (At("answer"))'
  BY <1>1, <1>2 DEF At, new
<1> QED
  BY <1>1, <1>4, <1>5, <1>6, <1>7, <1>8 DEF StepsOK, new

LEMMA StartupBootedKeeps ==
  ASSUME SInv, StartupBooted
  PROVE  SInv'
<1>1. todo # <<>> /\ todo[1].op = "booted" /\ StepsOK(todo)
  BY StepInFront DEF StartupBooted, SInv
<1>2. /\ result' = NoResult /\ UNCHANGED <<runtime, last, session>>
      /\ UNCHANGED <<context, task, handoff, logs>>
  BY DEF StartupBooted, paws
<1>3. Return \/ todo' = <<End>>
  BY DEF StartupBooted
<1>4. todo[1].op \notin OperationOps /\ ~AbsorbsPhase(todo[1])
  BY <1>1 DEF OperationOps, AbsorbsPhase
<1>5. IsLogged => IsLogged'
  BY <1>2 DEF IsLogged
<1>6. StepsOK(todo)' /\ ~ (At("answer"))'
  BY <1>1, <1>2, <1>3, <1>4, <1>5, FlowReturn, OnlyTheEnd
<1>7. AnswersOK'
  BY <1>2 DEF SInv, AnswersOK, NoResult
<1> QED
  BY <1>2, <1>6, <1>7 DEF SInv, FilesOK, LoggedIdle, Projected

\* The close-out of a phase that is recorded, of the goal in the file.
LEMMA CloseOutKeeps ==
  ASSUME SInv, CloseOut
  PROVE  SInv'
<1>1. /\ todo # <<>> /\ todo[1].op = "close_out" /\ Step = todo[1]
      /\ StepsOK(todo) /\ 1 \in 1 .. Len(todo) /\ Len(todo) \in Nat
  BY StepInFront DEF CloseOut, SInv
<1>2. UNCHANGED <<runtime, last, result, session>>
      /\ UNCHANGED <<context, task, handoff, logs>>
  BY DEF CloseOut, paws
<1>3. todo[1].op \notin OperationOps \cup {"write_task", "write_log", "bridge"}
      /\ ~AbsorbsPhase(todo[1])
  BY <1>1 DEF OperationOps, AbsorbsPhase
<1>4. IsLogged => IsLogged'
  BY <1>2 DEF IsLogged
<1>5. CASE Return
  <2>1. StepsOK(todo)' /\ ~ (At("answer"))'
    BY <1>1, <1>2, <1>3, <1>4, <1>5, FlowReturn
  <2> QED
    BY <1>2, <2>1 DEF SInv, FilesOK, LoggedIdle, Projected, AnswersOK
<1>6. CASE session.phaseOk /\ Call(CloseSteps(todo[1].task, todo[1].goal))
  <2> DEFINE g == todo[1].goal
             t == todo[1].task
             steps == CloseSteps(t, g)
  <2>1. t \in Recorded
    <3>1. Promised(todo, Recorded, session.phaseOk, result.ok)
      BY <1>1 DEF StepsOK
    <3>2. \A k : k \notin 1 .. 1 - 1
      OBVIOUS
    <3> QED
      BY <1>1, <1>6, <3>1, <3>2 DEF Promised
  <2>2. g = task.goal /\ \A j \in 1 .. Len(todo) : todo[j].op # "write_task"
    BY <1>1 DEF StepsOK, Closes, ClosingOps
  <2>3. \A j \in 2 .. Len(todo) : todo[j].op # "write_task"
    BY <2>2
  <2> HIDE DEF g, t
  <2>4. /\ IsStack(steps) /\ Len(steps) = 4
        /\ steps[1].op = "write_handoff" /\ steps[2].op = "write_log"
        /\ steps[2].task = t /\ steps[2].goal = g
        /\ steps[3].op = "set_status" /\ steps[4].op = "write_progress"
    <3> DEFINE a == Writes("write_handoff", g)
               b == [op |-> "write_log", task |-> t, goal |-> g]
               c == Writes("set_status", "idle")
               d == Plain("write_progress")
    <3>1. /\ StepOK(a) /\ StepOK(b) /\ StepOK(c) /\ StepOK(d)
          /\ a.op = "write_handoff" /\ b.op = "write_log" /\ b.task = t
          /\ b.goal = g /\ c.op = "set_status" /\ d.op = "write_progress"
      BY DEF StepOK, Writes, Plain
    <3>2. steps = <<a, b, c, d>>
      BY DEF CloseSteps
    <3> HIDE DEF a, b, c, d, steps
    <3> QED
      BY <3>1, <3>2, StackTuples
  <2>5. todo' = steps \o Tail(todo)
    BY <1>6 DEF Call, g, t
  <2> HIDE DEF steps
  <2>6. ASSUME NEW i \in 1 .. Len(steps)
        PROVE  /\ steps[i].op \notin OperationOps
               /\ steps[i].op \notin {"end", "write_task", "close_out", "absorb"}
               /\ steps[i].op \in ClosingOps =>
                    \A j \in 2 .. Len(todo) : todo[j].op # "write_task"
               /\ steps[i].op = "write_log" =>
                    steps[i].goal = task.goal /\ steps[i].task \in Recorded
               /\ steps[i].op = "set_status" =>
                    \E j \in 1 .. i - 1 : steps[j].op = "write_log"
    <3>1. i \in {1, 2, 3, 4}
      BY <2>4
    <3>2. steps[i].op \in
            {"write_handoff", "write_log", "set_status", "write_progress"}
      BY <2>4, <3>1
    <3>3. steps[i].op = "write_log" => i = 2
      BY <2>4, <3>1
    <3>4. steps[i].op = "set_status" => i = 3
      BY <2>4, <3>1
    <3>5. 2 \in 1 .. 3 - 1
      OBVIOUS
    <3>6. steps[i].op = "set_status" =>
            \E j \in 1 .. i - 1 : steps[j].op = "write_log"
      BY <2>4, <3>4, <3>5
    <3> QED
      BY <2>1, <2>2, <2>3, <2>4, <3>2, <3>3, <3>6 DEF OperationOps
  <2>7. Recorded' = Recorded
    BY <1>2 DEF Recorded
  <2>8. StepsOK(todo)' /\ ~ (At("answer"))'
    BY <1>1, <1>2, <1>3, <1>4, <2>4, <2>5, <2>6, <2>7, FlowStep
  <2> QED
    BY <1>2, <2>8 DEF SInv, FilesOK, LoggedIdle, Projected, AnswersOK
<1> QED
  BY <1>1, <1>5, <1>6 DEF CloseOut, Return

-----------------------------------------------------------------------------
(* The theorems.                                                           *)

LEMMA InitSInv ==
  ASSUME Init
  PROVE  SInv
<1>1. todo = <<>>
  BY DEF Init
<1>2. Len(<<>>) = 0 /\ <<>> \in Seq(ToSet(<<>>)) /\ \A i : i \notin 1 .. 0
  BY Tuples
<1>3. Len(todo) = 0 /\ \A i : i \notin 1 .. Len(todo)
  BY <1>1, <1>2
<1>4. \A i : i \notin 2 .. Len(todo)
  BY <1>3
<1>5. StepsOK(todo)
  BY <1>1, <1>2, <1>3, <1>4
  DEF StepsOK, IsStack, Layered, Closes, Promised, Checked, Synced, Executes
<1>6. ProjectOK(runtime)
  BY NewProjectOK DEF Init
<1>7. FilesOK
  <2>1. context = NoFile \/ context.mode \in KnownModes
    BY DEF Init, KnownModes
  <2> QED
    BY <2>1 DEF FilesOK, Init, TemplateTask
<1>8. LoggedIdle
  BY DEF LoggedIdle, Init, TemplateTask
<1>9. AnswersOK
  BY DEF AnswersOK, Init, NoResult, Fresh
<1> QED
  BY <1>1, <1>5, <1>6, <1>7, <1>8, <1>9 DEF SInv, Projected, At

LEMMA StutterSInv ==
  ASSUME SInv, UNCHANGED vars
  PROVE  SInv'
<1>1. /\ UNCHANGED <<runtime, todo, last, result, session>>
      /\ UNCHANGED <<context, task, handoff, logs, status>>
  BY DEF vars, paws
<1>2. StepsOK(todo)'
  BY <1>1 DEF SInv, StepsOK, IsLogged, Recorded, Projects
<1>3. FilesOK' /\ LoggedIdle' /\ AnswersOK' /\ ProjectOK(runtime')
  BY <1>1 DEF SInv, FilesOK, LoggedIdle, AnswersOK
<1>4. Projected'
  <2>1. ActiveTask' = ActiveTask
    BY <1>1 DEF ActiveTask
  <2> QED
    BY <1>1, <2>1 DEF SInv, Projected, At, Projects
<1> QED
  BY <1>2, <1>3, <1>4 DEF SInv

\* Every step of an operation of the Bridge.
LEMMA BridgeStepKeeps ==
  ASSUME SInv, BridgeStep
  PROVE  SInv'
BY BridgeHandlesKeeps, BridgeRefusesKeeps, BridgeUnavailableKeeps,
   BridgeOfflineKeeps, BridgeFailsKeeps, BridgeDiesKeeps,
   CommandCompletesKeeps, CommandTimesOutKeeps, CommandNotStartedKeeps,
   RunTakesKeeps, RunFinishesKeeps, RunEndsKeeps, RunTimesOutKeeps,
   SyncStatusKeeps, AnswerOperationKeeps, BootInitKeeps, BootInitedKeeps,
   BootShowKeeps, BootDoctorKeeps, IngestBootKeeps, IngestBootedKeeps,
   IngestStateKeeps, RequireTransitionKeeps, CheckGateKeeps, RunAgainKeeps,
   BeginPhaseCompleteKeeps, RequireRecordKeeps, CheckArtifactsKeeps
DEF BridgeStep

LEMMA NextSInv ==
  ASSUME SInv, [Next]_vars
  PROVE  SInv'
BY BridgeStepKeeps, AbsorbResultKeeps, StartupBootedKeeps, EndFlowKeeps,
   WriteContextKeeps, WriteTaskKeeps, WriteBacklogKeeps, WriteTheHandoffKeeps,
   WriteProgressKeeps, CloseOutKeeps, WriteTheLogKeeps, SetTaskStatusKeeps,
   StartupKeeps, IngestKeeps, ShortFlowsKeep, CompleteKeeps, OperatorKeeps,
   KilledKeeps, StutterSInv
DEF Next, Proceed

(***************************************************************************)
(* SInv holds of every state of every session.                             *)
(***************************************************************************)
THEOREM SessionInvariant == Spec => []SInv
<1>1. Init => SInv
  BY InitSInv
<1>2. SInv /\ [Next]_vars => SInv'
  BY NextSInv
<1> QED
  BY <1>1, <1>2, PTL DEF Spec

(***************************************************************************)
(* The project, the files and the result keep to the values the code gives *)
(* them, whatever a command or a kill leaves behind (SessionTypeOK).       *)
(***************************************************************************)
THEOREM SessionTyped == Spec => []SessionTypeOK
<1>1. SInv => SessionTypeOK
  <2> SUFFICES ASSUME SInv PROVE SessionTypeOK
    OBVIOUS
  <2>1. Consistent(runtime.ts, runtime.ws)
    BY DEF SInv, ProjectOK
  <2>2. /\ runtime.ts \in [Tasks -> TaskStatuses]
        /\ runtime.ws \in [Workflows -> WorkflowStatuses]
    BY <2>1 DEF Consistent, Reached, TaskStatuses
  <2>3. handoff = NoFile \/ handoff.dated = TRUE
    BY DEF SInv, FilesOK
  <2> QED
    BY <2>2, <2>3 DEF SInv, ProjectOK, FilesOK, AnswersOK, SessionTypeOK, Codes
<1> QED
  BY <1>1, SessionInvariant, PTL

(***************************************************************************)
(* current_task.md never says idle for a goal that tasks/completed/ has    *)
(* nothing of, wherever the close-out is killed (IdleMeansLogged).         *)
(***************************************************************************)
THEOREM IdleIsLogged == Spec => []IdleMeansLogged
<1>1. SInv => IdleMeansLogged
  BY DEF SInv, FilesOK, LoggedIdle, IdleMeansLogged, Resumable
<1> QED
  BY <1>1, SessionInvariant, PTL

(***************************************************************************)
(* An operation that ends with a synchronisation and reports no trouble    *)
(* leaves status.md as the runtime is (SettledStatus).                     *)
(***************************************************************************)
THEOREM StatusSettles == Spec => SettledStatus
<1>1. ASSUME SInv, AnswerOperation, result.op \in Projecting, result.codes = {}
      PROVE  status' = Projection(status, ActiveTask, runtime'.ps, FALSE)
  <2>1. status = Projection(status, ActiveTask, runtime.ps, FALSE)
    BY <1>1 DEF SInv, Projected, Projects, AnswerOperation
  <2>2. UNCHANGED <<runtime, status>>
    BY <1>1 DEF AnswerOperation, paws
  <2> QED
    BY <2>1, <2>2
<1> DEFINE Settles ==
      AnswerOperation /\ result.op \in Projecting /\ result.codes = {}
        => status' = Projection(status, ActiveTask, runtime'.ps, FALSE)
<1>2. SInv /\ [Next]_vars => [Settles]_vars
  BY <1>1
<1>3. SettledStatus <=> [][Settles]_vars
  BY DEF SettledStatus
<1> HIDE DEF Settles
<1>4. Spec => [][Settles]_vars
  BY <1>2, SessionInvariant, PTL DEF Spec
<1> QED
  BY <1>3, <1>4

-----------------------------------------------------------------------------
(* The refinement of PhaseProtocol.                                        *)

\* At most one task is recorded by a step, and no record is lost.
RecordsOne ==
  Recorded \subseteq Recorded' /\ \E u : Recorded' \subseteq Recorded \cup {u}

LEMMA SameRecords ==
  ASSUME Recorded' = Recorded
  PROVE  RecordsOne
BY DEF RecordsOne

LEMMA EffectRecords ==
  ASSUME ProjectOK(runtime), NEW name \in CliNames, NEW arg, Obeys(name, arg),
         runtime' = Effect(name, arg)
  PROVE  RecordsOne
<1>1. \A u : u \in RecordedIn(runtime') <=>
        u \in RecordedIn(runtime) \/ (name = "complete" /\ u = arg)
  BY EffectOK
<1> QED
  BY <1>1 DEF RecordsOne, Recorded

LEMMA BridgeRecords ==
  ASSUME SInv, BridgeStep
  PROVE  RecordsOne
<1>1. CASE CommandCompletes
  <2>1. /\ Step = todo[1] /\ todo[1].name \in CliNames /\ ProjectOK(runtime)
    BY <1>1, StepInFront DEF CommandCompletes, StepOK
  <2>2. \/ UNCHANGED runtime
        \/ Obeys(Step.name, Step.arg) /\ runtime' = Effect(Step.name, Step.arg)
    BY <1>1 DEF CommandCompletes
  <2> QED
    BY <2>1, <2>2, EffectRecords, SameRecords DEF Recorded
<1>2. CASE CommandTimesOut
  <2>1. /\ Step = todo[1] /\ todo[1].name \in CliNames /\ ProjectOK(runtime)
    BY <1>2, StepInFront DEF CommandTimesOut, StepOK
  <2>2. \/ UNCHANGED runtime
        \/ Obeys(Step.name, Step.arg) /\ runtime' = Effect(Step.name, Step.arg)
        \/ /\ Obeys(Step.name, Step.arg) /\ Step.name = "init"
           /\ runtime' = PartialProject
    BY <1>2 DEF CommandTimesOut
  <2>3. CASE /\ Obeys(Step.name, Step.arg) /\ Step.name = "init"
             /\ runtime' = PartialProject
    <3>1. runtime.project = "none"
      BY <2>3 DEF Obeys
    <3>2. RecordedIn(runtime) = {} /\ RecordedIn(runtime') = {}
      BY <2>1, <2>3, <3>1, NewProjectOK DEF ProjectOK, RecordedIn
    <3> QED
      BY <3>2, SameRecords DEF Recorded
  <2> QED
    BY <2>1, <2>2, <2>3, EffectRecords, SameRecords DEF Recorded
<1>3. CASE RunTakes
  <2>1. ProjectOK(runtime)
    BY DEF SInv
  <2>2. PICK t \in Executable : runtime' = Taken(runtime, t)
    BY <1>3, Zenon DEF RunTakes, Taken
  <2>3. t \in Tasks /\ runtime.ts[t] = "ready"
    BY <2>2 DEF Executable, ReadyTasks
  <2>4. Recorded' = Recorded
    BY <2>1, <2>2, <2>3, TakeOK DEF Recorded
  <2> QED
    BY <2>4, SameRecords
<1>4. CASE RunFinishes
  <2>1. /\ todo # <<>> /\ todo[1].op = "running" /\ Step = todo[1]
        /\ ProjectOK(runtime) /\ todo[1].arg \in Tasks /\ 1 \in 1 .. Len(todo)
    BY <1>4, StepInFront DEF RunFinishes, StepOK
  <2>2. runtime.ts[todo[1].arg] = "running"
    BY <2>1 DEF SInv, StepsOK, Executes
  <2>3. PICK success \in BOOLEAN :
          runtime' = WithOutcome(runtime, Step.arg, success)
    BY <1>4 DEF RunFinishes
  <2>4. /\ success => \A u : u \in RecordedIn(runtime') <=>
             u \in RecordedIn(runtime) \/ u = todo[1].arg
        /\ ~success => \A u : u \in RecordedIn(runtime') <=>
             u \in RecordedIn(runtime)
    BY <2>1, <2>2, <2>3, OutcomeOK
  <2> QED
    BY <2>4 DEF RecordsOne, Recorded
<1>5. CASE UNCHANGED runtime
  BY <1>5, SameRecords DEF Recorded
<1> QED
  BY <1>1, <1>2, <1>3, <1>4, <1>5
  DEF BridgeStep, BridgeHandles, BridgeRefuses, BridgeUnavailable,
      BridgeOffline, BridgeFails, BridgeDies, CommandNotStarted, RunEnds,
      RunTimesOut, SyncStatus, AnswerOperation, BootInit, BootInited, BootShow,
      BootDoctor, IngestBoot, IngestBooted, IngestState, RequireTransition,
      CheckGate, RunAgain, BeginPhaseComplete, RequireRecord, CheckArtifacts

\* Either the runtime records, or the log of a recorded task is written.
LEMMA NextRecords ==
  ASSUME SInv, [Next]_vars
  PROVE  \/ logs' = logs /\ RecordsOne
         \/ /\ Recorded' = Recorded
            /\ \E l : logs' = logs \cup {l} /\ l.task \in Recorded
<1>1. CASE BridgeStep
  <2>1. logs' = logs
    <3>1. CASE SyncStatus \/ BridgeOffline
      BY <3>1 DEF SyncStatus, BridgeOffline
    <3>2. CASE \/ CommandCompletes \/ CommandTimesOut \/ CommandNotStarted
               \/ RunTakes \/ RunFinishes \/ RunEnds \/ RunTimesOut
      <4>1. UNCHANGED paws
        <5>1. CASE CommandCompletes \/ CommandTimesOut \/ CommandNotStarted
          BY <5>1 DEF CommandCompletes, CommandTimesOut, CommandNotStarted
        <5>2. CASE RunTakes
          BY <5>2, Zenon DEF RunTakes
        <5>3. CASE RunFinishes \/ RunEnds \/ RunTimesOut
          BY <5>3 DEF RunFinishes, RunEnds, RunTimesOut
        <5> QED
          BY <3>2, <5>1, <5>2, <5>3
      <4> QED
        BY <4>1 DEF paws
    <3>3. CASE \/ BridgeHandles \/ BridgeRefuses \/ BridgeUnavailable
               \/ BridgeFails \/ BridgeDies \/ AnswerOperation
               \/ BootInit \/ BootInited \/ BootShow \/ BootDoctor
      <4>1. UNCHANGED paws
        BY <3>3 DEF BridgeHandles, BridgeRefuses, BridgeUnavailable, BridgeFails,
                    BridgeDies, AnswerOperation, BootInit, BootInited, BootShow,
                    BootDoctor
      <4> QED
        BY <4>1 DEF paws
    <3>4. CASE \/ IngestBoot \/ IngestBooted \/ IngestState \/ RequireTransition
               \/ CheckGate \/ RunAgain \/ BeginPhaseComplete \/ RequireRecord
               \/ CheckArtifacts
      <4>1. UNCHANGED paws
        BY <3>4 DEF IngestBoot, IngestBooted, IngestState, RequireTransition,
                    CheckGate, RunAgain, BeginPhaseComplete, RequireRecord,
                    CheckArtifacts
      <4> QED
        BY <4>1 DEF paws
    <3> QED
      BY <1>1, <3>1, <3>2, <3>3, <3>4 DEF BridgeStep
  <2> QED
    BY <1>1, <2>1, BridgeRecords
<1>2. CASE WriteTheLog
  <2>1. /\ Step = todo[1] /\ todo[1].op = "write_log" /\ 1 \in 1 .. Len(todo)
    BY <1>2, StepInFront DEF WriteTheLog
  <2>2. Recorded' = Recorded
    BY <1>2 DEF WriteTheLog, Recorded
  <2> DEFINE l == [goal |-> Step.goal, task |-> Step.task]
  <2>3. logs' = logs \/ logs' = logs \cup {l}
    BY <1>2 DEF WriteTheLog, WriteLog
  <2>4. l.task \in Recorded
    BY <2>1 DEF SInv, StepsOK, Promised
  <2> HIDE DEF l
  <2> QED
    BY <2>2, <2>3, <2>4, SameRecords
<1>3. CASE OperatorTransition
  <2>1. PICK s \in OperatorStates :
          Obeys("transition", s) /\ runtime' = Effect("transition", s)
    BY <1>3 DEF OperatorTransition
  <2>2. RecordsOne
    BY <2>1, EffectRecords DEF SInv, CliNames
  <2> QED
    BY <1>3, <2>2 DEF OperatorTransition, paws
<1>4. CASE UNCHANGED <<runtime, logs>>
  BY <1>4, SameRecords DEF Recorded
<1> QED
  BY <1>1, <1>2, <1>3, <1>4
  DEF Next, Proceed, vars, paws, Startup, Ingest, Gate, Implement, Complete,
      Documenter, Begin, Killed, AbsorbResult, StartupBooted, EndFlow,
      WriteContext, WriteTask, WriteBacklog, WriteTheHandoff, WriteProgress,
      CloseOut, SetTaskStatus

PhaseNow == [t \in Tasks |-> PhaseOf(t)]

(***************************************************************************)
(* Runtime and files close a phase together: a step records one open phase *)
(* or closes out one that is recorded, and nothing recorded or logged is   *)
(* lost by a timeout, a second attempt or a kill (ImplementsPhases).       *)
(***************************************************************************)
THEOREM SessionImplementsPhases == Spec => ImplementsPhases
<1>1. Init => Protocol!Init
  BY DEF Init, Protocol!Init, PhaseOf, NoProject, NewProject
<1>2. SInv /\ SInv' /\ [Next]_vars => [Protocol!Next]_PhaseNow
  <2> SUFFICES ASSUME SInv, SInv', [Next]_vars
               PROVE  Protocol!Next \/ PhaseNow' = PhaseNow
    BY DEF PhaseNow
  <2>1. \A t \in Tasks : PhaseOf(t) =
          IF \E l \in logs : l.task = t THEN "closed"
          ELSE IF t \in Recorded THEN "done" ELSE "open"
    BY DEF PhaseOf, Recorded, RecordedIn
  <2>2. \A t \in Tasks : PhaseOf(t)' =
          IF \E l \in logs' : l.task = t THEN "closed"
          ELSE IF t \in Recorded' THEN "done" ELSE "open"
    BY DEF PhaseOf, Recorded, RecordedIn
  <2>3. Recorded \subseteq Tasks /\ Recorded' \subseteq Tasks
    BY DEF Recorded, RecordedIn
  <2>4. CASE logs' = logs /\ RecordsOne
    <3>1. PICK u : Recorded \subseteq Recorded' /\ Recorded' \subseteq Recorded \cup {u}
      BY <2>4 DEF RecordsOne
    <3>2. CASE u \in Recorded' \ Recorded /\ ~ \E l \in logs : l.task = u
      <4>1. u \in Tasks /\ PhaseOf(u) = "open" /\ PhaseOf(u)' = "done"
        BY <2>1, <2>2, <2>3, <2>4, <3>2
      <4>2. \A t \in Tasks \ {u} : PhaseOf(t)' = PhaseOf(t)
        BY <2>1, <2>2, <2>4, <3>1
      <4>3. Protocol!Record(u)
        BY <4>1, <4>2 DEF Protocol!Record, PhaseNow
      <4> QED
        BY <4>1, <4>3 DEF Protocol!Next
    <3>3. CASE u \notin Recorded' \ Recorded \/ \E l \in logs : l.task = u
      <4>1. \A t \in Tasks : PhaseOf(t)' = PhaseOf(t)
        BY <2>1, <2>2, <2>4, <3>1, <3>3
      <4> QED
        BY <4>1 DEF PhaseNow
    <3> QED
      BY <3>2, <3>3
  <2>5. CASE /\ Recorded' = Recorded
             /\ \E l : logs' = logs \cup {l} /\ l.task \in Recorded
    <3>1. PICK l : logs' = logs \cup {l} /\ l.task \in Recorded
      BY <2>5
    <3>2. CASE \E k \in logs : k.task = l.task
      <4>1. \A t \in Tasks : PhaseOf(t)' = PhaseOf(t)
        BY <2>1, <2>2, <2>5, <3>1, <3>2
      <4> QED
        BY <4>1 DEF PhaseNow
    <3>3. CASE ~ \E k \in logs : k.task = l.task
      <4>1. /\ l.task \in Tasks /\ PhaseOf(l.task) = "done"
            /\ PhaseOf(l.task)' = "closed"
        BY <2>1, <2>2, <2>3, <2>5, <3>1, <3>3
      <4>2. \A t \in Tasks \ {l.task} : PhaseOf(t)' = PhaseOf(t)
        BY <2>1, <2>2, <2>5, <3>1
      <4>3. Protocol!CloseOut(l.task)
        BY <4>1, <4>2 DEF Protocol!CloseOut, PhaseNow
      <4> QED
        BY <4>1, <4>3 DEF Protocol!Next
    <3> QED
      BY <3>2, <3>3
  <2> QED
    BY <2>4, <2>5, NextRecords
<1> QED
  BY <1>1, <1>2, SessionInvariant, PTL DEF Spec, ImplementsPhases, Protocol!Spec,
     PhaseNow

=============================================================================
