--------------------------- MODULE AutomationProofs ---------------------------
(***************************************************************************)
(* Proofs about Automation: for every set of rules, however they interrupt *)
(* commands and each other, every project and every set of workers.        *)
(*                                                                         *)
(* Everything rests on one inductive invariant, AInv, about the steps that *)
(* are still to be taken.  What is out of order in the state is a duty     *)
(* (Due), and for each there is a step on the stack that will see to it    *)
(* (Pays); a step that is going to bring disorder (Needs) has such a step  *)
(* behind it already.  With nothing on the stack, nothing is out of order. *)
(* The other half says that steps do not get into each other's way: each   *)
(* finds its task and its worker as it was left for it (Fits, Holds), and  *)
(* no two of them are at work on the same (Apart, WorkApart).              *)
(***************************************************************************)
EXTENDS Automation, WorkflowProgressProofs, SequenceTheorems,
        FiniteSetTheorems, WellFoundedInduction

-----------------------------------------------------------------------------
(* The inductive invariant.                                                *)

\* The statuses tasks have, also while an outcome is being recorded.
Live == Reached \cup {"completed"}

\* Kinds of steps that change the project's state, or lead to ones that do.
SyncOps ==
  {"transition", "try_state", "retry_state", "outcome", "completion",
   "sync_state", "dispatch", "assign", "run", "start", "execute"}

\* Kinds of steps that follow their caller at once.
HeadOps == {"outcome", "run", "dispatch"}

\* Kinds of steps about a task, and those at which a worker is at work on it.
TaskOps ==
  {"create", "record", "outcome", "dispatch", "assign", "run", "start",
   "execute", "release"}
BusyOps == {"start", "execute"}

\* What a step carries.
StepOK(s) ==
  /\ s.op \in {"publish", "rule"} => s.event.depth \in 0 .. MaxDepth
  /\ s.op = "action" =>
       /\ s.depth \in 0 .. MaxDepth /\ s.rule \in RuleIds
       /\ s.action \in ToSet(Rule[s.rule].actions)
  /\ s.op \in {"rule", "rule_end"} => s.rule \in RuleIds
  /\ s.op \in {"transition", "try_state", "retry_state"} =>
       s.target \in ProjectStates
  /\ s.op \in TaskOps => s.task \in Tasks
  /\ s.op = "outcome" => s.success \in BOOLEAN
  /\ s.op = "dispatch" => s.worker \in Workers \cup {NoWorker}
  /\ s.op \in {"assign", "run", "release"} \cup BusyOps => s.worker \in Workers
  /\ s.op \in {"refresh", "completion"} => s.workflow \in Workflows

\* The steps to take, as a value: the lemmas compare two of them.
IsStack(st) ==
    /\ st \in Seq(ToSet(st))
  /\ \A i \in 1 .. Len(st) : StepOK(st[i])

\* Of two steps to take, s before u: they are not about the same task.
Apart(s, u) ==
  /\ s.op = "create" /\ u.op = "create" => s.task # u.task
  /\ s.op = "record" /\ u.op = "record" => s.task # u.task
  /\ s.op \in {"outcome", "run"} \cup BusyOps /\ u.op \in BusyOps =>
       s.task # u.task

\* Likewise for workers, where no rule names one.
WorkApart(s, u) ==
  s.op \in {"dispatch", "assign", "run", "release"} \cup BusyOps
    /\ u.op \in BusyOps => s.worker # u.worker

\* Rules end in the opposite order of the chain.
EndsApart(s, u, ch) ==
  s.op = "rule_end" /\ u.op = "rule_end" =>
    \A m, n \in 1 .. Len(ch) : ch[m] = s.rule /\ ch[n] = u.rule => n < m

Kinds ==
  {"fresh", "saved", "synced", "recorded", "worked", "free", "rule"}

\* What a duty may be about.
Matters == Workflows \cup Tasks \cup Workers \cup RuleIds \cup {"all"}

\* Step s is going to leave something of this kind to later steps.
Needs(s, kind, x) ==
  \/ kind = "fresh" /\ s.op = "create" /\ WorkflowOf[s.task] = x
  \/ kind = "saved" /\ s.op \in {"create", "record"}
  \/ kind = "synced" /\ s.op \in SyncOps

\* Step s sees to it, itself or by the steps it calls.
Pays(s, kind, x) ==
  \/ kind = "fresh" /\ s.op = "refresh" /\ s.workflow = x
  \/ kind = "saved" /\ s.op \in {"refresh", "persist"}
  \/ kind = "synced" /\ s.op = "sync_manifest"
  \/ kind = "recorded" /\ s.op = "record" /\ s.task = x
  \/ kind = "worked" /\ s.op \in {"outcome", "run"} \cup BusyOps /\ s.task = x
  \/ kind = "free" /\ s.op \in {"run", "release"} \cup BusyOps /\ s.worker = x
  \/ kind = "rule" /\ s.op = "rule_end" /\ s.rule = x

Paid(st, kind, x) == \E i \in 1 .. Len(st) : Pays(st[i], kind, x)

\* The steps to take do not depend on how they are interrupted.
Ordered(st) ==
  /\ \A i \in 2 .. Len(st) : st[i].op \notin HeadOps
  /\ \A i, j \in 1 .. Len(st) : i < j => Apart(st[i], st[j])
  /\ \A i \in 1 .. Len(st), kind \in Kinds, x \in Matters :
       Needs(st[i], kind, x) =>
         \E j \in 1 .. Len(st) : i < j /\ Pays(st[j], kind, x)

\* Nothing is left to do by a refresh of workflow w.
Refreshed(w, ts, ws) ==
  /\ RefreshedTasks(w, ws, ts) = ts
  /\ RefreshedStatus(w, ws, ts) = ws

\* What is out of order as things are.
Due(kind, x) ==
  \/ /\ kind = "fresh" /\ x \in Workflows
     /\ ~Refreshed(x, taskStatus, workflowStatus)
  \/ /\ kind = "saved"
     /\ progressFile # [tasks |-> taskStatus, workflows |-> workflowStatus]
  \/ kind = "synced" /\ manifest # projectState
  \/ kind = "recorded" /\ x \in Tasks /\ taskStatus[x] = "completed"
  \/ kind = "worked" /\ x \in Tasks /\ taskStatus[x] \in InFlight
  \/ kind = "free" /\ x \in Workers /\ workerStatus[x] # "available"
  \/ kind = "rule" /\ \E n \in 1 .. Len(chain) : chain[n] = x

Duties ==
  \A kind \in Kinds, x \in Matters : Due(kind, x) => Paid(todo, kind, x)

\* A step finds its task as it was left for it.
Fits(s, ts, ws) ==
  /\ s.op = "create" =>
       ts[s.task] = "defined" /\ ws[WorkflowOf[s.task]] \notin Inactive
  /\ s.op = "record" => ts[s.task] = "completed"
  /\ s.op = "outcome" => ts[s.task] \in {"ready", "running"}
  /\ s.op = "run" => ts[s.task] = "dispatched"
  /\ s.op \in BusyOps => ts[s.task] = "running"

\* A step of a rule is of a rule that is loaded, its end of one begun.
Chained(s, ch, rules) ==
  /\ s.op \in {"rule", "action"} => s.rule \in rules
  /\ s.op = "rule_end" => \E n \in 1 .. Len(ch) : ch[n] = s.rule

\* The worker of a step is at work.
Holds(s, wst) ==
  s.op \in {"run"} \cup BusyOps => wst[s.worker] # "available"

Unnamed == \A r \in Loaded(config) : NamesNoWorker(r)

StepsFit ==
  \A i \in 1 .. Len(todo) : Fits(todo[i], taskStatus, workflowStatus)

StepsChained ==
  /\ \A i \in 1 .. Len(todo) : Chained(todo[i], chain, Loaded(config))
  /\ \A i, j \in 1 .. Len(todo) : i < j => EndsApart(todo[i], todo[j], chain)

StepsHold ==
  Unnamed =>
    /\ \A i \in 1 .. Len(todo) : Holds(todo[i], workerStatus)
    /\ \A i, j \in 1 .. Len(todo) : i < j => WorkApart(todo[i], todo[j])

Typed ==
  /\ taskStatus \in [Tasks -> Live]
  /\ workflowStatus \in [Workflows -> WorkflowStatuses]
  /\ projectState \in ProjectStates
  /\ progressFile \in [tasks : [Tasks -> TaskStatuses],
                       workflows : [Workflows -> WorkflowStatuses]]
  /\ manifest \in ProjectStates
  /\ workerStatus \in [Workers -> {"available", "assigned", "executing"}]
  /\ config \in AutomationConfigs
  /\ chain \in Seq(RuleIds)

\* Tasks are released when what they depend on is done, and after activation.
TasksOK(ts, ws) ==
  \A t \in Tasks :
    /\ ts[t] = "ready" => DependenciesSatisfied(t, ts)
    /\ ws[WorkflowOf[t]] \in Inactive => ts[t] = "defined"

NoRuleTwice == \A m, n \in 1 .. Len(chain) : chain[m] = chain[n] => m = n

Standing ==
  /\ TasksOK(taskStatus, workflowStatus) /\ NoRuleTwice
  /\ IsStack(todo) /\ Ordered(todo)
  /\ StepsFit /\ StepsChained /\ StepsHold

AInv == Typed /\ Standing /\ Duties

-----------------------------------------------------------------------------
(* Stacks of steps.                                                        *)

\* A tuple is a sequence of its components.
LEMMA Tuples ==
  /\ <<>> \in Seq(ToSet(<<>>)) /\ Len(<<>>) = 0
  /\ \A a : <<a>> \in Seq(ToSet(<<a>>)) /\ Len(<<a>>) = 1
  /\ \A a, b : <<a, b>> \in Seq(ToSet(<<a, b>>)) /\ Len(<<a, b>>) = 2
  /\ \A a, b, c :
       <<a, b, c>> \in Seq(ToSet(<<a, b, c>>)) /\ Len(<<a, b, c>>) = 3
  /\ \A a, b, c, d :
       /\ <<a, b, c, d>> \in Seq(ToSet(<<a, b, c, d>>))
       /\ Len(<<a, b, c, d>>) = 4
  /\ \A a, b, c, d, e :
       /\ <<a, b, c, d, e>> \in Seq(ToSet(<<a, b, c, d, e>>))
       /\ Len(<<a, b, c, d, e>>) = 5
  /\ \A a, b, c, d, e, f :
       /\ <<a, b, c, d, e, f>> \in Seq(ToSet(<<a, b, c, d, e, f>>))
       /\ Len(<<a, b, c, d, e, f>>) = 6
  /\ \A a, b, c, d, e, f, g :
       /\ <<a, b, c, d, e, f, g>> \in Seq(ToSet(<<a, b, c, d, e, f, g>>))
       /\ Len(<<a, b, c, d, e, f, g>>) = 7
BY DEF ToSet

\* Whatever set a sequence is over, it is one over its own elements.
LEMMA OwnElements ==
  ASSUME NEW S, NEW st \in Seq(S)
  PROVE  /\ st \in Seq(ToSet(st)) /\ Len(st) \in Nat
         /\ \A i \in 1 .. Len(st) : st[i] \in ToSet(st) /\ st[i] \in S
<1>1. st \in Seq(Range(st))
  BY SeqOfRange
<1>2. Range(st) = ToSet(st)
  BY DEF ToSet, Range
<1>3. Len(st) \in Nat /\ st \in [1 .. Len(st) -> S] /\ DOMAIN st = 1 .. Len(st)
  BY LenProperties
<1> QED
  BY <1>1, <1>2, <1>3 DEF ToSet

\* Sequence c is a followed by b, element by element.
Joins(a, b, c) ==
  /\ c \in Seq(ToSet(c))
  /\ Len(a) \in Nat /\ Len(b) \in Nat /\ Len(c) = Len(a) + Len(b)
  /\ \A i \in 1 .. Len(c) :
       \/ i \in 1 .. Len(a) /\ c[i] = a[i]
       \/ \E j \in 1 .. Len(b) : i = Len(a) + j /\ c[i] = b[j]
  /\ \A i \in 1 .. Len(a) : i \in 1 .. Len(c) /\ c[i] = a[i]
  /\ \A j \in 1 .. Len(b) :
       Len(a) + j \in 1 .. Len(c) /\ c[Len(a) + j] = b[j]

\* Concatenation joins two sequences.
LEMMA Joined ==
  ASSUME NEW a, NEW b, a \in Seq(ToSet(a)), b \in Seq(ToSet(b))
  PROVE  Joins(a, b, a \o b)
<1> DEFINE c == a \o b
<1> DEFINE S == ToSet(a) \cup ToSet(b)
<1>1. a \in Seq(S) /\ b \in Seq(S)
  BY SeqMonotonic
<1> HIDE DEF S
<1>2. /\ c \in Seq(S) /\ Len(c) = Len(a) + Len(b)
      /\ Len(a) \in Nat /\ Len(b) \in Nat
      /\ \A i \in 1 .. Len(c) :
           c[i] = IF i <= Len(a) THEN a[i] ELSE b[i - Len(a)]
  BY <1>1, ConcatProperties, LenProperties
<1>3. c = a \o b
  OBVIOUS
<1> HIDE DEF c
<1>4. c \in Seq(ToSet(c))
  BY <1>2, OwnElements
<1>5. ASSUME NEW i \in 1 .. Len(c), i \notin 1 .. Len(a)
      PROVE  \E j \in 1 .. Len(b) : i = Len(a) + j /\ c[i] = b[j]
  <2>1. i - Len(a) \in 1 .. Len(b) /\ i = Len(a) + (i - Len(a))
    BY <1>2, <1>5
  <2>2. c[i] = b[i - Len(a)]
    BY <1>2, <1>5
  <2> QED
    BY <2>1, <2>2
<1>6. ASSUME NEW j \in 1 .. Len(b)
      PROVE  Len(a) + j \in 1 .. Len(c) /\ c[Len(a) + j] = b[j]
  <2>1. /\ Len(a) + j \in 1 .. Len(c) /\ ~(Len(a) + j <= Len(a))
        /\ (Len(a) + j) - Len(a) = j
    BY <1>2
  <2> QED
    BY <1>2, <2>1
<1>7. ASSUME NEW i \in 1 .. Len(a)
      PROVE  i \in 1 .. Len(c) /\ c[i] = a[i]
  BY <1>2
<1>8. Joins(a, b, c)
  BY <1>2, <1>4, <1>5, <1>6, <1>7 DEF Joins
<1> QED
  BY <1>3, <1>8

\* A step that calls others replaces the head by them.
Called(steps, st) == steps \o Tail(st)

\* `new' are the steps K, and what came after the head of st.
Follows(st, K, new) ==
  /\ Len(st) \in Nat /\ Len(K) \in Nat /\ Len(new) \in Nat
  /\ \A i \in 1 .. Len(new) :
       \/ i \in 1 .. Len(K) /\ new[i] = K[i]
       \/ \E o \in 2 .. Len(st) : i = Len(K) + (o - 1) /\ new[i] = st[o]
  /\ \A i \in 1 .. Len(K) : i \in 1 .. Len(new) /\ new[i] = K[i]
  /\ \A o \in 2 .. Len(st) :
       Len(K) + (o - 1) \in 1 .. Len(new) /\ new[Len(K) + (o - 1)] = st[o]

\* What is on the stack once a step has called the steps K.
LEMMA CallFollows ==
  ASSUME NEW st, st \in Seq(ToSet(st)), st # <<>>,
         NEW K, K \in Seq(ToSet(K)),
         NEW new, new = Called(K, st)
  PROVE  /\ Follows(st, K, new) /\ new \in Seq(ToSet(new))
         /\ Len(st) \in Nat \ {0} /\ Head(st) = st[1]
<1>1. /\ Tail(st) \in Seq(ToSet(st)) /\ Len(Tail(st)) = Len(st) - 1
      /\ Len(st) \in Nat \ {0}
      /\ \A i \in 1 .. Len(Tail(st)) : Tail(st)[i] = st[i + 1]
  BY HeadTailProperties, EmptySeq, LenProperties
<1> DEFINE b == Tail(st)
<1>2. b \in Seq(ToSet(b)) /\ new = K \o b
  BY <1>1, OwnElements DEF Called
<1>3. /\ Len(b) = Len(st) - 1
      /\ \A i \in 1 .. Len(b) : b[i] = st[i + 1]
  BY <1>1
<1> HIDE DEF b
<1>4. Joins(K, b, new)
  BY <1>2, Joined
<1>5. ASSUME NEW j \in 1 .. Len(b)
      PROVE  j + 1 \in 2 .. Len(st) /\ (j + 1) - 1 = j /\ b[j] = st[j + 1]
  BY <1>1, <1>3
<1>6. ASSUME NEW o \in 2 .. Len(st)
      PROVE  o - 1 \in 1 .. Len(b) /\ b[o - 1] = st[o]
  <2>1. o - 1 \in 1 .. Len(b) /\ (o - 1) + 1 = o
    BY <1>1, <1>3
  <2> QED
    BY <1>3, <2>1
<1>7. ASSUME NEW i \in 1 .. Len(new), i \notin 1 .. Len(K)
      PROVE  \E o \in 2 .. Len(st) : i = Len(K) + (o - 1) /\ new[i] = st[o]
  <2>1. PICK j \in 1 .. Len(b) : i = Len(K) + j /\ new[i] = b[j]
    BY <1>4, <1>7 DEF Joins
  <2> QED
    BY <1>5, <2>1
<1>8. ASSUME NEW o \in 2 .. Len(st)
      PROVE  /\ Len(K) + (o - 1) \in 1 .. Len(new)
             /\ new[Len(K) + (o - 1)] = st[o]
  BY <1>4, <1>6 DEF Joins
<1>9. Len(new) \in Nat /\ Head(st) = st[1]
  BY <1>1, <1>4 DEF Joins
<1> QED
  BY <1>1, <1>4, <1>7, <1>8, <1>9 DEF Follows, Joins

\* Two steps of the new stack, one before the other.
LEMMA FollowingPairs ==
  ASSUME NEW st, NEW K, NEW new, Follows(st, K, new),
         NEW i \in 1 .. Len(new), NEW j \in 1 .. Len(new), i < j
  PROVE  \/ /\ i \in 1 .. Len(K) /\ j \in 1 .. Len(K)
            /\ new[i] = K[i] /\ new[j] = K[j]
         \/ /\ i \in 1 .. Len(K) /\ new[i] = K[i]
            /\ \E p \in 2 .. Len(st) : new[j] = st[p]
         \/ \E o, p \in 2 .. Len(st) :
              o < p /\ new[i] = st[o] /\ new[j] = st[p]
<1>1. Len(st) \in Nat /\ Len(K) \in Nat /\ Len(new) \in Nat
  BY DEF Follows
<1>2. CASE j \in 1 .. Len(K)
  <2>1. i \in 1 .. Len(K)
    BY <1>1, <1>2
  <2> QED
    BY <1>2, <2>1 DEF Follows
<1>3. CASE j \notin 1 .. Len(K)
  <2>1. PICK p \in 2 .. Len(st) : j = Len(K) + (p - 1) /\ new[j] = st[p]
    BY <1>3 DEF Follows
  <2>2. CASE i \in 1 .. Len(K)
    BY <2>1, <2>2 DEF Follows
  <2>3. CASE i \notin 1 .. Len(K)
    <3>1. PICK o \in 2 .. Len(st) : i = Len(K) + (o - 1) /\ new[i] = st[o]
      BY <2>3 DEF Follows
    <3>2. o < p
      BY <1>1, <2>1, <3>1
    <3> QED
      BY <2>1, <3>1, <3>2
  <2> QED
    BY <2>2, <2>3
<1> QED
  BY <1>2, <1>3

\* The steps K can take the place of step s.
Replaces(s, K) ==
  /\ IsStack(K)
  /\ \A i \in 2 .. Len(K) : K[i].op \notin HeadOps
  /\ \A i, j \in 1 .. Len(K) : i < j => Apart(K[i], K[j])
  /\ \A i \in 1 .. Len(K), kind \in Kinds, x \in Matters :
       Needs(K[i], kind, x) =>
         \/ \E j \in 1 .. Len(K) : i < j /\ Pays(K[j], kind, x)
         \/ Needs(s, kind, x)

\* What a step needs is on the stack still when it is done.
LEMMA NeededPaid ==
  ASSUME NEW st, NEW K, NEW new, Follows(st, K, new), Ordered(st),
         Len(st) \in Nat \ {0},
         NEW kind \in Kinds, NEW x \in Matters, Needs(st[1], kind, x)
  PROVE  \E j \in 1 .. Len(new) : Len(K) < j /\ Pays(new[j], kind, x)
<1>1. PICK o \in 1 .. Len(st) : 1 < o /\ Pays(st[o], kind, x)
  <2>1. 1 \in 1 .. Len(st)
    OBVIOUS
  <2> QED
    BY <2>1 DEF Ordered
<1>2. o \in 2 .. Len(st)
  BY <1>1
<1>3. Len(K) + (o - 1) \in 1 .. Len(new) /\ new[Len(K) + (o - 1)] = st[o]
  BY <1>2 DEF Follows
<1>4. Len(K) < Len(K) + (o - 1)
  BY <1>2 DEF Follows
<1> QED
  BY <1>1, <1>3, <1>4

\* The order of the stack survives a step that calls what may replace it.
LEMMA Advance ==
  ASSUME NEW st, IsStack(st), Ordered(st), st # <<>>,
         NEW K, Replaces(st[1], K),
         \A i \in 1 .. Len(K), o \in 2 .. Len(st) : Apart(K[i], st[o]),
         NEW new, new = Called(K, st)
  PROVE  /\ Follows(st, K, new) /\ IsStack(new) /\ Ordered(new)
         /\ Len(st) \in Nat \ {0}
<1>1. /\ Follows(st, K, new) /\ new \in Seq(ToSet(new))
      /\ Len(st) \in Nat \ {0}
  BY CallFollows DEF IsStack, Replaces
<1>2. Len(st) \in Nat /\ Len(K) \in Nat /\ Len(new) \in Nat
  BY <1>1 DEF Follows
<1>3. \A o \in 2 .. Len(st) : o \in 1 .. Len(st) /\ 1 < o
  BY <1>2
<1>4. ASSUME NEW i \in 1 .. Len(new)
      PROVE  StepOK(new[i])
  <2>1. CASE i \in 1 .. Len(K) /\ new[i] = K[i]
    BY <2>1 DEF Replaces, IsStack
  <2>2. ASSUME NEW o \in 2 .. Len(st), new[i] = st[o]
        PROVE  StepOK(new[i])
    BY <1>3, <2>2 DEF IsStack
  <2> QED
    BY <1>1, <2>1, <2>2 DEF Follows
<1>5. ASSUME NEW i \in 2 .. Len(new)
      PROVE  new[i].op \notin HeadOps
  <2>1. i \in 1 .. Len(new)
    BY <1>2
  <2>2. CASE i \in 1 .. Len(K) /\ new[i] = K[i]
    <3>1. i \in 2 .. Len(K)
      BY <1>2, <2>2
    <3> QED
      BY <2>2, <3>1 DEF Replaces
  <2>3. ASSUME NEW o \in 2 .. Len(st), new[i] = st[o]
        PROVE  new[i].op \notin HeadOps
    BY <2>3 DEF Ordered
  <2> QED
    BY <1>1, <2>1, <2>2, <2>3 DEF Follows
<1>6. ASSUME NEW i \in 1 .. Len(new), NEW j \in 1 .. Len(new), i < j
      PROVE  Apart(new[i], new[j])
  <2>1. CASE /\ i \in 1 .. Len(K) /\ j \in 1 .. Len(K)
             /\ new[i] = K[i] /\ new[j] = K[j]
    BY <1>6, <2>1 DEF Replaces
  <2>2. CASE /\ i \in 1 .. Len(K) /\ new[i] = K[i]
             /\ \E p \in 2 .. Len(st) : new[j] = st[p]
    BY <2>2
  <2>3. CASE \E o, p \in 2 .. Len(st) :
               o < p /\ new[i] = st[o] /\ new[j] = st[p]
    BY <1>3, <2>3 DEF Ordered
  <2> QED
    BY <1>1, <1>6, <2>1, <2>2, <2>3, FollowingPairs
<1>7. ASSUME NEW i \in 1 .. Len(new), NEW kind \in Kinds, NEW x \in Matters,
             Needs(new[i], kind, x)
      PROVE  \E j \in 1 .. Len(new) : i < j /\ Pays(new[j], kind, x)
  <2>1. CASE i \in 1 .. Len(K) /\ new[i] = K[i]
    <3>1. CASE \E j \in 1 .. Len(K) : i < j /\ Pays(K[j], kind, x)
      BY <1>1, <3>1 DEF Follows
    <3>2. CASE Needs(st[1], kind, x)
      <4>1. PICK j \in 1 .. Len(new) : Len(K) < j /\ Pays(new[j], kind, x)
        BY <1>1, <3>2, NeededPaid
      <4>2. i < j
        BY <1>2, <2>1, <4>1
      <4> QED
        BY <4>1, <4>2
    <3> QED
      BY <1>7, <2>1, <3>1, <3>2 DEF Replaces
  <2>2. ASSUME NEW o \in 2 .. Len(st), i = Len(K) + (o - 1), new[i] = st[o]
        PROVE  \E j \in 1 .. Len(new) : i < j /\ Pays(new[j], kind, x)
    <3>1. PICK p \in 1 .. Len(st) : o < p /\ Pays(st[p], kind, x)
      BY <1>3, <1>7, <2>2 DEF Ordered
    <3>2. p \in 2 .. Len(st)
      BY <1>2, <3>1
    <3>3. /\ Len(K) + (p - 1) \in 1 .. Len(new)
          /\ new[Len(K) + (p - 1)] = st[p]
      BY <1>1, <3>2 DEF Follows
    <3>4. i < Len(K) + (p - 1)
      BY <1>2, <2>2, <3>1, <3>2
    <3> QED
      BY <3>1, <3>3, <3>4
  <2> QED
    BY <1>1, <2>1, <2>2 DEF Follows
<1> QED
  BY <1>1, <1>4, <1>5, <1>6, <1>7 DEF IsStack, Ordered

\* Kinds of steps that find their task in a certain status.
WorkOps == {"create", "record", "outcome", "run"} \cup BusyOps

\* Kinds of steps that have a worker, and that belong to a rule.
WorkerOps == {"dispatch", "assign", "run", "release"} \cup BusyOps
RuleOps == {"rule", "action", "rule_end"}

\* Other steps fit whatever happens and keep out of the way.
LEMMA LooseFits ==
  ASSUME NEW s, s.op \notin WorkOps
  PROVE  /\ \A ts, ws : Fits(s, ts, ws)
         /\ \A u : Apart(s, u)
BY DEF WorkOps, BusyOps, Fits, Apart

\* Steps at which no worker is at work hold none.
LEMMA LooseHolds ==
  ASSUME NEW s, s.op \notin WorkerOps
  PROVE  /\ \A wst : Holds(s, wst)
         /\ \A u : WorkApart(s, u)
BY DEF WorkerOps, BusyOps, Holds, WorkApart

\* Steps that belong to no rule are of no concern to the chain.
LEMMA LooseChained ==
  ASSUME NEW s, s.op \notin RuleOps
  PROVE  \A ch, rules : Chained(s, ch, rules)
BY DEF RuleOps, Chained

\* What is true of the called steps and of the rest is true of the new stack.
LEMMA FitsCarried ==
  ASSUME NEW st, NEW K, NEW new, Follows(st, K, new), NEW ts, NEW ws,
         \A i \in 1 .. Len(K) : Fits(K[i], ts, ws),
         \A o \in 2 .. Len(st) : Fits(st[o], ts, ws)
  PROVE  \A i \in 1 .. Len(new) : Fits(new[i], ts, ws)
BY DEF Follows

\* Rules stay in order when the called steps are in order with the rest.
LEMMA ChainedCarried ==
  ASSUME NEW st, NEW K, NEW new, Follows(st, K, new), NEW ch, NEW rules,
         \A i \in 1 .. Len(K) : Chained(K[i], ch, rules),
         \A i, j \in 1 .. Len(K) : i < j => EndsApart(K[i], K[j], ch),
         \A i \in 1 .. Len(K), o \in 2 .. Len(st) : EndsApart(K[i], st[o], ch),
         \A o \in 2 .. Len(st) : Chained(st[o], ch, rules),
         \A o, p \in 2 .. Len(st) : o < p => EndsApart(st[o], st[p], ch)
  PROVE  /\ \A i \in 1 .. Len(new) : Chained(new[i], ch, rules)
         /\ \A i, j \in 1 .. Len(new) : i < j => EndsApart(new[i], new[j], ch)
<1>1. \A i \in 1 .. Len(new) : Chained(new[i], ch, rules)
  BY DEF Follows
<1>2. ASSUME NEW i \in 1 .. Len(new), NEW j \in 1 .. Len(new), i < j
      PROVE  EndsApart(new[i], new[j], ch)
  <2>1. \/ /\ i \in 1 .. Len(K) /\ j \in 1 .. Len(K)
           /\ new[i] = K[i] /\ new[j] = K[j]
        \/ /\ i \in 1 .. Len(K) /\ new[i] = K[i]
           /\ \E p \in 2 .. Len(st) : new[j] = st[p]
        \/ \E o, p \in 2 .. Len(st) :
             o < p /\ new[i] = st[o] /\ new[j] = st[p]
    BY <1>2, FollowingPairs
  <2> QED
    BY <1>2, <2>1
<1> QED
  BY <1>1, <1>2

\* Likewise for the workers.
LEMMA HoldsCarried ==
  ASSUME NEW st, NEW K, NEW new, Follows(st, K, new), NEW wst,
         \A i \in 1 .. Len(K) : Holds(K[i], wst),
         \A i, j \in 1 .. Len(K) : i < j => WorkApart(K[i], K[j]),
         \A i \in 1 .. Len(K), o \in 2 .. Len(st) : WorkApart(K[i], st[o]),
         \A o \in 2 .. Len(st) : Holds(st[o], wst),
         \A o, p \in 2 .. Len(st) : o < p => WorkApart(st[o], st[p])
  PROVE  /\ \A i \in 1 .. Len(new) : Holds(new[i], wst)
         /\ \A i, j \in 1 .. Len(new) : i < j => WorkApart(new[i], new[j])
<1>1. \A i \in 1 .. Len(new) : Holds(new[i], wst)
  BY DEF Follows
<1>2. ASSUME NEW i \in 1 .. Len(new), NEW j \in 1 .. Len(new), i < j
      PROVE  WorkApart(new[i], new[j])
  BY <1>2, FollowingPairs
<1> QED
  BY <1>1, <1>2

\* The rest of the stack.
LEMMA RestPositions ==
  ASSUME NEW st, Len(st) \in Nat
  PROVE  \A o \in 2 .. Len(st) : o \in 1 .. Len(st) /\ 1 < o
OBVIOUS

\* The fits of the stack, when tasks and workflows stay as they are.
LEMMA FitsStill ==
  ASSUME AInv, NEW K, Follows(todo, K, todo'),
         UNCHANGED <<taskStatus, workflowStatus>>,
         \A i \in 1 .. Len(K) : Fits(K[i], taskStatus, workflowStatus)
  PROVE  StepsFit'
<1> DEFINE new == todo'
           ts == taskStatus'
           ws == workflowStatus'
<1>1. \A o \in 2 .. Len(todo) : Fits(todo[o], taskStatus, workflowStatus)
  BY RestPositions DEF AInv, Standing, StepsFit, Follows
<1>2. /\ \A o \in 2 .. Len(todo) : Fits(todo[o], ts, ws)
      /\ \A i \in 1 .. Len(K) : Fits(K[i], ts, ws)
      /\ Follows(todo, K, new)
  BY <1>1
<1> HIDE DEF new, ts, ws
<1>3. \A i \in 1 .. Len(new) : Fits(new[i], ts, ws)
  BY <1>2, FitsCarried
<1> QED
  BY <1>3 DEF StepsFit, new, ts, ws

\* The chain, when no rule begins or ends.
LEMMA ChainedStill ==
  ASSUME AInv, NEW K, Follows(todo, K, todo'), UNCHANGED <<config, chain>>,
         \A i \in 1 .. Len(K) :
           /\ K[i].op # "rule_end"
           /\ K[i].op \in {"rule", "action"} => K[i].rule \in Loaded(config)
  PROVE  StepsChained' /\ NoRuleTwice'
<1> DEFINE new == todo'
           ch == chain'
           rules == Loaded(config')
<1>1. /\ \A o \in 2 .. Len(todo) : Chained(todo[o], chain, Loaded(config))
      /\ \A o, p \in 2 .. Len(todo) :
           o < p => EndsApart(todo[o], todo[p], chain)
  BY RestPositions DEF AInv, Standing, StepsChained, Follows
<1>2. /\ \A o \in 2 .. Len(todo) : Chained(todo[o], ch, rules)
      /\ \A o, p \in 2 .. Len(todo) : o < p => EndsApart(todo[o], todo[p], ch)
      /\ \A i \in 1 .. Len(K) : Chained(K[i], ch, rules)
      /\ \A i \in 1 .. Len(K) : \A u : EndsApart(K[i], u, ch)
      /\ Follows(todo, K, new)
  BY <1>1 DEF Chained, EndsApart
<1>3. NoRuleTwice'
  BY DEF AInv, Standing, NoRuleTwice
<1> HIDE DEF new, ch, rules
<1>4. /\ \A i \in 1 .. Len(new) : Chained(new[i], ch, rules)
      /\ \A i, j \in 1 .. Len(new) : i < j => EndsApart(new[i], new[j], ch)
  BY <1>2, ChainedCarried
<1> QED
  BY <1>3, <1>4 DEF StepsChained, new, ch, rules

\* The workers, when none of them changes its status.
LEMMA HoldsStill ==
  ASSUME AInv, NEW K, Follows(todo, K, todo'),
         UNCHANGED <<workerStatus, config>>,
         \A i \in 1 .. Len(K) : K[i].op \notin WorkerOps
  PROVE  StepsHold'
<1> SUFFICES ASSUME Unnamed'
             PROVE  StepsHold'
  BY DEF StepsHold
<1> DEFINE new == todo'
           wst == workerStatus'
<1>1. /\ \A o \in 2 .. Len(todo) : Holds(todo[o], workerStatus)
      /\ \A o, p \in 2 .. Len(todo) : o < p => WorkApart(todo[o], todo[p])
  BY RestPositions DEF AInv, Standing, StepsHold, Follows, Unnamed
<1>2. /\ \A o \in 2 .. Len(todo) : Holds(todo[o], wst)
      /\ \A o, p \in 2 .. Len(todo) : o < p => WorkApart(todo[o], todo[p])
      /\ \A i \in 1 .. Len(K) : Holds(K[i], wst)
      /\ \A i \in 1 .. Len(K) : \A u : WorkApart(K[i], u)
      /\ Follows(todo, K, new)
  BY <1>1, LooseHolds
<1> HIDE DEF new, wst
<1>3. /\ \A i \in 1 .. Len(new) : Holds(new[i], wst)
      /\ \A i, j \in 1 .. Len(new) : i < j => WorkApart(new[i], new[j])
  BY <1>2, HoldsCarried
<1> QED
  BY <1>3 DEF StepsHold, new, wst

(***************************************************************************)
(* Duties are passed on: what is out of order after a step was out of      *)
(* order before and was not for this step to see to, or is seen to by a    *)
(* step that is called, or by one the step at hand needed behind it.       *)
(***************************************************************************)
LEMMA DutiesCarried ==
  ASSUME AInv, NEW K, Follows(todo, K, todo'), Len(todo) \in Nat \ {0},
         \A kind \in Kinds, x \in Matters : Due(kind, x)' =>
           \/ Due(kind, x) /\ ~Pays(todo[1], kind, x)
           \/ \E i \in 1 .. Len(K) : Pays(K[i], kind, x)
           \/ Needs(todo[1], kind, x)
  PROVE  Duties'
<1> DEFINE new == todo'
<1>0. Follows(todo, K, new)
  OBVIOUS
<1> HIDE DEF new
<1>1. ASSUME NEW kind \in Kinds, NEW x \in Matters, Due(kind, x)'
      PROVE  Paid(new, kind, x)
  <2>1. CASE Due(kind, x) /\ ~Pays(todo[1], kind, x)
    <3>1. PICK o \in 1 .. Len(todo) : Pays(todo[o], kind, x)
      BY <2>1 DEF AInv, Duties, Paid
    <3>2. o \in 2 .. Len(todo)
      BY <2>1, <3>1
    <3>3. Len(K) + (o - 1) \in 1 .. Len(new) /\ new[Len(K) + (o - 1)] = todo[o]
      BY <1>0, <3>2 DEF Follows
    <3> QED
      BY <3>1, <3>3 DEF Paid
  <2>2. CASE \E i \in 1 .. Len(K) : Pays(K[i], kind, x)
    BY <1>0, <2>2 DEF Follows, Paid
  <2>3. CASE Needs(todo[1], kind, x)
    BY <1>0, <2>3, NeededPaid DEF AInv, Standing, Paid
  <2> QED
    BY <1>1, <2>1, <2>2, <2>3
<1> QED
  BY <1>1 DEF Duties, new

-----------------------------------------------------------------------------
(* The step at hand.                                                       *)

\* What the invariant says of the step at hand.
LEMMA AtHand ==
  ASSUME AInv, todo # <<>>
  PROVE  /\ Step = todo[1] /\ Len(todo) \in Nat \ {0} /\ StepOK(Step)
         /\ Fits(Step, taskStatus, workflowStatus)
         /\ Chained(Step, chain, Loaded(config))
         /\ Unnamed => Holds(Step, workerStatus)
<1>1. todo \in Seq(ToSet(todo))
  BY DEF AInv, Standing, IsStack
<1>2. Len(todo) \in Nat \ {0} /\ Head(todo) = todo[1]
  BY <1>1, EmptySeq, LenProperties
<1>3. 1 \in 1 .. Len(todo)
  BY <1>2
<1> QED
  BY <1>2, <1>3
  DEF AInv, Standing, IsStack, StepsFit, StepsChained, StepsHold, Step

\* What the step at hand has to do with the others.
LEMMA AtHandApart ==
  ASSUME AInv, todo # <<>>
  PROVE  \A o \in 2 .. Len(todo) :
           /\ o \in 1 .. Len(todo) /\ todo[o].op \notin HeadOps
           /\ StepOK(todo[o]) /\ Fits(todo[o], taskStatus, workflowStatus)
           /\ Chained(todo[o], chain, Loaded(config))
           /\ Apart(Step, todo[o]) /\ EndsApart(Step, todo[o], chain)
           /\ Unnamed => /\ Holds(todo[o], workerStatus)
                         /\ WorkApart(Step, todo[o])
<1>1. Step = todo[1] /\ Len(todo) \in Nat \ {0} /\ 1 \in 1 .. Len(todo)
  BY AtHand
<1>2. \A o \in 2 .. Len(todo) : o \in 1 .. Len(todo) /\ 1 < o
  BY <1>1
<1>3. \A o \in 2 .. Len(todo) : todo[o].op \notin HeadOps
  BY DEF AInv, Standing, Ordered
<1> QED
  BY <1>1, <1>2, <1>3
  DEF AInv, Standing, IsStack, Ordered, StepsFit, StepsChained, StepsHold

(***************************************************************************)
(* A step that only calls others keeps the invariant, if these may take    *)
(* its place, fit, and see to what the step itself was to see to.          *)
(***************************************************************************)
LEMMA CallsOn ==
  ASSUME AInv, todo # <<>>, NEW K, todo' = Called(K, todo), Replaces(Step, K),
         UNCHANGED <<engineVars, fileVars, workerStatus, config, chain>>,
         \A i \in 1 .. Len(K) :
           /\ Fits(K[i], taskStatus, workflowStatus)
           /\ K[i].op # "rule_end"
           /\ K[i].op \in {"rule", "action"} => K[i].rule \in Loaded(config),
         \A i \in 1 .. Len(K), o \in 2 .. Len(todo) : Apart(K[i], todo[o]),
         Unnamed =>
           /\ \A i \in 1 .. Len(K) : Holds(K[i], workerStatus)
           /\ \A i, j \in 1 .. Len(K) : i < j => WorkApart(K[i], K[j])
           /\ \A i \in 1 .. Len(K), o \in 2 .. Len(todo) :
                WorkApart(K[i], todo[o]),
         \A kind \in Kinds, x \in Matters :
           Pays(Step, kind, x) => \E i \in 1 .. Len(K) : Pays(K[i], kind, x)
  PROVE  AInv'
<1> DEFINE new == todo'
<1>1. Step = todo[1] /\ Len(todo) \in Nat \ {0}
  BY AtHand
<1>2. /\ Replaces(todo[1], K) /\ new = Called(K, todo)
      /\ IsStack(todo) /\ Ordered(todo)
  BY <1>1 DEF AInv, Standing
<1> HIDE DEF new
<1>3. Follows(todo, K, new) /\ IsStack(new) /\ Ordered(new)
  BY <1>2, Advance
<1>4. Follows(todo, K, todo') /\ IsStack(todo)' /\ Ordered(todo)'
  BY <1>3 DEF new
<1>5. StepsFit'
  BY <1>4, FitsStill DEF engineVars
<1>6. StepsChained' /\ NoRuleTwice'
  BY <1>4, ChainedStill
<1>7. StepsHold'
  <2> SUFFICES ASSUME Unnamed'
               PROVE  StepsHold'
    BY DEF StepsHold
  <2> DEFINE wst == workerStatus'
  <2>1. /\ \A o \in 2 .. Len(todo) : Holds(todo[o], workerStatus)
        /\ \A o, p \in 2 .. Len(todo) : o < p => WorkApart(todo[o], todo[p])
    BY <1>1, RestPositions DEF AInv, Standing, StepsHold, Unnamed
  <2>2. /\ \A o \in 2 .. Len(todo) : Holds(todo[o], wst)
        /\ \A i \in 1 .. Len(K) : Holds(K[i], wst)
        /\ \A i, j \in 1 .. Len(K) : i < j => WorkApart(K[i], K[j])
        /\ \A i \in 1 .. Len(K), o \in 2 .. Len(todo) :
             WorkApart(K[i], todo[o])
    BY <2>1 DEF Unnamed
  <2> HIDE DEF wst
  <2>3. /\ \A i \in 1 .. Len(new) : Holds(new[i], wst)
        /\ \A i, j \in 1 .. Len(new) : i < j => WorkApart(new[i], new[j])
    BY <1>3, <2>1, <2>2, HoldsCarried
  <2> QED
    BY <2>3 DEF StepsHold, new, wst
<1>8. Typed'
  BY DEF AInv, Typed, engineVars, fileVars
<1>9. Duties'
  <2>1. \A kind \in Kinds, x \in Matters : Due(kind, x)' => Due(kind, x)
    BY DEF Due, engineVars, fileVars
  <2> QED
    BY <1>1, <1>4, <2>1, DutiesCarried
<1>10. TasksOK(taskStatus, workflowStatus)'
  BY DEF AInv, Standing, TasksOK, engineVars
<1> QED
  BY <1>4, <1>5, <1>6, <1>7, <1>8, <1>9, <1>10 DEF AInv, Standing

\* Kinds of steps that see to something.
PayOps ==
  {"refresh", "persist", "sync_manifest", "record", "outcome", "run",
   "release", "rule_end"} \cup BusyOps

\* Only steps of certain kinds see to anything.
LEMMA OthersPayNothing ==
  ASSUME NEW s, s.op \notin PayOps
  PROVE  \A kind, x : ~Pays(s, kind, x)
BY DEF Pays, PayOps, BusyOps

\* The same for steps that have no task, no worker and no rule.
LEMMA LooseCallsOn ==
  ASSUME AInv, todo # <<>>, NEW K, todo' = Called(K, todo), Replaces(Step, K),
         UNCHANGED <<engineVars, fileVars, workerStatus, config, chain>>,
         \A i \in 1 .. Len(K) :
           K[i].op \notin WorkOps \cup WorkerOps \cup RuleOps,
         Step.op \notin PayOps
  PROVE  AInv'
<1>1. \A i \in 1 .. Len(K) :
        /\ Fits(K[i], taskStatus, workflowStatus)
        /\ K[i].op # "rule_end"
        /\ K[i].op \notin {"rule", "action"}
  BY LooseFits DEF RuleOps
<1>2. \A i \in 1 .. Len(K) : \A u : Apart(K[i], u) /\ WorkApart(K[i], u)
  BY LooseFits, LooseHolds
<1>3. \A i \in 1 .. Len(K) : Holds(K[i], workerStatus)
  BY LooseHolds
<1>4. \A kind \in Kinds, x \in Matters : ~Pays(Step, kind, x)
  BY OthersPayNothing
<1> QED
  BY <1>1, <1>2, <1>3, <1>4, CallsOn

\* No steps at all can take the place of any step.
LEMMA NothingReplaces == \A s : Replaces(s, <<>>)
BY Tuples DEF Replaces, IsStack

\* A step that changes nothing and calls nothing.
LEMMA ReturnsOnly ==
  ASSUME AInv, todo # <<>>, Return,
         UNCHANGED <<engineVars, fileVars, workerStatus, config, chain>>,
         Step.op \notin PayOps
  PROVE  AInv'
<1> DEFINE K == <<>>
<1>1. todo' = Called(K, todo) /\ Replaces(Step, K) /\ Len(K) = 0
  BY NothingReplaces, Tuples DEF Return, Call, Called
<1> HIDE DEF K
<1> QED
  BY <1>1, LooseCallsOn

\* When one step can take the place of another.
LEMMA ReplacesOne ==
  ASSUME NEW s, NEW a, StepOK(a),
         \A kind \in Kinds, x \in Matters :
           Needs(a, kind, x) => Needs(s, kind, x)
  PROVE  Replaces(s, <<a>>)
<1> DEFINE K == <<a>>
<1>1. K \in Seq(ToSet(K)) /\ Len(K) = 1 /\ K[1] = a
  BY Tuples
<1>2. \A i \in 1 .. Len(K) : K[i] = a
  BY <1>1
<1> HIDE DEF K
<1>3. Replaces(s, K)
  BY <1>1, <1>2 DEF Replaces, IsStack
<1> QED
  BY <1>3 DEF K

\* When two can; the second may see to what the first one needs.
LEMMA ReplacesTwo ==
  ASSUME NEW s, NEW a, NEW b, StepOK(a), StepOK(b), b.op \notin HeadOps,
         Apart(a, b),
         \A kind \in Kinds, x \in Matters :
           /\ Needs(a, kind, x) => Pays(b, kind, x) \/ Needs(s, kind, x)
           /\ Needs(b, kind, x) => Needs(s, kind, x)
  PROVE  Replaces(s, <<a, b>>)
<1> DEFINE K == <<a, b>>
<1>1. K \in Seq(ToSet(K)) /\ Len(K) = 2 /\ K[1] = a /\ K[2] = b
  BY Tuples
<1>2. \A i \in 1 .. Len(K) : i = 1 \/ i = 2
  BY <1>1
<1> HIDE DEF K
<1>3. \A i \in 2 .. Len(K) : i = 2
  BY <1>1
<1>4. \A i, j \in 1 .. Len(K) : i < j => i = 1 /\ j = 2
  BY <1>2
<1>5. 2 \in 1 .. Len(K) /\ 1 < 2
  BY <1>1
<1>6. \A i \in 1 .. Len(K) : StepOK(K[i])
  BY <1>1, <1>2
<1>7. ASSUME NEW i \in 1 .. Len(K), NEW kind \in Kinds, NEW x \in Matters,
             Needs(K[i], kind, x)
      PROVE  \/ \E j \in 1 .. Len(K) : i < j /\ Pays(K[j], kind, x)
             \/ Needs(s, kind, x)
  BY <1>1, <1>2, <1>5, <1>7
<1>8. Replaces(s, K)
  BY <1>1, <1>3, <1>4, <1>6, <1>7 DEF Replaces, IsStack
<1> QED
  BY <1>8 DEF K

\* When three can.
LEMMA ReplacesThree ==
  ASSUME NEW s, NEW a, NEW b, NEW c, StepOK(a), StepOK(b), StepOK(c),
         b.op \notin HeadOps, c.op \notin HeadOps,
         Apart(a, b), Apart(a, c), Apart(b, c),
         \A kind \in Kinds, x \in Matters :
           /\ Needs(a, kind, x) => Needs(s, kind, x)
           /\ Needs(b, kind, x) => Needs(s, kind, x)
           /\ Needs(c, kind, x) => Needs(s, kind, x)
  PROVE  Replaces(s, <<a, b, c>>)
<1> DEFINE K == <<a, b, c>>
<1>1. K \in Seq(ToSet(K)) /\ Len(K) = 3 /\ K[1] = a /\ K[2] = b /\ K[3] = c
  BY Tuples
<1>2. \A i \in 1 .. Len(K) : i = 1 \/ i = 2 \/ i = 3
  BY <1>1
<1> HIDE DEF K
<1>3. \A i \in 2 .. Len(K) : i = 2 \/ i = 3
  BY <1>1
<1>4. \A i, j \in 1 .. Len(K) :
        i < j => \/ i = 1 /\ j = 2
                 \/ i = 1 /\ j = 3
                 \/ i = 2 /\ j = 3
  BY <1>2
<1>5. \A i \in 1 .. Len(K) : StepOK(K[i])
  BY <1>1, <1>2
<1>6. ASSUME NEW i \in 1 .. Len(K), NEW kind \in Kinds, NEW x \in Matters,
             Needs(K[i], kind, x)
      PROVE  Needs(s, kind, x)
  BY <1>1, <1>2, <1>6
<1>7. \A i, j \in 1 .. Len(K) : i < j => Apart(K[i], K[j])
  BY <1>1, <1>4
<1>8. \A i \in 2 .. Len(K) : K[i].op \notin HeadOps
  BY <1>1, <1>3
<1>9. Replaces(s, K)
  BY <1>1, <1>5, <1>6, <1>7, <1>8 DEF Replaces, IsStack
<1> QED
  BY <1>9 DEF K

\* Events of the engine start at depth zero; to publish needs nothing.
LEMMA PublishFacts ==
  ASSUME NEW type, NEW payload
  PROVE  LET a == Publish(type, payload) IN
         /\ a.op = "publish" /\ StepOK(a)
         /\ \A kind, x : ~Needs(a, kind, x)
BY MaxDepthAssumption
DEF Publish, CreateEvent, StepOK, TaskOps, BusyOps, Needs, SyncOps

\* The same of the events about a task.
LEMMA PublishTaskFacts ==
  ASSUME NEW type, NEW t
  PROVE  LET a == PublishTask(type, t) IN
         /\ a.op = "publish" /\ StepOK(a)
         /\ \A kind, x : ~Needs(a, kind, x)
BY PublishFacts DEF PublishTask

\* Steps on their way to another state only need the manifest written.
LEMMA TargetFacts ==
  ASSUME NEW target \in ProjectStates,
         NEW a, a \in {TransitionTo(target), TryState(target),
                       RetryState(target)}
  PROVE  /\ a.op \in {"transition", "try_state", "retry_state"} /\ StepOK(a)
         /\ \A kind, x : Needs(a, kind, x) => kind = "synced"
BY DEF TransitionTo, TryState, RetryState, StepOK, TaskOps, BusyOps, Needs,
       SyncOps

\* Of the steps without an argument only sync_state leaves something to do.
LEMMA PlainFacts ==
  ASSUME NEW op \in {"sync_state", "persist", "sync_manifest"},
         NEW a, a = Plain(op)
  PROVE  /\ a.op = op /\ StepOK(a)
         /\ \A kind, x : Needs(a, kind, x) => op = "sync_state" /\ kind = "synced"
BY DEF Plain, StepOK, TaskOps, BusyOps, Needs, SyncOps

\* A completion may change the state of the project, a refresh does not.
LEMMA WorkflowStepFacts ==
  ASSUME NEW op \in {"refresh", "completion"}, NEW w \in Workflows,
         NEW a, a = ForWorkflow(op, w)
  PROVE  /\ a.op = op /\ a.workflow = w /\ StepOK(a)
         /\ \A kind, x : Needs(a, kind, x) => op = "completion" /\ kind = "synced"
BY DEF ForWorkflow, StepOK, TaskOps, BusyOps, Needs, SyncOps

\* The steps of a dispatch change the state of the project, up to the release.
LEMMA WorkStepFacts ==
  ASSUME NEW op \in {"assign", "run", "start", "execute", "release"},
         NEW t \in Tasks, NEW k \in Workers, NEW a, a = ForWork(op, t, k)
  PROVE  /\ a.op = op /\ a.task = t /\ a.worker = k /\ StepOK(a)
         /\ \A kind, x : Needs(a, kind, x) => op # "release" /\ kind = "synced"
BY DEF ForWork, StepOK, TaskOps, BusyOps, Needs, SyncOps

\* An outcome changes the state of the project.
LEMMA OutcomeStepFacts ==
  ASSUME NEW t \in Tasks, NEW success \in BOOLEAN, NEW a,
         a = OutcomeOf(t, success)
  PROVE  /\ a.op = "outcome" /\ a.task = t /\ StepOK(a)
         /\ \A kind, x : Needs(a, kind, x) => kind = "synced"
BY DEF OutcomeOf, StepOK, TaskOps, BusyOps, Needs, SyncOps

\* So does a dispatch.
LEMMA DispatchStepFacts ==
  ASSUME NEW t \in Tasks, NEW k \in Workers \cup {NoWorker}, NEW a,
         a = DispatchOf(t, k)
  PROVE  /\ a.op = "dispatch" /\ a.task = t /\ a.worker = k /\ StepOK(a)
         /\ \A kind, x : Needs(a, kind, x) => kind = "synced"
BY DEF DispatchOf, StepOK, TaskOps, BusyOps, Needs, SyncOps

\* Steps that change the state of the project need the manifest written.
LEMMA SyncNeeds ==
  ASSUME NEW s, s.op \in SyncOps
  PROVE  \A x : Needs(s, "synced", x)
BY DEF Needs

-----------------------------------------------------------------------------
(* Steps that only call others.                                            *)

\* The table and the bridge stay within the states of a project.
LEMMA TransitionTypes ==
  ASSUME NEW ps \in ProjectStates, NEW target
  PROVE  /\ CanTransition(ps, target) => target \in ProjectStates
         /\ target \in ProjectStates => AfterBridge(ps, target) \in ProjectStates
BY DEF CanTransition, VALID_TRANSITIONS, ProjectStates, AfterBridge

\* The event of a publish_event action is one level deeper, or not published.
LEMMA PublishActionKeeps ==
  ASSUME AInv, PublishAction
  PROVE  AInv'
<1>1. todo # <<>> /\ Step.op = "action" /\ Step.action.type = "publish_event"
  BY DEF PublishAction, At, Step
<1>2. UNCHANGED <<engineVars, fileVars, workerStatus, config, chain>>
  BY DEF PublishAction
<1>3. CASE Step.depth >= MaxDepth
  BY <1>1, <1>2, <1>3, ReturnsOnly DEF PublishAction, PayOps, BusyOps
<1>4. CASE ~(Step.depth >= MaxDepth)
  <2> DEFINE a == [op |-> "publish",
                   event |-> [type |-> Step.action.event, payload |-> <<>>,
                              generated |-> TRUE, depth |-> Step.depth + 1]]
             K == <<a>>
  <2>1. Step.depth \in 0 .. MaxDepth
    BY <1>1, AtHand DEF StepOK
  <2>2. a.op = "publish" /\ a.event.depth = Step.depth + 1
    OBVIOUS
  <2>3. todo' = Called(K, todo)
    BY <1>4 DEF PublishAction, Call, Called
  <2> HIDE DEF a
  <2>4. Step.depth + 1 \in 0 .. MaxDepth
    BY <1>4, <2>1, MaxDepthAssumption
  <2>5. StepOK(a) /\ \A kind, x : ~Needs(a, kind, x)
    BY <2>2, <2>4 DEF StepOK, TaskOps, BusyOps, Needs, SyncOps
  <2>6. Replaces(Step, K)
    BY <2>5, ReplacesOne
  <2>7. \A i \in 1 .. Len(K) : K[i].op = "publish"
    BY <2>2, Tuples
  <2> HIDE DEF K
  <2> QED
    BY <1>1, <1>2, <2>3, <2>6, <2>7, LooseCallsOn
    DEF PayOps, WorkOps, WorkerOps, RuleOps, BusyOps
<1> QED
  BY <1>3, <1>4

\* An action outside of the engine changes nothing in it.
LEMMA OutsideActionKeeps ==
  ASSUME AInv, OutsideAction
  PROVE  AInv'
<1>1. todo # <<>> /\ Step.op = "action"
  BY DEF OutsideAction, At, Step
<1> QED
  BY <1>1, ReturnsOnly DEF OutsideAction, PayOps, BusyOps

\* A step that goes to another state, with the manifest to be written.
LEMMA TransitionActionKeeps ==
  ASSUME AInv, TransitionAction
  PROVE  AInv'
<1>1. todo # <<>> /\ Step.op = "action"
  BY DEF TransitionAction, At, Step
<1>2. UNCHANGED <<engineVars, fileVars, workerStatus, config, chain>>
  BY DEF TransitionAction
<1>3. CASE ~CanTransition(projectState, Step.action.state)
  BY <1>1, <1>2, <1>3, ReturnsOnly DEF TransitionAction, PayOps, BusyOps
<1>4. CASE CanTransition(projectState, Step.action.state)
  <2> DEFINE a == TransitionTo(Step.action.state)
             b == Plain("sync_manifest")
             K == <<a, b>>
  <2>1. todo' = Called(K, todo)
    BY <1>4 DEF TransitionAction, Call, Called
  <2>2. Step.action.state \in ProjectStates
    BY <1>4, TransitionTypes DEF AInv, Typed
  <2>3. /\ a.op = "transition" /\ StepOK(a)
        /\ \A kind, x : Needs(a, kind, x) => kind = "synced"
    BY <2>2, TargetFacts DEF TransitionTo
  <2>4. b.op = "sync_manifest" /\ StepOK(b) /\ \A kind, x : ~Needs(b, kind, x)
    BY PlainFacts
  <2> HIDE DEF a, b
  <2>5. Replaces(Step, K)
    <3>1. b.op \notin HeadOps /\ Apart(a, b)
      BY <2>3, <2>4 DEF HeadOps, Apart, BusyOps
    <3>2. \A x : Pays(b, "synced", x)
      BY <2>4 DEF Pays
    <3> QED
      BY <2>3, <2>4, <3>1, <3>2, ReplacesTwo
  <2>6. \A i \in 1 .. Len(K) : K[i].op \in {"transition", "sync_manifest"}
    BY <2>3, <2>4, Tuples
  <2> HIDE DEF K
  <2> QED
    BY <1>1, <1>2, <2>1, <2>5, <2>6, LooseCallsOn
    DEF PayOps, WorkOps, WorkerOps, RuleOps, BusyOps
<1> QED
  BY <1>3, <1>4

\* A step on its way to another state calls one such step, or two.
LEMMA OnwardKeeps ==
  ASSUME AInv, todo # <<>>, Step.op \in SyncOps \ PayOps,
         UNCHANGED <<engineVars, fileVars, workerStatus, config, chain>>,
         NEW target \in ProjectStates, NEW later \in ProjectStates,
         \/ Call(<<TransitionTo(target)>>)
         \/ Call(<<TryState(target)>>)
         \/ Call(<<TransitionTo(target), RetryState(later)>>)
  PROVE  AInv'
<1>1. ASSUME NEW a \in {TransitionTo(target), TryState(target)}, Call(<<a>>)
      PROVE  AInv'
  <2> DEFINE K == <<a>>
  <2>1. todo' = Called(K, todo)
    BY <1>1 DEF Call, Called
  <2>2. /\ a.op \in {"transition", "try_state", "retry_state"} /\ StepOK(a)
        /\ \A kind, x : Needs(a, kind, x) => kind = "synced"
    BY TargetFacts
  <2>3. Replaces(Step, K)
    BY <2>2, SyncNeeds, ReplacesOne
  <2>4. \A i \in 1 .. Len(K) :
          K[i].op \in {"transition", "try_state", "retry_state"}
    BY <2>2, Tuples
  <2> HIDE DEF K
  <2> QED
    BY <2>1, <2>3, <2>4, LooseCallsOn
    DEF WorkOps, WorkerOps, RuleOps, BusyOps
<1>2. CASE Call(<<TransitionTo(target), RetryState(later)>>)
  <2> DEFINE a == TransitionTo(target)
             b == RetryState(later)
             K == <<a, b>>
  <2>1. todo' = Called(K, todo)
    BY <1>2 DEF Call, Called
  <2>2. /\ a.op = "transition" /\ StepOK(a)
        /\ \A kind, x : Needs(a, kind, x) => kind = "synced"
    BY TargetFacts DEF TransitionTo
  <2>3. /\ b.op = "retry_state" /\ StepOK(b)
        /\ \A kind, x : Needs(b, kind, x) => kind = "synced"
    BY TargetFacts DEF RetryState
  <2> HIDE DEF a, b
  <2>4. b.op \notin HeadOps /\ Apart(a, b)
    BY <2>2, <2>3 DEF HeadOps, Apart, BusyOps
  <2>5. Replaces(Step, K)
    BY <2>2, <2>3, <2>4, SyncNeeds, ReplacesTwo
  <2>6. \A i \in 1 .. Len(K) : K[i].op \in {"transition", "retry_state"}
    BY <2>2, <2>3, Tuples
  <2> HIDE DEF K
  <2> QED
    BY <2>1, <2>5, <2>6, LooseCallsOn
    DEF WorkOps, WorkerOps, RuleOps, BusyOps
<1> QED
  BY <1>1, <1>2

\* A transition is tried: nothing, the transition, or the bridge and a retry.
LEMMA TryStateKeeps ==
  ASSUME AInv, TryStateTransition
  PROVE  AInv'
<1>1. todo # <<>> /\ Step.op = "try_state" /\ Step.target \in ProjectStates
  <2>1. todo # <<>> /\ Step.op = "try_state"
    BY DEF TryStateTransition, At, Step
  <2> QED
    BY <2>1, AtHand DEF StepOK
<1>2. /\ UNCHANGED <<engineVars, fileVars, workerStatus, config, chain>>
      /\ AfterBridge(projectState, Step.target) \in ProjectStates
  BY <1>1, TransitionTypes DEF TryStateTransition, AInv, Typed
<1>3. Step.op \in SyncOps \ PayOps
  BY <1>1 DEF SyncOps, PayOps, BusyOps
<1>4. CASE Return
  BY <1>1, <1>2, <1>3, <1>4, ReturnsOnly
<1>5. CASE Call(<<TransitionTo(Step.target)>>)
  BY <1>1, <1>2, <1>3, <1>5, OnwardKeeps
<1>6. CASE Call(<<TransitionTo(AfterBridge(projectState, Step.target)),
                  RetryState(Step.target)>>)
  BY <1>1, <1>2, <1>3, <1>6, OnwardKeeps
<1> QED
  BY <1>4, <1>5, <1>6 DEF TryStateTransition

\* The retry behind the bridge.
LEMMA RetryStateKeeps ==
  ASSUME AInv, RetryStateTransition
  PROVE  AInv'
<1>1. todo # <<>> /\ Step.op = "retry_state" /\ Step.target \in ProjectStates
  <2>1. todo # <<>> /\ Step.op = "retry_state"
    BY DEF RetryStateTransition, At, Step
  <2> QED
    BY <2>1, AtHand DEF StepOK
<1>2. UNCHANGED <<engineVars, fileVars, workerStatus, config, chain>>
  BY DEF RetryStateTransition
<1>3. Step.op \in SyncOps \ PayOps
  BY <1>1 DEF SyncOps, PayOps, BusyOps
<1>4. CASE Return
  BY <1>1, <1>2, <1>3, <1>4, ReturnsOnly
<1>5. CASE Call(<<TransitionTo(Step.target)>>)
  BY <1>1, <1>2, <1>3, <1>5, OnwardKeeps
<1> QED
  BY <1>4, <1>5 DEF RetryStateTransition

\* The reconciliation asks for a transition at most.
LEMMA SyncStateKeeps ==
  ASSUME AInv, SyncState
  PROVE  AInv'
<1> DEFINE target ==
      DeriveProjectState(workflowStatus, taskStatus, projectState)
<1>1. todo # <<>> /\ Step.op = "sync_state"
  BY DEF SyncState, At, Step
<1>2. /\ UNCHANGED <<engineVars, fileVars, workerStatus, config, chain>>
      /\ target \in ProjectStates \cup {NoTarget}
  <2>1. target \in ProjectStates \cup {NoTarget}
    BY DEF DeriveProjectState, ProjectStates, NoTarget
  <2> QED
    BY <2>1 DEF SyncState
<1>3. Step.op \in SyncOps \ PayOps
  BY <1>1 DEF SyncOps, PayOps, BusyOps
<1>4. (target \in {NoTarget, projectState} /\ Return)
        \/ (target \notin {NoTarget, projectState} /\ Call(<<TryState(target)>>))
  BY DEF SyncState
<1> HIDE DEF target
<1>5. CASE Return
  BY <1>1, <1>2, <1>3, <1>5, ReturnsOnly
<1>6. CASE target \in ProjectStates /\ Call(<<TryState(target)>>)
  BY <1>1, <1>2, <1>3, <1>6, OnwardKeeps
<1> QED
  BY <1>2, <1>4, <1>5, <1>6

\* A completed workflow is announced, and the transition is tried.
LEMMA CompleteWorkflowKeeps ==
  ASSUME AInv, CompleteWorkflow
  PROVE  AInv'
<1>1. todo # <<>> /\ Step.op = "completion"
  BY DEF CompleteWorkflow, At, Step
<1>2. UNCHANGED <<engineVars, fileVars, workerStatus, config, chain>>
  BY DEF CompleteWorkflow
<1>3. CASE Return
  BY <1>1, <1>2, <1>3, ReturnsOnly DEF PayOps, BusyOps
<1>4. CASE Call(<<Publish("WorkflowCompleted", [workflow_id |-> Step.workflow]),
                  TryState("completed")>>)
  <2> DEFINE a == Publish("WorkflowCompleted", [workflow_id |-> Step.workflow])
             b == TryState("completed")
             K == <<a, b>>
  <2>1. todo' = Called(K, todo)
    BY <1>4 DEF Call, Called
  <2>2. a.op = "publish" /\ StepOK(a) /\ \A kind, x : ~Needs(a, kind, x)
    BY PublishFacts
  <2>3. /\ b.op = "try_state" /\ StepOK(b)
        /\ \A kind, x : Needs(b, kind, x) => kind = "synced"
    <3>1. "completed" \in ProjectStates
      BY DEF ProjectStates
    <3> QED
      BY <3>1, TargetFacts DEF TryState
  <2> HIDE DEF a, b
  <2>4. b.op \notin HeadOps /\ Apart(a, b)
    BY <2>2, <2>3 DEF HeadOps, Apart, BusyOps
  <2>5. \A x : Needs(Step, "synced", x)
    BY <1>1 DEF Needs, SyncOps
  <2>6. Replaces(Step, K)
    BY <2>2, <2>3, <2>4, <2>5, ReplacesTwo
  <2>7. \A i \in 1 .. Len(K) : K[i].op \in {"publish", "try_state"}
    BY <2>2, <2>3, Tuples
  <2> HIDE DEF K
  <2> QED
    BY <1>1, <1>2, <2>1, <2>6, <2>7, LooseCallsOn
    DEF PayOps, WorkOps, WorkerOps, RuleOps, BusyOps
<1> QED
  BY <1>3, <1>4 DEF CompleteWorkflow

-----------------------------------------------------------------------------
(* What is refreshed stays so.                                             *)

\* What it means for workflow w to be refreshed, task by task.
SettledTasks(w, ts) ==
  \A u \in Tasks :
    WorkflowOf[u] = w /\ ts[u] \in {"pending", "ready"} =>
      ts[u] = IF DependenciesSatisfied(u, ts) THEN "ready" ELSE "pending"

\* A workflow is refreshed if its tasks are settled and its status derived.
LEMMA RefreshedMeans ==
  ASSUME NEW ts, ts \in [Tasks -> Live], NEW w \in Workflows,
         NEW ws, ws \in [Workflows -> WorkflowStatuses]
  PROVE  Refreshed(w, ts, ws) <=>
           /\ ws[w] \notin Inactive => SettledTasks(w, ts)
           /\ DeriveWorkflowStatus(w, ws[w], ts) = ws[w]
<1> DEFINE new == EvaluateTaskReadiness(w, ts)
<1>1. \A u \in Tasks :
        new[u] = IF WorkflowOf[u] = w /\ ts[u] \in {"pending", "ready"}
                   THEN IF DependenciesSatisfied(u, ts) THEN "ready"
                                                        ELSE "pending"
                   ELSE ts[u]
  BY DEF EvaluateTaskReadiness
<1>2. new = [u \in Tasks |-> new[u]] /\ ts = [u \in Tasks |-> ts[u]]
  BY DEF EvaluateTaskReadiness
<1>3. new = ts <=> \A u \in Tasks : new[u] = ts[u]
  <2> HIDE DEF new
  <2> QED
    BY <1>2
<1>4. new = ts <=> SettledTasks(w, ts)
  <2> HIDE DEF new
  <2> QED
    BY <1>1, <1>3 DEF SettledTasks
<1>5. RefreshedTasks(w, ws, ts) = ts
        <=> (ws[w] \notin Inactive => SettledTasks(w, ts))
  BY <1>4 DEF RefreshedTasks
<1>6. RefreshedStatus(w, ws, ts) = ws
        <=> DeriveWorkflowStatus(w, ws[w], ts) = ws[w]
  <2> DEFINE s == DeriveWorkflowStatus(w, ws[w], ts)
  <2> HIDE DEF s
  <2>1. [ws EXCEPT ![w] = s] = ws <=> s = ws[w]
    OBVIOUS
  <2> QED
    BY <2>1 DEF RefreshedStatus, s
<1> QED
  BY <1>5, <1>6 DEF Refreshed

\* What a derived workflow status depends on.
LEMMA DeriveSame ==
  ASSUME NEW w, NEW ts, NEW new, NEW status,
         \A u \in TasksOf(w) :
           /\ new[u] = "failed" <=> ts[u] = "failed"
           /\ new[u] \in Done <=> ts[u] \in Done
           /\ new[u] \in Active <=> ts[u] \in Active
  PROVE  DeriveWorkflowStatus(w, status, new)
           = DeriveWorkflowStatus(w, status, ts)
<1> DEFINE S == {ts[u] : u \in TasksOf(w)}
           N == {new[u] : u \in TasksOf(w)}
<1>1. S = {} <=> N = {}
  OBVIOUS
<1>2. "failed" \in S <=> "failed" \in N
  OBVIOUS
<1>3. S \subseteq Done <=> N \subseteq Done
  OBVIOUS
<1>4. S \cap Active = {} <=> N \cap Active = {}
  OBVIOUS
<1> HIDE DEF S, N
<1>5. (IF status \in Inactive \/ S = {} THEN status
       ELSE IF "failed" \in S THEN "blocked"
       ELSE IF S \subseteq Done THEN "completed"
       ELSE IF S \cap Active # {} THEN "in_progress"
       ELSE status)
      = (IF status \in Inactive \/ N = {} THEN status
         ELSE IF "failed" \in N THEN "blocked"
         ELSE IF N \subseteq Done THEN "completed"
         ELSE IF N \cap Active # {} THEN "in_progress"
         ELSE status)
  BY <1>1, <1>2, <1>3, <1>4
<1> QED
  BY <1>5 DEF DeriveWorkflowStatus, S, N

(***************************************************************************)
(* A task that moves on without being done, undone or failed by it, and    *)
(* that no pass over the tasks looks at afterwards, leaves every workflow  *)
(* refreshed.                                                              *)
(***************************************************************************)
LEMMA MoveKeepsRefreshed ==
  ASSUME NEW ts, ts \in [Tasks -> Live],
         NEW ws, ws \in [Workflows -> WorkflowStatuses],
         NEW w \in Workflows, Refreshed(w, ts, ws),
         NEW t \in Tasks, NEW v \in Live \ {"pending", "ready", "failed"},
         ts[t] # "failed", v \in Done <=> ts[t] \in Done,
         v \in Active <=> ts[t] \in Active,
         NEW new, new \in [Tasks -> Live], new[t] = v,
         \A u \in Tasks \ {t} : new[u] = ts[u]
  PROVE  Refreshed(w, new, ws)
<1>1. /\ new \in [Tasks -> Live] /\ new[t] = v
      /\ \A u \in Tasks \ {t} : new[u] = ts[u]
  OBVIOUS
<1>2. \A u \in Tasks : new[u] \in Done <=> ts[u] \in Done
  BY <1>1
<1>3. \A u \in Tasks :
        DependenciesSatisfied(u, new) <=> DependenciesSatisfied(u, ts)
  BY <1>2 DEF DependenciesSatisfied
<1>4. SettledTasks(w, ts) => SettledTasks(w, new)
  BY <1>1, <1>3 DEF SettledTasks
<1>5. DeriveWorkflowStatus(w, ws[w], new) = DeriveWorkflowStatus(w, ws[w], ts)
  <2>1. \A u \in TasksOf(w) :
          /\ new[u] = "failed" <=> ts[u] = "failed"
          /\ new[u] \in Done <=> ts[u] \in Done
          /\ new[u] \in Active <=> ts[u] \in Active
    BY <1>1, <1>2 DEF TasksOf
  <2> QED
    BY <2>1, DeriveSame
<1> QED
  BY <1>1, <1>4, <1>5, RefreshedMeans

\* What happens in one workflow leaves the others refreshed.
LEMMA ElsewhereRefreshed ==
  ASSUME NEW ts, ts \in [Tasks -> Live],
         NEW new, new \in [Tasks -> Live],
         NEW ws, ws \in [Workflows -> WorkflowStatuses],
         NEW changed, changed \in [Workflows -> WorkflowStatuses],
         NEW w \in Workflows, Refreshed(w, ts, ws), changed[w] = ws[w],
         \A u \in Tasks : WorkflowOf[u] = w => new[u] = ts[u]
  PROVE  Refreshed(w, new, changed)
<1>1. DeriveWorkflowStatus(w, ws[w], new) = DeriveWorkflowStatus(w, ws[w], ts)
  <2>1. \A u \in TasksOf(w) : ts[u] = new[u]
    BY DEF TasksOf
  <2> QED
    BY <2>1, DeriveLocal
<1>2. ASSUME NEW u \in Tasks, WorkflowOf[u] = w
      PROVE  DependenciesSatisfied(u, new) <=> DependenciesSatisfied(u, ts)
  BY <1>2, DependsOnAssumption DEF DependenciesSatisfied
<1>3. SettledTasks(w, ts) => SettledTasks(w, new)
  BY <1>2 DEF SettledTasks
<1> QED
  BY <1>1, <1>3, RefreshedMeans

\* What a refresh of workflow w makes of the tasks.
RefreshOf(w, ws, ts, new) ==
  /\ new \in [Tasks -> Live]
  /\ \A u \in Tasks :
       \/ new[u] = ts[u]
       \/ /\ WorkflowOf[u] = w /\ ws[w] \notin Inactive
          /\ ts[u] \in {"pending", "ready"}
          /\ new[u] = IF DependenciesSatisfied(u, ts) THEN "ready"
                                                      ELSE "pending"
  /\ \A u \in Tasks :
       DependenciesSatisfied(u, new) <=> DependenciesSatisfied(u, ts)
  /\ ws[w] \notin Inactive => SettledTasks(w, new)

\* The first half of _refresh_workflow does what RefreshOf says.
LEMMA RefreshedTasksFacts ==
  ASSUME NEW ts, ts \in [Tasks -> Live], NEW ws, NEW w,
         NEW new, new = RefreshedTasks(w, ws, ts)
  PROVE  RefreshOf(w, ws, ts, new)
<1>1. CASE ws[w] \in Inactive
  BY <1>1 DEF RefreshedTasks, RefreshOf
<1>2. CASE ws[w] \notin Inactive
  <2>1. /\ new = [u \in Tasks |-> new[u]]
        /\ \A u \in Tasks :
             new[u] = IF WorkflowOf[u] = w /\ ts[u] \in {"pending", "ready"}
                        THEN IF DependenciesSatisfied(u, ts) THEN "ready"
                                                             ELSE "pending"
                        ELSE ts[u]
    BY <1>2 DEF RefreshedTasks, EvaluateTaskReadiness
  <2>2. new \in [Tasks -> Live]
    BY <2>1 DEF Live, Reached
  <2>3. \A u \in Tasks : new[u] \in Done <=> ts[u] \in Done
    BY <2>1 DEF Done
  <2>4. \A u \in Tasks :
          DependenciesSatisfied(u, new) <=> DependenciesSatisfied(u, ts)
    BY <2>3 DEF DependenciesSatisfied
  <2>5. SettledTasks(w, new)
    BY <2>1, <2>4 DEF SettledTasks
  <2> QED
    BY <1>2, <2>1, <2>2, <2>4, <2>5 DEF RefreshOf
<1> QED
  BY <1>1, <1>2

\* A refresh leaves its workflow refreshed.
LEMMA RefreshRefreshes ==
  ASSUME NEW ts, ts \in [Tasks -> Live],
         NEW ws, ws \in [Workflows -> WorkflowStatuses], NEW w \in Workflows,
         NEW new, new = RefreshedTasks(w, ws, ts),
         NEW changed, changed = RefreshedStatus(w, ws, new)
  PROVE  /\ changed \in [Workflows -> WorkflowStatuses]
         /\ \A v \in Workflows \ {w} : changed[v] = ws[v]
         /\ changed[w] \in Inactive <=> ws[w] \in Inactive
         /\ Refreshed(w, new, changed)
<1> DEFINE s == DeriveWorkflowStatus(w, ws[w], new)
<1>1. s \in WorkflowStatuses /\ (s \in Inactive <=> ws[w] \in Inactive)
  BY DEF DeriveWorkflowStatus, WorkflowStatuses, Inactive
<1>2. DeriveWorkflowStatus(w, s, new) = s
  BY DeriveIdempotent
<1>3. changed = [ws EXCEPT ![w] = s]
  BY DEF RefreshedStatus
<1> HIDE DEF s
<1>4. /\ changed \in [Workflows -> WorkflowStatuses] /\ changed[w] = s
      /\ \A v \in Workflows \ {w} : changed[v] = ws[v]
  BY <1>1, <1>3
<1>5. new \in [Tasks -> Live] /\ (ws[w] \notin Inactive => SettledTasks(w, new))
  BY RefreshedTasksFacts DEF RefreshOf
<1>6. Refreshed(w, new, changed)
  BY <1>1, <1>2, <1>4, <1>5, RefreshedMeans
<1> QED
  BY <1>1, <1>4, <1>6

-----------------------------------------------------------------------------
(* Steps of the engines.                                                   *)

\* The stack after a step that touches neither workers nor rules.
LEMMA Stands ==
  ASSUME AInv, todo # <<>>, NEW K, todo' = Called(K, todo), Replaces(Step, K),
         UNCHANGED <<workerStatus, config, chain>>,
         \A i \in 1 .. Len(K) : K[i].op \notin WorkerOps \cup RuleOps,
         \A i \in 1 .. Len(K), o \in 2 .. Len(todo) : Apart(K[i], todo[o]),
         \A i \in 1 .. Len(K) : Fits(K[i], taskStatus', workflowStatus'),
         \A o \in 2 .. Len(todo) : Fits(todo[o], taskStatus', workflowStatus'),
         TasksOK(taskStatus', workflowStatus')
  PROVE  Follows(todo, K, todo') /\ Len(todo) \in Nat \ {0} /\ Standing'
<1> DEFINE new == todo'
           ts == taskStatus'
           ws == workflowStatus'
<1>1. Step = todo[1] /\ Len(todo) \in Nat \ {0}
  BY AtHand
<1>2. /\ Replaces(todo[1], K) /\ new = Called(K, todo)
      /\ IsStack(todo) /\ Ordered(todo)
      /\ \A i \in 1 .. Len(K) : Fits(K[i], ts, ws)
      /\ \A o \in 2 .. Len(todo) : Fits(todo[o], ts, ws)
  BY <1>1 DEF AInv, Standing
<1> HIDE DEF new, ts, ws
<1>3. Follows(todo, K, new) /\ IsStack(new) /\ Ordered(new)
  BY <1>2, Advance
<1>4. \A i \in 1 .. Len(new) : Fits(new[i], ts, ws)
  BY <1>2, <1>3, FitsCarried
<1>5. /\ Follows(todo, K, todo') /\ IsStack(todo)' /\ Ordered(todo)'
      /\ StepsFit'
  BY <1>3, <1>4 DEF new, ts, ws, StepsFit
<1>6. StepsChained' /\ NoRuleTwice'
  BY <1>5, ChainedStill DEF RuleOps
<1>7. StepsHold'
  BY <1>5, HoldsStill
<1>8. TasksOK(taskStatus, workflowStatus)'
  OBVIOUS
<1> QED
  BY <1>1, <1>5, <1>6, <1>7, <1>8 DEF Standing

\* The same where tasks and workflows stay as they are.
LEMMA StandsLoosely ==
  ASSUME AInv, todo # <<>>, NEW K, todo' = Called(K, todo), Replaces(Step, K),
         UNCHANGED <<taskStatus, workflowStatus, workerStatus, config, chain>>,
         \A i \in 1 .. Len(K) :
           K[i].op \notin WorkOps \cup WorkerOps \cup RuleOps
  PROVE  Follows(todo, K, todo') /\ Len(todo) \in Nat \ {0} /\ Standing'
<1>1. \A i \in 1 .. Len(K), o \in 2 .. Len(todo) : Apart(K[i], todo[o])
  BY LooseFits
<1>2. \A i \in 1 .. Len(K) : Fits(K[i], taskStatus', workflowStatus')
  BY LooseFits
<1>3. \A o \in 2 .. Len(todo) : Fits(todo[o], taskStatus', workflowStatus')
  BY AtHandApart
<1>4. TasksOK(taskStatus', workflowStatus')
  BY DEF AInv, Standing
<1> QED
  BY <1>1, <1>2, <1>3, <1>4, Stands

\* The manifest is behind after a transition, and a sync_manifest follows.
LEMMA EngineTransitionKeeps ==
  ASSUME AInv, EngineTransition
  PROVE  AInv'
<1> DEFINE a == Publish("ProjectStateChanged",
                  [from_state |-> projectState, to_state |-> Step.target])
           K == <<a>>
<1>1. /\ todo # <<>> /\ Step.op = "transition"
      /\ todo' = Called(K, todo) /\ projectState' = Step.target
      /\ UNCHANGED <<taskStatus, workflowStatus>>
      /\ UNCHANGED <<progressFile, manifest, workerStatus, config, chain>>
  BY DEF EngineTransition, At, Step, Call, Called, progress, fileVars
<1>2. a.op = "publish" /\ StepOK(a) /\ \A kind, x : ~Needs(a, kind, x)
  BY PublishFacts
<1> HIDE DEF a
<1>3. Replaces(Step, K)
  BY <1>2, ReplacesOne
<1>4. \A i \in 1 .. Len(K) : K[i].op = "publish"
  BY <1>2, Tuples
<1> HIDE DEF K
<1>5. Follows(todo, K, todo') /\ Len(todo) \in Nat \ {0} /\ Standing'
  BY <1>1, <1>3, <1>4, StandsLoosely
  DEF WorkOps, WorkerOps, RuleOps, BusyOps
<1>6. Step.target \in ProjectStates /\ Step = todo[1]
  BY <1>1, AtHand DEF StepOK
<1>7. Typed'
  BY <1>1, <1>6 DEF AInv, Typed
<1>8. Duties'
  <2>1. \A kind, x : ~Pays(todo[1], kind, x)
    BY <1>1, <1>6, OthersPayNothing DEF PayOps, BusyOps
  <2>2. \A x : Needs(todo[1], "synced", x)
    BY <1>1, <1>6, SyncNeeds DEF SyncOps
  <2>3. \A kind \in Kinds, x \in Matters :
          Due(kind, x)' => Due(kind, x) \/ kind = "synced"
    BY <1>1 DEF Due
  <2> QED
    BY <1>5, <2>1, <2>2, <2>3, DutiesCarried
<1> QED
  BY <1>5, <1>7, <1>8 DEF AInv

\* A step that calls nothing and only writes a file.
LEMMA WriteStands ==
  ASSUME AInv, todo # <<>>, Return,
         UNCHANGED <<taskStatus, workflowStatus, workerStatus, config, chain>>
  PROVE  /\ Follows(todo, <<>>, todo') /\ Len(todo) \in Nat \ {0}
         /\ Step = todo[1] /\ Standing'
<1> DEFINE K == <<>>
<1>1. todo' = Called(K, todo) /\ Replaces(Step, K) /\ Len(K) = 0
  BY NothingReplaces, Tuples DEF Return, Call, Called
<1> HIDE DEF K
<1>2. Follows(todo, K, todo') /\ Len(todo) \in Nat \ {0} /\ Standing'
  BY <1>1, StandsLoosely
<1> QED
  BY <1>2, AtHand DEF K

\* save_progress pays the duty that the file is behind.
LEMMA PersistKeeps ==
  ASSUME AInv, Persist
  PROVE  AInv'
<1>1. /\ todo # <<>> /\ Step.op = "persist" /\ Return
      /\ progressFile' = [tasks |-> taskStatus, workflows |-> workflowStatus]
      /\ UNCHANGED <<taskStatus, workflowStatus, workerStatus, config, chain>>
      /\ UNCHANGED <<projectState, manifest>>
  BY DEF Persist, At, Step, engineVars
<1>2. /\ Follows(todo, <<>>, todo') /\ Len(todo) \in Nat \ {0}
      /\ Step = todo[1] /\ Standing'
  BY <1>1, WriteStands
<1>3. Typed'
  BY <1>1 DEF AInv, Typed, Live, Reached, TaskStatuses
<1>4. Duties'
  <2>1. \A kind, x : kind # "saved" => ~Pays(todo[1], kind, x)
    BY <1>1, <1>2 DEF Pays, BusyOps
  <2>2. \A kind \in Kinds, x \in Matters :
          Due(kind, x)' => Due(kind, x) /\ kind # "saved"
    BY <1>1 DEF Due
  <2> QED
    BY <1>2, <2>1, <2>2, DutiesCarried
<1> QED
  BY <1>2, <1>3, <1>4 DEF AInv

\* The manifest is written from the state as it is by then.
LEMMA SyncManifestKeeps ==
  ASSUME AInv, SyncManifest
  PROVE  AInv'
<1>1. /\ todo # <<>> /\ Step.op = "sync_manifest" /\ Return
      /\ manifest' = projectState
      /\ UNCHANGED <<taskStatus, workflowStatus, workerStatus, config, chain>>
      /\ UNCHANGED <<projectState, progressFile>>
  BY DEF SyncManifest, At, Step, engineVars
<1>2. /\ Follows(todo, <<>>, todo') /\ Len(todo) \in Nat \ {0}
      /\ Step = todo[1] /\ Standing'
  BY <1>1, WriteStands
<1>3. Typed'
  BY <1>1 DEF AInv, Typed
<1>4. Duties'
  <2>1. \A kind, x : kind # "synced" => ~Pays(todo[1], kind, x)
    BY <1>1, <1>2 DEF Pays, BusyOps
  <2>2. \A kind \in Kinds, x \in Matters :
          Due(kind, x)' => Due(kind, x) /\ kind # "synced"
    BY <1>1 DEF Due
  <2> QED
    BY <1>2, <2>1, <2>2, DutiesCarried
<1> QED
  BY <1>2, <1>3, <1>4 DEF AInv

\* Task t alone gets another status v.
Becomes(ts, t, v, new) ==
  /\ new \in [Tasks -> Live] /\ new[t] = v
  /\ \A u \in Tasks \ {t} : new[u] = ts[u]

\* One task alone gets another status by an update of its entry.
LEMMA BecomesExcept ==
  ASSUME NEW ts \in [Tasks -> Live], NEW t \in Tasks, NEW v \in Live
  PROVE  Becomes(ts, t, v, [ts EXCEPT ![t] = v])
BY DEF Becomes

\* The outcome announced is recorded; the file is behind until it is persisted.
LEMMA RecordTaskKeeps ==
  ASSUME AInv, RecordTask
  PROVE  AInv'
<1> DEFINE t == Step.task
           ts == taskStatus'
           ws == workflowStatus
<1>1. /\ todo # <<>> /\ Step.op = "record" /\ Return
      /\ ts = [taskStatus EXCEPT ![t] = "recorded"]
      /\ UNCHANGED <<workflowStatus, projectState, progressFile, manifest,
                     workerStatus, config, chain>>
  BY DEF RecordTask, At, Step, fileVars
<1>2. /\ t \in Tasks /\ taskStatus[t] = "completed"
      /\ Step = todo[1] /\ Len(todo) \in Nat \ {0}
  BY <1>1, AtHand DEF StepOK, TaskOps, Fits
<1>3. taskStatus \in [Tasks -> Live] /\ ws \in [Workflows -> WorkflowStatuses]
  BY DEF AInv, Typed
<1>4. Becomes(taskStatus, t, "recorded", ts)
  BY <1>1, <1>2, <1>3, BecomesExcept DEF Live, Reached
<1> DEFINE K == <<>>
<1>5. todo' = Called(K, todo) /\ Replaces(Step, K) /\ Len(K) = 0
  BY <1>1, NothingReplaces, Tuples DEF Return, Call, Called
<1> HIDE DEF t, ts, ws, K
<1>6. \A o \in 2 .. Len(todo) : Fits(todo[o], ts, ws)
  <2>1. ASSUME NEW o \in 2 .. Len(todo)
        PROVE  Fits(todo[o], ts, ws)
    <3>1. /\ Fits(todo[o], taskStatus, workflowStatus) /\ StepOK(todo[o])
          /\ Apart(Step, todo[o])
      BY <1>1, AtHandApart
    <3> QED
      BY <1>1, <1>2, <1>4, <3>1
      DEF Fits, StepOK, TaskOps, BusyOps, Apart, Becomes, t, ws
  <2> QED
    BY <2>1
<1>7. TasksOK(ts, ws)
  <2>1. \A u \in Tasks : ts[u] \in Done <=> taskStatus[u] \in Done
    BY <1>2, <1>4 DEF Becomes, Done
  <2>2. \A u \in Tasks :
          DependenciesSatisfied(u, ts) <=> DependenciesSatisfied(u, taskStatus)
    BY <2>1 DEF DependenciesSatisfied
  <2>3. TasksOK(taskStatus, ws)
    BY DEF AInv, Standing, ws
  <2> QED
    BY <1>2, <1>4, <2>2, <2>3 DEF TasksOK, Becomes
<1>8. Follows(todo, K, todo') /\ Standing'
  <2>1. /\ \A o \in 2 .. Len(todo) :
             Fits(todo[o], taskStatus', workflowStatus')
        /\ TasksOK(taskStatus', workflowStatus')
    BY <1>1, <1>6, <1>7 DEF ts, ws
  <2>2. \A i \in 1 .. Len(K) : FALSE
    BY <1>5
  <2>3. UNCHANGED <<workerStatus, config, chain>>
    BY <1>1
  <2> QED
    BY <1>1, <1>5, <2>1, <2>2, <2>3, Stands
<1>9. Typed'
  BY <1>1, <1>4 DEF AInv, Typed, Becomes, ts
<1>10. \A w \in Workflows :
         Refreshed(w, taskStatus, ws) => Refreshed(w, ts, ws)
  <2>1. /\ "recorded" \in Live \ {"pending", "ready", "failed"}
        /\ "recorded" \in Done /\ taskStatus[t] \in Done
        /\ "recorded" \notin Active /\ taskStatus[t] \notin Active
        /\ taskStatus[t] # "failed"
    BY <1>2 DEF Live, Reached, Done, Active, InFlight
  <2> QED
    BY <1>2, <1>3, <1>4, <2>1, MoveKeepsRefreshed DEF Becomes
<1>11. Duties'
  <2>1. \A kind, x : Pays(todo[1], kind, x) => kind = "recorded" /\ x = t
    BY <1>1, <1>2 DEF Pays, BusyOps, t
  <2>2. \A x : Needs(todo[1], "saved", x)
    BY <1>1, <1>2 DEF Needs
  <2>3. \A kind \in Kinds, x \in Matters :
          Due(kind, x)' => \/ Due(kind, x) /\ ~(kind = "recorded" /\ x = t)
                           \/ kind = "saved"
    <3>1. \A x \in Tasks :
            /\ ts[x] = "completed" => taskStatus[x] = "completed" /\ x # t
            /\ ts[x] \in InFlight => taskStatus[x] \in InFlight
      BY <1>2, <1>4 DEF Becomes, InFlight
    <3> QED
      BY <1>1, <1>10, <3>1 DEF Due, ts, ws
  <2> QED
    BY <1>2, <1>8, <2>1, <2>2, <2>3, DutiesCarried
<1> QED
  BY <1>8, <1>9, <1>11 DEF AInv

\* A task is created; its workflow waits for the refresh that follows.
LEMMA CreateTaskKeeps ==
  ASSUME AInv, CreateTask
  PROVE  AInv'
<1> DEFINE t == Step.task
           ts == taskStatus'
           ws == workflowStatus
           a == PublishTask("TaskCreated", t)
           K == <<a>>
<1>1. /\ todo # <<>> /\ Step.op = "create" /\ todo' = Called(K, todo)
      /\ ts = [taskStatus EXCEPT ![t] = "pending"]
      /\ UNCHANGED <<workflowStatus, projectState, progressFile, manifest,
                     workerStatus, config, chain>>
  BY DEF CreateTask, At, Step, Call, Called, fileVars
<1>2. /\ t \in Tasks /\ taskStatus[t] = "defined"
      /\ ws[WorkflowOf[t]] \notin Inactive
      /\ Step = todo[1] /\ Len(todo) \in Nat \ {0}
  BY <1>1, AtHand DEF StepOK, TaskOps, Fits
<1>3. taskStatus \in [Tasks -> Live] /\ ws \in [Workflows -> WorkflowStatuses]
  BY DEF AInv, Typed
<1>4. Becomes(taskStatus, t, "pending", ts)
  BY <1>1, <1>2, <1>3, BecomesExcept DEF Live, Reached
<1>5. a.op = "publish" /\ StepOK(a) /\ \A kind, x : ~Needs(a, kind, x)
  BY PublishTaskFacts
<1> HIDE DEF a
<1>6. Replaces(Step, K)
  BY <1>5, ReplacesOne
<1>7. \A i \in 1 .. Len(K) : K[i].op = "publish"
  BY <1>5, Tuples
<1> HIDE DEF t, ts, ws, K
<1>8. \A o \in 2 .. Len(todo) : Fits(todo[o], ts, ws)
  <2>1. ASSUME NEW o \in 2 .. Len(todo)
        PROVE  Fits(todo[o], ts, ws)
    <3>1. /\ Fits(todo[o], taskStatus, workflowStatus) /\ StepOK(todo[o])
          /\ Apart(Step, todo[o])
      BY <1>1, AtHandApart
    <3> QED
      BY <1>1, <1>2, <1>4, <3>1
      DEF Fits, StepOK, TaskOps, BusyOps, Apart, Becomes, t, ws
  <2> QED
    BY <2>1
<1>9. TasksOK(ts, ws)
  <2>1. \A u \in Tasks : ts[u] \in Done <=> taskStatus[u] \in Done
    BY <1>2, <1>4 DEF Becomes, Done
  <2>2. \A u \in Tasks :
          DependenciesSatisfied(u, ts) <=> DependenciesSatisfied(u, taskStatus)
    BY <2>1 DEF DependenciesSatisfied
  <2>3. TasksOK(taskStatus, ws)
    BY DEF AInv, Standing, ws
  <2> QED
    BY <1>2, <1>4, <2>2, <2>3 DEF TasksOK, Becomes
<1>10. Follows(todo, K, todo') /\ Standing'
  <2>1. /\ \A o \in 2 .. Len(todo) :
             Fits(todo[o], taskStatus', workflowStatus')
        /\ TasksOK(taskStatus', workflowStatus')
    BY <1>1, <1>8, <1>9 DEF ts, ws
  <2>2. /\ \A i \in 1 .. Len(K) : Fits(K[i], taskStatus', workflowStatus')
        /\ \A i \in 1 .. Len(K) : \A u : Apart(K[i], u)
        /\ \A i \in 1 .. Len(K) : K[i].op \notin WorkerOps \cup RuleOps
    BY <1>7, LooseFits DEF WorkOps, WorkerOps, RuleOps, BusyOps
  <2>3. UNCHANGED <<workerStatus, config, chain>>
    BY <1>1
  <2> QED
    BY <1>1, <1>6, <2>1, <2>2, <2>3, Stands
<1>11. Typed'
  BY <1>1, <1>4 DEF AInv, Typed, Becomes, ts
<1>12. \A w \in Workflows \ {WorkflowOf[t]} :
         Refreshed(w, taskStatus, ws) => Refreshed(w, ts, ws)
  <2>1. ASSUME NEW w \in Workflows \ {WorkflowOf[t]},
               Refreshed(w, taskStatus, ws)
        PROVE  Refreshed(w, ts, ws)
    <3>1. \A u \in Tasks : WorkflowOf[u] = w => ts[u] = taskStatus[u]
      BY <1>4 DEF Becomes
    <3>2. ts \in [Tasks -> Live]
      BY <1>4 DEF Becomes
    <3> QED
      BY <1>3, <2>1, <3>1, <3>2, ElsewhereRefreshed
  <2> QED
    BY <2>1
<1>13. Duties'
  <2>1. \A kind, x : ~Pays(todo[1], kind, x)
    BY <1>1, <1>2, OthersPayNothing DEF PayOps, BusyOps
  <2>2. /\ \A x : Needs(todo[1], "saved", x)
        /\ Needs(todo[1], "fresh", WorkflowOf[t])
    BY <1>1, <1>2 DEF Needs, t
  <2>3. \A kind \in Kinds, x \in Matters :
          Due(kind, x)' => \/ Due(kind, x)
                           \/ kind = "saved"
                           \/ kind = "fresh" /\ x = WorkflowOf[t]
    <3>1. \A x \in Tasks :
            /\ ts[x] = "completed" => taskStatus[x] = "completed"
            /\ ts[x] \in InFlight => taskStatus[x] \in InFlight
      BY <1>2, <1>4 DEF Becomes, InFlight
    <3> QED
      BY <1>1, <1>12, <3>1 DEF Due, ts, ws
  <2> QED
    BY <1>2, <1>10, <2>1, <2>2, <2>3, DutiesCarried
<1> QED
  BY <1>10, <1>11, <1>13 DEF AInv

\* A refresh settles its workflow, and saves; the other workflows stay.
LEMMA RefreshWorkflowKeeps ==
  ASSUME AInv, RefreshWorkflow
  PROVE  AInv'
<1> DEFINE w == Step.workflow
           ts == taskStatus'
           ws == workflowStatus'
           K == <<>>
<1>1. /\ todo # <<>> /\ Step.op = "refresh" /\ Return
      /\ ts = RefreshedTasks(w, workflowStatus, taskStatus)
      /\ ws = RefreshedStatus(w, workflowStatus, ts)
      /\ progressFile' = [tasks |-> ts, workflows |-> ws]
      /\ UNCHANGED <<projectState, manifest, workerStatus, config, chain>>
  BY DEF RefreshWorkflow, At, Step
<1>2. w \in Workflows /\ Step = todo[1] /\ Len(todo) \in Nat \ {0}
  BY <1>1, AtHand DEF StepOK
<1>3. /\ taskStatus \in [Tasks -> Live]
      /\ workflowStatus \in [Workflows -> WorkflowStatuses]
  BY DEF AInv, Typed
<1>4. todo' = Called(K, todo) /\ Replaces(Step, K) /\ Len(K) = 0
  BY <1>1, NothingReplaces, Tuples DEF Return, Call, Called
<1> HIDE DEF w, ts, ws, K
<1>5. /\ ts \in [Tasks -> Live]
      /\ \A u \in Tasks :
           \/ ts[u] = taskStatus[u]
           \/ /\ WorkflowOf[u] = w /\ workflowStatus[w] \notin Inactive
              /\ taskStatus[u] \in {"pending", "ready"}
              /\ ts[u] = IF DependenciesSatisfied(u, taskStatus)
                           THEN "ready" ELSE "pending"
      /\ \A u \in Tasks : DependenciesSatisfied(u, ts)
                            <=> DependenciesSatisfied(u, taskStatus)
  <2>1. RefreshOf(w, workflowStatus, taskStatus, ts)
    BY <1>1, <1>3, RefreshedTasksFacts
  <2> QED
    BY <2>1 DEF RefreshOf
<1>6. /\ ws \in [Workflows -> WorkflowStatuses]
      /\ \A v \in Workflows \ {w} : ws[v] = workflowStatus[v]
      /\ ws[w] \in Inactive <=> workflowStatus[w] \in Inactive
      /\ Refreshed(w, ts, ws)
  BY <1>1, <1>2, <1>3, RefreshRefreshes
<1>7. \A v \in Workflows : ws[v] \in Inactive <=> workflowStatus[v] \in Inactive
  BY <1>6
<1>8. \A o \in 2 .. Len(todo) : Fits(todo[o], ts, ws)
  <2>1. ASSUME NEW o \in 2 .. Len(todo)
        PROVE  Fits(todo[o], ts, ws)
    <3>1. /\ Fits(todo[o], taskStatus, workflowStatus) /\ StepOK(todo[o])
          /\ todo[o].op \notin HeadOps
      BY <1>1, AtHandApart
    <3>2. todo[o].op \in WorkOps =>
            /\ todo[o].task \in Tasks /\ WorkflowOf[todo[o].task] \in Workflows
            /\ ts[todo[o].task] = taskStatus[todo[o].task]
      BY <1>5, <3>1, WorkflowOfAssumption
      DEF WorkOps, StepOK, TaskOps, BusyOps, HeadOps, Fits
    <3> QED
      BY <1>7, <3>1, <3>2 DEF Fits, WorkOps, HeadOps, BusyOps
  <2> QED
    BY <2>1
<1>9. TasksOK(ts, ws)
  <2>1. TasksOK(taskStatus, workflowStatus)
    BY DEF AInv, Standing
  <2>2. \A u \in Tasks : WorkflowOf[u] \in Workflows
    BY WorkflowOfAssumption
  <2> QED
    BY <1>5, <1>7, <2>1, <2>2 DEF TasksOK
<1>10. Follows(todo, K, todo') /\ Standing'
  <2>1. /\ \A o \in 2 .. Len(todo) :
             Fits(todo[o], taskStatus', workflowStatus')
        /\ TasksOK(taskStatus', workflowStatus')
    BY <1>8, <1>9 DEF ts, ws
  <2>2. \A i \in 1 .. Len(K) : FALSE
    BY <1>4
  <2>3. UNCHANGED <<workerStatus, config, chain>>
    BY <1>1
  <2> QED
    BY <1>1, <1>4, <2>1, <2>2, <2>3, Stands
<1>11. Typed'
  <2>1. ts \in [Tasks -> TaskStatuses]
    BY <1>5 DEF Live, Reached, TaskStatuses
  <2> QED
    BY <1>1, <1>5, <1>6, <2>1 DEF AInv, Typed, ts, ws
<1>12. \A v \in Workflows :
         Refreshed(v, taskStatus, workflowStatus) \/ v = w => Refreshed(v, ts, ws)
  <2>1. ASSUME NEW v \in Workflows \ {w},
               Refreshed(v, taskStatus, workflowStatus)
        PROVE  Refreshed(v, ts, ws)
    <3>1. \A u \in Tasks : WorkflowOf[u] = v => ts[u] = taskStatus[u]
      BY <1>5
    <3>2. ws[v] = workflowStatus[v]
      BY <1>6
    <3> QED
      BY <1>3, <1>5, <1>6, <2>1, <3>1, <3>2, ElsewhereRefreshed
  <2> QED
    BY <1>6, <2>1
<1>13. Duties'
  <2>1. \A kind, x : Pays(todo[1], kind, x) =>
          kind = "saved" \/ (kind = "fresh" /\ x = w)
    BY <1>1, <1>2 DEF Pays, BusyOps, w
  <2>2. \A kind \in Kinds, x \in Matters :
          Due(kind, x)' => /\ Due(kind, x) /\ kind # "saved"
                           /\ ~(kind = "fresh" /\ x = w)
    <3>1. \A x \in Tasks :
            /\ ts[x] = "completed" => taskStatus[x] = "completed"
            /\ ts[x] \in InFlight => taskStatus[x] \in InFlight
      BY <1>5 DEF InFlight
    <3> QED
      BY <1>1, <1>12, <3>1 DEF Due, ts, ws
  <2> QED
    BY <1>2, <1>10, <2>1, <2>2, DutiesCarried
<1> QED
  BY <1>10, <1>11, <1>13 DEF AInv

\* Steps K are what an outcome of task t has still to do.
Outcomes(K, t, success) ==
  /\ IsStack(K) /\ Len(K) \in Nat
  /\ \A i \in 1 .. Len(K) :
       /\ K[i].op \in {"publish", "record", "try_state", "refresh",
                       "completion", "sync_state", "persist"}
       /\ K[i].op = "record" => i = 2 /\ success /\ K[i].task = t
  /\ success => 2 \in 1 .. Len(K) /\ K[2].op = "record"
  /\ \E n \in 3 .. Len(K) :
       K[n].op = "refresh" /\ K[n].workflow = WorkflowOf[t]

\* What the rest of an outcome is made of, whatever the task and its outcome.
LEMMA OutcomeStepsFacts ==
  ASSUME NEW t \in Tasks, NEW success \in BOOLEAN
  PROVE  Outcomes(OutcomeSteps(t, success), t, success)
<1> DEFINE w == WorkflowOf[t]
           created == PublishTask("TaskCompleted", t)
           failure == PublishTask("TaskFailed", t)
           fail == TryState("failed")
           approve == TryState("awaiting_approval")
           record == [op |-> "record", task |-> t]
           refresh == ForWorkflow("refresh", w)
           completion == ForWorkflow("completion", w)
           sync == Plain("sync_state")
           persist == Plain("persist")
<1>1. w \in Workflows
  BY WorkflowOfAssumption
<1>2. /\ created.op = "publish" /\ StepOK(created)
      /\ failure.op = "publish" /\ StepOK(failure)
  BY PublishTaskFacts
<1>3. /\ fail.op = "try_state" /\ StepOK(fail)
      /\ approve.op = "try_state" /\ StepOK(approve)
  <2>1. "failed" \in ProjectStates /\ "awaiting_approval" \in ProjectStates
    BY DEF ProjectStates
  <2> QED
    BY <2>1, TargetFacts DEF TryState
<1>4. record.op = "record" /\ record.task = t /\ StepOK(record)
  BY DEF StepOK, TaskOps, BusyOps
<1>5. /\ refresh.op = "refresh" /\ refresh.workflow = w /\ StepOK(refresh)
      /\ completion.op = "completion" /\ StepOK(completion)
  BY <1>1, WorkflowStepFacts
<1>6. /\ sync.op = "sync_state" /\ StepOK(sync)
      /\ persist.op = "persist" /\ StepOK(persist)
  BY PlainFacts
<1>7. OutcomeSteps(t, success) =
        IF ~success
          THEN <<failure, fail, refresh, sync, persist>>
        ELSE IF t \in RequiresApproval
          THEN <<created, record, approve, refresh, completion, sync, persist>>
        ELSE <<created, record, refresh, completion, sync, persist>>
  BY DEF OutcomeSteps
<1> HIDE DEF created, failure, fail, approve, record, refresh, completion,
             sync, persist
<1>8. CASE ~success
  <2> DEFINE K == <<failure, fail, refresh, sync, persist>>
  <2>1. /\ K \in Seq(ToSet(K)) /\ Len(K) = 5
        /\ K[1] = failure /\ K[2] = fail /\ K[3] = refresh /\ K[4] = sync
        /\ K[5] = persist
    BY Tuples
  <2> HIDE DEF K
  <2>2. \A i \in 1 .. Len(K) : i \in {1, 2, 3, 4, 5}
    BY <2>1
  <2>3. 3 \in 3 .. Len(K)
    BY <2>1
  <2>4. Outcomes(K, t, success)
    BY <1>2, <1>3, <1>5, <1>6, <1>8, <2>1, <2>2, <2>3 DEF Outcomes, IsStack
  <2> QED
    BY <1>7, <1>8, <2>4 DEF K
<1>9. CASE success /\ t \in RequiresApproval
  <2> DEFINE K == <<created, record, approve, refresh, completion, sync,
                    persist>>
  <2>1. /\ K \in Seq(ToSet(K)) /\ Len(K) = 7
        /\ K[1] = created /\ K[2] = record /\ K[3] = approve
        /\ K[4] = refresh /\ K[5] = completion /\ K[6] = sync
        /\ K[7] = persist
    BY Tuples
  <2> HIDE DEF K
  <2>2. \A i \in 1 .. Len(K) : i \in {1, 2, 3, 4, 5, 6, 7}
    BY <2>1
  <2>3. 4 \in 3 .. Len(K) /\ 2 \in 1 .. Len(K)
    BY <2>1
  <2>4. Outcomes(K, t, success)
    BY <1>2, <1>3, <1>4, <1>5, <1>6, <1>9, <2>1, <2>2, <2>3
    DEF Outcomes, IsStack
  <2> QED
    BY <1>7, <1>9, <2>4 DEF K
<1>10. CASE success /\ t \notin RequiresApproval
  <2> DEFINE K == <<created, record, refresh, completion, sync, persist>>
  <2>1. /\ K \in Seq(ToSet(K)) /\ Len(K) = 6
        /\ K[1] = created /\ K[2] = record /\ K[3] = refresh
        /\ K[4] = completion /\ K[5] = sync /\ K[6] = persist
    BY Tuples
  <2> HIDE DEF K
  <2>2. \A i \in 1 .. Len(K) : i \in {1, 2, 3, 4, 5, 6}
    BY <2>1
  <2>3. 3 \in 3 .. Len(K) /\ 2 \in 1 .. Len(K)
    BY <2>1
  <2>4. Outcomes(K, t, success)
    BY <1>2, <1>4, <1>5, <1>6, <1>10, <2>1, <2>2, <2>3
    DEF Outcomes, IsStack
  <2> QED
    BY <1>7, <1>10, <2>4 DEF K
<1> QED
  BY <1>8, <1>9, <1>10

\* An outcome leaves its workflow to be refreshed, its task to be recorded.
LEMMA BeginOutcomeKeeps ==
  ASSUME AInv, BeginOutcome
  PROVE  AInv'
<1> DEFINE t == Step.task
           success == Step.success
           v == IF success THEN "completed" ELSE "failed"
           ts == taskStatus'
           ws == workflowStatus
           K == OutcomeSteps(t, success)
<1>1. /\ todo # <<>> /\ Step.op = "outcome" /\ todo' = Called(K, todo)
      /\ ts = [taskStatus EXCEPT ![t] = v]
      /\ UNCHANGED <<workflowStatus, projectState, progressFile, manifest,
                     workerStatus, config, chain>>
  BY DEF BeginOutcome, At, Step, Call, Called, fileVars
<1>2. /\ t \in Tasks /\ success \in BOOLEAN
      /\ taskStatus[t] \in {"ready", "running"}
      /\ Step = todo[1] /\ Len(todo) \in Nat \ {0}
  BY <1>1, AtHand DEF StepOK, TaskOps, Fits
<1>3. taskStatus \in [Tasks -> Live] /\ ws \in [Workflows -> WorkflowStatuses]
  BY DEF AInv, Typed
<1>4. Becomes(taskStatus, t, v, ts)
  BY <1>1, <1>2, <1>3, BecomesExcept DEF Live, Reached
<1>5. Outcomes(K, t, success)
  BY <1>2, OutcomeStepsFacts
<1> HIDE DEF t, success, ts, ws, K
<1>6. Replaces(Step, K)
  <2>1. /\ \A i \in 2 .. Len(K) : K[i].op \notin HeadOps
        /\ \A i, j \in 1 .. Len(K) : i < j => Apart(K[i], K[j])
    BY <1>5 DEF Outcomes, HeadOps, Apart, BusyOps
  <2>2. ASSUME NEW i \in 1 .. Len(K), NEW kind \in Kinds, NEW x \in Matters,
               Needs(K[i], kind, x)
        PROVE  \/ \E j \in 1 .. Len(K) : i < j /\ Pays(K[j], kind, x)
               \/ Needs(Step, kind, x)
    <3>1. CASE kind = "synced"
      BY <1>1, <3>1, SyncNeeds DEF SyncOps
    <3>2. CASE kind = "saved" /\ i = 2
      <4>1. PICK n \in 3 .. Len(K) : K[n].op = "refresh"
        BY <1>5 DEF Outcomes
      <4>2. n \in 1 .. Len(K) /\ i < n
        BY <1>5, <3>2 DEF Outcomes
      <4> QED
        BY <3>2, <4>1, <4>2 DEF Pays
    <3>3. kind = "synced" \/ (kind = "saved" /\ i = 2)
      BY <1>5, <2>2 DEF Needs, Outcomes
    <3> QED
      BY <3>1, <3>2, <3>3
  <2> QED
    BY <1>5, <2>1, <2>2 DEF Replaces, Outcomes
<1>7. \A i \in 1 .. Len(K), o \in 2 .. Len(todo) : Apart(K[i], todo[o])
  <2>1. ASSUME NEW i \in 1 .. Len(K), NEW o \in 2 .. Len(todo)
        PROVE  Apart(K[i], todo[o])
    <3>1. Fits(todo[o], taskStatus, workflowStatus)
      BY <1>1, AtHandApart
    <3> QED
      BY <1>2, <1>5, <3>1 DEF Outcomes, Fits, Apart, BusyOps
  <2> QED
    BY <2>1
<1>8. \A i \in 1 .. Len(K) : Fits(K[i], ts, ws)
  BY <1>4, <1>5 DEF Outcomes, Fits, BusyOps, Becomes
<1>9. \A o \in 2 .. Len(todo) : Fits(todo[o], ts, ws)
  <2>1. ASSUME NEW o \in 2 .. Len(todo)
        PROVE  Fits(todo[o], ts, ws)
    <3>1. /\ Fits(todo[o], taskStatus, workflowStatus) /\ StepOK(todo[o])
          /\ Apart(Step, todo[o]) /\ todo[o].op \notin HeadOps
      BY <1>1, AtHandApart
    <3> QED
      BY <1>1, <1>2, <1>4, <3>1
      DEF Fits, StepOK, TaskOps, BusyOps, HeadOps, Apart, Becomes, t, ws
  <2> QED
    BY <2>1
<1>10. TasksOK(ts, ws)
  <2>1. \A u \in Tasks : taskStatus[u] \in Done => ts[u] \in Done
    BY <1>2, <1>4 DEF Becomes, Done
  <2>2. \A u \in Tasks :
          DependenciesSatisfied(u, taskStatus) => DependenciesSatisfied(u, ts)
    BY <2>1 DEF DependenciesSatisfied
  <2>3. TasksOK(taskStatus, ws)
    BY DEF AInv, Standing, ws
  <2> QED
    BY <1>2, <1>4, <2>2, <2>3 DEF TasksOK, Becomes
<1>11. Follows(todo, K, todo') /\ Standing'
  <2>1. /\ \A i \in 1 .. Len(K) : Fits(K[i], taskStatus', workflowStatus')
        /\ \A o \in 2 .. Len(todo) :
             Fits(todo[o], taskStatus', workflowStatus')
        /\ TasksOK(taskStatus', workflowStatus')
    BY <1>1, <1>8, <1>9, <1>10 DEF ts, ws
  <2>2. \A i \in 1 .. Len(K) : K[i].op \notin WorkerOps \cup RuleOps
    BY <1>5 DEF Outcomes, WorkerOps, RuleOps, BusyOps
  <2>3. UNCHANGED <<workerStatus, config, chain>>
    BY <1>1
  <2> QED
    BY <1>1, <1>6, <1>7, <2>1, <2>2, <2>3, Stands
<1>12. Typed'
  BY <1>1, <1>4 DEF AInv, Typed, Becomes, ts
<1>13. \A w \in Workflows \ {WorkflowOf[t]} :
         Refreshed(w, taskStatus, ws) => Refreshed(w, ts, ws)
  <2>1. ASSUME NEW w \in Workflows \ {WorkflowOf[t]},
               Refreshed(w, taskStatus, ws)
        PROVE  Refreshed(w, ts, ws)
    <3>1. /\ \A u \in Tasks : WorkflowOf[u] = w => ts[u] = taskStatus[u]
          /\ ts \in [Tasks -> Live]
      BY <1>4 DEF Becomes
    <3> QED
      BY <1>3, <2>1, <3>1, ElsewhereRefreshed
  <2> QED
    BY <2>1
<1>14. Duties'
  <2>1. \A kind, x : Pays(todo[1], kind, x) => kind = "worked" /\ x = t
    BY <1>1, <1>2 DEF Pays, BusyOps, t
  <2>2. PICK n \in 1 .. Len(K) :
          K[n].op = "refresh" /\ K[n].workflow = WorkflowOf[t]
    <3>1. \A n \in 3 .. Len(K) : n \in 1 .. Len(K)
      BY <1>5 DEF Outcomes
    <3> QED
      BY <1>5, <3>1 DEF Outcomes
  <2>3. /\ \A x : Pays(K[n], "saved", x)
        /\ Pays(K[n], "fresh", WorkflowOf[t])
    BY <2>2 DEF Pays
  <2>4. success => \E i \in 1 .. Len(K) : Pays(K[i], "recorded", t)
    BY <1>5 DEF Outcomes, Pays
  <2>5. ASSUME NEW kind \in Kinds, NEW x \in Matters, Due(kind, x)'
        PROVE  \/ Due(kind, x) /\ ~(kind = "worked" /\ x = t)
               \/ kind = "saved"
               \/ kind = "fresh" /\ x = WorkflowOf[t]
               \/ success /\ kind = "recorded" /\ x = t
    <3>1. \A y \in Tasks :
            /\ ts[y] = "completed" =>
                 taskStatus[y] = "completed" \/ (success /\ y = t)
            /\ ts[y] \in InFlight => taskStatus[y] \in InFlight /\ y # t
      BY <1>4 DEF Becomes, InFlight
    <3> QED
      BY <1>1, <1>13, <2>5, <3>1 DEF Due, ts, ws
  <2>6. \A kind \in Kinds, x \in Matters : Due(kind, x)' =>
          \/ Due(kind, x) /\ ~Pays(todo[1], kind, x)
          \/ \E i \in 1 .. Len(K) : Pays(K[i], kind, x)
    BY <2>1, <2>3, <2>4, <2>5
  <2> QED
    BY <1>2, <1>11, <2>6, DutiesCarried
<1> QED
  BY <1>11, <1>12, <1>14 DEF AInv

-----------------------------------------------------------------------------
(* The automation engine.                                                  *)

\* Numbers have a least one among them.
LEMMA LeastNumber ==
  ASSUME NEW T \in SUBSET Nat, T # {}
  PROVE  \E x \in T : \A y \in T : x <= y
<1> DEFINE R == {ss \in Nat \X Nat : ss[1] < ss[2]}
<1>1. IsWellFoundedOn(R, Nat)
  BY NatLessThanWellFounded, Zenon DEF OpToRel
<1>2. \A x, y \in Nat : y < x => <<y, x>> \in R
  OBVIOUS
<1> HIDE DEF R
<1>3. T \subseteq Nat
  OBVIOUS
<1>4. PICK x \in T : \A y \in T : ~(<<y, x>> \in R)
  BY <1>1, <1>3, WFMin
<1>5. ASSUME NEW y \in T
      PROVE  x <= y
  <2>1. x \in Nat /\ y \in Nat
    BY <1>3
  <2>2. ~(y < x)
    BY <1>2, <1>4, <2>1
  <2> QED
    BY <2>1, <2>2
<1> QED
  BY <1>5

\* A set of numbers up to len is finite and no larger.
LEMMA IntervalSubset ==
  ASSUME NEW len \in Nat, NEW S, S \subseteq 1 .. len
  PROVE  IsFiniteSet(S) /\ Cardinality(S) \in Nat /\ Cardinality(S) <= len
<1>1. IsFiniteSet(1 .. len) /\ Cardinality(1 .. len) = len
  BY FS_Interval
<1>2. S \in SUBSET (1 .. len)
  OBVIOUS
<1>3. IsFiniteSet(S) /\ Cardinality(S) <= Cardinality(1 .. len)
  BY <1>1, <1>2, FS_Subset
<1> QED
  BY <1>1, <1>3, FS_CardinalityType

\* The n-th of some numbers is the one up to which there are n of them.
LEMMA NthNumber ==
  ASSUME NEW len \in Nat, NEW S, S \subseteq 1 .. len,
         NEW n \in 1 .. Cardinality(S)
  PROVE  \E i \in S : Cardinality({j \in S : j <= i}) = n
<1> DEFINE Upto(i) == {j \in S : j <= i}
           count == [i \in Nat |-> Cardinality(Upto(i))]
           T == {i \in 1 .. len : count[i] >= n}
<1>1. \A i \in S : i \in Nat /\ i > 0 /\ i <= len
  OBVIOUS
<1>2. IsFiniteSet(S) /\ Cardinality(S) \in Nat
  BY IntervalSubset
<1>3. ASSUME NEW i \in Nat
      PROVE  /\ IsFiniteSet(Upto(i)) /\ Cardinality(Upto(i)) \in Nat
             /\ count[i] = Cardinality(Upto(i))
  <2>1. Upto(i) \in SUBSET S
    OBVIOUS
  <2>2. count[i] = Cardinality(Upto(i))
    OBVIOUS
  <2> HIDE DEF Upto, count
  <2> QED
    BY <1>2, <2>1, <2>2, FS_Subset, FS_CardinalityType
<1>4. n \in Nat /\ n > 0 /\ n <= Cardinality(S)
  BY <1>2
<1>5. /\ Upto(0) = {} /\ Upto(len) = S
      /\ \A i \in Nat : i + 1 \notin S => Upto(i + 1) = Upto(i)
      /\ \A i \in Nat : /\ i + 1 \in S => Upto(i + 1) = Upto(i) \cup {i + 1}
                        /\ i + 1 \notin Upto(i)
  <2>1. \A i, j : j \in Upto(i) <=> j \in S /\ j <= i
    OBVIOUS
  <2>2. \A j \in S : ~(j <= 0) /\ j <= len
    BY <1>1
  <2>3. ASSUME NEW i \in Nat
        PROVE  /\ ~(i + 1 <= i) /\ i + 1 <= i + 1
               /\ \A j \in S : j <= i + 1 <=> j <= i \/ j = i + 1
    BY <1>1
  <2> HIDE DEF Upto
  <2>4. Upto(0) = {} /\ Upto(len) = S
    <3>1. \A j : (j \in Upto(0) <=> FALSE) /\ (j \in Upto(len) <=> j \in S)
      BY <2>1, <2>2, Zenon
    <3> QED
      BY <3>1
  <2>5. ASSUME NEW i \in Nat, i + 1 \notin S
        PROVE  Upto(i + 1) = Upto(i)
    <3>1. \A j : j \in Upto(i + 1) <=> j \in Upto(i)
      BY <2>1, <2>3, <2>5
    <3> QED
      BY <3>1
  <2>6. ASSUME NEW i \in Nat, i + 1 \in S
        PROVE  Upto(i + 1) = Upto(i) \cup {i + 1}
    <3>1. \A j : j \in Upto(i + 1) <=> j \in Upto(i) \/ j = i + 1
      BY <2>1, <2>3, <2>6
    <3> QED
      BY <3>1
  <2>7. \A i \in Nat : i + 1 \notin Upto(i)
    BY <2>1, <2>3
  <2> QED
    BY <2>4, <2>5, <2>6, <2>7
<1> HIDE DEF Upto, count
<1>6. count[0] = 0 /\ count[len] = Cardinality(S)
  BY <1>3, <1>5, FS_EmptySet
<1>7. ASSUME NEW i \in Nat
      PROVE  count[i + 1] = IF i + 1 \in S THEN count[i] + 1 ELSE count[i]
  <2>1. IsFiniteSet(Upto(i)) /\ i + 1 \notin Upto(i)
    BY <1>3, <1>5
  <2>2. Cardinality(Upto(i) \cup {i + 1}) = Cardinality(Upto(i)) + 1
    BY <2>1, FS_AddElement
  <2>3. /\ count[i] = Cardinality(Upto(i))
        /\ count[i + 1] = Cardinality(Upto(i + 1))
    <3>1. i + 1 \in Nat
      OBVIOUS
    <3> QED
      BY <1>3, <3>1
  <2> QED
    BY <1>5, <2>2, <2>3
<1>8. \A i \in Nat : count[i] \in Nat
  BY <1>3
<1>9. len \in 1 .. len
  BY <1>4, <1>6
<1>10. PICK i \in T : \A y \in T : i <= y
  <2>1. T \in SUBSET Nat /\ len \in T
    BY <1>4, <1>6, <1>9
  <2> HIDE DEF T
  <2> QED
    BY <2>1, LeastNumber
<1> DEFINE p == i - 1
<1>11. p \in Nat /\ i = p + 1 /\ i \in 1 .. len /\ count[i] >= n
  BY <1>10
<1>12. count[p] < n
  <2>1. CASE p = 0
    BY <1>4, <1>6, <2>1
  <2>2. CASE p # 0
    <3>1. p \in 1 .. len /\ ~(i <= p)
      BY <1>11, <2>2
    <3>2. p \notin T
      BY <1>10, <3>1
    <3> QED
      BY <1>4, <1>8, <1>11, <3>1, <3>2
  <2> HIDE DEF p
  <2> QED
    BY <2>1, <2>2
<1> HIDE DEF p, T
<1>13. i \in S /\ count[i] = n
  BY <1>4, <1>7, <1>8, <1>11, <1>12
<1>14. Cardinality(Upto(i)) = n
  BY <1>3, <1>11, <1>13
<1> QED
  BY <1>13, <1>14 DEF Upto

\* The rules that answer an event are loaded ones.
LEMMA AnsweringRules ==
  ASSUME NEW c \in AutomationConfigs, NEW e,
         NEW rules, rules = RulesForEvent(c, e)
  PROVE  /\ rules \in Seq(RuleIds) /\ Len(rules) \in Nat
         /\ \A i \in 1 .. Len(rules) : rules[i] \in Loaded(c) \cap RuleIds
<1> DEFINE answering == {i \in DOMAIN RuleOrder : Answers(c, e, RuleOrder[i])}
           Nth(n) == CHOOSE i \in answering :
                       Cardinality({j \in answering : j <= i}) = n
           size == Cardinality(answering)
<1>1. /\ Len(RuleOrder) \in Nat /\ DOMAIN RuleOrder = 1 .. Len(RuleOrder)
      /\ \A i \in DOMAIN RuleOrder : RuleOrder[i] \in RuleIds
  BY RuleOrderAssumption, LenProperties
<1>2. rules = [n \in 1 .. size |-> RuleOrder[Nth(n)]]
  BY DEF RulesForEvent
<1>3. /\ answering \subseteq 1 .. Len(RuleOrder)
      /\ \A i \in answering : Answers(c, e, RuleOrder[i])
  BY <1>1
<1> HIDE DEF answering
<1>4. size \in Nat
  BY <1>1, <1>3, IntervalSubset
<1>5. ASSUME NEW n \in 1 .. size
      PROVE  Nth(n) \in answering
  <2>1. \E i \in answering : Cardinality({j \in answering : j <= i}) = n
    BY <1>1, <1>3, <1>5, NthNumber
  <2> QED
    BY <2>1
<1> HIDE DEF Nth, size
<1>6. \A n \in 1 .. size : rules[n] \in Loaded(c) \cap RuleIds
  <2>1. \A n \in 1 .. size : rules[n] = RuleOrder[Nth(n)]
    BY <1>2
  <2> QED
    BY <1>1, <1>3, <1>5, <2>1 DEF Answers
<1>7. rules \in [1 .. size -> RuleIds]
  BY <1>2, <1>6
<1>8. rules \in Seq(RuleIds) /\ Len(rules) = size
  BY <1>4, <1>7
<1> QED
  BY <1>4, <1>6, <1>8

\* Rules to be executed can take the place of any step.
LEMMA RuleStepsReplace ==
  ASSUME NEW c \in AutomationConfigs, NEW e, e.depth \in 0 .. MaxDepth,
         NEW rules, rules = RulesForEvent(c, e),
         NEW K, K = [i \in DOMAIN rules |-> RunRule(rules[i], e)]
  PROVE  /\ \A s : Replaces(s, K)
         /\ Len(K) \in Nat
         /\ \A i \in 1 .. Len(K) : K[i].op = "rule" /\ K[i].rule \in Loaded(c)
<1>1. /\ rules \in Seq(RuleIds) /\ Len(rules) \in Nat
      /\ \A i \in 1 .. Len(rules) : rules[i] \in Loaded(c) \cap RuleIds
  BY AnsweringRules
<1>2. DOMAIN rules = 1 .. Len(rules)
  BY <1>1, LenProperties
<1>3. \A i \in 1 .. Len(rules) :
        /\ K[i].op = "rule" /\ K[i].rule = rules[i] /\ K[i].event = e
  BY <1>2 DEF RunRule
<1> DEFINE S == {K[i] : i \in 1 .. Len(rules)}
<1>4. K \in [1 .. Len(rules) -> S]
  BY <1>2
<1> HIDE DEF S
<1>5. K \in Seq(S) /\ Len(K) = Len(rules)
  BY <1>1, <1>4
<1>6. K \in Seq(ToSet(K))
  BY <1>5, OwnElements
<1>7. ASSUME NEW i \in 1 .. Len(K)
      PROVE  /\ StepOK(K[i]) /\ K[i].op \notin HeadOps
             /\ \A u : Apart(K[i], u)
             /\ \A kind, x : ~Needs(K[i], kind, x)
  <2>1. /\ K[i].op = "rule" /\ K[i].rule \in RuleIds
        /\ K[i].event.depth \in 0 .. MaxDepth
    <3>1. i \in 1 .. Len(rules)
      BY <1>5
    <3>2. rules[i] \in RuleIds
      BY <1>1, <3>1
    <3> QED
      BY <1>3, <3>1, <3>2
  <2>2. StepOK(K[i])
    BY <2>1 DEF StepOK, TaskOps, BusyOps
  <2>3. \A u : Apart(K[i], u)
    BY <2>1 DEF Apart, BusyOps
  <2> QED
    BY <2>1, <2>2, <2>3 DEF HeadOps, Needs, SyncOps
<1>8. \A i \in 2 .. Len(K) : i \in 1 .. Len(K)
  BY <1>1, <1>5
<1>9. \A s : Replaces(s, K)
  BY <1>6, <1>7, <1>8 DEF Replaces, IsStack
<1> QED
  BY <1>1, <1>3, <1>5, <1>9

\* The rules that answer an event take the place of the publication.
LEMMA PublishEventKeeps ==
  ASSUME AInv, PublishEvent
  PROVE  AInv'
<1>1. todo # <<>> /\ Step.op = "publish"
  BY DEF PublishEvent, At, Step
<1>2. UNCHANGED <<engineVars, fileVars, workerStatus, config, chain>>
  BY DEF PublishEvent
<1> DEFINE e == Step.event
           rules == RulesForEvent(config, e)
           K == [i \in DOMAIN rules |-> RunRule(rules[i], e)]
<1>3. CASE Return
  BY <1>1, <1>2, <1>3, ReturnsOnly DEF PayOps, BusyOps
<1>4. CASE Call(K)
  <2>1. todo' = Called(K, todo)
    BY <1>4 DEF Call, Called
  <2>2. e.depth \in 0 .. MaxDepth /\ config \in AutomationConfigs
    BY <1>1, AtHand DEF StepOK, AInv, Typed
  <2>3. /\ Replaces(Step, K)
        /\ \A i \in 1 .. Len(K) :
             K[i].op = "rule" /\ K[i].rule \in Loaded(config)
    <3> HIDE DEF e
    <3> QED
      BY <2>2, RuleStepsReplace
  <2> HIDE DEF K
  <2>4. \A i \in 1 .. Len(K) :
          /\ Fits(K[i], taskStatus, workflowStatus)
          /\ Holds(K[i], workerStatus)
          /\ \A u : Apart(K[i], u) /\ WorkApart(K[i], u)
    BY <2>3, LooseFits, LooseHolds DEF WorkOps, WorkerOps, BusyOps
  <2>5. \A kind \in Kinds, x \in Matters : ~Pays(Step, kind, x)
    BY <1>1, OthersPayNothing DEF PayOps, BusyOps
  <2> QED
    BY <1>1, <1>2, <2>1, <2>3, <2>4, <2>5, CallsOn
<1> QED
  BY <1>3, <1>4 DEF PublishEvent

\* The steps of rule r: its actions, and then its end.
RunsRule(K, r) ==
  /\ IsStack(K) /\ Len(K) \in Nat
  /\ \A i \in 1 .. Len(K) :
       K[i].op \in {"action", "rule_end"} /\ K[i].rule = r
  /\ \A i, j \in 1 .. Len(K) : i < j => K[i].op # "rule_end"
  /\ \E n \in 1 .. Len(K) : K[n].op = "rule_end"

\* A rule is its actions, followed by its end.
LEMMA RuleStepsFacts ==
  ASSUME NEW r \in RuleIds, NEW e, e.depth \in 0 .. MaxDepth
  PROVE  RunsRule(RuleSteps(r, e), r)
<1> DEFINE actions == Rule[r].actions
           StepFor(a) == [op |-> "action", rule |-> r, action |-> a,
                          depth |-> e.depth]
           A == [i \in DOMAIN actions |-> StepFor(actions[i])]
           end == [op |-> "rule_end", rule |-> r]
           B == <<end>>
           K == RuleSteps(r, e)
<1>1. /\ Len(actions) \in Nat /\ DOMAIN actions = 1 .. Len(actions)
      /\ \A i \in 1 .. Len(actions) : actions[i] \in ToSet(actions)
  <2>1. actions \in Seq(ToSet(actions))
    BY RuleActionsAssumption
  <2> QED
    BY <2>1, OwnElements, LenProperties
<1>2. \A i \in 1 .. Len(actions) : A[i] = StepFor(actions[i])
  BY <1>1
<1>3. A \in Seq(ToSet(A)) /\ Len(A) = Len(actions)
  <2> DEFINE S == {A[i] : i \in 1 .. Len(actions)}
  <2>1. A \in [1 .. Len(actions) -> S]
    BY <1>1
  <2> HIDE DEF S, A
  <2>2. A \in Seq(S) /\ Len(A) = Len(actions)
    BY <1>1, <2>1
  <2> QED
    BY <2>2, OwnElements
<1>4. \A a \in ToSet(actions) :
        /\ StepFor(a).op = "action" /\ StepFor(a).rule = r
        /\ StepOK(StepFor(a))
  BY DEF StepOK, TaskOps, BusyOps
<1>5. end.op = "rule_end" /\ end.rule = r /\ StepOK(end)
  BY DEF StepOK, TaskOps, BusyOps
<1>6. B \in Seq(ToSet(B)) /\ Len(B) = 1 /\ B[1] = end
  BY Tuples
<1>7. K = A \o B
  BY DEF RuleSteps
<1> HIDE DEF actions, StepFor, A, end, B, K
<1>8. Joins(A, B, K)
  BY <1>3, <1>6, <1>7, Joined
<1>9. /\ K \in Seq(ToSet(K)) /\ Len(A) \in Nat /\ Len(K) = Len(A) + 1
      /\ \A i \in 1 .. Len(A) : K[i] = A[i]
      /\ K[Len(A) + 1] = end /\ Len(A) + 1 \in 1 .. Len(K)
  BY <1>6, <1>8 DEF Joins
<1>10. \A i \in 1 .. Len(A) :
         K[i].op = "action" /\ K[i].rule = r /\ StepOK(K[i])
  BY <1>1, <1>2, <1>3, <1>4, <1>9
<1>11. \A i \in 1 .. Len(K) : i \in 1 .. Len(A) \/ i = Len(A) + 1
  BY <1>9
<1>12. \A i, j \in 1 .. Len(K) : i < j => i \in 1 .. Len(A)
  BY <1>9
<1>13. Len(K) \in Nat
  BY <1>9
<1> QED
  BY <1>5, <1>9, <1>10, <1>11, <1>12, <1>13 DEF RunsRule, IsStack, K

\* The chain with one more rule.
Extends(ch, r, new) ==
  /\ new \in Seq(RuleIds) /\ Len(ch) \in Nat /\ Len(new) = Len(ch) + 1
  /\ \A m \in 1 .. Len(ch) : m \in 1 .. Len(new) /\ new[m] = ch[m]
  /\ \A m \in 1 .. Len(new) : m \in 1 .. Len(ch) \/ m = Len(ch) + 1
  /\ Len(ch) + 1 \in 1 .. Len(new) /\ new[Len(ch) + 1] = r

\* Appending extends.
LEMMA AppendExtends ==
  ASSUME NEW ch \in Seq(RuleIds), NEW r \in RuleIds,
         NEW new, new = Append(ch, r)
  PROVE  Extends(ch, r, new)
<1>1. /\ new \in Seq(RuleIds) /\ Len(new) = Len(ch) + 1
      /\ \A i \in 1 .. Len(ch) : new[i] = ch[i]
      /\ new[Len(ch) + 1] = r
  BY AppendProperties
<1>2. Len(ch) \in Nat
  BY LenProperties
<1> QED
  BY <1>1, <1>2 DEF Extends

\* A rule that is not on the chain enters it, with its end on the stack.
LEMMA ExecuteRuleKeeps ==
  ASSUME AInv, ExecuteRule
  PROVE  AInv'
<1> DEFINE r == Step.rule
           K == RuleSteps(r, Step.event)
           ch == chain'
           new == todo'
           rules == Loaded(config)
<1>1. /\ todo # <<>> /\ Step.op = "rule"
      /\ UNCHANGED <<engineVars, fileVars, workerStatus, config>>
  BY DEF ExecuteRule, At, Step
<1>2. /\ r \in RuleIds /\ Step.event.depth \in 0 .. MaxDepth
      /\ r \in rules /\ Step = todo[1] /\ Len(todo) \in Nat \ {0}
  BY <1>1, AtHand DEF StepOK, Chained
<1>3. CASE r \in ToSet(chain)
  <2>1. Return /\ UNCHANGED chain
    BY <1>3 DEF ExecuteRule
  <2> QED
    BY <1>1, <2>1, ReturnsOnly DEF PayOps, BusyOps
<1>4. CASE r \notin ToSet(chain)
  <2>1. new = Called(K, todo) /\ ch = Append(chain, r)
    BY <1>4 DEF ExecuteRule, Call, Called
  <2>2. RunsRule(K, r)
    BY <1>2, RuleStepsFacts
  <2>3. chain \in Seq(RuleIds) /\ NoRuleTwice
    BY DEF AInv, Typed, Standing
  <2>4. Extends(chain, r, ch)
    BY <1>2, <2>1, <2>3, AppendExtends
  <2>5. \A m \in 1 .. Len(chain) : chain[m] # r
    <3>1. \A m \in 1 .. Len(chain) : chain[m] \in ToSet(chain)
      BY <2>3, OwnElements
    <3> QED
      BY <1>4, <3>1
  <2> HIDE DEF r, K, ch, new, rules
  <2>6. Replaces(Step, K)
    BY <2>2 DEF Replaces, RunsRule, HeadOps, Apart, BusyOps, Needs, SyncOps
  <2>7. /\ \A i \in 1 .. Len(K) : \A u : Apart(K[i], u)
        /\ \A i \in 1 .. Len(K) : Fits(K[i], taskStatus, workflowStatus)
        /\ \A i \in 1 .. Len(K) : K[i].op \notin WorkerOps
    BY <2>2, LooseFits DEF RunsRule, WorkOps, WorkerOps, BusyOps
  <2>8. Follows(todo, K, new) /\ IsStack(new) /\ Ordered(new)
    <3>1. IsStack(todo) /\ Ordered(todo)
      BY DEF AInv, Standing
    <3> QED
      BY <1>1, <1>2, <2>1, <2>6, <2>7, <3>1, Advance
  <2>9. StepsFit' /\ StepsHold'
    BY <1>1, <2>7, <2>8, FitsStill, HoldsStill DEF engineVars, new
  <2>10. \A i \in 1 .. Len(K) : Chained(K[i], ch, rules)
    BY <1>2, <2>2, <2>4 DEF RunsRule, Chained, Extends
  <2>11. \A i, j \in 1 .. Len(K) : i < j => EndsApart(K[i], K[j], ch)
    BY <2>2 DEF RunsRule, EndsApart
  <2>12. \A o \in 2 .. Len(todo) :
           /\ o \in 1 .. Len(todo)
           /\ Chained(todo[o], chain, rules)
    BY <1>1, AtHandApart DEF rules
  <2>13. \A o \in 2 .. Len(todo) : Chained(todo[o], ch, rules)
    BY <2>4, <2>12 DEF Chained, Extends
  <2>14. ASSUME NEW o \in 2 .. Len(todo), todo[o].op = "rule_end",
                NEW n \in 1 .. Len(ch), ch[n] = todo[o].rule
         PROVE  n \in 1 .. Len(chain)
    <3>1. PICK m \in 1 .. Len(chain) : chain[m] = todo[o].rule
      BY <2>12, <2>14 DEF Chained
    <3>2. n # Len(chain) + 1
      BY <2>4, <2>5, <2>14, <3>1 DEF Extends
    <3> QED
      BY <2>4, <3>2 DEF Extends
  <2>15. ASSUME NEW i \in 1 .. Len(K), NEW o \in 2 .. Len(todo)
         PROVE  EndsApart(K[i], todo[o], ch)
    <3> SUFFICES ASSUME todo[o].op = "rule_end",
                        NEW m \in 1 .. Len(ch), NEW n \in 1 .. Len(ch),
                        ch[m] = K[i].rule, ch[n] = todo[o].rule
                 PROVE  n < m
      BY DEF EndsApart
    <3>1. n \in 1 .. Len(chain)
      BY <2>14
    <3>2. m = Len(chain) + 1
      BY <2>2, <2>4, <2>5 DEF RunsRule, Extends
    <3> QED
      BY <2>4, <3>1, <3>2 DEF Extends
  <2>16. ASSUME NEW o \in 2 .. Len(todo), NEW p \in 2 .. Len(todo), o < p
         PROVE  EndsApart(todo[o], todo[p], ch)
    <3> SUFFICES ASSUME todo[o].op = "rule_end", todo[p].op = "rule_end",
                        NEW m \in 1 .. Len(ch), NEW n \in 1 .. Len(ch),
                        ch[m] = todo[o].rule, ch[n] = todo[p].rule
                 PROVE  n < m
      BY DEF EndsApart
    <3>1. EndsApart(todo[o], todo[p], chain)
      BY <2>12, <2>16 DEF AInv, Standing, StepsChained
    <3>2. m \in 1 .. Len(chain) /\ n \in 1 .. Len(chain)
      BY <2>14
    <3> QED
      BY <2>4, <3>1, <3>2 DEF EndsApart, Extends
  <2>17. /\ \A i \in 1 .. Len(new) : Chained(new[i], ch, rules)
         /\ \A i, j \in 1 .. Len(new) : i < j => EndsApart(new[i], new[j], ch)
    BY <2>8, <2>10, <2>11, <2>13, <2>15, <2>16, ChainedCarried
  <2>18. StepsChained'
    BY <1>1, <2>17 DEF StepsChained, new, ch, rules, Loaded
  <2>19. NoRuleTwice'
    <3>1. \A m, n \in 1 .. Len(ch) : ch[m] = ch[n] => m = n
      BY <2>3, <2>4, <2>5 DEF NoRuleTwice, Extends
    <3> QED
      BY <3>1 DEF NoRuleTwice, ch
  <2>20. Typed'
    BY <1>1, <2>4
    DEF AInv, Typed, engineVars, fileVars, Extends, ch
  <2>21. Duties'
    <3>1. \A kind, x : ~Pays(todo[1], kind, x)
      BY <1>1, <1>2, OthersPayNothing DEF PayOps, BusyOps
    <3>2. \E i \in 1 .. Len(K) : Pays(K[i], "rule", r)
      BY <2>2 DEF RunsRule, Pays
    <3>3. \A n \in 1 .. Len(ch) :
            ch[n] = r \/ \E m \in 1 .. Len(chain) : chain[m] = ch[n]
      BY <2>4 DEF Extends
    <3>4. \A kind \in Kinds, x \in Matters :
            Due(kind, x)' => Due(kind, x) \/ (kind = "rule" /\ x = r)
      BY <1>1, <3>3 DEF Due, engineVars, fileVars, ch
    <3>5. Follows(todo, K, todo')
      BY <2>8 DEF new
    <3> QED
      BY <1>2, <3>1, <3>2, <3>4, <3>5, DutiesCarried
  <2>22. TasksOK(taskStatus, workflowStatus)'
    BY <1>1 DEF AInv, Standing, TasksOK, engineVars
  <2>23. IsStack(todo)' /\ Ordered(todo)'
    BY <2>8 DEF new
  <2> QED
    BY <2>9, <2>18, <2>19, <2>20, <2>21, <2>22, <2>23 DEF AInv, Standing
<1> QED
  BY <1>3, <1>4

\* The chain without its last rule.
FrontOf(ch, new) ==
  /\ new \in Seq(RuleIds) /\ Len(ch) \in Nat \ {0} /\ Len(new) = Len(ch) - 1
  /\ \A m \in 1 .. Len(new) : m \in 1 .. Len(ch) /\ new[m] = ch[m]

\* What is left of a sequence without its last element.
LEMMA FrontProperties ==
  ASSUME NEW ch \in Seq(RuleIds), Len(ch) \in Nat \ {0},
         NEW new, new = Front(ch)
  PROVE  FrontOf(ch, new)
<1> DEFINE n == Len(ch) - 1
<1>1. new = SubSeq(ch, 1, n) /\ n \in Nat
  BY DEF Front
<1>2. \A i \in 1 .. n : i \in 1 .. Len(ch)
  OBVIOUS
<1>3. \A i \in 1 .. n : ch[i] \in RuleIds
  BY <1>2, OwnElements
<1> HIDE DEF n
<1>4. /\ new \in Seq(RuleIds) /\ Len(new) = IF 1 <= n THEN n - 1 + 1 ELSE 0
      /\ \A i \in 1 .. n - 1 + 1 : new[i] = ch[1 + i - 1]
  BY <1>1, <1>3, SubSeqProperties
<1>5. Len(new) = n
  BY <1>1, <1>4
<1>6. ASSUME NEW i \in 1 .. n
      PROVE  new[i] = ch[i]
  <2>1. i \in 1 .. n - 1 + 1 /\ 1 + i - 1 = i
    BY <1>1
  <2> QED
    BY <1>4, <2>1
<1> QED
  BY <1>2, <1>4, <1>5, <1>6 DEF FrontOf, n

\* The rule that ends is the last one of the chain.
LEMMA EndRuleKeeps ==
  ASSUME AInv, EndRule
  PROVE  AInv'
<1> DEFINE r == Step.rule
           ch == chain'
           new == todo'
           rules == Loaded(config)
           K == <<>>
<1>1. /\ todo # <<>> /\ Step.op = "rule_end"
      /\ UNCHANGED <<engineVars, fileVars, workerStatus, config>>
      /\ ch = IF chain # <<>> /\ Last(chain) = r THEN Front(chain) ELSE chain
      /\ new = Called(K, todo)
  BY DEF EndRule, At, Step, Return, Call, Called
<1>2. /\ r \in RuleIds /\ Step = todo[1] /\ Len(todo) \in Nat \ {0}
      /\ \E m \in 1 .. Len(chain) : chain[m] = r
  BY <1>1, AtHand DEF StepOK, Chained
<1>3. /\ chain \in Seq(RuleIds) /\ NoRuleTwice /\ Len(chain) \in Nat \ {0}
      /\ chain # <<>> /\ chain[Len(chain)] \in RuleIds
  <2>1. chain \in Seq(RuleIds) /\ NoRuleTwice
    BY DEF AInv, Typed, Standing
  <2>2. Len(chain) \in Nat
    BY <2>1, LenProperties
  <2>3. Len(chain) # 0
    BY <1>2, <2>2
  <2>4. Len(chain) \in 1 .. Len(chain)
    BY <2>2, <2>3
  <2> QED
    BY <2>1, <2>2, <2>3, <2>4, OwnElements, EmptySeq
<1>4. \A o \in 2 .. Len(todo) :
        /\ o \in 1 .. Len(todo) /\ Chained(todo[o], chain, rules)
        /\ EndsApart(Step, todo[o], chain)
  BY <1>1, AtHandApart
<1>5. /\ K = <<>> /\ Len(K) = 0 /\ Replaces(Step, K)
      /\ \A i \in 1 .. Len(K) : FALSE
  BY NothingReplaces, Tuples
<1> HIDE DEF r, ch, new, rules, K
<1>6. chain[Len(chain)] = r
  <2> DEFINE x == chain[Len(chain)]
  <2>1. Due("rule", x) /\ "rule" \in Kinds /\ x \in Matters
    BY <1>3 DEF Due, Kinds, Matters
  <2>2. PICK o \in 1 .. Len(todo) : todo[o].op = "rule_end" /\ todo[o].rule = x
    BY <2>1 DEF AInv, Duties, Paid, Pays
  <2>3. CASE o = 1
    BY <1>2, <2>2, <2>3 DEF r
  <2>4. CASE o # 1
    <3>1. o \in 2 .. Len(todo)
      BY <2>4
    <3>2. PICK m \in 1 .. Len(chain) : chain[m] = r
      BY <1>2
    <3>3. Len(chain) \in 1 .. Len(chain)
      BY <1>3
    <3>4. Len(chain) < m
      BY <1>1, <1>4, <2>2, <3>1, <3>2, <3>3 DEF EndsApart, r
    <3> QED
      BY <1>3, <3>2, <3>4
  <2> QED
    BY <2>3, <2>4
<1>7. FrontOf(chain, ch)
  <2>1. ch = Front(chain)
    BY <1>1, <1>3, <1>6 DEF Last
  <2> QED
    BY <1>3, <2>1, FrontProperties
<1>8. ASSUME NEW o \in 2 .. Len(todo), todo[o].op = "rule_end"
      PROVE  \E n \in 1 .. Len(ch) : ch[n] = todo[o].rule
  <2>1. PICK n \in 1 .. Len(chain) : chain[n] = todo[o].rule
    BY <1>4, <1>8 DEF Chained
  <2>2. Len(chain) \in 1 .. Len(chain)
    BY <1>3
  <2>3. n < Len(chain)
    BY <1>1, <1>4, <1>6, <1>8, <2>1, <2>2 DEF EndsApart, r
  <2>4. n \in 1 .. Len(ch)
    BY <1>3, <1>7, <2>3 DEF FrontOf
  <2> QED
    BY <1>7, <2>1, <2>4 DEF FrontOf
<1>9. Follows(todo, K, new) /\ IsStack(new) /\ Ordered(new)
  <2>1. IsStack(todo) /\ Ordered(todo)
    BY DEF AInv, Standing
  <2> QED
    BY <1>1, <1>2, <1>5, <2>1, Advance
<1>10. StepsFit' /\ StepsHold'
  <2>1. UNCHANGED <<taskStatus, workflowStatus, workerStatus, config>>
    BY <1>1 DEF engineVars
  <2>2. Follows(todo, K, todo')
    BY <1>9 DEF new
  <2> QED
    BY <1>5, <2>1, <2>2, FitsStill, HoldsStill
<1>11. \A o \in 2 .. Len(todo) : Chained(todo[o], ch, rules)
  BY <1>4, <1>8 DEF Chained
<1>12. ASSUME NEW o \in 2 .. Len(todo), NEW p \in 2 .. Len(todo), o < p
       PROVE  EndsApart(todo[o], todo[p], ch)
  <2>1. EndsApart(todo[o], todo[p], chain)
    BY <1>4, <1>12 DEF AInv, Standing, StepsChained
  <2> QED
    BY <1>7, <2>1 DEF EndsApart, FrontOf
<1>13. /\ \A i \in 1 .. Len(new) : Chained(new[i], ch, rules)
       /\ \A i, j \in 1 .. Len(new) : i < j => EndsApart(new[i], new[j], ch)
  BY <1>5, <1>9, <1>11, <1>12, ChainedCarried
<1>14. StepsChained'
  BY <1>1, <1>13 DEF StepsChained, new, ch, rules, Loaded
<1>15. NoRuleTwice'
  <2>1. \A m, n \in 1 .. Len(ch) : ch[m] = ch[n] => m = n
    BY <1>3, <1>7 DEF NoRuleTwice, FrontOf
  <2> QED
    BY <2>1 DEF NoRuleTwice, ch
<1>16. Typed'
  BY <1>1, <1>7 DEF AInv, Typed, engineVars, fileVars, FrontOf, ch
<1>17. Duties'
  <2>1. \A kind, x : Pays(todo[1], kind, x) => kind = "rule" /\ x = r
    BY <1>1, <1>2 DEF Pays, BusyOps, r
  <2>2. ASSUME NEW n \in 1 .. Len(ch)
        PROVE  ch[n] # r /\ \E m \in 1 .. Len(chain) : chain[m] = ch[n]
    <3>1. n \in 1 .. Len(chain) /\ chain[n] = ch[n] /\ n # Len(chain)
      BY <1>7 DEF FrontOf
    <3>2. Len(chain) \in 1 .. Len(chain)
      BY <1>3
    <3> QED
      BY <1>3, <1>6, <3>1, <3>2 DEF NoRuleTwice
  <2>3. \A kind \in Kinds, x \in Matters :
          Due(kind, x)' => Due(kind, x) /\ ~(kind = "rule" /\ x = r)
    BY <1>1, <2>2 DEF Due, engineVars, fileVars, ch
  <2>4. Follows(todo, K, todo')
    BY <1>9 DEF new
  <2> QED
    BY <1>2, <2>1, <2>3, <2>4, DutiesCarried
<1>18. TasksOK(taskStatus, workflowStatus)'
  BY <1>1 DEF AInv, Standing, TasksOK, engineVars
<1>19. IsStack(todo)' /\ Ordered(todo)'
  BY <1>9 DEF new
<1> QED
  BY <1>10, <1>14, <1>15, <1>16, <1>17, <1>18, <1>19 DEF AInv, Standing

\* A rule completes or fails a ready task that no step is about.
LEMMA OutcomeActionKeeps ==
  ASSUME AInv, OutcomeAction
  PROVE  AInv'
<1> DEFINE t == Step.action.task
           success == (Step.action.type = "complete")
           a == OutcomeOf(t, success)
           b == Plain("sync_manifest")
           K == <<a, b>>
<1>1. /\ todo # <<>> /\ Step.op = "action"
      /\ Step.action.type \in {"complete", "fail"}
      /\ UNCHANGED <<engineVars, fileVars, workerStatus, config, chain>>
  BY DEF OutcomeAction, At, Step
<1>2. CASE taskStatus[t] # "ready"
  BY <1>1, <1>2, ReturnsOnly DEF OutcomeAction, PayOps, BusyOps
<1>3. CASE taskStatus[t] = "ready"
  <2>1. todo' = Called(K, todo)
    BY <1>3 DEF OutcomeAction, Call, Called
  <2>2. t \in Tasks /\ success \in BOOLEAN
    <3>1. Step.rule \in RuleIds /\ Step.action \in ToSet(Rule[Step.rule].actions)
      BY <1>1, AtHand DEF StepOK
    <3>2. IsAction(Step.action)
      BY <3>1, RuleActionsAssumption
    <3> QED
      BY <1>1, <3>2 DEF IsAction
  <2>3. /\ a.op = "outcome" /\ a.task = t /\ StepOK(a)
        /\ \A kind, x : Needs(a, kind, x) => kind = "synced"
    <3> HIDE DEF t, success
    <3> QED
      BY <2>2, OutcomeStepFacts
  <2>4. b.op = "sync_manifest" /\ StepOK(b) /\ \A kind, x : ~Needs(b, kind, x)
    BY PlainFacts
  <2> HIDE DEF t, a, b
  <2>5. Replaces(Step, K)
    <3>1. b.op \notin HeadOps /\ Apart(a, b)
      BY <2>3, <2>4 DEF HeadOps, Apart, BusyOps
    <3>2. \A x : Pays(b, "synced", x)
      BY <2>4 DEF Pays
    <3> QED
      BY <2>3, <2>4, <3>1, <3>2, ReplacesTwo
  <2>6. \A i \in 1 .. Len(K) : K[i] = a \/ K[i] = b
    BY Tuples
  <2> HIDE DEF K
  <2>7. ASSUME NEW i \in 1 .. Len(K)
        PROVE  /\ Fits(K[i], taskStatus, workflowStatus)
               /\ K[i].op \notin WorkerOps \cup RuleOps
    BY <1>3, <2>3, <2>4, <2>6
    DEF Fits, WorkerOps, RuleOps, BusyOps
  <2>8. ASSUME NEW i \in 1 .. Len(K), NEW o \in 2 .. Len(todo)
        PROVE  Apart(K[i], todo[o])
    <3>1. Fits(todo[o], taskStatus, workflowStatus)
      BY <1>1, AtHandApart
    <3> QED
      BY <1>3, <2>3, <2>4, <2>6, <3>1 DEF Fits, Apart, BusyOps
  <2>9. /\ \A i \in 1 .. Len(K) : Holds(K[i], workerStatus)
        /\ \A i \in 1 .. Len(K) : \A u : WorkApart(K[i], u)
        /\ \A i \in 1 .. Len(K) :
             K[i].op # "rule_end" /\ K[i].op \notin {"rule", "action"}
    BY <2>7, LooseHolds DEF RuleOps
  <2>10. \A kind \in Kinds, x \in Matters : ~Pays(Step, kind, x)
    BY <1>1, OthersPayNothing DEF PayOps, BusyOps
  <2> QED
    BY <1>1, <2>1, <2>5, <2>7, <2>8, <2>9, <2>10, CallsOn
<1> QED
  BY <1>2, <1>3

-----------------------------------------------------------------------------
(* The dispatcher.                                                         *)

\* A rule dispatches a task, to the worker it names or to any.
LEMMA DispatchActionKeeps ==
  ASSUME AInv, DispatchAction
  PROVE  AInv'
<1> DEFINE t == Step.action.task
           k == Step.action.worker
           a == DispatchOf(t, k)
           b == Plain("sync_manifest")
           K == <<a, b>>
<1>1. /\ todo # <<>> /\ Step.op = "action" /\ Step.action.type = "dispatch"
      /\ todo' = Called(K, todo)
      /\ UNCHANGED <<engineVars, fileVars, workerStatus, config, chain>>
  BY DEF DispatchAction, At, Step, Call, Called
<1>2. /\ Step.rule \in RuleIds /\ Step.action \in ToSet(Rule[Step.rule].actions)
      /\ Step.rule \in Loaded(config)
  BY <1>1, AtHand DEF StepOK, Chained
<1>3. t \in Tasks /\ k \in Workers \cup {NoWorker}
  <2>1. IsAction(Step.action)
    BY <1>2, RuleActionsAssumption
  <2> QED
    BY <1>1, <2>1 DEF IsAction
<1>4. Unnamed => k = NoWorker
  <2>1. Unnamed => NamesNoWorker(Step.rule)
    BY <1>2 DEF Unnamed
  <2> QED
    BY <1>1, <1>2, <2>1 DEF NamesNoWorker, ToSet
<1> HIDE DEF t, k
<1>5. /\ a.op = "dispatch" /\ a.task = t /\ a.worker = k /\ StepOK(a)
      /\ \A kind, x : Needs(a, kind, x) => kind = "synced"
  BY <1>3, DispatchStepFacts
<1>6. b.op = "sync_manifest" /\ StepOK(b) /\ \A kind, x : ~Needs(b, kind, x)
  BY PlainFacts
<1> HIDE DEF a, b
<1>7. Replaces(Step, K)
  <2>1. b.op \notin HeadOps /\ Apart(a, b)
    BY <1>5, <1>6 DEF HeadOps, Apart, BusyOps
  <2>2. \A x : Pays(b, "synced", x)
    BY <1>6 DEF Pays
  <2> QED
    BY <1>5, <1>6, <2>1, <2>2, ReplacesTwo
<1>8. \A i \in 1 .. Len(K) : K[i] = a \/ K[i] = b
  BY Tuples
<1>9. \A i, j \in 1 .. Len(K) : i < j => K[j] = b
  BY Tuples
<1> HIDE DEF K
<1>10. ASSUME NEW i \in 1 .. Len(K)
       PROVE  /\ Fits(K[i], taskStatus, workflowStatus)
              /\ Holds(K[i], workerStatus)
              /\ K[i].op # "rule_end" /\ K[i].op \notin {"rule", "action"}
              /\ \A u : Apart(K[i], u)
  BY <1>5, <1>6, <1>8 DEF Fits, Holds, Apart, BusyOps
<1>11. \A i, j \in 1 .. Len(K) : i < j => WorkApart(K[i], K[j])
  BY <1>6, <1>9 DEF WorkApart, BusyOps
<1>12. ASSUME Unnamed, NEW i \in 1 .. Len(K), NEW o \in 2 .. Len(todo)
       PROVE  WorkApart(K[i], todo[o])
  <2>1. StepOK(todo[o])
    BY <1>1, AtHandApart
  <2>2. todo[o].op \in BusyOps => todo[o].worker \in Workers
    BY <2>1 DEF StepOK
  <2> QED
    BY <1>4, <1>5, <1>6, <1>8, <1>12, <2>2, WorkersAssumption
    DEF WorkApart, BusyOps
<1>13. \A kind \in Kinds, x \in Matters : ~Pays(Step, kind, x)
  BY <1>1, OthersPayNothing DEF PayOps, BusyOps
<1> QED
  BY <1>1, <1>7, <1>10, <1>11, <1>12, <1>13, CallsOn

\* The worker a dispatch finds: the one it names, or one that is available.
LEMMA WorkerSelected ==
  ASSUME NEW t, NEW k, NEW found, found = SelectWorker(t, k),
         found # NoWorker
  PROVE  /\ found \in Workers
         /\ IF k # NoWorker THEN found = k
                            ELSE workerStatus[found] = "available"
<1> DEFINE fit == IF k # NoWorker
                    THEN {x \in {k} : t \in Supports[x]}
                    ELSE {x \in Workers : t \in Supports[x]
                                            /\ workerStatus[x] = "available"}
           I == {i \in 1 .. Len(WorkerOrder) : WorkerOrder[i] \in fit}
           first == IF I # {} THEN Min(I) ELSE 0
<1>1. found = IF first = 0 THEN NoWorker ELSE WorkerOrder[first]
  BY DEF SelectWorker, SelectInSeq
<1>2. \A x \in fit : IF k # NoWorker THEN x = k
                                     ELSE workerStatus[x] = "available"
  OBVIOUS
<1>3. /\ Len(WorkerOrder) \in Nat
      /\ \A i \in 1 .. Len(WorkerOrder) : WorkerOrder[i] \in Workers
  BY WorkersAssumption, OwnElements
<1> HIDE DEF fit
<1>4. I # {} => Min(I) \in I
  <2>1. I \in SUBSET Nat
    BY <1>3
  <2> HIDE DEF I
  <2>2. I # {} => \E x \in I : \A y \in I : x <= y
    BY <2>1, LeastNumber
  <2> QED
    BY <2>2 DEF Min
<1>5. first # 0 /\ first \in I
  BY <1>1, <1>4
<1>6. found \in Workers /\ found \in fit
  BY <1>1, <1>3, <1>5
<1> QED
  BY <1>2, <1>6

\* A dispatch chooses its worker before the state of the project changes.
LEMMA BeginDispatchKeeps ==
  ASSUME AInv, BeginDispatch
  PROVE  AInv'
<1> DEFINE t == Step.task
           k == SelectWorker(t, Step.worker)
           a == ForWork("assign", t, k)
           b == TryState("executing")
           K == IF projectState = "executing" THEN <<a>> ELSE <<b, a>>
<1>1. /\ todo # <<>> /\ Step.op = "dispatch"
      /\ UNCHANGED <<engineVars, fileVars, workerStatus, config, chain>>
  BY DEF BeginDispatch, At, Step
<1>2. t \in Tasks
  BY <1>1, AtHand DEF StepOK, TaskOps
<1>3. CASE Return
  BY <1>1, <1>3, ReturnsOnly DEF PayOps, BusyOps
<1>4. CASE k # NoWorker /\ Call(K)
  <2>1. todo' = Called(K, todo)
    BY <1>4 DEF Call, Called
  <2>2. /\ k \in Workers
        /\ IF Step.worker # NoWorker THEN k = Step.worker
                                     ELSE workerStatus[k] = "available"
    BY <1>4, WorkerSelected
  <2> HIDE DEF t, k
  <2>3. /\ a.op = "assign" /\ a.task = t /\ a.worker = k /\ StepOK(a)
        /\ \A kind, x : Needs(a, kind, x) => kind = "synced"
    BY <1>2, <2>2, WorkStepFacts
  <2>4. /\ b.op = "try_state" /\ StepOK(b)
        /\ \A kind, x : Needs(b, kind, x) => kind = "synced"
    <3>1. "executing" \in ProjectStates
      BY DEF ProjectStates
    <3> QED
      BY <3>1, TargetFacts DEF TryState
  <2> HIDE DEF a, b
  <2>5. \A x : Needs(Step, "synced", x)
    BY <1>1, SyncNeeds DEF SyncOps
  <2>6. Replaces(Step, K)
    <3>1. a.op \notin HeadOps /\ Apart(b, a)
      BY <2>3, <2>4 DEF HeadOps, Apart, BusyOps
    <3>2. Replaces(Step, <<a>>)
      BY <2>3, <2>5, ReplacesOne
    <3>3. Replaces(Step, <<b, a>>)
      BY <2>3, <2>4, <2>5, <3>1, ReplacesTwo
    <3> QED
      BY <3>2, <3>3
  <2>7. \A i \in 1 .. Len(K) : K[i] = a \/ K[i] = b
    BY Tuples
  <2> HIDE DEF K
  <2>8. ASSUME NEW i \in 1 .. Len(K)
        PROVE  /\ Fits(K[i], taskStatus, workflowStatus)
               /\ Holds(K[i], workerStatus)
               /\ K[i].op # "rule_end" /\ K[i].op \notin {"rule", "action"}
               /\ K[i].op \notin BusyOps
               /\ \A u : Apart(K[i], u)
    BY <2>3, <2>4, <2>7 DEF Fits, Holds, Apart, BusyOps
  <2>9. \A i, j \in 1 .. Len(K) : i < j => WorkApart(K[i], K[j])
    BY <2>8 DEF WorkApart
  <2>10. ASSUME Unnamed, NEW i \in 1 .. Len(K), NEW o \in 2 .. Len(todo)
         PROVE  WorkApart(K[i], todo[o])
    <3>1. Holds(todo[o], workerStatus) /\ WorkApart(Step, todo[o])
      BY <1>1, <2>10, AtHandApart
    <3> QED
      BY <1>1, <2>2, <2>3, <2>4, <2>7, <3>1 DEF Holds, WorkApart, BusyOps
  <2>11. \A kind \in Kinds, x \in Matters : ~Pays(Step, kind, x)
    BY <1>1, OthersPayNothing DEF PayOps, BusyOps
  <2> QED
    BY <1>1, <2>1, <2>6, <2>8, <2>9, <2>10, <2>11, CallsOn
<1> QED
  BY <1>3, <1>4 DEF BeginDispatch

\* The stack after a step by which a worker is taken up or does its work.
LEMMA StandsAtWork ==
  ASSUME AInv, todo # <<>>, NEW K, todo' = Called(K, todo), Replaces(Step, K),
         UNCHANGED <<config, chain>>,
         \A i \in 1 .. Len(K) : K[i].op \notin RuleOps,
         \A i \in 1 .. Len(K), o \in 2 .. Len(todo) : Apart(K[i], todo[o]),
         \A i \in 1 .. Len(K) : Fits(K[i], taskStatus', workflowStatus'),
         \A o \in 2 .. Len(todo) : Fits(todo[o], taskStatus', workflowStatus'),
         TasksOK(taskStatus', workflowStatus'),
         Unnamed =>
           /\ \A i \in 1 .. Len(K) : Holds(K[i], workerStatus')
           /\ \A o \in 2 .. Len(todo) : Holds(todo[o], workerStatus')
           /\ \A i, j \in 1 .. Len(K) : i < j => WorkApart(K[i], K[j])
           /\ \A i \in 1 .. Len(K), o \in 2 .. Len(todo) :
                WorkApart(K[i], todo[o])
  PROVE  Follows(todo, K, todo') /\ Len(todo) \in Nat \ {0} /\ Standing'
<1> DEFINE new == todo'
           ts == taskStatus'
           ws == workflowStatus'
           wst == workerStatus'
<1>1. Step = todo[1] /\ Len(todo) \in Nat \ {0}
  BY AtHand
<1>2. /\ Replaces(todo[1], K) /\ new = Called(K, todo)
      /\ IsStack(todo) /\ Ordered(todo)
      /\ \A i \in 1 .. Len(K) : Fits(K[i], ts, ws)
      /\ \A o \in 2 .. Len(todo) : Fits(todo[o], ts, ws)
  BY <1>1 DEF AInv, Standing
<1>3. ASSUME Unnamed
      PROVE  /\ \A i \in 1 .. Len(K) : Holds(K[i], wst)
             /\ \A o \in 2 .. Len(todo) : Holds(todo[o], wst)
             /\ \A i, j \in 1 .. Len(K) : i < j => WorkApart(K[i], K[j])
             /\ \A i \in 1 .. Len(K), o \in 2 .. Len(todo) :
                  WorkApart(K[i], todo[o])
             /\ \A o, p \in 2 .. Len(todo) :
                  o < p => WorkApart(todo[o], todo[p])
  BY <1>1, <1>3, RestPositions DEF AInv, Standing, StepsHold
<1>4. Unnamed' => Unnamed
  BY DEF Unnamed
<1> HIDE DEF new, ts, ws, wst
<1>5. Follows(todo, K, new) /\ IsStack(new) /\ Ordered(new)
  BY <1>2, Advance
<1>6. \A i \in 1 .. Len(new) : Fits(new[i], ts, ws)
  BY <1>2, <1>5, FitsCarried
<1>7. /\ Follows(todo, K, todo') /\ IsStack(todo)' /\ Ordered(todo)'
      /\ StepsFit'
  BY <1>5, <1>6 DEF new, ts, ws, StepsFit
<1>8. StepsChained' /\ NoRuleTwice'
  BY <1>7, ChainedStill DEF RuleOps
<1>9. StepsHold'
  <2>1. ASSUME Unnamed
        PROVE  /\ \A i \in 1 .. Len(new) : Holds(new[i], wst)
               /\ \A i, j \in 1 .. Len(new) :
                    i < j => WorkApart(new[i], new[j])
    BY <1>3, <1>5, <2>1, HoldsCarried
  <2> QED
    BY <1>4, <2>1 DEF StepsHold, new, wst
<1>10. TasksOK(taskStatus, workflowStatus)'
  OBVIOUS
<1> QED
  BY <1>1, <1>7, <1>8, <1>9, <1>10 DEF Standing

\* A task in the hands of a worker gets another status on the way.
OnTheWay(ts, t, v, new) ==
  /\ Becomes(ts, t, v, new)
  /\ ts[t] \in {"ready", "dispatched"} /\ v \in InFlight

\* A task that is handed to a worker leaves all workflows refreshed.
LEMMA OnTheWayKeeps ==
  ASSUME NEW ts \in [Tasks -> Live],
         NEW ws \in [Workflows -> WorkflowStatuses],
         NEW t \in Tasks, NEW v, NEW new, OnTheWay(ts, t, v, new),
         TasksOK(ts, ws)
  PROVE  /\ TasksOK(new, ws)
         /\ \A w \in Workflows : Refreshed(w, ts, ws) => Refreshed(w, new, ws)
         /\ \A u \in Tasks \ {t} : new[u] = ts[u]
         /\ new \in [Tasks -> Live]
<1>1. \A u \in Tasks : new[u] \in Done <=> ts[u] \in Done
  BY DEF OnTheWay, Becomes, Done, InFlight
<1>2. \A u \in Tasks :
        DependenciesSatisfied(u, new) <=> DependenciesSatisfied(u, ts)
  BY <1>1 DEF DependenciesSatisfied
<1>3. TasksOK(new, ws)
  BY <1>2 DEF TasksOK, OnTheWay, Becomes, InFlight
<1>4. /\ v \in Live \ {"pending", "ready", "failed"}
      /\ v \notin Done /\ ts[t] \notin Done
      /\ v \in Active /\ ts[t] \in Active /\ ts[t] # "failed"
  BY DEF OnTheWay, Live, Reached, Done, Active, InFlight
<1>5. \A w \in Workflows : Refreshed(w, ts, ws) => Refreshed(w, new, ws)
  BY <1>4, MoveKeepsRefreshed DEF OnTheWay, Becomes
<1> QED
  BY <1>3, <1>5 DEF OnTheWay, Becomes

\* Only a task that is ready still is assigned; else the worker is released.
LEMMA AssignKeeps ==
  ASSUME AInv, Assign
  PROVE  AInv'
<1> DEFINE t == Step.task
           k == Step.worker
           ts == taskStatus'
           ws == workflowStatus
           wst == workerStatus'
<1>1. /\ todo # <<>> /\ Step.op = "assign"
      /\ UNCHANGED <<workflowStatus, projectState, manifest, config, chain>>
  BY DEF Assign, At, Step
<1>2. /\ t \in Tasks /\ k \in Workers
      /\ Step = todo[1] /\ Len(todo) \in Nat \ {0}
  BY <1>1, AtHand DEF StepOK, TaskOps
<1>3. CASE Return /\ UNCHANGED <<taskStatus, workerStatus, progressFile>>
  <2>1. UNCHANGED <<engineVars, fileVars, workerStatus, config, chain>>
    BY <1>1, <1>3 DEF engineVars, fileVars
  <2> QED
    BY <1>1, <1>3, <2>1, ReturnsOnly DEF PayOps, BusyOps
<1>4. CASE /\ Call(<<ForWork("release", t, k)>>)
           /\ UNCHANGED <<taskStatus, workerStatus, progressFile>>
  <2> DEFINE a == ForWork("release", t, k)
             K == <<a>>
  <2>1. /\ todo' = Called(K, todo)
        /\ UNCHANGED <<engineVars, fileVars, workerStatus, config, chain>>
    BY <1>1, <1>4 DEF Call, Called, engineVars, fileVars
  <2> HIDE DEF t, k
  <2>2. /\ a.op = "release" /\ a.worker = k /\ StepOK(a)
        /\ \A kind, x : ~Needs(a, kind, x)
    BY <1>2, WorkStepFacts
  <2> HIDE DEF a
  <2>3. Replaces(Step, K)
    BY <2>2, ReplacesOne
  <2>4. /\ \A i \in 1 .. Len(K) : K[i] = a
        /\ \A i, j \in 1 .. Len(K) : ~(i < j)
    BY Tuples
  <2> HIDE DEF K
  <2>5. ASSUME NEW i \in 1 .. Len(K)
        PROVE  /\ Fits(K[i], taskStatus, workflowStatus)
               /\ Holds(K[i], workerStatus)
               /\ K[i].op # "rule_end" /\ K[i].op \notin {"rule", "action"}
               /\ \A u : Apart(K[i], u)
    BY <2>2, <2>4 DEF Fits, Holds, Apart, BusyOps
  <2>6. ASSUME Unnamed, NEW i \in 1 .. Len(K), NEW o \in 2 .. Len(todo)
        PROVE  WorkApart(K[i], todo[o])
    <3>1. WorkApart(Step, todo[o])
      BY <1>1, <2>6, AtHandApart
    <3> QED
      BY <1>1, <2>2, <2>4, <3>1 DEF WorkApart, BusyOps, k
  <2>7. \A kind \in Kinds, x \in Matters : ~Pays(Step, kind, x)
    BY <1>1, OthersPayNothing DEF PayOps, BusyOps
  <2> QED
    BY <1>1, <2>1, <2>3, <2>4, <2>5, <2>6, <2>7, CallsOn
<1>5. CASE /\ taskStatus[t] = "ready"
           /\ ts = [taskStatus EXCEPT ![t] = "dispatched"]
           /\ wst = [workerStatus EXCEPT ![k] = "assigned"]
           /\ progressFile' = [tasks |-> ts, workflows |-> ws]
           /\ Call(<<ForWork("run", t, k)>>)
  <2> DEFINE a == ForWork("run", t, k)
             K == <<a>>
  <2>1. todo' = Called(K, todo)
    BY <1>5 DEF Call, Called
  <2>2. /\ taskStatus \in [Tasks -> Live]
        /\ ws \in [Workflows -> WorkflowStatuses]
        /\ workerStatus \in [Workers -> {"available", "assigned", "executing"}]
        /\ TasksOK(taskStatus, ws)
    BY DEF AInv, Typed, Standing
  <2>3. OnTheWay(taskStatus, t, "dispatched", ts)
    BY <1>2, <1>5, <2>2, BecomesExcept DEF OnTheWay, Live, Reached, InFlight
  <2>4. /\ wst \in [Workers -> {"available", "assigned", "executing"}]
        /\ wst[k] = "assigned" /\ \A y \in Workers \ {k} : wst[y] = workerStatus[y]
    BY <1>2, <1>5, <2>2
  <2>5. progressFile' = [tasks |-> ts, workflows |-> ws]
    BY <1>5
  <2> HIDE DEF t, k, ts, ws, wst
  <2>6. /\ a.op = "run" /\ a.task = t /\ a.worker = k /\ StepOK(a)
        /\ \A kind, x : Needs(a, kind, x) => kind = "synced"
    BY <1>2, WorkStepFacts
  <2> HIDE DEF a
  <2>7. Replaces(Step, K)
    <3>1. \A x : Needs(Step, "synced", x)
      BY <1>1, SyncNeeds DEF SyncOps
    <3> QED
      BY <2>6, <3>1, ReplacesOne
  <2>8. /\ \A i \in 1 .. Len(K) : K[i] = a
        /\ \A i, j \in 1 .. Len(K) : ~(i < j)
        /\ 1 \in 1 .. Len(K)
    BY Tuples
  <2> HIDE DEF K
  <2>9. /\ TasksOK(ts, ws)
        /\ \A w \in Workflows :
             Refreshed(w, taskStatus, ws) => Refreshed(w, ts, ws)
        /\ ts \in [Tasks -> Live]
    BY <1>2, <2>2, <2>3, OnTheWayKeeps
  <2>10. ASSUME NEW o \in 2 .. Len(todo)
         PROVE  Fits(todo[o], ts, ws) /\ Apart(a, todo[o])
    <3>1. /\ Fits(todo[o], taskStatus, workflowStatus) /\ StepOK(todo[o])
          /\ todo[o].op \notin HeadOps
      BY <1>1, AtHandApart
    <3> QED
      BY <1>5, <2>3, <2>6, <3>1
      DEF Fits, StepOK, TaskOps, BusyOps, HeadOps, Apart, OnTheWay, Becomes,
          t, ws
  <2>11. ASSUME Unnamed, NEW o \in 2 .. Len(todo)
         PROVE  Holds(todo[o], wst) /\ WorkApart(a, todo[o])
    <3>1. /\ Holds(todo[o], workerStatus) /\ WorkApart(Step, todo[o])
          /\ StepOK(todo[o])
      BY <1>1, <2>11, AtHandApart
    <3> QED
      BY <1>1, <2>4, <2>6, <3>1 DEF Holds, WorkApart, StepOK, BusyOps, k
  <2>12. Fits(a, ts, ws) /\ Holds(a, wst)
    BY <2>3, <2>4, <2>6 DEF Fits, Holds, BusyOps, OnTheWay, Becomes
  <2>13. Follows(todo, K, todo') /\ Standing'
    <3>1. /\ \A i \in 1 .. Len(K) : Fits(K[i], taskStatus', workflowStatus')
          /\ \A o \in 2 .. Len(todo) :
               Fits(todo[o], taskStatus', workflowStatus')
          /\ TasksOK(taskStatus', workflowStatus')
      BY <1>1, <2>8, <2>9, <2>10, <2>12 DEF ts, ws
    <3>2. /\ \A i \in 1 .. Len(K), o \in 2 .. Len(todo) : Apart(K[i], todo[o])
          /\ \A i \in 1 .. Len(K) : K[i].op \notin RuleOps
      BY <2>6, <2>8, <2>10 DEF RuleOps
    <3>3. Unnamed =>
            /\ \A i \in 1 .. Len(K) : Holds(K[i], workerStatus')
            /\ \A o \in 2 .. Len(todo) : Holds(todo[o], workerStatus')
            /\ \A i, j \in 1 .. Len(K) : i < j => WorkApart(K[i], K[j])
            /\ \A i \in 1 .. Len(K), o \in 2 .. Len(todo) :
                 WorkApart(K[i], todo[o])
      BY <2>8, <2>11, <2>12 DEF wst
    <3> QED
      BY <1>1, <2>1, <2>7, <3>1, <3>2, <3>3, StandsAtWork
  <2>14. Typed'
    <3>1. ts \in [Tasks -> TaskStatuses]
      BY <2>9 DEF Live, Reached, TaskStatuses
    <3> QED
      BY <1>1, <2>2, <2>4, <2>5, <2>9, <3>1 DEF AInv, Typed, ts, ws, wst
  <2>15. Duties'
    <3>1. \A kind, x : ~Pays(todo[1], kind, x)
      BY <1>1, <1>2, OthersPayNothing DEF PayOps, BusyOps
    <3>2. Pays(K[1], "worked", t) /\ Pays(K[1], "free", k) /\ 1 \in 1 .. Len(K)
      BY <2>6, <2>8 DEF Pays
    <3>3. \A kind \in Kinds, x \in Matters :
            Due(kind, x)' => \/ Due(kind, x)
                             \/ kind = "worked" /\ x = t
                             \/ kind = "free" /\ x = k
      <4>1. \A x \in Tasks :
              /\ ts[x] = "completed" => taskStatus[x] = "completed"
              /\ ts[x] \in InFlight => taskStatus[x] \in InFlight \/ x = t
        BY <2>3 DEF OnTheWay, Becomes, InFlight
      <4>2. progressFile' = [tasks |-> taskStatus', workflows |-> workflowStatus']
        BY <1>1, <2>5 DEF ts, ws
      <4> QED
        BY <1>1, <2>4, <2>9, <4>1, <4>2 DEF Due, ts, ws, wst
    <3> QED
      BY <1>2, <2>13, <3>1, <3>2, <3>3, DutiesCarried
  <2> QED
    BY <2>13, <2>14, <2>15 DEF AInv
<1> QED
  BY <1>1, <1>3, <1>4, <1>5 DEF Assign

\* The dispatched task runs, the file is behind until it is persisted.
LEMMA MarkRunningKeeps ==
  ASSUME AInv, MarkRunning
  PROVE  AInv'
<1> DEFINE t == Step.task
           k == Step.worker
           ts == taskStatus'
           ws == workflowStatus
           a == PublishTask("TaskStarted", t)
           b == Plain("persist")
           c == ForWork("start", t, k)
           K == <<a, b, c>>
<1>1. /\ todo # <<>> /\ Step.op = "run" /\ todo' = Called(K, todo)
      /\ ts = [taskStatus EXCEPT ![t] = "running"]
      /\ UNCHANGED <<workflowStatus, projectState, progressFile, manifest,
                     workerStatus, config, chain>>
  BY DEF MarkRunning, At, Step, Call, Called, fileVars
<1>2. /\ t \in Tasks /\ k \in Workers /\ taskStatus[t] = "dispatched"
      /\ Step = todo[1] /\ Len(todo) \in Nat \ {0}
      /\ Unnamed => Holds(Step, workerStatus)
  BY <1>1, AtHand DEF StepOK, TaskOps, Fits
<1>3. /\ taskStatus \in [Tasks -> Live] /\ TasksOK(taskStatus, ws)
      /\ ws \in [Workflows -> WorkflowStatuses]
  BY DEF AInv, Typed, Standing
<1>4. OnTheWay(taskStatus, t, "running", ts)
  BY <1>1, <1>2, <1>3, BecomesExcept DEF OnTheWay, Live, Reached, InFlight
<1> HIDE DEF t, k, ts, ws
<1>5. a.op = "publish" /\ StepOK(a) /\ \A kind, x : ~Needs(a, kind, x)
  BY PublishTaskFacts
<1>6. b.op = "persist" /\ StepOK(b) /\ \A kind, x : ~Needs(b, kind, x)
  BY PlainFacts
<1>7. /\ c.op = "start" /\ c.task = t /\ c.worker = k /\ StepOK(c)
      /\ \A kind, x : Needs(c, kind, x) => kind = "synced"
  BY <1>2, WorkStepFacts
<1> HIDE DEF a, b, c
<1>8. Replaces(Step, K)
  <2>1. \A x : Needs(Step, "synced", x)
    BY <1>1, SyncNeeds DEF SyncOps
  <2>2. /\ b.op \notin HeadOps /\ c.op \notin HeadOps
        /\ Apart(a, b) /\ Apart(a, c) /\ Apart(b, c)
    BY <1>5, <1>6, <1>7 DEF HeadOps, Apart, BusyOps
  <2> QED
    BY <1>5, <1>6, <1>7, <2>1, <2>2, ReplacesThree
<1>9. /\ \A i \in 1 .. Len(K) : K[i] = a \/ K[i] = b \/ K[i] = c
      /\ \A i, j \in 1 .. Len(K) : i < j => K[i] = a \/ K[i] = b
      /\ 2 \in 1 .. Len(K) /\ K[2] = b /\ 3 \in 1 .. Len(K) /\ K[3] = c
  BY Tuples
<1> HIDE DEF K
<1>10. /\ TasksOK(ts, ws)
       /\ \A w \in Workflows :
            Refreshed(w, taskStatus, ws) => Refreshed(w, ts, ws)
       /\ ts \in [Tasks -> Live]
  BY <1>2, <1>3, <1>4, OnTheWayKeeps
<1>11. ASSUME NEW o \in 2 .. Len(todo)
       PROVE  Fits(todo[o], ts, ws) /\ Apart(c, todo[o])
  <2>1. /\ Fits(todo[o], taskStatus, workflowStatus) /\ StepOK(todo[o])
        /\ todo[o].op \notin HeadOps /\ Apart(Step, todo[o])
    BY <1>1, AtHandApart
  <2> QED
    BY <1>1, <1>2, <1>4, <1>7, <2>1
    DEF Fits, StepOK, TaskOps, BusyOps, HeadOps, Apart, OnTheWay, Becomes,
        t, ws
<1>12. ASSUME Unnamed
       PROVE  /\ Holds(c, workerStatus)
              /\ \A o \in 2 .. Len(todo) :
                   Holds(todo[o], workerStatus) /\ WorkApart(c, todo[o])
  <2>1. \A o \in 2 .. Len(todo) :
          Holds(todo[o], workerStatus) /\ WorkApart(Step, todo[o])
    BY <1>1, <1>12, AtHandApart
  <2> QED
    BY <1>1, <1>2, <1>7, <1>12, <2>1 DEF Holds, WorkApart, BusyOps, k
<1>13. \A i \in 1 .. Len(K) : Fits(K[i], ts, ws)
  BY <1>4, <1>5, <1>6, <1>7, <1>9 DEF Fits, BusyOps, OnTheWay, Becomes
<1>14. Follows(todo, K, todo') /\ Standing'
  <2>1. /\ \A i \in 1 .. Len(K) : Fits(K[i], taskStatus', workflowStatus')
        /\ \A o \in 2 .. Len(todo) :
             Fits(todo[o], taskStatus', workflowStatus')
        /\ TasksOK(taskStatus', workflowStatus')
    BY <1>1, <1>10, <1>11, <1>13 DEF ts, ws
  <2>2. /\ \A i \in 1 .. Len(K), o \in 2 .. Len(todo) : Apart(K[i], todo[o])
        /\ \A i \in 1 .. Len(K) : K[i].op \notin RuleOps
    BY <1>5, <1>6, <1>7, <1>9, <1>11 DEF RuleOps, Apart, BusyOps
  <2>3. /\ \A i, j \in 1 .. Len(K) : i < j => WorkApart(K[i], K[j])
        /\ \A u : WorkApart(a, u) /\ WorkApart(b, u)
        /\ Holds(a, workerStatus) /\ Holds(b, workerStatus)
    BY <1>5, <1>6, <1>9 DEF WorkApart, Holds, BusyOps
  <2>4. Unnamed =>
          /\ \A i \in 1 .. Len(K) : Holds(K[i], workerStatus')
          /\ \A o \in 2 .. Len(todo) : Holds(todo[o], workerStatus')
          /\ \A i, j \in 1 .. Len(K) : i < j => WorkApart(K[i], K[j])
          /\ \A i \in 1 .. Len(K), o \in 2 .. Len(todo) :
               WorkApart(K[i], todo[o])
    <3>1. workerStatus' = workerStatus
      BY <1>1
    <3> QED
      BY <1>9, <1>12, <2>3, <3>1
  <2>5. UNCHANGED <<config, chain>>
    BY <1>1
  <2> QED
    BY <1>1, <1>8, <2>1, <2>2, <2>4, <2>5, StandsAtWork
<1>15. Typed'
  BY <1>1, <1>10 DEF AInv, Typed, ts
<1>16. Duties'
  <2>1. \A kind, x : Pays(todo[1], kind, x) =>
          (kind = "worked" /\ x = t) \/ (kind = "free" /\ x = k)
    BY <1>1, <1>2 DEF Pays, BusyOps, t, k
  <2>2. /\ Pays(K[3], "worked", t) /\ Pays(K[3], "free", k)
        /\ \A x : Pays(K[2], "saved", x)
    BY <1>6, <1>7, <1>9 DEF Pays, BusyOps
  <2>3. \A kind \in Kinds, x \in Matters :
          Due(kind, x)' => \/ Due(kind, x)
                           \/ kind = "worked" /\ x = t
                           \/ kind = "saved"
    <3>1. \A x \in Tasks :
            /\ ts[x] = "completed" => taskStatus[x] = "completed"
            /\ ts[x] \in InFlight => taskStatus[x] \in InFlight \/ x = t
      BY <1>4 DEF OnTheWay, Becomes, InFlight
    <3> QED
      BY <1>1, <1>10, <3>1 DEF Due, ts, ws
  <2>4. \A kind \in Kinds, x \in Matters : Due(kind, x)' =>
          \/ Due(kind, x) /\ ~Pays(todo[1], kind, x)
          \/ \E i \in 1 .. Len(K) : Pays(K[i], kind, x)
    BY <1>9, <2>1, <2>2, <2>3
  <2> QED
    BY <1>2, <1>14, <2>4, DutiesCarried
<1> QED
  BY <1>14, <1>15, <1>16 DEF AInv

\* The worker starts, and what it executes is its own task.
LEMMA StartWorkKeeps ==
  ASSUME AInv, StartWork
  PROVE  AInv'
<1> DEFINE t == Step.task
           k == Step.worker
           wst == workerStatus'
           a == TryState("executing")
           b == PublishTask("WorkerStarted", t)
           c == ForWork("execute", t, k)
           K == <<a, b, c>>
<1>1. /\ todo # <<>> /\ Step.op = "start" /\ todo' = Called(K, todo)
      /\ wst = [workerStatus EXCEPT ![k] = "executing"]
      /\ UNCHANGED <<taskStatus, workflowStatus, projectState, progressFile,
                     manifest, config, chain>>
  BY DEF StartWork, At, Step, Call, Called, engineVars, fileVars
<1>2. /\ t \in Tasks /\ k \in Workers /\ taskStatus[t] = "running"
      /\ Step = todo[1] /\ Len(todo) \in Nat \ {0}
  BY <1>1, AtHand DEF StepOK, TaskOps, Fits, BusyOps
<1>3. /\ workerStatus \in [Workers -> {"available", "assigned", "executing"}]
      /\ TasksOK(taskStatus, workflowStatus)
  BY DEF AInv, Typed, Standing
<1>4. /\ wst \in [Workers -> {"available", "assigned", "executing"}]
      /\ wst[k] = "executing"
      /\ \A y \in Workers \ {k} : wst[y] = workerStatus[y]
  BY <1>1, <1>2, <1>3
<1> HIDE DEF t, k, wst
<1>5. /\ a.op = "try_state" /\ StepOK(a)
      /\ \A kind, x : Needs(a, kind, x) => kind = "synced"
  <2>1. "executing" \in ProjectStates
    BY DEF ProjectStates
  <2> QED
    BY <2>1, TargetFacts DEF TryState
<1>6. b.op = "publish" /\ StepOK(b) /\ \A kind, x : ~Needs(b, kind, x)
  BY PublishTaskFacts
<1>7. /\ c.op = "execute" /\ c.task = t /\ c.worker = k /\ StepOK(c)
      /\ \A kind, x : Needs(c, kind, x) => kind = "synced"
  BY <1>2, WorkStepFacts
<1> HIDE DEF a, b, c
<1>8. Replaces(Step, K)
  <2>1. \A x : Needs(Step, "synced", x)
    BY <1>1, SyncNeeds DEF SyncOps
  <2>2. /\ b.op \notin HeadOps /\ c.op \notin HeadOps
        /\ Apart(a, b) /\ Apart(a, c) /\ Apart(b, c)
    BY <1>5, <1>6, <1>7 DEF HeadOps, Apart, BusyOps
  <2> QED
    BY <1>5, <1>6, <1>7, <2>1, <2>2, ReplacesThree
<1>9. /\ \A i \in 1 .. Len(K) : K[i] = a \/ K[i] = b \/ K[i] = c
      /\ \A i, j \in 1 .. Len(K) : i < j => K[i] = a \/ K[i] = b
      /\ 3 \in 1 .. Len(K) /\ K[3] = c
  BY Tuples
<1> HIDE DEF K
<1>10. ASSUME NEW o \in 2 .. Len(todo)
       PROVE  Fits(todo[o], taskStatus, workflowStatus) /\ Apart(c, todo[o])
  <2>1. /\ Fits(todo[o], taskStatus, workflowStatus) /\ Apart(Step, todo[o])
    BY <1>1, AtHandApart
  <2> QED
    BY <1>1, <1>7, <2>1 DEF Apart, BusyOps, t
<1>11. ASSUME Unnamed
       PROVE  /\ Holds(c, wst)
              /\ \A o \in 2 .. Len(todo) :
                   Holds(todo[o], wst) /\ WorkApart(c, todo[o])
  <2>1. \A o \in 2 .. Len(todo) :
          /\ Holds(todo[o], workerStatus) /\ WorkApart(Step, todo[o])
          /\ StepOK(todo[o])
    BY <1>1, <1>11, AtHandApart
  <2> QED
    BY <1>1, <1>4, <1>7, <2>1 DEF Holds, WorkApart, StepOK, BusyOps, k
<1>12. \A i \in 1 .. Len(K) : Fits(K[i], taskStatus, workflowStatus)
  BY <1>2, <1>5, <1>6, <1>7, <1>9 DEF Fits, BusyOps
<1>13. Follows(todo, K, todo') /\ Standing'
  <2>1. /\ \A i \in 1 .. Len(K) : Fits(K[i], taskStatus', workflowStatus')
        /\ \A o \in 2 .. Len(todo) :
             Fits(todo[o], taskStatus', workflowStatus')
        /\ TasksOK(taskStatus', workflowStatus')
    BY <1>1, <1>3, <1>10, <1>12
  <2>2. /\ \A i \in 1 .. Len(K), o \in 2 .. Len(todo) : Apart(K[i], todo[o])
        /\ \A i \in 1 .. Len(K) : K[i].op \notin RuleOps
    BY <1>5, <1>6, <1>7, <1>9, <1>10 DEF RuleOps, Apart, BusyOps
  <2>3. /\ \A i, j \in 1 .. Len(K) : i < j => WorkApart(K[i], K[j])
        /\ \A u : WorkApart(a, u) /\ WorkApart(b, u)
        /\ Holds(a, wst) /\ Holds(b, wst)
    BY <1>5, <1>6, <1>7, <1>9 DEF WorkApart, Holds, BusyOps
  <2>4. Unnamed =>
          /\ \A i \in 1 .. Len(K) : Holds(K[i], workerStatus')
          /\ \A o \in 2 .. Len(todo) : Holds(todo[o], workerStatus')
          /\ \A i, j \in 1 .. Len(K) : i < j => WorkApart(K[i], K[j])
          /\ \A i \in 1 .. Len(K), o \in 2 .. Len(todo) :
               WorkApart(K[i], todo[o])
    BY <1>9, <1>11, <2>3 DEF wst
  <2>5. UNCHANGED <<config, chain>>
    BY <1>1
  <2> QED
    BY <1>1, <1>8, <2>1, <2>2, <2>4, <2>5, StandsAtWork
<1>14. Typed'
  BY <1>1, <1>4 DEF AInv, Typed, wst
<1>15. Duties'
  <2>1. \A kind, x : Pays(todo[1], kind, x) =>
          (kind = "worked" /\ x = t) \/ (kind = "free" /\ x = k)
    BY <1>1, <1>2 DEF Pays, BusyOps, t, k
  <2>2. Pays(K[3], "worked", t) /\ Pays(K[3], "free", k)
    BY <1>7, <1>9 DEF Pays, BusyOps
  <2>3. \A kind \in Kinds, x \in Matters :
          Due(kind, x)' => Due(kind, x) \/ (kind = "free" /\ x = k)
    BY <1>1, <1>4 DEF Due, wst
  <2>4. \A kind \in Kinds, x \in Matters : Due(kind, x)' =>
          \/ Due(kind, x) /\ ~Pays(todo[1], kind, x)
          \/ \E i \in 1 .. Len(K) : Pays(K[i], kind, x)
    BY <1>9, <2>1, <2>2, <2>3
  <2> QED
    BY <1>2, <1>13, <2>4, DutiesCarried
<1> QED
  BY <1>13, <1>14, <1>15 DEF AInv

\* When four can.
LEMMA ReplacesFour ==
  ASSUME NEW s, NEW a, NEW b, NEW c, NEW d,
         StepOK(a), StepOK(b), StepOK(c), StepOK(d),
         b.op \notin HeadOps, c.op \notin HeadOps, d.op \notin HeadOps,
         \A u : Apart(b, u) /\ Apart(c, u) /\ Apart(d, u),
         \A u : u.op \notin BusyOps /\ u.op # "create" /\ u.op # "record" =>
           Apart(a, u),
         \A u \in {b, c, d} :
           u.op \notin BusyOps /\ u.op # "create" /\ u.op # "record",
         \A kind \in Kinds, x \in Matters :
           /\ Needs(a, kind, x) => Needs(s, kind, x)
           /\ Needs(b, kind, x) => Needs(s, kind, x)
           /\ Needs(c, kind, x) => Needs(s, kind, x)
           /\ Needs(d, kind, x) => Needs(s, kind, x)
  PROVE  Replaces(s, <<a, b, c, d>>)
<1> DEFINE K == <<a, b, c, d>>
<1>1. /\ K \in Seq(ToSet(K)) /\ Len(K) = 4
      /\ K[1] = a /\ K[2] = b /\ K[3] = c /\ K[4] = d
  BY Tuples
<1>2. \A i \in 1 .. Len(K) : i = 1 \/ i = 2 \/ i = 3 \/ i = 4
  BY <1>1
<1> HIDE DEF K
<1>3. \A i \in 2 .. Len(K) : K[i] \in {b, c, d}
  BY <1>1
<1>4. ASSUME NEW i \in 1 .. Len(K), NEW j \in 1 .. Len(K), i < j
      PROVE  Apart(K[i], K[j])
  <2>1. K[j] \in {b, c, d}
    <3>1. j \in 2 .. Len(K)
      BY <1>1, <1>4
    <3> QED
      BY <1>3, <3>1
  <2> QED
    BY <1>1, <1>2, <2>1
<1>5. \A i \in 1 .. Len(K) : StepOK(K[i])
  BY <1>1, <1>2
<1>6. ASSUME NEW i \in 1 .. Len(K), NEW kind \in Kinds, NEW x \in Matters,
             Needs(K[i], kind, x)
      PROVE  Needs(s, kind, x)
  BY <1>1, <1>2, <1>6
<1>7. \A i \in 2 .. Len(K) : K[i].op \notin HeadOps
  BY <1>3
<1>8. Replaces(s, K)
  BY <1>1, <1>4, <1>5, <1>6, <1>7 DEF Replaces, IsStack
<1> QED
  BY <1>8 DEF K

\* Whatever the worker returns, its outcome and its release follow.
LEMMA ExecuteKeeps ==
  ASSUME AInv, NEW result, Execute(result)
  PROVE  AInv'
<1> DEFINE t == Step.task
           k == Step.worker
           success == (result = "success")
           a == OutcomeOf(t, success)
           b == Plain("sync_state")
           c == PublishTask("WorkerCompleted", t)
           d == ForWork("release", t, k)
           K == IF result = "raised" THEN <<a, d>> ELSE <<a, b, c, d>>
<1>1. /\ todo # <<>> /\ Step.op = "execute" /\ todo' = Called(K, todo)
      /\ UNCHANGED <<engineVars, fileVars, workerStatus, config, chain>>
  BY DEF Execute, At, Step, Call, Called
<1>2. t \in Tasks /\ k \in Workers /\ taskStatus[t] = "running"
  BY <1>1, AtHand DEF StepOK, TaskOps, Fits, BusyOps
<1>3. success \in BOOLEAN
  OBVIOUS
<1> HIDE DEF t, k, success
<1>4. /\ a.op = "outcome" /\ a.task = t /\ StepOK(a)
      /\ \A kind, x : Needs(a, kind, x) => kind = "synced"
  BY <1>2, <1>3, OutcomeStepFacts
<1>5. /\ b.op = "sync_state" /\ StepOK(b)
      /\ \A kind, x : Needs(b, kind, x) => kind = "synced"
  BY PlainFacts
<1>6. c.op = "publish" /\ StepOK(c) /\ \A kind, x : ~Needs(c, kind, x)
  BY PublishTaskFacts
<1>7. /\ d.op = "release" /\ d.worker = k /\ StepOK(d)
      /\ \A kind, x : ~Needs(d, kind, x)
  BY <1>2, WorkStepFacts
<1> HIDE DEF a, b, c, d
<1>8. \A x : Needs(Step, "synced", x)
  BY <1>1, SyncNeeds DEF SyncOps
<1>9. Replaces(Step, K)
  <2>1. /\ b.op \notin HeadOps /\ c.op \notin HeadOps /\ d.op \notin HeadOps
        /\ \A u : Apart(b, u) /\ Apart(c, u) /\ Apart(d, u)
        /\ \A u \in {b, c, d} :
             u.op \notin BusyOps /\ u.op # "create" /\ u.op # "record"
        /\ \A u : u.op \notin BusyOps /\ u.op # "create" /\ u.op # "record" =>
             Apart(a, u)
    BY <1>4, <1>5, <1>6, <1>7 DEF HeadOps, Apart, BusyOps
  <2>2. Replaces(Step, <<a, d>>)
    BY <1>4, <1>7, <1>8, <2>1, ReplacesTwo
  <2>3. Replaces(Step, <<a, b, c, d>>)
    BY <1>4, <1>5, <1>6, <1>7, <1>8, <2>1, ReplacesFour
  <2> QED
    BY <2>2, <2>3
<1>10. /\ \A i \in 1 .. Len(K) : K[i] \in {a, b, c, d}
       /\ \E i, j \in 1 .. Len(K) : K[i] = a /\ K[j] = d
  <2>1. CASE result = "raised"
    <3>1. Len(K) = 2 /\ K[1] = a /\ K[2] = d
      BY <2>1, Tuples
    <3> HIDE DEF K
    <3> QED
      BY <3>1
  <2>2. CASE result # "raised"
    <3>1. Len(K) = 4 /\ K[1] = a /\ K[2] = b /\ K[3] = c /\ K[4] = d
      BY <2>2, Tuples
    <3> HIDE DEF K
    <3>2. /\ \A i \in 1 .. Len(K) : i = 1 \/ i = 2 \/ i = 3 \/ i = 4
          /\ 1 \in 1 .. Len(K) /\ 4 \in 1 .. Len(K)
      BY <3>1
    <3> QED
      BY <3>1, <3>2
  <2> QED
    BY <2>1, <2>2
<1> HIDE DEF K
<1>11. ASSUME NEW i \in 1 .. Len(K)
       PROVE  /\ Fits(K[i], taskStatus, workflowStatus)
              /\ Holds(K[i], workerStatus)
              /\ K[i].op # "rule_end" /\ K[i].op \notin {"rule", "action"}
              /\ K[i].op \notin BusyOps
  BY <1>2, <1>4, <1>5, <1>6, <1>7, <1>10 DEF Fits, Holds, BusyOps
<1>12. ASSUME NEW i \in 1 .. Len(K), NEW o \in 2 .. Len(todo)
       PROVE  Apart(K[i], todo[o])
  <2>1. Apart(Step, todo[o])
    BY <1>1, AtHandApart
  <2> QED
    BY <1>1, <1>4, <1>5, <1>6, <1>7, <1>10, <2>1 DEF Apart, BusyOps, t
<1>13. \A i, j \in 1 .. Len(K) : i < j => WorkApart(K[i], K[j])
  BY <1>11 DEF WorkApart
<1>14. ASSUME Unnamed, NEW i \in 1 .. Len(K), NEW o \in 2 .. Len(todo)
       PROVE  WorkApart(K[i], todo[o])
  <2>1. WorkApart(Step, todo[o])
    BY <1>1, <1>14, AtHandApart
  <2> QED
    BY <1>1, <1>4, <1>5, <1>6, <1>7, <1>10, <2>1 DEF WorkApart, BusyOps, k
<1>15. ASSUME NEW kind \in Kinds, NEW x \in Matters, Pays(Step, kind, x)
       PROVE  \E i \in 1 .. Len(K) : Pays(K[i], kind, x)
  <2>1. (kind = "worked" /\ x = t) \/ (kind = "free" /\ x = k)
    BY <1>1, <1>15 DEF Pays, BusyOps, t, k
  <2>2. Pays(a, "worked", t) /\ Pays(d, "free", k)
    BY <1>4, <1>7 DEF Pays
  <2> QED
    BY <1>10, <2>1, <2>2
<1> QED
  BY <1>1, <1>9, <1>11, <1>12, <1>13, <1>14, <1>15, CallsOn

\* The worker is free again, and nobody relied on it.
LEMMA ReleaseWorkerKeeps ==
  ASSUME AInv, ReleaseWorker
  PROVE  AInv'
<1> DEFINE k == Step.worker
           wst == workerStatus'
           K == <<>>
<1>1. /\ todo # <<>> /\ Step.op = "release" /\ todo' = Called(K, todo)
      /\ wst = [workerStatus EXCEPT ![k] = "available"]
      /\ UNCHANGED <<taskStatus, workflowStatus, projectState, progressFile,
                     manifest, config, chain>>
  BY DEF ReleaseWorker, At, Step, Return, Call, Called, engineVars, fileVars
<1>2. /\ k \in Workers /\ Step = todo[1] /\ Len(todo) \in Nat \ {0}
  BY <1>1, AtHand DEF StepOK
<1>3. /\ workerStatus \in [Workers -> {"available", "assigned", "executing"}]
      /\ TasksOK(taskStatus, workflowStatus)
  BY DEF AInv, Typed, Standing
<1>4. /\ wst \in [Workers -> {"available", "assigned", "executing"}]
      /\ wst[k] = "available"
      /\ \A y \in Workers \ {k} : wst[y] = workerStatus[y]
  BY <1>1, <1>2, <1>3
<1>5. Replaces(Step, K) /\ Len(K) = 0 /\ \A i \in 1 .. Len(K) : FALSE
  BY NothingReplaces, Tuples
<1> HIDE DEF k, wst, K
<1>6. ASSUME Unnamed, NEW o \in 2 .. Len(todo)
      PROVE  Holds(todo[o], wst)
  <2>1. /\ Holds(todo[o], workerStatus) /\ WorkApart(Step, todo[o])
        /\ StepOK(todo[o]) /\ todo[o].op \notin HeadOps
    BY <1>1, <1>6, AtHandApart
  <2> QED
    BY <1>1, <1>4, <2>1 DEF Holds, WorkApart, StepOK, BusyOps, HeadOps, k
<1>7. Follows(todo, K, todo') /\ Standing'
  <2>1. /\ \A o \in 2 .. Len(todo) :
             Fits(todo[o], taskStatus', workflowStatus')
        /\ TasksOK(taskStatus', workflowStatus')
    BY <1>1, <1>3, AtHandApart
  <2>2. Unnamed => \A o \in 2 .. Len(todo) : Holds(todo[o], workerStatus')
    BY <1>6 DEF wst
  <2>3. UNCHANGED <<config, chain>>
    BY <1>1
  <2> QED
    BY <1>1, <1>5, <2>1, <2>2, <2>3, StandsAtWork
<1>8. Typed'
  BY <1>1, <1>4 DEF AInv, Typed, wst
<1>9. Duties'
  <2>1. \A kind, x : Pays(todo[1], kind, x) => kind = "free" /\ x = k
    BY <1>1, <1>2 DEF Pays, BusyOps, k
  <2>2. \A kind \in Kinds, x \in Matters :
          Due(kind, x)' => Due(kind, x) /\ ~(kind = "free" /\ x = k)
    BY <1>1, <1>4 DEF Due, wst
  <2> QED
    BY <1>2, <1>7, <2>1, <2>2, DutiesCarried
<1> QED
  BY <1>7, <1>8, <1>9 DEF AInv

-----------------------------------------------------------------------------
(* The commands.                                                           *)

\* With nothing left to do nothing is out of order.
LEMMA IdleInOrder ==
  ASSUME AInv, todo = <<>>
  PROVE  \A kind \in Kinds, x \in Matters : ~Due(kind, x)
<1>1. \A i \in 1 .. Len(todo) : FALSE
  BY Tuples
<1> QED
  BY <1>1 DEF AInv, Duties, Paid

\* Steps to begin with, when nothing else is on the stack.
LEMMA Begins ==
  ASSUME NEW K, todo' = K, IsStack(K), Ordered(K),
         AInv, UNCHANGED <<config, chain>>, Typed', Idle,
         TasksOK(taskStatus', workflowStatus'),
         \A i \in 1 .. Len(K) :
           /\ Fits(K[i], taskStatus', workflowStatus')
           /\ K[i].op \notin BusyOps /\ K[i].op # "run"
           /\ K[i].op # "rule_end"
           /\ K[i].op \in {"rule", "action"} => K[i].rule \in Loaded(config),
         \A kind \in Kinds, x \in Matters : Due(kind, x)' => Paid(K, kind, x)
  PROVE  AInv'
<1> DEFINE new == todo'
           ts == taskStatus'
           ws == workflowStatus'
           wst == workerStatus'
           ch == chain'
           rules == Loaded(config')
<1>1. /\ IsStack(new) /\ Ordered(new)
      /\ \A i \in 1 .. Len(new) :
           /\ Fits(new[i], ts, ws)
           /\ new[i].op \notin BusyOps /\ new[i].op # "run"
           /\ new[i].op # "rule_end"
           /\ new[i].op \in {"rule", "action"} => new[i].rule \in rules
  OBVIOUS
<1> HIDE DEF new, ts, ws, wst, ch, rules
<1>2. \A i \in 1 .. Len(new) : Chained(new[i], ch, rules)
  BY <1>1 DEF Chained
<1>3. \A i, j \in 1 .. Len(new) : EndsApart(new[i], new[j], ch)
  BY <1>1 DEF EndsApart
<1>4. \A i \in 1 .. Len(new) : Holds(new[i], wst)
  BY <1>1 DEF Holds
<1>5. \A i, j \in 1 .. Len(new) : WorkApart(new[i], new[j])
  BY <1>1 DEF WorkApart
<1>6. StepsFit' /\ StepsChained' /\ StepsHold'
  BY <1>1, <1>2, <1>3, <1>4, <1>5
  DEF StepsFit, StepsChained, StepsHold, new, ts, ws, wst, ch, rules
<1>7. NoRuleTwice'
  BY DEF AInv, Standing, NoRuleTwice
<1>8. Duties'
  BY DEF Duties
<1>9. TasksOK(taskStatus, workflowStatus)' /\ IsStack(todo)' /\ Ordered(todo)'
  OBVIOUS
<1> QED
  BY <1>6, <1>7, <1>8, <1>9 DEF AInv, Standing

\* A command of one step, behind which the manifest is written.
LEMMA CommandKeeps ==
  ASSUME AInv, NEW s, StepOK(s), s.op \in {"outcome", "dispatch", "transition"},
         Fits(s, taskStatus, workflowStatus),
         \A kind, x : Needs(s, kind, x) => kind = "synced",
         Command(<<s>>), UNCHANGED engineVars
  PROVE  AInv'
<1> DEFINE m == Plain("sync_manifest")
           K == <<s>> \o <<m>>
<1>1. /\ Idle /\ todo' = K
      /\ UNCHANGED <<engineVars, fileVars, workerStatus, config, chain>>
  BY DEF Command
<1>2. m.op = "sync_manifest" /\ StepOK(m) /\ \A kind, x : ~Needs(m, kind, x)
  BY PlainFacts
<1> HIDE DEF m
<1>3. /\ <<s>> \in Seq(ToSet(<<s>>)) /\ Len(<<s>>) = 1
      /\ <<m>> \in Seq(ToSet(<<m>>)) /\ Len(<<m>>) = 1
  BY Tuples
<1>4. Joins(<<s>>, <<m>>, K)
  BY <1>3, Joined
<1> HIDE DEF K
<1>5. K \in Seq(ToSet(K)) /\ Len(K) = 2 /\ K[1] = s /\ K[2] = m
  BY <1>3, <1>4 DEF Joins
<1>6. /\ \A i \in 1 .. Len(K) : i = 1 \/ i = 2
      /\ \A i, j \in 1 .. Len(K) : i < j => i = 1 /\ j = 2
      /\ \A i \in 2 .. Len(K) : i = 2
      /\ 2 \in 1 .. Len(K) /\ 1 < 2
  BY <1>5
<1>7. IsStack(K)
  BY <1>2, <1>5, <1>6 DEF IsStack
<1>8. Ordered(K)
  <2>1. m.op \notin HeadOps /\ Apart(s, m) /\ \A x : Pays(m, "synced", x)
    BY <1>2 DEF HeadOps, Apart, BusyOps, Pays
  <2>2. ASSUME NEW i \in 1 .. Len(K), NEW kind \in Kinds, NEW x \in Matters,
               Needs(K[i], kind, x)
        PROVE  \E j \in 1 .. Len(K) : i < j /\ Pays(K[j], kind, x)
    BY <1>2, <1>5, <1>6, <2>1, <2>2
  <2> QED
    BY <1>5, <1>6, <2>1, <2>2 DEF Ordered
<1>9. Typed' /\ TasksOK(taskStatus', workflowStatus')
  BY <1>1 DEF AInv, Typed, Standing, engineVars, fileVars
<1>10. \A i \in 1 .. Len(K) :
         /\ Fits(K[i], taskStatus', workflowStatus')
         /\ K[i].op \notin BusyOps /\ K[i].op # "run"
         /\ K[i].op # "rule_end" /\ K[i].op \notin {"rule", "action"}
  <2>1. Fits(m, taskStatus', workflowStatus')
    BY <1>2 DEF Fits, BusyOps
  <2>2. Fits(s, taskStatus', workflowStatus')
    BY <1>1 DEF engineVars
  <2> QED
    BY <1>2, <1>5, <1>6, <2>1, <2>2 DEF BusyOps
<1>11. \A kind \in Kinds, x \in Matters : ~Due(kind, x)'
  <2>1. \A kind \in Kinds, x \in Matters : Due(kind, x)' => Due(kind, x)
    BY <1>1 DEF Due, engineVars, fileVars
  <2> QED
    BY <1>1, <2>1, IdleInOrder DEF Idle
<1> QED
  BY <1>1, <1>7, <1>8, <1>9, <1>10, <1>11, Begins

\* A user completes or fails a task.
LEMMA OutcomeCommandKeeps ==
  ASSUME AInv, NEW t \in Tasks, NEW success \in BOOLEAN,
         OutcomeCommand(t, success)
  PROVE  AInv'
<1> DEFINE s == OutcomeOf(t, success)
<1>1. /\ s.op = "outcome" /\ s.task = t /\ StepOK(s)
      /\ \A kind, x : Needs(s, kind, x) => kind = "synced"
  BY OutcomeStepFacts
<1>2. taskStatus[t] = "ready" /\ Command(<<s>>) /\ UNCHANGED engineVars
  BY DEF OutcomeCommand
<1> HIDE DEF s
<1>3. Fits(s, taskStatus, workflowStatus)
  BY <1>1, <1>2 DEF Fits, BusyOps
<1> QED
  BY <1>1, <1>2, <1>3, CommandKeeps

\* A user dispatches a task.
LEMMA DispatchCommandKeeps ==
  ASSUME AInv, NEW t \in Tasks, NEW k \in Workers \cup {NoWorker},
         DispatchCommand(t, k)
  PROVE  AInv'
<1> DEFINE s == DispatchOf(t, k)
<1>1. /\ s.op = "dispatch" /\ StepOK(s)
      /\ \A kind, x : Needs(s, kind, x) => kind = "synced"
  BY DispatchStepFacts
<1>2. Command(<<s>>) /\ UNCHANGED engineVars
  BY DEF DispatchCommand
<1> HIDE DEF s
<1>3. Fits(s, taskStatus, workflowStatus)
  BY <1>1 DEF Fits, BusyOps
<1> QED
  BY <1>1, <1>2, <1>3, CommandKeeps

\* A user moves the project on.
LEMMA TransitionCommandKeeps ==
  ASSUME AInv, NEW target \in ProjectStates, TransitionCommand(target)
  PROVE  AInv'
<1> DEFINE s == TransitionTo(target)
<1>1. /\ s.op = "transition" /\ StepOK(s)
      /\ \A kind, x : Needs(s, kind, x) => kind = "synced"
  BY TargetFacts DEF TransitionTo
<1>2. Command(<<s>>) /\ UNCHANGED engineVars
  BY DEF TransitionCommand
<1> HIDE DEF s
<1>3. Fits(s, taskStatus, workflowStatus)
  BY <1>1 DEF Fits, BusyOps
<1> QED
  BY <1>1, <1>2, <1>3, CommandKeeps

\* `automation run': rules alone, and nothing to be written behind them.
LEMMA RulesBegin ==
  ASSUME AInv, Idle, NEW K, todo' = K, \A s : Replaces(s, K),
         UNCHANGED <<engineVars, fileVars, workerStatus, config, chain>>,
         \A i \in 1 .. Len(K) : K[i].op = "rule" /\ K[i].rule \in Loaded(config)
  PROVE  AInv'
<1>1. /\ IsStack(K) /\ \A i \in 2 .. Len(K) : K[i].op \notin HeadOps
      /\ \A i, j \in 1 .. Len(K) : i < j => Apart(K[i], K[j])
  BY DEF Replaces
<1>2. \A i \in 1 .. Len(K) : \A kind, x : ~Needs(K[i], kind, x)
  BY DEF Needs, SyncOps
<1>3. Ordered(K)
  BY <1>1, <1>2 DEF Ordered
<1>4. Typed' /\ TasksOK(taskStatus', workflowStatus')
  BY DEF AInv, Typed, Standing, engineVars, fileVars
<1>5. \A i \in 1 .. Len(K) :
        /\ Fits(K[i], taskStatus', workflowStatus')
        /\ K[i].op \notin BusyOps /\ K[i].op # "run"
        /\ K[i].op # "rule_end"
  BY DEF Fits, BusyOps
<1>6. \A kind \in Kinds, x \in Matters : ~Due(kind, x)'
  <2>1. \A kind \in Kinds, x \in Matters : Due(kind, x)' => Due(kind, x)
    BY DEF Due, engineVars, fileVars
  <2> QED
    BY <2>1, IdleInOrder DEF Idle
<1> QED
  BY <1>1, <1>3, <1>4, <1>5, <1>6, Begins

\* A user runs a rule.
LEMMA RunRuleCommandKeeps ==
  ASSUME AInv, NEW r \in RuleIds, RunRuleCommand(r)
  PROVE  AInv'
<1> DEFINE a == RunRule(r, CreateEvent(Rule[r].on_event, <<>>))
           K == <<a>>
<1>1. /\ Idle /\ todo' = K /\ r \in Loaded(config)
      /\ UNCHANGED <<engineVars, fileVars, workerStatus, config, chain>>
  BY DEF RunRuleCommand
<1>2. a.op = "rule" /\ a.rule = r /\ a.event.depth \in 0 .. MaxDepth
  BY MaxDepthAssumption DEF RunRule, CreateEvent
<1> HIDE DEF a
<1>3. StepOK(a) /\ \A kind, x : ~Needs(a, kind, x)
  BY <1>2 DEF StepOK, TaskOps, BusyOps, Needs, SyncOps
<1>4. \A s : Replaces(s, K)
  BY <1>3, ReplacesOne
<1>5. \A i \in 1 .. Len(K) : K[i] = a
  BY Tuples
<1> HIDE DEF K
<1> QED
  BY <1>1, <1>2, <1>4, <1>5, RulesBegin

\* A user runs the rules of an event.
LEMMA RunEventCommandKeeps ==
  ASSUME AInv, NEW type, RunEventCommand(type)
  PROVE  AInv'
<1> DEFINE e == CreateEvent(type, <<>>)
           rules == RulesForEvent(config, e)
           K == [i \in DOMAIN rules |-> RunRule(rules[i], e)]
<1>1. /\ Idle /\ todo' = K
      /\ UNCHANGED <<engineVars, fileVars, workerStatus, config, chain>>
  BY DEF RunEventCommand
<1>2. e.depth \in 0 .. MaxDepth /\ config \in AutomationConfigs
  BY MaxDepthAssumption DEF CreateEvent, AInv, Typed
<1>3. /\ \A s : Replaces(s, K)
      /\ \A i \in 1 .. Len(K) : K[i].op = "rule" /\ K[i].rule \in Loaded(config)
  <2> HIDE DEF e
  <2> QED
    BY <1>2, RuleStepsReplace
<1> HIDE DEF K
<1> QED
  BY <1>1, <1>3, RulesBegin

\* A user enables or disables a rule, while nothing is being done.
LEMMA ToggleCommandKeeps ==
  ASSUME AInv, NEW r \in Toggled, NEW flag \in {"on", "off"},
         ToggleCommand(r, flag)
  PROVE  AInv'
<1>1. /\ todo = <<>> /\ todo' = <<>>
      /\ UNCHANGED <<engineVars, fileVars, workerStatus, chain>>
      /\ config' = SaveRuleOverride(config, r, flag)
  BY DEF ToggleCommand, Idle
<1>2. \A i \in 1 .. Len(todo') : FALSE
  BY <1>1, Tuples
<1>3. config' \in AutomationConfigs
  <2>1. r \in RuleIds /\ config \in AutomationConfigs
    BY PluginRulesAssumption DEF AInv, Typed
  <2> QED
    BY <1>1, <2>1 DEF SaveRuleOverride, AutomationConfigs
<1>4. Typed' /\ TasksOK(taskStatus, workflowStatus)' /\ NoRuleTwice'
  BY <1>1, <1>3 DEF AInv, Typed, Standing, NoRuleTwice, engineVars, fileVars
<1>5. IsStack(todo)' /\ Ordered(todo)'
  <2>1. todo' = todo
    BY <1>1
  <2> QED
    BY <2>1 DEF AInv, Standing
<1>6. StepsFit' /\ StepsChained' /\ StepsHold'
  BY <1>2 DEF StepsFit, StepsChained, StepsHold
<1>7. Duties'
  <2>1. \A kind \in Kinds, x \in Matters : Due(kind, x)' => Due(kind, x)
    BY <1>1 DEF Due, engineVars, fileVars
  <2> QED
    BY <1>1, <2>1, IdleInOrder DEF Duties
<1> QED
  BY <1>4, <1>5, <1>6, <1>7 DEF AInv, Standing

\* The tasks of a workflow, one after the other and each of them once.
LEMMA TasksInOrder ==
  ASSUME NEW w, NEW tasks, tasks = SetToSeq(TasksOf(w))
  PROVE  /\ Cardinality(TasksOf(w)) \in Nat
         /\ tasks \in [1 .. Cardinality(TasksOf(w)) -> TasksOf(w)]
         /\ \A i, j \in 1 .. Cardinality(TasksOf(w)) :
              tasks[i] = tasks[j] => i = j
<1> DEFINE S == TasksOf(w)
           n == Cardinality(S)
<1>1. S \in SUBSET Tasks
  BY DEF TasksOf
<1>2. tasks = CHOOSE f \in [1 .. n -> S] : IsInjective(f)
  BY DEF SetToSeq
<1> HIDE DEF S
<1>3. n \in Nat /\ ExistsBijection(1 .. n, S)
  BY <1>1, TasksAssumption, FS_Subset, FS_CardinalityType
<1> HIDE DEF n
<1>4. PICK f \in [1 .. n -> S] : IsInjective(f)
  BY <1>3, Zenon DEF ExistsBijection, Bijection, Injection
<1>5. tasks \in [1 .. n -> S] /\ IsInjective(tasks)
  BY <1>2, <1>4, Zenon
<1>6. \A i, j \in 1 .. n : tasks[i] = tasks[j] => i = j
  BY <1>5 DEF IsInjective
<1> QED
  BY <1>3, <1>5, <1>6 DEF S, n

\* The steps of an activation: its n tasks are created, and six steps follow.
Activates(K, n, w) ==
  /\ n \in Nat /\ K \in Seq(ToSet(K)) /\ Len(K) = n + 6
  /\ \A i \in 1 .. n : K[i].op = "create" /\ K[i].task \in TasksOf(w)
  /\ \A i, j \in 1 .. n : i < j => K[i].task # K[j].task
  /\ \A i \in n + 1 .. n + 6 :
       /\ StepOK(K[i])
       /\ K[i].op \in {"publish", "try_state", "refresh", "sync_state",
                       "persist", "sync_manifest"}
  /\ K[n + 3].op = "refresh" /\ K[n + 3].workflow = w
  /\ K[n + 6].op = "sync_manifest"

\* Sequence k is c, the five elements of m and the one of s.
Assembled(k, c, m, s, n) ==
  /\ k \in Seq(ToSet(k)) /\ Len(k) = n + 6
  /\ \A i \in 1 .. n : k[i] = c[i]
  /\ \A i \in 1 .. 5 : k[n + i] = m[i]
  /\ k[n + 6] = s[1]

\* Three sequences of n, five and one elements, put behind one another.
LEMMA ThreeParts ==
  ASSUME NEW n \in Nat, NEW c, NEW m, NEW s,
         c \in Seq(ToSet(c)), Len(c) = n, m \in Seq(ToSet(m)), Len(m) = 5,
         s \in Seq(ToSet(s)), Len(s) = 1
  PROVE  Assembled((c \o m) \o s, c, m, s, n)
<1> DEFINE p == c \o m
           k == p \o s
<1>1. Joins(c, m, p)
  BY Joined
<1> HIDE DEF p
<1>2. Joins(p, s, k)
  <2>1. p \in Seq(ToSet(p))
    BY <1>1 DEF Joins
  <2> QED
    BY <2>1, Joined
<1> HIDE DEF k
<1>3. Len(p) = n + 5
  BY <1>1 DEF Joins
<1>4. Len(k) = n + 6 /\ k \in Seq(ToSet(k))
  BY <1>2, <1>3 DEF Joins
<1>5. ASSUME NEW i \in 1 .. n
      PROVE  k[i] = c[i]
  <2>1. i \in 1 .. Len(p) /\ p[i] = c[i]
    BY <1>1 DEF Joins
  <2> QED
    BY <1>2, <2>1 DEF Joins
<1>6. ASSUME NEW i \in 1 .. 5
      PROVE  k[n + i] = m[i]
  <2>1. n + i \in 1 .. Len(p) /\ p[n + i] = m[i]
    BY <1>1 DEF Joins
  <2> QED
    BY <1>2, <2>1 DEF Joins
<1>7. k[n + 6] = s[1]
  <2>1. 1 \in 1 .. Len(s) /\ Len(p) + 1 = n + 6
    BY <1>3
  <2> QED
    BY <1>2, <2>1 DEF Joins
<1>8. Assembled(k, c, m, s, n)
  BY <1>4, <1>5, <1>6, <1>7 DEF Assembled
<1> QED
  BY <1>8 DEF k, p

\* The steps an activation begins with are those.
LEMMA ActivationSteps ==
  ASSUME NEW w \in Workflows, NEW tasks, tasks = SetToSeq(TasksOf(w))
  PROVE  Activates(
           ([i \in DOMAIN tasks |-> [op |-> "create", task |-> tasks[i]]]
            \o <<Publish("WorkflowStarted", [workflow_id |-> w]),
                 TryState("planning"), ForWorkflow("refresh", w),
                 Plain("sync_state"), Plain("persist")>>)
           \o <<Plain("sync_manifest")>>,
           Cardinality(TasksOf(w)), w)
<1> DEFINE n == Cardinality(TasksOf(w))
           C == [i \in DOMAIN tasks |-> [op |-> "create", task |-> tasks[i]]]
           a == Publish("WorkflowStarted", [workflow_id |-> w])
           b == TryState("planning")
           c == ForWorkflow("refresh", w)
           d == Plain("sync_state")
           e == Plain("persist")
           f == Plain("sync_manifest")
           M == <<a, b, c, d, e>>
           S == <<f>>
           K == (C \o M) \o S
<1>1. /\ n \in Nat /\ tasks \in [1 .. n -> TasksOf(w)]
      /\ \A i, j \in 1 .. n : tasks[i] = tasks[j] => i = j
  BY TasksInOrder
<1>2. /\ a.op = "publish" /\ StepOK(a) /\ b.op = "try_state" /\ StepOK(b)
      /\ c.op = "refresh" /\ c.workflow = w /\ StepOK(c)
      /\ d.op = "sync_state" /\ StepOK(d) /\ e.op = "persist" /\ StepOK(e)
      /\ f.op = "sync_manifest" /\ StepOK(f)
  BY PublishFacts, PlainFacts, WorkflowStepFacts
  DEF TryState, StepOK, TaskOps, BusyOps, ProjectStates
<1> HIDE DEF n, a, b, c, d, e, f
<1>3. /\ C \in Seq(ToSet(C)) /\ Len(C) = n
      /\ \A i \in 1 .. n : C[i].op = "create" /\ C[i].task = tasks[i]
  <2>1. /\ DOMAIN C = 1 .. n
        /\ \A i \in 1 .. n : C[i].op = "create" /\ C[i].task = tasks[i]
    BY <1>1
  <2>2. C = [i \in 1 .. n |-> C[i]]
    BY <2>1
  <2> HIDE DEF C
  <2>3. C \in [1 .. n -> ToSet(C)]
    BY <2>1, <2>2 DEF ToSet
  <2> QED
    BY <1>1, <2>1, <2>3
<1>4. /\ M \in Seq(ToSet(M)) /\ Len(M) = 5
      /\ M[1] = a /\ M[2] = b /\ M[3] = c /\ M[4] = d /\ M[5] = e
      /\ S \in Seq(ToSet(S)) /\ Len(S) = 1 /\ S[1] = f
  BY Tuples
<1> HIDE DEF C, M, S
<1>5. Assembled(K, C, M, S, n)
  <2>1. n \in Nat /\ C \in Seq(ToSet(C)) /\ Len(C) = n
    BY <1>1, <1>3
  <2>2. M \in Seq(ToSet(M)) /\ Len(M) = 5 /\ S \in Seq(ToSet(S)) /\ Len(S) = 1
    BY <1>4
  <2> QED
    BY <2>1, <2>2, ThreeParts
<1> HIDE DEF K
<1>6. K \in Seq(ToSet(K)) /\ Len(K) = n + 6 /\ K[n + 6] = S[1]
  BY <1>5 DEF Assembled
<1>7. K[n + 6] = f
  BY <1>4, <1>6
<1>8. \A i \in 1 .. n : K[i].op = "create" /\ K[i].task = tasks[i]
  <2>1. \A i \in 1 .. n : K[i] = C[i]
    BY <1>5 DEF Assembled
  <2> QED
    BY <1>3, <2>1
<1>9. \A i \in 1 .. 5 : K[n + i] = M[i]
  BY <1>5 DEF Assembled
<1>10. /\ K[n + 1] = a /\ K[n + 2] = b /\ K[n + 3] = c /\ K[n + 4] = d
       /\ K[n + 5] = e
  <2>1. 1 \in 1 .. 5 /\ 2 \in 1 .. 5 /\ 3 \in 1 .. 5 /\ 4 \in 1 .. 5 /\ 5 \in 1 .. 5
    OBVIOUS
  <2> QED
    BY <1>4, <1>9, <2>1
<1>11. ASSUME NEW i \in n + 1 .. n + 6
       PROVE  \/ i = n + 1 \/ i = n + 2 \/ i = n + 3
              \/ i = n + 4 \/ i = n + 5 \/ i = n + 6
  BY <1>1
<1>12. ASSUME NEW i \in n + 1 .. n + 6
       PROVE  /\ StepOK(K[i])
              /\ K[i].op \in {"publish", "try_state", "refresh", "sync_state",
                              "persist", "sync_manifest"}
  <2>1. \/ i = n + 1 \/ i = n + 2 \/ i = n + 3
        \/ i = n + 4 \/ i = n + 5 \/ i = n + 6
    BY <1>11
  <2>2. K[i] \in {a, b, c, d, e, f}
    BY <1>7, <1>10, <2>1
  <2> QED
    BY <1>2, <2>2
<1>13. \A i \in 1 .. n : tasks[i] \in TasksOf(w)
  BY <1>1
<1>14. \A i, j \in 1 .. n : i < j => K[i].task # K[j].task
  BY <1>1, <1>8
<1>15. /\ n \in Nat /\ K \in Seq(ToSet(K)) /\ Len(K) = n + 6
       /\ \A i \in 1 .. n : K[i].op = "create" /\ K[i].task \in TasksOf(w)
       /\ K[n + 3].op = "refresh" /\ K[n + 3].workflow = w
       /\ K[n + 6].op = "sync_manifest"
  <2>1. n \in Nat /\ K \in Seq(ToSet(K)) /\ Len(K) = n + 6
    BY <1>1, <1>6
  <2>2. \A i \in 1 .. n : K[i].op = "create" /\ K[i].task \in TasksOf(w)
    BY <1>8, <1>13
  <2>3. K[n + 3].op = "refresh" /\ K[n + 3].workflow = w
    BY <1>2, <1>10
  <2>4. K[n + 6].op = "sync_manifest"
    BY <1>2, <1>7
  <2> QED
    BY <2>1, <2>2, <2>3, <2>4
<1>16. Activates(K, n, w)
  BY <1>12, <1>14, <1>15, Zenon DEF Activates
<1> QED
  BY <1>16 DEF n, C, M, S, K, a, b, c, d, e, f

\* A workflow is activated: what its tasks need is on the stack behind them.
LEMMA ActivateCommandKeeps ==
  ASSUME AInv, NEW w \in Workflows, ActivateCommand(w)
  PROVE  AInv'
<1> DEFINE tasks == SetToSeq(TasksOf(w))
           K == ([i \in DOMAIN tasks |->
                    [op |-> "create", task |-> tasks[i]]]
                 \o <<Publish("WorkflowStarted", [workflow_id |-> w]),
                      TryState("planning"), ForWorkflow("refresh", w),
                      Plain("sync_state"), Plain("persist")>>)
                \o <<Plain("sync_manifest")>>
           n == Cardinality(TasksOf(w))
           ts == taskStatus
           ws == workflowStatus'
<1>1. /\ Idle /\ workflowStatus[w] \in Inactive
      /\ ws = [workflowStatus EXCEPT ![w] = "activated"]
      /\ UNCHANGED <<taskStatus, projectState, progressFile, manifest,
                     workerStatus, config, chain>>
  BY DEF ActivateCommand, Command, fileVars
<1>2. todo' = K
  BY DEF ActivateCommand, Command
<1>3. Activates(K, n, w)
  BY ActivationSteps
<1> HIDE DEF K, n
<1>4. /\ n \in Nat /\ K \in Seq(ToSet(K)) /\ Len(K) = n + 6
      /\ \A i \in 1 .. n : K[i].op = "create" /\ K[i].task \in TasksOf(w)
      /\ \A i, j \in 1 .. n : i < j => K[i].task # K[j].task
      /\ K[n + 3].op = "refresh" /\ K[n + 3].workflow = w
      /\ K[n + 6].op = "sync_manifest"
  BY <1>3 DEF Activates
<1>5. \A i \in n + 1 .. n + 6 :
        /\ StepOK(K[i])
        /\ K[i].op \in {"publish", "try_state", "refresh", "sync_state",
                        "persist", "sync_manifest"}
  BY <1>3 DEF Activates
<1>6. \A i \in 1 .. Len(K) : i \in 1 .. n \/ i \in n + 1 .. n + 6
  BY <1>4
<1>7. n + 3 \in 1 .. Len(K) /\ n + 6 \in 1 .. Len(K)
  BY <1>4
<1>8. \A i \in 1 .. n :
        /\ K[i].op = "create" /\ K[i].task \in Tasks
        /\ WorkflowOf[K[i].task] = w
  BY <1>4 DEF TasksOf
<1>9. \A i \in 1 .. n : StepOK(K[i])
  BY <1>8 DEF StepOK, TaskOps, BusyOps
<1>10. IsStack(K)
  BY <1>4, <1>5, <1>6, <1>9 DEF IsStack
<1>11. \A i \in 1 .. Len(K) :
         K[i].op \in {"create", "publish", "try_state", "refresh",
                      "sync_state", "persist", "sync_manifest"}
  BY <1>5, <1>6, <1>8
<1>12. Ordered(K)
  <2>1. \A i \in 2 .. Len(K) : K[i].op \notin HeadOps
    BY <1>4, <1>11 DEF HeadOps
  <2>2. ASSUME NEW i \in 1 .. Len(K), NEW j \in 1 .. Len(K), i < j
        PROVE  Apart(K[i], K[j])
    <3>1. CASE i \in 1 .. n /\ j \in 1 .. n
      <4>1. K[i].task # K[j].task /\ K[i].op = "create" /\ K[j].op = "create"
        BY <1>4, <2>2, <3>1
      <4> QED
        BY <4>1 DEF Apart, BusyOps
    <3>2. CASE i \in n + 1 .. n + 6 \/ j \in n + 1 .. n + 6
      <4>1. /\ K[i].op \notin {"record"} \cup BusyOps
            /\ K[j].op \notin {"record"} \cup BusyOps
            /\ K[i].op # "create" \/ K[j].op # "create"
        BY <1>5, <1>11, <3>2 DEF BusyOps
      <4> QED
        BY <4>1 DEF Apart
    <3> QED
      BY <1>6, <3>1, <3>2
  <2>3. ASSUME NEW i \in 1 .. Len(K), NEW kind \in Kinds, NEW x \in Matters,
               Needs(K[i], kind, x)
        PROVE  \E j \in 1 .. Len(K) : i < j /\ Pays(K[j], kind, x)
    <3>1. CASE kind = "synced"
      <4>1. i # n + 6
        BY <1>4, <2>3, <3>1 DEF Needs, SyncOps
      <4>2. i < n + 6
        BY <1>4, <4>1
      <4>3. Pays(K[n + 6], kind, x)
        BY <1>4, <3>1 DEF Pays
      <4> QED
        BY <1>7, <4>2, <4>3
    <3>2. CASE kind # "synced"
      <4>1. /\ K[i].op = "create"
            /\ kind = "saved" \/ (kind = "fresh" /\ WorkflowOf[K[i].task] = x)
        BY <1>11, <2>3, <3>2 DEF Needs
      <4>2. i \in 1 .. n
        BY <1>5, <1>6, <4>1
      <4>3. i < n + 3
        BY <1>4, <4>2
      <4>4. Pays(K[n + 3], kind, x)
        BY <1>4, <1>8, <4>1, <4>2 DEF Pays
      <4> QED
        BY <1>7, <4>3, <4>4
    <3> QED
      BY <3>1, <3>2
  <2> QED
    BY <2>1, <2>2, <2>3 DEF Ordered
<1>13. /\ taskStatus \in [Tasks -> Live]
       /\ workflowStatus \in [Workflows -> WorkflowStatuses]
       /\ TasksOK(taskStatus, workflowStatus)
  BY DEF AInv, Typed, Standing
<1>14. /\ ws \in [Workflows -> WorkflowStatuses] /\ ws[w] = "activated"
       /\ \A v \in Workflows \ {w} : ws[v] = workflowStatus[v]
  BY <1>1, <1>13 DEF WorkflowStatuses
<1> HIDE DEF ts, ws, tasks
<1>15. Typed'
  BY <1>1, <1>14 DEF AInv, Typed, ws
<1>16. TasksOK(ts, ws)
  BY <1>13, <1>14, WorkflowOfAssumption DEF TasksOK, Inactive, ts
<1>17. ASSUME NEW i \in 1 .. Len(K)
       PROVE  Fits(K[i], ts, ws)
  <2>1. CASE i \in 1 .. n
    <3>1. ts[K[i].task] = "defined"
      BY <1>1, <1>8, <1>13, <2>1 DEF TasksOK, ts
    <3>2. ws[WorkflowOf[K[i].task]] \notin Inactive
      BY <1>8, <1>14, <2>1 DEF Inactive
    <3> QED
      BY <1>8, <2>1, <3>1, <3>2 DEF Fits, BusyOps
  <2>2. CASE i \in n + 1 .. n + 6
    BY <1>5, <2>2 DEF Fits, BusyOps
  <2> QED
    BY <1>6, <2>1, <2>2
<1>18. \A v \in Workflows \ {w} :
         Refreshed(v, ts, workflowStatus) => Refreshed(v, ts, ws)
  BY <1>13, <1>14, ElsewhereRefreshed DEF ts
<1>19. \A kind \in Kinds, x \in Matters :
         Due(kind, x)' => Paid(K, kind, x)
  <2>1. ASSUME NEW kind \in Kinds, NEW x \in Matters, Due(kind, x)'
        PROVE  Paid(K, kind, x)
    <3>1. ~Due(kind, x)
      BY <1>1, IdleInOrder DEF Idle
    <3>2. kind = "saved" \/ (kind = "fresh" /\ x = w)
      BY <1>1, <1>18, <2>1, <3>1 DEF Due, ts, ws
    <3>3. Pays(K[n + 3], kind, x)
      BY <1>4, <3>2 DEF Pays
    <3> QED
      BY <1>7, <3>3 DEF Paid
  <2> QED
    BY <2>1
<1>20. TasksOK(taskStatus', workflowStatus')
  BY <1>1, <1>16 DEF ts, ws
<1>21. \A i \in 1 .. Len(K) :
         /\ Fits(K[i], taskStatus', workflowStatus')
         /\ K[i].op \notin BusyOps /\ K[i].op # "run"
         /\ K[i].op # "rule_end" /\ K[i].op \notin {"rule", "action"}
  <2>1. \A i \in 1 .. Len(K) : Fits(K[i], taskStatus', workflowStatus')
    BY <1>1, <1>17 DEF ts, ws
  <2> QED
    BY <1>11, <2>1 DEF BusyOps
<1> QED
  BY <1>1, <1>2, <1>10, <1>12, <1>15, <1>19, <1>20, <1>21, Begins

-----------------------------------------------------------------------------
(* The invariant.                                                          *)

\* A project nothing has been done in, and nothing is being done.
LEMMA InitAInv ==
  ASSUME Init
  PROVE  AInv
<1>1. /\ taskStatus = [t \in Tasks |-> "defined"]
      /\ workflowStatus = [w \in Workflows |-> "defined"]
      /\ projectState = "created" /\ manifest = "created"
      /\ progressFile = [tasks |-> taskStatus, workflows |-> workflowStatus]
      /\ workerStatus = [k \in Workers |-> "available"]
      /\ config \in [enabled : {TRUE},
                     overrides : {[r \in RuleIds |-> "none"]},
                     rules : RuleFiles]
      /\ chain = <<>> /\ todo = <<>>
  BY DEF Init
<1>2. \A i \in 1 .. Len(todo) : FALSE
  BY <1>1, Tuples
<1>3. \A n \in 1 .. Len(chain) : FALSE
  BY <1>1, Tuples
<1>4. Typed
  <2>1. taskStatus \in [Tasks -> Live]
    BY <1>1 DEF Live, Reached
  <2>2. workflowStatus \in [Workflows -> WorkflowStatuses]
    BY <1>1 DEF WorkflowStatuses
  <2>3. projectState \in ProjectStates /\ manifest \in ProjectStates
    BY <1>1 DEF ProjectStates
  <2>4. progressFile \in [tasks : [Tasks -> TaskStatuses],
                          workflows : [Workflows -> WorkflowStatuses]]
    <3>1. taskStatus \in [Tasks -> TaskStatuses]
      BY <1>1 DEF TaskStatuses
    <3> QED
      BY <1>1, <2>2, <3>1
  <2>5. workerStatus \in [Workers -> {"available", "assigned", "executing"}]
    BY <1>1
  <2>6. config \in AutomationConfigs
    BY <1>1, PluginRulesAssumption DEF AutomationConfigs
  <2>7. chain \in Seq(RuleIds)
    BY <1>1
  <2> QED
    BY <2>1, <2>2, <2>3, <2>4, <2>5, <2>6, <2>7 DEF Typed
<1>5. Standing
  <2>1. TasksOK(taskStatus, workflowStatus)
    BY <1>1 DEF TasksOK
  <2>2. NoRuleTwice
    BY <1>3 DEF NoRuleTwice
  <2>3. IsStack(todo)
    BY <1>1, <1>2, Tuples DEF IsStack
  <2>4. Ordered(todo)
    <3>1. \A i \in 2 .. Len(todo) : FALSE
      BY <1>1, Tuples
    <3> QED
      BY <1>2, <3>1 DEF Ordered
  <2>5. StepsFit /\ StepsChained /\ StepsHold
    BY <1>2 DEF StepsFit, StepsChained, StepsHold
  <2> QED
    BY <2>1, <2>2, <2>3, <2>4, <2>5 DEF Standing
<1>6. Duties
  <2>1. ASSUME NEW w \in Workflows
        PROVE  Refreshed(w, taskStatus, workflowStatus)
    <3>1. workflowStatus[w] \in Inactive
      BY <1>1 DEF Inactive
    <3>2. DeriveWorkflowStatus(w, workflowStatus[w], taskStatus)
            = workflowStatus[w]
      BY <3>1 DEF DeriveWorkflowStatus
    <3>3. /\ taskStatus \in [Tasks -> Live]
          /\ workflowStatus \in [Workflows -> WorkflowStatuses]
      BY <1>4 DEF Typed
    <3> QED
      BY <3>1, <3>2, <3>3, RefreshedMeans
  <2>2. \A x \in Tasks : taskStatus[x] \notin {"completed"} \cup InFlight
    BY <1>1 DEF InFlight
  <2>3. \A x \in Workers : workerStatus[x] = "available"
    BY <1>1
  <2>4. \A kind \in Kinds, x \in Matters : ~Due(kind, x)
    BY <1>1, <1>3, <2>1, <2>2, <2>3 DEF Due
  <2> QED
    BY <2>4 DEF Duties
<1> QED
  BY <1>4, <1>5, <1>6 DEF AInv

\* The steps of the two engines.
LEMMA EngineStepKeeps ==
  ASSUME AInv, EngineStep
  PROVE  AInv'
BY EngineTransitionKeeps, TryStateKeeps, RetryStateKeeps, BeginOutcomeKeeps,
   RecordTaskKeeps, RefreshWorkflowKeeps, CompleteWorkflowKeeps,
   SyncStateKeeps, PersistKeeps, SyncManifestKeeps, CreateTaskKeeps
DEF EngineStep

\* The steps of the dispatcher.
LEMMA DispatchStepKeeps ==
  ASSUME AInv, DispatchStep
  PROVE  AInv'
BY BeginDispatchKeeps, AssignKeeps, MarkRunningKeeps, StartWorkKeeps,
   ExecuteKeeps, ReleaseWorkerKeeps
DEF DispatchStep

\* The steps of the rules.
LEMMA RuleStepKeeps ==
  ASSUME AInv, RuleStep
  PROVE  AInv'
BY PublishEventKeeps, ExecuteRuleKeeps, EndRuleKeeps, PublishActionKeeps,
   TransitionActionKeeps, OutcomeActionKeeps, DispatchActionKeeps,
   OutsideActionKeeps
DEF RuleStep

\* When nothing happens.
LEMMA StutterKeeps ==
  ASSUME AInv, UNCHANGED vars
  PROVE  AInv'
<1>1. /\ UNCHANGED <<taskStatus, workflowStatus, projectState, progressFile,
                     manifest, workerStatus, config, chain>>
      /\ todo' = todo
  BY DEF vars, engineVars, fileVars
<1>2. Typed'
  BY <1>1 DEF AInv, Typed
<1>3. Standing'
  <2>1. StepsFit' /\ StepsChained' /\ StepsHold'
    BY <1>1
    DEF AInv, Standing, StepsFit, StepsChained, StepsHold, Unnamed
  <2>2. NoRuleTwice'
    BY <1>1 DEF AInv, Standing, NoRuleTwice
  <2> QED
    BY <1>1, <2>1, <2>2 DEF AInv, Standing
<1>4. Duties'
  <2>1. \A kind \in Kinds, x \in Matters : Due(kind, x)' => Due(kind, x)
    BY <1>1 DEF Due
  <2>2. \A kind \in Kinds, x \in Matters :
          Paid(todo, kind, x) => Paid(todo', kind, x)
    BY <1>1
  <2> QED
    BY <2>1, <2>2 DEF AInv, Duties
<1> QED
  BY <1>2, <1>3, <1>4 DEF AInv

\* Every step, of a command or of the rules that interrupt it, keeps it.
LEMMA NextKeeps ==
  ASSUME AInv, [Next]_vars
  PROVE  AInv'
<1>1. CASE Proceed
  BY <1>1, EngineStepKeeps, DispatchStepKeeps, RuleStepKeeps DEF Proceed
<1>2. ASSUME NEW w \in Workflows, ActivateCommand(w)
      PROVE  AInv'
  BY <1>2, ActivateCommandKeeps
<1>3. ASSUME NEW t \in Tasks, NEW success \in BOOLEAN,
             OutcomeCommand(t, success)
      PROVE  AInv'
  BY <1>3, OutcomeCommandKeeps
<1>4. ASSUME NEW t \in Tasks, NEW k \in Workers \cup {NoWorker},
             DispatchCommand(t, k)
      PROVE  AInv'
  BY <1>4, DispatchCommandKeeps
<1>5. ASSUME NEW target \in ProjectStates, TransitionCommand(target)
      PROVE  AInv'
  BY <1>5, TransitionCommandKeeps
<1>6. ASSUME NEW r \in RuleIds, RunRuleCommand(r)
      PROVE  AInv'
  BY <1>6, RunRuleCommandKeeps
<1>7. ASSUME NEW type \in EventTypes, RunEventCommand(type)
      PROVE  AInv'
  BY <1>7, RunEventCommandKeeps
<1>8. ASSUME NEW r \in Toggled, NEW flag \in {"on", "off"},
             ToggleCommand(r, flag)
      PROVE  AInv'
  BY <1>8, ToggleCommandKeeps
<1>9. CASE UNCHANGED vars
  BY <1>9, StutterKeeps
<1> QED
  BY <1>1, <1>2, <1>3, <1>4, <1>5, <1>6, <1>7, <1>8, <1>9 DEF Next

(***************************************************************************)
(* Whatever rules a project has, however their actions interrupt the       *)
(* engine, the dispatcher and each other: what is out of order always has  *)
(* a step on the call stack that will see to it, and steps find tasks and  *)
(* workers as they were left for them.                                     *)
(***************************************************************************)
THEOREM AutomationInvariant == Spec => []AInv
<1>1. Init => AInv
  BY InitAInv
<1>2. AInv /\ [Next]_vars => AInv'
  BY NextKeeps
<1> QED
  BY <1>1, <1>2, PTL DEF Spec

(***************************************************************************)
(* Types, and the limit of the depth of events: _should_skip_event and the *)
(* check of the publish_event action keep every event, at whatever depth   *)
(* of the call stack, within MAX_AUTOMATION_DEPTH.                         *)
(***************************************************************************)
THEOREM AutomationTyped == Spec => []AutomationTypeOK
<1>1. AInv => AutomationTypeOK
  <2> SUFFICES ASSUME AInv
               PROVE  AutomationTypeOK
    OBVIOUS
  <2>1. Typed /\ IsStack(todo)
    BY DEF AInv, Standing
  <2>2. taskStatus \in [Tasks -> TaskStatuses]
    BY <2>1 DEF Typed, Live, Reached, TaskStatuses
  <2>3. DOMAIN todo = 1 .. Len(todo)
    BY <2>1, LenProperties DEF IsStack
  <2>4. \A i \in Pending({"publish", "rule"}) :
          todo[i].event.depth \in 0 .. MaxDepth
    BY <2>1, <2>3 DEF Pending, IsStack, StepOK
  <2> QED
    BY <2>1, <2>2, <2>4 DEF Typed, AutomationTypeOK
<1> QED
  BY <1>1, AutomationInvariant, PTL

(***************************************************************************)
(* _active_rule_chain bounds how rules trigger each other: no rule is      *)
(* executed inside itself, every rule on the chain has its end still to    *)
(* come, and with nothing left to do the chain is empty.                   *)
(***************************************************************************)
THEOREM RulesNestBounded == Spec => []NestingBounded
<1>1. AInv => NestingBounded
  <2> SUFFICES ASSUME AInv
               PROVE  NestingBounded
    OBVIOUS
  <2> DEFINE len == Len(chain)
             E == Pending({"rule_end"})
             f == [i \in E |->
                     CHOOSE n \in 1 .. len : chain[n] = todo[i].rule]
  <2>1. /\ IsStack(todo) /\ NoRuleTwice /\ StepsChained /\ Duties
        /\ chain \in Seq(RuleIds)
    BY DEF AInv, Standing, Typed
  <2>2. /\ Len(todo) \in Nat /\ DOMAIN todo = 1 .. Len(todo)
        /\ len \in Nat /\ DOMAIN chain = 1 .. len
        /\ \A n \in 1 .. len : chain[n] \in RuleIds
    BY <2>1, LenProperties DEF IsStack
  <2> HIDE DEF len
  <2>3. \A m, n \in 1 .. len : chain[m] = chain[n] => m = n
    BY <2>1 DEF NoRuleTwice, len
  <2>4. /\ E \subseteq 1 .. Len(todo)
        /\ \A i \in 1 .. Len(todo) : i \in E <=> todo[i].op = "rule_end"
    BY <2>2 DEF Pending
  <2> HIDE DEF E
  <2>5. ASSUME NEW i \in E
        PROVE  f[i] \in 1 .. len /\ chain[f[i]] = todo[i].rule
    <3>1. \E n \in 1 .. len : chain[n] = todo[i].rule
      BY <2>1, <2>4 DEF StepsChained, Chained, len
    <3>2. f[i] = CHOOSE n \in 1 .. len : chain[n] = todo[i].rule
      OBVIOUS
    <3> QED
      BY <3>1, <3>2
  <2>6. f \in [E -> 1 .. len] /\ DOMAIN f = E
    BY <2>5
  <2> HIDE DEF f
  <2>7. ASSUME NEW i \in E, NEW j \in E, i < j
        PROVE  f[i] # f[j]
    <3>1. EndsApart(todo[i], todo[j], chain)
      BY <2>1, <2>4, <2>7 DEF StepsChained
    <3>2. f[j] < f[i]
      BY <2>4, <2>5, <3>1 DEF EndsApart, len
    <3>3. f[i] \in Nat /\ f[j] \in Nat
      BY <2>2, <2>5
    <3> QED
      BY <3>2, <3>3
  <2>8. \A i, j \in E : f[i] = f[j] => i = j
    <3>1. \A i, j \in E : i < j \/ j < i \/ i = j
      BY <2>2, <2>4
    <3> QED
      BY <2>7, <3>1
  <2>9. ASSUME NEW n \in 1 .. len
        PROVE  \E i \in E : f[i] = n
    <3>1. Due("rule", chain[n])
      BY DEF Due, len
    <3>2. "rule" \in Kinds /\ chain[n] \in Matters
      BY <2>2 DEF Kinds, Matters
    <3>3. PICK i \in 1 .. Len(todo) : Pays(todo[i], "rule", chain[n])
      BY <2>1, <3>1, <3>2 DEF Duties, Paid
    <3>4. i \in E /\ todo[i].rule = chain[n]
      BY <2>4, <3>3 DEF Pays
    <3> QED
      BY <2>3, <2>5, <3>4
  <2>10. f \in Bijection(E, 1 .. len)
    <3>1. f \in Injection(E, 1 .. len)
      BY <2>6, <2>8 DEF Injection, IsInjective
    <3>2. f \in Surjection(E, 1 .. len)
      BY <2>6, <2>9, Zenon DEF Surjection
    <3> QED
      BY <3>1, <3>2, Zenon DEF Bijection
  <2>11. Cardinality(E) = len
    <3>1. IsFiniteSet(E)
      BY <2>2, <2>4, IntervalSubset
    <3>2. ExistsBijection(E, 1 .. len)
      BY <2>10, Zenon DEF ExistsBijection
    <3>3. Cardinality(1 .. len) = Cardinality(E)
      BY <3>1, <3>2, FS_Bijection
    <3>4. Cardinality(1 .. len) = len
      BY <2>2, FS_Interval
    <3> QED
      BY <3>3, <3>4
  <2>12. Idle => chain = <<>>
    <3> SUFFICES ASSUME Idle
                 PROVE  chain = <<>>
      OBVIOUS
    <3>1. \A i \in 1 .. Len(todo) : FALSE
      BY Tuples DEF Idle
    <3>2. \A n \in 1 .. len : FALSE
      BY <2>4, <2>9, <3>1
    <3>3. Len(chain) = 0
      BY <2>2, <3>2 DEF len
    <3> QED
      BY <2>1, <3>3, EmptySeq
  <2> QED
    BY <2>2, <2>3, <2>11, <2>12 DEF NestingBounded, E, len
<1> QED
  BY <1>1, AutomationInvariant, PTL

(***************************************************************************)
(* A command that rules interrupted, however deeply, has everything        *)
(* settled when it is through: nothing is left to derive, no outcome half  *)
(* recorded, no task with a worker, no worker held, and both files say     *)
(* what memory says.                                                       *)
(***************************************************************************)
THEOREM CommandsSettle == Spec => []SettledTruthful
<1>1. AInv => SettledTruthful
  <2> SUFFICES ASSUME AInv, todo = <<>>
               PROVE  /\ \A w \in Workflows :
                           /\ RefreshedTasks(w, workflowStatus, taskStatus)
                                = taskStatus
                           /\ RefreshedStatus(w, workflowStatus, taskStatus)
                                = workflowStatus
                      /\ \A t \in Tasks :
                           taskStatus[t] \notin {"completed"} \cup InFlight
                      /\ progressFile = [tasks |-> taskStatus,
                                         workflows |-> workflowStatus]
                      /\ manifest = projectState
                      /\ \A k \in Workers : workerStatus[k] = "available"
    BY DEF SettledTruthful, Idle
  <2>1. \A kind \in Kinds, x \in Matters : ~Due(kind, x)
    BY IdleInOrder
  <2>2. \A w \in Workflows : Refreshed(w, taskStatus, workflowStatus)
    <3>1. "fresh" \in Kinds /\ \A w \in Workflows : w \in Matters
      BY DEF Kinds, Matters
    <3> QED
      BY <2>1, <3>1 DEF Due
  <2>3. \A t \in Tasks : taskStatus[t] \notin {"completed"} \cup InFlight
    <3>1. "recorded" \in Kinds /\ "worked" \in Kinds
      BY DEF Kinds
    <3>2. \A t \in Tasks : t \in Matters
      BY DEF Matters
    <3> QED
      BY <2>1, <3>1, <3>2 DEF Due
  <2>4. /\ progressFile = [tasks |-> taskStatus, workflows |-> workflowStatus]
        /\ manifest = projectState
    <3>1. "saved" \in Kinds /\ "synced" \in Kinds /\ "all" \in Matters
      BY DEF Kinds, Matters
    <3> QED
      BY <2>1, <3>1 DEF Due
  <2>5. \A k \in Workers : workerStatus[k] = "available"
    <3>1. "free" \in Kinds /\ \A k \in Workers : k \in Matters
      BY DEF Kinds, Matters
    <3> QED
      BY <2>1, <3>1 DEF Due
  <2> QED
    BY <2>2, <2>3, <2>4, <2>5 DEF Refreshed
<1> QED
  BY <1>1, AutomationInvariant, PTL

(***************************************************************************)
(* As long as no rule names the worker of a dispatch, select_worker never  *)
(* gives a second task to one that works on the first, however dispatches  *)
(* nest.                                                                   *)
(***************************************************************************)
THEOREM WorkersKeptApart == Spec => []WorkersNotShared
<1>1. AInv => WorkersNotShared
  <2> SUFFICES ASSUME AInv, \A r \in Loaded(config) : NamesNoWorker(r),
                      NEW i \in Pending({"start", "execute"}),
                      NEW j \in Pending({"start", "execute"}),
                      todo[i].worker = todo[j].worker
               PROVE  i = j
    BY DEF WorkersNotShared
  <2>1. Len(todo) \in Nat /\ DOMAIN todo = 1 .. Len(todo)
    BY LenProperties DEF AInv, Standing, IsStack
  <2>2. /\ i \in 1 .. Len(todo) /\ todo[i].op \in BusyOps
        /\ j \in 1 .. Len(todo) /\ todo[j].op \in BusyOps
    BY <2>1 DEF Pending, BusyOps
  <2>3. \A m, n \in 1 .. Len(todo) : m < n => WorkApart(todo[m], todo[n])
    BY DEF AInv, Standing, StepsHold, Unnamed
  <2>4. ~(i < j) /\ ~(j < i)
    BY <2>2, <2>3 DEF WorkApart
  <2> QED
    BY <2>1, <2>2, <2>4
<1> QED
  BY <1>1, AutomationInvariant, PTL

-----------------------------------------------------------------------------
(* The warning of the doctor.                                              *)

\* The rules are finitely many, being listed.
LEMMA RulesFinite == IsFiniteSet(RuleIds)
<1> DEFINE len == Len(RuleOrder)
<1>1. /\ len \in Nat /\ RuleOrder \in [1 .. len -> RuleIds]
      /\ DOMAIN RuleOrder = 1 .. len
  BY RuleOrderAssumption, LenProperties
<1>2. \A r \in RuleIds : \E i \in DOMAIN RuleOrder : RuleOrder[i] = r
  BY DEF RuleIds, ToSet
<1> HIDE DEF len
<1>3. RuleOrder \in Surjection(1 .. len, RuleIds)
  BY <1>1, <1>2, Zenon DEF Surjection
<1>4. IsFiniteSet(1 .. len)
  BY <1>1, FS_Interval
<1> QED
  BY <1>3, <1>4, FS_Surjection

\* What rule r publishes itself is among what its publications lead to.
LEMMA OwnWithin ==
  ASSUME NEW rules, NEW r
  PROVE  Publishes(r) \subseteq EventsWithin(rules, r)
<1> DEFINE published == UNION {Publishes(q) : q \in rules \cup {r}}
<1>1. EventsWithin(rules, r) =
        {type \in published :
           \A types \in SUBSET published :
             LeadTo(rules, r, types) => type \in types}
  BY DEF EventsWithin
<1>2. Publishes(r) \subseteq published
  OBVIOUS
<1> HIDE DEF published
<1>3. \A types : LeadTo(rules, r, types) => Publishes(r) \subseteq types
  BY DEF LeadTo
<1> QED
  BY <1>1, <1>2, <1>3

\* A rule that publishes nothing leads to nothing.
LEMMA SilentWithin ==
  ASSUME NEW rules, NEW r, Publishes(r) = {}
  PROVE  EventsWithin(rules, r) = {}
<1> DEFINE published == UNION {Publishes(q) : q \in rules \cup {r}}
<1>1. EventsWithin(rules, r) =
        {type \in published :
           \A types \in SUBSET published :
             LeadTo(rules, r, types) => type \in types}
  BY DEF EventsWithin
<1> HIDE DEF published
<1>2. LeadTo(rules, r, {}) /\ {} \in SUBSET published
  BY DEF LeadTo
<1> QED
  BY <1>1, <1>2

(***************************************************************************)
(* _detect_circular_triggers counts visited event types, not rules, and    *)
(* starts from what the rule publishes; it still reports every rule that   *)
(* publications lead back to: what that rule publishes is pushed for the   *)
(* rule the walk starts from, and once more when the walk comes back.      *)
(***************************************************************************)
LEMMA CycleReported ==
  ASSUME NEW rules \in SUBSET RuleIds, NEW r \in rules,
         OnPublishCycle(rules, r)
  PROVE  ReportedCircular(rules, r)
<1> DEFINE expanded == EventsWithin(rules, r)
<1>1. Rule[r].on_event \in expanded
  BY DEF OnPublishCycle
<1>2. Publishes(r) # {}
  BY <1>1, SilentWithin
<1>3. PICK type : type \in Publishes(r)
  BY <1>2
<1>4. type \in expanded
  BY <1>3, OwnWithin
<1> DEFINE again == {q \in rules : Rule[q].on_event \in expanded
                                     /\ type \in Publishes(q)}
<1>5. Pushes(rules, r, expanded, type) = Cardinality(again) + 1
  BY <1>3 DEF Pushes
<1> HIDE DEF expanded
<1>6. r \in again /\ again \in SUBSET RuleIds
  BY <1>1, <1>3
<1> HIDE DEF again
<1>7. IsFiniteSet(again)
  BY <1>6, RulesFinite, FS_Subset
<1>8. Cardinality(again) \in Nat /\ Cardinality(again) # 0
  BY <1>6, <1>7, FS_CardinalityType, FS_EmptySet
<1>9. Pushes(rules, r, expanded, type) > 1
  BY <1>5, <1>8
<1> QED
  BY <1>4, <1>9 DEF ReportedCircular, expanded

\* Whatever rules are loaded, the doctor warns of each that is on a cycle.
THEOREM CyclesAreReported == Spec => []CyclesReported
<1>1. AInv => CyclesReported
  <2> SUFFICES ASSUME AInv, NEW r \in Loaded(config),
                      OnPublishCycle(Loaded(config), r)
               PROVE  ReportedCircular(Loaded(config), r)
    BY DEF CyclesReported
  <2>1. Loaded(config) \in SUBSET RuleIds
    BY PluginRulesAssumption DEF AInv, Typed, AutomationConfigs, Loaded
  <2> QED
    BY <2>1, CycleReported
<1> QED
  BY <1>1, AutomationInvariant, PTL

-----------------------------------------------------------------------------
(* The tasks keep the life cycle of TaskLifecycle.                         *)

\* Where a task stands for TaskLifecycle.
Counted(status) == IF status = "completed" THEN "recorded" ELSE status

\* A task that moves forward without being released by it.
MovesOn(ts, t, v, new) ==
  /\ Becomes(ts, t, v, new)
  /\ Counted(v) \in Lifecycle!Successors[Counted(ts[t])]
  /\ v # "ready"

\* One task moves on.
LEMMA MoveIsLifecycleStep ==
  ASSUME taskStatus \in [Tasks -> Live], NEW t \in Tasks, NEW v \in Live,
         MovesOn(taskStatus, t, v, taskStatus')
  PROVE  Lifecycle!Next
<1> DEFINE old == [u \in Tasks |->
                     IF taskStatus[u] = "completed" THEN "recorded"
                     ELSE taskStatus[u]]
           new == [u \in Tasks |->
                     IF taskStatus'[u] = "completed" THEN "recorded"
                     ELSE taskStatus'[u]]
<1>1. /\ \A u \in Tasks : old[u] = Counted(taskStatus[u])
      /\ \A u \in Tasks : new[u] = Counted(taskStatus'[u])
  BY DEF Counted
<1>2. /\ taskStatus' \in [Tasks -> Live] /\ taskStatus'[t] = v
      /\ \A u \in Tasks \ {t} : taskStatus'[u] = taskStatus[u]
      /\ Counted(v) \in Lifecycle!Successors[Counted(taskStatus[t])]
      /\ v # "ready"
  BY DEF MovesOn, Becomes
<1>3. new \in [Tasks -> Lifecycle!Statuses]
  BY <1>2 DEF Live, Reached, Lifecycle!Statuses
<1>4. /\ new[t] \in Lifecycle!Successors[old[t]] /\ new[t] # "ready"
      /\ \A u \in Tasks \ {t} : new[u] = old[u]
  BY <1>1, <1>2 DEF Counted
<1>5. \A u \in Tasks : new[u] = old[u] \/ Lifecycle!Move(u)
  BY <1>4 DEF Lifecycle!Move
<1>6. \A u, x \in Tasks : Lifecycle!Worked(u) /\ Lifecycle!Worked(x) => u = x
  BY <1>4 DEF Lifecycle!Worked
<1> QED
  BY <1>3, <1>5, <1>6 DEF Lifecycle!Next

\* A refresh releases what may be released, and takes nothing back.
LEMMA RefreshIsLifecycleStep ==
  ASSUME AInv, RefreshWorkflow
  PROVE  Lifecycle!Next
<1> DEFINE old == [u \in Tasks |->
                     IF taskStatus[u] = "completed" THEN "recorded"
                     ELSE taskStatus[u]]
           new == [u \in Tasks |->
                     IF taskStatus'[u] = "completed" THEN "recorded"
                     ELSE taskStatus'[u]]
<1>1. taskStatus \in [Tasks -> Live] /\ TasksOK(taskStatus, workflowStatus)
  BY DEF AInv, Typed, Standing
<1>2. taskStatus' = RefreshedTasks(Step.workflow, workflowStatus, taskStatus)
  BY DEF RefreshWorkflow
<1>3. RefreshOf(Step.workflow, workflowStatus, taskStatus, taskStatus')
  BY <1>1, <1>2, RefreshedTasksFacts
<1>4. \A u \in Tasks :
        \/ taskStatus'[u] = taskStatus[u]
        \/ /\ taskStatus[u] = "pending" /\ taskStatus'[u] = "ready"
           /\ DependenciesSatisfied(u, taskStatus')
  BY <1>1, <1>3 DEF RefreshOf, TasksOK
<1>5. new \in [Tasks -> Lifecycle!Statuses]
  BY <1>3 DEF RefreshOf, Live, Reached, Lifecycle!Statuses
<1>6. ASSUME NEW u \in Tasks
      PROVE  new[u] = old[u] \/ Lifecycle!Move(u)
  <2>1. CASE taskStatus'[u] = taskStatus[u]
    BY <2>1
  <2>2. CASE /\ taskStatus[u] = "pending" /\ taskStatus'[u] = "ready"
             /\ DependenciesSatisfied(u, taskStatus')
    <3>1. new[u] \in Lifecycle!Successors[old[u]]
      BY <2>2 DEF Lifecycle!Successors
    <3>2. \A d \in DependsOn[u] : d \in Tasks /\ new[d] = "recorded"
      BY <2>2 DEF DependenciesSatisfied, Done
    <3> QED
      BY <3>1, <3>2 DEF Lifecycle!Move
  <2> QED
    BY <1>4, <2>1, <2>2
<1>7. \A u \in Tasks : ~Lifecycle!Worked(u)
  BY <1>4 DEF Lifecycle!Worked
<1> QED
  BY <1>5, <1>6, <1>7 DEF Lifecycle!Next

\* What TaskLifecycle sees of tasks that stay as they are, or are recorded.
SeenSame(ts, new) == \A u \in Tasks : Counted(new[u]) = Counted(ts[u])

\* The steps of the two engines move a task on, or none.
LEMMA EngineStepLifecycle ==
  ASSUME AInv, EngineStep
  PROVE  Lifecycle!Next \/ SeenSame(taskStatus, taskStatus')
<1>1. taskStatus \in [Tasks -> Live]
  BY DEF AInv, Typed
<1>2. CASE BeginOutcome
  <2> DEFINE t == Step.task
             v == IF Step.success THEN "completed" ELSE "failed"
  <2>1. /\ todo # <<>> /\ Step.op = "outcome"
        /\ taskStatus' = [taskStatus EXCEPT ![t] = v]
    BY <1>2 DEF BeginOutcome, At, Step
  <2>2. t \in Tasks /\ taskStatus[t] \in {"ready", "running"}
    BY <2>1, AtHand DEF StepOK, TaskOps, Fits
  <2>3. v \in {"completed", "failed"} /\ v \in Live
    BY DEF Live, Reached
  <2> HIDE DEF t, v
  <2>4. Becomes(taskStatus, t, v, taskStatus')
    BY <1>1, <2>1, <2>2, <2>3, BecomesExcept
  <2>5. Counted(v) \in Lifecycle!Successors[Counted(taskStatus[t])]
    BY <2>2, <2>3 DEF Counted, Lifecycle!Successors
  <2> QED
    BY <1>1, <2>2, <2>3, <2>4, <2>5, MoveIsLifecycleStep DEF MovesOn
<1>3. CASE CreateTask
  <2> DEFINE t == Step.task
  <2>1. /\ todo # <<>> /\ Step.op = "create"
        /\ taskStatus' = [taskStatus EXCEPT ![t] = "pending"]
    BY <1>3 DEF CreateTask, At, Step
  <2>2. t \in Tasks /\ taskStatus[t] = "defined"
    BY <2>1, AtHand DEF StepOK, TaskOps, Fits
  <2>3. "pending" \in Live
    BY DEF Live, Reached
  <2> HIDE DEF t
  <2>4. Becomes(taskStatus, t, "pending", taskStatus')
    BY <1>1, <2>1, <2>2, <2>3, BecomesExcept
  <2>5. Counted("pending") \in Lifecycle!Successors[Counted(taskStatus[t])]
    BY <2>2 DEF Counted, Lifecycle!Successors
  <2> QED
    BY <1>1, <2>2, <2>3, <2>4, <2>5, MoveIsLifecycleStep DEF MovesOn
<1>4. CASE RecordTask
  <2> DEFINE t == Step.task
  <2>1. /\ todo # <<>> /\ Step.op = "record"
        /\ taskStatus' = [taskStatus EXCEPT ![t] = "recorded"]
    BY <1>4 DEF RecordTask, At, Step
  <2>2. t \in Tasks /\ taskStatus[t] = "completed"
    BY <2>1, AtHand DEF StepOK, TaskOps, Fits
  <2> HIDE DEF t
  <2> QED
    BY <1>1, <2>1, <2>2 DEF SeenSame, Counted
<1>5. CASE RefreshWorkflow
  BY <1>5, RefreshIsLifecycleStep
<1>6. CASE \/ EngineTransition \/ TryStateTransition \/ RetryStateTransition
           \/ CompleteWorkflow \/ SyncState \/ Persist \/ SyncManifest
  <2>1. UNCHANGED taskStatus
    BY <1>6
    DEF EngineTransition, TryStateTransition, RetryStateTransition,
        CompleteWorkflow, SyncState, Persist, SyncManifest, engineVars, progress
  <2> QED
    BY <2>1 DEF SeenSame
<1> QED
  BY <1>2, <1>3, <1>4, <1>5, <1>6 DEF EngineStep

\* So do the steps of the dispatcher: only a ready task is assigned.
LEMMA DispatchStepLifecycle ==
  ASSUME AInv, DispatchStep
  PROVE  Lifecycle!Next \/ SeenSame(taskStatus, taskStatus')
<1>1. taskStatus \in [Tasks -> Live]
  BY DEF AInv, Typed
<1>2. CASE Assign
  <2> DEFINE t == Step.task
  <2>1. /\ todo # <<>> /\ Step.op = "assign"
        /\ \/ UNCHANGED taskStatus
           \/ /\ taskStatus[t] = "ready"
              /\ taskStatus' = [taskStatus EXCEPT ![t] = "dispatched"]
    BY <1>2 DEF Assign, At, Step
  <2>2. t \in Tasks /\ "dispatched" \in Live
    BY <2>1, AtHand DEF StepOK, TaskOps, Live, Reached
  <2> HIDE DEF t
  <2>3. CASE UNCHANGED taskStatus
    BY <2>3 DEF SeenSame
  <2>4. CASE /\ taskStatus[t] = "ready"
             /\ taskStatus' = [taskStatus EXCEPT ![t] = "dispatched"]
    <3>1. Becomes(taskStatus, t, "dispatched", taskStatus')
      BY <1>1, <2>2, <2>4, BecomesExcept
    <3>2. Counted("dispatched") \in Lifecycle!Successors[Counted(taskStatus[t])]
      BY <2>4 DEF Counted, Lifecycle!Successors
    <3> QED
      BY <1>1, <2>2, <3>1, <3>2, MoveIsLifecycleStep DEF MovesOn
  <2> QED
    BY <2>1, <2>3, <2>4
<1>3. CASE MarkRunning
  <2> DEFINE t == Step.task
  <2>1. /\ todo # <<>> /\ Step.op = "run"
        /\ taskStatus' = [taskStatus EXCEPT ![t] = "running"]
    BY <1>3 DEF MarkRunning, At, Step
  <2>2. t \in Tasks /\ taskStatus[t] = "dispatched" /\ "running" \in Live
    BY <2>1, AtHand DEF StepOK, TaskOps, Fits, Live, Reached
  <2> HIDE DEF t
  <2>3. Becomes(taskStatus, t, "running", taskStatus')
    BY <1>1, <2>1, <2>2, BecomesExcept
  <2>4. Counted("running") \in Lifecycle!Successors[Counted(taskStatus[t])]
    BY <2>2 DEF Counted, Lifecycle!Successors
  <2> QED
    BY <1>1, <2>2, <2>3, <2>4, MoveIsLifecycleStep DEF MovesOn
<1>4. CASE \/ BeginDispatch \/ StartWork \/ ReleaseWorker
           \/ \E result \in {"success", "failure", "raised"} : Execute(result)
  <2>1. UNCHANGED taskStatus
    BY <1>4
    DEF BeginDispatch, StartWork, ReleaseWorker, Execute, engineVars, progress
  <2> QED
    BY <2>1 DEF SeenSame
<1> QED
  BY <1>2, <1>3, <1>4 DEF DispatchStep

\* So does every step.
LEMMA NextIsLifecycle ==
  ASSUME AInv, [Next]_vars
  PROVE  Lifecycle!Next \/ SeenSame(taskStatus, taskStatus')
<1>1. CASE EngineStep \/ DispatchStep
  BY <1>1, EngineStepLifecycle, DispatchStepLifecycle
<1>2. CASE RuleStep
  <2>1. UNCHANGED taskStatus
    BY <1>2
    DEF RuleStep, PublishEvent, ExecuteRule, EndRule, PublishAction,
        TransitionAction, OutcomeAction, DispatchAction, OutsideAction,
        engineVars, progress
  <2> QED
    BY <2>1 DEF SeenSame
<1>3. CASE \/ \E w \in Workflows : ActivateCommand(w)
           \/ \E t \in Tasks, success \in BOOLEAN : OutcomeCommand(t, success)
           \/ \E t \in Tasks, k \in Workers \cup {NoWorker} :
                DispatchCommand(t, k)
           \/ \E target \in ProjectStates : TransitionCommand(target)
           \/ \E r \in RuleIds : RunRuleCommand(r)
           \/ \E type \in EventTypes : RunEventCommand(type)
           \/ \E r \in Toggled, flag \in {"on", "off"} : ToggleCommand(r, flag)
  <2>1. UNCHANGED taskStatus
    BY <1>3
    DEF ActivateCommand, OutcomeCommand, DispatchCommand, TransitionCommand,
        RunRuleCommand, RunEventCommand, ToggleCommand, engineVars, progress
  <2> QED
    BY <2>1 DEF SeenSame
<1>4. CASE UNCHANGED vars
  BY <1>4 DEF vars, engineVars, progress, SeenSame
<1> QED
  BY <1>1, <1>2, <1>3, <1>4 DEF Next, Proceed

(***************************************************************************)
(* Tasks keep their life cycle although rules complete, fail and dispatch  *)
(* them in the middle of operations on them: a dispatch that was overtaken *)
(* during ensure_executing does not execute its task a second time.        *)
(***************************************************************************)
THEOREM AutomationImplementsLifecycle == Spec => ImplementsLifecycle
<1>1. Init => Lifecycle!Init
  BY DEF Init, Lifecycle!Init
<1>2. AInv /\ [Next]_vars =>
        [Lifecycle!Next]_([t \in Tasks |->
                             IF taskStatus[t] = "completed" THEN "recorded"
                             ELSE taskStatus[t]])
  <2> SUFFICES ASSUME AInv, [Next]_vars
               PROVE  [Lifecycle!Next]_([t \in Tasks |->
                         IF taskStatus[t] = "completed" THEN "recorded"
                         ELSE taskStatus[t]])
    OBVIOUS
  <2>1. CASE Lifecycle!Next
    BY <2>1
  <2>2. CASE SeenSame(taskStatus, taskStatus')
    <3>1. \A t \in Tasks :
            (IF taskStatus'[t] = "completed" THEN "recorded"
                                             ELSE taskStatus'[t])
            = (IF taskStatus[t] = "completed" THEN "recorded"
                                              ELSE taskStatus[t])
      BY <2>2 DEF SeenSame, Counted
    <3> QED
      BY <3>1
  <2> QED
    BY <2>1, <2>2, NextIsLifecycle
<1> QED
  BY <1>1, <1>2, AutomationInvariant, PTL
  DEF Spec, ImplementsLifecycle, Lifecycle!Spec

=============================================================================
