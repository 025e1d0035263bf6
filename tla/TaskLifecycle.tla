---------------------------- MODULE TaskLifecycle ----------------------------
(***************************************************************************)
(* What the workflow engine promises about the tasks of a project, without *)
(* workflows, project states, workers or crashes.                          *)
(*                                                                         *)
(* A task only ever moves forward, it is released only once everything it  *)
(* depends on has been recorded, a recorded or failed task is never        *)
(* touched again, and one step works on one task: the others can at most   *)
(* be created or released by it.                                           *)
(***************************************************************************)

CONSTANTS
  Tasks,      \* the tasks of the project
  DependsOn   \* DependsOn[t]: what task t waits for (may name no task at all)

VARIABLE status   \* status[t]: where task t stands

Statuses ==
  {"defined", "pending", "ready", "dispatched", "running", "recorded",
   "failed"}

\* The forward moves of a task.
Successors ==
  [defined    |-> {"pending", "ready"},
   pending    |-> {"ready"},
   ready      |-> {"dispatched", "recorded", "failed"},
   dispatched |-> {"running"},
   running    |-> {"recorded", "failed"},
   recorded   |-> {},
   failed     |-> {}]

Init == status = [t \in Tasks |-> "defined"]

\* Task t moves forward; a release needs every dependency recorded.
Move(t) ==
  /\ status'[t] \in Successors[status[t]]
  /\ status'[t] = "ready" =>
       \A d \in DependsOn[t] : d \in Tasks /\ status'[d] = "recorded"

\* Task t is the one being worked on in this step.
Worked(t) ==
  status[t] \in {"ready", "dispatched", "running"} /\ status'[t] # status[t]

Next ==
  /\ status' \in [Tasks -> Statuses]
  /\ \A t \in Tasks : status'[t] = status[t] \/ Move(t)
  /\ \A t, u \in Tasks : Worked(t) /\ Worked(u) => t = u

Spec == Init /\ [][Next]_status

=============================================================================
