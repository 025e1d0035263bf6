--------------------------- MODULE MCRunUntilIdle ---------------------------
(***************************************************************************)
(* Four tasks for TLC: in `alpha' a2 follows a1; in `beta' b1 needs        *)
(* approval and nobody can do b2.  Two tasks of one workflow and one of    *)
(* the other can be dispatched in one run, which is also its task limit.   *)
(***************************************************************************)
EXTENDS RunUntilIdle

MCWorkflows == {"alpha", "beta"}
MCTasks == {"a1", "a2", "b1", "b2"}
MCWorkflowOf ==
  [t \in MCTasks |-> IF t \in {"a1", "a2"} THEN "alpha" ELSE "beta"]
MCDependsOn == [a1 |-> {}, a2 |-> {"a1"}, b1 |-> {}, b2 |-> {}]
MCRank == [a1 |-> 1, a2 |-> 2, b1 |-> 3, b2 |-> 4]

=============================================================================
