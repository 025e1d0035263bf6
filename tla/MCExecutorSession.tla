-------------------------- MODULE MCExecutorSession --------------------------
(***************************************************************************)
(* One workflow of two tasks, implement and handoff, of which automation   *)
(* serves the second; a second workflow that is never activated.  One      *)
(* prompt is good, one switches the layout, and two are not accepted.      *)
(***************************************************************************)
EXTENDS ExecutorSession

MCTasks == {"implement", "handoff"}
MCTaskOrder == <<"implement", "handoff">>
MCWorkflows == {"software", "default"}
MCWorkflowOf == [t \in MCTasks |-> "software"]
MCDependsOn == [t \in MCTasks |->
                  IF t = "handoff" THEN {"implement"} ELSE {}]

Titles(instructions) == RequiredTitles \o <<instructions>>

CurrentTask(goal) ==
  [status |-> "in_progress", goal |-> goal, criteria |-> "checkboxes",
   phase |-> NoPhase, softwareId |-> NoPhase, noteWords |-> {},
   goalWords |-> {"implement"}, substrings |-> {"implement"}]

GoodPrompt ==
  [h1 |-> "pos", phrase |-> FALSE, preamble |-> FALSE,
   titles |-> Titles("executor instructions"),
   backlog |-> <<[title |-> "later"]>>, task |-> CurrentTask("build"),
   updates |-> [mode |-> NoValue, app |-> NoValue]]

IntegratedPrompt == [GoodPrompt EXCEPT !.updates.mode = "integrated"]
UnfinishedPrompt == [GoodPrompt EXCEPT !.task.criteria = "none"]
DisorderedPrompt ==
  [GoodPrompt EXCEPT !.titles =
     <<"brief", "task", "context", "backlog", "cursor instructions">>]

MCPrompts ==
  {GoodPrompt, IntegratedPrompt, UnfinishedPrompt, DisorderedPrompt}

Report(t, outcome, gate) == [task |-> t, outcome |-> outcome, gate |-> gate]
MCReports ==
  {Report("implement", "completed", TRUE), Report("implement", "failed", TRUE),
   Report("implement", "partial", FALSE), Report("handoff", "completed", FALSE)}

Manifest ==
  [file |-> "toml", keys |-> RequiredKeys, workflow |-> "software",
   version |-> "same", layout |-> "sidecar", posSource |-> FALSE,
   posTasks |-> TRUE]

MCManifests ==
  {Manifest, [Manifest EXCEPT !.file = "none"],
   [Manifest EXCEPT !.version = "minor"],
   [Manifest EXCEPT !.posSource = TRUE, !.posTasks = FALSE]}

MCForcedPhases == {NoPhase}
MCChangedRoots == {{"userspace"}, {"vedaws", "userspace"}}

=============================================================================
