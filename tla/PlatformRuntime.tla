--------------------------- MODULE PlatformRuntime ---------------------------
(***************************************************************************)
(* The plugin platform with the work AI workers do in a runtime that is    *)
(* up: a task is handed to a worker, which asks the providers the active   *)
(* plugins contributed one after the other (workers/ai_worker.py,          *)
(* ai/integration.py).                                                     *)
(***************************************************************************)
EXTENDS PluginPlatform, AIRouting

CONSTANTS
  AIWorkers,    \* AIWorkers[w]: the capability of its own AI worker w has
  Requests      \* what tasks ask for: their AI capability and their capability

\* The configuration mentions providers by their identifiers, known or not.
ASSUME RoutesAssumption ==
  \A i \in Installations : \A c \in DOMAIN i.ai.routing :
    i.ai.routing[c].fallback \in Seq(Int)

VARIABLE task   \* the task at work: chain left, providers asked, result

NoTask ==
  [capability |-> NoCapability, chain |-> <<>>, asked |-> <<>>, result |-> "none"]

(***************************************************************************)
(* build_ai_service: the providers of the active plugins in the order of   *)
(* the plugins, so that the last plugin wins an identifier.                *)
(***************************************************************************)
Providing(q) ==
  {p \in Plugins : status[p] = "active" /\ q \in Contributes[p].providers}

Registered == {q \in DOMAIN Provider : Providing(q) # {}}

OwnerOf(q) == Max(Providing(q))

\* wire_ai_service reaches every AI worker of the registry, whoever it is from.
Bound == {w \in DOMAIN workers : w \in DOMAIN AIWorkers /\ workers[w].kind = "plugin"}

RuntimeInit == Init /\ task = NoTask

(***************************************************************************)
(* execute: without a standard capability, or without a provider, the task *)
(* fails at once.                                                          *)
(***************************************************************************)
BeginTask(w, request) ==
  /\ phase = "up"
  /\ task.result # "running"
  /\ w \in Bound
  /\ LET capability == ResolveCapability(Append(request, AIWorkers[w]))
         chain == IF capability = NoCapability THEN <<>>
                  ELSE ResolveChain(installation.ai, Registered, capability)
     IN task' = [capability |-> capability, chain |-> chain, asked |-> <<>>,
                 result |-> IF chain = <<>> THEN "failure" ELSE "running"]
  /\ UNCHANGED vars

(***************************************************************************)
(* One round of _generate_with_fallback: a provider that raises passes the *)
(* request on, an answer ends it, and an empty answer fails the task.      *)
(***************************************************************************)
Ask(answer) ==
  /\ task.result = "running"
  /\ task' =
       [task EXCEPT
          !.chain = Tail(@),
          !.asked = Append(@, Head(task.chain)),
          !.result =
            CASE answer = "content" -> "success"
              [] answer = "empty"   -> "empty"
              [] answer = "raises"  -> IF Len(task.chain) = 1 THEN "failure"
                                       ELSE "running"]
  /\ UNCHANGED vars

Answers == {"content", "empty", "raises"}

Work ==
  \/ \E w \in DOMAIN AIWorkers, request \in Requests : BeginTask(w, request)
  \/ \E answer \in Answers : Ask(answer)

\* A task is part of the command: the platform moves between tasks only,
\* unless the process dies.
Platform ==
  \/ Next /\ task.result # "running" /\ task' = NoTask
  \/ Leave /\ task' = NoTask

RuntimeNext == Work \/ Platform

rvars == <<vars, task>>

RuntimeSpec ==
  /\ RuntimeInit /\ [][RuntimeNext]_rvars
  /\ WF_rvars(Start /\ task' = NoTask)
  /\ WF_rvars(Unloading /\ task' = NoTask)
  /\ WF_rvars(\E answer \in Answers : Ask(answer))

-----------------------------------------------------------------------------
(* Properties.                                                             *)

(***************************************************************************)
(* A task with a capability fails for want of an answer only after every   *)
(* registered provider with it was asked, each once, the configured ones   *)
(* first; and it was asked of active plugins only (resolve_chain,          *)
(* _generate_with_fallback).                                               *)
(***************************************************************************)
FallbackExhaustive ==
  LET able == {q \in Registered : Supports(q, task.capability)}
      asked == ToSet(task.asked)
      configured == ToSet(Configured(installation.ai, task.capability))
  IN /\ asked \subseteq able
     /\ Cardinality(asked) = Len(task.asked)
     /\ task.result = "failure" /\ task.capability # NoCapability => asked = able
     /\ asked \ configured # {} => able \cap configured \subseteq asked

(***************************************************************************)
(* Where validation of the AI configuration has no remark on a capability, *)
(* the preferred provider is the one that is asked first                   *)
(* (validate_ai_platform, resolve_chain).                                  *)
(***************************************************************************)
ValidatedRoutesUsed ==
  phase = "up" =>
    LET remarks == ValidatePlatform(installation.ai, Registered) IN
    \A c \in DOMAIN installation.ai.routing :
      LET preferred == installation.ai.routing[c].preferred IN
      /\ NothingRegistered \notin remarks
      /\ [entry |-> c] \notin remarks
      /\ preferred # NoProvider
      => Head(ResolveChain(installation.ai, Registered, c)) = preferred

(***************************************************************************)
(* A start comes to an end, whatever depends on what and whatever fails,   *)
(* and so does a shutdown (PluginPlatform.run, unload_all).                *)
(***************************************************************************)
StartsSettle ==
  /\ phase \in {"resolving", "starting"} ~> phase \in {"up", "crashed", "down"}
  /\ phase = "unloading" ~> phase \in {"stopped", "down"}

=============================================================================
