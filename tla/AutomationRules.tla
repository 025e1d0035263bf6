--------------------------- MODULE AutomationRules ---------------------------
(***************************************************************************)
(* Automation rules of the vedaws runtime as data (automation/model.py,    *)
(* conditions.py, config.py, loader.py, registry.py, validator.py): which  *)
(* rules a project has, which of them answer an event, and what the doctor *)
(* says about cycles among them.                                           *)
(*                                                                         *)
(* An event is [type, payload, generated, depth]: the payload a function   *)
(* from keys to values, the other two the metadata automation puts on the  *)
(* events it publishes itself.                                             *)
(***************************************************************************)
EXTENDS Naturals, Sequences, FiniteSets, SequencesExt

CONSTANTS
  RuleOrder,      \* all rule ids, in the order of their names
  Rule,           \* Rule[r]: [on_event, conditions, actions, enabled]
  PluginRules,    \* the rules contributed by active plugins
  RuleFiles,      \* bound: the sets of rules a project file may hold at first
  Toggled,        \* bound: the rules a user enables or disables
  MaxDepth        \* MAX_AUTOMATION_DEPTH (5 in the code)

RuleIds == ToSet(RuleOrder)

ASSUME RuleOrderAssumption == RuleOrder \in Seq(RuleIds)
ASSUME RuleAssumption == DOMAIN Rule = RuleIds
ASSUME PluginRulesAssumption ==
  /\ PluginRules \subseteq RuleIds
  /\ Toggled \subseteq RuleIds
  /\ RuleFiles \subseteq SUBSET (RuleIds \ PluginRules)
ASSUME MaxDepthAssumption == MaxDepth \in Nat

EventTypes ==
  {"TaskCreated", "TaskStarted", "TaskCompleted", "TaskFailed",
   "WorkflowStarted", "WorkflowCompleted", "ProjectStateChanged",
   "WorkerStarted", "WorkerCompleted", "Custom", "Other"}

CreateEvent(type, payload) ==
  [type |-> type, payload |-> payload, generated |-> FALSE, depth |-> 0]

-----------------------------------------------------------------------------
(* .vedaws/automation.toml: the global switch, the per-rule overrides and  *)
(* the project's own rules share one file.                                 *)

AutomationConfigs ==
  [enabled : BOOLEAN,
   overrides : [RuleIds -> {"none", "on", "off"}],
   rules : SUBSET (RuleIds \ PluginRules)]

\* load_all_rules: plugin rules first, then those of the project file.
Loaded(config) == PluginRules \cup config.rules

\* An override wins over the rule's own flag, the global switch over both.
Enabled(config, r) ==
  /\ config.enabled
  /\ IF config.overrides[r] = "none"
       THEN Rule[r].enabled
       ELSE config.overrides[r] = "on"

(***************************************************************************)
(* save_rule_override: the file is written anew from the switch and the    *)
(* overrides; the rules that stood in it are not among what is written.    *)
(***************************************************************************)
SaveRuleOverride(config, r, flag) ==
  [config EXCEPT !.overrides[r] = flag, !.rules = {}]

-----------------------------------------------------------------------------
(* Which rules answer an event.                                            *)

MatchesCondition(e, r) ==
  \A key \in DOMAIN Rule[r].conditions :
    key \in DOMAIN e.payload /\ e.payload[key] = Rule[r].conditions[key]

\* Events the bus hands to the automation engine: attach() subscribes it to
\* every event type that some loaded rule names, enabled or not.
Subscribed(config) == {Rule[r].on_event : r \in Loaded(config)}

\* _should_skip_event
ShouldSkipEvent(e) == e.generated /\ e.depth >= MaxDepth

Answers(config, e, r) ==
  /\ r \in Loaded(config)
  /\ Rule[r].on_event = e.type
  /\ Enabled(config, r)
  /\ MatchesCondition(e, r)

\* The rules run_for_event executes, in registration order: the n-th of them
\* is the one that n of them do not come after.
RulesForEvent(config, e) ==
  LET answering == {i \in DOMAIN RuleOrder : Answers(config, e, RuleOrder[i])}
      Nth(n) == CHOOSE i \in answering :
                  Cardinality({j \in answering : j <= i}) = n
  IN  [n \in 1 .. Cardinality(answering) |-> RuleOrder[Nth(n)]]

-----------------------------------------------------------------------------
(* validate_rules: the warning about circular publish_event triggers.      *)

\* Event types the actions of rule r publish.
Publishes(r) ==
  {a.event : a \in {b \in ToSet(Rule[r].actions) : b.type = "publish_event"}}

Listeners(rules, type) == {r \in rules : Rule[r].on_event = type}

\* Event types `types' with the publications of all that listen to them.
LeadTo(rules, r, types) ==
  /\ Publishes(r) \subseteq types
  /\ \A q \in rules : Rule[q].on_event \in types => Publishes(q) \subseteq types

\* The event types that the publications of rule r lead to: the least such set.
EventsWithin(rules, r) ==
  LET published == UNION {Publishes(q) : q \in rules \cup {r}} IN
  {type \in published :
     \A types \in SUBSET published : LeadTo(rules, r, types) => type \in types}

(***************************************************************************)
(* How often the walk of _detect_circular_triggers puts `type' on its      *)
(* stack when it starts from rule r and expands every event type once: for *)
(* r itself, and for every listener of an expanded type that publishes it. *)
(***************************************************************************)
Pushes(rules, r, expanded, type) ==
  Cardinality({q \in rules : Rule[q].on_event \in expanded
                               /\ type \in Publishes(q)})
  + (IF type \in Publishes(r) THEN 1 ELSE 0)

\* Mutant: the event the rule itself publishes is not counted as visited.
ReportedCircularFromListeners(rules, r) ==
  LET expanded == EventsWithin(rules, r) IN
  \E type \in expanded \ Publishes(r) : Pushes(rules, r, expanded, type) > 1

\* The walk pops a type it has visited before: a warning for rule r.
ReportedCircular(rules, r) ==
  LET expanded == EventsWithin(rules, r) IN
  \E type \in expanded : Pushes(rules, r, expanded, type) > 1

\* What the warning is about: r can trigger itself through publications.
OnPublishCycle(rules, r) == Rule[r].on_event \in EventsWithin(rules, r)

=============================================================================
