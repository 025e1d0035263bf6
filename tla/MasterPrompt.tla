---------------------------- MODULE MasterPrompt -----------------------------
(***************************************************************************)
(* How the Executor reads a Master Prompt (executor parse/, startup/       *)
(* trigger.py) and how a phase of the workflow is found for it, by the     *)
(* Executor (phase_hint.py) and again by the Bridge (phase_map.py).        *)
(*                                                                         *)
(* A document is a record: its first heading h1 ("pos", "legacy" or        *)
(* "none"), whether it contains the phrase "execute master prompt" and     *)
(* text before the heading, the titles of its sections in order, and what  *)
(* the section CURRENT TASK and the other sections say.  Of goal and notes *)
(* only the phase they name and the keywords they contain are kept.        *)
(***************************************************************************)
EXTENDS Naturals, Sequences, SequencesExt

CONSTANTS NoGoal, NoPhase

RequiredTitles == <<"brief", "context", "task", "backlog">>

\* EXECUTOR_INSTRUCTIONS_ALIASES
InstructionTitles == {"executor instructions", "cursor instructions"}

\* is_master_prompt, and the heading split_sections needs besides.
Recognized(doc) == doc.h1 # "none" \/ doc.phrase

\* The position of a title's first occurrence: later ones replace its body only.
Position(titles, title) == SelectInSeq(titles, LAMBDA x : x = title)

(***************************************************************************)
(* validate_section_order: the required titles, with the instructions at   *)
(* the end under the name `alias', follow each other.  With both names in  *)
(* a document the code takes the one its set happens to yield first.       *)
(***************************************************************************)
InOrder(titles, alias) ==
  LET expected == Append(RequiredTitles, alias) IN
  /\ ToSet(expected) \subseteq ToSet(titles)
  /\ \A i \in 2 .. Len(expected) :
       Position(titles, expected[i - 1]) < Position(titles, expected[i])

\* parse_current_task: in progress, with a goal and a checkbox to tick.
TaskComplete(task) ==
  /\ task.status = "in_progress"
  /\ task.goal # NoGoal
  /\ task.criteria = "checkboxes"

\* parse_master_prompt returned no error.
Accepted(doc, alias) ==
  /\ Recognized(doc)
  /\ doc.h1 # "none"
  /\ ~doc.preamble
  /\ InOrder(doc.titles, alias)
  /\ TaskComplete(doc.task)

\* parse_backlog_items: the first item of a title counts, structured ones first.
BacklogItems(doc) == {doc.backlog[i].title : i \in DOMAIN doc.backlog}

-----------------------------------------------------------------------------
(* The phase a document is about.                                          *)

\* The order in which the Executor looks for keywords, as whole words.
CanonicalPhases ==
  <<"api-design", "architecture", "scope", "implement", "test", "review",
    "handoff">>

\* The Bridge's order (DEFAULT_PHASE_MAP and the manifest's own tables).
PhaseMap ==
  <<"scope", "architecture", "api-design", "implement", "test", "review",
    "handoff">>

\* The first phase of `order' one of whose keywords is among `found'.
FirstPhase(order, found) ==
  LET i == SelectInSeq(order, LAMBDA p : p \in found) IN
  IF i = 0 THEN NoPhase ELSE order[i]

OrElse(phase, other) == IF phase # NoPhase THEN phase ELSE other

(***************************************************************************)
(* extract_phase_hint: "Vedaws phase: x", else "software.x", else a        *)
(* keyword of the notes, else a keyword of the goal.                       *)
(***************************************************************************)
PhaseHint(task) ==
  OrElse(task.phase,
    OrElse(task.softwareId,
      OrElse(FirstPhase(CanonicalPhases, task.noteWords),
             FirstPhase(CanonicalPhases, task.goalWords))))

(***************************************************************************)
(* resolve_phase: a phase forced by the session, else the hint (which need *)
(* not be a phase of the workflow), else the first keyword that occurs     *)
(* anywhere in goal or notes, within a word too.  `fallback' says that     *)
(* nothing matched.                                                        *)
(***************************************************************************)
ResolvePhase(hint, substrings, force) ==
  LET Found(p) == [phase |-> p, fallback |-> FALSE] IN
  IF force # NoPhase THEN Found(force)
  ELSE IF hint # NoPhase
    THEN [phase |-> hint, fallback |-> hint \notin ToSet(PhaseMap)]
  ELSE IF FirstPhase(PhaseMap, substrings) # NoPhase
    THEN Found(FirstPhase(PhaseMap, substrings))
  ELSE [phase |-> "scope", fallback |-> TRUE]

-----------------------------------------------------------------------------
(* The guard of the Executor's edits (policy/userspace.py).                *)

(***************************************************************************)
(* classify_path, from the root that contains the path; a path below       *)
(* several roots counts as the innermost.  Userspace is wherever the       *)
(* project context says, so a root of the second group may lie in it.      *)
(***************************************************************************)
ForbiddenRoots == {"paws .ai", "main .vedaws", "vedaws", "paws src"}
AllowedRoots ==
  {"project_context.md", "userspace", "main docs", "paws docs",
   "paws design", "paws tasks"}

ClassifyPath(root) ==
  IF root \in ForbiddenRoots THEN "forbidden"
  ELSE IF root \in AllowedRoots THEN "allowed"
  ELSE "unknown"

\* check_changed_paths(...).has_violations
HasViolations(roots) == \E r \in roots : ClassifyPath(r) = "forbidden"

=============================================================================
