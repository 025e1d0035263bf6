-------------------------- MODULE DependencySearch ---------------------------
(***************************************************************************)
(* The depth-first search that puts plugins in the order in which they are *)
(* loaded (resolve_dependencies of plugins/dependencies.py): visit, called *)
(* on the targets in turn, calls itself on what its plugin needs.          *)
(*                                                                         *)
(* The calls of visit that have not returned are the stack, the latest at  *)
(* its end; how far the loop of a call has come is counted per plugin.     *)
(***************************************************************************)
EXTENDS PluginRules

VARIABLES
  roots,      \* targets the outer loop has not come to
  stack,      \* the plugins whose visit has not returned
  looked,     \* looked[p]: how many of p's dependencies its loop took up
  visiting,   \* plugins met on the way down
  visited,    \* plugins that are done
  order       \* the same, as they were done

search == <<roots, stack, looked, visiting, visited, order>>

SearchTypeOK(targets) ==
  /\ roots \subseteq targets
  /\ stack \in Seq(targets)
  /\ looked \in [targets -> Nat]
  /\ visiting \subseteq targets
  /\ visited \subseteq targets
  /\ order \in Seq(targets)

SearchInit(targets) ==
  /\ roots = targets
  /\ stack = <<>>
  /\ looked = [p \in targets |-> 0]
  /\ visiting = {}
  /\ visited = {}
  /\ order = <<>>

BeginSearch(targets) ==
  /\ roots' = targets
  /\ stack' = <<>>
  /\ looked' = [p \in targets |-> 0]
  /\ visiting' = {}
  /\ visited' = {}
  /\ order' = <<>>

Exhausted == roots = {} /\ stack = <<>>

Top == Last(stack)

\* The loop of the latest call has a dependency left to take up.
Looking(manifests) ==
  /\ stack # <<>>
  /\ looked[Top] < Len(ManifestOf(manifests, Top).needs)

NextNeed(manifests) == ManifestOf(manifests, Top).needs[looked[Top] + 1].id

\* A plugin is met that is being visited already.
RingFound(manifests, targets) ==
  Looking(manifests) /\ NextNeed(manifests) \in targets \cap visiting

-----------------------------------------------------------------------------
\* The first lines of visit, for a plugin that is not yet done.
Descend(p) ==
  /\ stack' = Append(stack, p)
  /\ visiting' = visiting \cup {p}

\* The outer loop takes up the next target, the least one.
VisitRoot(p) ==
  /\ stack = <<>>
  /\ p \in roots
  /\ \A q \in roots : p <= q
  /\ roots' = roots \ {p}
  /\ IF p \in visited THEN UNCHANGED <<stack, visiting>> ELSE Descend(p)
  /\ UNCHANGED <<looked, visited, order>>

\* Mutant: what is done already is looked at again and again.
LookAtNeedAgain(manifests, targets) ==
  /\ Looking(manifests)
  /\ ~RingFound(manifests, targets)
  /\ LET need == NextNeed(manifests) IN
     IF need \in targets \ visited
       THEN Descend(need) /\ looked' = [looked EXCEPT ![Top] = @ + 1]
       ELSE UNCHANGED <<stack, visiting, looked>>
  /\ UNCHANGED <<roots, visited, order>>

\* The loop over the dependencies takes up the next: visit is called on it
\* where it is a target that is not done.
LookAtNeed(manifests, targets) ==
  /\ Looking(manifests)
  /\ ~RingFound(manifests, targets)
  /\ looked' = [looked EXCEPT ![Top] = @ + 1]
  /\ LET need == NextNeed(manifests) IN
     IF need \in targets \ visited THEN Descend(need)
     ELSE UNCHANGED <<stack, visiting>>
  /\ UNCHANGED <<roots, visited, order>>

\* Mutant: a plugin that is done counts as being visited.
FinishVisitStillVisiting(manifests) ==
  /\ stack # <<>>
  /\ ~Looking(manifests)
  /\ visited' = visited \cup {Top}
  /\ order' = Append(order, Top)
  /\ stack' = Front(stack)
  /\ UNCHANGED <<roots, looked, visiting>>

\* Mutant: a plugin comes before those that were done earlier.
FinishVisitReversed(manifests) ==
  /\ stack # <<>>
  /\ ~Looking(manifests)
  /\ visiting' = visiting \ {Top}
  /\ visited' = visited \cup {Top}
  /\ order' = <<Top>> \o order
  /\ stack' = Front(stack)
  /\ UNCHANGED <<roots, looked>>

\* The last lines of visit.
FinishVisit(manifests) ==
  /\ stack # <<>>
  /\ ~Looking(manifests)
  /\ visiting' = visiting \ {Top}
  /\ visited' = visited \cup {Top}
  /\ order' = Append(order, Top)
  /\ stack' = Front(stack)
  /\ UNCHANGED <<roots, looked>>

SearchStep(manifests, targets) ==
  \/ \E p \in roots : VisitRoot(p)
  \/ LookAtNeed(manifests, targets)
  \/ FinishVisit(manifests)

=============================================================================
