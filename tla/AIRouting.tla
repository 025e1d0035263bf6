------------------------------ MODULE AIRouting ------------------------------
(***************************************************************************)
(* How a capability becomes a chain of AI providers (ai/router.py), and    *)
(* what `vedaws ai validate' and the doctor report of the configuration    *)
(* beforehand (ai/validator.py).                                           *)
(*                                                                         *)
(* A configuration is [default, routing]; routing[c] = [preferred,         *)
(* fallback] for the capabilities it mentions. Provider identifiers are    *)
(* numbers in the order of their names, NoProvider where there is none.    *)
(***************************************************************************)
EXTENDS Integers, Sequences, FiniteSets, SequencesExt

CONSTANTS
  Provider,      \* Provider[q]: priority and capabilities of provider q
  NoProvider     \* no provider is configured

ASSUME ProvidersAreNumbers ==
  /\ DOMAIN Provider \subseteq Int /\ IsFiniteSet(DOMAIN Provider)
  /\ \A q \in DOMAIN Provider : Provider[q].priority \in Int

StandardCapabilities ==
  {"chat", "plan", "implement", "review", "summarize", "document", "refactor",
   "explain"}

Supports(q, capability) == capability \in Provider[q].supports

\* What a task without a capability asks for.
NoCapability == "none"

\* resolve_ai_capability: what the task names, else what it is, else the worker's
ResolveCapability(wanted) ==
  LET standard == {i \in DOMAIN wanted : wanted[i] \in StandardCapabilities} IN
  IF standard = {} THEN NoCapability ELSE wanted[Min(standard)]

\* The elements of S in the order of precedes (SortSeq of the TLC module, defined
\* so that it can be reasoned about).
InOrder(S, precedes(_, _)) ==
  CHOOSE s \in [1 .. Cardinality(S) -> S] :
    \A i, j \in 1 .. Cardinality(S) : i < j => precedes(s[i], s[j])

Ascending(S) == InOrder(S, LAMBDA i, j : i < j)

\* Sorting by falling priority keeps the order of names.
Outranks(q, r) ==
  \/ Provider[q].priority > Provider[r].priority
  \/ Provider[q].priority = Provider[r].priority /\ q < r

\* list_providers sorted by falling priority
ByPriority(registered) == InOrder(registered, Outranks)

Configured(config, capability) ==
  IF capability \notin DOMAIN config.routing THEN <<>>
  ELSE LET routing == config.routing[capability] IN
       (IF routing.preferred = NoProvider THEN <<>> ELSE <<routing.preferred>>)
         \o routing.fallback

\* A default provider that is not registered is dropped when the router is built.
DefaultOf(config, registered) ==
  IF config.default \in registered THEN <<config.default>> ELSE <<>>

\* The loop over the identifiers in order: those that were seen, are not
\* registered or lack the capability are passed over.
Usable(ids, registered, capability) ==
  LET kept == {i \in DOMAIN ids :
                 /\ ids[i] \in registered /\ Supports(ids[i], capability)
                 /\ \A j \in 1 .. i - 1 : ids[j] # ids[i]}
  IN [k \in 1 .. Cardinality(kept) |-> ids[Ascending(kept)[k]]]

\* Mutant: a route replaces the other providers.
ResolveChainRouteOnly(config, registered, capability) ==
  Usable(IF capability \in DOMAIN config.routing
           THEN Configured(config, capability)
           ELSE DefaultOf(config, registered) \o ByPriority(registered),
         registered, capability)

\* Mutant: the default provider before the preferred one.
ResolveChainDefaultFirst(config, registered, capability) ==
  Usable(DefaultOf(config, registered)
           \o Configured(config, capability)
           \o ByPriority(registered),
         registered, capability)

ResolveChain(config, registered, capability) ==
  Usable(Configured(config, capability)
           \o DefaultOf(config, registered)
           \o ByPriority(registered),
         registered, capability)

(***************************************************************************)
(* validate_ai_platform, as far as the configuration goes: the entries it  *)
(* has a remark on, or that nothing is registered at all.                  *)
(***************************************************************************)
NothingRegistered == [entry |-> "registry"]

ValidatePlatform(config, registered) ==
  IF registered = {} THEN {NothingRegistered}
  ELSE {[entry |-> "default"] : d \in {config.default} \ (registered \cup {NoProvider})}
       \cup
       {[entry |-> c] : c \in
          {k \in DOMAIN config.routing :
             \E q \in ToSet(Configured(config, k)) :
               q \notin registered \/ ~Supports(q, k)}}

=============================================================================
