----------------------------- MODULE PluginRules -----------------------------
(***************************************************************************)
(* What decides which plugins a runtime activates: the manifests on the    *)
(* search path, the two activation files, the dependencies (plugins/ of    *)
(* the runtime), and the configuration layers that switch the platform     *)
(* (config/).                                                              *)
(*                                                                         *)
(* A manifest is [id, place, parses, complete, entry, version, vedaws,     *)
(* python, security, needs]: the place is its position on the search path, *)
(* complete whether it gives the values it must give, entry whether its    *)
(* entry point has a colon, vedaws and python are the constraints on the   *)
(* runtime, and the needs a sequence of [id, op, version].                 *)
(* Identifiers are numbers in the order in which sorted() puts them; a     *)
(* version is the tuple parse_version makes of it.                         *)
(***************************************************************************)
EXTENDS Integers, SequencesExt

CONSTANTS
  Unset,          \* the value of a key or of a file that is not there
  VedawsVersion,  \* __version__ of the runtime
  PythonVersion   \* the version of the interpreter, three segments

-----------------------------------------------------------------------------
(* Configuration: defaults, user file, project file, environment.          *)

DefaultConfig ==
  [plugins |-> TRUE, workers |-> TRUE, plugin_paths |-> "default"]

(***************************************************************************)
(* A section of a file that is there has a value for each of its keys, the *)
(* default where the file is silent: it overrides the lower layers with it.*)
(* The environment only has the variables that are set.                    *)
(***************************************************************************)
FromMapping(sections) ==
  [k \in DOMAIN DefaultConfig |->
     IF k \notin DOMAIN sections THEN Unset
     ELSE IF sections[k] = Unset THEN DefaultConfig[k] ELSE sections[k]]

FromEnvironment(env) ==
  [k \in DOMAIN DefaultConfig |-> IF k \in DOMAIN env THEN env[k] ELSE Unset]

Merge(base, override) ==
  [k \in DOMAIN base |->
     IF override[k] # Unset THEN override[k] ELSE base[k]]

LoadConfig(user, project, env) ==
  Merge(Merge(Merge(DefaultConfig, FromMapping(user)), FromMapping(project)),
        FromEnvironment(env))

-----------------------------------------------------------------------------
(* Discovery: of several manifests for one identifier the first on the     *)
(* search path counts, the others are reported as duplicates.              *)

Discovered(found) ==
  {m \in found :
     /\ m.parses
     /\ \A other \in found :
          other.parses /\ other.id = m.id => m.place <= other.place}

Duplicates(found) == {m \in found : m.parses} \ Discovered(found)

ManifestOf(manifests, id) == CHOOSE m \in manifests : m.id = id

-----------------------------------------------------------------------------
(* Versions are plain, numbers and dots, and seen as tuples.  Python has   *)
(* a tuple that extends another one as the greater of the two.             *)

Exceeds(v, w) ==
  \/ Len(v) > Len(w) /\ \A i \in DOMAIN w : v[i] = w[i]
  \/ \E i \in DOMAIN v \cap DOMAIN w :
       v[i] > w[i] /\ \A j \in 1 .. i - 1 : v[j] = w[j]

\* the first two segments, or what there is of them
Series(v) == SubSeq(v, 1, IF Len(v) < 2 THEN Len(v) ELSE 2)

\* Without an operator a constraint is one of no content, which every version
\* satisfies, or a text, which a version satisfies that is the same text.
Operators == {">=", "<=", ">", "<", "==", "~=", "any", "text"}

Satisfies(v, op, w) ==
  CASE op = "any" -> TRUE
    [] op = "text" -> v = w
    [] op = ">=" -> ~Exceeds(w, v)
    [] op = "<=" -> ~Exceeds(v, w)
    [] op = ">"  -> Exceeds(v, w)
    [] op = "<"  -> Exceeds(w, v)
    [] op = "==" -> v = w
    [] op = "~=" -> Series(v) = Series(w) /\ ~Exceeds(w, v)

-----------------------------------------------------------------------------
(* Validation.                                                             *)

AllowedPermissions ==
  {"filesystem.read", "filesystem.write", "subprocess.exec", "network.outbound"}

\* validate_security_declaration has nothing to report.
SecurityDeclared(security) ==
  /\ security.permissions \subseteq AllowedPermissions
  /\ security.network \in {"none", "outbound"}
  /\ security.subprocess # {} => "subprocess.exec" \in security.permissions
  /\ security.network = "outbound" =>
       "network.outbound" \in security.permissions

\* validate_manifest has nothing to report.
Valid(m) ==
  /\ m.complete
  /\ m.entry
  /\ Satisfies(VedawsVersion, m.vedaws.op, m.vedaws.version)
  /\ Satisfies(PythonVersion, m.python.op, m.python.version)
  /\ SecurityDeclared(m.security)

-----------------------------------------------------------------------------
(* Activation: an allow-list, empty for "all", and a deny-list, in a       *)
(* global file and in one of the project, which may not exist.             *)

NoEntries == [enabled |-> {}, disabled |-> {}]

Entries(file) == IF file = Unset THEN NoEntries ELSE file

MergeActivation(global, project) ==
  [enabled  |-> IF Entries(project).enabled # {} THEN Entries(project).enabled
                ELSE Entries(global).enabled,
   disabled |-> Entries(global).disabled \cup Entries(project).disabled]

\* Mutant: an entry of the deny-list stays.
EnablePluginStillDenied(file, id) ==
  [Entries(file) EXCEPT !.enabled = @ \cup {id}]

EnablePlugin(file, id) ==
  [enabled  |-> Entries(file).enabled \cup {id},
   disabled |-> Entries(file).disabled \ {id}]

DisablePlugin(file, id) ==
  [enabled  |-> Entries(file).enabled \ {id},
   disabled |-> Entries(file).disabled \cup {id}]

\* The status of a discovered plugin after validation and selection.
StatusSelected(m, activation) ==
  IF m.id \in activation.disabled THEN "disabled"
  ELSE IF activation.enabled # {} /\ m.id \notin activation.enabled
    THEN "discovered"
  ELSE IF Valid(m) THEN "validated" ELSE "failed"

Selected(manifests, activation) ==
  {m.id : m \in {n \in manifests : StatusSelected(n, activation) = "validated"}}

-----------------------------------------------------------------------------
(* Dependencies.                                                           *)

Needs(manifests, id) == {n.id : n \in ToSet(ManifestOf(manifests, id).needs)}

\* What keeps plugin id from the plugins that were discovered.
Unmet(manifests, id) ==
  {n \in ToSet(ManifestOf(manifests, id).needs) :
     \/ n.id \notin {m.id : m \in manifests}
     \/ ~Satisfies(ManifestOf(manifests, n.id).version, n.op, n.version)}

\* A set of plugins each of which waits for one of them.
Circular(manifests, ids) ==
  \E ring \in SUBSET ids :
    ring # {} /\ \A p \in ring : Needs(manifests, p) \cap ring # {}

=============================================================================
