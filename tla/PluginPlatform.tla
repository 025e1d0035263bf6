--------------------------- MODULE PluginPlatform ----------------------------
(***************************************************************************)
(* The life of one runtime as far as its plugins are concerned             *)
(* (plugins/platform.py, runtime/bootstrap.py, workers/registry.py,        *)
(* events/bus.py): a command bootstraps, which discovers, selects, loads,  *)
(* initialises and activates the plugins one after the other and wires     *)
(* what they contribute; the `plugins' command edits an activation file;   *)
(* an embedding program shuts the runtime down, a command just ends.       *)
(*                                                                         *)
(* The code of a plugin is external: its import, on_load, register and     *)
(* workers may each raise.                                                 *)
(***************************************************************************)
EXTENDS DependencySearch, FiniteSets

CONSTANTS
  Plugins,        \* identifiers of plugins
  Contributes,    \* Contributes[p]: workers, hears (event types) and providers
  Installations,  \* what may be on disk: manifests, worker manifests, config
  Activations,    \* the activation files there may be at first
  Toggled,        \* the plugins the `plugins' command is used on
  Mocks           \* the workers register_mock_workers registers

ASSUME PluginsAreNumbers == Plugins \subseteq Int /\ IsFiniteSet(Plugins)

Requirement == [id : Int, op : Operators, version : Seq(Nat)]

\* The search path of a machine is one it has; of two manifests for one
\* identifier one comes before the other on it.
ASSUME ManifestsPlaced ==
  \A i \in Installations :
    /\ LoadConfig(i.user, i.project, i.env).plugin_paths \in DOMAIN i.plugins
    /\ \A paths \in DOMAIN i.plugins : \A m, n \in i.plugins[paths] :
         /\ m.id \in Plugins /\ m.place \in Int /\ m.needs \in Seq(Requirement)
         /\ m.id = n.id /\ m.place = n.place => m = n

ActivationFiles == [enabled : SUBSET Int, disabled : SUBSET Int]

ASSUME ActivationsAssumption ==
  /\ Unset \notin ActivationFiles
  /\ Activations \subseteq [{"global", "project"} -> {Unset} \cup ActivationFiles]
  /\ Toggled \subseteq Int

VARIABLES
  installation,   \* the element of Installations this machine has
  files,          \* the activation files, [global, project]
  phase,          \* where the runtime is in its life
  status,         \* status[p]: status of the plugin's record, "absent" if none
  live,           \* live[p]: the record holds an instance of the plugin
  pending,        \* the plugins the start has not come to yet, in their order
  workers,        \* workers[w]: who registered worker w last
  merged,         \* the plugins in the aggregated contributions
  bus,            \* subscriptions of plugins, as pairs of plugin and event type
  heard,          \* who handled an event in the last step, and in which status
  loads           \* loads[p]: returned calls of on_load less calls of on_unload

record == <<status, live, pending>>
effects == <<workers, merged, bus>>
vars == <<installation, files, phase, search, record, effects, heard, loads>>

Statuses ==
  {"absent", "discovered", "disabled", "validated", "failed", "loaded",
   "initialized", "active", "unloaded"}

Phases ==
  {"down", "resolving", "starting", "up", "crashed", "unloading", "stopped"}

-----------------------------------------------------------------------------
Config ==
  LoadConfig(installation.user, installation.project, installation.env)

\* The plugins of the registry.
Known ==
  IF Config.plugins THEN Discovered(installation.plugins[Config.plugin_paths])
  ELSE {}

KnownIds == {m.id : m \in Known}

\* What the activation files, as they are now, make of the plugins.
Activation ==
  MergeActivation(files.global,
                  IF installation.inProject THEN files.project ELSE Unset)

ManifestWorkers ==
  IF Config.workers THEN {m.id : m \in Discovered(installation.workers)} ELSE {}

By(kind, p) == [kind |-> kind, plugin |-> p]

\* register: a worker takes the place of the one that had its identifier.
RegisterWorkers(registry, ids, by) ==
  [w \in DOMAIN registry \cup ids |-> IF w \in ids THEN by ELSE registry[w]]

NoWorkers == [w \in {} |-> By("mock", Unset)]

\* The plugin that has been loaded but not yet activated or given up.
InHand == {p \in Plugins : status[p] \in {"loaded", "initialized"}}

\* Plugins that handle an event of this type if it is published now.
Handling(subscriptions, type, statusThen) ==
  {[plugin |-> p, status |-> statusThen[p], live |-> live[p]] :
     p \in {q \in Plugins : <<q, type>> \in subscriptions}}

Init ==
  /\ installation \in Installations
  /\ files \in Activations
  /\ phase = "down"
  /\ status = [p \in Plugins |-> "absent"]
  /\ live = [p \in Plugins |-> FALSE]
  /\ SearchInit({})
  /\ pending = <<>>
  /\ workers = NoWorkers
  /\ merged = {}
  /\ bus = {}
  /\ heard = {}
  /\ loads = [p \in Plugins |-> 0]

-----------------------------------------------------------------------------
(* The start of a runtime.                                                 *)

\* Without a selection the dependencies of all plugins are examined.
TargetsOf(selected) == IF selected # {} THEN selected ELSE KnownIds

(***************************************************************************)
(* Workers, then discovery, validation and selection.  A dependency that   *)
(* is not there, or not in a version that will do, takes every selected    *)
(* plugin with it; if there is none the search for an order begins.        *)
(***************************************************************************)
StartRuntime ==
  /\ phase = "down"
  /\ LET selected == Selected(Known, Activation)
         targets == TargetsOf(selected)
         refused == \E p \in targets : Unmet(Known, p) # {}
     IN /\ status' = [p \in Plugins |->
             IF p \notin KnownIds THEN "absent"
             ELSE IF refused /\ p \in selected THEN "failed"
             ELSE StatusSelected(ManifestOf(Known, p), Activation)]
        /\ phase' = IF refused THEN "starting" ELSE "resolving"
        /\ BeginSearch(IF refused THEN {} ELSE targets)
  /\ workers' = RegisterWorkers(
                  RegisterWorkers(NoWorkers, ManifestWorkers, By("manifest", Unset)),
                  Mocks, By("mock", Unset))
  /\ heard' = {}
  /\ UNCHANGED <<installation, files, live, pending, merged, bus, loads>>

\* The selected plugins, until the loading begins, and what is searched.
Chosen == {p \in Plugins : status[p] = "validated"}
Targets == TargetsOf(Chosen)

Search ==
  /\ phase = "resolving"
  /\ SearchStep(Known, Targets)
  /\ heard' = {}
  /\ UNCHANGED <<installation, files, phase, record, effects, loads>>

\* A ring fails the selected plugins, all of them.
RefuseRing ==
  /\ phase = "resolving"
  /\ RingFound(Known, Targets)
  /\ phase' = "starting"
  /\ status' = [p \in Plugins |-> IF p \in Chosen THEN "failed" ELSE status[p]]
  /\ BeginSearch({})
  /\ heard' = {}
  /\ UNCHANGED <<installation, files, live, pending, effects, loads>>

\* The order is complete; what is not selected will be passed over.
AcceptOrder ==
  /\ phase = "resolving"
  /\ Exhausted
  /\ phase' = "starting"
  /\ pending' = IF Chosen = {} THEN <<>> ELSE order
  /\ BeginSearch({})
  /\ heard' = {}
  /\ UNCHANGED <<installation, files, status, live, effects, loads>>

Resolve == Search \/ RefuseRing \/ AcceptOrder

\* load_plugin_class: the class, or an error where there is no module, no class
\* or one of another kind; what the module raises is not caught.
LoadResults == {"class", "error", "raises"}

\* _load: an error fails the plugin, an exception ends the bootstrap.
Load(p) ==
  /\ phase = "starting"
  /\ InHand = {}
  /\ pending # <<>> /\ p = Head(pending)
  /\ pending' = Tail(pending)
  /\ \E result \in LoadResults :
       /\ status' = CASE result = "class" -> [status EXCEPT ![p] = "loaded"]
                      [] result = "error" -> [status EXCEPT ![p] = "failed"]
                      [] result = "raises" -> status
       /\ phase' = IF result = "raises" THEN "crashed" ELSE phase
  /\ heard' = {}
  /\ UNCHANGED <<installation, files, search, live, effects, loads>>

\* _initialize
Initialize(p) ==
  /\ phase = "starting"
  /\ status[p] = "loaded"
  /\ \/ /\ status' = [status EXCEPT ![p] = "initialized"]
        /\ live' = [live EXCEPT ![p] = TRUE]
        /\ loads' = [loads EXCEPT ![p] = @ + 1]
     \/ /\ status' = [status EXCEPT ![p] = "failed"]
        /\ UNCHANGED <<live, loads>>
  /\ heard' = {}
  /\ UNCHANGED <<installation, files, phase, search, pending, effects>>

\* _register_event_subscriptions: the same name and type replaces itself.
SubscriptionsOf(p) == {p} \X Contributes[p].hears

\* _activate, when nothing raises
Activate(p) ==
  /\ phase = "starting"
  /\ status[p] = "initialized"
  /\ merged' = merged \cup {p}
  /\ workers' = RegisterWorkers(workers, Contributes[p].workers, By("plugin", p))
  /\ bus' = bus \cup SubscriptionsOf(p)
  /\ status' = [status EXCEPT ![p] = "active"]
  /\ heard' = Handling(bus', "plugin_loaded", status')
                \cup IF Contributes[p].workers = {} THEN {}
                     ELSE Handling(bus, "worker_registered", status)
  /\ UNCHANGED <<installation, files, phase, search, live, pending, loads>>

\* Mutant: the workers are registered before anything is merged.
FailActivationUnmerged(p) ==
  /\ phase = "starting"
  /\ status[p] = "initialized"
  /\ status' = [status EXCEPT ![p] = "failed"]
  /\ \E some \in SUBSET Contributes[p].workers :
       workers' = RegisterWorkers(workers, some, By("plugin", p))
  /\ heard' = {}
  /\ UNCHANGED <<installation, files, phase, search, live, pending, merged, bus,
                 loads>>

(***************************************************************************)
(* _activate, when register raises, or the registration of one of the      *)
(* workers does, before or after it entered the worker: what was merged    *)
(* and registered until then stays.  Subscribing does not raise: it would  *)
(* take an event type that is not the text it is declared to be.           *)
(***************************************************************************)
FailActivation(p) ==
  /\ phase = "starting"
  /\ status[p] = "initialized"
  /\ status' = [status EXCEPT ![p] = "failed"]
  /\ \/ /\ heard' = {}
        /\ UNCHANGED <<workers, merged>>
     \/ \E w \in Contributes[p].workers :
          \E returned \in SUBSET (Contributes[p].workers \ {w}) :
          \E some \in {returned, returned \cup {w}} :
            /\ merged' = merged \cup {p}
            /\ workers' = RegisterWorkers(workers, some, By("plugin", p))
            /\ heard' = IF returned = {} THEN {}
                        ELSE Handling(bus, "worker_registered", status)
  /\ UNCHANGED <<installation, files, phase, search, live, pending, bus, loads>>

\* apply_plugin_configuration: the user's configuration does not fit one of
\* the aggregated schemas.
ConfigurationClashes == merged \cap installation.clashing # {}

\* The end of the bootstrap, which a clash ends without a runtime.
Wire ==
  /\ phase = "starting"
  /\ pending = <<>>
  /\ InHand = {}
  /\ phase' = IF ConfigurationClashes THEN "crashed" ELSE "up"
  /\ heard' = {}
  /\ UNCHANGED <<installation, files, search, record, effects, loads>>

Start ==
  \/ Resolve
  \/ \E p \in Plugins :
       Load(p) \/ Initialize(p) \/ Activate(p) \/ FailActivation(p)
  \/ Wire

-----------------------------------------------------------------------------
(* What follows.                                                           *)

\* The file a `plugins' command edits: the project's, if there is a project.
ActivationPath(useGlobal) ==
  IF ~useGlobal /\ installation.inProject THEN "project" ELSE "global"

\* `vedaws plugins enable', after the bootstrap of the command
EnableCommand(p, useGlobal) ==
  /\ phase = "up"
  /\ files' = [files EXCEPT ![ActivationPath(useGlobal)] = EnablePlugin(@, p)]
  /\ heard' = {}
  /\ UNCHANGED <<installation, phase, search, record, effects, loads>>

\* `vedaws plugins disable'
DisableCommand(p, useGlobal) ==
  /\ phase = "up"
  /\ files' = [files EXCEPT ![ActivationPath(useGlobal)] = DisablePlugin(@, p)]
  /\ heard' = {}
  /\ UNCHANGED <<installation, phase, search, record, effects, loads>>

\* shutdown; the commands of the runtime do not call it.
Shutdown ==
  /\ phase = "up"
  /\ phase' = "unloading"
  /\ heard' = {}
  /\ UNCHANGED <<installation, files, search, record, effects, loads>>

Remaining == {p \in KnownIds : status[p] # "unloaded"}

\* Mutant: a plugin is told before the others hear of it.
UnloadToldFirst(p) ==
  /\ phase = "unloading"
  /\ p \in Remaining
  /\ \A q \in Remaining : p <= q
  /\ status' = [status EXCEPT ![p] = "unloaded"]
  /\ live' = [live EXCEPT ![p] = FALSE]
  /\ loads' = IF live[p] THEN [loads EXCEPT ![p] = @ - 1] ELSE loads
  /\ heard' = IF status[p] = "active"
                THEN Handling(bus, "plugin_unloaded", status') ELSE {}
  /\ bus' = bus \ ({p} \X Contributes[p].hears)
  /\ UNCHANGED <<installation, files, phase, search, pending, workers, merged>>

\* Mutant: only active plugins are told.
UnloadActiveOnly(p) ==
  /\ phase = "unloading"
  /\ p \in Remaining
  /\ \A q \in Remaining : p <= q
  /\ heard' = IF status[p] = "active"
                THEN Handling(bus, "plugin_unloaded", status) ELSE {}
  /\ bus' = bus \ ({p} \X Contributes[p].hears)
  /\ loads' = IF status[p] = "active" THEN [loads EXCEPT ![p] = @ - 1] ELSE loads
  /\ live' = [live EXCEPT ![p] = @ /\ status[p] # "active"]
  /\ status' = [status EXCEPT ![p] = "unloaded"]
  /\ UNCHANGED <<installation, files, phase, search, pending, workers, merged>>

(***************************************************************************)
(* unload_all, one record after the other in the order of identifiers: an  *)
(* active plugin still hears of its own end, then loses its subscriptions  *)
(* and is told.                                                            *)
(***************************************************************************)
Unload(p) ==
  /\ phase = "unloading"
  /\ p \in Remaining
  /\ \A q \in Remaining : p <= q
  /\ heard' = IF status[p] = "active"
                THEN Handling(bus, "plugin_unloaded", status) ELSE {}
  /\ bus' = bus \ ({p} \X Contributes[p].hears)
  /\ loads' = IF live[p] THEN [loads EXCEPT ![p] = @ - 1] ELSE loads
  /\ live' = [live EXCEPT ![p] = FALSE]
  /\ status' = [status EXCEPT ![p] = "unloaded"]
  /\ UNCHANGED <<installation, files, phase, search, pending, workers, merged>>

EndShutdown ==
  /\ phase = "unloading"
  /\ Remaining = {}
  /\ phase' = "stopped"
  /\ heard' = {}
  /\ UNCHANGED <<installation, files, search, record, effects, loads>>

Unloading == (\E p \in Plugins : Unload(p)) \/ EndShutdown

\* The process ends, on its own or killed, or drops the runtime for another.
Leave ==
  /\ phase # "down"
  /\ phase' = "down"
  /\ status' = [p \in Plugins |-> "absent"]
  /\ live' = [p \in Plugins |-> FALSE]
  /\ BeginSearch({})
  /\ pending' = <<>>
  /\ workers' = NoWorkers
  /\ merged' = {}
  /\ bus' = {}
  /\ heard' = {}
  /\ loads' = [p \in Plugins |-> 0]
  /\ UNCHANGED <<installation, files>>

Next ==
  \/ StartRuntime
  \/ Start
  \/ \E p \in Toggled, useGlobal \in BOOLEAN :
       EnableCommand(p, useGlobal) \/ DisableCommand(p, useGlobal)
  \/ Shutdown
  \/ Unloading
  \/ Leave

(***************************************************************************)
(* A start and a shutdown are sequential code: while the process lives     *)
(* they go on. Nothing makes a process begin, end or be killed.            *)
(***************************************************************************)
Fairness == WF_vars(Start) /\ WF_vars(Unloading)

Spec == Init /\ [][Next]_vars /\ Fairness

-----------------------------------------------------------------------------
(* Properties.                                                             *)

SearchTyped == \E targets \in SUBSET Plugins : SearchTypeOK(targets)

\* The values of the state.
PlatformTypeOK ==
  /\ phase \in Phases
  /\ status \in [Plugins -> Statuses]
  /\ live \in [Plugins -> BOOLEAN]
  /\ loads \in [Plugins -> 0 .. 1]
  /\ SearchTyped
  /\ pending \in Seq(Chosen)
  /\ \A p, q \in InHand : p = q
  /\ InHand # {} => phase = "starting"
  /\ merged \subseteq Plugins
  /\ bus \subseteq merged \X UNION {Contributes[p].hears : p \in Plugins}
  /\ \A w \in DOMAIN workers :
       workers[w].kind = "plugin" => workers[w].plugin \in merged

(***************************************************************************)
(* A plugin runs only after the plugins it needs: those of them that are   *)
(* to be activated have had their turn (the order resolve_dependencies     *)
(* finds and PluginPlatform.run follows).                                  *)
(***************************************************************************)
DependenciesFirst ==
  \A p \in Plugins : status[p] \in {"loaded", "initialized", "active"} =>
    Needs(Known, p) \cap ToSet(pending) = {}

(***************************************************************************)
(* The search refuses a selection exactly when plugins of it wait for each *)
(* other, and then all of it; otherwise every selected plugin gets one     *)
(* turn, also one that several others need (visit, PluginPlatform.run).    *)
(***************************************************************************)
RingsRefused ==
  [][phase = "resolving" /\ phase' = "starting" =>
       IF Circular(Known, Chosen)
         THEN pending' = <<>> /\ \A p \in Chosen : status'[p] = "failed"
         ELSE /\ status' = status
              /\ ToSet(pending') = Chosen
              /\ IsInjective(pending')]_vars

(***************************************************************************)
(* Events reach only plugins in service: whoever handles one is active and *)
(* has its instance, and exactly the active plugins are subscribed, at the *)
(* start, in use and while plugins are unloaded one by one (_activate,     *)
(* unload_all).                                                            *)
(***************************************************************************)
HandlersInService ==
  /\ \A h \in heard : h.status = "active" /\ h.live
  /\ bus = UNION {SubscriptionsOf(p) : p \in {q \in Plugins : status[q] = "active"}}

(***************************************************************************)
(* Whatever a start brought to life is unloaded once by a shutdown, also   *)
(* the plugins whose activation failed after on_load (unload_all).         *)
(***************************************************************************)
UnloadsPaired ==
  /\ \A p \in Plugins : loads[p] = IF live[p] THEN 1 ELSE 0
  /\ phase = "stopped" => \A p \in Plugins : loads[p] = 0

\* What turning p on or off does to the next selection.
Scoped(p, useGlobal) ==
  LET path == ActivationPath(useGlobal)
      before == Selected(Known, Activation)
      after == Selected(Known, Activation')
      deniedElsewhere ==
        \E f \in {"global", "project"} \ {path} :
          p \in Entries(files[f]).disabled
  IN /\ EnableCommand(p, useGlobal) =>
          /\ \/ before \ {p} = after \ {p}
             \/ Entries(files[path]).enabled = {}
          /\ ~useGlobal /\ ~deniedElsewhere /\ p \in Selected(Known, NoEntries)
               => p \in after
     /\ DisableCommand(p, useGlobal) =>
          /\ \/ before \ {p} = after \ {p}
             \/ /\ Entries(files[path]).enabled # {}
                /\ Entries(files'[path]).enabled = {}
          /\ p \notin after

(***************************************************************************)
(* Turning one plugin on or off changes what the next start selects for    *)
(* that plugin only, unless that file's allow-list comes or goes with it,  *)
(* and then has the effect it was asked for, unless the manifest is not    *)
(* valid or the other file decides otherwise (enable_plugin,               *)
(* disable_plugin, merge_activation).                                      *)
(***************************************************************************)
ToggleScoped ==
  [][\A p \in Toggled, useGlobal \in BOOLEAN : Scoped(p, useGlobal)]_vars

=============================================================================
