--------------------------- MODULE BridgeManifest ----------------------------
(***************************************************************************)
(* main/bridge/manifest.toml as the Bridge reads it at the start of every  *)
(* operation (bridge manifest/loader.py, validation/engine.py).            *)
(*                                                                         *)
(* A manifest is [file, keys, workflow, version, layout] with the state of *)
(* the file, the mandatory keys it has, and how its version relates to the *)
(* Bridge's own; [posSource, posTasks] say whether the POS root it points  *)
(* to holds source code and a directory of tasks.                          *)
(***************************************************************************)
EXTENDS PawsFiles

RequiredKeys ==
  {"vespawd.version", "pos.root", "pos.current_task", "pos.handoff",
   "pos.design_gate", "vedaws.project_root", "vedaws.workflow_id",
   "vedaws.cli"}

\* load_manifest; "unreadable" also is a file with a field of the wrong type.
LoadManifest(m) ==
  CASE m.file = "none" -> {"missing_manifest"}
    [] m.file = "unreadable" -> {"invalid_manifest"}
    [] m.file = "toml" -> IF RequiredKeys \subseteq m.keys
                             THEN {} ELSE {"invalid_manifest"}

\* validate_manifest_schema, the end of the load
ValidateSchema(m) ==
  IF m.file = "toml" /\ m.workflow # "software" THEN {"invalid_manifest"} ELSE {}

\* validate_layout, for the Mode of project_context.md: without one nothing is
\* looked at, sources under the POS root neither.
ValidateLayout(m, mode) ==
  IF \/ /\ m.layout = "sidecar"
        /\ mode = "integrated" \/ (mode # NoValue /\ m.posSource)
     \/ m.layout = "integrated" /\ mode = "sidecar"
    THEN {"layout_conflict"} ELSE {}

\* validate_version: the same code for a major and a minor drift.
ValidateVersion(m) ==
  IF m.version = "same" THEN {} ELSE {"version_mismatch"}

\* validate_manifest_integrity
ValidateIntegrity(m) == IF m.posTasks THEN {} ELSE {"invalid_path"}

(***************************************************************************)
(* What keeps the dispatcher from the handler, the first of them only: a   *)
(* minor drift of the version is a warning here ...                        *)
(***************************************************************************)
Refusals(m, mode) ==
  LET loading == LoadManifest(m) \cup ValidateSchema(m) IN
  IF loading # {} THEN loading
  ELSE IF ValidateLayout(m, mode) # {} THEN ValidateLayout(m, mode)
  ELSE IF m.version = "major" THEN ValidateVersion(m)
  ELSE {}

\* ... and one of the codes of bootstrap, which asks the same questions again.
BootstrapCodes(m) == ValidateVersion(m) \cup ValidateIntegrity(m)

=============================================================================
