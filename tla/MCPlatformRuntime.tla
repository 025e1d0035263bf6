-------------------------- MODULE MCPlatformRuntime --------------------------
(***************************************************************************)
(* Three plugins. On some machines they depend on each other in a line, in *)
(* a ring, or on a version nobody has; on others a manifest is there       *)
(* twice, is not valid or does not parse; the project's configuration file *)
(* mentions a section the user's file has switched off.                    *)
(***************************************************************************)
EXTENDS PlatformRuntime

MCPlugins == 1 .. 3
MCVedawsVersion == <<0, 5, 0>>
MCPythonVersion == <<3, 11, 4>>
MCMocks == {"mock"}

MCContributes ==
  <<[workers |-> {"writer", "mock"}, hears |-> {"plugin_loaded", "worker_registered"},
     providers |-> {1, 2}],
    [workers |-> {"writer"}, hears |-> {"plugin_unloaded"}, providers |-> {2, 3}],
    [workers |-> {"painter"}, hears |-> {"plugin_loaded", "plugin_unloaded"},
     providers |-> {3}]>>

Need(id, op, version) == [id |-> id, op |-> op, version |-> version]

NoSecurity == [permissions |-> {}, network |-> "none", subprocess |-> {}]

Manifest(id, place, version, needs) ==
  [id |-> id, place |-> place, parses |-> TRUE, complete |-> TRUE,
   entry |-> TRUE, version |-> version,
   vedaws |-> Need("vedaws", ">=", <<0, 1, 0>>),
   python |-> Need("python", ">=", <<3, 11>>),
   security |-> NoSecurity, needs |-> needs]

Broken(id, place) == [Manifest(id, place, <<0, 1>>, <<>>) EXCEPT !.parses = FALSE]

\* 1 needs 3 and 2, 3 needs 2; an older 2 and an unreadable 1 come in other
\* places.
Line ==
  {Manifest(2, 2, <<0, 2, 1>>, <<>>), Manifest(2, 5, <<0, 1>>, <<>>),
   Broken(1, 1), Manifest(3, 3, <<1, 0>>, <<Need(2, "~=", <<0, 2>>)>>),
   Manifest(1, 4, <<0, 1>>, <<Need(3, ">=", <<1>>), Need(2, "any", <<>>)>>)}

\* 1 and 3 need each other; 2 stands alone.
Ring ==
  {Manifest(1, 1, <<0, 1>>, <<Need(3, "==", <<0, 1>>)>>),
   Manifest(2, 2, <<0, 1>>, <<>>),
   Manifest(3, 3, <<0, 1>>, <<Need(1, "<=", <<0, 1>>)>>)}

\* 2 wants more of 1 than there is; 3 is not valid.
Unfit ==
  {Manifest(1, 1, <<1, 0>>, <<>>),
   Manifest(2, 2, <<0, 1>>, <<Need(1, ">=", <<1, 0, 0>>)>>),
   [Manifest(3, 3, <<0, 1>>, <<Need(1, "<", <<2>>)>>)
      EXCEPT !.security.network = "outbound"]}

\* No dependencies; 3 is not installed.
Pair ==
  {Manifest(1, 1, <<0, 1>>, <<>>),
   [Manifest(2, 2, <<0, 1>>, <<>>)
      EXCEPT !.security = [permissions |-> {"subprocess.exec"},
                           network |-> "none", subprocess |-> {"git"}]]}

Keys == {"plugins", "workers", "plugin_paths"}
Silent == [k \in {} |-> Unset]
Section == [plugins |-> Unset, plugin_paths |-> Unset]

Worker(id, place, parses) == [id |-> id, place |-> place, parses |-> parses]

Routes ==
  [default |-> 3,
   routing |-> [plan |-> [preferred |-> 2, fallback |-> <<3, 2>>],
                chat |-> [preferred |-> 1, fallback |-> <<>>]]]

Machine(default, clashing, user, project, inProject, ai) ==
  [plugins |-> [own |-> Pair, default |-> default],
   workers |-> {Worker("writer", 1, TRUE), Worker("writer", 2, TRUE),
                Worker("clerk", 3, FALSE)},
   clashing |-> clashing, user |-> user, project |-> project,
   env |-> Silent, inProject |-> inProject, ai |-> ai]

NoRoutes == [default |-> NoProvider, routing |-> [c \in {} |-> Unset]]

MCInstallations ==
  {Machine(Line, {3}, Silent, Silent, TRUE, Routes),
   Machine(Ring, {}, Silent, Silent, TRUE, NoRoutes),
   Machine(Unfit, {}, Silent, Silent, FALSE, Routes),
   Machine(Ring, {1}, [plugins |-> FALSE, plugin_paths |-> "own"], Section, TRUE,
           NoRoutes),
   [Machine(Ring, {}, [plugins |-> FALSE, plugin_paths |-> "own"], Silent, TRUE,
            Routes)
      EXCEPT !.env = [plugins |-> TRUE, workers |-> FALSE]]}

MCActivations ==
  {[global |-> Unset, project |-> Unset],
   [global |-> Unset, project |-> [enabled |-> {1, 2}, disabled |-> {}]],
   [global |-> [enabled |-> {2}, disabled |-> {3}],
    project |-> [enabled |-> {1}, disabled |-> {}]]}

MCProvider ==
  <<[priority |-> 1, supports |-> {"chat", "plan"}],
    [priority |-> 5, supports |-> {"chat", "plan"}],
    [priority |-> 5, supports |-> {"chat"}]>>

MCAIWorkers == [writer |-> "chat", painter |-> "paint"]

\* AI capability and capability of a task
MCRequests == {<<"plan", "docs">>, <<NoCapability, "docs">>, <<NoCapability, "implement">>}

=============================================================================
