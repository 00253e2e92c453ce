------------------------------- MODULE MCLoading -------------------------------
(*****************************************************************************)
(* One run for what pages and programs load: QtLoader of emscripten_startup, *)
(* the page of gui_reload, the plugin loader of dynamic_linking, and the     *)
(* local files of gui_localfiles and emscripten_localfiles.                  *)
(*                                                                           *)
(* The programs have nothing to do with each other. The first state          *)
(* chooses one, and only that one takes steps.                               *)
(*****************************************************************************)
EXTENDS QtLoader

CONSTANTS
  MaxInstances, MaxDoubleClicks,   \* AppReload
  Plugins,                         \* PluginLoader
  MaxFileLoads                     \* FileDialog

\* The bounds are numbers, and no plugin has the name that stands for none.
ASSUME LoadingAssumption ==
  /\ MaxInstances \in Nat
  /\ MaxDoubleClicks \in Nat
  /\ MaxFileLoads \in Nat
  /\ "noplugin" \notin Plugins

VARIABLES
  program,
  instance, enabled, loading, orphans, instances, apps, shown, destroyTimeouts,
  waits, stage, contexts, files, answers, loaded, exec, quit, result,
  global, callback, dialog, readers, buffers, fileContent, fileLoads, fileAnswers, overlapped

reloadVars == <<instance, enabled, loading, orphans, instances, apps, shown, destroyTimeouts>>
pluginVars == <<waits, stage, contexts, files, answers, loaded, exec, quit, result>>
fileVars ==
  <<global, callback, dialog, readers, buffers, fileContent, fileLoads, fileAnswers, overlapped>>
allVars == <<program, vars, reloadVars, pluginVars, fileVars>>

Reload == INSTANCE AppReload
Plugin == INSTANCE PluginLoader
File == INSTANCE FileDialog
  WITH loads <- fileLoads, answers <- fileAnswers, MaxLoads <- MaxFileLoads

-----------------------------------------------------------------------------

\* What the first states of a program leave open is chosen for that program alone.
MCInit ==
  /\ program \in {"loader", "reload", "plugins", "files"}
  /\ Init /\ (program # "loader" => config = CHOOSE c \in Configs : TRUE)
  /\ Reload!Init
  /\ Plugin!Init /\ (program # "plugins" => waits)
  /\ File!Init /\ (program # "files" => global)

\* A step of the chosen program, which leaves the others alone.
In(name, action, others) ==
  /\ program = name
  /\ action
  /\ UNCHANGED <<program, others>>

InLoader(action) == In("loader", action, <<reloadVars, pluginVars, fileVars>>)
InReload(action) == In("reload", action, <<vars, pluginVars, fileVars>>)
InPlugins(action) == In("plugins", action, <<vars, reloadVars, fileVars>>)
InFiles(action) == In("files", action, <<vars, reloadVars, pluginVars>>)

MCNext ==
  \/ InLoader(Next)
  \/ InReload(Reload!Next)
  \/ InPlugins(Plugin!Next)
  \/ InFiles(File!Next)

\* The fairness of the programs, each while it is the chosen one.
MCSpec ==
  /\ MCInit
  /\ [][MCNext]_allVars
  /\ WF_allVars(InLoader(HandleExit))
  /\ \A p \in Plugins : WF_allVars(InPlugins(Plugin!Progress(p)))
  /\ WF_allVars(InPlugins(Plugin!LoopReturns))

-----------------------------------------------------------------------------
(* Properties *)

\* PluginLoader: a plugin is loaded exactly if its file was written and compiled, and
\* every request is answered once, to who asked.
LoadedWhenPrepared == Plugin!LoadedWhenPrepared

\* QtLoader: the first crash of an application leads to a restart, and restarts stay within
\* the limit.
\* PluginLoader: every plugin is prepared in the end, or its error is reported.
LoadersAnswer ==
  /\ FirstCrashRestarts
  /\ RestartsLimited
  /\ program = "plugins" => Plugin!AllPluginsAnswered

\* AppReload: a button that is enabled acts on an instance, whatever comes late.
\* FileDialog: a callback and a file are handed over once, and belong together, except
\* where loads of QHtml5File overlap.
LoadersSound ==
  /\ Reload!ButtonsUsable
  /\ File!EachLoadOwnFile

=============================================================================
