------------------------------ MODULE PluginLoader ------------------------------
(***************************************************************************)
(* dynamic_linking/helloplugin/main.cpp: plugins are downloaded, written   *)
(* to the file system, compiled by emscripten_dlopen(), and only then      *)
(* loaded, because code that loads a plugin cannot wait for the compiler.  *)
(*                                                                         *)
(* preparePlugin() returns at once and calls back; the request's Context   *)
(* goes with the answer. main() prepares all plugins at the same time.     *)
(* preparePluginAsyncify() waits for the answer in an event loop.          *)
(***************************************************************************)
EXTENDS Naturals, Sequences

CONSTANT Plugins   \* pluginNames

VARIABLES
  waits,      \* the program uses preparePluginAsyncify()
  stage,      \* stage[p]: what becomes of p's request
  contexts,   \* the requests whose Context exists
  files,      \* the plugins whose file was written
  answers,    \* history: answers[p]: the calls of prepareComplete
  loaded,     \* history: the plugins that loadPlugin() was called for
  exec,       \* the plugin that loop.exec() waits for, NoPlugin if it does not run
  quit,       \* loop.quit() was called
  result      \* result of preparePluginAsyncify(), NoResult while it has none

vars == <<waits, stage, contexts, files, answers, loaded, exec, quit, result>>

NoPlugin == "noplugin"
NoResult == "noresult"
Stages == {"none", "fetching", "compiling", "answered"}
Results == {"Ok", "FetchError", "DlopenError"}

TypeOK ==
  /\ waits \in BOOLEAN
  /\ stage \in [Plugins -> Stages]
  /\ contexts \subseteq Plugins
  /\ files \subseteq Plugins
  /\ answers \in [Plugins -> Seq(Results)]
  /\ loaded \subseteq Plugins
  /\ exec \in Plugins \cup {NoPlugin}
  /\ quit \in BOOLEAN
  /\ result \in Results \cup {NoResult}

Init ==
  /\ waits \in BOOLEAN
  /\ stage = [p \in Plugins |-> "none"]
  /\ contexts = {}
  /\ files = {}
  /\ answers = [p \in Plugins |-> <<>>]
  /\ loaded = {}
  /\ exec = NoPlugin
  /\ quit = FALSE
  /\ result = NoResult

-----------------------------------------------------------------------------
(* Updates, each preceded by the wrong variant that mutation testing puts in *)
(* its place.                                                                *)

AnsweredEarly == "answered"
\* onsuccess passes the context on to emscripten_dlopen()
AfterFetch == "compiling"

-----------------------------------------------------------------------------

\* preparePlugin(); preparePluginAsyncify() goes on to loop.exec()
PreparePlugin(p) ==
  /\ stage[p] = "none"
  /\ exec = NoPlugin
  /\ stage' = [stage EXCEPT ![p] = "fetching"]
  /\ contexts' = contexts \cup {p}
  /\ IF waits THEN exec' = p /\ quit' = FALSE /\ result' = NoResult
              ELSE UNCHANGED <<exec, quit, result>>
  /\ UNCHANGED <<waits, files, answers, loaded>>

\* onsuccess
FetchSucceeds(p) ==
  /\ stage[p] = "fetching"
  /\ files' = files \cup {p}
  /\ stage' = [stage EXCEPT ![p] = AfterFetch]
  /\ UNCHANGED <<waits, contexts, answers, loaded, exec, quit, result>>

\* prepareComplete(r) and the deletion of the context: main() loads a plugin that
\* is ready, preparePluginAsyncify() quits its loop
Answer(p, r) ==
  /\ answers' = [answers EXCEPT ![p] = Append(@, r)]
  /\ contexts' = contexts \ {p}
  /\ stage' = [stage EXCEPT ![p] = "answered"]
  /\ loaded' = IF ~ waits /\ r = "Ok" THEN loaded \cup {p} ELSE loaded
  /\ IF waits THEN quit' = TRUE /\ result' = r ELSE UNCHANGED <<quit, result>>
  /\ UNCHANGED <<waits, files, exec>>

FetchFails(p) == stage[p] = "fetching" /\ Answer(p, "FetchError")
DlopenSucceeds(p) == stage[p] = "compiling" /\ Answer(p, "Ok")
DlopenFails(p) == stage[p] = "compiling" /\ Answer(p, "DlopenError")

\* loop.exec() and preparePluginAsyncify() return; a plugin that is ready is loaded
LoopReturns ==
  /\ exec # NoPlugin
  /\ quit
  /\ loaded' = IF result = "Ok" THEN loaded \cup {exec} ELSE loaded
  /\ exec' = NoPlugin
  /\ UNCHANGED <<waits, stage, contexts, files, answers, quit, result>>

Progress(p) ==
  \/ PreparePlugin(p)
  \/ FetchSucceeds(p)
  \/ FetchFails(p)
  \/ DlopenSucceeds(p)
  \/ DlopenFails(p)

Done ==
  /\ \A p \in Plugins : stage[p] = "answered"
  /\ exec = NoPlugin
  /\ UNCHANGED vars

Next == (\E p \in Plugins : Progress(p)) \/ LoopReturns \/ Done

\* Requests are answered by the browser, one way or the other.
Fairness == (\A p \in Plugins : WF_vars(Progress(p))) /\ WF_vars(LoopReturns)

Spec == Init /\ [][Next]_vars /\ Fairness

-----------------------------------------------------------------------------
(* Properties *)

\* A plugin is loaded exactly if its file was written and compiled: in whatever
\* order the answers for several plugins come, each request is answered once, its
\* Context lives until then and no longer, and who waits gets its own answer.
LoadedWhenPrepared ==
  \A p \in Plugins :
    /\ Len(answers[p]) <= 1
    /\ p \in contexts <=> stage[p] \in {"fetching", "compiling"}
    /\ p \in loaded => p \in files /\ answers[p] = <<"Ok">>
    /\ answers[p] = <<"Ok">> /\ exec # p => p \in loaded

\* Every plugin is prepared, or its error is reported.
AllPluginsAnswered == <>(exec = NoPlugin /\ \A p \in Plugins : answers[p] # <<>>)

-----------------------------------------------------------------------------
(* Why: the inductive invariant of the proofs *)

\* what is known of a request by its stage
StageOf(p) ==
  /\ stage[p] = "none" => p \notin contexts \cup loaded /\ answers[p] = <<>>
  /\ stage[p] = "fetching" => p \in contexts \ loaded /\ answers[p] = <<>>
  /\ stage[p] = "compiling" => p \in (contexts \cap files) \ loaded /\ answers[p] = <<>>
  /\ stage[p] = "answered" =>
       /\ p \notin contexts
       /\ \E r \in Results : answers[p] = <<r>> /\ (r = "Ok" => p \in files)
       /\ p \in loaded => answers[p] = <<"Ok">>
       /\ answers[p] = <<"Ok">> /\ exec # p => p \in loaded

\* a loop waits for a request that was made, alone, and quits with its answer
LoopOf(p) ==
  /\ exec = p => waits /\ stage[p] # "none"
  /\ exec = p /\ quit => answers[p] = <<result>>
  /\ exec = p /\ ~ quit => stage[p] # "answered"
  /\ waits /\ stage[p] \in {"fetching", "compiling"} => exec = p

IInv ==
  /\ TypeOK
  /\ \A p \in Plugins : StageOf(p) /\ LoopOf(p)

=============================================================================
