------------------------------- MODULE QtLoader -------------------------------
(***************************************************************************)
(* emscripten_startup/qtloader.js: the object that loads a Qt application  *)
(* into a page, follows its status, and restarts it when it exits.         *)
(*                                                                         *)
(* The page and the application's callbacks run as tasks on one thread.    *)
(* setStatus() acts at once, except for "Exited", which is handled in a    *)
(* timeout of 0 ms, because one exit can call setStatus("Exited") more     *)
(* than once. Between the two, the page may load the application again     *)
(* itself, which is what a statusChanged callback is for.                  *)
(*                                                                         *)
(* The application is external: it starts, and at some time it aborts,     *)
(* exits, or does both. webAssemblySupported() is always true, since       *)
(* "typeof WebAssembly" is a string; WebGL may be missing.                 *)
(*                                                                         *)
(* A page without containerElements brings showError, showLoader and       *)
(* showCanvas of its own: the default ones are written for a container and *)
(* throw without one, before an instance is made (qtloader.js:86, 247).    *)
(***************************************************************************)
EXTENDS Naturals

CONSTANTS
  RestartLimit,  \* config.restartLimit, where 0 and undefined became 10
  MaxLoads       \* bound: calls of loadEmscriptenModule() by the page

ASSUME LoaderAssumption ==
  /\ RestartLimit \in Nat \ {0}
  /\ MaxLoads \in Nat

VARIABLES
  config,        \* [restartMode, containers, webGL]: fixed when QtLoader() is called
  status,        \* publicAPI.status
  crashed,       \* publicAPI.crashed
  exitCode,      \* publicAPI.exitCode is defined
  committed,     \* committedStatus
  restartCount,  \* restartCount
  timeouts,      \* pending timeouts that call handleExitedStatusChange()
  app,           \* the instances that run: <= 1 unless a restart went wrong
  content,       \* what was put into the containers last
  loads,         \* history: loadEmscriptenModule() calls by the page
  restarts       \* history: restarts since the page's last load

api == <<status, crashed, exitCode>>
vars == <<config, api, committed, restartCount, timeouts, app, content, loads, restarts>>

Statuses == {"Created", "Loading", "Running", "Exited", "Error"}
Contents == {"none", "loader", "canvas", "exit", "error"}

\* whether containerElements is set (if not, the page has its own show functions), and whether the browser has WebGL
Configs == [restartMode : {"DoNotRestart", "RestartOnExit", "RestartOnCrash"},
            containers : BOOLEAN, webGL : BOOLEAN]

TypeOK ==
  /\ config \in Configs
  /\ status \in Statuses
  /\ crashed \in BOOLEAN
  /\ exitCode \in BOOLEAN
  /\ committed \in Statuses \cup {"undefined"}
  /\ restartCount \in Nat
  /\ timeouts \in Nat
  /\ app \in Nat
  /\ content \in Contents
  /\ loads \in 0 .. MaxLoads
  /\ restarts \in Nat

\* QtLoader(config) returned
Init ==
  /\ config \in Configs
  /\ status = "Created"
  /\ crashed = FALSE
  /\ exitCode = FALSE
  /\ committed = "undefined"
  /\ restartCount = 0
  /\ timeouts = 0
  /\ app = 0
  /\ content = "none"
  /\ loads = 0
  /\ restarts = 0

-----------------------------------------------------------------------------
(* Tests and updates, each preceded by the wrong variant that mutation       *)
(* testing puts in its place.                                                *)

CommittedInverted == committed = status
\* if (committedStatus == publicAPI.status) return
NotCommitted == committed # status

RestartOnAnyExit == config.restartMode # "DoNotRestart"
\* the restart modes
WantsRestart ==
  \/ config.restartMode = "RestartOnExit"
  \/ config.restartMode = "RestartOnCrash" /\ crashed

LimitOffByOne(n) == n > RestartLimit + 1
\* self.restartCount > config.restartLimit
TooManyRestarts(n) == n > RestartLimit

AnyStatus == TRUE
\* publicAPI.status == "Exited" when the timeout comes
StillExited == status = "Exited"

-----------------------------------------------------------------------------
(* setStatus() and loadEmscriptenModule() *)

\* setStatus("Error"): showError()
ToError ==
  /\ status' = "Error"
  /\ content' = IF status = "Error" THEN content ELSE "error"
  /\ UNCHANGED <<crashed, exitCode, app>>

\* publicAPI is reset, setStatus("Loading") shows the loader, and createModule()
\* starts an instance
ToLoading ==
  /\ status' = "Loading"
  /\ content' = IF status = "Loading" THEN content ELSE "loader"
  /\ crashed' = FALSE
  /\ exitCode' = FALSE
  /\ app' = app + 1

LoadEmscriptenModule == IF config.webGL THEN ToLoading ELSE ToError

-----------------------------------------------------------------------------
(* The page *)

\* the page loads the application, or loads it again when it is gone
PageLoads ==
  /\ loads < MaxLoads
  /\ app = 0
  /\ loads' = loads + 1
  /\ restarts' = 0
  /\ LoadEmscriptenModule
  /\ UNCHANGED <<config, committed, restartCount, timeouts>>

-----------------------------------------------------------------------------
(* The application's module callbacks *)

\* module.setStatus("Running...")
Running ==
  /\ app > 0
  /\ status = "Loading"
  /\ status' = "Running"
  /\ content' = "canvas"
  /\ UNCHANGED <<config, crashed, exitCode, committed, restartCount, timeouts, app, loads, restarts>>

\* one task in which the instance ends: onAbort(), quit() or one after the other;
\* the second setStatus("Exited") returns early
Exits ==
  /\ app > 0
  /\ \E abort \in BOOLEAN, quit \in {"no", "code", "RangeError"} :
       /\ abort \/ quit # "no"
       /\ crashed' = (crashed \/ abort \/ quit = "RangeError")
       /\ exitCode' = (exitCode \/ quit = "code")
  /\ status' = "Exited"
  /\ timeouts' = timeouts + 1
  /\ app' = app - 1
  /\ UNCHANGED <<config, committed, restartCount, content, loads, restarts>>

-----------------------------------------------------------------------------
(* The timeout *)

\* config.restart()
Restart ==
  /\ restartCount' = restartCount + 1
  /\ IF TooManyRestarts(restartCount + 1)
       THEN ToError /\ UNCHANGED restarts
       ELSE LoadEmscriptenModule /\ restarts' = restarts + 1

\* setExitContent(): with containers, a crash leaves them as they are, and the
\* default showExit() returns no element for a clean exit
SetExitContent ==
  /\ content' = IF config.containers THEN content ELSE "exit"
  /\ UNCHANGED <<api, restartCount, app, restarts>>

\* handleExitedStatusChange()
HandleExit ==
  /\ timeouts > 0
  /\ timeouts' = timeouts - 1
  /\ IF NotCommitted
       THEN /\ committed' = status
            /\ IF StillExited
                 THEN IF WantsRestart THEN Restart ELSE SetExitContent
                 ELSE UNCHANGED <<api, restartCount, app, content, restarts>>
       ELSE UNCHANGED <<api, committed, restartCount, app, content, restarts>>
  /\ UNCHANGED <<config, loads>>

-----------------------------------------------------------------------------

\* the application runs, or is gone for good
Rest ==
  /\ timeouts = 0
  /\ UNCHANGED vars

Next == PageLoads \/ Running \/ Exits \/ HandleExit \/ Rest

\* The browser runs timeouts; the application need not start nor end.
Spec == Init /\ [][Next]_vars /\ WF_vars(HandleExit)

-----------------------------------------------------------------------------
(* Properties *)

\* Whatever the page, the callbacks and late timeouts do, an instance is only
\* started when the last one is gone, and the status says whether there is one.
OneInstance == app = IF status \in {"Loading", "Running"} THEN 1 ELSE 0

\* "Restart attempts limit" (qtloader.js:40): there are no more restarts than that,
\* and a clean exit restarts the application only in "RestartOnExit" mode.
RestartsLimited ==
  [][restarts' > restarts =>
       /\ restarts' <= RestartLimit
       /\ config.restartMode # "DoNotRestart"
       /\ crashed \/ config.restartMode = "RestartOnExit"]_vars

RestartDue == status = "Exited" /\ crashed /\ config.restartMode # "DoNotRestart"

\* A crash is answered by a restart, an error past the limit, or the page, if
\* no exit has been handled since the status was last something else.
FirstCrashRestarts == (RestartDue /\ committed # "Exited") ~> status # "Exited"

\* "restartMode ... Controls whether the application should be reloaded on exits"
\* (qtloader.js:38): the same for every crash, and not only the first one.
EveryCrashRestarts == RestartDue ~> status # "Exited"

-----------------------------------------------------------------------------
(* Why: the inductive invariant of the proofs *)

\* restarts since the last load by the page are among all that restartCount counts
IInv ==
  /\ TypeOK
  /\ OneInstance
  /\ restarts <= restartCount

=============================================================================
