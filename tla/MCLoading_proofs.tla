--------------------------- MODULE MCLoading_proofs ---------------------------
(***************************************************************************)
(* Proofs about the programs of MCLoading.tla: QtLoader, AppReload,        *)
(* PluginLoader and FileDialog. Each has an inductive invariant of its own *)
(* that its steps keep, for any plugins and any bounds; a step of another  *)
(* program changes none of its variables.                                  *)
(***************************************************************************)
EXTENDS MCLoading, Sequences, SequenceTheorems, TLAPS

-----------------------------------------------------------------------------
(* QtLoader *)

\* loadEmscriptenModule() starts an instance, or shows that it cannot.
LEMMA LoadOneInstance ==
  ASSUME TypeOK, app = 0, LoadEmscriptenModule
  PROVE  /\ status' \in Statuses /\ crashed' \in BOOLEAN /\ exitCode' \in BOOLEAN
         /\ app' \in Nat /\ content' \in Contents
         /\ OneInstance'
<1>1. CASE config.webGL
  <2>1. ToLoading
    BY <1>1, Zenon DEF LoadEmscriptenModule
  <2>2. crashed' \in BOOLEAN /\ exitCode' \in BOOLEAN
    BY <2>1, Zenon DEF ToLoading
  <2>3. status' \in Statuses /\ app' \in Nat /\ OneInstance'
    BY <2>1 DEF ToLoading, OneInstance, Statuses
  <2>4. content' \in Contents
    BY <2>1 DEF ToLoading, TypeOK, Contents
  <2> QED  BY <2>2, <2>3, <2>4
<1>2. CASE ~ config.webGL
  BY <1>2 DEF LoadEmscriptenModule, ToError, TypeOK, OneInstance, Statuses, Contents
<1> QED  BY <1>1, <1>2

\* The timeout of an exit: a restart finds that the instance is gone.
LEMMA HandleExitKeeps ==
  ASSUME IInv, HandleExit
  PROVE  IInv'
<1>1. timeouts' \in Nat /\ UNCHANGED <<config, loads>>
  BY DEF HandleExit, IInv, TypeOK
<1>2. CASE UNCHANGED <<api, restartCount, app, content, restarts>>
  <2>1. committed' \in Statuses \cup {"undefined"}
    BY DEF HandleExit, IInv, TypeOK
  <2> QED  BY <1>1, <1>2, <2>1 DEF IInv, TypeOK, OneInstance, api
<1>3. CASE NotCommitted /\ StillExited /\ WantsRestart
  <2>1. app = 0 /\ committed' = status /\ Restart
    BY <1>3 DEF HandleExit, IInv, TypeOK, OneInstance, StillExited
  <2>2. restartCount' = restartCount + 1
    BY <2>1 DEF Restart
  <2>3. CASE TooManyRestarts(restartCount + 1)
    BY <1>1, <2>1, <2>2, <2>3
    DEF Restart, ToError, IInv, TypeOK, OneInstance, Statuses, Contents
  <2>4. CASE ~ TooManyRestarts(restartCount + 1)
    <3>1. LoadEmscriptenModule /\ restarts' = restarts + 1
      BY <2>1, <2>4 DEF Restart
    <3> QED  BY <1>1, <2>1, <2>2, <3>1, LoadOneInstance DEF IInv, TypeOK
  <2> QED  BY <2>3, <2>4
<1>4. CASE NotCommitted /\ StillExited /\ ~ WantsRestart
  BY <1>1, <1>4 DEF HandleExit, SetExitContent, IInv, TypeOK, OneInstance, Contents, api
<1> QED  BY <1>2, <1>3, <1>4 DEF HandleExit

\* Whatever happens to the loader, there is one instance at most.
LEMMA LoaderStep == IInv /\ [Next]_vars => IInv'
<1> SUFFICES ASSUME IInv, [Next]_vars PROVE IInv'
  OBVIOUS
<1>1. CASE PageLoads
  <2>1. app = 0 /\ LoadEmscriptenModule /\ restarts' = 0 /\ loads' \in 0 .. MaxLoads
    BY <1>1, LoaderAssumption DEF PageLoads, IInv, TypeOK
  <2> QED  BY <1>1, <2>1, LoadOneInstance DEF PageLoads, IInv, TypeOK
<1>2. CASE Running
  BY <1>2 DEF Running, IInv, TypeOK, OneInstance, Statuses, Contents
<1>3. CASE Exits
  BY <1>3 DEF Exits, IInv, TypeOK, OneInstance, Statuses
<1>4. CASE HandleExit
  BY <1>4, HandleExitKeeps
<1>5. CASE Rest \/ UNCHANGED vars
  BY <1>5 DEF Rest, vars, api, IInv, TypeOK, OneInstance
<1> QED  BY <1>1, <1>2, <1>3, <1>4, <1>5 DEF Next

\* The loader begins without an instance.
LEMMA LoaderStarts == Init => IInv
<1> SUFFICES ASSUME Init PROVE IInv
  OBVIOUS
<1>1. TypeOK
  <2>1. crashed \in BOOLEAN /\ exitCode \in BOOLEAN
    BY Zenon DEF Init
  <2> QED  BY <2>1, LoaderAssumption DEF Init, TypeOK, Statuses, Contents
<1>2. OneInstance /\ restarts <= restartCount
  BY DEF Init, OneInstance
<1> QED  BY <1>1, <1>2 DEF IInv

\* A restart counts against the limit, which counts all restarts of the page, and comes in
\* the mode that asks for it.
LEMMA RestartStep ==
  ASSUME IInv, [Next]_vars, restarts' > restarts
  PROVE  /\ restarts' <= RestartLimit
         /\ config.restartMode # "DoNotRestart"
         /\ crashed \/ config.restartMode = "RestartOnExit"
<1>1. HandleExit
  BY DEF Next, PageLoads, Running, Exits, Rest, vars, IInv, TypeOK
<1>2. WantsRestart /\ Restart
  BY <1>1 DEF HandleExit, SetExitContent, IInv, TypeOK
<1>3. ~ TooManyRestarts(restartCount + 1) /\ restarts' = restarts + 1
  BY <1>2 DEF Restart, IInv, TypeOK
<1> QED  BY <1>2, <1>3, LoaderAssumption DEF WantsRestart, TooManyRestarts, IInv, TypeOK

-----------------------------------------------------------------------------
(* AppReload *)

\* Buttons and instances fit together, whichever buttons are clicked.
LEMMA ReloadStep == Reload!IInv /\ [Reload!Next]_reloadVars => Reload!IInv'
<1> SUFFICES ASSUME Reload!IInv, [Reload!Next]_reloadVars PROVE Reload!IInv'
  OBVIOUS
<1> USE LoadingAssumption
        DEF Reload!IInv, Reload!TypeOK, Reload!ButtonsUsable, Reload!Instances,
            Reload!PageButtons
<1>1. CASE Reload!CreateInstance
  BY <1>1 DEF Reload!CreateInstance
<1>2. CASE Reload!InstanceReady
  <2>1. instances' = instances + 1 /\ instance' = instances + 1
        /\ enabled' = (enabled \ {"createInstance"}) \cup {"destroyInstance", "createApp"}
        /\ UNCHANGED <<apps, destroyTimeouts>>
    BY <1>2 DEF Reload!InstanceReady
  <2>2. /\ loading' \in 0 .. MaxInstances /\ orphans' \in 0 .. MaxInstances
        /\ shown' \subseteq shown \cup {instances + 1}
        /\ instances + 1 <= MaxInstances
        /\ instances + 1 + loading' + orphans' <= MaxInstances
    <3>1. CASE /\ loading > 0 /\ loading' = loading - 1 /\ orphans' = orphans
               /\ shown' = shown \cup {instances + 1}
      BY <3>1
    <3>2. CASE /\ orphans > 0 /\ orphans' = orphans - 1 /\ UNCHANGED <<loading, shown>>
      BY <3>2
    <3> QED  BY <1>2, <3>1, <3>2 DEF Reload!InstanceReady
  <2>3. instances + 1 \in 1 .. MaxInstances /\ instances + 1 \notin apps
    BY <2>2
  <2>4. Reload!TypeOK'
    BY <2>1, <2>2, <2>3
  <2>5. instances' + loading' + orphans' <= MaxInstances
    BY <2>1, <2>2
  <2>6. instance' <= instances' /\ \A i \in apps' : i <= instances'
    BY <2>1, <2>3
  <2>7. Reload!ButtonsUsable'
    BY <2>1, <2>3
  <2> QED  BY <2>4, <2>5, <2>6, <2>7
<1>3. CASE Reload!ClickDestroyInstance
  BY <1>3 DEF Reload!ClickDestroyInstance, Reload!DestroyInstance, Reload!WithoutInstance
<1>4. CASE Reload!CreateApp
  BY <1>4 DEF Reload!CreateApp
<1>5. CASE Reload!DestroyApp
  BY <1>5 DEF Reload!DestroyApp, Reload!WithoutApp
<1>6. CASE Reload!DoubleClick
  BY <1>6 DEF Reload!DoubleClick
<1>7. CASE Reload!DestroyTimeout
  <2>1. destroyTimeouts' \in 0 .. MaxDoubleClicks
    BY <1>7 DEF Reload!DestroyTimeout
  <2>2. CASE instance = 0
    BY <1>7, <2>1, <2>2 DEF Reload!DestroyTimeout
  <2>3. CASE instance # 0
    <3>1. /\ instance' = 0 /\ shown' = {} /\ enabled' = {"createInstance"}
          /\ loading' = 0 /\ orphans' = orphans + loading
          /\ apps' = apps \ {instance} /\ UNCHANGED instances
      BY <1>7, <2>3
      DEF Reload!DestroyTimeout, Reload!DestroyInstance, Reload!WithoutInstance
    <3> QED  BY <2>1, <3>1
  <2> QED  BY <2>2, <2>3
<1>8. CASE Reload!Done \/ UNCHANGED reloadVars
  BY <1>8 DEF Reload!Done, Reload!vars, reloadVars
<1> QED  BY <1>1, <1>2, <1>3, <1>4, <1>5, <1>6, <1>7, <1>8 DEF Reload!Next

\* The page begins with a button to create an instance.
LEMMA ReloadStarts == Reload!Init => Reload!IInv
  BY LoadingAssumption
  DEF Reload!Init, Reload!IInv, Reload!TypeOK, Reload!ButtonsUsable, Reload!Instances,
      Reload!PageButtons

-----------------------------------------------------------------------------
(* PluginLoader *)

\* The answer r to the request for p, which is the first and the only one.
LEMMA PluginAnswer ==
  ASSUME Plugin!IInv, NEW p \in Plugins, NEW r \in Plugin!Results,
         stage[p] \in {"fetching", "compiling"}, r = "Ok" => stage[p] = "compiling",
         Plugin!Answer(p, r)
  PROVE  Plugin!IInv'
<1>1. /\ answers' = [answers EXCEPT ![p] = <<r>>]
      /\ <<r>> \in Seq(Plugin!Results)
  <2>1. answers[p] = <<>>
    BY DEF Plugin!IInv, Plugin!StageOf
  <2>2. Append(<<>>, r) = <<r>>
    OBVIOUS
  <2> QED  BY <2>1, <2>2 DEF Plugin!Answer
<1>2. Plugin!TypeOK'
  BY <1>1 DEF Plugin!Answer, Plugin!IInv, Plugin!TypeOK, Plugin!Stages
<1>3. ASSUME NEW q \in Plugins, q # p
      PROVE  Plugin!StageOf(q)' /\ Plugin!LoopOf(q)'
  <2>1. /\ stage'[q] = stage[q]
        /\ answers'[q] = answers[q]
        /\ q \in contexts' <=> q \in contexts
        /\ q \in loaded' <=> q \in loaded
        /\ files' = files /\ exec' = exec /\ waits' = waits
    BY <1>1, <1>3 DEF Plugin!Answer, Plugin!IInv, Plugin!TypeOK
  <2>2. waits => exec = p
    BY DEF Plugin!IInv, Plugin!LoopOf
  <2>3. exec # q
    BY <1>3, <2>2 DEF Plugin!IInv, Plugin!LoopOf
  <2> QED  BY <2>1, <2>3 DEF Plugin!IInv, Plugin!StageOf, Plugin!LoopOf
<1>4. /\ stage'[p] = "answered"
      /\ answers'[p] = <<r>>
      /\ p \notin contexts'
      /\ p \in loaded' <=> ~ waits /\ r = "Ok"
      /\ r = "Ok" => p \in files'
      /\ exec' = exec /\ waits' = waits
      /\ waits => quit' = TRUE /\ result' = r
  BY <1>1 DEF Plugin!Answer, Plugin!IInv, Plugin!TypeOK, Plugin!StageOf
<1>5. <<r>> = <<"Ok">> <=> r = "Ok"
  OBVIOUS
<1>6. (waits <=> exec = p) /\ r \in Plugin!Results
  BY DEF Plugin!IInv, Plugin!LoopOf
<1>7. Plugin!StageOf(p)' /\ Plugin!LoopOf(p)'
  BY <1>4, <1>5, <1>6 DEF Plugin!StageOf, Plugin!LoopOf
<1> QED  BY <1>2, <1>3, <1>7 DEF Plugin!IInv

\* A request is made, or its file has been fetched: nobody is told yet.
LEMMA PluginGoesOn ==
  ASSUME Plugin!IInv, NEW p \in Plugins, Plugin!PreparePlugin(p) \/ Plugin!FetchSucceeds(p)
  PROVE  Plugin!IInv'
<1>1. CASE Plugin!PreparePlugin(p)
  <2>1. Plugin!TypeOK'
    BY <1>1 DEF Plugin!PreparePlugin, Plugin!IInv, Plugin!TypeOK, Plugin!Stages
  <2>2. p # Plugin!NoPlugin
    BY LoadingAssumption DEF Plugin!NoPlugin
  <2>3. ASSUME NEW q \in Plugins
        PROVE  Plugin!StageOf(q)' /\ Plugin!LoopOf(q)'
    <3>1. q # Plugin!NoPlugin
      BY LoadingAssumption DEF Plugin!NoPlugin
    <3> QED
      BY <1>1, <2>2, <3>1
      DEF Plugin!PreparePlugin, Plugin!IInv, Plugin!TypeOK, Plugin!StageOf, Plugin!LoopOf
  <2> QED  BY <2>1, <2>3 DEF Plugin!IInv
<1>2. CASE Plugin!FetchSucceeds(p)
  <2>1. Plugin!TypeOK'
    BY <1>2
    DEF Plugin!FetchSucceeds, Plugin!AfterFetch, Plugin!IInv, Plugin!TypeOK, Plugin!Stages
  <2>2. ASSUME NEW q \in Plugins
        PROVE  Plugin!StageOf(q)' /\ Plugin!LoopOf(q)'
    BY <1>2
    DEF Plugin!FetchSucceeds, Plugin!AfterFetch, Plugin!IInv, Plugin!TypeOK, Plugin!StageOf,
        Plugin!LoopOf
  <2> QED  BY <2>1, <2>2 DEF Plugin!IInv
<1> QED  BY <1>1, <1>2

\* The loop returns the answer to the plugin that it waited for.
LEMMA PluginLoopReturns ==
  ASSUME Plugin!IInv, Plugin!LoopReturns
  PROVE  Plugin!IInv'
<1>1. exec \in Plugins
  BY DEF Plugin!LoopReturns, Plugin!IInv, Plugin!TypeOK
<1>2. answers[exec] = <<result>> /\ stage[exec] = "answered"
  BY <1>1
  DEF Plugin!LoopReturns, Plugin!IInv, Plugin!TypeOK, Plugin!Stages, Plugin!StageOf,
      Plugin!LoopOf
<1>3. <<result>> = <<"Ok">> <=> result = "Ok"
  OBVIOUS
<1>4. Plugin!TypeOK'
  BY <1>1 DEF Plugin!LoopReturns, Plugin!IInv, Plugin!TypeOK
<1>5. ASSUME NEW q \in Plugins
      PROVE  Plugin!StageOf(q)' /\ Plugin!LoopOf(q)'
  <2>1. q # Plugin!NoPlugin
    BY LoadingAssumption DEF Plugin!NoPlugin
  <2>2. waits /\ stage[q] \in {"fetching", "compiling"} => exec = q
    BY DEF Plugin!IInv, Plugin!LoopOf
  <2> QED
    BY <1>2, <1>3, <2>1, <2>2 DEF Plugin!LoopReturns, Plugin!IInv, Plugin!StageOf, Plugin!LoopOf
<1> QED  BY <1>4, <1>5 DEF Plugin!IInv

\* Every step keeps the invariant.
LEMMA PluginStep == Plugin!IInv /\ [Plugin!Next]_pluginVars => Plugin!IInv'
<1> SUFFICES ASSUME Plugin!IInv, [Plugin!Next]_pluginVars PROVE Plugin!IInv'
  OBVIOUS
<1>1. ASSUME NEW p \in Plugins, Plugin!Progress(p)
      PROVE  Plugin!IInv'
  <2>1. CASE Plugin!PreparePlugin(p) \/ Plugin!FetchSucceeds(p)
    BY <2>1, PluginGoesOn
  <2>2. CASE Plugin!FetchFails(p)
    BY <2>2, PluginAnswer DEF Plugin!FetchFails, Plugin!Results
  <2>3. CASE Plugin!DlopenSucceeds(p)
    BY <2>3, PluginAnswer DEF Plugin!DlopenSucceeds, Plugin!Results
  <2>4. CASE Plugin!DlopenFails(p)
    BY <2>4, PluginAnswer DEF Plugin!DlopenFails, Plugin!Results
  <2> QED  BY <1>1, <2>1, <2>2, <2>3, <2>4 DEF Plugin!Progress
<1>2. CASE Plugin!LoopReturns
  BY <1>2, PluginLoopReturns
<1>3. CASE Plugin!Done \/ UNCHANGED pluginVars
  BY <1>3
  DEF Plugin!Done, Plugin!vars, pluginVars, Plugin!IInv, Plugin!TypeOK, Plugin!StageOf,
      Plugin!LoopOf
<1> QED  BY <1>1, <1>2, <1>3 DEF Plugin!Next

\* No plugin was asked for.
LEMMA PluginStarts == Plugin!Init => Plugin!IInv
<1> SUFFICES ASSUME Plugin!Init PROVE Plugin!IInv
  OBVIOUS
<1>1. <<>> \in Seq(Plugin!Results)
  OBVIOUS
<1>2. Plugin!TypeOK
  BY <1>1 DEF Plugin!Init, Plugin!TypeOK, Plugin!Stages
<1>3. ASSUME NEW p \in Plugins PROVE Plugin!StageOf(p) /\ Plugin!LoopOf(p)
  BY LoadingAssumption DEF Plugin!Init, Plugin!StageOf, Plugin!LoopOf, Plugin!NoPlugin
<1> QED  BY <1>2, <1>3 DEF Plugin!IInv

\* The invariant says what is loaded.
LEMMA PluginPrepared == Plugin!IInv => Plugin!LoadedWhenPrepared
<1> SUFFICES ASSUME Plugin!IInv, NEW p \in Plugins
             PROVE  /\ Len(answers[p]) <= 1
                    /\ p \in contexts <=> stage[p] \in {"fetching", "compiling"}
                    /\ p \in loaded => p \in files /\ answers[p] = <<"Ok">>
                    /\ answers[p] = <<"Ok">> /\ exec # p => p \in loaded
  BY DEF Plugin!LoadedWhenPrepared
<1>1. Plugin!StageOf(p) /\ stage[p] \in Plugin!Stages
  BY DEF Plugin!IInv, Plugin!TypeOK
<1>2. CASE stage[p] = "answered"
  <2>1. PICK r \in Plugin!Results : answers[p] = <<r>> /\ (r = "Ok" => p \in files)
    BY <1>1, <1>2 DEF Plugin!StageOf
  <2>2. Len(answers[p]) = 1 /\ (answers[p] = <<"Ok">> => r = "Ok")
    BY <2>1
  <2> QED  BY <1>1, <1>2, <2>1, <2>2 DEF Plugin!StageOf
<1>3. CASE stage[p] # "answered"
  <2>1. answers[p] = <<>> /\ p \notin loaded
    BY <1>1, <1>3 DEF Plugin!StageOf, Plugin!Stages
  <2>2. Len(answers[p]) = 0 /\ answers[p] # <<"Ok">>
    BY <2>1
  <2> QED  BY <1>1, <1>3, <2>1, <2>2 DEF Plugin!StageOf, Plugin!Stages
<1> QED  BY <1>2, <1>3

-----------------------------------------------------------------------------
(* FileDialog *)

\* Answers are about loads, and 0 is none.
LEMMA FileRange ==
  ASSUME File!IInv, NEW a \in 1 .. Len(fileAnswers)
  PROVE  /\ fileAnswers[a].callback \in File!Loads /\ fileAnswers[a].callback \in Nat \ {0}
         /\ fileAnswers[a].file \in File!Loads /\ fileAnswers[a].file \in Nat \ {0}
<1>1. fileAnswers \in Seq([callback : File!Loads, file : File!Loads])
  BY DEF File!IInv, File!TypeOK
<1>2. fileAnswers[a] \in [callback : File!Loads, file : File!Loads]
  BY <1>1, ElementOfSeq
<1>3. fileAnswers[a].callback \in File!Loads /\ fileAnswers[a].file \in File!Loads
  BY <1>2
<1> QED  BY <1>3, LoadingAssumption DEF File!Loads

\* The callback of load l gets file f: neither was in an answer before.
LEMMA FileAnswered ==
  ASSUME File!IInv, NEW l \in File!Loads, NEW f \in readers, File!Answer(l, f)
  PROVE  LET n == Len(fileAnswers)
         IN  /\ n \in Nat
             /\ Len(fileAnswers') = n + 1
             /\ \A a \in 1 .. n : fileAnswers'[a] = fileAnswers[a]
             /\ fileAnswers'[n + 1].callback = l
             /\ fileAnswers'[n + 1].file = f
             /\ fileAnswers' \in Seq([callback : File!Loads, file : File!Loads])
<1>1. f \in File!Loads /\ fileAnswers \in Seq([callback : File!Loads, file : File!Loads])
  BY DEF File!IInv, File!TypeOK
<1>2. fileAnswers' = Append(fileAnswers, [callback |-> l, file |-> f])
  BY DEF File!Answer
<1> QED  BY <1>1, <1>2

\* Reading f ends: its load's callback gets it, or the callback of the last load.
LEMMA FileOnload ==
  ASSUME File!IInv, NEW f \in readers, File!Onload(f)
  PROVE  File!IInv'
<1>1. f \in File!Loads /\ f \in Nat /\ f # 0 /\ f <= fileLoads /\ f # dialog
  BY LoadingAssumption DEF File!IInv, File!TypeOK, File!FilesApart, File!Loads
<1>2. /\ readers' = readers \ {f}
      /\ UNCHANGED <<global, dialog, fileLoads, overlapped>>
  BY DEF File!Onload
<1>3. CASE global /\ callback = File!Null
  <2>1. buffers' = buffers \cup {f} /\ UNCHANGED <<fileAnswers, fileContent, callback>>
    BY <1>3 DEF File!Onload, File!GlobalOnload, File!ReadFileContent
  <2>2. overlapped
    BY <1>1, <1>3 DEF File!IInv, File!OwnFile
  <2> QED
    BY <1>1, <1>2, <1>3, <2>1, <2>2
    DEF File!IInv, File!TypeOK, File!FilesApart, File!CallbacksApart, File!OwnFile
<1>4. CASE ~ (global /\ callback = File!Null)
  <2> DEFINE l == IF global THEN callback ELSE f
             n == Len(fileAnswers)
  <2>1. l \in File!Loads
    BY <1>1, <1>4 DEF File!IInv, File!TypeOK, File!Null
  <2>2. File!Answer(l, f) /\ callback' = 0
    <3>1. CASE global
      BY <1>4, <3>1
      DEF File!Onload, File!GlobalOnload, File!ReadFileContent, File!CallbackReset, File!Null
    <3>2. CASE ~ global
      BY <3>2
      DEF File!Onload, File!GlobalOnload, File!ReadFileContent, File!IInv, File!Null
    <3> QED  BY <3>1, <3>2
  <2>3. fileContent' = f /\ buffers' = buffers
    BY <2>2 DEF File!Answer
  <2>4. /\ n \in Nat
        /\ Len(fileAnswers') = n + 1
        /\ \A a \in 1 .. n : fileAnswers'[a] = fileAnswers[a]
        /\ fileAnswers'[n + 1].callback = l
        /\ fileAnswers'[n + 1].file = f
        /\ fileAnswers' \in Seq([callback : File!Loads, file : File!Loads])
    BY <2>1, <2>2, FileAnswered
  <2>5. l <= fileLoads /\ l # 0 /\ l \in Nat
    BY <1>1, <2>1, LoadingAssumption DEF File!IInv, File!CallbacksApart, File!Loads
  <2>6. \A a \in 1 .. n : /\ fileAnswers[a].callback # l
                          /\ fileAnswers[a].callback # 0
                          /\ fileAnswers[a].file # f
    <3> SUFFICES ASSUME NEW a \in 1 .. n
                 PROVE  /\ fileAnswers[a].callback # l
                        /\ fileAnswers[a].callback # 0
                        /\ fileAnswers[a].file # f
      OBVIOUS
    <3>1. fileAnswers[a].callback \in Nat \ {0}
      BY FileRange
    <3>2. fileAnswers[a].callback # 0 /\ fileAnswers[a].file # f
      BY <3>1 DEF File!IInv, File!FilesApart
    <3>3. CASE global
      BY <3>2, <3>3, LoadingAssumption DEF File!IInv, File!CallbacksApart, File!Loads
    <3>4. CASE ~ global
      BY <3>2, <3>4, LoadingAssumption DEF File!IInv, File!OwnFile, File!Loads
    <3> QED  BY <3>3, <3>4
  <2> HIDE DEF l
  <2>7. File!TypeOK'
    BY <1>1, <1>2, <2>2, <2>3, <2>4 DEF File!IInv, File!TypeOK, File!Null
  <2>8. File!FilesApart'
    BY <1>1, <1>2, <2>4, <2>6 DEF File!IInv, File!FilesApart
  <2>9. File!CallbacksApart'
    <3>1. 0 <= fileLoads
      BY LoadingAssumption DEF File!IInv, File!TypeOK
    <3> QED  BY <1>2, <2>2, <2>4, <2>5, <2>6, <3>1 DEF File!IInv, File!CallbacksApart
  <2>10. File!OwnFile'
    <3>1. SUFFICES ASSUME ~ (global /\ overlapped)
                   PROVE  /\ l = f
                          /\ global => readers \cup ({dialog} \ {0}) = {f}
      BY <1>1, <1>2, <2>2, <2>3, <2>4, <3>1 DEF File!IInv, File!OwnFile, File!Null
    <3> QED  BY <1>1, <3>1 DEF l, File!IInv, File!OwnFile, File!Null
  <2> QED  BY <1>2, <2>2, <2>7, <2>8, <2>9, <2>10 DEF File!IInv, File!Null
<1> QED  BY <1>3, <1>4

\* A load begins, with a number that no file nor callback has.
LEMMA FileLoad ==
  ASSUME File!IInv, File!Load
  PROVE  File!IInv'
<1>1. /\ fileLoads \in Nat /\ fileLoads + 1 \in File!Loads
      /\ dialog = 0 /\ fileLoads' = fileLoads + 1 /\ dialog' = fileLoads + 1
      /\ callback' = IF global THEN fileLoads + 1 ELSE callback
      /\ UNCHANGED <<global, readers, buffers, fileContent, fileAnswers>>
  BY LoadingAssumption DEF File!Load, File!IInv, File!TypeOK, File!Loads, File!Null
<1>2. /\ overlapped' \in BOOLEAN
      /\ overlapped' <=> overlapped \/ readers # {}
  BY DEF File!Load, File!IInv, File!TypeOK
<1>3. File!TypeOK'
  BY <1>1, <1>2, LoadingAssumption DEF File!IInv, File!TypeOK, File!Loads
<1>4. \A a \in 1 .. Len(fileAnswers) :
        /\ fileAnswers[a].file \in Nat /\ fileAnswers[a].file <= fileLoads
        /\ fileAnswers[a].callback \in Nat /\ fileAnswers[a].callback <= fileLoads
  <2> SUFFICES ASSUME NEW a \in 1 .. Len(fileAnswers)
               PROVE  /\ fileAnswers[a].file \in Nat /\ fileAnswers[a].file <= fileLoads
                      /\ fileAnswers[a].callback \in Nat
                      /\ fileAnswers[a].callback <= fileLoads
    OBVIOUS
  <2>2. fileAnswers[a].callback \in Nat /\ fileAnswers[a].file \in Nat
    BY FileRange
  <2> QED  BY <2>2 DEF File!IInv, File!FilesApart, File!CallbacksApart
<1>5. \A f \in readers : f \in Nat /\ f <= fileLoads
  <2>1. readers \subseteq Nat
    BY LoadingAssumption DEF File!IInv, File!TypeOK, File!Loads
  <2>2. \A f \in readers : f <= fileLoads
    BY DEF File!IInv, File!FilesApart
  <2> QED  BY <2>1, <2>2
<1>6. File!FilesApart'
  BY <1>1, <1>4, <1>5 DEF File!IInv, File!FilesApart
<1>7. callback \in Nat /\ callback <= fileLoads
  BY LoadingAssumption DEF File!IInv, File!TypeOK, File!CallbacksApart, File!Loads, File!Null
<1>8. File!CallbacksApart'
  BY <1>1, <1>4, <1>7 DEF File!IInv, File!CallbacksApart
<1>9. File!OwnFile'
  BY <1>1, <1>2 DEF File!IInv, File!OwnFile, File!Null
<1> QED  BY <1>1, <1>3, <1>6, <1>8, <1>9 DEF File!IInv

\* Every step keeps the invariant.
LEMMA FileStep == File!IInv /\ [File!Next]_fileVars => File!IInv'
<1> SUFFICES ASSUME File!IInv, [File!Next]_fileVars PROVE File!IInv'
  OBVIOUS
<1>0. \A a \in 1 .. Len(fileAnswers) : fileAnswers[a].file # 0
  BY FileRange
<1>1. CASE File!Load
  BY <1>1, FileLoad
<1>2. CASE File!Pick
  <2>1. dialog \in File!Loads /\ dialog # 0
    BY <1>2 DEF File!Pick, File!IInv, File!TypeOK, File!Null
  <2>2. /\ readers' = readers \cup {dialog} /\ dialog' = 0
        /\ UNCHANGED <<global, callback, buffers, fileContent, fileLoads, fileAnswers, overlapped>>
    BY <1>2 DEF File!Pick, File!Null
  <2>3. File!TypeOK'
    BY <2>1, <2>2 DEF File!IInv, File!TypeOK, File!Null
  <2>4. File!FilesApart'
    <3>1. 0 \notin readers' /\ 0 <= fileLoads
      BY <2>1, <2>2, LoadingAssumption DEF File!IInv, File!TypeOK, File!Loads
    <3> QED  BY <1>0, <2>1, <2>2, <3>1 DEF File!IInv, File!FilesApart
  <2>5. File!CallbacksApart' /\ File!OwnFile'
    BY <2>1, <2>2 DEF File!IInv, File!CallbacksApart, File!OwnFile, File!Null
  <2> QED  BY <2>2, <2>3, <2>4, <2>5 DEF File!IInv
<1>3. CASE File!Cancel
  BY <1>0, <1>3, LoadingAssumption
  DEF File!Cancel, File!IInv, File!TypeOK, File!FilesApart, File!CallbacksApart, File!OwnFile,
      File!Null, File!Loads
<1>4. CASE \E f \in readers : File!Onload(f)
  BY <1>4, FileOnload
<1>5. CASE File!SaveFile \/ File!Done \/ UNCHANGED fileVars
  BY <1>5
  DEF File!SaveFile, File!Done, File!vars, fileVars, File!IInv, File!TypeOK, File!FilesApart,
      File!CallbacksApart, File!OwnFile
<1> QED  BY <1>1, <1>2, <1>3, <1>4, <1>5 DEF File!Next

\* Nothing was loaded.
LEMMA FileStarts == File!Init => File!IInv
<1> SUFFICES ASSUME File!Init PROVE File!IInv
  OBVIOUS
<1>1. overlapped \in BOOLEAN /\ ~ overlapped
  BY Zenon DEF File!Init
<1>2. fileAnswers = <<>> /\ Len(fileAnswers) = 0
  BY DEF File!Init
<1> QED
  BY <1>1, <1>2, LoadingAssumption
  DEF File!Init, File!IInv, File!TypeOK, File!FilesApart, File!CallbacksApart, File!OwnFile,
      File!Null

-----------------------------------------------------------------------------
(* The run *)

\* Each program keeps its own invariant, whichever program takes the steps.
THEOREM LoadingInvariant ==
  MCSpec => [](IInv /\ Reload!IInv /\ Plugin!IInv /\ File!IInv)
<1> DEFINE AllI == IInv /\ Reload!IInv /\ Plugin!IInv /\ File!IInv
<1>1. MCInit => AllI
  BY LoaderStarts, ReloadStarts, PluginStarts, FileStarts DEF MCInit
<1>2. AllI /\ [MCNext]_allVars => AllI'
  <2>1. [MCNext]_allVars => /\ [Next]_vars
                            /\ [Reload!Next]_reloadVars
                            /\ [Plugin!Next]_pluginVars
                            /\ [File!Next]_fileVars
    BY DEF MCNext, InLoader, InReload, InPlugins, InFiles, In, allVars
  <2> QED  BY <2>1, LoaderStep, ReloadStep, PluginStep, FileStep
<1> QED  BY <1>1, <1>2, PTL DEF MCSpec

\* QtLoader: however the page, the callbacks of the application and late timeouts
\* interleave, an instance is only started when the last one is gone.
THEOREM OneInstanceAlways == MCSpec => []OneInstance
<1>1. IInv => OneInstance
  BY DEF IInv
<1> QED  BY <1>1, LoadingInvariant, PTL

\* QtLoader: restarts stay within the limit, and come only in the mode that asks for them.
THEOREM RestartsAreLimited == MCSpec => RestartsLimited
<1>1. IInv /\ [Next]_vars =>
        [restarts' > restarts =>
           /\ restarts' <= RestartLimit
           /\ config.restartMode # "DoNotRestart"
           /\ crashed \/ config.restartMode = "RestartOnExit"]_vars
  BY RestartStep
<1>2. [MCNext]_allVars => [Next]_vars
  BY DEF MCNext, InLoader, InReload, InPlugins, InFiles, In, allVars
<1> QED  BY <1>1, <1>2, LoadingInvariant, PTL DEF MCSpec, RestartsLimited

\* PluginLoader: a plugin is loaded exactly if its file was written and compiled, in
\* whatever order the answers for any number of plugins come.
THEOREM PluginsLoadedWhenPrepared == MCSpec => []LoadedWhenPrepared
<1>1. Plugin!IInv => LoadedWhenPrepared
  BY PluginPrepared DEF LoadedWhenPrepared
<1> QED  BY <1>1, LoadingInvariant, PTL

\* AppReload: a button that is enabled can be used. FileDialog: each load gets its own file.
THEOREM LoadersAreSound == MCSpec => []LoadersSound
<1>1. Reload!IInv /\ File!IInv => LoadersSound
  BY DEF LoadersSound, Reload!IInv, File!IInv, File!EachLoadOwnFile, File!FilesApart,
         File!CallbacksApart, File!OwnFile
<1> QED  BY <1>1, LoadingInvariant, PTL

=============================================================================
