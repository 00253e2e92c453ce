------------------------------ MODULE AssetFixer ------------------------------
(***************************************************************************)
(* The asset fixer of quick_controls2_testbench: AssetFixer watches a      *)
(* directory of 9-patch images and suggests a fix or a reload when it      *)
(* changes; testbench.qml answers with timers, at the end of which         *)
(* fixAssets() crops the images (NinePatch). A designer exports images     *)
(* into the directory, and the user changes settings, asks for a manual    *)
(* fix, quits and starts the program again.                                *)
(*                                                                         *)
(* Everything but the designer runs on one thread; a signal and the code   *)
(* bound to it are part of the step that emits it. Time passes in ticks of *)
(* half a second, and only the differences the code looks at are kept: the *)
(* time since the directory changed last, and the time between that change *)
(* and the one the fixer noticed last (lastModified), both up to 1 second. *)
(*                                                                         *)
(* The style is Imagine, the path in the settings is that of the directory *)
(* or empty, and an export creates or renames a file: overwriting one in   *)
(* place does not change the directory, so nobody is told.                 *)
(*                                                                         *)
(* What a file holds is told by the number of passes it went through; what *)
(* that makes of the picture is looked up for all drawings at once.        *)
(***************************************************************************)
EXTENDS NinePatch

CONSTANTS
  Files,       \* the *.9.png files of the directory
  Shapes,      \* what the designer draws
  MaxExports   \* bound: exports in one behaviour

ASSUME FixerAssumption == MaxExports \in Nat

\* drawings that cropImageToLines() is right for, and some of them need it
ASSUME ShapesAssumption ==
  /\ \A s \in Shapes : Croppable(s)
  /\ \E s \in Shapes : s.margin + s.thickness > 1

TicksPerSecond == 2
DelayTicks == 4  \* assetFixerFileSystemDelayTimer: 2000 ms

VARIABLES
  file,      \* file[f]: "none", "partial" (being written), or what the passes made of it
  sinceLast, \* ticks since the directory was modified
  unnoticed, \* ticks from mLastModified to that modification; kept by the settings
  settings,  \* [use, dir, auto]: use custom assets, from the directory, fix them
  app,       \* "closed", "starting" (the UI has yet to be rendered), "up"
  fixer,     \* [shouldWatch, dir, firstWatch, watching]: members of AssetFixer
  notified,  \* directoryChanged() is about to be emitted
  delay,     \* assetFixerFileSystemDelayTimer: 0, or 1 + the ticks it has left
  animation, \* assetFixerAnimationDelayTimer is running
  manual,    \* manuallyFixing
  reload,    \* assetReloadNextFrameTimer is running
  exports,   \* history: the number of exports
  promised,  \* history: every change has been answered, or is going to be
  unseen     \* history: the directory changed since the assets were loaded last

disk == <<file, sinceLast, exports>>
timers == <<delay, animation, manual, reload>>
vars == <<disk, unnoticed, settings, app, fixer, notified, timers, promised, unseen>>

Pictures == {"raw", "cropped", "recropped"}
Contents == {"none", "partial"} \cup Pictures

\* cropImageToLines() of a file's image; "recropped" stands for any further pass,
\* which is right as long as the second one changes nothing
Pass(content) == IF content = "raw" THEN "cropped" ELSE "recropped"

\* the image that is in the file, when the designer drew s
Image ==
  [s \in Shapes |->
     LET raw == Export(s)
         once == CropImageToLines(raw)
     IN [raw |-> raw, cropped |-> once, recropped |-> CropImageToLines(once)]]

\* the pictures that are what they are meant to be, whatever was drawn
RightPictures == {c \in Pictures : \A s \in Shapes : Image[s][c] = Patch(s)}

ClosedFixer == [shouldWatch |-> FALSE, dir |-> FALSE, firstWatch |-> TRUE, watching |-> FALSE]

TypeOK ==
  /\ file \in [Files -> Contents]
  /\ sinceLast \in 0 .. TicksPerSecond
  /\ unnoticed \in 0 .. TicksPerSecond
  /\ settings \in [use : BOOLEAN, dir : BOOLEAN, auto : BOOLEAN]
  /\ app \in {"closed", "starting", "up"}
  /\ fixer \in [shouldWatch : BOOLEAN, dir : BOOLEAN, firstWatch : BOOLEAN, watching : BOOLEAN]
  /\ delay \in 0 .. DelayTicks + 1
  /\ \A b \in {notified, animation, manual, reload, promised, unseen} : b \in BOOLEAN
  /\ exports \in 0 .. MaxExports

\* never run before: mLastModified is 1970
Init ==
  /\ file = [f \in Files |-> "none"]
  /\ sinceLast = TicksPerSecond
  /\ unnoticed = TicksPerSecond
  /\ settings = [use |-> FALSE, dir |-> FALSE, auto |-> FALSE]
  /\ app = "closed"
  /\ fixer = ClosedFixer
  /\ notified = FALSE
  /\ delay = 0
  /\ animation = FALSE
  /\ manual = FALSE
  /\ reload = FALSE
  /\ exports = 0
  /\ promised = TRUE
  /\ unseen = FALSE

-----------------------------------------------------------------------------
(* AssetFixer's private functions. Each takes the members, and returns them *)
(* with the signal that is emitted: "none", "fix" or "reload".              *)

CanWatch(fx) == fx.shouldWatch /\ fx.dir

\* wrong variant: the watch is left in place
KeepWatching(fx) == fx
\* stopWatching()
StopWatching(fx) == IF CanWatch(fx) THEN [fx EXCEPT !.watching = FALSE] ELSE fx

\* startWatching(): addPath() fails for a path that is watched already
StartWatching(fx) ==
  IF ~ CanWatch(fx) \/ fx.watching
    THEN [fixer |-> fx, signal |-> "none"]
    ELSE [fixer  |-> [fx EXCEPT !.watching = TRUE, !.firstWatch = FALSE],
          signal |-> IF fx.firstWatch /\ unnoticed = 0 THEN "reload" ELSE "fix"]

\* setShouldWatch()
SetShouldWatch(fx, watch) ==
  IF watch = fx.shouldWatch
    THEN [fixer |-> fx, signal |-> "none"]
    ELSE StartWatching([StopWatching(fx) EXCEPT !.shouldWatch = watch])

\* setAssetDirectory()
SetAssetDirectory(fx, dir) ==
  IF dir = fx.dir
    THEN [fixer |-> fx, signal |-> "none"]
    ELSE StartWatching([StopWatching(fx) EXCEPT !.dir = dir])

ShouldFix == (fixer.shouldWatch /\ settings.auto) \/ manual

\* wrong variant: the binding of shouldFix, which is not up to date yet
StaleShouldFix(watch, auto) == ShouldFix
\* effectiveShouldFix
EffectiveShouldFix(watch, auto) == watch /\ auto

-----------------------------------------------------------------------------
(* testbench.qml *)

\* fixEmUp()
FixEmUp(manually) ==
  /\ manual' = manually
  /\ animation' = TRUE

\* autoFix(), as far as it is decided when a suggested fix is handled
Fixes(result, auto) ==
  /\ result.signal = "fix"
  /\ result.fixer.dir
  /\ EffectiveShouldFix(result.fixer.shouldWatch, auto)

Pending == notified \/ delay > 0 \/ animation
AllFixed == \A f \in Files : file[f] = "none" \/ file[f] \in RightPictures

\* A setting changed: the members become those of result, its signal is handled
\* by autoFix() or reloadAssets(). A suggested fix notices the last modification.
\* The promise is renewed by a suggestion while images are fixed automatically, and
\* ends when what it waits for has been switched off.
Handle(result, auto, autoAfter) ==
  /\ fixer' = result.fixer
  /\ notified' = (notified /\ result.fixer.watching)
  /\ unnoticed' = IF result.signal = "fix" THEN 0 ELSE unnoticed
  /\ IF Fixes(result, auto) THEN FixEmUp(FALSE) ELSE UNCHANGED <<manual, animation>>
  /\ reload' = (reload \/ result.signal = "reload")
  /\ promised' = \/ result.signal = "fix" /\ auto /\ autoAfter
                 \/ promised /\ (Pending => result.fixer.watching /\ autoAfter)
  /\ UNCHANGED <<delay, unseen>>

\* two setters in a row, of which at most one emits a signal
Then(result, second) ==
  [second EXCEPT !.signal = IF result.signal # "none" THEN result.signal ELSE @]

-----------------------------------------------------------------------------
(* The user *)

\* testbench.qml is loaded; settings.imaginePath reaches assetDirectory, and the assets
\* are read from disk
Launch ==
  /\ app = "closed"
  /\ app' = "starting"
  /\ fixer' = [ClosedFixer EXCEPT !.dir = settings.dir]
  /\ unseen' = FALSE
  /\ UNCHANGED <<disk, unnoticed, settings, notified, timers, promised>>

\* initialUiRenderDelayTimer: hasRun = true, and with it shouldWatch may change
InitialRender ==
  /\ app = "starting"
  /\ app' = "up"
  /\ Handle(SetShouldWatch(fixer, settings.use), settings.auto, settings.auto)
  /\ UNCHANGED <<disk, settings>>

\* the shortcut "Use Custom Assets"
ToggleUse ==
  /\ app # "closed"
  /\ settings' = [settings EXCEPT !.use = ~ @]
  /\ Handle(SetShouldWatch(fixer, settings'.use /\ app = "up"), settings.auto, settings.auto)
  /\ UNCHANGED <<disk, app>>

\* onAccepted of the settings dialog, which wants a valid path for custom assets:
\* the three settings are written one after the other, the fixing last
ApplySettings(new) ==
  LET first  == SetShouldWatch(fixer, new.use /\ app = "up")
      second == SetAssetDirectory(first.fixer, new.dir)
  IN
  /\ app # "closed"
  /\ new.use => new.dir
  /\ new # settings
  /\ settings' = new
  /\ Handle(Then(first, second), settings.auto, new.auto)
  /\ UNCHANGED <<disk, app>>

\* the action "Fix Custom Assets"
ManualFix ==
  /\ app # "closed"
  /\ FixEmUp(TRUE)
  /\ UNCHANGED <<disk, unnoticed, settings, app, fixer, notified, delay, reload, promised, unseen>>

\* the action "Reload Assets"
ManualReload ==
  /\ app # "closed"
  /\ reload' = TRUE
  /\ UNCHANGED <<disk, unnoticed, settings, app, fixer, notified, delay, animation, manual,
                 promised, unseen>>

\* the settings are saved, mLastModified among them, whatever has become of the
\* fix it stands for
Quit ==
  /\ app # "closed"
  /\ app' = "closed"
  /\ fixer' = ClosedFixer
  /\ notified' = FALSE
  /\ delay' = 0
  /\ animation' = FALSE
  /\ manual' = FALSE
  /\ reload' = FALSE
  /\ promised' = (promised /\ ~ Pending)
  /\ UNCHANGED <<disk, unnoticed, settings, unseen>>

-----------------------------------------------------------------------------
(* The designer *)

\* a file is created, and perhaps takes a while to be written; two are not created
\* in the same half second
StartExport(f, content) ==
  /\ exports < MaxExports
  /\ sinceLast > 0
  /\ file[f] # "partial"
  /\ file' = [file EXCEPT ![f] = content]
  /\ sinceLast' = 0
  /\ unnoticed' = Min({TicksPerSecond, unnoticed + sinceLast})
  /\ exports' = exports + 1
  /\ notified' = fixer.watching
  /\ promised' = (promised /\ fixer.watching /\ settings.auto)
  /\ unseen' = TRUE
  /\ UNCHANGED <<settings, app, fixer, timers>>

\* the rest of the file is written, which is no change of the directory
FinishExport(f) ==
  /\ file[f] = "partial"
  /\ file' = [file EXCEPT ![f] = "raw"]
  /\ promised' = /\ promised
                 /\ delay > 0 \/ animation \/ (notified /\ unnoticed >= TicksPerSecond)
  /\ unseen' = TRUE
  /\ UNCHANGED <<sinceLast, exports, unnoticed, settings, app, fixer, notified, timers>>

-----------------------------------------------------------------------------
(* The file system watcher and the timers *)

\* mLastModified.secsTo(lastModified) == 0: less than a second
NotModified == unnoticed < TicksPerSecond

\* wrong variant: the timer is extended
ExtendedDelay == delay + DelayTicks + 1
\* assetFixerFileSystemDelayTimer.restart()
RestartedDelay == DelayTicks + 1

\* onAssetsChanged(): a fix is suggested with a delay, or a reload at once
OnAssetsChanged ==
  /\ notified
  /\ notified' = FALSE
  /\ IF NotModified
       THEN /\ promised' = (promised /\ (delay > 0 \/ animation \/ AllFixed))
            /\ UNCHANGED <<unnoticed, delay, reload>>
       ELSE /\ unnoticed' = 0
            /\ IF ShouldFix
                 THEN delay' = RestartedDelay /\ UNCHANGED reload
                 ELSE reload' = TRUE /\ UNCHANGED delay
            /\ promised' = (fixer.shouldWatch /\ settings.auto)
  /\ UNCHANGED <<disk, settings, app, fixer, animation, manual, unseen>>

\* assetFixerFileSystemDelayTimer: autoFix()
DelayEnds ==
  /\ delay = 1
  /\ delay' = 0
  /\ IF fixer.dir /\ EffectiveShouldFix(fixer.shouldWatch, settings.auto)
       THEN FixEmUp(FALSE)
       ELSE UNCHANGED <<manual, animation>>
  /\ UNCHANGED <<disk, unnoticed, settings, app, fixer, notified, reload, promised, unseen>>

\* fixAssets(), which returns at the first image it cannot open: those before it,
\* in any order, have been saved
FixAssets ==
  LET images  == {f \in Files : file[f] \in Pictures}
      partial == {f \in Files : file[f] = "partial"}
  IN
  \E done \in SUBSET images :
    /\ partial = {} => done = images
    /\ file' = [f \in Files |-> IF f \in done THEN Pass(file[f]) ELSE file[f]]
    /\ reload' = (reload \/ partial = {})
    /\ promised' = (partial = {})
    /\ unseen' = (unseen \/ done # {})

\* assetFixerAnimationDelayTimer
AnimationEnds ==
  /\ animation
  /\ animation' = FALSE
  /\ manual' = FALSE
  /\ IF ShouldFix /\ fixer.dir
       THEN FixAssets
       ELSE UNCHANGED <<file, reload, promised, unseen>>
  /\ UNCHANGED <<sinceLast, exports, unnoticed, settings, app, fixer, notified, delay>>

\* assetReloadNextFrameTimer: the assets are read again
ReloadAssets ==
  /\ reload
  /\ reload' = FALSE
  /\ unseen' = FALSE
  /\ UNCHANGED <<disk, unnoticed, settings, app, fixer, notified, delay, animation, manual, promised>>

\* half a second passes
Tick ==
  /\ sinceLast < TicksPerSecond \/ delay > 1
  /\ sinceLast' = Min({TicksPerSecond, sinceLast + 1})
  /\ delay' = IF delay > 1 THEN delay - 1 ELSE delay
  /\ UNCHANGED <<file, exports, unnoticed, settings, app, fixer, notified, animation, manual,
                 reload, promised, unseen>>

-----------------------------------------------------------------------------

UserStep ==
  \/ Launch
  \/ ToggleUse
  \/ \E new \in [use : BOOLEAN, dir : BOOLEAN, auto : BOOLEAN] : ApplySettings(new)
  \/ ManualFix
  \/ ManualReload
  \/ Quit

DesignerStep ==
  \E f \in Files :
    \/ \E content \in {"partial", "raw"} : StartExport(f, content)
    \/ FinishExport(f)

EventLoopStep ==
  \/ InitialRender
  \/ OnAssetsChanged
  \/ DelayEnds
  \/ AnimationEnds
  \/ ReloadAssets

Next == UserStep \/ DesignerStep \/ EventLoopStep \/ Tick

\* Time passes and the event loop runs; the user and the designer do as they like.
Fairness ==
  /\ WF_vars(Tick)
  /\ WF_vars(OnAssetsChanged)
  /\ WF_vars(DelayEnds)
  /\ WF_vars(AnimationEnds)

Spec == Init /\ [][Next]_vars /\ Fairness

-----------------------------------------------------------------------------
(* Properties *)

\* However often and in whatever order images are exported, fixed by hand and
\* fixed again, each is as exported or as it is meant to become: a second pass
\* does not crop what the first one left.
ImagesIntact ==
  \A f \in Files : file[f] \in Pictures \ {"raw"} => file[f] \in RightPictures

\* Settings, rendering and directory changes, in any order, leave the watcher
\* connected exactly when there is a directory to watch, once.
WatchesDirectory ==
  /\ fixer.watching <=> fixer.shouldWatch /\ fixer.dir
  /\ fixer.shouldWatch <=> settings.use /\ app = "up"
  /\ fixer.dir <=> settings.dir /\ app # "closed"

\* When nothing is pending, every change that was noticed while images were fixed
\* automatically, and every one that was ignored because a fix was coming, has
\* been fixed and is on screen.
NoticedChangesFixed ==
  app = "up" /\ ~ Pending /\ ~ reload /\ promised => AllFixed /\ ~ unseen

\* ... and that state is reached: an image that is to be fixed is fixed, unless
\* the user switches that off or quits, or the image was still being written.
PromisedImagesFixed ==
  \A f \in Files :
    promised /\ file[f] = "raw" ~> file[f] # "raw" \/ ~ promised

\* "If you want your 9-patch assets to be automatically fixed up ... check "Fix
\* Imagine Style Assets"" (README.md:8-9): with the directory watched and the box
\* checked, no image is left as it was exported once everything has come to rest.
AutoFixed ==
  fixer.watching /\ settings.auto /\ ~ Pending /\ ~ reload =>
    \A f \in Files : file[f] # "raw"

=============================================================================
