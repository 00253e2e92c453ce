------------------------------- MODULE MCWindows -------------------------------
(***************************************************************************)
(* One run for the programs that draw on canvases and windows, each on its *)
(* own small instance: the frame debugger and the timer debugger of        *)
(* gui_multicanvas, its HelloWindow, emscripten_multiscreen,               *)
(* widgets_openglwidget, the settings dialog of quick_controls2_testbench  *)
(* and the memory meters.                                                  *)
(*                                                                         *)
(* The programs have nothing to do with each other. The first state        *)
(* chooses one, and only that one takes steps.                             *)
(***************************************************************************)
EXTENDS RafDebug, Integers

CONSTANTS
  MaxTimers, MaxTime,                                \* TimerDebug
  Unit, Directions,                                  \* HelloWindow
  Canvases, PixelParts, WindowWidths, PixelRatios,   \* CanvasSizes
  MaxSize,
  BubbleNum,                                         \* GlWindow
  Colors, Paths,                                     \* SettingsDialog
  HeapLimit, MaxBlocks, Word                         \* MemoryMeters

\* eight points of a circle, all around the ring
EightPoints ==
  << <<0, 5>>, <<3, 4>>, <<5, 0>>, <<4, -3>>, <<0, -5>>, <<-4, -3>>, <<-5, 0>>, <<-3, 4>> >>

Keys == <<"window", "text">>

\* a palette with an unknown key, an entry of three parts and without "text"; a text that is
\* no palette is like the empty clipboard of the first state
ForeignTexts == { << <<"window", "red">>, <<"font", "serif">>, <<"window", "a", "red">> >> }

VARIABLES
  program,
  engineSorts, timeOuts, timersRunning, realTimeouts, fireList, clock, timersSet, fired, armed,
  cleared,
  vertices, normals, animating, updateRequested, colorIndex,
  styled, windowWidth, pixelRatio, renderSize, contexts, resizePending, resized,
  cells, nextX, nextY, useTimer, timerActive, updates, bubbles, hasButton,
  shown, savedUse, savedColors, useBox, editors, clipboardText, copied,
  fromCopy, customBox, savedCustom, savedPath, kind, validator, shownMessage,
  mallocSize, mallocFailed, totalMalloc, pointers, memsetIndex, heapMemory, heapTotal, jsMemory,
  jsTotal

timerVars ==
  <<engineSorts, timeOuts, timersRunning, realTimeouts, fireList, clock, timersSet, fired, armed,
    cleared>>
helloVars == <<vertices, normals, animating, updateRequested, colorIndex>>
sizesVars == <<styled, windowWidth, pixelRatio, renderSize, contexts, resizePending, resized>>
glVars == <<cells, nextX, nextY, useTimer, timerActive, updates, bubbles, hasButton>>
settingsVars ==
  <<shown, savedUse, savedColors, useBox, editors, clipboardText, copied, fromCopy, customBox,
    savedCustom, savedPath, kind, validator, shownMessage>>
memoryVars ==
  <<mallocSize, mallocFailed, totalMalloc, pointers, memsetIndex, heapMemory, heapTotal, jsMemory,
    jsTotal>>
allVars ==
  <<program, vars, timerVars, helloVars, sizesVars, glVars, settingsVars, memoryVars>>

Timer == INSTANCE TimerDebug
Hello == INSTANCE HelloWindow WITH requested <- updateRequested
Sizes == INSTANCE CanvasSizes
Gl == INSTANCE GlWindow
Settings == INSTANCE SettingsDialog
Memory == INSTANCE MemoryMeters

\* timers are counted and timed, the text of an editor is a text, and bubbles are counted
ASSUME TimerAssumption == MaxTimers \in Nat /\ MaxTime \in Nat
ASSUME SettingsAssumption == Settings!Undefined \notin Colors
ASSUME GlAssumption == BubbleNum \in Nat

\* widths and ratios are numbers of parts
ASSUME SizesAssumption ==
  /\ PixelParts \in Nat \ {0}
  /\ WindowWidths \subseteq Nat
  /\ PixelRatios \subseteq Nat

\* the directions are different points of a circle, in an order that never turns by half a
\* circle
ASSUME DirectionsAssumption ==
  /\ Unit \in Nat \ {0}
  /\ Directions \in Seq(Int \X Int) /\ Len(Directions) >= 3
  /\ \A i \in DOMAIN Directions :
       Directions[i][1] * Directions[i][1] + Directions[i][2] * Directions[i][2] = Unit * Unit
  /\ \A i, j \in DOMAIN Directions : Directions[i] = Directions[j] => i = j
  /\ \A i \in DOMAIN Directions :
       LET d == Directions[i]
           e == Directions[IF i = Len(Directions) THEN 1 ELSE i + 1]
       IN d[1] * e[2] # d[2] * e[1]

\* the heap has less than 2 GB, and the totals have room for every block
ASSUME MemoryAssumption ==
  /\ HeapLimit \in 0 .. 63
  /\ MaxBlocks \in Nat /\ Word \in Nat /\ 8 * MaxBlocks < Word

-----------------------------------------------------------------------------

AnyOf(set) == CHOOSE e \in set : TRUE

\* What the first states of a program leave open is chosen for that program alone.
MCInit ==
  /\ program \in {"frames", "timers", "hello", "canvases", "gl", "settings", "memory"}
  /\ Init
  /\ Timer!Init /\ (program # "timers" => engineSorts)
  /\ Hello!Init
  /\ Sizes!Init
  /\ program # "canvases" =>
       styled /\ windowWidth = AnyOf(WindowWidths) /\ pixelRatio = AnyOf(PixelRatios)
  /\ Gl!Init
  /\ Settings!Init /\ (program # "settings" => ~ savedCustom /\ savedPath = "")
  /\ Memory!Init

\* A step of the chosen program, which leaves the others alone.
In(name, action, others) ==
  /\ program = name
  /\ action
  /\ UNCHANGED <<program, others>>

InFrames(action) == In("frames", action,
  <<timerVars, helloVars, sizesVars, glVars, settingsVars, memoryVars>>)
InTimers(action) == In("timers", action,
  <<vars, helloVars, sizesVars, glVars, settingsVars, memoryVars>>)
InHello(action) == In("hello", action,
  <<vars, timerVars, sizesVars, glVars, settingsVars, memoryVars>>)
InCanvases(action) == In("canvases", action,
  <<vars, timerVars, helloVars, glVars, settingsVars, memoryVars>>)
InGl(action) == In("gl", action,
  <<vars, timerVars, helloVars, sizesVars, settingsVars, memoryVars>>)
InSettings(action) == In("settings", action,
  <<vars, timerVars, helloVars, sizesVars, glVars, memoryVars>>)
InMemory(action) == In("memory", action,
  <<vars, timerVars, helloVars, sizesVars, glVars, settingsVars>>)

MCNext ==
  \/ InFrames(Next)
  \/ InTimers(Timer!Next)
  \/ InHello(Hello!Next)
  \/ InCanvases(Sizes!Next)
  \/ InGl(Gl!Next)
  \/ InSettings(Settings!Next)
  \/ InMemory(Memory!Next)

\* The fairness of the programs, each while it is the chosen one.
MCSpec ==
  /\ MCInit
  /\ [][MCNext]_allVars
  /\ WF_allVars(InFrames(BrowserStep))
  /\ WF_allVars(InTimers(Timer!BrowserStep))
  /\ WF_allVars(InGl(Gl!TimerTimeout))
  /\ WF_allVars(InGl(Gl!PaintGL))

-----------------------------------------------------------------------------
(* Properties *)

\* TimerDebug: every timer that was set waits, is about to be fired, or was fired once,
\* in one place, unless clearTimeout() took it off the list.
TimersKept == Timer!TimersKept

\* TimerDebug: a timer that was set while the page ran fires or is cleared.
\* GlWindow: while the window's timer is used, all of its widgets are updated again and again.
TimersCome ==
  /\ Timer!ArmedTimersFire
  /\ program = "gl" => Gl!TimerUpdatesAll

\* HelloWindow: the logo is a closed surface seen from outside, and it is animated.
\* CanvasSizes: after a resize the canvases have the size the screen needs.
\* GlWindow: widgets do not cover one another, and have their bubbles.
\* MemoryMeters: the totals are the memory that is held.
WindowsSound ==
  /\ Hello!LogoSound
  /\ Sizes!CanvasesFit
  /\ Gl!WidgetsApart
  /\ Memory!MetersRight

\* SettingsDialog: a palette that was copied is imported as it was, and the dialog shows
\* what the validator says.
SettingsKept == Settings!SettingsKept

=============================================================================
