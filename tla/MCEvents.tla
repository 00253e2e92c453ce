-------------------------------- MODULE MCEvents --------------------------------
(*****************************************************************************)
(* One run for the programs that handle events: the event test harness of    *)
(* core_eventloop, the event callbacks of emscripten_nativecontrols, the     *)
(* window with buttons of gui_localfiles, gui_popup and gui_lifecycle, the   *)
(* web socket device of mqtt_simpleclient, the timers and event loops of the *)
(* harness, the raster windows of gui_multicanvas and gui_raster, and        *)
(* widgets_standarddialogs.                                                  *)
(*                                                                           *)
(* The programs have nothing to do with each other. The first state          *)
(* chooses one, and only that one takes steps.                               *)
(*****************************************************************************)
EXTENDS EventHarness, Integers

CONSTANTS
  ElementEvents, MaxCallbacks,   \* EventCallbacks
  Buttons, MouseButtons,         \* MinimalUi
  MaxSessions, MaxMessages,      \* SocketClient
  MaxLoopCalls,                  \* HarnessLoops
  Screens, TileSize, Extent,     \* RasterWindows
  MaxEvents,
  Names, MaxCallsOpen            \* StandardDialogs

\* Events of elements are pairs of an element and an event, and not the reader's.
ASSUME EventsAssumption ==
  /\ ElementEvents \cap {"load", "error", "abort", "none"} = {}
  /\ MaxCallbacks \in Nat
  /\ MaxSessions \in Nat
  /\ MaxMessages \in Nat
  /\ TileSize \in Nat \ {0}
  /\ Extent \in Nat

\* far enough apart for the pattern's shift to wrap, in both directions
Positions == {<<0, 0>>, <<3, -2>>}

VARIABLES
  program,
  context, onEvent, eventOf, alive, owned, reader, made, wild,
  pointer, held, pressedButton, drawnPressed, ended, activations,
  buttonText, pingEnabled, pings, deviceOpen, socket, buffer, mqtt, session, sent, sentCount,
  arrived, read, stray,
  loops, stacked, quitNow, appQuits, timers, ticking, loopCalls,
  screens, windows,
  labels, openFilesPath, checked, dialog, accepted, calls

callbackVars == <<context, onEvent, eventOf, alive, owned, reader, made, wild>>
uiVars == <<pointer, held, pressedButton, drawnPressed, ended, activations>>
clientVars ==
  <<buttonText, pingEnabled, pings, deviceOpen, socket, buffer, mqtt, session, sent, sentCount,
    arrived, read, stray>>
loopVars == <<loops, stacked, quitNow, appQuits, timers, ticking, loopCalls>>
rasterVars == <<screens, windows>>
dialogVars == <<labels, openFilesPath, checked, dialog, accepted, calls>>
allVars ==
  <<program, vars, callbackVars, uiVars, clientVars, loopVars, rasterVars, dialogVars>>

Callback == INSTANCE EventCallbacks
Ui == INSTANCE MinimalUi
Client == INSTANCE SocketClient
Loops == INSTANCE HarnessLoops
Raster == INSTANCE RasterWindows
Dialogs == INSTANCE StandardDialogs

-----------------------------------------------------------------------------

\* What the first states of a program leave open is chosen for that program alone.
MCInit ==
  /\ program \in {"harness", "callbacks", "ui", "client", "loops", "raster", "dialogs"}
  /\ Init
  /\ Callback!Init
  /\ Ui!Init
  /\ Client!Init
  /\ Loops!LoopsInit
  /\ Raster!RasterInit /\ (program # "raster" => screens = {})
  /\ Dialogs!DialogsInit

\* A step of the chosen program, which leaves the others alone.
In(name, action, others) ==
  /\ program = name
  /\ action
  /\ UNCHANGED <<program, others>>

InHarness(action) == In("harness", action,
  <<callbackVars, uiVars, clientVars, loopVars, rasterVars, dialogVars>>)
InCallbacks(action) == In("callbacks", action,
  <<vars, uiVars, clientVars, loopVars, rasterVars, dialogVars>>)
InUi(action) == In("ui", action,
  <<vars, callbackVars, clientVars, loopVars, rasterVars, dialogVars>>)
InClient(action) == In("client", action,
  <<vars, callbackVars, uiVars, loopVars, rasterVars, dialogVars>>)
InLoops(action) == In("loops", action,
  <<vars, callbackVars, uiVars, clientVars, rasterVars, dialogVars>>)
InRaster(action) == In("raster", action,
  <<vars, callbackVars, uiVars, clientVars, loopVars, dialogVars>>)
InDialogs(action) == In("dialogs", action,
  <<vars, callbackVars, uiVars, clientVars, loopVars, rasterVars>>)

MCNext ==
  \/ InHarness(Next)
  \/ InCallbacks(Callback!Next)
  \/ InUi(Ui!Next)
  \/ InClient(Client!Next)
  \/ InLoops(Loops!LoopsNext)
  \/ InRaster(Raster!RasterNext)
  \/ InDialogs(Dialogs!DialogsNext)

\* The fairness of the programs, each while it is the chosen one.
MCSpec ==
  /\ MCInit
  /\ [][MCNext]_allVars
  /\ WF_allVars(InHarness(CallStep))
  /\ WF_allVars(InHarness(ServiceStep))
  /\ \A t \in Targets : WF_allVars(InHarness(Deliver(t)))

-----------------------------------------------------------------------------
(* Properties *)

\* EventCallbacks: no event calls a deleted callback, and the only callback of an event is
\* called for as long as it exists.
\* MinimalUi: a press activates one button at most, the one that is drawn pressed.
\* HarnessLoops: a quit ends the innermost event loop, and no timer ticks on when cleared.
\* RasterWindows: a window for each screen, whose pattern follows the pointer without a seam.
\* StandardDialogs: labels, and the dialogs that begin with them, have the last answer given.
HandlersSound ==
  /\ Callback!CallbacksSound
  /\ Ui!OneActivationPerPress
  /\ Loops!LoopsSound
  /\ Raster!RasterSound
  /\ Dialogs!AnswersKept

\* SocketClient: the stream that is read is what came in, over connecting again at any
\* time, and a session reads bytes of another one only if they came while it was closed.
StreamKept == Client!StreamKept

=============================================================================
