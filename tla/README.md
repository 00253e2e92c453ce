# Formal models of the Qt for WebAssembly examples

The repository is a collection of small, independent programs (`README.MD` sorts
them by prefix: `html_`, `emscripten_`, `core_`, `gui_`, `widgets_`, `quick_`)
that try out how Qt and Emscripten behave in a browser. There is no single
system. What the programs share is their environment: one browser thread that
runs tasks, microtasks, timeouts and animation frames, web workers that act as
pthreads, and native code that must not block. The interesting code is the code
that bridges the two worlds: thread pools, suspended wasm stacks, proxied tasks,
restarting loaders, interposed timers. That code is modelled here, one module per
component, in TLA+. TLC checks small instances; TLAPS proves the main safety
properties for every instance.

## 1. Inventory

For each component: its state, its operations, what is hard about it, and what
makes it correct. `PROJECT.json` lists every component, also those not modelled,
and every hazard with its source line.

### widgets_mandelbrot (`renderthread.cpp`, `mandelbrotwidget.cpp`)
* **State.** A `QMutex` with the view parameters, `restart` and `abort`; the
  thread of `RenderThread::run()` asleep on a wait condition; one runnable per
  pool thread; a shared iteration counter on the caller's stack; a heap-allocated
  `WaitContext` per runnable; images queued for the GUI thread; the pixmap.
* **Operations.** The GUI thread requests a view (`render`), shows images
  (`updatePixmap`), destroys the thread. The render thread copies, draws a pass,
  posts the image, waits. The pool threads claim and draw tiles (`runOnThreads`,
  `renderTile`).
* **Hard.** Lost wake-ups in two places; the caller's stack and the contexts
  that other threads use; a request during every step of a pass; a shutdown
  during every step; the integer arithmetic of the tiles.
* **Correct when.** Every tile runs exactly once inside the call; nothing is used
  after it is gone; the newest request is always the last one worked on; no half
  drawn image is shown; the destructor returns.

### emscripten_asyncify_event_handling (`suspendresumecontrol.cpp`)
* **State.** One JavaScript control object (the `resume` function, the index and
  argument of the current handler), a C++ map of handlers, one suspended stack.
* **Operations.** Register and remove listeners, timers and animation frames;
  `suspend()`; the JavaScript listener that resumes or calls directly.
* **Hard.** The state between `resume()` and the microtask that continues the
  stack; handlers that suspend again, or that remove themselves or others;
  timeouts that outlive their timer.
* **Correct when.** Each event is handled once, in order, by a handler that
  still exists; `control.resume` is truthful.

### emscripten_proxying_queue (`main.cpp`)
* **State.** Per tester: counts of live and created threads, the queue, the
  time-out; the tester deletes itself. An asynchronous loop chains testers.
* **Hard.** A task deletes the queue it was run from while a thread may still
  be in `proxyAsync()`; `done()` re-enters the loop; a late time-out.
* **Correct when.** The thread limit holds, no queue is used after it is
  freed, each tester reports once and truthfully, the loop ends.

### emscripten_startup (`qtloader.js`)
* **State.** `publicAPI.status`, `crashed`, `exitCode`, `committedStatus`, the
  restart count, pending timeouts, what the containers show.
* **Hard.** One exit reports several times, and is acted on later; the page may
  load again in between; restart limits.
* **Correct when.** One instance runs at a time; restarts follow the mode and
  the limit; a crash is answered.

### core_eventloop (`main.cpp`)
* **State.** Two `g_postTo` flags and `g_threadTask`, unlocked on the main
  thread's side; `g_ready` with a condition variable; two event queues; a stack of
  event loops; a list of timers.
* **Hard.** Clicks that overlap the service thread's round; lost notifications;
  loops that are entered from loops, and left in an order the user chooses.
* **Correct when.** Each click posts what its check boxes say; `quit()` ends the
  innermost loop; no timer outlives `clearTimers()`.

### gui_multicanvas (`qrafdebug.js`, `qtimerdebug.js`, `main.cpp`, `hellowindow.cpp`)
* **State.** Collected frame callbacks, the `running` and `haveRequested` flags;
  collected timers and the real timeouts behind them; a window for each screen; the
  logo's geometry and its pending update.
* **Hard.** Pausing, stepping and resuming while requests and real frames are
  outstanding; callbacks that request again while they are being called; an
  integer remainder in the pattern that is dragged.
* **Correct when.** No callback or timer is dropped, repeated or reordered, and none
  waits for ever while the page runs; windows follow the screens.

### quick_controls2_testbench (`assetfixer.cpp`, `testbench.qml`, `SettingsDialog.qml`)
* **State.** The file watcher, the time of the last change that was noticed
  (kept by the settings), three timers, the settings that QML binds to
  `AssetFixer`, and the images on disk; in the dialog, the editors of the palette,
  the clipboard and the validator of the path.
* **Operations.** Exports into the directory; `onAssetsChanged`; the setters with
  `stopWatching` and `startWatching`; the timers that end in `fixAssets()` and a
  reload; the settings dialog, shortcuts, starting and quitting.
* **Hard.** Signals emitted from inside setters, before bindings are up to date;
  changes that come while a fix is pending, within a second of the last one, while
  a file is being written, or when the program quits; the search of the crop
  algorithm along edges that have no line.
* **Correct when.** A fix never spoils an image, however often it runs; the right
  directory is watched; a change that was noticed ends up fixed and on screen; a
  palette that was copied is imported as it was.

### Smaller programs
| program | state | hard | correct when |
| --- | --- | --- | --- |
| precursors of `SuspendResumeControl` (five `main()`s that suspend) | a resolve function, one event on its way, the suspended stack | the event between the resolve and the continuation | each event is handled once, in order, before `main()` waits again |
| `emscripten_asyncify` | `g_interrupt`, a stack of wake-ups | an interrupt during the poll or the sleep before the wait | the wait ends for its own interrupt; one wake-up per sleeper |
| `gui_reload` | the instance, the application, what the buttons allow | clicks while an instance loads; a destroy that comes by a timeout | a button that is enabled has something to act on |
| `dynamic_linking` | a heap context per request, the file system, an event loop that waits | answers in any order; fetch, write and compile may each fail | loaded only if written and compiled; answered once |
| `gui_localfiles`, `emscripten_localfiles` | one global callback, one dialog, readers, malloc'ed buffers | a load that begins while a file is read; a dialog that is cancelled | a callback gets the file that was picked for it, once |
| `gui_localfiles`, `gui_popup`, `gui_lifecycle`: buttons | the pointer, the pressed button | two mouse buttons; handlers that end the program or take the release | a press activates one button at most, the one drawn pressed |
| `emscripten_nativecontrols` | addresses of C++ objects at HTML elements | several callbacks for one event; a callback replaced by another | no event calls a deleted object |
| `mqtt_simpleclient` | the read buffer, the socket, the session | messages in the closing handshake; opening again | the bytes read are those that came, in order |
| `emscripten_sockets` | a socket per client, the server's buffer | reads that break messages up; who is served; blocking and callbacks | echoes come back once and in order; the thread ends |
| `emscripten_pthreads`, `core_threads` | the pool of workers | a main thread that waits for a worker only it could create | with workers enough the waiting ends |
| `emscripten_multiscreen` | CSS and render sizes, the pixel ratio | resizing and zooming before the callback runs; fractions of a pixel | the canvases have every whole pixel the screen has for them |
| `widgets_openglwidget` | the grid, one timer, chains of updates | widgets added while the timer runs | widgets do not overlap and are all updated |
| `emscripten_malloc`, `widgets_memory` | blocks and running totals | failure, halving and doubling, 32-bit wrap-around | the totals are what is held |
| `widgets_standarddialogs` | a label per dialog, the path of the last files | answers that are empty or refused | labels and starting values are the last answer given |

### Not modelled
* **Parts of modelled components.** Colours, shaders, layout and text; what plugins,
  event handlers and dialogs do beyond the state above; the build of `QHtml5File`
  that uses `QFileDialog`; publishing and subscribing, which `QMqttClient` does; an
  asset directory that disappears while it is watched, and styles other than Imagine;
  the pages' own window manager `qwm.js`, which moves elements and keeps no state that a
  program reads back but the list of canvases.
* **Straight sequences of browser calls**: `emscripten_clipboard`,
  `emscripten_datatransfer`, `dropzone`, `emscripten_indexdbcache`. At most one answer
  is outstanding and nothing is read before it comes.
* **Programs whose behaviour is decided elsewhere** (Emscripten's main loop, the
  linker, Qt's start-up): `emscripten_eventloop`, `emscripten_dynamic`,
  `core_dynamic`, `app_main`, the test applications of `emscripten_startup`.
* **Drawing and layout**: the `quick_*` galleries, the other `gui_*` and `widgets_*`
  programs, which are copies of Qt's own examples, static `html_*` pages, packaging
  scripts. There is no protocol in them to state a property about.

## 2. Modules

| module | models | kind |
| --- | --- | --- |
| `ParallelFor` | what `runOnThreads()` promises | abstract specification |
| `RunOnThreads` | `runOnThread`, `runOnThreads`, `generate` | implements `ParallelFor` |
| `TileGrid` | `tileBegin`, `tileEnd`, the row loop | pure operators |
| `MandelbrotRender` | `RenderThread`, `renderPass`, `renderTile`, the widget's slots | uses `TileGrid`; takes the parallel loop as `ParallelFor` |
| `WidgetView` | `MandelbrotWidget`: painting, zooming, scrolling, dragging | component; takes the render thread as its environment |
| `MCMandelbrot` | both of them | composition |
| `SuspendResume` | `SuspendResumeControl` and its clients' classes | component |
| `ResumeExamples` | the five programs it grew out of | component |
| `ProcessEvents` | `emscripten_asyncify` | component |
| `MCSuspend` | the three of them | composition |
| `ThreadTester` | `ThreadCreateJoinTester`, `asyncLoop` | component |
| `EchoSockets` | clients and server of `emscripten_sockets` | component |
| `PoolThreads` | `core_threads`, `emscripten_pthreads` | component |
| `MCThreads` | the three of them | composition |
| `QtLoader` | `QtLoader()` | component |
| `AppReload` | the page and the program of `gui_reload` | component |
| `PluginLoader` | `preparePlugin`, `preparePluginAsyncify` | component |
| `FileDialog` | `QHtml5File`, the file input of `emscripten_localfiles` | component |
| `MCLoading` | the four of them | composition |
| `EventHarness` | `postEvents...`, `thread_function` | component |
| `HarnessLoops` | the harness's timers and event loops | component |
| `EventCallbacks` | `EventCallback`, listeners, `FileReader` | component |
| `MinimalUi` | `QMinimalUIWindow` in its three copies | component |
| `SocketClient` | `WebSocketIODevice` and the window of the client | component |
| `RasterWindows` | windows per screen, `RasterWindow` | component |
| `StandardDialogs` | `Dialog` | component |
| `MCEvents` | the seven of them | composition |
| `RafDebug` | `qrafdebug.js` | component |
| `TimerDebug` | `qtimerdebug.js` | component |
| `HelloWindow` | `HelloWindow`, the geometry of the logo | component |
| `CanvasSizes` | `emscripten_multiscreen` | component |
| `GlWindow` | `MainWindow` and `GLWidget` of `widgets_openglwidget` | component |
| `SettingsDialog` | the dialog, `Clipboard`, `DirectoryValidator` | component |
| `MemoryMeters` | `emscripten_malloc`, `widgets_memory` | component |
| `MCWindows` | the seven of them | composition |
| `NinePatch` | `cropImageToLines`, and what a designer exports | pure operators |
| `AssetFixer` | `AssetFixer` and the part of `testbench.qml` that drives it | uses `NinePatch` |
| `MCAssetFixer` | the drawings that are tried | model checking |
| `RunOnThreads_proofs` | theorems about `RunOnThreads` | proofs |
| `AssetFixer_proofs` | theorems about `NinePatch` and `AssetFixer` | proofs |
| `MCMandelbrot_proofs`, `MCSuspend_proofs`, `MCLoading_proofs`, `MCEvents_proofs`, `MCThreads_proofs`, `MCWindows_proofs` | theorems about the composition and the components in it | proofs |

**Compositions.** Programs that have nothing to do with each other share a run: the
first state of a composition chooses one program, and only that one takes steps. So
the states of a run are the sum of those of its programs, not their product; the
fairness of each program is stated for its own steps, which are enabled only while it
is the chosen one; and a property that is a conjunction says one thing of each
program. An operator of a composition has a comment with one sentence per program.

`PROJECT.json` "map" names for each definition the lines it stands for. In all
modules an action is a piece of code that no other actor can interrupt: the body
of a browser task, a critical section, or a single access to a variable that is
shared without a lock. Before each test or update that a property hinges on,
stands a definition of the same shape with the mistake one could make there
(`LostWakeUp`, `MutexNotTaken`, ...); they are not used by the specification and
serve to try out that the properties notice.

### How the code corresponds

* **RunOnThreads.** `caller.pc` is the position in `runOnThreads()`: `start`
  (first loop), `wait` (second loop), `sleeping`/`woken` (inside
  `threadDone.wait()`), `returned`. `worker[w]` is the position in the runnable:
  `queued` in the pool, `claim` before `nextIteration()`, `call` in `fn(i)`,
  `signal` before the lock of `context->mutex`, `unlock` while it is held. Since
  the waiter deletes the context, lock and unlock are separate steps there. As
  in the code, a waiter that finds `done` set does not delete the context (it is
  leaked).
* **MandelbrotRender.** `params`, `restart` and `abort` are the members under
  `RenderThread::mutex`; `cur` is the copy `run()` works with; `thread` is the
  position in `run()`; `row[t]` is the loop variable of `renderTile(t)`. A view
  is a request number, a height and the rows that have light in them; that is
  what `AllBlack`, `Abort` and the tile arithmetic depend on. An image keeps the height
  it was rendered with, which may differ from that of the views before and after. Only the
  pass `NumPasses - 1` is drawn by the code, so a pass is a rendering. A widget of height
  0, where the code's `%` divides by zero, is left out.
* **SuspendResume.** `resume`, `current` are the fields of the control object;
  `frames` and `parked` are the live and the suspended wasm stack; `microtask`
  is a promise that has been resolved and has not continued. Handlers are
  listeners or timers; an `AnimationFrameHandler` makes the same calls as a timer.
* **ThreadTester.** `main` is the call stack of the main thread, which is at
  most `checkDone -> done -> run -> createThreads` deep: `createFirst` for tester
  `i > 1` returns to the `delete this` of tester `i - 1`. The clock is a choice.
* **QtLoader.** `timeouts` counts pending `setTimeout(..., 0)`; `committed` is
  `committedStatus`; `app` counts running instances; the application ends by
  abort, by quit, or by both in one task. The page has container elements, or show
  functions of its own: without either the default ones throw.
* **EventHarness.** `call` is the main thread inside `postEventsWithArgs()`,
  `service` the loop of `thread_function()`. Every access to the unlocked
  variables is a step; the mutex is held by the service thread exactly when
  `service # "waiting"`.
* **RafDebug.** `real` counts real frame requests for the next frame, `left`
  those of the present frame still to be called, `batch` what the `for` loop
  has left of the list it detached.

* **NinePatch.** An image is its size and the set of its black or red pixels; the
  four loops of `cropImageToLines()` are one operator `Scan`, seen from the edge
  they start at, with what differs (the `break` at the bottom and the right, who
  sets `thickness`) kept. `Export` draws lines of a given thickness and margin,
  `Patch` is the drawing as it is meant to become.
* **AssetFixer.** `fixer` holds the members of the class; the setters are
  operators that return the members and the signal that is emitted, since a
  signal and the QML bound to it are part of the step. Time is kept as
  differences: since the directory changed, and from `mLastModified` to that
  change. The style stays Imagine, and a path is that of the directory or empty.
  `promised` is the bookkeeping of the properties: what was noticed while fixing
  was on, and not called off since, is to be fixed.

* **WidgetView.** One dimension of the widget. `asked` is the sequence of views that
  `render()` was called with and `image` the number of the one the pixmap shows; images
  come in order and any may be passed over, as `MandelbrotRender` delivers them. Widths are
  any; `/ 2` truncates as in C++ (`Half`), in the widget and where the renderer puts the
  middle pixel of an image (`MiddlePixel`). Hence a release is exact only where the image
  is not scaled and the widths differ by an even number; elsewhere the property allows less
  than two pixels of the coarser scale, which is what three truncations can lose.
* **ResumeExamples.** `variant` is the program. `resolve` is the stored resolve
  function, `current` the event that is handed over, `stack` the wasm stack; a click of
  #10515 goes through a timeout, `due`. The wake-up of that program is compared with
  `undefined` where it was meant to be cleared, and so stays for the next click; what is
  checked (each accepted click resumes `main()` once, none is refused without reason) is
  what the assignment would give too.
* **ProcessEvents.** `pc` is the place in `main_func()` and `processEvents()`; an
  interrupt may come at any time from the start of the loop on;
  `sleepers`, `wakeUps` and `timeouts` are counts, since which of two nested stacks
  continues is Asyncify's matter.
* **EchoSockets.** `up[s]` and `down[s]` are the bytes on their way; a read may take
  any number of them; `clientMessage` is the server's buffer, which is not cleared between
  clients, and `strlen()` is applied to what it holds.
* **PoolThreads.** A thread is `none`, waits for a worker, runs, is done or joined; the
  browser makes a worker only when the main thread is not in a call. `value` is the counter
  two threads add to without a lock, in a load and a store: with workers enough it ends as 2
  or 3, since one addition at most is lost.
* **AppReload, PluginLoader, FileDialog.** A pending request, await or timeout is a
  member of a set or a count; a step is the code up to the next one. A file, an
  instance, a plugin is its number or model value. An instance that was clicked before its
  container was replaced (`orphans`) becomes the instance all the same, but is not shown.
* **HarnessLoops.** `stacked` is `g_eventLoops`, `loops` what really runs.
* **EventCallbacks.** `context[e]` is the address in the element's property,
  `onEvent[e]` whether the function is set, `alive` the objects not deleted.
* **SocketClient.** `buffer` is `m_buffer`; a message is its session and its number.
* **MinimalUi, RasterWindows, StandardDialogs, GlWindow, CanvasSizes, SettingsDialog,
  MemoryMeters, HelloWindow.** The members of the classes, one action per handler. In
  `RasterWindows` the shift of the pattern and the colour of a tile are computed as in
  C++, with a remainder that follows the sign; in `MemoryMeters` the totals have the
  width they have in the code; in `HelloWindow` the triangles of the logo are computed
  face by face from the same corners, in exact integers: hundredths, times a `Unit` for
  which the ring's corners are integers too. The ring may be any polygon with its corners
  on the circle (`Directions`) and closes, which in the code it does up to the rounding of Pi.
  In `CanvasSizes` CSS widths and pixel ratios are fractions (whole numbers of `PixelParts`),
  and the integer attribute of a canvas truncates their product; the browser tells of every
  change of either with a resize event. In `SettingsDialog` the program runs with the Imagine
  style; the validator begins with the saved path, and an empty path is valid until another
  one was looked at, as in the code. `RasterWindows` leaves out the window that `main()`
  makes on a page without canvases.

## 3. Runs

| run | bounds | shows |
| --- | --- | --- |
| `run_on_threads` | 4 iterations, 3 runnables, pool of 2 | each iteration once and inside the call, no use after return or delete, the call returns, `ParallelFor` is implemented |
| `mandelbrot_render` (`MCMandelbrot`) | threads: 2 (4 tiles), heights 4 and 5, 2 requests; view: 3 widths (3, 8, 12), 2 scales, 2 mouse positions, 3 requests | newest request kept, images whole, shutdown safe and finite, newest view shown; a settled view is centred, a drag asks for what is seen |
| `mandelbrot_one_core` | 1 thread (2 tiles) | *violated:* the initial image never appears |
| `suspend_resume` (`MCSuspend`) | 2 listeners, 1 timer, 4 events; 6 clicks | events once and in order, removed handlers never called, no direct call past a suspended stack, in the precursors too; the waiting call ends for its own interrupt |
| `thread_tester` (`MCThreads`) | 2 testers, 4 threads, 2 alive; 2-byte messages, a buffer for two; pools of 0 to 3 | thread limit, no queue used after delete, truthful reports; echoes in order; testers and threads end exactly if they can |
| `qt_loader` (`MCLoading`) | all configurations, 3 loads, limit 2; 3 instances; 2 plugins; 4 files | one instance, restarts within mode and limit, first crash answered; enabled buttons have something to act on; a plugin is loaded if it is prepared; a callback gets its own file |
| `qt_loader_restart` | 1 load, the default limit 10 | *violated:* the second crash in a row is not answered |
| `event_harness` (`MCEvents`) | 3 clicks, all check boxes; 4 callbacks; 2 x 2 buttons; 3 sessions of 2 messages; 4 loops or timers; 2 screens; 2 dialogs | spaced clicks delivered exactly, the service thread rests; no deleted callback called, one activation per press, loops, windows and dialogs as in section 1; the stream kept |
| `raf_debug` (`MCWindows`) | 4 requests, 2 real frames pending; 3 timers; 2 canvases, 2 widths and 3 ratios that leave fractions; 9 widgets; 6 blocks; a ring of 8 sectors | frame requests kept in order, a frame is due, all served while running; timers kept, and fired; canvases, widgets, logo and totals right; palettes imported as copied |
| `raf_debug_resume` | 2 requests, 2 real frames | *violated:* a callback called in the frame that requested it |
| `asset_fixer` | 2 files, 2 exports, 387 drawings | images never spoilt, the directory is watched, noticed changes fixed and shown |
| `asset_fixer_dialog` | 1 file, 1 export | *violated:* an image stays as exported with fixing on |

**Why the bounds are enough.** Four iterations on three runnables in a pool of
two is the smallest instance in which a runnable starts after another one ended,
runnables outnumber pool threads, and a runnable runs several iterations. Two
requests are the fewest for a request to arrive at each step of the pass of
another; four tiles over 4 and 5 rows have tiles that are empty, whole, and cut
off by the remainder. Two listeners and a timer let a handler remove itself, an
armed handler and an armed timer while suspended. Two testers cover the
re-entrant hand-over, four threads with two alive the refill before and after a time-out.
Three clicks cover an undisturbed click after an overlapping pair and the reverse. Four
requests let a batch of two be followed by requests from inside the batch. Two exports of
two files let one arrive at every stage of the fix of the other, and one file be exported
again. In the smaller programs three requests let one overtake or replace a second while
a third is under way: three views (a drag, an image, a drag), three instances, three
sessions, three timers; two of what can be confused (plugins, screens, canvases, mouse
buttons) suffice to confuse them; two-byte messages in a buffer for two can be broken up,
joined and left over; of the three widths of a view two differ by an even number and each
pair with the odd one by an odd number of either sign; a pool of zero to three workers lies on both sides of what two threads need;
six blocks double up to the largest size, which does not fit the heap, and come down
again. Where a theorem exists, the bound no longer matters for that property.

**Fairness.** Weak fairness of every thread's own steps (an operating system
schedules what can run), of the browser's tasks, microtasks, timeouts and frames, and of
Qt's delivery of posted events; in `EchoSockets` also of a connection that is being made
and of the native program once it was started; in `PluginLoader` of each step of a
request, which ends in success or error. Never of what a user, a page or an application
chooses: requests, clicks, pausing, exporting, quitting, destroying, exiting.
`SuspendResume` also assumes that a handler returns or suspends.

**Deadlock** is checked in every run; the places where a program rightly stops
are explicit actions (`Finished`, `Idle`, `Quiet`, `Rest`, `TestCompleted`). In
`EchoSockets` and `PoolThreads` being stuck is a subject of the properties: they may rest
anywhere, and the liveness properties say when they must not.

### What the violations say
* `mandelbrot_one_core`. `mandelbrotwidget.cpp:112` announces the initial image.
  `tileEnd()` takes its sum modulo the height; with one ideal thread there are
  two tiles, both ends come out as at most their beginnings, every pass is
  `AllBlack`, and no image is ever posted. With more threads the last rows are
  missing from every image (theorem `LastRowNeverCovered`).
* `qt_loader_restart`. `committedStatus` becomes `"Exited"` with the first exit
  and nothing changes it back; the next exit returns early. `restartLimit` can
  never be reached.
* `raf_debug_resume`. Resuming or stepping asks for a real frame without looking
  whether one is pending; the second callback of that frame serves what the
  first one requested, against the comment in `qrafdebug.js:27-29`.
* `asset_fixer_dialog`. `onAccepted` writes "fix" last. The path, written before,
  makes `startWatching()` suggest a fix that `autoFix()` declines, because fixing is
  still off; the change counts as noticed from then on, at the next start too.

### What the passing runs do not claim
* `suspend_resume` and its theorems are about events that the browser dispatches
  (`NativeDispatch`). A page that dispatches two events in one task finds
  `control.resume` empty for the second while the stack is still suspended; the
  handler is then called directly, past it.
* `event_harness` promises delivery for clicks that do not overlap. A second click
  before the service thread has read the flags of the first merges the two,
  retargets the first, or is undone by its reset.
* `asset_fixer` tries the drawings for which `cropImageToLines()` is right: lines
  along all four edges at any scale and margin; without a line at the bottom or the
  right, only while scale and margin together are at most 2. Beyond that the
  search along the edge without a line runs into the lines of its neighbours, and the
  image is cropped there (the comment in `assetfixer.cpp:112-113` says
  that the approach is limited).
* Nothing is promised for a change that is ignored because it came within a second
  of the last one with no fix pending, for a fix that is still pending when the
  program quits (the time of the change is saved already), or for the images after one
  that could not be read.
* An enabled button of `gui_reload` has something to act on, but a double click's timeout
  may destroy the instance after the one that was clicked. `ServiceRests` takes the service thread's test and wait as one
  step, which the mutex makes them.
* Importing a palette resets the check box to what is saved; `SettingsKept` is about colours.
* A drag that begins before the image of the last one has come counts that one twice
  (`ReleaseCentersWhatIsSeen` is about images that show the present centre).
* A timer set while the page is paused gets no real timeout, so that it may wait for ever
  after the page runs again; one that is cleared while it is on the detached list fires.
* `QHtml5File` has one callback: a load that begins while a file is read gets the other
  file. `EventCallbacks` promises nothing for several callbacks of one event.
* `EchoesInOrder` is about reads that keep messages whole; others lose what follows a NUL
  or echo what an earlier client left in the buffer.
* Bytes that came while the device of `mqtt_simpleclient` was closed are read by the next
  session.
* Canvases without a style sheet are multiplied by the pixel ratio with every resize, and
  truncated again: they grow or shrink, and nothing is promised of them.

## 4. Proofs

All for any values of the constants that satisfy the named assumptions.

* `RunOnThreads_proofs`. `Inductive` proves `Inv`: who holds which iteration,
  how far the caller has come, and what a worker's position says of its context.
  The invariants of the run do not carry themselves: that no iteration runs
  twice needs that claimed iterations are distinct and below the counter; that
  all have run at the return needs that a runnable which is through has seen the
  counter past the end; that a context lives long enough needs to tie the
  owner of its mutex to the worker's position. `ExactlyOnce`, `Quiescence` and
  `ContextSafety` follow; `Implementation` shows that initial states and steps
  map to those of `ParallelFor`.
* `MCMandelbrot_proofs`, in three parts. *TileGrid*: arithmetic of the tiles for every
  height and number of tiles: they stay in the image, are disjoint (so pool threads write
  different rows), never contain the last row, and with two of them contain nothing.
  *MandelbrotRender*: in `IInv` a request newer than the copy is marked by `restart`,
  tiles run only within a pass, and a tile that ended normally has drawn its rows. From it
  `NoLostRequest`, `ImagesUntorn`, `RendererUnusedWhenDeleted`; with the tiles, that no
  image has its last row. *WidgetView*: `ViewIInv` ties the three things together that the
  widget keeps apart: the newest request is of the present view, an image is of a request
  that was made, and an offset is left over only while a newer image is to come. Widths are
  any numbers. A release halves the difference of the widths towards zero, the renderer
  halves both widths, and the drawn width is a scaled one: `HalfBounds` and `MiddleBounds`
  bound what each truncation loses, `ScaledOrder` turns that into pixels of the coarser
  scale, and `TruncationsBounded` puts them together. `ImagesUntorn` and
  `ImagesMissLastRow` are about the height an image was rendered with.
* `MCThreads_proofs`, in two parts. *ThreadTester*: `IInv` is a counting argument: the live
  threads of a tester are those that exist and are not joined, so the count, which the code
  keeps, is zero only if none is left; created threads are a prefix; testers take turns,
  since the next one is made inside `done()` of the one before; a report is final. The
  limit, the safety of `delete this` and the truth of the reports follow.
  `FiniteSetTheorems` has the cardinalities of sets that gain or lose one thread.
  *EchoSockets*, for messages of any length and any buffer (`EchoAssumption`): while reads
  keep messages whole, what is on its way to the server is whole messages (`Messages`), those
  after the ones that were echoed; what a client got and what is on its way back to it are the
  bytes of the echoed ones, without the NULs (`Replies`, `InOrder`). A client
  sends once it is connected, and its connection stays open (`Connected`). What an earlier client left in
  `client_message` is behind the NUL of the message that was read. `EchoesComeBack` follows.
* `MCSuspend_proofs`. Under the assumptions that the browser dispatches
  every event and clients clear timeouts before they destroy a timer
  (`NativeDispatch`, `ClearBeforeDestroy`): the index is in the control object
  only between `resume()` and the microtask, no wasm runs in that time, so no
  handler can be removed in it. `NoEventLost`, `HandlersDefined`,
  `ResumeTracksSuspension` and `DirectCallsWhenNotSuspended` follow. In the five
  precursors (`ExamplesIInv`) the events that occurred are those that were handled, the one
  `main()` resumes for and those on their way, one after the other, and a callback that
  will be called is in the map; in `ProcessEvents` (`LoopIInv`) what a waiting call finds
  came while it waited. Together they are `SuspensionSound`, the invariant of the run.
* `MCLoading_proofs`. `OneInstance` and `RestartsLimited` of `QtLoader`: a restart is
  decided in the timeout of an exit, which finds the instance gone; what was counted since
  the page loaded last is part of `restartCount`. `LoadedWhenPrepared` of `PluginLoader`:
  `StageOf` says what is known of a request by its stage, and `LoopOf` that an event loop
  waits for one request that was made and quits with its answer. `LoadersSound`: in
  `AppReload` instances are counted before they exist; in `FileDialog` files and callbacks are
  answered once (`FilesApart`, `CallbacksApart`), and while loads do not overlap the callback
  is that of the only file under way (`OwnFile`).
* `MCEvents_proofs`, component by component. *EventHarness*: `EventsAccounted` counts,
  for each target, what was asked for as queued, delivered, or still owed by the main
  thread (`MainOwes`) or by the service thread (`ServiceOwes`); `TaskHandedOver` says who
  has the flags in between. `SpacedCallsDelivered` follows, as both owe nothing when
  they rest. *EventCallbacks*: an event that is handled is handled by a callback of its own
  that lives, and the reader owns callbacks of its own events (`HandledByOwn`).
  *SocketClient*: what is on its way was sent in this session, and what else waits in
  `m_buffer` came in while the device was closed. *HarnessLoops*, *StandardDialogs*,
  *MinimalUi*: loops nest as they are stacked, a label whose dialog asks for one file has one
  name, a button that is pressed has not been activated since. *RasterWindows*: a window that
  saw the pointer knows where it is, which makes a drag move it by what the pointer moved;
  and which pixel of which tile has which colour, for any size of the tiles, by division
  with remainder. A window that is not up to date is waiting to be painted.
* `MCWindows_proofs`, program by program. *RafDebug*: waiting callbacks have a real frame
  coming while the page runs; the strengthening is that `haveRequestedFrame` says whether
  any wait. And what was called, what the frame still has to call and what waits are, one
  after the other, the requests in order. *TimerDebug*: `TimersOnce`, from `TimerInv`, which says
  of the ids of the fired timers, of those on the detached list and of those that wait
  that they are apart, that each is there once, and that together they are the timers that
  were set and not cleared in time (`Placed`). Sorting only changes the places
  (`SortedTimers`); `filter()` is a function of how many timers were looked at, and what it
  returns is shown in as many steps (`FilteredTimers`; `UpTo` is the induction over numbers,
  in terms of a set, from the well-foundedness of `<`). *SettingsDialog*: as long as the
  clipboard has what was copied and the editors have what was imported from it, they have the
  copied colours (`CopyKept`); reading a palette's text gives the palette, because no
  key is in it twice (`PasteCopied`). *CanvasSizes* (`CanvasesAlwaysFit`, a part of `WindowsSound`): the truncated product is within one
  pixel of the exact one, for any fractions (`WholePixels`), and a callback starts from the
  CSS size, never from the truncated one. *GlWindow*: the widgets
  after the first come before the next cell, row by row, in cells of their own (`LayoutInv`).
  *MemoryMeters*, while the totals have room for every block (`MemoryAssumption`):
  `TotalsHeld`. A sum is a function of how many blocks were counted, again an induction by
  `UpTo`; a list that gains a block has its sum and the block's (`SumAppend`), and one that
  loses its last block the reverse (`BlockFreed`), where adding the negated size has to
  wrap around to the difference. *HelloWindow*, for a ring of any number of sectors, three
  or more, whose directions are different points of the circle and never half a circle
  apart (`DirectionsAssumption`): `LogoClosed`. The faces are bars, then four for each sector
  (`FacesKnown`), and each is a front, a back or a side of known corners. That no edge is
  there twice (`EdgesApart`) needs that corners of different sectors are different
  (`PointsApart`: they differ in radius or in direction); that each edge is there in the
  other direction (`EdgesReversed`) goes from the front or back to the sides
  (`BlockReversed`), from a sector to the next, the last to the first (`SeamReversed`), and leaves
  the side on which the second bar stands (`BarsMeet`). The two triangles of a front or a
  back can share one normal because their areas have one sign (`BlockAreas`). `ListedNormals` and `ListedClosed` carry this from faces to the lists of
  vertices and normals, by division with remainder. `WindowsAlwaysSound` puts the four
  programs' theorems together.
* `AssetFixer_proofs`, in two parts. *NinePatch*: `DrawingCropped` says that
  `cropImageToLines()` makes the patch of every `Croppable` drawing: of any size, with lines
  that span anything along all four edges, at any scale and margin (or without a line at the
  bottom or the right, while scale and margin together are at most 2). Seen from its edge
  a line fills the rows from the margin to the drawing (`InkFromEdge`); the search of one edge
  finds the first of them that can be cropped and the last (`LineScan`), and nothing where
  there is no line (`OpenScan`); the first search learns the thickness, from which the three
  others begin (`AllFound`); and what is copied is the patch, pixel by pixel
  (`CopiedIsPatch`). `PatchUnchanged`: a patch stays as it is, with lines along any of its
  edges, so that a second pass never crops what the first one left. *AssetFixer*, for any
  files and exports and any croppable drawings of which one needs the crop
  (`ShapesAssumption`): `WatchesDirectory` holds, because `stopWatching()` looks at the old
  value and `startWatching()` at the new one; `ImagesIntact` follows from the two
  theorems above; and `NoticedChangesFixed` from `PromiseKept`: a promise that is not kept yet has
  its fix pending, the directory is watched and the fixing is on, and a change that is
  fixed but not on screen has its reload pending. A suggested fix comes only from a
  fixer that watches, also when two setters follow each other in the settings dialog.

**Only model-checked.** All liveness (the provers do not do fairness and ENABLED), with the
liveness half of the refinement of `ParallelFor`. Every invariant that a passing run checks
is stated by a theorem.

**External.** The pool's queue, `QWaitCondition`, Qt's event queues and dialogs, Asyncify's
single stack, the proxying queue, sockets and their byte streams, web workers, file
dialogs and readers, and the browser's order of tasks, microtasks, timeouts and frames are
modelled from how the code uses them.

## 5. Plan

Done: all components of section 1 but what it lists as not modelled, and the proofs of
section 4. In this order, what is left:

1. An abstract byte stream that `SocketClient` and `EchoSockets` both implement, in place
   of the two properties on their histories.
2. A directory that disappears in `AssetFixer`, and saved settings that survive a program
   that is closed within the delay of a fix: a property that spans two runs of the
   program is weaker than `PromisedImagesFixed` as long as the code saves the time of a
   change before it is fixed.
