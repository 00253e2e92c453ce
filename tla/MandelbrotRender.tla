-------------------------- MODULE MandelbrotRender --------------------------
(***************************************************************************)
(* The render thread of widgets_mandelbrot together with the GUI thread    *)
(* that drives it and the pool threads that draw for it.                   *)
(*                                                                         *)
(* The GUI thread stores view parameters under RenderThread::mutex and     *)
(* raises restart; RenderThread::run() copies them, draws one pass         *)
(* (NumPasses = 3, and the loop starts at 2), posts the image to the GUI   *)
(* thread and sleeps until it is woken. The tiles of a pass are the        *)
(* iterations of one runOnThreads() call, taken here as ParallelFor, which *)
(* RunOnThreads implements: in order, ThreadCount at a time.               *)
(*                                                                         *)
(* A view is its request number, the height of its image and the set of    *)
(* rows that hold a pixel that is not black; centre, scale and pixel       *)
(* values are left out. Each critical section of the mutex is one step.    *)
(* A height of 0 is not among the inputs: tileEnd() then takes a remainder *)
(* by zero (renderthread.cpp:310), for which C++ defines no outcome.       *)
(***************************************************************************)
EXTENDS TileGrid, Sequences, FiniteSets

CONSTANTS
  ThreadCount,  \* QThread::idealThreadCount()
  Heights,      \* image heights the window is resized to
  MaxRequests   \* bound: calls of RenderThread::render() in one behaviour

ASSUME RenderAssumption ==
  /\ ThreadCount \in Nat \ {0}
  /\ Heights \subseteq Nat \ {0}
  /\ MaxRequests \in Nat

TileCount == 2 * ThreadCount
Tiles == 0 .. TileCount - 1

\* all rows lit, a view inside the set, and one whose only light is at the bottom
LitRows(h) == {0 .. h - 1, {}, {h - 1}}

NoView == [id |-> 0, height |-> 0, lit |-> {}]
Views(n) == UNION {[id : {n}, height : {h}, lit : LitRows(h)] : h \in Heights}
AllViews == UNION {Views(n) : n \in 1 .. MaxRequests}

\* the QImage of a view, with its size, and what has been written of it
NoImage == [id |-> 0, height |-> 0, rows |-> {}]

VARIABLES
  gui,      \* the widget: "live", "destroying" (in ~RenderThread), "gone"
  params,   \* the parameters, under RenderThread::mutex
  restart,  \* RenderThread::restart
  abort,    \* RenderThread::abort
  thread,   \* the position of RenderThread::run()
  cur,      \* run()'s local copy of the parameters
  tile,     \* tile[t]: "todo", "run", or the RenderPassResult of renderTile
  row,      \* row[t]: the next row renderTile(t) draws
  posted,   \* queued renderedImage signals
  pixmap    \* MandelbrotWidget::pixmap

vars == <<gui, params, restart, abort, thread, cur, tile, row, posted, pixmap>>
flags == <<restart, abort>>
canvas == <<tile, row>>

ThreadPcs == {"notStarted", "copy", "pass", "emit", "after", "waiting", "woken", "finished"}
TileStates == {"todo", "run", "Done", "AllBlack", "Abort"}
Images == [id : Nat, height : Nat, rows : SUBSET Nat]

Rows(t) == TileRows(t, TileCount, cur.height)
Covered(view) == CoveredRows(TileCount, view.height)
Written == UNION {TileBegin(t, TileCount, cur.height) .. row[t] - 1 : t \in Tiles}

TypeOK ==
  /\ gui \in {"live", "destroying", "gone"}
  /\ params \in AllViews \cup {NoView}
  /\ restart \in BOOLEAN
  /\ abort \in BOOLEAN
  /\ thread \in ThreadPcs
  /\ cur \in AllViews \cup {NoView}
  /\ tile \in [Tiles -> TileStates]
  /\ row \in [Tiles -> Nat]
  /\ posted \in Seq(Images)
  /\ pixmap \in Images

Init ==
  /\ gui = "live"
  /\ params = NoView
  /\ restart = FALSE
  /\ abort = FALSE
  /\ thread = "notStarted"
  /\ cur = NoView
  /\ tile = [t \in Tiles |-> "todo"]
  /\ row = [t \in Tiles |-> 0]
  /\ posted = <<>>
  /\ pixmap = NoImage

-----------------------------------------------------------------------------
(* Tests and updates inside the actions, each preceded by the wrong variant *)
(* (named after the mistake) that mutation testing puts in its place.       *)

SleepingThread == thread
\* condition.wakeOne(): without effect when run() does not wait
WokenThread == IF thread = "waiting" THEN "woken" ELSE thread

WaitAlways == TRUE
\* if (!restart) condition.wait(&mutex)
NothingToDo == ~ restart

AbortIgnored ==
  IF \E t \in Tiles : tile[t] = "Done" THEN "Done" ELSE "AllBlack"
BlackIfAnyBlack ==
  IF \E t \in Tiles : tile[t] = "Abort" THEN "Abort"
  ELSE IF \E t \in Tiles : tile[t] = "AllBlack" THEN "AllBlack" ELSE "Done"
\* renderPass(): Abort if any tile was aborted, AllBlack if every tile is
PassResult ==
  IF \E t \in Tiles : tile[t] = "Abort" THEN "Abort"
  ELSE IF \E t \in Tiles : tile[t] = "Done" THEN "Done" ELSE "AllBlack"

NotJoined == TRUE
\* QThread::wait(): true at once for a thread that never started
ThreadEnded == thread \in {"notStarted", "finished"}

-----------------------------------------------------------------------------
(* The GUI thread *)

\* RenderThread::render(), from resizeEvent, zoom and scroll: isRunning() is
\* true from start() until run() has returned
Request(view) ==
  /\ gui = "live"
  /\ view.id = params.id + 1
  /\ params' = view
  /\ IF thread = "notStarted"
       THEN thread' = "copy" /\ UNCHANGED restart
       ELSE thread' = WokenThread /\ restart' = TRUE
  /\ UNCHANGED <<gui, abort, cur, canvas, posted, pixmap>>

\* MandelbrotWidget::updatePixmap(), the queued slot
UpdatePixmap ==
  /\ gui = "live"
  /\ posted # <<>>
  /\ pixmap' = Head(posted)
  /\ posted' = Tail(posted)
  /\ UNCHANGED <<gui, params, flags, thread, cur, canvas>>

\* ~RenderThread() up to wait()
BeginDestroy ==
  /\ gui = "live"
  /\ gui' = "destroying"
  /\ abort' = TRUE
  /\ thread' = WokenThread
  /\ UNCHANGED <<params, restart, cur, canvas, posted, pixmap>>

\* wait() returned: delete renderer; the widget goes and its events with it
EndDestroy ==
  /\ gui = "destroying"
  /\ ThreadEnded
  /\ gui' = "gone"
  /\ posted' = <<>>
  /\ UNCHANGED <<params, flags, thread, cur, canvas, pixmap>>

-----------------------------------------------------------------------------
(* RenderThread::run() *)

\* the locked copy; render() makes a new QImage and renderPass() its results
CopyParams ==
  /\ thread = "copy"
  /\ cur' = params
  /\ tile' = [t \in Tiles |-> "todo"]
  /\ row' = [t \in Tiles |-> TileBegin(t, TileCount, params.height)]
  /\ thread' = "pass"
  /\ UNCHANGED <<gui, params, flags, posted, pixmap>>

\* generate() returned, and the switch over the pass result: AllBlack and
\* Abort leave the loop without an image
EndPass ==
  /\ thread = "pass"
  /\ \A t \in Tiles : tile[t] \notin {"todo", "run"}
  /\ thread' = IF PassResult = "Done" THEN "emit" ELSE "after"
  /\ UNCHANGED <<gui, params, flags, cur, canvas, posted, pixmap>>

\* imageReady(): a copy of the image is queued for the GUI thread; whether a
\* newer request arrived meanwhile is not looked at
EmitImage ==
  /\ thread = "emit"
  /\ posted' = Append(posted, [id |-> cur.id, height |-> cur.height, rows |-> Written])
  /\ thread' = "after"
  /\ UNCHANGED <<gui, params, flags, cur, canvas, pixmap>>

\* the locked block after render()
AfterRender ==
  /\ thread = "after"
  /\ \/ /\ abort
        /\ thread' = "finished"
        /\ UNCHANGED restart
     \/ /\ ~ abort
        /\ NothingToDo
        /\ thread' = "waiting"
        /\ UNCHANGED restart
     \/ /\ ~ abort
        /\ ~ NothingToDo
        /\ thread' = "copy"
        /\ restart' = FALSE
  /\ UNCHANGED <<gui, params, abort, cur, canvas, posted, pixmap>>

\* condition.wait() returned with the mutex; restart = false
WakeUp ==
  /\ thread = "woken"
  /\ thread' = "copy"
  /\ restart' = FALSE
  /\ UNCHANGED <<gui, params, abort, cur, canvas, posted, pixmap>>

-----------------------------------------------------------------------------
(* MandelbrotRenderer::renderTile() on the pool threads *)

BeginTile(t) ==
  /\ thread = "pass"
  /\ tile[t] = "todo"
  /\ \A u \in 0 .. t - 1 : tile[u] # "todo"
  /\ Cardinality({u \in Tiles : tile[u] = "run"}) < ThreadCount
  /\ tile' = [tile EXCEPT ![t] = "run"]
  /\ UNCHANGED <<gui, params, flags, thread, cur, row, posted, pixmap>>

\* shouldAbort() at the start of a row
AbortTile(t) ==
  /\ tile[t] = "run"
  /\ row[t] \in Rows(t)
  /\ abort \/ restart
  /\ tile' = [tile EXCEPT ![t] = "Abort"]
  /\ UNCHANGED <<gui, params, flags, thread, cur, row, posted, pixmap>>

RenderRow(t) ==
  /\ tile[t] = "run"
  /\ row[t] \in Rows(t)
  /\ ~ (abort \/ restart)
  /\ row' = [row EXCEPT ![t] = @ + 1]
  /\ UNCHANGED <<gui, params, flags, thread, cur, tile, posted, pixmap>>

\* return allBlack ? AllBlack : Done
EndTile(t) ==
  /\ tile[t] = "run"
  /\ row[t] \notin Rows(t)
  /\ tile' = [tile EXCEPT ![t] = IF cur.lit \cap Rows(t) = {} THEN "AllBlack" ELSE "Done"]
  /\ UNCHANGED <<gui, params, flags, thread, cur, row, posted, pixmap>>

-----------------------------------------------------------------------------

ThreadStep == CopyParams \/ EndPass \/ EmitImage \/ AfterRender \/ WakeUp
TileStep(t) == BeginTile(t) \/ AbortTile(t) \/ RenderRow(t) \/ EndTile(t)
NewRequest == \E n \in 1 .. MaxRequests : \E view \in Views(n) : Request(view)
GuiStep == NewRequest \/ UpdatePixmap \/ BeginDestroy \/ EndDestroy

\* nobody acts any more: a widget that is idle, or gone
Idle ==
  /\ thread \in {"notStarted", "waiting", "finished"}
  /\ gui # "destroying"
  /\ posted = <<>>
  /\ UNCHANGED vars

Next == GuiStep \/ ThreadStep \/ (\E t \in Tiles : TileStep(t)) \/ Idle

\* Threads that can run are scheduled, and the GUI thread's event loop delivers
\* queued signals; the user asks for nothing in particular.
Fairness ==
  /\ WF_vars(ThreadStep)
  /\ \A t \in Tiles : WF_vars(TileStep(t))
  /\ WF_vars(UpdatePixmap)
  /\ WF_vars(EndDestroy)

Spec == Init /\ [][Next]_vars /\ Fairness

-----------------------------------------------------------------------------
(* Properties *)

\* No request is lost between the render loop and its wait: when run() sleeps,
\* the image it last worked on is that of the newest parameters.
NoLostRequest == thread = "waiting" => cur = params /\ ~ restart

PostedOrShown == {posted[k] : k \in 1 .. Len(posted)} \cup {pixmap}

\* A pass that was aborted half way never reaches the screen: every image that is
\* posted or shown has all the rows that the tiles of an image of its height cover.
ImagesUntorn ==
  \A image \in PostedOrShown \ {NoImage} :
    image.height \in Heights /\ image.rows = CoveredRows(TileCount, image.height)

\* ~RenderThread deletes the renderer only after the last tile has stopped.
RendererUnusedWhenDeleted ==
  gui = "gone" => \A t \in Tiles : tile[t] # "run"

\* What the three invariants above follow from, proved inductive in
\* MCMandelbrot_proofs: a request newer than the copy is marked by restart,
\* tiles run only during a pass, and a tile that ended normally has drawn its rows.
RowsDrawn(t) ==
  /\ row[t] >= TileBegin(t, TileCount, cur.height)
  /\ \/ row[t] = TileBegin(t, TileCount, cur.height)
     \/ row[t] <= TileEnd(t, TileCount, cur.height)
  /\ tile[t] \in {"Done", "AllBlack"} => row[t] \notin Rows(t)

ParamsFollowed ==
  /\ thread # "notStarted" => params \in AllViews
  /\ thread \in {"pass", "emit", "after", "waiting"} /\ ~ restart => cur = params
  /\ thread = "waiting" => ~ restart

TilesQuiet ==
  /\ thread # "pass" => \A t \in Tiles : tile[t] # "run"
  /\ gui = "gone" => thread \in {"notStarted", "finished"}

PassDrawn ==
  /\ thread \in {"pass", "emit"} => cur \in AllViews /\ \A t \in Tiles : RowsDrawn(t)
  /\ thread = "emit" => \A t \in Tiles : tile[t] \in {"Done", "AllBlack"}

IInv == ParamsFollowed /\ TilesQuiet /\ PassDrawn /\ ImagesUntorn

\* Requests stop coming, or the widget goes; otherwise, if a tile of the newest view has
\* a lit pixel, its image ends up on screen.
LatestViewShown ==
  <>[](gui = "live" /\ params.lit # {} /\ params.lit \cap Covered(params) # {} =>
         pixmap.id = params.id)

\* ~RenderThread returns, whatever the thread was doing when it was called.
ShutdownCompletes == gui = "destroying" ~> gui = "gone"

\* "Rendering initial image, please wait..." (mandelbrotwidget.cpp:112): a view
\* without a black row is eventually on screen, unless the user moves on.
FullyLit(view) == view # NoView /\ view.lit = 0 .. view.height - 1
InitialImageAppears ==
  FullyLit(params) ~> pixmap # NoImage \/ gui # "live" \/ ~ FullyLit(params)

=============================================================================
