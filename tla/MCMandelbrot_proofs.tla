--------------------------- MODULE MCMandelbrot_proofs ---------------------------
(***************************************************************************)
(* Proofs about widgets_mandelbrot. TileGrid.tla: what the tile arithmetic *)
(* of renderthread.cpp computes for every image height and every tile      *)
(* count of at least two (a RenderThread has twice as many tiles as        *)
(* threads): tiles write inside the image, no row belongs to two tiles,    *)
(* and the last row belongs to none.                                       *)
(*                                                                         *)
(* MandelbrotRender.tla, for every number of threads, image heights and    *)
(* requests: the types, and that no request is lost, no torn image is      *)
(* posted and the renderer is idle when it is deleted. TypeOK /\ IInv is   *)
(* inductive.                                                              *)
(*                                                                         *)
(* WidgetView.tla: for any widths, scales and movements of the mouse, and  *)
(* any order in which images arrive, the widget settles on the view that   *)
(* was asked for last, and a drag asks for what it shows.                  *)
(***************************************************************************)
EXTENDS MCMandelbrot, TLAPS

-----------------------------------------------------------------------------
(* The arithmetic of tiles *)

\* Integer division by a positive divisor, as two inequalities.
LEMMA DivBounds ==
  ASSUME NEW H \in Nat, NEW M \in Nat \ {0}
  PROVE  /\ H \div M \in Nat
         /\ M * (H \div M) <= H
         /\ H < M * (H \div M) + M
BY SMT

\* The remainder lies below the divisor, and does not exceed the dividend.
LEMMA ModBounds ==
  ASSUME NEW x \in Nat, NEW H \in Nat \ {0}
  PROVE  /\ x % H \in 0 .. H - 1
         /\ x < H => x % H = x
         /\ x >= H /\ x < 2 * H => x % H = x - H
         /\ x = 2 * H => x % H = 0
BY SMT

\* A larger tile index is a larger multiple of the tile size.
LEMMA Monotone ==
  ASSUME NEW t \in Nat, NEW u \in Nat, t < u, NEW S \in Nat
  PROVE  t * S + S <= u * S
<1>1. t + 1 <= u
  OBVIOUS
<1>2. (t + 1) * S <= u * S
  BY <1>1, SMT
<1>3. (t + 1) * S = t * S + S
  BY SMT
<1>4. QED
  BY <1>2, <1>3, SMT

\* A row of tile t lies in the t-th slice of TileSize rows, before the last row.
LEMMA RowBounds ==
  ASSUME NEW N \in Nat, N >= 2,
         NEW H \in Nat \ {0},
         NEW t \in 0 .. N - 1,
         NEW y \in TileRows(t, N, H)
  PROVE  /\ TileSize(N, H) \in Nat
         /\ t * TileSize(N, H) <= y
         /\ y < t * TileSize(N, H) + TileSize(N, H)
         /\ 0 <= y
         /\ y < H - 1
<1> DEFINE M == N - 1
           S == H \div M
           B == t * S
           E == (B + S) % H
<1>1. /\ S \in Nat
      /\ M * S <= H
      /\ H < M * S + M
      /\ M \in Nat \ {0}
  <2>1. M \in Nat \ {0}
    OBVIOUS
  <2>2. QED
    BY <2>1, DivBounds
<1>2. B \in Nat /\ B + S \in Nat
  BY <1>1, SMT
<1>3. /\ E \in 0 .. H - 1
      /\ B + S < H => E = B + S
      /\ B + S >= H /\ B + S < 2 * H => E = B + S - H
      /\ B + S = 2 * H => E = 0
  <2> DEFINE x == B + S
  <2>1. x \in Nat
    BY <1>2
  <2> HIDE DEF x
  <2>2. /\ x % H \in 0 .. H - 1
        /\ x < H => x % H = x
        /\ x >= H /\ x < 2 * H => x % H = x - H
        /\ x = 2 * H => x % H = 0
    BY <2>1, ModBounds
  <2>3. QED
    BY <2>2 DEF x
<1>4. y \in Int /\ B <= y /\ y < E
  <2>1. E \in Nat
    BY <1>3
  <2>2. y \in B .. E - 1
    BY DEF TileRows, TileBegin, TileEnd, TileSize
  <2>3. QED
    BY <1>2, <2>1, <2>2, SMT
<1>5. TileSize(N, H) = S
  BY DEF TileSize
<1>6. CASE t < M
  <2>1. B + S <= M * S
    BY <1>1, <1>6, Monotone
  <2>2. B + S <= H
    BY <1>1, <1>2, <2>1, SMT
  <2>3. CASE B + S < H
    <3>1. E = B + S
      BY <1>3, <2>3
    <3>2. QED
      BY <1>1, <1>2, <1>4, <1>5, <2>3, <3>1, SMT
  <2>4. CASE B + S = H
    <3>1. E = 0
      BY <1>2, <1>3, <2>4, SMT
    <3>2. QED
      BY <1>2, <1>4, <3>1, SMT
  <2>5. QED
    BY <1>1, <1>2, <2>2, <2>3, <2>4, SMT
<1>7. CASE t = M
  <2>1. B = M * S /\ S <= H
    <3>1. S <= M * S
      BY <1>1, SMT
    <3>2. QED
      BY <1>1, <1>7, <3>1, SMT
  <2>2. CASE B + S < H
    <3>1. E = B + S
      BY <1>3, <2>2
    <3>2. QED
      BY <1>1, <1>2, <1>4, <1>5, <2>2, <3>1, SMT
  <2>3. CASE B + S >= H
    <3>1. E <= B
      <4>1. CASE B + S < 2 * H
        <5>1. E = B + S - H
          BY <1>3, <2>3, <4>1
        <5>2. QED
          BY <1>1, <1>2, <2>1, <5>1, SMT
      <4>2. CASE B + S = 2 * H
        BY <1>2, <1>3, <4>2
      <4>3. QED
        BY <1>1, <1>2, <2>1, <4>1, <4>2, SMT
    <3>2. QED
      BY <1>2, <1>4, <1>3, <3>1, SMT
  <2>4. QED
    BY <1>1, <1>2, <2>2, <2>3, SMT
<1>8. QED
  BY <1>1, <1>6, <1>7, SMT

\* scanLine() is only asked for rows the image has.
THEOREM TilesInImage ==
  \A N \in Nat, H \in Nat \ {0} :
    N >= 2 => CoveredRows(N, H) \subseteq 0 .. H - 1
<1> SUFFICES ASSUME NEW N \in Nat, NEW H \in Nat \ {0}, N >= 2,
                    NEW t \in 0 .. N - 1, NEW y \in TileRows(t, N, H)
             PROVE  y \in 0 .. H - 1
  BY DEF CoveredRows
<1>1. 0 <= y /\ y < H - 1
  BY RowBounds
<1>2. y \in Int
  BY DEF TileRows
<1>3. QED
  BY <1>1, <1>2

\* Two workers never write the same row of the shared image.
THEOREM TilesDisjoint ==
  \A N \in Nat, H \in Nat \ {0} :
    N >= 2 => \A t, u \in 0 .. N - 1 :
                t # u => TileRows(t, N, H) \cap TileRows(u, N, H) = {}
<1>1. ASSUME NEW N \in Nat, NEW H \in Nat \ {0}, N >= 2,
             NEW t \in 0 .. N - 1, NEW u \in 0 .. N - 1, t < u,
             NEW y \in TileRows(t, N, H), y \in TileRows(u, N, H)
      PROVE  FALSE
  <2> DEFINE S == TileSize(N, H)
  <2>1. /\ S \in Nat
        /\ y < t * S + S
        /\ u * S <= y
    BY <1>1, RowBounds
  <2>2. t * S + S <= u * S
    BY <1>1, <2>1, Monotone
  <2>3. y \in Int
    BY DEF TileRows
  <2>4. QED
    BY <2>1, <2>2, <2>3, SMT
<1>2. QED
  <2> SUFFICES ASSUME NEW N \in Nat, NEW H \in Nat \ {0}, N >= 2,
                      NEW t \in 0 .. N - 1, NEW u \in 0 .. N - 1, t # u,
                      NEW y \in TileRows(t, N, H), y \in TileRows(u, N, H)
               PROVE  FALSE
    OBVIOUS
  <2>1. t < u \/ u < t
    BY SMT
  <2>2. QED
    BY <1>1, <2>1

\* Whatever the height and the number of threads, the last row is never drawn.
THEOREM LastRowNeverCovered ==
  \A N \in Nat, H \in Nat \ {0} : N >= 2 => H - 1 \notin CoveredRows(N, H)
<1> SUFFICES ASSUME NEW N \in Nat, NEW H \in Nat \ {0}, N >= 2,
                    NEW t \in 0 .. N - 1, H - 1 \in TileRows(t, N, H)
             PROVE  FALSE
  BY DEF CoveredRows
<1>1. H - 1 < H - 1
  BY RowBounds
<1>2. QED
  BY <1>1, SMT

\* On one core (two tiles) no row at all is drawn.
THEOREM OneThreadCoversNothing ==
  \A H \in Nat \ {0} : CoveredRows(2, H) = {}
<1> SUFFICES ASSUME NEW H \in Nat \ {0}, NEW t \in 0 .. 1, NEW y \in TileRows(t, 2, H)
             PROVE  FALSE
  BY DEF CoveredRows
<1>1. TileSize(2, H) = H
  BY SMT DEF TileSize
<1>2. t * H <= y /\ y < H - 1 /\ y \in Int
  BY <1>1, RowBounds DEF TileRows
<1>3. t = 0
  BY <1>2, SMT
<1>4. TileEnd(t, 2, H) = 0
  BY <1>1, <1>3, ModBounds, SMT DEF TileEnd
<1>5. y < TileEnd(t, 2, H) /\ 0 <= y
  BY <1>2, <1>3, <1>4, RowBounds DEF TileRows
<1>6. QED
  BY <1>2, <1>4, <1>5, SMT

-----------------------------------------------------------------------------
(* The render thread and the tiles *)

\* Every view has a positive height, and is not the empty view.
LEMMA ViewFacts ==
  ASSUME NEW view \in AllViews
  PROVE  view.id \in Nat /\ view.height \in Heights /\ view.height \in Nat \ {0}
<1>1. PICK n \in 1 .. MaxRequests : view \in Views(n)
  BY DEF AllViews
<1>2. PICK h \in Heights : view \in [id : {n}, height : {h}, lit : LitRows(h)]
  BY <1>1 DEF Views
<1>3. QED
  BY <1>2, RenderAssumption

\* Where the rows of a tile begin and end, and what a tile drawn to its end leaves written.
LEMMA TileFacts ==
  ASSUME NEW h \in Nat \ {0}, NEW t \in Tiles
  PROVE  /\ TileCount \in Nat /\ TileCount >= 2
         /\ TileBegin(t, TileCount, h) \in Nat
         /\ TileEnd(t, TileCount, h) \in Nat
<1>1. TileCount \in Nat /\ TileCount - 1 \in Nat \ {0}
  BY RenderAssumption DEF TileCount
<1>2. TileSize(TileCount, h) \in Nat
  BY <1>1, DivBounds DEF TileSize
<1>3. t \in Nat
  BY <1>1 DEF Tiles
<1>4. t * TileSize(TileCount, h) \in Nat
  BY <1>2, <1>3, SMT
<1>5. TileBegin(t, TileCount, h) \in Nat
  BY <1>4 DEF TileBegin
<1>6. TileEnd(t, TileCount, h) \in Nat
  <2> DEFINE x == t * TileSize(TileCount, h) + TileSize(TileCount, h)
  <2>1. x \in Nat
    BY <1>2, <1>4
  <2> HIDE DEF x
  <2>2. x % h \in Nat
    BY <2>1, ModBounds
  <2>3. QED
    BY <2>2 DEF x, TileEnd
<1>7. QED
  BY <1>1, <1>5, <1>6

\* The widget starts with nothing requested, posted or shown.
LEMMA InitFacts == Init => TypeOK /\ IInv
<1> SUFFICES ASSUME Init PROVE TypeOK /\ IInv
  OBVIOUS
<1>1. NoImage \in Images
  BY DEF NoImage, Images
<1>2. TypeOK
  <2>1. posted \in Seq(Images)
    BY DEF Init
  <2>2. /\ tile \in [Tiles -> TileStates]
        /\ row \in [Tiles -> Nat]
    BY DEF Init, TileStates
  <2>3. QED
    BY <1>1, <2>1, <2>2 DEF Init, TypeOK, ThreadPcs
<1>3. IInv
  BY DEF Init, IInv, ParamsFollowed, TilesQuiet, PassDrawn, ImagesUntorn, PostedOrShown
<1>4. QED
  BY <1>2, <1>3

-----------------------------------------------------------------------------
(* Type correctness *)

\* Every step of the threads keeps the types.
LEMMA TypeStep == TypeOK /\ IInv /\ [Next]_vars => TypeOK'
<1> SUFFICES ASSUME TypeOK, IInv, [Next]_vars PROVE TypeOK'
  OBVIOUS
<1> USE DEF TypeOK, ThreadPcs, TileStates, flags, canvas
<1>1. ASSUME NEW n \in 1 .. MaxRequests, NEW view \in Views(n), Request(view)
      PROVE  TypeOK'
  <2>1. view \in AllViews
    BY <1>1 DEF AllViews
  <2>2. QED
    BY <1>1, <2>1 DEF Request, WokenThread
<1>2. CASE UpdatePixmap
  BY <1>2 DEF UpdatePixmap
<1>3. CASE BeginDestroy
  BY <1>3 DEF BeginDestroy, WokenThread
<1>4. CASE EndDestroy
  BY <1>4 DEF EndDestroy
<1>5. CASE CopyParams
  <2>1. params \in AllViews
    BY <1>5 DEF CopyParams, IInv, ParamsFollowed
  <2>2. \A t \in Tiles : TileBegin(t, TileCount, params.height) \in Nat
    BY <2>1, ViewFacts, TileFacts
  <2>3. QED
    BY <1>5, <2>1, <2>2 DEF CopyParams
<1>6. CASE EndPass
  BY <1>6 DEF EndPass
<1>7. CASE EmitImage
  <2>1. cur \in AllViews
    BY <1>7 DEF EmitImage, IInv, PassDrawn
  <2>2. \A t \in Tiles : TileBegin(t, TileCount, cur.height) \in Nat
    BY <2>1, ViewFacts, TileFacts
  <2>3. Written \subseteq Nat
    BY <2>2 DEF Written
  <2>4. [id |-> cur.id, height |-> cur.height, rows |-> Written] \in Images
    BY <2>1, <2>3, ViewFacts DEF Images
  <2>5. QED
    BY <1>7, <2>4 DEF EmitImage
<1>8. CASE AfterRender
  BY <1>8 DEF AfterRender
<1>9. CASE WakeUp
  BY <1>9 DEF WakeUp
<1>10. ASSUME NEW t \in Tiles, TileStep(t) PROVE TypeOK'
  BY <1>10 DEF TileStep, BeginTile, AbortTile, RenderRow, EndTile
<1>11. CASE UNCHANGED vars
  BY <1>11 DEF vars
<1>12. QED
  BY <1>1, <1>2, <1>3, <1>4, <1>5, <1>6, <1>7, <1>8, <1>9, <1>10, <1>11
     DEF Next, GuiStep, NewRequest, ThreadStep, Idle

-----------------------------------------------------------------------------
(* The invariant, one conjunct at a time *)

\* Every step keeps the link between the parameters, the copy and restart.
LEMMA FollowedStep == TypeOK /\ IInv /\ [Next]_vars => ParamsFollowed'
<1> SUFFICES ASSUME TypeOK, IInv, [Next]_vars PROVE ParamsFollowed'
  OBVIOUS
<1> USE DEF TypeOK, IInv, ParamsFollowed, ThreadPcs, flags, canvas
<1>1. ASSUME NEW n \in 1 .. MaxRequests, NEW view \in Views(n), Request(view)
      PROVE  ParamsFollowed'
  <2>1. view \in AllViews
    BY <1>1 DEF AllViews
  <2>2. QED
    BY <1>1, <2>1 DEF Request, WokenThread
<1>2. CASE UpdatePixmap \/ EndDestroy
  BY <1>2 DEF UpdatePixmap, EndDestroy
<1>3. CASE BeginDestroy
  BY <1>3 DEF BeginDestroy, WokenThread
<1>4. CASE CopyParams
  BY <1>4 DEF CopyParams
<1>5. CASE EndPass \/ EmitImage
  BY <1>5 DEF EndPass, EmitImage
<1>6. CASE AfterRender
  BY <1>6 DEF AfterRender, NothingToDo
<1>7. CASE WakeUp
  BY <1>7 DEF WakeUp
<1>8. ASSUME NEW t \in Tiles, TileStep(t) PROVE ParamsFollowed'
  BY <1>8 DEF TileStep, BeginTile, AbortTile, RenderRow, EndTile
<1>9. CASE UNCHANGED vars
  BY <1>9 DEF vars
<1>10. QED
  BY <1>1, <1>2, <1>3, <1>4, <1>5, <1>6, <1>7, <1>8, <1>9
     DEF Next, GuiStep, NewRequest, ThreadStep, Idle

\* Every step keeps tiles running only inside a pass, and only while the renderer lives.
LEMMA QuietStep == TypeOK /\ IInv /\ [Next]_vars => TilesQuiet'
<1> SUFFICES ASSUME TypeOK, IInv, [Next]_vars PROVE TilesQuiet'
  OBVIOUS
<1> USE DEF TypeOK, IInv, TilesQuiet, ThreadPcs, flags, canvas
<1>1. ASSUME NEW n \in 1 .. MaxRequests, NEW view \in Views(n), Request(view)
      PROVE  TilesQuiet'
  BY <1>1 DEF Request, WokenThread
<1>2. CASE UpdatePixmap
  BY <1>2 DEF UpdatePixmap
<1>3. CASE BeginDestroy
  BY <1>3 DEF BeginDestroy, WokenThread
<1>4. CASE EndDestroy
  BY <1>4 DEF EndDestroy, ThreadEnded
<1>5. CASE CopyParams
  BY <1>5 DEF CopyParams
<1>6. CASE EndPass
  BY <1>6 DEF EndPass
<1>7. CASE EmitImage \/ AfterRender \/ WakeUp
  BY <1>7 DEF EmitImage, AfterRender, WakeUp
<1>8. ASSUME NEW t \in Tiles, TileStep(t) PROVE TilesQuiet'
  BY <1>8 DEF TileStep, BeginTile, AbortTile, RenderRow, EndTile, TileStates
<1>9. CASE UNCHANGED vars
  BY <1>9 DEF vars
<1>10. QED
  BY <1>1, <1>2, <1>3, <1>4, <1>5, <1>6, <1>7, <1>8, <1>9
     DEF Next, GuiStep, NewRequest, ThreadStep, Idle

\* Every step keeps what the states of the tiles say of the rows drawn.
LEMMA DrawnStep == TypeOK /\ IInv /\ [Next]_vars => PassDrawn'
<1> SUFFICES ASSUME TypeOK, IInv, [Next]_vars PROVE PassDrawn'
  OBVIOUS
<1> USE DEF TypeOK, IInv, PassDrawn, ThreadPcs, flags, canvas
<1>1. ASSUME UNCHANGED <<cur, tile, row>>, thread' = thread \/ thread' \notin {"pass", "emit"}
      PROVE  PassDrawn'
  BY <1>1 DEF RowsDrawn, Rows
<1>2. ASSUME NEW n \in 1 .. MaxRequests, NEW view \in Views(n), Request(view)
      PROVE  PassDrawn'
  BY <1>1, <1>2 DEF Request, WokenThread
<1>3. CASE UpdatePixmap \/ BeginDestroy \/ EndDestroy
  BY <1>1, <1>3 DEF UpdatePixmap, BeginDestroy, EndDestroy, WokenThread
<1>4. CASE CopyParams
  <2>1. params \in AllViews
    BY <1>4 DEF CopyParams, ParamsFollowed
  <2>2. \A t \in Tiles : TileBegin(t, TileCount, params.height) \in Nat
    BY <2>1, ViewFacts, TileFacts
  <2>3. \A t \in Tiles : tile'[t] = "todo" /\ row'[t] = TileBegin(t, TileCount, params.height)
    BY <1>4 DEF CopyParams
  <2>4. \A t \in Tiles : RowsDrawn(t)'
    BY <1>4, <2>2, <2>3 DEF CopyParams, RowsDrawn
  <2>5. QED
    BY <1>4, <2>1, <2>4 DEF CopyParams
<1>5. CASE EndPass
  <2>1. UNCHANGED <<cur, tile, row>> /\ thread = "pass"
    BY <1>5 DEF EndPass
  <2>2. thread' = "emit" => \A t \in Tiles : tile[t] \in {"Done", "AllBlack"}
    BY <1>5 DEF EndPass, PassResult, TileStates
  <2>3. QED
    BY <1>5, <2>1, <2>2 DEF EndPass, RowsDrawn, Rows
<1>6. CASE EmitImage \/ AfterRender \/ WakeUp
  BY <1>1, <1>6 DEF EmitImage, AfterRender, WakeUp
<1>7. ASSUME NEW t \in Tiles, TileStep(t) PROVE PassDrawn'
  <2>1. thread = "pass" /\ thread' = thread /\ cur' = cur
    BY <1>7 DEF TileStep, BeginTile, AbortTile, RenderRow, EndTile, TilesQuiet
  <2>2. /\ cur \in AllViews
        /\ TileBegin(t, TileCount, cur.height) \in Nat
        /\ TileEnd(t, TileCount, cur.height) \in Nat
    BY <2>1, ViewFacts, TileFacts
  <2>3. ASSUME NEW u \in Tiles, u # t PROVE RowsDrawn(u)'
    BY <1>7, <2>1, <2>3
       DEF TileStep, BeginTile, AbortTile, RenderRow, EndTile, RowsDrawn, Rows
  <2>4. RowsDrawn(t)'
    <3>1. CASE BeginTile(t)
      BY <2>1, <3>1 DEF BeginTile, RowsDrawn, Rows
    <3>2. CASE AbortTile(t)
      BY <2>1, <3>2 DEF AbortTile, RowsDrawn, Rows
    <3>3. CASE RenderRow(t)
      BY <2>1, <2>2, <3>3 DEF RenderRow, RowsDrawn, Rows, TileRows
    <3>4. CASE EndTile(t)
      BY <2>1, <3>4 DEF EndTile, RowsDrawn, Rows
    <3>5. QED
      BY <1>7, <3>1, <3>2, <3>3, <3>4 DEF TileStep
  <2>5. QED
    BY <2>1, <2>2, <2>3, <2>4
<1>8. CASE UNCHANGED vars
  BY <1>1, <1>8 DEF vars
<1>9. QED
  BY <1>2, <1>3, <1>4, <1>5, <1>6, <1>7, <1>8 DEF Next, GuiStep, NewRequest, ThreadStep, Idle

\* Where the render thread emits, what the tiles wrote is what they cover.
LEMMA WrittenIsCovered ==
  ASSUME TypeOK, PassDrawn, thread = "emit"
  PROVE  Written = CoveredRows(TileCount, cur.height) /\ cur.height \in Heights
<1>1. cur \in AllViews /\ \A t \in Tiles : RowsDrawn(t) /\ tile[t] \in {"Done", "AllBlack"}
  BY DEF PassDrawn
<1>2. cur.height \in Heights /\ cur.height \in Nat \ {0}
  BY <1>1, ViewFacts
<1>3. ASSUME NEW t \in Tiles
      PROVE  TileBegin(t, TileCount, cur.height) .. row[t] - 1
               = TileRows(t, TileCount, cur.height)
  <2>1. /\ TileBegin(t, TileCount, cur.height) \in Nat
        /\ TileEnd(t, TileCount, cur.height) \in Nat
        /\ row[t] \in Nat
    BY <1>2, TileFacts DEF TypeOK
  <2>2. QED
    BY <1>1, <2>1 DEF RowsDrawn, Rows, TileRows
<1>4. Tiles = 0 .. TileCount - 1
  BY DEF Tiles
<1>5. QED
  BY <1>2, <1>3, <1>4 DEF Written, CoveredRows

\* Every step keeps the images that are posted or shown complete.
LEMMA UntornStep == TypeOK /\ IInv /\ [Next]_vars => ImagesUntorn'
<1> SUFFICES ASSUME TypeOK, IInv, [Next]_vars PROVE ImagesUntorn'
  OBVIOUS
<1> USE DEF IInv, flags, canvas
<1>1. ASSUME UNCHANGED <<posted, pixmap>> PROVE ImagesUntorn'
  BY <1>1 DEF ImagesUntorn, PostedOrShown
<1>2. ASSUME NEW n \in 1 .. MaxRequests, NEW view \in Views(n), Request(view)
      PROVE  ImagesUntorn'
  BY <1>1, <1>2 DEF Request
<1>3. CASE UpdatePixmap
  <2>1. /\ posted \in Seq(Images) /\ posted # <<>>
        /\ pixmap' = Head(posted) /\ posted' = Tail(posted)
    BY <1>3 DEF UpdatePixmap, TypeOK
  <2>2. pixmap' = posted[1] /\ 1 \in 1 .. Len(posted)
    BY <2>1
  <2>3. ASSUME NEW k \in 1 .. Len(posted') PROVE k + 1 \in 1 .. Len(posted) /\ posted'[k] = posted[k + 1]
    BY <2>1, <2>3
  <2>4. PostedOrShown' \subseteq PostedOrShown
    BY <2>2, <2>3 DEF PostedOrShown
  <2>5. QED
    BY <2>4 DEF ImagesUntorn
<1>4. CASE BeginDestroy
  BY <1>1, <1>4 DEF BeginDestroy
<1>5. CASE EndDestroy
  <2>1. pixmap' = pixmap /\ posted' = <<>>
    BY <1>5 DEF EndDestroy
  <2>2. PostedOrShown' \subseteq PostedOrShown
    BY <2>1 DEF PostedOrShown
  <2>3. QED
    BY <2>2 DEF ImagesUntorn
<1>6. CASE EmitImage
  <2> DEFINE drawn == [id |-> cur.id, height |-> cur.height, rows |-> Written]
  <2>1. /\ posted \in Seq(Images) /\ thread = "emit"
        /\ pixmap' = pixmap /\ posted' = Append(posted, drawn)
    BY <1>6 DEF EmitImage, TypeOK
  <2>2. drawn.height \in Heights /\ drawn.rows = CoveredRows(TileCount, drawn.height)
    BY <2>1, WrittenIsCovered
  <2> HIDE DEF drawn
  <2>3. ASSUME NEW k \in 1 .. Len(posted')
        PROVE  posted'[k] = drawn \/ (k \in 1 .. Len(posted) /\ posted'[k] = posted[k])
    BY <2>1, <2>3
  <2>4. PostedOrShown' \subseteq PostedOrShown \cup {drawn}
    BY <2>1, <2>3 DEF PostedOrShown
  <2>5. QED
    BY <2>2, <2>4 DEF ImagesUntorn
<1>7. CASE CopyParams \/ EndPass \/ AfterRender \/ WakeUp
  BY <1>1, <1>7 DEF CopyParams, EndPass, AfterRender, WakeUp
<1>8. ASSUME NEW t \in Tiles, TileStep(t) PROVE ImagesUntorn'
  BY <1>1, <1>8 DEF TileStep, BeginTile, AbortTile, RenderRow, EndTile
<1>9. CASE UNCHANGED vars
  BY <1>1, <1>9 DEF vars
<1>10. QED
  BY <1>2, <1>3, <1>4, <1>5, <1>6, <1>7, <1>8, <1>9 DEF Next, GuiStep, NewRequest, ThreadStep, Idle

-----------------------------------------------------------------------------
(* Theorems *)

\* The strengthened invariant holds in every reachable state, for every number of threads.
THEOREM Inductive == Spec => [](TypeOK /\ IInv)
<1>1. TypeOK /\ IInv /\ [Next]_vars => (TypeOK /\ IInv)'
  BY TypeStep, FollowedStep, QuietStep, DrawnStep, UntornStep DEF IInv
<1>2. QED
  BY InitFacts, <1>1, PTL DEF Spec

\* Variables keep their types.
THEOREM Typing == Spec => []TypeOK
BY Inductive, PTL

\* The sleeping render thread has always worked on the newest request.
THEOREM RequestsKept == Spec => []NoLostRequest
<1>1. IInv => NoLostRequest
  BY DEF IInv, ParamsFollowed, NoLostRequest
<1>2. QED
  BY <1>1, Inductive, PTL

\* Aborted passes stay off screen: whatever is posted or shown has every row that the
\* tiles of an image of its own height cover.
THEOREM NoTornImage == Spec => []ImagesUntorn
<1>1. IInv => ImagesUntorn
  BY DEF IInv
<1>2. QED
  BY <1>1, Inductive, PTL

\* delete renderer finds no tile running.
THEOREM SafeDelete == Spec => []RendererUnusedWhenDeleted
<1>1. IInv => RendererUnusedWhenDeleted
  BY DEF IInv, TilesQuiet, RendererUnusedWhenDeleted
<1>2. QED
  BY <1>1, Inductive, PTL

\* Every image that is posted or shown lacks the last of its own rows, and no row outside
\* it was written, for every height and every number of threads.
THEOREM ImagesMissLastRow ==
  Spec => [](\A im \in PostedOrShown \ {NoImage} :
               /\ im.rows \subseteq 0 .. im.height - 1
               /\ im.height - 1 \notin im.rows)
<1>1. IInv => \A im \in PostedOrShown \ {NoImage} :
                /\ im.rows \subseteq 0 .. im.height - 1
                /\ im.height - 1 \notin im.rows
  <2> SUFFICES ASSUME IInv, NEW im \in PostedOrShown \ {NoImage}
               PROVE  /\ im.rows \subseteq 0 .. im.height - 1
                      /\ im.height - 1 \notin im.rows
    OBVIOUS
  <2>1. im.height \in Heights /\ im.rows = CoveredRows(TileCount, im.height)
    BY DEF IInv, ImagesUntorn
  <2>2. im.height \in Nat \ {0}
    BY <2>1, RenderAssumption
  <2>3. TileCount \in Nat /\ TileCount >= 2
    BY RenderAssumption DEF TileCount
  <2>4. QED
    BY <2>1, <2>2, <2>3, TilesInImage, LastRowNeverCovered
<1>2. QED
  BY <1>1, Inductive, PTL

-----------------------------------------------------------------------------
(* The view *)

\* C++ halving of an int: what it returns, and what it loses.
LEMMA HalfBounds ==
  ASSUME NEW n \in Int
  PROVE  /\ Half(n) \in Int
         /\ n - 1 <= 2 * Half(n) /\ 2 * Half(n) <= n + 1
         /\ n % 2 = 0 => 2 * Half(n) = n
BY SMT DEF Half

\* The middle pixel lies at most half a pixel left of the middle.
LEMMA MiddleBounds ==
  ASSUME NEW n \in Nat
  PROVE  /\ MiddlePixel(n) \in Int
         /\ n - 1 <= 2 * MiddlePixel(n) /\ 2 * MiddlePixel(n) <= n
BY SMT DEF MiddlePixel

\* Multiplication by a positive number keeps the order of integers.
LEMMA ScaledOrder ==
  ASSUME NEW a \in Int, NEW b \in Int, NEW s \in Nat, a <= b
  PROVE  a * s <= b * s
BY SMT

\* What is asked for is a view, and the newest one in the sequence of requests.
LEMMA RenderAsks ==
  ASSUME ViewTypeOK, NEW c \in Int, NEW s \in Scales, NEW w \in Widths, Render(c, s, w)
  PROVE  /\ asked' \in Seq(ViewSet)
         /\ Len(asked') = Len(asked) + 1
         /\ asked'[Len(asked')] = [center |-> c, scale |-> s, width |-> w]
<1>1. [center |-> c, scale |-> s, width |-> w] \in ViewSet
  BY DEF ViewSet
<1> QED  BY <1>1 DEF Render, ViewTypeOK

\* The correction of a drag is a number of pixels, whatever the pixmap.
LEMMA DragDeltaType ==
  ASSUME ViewIInv, NEW o \in Int
  PROVE  DragDelta(o) \in Int
<1>1. ImageWidth \in Int
  <2>1. CASE image = 0
    BY <2>1 DEF ImageWidth
  <2>2. CASE image # 0
    <3>1. asked[image] \in ViewSet
      BY <2>2 DEF ViewIInv, ViewTypeOK, OffsetOfDrag
    <3>2. asked[image].width \in Int
      <4> DEFINE v == asked[image]
      <4>1. v \in ViewSet
        BY <3>1
      <4> HIDE DEF v
      <4>2. v.width \in Widths
        BY <4>1 DEF ViewSet
      <4>3. Widths \subseteq Int
        BY ViewAssumption
      <4>4. v.width \in Int
        BY <4>2, <4>3
      <4> QED  BY <4>4 DEF v
    <3> QED  BY <2>2, <3>2 DEF ImageWidth
  <2> QED  BY <2>1, <2>2
<1>2. width \in Int
  BY ViewAssumption DEF ViewIInv, ViewTypeOK
<1>3. Half(width - ImageWidth) \in Int
  BY <1>1, <1>2, HalfBounds
<1> QED  BY <1>3 DEF DragDelta

\* Before the first request there is no offset.
LEMMA ViewStarts == ViewInit => ViewIInv
<1> SUFFICES ASSUME ViewInit
             PROVE  ViewIInv
  OBVIOUS
<1>1. ViewTypeOK
  <2>1. center \in Int /\ asked \in Seq(ViewSet) /\ image \in Nat /\ offset \in Int /\ lastDrag \in Int
    BY DEF ViewInit, NoPoint
  <2>2. pressed \in BOOLEAN
    BY DEF ViewInit
  <2> QED  BY <2>1, <2>2 DEF ViewInit, ViewTypeOK
<1>2. NewestIsView
  BY DEF ViewInit, NewestIsView
<1>3. OffsetOfDrag
  BY DEF ViewInit, OffsetOfDrag
<1> QED  BY <1>1, <1>2, <1>3 DEF ViewIInv

\* A request for the view that the widget has from now on, with a drag or without, makes
\* the image older than the newest request.
LEMMA RequestKeepsInvariant ==
  ASSUME ViewIInv, center' \in Int, scale' \in Scales, width' \in Widths,
         Render(center', scale', width'), image' = image,
         offset' \in Int, lastDrag' \in Int, pressed' \in BOOLEAN
  PROVE  ViewIInv'
<1>1. /\ asked' \in Seq(ViewSet)
      /\ Len(asked') = Len(asked) + 1
      /\ asked'[Len(asked')] = [center |-> center', scale |-> scale', width |-> width']
  BY RenderAsks DEF ViewIInv
<1>2. ViewTypeOK'
  BY <1>1 DEF ViewTypeOK, ViewIInv
<1>3. NewestIsView'
  BY <1>1 DEF NewestIsView
<1>4. OffsetOfDrag'
  <2>1. Len(asked) \in Nat /\ image \in Nat
    BY DEF ViewIInv, ViewTypeOK
  <2>2. image' < Len(asked')
    BY <1>1, <2>1 DEF ViewIInv, OffsetOfDrag
  <2>3. Len(asked') \in Nat
    BY <1>1
  <2> QED  BY <2>1, <2>2, <2>3 DEF OffsetOfDrag
<1> QED  BY <1>2, <1>3, <1>4 DEF ViewIInv

\* Every step keeps the invariant.
LEMMA ViewStep == ViewIInv /\ [ViewNext]_viewVars => ViewIInv'
<1> SUFFICES ASSUME ViewIInv, [ViewNext]_viewVars
             PROVE  ViewIInv'
  OBVIOUS
<1> USE DEF mouse
<1>1. ASSUME NEW w \in Widths, ResizeEvent(w)
      PROVE  ViewIInv'
  <2>1. center' \in Int /\ scale' \in Scales /\ width' \in Widths
    BY <1>1 DEF ResizeEvent, ViewIInv, ViewTypeOK
  <2>2. offset' \in Int /\ lastDrag' \in Int /\ pressed' \in BOOLEAN /\ image' = image
    BY <1>1 DEF ResizeEvent, ViewIInv, ViewTypeOK
  <2>3. Render(center', scale', width')
    BY <1>1 DEF ResizeEvent
  <2> QED  BY <2>1, <2>2, <2>3, RequestKeepsInvariant
<1>2. ASSUME NEW s \in Scales, Zoom(s)
      PROVE  ViewIInv'
  <2>1. center' \in Int /\ scale' \in Scales /\ width' \in Widths
    BY <1>2 DEF Zoom, ViewIInv, ViewTypeOK
  <2>2. offset' \in Int /\ lastDrag' \in Int /\ pressed' \in BOOLEAN /\ image' = image
    BY <1>2 DEF Zoom, ViewIInv, ViewTypeOK
  <2>3. Render(center', scale', width')
    BY <1>2 DEF Zoom
  <2> QED  BY <2>1, <2>2, <2>3, RequestKeepsInvariant
<1>3. CASE KeyScroll
  <2>1. PICK d \in Int : Scroll(d)
    BY <1>3, ViewAssumption DEF KeyScroll
  <2>2. center' \in Int /\ scale' \in Scales /\ width' \in Widths
    BY <2>1, ViewAssumption DEF Scroll, ViewIInv, ViewTypeOK
  <2>3. offset' \in Int /\ lastDrag' \in Int /\ pressed' \in BOOLEAN /\ image' = image
    BY <1>3 DEF KeyScroll, ViewIInv, ViewTypeOK
  <2>4. Render(center', scale', width')
    BY <2>1 DEF Scroll
  <2> QED  BY <2>2, <2>3, <2>4, RequestKeepsInvariant
<1>4. ASSUME NEW p \in Positions, MousePress(p)
      PROVE  ViewIInv'
  BY <1>4, ViewAssumption DEF MousePress, ViewIInv, ViewTypeOK, NewestIsView, OffsetOfDrag
<1>5. ASSUME NEW p \in Positions, MouseMove(p)
      PROVE  ViewIInv'
  BY <1>5, ViewAssumption DEF MouseMove, ViewIInv, ViewTypeOK, NewestIsView, OffsetOfDrag
<1>6. ASSUME NEW p \in Positions, MouseRelease(p)
      PROVE  ViewIInv'
  <2>1. offset' \in Int /\ lastDrag' \in Int /\ image' = image
    BY <1>6, ViewAssumption DEF MouseRelease, ViewIInv, ViewTypeOK, NoPoint
  <2>2. DragDelta(offset') \in Int
    BY <2>1, DragDeltaType
  <2>3. Scroll(DragDelta(offset'))
    BY <1>6 DEF MouseRelease
  <2>4. center' \in Int /\ scale' \in Scales /\ width' \in Widths
    BY <2>2, <2>3, ViewAssumption DEF Scroll, ViewIInv, ViewTypeOK
  <2>5. Render(center', scale', width')
    BY <2>3 DEF Scroll
  <2>6. pressed' \in BOOLEAN
    BY <1>6 DEF MouseRelease
  <2> QED  BY <2>1, <2>4, <2>5, <2>6, RequestKeepsInvariant
<1>7. ASSUME NEW r \in image + 1 .. Len(asked), ImageArrives(r)
      PROVE  ViewIInv'
  BY <1>7 DEF ImageArrives, ClearedOffset, NoPoint, ViewIInv, ViewTypeOK, NewestIsView,
              OffsetOfDrag
<1>8. CASE UNCHANGED viewVars
  BY <1>8 DEF viewVars, ViewIInv, ViewTypeOK, NewestIsView, OffsetOfDrag
<1> QED  BY <1>1, <1>2, <1>3, <1>4, <1>5, <1>6, <1>7, <1>8 DEF ViewNext

\* A view that is shown as it was asked for has its centre in the middle of the widget.
LEMMA InvariantSettles == ViewIInv => SettledViewCentered
<1> SUFFICES ASSUME ViewIInv, image = Len(asked), image > 0, ~ pressed
             PROVE  SeenInMiddle(asked[image], offset) = center
  BY DEF SettledViewCentered
<1> DEFINE v == asked[image]
<1>1. v = [center |-> center, scale |-> scale, width |-> width] /\ offset = 0
  BY DEF ViewIInv, ViewTypeOK, NewestIsView, OffsetOfDrag, NoPoint
<1>2. center \in Int /\ scale \in Int /\ width \in Int
  BY ViewAssumption DEF ViewIInv, ViewTypeOK
<1>3. DrawnLeft(v, offset) = 0 /\ MiddlePixel(v.width) = MiddlePixel(width)
  BY <1>1, <1>2 DEF DrawnLeft
<1>4. MiddlePixel(width) \in Int /\ MiddlePixel(width) * scale \in Int
  <2>1. MiddlePixel(width) \in Int
    BY ViewAssumption, MiddleBounds DEF ViewIInv, ViewTypeOK
  <2> QED  BY <1>2, <2>1
<1> QED  BY <1>1, <1>2, <1>3, <1>4 DEF SeenInMiddle

\* What the truncations lose between a centre and the point seen, with w the width of the
\* widget and s its scale, v and t those of the image, and n the width it is drawn at.
LEMMA TruncationsBounded ==
  ASSUME NEW w \in Nat, NEW v \in Nat, NEW s \in Nat \ {0}, NEW t \in Nat \ {0},
         NEW n \in Int, n * s <= v * t, v * t < n * s + s,
         NEW e \in Int,
         e = (Half(w - v) - MiddlePixel(w) + Half(v - n)) * s + MiddlePixel(v) * t
  PROVE  - 2 * s - t <= 2 * e /\ 2 * e < 4 * s
<1> DEFINE m == Half(w - v) - MiddlePixel(w) + Half(v - n)
           k == MiddlePixel(v)
<1>1. /\ Half(w - v) \in Int /\ Half(v - n) \in Int
      /\ MiddlePixel(w) \in Int /\ k \in Int
  <2>1. w - v \in Int /\ v - n \in Int
    OBVIOUS
  <2> QED  BY <2>1, HalfBounds, MiddleBounds
<1>2. m \in Int
  BY <1>1
<1>3. - n - 2 <= 2 * m /\ 2 * m <= 3 - n
  <2>1. w - v \in Int /\ v - n \in Int
    OBVIOUS
  <2>2. w - v - 1 <= 2 * Half(w - v) /\ 2 * Half(w - v) <= w - v + 1
    BY <2>1, HalfBounds
  <2>3. v - n - 1 <= 2 * Half(v - n) /\ 2 * Half(v - n) <= v - n + 1
    BY <2>1, HalfBounds
  <2>4. w - 1 <= 2 * MiddlePixel(w) /\ 2 * MiddlePixel(w) <= w
    BY MiddleBounds
  <2> QED  BY <1>1, <2>2, <2>3, <2>4
<1>4. v - 1 <= 2 * k /\ 2 * k <= v
  BY MiddleBounds
<1> HIDE DEF m, k
<1>5. (- n - 2) * s <= (2 * m) * s /\ (2 * m) * s <= (3 - n) * s
  BY <1>2, <1>3, ScaledOrder
<1>6. (v - 1) * t <= (2 * k) * t /\ (2 * k) * t <= v * t
  BY <1>1, <1>4, ScaledOrder
<1>7. e = m * s + k * t
  BY DEF m, k
<1>8. /\ m * s \in Int /\ k * t \in Int /\ n * s \in Int /\ v * t \in Int
      /\ (2 * m) * s = 2 * (m * s) /\ (2 * k) * t = 2 * (k * t)
      /\ (- n - 2) * s = - (n * s) - 2 * s /\ (3 - n) * s = 3 * s - n * s
      /\ (v - 1) * t = v * t - t
  BY <1>1, <1>2, SMT
<1> QED  BY <1>5, <1>6, <1>7, <1>8

\* A release asks for the point that the user sees in the middle, at any scale.
LEMMA ReleaseStep ==
  ASSUME ViewIInv, NEW p \in Positions, MouseRelease(p), image > 0,
         asked[image].center = center
  PROVE  CentersSeen(center', asked[image], offset')
<1> DEFINE v == asked[image]
           o == offset'
           n == DrawnWidth(v)
           e == center' - SeenInMiddle(v, o)
<1>1. v \in ViewSet
  BY DEF ViewIInv, ViewTypeOK, OffsetOfDrag
<1>2. /\ v.width \in Nat /\ v.scale \in Nat \ {0}
      /\ width \in Nat
      /\ scale \in Nat \ {0}
      /\ center \in Int /\ o \in Int
  <2>1. v.width \in Nat /\ v.scale \in Nat \ {0}
    <3> HIDE DEF v
    <3>1. v.width \in Widths /\ v.scale \in Scales
      BY <1>1 DEF ViewSet
    <3> QED  BY <3>1, ViewAssumption
  <2>2. width \in Nat /\ scale \in Nat \ {0} /\ center \in Int
    BY ViewAssumption DEF ViewIInv, ViewTypeOK
  <2>3. o \in Int
    BY ViewAssumption DEF ViewIInv, ViewTypeOK, MouseRelease
  <2> QED  BY <2>1, <2>2, <2>3
<1>3. center' = center + DragDelta(o) * scale
  BY DEF MouseRelease, Scroll
<1>4. DragDelta(o) = Half(width - v.width) - o
  BY DEF DragDelta, ImageWidth
<1>5. v.center = center
  OBVIOUS
<1> DEFINE hm == Half(width - v.width)
           mw == MiddlePixel(width)
           mv == MiddlePixel(v.width)
           left == DrawnLeft(v, o)
<1>6. hm \in Int /\ mw \in Int /\ mv \in Int
  <2>1. width - v.width \in Int
    BY <1>2
  <2> QED  BY <1>2, <2>1, HalfBounds, MiddleBounds
<1>7. n \in Int /\ n * scale <= v.width * v.scale /\ v.width * v.scale < n * scale + scale
  <2>1. CASE scale = v.scale
    BY <1>2, <2>1 DEF DrawnWidth
  <2>2. CASE scale # v.scale
    <3>1. n = (v.width * v.scale) \div scale
      BY <2>2 DEF DrawnWidth
    <3> HIDE DEF v, n
    <3>2. v.width * v.scale \in Nat
      BY <1>2
    <3> DEFINE x == v.width * v.scale
    <3>3. /\ x \div scale \in Nat /\ scale * (x \div scale) <= x
          /\ x < scale * (x \div scale) + scale
      <4> HIDE DEF x
      <4> QED  BY <1>2, <3>2, DivBounds DEF x
    <3>4. scale * (x \div scale) = (x \div scale) * scale
      BY <1>2, <3>3
    <3> QED  BY <3>1, <3>3, <3>4
  <2> QED  BY <2>1, <2>2
<1>8. left = o + Half(v.width - n) /\ Half(v.width - n) \in Int
  <2>1. v.width - n \in Int
    BY <1>2, <1>7
  <2>2. Half(v.width - n) \in Int
    BY <2>1, HalfBounds
  <2>3. CASE scale = v.scale
    <3>1. left = o /\ v.width - n = 0
      BY <1>2, <2>3 DEF DrawnLeft, DrawnWidth
    <3>2. Half(0) = 0
      BY DEF Half
    <3> QED  BY <1>2, <2>2, <3>1, <3>2
  <2>4. CASE scale # v.scale
    BY <2>2, <2>4 DEF DrawnLeft
  <2> QED  BY <2>3, <2>4
<1>9. e = (center + (hm - o) * scale) - (center + (mw - left) * scale - mv * v.scale)
  BY <1>3, <1>4, <1>5 DEF SeenInMiddle
<1> HIDE DEF v, o, n, e, hm, mw, mv, left
<1>10. e = (hm - mw + Half(v.width - n)) * scale + mv * v.scale /\ e \in Int
  <2> DEFINE h == Half(v.width - n)
  <2>1. h \in Int /\ left = o + h
    BY <1>8
  <2> HIDE DEF h
  <2>2. (hm - o) * scale - (mw - left) * scale = (hm - mw + h) * scale
    <3>1. hm - o \in Int /\ mw - left \in Int /\ hm - mw + h = (hm - o) - (mw - left)
      BY <1>2, <1>6, <2>1
    <3> DEFINE a == hm - o
               b == mw - left
    <3>2. a \in Int /\ b \in Int /\ hm - mw + h = a - b
      BY <3>1
    <3> HIDE DEF a, b
    <3>3. a * scale - b * scale = (a - b) * scale
      BY <1>2, <3>2, SMT
    <3> QED  BY <3>2, <3>3 DEF a, b
  <2>3. /\ (hm - o) * scale \in Int /\ (mw - left) * scale \in Int
        /\ (hm - mw + h) * scale \in Int /\ mv * v.scale \in Int
    BY <1>2, <1>6, <2>1
  <2> QED  BY <1>2, <1>9, <2>2, <2>3 DEF h
<1>11. - 2 * scale - v.scale <= 2 * e /\ 2 * e < 4 * scale
  BY <1>2, <1>7, <1>10, TruncationsBounded DEF hm, mw, mv
<1>12. - 2 * CoarsePixel(v) < e /\ e < 2 * CoarsePixel(v)
  BY <1>2, <1>10, <1>11 DEF CoarsePixel
<1>13. ASSUME scale = v.scale, (width - v.width) % 2 = 0
       PROVE  e = 0
  <2>1. v.width - n = 0
    BY <1>2, <1>13 DEF DrawnWidth, n
  <2>2. Half(v.width - n) = 0
    BY <2>1 DEF Half
  <2>3. hm - mw + mv = 0
    <3>1. 2 * hm = width - v.width
      <4>1. width - v.width \in Int
        BY <1>2
      <4> QED  BY <1>13, <4>1, HalfBounds DEF hm
    <3>2. /\ width - 1 <= 2 * mw /\ 2 * mw <= width
          /\ v.width - 1 <= 2 * mv /\ 2 * mv <= v.width
      BY <1>2, MiddleBounds DEF mw, mv
    <3> QED  BY <1>2, <1>6, <3>1, <3>2
  <2>4. e = (hm - mw) * scale + mv * scale
    BY <1>2, <1>6, <1>10, <1>13, <2>2
  <2>5. (hm - mw) * scale + mv * scale = (hm - mw + mv) * scale
    <3> DEFINE a == hm - mw
    <3>1. a \in Int
      BY <1>6
    <3> HIDE DEF a
    <3>2. a * scale + mv * scale = (a + mv) * scale
      BY <1>2, <1>6, <3>1, SMT
    <3> QED  BY <3>2 DEF a
  <2> QED  BY <1>2, <2>3, <2>4, <2>5
<1> QED  BY <1>12, <1>13 DEF CentersSeen, e, v, o

\* The invariant that the two theorems rest on: requests, image and offset fit together.
THEOREM ViewInvariant == ViewSpec => []ViewIInv
  BY ViewStarts, ViewStep, PTL DEF ViewSpec

\* Whatever was dragged, zoomed, scrolled or resized, the newest image, once it is there,
\* has the centre in the middle of the widget (updatePixmap() and paintEvent()).
THEOREM SettledCentered == ViewSpec => []SettledViewCentered
  BY ViewInvariant, InvariantSettles, PTL

\* Releasing the mouse asks for what is seen (mouseReleaseEvent()), for every width, odd or
\* even, however the image was scaled and the widget resized since: up to the pixels that
\* the halvings of C++ lose, and exactly where they lose none.
THEOREM ReleaseCenters == ViewSpec => ReleaseCentersWhatIsSeen
<1> DEFINE Release ==
      pressed /\ ~ pressed' /\ image > 0 =>
        LET v == asked[image]
        IN  v.center = center => CentersSeen(center', v, offset')
<1>1. ViewIInv /\ [ViewNext]_viewVars => [Release]_viewVars
  <2> SUFFICES ASSUME ViewIInv, ViewNext, pressed, ~ pressed', image > 0,
                      asked[image].center = center
               PROVE  CentersSeen(center', asked[image], offset')
    BY DEF viewVars
  <2>1. PICK p \in Positions : MouseRelease(p)
    BY DEF ViewNext, ResizeEvent, Zoom, KeyScroll, MousePress, MouseMove, ImageArrives, mouse
  <2> QED  BY <2>1, ReleaseStep
<1> QED  BY <1>1, ViewInvariant, PTL DEF ViewSpec, ReleaseCentersWhatIsSeen

=============================================================================
