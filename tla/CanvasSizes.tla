------------------------------ MODULE CanvasSizes ------------------------------
(***************************************************************************)
(* emscripten_multiscreen: a program that draws on several canvases and    *)
(* adapts their render sizes when the browser's window is resized.         *)
(*                                                                         *)
(* A canvas has a CSS size, which the browser lays out, and a render size, *)
(* which the program sets. The page gives its canvases a CSS width in      *)
(* percent of the window; a page that gives them none has the render size  *)
(* as the CSS size. Widths stand for heights too.                          *)
(*                                                                         *)
(* CSS sizes and pixel ratios are doubles, here whole numbers of parts of a *)
(* pixel and of 1. The attribute width of a canvas is an integer: the      *)
(* browser truncates what is stored in it.                                 *)
(***************************************************************************)
EXTENDS Naturals

CONSTANTS
  Canvases,      \* g_canvasIds
  PixelParts,    \* the parts of a pixel, and of a ratio of 1
  WindowWidths,  \* CSS widths that the window gives to a canvas, in parts
  PixelRatios,   \* values of window.devicePixelRatio, in parts
  MaxSize        \* bound: resizing goes on below this render size

VARIABLES
  styled,        \* the page's style sets a CSS size
  windowWidth,   \* the CSS width of a canvas with a style, in parts
  pixelRatio,    \* window.devicePixelRatio
  renderSize,    \* renderSize[c]: the attribute width of canvas c
  contexts,      \* g_contexts: the canvases that have one
  resizePending, \* the browser has not yet called the resize callback
  resized        \* history: the callback was called

vars == <<styled, windowWidth, pixelRatio, renderSize, contexts, resizePending, resized>>

DefaultSize == 300   \* of an HTML canvas without attributes

TypeOK ==
  /\ styled \in BOOLEAN
  /\ windowWidth \in WindowWidths
  /\ pixelRatio \in PixelRatios
  /\ renderSize \in [Canvases -> Nat]
  /\ contexts \subseteq Canvases
  /\ resizePending \in BOOLEAN
  /\ resized \in BOOLEAN

Init ==
  /\ styled \in BOOLEAN
  /\ windowWidth \in WindowWidths
  /\ pixelRatio \in PixelRatios
  /\ renderSize = [c \in Canvases |-> DefaultSize]
  /\ contexts = {}
  /\ resizePending = FALSE
  /\ resized = FALSE

-----------------------------------------------------------------------------
(* Updates, each preceded by the wrong variant that mutation testing puts in *)
(* its place.                                                                *)

CssPixels(cssWidth) == cssWidth \div PixelParts
\* pixel_width of the resize callback, as canvas.width keeps it
PixelWidth(cssWidth) == (cssWidth * pixelRatio) \div (PixelParts * PixelParts)

-----------------------------------------------------------------------------

\* emscripten_get_element_css_size()
CssSize(c) == IF styled THEN windowWidth ELSE renderSize[c] * PixelParts

\* render() for the canvases in turn: each gets its context the first time
RenderAll == contexts' = contexts \cup Canvases

\* main()
Start ==
  /\ contexts = {}
  /\ RenderAll
  /\ UNCHANGED <<styled, windowWidth, pixelRatio, renderSize, resizePending, resized>>

\* the window is resized or zoomed, of which the browser tells with a resize event
ResizeWindow(w, r) ==
  /\ windowWidth' = w
  /\ pixelRatio' = r
  /\ resizePending' = TRUE
  /\ UNCHANGED <<styled, renderSize, contexts, resized>>

\* the resize callback: qt_set_canvas_size() of every canvas, which clears it, then
\* render() of every canvas
ResizeCallback ==
  /\ resizePending
  /\ contexts # {}
  /\ \A c \in Canvases : renderSize[c] < MaxSize
  /\ resizePending' = FALSE
  /\ renderSize' = [c \in Canvases |-> PixelWidth(CssSize(c))]
  /\ RenderAll
  /\ resized' = TRUE
  /\ UNCHANGED <<styled, windowWidth, pixelRatio>>

Next ==
  \/ Start
  \/ \E w \in WindowWidths, r \in PixelRatios : ResizeWindow(w, r)
  \/ ResizeCallback

Spec == Init /\ [][Next]_vars

-----------------------------------------------------------------------------
(* Properties *)

\* When no resize is pending, a canvas with a style has as many whole pixels as the
\* screen has for it, less than one pixel short, however often the window was resized and
\* zoomed before: the fractions lost each time do not add up. (A canvas without a style
\* is multiplied by the pixel ratio with every callback, and truncated again.)
CanvasesFit ==
  styled /\ resized /\ ~ resizePending =>
    \A c \in Canvases :
      LET pixel == PixelParts * PixelParts
          exact == windowWidth * pixelRatio
      IN  renderSize[c] * pixel <= exact /\ exact < renderSize[c] * pixel + pixel

=============================================================================
