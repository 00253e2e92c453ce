------------------------------ MODULE MCMandelbrot ------------------------------
(***************************************************************************)
(* One run for widgets_mandelbrot: the render thread with its tiles and    *)
(* its requests (MandelbrotRender), and the view that the widget shows of  *)
(* the images it gets (WidgetView).                                        *)
(*                                                                         *)
(* The first module leaves out what an image shows, the second one how it  *)
(* comes about. The first state chooses one of the two, and only that one  *)
(* takes steps.                                                            *)
(***************************************************************************)
EXTENDS MandelbrotRender, WidgetView

VARIABLE part   \* the module that takes the steps

allVars == <<part, vars, viewVars>>

MCInit ==
  /\ part \in {"thread", "view"}
  /\ Init
  /\ ViewInit
  /\ part = "thread" =>
       scale = (CHOOSE s \in Scales : TRUE) /\ width = (CHOOSE w \in Widths : TRUE)

InThread(action) == part = "thread" /\ action /\ UNCHANGED <<part, viewVars>>
InView(action) == part = "view" /\ action /\ UNCHANGED <<part, vars>>

\* the user asks for no more views
ViewRest == Len(asked) = MaxAsked /\ UNCHANGED viewVars

MCNext ==
  \/ InThread(Next)
  \/ InView(ViewNext)
  \/ InView(ViewRest)

\* The fairness of MandelbrotRender; the user need do nothing.
MCSpec ==
  /\ MCInit
  /\ [][MCNext]_allVars
  /\ WF_allVars(InThread(ThreadStep))
  /\ \A t \in Tiles : WF_allVars(InThread(TileStep(t)))
  /\ WF_allVars(InThread(UpdatePixmap))
  /\ WF_allVars(InThread(EndDestroy))

=============================================================================
