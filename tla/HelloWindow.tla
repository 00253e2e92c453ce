------------------------------ MODULE HelloWindow ------------------------------
(***************************************************************************)
(* HelloWindow (gui_opengl/hellowindow.cpp, and the same file in           *)
(* gui_multicanvas): a window that shows the turning logo of Qt, and the   *)
(* geometry of the logo, which GLWidget has too.                           *)
(*                                                                         *)
(* The logo is a bar, a second bar that stands on the first one, and a     *)
(* ring, all between z = -5 and z = +5 in hundredths, and Unit times that  *)
(* so that the points of the ring are integers. The vertices are those of  *)
(* a list of triangles, three for each, with a normal for every vertex. A  *)
(* normal is kept with its direction, not with length one, and the factor  *)
(* 2 at the end of createGeometry() is left out.                           *)
(***************************************************************************)
EXTENDS Integers, Sequences

CONSTANTS
  Unit,         \* what the number 1 is scaled to
  Directions    \* (sin, cos) of the sectors' angles: any polygon on the circle

VARIABLES
  vertices,     \* vertices
  normals,      \* normals
  animating,    \* m_animating
  requested,    \* requestUpdate() was called, or the window was exposed
  colorIndex    \* m_colorIndex

geometry == <<vertices, normals>>
vars == <<geometry, animating, requested, colorIndex>>

Depth == 5 * Unit

-----------------------------------------------------------------------------
(* The geometry. A point is <<x, y>>, a vertex <<x, y, z>>. *)

At(p, z) == <<p[1], p[2], z>>
Vector(v, w) == <<w[1] - v[1], w[2] - v[2], w[3] - v[3]>>

\* QVector3D::normal(), not normalized
Normal(v, w) == <<v[2] * w[3] - v[3] * w[2], v[3] * w[1] - v[1] * w[3], v[1] * w[2] - v[2] * w[1]>>

\* six vertices and the one normal they have in common
Face(vs, n) == [vertices |-> vs, normal |-> n]

\* quad(), at z = -0.05
QuadFront(p1, p2, p3, p4) ==
  Face(<<At(p1, -Depth), At(p2, -Depth), At(p4, -Depth), At(p3, -Depth), At(p4, -Depth), At(p2, -Depth)>>,
       Normal(Vector(At(p1, 0), At(p2, 0)), Vector(At(p1, 0), At(p4, 0))))

\* quad(), at z = 0.05, where the front's order of the vertices would be the wrong way round
QuadBack(p1, p2, p3, p4) ==
  Face(<<At(p4, Depth), At(p2, Depth), At(p1, Depth), At(p2, Depth), At(p4, Depth), At(p3, Depth)>>,
       Normal(Vector(At(p4, 0), At(p2, 0)), Vector(At(p4, 0), At(p1, 0))))

Quad(p1, p2, p3, p4) == <<QuadFront(p1, p2, p3, p4), QuadBack(p1, p2, p3, p4)>>

ExtrudeReversed(p1, p2) ==
  Face(<<At(p2, Depth), At(p1, Depth), At(p2, -Depth), At(p1, -Depth), At(p2, -Depth), At(p1, Depth)>>,
       Normal(Vector(At(p1, 0), At(p2, 0)), <<0, 0, -1>>))

\* extrude(): the side between two points
Extrude(p1, p2) ==
  Face(<<At(p1, Depth), At(p2, Depth), At(p1, -Depth), At(p2, -Depth), At(p1, -Depth), At(p2, Depth)>>,
       Normal(Vector(At(p1, 0), At(p2, 0)), <<0, 0, -1>>))

\* the points (x1, y1) to (x4, y4) of createGeometry(), in hundredths
P1 == <<6 * Unit, -14 * Unit>>
P2 == <<14 * Unit, -6 * Unit>>
P3 == <<8 * Unit, 0>>
P4 == <<30 * Unit, 22 * Unit>>
Mirrored(p) == <<p[2], p[1]>>

Bars ==
  Quad(P1, P2, Mirrored(P2), Mirrored(P1)) \o Quad(P3, P4, Mirrored(P4), Mirrored(P3))
  \o <<Extrude(P1, P2), Extrude(P2, Mirrored(P2)), Extrude(Mirrored(P2), Mirrored(P1)),
       Extrude(Mirrored(P1), P1), Extrude(P3, P4), Extrude(P4, Mirrored(P4)),
       Extrude(Mirrored(P4), Mirrored(P3))>>

\* a point of the ring; the last direction is followed by the first, which the code's last
\* angle is up to the rounding of Pi
Ring(radius, i) == LET d == Directions[(i % Len(Directions)) + 1] IN <<radius * d[1], radius * d[2]>>

\* the quad and the two sides of sector i
Sector(i) ==
  Quad(Ring(30, i), Ring(20, i), Ring(20, i + 1), Ring(30, i + 1))
  \o <<Extrude(Ring(20, i), Ring(20, i + 1)), Extrude(Ring(30, i + 1), Ring(30, i))>>

\* createGeometry(): the bars, and four faces for each sector
Faces ==
  [f \in 1 .. 11 + 4 * Len(Directions) |->
    IF f <= 11 THEN Bars[f] ELSE Sector((f - 12) \div 4)[((f - 12) % 4) + 1]]

\* the lists of all vertices and of their normals, six for a face
Logo ==
  LET places == 1 .. 6 * (11 + 4 * Len(Directions))
      face(v) == Faces[((v - 1) \div 6) + 1]
  IN [vertices |-> [v \in places |-> face(v).vertices[((v - 1) % 6) + 1]],
      normals |-> [v \in places |-> face(v).normal]]

-----------------------------------------------------------------------------

TypeOK ==
  /\ vertices \in Seq(Int \X Int \X Int)
  /\ normals \in Seq(Int \X Int \X Int)
  /\ animating \in BOOLEAN
  /\ requested \in BOOLEAN
  /\ colorIndex \in 0 .. 1

\* HelloWindow(), which calls updateColor(); the window is exposed when it is shown
Init ==
  /\ vertices = <<>>
  /\ normals = <<>>
  /\ animating = TRUE
  /\ requested = TRUE
  /\ colorIndex = 1

NoNextFrame == FALSE
\* paintGL(): requestUpdate() if m_animating
NextFrame == animating

\* updateColor(), from mousePressEvent()
UpdateColor ==
  /\ colorIndex' = 1 - colorIndex
  /\ UNCHANGED <<geometry, animating, requested>>

\* keyPressEvent(), the space bar
KeyPress ==
  /\ animating' = ~ animating
  /\ requested' = (requested \/ animating')
  /\ UNCHANGED <<geometry, colorIndex>>

\* the window is exposed or resized
Expose ==
  /\ requested' = TRUE
  /\ UNCHANGED <<geometry, animating, colorIndex>>

\* initializeGL(), before the first frame, and createGeometry(), which begins with
\* empty lists; the shaders are left out
InitializeGL ==
  /\ requested
  /\ vertices = <<>>
  /\ vertices' = Logo.vertices
  /\ normals' = Logo.normals
  /\ UNCHANGED <<animating, requested, colorIndex>>

\* paintGL(), paintQtLogo(): several requests are one frame
PaintGL ==
  /\ requested
  /\ vertices # <<>>
  /\ requested' = NextFrame
  /\ UNCHANGED <<geometry, animating, colorIndex>>

Next == UpdateColor \/ KeyPress \/ Expose \/ InitializeGL \/ PaintGL

Spec == Init /\ [][Next]_vars

-----------------------------------------------------------------------------
(* Properties *)

Triangles == 0 .. (Len(vertices) \div 3) - 1
Corner(t, k) == vertices[3 * t + (k % 3) + 1]
Edges == {<<t, k>> : t \in Triangles, k \in 0 .. 2}
Edge(e) == <<Corner(e[1], e[2]), Corner(e[1], e[2] + 1)>>

\* the side that the second bar lacks is on the side x + y = 8 of the first one
OnFirstBar(v) == v[1] + v[2] = 8 * Unit /\ v[1] \in -6 * Unit .. 14 * Unit

\* every triangle has the normals that its order of vertices gives
NormalsRight ==
  /\ Len(normals) = Len(vertices)
  /\ \A t \in Triangles : \A k \in 1 .. 3 :
       LET n == Normal(Vector(Corner(t, 0), Corner(t, 1)), Vector(Corner(t, 0), Corner(t, 2)))
           m == normals[3 * t + k]
       IN /\ Normal(n, m) = <<0, 0, 0>>
          /\ n[1] * m[1] + n[2] * m[2] + n[3] * m[3] > 0

\* each edge of a triangle is the edge of one other, in the other direction, except where
\* the second bar stands on the first
SurfaceClosed ==
  /\ \A e \in Edges :
       \/ OnFirstBar(Edge(e)[1]) /\ OnFirstBar(Edge(e)[2])
       \/ <<Edge(e)[2], Edge(e)[1]>> \in {Edge(f) : f \in Edges}
  /\ \A e, f \in Edges : Edge(e) = Edge(f) => e = f

\* The logo is a closed surface that is seen from outside, and while the window is
\* animated there is always another frame to come.
LogoSound ==
  /\ NormalsRight
  /\ SurfaceClosed
  /\ animating => requested

=============================================================================
