-------------------------- MODULE AssetFixer_proofs --------------------------
(***************************************************************************)
(* Proofs about NinePatch.tla and AssetFixer.tla, for any files, drawings  *)
(* and number of exports: cropImageToLines() makes the patch of a drawing, *)
(* and leaves a patch alone; the directory is watched exactly when         *)
(* settings, style and the first rendering say so, and is then watched     *)
(* once; no image is spoilt, and every change that was noticed while       *)
(* images are fixed automatically ends up fixed and on screen.             *)
(***************************************************************************)
EXTENDS AssetFixer, WellFoundedInduction, TLAPS

-----------------------------------------------------------------------------
(* NinePatch: smallest and largest elements *)

\* A set has one smallest element at most.
LEMMA MinIs ==
  ASSUME NEW S, S \subseteq Int, NEW x \in S, \A y \in S : x <= y
  PROVE  Min(S) = x
<1> DEFINE m == Min(S)
<1>1. m \in S /\ \A y \in S : m <= y
  BY DEF Min
<1> HIDE DEF m
<1>2. m <= x /\ x <= m /\ m \in Int /\ x \in Int
  BY <1>1
<1>3. m = x
  BY <1>2
<1> QED  BY <1>3 DEF m

\* ... and one largest.
LEMMA MaxIs ==
  ASSUME NEW S, S \subseteq Int, NEW x \in S, \A y \in S : y <= x
  PROVE  Max(S) = x
<1> DEFINE m == Max(S)
<1>1. m \in S /\ \A y \in S : m >= y
  BY DEF Max
<1> HIDE DEF m
<1>2. m >= x /\ x >= m /\ m \in Int /\ x \in Int
  BY <1>1
<1>3. m = x
  BY <1>2
<1> QED  BY <1>3 DEF m

\* A set of natural numbers has a smallest one.
LEMMA MinExists ==
  ASSUME NEW S, S \subseteq Nat, S # {}
  PROVE  Min(S) \in S /\ \A y \in S : Min(S) <= y
<1>1. PICK x \in S : \A y \in S : ~ (<<y, x>> \in OpToRel(<, Nat))
  BY NatLessThanWellFounded, WFMin, Zenon
<1>2. ASSUME NEW y \in S PROVE x <= y
  <2>1. ~ (<<y, x>> \in OpToRel(<, Nat)) /\ x \in Nat /\ y \in Nat
    BY <1>1
  <2>2. OpToRel(<, Nat) = {ss \in Nat \X Nat : ss[1] < ss[2]}
    BY Zenon DEF OpToRel
  <2>3. <<y, x>> \notin {ss \in Nat \X Nat : ss[1] < ss[2]} /\ x \in Nat /\ y \in Nat
    BY <2>1, <2>2, Zenon
  <2> QED  BY <2>3
<1> QED  BY <1>2 DEF Min

\* The larger of two numbers.
LEMMA MaxOfTwo ==
  ASSUME NEW x \in Int, NEW y \in Int
  PROVE  Max({x, y}) = IF x >= y THEN x ELSE y
<1>1. CASE x >= y
  BY <1>1, MaxIs
<1>2. CASE ~ (x >= y)
  BY <1>2, MaxIs
<1> QED  BY <1>1, <1>2

-----------------------------------------------------------------------------
(* NinePatch: what is exported *)

\* where the drawing begins, and how large the image is
Inner(s) == s.margin + s.thickness
Total(s) == 2 * Inner(s) + s.size

\* The pixels of the four lines.
OnLine(s, x, y) ==
  \/ x - Inner(s) \in s.top /\ s.margin <= y /\ y < Inner(s)
  \/ x - Inner(s) \in s.bottom /\ Inner(s) + s.size <= y /\ y < Total(s) - s.margin
  \/ s.margin <= x /\ x < Inner(s) /\ y - Inner(s) \in s.left
  \/ Inner(s) + s.size <= x /\ x < Total(s) - s.margin /\ y - Inner(s) \in s.right

\* An exported image has these pixels and no other.
LEMMA ExportedInk ==
  ASSUME NEW s, IsDrawing(s)
  PROVE  /\ Export(s).width = Total(s) /\ Export(s).height = Total(s)
         /\ Export(s).ink \subseteq Int \X Int
         /\ \A x, y \in Int : <<x, y>> \in Export(s).ink <=> OnLine(s, x, y)
<1> DEFINE a == s.margin + s.thickness
           far == a + s.size
           Thick(from) == from .. from + s.thickness - 1
           Moved(line) == {a + l : l \in line}
           ink == (Moved(s.top) \X Thick(s.margin)) \cup (Moved(s.bottom) \X Thick(far))
                  \cup (Thick(s.margin) \X Moved(s.left)) \cup (Thick(far) \X Moved(s.right))
<1>1. /\ s.margin \in Nat /\ s.thickness \in Nat \ {0} /\ s.size \in Nat /\ a \in Nat
      /\ s.top \subseteq Int /\ s.bottom \subseteq Int /\ s.left \subseteq Int /\ s.right \subseteq Int
  BY DEF IsDrawing
<1>2. Export(s) = [width |-> far + s.thickness + s.margin, height |-> far + s.thickness + s.margin,
                   ink |-> ink]
  BY Zenon DEF Export
<1>3. far + s.thickness + s.margin = Total(s)
  BY <1>1 DEF Total, Inner
<1>4. \A x \in Int : /\ x \in Moved(s.top) <=> x - a \in s.top
                     /\ x \in Moved(s.bottom) <=> x - a \in s.bottom
                     /\ x \in Moved(s.left) <=> x - a \in s.left
                     /\ x \in Moved(s.right) <=> x - a \in s.right
  <2>1. ASSUME NEW line, line \subseteq Int, NEW x \in Int
        PROVE  x \in Moved(line) <=> x - a \in line
    BY <1>1, <2>1
  <2> QED  BY <1>1, <2>1
<1>5. \A x \in Int : /\ x \in Thick(s.margin) <=> s.margin <= x /\ x < a
                     /\ x \in Thick(far) <=> far <= x /\ x < Total(s) - s.margin
  BY <1>1 DEF Total, Inner
<1>6. /\ Thick(s.margin) \subseteq Int /\ Thick(far) \subseteq Int
      /\ Moved(s.top) \subseteq Int /\ Moved(s.bottom) \subseteq Int
      /\ Moved(s.left) \subseteq Int /\ Moved(s.right) \subseteq Int
  BY <1>1
<1> HIDE DEF Thick, Moved, far, a
<1>7. ink \subseteq Int \X Int
  BY <1>6
<1>8. ASSUME NEW x \in Int, NEW y \in Int PROVE <<x, y>> \in ink <=> OnLine(s, x, y)
  <2>1. <<x, y>> \in ink <=>
          \/ x \in Moved(s.top) /\ y \in Thick(s.margin)
          \/ x \in Moved(s.bottom) /\ y \in Thick(far)
          \/ x \in Thick(s.margin) /\ y \in Moved(s.left)
          \/ x \in Thick(far) /\ y \in Moved(s.right)
    OBVIOUS
  <2>2. a = Inner(s) /\ far = Inner(s) + s.size
    BY DEF a, far, Inner
  <2> HIDE DEF ink
  <2> QED  BY <1>4, <1>5, <2>1, <2>2 DEF OnLine
<1> HIDE DEF ink
<1> QED  BY <1>2, <1>3, <1>7, <1>8

\* Seen from any edge: the rows before the drawing have the line of this edge and nothing
\* else, and the middle of the drawing is empty.
LEMMA InkFromEdge ==
  ASSUME NEW s, IsDrawing(s), NEW e \in Edges, NEW d \in Nat, NEW p \in Int
  PROVE  /\ d < Inner(s) =>
              (Ink(Export(s), e, d, p) <=> s.margin <= d /\ p - Inner(s) \in s[e])
         /\ Inner(s) <= d /\ d < Inner(s) + s.size /\ Inner(s) <= p /\ p < Inner(s) + s.size
              => ~ Ink(Export(s), e, d, p)
<1>1. /\ s.margin \in Nat /\ s.thickness \in Nat \ {0} /\ s.size \in Nat
      /\ s.top \subseteq 0 .. s.size - 1 /\ s.bottom \subseteq 0 .. s.size - 1
      /\ s.left \subseteq 0 .. s.size - 1 /\ s.right \subseteq 0 .. s.size - 1
  BY DEF IsDrawing
<1> DEFINE m == s.margin
           a == Inner(s)
           n == s.size
           far == Total(s) - 1 - d
<1>2. /\ a \in Nat /\ m \in Nat /\ n \in Nat /\ m < a /\ Total(s) = 2 * a + n /\ far \in Int
  BY <1>1 DEF Inner, Total
<1>3. /\ OnLine(s, p, d) <=> Ink(Export(s), "top", d, p)
      /\ OnLine(s, p, far) <=> Ink(Export(s), "bottom", d, p)
      /\ OnLine(s, d, p) <=> Ink(Export(s), "left", d, p)
      /\ OnLine(s, far, p) <=> Ink(Export(s), "right", d, p)
  <2>1. /\ Ink(Export(s), "top", d, p) <=> <<p, d>> \in Export(s).ink
        /\ Ink(Export(s), "bottom", d, p) <=> <<p, Export(s).height - 1 - d>> \in Export(s).ink
        /\ Ink(Export(s), "left", d, p) <=> <<d, p>> \in Export(s).ink
        /\ Ink(Export(s), "right", d, p) <=> <<Export(s).width - 1 - d, p>> \in Export(s).ink
    BY DEF Ink
  <2> QED  BY <1>2, <2>1, ExportedInk
<1>4. CASE e = "top"
  BY <1>1, <1>2, <1>3, <1>4 DEF OnLine
<1>5. CASE e = "bottom"
  BY <1>1, <1>2, <1>3, <1>5 DEF OnLine
<1>6. CASE e = "left"
  BY <1>1, <1>2, <1>3, <1>6 DEF OnLine
<1>7. CASE e = "right"
  BY <1>1, <1>2, <1>3, <1>7 DEF OnLine
<1> QED  BY <1>4, <1>5, <1>6, <1>7 DEF Edges

-----------------------------------------------------------------------------
(* NinePatch: the search from one edge *)

\* A drawing whose lines are one pixel thick and lie at the edge.
LEMMA PatchScan ==
  ASSUME NEW s, IsDrawing(s), s.thickness = 1, s.margin = 0, NEW e \in Edges,
         NEW start \in Nat \ {0}
  PROVE  ~ Scan(Export(s), e, start).crop
<1> DEFINE I == Export(s)
           rows == {d \in Distances(I, e) : Found(I, e, d, start) # {}}
<1>1. s.size \in Nat /\ Inner(s) = 1 /\ Total(s) = s.size + 2
  BY DEF IsDrawing, Inner, Total
<1>2. Distances(I, e) = 0 .. ((s.size + 2) \div 2) - 1 /\ Along(I, e) = s.size + 2
  BY <1>1, ExportedInk DEF Distances, Along, Across
<1>3. ASSUME NEW d \in Distances(I, e), d # 0 PROVE Found(I, e, d, start) = {}
  <2> DEFINE line == {p \in start .. Along(I, e) - 3 : Ink(I, e, d, p)}
  <2>1. d \in Nat /\ 1 <= d /\ d < s.size + 1
    BY <1>1, <1>2, <1>3
  <2>2. ASSUME NEW p \in start .. Along(I, e) - 3 PROVE ~ Ink(I, e, d, p)
    <3>1. p \in Int /\ 1 <= p /\ p < 1 + s.size
      BY <1>1, <1>2
    <3> QED  BY <1>1, <2>1, <3>1, InkFromEdge
  <2>3. line = {}
    BY <2>2
  <2>4. Seen(I, e, d, start) = {}
    BY <2>3 DEF Seen
  <2> QED  BY <2>4 DEF Found
<1> HIDE DEF I
<1>4. CASE rows = {}
  <2>1. Scan(I, e, start) = NoLine
    BY <1>4 DEF Scan
  <2> QED  BY <2>1 DEF NoLine, I
<1>5. CASE rows # {}
  <2>1. rows = {0}
    <3>1. rows \subseteq {0}
      BY <1>3
    <3> HIDE DEF rows
    <3> QED  BY <1>5, <3>1
  <2>2. Min({0}) = 0
    BY MinIs
  <2>3. Scan(I, e, start).crop <=> Min(rows) > 0
    BY <1>5 DEF Scan
  <2> HIDE DEF rows
  <2>4. Min(rows) = 0
    BY <2>1, <2>2, Zenon
  <2> QED  BY <2>3, <2>4 DEF I
<1> QED  BY <1>4, <1>5

\* Where the line is not at the edge and one pixel thick, the search finds its first row that
\* can be cropped, and its last one, if it begins no farther than the drawing.
LEMMA LineScan ==
  ASSUME NEW s, IsDrawing(s), Inner(s) > 1, NEW e \in Edges, s[e] # {},
         NEW start \in 1 .. Inner(s)
  PROVE  Scan(Export(s), e, start) =
           [crop |-> TRUE, onePixel |-> FALSE,
            first |-> IF s.margin = 0 THEN 1 ELSE s.margin, last |-> Inner(s) - 1]
<1> DEFINE I == Export(s)
           a == Inner(s)
           n == s.size
           f == IF s.margin = 0 THEN 1 ELSE s.margin
           half == Total(s) \div 2
           rows == {d \in Distances(I, e) : Found(I, e, d, start) # {}}
           Line(d) == {p \in start .. Along(I, e) - 3 : Ink(I, e, d, p)}
<1>0. IsDrawing(s) /\ s[e] # {}
  OBVIOUS
<1>1. /\ a \in Nat /\ a > 1 /\ n \in Nat \ {0} /\ s.margin \in Nat /\ s.margin < a
      /\ Total(s) = 2 * a + n /\ s[e] \subseteq 0 .. n - 1
      /\ f \in Nat /\ 0 < f /\ f < a /\ s.margin <= f
  <2>1. s[e] \subseteq 0 .. n - 1
    BY <1>0 DEF IsDrawing, Edges
  <2>2. n \in Nat /\ s.margin \in Nat /\ s.thickness \in Nat \ {0}
    BY <1>0 DEF IsDrawing
  <2> QED  BY <1>0, <2>1, <2>2 DEF Inner, Total
<1>2. half \in Nat /\ a <= half /\ half < a + n
  BY <1>1
<1>3. Distances(I, e) = 0 .. half - 1 /\ Along(I, e) = Total(s)
  BY <1>0, ExportedInk DEF Distances, Along, Across
<1> HIDE DEF half, f, I, a, n
\* the row of the line that lies nearest to the edge
<1>4. ASSUME NEW d \in Nat, s.margin <= d, d < a
      PROVE  /\ Seen(I, e, d, start) # {}
             /\ \A p \in Seen(I, e, d, start) : p \in Int /\ p - a \in s[e] /\ Ink(I, e, d, p)
  <2>1. \A p \in Int : Ink(I, e, d, p) <=> p - a \in s[e]
    BY <1>0, <1>4, InkFromEdge DEF I, a
  <2>2. PICK l \in s[e] : TRUE
    BY <1>0
  <2>3. a + l \in Line(d)
    <3>1. a + l \in start .. Along(I, e) - 3 /\ l \in Int
      BY <1>1, <1>3, <2>2 DEF a
    <3>2. (a + l) - a = l /\ a + l \in Int
      BY <1>1, <3>1
    <3> QED  BY <2>1, <3>1, <3>2
  <2>4. Line(d) \subseteq Nat
    <3>1. start \in Nat /\ Along(I, e) \in Int
      BY <1>1, <1>3 DEF a
    <3> QED  BY <3>1
  <2>5. \A p \in Line(d) : p \in Int /\ Ink(I, e, d, p)
    BY <2>4
  <2>6. Min(Line(d)) \in Line(d)
    <3> HIDE DEF Line
    <3> QED  BY <2>3, <2>4, MinExists
  <2>7. Seen(I, e, d, start) # {} /\ Seen(I, e, d, start) \subseteq Line(d)
    <3>1. Seen(I, e, d, start) = IF e \in {"bottom", "right"} /\ Line(d) # {}
                                   THEN {Min(Line(d))} ELSE Line(d)
      BY Zenon DEF Seen
    <3> HIDE DEF Line
    <3> QED  BY <2>3, <2>6, <3>1
  <2> QED  BY <2>1, <2>5, <2>7
<1>5. ASSUME NEW d \in Nat, d < s.margin PROVE Seen(I, e, d, start) = {}
  <2>1. \A p \in Int : ~ Ink(I, e, d, p)
    BY <1>0, <1>1, <1>5, InkFromEdge DEF I, a
  <2>2. Line(d) = {}
    BY <1>1, <1>3, <2>1
  <2> QED  BY <2>2, Zenon DEF Seen
<1>6. Min(rows) = f
  <2>1. f \in rows
    <3>1. f \in Distances(I, e)
      BY <1>1, <1>2, <1>3
    <3>2. Found(I, e, f, start) = Seen(I, e, f, start)
      BY <1>1 DEF Found
    <3> QED  BY <1>1, <1>4, <3>1, <3>2
  <2>2. ASSUME NEW d \in rows PROVE f <= d
    <3>1. d \in Nat /\ Found(I, e, d, start) # {}
      BY <1>2, <1>3
    <3>2. CASE d < s.margin
      BY <1>5, <3>1, <3>2 DEF Found
    <3>3. CASE d >= s.margin /\ d > 0
      BY <1>1, <3>1, <3>3 DEF f
    <3>4. CASE d = 0 /\ s.margin = 0
      <4>1. PICK p \in Seen(I, e, 0, start) : ~ Ink(I, e, 1, p)
        BY <3>1, <3>4 DEF Found
      <4>2. p \in Int /\ p - a \in s[e]
        BY <1>1, <1>4, <3>4, <4>1
      <4>3. Ink(I, e, 1, p)
        BY <1>0, <1>1, <3>4, <4>2, InkFromEdge DEF I, a
      <4> QED  BY <4>1, <4>3
    <3> QED  BY <1>1, <3>1, <3>2, <3>3, <3>4
  <2>3. rows \subseteq Int
    BY <1>2, <1>3
  <2> HIDE DEF rows
  <2> QED  BY <2>1, <2>2, <2>3, MinIs
<1> DEFINE p == Min(Found(I, e, f, start))
           run == {k \in Distances(I, e) : k >= f /\ \A j \in f .. k : Ink(I, e, j, p)}
<1>7. p \in Int /\ p - a \in s[e]
  <2>1. Found(I, e, f, start) = Seen(I, e, f, start)
    BY <1>1 DEF Found
  <2>2. /\ Seen(I, e, f, start) # {}
        /\ \A q \in Seen(I, e, f, start) : q \in Int /\ q - a \in s[e]
    BY <1>1, <1>4
  <2>3. Seen(I, e, f, start) \subseteq Nat
    BY <1>1, <2>2
  <2>4. Min(Seen(I, e, f, start)) \in Seen(I, e, f, start)
    BY <2>2, <2>3, MinExists
  <2> QED  BY <2>1, <2>2, <2>4
<1> HIDE DEF p
<1>8. Max(run) = a - 1
  <2>1. a - 1 \in run
    <3>1. ASSUME NEW j \in f .. a - 1 PROVE Ink(I, e, j, p)
      <4>1. j \in Nat /\ s.margin <= j /\ j < Inner(s)
        BY <1>1 DEF a
      <4> QED  BY <1>0, <1>7, <4>1, InkFromEdge DEF I, a
    <3>2. a - 1 \in Distances(I, e) /\ a - 1 >= f
      BY <1>1, <1>2, <1>3
    <3> QED  BY <3>1, <3>2
  <2>2. ASSUME NEW k \in run PROVE k <= a - 1
    <3> SUFFICES ASSUME k >= a PROVE FALSE
      BY <1>1, <1>2, <1>3
    <3>1. Ink(I, e, a, p)
      BY <1>1, <1>2, <1>3
    <3>2. a <= p /\ p < a + n
      BY <1>1, <1>7
    <3>3. ~ Ink(I, e, a, p)
      <4>1. /\ a \in Nat /\ p \in Int /\ Inner(s) <= a /\ a < Inner(s) + s.size
            /\ Inner(s) <= p /\ p < Inner(s) + s.size
        BY <1>1, <1>7, <3>2 DEF a, n
      <4> QED  BY <1>0, <4>1, InkFromEdge DEF I
    <3> QED  BY <3>1, <3>3
  <2>3. run \subseteq Int
    BY <1>2, <1>3
  <2>4. \A k \in run : k <= a - 1
    BY <2>2
  <2> HIDE DEF run
  <2> QED  BY <2>1, <2>3, <2>4, MaxIs
<1>9. rows # {}
  <2>1. f \in Distances(I, e) /\ Found(I, e, f, start) = Seen(I, e, f, start)
    BY <1>1, <1>2, <1>3 DEF Found
  <2> QED  BY <1>1, <1>4, <2>1
<1>10. Scan(I, e, start) =
         [crop |-> Min(rows) > 0, onePixel |-> Min(rows) = 0, first |-> Min(rows),
          last |-> Max({k \in Distances(I, e) :
                          k >= Min(rows) /\ \A j \in Min(rows) .. k :
                            Ink(I, e, j, Min(Found(I, e, Min(rows), start)))})]
  <2> HIDE DEF I
  <2> QED  BY <1>9, Zenon DEF Scan
<1>11. Scan(I, e, start) = [crop |-> f > 0, onePixel |-> f = 0, first |-> f, last |-> Max(run)]
  <2> HIDE DEF rows
  <2> QED  BY <1>6, <1>10, Zenon DEF p
<1>12. (f > 0) = TRUE /\ (f = 0) = FALSE
  BY <1>1
<1> HIDE DEF run, rows
<1>13. Scan(I, e, start) = [crop |-> TRUE, onePixel |-> FALSE, first |-> f, last |-> a - 1]
  BY <1>8, <1>11, <1>12, Zenon
<1> QED  BY <1>13, Zenon DEF I, f, a

-----------------------------------------------------------------------------
(* NinePatch: all four edges, and the crop *)

\* What a search finds, and the thickness after it.
LineFrom(image, t, e) == Scan(image, e, Max({1, t}))
ThicknessFrom(image, t, e) == ThicknessAfter(t, e, LineFrom(image, t, e))

FoundSoFar(t, top, bottom, left, right) ==
  [thickness |-> t, top |-> top, bottom |-> bottom, left |-> left, right |-> right]

With(f, e, x) == [f EXCEPT ![e] = x]

\* Writing one of the results leaves the others alone.
LEMMA FoundUpdated ==
  ASSUME NEW t, NEW a, NEW b, NEW c, NEW d, NEW x
  PROVE  /\ With(FoundSoFar(t, a, b, c, d), "top", x) = FoundSoFar(t, x, b, c, d)
         /\ With(FoundSoFar(t, a, b, c, d), "bottom", x) = FoundSoFar(t, a, x, c, d)
         /\ With(FoundSoFar(t, a, b, c, d), "left", x) = FoundSoFar(t, a, b, x, d)
         /\ With(FoundSoFar(t, a, b, c, d), "right", x) = FoundSoFar(t, a, b, c, x)
         /\ With(FoundSoFar(t, a, b, c, d), "thickness", x) = FoundSoFar(x, a, b, c, d)
<1> DEFINE f == FoundSoFar(t, a, b, c, d)
<1>0. f = [thickness |-> t, top |-> a, bottom |-> b, left |-> c, right |-> d]
  BY DEF FoundSoFar
<1> HIDE DEF f
<1>1. [f EXCEPT !["top"] = x] = FoundSoFar(t, x, b, c, d)
  BY <1>0 DEF FoundSoFar
<1>2. [f EXCEPT !["bottom"] = x] = FoundSoFar(t, a, x, c, d)
  BY <1>0 DEF FoundSoFar
<1>3. [f EXCEPT !["left"] = x] = FoundSoFar(t, a, b, x, d)
  BY <1>0 DEF FoundSoFar
<1>4. [f EXCEPT !["right"] = x] = FoundSoFar(t, a, b, c, x)
  BY <1>0 DEF FoundSoFar
<1>5. [f EXCEPT !["thickness"] = x] = FoundSoFar(x, a, b, c, d)
  BY <1>0 DEF FoundSoFar
<1> QED  BY <1>1, <1>2, <1>3, <1>4, <1>5, Zenon DEF With, f

\* A search writes what it finds, and the thickness.
LEMMA ScannedNext ==
  ASSUME NEW image, NEW f, NEW e
  PROVE  ScanNext(image, f, e) =
           With(With(f, e, LineFrom(image, f.thickness, e)),
                "thickness", ThicknessFrom(image, f.thickness, e))
<1> DEFINE line == LineFrom(image, f.thickness, e)
           next == ThicknessFrom(image, f.thickness, e)
<1>1. ScanNext(image, f, e) = [f EXCEPT ![e] = line, !.thickness = next]
  BY Zenon DEF ScanNext, LineFrom, ThicknessFrom
<1> HIDE DEF line, next
<1>2. [f EXCEPT ![e] = line, !.thickness = next] = [[f EXCEPT ![e] = line] EXCEPT !.thickness = next]
  OBVIOUS
<1> QED  BY <1>1, <1>2, Zenon DEF With, line, next

\* The four searches.
LEMMA AllScanned ==
  ASSUME NEW image
  PROVE  LET t1 == ThicknessFrom(image, 0, "top")
             t2 == ThicknessFrom(image, t1, "bottom")
             t3 == ThicknessFrom(image, t2, "left")
         IN ScanAll(image) =
              FoundSoFar(ThicknessFrom(image, t3, "right"), LineFrom(image, 0, "top"),
                         LineFrom(image, t1, "bottom"), LineFrom(image, t2, "left"),
                         LineFrom(image, t3, "right"))
<1>0. \A t, a, b, c, d : FoundSoFar(t, a, b, c, d).thickness = t
  BY DEF FoundSoFar
<1>1. NothingFound = FoundSoFar(0, NoLine, NoLine, NoLine, NoLine)
  BY Zenon DEF NothingFound, FoundSoFar
<1> DEFINE t1 == ThicknessFrom(image, 0, "top")
           t2 == ThicknessFrom(image, t1, "bottom")
           t3 == ThicknessFrom(image, t2, "left")
           t4 == ThicknessFrom(image, t3, "right")
           l1 == LineFrom(image, 0, "top")
           l2 == LineFrom(image, t1, "bottom")
           l3 == LineFrom(image, t2, "left")
           l4 == LineFrom(image, t3, "right")
           f1 == ScanNext(image, NothingFound, "top")
           f2 == ScanNext(image, f1, "bottom")
           f3 == ScanNext(image, f2, "left")
           f4 == ScanNext(image, f3, "right")
<1>2. f1 = FoundSoFar(t1, l1, NoLine, NoLine, NoLine)
  <2>1. f1 = With(With(NothingFound, "top", l1), "thickness", t1)
    BY <1>0, <1>1, ScannedNext
  <2> HIDE DEF f1, t1, l1
  <2>2. With(NothingFound, "top", l1) = FoundSoFar(0, l1, NoLine, NoLine, NoLine)
    BY <1>1, FoundUpdated
  <2> QED  BY <2>1, <2>2, FoundUpdated
<1> HIDE DEF f1
<1>3. f2 = FoundSoFar(t2, l1, l2, NoLine, NoLine)
  <2>0. f1.thickness = t1
    BY <1>0, <1>2
  <2>1. f2 = With(With(f1, "bottom", l2), "thickness", t2)
    BY <2>0, ScannedNext
  <2> HIDE DEF f2, t1, t2, l1, l2
  <2>2. With(f1, "bottom", l2) = FoundSoFar(t1, l1, l2, NoLine, NoLine)
    BY <1>2, FoundUpdated
  <2> QED  BY <2>1, <2>2, FoundUpdated
<1> HIDE DEF f2
<1>4. f3 = FoundSoFar(t3, l1, l2, l3, NoLine)
  <2>0. f2.thickness = t2
    BY <1>0, <1>3
  <2>1. f3 = With(With(f2, "left", l3), "thickness", t3)
    BY <2>0, ScannedNext
  <2> HIDE DEF f3, t2, t3, l1, l2, l3
  <2>2. With(f2, "left", l3) = FoundSoFar(t2, l1, l2, l3, NoLine)
    BY <1>3, FoundUpdated
  <2> QED  BY <2>1, <2>2, FoundUpdated
<1> HIDE DEF f3
<1>5. f4 = FoundSoFar(t4, l1, l2, l3, l4)
  <2>0. f3.thickness = t3
    BY <1>0, <1>4
  <2>1. f4 = With(With(f3, "right", l4), "thickness", t4)
    BY <2>0, ScannedNext
  <2> HIDE DEF f4, t3, t4, l1, l2, l3, l4
  <2>2. With(f3, "right", l4) = FoundSoFar(t3, l1, l2, l3, l4)
    BY <1>4, FoundUpdated
  <2> QED  BY <2>1, <2>2, FoundUpdated
<1>6. ScanAll(image) = f4
  BY Zenon DEF ScanAll, f1, f2, f3
<1> HIDE DEF f4
<1> QED  BY <1>5, <1>6

\* The thickness, once it is known, does not change.
LEMMA ThicknessStays ==
  ASSUME NEW t, t # 0, NEW e, NEW line
  PROVE  ThicknessAfter(t, e, line) = t
BY DEF ThicknessAfter

\* cropImageToLines() leaves an image alone whose lines are one pixel thick and at the edge,
\* whatever they span, with lines along any of the edges: a second pass never crops what
\* the first one left.
THEOREM PatchUnchanged ==
  ASSUME NEW s, IsDrawing(s), s.thickness = 1, s.margin = 0
  PROVE  CropImageToLines(Export(s)) = Export(s)
<1> DEFINE I == Export(s)
           t1 == ThicknessFrom(I, 0, "top")
           t2 == ThicknessFrom(I, t1, "bottom")
           t3 == ThicknessFrom(I, t2, "left")
<1>1. ASSUME NEW t \in {0, 1}, NEW e \in Edges
      PROVE  ~ LineFrom(I, t, e).crop /\ ThicknessFrom(I, t, e) \in {0, 1}
  <2>1. Max({1, t}) = 1
    BY MaxOfTwo
  <2>2. ~ LineFrom(I, t, e).crop
    BY <2>1, PatchScan DEF LineFrom
  <2> QED  BY <2>2 DEF ThicknessFrom, ThicknessAfter
<1> HIDE DEF I
<1>2. t1 \in {0, 1} /\ ~ LineFrom(I, 0, "top").crop
  BY <1>1 DEF Edges
<1> HIDE DEF t1
<1>3. t2 \in {0, 1} /\ ~ LineFrom(I, t1, "bottom").crop
  BY <1>1, <1>2 DEF Edges
<1> HIDE DEF t2
<1>4. t3 \in {0, 1} /\ ~ LineFrom(I, t2, "left").crop
  BY <1>1, <1>3 DEF Edges
<1> HIDE DEF t3
<1>5. ~ LineFrom(I, t3, "right").crop
  BY <1>1, <1>4 DEF Edges
<1>6. ScanAll(I) = FoundSoFar(ThicknessFrom(I, t3, "right"), LineFrom(I, 0, "top"),
                     LineFrom(I, t1, "bottom"), LineFrom(I, t2, "left"), LineFrom(I, t3, "right"))
  BY AllScanned, Zenon DEF t1, t2, t3
<1>7. \A e \in Edges : ~ ScanAll(I)[e].crop
  BY <1>2, <1>3, <1>4, <1>5, <1>6 DEF Edges, FoundSoFar
<1>8. CropTo(I, ScanAll(I)) = I
  BY <1>7, Zenon DEF CropTo, Edges
<1> QED  BY <1>8, Zenon DEF CropImageToLines, I

\* The patch is a drawing of the same lines, one pixel thick and at the edge.
PatchShape(s) == [s EXCEPT !.thickness = 1, !.margin = 0]

\* It is as large as the drawing and one pixel more on each side.
LEMMA PatchIsDrawing ==
  ASSUME NEW s, IsDrawing(s)
  PROVE  /\ IsDrawing(PatchShape(s)) /\ Inner(PatchShape(s)) = 1
         /\ PatchShape(s).thickness = 1 /\ PatchShape(s).margin = 0
         /\ PatchShape(s).size = s.size /\ Total(PatchShape(s)) = s.size + 2
         /\ PatchShape(s).top = s.top /\ PatchShape(s).bottom = s.bottom
         /\ PatchShape(s).left = s.left /\ PatchShape(s).right = s.right
         /\ Patch(s) = Export(PatchShape(s))
<1> DEFINE ps == PatchShape(s)
<1>1. /\ ps.thickness = 1 /\ ps.margin = 0 /\ ps.size = s.size
      /\ ps.top = s.top /\ ps.bottom = s.bottom /\ ps.left = s.left /\ ps.right = s.right
  BY DEF PatchShape, IsDrawing
<1>2. IsDrawing(ps)
  <2> DEFINE lines == SUBSET (0 .. s.size - 1)
             drawings == [size : Nat, thickness : Nat \ {0}, margin : Nat,
                          top : lines, bottom : lines, left : lines, right : lines]
  <2>1. s \in drawings
    BY Zenon DEF IsDrawing
  <2> HIDE DEF lines
  <2> DEFINE thin == [s EXCEPT !.thickness = 1]
  <2>2. thin \in drawings
    BY <2>1
  <2>3. ps = [thin EXCEPT !.margin = 0]
    BY DEF PatchShape
  <2> HIDE DEF thin
  <2>4. [thin EXCEPT !.margin = 0] \in drawings
    BY <2>2
  <2> HIDE DEF ps
  <2> QED  BY <1>1, <2>3, <2>4, Zenon DEF IsDrawing, lines
<1>3. Patch(s) = Export(ps)
  BY Zenon DEF Patch, PatchShape
<1>4. s.size \in Nat
  BY DEF IsDrawing
<1> HIDE DEF ps
<1>5. Inner(ps) = 1 /\ Total(ps) = s.size + 2
  BY <1>1, <1>4 DEF Inner, Total
<1> QED  BY <1>1, <1>2, <1>3, <1>5 DEF ps

\* Cropped to one pixel of its lines, the image is the patch.
LEMMA CopiedIsPatch ==
  ASSUME NEW s, IsDrawing(s)
  PROVE  Copy(Export(s), Inner(s) - 1, Inner(s) - 1, s.size + 2, s.size + 2) = Patch(s)
<1> DEFINE I == Export(s)
           P == Export(PatchShape(s))
           b == Inner(s) - 1
           n == s.size
           inside == {q \in I.ink : q[1] \in b .. b + (n + 2) - 1 /\ q[2] \in b .. b + (n + 2) - 1}
           moved == {<<p[1] - b, p[2] - b>> : p \in inside}
<1>1. /\ b \in Nat /\ n \in Nat /\ s.margin \in Nat /\ s.margin <= b
      /\ Inner(s) = b + 1 /\ Total(s) = 2 * b + 2 + n
      /\ s.top \subseteq 0 .. n - 1 /\ s.bottom \subseteq 0 .. n - 1
      /\ s.left \subseteq 0 .. n - 1 /\ s.right \subseteq 0 .. n - 1
  BY DEF IsDrawing, Inner, Total
<1>2. /\ I.ink \subseteq Int \X Int /\ P.ink \subseteq Int \X Int
      /\ \A x, y \in Int : <<x, y>> \in I.ink <=> OnLine(s, x, y)
      /\ \A x, y \in Int : <<x, y>> \in P.ink <=> OnLine(PatchShape(s), x, y)
  BY ExportedInk, PatchIsDrawing
<1>3. P = [width |-> n + 2, height |-> n + 2, ink |-> P.ink]
  <2>1. P.width = n + 2 /\ P.height = n + 2
    BY ExportedInk, PatchIsDrawing
  <2>2. P = [width |-> P.width, height |-> P.height, ink |-> P.ink]
    BY DEF Export
  <2> HIDE DEF P
  <2> QED  BY <2>1, <2>2
<1>4. Copy(I, b, b, n + 2, n + 2) = [width |-> n + 2, height |-> n + 2, ink |-> moved]
  BY Zenon DEF Copy
<1> HIDE DEF I, P, b, n
\* a pixel of the copy lies on a line of the patch
<1>5. ASSUME NEW x \in Int, NEW y \in Int
      PROVE  /\ x \in b .. b + (n + 2) - 1 /\ y \in b .. b + (n + 2) - 1
                  => (OnLine(s, x, y) <=> OnLine(PatchShape(s), x - b, y - b))
             /\ OnLine(PatchShape(s), x - b, y - b)
                  => x \in b .. b + (n + 2) - 1 /\ y \in b .. b + (n + 2) - 1
  <2>1. OnLine(PatchShape(s), x - b, y - b) <=>
          \/ (x - b) - 1 \in s.top /\ 0 <= y - b /\ y - b < 1
          \/ (x - b) - 1 \in s.bottom /\ 1 + n <= y - b /\ y - b < n + 2
          \/ 0 <= x - b /\ x - b < 1 /\ (y - b) - 1 \in s.left
          \/ 1 + n <= x - b /\ x - b < n + 2 /\ (y - b) - 1 \in s.right
    BY <1>1, PatchIsDrawing DEF OnLine, n
  <2>2. OnLine(s, x, y) <=>
          \/ x - (b + 1) \in s.top /\ s.margin <= y /\ y < b + 1
          \/ x - (b + 1) \in s.bottom /\ b + 1 + n <= y /\ y < 2 * b + 2 + n - s.margin
          \/ s.margin <= x /\ x < b + 1 /\ y - (b + 1) \in s.left
          \/ b + 1 + n <= x /\ x < 2 * b + 2 + n - s.margin /\ y - (b + 1) \in s.right
    BY <1>1 DEF OnLine, n
  <2>3. (x - b) - 1 = x - (b + 1) /\ (y - b) - 1 = y - (b + 1)
    BY <1>1
  <2>4. /\ 0 <= y - b /\ y - b < 1 <=> y = b
        /\ 1 + n <= y - b /\ y - b < n + 2 <=> y = b + n + 1
        /\ 0 <= x - b /\ x - b < 1 <=> x = b
        /\ 1 + n <= x - b /\ x - b < n + 2 <=> x = b + n + 1
    BY <1>1
  <2>5. ASSUME NEW z \in Int, z \in b .. b + (n + 2) - 1
        PROVE  /\ s.margin <= z /\ z < b + 1 <=> z = b
               /\ b + 1 + n <= z /\ z < 2 * b + 2 + n - s.margin <=> z = b + n + 1
    BY <1>1, <2>5
  <2>6. ASSUME NEW z \in Int, NEW line, line \subseteq 0 .. n - 1, z - (b + 1) \in line
        PROVE  z \in b .. b + (n + 2) - 1
    <3>1. z - (b + 1) \in 0 .. n - 1
      BY <2>6
    <3> QED  BY <1>1, <3>1
  <2>7. b \in b .. b + (n + 2) - 1 /\ b + n + 1 \in b .. b + (n + 2) - 1
    BY <1>1
  <2>8. ASSUME x \in b .. b + (n + 2) - 1, y \in b .. b + (n + 2) - 1
        PROVE  OnLine(s, x, y) <=> OnLine(PatchShape(s), x - b, y - b)
    BY <2>1, <2>2, <2>3, <2>4, <2>5, <2>8, Zenon
  <2>9. ASSUME OnLine(PatchShape(s), x - b, y - b)
        PROVE  x \in b .. b + (n + 2) - 1 /\ y \in b .. b + (n + 2) - 1
    BY <1>1, <2>1, <2>3, <2>4, <2>6, <2>7, <2>9, Zenon
  <2> QED  BY <2>8, <2>9
<1>6. moved \subseteq P.ink
  <2> SUFFICES ASSUME NEW p \in inside PROVE <<p[1] - b, p[2] - b>> \in P.ink
    BY Zenon
  <2>1. /\ p \in I.ink /\ p \in Int \X Int
        /\ p[1] \in b .. b + (n + 2) - 1 /\ p[2] \in b .. b + (n + 2) - 1
    BY <1>2
  <2>2. p[1] \in Int /\ p[2] \in Int /\ <<p[1], p[2]>> \in I.ink
    BY <2>1
  <2>3. OnLine(PatchShape(s), p[1] - b, p[2] - b)
    BY <1>2, <1>5, <2>1, <2>2, Zenon
  <2>4. p[1] - b \in Int /\ p[2] - b \in Int
    BY <1>1, <2>2
  <2> QED  BY <1>2, <2>3, <2>4, Zenon
<1>7. P.ink \subseteq moved
  <2> SUFFICES ASSUME NEW q \in P.ink PROVE q \in moved
    BY Zenon
  <2> DEFINE x == q[1] + b
             y == q[2] + b
  <2>1. q \in Int \X Int /\ q = <<q[1], q[2]>> /\ q[1] \in Int /\ q[2] \in Int
    BY <1>2
  <2>2. x \in Int /\ y \in Int /\ x - b = q[1] /\ y - b = q[2]
    BY <1>1, <2>1
  <2> HIDE DEF x, y
  <2>3. OnLine(PatchShape(s), x - b, y - b)
    BY <1>2, <2>1, <2>2, Zenon
  <2>4. /\ x \in b .. b + (n + 2) - 1 /\ y \in b .. b + (n + 2) - 1
        /\ OnLine(s, x, y)
    BY <1>5, <2>2, <2>3, Zenon
  <2>5. <<x, y>> \in I.ink
    BY <1>2, <2>2, <2>4, Zenon
  <2>6. <<x, y>> \in inside
    BY <2>4, <2>5
  <2>7. q = <<<<x, y>>[1] - b, <<x, y>>[2] - b>>
    BY <2>1, <2>2
  <2> HIDE DEF inside
  <2> QED  BY <2>6, <2>7, Zenon
<1>8. moved = P.ink
  BY <1>6, <1>7, Zenon
<1> HIDE DEF moved
<1>9. P = Patch(s)
  BY PatchIsDrawing, Zenon DEF P
<1>10. Copy(I, b, b, n + 2, n + 2) = P
  BY <1>3, <1>4, <1>8, Zenon
<1> QED  BY <1>9, <1>10, Zenon DEF I, b, n

\* Along an edge without a line nothing is found, if the search begins at the drawing and the
\* lines of the other edges are no thicker than what it leaves out.
LEMMA OpenScan ==
  ASSUME NEW s, IsDrawing(s), Inner(s) = 2, NEW e \in Edges, s[e] = {}
  PROVE  Scan(Export(s), e, 2) = NoLine
<1> DEFINE I == Export(s)
           n == s.size
           rows == {d \in Distances(I, e) : Found(I, e, d, 2) # {}}
<1>1. n \in Nat /\ Total(s) = n + 4 /\ Along(I, e) = n + 4 /\ Across(I, e) = n + 4
  BY ExportedInk DEF IsDrawing, Total, Along, Across
<1>2. ASSUME NEW d \in Distances(I, e) PROVE Found(I, e, d, 2) = {}
  <2> DEFINE line == {p \in 2 .. Along(I, e) - 3 : Ink(I, e, d, p)}
  <2>1. d \in Nat /\ d < 2 + n
    BY <1>1 DEF Distances
  <2>2. ASSUME NEW p \in 2 .. Along(I, e) - 3 PROVE ~ Ink(I, e, d, p)
    <3>1. p \in Int /\ 2 <= p /\ p < 2 + n
      BY <1>1
    <3> QED  BY <2>1, <3>1, InkFromEdge
  <2>3. line = {}
    BY <2>2
  <2>4. Seen(I, e, d, 2) = {}
    BY <2>3 DEF Seen
  <2> QED  BY <2>4 DEF Found
<1>3. rows = {}
  BY <1>2
<1> QED  BY <1>3 DEF Scan

\* What the four searches find in a drawing that needs a crop, and the thickness after them.
LineOf(s) == [crop |-> TRUE, onePixel |-> FALSE,
              first |-> IF s.margin = 0 THEN 1 ELSE s.margin, last |-> Inner(s) - 1]
ThicknessOf(s) == Inner(s) - (IF s.margin = 0 THEN 1 ELSE s.margin) + 1

\* The thickness is that of the line, and its margin in the row that is found.
LEMMA AllThickness ==
  ASSUME NEW s, IsDrawing(s), Inner(s) > 1
  PROVE  /\ Inner(s) \in Nat /\ ThicknessOf(s) \in Nat /\ 1 < ThicknessOf(s)
         /\ ThicknessOf(s) <= Inner(s)
         /\ Inner(s) = 2 => ThicknessOf(s) = 2
<1> DEFINE T == ThicknessOf(s)
<1>1. s.margin \in Nat /\ s.thickness \in Nat \ {0}
  BY DEF IsDrawing
<1>2. ThicknessOf(s) = IF s.margin = 0 THEN s.thickness ELSE s.thickness + 1
  BY <1>1 DEF ThicknessOf, Inner
<1>3. Inner(s) = s.margin + s.thickness
  BY DEF Inner
<1> HIDE DEF T
<1>4. T = IF s.margin = 0 THEN s.thickness ELSE s.thickness + 1
  BY <1>2 DEF T
<1>5. /\ Inner(s) \in Nat /\ T \in Nat /\ 1 < T /\ T <= Inner(s)
      /\ Inner(s) = 2 => T = 2
  BY <1>1, <1>3, <1>4
<1> QED  BY <1>5 DEF T

\* The first search learns the thickness; the three others begin beyond it, and find their
\* own line, where there is one.
LEMMA AllFound ==
  ASSUME NEW s, IsDrawing(s), Inner(s) > 1, s.top # {},
         Inner(s) = 2 \/ \A e \in Edges : s[e] # {}
  PROVE  LET line == [e \in Edges |-> IF s[e] # {} THEN LineOf(s) ELSE NoLine] IN
         ScanAll(Export(s)) =
           FoundSoFar(ThicknessOf(s), LineOf(s), line["bottom"], line["left"], line["right"])
<1> DEFINE I == Export(s)
           L == LineOf(s)
           T == ThicknessOf(s)
           line == [e \in Edges |-> IF s[e] # {} THEN L ELSE NoLine]
<1>1. /\ Inner(s) \in Nat /\ T \in Nat /\ 1 < T /\ T <= Inner(s)
      /\ Inner(s) = 2 => T = 2
  BY AllThickness
<1>2. "top" \in Edges /\ "bottom" \in Edges /\ "left" \in Edges /\ "right" \in Edges
  BY DEF Edges
<1>3. LineFrom(I, 0, "top") = L
  <2>1. Max({1, 0}) = 1
    BY MaxOfTwo
  <2>2. 1 \in 1 .. Inner(s) /\ s["top"] # {}
    BY <1>1
  <2>3. Scan(I, "top", 1) = L
    BY <1>2, <2>2, LineScan, Zenon DEF LineOf
  <2> QED  BY <2>1, <2>3, Zenon DEF LineFrom
<1>4. ThicknessFrom(I, 0, "top") = T
  <2>1. s.margin \in Nat /\ s.thickness \in Nat \ {0}
    BY DEF IsDrawing
  <2>2. ThicknessAfter(0, "top", L) = T
    BY <1>1, <2>1 DEF ThicknessAfter, LineOf, ThicknessOf
  <2> QED  BY <1>3, <2>2, Zenon DEF ThicknessFrom
<1>5. ASSUME NEW e \in Edges
      PROVE  LineFrom(I, T, e) = line[e] /\ ThicknessFrom(I, T, e) = T
  <2>1. Max({1, T}) = T /\ T # 0 /\ T \in 1 .. Inner(s)
    BY <1>1, MaxOfTwo
  <2> HIDE DEF T
  <2>2. CASE s[e] # {}
    <3>1. Scan(I, e, T) = L
      BY <2>1, <2>2, LineScan, Zenon DEF LineOf
    <3> QED  BY <2>1, <2>2, <3>1, Zenon DEF LineFrom, ThicknessFrom, ThicknessAfter
  <2>3. CASE s[e] = {}
    <3>1. Inner(s) = 2 /\ T = 2
      BY <1>1, <2>3
    <3>2. Scan(I, e, 2) = NoLine
      BY <2>3, <3>1, OpenScan, Zenon
    <3> QED  BY <2>1, <2>3, <3>1, <3>2, Zenon DEF LineFrom, ThicknessFrom, ThicknessAfter
  <2> QED  BY <2>2, <2>3
<1> HIDE DEF I, L, T, line
<1>6. ScanAll(I) = FoundSoFar(T, L, line["bottom"], line["left"], line["right"])
  BY <1>2, <1>3, <1>4, <1>5, AllScanned
<1> QED  BY <1>6, Zenon DEF I, L, T, line

\* A drawing that has to be cropped becomes the patch.
LEMMA ThickCropped ==
  ASSUME NEW s, Croppable(s), Inner(s) > 1
  PROVE  CropImageToLines(Export(s)) = Patch(s)
<1> DEFINE I == Export(s)
           L == LineOf(s)
           T == ThicknessOf(s)
           b == Inner(s) - 1
           line == [e \in Edges |-> IF s[e] # {} THEN L ELSE NoLine]
           f == FoundSoFar(T, L, line["bottom"], line["left"], line["right"])
<1>1. /\ s.margin \in Nat /\ s.thickness \in Nat \ {0} /\ s.size \in Nat
      /\ Inner(s) = s.margin + s.thickness /\ Total(s) = 2 * Inner(s) + s.size
  BY DEF Croppable, IsDrawing, Inner, Total
<1>2. /\ IsDrawing(s) /\ s.top # {} /\ s.left # {}
      /\ Inner(s) = 2 \/ \A e \in Edges : s[e] # {}
  <2>1. ~ (s.thickness = 1 /\ s.margin = 0)
    BY <1>1
  <2>2. IsDrawing(s) /\ ((\A e \in Edges : s[e] # {}) \/ (s.top # {} /\ s.left # {} /\ Inner(s) <= 2))
    BY <2>1, Zenon DEF Croppable, Inner
  <2>3. (\A e \in Edges : s[e] # {}) => s.top # {} /\ s.left # {}
    BY DEF Edges
  <2> QED  BY <1>1, <2>2, <2>3
<1>3. ScanAll(I) = f
  BY <1>2, AllFound, Zenon
<1>4. L.crop /\ L.last = b /\ ~ NoLine.crop /\ T \in Nat /\ 1 < T
  BY <1>1 DEF LineOf, NoLine, ThicknessOf
<1>5. /\ line["left"] = L
      /\ line["bottom"] = L \/ (line["bottom"] = NoLine /\ Inner(s) = 2)
      /\ line["right"] = L \/ (line["right"] = NoLine /\ Inner(s) = 2)
  <2> HIDE DEF L
  <2> QED  BY <1>2 DEF Edges
<1>6. Max({0, T - 1}) = T - 1 /\ (Inner(s) = 2 => T - 1 = b)
  <2>1. T - 1 \in Int /\ ~ (0 >= T - 1)
    BY <1>4
  <2> HIDE DEF T
  <2>2. Max({0, T - 1}) = T - 1
    BY <2>1, MaxOfTwo
  <2>3. Inner(s) = 2 => T = 2
    BY <1>2, AllThickness, Zenon DEF T
  <2> QED  BY <2>2, <2>3 DEF b
<1>7. I.width = Total(s) /\ I.height = Total(s)
  BY <1>2, ExportedInk
<1> DEFINE Size(last) == IF last.crop THEN Total(s) - last.last - b ELSE Total(s) - 2 * (T - 1)
<1>8. Size(line["bottom"]) = s.size + 2 /\ Size(line["right"]) = s.size + 2
  <2>1. Size(L) = s.size + 2
    BY <1>1, <1>4
  <2>2. Inner(s) = 2 => Size(NoLine) = s.size + 2
    <3> HIDE DEF T, b
    <3>1. Inner(s) = 2 => Size(NoLine) = Total(s) - 2 * b
      BY <1>4, <1>6, Zenon
    <3>2. Total(s) - 2 * b = s.size + 2
      BY <1>1 DEF b
    <3> QED  BY <3>1, <3>2
  <2> HIDE DEF Size, L, line
  <2> QED  BY <1>5, <2>1, <2>2
<1>9. /\ f.thickness = T /\ f.top = L /\ f["top"] = L /\ f.bottom = line["bottom"]
      /\ f.left = L /\ f.right = line["right"]
  <2> HIDE DEF L, T, line
  <2> QED  BY <1>5 DEF FoundSoFar
<1> HIDE DEF L, T, line, f, I
<1>10. CropTo(I, f) = Copy(I, b, b, Size(line["right"]), Size(line["bottom"]))
  BY <1>4, <1>6, <1>7, <1>9, Zenon DEF CropTo, Edges
<1> HIDE DEF Size, b
<1>11. CropTo(I, f) = Copy(I, b, b, s.size + 2, s.size + 2)
  BY <1>8, <1>10, Zenon
<1>12. Copy(I, b, b, s.size + 2, s.size + 2) = Patch(s)
  BY <1>2, CopiedIsPatch, Zenon DEF I, b
<1> QED  BY <1>3, <1>11, <1>12, Zenon DEF CropImageToLines, I

\* cropImageToLines() makes the patch of a drawing, of any size, at any scale and margin,
\* with lines that span anything.
THEOREM DrawingCropped ==
  ASSUME NEW s, Croppable(s)
  PROVE  CropImageToLines(Export(s)) = Patch(s)
<1>1. IsDrawing(s) /\ s.margin \in Nat /\ s.thickness \in Nat \ {0}
  BY DEF Croppable, IsDrawing
<1>2. CASE Inner(s) > 1
  BY <1>2, ThickCropped
<1>3. CASE ~ (Inner(s) > 1)
  <2>1. s.thickness = 1 /\ s.margin = 0
    BY <1>1, <1>3 DEF Inner
  <2>2. PatchShape(s) = s
    BY <1>1, <2>1 DEF PatchShape, IsDrawing
  <2>3. Patch(s) = Export(s)
    BY <1>1, <2>2, PatchIsDrawing, Zenon
  <2> QED  BY <1>1, <2>1, <2>3, PatchUnchanged
<1> QED  BY <1>2, <1>3

-----------------------------------------------------------------------------
(* AssetFixer: the directory that is watched *)

Fixer == [shouldWatch : BOOLEAN, dir : BOOLEAN, firstWatch : BOOLEAN, watching : BOOLEAN]
Settings == [use : BOOLEAN, dir : BOOLEAN, auto : BOOLEAN]

ControlTypes ==
  /\ settings \in Settings
  /\ app \in {"closed", "starting", "up"}
  /\ fixer \in Fixer

IInv == ControlTypes /\ WatchesDirectory

\* a fixer that watches exactly what it should
InStep(fx) == fx \in Fixer /\ (fx.watching <=> CanWatch(fx))

\* startWatching(), with no watch in place, watches what there is to watch, and
\* suggests a fix only then.
LEMMA StartWatchingInStep ==
  ASSUME NEW fx \in Fixer, ~ fx.watching
  PROVE  LET started == StartWatching(fx).fixer IN
         /\ InStep(started) /\ started.shouldWatch = fx.shouldWatch /\ started.dir = fx.dir
         /\ StartWatching(fx).signal \in {"none", "fix", "reload"}
         /\ StartWatching(fx).signal = "fix" => started.watching
<1>1. CASE CanWatch(fx)
  <2>1. /\ StartWatching(fx).fixer = [fx EXCEPT !.watching = TRUE, !.firstWatch = FALSE]
        /\ StartWatching(fx).signal \in {"fix", "reload"}
    BY <1>1 DEF StartWatching
  <2> QED  BY <1>1, <2>1 DEF InStep, CanWatch, Fixer
<1>2. CASE ~ CanWatch(fx)
  <2>1. StartWatching(fx).fixer = fx /\ StartWatching(fx).signal = "none"
    BY <1>2 DEF StartWatching
  <2> QED  BY <1>2, <2>1 DEF InStep
<1> QED  BY <1>1, <1>2

\* A setter leaves a consistent fixer consistent: stopWatching() looks at the old
\* value and startWatching() at the new one.
LEMMA SetShouldWatchInStep ==
  ASSUME NEW fx, InStep(fx), NEW watch \in BOOLEAN
  PROVE  LET result == SetShouldWatch(fx, watch) IN
         /\ InStep(result.fixer) /\ result.fixer.shouldWatch = watch /\ result.fixer.dir = fx.dir
         /\ result.signal \in {"none", "fix", "reload"}
         /\ result.signal = "fix" => result.fixer.watching
<1>1. CASE watch = fx.shouldWatch
  BY <1>1 DEF SetShouldWatch, InStep
<1>2. CASE watch # fx.shouldWatch
  <2> DEFINE stopped == [StopWatching(fx) EXCEPT !.shouldWatch = watch]
  <2>1. /\ stopped \in Fixer
        /\ ~ stopped.watching
        /\ stopped.shouldWatch = watch
        /\ stopped.dir = fx.dir
    BY <1>2 DEF StopWatching, InStep, CanWatch, Fixer
  <2>2. SetShouldWatch(fx, watch) = StartWatching(stopped)
    BY <1>2 DEF SetShouldWatch
  <2> HIDE DEF stopped
  <2> QED  BY <2>1, <2>2, StartWatchingInStep
<1> QED  BY <1>1, <1>2

\* The same for the directory.
LEMMA SetAssetDirectoryInStep ==
  ASSUME NEW fx, InStep(fx), NEW dir \in BOOLEAN
  PROVE  LET result == SetAssetDirectory(fx, dir) IN
         /\ InStep(result.fixer) /\ result.fixer.dir = dir /\ result.fixer.shouldWatch = fx.shouldWatch
         /\ result.signal \in {"none", "fix", "reload"}
         /\ result.signal = "fix" => result.fixer.watching
<1>1. CASE dir = fx.dir
  BY <1>1 DEF SetAssetDirectory, InStep
<1>2. CASE dir # fx.dir
  <2> DEFINE stopped == [StopWatching(fx) EXCEPT !.dir = dir]
  <2>1. /\ stopped \in Fixer
        /\ ~ stopped.watching
        /\ stopped.dir = dir
        /\ stopped.shouldWatch = fx.shouldWatch
    BY <1>2 DEF StopWatching, InStep, CanWatch, Fixer
  <2>2. SetAssetDirectory(fx, dir) = StartWatching(stopped)
    BY <1>2 DEF SetAssetDirectory
  <2> HIDE DEF stopped
  <2> QED  BY <2>1, <2>2, StartWatchingInStep
<1> QED  BY <1>1, <1>2

\* The steps in which a setting or the rendering changes.
LEMMA SettingStep ==
  ASSUME IInv, NEW new \in Settings, InitialRender \/ ToggleUse \/ ApplySettings(new)
  PROVE  IInv'
<1>1. InStep(fixer)
  BY DEF IInv, ControlTypes, WatchesDirectory, InStep, CanWatch
<1>2. CASE InitialRender
  <2>1. /\ fixer' = SetShouldWatch(fixer, settings.use).fixer
        /\ app = "starting" /\ app' = "up" /\ settings' = settings
    BY <1>2 DEF InitialRender, Handle
  <2>2. settings.use \in BOOLEAN
    BY DEF IInv, ControlTypes, Settings
  <2>3. InStep(fixer') /\ fixer'.shouldWatch = settings.use /\ fixer'.dir = fixer.dir
    BY <1>1, <2>1, <2>2, SetShouldWatchInStep
  <2> QED
    BY <2>1, <2>3 DEF IInv, ControlTypes, WatchesDirectory, InStep, CanWatch
<1>3. CASE ToggleUse
  <2>1. /\ fixer' = SetShouldWatch(fixer, settings'.use /\ app = "up").fixer
        /\ app # "closed" /\ app' = app
        /\ settings' = [settings EXCEPT !.use = ~ @]
    BY <1>3 DEF ToggleUse, Handle
  <2>2. settings' \in Settings /\ settings'.dir = settings.dir
    BY <2>1 DEF IInv, ControlTypes, Settings
  <2>3. /\ InStep(fixer')
        /\ fixer'.shouldWatch = (settings'.use /\ app = "up")
        /\ fixer'.dir = fixer.dir
    BY <1>1, <2>1, <2>2, SetShouldWatchInStep DEF Settings
  <2> QED
    BY <2>1, <2>2, <2>3 DEF IInv, ControlTypes, WatchesDirectory, InStep, CanWatch, Settings
<1>4. CASE ApplySettings(new)
  <2> DEFINE first == SetShouldWatch(fixer, new.use /\ app = "up")
             second == SetAssetDirectory(first.fixer, new.dir)
  <2>1. /\ fixer' = Then(first, second).fixer
        /\ app # "closed" /\ app' = app /\ settings' = new
    BY <1>4 DEF ApplySettings, Handle
  <2>2. new.use \in BOOLEAN /\ new.dir \in BOOLEAN
    BY DEF Settings
  <2>3. InStep(first.fixer) /\ first.fixer.shouldWatch = (new.use /\ app = "up")
    BY <1>1, <2>2, SetShouldWatchInStep
  <2>4. /\ InStep(second.fixer)
        /\ second.fixer.dir = new.dir
        /\ second.fixer.shouldWatch = (new.use /\ app = "up")
    BY <2>2, <2>3, SetAssetDirectoryInStep
  <2>5. Then(first, second).fixer = second.fixer
    <3>1. second = [fixer |-> second.fixer, signal |-> second.signal]
      BY DEF SetAssetDirectory, StartWatching
    <3> HIDE DEF first, second
    <3> QED  BY <3>1 DEF Then
  <2> HIDE DEF first, second
  <2> QED
    BY <2>1, <2>2, <2>4, <2>5 DEF IInv, ControlTypes, WatchesDirectory, InStep, CanWatch, Settings
<1> QED  BY <1>2, <1>3, <1>4

\* Starting and quitting the program.
LEMMA LifeStep ==
  ASSUME IInv, Launch \/ Quit
  PROVE  IInv'
<1>1. ClosedFixer \in Fixer
  BY DEF ClosedFixer, Fixer
<1>2. CASE Launch
  <2>1. fixer' \in Fixer /\ ~ fixer'.watching /\ ~ fixer'.shouldWatch /\ fixer'.dir = settings.dir
    BY <1>2 DEF Launch, ClosedFixer, Fixer, Settings, IInv, ControlTypes
  <2> QED
    BY <1>2, <2>1 DEF Launch, IInv, ControlTypes, WatchesDirectory
<1>3. CASE Quit
  BY <1>1, <1>3 DEF Quit, ClosedFixer, IInv, ControlTypes, WatchesDirectory
<1> QED  BY <1>2, <1>3

\* All the rest leaves the settings and the watcher alone.
LEMMA OtherStep ==
  ASSUME IInv, Next
  PROVE  \/ IInv'
         \/ UNCHANGED <<settings, app, fixer>>
<1>1. CASE Launch \/ Quit
  BY <1>1, LifeStep
<1>2. CASE InitialRender \/ ToggleUse
  <2>1. settings \in Settings
    BY DEF IInv, ControlTypes
  <2> QED  BY <1>2, <2>1, SettingStep
<1>3. CASE \E new \in Settings : ApplySettings(new)
  BY <1>3, SettingStep
<1>4. CASE ManualFix \/ ManualReload \/ Tick
  BY <1>4 DEF ManualFix, ManualReload, Tick
<1>5. CASE DesignerStep
  BY <1>5 DEF DesignerStep, StartExport, FinishExport
<1>6. CASE OnAssetsChanged \/ DelayEnds \/ AnimationEnds \/ ReloadAssets
  BY <1>6 DEF OnAssetsChanged, DelayEnds, AnimationEnds, ReloadAssets
<1> QED
  BY <1>1, <1>2, <1>3, <1>4, <1>5, <1>6 DEF Next, UserStep, EventLoopStep, Settings

\* The directory is watched as it should be, before and after a step.
LEMMA FixerStep ==
  ASSUME IInv, [Next]_vars
  PROVE  IInv'
<1>1. IInv' \/ UNCHANGED <<settings, app, fixer>>
  <2>1. CASE Next
    BY <2>1, OtherStep
  <2>2. CASE UNCHANGED vars
    BY <2>2 DEF vars
  <2> QED  BY <2>1, <2>2
<1>2. CASE UNCHANGED <<settings, app, fixer>>
  BY <1>2 DEF IInv, ControlTypes, WatchesDirectory
<1> QED  BY <1>1, <1>2

\* However settings, renderings, fixes and exports follow each other, the watcher is
\* connected exactly when there is a directory to watch.
THEOREM WatchesWhatItShould == Spec => []WatchesDirectory
<1>1. Init => IInv
  BY DEF Init, ClosedFixer, IInv, ControlTypes, Settings, Fixer, WatchesDirectory
<1>2. IInv /\ [Next]_vars => IInv'
  BY FixerStep
<1>3. IInv => WatchesDirectory
  BY DEF IInv
<1> QED  BY <1>1, <1>2, <1>3, PTL DEF Spec

-----------------------------------------------------------------------------
(* AssetFixer: the images *)

\* A first pass makes the patch of every drawing and a second one keeps it; an image that
\* has not been fixed is not right for all drawings.
LEMMA WhichAreRight ==
  /\ "cropped" \in RightPictures /\ "recropped" \in RightPictures
  /\ "raw" \notin RightPictures /\ "partial" \notin RightPictures /\ "none" \notin RightPictures
<1>1. ASSUME NEW s \in Shapes
      PROVE  Image[s].cropped = Patch(s) /\ Image[s].recropped = Patch(s) /\ Image[s].raw = Export(s)
  <2>1. CropImageToLines(Export(s)) = Patch(s)
    BY ShapesAssumption, DrawingCropped, Zenon
  <2>2. IsDrawing(s)
    BY ShapesAssumption DEF Croppable
  <2>3. CropImageToLines(Patch(s)) = Patch(s)
    BY <2>2, PatchIsDrawing, PatchUnchanged, Zenon
  <2>4. Image[s] = [raw |-> Export(s), cropped |-> CropImageToLines(Export(s)),
                    recropped |-> CropImageToLines(CropImageToLines(Export(s)))]
    BY Zenon DEF Image
  <2> QED  BY <2>1, <2>3, <2>4
<1>2. PICK s \in Shapes : s.margin + s.thickness > 1
  BY ShapesAssumption
<1>3. Export(s) # Patch(s)
  <2>1. IsDrawing(s)
    BY ShapesAssumption DEF Croppable
  <2>2. Export(s).width = Total(s) /\ Patch(s).width = s.size + 2
    BY <2>1, ExportedInk, PatchIsDrawing
  <2>3. Total(s) # s.size + 2
    BY <1>2, <2>1 DEF IsDrawing, Total, Inner
  <2> QED  BY <2>2, <2>3, Zenon
<1>4. \A c : c \in RightPictures <=> c \in Pictures /\ \A t \in Shapes : Image[t][c] = Patch(t)
  BY Zenon DEF RightPictures
<1>5. "raw" \notin RightPictures
  BY <1>1, <1>3, <1>4, Zenon
<1>6. "cropped" \in RightPictures /\ "recropped" \in RightPictures
  BY <1>1, <1>4 DEF Pictures
<1>7. "partial" \notin RightPictures /\ "none" \notin RightPictures
  BY <1>4 DEF Pictures
<1> QED  BY <1>5, <1>6, <1>7

\* However often images are exported and fixed, none is spoilt.
THEOREM ImagesStayIntact == Spec => []ImagesIntact
<1>1. ImagesIntact
  BY WhichAreRight DEF ImagesIntact, Pictures
<1> QED  BY <1>1, PTL

-----------------------------------------------------------------------------
(* AssetFixer: what was noticed is fixed *)

\* A promise that is not kept yet has its fix on the way, and the fix is still wanted; a
\* change that is fixed and not on screen is about to be loaded.
PromiseKept ==
  /\ app = "closed" => ~ Pending
  /\ notified => fixer.watching
  /\ promised /\ ~ AllFixed => Pending /\ fixer.watching /\ settings.auto
  /\ app # "closed" /\ AllFixed /\ unseen => reload

FixInv ==
  /\ file \in [Files -> Contents]
  /\ delay \in Nat
  /\ PromiseKept

\* A setting that changes, or the first rendering, and its signal: a suggested fix starts
\* the animation if it promises anything, and a promise that is pending is given up where
\* the watch or the fixing ends.
LEMMA HandleStep ==
  ASSUME IInv, IInv', FixInv, app # "closed", app' # "closed", NEW result,
         result.signal = "fix" => result.fixer.watching,
         Handle(result, settings.auto, settings'.auto), UNCHANGED disk
  PROVE  FixInv'
<1>1. /\ fixer' = result.fixer
      /\ notified' = (notified /\ result.fixer.watching)
      /\ IF Fixes(result, settings.auto) THEN FixEmUp(FALSE) ELSE UNCHANGED <<manual, animation>>
      /\ reload' = (reload \/ result.signal = "reload")
      /\ promised' = \/ result.signal = "fix" /\ settings.auto /\ settings'.auto
                     \/ promised /\ (Pending => result.fixer.watching /\ settings'.auto)
      /\ UNCHANGED <<delay, unseen>>
      /\ file' = file
  BY DEF Handle, disk
<1>2. AllFixed' <=> AllFixed
  BY <1>1 DEF AllFixed
<1>3. CASE result.signal = "fix"
  <2>1. fixer'.watching /\ fixer'.shouldWatch /\ fixer'.dir
    BY <1>1, <1>3 DEF IInv, WatchesDirectory
  <2>2. settings.auto => animation'
    BY <1>1, <1>3, <2>1 DEF Fixes, EffectiveShouldFix, FixEmUp
  <2>3. animation => animation'
    BY <1>1 DEF FixEmUp
  <2>4. Pending => Pending'
    BY <1>1, <2>1, <2>3 DEF Pending
  <2>5. promised' => (Pending' /\ settings'.auto) \/ AllFixed
    BY <1>1, <2>1, <2>2, <2>4 DEF FixInv, PromiseKept, Pending
  <2> QED  BY <1>1, <1>2, <2>1, <2>5 DEF FixInv, PromiseKept
<1>4. CASE result.signal # "fix"
  <2>1. animation => animation'
    BY <1>1 DEF FixEmUp
  <2>2. promised' => promised /\ (Pending => result.fixer.watching /\ settings'.auto)
    BY <1>1, <1>4
  <2>3. promised' /\ Pending => Pending'
    BY <1>1, <2>1, <2>2 DEF Pending
  <2> QED  BY <1>1, <1>2, <2>2, <2>3 DEF FixInv, PromiseKept
<1> QED  BY <1>3, <1>4

\* The steps in which settings change.
LEMMA SettingsStep ==
  ASSUME IInv, IInv', FixInv, NEW new \in Settings,
         InitialRender \/ ToggleUse \/ ApplySettings(new)
  PROVE  FixInv'
<1>1. InStep(fixer)
  BY DEF IInv, ControlTypes, WatchesDirectory, InStep, CanWatch
<1>2. CASE InitialRender
  <2> DEFINE result == SetShouldWatch(fixer, settings.use)
  <2>1. settings.use \in BOOLEAN
    BY DEF IInv, ControlTypes, Settings
  <2>2. result.signal = "fix" => result.fixer.watching
    BY <1>1, <2>1, SetShouldWatchInStep
  <2> HIDE DEF result
  <2>3. /\ app # "closed" /\ app' # "closed" /\ settings' = settings /\ UNCHANGED disk
        /\ Handle(result, settings.auto, settings'.auto)
    BY <1>2 DEF InitialRender, result
  <2> QED  BY <2>2, <2>3, HandleStep
<1>3. CASE ToggleUse
  <2> DEFINE result == SetShouldWatch(fixer, settings'.use /\ app = "up")
  <2>1. result.signal = "fix" => result.fixer.watching
    BY <1>1, SetShouldWatchInStep
  <2> HIDE DEF result
  <2>2. settings' = [settings EXCEPT !.use = ~ @] /\ settings \in Settings
    BY <1>3 DEF ToggleUse, IInv, ControlTypes
  <2>3. settings'.auto = settings.auto
    BY <2>2 DEF Settings
  <2>4. /\ app # "closed" /\ app' # "closed" /\ UNCHANGED disk
        /\ Handle(result, settings.auto, settings'.auto)
    BY <1>3, <2>3 DEF ToggleUse, result
  <2> QED  BY <2>1, <2>4, HandleStep
<1>4. CASE ApplySettings(new)
  <2> DEFINE first == SetShouldWatch(fixer, new.use /\ app = "up")
             second == SetAssetDirectory(first.fixer, new.dir)
             result == Then(first, second)
  <2>1. new.use \in BOOLEAN /\ new.dir \in BOOLEAN /\ (new.use => new.dir)
    BY <1>4 DEF Settings, ApplySettings
  <2>2. /\ InStep(first.fixer) /\ first.fixer.shouldWatch = (new.use /\ app = "up")
        /\ first.signal \in {"none", "fix", "reload"}
        /\ first.signal = "fix" => first.fixer.watching
    BY <1>1, <2>1, SetShouldWatchInStep
  <2>3. second.signal = "fix" => second.fixer.watching
    BY <2>1, <2>2, SetAssetDirectoryInStep
  <2>4. second = [fixer |-> second.fixer, signal |-> second.signal]
    BY DEF SetAssetDirectory, StartWatching
  <2>5. first.signal = "fix" => second.fixer = first.fixer
    <3> SUFFICES ASSUME first.signal = "fix" PROVE second.fixer = first.fixer
      OBVIOUS
    <3>1. first.fixer.dir /\ first.fixer.dir \in BOOLEAN /\ new.dir
      BY <2>1, <2>2 DEF InStep, CanWatch, Fixer
    <3>2. new.dir = first.fixer.dir
      BY <2>1, <3>1
    <3> HIDE DEF first
    <3> QED  BY <3>2 DEF SetAssetDirectory
  <2> HIDE DEF first, second
  <2>6. /\ result.fixer = second.fixer
        /\ result.signal = IF first.signal # "none" THEN first.signal ELSE second.signal
    BY <2>4 DEF Then
  <2>7. result.signal = "fix" => result.fixer.watching
    BY <2>2, <2>3, <2>5, <2>6
  <2> HIDE DEF result
  <2>8. /\ app # "closed" /\ app' # "closed" /\ UNCHANGED disk /\ settings' = new
        /\ Handle(result, settings.auto, settings'.auto)
    BY <1>4 DEF ApplySettings, result, first, second
  <2> QED  BY <2>7, <2>8, HandleStep
<1> QED  BY <1>2, <1>3, <1>4

\* Starting and quitting the program, and what else the user does.
LEMMA UserFixStep ==
  ASSUME IInv, FixInv, Launch \/ Quit \/ ManualFix \/ ManualReload
  PROVE  FixInv'
<1>1. CASE Launch
  <2>1. /\ file' = file /\ delay' = delay /\ notified' = notified /\ animation' = animation
        /\ app = "closed" /\ promised' = promised /\ ~ unseen'
    BY <1>1 DEF Launch, disk, timers
  <2>2. (AllFixed' <=> AllFixed) /\ (Pending' <=> Pending)
    BY <2>1 DEF AllFixed, Pending
  <2> QED  BY <2>1, <2>2 DEF FixInv, PromiseKept, Pending
<1>2. CASE Quit
  <2>1. /\ file' = file /\ delay' = 0 /\ ~ notified' /\ ~ animation'
        /\ app' = "closed" /\ (promised' => promised /\ ~ Pending)
    BY <1>2 DEF Quit, disk
  <2>2. (AllFixed' <=> AllFixed) /\ ~ Pending'
    BY <2>1 DEF AllFixed, Pending
  <2>3. FixInv => (promised /\ ~ Pending => AllFixed)
    BY DEF FixInv, PromiseKept
  <2> QED  BY <2>1, <2>2, <2>3 DEF FixInv, PromiseKept
<1>3. CASE ManualFix
  <2>1. /\ file' = file /\ delay' = delay /\ notified' = notified /\ animation'
        /\ app # "closed" /\ app' = app /\ promised' = promised /\ unseen' = unseen
        /\ fixer' = fixer /\ settings' = settings /\ reload' = reload
    BY <1>3 DEF ManualFix, FixEmUp, disk
  <2>2. (AllFixed' <=> AllFixed) /\ Pending'
    BY <2>1 DEF AllFixed, Pending
  <2> QED  BY <2>1, <2>2 DEF FixInv, PromiseKept
<1>4. CASE ManualReload
  <2>1. /\ file' = file /\ delay' = delay /\ notified' = notified /\ animation' = animation
        /\ app' = app /\ promised' = promised /\ fixer' = fixer /\ settings' = settings /\ reload'
    BY <1>4 DEF ManualReload, disk
  <2>2. (AllFixed' <=> AllFixed) /\ (Pending' <=> Pending)
    BY <2>1 DEF AllFixed, Pending
  <2> QED  BY <2>1, <2>2 DEF FixInv, PromiseKept
<1> QED  BY <1>1, <1>2, <1>3, <1>4

\* The designer's steps: the change is noticed while the directory is watched, or the
\* promise ends.
LEMMA DesignerFixStep ==
  ASSUME IInv, FixInv, DesignerStep
  PROVE  FixInv'
<1>1. PICK f \in Files : (\E content \in {"partial", "raw"} : StartExport(f, content)) \/ FinishExport(f)
  BY DEF DesignerStep
<1>2. ASSUME NEW content \in {"partial", "raw"}, file' = [file EXCEPT ![f] = content]
      PROVE  file' \in [Files -> Contents] /\ ~ AllFixed'
  <2>1. content \in Contents /\ content # "none" /\ content \notin RightPictures
    BY WhichAreRight DEF Contents, Pictures
  <2>2. file' \in [Files -> Contents] /\ file'[f] = content
    BY <1>2, <2>1 DEF FixInv
  <2> QED  BY <2>1, <2>2, Zenon DEF AllFixed
<1>3. ASSUME NEW content \in {"partial", "raw"}, StartExport(f, content) PROVE FixInv'
  <2>1. /\ file' = [file EXCEPT ![f] = content] /\ notified' = fixer.watching
        /\ promised' = (promised /\ fixer.watching /\ settings.auto)
        /\ settings' = settings /\ app' = app /\ fixer' = fixer
        /\ delay' = delay /\ animation' = animation
    BY <1>3 DEF StartExport, timers
  <2>2. file' \in [Files -> Contents] /\ ~ AllFixed'
    BY <1>2, <2>1
  <2>3. app = "closed" => ~ fixer.watching
    BY DEF IInv, WatchesDirectory
  <2>4. PromiseKept'
    BY <2>1, <2>2, <2>3 DEF FixInv, PromiseKept, Pending
  <2> QED  BY <2>1, <2>2, <2>4 DEF FixInv
<1>4. CASE FinishExport(f)
  <2>1. /\ file[f] = "partial" /\ file' = [file EXCEPT ![f] = "raw"]
        /\ promised' => /\ promised
                        /\ delay > 0 \/ animation \/ notified
        /\ settings' = settings /\ app' = app /\ fixer' = fixer /\ notified' = notified
        /\ delay' = delay /\ animation' = animation
    BY <1>4 DEF FinishExport, timers
  <2>2. file' \in [Files -> Contents] /\ ~ AllFixed'
    BY <1>2, <2>1
  <2>3. ~ AllFixed
    BY <2>1, WhichAreRight DEF AllFixed
  <2>4. PromiseKept'
    BY <2>1, <2>2, <2>3 DEF FixInv, PromiseKept, Pending
  <2> QED  BY <2>1, <2>2, <2>4 DEF FixInv
<1> QED  BY <1>1, <1>3, <1>4

\* What a pass over the images does.
LEMMA AssetsFixed ==
  ASSUME FixInv, FixAssets
  PROVE  /\ file' \in [Files -> Contents]
         /\ AllFixed' => AllFixed \/ reload'
         /\ promised' => AllFixed'
         /\ unseen' /\ AllFixed' => reload' \/ unseen
         /\ reload => reload'
<1> DEFINE images == {f \in Files : file[f] \in Pictures}
           partial == {f \in Files : file[f] = "partial"}
<1>1. PICK done \in SUBSET images :
        /\ partial = {} => done = images
        /\ file' = [f \in Files |-> IF f \in done THEN Pass(file[f]) ELSE file[f]]
        /\ reload' = (reload \/ partial = {})
        /\ promised' = (partial = {})
        /\ unseen' = (unseen \/ done # {})
  BY Zenon DEF FixAssets
<1>2. \A c : Pass(c) \in RightPictures /\ Pass(c) \in Contents
  BY WhichAreRight DEF Pass, Contents, Pictures
<1>3. file' \in [Files -> Contents]
  BY <1>1, <1>2 DEF FixInv
<1>4. partial = {} => AllFixed' /\ reload'
  <2> SUFFICES ASSUME partial = {} PROVE AllFixed' /\ reload'
    OBVIOUS
  <2>1. ASSUME NEW f \in Files PROVE file'[f] = "none" \/ file'[f] \in RightPictures
    <3>1. CASE f \in images
      BY <1>1, <1>2, <3>1
    <3>2. CASE f \notin images
      <4>1. file[f] \in Contents /\ file[f] # "partial" /\ file[f] \notin Pictures
        BY <3>2 DEF FixInv
      <4>2. file[f] = "none"
        BY <4>1 DEF Contents
      <4> QED  BY <1>1, <3>2, <4>2
    <3> QED  BY <3>1, <3>2
  <2> QED  BY <1>1, <2>1 DEF AllFixed
<1>5. partial # {} => ~ AllFixed'
  <2> SUFFICES ASSUME NEW f \in partial PROVE ~ AllFixed'
    OBVIOUS
  <2>1. f \in Files /\ file[f] = "partial" /\ f \notin images
    BY DEF Pictures
  <2>2. file'[f] = "partial"
    BY <1>1, <2>1
  <2> QED  BY <2>1, <2>2, WhichAreRight DEF AllFixed
<1> QED  BY <1>1, <1>3, <1>4, <1>5

\* The watcher's and the timers' steps.
LEMMA LoopFixStep ==
  ASSUME IInv, FixInv, OnAssetsChanged \/ DelayEnds \/ AnimationEnds \/ ReloadAssets \/ Tick
  PROVE  FixInv'
<1>0. fixer.watching => fixer.shouldWatch /\ fixer.dir
  BY DEF IInv, WatchesDirectory
<1>1. CASE OnAssetsChanged
  <2>1. /\ file' = file /\ settings' = settings /\ app' = app /\ fixer' = fixer
        /\ animation' = animation /\ unseen' = unseen
        /\ notified /\ ~ notified'
    BY <1>1 DEF OnAssetsChanged, disk
  <2>2. (AllFixed' <=> AllFixed) /\ fixer.watching /\ app # "closed"
    BY <2>1 DEF AllFixed, FixInv, PromiseKept, Pending
  <2>3. CASE NotModified
    <3>1. /\ delay' = delay /\ reload' = reload
          /\ promised' => promised /\ (delay > 0 \/ animation \/ AllFixed)
      BY <1>1, <2>3 DEF OnAssetsChanged
    <3> QED  BY <2>1, <2>2, <3>1 DEF FixInv, PromiseKept, Pending
  <2>4. CASE ~ NotModified /\ ShouldFix
    <3>1. /\ delay' = DelayTicks + 1 /\ reload' = reload
          /\ promised' => fixer.shouldWatch /\ settings.auto
      BY <1>1, <2>4 DEF OnAssetsChanged, RestartedDelay
    <3>2. delay' \in Nat /\ delay' > 0
      BY <3>1 DEF DelayTicks
    <3> QED  BY <2>1, <2>2, <3>1, <3>2 DEF FixInv, PromiseKept, Pending
  <2>5. CASE ~ NotModified /\ ~ ShouldFix
    <3>1. delay' = delay /\ reload' /\ ~ promised'
      BY <1>1, <2>5 DEF OnAssetsChanged, ShouldFix
    <3> QED  BY <2>1, <2>2, <3>1 DEF FixInv, PromiseKept, Pending
  <2> QED  BY <2>3, <2>4, <2>5
<1>2. CASE DelayEnds
  <2>1. /\ file' = file /\ settings' = settings /\ app' = app /\ fixer' = fixer
        /\ promised' = promised /\ unseen' = unseen /\ reload' = reload /\ notified' = notified
        /\ delay = 1 /\ delay' = 0
        /\ IF fixer.dir /\ EffectiveShouldFix(fixer.shouldWatch, settings.auto)
             THEN FixEmUp(FALSE) ELSE UNCHANGED <<manual, animation>>
    BY <1>2 DEF DelayEnds, disk
  <2>2. AllFixed' <=> AllFixed
    BY <2>1 DEF AllFixed
  <2>3. Pending /\ app # "closed"
    BY <2>1 DEF FixInv, PromiseKept, Pending
  <2>4. fixer.watching /\ settings.auto => animation'
    BY <1>0, <2>1 DEF EffectiveShouldFix, FixEmUp
  <2> QED  BY <2>1, <2>2, <2>3, <2>4 DEF FixInv, PromiseKept, Pending
<1>3. CASE AnimationEnds
  <2>1. /\ settings' = settings /\ app' = app /\ fixer' = fixer /\ notified' = notified
        /\ delay' = delay /\ animation /\ app # "closed"
        /\ IF ShouldFix /\ fixer.dir
             THEN FixAssets ELSE UNCHANGED <<file, reload, promised, unseen>>
    BY <1>3 DEF AnimationEnds, FixInv, PromiseKept, Pending
  <2>2. CASE ShouldFix /\ fixer.dir
    <3>1. FixAssets
      BY <2>1, <2>2
    <3>2. /\ file' \in [Files -> Contents]
          /\ promised' => AllFixed'
          /\ unseen' /\ AllFixed' => reload'
      <4>1. /\ file' \in [Files -> Contents]
            /\ AllFixed' => AllFixed \/ reload'
            /\ promised' => AllFixed'
            /\ unseen' /\ AllFixed' => reload' \/ unseen
            /\ reload => reload'
        BY <3>1, AssetsFixed
      <4>2. app # "closed" /\ AllFixed /\ unseen => reload
        BY DEF FixInv, PromiseKept
      <4> QED  BY <2>1, <4>1, <4>2, Zenon
    <3> QED  BY <2>1, <3>2 DEF FixInv, PromiseKept
  <2>3. CASE ~ (ShouldFix /\ fixer.dir)
    <3>1. file' = file /\ reload' = reload /\ promised' = promised /\ unseen' = unseen
      BY <2>1, <2>3
    <3>2. AllFixed' <=> AllFixed
      BY <3>1 DEF AllFixed
    <3>3. ~ (fixer.watching /\ settings.auto)
      BY <1>0, <2>3 DEF ShouldFix
    <3> QED  BY <2>1, <3>1, <3>2, <3>3 DEF FixInv, PromiseKept
  <2> QED  BY <2>2, <2>3
<1>4. CASE ReloadAssets
  <2>1. /\ file' = file /\ settings' = settings /\ app' = app /\ fixer' = fixer
        /\ promised' = promised /\ ~ unseen' /\ notified' = notified
        /\ delay' = delay /\ animation' = animation
    BY <1>4 DEF ReloadAssets, disk
  <2>2. (AllFixed' <=> AllFixed) /\ (Pending' <=> Pending)
    BY <2>1 DEF AllFixed, Pending
  <2> QED  BY <2>1, <2>2 DEF FixInv, PromiseKept
<1>5. CASE Tick
  <2>1. /\ file' = file /\ settings' = settings /\ app' = app /\ fixer' = fixer
        /\ promised' = promised /\ unseen' = unseen /\ reload' = reload
        /\ notified' = notified /\ animation' = animation
        /\ delay' = IF delay > 1 THEN delay - 1 ELSE delay
    BY <1>5 DEF Tick
  <2>2. delay \in Nat /\ delay' \in Nat /\ (delay' > 0 <=> delay > 0)
    BY <2>1 DEF FixInv
  <2>3. (AllFixed' <=> AllFixed) /\ (Pending' <=> Pending)
    BY <2>1, <2>2 DEF AllFixed, Pending
  <2> QED  BY <2>1, <2>2, <2>3 DEF FixInv, PromiseKept
<1> QED  BY <1>1, <1>2, <1>3, <1>4, <1>5

\* Whatever the user and the designer do, and in whatever order timers, signals and changes
\* of the directory come: once nothing is pending, every change that was promised a fix has
\* been fixed and is on screen.
THEOREM NoticedAreFixed == Spec => []NoticedChangesFixed
<1>1. Init => IInv /\ FixInv
  <2>1. Init => IInv
    BY DEF Init, ClosedFixer, IInv, ControlTypes, Settings, Fixer, WatchesDirectory
  <2>2. Init => FixInv
    BY DEF Init, FixInv, PromiseKept, Pending, AllFixed, Contents
  <2> QED  BY <2>1, <2>2
<1>2. IInv /\ FixInv /\ [Next]_vars => (IInv /\ FixInv)'
  <2> SUFFICES ASSUME IInv, FixInv, [Next]_vars PROVE IInv' /\ FixInv'
    OBVIOUS
  <2>1. IInv'
    BY FixerStep
  <2>2. CASE UNCHANGED vars
    <3>1. /\ file' = file /\ settings' = settings /\ app' = app /\ fixer' = fixer
          /\ promised' = promised /\ unseen' = unseen /\ reload' = reload
          /\ notified' = notified /\ animation' = animation /\ delay' = delay
      BY <2>2 DEF vars, disk, timers
    <3>2. (AllFixed' <=> AllFixed) /\ (Pending' <=> Pending)
      BY <3>1 DEF AllFixed, Pending
    <3>3. FixInv'
      BY <3>1, <3>2 DEF FixInv, PromiseKept
    <3> QED  BY <2>1, <3>3
  <2>3. CASE InitialRender \/ ToggleUse
    <3>1. settings \in Settings
      BY DEF IInv, ControlTypes
    <3> QED  BY <2>1, <2>3, <3>1, SettingsStep
  <2>4. CASE \E new \in Settings : ApplySettings(new)
    BY <2>1, <2>4, SettingsStep
  <2>5. CASE Launch \/ Quit \/ ManualFix \/ ManualReload
    BY <2>1, <2>5, UserFixStep
  <2>6. CASE DesignerStep
    BY <2>1, <2>6, DesignerFixStep
  <2>7. CASE OnAssetsChanged \/ DelayEnds \/ AnimationEnds \/ ReloadAssets \/ Tick
    BY <2>1, <2>7, LoopFixStep
  <2> QED
    BY <2>2, <2>3, <2>4, <2>5, <2>6, <2>7 DEF Next, UserStep, EventLoopStep, Settings
<1>3. FixInv => NoticedChangesFixed
  BY DEF FixInv, PromiseKept, NoticedChangesFixed
<1> QED  BY <1>1, <1>2, <1>3, PTL DEF Spec

=============================================================================
