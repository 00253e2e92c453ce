----------------------------- MODULE MCAssetFixer -----------------------------
(***************************************************************************)
(* The instance of AssetFixer that is model-checked: drawings with lines   *)
(* along all four edges, at several scales and margins, and drawings       *)
(* without a line at the bottom or at the right, as far as those are       *)
(* Croppable.                                                              *)
(***************************************************************************)
EXTENDS AssetFixer

Drawing(thickness, margin, line, bottom, right) ==
  [size |-> 4, thickness |-> thickness, margin |-> margin,
   top |-> line, left |-> line, bottom |-> bottom, right |-> right]

Lines == {{1}, {0, 1, 2, 3}, {2, 3}}

FramedShapes ==
  {Drawing(t, m, l, b, r) : t \in 1 .. 4, m \in 0 .. 2, l \in Lines, b \in Lines, r \in Lines}
OpenShapes ==
  {Drawing(t, 0, l, b, r) : t \in 1 .. 2, l \in Lines, b \in Lines \cup {{}}, r \in Lines \cup {{}}}
  \cup {Drawing(1, 1, l, b, r) : l \in Lines, b \in Lines \cup {{}}, r \in Lines \cup {{}}}

MCShapes == FramedShapes \cup OpenShapes

=============================================================================
