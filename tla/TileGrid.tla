------------------------------ MODULE TileGrid ------------------------------
(***************************************************************************)
(* MandelbrotRenderer::tileBegin() and tileEnd(): how an image of totalSize *)
(* rows is cut into tileCount tiles. C++ int division and remainder of non- *)
(* negative operands are \div and %.                                        *)
(***************************************************************************)
EXTENDS Integers

TileSize(tileCount, totalSize) == totalSize \div (tileCount - 1)

\* wrong variant of TileBegin: tiles counted from 1
TileBeginOneBased(tile, tileCount, totalSize) == (tile - 1) * TileSize(tileCount, totalSize)

TileBegin(tile, tileCount, totalSize) == tile * TileSize(tileCount, totalSize)

\* the remainder by totalSize sends the end of the last tiles back to the top
TileEnd(tile, tileCount, totalSize) ==
  (tile * TileSize(tileCount, totalSize) + TileSize(tileCount, totalSize)) % totalSize

\* the rows y of the loop "for (int y = beginY; y < endY; ++y)" of renderTile
TileRows(tile, tileCount, totalSize) ==
  TileBegin(tile, tileCount, totalSize) .. TileEnd(tile, tileCount, totalSize) - 1

CoveredRows(tileCount, totalSize) ==
  UNION {TileRows(t, tileCount, totalSize) : t \in 0 .. tileCount - 1}

=============================================================================
