-------------------------------- MODULE MCPaint --------------------------------
(* A point with all its neighbours, and the last one of the canvas, whose  *)
(* brush wraps round to the next row and leaves the canvas.                *)
EXTENDS Paint

MCColors == {"WHITE", "BLACK"}
MCTouched == {<<1, 1>>, <<3, 2>>}
===============================================================================
