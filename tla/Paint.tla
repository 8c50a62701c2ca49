--------------------------------- MODULE Paint ---------------------------------
(***************************************************************************)
(* The painting application (app/paint.c).  In every frame the main loop   *)
(* paints nine pixels around the pointer, one after the other, while a     *)
(* mouse button is down; the keyboard interrupt changes the colour or      *)
(* clears the canvas between any two of them.                              *)
(*                                                                         *)
(* The canvas is one row of memory: pixel (x, y) is at x + y * Width.  The *)
(* memory before and behind it, as far as the brush reaches, is modelled.  *)
(***************************************************************************)
EXTENDS Integers, Sequences

CONSTANTS
  Width, Height,  (* PAINT_RECT_WIDTH, PAINT_RECT_HEIGHT                     *)
  Colors,         (* the colours the keys choose, WHITE and BLACK among them *)
  Other,          (* what the memory around the canvas holds                 *)
  Touched         (* the points the pointer comes to                         *)

ASSUME PaintAssumption ==
  /\ {Width, Height} \subseteq Nat \ {0}
  /\ {"WHITE", "BLACK"} \subseteq Colors /\ Other \notin Colors
  /\ Touched \subseteq (0 .. Width - 1) \X (0 .. Height - 1)

VARIABLES
  rect_pixels,    (* the canvas and the memory around it                     *)
  current_color,
  pixel,          (* the pixel of the brush painted next; 0 between strokes  *)
  at,             (* where the pointer is                                    *)
  erasing,        (* whether it is the right button                          *)
  held,           (* the colour in a register, if the compiler keeps it      *)
  used            (* history: the colours there were during the stroke       *)

paint_vars == <<rect_pixels, current_color, pixel, at, erasing, held, used>>

Points == (0 .. Width - 1) \X (0 .. Height - 1)
Canvas == 0 .. Width * Height - 1
Memory == -(Width + 1) .. Width * Height + Width

(* Mistaken form: rows are as long as the canvas is high.                  *)
CellByHeight(x, y) == x + y * Height
Cell(x, y) == x + y * Width

(* The order in which the brush paints.                                    *)
Brush == << <<0, 0>>, <<1, 0>>, <<1, 1>>, <<0, 1>>, <<-1, 1>>,
            <<-1, 0>>, <<-1, -1>>, <<0, -1>>, <<1, -1>> >>

Nearby(p) == {q \in Points : q[1] - p[1] \in -1 .. 1 /\ q[2] - p[2] \in -1 .. 1}

-----------------------------------------------------------------------------
(* paint_update reaches the pixel under the pointer; of two buttons the    *)
(* left one counts.                                                        *)
Touch == \E p \in Touched, right \in BOOLEAN :
  /\ pixel = 0 /\ pixel' = 1
  /\ at' = p /\ erasing' = right
  /\ held' = IF right THEN "WHITE" ELSE current_color
  /\ used' = {held'}
  /\ UNCHANGED <<rect_pixels, current_color>>

(* A pixel gets the colour of the register or of the variable; white when  *)
(* erasing.  Mistaken form: the right button paints too.                   *)
DabNeverErases == \E color \in {held, current_color} :
  /\ pixel # 0
  /\ rect_pixels' = [rect_pixels EXCEPT ![Cell(at[1] + Brush[pixel][1], at[2] + Brush[pixel][2])] =
                       color]
  /\ pixel' = IF pixel = Len(Brush) THEN 0 ELSE pixel + 1
  /\ UNCHANGED <<current_color, at, erasing, held, used>>

Dab == \E color \in {held, current_color} :
  /\ pixel # 0
  /\ rect_pixels' = [rect_pixels EXCEPT ![Cell(at[1] + Brush[pixel][1], at[2] + Brush[pixel][2])] =
                       IF erasing THEN "WHITE" ELSE color]
  /\ pixel' = IF pixel = Len(Brush) THEN 0 ELSE pixel + 1
  /\ UNCHANGED <<current_color, at, erasing, held, used>>

WhiteCanvas == [m \in Memory |-> IF m \in Canvas THEN "WHITE" ELSE rect_pixels[m]]

(* paint_init, also when the window is there already.                      *)
Reopen ==
  /\ pixel = 0
  /\ rect_pixels' = WhiteCanvas
  /\ UNCHANGED <<current_color, pixel, at, erasing, held, used>>

(* paint_keyboard_int                                                      *)
PickColor == \E color \in Colors :
  /\ current_color' = color
  /\ used' = IF pixel = 0 \/ erasing THEN used ELSE used \cup {color}
  /\ UNCHANGED <<rect_pixels, pixel, at, erasing, held>>

Delete ==
  /\ rect_pixels' = WhiteCanvas
  /\ used' = IF pixel = 0 THEN used ELSE used \cup {"WHITE"}
  /\ UNCHANGED <<current_color, pixel, at, erasing, held>>

-----------------------------------------------------------------------------
PaintInit ==
  /\ rect_pixels = [m \in Memory |-> IF m \in Canvas THEN "WHITE" ELSE Other]
  /\ current_color = "BLACK"
  /\ pixel = 0 /\ at = <<0, 0>> /\ erasing = FALSE /\ held = "BLACK" /\ used = {}

Key == PickColor \/ Delete

PaintNext == Touch \/ Dab \/ Reopen \/ Key
PaintSpec == PaintInit /\ [][PaintNext]_paint_vars

-----------------------------------------------------------------------------
(* Every variable has its type.                                            *)
PaintTypeOK ==
  /\ rect_pixels \in [Memory -> Colors \cup {Other}]
  /\ current_color \in Colors /\ held \in Colors /\ used \subseteq Colors
  /\ pixel \in 0 .. Len(Brush) /\ at \in Points /\ erasing \in BOOLEAN

(* The points that have eight neighbours.                                  *)
InnerPoints == (1 .. Width - 2) \X (1 .. Height - 2)

(* Away from the edges, a stroke changes pixels next to the pointer and    *)
(* nothing else, neither elsewhere on the canvas nor around it.            *)
BrushIsSquare ==
  [][Dab /\ at \in InnerPoints => \A m \in Memory : rect_pixels'[m] # rect_pixels[m] =>
       \E p \in Nearby(at) : m = p[1] + p[2] * Width]_paint_vars

(* Away from the edges, when a stroke is done all the pixels around the    *)
(* pointer have a colour there was meanwhile, or white when they were      *)
(* erased, whatever keys came in between.                                  *)
StrokeIsWhole ==
  [][pixel = Len(Brush) /\ pixel' = 0 /\ at \in InnerPoints =>
       \A p \in Nearby(at) : rect_pixels'[p[1] + p[2] * Width] \in used]_paint_vars
===============================================================================
