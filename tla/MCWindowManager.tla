---------------------------- MODULE MCWindowManager ----------------------------
(* A desktop with two icons and two commands; the calculator is behind an  *)
(* icon and a command, osaka has no icon and no keyboard handler.          *)
EXTENDS WindowManager

MCApps == {"calculator", "terminal", "osaka"}
MCIcons == <<"calculator", "terminal">>
MCKeyless == {"osaka"}
MCWidth == [calculator |-> 250, terminal |-> 500, osaka |-> 126]
MCHeights == [calculator |-> {350}, terminal |-> {400}, osaka |-> {179}]

Mouse(x, y, left, right) == [position |-> Box(x, y), left |-> left, right |-> right]

(* On the first icon; on the second, with either button; on the close      *)
(* button that osaka's window has at home, which is on the others' title   *)
(* bars.  A window dragged to an icon has the third point in its body.     *)
MCMouseStates ==
  { Mouse(20, 60, TRUE, FALSE), Mouse(65, 60, TRUE, FALSE), Mouse(260, 160, TRUE, FALSE),
    Mouse(65, 60, FALSE, TRUE), Mouse(260, 160, FALSE, FALSE) }

(* The commands that open a window.                                        *)
MCShell == {"calculator", "osaka"}
=============================================================================
