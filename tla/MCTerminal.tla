------------------------------ MODULE MCTerminal ------------------------------
(* One letter, which is a command: two of it are not, and neither is what  *)
(* a clearing leaves of a line.                                            *)
EXTENDS Terminal, TLC

MCLetter == {"l"}
MCCommand == <<"l">> :> "ls"
===============================================================================
