--------------------------------- MODULE MCRtc ---------------------------------
(* Three fields with the values 9 and 10, of which BCD makes 9 and 16; the *)
(* top bar shows the third and the second.                                 *)
EXTENDS Rtc

MCTopBar == <<3, 2>>
===============================================================================
