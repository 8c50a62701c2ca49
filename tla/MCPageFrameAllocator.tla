------------------------ MODULE MCPageFrameAllocator ------------------------
(* Small instances of PageFrameAllocator.                                  *)
EXTENDS PageFrameAllocator

D(type, start, count) == [type |-> type, start |-> start, count |-> count]

(* Five frames: a map without gaps, one with a hole and firmware memory    *)
(* above the bitmap, and one whose low frame belongs to the firmware.      *)
MCMaps ==
  { <<D(7, 0, 1), D(4, 1, 1), D(7, 2, 1)>>,
    <<D(7, 0, 1), D(11, 3, 1)>>,
    <<D(0, 0, 1), D(7, 1, 2)>> }
=============================================================================
