---------------------------- MODULE MCHardwareBench ----------------------------
(* Units of two: a duration of 0 is shown in the first, 3 in the second, 6 *)
(* in the third and 9 in the last.  The first is whole, as nanoseconds are; *)
(* no other duration is a whole number of the parts shown, so that each is *)
(* rounded, and 3 may be rounded up to the end of its unit.                *)
EXTENDS HardwareBench

MCDurationParts == <<1, 1, 3, 5>>
================================================================================
