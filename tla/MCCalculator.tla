----------------------------- MODULE MCCalculator -----------------------------
(* Integers from -8 to 7: two digits overflow, and 30 reads as Unset.      *)
EXTENDS Calculator

MCFewDigits == {0, 3}
MCSmallUnset == -2
===============================================================================
