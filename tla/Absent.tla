------------------------------- MODULE Absent -------------------------------
(* What the code writes as None, for the modules that are used together.   *)
CONSTANT None
=============================================================================
