--------------------------- MODULE MCWindowManager ----------------------------
(* A packet that comes again and again. *)
EXTENDS WindowManager

CONSTANT p1
==============================================================================
