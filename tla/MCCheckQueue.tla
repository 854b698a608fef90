---------------------------- MODULE MCCheckQueue ----------------------------
(* Two workers, and a thread that connects one block after another.        *)
EXTENDS CheckQueue

CONSTANTS m1, w1, w2
=============================================================================
