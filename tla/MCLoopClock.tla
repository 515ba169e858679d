----------------------------- MODULE MCLoopClock -----------------------------
(* A clock that starts unset, right, late or early, for TLC.                  *)
EXTENDS LoopClock

ClockOffsets == {-17, 4}

=============================================================================
