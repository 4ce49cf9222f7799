------------------------------ MODULE MCTimers ------------------------------
(* Three blocks of memory: a timer in front of, at and behind the one that  *)
(* runs, and a block that is free for a handler's own timer.                *)
EXTENDS Timers
=============================================================================
