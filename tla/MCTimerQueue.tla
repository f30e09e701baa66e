---------------------------- MODULE MCTimerQueue ---------------------------
(***************************************************************************)
(* TLC instances of TimerQueue: one-shot timers and a repeated one, delays *)
(* in the past, at once, and one or two ticks ahead.                       *)
(***************************************************************************)
EXTENDS TimerQueue

CONSTANTS once1, once2, every

AllDelays == {-1, 0, 1, 2}
FutureDelays == {1, 2}
=============================================================================
