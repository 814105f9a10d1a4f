---------------------------- MODULE MCTimerLoop ----------------------------
(* Small instances of TimerLoop for TLC. *)
EXTENDS TimerLoop

\* Delays in tenths of a millisecond: negative, below one,
\* fractional, past TIMEOUT_MAX.
MCDelays == {-20, 5, 18, 20, 31}
=============================================================================
