---------------------------- MODULE MCPosixTimer ----------------------------
(* Model-checking instance of PosixTimer at tmr_hz = 16 with an 8-bit    *)
(* tick type: 255 ticks is 15.9 s, so tv_sec 16 is past what `unsigned`  *)
(* holds.  The it_value and it_interval inputs sit on the boundaries the *)
(* code tests: zero (disarm, one-shot), one nanosecond (rounded up to a  *)
(* tick), one second, a malformed tv_nsec, and an overflowing time.      *)
EXTENDS PosixTimer

CONSTANTS tm1, tm2

MCTimers == {tm1}

MCItValues == {Ts(0, 0), Ts(0, 1), Ts(1, 0), Ts(0, 1000), Ts(16, 0)}
MCItIntervals == {Ts(0, 0), Ts(0, 1), Ts(16, 0)}
=============================================================================
