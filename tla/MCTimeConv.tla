---------------------------- MODULE MCTimeConv ----------------------------
(* Model-checking instance of TimeConv.  The inputs sit on the boundaries *)
(* the code tests: tv_nsec of -1, 0, 1, a tick minus and plus one, one    *)
(* second minus one and one second; tv_sec below zero, zero, and around   *)
(* the largest tick count `unsigned` holds (255 ticks with 8 bits).       *)
EXTENDS TimeConv

\* tmr_hz = 100, 10 "ns" a tick: 255 ticks is 2.55 s, tv_sec 3 overflows.
Hz100Secs  == {-1, 0, 1, 2, 3}
Hz100Nsecs == {-1, 0, 1, 9, 10, 11, 549, 550, 551, 999, 1000}
Hz100Nows  == {0, 1, 99, 100, 101}

\* tmr_hz = 16 does not divide 1000: NANOSECONDS_PER_TICK is 62, not 62.5.
\* 255 ticks is 15.9 s, tv_sec 16 overflows.
Hz16Secs  == {-1, 0, 1, 15, 16}
Hz16Nsecs == {-1, 0, 1, 61, 62, 63, 937, 938, 999, 1000}
Hz16Nows  == {0, 1, 15, 16, 17}
=============================================================================
