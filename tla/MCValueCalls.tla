---------------------------- MODULE MCValueCalls ----------------------------
(* The value-level calls checked side by side, each call one step: the    *)
(* tick conversions with the semaphore wrapper (TimeConv at 16 Hz), the   *)
(* thread attributes with pthread_setschedparam (PthreadAttr), and the    *)
(* POSIX timers with times inside the tick range (PosixTimer).  The       *)
(* three share no state, so interleaving them would only multiply their  *)
(* states: a behaviour calls one of them, chosen by `side` at the start, *)
(* and every state of each is reached.                                   *)
EXTENDS MCTimeConv

CONSTANTS JOINABLE, DETACHED, PRIO_MAX, LOWEST, STACK_MIN,
          DetachArgs, PrioArgs, StackArgs, Callers, c1, c2,
          Timers, Sigevs, Outcomes, ItValues, ItIntervals, Flags, MaxTicks, tm1

VARIABLES attr, stored, created, tattr, tpri, spc, sprio, side,
          now, alloc, sigev, period, active, expire, ret, got, fault,
          since, want, ivl, note

PA == INSTANCE PthreadAttr

PT == INSTANCE PosixTimer

attrVars == <<attr, stored, created, tattr, tpri, spc, sprio>>
timerVars == <<now, alloc, sigev, period, active, expire, ret, got, fault,
               since, want, ivl, note>>

TwoCallers == {c1, c2}
\* Below the range, two that OR to a third, its top, and one past it.
MCPrioArgs == {-1, 5, 10, 32767, 32768}

OneTimer == {tm1}
\* Zero, a nanosecond (one tick), 100 ns (two ticks; 1 truncated), one
\* second (17 ticks: 16 of 62 ns fall short) and a malformed tv_nsec.
TimerValues == {Timespec(0, 0), Timespec(0, 1), Timespec(0, 100),
                Timespec(1, 0), Timespec(0, 1000)}
TimerIntervals == {Timespec(0, 0), Timespec(0, 1), Timespec(0, 100)}

ValueInit == Init /\ PA!Init /\ PT!Init /\ side \in {"time", "attr", "timer"}
ValueNext ==
  \/ side = "time" /\ Next /\ UNCHANGED <<attrVars, timerVars, side>>
  \/ side = "attr" /\ PA!Next /\ UNCHANGED <<last, timerVars, side>>
  \/ side = "timer" /\ PT!Next /\ UNCHANGED <<last, attrVars, side>>
ValueSpec == ValueInit /\ [][ValueNext]_<<last, attrVars, timerVars, side>>

(* PthreadAttr's type invariant.                                          *)
AttrTypeOK == PA!TypeOK

(* The detach-state and priority getters return what pthread_attr_init  *)
(* and the setters stored (PthreadAttr!StatusRoundTrip, posix_pthread.c   *)
(* lines 63-192).                                                         *)
StatusRoundTrip == PA!StatusRoundTrip

(* No timer notification comes before the time asked for it, for times  *)
(* inside the tick range, the first expiry and the re-armed ones         *)
(* (PosixTimer!NoEarlyExpiry, posix_timer.c lines 71-104 and 153-233).   *)
NoEarlyExpiry == PT!NoEarlyExpiry
=============================================================================
