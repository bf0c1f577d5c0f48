----------------------------- MODULE PosixTimer -----------------------------
(***************************************************************************)
(* The POSIX timers of libposix (src/src/posix_timer.c) over the kernel's *)
(* software timer tmr_t and tick counter tmr_ticks.                       *)
(*                                                                         *)
(* A timer object is a model value handed out by the allocator.  The     *)
(* kernel timer is `active` with an `expire` tick; tmr_on(t, n) arms it   *)
(* for tmr_ticks + n, tmr_of disarms it, and at each tick the kernel runs *)
(* timer_do for every armed timer whose expiry has come (Tick).  The      *)
(* conversions are TimeConv's, through the instance TC.                   *)
(*                                                                         *)
(* Each call is one step.  Timer callbacks run in the tick's context, so *)
(* a task's call cannot interrupt them; a tick can come in the middle of  *)
(* timer_settime, but only before tmr_of (it fires the old setting) or    *)
(* between the clock_gettime of line 196 and the tmr_on of line 229,      *)
(* where it only makes the expiry later than the step computes.           *)
(*                                                                         *)
(* History: `since` and `want` record, per timer, the tick from which the *)
(* next expiry is due and the wait in nanoseconds POSIX asks for it;      *)
(* `note` holds the notifications timer_do delivered in the last step.    *)
(***************************************************************************)
EXTENDS Integers

CONSTANTS
  NS_PER_SEC, TMR_HZ, UINT_BITS,   \* as in TimeConv
  Timers,       \* timer objects the allocator can hand out
  Sigevs,       \* the evp of timer_create: NULL, or its sigev_notify
  Outcomes,     \* what the allocation of timer_create does
  ItValues,     \* it_value timespecs given to timer_settime
  ItIntervals,  \* it_interval timespecs given to timer_settime
  Flags,        \* relative, or TIMER_ABSTIME
  MaxTicks      \* bound on tmr_ticks

ASSUME Sigevs \subseteq {"null", "signal", "none", "thread", "thread_attr"}
ASSUME Outcomes \subseteq {"ok", "no_allocator", "null"}
ASSUME Flags \subseteq {"rel", "abs"}
ASSUME MaxTicks \in Nat

TC == INSTANCE TimeConv WITH Secs <- {}, Nsecs <- {}, Nows <- {}, last <- 0

VARIABLES
  now,     \* tmr_ticks
  alloc,   \* timer objects allocated and not freed
  sigev,   \* timer_internal_t.event: sigev_notify, and whether attributes are given
  period,  \* timer_internal_t.period, in ticks
  active,  \* tmr_active(&timer->ost)
  expire,  \* timer->ost.expire
  ret,     \* what the last call returned
  got,     \* what the last timer_gettime (or the ovalue of timer_settime) reported
  fault,   \* memset ran on a NULL timer (line 123)
  since,   \* history: tick of the arming or of the last expiry
  want,    \* history: nanoseconds asked before the next expiry
  ivl,     \* history: it_interval in nanoseconds
  note     \* history: notifications delivered by the last step

vars == <<now, alloc, sigev, period, active, expire, ret, got, fault,
          since, want, ivl, note>>

Ts(s, n) == TC!Timespec(s, n)
IsZero(ts) == ts.sec = 0 /\ ts.nsec = 0

-----------------------------------------------------------------------------
(* timer_do (lines 71-104) for the timers E at tick t, with periods per: *)
(* a timer with a period is armed again for period ticks; a SIGEV_THREAD *)
(* timer calls its function directly, or through pthread_create when it  *)
(* has attributes, whose failure is ignored (line 94) and loses the      *)
(* notification.  Each notification comes t - from[tm] ticks after the   *)
(* arming that asked[tm] nanoseconds were asked for; the next is asked   *)
(* for the interval iv[tm].                                              *)
TimerDo(E, t, per, iv, from, asked) ==
  /\ active' = [tm \in Timers |-> IF tm \in E THEN per[tm] > 0 ELSE active[tm]]
  /\ expire' = [tm \in Timers |-> IF tm \in E /\ per[tm] > 0
                                  THEN t + per[tm] ELSE expire[tm]]
  /\ since' = [tm \in Timers |-> IF tm \in E THEN t ELSE since[tm]]
  /\ want' = [tm \in Timers |-> IF tm \in E THEN iv[tm] ELSE want[tm]]
  /\ \E lost \in SUBSET {tm \in E : sigev[tm] = "thread_attr"} :
       note' = {[timer |-> tm, ticks |-> t - from[tm], asked |-> asked[tm]] :
                  tm \in {u \in E : sigev[u] \in {"thread", "thread_attr"}} \ lost}

(* timer_create (lines 106-137).  NULL evp and SIGEV_SIGNAL are ENOTSUP, *)
(* a missing allocator EAGAIN (the later errno wins).  The allocation   *)
(* is cleared by memset before it is checked, so a NULL allocation,     *)
(* including an exhausted allocator, faults.                           *)
TimerCreate(ev, out) ==
  /\ ~fault
  /\ LET refused == ev \in {"null", "signal"} \/ out = "no_allocator"
     IN \/ /\ refused
           /\ ret' = IF out = "no_allocator" THEN "EAGAIN" ELSE "ENOTSUP"
           /\ UNCHANGED <<alloc, sigev, period, active, fault>>
        \/ /\ ~refused
           /\ out = "null" \/ alloc = Timers
           /\ fault' = TRUE
           /\ UNCHANGED <<alloc, sigev, period, active, ret>>
        \/ /\ ~refused
           /\ out = "ok"
           /\ \E tm \in Timers \ alloc :
                /\ alloc' = alloc \cup {tm}
                /\ sigev' = [sigev EXCEPT ![tm] = ev]
                /\ period' = [period EXCEPT ![tm] = 0]
                /\ active' = [active EXCEPT ![tm] = FALSE]
           /\ ret' = "OK"
           /\ UNCHANGED fault
  /\ note' = {}
  /\ UNCHANGED <<now, expire, got, since, want, ivl>>

(* timer_delete (lines 139-146): disarm, then free.                      *)
TimerDelete(tm) ==
  /\ ~fault
  /\ tm \in alloc
  /\ alloc' = alloc \ {tm}
  /\ active' = [active EXCEPT ![tm] = FALSE]
  /\ ret' = "OK"
  /\ note' = {}
  /\ UNCHANGED <<now, sigev, period, expire, got, fault, since, want, ivl>>

(* Ticks as timer_gettime reports them: whole seconds and the remaining *)
(* ticks times NANOSECONDS_PER_TICK.                                     *)
TicksToTs(k) == Ts(k \div TMR_HZ, (k % TMR_HZ) * TC!NS_PER_TICK)

(* timer_gettime (lines 235-256): the unsigned ticks left when armed.    *)
TimerGettime(tm) ==
  [value    |-> IF active[tm]
                THEN TicksToTs((expire[tm] - now) % 2^UINT_BITS)
                ELSE Ts(0, 0),
   interval |-> TicksToTs(period[tm])]

Gettime(tm) ==
  /\ ~fault
  /\ tm \in alloc
  /\ got' = TimerGettime(tm)
  /\ ret' = "OK"
  /\ note' = {}
  /\ UNCHANGED <<now, alloc, sigev, period, active, expire, fault,
                 since, want, ivl>>

(* Mutant of PeriodTicks: it_interval truncated to whole ticks.        *)
PeriodTicksFloor(i) == IF IsZero(i) THEN 0 ELSE TC!Timespec2TicksFloor(i).ticks

(* The period timer_settime stores (lines 181-186): it_interval in       *)
(* ticks, the result of timespec2ticks ignored.                          *)
PeriodTicks(i) == IF IsZero(i) THEN 0 ELSE TC!Timespec2Ticks(i).ticks

(* next_expire and ret for a non-zero it_value (lines 190-220).  An      *)
(* absolute time is converted against clock_gettime: a past one gives    *)
(* ETIMEDOUT, turned into 0 and an immediate expiry; any other error    *)
(* also zeroes next_expire but is returned.  A relative time is          *)
(* converted with its result ignored.                                    *)
NextExpire(flag, v) ==
  IF flag = "abs"
  THEN LET c == TC!AbsTimespec2Ticks(v, TC!ClockGettime(now))
       IN IF c.ret = "OK" THEN [ret |-> "OK", ticks |-> c.ticks]
          ELSE [ret |-> IF c.ret = "ETIMEDOUT" THEN "OK" ELSE c.ret, ticks |-> 0]
  ELSE [ret |-> "OK", ticks |-> TC!Timespec2Ticks(v).ticks]

(* The wait POSIX asks for before the first expiry, in nanoseconds.      *)
AskedNs(flag, v) ==
  IF flag = "abs" THEN TC!NsOf(v) - TC!NsOf(TC!ClockGettime(now))
                  ELSE TC!NsOf(v)

(* timer_settime (lines 153-233), with ovalue: a non-zero it_value is   *)
(* validated with the interval; then the old setting is read, the       *)
(* kernel timer disarmed, the period stored, and the timer either armed *)
(* or, when next_expire is 0, expired at once by calling timer_do.      *)
TimerSettime(tm, flag, v, i) ==
  /\ ~fault
  /\ tm \in alloc
  /\ got' = TimerGettime(tm)
  /\ \/ /\ ~IsZero(v)
        /\ ~(TC!ValidateTimespec(i) /\ TC!ValidateTimespec(v))
        /\ ret' = "EINVAL"
        /\ note' = {}
        /\ UNCHANGED <<period, active, expire, since, want, ivl>>
     \/ /\ IsZero(v)
        /\ active' = [active EXCEPT ![tm] = FALSE]
        /\ ret' = "OK"
        /\ note' = {}
        /\ UNCHANGED <<period, expire, since, want, ivl>>
     \/ /\ ~IsZero(v)
        /\ TC!ValidateTimespec(i) /\ TC!ValidateTimespec(v)
        /\ LET e == NextExpire(flag, v)
           IN /\ ret' = e.ret
              /\ period' = [period EXCEPT ![tm] = PeriodTicks(i)]
              /\ ivl' = [ivl EXCEPT ![tm] = TC!NsOf(i)]
              /\ \/ /\ e.ticks = 0
                    /\ TimerDo({tm}, now, period', ivl', [since EXCEPT ![tm] = now],
                               [want EXCEPT ![tm] = AskedNs(flag, v)])
                 \/ /\ e.ticks # 0
                    /\ active' = [active EXCEPT ![tm] = TRUE]
                    /\ expire' = [expire EXCEPT ![tm] = now + e.ticks]
                    /\ since' = [since EXCEPT ![tm] = now]
                    /\ want' = [want EXCEPT ![tm] = AskedNs(flag, v)]
                    /\ note' = {}
  /\ UNCHANGED <<now, alloc, sigev, fault>>

(* A kernel tick: tmr_ticks advances and timer_do runs for every armed  *)
(* timer that expires now.                                              *)
Tick ==
  /\ ~fault
  /\ now < MaxTicks
  /\ now' = now + 1
  /\ TimerDo({tm \in Timers : active[tm] /\ expire[tm] = now + 1},
             now + 1, period, ivl, since, want)
  /\ UNCHANGED <<alloc, sigev, period, ret, got, fault, ivl>>

-----------------------------------------------------------------------------
Init ==
  /\ now = 0
  /\ alloc = {}
  /\ sigev = [tm \in Timers |-> "none"]
  /\ period = [tm \in Timers |-> 0]
  /\ active = [tm \in Timers |-> FALSE]
  /\ expire = [tm \in Timers |-> 0]
  /\ ret = "OK"
  /\ got = [value |-> Ts(0, 0), interval |-> Ts(0, 0)]
  /\ fault = FALSE
  /\ since = [tm \in Timers |-> 0]
  /\ want = [tm \in Timers |-> 0]
  /\ ivl = [tm \in Timers |-> 0]
  /\ note = {}

Next ==
  \/ \E ev \in Sigevs, out \in Outcomes : TimerCreate(ev, out)
  \/ \E tm \in Timers : TimerDelete(tm)
  \/ \E tm \in Timers : Gettime(tm)
  \/ \E tm \in Timers, flag \in Flags, v \in ItValues, i \in ItIntervals :
       TimerSettime(tm, flag, v, i)
  \/ Tick

Spec == Init /\ [][Next]_vars

-----------------------------------------------------------------------------
TypeOK ==
  /\ now \in 0..MaxTicks
  /\ alloc \subseteq Timers
  /\ sigev \in [Timers -> Sigevs \cup {"none"}]
  /\ period \in [Timers -> 0..TC!UINT_MAX]
  /\ active \in [Timers -> BOOLEAN]
  /\ ret \in {"OK", "EINVAL", "ENOTSUP", "EAGAIN"}
  /\ fault \in BOOLEAN
  /\ \A n \in note : n.timer \in Timers /\ n.ticks \in 0..MaxTicks

(* POSIX timer_settime and spec.md 4.1: a timer expires no earlier than  *)
(* it_value after it was armed, relative or absolute, and a periodic    *)
(* one no earlier than it_interval after its last expiry.  Every        *)
(* notification timer_do delivers, from the tick or from timer_settime  *)
(* itself (line 226), covers at least the time asked for it.            *)
NoEarlyExpiry == \A n \in note : n.ticks * NS_PER_SEC >= n.asked * TMR_HZ
=============================================================================
