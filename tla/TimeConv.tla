------------------------------ MODULE TimeConv ------------------------------
(***************************************************************************)
(* The timespec / tick conversions of src/src/utils.c and clock_gettime   *)
(* of src/src/posix_clock.c, as operators, and a caller that converts one *)
(* deadline at a time so that TLC checks them over every input of a small *)
(* set.                                                                    *)
(*                                                                         *)
(* NS_PER_SEC stands for NANOSECONDS_PER_SECOND (1e9 in the code) and is   *)
(* scaled down so that products stay inside TLC's integers; what the       *)
(* properties depend on is kept: NANOSECONDS_PER_TICK is the truncated     *)
(* quotient NS_PER_SEC / TMR_HZ, and `unsigned` has UINT_BITS bits.        *)
(* C's `/` and `%` truncate toward zero, which CDiv and CMod model.        *)
(***************************************************************************)
EXTENDS Integers

CONSTANTS
  NS_PER_SEC,   \* NANOSECONDS_PER_SECOND
  TMR_HZ,       \* tmr_hz, kernel ticks per second
  UINT_BITS,    \* width of `unsigned`, the tick type
  Secs,         \* tv_sec values callers pass
  Nsecs,        \* tv_nsec values callers pass
  Nows          \* values of the kernel tick counter tmr_ticks

ASSUME TMR_HZ \in 1..NS_PER_SEC /\ UINT_BITS \in 1..30 /\ Nows \subseteq Nat

NS_PER_TICK == NS_PER_SEC \div TMR_HZ     \* NANOSECONDS_PER_TICK
UINT_MAX    == 2^UINT_BITS - 1

CDiv(a, b) == IF a >= 0 THEN a \div b ELSE -((-a) \div b)
CMod(a, b) == a - b * CDiv(a, b)

Timespec(s, n) == [sec |-> s, nsec |-> n]
Timespecs == {Timespec(s, n) : s \in Secs, n \in Nsecs}

-----------------------------------------------------------------------------
(* validate_timespec: 0 <= tv_nsec < NANOSECONDS_PER_SECOND.            *)
ValidateTimespec(ts) == ts.nsec >= 0 /\ ts.nsec < NS_PER_SEC

(* timespec_cmp: -1, 0 or 1 by seconds, then nanoseconds.               *)
TimespecCmp(x, y) ==
  CASE x.sec > y.sec   -> 1
    [] x.sec < y.sec   -> -1
    [] x.nsec > y.nsec -> 1
    [] x.nsec < y.nsec -> -1
    [] OTHER           -> 0

(* timespec_sub: ret 1 when x < y, -1 when the borrow leaves a negative  *)
(* tv_nsec, else 0 with the difference in res.                          *)
TimespecSub(x, y) ==
  LET cmp  == TimespecCmp(x, y)
      s0   == x.sec - y.sec
      n0   == x.nsec - y.nsec
      diff == IF n0 < 0 THEN Timespec(s0 - 1, n0 + NS_PER_SEC)
                        ELSE Timespec(s0, n0)
  IN CASE cmp = -1 -> [ret |-> 1, res |-> Timespec(0, 0)]
       [] cmp = 0  -> [ret |-> 0, res |-> Timespec(0, 0)]
       [] OTHER    -> [ret |-> IF diff.nsec < 0 THEN -1 ELSE 0, res |-> diff]

(* Mutant of Timespec2Ticks: nanoseconds truncated, not rounded up.     *)
Timespec2TicksFloor(ts) ==
  IF ~ValidateTimespec(ts)
  THEN [ret |-> "EINVAL", ticks |-> 0, written |-> FALSE]
  ELSE LET total == TMR_HZ * ts.sec + ts.nsec \div NS_PER_TICK
       IN [ret     |-> IF total < 0 \/ total > UINT_MAX THEN "EINVAL" ELSE "OK",
           ticks   |-> total % (UINT_MAX + 1),
           written |-> TRUE]

(* timespec2ticks: seconds times tmr_hz plus nanoseconds rounded up to  *)
(* whole ticks; EINVAL for an invalid timespec or a total that is       *)
(* negative or does not fit `unsigned`.  *result is written with the    *)
(* truncated total whenever the timespec was valid (line 127).          *)
Timespec2Ticks(ts) ==
  IF ~ValidateTimespec(ts)
  THEN [ret |-> "EINVAL", ticks |-> 0, written |-> FALSE]
  ELSE LET nanos == ts.nsec \div NS_PER_TICK
                    + (IF ts.nsec % NS_PER_TICK # 0 THEN 1 ELSE 0)
           total == TMR_HZ * ts.sec + nanos
       IN [ret     |-> IF total < 0 \/ total > UINT_MAX THEN "EINVAL" ELSE "OK",
           ticks   |-> total % (UINT_MAX + 1),
           written |-> TRUE]

(* abs_timespec2ticks: ETIMEDOUT for a deadline before now, EINVAL when  *)
(* the subtraction fails, else the difference in ticks.                 *)
AbsTimespec2Ticks(abs, cur) ==
  LET sub == TimespecSub(abs, cur)
  IN CASE sub.ret = 1  -> [ret |-> "ETIMEDOUT", ticks |-> 0, written |-> FALSE]
       [] sub.ret = -1 -> [ret |-> "EINVAL", ticks |-> 0, written |-> FALSE]
       [] OTHER        -> Timespec2Ticks(sub.res)

(* nano2timespec: split a nanosecond count, borrowing a second when the  *)
(* remainder is negative.                                               *)
Nano2Timespec(ns) ==
  LET s0 == CDiv(ns, NS_PER_SEC)
      n0 == CMod(ns, NS_PER_SEC)
      carry == CDiv(n0, NS_PER_SEC) + 1
  IN IF n0 < 0 THEN Timespec(s0 - carry, n0 + carry * NS_PER_SEC)
               ELSE Timespec(s0, n0)

(* clock_gettime: the tick counter times NANOSECONDS_PER_TICK.          *)
ClockGettime(now) == Nano2Timespec(now * NS_PER_TICK)

(* nanosleep (posix_clock.c, lines 131-148): EINVAL for an invalid      *)
(* timespec; otherwise task_sleep only if timespec2ticks succeeded, and *)
(* 0 returned either way.  `written` records that task_sleep ran with   *)
(* `ticks`.                                                             *)
Nanosleep(ts) ==
  IF ~ValidateTimespec(ts)
  THEN [ret |-> "EINVAL", ticks |-> 0, written |-> FALSE]
  ELSE LET c == Timespec2Ticks(ts)
       IN [ret |-> "OK", ticks |-> c.ticks, written |-> c.ret = "OK"]

(* clock_nanosleep (lines 88-121).  With TIMER_ABSTIME the code sets     *)
(* EINVAL when clock_gettime *succeeds* (line 107), which it always does *)
(* with a non-null argument, so the absolute branch never sleeps; the   *)
(* relative branch is nanosleep's.                                      *)
ClockNanosleep(absFlag, ts) ==
  CASE ~ValidateTimespec(ts) -> [ret |-> "EINVAL", ticks |-> 0, written |-> FALSE]
    [] absFlag               -> [ret |-> "EINVAL", ticks |-> 0, written |-> FALSE]
    [] OTHER                 -> Nanosleep(ts)

(* The kernel's WAIT, a sleep without limit; outside the tick range.   *)
WAIT == -1

SemOps == {"sem_wait", "sem_timedwait", "sem_trywait"}

(* Mutant of SemSleep: a past deadline not turned into a zero wait.     *)
SemSleepNoPast(hasAbs, ts, now) ==
  IF ~hasAbs THEN [ret |-> "OK", sleep |-> WAIT]
  ELSE IF ~ValidateTimespec(ts) THEN [ret |-> "EINVAL", sleep |-> 0]
  ELSE LET c == AbsTimespec2Ticks(ts, ClockGettime(now))
       IN [ret |-> c.ret, sleep |-> IF c.written THEN c.ticks ELSE WAIT]

(* What sem_timedwait keeps in `ret` and hands to sem_get as `sleep`    *)
(* (posix_semaphore.c, lines 46-68): WAIT without abstime; 0 and EINVAL *)
(* for a malformed one; otherwise abs_timespec2ticks against            *)
(* clock_gettime, which writes `sleep` only when its timespec2ticks     *)
(* runs, and a past deadline (ETIMEDOUT) waits 0 ticks.                 *)
SemSleep(hasAbs, ts, now) ==
  IF ~hasAbs THEN [ret |-> "OK", sleep |-> WAIT]
  ELSE IF ~ValidateTimespec(ts) THEN [ret |-> "EINVAL", sleep |-> 0]
  ELSE LET c == AbsTimespec2Ticks(ts, ClockGettime(now))
       IN [ret |-> c.ret,
           sleep |-> IF c.ret = "ETIMEDOUT" THEN 0
                     ELSE IF c.written THEN c.ticks ELSE WAIT]

(* Whether the kernel's sem_get(sem, sleep) can return 0: always when a *)
(* unit is there (avail); never with 0 ticks; after blocking with WAIT; *)
(* either way with a finite count, as a unit may come before it ends.  *)
SemGetResults(sleep, avail) ==
  CASE avail        -> {TRUE}
    [] sleep = 0    -> {FALSE}
    [] sleep = WAIT -> {TRUE}
    [] OTHER        -> BOOLEAN

(* sem_timedwait (lines 44-81) when sem_get returned 0 (took) or not:   *)
(* 0, or -1 with errno ETIMEDOUT if the conversion succeeded and its    *)
(* error otherwise.  sem_wait is sem_timedwait without abstime.         *)
SemTimedwait(hasAbs, ts, now, avail, took) ==
  LET s == SemSleep(hasAbs, ts, now)
  IN [ret   |-> IF took THEN 0 ELSE -1,
      errno |-> IF took THEN "none" ELSE IF s.ret = "OK" THEN "ETIMEDOUT" ELSE s.ret,
      sleep |-> s.sleep,
      avail |-> avail]

(* sem_trywait (lines 83-92): sem_timedwait with the deadline {0, 0},   *)
(* ETIMEDOUT reported as EAGAIN.                                        *)
SemTrywait(now, avail, took) ==
  LET r == SemTimedwait(TRUE, Timespec(0, 0), now, avail, took)
  IN IF r.ret = -1 /\ r.errno = "ETIMEDOUT" THEN [r EXCEPT !.errno = "EAGAIN"] ELSE r

-----------------------------------------------------------------------------
(* A caller converting one deadline: the timed waits of the mutex, the  *)
(* condition variable, the semaphore and the message queue call         *)
(* abs_timespec2ticks against clock_gettime; nanosleep and the timers   *)
(* call timespec2ticks on a relative time.                              *)
VARIABLE last

NoCall == [op |-> "none", ts |-> Timespec(0, 0), now |-> 0,
           out |-> [ret |-> "OK", ticks |-> 0, written |-> FALSE]]

AbsCall(ts, now) ==
  last' = [op |-> "abs", ts |-> ts, now |-> now,
           out |-> AbsTimespec2Ticks(ts, ClockGettime(now))]

RelCall(ts) ==
  last' = [op |-> "rel", ts |-> ts, now |-> 0, out |-> Timespec2Ticks(ts)]

(* nanosleep, or clock_nanosleep with or without TIMER_ABSTIME.         *)
SleepCall(ts) ==
  last' = [op |-> "nanosleep", ts |-> ts, now |-> 0, out |-> Nanosleep(ts)]

ClockSleepCall(absFlag, ts, now) ==
  last' = [op |-> IF absFlag THEN "cn_abs" ELSE "cn_rel", ts |-> ts,
           now |-> IF absFlag THEN now ELSE 0, out |-> ClockNanosleep(absFlag, ts)]

(* sem_wait, sem_timedwait or sem_trywait on a semaphore with a unit   *)
(* available or not, with each result the kernel's sem_get can give.  *)
SemCall(op, ts, now, avail) ==
  \/ /\ op = "sem_wait"
     /\ \E took \in SemGetResults(WAIT, avail) :
          last' = [op |-> op, ts |-> Timespec(0, 0), now |-> 0,
                   out |-> SemTimedwait(FALSE, ts, now, avail, took)]
  \/ /\ op = "sem_timedwait"
     /\ \E took \in SemGetResults(SemSleep(TRUE, ts, now).sleep, avail) :
          last' = [op |-> op, ts |-> ts, now |-> now,
                   out |-> SemTimedwait(TRUE, ts, now, avail, took)]
  \/ /\ op = "sem_trywait"
     /\ \E took \in SemGetResults(SemSleep(TRUE, Timespec(0, 0), now).sleep, avail) :
          last' = [op |-> op, ts |-> Timespec(0, 0), now |-> now,
                   out |-> SemTrywait(now, avail, took)]

Init == last = NoCall

Next ==
  \/ \E ts \in Timespecs, now \in Nows : AbsCall(ts, now)
  \/ \E ts \in Timespecs : RelCall(ts)
  \/ \E ts \in Timespecs : SleepCall(ts)
  \/ \E absFlag \in BOOLEAN, ts \in Timespecs, now \in Nows :
       ClockSleepCall(absFlag, ts, now)
  \/ \E op \in SemOps, ts \in Timespecs, now \in Nows, avail \in BOOLEAN :
       SemCall(op, ts, now, avail)

Spec == Init /\ [][Next]_last

-----------------------------------------------------------------------------
NsOf(ts) == ts.sec * NS_PER_SEC + ts.nsec

TypeOK ==
  /\ last.op \in {"none", "abs", "rel", "nanosleep", "cn_abs", "cn_rel"} \cup SemOps
  /\ last.ts \in Timespecs \cup {Timespec(0, 0)}
  /\ last.now \in Nows \cup {0}
  /\ IF last.op \in SemOps
     THEN last.out \in [ret: {0, -1}, errno: {"none", "EINVAL", "ETIMEDOUT", "EAGAIN"},
                        sleep: {WAIT} \cup 0..UINT_MAX, avail: BOOLEAN]
     ELSE last.out \in [ret: {"OK", "EINVAL", "ETIMEDOUT"}, ticks: 0..UINT_MAX,
                        written: BOOLEAN]

(* The requested wait in nanoseconds: the deadline minus clock_gettime  *)
(* for an absolute call, the timespec itself for a relative one.        *)
Requested == IF last.op \in {"abs", "sem_timedwait"}
             THEN NsOf(last.ts) - NsOf(ClockGettime(last.now))
             ELSE NsOf(last.ts)

(* Rounding policy (spec.md 4.1): a successful conversion, a sleep that *)
(* calls task_sleep, and a sem_timedwait that reports ETIMEDOUT never   *)
(* wait less than asked.  A tick lasts NS_PER_SEC / TMR_HZ nanoseconds  *)
(* exactly, so `ticks` ticks cover the request when                     *)
(* ticks * NS_PER_SEC >= requested * TMR_HZ (timespec2ticks, lines      *)
(* 101-128, through abs_timespec2ticks, lines 57-85, and the `sleep`    *)
(* sem_timedwait hands to sem_get, posix_semaphore.c lines 60-69).      *)
NeverUnderWait ==
  /\ (\/ last.op \in {"abs", "rel"} /\ last.out.ret = "OK"
      \/ last.op \in {"nanosleep", "cn_rel"} /\ last.out.written)
       => last.out.ticks * NS_PER_SEC >= Requested * TMR_HZ
  /\ (last.op = "sem_timedwait" /\ last.out.errno = "ETIMEDOUT")
       => last.out.sleep * NS_PER_SEC >= Requested * TMR_HZ

(* POSIX sem_trywait: it never blocks, returns 0 exactly when a unit is *)
(* available, and fails with EAGAIN otherwise.  The code gets this by   *)
(* passing the absolute deadline {0, 0} to sem_timedwait, whose         *)
(* conversion against clock_gettime must end in a zero-tick sem_get    *)
(* whatever the clock reads (posix_semaphore.c lines 60-66 and 83-92).  *)
TrywaitNeverBlocks ==
  last.op = "sem_trywait" =>
    /\ last.out.sleep = 0
    /\ (last.out.ret = 0) = last.out.avail
    /\ last.out.ret = -1 => last.out.errno = "EAGAIN"
=============================================================================
