---------------------------- MODULE PthreadBarrier ----------------------------
(***************************************************************************)
(* The barrier of libposix (src/src/posix_pthread_barrier.c): a counter    *)
(* cur_thread guarded by a kernel lock, a threshold, and a kernel counting *)
(* semaphore every arriving thread waits on once.                          *)
(*                                                                         *)
(* The locked section of pthread_barrier_wait (lines 52-58) is one step.   *)
(* The test of cur_thread at line 59 is made after the lock is released    *)
(* and is a step of its own, together with the sem_post_n it guards (a     *)
(* post only adds units, so nothing another thread does between the two    *)
(* changes its effect).  The semaphore is a count as in PthreadCond.       *)
(*                                                                         *)
(* The barrier has no initialized flag; `binited` records that             *)
(* pthread_barrier_init succeeded, and callers only wait after that.       *)
(***************************************************************************)
EXTENDS Naturals, FiniteSets

CONSTANTS
  Threads,   \* the tasks that use the barrier
  Counts     \* the count arguments pthread_barrier_init is called with

ASSUME Counts \subseteq Nat

VARIABLES
  binited,    \* history: pthread_barrier_init has succeeded
  curThread,  \* pthread_barrier_t.cur_thread
  threshold,  \* pthread_barrier_t.threshold
  bsem,       \* units in pthread_barrier_t.sem
  pc,         \* "idle", "bw_test" (lock released) or "bw_sem" (in sem_get)
  cur,        \* local `cur` of pthread_barrier_wait: the thread's arrival
  wret,       \* what each thread's last pthread_barrier_wait returned
  posted,     \* history: units posted by sem_post_n so far
  passed,     \* history: threads that got through sem_get so far
  serials     \* history: PTHREAD_BARRIER_SERIAL_THREAD results so far

vars == <<binited, curThread, threshold, bsem, pc, cur, wret, posted,
          passed, serials>>

WaitResults == {"none", "OK", "SERIAL", "EINVAL"}

-----------------------------------------------------------------------------
(* pthread_barrier_init (lines 33-47): a count of 0 is EINVAL, otherwise *)
(* the semaphore, the lock, cur_thread and threshold are set.  Only done *)
(* while no thread is inside pthread_barrier_wait.                       *)
BarrierInit(count) ==
  /\ \A t \in Threads : pc[t] = "idle"
  /\ ~binited
  /\ count # 0
  /\ binited' = TRUE
  /\ curThread' = 0
  /\ threshold' = count
  /\ bsem' = 0
  /\ UNCHANGED <<pc, cur, wret, posted, passed, serials>>

(* pthread_barrier_wait, locked section (lines 51-58): EINVAL once       *)
(* cur_thread has reached the threshold, else count the arrival.          *)
BarrierArrive(t) ==
  /\ pc[t] = "idle"
  /\ binited
  /\ \/ /\ curThread >= threshold
        /\ wret' = [wret EXCEPT ![t] = "EINVAL"]
        /\ UNCHANGED <<curThread, pc, cur>>
     \/ /\ curThread < threshold
        /\ curThread' = curThread + 1
        /\ cur' = [cur EXCEPT ![t] = curThread + 1]
        /\ pc' = [pc EXCEPT ![t] = "bw_test"]
        /\ UNCHANGED wret
  /\ UNCHANGED <<binited, threshold, bsem, posted, passed, serials>>

(* Mutant of BarrierRelease: off by one in the threshold test.          *)
BarrierReleaseEarly(t) ==
  /\ pc[t] = "bw_test"
  /\ IF curThread >= threshold - 1
     THEN /\ bsem' = bsem + threshold
          /\ posted' = posted + threshold
     ELSE UNCHANGED <<bsem, posted>>
  /\ pc' = [pc EXCEPT ![t] = "bw_sem"]
  /\ UNCHANGED <<binited, curThread, threshold, cur, wret, passed, serials>>

(* Mutant of BarrierRelease: one unit short of the threshold posted.    *)
BarrierReleaseShort(t) ==
  /\ pc[t] = "bw_test"
  /\ IF curThread >= threshold
     THEN /\ bsem' = bsem + (threshold - 1)
          /\ posted' = posted + (threshold - 1)
     ELSE UNCHANGED <<bsem, posted>>
  /\ pc' = [pc EXCEPT ![t] = "bw_sem"]
  /\ UNCHANGED <<binited, curThread, threshold, cur, wret, passed, serials>>

(* Lines 59-60: with the lock released, a thread that sees cur_thread at *)
(* the threshold posts threshold units.                                  *)
BarrierRelease(t) ==
  /\ pc[t] = "bw_test"
  /\ IF curThread >= threshold
     THEN /\ bsem' = bsem + threshold
          /\ posted' = posted + threshold
     ELSE UNCHANGED <<bsem, posted>>
  /\ pc' = [pc EXCEPT ![t] = "bw_sem"]
  /\ UNCHANGED <<binited, curThread, threshold, cur, wret, passed, serials>>

(* Mutant of BarrierPass: sem_get's result ignored (no wait).           *)
BarrierPassNoWait(t) ==
  /\ pc[t] = "bw_sem"
  /\ bsem' = bsem - 1
  /\ pc' = [pc EXCEPT ![t] = "idle"]
  /\ wret' = [wret EXCEPT ![t] = IF cur[t] = 1 THEN "SERIAL" ELSE "OK"]
  /\ passed' = passed + 1
  /\ serials' = serials + (IF cur[t] = 1 THEN 1 ELSE 0)
  /\ UNCHANGED <<binited, curThread, threshold, cur, posted>>

(* Mutant of BarrierPass: the serial test reads the shared cur_thread   *)
(* instead of the local `cur`.                                          *)
BarrierPassSharedCur(t) ==
  /\ pc[t] = "bw_sem"
  /\ bsem > 0
  /\ bsem' = bsem - 1
  /\ pc' = [pc EXCEPT ![t] = "idle"]
  /\ wret' = [wret EXCEPT ![t] = IF curThread = 1 THEN "SERIAL" ELSE "OK"]
  /\ passed' = passed + 1
  /\ serials' = serials + (IF curThread = 1 THEN 1 ELSE 0)
  /\ UNCHANGED <<binited, curThread, threshold, cur, posted>>

(* Lines 62-63: take one unit, waiting forever; the first arrival        *)
(* returns PTHREAD_BARRIER_SERIAL_THREAD.                                *)
BarrierPass(t) ==
  /\ pc[t] = "bw_sem"
  /\ bsem > 0
  /\ bsem' = bsem - 1
  /\ pc' = [pc EXCEPT ![t] = "idle"]
  /\ wret' = [wret EXCEPT ![t] = IF cur[t] = 1 THEN "SERIAL" ELSE "OK"]
  /\ passed' = passed + 1
  /\ serials' = serials + (IF cur[t] = 1 THEN 1 ELSE 0)
  /\ UNCHANGED <<binited, curThread, threshold, cur, posted>>

Init ==
  /\ binited = FALSE
  /\ curThread = 0
  /\ threshold = 0
  /\ bsem = 0
  /\ pc = [t \in Threads |-> "idle"]
  /\ cur = [t \in Threads |-> 0]
  /\ wret = [t \in Threads |-> "none"]
  /\ posted = 0
  /\ passed = 0
  /\ serials = 0

Next ==
  \/ \E count \in Counts : BarrierInit(count)
  \/ \E t \in Threads :
       \/ BarrierArrive(t)
       \/ BarrierRelease(t)
       \/ BarrierPass(t)

Spec == Init /\ [][Next]_vars

(* A thread that has arrived runs on to its threshold test, and the     *)
(* kernel semaphore hands a posted unit to a thread blocked in sem_get  *)
(* while the unit stays there; the calls themselves are not fair.       *)
FairSpec ==
  /\ Spec
  /\ \A t \in Threads : WF_vars(BarrierRelease(t)) /\ WF_vars(BarrierPass(t))

-----------------------------------------------------------------------------
TypeOK ==
  /\ binited \in BOOLEAN
  /\ curThread \in Nat /\ threshold \in Nat /\ bsem \in Nat
  /\ pc \in [Threads -> {"idle", "bw_test", "bw_sem"}]
  /\ cur \in [Threads -> Nat]
  /\ wret \in [Threads -> WaitResults]
  /\ posted \in Nat /\ passed \in Nat /\ serials \in Nat

(* The refinement mapping to BarrierOnce: a thread inside               *)
(* pthread_barrier_wait is "in", one back at idle after an arrival was   *)
(* counted (its local `cur` stays set) has "left", and cur_thread is the *)
(* number of arrivals.                                                   *)
AbsState(t) ==
  IF pc[t] # "idle" THEN "in" ELSE IF cur[t] > 0 THEN "left" ELSE "out"

Abs == INSTANCE BarrierOnce
         WITH arrived <- curThread,
              state <- [t \in Threads |-> AbsState(t)],
              order <- cur

(* The first phase of the barrier implements the one-phase barrier of   *)
(* spec.md 4.4: arrivals are counted under the lock (lines 52-58), and  *)
(* no thread gets out of sem_get (line 62) before `threshold` threads   *)
(* have arrived, because only the arrival that saw cur_thread at the    *)
(* threshold posts (lines 59-60).                                       *)
ImplementsBarrierOnce == Abs!Spec

(* Exactly one thread of a phase returns                                *)
(* PTHREAD_BARRIER_SERIAL_THREAD (spec.md 8): never two, and one once   *)
(* the whole phase has passed.                                          *)
OneSerialPerPhase ==
  /\ serials <= 1
  /\ (binited /\ passed >= threshold) => serials = 1

(* spec.md 4.4: once cur_thread reaches the threshold the phase is      *)
(* released, waking every waiting thread.  Every thread inside          *)
(* pthread_barrier_wait when the count is complete eventually returns:  *)
(* the sem_post_n of lines 59-60 leaves a unit for each of them.         *)
PhaseReleasesAll ==
  \A t \in Threads :
    (pc[t] # "idle" /\ binited /\ curThread >= threshold) ~> pc[t] = "idle"
=============================================================================
