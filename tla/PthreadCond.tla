----------------------------- MODULE PthreadCond -----------------------------
(***************************************************************************)
(* The condition variable of libposix (src/src/posix_pthread_cond.c): a    *)
(* waiter count `waiting` guarded by an internal kernel lock cond->mux and *)
(* a kernel counting semaphore cond->cond used as the wakeup channel,      *)
(* paired with the user's pthread mutex, which is PthreadMutex.            *)
(*                                                                         *)
(* The internal lock is held only around the updates of `waiting`, never  *)
(* across a blocking call, so each locked section is one atomic step.     *)
(* pthread_cond_signal reads `waiting` once without the lock (line 97)    *)
(* and again under it (line 100); as the locked re-check decides, the     *)
(* signal is one step too.  In pthread_cond_timedwait the increment and   *)
(* the release of the user mutex are one step: the caller still holds the *)
(* mutex in between, and a signal there acts as it does just after.       *)
(*                                                                         *)
(* The kernel semaphore (external) is a count `csem`: sem_get takes a unit *)
(* when there is one, with 0 ticks fails at once otherwise, and with a    *)
(* finite tick count may time out while it waits.  sem_post_n(s, n) adds  *)
(* n units when n > 0 and none otherwise.                                 *)
(***************************************************************************)
EXTENDS Integers, FiniteSets

CONSTANTS
  Threads, NONE, MutexTypes, Deadlines, UninitTicks,
  CondDeadlines,  \* the abstime classes given to pthread_cond_timedwait
  CondOps,        \* which of "signal", "broadcast" callers use
  CounterBound    \* bound on `waiting` for model checking

ASSUME CondDeadlines \subseteq {"none", "past", "now", "future", "invalid"}
ASSUME CondOps \subseteq {"signal", "broadcast"}
ASSUME CounterBound \in Nat

VARIABLES inited, mtype, own, pc, tmo, cont, ret, holds

VARIABLES
  cinited,  \* pthread_cond_t.inited
  waiting,  \* pthread_cond_t.waiting, a C int
  csem,     \* units in the semaphore pthread_cond_t.cond
  ctmo,     \* the tick count a waiter passed to sem_get
  owed      \* history: waiters blocked in sem_get when a broadcast ran

M == INSTANCE PthreadMutex

condVars == <<cinited, waiting, csem, ctmo, owed>>
vars == <<inited, mtype, own, pc, tmo, cont, ret, holds, cinited, waiting,
          csem, ctmo, owed>>

-----------------------------------------------------------------------------
(* The sem_get timeout pthread_cond_timedwait computes: WAIT without     *)
(* abstime, 0 for a deadline equal to now, a finite count for a later    *)
(* one (lines 114-126).                                                  *)
CondTicks(dl) ==
  CASE dl = "none"   -> "forever"
    [] dl = "now"    -> "zero"
    [] dl = "future" -> "finite"

(* pthread_cond_timedwait, up to the sem_get: an uninitialized cond is   *)
(* EINVAL; a deadline in the past or malformed returns the conversion's *)
(* error with the mutex still held; otherwise the waiter is counted and *)
(* the user mutex released.  When that unlock fails the error is        *)
(* returned and the count is left incremented (lines 128-133).          *)
CondTimedWait(t, dl) ==
  \/ /\ ~cinited
     /\ M!Return(t, "EINVAL", "idle")
     /\ UNCHANGED <<own, tmo, cont, holds, condVars>>
  \/ /\ cinited
     /\ dl \in {"past", "invalid"}
     /\ M!Return(t, IF dl = "past" THEN "ETIMEDOUT" ELSE "EINVAL", "idle")
     /\ UNCHANGED <<own, tmo, cont, holds, condVars>>
  \/ /\ cinited
     /\ dl \in {"none", "now", "future"}
     /\ waiting < CounterBound
     /\ waiting' = waiting + 1
     /\ ctmo' = [ctmo EXCEPT ![t] = CondTicks(dl)]
     /\ \/ M!MutexUnlock(t, "cv_sem") /\ ret'[t] = "OK"
        \/ M!MutexUnlock(t, "idle") /\ ret'[t] # "OK"
     /\ UNCHANGED <<cinited, csem, owed>>

(* sem_get returns a unit: relock the mutex with pthread_mutex_lock and  *)
(* return what it returns (lines 136-138).                               *)
CondWake(t) ==
  /\ pc[t] = "cv_sem"
  /\ csem > 0
  /\ csem' = csem - 1
  /\ owed' = owed \ {t}
  /\ M!MutexTimedLock(t, "none", "idle")
  /\ UNCHANGED <<inited, mtype, cinited, waiting, ctmo>>

(* sem_get times out: relock the mutex, ignoring the result, then take  *)
(* the count back (lines 139-146).                                      *)
CondTimeout(t) ==
  /\ pc[t] = "cv_sem"
  /\ \/ ctmo[t] = "finite"
     \/ ctmo[t] = "zero" /\ csem = 0
  /\ owed' = owed \ {t}
  /\ M!MutexTimedLock(t, "none", "cv_dec")
  /\ UNCHANGED <<inited, mtype, cinited, waiting, csem, ctmo>>

CondUncount(t) ==
  /\ pc[t] = "cv_dec"
  /\ waiting' = waiting - 1
  /\ M!Return(t, "ETIMEDOUT", "idle")
  /\ UNCHANGED <<inited, mtype, own, tmo, cont, holds, cinited, csem, ctmo, owed>>

(* Mutant of CondSignal: the post without the decrement.               *)
CondSignalNoDecrement(t) ==
  /\ pc[t] = "idle"
  /\ \/ /\ ~cinited
        /\ M!Return(t, "EINVAL", "idle")
        /\ UNCHANGED csem
     \/ /\ cinited
        /\ waiting > 0
        /\ csem' = csem + 1
        /\ M!Return(t, "OK", "idle")
     \/ /\ cinited
        /\ waiting <= 0
        /\ M!Return(t, "OK", "idle")
        /\ UNCHANGED csem
  /\ UNCHANGED <<inited, mtype, own, tmo, cont, holds, cinited, waiting, ctmo, owed>>

(* pthread_cond_signal: one unit for one counted waiter (lines 93-107). *)
CondSignal(t) ==
  /\ pc[t] = "idle"
  /\ \/ /\ ~cinited
        /\ M!Return(t, "EINVAL", "idle")
        /\ UNCHANGED <<waiting, csem>>
     \/ /\ cinited
        /\ waiting > 0
        /\ csem' = csem + 1
        /\ waiting' = waiting - 1
        /\ M!Return(t, "OK", "idle")
     \/ /\ cinited
        /\ waiting <= 0
        /\ M!Return(t, "OK", "idle")
        /\ UNCHANGED <<waiting, csem>>
  /\ UNCHANGED <<inited, mtype, own, tmo, cont, holds, cinited, ctmo, owed>>

(* Mutant of CondBroadcast: the count is not reset.                     *)
CondBroadcastNoReset(t) ==
  /\ pc[t] = "idle"
  /\ \/ /\ ~cinited
        /\ M!Return(t, "EINVAL", "idle")
        /\ UNCHANGED <<csem, owed>>
     \/ /\ cinited
        /\ csem' = csem + (IF waiting > 0 THEN waiting ELSE 0)
        /\ owed' = owed \cup {u \in Threads : pc[u] = "cv_sem"}
        /\ M!Return(t, "OK", "idle")
  /\ UNCHANGED <<inited, mtype, own, tmo, cont, holds, cinited, waiting, ctmo>>

(* pthread_cond_broadcast: sem_post_n of the count, count reset to 0    *)
(* (lines 53-71).                                                       *)
CondBroadcast(t) ==
  /\ pc[t] = "idle"
  /\ \/ /\ ~cinited
        /\ M!Return(t, "EINVAL", "idle")
        /\ UNCHANGED <<waiting, csem, owed>>
     \/ /\ cinited
        /\ csem' = csem + (IF waiting > 0 THEN waiting ELSE 0)
        /\ waiting' = 0
        /\ owed' = owed \cup {u \in Threads : pc[u] = "cv_sem"}
        /\ M!Return(t, "OK", "idle")
  /\ UNCHANGED <<inited, mtype, own, tmo, cont, holds, cinited, ctmo>>

(* pthread_cond_init (lines 78-91).                                     *)
CondInit(t) ==
  /\ pc[t] = "idle"
  /\ ~cinited
  /\ cinited' = TRUE
  /\ waiting' = 0
  /\ csem' = 0
  /\ M!Return(t, "OK", "idle")
  /\ UNCHANGED <<inited, mtype, own, tmo, cont, holds, ctmo, owed>>

-----------------------------------------------------------------------------
(* A thread waits only while it holds the mutex, as POSIX requires, and *)
(* otherwise locks, unlocks, signals and broadcasts.  One thread at least *)
(* stays out of the wait, so that a program in which everyone waits and  *)
(* no one signals is not mistaken for a fault of the library.            *)
Wait(t) ==
  /\ pc[t] = "idle"
  /\ holds[t]
  /\ \E u \in Threads \ {t} : pc[u] \notin {"cv_sem", "cv_dec"}
  /\ \E dl \in CondDeadlines : CondTimedWait(t, dl)
  /\ UNCHANGED <<inited, mtype>>

Init ==
  /\ M!Init
  /\ cinited = FALSE
  /\ waiting = 0
  /\ csem = 0
  /\ ctmo = [t \in Threads |-> "forever"]
  /\ owed = {}

Next ==
  \E t \in Threads :
    \/ /\ \E ty \in MutexTypes : M!MutexInit(t, ty)
       /\ UNCHANGED condVars
    \/ M!Lock(t) /\ UNCHANGED condVars
    \/ M!Unlock(t) /\ UNCHANGED condVars
    \/ M!MutLockAcquire(t) /\ UNCHANGED condVars
    \/ M!MutLockTimeout(t) /\ UNCHANGED condVars
    \/ CondInit(t)
    \/ Wait(t)
    \/ CondWake(t)
    \/ CondTimeout(t)
    \/ CondUncount(t)
    \/ "signal" \in CondOps /\ CondSignal(t)
    \/ "broadcast" \in CondOps /\ CondBroadcast(t)

Spec == Init /\ [][Next]_vars

-----------------------------------------------------------------------------
CondTypeOK ==
  /\ cinited \in BOOLEAN
  /\ waiting \in -Cardinality(Threads)..CounterBound
  /\ csem \in 0..CounterBound
  /\ ctmo \in [Threads -> M!Ticks]
  /\ owed \subseteq Threads
  /\ pc \in [Threads -> {"idle", "mut_lock", "cv_sem", "cv_dec"}]
  /\ cont \in [Threads -> {"idle", "cv_dec"}]
  /\ own \in Threads \cup {NONE}
  /\ holds \in [Threads -> BOOLEAN]

(* The waiters that still owe the count one unit of the semaphore: the  *)
(* ones blocked in sem_get, and the ones that timed out and have not    *)
(* yet taken their count back.                                          *)
InFlight ==
  {t \in Threads : \/ pc[t] \in {"cv_sem", "cv_dec"}
                   \/ pc[t] = "mut_lock" /\ cont[t] = "cv_dec"}

(* Wakeup accounting (spec.md 4.3): every counted waiter is matched by  *)
(* either its count in `waiting` or a posted unit, never both and never *)
(* neither.  Signal and broadcast move counts to units, a wakeup takes  *)
(* a unit, a timeout takes its count back; nothing is over- or          *)
(* under-signalled (lines 53-150).                                      *)
CondTokenBalance == waiting + csem = Cardinality(InFlight)

(* spec.md 3: the waiter count never goes negative.                    *)
WaitingNonNegative == waiting >= 0

(* spec.md 4.3 and 8: a broadcast wakes every thread waiting when it    *)
(* runs.  Each waiter blocked in sem_get at a broadcast still has a     *)
(* unit in the semaphore for it until it wakes or times out.            *)
BroadcastWakesAllWaiters == Cardinality(owed) <= csem
=============================================================================
