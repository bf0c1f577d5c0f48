---------------------------- MODULE PthreadMutex ----------------------------
(***************************************************************************)
(* The POSIX mutex of libposix (src/src/posix_pthread_mutex.c) built on    *)
(* the hcos kernel lock mut_t.                                             *)
(*                                                                         *)
(* The kernel lock is an external collaborator (spec.md section 6): a      *)
(* single owner `own`, mut_lock(m, ticks) that takes a free lock, fails at *)
(* once when ticks = 0, and otherwise blocks until the lock is free or,    *)
(* for a finite tick count, until it times out.  It is not recursive: a    *)
(* relock by the owner blocks like any other.  mut_unlock by a thread that *)
(* does not own the lock leaves it alone (spec.md 3, "best-effort no-op"). *)
(*                                                                         *)
(* Time is abstracted to the tick count the code hands to mut_lock:        *)
(* "zero", "finite" or "forever" (WAIT).  A caller's absolute deadline is  *)
(* one of the classes in Deadlines; see TimeConv for the conversion.       *)
(*                                                                         *)
(* `holds[t]` is the caller's view: thread t got 0 from a lock call and    *)
(* has not since got 0 from an unlock.  A correct mutex keeps that view    *)
(* equal to the kernel's.                                                  *)
(***************************************************************************)
EXTENDS Naturals, FiniteSets

CONSTANTS
  Threads,      \* the tasks that call into the mutex
  NONE,         \* no owner (model value)
  MutexTypes,   \* the types pthread_mutex_init may be given
  Deadlines,    \* the abstime classes callers pass, see SleepTicks
  UninitTicks   \* the values an uninitialized `unsigned sleep_ticks` may hold

ASSUME MutexTypes \subseteq {"normal", "recursive", "errorcheck"}
ASSUME Deadlines \subseteq {"none", "past", "now", "future", "invalid", "try"}
ASSUME UninitTicks # {} /\ UninitTicks \subseteq {"zero", "finite", "forever"}

VARIABLES
  inited,  \* pthread_mutex_t.inited
  mtype,   \* pthread_mutex_t.attr.type
  own,     \* pthread_mutex_t.mux.own, the kernel lock's owner
  pc,      \* where each thread is: "idle" or blocked in "mut_lock"
  tmo,     \* the tick count a thread blocked in mut_lock passed
  cont,    \* where a thread resumes when its mut_lock returns
  ret,     \* the last value a call of each thread returned
  holds    \* caller's view: t believes it holds the mutex

mutexVars == <<inited, mtype, own, pc, tmo, cont, ret, holds>>

(* The values the mutex functions can return (lines 61-152).            *)
MutexErrnos == {"OK", "EINVAL", "EDEADLK", "EPERM"}
Ticks  == {"zero", "finite", "forever"}

(* Type checks done by pthread_mutex_unlock: only these two detect a     *)
(* non-owner.                                                            *)
CheckedTypes == {"recursive", "errorcheck"}

-----------------------------------------------------------------------------
(* Mutant of SleepTicks: sleep_ticks initialized to 0.                   *)
SleepTicksZero(dl) ==
  CASE dl \in {"none", "past", "now", "try", "invalid"} -> {"zero"}
    [] dl = "future"                                   -> {"finite"}

(* The tick count pthread_mutex_timedlock hands to mut_lock for a        *)
(* deadline class.  No abstime (pthread_mutex_lock) leaves sleep_ticks   *)
(* uninitialized; a deadline in the past is ETIMEDOUT from               *)
(* abs_timespec2ticks, turned into 0 ticks; a deadline equal to the     *)
(* current time converts to 0 ticks; trylock passes {0, 0}, which is in  *)
(* the past.                                                             *)
SleepTicks(dl) ==
  CASE dl = "none"                   -> UninitTicks
    [] dl \in {"past", "now", "try"} -> {"zero"}
    [] dl = "future"                 -> {"finite"}
    [] dl = "invalid"                -> {"zero"}

(* The result of converting the deadline (lines 93-106): EINVAL for a   *)
(* malformed one; ETIMEDOUT for a past one is turned into 0.            *)
ConvRet(dl) == IF dl = "invalid" THEN "EINVAL" ELSE "OK"

(* Thread t returns r to its caller and goes on at label k.             *)
Return(t, r, k) ==
  /\ ret' = [ret EXCEPT ![t] = r]
  /\ pc'  = [pc EXCEPT ![t] = k]

(* The call of mut_lock(&mux->mux, ticks) at line 115 and the return of *)
(* 0 after it: the result of mut_lock is not looked at, so a failed or  *)
(* timed-out mut_lock is reported as success too.                       *)
MutLockCall(t, ticks, k) ==
  \/ /\ own = NONE
     /\ own' = t
     /\ Return(t, "OK", k)
     /\ holds' = [holds EXCEPT ![t] = TRUE]
     /\ UNCHANGED <<tmo, cont>>
  \/ /\ own # NONE
     /\ ticks = "zero"
     /\ Return(t, "OK", k)
     /\ holds' = [holds EXCEPT ![t] = TRUE]
     /\ UNCHANGED <<own, tmo, cont>>
  \/ /\ own # NONE
     /\ ticks # "zero"
     /\ pc'   = [pc EXCEPT ![t] = "mut_lock"]
     /\ tmo'  = [tmo EXCEPT ![t] = ticks]
     /\ cont' = [cont EXCEPT ![t] = k]
     /\ UNCHANGED <<own, ret, holds>>

(* pthread_mutex_timedlock(mux, abstime), returning to label k.  Called *)
(* with "none" it is pthread_mutex_lock, with "try" pthread_mutex_trylock *)
(* (whose mapping of ETIMEDOUT to EBUSY never applies: timedlock does not *)
(* return ETIMEDOUT).                                                     *)
MutexTimedLock(t, dl, k) ==
  \/ /\ ~inited
     /\ Return(t, "EINVAL", k)
     /\ UNCHANGED <<own, tmo, cont, holds>>
  \/ /\ inited
     /\ ConvRet(dl) # "OK"
     /\ Return(t, ConvRet(dl), k)
     /\ UNCHANGED <<own, tmo, cont, holds>>
  \/ /\ inited
     /\ ConvRet(dl) = "OK"
     /\ mtype = "errorcheck"
     /\ own = t
     /\ Return(t, "EDEADLK", k)
     /\ UNCHANGED <<own, tmo, cont, holds>>
  \/ /\ inited
     /\ ConvRet(dl) = "OK"
     /\ ~(mtype = "errorcheck" /\ own = t)
     /\ \E ticks \in SleepTicks(dl) : MutLockCall(t, ticks, k)

(* pthread_mutex_unlock(mux), returning to label k.  The kernel release *)
(* only changes the owner when t is the owner.                          *)
MutexUnlock(t, k) ==
  \/ /\ ~inited
     /\ Return(t, "EINVAL", k)
     /\ UNCHANGED <<own, tmo, cont, holds>>
  \/ /\ inited
     /\ mtype \in CheckedTypes
     /\ own # t
     /\ Return(t, "EPERM", k)
     /\ UNCHANGED <<own, tmo, cont, holds>>
  \/ /\ inited
     /\ ~(mtype \in CheckedTypes /\ own # t)
     /\ own' = IF own = t THEN NONE ELSE own
     /\ Return(t, "OK", k)
     /\ holds' = [holds EXCEPT ![t] = FALSE]
     /\ UNCHANGED <<tmo, cont>>

-----------------------------------------------------------------------------
(* Kernel side of a mut_lock that blocked: the lock is handed to the    *)
(* waiter when free, or a finite wait times out.  Either way the code   *)
(* returns 0 at line 118.                                               *)
MutLockAcquire(t) ==
  /\ pc[t] = "mut_lock"
  /\ own = NONE
  /\ own' = t
  /\ Return(t, "OK", cont[t])
  /\ holds' = [holds EXCEPT ![t] = TRUE]
  /\ UNCHANGED <<inited, mtype, tmo, cont>>

MutLockTimeout(t) ==
  /\ pc[t] = "mut_lock"
  /\ tmo[t] = "finite"
  /\ Return(t, "OK", cont[t])
  /\ holds' = [holds EXCEPT ![t] = TRUE]
  /\ UNCHANGED <<inited, mtype, own, tmo, cont>>

-----------------------------------------------------------------------------
(* The calls a thread makes.  A caller relocks only an error-checking   *)
(* mutex it holds (any other relock is a self-deadlock POSIX allows),   *)
(* and unlocks a mutex it does not hold only where that is a defined    *)
(* error (EPERM).                                                       *)

MutexInit(t, ty) ==
  /\ pc[t] = "idle"
  /\ ~inited
  /\ inited' = TRUE
  /\ mtype' = ty
  /\ ret' = [ret EXCEPT ![t] = "OK"]
  /\ UNCHANGED <<own, pc, tmo, cont, holds>>

Lock(t) ==
  /\ pc[t] = "idle"
  /\ ~holds[t] \/ mtype = "errorcheck"
  /\ \E dl \in Deadlines : MutexTimedLock(t, dl, "idle")
  /\ UNCHANGED <<inited, mtype>>

Unlock(t) ==
  /\ pc[t] = "idle"
  /\ holds[t] \/ mtype \in CheckedTypes
  /\ MutexUnlock(t, "idle")
  /\ UNCHANGED <<inited, mtype>>

Init ==
  /\ inited = FALSE
  /\ mtype = "normal"
  /\ own = NONE
  /\ pc = [t \in Threads |-> "idle"]
  /\ tmo = [t \in Threads |-> "forever"]
  /\ cont = [t \in Threads |-> "idle"]
  /\ ret = [t \in Threads |-> "OK"]
  /\ holds = [t \in Threads |-> FALSE]

Next ==
  \E t \in Threads :
    \/ \E ty \in MutexTypes : MutexInit(t, ty)
    \/ Lock(t)
    \/ Unlock(t)
    \/ MutLockAcquire(t)
    \/ MutLockTimeout(t)

Spec == Init /\ [][Next]_mutexVars

-----------------------------------------------------------------------------
TypeOK ==
  /\ inited \in BOOLEAN
  /\ mtype \in MutexTypes \cup {"normal"}
  /\ own \in Threads \cup {NONE}
  /\ pc \in [Threads -> {"idle", "mut_lock"}]
  /\ tmo \in [Threads -> Ticks]
  /\ cont \in [Threads -> {"idle"}]
  /\ ret \in [Threads -> MutexErrnos]
  /\ holds \in [Threads -> BOOLEAN]

(* Mutual exclusion as the callers see it: every thread whose lock call *)
(* returned 0 and that has not unlocked since is the kernel lock's      *)
(* owner, so no two threads are ever inside the critical section        *)
(* (pthread_mutex_timedlock, lines 85-119).                             *)
HolderOwnsLock == \A t \in Threads : holds[t] => own = t
=============================================================================
