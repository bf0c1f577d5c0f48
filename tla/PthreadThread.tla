---------------------------- MODULE PthreadThread ----------------------------
(***************************************************************************)
(* Thread lifecycle of libposix (src/src/posix_pthread.c): pthread_create, *)
(* the task wrapper run_thread with exit_thread, and pthread_join's        *)
(* handshake over the two semaphores `barrier` and `joined` and the join   *)
(* lock `mux` of the control block pthread_internal_t.                     *)
(*                                                                         *)
(* Pthreads are the slots in Pthreads (a control block and its stack);     *)
(* Joiners are other tasks that call pthread_join.  A pthread may also     *)
(* join itself.  Allocation is counted per slot (tcbAlloc, stackAlloc):    *)
(* 1 after hcos_posix_alloc, back to 0 after hcos_posix_free; -1 records   *)
(* a second free.  The kernel lock and semaphores are the same external    *)
(* primitives as in PthreadMutex and PthreadCond; the join lock is only    *)
(* taken with WAIT_NO.  A slot whose thread has ended and that has been    *)
(* joined (or was detached) may be created again.                          *)
(***************************************************************************)
EXTENDS Integers, FiniteSets

CONSTANTS
  Pthreads,   \* control-block slots pthread_create fills
  Joiners,    \* tasks that call pthread_join
  NONE,       \* free join lock (model value)
  Detach,     \* detach states callers create with: subset of BOOLEAN
  Outcomes    \* allocation outcomes of pthread_create

ASSUME Detach \subseteq BOOLEAN /\ Detach # {}
ASSUME Outcomes \subseteq {"ok", "stack_fail", "task_fail"} /\ "ok" \in Outcomes
ASSUME Pthreads \cap Joiners = {}

VARIABLES
  tpc,        \* pthread's task: "unborn", "running", "exit_wait", "ending", "done"
  detached,   \* attr.status detach bit is clear (PTHREAD_CREATE_DETACHED)
  tcbAlloc,   \* outstanding allocations of the control block
  stackAlloc, \* outstanding allocations of the stack
  barrier,    \* units in thread->barrier
  joined,     \* units in thread->joined
  jmux,       \* owner of thread->mux, the join lock
  retSet,     \* thread->ret holds the value the entry function returned
  joinDone,   \* history: a pthread_join of this pthread has returned 0
  jpc,        \* joiner: "idle", "j_barrier" (in sem_get), "j_free"
  jtarget,    \* the pthread a joiner joins
  jret,       \* what a joiner's last pthread_join returned
  jval        \* whether *retval got the value the thread returned

vars == <<tpc, detached, tcbAlloc, stackAlloc, barrier, joined, jmux, retSet,
          joinDone, jpc, jtarget, jret, jval>>
joinerVars == <<jpc, jtarget, jret, jval>>

-----------------------------------------------------------------------------
(* pthread_create (lines 206-282) for slot p, as one step with the       *)
(* allocator's outcome: the control block is filled, for a joinable      *)
(* thread the join lock and both semaphores are initialized with count 1 *)
(* (lines 250-254); if the stack allocation or task_init fails,          *)
(* everything allocated so far is freed and EAGAIN returned.             *)
Create(p, det, outcome) ==
  /\ tpc[p] = "unborn"
  /\ CASE outcome = "ok" ->
            /\ tpc' = [tpc EXCEPT ![p] = "running"]
            /\ detached' = [detached EXCEPT ![p] = det]
            /\ tcbAlloc' = [tcbAlloc EXCEPT ![p] = 1]
            /\ stackAlloc' = [stackAlloc EXCEPT ![p] = 1]
            /\ barrier' = [barrier EXCEPT ![p] = IF det THEN 0 ELSE 1]
            /\ joined' = [joined EXCEPT ![p] = IF det THEN 0 ELSE 1]
            /\ jmux' = [jmux EXCEPT ![p] = NONE]
            /\ retSet' = [retSet EXCEPT ![p] = FALSE]
            /\ joinDone' = [joinDone EXCEPT ![p] = FALSE]
       [] outcome \in {"stack_fail", "task_fail"} ->
            UNCHANGED <<tpc, detached, tcbAlloc, stackAlloc, barrier, joined,
                        jmux, retSet, joinDone>>
  /\ UNCHANGED joinerVars

(* run_thread and exit_thread (lines 78-109), also pthread_exit          *)
(* (lines 306-312): the return value is stored, then a joinable thread   *)
(* posts `barrier`, a detached one frees its stack and control block.    *)
Finish(p) ==
  /\ tpc[p] = "running"
  /\ retSet' = [retSet EXCEPT ![p] = TRUE]
  /\ IF detached[p]
     THEN /\ tcbAlloc' = [tcbAlloc EXCEPT ![p] = @ - 1]
          /\ stackAlloc' = [stackAlloc EXCEPT ![p] = @ - 1]
          /\ tpc' = [tpc EXCEPT ![p] = "ending"]
          /\ UNCHANGED barrier
     ELSE /\ barrier' = [barrier EXCEPT ![p] = @ + 1]
          /\ tpc' = [tpc EXCEPT ![p] = "exit_wait"]
          /\ UNCHANGED <<tcbAlloc, stackAlloc>>
  /\ UNCHANGED <<detached, joined, jmux, joinDone, joinerVars>>

(* exit_thread of a joinable thread: sem_get(&thread->joined, WAIT).     *)
ExitWake(p) ==
  /\ tpc[p] = "exit_wait"
  /\ joined[p] > 0
  /\ joined' = [joined EXCEPT ![p] = @ - 1]
  /\ tpc' = [tpc EXCEPT ![p] = "ending"]
  /\ UNCHANGED <<detached, tcbAlloc, stackAlloc, barrier, jmux, retSet,
                 joinDone, joinerVars>>

(* exit_thread and run_thread return and the kernel ends the task, on   *)
(* the thread's stack and with the task_t inside the control block.     *)
TaskEnd(p) ==
  /\ tpc[p] = "ending"
  /\ tpc' = [tpc EXCEPT ![p] = "done"]
  /\ UNCHANGED <<detached, tcbAlloc, stackAlloc, barrier, joined, jmux,
                 retSet, joinDone, joinerVars>>

(* A running pthread calls pthread_join(pthread_self()) (lines 314-338): *)
(* the join lock is taken with WAIT_NO before the self-join test, and    *)
(* EDEADLK is returned without releasing it.                             *)
SelfJoin(p) ==
  /\ tpc[p] = "running"
  /\ ~detached[p]
  /\ jmux' = [jmux EXCEPT ![p] = IF @ = NONE THEN p ELSE @]
  /\ UNCHANGED <<tpc, detached, tcbAlloc, stackAlloc, barrier, joined,
                 retSet, joinDone, joinerVars>>

-----------------------------------------------------------------------------
(* Mutant of JoinStart: a held join lock reported as EBUSY.             *)
JoinStartBusy(j, p) ==
  /\ jpc[j] = "idle"
  /\ tpc[p] # "unborn"
  /\ ~joinDone[p]
  /\ jtarget' = [jtarget EXCEPT ![j] = p]
  /\ \/ /\ detached[p]
        /\ jret' = [jret EXCEPT ![j] = "EDEADLK"]
        /\ UNCHANGED <<jpc, jmux, jval>>
     \/ /\ ~detached[p] /\ jmux[p] # NONE
        /\ jret' = [jret EXCEPT ![j] = "EBUSY"]
        /\ UNCHANGED <<jpc, jmux, jval>>
     \/ /\ ~detached[p] /\ jmux[p] = NONE
        /\ jmux' = [jmux EXCEPT ![p] = j]
        /\ jpc' = [jpc EXCEPT ![j] = "j_barrier"]
        /\ UNCHANGED <<jret, jval>>
  /\ UNCHANGED <<tpc, detached, tcbAlloc, stackAlloc, barrier, joined,
                 retSet, joinDone>>

(* pthread_join(p) by joiner j, up to the sem_get (lines 314-338): a     *)
(* detached target is EDEADLK; the join lock is tried without waiting    *)
(* and EDEADLK returned when it is held.  A joiner joins a pthread it    *)
(* created, before any join of it has returned.                          *)
JoinStart(j, p) ==
  /\ jpc[j] = "idle"
  /\ tpc[p] # "unborn"
  /\ ~joinDone[p]
  /\ jtarget' = [jtarget EXCEPT ![j] = p]
  /\ \/ /\ detached[p] \/ jmux[p] # NONE
        /\ jret' = [jret EXCEPT ![j] = "EDEADLK"]
        /\ UNCHANGED <<jpc, jmux, jval>>
     \/ /\ ~detached[p] /\ jmux[p] = NONE
        /\ jmux' = [jmux EXCEPT ![p] = j]
        /\ jpc' = [jpc EXCEPT ![j] = "j_barrier"]
        /\ UNCHANGED <<jret, jval>>
  /\ UNCHANGED <<tpc, detached, tcbAlloc, stackAlloc, barrier, joined,
                 retSet, joinDone>>

(* Lines 343-348: sem_get(&thread->barrier, WAIT), sem_post(joined),     *)
(* release the join lock, copy thread->ret to *retval.                   *)
JoinHandshake(j) ==
  LET p == jtarget[j] IN
  /\ jpc[j] = "j_barrier"
  /\ barrier[p] > 0
  /\ barrier' = [barrier EXCEPT ![p] = @ - 1]
  /\ joined' = [joined EXCEPT ![p] = @ + 1]
  /\ jmux' = [jmux EXCEPT ![p] = NONE]
  /\ jval' = [jval EXCEPT ![j] = retSet[p]]
  /\ jpc' = [jpc EXCEPT ![j] = "j_free"]
  /\ UNCHANGED <<tpc, detached, tcbAlloc, stackAlloc, retSet, joinDone,
                 jtarget, jret>>

(* Lines 349-353: free the stack and the control block, return 0.        *)
JoinFree(j) ==
  LET p == jtarget[j] IN
  /\ jpc[j] = "j_free"
  /\ tcbAlloc' = [tcbAlloc EXCEPT ![p] = @ - 1]
  /\ stackAlloc' = [stackAlloc EXCEPT ![p] = @ - 1]
  /\ joinDone' = [joinDone EXCEPT ![p] = TRUE]
  /\ jpc' = [jpc EXCEPT ![j] = "idle"]
  /\ jret' = [jret EXCEPT ![j] = "OK"]
  /\ UNCHANGED <<tpc, detached, barrier, joined, jmux, retSet, jtarget, jval>>

(* The slot of an ended thread that was detached or has been joined,    *)
(* with no join of it in progress, is reused by a later pthread_create.  *)
Reuse(p) ==
  /\ tpc[p] = "done"
  /\ detached[p] \/ joinDone[p]
  /\ \A j \in Joiners : jpc[j] # "idle" => jtarget[j] # p
  /\ tpc' = [tpc EXCEPT ![p] = "unborn"]
  /\ UNCHANGED <<detached, tcbAlloc, stackAlloc, barrier, joined, jmux,
                 retSet, joinDone, joinerVars>>

Init ==
  /\ tpc = [p \in Pthreads |-> "unborn"]
  /\ detached = [p \in Pthreads |-> FALSE]
  /\ tcbAlloc = [p \in Pthreads |-> 0]
  /\ stackAlloc = [p \in Pthreads |-> 0]
  /\ barrier = [p \in Pthreads |-> 0]
  /\ joined = [p \in Pthreads |-> 0]
  /\ jmux = [p \in Pthreads |-> NONE]
  /\ retSet = [p \in Pthreads |-> FALSE]
  /\ joinDone = [p \in Pthreads |-> FALSE]
  /\ jpc = [j \in Joiners |-> "idle"]
  /\ jtarget = [j \in Joiners |-> CHOOSE p \in Pthreads : TRUE]
  /\ jret = [j \in Joiners |-> "none"]
  /\ jval = [j \in Joiners |-> FALSE]

Next ==
  \/ \E p \in Pthreads :
       \/ \E det \in Detach, outcome \in Outcomes : Create(p, det, outcome)
       \/ Finish(p)
       \/ ExitWake(p)
       \/ TaskEnd(p)
       \/ SelfJoin(p)
       \/ Reuse(p)
  \/ \E j \in Joiners :
       \/ \E p \in Pthreads : JoinStart(j, p)
       \/ JoinHandshake(j)
       \/ JoinFree(j)

Spec == Init /\ [][Next]_vars

-----------------------------------------------------------------------------
TypeOK ==
  /\ tpc \in [Pthreads -> {"unborn", "running", "exit_wait", "ending", "done"}]
  /\ detached \in [Pthreads -> BOOLEAN]
  /\ tcbAlloc \in [Pthreads -> -Cardinality(Joiners)..1]
  /\ stackAlloc \in [Pthreads -> -Cardinality(Joiners)..1]
  /\ barrier \in [Pthreads -> 0..2]
  /\ joined \in [Pthreads -> 0..(1 + Cardinality(Joiners))]
  /\ jmux \in [Pthreads -> Joiners \cup Pthreads \cup {NONE}]
  /\ retSet \in [Pthreads -> BOOLEAN]
  /\ joinDone \in [Pthreads -> BOOLEAN]
  /\ jpc \in [Joiners -> {"idle", "j_barrier", "j_free"}]
  /\ jtarget \in [Joiners -> Pthreads]
  /\ jret \in [Joiners -> {"none", "OK", "EDEADLK"}]
  /\ jval \in [Joiners -> BOOLEAN]

(* spec.md 4.5 and 8: pthread_join returns only after the target has    *)
(* returned, with its return value in *retval (lines 343-348 waiting on *)
(* the post of line 84).                                                *)
JoinSeesReturnValue == \A j \in Joiners : jpc[j] = "j_free" => jval[j]

(* spec.md 3: a thread's resources are released exactly once, so no     *)
(* count of outstanding allocations drops below zero (lines 349-350).   *)
NoDoubleFree == \A p \in Pthreads : tcbAlloc[p] >= 0 /\ stackAlloc[p] >= 0
=============================================================================
