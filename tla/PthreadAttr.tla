----------------------------- MODULE PthreadAttr -----------------------------
(***************************************************************************)
(* Thread attributes of libposix (src/src/posix_pthread.c, lines 55-68,   *)
(* 111-204, 230-242, 284-293 and 361-376).  pthread_attr_t keeps the      *)
(* stack size in an unsigned short and packs the priority (15 low bits)   *)
(* and the detach state (bit 15) into the unsigned short `status`.        *)
(*                                                                         *)
(* One caller owns an attribute object `attr` and calls the pthread_attr_ *)
(* functions on it; pthread_create copies it (or the default) into the    *)
(* control block of one thread.  Callers then call pthread_setschedparam  *)
(* on that thread without any lock: it rewrites thread->attr.status with  *)
(* `&=` and `|=`, then calls task_pri.  Each C statement is one step.     *)
(* The getters, pthread_attr_destroy and a NULL sched_param (EINVAL)      *)
(* change no state and appear only as operators or not at all.           *)
(***************************************************************************)
EXTENDS Integers, Bitwise

CONSTANTS
  JOINABLE,    \* PTHREAD_CREATE_JOINABLE of the C library
  DETACHED,    \* PTHREAD_CREATE_DETACHED
  PRIO_MAX,    \* sched_get_priority_max(SCHED_OTHER), from the kernel
  LOWEST,      \* HCOS_LOWEST_PRIORITY, CFG_TPRI_NUM - 2
  STACK_MIN,   \* PTHREAD_STACK_MIN
  DetachArgs,  \* values passed to pthread_attr_setdetachstate
  PrioArgs,    \* sched_priority values passed to the setters
  StackArgs,   \* values passed to pthread_attr_setstacksize
  Callers      \* tasks calling pthread_setschedparam on the thread

USHORT        == 2^16
MASK_DETACH   == 32768     \* 0x8000
MASK_PRIORITY == 32767     \* 0x7FFF
SHFT_DETACH   == 15

(* Assignment to an unsigned short keeps the low 16 bits.               *)
Ushort(x) == x % USHORT
(* x & ~m with x and m unsigned short.                                  *)
ClearBits(x, m) == x & (USHORT - 1 - m)
ShiftLeft(x, n) == x * 2^n

STATUS_PRIORITY(s) == s & MASK_PRIORITY
STATUS_JOINABLE(s) == (s & MASK_DETACH) = MASK_DETACH

(* PTHTREAD_ATTR_DEFAULT (lines 63-68).                                 *)
ATTR_DEFAULT ==
  [stack_sz |-> STACK_MIN,
   status   |-> Ushort((Ushort(LOWEST) & MASK_PRIORITY)
                       | ShiftLeft(JOINABLE, SHFT_DETACH))]

(* The getters (lines 120-142): they change nothing.                    *)
GetDetachstate(a) == IF STATUS_JOINABLE(a.status) THEN JOINABLE ELSE DETACHED
GetSchedparam(a)  == STATUS_PRIORITY(a.status)
GetStacksize(a)   == a.stack_sz

(* pthread_getschedparam (lines 283-291): the priority bits of          *)
(* thread->attr.status, read without a lock.                            *)
PthreadGetschedparam(t) == STATUS_PRIORITY(t.status)

(* Mutant of PrioOK: the lower bound of the range test dropped.         *)
PrioOKNoLower(p) == p <= PRIO_MAX

(* The range test of pthread_attr_setschedparam (lines 179-183).        *)
PrioOK(p) == p <= PRIO_MAX /\ p >= 0

-----------------------------------------------------------------------------
(* Mutant of AttrSetdetachstate: the bit is set without clearing it.    *)
AttrSetdetachstateNoClear(a, d) ==
  IF d \notin {DETACHED, JOINABLE}
  THEN [ret |-> "EINVAL", val |-> a]
  ELSE [ret |-> "OK",
        val |-> [a EXCEPT !.status =
                    Ushort(@ | ShiftLeft(Ushort(d), SHFT_DETACH))]]

(* pthread_attr_setdetachstate (lines 156-168).                         *)
AttrSetdetachstate(a, d) ==
  IF d \notin {DETACHED, JOINABLE}
  THEN [ret |-> "EINVAL", val |-> a]
  ELSE [ret |-> "OK",
        val |-> [a EXCEPT !.status =
                    Ushort(ClearBits(@, MASK_DETACH)
                           | ShiftLeft(Ushort(d), SHFT_DETACH))]]

(* pthread_attr_setschedparam (lines 170-192) with a non-NULL param.    *)
AttrSetschedparam(a, p) ==
  IF ~PrioOK(p)
  THEN [ret |-> "ENOTSUP", val |-> a]
  ELSE [ret |-> "OK",
        val |-> [a EXCEPT !.status =
                    Ushort(ClearBits(@, MASK_PRIORITY) | Ushort(p))]]

(* Mutant of AttrSetstacksize: the PTHREAD_STACK_MIN test dropped.      *)
AttrSetstacksizeNoMin(a, sz) ==
  [ret |-> "OK", val |-> [a EXCEPT !.stack_sz = Ushort(sz)]]

(* pthread_attr_setstacksize (lines 194-204).                           *)
AttrSetstacksize(a, sz) ==
  IF sz < STACK_MIN
  THEN [ret |-> "EINVAL", val |-> a]
  ELSE [ret |-> "OK", val |-> [a EXCEPT !.stack_sz = Ushort(sz)]]

-----------------------------------------------------------------------------
VARIABLES
  attr,     \* the caller's pthread_attr_t
  stored,     \* history: what the last successful setters (or init) stored
  created,  \* pthread_create has filled the thread's control block
  tattr,    \* thread->attr
  tpri,     \* the kernel task's priority (task_init, task_pri)
  spc,      \* caller's place in pthread_setschedparam: "idle", "or", "pri"
  sprio     \* the sched_priority a caller is setting

vars == <<attr, stored, created, tattr, tpri, spc, sprio>>

DefaultWant == [detach |-> JOINABLE, prio |-> LOWEST, stack |-> STACK_MIN]

(* pthread_attr_init (lines 144-154).                                   *)
AttrInit ==
  /\ attr' = ATTR_DEFAULT
  /\ stored' = DefaultWant
  /\ UNCHANGED <<created, tattr, tpri, spc, sprio>>

(* One setter call on the caller's attr; `field` names what it stores.  *)
AttrCall(r, field, v) ==
  /\ attr' = r.val
  /\ stored' = IF r.ret = "OK" THEN [stored EXCEPT ![field] = v] ELSE stored
  /\ UNCHANGED <<created, tattr, tpri, spc, sprio>>

SetDetach(d) == AttrCall(AttrSetdetachstate(attr, d), "detach", d)
SetPrio(p)   == AttrCall(AttrSetschedparam(attr, p), "prio", p)
SetStack(sz) == AttrCall(AttrSetstacksize(attr, sz), "stack", sz)

(* pthread_create (lines 230-242, 265-271) with attr or NULL: the       *)
(* attributes are copied into the control block and the task is created *)
(* at STATUS_PRIORITY of the copy.                                      *)
Create(useAttr) ==
  /\ ~created
  /\ created' = TRUE
  /\ tattr' = IF useAttr THEN attr ELSE ATTR_DEFAULT
  /\ tpri' = STATUS_PRIORITY(tattr'.status)
  /\ UNCHANGED <<attr, stored, spc, sprio>>

(* pthread_setschedparam (lines 361-376) through                       *)
(* pthread_attr_setschedparam on thread->attr: an out-of-range priority *)
(* returns ENOTSUP with nothing changed; otherwise `status &=           *)
(* ~MASK_PRIORITY` (line 187) ...                                       *)
SchedClear(c, p) ==
  /\ created /\ spc[c] = "idle" /\ PrioOK(p)
  /\ tattr' = [tattr EXCEPT !.status = ClearBits(@, MASK_PRIORITY)]
  /\ spc' = [spc EXCEPT ![c] = "or"]
  /\ sprio' = [sprio EXCEPT ![c] = p]
  /\ UNCHANGED <<attr, stored, created, tpri>>

(* ... then `status |= sched_priority` (line 188) ...                   *)
SchedOr(c) ==
  /\ spc[c] = "or"
  /\ tattr' = [tattr EXCEPT !.status = Ushort(@ | Ushort(sprio[c]))]
  /\ spc' = [spc EXCEPT ![c] = "pri"]
  /\ UNCHANGED <<attr, stored, created, tpri, sprio>>

(* ... then task_pri(&thread->task, sched_priority) (line 372).         *)
SchedPri(c) ==
  /\ spc[c] = "pri"
  /\ tpri' = sprio[c]
  /\ spc' = [spc EXCEPT ![c] = "idle"]
  /\ UNCHANGED <<attr, stored, created, tattr, sprio>>

Init ==
  /\ attr = ATTR_DEFAULT
  /\ stored = DefaultWant
  /\ created = FALSE
  /\ tattr = ATTR_DEFAULT
  /\ tpri = LOWEST
  /\ spc = [c \in Callers |-> "idle"]
  /\ sprio = [c \in Callers |-> LOWEST]

Next ==
  \/ AttrInit
  \/ \E d \in DetachArgs : SetDetach(d)
  \/ \E p \in PrioArgs : SetPrio(p)
  \/ \E sz \in StackArgs : SetStack(sz)
  \/ \E useAttr \in BOOLEAN : Create(useAttr)
  \/ \E c \in Callers : \/ \E p \in PrioArgs : SchedClear(c, p)
                        \/ SchedOr(c)
                        \/ SchedPri(c)

Spec == Init /\ [][Next]_vars

-----------------------------------------------------------------------------
AttrRecord == [stack_sz: 0..(USHORT - 1), status: 0..(USHORT - 1)]

TypeOK ==
  /\ attr \in AttrRecord
  /\ tattr \in AttrRecord
  /\ stored \in [detach: DetachArgs \cup {JOINABLE},
               prio: PrioArgs \cup {LOWEST}, stack: StackArgs \cup {STACK_MIN}]
  /\ created \in BOOLEAN
  /\ tpri \in 0..PRIO_MAX
  /\ spc \in [Callers -> {"idle", "or", "pri"}]
  /\ sprio \in [Callers -> PrioArgs \cup {LOWEST}]

(* spec.md 4.5: the detach-state and priority getters return what the *)
(* setters stored.  The two share attr.status, so each setter must      *)
(* clear and set only its own bits (lines 156-192), and the default of  *)
(* lines 63-68 must decode to joinable at the lowest priority.  The     *)
(* stack size is left out: a size of 65536 or more passes the test of   *)
(* line 197 and is stored modulo 2^16 (line 200), so its getter returns *)
(* a different value, a defect recorded as a hazard.                    *)
StatusRoundTrip ==
  /\ GetDetachstate(attr) = stored.detach
  /\ GetSchedparam(attr) = stored.prio

=============================================================================
