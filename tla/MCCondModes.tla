----------------------------- MODULE MCCondModes -----------------------------
(***************************************************************************)
(* Model-checking instance of PthreadCond that checks the wakeup          *)
(* accounting in two programs at once.  Init chooses the program a        *)
(* behaviour runs:                                                        *)
(*   "untimed": pthread_cond_wait only (abstime NULL), with signal and    *)
(*              broadcast, on a mutex of any type whose relock blocks;    *)
(*   "timed":   pthread_cond_timedwait with every deadline class and      *)
(*              signal, on a normal mutex whose relock may time out.      *)
(* Broadcast is not combined with timeouts, nor a failing unlock with     *)
(* them: those break the balance (hazards at posix_pthread_cond.c lines  *)
(* 63 and 132, the first shown by the cond_negative run).                *)
(***************************************************************************)
EXTENDS TLC

CONSTANTS Threads, NONE, CounterBound

VARIABLES inited, mtype, own, pc, tmo, cont, ret, holds,
          cinited, waiting, csem, ctmo, owed,
          mode      \* which of the two programs this behaviour runs

U == INSTANCE PthreadCond
       WITH MutexTypes <- {"normal", "recursive", "errorcheck"},
            Deadlines <- {"none"}, UninitTicks <- {"forever"},
            CondDeadlines <- {"none"}, CondOps <- {"signal", "broadcast"}

T == INSTANCE PthreadCond
       WITH MutexTypes <- {"normal"},
            Deadlines <- {"none"}, UninitTicks <- {"forever", "finite"},
            CondDeadlines <- {"none", "past", "now", "future", "invalid"},
            CondOps <- {"signal"}

ModesInit == U!Init /\ mode \in {"untimed", "timed"}

ModesNext ==
  /\ \/ mode = "untimed" /\ U!Next
     \/ mode = "timed" /\ T!Next
  /\ UNCHANGED mode

ModesSpec == ModesInit /\ [][ModesNext]_<<U!vars, mode>>

Symmetry == Permutations(Threads)

(* The type invariant of PthreadCond, in either program.                *)
CondTypeOK == mode \in {"untimed", "timed"} /\ T!CondTypeOK

(* spec.md 4.3: waiting + csem equals the waiters still owed a unit, in *)
(* both programs (PthreadCond!CondTokenBalance, lines 53-150).          *)
CondTokenBalance == T!CondTokenBalance
=============================================================================
