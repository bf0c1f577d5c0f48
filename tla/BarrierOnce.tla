----------------------------- MODULE BarrierOnce -----------------------------
(***************************************************************************)
(* What one phase of a pthread barrier promises (spec.md 4.4): after init  *)
(* with a non-zero threshold, the first `threshold` callers of wait are    *)
(* admitted in order; none of them leaves before all `threshold` have      *)
(* arrived; a caller beyond the threshold is refused without entering.     *)
(*                                                                         *)
(* Per thread: "out" (has not entered), "in" (inside wait), "left"         *)
(* (returned from a wait it entered).  `order` is the arrival number: the  *)
(* thread that left with order 1 is the serial thread.                     *)
(***************************************************************************)
EXTENDS Naturals

CONSTANTS Threads, Counts

VARIABLES threshold, arrived, state, order

(* init(count): only once, and never with 0.                             *)
Setup(count) ==
  /\ threshold = 0
  /\ count # 0
  /\ threshold' = count
  /\ UNCHANGED <<arrived, state, order>>

(* A thread enters the phase while it is not yet full.                   *)
Enter(t) ==
  /\ threshold # 0
  /\ state[t] = "out"
  /\ arrived < threshold
  /\ arrived' = arrived + 1
  /\ order' = [order EXCEPT ![t] = arrived + 1]
  /\ state' = [state EXCEPT ![t] = "in"]
  /\ UNCHANGED threshold

(* A thread inside leaves once the phase is full.                        *)
Leave(t) ==
  /\ state[t] = "in"
  /\ arrived = threshold
  /\ state' = [state EXCEPT ![t] = "left"]
  /\ UNCHANGED <<threshold, arrived, order>>

Init ==
  /\ threshold = 0
  /\ arrived = 0
  /\ state = [t \in Threads |-> "out"]
  /\ order = [t \in Threads |-> 0]

Next ==
  \/ \E count \in Counts : Setup(count)
  \/ \E t \in Threads : Enter(t) \/ Leave(t)

Spec == Init /\ [][Next]_<<threshold, arrived, state, order>>
=============================================================================
