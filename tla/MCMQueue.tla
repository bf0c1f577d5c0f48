------------------------------- MODULE MCMQueue -------------------------------
(* Model-checking instance of MQueue: two tasks, one valid queue name    *)
(* and one that validate_name refuses.                                   *)
EXTENDS MQueue

CONSTANTS a1, a2, n1, nbad

MCTasks == {a1, a2}
MCNames == {n1, nbad}
MCBadNames == {nbad}

(* The oflag values: open, create, exclusive create, non-blocking create. *)
MCOFlags == {{}, {"CREAT"}, {"CREAT", "EXCL"}, {"CREAT", "NONBLOCK"}}
=============================================================================
