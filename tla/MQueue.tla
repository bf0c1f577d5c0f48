------------------------------- MODULE MQueue -------------------------------
(***************************************************************************)
(* The message-queue registry of libposix (src/src/posix_mqueue.c).        *)
(*                                                                         *)
(* Queue objects are numbered in allocation order 1..MaxQueues; `live` is  *)
(* the set not yet freed and `allq` the set on the registry list.  The     *)
(* registry lock allq_mux is an owner `mux` as in PthreadMutex; the static *)
(* `inited` flag says whether mq_check_init has run.  A message is a unit: *)
(* only the number `qn` of messages in a queue is kept.                    *)
(*                                                                         *)
(* Each call is split where the code can be preempted between shared       *)
(* accesses: the test of `inited` in mq_check_init, the body of            *)
(* mq_check_init, the blocking mut_lock, the locked section up to          *)
(* mut_unlock, and what follows the unlock (mq_free, mq_put, mq_get).      *)
(*                                                                         *)
(* The kernel side is external (spec.md 6): mut_init makes the lock free,  *)
(* mut_unlock by a task that is not the owner leaves it alone, and the     *)
(* kernel queue takes a message when not full and gives one when not      *)
(* empty, failing at once for 0 ticks and possibly timing out for a        *)
(* finite count.                                                           *)
(***************************************************************************)
EXTENDS Naturals, FiniteSets

CONSTANTS
  Tasks,       \* the tasks calling into the registry
  Names,       \* queue names
  BadNames,    \* names validate_name refuses (no leading '/', too long)
  NONE,        \* no owner, no name (model value)
  BADQ,        \* a descriptor that is no queue, e.g. the (mqd_t)-1 of a failed open
  Ops,         \* the calls the tasks make
  OFlags,      \* the oflag values mq_open is called with
  Attrs,       \* the attr argument of mq_open: none, valid or negative sizes
  Deadlines,   \* the abstime classes of timedsend/timedreceive
  Bufs,        \* the msg_ptr/msg_len argument: fine, misaligned or wrong size
  Outcomes,    \* what hcos_posix_alloc may do in mq_open
  MaxQueues,   \* bound: queue objects the allocator can hand out
  MaxOpen,     \* bound on open_count
  QueueDepth   \* messages a kernel queue holds (mq_maxmsg)

ASSUME BadNames \subseteq Names
ASSUME Ops \subseteq {"open", "close", "getattr", "unlink", "send", "receive"}
ASSUME OFlags \subseteq SUBSET {"CREAT", "EXCL", "NONBLOCK"}
ASSUME Attrs \subseteq {"none", "valid", "negative"}
ASSUME Deadlines \subseteq {"none", "past", "now", "future", "invalid"}
ASSUME Bufs \subseteq {"fine", "misaligned", "badlen"}
ASSUME Outcomes \subseteq {"ok", "no_mq", "no_buf"}
ASSUME {MaxQueues, MaxOpen, QueueDepth} \subseteq Nat \ {0}

Ids == 1..MaxQueues

VARIABLES
  inited,  \* static int inited
  mux,     \* owner of allq_mux
  allq,    \* the queues on the registry list
  nq,      \* queue objects allocated so far
  live,    \* queue objects allocated and not freed
  qname,   \* mqd_internal_t.name
  qopen,   \* mqd_internal_t.open_count
  qpend,   \* mqd_internal_t.pending_unlink
  qnb,     \* O_NONBLOCK in mqd_internal_t.flags
  qn,      \* messages in mqd_internal_t.q
  pc,      \* where each task is in its call
  call,    \* the call each task is making, with its arguments
  res,     \* what each task's last call returned (0, a queue, or errno)
  mine,    \* the descriptors mq_open has returned to each task
  cur,     \* the local `mq` carried past mut_unlock
  tmo      \* the tick timeout get_tick_timeout computed

regVars  == <<inited, mux, allq, nq, live, qname, qopen, qpend, qnb, qn>>
taskVars == <<pc, call, res, mine, cur, tmo>>
vars     == <<regVars, taskVars>>

(* The calls task t may make, with the descriptors it holds.             *)
Calls(t) ==
  LET descs == mine[t] \cup {BADQ} IN
  {c \in [op: {"open"}, name: Names, oflag: OFlags, attr: Attrs]
         \cup [op: {"close", "getattr"}, desc: descs]
         \cup [op: {"unlink"}, name: Names]
         \cup [op: {"send", "receive"}, desc: descs, dl: Deadlines, buf: Bufs]
     : c.op \in Ops}

-----------------------------------------------------------------------------
(* Task t returns r.                                                     *)
Ret(t, r) ==
  /\ res' = [res EXCEPT ![t] = r]
  /\ pc' = [pc EXCEPT ![t] = "idle"]

(* mut_unlock(&allq_mux) by t.                                           *)
Unlock(t) == mux' = IF mux = t THEN NONE ELSE mux

(* validate_name (lines 117-138).                                        *)
ValidateName(n) == n \notin BadNames

(* The checks mq_open and mq_unlink make before taking the lock          *)
(* (lines 241-254, 457-460): "none" when there is nothing to refuse.     *)
EarlyError(c) ==
  CASE c.op = "open" /\ ~ValidateName(c.name) -> "EINVAL"
    [] c.op = "open" /\ c.attr = "negative"   -> "EINVAL"
    [] c.op = "unlink" /\ ~ValidateName(c.name) -> "ENAMETOOLONG"
    [] OTHER                                  -> "none"

(* After mq_check_init: return the early error or block on the lock.     *)
Enter(t, c) ==
  IF EarlyError(c) = "none"
  THEN pc' = [pc EXCEPT ![t] = "lock"] /\ UNCHANGED res
  ELSE Ret(t, EarlyError(c))

(* A call starts.  mq_timedsend and mq_timedreceive (and mq_send,        *)
(* mq_receive, lines 319-328) go straight to mut_lock without            *)
(* mq_check_init; the others first test `inited` (line 142).             *)
Begin(t, c) ==
  /\ pc[t] = "idle"
  /\ call' = [call EXCEPT ![t] = c]
  /\ \/ c.op \in {"send", "receive"} /\ pc' = [pc EXCEPT ![t] = "lock"]
                                      /\ UNCHANGED res
     \/ c.op \notin {"send", "receive"} /\ inited /\ Enter(t, c)
     \/ c.op \notin {"send", "receive"} /\ ~inited
                                      /\ pc' = [pc EXCEPT ![t] = "init"]
                                      /\ UNCHANGED res
  /\ UNCHANGED <<regVars, mine, cur, tmo>>

(* The body of mq_check_init (lines 144-146), run by a task that saw     *)
(* `inited` = 0: the list is emptied and the lock made free, whoever     *)
(* holds it.                                                             *)
MqCheckInit(t) ==
  /\ pc[t] = "init"
  /\ allq' = {}
  /\ mux' = NONE
  /\ inited' = TRUE
  /\ Enter(t, call[t])
  /\ UNCHANGED <<nq, live, qname, qopen, qpend, qnb, qn, call, mine, cur, tmo>>

(* mut_lock(&allq_mux, WAIT): blocks until the lock is free.            *)
Acquire(t) ==
  /\ pc[t] = "lock"
  /\ mux = NONE
  /\ mux' = t
  /\ pc' = [pc EXCEPT ![t] = "cs"]
  /\ UNCHANGED <<inited, allq, nq, live, qname, qopen, qpend, qnb, qn,
                 call, res, mine, cur, tmo>>

(* The queues on the list named n: mq_find_locked (lines 161-171).       *)
MqFind(n) == {q \in allq : qname[q] = n}

(* mq_extract_locked (lines 149-159): whether descriptor d is listed.    *)
MqExtract(d) == d \in allq
-----------------------------------------------------------------------------
(* The locked section of mq_open (lines 258-312).  An existing queue is  *)
(* refused with O_CREAT|O_EXCL or gets one more open descriptor.  A new  *)
(* one is allocated, cleared and named, but never put on allq (line 304 *)
(* only initializes its link), and open_count stays 0 (line 305).  When  *)
(* an allocation fails the code jumps to `out` past mut_unlock (lines    *)
(* 285-300), leaving the lock held; a failed buffer allocation also      *)
(* leaves the queue object allocated.  The allocator runs dry after      *)
(* MaxQueues objects.                                                    *)
OpenLocked(t) ==
  LET c == call[t]
      excl == {"CREAT", "EXCL"} \subseteq c.oflag
      q == nq + 1
  IN
  /\ pc[t] = "cs" /\ c.op = "open"
  /\ \/ /\ MqFind(c.name) # {} /\ excl
        /\ Ret(t, "EEXIST") /\ Unlock(t)
        /\ UNCHANGED <<qopen, nq, live, qname, qnb, qn, mine>>
     \/ \E e \in MqFind(c.name) :
        /\ ~excl /\ qopen[e] < MaxOpen
        /\ qopen' = [qopen EXCEPT ![e] = @ + 1]
        /\ Ret(t, e) /\ Unlock(t)
        /\ mine' = [mine EXCEPT ![t] = @ \cup {e}]
        /\ UNCHANGED <<nq, live, qname, qnb, qn>>
     \/ /\ MqFind(c.name) = {} /\ "CREAT" \notin c.oflag
        /\ Ret(t, "ENOENT") /\ Unlock(t)
        /\ UNCHANGED <<qopen, nq, live, qname, qnb, qn, mine>>
     \/ /\ MqFind(c.name) = {} /\ "CREAT" \in c.oflag
        /\ "no_mq" \in Outcomes \/ nq = MaxQueues
        /\ Ret(t, "ENOENT")
        /\ UNCHANGED <<mux, qopen, nq, live, qname, qnb, qn, mine>>
     \/ /\ MqFind(c.name) = {} /\ "CREAT" \in c.oflag
        /\ "no_buf" \in Outcomes /\ nq < MaxQueues
        /\ nq' = q /\ live' = live \cup {q}
        /\ Ret(t, "ENOENT")
        /\ UNCHANGED <<mux, qopen, qname, qnb, qn, mine>>
     \/ /\ MqFind(c.name) = {} /\ "CREAT" \in c.oflag
        /\ "ok" \in Outcomes /\ nq < MaxQueues
        /\ nq' = q /\ live' = live \cup {q}
        /\ qname' = [qname EXCEPT ![q] = c.name]
        /\ qopen' = [qopen EXCEPT ![q] = 0]
        /\ qnb' = [qnb EXCEPT ![q] = "NONBLOCK" \in c.oflag]
        /\ qn' = [qn EXCEPT ![q] = 0]
        /\ Ret(t, q) /\ Unlock(t)
        /\ mine' = [mine EXCEPT ![t] = @ \cup {q}]
  /\ UNCHANGED <<inited, allq, qpend, call, cur, tmo>>

(* The locked section of mq_close (lines 185-202): the open count is     *)
(* decremented if positive; at 0 a queue already marked for unlinking is *)
(* taken off the list and freed after the unlock, otherwise it is marked *)
(* (pending_unlink is set by a close too).                               *)
CloseLocked(t) ==
  LET d == call[t].desc IN
  /\ pc[t] = "cs" /\ call[t].op = "close"
  /\ \/ /\ ~MqExtract(d)
        /\ Ret(t, "EBADF")
        /\ UNCHANGED <<allq, qopen, qpend, cur>>
     \/ LET oc == IF qopen[d] > 0 THEN qopen[d] - 1 ELSE 0 IN
        /\ MqExtract(d)
        /\ qopen' = [qopen EXCEPT ![d] = oc]
        /\ \/ /\ oc = 0 /\ qpend[d]
              /\ allq' = allq \ {d}
              /\ cur' = [cur EXCEPT ![t] = d]
              /\ pc' = [pc EXCEPT ![t] = "free"]
              /\ UNCHANGED <<res, qpend>>
           \/ /\ oc = 0 /\ ~qpend[d]
              /\ qpend' = [qpend EXCEPT ![d] = TRUE]
              /\ Ret(t, "OK")
              /\ UNCHANGED <<allq, cur>>
           \/ /\ oc > 0
              /\ Ret(t, "OK")
              /\ UNCHANGED <<allq, qpend, cur>>
  /\ Unlock(t)
  /\ UNCHANGED <<inited, nq, live, qname, qnb, qn, call, mine, tmo>>

(* mq_getattr (lines 213-225): reads the queue under the lock.           *)
GetattrLocked(t) ==
  /\ pc[t] = "cs" /\ call[t].op = "getattr"
  /\ Ret(t, IF MqExtract(call[t].desc) THEN "OK" ELSE "EBADF")
  /\ Unlock(t)
  /\ UNCHANGED <<inited, allq, nq, live, qname, qopen, qpend, qnb, qn,
                 call, mine, cur, tmo>>

(* The locked section of mq_unlink (lines 463-483): a queue with no open *)
(* descriptor is taken off the list and freed after the unlock; one with *)
(* open descriptors is marked for mq_close to free.                      *)
UnlinkLocked(t) ==
  LET n == call[t].name IN
  /\ pc[t] = "cs" /\ call[t].op = "unlink"
  /\ \/ /\ MqFind(n) = {}
        /\ Ret(t, "ENOENT")
        /\ UNCHANGED <<allq, qpend, cur>>
     \/ \E q \in MqFind(n) :
        \/ /\ qopen[q] = 0
           /\ allq' = allq \ {q}
           /\ cur' = [cur EXCEPT ![t] = q]
           /\ pc' = [pc EXCEPT ![t] = "free"]
           /\ UNCHANGED <<res, qpend>>
        \/ /\ qopen[q] > 0
           /\ qpend' = [qpend EXCEPT ![q] = TRUE]
           /\ Ret(t, "OK")
           /\ UNCHANGED <<allq, cur>>
  /\ Unlock(t)
  /\ UNCHANGED <<inited, nq, live, qname, qopen, qnb, qn, call, mine, tmo>>

(* mq_free after the unlock (lines 203-205, 486-488, 173-177).           *)
MqFree(t) ==
  /\ pc[t] = "free"
  /\ live' = live \ {cur[t]}
  /\ Ret(t, "OK")
  /\ UNCHANGED <<inited, mux, allq, nq, qname, qopen, qpend, qnb, qn,
                 call, mine, cur, tmo>>
-----------------------------------------------------------------------------
(* get_tick_timeout (lines 71-106): 0 ticks on a non-blocking queue,     *)
(* WAIT without abstime, else the converted deadline or its error.       *)
GetTickTimeout(nb, dl) ==
  IF nb THEN "zero"
  ELSE CASE dl = "none"    -> "forever"
         [] dl = "invalid" -> "EINVAL"
         [] dl = "past"    -> "ETIMEDOUT"
         [] dl = "now"     -> "zero"
         [] dl = "future"  -> "finite"

(* The error the locked checks of mq_timedsend and mq_timedreceive find, *)
(* later checks overriding errno of earlier ones (lines 341-367 and      *)
(* 403-429), or "none".                                                  *)
XferError(c) ==
  CASE c.buf = "misaligned"  -> "EINVAL"
    [] ~MqExtract(c.desc)    -> "EBADF"
    [] c.buf = "badlen"      -> "EMSGSIZE"
    [] GetTickTimeout(qnb[c.desc], c.dl) \in {"EINVAL", "ETIMEDOUT"}
                             -> GetTickTimeout(qnb[c.desc], c.dl)
    [] OTHER                 -> "none"

(* The locked section of mq_timedsend and mq_timedreceive: the checks,   *)
(* then mut_unlock, keeping the queue pointer and timeout for mq_put or  *)
(* mq_get after the unlock.                                              *)
XferLocked(t) ==
  LET c == call[t] IN
  /\ pc[t] = "cs" /\ c.op \in {"send", "receive"}
  /\ \/ /\ XferError(c) # "none"
        /\ Ret(t, XferError(c))
        /\ UNCHANGED <<cur, tmo>>
     \/ /\ XferError(c) = "none"
        /\ pc' = [pc EXCEPT ![t] = IF c.op = "send" THEN "put" ELSE "get"]
        /\ cur' = [cur EXCEPT ![t] = c.desc]
        /\ tmo' = [tmo EXCEPT ![t] = GetTickTimeout(qnb[c.desc], c.dl)]
        /\ UNCHANGED res
  /\ Unlock(t)
  /\ UNCHANGED <<inited, allq, nq, live, qname, qopen, qpend, qnb, qn,
                 call, mine>>

(* The error of a failed mq_put or mq_get (lines 373-380, 435-442).      *)
XferFail(q) == IF qnb[q] THEN "EAGAIN" ELSE "ETIMEDOUT"

(* mq_put after the unlock (lines 432-446): a message goes in when there *)
(* is room; a full queue fails at once for 0 ticks, may time out for a   *)
(* finite count, and blocks for WAIT.                                    *)
MqPut(t) ==
  LET q == cur[t] IN
  /\ pc[t] = "put"
  /\ \/ qn[q] < QueueDepth /\ qn' = [qn EXCEPT ![q] = @ + 1] /\ Ret(t, "OK")
     \/ qn[q] = QueueDepth /\ tmo[t] # "forever" /\ Ret(t, XferFail(q))
                           /\ UNCHANGED qn
  /\ UNCHANGED <<inited, mux, allq, nq, live, qname, qopen, qpend, qnb,
                 call, mine, cur, tmo>>

(* mq_get after the unlock (lines 370-387): the receive returns the      *)
(* message size when there is a message.                                 *)
MqGet(t) ==
  LET q == cur[t] IN
  /\ pc[t] = "get"
  /\ \/ qn[q] > 0 /\ qn' = [qn EXCEPT ![q] = @ - 1] /\ Ret(t, "OK")
     \/ qn[q] = 0 /\ tmo[t] # "forever" /\ Ret(t, XferFail(q)) /\ UNCHANGED qn
  /\ UNCHANGED <<inited, mux, allq, nq, live, qname, qopen, qpend, qnb,
                 call, mine, cur, tmo>>

Init ==
  /\ inited = FALSE
  /\ mux = NONE
  /\ allq = {}
  /\ nq = 0
  /\ live = {}
  /\ qname = [q \in Ids |-> NONE]
  /\ qopen = [q \in Ids |-> 0]
  /\ qpend = [q \in Ids |-> FALSE]
  /\ qnb = [q \in Ids |-> FALSE]
  /\ qn = [q \in Ids |-> 0]
  /\ pc = [t \in Tasks |-> "idle"]
  /\ call = [t \in Tasks |-> [op |-> "none"]]
  /\ res = [t \in Tasks |-> "OK"]
  /\ mine = [t \in Tasks |-> {}]
  /\ cur = [t \in Tasks |-> BADQ]
  /\ tmo = [t \in Tasks |-> "forever"]

Next ==
  \E t \in Tasks :
    \/ \E c \in Calls(t) : Begin(t, c)
    \/ MqCheckInit(t)
    \/ Acquire(t)
    \/ OpenLocked(t)
    \/ CloseLocked(t)
    \/ GetattrLocked(t)
    \/ UnlinkLocked(t)
    \/ XferLocked(t)
    \/ MqFree(t)
    \/ MqPut(t)
    \/ MqGet(t)

Spec == Init /\ [][Next]_vars

-----------------------------------------------------------------------------
TypeOK ==
  /\ inited \in BOOLEAN
  /\ mux \in Tasks \cup {NONE}
  /\ allq \subseteq Ids /\ live \subseteq Ids /\ nq \in 0..MaxQueues
  /\ qname \in [Ids -> Names \cup {NONE}]
  /\ qopen \in [Ids -> 0..MaxOpen]
  /\ qpend \in [Ids -> BOOLEAN]
  /\ qnb \in [Ids -> BOOLEAN]
  /\ qn \in [Ids -> 0..QueueDepth]
  /\ pc \in [Tasks -> {"idle", "init", "lock", "cs", "free", "put", "get"}]
  /\ mine \in [Tasks -> SUBSET Ids]
  /\ cur \in [Tasks -> Ids \cup {BADQ}]
  /\ tmo \in [Tasks -> {"zero", "finite", "forever"}]

(* allq_mux serialises every use of the registry list: at most one task  *)
(* is between its mut_lock(&allq_mux) and mut_unlock (mq_close,          *)
(* mq_getattr, mq_open, mq_timedreceive, mq_timedsend, mq_unlink), even  *)
(* while tasks make their first calls concurrently and mq_check_init     *)
(* (lines 140-147) runs.                                                 *)
RegistryExclusion ==
  \A t, u \in Tasks : (pc[t] = "cs" /\ pc[u] = "cs") => t = u
=============================================================================
