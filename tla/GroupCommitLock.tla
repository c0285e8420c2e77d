-------------------------- MODULE GroupCommitLock --------------------------
(***************************************************************************)
(* The group_commit_lock of InnoDB (storage/innobase/log/log0sync.cc): a   *)
(* lock with a monotone value.  acquire(num) either makes the caller the   *)
(* owner (ACQUIRED), or returns once the value has reached num (EXPIRED),  *)
(* or, for a caller with a completion callback, queues the callback        *)
(* (CALLBACK_QUEUED).  release(num) raises the value, wakes every waiter   *)
(* whose request is satisfied, and hands leadership to one more waiter.    *)
(*                                                                         *)
(* Each critical section of m_mtx is one action: the only shared word it   *)
(* reads that others write outside the mutex is m_pending_value, and it    *)
(* reads that at most once.  Steps outside the mutex are actions of their  *)
(* own.  The waiters' list and the callback vector are sets: the code      *)
(* serves their first element, here any element may be served.             *)
(***************************************************************************)
EXTENDS Naturals, FiniteSets

CONSTANTS
  Threads,      \* threads that call acquire() and release()
  Locks,        \* the group_commit_lock objects
  Callbacks,    \* completion callbacks that may be queued
  NoCallback,   \* callback == nullptr
  Dummy,        \* dummy_callback, a callback without effect
  NoThread,     \* a null group_commit_waiter_t pointer
  CallbackSlots \* array_elements(callbacks) in release()

ASSUME GroupCommitAssumption ==
  /\ NoCallback \notin Callbacks
  /\ Dummy \notin Callbacks /\ Dummy # NoCallback
  /\ NoThread \notin Threads
  /\ CallbackSlots \in Nat

VARIABLES
  m_value,              \* per lock: the current value
  m_pending_value,      \* per lock: the value the owner is working towards
  m_lock,               \* per lock: is it owned?
  m_waiters_list,       \* per lock: the threads in the waiters' list
  m_pending_callbacks,  \* per lock: queued {num, callback} pairs
  leader,               \* per thread: thread_local_waiter.m_group_commit_leader
  sema,                 \* per thread: thread_local_waiter.m_sema is signalled
  pc,                   \* per thread: where it is inside a method of the lock
  on,                   \* per thread: the lock whose method it is in
  num,                  \* per thread: argument num (thread_local_waiter.m_value)
  cb,                   \* per thread: argument callback
  rc,                   \* per thread: what the last call returned
  wakeup,               \* per thread: release()'s local wakeup_list
  first,                \* per thread: the designated leader at its front
  torun,                \* per thread: release()'s local callbacks[]
  fired                 \* per callback: how often it has run

lockVars   == <<m_value, m_pending_value, m_lock, m_waiters_list,
                m_pending_callbacks>>
threadVars == <<leader, sema, pc, on, num, cb, rc, wakeup, first, torun>>
gclVars    == <<lockVars, threadVars, fired>>

CallbackArg == Callbacks \cup {Dummy, NoCallback}
PendingCb == [num : Nat, cb : Callbacks \cup {Dummy}]
MethodPc  == {"out", "loop", "mutex", "sleep"}
ReturnCode == [code : {"none", "ACQUIRED", "EXPIRED", "CALLBACK_QUEUED",
                       "RELEASED"},
               left : Nat]

(* The type of the locks' state and of the threads inside their methods.   *)
GclTypeOK ==
  /\ m_value \in [Locks -> Nat] /\ m_pending_value \in [Locks -> Nat]
  /\ m_lock \in [Locks -> BOOLEAN]
  /\ m_waiters_list \in [Locks -> SUBSET Threads]
  /\ m_pending_callbacks \in [Locks -> SUBSET PendingCb]
  /\ leader \in [Threads -> BOOLEAN] /\ sema \in [Threads -> BOOLEAN]
  /\ pc \in [Threads -> MethodPc] /\ on \in [Threads -> Locks]
  /\ num \in [Threads -> Nat] /\ cb \in [Threads -> CallbackArg]
  /\ rc \in [Threads -> ReturnCode]
  /\ wakeup \in [Threads -> SUBSET Threads]
  /\ first \in [Threads -> Threads \cup {NoThread}]
  /\ torun \in [Threads -> SUBSET (Callbacks \cup {Dummy})]
  /\ fired \in [Callbacks -> Nat]

GclInit ==
  /\ m_value             = [l \in Locks |-> 0]
  /\ m_pending_value     = [l \in Locks |-> 0]
  /\ m_lock              = [l \in Locks |-> FALSE]
  /\ m_waiters_list      = [l \in Locks |-> {}]
  /\ m_pending_callbacks = [l \in Locks |-> {}]
  /\ leader = [t \in Threads |-> FALSE]
  /\ sema   = [t \in Threads |-> FALSE]
  /\ pc     = [t \in Threads |-> "out"]
  /\ on     = [t \in Threads |-> CHOOSE l \in Locks : TRUE]
  /\ num    = [t \in Threads |-> 0]
  /\ cb     = [t \in Threads |-> NoCallback]
  /\ rc     = [t \in Threads |-> [code |-> "none", left |-> 0]]
  /\ wakeup = [t \in Threads |-> {}]
  /\ first  = [t \in Threads |-> NoThread]
  /\ torun  = [t \in Threads |-> {}]
  /\ fired  = [c \in Callbacks |-> 0]
----------------------------------------------------------------------------
(* A call that returns: pc goes back to the caller with a return code.     *)
Return(t, code) ==
  /\ pc' = [pc EXCEPT ![t] = "out"]
  /\ rc' = [rc EXCEPT ![t] = [code |-> code, left |-> 0]]

(* Mutant: no test for a null callback.                                    *)
AfterCallbackUnchecked(cs) ==
  [c \in Callbacks \cup cs |->
     (IF c \in Callbacks THEN fired[c] ELSE 0) + (IF c \in cs THEN 1 ELSE 0)]

(* The callbacks cs run, each once more: the dummy one does nothing.       *)
AfterCallback(cs) ==
  [c \in Callbacks |-> IF c \in cs THEN fired[c] + 1 ELSE fired[c]]

(* do_completion_callback(c) followed by return EXPIRED.                   *)
ReturnExpired(t, c) ==
  /\ Return(t, "EXPIRED")
  /\ fired' = AfterCallback({c})

(* Thread t is in no method: it has returned from acquire(), or from a     *)
(* release() that has nothing left to wake or to run.                      *)
Outside(t) ==
  /\ pc[t] = "out"
  /\ first[t] = NoThread /\ torun[t] = {} /\ wakeup[t] = {}

(* A caller enters acquire(n, c) on lock l.  The fast path: the value has  *)
(* reached n.  Spinning (MAX_SPINS) evaluates the same test again without  *)
(* changing any state, so it is a delay of this step.                      *)
AcquireFast(t, l, n, c) ==
  /\ Outside(t)
  /\ n <= m_value[l]
  /\ on'  = [on EXCEPT ![t] = l]
  /\ num' = [num EXCEPT ![t] = n]
  /\ cb'  = [cb EXCEPT ![t] = c]
  /\ ReturnExpired(t, c)
  /\ UNCHANGED <<lockVars, leader, sema, wakeup, first, torun>>

AcquireSlow(t, l, n, c) ==
  /\ Outside(t)
  /\ n > m_value[l]
  /\ on'  = [on EXCEPT ![t] = l]
  /\ num' = [num EXCEPT ![t] = n]
  /\ cb'  = [cb EXCEPT ![t] = c]
  /\ leader' = [leader EXCEPT ![t] = FALSE]
  /\ pc' = [pc EXCEPT ![t] = "loop"]
  /\ UNCHANGED <<lockVars, sema, rc, wakeup, first, torun, fired>>

AcquireCall(t, l, n, c) == AcquireFast(t, l, n, c) \/ AcquireSlow(t, l, n, c)

(* The condition of acquire()'s while loop, read without the mutex.        *)
AcquireLoop(t) ==
  /\ pc[t] = "loop"
  /\ num[t] > m_value[on[t]] \/ leader[t]
  /\ pc' = [pc EXCEPT ![t] = "mutex"]
  /\ UNCHANGED <<lockVars, leader, sema, on, num, cb, rc, wakeup, first,
                 torun, fired>>

AcquireLoopEnd(t) ==
  /\ pc[t] = "loop"
  /\ ~(num[t] > m_value[on[t]] \/ leader[t])
  /\ ReturnExpired(t, cb[t])
  /\ UNCHANGED <<lockVars, leader, sema, on, num, cb, wakeup, first, torun>>

(* Under m_mtx: the value already covers num, and the caller is not the    *)
(* leader that pending callbacks rely on, or somebody else owns the lock.  *)
AcquireExpired(t) ==
  /\ pc[t] = "mutex"
  /\ num[t] <= m_value[on[t]] /\ (~leader[t] \/ m_lock[on[t]])
  /\ ReturnExpired(t, cb[t])
  /\ UNCHANGED <<lockVars, leader, sema, on, num, cb, wakeup, first, torun>>

(* Under m_mtx: queue the caller's own callback, if it has one.            *)
QueueCallback(t) ==
  m_pending_callbacks' =
    IF cb[t] = NoCallback THEN m_pending_callbacks
    ELSE [m_pending_callbacks EXCEPT ![on[t]] =
            @ \cup {[num |-> num[t], cb |-> cb[t]]}]

(* Mutant: the lock is taken whether or not it is free.                    *)
AcquireLockTaken(t) ==
  /\ pc[t] = "mutex"
  /\ num[t] > m_value[on[t]] \/ leader[t]
  /\ m_lock' = [m_lock EXCEPT ![on[t]] = TRUE]
  /\ QueueCallback(t)
  /\ Return(t, "ACQUIRED")
  /\ UNCHANGED <<m_value, m_pending_value, m_waiters_list, leader, sema, on,
                 num, cb, wakeup, first, torun, fired>>

(* Mutant: the new owner forgets its own callback.                         *)
AcquireLockForgets(t) ==
  /\ pc[t] = "mutex"
  /\ num[t] > m_value[on[t]] \/ leader[t]
  /\ ~m_lock[on[t]]
  /\ m_lock' = [m_lock EXCEPT ![on[t]] = TRUE]
  /\ Return(t, "ACQUIRED")
  /\ UNCHANGED <<m_value, m_pending_value, m_waiters_list,
                 m_pending_callbacks, leader, sema, on, num, cb, wakeup,
                 first, torun, fired>>

(* Under m_mtx: take the free lock, become group commit leader.            *)
AcquireLock(t) ==
  /\ pc[t] = "mutex"
  /\ ~(num[t] <= m_value[on[t]] /\ (~leader[t] \/ m_lock[on[t]]))
  /\ ~m_lock[on[t]]
  /\ m_lock' = [m_lock EXCEPT ![on[t]] = TRUE]
  /\ QueueCallback(t)
  /\ Return(t, "ACQUIRED")
  /\ UNCHANGED <<m_value, m_pending_value, m_waiters_list, leader, sema, on,
                 num, cb, wakeup, first, torun, fired>>

(* Under m_mtx: the lock is owned and somebody else will run the callback. *)
MayQueue(t) ==
  /\ cb[t] # NoCallback
  /\ m_waiters_list[on[t]] # {} \/ num[t] <= m_pending_value[on[t]]

(* Mutant: the caller queues its callback and goes on to wait itself.      *)
AcquireQueueAndWait(t) ==
  /\ pc[t] = "mutex"
  /\ num[t] > m_value[on[t]]
  /\ m_lock[on[t]]
  /\ MayQueue(t)
  /\ QueueCallback(t)
  /\ leader' = [leader EXCEPT ![t] = FALSE]
  /\ m_waiters_list' = [m_waiters_list EXCEPT ![on[t]] = @ \cup {t}]
  /\ pc' = [pc EXCEPT ![t] = "sleep"]
  /\ UNCHANGED <<m_value, m_pending_value, m_lock, sema, on, num, cb, rc,
                 wakeup, first, torun, fired>>

AcquireQueueCallback(t) ==
  /\ pc[t] = "mutex"
  /\ num[t] > m_value[on[t]]
  /\ m_lock[on[t]]
  /\ MayQueue(t)
  /\ QueueCallback(t)
  /\ Return(t, "CALLBACK_QUEUED")
  /\ UNCHANGED <<m_value, m_pending_value, m_lock, m_waiters_list, leader,
                 sema, on, num, cb, wakeup, first, torun, fired>>

(* Under m_mtx: add yourself to the waiters' list, then sleep.             *)
AcquireWait(t) ==
  /\ pc[t] = "mutex"
  /\ num[t] > m_value[on[t]]
  /\ m_lock[on[t]]
  /\ ~MayQueue(t)
  /\ leader' = [leader EXCEPT ![t] = FALSE]
  /\ m_waiters_list' = [m_waiters_list EXCEPT ![on[t]] = @ \cup {t}]
  /\ pc' = [pc EXCEPT ![t] = "sleep"]
  /\ UNCHANGED <<m_value, m_pending_value, m_lock, m_pending_callbacks, sema,
                 on, num, cb, rc, wakeup, first, torun, fired>>

(* Mutant: a woken waiter takes the wakeup for the answer.                 *)
SemaWaitTrusts(t) ==
  /\ pc[t] = "sleep"
  /\ sema[t]
  /\ sema' = [sema EXCEPT ![t] = FALSE]
  /\ ReturnExpired(t, cb[t])
  /\ UNCHANGED <<lockVars, leader, on, num, cb, wakeup, first, torun>>

(* binary_semaphore::wait(): consume the signal and re-test the loop.      *)
SemaWait(t) ==
  /\ pc[t] = "sleep"
  /\ sema[t]
  /\ sema' = [sema EXCEPT ![t] = FALSE]
  /\ pc' = [pc EXCEPT ![t] = "loop"]
  /\ UNCHANGED <<lockVars, leader, on, num, cb, rc, wakeup, first, torun,
                 fired>>
----------------------------------------------------------------------------
(* The callbacks release() copies to its local array: as many as fit.      *)
FitsSlots(later, ready) ==
  LET n == Cardinality(ready)
  IN  Cardinality(later) = IF n <= CallbackSlots THEN n ELSE CallbackSlots

Released(k) == [code |-> "RELEASED", left |-> k]

(* release(n) of lock l under m_mtx.  Waiters and callbacks up to n leave  *)
(* the lock; if others stay behind, one waiter is chosen as next leader,   *)
(* or, without any waiter, the caller learns that callbacks are left.      *)
(* Ready callbacks that do not fit into the local array run right here.    *)
Release(t, l, n) ==
  LET expired == {u \in m_waiters_list[l] : num[u] <= n}
      staying == m_waiters_list[l] \ expired
      ready   == {p \in m_pending_callbacks[l] : p.num <= n}
      behind  == m_pending_callbacks[l] \ ready
      heirs   == IF staying # {} THEN staying
                 ELSE IF behind # {} THEN expired ELSE {}
  IN
  /\ Outside(t)
  /\ m_lock' = [m_lock EXCEPT ![l] = FALSE]
  /\ m_value' = [m_value EXCEPT ![l] = n]
  /\ m_pending_callbacks' = [m_pending_callbacks EXCEPT ![l] = behind]
  /\ \E later \in SUBSET ready :
       /\ FitsSlots(later, ready)
       /\ torun' = [torun EXCEPT ![t] = {p.cb : p \in later}]
       /\ fired' = AfterCallback({p.cb : p \in ready \ later})
  /\ on' = [on EXCEPT ![t] = l]
  /\ \/ \E e \in heirs :
          /\ leader' = [leader EXCEPT ![e] = TRUE]
          /\ first' = [first EXCEPT ![t] = e]
          /\ wakeup' = [wakeup EXCEPT ![t] = expired \ {e}]
          /\ m_waiters_list' = [m_waiters_list EXCEPT ![l] = staying \ {e}]
          /\ rc' = [rc EXCEPT ![t] = Released(0)]
     \/ /\ heirs = {}
        /\ wakeup' = [wakeup EXCEPT ![t] = expired]
        /\ m_waiters_list' = [m_waiters_list EXCEPT ![l] = {}]
        /\ \E k \in IF behind = {} THEN {0} ELSE {p.num : p \in behind} :
             rc' = [rc EXCEPT ![t] = Released(k)]
        /\ UNCHANGED <<leader, first>>
  /\ UNCHANGED <<m_pending_value, sema, pc, num, cb>>

(* After lk.unlock(): the designated leader is woken before anything else. *)
WakeLeader(t) ==
  /\ first[t] # NoThread
  /\ sema' = [sema EXCEPT ![first[t]] = TRUE]
  /\ first' = [first EXCEPT ![t] = NoThread]
  /\ UNCHANGED <<lockVars, leader, pc, on, num, cb, rc, wakeup, torun, fired>>

(* Mutant: what has been run is not taken off the list.                    *)
RunCallbackAgain(t) ==
  /\ first[t] = NoThread
  /\ \E c \in torun[t] : fired' = AfterCallback({c})
  /\ UNCHANGED <<lockVars, leader, sema, pc, on, num, cb, rc, wakeup, first,
                 torun>>

RunCallback(t) ==
  /\ first[t] = NoThread
  /\ \E c \in torun[t] :
       /\ torun' = [torun EXCEPT ![t] = @ \ {c}]
       /\ fired' = AfterCallback({c})
  /\ UNCHANGED <<lockVars, leader, sema, pc, on, num, cb, rc, wakeup, first>>

(* Mutant: a waiter leaves the wakeup list without its signal.             *)
WakeWaiterLost(t) ==
  /\ first[t] = NoThread /\ torun[t] = {}
  /\ \E u \in wakeup[t] : wakeup' = [wakeup EXCEPT ![t] = @ \ {u}]
  /\ UNCHANGED <<lockVars, leader, sema, pc, on, num, cb, rc, first, torun,
                 fired>>

WakeWaiter(t) ==
  /\ first[t] = NoThread /\ torun[t] = {}
  /\ \E u \in wakeup[t] :
       /\ wakeup' = [wakeup EXCEPT ![t] = @ \ {u}]
       /\ sema' = [sema EXCEPT ![u] = TRUE]
  /\ UNCHANGED <<lockVars, leader, pc, on, num, cb, rc, first, torun, fired>>

(* The steps of a thread that is inside acquire() or release().            *)
MethodStep(t) ==
  \/ AcquireLoop(t) \/ AcquireLoopEnd(t) \/ AcquireExpired(t) \/ AcquireLock(t)
  \/ AcquireQueueCallback(t) \/ AcquireWait(t) \/ SemaWait(t)
  \/ WakeLeader(t) \/ RunCallback(t) \/ WakeWaiter(t)

(* set_pending() of lock l, called by its owner.                           *)
SetPending(l, n) == m_pending_value' = [m_pending_value EXCEPT ![l] = n]
=============================================================================
