----------------------- MODULE GroupCommitLockProofs -----------------------
(***************************************************************************)
(* What the methods of group_commit_lock do to the locks and to the        *)
(* threads, as lemmas for the proofs about its clients.                    *)
(***************************************************************************)
EXTENDS GroupCommitLock, TLAPS

USE DEF gclVars, lockVars, threadVars

(* A call of acquire() keeps the types.                                    *)
LEMMA AcquireCallType ==
  ASSUME GclTypeOK, NEW t \in Threads, NEW l \in Locks, NEW n \in Nat,
         NEW c \in CallbackArg, AcquireCall(t, l, n, c)
  PROVE  GclTypeOK'
<1> USE DEF Return, ReturnExpired, AfterCallback, GclTypeOK, MethodPc,
            ReturnCode, CallbackArg
<1>1. CASE AcquireFast(t, l, n, c)
  BY <1>1 DEF AcquireFast
<1>2. CASE AcquireSlow(t, l, n, c)
  BY <1>2 DEF AcquireSlow
<1> QED
  BY <1>1, <1>2 DEF AcquireCall

(* A call of acquire() touches only its own thread, and an EXPIRED on the  *)
(* fast path means that the value has reached the request.                 *)
AcquireEffect(t, l, n, c) ==
  /\ on' = [on EXCEPT ![t] = l]
  /\ num' = [num EXCEPT ![t] = n]
  /\ cb' = [cb EXCEPT ![t] = c]
  /\ UNCHANGED <<m_value, m_pending_value, m_lock, m_pending_callbacks, torun>>
  /\ \A u \in Threads \ {t} : pc'[u] = pc[u] /\ rc'[u] = rc[u]
  /\ rc'[t].left \in {0, rc[t].left}
  /\ \/ pc'[t] = "loop" /\ fired' = fired
     \/ /\ n <= m_value[l]
        /\ pc'[t] = "out"
        /\ rc'[t].code = "EXPIRED"
        /\ fired' = AfterCallback({c})

LEMMA AcquireCallEffect ==
  ASSUME GclTypeOK, NEW t \in Threads, NEW l \in Locks, NEW n \in Nat,
         NEW c \in CallbackArg, AcquireCall(t, l, n, c)
  PROVE  AcquireEffect(t, l, n, c)
<1> USE DEF Return, ReturnExpired, GclTypeOK, ReturnCode, AcquireEffect
<1>1. CASE AcquireFast(t, l, n, c)
  BY <1>1 DEF AcquireFast
<1>2. CASE AcquireSlow(t, l, n, c)
  BY <1>2 DEF AcquireSlow
<1> QED
  BY <1>1, <1>2 DEF AcquireCall

(* The callbacks that a step runs.                                         *)
RanNow == {c \in Callbacks : fired'[c] # fired[c]}

LEMMA RanAfter ==
  ASSUME NEW S, fired' = AfterCallback(S)
  PROVE  RanNow \subseteq S
  BY DEF RanNow, AfterCallback

(* Where the callbacks up to n go: each runs at once or is kept to be run. *)
ReleaseTakes(t, l, n) ==
  LET ready == {p \in m_pending_callbacks[l] : p.num <= n}
  IN  /\ m_pending_callbacks' =
           [m_pending_callbacks EXCEPT ![l] = m_pending_callbacks[l] \ ready]
      /\ \E later \in SUBSET ready :
           /\ torun' = [torun EXCEPT ![t] = {p.cb : p \in later}]
           /\ fired' = AfterCallback({p.cb : p \in ready \ later})

(* What release(n) leaves behind: the value is n, callbacks up to n have   *)
(* run or are about to, and a position it returns belongs to a callback    *)
(* that is still queued.                                                   *)
ReleaseEffect(t, l, n) ==
  /\ m_lock' = [m_lock EXCEPT ![l] = FALSE]
  /\ m_value' = [m_value EXCEPT ![l] = n]
  /\ on' = [on EXCEPT ![t] = l]
  /\ UNCHANGED <<m_pending_value, pc, num, cb>>
  /\ \A k \in Locks : m_pending_callbacks'[k] \subseteq m_pending_callbacks[k]
  /\ \A u \in Threads \ {t} : rc'[u] = rc[u] /\ torun'[u] = torun[u]
  /\ rc'[t].code = "RELEASED"
  /\ rc'[t].left # 0 =>
       \E p \in m_pending_callbacks[l] : p.num > n /\ p.num = rc'[t].left
  /\ \A c \in torun'[t] \cup RanNow :
       \E p \in m_pending_callbacks[l] : p.num <= n /\ p.cb = c
  /\ ReleaseTakes(t, l, n)

LEMMA ReleaseCallEffect ==
  ASSUME GclTypeOK, NEW t \in Threads, NEW l \in Locks, NEW n \in Nat,
         Release(t, l, n)
  PROVE  GclTypeOK' /\ ReleaseEffect(t, l, n)
<1> DEFINE expired == {u \in m_waiters_list[l] : num[u] <= n}
           staying == m_waiters_list[l] \ expired
           ready   == {p \in m_pending_callbacks[l] : p.num <= n}
           behind  == m_pending_callbacks[l] \ ready
           heirs   == IF staying # {} THEN staying
                      ELSE IF behind # {} THEN expired ELSE {}
<1>1. /\ m_lock' = [m_lock EXCEPT ![l] = FALSE]
      /\ m_value' = [m_value EXCEPT ![l] = n]
      /\ m_pending_callbacks' = [m_pending_callbacks EXCEPT ![l] = behind]
      /\ on' = [on EXCEPT ![t] = l]
      /\ UNCHANGED <<m_pending_value, sema, pc, num, cb>>
  BY DEF Release
<1>2. PICK later \in SUBSET ready :
        /\ torun' = [torun EXCEPT ![t] = {p.cb : p \in later}]
        /\ fired' = AfterCallback({p.cb : p \in ready \ later})
  BY DEF Release
<1>3. PICK k \in Nat :
        /\ rc' = [rc EXCEPT ![t] = [code |-> "RELEASED", left |-> k]]
        /\ k # 0 => \E p \in behind : p.num = k
  BY DEF Release, Released, GclTypeOK, PendingCb
<1>4. ready \subseteq PendingCb /\ behind \subseteq PendingCb
  BY DEF GclTypeOK
<1>5. /\ m_value' \in [Locks -> Nat] /\ m_pending_value' \in [Locks -> Nat]
      /\ m_lock' \in [Locks -> BOOLEAN]
      /\ m_pending_callbacks' \in [Locks -> SUBSET PendingCb]
      /\ sema' \in [Threads -> BOOLEAN] /\ pc' \in [Threads -> MethodPc]
      /\ on' \in [Threads -> Locks] /\ num' \in [Threads -> Nat]
      /\ cb' \in [Threads -> CallbackArg]
      /\ rc' \in [Threads -> ReturnCode]
  BY <1>1, <1>3, <1>4 DEF GclTypeOK, ReturnCode
<1>6. /\ torun' \in [Threads -> SUBSET (Callbacks \cup {Dummy})]
      /\ fired' \in [Callbacks -> Nat]
  BY <1>2, <1>4 DEF GclTypeOK, PendingCb, AfterCallback
<1>7. /\ leader' \in [Threads -> BOOLEAN]
      /\ first' \in [Threads -> Threads \cup {NoThread}]
      /\ wakeup' \in [Threads -> SUBSET Threads]
      /\ m_waiters_list' \in [Locks -> SUBSET Threads]
  <2>1. expired \subseteq Threads /\ staying \subseteq Threads
        /\ heirs \subseteq Threads
    BY DEF GclTypeOK
  <2>2. CASE \E e \in heirs :
               /\ leader' = [leader EXCEPT ![e] = TRUE]
               /\ first' = [first EXCEPT ![t] = e]
               /\ wakeup' = [wakeup EXCEPT ![t] = expired \ {e}]
               /\ m_waiters_list' = [m_waiters_list EXCEPT ![l] = staying \ {e}]
    <3> HIDE DEF expired, staying, heirs
    <3> QED
      BY <2>1, <2>2 DEF GclTypeOK
  <2>3. CASE /\ wakeup' = [wakeup EXCEPT ![t] = expired]
             /\ m_waiters_list' = [m_waiters_list EXCEPT ![l] = {}]
             /\ UNCHANGED <<leader, first>>
    <3> HIDE DEF expired
    <3> QED
      BY <2>1, <2>3 DEF GclTypeOK
  <2> QED
    BY <2>2, <2>3 DEF Release
<1>8. GclTypeOK'
  BY <1>5, <1>6, <1>7 DEF GclTypeOK
<1>9. rc'[t] = [code |-> "RELEASED", left |-> k]
  BY <1>3 DEF GclTypeOK
<1>10. k # 0 => \E p \in m_pending_callbacks[l] : p.num > n /\ p.num = k
  BY <1>3, <1>4 DEF PendingCb
<1>11. \A c \in torun'[t] \cup RanNow :
         \E p \in m_pending_callbacks[l] : p.num <= n /\ p.cb = c
  BY <1>2 DEF GclTypeOK, AfterCallback, RanNow
<1>12. \A u \in Threads \ {t} : rc'[u] = rc[u] /\ torun'[u] = torun[u]
  BY <1>2, <1>3 DEF GclTypeOK
<1>13. \A j \in Locks : m_pending_callbacks'[j] \subseteq m_pending_callbacks[j]
  BY <1>1 DEF GclTypeOK
<1>14. ReleaseTakes(t, l, n)
  BY <1>1, <1>2 DEF ReleaseTakes
<1> QED
  BY <1>1, <1>8, <1>9, <1>10, <1>11, <1>12, <1>13, <1>14 DEF ReleaseEffect

(* The steps inside the methods keep the types.                            *)
LEMMA MethodType ==
  ASSUME GclTypeOK, NEW t \in Threads, MethodStep(t)
  PROVE  GclTypeOK'
<1> USE DEF Return, ReturnExpired, AfterCallback, QueueCallback, GclTypeOK,
            MethodPc, ReturnCode, CallbackArg, PendingCb
<1>1. CASE AcquireLoop(t)
  BY <1>1 DEF AcquireLoop
<1>2. CASE AcquireLoopEnd(t)
  BY <1>2 DEF AcquireLoopEnd
<1>3. CASE AcquireExpired(t)
  BY <1>3 DEF AcquireExpired
<1>4. CASE AcquireLock(t)
  BY <1>4 DEF AcquireLock
<1>5. CASE AcquireQueueCallback(t)
  BY <1>5 DEF AcquireQueueCallback
<1>6. CASE AcquireWait(t)
  BY <1>6 DEF AcquireWait
<1>7. CASE SemaWait(t)
  BY <1>7 DEF SemaWait
<1>8. CASE WakeLeader(t)
  BY <1>8 DEF WakeLeader
<1>9. CASE RunCallback(t)
  BY <1>9 DEF RunCallback
<1>10. CASE WakeWaiter(t)
  BY <1>10 DEF WakeWaiter
<1> QED
  BY <1>1, <1>2, <1>3, <1>4, <1>5, <1>6, <1>7, <1>8, <1>9, <1>10
     DEF MethodStep

(* Thread t goes on inside acquire(): nothing shared changes.              *)
Waits(t) ==
  /\ pc'[t] # "out" /\ rc'[t] = rc[t] /\ fired' = fired
  /\ UNCHANGED <<m_lock, m_pending_callbacks>>

Expires(t) ==
  /\ pc'[t] = "out" /\ rc'[t] = [code |-> "EXPIRED", left |-> 0]
  /\ num[t] <= m_value[on[t]]
  /\ fired' = AfterCallback({cb[t]})
  /\ UNCHANGED <<m_lock, m_pending_callbacks>>

Acquires(t) ==
  /\ pc'[t] = "out" /\ rc'[t] = [code |-> "ACQUIRED", left |-> 0]
  /\ ~m_lock[on[t]] /\ m_lock' = [m_lock EXCEPT ![on[t]] = TRUE]
  /\ QueueCallback(t) /\ fired' = fired

Queues(t) ==
  /\ pc'[t] = "out" /\ rc'[t] = [code |-> "CALLBACK_QUEUED", left |-> 0]
  /\ cb[t] # NoCallback
  /\ QueueCallback(t) /\ fired' = fired /\ m_lock' = m_lock

(* A step inside a method: release() only wakes threads and runs callbacks *)
(* it had taken; acquire() goes on, or returns in one of three ways.       *)
Wakes(t) ==
  /\ pc'[t] = pc[t] /\ rc'[t] = rc[t]
  /\ UNCHANGED <<m_lock, m_pending_callbacks>>
  /\ \/ torun' = torun /\ fired' = fired
     \/ \E c \in torun[t] : /\ torun' = [torun EXCEPT ![t] = @ \ {c}]
                            /\ fired' = AfterCallback({c})

MethodEffect(t) ==
  /\ UNCHANGED <<m_value, m_pending_value, on, num, cb>>
  /\ \A u \in Threads \ {t} :
       pc'[u] = pc[u] /\ rc'[u] = rc[u] /\ torun'[u] = torun[u]
  /\ torun'[t] \subseteq torun[t]
  /\ \A u \in Threads : rc'[u].left \in {0, rc[u].left}
  /\ \/ Wakes(t)
     \/ /\ pc[t] # "out" /\ torun' = torun
        /\ Waits(t) \/ Expires(t) \/ Acquires(t) \/ Queues(t)

LEMMA MethodStepEffect ==
  ASSUME GclTypeOK, NEW t \in Threads, MethodStep(t)
  PROVE  MethodEffect(t)
<1> USE DEF Return, ReturnExpired, GclTypeOK, MethodPc,
            ReturnCode, MethodEffect, Wakes, Waits, Expires, Acquires, Queues
<1>1. CASE AcquireLoop(t)
  BY <1>1 DEF AcquireLoop
<1>2. CASE AcquireLoopEnd(t)
  BY <1>2 DEF AcquireLoopEnd
<1>3. CASE AcquireExpired(t)
  BY <1>3 DEF AcquireExpired
<1>4. CASE AcquireLock(t)
  BY <1>4 DEF AcquireLock
<1>5. CASE AcquireQueueCallback(t)
  BY <1>5 DEF AcquireQueueCallback, MayQueue
<1>6. CASE AcquireWait(t)
  BY <1>6 DEF AcquireWait
<1>7. CASE SemaWait(t)
  BY <1>7 DEF SemaWait
<1>8. CASE WakeLeader(t)
  BY <1>8 DEF WakeLeader
<1>9. CASE RunCallback(t)
  <2>1. PICK c \in torun[t] :
          torun' = [torun EXCEPT ![t] = @ \ {c}] /\ fired' = AfterCallback({c})
    BY <1>9 DEF RunCallback
  <2>2. Wakes(t)
    BY <1>9, <2>1 DEF RunCallback
  <2>3. /\ UNCHANGED <<m_value, m_pending_value, on, num, cb, pc, rc>>
        /\ \A u \in Threads \ {t} : torun'[u] = torun[u]
        /\ torun'[t] \subseteq torun[t]
    BY <1>9, <2>1 DEF RunCallback
  <2> HIDE DEF Wakes
  <2> QED
    BY <2>2, <2>3
<1>10. CASE WakeWaiter(t)
  BY <1>10 DEF WakeWaiter
<1> QED
  BY <1>1, <1>2, <1>3, <1>4, <1>5, <1>6, <1>7, <1>8, <1>9, <1>10
     DEF MethodStep
=============================================================================
