---------------------------- MODULE LogWriteUpTo ----------------------------
(***************************************************************************)
(* The redo log writers of InnoDB (storage/innobase/log/log0log.cc): the   *)
(* threads that append to the log buffer, make it durable with             *)
(* log_write_up_to() (synchronously or with a completion callback), replace*)
(* the log file under log_resize_acquire()/log_resize_release(), or write  *)
(* through with log_write_and_flush().  They meet in two group_commit_lock *)
(* objects, write_lock and flush_lock, and in the exclusive log_sys.latch. *)
(*                                                                         *)
(* An LSN is a natural number, one per appended mini-transaction.  The     *)
(* contents of the buffer and the block arithmetic of write_buf() are      *)
(* left out; what the file and the disk hold is the LSN they reach.        *)
(***************************************************************************)
EXTENDS GroupCommitLock

CONSTANTS
  MaxLsn,   \* bound: the log stops growing here
  MaxCalls  \* bound: calls of log functions each thread makes

ASSUME LogAssumption ==
  /\ Locks = {"write", "flush"}
  /\ MaxLsn \in Nat /\ MaxCalls \in Nat

VARIABLES
  lsn,                  \* log_sys.get_lsn()
  write_lsn,            \* log_sys.write_lsn: written to the log file
  flushed_to_disk_lsn,  \* log_sys.flushed_to_disk_lsn
  disk,                 \* what a crash of the machine would leave in the file
  latch,                \* the thread that holds log_sys.latch exclusively
  stage,                \* per thread: where it is in the log functions
  op,                   \* per thread: which function was called
  reqlsn,               \* per thread: argument lsn of log_write_up_to()
  durable,              \* per thread: argument durable
  callback,             \* per thread: argument callback
  target,               \* per thread: the lsn that a write or flush reaches
  synced,               \* per thread: the file's lsn when its fsync began
  left,                 \* per thread: pending_write_lsn
  calls,                \* per thread: calls made so far
  want,                 \* per callback: the lsn its request named, 0 if unused
  wantDurable,          \* per callback: did its request ask for durability?
  acked                 \* the largest lsn a caller was told to be durable

logVars == <<lsn, write_lsn, flushed_to_disk_lsn, disk, latch>>
jobVars == <<stage, op, reqlsn, durable, callback, target, synced, left,
             calls, want, wantDurable, acked>>
vars    == <<gclVars, logVars, jobVars>>

MaxOf(a, b) == IF a >= b THEN a ELSE b

Init ==
  /\ GclInit
  /\ lsn = 0 /\ write_lsn = 0 /\ flushed_to_disk_lsn = 0 /\ disk = 0
  /\ latch = NoThread
  /\ stage    = [t \in Threads |-> "idle"]
  /\ op       = [t \in Threads |-> "none"]
  /\ reqlsn   = [t \in Threads |-> 0]
  /\ durable  = [t \in Threads |-> FALSE]
  /\ callback = [t \in Threads |-> NoCallback]
  /\ target   = [t \in Threads |-> 0]
  /\ synced   = [t \in Threads |-> 0]
  /\ left     = [t \in Threads |-> 0]
  /\ calls    = [t \in Threads |-> 0]
  /\ want        = [c \in Callbacks |-> 0]
  /\ wantDurable = [c \in Callbacks |-> FALSE]
  /\ acked = 0
----------------------------------------------------------------------------
(* Thread t is between two calls to the locks' methods, at stage s.        *)
At(t, s) == stage[t] = s /\ Outside(t)

Goto(t, s) == stage' = [stage EXCEPT ![t] = s]

Got(t) == rc[t].code = "ACQUIRED"

(* A mini-transaction appends to the log buffer; an exclusive latch        *)
(* excludes it.                                                            *)
Append ==
  /\ lsn < MaxLsn
  /\ latch = NoThread
  /\ lsn' = lsn + 1
  /\ UNCHANGED <<gclVars, write_lsn, flushed_to_disk_lsn, disk, latch,
                 jobVars>>

(* log_sys.latch.wr_lock(): from stage a to stage b.                       *)
Latch(t, a, b) ==
  /\ At(t, a)
  /\ latch = NoThread
  /\ latch' = t
  /\ Goto(t, b)
  /\ UNCHANGED <<gclVars, lsn, write_lsn, flushed_to_disk_lsn, disk, op,
                 reqlsn, durable, callback, target, synced, left, calls, want,
                 wantDurable, acked>>

(* A call of lock l's acquire(n, c) that takes t from stage a to stage b.  *)
CallAcquire(t, a, l, n, c, b) ==
  /\ At(t, a)
  /\ AcquireCall(t, l, n, c)
  /\ Goto(t, b)
  /\ UNCHANGED <<logVars, op, reqlsn, durable, callback, target, synced, left,
                 calls, want, wantDurable, acked>>

(* A call of lock l's release(n) that takes t from stage a to stage b.     *)
CallRelease(t, a, l, n, b) ==
  /\ At(t, a)
  /\ Release(t, l, n)
  /\ Goto(t, b)
  /\ UNCHANGED <<logVars, op, reqlsn, durable, callback, target, synced, left,
                 calls, want, wantDurable, acked>>
----------------------------------------------------------------------------
(* log_write_up_to(n, d, c).  A caller asks for a position that exists.    *)
StartWriteUpTo(t, n, d, c) ==
  /\ At(t, "idle")
  /\ calls[t] < MaxCalls
  /\ n \in 1 .. lsn
  /\ c \in Callbacks => want[c] = 0
  /\ calls'    = [calls EXCEPT ![t] = @ + 1]
  /\ op'       = [op EXCEPT ![t] = "write_up_to"]
  /\ reqlsn'   = [reqlsn EXCEPT ![t] = n]
  /\ durable'  = [durable EXCEPT ![t] = d]
  /\ callback' = [callback EXCEPT ![t] = c]
  /\ want'        = [x \in Callbacks |-> IF x = c THEN n ELSE want[x]]
  /\ wantDurable' = [x \in Callbacks |-> IF x = c THEN d ELSE wantDurable[x]]
  /\ Goto(t, "repeat")
  /\ UNCHANGED <<gclVars, logVars, target, synced, left, acked>>

(* trx_flush_log_if_needed() of a durable commit finds it flushed already. *)
TrxFlushNotNeeded(t, n) ==
  /\ At(t, "idle")
  /\ calls[t] < MaxCalls
  /\ n \in 1 .. lsn
  /\ flushed_to_disk_lsn >= n
  /\ calls' = [calls EXCEPT ![t] = @ + 1]
  /\ acked' = MaxOf(acked, n)
  /\ UNCHANGED <<gclVars, logVars, stage, op, reqlsn, durable, callback,
                 target, synced, left, want, wantDurable>>

RepeatDurable(t) ==
  /\ durable[t]
  /\ CallAcquire(t, "repeat", "flush", reqlsn[t], callback[t], "flush_acquire")

RepeatWrite(t) ==
  /\ ~durable[t]
  /\ CallAcquire(t, "repeat", "write", reqlsn[t], callback[t], "write_acquire")

(* The call is over, and the arguments and locals of thread t with it.     *)
EndCall(t) ==
  /\ Goto(t, "idle")
  /\ op'       = [op EXCEPT ![t] = "none"]
  /\ reqlsn'   = [reqlsn EXCEPT ![t] = 0]
  /\ durable'  = [durable EXCEPT ![t] = FALSE]
  /\ callback' = [callback EXCEPT ![t] = NoCallback]
  /\ target'   = [target EXCEPT ![t] = 0]
  /\ synced'   = [synced EXCEPT ![t] = 0]
  /\ left'     = [left EXCEPT ![t] = 0]

AckedByReturn(t) ==
  IF durable[t] /\ callback[t] = NoCallback
  THEN MaxOf(acked, reqlsn[t]) ELSE acked

(* log_write_up_to() returns; a caller without callback takes that as the  *)
(* acknowledgement of its request.                                         *)
ReturnToCaller(t) ==
  /\ EndCall(t)
  /\ acked' = AckedByReturn(t)

FlushNotAcquired(t) ==
  /\ At(t, "flush_acquire")
  /\ ~Got(t)
  /\ ReturnToCaller(t)
  /\ UNCHANGED <<gclVars, logVars, calls, want, wantDurable>>

(* The owner of flush_lock promises to get at least to its own lsn.        *)
FlushPromise(t) ==
  /\ At(t, "flush_acquire")
  /\ Got(t)
  /\ SetPending("flush", IF reqlsn[t] > flushed_to_disk_lsn
                         THEN reqlsn[t] ELSE m_pending_value["flush"])
  /\ Goto(t, "promised")
  /\ UNCHANGED <<m_value, m_lock, m_waiters_list, m_pending_callbacks,
                 threadVars, fired, logVars, op, reqlsn, durable, callback,
                 target, synced, left, calls, want, wantDurable, acked>>

WriteAfterPromise(t) ==
  CallAcquire(t, "promised", "write", reqlsn[t], NoCallback, "write_acquire")

WriteAcquired(t) ==
  /\ Got(t)
  /\ Latch(t, "write_acquire", "write_buf")

(* Mutant: the old write_lsn is returned as the position reached.          *)
WriteBufStale(t) ==
  /\ At(t, "write_buf")
  /\ target' = [target EXCEPT ![t] = write_lsn]
  /\ latch' = IF op[t] = "write_and_flush" THEN latch ELSE NoThread
  /\ Goto(t, "write_release")
  /\ UNCHANGED <<gclVars, lsn, write_lsn, flushed_to_disk_lsn, disk, op,
                 reqlsn, durable, callback, synced, left, calls, want,
                 wantDurable, acked>>

(* log_t::write_buf() gives up the latch before the file is written, but   *)
(* for log_write_and_flush() (RETAIN_LATCH).                               *)
LatchAfterWriteBuf(t) == IF op[t] = "write_and_flush" THEN latch ELSE NoThread

WriteBufNothing(t) ==
  /\ At(t, "write_buf")
  /\ write_lsn >= lsn
  /\ target' = [target EXCEPT ![t] = lsn]
  /\ latch' = LatchAfterWriteBuf(t)
  /\ Goto(t, "write_release")
  /\ UNCHANGED <<gclVars, lsn, write_lsn, flushed_to_disk_lsn, disk, op,
                 reqlsn, durable, callback, synced, left, calls, want,
                 wantDurable, acked>>

WriteBuf(t) ==
  /\ At(t, "write_buf")
  /\ write_lsn < lsn
  /\ target' = [target EXCEPT ![t] = lsn]
  /\ SetPending("write", lsn)
  /\ latch' = LatchAfterWriteBuf(t)
  /\ Goto(t, "log_write_buf")
  /\ UNCHANGED <<m_value, m_lock, m_waiters_list, m_pending_callbacks,
                 threadVars, fired, lsn, write_lsn, flushed_to_disk_lsn, disk,
                 op, reqlsn, durable, callback, synced, left, calls, want,
                 wantDurable, acked>>

(* log_write_buf() and the assignment to write_lsn that follows it.        *)
LogWriteBuf(t) ==
  /\ At(t, "log_write_buf")
  /\ write_lsn' = target[t]
  /\ Goto(t, "write_release")
  /\ UNCHANGED <<gclVars, lsn, flushed_to_disk_lsn, disk, latch, op, reqlsn,
                 durable, callback, target, synced, left, calls, want,
                 wantDurable, acked>>

WriteRelease(t) ==
  CallRelease(t, "write_release", "write", target[t], "written")

(* Mutant: log_flush(log_sys.get_lsn()), what was appended meanwhile too.  *)
LogFlushAppended(t) ==
  /\ At(t, "written")
  /\ left' = [left EXCEPT ![t] = rc[t].left]
  /\ durable[t]
  /\ target' = [target EXCEPT ![t] = lsn]
  /\ Goto(t, "flush")
  /\ UNCHANGED <<gclVars, logVars, op, reqlsn, durable, callback, synced,
                 calls, want, wantDurable, acked>>

(* pending_flush_lsn = log_flush(write_lock.value()), for durability; in   *)
(* log_write_and_flush() it is log_flush(lsn).  pending_write_lsn is what  *)
(* release() of write_lock returned, if it was acquired at all.            *)
LogFlush(t) ==
  /\ At(t, "written")
  /\ durable[t]
  /\ left' = [left EXCEPT ![t] = rc[t].left]
  /\ target' = [target EXCEPT ![t] = IF op[t] = "write_up_to"
                                     THEN m_value["write"] ELSE target[t]]
  /\ Goto(t, "flush")
  /\ UNCHANGED <<gclVars, logVars, op, reqlsn, durable, callback, synced,
                 calls, want, wantDurable, acked>>

LogFlushCovered(t) ==
  /\ At(t, "write_acquire")
  /\ ~Got(t)
  /\ durable[t]
  /\ left' = [left EXCEPT ![t] = 0]
  /\ target' = [target EXCEPT ![t] = m_value["write"]]
  /\ Goto(t, "flush")
  /\ UNCHANGED <<gclVars, logVars, op, reqlsn, durable, callback, synced,
                 calls, want, wantDurable, acked>>

(* log_t::flush(): announce, fsync, publish flushed_to_disk_lsn.           *)
FlushBegin(t) ==
  /\ At(t, "flush")
  /\ SetPending("flush", target[t])
  /\ synced' = [synced EXCEPT ![t] = write_lsn]
  /\ Goto(t, "fsync")
  /\ UNCHANGED <<m_value, m_lock, m_waiters_list, m_pending_callbacks,
                 threadVars, fired, logVars, op, reqlsn, durable, callback,
                 target, left, calls, want, wantDurable, acked>>

FlushEnd(t) ==
  /\ At(t, "fsync")
  /\ disk' = MaxOf(disk, synced[t])
  /\ flushed_to_disk_lsn' = target[t]
  /\ Goto(t, "flush_release")
  /\ UNCHANGED <<gclVars, lsn, write_lsn, latch, op, reqlsn, durable, callback,
                 target, synced, left, calls, want, wantDurable, acked>>

FlushRelease(t) ==
  CallRelease(t, "flush_release", "flush", target[t], "flushed")

(* The end of a round: a durable one ends with the release of flush_lock,  *)
(* the other with that of write_lock.  The releases may have returned      *)
(* positions of callbacks that are left without a leader.                  *)
RoundOver(t) ==
  /\ op[t] = "write_up_to"
  /\ At(t, "flushed") \/ (At(t, "written") /\ ~durable[t])

PendingLsn(t) == IF durable[t] THEN MaxOf(left[t], rc[t].left) ELSE rc[t].left

(* Mutant: what the release() calls returned is ignored.                   *)
RoundReturnIgnoring(t) ==
  /\ RoundOver(t)
  /\ ReturnToCaller(t)
  /\ UNCHANGED <<gclVars, logVars, calls, want, wantDurable>>

RoundReturn(t) ==
  /\ RoundOver(t)
  /\ PendingLsn(t) = 0
  /\ ReturnToCaller(t)
  /\ UNCHANGED <<gclVars, logVars, calls, want, wantDurable>>

(* goto repeat with the dummy callback.  The caller's own request is met   *)
(* by now, which is where acked records it.                                *)
RoundAgain(t) ==
  /\ RoundOver(t)
  /\ PendingLsn(t) > 0
  /\ reqlsn' = [reqlsn EXCEPT ![t] = PendingLsn(t)]
  /\ callback' = [callback EXCEPT ![t] = Dummy]
  /\ acked' = AckedByReturn(t)
  /\ Goto(t, "repeat")
  /\ UNCHANGED <<gclVars, logVars, op, durable, target, synced, left, calls,
                 want, wantDurable>>

(* Without durability, write_lock was not acquired: written, or queued.    *)
WriteCovered(t) ==
  /\ At(t, "write_acquire")
  /\ ~Got(t)
  /\ ~durable[t]
  /\ ReturnToCaller(t)
  /\ UNCHANGED <<gclVars, logVars, calls, want, wantDurable>>
----------------------------------------------------------------------------
(* log_resize_acquire() and log_write_and_flush_prepare(): own flush_lock, *)
(* then write_lock, each by asking for a position nobody has written yet,  *)
(* again and again while the log runs away; then the latch.                *)
StartExclusive(t, o) ==
  /\ At(t, "idle")
  /\ calls[t] < MaxCalls
  /\ calls' = [calls EXCEPT ![t] = @ + 1]
  /\ op' = [op EXCEPT ![t] = o]
  /\ durable'  = [durable EXCEPT ![t] = TRUE]
  /\ callback' = [callback EXCEPT ![t] = NoCallback]
  /\ Goto(t, "get_lsn")
  /\ UNCHANGED <<gclVars, logVars, reqlsn, target, synced, left, want,
                 wantDurable, acked>>

(* log_get_lsn() + 1, for the first try or the next one                    *)
GetLsn(t, next) ==
  /\ latch = NoThread
  /\ reqlsn' = [reqlsn EXCEPT ![t] = lsn + 1]
  /\ Goto(t, next)
  /\ UNCHANGED <<gclVars, logVars, op, durable, callback, target, synced, left,
                 calls, want, wantDurable, acked>>

GetLsnForFlush(t) ==
  /\ At(t, "get_lsn") \/ (At(t, "owning_flush") /\ ~Got(t))
  /\ GetLsn(t, "own_flush")

GetLsnForWrite(t) ==
  /\ \/ At(t, "owning_flush") /\ Got(t)
     \/ At(t, "owning_write") /\ ~Got(t)
  /\ GetLsn(t, "own_write")

OwnFlush(t) ==
  CallAcquire(t, "own_flush", "flush", reqlsn[t], NoCallback, "owning_flush")

OwnWrite(t) ==
  CallAcquire(t, "own_write", "write", reqlsn[t], NoCallback, "owning_write")

OwnedAll(t) ==
  /\ Got(t)
  /\ Latch(t, "owning_write", "exclusive")

(* log_resize_release(): the latch, then write_lock and flush_lock, whose  *)
(* values stay; if callbacks are left without a leader, log_write_up_to()  *)
(* serves them.                                                            *)
ResizeUnlatch(t) ==
  /\ At(t, "exclusive")
  /\ op[t] = "resize"
  /\ latch' = NoThread
  /\ Goto(t, "resize_write")
  /\ UNCHANGED <<gclVars, lsn, write_lsn, flushed_to_disk_lsn, disk, op,
                 reqlsn, durable, callback, target, synced, left, calls, want,
                 wantDurable, acked>>

(* Mutant: write_lock.release(flush_lock.value()), the other lock's value. *)
ResizeReleaseWriteOther(t) ==
  CallRelease(t, "resize_write", "write", m_value["flush"], "resize_flush")

ResizeReleaseWrite(t) ==
  CallRelease(t, "resize_write", "write", m_value["write"], "resize_flush")

ResizeReleaseFlush(t) ==
  /\ At(t, "resize_flush")
  /\ left' = [left EXCEPT ![t] = rc[t].left]
  /\ Release(t, "flush", m_value["flush"])
  /\ Goto(t, "resize_done")
  /\ UNCHANGED <<logVars, op, reqlsn, durable, callback, target, synced,
                 calls, want, wantDurable, acked>>

ResizeReturn(t) ==
  /\ At(t, "resize_done")
  /\ MaxOf(left[t], rc[t].left) = 0
  /\ EndCall(t)
  /\ UNCHANGED <<gclVars, logVars, calls, want, wantDurable, acked>>

ResizeAgain(t) ==
  /\ At(t, "resize_done")
  /\ MaxOf(left[t], rc[t].left) > 0
  /\ reqlsn' = [reqlsn EXCEPT ![t] = MaxOf(left[t], rc[t].left)]
  /\ op' = [op EXCEPT ![t] = "write_up_to"]
  /\ Goto(t, "repeat")
  /\ UNCHANGED <<gclVars, logVars, durable, callback, target, synced, left,
                 calls, want, wantDurable, acked>>

(* Between log_write_and_flush_prepare() and log_write_and_flush() the     *)
(* owner of everything appends its own mini-transaction.                   *)
ExclusiveAppend(t) ==
  /\ At(t, "exclusive")
  /\ op[t] = "write_and_flush"
  /\ lsn' = IF lsn < MaxLsn THEN lsn + 1 ELSE lsn
  /\ Goto(t, "write_buf")
  /\ UNCHANGED <<gclVars, write_lsn, flushed_to_disk_lsn, disk, latch, op,
                 reqlsn, durable, callback, target, synced, left, calls, want,
                 wantDurable, acked>>

(* log_write_and_flush() ignores what both release() calls return; its     *)
(* caller then gives up the latch.                                         *)
WriteAndFlushDone(t) ==
  /\ At(t, "flushed")
  /\ op[t] = "write_and_flush"
  /\ latch' = NoThread
  /\ acked' = MaxOf(acked, target[t])
  /\ EndCall(t)
  /\ UNCHANGED <<gclVars, lsn, write_lsn, flushed_to_disk_lsn, disk, calls,
                 want, wantDurable>>
----------------------------------------------------------------------------
(* A step inside a method of a group_commit_lock.                          *)
InLock(t) == MethodStep(t) /\ UNCHANGED <<logVars, jobVars>>

(* What thread t must go on with once it has started.                      *)
Continue(t) ==
  \/ InLock(t)
  \/ RepeatDurable(t) \/ RepeatWrite(t) \/ FlushNotAcquired(t)
  \/ FlushPromise(t) \/ WriteAfterPromise(t) \/ WriteAcquired(t)
  \/ WriteBufNothing(t) \/ WriteBuf(t) \/ LogWriteBuf(t)
  \/ WriteRelease(t) \/ LogFlush(t) \/ LogFlushCovered(t)
  \/ FlushBegin(t) \/ FlushEnd(t) \/ FlushRelease(t)
  \/ RoundReturn(t) \/ RoundAgain(t) \/ WriteCovered(t)
  \/ GetLsnForFlush(t) \/ OwnFlush(t)
  \/ GetLsnForWrite(t) \/ OwnWrite(t) \/ OwnedAll(t)
  \/ ResizeUnlatch(t) \/ ResizeReleaseWrite(t) \/ ResizeReleaseFlush(t)
  \/ ResizeReturn(t) \/ ResizeAgain(t)
  \/ ExclusiveAppend(t) \/ WriteAndFlushDone(t)

Start(t) ==
  \/ \E n \in 1 .. MaxLsn, d \in BOOLEAN, c \in Callbacks \cup {NoCallback} :
       StartWriteUpTo(t, n, d, c)
  \/ \E n \in 1 .. MaxLsn : TrxFlushNotNeeded(t, n)
  \/ \E o \in {"resize", "write_and_flush"} : StartExclusive(t, o)

(* Every thread is between calls: the server may stay idle for ever.       *)
Quiet == (\A t \in Threads : stage[t] = "idle") /\ UNCHANGED vars

Next == Append \/ Quiet \/ \E t \in Threads : Start(t) \/ Continue(t)

(* A thread that has begun a call runs on unless it is blocked.            *)
Fairness == \A t \in Threads : WF_vars(Continue(t))

Spec == Init /\ [][Next]_vars /\ Fairness
----------------------------------------------------------------------------
Stages == {"idle", "repeat", "flush_acquire", "promised", "write_acquire",
           "write_buf", "log_write_buf", "write_release", "written", "flush",
           "fsync", "flush_release", "flushed", "get_lsn", "own_flush",
           "owning_flush", "own_write", "owning_write", "exclusive",
           "resize_write", "resize_flush", "resize_done"}

(* The log state and every thread's program counters keep their types.     *)
TypeOK ==
  /\ GclTypeOK
  /\ lsn \in Nat /\ write_lsn \in Nat /\ flushed_to_disk_lsn \in Nat
  /\ disk \in Nat /\ acked \in Nat
  /\ latch \in Threads \cup {NoThread}
  /\ stage \in [Threads -> Stages]
  /\ op \in [Threads -> {"none", "write_up_to", "resize", "write_and_flush"}]
  /\ reqlsn \in [Threads -> Nat] /\ durable \in [Threads -> BOOLEAN]
  /\ callback \in [Threads -> CallbackArg]
  /\ target \in [Threads -> Nat] /\ synced \in [Threads -> Nat]
  /\ left \in [Threads -> Nat] /\ calls \in [Threads -> Nat]
  /\ want \in [Callbacks -> Nat] /\ wantDurable \in [Callbacks -> BOOLEAN]

(* The stages at which a thread owns write_lock, or flush_lock: from the   *)
(* ACQUIRED that acquire() returned to the release() it owes.              *)
OwnsWrite(t) ==
  \/ stage[t] \in {"write_buf", "log_write_buf", "write_release",
                   "exclusive", "resize_write"}
  \/ stage[t] \in {"write_acquire", "owning_write"} /\ pc[t] = "out" /\ Got(t)

OwnsFlush(t) ==
  \/ stage[t] \in {"promised", "flush", "fsync", "flush_release",
                   "own_write", "owning_write", "exclusive",
                   "resize_write", "resize_flush"}
  \/ stage[t] \in {"flush_acquire", "owning_flush"} /\ pc[t] = "out" /\ Got(t)
  \/ /\ stage[t] \in {"write_acquire", "write_buf", "log_write_buf",
                      "write_release", "written"}
     /\ durable[t]

Owns(t, l) == IF l = "write" THEN OwnsWrite(t) ELSE OwnsFlush(t)

(* group_commit_lock is a lock: at most one thread is between ACQUIRED and *)
(* its release(), and m_lock says whether there is one.                    *)
SingleOwner ==
  /\ \A t, u \in Threads, l \in Locks : Owns(t, l) /\ Owns(u, l) => t = u
  /\ \A l \in Locks : m_lock[l] <=> \E t \in Threads : Owns(t, l)

(* What flush_lock and flushed_to_disk_lsn claim is on disk is on disk,    *)
(* and what write_lock claims has been written is in the file: write_buf() *)
(* and flush() publish nothing before the I/O it stands for.               *)
PublishedIsDone ==
  /\ m_value["flush"] <= flushed_to_disk_lsn
  /\ flushed_to_disk_lsn <= disk
  /\ m_value["write"] <= write_lsn
  /\ m_value["flush"] <= m_value["write"]
  /\ disk <= write_lsn /\ write_lsn <= lsn

(* No caller of log_write_up_to() and no completion callback is told that  *)
(* a position is durable (or, without durability, written) before it is:   *)
(* a crash after the acknowledgement loses nothing.                        *)
NothingAckedEarly ==
  /\ acked <= disk
  /\ \A c \in Callbacks :
       fired[c] > 0 =>
         /\ want[c] > 0
         /\ want[c] <= IF wantDurable[c] THEN disk ELSE write_lsn

(* log_write_and_flush() ignores the positions its two release() calls     *)
(* return; that is sound only because no callback can be left behind       *)
(* while it has the whole log written and the latch held.                  *)
NoneLeftBehind ==
  \A t \in Threads :
    op[t] = "write_and_flush" /\ stage[t] \in {"written", "flushed"} =>
      rc[t].left = 0

(* ut_a(num >= value()) in release() and set_pending(), and ut_ad(lsn >=   *)
(* get_flushed_lsn()) in flush(): no position ever moves backwards.        *)
Forward ==
  /\ \A l \in Locks :
       /\ m_value'[l] >= m_value[l]
       /\ m_pending_value'[l] # m_pending_value[l] =>
            m_pending_value'[l] >= m_value[l]
  /\ flushed_to_disk_lsn' >= flushed_to_disk_lsn
  /\ write_lsn' >= write_lsn

NeverBackwards == [][Forward]_vars

(* When every thread has returned to its caller, no callback is left in a  *)
(* lock: whoever queued one could rely on an owner, a designated leader or *)
(* the caller of release() to come back for it.                            *)
NoOrphanCallback ==
  (\A t \in Threads : stage[t] = "idle") =>
    \A c \in Callbacks : want[c] > 0 => fired[c] > 0

(* Thread t still has callback c in its hands: log_write_up_to() has not   *)
(* given it to a lock yet, or acquire() has neither queued nor run it.     *)
Handed(t, c) ==
  \/ stage[t] = "repeat" /\ callback[t] = c
  \/ pc[t] # "out" /\ cb[t] = c

HeldBy(c)   == {t \in Threads : Handed(t, c)}
QueuedIn(c) == {l \in Locks : \E p \in m_pending_callbacks[l] : p.cb = c}
TakenBy(c)  == {t \in Threads : c \in torun[t]}

AtMostOne(S) == \A x, y \in S : x = y

(* A completion callback is in at most one place: in the hands of one      *)
(* thread, queued in one lock, taken by one release() to be run, or done,  *)
(* once.  So a lock never holds a callback twice (its vector may be a set) *)
(* and no transaction is told twice that its commit is complete.           *)
OnePlace ==
  \A c \in Callbacks :
    /\ AtMostOne(HeldBy(c)) /\ AtMostOne(QueuedIn(c)) /\ AtMostOne(TakenBy(c))
    /\ HeldBy(c) # {} => QueuedIn(c) = {}
    /\ HeldBy(c) # {} \/ QueuedIn(c) # {} => TakenBy(c) = {}
    /\ HeldBy(c) # {} \/ QueuedIn(c) # {} \/ TakenBy(c) # {} => fired[c] = 0
    /\ fired[c] <= 1

(* Every log function returns: no wakeup is lost, and nobody waits for a   *)
(* lock whose owner has gone.                                              *)
CallsReturn == \A t \in Threads : (stage[t] # "idle") ~> (stage[t] = "idle")

(* Every completion callback handed to log_write_up_to() runs at last,     *)
(* although its thread has long gone on to other work.                     *)
CallbacksRun == \A c \in Callbacks : (want[c] > 0) ~> (fired[c] > 0)
----------------------------------------------------------------------------
Durable == INSTANCE DurableLog WITH
             written <- write_lsn, done <- fired, Requests <- Callbacks

(* Seen from outside, the two locks, the leaders and the hand-overs are a  *)
(* log that grows, is written and synced behind its end, and runs each     *)
(* completion callback at most once, when its position has been reached.   *)
(* Callers without a callback are seen only through the largest position   *)
(* acknowledged to one.                                                    *)
ImplementsDurableLog == Durable!Spec
=============================================================================
