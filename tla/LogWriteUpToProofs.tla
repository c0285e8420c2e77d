------------------------- MODULE LogWriteUpToProofs -------------------------
(***************************************************************************)
(* Proofs about LogWriteUpTo, for any set of threads and callbacks and any *)
(* bounds: ownership of the two group_commit_locks, the order of the       *)
(* published positions, and the durability of everything acknowledged.     *)
(***************************************************************************)
EXTENDS LogWriteUpTo, GroupCommitLockProofs

AcquireStages == {"flush_acquire", "write_acquire", "owning_flush",
                  "owning_write"}
OwnStages     == {"get_lsn", "own_flush", "owning_flush", "own_write",
                  "owning_write", "exclusive", "resize_write",
                  "resize_flush", "resize_done"}
WriteStages   == {"write_buf", "log_write_buf", "write_release", "written"}
FlushStages   == {"flush", "fsync", "flush_release"}

(* Where a thread can be inside the locks, given its stage.                *)
Control(t) ==
  /\ pc[t] # "out" => stage[t] \in AcquireStages
  /\ stage[t] \in {"flush_acquire", "owning_flush"} => on[t] = "flush"
  /\ stage[t] \in {"write_acquire", "owning_write"} => on[t] = "write"
  /\ stage[t] \in AcquireStages => num[t] = reqlsn[t]
  /\ stage[t] = "flush_acquire" => cb[t] = callback[t]
  /\ stage[t] = "write_acquire" /\ durable[t] => cb[t] = NoCallback
  /\ stage[t] \in {"owning_flush", "owning_write"} => cb[t] = NoCallback
  /\ stage[t] \in {"repeat", "flush_acquire", "promised", "write_acquire"} =>
       op[t] = "write_up_to"
  /\ stage[t] \in OwnStages =>
       op[t] \in {"resize", "write_and_flush"} /\ callback[t] = NoCallback
  /\ stage[t] \in WriteStages \cup FlushStages \cup {"flushed"} =>
       op[t] \in {"write_up_to", "write_and_flush"}
  /\ stage[t] \in {"flush_acquire", "promised"} \cup FlushStages \cup {"flushed"}
       => durable[t]
  /\ op[t] \in {"resize", "write_and_flush"} => durable[t]

(* What acquire() answered.                                                *)
Answer(t) ==
  stage[t] \in AcquireStages /\ pc[t] = "out" =>
    /\ rc[t].code \in {"ACQUIRED", "EXPIRED", "CALLBACK_QUEUED"}
    /\ rc[t].code = "EXPIRED" => num[t] <= m_value[on[t]]
    /\ rc[t].code = "CALLBACK_QUEUED" => cb[t] # NoCallback

(* How far the write or flush a thread is working on has got.              *)
Progress(t) ==
  /\ op[t] = "write_up_to" => reqlsn[t] <= lsn
  /\ stage[t] = "log_write_buf" => write_lsn <= target[t]
  /\ stage[t] = "write_release" => target[t] = write_lsn
  /\ stage[t] \in {"log_write_buf", "write_release"} =>
       /\ target[t] <= lsn
       /\ op[t] = "write_up_to" => reqlsn[t] <= target[t]
  /\ stage[t] = "written" /\ op[t] = "write_up_to" =>
       reqlsn[t] <= m_value["write"]
  /\ stage[t] \in FlushStages \/ (stage[t] = "written" /\ op[t] = "write_and_flush")
       => flushed_to_disk_lsn <= target[t] /\ target[t] <= m_value["write"]
  /\ stage[t] = "fsync" => target[t] <= synced[t] /\ synced[t] <= write_lsn
  /\ stage[t] = "flush_release" => target[t] = flushed_to_disk_lsn
  /\ stage[t] = "flushed" => target[t] <= disk
  /\ stage[t] \in FlushStages \cup {"flushed"} /\ op[t] = "write_up_to" =>
       reqlsn[t] <= target[t]
  /\ rc[t].left <= lsn /\ left[t] <= lsn

(* Who holds the latch, and that the log stands still meanwhile.           *)
Latched(t) ==
  /\ stage[t] \in {"exclusive", "write_buf"} => latch = t
  /\ /\ op[t] = "write_and_flush"
     /\ stage[t] \in {"log_write_buf", "write_release", "written", "flushed"}
                       \cup FlushStages
     => latch = t /\ target[t] = lsn

(* The position that callback c waits for has been reached.                *)
Served(c) ==
  want[c] > 0 /\ want[c] <= IF wantDurable[c] THEN disk ELSE write_lsn

(* Callback c was handed over for position n to lock l.                    *)
Wanted(c, n, l) ==
  c \in Callbacks =>
    want[c] = n /\ n > 0 /\ (wantDurable[c] <=> l = "flush")

Callback(t) ==
  /\ stage[t] = "repeat" =>
       Wanted(callback[t], reqlsn[t], IF durable[t] THEN "flush" ELSE "write")
  /\ pc[t] # "out" => Wanted(cb[t], num[t], on[t])
  /\ \A c \in torun[t] : c \in Callbacks => Served(c)

Queued(l) ==
  \A p \in m_pending_callbacks[l] : p.num <= lsn /\ Wanted(p.cb, p.num, l)

Published == PublishedIsDone /\ flushed_to_disk_lsn <= m_value["write"]

(* The inductive invariant, by parts.                                      *)
AllControl  == \A x \in Threads : Control(x)
AllAnswer   == \A x \in Threads : Answer(x)
AllProgress == \A x \in Threads : Progress(x)
AllLatched  == \A x \in Threads : Latched(x)
AllCallback == \A x \in Threads : Callback(x)
AllQueued   == \A l \in Locks : Queued(l)

IInv ==
  /\ TypeOK /\ AllControl /\ SingleOwner /\ Published /\ AllAnswer
  /\ AllProgress /\ AllLatched /\ AllCallback /\ AllQueued
  /\ NothingAckedEarly /\ NoneLeftBehind /\ OnePlace
----------------------------------------------------------------------------
(* The proofs.                                                             *)

(* What the calls of the lock methods do, for every action that makes one.  *)
LEMMA Effects ==
  ASSUME TypeOK, NEW t \in Threads
  PROVE  /\ InLock(t) => MethodEffect(t)
         /\ RepeatDurable(t)
            => AcquireEffect(t, "flush", reqlsn[t], callback[t])
         /\ RepeatWrite(t) => AcquireEffect(t, "write", reqlsn[t], callback[t])
         /\ WriteAfterPromise(t)
            => AcquireEffect(t, "write", reqlsn[t], NoCallback)
         /\ OwnFlush(t) => AcquireEffect(t, "flush", reqlsn[t], NoCallback)
         /\ OwnWrite(t) => AcquireEffect(t, "write", reqlsn[t], NoCallback)
         /\ WriteRelease(t) => ReleaseEffect(t, "write", target[t])
         /\ FlushRelease(t) => ReleaseEffect(t, "flush", target[t])
         /\ ResizeReleaseWrite(t)
            => ReleaseEffect(t, "write", m_value["write"])
         /\ ResizeReleaseFlush(t)
            => ReleaseEffect(t, "flush", m_value["flush"])
<1> USE LogAssumption DEF TypeOK, CallbackArg
<1>1. InLock(t) => MethodEffect(t)
  BY MethodStepEffect DEF InLock
<1>0. /\ reqlsn[t] \in Nat /\ target[t] \in Nat /\ callback[t] \in CallbackArg
      /\ m_value["write"] \in Nat /\ m_value["flush"] \in Nat
  BY DEF GclTypeOK
<1>2. RepeatDurable(t) => AcquireEffect(t, "flush", reqlsn[t], callback[t])
  BY <1>0, AcquireCallEffect DEF RepeatDurable, CallAcquire
<1>3. RepeatWrite(t) => AcquireEffect(t, "write", reqlsn[t], callback[t])
  BY <1>0, AcquireCallEffect DEF RepeatWrite, CallAcquire
<1>4. WriteAfterPromise(t) => AcquireEffect(t, "write", reqlsn[t], NoCallback)
  BY <1>0, AcquireCallEffect DEF WriteAfterPromise, CallAcquire
<1>5. OwnFlush(t) => AcquireEffect(t, "flush", reqlsn[t], NoCallback)
  BY <1>0, AcquireCallEffect DEF OwnFlush, CallAcquire
<1>6. OwnWrite(t) => AcquireEffect(t, "write", reqlsn[t], NoCallback)
  BY <1>0, AcquireCallEffect DEF OwnWrite, CallAcquire
<1>7. WriteRelease(t) => ReleaseEffect(t, "write", target[t])
  BY <1>0, ReleaseCallEffect DEF WriteRelease, CallRelease
<1>8. FlushRelease(t) => ReleaseEffect(t, "flush", target[t])
  BY <1>0, ReleaseCallEffect DEF FlushRelease, CallRelease
<1>9. ResizeReleaseWrite(t) => ReleaseEffect(t, "write", m_value["write"])
  BY <1>0, ReleaseCallEffect DEF ResizeReleaseWrite, CallRelease
<1>10. ResizeReleaseFlush(t) => ReleaseEffect(t, "flush", m_value["flush"])
  BY <1>0, ReleaseCallEffect DEF ResizeReleaseFlush, CallRelease
<1> QED
  BY <1>1, <1>2, <1>3, <1>4, <1>5, <1>6, <1>7, <1>8, <1>9, <1>10

(* A step that moves no ownership keeps SingleOwner. *)
LEMMA OwnerFrame ==
  ASSUME SingleOwner, m_lock' = m_lock,
         \A u \in Threads, l \in Locks : Owns(u, l)' <=> Owns(u, l)
  PROVE  SingleOwner'
  BY DEF SingleOwner

(* Every step keeps the types.                                              *)
LEMMA TypeStep ==
  TypeOK /\ [Next]_vars => TypeOK'
<1> SUFFICES ASSUME TypeOK, [Next]_vars PROVE TypeOK'
  OBVIOUS
<1> USE LogAssumption, GroupCommitAssumption
        DEF gclVars, lockVars, threadVars, logVars, jobVars, At, Goto,
        Outside, MaxOf, SetPending, TypeOK, Stages, GclTypeOK, CallbackArg,
        ReturnCode
<1>1. CASE Append
  BY <1>1 DEF Append
<1>2. CASE UNCHANGED vars
  BY <1>2 DEF vars
<1>3. ASSUME NEW t \in Threads, NEW n \in 1 .. MaxLsn, NEW d \in BOOLEAN,
             NEW c \in Callbacks \cup {NoCallback}, StartWriteUpTo(t, n, d, c)
      PROVE TypeOK'
  BY <1>3 DEF StartWriteUpTo
<1>4. ASSUME NEW t \in Threads, NEW n \in 1 .. MaxLsn, TrxFlushNotNeeded(t, n)
      PROVE TypeOK'
  BY <1>4 DEF TrxFlushNotNeeded
<1>5. ASSUME NEW t \in Threads, NEW o \in {"resize", "write_and_flush"},
   StartExclusive(t, o)
      PROVE TypeOK'
  BY <1>5 DEF StartExclusive
<1>6. ASSUME NEW t \in Threads, InLock(t) PROVE TypeOK'
  BY <1>6, MethodType DEF InLock
<1>7. ASSUME NEW t \in Threads, RepeatDurable(t) PROVE TypeOK'
  BY <1>7, AcquireCallType DEF RepeatDurable, CallAcquire
<1>8. ASSUME NEW t \in Threads, RepeatWrite(t) PROVE TypeOK'
  BY <1>8, AcquireCallType DEF RepeatWrite, CallAcquire
<1>9. ASSUME NEW t \in Threads, FlushNotAcquired(t) PROVE TypeOK'
  BY <1>9 DEF FlushNotAcquired, EndCall, ReturnToCaller, AckedByReturn
<1>10. ASSUME NEW t \in Threads, FlushPromise(t) PROVE TypeOK'
  BY <1>10 DEF FlushPromise
<1>11. ASSUME NEW t \in Threads, WriteAfterPromise(t) PROVE TypeOK'
  BY <1>11, AcquireCallType DEF WriteAfterPromise, CallAcquire
<1>12. ASSUME NEW t \in Threads, WriteAcquired(t) PROVE TypeOK'
  BY <1>12 DEF WriteAcquired, Latch
<1>13. ASSUME NEW t \in Threads, WriteBufNothing(t) PROVE TypeOK'
  BY <1>13 DEF WriteBufNothing, LatchAfterWriteBuf
<1>14. ASSUME NEW t \in Threads, WriteBuf(t) PROVE TypeOK'
  BY <1>14 DEF WriteBuf, LatchAfterWriteBuf
<1>15. ASSUME NEW t \in Threads, LogWriteBuf(t) PROVE TypeOK'
  BY <1>15 DEF LogWriteBuf
<1>16. ASSUME NEW t \in Threads, WriteRelease(t) PROVE TypeOK'
  BY <1>16, ReleaseCallEffect DEF WriteRelease, CallRelease
<1>17. ASSUME NEW t \in Threads, LogFlush(t) PROVE TypeOK'
  BY <1>17 DEF LogFlush
<1>18. ASSUME NEW t \in Threads, LogFlushCovered(t) PROVE TypeOK'
  BY <1>18 DEF LogFlushCovered
<1>19. ASSUME NEW t \in Threads, FlushBegin(t) PROVE TypeOK'
  BY <1>19 DEF FlushBegin
<1>20. ASSUME NEW t \in Threads, FlushEnd(t) PROVE TypeOK'
  BY <1>20 DEF FlushEnd
<1>21. ASSUME NEW t \in Threads, FlushRelease(t) PROVE TypeOK'
  BY <1>21, ReleaseCallEffect DEF FlushRelease, CallRelease
<1>22. ASSUME NEW t \in Threads, RoundReturn(t) PROVE TypeOK'
  BY <1>22
          DEF RoundReturn, EndCall, ReturnToCaller, AckedByReturn, RoundOver,
        PendingLsn
<1>23. ASSUME NEW t \in Threads, RoundAgain(t) PROVE TypeOK'
  BY <1>23
          DEF RoundAgain, EndCall, ReturnToCaller, AckedByReturn, RoundOver,
        PendingLsn
<1>24. ASSUME NEW t \in Threads, WriteCovered(t) PROVE TypeOK'
  BY <1>24 DEF WriteCovered, EndCall, ReturnToCaller, AckedByReturn
<1>25. ASSUME NEW t \in Threads, GetLsnForFlush(t) PROVE TypeOK'
  BY <1>25 DEF GetLsnForFlush, GetLsn
<1>26. ASSUME NEW t \in Threads, OwnFlush(t) PROVE TypeOK'
  BY <1>26, AcquireCallType DEF OwnFlush, CallAcquire
<1>27. ASSUME NEW t \in Threads, GetLsnForWrite(t) PROVE TypeOK'
  BY <1>27 DEF GetLsnForWrite, GetLsn
<1>28. ASSUME NEW t \in Threads, OwnWrite(t) PROVE TypeOK'
  BY <1>28, AcquireCallType DEF OwnWrite, CallAcquire
<1>29. ASSUME NEW t \in Threads, OwnedAll(t) PROVE TypeOK'
  BY <1>29 DEF OwnedAll, Latch
<1>30. ASSUME NEW t \in Threads, ResizeUnlatch(t) PROVE TypeOK'
  BY <1>30 DEF ResizeUnlatch
<1>31. ASSUME NEW t \in Threads, ResizeReleaseWrite(t) PROVE TypeOK'
  BY <1>31, ReleaseCallEffect DEF ResizeReleaseWrite, CallRelease
<1>32. ASSUME NEW t \in Threads, ResizeReleaseFlush(t) PROVE TypeOK'
  BY <1>32, ReleaseCallEffect DEF ResizeReleaseFlush, CallRelease
<1>33. ASSUME NEW t \in Threads, ResizeReturn(t) PROVE TypeOK'
  BY <1>33 DEF ResizeReturn, EndCall, ReturnToCaller, AckedByReturn
<1>34. ASSUME NEW t \in Threads, ResizeAgain(t) PROVE TypeOK'
  BY <1>34 DEF ResizeAgain, EndCall, ReturnToCaller, AckedByReturn
<1>35. ASSUME NEW t \in Threads, ExclusiveAppend(t) PROVE TypeOK'
  BY <1>35 DEF ExclusiveAppend
<1>36. ASSUME NEW t \in Threads, WriteAndFlushDone(t) PROVE TypeOK'
  BY <1>36 DEF WriteAndFlushDone, EndCall, ReturnToCaller, AckedByReturn
<1> HIDE DEF TypeOK
<1> QED
    BY <1>1, <1>2, <1>3, <1>4, <1>5, <1>6, <1>7, <1>8, <1>9, <1>10, <1>11,
     <1>12, <1>13, <1>14, <1>15, <1>16, <1>17, <1>18, <1>19, <1>20, <1>21,
     <1>22, <1>23, <1>24, <1>25, <1>26, <1>27, <1>28, <1>29, <1>30, <1>31,
     <1>32, <1>33, <1>34, <1>35, <1>36
     DEF Next, Quiet, Continue, Start

(* Every step keeps the relation between the stage of a thread and its      *)
(* place in the locks.                                                      *)
LEMMA ControlStep ==
  IInv /\ [Next]_vars => AllControl'
<1> SUFFICES ASSUME IInv, [Next]_vars PROVE AllControl'
  OBVIOUS
<1>0. TypeOK'
  BY TypeStep DEF IInv
<1> USE LogAssumption, GroupCommitAssumption
        DEF gclVars, lockVars, threadVars, logVars, jobVars, At, Goto,
        Outside, MaxOf, SetPending, IInv, TypeOK, GclTypeOK, CallbackArg,
        ReturnCode, Got, AcquireStages, OwnStages, WriteStages, FlushStages,
        AllControl, Control
<1>1. CASE Append
  BY <1>1 DEF Append
<1>2. CASE UNCHANGED vars
  BY <1>2 DEF vars
<1>3. ASSUME NEW t \in Threads, NEW n \in 1 .. MaxLsn, NEW d \in BOOLEAN,
             NEW c \in Callbacks \cup {NoCallback}, StartWriteUpTo(t, n, d, c)
      PROVE AllControl'
  BY <1>3 DEF StartWriteUpTo
<1>4. ASSUME NEW t \in Threads, NEW n \in 1 .. MaxLsn, TrxFlushNotNeeded(t, n)
      PROVE AllControl'
  BY <1>4 DEF TrxFlushNotNeeded
<1>5. ASSUME NEW t \in Threads, NEW o \in {"resize", "write_and_flush"},
   StartExclusive(t, o)
      PROVE AllControl'
  BY <1>5 DEF StartExclusive
<1>6. ASSUME NEW t \in Threads, InLock(t) PROVE AllControl'
  <2>1. MethodEffect(t)
    BY <1>6, Effects
  <2> SUFFICES ASSUME NEW x \in Threads PROVE Control(x)'
    OBVIOUS
  <2>2. CASE Wakes(t)
    BY <1>6, <2>1, <2>2 DEF InLock, MethodEffect, Wakes
  <2>3. CASE pc[t] # "out" /\ Waits(t)
    BY <1>6, <2>1, <2>3 DEF InLock, MethodEffect, Waits
  <2>4. CASE pc[t] # "out" /\ Expires(t)
    BY <1>6, <2>1, <2>4 DEF InLock, MethodEffect, Expires
  <2>5. CASE pc[t] # "out" /\ Acquires(t)
    BY <1>6, <2>1, <2>5 DEF InLock, MethodEffect, Acquires
  <2>6. CASE pc[t] # "out" /\ Queues(t)
    BY <1>6, <2>1, <2>6 DEF InLock, MethodEffect, Queues
  <2> QED
    BY <2>1, <2>2, <2>3, <2>4, <2>5, <2>6 DEF MethodEffect
<1>7. ASSUME NEW t \in Threads, RepeatDurable(t) PROVE AllControl'
  <2>1. AcquireEffect(t, "flush", reqlsn[t], callback[t])
    BY <1>7, Effects
  <2> SUFFICES ASSUME NEW x \in Threads PROVE Control(x)'
    OBVIOUS
  <2> QED
    BY <1>0, <1>7, <2>1 DEF RepeatDurable, CallAcquire, AcquireEffect
<1>8. ASSUME NEW t \in Threads, RepeatWrite(t) PROVE AllControl'
  <2>1. AcquireEffect(t, "write", reqlsn[t], callback[t])
    BY <1>8, Effects
  <2> SUFFICES ASSUME NEW x \in Threads PROVE Control(x)'
    OBVIOUS
  <2> QED
    BY <1>0, <1>8, <2>1 DEF RepeatWrite, CallAcquire, AcquireEffect
<1>9. ASSUME NEW t \in Threads, FlushNotAcquired(t) PROVE AllControl'
  BY <1>9 DEF FlushNotAcquired, EndCall, ReturnToCaller, AckedByReturn
<1>10. ASSUME NEW t \in Threads, FlushPromise(t) PROVE AllControl'
  BY <1>10 DEF FlushPromise
<1>11. ASSUME NEW t \in Threads, WriteAfterPromise(t) PROVE AllControl'
  <2>1. AcquireEffect(t, "write", reqlsn[t], NoCallback)
    BY <1>11, Effects
  <2> SUFFICES ASSUME NEW x \in Threads PROVE Control(x)'
    OBVIOUS
  <2> QED
    BY <1>0, <1>11, <2>1 DEF WriteAfterPromise, CallAcquire, AcquireEffect
<1>12. ASSUME NEW t \in Threads, WriteAcquired(t) PROVE AllControl'
  BY <1>12 DEF WriteAcquired, Latch
<1>13. ASSUME NEW t \in Threads, WriteBufNothing(t) PROVE AllControl'
  BY <1>13 DEF WriteBufNothing, LatchAfterWriteBuf
<1>14. ASSUME NEW t \in Threads, WriteBuf(t) PROVE AllControl'
  BY <1>14 DEF WriteBuf, LatchAfterWriteBuf
<1>15. ASSUME NEW t \in Threads, LogWriteBuf(t) PROVE AllControl'
  BY <1>15 DEF LogWriteBuf
<1>16. ASSUME NEW t \in Threads, WriteRelease(t) PROVE AllControl'
  <2>1. ReleaseEffect(t, "write", target[t])
    BY <1>16, Effects
  <2> SUFFICES ASSUME NEW x \in Threads PROVE Control(x)'
    OBVIOUS
  <2> QED
    BY <1>0, <1>16, <2>1 DEF WriteRelease, CallRelease, ReleaseEffect
<1>17. ASSUME NEW t \in Threads, LogFlush(t) PROVE AllControl'
  BY <1>17 DEF LogFlush
<1>18. ASSUME NEW t \in Threads, LogFlushCovered(t) PROVE AllControl'
  BY <1>18 DEF LogFlushCovered
<1>19. ASSUME NEW t \in Threads, FlushBegin(t) PROVE AllControl'
  BY <1>19 DEF FlushBegin
<1>20. ASSUME NEW t \in Threads, FlushEnd(t) PROVE AllControl'
  BY <1>20 DEF FlushEnd
<1>21. ASSUME NEW t \in Threads, FlushRelease(t) PROVE AllControl'
  <2>1. ReleaseEffect(t, "flush", target[t])
    BY <1>21, Effects
  <2> SUFFICES ASSUME NEW x \in Threads PROVE Control(x)'
    OBVIOUS
  <2> QED
    BY <1>0, <1>21, <2>1 DEF FlushRelease, CallRelease, ReleaseEffect
<1>22. ASSUME NEW t \in Threads, RoundReturn(t) PROVE AllControl'
  BY <1>22
          DEF RoundReturn, EndCall, ReturnToCaller, AckedByReturn, RoundOver,
        PendingLsn
<1>23. ASSUME NEW t \in Threads, RoundAgain(t) PROVE AllControl'
  BY <1>23
          DEF RoundAgain, EndCall, ReturnToCaller, AckedByReturn, RoundOver,
        PendingLsn
<1>24. ASSUME NEW t \in Threads, WriteCovered(t) PROVE AllControl'
  BY <1>24 DEF WriteCovered, EndCall, ReturnToCaller, AckedByReturn
<1>25. ASSUME NEW t \in Threads, GetLsnForFlush(t) PROVE AllControl'
  BY <1>25 DEF GetLsnForFlush, GetLsn
<1>26. ASSUME NEW t \in Threads, OwnFlush(t) PROVE AllControl'
  <2>1. AcquireEffect(t, "flush", reqlsn[t], NoCallback)
    BY <1>26, Effects
  <2> SUFFICES ASSUME NEW x \in Threads PROVE Control(x)'
    OBVIOUS
  <2> QED
    BY <1>0, <1>26, <2>1 DEF OwnFlush, CallAcquire, AcquireEffect
<1>27. ASSUME NEW t \in Threads, GetLsnForWrite(t) PROVE AllControl'
  BY <1>27 DEF GetLsnForWrite, GetLsn
<1>28. ASSUME NEW t \in Threads, OwnWrite(t) PROVE AllControl'
  <2>1. AcquireEffect(t, "write", reqlsn[t], NoCallback)
    BY <1>28, Effects
  <2> SUFFICES ASSUME NEW x \in Threads PROVE Control(x)'
    OBVIOUS
  <2> QED
    BY <1>0, <1>28, <2>1 DEF OwnWrite, CallAcquire, AcquireEffect
<1>29. ASSUME NEW t \in Threads, OwnedAll(t) PROVE AllControl'
  BY <1>29 DEF OwnedAll, Latch
<1>30. ASSUME NEW t \in Threads, ResizeUnlatch(t) PROVE AllControl'
  BY <1>30 DEF ResizeUnlatch
<1>31. ASSUME NEW t \in Threads, ResizeReleaseWrite(t) PROVE AllControl'
  <2>1. ReleaseEffect(t, "write", m_value["write"])
    BY <1>31, Effects
  <2> SUFFICES ASSUME NEW x \in Threads PROVE Control(x)'
    OBVIOUS
  <2> QED
    BY <1>0, <1>31, <2>1 DEF ResizeReleaseWrite, CallRelease, ReleaseEffect
<1>32. ASSUME NEW t \in Threads, ResizeReleaseFlush(t) PROVE AllControl'
  <2>1. ReleaseEffect(t, "flush", m_value["flush"])
    BY <1>32, Effects
  <2> SUFFICES ASSUME NEW x \in Threads PROVE Control(x)'
    OBVIOUS
  <2> QED
    BY <1>0, <1>32, <2>1 DEF ResizeReleaseFlush, CallRelease, ReleaseEffect
<1>33. ASSUME NEW t \in Threads, ResizeReturn(t) PROVE AllControl'
  BY <1>33 DEF ResizeReturn, EndCall, ReturnToCaller, AckedByReturn
<1>34. ASSUME NEW t \in Threads, ResizeAgain(t) PROVE AllControl'
  BY <1>34 DEF ResizeAgain, EndCall, ReturnToCaller, AckedByReturn
<1>35. ASSUME NEW t \in Threads, ExclusiveAppend(t) PROVE AllControl'
  BY <1>35 DEF ExclusiveAppend
<1>36. ASSUME NEW t \in Threads, WriteAndFlushDone(t) PROVE AllControl'
  BY <1>36 DEF WriteAndFlushDone, EndCall, ReturnToCaller, AckedByReturn
<1> HIDE DEF IInv, TypeOK, AllControl, Control
<1> QED
    BY <1>1, <1>2, <1>3, <1>4, <1>5, <1>6, <1>7, <1>8, <1>9, <1>10, <1>11,
     <1>12, <1>13, <1>14, <1>15, <1>16, <1>17, <1>18, <1>19, <1>20, <1>21,
     <1>22, <1>23, <1>24, <1>25, <1>26, <1>27, <1>28, <1>29, <1>30, <1>31,
     <1>32, <1>33, <1>34, <1>35, <1>36
     DEF Next, Quiet, Continue, Start

(* Ownership: only an acquire() that finds m_lock clear creates an owner,   *)
(* and only the owner releases.                                             *)
LEMMA OwnerStep ==
  IInv /\ [Next]_vars => SingleOwner'
<1> SUFFICES ASSUME IInv, [Next]_vars PROVE SingleOwner'
  OBVIOUS
<1>0. TypeOK'
  BY TypeStep DEF IInv
<1> USE LogAssumption, GroupCommitAssumption
        DEF gclVars, lockVars, threadVars, logVars, jobVars, At, Goto,
        Outside, MaxOf, SetPending, IInv, TypeOK, GclTypeOK, CallbackArg,
        ReturnCode, Got, AcquireStages, OwnStages, WriteStages, FlushStages,
        AllControl, Control, SingleOwner, Owns, OwnsWrite, OwnsFlush
<1>1. CASE Append
  BY <1>1 DEF Append
<1>2. CASE UNCHANGED vars
  BY <1>2 DEF vars
<1>3. ASSUME NEW t \in Threads, NEW n \in 1 .. MaxLsn, NEW d \in BOOLEAN,
             NEW c \in Callbacks \cup {NoCallback}, StartWriteUpTo(t, n, d, c)
      PROVE SingleOwner'
  BY <1>3 DEF StartWriteUpTo
<1>4. ASSUME NEW t \in Threads, NEW n \in 1 .. MaxLsn, TrxFlushNotNeeded(t, n)
      PROVE SingleOwner'
  BY <1>4 DEF TrxFlushNotNeeded
<1>5. ASSUME NEW t \in Threads, NEW o \in {"resize", "write_and_flush"},
   StartExclusive(t, o)
      PROVE SingleOwner'
  BY <1>5 DEF StartExclusive
<1>6. ASSUME NEW t \in Threads, InLock(t) PROVE SingleOwner'
  <2>1. MethodEffect(t)
    BY <1>6, Effects
  <2>2. UNCHANGED <<stage, durable, on>>
    BY <1>6, <2>1 DEF InLock, MethodEffect
  <2>3. \A u \in Threads \ {t} : pc'[u] = pc[u] /\ rc'[u] = rc[u]
    BY <2>1 DEF MethodEffect
  <2>4. \A u \in Threads \ {t}, l \in Locks : Owns(u, l)' <=> Owns(u, l)
    BY <2>2, <2>3
  <2>5. CASE Wakes(t)
    <3>1. \A l \in Locks : Owns(t, l)' <=> Owns(t, l)
      BY <2>2, <2>5 DEF Wakes
    <3>2. m_lock' = m_lock
      BY <2>5 DEF Wakes
    <3> QED
      BY <2>4, <3>1, <3>2, OwnerFrame
  <2>6. CASE pc[t] # "out" /\ (Waits(t) \/ Expires(t) \/ Queues(t))
    <3>1. m_lock' = m_lock /\ ~(pc'[t] = "out" /\ rc'[t].code = "ACQUIRED")
      BY <2>6 DEF Waits, Expires, Queues
    <3>2. \A l \in Locks : Owns(t, l)' <=> Owns(t, l)
      BY <2>2, <2>6, <3>1
    <3> QED
      BY <2>4, <3>1, <3>2, OwnerFrame
  <2>7. CASE pc[t] # "out" /\ Acquires(t)
    <3>1. /\ ~m_lock[on[t]] /\ m_lock' = [m_lock EXCEPT ![on[t]] = TRUE]
          /\ pc'[t] = "out" /\ rc'[t].code = "ACQUIRED"
      BY <2>7 DEF Acquires
    <3>2. \A l \in Locks : Owns(t, l)' <=> (Owns(t, l) \/ l = on[t])
      BY <2>2, <2>7, <3>1
    <3> HIDE DEF Owns
    <3> QED
      BY <2>4, <3>1, <3>2
  <2> QED
    BY <2>1, <2>5, <2>6, <2>7 DEF MethodEffect
<1>7. ASSUME NEW t \in Threads, RepeatDurable(t) PROVE SingleOwner'
  <2>1. AcquireEffect(t, "flush", reqlsn[t], callback[t])
    BY <1>7, Effects
  <2>2. ~OwnsFlush(t) /\ ~OwnsWrite(t) /\ m_lock' = m_lock
    BY <1>7, <2>1 DEF RepeatDurable, CallAcquire, AcquireEffect
  <2>3. ~OwnsFlush(t)'
    BY <1>7, <2>1 DEF RepeatDurable, CallAcquire, AcquireEffect
  <2>4. ~OwnsWrite(t)'
    BY <1>7, <2>1 DEF RepeatDurable, CallAcquire, AcquireEffect
  <2>5. \A u \in Threads \ {t}, l \in Locks : Owns(u, l)' <=> Owns(u, l)
    BY <1>7, <2>1 DEF RepeatDurable, CallAcquire, AcquireEffect
  <2>6. \A l \in Locks : Owns(t, l)' <=> Owns(t, l)
    BY <2>2, <2>3, <2>4
  <2> QED
    BY <2>2, <2>5, <2>6, OwnerFrame
<1>8. ASSUME NEW t \in Threads, RepeatWrite(t) PROVE SingleOwner'
  <2>1. AcquireEffect(t, "write", reqlsn[t], callback[t])
    BY <1>8, Effects
  <2>2. ~OwnsFlush(t) /\ ~OwnsWrite(t) /\ m_lock' = m_lock
    BY <1>8, <2>1 DEF RepeatWrite, CallAcquire, AcquireEffect
  <2>3. ~OwnsFlush(t)'
    BY <1>8, <2>1 DEF RepeatWrite, CallAcquire, AcquireEffect
  <2>4. ~OwnsWrite(t)'
    BY <1>8, <2>1 DEF RepeatWrite, CallAcquire, AcquireEffect
  <2>5. \A u \in Threads \ {t}, l \in Locks : Owns(u, l)' <=> Owns(u, l)
    BY <1>8, <2>1 DEF RepeatWrite, CallAcquire, AcquireEffect
  <2>6. \A l \in Locks : Owns(t, l)' <=> Owns(t, l)
    BY <2>2, <2>3, <2>4
  <2> QED
    BY <2>2, <2>5, <2>6, OwnerFrame
<1>9. ASSUME NEW t \in Threads, FlushNotAcquired(t) PROVE SingleOwner'
  BY <1>9 DEF FlushNotAcquired, EndCall, ReturnToCaller, AckedByReturn
<1>10. ASSUME NEW t \in Threads, FlushPromise(t) PROVE SingleOwner'
  BY <1>10 DEF FlushPromise
<1>11. ASSUME NEW t \in Threads, WriteAfterPromise(t) PROVE SingleOwner'
  <2>1. AcquireEffect(t, "write", reqlsn[t], NoCallback)
    BY <1>11, Effects
  <2>2. OwnsFlush(t) /\ ~OwnsWrite(t) /\ m_lock' = m_lock
    BY <1>11, <2>1 DEF WriteAfterPromise, CallAcquire, AcquireEffect
  <2>3. OwnsFlush(t)'
    BY <1>11, <2>1 DEF WriteAfterPromise, CallAcquire, AcquireEffect
  <2>4. ~OwnsWrite(t)'
    BY <1>11, <2>1 DEF WriteAfterPromise, CallAcquire, AcquireEffect
  <2>5. \A u \in Threads \ {t}, l \in Locks : Owns(u, l)' <=> Owns(u, l)
    BY <1>11, <2>1 DEF WriteAfterPromise, CallAcquire, AcquireEffect
  <2>6. \A l \in Locks : Owns(t, l)' <=> Owns(t, l)
    BY <2>2, <2>3, <2>4
  <2> QED
    BY <2>2, <2>5, <2>6, OwnerFrame
<1>12. ASSUME NEW t \in Threads, WriteAcquired(t) PROVE SingleOwner'
  BY <1>12 DEF WriteAcquired, Latch
<1>13. ASSUME NEW t \in Threads, WriteBufNothing(t) PROVE SingleOwner'
  BY <1>13 DEF WriteBufNothing, LatchAfterWriteBuf
<1>14. ASSUME NEW t \in Threads, WriteBuf(t) PROVE SingleOwner'
  BY <1>14 DEF WriteBuf, LatchAfterWriteBuf
<1>15. ASSUME NEW t \in Threads, LogWriteBuf(t) PROVE SingleOwner'
  BY <1>15 DEF LogWriteBuf
<1>16. ASSUME NEW t \in Threads, WriteRelease(t) PROVE SingleOwner'
  <2>1. ReleaseEffect(t, "write", target[t])
    BY <1>16, Effects
  <2> QED
    BY <1>0, <1>16, <2>1 DEF WriteRelease, CallRelease, ReleaseEffect
<1>17. ASSUME NEW t \in Threads, LogFlush(t) PROVE SingleOwner'
  BY <1>17 DEF LogFlush
<1>18. ASSUME NEW t \in Threads, LogFlushCovered(t) PROVE SingleOwner'
  BY <1>18 DEF LogFlushCovered
<1>19. ASSUME NEW t \in Threads, FlushBegin(t) PROVE SingleOwner'
  BY <1>19 DEF FlushBegin
<1>20. ASSUME NEW t \in Threads, FlushEnd(t) PROVE SingleOwner'
  BY <1>20 DEF FlushEnd
<1>21. ASSUME NEW t \in Threads, FlushRelease(t) PROVE SingleOwner'
  <2>1. ReleaseEffect(t, "flush", target[t])
    BY <1>21, Effects
  <2> QED
    BY <1>0, <1>21, <2>1 DEF FlushRelease, CallRelease, ReleaseEffect
<1>22. ASSUME NEW t \in Threads, RoundReturn(t) PROVE SingleOwner'
  BY <1>22
          DEF RoundReturn, EndCall, ReturnToCaller, AckedByReturn, RoundOver,
        PendingLsn
<1>23. ASSUME NEW t \in Threads, RoundAgain(t) PROVE SingleOwner'
  BY <1>23
          DEF RoundAgain, EndCall, ReturnToCaller, AckedByReturn, RoundOver,
        PendingLsn
<1>24. ASSUME NEW t \in Threads, WriteCovered(t) PROVE SingleOwner'
  BY <1>24 DEF WriteCovered, EndCall, ReturnToCaller, AckedByReturn
<1>25. ASSUME NEW t \in Threads, GetLsnForFlush(t) PROVE SingleOwner'
  BY <1>25 DEF GetLsnForFlush, GetLsn
<1>26. ASSUME NEW t \in Threads, OwnFlush(t) PROVE SingleOwner'
  <2>1. AcquireEffect(t, "flush", reqlsn[t], NoCallback)
    BY <1>26, Effects
  <2>2. ~OwnsFlush(t) /\ ~OwnsWrite(t) /\ m_lock' = m_lock
    BY <1>26, <2>1 DEF OwnFlush, CallAcquire, AcquireEffect
  <2>3. ~OwnsFlush(t)'
    BY <1>26, <2>1 DEF OwnFlush, CallAcquire, AcquireEffect
  <2>4. ~OwnsWrite(t)'
    BY <1>26, <2>1 DEF OwnFlush, CallAcquire, AcquireEffect
  <2>5. \A u \in Threads \ {t}, l \in Locks : Owns(u, l)' <=> Owns(u, l)
    BY <1>26, <2>1 DEF OwnFlush, CallAcquire, AcquireEffect
  <2>6. \A l \in Locks : Owns(t, l)' <=> Owns(t, l)
    BY <2>2, <2>3, <2>4
  <2> QED
    BY <2>2, <2>5, <2>6, OwnerFrame
<1>27. ASSUME NEW t \in Threads, GetLsnForWrite(t) PROVE SingleOwner'
  BY <1>27 DEF GetLsnForWrite, GetLsn
<1>28. ASSUME NEW t \in Threads, OwnWrite(t) PROVE SingleOwner'
  <2>1. AcquireEffect(t, "write", reqlsn[t], NoCallback)
    BY <1>28, Effects
  <2>2. OwnsFlush(t) /\ ~OwnsWrite(t) /\ m_lock' = m_lock
    BY <1>28, <2>1 DEF OwnWrite, CallAcquire, AcquireEffect
  <2>3. OwnsFlush(t)'
    BY <1>28, <2>1 DEF OwnWrite, CallAcquire, AcquireEffect
  <2>4. ~OwnsWrite(t)'
    BY <1>28, <2>1 DEF OwnWrite, CallAcquire, AcquireEffect
  <2>5. \A u \in Threads \ {t}, l \in Locks : Owns(u, l)' <=> Owns(u, l)
    BY <1>28, <2>1 DEF OwnWrite, CallAcquire, AcquireEffect
  <2>6. \A l \in Locks : Owns(t, l)' <=> Owns(t, l)
    BY <2>2, <2>3, <2>4
  <2> QED
    BY <2>2, <2>5, <2>6, OwnerFrame
<1>29. ASSUME NEW t \in Threads, OwnedAll(t) PROVE SingleOwner'
  BY <1>29 DEF OwnedAll, Latch
<1>30. ASSUME NEW t \in Threads, ResizeUnlatch(t) PROVE SingleOwner'
  BY <1>30 DEF ResizeUnlatch
<1>31. ASSUME NEW t \in Threads, ResizeReleaseWrite(t) PROVE SingleOwner'
  <2>1. ReleaseEffect(t, "write", m_value["write"])
    BY <1>31, Effects
  <2> QED
    BY <1>0, <1>31, <2>1 DEF ResizeReleaseWrite, CallRelease, ReleaseEffect
<1>32. ASSUME NEW t \in Threads, ResizeReleaseFlush(t) PROVE SingleOwner'
  <2>1. ReleaseEffect(t, "flush", m_value["flush"])
    BY <1>32, Effects
  <2> QED
    BY <1>0, <1>32, <2>1 DEF ResizeReleaseFlush, CallRelease, ReleaseEffect
<1>33. ASSUME NEW t \in Threads, ResizeReturn(t) PROVE SingleOwner'
  BY <1>33 DEF ResizeReturn, EndCall, ReturnToCaller, AckedByReturn
<1>34. ASSUME NEW t \in Threads, ResizeAgain(t) PROVE SingleOwner'
  BY <1>34 DEF ResizeAgain, EndCall, ReturnToCaller, AckedByReturn
<1>35. ASSUME NEW t \in Threads, ExclusiveAppend(t) PROVE SingleOwner'
  BY <1>35 DEF ExclusiveAppend
<1>36. ASSUME NEW t \in Threads, WriteAndFlushDone(t) PROVE SingleOwner'
  BY <1>36 DEF WriteAndFlushDone, EndCall, ReturnToCaller, AckedByReturn
<1> HIDE DEF IInv, TypeOK, AllControl, SingleOwner, Control
<1> QED
    BY <1>1, <1>2, <1>3, <1>4, <1>5, <1>6, <1>7, <1>8, <1>9, <1>10, <1>11,
     <1>12, <1>13, <1>14, <1>15, <1>16, <1>17, <1>18, <1>19, <1>20, <1>21,
     <1>22, <1>23, <1>24, <1>25, <1>26, <1>27, <1>28, <1>29, <1>30, <1>31,
     <1>32, <1>33, <1>34, <1>35, <1>36
     DEF Next, Quiet, Continue, Start

(* The published positions stay behind the I/O they stand for.              *)
LEMMA PublishedStep ==
  IInv /\ [Next]_vars => Published'
<1> SUFFICES ASSUME IInv, [Next]_vars PROVE Published'
  OBVIOUS
<1>0. TypeOK'
  BY TypeStep DEF IInv
<1> USE LogAssumption, GroupCommitAssumption
        DEF gclVars, lockVars, threadVars, logVars, jobVars, At, Goto,
        Outside, MaxOf, SetPending, IInv, TypeOK, GclTypeOK, CallbackArg,
        ReturnCode, Got, AcquireStages, OwnStages, WriteStages, FlushStages,
        Published, PublishedIsDone, AllProgress, Progress
<1>1. CASE Append
  BY <1>1 DEF Append
<1>2. CASE UNCHANGED vars
  BY <1>2 DEF vars
<1>3. ASSUME NEW t \in Threads, NEW n \in 1 .. MaxLsn, NEW d \in BOOLEAN,
             NEW c \in Callbacks \cup {NoCallback}, StartWriteUpTo(t, n, d, c)
      PROVE Published'
  BY <1>3 DEF StartWriteUpTo
<1>4. ASSUME NEW t \in Threads, NEW n \in 1 .. MaxLsn, TrxFlushNotNeeded(t, n)
      PROVE Published'
  BY <1>4 DEF TrxFlushNotNeeded
<1>5. ASSUME NEW t \in Threads, NEW o \in {"resize", "write_and_flush"},
   StartExclusive(t, o)
      PROVE Published'
  BY <1>5 DEF StartExclusive
<1>6. ASSUME NEW t \in Threads, InLock(t) PROVE Published'
  <2>1. MethodEffect(t)
    BY <1>6, Effects
  <2>2. CASE Wakes(t)
    BY <1>6, <2>1, <2>2 DEF InLock, MethodEffect, Wakes
  <2>3. CASE pc[t] # "out" /\ Waits(t)
    BY <1>6, <2>1, <2>3 DEF InLock, MethodEffect, Waits
  <2>4. CASE pc[t] # "out" /\ Expires(t)
    BY <1>6, <2>1, <2>4 DEF InLock, MethodEffect, Expires
  <2>5. CASE pc[t] # "out" /\ Acquires(t)
    BY <1>6, <2>1, <2>5 DEF InLock, MethodEffect, Acquires
  <2>6. CASE pc[t] # "out" /\ Queues(t)
    BY <1>6, <2>1, <2>6 DEF InLock, MethodEffect, Queues
  <2> QED
    BY <2>1, <2>2, <2>3, <2>4, <2>5, <2>6 DEF MethodEffect
<1>7. ASSUME NEW t \in Threads, RepeatDurable(t) PROVE Published'
  <2>1. AcquireEffect(t, "flush", reqlsn[t], callback[t])
    BY <1>7, Effects
  <2> QED
    BY <1>0, <1>7, <2>1 DEF RepeatDurable, CallAcquire, AcquireEffect
<1>8. ASSUME NEW t \in Threads, RepeatWrite(t) PROVE Published'
  <2>1. AcquireEffect(t, "write", reqlsn[t], callback[t])
    BY <1>8, Effects
  <2> QED
    BY <1>0, <1>8, <2>1 DEF RepeatWrite, CallAcquire, AcquireEffect
<1>9. ASSUME NEW t \in Threads, FlushNotAcquired(t) PROVE Published'
  BY <1>9 DEF FlushNotAcquired, EndCall, ReturnToCaller, AckedByReturn
<1>10. ASSUME NEW t \in Threads, FlushPromise(t) PROVE Published'
  BY <1>10 DEF FlushPromise
<1>11. ASSUME NEW t \in Threads, WriteAfterPromise(t) PROVE Published'
  <2>1. AcquireEffect(t, "write", reqlsn[t], NoCallback)
    BY <1>11, Effects
  <2> QED
    BY <1>0, <1>11, <2>1 DEF WriteAfterPromise, CallAcquire, AcquireEffect
<1>12. ASSUME NEW t \in Threads, WriteAcquired(t) PROVE Published'
  BY <1>12 DEF WriteAcquired, Latch
<1>13. ASSUME NEW t \in Threads, WriteBufNothing(t) PROVE Published'
  BY <1>13 DEF WriteBufNothing, LatchAfterWriteBuf
<1>14. ASSUME NEW t \in Threads, WriteBuf(t) PROVE Published'
  BY <1>14 DEF WriteBuf, LatchAfterWriteBuf
<1>15. ASSUME NEW t \in Threads, LogWriteBuf(t) PROVE Published'
  BY <1>15 DEF LogWriteBuf
<1>16. ASSUME NEW t \in Threads, WriteRelease(t) PROVE Published'
  <2>1. ReleaseEffect(t, "write", target[t])
    BY <1>16, Effects
  <2> QED
    BY <1>0, <1>16, <2>1 DEF WriteRelease, CallRelease, ReleaseEffect
<1>17. ASSUME NEW t \in Threads, LogFlush(t) PROVE Published'
  BY <1>17 DEF LogFlush
<1>18. ASSUME NEW t \in Threads, LogFlushCovered(t) PROVE Published'
  BY <1>18 DEF LogFlushCovered
<1>19. ASSUME NEW t \in Threads, FlushBegin(t) PROVE Published'
  BY <1>19 DEF FlushBegin
<1>20. ASSUME NEW t \in Threads, FlushEnd(t) PROVE Published'
  BY <1>20 DEF FlushEnd
<1>21. ASSUME NEW t \in Threads, FlushRelease(t) PROVE Published'
  <2>1. ReleaseEffect(t, "flush", target[t])
    BY <1>21, Effects
  <2> QED
    BY <1>0, <1>21, <2>1 DEF FlushRelease, CallRelease, ReleaseEffect
<1>22. ASSUME NEW t \in Threads, RoundReturn(t) PROVE Published'
  BY <1>22
          DEF RoundReturn, EndCall, ReturnToCaller, AckedByReturn, RoundOver,
        PendingLsn
<1>23. ASSUME NEW t \in Threads, RoundAgain(t) PROVE Published'
  BY <1>23
          DEF RoundAgain, EndCall, ReturnToCaller, AckedByReturn, RoundOver,
        PendingLsn
<1>24. ASSUME NEW t \in Threads, WriteCovered(t) PROVE Published'
  BY <1>24 DEF WriteCovered, EndCall, ReturnToCaller, AckedByReturn
<1>25. ASSUME NEW t \in Threads, GetLsnForFlush(t) PROVE Published'
  BY <1>25 DEF GetLsnForFlush, GetLsn
<1>26. ASSUME NEW t \in Threads, OwnFlush(t) PROVE Published'
  <2>1. AcquireEffect(t, "flush", reqlsn[t], NoCallback)
    BY <1>26, Effects
  <2> QED
    BY <1>0, <1>26, <2>1 DEF OwnFlush, CallAcquire, AcquireEffect
<1>27. ASSUME NEW t \in Threads, GetLsnForWrite(t) PROVE Published'
  BY <1>27 DEF GetLsnForWrite, GetLsn
<1>28. ASSUME NEW t \in Threads, OwnWrite(t) PROVE Published'
  <2>1. AcquireEffect(t, "write", reqlsn[t], NoCallback)
    BY <1>28, Effects
  <2> QED
    BY <1>0, <1>28, <2>1 DEF OwnWrite, CallAcquire, AcquireEffect
<1>29. ASSUME NEW t \in Threads, OwnedAll(t) PROVE Published'
  BY <1>29 DEF OwnedAll, Latch
<1>30. ASSUME NEW t \in Threads, ResizeUnlatch(t) PROVE Published'
  BY <1>30 DEF ResizeUnlatch
<1>31. ASSUME NEW t \in Threads, ResizeReleaseWrite(t) PROVE Published'
  <2>1. ReleaseEffect(t, "write", m_value["write"])
    BY <1>31, Effects
  <2> QED
    BY <1>0, <1>31, <2>1 DEF ResizeReleaseWrite, CallRelease, ReleaseEffect
<1>32. ASSUME NEW t \in Threads, ResizeReleaseFlush(t) PROVE Published'
  <2>1. ReleaseEffect(t, "flush", m_value["flush"])
    BY <1>32, Effects
  <2> QED
    BY <1>0, <1>32, <2>1 DEF ResizeReleaseFlush, CallRelease, ReleaseEffect
<1>33. ASSUME NEW t \in Threads, ResizeReturn(t) PROVE Published'
  BY <1>33 DEF ResizeReturn, EndCall, ReturnToCaller, AckedByReturn
<1>34. ASSUME NEW t \in Threads, ResizeAgain(t) PROVE Published'
  BY <1>34 DEF ResizeAgain, EndCall, ReturnToCaller, AckedByReturn
<1>35. ASSUME NEW t \in Threads, ExclusiveAppend(t) PROVE Published'
  BY <1>35 DEF ExclusiveAppend
<1>36. ASSUME NEW t \in Threads, WriteAndFlushDone(t) PROVE Published'
  BY <1>36 DEF WriteAndFlushDone, EndCall, ReturnToCaller, AckedByReturn
<1> HIDE DEF IInv, TypeOK, Published, PublishedIsDone, AllProgress
<1> QED
    BY <1>1, <1>2, <1>3, <1>4, <1>5, <1>6, <1>7, <1>8, <1>9, <1>10, <1>11,
     <1>12, <1>13, <1>14, <1>15, <1>16, <1>17, <1>18, <1>19, <1>20, <1>21,
     <1>22, <1>23, <1>24, <1>25, <1>26, <1>27, <1>28, <1>29, <1>30, <1>31,
     <1>32, <1>33, <1>34, <1>35, <1>36
     DEF Next, Quiet, Continue, Start

(* An EXPIRED stays true: values only grow, and the thread that got it has  *)
(* not moved.                                                               *)
LEMMA AnswerStep ==
  IInv /\ [Next]_vars => AllAnswer'
<1> SUFFICES ASSUME IInv, [Next]_vars PROVE AllAnswer'
  OBVIOUS
<1>0. TypeOK'
  BY TypeStep DEF IInv
<1> USE LogAssumption, GroupCommitAssumption
        DEF gclVars, lockVars, threadVars, logVars, jobVars, At, Goto,
        Outside, MaxOf, SetPending, IInv, TypeOK, GclTypeOK, CallbackArg,
        ReturnCode, Got, AcquireStages, OwnStages, WriteStages, FlushStages,
        AllControl, Control, AllAnswer, Answer, Published, PublishedIsDone,
        AllProgress, Progress
<1>1. CASE Append
  BY <1>1 DEF Append
<1>2. CASE UNCHANGED vars
  BY <1>2 DEF vars
<1>3. ASSUME NEW t \in Threads, NEW n \in 1 .. MaxLsn, NEW d \in BOOLEAN,
             NEW c \in Callbacks \cup {NoCallback}, StartWriteUpTo(t, n, d, c)
      PROVE AllAnswer'
  BY <1>3 DEF StartWriteUpTo
<1>4. ASSUME NEW t \in Threads, NEW n \in 1 .. MaxLsn, TrxFlushNotNeeded(t, n)
      PROVE AllAnswer'
  BY <1>4 DEF TrxFlushNotNeeded
<1>5. ASSUME NEW t \in Threads, NEW o \in {"resize", "write_and_flush"},
   StartExclusive(t, o)
      PROVE AllAnswer'
  BY <1>5 DEF StartExclusive
<1>6. ASSUME NEW t \in Threads, InLock(t) PROVE AllAnswer'
  <2>1. MethodEffect(t)
    BY <1>6, Effects
  <2>2. UNCHANGED <<stage, m_value, on, num, cb>>
    BY <1>6, <2>1 DEF InLock, MethodEffect
  <2> SUFFICES ASSUME NEW x \in Threads PROVE Answer(x)'
    OBVIOUS
  <2> HIDE DEF TypeOK, AllControl, Published, AllProgress
  <2>3. CASE x # t
    BY <2>1, <2>2, <2>3 DEF MethodEffect
  <2>4. CASE x = t /\ Wakes(t)
    BY <2>2, <2>4 DEF Wakes
  <2>5. CASE x = t /\ (Waits(t) \/ Expires(t) \/ Acquires(t) \/ Queues(t))
    BY <2>2, <2>5 DEF Waits, Expires, Acquires, Queues
  <2> QED
    BY <2>1, <2>3, <2>4, <2>5 DEF MethodEffect
<1>7. ASSUME NEW t \in Threads, RepeatDurable(t) PROVE AllAnswer'
  <2>1. AcquireEffect(t, "flush", reqlsn[t], callback[t])
    BY <1>7, Effects
  <2> SUFFICES ASSUME NEW x \in Threads PROVE Answer(x)'
    OBVIOUS
  <2> QED
    BY <1>0, <1>7, <2>1 DEF RepeatDurable, CallAcquire, AcquireEffect
<1>8. ASSUME NEW t \in Threads, RepeatWrite(t) PROVE AllAnswer'
  <2>1. AcquireEffect(t, "write", reqlsn[t], callback[t])
    BY <1>8, Effects
  <2> SUFFICES ASSUME NEW x \in Threads PROVE Answer(x)'
    OBVIOUS
  <2> QED
    BY <1>0, <1>8, <2>1 DEF RepeatWrite, CallAcquire, AcquireEffect
<1>9. ASSUME NEW t \in Threads, FlushNotAcquired(t) PROVE AllAnswer'
  BY <1>9 DEF FlushNotAcquired, EndCall, ReturnToCaller, AckedByReturn
<1>10. ASSUME NEW t \in Threads, FlushPromise(t) PROVE AllAnswer'
  BY <1>10 DEF FlushPromise
<1>11. ASSUME NEW t \in Threads, WriteAfterPromise(t) PROVE AllAnswer'
  <2>1. AcquireEffect(t, "write", reqlsn[t], NoCallback)
    BY <1>11, Effects
  <2> SUFFICES ASSUME NEW x \in Threads PROVE Answer(x)'
    OBVIOUS
  <2> QED
    BY <1>0, <1>11, <2>1 DEF WriteAfterPromise, CallAcquire, AcquireEffect
<1>12. ASSUME NEW t \in Threads, WriteAcquired(t) PROVE AllAnswer'
  BY <1>12 DEF WriteAcquired, Latch
<1>13. ASSUME NEW t \in Threads, WriteBufNothing(t) PROVE AllAnswer'
  BY <1>13 DEF WriteBufNothing, LatchAfterWriteBuf
<1>14. ASSUME NEW t \in Threads, WriteBuf(t) PROVE AllAnswer'
  BY <1>14 DEF WriteBuf, LatchAfterWriteBuf
<1>15. ASSUME NEW t \in Threads, LogWriteBuf(t) PROVE AllAnswer'
  BY <1>15 DEF LogWriteBuf
<1>16. ASSUME NEW t \in Threads, WriteRelease(t) PROVE AllAnswer'
  <2>1. ReleaseEffect(t, "write", target[t])
    BY <1>16, Effects
  <2> SUFFICES ASSUME NEW x \in Threads PROVE Answer(x)'
    OBVIOUS
  <2> QED
    BY <1>0, <1>16, <2>1 DEF WriteRelease, CallRelease, ReleaseEffect
<1>17. ASSUME NEW t \in Threads, LogFlush(t) PROVE AllAnswer'
  BY <1>17 DEF LogFlush
<1>18. ASSUME NEW t \in Threads, LogFlushCovered(t) PROVE AllAnswer'
  BY <1>18 DEF LogFlushCovered
<1>19. ASSUME NEW t \in Threads, FlushBegin(t) PROVE AllAnswer'
  BY <1>19 DEF FlushBegin
<1>20. ASSUME NEW t \in Threads, FlushEnd(t) PROVE AllAnswer'
  BY <1>20 DEF FlushEnd
<1>21. ASSUME NEW t \in Threads, FlushRelease(t) PROVE AllAnswer'
  <2>1. ReleaseEffect(t, "flush", target[t])
    BY <1>21, Effects
  <2> SUFFICES ASSUME NEW x \in Threads PROVE Answer(x)'
    OBVIOUS
  <2> QED
    BY <1>0, <1>21, <2>1 DEF FlushRelease, CallRelease, ReleaseEffect
<1>22. ASSUME NEW t \in Threads, RoundReturn(t) PROVE AllAnswer'
  BY <1>22
          DEF RoundReturn, EndCall, ReturnToCaller, AckedByReturn, RoundOver,
        PendingLsn
<1>23. ASSUME NEW t \in Threads, RoundAgain(t) PROVE AllAnswer'
  BY <1>23
          DEF RoundAgain, EndCall, ReturnToCaller, AckedByReturn, RoundOver,
        PendingLsn
<1>24. ASSUME NEW t \in Threads, WriteCovered(t) PROVE AllAnswer'
  BY <1>24 DEF WriteCovered, EndCall, ReturnToCaller, AckedByReturn
<1>25. ASSUME NEW t \in Threads, GetLsnForFlush(t) PROVE AllAnswer'
  BY <1>25 DEF GetLsnForFlush, GetLsn
<1>26. ASSUME NEW t \in Threads, OwnFlush(t) PROVE AllAnswer'
  <2>1. AcquireEffect(t, "flush", reqlsn[t], NoCallback)
    BY <1>26, Effects
  <2> SUFFICES ASSUME NEW x \in Threads PROVE Answer(x)'
    OBVIOUS
  <2> QED
    BY <1>0, <1>26, <2>1 DEF OwnFlush, CallAcquire, AcquireEffect
<1>27. ASSUME NEW t \in Threads, GetLsnForWrite(t) PROVE AllAnswer'
  BY <1>27 DEF GetLsnForWrite, GetLsn
<1>28. ASSUME NEW t \in Threads, OwnWrite(t) PROVE AllAnswer'
  <2>1. AcquireEffect(t, "write", reqlsn[t], NoCallback)
    BY <1>28, Effects
  <2> SUFFICES ASSUME NEW x \in Threads PROVE Answer(x)'
    OBVIOUS
  <2> QED
    BY <1>0, <1>28, <2>1 DEF OwnWrite, CallAcquire, AcquireEffect
<1>29. ASSUME NEW t \in Threads, OwnedAll(t) PROVE AllAnswer'
  BY <1>29 DEF OwnedAll, Latch
<1>30. ASSUME NEW t \in Threads, ResizeUnlatch(t) PROVE AllAnswer'
  BY <1>30 DEF ResizeUnlatch
<1>31. ASSUME NEW t \in Threads, ResizeReleaseWrite(t) PROVE AllAnswer'
  <2>1. ReleaseEffect(t, "write", m_value["write"])
    BY <1>31, Effects
  <2> SUFFICES ASSUME NEW x \in Threads PROVE Answer(x)'
    OBVIOUS
  <2> QED
    BY <1>0, <1>31, <2>1 DEF ResizeReleaseWrite, CallRelease, ReleaseEffect
<1>32. ASSUME NEW t \in Threads, ResizeReleaseFlush(t) PROVE AllAnswer'
  <2>1. ReleaseEffect(t, "flush", m_value["flush"])
    BY <1>32, Effects
  <2> SUFFICES ASSUME NEW x \in Threads PROVE Answer(x)'
    OBVIOUS
  <2> QED
    BY <1>0, <1>32, <2>1 DEF ResizeReleaseFlush, CallRelease, ReleaseEffect
<1>33. ASSUME NEW t \in Threads, ResizeReturn(t) PROVE AllAnswer'
  BY <1>33 DEF ResizeReturn, EndCall, ReturnToCaller, AckedByReturn
<1>34. ASSUME NEW t \in Threads, ResizeAgain(t) PROVE AllAnswer'
  BY <1>34 DEF ResizeAgain, EndCall, ReturnToCaller, AckedByReturn
<1>35. ASSUME NEW t \in Threads, ExclusiveAppend(t) PROVE AllAnswer'
  BY <1>35 DEF ExclusiveAppend
<1>36. ASSUME NEW t \in Threads, WriteAndFlushDone(t) PROVE AllAnswer'
  BY <1>36 DEF WriteAndFlushDone, EndCall, ReturnToCaller, AckedByReturn
<1> HIDE DEF IInv, TypeOK, AllControl, Published, PublishedIsDone,
            AllProgress, AllAnswer
<1> QED
    BY <1>1, <1>2, <1>3, <1>4, <1>5, <1>6, <1>7, <1>8, <1>9, <1>10, <1>11,
     <1>12, <1>13, <1>14, <1>15, <1>16, <1>17, <1>18, <1>19, <1>20, <1>21,
     <1>22, <1>23, <1>24, <1>25, <1>26, <1>27, <1>28, <1>29, <1>30, <1>31,
     <1>32, <1>33, <1>34, <1>35, <1>36
     DEF Next, Quiet, Continue, Start

(* While log_write_and_flush() keeps the latch, the log does not grow.      *)
LEMMA LatchedStep ==
  IInv /\ [Next]_vars => AllLatched'
<1> SUFFICES ASSUME IInv, [Next]_vars PROVE AllLatched'
  OBVIOUS
<1>0. TypeOK'
  BY TypeStep DEF IInv
<1> USE LogAssumption, GroupCommitAssumption
        DEF gclVars, lockVars, threadVars, logVars, jobVars, At, Goto,
        Outside, MaxOf, SetPending, IInv, TypeOK, GclTypeOK, CallbackArg,
        ReturnCode, Got, AcquireStages, OwnStages, WriteStages, FlushStages,
        AllControl, Control, AllLatched, Latched, Published, PublishedIsDone
<1>1. CASE Append
  BY <1>1 DEF Append
<1>2. CASE UNCHANGED vars
  BY <1>2 DEF vars
<1>3. ASSUME NEW t \in Threads, NEW n \in 1 .. MaxLsn, NEW d \in BOOLEAN,
             NEW c \in Callbacks \cup {NoCallback}, StartWriteUpTo(t, n, d, c)
      PROVE AllLatched'
  BY <1>3 DEF StartWriteUpTo
<1>4. ASSUME NEW t \in Threads, NEW n \in 1 .. MaxLsn, TrxFlushNotNeeded(t, n)
      PROVE AllLatched'
  BY <1>4 DEF TrxFlushNotNeeded
<1>5. ASSUME NEW t \in Threads, NEW o \in {"resize", "write_and_flush"},
   StartExclusive(t, o)
      PROVE AllLatched'
  BY <1>5 DEF StartExclusive
<1>6. ASSUME NEW t \in Threads, InLock(t) PROVE AllLatched'
  <2>1. MethodEffect(t)
    BY <1>6, Effects
  <2> SUFFICES ASSUME NEW x \in Threads PROVE Latched(x)'
    OBVIOUS
  <2>2. CASE Wakes(t)
    BY <1>6, <2>1, <2>2 DEF InLock, MethodEffect, Wakes
  <2>3. CASE pc[t] # "out" /\ Waits(t)
    BY <1>6, <2>1, <2>3 DEF InLock, MethodEffect, Waits
  <2>4. CASE pc[t] # "out" /\ Expires(t)
    BY <1>6, <2>1, <2>4 DEF InLock, MethodEffect, Expires
  <2>5. CASE pc[t] # "out" /\ Acquires(t)
    BY <1>6, <2>1, <2>5 DEF InLock, MethodEffect, Acquires
  <2>6. CASE pc[t] # "out" /\ Queues(t)
    BY <1>6, <2>1, <2>6 DEF InLock, MethodEffect, Queues
  <2> QED
    BY <2>1, <2>2, <2>3, <2>4, <2>5, <2>6 DEF MethodEffect
<1>7. ASSUME NEW t \in Threads, RepeatDurable(t) PROVE AllLatched'
  <2>1. AcquireEffect(t, "flush", reqlsn[t], callback[t])
    BY <1>7, Effects
  <2> SUFFICES ASSUME NEW x \in Threads PROVE Latched(x)'
    OBVIOUS
  <2> QED
    BY <1>0, <1>7, <2>1 DEF RepeatDurable, CallAcquire, AcquireEffect
<1>8. ASSUME NEW t \in Threads, RepeatWrite(t) PROVE AllLatched'
  <2>1. AcquireEffect(t, "write", reqlsn[t], callback[t])
    BY <1>8, Effects
  <2> SUFFICES ASSUME NEW x \in Threads PROVE Latched(x)'
    OBVIOUS
  <2> QED
    BY <1>0, <1>8, <2>1 DEF RepeatWrite, CallAcquire, AcquireEffect
<1>9. ASSUME NEW t \in Threads, FlushNotAcquired(t) PROVE AllLatched'
  BY <1>9 DEF FlushNotAcquired, EndCall, ReturnToCaller, AckedByReturn
<1>10. ASSUME NEW t \in Threads, FlushPromise(t) PROVE AllLatched'
  BY <1>10 DEF FlushPromise
<1>11. ASSUME NEW t \in Threads, WriteAfterPromise(t) PROVE AllLatched'
  <2>1. AcquireEffect(t, "write", reqlsn[t], NoCallback)
    BY <1>11, Effects
  <2> SUFFICES ASSUME NEW x \in Threads PROVE Latched(x)'
    OBVIOUS
  <2> QED
    BY <1>0, <1>11, <2>1 DEF WriteAfterPromise, CallAcquire, AcquireEffect
<1>12. ASSUME NEW t \in Threads, WriteAcquired(t) PROVE AllLatched'
  BY <1>12 DEF WriteAcquired, Latch
<1>13. ASSUME NEW t \in Threads, WriteBufNothing(t) PROVE AllLatched'
  BY <1>13 DEF WriteBufNothing, LatchAfterWriteBuf
<1>14. ASSUME NEW t \in Threads, WriteBuf(t) PROVE AllLatched'
  BY <1>14 DEF WriteBuf, LatchAfterWriteBuf
<1>15. ASSUME NEW t \in Threads, LogWriteBuf(t) PROVE AllLatched'
  BY <1>15 DEF LogWriteBuf
<1>16. ASSUME NEW t \in Threads, WriteRelease(t) PROVE AllLatched'
  <2>1. ReleaseEffect(t, "write", target[t])
    BY <1>16, Effects
  <2> SUFFICES ASSUME NEW x \in Threads PROVE Latched(x)'
    OBVIOUS
  <2> QED
    BY <1>0, <1>16, <2>1 DEF WriteRelease, CallRelease, ReleaseEffect
<1>17. ASSUME NEW t \in Threads, LogFlush(t) PROVE AllLatched'
  BY <1>17 DEF LogFlush
<1>18. ASSUME NEW t \in Threads, LogFlushCovered(t) PROVE AllLatched'
  BY <1>18 DEF LogFlushCovered
<1>19. ASSUME NEW t \in Threads, FlushBegin(t) PROVE AllLatched'
  BY <1>19 DEF FlushBegin
<1>20. ASSUME NEW t \in Threads, FlushEnd(t) PROVE AllLatched'
  BY <1>20 DEF FlushEnd
<1>21. ASSUME NEW t \in Threads, FlushRelease(t) PROVE AllLatched'
  <2>1. ReleaseEffect(t, "flush", target[t])
    BY <1>21, Effects
  <2> SUFFICES ASSUME NEW x \in Threads PROVE Latched(x)'
    OBVIOUS
  <2> QED
    BY <1>0, <1>21, <2>1 DEF FlushRelease, CallRelease, ReleaseEffect
<1>22. ASSUME NEW t \in Threads, RoundReturn(t) PROVE AllLatched'
  BY <1>22
          DEF RoundReturn, EndCall, ReturnToCaller, AckedByReturn, RoundOver,
        PendingLsn
<1>23. ASSUME NEW t \in Threads, RoundAgain(t) PROVE AllLatched'
  BY <1>23
          DEF RoundAgain, EndCall, ReturnToCaller, AckedByReturn, RoundOver,
        PendingLsn
<1>24. ASSUME NEW t \in Threads, WriteCovered(t) PROVE AllLatched'
  BY <1>24 DEF WriteCovered, EndCall, ReturnToCaller, AckedByReturn
<1>25. ASSUME NEW t \in Threads, GetLsnForFlush(t) PROVE AllLatched'
  BY <1>25 DEF GetLsnForFlush, GetLsn
<1>26. ASSUME NEW t \in Threads, OwnFlush(t) PROVE AllLatched'
  <2>1. AcquireEffect(t, "flush", reqlsn[t], NoCallback)
    BY <1>26, Effects
  <2> SUFFICES ASSUME NEW x \in Threads PROVE Latched(x)'
    OBVIOUS
  <2> QED
    BY <1>0, <1>26, <2>1 DEF OwnFlush, CallAcquire, AcquireEffect
<1>27. ASSUME NEW t \in Threads, GetLsnForWrite(t) PROVE AllLatched'
  BY <1>27 DEF GetLsnForWrite, GetLsn
<1>28. ASSUME NEW t \in Threads, OwnWrite(t) PROVE AllLatched'
  <2>1. AcquireEffect(t, "write", reqlsn[t], NoCallback)
    BY <1>28, Effects
  <2> SUFFICES ASSUME NEW x \in Threads PROVE Latched(x)'
    OBVIOUS
  <2> QED
    BY <1>0, <1>28, <2>1 DEF OwnWrite, CallAcquire, AcquireEffect
<1>29. ASSUME NEW t \in Threads, OwnedAll(t) PROVE AllLatched'
  BY <1>29 DEF OwnedAll, Latch
<1>30. ASSUME NEW t \in Threads, ResizeUnlatch(t) PROVE AllLatched'
  BY <1>30 DEF ResizeUnlatch
<1>31. ASSUME NEW t \in Threads, ResizeReleaseWrite(t) PROVE AllLatched'
  <2>1. ReleaseEffect(t, "write", m_value["write"])
    BY <1>31, Effects
  <2> SUFFICES ASSUME NEW x \in Threads PROVE Latched(x)'
    OBVIOUS
  <2> QED
    BY <1>0, <1>31, <2>1 DEF ResizeReleaseWrite, CallRelease, ReleaseEffect
<1>32. ASSUME NEW t \in Threads, ResizeReleaseFlush(t) PROVE AllLatched'
  <2>1. ReleaseEffect(t, "flush", m_value["flush"])
    BY <1>32, Effects
  <2> SUFFICES ASSUME NEW x \in Threads PROVE Latched(x)'
    OBVIOUS
  <2> QED
    BY <1>0, <1>32, <2>1 DEF ResizeReleaseFlush, CallRelease, ReleaseEffect
<1>33. ASSUME NEW t \in Threads, ResizeReturn(t) PROVE AllLatched'
  BY <1>33 DEF ResizeReturn, EndCall, ReturnToCaller, AckedByReturn
<1>34. ASSUME NEW t \in Threads, ResizeAgain(t) PROVE AllLatched'
  BY <1>34 DEF ResizeAgain, EndCall, ReturnToCaller, AckedByReturn
<1>35. ASSUME NEW t \in Threads, ExclusiveAppend(t) PROVE AllLatched'
  BY <1>35 DEF ExclusiveAppend
<1>36. ASSUME NEW t \in Threads, WriteAndFlushDone(t) PROVE AllLatched'
  BY <1>36 DEF WriteAndFlushDone, EndCall, ReturnToCaller, AckedByReturn
<1> HIDE DEF IInv, TypeOK, AllControl, AllLatched, Published, PublishedIsDone
<1> QED
    BY <1>1, <1>2, <1>3, <1>4, <1>5, <1>6, <1>7, <1>8, <1>9, <1>10, <1>11,
     <1>12, <1>13, <1>14, <1>15, <1>16, <1>17, <1>18, <1>19, <1>20, <1>21,
     <1>22, <1>23, <1>24, <1>25, <1>26, <1>27, <1>28, <1>29, <1>30, <1>31,
     <1>32, <1>33, <1>34, <1>35, <1>36
     DEF Next, Quiet, Continue, Start

(* The write or flush in progress: its owner alone moves write_lsn and      *)
(* flushed_to_disk_lsn.                                                     *)
LEMMA ProgressStep ==
  IInv /\ [Next]_vars => AllProgress'
<1> SUFFICES ASSUME IInv, [Next]_vars PROVE AllProgress'
  OBVIOUS
<1>0. TypeOK'
  BY TypeStep DEF IInv
<1> USE LogAssumption, GroupCommitAssumption
        DEF gclVars, lockVars, threadVars, logVars, jobVars, At, Goto,
        Outside, MaxOf, SetPending, IInv, TypeOK, GclTypeOK, CallbackArg,
        ReturnCode, Got, AcquireStages, OwnStages, WriteStages, FlushStages,
        AllControl, Control, SingleOwner, Owns, OwnsWrite, OwnsFlush,
        AllAnswer, Answer, Published, PublishedIsDone, AllProgress, Progress,
        AllQueued, Queued, AllLatched, Latched
<1>1. CASE Append
  BY <1>1 DEF Append
<1>2. CASE UNCHANGED vars
  BY <1>2 DEF vars
<1>3. ASSUME NEW t \in Threads, NEW n \in 1 .. MaxLsn, NEW d \in BOOLEAN,
             NEW c \in Callbacks \cup {NoCallback}, StartWriteUpTo(t, n, d, c)
      PROVE AllProgress'
  BY <1>3 DEF StartWriteUpTo
<1>4. ASSUME NEW t \in Threads, NEW n \in 1 .. MaxLsn, TrxFlushNotNeeded(t, n)
      PROVE AllProgress'
  BY <1>4 DEF TrxFlushNotNeeded
<1>5. ASSUME NEW t \in Threads, NEW o \in {"resize", "write_and_flush"},
   StartExclusive(t, o)
      PROVE AllProgress'
  BY <1>5 DEF StartExclusive
<1>6. ASSUME NEW t \in Threads, InLock(t) PROVE AllProgress'
  <2>1. MethodEffect(t)
    BY <1>6, Effects
  <2>2. UNCHANGED <<stage, op, reqlsn, target, synced, left, lsn, write_lsn,
                    flushed_to_disk_lsn, disk, m_value>>
    BY <1>6, <2>1 DEF InLock, MethodEffect
  <2>3. \A u \in Threads : rc'[u].left \in {0, rc[u].left}
    BY <2>1 DEF MethodEffect
  <2>4. lsn \in Nat /\ \A u \in Threads : rc[u].left \in Nat
    OBVIOUS
  <2> SUFFICES ASSUME NEW x \in Threads PROVE Progress(x)'
    OBVIOUS
  <2> HIDE DEF TypeOK, AllControl, SingleOwner, AllAnswer, Published,
               AllQueued, AllLatched
  <2> QED
    BY <2>2, <2>3, <2>4
<1>7. ASSUME NEW t \in Threads, RepeatDurable(t) PROVE AllProgress'
  <2>1. AcquireEffect(t, "flush", reqlsn[t], callback[t])
    BY <1>7, Effects
  <2> SUFFICES ASSUME NEW x \in Threads PROVE Progress(x)'
    OBVIOUS
  <2> QED
    BY <1>0, <1>7, <2>1 DEF RepeatDurable, CallAcquire, AcquireEffect
<1>8. ASSUME NEW t \in Threads, RepeatWrite(t) PROVE AllProgress'
  <2>1. AcquireEffect(t, "write", reqlsn[t], callback[t])
    BY <1>8, Effects
  <2> SUFFICES ASSUME NEW x \in Threads PROVE Progress(x)'
    OBVIOUS
  <2> QED
    BY <1>0, <1>8, <2>1 DEF RepeatWrite, CallAcquire, AcquireEffect
<1>9. ASSUME NEW t \in Threads, FlushNotAcquired(t) PROVE AllProgress'
  BY <1>9 DEF FlushNotAcquired, EndCall, ReturnToCaller, AckedByReturn
<1>10. ASSUME NEW t \in Threads, FlushPromise(t) PROVE AllProgress'
  BY <1>10 DEF FlushPromise
<1>11. ASSUME NEW t \in Threads, WriteAfterPromise(t) PROVE AllProgress'
  <2>1. AcquireEffect(t, "write", reqlsn[t], NoCallback)
    BY <1>11, Effects
  <2> SUFFICES ASSUME NEW x \in Threads PROVE Progress(x)'
    OBVIOUS
  <2> QED
    BY <1>0, <1>11, <2>1 DEF WriteAfterPromise, CallAcquire, AcquireEffect
<1>12. ASSUME NEW t \in Threads, WriteAcquired(t) PROVE AllProgress'
  BY <1>12 DEF WriteAcquired, Latch
<1>13. ASSUME NEW t \in Threads, WriteBufNothing(t) PROVE AllProgress'
  BY <1>13 DEF WriteBufNothing, LatchAfterWriteBuf
<1>14. ASSUME NEW t \in Threads, WriteBuf(t) PROVE AllProgress'
  BY <1>14 DEF WriteBuf, LatchAfterWriteBuf
<1>15. ASSUME NEW t \in Threads, LogWriteBuf(t) PROVE AllProgress'
  BY <1>15 DEF LogWriteBuf
<1>16. ASSUME NEW t \in Threads, WriteRelease(t) PROVE AllProgress'
  <2>1. ReleaseEffect(t, "write", target[t])
    BY <1>16, Effects
  <2> SUFFICES ASSUME NEW x \in Threads PROVE Progress(x)'
    OBVIOUS
  <2> QED
    BY <1>0, <1>16, <2>1 DEF WriteRelease, CallRelease, ReleaseEffect
<1>17. ASSUME NEW t \in Threads, LogFlush(t) PROVE AllProgress'
  BY <1>17 DEF LogFlush
<1>18. ASSUME NEW t \in Threads, LogFlushCovered(t) PROVE AllProgress'
  BY <1>18 DEF LogFlushCovered
<1>19. ASSUME NEW t \in Threads, FlushBegin(t) PROVE AllProgress'
  BY <1>19 DEF FlushBegin
<1>20. ASSUME NEW t \in Threads, FlushEnd(t) PROVE AllProgress'
  BY <1>20 DEF FlushEnd
<1>21. ASSUME NEW t \in Threads, FlushRelease(t) PROVE AllProgress'
  <2>1. ReleaseEffect(t, "flush", target[t])
    BY <1>21, Effects
  <2> SUFFICES ASSUME NEW x \in Threads PROVE Progress(x)'
    OBVIOUS
  <2> QED
    BY <1>0, <1>21, <2>1 DEF FlushRelease, CallRelease, ReleaseEffect
<1>22. ASSUME NEW t \in Threads, RoundReturn(t) PROVE AllProgress'
  BY <1>22
          DEF RoundReturn, EndCall, ReturnToCaller, AckedByReturn, RoundOver,
        PendingLsn
<1>23. ASSUME NEW t \in Threads, RoundAgain(t) PROVE AllProgress'
  BY <1>23
          DEF RoundAgain, EndCall, ReturnToCaller, AckedByReturn, RoundOver,
        PendingLsn
<1>24. ASSUME NEW t \in Threads, WriteCovered(t) PROVE AllProgress'
  BY <1>24 DEF WriteCovered, EndCall, ReturnToCaller, AckedByReturn
<1>25. ASSUME NEW t \in Threads, GetLsnForFlush(t) PROVE AllProgress'
  BY <1>25 DEF GetLsnForFlush, GetLsn
<1>26. ASSUME NEW t \in Threads, OwnFlush(t) PROVE AllProgress'
  <2>1. AcquireEffect(t, "flush", reqlsn[t], NoCallback)
    BY <1>26, Effects
  <2> SUFFICES ASSUME NEW x \in Threads PROVE Progress(x)'
    OBVIOUS
  <2> QED
    BY <1>0, <1>26, <2>1 DEF OwnFlush, CallAcquire, AcquireEffect
<1>27. ASSUME NEW t \in Threads, GetLsnForWrite(t) PROVE AllProgress'
  BY <1>27 DEF GetLsnForWrite, GetLsn
<1>28. ASSUME NEW t \in Threads, OwnWrite(t) PROVE AllProgress'
  <2>1. AcquireEffect(t, "write", reqlsn[t], NoCallback)
    BY <1>28, Effects
  <2> SUFFICES ASSUME NEW x \in Threads PROVE Progress(x)'
    OBVIOUS
  <2> QED
    BY <1>0, <1>28, <2>1 DEF OwnWrite, CallAcquire, AcquireEffect
<1>29. ASSUME NEW t \in Threads, OwnedAll(t) PROVE AllProgress'
  BY <1>29 DEF OwnedAll, Latch
<1>30. ASSUME NEW t \in Threads, ResizeUnlatch(t) PROVE AllProgress'
  BY <1>30 DEF ResizeUnlatch
<1>31. ASSUME NEW t \in Threads, ResizeReleaseWrite(t) PROVE AllProgress'
  <2>1. ReleaseEffect(t, "write", m_value["write"])
    BY <1>31, Effects
  <2> SUFFICES ASSUME NEW x \in Threads PROVE Progress(x)'
    OBVIOUS
  <2> QED
    BY <1>0, <1>31, <2>1 DEF ResizeReleaseWrite, CallRelease, ReleaseEffect
<1>32. ASSUME NEW t \in Threads, ResizeReleaseFlush(t) PROVE AllProgress'
  <2>1. ReleaseEffect(t, "flush", m_value["flush"])
    BY <1>32, Effects
  <2> SUFFICES ASSUME NEW x \in Threads PROVE Progress(x)'
    OBVIOUS
  <2> QED
    BY <1>0, <1>32, <2>1 DEF ResizeReleaseFlush, CallRelease, ReleaseEffect
<1>33. ASSUME NEW t \in Threads, ResizeReturn(t) PROVE AllProgress'
  BY <1>33 DEF ResizeReturn, EndCall, ReturnToCaller, AckedByReturn
<1>34. ASSUME NEW t \in Threads, ResizeAgain(t) PROVE AllProgress'
  BY <1>34 DEF ResizeAgain, EndCall, ReturnToCaller, AckedByReturn
<1>35. ASSUME NEW t \in Threads, ExclusiveAppend(t) PROVE AllProgress'
  BY <1>35 DEF ExclusiveAppend
<1>36. ASSUME NEW t \in Threads, WriteAndFlushDone(t) PROVE AllProgress'
  BY <1>36 DEF WriteAndFlushDone, EndCall, ReturnToCaller, AckedByReturn
<1> HIDE DEF IInv, TypeOK, AllControl, Published, PublishedIsDone,
            AllProgress, AllAnswer, SingleOwner, AllQueued, AllLatched
<1> QED
    BY <1>1, <1>2, <1>3, <1>4, <1>5, <1>6, <1>7, <1>8, <1>9, <1>10, <1>11,
     <1>12, <1>13, <1>14, <1>15, <1>16, <1>17, <1>18, <1>19, <1>20, <1>21,
     <1>22, <1>23, <1>24, <1>25, <1>26, <1>27, <1>28, <1>29, <1>30, <1>31,
     <1>32, <1>33, <1>34, <1>35, <1>36
     DEF Next, Quiet, Continue, Start

(* A callback is handed over once, with the position and the lock of its    *)
(* request.                                                                 *)
LEMMA CallbackStep ==
  IInv /\ [Next]_vars => AllCallback'
<1> SUFFICES ASSUME IInv, [Next]_vars PROVE AllCallback'
  OBVIOUS
<1>0. TypeOK'
  BY TypeStep DEF IInv
<1> USE LogAssumption, GroupCommitAssumption
        DEF gclVars, lockVars, threadVars, logVars, jobVars, At, Goto,
        Outside, MaxOf, SetPending, IInv, TypeOK, GclTypeOK, CallbackArg,
        ReturnCode, Got, AcquireStages, OwnStages, WriteStages, FlushStages,
        AllControl, Control, AllCallback, Callback, AllProgress, Progress,
        AllQueued, Queued, Published, PublishedIsDone, Served, Wanted,
        ReturnCode, PendingCb
<1>1. CASE Append
  BY <1>1 DEF Append
<1>2. CASE UNCHANGED vars
  BY <1>2 DEF vars
<1>3. ASSUME NEW t \in Threads, NEW n \in 1 .. MaxLsn, NEW d \in BOOLEAN,
             NEW c \in Callbacks \cup {NoCallback}, StartWriteUpTo(t, n, d, c)
      PROVE AllCallback'
  BY <1>3 DEF StartWriteUpTo
<1>4. ASSUME NEW t \in Threads, NEW n \in 1 .. MaxLsn, TrxFlushNotNeeded(t, n)
      PROVE AllCallback'
  BY <1>4 DEF TrxFlushNotNeeded
<1>5. ASSUME NEW t \in Threads, NEW o \in {"resize", "write_and_flush"},
   StartExclusive(t, o)
      PROVE AllCallback'
  BY <1>5 DEF StartExclusive
<1>6. ASSUME NEW t \in Threads, InLock(t) PROVE AllCallback'
  <2>1. MethodEffect(t)
    BY <1>6, Effects
  <2>2. UNCHANGED <<stage, callback, reqlsn, durable, cb, num, on, want,
                    wantDurable, disk, write_lsn>>
    BY <1>6, <2>1 DEF InLock, MethodEffect
  <2>3. \A u \in Threads : pc'[u] # "out" => pc[u] # "out"
    BY <2>1 DEF MethodEffect, Wakes
  <2>4. \A u \in Threads : torun'[u] \subseteq torun[u]
    BY <2>1 DEF MethodEffect
  <2> HIDE DEF TypeOK, AllControl, AllProgress, AllQueued, Published
  <2> QED
    BY <2>2, <2>3, <2>4
<1>7. ASSUME NEW t \in Threads, RepeatDurable(t) PROVE AllCallback'
  <2>1. AcquireEffect(t, "flush", reqlsn[t], callback[t])
    BY <1>7, Effects
  <2> SUFFICES ASSUME NEW x \in Threads PROVE Callback(x)'
    OBVIOUS
  <2> QED
    BY <1>0, <1>7, <2>1 DEF RepeatDurable, CallAcquire, AcquireEffect
<1>8. ASSUME NEW t \in Threads, RepeatWrite(t) PROVE AllCallback'
  <2>1. AcquireEffect(t, "write", reqlsn[t], callback[t])
    BY <1>8, Effects
  <2> SUFFICES ASSUME NEW x \in Threads PROVE Callback(x)'
    OBVIOUS
  <2> QED
    BY <1>0, <1>8, <2>1 DEF RepeatWrite, CallAcquire, AcquireEffect
<1>9. ASSUME NEW t \in Threads, FlushNotAcquired(t) PROVE AllCallback'
  BY <1>9 DEF FlushNotAcquired, EndCall, ReturnToCaller, AckedByReturn
<1>10. ASSUME NEW t \in Threads, FlushPromise(t) PROVE AllCallback'
  BY <1>10 DEF FlushPromise
<1>11. ASSUME NEW t \in Threads, WriteAfterPromise(t) PROVE AllCallback'
  <2>1. AcquireEffect(t, "write", reqlsn[t], NoCallback)
    BY <1>11, Effects
  <2> SUFFICES ASSUME NEW x \in Threads PROVE Callback(x)'
    OBVIOUS
  <2> QED
    BY <1>0, <1>11, <2>1 DEF WriteAfterPromise, CallAcquire, AcquireEffect
<1>12. ASSUME NEW t \in Threads, WriteAcquired(t) PROVE AllCallback'
  BY <1>12 DEF WriteAcquired, Latch
<1>13. ASSUME NEW t \in Threads, WriteBufNothing(t) PROVE AllCallback'
  BY <1>13 DEF WriteBufNothing, LatchAfterWriteBuf
<1>14. ASSUME NEW t \in Threads, WriteBuf(t) PROVE AllCallback'
  BY <1>14 DEF WriteBuf, LatchAfterWriteBuf
<1>15. ASSUME NEW t \in Threads, LogWriteBuf(t) PROVE AllCallback'
  BY <1>15 DEF LogWriteBuf
<1>16. ASSUME NEW t \in Threads, WriteRelease(t) PROVE AllCallback'
  <2>1. ReleaseEffect(t, "write", target[t])
    BY <1>16, Effects
  <2> SUFFICES ASSUME NEW x \in Threads PROVE Callback(x)'
    OBVIOUS
  <2> QED
    BY <1>0, <1>16, <2>1 DEF WriteRelease, CallRelease, ReleaseEffect
<1>17. ASSUME NEW t \in Threads, LogFlush(t) PROVE AllCallback'
  BY <1>17 DEF LogFlush
<1>18. ASSUME NEW t \in Threads, LogFlushCovered(t) PROVE AllCallback'
  BY <1>18 DEF LogFlushCovered
<1>19. ASSUME NEW t \in Threads, FlushBegin(t) PROVE AllCallback'
  BY <1>19 DEF FlushBegin
<1>20. ASSUME NEW t \in Threads, FlushEnd(t) PROVE AllCallback'
  BY <1>20 DEF FlushEnd
<1>21. ASSUME NEW t \in Threads, FlushRelease(t) PROVE AllCallback'
  <2>1. ReleaseEffect(t, "flush", target[t])
    BY <1>21, Effects
  <2> SUFFICES ASSUME NEW x \in Threads PROVE Callback(x)'
    OBVIOUS
  <2> QED
    BY <1>0, <1>21, <2>1 DEF FlushRelease, CallRelease, ReleaseEffect
<1>22. ASSUME NEW t \in Threads, RoundReturn(t) PROVE AllCallback'
  BY <1>22
          DEF RoundReturn, EndCall, ReturnToCaller, AckedByReturn, RoundOver,
        PendingLsn
<1>23. ASSUME NEW t \in Threads, RoundAgain(t) PROVE AllCallback'
  BY <1>23
          DEF RoundAgain, EndCall, ReturnToCaller, AckedByReturn, RoundOver,
        PendingLsn
<1>24. ASSUME NEW t \in Threads, WriteCovered(t) PROVE AllCallback'
  BY <1>24 DEF WriteCovered, EndCall, ReturnToCaller, AckedByReturn
<1>25. ASSUME NEW t \in Threads, GetLsnForFlush(t) PROVE AllCallback'
  BY <1>25 DEF GetLsnForFlush, GetLsn
<1>26. ASSUME NEW t \in Threads, OwnFlush(t) PROVE AllCallback'
  <2>1. AcquireEffect(t, "flush", reqlsn[t], NoCallback)
    BY <1>26, Effects
  <2> SUFFICES ASSUME NEW x \in Threads PROVE Callback(x)'
    OBVIOUS
  <2> QED
    BY <1>0, <1>26, <2>1 DEF OwnFlush, CallAcquire, AcquireEffect
<1>27. ASSUME NEW t \in Threads, GetLsnForWrite(t) PROVE AllCallback'
  BY <1>27 DEF GetLsnForWrite, GetLsn
<1>28. ASSUME NEW t \in Threads, OwnWrite(t) PROVE AllCallback'
  <2>1. AcquireEffect(t, "write", reqlsn[t], NoCallback)
    BY <1>28, Effects
  <2> SUFFICES ASSUME NEW x \in Threads PROVE Callback(x)'
    OBVIOUS
  <2> QED
    BY <1>0, <1>28, <2>1 DEF OwnWrite, CallAcquire, AcquireEffect
<1>29. ASSUME NEW t \in Threads, OwnedAll(t) PROVE AllCallback'
  BY <1>29 DEF OwnedAll, Latch
<1>30. ASSUME NEW t \in Threads, ResizeUnlatch(t) PROVE AllCallback'
  BY <1>30 DEF ResizeUnlatch
<1>31. ASSUME NEW t \in Threads, ResizeReleaseWrite(t) PROVE AllCallback'
  <2>1. ReleaseEffect(t, "write", m_value["write"])
    BY <1>31, Effects
  <2> SUFFICES ASSUME NEW x \in Threads PROVE Callback(x)'
    OBVIOUS
  <2> QED
    BY <1>0, <1>31, <2>1 DEF ResizeReleaseWrite, CallRelease, ReleaseEffect
<1>32. ASSUME NEW t \in Threads, ResizeReleaseFlush(t) PROVE AllCallback'
  <2>1. ReleaseEffect(t, "flush", m_value["flush"])
    BY <1>32, Effects
  <2> SUFFICES ASSUME NEW x \in Threads PROVE Callback(x)'
    OBVIOUS
  <2> QED
    BY <1>0, <1>32, <2>1 DEF ResizeReleaseFlush, CallRelease, ReleaseEffect
<1>33. ASSUME NEW t \in Threads, ResizeReturn(t) PROVE AllCallback'
  BY <1>33 DEF ResizeReturn, EndCall, ReturnToCaller, AckedByReturn
<1>34. ASSUME NEW t \in Threads, ResizeAgain(t) PROVE AllCallback'
  BY <1>34 DEF ResizeAgain, EndCall, ReturnToCaller, AckedByReturn
<1>35. ASSUME NEW t \in Threads, ExclusiveAppend(t) PROVE AllCallback'
  BY <1>35 DEF ExclusiveAppend
<1>36. ASSUME NEW t \in Threads, WriteAndFlushDone(t) PROVE AllCallback'
  BY <1>36 DEF WriteAndFlushDone, EndCall, ReturnToCaller, AckedByReturn
<1> HIDE DEF IInv, TypeOK, AllControl, AllCallback, AllProgress, AllQueued,
            Published, PublishedIsDone
<1> QED
    BY <1>1, <1>2, <1>3, <1>4, <1>5, <1>6, <1>7, <1>8, <1>9, <1>10, <1>11,
     <1>12, <1>13, <1>14, <1>15, <1>16, <1>17, <1>18, <1>19, <1>20, <1>21,
     <1>22, <1>23, <1>24, <1>25, <1>26, <1>27, <1>28, <1>29, <1>30, <1>31,
     <1>32, <1>33, <1>34, <1>35, <1>36
     DEF Next, Quiet, Continue, Start

(* What is queued in a lock are requests for positions that exist.          *)
LEMMA QueuedStep ==
  IInv /\ [Next]_vars => AllQueued'
<1> SUFFICES ASSUME IInv, [Next]_vars PROVE AllQueued'
  OBVIOUS
<1>0. TypeOK'
  BY TypeStep DEF IInv
<1> USE LogAssumption, GroupCommitAssumption
        DEF gclVars, lockVars, threadVars, logVars, jobVars, At, Goto,
        Outside, MaxOf, SetPending, IInv, TypeOK, GclTypeOK, CallbackArg,
        ReturnCode, Got, AcquireStages, OwnStages, WriteStages, FlushStages,
        AllControl, Control, AllCallback, Callback, AllProgress, Progress,
        AllQueued, Queued, Wanted, PendingCb, QueueCallback
<1>1. CASE Append
  BY <1>1 DEF Append
<1>2. CASE UNCHANGED vars
  BY <1>2 DEF vars
<1>3. ASSUME NEW t \in Threads, NEW n \in 1 .. MaxLsn, NEW d \in BOOLEAN,
             NEW c \in Callbacks \cup {NoCallback}, StartWriteUpTo(t, n, d, c)
      PROVE AllQueued'
  BY <1>3 DEF StartWriteUpTo
<1>4. ASSUME NEW t \in Threads, NEW n \in 1 .. MaxLsn, TrxFlushNotNeeded(t, n)
      PROVE AllQueued'
  BY <1>4 DEF TrxFlushNotNeeded
<1>5. ASSUME NEW t \in Threads, NEW o \in {"resize", "write_and_flush"},
   StartExclusive(t, o)
      PROVE AllQueued'
  BY <1>5 DEF StartExclusive
<1>6. ASSUME NEW t \in Threads, InLock(t) PROVE AllQueued'
  <2>1. MethodEffect(t)
    BY <1>6, Effects
  <2>2. UNCHANGED <<lsn, want, wantDurable>>
    BY <1>6 DEF InLock
  <2>3. CASE m_pending_callbacks' = m_pending_callbacks
    BY <2>2, <2>3
  <2>4. CASE /\ pc[t] # "out" /\ cb[t] # NoCallback
             /\ m_pending_callbacks' = [m_pending_callbacks EXCEPT ![on[t]] =
                                  @ \cup {[num |-> num[t], cb |-> cb[t]]}]
    <3>1. num[t] <= lsn /\ Wanted(cb[t], num[t], on[t])
      BY <2>4
    <3>2. \A k \in Locks : \A p \in m_pending_callbacks'[k] :
            \/ p \in m_pending_callbacks[k]
            \/ k = on[t] /\ p = [num |-> num[t], cb |-> cb[t]]
      BY <2>4
    <3> HIDE DEF TypeOK, AllControl, AllCallback, AllProgress
    <3> QED
      BY <2>2, <3>1, <3>2
  <2> QED
    BY <2>1, <2>3, <2>4 DEF MethodEffect, Wakes, Waits, Expires, Acquires,
                            Queues, QueueCallback
<1>7. ASSUME NEW t \in Threads, RepeatDurable(t) PROVE AllQueued'
  <2>1. AcquireEffect(t, "flush", reqlsn[t], callback[t])
    BY <1>7, Effects
  <2> QED
    BY <1>0, <1>7, <2>1 DEF RepeatDurable, CallAcquire, AcquireEffect
<1>8. ASSUME NEW t \in Threads, RepeatWrite(t) PROVE AllQueued'
  <2>1. AcquireEffect(t, "write", reqlsn[t], callback[t])
    BY <1>8, Effects
  <2> QED
    BY <1>0, <1>8, <2>1 DEF RepeatWrite, CallAcquire, AcquireEffect
<1>9. ASSUME NEW t \in Threads, FlushNotAcquired(t) PROVE AllQueued'
  BY <1>9 DEF FlushNotAcquired, EndCall, ReturnToCaller, AckedByReturn
<1>10. ASSUME NEW t \in Threads, FlushPromise(t) PROVE AllQueued'
  BY <1>10 DEF FlushPromise
<1>11. ASSUME NEW t \in Threads, WriteAfterPromise(t) PROVE AllQueued'
  <2>1. AcquireEffect(t, "write", reqlsn[t], NoCallback)
    BY <1>11, Effects
  <2> QED
    BY <1>0, <1>11, <2>1 DEF WriteAfterPromise, CallAcquire, AcquireEffect
<1>12. ASSUME NEW t \in Threads, WriteAcquired(t) PROVE AllQueued'
  BY <1>12 DEF WriteAcquired, Latch
<1>13. ASSUME NEW t \in Threads, WriteBufNothing(t) PROVE AllQueued'
  BY <1>13 DEF WriteBufNothing, LatchAfterWriteBuf
<1>14. ASSUME NEW t \in Threads, WriteBuf(t) PROVE AllQueued'
  BY <1>14 DEF WriteBuf, LatchAfterWriteBuf
<1>15. ASSUME NEW t \in Threads, LogWriteBuf(t) PROVE AllQueued'
  BY <1>15 DEF LogWriteBuf
<1>16. ASSUME NEW t \in Threads, WriteRelease(t) PROVE AllQueued'
  <2>1. ReleaseEffect(t, "write", target[t])
    BY <1>16, Effects
  <2> QED
    BY <1>0, <1>16, <2>1 DEF WriteRelease, CallRelease, ReleaseEffect
<1>17. ASSUME NEW t \in Threads, LogFlush(t) PROVE AllQueued'
  BY <1>17 DEF LogFlush
<1>18. ASSUME NEW t \in Threads, LogFlushCovered(t) PROVE AllQueued'
  BY <1>18 DEF LogFlushCovered
<1>19. ASSUME NEW t \in Threads, FlushBegin(t) PROVE AllQueued'
  BY <1>19 DEF FlushBegin
<1>20. ASSUME NEW t \in Threads, FlushEnd(t) PROVE AllQueued'
  BY <1>20 DEF FlushEnd
<1>21. ASSUME NEW t \in Threads, FlushRelease(t) PROVE AllQueued'
  <2>1. ReleaseEffect(t, "flush", target[t])
    BY <1>21, Effects
  <2> QED
    BY <1>0, <1>21, <2>1 DEF FlushRelease, CallRelease, ReleaseEffect
<1>22. ASSUME NEW t \in Threads, RoundReturn(t) PROVE AllQueued'
  BY <1>22
          DEF RoundReturn, EndCall, ReturnToCaller, AckedByReturn, RoundOver,
        PendingLsn
<1>23. ASSUME NEW t \in Threads, RoundAgain(t) PROVE AllQueued'
  BY <1>23
          DEF RoundAgain, EndCall, ReturnToCaller, AckedByReturn, RoundOver,
        PendingLsn
<1>24. ASSUME NEW t \in Threads, WriteCovered(t) PROVE AllQueued'
  BY <1>24 DEF WriteCovered, EndCall, ReturnToCaller, AckedByReturn
<1>25. ASSUME NEW t \in Threads, GetLsnForFlush(t) PROVE AllQueued'
  BY <1>25 DEF GetLsnForFlush, GetLsn
<1>26. ASSUME NEW t \in Threads, OwnFlush(t) PROVE AllQueued'
  <2>1. AcquireEffect(t, "flush", reqlsn[t], NoCallback)
    BY <1>26, Effects
  <2> QED
    BY <1>0, <1>26, <2>1 DEF OwnFlush, CallAcquire, AcquireEffect
<1>27. ASSUME NEW t \in Threads, GetLsnForWrite(t) PROVE AllQueued'
  BY <1>27 DEF GetLsnForWrite, GetLsn
<1>28. ASSUME NEW t \in Threads, OwnWrite(t) PROVE AllQueued'
  <2>1. AcquireEffect(t, "write", reqlsn[t], NoCallback)
    BY <1>28, Effects
  <2> QED
    BY <1>0, <1>28, <2>1 DEF OwnWrite, CallAcquire, AcquireEffect
<1>29. ASSUME NEW t \in Threads, OwnedAll(t) PROVE AllQueued'
  BY <1>29 DEF OwnedAll, Latch
<1>30. ASSUME NEW t \in Threads, ResizeUnlatch(t) PROVE AllQueued'
  BY <1>30 DEF ResizeUnlatch
<1>31. ASSUME NEW t \in Threads, ResizeReleaseWrite(t) PROVE AllQueued'
  <2>1. ReleaseEffect(t, "write", m_value["write"])
    BY <1>31, Effects
  <2> QED
    BY <1>0, <1>31, <2>1 DEF ResizeReleaseWrite, CallRelease, ReleaseEffect
<1>32. ASSUME NEW t \in Threads, ResizeReleaseFlush(t) PROVE AllQueued'
  <2>1. ReleaseEffect(t, "flush", m_value["flush"])
    BY <1>32, Effects
  <2> QED
    BY <1>0, <1>32, <2>1 DEF ResizeReleaseFlush, CallRelease, ReleaseEffect
<1>33. ASSUME NEW t \in Threads, ResizeReturn(t) PROVE AllQueued'
  BY <1>33 DEF ResizeReturn, EndCall, ReturnToCaller, AckedByReturn
<1>34. ASSUME NEW t \in Threads, ResizeAgain(t) PROVE AllQueued'
  BY <1>34 DEF ResizeAgain, EndCall, ReturnToCaller, AckedByReturn
<1>35. ASSUME NEW t \in Threads, ExclusiveAppend(t) PROVE AllQueued'
  BY <1>35 DEF ExclusiveAppend
<1>36. ASSUME NEW t \in Threads, WriteAndFlushDone(t) PROVE AllQueued'
  BY <1>36 DEF WriteAndFlushDone, EndCall, ReturnToCaller, AckedByReturn
<1> HIDE DEF IInv, TypeOK, AllControl, AllCallback, AllProgress, AllQueued
<1> QED
    BY <1>1, <1>2, <1>3, <1>4, <1>5, <1>6, <1>7, <1>8, <1>9, <1>10, <1>11,
     <1>12, <1>13, <1>14, <1>15, <1>16, <1>17, <1>18, <1>19, <1>20, <1>21,
     <1>22, <1>23, <1>24, <1>25, <1>26, <1>27, <1>28, <1>29, <1>30, <1>31,
     <1>32, <1>33, <1>34, <1>35, <1>36
     DEF Next, Quiet, Continue, Start

(* What has run by a position that has been reached was not told early.    *)
LEMMA AckedFrame ==
  ASSUME NothingAckedEarly, \A c \in RanNow : Served(c),
         UNCHANGED <<acked, disk, write_lsn, want, wantDurable>>
  PROVE  NothingAckedEarly'
  BY DEF NothingAckedEarly, Served, RanNow

(* A callback handed to lock l for position n may run once the value of    *)
(* the lock covers n.                                                      *)
LEMMA WantedServed ==
  ASSUME TypeOK, Published, NEW c \in Callbacks, NEW l \in Locks, NEW n \in Nat,
         Wanted(c, n, l), \/ n <= m_value[l]
                          \/ l = "write" /\ n <= write_lsn
                          \/ l = "flush" /\ n <= flushed_to_disk_lsn
  PROVE  Served(c)
  BY LogAssumption
     DEF TypeOK, GclTypeOK, Published, PublishedIsDone, Wanted, Served

LEMMA AcquireServes ==
  ASSUME TypeOK, Published, NEW t \in Threads, NEW l \in Locks, NEW n \in Nat,
         NEW c \in CallbackArg, AcquireEffect(t, l, n, c), Wanted(c, n, l)
  PROVE  \A x \in RanNow : Served(x)
<1>1. CASE fired' = fired
  BY <1>1 DEF RanNow
<1>2. CASE n <= m_value[l] /\ fired' = AfterCallback({c})
  <2>1. RanNow \subseteq {c} /\ RanNow \subseteq Callbacks
    BY <1>2, RanAfter DEF RanNow
  <2>2. c \in Callbacks => Served(c)
    BY <1>2, WantedServed
  <2> QED
    BY <2>1, <2>2
<1> QED
  BY <1>1, <1>2 DEF AcquireEffect

LEMMA ReleaseServes ==
  ASSUME TypeOK, Published, AllQueued, NEW t \in Threads, NEW l \in Locks,
         NEW n \in Nat, ReleaseEffect(t, l, n),
         \/ n <= m_value[l]
         \/ l = "write" /\ n <= write_lsn
         \/ l = "flush" /\ n <= flushed_to_disk_lsn
  PROVE  \A x \in RanNow : Served(x)
<1> SUFFICES ASSUME NEW x \in RanNow PROVE Served(x)
  OBVIOUS
<1>1. x \in Callbacks
  BY DEF RanNow
<1>2. PICK p \in m_pending_callbacks[l] : p.num <= n /\ p.cb = x
  BY DEF ReleaseEffect
<1>3. p.num \in Nat /\ Wanted(x, p.num, l)
  BY <1>2 DEF AllQueued, Queued, TypeOK, GclTypeOK, PendingCb
<1>4. \/ p.num <= m_value[l]
      \/ l = "write" /\ p.num <= write_lsn
      \/ l = "flush" /\ p.num <= flushed_to_disk_lsn
  BY <1>2, <1>3, LogAssumption DEF TypeOK, GclTypeOK
<1> QED
  BY <1>1, <1>3, <1>4, WantedServed

(* No step acknowledges a position that is not on disk.                     *)
LEMMA AckedStep ==
  IInv /\ [Next]_vars => NothingAckedEarly'
<1> SUFFICES ASSUME IInv, [Next]_vars PROVE NothingAckedEarly'
  OBVIOUS
<1>0. TypeOK'
  BY TypeStep DEF IInv
<1> USE LogAssumption, GroupCommitAssumption
        DEF gclVars, lockVars, threadVars, logVars, jobVars, At, Goto,
        Outside, MaxOf, SetPending, IInv, TypeOK, GclTypeOK, CallbackArg,
        ReturnCode, Got, AcquireStages, OwnStages, WriteStages, FlushStages,
        AllControl, Control, AllAnswer, Answer, AllCallback, Callback,
        AllProgress, Progress, AllQueued, Queued, Published, PublishedIsDone,
        Served, Wanted, PendingCb, NothingAckedEarly
<1>1. CASE Append
  BY <1>1 DEF Append
<1>2. CASE UNCHANGED vars
  BY <1>2 DEF vars
<1>3. ASSUME NEW t \in Threads, NEW n \in 1 .. MaxLsn, NEW d \in BOOLEAN,
             NEW c \in Callbacks \cup {NoCallback}, StartWriteUpTo(t, n, d, c)
      PROVE NothingAckedEarly'
  BY <1>3 DEF StartWriteUpTo
<1>4. ASSUME NEW t \in Threads, NEW n \in 1 .. MaxLsn, TrxFlushNotNeeded(t, n)
      PROVE NothingAckedEarly'
  BY <1>4 DEF TrxFlushNotNeeded
<1>5. ASSUME NEW t \in Threads, NEW o \in {"resize", "write_and_flush"},
   StartExclusive(t, o)
      PROVE NothingAckedEarly'
  BY <1>5 DEF StartExclusive
<1>6. ASSUME NEW t \in Threads, InLock(t) PROVE NothingAckedEarly'
  <2>1. MethodEffect(t)
    BY <1>6, Effects
  <2>0. UNCHANGED <<acked, disk, write_lsn, want, wantDurable>>
    BY <1>6 DEF InLock
  <2>2. CASE Wakes(t)
    <3>1. RanNow \subseteq torun[t] \cap Callbacks
      <4>1. CASE fired' = fired
        BY <4>1 DEF RanNow
      <4>2. CASE \E c \in torun[t] : fired' = AfterCallback({c})
        BY <4>2, RanAfter DEF RanNow
      <4> QED
        BY <2>2, <4>1, <4>2 DEF Wakes
    <3> HIDE DEF Served
    <3> QED
      BY <2>0, <3>1, AckedFrame
  <2>3. CASE pc[t] # "out" /\ Waits(t)
    BY <1>6, <2>1, <2>3 DEF InLock, MethodEffect, Waits
  <2>4. CASE pc[t] # "out" /\ Expires(t)
    <3>1. RanNow \subseteq {cb[t]} /\ RanNow \subseteq Callbacks
      BY <2>4, RanAfter DEF Expires, RanNow
    <3>2. cb[t] \in Callbacks => Served(cb[t])
      BY <2>4, WantedServed DEF Expires
    <3> HIDE DEF Served
    <3> QED
      BY <2>0, <3>1, <3>2, AckedFrame
  <2>5. CASE pc[t] # "out" /\ Acquires(t)
    BY <1>6, <2>1, <2>5 DEF InLock, MethodEffect, Acquires
  <2>6. CASE pc[t] # "out" /\ Queues(t)
    BY <1>6, <2>1, <2>6 DEF InLock, MethodEffect, Queues
  <2> QED
    BY <2>1, <2>2, <2>3, <2>4, <2>5, <2>6 DEF MethodEffect
<1>7. ASSUME NEW t \in Threads, RepeatDurable(t) PROVE NothingAckedEarly'
  <2>1. AcquireEffect(t, "flush", reqlsn[t], callback[t])
    BY <1>7, Effects
  <2>2. UNCHANGED <<acked, disk, write_lsn, want, wantDurable>>
    BY <1>7 DEF RepeatDurable, CallAcquire
  <2>3. Wanted(callback[t], reqlsn[t], "flush")
    BY <1>7 DEF RepeatDurable, CallAcquire
  <2>4. \A x \in RanNow : Served(x)
    <3>1. /\ TypeOK /\ Published /\ "flush" \in Locks
          /\ reqlsn[t] \in Nat /\ callback[t] \in CallbackArg
      OBVIOUS
    <3> HIDE DEF TypeOK, Published, CallbackArg, Wanted, Served
    <3> QED
      BY <2>1, <2>3, <3>1, AcquireServes
  <2> HIDE DEF Served
  <2> QED
    BY <2>2, <2>4, AckedFrame
<1>8. ASSUME NEW t \in Threads, RepeatWrite(t) PROVE NothingAckedEarly'
  <2>1. AcquireEffect(t, "write", reqlsn[t], callback[t])
    BY <1>8, Effects
  <2>2. UNCHANGED <<acked, disk, write_lsn, want, wantDurable>>
    BY <1>8 DEF RepeatWrite, CallAcquire
  <2>3. Wanted(callback[t], reqlsn[t], "write")
    BY <1>8 DEF RepeatWrite, CallAcquire
  <2>4. \A x \in RanNow : Served(x)
    <3>1. /\ TypeOK /\ Published /\ "write" \in Locks
          /\ reqlsn[t] \in Nat /\ callback[t] \in CallbackArg
      OBVIOUS
    <3> HIDE DEF TypeOK, Published, CallbackArg, Wanted, Served
    <3> QED
      BY <2>1, <2>3, <3>1, AcquireServes
  <2> HIDE DEF Served
  <2> QED
    BY <2>2, <2>4, AckedFrame
<1>9. ASSUME NEW t \in Threads, FlushNotAcquired(t) PROVE NothingAckedEarly'
  BY <1>9 DEF FlushNotAcquired, EndCall, ReturnToCaller, AckedByReturn
<1>10. ASSUME NEW t \in Threads, FlushPromise(t) PROVE NothingAckedEarly'
  BY <1>10 DEF FlushPromise
<1>11. ASSUME NEW t \in Threads, WriteAfterPromise(t) PROVE NothingAckedEarly'
  <2>1. AcquireEffect(t, "write", reqlsn[t], NoCallback)
    BY <1>11, Effects
  <2>2. UNCHANGED <<acked, disk, write_lsn, want, wantDurable>>
    BY <1>11 DEF WriteAfterPromise, CallAcquire
  <2>3. Wanted(NoCallback, reqlsn[t], "write")
    BY <1>11 DEF WriteAfterPromise, CallAcquire
  <2>4. \A x \in RanNow : Served(x)
    BY <2>1, <2>3, AcquireServes
  <2> HIDE DEF Served
  <2> QED
    BY <2>2, <2>4, AckedFrame
<1>12. ASSUME NEW t \in Threads, WriteAcquired(t) PROVE NothingAckedEarly'
  BY <1>12 DEF WriteAcquired, Latch
<1>13. ASSUME NEW t \in Threads, WriteBufNothing(t) PROVE NothingAckedEarly'
  BY <1>13 DEF WriteBufNothing, LatchAfterWriteBuf
<1>14. ASSUME NEW t \in Threads, WriteBuf(t) PROVE NothingAckedEarly'
  BY <1>14 DEF WriteBuf, LatchAfterWriteBuf
<1>15. ASSUME NEW t \in Threads, LogWriteBuf(t) PROVE NothingAckedEarly'
  BY <1>15 DEF LogWriteBuf
<1>16. ASSUME NEW t \in Threads, WriteRelease(t) PROVE NothingAckedEarly'
  <2>1. ReleaseEffect(t, "write", target[t])
    BY <1>16, Effects
  <2>2. UNCHANGED <<acked, disk, write_lsn, want, wantDurable>>
    BY <1>16 DEF WriteRelease, CallRelease
  <2>3. \/ target[t] <= m_value["write"]
        \/ target[t] <= write_lsn
    BY <1>16 DEF WriteRelease, CallRelease
  <2>4. \A x \in RanNow : Served(x)
    BY <2>1, <2>3, ReleaseServes
  <2> HIDE DEF Served
  <2> QED
    BY <2>2, <2>4, AckedFrame
<1>17. ASSUME NEW t \in Threads, LogFlush(t) PROVE NothingAckedEarly'
  BY <1>17 DEF LogFlush
<1>18. ASSUME NEW t \in Threads, LogFlushCovered(t) PROVE NothingAckedEarly'
  BY <1>18 DEF LogFlushCovered
<1>19. ASSUME NEW t \in Threads, FlushBegin(t) PROVE NothingAckedEarly'
  BY <1>19 DEF FlushBegin
<1>20. ASSUME NEW t \in Threads, FlushEnd(t) PROVE NothingAckedEarly'
  BY <1>20 DEF FlushEnd
<1>21. ASSUME NEW t \in Threads, FlushRelease(t) PROVE NothingAckedEarly'
  <2>1. ReleaseEffect(t, "flush", target[t])
    BY <1>21, Effects
  <2>2. UNCHANGED <<acked, disk, write_lsn, want, wantDurable>>
    BY <1>21 DEF FlushRelease, CallRelease
  <2>3. \/ target[t] <= m_value["flush"]
        \/ target[t] <= flushed_to_disk_lsn
    BY <1>21 DEF FlushRelease, CallRelease
  <2>4. \A x \in RanNow : Served(x)
    BY <2>1, <2>3, ReleaseServes
  <2> HIDE DEF Served
  <2> QED
    BY <2>2, <2>4, AckedFrame
<1>22. ASSUME NEW t \in Threads, RoundReturn(t) PROVE NothingAckedEarly'
  BY <1>22
          DEF RoundReturn, EndCall, ReturnToCaller, AckedByReturn, RoundOver,
        PendingLsn
<1>23. ASSUME NEW t \in Threads, RoundAgain(t) PROVE NothingAckedEarly'
  BY <1>23
          DEF RoundAgain, EndCall, ReturnToCaller, AckedByReturn, RoundOver,
        PendingLsn
<1>24. ASSUME NEW t \in Threads, WriteCovered(t) PROVE NothingAckedEarly'
  BY <1>24 DEF WriteCovered, EndCall, ReturnToCaller, AckedByReturn
<1>25. ASSUME NEW t \in Threads, GetLsnForFlush(t) PROVE NothingAckedEarly'
  BY <1>25 DEF GetLsnForFlush, GetLsn
<1>26. ASSUME NEW t \in Threads, OwnFlush(t) PROVE NothingAckedEarly'
  <2>1. AcquireEffect(t, "flush", reqlsn[t], NoCallback)
    BY <1>26, Effects
  <2>2. UNCHANGED <<acked, disk, write_lsn, want, wantDurable>>
    BY <1>26 DEF OwnFlush, CallAcquire
  <2>3. Wanted(NoCallback, reqlsn[t], "flush")
    BY <1>26 DEF OwnFlush, CallAcquire
  <2>4. \A x \in RanNow : Served(x)
    BY <2>1, <2>3, AcquireServes
  <2> HIDE DEF Served
  <2> QED
    BY <2>2, <2>4, AckedFrame
<1>27. ASSUME NEW t \in Threads, GetLsnForWrite(t) PROVE NothingAckedEarly'
  BY <1>27 DEF GetLsnForWrite, GetLsn
<1>28. ASSUME NEW t \in Threads, OwnWrite(t) PROVE NothingAckedEarly'
  <2>1. AcquireEffect(t, "write", reqlsn[t], NoCallback)
    BY <1>28, Effects
  <2>2. UNCHANGED <<acked, disk, write_lsn, want, wantDurable>>
    BY <1>28 DEF OwnWrite, CallAcquire
  <2>3. Wanted(NoCallback, reqlsn[t], "write")
    BY <1>28 DEF OwnWrite, CallAcquire
  <2>4. \A x \in RanNow : Served(x)
    BY <2>1, <2>3, AcquireServes
  <2> HIDE DEF Served
  <2> QED
    BY <2>2, <2>4, AckedFrame
<1>29. ASSUME NEW t \in Threads, OwnedAll(t) PROVE NothingAckedEarly'
  BY <1>29 DEF OwnedAll, Latch
<1>30. ASSUME NEW t \in Threads, ResizeUnlatch(t) PROVE NothingAckedEarly'
  BY <1>30 DEF ResizeUnlatch
<1>31. ASSUME NEW t \in Threads, ResizeReleaseWrite(t) PROVE NothingAckedEarly'
  <2>1. ReleaseEffect(t, "write", m_value["write"])
    BY <1>31, Effects
  <2>2. UNCHANGED <<acked, disk, write_lsn, want, wantDurable>>
    BY <1>31 DEF ResizeReleaseWrite, CallRelease
  <2>3. \/ m_value["write"] <= m_value["write"]
        \/ m_value["write"] <= write_lsn
    BY <1>31 DEF ResizeReleaseWrite, CallRelease
  <2>4. \A x \in RanNow : Served(x)
    BY <2>1, <2>3, ReleaseServes
  <2> HIDE DEF Served
  <2> QED
    BY <2>2, <2>4, AckedFrame
<1>32. ASSUME NEW t \in Threads, ResizeReleaseFlush(t) PROVE NothingAckedEarly'
  <2>1. ReleaseEffect(t, "flush", m_value["flush"])
    BY <1>32, Effects
  <2>2. UNCHANGED <<acked, disk, write_lsn, want, wantDurable>>
    BY <1>32 DEF ResizeReleaseFlush
  <2>3. \/ m_value["flush"] <= m_value["flush"]
        \/ m_value["flush"] <= flushed_to_disk_lsn
    BY <1>32 DEF ResizeReleaseFlush
  <2>4. \A x \in RanNow : Served(x)
    BY <2>1, <2>3, ReleaseServes
  <2> HIDE DEF Served
  <2> QED
    BY <2>2, <2>4, AckedFrame
<1>33. ASSUME NEW t \in Threads, ResizeReturn(t) PROVE NothingAckedEarly'
  BY <1>33 DEF ResizeReturn, EndCall, ReturnToCaller, AckedByReturn
<1>34. ASSUME NEW t \in Threads, ResizeAgain(t) PROVE NothingAckedEarly'
  BY <1>34 DEF ResizeAgain, EndCall, ReturnToCaller, AckedByReturn
<1>35. ASSUME NEW t \in Threads, ExclusiveAppend(t) PROVE NothingAckedEarly'
  BY <1>35 DEF ExclusiveAppend
<1>36. ASSUME NEW t \in Threads, WriteAndFlushDone(t) PROVE NothingAckedEarly'
  BY <1>36 DEF WriteAndFlushDone, EndCall, ReturnToCaller, AckedByReturn
<1> HIDE DEF IInv, TypeOK, AllControl, AllAnswer, AllCallback, AllProgress,
            AllQueued, NothingAckedEarly, Published, PublishedIsDone
<1> QED
    BY <1>1, <1>2, <1>3, <1>4, <1>5, <1>6, <1>7, <1>8, <1>9, <1>10, <1>11,
     <1>12, <1>13, <1>14, <1>15, <1>16, <1>17, <1>18, <1>19, <1>20, <1>21,
     <1>22, <1>23, <1>24, <1>25, <1>26, <1>27, <1>28, <1>29, <1>30, <1>31,
     <1>32, <1>33, <1>34, <1>35, <1>36
     DEF Next, Quiet, Continue, Start

(* log_write_and_flush() leaves no callback behind.                         *)
LEMMA NoneLeftStep ==
  IInv /\ [Next]_vars => NoneLeftBehind'
<1> SUFFICES ASSUME IInv, [Next]_vars PROVE NoneLeftBehind'
  OBVIOUS
<1>0. TypeOK'
  BY TypeStep DEF IInv
<1> USE LogAssumption, GroupCommitAssumption
        DEF gclVars, lockVars, threadVars, logVars, jobVars, At, Goto,
        Outside, MaxOf, SetPending, IInv, TypeOK, GclTypeOK, CallbackArg,
        ReturnCode, Got, AcquireStages, OwnStages, WriteStages, FlushStages,
        AllControl, Control, AllLatched, Latched, AllQueued, Queued,
        NoneLeftBehind
<1>1. CASE Append
  BY <1>1 DEF Append
<1>2. CASE UNCHANGED vars
  BY <1>2 DEF vars
<1>3. ASSUME NEW t \in Threads, NEW n \in 1 .. MaxLsn, NEW d \in BOOLEAN,
             NEW c \in Callbacks \cup {NoCallback}, StartWriteUpTo(t, n, d, c)
      PROVE NoneLeftBehind'
  BY <1>3 DEF StartWriteUpTo
<1>4. ASSUME NEW t \in Threads, NEW n \in 1 .. MaxLsn, TrxFlushNotNeeded(t, n)
      PROVE NoneLeftBehind'
  BY <1>4 DEF TrxFlushNotNeeded
<1>5. ASSUME NEW t \in Threads, NEW o \in {"resize", "write_and_flush"},
   StartExclusive(t, o)
      PROVE NoneLeftBehind'
  BY <1>5 DEF StartExclusive
<1>6. ASSUME NEW t \in Threads, InLock(t) PROVE NoneLeftBehind'
  <2>1. MethodEffect(t)
    BY <1>6, Effects
  <2>2. UNCHANGED <<stage, op>>
    BY <1>6 DEF InLock
  <2>3. \A u \in Threads : stage[u] \notin AcquireStages => rc'[u] = rc[u]
    BY <2>1 DEF MethodEffect, Wakes
  <2> HIDE DEF TypeOK, AllControl, AllLatched, AllQueued
  <2> QED
    BY <2>2, <2>3
<1>7. ASSUME NEW t \in Threads, RepeatDurable(t) PROVE NoneLeftBehind'
  <2>1. AcquireEffect(t, "flush", reqlsn[t], callback[t])
    BY <1>7, Effects
  <2> QED
    BY <1>0, <1>7, <2>1 DEF RepeatDurable, CallAcquire, AcquireEffect
<1>8. ASSUME NEW t \in Threads, RepeatWrite(t) PROVE NoneLeftBehind'
  <2>1. AcquireEffect(t, "write", reqlsn[t], callback[t])
    BY <1>8, Effects
  <2> QED
    BY <1>0, <1>8, <2>1 DEF RepeatWrite, CallAcquire, AcquireEffect
<1>9. ASSUME NEW t \in Threads, FlushNotAcquired(t) PROVE NoneLeftBehind'
  BY <1>9 DEF FlushNotAcquired, EndCall, ReturnToCaller, AckedByReturn
<1>10. ASSUME NEW t \in Threads, FlushPromise(t) PROVE NoneLeftBehind'
  BY <1>10 DEF FlushPromise
<1>11. ASSUME NEW t \in Threads, WriteAfterPromise(t) PROVE NoneLeftBehind'
  <2>1. AcquireEffect(t, "write", reqlsn[t], NoCallback)
    BY <1>11, Effects
  <2> QED
    BY <1>0, <1>11, <2>1 DEF WriteAfterPromise, CallAcquire, AcquireEffect
<1>12. ASSUME NEW t \in Threads, WriteAcquired(t) PROVE NoneLeftBehind'
  BY <1>12 DEF WriteAcquired, Latch
<1>13. ASSUME NEW t \in Threads, WriteBufNothing(t) PROVE NoneLeftBehind'
  BY <1>13 DEF WriteBufNothing, LatchAfterWriteBuf
<1>14. ASSUME NEW t \in Threads, WriteBuf(t) PROVE NoneLeftBehind'
  BY <1>14 DEF WriteBuf, LatchAfterWriteBuf
<1>15. ASSUME NEW t \in Threads, LogWriteBuf(t) PROVE NoneLeftBehind'
  BY <1>15 DEF LogWriteBuf
<1>16. ASSUME NEW t \in Threads, WriteRelease(t) PROVE NoneLeftBehind'
  <2>1. ReleaseEffect(t, "write", target[t])
    BY <1>16, Effects
  <2> QED
    BY <1>0, <1>16, <2>1 DEF WriteRelease, CallRelease, ReleaseEffect
<1>17. ASSUME NEW t \in Threads, LogFlush(t) PROVE NoneLeftBehind'
  BY <1>17 DEF LogFlush
<1>18. ASSUME NEW t \in Threads, LogFlushCovered(t) PROVE NoneLeftBehind'
  BY <1>18 DEF LogFlushCovered
<1>19. ASSUME NEW t \in Threads, FlushBegin(t) PROVE NoneLeftBehind'
  BY <1>19 DEF FlushBegin
<1>20. ASSUME NEW t \in Threads, FlushEnd(t) PROVE NoneLeftBehind'
  BY <1>20 DEF FlushEnd
<1>21. ASSUME NEW t \in Threads, FlushRelease(t) PROVE NoneLeftBehind'
  <2>1. ReleaseEffect(t, "flush", target[t])
    BY <1>21, Effects
  <2> QED
    BY <1>0, <1>21, <2>1 DEF FlushRelease, CallRelease, ReleaseEffect
<1>22. ASSUME NEW t \in Threads, RoundReturn(t) PROVE NoneLeftBehind'
  BY <1>22
          DEF RoundReturn, EndCall, ReturnToCaller, AckedByReturn, RoundOver,
        PendingLsn
<1>23. ASSUME NEW t \in Threads, RoundAgain(t) PROVE NoneLeftBehind'
  BY <1>23
          DEF RoundAgain, EndCall, ReturnToCaller, AckedByReturn, RoundOver,
        PendingLsn
<1>24. ASSUME NEW t \in Threads, WriteCovered(t) PROVE NoneLeftBehind'
  BY <1>24 DEF WriteCovered, EndCall, ReturnToCaller, AckedByReturn
<1>25. ASSUME NEW t \in Threads, GetLsnForFlush(t) PROVE NoneLeftBehind'
  BY <1>25 DEF GetLsnForFlush, GetLsn
<1>26. ASSUME NEW t \in Threads, OwnFlush(t) PROVE NoneLeftBehind'
  <2>1. AcquireEffect(t, "flush", reqlsn[t], NoCallback)
    BY <1>26, Effects
  <2> QED
    BY <1>0, <1>26, <2>1 DEF OwnFlush, CallAcquire, AcquireEffect
<1>27. ASSUME NEW t \in Threads, GetLsnForWrite(t) PROVE NoneLeftBehind'
  BY <1>27 DEF GetLsnForWrite, GetLsn
<1>28. ASSUME NEW t \in Threads, OwnWrite(t) PROVE NoneLeftBehind'
  <2>1. AcquireEffect(t, "write", reqlsn[t], NoCallback)
    BY <1>28, Effects
  <2> QED
    BY <1>0, <1>28, <2>1 DEF OwnWrite, CallAcquire, AcquireEffect
<1>29. ASSUME NEW t \in Threads, OwnedAll(t) PROVE NoneLeftBehind'
  BY <1>29 DEF OwnedAll, Latch
<1>30. ASSUME NEW t \in Threads, ResizeUnlatch(t) PROVE NoneLeftBehind'
  BY <1>30 DEF ResizeUnlatch
<1>31. ASSUME NEW t \in Threads, ResizeReleaseWrite(t) PROVE NoneLeftBehind'
  <2>1. ReleaseEffect(t, "write", m_value["write"])
    BY <1>31, Effects
  <2> QED
    BY <1>0, <1>31, <2>1 DEF ResizeReleaseWrite, CallRelease, ReleaseEffect
<1>32. ASSUME NEW t \in Threads, ResizeReleaseFlush(t) PROVE NoneLeftBehind'
  <2>1. ReleaseEffect(t, "flush", m_value["flush"])
    BY <1>32, Effects
  <2> QED
    BY <1>0, <1>32, <2>1 DEF ResizeReleaseFlush, CallRelease, ReleaseEffect
<1>33. ASSUME NEW t \in Threads, ResizeReturn(t) PROVE NoneLeftBehind'
  BY <1>33 DEF ResizeReturn, EndCall, ReturnToCaller, AckedByReturn
<1>34. ASSUME NEW t \in Threads, ResizeAgain(t) PROVE NoneLeftBehind'
  BY <1>34 DEF ResizeAgain, EndCall, ReturnToCaller, AckedByReturn
<1>35. ASSUME NEW t \in Threads, ExclusiveAppend(t) PROVE NoneLeftBehind'
  BY <1>35 DEF ExclusiveAppend
<1>36. ASSUME NEW t \in Threads, WriteAndFlushDone(t) PROVE NoneLeftBehind'
  BY <1>36 DEF WriteAndFlushDone, EndCall, ReturnToCaller, AckedByReturn
<1> HIDE DEF IInv, TypeOK, AllControl, AllLatched, AllQueued, NoneLeftBehind
<1> QED
    BY <1>1, <1>2, <1>3, <1>4, <1>5, <1>6, <1>7, <1>8, <1>9, <1>10, <1>11,
     <1>12, <1>13, <1>14, <1>15, <1>16, <1>17, <1>18, <1>19, <1>20, <1>21,
     <1>22, <1>23, <1>24, <1>25, <1>26, <1>27, <1>28, <1>29, <1>30, <1>31,
     <1>32, <1>33, <1>34, <1>35, <1>36
     DEF Next, Quiet, Continue, Start

(* Every step moves the positions forward, or not at all.                   *)
LEMMA ForwardStep ==
  IInv /\ [Next]_vars => Forward
<1> SUFFICES ASSUME IInv, [Next]_vars PROVE Forward
  OBVIOUS
<1>0. TypeOK'
  BY TypeStep DEF IInv
<1> USE LogAssumption, GroupCommitAssumption
        DEF gclVars, lockVars, threadVars, logVars, jobVars, At, Goto,
        Outside, MaxOf, SetPending, IInv, TypeOK, GclTypeOK, CallbackArg,
        ReturnCode, Got, AcquireStages, OwnStages, WriteStages, FlushStages,
        Forward, Published, PublishedIsDone, AllProgress, Progress
<1>1. CASE Append
  BY <1>1 DEF Append
<1>2. CASE UNCHANGED vars
  BY <1>2 DEF vars
<1>3. ASSUME NEW t \in Threads, NEW n \in 1 .. MaxLsn, NEW d \in BOOLEAN,
             NEW c \in Callbacks \cup {NoCallback}, StartWriteUpTo(t, n, d, c)
      PROVE Forward
  BY <1>3 DEF StartWriteUpTo
<1>4. ASSUME NEW t \in Threads, NEW n \in 1 .. MaxLsn, TrxFlushNotNeeded(t, n)
      PROVE Forward
  BY <1>4 DEF TrxFlushNotNeeded
<1>5. ASSUME NEW t \in Threads, NEW o \in {"resize", "write_and_flush"},
   StartExclusive(t, o)
      PROVE Forward
  BY <1>5 DEF StartExclusive
<1>6. ASSUME NEW t \in Threads, InLock(t) PROVE Forward
  <2>1. MethodEffect(t)
    BY <1>6, Effects
  <2>2. CASE Wakes(t)
    BY <1>6, <2>1, <2>2 DEF InLock, MethodEffect, Wakes
  <2>3. CASE pc[t] # "out" /\ Waits(t)
    BY <1>6, <2>1, <2>3 DEF InLock, MethodEffect, Waits
  <2>4. CASE pc[t] # "out" /\ Expires(t)
    BY <1>6, <2>1, <2>4 DEF InLock, MethodEffect, Expires
  <2>5. CASE pc[t] # "out" /\ Acquires(t)
    BY <1>6, <2>1, <2>5 DEF InLock, MethodEffect, Acquires
  <2>6. CASE pc[t] # "out" /\ Queues(t)
    BY <1>6, <2>1, <2>6 DEF InLock, MethodEffect, Queues
  <2> QED
    BY <2>1, <2>2, <2>3, <2>4, <2>5, <2>6 DEF MethodEffect
<1>7. ASSUME NEW t \in Threads, RepeatDurable(t) PROVE Forward
  <2>1. AcquireEffect(t, "flush", reqlsn[t], callback[t])
    BY <1>7, Effects
  <2> QED
    BY <1>0, <1>7, <2>1 DEF RepeatDurable, CallAcquire, AcquireEffect
<1>8. ASSUME NEW t \in Threads, RepeatWrite(t) PROVE Forward
  <2>1. AcquireEffect(t, "write", reqlsn[t], callback[t])
    BY <1>8, Effects
  <2> QED
    BY <1>0, <1>8, <2>1 DEF RepeatWrite, CallAcquire, AcquireEffect
<1>9. ASSUME NEW t \in Threads, FlushNotAcquired(t) PROVE Forward
  BY <1>9 DEF FlushNotAcquired, EndCall, ReturnToCaller, AckedByReturn
<1>10. ASSUME NEW t \in Threads, FlushPromise(t) PROVE Forward
  BY <1>10 DEF FlushPromise
<1>11. ASSUME NEW t \in Threads, WriteAfterPromise(t) PROVE Forward
  <2>1. AcquireEffect(t, "write", reqlsn[t], NoCallback)
    BY <1>11, Effects
  <2> QED
    BY <1>0, <1>11, <2>1 DEF WriteAfterPromise, CallAcquire, AcquireEffect
<1>12. ASSUME NEW t \in Threads, WriteAcquired(t) PROVE Forward
  BY <1>12 DEF WriteAcquired, Latch
<1>13. ASSUME NEW t \in Threads, WriteBufNothing(t) PROVE Forward
  BY <1>13 DEF WriteBufNothing, LatchAfterWriteBuf
<1>14. ASSUME NEW t \in Threads, WriteBuf(t) PROVE Forward
  BY <1>14 DEF WriteBuf, LatchAfterWriteBuf
<1>15. ASSUME NEW t \in Threads, LogWriteBuf(t) PROVE Forward
  BY <1>15 DEF LogWriteBuf
<1>16. ASSUME NEW t \in Threads, WriteRelease(t) PROVE Forward
  <2>1. ReleaseEffect(t, "write", target[t])
    BY <1>16, Effects
  <2> QED
    BY <1>0, <1>16, <2>1 DEF WriteRelease, CallRelease, ReleaseEffect
<1>17. ASSUME NEW t \in Threads, LogFlush(t) PROVE Forward
  BY <1>17 DEF LogFlush
<1>18. ASSUME NEW t \in Threads, LogFlushCovered(t) PROVE Forward
  BY <1>18 DEF LogFlushCovered
<1>19. ASSUME NEW t \in Threads, FlushBegin(t) PROVE Forward
  BY <1>19 DEF FlushBegin
<1>20. ASSUME NEW t \in Threads, FlushEnd(t) PROVE Forward
  BY <1>20 DEF FlushEnd
<1>21. ASSUME NEW t \in Threads, FlushRelease(t) PROVE Forward
  <2>1. ReleaseEffect(t, "flush", target[t])
    BY <1>21, Effects
  <2> QED
    BY <1>0, <1>21, <2>1 DEF FlushRelease, CallRelease, ReleaseEffect
<1>22. ASSUME NEW t \in Threads, RoundReturn(t) PROVE Forward
  BY <1>22
          DEF RoundReturn, EndCall, ReturnToCaller, AckedByReturn, RoundOver,
        PendingLsn
<1>23. ASSUME NEW t \in Threads, RoundAgain(t) PROVE Forward
  BY <1>23
          DEF RoundAgain, EndCall, ReturnToCaller, AckedByReturn, RoundOver,
        PendingLsn
<1>24. ASSUME NEW t \in Threads, WriteCovered(t) PROVE Forward
  BY <1>24 DEF WriteCovered, EndCall, ReturnToCaller, AckedByReturn
<1>25. ASSUME NEW t \in Threads, GetLsnForFlush(t) PROVE Forward
  BY <1>25 DEF GetLsnForFlush, GetLsn
<1>26. ASSUME NEW t \in Threads, OwnFlush(t) PROVE Forward
  <2>1. AcquireEffect(t, "flush", reqlsn[t], NoCallback)
    BY <1>26, Effects
  <2> QED
    BY <1>0, <1>26, <2>1 DEF OwnFlush, CallAcquire, AcquireEffect
<1>27. ASSUME NEW t \in Threads, GetLsnForWrite(t) PROVE Forward
  BY <1>27 DEF GetLsnForWrite, GetLsn
<1>28. ASSUME NEW t \in Threads, OwnWrite(t) PROVE Forward
  <2>1. AcquireEffect(t, "write", reqlsn[t], NoCallback)
    BY <1>28, Effects
  <2> QED
    BY <1>0, <1>28, <2>1 DEF OwnWrite, CallAcquire, AcquireEffect
<1>29. ASSUME NEW t \in Threads, OwnedAll(t) PROVE Forward
  BY <1>29 DEF OwnedAll, Latch
<1>30. ASSUME NEW t \in Threads, ResizeUnlatch(t) PROVE Forward
  BY <1>30 DEF ResizeUnlatch
<1>31. ASSUME NEW t \in Threads, ResizeReleaseWrite(t) PROVE Forward
  <2>1. ReleaseEffect(t, "write", m_value["write"])
    BY <1>31, Effects
  <2> QED
    BY <1>0, <1>31, <2>1 DEF ResizeReleaseWrite, CallRelease, ReleaseEffect
<1>32. ASSUME NEW t \in Threads, ResizeReleaseFlush(t) PROVE Forward
  <2>1. ReleaseEffect(t, "flush", m_value["flush"])
    BY <1>32, Effects
  <2> QED
    BY <1>0, <1>32, <2>1 DEF ResizeReleaseFlush, CallRelease, ReleaseEffect
<1>33. ASSUME NEW t \in Threads, ResizeReturn(t) PROVE Forward
  BY <1>33 DEF ResizeReturn, EndCall, ReturnToCaller, AckedByReturn
<1>34. ASSUME NEW t \in Threads, ResizeAgain(t) PROVE Forward
  BY <1>34 DEF ResizeAgain, EndCall, ReturnToCaller, AckedByReturn
<1>35. ASSUME NEW t \in Threads, ExclusiveAppend(t) PROVE Forward
  BY <1>35 DEF ExclusiveAppend
<1>36. ASSUME NEW t \in Threads, WriteAndFlushDone(t) PROVE Forward
  BY <1>36 DEF WriteAndFlushDone, EndCall, ReturnToCaller, AckedByReturn
<1> HIDE DEF IInv, TypeOK, Forward, Published, PublishedIsDone, AllProgress
<1> QED
    BY <1>1, <1>2, <1>3, <1>4, <1>5, <1>6, <1>7, <1>8, <1>9, <1>10, <1>11,
     <1>12, <1>13, <1>14, <1>15, <1>16, <1>17, <1>18, <1>19, <1>20, <1>21,
     <1>22, <1>23, <1>24, <1>25, <1>26, <1>27, <1>28, <1>29, <1>30, <1>31,
     <1>32, <1>33, <1>34, <1>35, <1>36
     DEF Next, Quiet, Continue, Start

(* A queued callback is in one lock, in one pair.                          *)
LEMMA QueuedOnce ==
  ASSUME TypeOK, AllQueued, NEW k \in Locks, NEW l \in Locks,
         NEW p \in m_pending_callbacks[k], NEW q \in m_pending_callbacks[l],
         p.cb = q.cb, p.cb \in Callbacks
  PROVE  k = l /\ p = q
<1>1. p \in PendingCb /\ q \in PendingCb
  BY DEF TypeOK, GclTypeOK
<1>2. Wanted(p.cb, p.num, k) /\ Wanted(q.cb, q.num, l)
  BY DEF AllQueued, Queued
<1>3. p.num = q.num /\ k = l
  BY <1>2, LogAssumption DEF Wanted
<1> QED
  BY <1>1, <1>3 DEF PendingCb

(* Whatever is in some place has been asked for.                           *)
LEMMA PlacedAsked ==
  ASSUME TypeOK, AllCallback, AllQueued, NothingAckedEarly,
         NEW c \in Callbacks, want[c] = 0
  PROVE  HeldBy(c) = {} /\ QueuedIn(c) = {} /\ TakenBy(c) = {} /\ fired[c] = 0
<1>1. HeldBy(c) = {}
  BY DEF HeldBy, Handed, AllCallback, Callback, Wanted
<1>2. QueuedIn(c) = {}
  BY DEF QueuedIn, AllQueued, Queued, Wanted
<1>3. TakenBy(c) = {}
  BY DEF TakenBy, AllCallback, Callback, Served
<1>4. fired[c] = 0
  <2>1. fired[c] \in Nat
    BY DEF TypeOK, GclTypeOK
  <2>2. ~(fired[c] > 0)
    BY DEF NothingAckedEarly
  <2> QED
    BY <2>1, <2>2
<1> QED
  BY <1>1, <1>2, <1>3, <1>4

(* A step that gives no thread a callback, and moves none.                 *)
LEMMA PlaceFrame ==
  ASSUME OnePlace, UNCHANGED <<m_pending_callbacks, torun, fired>>,
         \A x \in Threads, c \in Callbacks : Handed(x, c)' => Handed(x, c)
  PROVE  OnePlace'
  BY DEF OnePlace, AtMostOne, HeldBy, QueuedIn, TakenBy

(* acquire() keeps the callback it was given, or runs it and returns.      *)
LEMMA AcquirePlace ==
  ASSUME TypeOK, OnePlace, NEW t \in Threads, NEW l \in Locks, NEW n \in Nat,
         NEW c \in CallbackArg, AcquireEffect(t, l, n, c), pc[t] = "out",
         c \in Callbacks => Handed(t, c), stage'[t] # "repeat",
         \A x \in Threads \ {t} : stage'[x] = stage[x],
         callback' = callback
  PROVE  OnePlace'
<1> SUFFICES ASSUME NEW d \in Callbacks
             PROVE  /\ AtMostOne(HeldBy(d))' /\ AtMostOne(QueuedIn(d))'
                    /\ AtMostOne(TakenBy(d))'
                    /\ HeldBy(d)' # {} => QueuedIn(d)' = {}
                    /\ HeldBy(d)' # {} \/ QueuedIn(d)' # {} => TakenBy(d)' = {}
                    /\ \/ HeldBy(d)' # {} \/ QueuedIn(d)' # {}
                       \/ TakenBy(d)' # {}
                       => fired'[d] = 0
                    /\ fired'[d] <= 1
  BY DEF OnePlace
<1>1. QueuedIn(d)' = QueuedIn(d) /\ TakenBy(d)' = TakenBy(d)
  BY DEF QueuedIn, TakenBy, AcquireEffect
<1>2. \A x \in Threads \ {t} : Handed(x, d)' <=> Handed(x, d)
  BY DEF AcquireEffect, Handed, TypeOK, GclTypeOK
<1>3. Handed(t, d)' => pc'[t] # "out" /\ d = c
  BY DEF AcquireEffect, Handed, TypeOK, GclTypeOK
<1>4. fired[d] \in Nat
  BY DEF TypeOK, GclTypeOK
<1>5. CASE pc'[t] = "loop" /\ fired' = fired
  <2>1. HeldBy(d)' \subseteq HeldBy(d)
    BY <1>2, <1>3 DEF HeldBy
  <2> QED
    BY <1>1, <1>5, <2>1 DEF OnePlace, AtMostOne
<1>6. CASE pc'[t] = "out" /\ fired' = AfterCallback({c})
  <2>1. HeldBy(d)' \subseteq HeldBy(d) \ {t}
    BY <1>2, <1>3, <1>6 DEF HeldBy
  <2>2. CASE d = c
    <3>1. t \in HeldBy(d)
      BY <2>2 DEF HeldBy
    <3>2. HeldBy(d)' = {}
      BY <2>1, <3>1 DEF OnePlace, AtMostOne
    <3>3. fired'[d] = 1 /\ QueuedIn(d) = {} /\ TakenBy(d) = {}
      BY <1>6, <2>2, <3>1 DEF OnePlace, AfterCallback
    <3> QED
      BY <1>1, <3>2, <3>3 DEF AtMostOne
  <2>3. CASE d # c
    <3>1. fired'[d] = fired[d]
      BY <1>6, <2>3 DEF AfterCallback
    <3> QED
      BY <1>1, <2>1, <3>1 DEF OnePlace, AtMostOne
  <2> QED
    BY <2>2, <2>3
<1> QED
  BY <1>5, <1>6 DEF AcquireEffect

(* release() takes callbacks out of the lock: each runs, or will.          *)
LEMMA ReleasePlace ==
  ASSUME TypeOK, AllQueued, OnePlace, NEW t \in Threads, NEW l \in Locks,
         NEW n \in Nat, ReleaseEffect(t, l, n), torun[t] = {},
         \A x \in Threads, c \in Callbacks : Handed(x, c)' => Handed(x, c)
  PROVE  OnePlace'
<1> SUFFICES ASSUME NEW d \in Callbacks
             PROVE  /\ AtMostOne(HeldBy(d))' /\ AtMostOne(QueuedIn(d))'
                    /\ AtMostOne(TakenBy(d))'
                    /\ HeldBy(d)' # {} => QueuedIn(d)' = {}
                    /\ HeldBy(d)' # {} \/ QueuedIn(d)' # {} => TakenBy(d)' = {}
                    /\ \/ HeldBy(d)' # {} \/ QueuedIn(d)' # {}
                       \/ TakenBy(d)' # {}
                       => fired'[d] = 0
                    /\ fired'[d] <= 1
  BY DEF OnePlace
<1> DEFINE ready == {p \in m_pending_callbacks[l] : p.num <= n}
<1>1. m_pending_callbacks' =
        [m_pending_callbacks EXCEPT ![l] = m_pending_callbacks[l] \ ready]
  BY DEF ReleaseEffect, ReleaseTakes
<1>2. PICK later \in SUBSET ready :
        /\ torun' = [torun EXCEPT ![t] = {p.cb : p \in later}]
        /\ fired' = AfterCallback({p.cb : p \in ready \ later})
  BY DEF ReleaseEffect, ReleaseTakes
<1>3. HeldBy(d)' \subseteq HeldBy(d)
  BY DEF HeldBy
<1>4. QueuedIn(d)' \subseteq QueuedIn(d)
  BY <1>1 DEF QueuedIn, TypeOK, GclTypeOK
<1>5. fired[d] \in Nat
  BY DEF TypeOK, GclTypeOK
<1>6. \A x \in Threads \ {t} : torun'[x] = torun[x]
  BY <1>2 DEF TypeOK, GclTypeOK
<1>7. torun'[t] = {p.cb : p \in later}
  BY <1>2 DEF TypeOK, GclTypeOK
<1>8. CASE \E p \in ready : p.cb = d
  <2>1. PICK p \in ready : p.cb = d
    BY <1>8
  <2>2. l \in QueuedIn(d)
    BY <2>1 DEF QueuedIn
  <2>3. HeldBy(d) = {} /\ TakenBy(d) = {} /\ fired[d] = 0
    BY <2>2 DEF OnePlace
  <2>4. \A k \in Locks : \A q \in m_pending_callbacks[k] :
          q.cb = d => k = l /\ q = p
    BY <2>1, QueuedOnce
  <2>5. QueuedIn(d)' = {}
    BY <1>1, <2>1, <2>4 DEF QueuedIn, TypeOK, GclTypeOK
  <2>6. \A x \in Threads \ {t} : d \notin torun'[x]
    BY <1>6, <2>3 DEF TakenBy
  <2>7. CASE p \in later
    <3>1. d \notin {q.cb : q \in ready \ later}
      BY <2>4, <2>7
    <3>2. fired'[d] = 0
      BY <1>2, <2>3, <3>1 DEF AfterCallback
    <3>3. AtMostOne(TakenBy(d))'
      BY <2>6 DEF AtMostOne, TakenBy
    <3> QED
      BY <1>3, <2>3, <2>5, <3>2, <3>3 DEF AtMostOne
  <2>8. CASE p \notin later
    <3>1. d \in {q.cb : q \in ready \ later} /\ d \notin torun'[t]
      BY <1>7, <2>1, <2>4, <2>8
    <3>2. fired'[d] = 1
      BY <1>2, <2>3, <3>1 DEF AfterCallback
    <3>3. TakenBy(d)' = {}
      BY <2>6, <3>1 DEF TakenBy
    <3> QED
      BY <1>3, <2>3, <2>5, <3>2, <3>3 DEF AtMostOne
  <2> QED
    BY <2>7, <2>8
<1>9. CASE ~ \E p \in ready : p.cb = d
  <2>1. fired'[d] = fired[d]
    BY <1>2, <1>9 DEF AfterCallback
  <2>2. TakenBy(d)' \subseteq TakenBy(d)
    BY <1>6, <1>7, <1>9 DEF TakenBy
  <2> QED
    BY <1>3, <1>4, <2>1, <2>2 DEF OnePlace, AtMostOne
<1> QED
  BY <1>8, <1>9

(* Inside the methods a callback moves from the hands of its thread to the *)
(* lock, or is run; and release() runs what it has taken.                  *)
LEMMA MethodPlace ==
  ASSUME TypeOK, AllQueued, OnePlace, NEW t \in Threads, MethodEffect(t),
         UNCHANGED <<stage, callback>>, pc[t] # "out" => stage[t] # "repeat"
  PROVE  OnePlace'
<1> SUFFICES ASSUME NEW d \in Callbacks
             PROVE  /\ AtMostOne(HeldBy(d))' /\ AtMostOne(QueuedIn(d))'
                    /\ AtMostOne(TakenBy(d))'
                    /\ HeldBy(d)' # {} => QueuedIn(d)' = {}
                    /\ HeldBy(d)' # {} \/ QueuedIn(d)' # {} => TakenBy(d)' = {}
                    /\ \/ HeldBy(d)' # {} \/ QueuedIn(d)' # {}
                       \/ TakenBy(d)' # {}
                       => fired'[d] = 0
                    /\ fired'[d] <= 1
  BY DEF OnePlace
<1>1. fired[d] \in Nat
  BY DEF TypeOK, GclTypeOK
<1>2. \A x \in Threads \ {t} : Handed(x, d)' <=> Handed(x, d)
  BY DEF MethodEffect, Handed
<1>3. Handed(t, d)' => pc[t] = "out" \/ pc'[t] # "out" \/ stage[t] = "repeat"
  BY DEF MethodEffect, Handed
<1>4. CASE Wakes(t)
  <2>1. HeldBy(d)' = HeldBy(d) /\ QueuedIn(d)' = QueuedIn(d)
    BY <1>2, <1>4 DEF Wakes, HeldBy, Handed, QueuedIn, MethodEffect
  <2>2. CASE torun' = torun /\ fired' = fired
    BY <2>1, <2>2 DEF TakenBy, OnePlace, AtMostOne
  <2>3. ASSUME NEW c \in torun[t], torun' = [torun EXCEPT ![t] = @ \ {c}],
               fired' = AfterCallback({c})
        PROVE /\ TakenBy(d)' \subseteq TakenBy(d)
              /\ d # c => fired'[d] = fired[d]
              /\ d = c => /\ HeldBy(d) = {} /\ QueuedIn(d) = {}
                          /\ TakenBy(d)' = {} /\ fired'[d] = 1
    <3>1. TakenBy(d)' \subseteq TakenBy(d)
      BY <2>3 DEF TakenBy, TypeOK, GclTypeOK
    <3>2. d # c => fired'[d] = fired[d]
      BY <2>3 DEF AfterCallback
    <3>3. ASSUME d = c
          PROVE  /\ HeldBy(d) = {} /\ QueuedIn(d) = {}
                 /\ TakenBy(d)' = {} /\ fired'[d] = 1
      <4>1. t \in TakenBy(d)
        BY <3>3 DEF TakenBy
      <4>2. HeldBy(d) = {} /\ QueuedIn(d) = {} /\ fired[d] = 0
            /\ AtMostOne(TakenBy(d))
        BY <4>1 DEF OnePlace
      <4>3. t \notin TakenBy(d)'
        BY <2>3, <3>3 DEF TakenBy, TypeOK, GclTypeOK
      <4>4. fired'[d] = 1
        BY <2>3, <3>3, <4>2 DEF AfterCallback
      <4> QED
        BY <3>1, <4>1, <4>2, <4>3, <4>4 DEF AtMostOne
    <3> QED
      BY <3>1, <3>2, <3>3
  <2>4. CASE \E c \in torun[t] : /\ torun' = [torun EXCEPT ![t] = @ \ {c}]
                                /\ fired' = AfterCallback({c})
    <3>1. \/ TakenBy(d)' \subseteq TakenBy(d) /\ fired'[d] = fired[d]
          \/ /\ HeldBy(d) = {} /\ QueuedIn(d) = {}
             /\ TakenBy(d)' = {} /\ fired'[d] = 1
      BY <2>3, <2>4
    <3> QED
      BY <2>1, <3>1 DEF OnePlace, AtMostOne
  <2> QED
    BY <1>4, <2>2, <2>4 DEF Wakes
<1>5. CASE pc[t] # "out" /\ torun' = torun /\ Waits(t)
  <2>1. HeldBy(d)' = HeldBy(d) /\ QueuedIn(d)' = QueuedIn(d)
        /\ TakenBy(d)' = TakenBy(d) /\ fired' = fired
    BY <1>2, <1>5 DEF Waits, HeldBy, Handed, QueuedIn, TakenBy, MethodEffect
  <2> QED
    BY <2>1 DEF OnePlace, AtMostOne
<1>6. CASE pc[t] # "out" /\ torun' = torun /\ stage[t] # "repeat" /\ Expires(t)
  <2>1. /\ HeldBy(d)' = HeldBy(d) \ {t} /\ QueuedIn(d)' = QueuedIn(d)
        /\ TakenBy(d)' = TakenBy(d) /\ fired' = AfterCallback({cb[t]})
        /\ t \in HeldBy(d) <=> d = cb[t]
    BY <1>2, <1>6 DEF Expires, HeldBy, Handed, QueuedIn, TakenBy, MethodEffect
  <2>2. CASE d = cb[t]
    <3>1. HeldBy(d)' = {} /\ QueuedIn(d) = {} /\ TakenBy(d) = {} /\ fired[d] = 0
      BY <2>1, <2>2 DEF OnePlace, AtMostOne
    <3>2. fired'[d] = 1
      BY <2>1, <2>2, <3>1 DEF AfterCallback
    <3> QED
      BY <2>1, <3>1, <3>2 DEF AtMostOne
  <2>3. CASE d # cb[t]
    <3>1. fired'[d] = fired[d]
      BY <2>1, <2>3 DEF AfterCallback
    <3> QED
      BY <2>1, <3>1 DEF OnePlace, AtMostOne
  <2> QED
    BY <2>2, <2>3
<1>7. CASE /\ pc[t] # "out" /\ torun' = torun /\ stage[t] # "repeat"
           /\ Acquires(t) \/ Queues(t)
  <2>1. /\ HeldBy(d)' = HeldBy(d) \ {t} /\ TakenBy(d)' = TakenBy(d)
        /\ fired' = fired /\ QueueCallback(t)
        /\ t \in HeldBy(d) <=> d = cb[t]
    BY <1>2, <1>7
       DEF Acquires, Queues, HeldBy, Handed, TakenBy, MethodEffect
  <2>2. on[t] \in Locks
    BY DEF TypeOK, GclTypeOK
  <2>3. CASE d = cb[t]
    <3>1. /\ HeldBy(d)' = {} /\ QueuedIn(d) = {} /\ TakenBy(d) = {}
          /\ fired[d] = 0
      BY <2>1, <2>3 DEF OnePlace, AtMostOne
    <3>2. QueuedIn(d)' \subseteq {on[t]}
      BY <2>1, <2>2, <3>1 DEF QueuedIn, QueueCallback, TypeOK, GclTypeOK
    <3> QED
      BY <2>1, <3>1, <3>2 DEF AtMostOne
  <2>4. CASE d # cb[t]
    <3>1. QueuedIn(d)' \subseteq QueuedIn(d)
      BY <2>1, <2>2, <2>4 DEF QueuedIn, QueueCallback, TypeOK, GclTypeOK
    <3> QED
      BY <2>1, <3>1 DEF OnePlace, AtMostOne
  <2> QED
    BY <2>3, <2>4
<1> QED
  BY <1>4, <1>5, <1>6, <1>7 DEF MethodEffect

(* Every step leaves each callback in at most one place.                   *)
LEMMA PlaceStep ==
  IInv /\ [Next]_vars => OnePlace'
<1> SUFFICES ASSUME IInv, [Next]_vars PROVE OnePlace'
  OBVIOUS
<1>a. /\ TypeOK /\ AllControl /\ AllCallback /\ AllQueued /\ NothingAckedEarly
      /\ OnePlace
  BY DEF IInv
<1> USE LogAssumption, GroupCommitAssumption
        DEF gclVars, lockVars, threadVars, logVars, jobVars, At, Goto
(* Steps that hand a callback neither to a lock nor to a thread.           *)
<1>1. ASSUME UNCHANGED <<pc, cb, m_pending_callbacks, torun, fired>>,
             \A x \in Threads :
               stage'[x] = "repeat" /\ callback'[x] \in Callbacks =>
                 stage[x] = "repeat" /\ callback'[x] = callback[x]
      PROVE OnePlace'
  BY <1>a, <1>1, PlaceFrame DEF Handed
<1>2. CASE Append
  BY <1>1, <1>2 DEF Append
<1>3. CASE UNCHANGED vars
  BY <1>1, <1>3 DEF vars
<1>4. ASSUME NEW t \in Threads, NEW n \in 1 .. MaxLsn, NEW d \in BOOLEAN,
             NEW c \in Callbacks \cup {NoCallback}, StartWriteUpTo(t, n, d, c)
      PROVE OnePlace'
  <2>1. /\ stage' = [stage EXCEPT ![t] = "repeat"]
        /\ callback' = [callback EXCEPT ![t] = c]
        /\ UNCHANGED <<pc, cb, m_pending_callbacks, torun, fired>>
        /\ c \in Callbacks => want[c] = 0
    BY <1>4 DEF StartWriteUpTo
  <2>2. \A x \in Threads \ {t}, e \in Callbacks : Handed(x, e)' <=> Handed(x, e)
    BY <1>a, <2>1 DEF Handed, TypeOK
  <2>3. pc[t] = "out"
    BY <1>4 DEF StartWriteUpTo, Outside
  <2>4. \A e \in Callbacks : Handed(t, e)' => e = c
    BY <1>a, <2>1, <2>3 DEF Handed, TypeOK
  <2>5. \A e \in Callbacks : e # c => HeldBy(e)' \subseteq HeldBy(e)
    BY <2>2, <2>4 DEF HeldBy
  <2>6. c \in Callbacks =>
          /\ HeldBy(c) = {} /\ QueuedIn(c) = {} /\ TakenBy(c) = {}
          /\ fired[c] = 0
    BY <1>a, <2>1, PlacedAsked
  <2>7. c \in Callbacks => HeldBy(c)' \subseteq {t}
    BY <2>2, <2>6 DEF HeldBy
  <2>8. \A e \in Callbacks : QueuedIn(e)' = QueuedIn(e) /\ TakenBy(e)' = TakenBy(e)
    BY <2>1 DEF QueuedIn, TakenBy
  <2> QED
    BY <1>a, <2>1, <2>5, <2>6, <2>7, <2>8 DEF OnePlace, AtMostOne
<1>5. ASSUME NEW t \in Threads,
             \/ \E n \in 1 .. MaxLsn : TrxFlushNotNeeded(t, n)
             \/ \E o \in {"resize", "write_and_flush"} : StartExclusive(t, o)
             \/ FlushNotAcquired(t) \/ FlushPromise(t) \/ WriteAcquired(t)
             \/ WriteBufNothing(t) \/ WriteBuf(t) \/ LogWriteBuf(t)
             \/ LogFlush(t) \/ LogFlushCovered(t) \/ FlushBegin(t)
             \/ FlushEnd(t) \/ RoundReturn(t) \/ WriteCovered(t)
             \/ GetLsnForFlush(t) \/ GetLsnForWrite(t) \/ OwnedAll(t)
             \/ ResizeUnlatch(t) \/ ResizeReturn(t) \/ ExclusiveAppend(t)
             \/ WriteAndFlushDone(t)
      PROVE OnePlace'
  <2>1. UNCHANGED <<pc, cb, m_pending_callbacks, torun, fired>>
    BY <1>5 DEF TrxFlushNotNeeded, StartExclusive, FlushNotAcquired,
       FlushPromise, WriteAcquired, WriteBufNothing, WriteBuf, LogWriteBuf,
       LogFlush, LogFlushCovered, FlushBegin, FlushEnd, RoundReturn,
       WriteCovered, GetLsnForFlush, GetLsnForWrite, GetLsn, OwnedAll,
       ResizeUnlatch, ResizeReturn, ExclusiveAppend, WriteAndFlushDone, Latch
  <2>2. \/ stage' = stage
        \/ \E s \in Stages \ {"repeat"} : stage' = [stage EXCEPT ![t] = s]
    BY <1>5 DEF TrxFlushNotNeeded, StartExclusive, FlushNotAcquired,
       FlushPromise, WriteAcquired, WriteBufNothing, WriteBuf, LogWriteBuf,
       LogFlush, LogFlushCovered, FlushBegin, FlushEnd, RoundReturn,
       WriteCovered, GetLsnForFlush, GetLsnForWrite, GetLsn, OwnedAll,
       ResizeUnlatch, ResizeReturn, ExclusiveAppend, WriteAndFlushDone, Latch,
       ReturnToCaller, EndCall, Stages
  <2>3. \/ callback' = callback
        \/ callback' = [callback EXCEPT ![t] = NoCallback]
    BY <1>5 DEF TrxFlushNotNeeded, StartExclusive, FlushNotAcquired,
       FlushPromise, WriteAcquired, WriteBufNothing, WriteBuf, LogWriteBuf,
       LogFlush, LogFlushCovered, FlushBegin, FlushEnd, RoundReturn,
       WriteCovered, GetLsnForFlush, GetLsnForWrite, GetLsn, OwnedAll,
       ResizeUnlatch, ResizeReturn, ExclusiveAppend, WriteAndFlushDone, Latch,
       ReturnToCaller, EndCall
  <2> QED
    BY <1>1, <1>a, <2>1, <2>2, <2>3 DEF TypeOK
<1>6. ASSUME NEW t \in Threads, RoundAgain(t) \/ ResizeAgain(t)
      PROVE OnePlace'
  <2>1. UNCHANGED <<pc, cb, m_pending_callbacks, torun, fired>>
    BY <1>6 DEF RoundAgain, ResizeAgain
  <2>2. stage' = [stage EXCEPT ![t] = "repeat"]
    BY <1>6 DEF RoundAgain, ResizeAgain
  <2>3. \/ callback' = [callback EXCEPT ![t] = Dummy]
        \/ callback' = callback /\ callback[t] = NoCallback
    BY <1>a, <1>6 DEF RoundAgain, ResizeAgain, AllControl, Control, OwnStages
  <2> QED
    BY <1>1, <1>a, <2>1, <2>2, <2>3 DEF TypeOK
(* Calls of acquire(), of release(), and the steps inside them.            *)
<1>7. ASSUME NEW t \in Threads,
             \/ RepeatDurable(t) \/ RepeatWrite(t) \/ WriteAfterPromise(t)
             \/ OwnFlush(t) \/ OwnWrite(t)
      PROVE OnePlace'
  <2>1. /\ pc[t] = "out" /\ callback' = callback
        /\ \E s \in Stages \ {"repeat"} : stage' = [stage EXCEPT ![t] = s]
    BY <1>7 DEF RepeatDurable, RepeatWrite, WriteAfterPromise, OwnFlush,
       OwnWrite, CallAcquire, Outside, Stages
  <2>2. /\ stage'[t] # "repeat"
        /\ \A x \in Threads \ {t} : stage'[x] = stage[x]
    BY <1>a, <2>1 DEF TypeOK
  <2>3. /\ reqlsn[t] \in Nat /\ callback[t] \in CallbackArg
        /\ NoCallback \in CallbackArg
    BY <1>a DEF TypeOK, CallbackArg
  <2>4. \/ \E l \in Locks : /\ AcquireEffect(t, l, reqlsn[t], callback[t])
                            /\ stage[t] = "repeat"
        \/ \E l \in Locks : AcquireEffect(t, l, reqlsn[t], NoCallback)
    BY <1>a, <1>7, Effects DEF RepeatDurable, RepeatWrite, CallAcquire
  <2>5. ASSUME NEW l \in Locks, AcquireEffect(t, l, reqlsn[t], callback[t]),
               stage[t] = "repeat"
        PROVE OnePlace'
    <3>1. callback[t] \in Callbacks => Handed(t, callback[t])
      BY <2>5 DEF Handed
    <3> QED
      BY <1>a, <2>1, <2>2, <2>3, <2>5, <3>1, AcquirePlace
  <2>6. ASSUME NEW l \in Locks, AcquireEffect(t, l, reqlsn[t], NoCallback)
        PROVE OnePlace'
    BY <1>a, <2>1, <2>2, <2>3, <2>6, AcquirePlace
  <2> QED
    BY <2>4, <2>5, <2>6
<1>8. ASSUME NEW t \in Threads,
             \/ WriteRelease(t) \/ FlushRelease(t) \/ ResizeReleaseWrite(t)
             \/ ResizeReleaseFlush(t)
      PROVE OnePlace'
  <2>1. /\ torun[t] = {} /\ callback' = callback
        /\ \E s \in Stages \ {"repeat"} : stage' = [stage EXCEPT ![t] = s]
    BY <1>8 DEF WriteRelease, FlushRelease, ResizeReleaseWrite,
       ResizeReleaseFlush, CallRelease, Outside, Stages
  <2>2. \E l \in Locks, n \in Nat : ReleaseEffect(t, l, n)
    <3>1. /\ target[t] \in Nat /\ m_value["write"] \in Nat
          /\ m_value["flush"] \in Nat
      BY <1>a DEF TypeOK, GclTypeOK
    <3> QED
      BY <1>a, <1>8, <3>1, Effects
  <2>3. PICK l \in Locks, n \in Nat : ReleaseEffect(t, l, n)
    BY <2>2
  <2>4. \A x \in Threads, c \in Callbacks : Handed(x, c)' => Handed(x, c)
    BY <1>a, <2>1, <2>3 DEF Handed, ReleaseEffect, TypeOK
  <2> QED
    BY <1>a, <2>1, <2>3, <2>4, ReleasePlace
<1>9. ASSUME NEW t \in Threads, InLock(t) PROVE OnePlace'
  <2>1. MethodEffect(t) /\ UNCHANGED <<stage, callback>>
    BY <1>a, <1>9, Effects DEF InLock
  <2>2. pc[t] # "out" => stage[t] # "repeat"
    BY <1>a DEF AllControl, Control, AcquireStages
  <2> QED
    BY <1>a, <2>1, <2>2, MethodPlace
<1> QED
  BY <1>2, <1>3, <1>4, <1>5, <1>6, <1>7, <1>8, <1>9
     DEF Next, Quiet, Continue, Start

(* The initial states satisfy the inductive invariant.                     *)
LEMMA InitIInv == Init => IInv
<1> SUFFICES ASSUME Init PROVE IInv
  OBVIOUS
<1> USE LogAssumption, GroupCommitAssumption DEF Init, GclInit
<1>1. TypeOK
  <2>1. (CHOOSE l \in Locks : TRUE) \in Locks
    OBVIOUS
  <2> QED
    BY <2>1 DEF TypeOK, GclTypeOK, Stages, MethodPc, ReturnCode, CallbackArg
<1>2. AllControl /\ AllAnswer /\ AllLatched /\ AllCallback /\ AllQueued
  BY DEF AllControl, Control, AllAnswer, Answer, AllLatched, Latched,
         AllCallback, Callback, AllQueued, Queued, AcquireStages, OwnStages,
         WriteStages, FlushStages
<1>3. SingleOwner
  BY DEF SingleOwner, Owns, OwnsWrite, OwnsFlush
<1>4. Published /\ AllProgress
  BY DEF Published, PublishedIsDone, AllProgress, Progress, FlushStages
<1>5. NothingAckedEarly /\ NoneLeftBehind
  BY DEF NothingAckedEarly, NoneLeftBehind
<1>6. OnePlace
  BY DEF OnePlace, AtMostOne, HeldBy, Handed, QueuedIn, TakenBy
<1> QED
  BY <1>1, <1>2, <1>3, <1>4, <1>5, <1>6 DEF IInv

(* The invariant is inductive.                                             *)
LEMMA IInvStep == IInv /\ [Next]_vars => IInv'
  BY TypeStep, ControlStep, OwnerStep, PublishedStep, AnswerStep, ProgressStep,
     LatchedStep, CallbackStep, QueuedStep, AckedStep, NoneLeftStep,
     PlaceStep DEF IInv

(* The inductive invariant holds in every reachable state.                *)
THEOREM Invariance == Spec => []IInv
  BY InitIInv, IInvStep, PTL DEF Spec

(* Whatever the threads do, all state keeps its type.                      *)
THEOREM TypeCorrect == Spec => []TypeOK
<1>1. IInv => TypeOK
  BY DEF IInv
<1> QED
  BY <1>1, Invariance, PTL

(* write_lock and flush_lock have at most one owner each, and m_lock is    *)
(* set exactly while there is one, for any number of threads.              *)
THEOREM Ownership == Spec => []SingleOwner
<1>1. IInv => SingleOwner
  BY DEF IInv
<1> QED
  BY <1>1, Invariance, PTL

(* flush_lock, flushed_to_disk_lsn and write_lock never run ahead of the   *)
(* disk and the file.                                                      *)
THEOREM PublishedCorrect == Spec => []PublishedIsDone
<1>1. IInv => PublishedIsDone
  BY DEF IInv, Published
<1> QED
  BY <1>1, Invariance, PTL

(* A return from log_write_up_to() and a completion callback acknowledge   *)
(* only what a crash would leave on disk.                                  *)
THEOREM Durability == Spec => []NothingAckedEarly
<1>1. IInv => NothingAckedEarly
  BY DEF IInv
<1> QED
  BY <1>1, Invariance, PTL

(* No completion callback is ever in two places or run twice, for any      *)
(* number of threads, callbacks and slots of release().                    *)
THEOREM RunsOnce == Spec => []OnePlace
<1>1. IInv => OnePlace
  BY DEF IInv
<1> QED
  BY <1>1, Invariance, PTL

(* What log_write_and_flush() ignores is always zero.                      *)
THEOREM IgnoringIsSafe == Spec => []NoneLeftBehind
<1>1. IInv => NoneLeftBehind
  BY DEF IInv
<1> QED
  BY <1>1, Invariance, PTL

(* The assertions of release() and set_pending() never fail.               *)
THEOREM Monotonicity == Spec => NeverBackwards
<1>1. IInv /\ [Next]_vars => [Forward]_vars
  BY ForwardStep
<1> QED
  BY <1>1, Invariance, PTL DEF Spec, NeverBackwards
=============================================================================
