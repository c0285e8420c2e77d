-------------------------- MODULE DurableLogProofs --------------------------
(***************************************************************************)
(* The redo log writers implement the abstract log: under the refinement   *)
(* mapping of Durable in LogWriteUpTo every step of a thread is a step of  *)
(* DurableLog or changes nothing that DurableLog sees.                     *)
(***************************************************************************)
EXTENDS LogWriteUpToProofs

(* What a user of the log can see.                                         *)
seen == <<lsn, write_lsn, disk, acked, want, wantDurable, fired>>

(* What a step of a lock's method runs, it runs once more.                 *)
LEMMA FiredCounts ==
  ASSUME TypeOK, NEW t \in Threads, NEW l, NEW n, NEW c,
         MethodStep(t) \/ AcquireCall(t, l, n, c) \/ Release(t, l, n)
  PROVE  \A x \in Callbacks : fired'[x] \in {fired[x], fired[x] + 1}
<1>1. fired' = fired \/ \E cs : fired' = AfterCallback(cs)
  <2> USE DEF ReturnExpired
  <2>1. CASE AcquireCall(t, l, n, c)
    BY <2>1 DEF AcquireCall, AcquireFast, AcquireSlow
  <2>2. CASE Release(t, l, n)
    BY <2>2 DEF Release
  <2>3. CASE MethodStep(t)
    BY <2>3 DEF MethodStep, AcquireLoop, AcquireLoopEnd, AcquireExpired,
       AcquireLock, AcquireQueueCallback, AcquireWait, SemaWait, WakeLeader,
       RunCallback, WakeWaiter
  <2> QED
    BY <2>1, <2>2, <2>3
<1> QED
  BY <1>1 DEF AfterCallback

(* A step that runs callbacks, and does nothing else a user sees, answers  *)
(* requests that had no answer, because no callback runs twice (OnePlace), *)
(* and whose positions have been reached: NothingAckedEarly holds after    *)
(* it, and the positions are the same as before.                           *)
LEMMA AnswerMaps ==
  ASSUME TypeOK, TypeOK', NothingAckedEarly', OnePlace',
         \A c \in Callbacks : fired'[c] \in {fired[c], fired[c] + 1},
         UNCHANGED <<lsn, write_lsn, disk, acked, want, wantDurable>>
  PROVE  Durable!Answer
<1> DEFINE R == {c \in Callbacks : fired'[c] # fired[c]}
<1>0. fired \in [Callbacks -> Nat] /\ fired' \in [Callbacks -> Nat]
  BY DEF TypeOK, GclTypeOK
<1>1. \A c \in R : fired[c] = 0 /\ fired'[c] = 1
  BY <1>0 DEF OnePlace
<1>2. \A c \in R : Durable!Reached(c)
  <2> SUFFICES ASSUME NEW c \in R PROVE Durable!Reached(c)
    OBVIOUS
  <2>1. want[c] \in Nat /\ want[c] > 0
        /\ want[c] <= IF wantDurable[c] THEN disk ELSE write_lsn
    BY <1>1 DEF NothingAckedEarly, TypeOK
  <2> QED
    BY <2>1 DEF Durable!Reached, TypeOK
<1>3. R \in SUBSET {r \in Callbacks : Durable!Reached(r) /\ fired[r] = 0}
  BY <1>1, <1>2
<1>4. fired' = [r \in Callbacks |-> IF r \in R THEN 1 ELSE fired[r]]
  BY <1>0, <1>1
<1> HIDE DEF R
<1> QED
  BY <1>3, <1>4 DEF Durable!Answer

(* A step that only raises acked acknowledges what is on disk.             *)
LEMMA AcknowledgeMaps ==
  ASSUME TypeOK, TypeOK', NothingAckedEarly', acked <= acked',
         UNCHANGED <<lsn, write_lsn, disk, want, wantDurable, fired>>
  PROVE  Durable!Acknowledge
  BY DEF Durable!Acknowledge, NothingAckedEarly, TypeOK

(* The initial states are initial states of the abstract log.              *)
LEMMA InitMaps == Init => Durable!Init
  BY DEF Init, GclInit, Durable!Init

(* Every step is one of the abstract log's steps, or invisible to users.   *)
LEMMA StepMaps == IInv /\ [Next]_vars => [Durable!Next]_(Durable!vars)
<1> SUFFICES ASSUME IInv, [Next]_vars PROVE Durable!Next \/ UNCHANGED seen
  BY DEF Durable!vars, seen
<1>a. TypeOK /\ TypeOK' /\ NothingAckedEarly' /\ OnePlace'
  BY TypeStep, AckedStep, PlaceStep DEF IInv
<1> USE DEF gclVars, lockVars, threadVars, logVars, jobVars, Durable!Next,
        seen
<1>1. CASE Append
  BY <1>1, <1>a DEF Append, Durable!Append, TypeOK
<1>2. CASE UNCHANGED vars
  BY <1>2 DEF vars
<1>3. ASSUME NEW t \in Threads, NEW n \in 1 .. MaxLsn, NEW d \in BOOLEAN,
             NEW c \in Callbacks \cup {NoCallback}, StartWriteUpTo(t, n, d, c)
      PROVE Durable!Next \/ UNCHANGED seen
  <2>1. CASE c \in Callbacks
    <3>1. /\ want[c] = 0 /\ n \in 1 .. lsn
          /\ want' = [want EXCEPT ![c] = n]
          /\ wantDurable' = [wantDurable EXCEPT ![c] = d]
          /\ UNCHANGED <<lsn, write_lsn, disk, acked, fired>>
      BY <1>3, <1>a, <2>1 DEF StartWriteUpTo, TypeOK
    <3> QED
      BY <2>1, <3>1 DEF Durable!Ask
  <2>2. CASE c = NoCallback
    <3>1. want' = want /\ wantDurable' = wantDurable
      BY <1>3, <1>a, <2>2, GroupCommitAssumption DEF StartWriteUpTo, TypeOK
    <3> QED
      BY <1>3, <3>1 DEF StartWriteUpTo
  <2> QED
    BY <2>1, <2>2
<1>4. ASSUME NEW t \in Threads, NEW n \in 1 .. MaxLsn, TrxFlushNotNeeded(t, n)
      PROVE Durable!Next \/ UNCHANGED seen
  <2>1. acked <= acked'
    BY <1>4, <1>a DEF TrxFlushNotNeeded, MaxOf, TypeOK
  <2> QED
    BY <1>4, <1>a, <2>1, AcknowledgeMaps DEF TrxFlushNotNeeded
<1>5. ASSUME NEW t \in Threads, NEW o \in {"resize", "write_and_flush"},
             StartExclusive(t, o)
      PROVE Durable!Next \/ UNCHANGED seen
  BY <1>5 DEF StartExclusive
(* Calls of the locks' methods, and the steps inside them.                 *)
<1>6. ASSUME NEW t \in Threads,
             \/ InLock(t) \/ RepeatDurable(t) \/ RepeatWrite(t)
             \/ WriteAfterPromise(t) \/ WriteRelease(t) \/ FlushRelease(t)
             \/ OwnFlush(t) \/ OwnWrite(t) \/ ResizeReleaseWrite(t)
             \/ ResizeReleaseFlush(t)
      PROVE Durable!Next
  <2>1. UNCHANGED <<lsn, write_lsn, disk, acked, want, wantDurable>>
    BY <1>6 DEF InLock, RepeatDurable, RepeatWrite, WriteAfterPromise,
       WriteRelease, FlushRelease, OwnFlush, OwnWrite, ResizeReleaseWrite,
       ResizeReleaseFlush, CallAcquire, CallRelease
  <2>2. \E l, n, c : MethodStep(t) \/ AcquireCall(t, l, n, c)
                     \/ Release(t, l, n)
    BY <1>6 DEF InLock, RepeatDurable, RepeatWrite, WriteAfterPromise,
       WriteRelease, FlushRelease, OwnFlush, OwnWrite, ResizeReleaseWrite,
       ResizeReleaseFlush, CallAcquire, CallRelease
  <2> QED
    BY <1>a, <2>1, <2>2, FiredCounts, AnswerMaps
(* Returns to a caller that takes them as an acknowledgement.              *)
<1>7. ASSUME NEW t \in Threads,
             \/ FlushNotAcquired(t) \/ RoundReturn(t) \/ RoundAgain(t)
             \/ WriteCovered(t) \/ WriteAndFlushDone(t)
      PROVE Durable!Next
  <2>1. UNCHANGED <<lsn, write_lsn, disk, want, wantDurable, fired>>
    BY <1>7 DEF FlushNotAcquired, RoundReturn, RoundAgain, WriteCovered,
       WriteAndFlushDone
  <2>2. acked' = AckedByReturn(t) \/ acked' = MaxOf(acked, target[t])
    BY <1>7 DEF FlushNotAcquired, RoundReturn, RoundAgain, WriteCovered,
       WriteAndFlushDone, ReturnToCaller
  <2>3. acked <= acked'
    BY <1>a, <2>2 DEF AckedByReturn, MaxOf, TypeOK
  <2> QED
    BY <1>a, <2>1, <2>3, AcknowledgeMaps
(* The I/O.                                                                *)
<1>8. ASSUME NEW t \in Threads, LogWriteBuf(t) PROVE Durable!Next
  <2>1. write_lsn <= target[t] /\ target[t] <= lsn
    BY <1>8 DEF LogWriteBuf, At, IInv, AllProgress, Progress
  <2> QED
    BY <1>8, <1>a, <2>1 DEF LogWriteBuf, Durable!Write, TypeOK
<1>9. ASSUME NEW t \in Threads, FlushEnd(t) PROVE Durable!Next
  <2>1. synced[t] <= write_lsn /\ disk <= write_lsn
    BY <1>9 DEF FlushEnd, At, IInv, AllProgress, Progress, Published,
       PublishedIsDone
  <2> QED
    BY <1>9, <1>a, <2>1 DEF FlushEnd, MaxOf, Durable!Sync, TypeOK
<1>10. ASSUME NEW t \in Threads, ExclusiveAppend(t)
       PROVE Durable!Next \/ UNCHANGED seen
  BY <1>10, <1>a DEF ExclusiveAppend, Durable!Append, TypeOK
(* Steps that only move a thread, the latch or a pending value.            *)
<1>11. ASSUME NEW t \in Threads,
              \/ FlushPromise(t) \/ WriteAcquired(t) \/ WriteBufNothing(t)
              \/ WriteBuf(t) \/ LogFlush(t) \/ LogFlushCovered(t)
              \/ FlushBegin(t) \/ GetLsnForFlush(t) \/ GetLsnForWrite(t)
              \/ OwnedAll(t) \/ ResizeUnlatch(t) \/ ResizeReturn(t)
              \/ ResizeAgain(t)
       PROVE UNCHANGED seen
  BY <1>11 DEF FlushPromise, WriteAcquired, WriteBufNothing, WriteBuf,
     LogFlush, LogFlushCovered, FlushBegin, GetLsnForFlush, GetLsnForWrite,
     GetLsn, OwnedAll, ResizeUnlatch, ResizeReturn, ResizeAgain, Latch
<1> HIDE DEF Durable!Next, seen
<1> QED
  BY <1>1, <1>2, <1>3, <1>4, <1>5, <1>6, <1>7, <1>8, <1>9, <1>10, <1>11
     DEF Next, Quiet, Start, Continue

(* Seen from outside, the two group_commit_locks with their leaders and    *)
(* hand-overs are a log that answers a callback's request at most once,    *)
(* and not before its position has been reached; of the other callers only *)
(* the largest position they were told is followed.  For any number of     *)
(* threads and callbacks and any length of the log.                        *)
THEOREM Implementation == Spec => ImplementsDurableLog
<1>1. Init => Durable!Init
  BY InitMaps
<1>2. IInv /\ [Next]_vars => [Durable!Next]_(Durable!vars)
  BY StepMaps
<1> QED
  BY <1>1, <1>2, Invariance, PTL
     DEF Spec, ImplementsDurableLog, Durable!Spec
=============================================================================
