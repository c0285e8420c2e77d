---------------------------- MODULE GroupCommit ----------------------------
(***************************************************************************)
(* Binary log group commit (sql/log.cc) as user sessions and the workers   *)
(* of parallel replication (sql/rpl_parallel.cc) meet in it.  Transactions *)
(* queue under LOCK_prepare_ordered; the first in the queue is the leader, *)
(* which writes the whole queue under LOCK_log, hands over from lock to    *)
(* lock so that groups stay in order, and runs commit_ordered() and wakes  *)
(* up everyone under LOCK_commit_ordered.  An event group that waits for   *)
(* the prior one may be queued by it (queued_by_other).                    *)
(*                                                                         *)
(* A thread runs one transaction: an event group with its wait_for_commit  *)
(* object, or a user's transaction without one.  Rotation, checkpoints and *)
(* recovery of the binary log are in BinlogXa; the time-outs that make a   *)
(* leader wait for more transactions only delay it and are left out.       *)
(***************************************************************************)
EXTENDS WaitForCommit

CONSTANTS
  Users,        \* sessions without a wait_for_commit object
  Killable,     \* the event groups that may be killed
  MaxKills,     \* bound: how many kills there are
  ApplyErrors,  \* the event groups that may fail before they commit
  WriteErrors,  \* the transactions whose binlog write may fail
  SyncErrors,   \* may flush_and_sync() fail?
  TempTables,   \* the event groups that use a temporary table
  Scheduling,   \* the values of optimize_thread_scheduling to look at
  NoThread

Threads == Groups \cup Users

ASSUME GroupCommitAssumption ==
  /\ Groups \cap Users = {} /\ NoThread \notin Threads
  /\ Killable \subseteq Groups /\ ApplyErrors \subseteq Groups
  /\ TempTables \subseteq Groups /\ WriteErrors \subseteq Threads
  /\ Scheduling \subseteq BOOLEAN /\ SyncErrors \in BOOLEAN
  /\ MaxKills \in Nat

VARIABLES
  pc,
  killed,                \* "no", "kill" or "retry" (a deadlock kill)
  kills,                 \* kills so far
  worker_error,          \* rgi->worker_error
  retried,               \* the event groups in retry_event_group()
  last_committed_sub_id, stop_on_error_sub_id,  \* rpl_parallel_entry
  optimize,              \* opt_optimize_thread_scheduling
  prepare_ordered, log_lock, after_sync, commit_ordered,  \* mutex owners
  queue,                 \* group_commit_queue, the last to enter first
  todo,                  \* per thread: entries it has still to queue
  is_leader,             \* per thread: was the queue empty?
  queued_by_other,       \* per entry
  unsynced,              \* the entries of groups whose flush_and_sync() fails
  next,                  \* per entry: the next one in its group
  cur,                   \* per leader: `current' in its loops
  error,                 \* per entry
  wakeup_ready,          \* per thread
  queue_busy,            \* group_commit_queue_busy
  binlog,                \* the transactions written and synced, in order
  engine,                \* the commit_ordered() calls, in order
  outcome,               \* what the commit returned: "none", "ok", "error"
  late                   \* history: who got an error after the group commit

rplVars   == <<killed, kills, worker_error, retried, last_committed_sub_id,
               stop_on_error_sub_id>>
lockVars  == <<prepare_ordered, log_lock, after_sync, commit_ordered,
               queue_busy, optimize>>
queueVars == <<queue, todo, is_leader, queued_by_other, unsynced>>
entryVars == <<next, cur, error, wakeup_ready>>
logVars   == <<binlog, engine, late>>
vars == <<pc, rplVars, lockVars, queueVars, entryVars, logVars, outcome,
          wfcVars>>

Never == 1 + Cardinality(Groups)  \* ULONGLONG_MAX

Init ==
  /\ WfcInit
  /\ pc = [t \in Threads |-> IF t \in Groups THEN "start" ELSE "apply"]
  /\ killed = [g \in Groups |-> "no"] /\ kills = 0
  /\ worker_error = [g \in Groups |-> FALSE] /\ retried = {}
  /\ last_committed_sub_id = 0 /\ stop_on_error_sub_id = Never
  /\ optimize \in Scheduling
  /\ prepare_ordered = NoThread /\ log_lock = NoThread
  /\ after_sync = NoThread /\ commit_ordered = NoThread
  /\ queue_busy = FALSE
  /\ queue = <<>> /\ unsynced = {}
  /\ todo = [t \in Threads |-> <<>>]
  /\ is_leader = [t \in Threads |-> FALSE]
  /\ queued_by_other = [t \in Threads |-> FALSE]
  /\ next = [t \in Threads |-> NoThread]
  /\ cur = [t \in Threads |-> NoThread]
  /\ error = [t \in Threads |-> FALSE]
  /\ wakeup_ready = [t \in Threads |-> FALSE]
  /\ binlog = <<>> /\ engine = <<>> /\ late = {}
  /\ outcome = [t \in Threads |-> "none"]
----------------------------------------------------------------------------
At(t, s) == pc[t] = s
Goto(t, s) == pc' = [pc EXCEPT ![t] = s]

(* rgi->wait_commit_sub_id: the event group before g                       *)
Prior(g) == g - 1

Killed(g) == killed[g] # "no"

(* KILL of a worker, or of a transaction that an earlier one waits for.    *)
Kill(g, how) ==
  /\ g \in Killable
  /\ killed[g] = "no" /\ kills < MaxKills
  /\ pc[g] # "done"
  /\ killed' = [killed EXCEPT ![g] = how]
  /\ kills' = kills + 1
  /\ UNCHANGED <<pc, worker_error, retried, last_committed_sub_id,
                 stop_on_error_sub_id, lockVars, queueVars, entryVars,
                 logVars, outcome, wfcVars>>

ResetKilled(g) == killed' = [killed EXCEPT ![g] = "no"]

(* register_wait_for_prior_event_group_commit()                            *)
RegisterPrior(g) ==
  IF Prior(g) > last_committed_sub_id
  THEN RegisterWait(g, Prior(g)) ELSE UNCHANGED wfcVars

(* wait_for_prior_commit(): to stage ok or failed; a kill ends the wait    *)
(* and leads to stage interrupted unless the waitee is waking us up.       *)
PriorWaited(g, ok, failed, interrupted) ==
  /\ \/ /\ waitee[g] = NoGroup
        /\ Goto(g, IF wakeup_error[g] THEN failed ELSE ok)
        /\ UNCHANGED wfcVars
     \/ /\ waitee[g] # NoGroup
        /\ Killed(g)
        /\ ~BeingWoken(g)
        /\ LeaveList(g, TRUE)
        /\ Goto(g, interrupted)
  /\ UNCHANGED <<rplVars, lockVars, queueVars, entryVars, binlog, engine,
                 outcome>>

WaitPrior(g, from, ok, failed, interrupted) ==
  /\ At(g, from)
  /\ PriorWaited(g, ok, failed, interrupted)
  /\ UNCHANGED late
----------------------------------------------------------------------------
(* handle_rpl_parallel_thread() at the start of an event group: skip it if *)
(* an earlier one has failed, and register to wait for the prior one.      *)
StartGroup(g) ==
  /\ At(g, "start")
  /\ LET skip == stop_on_error_sub_id <= Prior(g)
     IN  /\ worker_error' = [worker_error EXCEPT ![g] = skip]
         /\ Goto(g, IF skip THEN "skip" ELSE "apply")
  /\ RegisterPrior(g)
  /\ UNCHANGED <<killed, kills, retried, last_committed_sub_id,
                 stop_on_error_sub_id, lockVars, queueVars, entryVars,
                 logVars, outcome>>

(* The events of a group that is skipped only wait for the prior commit.   *)
SkipGroup(g) == WaitPrior(g, "skip", "finish", "finish", "finish")

(* The transaction's own work and the prepare() of its engines; one that   *)
(* uses temporary tables lets nobody overtake its end (retry_event_group() *)
(* does not look at that again).                                           *)
Apply(t) ==
  /\ At(t, "apply")
  /\ t \in Groups => ~Killed(t)
  /\ Goto(t, "queue")
  /\ queued_by_other' = [queued_by_other EXCEPT ![t] = FALSE]
  /\ error' = [error EXCEPT ![t] = FALSE]
  /\ wakeup_blocked' = [g \in Groups |-> wakeup_blocked[g] \/
                                         (g = t /\ t \in TempTables \ retried)]
  /\ UNCHANGED <<rplVars, lockVars, queue, todo, is_leader, unsynced, next,
                 cur, wakeup_ready, logVars, outcome, waitee,
                 subsequent_commits_list, opaque_pointer, wakeup_error,
                 wakeup_subsequent_commits_running, waking, commit_started>>

ApplyFails(g) ==
  /\ At(g, "apply")
  /\ \/ g \in ApplyErrors /\ Goto(g, "failed")
     \/ Killed(g) /\ Goto(g, "interrupted")
  /\ UNCHANGED <<rplVars, lockVars, queueVars, entryVars, logVars, outcome,
                 wfcVars>>

(* The transaction is rolled back; for an event group this is the end,     *)
(* unless the error is a deadlock kill.                                    *)
RollBack(t) ==
  /\ \/ At(t, "failed")
     \/ At(t, "interrupted") /\ killed[t] = "kill"
  /\ outcome' = [outcome EXCEPT ![t] = "error"]
  /\ IF t \in Groups
     THEN /\ worker_error' = [worker_error EXCEPT ![t] = TRUE]
          /\ ResetKilled(t)
          /\ Goto(t, "finish")
     ELSE Goto(t, "done") /\ UNCHANGED <<killed, worker_error>>
  /\ UNCHANGED <<kills, retried, last_committed_sub_id, stop_on_error_sub_id,
                 lockVars, queueVars, entryVars, logVars, wfcVars>>

(* retry_event_group() after a deadlock kill: give up the registration,    *)
(* roll back, register again and let all prior groups complete first.      *)
Retry(g) ==
  /\ At(g, "interrupted")
  /\ killed[g] = "retry"
  /\ Unregister(g)
  /\ outcome' = [outcome EXCEPT ![g] = "error"]
  /\ ResetKilled(g)
  /\ retried' = retried \cup {g}
  /\ Goto(g, "retry")
  /\ UNCHANGED <<kills, worker_error, last_committed_sub_id,
                 stop_on_error_sub_id, lockVars, queueVars, entryVars, logVars>>

RetryRegister(g) ==
  /\ At(g, "retry")
  /\ IF g < stop_on_error_sub_id
     THEN RegisterPrior(g) /\ Goto(g, "retry_wait")
     ELSE UNCHANGED wfcVars /\ Goto(g, "failed")
  /\ UNCHANGED <<rplVars, lockVars, queueVars, entryVars, logVars, outcome>>

RetryWait(g) ==
  WaitPrior(g, "retry_wait", "reapply", "failed", "interrupted")

Reapply(g) ==
  /\ At(g, "reapply")
  /\ outcome' = [outcome EXCEPT ![g] = "none"]
  /\ ResetKilled(g)
  /\ Goto(g, "apply")
  /\ UNCHANGED <<kills, worker_error, retried, last_committed_sub_id,
                 stop_on_error_sub_id, lockVars, queueVars, entryVars,
                 logVars, wfcVars>>
----------------------------------------------------------------------------
(* Mutant: join the queue although the prior commit has not entered it.    *)
MustWaitNever(g) == FALSE

(* queue_for_group_commit(), first part: wait for the prior commit unless  *)
(* it is in the queue already, ready to be put there by it meanwhile.      *)
MustWait(g) == waitee[g] # NoGroup /\ ~commit_started[waitee[g]]

QueueCheck(t) ==
  /\ At(t, "queue")
  /\ Goto(t, IF t \in Groups /\ MustWait(t) THEN "ready" ELSE "enqueue")
  /\ UNCHANGED <<rplVars, lockVars, queueVars, entryVars, logVars, outcome,
                 wfcVars>>

(* A waitee that queues up meanwhile may or may not see the flag.          *)
QueueReady(g) ==
  /\ At(g, "ready")
  /\ opaque_pointer' = [opaque_pointer EXCEPT ![g] = TRUE]
  /\ Goto(g, "wait_prior")
  /\ UNCHANGED <<rplVars, lockVars, queueVars, entryVars, logVars, outcome,
                 waitee, subsequent_commits_list, wakeup_error,
                 wakeup_subsequent_commits_running, waking, commit_started,
                 wakeup_blocked>>

QueueWoken(g) ==
  /\ At(g, "wait_prior")
  /\ waitee[g] = NoGroup
  /\ opaque_pointer' = [opaque_pointer EXCEPT ![g] = FALSE]
  /\ Goto(g, "enqueue")
  /\ UNCHANGED <<rplVars, lockVars, queueVars, entryVars, logVars, outcome,
                 waitee, subsequent_commits_list, wakeup_error,
                 wakeup_subsequent_commits_running, waking, commit_started,
                 wakeup_blocked>>

(* Mutant: a waiter that was queued by its waitee obeys the kill.          *)
IgnoresKillUnqueued(g) == BeingWoken(g)

(* A kill is ignored by a waiter that is being woken up, or queued.        *)
IgnoresKill(g) == BeingWoken(g) \/ queued_by_other[g]

QueueKilled(g) ==
  /\ At(g, "wait_prior")
  /\ waitee[g] # NoGroup
  /\ Killed(g)
  /\ ~IgnoresKill(g)
  /\ LeaveList(g, TRUE)
  /\ Goto(g, "interrupted")
  /\ UNCHANGED <<rplVars, lockVars, queueVars, entryVars, logVars, outcome>>

(* The transaction has been queued, and committed, by a prior one; or that *)
(* one failed; or it enters the queue now, under LOCK_prepare_ordered.     *)
AfterGroup == IF optimize THEN "returned" ELSE "own_commit"

Enqueue(t) ==
  /\ At(t, "enqueue")
  /\ \/ /\ queued_by_other[t]
        /\ Goto(t, AfterGroup)
        /\ UNCHANGED <<prepare_ordered, todo, is_leader, wakeup_ready>>
     \/ /\ ~queued_by_other[t]
        /\ t \in Groups /\ wakeup_error[t]
        /\ Goto(t, "failed")
        /\ UNCHANGED <<prepare_ordered, todo, is_leader, wakeup_ready>>
     \/ /\ ~queued_by_other[t]
        /\ t \in Groups => ~wakeup_error[t]
        /\ prepare_ordered = NoThread
        /\ prepare_ordered' = t
        /\ todo' = [todo EXCEPT ![t] = <<t>>]
        /\ is_leader' = [is_leader EXCEPT ![t] = (queue = <<>>)]
        /\ wakeup_ready' = [wakeup_ready EXCEPT ![t] = FALSE]
        /\ Goto(t, "enqueuing")
  /\ UNCHANGED <<rplVars, log_lock, after_sync, commit_ordered, queue_busy,
                 optimize, queue, queued_by_other, unsynced, next, cur, error,
                 logVars, outcome, wfcVars>>

(* The members of S in a list, in its order.                               *)
Those(list, S) ==
  LET those[i \in 0 .. Len(list)] ==
        IF i = 0 THEN <<>>
        ELSE IF list[i] \in S
        THEN Append(those[i - 1], list[i]) ELSE those[i - 1]
  IN  those[Len(list)]

(* The waiters that have put their entry where the waitee finds it.        *)
Ready == {g \in Groups : opaque_pointer[g]}

(* One round of the loop: entry e goes into the queue, and those of its    *)
(* waiters that are ready join the list of entries still to be queued.     *)
ReadyWaiters(e) ==
  IF e \in Groups THEN Those(subsequent_commits_list[e], Ready) ELSE <<>>

(* Mutant: the ready waiters stay in the list of the waitee as well.       *)
OtherWaitersAll(g) == subsequent_commits_list[g]

OtherWaiters(g) == Those(subsequent_commits_list[g], Groups \ Ready)

EnqueueEntry(t) ==
  /\ At(t, "enqueuing")
  /\ LET e     == Head(todo[t])
         ready == ReadyWaiters(e)
         rest  == Tail(todo[t]) \o ready
     IN  /\ queue' = <<e>> \o queue
         /\ todo' = [todo EXCEPT ![t] = rest]
         /\ queued_by_other' =
              [x \in Threads |-> queued_by_other[x] \/ Contains(ready, x)]
         /\ commit_started' =
              [g \in Groups |-> commit_started[g] \/ g = e]
         /\ subsequent_commits_list' =
              [g \in Groups |->
                 IF g = e
                 THEN OtherWaiters(g) ELSE subsequent_commits_list[g]]
         /\ IF rest = <<>>
            THEN /\ prepare_ordered' = NoThread
                 /\ Goto(t, IF is_leader[t] THEN "leader" ELSE "wait_ready")
            ELSE UNCHANGED <<prepare_ordered, pc>>
  /\ UNCHANGED <<rplVars, log_lock, after_sync, commit_ordered, queue_busy,
                 optimize, is_leader, unsynced, entryVars, logVars, outcome,
                 waitee, opaque_pointer, wakeup_error,
                 wakeup_subsequent_commits_running, waking, wakeup_blocked>>

(* wait_for_wakeup_ready() of a participant                                *)
WakeupReady(t) ==
  /\ At(t, "wait_ready")
  /\ wakeup_ready[t]
  /\ Goto(t, AfterGroup)
  /\ UNCHANGED <<rplVars, lockVars, queueVars, entryVars, logVars, outcome,
                 wfcVars>>
----------------------------------------------------------------------------
(* trx_group_commit_leader()                                               *)
LeaderLockLog(t) ==
  /\ At(t, "leader")
  /\ log_lock = NoThread
  /\ log_lock' = t
  /\ Goto(t, "collect")
  /\ UNCHANGED <<rplVars, prepare_ordered, after_sync, commit_ordered,
                 queue_busy, optimize, queueVars, entryVars, logVars,
                 outcome, wfcVars>>

Linked(s) ==
  [t \in Threads |->
     IF \E i \in 1 .. Len(s) - 1 : s[i] = t
     THEN s[1 + CHOOSE i \in 1 .. Len(s) - 1 : s[i] = t]
     ELSE IF Contains(s, t) THEN NoThread ELSE next[t]]

(* Whether the group will be synced or not: what the leader does under     *)
(* LOCK_log nobody sees before it is done, so that this can be decided for *)
(* the whole group before its entries are written.                         *)
SyncResult ==
  \/ unsynced' = unsynced \ ToSet(queue)
  \/ SyncErrors /\ unsynced' = unsynced \cup ToSet(queue)

(* Mutant: the queue is committed in the order in which it is linked.      *)
LeaderCollectUnreversed(t) ==
  /\ At(t, "collect")
  /\ prepare_ordered = NoThread
  /\ next' = Linked(queue)
  /\ cur' = [cur EXCEPT ![t] = Head(queue)]
  /\ queue' = <<>>
  /\ SyncResult
  /\ Goto(t, "write")
  /\ UNCHANGED <<rplVars, lockVars, todo, is_leader, queued_by_other, error,
                 wakeup_ready, logVars, outcome, wfcVars>>

(* The queue is taken and reversed: whoever came first commits first.      *)
LeaderCollect(t) ==
  /\ At(t, "collect")
  /\ prepare_ordered = NoThread
  /\ next' = Linked(Reverse(queue))
  /\ cur' = [cur EXCEPT ![t] = Last(queue)]
  /\ queue' = <<>>
  /\ SyncResult
  /\ Goto(t, "write")
  /\ UNCHANGED <<rplVars, lockVars, todo, is_leader, queued_by_other, error,
                 wakeup_ready, logVars, outcome, wfcVars>>

(* The loop over the group writes one transaction after another, though    *)
(* some may fail.  Then the log is synced; if that fails, every entry has  *)
(* an error, although its events may be in the file.  The next loop starts *)
(* again at the first entry, the leader's own.                             *)
LeaderWrite(t) ==
  /\ At(t, "write")
  /\ LET e == cur[t]
     IN  /\ \E fails \in BOOLEAN :
              /\ fails => e \in WriteErrors \cup unsynced
              /\ e \in unsynced => fails
              /\ error' = [error EXCEPT ![e] = fails]
              /\ binlog' = IF fails THEN binlog ELSE Append(binlog, e)
         /\ IF next[e] = NoThread
            THEN cur' = [cur EXCEPT ![t] = t] /\ Goto(t, "written")
            ELSE cur' = [cur EXCEPT ![t] = next[e]] /\ UNCHANGED pc
  /\ UNCHANGED <<rplVars, lockVars, queueVars, next, wakeup_ready, engine,
                 late, outcome, wfcVars>>

(* Mutant: LOCK_log is given up before LOCK_after_binlog_sync is held, and *)
(* that one is never taken.                                                *)
LeaderAfterSyncGap(t) ==
  /\ At(t, "written")
  /\ log_lock' = NoThread
  /\ Goto(t, "synced")
  /\ UNCHANGED <<rplVars, prepare_ordered, after_sync, commit_ordered,
                 queue_busy, optimize, queueVars, entryVars, logVars,
                 outcome, wfcVars>>

(* Each lock is given up only when the next one is held.                   *)
LeaderAfterSync(t) ==
  /\ At(t, "written")
  /\ after_sync = NoThread
  /\ after_sync' = t
  /\ log_lock' = NoThread
  /\ Goto(t, "synced")
  /\ UNCHANGED <<rplVars, prepare_ordered, commit_ordered, queue_busy,
                 optimize, queueVars, entryVars, logVars, outcome, wfcVars>>

(* LOCK_commit_ordered.  Without the optimised scheduling a leader waits   *)
(* on a condition until the previous group is through, without the lock.   *)
LeaderCommitLock(t) ==
  /\ At(t, "synced")
  /\ commit_ordered = NoThread
  /\ after_sync' = IF after_sync = t THEN NoThread ELSE after_sync
  /\ IF optimize THEN /\ commit_ordered' = t
                      /\ Goto(t, "commit_entry")
                      /\ UNCHANGED queue_busy
     ELSE IF queue_busy THEN /\ Goto(t, "busy")
                             /\ UNCHANGED <<commit_ordered, queue_busy>>
     ELSE /\ commit_ordered' = t
          /\ queue_busy' = TRUE
          /\ Goto(t, "own_commit")
  /\ UNCHANGED <<rplVars, prepare_ordered, log_lock, optimize, queueVars,
                 entryVars, logVars, outcome, wfcVars>>

LeaderNotBusy(t) ==
  /\ At(t, "busy")
  /\ commit_ordered = NoThread
  /\ ~queue_busy
  /\ commit_ordered' = t
  /\ queue_busy' = TRUE
  /\ Goto(t, "own_commit")
  /\ UNCHANGED <<rplVars, prepare_ordered, log_lock, after_sync, optimize,
                 queueVars, entryVars, logVars, outcome, wfcVars>>

(* run_commit_ordered() unless the write has failed                        *)
CommitOrdered(x) == engine' = IF error[x] THEN engine ELSE Append(engine, x)

(* wakeup_subsequent_commits() of x, called by t: at once if there is      *)
(* nothing to do, else with the steps below.                               *)
CallWakeup(t, x, busy, done) ==
  IF x \in Groups /\ ~NobodyToWake(x)
  THEN BeginWakeup(x) /\ Goto(t, busy)
  ELSE UNCHANGED wfcVars /\ Goto(t, done)

WakeupStep(t, x, err, from, done) ==
  /\ At(t, from)
  /\ \/ WakeNext(x, err) /\ UNCHANGED pc
     \/ EndWakeup(x) /\ Goto(t, done)
  /\ UNCHANGED <<rplVars, lockVars, queueVars, entryVars, logVars, outcome>>

(* With the optimised scheduling the leader does it all, entry by entry.   *)
CommitEntry(t) ==
  /\ At(t, "commit_entry")
  /\ CommitOrdered(cur[t])
  /\ CallWakeup(t, cur[t], "waking", "wake_entry")
  /\ UNCHANGED <<rplVars, lockVars, queueVars, entryVars, binlog, late,
                 outcome>>

LeaderWakes(t) == WakeupStep(t, cur[t], error[cur[t]], "waking", "wake_entry")

(* How an entry of the group is told that it is its turn, or all over.     *)
Signal(x, err) ==
  IF queued_by_other[x]
  THEN /\ Woken(x, err)
       /\ UNCHANGED <<wakeup_ready, subsequent_commits_list, opaque_pointer,
                      wakeup_subsequent_commits_running, waking,
                      commit_started, wakeup_blocked>>
  ELSE /\ wakeup_ready' = [wakeup_ready EXCEPT ![x] = TRUE]
       /\ UNCHANGED wfcVars

WakeEntry(t) ==
  /\ At(t, "wake_entry")
  /\ IF cur[t] = t THEN UNCHANGED <<wakeup_ready, wfcVars>>
                   ELSE Signal(cur[t], error[cur[t]])
  /\ cur' = [cur EXCEPT ![t] = next[cur[t]]]
  /\ IF next[cur[t]] = NoThread
     THEN commit_ordered' = NoThread /\ Goto(t, "returned")
     ELSE UNCHANGED commit_ordered /\ Goto(t, "commit_entry")
  /\ UNCHANGED <<rplVars, prepare_ordered, log_lock, after_sync, queue_busy,
                 optimize, queueVars, next, error, logVars, outcome>>

(* Without it, every thread runs commit_ordered() itself and wakes up the  *)
(* next one; the last one lets in the next group.                          *)
OwnCommit(t) ==
  /\ At(t, "own_commit")
  /\ commit_ordered \in {t, NoThread}
  /\ CommitOrdered(t)
  /\ queue_busy' = (next[t] # NoThread)
  /\ commit_ordered' = NoThread
  /\ CallWakeup(t, t, "own_waking", "own_signal")
  /\ UNCHANGED <<rplVars, prepare_ordered, log_lock, after_sync, optimize,
                 queueVars, entryVars, binlog, late,
                 outcome>>

OwnWakes(t) == WakeupStep(t, t, error[t], "own_waking", "own_signal")

OwnSignal(t) ==
  /\ At(t, "own_signal")
  /\ IF next[t] = NoThread THEN UNCHANGED <<wakeup_ready, wfcVars>>
                           ELSE Signal(next[t], error[t])
  /\ Goto(t, "returned")
  /\ UNCHANGED <<rplVars, lockVars, queueVars, next, cur, error, logVars,
                 outcome>>

(* write_transaction_to_binlog_events(), last part                         *)
Returned(t) ==
  /\ At(t, "returned")
  /\ Goto(t, IF error[t] THEN "failed"
             ELSE IF t \in Groups THEN "last_wait" ELSE "commit")
  /\ UNCHANGED <<rplVars, lockVars, queueVars, entryVars, logVars, outcome,
                 wfcVars>>

LastWait(g) ==
  /\ At(g, "last_wait")
  /\ PriorWaited(g, "commit", "failed", "interrupted")
  /\ late' = IF pc'[g] = "commit" THEN late ELSE late \cup {g}

(* The rest of ha_commit_trans()                                           *)
Commit(t) ==
  /\ At(t, "commit")
  /\ outcome' = [outcome EXCEPT ![t] = "ok"]
  /\ Goto(t, IF t \in Groups THEN "finish_wait" ELSE "done")
  /\ UNCHANGED <<rplVars, lockVars, queueVars, entryVars, logVars, wfcVars>>
----------------------------------------------------------------------------
(* finish_event_group(): after an error, get back in line; wait for the    *)
(* prior groups whatever kills come; close the group; wake up the waiters. *)
FinishUnregister(g) ==
  /\ At(g, "finish")
  /\ Unregister(g)
  /\ Goto(g, "finish_register")
  /\ UNCHANGED <<rplVars, lockVars, queueVars, entryVars, logVars, outcome>>

FinishRegister(g) ==
  /\ At(g, "finish_register")
  /\ RegisterPrior(g)
  /\ Goto(g, "finish_wait")
  /\ UNCHANGED <<rplVars, lockVars, queueVars, entryVars, logVars, outcome>>

FinishWait(g) ==
  /\ At(g, "finish_wait")
  /\ waitee[g] = NoGroup
  /\ worker_error' = [worker_error EXCEPT ![g] = @ \/ wakeup_error[g]]
  /\ Goto(g, "finish_mark")
  /\ UNCHANGED <<killed, kills, retried, last_committed_sub_id,
                 stop_on_error_sub_id, lockVars, queueVars, entryVars,
                 logVars, outcome, wfcVars>>

(* Mutant: the sub_id that may commit next is stored.                      *)
LastCommittedNext(g) == g + 1

LastCommitted(g) ==
  IF last_committed_sub_id < g THEN g ELSE last_committed_sub_id

FinishMark(g) ==
  /\ At(g, "finish_mark")
  /\ last_committed_sub_id' = LastCommitted(g)
  /\ stop_on_error_sub_id' =
       IF worker_error[g] /\ stop_on_error_sub_id > g
       THEN g ELSE stop_on_error_sub_id
  /\ wakeup_blocked' = [wakeup_blocked EXCEPT ![g] = FALSE]
  /\ ResetKilled(g)
  /\ Goto(g, "finish_wake")
  /\ UNCHANGED <<kills, worker_error, retried, lockVars, queueVars, entryVars,
                 logVars, outcome, waitee, subsequent_commits_list, opaque_pointer,
                 wakeup_error, wakeup_subsequent_commits_running, waking,
                 commit_started>>

FinishWake(g) ==
  /\ At(g, "finish_wake")
  /\ CallWakeup(g, g, "finish_waking", "done")
  /\ UNCHANGED <<rplVars, lockVars, queueVars, entryVars, logVars, outcome>>

FinishWakes(g) == WakeupStep(g, g, worker_error[g], "finish_waking", "done")
----------------------------------------------------------------------------
GroupStep(g) ==
  \/ StartGroup(g) \/ SkipGroup(g) \/ ApplyFails(g)
  \/ Retry(g) \/ RetryRegister(g) \/ RetryWait(g) \/ Reapply(g)
  \/ QueueReady(g) \/ QueueWoken(g) \/ QueueKilled(g) \/ LastWait(g)
  \/ FinishUnregister(g) \/ FinishRegister(g) \/ FinishWait(g)
  \/ FinishMark(g) \/ FinishWake(g) \/ FinishWakes(g)

CommitStep(t) ==
  \/ Apply(t) \/ RollBack(t) \/ QueueCheck(t) \/ Enqueue(t)
  \/ EnqueueEntry(t) \/ WakeupReady(t)
  \/ LeaderLockLog(t) \/ LeaderCollect(t) \/ LeaderWrite(t)
  \/ LeaderAfterSync(t) \/ LeaderCommitLock(t) \/ LeaderNotBusy(t)
  \/ CommitEntry(t) \/ LeaderWakes(t) \/ WakeEntry(t)
  \/ OwnCommit(t) \/ OwnWakes(t) \/ OwnSignal(t)
  \/ Returned(t) \/ Commit(t)

Step(t) == CommitStep(t) \/ (t \in Groups /\ GroupStep(t))

AllDone == (\A t \in Threads : pc[t] = "done") /\ UNCHANGED vars

Next ==
  \/ \E t \in Threads : Step(t)
  \/ \E g \in Groups, how \in {"kill", "retry"} : Kill(g, how)
  \/ AllDone

(* Every thread runs on unless it is blocked.                              *)
Fairness == \A t \in Threads : WF_vars(Step(t))

Spec == Init /\ [][Next]_vars /\ Fairness
----------------------------------------------------------------------------
Stages == {"start", "skip", "apply", "failed", "interrupted", "retry",
           "retry_wait", "reapply", "queue", "ready", "wait_prior",
           "enqueue", "enqueuing", "wait_ready", "leader", "collect", "write", "written",
           "synced", "busy", "commit_entry", "waking", "wake_entry",
           "own_commit", "own_waking", "own_signal", "returned", "last_wait",
           "commit", "finish", "finish_register", "finish_wait",
           "finish_mark", "finish_wake", "finish_waking", "done"}

RplTypeOK ==
  /\ killed \in [Groups -> {"no", "kill", "retry"}] /\ kills \in 0 .. MaxKills
  /\ worker_error \in [Groups -> BOOLEAN] /\ retried \subseteq Groups
  /\ last_committed_sub_id \in Groups \cup {NoGroup}
  /\ stop_on_error_sub_id \in Groups \cup {Never}

LockTypeOK ==
  /\ prepare_ordered \in Threads \cup {NoThread}
  /\ log_lock \in Threads \cup {NoThread}
  /\ after_sync \in Threads \cup {NoThread}
  /\ commit_ordered \in Threads \cup {NoThread}
  /\ optimize \in BOOLEAN /\ queue_busy \in BOOLEAN

QueueTypeOK ==
  /\ queue \in Seq(Threads) /\ todo \in [Threads -> Seq(Threads)]
  /\ is_leader \in [Threads -> BOOLEAN]
  /\ queued_by_other \in [Threads -> BOOLEAN]
  /\ unsynced \subseteq Threads

EntryTypeOK ==
  /\ next \in [Threads -> Threads \cup {NoThread}]
  /\ cur \in [Threads -> Threads \cup {NoThread}]
  /\ error \in [Threads -> BOOLEAN]
  /\ wakeup_ready \in [Threads -> BOOLEAN]

LogTypeOK ==
  /\ binlog \in Seq(Threads) /\ engine \in Seq(Threads)
  /\ late \subseteq Threads

(* The state of the queue, the locks and every thread keeps its type.      *)
TypeOK ==
  /\ pc \in [Threads -> Stages]
  /\ outcome \in [Threads -> {"none", "ok", "error"}]
  /\ WfcTypeOK /\ RplTypeOK /\ LockTypeOK /\ QueueTypeOK /\ EntryTypeOK
  /\ LogTypeOK

(* With the default scheduling the engines commit in the order of the      *)
(* binary log, whatever groups the transactions fall into.                 *)
SameOrder == optimize => IsPrefix(engine, binlog)

(* An event group is in the binary log only after the group it has to wait *)
(* for, however both got there, unless the write of that one has failed.   *)
PriorFirst ==
  \A i \in DOMAIN binlog :
    binlog[i] \in Groups /\ Prior(binlog[i]) \in Groups =>
      \/ \E j \in 1 .. i - 1 : binlog[j] = Prior(binlog[i])
      \/ error[Prior(binlog[i])]

Times(log, t) == Cardinality({i \in DOMAIN log : log[i] = t})

(* A transaction that was told it is committed is in the binary log and    *)
(* committed in the engines, once; one that was told it failed, and rolls  *)
(* back or tries again, is in neither, but that its events may be in the   *)
(* file if the sync of its group failed: such a transaction is never told  *)
(* it is committed, nor committed in an engine.  (See NoErrorAfterLogging  *)
(* for those whose last wait for the prior commit fails.)                  *)
OutcomeTrue ==
  \A t \in Threads \ late :
    /\ Times(engine, t) <= Times(binlog, t) /\ Times(binlog, t) <= 1
    /\ outcome[t] = "ok" => Times(engine, t) = 1
    /\ outcome[t] = "error" => Times(binlog, t) = 0
    /\ t \in unsynced => outcome[t] # "ok" /\ Times(binlog, t) = 0

(* "we must not return error from here - that would cause ha_commit_trans()*)
(* to abort and rollback the transaction, which would leave an             *)
(* inconsistent state with the transaction committed in the binlog but     *)
(* rolled back in the engine" (trx_group_commit_leader()).                 *)
NoErrorAfterLogging ==
  \A t \in Threads : outcome[t] = "error" => ~Contains(binlog, t)

(* DBUG_ASSERT(leader == queue): the leader is the first of its group.     *)
LeaderIsFirst ==
  [][\A t \in Threads :
       At(t, "collect") /\ pc'[t] = "write" => cur'[t] = t]_vars

(* A group that waits can be found by whoever has to wake it up: in the    *)
(* list of its waitee, in the list that its waitee's wakeup walks, or in   *)
(* the queue or the group into which its waitee took it; in one place.     *)
PlacesOf(g) ==
  LET w == waitee[g]
  IN  {p \in {"list", "waking", "queued"} :
         CASE p = "list"   -> Contains(subsequent_commits_list[w], g)
           [] p = "waking" -> Contains(waking[w], g)
           [] OTHER        -> queued_by_other[g] /\ At(g, "wait_prior")}

WaiterIsKnown ==
  \A g \in Groups : waitee[g] # NoGroup => Cardinality(PlacesOf(g)) = 1

(* Every transaction ends, killed or not: no wakeup is lost and nobody     *)
(* waits for a group that has gone.                                        *)
EveryoneEnds == \A t \in Threads : <>(pc[t] = "done")
=============================================================================
