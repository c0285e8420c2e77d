# TLA+ models of MariaDB Server: commits and metadata locks

This directory holds TLA+ specifications of concurrent cores of MariaDB Server:
InnoDB's redo log group commit, the binary log's group commit with parallel
replication in it, the binary log as coordinator of two-phase commits with its
checkpoints and crash recovery, and metadata locks; the TLC configurations that
check them on small instances; and proofs that TLAPS checks for every size of the
system.  Source paths below are relative to the repository.

## 1. Inventory

MariaDB Server is a SQL layer (`sql/`) over storage engines (`storage/`), with
portability and data-structure libraries (`mysys/`, `strings/`, `tpool/`),
clients and plugins.  The parts whose correctness depends on interleavings,
failures and time limits are these.

| Part | State it keeps | Operations | Hard behaviour | What makes it correct |
|---|---|---|---|---|
| `group_commit_lock` (`storage/innobase/log/log0sync.cc`) | a monotone value, a pending value, an owner flag, a list of sleeping waiters, queued completion callbacks | `acquire`, `release`, `set_pending` | reads without the mutex, leadership handed over at release, callbacks whose thread has gone | one owner; nobody told early; no waiter or callback forgotten |
| Redo log writers (`log0log.cc`, `mtr0mtr.cc`) | LSNs of buffer, file and disk; `write_lock`, `flush_lock`, `log_sys.latch` | append, `log_write_up_to`, resize, `log_write_and_flush` | three locks taken in group commits and in resizes; crash right after an acknowledgement | what is acknowledged is durable; LSNs never go back; every call returns |
| Metadata locks (`sql/mdl.cc`) | per object: granted and waiting tickets with bitmaps, counters, fairness counter; per connection: tickets by duration, wait slot, `m_waiting_for` | acquire (one, several, without waiting), clone, upgrade, downgrade, release, savepoints, change of duration, deadlock search | rescheduling by other threads, concurrent deadlock searches, kill / time out / disconnect racing a grant, starvation | compatible grants only; books agree with lists; no missed grant; deadlocks found, none imagined; calls return |
| `MDL_map`, `lf_hash` | hash of lock objects with hazard pointers | find or insert, remove | an object found while it is being removed | one live object per key |
| BACKUP namespace, `sql/backup.cc` | stages of a backup | BACKUP STAGE ... | stages against DML and DDL | no writes behind the backup's back |
| Log buffer append (`mtr0mtr.cc`) | reserved and free space, back-off bit | `append_prepare` | lock-free reservation, full buffer | disjoint reservations |
| InnoDB locks, read views, latches | lock queues, `rw_trx_hash`, futex words | lock, grant, deadlock check; open view; latch | as above, on records | isolation, progress |
| Binary log group commit (`sql/log.cc`) | a queue of committers, the group under way, three mutexes handed over in turn | queue, lead, write, `commit_ordered`, wake | entries queued by their waitee, kills, failing writes, two scheduling modes | engines commit in log order; nobody is told a wrong outcome; nobody waits for ever |
| `wait_for_commit` (`sql/sql_class.cc`), workers of parallel replication (`sql/rpl_parallel.cc`) | who waits for whom, lists of waiters, last committed sub_id, first failed one | register, wait, wake up, unregister, finish, retry | wake-ups that run while waiters come and go; late kills; retries | the source's commit order; every waiter known to its waker |
| Binary log as coordinator (`sql/log.cc`, `handler.cc`) | per file a count of reasons to scan it, checkpoint events, the index, a queue for the background thread | rotate, request a checkpoint, notify, mark done, purge, recover | crash at any point, rotations during commits, notifications through three queues | recovery finds every prepared transaction of the log; old files are released |
| InnoDB commit checkpoints (`handler/ha_innodb.cc`) | list of flush requests | request, notify | a flush that completes while a request is made | every request is answered, not before its commits are durable |
| Semi-sync replication | waiting positions | wait, ack, time out | late acks | no commit reported before its ack |
| `thr_lock`, `waiting_threads`, thread pools, table cache | queues | lock, wake, flush | lost wake-ups | progress |
| Parser, optimizer, executor, clients, plugins | data | sequential | none for a model checker | tested |

How they interact: a connection takes metadata locks, then engine locks, commits
through the binary log queue and InnoDB's prepare/commit, which end in
`log_write_up_to()`; completion callbacks resume the connection in the thread
pool.  `PROJECT.json` lists every component with its status, and the hazards with
the line at which each one bites.

## 2. Modules

| Module | Models |
|---|---|
| `GroupCommitLock` | `group_commit_lock`, for any set of locks and threads |
| `LogWriteUpTo` | the callers of two such locks: InnoDB's redo log writers |
| `GroupCommitLockProofs`, `LogWriteUpToProofs` | lemmas and theorems about them |
| `DurableLog`, `DurableLogProofs` | what the redo log promises: the abstract specification that `LogWriteUpTo` implements, and the proof that it does |
| `WaitForCommit` | `struct wait_for_commit` |
| `GroupCommit` | the binary log's group commit, with user sessions and the workers of parallel replication (extends `WaitForCommit`) |
| `GroupCommitProofs` | theorems about it and about `wait_for_commit` |
| `XidCountList` | `binlog_xid_count_list`, per function what it does under `LOCK_xid_list` |
| `CheckpointQueue` | InnoDB's list of flush requests and the queue of the binlog's background thread (extends `XidCountList`) |
| `BinlogXa` | commits, rotations, checkpoints, purges, crash and recovery (extends `CheckpointQueue`) |
| `BinlogXaProofs` | theorems about it |
| `MdlTypes` | lock types, the compatibility and priority tables, weights |
| `Mdl` | `MDL_lock`, `MDL_context`, `MDL_ticket`, `MDL_wait` and the deadlock detector |
| `MdlListProofs`, `MdlProofs` | lemmas and theorems about it |
| `ListProofs` | facts about lists (push, remove, concatenate, reverse, take the tail) that these proofs need |
| `MCLogWriteUpTo`, `MCMdl`, `MCGroupCommit`, `MCBinlogXa` | instances for TLC |

### GroupCommitLock and LogWriteUpTo

Variables carry the names of the fields (`m_value`, `m_lock`,
`m_waiters_list`, `m_pending_callbacks`, `lsn`, `write_lsn`,
`flushed_to_disk_lsn`); `disk` is what would survive a power failure and `acked`
the largest position a caller was told to be durable.  `pc` and `on` say where a
thread is inside a lock's method, `stage` where it is in the log functions.  Each
critical section of `m_mtx` is one action; every step outside it that others can
observe (the unlocked reads of `value()`, the sleep on the semaphore, the wake-ups
and callbacks after `lk.unlock()`) is an action of its own.  `write_buf()`
computes its target under `log_sys.latch`, gives up the latch and writes; `flush()`
reads what the file holds when the fsync begins and publishes it when it ends.
Lists are sets: the code serves the first element, the model any; that the
vector of callbacks never holds one twice is part of `OnePlace`.

LSNs count mini-transactions.  The arithmetic of log blocks, the ring buffer, the
copy to a resized file and memory-mapped logs are left out.

`DurableLog` says what commits and recovery need of all this: a log that grows,
of which a prefix is written and a shorter one on disk, acknowledgements that
never exceed what is on disk, and requests each answered at most once and not
before the position they name is reached: `done` counts the answers, and a second
answer is no step of `DurableLog`.  The requests are those with a completion
callback; callers that wait are seen only through the largest position one of
them was told.  `ImplementsDurableLog` is `INSTANCE DurableLog` with
`written <- write_lsn` and `done <- fired`; every step of the two locks, the
leaders and the hand-overs maps to one of its steps or to none.

### WaitForCommit and GroupCommit

`Groups` are event groups by sub_id, `Users` sessions without a
`wait_for_commit`.  A thread runs one transaction: a worker starts its group
(`StartGroup`), applies it, may fail, be killed, be retried (`Retry` ...), queues
(`QueueCheck`, `QueueReady`, `QueueWoken`, `QueueKilled`, `Enqueue`,
`EnqueueEntry`: `queue_for_group_commit()`), may lead (`LeaderLockLog`,
`LeaderCollect`, `LeaderWrite`, `LeaderAfterSync`, `LeaderCommitLock`,
`LeaderNotBusy`, `CommitEntry`, `WakeEntry`: `trx_group_commit_leader()`), returns
(`OwnCommit` ... `LastWait`) and finishes (`FinishUnregister` ... `FinishWakes`:
`finish_event_group()`).  `binlog` and `engine` are the orders in which events
were written and synced and `commit_ordered()` ran.  `next` holds the links of a group that
the leader has reversed, `waking` the list that
`wakeup_subsequent_commits2()` has detached and walks with one step per waiter.
A step is what a thread does under one hold of a mutex, except that the leader
writes the entries of its group one by one (`LeaderWrite`), each of which may
fail.  So may the sync of the whole group, with `SyncErrors`: `flush_and_sync()`
then gives an error to every entry whose events were written.  Nobody else looks
at the entries before LOCK_log is released, so the model decides about the sync
when the group is collected (`SyncResult`): `unsynced` holds the entries of such
groups, and `binlog` only what was written *and* synced; the events of an entry
in `unsynced` may be in the file or not.  `retried` are the groups that
`retry_event_group()` has started again, which look at their temporary tables no
more.  `late` is history: who was refused after its commit (see the findings).

Left out: the coordinator and the choice of workers, GTIDs, the waits of
`binlog_commit_wait_count`, rotation (in `BinlogXa`), the hooks of semi-sync replication
(`report_binlog_update()` gives an error to a transaction already written and
synced, when it is out of memory), Galera.

### XidCountList, CheckpointQueue and BinlogXa

A file is a number; files never disappear from `file`, only from `index`.
`Prepare`, `LeaderLockLog`, `LeaderWrite`, `LeaderSync`, `NoRotate` or `Rotate`
with `OpenNew` or `RotateFails`, `ReleaseLog`, `CommitLock`, `CommitOrdered`,
`CommitUnlock`, `CommitEngine` and `Unlog` are `ha_commit_trans()` and the
leader's way through the log; the same `Rotate`..`CommitUnlock` are
`rotate_and_purge()`, and for `ChecksumSetters` `binlog_checksum_update()`.  Who
has rotated asks the engines (`RequestCheckpoint`, `InnodbQueues`) and gives back
its hold (`Requested`).  InnoDB's answers travel from `log_requests` over the
thread that flushes (`FlushNotify`), `commit_checkpoint_notify()` (`Notify`) and
the background thread (`BackgroundGrab`, `BackgroundNext`, `BackgroundMark`) to
`mark_xid_done()`, which drops LOCK_xid_list, takes LOCK_log (`MarkLock`) and
writes the checkpoint event (`MarkWrite`).  `NeedUnlog` are transactions of an
engine without `commit_checkpoint_request`, which count by themselves.

`engine` is what an engine would say, `redo` and `flushed_lsn` what of it would
survive.  `Crash` keeps any prefix of the unsynced events, and the flushed part of
the redo log; `Recover` scans from the file that the last file's last checkpoint
names; `RecoverAborts` is the error when that file is not in the index, with
which nothing is scanned (`CanScan`, `Scanned`).
`sync_binlog=1` and `innodb_flush_log_at_trx_commit=1` throughout.

Left out: RESET MASTER and shutdown, which wait for the counts to reach zero;
failed writes, that of a checkpoint event (`log.cc:8047`) included, and incidents;
XA PREPARE of users; the semi-synchronous hooks and
the truncation of the log by a recovering semi-synchronous slave.

### Mdl

One variable per field: `granted`/`waiting` with `gsum`/`wsum` (bitmap and type
counters), `hog` (`m_hog_lock_count`), `status` (the wait slot), `waiting_for`,
`overweight`, `m_tickets`.  `writer` says who holds `m_rwlock` between steps:
what happens under it is one step, except that `reschedule_waiters()` takes one
step per waiter, because the wait slots it fills are not protected by `m_rwlock`
and timeouts and kills race with it.  `pc` follows `acquire_lock()`:

    idle -> acquire -> [queued -> search (-> victim)* -> wait -> done]
         -> idle | merge (upgrade) | withdraw -> reschedule -> release... -> idle

A deadlock search is one step, taken when none of the locks it visits is
write-locked: when it finds a loop it holds, for reading, `m_rwlock` and
`m_LOCK_waiting_for` of all of it, so that the loop exists at that instant.  The
verdict (`SetVictim`) comes later, with the victim's `m_LOCK_waiting_for` still
locked.  A ticket is a pair of its context and a number; `type` is `"free"` when
it does not exist.

When the last ticket leaves a lock, the `MDL_lock` goes back to the allocator.
The next request for the key gets a fresh object (`LeaveNew`) or a recycled one
(`LeaveRecycled`), whose bitmaps and counters `lf_hash_initializer()` does not
touch.

Left out: the BACKUP namespace, `MDL_map`'s lookup (atomic here), out of memory,
`notify_conflicting_locks()` (it aborts waits of HANDLERs and delayed inserts in
other subsystems, and changes no MDL state), Galera's priorities, the
performance schema.

## 3. Runs

| Run | Instance | Shows |
|---|---|---|
| `log_write` | 3 threads, 2 callbacks, 1 callback slot, 2 LSNs, 1 call each | `TypeOK`, `SingleOwner`, `PublishedIsDone`, `NothingAckedEarly`, `NoneLeftBehind`, `NoOrphanCallback`, `OnePlace`, `NeverBackwards`, `ImplementsDurableLog` |
| `log_write_live` | 2 threads, 1 callback | `CallsReturn`, `CallbacksRun` |
| `mdl_alter` | 3 sessions, 1 table, two of them writing, two altering it (SW and SU), upgrades to SNW and X, downgrades, time outs, `max_write_lock_count` 1 | `MdlTypeOK`, `GrantedCompatible`, `BitmapsTell`, `NoWeakMissed`, `NoFalseDeadlock` |
| `mdl_ring` | 3 sessions, 3 tables, X | `NoUndetectedDeadlock`: rings of two and three |
| `mdl_sessions` | a session with all durations that may be killed or lose its client, beside DDL on the table and its schema | `GrantedCompatible`, `TicketsAccounted`, `VictimIsWaiting`, `AllOrNothing` |
| `mdl_deadlock_live` | 2 sessions, 2 tables, upgrades of SU and of SW, no time limits | `EveryCallReturns` |
| `mdl_gone_bitmaps` | 2 sessions, a client that disconnects | violation of `BitmapsTell`, see below |
| `group_commit` | 2 event groups and a user; statement, write and sync errors, a temporary table, two kills, both schedulings | `TypeOK`, `SameOrder`, `PriorFirst`, `OutcomeTrue`, `LeaderIsFirst`, `WaiterIsKnown` |
| `group_commit_live` | 3 event groups, a kill, errors, both schedulings | `PriorFirst`, `WaiterIsKnown`, `EveryoneEnds` |
| `group_commit_late` | 2 event groups, a kill | violation of `NoErrorAfterLogging`, see below |
| `binlog_xa` | an InnoDB transaction and one that calls `unlog()`, FLUSH BINARY LOGS, 3 files, a crash | `TypeOK`, `CheckpointFinds`, `CheckpointRenewed`, `EngineMatchesBinlog`, `CountExact`, `CheckpointsInOrder`, `OldFilesReleased` |
| `binlog_checksum` | a transaction, SET GLOBAL binlog_checksum | violation of `CheckpointFinds`, see below |

Bounds.  Three threads are enough for an owner, a designated leader and a third
that takes the lock between them; one callback slot and two callbacks make the
array of `release()` overflow; two LSNs tell covered requests from uncovered
ones.  Three contexts make rings of three, a queue of two behind a holder, and a
bystander between them.  `TicketNumbers` gives a context its old and its new
ticket of an upgrade, or one ticket on each of two objects.
`MaxWriteLockCount = 10` with `MaxHog = 0` is a server at its default setting
(no limit in practice); the other runs set the limit to 1, and the counter
saturates there, where the comparison no longer changes.  `MaxOverweight = 0`
keeps `m_deadlock_overweight` at zero: it only breaks ties between victims of
equal weight.  `MaxSearchDepth = 4` exceeds the number of contexts, as
`MAX_SEARCH_DEPTH` 32 usually does.

Two event groups and a user make groups of up to three with an entry queued by its
waitee and one that was not, and leave room for another leader behind it; three
event groups make chains of entries queued transitively.  Two kills make a retry
that is killed again.  With three files there are two rotations, or one and the
file a restart opens, so that checkpoints of two files overlap; with two
transactions there is one in doubt in the old file while another group commits in
the new one.  The safety part of `binlog_xa` was also run with three transactions
and with four files.

Symmetry is used in safety runs only, over contexts that make the same calls.

Fairness.  In the log, each thread inside a call is weakly fair: it is running
or blocked on the conditions the model has (mutexes are not held between steps;
the latch and the locks are).  In Mdl a context inside a call is strongly fair,
because the `m_rwlock`s on its way are free infinitely often but not for good: a
context is assumed not to lose every race for them.  Starting calls is never
fair.  `FairSpec` of Mdl adds that clients end their transactions, without which
waiting for a lock has no bound in any lock manager.  In `GroupCommit` every
thread is weakly fair and nobody has to be killed; transactions there are finite,
so that each does reach its commit.  In `BinlogXa` sessions, the background
thread and recovery are weakly fair, and so is `FlushRedo`, because
`srv_master_callback()` flushes the redo log every `innodb_flush_log_at_timeout`
seconds; nobody has to purge or to crash.

### Findings

* **Disconnect during a wait** (`mdl_gone_bitmaps`).  `acquire_lock()` gives up
  with `wait_status= MDL_wait::TIMEOUT` when the client is gone, without closing
  the wait slot under its mutex as `timed_wait()` takes care to.  A concurrent
  `reschedule_waiters()` can grant the request in between.  `remove_ticket()` is
  then applied to `m_waiting` for a ticket that is in `m_granted`: it is unlinked,
  but the bit stays in the granted bitmap and the counter of the waiting list
  wraps.  `mdl_sessions`, which has such a client, shows what this does *not*
  break: no incompatible grants and no leaked tickets.
* **An error after the commit** (`group_commit_late`).
  `write_transaction_to_binlog_events()` ends by waiting for the prior commit,
  after the transaction is in the log and in the engine.  A worker that
  registered after its waitee's group commit had woken everybody, and before
  that one finished, still waits there; killed, it returns an error for a
  transaction that has been logged and committed in the engine.
  `ha_commit_trans()` fails; for a parallel worker it leaves the rollback to the
  worker's handling of the error (`handler.cc:2057`–`2074`).
* **A checkpoint past a commit under way** (`binlog_checksum`).
  `binlog_checksum_update()` rotates, releases LOCK_log and asks for commit
  checkpoints.  A group that has synced its events to the old file and has not
  run `commit_ordered()` (it may be waiting for a semi-synchronous
  acknowledgement) is not covered by them.  The checkpoint moves to the new file;
  after a crash the transaction is in the log and rolled back.
  `rotate_and_purge()` goes through LOCK_after_binlog_sync and
  LOCK_commit_ordered to prevent just that; `write_incident()` follows the pattern
  of `binlog_checksum_update()`.

### Observations

Seen with TLC on other instances of the same modules; what the properties say is
worded so that they hold beside these.

* *Strong requests passed over* (`mdl.cc:1318`).  At `max_write_lock_count`
  `reschedule_waiters()` skips every strong request if a weak one is queued.  The
  comment at `mdl.cc:1338`–`1345` argues that a pass which wakes nobody means that
  all weak requests are "killed, timed out or chosen as a victim".  A weak request
  may also just not be grantable: a session that holds SU waits for its upgrade to
  X, another one waits for SU.  When the last writer goes the X could be granted, is
  skipped, and nobody is woken; the two wait for a time limit, in no ring the
  detector sees (the instance of `mdl_alter` with upgrades from SU to X only).  Or
  an SNW is skipped and an SR granted; then no weak request is left,
  `m_hog_lock_count` goes back to 0, and the SNW, which the SR does not exclude,
  waits until the reader is done.  Hence `NoWeakMissed` is about weak requests.
* *Two upgraders* (`mdl.cc:2580`, `ha_sequence.cc:256`).  The note on
  `upgrade_shared_lock()` says that "There can be only one upgrader for a lock",
  because SU, SNW and SNRW exclude each other.  `ha_sequence::write_row()` upgrades
  SW to X, LOCK TABLES (`sql_parse.cc:2970`) upgrades SR and SW, and these do not
  exclude themselves.  `mdl_deadlock_live` includes such upgrades: the deadlock that
  follows is found, one of the two fails.
* *Strong grants that are not counted* (`mdl.cc:2130`).  `m_hog_lock_count` is said
  to count the strong grants while weak requests wait (`mdl.cc:643`).
  `try_acquire_lock_impl()` does not count.  An SR can wait on a lock nobody holds,
  behind the X of a session that has timed out or been made a victim and is still to
  leave the queue; the next X finds no conflict and gets the lock (three sessions
  that read and drop one table).
* *Weak requests can starve*, because that can go on, against `mdl.cc:497`–`501`: with
  three sessions and two tables, no time limits and `FairSpec`, a reader waits for
  ever in a cycle of 97 steps.  `EveryCallReturns` is checked with two sessions and
  does not say that nobody starves.
* *Unoptimized scheduling.*  With `binlog_optimize_thread_scheduling=0` a leader
  that waits for `group_commit_queue_busy` (`log.cc:8957`) gives up
  LOCK_commit_ordered meanwhile, and the leader of a later group may take it and
  the free queue first: `commit_ordered()` then runs in another order than the
  log's.  `SameOrder` is about the default.
* *A failed write inside a group.*  When the write of one event group fails, a
  successor in the same group is written and committed all the same;
  `PriorFirst` exempts it.
* *A failed sync* (`log.cc:8800`).  Every transaction of a group whose
  `flush_and_sync()` fails is told so and rolled back, while its events may be in
  the file, and may reach a replica or recovery.  `OutcomeTrue` says the rest: none
  of them is told it is committed, or committed in an engine.
* *Lost notifications with two engines* (`log.cc:11018`, `11123`).  An entry
  that the background thread has taken over, and has not come to, may be notified
  by a second engine; it is linked into the new queue, its `next_in_queue` is
  overwritten and the rest of the taken queue is lost.  Its file's count then
  never reaches zero.
* *The file a checkpoint names may be purged* (`log.cc:4291`, `10935`).  `open()` writes
  an event that names the oldest file with a count, and then removes that file's
  entry if the count has reached zero meanwhile; the thread that has counted it down
  waits in `mark_xid_done()` for LOCK_log.  `mark_xid_done()` also removes entries
  before it has synced its event.  A purge, which looks at the entries only, takes
  the file, while the last event on disk still names it and a later transaction is in
  doubt; a crash then makes recovery stop with "not found in binlog index, needed
  for recovery".  The comment in `write_binlog_checkpoint_event_already_locked()`
  rules this out for purges after the sync only.  `CheckpointFinds` and
  `CheckpointRenewed` say what does hold: from a named file that is there recovery
  misses nothing, and it is there whenever nobody is inside `mark_xid_done()`.
  (Seen with the InnoDB transaction of `binlog_xa` alone, asking for it to be found
  whether `CanScan` or not.)

## 4. Proofs

### The redo log

`LogWriteUpToProofs` proves, for any number of threads, callbacks, callback
slots, calls and LSNs (`GroupCommitAssumption`, `LogAssumption`: the special
values differ from threads and callbacks, bounds are natural numbers):
`TypeCorrect`, `Ownership`, `PublishedCorrect`, `Durability`, `RunsOnce`,
`IgnoringIsSafe`, `Monotonicity`, that is `TypeOK`, `SingleOwner`,
`PublishedIsDone`, `NothingAckedEarly`, `OnePlace`, `NoneLeftBehind` and
`NeverBackwards`.

The inductive invariant `IInv` adds to these what they rest on: where a thread
can be inside a lock's method at each stage (`Control`), that m_lock tells
whether there is an owner and who owns which lock when, what an answer of
`acquire()` says about the position, that the owner's target lies between what is
published and what is appended (`Progress`), what holds of the latch, and that
every queued or running callback has asked for what it will be told (`Callback`,
`Queued`).  `GroupCommitLockProofs` states what one method step can do to a lock
(`MethodStepEffect` and its companions) so that the proofs about the callers need
not open the methods again.  There is one step lemma per conjunct, and in it one
case per action.

`DurableLogProofs` proves the refinement, `Implementation`: with `write_lsn` for
what is written and `fired` for the answers given, every step of
`LogWriteUpTo` is a step of `DurableLog` or changes nothing it sees.  The steps
that acknowledge (a return, a callback, a release that runs callbacks) need
`NothingAckedEarly` in the next state, the others that no position moves back; a
callback runs at most once because `OnePlace` holds in the next state: `fired`
counts, so a callback run twice would be at 2.  That `OnePlace` is kept rests on
`Queued` and `Callback` (a queued pair names the position and the lock its request
asked for, so a callback is in one lock, in one pair) and on requests being new
when they are made (`PlacedAsked`).

### Metadata locks

`MdlProofs` proves `Spec => []IInv` (`Invariance`) and from it, for any contexts,
locks, strategies, calls and bounds that satisfy `MdlAssumption`:

| Theorem | States | Further hypotheses |
|---|---|---|
| `TypeCorrect` | `MdlTypeOK` | |
| `Exclusion` | `GrantedCompatible` | |
| `NoTicketLeaks` | `TicketsAccounted` | |
| `VerdictInTime` | `VictimIsWaiting` | |
| `FailedCallUndone` | `AllOrNothing` | |
| `BitmapsAgree` | `BitmapsTell` | `Disconnecting = {}`: no client goes away during a wait |

The hypothesis of `BitmapsAgree` is the one whose absence the run
`mdl_gone_bitmaps` shows to matter; the other theorems hold with clients that go
away, because the granted bitmap then still *covers* the list.

The invariant is checked by TLC on the instances of `mdl_alter` and
`mdl_sessions`; its parts, each needed by another:

* `GrantedCovered`: `m_granted`'s bitmap has every type that is granted, and its
  counters are at least the numbers of tickets.  `can_grant_lock()` looks only at
  the bitmap when the requester's own tickets are not in the way, so
  `GrantedCompatible` rests on it; it cannot be an equality (see above).
  `remove_ticket()` clears a bit when a counter gets to zero, which is safe only
  with the counters in the invariant.
* `GrantedRight`, `WaitingRight`, `ListsRight`, `TicketsRight`: every ticket that
  exists is in exactly the lists its state says, queued or granted under its own
  lock, and either in its context's list of its duration or the ticket of a call
  under way.
* `PendingsRight`: the ticket of a waiting call is granted if and only if the wait
  slot says so; where a result has been read, what the slot can still be.
* `UpgradesRight`: the ticket to upgrade stays, listed and too weak; the acquired
  one is on the same lock and strong enough.  The merge is then compatible because
  what nobody else's tickets exclude for the new one they do not for the old.
* `SavepointsRight`: what lies before the savepoint's tickets in the lists is what
  the call has got, what lies behind is what was held.  A call with an EXPLICIT
  request has only that one, else a rollback would miss its ticket.
* `TodosRight`, `ControlRight`, `WriterRight`: the tickets still to be released
  are listed; what a context has in hand at each `pc`.

A step of context c changes only its own tickets, or (`reschedule_waiters()`) the
status and list of another's queued one.  `OthersStep` says the former once, and
`OwnStep` reduces preservation of `IInv` to what it says of c and of the locks;
there is one step lemma per action, and `NextInv` puts them together.
`MdlListProofs` has the facts about lists (push, remove, concatenate, reverse,
what is stored before a savepoint) and summaries (add and remove a ticket) that
the steps need; compatibility is symmetric by inspection of the tables
(`SymmetricTables`), and a stronger or equal type excludes at least as much
(`WeakerIsCompatible`).

### The binary log's group commit

`GroupCommitProofs` proves `Spec => []IInv` (`Invariance`) and from it, for any
event groups `1 .. n`, users, kills, failing statements and failing writes
(`GroupsAssumption`, `GroupCommitAssumption`: event groups are consecutive
numbers and no thread is the null pointer):

| Theorem | States | Why it is not obvious |
|---|---|---|
| `TypeCorrect` | `TypeOK` | the leader follows links that other threads made |
| `CommitOrder` | `SameOrder` | `commit_ordered()` runs when two later groups may have been written |
| `NoLostWaiter` | `WaiterIsKnown` | a waiter is moved between three lists by three threads |
| `LeaderFirst` | `LeaderIsFirst` | the leader was appointed before others were put in front of it |
| `OutcomesTrue` | `OutcomeTrue` | a leader writes, commits and tells transactions that may be killed and tried again meanwhile |

The parts of `IInv`, checked by TLC on the instance of `group_commit` before
they were proved:

* `LocksInv`: who is at which stage holds which of the four mutexes, and which
  stages each scheduling mode has.
* `WfcInv`: a waiter is in `subsequent_commits_list` of its waitee, or in the
  list its waitee's wakeup walks, or was taken over by its waitee's entry
  (`ListsInv`); a wakeup runs only where its thread, or the leader on its behalf,
  executes it; who is about to register has no waitee.
* `QueueInv`: who is in the queue either waits (`Passive`) or is its first one,
  which will lead; entries on their way into the queue belong to the thread that
  has LOCK_prepare_ordered and are in no queue yet.
* `ChainInv`: the links of groups that have left the queue.  Whoever is linked to
  by a transaction still in its group (`Pending`) waits, and nobody is linked to
  twice, so that neither a leader's loop nor the chain of wake-ups of the other
  scheduling mode meets a transaction that has gone on.
* `OrderKept`: there is a numbering of the groups (`of`) and a place for each
  transaction (`idx`: its index in the binary log, or where it would have been if
  its write has failed, 0 before) such that the places follow the links and the
  end of what the engines have committed is the place at which the group that has
  come furthest begins.  There may be three groups between the locks; the one that
  holds LOCK_log ends where the log ends, the one with LOCK_after_binlog_sync
  where that one begins, and the one with LOCK_commit_ordered where that one
  begins (`Written`, `SyncedUpTo`, `CommittedUpTo`).  A transaction's place is not
  state of the program and cannot be read off `binlog` when a write has failed;
  it is therefore bound by an existential quantifier, and a step is proved with
  the new place or group number as the witness.

Most steps touch little of this: `OutsideStep` is a step of a thread outside the
group commit, `PassStep` one that goes in or out, `InsideStep` one of a leader or
of a thread that commits for itself, `TellStep` one that tells another thread to
go on.  What each of them keeps is proved once.  The steps with a proof of their
own are `EnqueueEntry` (an entry goes into the queue and its waiters after it),
`LeaderCollect` (the queue becomes a group), `LeaderWrite` and `CommitEntry`.
That `Those`, which is a recursive function, returns the members of a list each
once needs an induction; `ListProofs` proves the principle for sets of natural
numbers (`InductiveSet`), which the provers can use where a theorem about an
arbitrary operator is of no help to them.

`OutcomesTrue` needs a second invariant on top of `IInv`, `LogsKept`, also checked
by TLC first.  It says that there are two sets of transactions, `W`, whose turn in
the loop that writes has come since they were last applied, and `K`, whose turn in
`commit_ordered()` has come; neither is state of the program once a write has
failed.  `PhaseInv` gives for each stage whether a transaction is in them: who has
not been collected (`Fresh`) is in neither, who has been told to go on (`Told`) is
in `W`, and in `K` exactly with the optimised scheduling, where the leader has
committed for it.  `LinkOf` says that a group is written from its first entry to
its last, so that the next one to be told has been written; nobody who still waits
is in `K` but the one that a leader is about to tell.  `ResultOf` then says what is
in the logs: a transaction is once in the binary log if it is in `W` and its write
has not failed, once in the engines if it is in `K` as well, and what it has been
told agrees with that.  `Apply` is where a transaction that is tried again leaves
both sets, which is sound because it had an error or never got there.

### The binary log as coordinator

`BinlogXaProofs` proves, for any number of transactions (with or without
`unlog()`), rotating sessions, files and crashes (`XaAssumption`: sessions,
background thread and flusher are different threads, and the sets of sessions are
finite):

| Theorem | States | Hypotheses |
|---|---|---|
| `TypeCorrect` | `TypeOK` | one engine |
| `CountsExact` | `CountExact` | one engine |
| `CheckpointsOrdered` | `CheckpointsInOrder` | one engine |
| `CheckpointRenewal` | `CheckpointRenewed` | one engine |
| `CheckpointCoverage` | `CheckpointFinds` | one engine, commit order |
| `RecoveryAgrees` | `EngineMatchesBinlog` | one engine, commit order |

*One engine* is `Engines = <<"InnoDB">>`: only InnoDB has
`commit_checkpoint_request`.  With a second such engine notifications can be lost
(see the observations), and then a count stays too high.  *Commit order* is
`ChecksumSetters = {}`: nobody sets `binlog_checksum`, so that every rotation takes
LOCK_after_binlog_sync and LOCK_commit_ordered before it asks for checkpoints.
Without it `CheckpointFinds` is false, which is what `binlog_checksum` shows.
Both hypotheses hold of a server with InnoDB alone on which `binlog_checksum` is
not changed; commits, FLUSH BINARY LOGS, size rotations, failing rotations, purges
and crashes remain.

The invariant was checked by TLC, with instances of up to a million states,
before it was proved.  It has three parts, each on top of those before it.

1. `CountsInv`.  Its first half, `ThreadsInv`, says of every label of a session
   which mutexes it holds (`LocksInv`), which file it has seen (`FilesInv`: a file
   is left by one session only, which is the one that asks for its checkpoint),
   what groups are being committed (`GroupInv`), how far each transaction is in its
   engine and in the log (`TrxInv`), that list and index hold consecutive files up
   to the current one (`ListInv`) and what is left while the server is down
   (`DownInv`).  The second half, `PlacesInv`, says where the request for each file
   is: with the session that read the LSN, in `log_requests`, with a notifying
   thread, in the background thread's queue, in the part of it that the thread
   has taken over, or being counted.  `where` is such a function from files to
   places.  It is not state of the program, so it is bound by an existential
   quantifier; a step is proved with the changed function as witness.  That the
   places are disjoint and each request is at exactly one of them is what makes
   the sum in `CountExact` come out right: `CountInv` is `CountExact` with the four
   sets of requests replaced by `where[f] # "none"`.  The queue's links can be
   followed because no entry is linked twice; `Reach`, the set of the entries
   that links lead to, is the least closed set, so that `ReachStep` and
   `ReachFrame` are proved without induction.
2. `CkptInv`.  The last event names no file behind the head of the list, and a name
   that is chosen and not yet written (`named`) is not before the head and not
   behind a file with a reason.  Because LOCK_log is held between the choice and
   the write, nobody else writes an event in between; because rotate() counts
   before open() looks, the new file cannot be named instead of the one that is
   left.  `RenewInv` adds when the named file is the head of the list, which is always
   in the index: with nobody inside `mark_xid_done()`.  It rests on the head having a
   count, or being current, unless somebody waits for LOCK_log to remove it.
3. `RecoveryInv`.  `OrderInv` orders the sessions between LOCK_log and the request:
   who comes behind a session that has rotated commits a group in a later file.
   Hence when the checkpoint is requested every transaction of the old file is
   committed in InnoDB (`AllCommitted`), its commit record lies before the LSN that
   is read, and `DurableInv` follows it: as long as it is not flushed, either the
   rotating session has not asked yet, or somebody has a request with an LSN at or
   behind its record, and such a request is a reason to keep the entry.
   `PositionsInv` says that nobody announces more than is flushed; `OutcomeInv` that
   what is rolled back is not in the log, and that what is prepared and logged when
   the server is down will be scanned.  `InDoubtListed` puts the three parts
   together: what a crash would leave in doubt is in a file with an entry, so in the
   index, and not before the file that the last event names.

A step that concerns few of these (`QuietPlaces`, `QuietCkpt`, `QuietRedo`) keeps
the rest for a reason stated once; the others have a lemma each for every part.

### Only model-checked

Liveness (`CallsReturn`, `CallbacksRun`, `EveryCallReturns`, `EveryoneEnds`,
`OldFilesReleased`) is out of the prover's reach.  `NoOrphanCallback` is liveness
in disguise: a callback left in `write_lock` may rely on a chain of hand-overs
through `flush_lock`.  `NoUndetectedDeadlock` and `NoFalseDeadlock` are about
paths of any length in the wait-for graph, and a search stops at
MAX_SEARCH_DEPTH.  `NoWeakMissed` is checked for SW and SU.  `PriorFirst` of `GroupCommit` needs what an event group has
reached when another one sees it (below).

## 5. Not modelled

The share of the server that is modelled is small: the repository holds some two
million lines, of which character set tables, the parser, the optimizer, the
engines' data structures, clients and plugins make up nearly all.  They are
sequential and data-heavy, or too large for a faithful module of their own.  Of
the concurrent parts these are left: `MDL_map` with `lf_hash`, the BACKUP
namespace, the log buffer's lock-free append, InnoDB's record locks, read views
and latches, semi-synchronous replication, the coordinator of parallel
replication, `thr_lock`, `waiting_threads`, the thread pools, the table cache,
RESET MASTER and shutdown of the binary log, Galera.  `PROJECT.json` gives the
reason for each.

## 6. Plan

1. `PriorFirst` in `GroupCommitProofs`, from an invariant that says for each
   wakeup that the one woken may rely on the prior commit; `LogsKept` says already
   for each stage whether a transaction is in the logs.
2. `NoOrphanCallback`, with an invariant about who will come for a callback.
