------------------------------ MODULE BinlogXa ------------------------------
(***************************************************************************)
(* The binary log as transaction coordinator (sql/log.cc, sql/handler.cc): *)
(* a transaction is prepared durably in its engine, written to the binary  *)
(* log and synced, and then committed in the engine without a sync.  After *)
(* a crash the binary log decides: what is prepared and found in the files *)
(* from the last binlog checkpoint on is committed, the rest rolled back.  *)
(*                                                                         *)
(* Threads are sessions that commit one transaction each, sessions that    *)
(* rotate the log, the background thread of the binary log and InnoDB's    *)
(* periodic flush of its redo log.  A step is what a thread does under one *)
(* hold of a mutex; a write and its sync are one step except for the       *)
(* events of a commit group.  sync_binlog=1 and                            *)
(* innodb_flush_log_at_trx_commit=1.                                       *)
(***************************************************************************)
EXTENDS CheckpointQueue

CONSTANTS
  NeedUnlog,     \* those in an engine without commit_checkpoint_request
  ChecksumSetters,  \* rotators that SET GLOBAL binlog_checksum; the others
                    \* execute FLUSH BINARY LOGS
  Engines,       \* those with commit_checkpoint_request, in plugin order
  Background, NoThread,
  MaxCrashes     \* bound

ASSUME XaAssumption ==
  /\ IsFiniteSet(Trx) /\ IsFiniteSet(Rotators) /\ Trx \cap Rotators = {}
  /\ Flusher \notin Sessions /\ Background \notin Sessions
  /\ NoThread \notin Sessions \cup {Background}
  /\ NeedUnlog \subseteq Trx
  /\ ChecksumSetters \subseteq Rotators
  /\ Engines \in {<<"InnoDB">>, <<"InnoDB", "RocksDB">>}
  /\ MaxCrashes \in Nat

Markers == Sessions \cup {Background}

VARIABLES
  \* on disk
  index,       \* the files in the index
  file,        \* the file that holds a transaction's events, or NoFile
  unsynced,    \* the transactions written since the last sync, in order
  checkpoint,  \* what a file's last checkpoint event names
  engine,      \* a transaction's state in its engine
  redo,        \* InnoDB: transactions by their commit records, in log order
  \* in memory
  server,
  crashes,
  pc,
  LOCK_log, LOCK_after_binlog_sync, LOCK_commit_ordered,
  group,       \* what is left of the group that a leader commits
  binlog_id,   \* the file current when a thread got LOCK_log
  check_purge, \* has that thread rotated?
  to_ask,      \* the engines it has not yet asked for a checkpoint
  named,       \* what the checkpoint event under way will name
  mark         \* progress of a call of mark_xid_done()

diskVars == <<index, file, unsynced, checkpoint>>
engineVars == <<engine, redo, redoVars>>
lockVars == <<LOCK_log, LOCK_after_binlog_sync, LOCK_commit_ordered>>
localVars == <<group, binlog_id, check_purge, to_ask, named>>
serverVars == <<server, crashes>>
ckptVars == <<requestVars, queueVars, bg>>
vars == <<diskVars, engineVars, serverVars, pc, lockVars, localVars, mark,
          listVars, ckptVars>>

Init ==
  /\ index = {1}
  /\ file = [t \in Trx |-> NoFile]
  /\ unsynced = <<>>
  /\ checkpoint = [f \in Files |-> IF f = 1 THEN 1 ELSE NoFile]
  /\ engine = [t \in Trx |-> "active"]
  /\ redo = <<>>
  /\ server = "up" /\ crashes = 0
  /\ pc = [t \in Sessions |-> IF t \in Trx THEN "prepare" ELSE "rotate"]
  /\ LOCK_log = NoThread
  /\ LOCK_after_binlog_sync = NoThread
  /\ LOCK_commit_ordered = NoThread
  /\ group = [t \in Sessions |-> <<>>]
  /\ binlog_id = [t \in Sessions |-> NoFile]
  /\ check_purge = [t \in Sessions |-> FALSE]
  /\ to_ask = [t \in Sessions |-> Engines]
  /\ named = NoFile
  /\ mark = [t \in Markers |-> "no"]
  /\ ListInit(1)
  /\ QueueInit

Labels ==
  {"prepare", "queue", "write", "rotate", "open", "after", "order", "commit",
   "request", "flush", "grouped", "ordered", "unlog", "acked", "end", "gone"}

CoordinatorTypeOK ==
  /\ index \subseteq Files /\ index # {}
  /\ file \in [Trx -> Files \cup {NoFile}]
  /\ unsynced \in Seq(Trx)
  /\ checkpoint \in [Files -> Files \cup {NoFile}]
  /\ engine \in [Trx -> {"active", "prepared", "committed", "rolled back"}]
  /\ redo \in Seq(Trx) /\ lsn = Len(redo)
  /\ server \in {"up", "down", "aborted"} /\ crashes \in 0..MaxCrashes
  /\ pc \in [Sessions -> Labels]
  /\ LOCK_log \in Markers \cup {NoThread}
  /\ LOCK_after_binlog_sync \in Sessions \cup {NoThread}
  /\ LOCK_commit_ordered \in Sessions \cup {NoThread}
  /\ group \in [Sessions -> Seq(Trx)]
  /\ binlog_id \in [Sessions -> Files \cup {NoFile}]
  /\ check_purge \in [Sessions -> BOOLEAN]
  /\ to_ask \in [Sessions -> {Engines, Tail(Engines), <<>>}]
  /\ named \in Files \cup {NoFile}
  /\ mark \in [Markers -> {"no", "lock", "write"}]

TypeOK == CoordinatorTypeOK /\ ListTypeOK /\ QueueTypeOK
----------------------------------------------------------------------------
(* A session at a label, not inside a function that it has called.         *)
At(t, label) ==
  server = "up" /\ pc[t] = label /\ ~ Busy(t) /\ mark[t] = "no"

Goto(t, label) == pc' = [pc EXCEPT ![t] = label]

(* InnoDB's trx_prepare() syncs the redo log, and with it every commit     *)
(* record before it; another engine keeps its own log.                     *)
Prepare(t) ==
  /\ At(t, "prepare")
  /\ Goto(t, "queue")
  /\ engine' = [engine EXCEPT ![t] = "prepared"]
  /\ IF t \in NeedUnlog THEN UNCHANGED <<flushed_lsn, flush_notify>>
                        ELSE FlushedBy(t, lsn)
  /\ UNCHANGED <<diskVars, redo, lsn, serverVars, lockVars, localVars, mark,
                 listVars, log_requests, seen, notifying, queueVars, bg>>

(* A group is written in the order of the queue.                           *)
WriteEvents(t) ==
  /\ file' = [file EXCEPT ![t] = current_binlog_id]
  /\ unsynced' = Append(unsynced, t)
  /\ UNCHANGED <<index, checkpoint>>

(* trx_group_commit_leader(): a prepared transaction gets LOCK_log ...     *)
LeaderLockLog(t) ==
  /\ t \in Trx /\ At(t, "queue")
  /\ LOCK_log = NoThread
  /\ LOCK_log' = t
  /\ binlog_id' = [binlog_id EXCEPT ![t] = current_binlog_id]
  /\ group' = [group EXCEPT ![t] = <<t>>]
  /\ WriteEvents(t)
  /\ Goto(t, "write")
  /\ UNCHANGED <<engineVars, serverVars, LOCK_after_binlog_sync,
                 LOCK_commit_ordered, check_purge, to_ask, named, mark, listVars,
                 ckptVars>>

(* ... and writes others that have queued up.                              *)
LeaderWrite(t, u) ==
  /\ At(t, "write")
  /\ u \in Trx /\ At(u, "queue")
  /\ group' = [group EXCEPT ![t] = Append(@, u)]
  /\ WriteEvents(u)
  /\ Goto(u, "grouped")
  /\ UNCHANGED <<engineVars, serverVars, lockVars, binlog_id, check_purge, to_ask, named,
                 mark, listVars, ckptVars>>

(* flush_and_sync(), then the transactions that will call unlog() count.   *)
LeaderSync(t) ==
  /\ At(t, "write")
  /\ unsynced' = <<>>
  /\ Activated(binlog_id[t], Cardinality(ToSet(group[t]) \cap NeedUnlog))
  /\ Goto(t, "rotate")
  /\ UNCHANGED <<index, file, checkpoint, engineVars, serverVars, lockVars,
                 localVars, mark, current_binlog_id, binlog_xid_count_list,
                 ckptVars>>

(* rotate_and_purge(), binlog_checksum_update(): LOCK_log                  *)
RotatorLockLog(t) ==
  /\ t \in Rotators /\ At(t, "rotate")
  /\ current_binlog_id < MaxFile
  /\ LOCK_log = NoThread
  /\ LOCK_log' = t
  /\ binlog_id' = [binlog_id EXCEPT ![t] = current_binlog_id]
  /\ UNCHANGED <<diskVars, engineVars, serverVars, pc, LOCK_after_binlog_sync,
                 LOCK_commit_ordered, group, check_purge, to_ask, named, mark, listVars,
                 ckptVars>>

(* rotate(): the log is below max_binlog_size.                             *)
NoRotate(t) ==
  /\ t \in Trx /\ At(t, "rotate")
  /\ Goto(t, "after")
  /\ UNCHANGED <<diskVars, engineVars, serverVars, lockVars, localVars, mark,
                 listVars, ckptVars>>

(* rotate(): hold the entry of the current file; open() then looks up what *)
(* the new file's checkpoint event will name.  LOCK_index is held from     *)
(* here until the new file is open.                                        *)
Rotate(t) ==
  /\ At(t, "rotate") /\ LOCK_log = t
  /\ current_binlog_id < MaxFile
  /\ Activated(current_binlog_id, 1)
  /\ named' = InitialCheckpoint(xid_count', current_binlog_id + 1)
  /\ Goto(t, "open")
  /\ UNCHANGED <<diskVars, engineVars, serverVars, lockVars, group, binlog_id,
                 check_purge, to_ask, mark, current_binlog_id, binlog_xid_count_list,
                 ckptVars>>

(* new_file_impl() fails before it has touched anything: the count goes    *)
(* back, no checkpoint event is due.                                       *)
RotateFails(t) ==
  /\ At(t, "open")
  /\ Decremented(binlog_id[t])
  /\ named' = NoFile
  /\ Goto(t, "after")
  /\ UNCHANGED <<diskVars, engineVars, serverVars, lockVars, group, binlog_id,
                 check_purge, to_ask, mark, current_binlog_id, binlog_xid_count_list,
                 ckptVars>>

(* open(): the new file with its checkpoint event is synced, the position  *)
(* is published under LOCK_commit_ordered, the name is added to the index  *)
(* and synced, and the entry is linked in.  Until then a restart takes the *)
(* old file, still marked as in use, for the last one.                     *)
OpenNew(t) ==
  LET new == current_binlog_id + 1
  IN  /\ At(t, "open")
      /\ LOCK_commit_ordered = NoThread
      /\ index' = index \cup {new}
      /\ checkpoint' = [checkpoint EXCEPT ![new] = named]
      /\ named' = NoFile
      /\ Linked(new)
      /\ check_purge' = [check_purge EXCEPT ![t] = TRUE]
      /\ Goto(t, "after")
      /\ UNCHANGED <<file, unsynced, engineVars, serverVars, lockVars, group,
                     binlog_id, to_ask, mark, ckptVars>>

(* Mutant: no rotation is kept behind earlier commits.                      *)
ReleaseLogUnordered(t) ==
  /\ At(t, "after")
  /\ LOCK_log' = NoThread
  /\ IF t \in Rotators
       THEN /\ Goto(t, IF check_purge[t] THEN "request" ELSE "end")
            /\ UNCHANGED LOCK_after_binlog_sync
       ELSE /\ LOCK_after_binlog_sync = NoThread
            /\ LOCK_after_binlog_sync' = t
            /\ Goto(t, "order")
  /\ UNCHANGED <<diskVars, engineVars, serverVars, LOCK_commit_ordered, localVars,
                 mark, listVars, ckptVars>>

(* LOCK_log is given up for LOCK_after_binlog_sync, the leader's way as    *)
(* well as that of FLUSH BINARY LOGS; binlog_checksum_update() just gives  *)
(* it up.                                                                  *)
ReleaseLog(t) ==
  /\ At(t, "after")
  /\ LOCK_log' = NoThread
  /\ IF t \in ChecksumSetters
       THEN /\ Goto(t, IF check_purge[t] THEN "request" ELSE "end")
            /\ UNCHANGED LOCK_after_binlog_sync
       ELSE /\ LOCK_after_binlog_sync = NoThread
            /\ LOCK_after_binlog_sync' = t
            /\ Goto(t, "order")
  /\ UNCHANGED <<diskVars, engineVars, serverVars, LOCK_commit_ordered, localVars,
                 mark, listVars, ckptVars>>

(* LOCK_after_binlog_sync is given up for LOCK_commit_ordered.             *)
CommitLock(t) ==
  /\ At(t, "order")
  /\ LOCK_commit_ordered = NoThread
  /\ LOCK_commit_ordered' = t
  /\ LOCK_after_binlog_sync' = NoThread
  /\ Goto(t, "commit")
  /\ UNCHANGED <<diskVars, engineVars, serverVars, LOCK_log, localVars, mark,
                 listVars, ckptVars>>

(* run_commit_ordered(): InnoDB writes a commit record and does not sync;  *)
(* an engine without checkpoints commits later, in commit().               *)
CommitOrdered(t) ==
  LET u == Head(group[t])
  IN  /\ At(t, "commit")
      /\ group[t] # <<>>
      /\ group' = [group EXCEPT ![t] = Tail(@)]
      /\ IF u \in NeedUnlog THEN UNCHANGED <<engine, redo, lsn>>
         ELSE /\ engine' = [engine EXCEPT ![u] = "committed"]
              /\ redo' = Append(redo, u)
              /\ lsn' = lsn + 1
      /\ pc' = IF u = t THEN pc ELSE [pc EXCEPT ![u] = "ordered"]
      /\ UNCHANGED <<diskVars, flushed_lsn, serverVars, lockVars, binlog_id,
                     check_purge, to_ask, named, mark, listVars, ckptVars>>

(* The group is done; who has rotated requests a commit checkpoint.        *)
CommitUnlock(t) ==
  /\ At(t, "commit")
  /\ group[t] = <<>>
  /\ LOCK_commit_ordered' = NoThread
  /\ Goto(t, IF check_purge[t] THEN "request"
             ELSE IF t \in Trx THEN "ordered" ELSE "end")
  /\ UNCHANGED <<diskVars, engineVars, serverVars, LOCK_log,
                 LOCK_after_binlog_sync, localVars, mark, listVars, ckptVars>>
----------------------------------------------------------------------------
(* do_checkpoint_request(), ha_commit_checkpoint_request(): for one engine *)
(* after the other binlog_checkpoint_callback() counts and the engine is   *)
(* asked.  RocksDB syncs its log and notifies before it returns.           *)
RequestCheckpoint(t) ==
  /\ At(t, "request")
  /\ to_ask[t] # <<>>
  /\ to_ask' = [to_ask EXCEPT ![t] = Tail(@)]
  /\ Activated(binlog_id[t], 1)
  /\ IF Head(to_ask[t]) = "InnoDB"
       THEN ReadLsn(t) /\ Goto(t, "flush") /\ UNCHANGED notifying
       ELSE /\ notifying' = [notifying EXCEPT ![t] = <<binlog_id[t]>>]
            /\ UNCHANGED <<seen, pc>>
  /\ UNCHANGED <<diskVars, engineVars, serverVars, lockVars, group, binlog_id,
                 check_purge, named, mark, current_binlog_id,
                 binlog_xid_count_list, log_requests, flush_notify, queueVars, bg>>

InnodbQueues(t) ==
  /\ At(t, "flush")
  /\ QueueRequest(t, binlog_id[t])
  /\ Goto(t, "request")
  /\ UNCHANGED <<diskVars, engineVars, serverVars, lockVars, localVars, mark,
                 listVars, queueVars, bg>>

(* mark_xid_done(), the first hold of LOCK_xid_list                        *)
MarkXidDone(t, f) ==
  /\ Decremented(f)
  /\ mark' = [mark EXCEPT ![t] = IF CheckpointDue(f) THEN "lock" ELSE "no"]
  /\ UNCHANGED <<current_binlog_id, binlog_xid_count_list>>

(* The count that rotate() took is given back.                             *)
Requested(t) ==
  /\ At(t, "request")
  /\ to_ask[t] = <<>>
  /\ MarkXidDone(t, binlog_id[t])
  /\ Goto(t, IF t \in Trx THEN "ordered" ELSE "end")
  /\ UNCHANGED <<diskVars, engineVars, serverVars, lockVars, localVars, ckptVars>>

(* commit_one_phase_2(): an engine without checkpoints commits durably;    *)
(* for the others unlog() has nothing to do.                               *)
CommitEngine(t) ==
  /\ t \in Trx /\ At(t, "ordered")
  /\ engine' = [engine EXCEPT ![t] = "committed"]
  /\ Goto(t, IF t \in NeedUnlog THEN "unlog" ELSE "acked")
  /\ UNCHANGED <<diskVars, redo, redoVars, serverVars, lockVars, localVars, mark,
                 listVars, ckptVars>>

(* unlog()                                                                 *)
Unlog(t) ==
  /\ t \in Trx /\ At(t, "unlog")
  /\ MarkXidDone(t, file[t])
  /\ Goto(t, "acked")
  /\ UNCHANGED <<diskVars, engineVars, serverVars, lockVars, localVars, ckptVars>>

(* The background thread calls mark_xid_done() for each notification.      *)
BackgroundMark ==
  /\ server = "up" /\ mark[Background] = "no"
  /\ bg.times > 0
  /\ MarkXidDone(Background, bg.entry)
  /\ BackgroundMarked
  /\ UNCHANGED <<diskVars, engineVars, serverVars, pc, lockVars, localVars,
                 requestVars, queueVars>>

(* Mutant: the event is prepared without LOCK_log.                          *)
MarkLockAlone(t) ==
  /\ server = "up" /\ mark[t] = "lock"
  /\ LOCK_log' = LOCK_log
  /\ Trimmed
  /\ named' = Head(binlog_xid_count_list')
  /\ mark' = [mark EXCEPT ![t] = "write"]
  /\ UNCHANGED <<diskVars, engineVars, serverVars, pc, LOCK_after_binlog_sync,
                 LOCK_commit_ordered, group, binlog_id, check_purge, to_ask, ckptVars>>

(* mark_xid_done(): with LOCK_log, and LOCK_xid_list again, entries that   *)
(* nobody needs go, and the first one left is to be named.                 *)
MarkLock(t) ==
  /\ server = "up" /\ mark[t] = "lock"
  /\ LOCK_log = NoThread
  /\ LOCK_log' = t
  /\ Trimmed
  /\ named' = Head(binlog_xid_count_list')
  /\ mark' = [mark EXCEPT ![t] = "write"]
  /\ UNCHANGED <<diskVars, engineVars, serverVars, pc, LOCK_after_binlog_sync,
                 LOCK_commit_ordered, group, binlog_id, check_purge, to_ask, ckptVars>>

(* write_binlog_checkpoint_event_already_locked(), LOCK_log is released.   *)
MarkWrite(t) ==
  /\ server = "up" /\ mark[t] = "write"
  /\ LOCK_commit_ordered = NoThread
  /\ checkpoint' = [checkpoint EXCEPT ![current_binlog_id] = named]
  /\ named' = NoFile
  /\ LOCK_log' = NoThread
  /\ mark' = [mark EXCEPT ![t] = "no"]
  /\ UNCHANGED <<index, file, unsynced, engineVars, serverVars, pc,
                 LOCK_after_binlog_sync, LOCK_commit_ordered, group, binlog_id,
                 check_purge, to_ask, listVars, ckptVars>>
----------------------------------------------------------------------------
(* srv_master_callback() and others write and flush the redo log.          *)
FlushRedo ==
  /\ server = "up" /\ ~ Busy(Flusher)
  /\ flushed_lsn < lsn
  /\ FlushedBy(Flusher, lsn)
  /\ UNCHANGED <<diskVars, engine, redo, lsn, serverVars, pc, lockVars, localVars,
                 mark, listVars, log_requests, seen, notifying, queueVars, bg>>

(* The steps of the two queues leave the rest alone.                       *)
QueueStep(A) ==
  /\ server = "up"
  /\ A
  /\ UNCHANGED <<diskVars, engine, redo, serverVars, pc, lockVars, localVars, mark,
                 listVars>>

Notifies(t) == QueueStep(FlushNotify(t) \/ Notify(t))
BackgroundQueue == mark[Background] = "no" /\ QueueStep(BackgroundGrab \/ BackgroundNext)

(* Mutant: the entries of the list are not looked at.                       *)
CanPurgeAny(f) == f # current_binlog_id

(* can_purge_log(): not the active file, and without an entry.             *)
CanPurge(f) == f # current_binlog_id /\ f \notin ToSet(binlog_xid_count_list)

(* purge_logs(), purge_logs_before_date(): under LOCK_index the oldest     *)
(* file leaves the index.                                                  *)
Purge ==
  LET f == Min(index)
  IN  /\ server = "up"
      /\ \A t \in Sessions : pc[t] # "open"
      /\ CanPurge(f)
      /\ index' = index \ {f}
      /\ UNCHANGED <<file, unsynced, checkpoint, engineVars, serverVars, pc,
                     lockVars, localVars, mark, listVars, ckptVars>>
----------------------------------------------------------------------------
(* What a crash leaves: of the unsynced events any first part, of the redo *)
(* log what is flushed.                                                    *)
Durable(t) ==
  /\ engine[t] = "committed"
  /\ \A i \in flushed_lsn + 1 .. lsn : redo[i] # t

Crash ==
  /\ server = "up" /\ crashes < MaxCrashes
  /\ current_binlog_id < MaxFile
  /\ \E n \in 0..Len(unsynced) :
       file' = [t \in Trx |->
         IF t \in ToSet(SubSeq(unsynced, n + 1, Len(unsynced))) THEN NoFile
                                                                ELSE file[t]]
  /\ engine' = [t \in Trx |->
       IF engine[t] = "committed" /\ ~ Durable(t) THEN "prepared" ELSE engine[t]]
  /\ server' = "down" /\ crashes' = crashes + 1
  /\ pc' = [t \in Sessions |->
       IF pc[t] \in {"prepare", "acked"} THEN pc[t] ELSE "gone"]
  /\ unsynced' = <<>> /\ redo' = <<>>
  /\ LOCK_log' = NoThread
  /\ LOCK_after_binlog_sync' = NoThread
  /\ LOCK_commit_ordered' = NoThread
  /\ group' = [t \in Sessions |-> <<>>]
  /\ binlog_id' = [t \in Sessions |-> NoFile]
  /\ check_purge' = [t \in Sessions |-> FALSE]
  /\ to_ask' = [t \in Sessions |-> Engines]
  /\ named' = NoFile
  /\ mark' = [t \in Markers |-> "no"]
  /\ QueueForgotten
  /\ UNCHANGED <<index, checkpoint, listVars>>

(* recover(): the last file's last checkpoint event names the first file   *)
(* to scan, and without that file nothing is scanned; what is prepared is  *)
(* decided by what is found.  The server then opens a new file with an     *)
(* empty list.                                                             *)
CanScan == checkpoint[Max(index)] \in index

Scanned ==
  {t \in Trx : CanScan /\ file[t] \in index /\ file[t] >= checkpoint[Max(index)]}

Recovered(found) ==
  LET new == Max(index) + 1
  IN  /\ server = "down"
      /\ CanScan
      /\ engine' = [t \in Trx |->
           IF engine[t] # "prepared" THEN engine[t]
           ELSE IF t \in found THEN "committed" ELSE "rolled back"]
      /\ index' = index \cup {new}
      /\ checkpoint' = [checkpoint EXCEPT ![new] = new]
      /\ ListRestarted(new)
      /\ server' = "up"
      /\ UNCHANGED <<file, unsynced, redo, redoVars, crashes, pc, lockVars,
                     localVars, mark, ckptVars>>

(* Mutant: the scan begins behind the named file.                           *)
RecoverSkipsFirst == Recovered({t \in Scanned : file[t] > checkpoint[Max(index)]})

Recover == Recovered(Scanned)

(* recover(): "Binlog file not found in binlog index, needed for recovery" *)
RecoverAborts ==
  /\ server = "down"
  /\ ~ CanScan
  /\ server' = "aborted"
  /\ UNCHANGED <<diskVars, engineVars, crashes, pc, lockVars, localVars, mark,
                 listVars, ckptVars>>
----------------------------------------------------------------------------
Session(t) ==
  \/ RotatorLockLog(t) \/ Rotate(t) \/ OpenNew(t) \/ RotateFails(t)
  \/ ReleaseLog(t) \/ CommitLock(t) \/ CommitUnlock(t)
  \/ RequestCheckpoint(t) \/ InnodbQueues(t) \/ Requested(t)

Transaction(t) ==
  \/ Prepare(t) \/ LeaderLockLog(t) \/ LeaderSync(t) \/ NoRotate(t)
  \/ CommitOrdered(t) \/ CommitEngine(t) \/ Unlog(t)
  \/ \E u \in Trx : LeaderWrite(t, u)

MarkStep(t) == MarkLock(t) \/ MarkWrite(t)

(* Everybody is done, or there may be no further file, or no restart.      *)
Finished ==
  /\ \/ server = "aborted"
     \/ \A t \in Sessions :
          \/ pc[t] \in {"acked", "end", "gone"}
          \/ t \in Rotators /\ pc[t] = "rotate" /\ current_binlog_id = MaxFile
  /\ UNCHANGED vars

Next ==
  \/ \E t \in Trx : Transaction(t)
  \/ \E t \in Sessions : Session(t)
  \/ \E t \in Threads : Notifies(t)
  \/ \E t \in Markers : MarkStep(t)
  \/ BackgroundQueue \/ BackgroundMark \/ FlushRedo
  \/ Purge \/ Crash \/ Recover \/ RecoverAborts \/ Finished

Spec == Init /\ [][Next]_vars

(* The threads of the server run, and its redo log is flushed; nobody has  *)
(* to rotate, to purge or to crash.                                        *)
FairSpec ==
  /\ Spec
  /\ \A t \in Trx : WF_vars(Transaction(t))
  /\ \A t \in Sessions : WF_vars(Session(t))
  /\ \A t \in Threads : WF_vars(Notifies(t))
  /\ \A t \in Markers : WF_vars(MarkStep(t))
  /\ WF_vars(BackgroundQueue) /\ WF_vars(BackgroundMark) /\ WF_vars(FlushRedo)
  /\ WF_vars(Recover)
----------------------------------------------------------------------------
(* What recovery would find prepared, had the server crashed just now, and *)
(* what it would not lose from the log.                                    *)
InDoubt(t) == engine[t] \in {"prepared", "committed"} /\ ~ Durable(t)
Logged(t) == file[t] # NoFile /\ t \notin ToSet(unsynced)

(* "A binlog checkpoint event specifies a binlog file such that XA crash   *)
(* recovery can start from that file - and it is guaranteed to find all    *)
(* XIDs that are prepared in storage engines but not yet committed".  Its  *)
(* second half: a recovery that can start from the named file would find   *)
(* every transaction in doubt, whatever rotations, commits, requests,      *)
(* notifications and purges are under way.                                 *)
CheckpointFinds ==
  server # "aborted" /\ CanScan =>
    \A t \in Trx : InDoubt(t) /\ Logged(t) => t \in Scanned

(* Its first half, which does not always hold: while the server is up the  *)
(* named file is there, or somebody is in the middle of mark_xid_done().   *)
(* The event such a call writes names a file that is still there; until it *)
(* is on disk a purge may have taken the one named before.                 *)
CheckpointRenewed ==
  server = "up" /\ ~ CanScan => \E t \in Markers : mark[t] # "no"

(* A transaction that a client was told to be committed, or whose outcome  *)
(* a crash decided, is committed in its engine if and only if it is in the *)
(* binary log; the former are in both, for ever.                           *)
EngineMatchesBinlog ==
  server = "up" => \A t \in Trx :
    /\ pc[t] = "acked" => engine[t] = "committed" /\ file[t] # NoFile
    /\ pc[t] = "gone" => (engine[t] = "committed") = (file[t] # NoFile)

(* The reasons to keep the entry of f: transactions that will call         *)
(* unlog(), rotations that will give back their hold, requests not yet     *)
(* queued or notified, and notifications not yet counted down.             *)
Unlogging(f) ==
  {t \in NeedUnlog : /\ file[t] = f /\ t \notin ToSet(unsynced)
                     /\ pc[t] \notin {"acked", "gone"}}
Holding(f) ==
  {t \in Sessions : /\ binlog_id[t] = f
                    /\ \/ pc[t] = "open"
                       \/ check_purge[t] /\ pc[t] \in {"after", "order", "commit",
                            "request", "flush"}}
Asking(f) == {t \in Sessions : seen[t] # NoLsn /\ binlog_id[t] = f}
Asked(f) == {i \in DOMAIN log_requests : log_requests[i].cookie = f}
Notifying(f) ==
  UNION {{t} \X {i \in DOMAIN notifying[t] : notifying[t][i] = f} : t \in Threads}
Answers(f) ==
  LET yes(b) == IF b THEN 1 ELSE 0
  IN  Cardinality(Notifying(f))
      + yes(f \in Queued) + yes(f \in Reach(next_in_queue, bg.next))
      + notify_count[f] + (IF bg.entry = f THEN bg.times ELSE 0)

(* An entry's count is the number of reasons there are: no notification is *)
(* lost or counted twice on its way through InnoDB's list, the notifying   *)
(* threads and the background thread's queue, so that the count of a file  *)
(* reaches zero when, and not before, all is durable; and a file with a    *)
(* reason has an entry.                                                    *)
CountExact ==
  server = "up" => \A f \in Files :
    LET reasons == Cardinality(Unlogging(f)) + Cardinality(Holding(f))
                   + Cardinality(Asking(f)) + Cardinality(Asked(f)) + Answers(f)
    IN  /\ xid_count[f] = reasons
        /\ reasons > 0 => f \in ToSet(binlog_xid_count_list)

(* "we ensure that Binlog_checkpoint_events are logged in order": what     *)
(* recovery starts from never moves back, so that the last event is the    *)
(* one to take.                                                            *)
CheckpointsInOrder == [][checkpoint'[Max(index')] >= checkpoint[Max(index)]]_vars

(* Once rotated away from, a file is released: it leaves the list, so that *)
(* recovery does without it and it can be purged.                          *)
OldFilesReleased ==
  \A f \in Files :
    f # current_binlog_id /\ f \in ToSet(binlog_xid_count_list)
      ~> f \notin ToSet(binlog_xid_count_list) \/ server # "up"
=============================================================================
