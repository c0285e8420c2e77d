--------------------------- MODULE CheckpointQueue ---------------------------
(***************************************************************************)
(* Commit checkpoints: the binary log asks the storage engines to make all *)
(* transactions of a rotated file durable (commit_checkpoint_request) and  *)
(* is told when that is so (commit_checkpoint_notify).                     *)
(*                                                                         *)
(* InnoDB (handler/ha_innodb.cc) queues the request with the position that *)
(* the redo log has to be flushed to; whoever flushes the log notifies the *)
(* requests at the head of that list.  Notifications go to a second queue, *)
(* linked through the entries of the xid count list, for the binary log's  *)
(* background thread (sql/log.cc).  A request, and its cookie, is named by *)
(* the file it is about.                                                   *)
(***************************************************************************)
EXTENDS XidCountList, FiniteSetsExt

CONSTANTS
  Trx,       \* transactions, each in a session of its own
  Rotators,  \* sessions that rotate the log
  Flusher    \* the thread that flushes the redo log every second

Sessions == Trx \cup Rotators
Threads == Sessions \cup {Flusher}

NoLsn == [none |-> TRUE]

VARIABLES
  lsn,            \* InnoDB: log_sys.get_lsn(), in commits
  flushed_lsn,    \* InnoDB: log_sys.get_flushed_lsn()
  log_requests,   \* InnoDB: requests to be notified, records [cookie, lsn]
  seen,           \* what a request has read of the two positions
  flush_notify,   \* the position a thread has flushed to and must announce
  notifying,      \* the detached requests a thread still has to notify
  binlog_background_thread_queue,  \* head of the queue, or NoFile
  next_in_queue,
  notify_count,
  bg              \* locals of the background thread

queueVars == <<binlog_background_thread_queue, next_in_queue, notify_count>>
redoVars == <<lsn, flushed_lsn>>
requestVars == <<log_requests, seen, flush_notify, notifying>>

Requests == [cookie : Files, lsn : Nat]
Idle == [entry |-> NoFile, next |-> NoFile, times |-> 0]

QueueInit ==
  /\ lsn = 0 /\ flushed_lsn = 0
  /\ log_requests = <<>>
  /\ seen = [t \in Threads |-> NoLsn]
  /\ flush_notify = [t \in Threads |-> NoLsn]
  /\ notifying = [t \in Threads |-> <<>>]
  /\ binlog_background_thread_queue = NoFile
  /\ next_in_queue = [f \in Files |-> NoFile]
  /\ notify_count = [f \in Files |-> 0]
  /\ bg = Idle

(* A crash forgets all of it; positions are counted from the restart.      *)
QueueForgotten ==
  /\ lsn' = 0 /\ flushed_lsn' = 0
  /\ log_requests' = <<>>
  /\ seen' = [t \in Threads |-> NoLsn]
  /\ flush_notify' = [t \in Threads |-> NoLsn]
  /\ notifying' = [t \in Threads |-> <<>>]
  /\ binlog_background_thread_queue' = NoFile
  /\ next_in_queue' = [f \in Files |-> NoFile]
  /\ notify_count' = [f \in Files |-> 0]
  /\ bg' = Idle

QueueTypeOK ==
  /\ lsn \in Nat /\ flushed_lsn \in 0..lsn
  /\ log_requests \in Seq(Requests)
  /\ seen \in [Threads -> [lsn : Nat, flushed : Nat] \cup {NoLsn}]
  /\ flush_notify \in [Threads -> [to : Nat] \cup {NoLsn}]
  /\ notifying \in [Threads -> Seq(Files)]
  /\ binlog_background_thread_queue \in Files \cup {NoFile}
  /\ next_in_queue \in [Files -> Files \cup {NoFile}]
  /\ notify_count \in [Files -> Nat]
  /\ bg \in [entry : Files \cup {NoFile}, next : Files \cup {NoFile}, times : Nat]

(* A thread inside log_write_up_to() or commit_checkpoint_request().       *)
Busy(t) == flush_notify[t] # NoLsn \/ notifying[t] # <<>>
----------------------------------------------------------------------------
(* log_flush_notify_and_unlock(): the requests at the head of the list     *)
(* that the position satisfies, in the list's order; a satisfied request   *)
(* behind an unsatisfied one stays.                                        *)
Satisfied(list, to) ==
  Max({0} \cup {i \in DOMAIN list : \A j \in 1..i : list[j].lsn <= to})

Detached(t, list, to, own) ==
  LET n == Satisfied(list, to)
  IN  /\ log_requests' = SubSeq(list, n + 1, Len(list))
      /\ notifying' = [notifying EXCEPT ![t] =
           [i \in 1..n |-> list[i].cookie] \o own]

(* Mutant: one commit too many is said to be durable.                       *)
FlushedByOneMore(t, to) ==
  /\ flushed_lsn' = to + 1
  /\ flush_notify' = [flush_notify EXCEPT ![t] = [to |-> to + 1]]

(* The redo log becomes durable up to its end, by log_write_up_to() of any *)
(* thread; the caller has yet to look for requests.                        *)
FlushedBy(t, to) ==
  /\ flushed_lsn' = to
  /\ flush_notify' = [flush_notify EXCEPT ![t] = [to |-> to]]

(* log_flush_notify()                                                      *)
FlushNotify(t) ==
  /\ flush_notify[t] # NoLsn
  /\ flush_notify' = [flush_notify EXCEPT ![t] = NoLsn]
  /\ Detached(t, log_requests, flush_notify[t].to, <<>>)
  /\ UNCHANGED <<seen, queueVars, redoVars, bg>>

(* innodb_log_flush_request(): the positions, read under the log's latch   *)
ReadLsn(t) == seen' = [seen EXCEPT ![t] = [lsn |-> lsn, flushed |-> flushed_lsn]]

(* Mutant: the flushed position is not read again.                          *)
QueueRequestStale(t, f) ==
  LET list == Append(log_requests, [cookie |-> f, lsn |-> seen[t].lsn])
  IN  /\ seen' = [seen EXCEPT ![t] = NoLsn]
      /\ IF seen[t].flushed >= seen[t].lsn
           THEN Detached(t, log_requests, seen[t].flushed, <<f>>)
           ELSE Detached(t, list, seen[t].flushed, <<>>)
      /\ UNCHANGED flush_notify

(* innodb_log_flush_request(): notify at once if all is durable, else add  *)
(* the request.  Only the first one of the list reads the flushed position *)
(* again.  Both ways notify whoever else is satisfied by now.              *)
QueueRequest(t, f) ==
  LET list == Append(log_requests, [cookie |-> f, lsn |-> seen[t].lsn])
  IN  /\ seen' = [seen EXCEPT ![t] = NoLsn]
      /\ IF seen[t].flushed >= seen[t].lsn
           THEN Detached(t, log_requests, seen[t].flushed, <<f>>)
           ELSE Detached(t, list,
                         IF log_requests = <<>> THEN flushed_lsn
                                                ELSE seen[t].flushed, <<>>)
      /\ UNCHANGED flush_notify
----------------------------------------------------------------------------
(* The entries that the links lead to from f: those in every set that has  *)
(* f and, with an entry, the one it links to.                              *)
Reach(link, f) ==
  {g \in Files : \A S \in SUBSET Files :
     /\ f \in S \cup {NoFile}
     /\ \A h \in S : link[h] \in S \cup {NoFile}
     => g \in S}

Queued == Reach(next_in_queue, binlog_background_thread_queue)

(* commit_checkpoint_notify()                                              *)
Notify(t) ==
  LET f == Head(notifying[t])
  IN  /\ flush_notify[t] = NoLsn
      /\ notifying[t] # <<>>
      /\ notifying' = [notifying EXCEPT ![t] = Tail(@)]
      /\ IF f \in Queued
           THEN /\ notify_count' = [notify_count EXCEPT ![f] = @ + 1]
                /\ UNCHANGED <<binlog_background_thread_queue, next_in_queue>>
           ELSE /\ next_in_queue' =
                     [next_in_queue EXCEPT ![f] = binlog_background_thread_queue]
                /\ binlog_background_thread_queue' = f
                /\ UNCHANGED notify_count
      /\ UNCHANGED <<log_requests, seen, flush_notify, redoVars, bg>>

(* binlog_background_thread(): take the whole queue ...                    *)
BackgroundGrab ==
  /\ bg = Idle
  /\ binlog_background_thread_queue # NoFile
  /\ bg' = [Idle EXCEPT !.next = binlog_background_thread_queue]
  /\ binlog_background_thread_queue' = NoFile
  /\ UNCHANGED <<next_in_queue, notify_count, requestVars, redoVars>>

(* ... and go from entry to entry.  The links are read without             *)
(* LOCK_binlog_background_thread.                                          *)
BackgroundNext ==
  /\ bg.times = 0 /\ bg.next # NoFile
  /\ bg' = [entry |-> bg.next, next |-> next_in_queue[bg.next],
            times |-> notify_count[bg.next] + 1]
  /\ notify_count' = [notify_count EXCEPT ![bg.next] = 0]
  /\ UNCHANGED <<binlog_background_thread_queue, next_in_queue, requestVars,
                 redoVars>>

(* One call of mark_xid_done() for the entry is made.                      *)
BackgroundMarked ==
  bg' = IF bg.times = 1 /\ bg.next = NoFile THEN Idle
        ELSE [bg EXCEPT !.times = @ - 1]
=============================================================================
