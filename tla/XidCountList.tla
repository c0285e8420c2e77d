---------------------------- MODULE XidCountList ----------------------------
(***************************************************************************)
(* binlog_xid_count_list (sql/log.h, sql/log.cc): how many reasons there   *)
(* are, for each binary log file, to scan it in crash recovery.  A reason  *)
(* is a transaction that is not durable in its storage engine yet, a       *)
(* rotation whose commit checkpoint is not requested yet, or an engine     *)
(* that was asked for one and has not answered.  An operator is what one   *)
(* function does under LOCK_xid_list.  A file's number stands for its name *)
(* and for its binlog_id, which the server hands out in the same order.    *)
(***************************************************************************)
EXTENDS Naturals, Sequences, SequencesExt

CONSTANT MaxFile  \* bound: the files ever created

ASSUME MaxFileAssumption == MaxFile \in Nat \ {0}

Files == 1..MaxFile
NoFile == 0

VARIABLES
  current_binlog_id,
  binlog_xid_count_list,  \* the files that have an entry, the oldest first
  xid_count

listVars == <<current_binlog_id, binlog_xid_count_list, xid_count>>

(* The first binary log of a running server is open.                       *)
ListInit(f) ==
  /\ current_binlog_id = f
  /\ binlog_xid_count_list = <<f>>
  /\ xid_count = [g \in Files |-> 0]

(* A restarted server opens file f with an empty list.                     *)
ListRestarted(f) ==
  /\ current_binlog_id' = f
  /\ binlog_xid_count_list' = <<f>>
  /\ xid_count' = [g \in Files |-> 0]

ListTypeOK ==
  /\ current_binlog_id \in Files
  /\ binlog_xid_count_list \in Seq(Files)
  /\ binlog_xid_count_list # <<>>
  /\ xid_count \in [Files -> Nat]
----------------------------------------------------------------------------
(* mark_xids_active()                                                      *)
Activated(f, n) == xid_count' = [xid_count EXCEPT ![f] = @ + n]

(* The list without its leading entries that are in unused.                *)
WithoutLeading(list, unused) ==
  LET used == {i \in DOMAIN list : list[i] \notin unused}
  IN  IF used = {} THEN <<>>
      ELSE SubSeq(list, CHOOSE i \in used : \A j \in used : i <= j, Len(list))

(* open(): the file that recovery has to start from if it finds the new    *)
(* one to be the last: the first entry with a count.                       *)
InitialCheckpoint(count, new) ==
  LET pending == WithoutLeading(binlog_xid_count_list,
                                {f \in Files : count[f] = 0})
  IN  IF pending = <<>> THEN new ELSE Head(pending)

(* Mutant: the first entry goes whatever its count is.                      *)
LinkedEarly(new) ==
  /\ current_binlog_id' = new
  /\ binlog_xid_count_list' = Append(Tail(binlog_xid_count_list), new)
  /\ UNCHANGED xid_count

(* open(): the new file is created, synced and in the index, its entry is  *)
(* linked in; leading entries with no count go.                            *)
Linked(new) ==
  /\ current_binlog_id' = new
  /\ binlog_xid_count_list' =
       Append(WithoutLeading(binlog_xid_count_list,
                             {f \in Files : xid_count[f] = 0}), new)
  /\ UNCHANGED xid_count

(* mark_xid_done(): the first hold of LOCK_xid_list.                       *)
Decremented(f) == xid_count' = [xid_count EXCEPT ![f] = @ - 1]

(* Must the caller go on to write a checkpoint event?  (After Decremented.) *)
CheckpointDue(f) ==
  /\ f # current_binlog_id
  /\ xid_count[f] = 1
  /\ f = Head(binlog_xid_count_list)

(* mark_xid_done(): the second hold, now with LOCK_log.  The entry of the  *)
(* current file always stays; the head is what the event names.            *)
Trimmed ==
  /\ binlog_xid_count_list' =
       WithoutLeading(binlog_xid_count_list,
                      {f \in Files \ {current_binlog_id} : xid_count[f] = 0})
  /\ UNCHANGED <<current_binlog_id, xid_count>>
=============================================================================
