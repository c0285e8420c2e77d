----------------------------- MODULE DurableLog -----------------------------
(***************************************************************************)
(* What InnoDB's redo log promises its users: a log that grows; of which a *)
(* prefix has been written to the file and a shorter one is on disk; and   *)
(* requests, each answered at most once and not before the position it     *)
(* names has been written or, if it asked for that, is on disk.  Nothing   *)
(* is said about threads, locks, leaders or group commits.                 *)
(***************************************************************************)
EXTENDS Naturals

CONSTANT Requests  \* the requests with a completion callback

VARIABLES
  lsn,          \* the end of the log
  written,      \* the end of what is in the file
  disk,         \* the end of what a crash leaves
  acked,        \* the largest position a caller was told to be on disk
  want,         \* per request: the position it names, 0 before it is made
  wantDurable,  \* per request: must that position be on disk?
  done          \* per request: how often it has been answered

vars == <<lsn, written, disk, acked, want, wantDurable, done>>

Init ==
  /\ lsn = 0 /\ written = 0 /\ disk = 0 /\ acked = 0
  /\ want = [r \in Requests |-> 0]
  /\ wantDurable = [r \in Requests |-> FALSE]
  /\ done = [r \in Requests |-> 0]

Append ==
  /\ lsn' \in Nat /\ lsn' > lsn
  /\ UNCHANGED <<written, disk, acked, want, wantDurable, done>>

Write ==
  /\ written' \in written .. lsn
  /\ UNCHANGED <<lsn, disk, acked, want, wantDurable, done>>

Sync ==
  /\ disk' \in disk .. written
  /\ UNCHANGED <<lsn, written, acked, want, wantDurable, done>>

(* A caller that waits is told that all up to some position is on disk.    *)
Acknowledge ==
  /\ acked' \in acked .. disk
  /\ UNCHANGED <<lsn, written, disk, want, wantDurable, done>>

Ask ==
  /\ \E r \in Requests, n \in 1 .. lsn, d \in BOOLEAN :
       /\ want[r] = 0
       /\ want' = [want EXCEPT ![r] = n]
       /\ wantDurable' = [wantDurable EXCEPT ![r] = d]
  /\ UNCHANGED <<lsn, written, disk, acked, done>>

Reached(r) == want[r] \in 1 .. (IF wantDurable[r] THEN disk ELSE written)

(* Requests are answered together when a group commit is over, each of     *)
(* them once: a second answer would be a step the log does not have.       *)
Answer ==
  /\ \E R \in SUBSET {r \in Requests : Reached(r) /\ done[r] = 0} :
       done' = [r \in Requests |-> IF r \in R THEN 1 ELSE done[r]]
  /\ UNCHANGED <<lsn, written, disk, acked, want, wantDurable>>

Next == Append \/ Write \/ Sync \/ Acknowledge \/ Ask \/ Answer

Spec == Init /\ [][Next]_vars
=============================================================================
