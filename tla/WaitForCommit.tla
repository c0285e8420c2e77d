--------------------------- MODULE WaitForCommit ---------------------------
(***************************************************************************)
(* struct wait_for_commit (sql/sql_class.h, sql_class.cc): a transaction   *)
(* that must not commit before another one registers with it, waits, and   *)
(* is woken up, with an error if the other one failed.  Parallel           *)
(* replication keeps the commit order of the source with it; there is one  *)
(* object for each event group, named here by the group's sub_id.          *)
(*                                                                         *)
(* What a method does under LOCK_wait_commit is one step.  The walk of     *)
(* wakeup_subsequent_commits2() over the list it has detached takes one    *)
(* step for each waiter, as it gives up its own lock for it.               *)
(***************************************************************************)
EXTENDS Naturals, Sequences, FiniteSets, SequencesExt

CONSTANT Groups  \* event groups, by sub_id

\* The groups of a domain are numbered as they are scheduled: each one waits
\* for the one before it (rpl_group_info::wait_commit_sub_id).
ASSUME GroupsAssumption ==
  IsFiniteSet(Groups) /\ Groups = 1 .. Cardinality(Groups)

NoGroup == 0

VARIABLES
  waitee,                   \* whom a group waits for, or NoGroup
  subsequent_commits_list,  \* who waits for a group, the last to register first
  opaque_pointer,           \* is a waiter ready to be queued by its waitee?
  wakeup_error,             \* what the waitee reported
  wakeup_subsequent_commits_running,
  waking,                   \* the rest of the list that a wakeup still walks
  commit_started,           \* has the group entered the group commit queue?
  wakeup_blocked            \* temporary tables: no wakeup before the very end

wfcVars == <<waitee, subsequent_commits_list, opaque_pointer, wakeup_error,
             wakeup_subsequent_commits_running, waking, commit_started,
             wakeup_blocked>>

(* wait_for_commit::reinit()                                               *)
WfcInit ==
  /\ waitee = [g \in Groups |-> NoGroup]
  /\ subsequent_commits_list = [g \in Groups |-> <<>>]
  /\ opaque_pointer = [g \in Groups |-> FALSE]
  /\ wakeup_error = [g \in Groups |-> FALSE]
  /\ wakeup_subsequent_commits_running = [g \in Groups |-> FALSE]
  /\ waking = [g \in Groups |-> <<>>]
  /\ commit_started = [g \in Groups |-> FALSE]
  /\ wakeup_blocked = [g \in Groups |-> FALSE]

WfcTypeOK ==
  /\ waitee \in [Groups -> Groups \cup {NoGroup}]
  /\ subsequent_commits_list \in [Groups -> Seq(Groups)]
  /\ opaque_pointer \in [Groups -> BOOLEAN]
  /\ wakeup_error \in [Groups -> BOOLEAN]
  /\ wakeup_subsequent_commits_running \in [Groups -> BOOLEAN]
  /\ waking \in [Groups -> Seq(Groups)]
  /\ commit_started \in [Groups -> BOOLEAN]
  /\ wakeup_blocked \in [Groups -> BOOLEAN]
----------------------------------------------------------------------------
(* register_wait_for_prior_commit(): a waitee in the middle of its wakeup  *)
(* needs no waiting for.                                                   *)
RegisterWait(g, w) ==
  /\ wakeup_error' = [wakeup_error EXCEPT ![g] = FALSE]
  /\ IF wakeup_subsequent_commits_running[w]
     THEN UNCHANGED <<waitee, subsequent_commits_list>>
     ELSE /\ waitee' = [waitee EXCEPT ![g] = w]
          /\ subsequent_commits_list' =
               [subsequent_commits_list EXCEPT ![w] = <<g>> \o @]
  /\ UNCHANGED <<opaque_pointer, wakeup_subsequent_commits_running, waking,
                 commit_started, wakeup_blocked>>

(* Whether a killed waiter must ignore the kill: its waitee has already    *)
(* detached the list that the waiter is on.                                *)
BeingWoken(g) == wakeup_subsequent_commits_running[waitee[g]]

(* remove_from_list() in a waiter that gives up, which also clears waitee; *)
(* err is what the waiter leaves in its own wakeup_error.                  *)
LeaveList(g, err) ==
  /\ subsequent_commits_list' =
       [subsequent_commits_list EXCEPT ![waitee[g]] =
          RemoveFirst(@, g)]
  /\ waitee' = [waitee EXCEPT ![g] = NoGroup]
  /\ wakeup_error' = [wakeup_error EXCEPT ![g] = err]
  /\ opaque_pointer' = [opaque_pointer EXCEPT ![g] = FALSE]
  /\ UNCHANGED <<wakeup_subsequent_commits_running, waking, commit_started,
                 wakeup_blocked>>

(* unregister_wait_for_prior_commit(), which blocks while the waitee is    *)
(* waking g up.                                                            *)
Unregister(g) ==
  IF waitee[g] = NoGroup
  THEN /\ wakeup_error' = [wakeup_error EXCEPT ![g] = FALSE]
       /\ UNCHANGED <<waitee, subsequent_commits_list, opaque_pointer,
                      wakeup_subsequent_commits_running, waking,
                      commit_started, wakeup_blocked>>
  ELSE ~BeingWoken(g) /\ LeaveList(g, FALSE)

(* wakeup() of waiter g                                                    *)
Woken(g, err) ==
  /\ waitee' = [waitee EXCEPT ![g] = NoGroup]
  /\ wakeup_error' = [wakeup_error EXCEPT ![g] = err]

(* wakeup_subsequent_commits(), first part: does it have anything to do?   *)
(* Then detach the list.                                                   *)
NobodyToWake(g) == wakeup_blocked[g] \/ subsequent_commits_list[g] = <<>>

BeginWakeup(g) ==
  /\ ~NobodyToWake(g)
  /\ wakeup_subsequent_commits_running' =
       [wakeup_subsequent_commits_running EXCEPT ![g] = TRUE]
  /\ waking' = [waking EXCEPT ![g] = subsequent_commits_list[g]]
  /\ subsequent_commits_list' = [subsequent_commits_list EXCEPT ![g] = <<>>]
  /\ UNCHANGED <<waitee, opaque_pointer, wakeup_error, commit_started,
                 wakeup_blocked>>

(* Mutant: the walk does not go on to the next waiter.                     *)
WakeNextStays(g, err) ==
  /\ waking[g] # <<>>
  /\ Woken(Head(waking[g]), err)
  /\ UNCHANGED <<subsequent_commits_list, opaque_pointer, waking,
                 wakeup_subsequent_commits_running, commit_started,
                 wakeup_blocked>>

WakeNext(g, err) ==
  /\ waking[g] # <<>>
  /\ Woken(Head(waking[g]), err)
  /\ waking' = [waking EXCEPT ![g] = Tail(@)]
  /\ UNCHANGED <<subsequent_commits_list, opaque_pointer,
                 wakeup_subsequent_commits_running, commit_started,
                 wakeup_blocked>>

EndWakeup(g) ==
  /\ wakeup_subsequent_commits_running[g]
  /\ waking[g] = <<>>
  /\ wakeup_subsequent_commits_running' =
       [wakeup_subsequent_commits_running EXCEPT ![g] = FALSE]
  /\ UNCHANGED <<waitee, subsequent_commits_list, opaque_pointer,
                 wakeup_error, waking, commit_started, wakeup_blocked>>
=============================================================================
