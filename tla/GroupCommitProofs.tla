------------------------- MODULE GroupCommitProofs -------------------------
(***************************************************************************)
(* Theorems about GroupCommit, for any event groups, users, kills and      *)
(* failures.                                                               *)
(***************************************************************************)
EXTENDS GroupCommit, ListProofs

(* Those(list, S) has the elements of list that are in S, each once if     *)
(* list has them once.                                                     *)
LEMMA ThoseList ==
  ASSUME NEW U, NEW list \in Seq(U), NEW S, IsInjective(list)
  PROVE  /\ Those(list, S) \in Seq(U)
         /\ IsInjective(Those(list, S))
         /\ \A u : Contains(Those(list, S), u) <=>
                     Contains(list, u) /\ u \in S
<1> DEFINE Def(f, n) == f = [i \in 0 .. n |->
                               IF i = 0 THEN <<>>
                               ELSE IF list[i] \in S
                               THEN Append(f[i - 1], list[i]) ELSE f[i - 1]]
           I == {n \in Nat : \E f : Def(f, n)}
<1>1. 0 \in I
  <2>1. Def([i \in 0 .. 0 |-> <<>>], 0)
    OBVIOUS
  <2> QED BY <2>1
<1>2. ASSUME NEW n \in Nat, n \in I PROVE n + 1 \in I
  <2>1. PICK f : Def(f, n)
    BY <1>2
  <2> DEFINE g == [i \in 0 .. n + 1 |->
                     IF i <= n THEN f[i]
                     ELSE IF list[i] \in S
                     THEN Append(f[n], list[i]) ELSE f[n]]
  <2>2. ASSUME NEW i \in 0 .. n + 1
        PROVE  g[i] = IF i = 0 THEN <<>>
                      ELSE IF list[i] \in S
                      THEN Append(g[i - 1], list[i]) ELSE g[i - 1]
    <3>1. CASE i = 0
      BY <2>1, <3>1
    <3>2. CASE i > 0 /\ i <= n
      <4>1. i \in 0 .. n /\ i - 1 \in 0 .. n /\ i # 0
        BY <3>2
      <4>2. f[i] = IF list[i] \in S
                   THEN Append(f[i - 1], list[i]) ELSE f[i - 1]
        BY <2>1, <4>1
      <4>3. g[i] = f[i] /\ g[i - 1] = f[i - 1]
        BY <3>2, <4>1
      <4> QED BY <4>1, <4>2, <4>3
    <3>3. CASE i = n + 1
      <4>1. g[i - 1] = f[n] /\ i # 0
        BY <3>3
      <4> QED BY <3>3, <4>1
    <3> QED BY <3>1, <3>2, <3>3
  <2>3. Def(g, n + 1)
    <3> HIDE DEF g
    <3>1. g = [i \in 0 .. n + 1 |-> g[i]]
      BY DEF g
    <3> QED BY <2>2, <3>1
  <2> HIDE DEF g, Def
  <2> QED BY <2>3
<1>3. Len(list) \in I
  <2> HIDE DEF I
  <2> QED BY <1>1, <1>2, InductiveSet
<1> DEFINE f == CHOOSE g : Def(g, Len(list))
<1>4. Def(f, Len(list)) /\ Those(list, S) = f[Len(list)]
  BY <1>3, Zenon DEF Those
<1> HIDE DEF f
<1>5. /\ f[0] = <<>>
      /\ \A i \in 0 .. Len(list) : i # 0 =>
           f[i] = IF list[i] \in S
                  THEN Append(f[i - 1], list[i]) ELSE f[i - 1]
  <2> DEFINE h == [i \in 0 .. Len(list) |->
                     IF i = 0 THEN <<>>
                     ELSE IF list[i] \in S
                     THEN Append(f[i - 1], list[i]) ELSE f[i - 1]]
  <2>1. /\ h[0] = <<>>
        /\ \A i \in 0 .. Len(list) : i # 0 =>
             h[i] = IF list[i] \in S
                    THEN Append(f[i - 1], list[i]) ELSE f[i - 1]
    OBVIOUS
  <2>2. f = h
    BY <1>4
  <2> HIDE DEF h
  <2> QED BY <2>1, <2>2
<1> HIDE DEF Def
<1> DEFINE Has(i, u) == \E j \in 1 .. i : list[j] = u
           Good(i) == /\ f[i] \in Seq(U)
                      /\ IsInjective(f[i])
                      /\ \A u : Contains(f[i], u) <=> Has(i, u) /\ u \in S
           J == {n \in Nat : n <= Len(list) => Good(n)}
<1>6. 0 \in J
  <2>1. \A u : ~Has(0, u)
    OBVIOUS
  <2>2. f[0] \in Seq(U) /\ IsInjective(f[0]) /\ \A u : ~Contains(f[0], u)
    BY <1>5, EmptyList
  <2> QED BY <2>1, <2>2
<1>7. ASSUME NEW n \in Nat, n \in J PROVE n + 1 \in J
  <2> SUFFICES ASSUME n + 1 <= Len(list) PROVE Good(n + 1)
    OBVIOUS
  <2>1. Good(n) /\ n + 1 \in 0 .. Len(list) /\ n + 1 # 0 /\ (n + 1) - 1 = n
    BY <1>7
  <2>2. f[n + 1] = IF list[n + 1] \in S
                   THEN Append(f[n], list[n + 1]) ELSE f[n]
    BY <1>5, <2>1
  <2>3. list[n + 1] \in U /\ ~Has(n, list[n + 1])
    BY <2>1 DEF IsInjective
  <2>4. \A u : Has(n + 1, u) <=> Has(n, u) \/ u = list[n + 1]
    OBVIOUS
  <2> HIDE DEF Has
  <2>5. CASE list[n + 1] \in S
    <3>1. f[n + 1] = Append(f[n], list[n + 1])
      BY <2>2, <2>5
    <3>2. /\ f[n + 1] \in Seq(U)
          /\ \A u : Contains(f[n + 1], u) <=>
               u = list[n + 1] \/ Contains(f[n], u)
          /\ IsInjective(f[n]) /\ ~Contains(f[n], list[n + 1]) =>
               IsInjective(f[n + 1])
      BY <2>1, <2>3, <3>1, AppendList
    <3> QED BY <2>1, <2>3, <2>4, <2>5, <3>2
  <2>6. CASE list[n + 1] \notin S
    BY <2>1, <2>2, <2>4, <2>6
  <2> QED BY <2>5, <2>6
<1>8. Len(list) \in J
  <2> HIDE DEF J
  <2> QED BY <1>6, <1>7, InductiveSet
<1>9. Good(Len(list))
  BY <1>8
<1>10. \A u : Has(Len(list), u) <=> Contains(list, u)
  BY DEF Contains
<1> QED BY <1>4, <1>9, <1>10

(* Who is inside trx_group_commit_leader(), and who runs commit_ordered()  *)
(* itself.                                                                 *)
CommitStages == {"commit_entry", "waking", "wake_entry"}
LeaderStages == {"write", "written", "synced", "busy"} \cup CommitStages
OwnStages == {"own_commit", "own_waking", "own_signal"}

(* The stages of event groups only                                         *)
GroupStages == {"start", "skip", "interrupted", "retry", "retry_wait",
                "reapply", "ready", "wait_prior", "own_waking", "last_wait",
                "finish", "finish_register", "finish_wait", "finish_mark",
                "finish_wake", "finish_waking"}

(* Mutexes                                                                 *)
LocksInv ==
  /\ \A t \in Threads :
       /\ At(t, "enqueuing") <=> prepare_ordered = t
       /\ pc[t] \in {"collect", "write", "written"} <=> log_lock = t
       /\ At(t, "synced") <=> after_sync = t
       /\ pc[t] \in CommitStages => commit_ordered = t
       /\ commit_ordered = t => pc[t] \in CommitStages \cup {"own_commit"}
       /\ IF optimize THEN pc[t] \notin OwnStages \cup {"busy"}
                      ELSE pc[t] \notin CommitStages
       /\ pc[t] \in GroupStages => t \in Groups

(* A waiter that its waitee has put into the queue                         *)
TakenOver(g) == At(g, "wait_prior") /\ queued_by_other[g]
Taken == {g \in Groups : TakenOver(g)}

(* Lists of wait_for_commit, where T are the waiters that were taken over. *)
ListsInv(T) ==
  /\ \A w \in Groups :
       /\ IsInjective(subsequent_commits_list[w]) /\ IsInjective(waking[w])
       /\ waking[w] # <<>> => wakeup_subsequent_commits_running[w]
  /\ \A w, g \in Groups :
       /\ Contains(subsequent_commits_list[w], g) =>
            /\ waitee[g] = w
            /\ g \notin T
            /\ ~Contains(waking[w], g)
       /\ Contains(waking[w], g) => waitee[g] = w /\ g \notin T
       /\ waitee[g] = w /\ g \notin T =>
            \/ Contains(subsequent_commits_list[w], g)
            \/ Contains(waking[w], g)

(* Who executes wakeup_subsequent_commits2(), and who may register.        *)
WfcInv ==
  /\ ListsInv(Taken)
  /\ \A w \in Groups : wakeup_subsequent_commits_running[w] =>
       \/ pc[w] \in {"own_waking", "finish_waking"}
       \/ \E t \in Threads : At(t, "waking") /\ cur[t] = w
  /\ \A g \in Groups :
       /\ opaque_pointer[g] => At(g, "wait_prior")
       /\ pc[g] \in {"start", "retry", "finish_register"} =>
            waitee[g] = NoGroup

(* The group commit queue                                                  *)
Passive(x) ==
  \/ At(x, "wait_ready") /\ ~wakeup_ready[x]
  \/ TakenOver(x) /\ waitee[x] # NoGroup

InQueue(x) == Contains(queue, x) \/ \E t \in Threads : Contains(todo[t], x)

QueueInv ==
  /\ IsInjective(queue)
  /\ \A t \in Threads :
       /\ IsInjective(todo[t])
       /\ pc[t] \in {"queue", "ready", "enqueuing", "wait_ready"} =>
            ~queued_by_other[t]
       /\ queued_by_other[t] => t \in Groups
       /\ ~At(t, "enqueuing") => todo[t] = <<>>
       /\ At(t, "enqueuing") =>
            /\ ~wakeup_ready[t]
            /\ todo[t] # <<>>
            /\ IF is_leader[t] THEN queue = <<>> \/ Last(queue) = t
                               ELSE queue # <<>>
            /\ \/ todo[t] = <<t>> /\ ~Contains(queue, t)
               \/ ~Contains(todo[t], t) /\ Contains(queue, t)
       /\ pc[t] \in {"leader", "collect"} => queue # <<>> /\ Last(queue) = t
       /\ \A x \in Threads : Contains(todo[t], x) =>
            (x = t \/ Passive(x)) /\ ~Contains(queue, x)
  /\ \A x \in Threads : Contains(queue, x) =>
       pc[x] \in {"enqueuing", "leader", "collect"} \/ Passive(x)

(* The groups that have left the queue                                     *)
Called(x) ==
  /\ ~optimize
  /\ \/ At(x, "wait_ready") /\ wakeup_ready[x]
     \/ TakenOver(x) /\ waitee[x] = NoGroup
     \/ At(x, "enqueue") /\ queued_by_other[x]

Waits(x) == Passive(x) /\ ~InQueue(x)

Pending(x) ==
  \/ Waits(x)
  \/ Called(x)
  \/ pc[x] \in (LeaderStages \ CommitStages) \cup OwnStages
  \/ pc[x] \in CommitStages /\ cur[x] = x

ChainInv ==
  /\ \A x, y \in Threads : Pending(x) /\ next[x] = y => Waits(y)
  /\ \A x, y \in Threads :
       Pending(x) /\ Pending(y) /\ next[x] = next[y] /\ x # y =>
         next[x] = NoThread
  /\ \A t \in Threads :
       /\ pc[t] \in LeaderStages => cur[t] \in Threads
       /\ pc[t] \in {"written", "synced", "busy"} => cur[t] = t
       /\ At(t, "waking") => cur[t] \in Groups
       /\ pc[t] \in CommitStages =>
            \A y \in Threads : Pending(y) => next[y] # cur[t]
  /\ \A t, x \in Threads :
       pc[t] \in LeaderStages /\ cur[t] = x => x = t \/ Waits(x)

(* Who left the queue together: of[x] is the number of x's group.  Until   *)
(* its leader lets them go on, the others of a group wait.                 *)
GroupsInv(of, k) ==
  /\ \A x \in Threads : of[x] < k
  /\ \A x, y \in Threads : Pending(x) /\ next[x] = y => of[y] = of[x]
  /\ \A t \in Threads : pc[t] \in LeaderStages => of[cur[t]] = of[t]
  /\ \A t, u \in Threads :
       pc[t] \in LeaderStages /\ pc[u] \in LeaderStages /\ of[u] = of[t] =>
         u = t
  /\ \A t, x \in Threads :
       pc[t] \in LeaderStages /\ Pending(x) /\ of[x] = of[t] =>
         x = t \/ Waits(x)

(* Where the transactions of a group are in the binary log: idx[x] is the  *)
(* place of x, or where it would be if its write has failed, and 0 before. *)
End(idx, x) == IF error[x] THEN idx[x] ELSE idx[x] + 1

Written == Len(binlog) + 1
SyncedUpTo(idx) ==
  IF log_lock # NoThread /\ pc[log_lock] \in {"write", "written"}
                         /\ idx[log_lock] > 0
  THEN idx[log_lock] ELSE Written
CommittedUpTo(idx) ==
  IF after_sync # NoThread THEN idx[after_sync] ELSE SyncedUpTo(idx)
After(idx, t) ==
  IF At(t, "written") THEN Written
  ELSE IF At(t, "synced") THEN SyncedUpTo(idx) ELSE CommittedUpTo(idx)

OrderInv(idx, of) ==
  /\ \A x \in Threads : idx[x] <= Written
  /\ Len(engine) <= Len(binlog)
  /\ \A i \in 1 .. Len(engine) : engine[i] = binlog[i]
  /\ commit_ordered = NoThread => Len(engine) + 1 = CommittedUpTo(idx)
  /\ \A t, x \in Threads : commit_ordered = t /\ cur[t] = x =>
       Len(engine) + 1 = IF At(t, "commit_entry") THEN idx[x] ELSE End(idx, x)
  /\ \A x \in Threads : Pending(x) /\ idx[x] > 0 =>
       /\ ~error[x] => idx[x] <= Len(binlog) /\ binlog[idx[x]] = x
       /\ next[x] = NoThread =>
            \A t \in Threads : pc[t] \in LeaderStages /\ of[t] = of[x] =>
              ~At(t, "write") /\ End(idx, x) = After(idx, t)
  /\ \A x, y \in Threads : Pending(x) /\ next[x] = y =>
       /\ idx[x] = 0 => idx[y] = 0
       /\ idx[x] > 0 =>
            \/ idx[y] = End(idx, x)
            \/ /\ End(idx, x) = Written
               /\ \E t \in Threads : At(t, "write") /\ cur[t] = y
  /\ \A t \in Threads : At(t, "write") =>
       /\ idx[cur[t]] = 0
       /\ idx[t] = 0 <=> cur[t] = t
       /\ \A y \in Threads : Pending(y) /\ next[y] = cur[t] => idx[y] > 0
  /\ \A t \in Threads : pc[t] \in LeaderStages /\ ~At(t, "write") =>
       idx[cur[t]] > 0

OrderKept ==
  \E idx, of \in [Threads -> Nat], k \in Nat :
    GroupsInv(of, k) /\ (optimize => OrderInv(idx, of))

IInv ==
  /\ TypeOK /\ LocksInv /\ WfcInv /\ QueueInv /\ ChainInv /\ OrderKept

----------------------------------------------------------------------------
(* What the assumptions about the constants say.                           *)
LEMMA Basics ==
  /\ Groups \subseteq Nat \ {0} /\ Groups \subseteq Threads
  /\ Users \subseteq Threads
  /\ NoThread \notin Threads /\ NoGroup \notin Groups /\ NoGroup = 0
  /\ Never \in Nat /\ \A g \in Groups : g < Never
  /\ \A g \in Groups, n \in Nat : Prior(g) > n => Prior(g) \in Groups
  /\ MaxKills \in Nat /\ Scheduling \subseteq BOOLEAN
  /\ Killable \subseteq Groups
<1>1. Cardinality(Groups) \in Nat /\ Groups = 1 .. Cardinality(Groups)
  BY GroupsAssumption, FS_CardinalityType
<1> QED
  BY <1>1, GroupCommitAssumption DEF Threads, NoGroup, Never, Prior

(* The initial state                                                       *)
LEMMA InitInv == Init => IInv
<1> SUFFICES ASSUME Init PROVE IInv
  OBVIOUS
<1> USE Basics
<1>1. TypeOK
  <2>1. <<>> \in Seq(Threads) /\ <<>> \in Seq(Groups)
    BY EmptyList
  <2>2. WfcTypeOK
    BY <2>1 DEF Init, WfcInit, WfcTypeOK
  <2>3. pc \in [Threads -> Stages]
    BY DEF Init, Stages
  <2>4. RplTypeOK
    BY DEF Init, RplTypeOK
  <2>5. optimize \in BOOLEAN
    BY Zenon DEF Init
  <2>6. LockTypeOK
    BY <2>5 DEF Init, LockTypeOK
  <2>7. QueueTypeOK /\ EntryTypeOK /\ LogTypeOK
    BY <2>1 DEF Init, QueueTypeOK, EntryTypeOK, LogTypeOK
  <2> QED BY <2>2, <2>3, <2>4, <2>6, <2>7 DEF Init, TypeOK
<1>2. LocksInv
  <2>1. \A t \in Threads : /\ pc[t] = IF t \in Groups THEN "start" ELSE "apply"
                           /\ t # NoThread
    BY DEF Init
  <2> QED BY <2>1 DEF Init, LocksInv, At, CommitStages, OwnStages, GroupStages
<1>3. \A u : ~Contains(<<>>, u)
  BY EmptyList
<1>4. WfcInv
  BY <1>3, EmptyList DEF Init, WfcInit, WfcInv, ListsInv, At, NoGroup
<1>5. \A x \in Threads : ~Passive(x) /\ ~Called(x) /\ ~Pending(x)
  BY DEF Init, WfcInit, Passive, Called, Pending, Waits, TakenOver, At,
         LeaderStages, CommitStages, OwnStages
<1>6. QueueInv
  BY <1>3, <1>5, EmptyList DEF Init, QueueInv, At
<1>7. ChainInv
  BY <1>5 DEF Init, ChainInv, At, LeaderStages, CommitStages
<1>8. OrderKept
  <2> DEFINE zero == [x \in Threads |-> 0]
  <2>1. zero \in [Threads -> Nat] /\ 1 \in Nat
    OBVIOUS
  <2>2. OrderInv(zero, zero) /\ GroupsInv(zero, 1)
    BY <1>5 DEF Init, OrderInv, GroupsInv, Written, CommittedUpTo, SyncedUpTo, After,
                LeaderStages, CommitStages, At
  <2> QED BY <2>1, <2>2 DEF OrderKept
<1> QED BY <1>1, <1>2, <1>4, <1>6, <1>7, <1>8 DEF IInv

----------------------------------------------------------------------------
(* The methods of wait_for_commit keep the lists right.                    *)

(* register_wait_for_prior_commit()                                        *)
LEMMA RegisterLists ==
  ASSUME NEW T, NEW g \in Groups, NEW w \in Groups, WfcTypeOK, ListsInv(T),
         waitee[g] = NoGroup, g \notin T, RegisterWait(g, w)
  PROVE  WfcTypeOK' /\ ListsInv(T)'
<1> USE Basics
<1>1. CASE wakeup_subsequent_commits_running[w]
  BY <1>1 DEF RegisterWait, WfcTypeOK, ListsInv
<1>2. CASE ~wakeup_subsequent_commits_running[w]
  <2> DEFINE new == <<g>> \o subsequent_commits_list[w]
  <2>1. /\ waitee' = [waitee EXCEPT ![g] = w]
        /\ subsequent_commits_list' =
             [subsequent_commits_list EXCEPT ![w] = new]
        /\ waking' = waking
        /\ wakeup_subsequent_commits_running' =
             wakeup_subsequent_commits_running
        /\ wakeup_error' = [wakeup_error EXCEPT ![g] = FALSE]
        /\ UNCHANGED <<opaque_pointer, commit_started, wakeup_blocked>>
    BY <1>2 DEF RegisterWait
  <2>2. \A v \in Groups : /\ ~Contains(subsequent_commits_list[v], g)
                          /\ ~Contains(waking[v], g)
    <3>1. \A v \in Groups : waitee[g] # v
      OBVIOUS
    <3> QED BY <3>1 DEF ListsInv
  <2>3. /\ subsequent_commits_list[w] \in Seq(Groups) /\ waking[w] = <<>>
        /\ IsInjective(subsequent_commits_list[w])
    BY <1>2 DEF WfcTypeOK, ListsInv
  <2>4. /\ new \in Seq(Groups) /\ IsInjective(new)
        /\ \A u : Contains(new, u) <=>
                    u = g \/ Contains(subsequent_commits_list[w], u)
    BY <2>2, <2>3, PushList
  <2> HIDE DEF new
  <2>5. WfcTypeOK'
    BY <2>1, <2>4 DEF WfcTypeOK
  <2>6. ListsInv(T)'
    <3>1. \A v \in Groups : subsequent_commits_list'[v] =
            IF v = w THEN new ELSE subsequent_commits_list[v]
      BY <2>1 DEF WfcTypeOK
    <3>2. \A x \in Groups : waitee'[x] = IF x = g THEN w ELSE waitee[x]
      BY <2>1 DEF WfcTypeOK
    <3>3. \A v \in Groups : \A u :
            Contains(subsequent_commits_list'[v], u) <=>
              (v = w /\ u = g) \/ Contains(subsequent_commits_list[v], u)
      BY <2>4, <3>1
    <3>4. \A v \in Groups :
            /\ IsInjective(subsequent_commits_list'[v]) /\ IsInjective(waking'[v])
            /\ waking'[v] # <<>> => wakeup_subsequent_commits_running'[v]
      BY <2>1, <2>4, <3>1 DEF ListsInv
    <3>5. ASSUME NEW v \in Groups, NEW u \in Groups
          PROVE  /\ Contains(subsequent_commits_list'[v], u) =>
                      /\ waitee'[u] = v
                      /\ u \notin T
                      /\ ~Contains(waking'[v], u)
                 /\ Contains(waking'[v], u) => waitee'[u] = v /\ u \notin T
                 /\ waitee'[u] = v /\ u \notin T =>
                      \/ Contains(subsequent_commits_list'[v], u)
                      \/ Contains(waking'[v], u)
      <4>1. CASE u = g
        BY <2>1, <2>2, <3>2, <3>3, <4>1
      <4>2. CASE u # g
        <5>1. /\ Contains(subsequent_commits_list[v], u) =>
                   /\ waitee[u] = v
                   /\ u \notin T
                   /\ ~Contains(waking[v], u)
              /\ Contains(waking[v], u) => waitee[u] = v /\ u \notin T
              /\ waitee[u] = v /\ u \notin T =>
                   \/ Contains(subsequent_commits_list[v], u)
                   \/ Contains(waking[v], u)
          BY DEF ListsInv
        <5>2. waitee'[u] = waitee[u] /\ waking' = waking
          BY <2>1, <3>2, <4>2
        <5>3. Contains(subsequent_commits_list'[v], u) <=>
                Contains(subsequent_commits_list[v], u)
          BY <3>3, <4>2
        <5> QED BY <5>1, <5>2, <5>3
      <4> QED BY <4>1, <4>2
    <3> QED BY <3>4, <3>5 DEF ListsInv
  <2> QED BY <2>5, <2>6
<1> QED BY <1>1, <1>2

(* remove_from_list() in a waiter                                          *)
LEMMA LeaveLists ==
  ASSUME NEW T, NEW g \in Groups, NEW err \in BOOLEAN, WfcTypeOK,
         ListsInv(T), waitee[g] # NoGroup, ~BeingWoken(g), g \notin T,
         LeaveList(g, err)
  PROVE  WfcTypeOK' /\ ListsInv(T)'
<1> USE Basics
<1> DEFINE w == waitee[g]
           new == RemoveFirst(subsequent_commits_list[w], g)
<1>1. /\ waitee' = [waitee EXCEPT ![g] = NoGroup]
      /\ subsequent_commits_list' = [subsequent_commits_list EXCEPT ![w] = new]
      /\ waking' = waking
      /\ wakeup_subsequent_commits_running' =
           wakeup_subsequent_commits_running
      /\ wakeup_error' = [wakeup_error EXCEPT ![g] = err]
      /\ opaque_pointer' = [opaque_pointer EXCEPT ![g] = FALSE]
      /\ UNCHANGED <<commit_started, wakeup_blocked>>
  BY DEF LeaveList
<1>2. w \in Groups /\ subsequent_commits_list[w] \in Seq(Groups)
  BY DEF WfcTypeOK
<1>3. waking[w] = <<>> /\ IsInjective(subsequent_commits_list[w])
  BY <1>2 DEF BeingWoken, ListsInv
<1>4. /\ new \in Seq(Groups) /\ IsInjective(new)
      /\ \A u : Contains(new, u) <=>
                  Contains(subsequent_commits_list[w], u) /\ u # g
  BY <1>2, <1>3, RemoveList
<1> HIDE DEF new
<1>5. WfcTypeOK'
  BY <1>1, <1>2, <1>4 DEF WfcTypeOK
<1>6. \A v \in Groups : subsequent_commits_list'[v] =
        IF v = w THEN new ELSE subsequent_commits_list[v]
  BY <1>1, <1>2 DEF WfcTypeOK
<1>7. \A x \in Groups : waitee'[x] = IF x = g THEN NoGroup ELSE waitee[x]
  BY <1>1 DEF WfcTypeOK
<1>8. \A v \in Groups : Contains(subsequent_commits_list[v], g) => v = w
  BY DEF ListsInv
<1>9. \A v \in Groups : ~Contains(waking[v], g)
  <2>1. \A v \in Groups : Contains(waking[v], g) => v = w
    BY DEF ListsInv
  <2> QED BY <1>3, <2>1, EmptyList
<1>10. ListsInv(T)'
  BY <1>1, <1>2, <1>3, <1>4, <1>6, <1>7, <1>8, <1>9 DEF ListsInv
<1> QED BY <1>5, <1>10

(* unregister_wait_for_prior_commit()                                      *)
LEMMA UnregisterLists ==
  ASSUME NEW T, NEW g \in Groups, WfcTypeOK, ListsInv(T), g \notin T,
         Unregister(g)
  PROVE  WfcTypeOK' /\ ListsInv(T)' /\ waitee'[g] = NoGroup
<1>1. CASE waitee[g] = NoGroup
  <2>1. /\ wakeup_error' = [wakeup_error EXCEPT ![g] = FALSE]
        /\ UNCHANGED <<waitee, subsequent_commits_list, opaque_pointer,
                       wakeup_subsequent_commits_running, waking,
                       commit_started, wakeup_blocked>>
    BY <1>1 DEF Unregister
  <2>2. WfcTypeOK'
    BY <2>1 DEF WfcTypeOK
  <2>3. ListsInv(T)'
    BY <2>1 DEF ListsInv
  <2> QED BY <1>1, <2>1, <2>2, <2>3
<1>2. CASE waitee[g] # NoGroup
  <2>1. ~BeingWoken(g) /\ LeaveList(g, FALSE)
    BY <1>2 DEF Unregister
  <2>2. WfcTypeOK' /\ ListsInv(T)'
    BY <1>2, <2>1, LeaveLists
  <2>3. waitee' = [waitee EXCEPT ![g] = NoGroup]
    BY <2>1 DEF LeaveList
  <2>4. waitee'[g] = NoGroup
    BY <2>3 DEF WfcTypeOK
  <2> QED BY <2>2, <2>4
<1> QED BY <1>1, <1>2

(* wakeup_subsequent_commits2() detaches the list.                         *)
LEMMA BeginLists ==
  ASSUME NEW T, NEW w \in Groups, WfcTypeOK, ListsInv(T),
         ~wakeup_subsequent_commits_running[w], BeginWakeup(w)
  PROVE  WfcTypeOK' /\ ListsInv(T)'
<1>1. /\ waking' = [waking EXCEPT ![w] = subsequent_commits_list[w]]
      /\ subsequent_commits_list' = [subsequent_commits_list EXCEPT ![w] = <<>>]
      /\ wakeup_subsequent_commits_running' =
           [wakeup_subsequent_commits_running EXCEPT ![w] = TRUE]
      /\ UNCHANGED <<waitee, opaque_pointer, wakeup_error, commit_started,
                     wakeup_blocked>>
  BY DEF BeginWakeup
<1>2. /\ waking[w] = <<>> /\ <<>> \in Seq(Groups) /\ IsInjective(<<>>)
      /\ \A u : ~Contains(<<>>, u)
  BY EmptyList DEF ListsInv
<1>3. WfcTypeOK'
  BY <1>1, <1>2 DEF WfcTypeOK
<1>4. \A v \in Groups :
        /\ subsequent_commits_list'[v] =
             IF v = w THEN <<>> ELSE subsequent_commits_list[v]
        /\ waking'[v] = IF v = w THEN subsequent_commits_list[v] ELSE waking[v]
        /\ wakeup_subsequent_commits_running'[v] =
             IF v = w THEN TRUE ELSE wakeup_subsequent_commits_running[v]
  BY <1>1 DEF WfcTypeOK
<1>5. \A v \in Groups :
        /\ IsInjective(subsequent_commits_list'[v]) /\ IsInjective(waking'[v])
        /\ waking'[v] # <<>> => wakeup_subsequent_commits_running'[v]
  <2>1. \A v \in Groups :
          /\ IsInjective(subsequent_commits_list[v]) /\ IsInjective(waking[v])
          /\ waking[v] # <<>> => wakeup_subsequent_commits_running[v]
    BY DEF ListsInv
  <2> QED BY <1>2, <1>4, <2>1
<1>6. \A v \in Groups : \A u :
        /\ Contains(subsequent_commits_list'[v], u) <=>
             v # w /\ Contains(subsequent_commits_list[v], u)
        /\ Contains(waking'[v], u) <=>
             IF v = w THEN Contains(subsequent_commits_list[v], u)
             ELSE Contains(waking[v], u)
        /\ ~Contains(waking[w], u)
  BY <1>2, <1>4
<1>7. ListsInv(T)'
  BY <1>1, <1>5, <1>6 DEF ListsInv
<1> QED BY <1>3, <1>7

(* One round of its walk                                                   *)
LEMMA WakeLists ==
  ASSUME NEW T, NEW w \in Groups, NEW err \in BOOLEAN, WfcTypeOK,
         ListsInv(T), WakeNext(w, err)
  PROVE  /\ WfcTypeOK' /\ ListsInv(T)'
         /\ \A x \in T : waitee'[x] = waitee[x]
<1> USE Basics
<1> DEFINE g == Head(waking[w])
<1>1. /\ waking[w] # <<>>
      /\ waitee' = [waitee EXCEPT ![g] = NoGroup]
      /\ wakeup_error' = [wakeup_error EXCEPT ![g] = err]
      /\ waking' = [waking EXCEPT ![w] = Tail(waking[w])]
      /\ UNCHANGED <<subsequent_commits_list, opaque_pointer,
                     wakeup_subsequent_commits_running, commit_started,
                     wakeup_blocked>>
  BY DEF WakeNext, Woken
<1>2. waking[w] \in Seq(Groups) /\ IsInjective(waking[w])
  BY DEF WfcTypeOK, ListsInv
<1>3. /\ Tail(waking[w]) \in Seq(Groups) /\ g \in Groups
      /\ IsInjective(Tail(waking[w]))
      /\ \A u : Contains(Tail(waking[w]), u) <=>
                  Contains(waking[w], u) /\ u # g
      /\ Contains(waking[w], g)
  BY <1>1, <1>2, TailList
<1> HIDE DEF g
<1>4. WfcTypeOK'
  BY <1>1, <1>3 DEF WfcTypeOK
<1>5. \A v \in Groups : waking'[v] = IF v = w THEN Tail(waking[w]) ELSE waking[v]
  BY <1>1 DEF WfcTypeOK
<1>6. \A x \in Groups : waitee'[x] = IF x = g THEN NoGroup ELSE waitee[x]
  BY <1>1, <1>3 DEF WfcTypeOK
<1>7. waitee[g] = w /\ g \notin T
  BY <1>3 DEF ListsInv
<1>8. \A v \in Groups : /\ Contains(subsequent_commits_list[v], g) => FALSE
                        /\ Contains(waking[v], g) => v = w
  BY <1>3, <1>7 DEF ListsInv
<1>9. wakeup_subsequent_commits_running[w]
  BY <1>1 DEF ListsInv
<1>10. ListsInv(T)'
  <2>1. \A v \in Groups : \A u : Contains(waking'[v], u) <=>
          Contains(waking[v], u) /\ ~(v = w /\ u = g)
    BY <1>3, <1>5
  <2>2. \A v \in Groups :
          /\ IsInjective(subsequent_commits_list'[v]) /\ IsInjective(waking'[v])
          /\ waking'[v] # <<>> => wakeup_subsequent_commits_running'[v]
    BY <1>1, <1>3, <1>5, <1>9 DEF ListsInv
  <2>3. ASSUME NEW v \in Groups, NEW u \in Groups
        PROVE  /\ Contains(subsequent_commits_list'[v], u) =>
                    /\ waitee'[u] = v
                    /\ u \notin T
                    /\ ~Contains(waking'[v], u)
               /\ Contains(waking'[v], u) => waitee'[u] = v /\ u \notin T
               /\ waitee'[u] = v /\ u \notin T =>
                    \/ Contains(subsequent_commits_list'[v], u)
                    \/ Contains(waking'[v], u)
    <3>1. CASE u = g
      BY <1>1, <1>6, <1>8, <2>1, <3>1
    <3>2. CASE u # g
      <4>1. /\ Contains(subsequent_commits_list[v], u) =>
                 /\ waitee[u] = v
                 /\ u \notin T
                 /\ ~Contains(waking[v], u)
            /\ Contains(waking[v], u) => waitee[u] = v /\ u \notin T
            /\ waitee[u] = v /\ u \notin T =>
                 \/ Contains(subsequent_commits_list[v], u)
                 \/ Contains(waking[v], u)
        BY DEF ListsInv
      <4>2. /\ waitee'[u] = waitee[u]
            /\ subsequent_commits_list' = subsequent_commits_list
        BY <1>1, <1>6, <3>2
      <4>3. Contains(waking'[v], u) <=> Contains(waking[v], u)
        BY <2>1, <3>2
      <4> QED BY <4>1, <4>2, <4>3
    <3> QED BY <3>1, <3>2
  <2> QED BY <2>2, <2>3 DEF ListsInv
<1>11. \A x \in T : waitee'[x] = waitee[x]
  BY <1>1, <1>3, <1>7 DEF WfcTypeOK
<1> QED BY <1>4, <1>10, <1>11

(* The end of wakeup_subsequent_commits2() keeps the lists right.          *)
LEMMA EndLists ==
  ASSUME NEW T, NEW w \in Groups, WfcTypeOK, ListsInv(T), EndWakeup(w)
  PROVE  WfcTypeOK' /\ ListsInv(T)'
<1>1. WfcTypeOK'
  BY DEF EndWakeup, WfcTypeOK
<1>2. \A v \in Groups : wakeup_subsequent_commits_running'[v] =
        IF v = w THEN FALSE ELSE wakeup_subsequent_commits_running[v]
  BY DEF EndWakeup, WfcTypeOK
<1>3. ListsInv(T)'
  BY <1>2 DEF EndWakeup, ListsInv
<1> QED BY <1>1, <1>3

(* wakeup() of a waiter that was taken over: it is in no list.             *)
LEMMA WokenLists ==
  ASSUME NEW T, NEW g \in T, NEW err \in BOOLEAN, T \subseteq Groups,
         WfcTypeOK, ListsInv(T), Woken(g, err),
         UNCHANGED <<subsequent_commits_list, opaque_pointer,
                     wakeup_subsequent_commits_running, waking,
                     commit_started, wakeup_blocked>>
  PROVE  WfcTypeOK' /\ ListsInv(T)'
<1> USE Basics
<1>1. /\ waitee' = [waitee EXCEPT ![g] = NoGroup]
      /\ wakeup_error' = [wakeup_error EXCEPT ![g] = err]
  BY DEF Woken
<1>2. WfcTypeOK'
  BY <1>1 DEF WfcTypeOK
<1>3. \A x \in Groups : waitee'[x] = IF x = g THEN NoGroup ELSE waitee[x]
  BY <1>1 DEF WfcTypeOK
<1>4. ListsInv(T)'
  BY <1>1, <1>3 DEF ListsInv
<1> QED BY <1>2, <1>4

----------------------------------------------------------------------------
(* Steps that leave the groups alone.                                      *)

(* Outside of the queue and of the group commit                            *)
ApartStages == {"start", "skip", "apply", "failed", "interrupted", "retry",
                "retry_wait", "reapply", "queue", "ready", "returned",
                "last_wait", "commit", "finish", "finish_register",
                "finish_wait", "finish_mark", "finish_wake",
                "finish_waking", "done"}

Apart(t) ==
  \/ pc[t] \in ApartStages
  \/ pc[t] \in {"wait_prior", "enqueue"} /\ ~queued_by_other[t]

QuietStep(t) ==
  /\ pc' \in [Threads -> Stages] /\ queued_by_other' \in [Threads -> BOOLEAN]
  /\ \A x \in Threads \ {t} : /\ pc'[x] = pc[x]
                              /\ queued_by_other'[x] = queued_by_other[x]
                              /\ error'[x] = error[x]
  /\ UNCHANGED <<prepare_ordered, log_lock, after_sync, commit_ordered,
                 optimize, queue, todo, is_leader, next, cur, wakeup_ready,
                 binlog, engine>>
  /\ \A g \in Taken : waitee'[g] = waitee[g]
  /\ Apart(t) /\ Apart(t)'
  /\ queued_by_other'[t] => queued_by_other[t]
  /\ pc'[t] \in {"queue", "ready"} => ~queued_by_other'[t]
  /\ pc'[t] \in GroupStages => t \in Groups

(* The links of the groups depend on who is in them only.                  *)
LEMMA ChainFrame ==
  ASSUME TypeOK, ChainInv, UNCHANGED <<next, cur>>,
         \A x \in Threads : /\ Waits(x)' <=> Waits(x)
                            /\ Pending(x)' <=> Pending(x),
         \A x \in Threads : \/ pc'[x] = pc[x]
                            \/ {pc[x], pc'[x]} \cap LeaderStages = {}
  PROVE  ChainInv'
<1>1. \A x \in Threads : pc'[x] \in LeaderStages => pc'[x] = pc[x]
  OBVIOUS
<1>2. \A x, y \in Threads : Pending(x)' /\ next'[x] = y => Waits(y)'
  BY DEF ChainInv
<1>3. \A x, y \in Threads :
        Pending(x)' /\ Pending(y)' /\ next'[x] = next'[y] /\ x # y =>
          next'[x] = NoThread
  BY DEF ChainInv
<1>4. ASSUME NEW t \in Threads
      PROVE  /\ pc'[t] \in LeaderStages => cur'[t] \in Threads
             /\ pc'[t] \in {"written", "synced", "busy"} => cur'[t] = t
             /\ At(t, "waking")' => cur'[t] \in Groups
             /\ pc'[t] \in CommitStages =>
                  \A y \in Threads : Pending(y)' => next'[y] # cur'[t]
  BY <1>1 DEF ChainInv, At, LeaderStages, CommitStages
<1>5. \A t, x \in Threads :
        pc'[t] \in LeaderStages /\ cur'[t] = x => x = t \/ Waits(x)'
  BY <1>1 DEF ChainInv
<1> QED BY <1>2, <1>3, <1>4, <1>5 DEF ChainInv

(* Such steps keep the numbering of the groups that have left the queue.   *)
LEMMA GroupsFrame ==
  ASSUME UNCHANGED <<next, cur>>,
         \A x \in Threads : /\ Waits(x)' <=> Waits(x)
                            /\ Pending(x)' <=> Pending(x),
         \A x \in Threads : pc'[x] \in LeaderStages <=> pc[x] \in LeaderStages,
         NEW of, NEW k, GroupsInv(of, k)
  PROVE  GroupsInv(of, k)'
BY DEF GroupsInv

(* So does the place of their transactions in the binary log.              *)
LEMMA OrderSame ==
  ASSUME UNCHANGED <<commit_ordered, next, cur, binlog, engine>>,
         \A x \in Threads : /\ Pending(x)' <=> Pending(x)
                            /\ Pending(x) => error'[x] = error[x],
         \A x \in Threads :
           /\ pc'[x] \in LeaderStages <=> pc[x] \in LeaderStages
           /\ At(x, "write")' <=> At(x, "write"),
         \A t, x \in Threads : commit_ordered = t /\ cur[t] = x =>
           /\ At(t, "commit_entry")' <=> At(t, "commit_entry")
           /\ error'[x] = error[x],
         NEW idx, NEW of, OrderInv(idx, of),
         CommittedUpTo(idx)' = CommittedUpTo(idx),
         \A t \in Threads : pc[t] \in LeaderStages =>
                              After(idx, t)' = After(idx, t)
  PROVE  OrderInv(idx, of)'
<1> HIDE DEF Pending, At
<1>1. Written' = Written
  BY DEF Written
<1>2. \A x \in Threads : Pending(x) => End(idx, x)' = End(idx, x)
  BY DEF End
<1>3. /\ \A x \in Threads : idx[x] <= Written'
      /\ Len(engine') <= Len(binlog')
      /\ \A i \in 1 .. Len(engine') : engine'[i] = binlog'[i]
  BY <1>1 DEF OrderInv
<1>4. commit_ordered' = NoThread => Len(engine') + 1 = CommittedUpTo(idx)'
  BY DEF OrderInv
<1>5. ASSUME NEW t \in Threads, NEW x \in Threads,
             commit_ordered' = t, cur'[t] = x
      PROVE  Len(engine') + 1 =
               IF At(t, "commit_entry")' THEN idx[x] ELSE End(idx, x)'
  BY <1>5 DEF OrderInv, End
<1>6. ASSUME NEW x \in Threads, Pending(x), idx[x] > 0
      PROVE  /\ ~error'[x] => idx[x] <= Len(binlog') /\ binlog'[idx[x]] = x
             /\ next'[x] = NoThread =>
                  \A t \in Threads :
                    pc'[t] \in LeaderStages /\ of[t] = of[x] =>
                      ~At(t, "write")' /\ End(idx, x)' = After(idx, t)'
  BY <1>2, <1>6 DEF OrderInv
<1>7. ASSUME NEW x \in Threads, NEW y \in Threads, Pending(x), next'[x] = y
      PROVE  /\ idx[x] = 0 => idx[y] = 0
             /\ idx[x] > 0 =>
                  \/ idx[y] = End(idx, x)'
                  \/ /\ End(idx, x)' = Written'
                     /\ \E t \in Threads : At(t, "write")' /\ cur'[t] = y
  BY <1>1, <1>2, <1>7 DEF OrderInv
<1>8. \A t \in Threads : At(t, "write")' =>
        /\ idx[cur'[t]] = 0
        /\ idx[t] = 0 <=> cur'[t] = t
        /\ \A y \in Threads : Pending(y)' /\ next'[y] = cur'[t] => idx[y] > 0
  BY DEF OrderInv
<1>9. \A t \in Threads : pc'[t] \in LeaderStages /\ ~At(t, "write")' =>
        idx[cur'[t]] > 0
  BY DEF OrderInv
<1> QED BY <1>3, <1>4, <1>5, <1>6, <1>7, <1>8, <1>9 DEF OrderInv

(* So a step that keeps the chains, the logs and who is inside the group   *)
(* commit keeps some labelling with both.                                  *)
LEMMA OrderFrame ==
  ASSUME TypeOK, LocksInv, ChainInv, OrderKept,
         UNCHANGED <<optimize, after_sync, commit_ordered, next, cur, binlog,
                     engine>>,
         \/ UNCHANGED log_lock
         \/ log_lock = NoThread /\ pc'[log_lock'] \notin {"write", "written"},
         \A x \in Threads : /\ Waits(x)' <=> Waits(x)
                            /\ Pending(x)' <=> Pending(x)
                            /\ Pending(x) => error'[x] = error[x],
         \A x \in Threads : \/ pc'[x] = pc[x]
                            \/ {pc[x], pc'[x]} \cap LeaderStages = {}
  PROVE  OrderKept'
<1> HIDE DEF Pending
<1>1. PICK idx \in [Threads -> Nat], of \in [Threads -> Nat], k \in Nat :
        GroupsInv(of, k) /\ (optimize => OrderInv(idx, of))
  BY DEF OrderKept
<1>2. \A x \in Threads :
        /\ pc'[x] \in LeaderStages \/ pc[x] \in LeaderStages => pc'[x] = pc[x]
        /\ pc'[x] \in LeaderStages <=> pc[x] \in LeaderStages
  OBVIOUS
<1>3. GroupsInv(of, k)'
  BY <1>1, <1>2, GroupsFrame
<1>4. ASSUME optimize PROVE OrderInv(idx, of)'
  <2>1. OrderInv(idx, of)
    BY <1>1, <1>4
  <2>2. \A t, x \in Threads : commit_ordered = t /\ cur[t] = x =>
          /\ At(t, "commit_entry")' <=> At(t, "commit_entry")
          /\ error'[x] = error[x]
    <3> SUFFICES ASSUME NEW t \in Threads, NEW x \in Threads,
                        commit_ordered = t, cur[t] = x
                 PROVE  pc'[t] = pc[t] /\ Pending(x)
      BY DEF At
    <3>1. pc[t] \in CommitStages /\ pc[t] \in LeaderStages
      BY <1>4 DEF LocksInv, OwnStages, LeaderStages
    <3>2. x = t \/ Waits(x)
      BY <3>1 DEF ChainInv
    <3> QED BY <1>2, <3>1, <3>2 DEF Pending
  <2>3. log_lock # NoThread =>
          /\ log_lock' = log_lock
          /\ pc'[log_lock] \in {"write", "written"} <=>
               pc[log_lock] \in {"write", "written"}
    BY <1>2 DEF TypeOK, LockTypeOK, LeaderStages
  <2>4. /\ Written' = Written /\ SyncedUpTo(idx)' = SyncedUpTo(idx)
        /\ CommittedUpTo(idx)' = CommittedUpTo(idx)
    BY <2>3 DEF Written, SyncedUpTo, CommittedUpTo
  <2>5. \A t \in Threads : pc[t] \in LeaderStages =>
                             After(idx, t)' = After(idx, t)
    BY <1>2, <2>4 DEF After, At
  <2>6. \A t \in Threads : At(t, "write")' <=> At(t, "write")
    BY <1>2 DEF At, LeaderStages
  <2> QED BY <1>2, <2>1, <2>2, <2>4, <2>5, <2>6, OrderSame
<1> QED BY <1>1, <1>3, <1>4 DEF OrderKept

(* A step of a thread that is apart leaves queue and groups as they are.   *)
LEMMA QuietLemma ==
  ASSUME IInv, NEW t \in Threads, QuietStep(t)
  PROVE  /\ LocksInv' /\ QueueInv' /\ ChainInv'
         /\ OrderKept'
         /\ Taken' = Taken
<1> USE Basics
<1>1. /\ TypeOK /\ LocksInv /\ QueueInv /\ ChainInv
      /\ pc \in [Threads -> Stages] /\ queued_by_other \in [Threads -> BOOLEAN]
  BY DEF IInv, TypeOK, QueueTypeOK
<1>2. /\ \A x \in Threads \ {t} : /\ pc'[x] = pc[x]
                                  /\ queued_by_other'[x] = queued_by_other[x]
                                  /\ error'[x] = error[x]
      /\ UNCHANGED <<prepare_ordered, log_lock, after_sync, commit_ordered,
                     optimize, queue, todo, is_leader, next, cur,
                     wakeup_ready, binlog, engine>>
      /\ Apart(t) /\ Apart(t)'
      /\ pc'[t] \in {"queue", "ready"} => ~queued_by_other'[t]
      /\ queued_by_other'[t] => queued_by_other[t]
      /\ pc'[t] \in GroupStages => t \in Groups
  BY DEF QuietStep
<1>3. /\ pc[t] \notin {"enqueuing", "wait_ready", "leader", "collect"}
      /\ pc[t] \notin LeaderStages \cup OwnStages
      /\ ~TakenOver(t)
      /\ ~(At(t, "enqueue") /\ queued_by_other[t])
  BY <1>2 DEF Apart, ApartStages, TakenOver, At, LeaderStages, CommitStages,
              OwnStages
<1>4. /\ pc'[t] \notin {"enqueuing", "wait_ready", "leader", "collect"}
      /\ pc'[t] \notin LeaderStages \cup OwnStages
      /\ ~TakenOver(t)'
      /\ ~(At(t, "enqueue") /\ queued_by_other[t])'
  BY <1>2 DEF Apart, ApartStages, TakenOver, At, LeaderStages, CommitStages,
              OwnStages
<1>5. \A x \in Threads : TakenOver(x)' <=> TakenOver(x)
  BY <1>2, <1>3, <1>4 DEF TakenOver, At
<1>6. Taken' = Taken
  BY <1>5 DEF Taken
<1>7. \A x \in Threads : TakenOver(x) => x \in Taken /\ waitee'[x] = waitee[x]
  BY <1>1 DEF TakenOver, At, LocksInv, GroupStages, Taken, QuietStep
<1>8. \A x \in Threads : Passive(x)' <=> Passive(x)
  BY <1>2, <1>3, <1>4, <1>5, <1>7 DEF Passive, At
<1>9. \A x \in Threads : Waits(x)' <=> Waits(x)
  BY <1>2, <1>8 DEF Waits, InQueue
<1>10. \A x \in Threads : Called(x)' <=> Called(x)
  BY <1>2, <1>3, <1>4, <1>5, <1>7 DEF Called, At
<1>11. \A x \in Threads : Pending(x)' <=> Pending(x)
  BY <1>2, <1>3, <1>4, <1>9, <1>10 DEF Pending, LeaderStages
<1>12. LocksInv'
  BY <1>1, <1>2, <1>3, <1>4 DEF LocksInv, At, LeaderStages, CommitStages,
                                OwnStages
<1>13. QueueInv'
  <2>1. IsInjective(queue')
    BY <1>1, <1>2 DEF QueueInv
  <2>2. ASSUME NEW x \in Threads
        PROVE  /\ IsInjective(todo'[x])
               /\ pc'[x] \in {"queue", "ready", "enqueuing", "wait_ready"} =>
                    ~queued_by_other'[x]
               /\ queued_by_other'[x] => x \in Groups
               /\ ~At(x, "enqueuing")' => todo'[x] = <<>>
               /\ At(x, "enqueuing")' =>
                    /\ ~wakeup_ready'[x]
                    /\ todo'[x] # <<>>
                    /\ IF is_leader'[x] THEN queue' = <<>> \/ Last(queue') = x
                                        ELSE queue' # <<>>
                    /\ \/ todo'[x] = <<x>> /\ ~Contains(queue', x)
                       \/ ~Contains(todo'[x], x) /\ Contains(queue', x)
               /\ pc'[x] \in {"leader", "collect"} =>
                    queue' # <<>> /\ Last(queue') = x
    BY <1>1, <1>2, <1>3, <1>4 DEF QueueInv, At
  <2>3. \A x, y \in Threads : Contains(todo'[x], y) =>
          (y = x \/ Passive(y)') /\ ~Contains(queue', y)
    BY <1>1, <1>2, <1>8 DEF QueueInv
  <2>4. \A x \in Threads : Contains(queue', x) =>
          pc'[x] \in {"enqueuing", "leader", "collect"} \/ Passive(x)'
    BY <1>1, <1>2, <1>3, <1>8 DEF QueueInv
  <2> QED BY <2>1, <2>2, <2>3, <2>4 DEF QueueInv
<1>14. \A x \in Threads : \/ pc'[x] = pc[x]
                          \/ {pc[x], pc'[x]} \cap LeaderStages = {}
  BY <1>2, <1>3, <1>4
<1>15. ChainInv'
  BY <1>1, <1>2, <1>9, <1>11, <1>14, ChainFrame
<1>16. OrderKept'
  <2>1. \A x \in Threads : Pending(x) => error'[x] = error[x]
    BY <1>2, <1>3 DEF Pending, Waits, Passive, Called, LeaderStages, At
  <2> QED BY <1>1, <1>2, <1>9, <1>11, <1>14, <2>1, OrderFrame DEF IInv
<1> QED BY <1>6, <1>12, <1>13, <1>15, <1>16

(* What a step leaves alone keeps its type.                                *)
LEMMA TypeFrame ==
  ASSUME TypeOK
  PROVE  /\ UNCHANGED rplVars => RplTypeOK'
         /\ UNCHANGED lockVars => LockTypeOK'
         /\ UNCHANGED queueVars => QueueTypeOK'
         /\ UNCHANGED entryVars => EntryTypeOK'
         /\ UNCHANGED logVars => LogTypeOK'
         /\ UNCHANGED wfcVars => WfcTypeOK'
<1>1. UNCHANGED rplVars => RplTypeOK'
  BY DEF TypeOK, RplTypeOK, rplVars
<1>2. UNCHANGED lockVars => LockTypeOK'
  BY DEF TypeOK, LockTypeOK, lockVars
<1>3. UNCHANGED queueVars => QueueTypeOK'
  BY DEF TypeOK, QueueTypeOK, queueVars
<1>4. UNCHANGED entryVars => EntryTypeOK'
  BY DEF TypeOK, EntryTypeOK, entryVars
<1>5. UNCHANGED logVars => LogTypeOK'
  BY DEF TypeOK, LogTypeOK, logVars
<1>6. UNCHANGED wfcVars => WfcTypeOK'
  BY DEF TypeOK, WfcTypeOK, wfcVars
<1> QED BY <1>1, <1>2, <1>3, <1>4, <1>5, <1>6

(* One thread moves on.                                                    *)
LEMMA GotoType ==
  ASSUME TypeOK, NEW t \in Threads, NEW s \in Stages, Goto(t, s)
  PROVE  /\ pc' \in [Threads -> Stages]
         /\ pc'[t] = s /\ \A x \in Threads \ {t} : pc'[x] = pc[x]
BY DEF TypeOK, Goto

(* A quiet step with what it does to wait_for_commit.                      *)
LEMMA QuietClose ==
  ASSUME IInv, NEW t \in Threads, QuietStep(t), TypeOK',
         NEW T, T = Taken, ListsInv(T)',
         \A w \in Groups : wakeup_subsequent_commits_running'[w] =>
           IF w = t /\ pc'[t] # pc[t] THEN pc'[t] = "finish_waking"
           ELSE wakeup_subsequent_commits_running[w],
         \A g \in Groups : opaque_pointer'[g] =>
           IF g = t THEN pc'[t] = "wait_prior" ELSE opaque_pointer[g],
         \A g \in Groups : waitee[g] = NoGroup /\ g # t => waitee'[g] = NoGroup,
         pc'[t] \in {"start", "retry", "finish_register"} =>
           waitee'[t] = NoGroup
  PROVE  IInv'
<1> USE Basics
<1>1. /\ LocksInv' /\ QueueInv' /\ ChainInv'
      /\ OrderKept'
      /\ Taken' = T
  BY QuietLemma
<1>2. /\ \A x \in Threads \ {t} : pc'[x] = pc[x]
      /\ cur' = cur
      /\ pc[t] \notin {"own_waking", "waking"}
  BY DEF QuietStep, Apart, ApartStages
<1>3. WfcInv
  BY DEF IInv
<1>4. ListsInv(Taken)'
  BY <1>1 DEF ListsInv
<1>5. ASSUME NEW w \in Groups, wakeup_subsequent_commits_running'[w]
      PROVE  \/ pc'[w] \in {"own_waking", "finish_waking"}
             \/ \E u \in Threads : At(u, "waking")' /\ cur'[u] = w
  <2>1. CASE w = t /\ pc'[t] # pc[t]
    BY <1>5, <2>1
  <2>2. CASE ~(w = t /\ pc'[t] # pc[t])
    <3>1. wakeup_subsequent_commits_running[w] /\ pc'[w] = pc[w]
      BY <1>2, <1>5, <2>2
    <3>2. \/ pc[w] \in {"own_waking", "finish_waking"}
          \/ \E u \in Threads : At(u, "waking") /\ cur[u] = w
      BY <1>3, <3>1 DEF WfcInv
    <3> QED BY <1>2, <3>1, <3>2 DEF At
  <2> QED BY <2>1, <2>2
<1>6. ASSUME NEW g \in Groups
      PROVE  /\ opaque_pointer'[g] => At(g, "wait_prior")'
             /\ pc'[g] \in {"start", "retry", "finish_register"} =>
                  waitee'[g] = NoGroup
  <2>1. CASE g = t
    BY <2>1 DEF At
  <2>2. CASE g # t
    BY <1>2, <1>3, <2>2 DEF WfcInv, At
  <2> QED BY <2>1, <2>2
<1>7. WfcInv'
  BY <1>4, <1>5, <1>6 DEF WfcInv
<1> QED BY <1>1, <1>7 DEF IInv

(* The steps of replication, and of a transaction outside of the group     *)
(* commit: the thread moves on to stage s.                                 *)
OutsideStep(t, s) ==
  /\ Goto(t, s) /\ s \in Stages
  /\ UNCHANGED <<lockVars, queueVars, entryVars, binlog, engine>>
  /\ Apart(t)
  /\ \/ s \in ApartStages
     \/ s \in {"wait_prior", "enqueue"} /\ ~queued_by_other[t]
  /\ s \in GroupStages => t \in Groups
  /\ s \in {"queue", "ready"} => ~queued_by_other[t]
  /\ RplTypeOK' /\ late' \subseteq Threads
  /\ outcome' \in [Threads -> {"none", "ok", "error"}]

(* What is left to show of a step outside the group commit: that its       *)
(* wait_for_commit calls keep the lists and hand over nobody's waitee.     *)
LEMMA OutsideClose ==
  ASSUME IInv, NEW t \in Threads, NEW s, OutsideStep(t, s), WfcTypeOK',
         NEW T, T = Taken, ListsInv(T)',
         \A g \in T : waitee'[g] = waitee[g],
         \A w \in Groups : wakeup_subsequent_commits_running'[w] =>
           IF w = t /\ s # pc[t] THEN s = "finish_waking"
           ELSE wakeup_subsequent_commits_running[w],
         \A g \in Groups : opaque_pointer'[g] =>
           IF g = t THEN s = "wait_prior" ELSE opaque_pointer[g],
         \A g \in Groups : waitee[g] = NoGroup /\ g # t => waitee'[g] = NoGroup,
         s \in {"start", "retry", "finish_register"} => waitee'[t] = NoGroup
  PROVE  IInv'
<1>1. TypeOK /\ s \in Stages /\ Goto(t, s)
  BY DEF IInv, OutsideStep
<1>2. /\ pc' \in [Threads -> Stages]
      /\ pc'[t] = s /\ \A x \in Threads \ {t} : pc'[x] = pc[x]
  BY <1>1, GotoType
<1>3. LockTypeOK' /\ QueueTypeOK' /\ EntryTypeOK'
  BY <1>1, TypeFrame DEF OutsideStep
<1>4. LogTypeOK'
  BY <1>1 DEF OutsideStep, TypeOK, LogTypeOK
<1>5. TypeOK'
  BY <1>2, <1>3, <1>4 DEF TypeOK, OutsideStep
<1>6. /\ UNCHANGED <<prepare_ordered, log_lock, after_sync, commit_ordered,
                     optimize, queue, todo, is_leader, next, cur,
                     wakeup_ready, binlog, engine>>
      /\ UNCHANGED <<queued_by_other, error>>
  BY DEF OutsideStep, lockVars, queueVars, entryVars
<1>7. Apart(t)'
  BY <1>2, <1>6 DEF OutsideStep, Apart
<1>8. queued_by_other' \in [Threads -> BOOLEAN]
  BY <1>5 DEF TypeOK, QueueTypeOK
<1>9. QuietStep(t)
  BY <1>2, <1>6, <1>7, <1>8 DEF OutsideStep, QuietStep
<1> QED BY <1>2, <1>5, <1>9, QuietClose

(* The same when wait_for_commit is left alone                             *)
LEMMA OutsideAlone ==
  ASSUME IInv, NEW t \in Threads, NEW s, OutsideStep(t, s), UNCHANGED wfcVars,
         pc[t] \notin {"wait_prior", "finish_waking"} \/ s = pc[t],
         s \in {"start", "retry", "finish_register"} => waitee[t] = NoGroup
  PROVE  IInv'
<1>1. TypeOK /\ WfcInv /\ ListsInv(Taken)
  BY DEF IInv, WfcInv
<1>2. PICK T : T = Taken
  OBVIOUS
<1>3. WfcTypeOK' /\ ListsInv(T)'
  <2>1. WfcTypeOK'
    BY <1>1, TypeFrame
  <2>2. ListsInv(T)
    BY <1>1, <1>2
  <2>3. ListsInv(T)'
    BY <2>2 DEF ListsInv, wfcVars
  <2> QED BY <2>1, <2>3
<1>4. pc[t] \notin {"own_waking", "waking"}
  BY DEF OutsideStep, Apart, ApartStages
<1>5. \A w \in Groups : wakeup_subsequent_commits_running'[w] =>
        IF w = t /\ s # pc[t] THEN s = "finish_waking"
        ELSE wakeup_subsequent_commits_running[w]
  <2> SUFFICES ASSUME NEW w \in Groups, wakeup_subsequent_commits_running[w],
                      w = t, s # pc[t]
               PROVE  FALSE
    BY DEF wfcVars
  <2>1. pc[t] \notin {"own_waking", "finish_waking"}
    BY <1>4
  <2>2. PICK u \in Threads : At(u, "waking") /\ cur[u] = t
    BY <1>1, <2>1 DEF WfcInv
  <2>3. pc[u] \in LeaderStages /\ u # t
    BY <1>4, <2>2 DEF At, LeaderStages, CommitStages
  <2>4. Waits(t)
    BY <2>2, <2>3 DEF IInv, ChainInv
  <2> QED BY <2>4 DEF Waits, Passive, TakenOver, At, OutsideStep, Apart,
                      ApartStages
<1>6. \A g \in Groups : opaque_pointer'[g] =>
        IF g = t THEN s = "wait_prior" ELSE opaque_pointer[g]
  BY <1>1 DEF WfcInv, At, wfcVars
<1> QED BY <1>2, <1>3, <1>5, <1>6, OutsideClose DEF wfcVars

(* Nobody wakes up the waiters of a group that is apart but itself.        *)
LEMMA IdleWakeup ==
  ASSUME IInv, NEW g \in Groups, Apart(g), pc[g] # "finish_waking"
  PROVE  ~wakeup_subsequent_commits_running[g]
<1> SUFFICES ASSUME wakeup_subsequent_commits_running[g] PROVE FALSE
  OBVIOUS
<1>1. pc[g] \notin {"own_waking", "waking"}
  BY DEF Apart, ApartStages
<1>2. PICK u \in Threads : At(u, "waking") /\ cur[u] = g
  BY <1>1 DEF IInv, WfcInv
<1>3. pc[u] \in LeaderStages /\ u # g
  BY <1>1, <1>2 DEF At, LeaderStages, CommitStages
<1>4. Waits(g)
  BY <1>2, <1>3, Basics DEF IInv, ChainInv
<1> QED BY <1>4 DEF Waits, Passive, TakenOver, At, Apart, ApartStages

(* What holds before a step of a thread that is apart                      *)
LEMMA OutsideFacts ==
  ASSUME IInv, NEW g \in Groups, Apart(g), NEW T, T = Taken
  PROVE  /\ WfcTypeOK /\ ListsInv(T) /\ g \notin T /\ T \subseteq Groups
         /\ \A x \in Groups : opaque_pointer[x] => At(x, "wait_prior")
         /\ waitee \in [Groups -> Groups \cup {NoGroup}]
         /\ opaque_pointer \in [Groups -> BOOLEAN]
<1>1. WfcTypeOK /\ ListsInv(Taken)
  BY DEF IInv, TypeOK, WfcInv
<1>2. g \notin Taken /\ Taken \subseteq Groups
  BY DEF Taken, TakenOver, At, Apart, ApartStages
<1>3. \A x \in Groups : opaque_pointer[x] => At(x, "wait_prior")
  BY DEF IInv, WfcInv
<1>4. ListsInv(T)
  BY <1>1
<1> QED BY <1>1, <1>2, <1>3, <1>4 DEF WfcTypeOK

(* Steps that register to wait                                             *)
LEMMA OutsideRegister ==
  ASSUME IInv, NEW g \in Groups, NEW s, OutsideStep(g, s), RegisterPrior(g),
         pc[g] \in {"start", "retry", "finish_register"},
         s \notin {"start", "retry", "finish_register"}
  PROVE  IInv'
<1> USE Basics
<1>1. Apart(g) /\ s # pc[g] /\ pc[g] \notin {"wait_prior", "finish_waking"}
  BY DEF OutsideStep
<1>2. CASE UNCHANGED wfcVars
  BY <1>1, <1>2, OutsideAlone
<1>3. CASE Prior(g) > last_committed_sub_id /\ RegisterWait(g, Prior(g))
  <2>1. last_committed_sub_id \in Nat
    BY DEF IInv, TypeOK, RplTypeOK
  <2>2. Prior(g) \in Groups
    BY <1>3, <2>1
  <2>3. PICK T : T = Taken
    OBVIOUS
  <2>4. /\ WfcTypeOK /\ ListsInv(T) /\ g \notin T /\ T \subseteq Groups
        /\ \A x \in Groups : opaque_pointer[x] => At(x, "wait_prior")
        /\ waitee \in [Groups -> Groups \cup {NoGroup}]
    BY <1>1, <2>3, OutsideFacts
  <2>5. waitee[g] = NoGroup
    BY DEF IInv, WfcInv
  <2>6. WfcTypeOK' /\ ListsInv(T)'
    BY <1>3, <2>2, <2>4, <2>5, RegisterLists
  <2>7. /\ \A x \in Groups \ {g} : waitee'[x] = waitee[x]
        /\ UNCHANGED <<opaque_pointer, wakeup_subsequent_commits_running>>
    BY <1>3, <2>4 DEF RegisterWait
  <2>8. ~wakeup_subsequent_commits_running[g]
    BY <1>1, IdleWakeup
  <2>9. ~opaque_pointer[g]
    BY <1>1, <2>4 DEF At
  <2>10. /\ \A x \in T : waitee'[x] = waitee[x]
         /\ \A w \in Groups : wakeup_subsequent_commits_running'[w] =>
              IF w = g /\ s # pc[g] THEN s = "finish_waking"
              ELSE wakeup_subsequent_commits_running[w]
         /\ \A x \in Groups : opaque_pointer'[x] =>
              IF x = g THEN s = "wait_prior" ELSE opaque_pointer[x]
         /\ \A x \in Groups : waitee[x] = NoGroup /\ x # g =>
                                  waitee'[x] = NoGroup
         /\ s \in {"start", "retry", "finish_register"} => waitee'[g] = NoGroup
    BY <2>4, <2>7, <2>8, <2>9
  <2> QED BY <2>3, <2>6, <2>10, OutsideClose
<1> QED BY <1>2, <1>3 DEF RegisterPrior

(* Steps with which a waiter leaves the list                               *)
LEMMA OutsideLeave ==
  ASSUME IInv, NEW g \in Groups, NEW s, OutsideStep(g, s),
         NEW err \in BOOLEAN, waitee[g] # NoGroup, ~BeingWoken(g),
         LeaveList(g, err), pc[g] # "finish_waking", s # pc[g]
  PROVE  IInv'
<1> USE Basics
<1>1. Apart(g)
  BY DEF OutsideStep
<1>2. PICK T : T = Taken
  OBVIOUS
<1>3. /\ WfcTypeOK /\ ListsInv(T) /\ g \notin T /\ T \subseteq Groups
      /\ \A x \in Groups : opaque_pointer[x] => At(x, "wait_prior")
      /\ waitee \in [Groups -> Groups \cup {NoGroup}]
      /\ opaque_pointer \in [Groups -> BOOLEAN]
  BY <1>1, <1>2, OutsideFacts
<1>4. WfcTypeOK' /\ ListsInv(T)'
  BY <1>3, LeaveLists
<1>5. /\ \A x \in Groups \ {g} : /\ waitee'[x] = waitee[x]
                                 /\ opaque_pointer'[x] = opaque_pointer[x]
      /\ waitee'[g] = NoGroup /\ opaque_pointer'[g] = FALSE
      /\ UNCHANGED wakeup_subsequent_commits_running
  BY <1>3 DEF LeaveList
<1>6. ~wakeup_subsequent_commits_running[g]
  BY <1>1, IdleWakeup
<1>7. /\ \A x \in T : waitee'[x] = waitee[x]
      /\ \A w \in Groups : wakeup_subsequent_commits_running'[w] =>
           IF w = g /\ s # pc[g] THEN s = "finish_waking"
           ELSE wakeup_subsequent_commits_running[w]
      /\ \A x \in Groups : opaque_pointer'[x] =>
           IF x = g THEN s = "wait_prior" ELSE opaque_pointer[x]
      /\ \A x \in Groups : waitee[x] = NoGroup /\ x # g =>
                               waitee'[x] = NoGroup
      /\ s \in {"start", "retry", "finish_register"} => waitee'[g] = NoGroup
  BY <1>3, <1>5, <1>6
<1> QED BY <1>2, <1>4, <1>7, OutsideClose

(* Steps that give up a registration                                       *)
LEMMA OutsideUnregister ==
  ASSUME IInv, NEW g \in Groups, NEW s, OutsideStep(g, s), Unregister(g),
         pc[g] \notin {"wait_prior", "finish_waking"}, s # pc[g]
  PROVE  IInv'
<1> USE Basics
<1>1. CASE waitee[g] = NoGroup
  <2>1. Apart(g)
    BY DEF OutsideStep
  <2>2. PICK T : T = Taken
    OBVIOUS
  <2>3. /\ WfcTypeOK /\ ListsInv(T) /\ g \notin T /\ T \subseteq Groups
        /\ \A x \in Groups : opaque_pointer[x] => At(x, "wait_prior")
    BY <2>1, <2>2, OutsideFacts
  <2>4. WfcTypeOK' /\ ListsInv(T)'
    BY <2>3, UnregisterLists
  <2>5. UNCHANGED <<waitee, opaque_pointer, wakeup_subsequent_commits_running>>
    BY <1>1 DEF Unregister
  <2>6. ~wakeup_subsequent_commits_running[g]
    BY <2>1, IdleWakeup
  <2>7. ~opaque_pointer[g]
    BY <2>3 DEF At
  <2> QED BY <1>1, <2>2, <2>3, <2>4, <2>5, <2>6, <2>7, OutsideClose
<1>2. CASE waitee[g] # NoGroup
  BY <1>2, OutsideLeave DEF Unregister
<1> QED BY <1>1, <1>2

(* wait_for_prior_commit() outside of the queue                            *)
LEMMA OutsidePrior ==
  ASSUME IInv, NEW g \in Groups, NEW ok, NEW failed, NEW interrupted,
         PriorWaited(g, ok, failed, interrupted), late' \subseteq Threads,
         pc[g] \in ApartStages \ {"start", "retry", "finish_register",
                                  "finish_waking"},
         {ok, failed, interrupted} \subseteq
           ApartStages \ {"start", "retry", "finish_register", "queue",
                          "ready", pc[g]}
  PROVE  IInv'
<1> USE Basics
<1>1. /\ UNCHANGED <<lockVars, queueVars, entryVars, binlog, engine>>
      /\ UNCHANGED rplVars /\ UNCHANGED outcome
  BY DEF PriorWaited
<1>2. TypeOK /\ RplTypeOK' /\ outcome' \in [Threads -> {"none", "ok", "error"}]
  BY <1>1, TypeFrame DEF IInv, TypeOK
<1>3. \A s \in {ok, failed, interrupted} : Goto(g, s) => OutsideStep(g, s)
  BY <1>1, <1>2 DEF OutsideStep, Apart, ApartStages, Stages
<1>4. CASE UNCHANGED wfcVars /\
           Goto(g, IF wakeup_error[g] THEN failed ELSE ok)
  <2>1. PICK s \in {ok, failed, interrupted} : Goto(g, s)
    BY <1>4
  <2> QED BY <1>3, <1>4, <2>1, OutsideAlone DEF ApartStages
<1>5. CASE /\ waitee[g] # NoGroup /\ ~BeingWoken(g)
           /\ LeaveList(g, TRUE) /\ Goto(g, interrupted)
  BY <1>3, <1>5, OutsideLeave
<1> QED BY <1>4, <1>5 DEF PriorWaited

(* rpl_group_info, and what a transaction is told, keep their types.       *)
LEMMA RplTypes ==
  ASSUME TypeOK
  PROVE  /\ \A g \in Groups :
              /\ [killed EXCEPT ![g] = "no"] \in
                   [Groups -> {"no", "kill", "retry"}]
              /\ \A b \in BOOLEAN : [worker_error EXCEPT ![g] = b] \in
                                      [Groups -> BOOLEAN]
         /\ \A t \in Threads, o \in {"none", "ok", "error"} :
              [outcome EXCEPT ![t] = o] \in
                [Threads -> {"none", "ok", "error"}]
         /\ outcome \in [Threads -> {"none", "ok", "error"}]
         /\ late \subseteq Threads
         /\ retried \subseteq Groups
BY DEF TypeOK, RplTypeOK, LogTypeOK

(* The steps of an event group outside of the group commit                 *)
LEMMA StartGroupInv ==
  ASSUME IInv, NEW g \in Groups, StartGroup(g)
  PROVE  IInv'
<1> USE Basics
<1> DEFINE skip == stop_on_error_sub_id <= Prior(g)
           s == IF skip THEN "skip" ELSE "apply"
<1>1. TypeOK
  BY DEF IInv
<1>2. /\ Goto(g, s) /\ pc[g] = "start" /\ RegisterPrior(g)
      /\ worker_error' = [worker_error EXCEPT ![g] = skip]
      /\ UNCHANGED <<killed, kills, retried, last_committed_sub_id,
                     stop_on_error_sub_id, lockVars, queueVars, entryVars,
                     logVars, outcome>>
  BY DEF StartGroup, At
<1>3. RplTypeOK' /\ late' \subseteq Threads /\ UNCHANGED <<binlog, engine>>
      /\ outcome' \in [Threads -> {"none", "ok", "error"}]
  BY <1>1, <1>2, RplTypes DEF TypeOK, RplTypeOK, logVars
<1>4. s \in {"skip", "apply"}
  OBVIOUS
<1> HIDE DEF s
<1>5. OutsideStep(g, s)
  BY <1>2, <1>3, <1>4 DEF OutsideStep, Apart, ApartStages, Stages
<1> QED BY <1>2, <1>4, <1>5, OutsideRegister

(* An event group that is skipped waits for the prior one.                 *)
LEMMA SkipGroupInv ==
  ASSUME IInv, NEW g \in Groups, SkipGroup(g)
  PROVE  IInv'
<1>1. pc[g] = "skip" /\ PriorWaited(g, "finish", "finish", "finish")
      /\ late' \subseteq Threads
  BY RplTypes DEF SkipGroup, WaitPrior, At, IInv
<1> QED BY <1>1, OutsidePrior DEF ApartStages

(* An event group fails, or is interrupted for a retry.                    *)
LEMMA ApplyFailsInv ==
  ASSUME IInv, NEW g \in Groups, ApplyFails(g)
  PROVE  IInv'
<1> USE Basics
<1>1. PICK s \in {"failed", "interrupted"} : Goto(g, s)
  BY DEF ApplyFails
<1>2. /\ pc[g] = "apply" /\ TypeOK
      /\ UNCHANGED <<rplVars, lockVars, queueVars, entryVars, logVars,
                     outcome, wfcVars>>
  BY DEF ApplyFails, At, IInv
<1>3. RplTypeOK' /\ late' \subseteq Threads /\ UNCHANGED <<binlog, engine>>
      /\ outcome' \in [Threads -> {"none", "ok", "error"}]
  BY <1>2, RplTypes, TypeFrame DEF logVars
<1>4. OutsideStep(g, s)
  BY <1>1, <1>2, <1>3 DEF OutsideStep, Apart, ApartStages, Stages
<1> QED BY <1>2, <1>4, OutsideAlone

(* The retry leaves the list of the prior group.                           *)
LEMMA RetryInv ==
  ASSUME IInv, NEW g \in Groups, Retry(g)
  PROVE  IInv'
<1> USE Basics
<1>1. /\ pc[g] = "interrupted" /\ TypeOK /\ Goto(g, "retry")
      /\ Unregister(g)
      /\ killed' = [killed EXCEPT ![g] = "no"]
      /\ outcome' = [outcome EXCEPT ![g] = "error"]
      /\ retried' = retried \cup {g}
      /\ UNCHANGED <<kills, worker_error, last_committed_sub_id,
                     stop_on_error_sub_id, lockVars, queueVars, entryVars,
                     logVars>>
  BY DEF Retry, At, IInv, ResetKilled
<1>2. RplTypeOK' /\ late' \subseteq Threads /\ UNCHANGED <<binlog, engine>>
      /\ outcome' \in [Threads -> {"none", "ok", "error"}]
  BY <1>1, RplTypes DEF TypeOK, RplTypeOK, logVars
<1>3. OutsideStep(g, "retry")
  BY <1>1, <1>2 DEF OutsideStep, Apart, ApartStages, Stages
<1> QED BY <1>1, <1>3, OutsideUnregister

(* It registers with the prior group again,                                *)
LEMMA RetryRegisterInv ==
  ASSUME IInv, NEW g \in Groups, RetryRegister(g)
  PROVE  IInv'
<1> USE Basics
<1>1. /\ pc[g] = "retry" /\ TypeOK
      /\ UNCHANGED <<rplVars, lockVars, queueVars, entryVars, logVars,
                     outcome>>
  BY DEF RetryRegister, At, IInv
<1>2. RplTypeOK' /\ late' \subseteq Threads /\ UNCHANGED <<binlog, engine>>
      /\ outcome' \in [Threads -> {"none", "ok", "error"}]
  BY <1>1, RplTypes, TypeFrame DEF logVars
<1>3. \A s \in {"retry_wait", "failed"} : Goto(g, s) => OutsideStep(g, s)
  BY <1>1, <1>2 DEF OutsideStep, Apart, ApartStages, Stages
<1>4. CASE RegisterPrior(g) /\ Goto(g, "retry_wait")
  BY <1>1, <1>3, <1>4, OutsideRegister
<1>5. CASE UNCHANGED wfcVars /\ Goto(g, "failed")
  BY <1>1, <1>3, <1>5, OutsideAlone
<1> QED BY <1>4, <1>5 DEF RetryRegister

(* waits for it                                                            *)
LEMMA RetryWaitInv ==
  ASSUME IInv, NEW g \in Groups, RetryWait(g)
  PROVE  IInv'
<1>1. /\ pc[g] = "retry_wait"
      /\ PriorWaited(g, "reapply", "failed", "interrupted")
      /\ late' \subseteq Threads
  BY RplTypes DEF RetryWait, WaitPrior, At, IInv
<1> QED BY <1>1, OutsidePrior DEF ApartStages

(* and applies the events once more.                                       *)
LEMMA ReapplyInv ==
  ASSUME IInv, NEW g \in Groups, Reapply(g)
  PROVE  IInv'
<1> USE Basics
<1>1. /\ pc[g] = "reapply" /\ TypeOK /\ Goto(g, "apply")
      /\ killed' = [killed EXCEPT ![g] = "no"]
      /\ outcome' = [outcome EXCEPT ![g] = "none"]
      /\ UNCHANGED <<kills, worker_error, retried, last_committed_sub_id,
                     stop_on_error_sub_id, lockVars, queueVars, entryVars,
                     logVars, wfcVars>>
  BY DEF Reapply, At, IInv, ResetKilled
<1>2. RplTypeOK' /\ late' \subseteq Threads /\ UNCHANGED <<binlog, engine>>
      /\ outcome' \in [Threads -> {"none", "ok", "error"}]
  BY <1>1, RplTypes DEF TypeOK, RplTypeOK, logVars
<1>3. OutsideStep(g, "apply")
  BY <1>1, <1>2 DEF OutsideStep, Apart, ApartStages, Stages, GroupStages
<1> QED BY <1>1, <1>3, OutsideAlone

(* finish_event_group() waits for the prior group,                         *)
LEMMA LastWaitInv ==
  ASSUME IInv, NEW g \in Groups, LastWait(g)
  PROVE  IInv'
<1>1. /\ pc[g] = "last_wait"
      /\ PriorWaited(g, "commit", "failed", "interrupted")
  BY DEF LastWait, At
<1>2. late' \subseteq Threads
  BY RplTypes, Basics DEF LastWait, IInv
<1> QED BY <1>1, <1>2, OutsidePrior DEF ApartStages

(* leaves its list after an error,                                         *)
LEMMA FinishUnregisterInv ==
  ASSUME IInv, NEW g \in Groups, FinishUnregister(g)
  PROVE  IInv'
<1> USE Basics
<1>1. /\ pc[g] = "finish" /\ TypeOK /\ Goto(g, "finish_register")
      /\ Unregister(g)
      /\ UNCHANGED <<rplVars, lockVars, queueVars, entryVars, logVars,
                     outcome>>
  BY DEF FinishUnregister, At, IInv
<1>2. RplTypeOK' /\ late' \subseteq Threads /\ UNCHANGED <<binlog, engine>>
      /\ outcome' \in [Threads -> {"none", "ok", "error"}]
  BY <1>1, RplTypes, TypeFrame DEF logVars
<1>3. OutsideStep(g, "finish_register")
  BY <1>1, <1>2 DEF OutsideStep, Apart, ApartStages, Stages
<1> QED BY <1>1, <1>3, OutsideUnregister

(* registers again when the prior group is still to commit                 *)
LEMMA FinishRegisterInv ==
  ASSUME IInv, NEW g \in Groups, FinishRegister(g)
  PROVE  IInv'
<1> USE Basics
<1>1. /\ pc[g] = "finish_register" /\ TypeOK /\ Goto(g, "finish_wait")
      /\ RegisterPrior(g)
      /\ UNCHANGED <<rplVars, lockVars, queueVars, entryVars, logVars,
                     outcome>>
  BY DEF FinishRegister, At, IInv
<1>2. RplTypeOK' /\ late' \subseteq Threads /\ UNCHANGED <<binlog, engine>>
      /\ outcome' \in [Threads -> {"none", "ok", "error"}]
  BY <1>1, RplTypes, TypeFrame DEF logVars
<1>3. OutsideStep(g, "finish_wait")
  BY <1>1, <1>2 DEF OutsideStep, Apart, ApartStages, Stages
<1> QED BY <1>1, <1>3, OutsideRegister

(* and waits for it.                                                       *)
LEMMA FinishWaitInv ==
  ASSUME IInv, NEW g \in Groups, FinishWait(g)
  PROVE  IInv'
<1> USE Basics
<1>1. /\ pc[g] = "finish_wait" /\ TypeOK /\ Goto(g, "finish_mark")
      /\ UNCHANGED <<killed, kills, retried, last_committed_sub_id,
                     stop_on_error_sub_id, lockVars, queueVars, entryVars,
                     logVars, outcome, wfcVars>>
  BY DEF FinishWait, At, IInv
<1>2. worker_error' \in [Groups -> BOOLEAN]
  BY <1>1, RplTypes DEF FinishWait
<1>3. RplTypeOK' /\ late' \subseteq Threads /\ UNCHANGED <<binlog, engine>>
      /\ outcome' \in [Threads -> {"none", "ok", "error"}]
  BY <1>1, <1>2, RplTypes DEF TypeOK, RplTypeOK, logVars
<1>4. OutsideStep(g, "finish_mark")
  BY <1>1, <1>3 DEF OutsideStep, Apart, ApartStages, Stages
<1> QED BY <1>1, <1>4, OutsideAlone

(* mark_start_commit() and the counters of the replication domain touch no *)
(* list and no queue.                                                      *)
LEMMA FinishMarkInv ==
  ASSUME IInv, NEW g \in Groups, FinishMark(g)
  PROVE  IInv'
<1> USE Basics
<1>1. /\ pc[g] = "finish_mark" /\ TypeOK /\ Goto(g, "finish_wake")
      /\ killed' = [killed EXCEPT ![g] = "no"]
      /\ last_committed_sub_id' \in {g, last_committed_sub_id}
      /\ stop_on_error_sub_id' \in {g, stop_on_error_sub_id}
      /\ wakeup_blocked' = [wakeup_blocked EXCEPT ![g] = FALSE]
      /\ UNCHANGED <<kills, worker_error, retried, lockVars, queueVars,
                     entryVars, logVars, outcome, waitee,
                     subsequent_commits_list, opaque_pointer, wakeup_error,
                     wakeup_subsequent_commits_running, waking,
                     commit_started>>
  BY DEF FinishMark, At, IInv, ResetKilled, LastCommitted
<1>2. RplTypeOK' /\ late' \subseteq Threads /\ UNCHANGED <<binlog, engine>>
      /\ outcome' \in [Threads -> {"none", "ok", "error"}]
  BY <1>1, RplTypes DEF TypeOK, RplTypeOK, logVars
<1>3. OutsideStep(g, "finish_wake") /\ Apart(g)
  BY <1>1, <1>2 DEF OutsideStep, Apart, ApartStages, Stages
<1>4. PICK T : T = Taken
  OBVIOUS
<1>5. /\ WfcTypeOK /\ ListsInv(T)
      /\ \A x \in Groups : opaque_pointer[x] => At(x, "wait_prior")
  BY <1>3, <1>4, OutsideFacts
<1>6. ~wakeup_subsequent_commits_running[g]
  BY <1>1, <1>3, IdleWakeup
<1>7. WfcTypeOK' /\ ListsInv(T)'
  BY <1>1, <1>5 DEF WfcTypeOK, ListsInv
<1>8. ~opaque_pointer[g]
  BY <1>1, <1>5 DEF At
<1> QED BY <1>1, <1>3, <1>4, <1>6, <1>7, <1>8, OutsideClose

(* finish_event_group() begins to wake up the groups that wait for this    *)
(* one:                                                                    *)
LEMMA FinishWakeInv ==
  ASSUME IInv, NEW g \in Groups, FinishWake(g)
  PROVE  IInv'
<1> USE Basics
<1>1. /\ pc[g] = "finish_wake" /\ TypeOK
      /\ UNCHANGED <<rplVars, lockVars, queueVars, entryVars, logVars,
                     outcome>>
  BY DEF FinishWake, At, IInv
<1>2. RplTypeOK' /\ late' \subseteq Threads /\ UNCHANGED <<binlog, engine>>
      /\ outcome' \in [Threads -> {"none", "ok", "error"}]
  BY <1>1, RplTypes, TypeFrame DEF logVars
<1>3. \A s \in {"finish_waking", "done"} : Goto(g, s) => OutsideStep(g, s)
  BY <1>1, <1>2 DEF OutsideStep, Apart, ApartStages, Stages
<1>4. CASE BeginWakeup(g) /\ Goto(g, "finish_waking")
  <2>1. Apart(g)
    BY <1>1 DEF Apart, ApartStages
  <2>2. PICK T : T = Taken
    OBVIOUS
  <2>3. /\ WfcTypeOK /\ ListsInv(T)
        /\ \A x \in Groups : opaque_pointer[x] => At(x, "wait_prior")
    BY <2>1, <2>2, OutsideFacts
  <2>4. ~wakeup_subsequent_commits_running[g]
    BY <1>1, <2>1, IdleWakeup
  <2>5. WfcTypeOK' /\ ListsInv(T)'
    BY <1>4, <2>3, <2>4, BeginLists
  <2>6. /\ UNCHANGED <<waitee, opaque_pointer>>
        /\ \A w \in Groups \ {g} : wakeup_subsequent_commits_running'[w] =
                                     wakeup_subsequent_commits_running[w]
    BY <1>4, <2>3 DEF BeginWakeup, WfcTypeOK
  <2>7. ~opaque_pointer[g]
    BY <1>1, <2>3 DEF At
  <2> QED BY <1>1, <1>3, <1>4, <2>2, <2>5, <2>6, <2>7, OutsideClose
<1>5. CASE UNCHANGED wfcVars /\ Goto(g, "done")
  BY <1>1, <1>3, <1>5, OutsideAlone
<1> QED BY <1>4, <1>5 DEF FinishWake, CallWakeup

(* one waiter, or the end, at a time.                                      *)
LEMMA FinishWakesInv ==
  ASSUME IInv, NEW g \in Groups, FinishWakes(g)
  PROVE  IInv'
<1> USE Basics
<1>1. /\ pc[g] = "finish_waking" /\ TypeOK
      /\ UNCHANGED <<rplVars, lockVars, queueVars, entryVars, logVars,
                     outcome>>
  BY DEF FinishWakes, WakeupStep, At, IInv
<1>2. RplTypeOK' /\ late' \subseteq Threads /\ UNCHANGED <<binlog, engine>>
      /\ outcome' \in [Threads -> {"none", "ok", "error"}]
  BY <1>1, RplTypes, TypeFrame DEF logVars
<1>3. \A s \in {"finish_waking", "done"} : Goto(g, s) => OutsideStep(g, s)
  BY <1>1, <1>2 DEF OutsideStep, Apart, ApartStages, Stages
<1>4. PICK T : T = Taken
  OBVIOUS
<1>5. /\ WfcTypeOK /\ ListsInv(T) /\ T \subseteq Groups
      /\ waitee \in [Groups -> Groups \cup {NoGroup}]
      /\ \A x \in Groups : opaque_pointer[x] => At(x, "wait_prior")
  BY <1>1, <1>4, OutsideFacts DEF Apart, ApartStages
<1>6. ~opaque_pointer[g]
  BY <1>1, <1>5 DEF At
<1>7. CASE WakeNext(g, worker_error[g]) /\ UNCHANGED pc
  <2>1. worker_error[g] \in BOOLEAN
    BY <1>1 DEF TypeOK, RplTypeOK
  <2>2. /\ WfcTypeOK' /\ ListsInv(T)'
        /\ \A x \in T : waitee'[x] = waitee[x]
    BY <1>5, <1>7, <2>1, WakeLists
  <2>3. Goto(g, "finish_waking")
    BY <1>1, <1>7 DEF Goto, TypeOK
  <2>4. /\ UNCHANGED <<opaque_pointer, wakeup_subsequent_commits_running>>
        /\ \A x \in Groups : waitee'[x] \in {waitee[x], NoGroup}
    BY <1>5, <1>7 DEF WakeNext, Woken
  <2> QED BY <1>1, <1>3, <1>4, <1>6, <2>2, <2>3, <2>4, OutsideClose
<1>8. CASE EndWakeup(g) /\ Goto(g, "done")
  <2>1. WfcTypeOK' /\ ListsInv(T)'
    BY <1>5, <1>8, EndLists
  <2>2. /\ UNCHANGED <<opaque_pointer, waitee>>
        /\ \A w \in Groups \ {g} : wakeup_subsequent_commits_running'[w] =
                                     wakeup_subsequent_commits_running[w]
        /\ wakeup_subsequent_commits_running'[g] = FALSE
    BY <1>5, <1>8 DEF EndWakeup, WfcTypeOK
  <2> QED BY <1>1, <1>3, <1>4, <1>6, <1>8, <2>1, <2>2, OutsideClose
<1> QED BY <1>7, <1>8 DEF FinishWakes, WakeupStep

(* Before and after the queue                                              *)
LEMMA QueueReadyInv ==
  ASSUME IInv, NEW g \in Groups, QueueReady(g)
  PROVE  IInv'
<1> USE Basics
<1>1. /\ pc[g] = "ready" /\ TypeOK /\ Goto(g, "wait_prior")
      /\ opaque_pointer' = [opaque_pointer EXCEPT ![g] = TRUE]
      /\ UNCHANGED <<rplVars, lockVars, queueVars, entryVars, logVars,
                     outcome, waitee, subsequent_commits_list, wakeup_error,
                     wakeup_subsequent_commits_running, waking,
                     commit_started, wakeup_blocked>>
      /\ ~queued_by_other[g]
  BY DEF QueueReady, At, IInv, QueueInv
<1>2. RplTypeOK' /\ late' \subseteq Threads /\ UNCHANGED <<binlog, engine>>
      /\ outcome' \in [Threads -> {"none", "ok", "error"}]
  BY <1>1, RplTypes, TypeFrame DEF logVars
<1>3. OutsideStep(g, "wait_prior") /\ Apart(g)
  BY <1>1, <1>2 DEF OutsideStep, Apart, ApartStages, Stages
<1>4. PICK T : T = Taken
  OBVIOUS
<1>5. /\ WfcTypeOK /\ ListsInv(T)
      /\ opaque_pointer \in [Groups -> BOOLEAN]
  BY <1>3, <1>4, OutsideFacts
<1>6. ~wakeup_subsequent_commits_running[g]
  BY <1>1, <1>3, IdleWakeup
<1>7. WfcTypeOK' /\ ListsInv(T)'
  BY <1>1, <1>5 DEF WfcTypeOK, ListsInv
<1>8. \A x \in Groups \ {g} : opaque_pointer'[x] = opaque_pointer[x]
  BY <1>1, <1>5
<1> QED BY <1>1, <1>3, <1>4, <1>6, <1>7, <1>8, OutsideClose

(* A killed waiter that nobody has queued leaves the list.                 *)
LEMMA QueueKilledInv ==
  ASSUME IInv, NEW g \in Groups, QueueKilled(g)
  PROVE  IInv'
<1> USE Basics
<1>1. /\ pc[g] = "wait_prior" /\ TypeOK /\ Goto(g, "interrupted")
      /\ waitee[g] # NoGroup /\ ~BeingWoken(g) /\ ~queued_by_other[g]
      /\ LeaveList(g, TRUE)
      /\ UNCHANGED <<rplVars, lockVars, queueVars, entryVars, logVars,
                     outcome>>
  BY DEF QueueKilled, At, IInv, IgnoresKill
<1>2. RplTypeOK' /\ late' \subseteq Threads /\ UNCHANGED <<binlog, engine>>
      /\ outcome' \in [Threads -> {"none", "ok", "error"}]
  BY <1>1, RplTypes, TypeFrame DEF logVars
<1>3. OutsideStep(g, "interrupted")
  BY <1>1, <1>2 DEF OutsideStep, Apart, ApartStages, Stages
<1>4. TRUE \in BOOLEAN /\ pc[g] # "finish_waking" /\ "interrupted" # pc[g]
  BY <1>1
<1> QED BY <1>1, <1>3, <1>4, OutsideLeave

(* queue_for_group_commit() looks at the prior commit.                     *)
LEMMA QueueCheckInv ==
  ASSUME IInv, NEW t \in Threads, QueueCheck(t)
  PROVE  IInv'
<1> USE Basics
<1>1. /\ pc[t] = "queue" /\ TypeOK
      /\ UNCHANGED <<rplVars, lockVars, queueVars, entryVars, logVars,
                     outcome, wfcVars>>
      /\ ~queued_by_other[t]
  BY DEF QueueCheck, At, IInv, QueueInv
<1>2. PICK s \in {"ready", "enqueue"} :
        Goto(t, s) /\ (s = "ready" => t \in Groups)
  BY DEF QueueCheck
<1>3. RplTypeOK' /\ late' \subseteq Threads /\ UNCHANGED <<binlog, engine>>
      /\ outcome' \in [Threads -> {"none", "ok", "error"}]
  BY <1>1, RplTypes, TypeFrame DEF logVars
<1>4. OutsideStep(t, s)
  BY <1>1, <1>2, <1>3 DEF OutsideStep, Apart, ApartStages, Stages, GroupStages
<1> QED BY <1>1, <1>4, OutsideAlone

(* The result of the group commit is passed to the caller.                 *)
LEMMA ReturnedInv ==
  ASSUME IInv, NEW t \in Threads, Returned(t)
  PROVE  IInv'
<1> USE Basics
<1>1. /\ pc[t] = "returned" /\ TypeOK
      /\ UNCHANGED <<rplVars, lockVars, queueVars, entryVars, logVars,
                     outcome, wfcVars>>
  BY DEF Returned, At, IInv
<1>2. PICK s \in {"failed", "last_wait", "commit"} :
        Goto(t, s) /\ (s = "last_wait" => t \in Groups)
  BY DEF Returned
<1>3. RplTypeOK' /\ late' \subseteq Threads /\ UNCHANGED <<binlog, engine>>
      /\ outcome' \in [Threads -> {"none", "ok", "error"}]
  BY <1>1, RplTypes, TypeFrame DEF logVars
<1>4. OutsideStep(t, s)
  BY <1>1, <1>2, <1>3 DEF OutsideStep, Apart, ApartStages, Stages, GroupStages
<1> QED BY <1>1, <1>4, OutsideAlone

(* The transaction commits in the engines.                                 *)
LEMMA CommitInv ==
  ASSUME IInv, NEW t \in Threads, Commit(t)
  PROVE  IInv'
<1> USE Basics
<1>1. /\ pc[t] = "commit" /\ TypeOK
      /\ outcome' = [outcome EXCEPT ![t] = "ok"]
      /\ UNCHANGED <<rplVars, lockVars, queueVars, entryVars, logVars,
                     wfcVars>>
  BY DEF Commit, At, IInv
<1>2. PICK s \in {"finish_wait", "done"} :
        Goto(t, s) /\ (s = "finish_wait" => t \in Groups)
  BY DEF Commit
<1>3. RplTypeOK' /\ late' \subseteq Threads /\ UNCHANGED <<binlog, engine>>
      /\ outcome' \in [Threads -> {"none", "ok", "error"}]
  BY <1>1, RplTypes, TypeFrame DEF logVars
<1>4. OutsideStep(t, s)
  BY <1>1, <1>2, <1>3 DEF OutsideStep, Apart, ApartStages, Stages, GroupStages
<1> QED BY <1>1, <1>4, OutsideAlone

(* The transaction rolls back.                                             *)
LEMMA RollBackInv ==
  ASSUME IInv, NEW t \in Threads, RollBack(t)
  PROVE  IInv'
<1> USE Basics
<1>1. /\ pc[t] \in {"failed", "interrupted"} /\ TypeOK
      /\ outcome' = [outcome EXCEPT ![t] = "error"]
      /\ UNCHANGED <<kills, retried, last_committed_sub_id,
                     stop_on_error_sub_id, lockVars, queueVars, entryVars,
                     logVars, wfcVars>>
  BY DEF RollBack, At, IInv
<1>2. late' \subseteq Threads /\ UNCHANGED <<binlog, engine>>
      /\ outcome' \in [Threads -> {"none", "ok", "error"}]
  BY <1>1, RplTypes DEF logVars
<1>3. CASE t \in Groups
  <2>1. /\ worker_error' = [worker_error EXCEPT ![t] = TRUE]
        /\ killed' = [killed EXCEPT ![t] = "no"] /\ Goto(t, "finish")
    BY <1>3 DEF RollBack, ResetKilled
  <2>2. RplTypeOK'
    BY <1>1, <1>3, <2>1, RplTypes DEF TypeOK, RplTypeOK
  <2>3. OutsideStep(t, "finish")
    BY <1>1, <1>2, <1>3, <2>1, <2>2 DEF OutsideStep, Apart, ApartStages, Stages
  <2> QED BY <1>1, <2>3, OutsideAlone
<1>4. CASE t \notin Groups
  <2>1. UNCHANGED <<killed, worker_error>> /\ Goto(t, "done")
    BY <1>4 DEF RollBack
  <2>2. RplTypeOK'
    BY <1>1, <2>1 DEF TypeOK, RplTypeOK
  <2>3. OutsideStep(t, "done")
    BY <1>1, <1>2, <2>1, <2>2 DEF OutsideStep, Apart, ApartStages, Stages,
                                  GroupStages
  <2> QED BY <1>1, <2>3, OutsideAlone
<1> QED BY <1>3, <1>4

(* The transaction executes, and asks for its place in the queue.          *)
LEMMA ApplyInv ==
  ASSUME IInv, NEW t \in Threads, Apply(t)
  PROVE  IInv'
<1> USE Basics
<1>1. /\ pc[t] = "apply" /\ TypeOK /\ Goto(t, "queue")
      /\ queued_by_other' = [queued_by_other EXCEPT ![t] = FALSE]
      /\ error' = [error EXCEPT ![t] = FALSE]
      /\ wakeup_blocked' = [g \in Groups |-> wakeup_blocked[g] \/
                                             (g = t /\ t \in TempTables \ retried)]
      /\ UNCHANGED <<rplVars, lockVars, queue, todo, is_leader, unsynced, next,
                     cur, wakeup_ready, logVars, outcome>>
      /\ UNCHANGED <<waitee, subsequent_commits_list, opaque_pointer,
                     wakeup_error, wakeup_subsequent_commits_running, waking,
                     commit_started>>
  BY DEF Apply, At, IInv
<1>2. /\ pc' \in [Threads -> Stages]
      /\ pc'[t] = "queue" /\ \A x \in Threads \ {t} : pc'[x] = pc[x]
  BY <1>1, GotoType DEF Stages
<1>3. /\ \A x \in Threads \ {t} : /\ queued_by_other'[x] = queued_by_other[x]
                                  /\ error'[x] = error[x]
      /\ queued_by_other' \in [Threads -> BOOLEAN]
      /\ error' \in [Threads -> BOOLEAN]
      /\ ~queued_by_other'[t]
  BY <1>1 DEF TypeOK, QueueTypeOK, EntryTypeOK
<1>4. TypeOK'
  <2>1. RplTypeOK' /\ LockTypeOK' /\ LogTypeOK'
    BY <1>1, TypeFrame
  <2>2. wakeup_blocked' \in [Groups -> BOOLEAN]
    BY <1>1, Zenon
  <2>3. WfcTypeOK'
    BY <1>1, <2>2 DEF TypeOK, WfcTypeOK
  <2>4. QueueTypeOK' /\ EntryTypeOK'
    BY <1>1, <1>3 DEF TypeOK, QueueTypeOK, EntryTypeOK
  <2> QED BY <1>1, <1>2, <2>1, <2>3, <2>4 DEF TypeOK
<1>5. QuietStep(t) /\ Apart(t)
  BY <1>1, <1>2, <1>3 DEF QuietStep, Apart, ApartStages, lockVars, logVars,
                          GroupStages
<1>6. PICK T : T = Taken
  OBVIOUS
<1>7. ListsInv(Taken) /\ \A x \in Groups : opaque_pointer[x] => At(x, "wait_prior")
  BY DEF IInv, WfcInv
<1>8. ListsInv(T)'
  <2>1. ListsInv(T)
    BY <1>6, <1>7
  <2> QED BY <1>1, <2>1 DEF ListsInv
<1>9. t \in Groups => ~wakeup_subsequent_commits_running[t] /\ ~opaque_pointer[t]
  BY <1>1, <1>5, <1>7, IdleWakeup DEF At
<1>10. /\ \A w \in Groups : wakeup_subsequent_commits_running'[w] =>
            IF w = t /\ pc'[t] # pc[t] THEN pc'[t] = "finish_waking"
            ELSE wakeup_subsequent_commits_running[w]
       /\ \A g \in Groups : opaque_pointer'[g] =>
            IF g = t THEN pc'[t] = "wait_prior" ELSE opaque_pointer[g]
       /\ \A g \in Groups : waitee[g] = NoGroup /\ g # t =>
                              waitee'[g] = NoGroup
  BY <1>1, <1>9
<1> QED BY <1>2, <1>4, <1>5, <1>6, <1>8, <1>10, QuietClose

(* Steps that change nothing the groups depend on                          *)
LEMMA SameState ==
  ASSUME IInv, TypeOK',
         UNCHANGED <<pc, lockVars, queueVars, entryVars, binlog, engine>>,
         UNCHANGED wfcVars
  PROVE  IInv'
<1> USE DEF lockVars, queueVars, entryVars, wfcVars
<1>1. LocksInv'
  BY DEF IInv, LocksInv, At
<1>2. \A x \in Threads : (TakenOver(x)' <=> TakenOver(x))
  BY DEF TakenOver, At
<1>3. Taken' = Taken
  BY <1>2, Basics DEF Taken
<1>4. WfcInv'
  BY <1>3 DEF IInv, WfcInv, ListsInv, At
<1>5. \A x \in Threads : (Passive(x)' <=> Passive(x))
  BY <1>2 DEF Passive, At
<1>6. \A x \in Threads : Waits(x)' <=> Waits(x)
  BY <1>5 DEF Waits, InQueue
<1>7. \A x \in Threads : Called(x)' <=> Called(x)
  BY <1>2 DEF Called, At
<1>8. \A x \in Threads : Pending(x)' <=> Pending(x)
  BY <1>6, <1>7 DEF Pending
<1>9. QueueInv'
  BY <1>5 DEF IInv, QueueInv, At
<1>10. ChainInv'
  BY <1>6, <1>8, ChainFrame DEF IInv
<1>11. OrderKept'
  BY <1>6, <1>8, OrderFrame DEF IInv
<1> QED BY <1>1, <1>4, <1>9, <1>10, <1>11 DEF IInv

(* A kill marks a group and wakes nobody by itself.                        *)
LEMMA KillInv ==
  ASSUME IInv, NEW g \in Groups, NEW how \in {"kill", "retry"}, Kill(g, how)
  PROVE  IInv'
<1> USE Basics
<1>1. /\ TypeOK /\ killed' = [killed EXCEPT ![g] = how] /\ kills' = kills + 1
      /\ kills < MaxKills
      /\ UNCHANGED <<pc, worker_error, retried, last_committed_sub_id,
                     stop_on_error_sub_id, lockVars, queueVars, entryVars,
                     logVars, outcome, wfcVars>>
  BY DEF Kill, IInv
<1>2. RplTypeOK'
  BY <1>1 DEF TypeOK, RplTypeOK
<1>3. TypeOK'
  <2>1. LockTypeOK' /\ QueueTypeOK' /\ EntryTypeOK' /\ LogTypeOK' /\ WfcTypeOK'
    BY <1>1, TypeFrame
  <2> QED BY <1>1, <1>2, <2>1 DEF TypeOK
<1> QED BY <1>1, <1>3, SameState DEF logVars

(* A step that changes nothing keeps everything.                           *)
LEMMA StutterInv ==
  ASSUME IInv, UNCHANGED vars
  PROVE  IInv'
<1>1. UNCHANGED <<pc, rplVars, lockVars, queueVars, entryVars, logVars,
                  outcome, wfcVars>>
  BY DEF vars
<1>2. TypeOK'
  <2>1. /\ RplTypeOK' /\ LockTypeOK' /\ QueueTypeOK' /\ EntryTypeOK'
        /\ LogTypeOK' /\ WfcTypeOK'
    BY <1>1, TypeFrame DEF IInv
  <2> QED BY <1>1, <2>1 DEF IInv, TypeOK
<1> QED BY <1>1, <1>2, SameState DEF logVars

----------------------------------------------------------------------------
(* In and out of the queue: the groups that have left it stay as they are. *)
LEMMA GroupsKept ==
  ASSUME IInv,
         UNCHANGED <<after_sync, commit_ordered, optimize, next, cur, error,
                     binlog, engine>>,
         \/ UNCHANGED log_lock
         \/ log_lock = NoThread /\ pc'[log_lock'] \notin {"write", "written"},
         \A x \in Threads : /\ Waits(x)' <=> Waits(x)
                            /\ Pending(x)' <=> Pending(x),
         \A x \in Threads : \/ pc'[x] = pc[x]
                            \/ {pc[x], pc'[x]} \cap LeaderStages = {}
  PROVE  ChainInv' /\ OrderKept'
<1>1. TypeOK /\ LocksInv /\ ChainInv /\ OrderKept
  BY DEF IInv
<1>2. ChainInv'
  BY <1>1, ChainFrame
<1>3. OrderKept'
  BY <1>1, OrderFrame
<1> QED BY <1>2, <1>3

(* One thread moves on within the queue, or out of it; nobody else is      *)
(* concerned.                                                              *)
PassStep(t, s) ==
  /\ pc[t] \in {"wait_prior", "enqueue", "wait_ready", "leader"}
  /\ s \in {"enqueue", "returned", "own_commit", "collect"}
  /\ Goto(t, s)
  /\ UNCHANGED <<prepare_ordered, after_sync, commit_ordered, optimize,
                 queueVars, entryVars, binlog, engine, waitee>>
  /\ IF s = "collect" THEN pc[t] = "leader" /\ log_lock = NoThread /\ log_lock' = t
     ELSE UNCHANGED log_lock /\ pc[t] # "leader"
  /\ Called(t)' \/ s = "own_commit" <=> Called(t)
  /\ s = "own_commit" => ~optimize
  /\ ~Passive(t) /\ s # pc[t]
  /\ ~TakenOver(t) \/ waitee[t] = NoGroup

(* What such a step keeps of the locks, the queue, the chains and the      *)
(* order.                                                                  *)
LEMMA PassLemma ==
  ASSUME IInv, NEW t \in Threads, NEW s, PassStep(t, s)
  PROVE  /\ LocksInv' /\ QueueInv' /\ ChainInv'
         /\ OrderKept'
         /\ Taken' = Taken \ {t}
<1> USE Basics
<1>1. TypeOK /\ LocksInv /\ QueueInv /\ s \in Stages
  BY DEF IInv, PassStep, Stages
<1>2. /\ pc' \in [Threads -> Stages]
      /\ pc'[t] = s /\ \A x \in Threads \ {t} : pc'[x] = pc[x]
  BY <1>1, GotoType DEF PassStep
<1>3. /\ UNCHANGED <<prepare_ordered, after_sync, commit_ordered, optimize,
                     queue, todo, is_leader, queued_by_other, next, cur, error,
                     wakeup_ready, binlog, engine, waitee>>
      /\ pc[t] \in {"wait_prior", "enqueue", "wait_ready", "leader"}
      /\ s \in {"enqueue", "returned", "own_commit", "collect"}
      /\ IF s = "collect" THEN pc[t] = "leader" /\ log_lock = NoThread /\ log_lock' = t
         ELSE UNCHANGED log_lock /\ pc[t] # "leader"
      /\ Called(t)' \/ s = "own_commit" <=> Called(t)
      /\ s = "own_commit" => ~optimize
      /\ ~Passive(t) /\ s # pc[t]
      /\ ~TakenOver(t) \/ waitee[t] = NoGroup
  BY DEF PassStep, queueVars, entryVars
<1>4. \A x \in Threads \ {t} :
        /\ TakenOver(x)' <=> TakenOver(x)
        /\ Passive(x)' <=> Passive(x)
        /\ Called(x)' <=> Called(x)
  BY <1>2, <1>3 DEF TakenOver, Passive, Called, At
<1>5. ~TakenOver(t)' /\ ~Passive(t)'
  BY <1>2, <1>3 DEF TakenOver, Passive, At
<1>6. Taken' = Taken \ {t}
  BY <1>4, <1>5 DEF Taken
<1>7. \A x \in Threads : Waits(x)' <=> Waits(x)
  BY <1>3, <1>4, <1>5 DEF Waits, InQueue
<1>8. \A x \in Threads : Pending(x)' <=> Pending(x)
  <2>1. \A x \in Threads \ {t} : Pending(x)' <=> Pending(x)
    BY <1>2, <1>3, <1>4, <1>7 DEF Pending
  <2>2. Pending(t)' <=> Called(t)' \/ s = "own_commit"
    BY <1>2, <1>3, <1>5, <1>7 DEF Pending, Waits, LeaderStages, CommitStages,
                                  OwnStages
  <2>3. Pending(t) <=> Called(t)
    BY <1>3 DEF Pending, Waits, LeaderStages, CommitStages, OwnStages
  <2> QED BY <1>3, <2>1, <2>2, <2>3
<1>9. \A x \in Threads : \/ pc'[x] = pc[x]
                         \/ {pc[x], pc'[x]} \cap LeaderStages = {}
  BY <1>2, <1>3 DEF LeaderStages, CommitStages
<1>10. ChainInv' /\ OrderKept'
  BY <1>2, <1>3, <1>7, <1>8, <1>9, GroupsKept
<1>11. LocksInv'
  <2>1. \A x \in Threads : x # NoThread
    OBVIOUS
  <2>2. commit_ordered # t
    BY <1>1, <1>3 DEF LocksInv, CommitStages
  <2> QED BY <1>1, <1>2, <1>3, <2>1, <2>2
          DEF LocksInv, At, CommitStages, OwnStages, GroupStages
<1>12. QueueInv'
  <2>1. todo[t] = <<>> /\ ~Contains(todo[t], t)
    BY <1>1, <1>3, EmptyList DEF QueueInv, At
  <2>2. Contains(queue, t) => s = "collect"
    BY <1>1, <1>3 DEF QueueInv
  <2>3. ASSUME NEW x \in Threads
        PROVE  /\ IsInjective(todo'[x])
               /\ pc'[x] \in {"queue", "ready", "enqueuing", "wait_ready"} =>
                    ~queued_by_other'[x]
               /\ queued_by_other'[x] => x \in Groups
               /\ ~At(x, "enqueuing")' => todo'[x] = <<>>
               /\ At(x, "enqueuing")' =>
                    /\ ~wakeup_ready'[x]
                    /\ todo'[x] # <<>>
                    /\ IF is_leader'[x] THEN queue' = <<>> \/ Last(queue') = x
                                        ELSE queue' # <<>>
                    /\ \/ todo'[x] = <<x>> /\ ~Contains(queue', x)
                       \/ ~Contains(todo'[x], x) /\ Contains(queue', x)
               /\ pc'[x] \in {"leader", "collect"} =>
                    queue' # <<>> /\ Last(queue') = x
    BY <1>1, <1>2, <1>3, <2>1 DEF QueueInv, At
  <2>4. \A x, y \in Threads : Contains(todo'[x], y) =>
          (y = x \/ Passive(y)') /\ ~Contains(queue', y)
    BY <1>1, <1>3, <1>4, <2>1 DEF QueueInv
  <2>5. \A x \in Threads : Contains(queue', x) =>
          pc'[x] \in {"enqueuing", "leader", "collect"} \/ Passive(x)'
    BY <1>1, <1>2, <1>3, <1>4, <2>2 DEF QueueInv
  <2>6. IsInjective(queue')
    BY <1>1, <1>3 DEF QueueInv
  <2> QED BY <2>3, <2>4, <2>5, <2>6 DEF QueueInv
<1> QED BY <1>6, <1>10, <1>11, <1>12

(* With wait_for_commit left alone but for the flag of the thread itself,  *)
(* it keeps the invariant.                                                 *)
LEMMA PassClose ==
  ASSUME IInv, NEW t \in Threads, NEW s, PassStep(t, s),
         UNCHANGED <<rplVars, outcome, late, queue_busy>>,
         UNCHANGED <<subsequent_commits_list, wakeup_error, waking,
                     wakeup_subsequent_commits_running, commit_started,
                     wakeup_blocked>>,
         opaque_pointer' \in [Groups -> BOOLEAN],
         \A g \in Groups : opaque_pointer'[g] => opaque_pointer[g] /\ g # t
  PROVE  IInv'
<1> USE Basics
<1>1. TypeOK /\ WfcInv /\ s \in Stages
  BY DEF IInv, PassStep, Stages
<1>2. /\ pc' \in [Threads -> Stages]
      /\ pc'[t] = s /\ \A x \in Threads \ {t} : pc'[x] = pc[x]
  BY <1>1, GotoType DEF PassStep
<1>3. /\ UNCHANGED <<prepare_ordered, after_sync, commit_ordered, optimize,
                     queueVars, entryVars, binlog, engine, waitee, cur>>
      /\ pc[t] \in {"wait_prior", "enqueue", "wait_ready", "leader"}
      /\ s \in {"enqueue", "returned", "own_commit", "collect"}
      /\ log_lock' \in {log_lock, t}
      /\ ~TakenOver(t) \/ waitee[t] = NoGroup
  BY DEF PassStep, entryVars
<1>4. /\ LocksInv' /\ QueueInv' /\ ChainInv'
      /\ OrderKept'
      /\ Taken' = Taken \ {t}
  BY PassLemma
<1>5. TypeOK'
  <2>1. RplTypeOK' /\ QueueTypeOK' /\ EntryTypeOK'
    BY <1>1, <1>3, TypeFrame
  <2>2. LockTypeOK'
    BY <1>1, <1>3 DEF TypeOK, LockTypeOK
  <2>3. LogTypeOK'
    BY <1>1, <1>3 DEF TypeOK, LogTypeOK
  <2>4. WfcTypeOK'
    BY <1>1, <1>3 DEF TypeOK, WfcTypeOK
  <2> QED BY <1>1, <1>2, <2>1, <2>2, <2>3, <2>4 DEF TypeOK
<1>6. WfcInv'
  <2>1. PICK T : T = Taken
    OBVIOUS
  <2>2. ListsInv(T)
    BY <1>1, <2>1 DEF WfcInv
  <2>3. t \in T => waitee[t] = NoGroup
    BY <1>3, <2>1 DEF Taken
  <2>4. ListsInv(T \ {t})'
    BY <1>3, <2>2, <2>3 DEF ListsInv
  <2>5. ListsInv(Taken)'
    BY <1>4, <2>1, <2>4
  <2>6. \A w \in Groups : wakeup_subsequent_commits_running'[w] =>
          \/ pc'[w] \in {"own_waking", "finish_waking"}
          \/ \E u \in Threads : At(u, "waking")' /\ cur'[u] = w
    <3>1. \A u \in Threads : /\ At(u, "waking")' <=> At(u, "waking")
                             /\ pc[u] \in {"own_waking", "finish_waking"} =>
                                  pc'[u] = pc[u]
      BY <1>2, <1>3 DEF At
    <3> QED BY <1>1, <1>3, <3>1 DEF WfcInv
  <2>7. \A g \in Groups :
          /\ opaque_pointer'[g] => At(g, "wait_prior")'
          /\ pc'[g] \in {"start", "retry", "finish_register"} =>
               waitee'[g] = NoGroup
    BY <1>1, <1>2, <1>3 DEF WfcInv, At
  <2> QED BY <2>5, <2>6, <2>7 DEF WfcInv
<1> QED BY <1>4, <1>5, <1>6 DEF IInv

(* The waiter finds that the prior commit is over.                         *)
LEMMA QueueWokenInv ==
  ASSUME IInv, NEW g \in Groups, QueueWoken(g)
  PROVE  IInv'
<1> USE Basics
<1>1. /\ pc[g] = "wait_prior" /\ TypeOK /\ Goto(g, "enqueue")
      /\ waitee[g] = NoGroup
      /\ opaque_pointer' = [opaque_pointer EXCEPT ![g] = FALSE]
      /\ UNCHANGED <<rplVars, lockVars, queueVars, entryVars, logVars,
                     outcome, waitee>>
      /\ UNCHANGED <<subsequent_commits_list, wakeup_error, waking,
                     wakeup_subsequent_commits_running, commit_started,
                     wakeup_blocked>>
  BY DEF QueueWoken, At, IInv
<1>2. /\ pc' \in [Threads -> Stages] /\ pc'[g] = "enqueue"
  BY <1>1, GotoType DEF Stages
<1>3. /\ UNCHANGED <<prepare_ordered, log_lock, after_sync, commit_ordered,
                     optimize, queue_busy, queued_by_other, binlog, engine,
                     late>>
  BY <1>1 DEF lockVars, queueVars, logVars
<1>4. Called(g)' <=> Called(g)
  BY <1>1, <1>2, <1>3 DEF Called, TakenOver, At
<1>5. ~Passive(g)
  BY <1>1 DEF Passive, At
<1>6. PassStep(g, "enqueue")
  BY <1>1, <1>3, <1>4, <1>5 DEF PassStep
<1>7. /\ opaque_pointer' \in [Groups -> BOOLEAN]
      /\ \A x \in Groups : opaque_pointer'[x] => opaque_pointer[x] /\ x # g
  BY <1>1 DEF TypeOK, WfcTypeOK
<1> QED BY <1>1, <1>3, <1>6, <1>7, PassClose

(* The waiter finds that the leader is done with its entry.                *)
LEMMA WakeupReadyInv ==
  ASSUME IInv, NEW t \in Threads, WakeupReady(t)
  PROVE  IInv'
<1> USE Basics
<1>1. /\ pc[t] = "wait_ready" /\ TypeOK /\ Goto(t, AfterGroup)
      /\ wakeup_ready[t]
      /\ UNCHANGED <<rplVars, lockVars, queueVars, entryVars, logVars,
                     outcome, wfcVars>>
  BY DEF WakeupReady, At, IInv
<1>2. PICK s \in {"returned", "own_commit"} :
        s = AfterGroup /\ (s = "own_commit" <=> ~optimize)
  BY DEF AfterGroup
<1>3. pc'[t] = s
  BY <1>1, <1>2, GotoType DEF Stages
<1>4. UNCHANGED <<prepare_ordered, log_lock, after_sync, commit_ordered,
                  optimize, queue_busy, binlog, engine, late, waitee,
                  opaque_pointer, queued_by_other, wakeup_ready>>
  BY <1>1 DEF lockVars, logVars, wfcVars, queueVars, entryVars
<1>5. Called(t)' \/ s = "own_commit" <=> Called(t)
  BY <1>1, <1>2, <1>3, <1>4 DEF Called, TakenOver, At
<1>6. ~Passive(t) /\ ~TakenOver(t)
  BY <1>1 DEF Passive, TakenOver, At
<1>7. PassStep(t, s)
  BY <1>1, <1>2, <1>4, <1>5, <1>6 DEF PassStep
<1>8. /\ opaque_pointer' \in [Groups -> BOOLEAN]
      /\ \A x \in Groups : opaque_pointer'[x] => opaque_pointer[x] /\ x # t
  BY <1>1, <1>4 DEF TypeOK, WfcTypeOK, IInv, WfcInv, At
<1> QED BY <1>1, <1>4, <1>7, <1>8, PassClose DEF wfcVars

(* The first thread of the queue takes LOCK_log.                           *)
LEMMA LeaderLockLogInv ==
  ASSUME IInv, NEW t \in Threads, LeaderLockLog(t)
  PROVE  IInv'
<1> USE Basics
<1>1. /\ pc[t] = "leader" /\ TypeOK /\ Goto(t, "collect")
      /\ log_lock = NoThread /\ log_lock' = t
      /\ UNCHANGED <<rplVars, prepare_ordered, after_sync, commit_ordered,
                     queue_busy, optimize, queueVars, entryVars, logVars,
                     outcome, wfcVars>>
  BY DEF LeaderLockLog, At, IInv
<1>2. pc'[t] = "collect"
  BY <1>1, GotoType DEF Stages
<1>3. UNCHANGED <<binlog, engine, late, waitee, opaque_pointer>>
  BY <1>1 DEF logVars, wfcVars
<1>4. ~Called(t)' /\ ~Called(t) /\ ~Passive(t) /\ ~TakenOver(t)
  BY <1>1, <1>2 DEF Called, Passive, TakenOver, At
<1>5. PassStep(t, "collect")
  BY <1>1, <1>3, <1>4 DEF PassStep
<1>6. /\ opaque_pointer' \in [Groups -> BOOLEAN]
      /\ \A x \in Groups : opaque_pointer'[x] => opaque_pointer[x] /\ x # t
  BY <1>1, <1>3 DEF TypeOK, WfcTypeOK, IInv, WfcInv, At
<1> QED BY <1>1, <1>3, <1>5, <1>6, PassClose DEF wfcVars

(* queue_for_group_commit() takes LOCK_prepare_ordered, with its own entry *)
(* first in line.                                                          *)
LEMMA EnqueueInv ==
  ASSUME IInv, NEW t \in Threads, Enqueue(t)
  PROVE  IInv'
<1> USE Basics
<1>1. /\ pc[t] = "enqueue" /\ TypeOK /\ LocksInv /\ QueueInv /\ WfcInv
      /\ UNCHANGED <<rplVars, log_lock, after_sync, commit_ordered,
                     queue_busy, optimize, queue, queued_by_other, unsynced,
                     next, cur, error, logVars, outcome, wfcVars>>
  BY DEF Enqueue, At, IInv
<1>2. UNCHANGED <<binlog, engine, late, waitee, opaque_pointer>>
  BY <1>1 DEF logVars, wfcVars
<1>3. ~Passive(t) /\ ~TakenOver(t)
  BY <1>1 DEF Passive, TakenOver, At
<1>4. /\ opaque_pointer' \in [Groups -> BOOLEAN]
      /\ \A x \in Groups : opaque_pointer'[x] => opaque_pointer[x] /\ x # t
  BY <1>1, <1>2 DEF TypeOK, WfcTypeOK, WfcInv, At
<1>5. CASE /\ queued_by_other[t] /\ Goto(t, AfterGroup)
           /\ UNCHANGED <<prepare_ordered, todo, is_leader, wakeup_ready>>
  <2>1. PICK s \in {"returned", "own_commit"} :
          s = AfterGroup /\ (s = "own_commit" <=> ~optimize)
    BY DEF AfterGroup
  <2>2. pc'[t] = s
    BY <1>1, <1>5, <2>1, GotoType DEF Stages
  <2>3. Called(t)' \/ s = "own_commit" <=> Called(t)
    BY <1>1, <1>2, <1>5, <2>1, <2>2 DEF Called, TakenOver, At
  <2>4. PassStep(t, s)
    BY <1>1, <1>2, <1>3, <1>5, <2>1, <2>3 DEF PassStep, queueVars, entryVars
  <2> QED BY <1>1, <1>2, <1>4, <2>4, PassClose DEF wfcVars
<1>6. CASE /\ ~queued_by_other[t] /\ t \in Groups /\ Goto(t, "failed")
           /\ UNCHANGED <<prepare_ordered, todo, is_leader, wakeup_ready>>
  <2>1. RplTypeOK' /\ late' \subseteq Threads
        /\ outcome' \in [Threads -> {"none", "ok", "error"}]
    BY <1>1, <1>2, RplTypes, TypeFrame
  <2>2. OutsideStep(t, "failed")
    BY <1>1, <1>2, <1>6, <2>1 DEF OutsideStep, Apart, ApartStages, Stages,
                     lockVars, queueVars, entryVars
  <2> QED BY <1>1, <2>2, OutsideAlone
<1>7. CASE /\ ~queued_by_other[t] /\ prepare_ordered = NoThread
           /\ prepare_ordered' = t /\ todo' = [todo EXCEPT ![t] = <<t>>]
           /\ is_leader' = [is_leader EXCEPT ![t] = (queue = <<>>)]
           /\ wakeup_ready' = [wakeup_ready EXCEPT ![t] = FALSE]
           /\ Goto(t, "enqueuing")
  <2>1. /\ pc' \in [Threads -> Stages]
        /\ pc'[t] = "enqueuing" /\ \A x \in Threads \ {t} : pc'[x] = pc[x]
    BY <1>1, <1>7, GotoType DEF Stages
  <2>2. /\ <<t>> \in Seq(Threads) /\ IsInjective(<<t>>) /\ <<t>> # <<>>
        /\ \A u : Contains(<<t>>, u) <=> u = t
    BY DEF IsInjective, Contains
  <2>3. /\ todo'[t] = <<t>> /\ ~wakeup_ready'[t]
        /\ is_leader'[t] = (queue = <<>>)
        /\ \A x \in Threads \ {t} : /\ todo'[x] = todo[x]
                                    /\ is_leader'[x] = is_leader[x]
                                    /\ wakeup_ready'[x] = wakeup_ready[x]
    BY <1>1, <1>7 DEF TypeOK, QueueTypeOK, EntryTypeOK
  <2>4. TypeOK'
    <3>1. RplTypeOK' /\ LogTypeOK' /\ WfcTypeOK'
      BY <1>1, TypeFrame
    <3>2. LockTypeOK'
      BY <1>1, <1>7 DEF TypeOK, LockTypeOK
    <3>3. is_leader' \in [Threads -> BOOLEAN]
      BY <1>1, <1>7, Zenon DEF TypeOK, QueueTypeOK
    <3>4. QueueTypeOK' /\ EntryTypeOK'
      BY <1>1, <1>7, <2>2, <3>3 DEF TypeOK, QueueTypeOK, EntryTypeOK
    <3> QED BY <1>1, <2>1, <3>1, <3>2, <3>4 DEF TypeOK
  <2>5. ~Contains(queue, t) /\ todo[t] = <<>>
    BY <1>1, <1>3 DEF QueueInv, At
  <2>6. \A x \in Threads :
          /\ TakenOver(x)' <=> TakenOver(x)
          /\ Passive(x)' <=> Passive(x)
          /\ Called(x)' <=> Called(x)
    BY <1>1, <1>2, <1>3, <1>7, <2>1, <2>3 DEF TakenOver, Passive, Called, At
  <2>7. \A x \in Threads \ {t} : InQueue(x)' <=> InQueue(x)
    <3>1. \A x \in Threads \ {t}, u \in Threads :
            Contains(todo'[u], x) <=> Contains(todo[u], x)
      BY <2>2, <2>3, <2>5, EmptyList
    <3> QED BY <1>1, <3>1 DEF InQueue
  <2>8. \A x \in Threads : Waits(x)' <=> Waits(x)
    BY <1>3, <2>6, <2>7 DEF Waits
  <2>9. \A x \in Threads : Pending(x)' <=> Pending(x)
    BY <1>1, <2>1, <2>6, <2>8 DEF Pending, LeaderStages, CommitStages, OwnStages
  <2>10. \A x \in Threads : \/ pc'[x] = pc[x]
                            \/ {pc[x], pc'[x]} \cap LeaderStages = {}
    BY <1>1, <2>1 DEF LeaderStages, CommitStages
  <2>11. ChainInv' /\ OrderKept'
    BY <1>1, <1>2, <2>8, <2>9, <2>10, GroupsKept
  <2>12. LocksInv'
    <3>1. commit_ordered # t /\ log_lock # t /\ after_sync # t
      BY <1>1 DEF LocksInv, CommitStages, At
    <3> QED BY <1>1, <1>7, <2>1, <3>1
            DEF LocksInv, At, CommitStages, OwnStages, GroupStages
  <2>13. WfcInv'
    <3>1. Taken' = Taken
      BY <2>6 DEF Taken
    <3>2. ListsInv(Taken)'
      BY <1>1, <3>1 DEF WfcInv, ListsInv, wfcVars
    <3>3. \A w \in Groups : wakeup_subsequent_commits_running'[w] =>
            \/ pc'[w] \in {"own_waking", "finish_waking"}
            \/ \E u \in Threads : At(u, "waking")' /\ cur'[u] = w
      BY <1>1, <2>1 DEF WfcInv, At, wfcVars
    <3>4. \A g \in Groups :
            /\ opaque_pointer'[g] => At(g, "wait_prior")'
            /\ pc'[g] \in {"start", "retry", "finish_register"} =>
                 waitee'[g] = NoGroup
      BY <1>1, <2>1 DEF WfcInv, At, wfcVars
    <3> QED BY <3>2, <3>3, <3>4 DEF WfcInv
  <2>14. QueueInv'
    <3>1. \A x \in Threads \ {t} : ~At(x, "enqueuing") /\ todo[x] = <<>>
      BY <1>1, <1>7 DEF LocksInv, QueueInv
    <3>2. ASSUME NEW x \in Threads
          PROVE  /\ IsInjective(todo'[x])
                 /\ pc'[x] \in {"queue", "ready", "enqueuing", "wait_ready"} =>
                      ~queued_by_other'[x]
                 /\ queued_by_other'[x] => x \in Groups
                 /\ ~At(x, "enqueuing")' => todo'[x] = <<>>
                 /\ At(x, "enqueuing")' =>
                      /\ ~wakeup_ready'[x]
                      /\ todo'[x] # <<>>
                      /\ IF is_leader'[x] THEN queue' = <<>> \/ Last(queue') = x
                                          ELSE queue' # <<>>
                      /\ \/ todo'[x] = <<x>> /\ ~Contains(queue', x)
                         \/ ~Contains(todo'[x], x) /\ Contains(queue', x)
                 /\ pc'[x] \in {"leader", "collect"} =>
                      queue' # <<>> /\ Last(queue') = x
      <4>1. CASE x = t
        <5>1. /\ IsInjective(todo'[t]) /\ ~wakeup_ready'[t] /\ todo'[t] # <<>>
              /\ todo'[t] = <<t>> /\ ~Contains(queue', t)
              /\ ~queued_by_other'[t]
          BY <1>1, <1>7, <2>2, <2>3, <2>5
        <5>2. IF is_leader'[t] THEN queue' = <<>> ELSE queue' # <<>>
          BY <1>1, <2>3
        <5> QED BY <2>1, <4>1, <5>1, <5>2 DEF At
      <4>2. CASE x # t
        <5>1. /\ todo'[x] = <<>> /\ ~At(x, "enqueuing")' /\ IsInjective(todo[x])
              /\ pc'[x] = pc[x] /\ todo[x] = <<>>
          BY <1>1, <2>1, <2>3, <3>1, <4>2 DEF At, QueueInv
        <5> QED BY <1>1, <5>1 DEF QueueInv
      <4> QED BY <4>1, <4>2
    <3>3. \A x, y \in Threads : Contains(todo'[x], y) =>
            (y = x \/ Passive(y)') /\ ~Contains(queue', y)
      <4>1. \A x, y \in Threads : Contains(todo'[x], y) => x = t /\ y = t
        BY <2>2, <2>3, <3>1, EmptyList
      <4> QED BY <1>1, <2>5, <4>1
    <3>4. \A x \in Threads : Contains(queue', x) =>
            pc'[x] \in {"enqueuing", "leader", "collect"} \/ Passive(x)'
      BY <1>1, <2>1, <2>5, <2>6 DEF QueueInv
    <3>5. IsInjective(queue')
      BY <1>1 DEF QueueInv
    <3> QED BY <3>2, <3>3, <3>4, <3>5 DEF QueueInv
  <2> QED BY <2>4, <2>11, <2>12, <2>13, <2>14 DEF IInv
<1> QED BY <1>5, <1>6, <1>7 DEF Enqueue

(* The tail of the queue stays when an entry goes in at its head.          *)
LEMMA PushLast ==
  ASSUME NEW S, NEW s \in Seq(S), NEW t \in S
  PROVE  /\ <<t>> \o s # <<>>
         /\ Last(<<t>> \o s) = IF s = <<>> THEN t ELSE Last(s)
<1>1. /\ Len(<<t>> \o s) = 1 + Len(s) /\ Len(s) \in Nat
      /\ \A i \in 1 .. Len(s) : (<<t>> \o s)[i + 1] = s[i]
      /\ (<<t>> \o s)[1] = t
  OBVIOUS
<1>2. s = <<>> <=> Len(s) = 0
  OBVIOUS
<1> QED BY <1>1, <1>2 DEF Last

(* What an entry brings along                                              *)
LEMMA ReadyList ==
  ASSUME TypeOK, NEW T, ListsInv(T), NEW e \in Threads
  PROVE  /\ ReadyWaiters(e) \in Seq(Threads) /\ ReadyWaiters(e) \in Seq(Groups)
         /\ IsInjective(ReadyWaiters(e))
         /\ \A x : Contains(ReadyWaiters(e), x) <=>
              /\ e \in Groups /\ Contains(subsequent_commits_list[e], x)
              /\ x \in Groups /\ opaque_pointer[x]
         /\ e \in Groups =>
              /\ OtherWaiters(e) \in Seq(Groups)
              /\ IsInjective(OtherWaiters(e))
              /\ \A x : Contains(OtherWaiters(e), x) <=>
                   /\ Contains(subsequent_commits_list[e], x)
                   /\ ~Contains(ReadyWaiters(e), x)
<1> USE Basics
<1>1. CASE e \notin Groups
  BY <1>1, EmptyList DEF ReadyWaiters
<1>2. CASE e \in Groups
  <2> DEFINE list == subsequent_commits_list[e]
  <2>1. list \in Seq(Groups) /\ IsInjective(list)
    BY <1>2 DEF TypeOK, WfcTypeOK, ListsInv
  <2>2. \A x : Contains(list, x) => x \in Groups
    BY <2>1, ElementOfList
  <2>3. ReadyWaiters(e) = Those(list, Ready)
    BY <1>2 DEF ReadyWaiters
  <2>4. OtherWaiters(e) = Those(list, Groups \ Ready)
    BY DEF OtherWaiters
  <2> HIDE DEF list
  <2>5. /\ Those(list, Ready) \in Seq(Groups)
        /\ IsInjective(Those(list, Ready))
        /\ \A x : Contains(Those(list, Ready), x) <=>
                    Contains(list, x) /\ x \in Ready
    BY <2>1, ThoseList
  <2>6. /\ Those(list, Groups \ Ready) \in Seq(Groups)
        /\ IsInjective(Those(list, Groups \ Ready))
        /\ \A x : Contains(Those(list, Groups \ Ready), x) <=>
                    Contains(list, x) /\ x \in Groups \ Ready
    BY <2>1, ThoseList
  <2>7. \A x : x \in Ready <=> x \in Groups /\ opaque_pointer[x]
    BY DEF Ready
  <2>8. ReadyWaiters(e) \in Seq(Threads)
    <3>1. \A q \in Seq(Groups) : q \in Seq(Threads)
      <4> SUFFICES ASSUME NEW q \in Seq(Groups) PROVE q \in Seq(Threads)
        OBVIOUS
      <4>1. /\ Len(q) \in Nat /\ q = [i \in 1 .. Len(q) |-> q[i]]
            /\ \A i \in 1 .. Len(q) : q[i] \in Groups
        BY LenProperties
      <4>2. q \in [1 .. Len(q) -> Threads]
        BY <4>1
      <4>3. \A n \in Nat : \A f \in [1 .. n -> Threads] : f \in Seq(Threads)
        OBVIOUS
      <4> QED BY <4>1, <4>2, <4>3
    <3> QED BY <2>3, <2>5, <3>1
  <2>9. list = subsequent_commits_list[e]
    BY DEF list
  <2>10. \A x : Contains(ReadyWaiters(e), x) <=>
           Contains(list, x) /\ x \in Groups /\ opaque_pointer[x]
    BY <2>3, <2>5, <2>7
  <2>11. \A x : Contains(OtherWaiters(e), x) <=>
           Contains(list, x) /\ ~Contains(ReadyWaiters(e), x)
    BY <2>2, <2>4, <2>6, <2>7, <2>10
  <2> QED BY <1>2, <2>3, <2>4, <2>5, <2>6, <2>8, <2>9, <2>10, <2>11
<1> QED BY <1>1, <1>2

(* One entry goes into the queue, and the waiters of its transaction that  *)
(* are ready follow it.                                                    *)
LEMMA EnqueueEntryInv ==
  ASSUME IInv, NEW t \in Threads, EnqueueEntry(t)
  PROVE  IInv'
<1> USE Basics
<1> DEFINE e == Head(todo[t])
           ready == ReadyWaiters(e)
           rest == Tail(todo[t]) \o ready
<1>1. /\ e = Head(todo[t]) /\ ready = ReadyWaiters(e)
      /\ rest = Tail(todo[t]) \o ready
      /\ queue' = <<e>> \o queue
      /\ todo' = [todo EXCEPT ![t] = rest]
      /\ queued_by_other' =
           [x \in Threads |-> queued_by_other[x] \/ Contains(ready, x)]
      /\ commit_started' = [g \in Groups |-> commit_started[g] \/ g = e]
      /\ subsequent_commits_list' =
           [g \in Groups |-> IF g = e THEN OtherWaiters(g)
                             ELSE subsequent_commits_list[g]]
      /\ IF rest = <<>>
         THEN /\ prepare_ordered' = NoThread
              /\ Goto(t, IF is_leader[t] THEN "leader" ELSE "wait_ready")
         ELSE UNCHANGED <<prepare_ordered, pc>>
  BY DEF EnqueueEntry
<1> HIDE DEF e, ready, rest
<1>2. /\ pc[t] = "enqueuing"
      /\ UNCHANGED <<rplVars, log_lock, after_sync, commit_ordered,
                     queue_busy, optimize, is_leader, unsynced, entryVars,
                     logVars, outcome>>
      /\ UNCHANGED <<waitee, opaque_pointer, wakeup_error,
                     wakeup_subsequent_commits_running, waking,
                     wakeup_blocked>>
      /\ UNCHANGED <<next, cur, error, wakeup_ready, binlog, engine>>
  BY DEF EnqueueEntry, At, entryVars, logVars
<1>3. TypeOK /\ LocksInv /\ QueueInv /\ WfcInv
  BY DEF IInv
<1>4. PICK T : T = Taken
  OBVIOUS
<1>5. ListsInv(T)
  BY <1>3, <1>4 DEF WfcInv
<1>6. /\ todo[t] \in Seq(Threads) /\ todo[t] # <<>> /\ IsInjective(todo[t])
      /\ queue \in Seq(Threads) /\ IsInjective(queue)
      /\ prepare_ordered = t
      /\ ~queued_by_other[t] /\ ~wakeup_ready[t]
  BY <1>2, <1>3 DEF TypeOK, QueueTypeOK, QueueInv, LocksInv, At
<1>7. /\ Tail(todo[t]) \in Seq(Threads) /\ e \in Threads
      /\ IsInjective(Tail(todo[t])) /\ Contains(todo[t], e)
      /\ \A x : Contains(Tail(todo[t]), x) <=> Contains(todo[t], x) /\ x # e
  BY <1>1, <1>6, TailList
<1>8. /\ ready \in Seq(Threads) /\ IsInjective(ready)
      /\ \A x : Contains(ready, x) <=>
           /\ e \in Groups /\ Contains(subsequent_commits_list[e], x)
           /\ x \in Groups /\ opaque_pointer[x]
      /\ e \in Groups =>
           /\ OtherWaiters(e) \in Seq(Groups)
           /\ IsInjective(OtherWaiters(e))
           /\ \A x : Contains(OtherWaiters(e), x) <=>
                /\ Contains(subsequent_commits_list[e], x)
                /\ ~Contains(ready, x)
  BY <1>1, <1>3, <1>5, <1>7, ReadyList
<1>9. \A x : Contains(ready, x) =>
        /\ x \in Groups /\ e \in Groups /\ waitee[x] = e
        /\ pc[x] = "wait_prior" /\ x \notin T /\ ~queued_by_other[x]
        /\ x # t /\ ~Passive(x) /\ ~TakenOver(x)
  <2> SUFFICES ASSUME NEW x, Contains(ready, x)
               PROVE  /\ x \in Groups /\ e \in Groups /\ waitee[x] = e
                      /\ pc[x] = "wait_prior" /\ x \notin T
                      /\ ~queued_by_other[x]
                      /\ x # t /\ ~Passive(x) /\ ~TakenOver(x)
    OBVIOUS
  <2>1. /\ e \in Groups /\ Contains(subsequent_commits_list[e], x)
        /\ x \in Groups /\ opaque_pointer[x]
    BY <1>8
  <2>2. waitee[x] = e /\ x \notin T
    BY <1>5, <2>1 DEF ListsInv
  <2>3. pc[x] = "wait_prior"
    BY <1>3, <2>1 DEF WfcInv, At
  <2>4. ~TakenOver(x) /\ ~queued_by_other[x]
    BY <1>4, <2>1, <2>2, <2>3 DEF Taken, TakenOver, At
  <2>5. ~Passive(x)
    BY <2>3, <2>4 DEF Passive, At
  <2> QED BY <1>2, <2>1, <2>2, <2>3, <2>4, <2>5
<1>10. \A x \in Threads : Contains(todo[t], x) =>
         (x = t \/ Passive(x)) /\ ~Contains(queue, x)
  BY <1>3 DEF QueueInv
<1>11. /\ rest \in Seq(Threads) /\ IsInjective(rest)
       /\ \A x : Contains(rest, x) <=>
            (Contains(todo[t], x) /\ x # e) \/ Contains(ready, x)
  <2>1. \A x : ~(Contains(Tail(todo[t]), x) /\ Contains(ready, x))
    BY <1>7, <1>9, <1>10, Basics
  <2>2. /\ rest \in Seq(Threads)
        /\ \A x : Contains(rest, x) <=>
             Contains(Tail(todo[t]), x) \/ Contains(ready, x)
        /\ IsInjective(rest)
    BY <1>1, <1>7, <1>8, <2>1, ConcatList
  <2> QED BY <1>7, <2>2
<1>12. /\ queue' \in Seq(Threads) /\ IsInjective(queue')
       /\ \A x : Contains(queue', x) <=> x = e \/ Contains(queue, x)
       /\ queue' # <<>>
       /\ Last(queue') = IF queue = <<>> THEN e ELSE Last(queue)
  BY <1>1, <1>6, <1>7, <1>10, PushList, PushLast
<1>13. /\ todo'[t] = rest /\ todo' \in [Threads -> Seq(Threads)]
       /\ \A x \in Threads \ {t} : todo'[x] = todo[x] /\ todo[x] = <<>>
  <2>1. \A x \in Threads \ {t} : todo[x] = <<>>
    BY <1>3, <1>6 DEF LocksInv, QueueInv
  <2> QED BY <1>1, <1>3, <1>11, <2>1 DEF TypeOK, QueueTypeOK
<1>14. /\ queued_by_other' \in [Threads -> BOOLEAN]
       /\ commit_started' \in [Groups -> BOOLEAN]
  BY <1>1, Zenon
<1>15. \A x \in Threads : queued_by_other'[x] <=>
         queued_by_other[x] \/ Contains(ready, x)
  BY <1>1
<1>16. \A g \in Groups : subsequent_commits_list'[g] =
         IF g = e THEN OtherWaiters(g) ELSE subsequent_commits_list[g]
  BY <1>1
<1>17. /\ pc' \in [Threads -> Stages]
       /\ \A x \in Threads \ {t} : pc'[x] = pc[x]
       /\ IF rest = <<>>
          THEN /\ prepare_ordered' = NoThread
               /\ pc'[t] = IF is_leader[t] THEN "leader" ELSE "wait_ready"
          ELSE prepare_ordered' = t /\ pc'[t] = "enqueuing"
  <2>1. CASE rest = <<>>
    <3>1. PICK s \in {"leader", "wait_ready"} :
            s = IF is_leader[t] THEN "leader" ELSE "wait_ready"
      OBVIOUS
    <3>2. Goto(t, s) /\ s \in Stages /\ prepare_ordered' = NoThread
      BY <1>1, <2>1, <3>1 DEF Stages
    <3> QED BY <1>3, <2>1, <3>1, <3>2, GotoType
  <2>2. CASE rest # <<>>
    BY <1>1, <1>2, <1>3, <1>6, <2>2 DEF TypeOK
  <2> QED BY <2>1, <2>2
<1> HIDE DEF Goto

<1>18. TypeOK'
  <2>1. RplTypeOK' /\ EntryTypeOK' /\ LogTypeOK'
    BY <1>2, <1>3, TypeFrame
  <2>2. LockTypeOK'
    BY <1>2, <1>3, <1>17 DEF TypeOK, LockTypeOK
  <2>3. QueueTypeOK'
    BY <1>2, <1>3, <1>12, <1>13, <1>14 DEF TypeOK, QueueTypeOK
  <2>4. subsequent_commits_list' \in [Groups -> Seq(Groups)]
    BY <1>1, <1>3, <1>8 DEF TypeOK, WfcTypeOK
  <2>5. WfcTypeOK'
    BY <1>2, <1>3, <1>14, <2>4 DEF TypeOK, WfcTypeOK
  <2> QED BY <1>2, <1>3, <1>17, <2>1, <2>2, <2>3, <2>5 DEF TypeOK
<1>19. \A x \in Threads : TakenOver(x)' <=> TakenOver(x) \/ Contains(ready, x)
  <2>1. \A x \in Threads : At(x, "wait_prior")' <=> At(x, "wait_prior")
    BY <1>2, <1>17 DEF At
  <2> QED BY <1>9, <1>15, <2>1 DEF TakenOver, At
<1>20. \A x \in Threads : Passive(x)' <=>
         \/ Passive(x)
         \/ Contains(ready, x)
         \/ x = t /\ pc'[t] = "wait_ready"
  <2>1. ~Passive(t) /\ ~TakenOver(t)
    BY <1>2 DEF Passive, TakenOver, At
  <2>2. \A x \in Threads : Contains(ready, x) => waitee[x] # NoGroup
    BY <1>9
  <2>3. \A x \in Threads \ {t} : Passive(x)' <=> Passive(x) \/ Contains(ready, x)
    BY <1>2, <1>17, <1>19, <2>2 DEF Passive, At
  <2>4. Passive(t)' <=> pc'[t] = "wait_ready"
    BY <1>2, <1>6, <1>9, <1>19, <2>1 DEF Passive, At
  <2>5. ~Contains(ready, t)
    BY <1>9
  <2> QED BY <2>1, <2>3, <2>4, <2>5
<1>21. Contains(queue, t) \/ e = t
  <2>1. \/ todo[t] = <<t>> /\ ~Contains(queue, t)
        \/ ~Contains(todo[t], t) /\ Contains(queue, t)
    BY <1>2, <1>3 DEF QueueInv, At
  <2> QED BY <1>1, <2>1
<1>22. \A x \in Threads : InQueue(x)' <=> InQueue(x) \/ Contains(ready, x)
  <2>1. \A x : ~Contains(<<>>, x)
    BY EmptyList
  <2>2. \A x \in Threads : InQueue(x) <=> Contains(queue, x) \/ Contains(todo[t], x)
    BY <1>13, <2>1 DEF InQueue
  <2>3. \A x \in Threads : InQueue(x)' <=> Contains(queue', x) \/ Contains(rest, x)
    BY <1>13, <2>1 DEF InQueue
  <2> QED BY <1>7, <1>11, <1>12, <2>2, <2>3
<1>23. \A x \in Threads : Waits(x)' <=> Waits(x)
  <2>1. InQueue(t)'
    BY <1>12, <1>21 DEF InQueue
  <2>2. ~Passive(t)
    BY <1>2 DEF Passive, TakenOver, At
  <2> QED BY <1>9, <1>20, <1>22, <2>1, <2>2 DEF Waits
<1>24. \A x \in Threads : Called(x)' <=> Called(x)
  <2>1. \A x \in Threads \ {t} : Contains(ready, x) => ~Called(x) /\ ~Called(x)'
    <3> SUFFICES ASSUME NEW x \in Threads \ {t}, Contains(ready, x)
                 PROVE  ~Called(x) /\ ~Called(x)'
      OBVIOUS
    <3>1. /\ waitee[x] # NoGroup /\ waitee'[x] # NoGroup
          /\ pc[x] = "wait_prior" /\ pc'[x] = "wait_prior"
      BY <1>2, <1>9, <1>17
    <3> QED BY <3>1 DEF Called, At
  <2>2. \A x \in Threads \ {t} : ~Contains(ready, x) => (Called(x)' <=> Called(x))
    BY <1>2, <1>15, <1>17, <1>19 DEF Called, At
  <2>3. ~Called(t)
    BY <1>2 DEF Called, TakenOver, At
  <2>4. pc'[t] \notin {"wait_prior", "enqueue"} /\ ~wakeup_ready'[t]
    BY <1>2, <1>6, <1>17
  <2>5. ~Called(t)'
    BY <2>4 DEF Called, TakenOver, At
  <2> QED BY <2>1, <2>2, <2>3, <2>5
<1>25. \A x \in Threads : Pending(x)' <=> Pending(x)
  <2>1. \A x \in Threads \ {t} : Pending(x)' <=> Pending(x)
    BY <1>2, <1>17, <1>23, <1>24 DEF Pending
  <2>2. Pending(t) <=> Waits(t) \/ Called(t)
    BY <1>2 DEF Pending, LeaderStages, CommitStages, OwnStages
  <2>3. pc'[t] \in {"enqueuing", "leader", "wait_ready"}
    BY <1>17
  <2>4. Pending(t)' <=> Waits(t)' \/ Called(t)'
    BY <2>3 DEF Pending, LeaderStages, CommitStages, OwnStages
  <2> QED BY <1>23, <1>24, <2>1, <2>2, <2>4
<1>26. \A x \in Threads : \/ pc'[x] = pc[x]
                          \/ {pc[x], pc'[x]} \cap LeaderStages = {}
  BY <1>2, <1>17 DEF LeaderStages, CommitStages
<1>27. ChainInv' /\ OrderKept'
  BY <1>2, <1>23, <1>25, <1>26, GroupsKept
<1>28. LocksInv'
  <2>1. \A x \in Threads \ {t} :
          /\ At(x, "enqueuing")' <=> prepare_ordered' = x
          /\ pc'[x] \in {"collect", "write", "written"} <=> log_lock' = x
          /\ At(x, "synced")' <=> after_sync' = x
          /\ pc'[x] \in CommitStages => commit_ordered' = x
          /\ commit_ordered' = x => pc'[x] \in CommitStages \cup {"own_commit"}
          /\ IF optimize' THEN pc'[x] \notin OwnStages \cup {"busy"}
                          ELSE pc'[x] \notin CommitStages
          /\ pc'[x] \in GroupStages => x \in Groups
    BY <1>2, <1>3, <1>6, <1>17 DEF LocksInv, At
  <2>2. /\ commit_ordered # t /\ log_lock # t /\ after_sync # t
    BY <1>2, <1>3 DEF LocksInv, CommitStages, At
  <2>3. pc'[t] \in {"enqueuing", "leader", "wait_ready"}
        /\ (pc'[t] = "enqueuing" <=> prepare_ordered' = t)
    BY <1>17
  <2>4. pc'[t] \notin CommitStages \cup OwnStages \cup GroupStages
                      \cup {"collect", "write", "written", "synced", "busy"}
    BY <2>3 DEF CommitStages, OwnStages, GroupStages
  <2> QED BY <1>2, <2>1, <2>2, <2>3, <2>4 DEF LocksInv, At
<1>29. WfcInv'
  <2>1. PICK T2 : T2 = T \cup {x \in Groups : Contains(ready, x)}
    OBVIOUS
  <2>2. Taken' = T2
    BY <1>4, <1>19, <2>1 DEF Taken
  <2>3. ListsInv(T2)'
    <3>1. \A w \in Groups : \A x :
            Contains(subsequent_commits_list'[w], x) <=>
              Contains(subsequent_commits_list[w], x) /\ ~Contains(ready, x)
      <4> SUFFICES ASSUME NEW w \in Groups, NEW x
                   PROVE  Contains(subsequent_commits_list'[w], x) <=>
                            /\ Contains(subsequent_commits_list[w], x)
                            /\ ~Contains(ready, x)
        OBVIOUS
      <4>1. CASE w = e
        BY <1>8, <1>16, <4>1
      <4>2. CASE w # e
        <5>1. subsequent_commits_list'[w] = subsequent_commits_list[w]
          BY <1>16, <4>2
        <5>2. Contains(ready, x) /\ Contains(subsequent_commits_list[w], x) => FALSE
          BY <1>5, <1>9, <4>2 DEF ListsInv
        <5> QED BY <5>1, <5>2
      <4> QED BY <4>1, <4>2
    <3>2. \A w \in Groups :
            /\ IsInjective(subsequent_commits_list'[w])
            /\ IsInjective(waking'[w])
            /\ waking'[w] # <<>> => wakeup_subsequent_commits_running'[w]
      BY <1>2, <1>5, <1>8, <1>16 DEF ListsInv
    <3>3. \A w \in Groups : \A x : Contains(waking[w], x) => ~Contains(ready, x)
      <4> SUFFICES ASSUME NEW w \in Groups, NEW x, Contains(waking[w], x),
                          Contains(ready, x)
                   PROVE  FALSE
        OBVIOUS
      <4>1. x \in Groups /\ waitee[x] = e /\ e \in Groups
        BY <1>9
      <4>2. w = e
        BY <1>5, <4>1 DEF ListsInv
      <4>3. Contains(subsequent_commits_list[e], x)
        BY <1>8
      <4> QED BY <1>5, <4>1, <4>2, <4>3 DEF ListsInv
    <3>4. \A x \in Groups : x \in T2 <=> x \in T \/ Contains(ready, x)
      BY <2>1
    <3>5. \A w, g \in Groups :
            /\ Contains(subsequent_commits_list'[w], g) =>
                 /\ waitee'[g] = w
                 /\ g \notin T2
                 /\ ~Contains(waking'[w], g)
            /\ Contains(waking'[w], g) => waitee'[g] = w /\ g \notin T2
            /\ waitee'[g] = w /\ g \notin T2 =>
                 \/ Contains(subsequent_commits_list'[w], g)
                 \/ Contains(waking'[w], g)
      BY <1>2, <1>5, <3>1, <3>3, <3>4 DEF ListsInv
    <3> QED BY <3>2, <3>5 DEF ListsInv
  <2>4. ListsInv(Taken)'
    BY <2>2, <2>3
  <2>5. \A w \in Groups : wakeup_subsequent_commits_running'[w] =>
          \/ pc'[w] \in {"own_waking", "finish_waking"}
          \/ \E u \in Threads : At(u, "waking")' /\ cur'[u] = w
    BY <1>2, <1>3, <1>17 DEF WfcInv, At
  <2>6. \A g \in Groups :
          /\ opaque_pointer'[g] => At(g, "wait_prior")'
          /\ pc'[g] \in {"start", "retry", "finish_register"} =>
               waitee'[g] = NoGroup
    <3>1. \A g \in Groups : /\ pc[g] = "wait_prior" => pc'[g] = "wait_prior"
                            /\ pc'[g] \in {"start", "retry", "finish_register"} =>
                                 pc'[g] = pc[g]
      BY <1>2, <1>17
    <3> QED BY <1>2, <1>3, <3>1 DEF WfcInv, At
  <2> QED BY <2>4, <2>5, <2>6 DEF WfcInv
<1>30. QueueInv'
  <2>1. \/ todo[t] = <<t>> /\ ~Contains(queue, t) /\ e = t
        \/ ~Contains(todo[t], t) /\ Contains(queue, t)
    BY <1>1, <1>2, <1>3 DEF QueueInv, At
  <2>2. Contains(queue', t) /\ ~Contains(rest, t)
    BY <1>9, <1>11, <1>12, <2>1
  <2>3. is_leader[t] => Last(queue') = t
    <3>1. IF is_leader[t] THEN queue = <<>> \/ Last(queue) = t ELSE queue # <<>>
      BY <1>2, <1>3 DEF QueueInv, At
    <3>2. queue = <<>> => e = t
      BY <2>1, EmptyList
    <3> QED BY <1>12, <3>1, <3>2
  <2>4. /\ IsInjective(todo'[t])
        /\ ~queued_by_other'[t]
        /\ ~At(t, "enqueuing")' => todo'[t] = <<>>
        /\ At(t, "enqueuing")' =>
             /\ ~wakeup_ready'[t]
             /\ todo'[t] # <<>>
             /\ IF is_leader'[t] THEN queue' = <<>> \/ Last(queue') = t
                                 ELSE queue' # <<>>
             /\ ~Contains(todo'[t], t) /\ Contains(queue', t)
        /\ pc'[t] \in {"leader", "collect"} => queue' # <<>> /\ Last(queue') = t
    BY <1>2, <1>6, <1>9, <1>11, <1>12, <1>13, <1>15, <1>17, <2>2, <2>3 DEF At
  <2>5. ASSUME NEW x \in Threads \ {t}
        PROVE  /\ IsInjective(todo'[x])
               /\ pc'[x] \in {"queue", "ready", "enqueuing", "wait_ready"} =>
                    ~queued_by_other'[x]
               /\ queued_by_other'[x] => x \in Groups
               /\ todo'[x] = <<>> /\ ~At(x, "enqueuing")'
               /\ pc'[x] \in {"leader", "collect"} =>
                    queue' # <<>> /\ Last(queue') = x
    <3>1. pc'[x] = pc[x] /\ todo'[x] = <<>> /\ pc[x] # "enqueuing"
      BY <1>3, <1>6, <1>13, <1>17 DEF LocksInv, At
    <3>2. IsInjective(<<>>)
      BY EmptyList
    <3>3. Contains(ready, x) => pc[x] = "wait_prior" /\ x \in Groups
      BY <1>9
    <3>4. /\ pc[x] \in {"queue", "ready", "enqueuing", "wait_ready"} =>
               ~queued_by_other[x]
          /\ queued_by_other[x] => x \in Groups
          /\ pc[x] \in {"leader", "collect"} => queue # <<>> /\ Last(queue) = x
      BY <1>3 DEF QueueInv
    <3> QED BY <1>12, <1>15, <3>1, <3>2, <3>3, <3>4 DEF At
  <2>6. ASSUME NEW x \in Threads, NEW y \in Threads, Contains(todo'[x], y)
        PROVE  (y = x \/ Passive(y)') /\ ~Contains(queue', y)
    <3>1. x = t /\ Contains(rest, y)
      BY <1>13, <2>6, EmptyList
    <3>2. (Contains(todo[t], y) /\ y # e) \/ Contains(ready, y)
      BY <1>11, <3>1
    <3>3. CASE Contains(todo[t], y) /\ y # e
      BY <1>10, <1>12, <1>20, <3>1, <3>3
    <3>4. CASE Contains(ready, y)
      <4>1. pc[y] = "wait_prior" /\ ~Passive(y) /\ y # t
        BY <1>9, <3>4
      <4>2. ~Contains(queue, y)
        BY <1>3, <4>1 DEF QueueInv
      <4>3. y # e
        BY <1>7, <1>10, <4>1
      <4> QED BY <1>12, <1>20, <3>4, <4>2, <4>3
    <3> QED BY <3>2, <3>3, <3>4
  <2>7. ASSUME NEW x \in Threads, Contains(queue', x)
        PROVE  pc'[x] \in {"enqueuing", "leader", "collect"} \/ Passive(x)'
    <3>1. CASE x = t
      BY <1>17, <1>20, <3>1
    <3>2. CASE x # t
      <4>1. pc[x] \in {"enqueuing", "leader", "collect"} \/ Passive(x)
        BY <1>3, <1>7, <1>10, <1>12, <2>7, <3>2 DEF QueueInv
      <4> QED BY <1>17, <1>20, <3>2, <4>1
    <3> QED BY <3>1, <3>2
  <2>8. queued_by_other'[t] => t \in Groups
    BY <2>4
  <2> QED BY <1>12, <2>4, <2>5, <2>6, <2>7, <2>8 DEF QueueInv
<1> QED BY <1>18, <1>27, <1>28, <1>29, <1>30 DEF IInv

----------------------------------------------------------------------------
(* The group commit itself                                                 *)

(* The links of a list: each element but the last leads to another one,    *)
(* no two to the same, and none to the first.                              *)
LEMMA LinkedList ==
  ASSUME NEW s \in Seq(Threads), s # <<>>, IsInjective(s),
         next \in [Threads -> Threads \cup {NoThread}]
  PROVE  /\ Linked(s) \in [Threads -> Threads \cup {NoThread}]
         /\ \A x \in Threads : ~Contains(s, x) => Linked(s)[x] = next[x]
         /\ \A x \in Threads : Contains(s, x) =>
              \/ Linked(s)[x] = NoThread
              \/ /\ Contains(s, Linked(s)[x]) /\ Linked(s)[x] # s[1]
                 /\ Linked(s)[x] \in Threads
         /\ \A x, y \in Threads :
              /\ Contains(s, x) /\ Contains(s, y) /\ x # y
              /\ Linked(s)[x] = Linked(s)[y]
              => Linked(s)[x] = NoThread
<1> USE Basics
<1>1. Len(s) \in Nat /\ Len(s) > 0 /\ \A i \in 1 .. Len(s) : s[i] \in Threads
  OBVIOUS
<1>2. \A x \in Threads : ~Contains(s, x) => Linked(s)[x] = next[x]
  BY <1>1 DEF Linked, Contains
<1>3. ASSUME NEW x \in Threads, Contains(s, x)
      PROVE  \/ Linked(s)[x] = NoThread
             \/ \E i \in 1 .. Len(s) - 1 : s[i] = x /\ Linked(s)[x] = s[1 + i]
  <2>1. CASE \E i \in 1 .. Len(s) - 1 : s[i] = x
    <3> DEFINE j == CHOOSE i \in 1 .. Len(s) - 1 : s[i] = x
    <3>1. j \in 1 .. Len(s) - 1 /\ s[j] = x
      BY <2>1
    <3>2. Linked(s)[x] = s[1 + j]
      BY <2>1 DEF Linked
    <3> HIDE DEF j
    <3> QED BY <3>1, <3>2
  <2>2. CASE ~\E i \in 1 .. Len(s) - 1 : s[i] = x
    BY <1>3, <2>2 DEF Linked
  <2> QED BY <2>1, <2>2
<1>4. \A x \in Threads : Contains(s, x) =>
        \/ Linked(s)[x] = NoThread
        \/ /\ Contains(s, Linked(s)[x]) /\ Linked(s)[x] # s[1]
           /\ Linked(s)[x] \in Threads
  <2> SUFFICES ASSUME NEW x \in Threads, Contains(s, x),
                      NEW i \in 1 .. Len(s) - 1, Linked(s)[x] = s[1 + i]
               PROVE  /\ Contains(s, Linked(s)[x]) /\ Linked(s)[x] # s[1]
                      /\ Linked(s)[x] \in Threads
    BY <1>3
  <2>1. 1 + i \in 1 .. Len(s) /\ 1 + i # 1 /\ 1 \in 1 .. Len(s)
    BY <1>1
  <2>2. s[1 + i] # s[1]
    BY <1>1, <2>1 DEF IsInjective
  <2> QED BY <1>1, <2>1, <2>2 DEF Contains
<1>5. ASSUME NEW x \in Threads, NEW y \in Threads, Contains(s, x),
             Contains(s, y), x # y, Linked(s)[x] = Linked(s)[y]
      PROVE  Linked(s)[x] = NoThread
  <2> SUFFICES ASSUME Linked(s)[x] # NoThread PROVE FALSE
    OBVIOUS
  <2>1. PICK i \in 1 .. Len(s) - 1 : s[i] = x /\ Linked(s)[x] = s[1 + i]
    BY <1>3, <1>5
  <2>2. PICK j \in 1 .. Len(s) - 1 : s[j] = y /\ Linked(s)[y] = s[1 + j]
    BY <1>3, <1>5
  <2>3. s[1 + i] = s[1 + j]
    BY <1>5, <2>1, <2>2
  <2>4. 1 + i \in 1 .. Len(s) /\ 1 + j \in 1 .. Len(s)
    BY <1>1
  <2>5. 1 + i = 1 + j
    BY <1>1, <2>3, <2>4 DEF IsInjective
  <2>6. i = j
    BY <2>5
  <2> QED BY <1>5, <2>1, <2>2, <2>6
<1>6. Linked(s) \in [Threads -> Threads \cup {NoThread}]
  <2>1. \A x \in Threads : Linked(s)[x] \in Threads \cup {NoThread}
    BY <1>2, <1>4
  <2>2. Linked(s) = [x \in Threads |-> Linked(s)[x]]
    BY DEF Linked
  <2> QED BY <2>1, <2>2
<1> QED BY <1>2, <1>4, <1>5, <1>6

(* One thread moves on.  What the steps of the group commit have in common *)
(* outside of the groups.                                                  *)
LEMMA LeaderCollectFacts ==
  ASSUME IInv, NEW t \in Threads, LeaderCollect(t)
  PROVE  /\ pc[t] = "collect" /\ prepare_ordered = NoThread /\ log_lock = t
         /\ Contains(queue, t) /\ Last(queue) = t
         /\ \A x \in Threads : todo[x] = <<>>
         /\ \A x \in Threads : Contains(queue, x) /\ x # t => Passive(x)
         /\ \A x \in Threads \ {t} : pc[x] \notin {"leader", "collect"}
         /\ next' \in [Threads -> Threads \cup {NoThread}]
         /\ \A x \in Threads : ~Contains(queue, x) => next'[x] = next[x]
         /\ \A x \in Threads : Contains(queue, x) =>
              \/ next'[x] = NoThread
              \/ next'[x] \in Threads /\ Contains(queue, next'[x]) /\ next'[x] # t
         /\ \A x, y \in Threads :
              /\ Contains(queue, x) /\ Contains(queue, y) /\ x # y
              /\ next'[x] = next'[y]
              => next'[x] = NoThread
<1> USE Basics
<1>1. pc[t] = "collect" /\ prepare_ordered = NoThread
  BY DEF LeaderCollect, At
<1>2. TypeOK /\ LocksInv /\ QueueInv
  BY DEF IInv
<1>3. /\ queue \in Seq(Threads) /\ queue # <<>> /\ Last(queue) = t
      /\ IsInjective(queue) /\ next \in [Threads -> Threads \cup {NoThread}]
  BY <1>1, <1>2 DEF TypeOK, QueueTypeOK, EntryTypeOK, QueueInv
<1>4. /\ Reverse(queue) \in Seq(Threads) /\ IsInjective(Reverse(queue))
      /\ \A x : Contains(Reverse(queue), x) <=> Contains(queue, x)
  BY <1>3, ReverseList
<1>5. Contains(queue, t)
  BY <1>3 DEF Contains, Last
<1>6. Reverse(queue) # <<>> /\ Reverse(queue)[1] = t
  <2>1. Len(queue) \in Nat /\ Len(queue) > 0
    BY <1>3
  <2> QED BY <1>3, <2>1 DEF Reverse, Last
<1>7. next' = Linked(Reverse(queue))
  BY DEF LeaderCollect
<1>8. log_lock = t /\ \A x \in Threads : ~At(x, "enqueuing")
  BY <1>1, <1>2 DEF LocksInv
<1>9. \A x \in Threads : todo[x] = <<>>
  BY <1>2, <1>8 DEF QueueInv
<1>10. \A x \in Threads \ {t} : pc[x] \notin {"leader", "collect"}
  BY <1>2, <1>3 DEF QueueInv
<1>11. \A x \in Threads : Contains(queue, x) /\ x # t => Passive(x)
  BY <1>2, <1>8, <1>10 DEF QueueInv, At
<1>12. /\ next' \in [Threads -> Threads \cup {NoThread}]
       /\ \A x \in Threads : ~Contains(queue, x) => next'[x] = next[x]
       /\ \A x \in Threads : Contains(queue, x) =>
            \/ next'[x] = NoThread
            \/ next'[x] \in Threads /\ Contains(queue, next'[x]) /\ next'[x] # t
       /\ \A x, y \in Threads :
            /\ Contains(queue, x) /\ Contains(queue, y) /\ x # y
            /\ next'[x] = next'[y]
            => next'[x] = NoThread
  BY <1>3, <1>4, <1>6, <1>7, LinkedList
<1> QED BY <1>1, <1>3, <1>5, <1>8, <1>9, <1>10, <1>11, <1>12

(* The leader takes the queue over and reverses it: its entries become the *)
(* newest group, none of them written yet.                                 *)
LEMMA LeaderCollectInv ==
  ASSUME IInv, NEW t \in Threads, LeaderCollect(t)
  PROVE  IInv'
<1> USE Basics
<1>1. /\ pc[t] = "collect" /\ prepare_ordered = NoThread /\ log_lock = t
      /\ Contains(queue, t) /\ Last(queue) = t
      /\ \A x \in Threads : todo[x] = <<>>
      /\ \A x \in Threads : Contains(queue, x) /\ x # t => Passive(x)
      /\ \A x \in Threads \ {t} : pc[x] \notin {"leader", "collect"}
      /\ next' \in [Threads -> Threads \cup {NoThread}]
  BY LeaderCollectFacts
<1>2. /\ \A x \in Threads : ~Contains(queue, x) => next'[x] = next[x]
      /\ \A x \in Threads : Contains(queue, x) =>
           \/ next'[x] = NoThread
           \/ next'[x] \in Threads /\ Contains(queue, next'[x]) /\ next'[x] # t
      /\ \A x, y \in Threads :
           /\ Contains(queue, x) /\ Contains(queue, y) /\ x # y
           /\ next'[x] = next'[y]
           => next'[x] = NoThread
  BY LeaderCollectFacts
<1>3. /\ cur' = [cur EXCEPT ![t] = t] /\ queue' = <<>> /\ Goto(t, "write")
      /\ UNCHANGED <<rplVars, lockVars, todo, is_leader, queued_by_other,
                     error, wakeup_ready, logVars, outcome, wfcVars>>
      /\ UNCHANGED <<prepare_ordered, log_lock, after_sync, commit_ordered,
                     optimize, binlog, engine, waitee>>
  BY <1>1 DEF LeaderCollect, lockVars, logVars, wfcVars
<1>4. TypeOK /\ LocksInv /\ QueueInv /\ WfcInv /\ ChainInv
  BY DEF IInv
<1>5. /\ pc' \in [Threads -> Stages]
      /\ pc'[t] = "write" /\ \A x \in Threads \ {t} : pc'[x] = pc[x]
  BY <1>3, <1>4, GotoType DEF Stages
<1>6. cur'[t] = t /\ \A x \in Threads \ {t} : cur'[x] = cur[x]
  BY <1>3, <1>4 DEF TypeOK, EntryTypeOK
<1>7. TypeOK'
  <2>1. RplTypeOK' /\ LockTypeOK' /\ LogTypeOK' /\ WfcTypeOK'
    BY <1>3, <1>4, TypeFrame
  <2>2. <<>> \in Seq(Threads)
    BY EmptyList
  <2>3. unsynced \subseteq Threads /\ ToSet(queue) \subseteq Threads
    BY <1>4 DEF TypeOK, QueueTypeOK, ToSet
  <2>4. unsynced' \subseteq Threads
    BY <2>3 DEF LeaderCollect, SyncResult
  <2>5. QueueTypeOK' /\ EntryTypeOK'
    BY <1>1, <1>3, <1>4, <2>2, <2>4 DEF TypeOK, QueueTypeOK, EntryTypeOK
  <2> QED BY <1>3, <1>4, <1>5, <2>1, <2>5 DEF TypeOK
<1>8. \A x \in Threads : (TakenOver(x)' <=> TakenOver(x)) /\
                         (Passive(x)' <=> Passive(x)) /\
                         (Called(x)' <=> Called(x))
  BY <1>1, <1>3, <1>5 DEF TakenOver, Passive, Called, At
<1>9. \A x \in Threads : ~InQueue(x)' /\ (InQueue(x) <=> Contains(queue, x))
  BY <1>1, <1>3, EmptyList DEF InQueue
<1>10. ~Passive(t) /\ ~Called(t)
  BY <1>1 DEF Passive, Called, TakenOver, At
<1>11. \A x \in Threads :
         /\ Waits(x) <=> Passive(x) /\ ~Contains(queue, x)
         /\ Waits(x)' <=> Passive(x)
  BY <1>8, <1>9 DEF Waits
<1>12. \A x \in Threads : Contains(queue, x) => ~Pending(x) /\ Pending(x)'
  <2> SUFFICES ASSUME NEW x \in Threads, Contains(queue, x)
               PROVE  ~Pending(x) /\ Pending(x)'
    OBVIOUS
  <2>1. CASE x = t
    BY <1>1, <1>5, <1>10, <1>11, <2>1
       DEF Pending, LeaderStages, CommitStages, OwnStages
  <2>2. CASE x # t
    <3>1. Passive(x) /\ ~Called(x)
      BY <1>1, <2>2 DEF Passive, Called, TakenOver, At
    <3>2. pc[x] \in {"wait_ready", "wait_prior"}
      BY <3>1 DEF Passive, TakenOver, At
    <3> QED BY <1>11, <3>1, <3>2
            DEF Pending, LeaderStages, CommitStages, OwnStages
  <2> QED BY <2>1, <2>2
<1>13. \A x \in Threads : ~Contains(queue, x) => (Pending(x)' <=> Pending(x))
  <2> SUFFICES ASSUME NEW x \in Threads, ~Contains(queue, x)
               PROVE  Pending(x)' <=> Pending(x)
    OBVIOUS
  <2>1. x # t
    BY <1>1
  <2>2. pc'[x] = pc[x] /\ cur'[x] = cur[x] /\ (Waits(x)' <=> Waits(x))
    BY <1>5, <1>6, <1>11, <2>1
  <2> QED BY <1>8, <2>2 DEF Pending
(* A leader is not in the queue, nor is the one it looks at.               *)
<1>14. ASSUME NEW u \in Threads, pc[u] \in LeaderStages
       PROVE  /\ ~Contains(queue, u) /\ cur[u] \in Threads
              /\ ~Contains(queue, cur[u])
              /\ u # t /\ pc'[u] = pc[u] /\ cur'[u] = cur[u]
  <2>1. u # t
    BY <1>1, <1>14 DEF LeaderStages, CommitStages
  <2>2. ~Passive(u)
    BY <1>14 DEF Passive, TakenOver, At, LeaderStages, CommitStages
  <2>3. ~Contains(queue, u)
    BY <1>1, <2>1, <2>2
  <2>4. cur[u] \in Threads
    BY <1>4, <1>14 DEF ChainInv
  <2>5. cur[u] = u \/ Waits(cur[u])
    BY <1>4, <1>14, <2>4 DEF ChainInv
  <2> QED BY <1>5, <1>6, <1>11, <2>1, <2>3, <2>4, <2>5
<1>15. \A u \in Threads : pc'[u] \in LeaderStages => u = t \/ pc[u] \in LeaderStages
  BY <1>5
<1>16. LocksInv'
  <2>1. commit_ordered # t /\ after_sync # t
    BY <1>1, <1>4 DEF LocksInv, CommitStages, At
  <2>2. t # NoThread
    OBVIOUS
  <2> QED BY <1>1, <1>3, <1>4, <1>5, <2>1, <2>2
          DEF LocksInv, At, CommitStages, OwnStages, GroupStages
<1>17. WfcInv'
  <2>1. Taken' = Taken
    BY <1>8 DEF Taken
  <2>2. ListsInv(Taken)'
    BY <1>3, <1>4, <2>1 DEF WfcInv, ListsInv, wfcVars
  <2>3. \A w \in Groups : wakeup_subsequent_commits_running'[w] =>
          \/ pc'[w] \in {"own_waking", "finish_waking"}
          \/ \E u \in Threads : At(u, "waking")' /\ cur'[u] = w
    BY <1>1, <1>3, <1>4, <1>5, <1>6 DEF WfcInv, At, wfcVars
  <2>4. \A g \in Groups :
          /\ opaque_pointer'[g] => At(g, "wait_prior")'
          /\ pc'[g] \in {"start", "retry", "finish_register"} =>
               waitee'[g] = NoGroup
    <3>1. \A g \in Groups :
            /\ pc[g] = "wait_prior" => pc'[g] = "wait_prior"
            /\ pc'[g] \in {"start", "retry", "finish_register"} =>
                 pc'[g] = pc[g]
      BY <1>1, <1>5
    <3>2. UNCHANGED <<opaque_pointer, waitee>>
      BY <1>3 DEF wfcVars
    <3> QED BY <1>4, <3>1, <3>2 DEF WfcInv, At
  <2> QED BY <2>2, <2>3, <2>4 DEF WfcInv
<1>18. QueueInv'
  <2>1. \A x : ~Contains(<<>>, x)
    BY EmptyList
  <2>2. \A x \in Threads :
          /\ pc'[x] \notin {"enqueuing", "leader", "collect"}
          /\ todo'[x] = <<>>
    BY <1>1, <1>3, <1>4, <1>5 DEF LocksInv, At
  <2>3. \A x \in Threads :
          /\ pc'[x] \in {"queue", "ready", "enqueuing", "wait_ready"} =>
               ~queued_by_other'[x]
          /\ queued_by_other'[x] => x \in Groups
    BY <1>3, <1>4, <1>5 DEF QueueInv
  <2>4. IsInjective(<<>>)
    BY EmptyList
  <2> QED BY <1>3, <2>1, <2>2, <2>3, <2>4 DEF QueueInv, At
<1>19. ChainInv'
  <2>1. ASSUME NEW x \in Threads, NEW y \in Threads, Pending(x)', next'[x] = y
        PROVE  Waits(y)'
    <3>1. CASE Contains(queue, x)
      BY <1>1, <1>2, <1>11, <2>1, <3>1
    <3>2. CASE ~Contains(queue, x)
      <4>1. Pending(x) /\ next[x] = y
        BY <1>2, <1>13, <2>1, <3>2
      <4> QED BY <1>4, <1>11, <4>1 DEF ChainInv
    <3> QED BY <3>1, <3>2
  <2>2. ASSUME NEW x \in Threads, NEW y \in Threads, Pending(x)', Pending(y)',
               next'[x] = next'[y], x # y, next'[x] # NoThread
        PROVE  FALSE
    <3>1. next'[x] \in Threads
      BY <1>1, <2>2
    <3>2. \A z \in Threads : Pending(z)' /\ ~Contains(queue, z) =>
            /\ Pending(z) /\ next'[z] = next[z]
            /\ next[z] \in Threads => Waits(next[z])
      BY <1>2, <1>4, <1>13 DEF ChainInv
    <3>3. CASE Contains(queue, x) /\ Contains(queue, y)
      BY <1>2, <2>2, <3>3
    <3>4. CASE ~Contains(queue, x) /\ ~Contains(queue, y)
      BY <1>4, <2>2, <3>2, <3>4 DEF ChainInv
    <3>5. CASE Contains(queue, x) /\ ~Contains(queue, y)
      BY <1>2, <1>11, <2>2, <3>1, <3>2, <3>5
    <3>6. CASE ~Contains(queue, x) /\ Contains(queue, y)
      BY <1>2, <1>11, <2>2, <3>1, <3>2, <3>6
    <3> QED BY <3>3, <3>4, <3>5, <3>6
  <2>3. ASSUME NEW u \in Threads
        PROVE  /\ pc'[u] \in LeaderStages => cur'[u] \in Threads
               /\ pc'[u] \in {"written", "synced", "busy"} => cur'[u] = u
               /\ At(u, "waking")' => cur'[u] \in Groups
    <3>1. CASE u = t
      BY <1>5, <1>6, <3>1 DEF At
    <3>2. CASE u # t
      BY <1>4, <1>5, <1>6, <3>2 DEF ChainInv, At
    <3> QED BY <3>1, <3>2
  <2>4. ASSUME NEW u \in Threads, pc'[u] \in CommitStages, NEW y \in Threads,
               Pending(y)'
        PROVE  next'[y] # cur'[u]
    <3>1. u # t
      BY <1>5, <2>4 DEF CommitStages
    <3>2. pc[u] \in CommitStages /\ pc[u] \in LeaderStages
      BY <1>5, <2>4, <3>1 DEF LeaderStages
    <3>3. cur'[u] = cur[u] /\ ~Contains(queue, cur[u]) /\ cur[u] # NoThread
      BY <1>14, <3>2
    <3>4. CASE Contains(queue, y)
      BY <1>2, <3>3, <3>4
    <3>5. CASE ~Contains(queue, y)
      <4>1. Pending(y) /\ next'[y] = next[y]
        BY <1>2, <1>13, <2>4, <3>5
      <4> QED BY <1>4, <3>2, <3>3, <4>1 DEF ChainInv
    <3> QED BY <3>4, <3>5
  <2>5. ASSUME NEW u \in Threads, NEW x \in Threads, pc'[u] \in LeaderStages,
               cur'[u] = x
        PROVE  x = u \/ Waits(x)'
    <3>1. CASE u = t
      BY <1>6, <2>5, <3>1
    <3>2. CASE u # t
      <4>1. pc[u] \in LeaderStages /\ cur[u] = x
        BY <1>5, <1>6, <2>5, <3>2
      <4> QED BY <1>4, <1>11, <4>1 DEF ChainInv
    <3> QED BY <3>1, <3>2
  <2>6. \A x, y \in Threads : Pending(x)' /\ next'[x] = y => Waits(y)'
    BY <2>1
  <2>7. \A x, y \in Threads :
          Pending(x)' /\ Pending(y)' /\ next'[x] = next'[y] /\ x # y =>
            next'[x] = NoThread
    BY <2>2
  <2> QED BY <2>3, <2>4, <2>5, <2>6, <2>7 DEF ChainInv

<1>20. PICK idx0 \in [Threads -> Nat], of0 \in [Threads -> Nat], k \in Nat :
         GroupsInv(of0, k) /\ (optimize => OrderInv(idx0, of0))
  BY DEF IInv, OrderKept
<1>21. PICK q : q = {x \in Threads : Contains(queue, x)}
  OBVIOUS
<1> DEFINE idx == [x \in Threads |-> IF x \in q THEN 0 ELSE idx0[x]]
           of == [x \in Threads |-> IF x \in q THEN k ELSE of0[x]]
<1>22. /\ idx \in [Threads -> Nat] /\ of \in [Threads -> Nat] /\ k + 1 \in Nat
       /\ \A x \in Threads : Contains(queue, x) => idx[x] = 0 /\ of[x] = k
       /\ \A x \in Threads : ~Contains(queue, x) =>
                               idx[x] = idx0[x] /\ of[x] = of0[x]
       /\ \A x \in Threads : of0[x] < k /\ of0[x] # k
  <2>1. \A x \in Threads : of0[x] < k /\ of0[x] \in Nat
    BY <1>20 DEF GroupsInv
  <2>2. \A x \in Threads : x \in q <=> Contains(queue, x)
    BY <1>21
  <2> QED BY <2>1, <2>2
<1> HIDE DEF idx, of
(* What is linked to whom                                                  *)
<1>23. ASSUME NEW x \in Threads, NEW y \in Threads, Pending(x)', next'[x] = y
       PROVE  \/ Contains(queue, x) /\ Contains(queue, y) /\ y # t
              \/ /\ ~Contains(queue, x) /\ ~Contains(queue, y)
                 /\ Pending(x) /\ next[x] = y
  <2>1. CASE Contains(queue, x)
    BY <1>2, <1>23, <2>1
  <2>2. CASE ~Contains(queue, x)
    <3>1. Pending(x) /\ next[x] = y
      BY <1>2, <1>13, <1>23, <2>2
    <3>2. Waits(y)
      BY <1>4, <3>1 DEF ChainInv
    <3> QED BY <1>11, <2>2, <3>1, <3>2
  <2> QED BY <2>1, <2>2
<1>24. GroupsInv(of, k + 1)'
  <2>1. \A x \in Threads : of[x] < k + 1
    BY <1>22
  <2>2. \A x, y \in Threads : Pending(x)' /\ next'[x] = y => of[y] = of[x]
    BY <1>20, <1>22, <1>23 DEF GroupsInv
  <2>3. ASSUME NEW u \in Threads, pc'[u] \in LeaderStages
        PROVE  of[cur'[u]] = of[u]
    <3>1. CASE u = t
      BY <1>6, <3>1
    <3>2. CASE u # t
      <4>1. /\ pc[u] \in LeaderStages /\ cur'[u] = cur[u] /\ cur[u] \in Threads
            /\ ~Contains(queue, u) /\ ~Contains(queue, cur[u])
        BY <1>14, <1>15, <2>3, <3>2
      <4>2. of0[cur[u]] = of0[u]
        BY <1>20, <4>1 DEF GroupsInv
      <4> QED BY <1>22, <4>1, <4>2
    <3> QED BY <3>1, <3>2
  <2>4. ASSUME NEW u \in Threads, NEW v \in Threads, pc'[u] \in LeaderStages,
               pc'[v] \in LeaderStages, of[v] = of[u]
        PROVE  v = u
    BY <1>1, <1>14, <1>15, <1>20, <1>22, <2>4 DEF GroupsInv
  <2>5. ASSUME NEW u \in Threads, NEW x \in Threads, pc'[u] \in LeaderStages,
               Pending(x)', of[x] = of[u]
        PROVE  x = u \/ Waits(x)'
    <3>1. CASE u = t
      <4>1. Contains(queue, x)
        BY <1>1, <1>22, <2>5, <3>1
      <4> QED BY <1>1, <1>11, <3>1, <4>1
    <3>2. CASE u # t
      <4>1. pc[u] \in LeaderStages /\ ~Contains(queue, u)
        BY <1>14, <1>15, <2>5, <3>2
      <4>2. ~Contains(queue, x)
        BY <1>22, <2>5, <4>1
      <4>3. Pending(x) /\ of0[x] = of0[u]
        BY <1>13, <1>22, <2>5, <4>1, <4>2
      <4>4. x = u \/ Waits(x)
        BY <1>20, <4>1, <4>3 DEF GroupsInv
      <4> QED BY <1>11, <4>4
    <3> QED BY <3>1, <3>2
  <2> QED BY <2>1, <2>2, <2>3, <2>4, <2>5 DEF GroupsInv
<1>25. ASSUME optimize PROVE OrderInv(idx, of)'
  <2>1. OrderInv(idx0, of0)
    BY <1>20, <1>25
  <2>2. \A u \in Threads : ~At(u, "write") /\ (At(u, "write")' => u = t)
    BY <1>1, <1>4, <1>5 DEF LocksInv, At
  <2>3. after_sync # NoThread =>
          after_sync \in Threads /\ idx[after_sync] = idx0[after_sync]
    <3> SUFFICES ASSUME after_sync # NoThread
                 PROVE  after_sync \in Threads /\ ~Contains(queue, after_sync)
      BY <1>22
    <3>1. after_sync \in Threads /\ pc[after_sync] = "synced"
      BY <1>4 DEF TypeOK, LockTypeOK, LocksInv, At
    <3> QED BY <1>14, <3>1 DEF LeaderStages
  <2>4. /\ Written' = Written
        /\ SyncedUpTo(idx)' = SyncedUpTo(idx0)
        /\ CommittedUpTo(idx)' = CommittedUpTo(idx0)
    <3>1. idx[t] = 0
      BY <1>1, <1>22
    <3>2. SyncedUpTo(idx0) = Written
      BY <1>1 DEF SyncedUpTo
    <3>3. SyncedUpTo(idx)' = Written' /\ Written' = Written
      BY <1>1, <1>3, <1>5, <3>1 DEF SyncedUpTo, Written
    <3> QED BY <1>3, <2>3, <3>2, <3>3 DEF CommittedUpTo
  <2>5. \A u \in Threads : pc[u] \in LeaderStages =>
          After(idx, u)' = After(idx0, u)
    BY <1>14, <2>4 DEF After, At
  <2>6. \A x \in Threads : ~Contains(queue, x) =>
                             End(idx, x)' = End(idx0, x)
    BY <1>3, <1>22 DEF End
  <2>7. /\ \A x \in Threads : idx[x] <= Written'
        /\ Len(engine') <= Len(binlog')
        /\ \A i \in 1 .. Len(engine') : engine'[i] = binlog'[i]
        /\ commit_ordered' = NoThread => Len(engine') + 1 = CommittedUpTo(idx)'
    <3>1. binlog \in Seq(Threads)
      BY <1>4 DEF TypeOK, LogTypeOK
    <3>2. Written \in Nat
      BY <3>1 DEF Written
    <3>3. /\ \A x \in Threads : idx0[x] <= Written
          /\ Len(engine) <= Len(binlog)
          /\ \A i \in 1 .. Len(engine) : engine[i] = binlog[i]
          /\ commit_ordered = NoThread => Len(engine) + 1 = CommittedUpTo(idx0)
      BY <2>1 DEF OrderInv
    <3>4. ASSUME NEW x \in Threads PROVE idx[x] <= Written
      <4>1. CASE Contains(queue, x)
        <5>1. idx[x] = 0
          BY <1>22, <4>1
        <5> QED BY <3>2, <5>1
      <4>2. CASE ~Contains(queue, x)
        <5>1. idx[x] = idx0[x]
          BY <1>22, <4>2
        <5> QED BY <3>3, <5>1
      <4> QED BY <4>1, <4>2
    <3>5. /\ Len(engine') <= Len(binlog')
          /\ \A i \in 1 .. Len(engine') : engine'[i] = binlog'[i]
      BY <1>3, <3>3
    <3> QED BY <1>3, <2>4, <3>3, <3>4, <3>5
  <2>8. ASSUME NEW u \in Threads, NEW x \in Threads, commit_ordered' = u,
               cur'[u] = x
        PROVE  Len(engine') + 1 =
                 IF At(u, "commit_entry")' THEN idx[x] ELSE End(idx, x)'
    <3>1. pc[u] \in LeaderStages
      BY <1>3, <1>4, <1>25, <2>8 DEF LocksInv, OwnStages, LeaderStages
    <3>2. cur[u] = x /\ ~Contains(queue, x) /\ pc'[u] = pc[u]
      BY <1>14, <2>8, <3>1
    <3>3. Len(engine) + 1 =
            IF At(u, "commit_entry") THEN idx0[x] ELSE End(idx0, x)
      BY <1>3, <2>1, <2>8, <3>2 DEF OrderInv
    <3>4. idx[x] = idx0[x] /\ End(idx, x)' = End(idx0, x)
      BY <1>22, <2>6, <3>2
    <3> QED BY <1>3, <3>2, <3>3, <3>4 DEF At
  <2>9. ASSUME NEW x \in Threads, Pending(x)', idx[x] > 0
        PROVE  /\ ~error'[x] => idx[x] <= Len(binlog') /\ binlog'[idx[x]] = x
               /\ next'[x] = NoThread =>
                    \A u \in Threads :
                      pc'[u] \in LeaderStages /\ of[u] = of[x] =>
                        ~At(u, "write")' /\ End(idx, x)' = After(idx, u)'
    <3>1. ~Contains(queue, x)
      BY <1>22, <2>9
    <3>2. Pending(x) /\ idx0[x] > 0 /\ idx[x] = idx0[x] /\ next'[x] = next[x]
      BY <1>2, <1>13, <1>22, <2>9, <3>1
    <3>3. ~error'[x] => idx[x] <= Len(binlog') /\ binlog'[idx[x]] = x
      BY <1>3, <2>1, <3>2 DEF OrderInv
    <3>4. ASSUME next'[x] = NoThread, NEW u \in Threads,
                 pc'[u] \in LeaderStages, of[u] = of[x]
          PROVE  ~At(u, "write")' /\ End(idx, x)' = After(idx, u)'
      <4>1. u # t
        BY <1>1, <1>22, <3>1, <3>4
      <4>2. pc[u] \in LeaderStages /\ ~Contains(queue, u)
        BY <1>14, <1>15, <3>4, <4>1
      <4>3. of0[u] = of0[x]
        BY <1>22, <3>1, <3>4, <4>2
      <4>4. End(idx0, x) = After(idx0, u)
        BY <2>1, <3>2, <3>4, <4>2, <4>3 DEF OrderInv
      <4> QED BY <2>2, <2>5, <2>6, <3>1, <4>1, <4>2, <4>4
    <3> QED BY <3>3, <3>4
  <2>10. ASSUME NEW x \in Threads, NEW y \in Threads, Pending(x)', next'[x] = y
         PROVE  /\ idx[x] = 0 => idx[y] = 0
                /\ idx[x] > 0 =>
                     \/ idx[y] = End(idx, x)'
                     \/ /\ End(idx, x)' = Written'
                        /\ \E u \in Threads : At(u, "write")' /\ cur'[u] = y
    <3>1. CASE Contains(queue, x)
      BY <1>22, <1>23, <2>10, <3>1
    <3>2. CASE ~Contains(queue, x)
      <4>1. ~Contains(queue, y) /\ Pending(x) /\ next[x] = y
        BY <1>23, <2>10, <3>2
      <4>2. /\ idx0[x] = 0 => idx0[y] = 0
            /\ idx0[x] > 0 => idx0[y] = End(idx0, x)
        BY <2>1, <2>2, <4>1 DEF OrderInv
      <4> QED BY <1>22, <2>6, <3>2, <4>1, <4>2
    <3> QED BY <3>1, <3>2
  <2>11. ASSUME NEW u \in Threads, At(u, "write")'
         PROVE  /\ idx[cur'[u]] = 0
                /\ idx[u] = 0 <=> cur'[u] = u
                /\ \A y \in Threads :
                     Pending(y)' /\ next'[y] = cur'[u] => idx[y] > 0
    <3>1. u = t /\ cur'[u] = t
      BY <1>6, <2>2, <2>11
    <3>2. idx[t] = 0
      BY <1>1, <1>22
    <3>3. \A y \in Threads : ~(Pending(y)' /\ next'[y] = t)
      BY <1>1, <1>23
    <3> QED BY <3>1, <3>2, <3>3
  <2>12. ASSUME NEW u \in Threads, pc'[u] \in LeaderStages, ~At(u, "write")'
         PROVE  idx[cur'[u]] > 0
    <3>1. u # t
      BY <1>5, <2>12 DEF At
    <3>2. pc[u] \in LeaderStages
      BY <1>15, <2>12, <3>1
    <3>3. idx0[cur[u]] > 0
      BY <2>1, <2>2, <3>2 DEF OrderInv
    <3> QED BY <1>14, <1>22, <3>2, <3>3
  <2> QED BY <2>7, <2>8, <2>9, <2>10, <2>11, <2>12 DEF OrderInv
<1>26. OrderKept'
  BY <1>3, <1>22, <1>24, <1>25 DEF OrderKept
<1> QED BY <1>7, <1>16, <1>17, <1>18, <1>19, <1>26 DEF IInv

(* Steps inside the group commit that signal nobody: who is in the queue,  *)
(* waits or has been called stays the same.                                *)
InsideStep(t) ==
  /\ pc' \in [Threads -> Stages]
  /\ \A x \in Threads \ {t} : pc'[x] = pc[x] /\ cur'[x] = cur[x]
  /\ pc[t] \in LeaderStages \cup OwnStages
  /\ pc'[t] \in LeaderStages \cup OwnStages
  /\ UNCHANGED <<prepare_ordered, optimize, queue, todo, is_leader,
                 queued_by_other, wakeup_ready, next>>
  /\ \A g \in Taken : waitee'[g] = waitee[g]

(* What such a step keeps of the queue and of who waits.                   *)
LEMMA InsideLemma ==
  ASSUME IInv, NEW t \in Threads, InsideStep(t)
  PROVE  /\ QueueInv'
         /\ Taken' = Taken
         /\ \A x \in Threads : /\ Waits(x)' <=> Waits(x)
                               /\ Called(x)' <=> Called(x)
         /\ ~Waits(t) /\ ~Called(t)
<1> USE Basics
<1>1. TypeOK /\ LocksInv /\ QueueInv
  BY DEF IInv
<1>2. /\ \A x \in Threads \ {t} : pc'[x] = pc[x]
      /\ pc[t] \in LeaderStages \cup OwnStages
      /\ pc'[t] \in LeaderStages \cup OwnStages
      /\ UNCHANGED <<optimize, queue, todo, is_leader, queued_by_other,
                     wakeup_ready>>
  BY DEF InsideStep
<1>3. /\ pc[t] \notin {"enqueuing", "wait_ready", "leader", "collect",
                       "wait_prior", "enqueue", "queue", "ready"}
      /\ pc'[t] \notin {"enqueuing", "wait_ready", "leader", "collect",
                        "wait_prior", "enqueue", "queue", "ready"}
  BY <1>2 DEF LeaderStages, CommitStages, OwnStages
<1>4. \A x \in Threads : TakenOver(x)' <=> TakenOver(x)
  BY <1>2, <1>3 DEF TakenOver, At
<1>5. Taken' = Taken
  BY <1>4 DEF Taken
<1>6. \A x \in Threads : TakenOver(x) => waitee'[x] = waitee[x]
  BY <1>1 DEF TakenOver, At, LocksInv, GroupStages, Taken, InsideStep
<1>7. \A x \in Threads : Passive(x)' <=> Passive(x)
  BY <1>2, <1>3, <1>4, <1>6 DEF Passive, At
<1>8. \A x \in Threads : Waits(x)' <=> Waits(x)
  BY <1>2, <1>7 DEF Waits, InQueue
<1>9. \A x \in Threads : Called(x)' <=> Called(x)
  BY <1>2, <1>3, <1>4, <1>6 DEF Called, At
<1>10. ~Waits(t) /\ ~Called(t)
  BY <1>3 DEF Waits, Passive, Called, TakenOver, At
<1>11. QueueInv'
  <2>1. IsInjective(queue')
    BY <1>1, <1>2 DEF QueueInv
  <2>2. ASSUME NEW x \in Threads
        PROVE  /\ IsInjective(todo'[x])
               /\ pc'[x] \in {"queue", "ready", "enqueuing", "wait_ready"} =>
                    ~queued_by_other'[x]
               /\ queued_by_other'[x] => x \in Groups
               /\ ~At(x, "enqueuing")' => todo'[x] = <<>>
               /\ At(x, "enqueuing")' =>
                    /\ ~wakeup_ready'[x]
                    /\ todo'[x] # <<>>
                    /\ IF is_leader'[x] THEN queue' = <<>> \/ Last(queue') = x
                                        ELSE queue' # <<>>
                    /\ \/ todo'[x] = <<x>> /\ ~Contains(queue', x)
                       \/ ~Contains(todo'[x], x) /\ Contains(queue', x)
               /\ pc'[x] \in {"leader", "collect"} =>
                    queue' # <<>> /\ Last(queue') = x
    BY <1>1, <1>2, <1>3 DEF QueueInv, At
  <2>3. \A x, y \in Threads : Contains(todo'[x], y) =>
          (y = x \/ Passive(y)') /\ ~Contains(queue', y)
    BY <1>1, <1>2, <1>7 DEF QueueInv
  <2>4. \A x \in Threads : Contains(queue', x) =>
          pc'[x] \in {"enqueuing", "leader", "collect"} \/ Passive(x)'
    BY <1>1, <1>2, <1>3, <1>7 DEF QueueInv
  <2> QED BY <2>1, <2>2, <2>3, <2>4 DEF QueueInv
<1> QED BY <1>5, <1>8, <1>9, <1>10, <1>11

(* The rest of wait_for_commit when such a step leaves it alone            *)
LEMMA InsideAlone ==
  ASSUME IInv, NEW t \in Threads, InsideStep(t), UNCHANGED wfcVars,
         pc[t] \notin {"waking", "own_waking"}
  PROVE  WfcInv'
<1> USE Basics
<1>1. WfcInv /\ Taken' = Taken
  BY InsideLemma DEF IInv
<1>2. /\ \A x \in Threads \ {t} : pc'[x] = pc[x] /\ cur'[x] = cur[x]
      /\ pc[t] \in LeaderStages \cup OwnStages
      /\ pc'[t] \in LeaderStages \cup OwnStages
  BY DEF InsideStep
<1>3. /\ pc[t] \notin {"own_waking", "finish_waking", "waking", "wait_prior"}
      /\ pc'[t] \notin {"start", "retry", "finish_register"}
  BY <1>2 DEF LeaderStages, CommitStages, OwnStages
<1>4. ListsInv(Taken)'
  BY <1>1 DEF WfcInv, ListsInv, wfcVars
<1>5. \A w \in Groups : wakeup_subsequent_commits_running'[w] =>
        \/ pc'[w] \in {"own_waking", "finish_waking"}
        \/ \E u \in Threads : At(u, "waking")' /\ cur'[u] = w
  BY <1>1, <1>2, <1>3 DEF WfcInv, At, wfcVars
<1>6. \A g \in Groups :
        /\ opaque_pointer'[g] => At(g, "wait_prior")'
        /\ pc'[g] \in {"start", "retry", "finish_register"} =>
             waitee'[g] = NoGroup
  <2>1. \A g \in Groups :
          /\ pc[g] = "wait_prior" => pc'[g] = "wait_prior"
          /\ pc'[g] \in {"start", "retry", "finish_register"} => pc'[g] = pc[g]
    BY <1>2, <1>3
  <2>2. UNCHANGED <<opaque_pointer, waitee>>
    BY DEF wfcVars
  <2> QED BY <1>1, <2>1, <2>2 DEF WfcInv, At
<1> QED BY <1>4, <1>5, <1>6 DEF WfcInv

(* The leader writes one entry to the binary log: its place is the next    *)
(* one, and nobody else's changes.                                         *)
LEMMA LeaderWriteInv ==
  ASSUME IInv, NEW t \in Threads, LeaderWrite(t)
  PROVE  IInv'
<1> USE Basics
<1>1. PICK e : e = cur[t]
  OBVIOUS
<1>2. PICK fails \in BOOLEAN :
        /\ error' = [error EXCEPT ![e] = fails]
        /\ binlog' = IF fails THEN binlog ELSE Append(binlog, e)
  BY <1>1 DEF LeaderWrite
<1>3. /\ pc[t] = "write"
      /\ IF next[e] = NoThread
         THEN cur' = [cur EXCEPT ![t] = t] /\ Goto(t, "written")
         ELSE cur' = [cur EXCEPT ![t] = next[e]] /\ UNCHANGED pc
      /\ UNCHANGED <<rplVars, lockVars, queueVars, next, wakeup_ready, engine,
                     late, outcome, wfcVars>>
      /\ UNCHANGED <<prepare_ordered, log_lock, after_sync, commit_ordered,
                     optimize, queue, todo, is_leader, queued_by_other, waitee>>
  BY <1>1 DEF LeaderWrite, At, lockVars, queueVars, wfcVars
<1>4. TypeOK /\ LocksInv /\ ChainInv
  BY DEF IInv
<1>5. /\ pc \in [Threads -> Stages] /\ cur \in [Threads -> Threads \cup {NoThread}]
      /\ next \in [Threads -> Threads \cup {NoThread}]
      /\ error \in [Threads -> BOOLEAN] /\ binlog \in Seq(Threads)
      /\ engine \in Seq(Threads)
  BY <1>4 DEF TypeOK, EntryTypeOK, LogTypeOK
<1>6. /\ e \in Threads /\ (e = t \/ Waits(e))
  BY <1>1, <1>3, <1>4 DEF ChainInv, LeaderStages
<1>7. /\ pc' \in [Threads -> Stages]
      /\ \A x \in Threads \ {t} : pc'[x] = pc[x] /\ cur'[x] = cur[x]
      /\ IF next[e] = NoThread THEN pc'[t] = "written" /\ cur'[t] = t
         ELSE pc'[t] = "write" /\ cur'[t] = next[e] /\ next[e] \in Threads
  <2>1. CASE next[e] = NoThread
    <3>1. Goto(t, "written") /\ cur' = [cur EXCEPT ![t] = t]
      BY <1>3, <2>1
    <3>2. /\ pc' \in [Threads -> Stages]
          /\ pc'[t] = "written" /\ \A x \in Threads \ {t} : pc'[x] = pc[x]
      BY <1>4, <3>1, GotoType DEF Stages
    <3> QED BY <1>5, <2>1, <3>1, <3>2
  <2>2. CASE next[e] # NoThread
    BY <1>3, <1>5, <1>6, <2>2
  <2> QED BY <2>1, <2>2
<1>8. TypeOK'
  <2>1. RplTypeOK' /\ LockTypeOK' /\ QueueTypeOK' /\ WfcTypeOK'
    BY <1>3, <1>4, TypeFrame
  <2>2. LogTypeOK'
    BY <1>2, <1>3, <1>4, <1>6 DEF TypeOK, LogTypeOK
  <2>3. cur' \in [Threads -> Threads \cup {NoThread}]
    BY <1>3, <1>5, <1>6
  <2>4. EntryTypeOK'
    BY <1>2, <1>3, <1>4, <1>5, <2>3 DEF TypeOK, EntryTypeOK
  <2> QED BY <1>3, <1>4, <1>7, <2>1, <2>2, <2>4 DEF TypeOK
<1>9. InsideStep(t)
  BY <1>3, <1>7 DEF InsideStep, LeaderStages
<1>10. /\ QueueInv' /\ WfcInv'
       /\ \A x \in Threads : /\ Waits(x)' <=> Waits(x)
                             /\ Called(x)' <=> Called(x)
       /\ ~Waits(t)
  BY <1>3, <1>9, InsideLemma, InsideAlone
<1>11. LocksInv'
  <2>1. log_lock = t /\ commit_ordered # t /\ after_sync # t
    BY <1>3, <1>4 DEF LocksInv, CommitStages, At
  <2>2. pc'[t] \in {"write", "written"}
    BY <1>7
  <2> QED BY <1>3, <1>4, <1>7, <2>1, <2>2
          DEF LocksInv, At, CommitStages, OwnStages, GroupStages
<1>12. \A x \in Threads : /\ pc'[x] \in LeaderStages <=> pc[x] \in LeaderStages
                          /\ pc'[x] \in CommitStages <=> pc[x] \in CommitStages
                          /\ pc'[x] \in OwnStages <=> pc[x] \in OwnStages
  BY <1>3, <1>7 DEF LeaderStages, CommitStages, OwnStages
<1>13. \A x \in Threads : Pending(x)' <=> Pending(x)
  <2>1. pc[t] \notin CommitStages
    BY <1>3 DEF CommitStages
  <2> QED BY <1>7, <1>10, <1>12, <2>1 DEF Pending
<1>14. Pending(e)
  BY <1>3, <1>6 DEF Pending, LeaderStages, CommitStages
<1>15. next[e] # NoThread => Waits(next[e]) /\ next[e] # t
  BY <1>4, <1>6, <1>7, <1>10, <1>14 DEF ChainInv
<1>16. ChainInv'
  <2>1. \A x, y \in Threads : Pending(x)' /\ next'[x] = y => Waits(y)'
    BY <1>3, <1>4, <1>10, <1>13 DEF ChainInv
  <2>2. \A x, y \in Threads :
          Pending(x)' /\ Pending(y)' /\ next'[x] = next'[y] /\ x # y =>
            next'[x] = NoThread
    BY <1>3, <1>4, <1>13 DEF ChainInv
  <2>3. ASSUME NEW u \in Threads
        PROVE  /\ pc'[u] \in LeaderStages => cur'[u] \in Threads
               /\ pc'[u] \in {"written", "synced", "busy"} => cur'[u] = u
               /\ At(u, "waking")' => cur'[u] \in Groups
               /\ pc'[u] \in CommitStages =>
                    \A y \in Threads : Pending(y)' => next'[y] # cur'[u]
    <3>1. CASE u = t
      BY <1>7, <3>1 DEF At, CommitStages
    <3>2. CASE u # t
      BY <1>3, <1>4, <1>7, <1>12, <1>13, <3>2 DEF ChainInv, At
    <3> QED BY <3>1, <3>2
  <2>4. ASSUME NEW u \in Threads, NEW x \in Threads, pc'[u] \in LeaderStages,
               cur'[u] = x
        PROVE  x = u \/ Waits(x)'
    <3>1. CASE u = t
      BY <1>7, <1>10, <1>15, <2>4, <3>1
    <3>2. CASE u # t
      BY <1>4, <1>7, <1>10, <2>4, <3>2 DEF ChainInv
    <3> QED BY <3>1, <3>2
  <2> QED BY <2>1, <2>2, <2>3, <2>4 DEF ChainInv
<1>17. PICK idx0 \in [Threads -> Nat], of \in [Threads -> Nat], k \in Nat :
         GroupsInv(of, k) /\ (optimize => OrderInv(idx0, of))
  BY DEF IInv, OrderKept
<1>18. of[e] = of[t] /\ (next[e] # NoThread => of[next[e]] = of[t])
  BY <1>1, <1>3, <1>6, <1>7, <1>14, <1>17 DEF GroupsInv, LeaderStages
<1>19. GroupsInv(of, k)'
  <2>1. \A x, y \in Threads : Pending(x)' /\ next'[x] = y => of[y] = of[x]
    BY <1>3, <1>13, <1>17 DEF GroupsInv
  <2>2. \A u \in Threads : pc'[u] \in LeaderStages => of[cur'[u]] = of[u]
    BY <1>7, <1>18, <1>17 DEF GroupsInv
  <2>3. /\ \A x \in Threads : of[x] < k
        /\ \A u, v \in Threads :
             pc'[u] \in LeaderStages /\ pc'[v] \in LeaderStages /\ of[v] = of[u] =>
               v = u
        /\ \A u, x \in Threads :
             pc'[u] \in LeaderStages /\ Pending(x)' /\ of[x] = of[u] =>
               x = u \/ Waits(x)'
    BY <1>10, <1>12, <1>13, <1>17 DEF GroupsInv
  <2> QED BY <2>1, <2>2, <2>3 DEF GroupsInv

<1>20. PICK idx \in [Threads -> Nat] :
         /\ idx[e] = Len(binlog) + 1 /\ idx[e] > 0
         /\ \A x \in Threads \ {e} : idx[x] = idx0[x]
  <2>1. [idx0 EXCEPT ![e] = Len(binlog) + 1] \in [Threads -> Nat]
    BY <1>5, <1>6
  <2> WITNESS [idx0 EXCEPT ![e] = Len(binlog) + 1] \in [Threads -> Nat]
  <2> QED BY <1>5, <1>6
<1>21. ASSUME optimize PROVE OrderInv(idx, of)'
  <2>1. OrderInv(idx0, of)
    BY <1>17, <1>21
  <2>2. /\ Len(binlog) \in Nat /\ Len(engine) \in Nat
        /\ Len(binlog') = IF fails THEN Len(binlog) ELSE Len(binlog) + 1
        /\ \A i \in 1 .. Len(binlog) : binlog'[i] = binlog[i]
        /\ ~fails => binlog'[Len(binlog) + 1] = e
    BY <1>2, <1>5, <1>6
  <2>3. \A u \in Threads : pc[u] \in {"write", "written"} => u = t
    BY <1>3, <1>4 DEF LocksInv
  <2>4. /\ idx0[e] = 0 /\ (idx0[t] = 0 <=> e = t)
        /\ \A y \in Threads : Pending(y) /\ next[y] = e => idx0[y] > 0
    BY <1>1, <1>3, <2>1 DEF OrderInv, At
  <2>5. /\ \A x \in Threads \ {e} : error'[x] = error[x]
        /\ error'[e] = fails
    BY <1>2, <1>5, <1>6
  <2>6. /\ Written' = IF fails THEN Written ELSE Written + 1
        /\ Written = Len(binlog) + 1 /\ Written \in Nat
        /\ idx[e] = Written /\ End(idx, e)' = Written'
        /\ \A x \in Threads \ {e} : End(idx, x)' = End(idx0, x)
    <3>1. End(idx, e)' = IF fails THEN idx[e] ELSE idx[e] + 1
      BY <2>5 DEF End
    <3> QED BY <1>20, <2>2, <2>5, <3>1 DEF Written, End
  <2>7. idx[t] > 0
    BY <1>20, <2>4
  (* Another leader looks at somebody else.                                *)
  <2>8. ASSUME NEW u \in Threads, pc[u] \in LeaderStages, u # t
        PROVE  /\ cur[u] \in Threads /\ cur[u] # e /\ of[u] # of[t]
               /\ cur'[u] = cur[u] /\ pc'[u] = pc[u]
               /\ pc[u] \notin {"write", "written"}
    <3>1. of[cur[u]] = of[u] /\ of[u] # of[t] /\ cur[u] \in Threads
      BY <1>3, <1>4, <1>17, <2>8 DEF GroupsInv, ChainInv, LeaderStages
    <3> QED BY <1>7, <1>18, <2>3, <2>8, <3>1
  <2>9. after_sync # NoThread =>
          after_sync \in Threads /\ idx[after_sync] = idx0[after_sync]
    <3> SUFFICES ASSUME after_sync # NoThread
                 PROVE  after_sync \in Threads /\ after_sync # e
      BY <1>20
    <3>1. after_sync \in Threads /\ pc[after_sync] = "synced"
      BY <1>4 DEF TypeOK, LockTypeOK, LocksInv, At
    <3>2. after_sync # t /\ pc[after_sync] \in LeaderStages
      BY <1>3, <3>1 DEF LeaderStages
    <3>3. ~Waits(after_sync)
      BY <3>1 DEF Waits, Passive, TakenOver, At
    <3> QED BY <1>6, <3>1, <3>2, <3>3
  <2>10. /\ SyncedUpTo(idx)' = SyncedUpTo(idx0)
         /\ CommittedUpTo(idx)' = CommittedUpTo(idx0)
    <3>1. log_lock = t /\ pc'[t] \in {"write", "written"}
      BY <1>3, <1>4, <1>7 DEF LocksInv
    <3>2. SyncedUpTo(idx)' = idx[t]
      BY <1>3, <2>7, <3>1 DEF SyncedUpTo
    <3>3. SyncedUpTo(idx0) = idx[t]
      <4>1. CASE e = t
        <5>1. idx0[t] = 0 /\ idx[t] = Written
          BY <2>4, <2>6, <4>1
        <5> QED BY <3>1, <5>1 DEF SyncedUpTo
      <4>2. CASE e # t
        <5>1. idx0[t] > 0 /\ idx[t] = idx0[t]
          BY <1>20, <2>4, <4>2
        <5> QED BY <1>3, <3>1, <5>1 DEF SyncedUpTo
      <4> QED BY <4>1, <4>2
    <3> QED BY <1>3, <2>9, <3>2, <3>3 DEF CommittedUpTo
  <2>11. \A u \in Threads : pc[u] \in LeaderStages /\ u # t =>
           After(idx, u)' = After(idx0, u)
    BY <2>8, <2>10 DEF After, At
  <2>12. /\ \A x \in Threads : idx[x] <= Written'
         /\ Len(engine') <= Len(binlog')
         /\ \A i \in 1 .. Len(engine') : engine'[i] = binlog'[i]
         /\ commit_ordered' = NoThread => Len(engine') + 1 = CommittedUpTo(idx)'
    <3>1. /\ \A x \in Threads : idx0[x] <= Written
          /\ Len(engine) <= Len(binlog)
          /\ \A i \in 1 .. Len(engine) : engine[i] = binlog[i]
          /\ commit_ordered = NoThread => Len(engine) + 1 = CommittedUpTo(idx0)
      BY <2>1 DEF OrderInv
    <3>2. ASSUME NEW x \in Threads PROVE idx[x] <= Written'
      <4>1. Written <= Written' /\ Written' \in Nat
        BY <2>6
      <4>2. idx[x] <= Written
        <5>1. CASE x = e
          BY <2>6, <5>1
        <5>2. CASE x # e
          BY <1>20, <3>1, <5>2
        <5> QED BY <5>1, <5>2
      <4>3. idx[x] \in Nat
        BY <1>20
      <4> QED BY <2>6, <4>1, <4>2, <4>3
    <3>3. \A i \in 1 .. Len(engine') : engine'[i] = binlog'[i]
      BY <1>3, <2>2, <3>1
    <3> QED BY <1>3, <2>2, <2>10, <3>1, <3>2, <3>3
  <2>13. ASSUME NEW u \in Threads, NEW x \in Threads, commit_ordered' = u,
                cur'[u] = x
         PROVE  Len(engine') + 1 =
                  IF At(u, "commit_entry")' THEN idx[x] ELSE End(idx, x)'
    <3>1. pc[u] \in CommitStages
      BY <1>3, <1>4, <1>21, <2>13 DEF LocksInv, OwnStages
    <3>2. pc[u] \in LeaderStages /\ u # t
      BY <1>3, <3>1 DEF LeaderStages, CommitStages
    <3>3. cur[u] = x /\ x # e /\ pc'[u] = pc[u]
      BY <2>8, <2>13, <3>2
    <3>4. Len(engine) + 1 =
            IF At(u, "commit_entry") THEN idx0[x] ELSE End(idx0, x)
      BY <1>3, <2>1, <2>13, <3>3 DEF OrderInv
    <3>5. idx[x] = idx0[x]
      BY <1>20, <3>3
    <3>6. End(idx, x)' = End(idx0, x)
      BY <2>6, <3>3
    <3> QED BY <1>3, <3>3, <3>4, <3>5, <3>6 DEF At
  <2>14. ASSUME NEW x \in Threads, Pending(x), idx[x] > 0
         PROVE  /\ ~error'[x] => idx[x] <= Len(binlog') /\ binlog'[idx[x]] = x
                /\ next'[x] = NoThread =>
                     \A u \in Threads :
                       pc'[u] \in LeaderStages /\ of[u] = of[x] =>
                         ~At(u, "write")' /\ End(idx, x)' = After(idx, u)'
    <3>1. CASE x = e
      <4>1. ~error'[e] => idx[e] <= Len(binlog') /\ binlog'[idx[e]] = e
        BY <1>20, <2>2, <2>5
      <4>2. ASSUME next[e] = NoThread, NEW u \in Threads,
                   pc'[u] \in LeaderStages, of[u] = of[e]
            PROVE  ~At(u, "write")' /\ End(idx, e)' = After(idx, u)'
        <5>1. u = t
          BY <1>12, <1>18, <2>8, <4>2
        <5>2. pc'[t] = "written"
          BY <1>7, <4>2
        <5> QED BY <2>6, <5>1, <5>2 DEF At, After
      <4> QED BY <1>3, <3>1, <4>1, <4>2
    <3>2. CASE x # e
      <4>1. idx[x] = idx0[x] /\ error'[x] = error[x] /\ idx0[x] > 0
        BY <1>20, <2>5, <2>14, <3>2
      <4>2. /\ ~error[x] => idx0[x] <= Len(binlog) /\ binlog[idx0[x]] = x
            /\ next[x] = NoThread =>
                 \A u \in Threads : pc[u] \in LeaderStages /\ of[u] = of[x] =>
                   ~At(u, "write") /\ End(idx0, x) = After(idx0, u)
        BY <2>1, <2>14, <4>1 DEF OrderInv
      <4>3. ~error'[x] => idx[x] <= Len(binlog') /\ binlog'[idx[x]] = x
        <5> SUFFICES ASSUME ~error[x]
                     PROVE  idx0[x] <= Len(binlog') /\ binlog'[idx0[x]] = x
          BY <4>1
        <5>1. idx0[x] \in 1 .. Len(binlog) /\ binlog[idx0[x]] = x
          BY <2>2, <4>1, <4>2
        <5> QED BY <2>2, <5>1
      <4>4. ASSUME next[x] = NoThread, NEW u \in Threads,
                   pc'[u] \in LeaderStages, of[u] = of[x]
            PROVE  ~At(u, "write")' /\ End(idx, x)' = After(idx, u)'
        <5>1. pc[u] \in LeaderStages
          BY <1>12, <4>4
        <5>2. ~At(u, "write") /\ End(idx0, x) = After(idx0, u)
          BY <4>2, <4>4, <5>1
        <5>3. u # t /\ pc'[u] = pc[u]
          BY <1>3, <2>8, <5>1, <5>2 DEF At
        <5> QED BY <2>6, <2>11, <3>2, <5>1, <5>2, <5>3 DEF At
      <4> QED BY <1>3, <4>3, <4>4
    <3> QED BY <3>1, <3>2
  <2>15. ASSUME NEW x \in Threads, NEW y \in Threads, Pending(x), next[x] = y
         PROVE  /\ idx[x] = 0 => idx[y] = 0
                /\ idx[x] > 0 =>
                     \/ idx[y] = End(idx, x)'
                     \/ /\ End(idx, x)' = Written'
                        /\ \E u \in Threads : At(u, "write")' /\ cur'[u] = y
    <3>1. /\ idx0[x] = 0 => idx0[y] = 0
          /\ idx0[x] > 0 =>
               \/ idx0[y] = End(idx0, x)
               \/ /\ End(idx0, x) = Written
                  /\ \E u \in Threads : At(u, "write") /\ cur[u] = y
      BY <2>1, <2>15 DEF OrderInv
    <3>2. CASE x = e
      <4>1. pc'[t] = "write" /\ cur'[t] = y
        BY <1>7, <2>15, <3>2
      <4>2. End(idx, x)' = Written'
        BY <2>6, <3>2
      <4>3. idx[x] > 0
        BY <1>20, <3>2
      <4>4. \E u \in Threads : At(u, "write")' /\ cur'[u] = y
        BY <4>1 DEF At
      <4> QED BY <4>2, <4>3, <4>4
    <3>3. CASE x # e /\ y = e
      <4>1. idx0[x] > 0
        BY <2>4, <2>15, <3>3
      <4>2. End(idx0, x) > 0
        BY <4>1 DEF End
      <4>3. End(idx0, x) = Written
        BY <2>4, <3>1, <3>3, <4>1, <4>2
      <4>4. idx[x] = idx0[x]
        BY <1>20, <3>3
      <4>5. idx[y] = Written /\ End(idx, x)' = End(idx0, x)
        BY <2>6, <3>3
      <4> QED BY <3>3, <4>1, <4>3, <4>4, <4>5
    <3>4. CASE x # e /\ y # e
      <4>1. idx[x] = idx0[x] /\ idx[y] = idx0[y]
        BY <1>20, <3>4
      <4>2. End(idx, x)' = End(idx0, x)
        BY <2>6, <3>4
      <4>3. ~\E u \in Threads : At(u, "write") /\ cur[u] = y
        BY <1>1, <2>3, <3>4 DEF At
      <4> QED BY <3>1, <4>1, <4>2, <4>3
    <3> QED BY <3>2, <3>3, <3>4
  <2>16. ASSUME NEW u \in Threads, At(u, "write")'
         PROVE  /\ idx[cur'[u]] = 0
                /\ idx[u] = 0 <=> cur'[u] = u
                /\ \A y \in Threads :
                     Pending(y)' /\ next'[y] = cur'[u] => idx[y] > 0
    <3>1. u = t /\ cur'[t] = next[e] /\ next[e] \in Threads /\ next[e] # NoThread
      BY <1>7, <2>3, <2>16 DEF At
    <3>2. next[e] # e
      BY <1>6, <1>14, <2>4
    <3>3. idx0[next[e]] = 0
      BY <1>6, <1>14, <2>1, <2>4, <3>1 DEF OrderInv
    <3>4. idx[next[e]] = 0
      BY <1>20, <3>1, <3>2, <3>3
    <3>5. ASSUME NEW y \in Threads, Pending(y), next[y] = next[e]
          PROVE  idx[y] > 0
      <4>1. y = e
        BY <1>4, <1>6, <1>14, <3>1, <3>5 DEF ChainInv
      <4> QED BY <1>20, <4>1
    <3> QED BY <1>3, <1>13, <1>15, <2>7, <3>1, <3>4, <3>5
  <2>17. ASSUME NEW u \in Threads, pc'[u] \in LeaderStages, ~At(u, "write")'
         PROVE  idx[cur'[u]] > 0
    <3>1. CASE u = t
      <4>1. cur'[t] = t
        BY <1>7, <2>17, <3>1 DEF At
      <4> QED BY <2>7, <3>1, <4>1
    <3>2. CASE u # t
      <4>1. /\ pc[u] \in LeaderStages /\ ~At(u, "write")
            /\ cur'[u] = cur[u] /\ cur[u] # e /\ cur[u] \in Threads
        BY <1>12, <2>8, <2>17, <3>2 DEF At
      <4>2. idx0[cur[u]] > 0
        BY <2>1, <4>1 DEF OrderInv
      <4> QED BY <1>20, <4>1, <4>2
    <3> QED BY <3>1, <3>2
  <2>18. ASSUME NEW x \in Threads, NEW y \in Threads, Pending(x)', next'[x] = y
         PROVE  /\ idx[x] = 0 => idx[y] = 0
                /\ idx[x] > 0 =>
                     \/ idx[y] = End(idx, x)'
                     \/ /\ End(idx, x)' = Written'
                        /\ \E u \in Threads : At(u, "write")' /\ cur'[u] = y
    BY <1>3, <1>13, <2>15, <2>18
  <2>19. ASSUME NEW x \in Threads, Pending(x)', idx[x] > 0
         PROVE  /\ ~error'[x] => idx[x] <= Len(binlog') /\ binlog'[idx[x]] = x
                /\ next'[x] = NoThread =>
                     \A u \in Threads :
                       pc'[u] \in LeaderStages /\ of[u] = of[x] =>
                         ~At(u, "write")' /\ End(idx, x)' = After(idx, u)'
    BY <1>13, <2>14, <2>19
  <2> QED BY <2>12, <2>13, <2>16, <2>17, <2>18, <2>19 DEF OrderInv
<1>22. OrderKept'
  BY <1>3, <1>19, <1>20, <1>21 DEF OrderKept
<1> QED BY <1>8, <1>10, <1>11, <1>16, <1>22 DEF IInv

(* The places in the binary log when no entry moves and the engines may    *)
(* commit one                                                              *)
LEMMA OrderMove ==
  ASSUME UNCHANGED <<next, cur, binlog>>,
         \A x \in Threads : /\ Pending(x)' <=> Pending(x)
                            /\ error'[x] = error[x],
         \A x \in Threads :
           /\ pc'[x] \in LeaderStages <=> pc[x] \in LeaderStages
           /\ At(x, "write")' <=> At(x, "write"),
         NEW idx, NEW of, OrderInv(idx, of),
         Len(engine') <= Len(binlog'),
         \A i \in 1 .. Len(engine') : engine'[i] = binlog'[i],
         commit_ordered' = NoThread => Len(engine') + 1 = CommittedUpTo(idx)',
         \A t, x \in Threads : commit_ordered' = t /\ cur'[t] = x =>
           Len(engine') + 1 =
             IF At(t, "commit_entry")' THEN idx[x] ELSE End(idx, x)',
         \A t \in Threads : pc[t] \in LeaderStages /\ ~At(t, "write") =>
                              After(idx, t)' = After(idx, t)
  PROVE  OrderInv(idx, of)'
<1> HIDE DEF Pending, At
<1>1. Written' = Written
  BY DEF Written
<1>2. \A x \in Threads : End(idx, x)' = End(idx, x)
  BY DEF End
<1>3. \A x \in Threads : idx[x] <= Written'
  BY <1>1 DEF OrderInv
<1>4. ASSUME NEW x \in Threads, Pending(x), idx[x] > 0
      PROVE  /\ ~error'[x] => idx[x] <= Len(binlog') /\ binlog'[idx[x]] = x
             /\ next'[x] = NoThread =>
                  \A t \in Threads :
                    pc'[t] \in LeaderStages /\ of[t] = of[x] =>
                      ~At(t, "write")' /\ End(idx, x)' = After(idx, t)'
  <2>1. /\ ~error[x] => idx[x] <= Len(binlog) /\ binlog[idx[x]] = x
        /\ next[x] = NoThread =>
             \A t \in Threads : pc[t] \in LeaderStages /\ of[t] = of[x] =>
               ~At(t, "write") /\ End(idx, x) = After(idx, t)
    BY <1>4 DEF OrderInv
  <2> QED BY <1>2, <2>1
<1>5. ASSUME NEW x \in Threads, NEW y \in Threads, Pending(x), next'[x] = y
      PROVE  /\ idx[x] = 0 => idx[y] = 0
             /\ idx[x] > 0 =>
                  \/ idx[y] = End(idx, x)'
                  \/ /\ End(idx, x)' = Written'
                     /\ \E t \in Threads : At(t, "write")' /\ cur'[t] = y
  BY <1>1, <1>2, <1>5 DEF OrderInv
<1>6. \A t \in Threads : At(t, "write")' =>
        /\ idx[cur'[t]] = 0
        /\ idx[t] = 0 <=> cur'[t] = t
        /\ \A y \in Threads : Pending(y)' /\ next'[y] = cur'[t] => idx[y] > 0
  BY DEF OrderInv
<1>7. \A t \in Threads : pc'[t] \in LeaderStages /\ ~At(t, "write")' =>
        idx[cur'[t]] > 0
  BY DEF OrderInv
<1> QED BY <1>3, <1>4, <1>5, <1>6, <1>7 DEF OrderInv

(* The groups when a thread moves on inside and looks at the same entry    *)
LEMMA InsideChain ==
  ASSUME IInv, NEW t \in Threads, InsideStep(t), UNCHANGED cur,
         pc[t] \in CommitStages => pc'[t] \in CommitStages,
         pc'[t] \in CommitStages => pc[t] \in CommitStages \/ cur[t] = t,
         pc'[t] \in LeaderStages => pc[t] \in LeaderStages,
         pc'[t] \in {"written", "synced", "busy"} => cur[t] = t,
         pc'[t] = "waking" => cur[t] \in Groups
  PROVE  /\ ChainInv'
         /\ \A x \in Threads : Pending(x)' <=> Pending(x)
         /\ \A of, k : GroupsInv(of, k) => GroupsInv(of, k)'
<1> USE Basics
<1>1. ChainInv
  BY DEF IInv
<1>2. /\ \A x \in Threads : /\ Waits(x)' <=> Waits(x)
                            /\ Called(x)' <=> Called(x)
      /\ ~Waits(t) /\ ~Called(t)
  BY InsideLemma
<1>3. /\ \A x \in Threads \ {t} : pc'[x] = pc[x]
      /\ pc[t] \in LeaderStages \cup OwnStages
      /\ pc'[t] \in LeaderStages \cup OwnStages
      /\ next' = next /\ cur' = cur
  BY DEF InsideStep
<1>4. \A x \in Threads : Pending(x)' <=> Pending(x)
  <2>1. \A x \in Threads \ {t} : Pending(x)' <=> Pending(x)
    BY <1>2, <1>3 DEF Pending
  <2>2. Pending(t)' <=> Pending(t)
    <3>1. CASE pc[t] \in CommitStages
      BY <1>2, <1>3, <3>1 DEF Pending, LeaderStages, CommitStages, OwnStages
    <3>2. CASE pc[t] \notin CommitStages
      BY <1>2, <1>3, <3>2 DEF Pending, LeaderStages
    <3> QED BY <3>1, <3>2
  <2> QED BY <2>1, <2>2
<1>5. ChainInv'
  <2>1. \A x, y \in Threads : Pending(x)' /\ next'[x] = y => Waits(y)'
    BY <1>1, <1>2, <1>3, <1>4 DEF ChainInv
  <2>2. \A x, y \in Threads :
          Pending(x)' /\ Pending(y)' /\ next'[x] = next'[y] /\ x # y =>
            next'[x] = NoThread
    BY <1>1, <1>3, <1>4 DEF ChainInv
  <2>3. ASSUME NEW u \in Threads
        PROVE  /\ pc'[u] \in LeaderStages => cur'[u] \in Threads
               /\ pc'[u] \in {"written", "synced", "busy"} => cur'[u] = u
               /\ At(u, "waking")' => cur'[u] \in Groups
               /\ pc'[u] \in CommitStages =>
                    \A y \in Threads : Pending(y)' => next'[y] # cur'[u]
    <3>1. CASE u = t
      <4>1. \A y \in Threads : Pending(y) => next[y] # t
        BY <1>1, <1>2 DEF ChainInv
      <4> QED BY <1>1, <1>3, <1>4, <3>1, <4>1 DEF ChainInv, At
    <3>2. CASE u # t
      BY <1>1, <1>3, <1>4, <3>2 DEF ChainInv, At
    <3> QED BY <3>1, <3>2
  <2>4. \A u, x \in Threads :
          pc'[u] \in LeaderStages /\ cur'[u] = x => x = u \/ Waits(x)'
    BY <1>1, <1>2, <1>3 DEF ChainInv
  <2> QED BY <2>1, <2>2, <2>3, <2>4 DEF ChainInv
<1>6. \A x \in Threads : pc'[x] \in LeaderStages => pc[x] \in LeaderStages
  BY <1>3
<1>7. ASSUME NEW of, NEW k, GroupsInv(of, k) PROVE GroupsInv(of, k)'
  BY <1>2, <1>3, <1>4, <1>6, <1>7 DEF GroupsInv
<1> QED BY <1>4, <1>5, <1>7

(* wait_for_commit when such a step begins to wake up the waiters of w     *)
LEMMA InsideBegin ==
  ASSUME IInv, NEW t \in Threads, InsideStep(t), UNCHANGED cur,
         NEW w \in Groups, ~wakeup_subsequent_commits_running[w],
         BeginWakeup(w), pc[t] \notin {"waking", "own_waking"},
         \/ pc'[t] = "waking" /\ cur[t] = w
         \/ pc'[t] = "own_waking" /\ w = t
  PROVE  WfcInv' /\ WfcTypeOK'
<1> USE Basics
<1>1. WfcInv /\ WfcTypeOK /\ Taken' = Taken
  BY InsideLemma DEF IInv, TypeOK
<1>2. /\ \A x \in Threads \ {t} : pc'[x] = pc[x]
      /\ pc[t] \in LeaderStages \cup OwnStages
      /\ pc'[t] \in LeaderStages \cup OwnStages
  BY DEF InsideStep
<1>3. /\ pc[t] \notin {"own_waking", "finish_waking", "waking", "wait_prior"}
      /\ pc'[t] \notin {"start", "retry", "finish_register"}
  BY <1>2 DEF LeaderStages, CommitStages, OwnStages
<1>4. PICK T : T = Taken
  OBVIOUS
<1>5. ListsInv(T)
  BY <1>1, <1>4 DEF WfcInv
<1>6. WfcTypeOK' /\ ListsInv(T)'
  BY <1>1, <1>5, BeginLists
<1>7. ListsInv(Taken)'
  BY <1>1, <1>4, <1>6
<1>8. ASSUME NEW v \in Groups, wakeup_subsequent_commits_running'[v]
      PROVE  \/ pc'[v] \in {"own_waking", "finish_waking"}
             \/ \E u \in Threads : At(u, "waking")' /\ cur'[u] = v
  <2>1. CASE v = w
    BY <2>1 DEF At
  <2>2. CASE v # w
    <3>1. wakeup_subsequent_commits_running[v]
      BY <1>1, <1>8, <2>2 DEF BeginWakeup, WfcTypeOK
    <3>2. \/ pc[v] \in {"own_waking", "finish_waking"}
          \/ \E u \in Threads : At(u, "waking") /\ cur[u] = v
      BY <1>1, <3>1 DEF WfcInv
    <3> QED BY <1>2, <1>3, <3>2 DEF At
  <2> QED BY <2>1, <2>2
<1>9. \A g \in Groups :
        /\ opaque_pointer'[g] => At(g, "wait_prior")'
        /\ pc'[g] \in {"start", "retry", "finish_register"} =>
             waitee'[g] = NoGroup
  <2>1. \A g \in Groups :
          /\ pc[g] = "wait_prior" => pc'[g] = "wait_prior"
          /\ pc'[g] \in {"start", "retry", "finish_register"} => pc'[g] = pc[g]
    BY <1>2, <1>3
  <2>2. UNCHANGED <<opaque_pointer, waitee>>
    BY DEF BeginWakeup
  <2> QED BY <1>1, <2>1, <2>2 DEF WfcInv, At
<1> QED BY <1>6, <1>7, <1>8, <1>9 DEF WfcInv

(* What the walk over the waiters of w does to those that were taken over: *)
(* nothing.                                                                *)
LEMMA WalkTaken ==
  ASSUME IInv, NEW w \in Groups, NEW err \in BOOLEAN,
         WakeNext(w, err) \/ EndWakeup(w)
  PROVE  /\ WfcTypeOK'
         /\ \A T : T = Taken => ListsInv(T)'
         /\ \A g \in Taken : waitee'[g] = waitee[g]
         /\ opaque_pointer' = opaque_pointer
         /\ \A g \in Groups : waitee[g] = NoGroup => waitee'[g] = NoGroup
         /\ \A v \in Groups : wakeup_subsequent_commits_running'[v] =>
                                wakeup_subsequent_commits_running[v]
         /\ EndWakeup(w) => ~wakeup_subsequent_commits_running'[w]
<1> USE Basics
<1>1. PICK T : T = Taken
  OBVIOUS
<1>2. WfcTypeOK /\ ListsInv(T)
  BY <1>1 DEF IInv, TypeOK, WfcInv
<1>3. CASE WakeNext(w, err)
  <2>1. /\ WfcTypeOK' /\ ListsInv(T)'
        /\ \A x \in T : waitee'[x] = waitee[x]
    BY <1>2, <1>3, WakeLists
  <2>2. /\ waking[w] # <<>>
        /\ waitee' = [waitee EXCEPT ![Head(waking[w])] = NoGroup]
        /\ UNCHANGED <<opaque_pointer, wakeup_subsequent_commits_running>>
    BY <1>3 DEF WakeNext, Woken
  <2>3. \A g \in Groups : waitee[g] = NoGroup => waitee'[g] = NoGroup
    BY <1>2, <2>2 DEF WfcTypeOK
  <2>4. ~EndWakeup(w)
    BY <2>2 DEF EndWakeup
  <2> QED BY <1>1, <2>1, <2>2, <2>3, <2>4
<1>4. CASE EndWakeup(w)
  <2>1. WfcTypeOK' /\ ListsInv(T)'
    BY <1>2, <1>4, EndLists
  <2>2. /\ UNCHANGED <<opaque_pointer, waitee>>
        /\ \A v \in Groups : wakeup_subsequent_commits_running'[v] =
             IF v = w THEN FALSE ELSE wakeup_subsequent_commits_running[v]
    BY <1>2, <1>4 DEF EndWakeup, WfcTypeOK
  <2> QED BY <1>1, <2>1, <2>2
<1> QED BY <1>3, <1>4

(* Such a walk, by whoever is inside                                       *)
LEMMA InsideWalk ==
  ASSUME IInv, NEW t \in Threads, NEW w \in Groups, NEW err \in BOOLEAN,
         NEW from, NEW done, WakeupStep(t, w, err, from, done),
         \/ from = "waking" /\ cur[t] = w /\ done = "wake_entry"
         \/ from = "own_waking" /\ w = t /\ done = "own_signal"
  PROVE  /\ TypeOK' /\ WfcInv' /\ InsideStep(t)
         /\ pc[t] = from /\ pc'[t] \in {from, done}
<1> USE Basics
<1>1. /\ pc[t] = from /\ (WakeNext(w, err) \/ EndWakeup(w))
      /\ UNCHANGED <<rplVars, lockVars, queueVars, entryVars, logVars, outcome>>
      /\ \/ WakeNext(w, err) /\ UNCHANGED pc
         \/ EndWakeup(w) /\ Goto(t, done)
      /\ TypeOK /\ WfcInv
  BY DEF WakeupStep, At, IInv
<1>2. /\ WfcTypeOK'
      /\ \A T : T = Taken => ListsInv(T)'
      /\ \A g \in Taken : waitee'[g] = waitee[g]
      /\ opaque_pointer' = opaque_pointer
      /\ \A g \in Groups : waitee[g] = NoGroup => waitee'[g] = NoGroup
      /\ \A v \in Groups : wakeup_subsequent_commits_running'[v] =>
                             wakeup_subsequent_commits_running[v]
      /\ EndWakeup(w) => ~wakeup_subsequent_commits_running'[w]
  BY <1>1, WalkTaken
<1>3. /\ pc' \in [Threads -> Stages] /\ pc'[t] \in {from, done}
      /\ \A x \in Threads \ {t} : pc'[x] = pc[x]
      /\ UNCHANGED pc \/ (EndWakeup(w) /\ pc'[t] = done)
  <2>1. CASE UNCHANGED pc
    BY <1>1, <2>1 DEF TypeOK
  <2>2. CASE EndWakeup(w) /\ Goto(t, done)
    BY <1>1, <2>2, GotoType DEF Stages
  <2> QED BY <1>1, <2>1, <2>2
<1>4. TypeOK'
  <2>1. RplTypeOK' /\ LockTypeOK' /\ QueueTypeOK' /\ EntryTypeOK' /\ LogTypeOK'
    BY <1>1, TypeFrame
  <2> QED BY <1>1, <1>2, <1>3, <2>1 DEF TypeOK
<1>5. InsideStep(t)
  BY <1>1, <1>2, <1>3 DEF InsideStep, lockVars, queueVars, entryVars,
                          LeaderStages, CommitStages, OwnStages
<1>6. cur' = cur /\ Taken' = Taken
  BY <1>1, <1>5, InsideLemma DEF entryVars
<1>7. PICK T : T = Taken
  OBVIOUS
<1>8. ListsInv(Taken)'
  <2>1. ListsInv(T)'
    BY <1>2, <1>7
  <2> QED BY <1>6, <1>7, <2>1
<1>9. ASSUME NEW v \in Groups, wakeup_subsequent_commits_running'[v]
      PROVE  \/ pc'[v] \in {"own_waking", "finish_waking"}
             \/ \E u \in Threads : At(u, "waking")' /\ cur'[u] = v
  <2>1. \/ pc[v] \in {"own_waking", "finish_waking"}
        \/ \E u \in Threads : At(u, "waking") /\ cur[u] = v
    BY <1>1, <1>2, <1>9 DEF WfcInv
  <2>2. CASE UNCHANGED pc
    BY <1>6, <2>1, <2>2 DEF At
  <2>3. CASE EndWakeup(w) /\ pc'[t] = done
    <3>1. v # w
      BY <1>2, <1>9, <2>3
    <3>2. CASE pc[v] \in {"own_waking", "finish_waking"}
      <4>1. v # t
        BY <1>1, <3>1, <3>2
      <4> QED BY <1>3, <3>2, <4>1
    <3>3. CASE \E u \in Threads : At(u, "waking") /\ cur[u] = v
      <4>1. PICK u \in Threads : At(u, "waking") /\ cur[u] = v
        BY <3>3
      <4>2. u # t
        BY <1>1, <3>1, <4>1 DEF At
      <4> QED BY <1>3, <1>6, <4>1, <4>2 DEF At
    <3> QED BY <2>1, <3>2, <3>3
  <2> QED BY <1>3, <2>2, <2>3
<1>10. \A g \in Groups :
         /\ opaque_pointer'[g] => At(g, "wait_prior")'
         /\ pc'[g] \in {"start", "retry", "finish_register"} =>
              waitee'[g] = NoGroup
  <2>1. \A g \in Groups :
          /\ pc[g] = "wait_prior" => pc'[g] = "wait_prior"
          /\ pc'[g] \in {"start", "retry", "finish_register"} => pc'[g] = pc[g]
    BY <1>1, <1>3
  <2> QED BY <1>1, <1>2, <2>1 DEF WfcInv, At
<1> QED BY <1>1, <1>3, <1>4, <1>5, <1>8, <1>9, <1>10 DEF WfcInv

(* The leader takes LOCK_after_binlog_sync and gives up LOCK_log.          *)
LEMMA LeaderAfterSyncInv ==
  ASSUME IInv, NEW t \in Threads, LeaderAfterSync(t)
  PROVE  IInv'
<1> USE Basics
<1>1. /\ pc[t] = "written" /\ TypeOK /\ LocksInv /\ ChainInv
      /\ after_sync = NoThread /\ after_sync' = t /\ log_lock' = NoThread
      /\ Goto(t, "synced")
      /\ UNCHANGED <<prepare_ordered, commit_ordered, queue_busy, optimize>>
      /\ UNCHANGED <<rplVars, queueVars, entryVars, logVars, outcome, wfcVars>>
  BY DEF LeaderAfterSync, At, IInv
<1>2. /\ pc' \in [Threads -> Stages]
      /\ pc'[t] = "synced" /\ \A x \in Threads \ {t} : pc'[x] = pc[x]
  BY <1>1, GotoType DEF Stages
<1>3. TypeOK'
  <2>1. /\ RplTypeOK' /\ QueueTypeOK' /\ EntryTypeOK' /\ LogTypeOK'
        /\ WfcTypeOK'
    BY <1>1, TypeFrame
  <2>2. LockTypeOK'
    BY <1>1 DEF TypeOK, LockTypeOK
  <2> QED BY <1>1, <1>2, <2>1, <2>2 DEF TypeOK
<1>4. UNCHANGED <<next, cur, error, binlog, engine, queue, todo, is_leader,
                  queued_by_other, wakeup_ready, waitee>>
  BY <1>1 DEF queueVars, entryVars, logVars, wfcVars
<1>5. InsideStep(t)
  BY <1>1, <1>2, <1>4 DEF InsideStep, LeaderStages
<1>6. QueueInv' /\ WfcInv'
  BY <1>1, <1>5, InsideLemma, InsideAlone
<1>7. log_lock = t /\ commit_ordered # t /\ cur[t] = t
  BY <1>1 DEF LocksInv, CommitStages, ChainInv
<1>8. LocksInv'
  <2>1. \A x \in Threads : x # NoThread
    OBVIOUS
  <2> QED BY <1>1, <1>2, <1>7, <2>1
          DEF LocksInv, At, CommitStages, OwnStages, GroupStages
<1>9. /\ ChainInv'
      /\ \A x \in Threads : Pending(x)' <=> Pending(x)
      /\ \A of, k : GroupsInv(of, k) => GroupsInv(of, k)'
  BY <1>1, <1>2, <1>4, <1>5, <1>7, InsideChain DEF LeaderStages, CommitStages
<1>10. PICK idx \in [Threads -> Nat], of \in [Threads -> Nat], k \in Nat :
         GroupsInv(of, k) /\ (optimize => OrderInv(idx, of))
  BY DEF IInv, OrderKept
<1>11. ASSUME optimize PROVE OrderInv(idx, of)'
  <2>1. OrderInv(idx, of)
    BY <1>10, <1>11
  <2>2. idx[t] > 0
    BY <1>1, <1>7, <2>1 DEF OrderInv, LeaderStages, At
  <2>3. /\ SyncedUpTo(idx) = idx[t] /\ CommittedUpTo(idx) = idx[t]
        /\ CommittedUpTo(idx)' = idx[t]
        /\ Written' = Written /\ SyncedUpTo(idx)' = Written
    BY <1>1, <1>4, <1>7, <2>2 DEF SyncedUpTo, CommittedUpTo, Written
  <2>4. ASSUME NEW u \in Threads, pc[u] \in LeaderStages
        PROVE  After(idx, u)' = After(idx, u) \/ At(u, "write")
    <3>1. CASE u = t
      BY <1>1, <1>2, <2>3, <3>1 DEF After, At
    <3>2. CASE u # t
      <4>1. pc[u] \notin {"written", "synced"} /\ pc'[u] = pc[u]
        BY <1>1, <1>2, <1>7, <3>2 DEF LocksInv, At
      <4> QED BY <2>3, <4>1 DEF After, At
    <3> QED BY <3>1, <3>2
  <2>5. \A x \in Threads :
          /\ pc'[x] \in LeaderStages <=> pc[x] \in LeaderStages
          /\ At(x, "write")' <=> At(x, "write")
    BY <1>1, <1>2 DEF LeaderStages, At
  <2>6. /\ Len(engine') <= Len(binlog')
        /\ \A i \in 1 .. Len(engine') : engine'[i] = binlog'[i]
        /\ commit_ordered' = NoThread => Len(engine') + 1 = CommittedUpTo(idx)'
    BY <1>1, <1>4, <2>1, <2>3 DEF OrderInv
  <2>7. ASSUME NEW u \in Threads, NEW x \in Threads, commit_ordered' = u,
               cur'[u] = x
        PROVE  Len(engine') + 1 =
                 IF At(u, "commit_entry")' THEN idx[x] ELSE End(idx, x)'
    <3>1. pc'[u] = pc[u]
      BY <1>1, <1>2, <1>7, <2>7
    <3>2. Len(engine) + 1 =
            IF At(u, "commit_entry") THEN idx[x] ELSE End(idx, x)
      BY <1>1, <1>4, <2>1, <2>7 DEF OrderInv
    <3>3. End(idx, x)' = End(idx, x)
      BY <1>4 DEF End
    <3> QED BY <1>4, <3>1, <3>2, <3>3 DEF At
  <2> QED BY <1>4, <1>9, <2>1, <2>4, <2>5, <2>6, <2>7, OrderMove
<1>12. OrderKept'
  BY <1>1, <1>9, <1>10, <1>11 DEF OrderKept
<1> QED BY <1>3, <1>6, <1>8, <1>9, <1>12 DEF IInv

(* It takes LOCK_commit_ordered, or has to wait for the previous group.    *)
LEMMA LeaderCommitLockInv ==
  ASSUME IInv, NEW t \in Threads, LeaderCommitLock(t)
  PROVE  IInv'
<1> USE Basics
<1>1. /\ pc[t] = "synced" /\ TypeOK /\ LocksInv /\ ChainInv
      /\ commit_ordered = NoThread
      /\ after_sync' = IF after_sync = t THEN NoThread ELSE after_sync
      /\ UNCHANGED <<prepare_ordered, log_lock, optimize>>
      /\ UNCHANGED <<rplVars, queueVars, entryVars, logVars, outcome, wfcVars>>
  BY DEF LeaderCommitLock, At, IInv
<1>2. PICK s \in {"commit_entry", "busy", "own_commit"} :
        /\ Goto(t, s) /\ (s = "commit_entry" <=> optimize)
        /\ commit_ordered' = IF s = "busy" THEN NoThread ELSE t
        /\ queue_busy' \in BOOLEAN
  <2>1. CASE optimize
    BY <1>1, <2>1 DEF LeaderCommitLock, TypeOK, LockTypeOK
  <2>2. CASE ~optimize /\ queue_busy
    BY <1>1, <2>2 DEF LeaderCommitLock, TypeOK, LockTypeOK
  <2>3. CASE ~optimize /\ ~queue_busy
    BY <1>1, <2>3 DEF LeaderCommitLock, TypeOK, LockTypeOK
  <2> QED BY <2>1, <2>2, <2>3
<1>3. /\ pc' \in [Threads -> Stages]
      /\ pc'[t] = s /\ \A x \in Threads \ {t} : pc'[x] = pc[x]
  BY <1>1, <1>2, GotoType DEF Stages
<1>4. TypeOK'
  <2>1. /\ RplTypeOK' /\ QueueTypeOK' /\ EntryTypeOK' /\ LogTypeOK'
        /\ WfcTypeOK'
    BY <1>1, TypeFrame
  <2>2. LockTypeOK'
    BY <1>1, <1>2 DEF TypeOK, LockTypeOK
  <2> QED BY <1>1, <1>3, <2>1, <2>2 DEF TypeOK
<1>5. UNCHANGED <<next, cur, error, binlog, engine, queue, todo, is_leader,
                  queued_by_other, wakeup_ready, waitee>>
  BY <1>1 DEF queueVars, entryVars, logVars, wfcVars
<1>6. InsideStep(t)
  BY <1>1, <1>3, <1>5 DEF InsideStep, LeaderStages, CommitStages, OwnStages
<1>7. QueueInv' /\ WfcInv'
  BY <1>1, <1>6, InsideLemma, InsideAlone
<1>8. after_sync = t /\ after_sync' = NoThread /\ log_lock # t /\ cur[t] = t
  BY <1>1 DEF LocksInv, ChainInv, At
<1>9. LocksInv'
  <2>1. \A x \in Threads : x # NoThread
    OBVIOUS
  <2> QED BY <1>1, <1>2, <1>3, <1>8, <2>1
          DEF LocksInv, At, CommitStages, OwnStages, GroupStages
<1>10. /\ ChainInv'
       /\ \A x \in Threads : Pending(x)' <=> Pending(x)
       /\ \A of, k : GroupsInv(of, k) => GroupsInv(of, k)'
  BY <1>1, <1>3, <1>5, <1>6, <1>8, InsideChain DEF LeaderStages, CommitStages
<1>11. PICK idx \in [Threads -> Nat], of \in [Threads -> Nat], k \in Nat :
         GroupsInv(of, k) /\ (optimize => OrderInv(idx, of))
  BY DEF IInv, OrderKept
<1>12. ASSUME optimize PROVE OrderInv(idx, of)'
  <2>1. OrderInv(idx, of) /\ s = "commit_entry" /\ commit_ordered' = t
    BY <1>2, <1>11, <1>12
  <2>2. CommittedUpTo(idx) = idx[t]
    BY <1>8 DEF CommittedUpTo
  <2>3. log_lock # NoThread => pc'[log_lock] = pc[log_lock]
    BY <1>1, <1>3, <1>8 DEF TypeOK, LockTypeOK
  <2>4. /\ Written' = Written /\ SyncedUpTo(idx)' = SyncedUpTo(idx)
        /\ CommittedUpTo(idx)' = SyncedUpTo(idx)
    BY <1>1, <1>5, <1>8, <2>3 DEF SyncedUpTo, CommittedUpTo, Written
  <2>5. ASSUME NEW u \in Threads, pc[u] \in LeaderStages
        PROVE  After(idx, u)' = After(idx, u) \/ At(u, "write")
    <3>1. CASE u = t
      BY <1>1, <1>3, <2>1, <2>4, <3>1 DEF After, At
    <3>2. CASE u # t
      <4>1. pc[u] \notin CommitStages \cup {"busy", "synced"} /\ pc'[u] = pc[u]
        BY <1>1, <1>3, <1>8, <1>12, <3>2 DEF LocksInv, At
      <4>2. pc[u] \in {"write", "written"}
        BY <2>5, <4>1 DEF LeaderStages
      <4> QED BY <2>4, <4>1, <4>2 DEF After, At
    <3> QED BY <3>1, <3>2
  <2>6. \A x \in Threads :
          /\ pc'[x] \in LeaderStages <=> pc[x] \in LeaderStages
          /\ At(x, "write")' <=> At(x, "write")
    BY <1>1, <1>3, <2>1 DEF LeaderStages, CommitStages, At
  <2>7. /\ Len(engine') <= Len(binlog')
        /\ \A i \in 1 .. Len(engine') : engine'[i] = binlog'[i]
        /\ Len(engine') + 1 = idx[t]
    BY <1>1, <1>5, <2>1, <2>2 DEF OrderInv
  <2>8. \A u, x \in Threads : commit_ordered' = u /\ cur'[u] = x =>
          Len(engine') + 1 =
            IF At(u, "commit_entry")' THEN idx[x] ELSE End(idx, x)'
    BY <1>3, <1>5, <1>8, <2>1, <2>7 DEF At
  <2> QED BY <1>5, <1>10, <2>1, <2>5, <2>6, <2>7, <2>8, OrderMove
<1>13. OrderKept'
  BY <1>1, <1>10, <1>11, <1>12 DEF OrderKept
<1> QED BY <1>4, <1>7, <1>9, <1>10, <1>13 DEF IInv

(* The previous group is through.                                          *)
LEMMA LeaderNotBusyInv ==
  ASSUME IInv, NEW t \in Threads, LeaderNotBusy(t)
  PROVE  IInv'
<1> USE Basics
<1>1. /\ pc[t] = "busy" /\ TypeOK /\ LocksInv /\ ChainInv
      /\ commit_ordered = NoThread /\ commit_ordered' = t
      /\ queue_busy' = TRUE /\ Goto(t, "own_commit")
      /\ UNCHANGED <<prepare_ordered, log_lock, after_sync, optimize>>
      /\ UNCHANGED <<rplVars, queueVars, entryVars, logVars, outcome, wfcVars>>
  BY DEF LeaderNotBusy, At, IInv
<1>2. /\ pc' \in [Threads -> Stages]
      /\ pc'[t] = "own_commit" /\ \A x \in Threads \ {t} : pc'[x] = pc[x]
  BY <1>1, GotoType DEF Stages
<1>3. TypeOK'
  <2>1. /\ RplTypeOK' /\ QueueTypeOK' /\ EntryTypeOK' /\ LogTypeOK'
        /\ WfcTypeOK'
    BY <1>1, TypeFrame
  <2>2. LockTypeOK'
    BY <1>1 DEF TypeOK, LockTypeOK
  <2> QED BY <1>1, <1>2, <2>1, <2>2 DEF TypeOK
<1>4. UNCHANGED <<next, cur, error, binlog, engine, queue, todo, is_leader,
                  queued_by_other, wakeup_ready, waitee>>
  BY <1>1 DEF queueVars, entryVars, logVars, wfcVars
<1>5. InsideStep(t)
  BY <1>1, <1>2, <1>4 DEF InsideStep, LeaderStages, OwnStages
<1>6. QueueInv' /\ WfcInv'
  BY <1>1, <1>5, InsideLemma, InsideAlone
<1>7. ~optimize
  BY <1>1 DEF LocksInv
<1>8. LocksInv'
  <2>1. \A x \in Threads : x # NoThread
    OBVIOUS
  <2> QED BY <1>1, <1>2, <1>7, <2>1
          DEF LocksInv, At, CommitStages, OwnStages, GroupStages
<1>9. /\ ChainInv'
      /\ \A of, k : GroupsInv(of, k) => GroupsInv(of, k)'
  BY <1>1, <1>2, <1>4, <1>5, InsideChain DEF LeaderStages, CommitStages
<1>10. OrderKept'
  BY <1>1, <1>7, <1>9 DEF IInv, OrderKept
<1> QED BY <1>3, <1>6, <1>8, <1>9, <1>10 DEF IInv

(* wakeup_subsequent_commits() of x, called by t from inside: nobody       *)
(* executes it already.                                                    *)
LEMMA InsideCall ==
  ASSUME IInv, NEW t \in Threads, NEW x \in Threads, NEW busy, NEW done,
         CallWakeup(t, x, busy, done),
         \/ /\ pc[t] = "commit_entry" /\ cur[t] = x
            /\ busy = "waking" /\ done = "wake_entry"
         \/ /\ pc[t] = "own_commit" /\ x = t
            /\ busy = "own_waking" /\ done = "own_signal",
         UNCHANGED <<prepare_ordered, optimize, queueVars, entryVars>>
  PROVE  /\ pc' \in [Threads -> Stages] /\ pc'[t] \in {busy, done}
         /\ \A u \in Threads \ {t} : pc'[u] = pc[u]
         /\ busy = "waking" /\ pc'[t] = busy => x \in Groups
         /\ InsideStep(t) /\ WfcInv' /\ WfcTypeOK'
<1> USE Basics
<1>1. TypeOK /\ LocksInv /\ WfcInv /\ ChainInv /\ busy \in Stages /\ done \in Stages
  BY DEF IInv, Stages
<1>2. waitee' = waitee /\ (Goto(t, busy) \/ Goto(t, done))
  BY DEF CallWakeup, BeginWakeup, wfcVars
<1>3. /\ pc' \in [Threads -> Stages] /\ pc'[t] \in {busy, done}
      /\ \A u \in Threads \ {t} : pc'[u] = pc[u]
  <2>1. CASE Goto(t, busy)
    BY <1>1, <2>1, GotoType
  <2>2. CASE Goto(t, done)
    BY <1>1, <2>2, GotoType
  <2> QED BY <1>2, <2>1, <2>2
<1>4. UNCHANGED <<cur, next, queue, todo, is_leader, queued_by_other,
                  wakeup_ready>>
  BY DEF queueVars, entryVars
<1>5. InsideStep(t)
  BY <1>2, <1>3, <1>4 DEF InsideStep, LeaderStages, CommitStages, OwnStages
<1>6. CASE UNCHANGED wfcVars /\ Goto(t, done)
  <2>1. pc'[t] = done
    BY <1>1, <1>6, GotoType
  <2>2. WfcInv'
    BY <1>5, <1>6, InsideAlone
  <2>3. WfcTypeOK'
    BY <1>1, <1>6, TypeFrame
  <2> QED BY <1>3, <1>5, <2>1, <2>2, <2>3
<1>7. CASE x \in Groups /\ BeginWakeup(x) /\ Goto(t, busy)
  <2>1. pc'[t] = busy
    BY <1>1, <1>7, GotoType
  <2>2. ~wakeup_subsequent_commits_running[x]
    <3> SUFFICES ASSUME wakeup_subsequent_commits_running[x] PROVE FALSE
      OBVIOUS
    <3>1. x = t \/ Waits(x)
      BY <1>1 DEF ChainInv, LeaderStages, CommitStages
    <3>2. pc[x] \notin {"own_waking", "finish_waking"}
      BY <3>1 DEF Waits, Passive, TakenOver, At
    <3>3. PICK u \in Threads : At(u, "waking") /\ cur[u] = x
      BY <1>1, <1>7, <3>2 DEF WfcInv
    <3>4. u # t
      BY <3>3 DEF At
    <3>5. commit_ordered = u /\ optimize
      BY <1>1, <3>3 DEF LocksInv, CommitStages, At
    <3>6. pc[t] = "commit_entry"
      BY <1>1, <3>5 DEF LocksInv, OwnStages
    <3> QED BY <1>1, <3>4, <3>5, <3>6 DEF LocksInv, CommitStages
  <2>3. \/ pc'[t] = "waking" /\ cur[t] = x
        \/ pc'[t] = "own_waking" /\ x = t
    BY <2>1
  <2>4. WfcInv' /\ WfcTypeOK'
    BY <1>4, <1>5, <1>7, <2>2, <2>3, InsideBegin
  <2> QED BY <1>3, <1>5, <1>7, <2>4
<1> QED BY <1>6, <1>7 DEF CallWakeup

(* The leader commits the next entry of its group in the engines.          *)
LEMMA CommitEntryInv ==
  ASSUME IInv, NEW t \in Threads, CommitEntry(t)
  PROVE  IInv'
<1> USE Basics
<1>1. /\ pc[t] = "commit_entry" /\ TypeOK /\ LocksInv /\ ChainInv
      /\ UNCHANGED <<rplVars, lockVars, queueVars, entryVars, outcome>>
      /\ UNCHANGED <<binlog, late>>
      /\ CommitOrdered(cur[t]) /\ CallWakeup(t, cur[t], "waking", "wake_entry")
  BY DEF CommitEntry, At, IInv
<1>2. PICK x : x = cur[t]
  OBVIOUS
<1>3. x \in Threads /\ (x = t \/ Waits(x))
  BY <1>1, <1>2 DEF ChainInv, LeaderStages, CommitStages
<1>4. UNCHANGED <<prepare_ordered, log_lock, after_sync, commit_ordered,
                  optimize, next, cur, error>>
  BY <1>1 DEF lockVars, entryVars
<1>5. /\ pc' \in [Threads -> Stages] /\ pc'[t] \in {"waking", "wake_entry"}
      /\ \A u \in Threads \ {t} : pc'[u] = pc[u]
      /\ pc'[t] = "waking" => x \in Groups
      /\ InsideStep(t) /\ WfcInv' /\ WfcTypeOK'
  BY <1>1, <1>2, <1>3, <1>4, InsideCall
<1>6. /\ error \in [Threads -> BOOLEAN] /\ engine \in Seq(Threads)
      /\ binlog \in Seq(Threads)
      /\ engine' = IF error[x] THEN engine ELSE Append(engine, x)
  BY <1>1, <1>2 DEF TypeOK, EntryTypeOK, LogTypeOK, CommitOrdered
<1>7. TypeOK'
  <2>1. RplTypeOK' /\ LockTypeOK' /\ QueueTypeOK' /\ EntryTypeOK'
    BY <1>1, TypeFrame
  <2>2. engine' \in Seq(Threads)
    BY <1>3, <1>6
  <2>3. LogTypeOK'
    BY <1>1, <2>2 DEF TypeOK, LogTypeOK
  <2> QED BY <1>1, <1>5, <2>1, <2>3 DEF TypeOK
<1>8. QueueInv'
  BY <1>5, InsideLemma
<1>9. commit_ordered = t /\ optimize
  BY <1>1 DEF LocksInv, CommitStages
<1>10. LocksInv'
  BY <1>1, <1>4, <1>5, <1>9
     DEF LocksInv, At, CommitStages, OwnStages, GroupStages
<1>11. /\ ChainInv'
       /\ \A y \in Threads : Pending(y)' <=> Pending(y)
       /\ \A of, k : GroupsInv(of, k) => GroupsInv(of, k)'
  BY <1>1, <1>2, <1>4, <1>5, InsideChain DEF LeaderStages, CommitStages
<1>12. PICK idx \in [Threads -> Nat], of \in [Threads -> Nat], k \in Nat :
         GroupsInv(of, k) /\ OrderInv(idx, of)
  BY <1>9 DEF IInv, OrderKept
<1>13. OrderInv(idx, of)'
  <2>1. Len(engine) \in Nat /\ Len(binlog) \in Nat /\ idx[x] \in Nat
    BY <1>3, <1>6
  <2>2. Pending(x) /\ idx[x] > 0
    BY <1>1, <1>2, <1>3, <1>12 DEF Pending, OrderInv, CommitStages, LeaderStages, At
  <2>3. /\ Len(engine) + 1 = idx[x] /\ Len(engine) <= Len(binlog)
        /\ \A i \in 1 .. Len(engine) : engine[i] = binlog[i]
    BY <1>1, <1>2, <1>3, <1>9, <1>12 DEF OrderInv, At
  <2>4. ~error[x] => idx[x] <= Len(binlog) /\ binlog[idx[x]] = x
    BY <1>3, <1>12, <2>2 DEF OrderInv
  <2>5. /\ Len(engine') <= Len(binlog')
        /\ \A i \in 1 .. Len(engine') : engine'[i] = binlog'[i]
        /\ Len(engine') + 1 = IF error[x] THEN idx[x] ELSE idx[x] + 1
    <3>1. CASE error[x]
      BY <1>1, <1>6, <2>3, <3>1
    <3>2. CASE ~error[x]
      <4>1. /\ engine' = Append(engine, x) /\ binlog' = binlog
            /\ Len(engine') = Len(engine) + 1 /\ engine'[Len(engine) + 1] = x
            /\ \A i \in 1 .. Len(engine) : engine'[i] = engine[i]
        BY <1>1, <1>3, <1>6, <3>2
      <4>2. ASSUME NEW i \in 1 .. Len(engine') PROVE engine'[i] = binlog'[i]
        <5>1. i \in 1 .. Len(engine) \/ i = Len(engine) + 1
          BY <2>1, <4>1
        <5> QED BY <2>3, <2>4, <3>2, <4>1, <5>1
      <4> QED BY <2>1, <2>3, <2>4, <3>2, <4>1, <4>2
    <3> QED BY <3>1, <3>2
  <2>6. \A u, y \in Threads : commit_ordered' = u /\ cur'[u] = y =>
          Len(engine') + 1 =
            IF At(u, "commit_entry")' THEN idx[y] ELSE End(idx, y)'
    BY <1>2, <1>4, <1>5, <1>9, <2>5 DEF At, End
  <2>7. commit_ordered' # NoThread
    BY <1>4, <1>9
  <2>8. \A u \in Threads :
          /\ pc'[u] \in LeaderStages <=> pc[u] \in LeaderStages
          /\ At(u, "write")' <=> At(u, "write")
    BY <1>1, <1>5 DEF LeaderStages, CommitStages, At
  <2>9. \A u \in Threads : pc'[u] \in {"write", "written", "synced"} \/
                           pc[u] \in {"write", "written", "synced"} =>
                             pc'[u] = pc[u]
    BY <1>1, <1>5
  <2>10. /\ Written' = Written /\ SyncedUpTo(idx)' = SyncedUpTo(idx)
         /\ CommittedUpTo(idx)' = CommittedUpTo(idx)
    <3>1. log_lock # NoThread => log_lock \in Threads
      BY <1>1 DEF TypeOK, LockTypeOK
    <3> QED BY <1>1, <1>4, <2>9, <3>1 DEF Written, SyncedUpTo, CommittedUpTo
  <2>11. \A u \in Threads : After(idx, u)' = After(idx, u)
    BY <2>9, <2>10 DEF After, At
  <2> QED BY <1>1, <1>4, <1>11, <1>12, <2>5, <2>6, <2>7, <2>8, <2>11, OrderMove
<1>14. OrderKept'
  BY <1>11, <1>12, <1>13 DEF OrderKept
<1> QED BY <1>5, <1>7, <1>8, <1>10, <1>11, <1>14 DEF IInv

(* It wakes up who waits for that entry.                                   *)
LEMMA LeaderWakesInv ==
  ASSUME IInv, NEW t \in Threads, LeaderWakes(t)
  PROVE  IInv'
<1> USE Basics
<1>1. /\ pc[t] = "waking" /\ TypeOK /\ LocksInv /\ ChainInv
      /\ UNCHANGED <<rplVars, lockVars, queueVars, entryVars, logVars, outcome>>
  BY DEF LeaderWakes, WakeupStep, At, IInv
<1>2. PICK x : x = cur[t]
  OBVIOUS
<1>3. x \in Groups
  BY <1>1, <1>2 DEF ChainInv, At
<1>4. PICK err \in BOOLEAN : WakeupStep(t, x, err, "waking", "wake_entry")
  BY <1>1, <1>2, <1>3 DEF LeaderWakes, TypeOK, EntryTypeOK
<1>5. /\ TypeOK' /\ WfcInv' /\ InsideStep(t)
      /\ pc'[t] \in {"waking", "wake_entry"}
  BY <1>2, <1>3, <1>4, InsideWalk
<1>6. \A u \in Threads \ {t} : pc'[u] = pc[u]
  BY <1>5 DEF InsideStep
<1>7. UNCHANGED <<prepare_ordered, log_lock, after_sync, commit_ordered,
                  optimize, next, cur, error, binlog, engine>>
  BY <1>1 DEF lockVars, entryVars, logVars
<1>8. QueueInv'
  BY <1>5, InsideLemma
<1>9. commit_ordered = t /\ optimize
  BY <1>1 DEF LocksInv, CommitStages
<1>10. LocksInv'
  BY <1>1, <1>5, <1>6, <1>7, <1>9
     DEF LocksInv, At, CommitStages, OwnStages, GroupStages
<1>11. /\ ChainInv'
       /\ \A y \in Threads : Pending(y)' <=> Pending(y)
       /\ \A of, k : GroupsInv(of, k) => GroupsInv(of, k)'
  BY <1>1, <1>2, <1>3, <1>5, <1>7, InsideChain DEF LeaderStages, CommitStages
<1>12. PICK idx \in [Threads -> Nat], of \in [Threads -> Nat], k \in Nat :
         GroupsInv(of, k) /\ OrderInv(idx, of)
  BY <1>9 DEF IInv, OrderKept
<1>13. OrderInv(idx, of)'
  <2>1. \A u \in Threads :
          /\ pc'[u] \in LeaderStages <=> pc[u] \in LeaderStages
          /\ At(u, "write")' <=> At(u, "write")
          /\ At(u, "commit_entry")' <=> At(u, "commit_entry")
          /\ pc'[u] \in {"write", "written", "synced"} \/
             pc[u] \in {"write", "written", "synced"} => pc'[u] = pc[u]
    BY <1>1, <1>5, <1>6 DEF LeaderStages, CommitStages, At
  <2>2. /\ Written' = Written /\ SyncedUpTo(idx)' = SyncedUpTo(idx)
        /\ CommittedUpTo(idx)' = CommittedUpTo(idx)
    <3>1. log_lock # NoThread => log_lock \in Threads
      BY <1>1 DEF TypeOK, LockTypeOK
    <3> QED BY <1>7, <2>1, <3>1 DEF Written, SyncedUpTo, CommittedUpTo
  <2>3. \A u \in Threads : After(idx, u)' = After(idx, u)
    BY <2>1, <2>2 DEF After, At
  <2> QED BY <1>7, <1>11, <1>12, <2>1, <2>2, <2>3, OrderSame
<1>14. OrderKept'
  BY <1>11, <1>12, <1>13 DEF OrderKept
<1> QED BY <1>5, <1>8, <1>10, <1>11, <1>14 DEF IInv

(* Without the optimised scheduling a thread commits for itself,           *)
LEMMA OwnCommitInv ==
  ASSUME IInv, NEW t \in Threads, OwnCommit(t)
  PROVE  IInv'
<1> USE Basics
<1>1. /\ pc[t] = "own_commit" /\ TypeOK /\ LocksInv
      /\ commit_ordered \in {t, NoThread} /\ commit_ordered' = NoThread
      /\ queue_busy' = (next[t] # NoThread)
      /\ UNCHANGED <<prepare_ordered, log_lock, after_sync, optimize>>
      /\ UNCHANGED <<rplVars, queueVars, entryVars, outcome>>
      /\ UNCHANGED <<binlog, late>>
      /\ CommitOrdered(t) /\ CallWakeup(t, t, "own_waking", "own_signal")
  BY DEF OwnCommit, At, IInv
<1>2. /\ pc' \in [Threads -> Stages] /\ pc'[t] \in {"own_waking", "own_signal"}
      /\ \A u \in Threads \ {t} : pc'[u] = pc[u]
      /\ InsideStep(t) /\ WfcInv' /\ WfcTypeOK'
  BY <1>1, InsideCall
<1>3. /\ engine \in Seq(Threads)
      /\ engine' = IF error[t] THEN engine ELSE Append(engine, t)
  BY <1>1 DEF TypeOK, LogTypeOK, CommitOrdered
<1>4. TypeOK'
  <2>1. RplTypeOK' /\ QueueTypeOK' /\ EntryTypeOK'
    BY <1>1, TypeFrame
  <2>2. engine' \in Seq(Threads)
    BY <1>3
  <2>3. LogTypeOK'
    BY <1>1, <2>2 DEF TypeOK, LogTypeOK
  <2>4. LockTypeOK'
    BY <1>1 DEF TypeOK, LockTypeOK
  <2> QED BY <1>1, <1>2, <2>1, <2>3, <2>4 DEF TypeOK
<1>5. QueueInv'
  BY <1>2, InsideLemma
<1>6. ~optimize /\ (pc'[t] = "own_waking" => t \in Groups)
  <2>1. ~optimize
    BY <1>1 DEF LocksInv, OwnStages
  <2>2. CASE t \in Groups
    BY <2>1, <2>2
  <2>3. CASE t \notin Groups
    <3>1. Goto(t, "own_signal")
      BY <1>1, <2>3 DEF CallWakeup
    <3> QED BY <1>1, <2>1, <3>1, GotoType DEF Stages
  <2> QED BY <2>2, <2>3
<1>7. LocksInv'
  <2>1. \A u \in Threads : u # NoThread /\ pc[u] \notin CommitStages
    BY <1>1, <1>6 DEF LocksInv
  <2> QED BY <1>1, <1>2, <1>6, <2>1
          DEF LocksInv, At, CommitStages, OwnStages, GroupStages
<1>8. cur' = cur
  BY <1>1 DEF entryVars
<1>9. /\ ChainInv'
      /\ \A of, k : GroupsInv(of, k) => GroupsInv(of, k)'
  BY <1>1, <1>2, <1>8, InsideChain DEF LeaderStages, CommitStages
<1>10. OrderKept'
  BY <1>1, <1>6, <1>9 DEF IInv, OrderKept
<1> QED BY <1>2, <1>4, <1>5, <1>7, <1>9, <1>10 DEF IInv

(* and wakes up who waits for it.                                          *)
LEMMA OwnWakesInv ==
  ASSUME IInv, NEW t \in Threads, OwnWakes(t)
  PROVE  IInv'
<1> USE Basics
<1>1. /\ pc[t] = "own_waking" /\ TypeOK /\ LocksInv
      /\ UNCHANGED <<rplVars, lockVars, queueVars, entryVars, logVars, outcome>>
  BY DEF OwnWakes, WakeupStep, At, IInv
<1>2. t \in Groups /\ ~optimize
  BY <1>1 DEF LocksInv, GroupStages, OwnStages
<1>3. PICK err \in BOOLEAN : WakeupStep(t, t, err, "own_waking", "own_signal")
  BY <1>1 DEF OwnWakes, TypeOK, EntryTypeOK
<1>4. /\ TypeOK' /\ WfcInv' /\ InsideStep(t)
      /\ pc'[t] \in {"own_waking", "own_signal"}
  BY <1>2, <1>3, InsideWalk
<1>5. \A u \in Threads \ {t} : pc'[u] = pc[u]
  BY <1>4 DEF InsideStep
<1>6. UNCHANGED <<prepare_ordered, log_lock, after_sync, commit_ordered,
                  optimize, cur>>
  BY <1>1 DEF lockVars, entryVars
<1>7. QueueInv'
  BY <1>4, InsideLemma
<1>8. LocksInv'
  <2>1. commit_ordered # t
    BY <1>1 DEF LocksInv, CommitStages
  <2> QED BY <1>1, <1>2, <1>4, <1>5, <1>6, <2>1
          DEF LocksInv, At, CommitStages, OwnStages, GroupStages
<1>9. /\ ChainInv'
      /\ \A of, k : GroupsInv(of, k) => GroupsInv(of, k)'
  BY <1>1, <1>4, <1>6, InsideChain DEF LeaderStages, CommitStages
<1>10. OrderKept'
  BY <1>2, <1>6, <1>9 DEF IInv, OrderKept
<1> QED BY <1>4, <1>7, <1>8, <1>9, <1>10 DEF IInv

----------------------------------------------------------------------------
(* t tells x, if it is anybody, to go on.                                  *)
TellStep(t, x) ==
  /\ pc[t] \in {"wake_entry", "own_signal"}
  /\ pc' \in [Threads -> Stages] /\ pc'[t] \in {"returned", "commit_entry"}
  /\ \A u \in Threads \ {t} : pc'[u] = pc[u] /\ cur'[u] = cur[u]
  /\ UNCHANGED <<optimize, queue, todo, is_leader, queued_by_other>>
  /\ \/ x = NoThread /\ UNCHANGED <<wakeup_ready, wfcVars>>
     \/ /\ x \in Threads /\ Waits(x)
        /\ \E err \in BOOLEAN : Signal(x, err)

(* Then x does not wait any longer; who has been told without the          *)
(* optimised scheduling has still to commit.                               *)
LEMMA TellLemma ==
  ASSUME IInv, NEW t \in Threads, NEW x, TellStep(t, x)
  PROVE  /\ QueueInv' /\ WfcInv' /\ WfcTypeOK'
         /\ wakeup_ready' \in [Threads -> BOOLEAN]
         /\ \A z \in Threads :
              /\ Waits(z)' <=> Waits(z) /\ z # x
              /\ Called(z)' <=> Called(z) \/ (z = x /\ ~optimize)
         /\ ~Waits(t) /\ ~Called(t) /\ x # t
         /\ x \in Threads => pc[x] \in {"wait_ready", "wait_prior"}
<1> USE Basics
<1>1. TypeOK /\ LocksInv /\ QueueInv /\ WfcInv /\ WfcTypeOK
  BY DEF IInv, TypeOK
<1>2. /\ pc[t] \in {"wake_entry", "own_signal"}
      /\ pc'[t] \in {"returned", "commit_entry"}
      /\ \A u \in Threads \ {t} : pc'[u] = pc[u] /\ cur'[u] = cur[u]
      /\ UNCHANGED <<optimize, queue, todo, is_leader, queued_by_other>>
      /\ \/ x = NoThread /\ UNCHANGED <<wakeup_ready, wfcVars>>
         \/ x \in Threads /\ Waits(x) /\ \E err \in BOOLEAN : Signal(x, err)
  BY DEF TellStep
<1>3. ~Waits(t) /\ ~Called(t) /\ x # t
  BY <1>2 DEF Waits, Passive, Called, TakenOver, At
<1>4. x \in Threads =>
        /\ Waits(x) /\ ~InQueue(x)
        /\ IF queued_by_other[x]
           THEN TakenOver(x) /\ waitee[x] # NoGroup /\ x \in Taken
           ELSE At(x, "wait_ready") /\ ~wakeup_ready[x]
  BY <1>1, <1>2 DEF Waits, Passive, TakenOver, At, QueueInv, Taken
<1>5. \A z \in Threads : TakenOver(z)' <=> TakenOver(z)
  BY <1>2 DEF TakenOver, At
<1>6. Taken' = Taken /\ Taken \subseteq Groups
  BY <1>5 DEF Taken
<1>7. PICK T : T = Taken
  OBVIOUS
<1>8. ListsInv(T) /\ waitee \in [Groups -> Groups \cup {NoGroup}]
  BY <1>1, <1>7 DEF WfcInv, WfcTypeOK
<1>9. wakeup_ready \in [Threads -> BOOLEAN]
  BY <1>1 DEF TypeOK, EntryTypeOK
<1>10. /\ WfcTypeOK' /\ ListsInv(T)' /\ wakeup_ready' \in [Threads -> BOOLEAN]
       /\ \A g \in Groups : waitee'[g] =
            IF g = x /\ queued_by_other[g] THEN NoGroup ELSE waitee[g]
       /\ \A z \in Threads : wakeup_ready'[z] =
            IF z = x /\ ~queued_by_other[z] THEN TRUE ELSE wakeup_ready[z]
       /\ UNCHANGED <<opaque_pointer, wakeup_subsequent_commits_running>>
  <2>1. CASE x = NoThread /\ UNCHANGED <<wakeup_ready, wfcVars>>
    <3>1. WfcTypeOK'
      BY <1>1, <2>1, TypeFrame
    <3>2. ListsInv(T)'
      BY <1>8, <2>1 DEF ListsInv, wfcVars
    <3> QED BY <1>9, <2>1, <3>1, <3>2 DEF wfcVars
  <2>2. CASE x \in Threads /\ \E err \in BOOLEAN : Signal(x, err)
    <3>1. PICK err \in BOOLEAN : Signal(x, err)
      BY <2>2
    <3>2. CASE queued_by_other[x]
      <4>1. /\ Woken(x, err) /\ x \in T
            /\ UNCHANGED <<wakeup_ready, subsequent_commits_list,
                           opaque_pointer, waking,
                           wakeup_subsequent_commits_running, commit_started,
                           wakeup_blocked>>
        BY <1>4, <1>7, <2>2, <3>1, <3>2 DEF Signal
      <4>2. WfcTypeOK' /\ ListsInv(T)'
        BY <1>1, <1>6, <1>7, <1>8, <4>1, WokenLists
      <4>3. waitee' = [waitee EXCEPT ![x] = NoGroup]
        BY <4>1 DEF Woken
      <4> QED BY <1>8, <1>9, <2>2, <3>2, <4>1, <4>2, <4>3
    <3>3. CASE ~queued_by_other[x]
      <4>1. /\ wakeup_ready' = [wakeup_ready EXCEPT ![x] = TRUE]
            /\ UNCHANGED wfcVars
        BY <3>1, <3>3 DEF Signal
      <4>2. WfcTypeOK'
        BY <1>1, <4>1, TypeFrame
      <4>3. ListsInv(T)'
        BY <1>8, <4>1 DEF ListsInv, wfcVars
      <4> QED BY <1>9, <2>2, <3>3, <4>1, <4>2, <4>3 DEF wfcVars
    <3> QED BY <3>2, <3>3
  <2> QED BY <1>2, <2>1, <2>2
<1>11. \A z \in Threads : Passive(z)' <=> Passive(z) /\ z # x
  <2>1. ASSUME NEW z \in Threads, z # x PROVE Passive(z)' <=> Passive(z)
    <3>1. TakenOver(z) => z \in Groups
      BY <1>1 DEF TakenOver, At, LocksInv, GroupStages
    <3> QED BY <1>2, <1>5, <1>10, <2>1, <3>1 DEF Passive, At
  <2>2. ASSUME x \in Threads PROVE ~Passive(x)'
    <3>1. CASE queued_by_other[x]
      <4>1. At(x, "wait_prior") /\ x \in Groups
        BY <1>4, <2>2, <3>1 DEF TakenOver, Taken
      <4> QED BY <1>2, <1>3, <1>10, <2>2, <3>1, <4>1 DEF Passive, At
    <3>2. CASE ~queued_by_other[x]
      BY <1>2, <1>3, <1>4, <1>10, <2>2, <3>2 DEF Passive, TakenOver, At
    <3> QED BY <3>1, <3>2
  <2> QED BY <2>1, <2>2
<1>12. \A z \in Threads : Waits(z)' <=> Waits(z) /\ z # x
  BY <1>2, <1>11 DEF Waits, InQueue
<1>13. \A z \in Threads : Called(z)' <=> Called(z) \/ (z = x /\ ~optimize)
  <2>1. ASSUME NEW z \in Threads, z # x PROVE Called(z)' <=> Called(z)
    <3>1. TakenOver(z) => z \in Groups
      BY <1>1 DEF TakenOver, At, LocksInv, GroupStages
    <3> QED BY <1>2, <1>5, <1>10, <2>1, <3>1 DEF Called, At
  <2>2. ASSUME x \in Threads PROVE Called(x)' <=> ~optimize
    <3>1. CASE queued_by_other[x]
      <4>1. TakenOver(x) /\ x \in Groups
        BY <1>4, <2>2, <3>1 DEF Taken
      <4> QED BY <1>2, <1>5, <1>10, <2>2, <3>1, <4>1 DEF Called
    <3>2. CASE ~queued_by_other[x]
      BY <1>2, <1>3, <1>4, <1>10, <2>2, <3>2 DEF Called, At
    <3> QED BY <3>1, <3>2
  <2> QED BY <2>1, <2>2 DEF Called
<1>14. x \in Threads => pc[x] \in {"wait_ready", "wait_prior"}
  BY <1>4 DEF TakenOver, At
<1>15. WfcInv'
  <2>1. ListsInv(Taken)'
    BY <1>6, <1>7, <1>10
  <2>2. \A w \in Groups : wakeup_subsequent_commits_running'[w] =>
          \/ pc'[w] \in {"own_waking", "finish_waking"}
          \/ \E u \in Threads : At(u, "waking")' /\ cur'[u] = w
    BY <1>1, <1>2, <1>10 DEF WfcInv, At
  <2>3. \A g \in Groups :
          /\ opaque_pointer'[g] => At(g, "wait_prior")'
          /\ pc'[g] \in {"start", "retry", "finish_register"} =>
               waitee'[g] = NoGroup
    BY <1>1, <1>2, <1>10 DEF WfcInv, At
  <2> QED BY <2>1, <2>2, <2>3 DEF WfcInv
<1>16. QueueInv'
  <2>1. IsInjective(queue')
    BY <1>1, <1>2 DEF QueueInv
  <2>2. ASSUME NEW z \in Threads
        PROVE  /\ IsInjective(todo'[z])
               /\ pc'[z] \in {"queue", "ready", "enqueuing", "wait_ready"} =>
                    ~queued_by_other'[z]
               /\ queued_by_other'[z] => z \in Groups
               /\ ~At(z, "enqueuing")' => todo'[z] = <<>>
               /\ At(z, "enqueuing")' =>
                    /\ ~wakeup_ready'[z]
                    /\ todo'[z] # <<>>
                    /\ IF is_leader'[z] THEN queue' = <<>> \/ Last(queue') = z
                                        ELSE queue' # <<>>
                    /\ \/ todo'[z] = <<z>> /\ ~Contains(queue', z)
                       \/ ~Contains(todo'[z], z) /\ Contains(queue', z)
               /\ pc'[z] \in {"leader", "collect"} =>
                    queue' # <<>> /\ Last(queue') = z
    <3>1. pc'[z] \in {"enqueuing"} => wakeup_ready'[z] = wakeup_ready[z]
      BY <1>2, <1>10, <1>14
    <3> QED BY <1>1, <1>2, <3>1 DEF QueueInv, At
  <2>3. \A z, y \in Threads : Contains(todo'[z], y) =>
          (y = z \/ Passive(y)') /\ ~Contains(queue', y)
    BY <1>1, <1>2, <1>4, <1>11 DEF QueueInv, InQueue
  <2>4. \A z \in Threads : Contains(queue', z) =>
          pc'[z] \in {"enqueuing", "leader", "collect"} \/ Passive(z)'
    BY <1>1, <1>2, <1>4, <1>11 DEF QueueInv, InQueue
  <2> QED BY <2>1, <2>2, <2>3, <2>4 DEF QueueInv
<1> QED BY <1>3, <1>10, <1>12, <1>13, <1>14, <1>15, <1>16

(* The leader lets the entry go on and turns to the next one.              *)
LEMMA WakeEntryInv ==
  ASSUME IInv, NEW t \in Threads, WakeEntry(t)
  PROVE  IInv'
<1> USE Basics
<1>1. PICK x : x = cur[t]
  OBVIOUS
<1>2. /\ pc[t] = "wake_entry" /\ TypeOK /\ LocksInv /\ ChainInv
      /\ IF x = t THEN UNCHANGED <<wakeup_ready, wfcVars>>
                  ELSE Signal(x, error[x])
      /\ cur' = [cur EXCEPT ![t] = next[x]]
      /\ IF next[x] = NoThread
         THEN commit_ordered' = NoThread /\ Goto(t, "returned")
         ELSE UNCHANGED commit_ordered /\ Goto(t, "commit_entry")
      /\ UNCHANGED <<prepare_ordered, log_lock, after_sync, queue_busy,
                     optimize, next, error>>
      /\ UNCHANGED <<rplVars, queueVars, logVars, outcome>>
  BY <1>1 DEF WakeEntry, At, IInv
<1>3. /\ x \in Threads /\ (x = t \/ Waits(x))
      /\ \A y \in Threads : Pending(y) => next[y] # x
  BY <1>1, <1>2 DEF ChainInv, LeaderStages, CommitStages
<1>4. /\ cur \in [Threads -> Threads \cup {NoThread}]
      /\ next \in [Threads -> Threads \cup {NoThread}]
      /\ error \in [Threads -> BOOLEAN]
  BY <1>2 DEF TypeOK, EntryTypeOK
<1>5. /\ pc' \in [Threads -> Stages]
      /\ \A u \in Threads \ {t} : pc'[u] = pc[u] /\ cur'[u] = cur[u]
      /\ cur'[t] = next[x]
      /\ IF next[x] = NoThread
         THEN pc'[t] = "returned" /\ commit_ordered' = NoThread
         ELSE /\ pc'[t] = "commit_entry" /\ commit_ordered' = commit_ordered
              /\ next[x] \in Threads
  <2>1. CASE next[x] = NoThread
    <3>1. Goto(t, "returned") /\ commit_ordered' = NoThread
      BY <1>2, <2>1
    <3>2. /\ pc' \in [Threads -> Stages]
          /\ pc'[t] = "returned" /\ \A u \in Threads \ {t} : pc'[u] = pc[u]
      BY <1>2, <3>1, GotoType DEF Stages
    <3> QED BY <1>2, <1>4, <2>1, <3>1, <3>2
  <2>2. CASE next[x] # NoThread
    <3>1. Goto(t, "commit_entry") /\ commit_ordered' = commit_ordered
      BY <1>2, <2>2
    <3>2. /\ pc' \in [Threads -> Stages]
          /\ pc'[t] = "commit_entry" /\ \A u \in Threads \ {t} : pc'[u] = pc[u]
      BY <1>2, <3>1, GotoType DEF Stages
    <3> QED BY <1>2, <1>3, <1>4, <2>2, <3>1, <3>2
  <2> QED BY <2>1, <2>2
<1>6. commit_ordered = t /\ optimize
  BY <1>2 DEF LocksInv, CommitStages
<1>7. UNCHANGED <<queue, todo, is_leader, queued_by_other, binlog, engine>>
  BY <1>2 DEF queueVars, logVars
<1>8. PICK y : y = IF x = t THEN NoThread ELSE x
  OBVIOUS
<1>9. TellStep(t, y)
  <2>1. CASE x = t
    BY <1>2, <1>5, <1>7, <1>8, <2>1 DEF TellStep
  <2>2. CASE x # t
    <3>1. Waits(x) /\ Signal(x, error[x]) /\ error[x] \in BOOLEAN
      BY <1>2, <1>3, <1>4, <2>2
    <3> QED BY <1>2, <1>3, <1>5, <1>7, <1>8, <2>2, <3>1 DEF TellStep
  <2> QED BY <2>1, <2>2
<1>10. /\ QueueInv' /\ WfcInv' /\ WfcTypeOK'
       /\ wakeup_ready' \in [Threads -> BOOLEAN]
       /\ \A z \in Threads :
            /\ Waits(z)' <=> Waits(z) /\ z # y
            /\ Called(z)' <=> Called(z) \/ (z = y /\ ~optimize)
       /\ ~Waits(t) /\ ~Called(t) /\ y # t
       /\ y \in Threads => pc[y] \in {"wait_ready", "wait_prior"}
  BY <1>9, TellLemma
<1>11. TypeOK'
  <2>1. RplTypeOK' /\ QueueTypeOK' /\ LogTypeOK'
    BY <1>2, TypeFrame
  <2>2. commit_ordered' \in Threads \cup {NoThread}
    BY <1>5, <1>6
  <2>3. LockTypeOK'
    BY <1>2, <2>2 DEF TypeOK, LockTypeOK
  <2>4. cur' \in [Threads -> Threads \cup {NoThread}]
    BY <1>2, <1>3, <1>4
  <2>5. EntryTypeOK'
    BY <1>2, <1>4, <1>10, <2>4 DEF EntryTypeOK
  <2> QED BY <1>2, <1>5, <1>10, <2>1, <2>3, <2>5 DEF TypeOK
<1>12. LocksInv'
  <2>1. log_lock # t /\ after_sync # t /\ prepare_ordered # t
    BY <1>2 DEF LocksInv, At
  <2>2. \A u \in Threads : u # NoThread
    OBVIOUS
  <2>3. CASE next[x] = NoThread
    <3>1. pc'[t] = "returned" /\ commit_ordered' = NoThread
      BY <1>5, <2>3
    <3> QED BY <1>2, <1>5, <1>6, <2>1, <2>2, <3>1
            DEF LocksInv, At, CommitStages, OwnStages, GroupStages
  <2>4. CASE next[x] # NoThread
    <3>1. pc'[t] = "commit_entry" /\ commit_ordered' = t
      BY <1>5, <1>6, <2>4
    <3> QED BY <1>2, <1>5, <1>6, <2>1, <3>1
            DEF LocksInv, At, CommitStages, OwnStages, GroupStages
  <2> QED BY <2>3, <2>4
<1>13. \A z \in Threads : /\ Waits(z)' <=> Waits(z) /\ z # x
                          /\ Called(z)' <=> Called(z)
                          /\ ~Called(z)
  BY <1>6, <1>8, <1>10 DEF Called
<1>14. Pending(x) /\ next[x] # t /\ next[x] # x
  <2>1. Pending(x)
    BY <1>1, <1>2, <1>3 DEF Pending, CommitStages
  <2> QED BY <1>2, <1>3, <1>10, <2>1 DEF ChainInv
<1>15. \A z \in Threads : Pending(z)' <=> Pending(z) /\ z # x
  <2>1. ASSUME NEW z \in Threads, z # x, z # t PROVE Pending(z)' <=> Pending(z)
    BY <1>5, <1>13, <2>1 DEF Pending
  <2>2. ASSUME x # t PROVE ~Pending(x)'
    <3>1. pc[x] \in {"wait_ready", "wait_prior"}
      BY <1>3, <1>8, <1>10, <2>2
    <3> QED BY <1>3, <1>5, <1>13, <2>2, <3>1
            DEF Pending, LeaderStages, CommitStages, OwnStages
  <2>3. ~Pending(t)'
    <3>1. pc'[t] \notin CommitStages \/ cur'[t] # t
      BY <1>5, <1>14
    <3>2. pc'[t] \notin (LeaderStages \ CommitStages) \cup OwnStages
      BY <1>5 DEF LeaderStages, CommitStages, OwnStages
    <3> QED BY <1>10, <1>13, <3>1, <3>2 DEF Pending
  <2>4. x # t => ~Pending(t)
    <3>1. pc[t] \notin (LeaderStages \ CommitStages) \cup OwnStages
      BY <1>2 DEF LeaderStages, CommitStages, OwnStages
    <3> QED BY <1>1, <1>10, <3>1 DEF Pending
  <2> QED BY <2>1, <2>2, <2>3, <2>4
<1>16. PICK idx \in [Threads -> Nat], of \in [Threads -> Nat], k \in Nat :
         GroupsInv(of, k) /\ OrderInv(idx, of)
  BY <1>6 DEF IInv, OrderKept
<1>17. of[x] = of[t] /\ (next[x] # NoThread => of[next[x]] = of[t])
  <2>1. of[x] = of[t]
    BY <1>1, <1>2, <1>16 DEF GroupsInv, LeaderStages, CommitStages
  <2>2. next[x] # NoThread => of[next[x]] = of[x]
    BY <1>3, <1>5, <1>14, <1>16 DEF GroupsInv
  <2> QED BY <2>1, <2>2
(* Another leader looks at somebody else.                                  *)
<1>18. \A u \in Threads : pc[u] \in LeaderStages /\ u # t =>
         cur[u] \in Threads /\ cur[u] # x /\ of[u] # of[t]
  <2> SUFFICES ASSUME NEW u \in Threads, pc[u] \in LeaderStages, u # t
               PROVE  cur[u] \in Threads /\ cur[u] # x /\ of[u] # of[t]
    OBVIOUS
  <2>1. pc[t] \in LeaderStages
    BY <1>2 DEF LeaderStages, CommitStages
  <2>2. of[cur[u]] = of[u] /\ of[u] # of[t] /\ cur[u] \in Threads
    BY <1>2, <1>16, <2>1 DEF GroupsInv, ChainInv
  <2> QED BY <1>17, <2>2
<1>19. \A u \in Threads : pc'[u] \in LeaderStages => pc[u] \in LeaderStages
  BY <1>2, <1>5 DEF LeaderStages, CommitStages

<1>20. ChainInv'
  <2>1. \A z, v \in Threads : Pending(z)' /\ next'[z] = v => Waits(v)'
    BY <1>2, <1>3, <1>13, <1>15 DEF ChainInv
  <2>2. \A z, v \in Threads :
          Pending(z)' /\ Pending(v)' /\ next'[z] = next'[v] /\ z # v =>
            next'[z] = NoThread
    BY <1>2, <1>15 DEF ChainInv
  <2>3. ASSUME NEW u \in Threads
        PROVE  /\ pc'[u] \in LeaderStages => cur'[u] \in Threads
               /\ pc'[u] \in {"written", "synced", "busy"} => cur'[u] = u
               /\ At(u, "waking")' => cur'[u] \in Groups
               /\ pc'[u] \in CommitStages =>
                    \A z \in Threads : Pending(z)' => next'[z] # cur'[u]
    <3>1. CASE u = t
      <4>1. CASE next[x] = NoThread
        BY <1>5, <3>1, <4>1 DEF At, LeaderStages, CommitStages
      <4>2. CASE next[x] # NoThread
        <5>1. \A z \in Threads : Pending(z) /\ z # x => next[z] # next[x]
          BY <1>2, <1>3, <1>14, <4>2 DEF ChainInv
        <5> QED BY <1>2, <1>5, <1>15, <3>1, <4>2, <5>1 DEF At
      <4> QED BY <4>1, <4>2
    <3>2. CASE u # t
      BY <1>2, <1>5, <1>15, <3>2 DEF ChainInv, At
    <3> QED BY <3>1, <3>2
  <2>4. ASSUME NEW u \in Threads, NEW z \in Threads, pc'[u] \in LeaderStages,
               cur'[u] = z
        PROVE  z = u \/ Waits(z)'
    <3>1. CASE u = t
      <4>1. next[x] = z /\ z # x
        BY <1>5, <1>14, <2>4, <3>1
      <4>2. Waits(z)
        BY <1>2, <1>3, <1>14, <4>1 DEF ChainInv
      <4> QED BY <1>13, <4>1, <4>2
    <3>2. CASE u # t
      <4>1. cur[u] = z /\ pc[u] \in LeaderStages
        BY <1>5, <2>4, <3>2
      <4>2. z # x
        BY <1>18, <3>2, <4>1
      <4>3. z = u \/ Waits(z)
        BY <1>2, <4>1 DEF ChainInv
      <4> QED BY <1>13, <4>2, <4>3
    <3> QED BY <3>1, <3>2
  <2> QED BY <2>1, <2>2, <2>3, <2>4 DEF ChainInv
<1>21. GroupsInv(of, k)'
  <2>1. \A z, v \in Threads : Pending(z)' /\ next'[z] = v => of[v] = of[z]
    BY <1>2, <1>15, <1>16 DEF GroupsInv
  <2>2. ASSUME NEW u \in Threads, pc'[u] \in LeaderStages
        PROVE  of[cur'[u]] = of[u]
    <3>1. CASE u = t
      <4>1. next[x] # NoThread
        BY <1>5, <2>2, <3>1 DEF LeaderStages, CommitStages
      <4> QED BY <1>5, <1>17, <3>1, <4>1
    <3>2. CASE u # t
      BY <1>5, <1>16, <2>2, <3>2 DEF GroupsInv
    <3> QED BY <3>1, <3>2
  <2>3. /\ \A z \in Threads : of[z] < k
        /\ \A u, v \in Threads :
             pc'[u] \in LeaderStages /\ pc'[v] \in LeaderStages /\ of[v] = of[u] =>
               v = u
        /\ \A u, z \in Threads :
             pc'[u] \in LeaderStages /\ Pending(z)' /\ of[z] = of[u] =>
               z = u \/ Waits(z)'
    BY <1>13, <1>15, <1>16, <1>19 DEF GroupsInv
  <2> QED BY <2>1, <2>2, <2>3 DEF GroupsInv
<1>22. OrderInv(idx, of)'
  <2>1. idx[x] > 0 /\ End(idx, x) \in Nat /\ End(idx, x) > 0
    <3>1. idx[x] > 0
      BY <1>1, <1>2, <1>16 DEF OrderInv, LeaderStages, CommitStages, At
    <3> QED BY <1>3, <3>1 DEF End
  <2>2. \A z \in Threads : End(idx, z)' = End(idx, z)
    BY <1>2 DEF End
  <2>3. \A u \in Threads : pc'[u] \in {"write", "written", "synced"} \/
                           pc[u] \in {"write", "written", "synced"} =>
                             pc'[u] = pc[u] /\ cur'[u] = cur[u]
    BY <1>2, <1>5
  <2>4. /\ Written' = Written /\ SyncedUpTo(idx)' = SyncedUpTo(idx)
        /\ CommittedUpTo(idx)' = CommittedUpTo(idx)
    <3>1. log_lock # NoThread => log_lock \in Threads
      BY <1>2 DEF TypeOK, LockTypeOK
    <3> QED BY <1>2, <1>7, <2>3, <3>1 DEF Written, SyncedUpTo, CommittedUpTo
  <2>5. \A u \in Threads : After(idx, u)' = After(idx, u)
    BY <2>3, <2>4 DEF After, At
  <2>6. Len(engine) + 1 = End(idx, x)
    BY <1>1, <1>2, <1>3, <1>6, <1>16 DEF OrderInv, At
  <2>7. /\ \A z \in Threads : idx[z] <= Written'
        /\ Len(engine') <= Len(binlog')
        /\ \A i \in 1 .. Len(engine') : engine'[i] = binlog'[i]
    BY <1>7, <1>16, <2>4 DEF OrderInv
  <2>8. commit_ordered' = NoThread => Len(engine') + 1 = CommittedUpTo(idx)'
    <3> SUFFICES ASSUME commit_ordered' = NoThread
                 PROVE  End(idx, x) = CommittedUpTo(idx)
      BY <1>7, <2>4, <2>6
    <3>1. next[x] = NoThread
      BY <1>5, <1>6
    <3>2. End(idx, x) = After(idx, t)
      BY <1>2, <1>3, <1>14, <1>16, <1>17, <2>1, <3>1
         DEF OrderInv, LeaderStages, CommitStages
    <3> QED BY <1>2, <3>2 DEF After, At
  <2>9. next[x] # NoThread => idx[next[x]] = End(idx, x)
    <3> SUFFICES ASSUME next[x] # NoThread PROVE idx[next[x]] = End(idx, x)
      OBVIOUS
    <3>1. next[x] \in Threads
      BY <1>5
    <3>2. \/ idx[next[x]] = End(idx, x)
          \/ \E u \in Threads : At(u, "write") /\ cur[u] = next[x]
      BY <1>3, <1>14, <1>16, <2>1, <3>1 DEF OrderInv
    <3>3. ASSUME NEW u \in Threads, At(u, "write"), cur[u] = next[x]
          PROVE  FALSE
      <4>1. pc[u] \in LeaderStages /\ u # t
        BY <1>2, <3>3 DEF At, LeaderStages
      <4>2. of[cur[u]] = of[u]
        BY <1>16, <4>1 DEF GroupsInv
      <4> QED BY <1>17, <1>18, <3>3, <4>1, <4>2
    <3> QED BY <3>2, <3>3
  <2>10. \A u, z \in Threads : commit_ordered' = u /\ cur'[u] = z =>
           Len(engine') + 1 =
             IF At(u, "commit_entry")' THEN idx[z] ELSE End(idx, z)'
    BY <1>5, <1>6, <1>7, <2>6, <2>9 DEF At
  <2>11. ASSUME NEW z \in Threads, Pending(z), idx[z] > 0
         PROVE  /\ ~error'[z] => idx[z] <= Len(binlog') /\ binlog'[idx[z]] = z
                /\ next'[z] = NoThread =>
                     \A u \in Threads :
                       pc'[u] \in LeaderStages /\ of[u] = of[z] =>
                         ~At(u, "write")' /\ End(idx, z)' = After(idx, u)'
    <3>1. /\ ~error[z] => idx[z] <= Len(binlog) /\ binlog[idx[z]] = z
          /\ next[z] = NoThread =>
               \A u \in Threads : pc[u] \in LeaderStages /\ of[u] = of[z] =>
                 ~At(u, "write") /\ End(idx, z) = After(idx, u)
      BY <1>16, <2>11 DEF OrderInv
    <3>2. \A u \in Threads : At(u, "write")' => At(u, "write")
      BY <2>3 DEF At
    <3> QED BY <1>2, <1>7, <1>19, <2>2, <2>5, <3>1, <3>2
  <2>12. ASSUME NEW z \in Threads, NEW v \in Threads, Pending(z), next'[z] = v
         PROVE  /\ idx[z] = 0 => idx[v] = 0
                /\ idx[z] > 0 =>
                     \/ idx[v] = End(idx, z)'
                     \/ /\ End(idx, z)' = Written'
                        /\ \E u \in Threads : At(u, "write")' /\ cur'[u] = v
    <3>1. /\ idx[z] = 0 => idx[v] = 0
          /\ idx[z] > 0 =>
               \/ idx[v] = End(idx, z)
               \/ /\ End(idx, z) = Written
                  /\ \E u \in Threads : At(u, "write") /\ cur[u] = v
      BY <1>2, <1>16, <2>12 DEF OrderInv
    <3>2. \A u \in Threads : At(u, "write") => At(u, "write")' /\ cur'[u] = cur[u]
      BY <2>3 DEF At
    <3> QED BY <2>2, <2>4, <3>1, <3>2
  <2>13. \A u \in Threads : At(u, "write")' =>
           /\ idx[cur'[u]] = 0
           /\ idx[u] = 0 <=> cur'[u] = u
           /\ \A z \in Threads : Pending(z)' /\ next'[z] = cur'[u] => idx[z] > 0
    <3>1. \A u \in Threads : At(u, "write")' => At(u, "write") /\ cur'[u] = cur[u]
      BY <2>3 DEF At
    <3> QED BY <1>2, <1>15, <1>16, <3>1 DEF OrderInv
  <2>14. ASSUME NEW u \in Threads, pc'[u] \in LeaderStages, ~At(u, "write")'
         PROVE  idx[cur'[u]] > 0
    <3>1. CASE u = t
      <4>1. next[x] # NoThread
        BY <1>5, <2>14, <3>1 DEF LeaderStages, CommitStages
      <4> QED BY <1>5, <2>1, <2>9, <3>1, <4>1
    <3>2. CASE u # t
      BY <1>5, <1>16, <2>14, <3>2 DEF OrderInv, At
    <3> QED BY <3>1, <3>2
  <2>15. /\ \A z \in Threads : Pending(z)' /\ idx[z] > 0 =>
              /\ ~error'[z] => idx[z] <= Len(binlog') /\ binlog'[idx[z]] = z
              /\ next'[z] = NoThread =>
                   \A u \in Threads :
                     pc'[u] \in LeaderStages /\ of[u] = of[z] =>
                       ~At(u, "write")' /\ End(idx, z)' = After(idx, u)'
         /\ \A z, v \in Threads : Pending(z)' /\ next'[z] = v =>
              /\ idx[z] = 0 => idx[v] = 0
              /\ idx[z] > 0 =>
                   \/ idx[v] = End(idx, z)'
                   \/ /\ End(idx, z)' = Written'
                      /\ \E u \in Threads : At(u, "write")' /\ cur'[u] = v
    BY <1>15, <2>11, <2>12
  <2> QED BY <2>7, <2>8, <2>10, <2>13, <2>14, <2>15 DEF OrderInv
<1>23. OrderKept'
  BY <1>21, <1>22 DEF OrderKept
<1> QED BY <1>10, <1>11, <1>12, <1>20, <1>23 DEF IInv

(* Without the optimised scheduling a thread passes the turn on.           *)
LEMMA OwnSignalInv ==
  ASSUME IInv, NEW t \in Threads, OwnSignal(t)
  PROVE  IInv'
<1> USE Basics
<1>1. PICK y : y = next[t]
  OBVIOUS
<1>2. /\ pc[t] = "own_signal" /\ TypeOK /\ LocksInv /\ ChainInv
      /\ IF y = NoThread THEN UNCHANGED <<wakeup_ready, wfcVars>>
                         ELSE Signal(y, error[t])
      /\ Goto(t, "returned")
      /\ UNCHANGED <<next, cur, error>>
      /\ UNCHANGED <<rplVars, lockVars, queueVars, logVars, outcome>>
  BY <1>1 DEF OwnSignal, At, IInv
<1>3. /\ next \in [Threads -> Threads \cup {NoThread}]
      /\ cur \in [Threads -> Threads \cup {NoThread}]
      /\ error \in [Threads -> BOOLEAN]
  BY <1>2 DEF TypeOK, EntryTypeOK
<1>4. /\ pc' \in [Threads -> Stages]
      /\ pc'[t] = "returned" /\ \A u \in Threads \ {t} : pc'[u] = pc[u]
  BY <1>2, GotoType DEF Stages
<1>5. UNCHANGED <<prepare_ordered, log_lock, after_sync, commit_ordered,
                  optimize, queue, todo, is_leader, queued_by_other>>
  BY <1>2 DEF lockVars, queueVars
<1>6. ~optimize /\ commit_ordered # t
  BY <1>2 DEF LocksInv, CommitStages, OwnStages
<1>7. Pending(t) /\ pc[t] \notin LeaderStages
  BY <1>2 DEF Pending, LeaderStages, CommitStages, OwnStages
<1>8. y = NoThread \/ (y \in Threads /\ Waits(y))
  BY <1>1, <1>2, <1>3, <1>7 DEF ChainInv
<1>9. TellStep(t, y)
  <2>1. CASE y = NoThread
    BY <1>2, <1>4, <1>5, <2>1 DEF TellStep
  <2>2. CASE y # NoThread
    <3>1. y \in Threads /\ Waits(y) /\ Signal(y, error[t]) /\ error[t] \in BOOLEAN
      BY <1>2, <1>3, <1>8, <2>2
    <3> QED BY <1>2, <1>4, <1>5, <3>1 DEF TellStep
  <2> QED BY <2>1, <2>2
<1>10. /\ QueueInv' /\ WfcInv' /\ WfcTypeOK'
       /\ wakeup_ready' \in [Threads -> BOOLEAN]
       /\ \A z \in Threads :
            /\ Waits(z)' <=> Waits(z) /\ z # y
            /\ Called(z)' <=> Called(z) \/ (z = y /\ ~optimize)
       /\ ~Waits(t) /\ ~Called(t) /\ y # t
       /\ y \in Threads => pc[y] \in {"wait_ready", "wait_prior"}
  BY <1>9, TellLemma
<1>11. TypeOK'
  <2>1. RplTypeOK' /\ LockTypeOK' /\ QueueTypeOK' /\ LogTypeOK'
    BY <1>2, TypeFrame
  <2>2. EntryTypeOK'
    BY <1>2, <1>3, <1>10 DEF EntryTypeOK
  <2> QED BY <1>2, <1>4, <1>10, <2>1, <2>2 DEF TypeOK
<1>12. LocksInv'
  BY <1>2, <1>4, <1>5, <1>6
     DEF LocksInv, At, CommitStages, OwnStages, GroupStages
<1>13. \A z \in Threads : Pending(z)' <=> Pending(z) /\ z # t
  <2>1. ASSUME NEW z \in Threads, z # t PROVE Pending(z)' <=> Pending(z)
    <3>1. Waits(z)' \/ Called(z)' <=> Waits(z) \/ Called(z)
      BY <1>6, <1>8, <1>10
    <3> QED BY <1>2, <1>4, <2>1, <3>1 DEF Pending
  <2>2. ~Pending(t)'
    BY <1>4, <1>10 DEF Pending, LeaderStages, CommitStages, OwnStages
  <2> QED BY <2>1, <2>2
<1>14. PICK idx \in [Threads -> Nat], of \in [Threads -> Nat], k \in Nat :
         GroupsInv(of, k)
  BY DEF IInv, OrderKept
(* The group of t has no leader any more.                                  *)
<1>15. \A u \in Threads : pc[u] \in LeaderStages /\ y \in Threads =>
         of[u] # of[y] /\ cur[u] # y
  <2> SUFFICES ASSUME NEW u \in Threads, pc[u] \in LeaderStages, y \in Threads
               PROVE  of[u] # of[y] /\ cur[u] # y
    OBVIOUS
  <2>1. of[y] = of[t]
    BY <1>1, <1>7, <1>14 DEF GroupsInv
  <2>2. of[u] # of[t]
    BY <1>7, <1>10, <1>14 DEF GroupsInv
  <2>3. of[cur[u]] = of[u]
    BY <1>14 DEF GroupsInv
  <2> QED BY <2>1, <2>2, <2>3
<1>16. \A u \in Threads : pc'[u] \in LeaderStages <=> pc[u] \in LeaderStages
  BY <1>4, <1>7 DEF LeaderStages, CommitStages
<1>17. ChainInv'
  <2>1. ASSUME NEW z \in Threads, NEW v \in Threads, Pending(z)', next'[z] = v
        PROVE  Waits(v)'
    <3>1. Pending(z) /\ z # t /\ next[z] = v
      BY <1>2, <1>13, <2>1
    <3>2. v # y
      BY <1>1, <1>2, <1>7, <3>1 DEF ChainInv
    <3>3. Waits(v)
      BY <1>2, <3>1 DEF ChainInv
    <3> QED BY <1>10, <3>2, <3>3
  <2>2. \A z, v \in Threads :
          Pending(z)' /\ Pending(v)' /\ next'[z] = next'[v] /\ z # v =>
            next'[z] = NoThread
    BY <1>2, <1>13 DEF ChainInv
  <2>3. ASSUME NEW u \in Threads
        PROVE  /\ pc'[u] \in LeaderStages => cur'[u] \in Threads
               /\ pc'[u] \in {"written", "synced", "busy"} => cur'[u] = u
               /\ At(u, "waking")' => cur'[u] \in Groups
               /\ pc'[u] \in CommitStages =>
                    \A z \in Threads : Pending(z)' => next'[z] # cur'[u]
    <3>1. CASE u = t
      BY <1>4, <3>1 DEF At, LeaderStages, CommitStages
    <3>2. CASE u # t
      BY <1>2, <1>4, <1>13, <3>2 DEF ChainInv, At
    <3> QED BY <3>1, <3>2
  <2>4. \A u, z \in Threads :
          pc'[u] \in LeaderStages /\ cur'[u] = z => z = u \/ Waits(z)'
    BY <1>2, <1>8, <1>10, <1>15, <1>16 DEF ChainInv
  <2> QED BY <2>1, <2>2, <2>3, <2>4 DEF ChainInv
<1>18. GroupsInv(of, k)'
  <2>1. \A z, v \in Threads : Pending(z)' /\ next'[z] = v => of[v] = of[z]
    BY <1>2, <1>13, <1>14 DEF GroupsInv
  <2>2. /\ \A z \in Threads : of[z] < k
        /\ \A u \in Threads : pc'[u] \in LeaderStages => of[cur'[u]] = of[u]
        /\ \A u, v \in Threads :
             pc'[u] \in LeaderStages /\ pc'[v] \in LeaderStages /\ of[v] = of[u] =>
               v = u
    BY <1>2, <1>14, <1>16 DEF GroupsInv
  <2>3. \A u, z \in Threads :
          pc'[u] \in LeaderStages /\ Pending(z)' /\ of[z] = of[u] =>
            z = u \/ Waits(z)'
    BY <1>8, <1>10, <1>13, <1>14, <1>15, <1>16 DEF GroupsInv
  <2> QED BY <2>1, <2>2, <2>3 DEF GroupsInv
<1>19. OrderKept'
  BY <1>5, <1>6, <1>14, <1>18 DEF OrderKept
<1> QED BY <1>10, <1>11, <1>12, <1>17, <1>19 DEF IInv

----------------------------------------------------------------------------
(* Every step keeps the invariant.                                         *)
LEMMA NextInv ==
  ASSUME IInv, [Next]_vars
  PROVE  IInv'
<1>1. ASSUME NEW g \in Groups, GroupStep(g) PROVE IInv'
  <2>1. CASE StartGroup(g) \/ SkipGroup(g) \/ ApplyFails(g)
    BY <2>1, StartGroupInv, SkipGroupInv, ApplyFailsInv
  <2>2. CASE Retry(g) \/ RetryRegister(g) \/ RetryWait(g) \/ Reapply(g)
    BY <2>2, RetryInv, RetryRegisterInv, RetryWaitInv, ReapplyInv
  <2>3. CASE QueueReady(g) \/ QueueWoken(g) \/ QueueKilled(g) \/ LastWait(g)
    BY <2>3, QueueReadyInv, QueueWokenInv, QueueKilledInv, LastWaitInv
  <2>4. CASE FinishUnregister(g) \/ FinishRegister(g) \/ FinishWait(g)
    BY <2>4, FinishUnregisterInv, FinishRegisterInv, FinishWaitInv
  <2>5. CASE FinishMark(g) \/ FinishWake(g) \/ FinishWakes(g)
    BY <2>5, FinishMarkInv, FinishWakeInv, FinishWakesInv
  <2> QED BY <1>1, <2>1, <2>2, <2>3, <2>4, <2>5 DEF GroupStep
<1>2. ASSUME NEW t \in Threads, CommitStep(t) PROVE IInv'
  <2>1. CASE Apply(t) \/ RollBack(t) \/ QueueCheck(t) \/ Enqueue(t)
    BY <2>1, ApplyInv, RollBackInv, QueueCheckInv, EnqueueInv
  <2>2. CASE EnqueueEntry(t) \/ WakeupReady(t)
    BY <2>2, EnqueueEntryInv, WakeupReadyInv
  <2>3. CASE LeaderLockLog(t) \/ LeaderCollect(t) \/ LeaderWrite(t)
    BY <2>3, LeaderLockLogInv, LeaderCollectInv, LeaderWriteInv
  <2>4. CASE LeaderAfterSync(t) \/ LeaderCommitLock(t) \/ LeaderNotBusy(t)
    BY <2>4, LeaderAfterSyncInv, LeaderCommitLockInv, LeaderNotBusyInv
  <2>5. CASE CommitEntry(t) \/ LeaderWakes(t) \/ WakeEntry(t)
    BY <2>5, CommitEntryInv, LeaderWakesInv, WakeEntryInv
  <2>6. CASE OwnCommit(t) \/ OwnWakes(t) \/ OwnSignal(t)
    BY <2>6, OwnCommitInv, OwnWakesInv, OwnSignalInv
  <2>7. CASE Returned(t) \/ Commit(t)
    BY <2>7, ReturnedInv, CommitInv
  <2> QED BY <1>2, <2>1, <2>2, <2>3, <2>4, <2>5, <2>6, <2>7 DEF CommitStep
<1>3. CASE UNCHANGED vars
  BY <1>3, StutterInv
<1>4. CASE \E g \in Groups, how \in {"kill", "retry"} : Kill(g, how)
  BY <1>4, KillInv
<1>5. CASE \E t \in Threads : Step(t)
  BY <1>1, <1>2, <1>5 DEF Step
<1> QED BY <1>3, <1>4, <1>5 DEF Next, AllDone

(* A thread moves only itself, and there is one way on from "collect".     *)
LEMMA OnlyCollect ==
  ASSUME TypeOK, NEW t \in Threads, NEW u \in Threads, Step(u),
         pc[t] = "collect", pc'[t] # pc[t]
  PROVE  LeaderCollect(t)
<1> USE Basics
<1>1. pc \in [Threads -> Stages]
  BY DEF TypeOK
<1>2. ASSUME u \in Groups, GroupStep(u)
      PROVE  pc[u] # "collect" /\ (pc' = pc \/ \E s : Goto(u, s))
  <2>1. CASE StartGroup(u) \/ ApplyFails(u) \/ Reapply(u)
    BY <2>1 DEF StartGroup, ApplyFails, Reapply, At
  <2>2. CASE SkipGroup(u) \/ RetryWait(u) \/ LastWait(u)
    BY <2>2 DEF SkipGroup, RetryWait, LastWait, WaitPrior, PriorWaited, At
  <2>3. CASE Retry(u) \/ RetryRegister(u)
    BY <2>3 DEF Retry, RetryRegister, At
  <2>4. CASE QueueReady(u) \/ QueueWoken(u) \/ QueueKilled(u)
    BY <2>4 DEF QueueReady, QueueWoken, QueueKilled, At
  <2>5. CASE FinishUnregister(u) \/ FinishRegister(u) \/ FinishWait(u)
    BY <2>5 DEF FinishUnregister, FinishRegister, FinishWait, At
  <2>6. CASE FinishMark(u) \/ FinishWake(u) \/ FinishWakes(u)
    BY <2>6 DEF FinishMark, FinishWake, FinishWakes, CallWakeup, WakeupStep, At
  <2> QED BY <1>2, <2>1, <2>2, <2>3, <2>4, <2>5, <2>6 DEF GroupStep
<1>3. ASSUME CommitStep(u), ~LeaderCollect(u)
      PROVE  pc[u] # "collect" /\ (pc' = pc \/ \E s : Goto(u, s))
  <2>1. CASE Apply(u) \/ RollBack(u) \/ QueueCheck(u)
    BY <2>1 DEF Apply, RollBack, QueueCheck, At
  <2>2. CASE Enqueue(u) \/ EnqueueEntry(u) \/ WakeupReady(u)
    BY <2>2 DEF Enqueue, EnqueueEntry, WakeupReady, At
  <2>3. CASE LeaderLockLog(u) \/ LeaderWrite(u) \/ LeaderAfterSync(u)
    BY <2>3 DEF LeaderLockLog, LeaderWrite, LeaderAfterSync, At
  <2>4. CASE LeaderCommitLock(u) \/ LeaderNotBusy(u)
    BY <2>4 DEF LeaderCommitLock, LeaderNotBusy, At
  <2>5. CASE CommitEntry(u) \/ LeaderWakes(u) \/ WakeEntry(u)
    BY <2>5 DEF CommitEntry, LeaderWakes, WakeEntry, CallWakeup, WakeupStep, At
  <2>6. CASE OwnCommit(u) \/ OwnWakes(u) \/ OwnSignal(u)
    BY <2>6 DEF OwnCommit, OwnWakes, OwnSignal, CallWakeup, WakeupStep, At
  <2>7. CASE Returned(u) \/ Commit(u)
    BY <2>7 DEF Returned, Commit, At
  <2> QED BY <1>3, <2>1, <2>2, <2>3, <2>4, <2>5, <2>6, <2>7 DEF CommitStep
<1>4. LeaderCollect(u) \/ (pc[u] # "collect" /\ (pc' = pc \/ \E s : Goto(u, s)))
  BY <1>2, <1>3 DEF Step
<1>5. u = t
  BY <1>1, <1>4 DEF LeaderCollect, Goto
<1> QED BY <1>4, <1>5

(* What the invariant says about the engines and the binary log            *)
LEMMA EnginesFollow ==
  ASSUME IInv
  PROVE  SameOrder
<1> SUFFICES ASSUME optimize PROVE IsPrefix(engine, binlog)
  BY DEF SameOrder
<1>1. engine \in Seq(Threads) /\ binlog \in Seq(Threads)
  BY DEF IInv, TypeOK, LogTypeOK
<1>2. /\ Len(engine) <= Len(binlog)
      /\ \A i \in 1 .. Len(engine) : engine[i] = binlog[i]
  BY DEF IInv, OrderKept, OrderInv
<1>3. SubSeq(engine, 1, Len(engine)) = SubSeq(binlog, 1, Len(engine))
  <2> DEFINE a == SubSeq(engine, 1, Len(engine))
             b == SubSeq(binlog, 1, Len(engine))
  <2>1. /\ a = [i \in 1 .. Len(engine) |-> engine[i]]
        /\ b = [i \in 1 .. Len(engine) |-> binlog[i]]
    BY <1>1, <1>2
  <2> HIDE DEF a, b
  <2>2. a = b
    BY <1>2, <2>1
  <2> QED BY <2>2 DEF a, b
<1> QED BY <1>2, <1>3 DEF IsPrefix

(* and about those who wait                                                *)
LEMMA WaitersKnown ==
  ASSUME IInv
  PROVE  WaiterIsKnown
<1> USE Basics
<1> SUFFICES ASSUME NEW g \in Groups, waitee[g] # NoGroup
             PROVE  Cardinality(PlacesOf(g)) = 1
  BY DEF WaiterIsKnown
<1>1. PICK w : w = waitee[g]
  OBVIOUS
<1>2. w \in Groups
  BY <1>1 DEF IInv, TypeOK, WfcTypeOK
<1>3. PICK T : T = Taken
  OBVIOUS
<1>4. ListsInv(T) /\ (g \in T <=> queued_by_other[g] /\ At(g, "wait_prior"))
  BY <1>3 DEF IInv, WfcInv, Taken, TakenOver
<1>5. \A p : p \in PlacesOf(g) <=>
        \/ p = "list" /\ Contains(subsequent_commits_list[w], g)
        \/ p = "waking" /\ Contains(waking[w], g)
        \/ p = "queued" /\ g \in T
  BY <1>1, <1>4 DEF PlacesOf
<1>6. /\ Contains(subsequent_commits_list[w], g) =>
           g \notin T /\ ~Contains(waking[w], g)
      /\ Contains(waking[w], g) => g \notin T
      /\ g \notin T => \/ Contains(subsequent_commits_list[w], g)
                       \/ Contains(waking[w], g)
  BY <1>1, <1>2, <1>4 DEF ListsInv
<1>7. \E p : PlacesOf(g) = {p}
  <2>1. CASE Contains(subsequent_commits_list[w], g)
    <3>1. PlacesOf(g) = {"list"}
      BY <1>5, <1>6, <2>1
    <3> QED BY <3>1
  <2>2. CASE Contains(waking[w], g)
    <3>1. PlacesOf(g) = {"waking"}
      BY <1>5, <1>6, <2>2
    <3> QED BY <3>1
  <2>3. CASE g \in T
    <3>1. PlacesOf(g) = {"queued"}
      BY <1>5, <1>6, <2>3
    <3> QED BY <3>1
  <2> QED BY <1>6, <2>1, <2>2, <2>3
<1> QED BY <1>7, FS_Singleton

(* The invariant holds in every behaviour.                                 *)
LEMMA Invariance == Spec => []IInv
<1>1. Init => IInv
  BY InitInv
<1>2. IInv /\ [Next]_vars => IInv'
  BY NextInv
<1> QED BY <1>1, <1>2, PTL DEF Spec

(* Whatever sessions and event groups meet in the group commit, the state  *)
(* of its queue, its locks and its threads keeps its type.                 *)
THEOREM TypeCorrect == Spec => []TypeOK
<1>1. IInv => TypeOK
  BY DEF IInv
<1> QED BY <1>1, Invariance, PTL

(* With the default scheduling the engines commit in the order of the      *)
(* binary log, for any number of transactions, whatever groups the leaders *)
(* form and whichever writes fail: trx_group_commit_leader() hands over    *)
(* from LOCK_log to LOCK_after_binlog_sync to LOCK_commit_ordered.         *)
THEOREM CommitOrder == Spec => []SameOrder
<1>1. IInv => SameOrder
  BY EnginesFollow
<1> QED BY <1>1, Invariance, PTL

(* A group that waits for the prior commit is always in exactly one place  *)
(* where whoever has to wake it up will find it: no wakeup is lost between *)
(* register_wait_for_prior_commit(), queue_for_group_commit() of the prior *)
(* group, which takes it into the queue, and wakeup_subsequent_commits2(). *)
THEOREM NoLostWaiter == Spec => []WaiterIsKnown
<1>1. IInv => WaiterIsKnown
  BY WaitersKnown
<1> QED BY <1>1, Invariance, PTL

(* The transaction that found the queue empty is the first of the list     *)
(* that it takes and reverses: DBUG_ASSERT(leader == queue).               *)
THEOREM LeaderFirst == Spec => LeaderIsFirst
<1>1. IInv /\ [Next]_vars =>
        [\A t \in Threads :
           At(t, "collect") /\ pc'[t] = "write" => cur'[t] = t]_vars
  <2> SUFFICES ASSUME IInv, Next, NEW t \in Threads, pc[t] = "collect",
                      pc'[t] = "write"
               PROVE  cur'[t] = t
    BY DEF At
  <2>1. PICK u \in Threads : Step(u)
    <3>1. ~AllDone /\ ~\E g \in Groups, how \in {"kill", "retry"} : Kill(g, how)
      BY DEF AllDone, Kill, vars
    <3> QED BY <3>1 DEF Next
  <2>2. TypeOK /\ cur \in [Threads -> Threads \cup {NoThread}]
    BY DEF IInv, TypeOK, EntryTypeOK
  <2>3. LeaderCollect(t)
    BY <2>1, <2>2, OnlyCollect
  <2>4. Last(queue) = t
    BY <2>3, LeaderCollectFacts
  <2> QED BY <2>2, <2>3, <2>4 DEF LeaderCollect
<1> QED BY <1>1, Invariance, PTL DEF LeaderIsFirst, Spec

----------------------------------------------------------------------------
(* What transactions are told, and what is in the logs.                    *)

(* Who has still to be written                                             *)
Fresh(x) ==
  \/ pc[x] \in {"queue", "ready", "enqueuing", "leader", "collect"}
  \/ pc[x] \in {"wait_prior", "enqueue"} /\ ~queued_by_other[x]
  \/ Passive(x) /\ InQueue(x)

(* Who has been told to go on, and will see it                             *)
Told(x) ==
  \/ At(x, "wait_ready") /\ wakeup_ready[x]
  \/ TakenOver(x) /\ waitee[x] = NoGroup
  \/ At(x, "enqueue") /\ queued_by_other[x]

(* W are the transactions whose turn in the loop that writes the group has *)
(* come, whether the write failed or not, and K those whose turn in the    *)
(* loop that calls commit_ordered() has come, since they were applied.     *)
PhaseOf(x, W, K) ==
  /\ Fresh(x) => x \notin W
  /\ Told(x) => x \in W /\ (x \in K <=> optimize)
  /\ pc[x] \in {"written", "synced", "busy", "own_commit"} =>
       x \in W /\ x \notin K
  /\ pc[x] \in {"own_waking", "own_signal", "returned", "last_wait",
                "commit"} => x \in K
  /\ At(x, "write") =>
       x \notin K /\ cur[x] \notin W /\ (cur[x] = x \/ x \in W)
  /\ pc[x] \in CommitStages =>
       /\ cur[x] \in W
       /\ cur[x] \in K <=> pc[x] # "commit_entry"
       /\ cur[x] = x \/ x \in K
  /\ Waits(x) /\ x \in K =>
       \E t \in Threads : pc[t] \in {"waking", "wake_entry"} /\ cur[t] = x

(* A group is written from its first entry to its last.                    *)
LinkOf(x, y, W) ==
  /\ y \in W => x \in W
  /\ x \in W /\ y \notin W =>
       \E t \in Threads : At(t, "write") /\ cur[t] = y

PhaseInv(W, K) ==
  /\ K \subseteq W
  /\ \A x \in Threads : PhaseOf(x, W, K)
  /\ \A x, y \in Threads : Pending(x) /\ next[x] = y => LinkOf(x, y, W)
  /\ \A t, x \in Threads :
       At(t, "write") /\ Pending(x) /\ next[x] = cur[t] => x \in W

(* Nothing of a transaction is logged, or has been rolled back.            *)
EarlyStages == {"start", "skip", "apply", "failed", "interrupted", "retry",
                "retry_wait", "reapply"}

(* The transaction has been told something.                                *)
EndStages == {"failed", "interrupted", "retry", "retry_wait", "reapply",
              "finish", "finish_register", "finish_wait", "finish_mark",
              "finish_wake", "finish_waking", "done"}

ResultOf(x, W, K) ==
  /\ pc[x] \in {"last_wait", "commit"} => ~error[x]
  /\ pc[x] \notin EndStages => outcome[x] = "none"
  /\ x \notin late =>
       /\ Times(binlog, x) = IF x \in W /\ ~error[x] THEN 1 ELSE 0
       /\ Times(engine, x) = IF x \in K /\ ~error[x] THEN 1 ELSE 0
       /\ outcome[x] = "ok" => x \in K /\ ~error[x]
       /\ outcome[x] = "error" \/ pc[x] \in EarlyStages =>
            x \notin W \/ error[x]

LogsInv(W, K) == PhaseInv(W, K) /\ \A x \in Threads : ResultOf(x, W, K)

(* An entry that was written in a group whose sync failed has an error.    *)
FailedSync(W) == \A x \in Threads : x \in W /\ x \in unsynced => error[x]

LogsKept == \E W, K \in SUBSET Threads : LogsInv(W, K) /\ FailedSync(W)

(* How often a transaction is in a log that grows.                         *)
LEMMA TimesAppend ==
  ASSUME NEW log \in Seq(Threads), NEW e \in Threads
  PROVE  \A x : Times(Append(log, e), x) =
                  IF x = e THEN Times(log, x) + 1 ELSE Times(log, x)
<1> SUFFICES ASSUME NEW x
             PROVE  Times(Append(log, e), x) =
                      IF x = e THEN Times(log, x) + 1 ELSE Times(log, x)
  OBVIOUS
<1> DEFINE S == {i \in DOMAIN log : log[i] = x}
           R == {i \in DOMAIN Append(log, e) : Append(log, e)[i] = x}
           n == Len(log) + 1
<1>1. /\ n \in Nat /\ DOMAIN log = 1 .. Len(log) /\ Len(log) \in Nat
      /\ DOMAIN Append(log, e) = 1 .. n
      /\ Append(log, e)[n] = e
      /\ \A i \in 1 .. Len(log) : Append(log, e)[i] = log[i]
  OBVIOUS
<1>2. S \subseteq 1 .. Len(log) /\ n \notin S
  BY <1>1
<1>3. R = IF x = e THEN S \cup {n} ELSE S
  BY <1>1
<1>4. IsFiniteSet(S)
  <2>1. IsFiniteSet(1 .. Len(log))
    BY <1>1, FS_Interval
  <2> QED BY <1>2, <2>1, FS_Subset
<1>5. Times(log, x) = Cardinality(S) /\ Times(Append(log, e), x) = Cardinality(R)
  BY DEF Times
<1> HIDE DEF S, R, n
<1>6. Cardinality(S \cup {n}) = Cardinality(S) + 1
  BY <1>2, <1>4, FS_AddElement
<1> QED BY <1>3, <1>5, <1>6

LEMMA TimesEmpty == \A x : Times(<<>>, x) = 0
<1>1. \A x : {i \in DOMAIN <<>> : <<>>[i] = x} = {}
  OBVIOUS
<1> QED BY <1>1, FS_EmptySet DEF Times

(* Nothing has been written initially.                                     *)
LEMMA InitLogs == Init => LogsKept
<1> SUFFICES ASSUME Init PROVE LogsInv({}, {})
  BY DEF LogsKept, FailedSync
<1>1. \A x \in Threads : pc[x] = IF x \in Groups THEN "start" ELSE "apply"
  BY DEF Init
<1>2. \A x \in Threads : /\ ~Fresh(x) /\ ~Told(x) /\ ~Waits(x) /\ ~Pending(x)
                         /\ ~At(x, "write") /\ pc[x] \notin CommitStages
  BY <1>1 DEF Fresh, Told, Waits, Passive, Pending, Called, TakenOver, At,
              LeaderStages, CommitStages, OwnStages
<1>3. PhaseInv({}, {})
  BY <1>1, <1>2 DEF PhaseInv, PhaseOf, At
<1>4. ASSUME NEW x \in Threads PROVE ResultOf(x, {}, {})
  <2>1. binlog = <<>> /\ engine = <<>> /\ outcome[x] = "none"
    BY DEF Init
  <2>2. Times(binlog, x) = 0 /\ Times(engine, x) = 0
    BY <2>1, TimesEmpty
  <2> QED BY <1>1, <2>1, <2>2 DEF ResultOf
<1> QED BY <1>3, <1>4 DEF LogsInv

(* A step of t that concerns nobody else                                   *)
LocalStep(t) ==
  /\ \A x \in Threads \ {t} :
       /\ pc'[x] = pc[x] /\ cur'[x] = cur[x]
       /\ queued_by_other'[x] = queued_by_other[x]
       /\ wakeup_ready'[x] = wakeup_ready[x]
       /\ InQueue(x)' <=> InQueue(x)
  /\ \A g \in Taken \ {t} : waitee'[g] = waitee[g]
  /\ UNCHANGED <<next, optimize>>

(* leaves the others where they are.                                       *)
AsideStep(t) ==
  /\ \A x \in Threads \ {t} : /\ pc'[x] = pc[x] /\ cur'[x] = cur[x]
                              /\ Fresh(x)' <=> Fresh(x)
                              /\ Told(x)' <=> Told(x)
                              /\ Waits(x)' <=> Waits(x)
                              /\ Pending(x)' <=> Pending(x)
  /\ UNCHANGED <<next, optimize>>

LEMMA LocalFrame ==
  ASSUME IInv, NEW t \in Threads, LocalStep(t)
  PROVE  AsideStep(t)
<1> SUFFICES ASSUME NEW x \in Threads \ {t}
             PROVE  /\ Fresh(x)' <=> Fresh(x)
                    /\ Told(x)' <=> Told(x)
                    /\ Waits(x)' <=> Waits(x)
                    /\ Pending(x)' <=> Pending(x)
  BY DEF LocalStep, AsideStep
<1>1. /\ pc'[x] = pc[x] /\ cur'[x] = cur[x]
      /\ queued_by_other'[x] = queued_by_other[x]
      /\ wakeup_ready'[x] = wakeup_ready[x]
      /\ InQueue(x)' <=> InQueue(x)
      /\ UNCHANGED optimize
  BY DEF LocalStep
<1>2. TakenOver(x) => waitee'[x] = waitee[x]
  <2>1. TakenOver(x) => x \in Taken
    BY DEF TakenOver, At, Taken, IInv, LocksInv, GroupStages
  <2> QED BY <2>1 DEF LocalStep
<1>3. /\ TakenOver(x)' <=> TakenOver(x)
      /\ \A s : At(x, s)' <=> At(x, s)
  BY <1>1 DEF TakenOver, At
<1>4. Passive(x)' <=> Passive(x)
  BY <1>1, <1>2, <1>3 DEF Passive
<1>5. Told(x)' <=> Told(x)
  BY <1>1, <1>2, <1>3 DEF Told
<1>6. Called(x)' <=> Called(x)
  BY <1>1, <1>2, <1>3 DEF Called
<1>7. Fresh(x)' <=> Fresh(x)
  BY <1>1, <1>4 DEF Fresh
<1>8. Waits(x)' <=> Waits(x)
  BY <1>1, <1>4 DEF Waits
<1> QED BY <1>1, <1>5, <1>6, <1>7, <1>8 DEF Pending

(* The links of a group when nobody but those who are done leaves it, and  *)
(* no entry is written.                                                    *)
LEMMA LinksAside ==
  ASSUME IInv, NEW W, NEW K, PhaseInv(W, K), NEW W2,
         UNCHANGED next,
         \A x \in Threads : Pending(x)' => Pending(x) /\ (x \in W2 <=> x \in W),
         \A x \in Threads : Waits(x) => (x \in W2 <=> x \in W),
         \A u \in Threads : At(u, "write")' <=> At(u, "write"),
         \A u \in Threads : At(u, "write") => cur'[u] = cur[u]
  PROVE  /\ \A x, y \in Threads : Pending(x)' /\ next'[x] = y => LinkOf(x, y, W2)'
         /\ \A t, x \in Threads :
              At(t, "write")' /\ Pending(x)' /\ next'[x] = cur'[t] => x \in W2
<1>1. ASSUME NEW x \in Threads, NEW y \in Threads, Pending(x)', next'[x] = y
      PROVE  LinkOf(x, y, W2)'
  <2>1. Pending(x) /\ next[x] = y /\ (x \in W2 <=> x \in W)
    BY <1>1
  <2>2. y \in W2 <=> y \in W
    BY <2>1 DEF IInv, ChainInv
  <2>3. LinkOf(x, y, W)
    BY <2>1 DEF PhaseInv
  <2> QED BY <2>1, <2>2, <2>3 DEF LinkOf
<1>2. ASSUME NEW u \in Threads, NEW x \in Threads, At(u, "write")',
             Pending(x)', next'[x] = cur'[u]
      PROVE  x \in W2
  <2>1. Pending(x) /\ (x \in W2 <=> x \in W)
    BY <1>2
  <2>2. At(u, "write") /\ next[x] = cur[u]
    BY <1>2
  <2> QED BY <2>1, <2>2 DEF PhaseInv
<1> QED BY <1>1, <1>2

(* A step of t outside of the loops over the group, which may tell y to go *)
(* on.                                                                     *)
LEMMA PhaseAside ==
  ASSUME IInv, NEW t \in Threads, NEW y, NEW W, NEW K, PhaseInv(W, K),
         NEW W2, NEW K2, K2 \subseteq W2,
         \A x \in Threads \ {t} : /\ pc'[x] = pc[x] /\ cur'[x] = cur[x]
                                  /\ Waits(x)' => Waits(x)
                                  /\ Pending(x)' => Pending(x),
         \A x \in Threads \ {t, y} : /\ Fresh(x)' => Fresh(x)
                                     /\ Told(x)' => Told(x),
         UNCHANGED <<next, optimize>>,
         {pc[t], pc'[t]} \cap (CommitStages \cup {"write"}) = {},
         ~Waits(t),
         \A x : x # t => (x \in W2 <=> x \in W) /\ (x \in K2 <=> x \in K),
         Pending(t)' => Pending(t) /\ (t \in W2 <=> t \in W),
         PhaseOf(t, W2, K2)', y \in Threads => PhaseOf(y, W2, K2)'
  PROVE  PhaseInv(W2, K2)'
<1> USE Basics
<1>1. \A u \in Threads : /\ At(u, "write")' <=> At(u, "write")
                         /\ At(u, "write") => u # t /\ cur'[u] = cur[u]
  BY DEF At
<1>2. \A u \in Threads : pc[u] \in {"waking", "wake_entry"} =>
        u # t /\ cur'[u] = cur[u] /\ pc'[u] = pc[u]
  BY DEF CommitStages
<1>3. \A u \in Threads : pc[u] \in CommitStages \cup {"write"} =>
        cur[u] \in Threads \ {t}
  BY DEF IInv, ChainInv, LeaderStages
<1>4. ASSUME NEW x \in Threads, x \notin {t, y} PROVE PhaseOf(x, W2, K2)'
  <2>1. PhaseOf(x, W, K)
    BY DEF PhaseInv
  <2>2. /\ pc'[x] = pc[x] /\ cur'[x] = cur[x] /\ optimize' = optimize
        /\ Fresh(x)' => Fresh(x)
        /\ Told(x)' => Told(x)
        /\ Waits(x)' => Waits(x)
        /\ (x \in W2 <=> x \in W) /\ (x \in K2 <=> x \in K)
    BY <1>4
  <2>3. pc[x] \in CommitStages \cup {"write"} =>
          (cur[x] \in W2 <=> cur[x] \in W) /\ (cur[x] \in K2 <=> cur[x] \in K)
    BY <1>3
  <2>4. Waits(x)' /\ x \in K2 =>
          \E u \in Threads : pc'[u] \in {"waking", "wake_entry"} /\ cur'[u] = x
    BY <1>2, <2>1, <2>2 DEF PhaseOf
  <2>5. /\ At(x, "write")' =>
             x \notin K2 /\ cur'[x] \notin W2 /\ (cur'[x] = x \/ x \in W2)
        /\ pc'[x] \in CommitStages =>
             /\ cur'[x] \in W2
             /\ cur'[x] \in K2 <=> pc'[x] # "commit_entry"
             /\ cur'[x] = x \/ x \in K2
    BY <2>1, <2>2, <2>3 DEF PhaseOf, At
  <2> QED BY <2>1, <2>2, <2>4, <2>5 DEF PhaseOf
<1>5. \A x \in Threads : Pending(x)' => Pending(x) /\ (x \in W2 <=> x \in W)
  OBVIOUS
<1>6. \A x \in Threads : Waits(x) => (x \in W2 <=> x \in W)
  OBVIOUS
<1>7. /\ \A x, z \in Threads : Pending(x)' /\ next'[x] = z => LinkOf(x, z, W2)'
      /\ \A u, x \in Threads :
           At(u, "write")' /\ Pending(x)' /\ next'[x] = cur'[u] => x \in W2
  BY <1>1, <1>5, <1>6, LinksAside
<1>8. \A x \in Threads : PhaseOf(x, W2, K2)'
  BY <1>4
<1> QED BY <1>7, <1>8 DEF PhaseInv

(* What a transaction has been told when a step does not concern it        *)
LEMMA ResultSame ==
  ASSUME NEW x \in Threads, NEW W, NEW K, ResultOf(x, W, K), NEW W2, NEW K2,
         pc'[x] = pc[x], error'[x] = error[x], outcome'[x] = outcome[x],
         x \in late' <=> x \in late,
         Times(binlog', x) = Times(binlog, x),
         Times(engine', x) = Times(engine, x),
         x \in W2 <=> x \in W, x \in K2 <=> x \in K
  PROVE  ResultOf(x, W2, K2)'
<1>1. /\ pc'[x] \in {"last_wait", "commit"} => ~error'[x]
      /\ pc'[x] \notin EndStages => outcome'[x] = "none"
  BY DEF ResultOf
<1>2. x \notin late' =>
        /\ Times(binlog', x) = IF x \in W2 /\ ~error'[x] THEN 1 ELSE 0
        /\ Times(engine', x) = IF x \in K2 /\ ~error'[x] THEN 1 ELSE 0
        /\ outcome'[x] = "ok" => x \in K2 /\ ~error'[x]
        /\ outcome'[x] = "error" \/ pc'[x] \in EarlyStages =>
             x \notin W2 \/ error'[x]
  BY DEF ResultOf
<1>3. /\ Times(binlog, x)' = Times(binlog', x)
      /\ Times(engine, x)' = Times(engine', x)
  BY DEF Times
<1> QED BY <1>1, <1>2, <1>3 DEF ResultOf

(* Both together, when nobody is told anything                             *)
LEMMA AsideLemma ==
  ASSUME IInv, NEW t \in Threads, AsideStep(t),
         NEW W, NEW K, LogsInv(W, K), NEW W2, NEW K2, K2 \subseteq W2,
         {pc[t], pc'[t]} \cap (CommitStages \cup {"write"}) = {},
         ~Waits(t),
         \A x : x # t => (x \in W2 <=> x \in W) /\ (x \in K2 <=> x \in K),
         Pending(t)' => Pending(t) /\ (t \in W2 <=> t \in W),
         \A x \in Threads \ {t} :
           /\ error'[x] = error[x] /\ outcome'[x] = outcome[x]
           /\ x \in late' <=> x \in late
           /\ Times(binlog', x) = Times(binlog, x)
           /\ Times(engine', x) = Times(engine, x),
         PhaseOf(t, W2, K2)', ResultOf(t, W2, K2)'
  PROVE  LogsInv(W2, K2)'
<1>1. /\ \A x \in Threads \ {t} : /\ pc'[x] = pc[x] /\ cur'[x] = cur[x]
                                  /\ Waits(x)' => Waits(x)
                                  /\ Pending(x)' => Pending(x)
      /\ \A x \in Threads \ {t, t} : /\ Fresh(x)' => Fresh(x)
                                     /\ Told(x)' => Told(x)
      /\ UNCHANGED <<next, optimize>>
  BY DEF AsideStep
<1>2. PhaseInv(W, K)
  BY DEF LogsInv
<1>3. PhaseInv(W2, K2)'
  BY <1>1, <1>2, PhaseAside
<1>4. \A x \in Threads \ {t} : ResultOf(x, W2, K2)'
  BY <1>1, ResultSame DEF LogsInv
<1>5. \A x \in Threads : ResultOf(x, W2, K2)'
  BY <1>4
<1> QED BY <1>3, <1>5 DEF LogsInv

(* Outside of the group commit                                             *)
MoveStep(t, s) ==
  /\ Goto(t, s) /\ s \in Stages
  /\ UNCHANGED <<lockVars, queueVars, entryVars, binlog, engine>>
  /\ \A g \in Taken : waitee'[g] = waitee[g]
  /\ \A x \in Threads \ {t} : /\ outcome'[x] = outcome[x]
                              /\ x \in late' <=> x \in late
  /\ t \notin late' => t \notin late

LEMMA MoveLogs ==
  ASSUME IInv, NEW t \in Threads, NEW s, MoveStep(t, s),
         NEW W, NEW K, LogsInv(W, K), Apart(t),
         s \in ApartStages \/ (s \in {"wait_prior", "enqueue"} /\ ~queued_by_other[t]),
         s \in {"queue", "ready", "wait_prior", "enqueue"} => t \notin W,
         s \in {"returned", "last_wait", "commit"} => t \in K,
         s \in {"last_wait", "commit"} => ~error[t],
         s \notin EndStages => outcome'[t] = "none",
         t \notin late' =>
           /\ outcome'[t] = "ok" => t \in K /\ ~error[t]
           /\ outcome'[t] = "error" \/ s \in EarlyStages =>
                t \notin W \/ error[t]
  PROVE  LogsInv(W, K)'
<1>1. /\ pc' \in [Threads -> Stages]
      /\ pc'[t] = s /\ \A x \in Threads \ {t} : pc'[x] = pc[x]
  BY GotoType DEF MoveStep, IInv
<1>2. UNCHANGED <<queue, todo, next, cur, error, optimize, queued_by_other,
                  wakeup_ready, binlog, engine>>
  BY DEF MoveStep, lockVars, queueVars, entryVars
<1>3. AsideStep(t)
  <2>1. LocalStep(t)
    BY <1>1, <1>2 DEF LocalStep, MoveStep, InQueue
  <2> QED BY <2>1, LocalFrame
<1>4. /\ {pc[t], s} \cap (LeaderStages \cup OwnStages) = {}
      /\ pc[t] \notin {"enqueuing", "wait_ready", "leader", "collect"}
      /\ s \notin {"enqueuing", "wait_ready", "leader", "collect"}
      /\ s \in {"wait_prior", "enqueue"} => ~queued_by_other[t]
      /\ pc[t] \in {"wait_prior", "enqueue"} => ~queued_by_other[t]
  BY DEF Apart, ApartStages, LeaderStages, CommitStages, OwnStages
<1>5. ~Waits(t) /\ ~Told(t)' /\ ~Passive(t)' /\ ~Waits(t)' /\ ~Pending(t)'
  BY <1>1, <1>2, <1>4 DEF Waits, Told, Passive, Pending, Called, TakenOver, At,
                          LeaderStages, CommitStages
<1>6. PhaseOf(t, W, K)'
  <2>1. Fresh(t)' => s \in {"queue", "ready", "wait_prior", "enqueue"}
    BY <1>1, <1>4, <1>5 DEF Fresh
  <2> QED BY <1>1, <1>4, <1>5, <2>1
          DEF PhaseOf, At, LeaderStages, CommitStages, OwnStages
<1>7. K \subseteq W /\ ResultOf(t, W, K)
  BY DEF LogsInv, PhaseInv
<1>8. ResultOf(t, W, K)'
  <2>1. t \notin late' => /\ Times(binlog, t) = IF t \in W /\ ~error[t] THEN 1 ELSE 0
                          /\ Times(engine, t) = IF t \in K /\ ~error[t] THEN 1 ELSE 0
    BY <1>7 DEF ResultOf, MoveStep
  <2> QED BY <1>1, <1>2, <2>1 DEF ResultOf
<1>9. \A x \in Threads \ {t} :
        /\ error'[x] = error[x] /\ outcome'[x] = outcome[x]
        /\ x \in late' <=> x \in late
        /\ Times(binlog', x) = Times(binlog, x)
        /\ Times(engine', x) = Times(engine, x)
  BY <1>2 DEF MoveStep
<1>10. {pc[t], pc'[t]} \cap (CommitStages \cup {"write"}) = {}
  BY <1>1, <1>4 DEF LeaderStages
<1> QED BY <1>3, <1>5, <1>6, <1>7, <1>8, <1>9, <1>10, AsideLemma

(* A group that is apart touches nobody's waitee but its own.              *)
LEMMA OwnWaitee ==
  ASSUME IInv, NEW g \in Groups, Apart(g),
         \/ UNCHANGED wfcVars \/ RegisterPrior(g) \/ Unregister(g)
         \/ \E err \in BOOLEAN : LeaveList(g, err)
         \/ BeginWakeup(g)
  PROVE  \A x \in Taken : waitee'[x] = waitee[x]
<1>1. g \notin Taken
  BY DEF Taken, TakenOver, At, Apart, ApartStages
<1>2. waitee \in [Groups -> Groups \cup {NoGroup}] /\ Taken \subseteq Groups
  BY DEF IInv, TypeOK, WfcTypeOK, Taken
<1>3. \/ waitee' = waitee \/ \E w : waitee' = [waitee EXCEPT ![g] = w]
  BY DEF wfcVars, RegisterPrior, RegisterWait, Unregister, LeaveList, BeginWakeup
<1> QED BY <1>1, <1>2, <1>3

(* What is known of a transaction before its step                          *)
LEMMA LogFacts ==
  ASSUME NEW W, NEW K, LogsInv(W, K), NEW t \in Threads
  PROVE  PhaseOf(t, W, K) /\ ResultOf(t, W, K) /\ K \subseteq W
BY DEF LogsInv, PhaseInv

LEMMA StartGroupLogs ==
  ASSUME IInv, NEW g \in Groups, StartGroup(g), NEW W, NEW K, LogsInv(W, K)
  PROVE  LogsInv(W, K)'
<1> USE Basics
<1>1. PICK s \in {"skip", "apply"} : Goto(g, s)
  BY DEF StartGroup
<1>2. /\ pc[g] = "start" /\ RegisterPrior(g)
      /\ UNCHANGED <<lockVars, queueVars, entryVars, outcome>>
      /\ UNCHANGED <<binlog, engine, late>>
  BY DEF StartGroup, At, logVars
<1>3. Apart(g)
  BY <1>2 DEF Apart, ApartStages
<1>4. MoveStep(g, s)
  BY <1>1, <1>2, <1>3, OwnWaitee DEF MoveStep, Stages
<1>5. ResultOf(g, W, K)
  BY LogFacts
<1>6. outcome[g] = "none" /\ (g \notin late => g \notin W \/ error[g])
  BY <1>2, <1>5 DEF ResultOf, EndStages, EarlyStages
<1> QED BY <1>1, <1>2, <1>3, <1>4, <1>6, MoveLogs DEF ApartStages

(* wait_for_prior_commit() of a group that is apart                        *)
LEMMA PriorWaitedMove ==
  ASSUME IInv, NEW g \in Groups, NEW ok \in ApartStages,
         NEW failed \in ApartStages, NEW interrupted \in ApartStages,
         PriorWaited(g, ok, failed, interrupted), Apart(g),
         late' = late \/ late' = late \cup {g}
  PROVE  /\ \E s : s \in {ok, failed, interrupted} /\ MoveStep(g, s)
         /\ outcome' = outcome
<1> USE Basics
<1>1. \/ UNCHANGED wfcVars /\ Goto(g, IF wakeup_error[g] THEN failed ELSE ok)
      \/ LeaveList(g, TRUE) /\ Goto(g, interrupted)
  BY DEF PriorWaited
<1>2. UNCHANGED <<lockVars, queueVars, entryVars, binlog, engine, outcome>>
  BY DEF PriorWaited
<1>3. PICK s \in {ok, failed, interrupted} : Goto(g, s)
  BY <1>1
<1>4. \A x \in Taken : waitee'[x] = waitee[x]
  BY <1>1, OwnWaitee
<1>5. s \in Stages
  BY <1>3 DEF ApartStages, Stages
<1>6. \A x \in Threads \ {g} : x \in late' <=> x \in late
  OBVIOUS
<1>7. g \notin late' => g \notin late
  OBVIOUS
<1>8. MoveStep(g, s)
  BY <1>2, <1>3, <1>4, <1>5, <1>6, <1>7 DEF MoveStep
<1> QED BY <1>2, <1>3, <1>8

LEMMA SkipGroupLogs ==
  ASSUME IInv, NEW g \in Groups, SkipGroup(g), NEW W, NEW K, LogsInv(W, K)
  PROVE  LogsInv(W, K)'
<1> USE Basics
<1>1. /\ pc[g] = "skip" /\ PriorWaited(g, "finish", "finish", "finish")
      /\ late' = late
  BY DEF SkipGroup, WaitPrior, At
<1>2. Apart(g)
  BY <1>1 DEF Apart, ApartStages
<1>3. /\ \E s : s \in {"finish", "finish", "finish"} /\ MoveStep(g, s)
      /\ outcome' = outcome
  BY <1>1, <1>2, PriorWaitedMove DEF ApartStages
<1>4. ResultOf(g, W, K)
  BY LogFacts
<1>5. outcome[g] = "none" /\ (g \notin late => g \notin W \/ error[g])
  BY <1>1, <1>4 DEF ResultOf, EndStages, EarlyStages
<1> QED BY <1>1, <1>2, <1>3, <1>5, MoveLogs DEF ApartStages, EndStages

LEMMA ApplyFailsLogs ==
  ASSUME IInv, NEW g \in Groups, ApplyFails(g), NEW W, NEW K, LogsInv(W, K)
  PROVE  LogsInv(W, K)'
<1> USE Basics
<1>1. PICK s \in {"failed", "interrupted"} : Goto(g, s)
  BY DEF ApplyFails
<1>2. /\ pc[g] = "apply"
      /\ UNCHANGED <<lockVars, queueVars, entryVars, outcome, wfcVars>>
      /\ UNCHANGED <<binlog, engine, late>>
  BY DEF ApplyFails, At, logVars
<1>3. Apart(g)
  BY <1>2 DEF Apart, ApartStages
<1>4. MoveStep(g, s)
  BY <1>1, <1>2, <1>3, OwnWaitee DEF MoveStep, Stages
<1>5. ResultOf(g, W, K)
  BY LogFacts
<1>6. outcome[g] = "none" /\ (g \notin late => g \notin W \/ error[g])
  BY <1>2, <1>5 DEF ResultOf, EndStages, EarlyStages
<1> QED BY <1>1, <1>2, <1>3, <1>4, <1>6, MoveLogs DEF ApartStages

LEMMA RollBackLogs ==
  ASSUME IInv, NEW t \in Threads, RollBack(t), NEW W, NEW K, LogsInv(W, K)
  PROVE  LogsInv(W, K)'
<1> USE Basics
<1>1. PICK s \in {"finish", "done"} : Goto(t, s)
  BY DEF RollBack
<1>2. /\ pc[t] \in {"failed", "interrupted"}
      /\ outcome' = [outcome EXCEPT ![t] = "error"]
      /\ UNCHANGED <<lockVars, queueVars, entryVars, wfcVars>>
      /\ UNCHANGED <<binlog, engine, late>>
  BY DEF RollBack, At, logVars
<1>3. Apart(t)
  BY <1>2 DEF Apart, ApartStages
<1>4. outcome \in [Threads -> {"none", "ok", "error"}]
  BY DEF IInv, TypeOK
<1>5. outcome'[t] = "error" /\ \A x \in Threads \ {t} : outcome'[x] = outcome[x]
  BY <1>2, <1>4
<1>6. MoveStep(t, s)
  BY <1>1, <1>2, <1>5 DEF MoveStep, Stages, wfcVars
<1>7. ResultOf(t, W, K)
  BY LogFacts
<1>8. t \notin late => t \notin W \/ error[t]
  BY <1>2, <1>7 DEF ResultOf, EarlyStages
<1> QED BY <1>1, <1>2, <1>3, <1>5, <1>6, <1>8, MoveLogs DEF ApartStages, EndStages

LEMMA RetryLogs ==
  ASSUME IInv, NEW g \in Groups, Retry(g), NEW W, NEW K, LogsInv(W, K)
  PROVE  LogsInv(W, K)'
<1> USE Basics
<1>1. /\ pc[g] = "interrupted" /\ Goto(g, "retry") /\ Unregister(g)
      /\ outcome' = [outcome EXCEPT ![g] = "error"]
      /\ UNCHANGED <<lockVars, queueVars, entryVars>>
      /\ UNCHANGED <<binlog, engine, late>>
  BY DEF Retry, At, logVars
<1>2. Apart(g)
  BY <1>1 DEF Apart, ApartStages
<1>3. outcome \in [Threads -> {"none", "ok", "error"}]
  BY DEF IInv, TypeOK
<1>4. outcome'[g] = "error" /\ \A x \in Threads \ {g} : outcome'[x] = outcome[x]
  BY <1>1, <1>3
<1>5. MoveStep(g, "retry")
  BY <1>1, <1>2, <1>4, OwnWaitee DEF MoveStep, Stages
<1>6. ResultOf(g, W, K)
  BY LogFacts
<1>7. g \notin late => g \notin W \/ error[g]
  BY <1>1, <1>6 DEF ResultOf, EarlyStages
<1> QED BY <1>1, <1>2, <1>4, <1>5, <1>7, MoveLogs DEF ApartStages, EndStages

LEMMA RetryRegisterLogs ==
  ASSUME IInv, NEW g \in Groups, RetryRegister(g), NEW W, NEW K, LogsInv(W, K)
  PROVE  LogsInv(W, K)'
<1> USE Basics
<1>1. PICK s \in {"retry_wait", "failed"} : Goto(g, s)
  BY DEF RetryRegister
<1>2. /\ pc[g] = "retry" /\ (UNCHANGED wfcVars \/ RegisterPrior(g))
      /\ UNCHANGED <<lockVars, queueVars, entryVars, outcome>>
      /\ UNCHANGED <<binlog, engine, late>>
  BY DEF RetryRegister, At, logVars
<1>3. Apart(g)
  BY <1>2 DEF Apart, ApartStages
<1>4. MoveStep(g, s)
  BY <1>1, <1>2, <1>3, OwnWaitee DEF MoveStep, Stages
<1>5. ResultOf(g, W, K)
  BY LogFacts
<1>6. g \notin late => /\ g \notin W \/ error[g]
                       /\ outcome[g] = "ok" => g \in K /\ ~error[g]
  BY <1>2, <1>5 DEF ResultOf, EarlyStages
<1> QED BY <1>1, <1>2, <1>3, <1>4, <1>6, MoveLogs DEF ApartStages, EndStages

LEMMA RetryWaitLogs ==
  ASSUME IInv, NEW g \in Groups, RetryWait(g), NEW W, NEW K, LogsInv(W, K)
  PROVE  LogsInv(W, K)'
<1> USE Basics
<1>1. /\ pc[g] = "retry_wait" /\ late' = late
      /\ PriorWaited(g, "reapply", "failed", "interrupted")
  BY DEF RetryWait, WaitPrior, At
<1>2. Apart(g)
  BY <1>1 DEF Apart, ApartStages
<1>3. /\ \E s : s \in {"reapply", "failed", "interrupted"} /\ MoveStep(g, s)
      /\ outcome' = outcome
  BY <1>1, <1>2, PriorWaitedMove DEF ApartStages
<1>4. ResultOf(g, W, K)
  BY LogFacts
<1>5. g \notin late => /\ g \notin W \/ error[g]
                       /\ outcome[g] = "ok" => g \in K /\ ~error[g]
  BY <1>1, <1>4 DEF ResultOf, EarlyStages
<1> QED BY <1>1, <1>2, <1>3, <1>5, MoveLogs DEF ApartStages, EndStages

LEMMA ReapplyLogs ==
  ASSUME IInv, NEW g \in Groups, Reapply(g), NEW W, NEW K, LogsInv(W, K)
  PROVE  LogsInv(W, K)'
<1> USE Basics
<1>1. /\ pc[g] = "reapply" /\ Goto(g, "apply")
      /\ outcome' = [outcome EXCEPT ![g] = "none"]
      /\ UNCHANGED <<lockVars, queueVars, entryVars, wfcVars>>
      /\ UNCHANGED <<binlog, engine, late>>
  BY DEF Reapply, At, logVars
<1>2. Apart(g)
  BY <1>1 DEF Apart, ApartStages
<1>3. outcome \in [Threads -> {"none", "ok", "error"}]
  BY DEF IInv, TypeOK
<1>4. outcome'[g] = "none" /\ \A x \in Threads \ {g} : outcome'[x] = outcome[x]
  BY <1>1, <1>3
<1>5. MoveStep(g, "apply")
  BY <1>1, <1>2, <1>4, OwnWaitee DEF MoveStep, Stages
<1>6. ResultOf(g, W, K)
  BY LogFacts
<1>7. g \notin late => g \notin W \/ error[g]
  BY <1>1, <1>6 DEF ResultOf, EarlyStages
<1> QED BY <1>1, <1>2, <1>4, <1>5, <1>7, MoveLogs DEF ApartStages

LEMMA QueueCheckLogs ==
  ASSUME IInv, NEW t \in Threads, QueueCheck(t), NEW W, NEW K, LogsInv(W, K)
  PROVE  LogsInv(W, K)'
<1>1. PICK s \in {"ready", "enqueue"} : Goto(t, s)
  BY DEF QueueCheck
<1>2. /\ pc[t] = "queue"
      /\ UNCHANGED <<lockVars, queueVars, entryVars, outcome, wfcVars>>
      /\ UNCHANGED <<binlog, engine, late>>
  BY DEF QueueCheck, At, logVars
<1>3. Apart(t) /\ ~queued_by_other[t] /\ Fresh(t)
  BY <1>2 DEF Apart, ApartStages, IInv, QueueInv, Fresh
<1>4. MoveStep(t, s)
  BY <1>1, <1>2 DEF MoveStep, Stages, wfcVars
<1>5. PhaseOf(t, W, K) /\ ResultOf(t, W, K)
  BY LogFacts
<1>6. outcome[t] = "none" /\ t \notin W
  BY <1>2, <1>3, <1>5 DEF ResultOf, PhaseOf, EndStages
<1> QED BY <1>1, <1>2, <1>3, <1>4, <1>6, MoveLogs DEF ApartStages

LEMMA QueueReadyLogs ==
  ASSUME IInv, NEW g \in Groups, QueueReady(g), NEW W, NEW K, LogsInv(W, K)
  PROVE  LogsInv(W, K)'
<1> USE Basics
<1>1. /\ pc[g] = "ready" /\ Goto(g, "wait_prior")
      /\ UNCHANGED <<lockVars, queueVars, entryVars, outcome, waitee>>
      /\ UNCHANGED <<binlog, engine, late>>
  BY DEF QueueReady, At, logVars
<1>2. Apart(g) /\ ~queued_by_other[g] /\ Fresh(g)
  BY <1>1 DEF Apart, ApartStages, IInv, QueueInv, Fresh
<1>3. MoveStep(g, "wait_prior")
  BY <1>1 DEF MoveStep, Stages
<1>4. PhaseOf(g, W, K) /\ ResultOf(g, W, K)
  BY LogFacts
<1>5. outcome[g] = "none" /\ g \notin W
  BY <1>1, <1>2, <1>4 DEF ResultOf, PhaseOf, EndStages
<1> QED BY <1>1, <1>2, <1>3, <1>5, MoveLogs

LEMMA QueueKilledLogs ==
  ASSUME IInv, NEW g \in Groups, QueueKilled(g), NEW W, NEW K, LogsInv(W, K)
  PROVE  LogsInv(W, K)'
<1> USE Basics
<1>1. /\ pc[g] = "wait_prior" /\ Goto(g, "interrupted") /\ LeaveList(g, TRUE)
      /\ ~queued_by_other[g]
      /\ UNCHANGED <<lockVars, queueVars, entryVars, outcome>>
      /\ UNCHANGED <<binlog, engine, late>>
  BY DEF QueueKilled, At, logVars, IgnoresKill
<1>2. Apart(g) /\ Fresh(g)
  BY <1>1 DEF Apart, Fresh
<1>3. MoveStep(g, "interrupted")
  BY <1>1, <1>2, OwnWaitee DEF MoveStep, Stages
<1>4. PhaseOf(g, W, K) /\ ResultOf(g, W, K)
  BY LogFacts
<1>5. outcome[g] = "none" /\ g \notin W
  BY <1>1, <1>2, <1>4 DEF ResultOf, PhaseOf, EndStages
<1> QED BY <1>1, <1>2, <1>3, <1>5, MoveLogs DEF ApartStages

LEMMA ReturnedLogs ==
  ASSUME IInv, NEW t \in Threads, Returned(t), NEW W, NEW K, LogsInv(W, K)
  PROVE  LogsInv(W, K)'
<1>1. PICK s \in {"failed", "last_wait", "commit"} :
        Goto(t, s) /\ (s = "failed" <=> error[t])
  BY DEF Returned
<1>2. /\ pc[t] = "returned"
      /\ UNCHANGED <<lockVars, queueVars, entryVars, outcome, wfcVars>>
      /\ UNCHANGED <<binlog, engine, late>>
  BY DEF Returned, At, logVars
<1>3. Apart(t)
  BY <1>2 DEF Apart, ApartStages
<1>4. MoveStep(t, s)
  BY <1>1, <1>2 DEF MoveStep, Stages, wfcVars
<1>5. PhaseOf(t, W, K) /\ ResultOf(t, W, K)
  BY LogFacts
<1>6. outcome[t] = "none" /\ t \in K
  BY <1>2, <1>3, <1>5 DEF ResultOf, PhaseOf, EndStages
<1> QED BY <1>1, <1>2, <1>3, <1>4, <1>6, MoveLogs DEF ApartStages, EarlyStages

LEMMA LastWaitLogs ==
  ASSUME IInv, NEW g \in Groups, LastWait(g), NEW W, NEW K, LogsInv(W, K)
  PROVE  LogsInv(W, K)'
<1> USE Basics
<1>1. /\ pc[g] = "last_wait" /\ PriorWaited(g, "commit", "failed", "interrupted")
      /\ late' = IF pc'[g] = "commit" THEN late ELSE late \cup {g}
  BY DEF LastWait, At
<1>2. Apart(g)
  BY <1>1 DEF Apart, ApartStages
<1>3. /\ \E s : s \in {"commit", "failed", "interrupted"} /\ MoveStep(g, s)
      /\ outcome' = outcome
  BY <1>1, <1>2, PriorWaitedMove DEF ApartStages
<1>4. PICK s : s \in {"commit", "failed", "interrupted"} /\ MoveStep(g, s)
  BY <1>3
<1>5. pc'[g] = s
  BY <1>4, GotoType DEF MoveStep, IInv
<1>6. PhaseOf(g, W, K) /\ ResultOf(g, W, K)
  BY LogFacts
<1>7. outcome[g] = "none" /\ g \in K /\ ~error[g]
  BY <1>1, <1>6 DEF ResultOf, PhaseOf, EndStages
<1> QED BY <1>1, <1>2, <1>3, <1>4, <1>5, <1>7, MoveLogs
        DEF ApartStages, EarlyStages, EndStages

LEMMA CommitLogs ==
  ASSUME IInv, NEW t \in Threads, Commit(t), NEW W, NEW K, LogsInv(W, K)
  PROVE  LogsInv(W, K)'
<1>1. PICK s \in {"finish_wait", "done"} : Goto(t, s)
  BY DEF Commit
<1>2. /\ pc[t] = "commit"
      /\ outcome' = [outcome EXCEPT ![t] = "ok"]
      /\ UNCHANGED <<lockVars, queueVars, entryVars, wfcVars>>
      /\ UNCHANGED <<binlog, engine, late>>
  BY DEF Commit, At, logVars
<1>3. Apart(t)
  BY <1>2 DEF Apart, ApartStages
<1>4. outcome \in [Threads -> {"none", "ok", "error"}]
  BY DEF IInv, TypeOK
<1>5. outcome'[t] = "ok" /\ \A x \in Threads \ {t} : outcome'[x] = outcome[x]
  BY <1>2, <1>4
<1>6. MoveStep(t, s)
  BY <1>1, <1>2, <1>5 DEF MoveStep, Stages, wfcVars
<1>7. PhaseOf(t, W, K) /\ ResultOf(t, W, K)
  BY LogFacts
<1>8. t \in K /\ ~error[t]
  BY <1>2, <1>7 DEF ResultOf, PhaseOf
<1> QED BY <1>1, <1>2, <1>3, <1>5, <1>6, <1>8, MoveLogs
        DEF ApartStages, EndStages, EarlyStages

(* finish_event_group()                                                    *)
LEMMA FinishLogs ==
  ASSUME IInv, NEW g \in Groups, NEW W, NEW K, LogsInv(W, K), NEW s,
         MoveStep(g, s), outcome' = outcome, late' = late,
         pc[g] \in {"finish", "finish_register", "finish_wait", "finish_mark",
                    "finish_wake", "finish_waking"},
         s \in {"finish_register", "finish_wait", "finish_mark",
                "finish_wake", "finish_waking", "done"}
  PROVE  LogsInv(W, K)'
<1> USE Basics
<1>1. Apart(g)
  BY DEF Apart, ApartStages
<1>2. ResultOf(g, W, K)
  BY LogFacts
<1>3. s \in ApartStages /\ s \in EndStages /\ s \notin EarlyStages
  BY DEF ApartStages, EndStages, EarlyStages
<1> QED BY <1>1, <1>2, <1>3, MoveLogs DEF ResultOf

LEMMA FinishesLogs ==
  ASSUME IInv, NEW g \in Groups, NEW W, NEW K, LogsInv(W, K),
         \/ FinishUnregister(g) \/ FinishRegister(g) \/ FinishWait(g)
         \/ FinishMark(g) \/ FinishWake(g) \/ FinishWakes(g)
  PROVE  LogsInv(W, K)'
<1> USE Basics
<1>1. /\ UNCHANGED <<lockVars, queueVars, entryVars, outcome>>
      /\ UNCHANGED <<binlog, engine, late>>
  BY DEF FinishUnregister, FinishRegister, FinishWait, FinishMark, FinishWake,
         FinishWakes, WakeupStep, logVars
<1>2. pc[g] \in {"finish", "finish_register", "finish_wait", "finish_mark",
                 "finish_wake", "finish_waking"}
  BY DEF FinishUnregister, FinishRegister, FinishWait, FinishMark, FinishWake,
         FinishWakes, WakeupStep, At
<1>3. Apart(g)
  BY <1>2 DEF Apart, ApartStages
<1>4. pc \in [Threads -> Stages] /\ worker_error[g] \in BOOLEAN
  BY DEF IInv, TypeOK, RplTypeOK
<1>5. PICK s \in {"finish_register", "finish_wait", "finish_mark",
                  "finish_wake", "finish_waking", "done"} : Goto(g, s)
  <2>1. CASE FinishWakes(g)
    <3>1. pc[g] = "finish_waking" /\ (pc' = pc \/ Goto(g, "done"))
      BY <2>1 DEF FinishWakes, WakeupStep, At
    <3>2. pc' = pc => Goto(g, "finish_waking")
      BY <1>4, <3>1 DEF Goto
    <3> QED BY <3>1, <3>2
  <2>2. CASE ~FinishWakes(g)
    BY <2>2 DEF FinishUnregister, FinishRegister, FinishWait, FinishMark,
                FinishWake, CallWakeup
  <2> QED BY <2>1, <2>2
<1>6. \A x \in Taken : waitee'[x] = waitee[x]
  <2>1. CASE FinishUnregister(g) \/ FinishRegister(g)
    BY <1>3, <2>1, OwnWaitee DEF FinishUnregister, FinishRegister
  <2>2. CASE FinishWait(g) \/ FinishMark(g)
    BY <2>2 DEF FinishWait, FinishMark, wfcVars
  <2>3. CASE FinishWake(g)
    BY <1>3, <2>3, OwnWaitee DEF FinishWake, CallWakeup
  <2>4. CASE FinishWakes(g)
    BY <1>4, <2>4, WalkTaken DEF FinishWakes, WakeupStep
  <2> QED BY <2>1, <2>2, <2>3, <2>4
<1>7. MoveStep(g, s)
  BY <1>1, <1>5, <1>6 DEF MoveStep, Stages
<1> QED BY <1>1, <1>2, <1>5, <1>7, FinishLogs

(* A transaction starts, or starts again: none of it is logged.            *)
LEMMA ApplyLogs ==
  ASSUME IInv, NEW t \in Threads, Apply(t), NEW W, NEW K, LogsInv(W, K)
  PROVE  LogsInv(W \ {t}, K \ {t})'
<1>1. /\ pc[t] = "apply" /\ Goto(t, "queue")
      /\ queued_by_other' = [queued_by_other EXCEPT ![t] = FALSE]
      /\ error' = [error EXCEPT ![t] = FALSE]
      /\ UNCHANGED <<queue, todo, next, cur, wakeup_ready, outcome, waitee>>
      /\ UNCHANGED <<optimize, binlog, engine, late>>
  BY DEF Apply, At, lockVars, logVars
<1>2. TypeOK /\ pc \in [Threads -> Stages] /\ error \in [Threads -> BOOLEAN]
      /\ queued_by_other \in [Threads -> BOOLEAN]
  BY DEF IInv, TypeOK, EntryTypeOK, QueueTypeOK
<1>3. pc'[t] = "queue" /\ \A x \in Threads \ {t} : pc'[x] = pc[x]
  BY <1>1, <1>2, GotoType DEF Stages
<1>4. AsideStep(t)
  <2>1. LocalStep(t)
    BY <1>1, <1>2, <1>3 DEF LocalStep, InQueue
  <2> QED BY <2>1, LocalFrame
<1>5. ~Waits(t) /\ ~Told(t)' /\ ~Waits(t)' /\ ~Pending(t)'
  BY <1>1, <1>3 DEF Waits, Told, Passive, Pending, Called, TakenOver, At,
                    LeaderStages, CommitStages, OwnStages
<1>6. PhaseOf(t, W \ {t}, K \ {t})'
  BY <1>3, <1>5 DEF PhaseOf, At, CommitStages
<1>7. ResultOf(t, W, K) /\ K \subseteq W
  BY LogFacts
<1>8. ResultOf(t, W \ {t}, K \ {t})'
  <2>1. /\ outcome[t] = "none"
        /\ t \notin late => Times(binlog, t) = 0 /\ Times(engine, t) = 0
    BY <1>1, <1>7 DEF ResultOf, EndStages, EarlyStages
  <2> QED BY <1>1, <1>3, <2>1 DEF ResultOf, EndStages, EarlyStages
<1>9. \A x \in Threads \ {t} :
        /\ error'[x] = error[x] /\ outcome'[x] = outcome[x]
        /\ x \in late' <=> x \in late
        /\ Times(binlog', x) = Times(binlog, x)
        /\ Times(engine', x) = Times(engine, x)
  BY <1>1, <1>2
<1>10. {pc[t], pc'[t]} \cap (CommitStages \cup {"write"}) = {}
  BY <1>1, <1>3 DEF CommitStages
<1>11. K \ {t} \subseteq W \ {t} /\
       \A x : x # t => (x \in W \ {t} <=> x \in W) /\ (x \in K \ {t} <=> x \in K)
  BY <1>7
<1> QED BY <1>4, <1>5, <1>6, <1>8, <1>9, <1>10, <1>11, AsideLemma

(* Steps after which everything that counts here is the same.              *)
LEMMA SameLogs ==
  ASSUME UNCHANGED <<pc, cur, queued_by_other, wakeup_ready, waitee, queue,
                     todo, next, optimize, error, outcome, late, binlog,
                     engine>>,
         NEW W, NEW K, LogsInv(W, K)
  PROVE  LogsInv(W, K)'
<1>1. \A x \in Threads : /\ Fresh(x)' <=> Fresh(x)
                         /\ Told(x)' <=> Told(x)
                         /\ Waits(x)' <=> Waits(x)
                         /\ Pending(x)' <=> Pending(x)
  BY DEF Fresh, Told, Waits, Pending, Called, Passive, TakenOver, InQueue, At
<1>2. \A x \in Threads : PhaseOf(x, W, K) => PhaseOf(x, W, K)'
  BY <1>1 DEF PhaseOf, At
<1>3. \A x, y \in Threads : LinkOf(x, y, W) => LinkOf(x, y, W)'
  BY DEF LinkOf, At
<1>4. PhaseInv(W, K)'
  BY <1>1, <1>2, <1>3 DEF PhaseInv, LogsInv, At
<1>5. \A x \in Threads : ResultOf(x, W, K)'
  BY DEF LogsInv, ResultOf
<1> QED BY <1>4, <1>5 DEF LogsInv

(* Into the queue and out of it: what a step has to leave alone            *)
LEMMA PassLogs ==
  ASSUME IInv, NEW t \in Threads, NEW s \in Stages, Goto(t, s),
         NEW W, NEW K, LogsInv(W, K),
         pc[t] \in {"wait_prior", "enqueue", "wait_ready", "leader"},
         UNCHANGED <<queue, next, cur, error, optimize, queued_by_other,
                     binlog, engine, late, outcome, waitee>>,
         \A x \in Threads \ {t} : /\ wakeup_ready'[x] = wakeup_ready[x]
                                  /\ InQueue(x)' <=> InQueue(x),
         \/ Fresh(t) /\ s \in {"enqueuing", "collect"}
         \/ Fresh(t) /\ s = "enqueue" /\ ~queued_by_other[t]
         \/ Told(t) /\ s = "enqueue" /\ queued_by_other[t]
         \/ Told(t) /\ s = AfterGroup,
         ~Passive(t)
  PROVE  LogsInv(W, K)'
<1>1. /\ pc' \in [Threads -> Stages]
      /\ pc'[t] = s /\ \A x \in Threads \ {t} : pc'[x] = pc[x]
  BY GotoType DEF IInv
<1>2. LocalStep(t)
  BY <1>1 DEF LocalStep
<1>3. AsideStep(t)
  BY <1>2, LocalFrame
<1>4. PhaseOf(t, W, K) /\ ResultOf(t, W, K) /\ K \subseteq W
  BY LogFacts
<1>5. s \in {"enqueuing", "collect", "enqueue", "returned", "own_commit"}
  BY DEF AfterGroup
<1>6. {pc[t], pc'[t]} \cap (CommitStages \cup {"write"}) = {}
  BY <1>1, <1>5 DEF CommitStages
<1>7. ~Waits(t) /\ ~Passive(t)' /\ ~Waits(t)'
  BY <1>1, <1>5 DEF Waits, Passive, TakenOver, At
<1>8. Told(t)' <=> s = "enqueue" /\ queued_by_other[t]
  BY <1>1, <1>5 DEF Told, TakenOver, At
<1>9. Fresh(t)' => Fresh(t)
  BY <1>1, <1>5, <1>7 DEF Fresh, AfterGroup
<1>10. Pending(t)' => Pending(t)
  <2>1. Called(t) <=> ~optimize /\ Told(t)
    BY DEF Called, Told
  <2>2. Called(t)' <=> ~optimize /\ Told(t)'
    BY DEF Called, Told
  <2>3. Pending(t)' <=> Called(t)' \/ s = "own_commit"
    BY <1>1, <1>5, <1>7 DEF Pending, LeaderStages, CommitStages, OwnStages
  <2>4. Called(t)' \/ s = "own_commit" => Called(t)
    BY <1>8, <2>1, <2>2 DEF AfterGroup
  <2> QED BY <2>3, <2>4 DEF Pending
<1>11. PhaseOf(t, W, K)'
  <2>1. Told(t)' => Told(t)
    BY <1>8 DEF AfterGroup
  <2>2. s = "returned" => t \in K
    BY <1>4 DEF PhaseOf, AfterGroup
  <2>3. s = "own_commit" => t \in W /\ t \notin K
    BY <1>4 DEF PhaseOf, AfterGroup
  <2> QED BY <1>1, <1>4, <1>5, <1>7, <1>9, <2>1, <2>2, <2>3
          DEF PhaseOf, At, CommitStages
<1>12. ResultOf(t, W, K)'
  BY <1>1, <1>4, <1>5 DEF ResultOf, EarlyStages, EndStages
<1> QED BY <1>3, <1>4, <1>6, <1>7, <1>10, <1>11, <1>12, AsideLemma

LEMMA QueueWokenLogs ==
  ASSUME IInv, NEW g \in Groups, QueueWoken(g), NEW W, NEW K, LogsInv(W, K)
  PROVE  LogsInv(W, K)'
<1> USE Basics
<1>1. /\ pc[g] = "wait_prior" /\ Goto(g, "enqueue") /\ waitee[g] = NoGroup
      /\ UNCHANGED <<queue, todo, next, cur, error, optimize, queued_by_other,
                     wakeup_ready, binlog, engine, late, outcome, waitee>>
  BY DEF QueueWoken, At, lockVars, queueVars, entryVars, logVars
<1>2. ~Passive(g) /\ (IF queued_by_other[g] THEN Told(g) ELSE Fresh(g))
  BY <1>1 DEF Passive, Told, Fresh, TakenOver, At
<1> QED BY <1>1, <1>2, PassLogs DEF Stages, InQueue

LEMMA WakeupReadyLogs ==
  ASSUME IInv, NEW t \in Threads, WakeupReady(t), NEW W, NEW K, LogsInv(W, K)
  PROVE  LogsInv(W, K)'
<1>1. /\ pc[t] = "wait_ready" /\ Goto(t, AfterGroup) /\ wakeup_ready[t]
      /\ UNCHANGED <<queue, todo, next, cur, error, optimize, queued_by_other,
                     wakeup_ready, binlog, engine, late, outcome, waitee>>
  BY DEF WakeupReady, At, lockVars, queueVars, entryVars, logVars, wfcVars
<1>2. ~Passive(t) /\ Told(t)
  BY <1>1 DEF Passive, Told, TakenOver, At
<1>3. AfterGroup \in Stages
  BY DEF AfterGroup, Stages
<1> QED BY <1>1, <1>2, <1>3, PassLogs DEF InQueue

LEMMA LeaderLockLogLogs ==
  ASSUME IInv, NEW t \in Threads, LeaderLockLog(t), NEW W, NEW K, LogsInv(W, K)
  PROVE  LogsInv(W, K)'
<1>1. /\ pc[t] = "leader" /\ Goto(t, "collect")
      /\ UNCHANGED <<queue, todo, next, cur, error, optimize, queued_by_other,
                     wakeup_ready, binlog, engine, late, outcome, waitee>>
  BY DEF LeaderLockLog, At, queueVars, entryVars, logVars, wfcVars
<1>2. ~Passive(t) /\ Fresh(t)
  BY <1>1 DEF Passive, Fresh, TakenOver, At
<1> QED BY <1>1, <1>2, PassLogs DEF InQueue, Stages

LEMMA EnqueueLogs ==
  ASSUME IInv, NEW t \in Threads, Enqueue(t), NEW W, NEW K, LogsInv(W, K)
  PROVE  LogsInv(W, K)'
<1>1. /\ pc[t] = "enqueue"
      /\ UNCHANGED <<queue, next, cur, error, optimize, queued_by_other,
                     binlog, engine, late, outcome, waitee>>
      /\ UNCHANGED wfcVars
  BY DEF Enqueue, At, logVars, wfcVars
<1>2. ~Passive(t) /\ (IF queued_by_other[t] THEN Told(t) ELSE Fresh(t))
  BY <1>1 DEF Passive, Told, Fresh, TakenOver, At
<1>3. CASE /\ queued_by_other[t] /\ Goto(t, AfterGroup)
           /\ UNCHANGED <<prepare_ordered, todo, is_leader, wakeup_ready>>
  <2>1. AfterGroup \in Stages
    BY DEF AfterGroup, Stages
  <2> QED BY <1>1, <1>2, <1>3, <2>1, PassLogs DEF InQueue
<1>4. CASE /\ ~queued_by_other[t] /\ Goto(t, "failed")
           /\ UNCHANGED <<prepare_ordered, todo, is_leader, wakeup_ready>>
  <2>1. LocalStep(t) /\ pc'[t] = "failed"
    <3>1. pc'[t] = "failed" /\ \A x \in Threads \ {t} : pc'[x] = pc[x]
      BY <1>4, GotoType DEF IInv, Stages
    <3> QED BY <1>1, <1>4, <3>1 DEF LocalStep, InQueue
  <2>2. AsideStep(t)
    BY <2>1, LocalFrame
  <2>3. PhaseOf(t, W, K) /\ ResultOf(t, W, K) /\ K \subseteq W
    BY LogFacts
  <2>4. ~Fresh(t)' /\ ~Told(t)' /\ ~Waits(t)' /\ ~Pending(t)' /\ ~Waits(t)
    BY <1>2, <2>1 DEF Fresh, Told, Waits, Passive, Pending, Called, TakenOver, At,
                 LeaderStages, CommitStages, OwnStages
  <2>5. PhaseOf(t, W, K)'
    BY <2>1, <2>4 DEF PhaseOf, At, CommitStages
  <2>6. ResultOf(t, W, K)'
    <3>1. t \notin W /\ outcome[t] = "none"
      BY <1>1, <1>2, <1>4, <2>3 DEF PhaseOf, ResultOf, EndStages
    <3> QED BY <1>1, <2>1, <2>3, <3>1 DEF ResultOf, EndStages, EarlyStages
  <2>7. {pc[t], pc'[t]} \cap (CommitStages \cup {"write"}) = {}
    BY <1>1, <2>1 DEF CommitStages
  <2> QED BY <1>1, <2>2, <2>3, <2>4, <2>5, <2>6, <2>7, AsideLemma
<1>5. CASE /\ ~queued_by_other[t] /\ Goto(t, "enqueuing")
           /\ todo' = [todo EXCEPT ![t] = <<t>>]
           /\ wakeup_ready' = [wakeup_ready EXCEPT ![t] = FALSE]
  <2>1. /\ wakeup_ready \in [Threads -> BOOLEAN]
        /\ todo \in [Threads -> Seq(Threads)] /\ todo[t] = <<>>
    BY <1>1 DEF IInv, TypeOK, EntryTypeOK, QueueTypeOK, QueueInv, At
  <2>2. \A x \in Threads \ {t} : ~Contains(<<t>>, x) /\ ~Contains(<<>>, x)
    BY DEF Contains
  <2>3. \A x \in Threads \ {t} : InQueue(x)' <=> InQueue(x)
    <3>1. \A u \in Threads : todo'[u] = IF u = t THEN <<t>> ELSE todo[u]
      BY <1>5, <2>1
    <3>2. \A x \in Threads \ {t}, u \in Threads :
            Contains(todo'[u], x) <=> Contains(todo[u], x)
      BY <2>1, <2>2, <3>1
    <3> QED BY <1>1, <3>2 DEF InQueue
  <2>4. \A x \in Threads \ {t} : wakeup_ready'[x] = wakeup_ready[x]
    BY <1>5, <2>1
  <2> QED BY <1>1, <1>2, <1>5, <2>3, <2>4, PassLogs DEF Stages
<1> QED BY <1>3, <1>4, <1>5 DEF Enqueue

(* Whoever enters the queue, and whoever is taken along, is still fresh.   *)
LEMMA EnqueueEntryLogs ==
  ASSUME IInv, NEW t \in Threads, EnqueueEntry(t), NEW W, NEW K, LogsInv(W, K)
  PROVE  LogsInv(W, K)'
<1> USE Basics
<1> DEFINE e == Head(todo[t])
           ready == ReadyWaiters(e)
           rest == Tail(todo[t]) \o ready
<1>1. /\ e = Head(todo[t]) /\ ready = ReadyWaiters(e)
      /\ rest = Tail(todo[t]) \o ready
      /\ queue' = <<e>> \o queue
      /\ todo' = [todo EXCEPT ![t] = rest]
      /\ queued_by_other' =
           [x \in Threads |-> queued_by_other[x] \/ Contains(ready, x)]
      /\ IF rest = <<>>
         THEN Goto(t, IF is_leader[t] THEN "leader" ELSE "wait_ready")
         ELSE UNCHANGED pc
  BY DEF EnqueueEntry
<1> HIDE DEF e, ready, rest
<1>2. /\ pc[t] = "enqueuing"
      /\ UNCHANGED <<next, cur, error, wakeup_ready, binlog, engine, late,
                     optimize, outcome, waitee>>
  BY DEF EnqueueEntry, At, entryVars, logVars
<1>3. TypeOK /\ LocksInv /\ QueueInv /\ WfcInv
  BY DEF IInv
<1>4. PICK T : T = Taken
  OBVIOUS
<1>5. ListsInv(T)
  BY <1>3, <1>4 DEF WfcInv
<1>6. /\ todo[t] \in Seq(Threads) /\ todo[t] # <<>>
      /\ queue \in Seq(Threads) /\ IsInjective(todo[t]) /\ IsInjective(queue)
      /\ ~wakeup_ready[t] /\ ~queued_by_other[t]
      /\ todo[t] = <<t>> \/ Contains(queue, t)
  BY <1>2, <1>3 DEF TypeOK, QueueTypeOK, QueueInv, At
<1>7. /\ Tail(todo[t]) \in Seq(Threads) /\ e \in Threads
      /\ Contains(todo[t], e)
      /\ \A x : Contains(Tail(todo[t]), x) <=> Contains(todo[t], x) /\ x # e
  BY <1>1, <1>6, TailList
<1>8. /\ ready \in Seq(Threads)
      /\ \A x : Contains(ready, x) <=>
           /\ e \in Groups /\ Contains(subsequent_commits_list[e], x)
           /\ x \in Groups /\ opaque_pointer[x]
  BY <1>1, <1>3, <1>5, <1>7, ReadyList
<1>9. \A x \in Threads : Contains(ready, x) =>
        /\ pc[x] = "wait_prior" /\ ~queued_by_other[x] /\ waitee[x] # NoGroup
        /\ x # t
  <2> SUFFICES ASSUME NEW x \in Threads, Contains(ready, x)
               PROVE  /\ pc[x] = "wait_prior" /\ ~queued_by_other[x]
                      /\ waitee[x] # NoGroup /\ x # t
    OBVIOUS
  <2>1. /\ e \in Groups /\ Contains(subsequent_commits_list[e], x)
        /\ x \in Groups /\ opaque_pointer[x]
    BY <1>8
  <2>2. waitee[x] = e /\ x \notin T
    BY <1>5, <2>1 DEF ListsInv
  <2>3. pc[x] = "wait_prior"
    BY <1>3, <2>1 DEF WfcInv, At
  <2> QED BY <1>2, <1>4, <2>1, <2>2, <2>3 DEF Taken, TakenOver, At
<1>10. \A x : Contains(rest, x) <=>
         (Contains(todo[t], x) /\ x # e) \/ Contains(ready, x)
  BY <1>1, <1>7, <1>8, ConcatList
<1>11. \A x : Contains(queue', x) <=> x = e \/ Contains(queue, x)
  BY <1>1, <1>6, <1>7, PushList
<1>12. \A u \in Threads : todo'[u] = IF u = t THEN rest ELSE todo[u]
  BY <1>1, <1>3 DEF TypeOK, QueueTypeOK
<1>13. \A x \in Threads : InQueue(x)' <=> InQueue(x) \/ Contains(ready, x)
  <2>1. \A x \in Threads, u \in Threads : Contains(todo'[u], x) <=>
          IF u = t THEN (Contains(todo[t], x) /\ x # e) \/ Contains(ready, x)
          ELSE Contains(todo[u], x)
    BY <1>10, <1>12
  <2> QED BY <1>7, <1>11, <2>1 DEF InQueue
<1>14. /\ pc'[t] \in {"enqueuing", "leader", "wait_ready"}
       /\ \A x \in Threads \ {t} : pc'[x] = pc[x]
  <2>1. CASE rest = <<>>
    <3>1. PICK s \in {"leader", "wait_ready"} : Goto(t, s)
      BY <1>1, <2>1
    <3> QED BY <1>3, <3>1, GotoType DEF Stages
  <2>2. CASE rest # <<>>
    BY <1>1, <1>2, <2>2
  <2> QED BY <2>1, <2>2
<1>15. \A x \in Threads :
         queued_by_other'[x] <=> queued_by_other[x] \/ Contains(ready, x)
  BY <1>1
<1>16. ASSUME NEW x \in Threads \ {t}, ~Contains(ready, x)
       PROVE  /\ Fresh(x)' <=> Fresh(x)
              /\ Told(x)' <=> Told(x)
              /\ Waits(x)' <=> Waits(x)
              /\ Pending(x)' <=> Pending(x)
  <2>1. /\ pc'[x] = pc[x]
        /\ queued_by_other'[x] <=> queued_by_other[x]
        /\ InQueue(x)' <=> InQueue(x)
    BY <1>13, <1>14, <1>15, <1>16
  <2>2. /\ Passive(x)' <=> Passive(x)
        /\ Called(x)' <=> Called(x)
        /\ Told(x)' <=> Told(x)
    BY <1>2, <2>1 DEF Passive, Called, Told, TakenOver, At
  <2>3. (Fresh(x)' <=> Fresh(x)) /\ (Waits(x)' <=> Waits(x))
    BY <2>1, <2>2 DEF Fresh, Waits
  <2> QED BY <1>2, <2>1, <2>2, <2>3 DEF Pending
<1>17. ASSUME NEW x \in Threads \ {t}, Contains(ready, x)
       PROVE  /\ Fresh(x)' /\ Fresh(x)
              /\ ~Told(x)' /\ ~Told(x)
              /\ ~Waits(x)' /\ ~Waits(x)
              /\ ~Pending(x)' /\ ~Pending(x)
  <2>1. /\ pc[x] = "wait_prior" /\ pc'[x] = "wait_prior"
        /\ ~queued_by_other[x] /\ queued_by_other'[x]
        /\ waitee'[x] # NoGroup /\ InQueue(x)'
    BY <1>2, <1>9, <1>13, <1>14, <1>15, <1>17
  <2>2. Passive(x)' /\ ~Passive(x) /\ ~Told(x)' /\ ~Told(x)
        /\ ~Called(x) /\ ~Called(x)'
    BY <2>1 DEF Passive, Told, Called, TakenOver, At
  <2>3. Fresh(x)' /\ Fresh(x) /\ ~Waits(x)' /\ ~Waits(x)
    BY <2>1, <2>2 DEF Fresh, Waits
  <2> QED BY <2>1, <2>2, <2>3
          DEF Pending, LeaderStages, CommitStages, OwnStages
<1>18. AsideStep(t)
  BY <1>2, <1>14, <1>16, <1>17 DEF AsideStep
<1>19. InQueue(t)'
  <2>1. t = e \/ Contains(queue, t)
    BY <1>1, <1>6
  <2> QED BY <1>11, <2>1 DEF InQueue
<1>20. ~Waits(t) /\ ~Waits(t)' /\ ~Told(t)' /\ ~Pending(t)' /\ Fresh(t)
  BY <1>2, <1>6, <1>14, <1>19
     DEF Waits, Passive, Told, Fresh, Pending, Called, TakenOver, At,
         LeaderStages, CommitStages, OwnStages
<1>21. PhaseOf(t, W, K) /\ ResultOf(t, W, K) /\ K \subseteq W
  BY LogFacts
<1>22. t \notin W
  BY <1>20, <1>21 DEF PhaseOf
<1>23. PhaseOf(t, W, K)'
  BY <1>14, <1>20, <1>22 DEF PhaseOf, At, CommitStages
<1>24. ResultOf(t, W, K)'
  BY <1>2, <1>14, <1>21 DEF ResultOf, EarlyStages, EndStages
<1>25. {pc[t], pc'[t]} \cap (CommitStages \cup {"write"}) = {}
  BY <1>2, <1>14 DEF CommitStages
<1> QED BY <1>2, <1>18, <1>20, <1>21, <1>23, <1>24, <1>25, AsideLemma

(* The leader on its way from lock to lock, and threads that commit        *)
(* themselves                                                              *)
LEMMA InsideLogs ==
  ASSUME IInv, NEW t \in Threads, NEW s, pc'[t] = s,
         \A x \in Threads \ {t} : pc'[x] = pc[x],
         pc[t] \in {"written", "synced", "busy"} \cup OwnStages,
         s \in {"synced", "busy"} \cup OwnStages,
         UNCHANGED <<queue, todo, next, cur, error, optimize, queued_by_other,
                     wakeup_ready, binlog, late, outcome>>,
         \A g \in Taken : waitee'[g] = waitee[g],
         NEW W, NEW K, LogsInv(W, K), NEW K2, K2 \subseteq W,
         \A x : x # t => (x \in K2 <=> x \in K),
         s \in {"synced", "busy", "own_commit"} => t \in W /\ t \notin K2,
         s \in {"own_waking", "own_signal"} => t \in K2,
         \A x \in Threads \ {t} : Times(engine', x) = Times(engine, x),
         t \notin late =>
           Times(engine', t) = IF t \in K2 /\ ~error[t] THEN 1 ELSE 0
  PROVE  LogsInv(W, K2)'
<1>1. AsideStep(t)
  <2>1. LocalStep(t)
    BY DEF LocalStep, InQueue
  <2> QED BY <2>1, LocalFrame
<1>2. /\ pc[t] \in LeaderStages \cup OwnStages /\ s \in LeaderStages \cup OwnStages
      /\ {pc[t], s} \cap (CommitStages \cup {"write"}) = {}
  BY DEF LeaderStages, CommitStages, OwnStages
<1>3. ~Waits(t) /\ ~Waits(t)' /\ ~Told(t)' /\ ~Fresh(t)'
  BY <1>2 DEF Waits, Passive, Told, Fresh, TakenOver, At, LeaderStages,
              CommitStages, OwnStages
<1>4. Pending(t)
  BY <1>2 DEF Pending
<1>5. PhaseOf(t, W, K2)'
  BY <1>2, <1>3 DEF PhaseOf, At, OwnStages
<1>6. ResultOf(t, W, K)
  BY LogFacts
<1>7. ResultOf(t, W, K2)'
  <2>1. pc[t] \notin EndStages /\ s \notin EarlyStages
        /\ s \notin {"last_wait", "commit"}
    BY DEF OwnStages, EndStages, EarlyStages
  <2>2. outcome[t] = "none"
    BY <1>6, <2>1 DEF ResultOf
  <2>3. t \notin late => Times(binlog, t) = IF t \in W /\ ~error[t] THEN 1 ELSE 0
    BY <1>6 DEF ResultOf
  <2> QED BY <2>1, <2>2, <2>3 DEF ResultOf
<1> QED BY <1>1, <1>2, <1>3, <1>4, <1>5, <1>7, AsideLemma

LEMMA LeaderAfterSyncLogs ==
  ASSUME IInv, NEW t \in Threads, LeaderAfterSync(t), NEW W, NEW K, LogsInv(W, K)
  PROVE  LogsInv(W, K)'
<1>1. /\ pc[t] = "written" /\ Goto(t, "synced")
      /\ UNCHANGED <<queue, todo, next, cur, error, optimize, queued_by_other,
                     wakeup_ready, binlog, engine, late, outcome, waitee>>
  BY DEF LeaderAfterSync, At, queueVars, entryVars, logVars, wfcVars
<1>2. pc'[t] = "synced" /\ \A x \in Threads \ {t} : pc'[x] = pc[x]
  BY <1>1, GotoType DEF IInv, Stages
<1>3. PhaseOf(t, W, K) /\ ResultOf(t, W, K) /\ K \subseteq W
  BY LogFacts
<1>4. t \in W /\ t \notin K
  BY <1>1, <1>3 DEF PhaseOf
<1>5. t \notin late => Times(engine, t) = IF t \in K /\ ~error[t] THEN 1 ELSE 0
  BY <1>3 DEF ResultOf
<1> QED BY <1>1, <1>2, <1>3, <1>4, <1>5, InsideLogs

LEMMA LeaderNotBusyLogs ==
  ASSUME IInv, NEW t \in Threads, LeaderNotBusy(t), NEW W, NEW K, LogsInv(W, K)
  PROVE  LogsInv(W, K)'
<1>1. /\ pc[t] = "busy" /\ Goto(t, "own_commit")
      /\ UNCHANGED <<queue, todo, next, cur, error, optimize, queued_by_other,
                     wakeup_ready, binlog, engine, late, outcome, waitee>>
  BY DEF LeaderNotBusy, At, queueVars, entryVars, logVars, wfcVars
<1>2. pc'[t] = "own_commit" /\ \A x \in Threads \ {t} : pc'[x] = pc[x]
  BY <1>1, GotoType DEF IInv, Stages
<1>3. PhaseOf(t, W, K) /\ ResultOf(t, W, K) /\ K \subseteq W
  BY LogFacts
<1>4. t \in W /\ t \notin K
  BY <1>1, <1>3 DEF PhaseOf
<1>5. t \notin late => Times(engine, t) = IF t \in K /\ ~error[t] THEN 1 ELSE 0
  BY <1>3 DEF ResultOf
<1> QED BY <1>1, <1>2, <1>3, <1>4, <1>5, InsideLogs DEF OwnStages

LEMMA OwnWakesLogs ==
  ASSUME IInv, NEW t \in Threads, OwnWakes(t), NEW W, NEW K, LogsInv(W, K)
  PROVE  LogsInv(W, K)'
<1>1. /\ pc[t] = "own_waking" /\ (pc' = pc \/ Goto(t, "own_signal"))
      /\ WakeNext(t, error[t]) \/ EndWakeup(t)
      /\ UNCHANGED <<queue, todo, next, cur, error, optimize, queued_by_other,
                     wakeup_ready, binlog, engine, late, outcome>>
  BY DEF OwnWakes, WakeupStep, At, lockVars, queueVars, entryVars, logVars
<1>2. /\ pc'[t] \in {"own_waking", "own_signal"}
      /\ \A x \in Threads \ {t} : pc'[x] = pc[x]
  BY <1>1, GotoType DEF IInv, Stages
<1>3. PhaseOf(t, W, K) /\ ResultOf(t, W, K) /\ K \subseteq W
  BY LogFacts
<1>4. t \in K
  BY <1>1, <1>3 DEF PhaseOf
<1>5. t \notin late => Times(engine, t) = IF t \in K /\ ~error[t] THEN 1 ELSE 0
  BY <1>3 DEF ResultOf
<1>6. \A g \in Taken : waitee'[g] = waitee[g]
  <2>1. t \in Groups /\ error[t] \in BOOLEAN
    BY <1>1 DEF IInv, LocksInv, GroupStages, TypeOK, EntryTypeOK
  <2> QED BY <1>1, <2>1, WalkTaken
<1> QED BY <1>1, <1>2, <1>3, <1>4, <1>5, <1>6, InsideLogs DEF OwnStages

(* run_commit_ordered() of x                                               *)
LEMMA CommitOrderedTimes ==
  ASSUME IInv, NEW x \in Threads, CommitOrdered(x)
  PROVE  \A y : Times(engine', y) =
           IF y = x /\ ~error[x] THEN Times(engine, y) + 1 ELSE Times(engine, y)
<1>1. engine \in Seq(Threads)
  BY DEF IInv, TypeOK, LogTypeOK
<1> QED BY <1>1, TimesAppend DEF CommitOrdered

LEMMA OwnCommitLogs ==
  ASSUME IInv, NEW t \in Threads, OwnCommit(t), NEW W, NEW K, LogsInv(W, K)
  PROVE  LogsInv(W, K \cup {t})'
<1>1. /\ pc[t] = "own_commit" /\ CommitOrdered(t)
      /\ CallWakeup(t, t, "own_waking", "own_signal")
      /\ UNCHANGED <<queue, todo, next, cur, error, optimize, queued_by_other,
                     wakeup_ready, binlog, late, outcome>>
  BY DEF OwnCommit, At, queueVars, entryVars
<1>2. PICK s \in {"own_waking", "own_signal"} : Goto(t, s) /\ waitee' = waitee
  BY <1>1 DEF CallWakeup, BeginWakeup, wfcVars
<1>3. pc'[t] = s /\ \A x \in Threads \ {t} : pc'[x] = pc[x]
  BY <1>2, GotoType DEF IInv, Stages
<1>4. PhaseOf(t, W, K) /\ ResultOf(t, W, K) /\ K \subseteq W
  BY LogFacts
<1>5. t \in W /\ t \notin K
  BY <1>1, <1>4 DEF PhaseOf
<1>6. t \notin late => Times(engine, t) = 0
  BY <1>4, <1>5 DEF ResultOf
<1>7. /\ \A x \in Threads \ {t} : Times(engine', x) = Times(engine, x)
      /\ t \notin late => Times(engine', t) = IF ~error[t] THEN 1 ELSE 0
  BY <1>1, <1>6, CommitOrderedTimes
<1>8. K \cup {t} \subseteq W
  BY <1>4, <1>5
<1> QED BY <1>1, <1>2, <1>3, <1>5, <1>7, <1>8, InsideLogs DEF OwnStages

(* Who has been told by t to go on is in the group's second half.          *)
LEMMA TellPlaces ==
  ASSUME IInv, NEW t \in Threads, NEW y, TellStep(t, y)
  PROVE  /\ \A x \in Threads \ {t, y} : /\ Fresh(x)' <=> Fresh(x)
                                        /\ Told(x)' <=> Told(x)
         /\ y \in Threads => ~Fresh(y)' /\ Told(y)'
<1> USE Basics
<1>1. /\ pc[t] \in {"wake_entry", "own_signal"}
      /\ \A u \in Threads \ {t} : pc'[u] = pc[u]
      /\ UNCHANGED <<queue, todo, queued_by_other>>
      /\ \/ y = NoThread /\ UNCHANGED <<wakeup_ready, wfcVars>>
         \/ y \in Threads /\ Waits(y) /\ \E err \in BOOLEAN : Signal(y, err)
  BY DEF TellStep
<1>2. /\ waitee \in [Groups -> Groups \cup {NoGroup}]
      /\ wakeup_ready \in [Threads -> BOOLEAN]
      /\ QueueInv /\ LocksInv
  BY DEF IInv, TypeOK, WfcTypeOK, EntryTypeOK
<1>3. y \in Threads =>
        /\ y # t /\ ~InQueue(y)
        /\ IF queued_by_other[y] THEN At(y, "wait_prior") /\ y \in Groups
                                 ELSE At(y, "wait_ready")
  BY <1>1, <1>2 DEF Waits, Passive, TakenOver, At, QueueInv
<1>4. /\ \A g \in Groups : waitee'[g] =
           IF g = y /\ queued_by_other[g] THEN NoGroup ELSE waitee[g]
      /\ \A z \in Threads : wakeup_ready'[z] =
           IF z = y /\ ~queued_by_other[z] THEN TRUE ELSE wakeup_ready[z]
  <2>1. CASE y = NoThread /\ UNCHANGED <<wakeup_ready, wfcVars>>
    BY <2>1 DEF wfcVars
  <2>2. CASE y \in Threads /\ \E err \in BOOLEAN : Signal(y, err)
    <3>1. CASE queued_by_other[y]
      BY <1>2, <1>3, <2>2, <3>1 DEF Signal, Woken
    <3>2. CASE ~queued_by_other[y]
      BY <1>2, <2>2, <3>2 DEF Signal, wfcVars
    <3> QED BY <3>1, <3>2
  <2> QED BY <1>1, <2>1, <2>2
<1>5. \A x \in Threads : InQueue(x)' <=> InQueue(x)
  BY <1>1 DEF InQueue
<1>6. ASSUME NEW x \in Threads \ {t, y}
      PROVE  (Fresh(x)' <=> Fresh(x)) /\ (Told(x)' <=> Told(x))
  <2>1. /\ pc'[x] = pc[x] /\ queued_by_other'[x] = queued_by_other[x]
        /\ wakeup_ready'[x] = wakeup_ready[x]
        /\ x \in Groups => waitee'[x] = waitee[x]
    BY <1>1, <1>4, <1>6
  <2>2. TakenOver(x) => x \in Groups
    BY <1>2 DEF TakenOver, At, LocksInv, GroupStages
  <2>3. /\ TakenOver(x)' <=> TakenOver(x)
        /\ \A s : At(x, s)' <=> At(x, s)
    BY <2>1 DEF TakenOver, At
  <2>4. (Passive(x)' <=> Passive(x)) /\ (Told(x)' <=> Told(x))
    BY <2>1, <2>2, <2>3 DEF Passive, Told
  <2> QED BY <1>5, <2>1, <2>4 DEF Fresh
<1>7. ASSUME y \in Threads PROVE ~Fresh(y)' /\ Told(y)'
  <2>1. pc'[y] = pc[y] /\ queued_by_other'[y] = queued_by_other[y] /\ ~InQueue(y)'
    BY <1>1, <1>3, <1>5, <1>7
  <2>2. CASE queued_by_other[y]
    BY <1>3, <1>4, <1>7, <2>1, <2>2 DEF Fresh, Told, TakenOver, At
  <2>3. CASE ~queued_by_other[y]
    BY <1>3, <1>4, <1>7, <2>1, <2>3 DEF Fresh, Told, At
  <2> QED BY <2>2, <2>3
<1> QED BY <1>6, <1>7

(* A thread that has run commit_ordered() itself tells the next one, which *)
(* has been written with its group.                                        *)
LEMMA OwnSignalLogs ==
  ASSUME IInv, NEW t \in Threads, OwnSignal(t), NEW W, NEW K, LogsInv(W, K)
  PROVE  LogsInv(W, K)'
<1> USE Basics
<1>1. PICK y : y = next[t]
  OBVIOUS
<1>2. /\ pc[t] = "own_signal" /\ TypeOK /\ LocksInv /\ ChainInv
      /\ IF y = NoThread THEN UNCHANGED <<wakeup_ready, wfcVars>>
                         ELSE Signal(y, error[t])
      /\ Goto(t, "returned")
      /\ UNCHANGED <<next, cur, error, queue, todo, is_leader, queued_by_other,
                     optimize, binlog, engine, late, outcome>>
  BY <1>1 DEF OwnSignal, At, IInv, lockVars, queueVars, logVars
<1>3. /\ pc' \in [Threads -> Stages]
      /\ pc'[t] = "returned" /\ \A u \in Threads \ {t} : pc'[u] = pc[u]
  BY <1>2, GotoType DEF Stages
<1>4. ~optimize /\ \A u \in Threads : pc[u] \notin CommitStages
  BY <1>2 DEF LocksInv, OwnStages
<1>5. Pending(t)
  BY <1>2 DEF Pending, OwnStages
<1>6. y = NoThread \/ (y \in Threads /\ Waits(y))
  BY <1>1, <1>2, <1>5 DEF ChainInv, TypeOK, EntryTypeOK
<1>7. TellStep(t, y)
  <2>1. error[t] \in BOOLEAN
    BY <1>2 DEF TypeOK, EntryTypeOK
  <2> QED BY <1>2, <1>3, <1>6, <2>1 DEF TellStep
<1>8. /\ \A z \in Threads : /\ Waits(z)' <=> Waits(z) /\ z # y
                            /\ Called(z)' <=> Called(z) \/ (z = y /\ ~optimize)
      /\ ~Waits(t) /\ ~Called(t) /\ y # t
  BY <1>7, TellLemma
<1>9. /\ \A x \in Threads \ {t, y} : /\ Fresh(x)' <=> Fresh(x)
                                     /\ Told(x)' <=> Told(x)
      /\ y \in Threads => ~Fresh(y)' /\ Told(y)'
  BY <1>7, TellPlaces
<1>10. /\ K \subseteq W /\ PhaseInv(W, K)
       /\ \A x \in Threads : PhaseOf(x, W, K) /\ ResultOf(x, W, K)
  BY LogFacts DEF LogsInv
<1>11. t \in K /\ t \in W
  BY <1>2, <1>10 DEF PhaseOf
<1>12. ASSUME y \in Threads PROVE y \in W /\ y \notin K
  <2>1. PICK of \in [Threads -> Nat], k \in Nat : GroupsInv(of, k)
    BY DEF IInv, OrderKept
  <2>2. ~\E u \in Threads : At(u, "write") /\ cur[u] = y
    <3> SUFFICES ASSUME NEW u \in Threads, At(u, "write"), cur[u] = y
                 PROVE  FALSE
      OBVIOUS
    <3>1. pc[u] \in LeaderStages /\ u # t
      BY <1>2 DEF At, LeaderStages
    <3>2. of[u] = of[y] /\ of[y] = of[t]
      BY <1>1, <1>5, <1>12, <2>1, <3>1 DEF GroupsInv
    <3> QED BY <1>5, <1>8, <2>1, <3>1, <3>2 DEF GroupsInv
  <2>3. LinkOf(t, y, W)
    BY <1>1, <1>5, <1>10, <1>12 DEF PhaseInv
  <2>4. y \in W
    BY <1>11, <2>2, <2>3 DEF LinkOf
  <2>5. Waits(y)
    BY <1>6, <1>12
  <2>6. y \notin K
    BY <1>4, <1>10, <1>12, <2>5 DEF PhaseOf, CommitStages
  <2> QED BY <2>4, <2>6
<1>13. y \in Threads => PhaseOf(y, W, K)'
  <2> SUFFICES ASSUME y \in Threads PROVE PhaseOf(y, W, K)'
    OBVIOUS
  <2>1. pc[y] \in {"wait_ready", "wait_prior"} /\ pc'[y] = pc[y]
    BY <1>3, <1>6, <1>8 DEF Waits, Passive, TakenOver, At
  <2>2. ~Waits(y)'
    BY <1>8
  <2> QED BY <1>2, <1>4, <1>9, <1>12, <2>1, <2>2 DEF PhaseOf, At, CommitStages
<1>14. ~Fresh(t)' /\ ~Told(t)' /\ ~Waits(t)' /\ ~Pending(t)'
  BY <1>3, <1>8 DEF Fresh, Told, Waits, Passive, Pending, Called, TakenOver, At,
              LeaderStages, CommitStages, OwnStages
<1>15. PhaseOf(t, W, K)'
  BY <1>3, <1>11, <1>14 DEF PhaseOf, At, CommitStages
<1>16. \A x \in Threads \ {t} : /\ pc'[x] = pc[x] /\ cur'[x] = cur[x]
                                /\ Waits(x)' => Waits(x)
                                /\ Pending(x)' => Pending(x)
  <2>1. \A x \in Threads \ {t} : Waits(x)' \/ Called(x)' => Waits(x) \/ Called(x)
    BY <1>6, <1>8
  <2>2. \A x \in Threads \ {t} : Pending(x)' => Pending(x)
    BY <1>2, <1>3, <2>1 DEF Pending
  <2> QED BY <1>2, <1>3, <1>8, <2>2
<1>17. {pc[t], pc'[t]} \cap (CommitStages \cup {"write"}) = {}
  BY <1>2, <1>3 DEF CommitStages
<1>18. PhaseInv(W, K)'
  BY <1>2, <1>8, <1>9, <1>10, <1>13, <1>14, <1>15, <1>16, <1>17, PhaseAside
<1>19. \A x \in Threads \ {t} : ResultOf(x, W, K)'
  BY <1>2, <1>3, <1>10, ResultSame
<1>20. ResultOf(t, W, K)'
  <2>1. outcome[t] = "none" /\ ResultOf(t, W, K)
    BY <1>2, <1>10 DEF ResultOf, EndStages
  <2> QED BY <1>2, <1>3, <2>1 DEF ResultOf, EndStages, EarlyStages
<1>21. \A x \in Threads : ResultOf(x, W, K)'
  BY <1>19, <1>20
<1> QED BY <1>18, <1>21 DEF LogsInv

(* The queue becomes a group of which nothing is written yet.              *)
LEMMA LeaderCollectLogs ==
  ASSUME IInv, NEW t \in Threads, LeaderCollect(t), NEW W, NEW K, LogsInv(W, K)
  PROVE  /\ LogsInv(W, K)'
         /\ \A x \in Threads : Contains(queue, x) => x \notin W
<1> USE Basics
<1>1. /\ pc[t] = "collect" /\ log_lock = t
      /\ Contains(queue, t) /\ Last(queue) = t
      /\ \A x \in Threads : todo[x] = <<>>
      /\ \A x \in Threads : Contains(queue, x) /\ x # t => Passive(x)
      /\ \A x \in Threads : ~Contains(queue, x) => next'[x] = next[x]
      /\ \A x \in Threads : Contains(queue, x) =>
           \/ next'[x] = NoThread
           \/ next'[x] \in Threads /\ Contains(queue, next'[x]) /\ next'[x] # t
  BY LeaderCollectFacts
<1>2. /\ cur' = [cur EXCEPT ![t] = t] /\ queue' = <<>> /\ Goto(t, "write")
      /\ UNCHANGED <<todo, queued_by_other, error, wakeup_ready, optimize,
                     binlog, engine, late, outcome, waitee>>
  BY <1>1 DEF LeaderCollect, lockVars, logVars, wfcVars
<1>3. TypeOK /\ LocksInv /\ QueueInv /\ ChainInv
  BY DEF IInv
<1>4. pc'[t] = "write" /\ \A x \in Threads \ {t} : pc'[x] = pc[x]
  BY <1>2, <1>3, GotoType DEF Stages
<1>5. cur'[t] = t /\ \A x \in Threads \ {t} : cur'[x] = cur[x]
  BY <1>2, <1>3 DEF TypeOK, EntryTypeOK
<1>6. \A x \in Threads : (TakenOver(x)' <=> TakenOver(x)) /\
                         (Passive(x)' <=> Passive(x)) /\
                         (Called(x)' <=> Called(x)) /\
                         (Told(x)' <=> Told(x))
  BY <1>1, <1>2, <1>4 DEF TakenOver, Passive, Called, Told, At
<1>7. \A x \in Threads : ~InQueue(x)' /\ (InQueue(x) <=> Contains(queue, x))
  BY <1>1, <1>2, EmptyList DEF InQueue
<1>8. ~Passive(t) /\ ~Called(t) /\ ~Told(t)
  BY <1>1 DEF Passive, Called, Told, TakenOver, At
<1>9. \A x \in Threads :
        /\ Waits(x) <=> Passive(x) /\ ~Contains(queue, x)
        /\ Waits(x)' <=> Passive(x)
  BY <1>6, <1>7 DEF Waits
<1>10. \A x \in Threads : ~Contains(queue, x) /\ Pending(x)' => Pending(x)
  <2> SUFFICES ASSUME NEW x \in Threads, ~Contains(queue, x), Pending(x)'
               PROVE  Pending(x)
    OBVIOUS
  <2>1. x # t
    BY <1>1
  <2>2. pc'[x] = pc[x] /\ cur'[x] = cur[x] /\ (Waits(x)' <=> Waits(x))
    BY <1>4, <1>5, <1>9, <2>1
  <2> QED BY <1>6, <2>2 DEF Pending
<1>11. /\ K \subseteq W /\ PhaseInv(W, K)
       /\ \A x \in Threads : PhaseOf(x, W, K) /\ ResultOf(x, W, K)
  BY LogFacts DEF LogsInv
<1>12. \A x \in Threads : Contains(queue, x) => x \notin W
  <2>1. \A x \in Threads : Contains(queue, x) => Fresh(x)
    BY <1>1, <1>7 DEF Fresh
  <2> QED BY <1>11, <2>1 DEF PhaseOf
<1>13. t \notin W /\ t \notin K
  BY <1>1, <1>11, <1>12
<1>14. \A u \in Threads : At(u, "write") \/ At(u, "write")' => u = t
  BY <1>1, <1>3, <1>4 DEF LocksInv, At
<1>15. ~At(t, "write")
  BY <1>1 DEF At
<1>16. ASSUME NEW x \in Threads, x # t PROVE PhaseOf(x, W, K)'
  <2>1. PhaseOf(x, W, K)
    BY <1>11
  <2>2. pc'[x] = pc[x] /\ cur'[x] = cur[x] /\ optimize' = optimize
    BY <1>2, <1>4, <1>5, <1>16
  <2>3. Fresh(x)' => Fresh(x)
    BY <1>2, <1>7, <2>2 DEF Fresh
  <2>4. Waits(x)' /\ x \in K =>
          \E u \in Threads : pc'[u] \in {"waking", "wake_entry"} /\ cur'[u] = x
    <3> SUFFICES ASSUME Waits(x)', x \in K
                 PROVE  \E u \in Threads : pc'[u] \in {"waking", "wake_entry"}
                                           /\ cur'[u] = x
      OBVIOUS
    <3>1. Waits(x)
      BY <1>9, <1>11, <1>12
    <3>2. PICK u \in Threads : pc[u] \in {"waking", "wake_entry"} /\ cur[u] = x
      BY <2>1, <3>1 DEF PhaseOf
    <3> QED BY <1>1, <1>4, <1>5, <3>2
  <2> QED BY <1>6, <2>1, <2>2, <2>3, <2>4 DEF PhaseOf, At
<1>17. PhaseOf(t, W, K)'
  <2>1. ~Fresh(t)' /\ ~Told(t)' /\ ~Waits(t)'
    BY <1>4, <1>6, <1>8, <1>9 DEF Fresh
  <2> QED BY <1>4, <1>5, <1>13, <2>1 DEF PhaseOf, At, CommitStages
<1>18. ASSUME NEW x \in Threads, NEW y \in Threads, Pending(x)', next'[x] = y
       PROVE  LinkOf(x, y, W)'
  <2>1. CASE Contains(queue, x)
    BY <1>1, <1>12, <1>18, <2>1 DEF LinkOf
  <2>2. CASE ~Contains(queue, x)
    <3>1. Pending(x) /\ next[x] = y
      BY <1>1, <1>10, <1>18, <2>2
    <3>2. LinkOf(x, y, W)
      BY <1>11, <3>1 DEF PhaseInv
    <3> QED BY <1>14, <1>15, <3>2 DEF LinkOf
  <2> QED BY <2>1, <2>2
<1>19. ASSUME NEW u \in Threads, NEW x \in Threads, At(u, "write")',
              Pending(x)', next'[x] = cur'[u]
       PROVE  x \in W
  <2>1. next'[x] = t
    BY <1>5, <1>14, <1>19
  <2>2. ~Contains(queue, x)
    BY <1>1, <2>1
  <2>3. Pending(x) /\ next[x] = t
    BY <1>1, <1>10, <1>19, <2>1, <2>2
  <2> QED BY <1>3, <1>8, <1>9, <2>3 DEF ChainInv
<1>20. PhaseInv(W, K)'
  BY <1>11, <1>16, <1>17, <1>18, <1>19 DEF PhaseInv
<1>21. \A x \in Threads \ {t} : ResultOf(x, W, K)'
  BY <1>2, <1>4, <1>11, ResultSame
<1>22. ResultOf(t, W, K)'
  <2>1. ResultOf(t, W, K) /\ outcome[t] = "none"
    BY <1>1, <1>11 DEF ResultOf, EndStages
  <2> QED BY <1>2, <1>4, <2>1 DEF ResultOf, EndStages, EarlyStages
<1>23. \A x \in Threads : ResultOf(x, W, K)'
  BY <1>21, <1>22
<1> QED BY <1>12, <1>20, <1>23 DEF LogsInv

(* The leader writes one entry of its group, or fails to.                  *)
LEMMA LeaderWriteLogs ==
  ASSUME IInv, NEW t \in Threads, LeaderWrite(t), NEW W, NEW K, LogsInv(W, K)
  PROVE  \E e \in Threads : /\ LogsInv(W \cup {e}, K)'
                            /\ \A x \in Threads \ {e} : error'[x] = error[x]
                            /\ e \in unsynced => error'[e]
<1> USE Basics
<1>1. PICK e : e = cur[t]
  OBVIOUS
<1>2. PICK fails \in BOOLEAN :
        /\ error' = [error EXCEPT ![e] = fails]
        /\ e \in unsynced => fails
        /\ binlog' = IF fails THEN binlog ELSE Append(binlog, e)
  BY <1>1 DEF LeaderWrite
<1>3. /\ pc[t] = "write"
      /\ IF next[e] = NoThread
         THEN cur' = [cur EXCEPT ![t] = t] /\ Goto(t, "written")
         ELSE cur' = [cur EXCEPT ![t] = next[e]] /\ UNCHANGED pc
      /\ UNCHANGED <<optimize, prepare_ordered, queue, todo, is_leader,
                     queued_by_other, next, wakeup_ready, engine, late,
                     outcome, waitee>>
  BY <1>1 DEF LeaderWrite, At, lockVars, queueVars, wfcVars
<1>4. TypeOK /\ LocksInv /\ ChainInv
  BY DEF IInv
<1>5. /\ pc \in [Threads -> Stages] /\ cur \in [Threads -> Threads \cup {NoThread}]
      /\ next \in [Threads -> Threads \cup {NoThread}]
      /\ error \in [Threads -> BOOLEAN] /\ binlog \in Seq(Threads)
  BY <1>4 DEF TypeOK, EntryTypeOK, LogTypeOK
<1>6. /\ e \in Threads /\ (e = t \/ Waits(e))
  BY <1>1, <1>3, <1>4 DEF ChainInv, LeaderStages
<1>7. /\ pc' \in [Threads -> Stages]
      /\ \A x \in Threads \ {t} : pc'[x] = pc[x] /\ cur'[x] = cur[x]
      /\ IF next[e] = NoThread THEN pc'[t] = "written" /\ cur'[t] = t
         ELSE pc'[t] = "write" /\ cur'[t] = next[e] /\ next[e] \in Threads
  <2>1. CASE next[e] = NoThread
    <3>1. Goto(t, "written") /\ cur' = [cur EXCEPT ![t] = t]
      BY <1>3, <2>1
    <3>2. /\ pc' \in [Threads -> Stages]
          /\ pc'[t] = "written" /\ \A x \in Threads \ {t} : pc'[x] = pc[x]
      BY <1>4, <3>1, GotoType DEF Stages
    <3> QED BY <1>5, <2>1, <3>1, <3>2
  <2>2. CASE next[e] # NoThread
    BY <1>3, <1>5, <1>6, <2>2
  <2> QED BY <2>1, <2>2
<1>8. AsideStep(t)
  <2>1. LocalStep(t)
    BY <1>3, <1>7 DEF LocalStep, InQueue
  <2> QED BY <2>1, LocalFrame
<1>9. /\ pc'[t] \in {"write", "written"}
      /\ ~Waits(t) /\ ~Waits(t)' /\ ~Told(t)' /\ ~Fresh(t)'
      /\ Pending(t)
  <2>1. pc'[t] \in {"write", "written"}
    BY <1>7
  <2> QED BY <1>3, <2>1 DEF Waits, Passive, Told, Fresh, Pending, TakenOver, At,
                            LeaderStages, CommitStages
<1>10. \A x \in Threads : Pending(x)' => Pending(x)
  BY <1>8, <1>9 DEF AsideStep
<1>11. Pending(e)
  BY <1>6, <1>9 DEF Pending
<1>12. /\ K \subseteq W /\ PhaseInv(W, K)
       /\ \A x \in Threads : PhaseOf(x, W, K) /\ ResultOf(x, W, K)
  BY LogFacts DEF LogsInv
<1>13. t \notin K /\ e \notin W /\ (e = t \/ t \in W)
  BY <1>1, <1>3, <1>12 DEF PhaseOf, At
<1>14. \A u \in Threads : At(u, "write") \/ At(u, "write")' => u = t
  <2>1. \A u \in Threads : At(u, "write") => u = t
    BY <1>3, <1>4 DEF LocksInv, At
  <2> QED BY <1>7, <2>1 DEF At
<1>15. \A x \in Threads : Pending(x) /\ next[x] = e => x \in W
  BY <1>1, <1>3, <1>12 DEF PhaseInv, At
<1>16. next[e] # NoThread => next[e] \notin W \cup {e}
  <2> SUFFICES ASSUME next[e] # NoThread PROVE next[e] \notin W \cup {e}
    OBVIOUS
  <2>1. next[e] \in Threads
    BY <1>7
  <2>2. LinkOf(e, next[e], W)
    BY <1>6, <1>11, <1>12, <2>1 DEF PhaseInv
  <2> QED BY <1>6, <1>11, <1>13, <1>15, <2>2 DEF LinkOf
<1>17. ~Fresh(e) \/ e = t
  BY <1>6 DEF Fresh, Waits, Passive, TakenOver, At
<1> DEFINE W2 == W \cup {e}
<1>18. \A x : x \in W2 <=> x \in W \/ x = e
  OBVIOUS
<1> HIDE DEF W2
<1>19. ASSUME NEW x \in Threads, x # t PROVE PhaseOf(x, W2, K)'
  <2>1. PhaseOf(x, W, K)
    BY <1>12
  <2>2. /\ pc'[x] = pc[x] /\ cur'[x] = cur[x] /\ optimize' = optimize
        /\ Fresh(x)' => Fresh(x)
        /\ Told(x)' => Told(x)
        /\ Waits(x)' => Waits(x)
    BY <1>8, <1>19 DEF AsideStep
  <2>3. Waits(x)' /\ x \in K =>
          \E u \in Threads : pc'[u] \in {"waking", "wake_entry"} /\ cur'[u] = x
    <3>1. \A u \in Threads : pc[u] \in {"waking", "wake_entry"} =>
            pc'[u] = pc[u] /\ cur'[u] = cur[u]
      BY <1>3, <1>7
    <3> QED BY <2>1, <2>2, <3>1 DEF PhaseOf
  <2>4. ~At(x, "write")'
    BY <1>14, <1>19
  <2>5. Fresh(x)' => x \notin W2
    BY <1>17, <1>18, <1>19, <2>1, <2>2 DEF PhaseOf
  <2> QED BY <1>18, <2>1, <2>2, <2>3, <2>4, <2>5 DEF PhaseOf
<1>20. PhaseOf(t, W2, K)'
  <2>1. t \in W2 /\ t \notin K
    BY <1>13, <1>18
  <2>2. At(t, "write")' => cur'[t] \notin W2
    BY <1>7, <1>16, <1>18 DEF At
  <2> QED BY <1>9, <2>1, <2>2 DEF PhaseOf, At, CommitStages
<1>21. ASSUME NEW x \in Threads, NEW y \in Threads, Pending(x)', next'[x] = y
       PROVE  LinkOf(x, y, W2)'
  <2>1. Pending(x) /\ next[x] = y
    BY <1>3, <1>10, <1>21
  <2>2. LinkOf(x, y, W)
    BY <1>12, <2>1 DEF PhaseInv
  <2>3. y \in W2 => x \in W2
    BY <1>15, <1>18, <2>1, <2>2 DEF LinkOf
  <2>4. x \in W /\ y \notin W => y = e
    BY <1>1, <1>14, <2>2 DEF LinkOf
  <2>5. x = e => At(t, "write")' /\ cur'[t] = y
    BY <1>7, <2>1 DEF At
  <2> QED BY <1>18, <2>3, <2>4, <2>5 DEF LinkOf
<1>22. ASSUME NEW u \in Threads, NEW x \in Threads, At(u, "write")',
              Pending(x)', next'[x] = cur'[u]
       PROVE  x \in W2
  <2>1. Pending(x) /\ next[x] = cur'[t] /\ pc'[t] = "write"
    BY <1>3, <1>10, <1>14, <1>22 DEF At
  <2>2. next[x] = next[e] /\ next[e] \in Threads
    BY <1>7, <2>1
  <2>3. x = e
    BY <1>4, <1>6, <1>11, <2>1, <2>2 DEF ChainInv
  <2> QED BY <1>18, <2>3
<1>23. PhaseInv(W2, K)'
  <2>1. K \subseteq W2
    BY <1>12, <1>18
  <2>2. \A x \in Threads : PhaseOf(x, W2, K)'
    BY <1>19, <1>20
  <2> QED BY <1>21, <1>22, <2>1, <2>2 DEF PhaseInv
<1>24. /\ error'[e] = fails /\ \A x \in Threads \ {e} : error'[x] = error[x]
       /\ Times(binlog', e) = IF fails THEN Times(binlog, e)
                                       ELSE Times(binlog, e) + 1
       /\ \A x \in Threads \ {e} : Times(binlog', x) = Times(binlog, x)
  BY <1>2, <1>5, <1>6, TimesAppend
<1>25. /\ Times(binlog, e)' = Times(binlog', e) /\ Times(engine, e)' = Times(engine, e)
       /\ Times(binlog, t)' = Times(binlog', t) /\ Times(engine, t)' = Times(engine, t)
  BY <1>3 DEF Times
<1>26. \A x \in Threads \ {e, t} : ResultOf(x, W2, K)'
  BY <1>3, <1>7, <1>12, <1>18, <1>24, ResultSame
<1>27. /\ pc[e] \in {"write", "wait_ready", "wait_prior"}
       /\ pc'[e] \in {"write", "written", "wait_ready", "wait_prior"}
  <2>1. CASE e = t
    BY <1>3, <1>9, <2>1
  <2>2. CASE e # t
    BY <1>6, <1>7, <2>2 DEF Waits, Passive, TakenOver, At
  <2> QED BY <2>1, <2>2
<1>28. ResultOf(e, W2, K)'
  <2>1. ResultOf(e, W, K) /\ outcome[e] = "none"
    BY <1>6, <1>12, <1>27 DEF ResultOf, EndStages
  <2>2. e \notin K /\ e \in W2
    BY <1>12, <1>13, <1>18
  <2>3. e \notin late => Times(binlog, e) = 0 /\ Times(engine, e) = 0
    BY <1>13, <2>1, <2>2 DEF ResultOf
  <2>4. pc'[e] \notin EarlyStages /\ pc'[e] \notin {"last_wait", "commit"}
    BY <1>27 DEF EarlyStages
  <2> QED BY <1>3, <1>24, <1>25, <2>1, <2>2, <2>3, <2>4 DEF ResultOf
<1>29. t # e => ResultOf(t, W2, K)'
  <2> SUFFICES ASSUME t # e PROVE ResultOf(t, W2, K)'
    OBVIOUS
  <2>1. ResultOf(t, W, K) /\ outcome[t] = "none"
    BY <1>3, <1>12 DEF ResultOf, EndStages
  <2>2. t \in W2 <=> t \in W
    BY <1>18
  <2>3. pc'[t] \notin EarlyStages /\ pc'[t] \notin {"last_wait", "commit"}
    BY <1>9 DEF EarlyStages
  <2> QED BY <1>3, <1>24, <1>25, <2>1, <2>2, <2>3 DEF ResultOf
<1>30. \A x \in Threads : ResultOf(x, W2, K)'
  BY <1>26, <1>28, <1>29
<1>31. LogsInv(W2, K)'
  BY <1>23, <1>30 DEF LogsInv
<1>32. /\ \A x \in Threads \ {e} : error'[x] = error[x]
       /\ e \in unsynced => error'[e]
  BY <1>2, <1>5, <1>6
<1> QED BY <1>6, <1>31, <1>32 DEF W2

(* The leader that holds LOCK_commit_ordered is alone in its loop, and may *)
(* tell y to go on.                                                        *)
LEMMA LoopPhase ==
  ASSUME IInv, NEW t \in Threads, NEW y, NEW W, NEW K, PhaseInv(W, K),
         NEW K2, K \subseteq K2, K2 \subseteq W, optimize,
         \A x \in Threads \ {t} : /\ pc'[x] = pc[x] /\ cur'[x] = cur[x]
                                  /\ pc[x] \notin CommitStages,
         \A x \in Threads \ {t, y} : /\ Fresh(x)' => Fresh(x)
                                     /\ Told(x)' => Told(x),
         \A x \in Threads : Pending(x)' => Pending(x),
         UNCHANGED <<next, optimize>>,
         "write" \notin {pc[t], pc'[t]},
         \A x \in K2 : x \in K \/ x = t \/ Waits(x),
         \A x \in Threads \ {t, y} : Waits(x)' /\ x \in K2 =>
           pc'[t] \in {"waking", "wake_entry"} /\ cur'[t] = x,
         PhaseOf(t, W, K2)', y \in Threads => PhaseOf(y, W, K2)'
  PROVE  PhaseInv(W, K2)'
<1>1. \A u \in Threads : /\ At(u, "write")' <=> At(u, "write")
                         /\ At(u, "write") => cur'[u] = cur[u]
  BY DEF At
<1>2. ASSUME NEW x \in Threads, x \notin {t, y} PROVE PhaseOf(x, W, K2)'
  <2>1. PhaseOf(x, W, K)
    BY DEF PhaseInv
  <2>2. /\ pc'[x] = pc[x] /\ cur'[x] = cur[x] /\ optimize' = optimize
        /\ Fresh(x)' => Fresh(x)
        /\ Told(x)' => Told(x)
        /\ pc'[x] \notin CommitStages
    BY <1>2
  <2>3. x \in K2 => x \in K \/ pc[x] \in {"wait_ready", "wait_prior"}
    BY <1>2 DEF Waits, Passive, TakenOver, At
  <2>4. Waits(x)' /\ x \in K2 =>
          \E u \in Threads : pc'[u] \in {"waking", "wake_entry"} /\ cur'[u] = x
    BY <1>2
  <2>5. /\ pc'[x] \in {"written", "synced", "busy", "own_commit"} =>
             x \in W /\ x \notin K2
        /\ pc'[x] \in {"own_waking", "own_signal", "returned", "last_wait",
                       "commit"} => x \in K2
        /\ At(x, "write")' =>
             x \notin K2 /\ cur'[x] \notin W /\ (cur'[x] = x \/ x \in W)
    BY <2>1, <2>2, <2>3 DEF PhaseOf, At
  <2>6. Told(x)' => x \in W /\ (x \in K2 <=> optimize')
    BY <2>1, <2>2 DEF PhaseOf
  <2>7. Fresh(x)' => x \notin W
    BY <2>1, <2>2 DEF PhaseOf
  <2> QED BY <2>2, <2>4, <2>5, <2>6, <2>7 DEF PhaseOf
<1>3. /\ \A x, z \in Threads : Pending(x)' /\ next'[x] = z => LinkOf(x, z, W)'
      /\ \A u, x \in Threads :
           At(u, "write")' /\ Pending(x)' /\ next'[x] = cur'[u] => x \in W
  BY <1>1, LinksAside
<1>4. \A x \in Threads : PhaseOf(x, W, K2)'
  BY <1>2
<1> QED BY <1>3, <1>4 DEF PhaseInv

(* In the loop that calls commit_ordered(), when nobody is told anything   *)
LEMMA LoopLogs ==
  ASSUME IInv, NEW t \in Threads, LocalStep(t), cur' = cur, optimize,
         \A x \in Threads \ {t} : pc[x] \notin CommitStages,
         pc[t] \in {"synced"} \cup CommitStages, pc'[t] \in CommitStages,
         cur[t] \in Threads, cur[t] = t \/ Waits(cur[t]),
         pc[t] = "synced" => cur[t] = t,
         UNCHANGED <<error, outcome, late, binlog>>,
         NEW W, NEW K, LogsInv(W, K), NEW K2,
         K2 = K \/ K2 = K \cup {cur[t]},
         cur[t] \in K2 <=> pc'[t] # "commit_entry",
         \A x : Times(engine', x) =
           IF x \in K2 \ K /\ ~error[x] THEN Times(engine, x) + 1
                                        ELSE Times(engine, x)
  PROVE  LogsInv(W, K2)'
<1>1. AsideStep(t)
  BY LocalFrame
<1>2. /\ K \subseteq W /\ PhaseInv(W, K)
      /\ \A x \in Threads : PhaseOf(x, W, K) /\ ResultOf(x, W, K)
  BY LogFacts DEF LogsInv
<1>3. /\ cur[t] \in W
      /\ cur[t] = t \/ t \in K
      /\ cur[t] \in K <=> pc[t] \in {"waking", "wake_entry"}
  BY <1>2 DEF PhaseOf, CommitStages
<1>4. K \subseteq K2 /\ K2 \subseteq W /\ \A x \in K2 : x \in K \/ x = cur[t]
  BY <1>2, <1>3
<1>5. /\ ~Fresh(t)' /\ ~Told(t)' /\ ~Waits(t)' /\ ~Waits(t)
      /\ "write" \notin {pc[t], pc'[t]}
  BY DEF Waits, Passive, Told, Fresh, TakenOver, At, CommitStages
<1>6. Pending(t)' => Pending(t)
  <2>1. Pending(t)' => cur[t] = t
    <3>1. ~Called(t)' /\ pc'[t] \notin (LeaderStages \ CommitStages) \cup OwnStages
      BY DEF Called, TakenOver, At, CommitStages, LeaderStages, OwnStages
    <3> QED BY <1>5, <3>1 DEF Pending
  <2>2. cur[t] = t => Pending(t)
    BY DEF Pending, CommitStages, LeaderStages
  <2> QED BY <2>1, <2>2
<1>7. PhaseOf(t, W, K2)'
  <2>1. /\ cur'[t] \in W /\ (cur'[t] \in K2 <=> pc'[t] # "commit_entry")
        /\ cur'[t] = t \/ t \in K2
    BY <1>3, <1>4
  <2> QED BY <1>5, <2>1 DEF PhaseOf, At, CommitStages
<1>8. ASSUME NEW x \in Threads \ {t}, Waits(x)', x \in K2
      PROVE  pc'[t] \in {"waking", "wake_entry"} /\ cur'[t] = x
  <2>1. Waits(x)
    BY <1>1, <1>8 DEF AsideStep
  <2>2. x \in K => cur[t] = x
    <3>1. x \in K => \E u \in Threads : pc[u] \in CommitStages /\ cur[u] = x
      BY <1>2, <2>1 DEF PhaseOf, CommitStages
    <3> QED BY <3>1
  <2>3. cur[t] = x
    BY <1>4, <1>8, <2>2
  <2> QED BY <1>8, <2>3 DEF CommitStages
<1>9. PhaseInv(W, K2)'
  <2>1. \A x \in Threads \ {t} : /\ pc'[x] = pc[x] /\ cur'[x] = cur[x]
                                 /\ pc[x] \notin CommitStages
    BY <1>1 DEF AsideStep
  <2>2. \A x \in Threads \ {t, t} : /\ Fresh(x)' => Fresh(x)
                                    /\ Told(x)' => Told(x)
    BY <1>1 DEF AsideStep
  <2>3. \A x \in Threads : Pending(x)' => Pending(x)
    BY <1>1, <1>6 DEF AsideStep
  <2>4. UNCHANGED <<next, optimize>>
    BY <1>1 DEF AsideStep
  <2>5. \A x \in K2 : x \in K \/ x = t \/ Waits(x)
    BY <1>4
  <2>6. \A x \in Threads \ {t, t} : Waits(x)' /\ x \in K2 =>
          pc'[t] \in {"waking", "wake_entry"} /\ cur'[t] = x
    BY <1>8
  <2> QED BY <1>2, <1>4, <1>5, <1>7, <2>1, <2>2, <2>3, <2>4, <2>5, <2>6, LoopPhase
<1>10. ASSUME NEW x \in Threads PROVE ResultOf(x, W, K2)'
  <2>1. ResultOf(x, W, K)
    BY <1>2
  <2>2. CASE x # t /\ x # cur[t]
    <3>1. pc'[x] = pc[x] /\ (x \in K2 <=> x \in K)
      BY <1>1, <1>4, <2>2 DEF AsideStep
    <3> QED BY <2>1, <3>1, ResultSame
  <2>3. CASE x = t \/ x = cur[t]
    <3>1. /\ pc[x] \in {"synced", "wait_ready", "wait_prior"} \cup CommitStages
          /\ pc'[x] \in {"wait_ready", "wait_prior"} \cup CommitStages
      <4>1. CASE x = t
        BY <4>1
      <4>2. CASE x # t
        <5>1. Waits(x) /\ pc'[x] = pc[x]
          BY <1>1, <2>3, <4>2 DEF AsideStep
        <5> QED BY <5>1 DEF Waits, Passive, TakenOver, At
      <4> QED BY <4>1, <4>2
    <3>2. /\ pc[x] \notin EndStages /\ pc'[x] \notin EarlyStages
          /\ pc'[x] \notin {"last_wait", "commit"}
      BY <3>1 DEF EndStages, EarlyStages, CommitStages
    <3>3. outcome[x] = "none"
      BY <2>1, <3>2 DEF ResultOf
    <3>4. x \notin late =>
            /\ Times(binlog, x) = IF x \in W /\ ~error[x] THEN 1 ELSE 0
            /\ Times(engine', x) = IF x \in K2 /\ ~error[x] THEN 1 ELSE 0
      <4>1. x \notin late =>
              /\ Times(binlog, x) = IF x \in W /\ ~error[x] THEN 1 ELSE 0
              /\ Times(engine, x) = IF x \in K /\ ~error[x] THEN 1 ELSE 0
        BY <2>1 DEF ResultOf
      <4> QED BY <1>4, <4>1
    <3>5. Times(engine, x)' = Times(engine', x) /\ Times(binlog, x)' = Times(binlog, x)
      BY DEF Times
    <3> QED BY <3>2, <3>3, <3>4, <3>5 DEF ResultOf
  <2> QED BY <2>2, <2>3
<1> QED BY <1>9, <1>10 DEF LogsInv

LEMMA LeaderCommitLockLogs ==
  ASSUME IInv, NEW t \in Threads, LeaderCommitLock(t), NEW W, NEW K, LogsInv(W, K)
  PROVE  LogsInv(W, K)'
<1>1. /\ pc[t] = "synced" /\ commit_ordered = NoThread
      /\ UNCHANGED <<queue, todo, next, cur, error, optimize, queued_by_other,
                     wakeup_ready, binlog, engine, late, outcome, waitee>>
  BY DEF LeaderCommitLock, At, queueVars, entryVars, logVars, wfcVars
<1>2. PhaseOf(t, W, K) /\ ResultOf(t, W, K) /\ K \subseteq W
  BY LogFacts
<1>3. t \in W /\ t \notin K
  BY <1>1, <1>2 DEF PhaseOf
<1>4. CASE optimize
  <2>1. Goto(t, "commit_entry")
    BY <1>4 DEF LeaderCommitLock
  <2>2. pc'[t] = "commit_entry" /\ \A x \in Threads \ {t} : pc'[x] = pc[x]
    BY <2>1, GotoType DEF IInv, Stages
  <2>3. LocalStep(t)
    BY <1>1, <2>2 DEF LocalStep, InQueue
  <2>4. cur[t] = t /\ \A x \in Threads \ {t} : pc[x] \notin CommitStages
    BY <1>1, Basics DEF IInv, ChainInv, LocksInv
  <2> QED BY <1>1, <1>3, <1>4, <2>2, <2>3, <2>4, LoopLogs DEF CommitStages
<1>5. CASE ~optimize
  <2>1. PICK s \in {"busy", "own_commit"} : Goto(t, s)
    BY <1>5 DEF LeaderCommitLock
  <2>2. pc'[t] = s /\ \A x \in Threads \ {t} : pc'[x] = pc[x]
    BY <2>1, GotoType DEF IInv, Stages
  <2>3. t \notin late => Times(engine, t) = IF t \in K /\ ~error[t] THEN 1 ELSE 0
    BY <1>2 DEF ResultOf
  <2>4. CASE s = "busy"
    BY <1>1, <1>2, <1>3, <2>2, <2>3, <2>4, InsideLogs
  <2>5. CASE s = "own_commit"
    BY <1>1, <1>2, <1>3, <2>2, <2>3, <2>5, InsideLogs DEF OwnStages
  <2> QED BY <2>4, <2>5
<1> QED BY <1>4, <1>5

(* What the leader in that loop knows                                      *)
LEMMA LoopFacts ==
  ASSUME IInv, NEW t \in Threads, pc[t] \in CommitStages
  PROVE  /\ optimize /\ cur[t] \in Threads
         /\ cur[t] = t \/ Waits(cur[t])
         /\ \A x \in Threads \ {t} : pc[x] \notin CommitStages
         /\ \A x \in Threads : Pending(x) => next[x] # cur[t]
<1>1. pc[t] \in LeaderStages /\ LocksInv /\ ChainInv
  BY DEF LeaderStages, IInv
<1>2. cur[t] \in Threads
  BY <1>1 DEF ChainInv
<1>3. cur[t] = t \/ Waits(cur[t])
  BY <1>1, <1>2 DEF ChainInv
<1>4. optimize /\ \A x \in Threads \ {t} : pc[x] \notin CommitStages
  BY <1>1 DEF LocksInv
<1> QED BY <1>1, <1>2, <1>3, <1>4 DEF ChainInv

LEMMA CommitEntryLogs ==
  ASSUME IInv, NEW t \in Threads, CommitEntry(t), NEW W, NEW K, LogsInv(W, K)
  PROVE  \E e \in Threads : LogsInv(W, K \cup {e})'
<1> USE Basics
<1>1. /\ pc[t] = "commit_entry" /\ CommitOrdered(cur[t])
      /\ CallWakeup(t, cur[t], "waking", "wake_entry")
      /\ UNCHANGED <<queue, todo, next, cur, error, optimize, queued_by_other,
                     wakeup_ready, binlog, late, outcome>>
  BY DEF CommitEntry, At, lockVars, queueVars, entryVars
<1>2. /\ optimize /\ cur[t] \in Threads
      /\ cur[t] = t \/ Waits(cur[t])
      /\ \A x \in Threads \ {t} : pc[x] \notin CommitStages
  BY <1>1, LoopFacts DEF CommitStages
<1>3. PICK s \in {"waking", "wake_entry"} : Goto(t, s) /\ waitee' = waitee
  BY <1>1 DEF CallWakeup, BeginWakeup, wfcVars
<1>4. pc'[t] = s /\ \A x \in Threads \ {t} : pc'[x] = pc[x]
  BY <1>3, GotoType DEF IInv, Stages
<1>5. LocalStep(t)
  BY <1>1, <1>3, <1>4 DEF LocalStep, InQueue
<1>6. cur[t] \notin K
  <2>1. PhaseOf(t, W, K)
    BY LogFacts
  <2> QED BY <1>1, <2>1 DEF PhaseOf, CommitStages
<1>7. PICK e \in Threads : e = cur[t]
  BY <1>2
<1> DEFINE K2 == K \cup {e}
<1>8. /\ K2 = K \cup {cur[t]} /\ cur[t] \in K2
      /\ \A x : x \in K2 \ K <=> x = e
  BY <1>6, <1>7
<1> HIDE DEF K2
<1>9. \A x : Times(engine', x) =
        IF x \in K2 \ K /\ ~error[x] THEN Times(engine, x) + 1
                                     ELSE Times(engine, x)
  BY <1>1, <1>7, <1>8, CommitOrderedTimes
<1>10. LogsInv(W, K2)'
  BY <1>1, <1>2, <1>4, <1>5, <1>8, <1>9, LoopLogs DEF CommitStages
<1> QED BY <1>10 DEF K2

LEMMA LeaderWakesLogs ==
  ASSUME IInv, NEW t \in Threads, LeaderWakes(t), NEW W, NEW K, LogsInv(W, K)
  PROVE  LogsInv(W, K)'
<1>1. /\ pc[t] = "waking" /\ (pc' = pc \/ Goto(t, "wake_entry"))
      /\ WakeNext(cur[t], error[cur[t]]) \/ EndWakeup(cur[t])
      /\ UNCHANGED <<queue, todo, next, cur, error, optimize, queued_by_other,
                     wakeup_ready, binlog, engine, late, outcome>>
  BY DEF LeaderWakes, WakeupStep, At, lockVars, queueVars, entryVars, logVars
<1>2. /\ optimize /\ cur[t] \in Threads
      /\ cur[t] = t \/ Waits(cur[t])
      /\ \A x \in Threads \ {t} : pc[x] \notin CommitStages
  BY <1>1, LoopFacts DEF CommitStages
<1>3. /\ pc'[t] \in {"waking", "wake_entry"}
      /\ \A x \in Threads \ {t} : pc'[x] = pc[x]
  BY <1>1, GotoType DEF IInv, Stages
<1>4. \A g \in Taken : waitee'[g] = waitee[g]
  <2>1. cur[t] \in Groups /\ error[cur[t]] \in BOOLEAN
    BY <1>1, <1>2 DEF IInv, ChainInv, At, TypeOK, EntryTypeOK
  <2> QED BY <1>1, <2>1, WalkTaken
<1>5. LocalStep(t)
  BY <1>1, <1>3, <1>4 DEF LocalStep, InQueue
<1>6. cur[t] \in K
  <2>1. PhaseOf(t, W, K)
    BY LogFacts
  <2> QED BY <1>1, <2>1 DEF PhaseOf, CommitStages
<1>7. \A x : x \notin K \ K
  OBVIOUS
<1> QED BY <1>1, <1>2, <1>3, <1>5, <1>6, <1>7, LoopLogs DEF CommitStages

(* The leader tells one entry that all is over and goes on to the next.    *)
LEMMA WakeEntryLogs ==
  ASSUME IInv, NEW t \in Threads, WakeEntry(t), NEW W, NEW K, LogsInv(W, K)
  PROVE  LogsInv(W, K)'
<1> USE Basics
<1>1. PICK x : x = cur[t]
  OBVIOUS
<1>2. /\ pc[t] = "wake_entry" /\ TypeOK /\ LocksInv /\ ChainInv
      /\ IF x = t THEN UNCHANGED <<wakeup_ready, wfcVars>>
                  ELSE Signal(x, error[x])
      /\ cur' = [cur EXCEPT ![t] = next[x]]
      /\ IF next[x] = NoThread THEN Goto(t, "returned")
                               ELSE Goto(t, "commit_entry")
      /\ UNCHANGED <<queue, todo, is_leader, queued_by_other, next, error,
                     optimize, binlog, engine, late, outcome>>
  BY <1>1 DEF WakeEntry, At, IInv, queueVars, logVars
<1>3. /\ optimize /\ x \in Threads /\ (x = t \/ Waits(x))
      /\ \A z \in Threads \ {t} : pc[z] \notin CommitStages
      /\ \A z \in Threads : Pending(z) => next[z] # x
  BY <1>1, <1>2, LoopFacts DEF CommitStages
<1>4. /\ cur \in [Threads -> Threads \cup {NoThread}]
      /\ next \in [Threads -> Threads \cup {NoThread}]
      /\ error \in [Threads -> BOOLEAN]
  BY <1>2 DEF TypeOK, EntryTypeOK
<1>5. /\ pc' \in [Threads -> Stages]
      /\ \A u \in Threads \ {t} : pc'[u] = pc[u] /\ cur'[u] = cur[u]
      /\ cur'[t] = next[x]
      /\ IF next[x] = NoThread THEN pc'[t] = "returned"
         ELSE pc'[t] = "commit_entry" /\ next[x] \in Threads
  <2>1. /\ \A u \in Threads \ {t} : cur'[u] = cur[u]
        /\ cur'[t] = next[x] /\ next[x] \in Threads \cup {NoThread}
    BY <1>2, <1>3, <1>4
  <2>2. CASE next[x] = NoThread
    BY <1>2, <2>1, <2>2, GotoType DEF Stages
  <2>3. CASE next[x] # NoThread
    BY <1>2, <2>1, <2>3, GotoType DEF Stages
  <2> QED BY <2>2, <2>3
<1>6. PICK y : y = IF x = t THEN NoThread ELSE x
  OBVIOUS
<1>7. TellStep(t, y)
  <2>1. CASE x = t
    BY <1>2, <1>5, <1>6, <2>1 DEF TellStep
  <2>2. CASE x # t
    <3>1. Waits(x) /\ Signal(x, error[x]) /\ error[x] \in BOOLEAN
      BY <1>2, <1>3, <1>4, <2>2
    <3> QED BY <1>2, <1>3, <1>5, <1>6, <2>2, <3>1 DEF TellStep
  <2> QED BY <2>1, <2>2
<1>8. /\ \A z \in Threads : /\ Waits(z)' <=> Waits(z) /\ z # y
                            /\ Called(z)' <=> Called(z) \/ (z = y /\ ~optimize)
      /\ ~Waits(t) /\ ~Called(t) /\ y # t
      /\ y \in Threads => pc[y] \in {"wait_ready", "wait_prior"}
  BY <1>7, TellLemma
<1>9. /\ \A z \in Threads \ {t, y} : /\ Fresh(z)' <=> Fresh(z)
                                     /\ Told(z)' <=> Told(z)
      /\ y \in Threads => ~Fresh(y)' /\ Told(y)'
  BY <1>7, TellPlaces
<1>10. /\ K \subseteq W /\ PhaseInv(W, K)
       /\ \A z \in Threads : PhaseOf(z, W, K) /\ ResultOf(z, W, K)
  BY LogFacts DEF LogsInv
<1>11. x \in W /\ x \in K /\ t \in K
  BY <1>1, <1>2, <1>10 DEF PhaseOf, CommitStages
<1>12. Pending(x)
  BY <1>1, <1>2, <1>3 DEF Pending, CommitStages
<1>13. ASSUME NEW z \in Threads, next[x] = z
       PROVE  z # t /\ z \in W /\ z \notin K
  <2>1. Waits(z)
    BY <1>2, <1>3, <1>12, <1>13 DEF ChainInv
  <2>2. z \notin K
    <3>1. z # x
      BY <1>3, <1>12, <1>13
    <3>2. z \in K => \E u \in Threads : pc[u] \in CommitStages /\ cur[u] = z
      BY <1>10, <2>1 DEF PhaseOf, CommitStages
    <3> QED BY <1>1, <1>3, <3>1, <3>2
  <2>3. z \in W
    <3>1. PICK of \in [Threads -> Nat], k \in Nat : GroupsInv(of, k)
      BY DEF IInv, OrderKept
    <3>2. ~\E u \in Threads : At(u, "write") /\ cur[u] = z
      <4> SUFFICES ASSUME NEW u \in Threads, At(u, "write"), cur[u] = z
                   PROVE  FALSE
        OBVIOUS
      <4>1. pc[u] \in LeaderStages /\ pc[t] \in LeaderStages /\ u # t
        BY <1>2 DEF At, LeaderStages, CommitStages
      <4>2. of[u] = of[z] /\ of[z] = of[x] /\ of[x] = of[t]
        BY <1>1, <1>3, <1>12, <1>13, <3>1, <4>1 DEF GroupsInv
      <4> QED BY <3>1, <4>1, <4>2 DEF GroupsInv
    <3>3. LinkOf(x, z, W)
      BY <1>3, <1>10, <1>12, <1>13 DEF PhaseInv
    <3> QED BY <1>11, <3>2, <3>3 DEF LinkOf
  <2> QED BY <1>8, <2>1, <2>2, <2>3
<1>14. y \in Threads => PhaseOf(y, W, K)'
  <2> SUFFICES ASSUME y \in Threads PROVE PhaseOf(y, W, K)'
    OBVIOUS
  <2>1. y = x /\ pc'[y] \in {"wait_ready", "wait_prior"} /\ ~Waits(y)'
    BY <1>5, <1>6, <1>8
  <2> QED BY <1>2, <1>3, <1>9, <1>11, <2>1 DEF PhaseOf, At, CommitStages
<1>15. /\ pc'[t] \in {"returned", "commit_entry"}
       /\ ~Fresh(t)' /\ ~Told(t)' /\ ~Waits(t)' /\ ~Pending(t)'
  <2>1. pc'[t] \in {"returned", "commit_entry"}
    BY <1>5
  <2>2. pc'[t] \in CommitStages => cur'[t] # t
    BY <1>5, <1>13 DEF CommitStages
  <2> QED BY <1>8, <2>1, <2>2
          DEF Fresh, Told, Waits, Passive, Pending, Called, TakenOver, At,
              LeaderStages, CommitStages, OwnStages
<1>16. PhaseOf(t, W, K)'
  <2>1. pc'[t] \in CommitStages => /\ pc'[t] = "commit_entry"
                                   /\ cur'[t] \in W /\ cur'[t] \notin K
    BY <1>5, <1>13 DEF CommitStages
  <2> QED BY <1>11, <1>15, <2>1 DEF PhaseOf, At
<1>17. \A z \in Threads : Pending(z)' => Pending(z)
  <2>1. \A z \in Threads \ {t} : Waits(z)' \/ Called(z)' => Waits(z) \/ Called(z)
    BY <1>3, <1>8
  <2>2. \A z \in Threads \ {t} : Pending(z)' => Pending(z)
    BY <1>5, <2>1 DEF Pending
  <2> QED BY <1>15, <2>2
<1>18. ASSUME NEW z \in Threads \ {t, y}, Waits(z)', z \in K
       PROVE  FALSE
  <2>1. Waits(z)
    BY <1>8, <1>18
  <2>2. PICK u \in Threads : pc[u] \in CommitStages /\ cur[u] = z
    BY <1>10, <1>18, <2>1 DEF PhaseOf, CommitStages
  <2>3. z = x
    BY <1>1, <1>3, <2>2
  <2> QED BY <1>6, <1>18, <2>3
<1>19. PhaseInv(W, K)'
  <2>1. \A z \in Threads \ {t} : /\ pc'[z] = pc[z] /\ cur'[z] = cur[z]
                                 /\ pc[z] \notin CommitStages
    BY <1>3, <1>5
  <2>2. \A z \in Threads \ {t, y} : /\ Fresh(z)' => Fresh(z)
                                    /\ Told(z)' => Told(z)
    BY <1>9
  <2>3. UNCHANGED <<next, optimize>> /\ "write" \notin {pc[t], pc'[t]}
    BY <1>2, <1>15
  <2>4. \A z \in K : z \in K \/ z = t \/ Waits(z)
    OBVIOUS
  <2>5. K \subseteq K
    OBVIOUS
  <2> QED BY <1>3, <1>10, <1>14, <1>16, <1>17, <1>18, <2>1, <2>2, <2>3, <2>4,
             <2>5, LoopPhase
<1>20. \A z \in Threads \ {t} : ResultOf(z, W, K)'
  BY <1>2, <1>5, <1>10, ResultSame
<1>21. ResultOf(t, W, K)'
  <2>1. outcome[t] = "none" /\ ResultOf(t, W, K)
    BY <1>2, <1>10 DEF ResultOf, EndStages
  <2> QED BY <1>2, <1>15, <2>1 DEF ResultOf, EndStages, EarlyStages
<1>22. \A z \in Threads : ResultOf(z, W, K)'
  BY <1>20, <1>21
<1> QED BY <1>19, <1>22 DEF LogsInv

(* The errors of the entries, and the syncs that fail, are decided by the  *)
(* leader that writes them; Apply() starts with a new entry.               *)
OtherSteps(t) ==
  \/ RollBack(t) \/ QueueCheck(t) \/ Enqueue(t) \/ EnqueueEntry(t)
  \/ WakeupReady(t) \/ LeaderLockLog(t) \/ LeaderAfterSync(t)
  \/ LeaderCommitLock(t) \/ LeaderNotBusy(t) \/ CommitEntry(t)
  \/ LeaderWakes(t) \/ WakeEntry(t) \/ OwnCommit(t) \/ OwnWakes(t)
  \/ OwnSignal(t) \/ Returned(t) \/ Commit(t)

LEMMA SyncFrame ==
  ASSUME NEW t, GroupStep(t) \/ OtherSteps(t)
  PROVE  UNCHANGED <<error, unsynced>>
<1> USE DEF entryVars, queueVars
<1>1. CASE \/ StartGroup(t) \/ SkipGroup(t) \/ ApplyFails(t) \/ Retry(t)
           \/ RetryRegister(t) \/ RetryWait(t) \/ Reapply(t)
  BY <1>1 DEF StartGroup, SkipGroup, ApplyFails, Retry, RetryRegister,
              RetryWait, Reapply, WaitPrior, PriorWaited
<1>2. CASE QueueReady(t) \/ QueueWoken(t) \/ QueueKilled(t) \/ LastWait(t)
  BY <1>2 DEF QueueReady, QueueWoken, QueueKilled, LastWait, PriorWaited
<1>3. CASE \/ FinishUnregister(t) \/ FinishRegister(t) \/ FinishWait(t)
           \/ FinishMark(t) \/ FinishWake(t) \/ FinishWakes(t)
  BY <1>3 DEF FinishUnregister, FinishRegister, FinishWait, FinishMark,
              FinishWake, FinishWakes, WakeupStep
<1>4. CASE \/ RollBack(t) \/ QueueCheck(t) \/ Enqueue(t) \/ EnqueueEntry(t)
           \/ WakeupReady(t)
  BY <1>4 DEF RollBack, QueueCheck, Enqueue, EnqueueEntry, WakeupReady
<1>5. CASE \/ LeaderLockLog(t) \/ LeaderAfterSync(t) \/ LeaderCommitLock(t)
           \/ LeaderNotBusy(t)
  BY <1>5 DEF LeaderLockLog, LeaderAfterSync, LeaderCommitLock, LeaderNotBusy
<1>6. CASE \/ CommitEntry(t) \/ LeaderWakes(t) \/ WakeEntry(t)
           \/ OwnCommit(t) \/ OwnWakes(t) \/ OwnSignal(t)
  BY <1>6 DEF CommitEntry, LeaderWakes, WakeEntry, OwnCommit, OwnWakes,
              OwnSignal, WakeupStep
<1>7. CASE Returned(t) \/ Commit(t)
  BY <1>7 DEF Returned, Commit
<1> QED BY <1>1, <1>2, <1>3, <1>4, <1>5, <1>6, <1>7 DEF GroupStep, OtherSteps

(* Every step keeps what is known of the logs.                             *)
LEMMA LogsNext ==
  ASSUME IInv, LogsKept, [Next]_vars
  PROVE  LogsKept'
<1> USE Basics
<1>1. PICK W \in SUBSET Threads, K \in SUBSET Threads : LogsInv(W, K) /\ FailedSync(W)
  BY DEF LogsKept
<1>2. ASSUME LogsInv(W, K)', UNCHANGED <<error, unsynced>> PROVE LogsKept'
  BY <1>1, <1>2 DEF LogsKept, FailedSync
<1>3. ASSUME NEW g \in Groups, GroupStep(g) PROVE LogsKept'
  <2> SUFFICES LogsInv(W, K)'
    BY <1>2, <1>3, SyncFrame
  <2>1. CASE StartGroup(g) \/ SkipGroup(g) \/ ApplyFails(g)
    BY <1>1, <2>1, StartGroupLogs, SkipGroupLogs, ApplyFailsLogs
  <2>2. CASE Retry(g) \/ RetryRegister(g) \/ RetryWait(g) \/ Reapply(g)
    BY <1>1, <2>2, RetryLogs, RetryRegisterLogs, RetryWaitLogs, ReapplyLogs
  <2>3. CASE QueueReady(g) \/ QueueWoken(g) \/ QueueKilled(g) \/ LastWait(g)
    BY <1>1, <2>3, QueueReadyLogs, QueueWokenLogs, QueueKilledLogs,
       LastWaitLogs
  <2>4. CASE \/ FinishUnregister(g) \/ FinishRegister(g) \/ FinishWait(g)
             \/ FinishMark(g) \/ FinishWake(g) \/ FinishWakes(g)
    BY <1>1, <2>4, FinishesLogs
  <2> QED BY <1>3, <2>1, <2>2, <2>3, <2>4 DEF GroupStep
<1>4. ASSUME NEW t \in Threads, CommitStep(t) PROVE LogsKept'
  <2>0. OtherSteps(t) => UNCHANGED <<error, unsynced>>
    BY SyncFrame
  <2>1. CASE Apply(t)
    <3>1. LogsInv(W \ {t}, K \ {t})'
      BY <1>1, <2>1, ApplyLogs
    <3>2. PICK V \in SUBSET Threads, L \in SUBSET Threads :
            V = W \ {t} /\ L = K \ {t}
      OBVIOUS
    <3>3. LogsInv(V, L)'
      BY <3>1, <3>2
    <3>4. /\ error' = [error EXCEPT ![t] = FALSE] /\ unsynced' = unsynced
          /\ error \in [Threads -> BOOLEAN]
      BY <2>1 DEF Apply, IInv, TypeOK, EntryTypeOK
    <3>5. FailedSync(V)'
      BY <1>1, <3>2, <3>4 DEF FailedSync
    <3> QED BY <3>3, <3>5 DEF LogsKept
  <2>2. CASE RollBack(t) \/ QueueCheck(t) \/ Enqueue(t) \/ EnqueueEntry(t)
             \/ WakeupReady(t)
    BY <1>1, <1>2, <2>0, <2>2, RollBackLogs, QueueCheckLogs, EnqueueLogs,
       EnqueueEntryLogs, WakeupReadyLogs DEF OtherSteps
  <2>3. CASE LeaderCollect(t)
    <3>1. /\ LogsInv(W, K)'
          /\ \A x \in Threads : Contains(queue, x) => x \notin W
      BY <1>1, <2>3, LeaderCollectLogs
    <3>2. UNCHANGED error /\ SyncResult
      BY <2>3 DEF LeaderCollect
    <3>3. \A x : x \in ToSet(queue) => Contains(queue, x)
      BY DEF ToSet, Contains
    <3>4. FailedSync(W)'
      BY <1>1, <3>1, <3>2, <3>3 DEF FailedSync, SyncResult
    <3> QED BY <3>1, <3>4 DEF LogsKept
  <2>4. CASE LeaderWrite(t)
    <3>1. PICK e \in Threads :
            /\ LogsInv(W \cup {e}, K)'
            /\ \A x \in Threads \ {e} : error'[x] = error[x]
            /\ e \in unsynced => error'[e]
      BY <1>1, <2>4, LeaderWriteLogs
    <3>2. PICK V \in SUBSET Threads : V = W \cup {e}
      OBVIOUS
    <3>3. LogsInv(V, K)'
      BY <3>1, <3>2
    <3>4. unsynced' = unsynced
      BY <2>4 DEF LeaderWrite, queueVars
    <3>5. FailedSync(V)'
      BY <1>1, <3>1, <3>2, <3>4 DEF FailedSync
    <3> QED BY <3>3, <3>5 DEF LogsKept
  <2>5. CASE \/ LeaderLockLog(t) \/ LeaderAfterSync(t) \/ LeaderCommitLock(t)
             \/ LeaderNotBusy(t)
    BY <1>1, <1>2, <2>0, <2>5, LeaderLockLogLogs, LeaderAfterSyncLogs,
       LeaderCommitLockLogs, LeaderNotBusyLogs DEF OtherSteps
  <2>6. CASE CommitEntry(t) \/ OwnCommit(t)
    <3>1. PICK e \in Threads : LogsInv(W, K \cup {e})'
      BY <1>1, <2>6, CommitEntryLogs, OwnCommitLogs
    <3>2. PICK L \in SUBSET Threads : L = K \cup {e}
      OBVIOUS
    <3>3. LogsInv(W, L)'
      BY <3>1, <3>2
    <3>4. UNCHANGED <<error, unsynced>>
      BY <2>0, <2>6 DEF OtherSteps
    <3> QED BY <1>1, <3>3, <3>4 DEF LogsKept, FailedSync
  <2>7. CASE LeaderWakes(t) \/ WakeEntry(t) \/ OwnWakes(t) \/ OwnSignal(t)
    BY <1>1, <1>2, <2>0, <2>7, LeaderWakesLogs, WakeEntryLogs, OwnWakesLogs,
       OwnSignalLogs DEF OtherSteps
  <2>8. CASE Returned(t) \/ Commit(t)
    BY <1>1, <1>2, <2>0, <2>8, ReturnedLogs, CommitLogs DEF OtherSteps
  <2> QED BY <1>4, <2>1, <2>2, <2>3, <2>4, <2>5, <2>6, <2>7, <2>8 DEF CommitStep
<1>5. CASE \/ UNCHANGED vars
           \/ \E g \in Groups, how \in {"kill", "retry"} : Kill(g, how)
  <2>1. UNCHANGED <<pc, cur, queued_by_other, wakeup_ready, waitee, queue, todo,
                    next, optimize, error, unsynced, outcome, late, binlog,
                    engine>>
    BY <1>5 DEF Kill, vars, lockVars, queueVars, entryVars, logVars, wfcVars
  <2> QED BY <1>1, <1>2, <2>1, SameLogs
<1>6. CASE \E t \in Threads : Step(t)
  BY <1>3, <1>4, <1>6 DEF Step
<1> QED BY <1>5, <1>6 DEF Next, AllDone

(* What that says of the outcomes                                          *)
LEMMA OutcomesKnown ==
  ASSUME LogsKept
  PROVE  OutcomeTrue
<1>1. PICK W, K : LogsInv(W, K) /\ FailedSync(W)
  BY DEF LogsKept
<1> SUFFICES ASSUME NEW t \in Threads \ late
             PROVE  /\ Times(engine, t) <= Times(binlog, t)
                    /\ Times(binlog, t) <= 1
                    /\ outcome[t] = "ok" => Times(engine, t) = 1
                    /\ outcome[t] = "error" => Times(binlog, t) = 0
                    /\ t \in unsynced => /\ outcome[t] # "ok"
                                         /\ Times(binlog, t) = 0
  BY DEF OutcomeTrue
<1>2. K \subseteq W /\ ResultOf(t, W, K)
  BY <1>1, LogFacts
<1>3. /\ Times(binlog, t) = IF t \in W /\ ~error[t] THEN 1 ELSE 0
      /\ Times(engine, t) = IF t \in K /\ ~error[t] THEN 1 ELSE 0
      /\ outcome[t] = "ok" => t \in K /\ ~error[t]
      /\ outcome[t] = "error" => t \notin W \/ error[t]
  BY <1>2 DEF ResultOf
<1>4. t \in W /\ t \in unsynced => error[t]
  BY <1>1 DEF FailedSync
<1> QED BY <1>2, <1>3, <1>4

LEMMA LogsInvariance == Spec => []LogsKept
<1>1. Init => LogsKept
  BY InitLogs
<1>2. IInv /\ LogsKept /\ [Next]_vars => LogsKept'
  BY LogsNext
<1> QED BY <1>1, <1>2, Invariance, PTL DEF Spec

(* A transaction that was told it is committed is once in the binary log   *)
(* and once in the engines, and one that was told it failed is in neither: *)
(* whoever ran commit_ordered() for it, whichever leader wrote it, however *)
(* often it was killed and tried again, whichever writes and syncs fail,   *)
(* and with either scheduling.  One whose group could not be synced may    *)
(* have its events in the file, but is never told it is committed, nor     *)
(* committed in an engine: to be in the binary log is to be written and    *)
(* synced.  Those whose last wait for the prior commit fails after the     *)
(* group commit are left out (NoErrorAfterLogging is violated for them).   *)
THEOREM OutcomesTrue == Spec => []OutcomeTrue
<1>1. LogsKept => OutcomeTrue
  BY OutcomesKnown
<1> QED BY <1>1, LogsInvariance, PTL
=============================================================================
