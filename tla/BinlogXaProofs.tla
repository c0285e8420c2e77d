-------------------------- MODULE BinlogXaProofs ---------------------------
(***************************************************************************)
(* Proofs about BinlogXa for every number of transactions, rotating        *)
(* sessions, files and crashes, with InnoDB as the only engine that is     *)
(* asked for commit checkpoints.                                           *)
(*                                                                         *)
(* The inductive invariant has three parts, each proved on top of the ones *)
(* before: ThreadsInv and PlacesInv (together CountsInv) follow the        *)
(* threads, the mutexes and every request on its way; CkptInv says what    *)
(* the checkpoint events may name, with RenewInv when that file is there;  *)
(* RecoveryInv what is durable when a file has no reason left.  The last   *)
(* part needs that nobody sets binlog_checksum, which rotates outside of   *)
(* the commit order.                                                       *)
(***************************************************************************)
EXTENDS BinlogXa, ListProofs

(* One engine with commit_checkpoint_request.                              *)
OneEngine == Engines = <<"InnoDB">>
----------------------------------------------------------------------------
(* Lemmas about the operators of the model.                                *)

(* A set of natural numbers that is not empty has a least element.         *)
LEMMA LeastNumber ==
  ASSUME NEW S \in SUBSET Nat, S # {}
  PROVE  \E n \in S : \A k \in S : n <= k
<1> DEFINE R == {ss \in Nat \X Nat : ss[1] < ss[2]}
<1>1. IsWellFoundedOn(R, Nat)
  BY NatLessThanWellFounded DEF OpToRel
<1>2. IsWellFoundedOn(R, S)
  BY <1>1, IsWellFoundedOnSubset
<1> HIDE DEF R
<1>3. PICK x \in S : \A y \in S : ~(<<y, x>> \in R)
  BY <1>2, WFMin
<1>4. ASSUME NEW k \in S PROVE x <= k
  <2>1. x \in Nat /\ k \in Nat
    OBVIOUS
  <2>2. k < x => <<k, x>> \in R
    BY <2>1 DEF R
  <2> QED BY <2>1, <2>2, <1>3
<1> QED BY <1>3, <1>4

(* FiniteSetsExt's Min and Max of a set of numbers with a least and a      *)
(* greatest element.                                                       *)
LEMMA MinNumber ==
  ASSUME NEW S \in SUBSET Nat, S # {}
  PROVE  Min(S) \in S /\ \A k \in S : Min(S) <= k
BY LeastNumber DEF Min

(* The greatest element of a set is what Max() chooses.                    *)
LEMMA MaxNumber ==
  ASSUME NEW S \in SUBSET Nat, NEW n \in S, \A k \in S : k <= n
  PROVE  Max(S) = n
<1>1. n \in Nat /\ \A y \in S : y \in Nat /\ n >= y
  OBVIOUS
<1>2. Max(S) \in S /\ \A y \in S : Max(S) >= y
  BY <1>1 DEF Max
<1>3. Max(S) \in Nat /\ Max(S) >= n /\ n >= Max(S)
  BY <1>1, <1>2
<1> QED BY <1>1, <1>3

(* A list of consecutive files that ends with file c.                      *)
UpTo(s, c) == \A i \in DOMAIN s : s[i] = c - Len(s) + i

(* The files in a list that goes up to c: consecutive, from its head on.   *)
LEMMA UpToElements ==
  ASSUME NEW c \in Files, NEW s \in Seq(Files), s # <<>>, UpTo(s, c)
  PROVE  /\ Head(s) = c - Len(s) + 1 /\ Head(s) <= c /\ Head(s) \in Files
         /\ \A f \in Nat : Contains(s, f) <=> Head(s) <= f /\ f <= c
<1>1. /\ Len(s) \in Nat /\ Len(s) >= 1 /\ DOMAIN s = 1 .. Len(s)
      /\ Head(s) = s[1] /\ 1 \in DOMAIN s /\ c \in Nat
  BY DEF Files
<1>2. Head(s) = c - Len(s) + 1 /\ Head(s) <= c /\ Head(s) \in Files
  BY <1>1 DEF UpTo
<1>3. ASSUME NEW f \in Nat, Contains(s, f) PROVE Head(s) <= f /\ f <= c
  BY <1>1, <1>2, <1>3 DEF UpTo, Contains
<1>4. ASSUME NEW f \in Nat, Head(s) <= f, f <= c PROVE Contains(s, f)
  <2>1. f - c + Len(s) \in DOMAIN s
    BY <1>1, <1>2, <1>4
  <2>2. s[f - c + Len(s)] = f
    BY <1>1, <2>1 DEF UpTo
  <2> QED BY <1>1, <2>1, <2>2 DEF Contains
<1> QED BY <1>2, <1>3, <1>4

(* Linked(), Trimmed(), InitialCheckpoint(): what is left of the list when *)
(* leading entries go.                                                     *)
LEMMA LeadingRemoved ==
  ASSUME NEW c \in Files, NEW s \in Seq(Files), s # <<>>, UpTo(s, c), NEW U,
         NEW w, w = WithoutLeading(s, U)
  PROVE  /\ w \in Seq(Files) /\ UpTo(w, c) /\ Len(w) <= Len(s)
         /\ w = <<>> => \A f \in Files : Head(s) <= f /\ f <= c => f \in U
         /\ w # <<>> =>
              /\ Head(w) \in Files /\ Head(w) \notin U
              /\ Head(s) <= Head(w) /\ Head(w) <= c
              /\ \A f \in Files : Head(s) <= f /\ f < Head(w) => f \in U
<1> DEFINE used == {i \in DOMAIN s : s[i] \notin U}
<1>1. /\ Len(s) \in Nat /\ Len(s) >= 1 /\ DOMAIN s = 1 .. Len(s) /\ c \in Nat
      /\ Head(s) = c - Len(s) + 1 /\ Files \subseteq Nat
  BY UpToElements DEF Files
<1>2. CASE used = {}
  <2>1. w = <<>>
    BY <1>2 DEF WithoutLeading
  <2>2. ASSUME NEW f \in Files, Head(s) <= f, f <= c PROVE f \in U
    <3>1. PICK i \in 1 .. Len(s) : s[i] = f
      BY <2>2, <1>1, UpToElements DEF Contains
    <3> QED BY <3>1, <1>1, <1>2
  <2> QED BY <2>1, <2>2, <1>1 DEF UpTo
<1>3. CASE used # {}
  <2>0. used \in SUBSET Nat
    BY <1>1
  <2>1. PICK k \in used : \A j \in used : k <= j
    BY <2>0, <1>3, LeastNumber
  <2>2. (CHOOSE i \in used : \A j \in used : i <= j) = k
    BY <2>1, <1>1
  <2>3. w = SubSeq(s, k, Len(s))
    BY <1>3, <2>2 DEF WithoutLeading
  <2>4. k \in 1 .. Len(s) /\ s[k] \notin U /\ s[k] \in Files
    BY <2>1, <1>1
  <2>5. /\ w \in Seq(Files) /\ Len(w) = Len(s) - k + 1
        /\ \A i \in 1 .. Len(s) - k + 1 : w[i] = s[k + i - 1]
    BY <2>3, <2>4, <1>1
  <2>6. UpTo(w, c)
    <3> SUFFICES ASSUME NEW i \in 1 .. Len(s) - k + 1 PROVE w[i] = c - Len(w) + i
      BY <2>4, <2>5, <1>1 DEF UpTo
    <3>1. k + i - 1 \in 1 .. Len(s) /\ w[i] = s[k + i - 1]
      BY <2>4, <2>5, <1>1
    <3>2. s[k + i - 1] = c - Len(s) + (k + i - 1)
      BY <3>1, <1>1 DEF UpTo
    <3>3. /\ Len(w) = Len(s) - k + 1 /\ Len(s) \in Nat /\ c \in Nat /\ k \in Nat /\ i \in Nat
      BY <2>4, <2>5, <1>1
    <3> QED BY <3>1, <3>2, <3>3
  <2>7. w # <<>> /\ Head(w) = s[k] /\ Head(w) = c - Len(s) + k
    <3>1. 1 \in 1 .. Len(s) - k + 1 /\ k + 1 - 1 = k
      BY <2>4, <1>1
    <3>2. w[1] = s[k] /\ w # <<>> /\ Head(w) = w[1]
      BY <3>1, <2>5
    <3>3. s[k] = c - Len(s) + k
      BY <2>4, <1>1 DEF UpTo
    <3> QED BY <3>2, <3>3
  <2>8. ASSUME NEW f \in Files, Head(s) <= f, f < Head(w) PROVE f \in U
    <3>1. f - c + Len(s) \in 1 .. Len(s) /\ f - c + Len(s) < k
      BY <2>4, <2>7, <2>8, <1>1
    <3>2. s[f - c + Len(s)] = f
      <4>1. f \in Nat
        BY <1>1
      <4>2. s[f - c + Len(s)] = c - Len(s) + (f - c + Len(s))
        BY <3>1, <1>1 DEF UpTo
      <4> QED BY <4>1, <4>2, <1>1
    <3>3. f - c + Len(s) \notin used
      BY <3>1, <2>1, <1>1
    <3> QED BY <3>1, <3>2, <3>3, <1>1
  <2> QED BY <2>4, <2>5, <2>6, <2>7, <2>8, <1>1
<1> QED BY <1>2, <1>3

(* The entries that the links lead to.                                     *)
LEMMA ReachNothing == ASSUME NEW link PROVE Reach(link, NoFile) = {}
<1>1. {} \in SUBSET Files
  OBVIOUS
<1>2. SUFFICES ASSUME NEW g \in Reach(link, NoFile) PROVE FALSE
  OBVIOUS
<1>3. g \in {}
  BY <1>1, <1>2 DEF Reach
<1> QED BY <1>3

(* What can be reached is in the files, holds the start and is closed      *)
(* under the links.                                                        *)
LEMMA ReachClosed ==
  ASSUME NEW link \in [Files -> Files \cup {NoFile}], NEW f \in Files \cup {NoFile}
  PROVE  /\ Reach(link, f) \subseteq Files
         /\ f \in Reach(link, f) \cup {NoFile}
         /\ \A h \in Reach(link, f) : link[h] \in Reach(link, f) \cup {NoFile}
<1>1. Reach(link, f) \subseteq Files
  BY DEF Reach
<1>2. ASSUME f # NoFile PROVE f \in Reach(link, f)
  BY <1>2 DEF Reach
<1>3. ASSUME NEW h \in Reach(link, f), link[h] # NoFile
      PROVE  link[h] \in Reach(link, f)
  <2>1. h \in Files /\ link[h] \in Files
    BY <1>1, <1>3
  <2>2. ASSUME NEW S \in SUBSET Files, f \in S \cup {NoFile},
               \A g \in S : link[g] \in S \cup {NoFile}
        PROVE  link[h] \in S
    <3>1. h \in S
      BY <2>2, <1>3 DEF Reach
    <3> QED BY <3>1, <2>2, <1>3
  <2> QED BY <2>1, <2>2 DEF Reach
<1> QED BY <1>1, <1>2, <1>3

(* It is the least such set.                                               *)
LEMMA ReachLeast ==
  ASSUME NEW link, NEW f, NEW S \in SUBSET Files, f \in S \cup {NoFile},
         \A h \in S : link[h] \in S \cup {NoFile}
  PROVE  Reach(link, f) \subseteq S
BY DEF Reach

(* It is the start and what can be reached from its successor.             *)
LEMMA ReachStep ==
  ASSUME NEW link \in [Files -> Files \cup {NoFile}], NEW f \in Files
  PROVE  Reach(link, f) = {f} \cup Reach(link, link[f])
<1> DEFINE A == Reach(link, f)
           B == Reach(link, link[f])
<1>0. link[f] \in Files \cup {NoFile} /\ NoFile \notin Files
  BY DEF NoFile, Files
<1>1. /\ A \subseteq Files /\ f \in A
      /\ \A h \in A : link[h] \in A \cup {NoFile}
  BY <1>0, ReachClosed
<1>2. /\ B \subseteq Files /\ link[f] \in B \cup {NoFile}
      /\ \A h \in B : link[h] \in B \cup {NoFile}
  BY <1>0, ReachClosed
<1> HIDE DEF A, B
<1>3. B \subseteq A
  <2>1. Reach(link, link[f]) \subseteq A
    BY <1>1, ReachLeast
  <2> QED BY <2>1 DEF B
<1>4. A \subseteq {f} \cup B
  <2> DEFINE S == {f} \cup B
  <2>1. S \in SUBSET Files /\ f \in S \cup {NoFile}
    BY <1>2
  <2>2. \A h \in S : link[h] \in S \cup {NoFile}
    BY <1>2
  <2>3. Reach(link, f) \subseteq S
    BY <2>1, <2>2, ReachLeast
  <2> QED BY <2>3 DEF A
<1> QED BY <1>1, <1>3, <1>4 DEF A, B

(* A link from a file that is not reached does not matter.                 *)
LEMMA ReachFrame ==
  ASSUME NEW link \in [Files -> Files \cup {NoFile}], NEW f \in Files \cup {NoFile},
         NEW h \in Files, NEW x \in Files \cup {NoFile}, h \notin Reach(link, f)
  PROVE  Reach([link EXCEPT ![h] = x], f) = Reach(link, f)
<1> DEFINE link2 == [link EXCEPT ![h] = x]
           A == Reach(link, f)
           B == Reach(link2, f)
<1>1. link2 \in [Files -> Files \cup {NoFile}] /\ \A g \in Files : g # h => link2[g] = link[g]
  OBVIOUS
<1> HIDE DEF link2
<1>2. /\ A \subseteq Files /\ f \in A \cup {NoFile} /\ h \notin A
      /\ \A g \in A : link[g] \in A \cup {NoFile}
  BY ReachClosed
<1>3. /\ B \subseteq Files /\ f \in B \cup {NoFile}
      /\ \A g \in B : link2[g] \in B \cup {NoFile}
  BY <1>1, ReachClosed
<1> HIDE DEF A, B
<1>4. B \subseteq A
  <2>1. \A g \in A : link2[g] \in A \cup {NoFile}
    BY <1>1, <1>2
  <2>2. Reach(link2, f) \subseteq A
    BY <1>2, <2>1, ReachLeast
  <2> QED BY <2>2 DEF B
<1>5. A \subseteq B
  <2>1. \A g \in B : link[g] \in B \cup {NoFile}
    BY <1>1, <1>2, <1>3, <1>4
  <2>2. Reach(link, f) \subseteq B
    BY <1>3, <2>1, ReachLeast
  <2> QED BY <2>2 DEF A
<1> QED BY <1>4, <1>5 DEF A, B, link2

(* open(): the list with the new file's entry.                             *)
LEMMA LinkedList ==
  ASSUME current_binlog_id \in Files, current_binlog_id + 1 \in Files,
         binlog_xid_count_list \in Seq(Files), binlog_xid_count_list # <<>>,
         UpTo(binlog_xid_count_list, current_binlog_id),
         Linked(current_binlog_id + 1)
  PROVE  /\ binlog_xid_count_list' \in Seq(Files) /\ binlog_xid_count_list' # <<>>
         /\ UpTo(binlog_xid_count_list', current_binlog_id + 1)
         /\ Head(binlog_xid_count_list) <= Head(binlog_xid_count_list')
         /\ Head(binlog_xid_count_list') <= current_binlog_id + 1
         /\ Head(binlog_xid_count_list') \in Files
         /\ \A f \in Files : /\ Head(binlog_xid_count_list) <= f
                             /\ f < Head(binlog_xid_count_list')
                             => xid_count[f] = 0
         /\ Head(binlog_xid_count_list') <= current_binlog_id =>
              xid_count[Head(binlog_xid_count_list')] # 0
<1> DEFINE c == current_binlog_id
           s == binlog_xid_count_list
           U == {f \in Files : xid_count[f] = 0}
           w == WithoutLeading(s, U)
           n == binlog_xid_count_list'
<1>1. /\ w \in Seq(Files) /\ UpTo(w, c)
      /\ w = <<>> => \A f \in Files : Head(s) <= f /\ f <= c => f \in U
      /\ w # <<>> => /\ Head(w) \in Files /\ Head(w) \notin U
                     /\ Head(s) <= Head(w) /\ Head(w) <= c
                     /\ \A f \in Files : Head(s) <= f /\ f < Head(w) => f \in U
  BY LeadingRemoved
<1>2. n = Append(w, c + 1)
  BY DEF Linked
<1>3. /\ Head(s) \in Files /\ Head(s) \in Nat /\ Head(s) <= c /\ c \in Nat
      /\ \A f \in Files : f \in Nat
  BY UpToElements DEF Files
<1>u. \A f \in Files : f \in U <=> xid_count[f] = 0
  OBVIOUS
<1> HIDE DEF w, U
<1>4. /\ n \in Seq(Files) /\ Len(n) = Len(w) + 1 /\ n # <<>> /\ Len(w) \in Nat
      /\ DOMAIN n = 1 .. Len(w) + 1 /\ DOMAIN w = 1 .. Len(w)
      /\ \A i \in 1 .. Len(w) : n[i] = w[i]
      /\ n[Len(w) + 1] = c + 1
      /\ w = <<>> => Head(n) = c + 1
      /\ w # <<>> => Head(n) = Head(w)
  BY <1>1, <1>2
<1>5. UpTo(n, c + 1)
  <2> SUFFICES ASSUME NEW i \in 1 .. Len(w) + 1 PROVE n[i] = (c + 1) - Len(n) + i
    BY <1>4 DEF UpTo
  <2>1. CASE i \in 1 .. Len(w)
    <3>1. n[i] = c - Len(w) + i
      BY <2>1, <1>1, <1>4 DEF UpTo
    <3> QED BY <3>1, <1>3, <1>4
  <2>2. CASE i = Len(w) + 1
    BY <2>2, <1>3, <1>4
  <2> QED BY <2>1, <2>2, <1>4
<1>6. CASE w = <<>>
  <2>1. \A f \in Files : Head(s) <= f /\ f < Head(n) => f \in U
    BY <1>1, <1>3, <1>4, <1>6
  <2>2. Head(n) = c + 1 /\ ~(Head(n) <= c) /\ Head(s) <= Head(n)
    BY <1>3, <1>4, <1>6
  <2> QED BY <2>1, <2>2, <1>3, <1>4, <1>5, <1>u
<1>7. CASE w # <<>>
  <2>1. Head(n) = Head(w)
    BY <1>4, <1>7
  <2>2. Head(n) <= c + 1
    <3>1. Head(w) \in Nat /\ Head(w) <= c
      BY <1>1, <1>3, <1>7
    <3> QED BY <3>1, <2>1, <1>3
  <2> QED BY <2>1, <2>2, <1>1, <1>4, <1>5, <1>7, <1>u
<1> QED BY <1>6, <1>7

(* mark_xid_done(): the list without the entries that nobody needs.        *)
LEMMA TrimmedList ==
  ASSUME current_binlog_id \in Files,
         binlog_xid_count_list \in Seq(Files), binlog_xid_count_list # <<>>,
         UpTo(binlog_xid_count_list, current_binlog_id),
         Trimmed
  PROVE  /\ binlog_xid_count_list' \in Seq(Files) /\ binlog_xid_count_list' # <<>>
         /\ UpTo(binlog_xid_count_list', current_binlog_id)
         /\ Head(binlog_xid_count_list) <= Head(binlog_xid_count_list')
         /\ Head(binlog_xid_count_list') <= current_binlog_id
         /\ Head(binlog_xid_count_list') \in Files
         /\ \A f \in Files : /\ Head(binlog_xid_count_list) <= f
                             /\ f < Head(binlog_xid_count_list')
                             => xid_count[f] = 0
         /\ \/ Head(binlog_xid_count_list') = current_binlog_id
            \/ xid_count[Head(binlog_xid_count_list')] # 0
<1> DEFINE c == current_binlog_id
           s == binlog_xid_count_list
           U == {f \in Files \ {c} : xid_count[f] = 0}
           w == WithoutLeading(s, U)
<1>1. /\ w \in Seq(Files) /\ UpTo(w, c)
      /\ w = <<>> => \A f \in Files : Head(s) <= f /\ f <= c => f \in U
      /\ w # <<>> => /\ Head(w) \in Files /\ Head(w) \notin U
                     /\ Head(s) <= Head(w) /\ Head(w) <= c
                     /\ \A f \in Files : Head(s) <= f /\ f < Head(w) => f \in U
  BY LeadingRemoved
<1>2. binlog_xid_count_list' = w
  BY DEF Trimmed
<1>3. Head(s) <= c /\ c \in Nat
  BY UpToElements DEF Files
<1>4. /\ c \notin U /\ \A f \in U : xid_count[f] = 0
      /\ \A f \in Files : f \notin U => f = c \/ xid_count[f] # 0
  OBVIOUS
<1> HIDE DEF w, U
<1>5. w # <<>>
  BY <1>1, <1>3, <1>4
<1> QED BY <1>1, <1>2, <1>4, <1>5

(* open(): the file that the new one's checkpoint event names.             *)
LEMMA InitialCheckpointNamed ==
  ASSUME current_binlog_id \in Files,
         binlog_xid_count_list \in Seq(Files), binlog_xid_count_list # <<>>,
         UpTo(binlog_xid_count_list, current_binlog_id),
         NEW count, NEW n, n = InitialCheckpoint(count, current_binlog_id + 1)
  PROVE  /\ n \in Nat /\ Head(binlog_xid_count_list) <= n
         /\ n <= current_binlog_id + 1
         /\ \A f \in Files : Head(binlog_xid_count_list) <= f /\ f < n => count[f] = 0
         /\ count[current_binlog_id] # 0 => n <= current_binlog_id
<1> DEFINE c == current_binlog_id
           s == binlog_xid_count_list
           U == {f \in Files : count[f] = 0}
           w == WithoutLeading(s, U)
<1>1. /\ w = <<>> => \A f \in Files : Head(s) <= f /\ f <= c => f \in U
      /\ w # <<>> => /\ Head(w) \in Files /\ Head(w) \notin U
                     /\ Head(s) <= Head(w) /\ Head(w) <= c
                     /\ \A f \in Files : Head(s) <= f /\ f < Head(w) => f \in U
  BY LeadingRemoved
<1>2. n = IF w = <<>> THEN c + 1 ELSE Head(w)
  BY DEF InitialCheckpoint
<1>3. /\ Head(s) \in Files /\ Head(s) \in Nat /\ Head(s) <= c /\ c \in Nat
      /\ \A f \in Files : f \in Nat
  BY UpToElements DEF Files
<1>4. \A f \in U : count[f] = 0
  OBVIOUS
<1> HIDE DEF w, U
<1>5. CASE w = <<>>
  <2>1. \A f \in Files : f < c + 1 => f <= c
    BY <1>3
  <2>2. n = c + 1 /\ n \in Nat /\ Head(s) <= n
    BY <1>2, <1>3, <1>5
  <2>3. c \in U
    BY <1>1, <1>3, <1>5
  <2> QED BY <1>1, <1>4, <1>5, <2>1, <2>2, <2>3
<1>6. CASE w # <<>>
  BY <1>1, <1>2, <1>3, <1>4, <1>6
<1> QED BY <1>5, <1>6
(* From an entry of the queue on, the links stay in the queue.             *)
LEMMA ReachWithin ==
  ASSUME NEW link \in [Files -> Files \cup {NoFile}], NEW f \in Files \cup {NoFile},
         NEW g \in Reach(link, f)
  PROVE  Reach(link, link[g]) \subseteq Reach(link, f)
<1>1. /\ Reach(link, f) \in SUBSET Files
      /\ \A h \in Reach(link, f) : link[h] \in Reach(link, f) \cup {NoFile}
  BY ReachClosed
<1> QED BY <1>1, ReachLeast


(* A bounded set of natural numbers has a greatest element.                *)
LEMMA GreatestNumber ==
  ASSUME NEW S \in SUBSET Nat, S # {}, NEW b \in Nat, \A k \in S : k <= b
  PROVE  \E n \in S : \A k \in S : k <= n
<1> DEFINE D == {b - k : k \in S}
<1>1. D \in SUBSET Nat /\ D # {}
  <2>1. \A k \in S : k \in Nat /\ b - k \in Nat
    OBVIOUS
  <2>2. PICK k \in S : TRUE
    OBVIOUS
  <2>3. b - k \in D
    BY <2>2
  <2> QED BY <2>1, <2>3
<1>2. PICK d \in D : \A e \in D : d <= e
  BY <1>1, LeastNumber
<1>3. PICK n \in S : d = b - n
  BY <1>2
<1>4. ASSUME NEW k \in S PROVE k <= n
  <2>1. b - k \in D /\ k \in Nat /\ n \in Nat
    OBVIOUS
  <2>2. b - n <= b - k
    BY <2>1, <1>2, <1>3
  <2> QED BY <2>1, <2>2
<1> QED BY <1>3, <1>4

(* log_flush_notify_and_unlock(): the requests that are detached are the   *)
(* first ones of the list, and all of them are satisfied.                  *)
LEMMA SatisfiedPrefix ==
  ASSUME NEW list \in Seq(Requests), NEW to
  PROVE  /\ Satisfied(list, to) \in 0 .. Len(list)
         /\ \A i \in 1 .. Satisfied(list, to) : list[i].lsn <= to
<1> DEFINE I == {0} \cup {i \in DOMAIN list : \A j \in 1 .. i : list[j].lsn <= to}
<1>1. I \in SUBSET Nat /\ I # {} /\ Len(list) \in Nat /\ \A i \in I : i <= Len(list)
  OBVIOUS
<1>2. PICK n \in I : \A k \in I : k <= n
  BY <1>1, GreatestNumber
<1>3. Satisfied(list, to) = n
  BY <1>1, <1>2, MaxNumber DEF Satisfied
<1>4. n \in 0 .. Len(list) /\ \A i \in 1 .. n : list[i].lsn <= to
  BY <1>2
<1> QED BY <1>3, <1>4

(* The first n requests of a list have been detached.                      *)
FirstDetached(n, t, list, to, own) ==
  /\ \A i \in 1 .. n : list[i].lsn <= to
  /\ log_requests' \in Seq(Requests) /\ Len(log_requests') = Len(list) - n
  /\ \A i \in 1 .. Len(list) - n : log_requests'[i] = list[n + i]
  /\ notifying' \in [Threads -> Seq(Files)]
  /\ \A u \in Threads : u # t => notifying'[u] = notifying[u]
  /\ Len(notifying'[t]) = n + Len(own)
  /\ \A i \in 1 .. n : notifying'[t][i] = list[i].cookie
  /\ \A i \in 1 .. Len(own) : notifying'[t][n + i] = own[i]

(* What log_flush_notify() detaches goes, in order, to the notifying       *)
(* thread; the other threads keep theirs.                                  *)
LEMMA DetachedLists ==
  ASSUME notifying \in [Threads -> Seq(Files)], NEW t \in Threads,
         NEW list \in Seq(Requests), NEW to, NEW own \in Seq(Files),
         Detached(t, list, to, own)
  PROVE  \E n \in 0 .. Len(list) : FirstDetached(n, t, list, to, own)
<1>1. PICK n \in 0 .. Len(list) :
        n = Satisfied(list, to) /\ \A i \in 1 .. n : list[i].lsn <= to
  BY SatisfiedPrefix
<1>2. Len(list) \in Nat /\ \A i \in 1 .. Len(list) : list[i] \in Requests
  OBVIOUS
<1>3. /\ log_requests' = SubSeq(list, n + 1, Len(list))
      /\ notifying' = [notifying EXCEPT ![t] = [i \in 1 .. n |-> list[i].cookie] \o own]
  BY <1>1 DEF Detached
<1>4. /\ log_requests' \in Seq(Requests) /\ Len(log_requests') = Len(list) - n
      /\ \A i \in 1 .. Len(list) - n : log_requests'[i] = list[n + i]
  BY <1>2, <1>3
<1> DEFINE a == [i \in 1 .. n |-> list[i].cookie]
<1>5. a \in Seq(Files) /\ Len(a) = n /\ \A i \in 1 .. n : a[i] = list[i].cookie
  BY <1>2 DEF Requests
<1> HIDE DEF a
<1>6. /\ a \o own \in Seq(Files) /\ Len(a \o own) = n + Len(own)
      /\ \A i \in 1 .. n : (a \o own)[i] = list[i].cookie
      /\ \A i \in 1 .. Len(own) : (a \o own)[n + i] = own[i]
  <2>1. Len(own) \in Nat /\ n \in Nat /\ a \o own \in Seq(Files)
    BY <1>5, ConcatList
  <2>2. Len(a \o own) = n + Len(own)
    <3>1. Len(a \o own) = Len(a) + Len(own)
      BY <1>5, ConcatProperties
    <3> QED BY <3>1, <1>5
  <2>3. \A i \in 1 .. Len(a) + Len(own) :
          (a \o own)[i] = IF i <= Len(a) THEN a[i] ELSE own[i - Len(a)]
    BY <1>5
  <2>4. ASSUME NEW i \in 1 .. n PROVE (a \o own)[i] = list[i].cookie
    BY <2>1, <2>3, <1>5
  <2>5. ASSUME NEW i \in 1 .. Len(own) PROVE (a \o own)[n + i] = own[i]
    BY <2>1, <2>3, <1>5
  <2> QED BY <2>1, <2>2, <2>4, <2>5
<1>7. notifying' = [notifying EXCEPT ![t] = a \o own]
  BY <1>3 DEF a
<1> HIDE DEF Requests
<1>8. /\ notifying' \in [Threads -> Seq(Files)] /\ notifying'[t] = a \o own
      /\ \A u \in Threads : u # t => notifying'[u] = notifying[u]
  BY <1>6, <1>7
<1>9. FirstDetached(n, t, list, to, own)
  BY <1>1, <1>4, <1>6, <1>8 DEF FirstDetached
<1> QED BY <1>9

(* D holds the files of the requests that have been detached.              *)
DetachedFiles(D, t, list, to, own) ==
  /\ \A f \in Files : f \in D <=> Contains(notifying'[t], f)
  /\ \A f \in Files : Contains(own, f) => f \in D
  /\ \A f \in D : Contains(own, f) \/ \E i \in DOMAIN list : list[i].cookie = f
  /\ \A i \in DOMAIN list : list[i].cookie \in D => list[i].lsn <= to
  /\ \A i \in DOMAIN list : list[i].cookie \notin D =>
       \E j \in DOMAIN log_requests' : log_requests'[j] = list[i]
  /\ \A j \in DOMAIN log_requests' :
       \E i \in DOMAIN list : log_requests'[j] = list[i] /\ list[i].cookie \notin D
  /\ \A i, j \in DOMAIN log_requests' :
       log_requests'[i].cookie = log_requests'[j].cookie => i = j
  /\ IsInjective(notifying'[t])
  /\ \A u \in Threads : u # t => notifying'[u] = notifying[u]

(* The requests that are detached, as the set of their files.              *)
LEMMA DetachedRequests ==
  ASSUME notifying \in [Threads -> Seq(Files)], NEW t \in Threads,
         NEW list \in Seq(Requests), NEW to, NEW own \in Seq(Files), IsInjective(own),
         \A i, j \in DOMAIN list : list[i].cookie = list[j].cookie => i = j,
         \A i \in DOMAIN list : ~Contains(own, list[i].cookie),
         Detached(t, list, to, own)
  PROVE  \E D \in SUBSET Files : DetachedFiles(D, t, list, to, own)
<1>0. PICK n \in 0 .. Len(list) : FirstDetached(n, t, list, to, own)
  BY DetachedLists
<1>1. /\ \A i \in 1 .. n : list[i].lsn <= to
      /\ log_requests' \in Seq(Requests) /\ Len(log_requests') = Len(list) - n
      /\ \A i \in 1 .. Len(list) - n : log_requests'[i] = list[n + i]
      /\ notifying' \in [Threads -> Seq(Files)]
      /\ \A u \in Threads : u # t => notifying'[u] = notifying[u]
      /\ Len(notifying'[t]) = n + Len(own)
      /\ \A i \in 1 .. n : notifying'[t][i] = list[i].cookie
      /\ \A i \in 1 .. Len(own) : notifying'[t][n + i] = own[i]
  BY <1>0 DEF FirstDetached
<1>a. PICK r : r = log_requests'
  OBVIOUS
<1>b. PICK s : s = notifying'[t]
  OBVIOUS
<1>c. PICK k \in Nat : k = Len(list)
  OBVIOUS
<1>e. PICK m \in Nat : m = Len(own)
  OBVIOUS
<1>2. /\ r = log_requests' /\ s = notifying'[t] /\ k = Len(list) /\ m = Len(own)
      /\ r \in Seq(Requests) /\ s \in Seq(Files)
      /\ DOMAIN r = 1 .. k - n /\ Len(s) = n + m /\ DOMAIN s = 1 .. n + m
      /\ DOMAIN list = 1 .. k /\ DOMAIN own = 1 .. m /\ n \in Nat /\ n <= k
  <2>1. Len(list) \in Nat /\ Len(own) \in Nat /\ n \in Nat /\ n <= Len(list)
        /\ DOMAIN list = 1 .. Len(list) /\ DOMAIN own = 1 .. Len(own)
    OBVIOUS
  <2>2. notifying'[t] \in Seq(Files)
    BY <1>1
  <2>3. DOMAIN log_requests' = 1 .. Len(list) - n
    BY <1>1
  <2>4. DOMAIN notifying'[t] = 1 .. n + Len(own)
    BY <1>1, <2>2
  <2> QED BY <1>1, <1>a, <1>b, <1>c, <1>e, <2>1, <2>2, <2>3, <2>4
<1>3. /\ \A i \in 1 .. k : list[i] \in Requests /\ list[i].cookie \in Files
      /\ \A i \in 1 .. m : own[i] \in Files
  <2>1. \A i \in 1 .. k : list[i] \in Requests
    BY <1>2
  <2>2. \A i \in 1 .. k : list[i].cookie \in Files
    BY <2>1 DEF Requests
  <2>3. \A i \in 1 .. m : own[i] \in Files
    BY <1>2
  <2> QED BY <2>1, <2>2, <2>3
<1>4. /\ \A i \in 1 .. n : s[i] = list[i].cookie /\ i \in 1 .. k
      /\ \A i \in 1 .. m : s[n + i] = own[i] /\ n + i \in 1 .. n + m
      /\ \A i \in 1 .. k - n : r[i] = list[n + i] /\ n + i \in 1 .. k
      /\ \A i \in 1 .. n + m : i \in 1 .. n \/ (i - n \in 1 .. m /\ n + (i - n) = i)
      /\ \A i \in 1 .. k : i \in 1 .. n \/ (i - n \in 1 .. k - n /\ n + (i - n) = i)
      /\ \A i \in 1 .. n : i \in 1 .. n + m
      /\ \A i, j \in 1 .. m : n + i = n + j => i = j
  BY <1>1, <1>2
<1>5. /\ \A i, j \in 1 .. k : list[i].cookie = list[j].cookie => i = j
      /\ \A i, j \in 1 .. m : own[i] = own[j] => i = j
      /\ \A i \in 1 .. k, j \in 1 .. m : own[j] # list[i].cookie
  BY <1>2 DEF IsInjective, Contains
<1>6. PICK D : D = {list[i].cookie : i \in 1 .. n} \cup {own[i] : i \in 1 .. m}
  OBVIOUS
<1>7. D \subseteq Files
  BY <1>3, <1>4, <1>6
<1>8. \A f \in Files : f \in D <=> \E i \in 1 .. n + m : s[i] = f
  <2>1. ASSUME NEW i \in 1 .. n + m PROVE s[i] \in D
    <3>1. CASE i \in 1 .. n
      <4>1. s[i] = list[i].cookie
        BY <3>1, <1>4
      <4>2. list[i].cookie \in {list[j].cookie : j \in 1 .. n}
        BY <3>1, Zenon
      <4> QED BY <4>1, <4>2, <1>6
    <3>2. CASE i - n \in 1 .. m /\ n + (i - n) = i
      <4>1. s[n + (i - n)] = own[i - n]
        BY <3>2, <1>4
      <4> QED BY <3>2, <4>1, <1>6
    <3> QED BY <3>1, <3>2, <1>4
  <2>2. ASSUME NEW f \in D PROVE \E i \in 1 .. n + m : s[i] = f
    <3>1. CASE \E i \in 1 .. n : f = list[i].cookie
      BY <3>1, <1>4
    <3>2. CASE \E i \in 1 .. m : f = own[i]
      <4>1. PICK i \in 1 .. m : f = own[i]
        BY <3>2
      <4>2. s[n + i] = own[i] /\ n + i \in 1 .. n + m
        BY <1>4
      <4> QED BY <4>1, <4>2
    <3> QED BY <2>2, <1>6, <3>1, <3>2
  <2> QED BY <2>1, <2>2
<1>9. \A f \in Files : Contains(notifying'[t], f) <=> \E i \in 1 .. n + m : s[i] = f
  BY <1>2 DEF Contains
<1>10. \A f : Contains(own, f) <=> \E i \in 1 .. m : own[i] = f
  BY <1>2 DEF Contains
<1>11. \A f \in D : Contains(own, f) \/ \E i \in 1 .. k : list[i].cookie = f
  BY <1>4, <1>6, <1>10
<1>12. \A i \in 1 .. k : list[i].cookie \in D <=> i \in 1 .. n
  BY <1>4, <1>5, <1>6
<1>13. ASSUME NEW i \in 1 .. k, list[i].cookie \notin D
       PROVE  \E j \in 1 .. k - n : r[j] = list[i]
  <2>1. i - n \in 1 .. k - n /\ n + (i - n) = i
    BY <1>4, <1>12, <1>13
  <2>2. r[i - n] = list[n + (i - n)]
    BY <2>1, <1>4
  <2> QED BY <2>1, <2>2
<1>14. ASSUME NEW j \in 1 .. k - n
       PROVE  r[j] = list[n + j] /\ n + j \in 1 .. k /\ list[n + j].cookie \notin D
  <2>1. n + j \notin 1 .. n /\ n + j \in 1 .. k
    BY <1>2, <1>4
  <2> QED BY <2>1, <1>4, <1>12
<1>15. ASSUME NEW i \in 1 .. k - n, NEW j \in 1 .. k - n, r[i].cookie = r[j].cookie
       PROVE  i = j
  <2>1. n + i = n + j
    <3>1. n + i \in 1 .. k /\ n + j \in 1 .. k /\ r[i] = list[n + i] /\ r[j] = list[n + j]
      BY <1>14
    <3>2. list[n + i].cookie = list[n + j].cookie
      BY <3>1, <1>15
    <3> QED BY <3>1, <3>2, <1>5
  <2> QED BY <2>1, <1>2
<1>16. IsInjective(notifying'[t])
  <2>1. ASSUME NEW i \in 1 .. n + m, NEW j \in 1 .. n + m, s[i] = s[j] PROVE i = j
    <3>1. CASE i \in 1 .. n /\ j \in 1 .. n
      BY <3>1, <2>1, <1>4, <1>5
    <3>2. CASE i \in 1 .. n /\ j - n \in 1 .. m /\ n + (j - n) = j
      <4>1. s[j] = own[j - n]
        BY <3>2, <1>4
      <4> QED BY <4>1, <3>2, <2>1, <1>4, <1>5
    <3>3. CASE j \in 1 .. n /\ i - n \in 1 .. m /\ n + (i - n) = i
      <4>1. s[i] = own[i - n]
        BY <3>3, <1>4
      <4>2. s[j] = list[j].cookie /\ j \in 1 .. k
        BY <3>3, <1>4
      <4>3. own[i - n] # list[j].cookie
        BY <3>3, <4>2, <1>5
      <4> QED BY <4>1, <4>2, <4>3, <2>1
    <3>4. CASE i - n \in 1 .. m /\ n + (i - n) = i /\ j - n \in 1 .. m /\ n + (j - n) = j
      <4>1. s[i] = own[i - n] /\ s[j] = own[j - n]
        BY <3>4, <1>4
      <4>2. i - n = j - n
        BY <4>1, <3>4, <2>1, <1>5
      <4> QED BY <4>2, <3>4
    <3> QED BY <3>1, <3>2, <3>3, <3>4, <1>4
  <2> QED BY <2>1, <1>2 DEF IsInjective
<1>17. \A i \in 1 .. n : list[i].lsn <= to
  BY <1>1
<1>18. \A f \in Files : f \in D <=> Contains(notifying'[t], f)
  BY <1>8, <1>9
<1>19. \A f \in Files : Contains(own, f) => f \in D
  BY <1>6, <1>10
<1>20. \A i \in DOMAIN list : list[i].cookie \in D => list[i].lsn <= to
  BY <1>2, <1>12, <1>17
<1>21. \A i \in DOMAIN list : list[i].cookie \notin D =>
         \E j \in DOMAIN log_requests' : log_requests'[j] = list[i]
  BY <1>2, <1>13
<1>22. \A j \in DOMAIN log_requests' :
         \E i \in DOMAIN list : log_requests'[j] = list[i] /\ list[i].cookie \notin D
  BY <1>2, <1>14
<1>23. \A i, j \in DOMAIN log_requests' :
         log_requests'[i].cookie = log_requests'[j].cookie => i = j
  BY <1>2, <1>15
<1>24. \A f \in D : Contains(own, f) \/ \E i \in DOMAIN list : list[i].cookie = f
  BY <1>2, <1>11
<1>25. \A u \in Threads : u # t => notifying'[u] = notifying[u]
  BY <1>1
<1>26. DetachedFiles(D, t, list, to, own)
  BY <1>16, <1>18, <1>19, <1>20, <1>21, <1>22, <1>23, <1>24, <1>25 DEF DetachedFiles
<1> QED BY <1>7, <1>26

(* innodb_log_flush_request(): either the file is answered at once, or its *)
(* request goes to the end of the list.                                    *)
LEMMA RequestQueued ==
  ASSUME QueueTypeOK, NEW t \in Threads, NEW f \in Files,
         seen[t] \in [lsn : Nat, flushed : Nat], QueueRequest(t, f)
  PROVE  \E list \in Seq(Requests), own \in Seq(Files), to \in Nat :
           /\ Detached(t, list, to, own)
           /\ \/ /\ list = log_requests /\ own = <<f>>
                 /\ to = seen[t].flushed /\ seen[t].lsn <= seen[t].flushed
              \/ /\ list = Append(log_requests, [cookie |-> f, lsn |-> seen[t].lsn])
                 /\ own = <<>> /\ to \in {flushed_lsn, seen[t].flushed}
<1> DEFINE r == [cookie |-> f, lsn |-> seen[t].lsn]
<1>1. /\ seen[t].lsn \in Nat /\ seen[t].flushed \in Nat /\ r \in Requests
      /\ <<f>> \in Seq(Files) /\ <<>> \in Seq(Files)
  BY DEF Requests
<1>2. log_requests \in Seq(Requests) /\ flushed_lsn \in Nat
  BY DEF QueueTypeOK
<1> HIDE DEF QueueTypeOK, r
<1>3. Append(log_requests, r) \in Seq(Requests)
  BY <1>1, <1>2
<1>4. CASE seen[t].flushed >= seen[t].lsn
  <2>1. Detached(t, log_requests, seen[t].flushed, <<f>>)
    BY <1>4 DEF QueueRequest
  <2> QED BY <1>1, <1>2, <1>4, <2>1
<1>5. CASE ~(seen[t].flushed >= seen[t].lsn)
  <2>1. PICK to \in {flushed_lsn, seen[t].flushed} :
          Detached(t, Append(log_requests, r), to, <<>>)
    BY <1>5 DEF QueueRequest, r
  <2> QED BY <1>1, <1>2, <1>3, <2>1 DEF r
<1> QED BY <1>4, <1>5

(* What is left of a list when its beginning is cut off.                   *)
LEMMA EndOfList ==
  ASSUME NEW S, NEW s \in Seq(S), NEW n \in 0 .. Len(s), NEW u,
         u \in ToSet(SubSeq(s, n + 1, Len(s)))
  PROVE  Contains(s, u)
<1>1. PICK k \in Nat : k = Len(s) /\ n \in Nat /\ n <= k
  OBVIOUS
<1>2. \A i \in n + 1 .. k : s[i] \in S
  BY <1>1
<1>3. PICK r : r = SubSeq(s, n + 1, k)
  OBVIOUS
<1>4. r \in Seq(S) /\ Len(r) = k - n /\ \A i \in 1 .. k - n : r[i] = s[n + i]
  BY <1>1, <1>2, <1>3
<1>5. PICK i \in 1 .. k - n : u = r[i]
  BY <1>1, <1>3, <1>4 DEF ToSet
<1>6. n + i \in 1 .. Len(s) /\ s[n + i] = u
  BY <1>1, <1>4, <1>5
<1> QED BY <1>6 DEF Contains

----------------------------------------------------------------------------
(* The first half of the inductive invariant: threads, locks, groups and   *)
(* files.  Nothing here depends on what the counts are.                    *)

ListTypeInv ==
  /\ current_binlog_id \in Files
  /\ binlog_xid_count_list \in Seq(Files)
  /\ xid_count \in [Files -> Int]

TypeInv == CoordinatorTypeOK /\ QueueTypeOK /\ ListTypeInv

Committing == {"write", "rotate", "open", "after", "order", "commit"}

(* Who is where holds the mutex for it, and calls mark_xid_done() only at  *)
(* the end of its way.                                                     *)
LocksInv ==
  /\ \A t \in Sessions :
       /\ pc[t] \in {"write", "open", "after"} => LOCK_log = t
       /\ t \in Trx /\ pc[t] = "rotate" => LOCK_log = t
       /\ pc[t] = "order" => LOCK_after_binlog_sync = t
       /\ pc[t] = "commit" => LOCK_commit_ordered = t
       /\ mark[t] # "no" => pc[t] \in {"ordered", "end", "acked"}
  /\ \A m \in Markers : mark[m] = "write" => LOCK_log = m
  /\ \A t \in Trx : pc[t] # "end"
  /\ \A t \in Rotators :
       pc[t] \in {"rotate", "open", "after", "order", "commit", "request", "flush",
                  "end", "gone"}

(* The file that a session has seen as the current one: the only session   *)
(* that rotates away from a file is the one that asks for its checkpoint.  *)
FilesInv ==
  /\ \A t \in Sessions :
       /\ pc[t] \in {"write", "open"} => binlog_id[t] = current_binlog_id
       /\ pc[t] = "rotate" /\ LOCK_log = t => binlog_id[t] = current_binlog_id
       /\ pc[t] = "after" /\ ~ check_purge[t] => binlog_id[t] = current_binlog_id
       /\ pc[t] \in {"order", "commit"} => binlog_id[t] # NoFile
       /\ pc[t] \in {"request", "flush"} => check_purge[t]
       /\ pc[t] = "open" => named # NoFile /\ current_binlog_id < MaxFile
       /\ seen[t] # NoLsn <=> pc[t] = "flush"
       /\ ~ check_purge[t] => to_ask[t] = Engines
       /\ check_purge[t] =>
            /\ binlog_id[t] # NoFile /\ binlog_id[t] < current_binlog_id
            /\ pc[t] \in {"after", "order", "commit", "request", "flush", "ordered",
                          "end", "unlog", "acked"}
            /\ to_ask[t] # <<>> => pc[t] \in {"after", "order", "commit", "request"}
  /\ \A t, u \in Sessions :
       check_purge[t] /\ check_purge[u] /\ binlog_id[t] = binlog_id[u] => t = u

(* The groups that are being committed.                                    *)
GroupInv ==
  /\ \A l \in Sessions : IsInjective(group[l])
  /\ \A l \in Sessions, t \in Trx : Contains(group[l], t) =>
       /\ l \in Trx /\ pc[l] \in Committing
       /\ engine[t] = "prepared"
       /\ file[t] = binlog_id[l] /\ file[t] # NoFile
       /\ t = l \/ pc[t] = "grouped"
  /\ \A l, m \in Sessions, t \in Trx :
       Contains(group[l], t) /\ Contains(group[m], t) => l = m
  /\ \A t \in Trx : Contains(unsynced, t) <=>
       \E l \in Sessions : pc[l] = "write" /\ Contains(group[l], t)

(* run_commit_ordered() is done with t.                                    *)
Ordered(t) ==
  file[t] # NoFile /\ engine[t] = IF t \in NeedUnlog THEN "prepared" ELSE "committed"

(* How far a transaction is in its engine and in the binary log.           *)
TrxOK(t) ==
  /\ pc[t] = "prepare" => engine[t] = "active" /\ file[t] = NoFile
  /\ pc[t] = "queue" => engine[t] = "prepared" /\ file[t] = NoFile
  /\ pc[t] \in {"write", "rotate", "open", "after", "order"} => Contains(group[t], t)
  /\ pc[t] = "grouped" => \E l \in Sessions : Contains(group[l], t)
  /\ pc[t] = "commit" => Contains(group[t], t) \/ Ordered(t)
  /\ pc[t] \in {"request", "flush", "ordered"} => Ordered(t)
  /\ pc[t] \in {"unlog", "acked"} => file[t] # NoFile
  /\ pc[t] = "unlog" => engine[t] = "committed" /\ t \in NeedUnlog
  /\ pc[t] \in {"acked", "gone"} => engine[t] # "active"
  /\ pc[t] \in {"acked", "gone"} /\ server = "up" => engine[t] # "prepared"
  /\ file[t] = NoFile => engine[t] # "committed"
  /\ file[t] <= current_binlog_id

TrxInv ==
  /\ \A t \in Trx : TrxOK(t)
  /\ \A i \in DOMAIN redo : engine[redo[i]] = "committed" /\ redo[i] \notin NeedUnlog

(* The list and the index hold consecutive files up to the current one.    *)
ListInv ==
  /\ binlog_xid_count_list # <<>>
  /\ UpTo(binlog_xid_count_list, current_binlog_id)
  /\ \A f \in index : f <= current_binlog_id /\ f .. current_binlog_id \subseteq index
  /\ Head(binlog_xid_count_list) \in index

DownInv ==
  server # "up" =>
    /\ \A t \in Sessions : pc[t] \in {"prepare", "acked", "gone"} /\ ~ check_purge[t]
    /\ \A m \in Markers : mark[m] = "no"
    /\ redo = <<>> /\ unsynced = <<>> /\ named = NoFile
    /\ current_binlog_id < MaxFile

ThreadsInv ==
  TypeInv /\ LocksInv /\ FilesInv /\ GroupInv /\ TrxInv /\ ListInv /\ DownInv


(* The threads and files of an instance.                                   *)
LEMMA Constants ==
  /\ \A t \in Trx : t \in Sessions /\ t \notin Rotators
  /\ \A t \in Rotators : t \in Sessions
  /\ \A t \in Sessions : t \in Trx \/ t \in Rotators
  /\ \A t \in Sessions :
       /\ t \in Markers /\ t \in Threads
       /\ t # NoThread /\ t # Background /\ t # Flusher
  /\ \A m \in Markers : m # NoThread /\ (m = Background \/ m \in Sessions)
  /\ Background \in Markers /\ Background # NoThread
  /\ Flusher \in Threads
  /\ NoFile \notin Files /\ \A f \in Files : f \in Nat /\ f # NoFile
  /\ NoFile = 0
BY XaAssumption DEF Sessions, Threads, Markers, NoFile, Files

(* With one engine there is one to ask, InnoDB, and then none.             *)
LEMMA OneEngineToAsk ==
  ASSUME OneEngine
  PROVE  Engines # <<>> /\ Head(Engines) = "InnoDB" /\ Tail(Engines) = <<>>
BY DEF OneEngine

(* The commit records are of transactions.                                 *)
LEMMA RedoElements == ASSUME CoordinatorTypeOK PROVE \A i \in DOMAIN redo : redo[i] \in Trx
<1>1. redo \in Seq(Trx)
  BY DEF CoordinatorTypeOK
<1> QED BY <1>1

(* Where a session is found in no group, or in its own only.               *)
LEMMA NoGroup ==
  ASSUME ThreadsInv, NEW t \in Trx, pc[t] \notin Committing
  PROVE  /\ \A u \in Trx : ~Contains(group[t], u)
         /\ pc[t] # "grouped" => \A l \in Sessions : ~Contains(group[l], t)
BY Constants DEF ThreadsInv, GroupInv

(* A leader is in no group but its own.                                    *)
LEMMA OwnGroup ==
  ASSUME ThreadsInv, NEW t \in Trx, pc[t] \in Committing
  PROVE  \A l \in Sessions : Contains(group[l], t) => l = t
BY DEF ThreadsInv, GroupInv, Committing

(* Files, and NoFile, are numbers that can be compared.                    *)
LEMMA FilesAreNumbers ==
  ASSUME CoordinatorTypeOK
  PROVE  /\ \A u \in Trx : file[u] \in Nat
         /\ \A u \in Sessions : binlog_id[u] \in Nat
         /\ \A f \in Files : checkpoint[f] \in Nat
         /\ named \in Nat
<1>1. Files \cup {NoFile} \subseteq Nat
  BY Constants
<1>2. /\ file \in [Trx -> Files \cup {NoFile}]
      /\ binlog_id \in [Sessions -> Files \cup {NoFile}]
      /\ checkpoint \in [Files -> Files \cup {NoFile}]
      /\ named \in Files \cup {NoFile}
  BY DEF CoordinatorTypeOK
<1> HIDE DEF CoordinatorTypeOK
<1> QED BY <1>1, <1>2

(* A position that was read or flushed is not the absence of one.          *)
LEMMA LsnIsSome ==
  /\ \A a, b : [lsn |-> a, flushed |-> b] # NoLsn
  /\ \A a : [to |-> a] # NoLsn
<1>1. DOMAIN NoLsn = {"none"}
  BY DEF NoLsn
<1>2. ASSUME NEW a, NEW b PROVE "lsn" \in DOMAIN [lsn |-> a, flushed |-> b]
  OBVIOUS
<1>3. ASSUME NEW a PROVE "to" \in DOMAIN [to |-> a]
  OBVIOUS
<1> QED BY <1>1, <1>2, <1>3

(* The last file of the index is the current one.                          *)
LEMMA LastFile == ASSUME ThreadsInv PROVE Max(index) = current_binlog_id
<1>1. /\ index \in SUBSET Nat /\ Head(binlog_xid_count_list) \in index
      /\ \A f \in index : f <= current_binlog_id /\ f .. current_binlog_id \subseteq index
      /\ current_binlog_id \in Nat
  BY Constants DEF ThreadsInv, TypeInv, CoordinatorTypeOK, ListTypeInv, ListInv
<1>2. PICK h \in index : h \in Nat /\ h <= current_binlog_id
  BY <1>1
<1>3. current_binlog_id \in h .. current_binlog_id /\ h .. current_binlog_id \subseteq index
  BY <1>1, <1>2
<1>4. current_binlog_id \in index
  BY <1>3
<1> QED BY <1>1, <1>4, MaxNumber

(* Who has rotated knows the file it has left.                             *)
LEMMA RotatedFile ==
  ASSUME ThreadsInv
  PROVE  \A v \in Sessions : check_purge[v] => binlog_id[v] \in Files
<1>1. binlog_id \in [Sessions -> Files \cup {NoFile}]
  BY DEF ThreadsInv, TypeInv, CoordinatorTypeOK
<1> QED BY <1>1 DEF ThreadsInv, FilesInv

(* trx_prepare()                                                           *)
LEMMA PrepareThreads ==
  ASSUME OneEngine, ThreadsInv, NEW t \in Trx, Prepare(t)
  PROVE  ThreadsInv'
<1>t. CoordinatorTypeOK /\ QueueTypeOK /\ ListTypeInv
  BY DEF ThreadsInv, TypeInv
<1>g. server = "up" /\ pc[t] = "prepare" /\ mark[t] = "no"
  BY DEF Prepare, At, FlushedBy
<1>pc. /\ pc' = [pc EXCEPT ![t] = "queue"]
       /\ pc'[t] = "queue"
       /\ \A v \in Sessions : v # t => pc'[v] = pc[v]
  BY <1>t, <1>g, Constants DEF Prepare, Goto, CoordinatorTypeOK, FlushedBy
<1>engine. /\ engine' = [engine EXCEPT ![t] = "prepared"]
           /\ engine'[t] = "prepared"
           /\ \A v \in Trx : v # t => engine'[v] = engine[v]
  BY <1>t, <1>g, Constants DEF Prepare, Goto, CoordinatorTypeOK, FlushedBy
<1>d. UNCHANGED <<index, file, unsynced, checkpoint, redo, lsn, server,
   crashes, LOCK_log, LOCK_after_binlog_sync, LOCK_commit_ordered, group,
   binlog_id, check_purge, to_ask, named, mark>>
  BY DEF Prepare, FlushedBy, diskVars, engineVars, redoVars, serverVars,
     lockVars, localVars
<1>l. UNCHANGED <<current_binlog_id, binlog_xid_count_list, xid_count>>
  BY DEF Prepare, FlushedBy, listVars
<1>q. UNCHANGED <<log_requests, seen, notifying,
   binlog_background_thread_queue, next_in_queue, notify_count, bg>>
  BY DEF Prepare, FlushedBy, ckptVars, engineVars, redoVars, requestVars,
     queueVars
<1>1. CoordinatorTypeOK'
  BY <1>t, <1>g, <1>d, <1>engine, <1>pc, Constants DEF CoordinatorTypeOK,
     Labels
<1>2. QueueTypeOK'
  <2>1. \/ UNCHANGED <<flushed_lsn, flush_notify>>
        \/ /\ flushed_lsn' = lsn
           /\ flush_notify' = [flush_notify EXCEPT ![t] = [to |-> lsn]]
    BY DEF Prepare, FlushedBy
  <2>2. lsn \in Nat /\ flushed_lsn \in 0 .. lsn
    BY <1>t DEF QueueTypeOK
  <2>3. [to |-> lsn] \in [to : Nat]
    BY <2>2
  <2>4. flush_notify' \in [Threads -> [to : Nat] \cup {NoLsn}]
    BY <1>t, <2>1, <2>3 DEF QueueTypeOK
  <2>5. flushed_lsn' \in 0 .. lsn
    BY <2>1, <2>2
  <2> QED BY <1>t, <2>4, <2>5, <1>d, <1>q DEF QueueTypeOK
<1>3. ListTypeInv'
  BY <1>t, <1>l DEF ListTypeInv
<1>4. LocksInv'
  BY <1>g, <1>pc, <1>d, Constants DEF ThreadsInv, LocksInv
<1>5. FilesInv'
  BY <1>g, <1>pc, <1>d, <1>l, <1>q, Constants DEF ThreadsInv, FilesInv
<1>6. GroupInv'
  <2>1. \A l \in Sessions : ~Contains(group[l], t)
    BY <1>g, Constants DEF ThreadsInv, GroupInv, Committing
  <2>2. \A l \in Sessions, u \in Trx : Contains(group[l], u) => l # t /\ u # t
    BY <1>g, <2>1 DEF ThreadsInv, GroupInv, Committing
  <2> QED BY <1>g, <1>pc, <1>engine, <1>d, <2>2, Constants DEF ThreadsInv, GroupInv
<1>7. TrxInv'
  <2>1. \A i \in DOMAIN redo : redo[i] # t
    BY <1>g DEF ThreadsInv, TrxInv, TrxOK
  <2> QED BY <1>t, <1>g, <1>pc, <1>engine, <1>d, <1>l, Constants, RedoElements,
      <2>1 DEF ThreadsInv, TrxInv, TrxOK, Ordered
<1>8. ListInv'
  BY <1>l, <1>d DEF ThreadsInv, ListInv
<1>9. DownInv'
  BY <1>g, <1>d, <1>pc, <1>l, Constants DEF ThreadsInv, DownInv
<1> QED BY <1>1, <1>2, <1>3, <1>4, <1>5, <1>6, <1>7, <1>8, <1>9 DEF ThreadsInv, TypeInv


(* trx_group_commit_leader()                                               *)
LEMMA LeaderLockLogThreads ==
  ASSUME OneEngine, ThreadsInv, NEW t \in Trx, LeaderLockLog(t)
  PROVE  ThreadsInv'
<1>t. CoordinatorTypeOK /\ QueueTypeOK /\ ListTypeInv
  BY DEF ThreadsInv, TypeInv
<1>g. server = "up" /\ pc[t] = "queue" /\ mark[t] = "no" /\ LOCK_log = NoThread
  BY DEF LeaderLockLog, At, WriteEvents
<1>LOCK_log. LOCK_log' = t
  BY DEF LeaderLockLog, WriteEvents
<1>binlog_id. /\ binlog_id' = [binlog_id EXCEPT ![t] = current_binlog_id]
              /\ binlog_id'[t] = current_binlog_id
              /\ \A v \in Sessions : v # t => binlog_id'[v] = binlog_id[v]
  BY <1>t, <1>g, Constants DEF LeaderLockLog, Goto, CoordinatorTypeOK,
     WriteEvents
<1>group. /\ group' = [group EXCEPT ![t] = <<t>>]
          /\ group'[t] = <<t>>
          /\ \A v \in Sessions : v # t => group'[v] = group[v]
  BY <1>t, <1>g, Constants DEF LeaderLockLog, Goto, CoordinatorTypeOK,
     WriteEvents
<1>file. /\ file' = [file EXCEPT ![t] = current_binlog_id]
         /\ file'[t] = current_binlog_id
         /\ \A v \in Trx : v # t => file'[v] = file[v]
  BY <1>t, <1>g, Constants DEF LeaderLockLog, Goto, CoordinatorTypeOK,
     WriteEvents
<1>unsynced. unsynced' = Append(unsynced, t)
  BY DEF LeaderLockLog, WriteEvents
<1>pc. /\ pc' = [pc EXCEPT ![t] = "write"]
       /\ pc'[t] = "write"
       /\ \A v \in Sessions : v # t => pc'[v] = pc[v]
  BY <1>t, <1>g, Constants DEF LeaderLockLog, Goto, CoordinatorTypeOK,
     WriteEvents
<1>d. UNCHANGED <<index, checkpoint, engine, redo, lsn, server, crashes,
   LOCK_after_binlog_sync, LOCK_commit_ordered, check_purge, to_ask, named,
   mark>>
  BY DEF LeaderLockLog, WriteEvents, diskVars, engineVars, redoVars,
     serverVars, lockVars, localVars
<1>l. UNCHANGED <<current_binlog_id, binlog_xid_count_list, xid_count>>
  BY DEF LeaderLockLog, WriteEvents, listVars
<1>q. UNCHANGED <<flushed_lsn, log_requests, seen, flush_notify, notifying,
   binlog_background_thread_queue, next_in_queue, notify_count, bg>>
  BY DEF LeaderLockLog, WriteEvents, ckptVars, engineVars, redoVars,
     requestVars, queueVars
<1>1. CoordinatorTypeOK'
  <2>1. unsynced' \in Seq(Trx) /\ group' \in [Sessions -> Seq(Trx)]
    <3>1. <<t>> \in Seq(Trx)
      OBVIOUS
    <3>2. unsynced \in Seq(Trx) /\ group \in [Sessions -> Seq(Trx)]
      BY <1>t DEF CoordinatorTypeOK
    <3> QED BY <3>1, <3>2, <1>unsynced, <1>group, AppendList
  <2> QED BY <1>t, <1>g, <1>d, <1>file, <1>unsynced, <1>pc, <1>LOCK_log, <1>group, <1>binlog_id,
      Constants, <2>1 DEF CoordinatorTypeOK, Labels, ListTypeInv
<1>2. QueueTypeOK'
  BY <1>t, <1>d, <1>q DEF QueueTypeOK
<1>3. ListTypeInv'
  BY <1>t, <1>l DEF ListTypeInv
<1>4. LocksInv'
  BY <1>g, <1>pc, <1>d, <1>LOCK_log, Constants DEF ThreadsInv, LocksInv
<1>5. FilesInv'
  BY <1>g, <1>pc, <1>LOCK_log, <1>binlog_id, <1>l, <1>d, <1>q, Constants DEF
     ThreadsInv, FilesInv
<1>6. GroupInv'
  <2>1. IsInjective(<<t>>) /\ \A u : Contains(<<t>>, u) <=> u = t
    BY DEF IsInjective, Contains
  <2>2. \A l \in Sessions : ~Contains(group[l], t)
    BY <1>g, NoGroup DEF Committing
  <2>3. engine[t] = "prepared" /\ current_binlog_id # NoFile
    BY <1>t, <1>g, Constants DEF ThreadsInv, TrxInv, TrxOK, ListTypeInv
  <2>4. \A l \in Sessions : pc[l] # "write"
    BY <1>g, Constants DEF ThreadsInv, LocksInv
  <2>5. \A u \in Trx : ~Contains(group[t], u)
    BY <1>g, NoGroup DEF Committing
  <2>6. \A u : Contains(unsynced', u) <=> u = t \/ Contains(unsynced, u)
    <3>1. unsynced \in Seq(Trx)
      BY <1>t DEF CoordinatorTypeOK
    <3> QED BY <3>1, <1>unsynced, AppendList
  <2>7. \A l \in Sessions, u \in Trx :
          Contains(group'[l], u) <=> IF l = t THEN u = t ELSE Contains(group[l], u)
    BY <1>group, <2>1
  <2>8. \A u \in Trx : ~Contains(unsynced, u)
    BY <2>4 DEF ThreadsInv, GroupInv
  <2>9. \A l \in Sessions : IsInjective(group'[l])
    BY <1>group, <2>1 DEF ThreadsInv, GroupInv
  <2>10. \A u \in Trx : Contains(unsynced', u) <=>
            \E l \in Sessions : pc'[l] = "write" /\ Contains(group'[l], u)
    BY <2>4, <2>6, <2>7, <2>8, <1>pc, Constants
  <2> QED BY <1>g, <1>pc, <1>d, <1>file, <1>binlog_id, <2>2, <2>3, <2>7, <2>9,
             <2>10, Constants DEF ThreadsInv, GroupInv, Committing
<1>7. TrxInv'
  <2>1. \A u \in Trx : Contains(group'[t], u) <=> u = t
    BY <1>group DEF Contains
  <2>2. engine[t] = "prepared" /\ current_binlog_id # NoFile
        /\ current_binlog_id \in Nat
    BY <1>t, <1>g, Constants DEF ThreadsInv, TrxInv, TrxOK, ListTypeInv
  <2>3. \A l \in Sessions, u \in Trx : l # t => (Contains(group'[l], u) <=> Contains(group[l], u))
    BY <1>group
  <2>4. \A u \in Trx : ~Contains(group[t], u)
    BY <1>g, NoGroup DEF Committing
  <2> QED BY <1>g, <1>pc, <1>d, <1>file, <1>l, <2>1, <2>2, <2>3, <2>4, RedoElements,
             Constants DEF ThreadsInv, TrxInv, TrxOK, Ordered
<1>8. ListInv'
  BY <1>l, <1>d DEF ThreadsInv, ListInv
<1>9. DownInv'
  BY <1>g, <1>d, <1>pc, <1>unsynced, <1>l, Constants DEF ThreadsInv, DownInv
<1> QED BY <1>1, <1>2, <1>3, <1>4, <1>5, <1>6, <1>7, <1>8, <1>9 DEF ThreadsInv, TypeInv


(* trx_group_commit_leader()                                               *)
LEMMA LeaderWriteThreads ==
  ASSUME OneEngine, ThreadsInv, NEW t \in Trx, NEW u \in Trx, LeaderWrite(t, u)
  PROVE  ThreadsInv'
<1>t. CoordinatorTypeOK /\ QueueTypeOK /\ ListTypeInv
  BY DEF ThreadsInv, TypeInv
<1>g. server = "up" /\ pc[t] = "write" /\ mark[t] = "no" /\ pc[u] = "queue"
  BY DEF LeaderWrite, At, WriteEvents
<1>group. /\ group' = [group EXCEPT ![t] = Append(group[t], u)]
          /\ group'[t] = Append(group[t], u)
          /\ \A v \in Sessions : v # t => group'[v] = group[v]
  BY <1>t, <1>g, Constants DEF LeaderWrite, Goto, CoordinatorTypeOK,
     WriteEvents
<1>file. /\ file' = [file EXCEPT ![u] = current_binlog_id]
         /\ file'[u] = current_binlog_id
         /\ \A v \in Trx : v # u => file'[v] = file[v]
  BY <1>t, <1>g, Constants DEF LeaderWrite, Goto, CoordinatorTypeOK,
     WriteEvents
<1>unsynced. unsynced' = Append(unsynced, u)
  BY DEF LeaderWrite, WriteEvents
<1>pc. /\ pc' = [pc EXCEPT ![u] = "grouped"]
       /\ pc'[u] = "grouped"
       /\ \A v \in Sessions : v # u => pc'[v] = pc[v]
  BY <1>t, <1>g, Constants DEF LeaderWrite, Goto, CoordinatorTypeOK,
     WriteEvents
<1>d. UNCHANGED <<index, checkpoint, engine, redo, lsn, server, crashes,
   LOCK_log, LOCK_after_binlog_sync, LOCK_commit_ordered, binlog_id,
   check_purge, to_ask, named, mark>>
  BY DEF LeaderWrite, WriteEvents, diskVars, engineVars, redoVars, serverVars,
     lockVars, localVars
<1>l. UNCHANGED <<current_binlog_id, binlog_xid_count_list, xid_count>>
  BY DEF LeaderWrite, WriteEvents, listVars
<1>q. UNCHANGED <<flushed_lsn, log_requests, seen, flush_notify, notifying,
   binlog_background_thread_queue, next_in_queue, notify_count, bg>>
  BY DEF LeaderWrite, WriteEvents, ckptVars, engineVars, redoVars,
     requestVars, queueVars
<1>1. CoordinatorTypeOK'
  <2>1. unsynced' \in Seq(Trx) /\ group' \in [Sessions -> Seq(Trx)]
    <3>1. Append(group[t], u) \in Seq(Trx)
      BY <1>t, AppendList, Constants DEF CoordinatorTypeOK
    <3>2. unsynced \in Seq(Trx) /\ group \in [Sessions -> Seq(Trx)]
      BY <1>t DEF CoordinatorTypeOK
    <3> QED BY <3>1, <3>2, <1>unsynced, <1>group, AppendList
  <2> QED BY <1>t, <1>g, <1>d, <1>file, <1>unsynced, <1>pc, <1>group, Constants,
      <2>1 DEF CoordinatorTypeOK, Labels, ListTypeInv
<1>2. QueueTypeOK'
  BY <1>t, <1>d, <1>q DEF QueueTypeOK
<1>3. ListTypeInv'
  BY <1>t, <1>l DEF ListTypeInv
<1>4. LocksInv'
  BY <1>g, <1>pc, <1>d, Constants DEF ThreadsInv, LocksInv
<1>5. FilesInv'
  BY <1>g, <1>pc, <1>d, <1>l, <1>q, Constants DEF ThreadsInv, FilesInv
<1>6. GroupInv'
  <2>1. \A l \in Sessions : ~Contains(group[l], u)
    BY <1>g, NoGroup DEF Committing
  <2>2. \A v \in Trx : ~Contains(group[u], v)
    BY <1>g, NoGroup DEF Committing
  <2>3. engine[u] = "prepared" /\ current_binlog_id # NoFile /\ binlog_id[t] = current_binlog_id
    BY <1>t, <1>g, Constants DEF ThreadsInv, TrxInv, TrxOK, FilesInv,
       ListTypeInv
  <2>4. group[t] \in Seq(Trx) /\ IsInjective(group[t]) /\ unsynced \in Seq(Trx)
    BY <1>t, Constants DEF ThreadsInv, GroupInv, CoordinatorTypeOK
  <2>5. IsInjective(group'[t]) /\ \A v : Contains(group'[t], v) <=> v = u \/ Contains(group[t], v)
    BY <1>group, <2>1, <2>4, AppendList, Constants
  <2>6. \A v : Contains(unsynced', v) <=> v = u \/ Contains(unsynced, v)
    BY <1>unsynced, <2>4, AppendList
  <2>7. \A l \in Sessions, v \in Trx :
          Contains(group'[l], v) <=> (l = t /\ v = u) \/ Contains(group[l], v)
    BY <1>group, <2>5
  <2>8. \A l \in Sessions : IsInjective(group'[l])
    BY <1>group, <2>5 DEF ThreadsInv, GroupInv
  <2>9. \A v \in Trx : Contains(unsynced', v) <=>
            \E l \in Sessions : pc'[l] = "write" /\ Contains(group'[l], v)
    <3>1. \A v \in Trx : Contains(unsynced, v) <=>
            \E l \in Sessions : pc[l] = "write" /\ Contains(group[l], v)
      BY DEF ThreadsInv, GroupInv
    <3>2. t \in Sessions /\ t # u /\ pc'[t] = "write"
      BY <1>g, <1>pc, Constants
    <3> QED BY <3>1, <3>2, <2>2, <2>6, <2>7, <1>pc, <1>g
  <2> QED BY <1>g, <1>pc, <1>d, <1>file, <2>1, <2>3, <2>7, <2>8,
             <2>9, Constants DEF ThreadsInv, GroupInv, Committing
<1>7. TrxInv'
  <2>1. \A l \in Sessions, v \in Trx :
          Contains(group'[l], v) <=> (l = t /\ v = u) \/ Contains(group[l], v)
    <3>1. group[t] \in Seq(Trx)
      BY <1>t, Constants DEF CoordinatorTypeOK
    <3> QED BY <3>1, <1>group, AppendList, Constants
  <2>2. engine[u] = "prepared" /\ current_binlog_id # NoFile
        /\ current_binlog_id \in Nat
    BY <1>t, <1>g, Constants DEF ThreadsInv, TrxInv, TrxOK, ListTypeInv
  <2> QED BY <1>g, <1>pc, <1>d, <1>file, <1>l, <2>1, <2>2, RedoElements,
             Constants DEF ThreadsInv, TrxInv, TrxOK, Ordered
<1>8. ListInv'
  BY <1>l, <1>d DEF ThreadsInv, ListInv
<1>9. DownInv'
  BY <1>g, <1>d, <1>pc, <1>unsynced, <1>l, Constants DEF ThreadsInv, DownInv
<1> QED BY <1>1, <1>2, <1>3, <1>4, <1>5, <1>6, <1>7, <1>8, <1>9 DEF ThreadsInv, TypeInv


(* flush_and_sync()                                                        *)
LEMMA LeaderSyncThreads ==
  ASSUME OneEngine, ThreadsInv, NEW t \in Trx, LeaderSync(t)
  PROVE  ThreadsInv'
<1>t. CoordinatorTypeOK /\ QueueTypeOK /\ ListTypeInv
  BY DEF ThreadsInv, TypeInv
<1>g. server = "up" /\ pc[t] = "write" /\ mark[t] = "no"
  BY DEF LeaderSync, At, Activated
<1>b. binlog_id[t] \in Files
  BY <1>t, <1>g, Constants DEF ThreadsInv, FilesInv, CoordinatorTypeOK, ListTypeInv
<1>unsynced. unsynced' = <<>>
  BY DEF LeaderSync, Activated
<1>xid_count. /\ xid_count' = [xid_count EXCEPT ![binlog_id[t]] = xid_count[binlog_id[t]] + Cardinality(ToSet(group[t]) \cap NeedUnlog)]
              /\ xid_count'[binlog_id[t]] = xid_count[binlog_id[t]] + Cardinality(ToSet(group[t]) \cap NeedUnlog)
              /\ \A v \in Files : v # binlog_id[t] => xid_count'[v] = xid_count[v]
  BY <1>t, <1>g, <1>b, Constants DEF LeaderSync, Goto, ListTypeInv, Activated
<1>pc. /\ pc' = [pc EXCEPT ![t] = "rotate"]
       /\ pc'[t] = "rotate"
       /\ \A v \in Sessions : v # t => pc'[v] = pc[v]
  BY <1>t, <1>g, <1>b, Constants DEF LeaderSync, Goto, CoordinatorTypeOK,
     Activated
<1>d. UNCHANGED <<index, file, checkpoint, engine, redo, lsn, server, crashes,
   LOCK_log, LOCK_after_binlog_sync, LOCK_commit_ordered, group, binlog_id,
   check_purge, to_ask, named, mark>>
  BY DEF LeaderSync, Activated, diskVars, engineVars, redoVars, serverVars,
     lockVars, localVars
<1>l. UNCHANGED <<current_binlog_id, binlog_xid_count_list>>
  BY DEF LeaderSync, Activated, listVars
<1>q. UNCHANGED <<flushed_lsn, log_requests, seen, flush_notify, notifying,
   binlog_background_thread_queue, next_in_queue, notify_count, bg>>
  BY <1>b DEF LeaderSync, Activated, ckptVars, engineVars, redoVars, requestVars,
     queueVars
<1>1. CoordinatorTypeOK'
  <2>1. unsynced' \in Seq(Trx)
    BY <1>unsynced
  <2> QED BY <1>t, <1>g, <1>b, <1>d, <1>unsynced, <1>pc, Constants, <2>1 DEF CoordinatorTypeOK,
      Labels
<1>2. QueueTypeOK'
  BY <1>t, <1>d, <1>q DEF QueueTypeOK
<1>3. ListTypeInv'
  <2>1. Cardinality(ToSet(group[t]) \cap NeedUnlog) \in Nat
    <3>1. group[t] \in Seq(Trx)
      BY <1>t, Constants DEF CoordinatorTypeOK
    <3>2. IsFiniteSet(ToSet(group[t]) \cap NeedUnlog)
      BY <3>1, SetOfList, FS_Subset
    <3> QED BY <3>2, FS_CardinalityType
  <2> QED BY <1>t, <1>g, <1>b, <1>l, <1>xid_count, Constants, <2>1 DEF ListTypeInv
<1>4. LocksInv'
  BY <1>g, <1>b, <1>pc, <1>d, Constants DEF ThreadsInv, LocksInv
<1>5. FilesInv'
  BY <1>g, <1>b, <1>pc, <1>d, <1>l, <1>q, Constants DEF ThreadsInv, FilesInv
<1>6. GroupInv'
  <2>1. \A l \in Sessions : l # t => pc[l] # "write"
    BY <1>g, Constants DEF ThreadsInv, LocksInv
  <2>2. \A u : ~Contains(unsynced', u)
    BY <1>unsynced, EmptyList
  <2>3. \A u \in Trx : Contains(unsynced', u) <=>
            \E l \in Sessions : pc'[l] = "write" /\ Contains(group'[l], u)
    BY <2>1, <2>2, <1>pc
  <2> QED BY <1>g, <1>pc, <1>d, <2>3, Constants DEF ThreadsInv, GroupInv, Committing
<1>7. TrxInv'
  BY <1>g, <1>b, <1>pc, <1>d, <1>l, Constants DEF ThreadsInv, TrxInv, TrxOK,
     Ordered
<1>8. ListInv'
  BY <1>l, <1>d DEF ThreadsInv, ListInv
<1>9. DownInv'
  BY <1>g, <1>b, <1>d, <1>pc, <1>unsynced, <1>l, Constants DEF ThreadsInv,
     DownInv
<1> QED BY <1>1, <1>2, <1>3, <1>4, <1>5, <1>6, <1>7, <1>8, <1>9 DEF ThreadsInv, TypeInv


(* rotate() below max_binlog_size                                          *)
LEMMA NoRotateThreads ==
  ASSUME OneEngine, ThreadsInv, NEW t \in Trx, NoRotate(t)
  PROVE  ThreadsInv'
<1>t. CoordinatorTypeOK /\ QueueTypeOK /\ ListTypeInv
  BY DEF ThreadsInv, TypeInv
<1>g. server = "up" /\ pc[t] = "rotate" /\ mark[t] = "no"
  BY DEF NoRotate, At
<1>pc. /\ pc' = [pc EXCEPT ![t] = "after"]
       /\ pc'[t] = "after"
       /\ \A v \in Sessions : v # t => pc'[v] = pc[v]
  BY <1>t, <1>g, Constants DEF NoRotate, Goto, CoordinatorTypeOK
<1>d. UNCHANGED <<index, file, unsynced, checkpoint, engine, redo, lsn,
   server, crashes, LOCK_log, LOCK_after_binlog_sync, LOCK_commit_ordered,
   group, binlog_id, check_purge, to_ask, named, mark>>
  BY DEF NoRotate, diskVars, engineVars, redoVars, serverVars, lockVars,
     localVars
<1>l. UNCHANGED <<current_binlog_id, binlog_xid_count_list, xid_count>>
  BY DEF NoRotate, listVars
<1>q. UNCHANGED <<flushed_lsn, log_requests, seen, flush_notify, notifying,
   binlog_background_thread_queue, next_in_queue, notify_count, bg>>
  BY DEF NoRotate, ckptVars, engineVars, redoVars, requestVars, queueVars
<1>1. CoordinatorTypeOK'
  BY <1>t, <1>g, <1>d, <1>pc, Constants DEF CoordinatorTypeOK, Labels
<1>2. QueueTypeOK'
  BY <1>t, <1>d, <1>q DEF QueueTypeOK
<1>3. ListTypeInv'
  BY <1>t, <1>l DEF ListTypeInv
<1>4. LocksInv'
  BY <1>g, <1>pc, <1>d, Constants DEF ThreadsInv, LocksInv
<1>5. FilesInv'
  BY <1>g, <1>pc, <1>d, <1>l, <1>q, Constants DEF ThreadsInv, FilesInv,
     LocksInv
<1>6. GroupInv'
  BY <1>g, <1>d, <1>pc, Constants DEF ThreadsInv, GroupInv, Committing
<1>7. TrxInv'
  BY <1>g, <1>pc, <1>d, <1>l, Constants DEF ThreadsInv, TrxInv, TrxOK, Ordered
<1>8. ListInv'
  BY <1>l, <1>d DEF ThreadsInv, ListInv
<1>9. DownInv'
  BY <1>g, <1>d, <1>pc, <1>l, Constants DEF ThreadsInv, DownInv
<1> QED BY <1>1, <1>2, <1>3, <1>4, <1>5, <1>6, <1>7, <1>8, <1>9 DEF ThreadsInv, TypeInv


(* commit_one_phase_2()                                                    *)
LEMMA CommitEngineThreads ==
  ASSUME OneEngine, ThreadsInv, NEW t \in Trx, CommitEngine(t)
  PROVE  ThreadsInv'
<1>t. CoordinatorTypeOK /\ QueueTypeOK /\ ListTypeInv
  BY DEF ThreadsInv, TypeInv
<1>g. server = "up" /\ pc[t] = "ordered" /\ mark[t] = "no"
  BY DEF CommitEngine, At
<1>engine. /\ engine' = [engine EXCEPT ![t] = "committed"]
           /\ engine'[t] = "committed"
           /\ \A v \in Trx : v # t => engine'[v] = engine[v]
  BY <1>t, <1>g, Constants DEF CommitEngine, Goto, CoordinatorTypeOK
<1>pc. /\ pc' = [pc EXCEPT ![t] = IF t \in NeedUnlog THEN "unlog" ELSE "acked"]
       /\ pc'[t] = IF t \in NeedUnlog THEN "unlog" ELSE "acked"
       /\ \A v \in Sessions : v # t => pc'[v] = pc[v]
  BY <1>t, <1>g, Constants DEF CommitEngine, Goto, CoordinatorTypeOK
<1>d. UNCHANGED <<index, file, unsynced, checkpoint, redo, lsn, server,
   crashes, LOCK_log, LOCK_after_binlog_sync, LOCK_commit_ordered, group,
   binlog_id, check_purge, to_ask, named, mark>>
  BY DEF CommitEngine, diskVars, engineVars, redoVars, serverVars, lockVars,
     localVars
<1>l. UNCHANGED <<current_binlog_id, binlog_xid_count_list, xid_count>>
  BY DEF CommitEngine, listVars
<1>q. UNCHANGED <<flushed_lsn, log_requests, seen, flush_notify, notifying,
   binlog_background_thread_queue, next_in_queue, notify_count, bg>>
  BY DEF CommitEngine, ckptVars, engineVars, redoVars, requestVars, queueVars
<1>1. CoordinatorTypeOK'
  BY <1>t, <1>g, <1>d, <1>engine, <1>pc, Constants DEF CoordinatorTypeOK,
     Labels
<1>2. QueueTypeOK'
  BY <1>t, <1>d, <1>q DEF QueueTypeOK
<1>3. ListTypeInv'
  BY <1>t, <1>l DEF ListTypeInv
<1>4. LocksInv'
  BY <1>g, <1>pc, <1>d, Constants DEF ThreadsInv, LocksInv
<1>5. FilesInv'
  BY <1>g, <1>pc, <1>d, <1>l, <1>q, Constants DEF ThreadsInv, FilesInv
<1>6. GroupInv'
  <2>1. \A l \in Sessions : ~Contains(group[l], t)
    BY <1>g, NoGroup DEF Committing
  <2>2. \A u \in Trx : ~Contains(group[t], u)
    BY <1>g, NoGroup DEF Committing
  <2> QED BY <1>g, <1>pc, <1>engine, <1>d, <2>1, <2>2, Constants DEF ThreadsInv, GroupInv
<1>7. TrxInv'
  BY <1>g, <1>pc, <1>engine, <1>d, <1>l, Constants DEF ThreadsInv, TrxInv,
     TrxOK, Ordered
<1>8. ListInv'
  BY <1>l, <1>d DEF ThreadsInv, ListInv
<1>9. DownInv'
  BY <1>g, <1>d, <1>pc, <1>l, Constants DEF ThreadsInv, DownInv
<1> QED BY <1>1, <1>2, <1>3, <1>4, <1>5, <1>6, <1>7, <1>8, <1>9 DEF ThreadsInv, TypeInv


(* rotate_and_purge()                                                      *)
LEMMA RotatorLockLogThreads ==
  ASSUME OneEngine, ThreadsInv, NEW t \in Sessions, RotatorLockLog(t)
  PROVE  ThreadsInv'
<1>t. CoordinatorTypeOK /\ QueueTypeOK /\ ListTypeInv
  BY DEF ThreadsInv, TypeInv
<1>g. server = "up" /\ pc[t] = "rotate" /\ mark[t] = "no" /\ t \in Rotators /\ LOCK_log = NoThread
  BY DEF RotatorLockLog, At
<1>LOCK_log. LOCK_log' = t
  BY DEF RotatorLockLog
<1>binlog_id. /\ binlog_id' = [binlog_id EXCEPT ![t] = current_binlog_id]
              /\ binlog_id'[t] = current_binlog_id
              /\ \A v \in Sessions : v # t => binlog_id'[v] = binlog_id[v]
  BY <1>t, <1>g, Constants DEF RotatorLockLog, Goto, CoordinatorTypeOK
<1>d. UNCHANGED <<index, file, unsynced, checkpoint, engine, redo, lsn,
   server, crashes, pc, LOCK_after_binlog_sync, LOCK_commit_ordered, group,
   check_purge, to_ask, named, mark>>
  BY DEF RotatorLockLog, diskVars, engineVars, redoVars, serverVars, lockVars,
     localVars
<1>l. UNCHANGED <<current_binlog_id, binlog_xid_count_list, xid_count>>
  BY DEF RotatorLockLog, listVars
<1>q. UNCHANGED <<flushed_lsn, log_requests, seen, flush_notify, notifying,
   binlog_background_thread_queue, next_in_queue, notify_count, bg>>
  BY DEF RotatorLockLog, ckptVars, engineVars, redoVars, requestVars,
     queueVars
<1>1. CoordinatorTypeOK'
  BY <1>t, <1>g, <1>d, <1>LOCK_log, <1>binlog_id, Constants DEF
     CoordinatorTypeOK, Labels, ListTypeInv
<1>2. QueueTypeOK'
  BY <1>t, <1>d, <1>q DEF QueueTypeOK
<1>3. ListTypeInv'
  BY <1>t, <1>l DEF ListTypeInv
<1>4. LocksInv'
  BY <1>g, <1>d, <1>LOCK_log, Constants DEF ThreadsInv, LocksInv
<1>5. FilesInv'
  BY <1>g, <1>d, <1>LOCK_log, <1>binlog_id, <1>l, <1>q, Constants DEF
     ThreadsInv, FilesInv
<1>6. GroupInv'
  BY <1>g, <1>d, <1>binlog_id, Constants DEF ThreadsInv, GroupInv
<1>7. TrxInv'
  BY <1>d, <1>l DEF ThreadsInv, TrxInv, TrxOK, Ordered
<1>8. ListInv'
  BY <1>l, <1>d DEF ThreadsInv, ListInv
<1>9. DownInv'
  BY <1>d, <1>l DEF ThreadsInv, DownInv
<1> QED BY <1>1, <1>2, <1>3, <1>4, <1>5, <1>6, <1>7, <1>8, <1>9 DEF ThreadsInv, TypeInv


(* unlog()                                                                 *)
LEMMA UnlogThreads ==
  ASSUME OneEngine, ThreadsInv, NEW t \in Trx, Unlog(t)
  PROVE  ThreadsInv'
<1>t. CoordinatorTypeOK /\ QueueTypeOK /\ ListTypeInv
  BY DEF ThreadsInv, TypeInv
<1>g. server = "up" /\ pc[t] = "unlog" /\ mark[t] = "no"
  BY DEF Unlog, At, MarkXidDone, Decremented
<1>b. file[t] \in Files
  BY <1>t, <1>g DEF ThreadsInv, TrxInv, TrxOK, CoordinatorTypeOK
<1>xid_count. /\ xid_count' = [xid_count EXCEPT ![file[t]] = xid_count[file[t]] - 1]
              /\ xid_count'[file[t]] = xid_count[file[t]] - 1
              /\ \A v \in Files : v # file[t] => xid_count'[v] = xid_count[v]
  BY <1>t, <1>g, <1>b, Constants DEF Unlog, Goto, ListTypeInv, MarkXidDone,
     Decremented
<1>mark. /\ mark' = [mark EXCEPT ![t] = IF CheckpointDue(file[t]) THEN "lock" ELSE "no"]
         /\ mark'[t] = IF CheckpointDue(file[t]) THEN "lock" ELSE "no"
         /\ \A v \in Markers : v # t => mark'[v] = mark[v]
  BY <1>t, <1>g, <1>b, Constants DEF Unlog, Goto, CoordinatorTypeOK,
     MarkXidDone, Decremented
<1>pc. /\ pc' = [pc EXCEPT ![t] = "acked"]
       /\ pc'[t] = "acked"
       /\ \A v \in Sessions : v # t => pc'[v] = pc[v]
  BY <1>t, <1>g, <1>b, Constants DEF Unlog, Goto, CoordinatorTypeOK,
     MarkXidDone, Decremented
<1>d. UNCHANGED <<index, file, unsynced, checkpoint, engine, redo, lsn,
   server, crashes, LOCK_log, LOCK_after_binlog_sync, LOCK_commit_ordered,
   group, binlog_id, check_purge, to_ask, named>>
  BY DEF Unlog, MarkXidDone, Decremented, diskVars, engineVars, redoVars,
     serverVars, lockVars, localVars
<1>l. UNCHANGED <<current_binlog_id, binlog_xid_count_list>>
  BY DEF Unlog, MarkXidDone, Decremented, listVars
<1>q. UNCHANGED <<flushed_lsn, log_requests, seen, flush_notify, notifying,
   binlog_background_thread_queue, next_in_queue, notify_count, bg>>
  BY <1>b DEF Unlog, MarkXidDone, Decremented, ckptVars, engineVars, redoVars,
     requestVars, queueVars
<1>1. CoordinatorTypeOK'
  BY <1>t, <1>g, <1>b, <1>d, <1>pc, <1>mark, Constants DEF CoordinatorTypeOK,
     Labels
<1>2. QueueTypeOK'
  BY <1>t, <1>d, <1>q DEF QueueTypeOK
<1>3. ListTypeInv'
  BY <1>t, <1>g, <1>b, <1>l, <1>xid_count, Constants DEF ListTypeInv
<1>4. LocksInv'
  BY <1>g, <1>b, <1>pc, <1>mark, <1>d, Constants DEF ThreadsInv, LocksInv
<1>5. FilesInv'
  BY <1>g, <1>b, <1>pc, <1>d, <1>l, <1>q, Constants DEF ThreadsInv, FilesInv
<1>6. GroupInv'
  <2>1. \A l \in Sessions : ~Contains(group[l], t)
    BY <1>g, NoGroup DEF Committing
  <2>2. \A u \in Trx : ~Contains(group[t], u)
    BY <1>g, NoGroup DEF Committing
  <2> QED BY <1>g, <1>pc, <1>d, <2>1, <2>2, Constants DEF ThreadsInv, GroupInv
<1>7. TrxInv'
  BY <1>g, <1>b, <1>pc, <1>d, <1>l, Constants DEF ThreadsInv, TrxInv, TrxOK,
     Ordered
<1>8. ListInv'
  BY <1>l, <1>d DEF ThreadsInv, ListInv
<1>9. DownInv'
  BY <1>g, <1>b, <1>d, <1>pc, <1>mark, <1>l, Constants DEF ThreadsInv, DownInv
<1> QED BY <1>1, <1>2, <1>3, <1>4, <1>5, <1>6, <1>7, <1>8, <1>9 DEF ThreadsInv, TypeInv


(* The count that rotate() took is given back.                             *)
LEMMA RequestedThreads ==
  ASSUME OneEngine, ThreadsInv, NEW t \in Sessions, Requested(t)
  PROVE  ThreadsInv'
<1>t. CoordinatorTypeOK /\ QueueTypeOK /\ ListTypeInv
  BY DEF ThreadsInv, TypeInv
<1>g. server = "up" /\ pc[t] = "request" /\ mark[t] = "no"
  BY DEF Requested, At, MarkXidDone, Decremented
<1>b. binlog_id[t] \in Files
  BY <1>t, <1>g, Constants DEF ThreadsInv, FilesInv, CoordinatorTypeOK, ListTypeInv
<1>xid_count. /\ xid_count' = [xid_count EXCEPT ![binlog_id[t]] = xid_count[binlog_id[t]] - 1]
              /\ xid_count'[binlog_id[t]] = xid_count[binlog_id[t]] - 1
              /\ \A v \in Files : v # binlog_id[t] => xid_count'[v] = xid_count[v]
  BY <1>t, <1>g, <1>b, Constants DEF Requested, Goto, ListTypeInv,
     MarkXidDone, Decremented
<1>mark. /\ mark' = [mark EXCEPT ![t] = IF CheckpointDue(binlog_id[t]) THEN "lock" ELSE "no"]
         /\ mark'[t] = IF CheckpointDue(binlog_id[t]) THEN "lock" ELSE "no"
         /\ \A v \in Markers : v # t => mark'[v] = mark[v]
  BY <1>t, <1>g, <1>b, Constants DEF Requested, Goto, CoordinatorTypeOK,
     MarkXidDone, Decremented
<1>pc. /\ pc' = [pc EXCEPT ![t] = IF t \in Trx THEN "ordered" ELSE "end"]
       /\ pc'[t] = IF t \in Trx THEN "ordered" ELSE "end"
       /\ \A v \in Sessions : v # t => pc'[v] = pc[v]
  BY <1>t, <1>g, <1>b, Constants DEF Requested, Goto, CoordinatorTypeOK,
     MarkXidDone, Decremented
<1>f. to_ask[t] = <<>>
  BY DEF Requested
<1>d. UNCHANGED <<index, file, unsynced, checkpoint, engine, redo, lsn,
   server, crashes, LOCK_log, LOCK_after_binlog_sync, LOCK_commit_ordered,
   group, binlog_id, check_purge, to_ask, named>>
  BY DEF Requested, MarkXidDone, Decremented, diskVars, engineVars, redoVars,
     serverVars, lockVars, localVars
<1>l. UNCHANGED <<current_binlog_id, binlog_xid_count_list>>
  BY DEF Requested, MarkXidDone, Decremented, listVars
<1>q. UNCHANGED <<flushed_lsn, log_requests, seen, flush_notify, notifying,
   binlog_background_thread_queue, next_in_queue, notify_count, bg>>
  BY <1>b DEF Requested, MarkXidDone, Decremented, ckptVars, engineVars, redoVars,
     requestVars, queueVars
<1>1. CoordinatorTypeOK'
  BY <1>t, <1>g, <1>b, <1>d, <1>pc, <1>mark, Constants DEF CoordinatorTypeOK,
     Labels
<1>2. QueueTypeOK'
  BY <1>t, <1>d, <1>q DEF QueueTypeOK
<1>3. ListTypeInv'
  BY <1>t, <1>g, <1>b, <1>l, <1>xid_count, Constants DEF ListTypeInv
<1>4. LocksInv'
  BY <1>g, <1>b, <1>pc, <1>mark, <1>d, Constants DEF ThreadsInv, LocksInv
<1>5. FilesInv'
  BY <1>g, <1>b, <1>pc, <1>d, <1>l, <1>q, Constants, <1>f DEF ThreadsInv,
     FilesInv
<1>6. GroupInv'
  BY <1>g, <1>b, <1>d, <1>pc, Constants DEF ThreadsInv, GroupInv, Committing
<1>7. TrxInv'
  BY <1>g, <1>b, <1>pc, <1>d, <1>l, Constants DEF ThreadsInv, TrxInv, TrxOK,
     Ordered
<1>8. ListInv'
  BY <1>l, <1>d DEF ThreadsInv, ListInv
<1>9. DownInv'
  BY <1>g, <1>b, <1>d, <1>pc, <1>mark, <1>l, Constants DEF ThreadsInv, DownInv
<1> QED BY <1>1, <1>2, <1>3, <1>4, <1>5, <1>6, <1>7, <1>8, <1>9 DEF ThreadsInv, TypeInv


(* rotate()                                                                *)
LEMMA RotateThreads ==
  ASSUME OneEngine, ThreadsInv, NEW t \in Sessions, Rotate(t)
  PROVE  ThreadsInv'
<1>t. CoordinatorTypeOK /\ QueueTypeOK /\ ListTypeInv
  BY DEF ThreadsInv, TypeInv
<1>g. server = "up" /\ pc[t] = "rotate" /\ mark[t] = "no" /\ LOCK_log = t /\ current_binlog_id < MaxFile
  BY DEF Rotate, At, Activated
<1>xid_count. /\ xid_count' = [xid_count EXCEPT ![current_binlog_id] = xid_count[current_binlog_id] + 1]
              /\ xid_count'[current_binlog_id] = xid_count[current_binlog_id] + 1
              /\ \A v \in Files : v # current_binlog_id => xid_count'[v] = xid_count[v]
  BY <1>t, <1>g, Constants DEF Rotate, Goto, ListTypeInv, Activated
<1>pc. /\ pc' = [pc EXCEPT ![t] = "open"]
       /\ pc'[t] = "open"
       /\ \A v \in Sessions : v # t => pc'[v] = pc[v]
  BY <1>t, <1>g, Constants DEF Rotate, Goto, CoordinatorTypeOK, Activated
<1>named. named' \in Files
  <2>1. /\ binlog_xid_count_list \in Seq(Files) /\ binlog_xid_count_list # <<>>
        /\ UpTo(binlog_xid_count_list, current_binlog_id)
        /\ current_binlog_id \in Files
    BY <1>t DEF ThreadsInv, ListInv, ListTypeInv
  <2>2. current_binlog_id + 1 \in Files
    BY <1>g, <2>1, MaxFileAssumption DEF Files
  <2> DEFINE U == {f \in Files : xid_count'[f] = 0}
             w == WithoutLeading(binlog_xid_count_list, U)
  <2>3. named' = IF w = <<>> THEN current_binlog_id + 1 ELSE Head(w)
    BY DEF Rotate, InitialCheckpoint
  <2> HIDE DEF U
  <2>4. w # <<>> => Head(w) \in Files
    BY <2>1, LeadingRemoved
  <2> QED BY <2>2, <2>3, <2>4
<1>d. UNCHANGED <<index, file, unsynced, checkpoint, engine, redo, lsn,
   server, crashes, LOCK_log, LOCK_after_binlog_sync, LOCK_commit_ordered,
   group, binlog_id, check_purge, to_ask, mark>>
  BY DEF Rotate, Activated, diskVars, engineVars, redoVars, serverVars,
     lockVars, localVars
<1>l. UNCHANGED <<current_binlog_id, binlog_xid_count_list>>
  BY DEF Rotate, Activated, listVars
<1>q. UNCHANGED <<flushed_lsn, log_requests, seen, flush_notify, notifying,
   binlog_background_thread_queue, next_in_queue, notify_count, bg>>
  BY DEF Rotate, Activated, ckptVars, engineVars, redoVars, requestVars,
     queueVars
<1>1. CoordinatorTypeOK'
  BY <1>t, <1>g, <1>d, <1>pc, <1>named, Constants DEF CoordinatorTypeOK,
     Labels
<1>2. QueueTypeOK'
  BY <1>t, <1>d, <1>q DEF QueueTypeOK
<1>3. ListTypeInv'
  BY <1>t, <1>g, <1>l, <1>xid_count, Constants DEF ListTypeInv
<1>4. LocksInv'
  BY <1>g, <1>pc, <1>d, Constants DEF ThreadsInv, LocksInv
<1>5. FilesInv'
  BY <1>g, <1>pc, <1>d, <1>l, <1>named, <1>q, Constants DEF ThreadsInv,
     FilesInv
<1>6. GroupInv'
  BY <1>g, <1>d, <1>pc, Constants DEF ThreadsInv, GroupInv, Committing
<1>7. TrxInv'
  BY <1>g, <1>pc, <1>d, <1>l, Constants DEF ThreadsInv, TrxInv, TrxOK, Ordered
<1>8. ListInv'
  BY <1>l, <1>d DEF ThreadsInv, ListInv
<1>9. DownInv'
  BY <1>g, <1>d, <1>pc, <1>named, <1>l, Constants DEF ThreadsInv, DownInv
<1> QED BY <1>1, <1>2, <1>3, <1>4, <1>5, <1>6, <1>7, <1>8, <1>9 DEF ThreadsInv, TypeInv


(* new_file_impl() fails.                                                  *)
LEMMA RotateFailsThreads ==
  ASSUME OneEngine, ThreadsInv, NEW t \in Sessions, RotateFails(t)
  PROVE  ThreadsInv'
<1>t. CoordinatorTypeOK /\ QueueTypeOK /\ ListTypeInv
  BY DEF ThreadsInv, TypeInv
<1>g. server = "up" /\ pc[t] = "open" /\ mark[t] = "no"
  BY DEF RotateFails, At, Decremented
<1>b. binlog_id[t] \in Files
  BY <1>t, <1>g, Constants DEF ThreadsInv, FilesInv, CoordinatorTypeOK, ListTypeInv
<1>xid_count. /\ xid_count' = [xid_count EXCEPT ![binlog_id[t]] = xid_count[binlog_id[t]] - 1]
              /\ xid_count'[binlog_id[t]] = xid_count[binlog_id[t]] - 1
              /\ \A v \in Files : v # binlog_id[t] => xid_count'[v] = xid_count[v]
  BY <1>t, <1>g, <1>b, Constants DEF RotateFails, Goto, ListTypeInv,
     Decremented
<1>named. named' = NoFile
  BY DEF RotateFails, Decremented
<1>pc. /\ pc' = [pc EXCEPT ![t] = "after"]
       /\ pc'[t] = "after"
       /\ \A v \in Sessions : v # t => pc'[v] = pc[v]
  BY <1>t, <1>g, <1>b, Constants DEF RotateFails, Goto, CoordinatorTypeOK,
     Decremented
<1>d. UNCHANGED <<index, file, unsynced, checkpoint, engine, redo, lsn,
   server, crashes, LOCK_log, LOCK_after_binlog_sync, LOCK_commit_ordered,
   group, binlog_id, check_purge, to_ask, mark>>
  BY DEF RotateFails, Decremented, diskVars, engineVars, redoVars, serverVars,
     lockVars, localVars
<1>l. UNCHANGED <<current_binlog_id, binlog_xid_count_list>>
  BY DEF RotateFails, Decremented, listVars
<1>q. UNCHANGED <<flushed_lsn, log_requests, seen, flush_notify, notifying,
   binlog_background_thread_queue, next_in_queue, notify_count, bg>>
  BY <1>b DEF RotateFails, Decremented, ckptVars, engineVars, redoVars,
     requestVars, queueVars
<1>1. CoordinatorTypeOK'
  BY <1>t, <1>g, <1>b, <1>d, <1>pc, <1>named, Constants DEF CoordinatorTypeOK,
     Labels
<1>2. QueueTypeOK'
  BY <1>t, <1>d, <1>q DEF QueueTypeOK
<1>3. ListTypeInv'
  BY <1>t, <1>g, <1>b, <1>l, <1>xid_count, Constants DEF ListTypeInv
<1>4. LocksInv'
  BY <1>g, <1>b, <1>pc, <1>d, Constants DEF ThreadsInv, LocksInv
<1>5. FilesInv'
  BY <1>g, <1>b, <1>pc, <1>d, <1>l, <1>named, <1>q, Constants DEF ThreadsInv,
     FilesInv, LocksInv
<1>6. GroupInv'
  BY <1>g, <1>b, <1>d, <1>pc, Constants DEF ThreadsInv, GroupInv, Committing
<1>7. TrxInv'
  BY <1>g, <1>b, <1>pc, <1>d, <1>l, Constants DEF ThreadsInv, TrxInv, TrxOK,
     Ordered
<1>8. ListInv'
  BY <1>l, <1>d DEF ThreadsInv, ListInv
<1>9. DownInv'
  BY <1>g, <1>b, <1>d, <1>pc, <1>named, <1>l, Constants DEF ThreadsInv,
     DownInv
<1> QED BY <1>1, <1>2, <1>3, <1>4, <1>5, <1>6, <1>7, <1>8, <1>9 DEF ThreadsInv, TypeInv


(* open()                                                                  *)
LEMMA OpenNewThreads ==
  ASSUME OneEngine, ThreadsInv, NEW t \in Sessions, OpenNew(t)
  PROVE  ThreadsInv'
<1>t. CoordinatorTypeOK /\ QueueTypeOK /\ ListTypeInv
  BY DEF ThreadsInv, TypeInv
<1>g. server = "up" /\ pc[t] = "open" /\ mark[t] = "no"
  BY DEF OpenNew, At, Linked
<1>new. /\ current_binlog_id + 1 \in Files /\ current_binlog_id \in Nat
       /\ binlog_id[t] = current_binlog_id /\ LOCK_log = t /\ ~check_purge[t]
  <2>1. current_binlog_id < MaxFile /\ current_binlog_id \in Files
    BY <1>t, <1>g DEF ThreadsInv, FilesInv, ListTypeInv
  <2>2. current_binlog_id + 1 \in Files /\ current_binlog_id \in Nat
    BY <2>1, MaxFileAssumption DEF Files
  <2> QED BY <1>g, <2>2 DEF ThreadsInv, FilesInv, LocksInv
<1>others. \A u \in Sessions : u # t =>
              pc[u] \notin {"write", "open", "after"} /\ LOCK_log # u
  BY <1>new DEF ThreadsInv, LocksInv
<1>index. index' = index \cup {current_binlog_id + 1}
  BY DEF OpenNew, Linked
<1>checkpoint. /\ checkpoint' = [checkpoint EXCEPT ![current_binlog_id + 1] = named]
               /\ checkpoint'[current_binlog_id + 1] = named
               /\ \A v \in Files : v # current_binlog_id + 1 => checkpoint'[v] = checkpoint[v]
  BY <1>t, <1>g, <1>new, <1>others, Constants DEF OpenNew, Goto,
     CoordinatorTypeOK, Linked
<1>named. named' = NoFile
  BY DEF OpenNew, Linked
<1>check_purge. /\ check_purge' = [check_purge EXCEPT ![t] = TRUE]
                /\ check_purge'[t] = TRUE
                /\ \A v \in Sessions : v # t => check_purge'[v] = check_purge[v]
  BY <1>t, <1>g, <1>new, <1>others, Constants DEF OpenNew, Goto,
     CoordinatorTypeOK, Linked
<1>pc. /\ pc' = [pc EXCEPT ![t] = "after"]
       /\ pc'[t] = "after"
       /\ \A v \in Sessions : v # t => pc'[v] = pc[v]
  BY <1>t, <1>g, <1>new, <1>others, Constants DEF OpenNew, Goto,
     CoordinatorTypeOK, Linked
<1>current_binlog_id. current_binlog_id' = current_binlog_id + 1
  BY DEF OpenNew, Linked
<1>binlog_xid_count_list. 
         /\ binlog_xid_count_list' \in Seq(Files) /\ binlog_xid_count_list' # <<>>
         /\ UpTo(binlog_xid_count_list', current_binlog_id + 1)
         /\ Head(binlog_xid_count_list) <= Head(binlog_xid_count_list')
         /\ Head(binlog_xid_count_list') <= current_binlog_id + 1
         /\ Head(binlog_xid_count_list') \in Nat
  <2>1. /\ binlog_xid_count_list \in Seq(Files) /\ binlog_xid_count_list # <<>>
        /\ UpTo(binlog_xid_count_list, current_binlog_id)
        /\ current_binlog_id \in Files
    BY <1>t DEF ThreadsInv, ListInv, ListTypeInv
  <2>2. Linked(current_binlog_id + 1)
    BY DEF OpenNew
  <2> QED BY <1>new, <2>1, <2>2, LinkedList, Constants
<1>d. UNCHANGED <<file, unsynced, engine, redo, lsn, server, crashes,
   LOCK_log, LOCK_after_binlog_sync, LOCK_commit_ordered, group, binlog_id,
   to_ask, mark>>
  BY DEF OpenNew, Linked, diskVars, engineVars, redoVars, serverVars,
     lockVars, localVars
<1>l. UNCHANGED <<xid_count>>
  BY DEF OpenNew, Linked, listVars
<1>q. UNCHANGED <<flushed_lsn, log_requests, seen, flush_notify, notifying,
   binlog_background_thread_queue, next_in_queue, notify_count, bg>>
  BY <1>new, <1>others DEF OpenNew, Linked, ckptVars, engineVars, redoVars, requestVars,
     queueVars
<1>1. CoordinatorTypeOK'
  BY <1>t, <1>g, <1>new, <1>others, <1>index, <1>d, <1>checkpoint, <1>pc,
     <1>check_purge, <1>named, Constants DEF CoordinatorTypeOK, Labels
<1>2. QueueTypeOK'
  BY <1>t, <1>d, <1>q DEF QueueTypeOK
<1>3. ListTypeInv'
  BY <1>t, <1>g, <1>new, <1>others, <1>current_binlog_id,
     <1>binlog_xid_count_list, <1>l, Constants DEF ListTypeInv
<1>4. LocksInv'
  BY <1>g, <1>new, <1>others, <1>pc, <1>d, Constants DEF ThreadsInv, LocksInv
<1>5. FilesInv'
  <2>1. \A u \in Sessions : binlog_id[u] \in Nat
    BY <1>t, FilesAreNumbers
  <2>2. \A u \in Sessions : check_purge[u] => binlog_id[u] < current_binlog_id
    BY DEF ThreadsInv, FilesInv
  <2>3. \A u \in Sessions : check_purge[u] => /\ binlog_id[u] < current_binlog_id + 1
                                              /\ binlog_id[u] # binlog_id[t]
    BY <1>new, <2>1, <2>2
  <2>4. binlog_id[t] < current_binlog_id + 1 /\ binlog_id[t] # NoFile
    BY <1>new, <1>t, Constants DEF ListTypeInv
  <2> QED BY <1>t, <1>g, <1>new, <1>others, <1>pc, <1>d, <1>current_binlog_id, <1>check_purge,
      <1>named, <1>q, Constants, <2>3, <2>4 DEF ThreadsInv, FilesInv
<1>6. GroupInv'
  BY <1>g, <1>new, <1>others, <1>d, <1>pc, Constants DEF ThreadsInv, GroupInv,
     Committing
<1>7. TrxInv'
  <2>1. \A u \in Trx : file[u] \in Nat
    BY <1>t, FilesAreNumbers
  <2>2. \A u \in Trx : file[u] <= current_binlog_id + 1
    BY <1>new, <2>1 DEF ThreadsInv, TrxInv, TrxOK
  <2>3. Contains(group[t], t) \/ t \notin Trx
    BY <1>g DEF ThreadsInv, TrxInv, TrxOK
  <2> QED BY <1>t, <1>g, <1>new, <1>others, <1>pc, <1>d, <1>current_binlog_id, Constants, <2>2,
      <2>3 DEF ThreadsInv, TrxInv, TrxOK, Ordered
<1>8. ListInv'
  <2>1. Head(binlog_xid_count_list) \in index /\ Head(binlog_xid_count_list) \in Nat
    BY <1>t, Constants DEF ThreadsInv, ListInv, CoordinatorTypeOK
  <2>2. index \subseteq Nat
    BY <1>t, Constants DEF CoordinatorTypeOK
  <2>3. \A f \in index : f <= current_binlog_id /\ f .. current_binlog_id \subseteq index
    BY DEF ThreadsInv, ListInv
  <2>4. ASSUME NEW f \in index'
        PROVE  f <= current_binlog_id + 1 /\ f .. current_binlog_id + 1 \subseteq index'
    <3>1. CASE f = current_binlog_id + 1
      BY <3>1, <1>new, <1>index
    <3>2. CASE f \in index
      <4>1. f \in Nat /\ f <= current_binlog_id /\ \A g \in f .. current_binlog_id : g \in index
        BY <3>2, <2>2, <2>3
      <4>2. \A g \in f .. current_binlog_id + 1 :
              g = current_binlog_id + 1 \/ g \in f .. current_binlog_id
        BY <4>1, <1>new
      <4> QED BY <4>1, <4>2, <1>new, <1>index
    <3> QED BY <3>1, <3>2, <2>4, <1>index
  <2>5. Head(binlog_xid_count_list') \in index'
    <3>1. CASE Head(binlog_xid_count_list') = current_binlog_id + 1
      BY <3>1, <1>index
    <3>2. CASE Head(binlog_xid_count_list') <= current_binlog_id
      <4>1. Head(binlog_xid_count_list') \in Head(binlog_xid_count_list) .. current_binlog_id
        BY <3>2, <1>new, <1>binlog_xid_count_list, <2>1
      <4> QED BY <4>1, <2>1, <2>3, <1>index
    <3> QED BY <3>1, <3>2, <1>new, <1>binlog_xid_count_list
  <2> QED BY <2>4, <2>5, <1>binlog_xid_count_list, <1>current_binlog_id DEF ListInv
<1>9. DownInv'
  BY <1>g, <1>new, <1>others, <1>d, <1>pc, <1>check_purge, <1>named,
     <1>current_binlog_id, Constants DEF ThreadsInv, DownInv
<1> QED BY <1>1, <1>2, <1>3, <1>4, <1>5, <1>6, <1>7, <1>8, <1>9 DEF ThreadsInv, TypeInv


(* ReleaseLog                                                              *)
LEMMA ReleaseLogThreads ==
  ASSUME OneEngine, ThreadsInv, NEW t \in Sessions, ReleaseLog(t)
  PROVE  ThreadsInv'
<1>t. CoordinatorTypeOK /\ QueueTypeOK /\ ListTypeInv
  BY DEF ThreadsInv, TypeInv
<1>g. server = "up" /\ pc[t] = "after" /\ mark[t] = "no" /\ LOCK_log' = NoThread
  BY DEF ReleaseLog, At, Goto
<1>r. LOCK_log = t /\ binlog_id[t] # NoFile
  BY <1>t, <1>g, Constants DEF ThreadsInv, LocksInv, FilesInv, ListTypeInv
<1>LOCK_log. LOCK_log' = NoThread
  BY DEF ReleaseLog, Goto
<1>pc. /\ \A u \in Sessions : u # t => pc'[u] = pc[u]
       /\ pc' \in [Sessions -> Labels]
       /\ \/ /\ t \in Rotators /\ pc'[t] = (IF check_purge[t] THEN "request" ELSE "end")
             /\ LOCK_after_binlog_sync' = LOCK_after_binlog_sync
          \/ /\ pc'[t] = "order" /\ LOCK_after_binlog_sync = NoThread
             /\ LOCK_after_binlog_sync' = t
  <2>1. pc \in [Sessions -> Labels]
    BY <1>t DEF CoordinatorTypeOK
  <2>2. CASE t \in ChecksumSetters
    <3>1. pc' = [pc EXCEPT ![t] = IF check_purge[t] THEN "request" ELSE "end"]
          /\ LOCK_after_binlog_sync' = LOCK_after_binlog_sync
      BY <2>2 DEF ReleaseLog, Goto
    <3>2. t \in Rotators /\ {"request", "end"} \subseteq Labels
      BY <2>2, XaAssumption DEF Labels
    <3> QED BY <2>1, <3>1, <3>2
  <2>3. CASE t \notin ChecksumSetters
    <3>1. /\ pc' = [pc EXCEPT ![t] = "order"] /\ LOCK_after_binlog_sync = NoThread
          /\ LOCK_after_binlog_sync' = t
      BY <2>3 DEF ReleaseLog, Goto
    <3>2. "order" \in Labels
      BY DEF Labels
    <3> QED BY <2>1, <3>1, <3>2
  <2> QED BY <2>2, <2>3
<1>d. UNCHANGED <<index, file, unsynced, checkpoint, engine, redo, lsn,
   server, crashes, LOCK_commit_ordered, group, binlog_id, check_purge,
   to_ask, named, mark>>
  BY DEF ReleaseLog, Goto, diskVars, engineVars, redoVars, serverVars,
     lockVars, localVars
<1>l. UNCHANGED <<current_binlog_id, binlog_xid_count_list, xid_count>>
  BY DEF ReleaseLog, Goto, listVars
<1>q. UNCHANGED <<flushed_lsn, log_requests, seen, flush_notify, notifying,
   binlog_background_thread_queue, next_in_queue, notify_count, bg>>
  BY <1>r DEF ReleaseLog, Goto, ckptVars, engineVars, redoVars, requestVars,
     queueVars
<1>1. CoordinatorTypeOK'
  BY <1>t, <1>g, <1>r, <1>d, <1>pc, <1>LOCK_log, Constants DEF
     CoordinatorTypeOK, Labels
<1>2. QueueTypeOK'
  BY <1>t, <1>d, <1>q DEF QueueTypeOK
<1>3. ListTypeInv'
  BY <1>t, <1>l DEF ListTypeInv
<1>4. LocksInv'
  BY <1>g, <1>r, <1>pc, <1>d, <1>LOCK_log, Constants DEF ThreadsInv, LocksInv
<1>5. FilesInv'
  BY <1>g, <1>r, <1>pc, <1>LOCK_log, <1>d, <1>l, <1>q, Constants DEF
     ThreadsInv, FilesInv
<1>6. GroupInv'
  BY <1>g, <1>r, <1>d, <1>pc, Constants DEF ThreadsInv, GroupInv, Committing
<1>7. TrxInv'
  BY <1>g, <1>r, <1>pc, <1>d, <1>l, Constants DEF ThreadsInv, TrxInv, TrxOK,
     Ordered
<1>8. ListInv'
  BY <1>l, <1>d DEF ThreadsInv, ListInv
<1>9. DownInv'
  BY <1>g, <1>r, <1>d, <1>pc, <1>l, Constants DEF ThreadsInv, DownInv
<1> QED BY <1>1, <1>2, <1>3, <1>4, <1>5, <1>6, <1>7, <1>8, <1>9 DEF ThreadsInv, TypeInv


(* CommitLock                                                              *)
LEMMA CommitLockThreads ==
  ASSUME OneEngine, ThreadsInv, NEW t \in Sessions, CommitLock(t)
  PROVE  ThreadsInv'
<1>t. CoordinatorTypeOK /\ QueueTypeOK /\ ListTypeInv
  BY DEF ThreadsInv, TypeInv
<1>g. server = "up" /\ pc[t] = "order" /\ mark[t] = "no" /\ LOCK_commit_ordered = NoThread
  BY DEF CommitLock, At
<1>LOCK_commit_ordered. LOCK_commit_ordered' = t
  BY DEF CommitLock
<1>LOCK_after_binlog_sync. LOCK_after_binlog_sync' = NoThread
  BY DEF CommitLock
<1>pc. /\ pc' = [pc EXCEPT ![t] = "commit"]
       /\ pc'[t] = "commit"
       /\ \A v \in Sessions : v # t => pc'[v] = pc[v]
  BY <1>t, <1>g, Constants DEF CommitLock, Goto, CoordinatorTypeOK
<1>d. UNCHANGED <<index, file, unsynced, checkpoint, engine, redo, lsn,
   server, crashes, LOCK_log, group, binlog_id, check_purge, to_ask, named,
   mark>>
  BY DEF CommitLock, diskVars, engineVars, redoVars, serverVars, lockVars,
     localVars
<1>l. UNCHANGED <<current_binlog_id, binlog_xid_count_list, xid_count>>
  BY DEF CommitLock, listVars
<1>q. UNCHANGED <<flushed_lsn, log_requests, seen, flush_notify, notifying,
   binlog_background_thread_queue, next_in_queue, notify_count, bg>>
  BY DEF CommitLock, ckptVars, engineVars, redoVars, requestVars, queueVars
<1>1. CoordinatorTypeOK'
  BY <1>t, <1>g, <1>d, <1>pc, <1>LOCK_after_binlog_sync,
     <1>LOCK_commit_ordered, Constants DEF CoordinatorTypeOK, Labels
<1>2. QueueTypeOK'
  BY <1>t, <1>d, <1>q DEF QueueTypeOK
<1>3. ListTypeInv'
  BY <1>t, <1>l DEF ListTypeInv
<1>4. LocksInv'
  BY <1>g, <1>pc, <1>d, <1>LOCK_after_binlog_sync, <1>LOCK_commit_ordered,
     Constants DEF ThreadsInv, LocksInv
<1>5. FilesInv'
  BY <1>g, <1>pc, <1>d, <1>l, <1>q, Constants DEF ThreadsInv, FilesInv
<1>6. GroupInv'
  BY <1>g, <1>d, <1>pc, Constants DEF ThreadsInv, GroupInv, Committing
<1>7. TrxInv'
  BY <1>g, <1>pc, <1>d, <1>l, Constants DEF ThreadsInv, TrxInv, TrxOK, Ordered
<1>8. ListInv'
  BY <1>l, <1>d DEF ThreadsInv, ListInv
<1>9. DownInv'
  BY <1>g, <1>d, <1>pc, <1>l, Constants DEF ThreadsInv, DownInv
<1> QED BY <1>1, <1>2, <1>3, <1>4, <1>5, <1>6, <1>7, <1>8, <1>9 DEF ThreadsInv, TypeInv


(* CommitUnlock                                                            *)
LEMMA CommitUnlockThreads ==
  ASSUME OneEngine, ThreadsInv, NEW t \in Sessions, CommitUnlock(t)
  PROVE  ThreadsInv'
<1>t. CoordinatorTypeOK /\ QueueTypeOK /\ ListTypeInv
  BY DEF ThreadsInv, TypeInv
<1>g. server = "up" /\ pc[t] = "commit" /\ mark[t] = "no" /\ group[t] = <<>>
  BY DEF CommitUnlock, At
<1>e. \A u : ~Contains(group[t], u)
  BY <1>g, EmptyList
<1>LOCK_commit_ordered. LOCK_commit_ordered' = NoThread
  BY DEF CommitUnlock
<1>pc. /\ pc' = [pc EXCEPT ![t] = IF check_purge[t] THEN "request" ELSE IF t \in Trx THEN "ordered" ELSE "end"]
       /\ pc'[t] = IF check_purge[t] THEN "request" ELSE IF t \in Trx THEN "ordered" ELSE "end"
       /\ \A v \in Sessions : v # t => pc'[v] = pc[v]
  BY <1>t, <1>g, <1>e, Constants DEF CommitUnlock, Goto, CoordinatorTypeOK
<1>w. /\ pc'[t] \in {"request", "ordered", "end"}
      /\ t \in Trx => pc'[t] # "end"
      /\ t \in Rotators => pc'[t] # "ordered"
  BY <1>pc, Constants
<1>d. UNCHANGED <<index, file, unsynced, checkpoint, engine, redo, lsn,
   server, crashes, LOCK_log, LOCK_after_binlog_sync, group, binlog_id,
   check_purge, to_ask, named, mark>>
  BY DEF CommitUnlock, diskVars, engineVars, redoVars, serverVars, lockVars,
     localVars
<1>l. UNCHANGED <<current_binlog_id, binlog_xid_count_list, xid_count>>
  BY DEF CommitUnlock, listVars
<1>q. UNCHANGED <<flushed_lsn, log_requests, seen, flush_notify, notifying,
   binlog_background_thread_queue, next_in_queue, notify_count, bg>>
  BY <1>e DEF CommitUnlock, ckptVars, engineVars, redoVars, requestVars, queueVars
<1>1. CoordinatorTypeOK'
  BY <1>t, <1>g, <1>e, <1>d, <1>pc, <1>LOCK_commit_ordered, Constants DEF
     CoordinatorTypeOK, Labels
<1>2. QueueTypeOK'
  BY <1>t, <1>d, <1>q DEF QueueTypeOK
<1>3. ListTypeInv'
  BY <1>t, <1>l DEF ListTypeInv
<1>4. LocksInv'
  BY <1>g, <1>w, <1>d, <1>pc, <1>LOCK_commit_ordered, Constants DEF
     ThreadsInv, LocksInv
<1>5. FilesInv'
  BY <1>g, <1>e, <1>pc, <1>d, <1>l, <1>q, Constants DEF ThreadsInv, FilesInv
<1>6. GroupInv'
  BY <1>g, <1>e, <1>d, <1>pc, Constants DEF ThreadsInv, GroupInv, Committing
<1>7. TrxInv'
  BY <1>g, <1>e, <1>pc, <1>d, <1>l, Constants DEF ThreadsInv, TrxInv, TrxOK,
     Ordered
<1>8. ListInv'
  BY <1>l, <1>d DEF ThreadsInv, ListInv
<1>9. DownInv'
  BY <1>g, <1>e, <1>d, <1>pc, <1>l, Constants DEF ThreadsInv, DownInv
<1> QED BY <1>1, <1>2, <1>3, <1>4, <1>5, <1>6, <1>7, <1>8, <1>9 DEF ThreadsInv, TypeInv


(* do_checkpoint_request()                                                 *)
LEMMA RequestCheckpointThreads ==
  ASSUME OneEngine, ThreadsInv, NEW t \in Sessions, RequestCheckpoint(t)
  PROVE  ThreadsInv'
<1>t. CoordinatorTypeOK /\ QueueTypeOK /\ ListTypeInv
  BY DEF ThreadsInv, TypeInv
<1>g. server = "up" /\ pc[t] = "request" /\ mark[t] = "no" /\ to_ask[t] # <<>>
  BY DEF RequestCheckpoint, At, Activated, ReadLsn
<1>b. binlog_id[t] \in Files
  BY <1>t, <1>g, Constants DEF ThreadsInv, FilesInv, CoordinatorTypeOK, ListTypeInv
<1>ask. to_ask[t] = Engines /\ Tail(to_ask[t]) = <<>> /\ Head(to_ask[t]) = "InnoDB"
  <2>1. to_ask[t] \in {Engines, Tail(Engines), <<>>}
    BY <1>t DEF CoordinatorTypeOK
  <2> QED BY <2>1, <1>g, OneEngineToAsk
<1>to_ask. /\ to_ask' = [to_ask EXCEPT ![t] = <<>>]
           /\ to_ask'[t] = <<>>
           /\ \A v \in Sessions : v # t => to_ask'[v] = to_ask[v]
  BY <1>t, <1>g, <1>b, <1>ask, Constants DEF RequestCheckpoint, Goto,
     CoordinatorTypeOK, Activated, ReadLsn
<1>xid_count. /\ xid_count' = [xid_count EXCEPT ![binlog_id[t]] = xid_count[binlog_id[t]] + 1]
              /\ xid_count'[binlog_id[t]] = xid_count[binlog_id[t]] + 1
              /\ \A v \in Files : v # binlog_id[t] => xid_count'[v] = xid_count[v]
  BY <1>t, <1>g, <1>b, <1>ask, Constants DEF RequestCheckpoint, Goto,
     ListTypeInv, Activated, ReadLsn
<1>seen. /\ seen' = [seen EXCEPT ![t] = [lsn |-> lsn, flushed |-> flushed_lsn]]
         /\ seen'[t] = [lsn |-> lsn, flushed |-> flushed_lsn]
         /\ \A v \in Threads : v # t => seen'[v] = seen[v]
  BY <1>t, <1>g, <1>b, <1>ask, Constants DEF RequestCheckpoint, Goto,
     QueueTypeOK, Activated, ReadLsn
<1>pc. /\ pc' = [pc EXCEPT ![t] = "flush"]
       /\ pc'[t] = "flush"
       /\ \A v \in Sessions : v # t => pc'[v] = pc[v]
  BY <1>t, <1>g, <1>b, <1>ask, Constants DEF RequestCheckpoint, Goto,
     CoordinatorTypeOK, Activated, ReadLsn
<1>d. UNCHANGED <<index, file, unsynced, checkpoint, engine, redo, lsn,
   server, crashes, LOCK_log, LOCK_after_binlog_sync, LOCK_commit_ordered,
   group, binlog_id, check_purge, named, mark>>
  BY DEF RequestCheckpoint, Activated, ReadLsn, diskVars, engineVars,
     redoVars, serverVars, lockVars, localVars
<1>l. UNCHANGED <<current_binlog_id, binlog_xid_count_list>>
  BY DEF RequestCheckpoint, Activated, ReadLsn, listVars
<1>q. UNCHANGED <<flushed_lsn, log_requests, flush_notify, notifying,
   binlog_background_thread_queue, next_in_queue, notify_count, bg>>
  BY <1>b, <1>ask DEF RequestCheckpoint, Activated, ReadLsn, ckptVars, engineVars,
     redoVars, requestVars, queueVars
<1>1. CoordinatorTypeOK'
  BY <1>t, <1>g, <1>b, <1>ask, <1>d, <1>pc, <1>to_ask, Constants DEF
     CoordinatorTypeOK, Labels
<1>2. QueueTypeOK'
  <2>1. [lsn |-> lsn, flushed |-> flushed_lsn] \in [lsn : Nat, flushed : Nat]
    BY <1>t DEF QueueTypeOK
  <2>2. seen' \in [Threads -> [lsn : Nat, flushed : Nat] \cup {NoLsn}]
    BY <1>t, <1>seen, <2>1 DEF QueueTypeOK
  <2> QED BY <1>t, <2>2, <1>d, <1>q DEF QueueTypeOK
<1>3. ListTypeInv'
  BY <1>t, <1>g, <1>b, <1>ask, <1>l, <1>xid_count, Constants DEF ListTypeInv
<1>4. LocksInv'
  BY <1>g, <1>b, <1>ask, <1>pc, <1>d, Constants DEF ThreadsInv, LocksInv
<1>5. FilesInv'
  BY <1>g, <1>b, <1>ask, <1>pc, <1>d, <1>l, <1>to_ask, <1>seen, Constants,
     LsnIsSome DEF ThreadsInv, FilesInv
<1>6. GroupInv'
  BY <1>g, <1>b, <1>ask, <1>d, <1>pc, Constants DEF ThreadsInv, GroupInv,
     Committing
<1>7. TrxInv'
  BY <1>g, <1>b, <1>ask, <1>pc, <1>d, <1>l, Constants DEF ThreadsInv, TrxInv,
     TrxOK, Ordered
<1>8. ListInv'
  BY <1>l, <1>d DEF ThreadsInv, ListInv
<1>9. DownInv'
  BY <1>g, <1>b, <1>ask, <1>d, <1>pc, <1>l, Constants DEF ThreadsInv, DownInv
<1> QED BY <1>1, <1>2, <1>3, <1>4, <1>5, <1>6, <1>7, <1>8, <1>9 DEF ThreadsInv, TypeInv


(* innodb_log_flush_request()                                              *)
LEMMA InnodbQueuesThreads ==
  ASSUME OneEngine, ThreadsInv, NEW t \in Sessions, InnodbQueues(t)
  PROVE  ThreadsInv'
<1>t. CoordinatorTypeOK /\ QueueTypeOK /\ ListTypeInv
  BY DEF ThreadsInv, TypeInv
<1>g. server = "up" /\ pc[t] = "flush" /\ mark[t] = "no"
  BY DEF InnodbQueues, At, QueueRequest
<1>b. binlog_id[t] \in Files
  BY <1>t, <1>g, Constants DEF ThreadsInv, FilesInv, CoordinatorTypeOK, ListTypeInv
<1>seen. /\ seen' = [seen EXCEPT ![t] = NoLsn]
         /\ seen'[t] = NoLsn
         /\ \A v \in Threads : v # t => seen'[v] = seen[v]
  BY <1>t, <1>g, <1>b, Constants DEF InnodbQueues, Goto, QueueTypeOK,
     QueueRequest
<1>pc. /\ pc' = [pc EXCEPT ![t] = "request"]
       /\ pc'[t] = "request"
       /\ \A v \in Sessions : v # t => pc'[v] = pc[v]
  BY <1>t, <1>g, <1>b, Constants DEF InnodbQueues, Goto, CoordinatorTypeOK,
     QueueRequest
<1>d. UNCHANGED <<index, file, unsynced, checkpoint, engine, redo, lsn,
   server, crashes, LOCK_log, LOCK_after_binlog_sync, LOCK_commit_ordered,
   group, binlog_id, check_purge, to_ask, named, mark>>
  BY DEF InnodbQueues, QueueRequest, diskVars, engineVars, redoVars,
     serverVars, lockVars, localVars
<1>l. UNCHANGED <<current_binlog_id, binlog_xid_count_list, xid_count>>
  BY DEF InnodbQueues, QueueRequest, listVars
<1>q. UNCHANGED <<flushed_lsn, flush_notify, binlog_background_thread_queue,
   next_in_queue, notify_count, bg>>
  BY <1>b DEF InnodbQueues, QueueRequest, ckptVars, engineVars, redoVars,
     requestVars, queueVars
<1>1. CoordinatorTypeOK'
  BY <1>t, <1>g, <1>b, <1>d, <1>pc, Constants DEF CoordinatorTypeOK, Labels
<1>2. QueueTypeOK'
  <2>1. seen[t] \in [lsn : Nat, flushed : Nat]
    BY <1>t, <1>g, Constants DEF ThreadsInv, FilesInv, QueueTypeOK
  <2>2. QueueRequest(t, binlog_id[t]) /\ t \in Threads
    BY Constants DEF InnodbQueues
  <2>3. PICK list \in Seq(Requests), own \in Seq(Files), to \in Nat :
          Detached(t, list, to, own)
    BY <1>t, <1>b, <2>1, <2>2, RequestQueued
  <2>4. notifying \in [Threads -> Seq(Files)]
    BY <1>t DEF QueueTypeOK
  <2>5. log_requests' \in Seq(Requests) /\ notifying' \in [Threads -> Seq(Files)]
    BY <2>2, <2>3, <2>4, DetachedLists DEF FirstDetached
  <2> QED BY <1>t, <2>5, <1>seen, <1>d, <1>q DEF QueueTypeOK
<1>3. ListTypeInv'
  BY <1>t, <1>l DEF ListTypeInv
<1>4. LocksInv'
  BY <1>g, <1>b, <1>pc, <1>d, Constants DEF ThreadsInv, LocksInv
<1>5. FilesInv'
  BY <1>g, <1>b, <1>pc, <1>d, <1>l, <1>seen, Constants, <1>seen DEF
     ThreadsInv, FilesInv
<1>6. GroupInv'
  BY <1>g, <1>b, <1>d, <1>pc, Constants DEF ThreadsInv, GroupInv, Committing
<1>7. TrxInv'
  BY <1>g, <1>b, <1>pc, <1>d, <1>l, Constants DEF ThreadsInv, TrxInv, TrxOK,
     Ordered
<1>8. ListInv'
  BY <1>l, <1>d DEF ThreadsInv, ListInv
<1>9. DownInv'
  BY <1>g, <1>b, <1>d, <1>pc, <1>l, Constants DEF ThreadsInv, DownInv
<1> QED BY <1>1, <1>2, <1>3, <1>4, <1>5, <1>6, <1>7, <1>8, <1>9 DEF ThreadsInv, TypeInv


(* run_commit_ordered()                                                    *)
LEMMA CommitOrderedThreads ==
  ASSUME OneEngine, ThreadsInv, NEW t \in Trx, CommitOrdered(t)
  PROVE  ThreadsInv'
<1>t. CoordinatorTypeOK /\ QueueTypeOK /\ ListTypeInv
  BY DEF ThreadsInv, TypeInv
<1>g. server = "up" /\ pc[t] = "commit" /\ mark[t] = "no" /\ group[t] # <<>>
  BY DEF CommitOrdered, At
<1>group. /\ group' = [group EXCEPT ![t] = Tail(group[t])]
          /\ group'[t] = Tail(group[t])
          /\ \A v \in Sessions : v # t => group'[v] = group[v]
  BY <1>t, <1>g, Constants DEF CommitOrdered, Goto, CoordinatorTypeOK
<1>u. PICK u \in Trx : /\ u = Head(group[t]) /\ Contains(group[t], u)
                       /\ engine[u] = "prepared" /\ file[u] # NoFile
                       /\ u = t \/ pc[u] = "grouped"
  <2>1. group[t] \in Seq(Trx) /\ IsInjective(group[t])
    BY <1>t, Constants DEF ThreadsInv, GroupInv, CoordinatorTypeOK
  <2>2. Head(group[t]) \in Trx /\ Contains(group[t], Head(group[t]))
    BY <1>g, <2>1, TailList
  <2> QED BY <2>2, Constants DEF ThreadsInv, GroupInv
<1>in. /\ group' \in [Sessions -> Seq(Trx)]
       /\ \A l \in Sessions : IsInjective(group'[l])
       /\ \A l \in Sessions, v \in Trx :
            Contains(group'[l], v) <=> Contains(group[l], v) /\ v # u
  <2>1. /\ group[t] \in Seq(Trx) /\ IsInjective(group[t])
        /\ group \in [Sessions -> Seq(Trx)]
    BY <1>t, Constants DEF ThreadsInv, GroupInv, CoordinatorTypeOK
  <2>2. /\ Tail(group[t]) \in Seq(Trx) /\ IsInjective(Tail(group[t]))
        /\ \A v : Contains(Tail(group[t]), v) <=> Contains(group[t], v) /\ v # u
    BY <1>g, <1>u, <2>1, TailList
  <2>3. \A l \in Sessions : l # t => ~Contains(group[l], u)
    BY <1>u, Constants DEF ThreadsInv, GroupInv
  <2>4. \A l \in Sessions : IsInjective(group[l])
    BY DEF ThreadsInv, GroupInv
  <2>5. \A l \in Sessions, v \in Trx :
          Contains(group'[l], v) <=> Contains(group[l], v) /\ v # u
    BY <1>group, <2>2, <2>3
  <2> QED BY <1>group, <2>1, <2>2, <2>4, <2>5
<1>engine. \/ u \in NeedUnlog /\ UNCHANGED <<engine, redo, lsn>>
           \/ /\ u \notin NeedUnlog
              /\ engine' = [engine EXCEPT ![u] = "committed"]
              /\ redo' = Append(redo, u) /\ lsn' = lsn + 1
  BY <1>u DEF CommitOrdered
<1>e2. /\ \A v \in Trx : v # u => engine'[v] = engine[v]
       /\ engine'[u] = IF u \in NeedUnlog THEN "prepared" ELSE "committed"
       /\ engine' \in [Trx -> {"active", "prepared", "committed", "rolled back"}]
       /\ redo' \in Seq(Trx) /\ lsn' = Len(redo')
       /\ \A i \in DOMAIN redo' : \/ (i \in DOMAIN redo /\ redo'[i] = redo[i])
                               \/ (redo'[i] = u /\ u \notin NeedUnlog)
  <2>1. /\ engine \in [Trx -> {"active", "prepared", "committed", "rolled back"}]
        /\ redo \in Seq(Trx) /\ lsn = Len(redo)
    BY <1>t DEF CoordinatorTypeOK
  <2>2. CASE u \in NeedUnlog
    BY <2>1, <2>2, <1>u, <1>engine
  <2>3. CASE u \notin NeedUnlog
    <3>0. redo' = Append(redo, u) /\ redo \in Seq(Trx) /\ u \in Trx
      BY <2>1, <2>3, <1>engine, <1>u
    <3>1. /\ redo' \in Seq(Trx) /\ Len(redo') = Len(redo) + 1
          /\ redo'[Len(redo) + 1] = u
          /\ \A i \in 1 .. Len(redo) : redo'[i] = redo[i]
      BY <3>0, AppendProperties
    <3>2. /\ DOMAIN redo' = 1 .. Len(redo) + 1 /\ DOMAIN redo = 1 .. Len(redo)
          /\ Len(redo) \in Nat
      BY <3>0, <3>1
    <3>3. \A i \in 1 .. Len(redo) + 1 : i \in 1 .. Len(redo) \/ i = Len(redo) + 1
      BY <3>2
    <3> QED BY <2>1, <2>3, <3>1, <3>2, <3>3, <1>u, <1>engine
  <2> QED BY <2>2, <2>3
<1>pc. /\ pc' \in [Sessions -> Labels]
       /\ \A v \in Sessions : pc'[v] = IF v = u /\ u # t THEN "ordered" ELSE pc[v]
  <2>1. pc' = IF u = t THEN pc ELSE [pc EXCEPT ![u] = "ordered"]
    BY <1>u DEF CommitOrdered
  <2>2. pc \in [Sessions -> Labels] /\ "ordered" \in Labels /\ u \in Sessions
    BY <1>t, Constants DEF CoordinatorTypeOK, Labels
  <2> QED BY <2>1, <2>2
<1>d. UNCHANGED <<index, file, unsynced, checkpoint, server, crashes,
   LOCK_log, LOCK_after_binlog_sync, LOCK_commit_ordered, binlog_id,
   check_purge, to_ask, named, mark>>
  BY DEF CommitOrdered, diskVars, engineVars, redoVars, serverVars, lockVars,
     localVars
<1>l. UNCHANGED <<current_binlog_id, binlog_xid_count_list, xid_count>>
  BY DEF CommitOrdered, listVars
<1>q. UNCHANGED <<flushed_lsn, log_requests, seen, flush_notify, notifying,
   binlog_background_thread_queue, next_in_queue, notify_count, bg>>
  BY DEF CommitOrdered, ckptVars, engineVars, redoVars, requestVars, queueVars
<1>1. CoordinatorTypeOK'
  BY <1>t, <1>in, <1>e2, <1>pc, <1>d DEF CoordinatorTypeOK
<1>2. QueueTypeOK'
  <2>1. lsn \in Nat /\ flushed_lsn \in 0 .. lsn
    BY <1>t DEF QueueTypeOK
  <2>2. lsn' \in Nat /\ flushed_lsn' \in 0 .. lsn'
    BY <2>1, <1>engine, <1>q
  <2> QED BY <1>t, <2>2, <1>q DEF QueueTypeOK
<1>3. ListTypeInv'
  BY <1>t, <1>l DEF ListTypeInv
<1>4. LocksInv'
  BY <1>g, <1>pc, <1>d, Constants, <1>u DEF ThreadsInv, LocksInv
<1>5. FilesInv'
  BY <1>g, <1>pc, <1>d, <1>l, <1>q, Constants, <1>u DEF ThreadsInv, FilesInv
<1>6. GroupInv'
  <2>1. \A l \in Sessions, v \in Trx : Contains(group'[l], v) =>
          v # u /\ (l # u \/ u = t) /\ Contains(group[l], v)
    BY <1>u, <1>in, Constants DEF ThreadsInv, GroupInv, Committing
  <2>2. \A v \in Trx : Contains(unsynced', v) <=>
            \E l \in Sessions : pc'[l] = "write" /\ Contains(group'[l], v)
    <3>1. \A v \in Trx : Contains(unsynced, v) <=>
            \E l \in Sessions : pc[l] = "write" /\ Contains(group[l], v)
      BY DEF ThreadsInv, GroupInv
    <3>2. \A l \in Sessions : pc'[l] = "write" <=> pc[l] = "write"
      BY <1>g, <1>u, <1>pc, Constants
    <3>3. \A l \in Sessions : pc[l] = "write" => ~Contains(group[l], u)
      BY <1>g, <1>u, Constants DEF ThreadsInv, GroupInv
    <3> QED BY <3>1, <3>2, <3>3, <1>in, <1>d
  <2>3. \A l, m \in Sessions, v \in Trx :
          Contains(group'[l], v) /\ Contains(group'[m], v) => l = m
    BY <2>1 DEF ThreadsInv, GroupInv
  <2>4. ASSUME NEW l \in Sessions, NEW v \in Trx, Contains(group'[l], v)
        PROVE  /\ l \in Trx /\ pc'[l] \in Committing
               /\ engine'[v] = "prepared"
               /\ file'[v] = binlog_id'[l] /\ file'[v] # NoFile
               /\ v = l \/ pc'[v] = "grouped"
    <3>1. /\ l \in Trx /\ pc[l] \in Committing /\ engine[v] = "prepared"
          /\ file[v] = binlog_id[l] /\ file[v] # NoFile /\ (v = l \/ pc[v] = "grouped")
      BY <2>1, <2>4 DEF ThreadsInv, GroupInv
    <3> QED BY <2>1, <2>4, <3>1, <1>pc, <1>e2, <1>d, Constants
  <2> QED BY <2>2, <2>3, <2>4, <1>in DEF GroupInv
<1>7. TrxInv'
  <2>1. \A i \in DOMAIN redo' : engine'[redo'[i]] = "committed" /\ redo'[i] \notin NeedUnlog
    <3>1. \A i \in DOMAIN redo : engine[redo[i]] = "committed" /\ redo[i] \notin NeedUnlog
      BY DEF ThreadsInv, TrxInv, TrxOK
    <3> QED BY <3>1, <1>e2, <1>u, <1>t, RedoElements
  <2>2. pc[u] \in {"commit", "grouped"}
    BY <1>g, <1>u
  <2>3. \A v \in Trx : v # u => \A l \in Sessions : Contains(group'[l], v) <=> Contains(group[l], v)
    BY <1>in
  <2>4. pc'[u] \in {"commit", "ordered"} /\ Ordered(u)'
    BY <1>g, <1>u, <1>pc, <1>e2, <1>d, Constants DEF Ordered
  <2>5. \A v \in Trx : v # u => pc'[v] = pc[v] /\ Ordered(v)' = Ordered(v)
    BY <1>pc, <1>e2, <1>d, Constants DEF Ordered
  <2>6. file[u] <= current_binlog_id
    BY DEF ThreadsInv, TrxInv, TrxOK
  <2>7. TrxOK(u)'
    BY <1>d, <1>l, <1>u, <1>e2, <2>4, <2>6 DEF TrxOK, Ordered
  <2>8. ASSUME NEW v \in Trx, v # u PROVE TrxOK(v)'
    <3>1. TrxOK(v)
      BY DEF ThreadsInv, TrxInv
    <3>2. /\ pc'[v] = pc[v] /\ Ordered(v)' = Ordered(v) /\ engine'[v] = engine[v]
          /\ UNCHANGED <<file, server, current_binlog_id>>
      BY <2>5, <2>8, <1>e2, <1>d, <1>l
    <3>3. v \in Sessions /\ \A l \in Sessions : Contains(group'[l], v) <=> Contains(group[l], v)
      BY <2>3, <2>8, Constants
    <3> QED BY <3>1, <3>2, <3>3 DEF TrxOK
  <2> QED BY <2>1, <2>7, <2>8 DEF TrxInv
<1>8. ListInv'
  BY <1>l, <1>d DEF ThreadsInv, ListInv
<1>9. DownInv'
  BY <1>g, <1>d, <1>pc, <1>l, Constants DEF ThreadsInv, DownInv
<1> QED BY <1>1, <1>2, <1>3, <1>4, <1>5, <1>6, <1>7, <1>8, <1>9 DEF ThreadsInv, TypeInv


(* mark_xid_done(), with LOCK_log                                          *)
LEMMA MarkLockThreads ==
  ASSUME OneEngine, ThreadsInv, NEW t \in Markers, MarkLock(t)
  PROVE  ThreadsInv'
<1>t. CoordinatorTypeOK /\ QueueTypeOK /\ ListTypeInv
  BY DEF ThreadsInv, TypeInv
<1>g. server = "up" /\ mark[t] = "lock" /\ LOCK_log = NoThread
  BY DEF MarkLock, At, Trimmed
<1>LOCK_log. LOCK_log' = t
  BY DEF MarkLock, Trimmed
<1>named. named' = Head(binlog_xid_count_list')
  BY DEF MarkLock, Trimmed
<1>mark. /\ mark' = [mark EXCEPT ![t] = "write"]
         /\ mark'[t] = "write"
         /\ \A v \in Markers : v # t => mark'[v] = mark[v]
  BY <1>t, <1>g, Constants DEF MarkLock, Goto, CoordinatorTypeOK, Trimmed
<1>binlog_xid_count_list. 
         /\ binlog_xid_count_list' \in Seq(Files) /\ binlog_xid_count_list' # <<>>
         /\ UpTo(binlog_xid_count_list', current_binlog_id)
         /\ Head(binlog_xid_count_list) <= Head(binlog_xid_count_list')
         /\ Head(binlog_xid_count_list') <= current_binlog_id
         /\ Head(binlog_xid_count_list') \in Files
  <2>1. /\ binlog_xid_count_list \in Seq(Files) /\ binlog_xid_count_list # <<>>
        /\ UpTo(binlog_xid_count_list, current_binlog_id)
        /\ current_binlog_id \in Files
    BY <1>t DEF ThreadsInv, ListInv, ListTypeInv
  <2>2. Trimmed
    BY DEF MarkLock
  <2> QED BY <2>1, <2>2, TrimmedList
<1>n. named' \in Files
  BY <1>named, <1>binlog_xid_count_list
<1>d. UNCHANGED <<index, file, unsynced, checkpoint, engine, redo, lsn,
   server, crashes, pc, LOCK_after_binlog_sync, LOCK_commit_ordered, group,
   binlog_id, check_purge, to_ask>>
  BY DEF MarkLock, Trimmed, diskVars, engineVars, redoVars, serverVars,
     lockVars, localVars
<1>l. UNCHANGED <<current_binlog_id, xid_count>>
  BY DEF MarkLock, Trimmed, listVars
<1>q. UNCHANGED <<flushed_lsn, log_requests, seen, flush_notify, notifying,
   binlog_background_thread_queue, next_in_queue, notify_count, bg>>
  BY DEF MarkLock, Trimmed, ckptVars, engineVars, redoVars, requestVars,
     queueVars
<1>1. CoordinatorTypeOK'
  BY <1>t, <1>g, <1>d, <1>LOCK_log, <1>named, <1>mark, Constants, <1>n DEF
     CoordinatorTypeOK, Labels
<1>2. QueueTypeOK'
  BY <1>t, <1>d, <1>q DEF QueueTypeOK
<1>3. ListTypeInv'
  BY <1>t, <1>g, <1>l, <1>binlog_xid_count_list, Constants DEF ListTypeInv
<1>4. LocksInv'
  BY <1>g, <1>d, <1>mark, <1>LOCK_log, Constants DEF ThreadsInv, LocksInv
<1>5. FilesInv'
  BY <1>g, <1>d, <1>LOCK_log, <1>l, <1>named, <1>q, Constants, <1>n DEF
     ThreadsInv, FilesInv, LocksInv
<1>6. GroupInv'
  BY <1>d DEF ThreadsInv, GroupInv
<1>7. TrxInv'
  BY <1>d, <1>l DEF ThreadsInv, TrxInv, TrxOK, Ordered
<1>8. ListInv'
  <2>1. Head(binlog_xid_count_list) \in index /\ index \subseteq Nat /\ current_binlog_id \in Nat
    BY <1>t, Constants DEF ThreadsInv, ListInv, CoordinatorTypeOK, ListTypeInv
  <2>2. Head(binlog_xid_count_list') \in Head(binlog_xid_count_list) .. current_binlog_id
    BY <2>1, <1>binlog_xid_count_list, Constants
  <2>3. \A f \in index : f .. current_binlog_id \subseteq index
    BY DEF ThreadsInv, ListInv
  <2>4. Head(binlog_xid_count_list') \in index
    BY <2>1, <2>2, <2>3
  <2> QED BY <2>4, <1>binlog_xid_count_list, <1>d, <1>l DEF ThreadsInv, ListInv
<1>9. DownInv'
  BY <1>g, <1>d, <1>mark, <1>named, <1>l, Constants DEF ThreadsInv, DownInv
<1> QED BY <1>1, <1>2, <1>3, <1>4, <1>5, <1>6, <1>7, <1>8, <1>9 DEF ThreadsInv, TypeInv


(* write_binlog_checkpoint_event_already_locked()                          *)
LEMMA MarkWriteThreads ==
  ASSUME OneEngine, ThreadsInv, NEW t \in Markers, MarkWrite(t)
  PROVE  ThreadsInv'
<1>t. CoordinatorTypeOK /\ QueueTypeOK /\ ListTypeInv
  BY DEF ThreadsInv, TypeInv
<1>g. server = "up" /\ mark[t] = "write"
  BY DEF MarkWrite, At
<1>c. current_binlog_id \in Files
  BY <1>t DEF ListTypeInv
<1>checkpoint. /\ checkpoint' = [checkpoint EXCEPT ![current_binlog_id] = named]
               /\ checkpoint'[current_binlog_id] = named
               /\ \A v \in Files : v # current_binlog_id => checkpoint'[v] = checkpoint[v]
  BY <1>t, <1>g, <1>c, Constants DEF MarkWrite, Goto, CoordinatorTypeOK
<1>named. named' = NoFile
  BY DEF MarkWrite
<1>LOCK_log. LOCK_log' = NoThread
  BY DEF MarkWrite
<1>mark. /\ mark' = [mark EXCEPT ![t] = "no"]
         /\ mark'[t] = "no"
         /\ \A v \in Markers : v # t => mark'[v] = mark[v]
  BY <1>t, <1>g, <1>c, Constants DEF MarkWrite, Goto, CoordinatorTypeOK
<1>d. UNCHANGED <<index, file, unsynced, engine, redo, lsn, server, crashes,
   pc, LOCK_after_binlog_sync, LOCK_commit_ordered, group, binlog_id,
   check_purge, to_ask>>
  BY DEF MarkWrite, diskVars, engineVars, redoVars, serverVars, lockVars,
     localVars
<1>l. UNCHANGED <<current_binlog_id, binlog_xid_count_list, xid_count>>
  BY DEF MarkWrite, listVars
<1>q. UNCHANGED <<flushed_lsn, log_requests, seen, flush_notify, notifying,
   binlog_background_thread_queue, next_in_queue, notify_count, bg>>
  BY <1>c DEF MarkWrite, ckptVars, engineVars, redoVars, requestVars, queueVars
<1>1. CoordinatorTypeOK'
  BY <1>t, <1>g, <1>c, <1>d, <1>checkpoint, <1>LOCK_log, <1>named, <1>mark,
     Constants DEF CoordinatorTypeOK, Labels
<1>2. QueueTypeOK'
  BY <1>t, <1>d, <1>q DEF QueueTypeOK
<1>3. ListTypeInv'
  BY <1>t, <1>l DEF ListTypeInv
<1>4. LocksInv'
  BY <1>g, <1>c, <1>d, <1>mark, <1>LOCK_log, Constants DEF ThreadsInv,
     LocksInv
<1>5. FilesInv'
  BY <1>g, <1>c, <1>d, <1>LOCK_log, <1>l, <1>named, <1>q, Constants DEF
     ThreadsInv, FilesInv, LocksInv
<1>6. GroupInv'
  BY <1>d DEF ThreadsInv, GroupInv
<1>7. TrxInv'
  BY <1>d, <1>l DEF ThreadsInv, TrxInv, TrxOK, Ordered
<1>8. ListInv'
  BY <1>l, <1>d DEF ThreadsInv, ListInv
<1>9. DownInv'
  BY <1>g, <1>c, <1>d, <1>mark, <1>named, <1>l, Constants DEF ThreadsInv,
     DownInv
<1> QED BY <1>1, <1>2, <1>3, <1>4, <1>5, <1>6, <1>7, <1>8, <1>9 DEF ThreadsInv, TypeInv


(* The background thread calls mark_xid_done().                            *)
LEMMA BackgroundMarkThreads ==
  ASSUME OneEngine, ThreadsInv, BackgroundMark
  PROVE  ThreadsInv'
<1>t. CoordinatorTypeOK /\ QueueTypeOK /\ ListTypeInv
  BY DEF ThreadsInv, TypeInv
<1>g. server = "up" /\ mark[Background] = "no" /\ bg.times > 0
  BY DEF BackgroundMark, At, MarkXidDone
<1>mark. /\ mark' = [mark EXCEPT ![Background] = IF CheckpointDue(bg.entry) THEN "lock" ELSE "no"]
         /\ mark'[Background] = IF CheckpointDue(bg.entry) THEN "lock" ELSE "no"
         /\ \A v \in Markers : v # Background => mark'[v] = mark[v]
  BY <1>t, <1>g, Constants DEF BackgroundMark, Goto, CoordinatorTypeOK,
     MarkXidDone
<1>d. UNCHANGED <<index, file, unsynced, checkpoint, engine, redo, lsn,
   server, crashes, pc, LOCK_log, LOCK_after_binlog_sync, LOCK_commit_ordered,
   group, binlog_id, check_purge, to_ask, named>>
  BY DEF BackgroundMark, MarkXidDone, diskVars, engineVars, redoVars,
     serverVars, lockVars, localVars
<1>l. UNCHANGED <<current_binlog_id, binlog_xid_count_list>>
  BY DEF BackgroundMark, MarkXidDone, listVars
<1>q. UNCHANGED <<flushed_lsn, log_requests, seen, flush_notify, notifying,
   binlog_background_thread_queue, next_in_queue, notify_count>>
  BY DEF BackgroundMark, MarkXidDone, ckptVars, engineVars, redoVars,
     requestVars, queueVars
<1>1. CoordinatorTypeOK'
  BY <1>t, <1>g, <1>d, <1>mark, Constants DEF CoordinatorTypeOK, Labels
<1>2. QueueTypeOK'
  <2>1. bg \in [entry : Files \cup {NoFile}, next : Files \cup {NoFile}, times : Nat]
    BY <1>t DEF QueueTypeOK
  <2>2. bg' \in {Idle, [bg EXCEPT !.times = @ - 1]}
    BY DEF BackgroundMark, BackgroundMarked
  <2>3. bg' \in [entry : Files \cup {NoFile}, next : Files \cup {NoFile}, times : Nat]
    BY <1>g, <2>1, <2>2 DEF Idle
  <2> QED BY <1>t, <2>3, <1>d, <1>q DEF QueueTypeOK
<1>3. ListTypeInv'
  <2>1. xid_count \in [Files -> Int] /\ xid_count' = [xid_count EXCEPT ![bg.entry] = @ - 1]
    BY <1>t DEF ListTypeInv, BackgroundMark, MarkXidDone, Decremented
  <2>2. CASE bg.entry \in Files
    <3>1. xid_count[bg.entry] - 1 \in Int
      BY <2>1, <2>2
    <3> QED BY <1>t, <1>l, <2>1, <3>1 DEF ListTypeInv
  <2>3. CASE bg.entry \notin Files
    <3>1. xid_count' = xid_count
      BY <2>1, <2>3, Zenon
    <3> QED BY <1>t, <1>l, <3>1 DEF ListTypeInv
  <2> QED BY <2>2, <2>3
<1>4. LocksInv'
  BY <1>g, <1>d, <1>mark, Constants DEF ThreadsInv, LocksInv
<1>5. FilesInv'
  BY <1>d, <1>l, <1>q DEF ThreadsInv, FilesInv
<1>6. GroupInv'
  BY <1>d DEF ThreadsInv, GroupInv
<1>7. TrxInv'
  BY <1>d, <1>l DEF ThreadsInv, TrxInv, TrxOK, Ordered
<1>8. ListInv'
  BY <1>l, <1>d DEF ThreadsInv, ListInv
<1>9. DownInv'
  BY <1>g, <1>d, <1>mark, <1>l, Constants DEF ThreadsInv, DownInv
<1> QED BY <1>1, <1>2, <1>3, <1>4, <1>5, <1>6, <1>7, <1>8, <1>9 DEF ThreadsInv, TypeInv


(* srv_master_callback()                                                   *)
LEMMA FlushRedoThreads ==
  ASSUME OneEngine, ThreadsInv, FlushRedo
  PROVE  ThreadsInv'
<1>t. CoordinatorTypeOK /\ QueueTypeOK /\ ListTypeInv
  BY DEF ThreadsInv, TypeInv
<1>g. server = "up"
  BY DEF FlushRedo, At, FlushedBy
<1>flushed_lsn. flushed_lsn' = lsn
  BY DEF FlushRedo, FlushedBy
<1>flush_notify. /\ flush_notify' = [flush_notify EXCEPT ![Flusher] = [to |-> lsn]]
                 /\ flush_notify'[Flusher] = [to |-> lsn]
                 /\ \A v \in Threads : v # Flusher => flush_notify'[v] = flush_notify[v]
  BY <1>t, <1>g, Constants DEF FlushRedo, Goto, QueueTypeOK, FlushedBy
<1>d. UNCHANGED <<index, file, unsynced, checkpoint, engine, redo, lsn,
   server, crashes, pc, LOCK_log, LOCK_after_binlog_sync, LOCK_commit_ordered,
   group, binlog_id, check_purge, to_ask, named, mark>>
  BY DEF FlushRedo, FlushedBy, diskVars, engineVars, redoVars, serverVars,
     lockVars, localVars
<1>l. UNCHANGED <<current_binlog_id, binlog_xid_count_list, xid_count>>
  BY DEF FlushRedo, FlushedBy, listVars
<1>q. UNCHANGED <<log_requests, seen, notifying,
   binlog_background_thread_queue, next_in_queue, notify_count, bg>>
  BY DEF FlushRedo, FlushedBy, ckptVars, engineVars, redoVars, requestVars,
     queueVars
<1>1. CoordinatorTypeOK'
  BY <1>t, <1>d DEF CoordinatorTypeOK, Labels
<1>2. QueueTypeOK'
  <2>1. lsn \in Nat /\ lsn \in 0 .. lsn /\ [to |-> lsn] \in [to : Nat]
    BY <1>t DEF QueueTypeOK
  <2>2. flush_notify' \in [Threads -> [to : Nat] \cup {NoLsn}]
    BY <1>t, <2>1, <1>flush_notify DEF QueueTypeOK
  <2> QED BY <1>t, <2>1, <2>2, <1>flushed_lsn, <1>d, <1>q DEF QueueTypeOK
<1>3. ListTypeInv'
  BY <1>t, <1>l DEF ListTypeInv
<1>4. LocksInv'
  BY <1>d DEF ThreadsInv, LocksInv
<1>5. FilesInv'
  BY <1>d, <1>l, <1>q DEF ThreadsInv, FilesInv
<1>6. GroupInv'
  BY <1>d DEF ThreadsInv, GroupInv
<1>7. TrxInv'
  BY <1>d, <1>l DEF ThreadsInv, TrxInv, TrxOK, Ordered
<1>8. ListInv'
  BY <1>l, <1>d DEF ThreadsInv, ListInv
<1>9. DownInv'
  BY <1>d, <1>l DEF ThreadsInv, DownInv
<1> QED BY <1>1, <1>2, <1>3, <1>4, <1>5, <1>6, <1>7, <1>8, <1>9 DEF ThreadsInv, TypeInv


(* log_flush_notify(), commit_checkpoint_notify()                          *)
LEMMA NotifiesThreads ==
  ASSUME OneEngine, ThreadsInv, NEW t \in Threads, Notifies(t)
  PROVE  ThreadsInv'
<1>t. CoordinatorTypeOK /\ QueueTypeOK /\ ListTypeInv
  BY DEF ThreadsInv, TypeInv
<1>g. server = "up"
  BY DEF Notifies, At, QueueStep, FlushNotify, Notify
<1>d. UNCHANGED <<index, file, unsynced, checkpoint, engine, redo, lsn,
   server, crashes, pc, LOCK_log, LOCK_after_binlog_sync, LOCK_commit_ordered,
   group, binlog_id, check_purge, to_ask, named, mark>>
  BY DEF Notifies, QueueStep, FlushNotify, Notify, diskVars, engineVars,
     redoVars, serverVars, lockVars, localVars
<1>l. UNCHANGED <<current_binlog_id, binlog_xid_count_list, xid_count>>
  BY DEF Notifies, QueueStep, FlushNotify, Notify, listVars
<1>q. UNCHANGED <<flushed_lsn, seen, bg>>
  BY DEF Notifies, QueueStep, FlushNotify, Notify, ckptVars, engineVars,
     redoVars, requestVars, queueVars
<1>1. CoordinatorTypeOK'
  BY <1>t, <1>d DEF CoordinatorTypeOK, Labels
<1>2. QueueTypeOK'
  <2>0. notifying \in [Threads -> Seq(Files)] /\ log_requests \in Seq(Requests)
    BY <1>t DEF QueueTypeOK
  <2>1. CASE FlushNotify(t)
    <3>1. /\ Detached(t, log_requests, flush_notify[t].to, <<>>) /\ <<>> \in Seq(Files)
          /\ flush_notify' = [flush_notify EXCEPT ![t] = NoLsn]
          /\ UNCHANGED <<binlog_background_thread_queue, next_in_queue, notify_count>>
      BY <2>1 DEF FlushNotify, queueVars
    <3>2. log_requests' \in Seq(Requests) /\ notifying' \in [Threads -> Seq(Files)]
      BY <2>0, <3>1, DetachedLists DEF FirstDetached
    <3>3. flush_notify' \in [Threads -> [to : Nat] \cup {NoLsn}]
      BY <1>t, <3>1 DEF QueueTypeOK
    <3> QED BY <1>t, <3>1, <3>2, <3>3, <1>d, <1>q DEF QueueTypeOK
  <2>2. CASE Notify(t)
    <3> DEFINE f == Head(notifying[t])
    <3>1. /\ notifying[t] # <<>>
          /\ notifying' = [notifying EXCEPT ![t] = Tail(@)]
          /\ UNCHANGED <<log_requests, flush_notify>>
          /\ \/ /\ notify_count' = [notify_count EXCEPT ![f] = @ + 1]
                /\ UNCHANGED <<binlog_background_thread_queue, next_in_queue>>
             \/ /\ next_in_queue' =
                     [next_in_queue EXCEPT ![f] = binlog_background_thread_queue]
                /\ binlog_background_thread_queue' = f
                /\ UNCHANGED notify_count
      BY <2>2 DEF Notify
    <3>2. f \in Files /\ Tail(notifying[t]) \in Seq(Files)
      BY <2>0, <3>1
    <3>3. notifying' \in [Threads -> Seq(Files)]
      BY <2>0, <3>1, <3>2
    <3> HIDE DEF f
    <3>a. /\ binlog_background_thread_queue \in Files \cup {NoFile}
          /\ next_in_queue \in [Files -> Files \cup {NoFile}]
          /\ notify_count \in [Files -> Nat]
      BY <1>t DEF QueueTypeOK
    <3>b. notify_count[f] + 1 \in Nat
      BY <3>a, <3>2
    <3>4. notify_count' \in [Files -> Nat]
      BY <3>1, <3>2, <3>a, <3>b
    <3>5. binlog_background_thread_queue' \in Files \cup {NoFile}
      BY <3>1, <3>2, <3>a
    <3>6. next_in_queue' \in [Files -> Files \cup {NoFile}]
      BY <3>1, <3>2, <3>a
    <3> QED BY <1>t, <3>1, <3>3, <3>4, <3>5, <3>6, <1>d, <1>q DEF QueueTypeOK
  <2> QED BY <2>1, <2>2 DEF Notifies, QueueStep
<1>3. ListTypeInv'
  BY <1>t, <1>l DEF ListTypeInv
<1>4. LocksInv'
  BY <1>d DEF ThreadsInv, LocksInv
<1>5. FilesInv'
  BY <1>d, <1>l, <1>q DEF ThreadsInv, FilesInv
<1>6. GroupInv'
  BY <1>d DEF ThreadsInv, GroupInv
<1>7. TrxInv'
  BY <1>d, <1>l DEF ThreadsInv, TrxInv, TrxOK, Ordered
<1>8. ListInv'
  BY <1>l, <1>d DEF ThreadsInv, ListInv
<1>9. DownInv'
  BY <1>d, <1>l DEF ThreadsInv, DownInv
<1> QED BY <1>1, <1>2, <1>3, <1>4, <1>5, <1>6, <1>7, <1>8, <1>9 DEF ThreadsInv, TypeInv


(* binlog_background_thread()                                              *)
LEMMA BackgroundQueueThreads ==
  ASSUME OneEngine, ThreadsInv, BackgroundQueue
  PROVE  ThreadsInv'
<1>t. CoordinatorTypeOK /\ QueueTypeOK /\ ListTypeInv
  BY DEF ThreadsInv, TypeInv
<1>g. server = "up"
  BY DEF BackgroundQueue, At, QueueStep, BackgroundGrab, BackgroundNext
<1>d. UNCHANGED <<index, file, unsynced, checkpoint, engine, redo, lsn,
   server, crashes, pc, LOCK_log, LOCK_after_binlog_sync, LOCK_commit_ordered,
   group, binlog_id, check_purge, to_ask, named, mark>>
  BY DEF BackgroundQueue, QueueStep, BackgroundGrab, BackgroundNext, diskVars,
     engineVars, redoVars, serverVars, lockVars, localVars
<1>l. UNCHANGED <<current_binlog_id, binlog_xid_count_list, xid_count>>
  BY DEF BackgroundQueue, QueueStep, BackgroundGrab, BackgroundNext, listVars
<1>q. UNCHANGED <<flushed_lsn, log_requests, seen, flush_notify, notifying,
   next_in_queue>>
  BY DEF BackgroundQueue, QueueStep, BackgroundGrab, BackgroundNext, ckptVars,
     engineVars, redoVars, requestVars, queueVars
<1>1. CoordinatorTypeOK'
  BY <1>t, <1>d DEF CoordinatorTypeOK, Labels
<1>2. QueueTypeOK'
  <2>0. /\ bg \in [entry : Files \cup {NoFile}, next : Files \cup {NoFile}, times : Nat]
        /\ binlog_background_thread_queue \in Files \cup {NoFile}
        /\ next_in_queue \in [Files -> Files \cup {NoFile}]
        /\ notify_count \in [Files -> Nat]
    BY <1>t DEF QueueTypeOK
  <2>1. CASE BackgroundGrab
    <3>1. /\ bg' = [Idle EXCEPT !.next = binlog_background_thread_queue]
          /\ binlog_background_thread_queue' = NoFile /\ UNCHANGED notify_count
      BY <2>1 DEF BackgroundGrab
    <3>2. bg' \in [entry : Files \cup {NoFile}, next : Files \cup {NoFile}, times : Nat]
      BY <2>0, <3>1 DEF Idle
    <3> QED BY <1>t, <3>1, <3>2, <1>d, <1>q DEF QueueTypeOK
  <2>2. CASE BackgroundNext
    <3>1. /\ bg' = [entry |-> bg.next, next |-> next_in_queue[bg.next],
                    times |-> notify_count[bg.next] + 1]
          /\ notify_count' = [notify_count EXCEPT ![bg.next] = 0]
          /\ bg.next # NoFile /\ UNCHANGED binlog_background_thread_queue
      BY <2>2 DEF BackgroundNext
    <3>2. bg.next \in Files
      BY <2>0, <3>1
    <3>3. bg' \in [entry : Files \cup {NoFile}, next : Files \cup {NoFile}, times : Nat]
      BY <2>0, <3>1, <3>2
    <3>4. notify_count' \in [Files -> Nat]
      BY <2>0, <3>1
    <3> QED BY <1>t, <3>1, <3>3, <3>4, <1>d, <1>q DEF QueueTypeOK
  <2> QED BY <2>1, <2>2 DEF BackgroundQueue, QueueStep
<1>3. ListTypeInv'
  BY <1>t, <1>l DEF ListTypeInv
<1>4. LocksInv'
  BY <1>d DEF ThreadsInv, LocksInv
<1>5. FilesInv'
  BY <1>d, <1>l, <1>q DEF ThreadsInv, FilesInv
<1>6. GroupInv'
  BY <1>d DEF ThreadsInv, GroupInv
<1>7. TrxInv'
  BY <1>d, <1>l DEF ThreadsInv, TrxInv, TrxOK, Ordered
<1>8. ListInv'
  BY <1>l, <1>d DEF ThreadsInv, ListInv
<1>9. DownInv'
  BY <1>d, <1>l DEF ThreadsInv, DownInv
<1> QED BY <1>1, <1>2, <1>3, <1>4, <1>5, <1>6, <1>7, <1>8, <1>9 DEF ThreadsInv, TypeInv


(* purge_logs()                                                            *)
LEMMA PurgeThreads ==
  ASSUME OneEngine, ThreadsInv, Purge
  PROVE  ThreadsInv'
<1>t. CoordinatorTypeOK /\ QueueTypeOK /\ ListTypeInv
  BY DEF ThreadsInv, TypeInv
<1>g. server = "up"
  BY DEF Purge, At
<1>index. index' = index \ {Min(index)}
  BY DEF Purge
<1>min. /\ \A f \in index : f \in Nat /\ Min(index) <= f
        /\ Min(index) \in Nat /\ current_binlog_id \in Nat
        /\ Head(binlog_xid_count_list) # Min(index)
  <2>1. index \in SUBSET Nat /\ index # {}
    BY <1>t, Constants DEF CoordinatorTypeOK
  <2>2. Min(index) \in index /\ \A f \in index : Min(index) <= f
    BY <2>1, MinNumber
  <2>3. Contains(binlog_xid_count_list, Head(binlog_xid_count_list))
        /\ binlog_xid_count_list \in Seq(Files)
    BY <1>t, NonemptyList DEF ThreadsInv, ListInv, ListTypeInv
  <2>4. ~Contains(binlog_xid_count_list, Min(index))
    BY <2>3, SetOfList DEF Purge, CanPurge
  <2> QED BY <1>t, <2>1, <2>2, <2>3, <2>4, Constants DEF ListTypeInv
<1>d. UNCHANGED <<file, unsynced, checkpoint, engine, redo, lsn, server,
   crashes, pc, LOCK_log, LOCK_after_binlog_sync, LOCK_commit_ordered, group,
   binlog_id, check_purge, to_ask, named, mark>>
  BY DEF Purge, diskVars, engineVars, redoVars, serverVars, lockVars,
     localVars
<1>l. UNCHANGED <<current_binlog_id, binlog_xid_count_list, xid_count>>
  BY DEF Purge, listVars
<1>q. UNCHANGED <<flushed_lsn, log_requests, seen, flush_notify, notifying,
   binlog_background_thread_queue, next_in_queue, notify_count, bg>>
  BY DEF Purge, ckptVars, engineVars, redoVars, requestVars, queueVars
<1>1. CoordinatorTypeOK'
  <2>1. Head(binlog_xid_count_list) \in index'
    BY <1>index, <1>min DEF ThreadsInv, ListInv
  <2> QED BY <1>t, <1>index, <1>d, <2>1 DEF CoordinatorTypeOK
<1>2. QueueTypeOK'
  BY <1>t, <1>d, <1>q DEF QueueTypeOK
<1>3. ListTypeInv'
  BY <1>t, <1>l DEF ListTypeInv
<1>4. LocksInv'
  BY <1>d DEF ThreadsInv, LocksInv
<1>5. FilesInv'
  BY <1>d, <1>l, <1>q DEF ThreadsInv, FilesInv
<1>6. GroupInv'
  BY <1>d DEF ThreadsInv, GroupInv
<1>7. TrxInv'
  BY <1>d, <1>l DEF ThreadsInv, TrxInv, TrxOK, Ordered
<1>8. ListInv'
  <2>1. Head(binlog_xid_count_list) \in index'
    BY <1>index, <1>min DEF ThreadsInv, ListInv
  <2>2. ASSUME NEW f \in index'
        PROVE  f <= current_binlog_id /\ f .. current_binlog_id \subseteq index'
    <3>1. f \in index /\ f # Min(index) /\ f \in Nat /\ Min(index) <= f
      BY <2>2, <1>index, <1>min
    <3>2. f <= current_binlog_id /\ f .. current_binlog_id \subseteq index
      BY <3>1 DEF ThreadsInv, ListInv
    <3>3. Min(index) \notin f .. current_binlog_id
      BY <3>1, <1>min
    <3> QED BY <3>2, <3>3, <1>index
  <2> QED BY <2>1, <2>2, <1>l DEF ThreadsInv, ListInv
<1>9. DownInv'
  BY <1>d, <1>l DEF ThreadsInv, DownInv
<1> QED BY <1>1, <1>2, <1>3, <1>4, <1>5, <1>6, <1>7, <1>8, <1>9 DEF ThreadsInv, TypeInv


(* What a crash leaves.                                                    *)
LEMMA CrashThreads ==
  ASSUME OneEngine, ThreadsInv, Crash
  PROVE  ThreadsInv'
<1>t. CoordinatorTypeOK /\ QueueTypeOK /\ ListTypeInv
  BY DEF ThreadsInv, TypeInv
<1>g. server = "up" /\ crashes < MaxCrashes /\ current_binlog_id < MaxFile
  BY DEF Crash, At, QueueForgotten
<1>server. server' = "down"
  BY DEF Crash, QueueForgotten
<1>crashes. crashes' = crashes + 1
  BY DEF Crash, QueueForgotten
<1>pc. pc' = [t \in Sessions |->
       IF pc[t] \in {"prepare", "acked"} THEN pc[t] ELSE "gone"]
  BY DEF Crash, QueueForgotten
<1>unsynced. unsynced' = <<>>
  BY DEF Crash, QueueForgotten
<1>redo. redo' = <<>>
  BY DEF Crash, QueueForgotten
<1>LOCK_log. LOCK_log' = NoThread
  BY DEF Crash, QueueForgotten
<1>LOCK_after_binlog_sync. LOCK_after_binlog_sync' = NoThread
  BY DEF Crash, QueueForgotten
<1>LOCK_commit_ordered. LOCK_commit_ordered' = NoThread
  BY DEF Crash, QueueForgotten
<1>group. group' = [t \in Sessions |-> <<>>]
  BY DEF Crash, QueueForgotten
<1>binlog_id. binlog_id' = [t \in Sessions |-> NoFile]
  BY DEF Crash, QueueForgotten
<1>check_purge. check_purge' = [t \in Sessions |-> FALSE]
  BY DEF Crash, QueueForgotten
<1>to_ask. to_ask' = [t \in Sessions |-> Engines]
  BY DEF Crash, QueueForgotten
<1>named. named' = NoFile
  BY DEF Crash, QueueForgotten
<1>mark. mark' = [t \in Markers |-> "no"]
  BY DEF Crash, QueueForgotten
<1>lsn. lsn' = 0
  BY DEF Crash, QueueForgotten
<1>flushed_lsn. flushed_lsn' = 0
  BY DEF Crash, QueueForgotten
<1>log_requests. log_requests' = <<>>
  BY DEF Crash, QueueForgotten
<1>seen. seen' = [t \in Threads |-> NoLsn]
  BY DEF Crash, QueueForgotten
<1>flush_notify. flush_notify' = [t \in Threads |-> NoLsn]
  BY DEF Crash, QueueForgotten
<1>notifying. notifying' = [t \in Threads |-> <<>>]
  BY DEF Crash, QueueForgotten
<1>binlog_background_thread_queue. binlog_background_thread_queue' = NoFile
  BY DEF Crash, QueueForgotten
<1>next_in_queue. next_in_queue' = [f \in Files |-> NoFile]
  BY DEF Crash, QueueForgotten
<1>notify_count. notify_count' = [f \in Files |-> 0]
  BY DEF Crash, QueueForgotten
<1>bg. bg' = Idle
  BY DEF Crash, QueueForgotten
<1>file. /\ file' \in [Trx -> Files \cup {NoFile}]
        /\ \A u \in Trx : \/ file'[u] = file[u]
                          \/ file'[u] = NoFile /\ Contains(unsynced, u)
  <2>1. PICK n \in 0 .. Len(unsynced) :
          file' = [t \in Trx |->
            IF t \in ToSet(SubSeq(unsynced, n + 1, Len(unsynced))) THEN NoFile
                                                                   ELSE file[t]]
    BY DEF Crash
  <2>2. unsynced \in Seq(Trx) /\ file \in [Trx -> Files \cup {NoFile}]
    BY <1>t DEF CoordinatorTypeOK
  <2>3. \A u \in ToSet(SubSeq(unsynced, n + 1, Len(unsynced))) : Contains(unsynced, u)
    BY <2>2, EndOfList
  <2> QED BY <2>1, <2>2, <2>3
<1>engine. /\ engine' \in [Trx -> {"active", "prepared", "committed", "rolled back"}]
          /\ \A u \in Trx : \/ engine'[u] = engine[u]
                            \/ engine[u] = "committed" /\ engine'[u] = "prepared"
  <2>1. engine \in [Trx -> {"active", "prepared", "committed", "rolled back"}]
    BY <1>t DEF CoordinatorTypeOK
  <2> QED BY <2>1 DEF Crash
<1>pcs. /\ \A u \in Sessions : pc'[u] \in {"prepare", "acked", "gone"} /\ (pc'[u] # "gone" => pc'[u] = pc[u])
       /\ pc' \in [Sessions -> Labels]
  <2>1. pc \in [Sessions -> Labels] /\ "gone" \in Labels
    BY <1>t DEF CoordinatorTypeOK, Labels
  <2> QED BY <2>1, <1>pc
<1>sync. \A u \in Trx : Contains(unsynced, u) => engine[u] = "prepared" /\ pc[u] # "acked"
  BY DEF ThreadsInv, GroupInv, Committing
<1>d. UNCHANGED <<index, checkpoint>>
  BY DEF Crash, QueueForgotten, diskVars, engineVars, redoVars, serverVars,
     lockVars, localVars
<1>l. UNCHANGED <<current_binlog_id, binlog_xid_count_list, xid_count>>
  BY DEF Crash, QueueForgotten, listVars
<1>1. CoordinatorTypeOK'
  <2>1. /\ unsynced' \in Seq(Trx) /\ group' \in [Sessions -> Seq(Trx)]
        /\ redo' \in Seq(Trx) /\ lsn' = Len(redo')
    BY <1>unsynced, <1>group, <1>redo, <1>lsn
  <2>2. crashes' \in 0 .. MaxCrashes
    <3>1. crashes \in 0 .. MaxCrashes
      BY <1>t DEF CoordinatorTypeOK
    <3> QED BY <3>1, <1>g, <1>crashes, XaAssumption
  <2>3. /\ binlog_id' \in [Sessions -> Files \cup {NoFile}]
        /\ check_purge' \in [Sessions -> BOOLEAN]
        /\ to_ask' \in [Sessions -> {Engines, Tail(Engines), <<>>}]
        /\ mark' \in [Markers -> {"no", "lock", "write"}]
    BY <1>binlog_id, <1>check_purge, <1>to_ask, <1>mark
  <2> QED BY <1>t, <2>1, <2>2, <2>3, <1>file, <1>engine, <1>pcs, <1>server, <1>LOCK_log,
             <1>LOCK_after_binlog_sync, <1>LOCK_commit_ordered, <1>named, <1>d
          DEF CoordinatorTypeOK
<1>2. QueueTypeOK'
  <2>1. /\ log_requests' \in Seq(Requests) /\ notifying' \in [Threads -> Seq(Files)]
    BY <1>log_requests, <1>notifying
  <2>2. bg' \in [entry : Files \cup {NoFile}, next : Files \cup {NoFile}, times : Nat]
    BY <1>bg DEF Idle
  <2>3. lsn' \in Nat /\ flushed_lsn' \in 0 .. lsn'
    BY <1>lsn, <1>flushed_lsn
  <2> QED BY <2>1, <2>2, <2>3, <1>seen, <1>flush_notify, <1>binlog_background_thread_queue,
             <1>next_in_queue, <1>notify_count DEF QueueTypeOK
<1>3. ListTypeInv'
  BY <1>t, <1>l DEF ListTypeInv
<1>4. LocksInv'
  BY <1>pcs, <1>mark, Constants DEF ThreadsInv, LocksInv
<1>5. FilesInv'
  <2>1. \A u \in Sessions : /\ ~check_purge'[u] /\ to_ask'[u] = Engines
                            /\ seen'[u] = NoLsn
    BY <1>check_purge, <1>to_ask, <1>seen, Constants
  <2> QED BY <2>1, <1>pcs DEF FilesInv
<1>6. GroupInv'
  <2>1. \A l \in Sessions : group'[l] = <<>>
    BY <1>group
  <2> QED BY <2>1, <1>unsynced, EmptyList DEF GroupInv
<1>7. TrxInv'
  <2>1. DOMAIN redo' = {}
    BY <1>redo
  <2>2. ASSUME NEW u \in Trx PROVE TrxOK(u)'
    <3>1. pc[u] \notin {"prepare", "end"} => engine[u] # "active"
      <4>1. pc[u] \in Labels
        BY <1>t, Constants DEF CoordinatorTypeOK
      <4>2. \A l \in Sessions : Contains(group[l], u) => engine[u] = "prepared"
        BY DEF ThreadsInv, GroupInv
      <4> QED BY <4>1, <4>2, Constants DEF ThreadsInv, TrxInv, TrxOK, Ordered, Labels
    <3>2. pc[u] # "end"
      BY DEF ThreadsInv, LocksInv
    <3>3. TrxOK(u)
      BY DEF ThreadsInv, TrxInv
    <3>4. file'[u] <= current_binlog_id
      BY <3>3, <1>file, <1>t, Constants DEF TrxOK, ListTypeInv
    <3>5. file'[u] = NoFile => engine'[u] # "committed"
      BY <3>3, <1>file, <1>engine, <1>sync DEF TrxOK
    <3>6. pc'[u] = "acked" => pc[u] = "acked" /\ file'[u] = file[u]
      BY <1>pcs, <1>file, <1>sync, Constants
    <3>7. pc'[u] = "prepare" => pc[u] = "prepare" /\ file'[u] = file[u]
      BY <1>pcs, <1>file, <3>3, Constants DEF TrxOK
    <3>8. pc'[u] = "gone" => pc[u] # "prepare"
      BY <1>pc, Constants
    <3> QED BY <3>1, <3>2, <3>3, <3>4, <3>5, <3>6, <3>7, <3>8, <1>pcs, <1>engine,
               <1>server, <1>l, Constants DEF TrxOK, Ordered
  <2> QED BY <2>1, <2>2 DEF TrxInv
<1>8. ListInv'
  BY <1>l, <1>d DEF ThreadsInv, ListInv
<1>9. DownInv'
  BY <1>g, <1>pcs, <1>check_purge, <1>mark, <1>redo, <1>unsynced, <1>named,
     <1>l DEF DownInv
<1> QED BY <1>1, <1>2, <1>3, <1>4, <1>5, <1>6, <1>7, <1>8, <1>9 DEF ThreadsInv, TypeInv


(* recover()                                                               *)
LEMMA RecoverThreads ==
  ASSUME OneEngine, ThreadsInv, Recover
  PROVE  ThreadsInv'
<1>t. CoordinatorTypeOK /\ QueueTypeOK /\ ListTypeInv
  BY DEF ThreadsInv, TypeInv
<1>g. server = "down"
  BY DEF Recover, At, Recovered, ListRestarted
<1>new. /\ Max(index) = current_binlog_id /\ current_binlog_id \in Nat
       /\ current_binlog_id + 1 \in Files
  <2>1. Max(index) = current_binlog_id
    BY LastFile
  <2>2. current_binlog_id < MaxFile /\ current_binlog_id \in Files
    BY <1>t, <1>g DEF ThreadsInv, DownInv, ListTypeInv
  <2> QED BY <2>1, <2>2, MaxFileAssumption DEF Files
<1>idle. \A u \in Sessions : pc[u] \in {"prepare", "acked", "gone"}
  BY <1>g DEF ThreadsInv, DownInv
<1>server. server' = "up"
  BY DEF Recover, Recovered, ListRestarted
<1>xid_count. xid_count' = [g \in Files |-> 0]
  BY DEF Recover, Recovered, ListRestarted
<1>current_binlog_id. current_binlog_id' = current_binlog_id + 1
  BY <1>new DEF Recover, Recovered, ListRestarted
<1>binlog_xid_count_list. binlog_xid_count_list' = <<current_binlog_id + 1>>
  BY <1>new DEF Recover, Recovered, ListRestarted
<1>index. index' = index \cup {current_binlog_id + 1}
  BY <1>new DEF Recover, Recovered
<1>checkpoint. checkpoint' = [checkpoint EXCEPT ![current_binlog_id + 1] = current_binlog_id + 1]
  BY <1>new DEF Recover, Recovered
<1>engine. /\ engine' \in [Trx -> {"active", "prepared", "committed", "rolled back"}]
          /\ \A u \in Trx : /\ engine[u] # "prepared" => engine'[u] = engine[u]
                            /\ engine[u] = "prepared" =>
                                 \/ engine'[u] = "rolled back"
                                 \/ engine'[u] = "committed" /\ file[u] \in index
  <2>1. engine \in [Trx -> {"active", "prepared", "committed", "rolled back"}]
    BY <1>t DEF CoordinatorTypeOK
  <2> QED BY <2>1 DEF Recover, Recovered, Scanned
<1>d. UNCHANGED <<file, unsynced, redo, lsn, crashes, pc, LOCK_log,
   LOCK_after_binlog_sync, LOCK_commit_ordered, group, binlog_id, check_purge,
   to_ask, named, mark>>
  BY DEF Recover, Recovered, ListRestarted, diskVars, engineVars, redoVars,
     serverVars, lockVars, localVars
<1>q. UNCHANGED <<flushed_lsn, log_requests, seen, flush_notify, notifying,
   binlog_background_thread_queue, next_in_queue, notify_count, bg>>
  BY <1>new, <1>idle DEF Recover, Recovered, ListRestarted, ckptVars, engineVars, redoVars,
     requestVars, queueVars
<1>1. CoordinatorTypeOK'
  <2>1. checkpoint' \in [Files -> Files \cup {NoFile}]
    BY <1>t, <1>new, <1>checkpoint DEF CoordinatorTypeOK
  <2>2. index' \subseteq Files /\ index' # {}
    BY <1>t, <1>new, <1>index DEF CoordinatorTypeOK
  <2> QED BY <1>t, <1>engine, <1>server, <1>d, <2>1, <2>2 DEF CoordinatorTypeOK
<1>2. QueueTypeOK'
  BY <1>t, <1>d, <1>q DEF QueueTypeOK
<1>3. ListTypeInv'
  BY <1>t, <1>new, <1>current_binlog_id, <1>binlog_xid_count_list,
     <1>xid_count DEF ListTypeInv
<1>4. LocksInv'
  BY <1>d DEF ThreadsInv, LocksInv
<1>5. FilesInv'
  <2>1. \A u \in Sessions : ~check_purge[u]
    BY <1>g DEF ThreadsInv, DownInv
  <2> QED BY <2>1, <1>idle, <1>d, <1>q DEF ThreadsInv, FilesInv
<1>6. GroupInv'
  <2>1. \A l \in Sessions, u \in Trx : ~Contains(group[l], u)
    BY <1>idle, Constants DEF ThreadsInv, GroupInv, Committing
  <2> QED BY <2>1, <1>idle, <1>d DEF ThreadsInv, GroupInv
<1>7. TrxInv'
  <2>1. DOMAIN redo' = {}
    BY <1>g, <1>d DEF ThreadsInv, DownInv
  <2>2. ASSUME NEW u \in Trx PROVE TrxOK(u)'
    <3>1. TrxOK(u) /\ pc[u] \in {"prepare", "acked", "gone"}
      BY <1>idle, Constants DEF ThreadsInv, TrxInv
    <3>2. file[u] \in Nat
      BY <1>t, FilesAreNumbers
    <3>3. file[u] <= current_binlog_id + 1
      BY <3>1, <3>2, <1>new DEF TrxOK
    <3>4. file[u] \in index => file[u] # NoFile
      BY <1>t, Constants DEF CoordinatorTypeOK
    <3> QED BY <3>1, <3>3, <3>4, <1>engine, <1>current_binlog_id, <1>d DEF TrxOK, Ordered
  <2> QED BY <2>1, <2>2 DEF TrxInv
<1>8. ListInv'
  <2> DEFINE c == current_binlog_id
  <2>1. index \subseteq Nat /\ \A f \in index : f <= c /\ f .. c \subseteq index
    BY <1>t, Constants DEF ThreadsInv, ListInv, CoordinatorTypeOK
  <2>2. ASSUME NEW f \in index' PROVE f <= c + 1 /\ f .. c + 1 \subseteq index'
    <3>1. CASE f = c + 1
      BY <3>1, <1>new, <1>index
    <3>2. CASE f \in index
      <4>1. f \in Nat /\ f <= c /\ \A g \in f .. c : g \in index
        BY <3>2, <2>1
      <4>2. \A g \in f .. c + 1 : g = c + 1 \/ g \in f .. c
        BY <4>1, <1>new
      <4> QED BY <4>1, <4>2, <1>new, <1>index
    <3> QED BY <3>1, <3>2, <2>2, <1>index
  <2>3. /\ binlog_xid_count_list' # <<>> /\ Head(binlog_xid_count_list') = c + 1
        /\ UpTo(binlog_xid_count_list', c + 1)
    BY <1>new, <1>binlog_xid_count_list DEF UpTo
  <2> QED BY <2>2, <2>3, <1>index, <1>current_binlog_id DEF ListInv
<1>9. DownInv'
  BY <1>g, <1>new, <1>idle, <1>server, <1>d, <1>current_binlog_id, Constants
     DEF ThreadsInv, DownInv
<1> QED BY <1>1, <1>2, <1>3, <1>4, <1>5, <1>6, <1>7, <1>8, <1>9 DEF ThreadsInv, TypeInv


(* recover() without a file that it needs                                  *)
LEMMA RecoverAbortsThreads ==
  ASSUME OneEngine, ThreadsInv, RecoverAborts
  PROVE  ThreadsInv'
<1>t. CoordinatorTypeOK /\ QueueTypeOK /\ ListTypeInv
  BY DEF ThreadsInv, TypeInv
<1>g. server = "down"
  BY DEF RecoverAborts, At
<1>server. server' = "aborted"
  BY DEF RecoverAborts
<1>d. UNCHANGED <<index, file, unsynced, checkpoint, engine, redo, lsn,
   crashes, pc, LOCK_log, LOCK_after_binlog_sync, LOCK_commit_ordered, group,
   binlog_id, check_purge, to_ask, named, mark>>
  BY DEF RecoverAborts, diskVars, engineVars, redoVars, serverVars, lockVars,
     localVars
<1>l. UNCHANGED <<current_binlog_id, binlog_xid_count_list, xid_count>>
  BY DEF RecoverAborts, listVars
<1>q. UNCHANGED <<flushed_lsn, log_requests, seen, flush_notify, notifying,
   binlog_background_thread_queue, next_in_queue, notify_count, bg>>
  BY DEF RecoverAborts, ckptVars, engineVars, redoVars, requestVars, queueVars
<1>1. CoordinatorTypeOK'
  BY <1>t, <1>g, <1>d, <1>server, Constants DEF CoordinatorTypeOK, Labels
<1>2. QueueTypeOK'
  BY <1>t, <1>d, <1>q DEF QueueTypeOK
<1>3. ListTypeInv'
  BY <1>t, <1>l DEF ListTypeInv
<1>4. LocksInv'
  BY <1>d DEF ThreadsInv, LocksInv
<1>5. FilesInv'
  BY <1>d, <1>l, <1>q DEF ThreadsInv, FilesInv
<1>6. GroupInv'
  BY <1>d DEF ThreadsInv, GroupInv
<1>7. TrxInv'
  BY <1>g, <1>d, <1>server, <1>l, Constants DEF ThreadsInv, TrxInv, TrxOK,
     Ordered
<1>8. ListInv'
  BY <1>l, <1>d DEF ThreadsInv, ListInv
<1>9. DownInv'
  BY <1>g, <1>server, <1>d, <1>l, Constants DEF ThreadsInv, DownInv
<1> QED BY <1>1, <1>2, <1>3, <1>4, <1>5, <1>6, <1>7, <1>8, <1>9 DEF ThreadsInv, TypeInv

(* The first start satisfies the first half.                               *)
LEMMA InitThreads == ASSUME Init PROVE ThreadsInv
<1>0. 1 \in Files
  BY MaxFileAssumption DEF Files
<1>1. CoordinatorTypeOK
  <2>1. <<>> \in Seq(Trx) /\ Len(<<>>) = 0
    OBVIOUS
  <2>2. lsn = 0
    BY DEF Init, QueueInit
  <2>3. pc \in [Sessions -> Labels]
    BY DEF Init, Labels
  <2>4. /\ file \in [Trx -> Files \cup {NoFile}]
        /\ checkpoint \in [Files -> Files \cup {NoFile}]
        /\ engine \in [Trx -> {"active", "prepared", "committed", "rolled back"}]
        /\ index \subseteq Files /\ index # {}
    BY <1>0 DEF Init
  <2>5. /\ group \in [Sessions -> Seq(Trx)]
        /\ binlog_id \in [Sessions -> Files \cup {NoFile}]
        /\ check_purge \in [Sessions -> BOOLEAN]
        /\ to_ask \in [Sessions -> {Engines, Tail(Engines), <<>>}]
        /\ mark \in [Markers -> {"no", "lock", "write"}]
    BY <2>1 DEF Init
  <2>6. crashes \in 0 .. MaxCrashes
    BY XaAssumption DEF Init
  <2> QED BY <2>1, <2>2, <2>3, <2>4, <2>5, <2>6 DEF Init, CoordinatorTypeOK
<1>2. QueueTypeOK
  <2>1. <<>> \in Seq(Requests) /\ <<>> \in Seq(Files)
    OBVIOUS
  <2>2. bg \in [entry : Files \cup {NoFile}, next : Files \cup {NoFile}, times : Nat]
    BY DEF Init, QueueInit, Idle
  <2> QED BY <2>1, <2>2 DEF Init, QueueInit, QueueTypeOK
<1>3. /\ current_binlog_id = 1 /\ binlog_xid_count_list = <<1>>
      /\ xid_count = [g \in Files |-> 0]
  BY DEF Init, ListInit
<1>4. ListTypeInv
  BY <1>0, <1>3 DEF ListTypeInv
<1>5. \A t \in Sessions : /\ pc[t] = IF t \in Trx THEN "prepare" ELSE "rotate"
                          /\ mark[t] = "no" /\ group[t] = <<>> /\ binlog_id[t] = NoFile
                          /\ ~check_purge[t] /\ to_ask[t] = Engines /\ seen[t] = NoLsn
  BY Constants DEF Init, QueueInit
<1>6. LocksInv
  BY <1>5, Constants DEF Init, LocksInv
<1>7. FilesInv
  BY <1>5, Constants DEF Init, FilesInv
<1>8. GroupInv
  BY <1>5, EmptyList DEF Init, GroupInv
<1>9. TrxInv
  <2>1. \A t \in Trx : pc[t] = "prepare" /\ engine[t] = "active" /\ file[t] = 0
    BY <1>5, Constants DEF Init
  <2> QED BY <1>3, <2>1, Constants DEF Init, TrxInv, TrxOK
<1>10. ListInv
  BY <1>3 DEF Init, ListInv, UpTo
<1>11. DownInv
  BY DEF Init, DownInv
<1> QED BY <1>1, <1>2, <1>4, <1>6, <1>7, <1>8, <1>9, <1>10, <1>11 DEF ThreadsInv, TypeInv

(* A step that changes nothing keeps it.                                   *)
LEMMA StutterThreads == ASSUME ThreadsInv, UNCHANGED vars PROVE ThreadsInv'
<1>d. /\ UNCHANGED <<index, file, unsynced, checkpoint, engine, redo, lsn, server, crashes>>
      /\ UNCHANGED <<pc, LOCK_log, LOCK_after_binlog_sync, LOCK_commit_ordered, group,
                     binlog_id, check_purge, to_ask, named, mark>>
  BY DEF vars, diskVars, engineVars, redoVars, serverVars, lockVars, localVars
<1>l. UNCHANGED <<current_binlog_id, binlog_xid_count_list, xid_count>>
  BY DEF vars, listVars
<1>q. UNCHANGED <<flushed_lsn, log_requests, seen, flush_notify, notifying,
                  binlog_background_thread_queue, next_in_queue, notify_count, bg>>
  BY DEF vars, ckptVars, engineVars, redoVars, requestVars, queueVars
<1>1. CoordinatorTypeOK' /\ ListTypeInv' /\ QueueTypeOK'
  <2>1. CoordinatorTypeOK /\ ListTypeInv /\ QueueTypeOK
    BY DEF ThreadsInv, TypeInv
  <2>2. CoordinatorTypeOK'
    BY <2>1, <1>d DEF CoordinatorTypeOK
  <2>3. ListTypeInv' /\ QueueTypeOK'
    BY <2>1, <1>d, <1>l, <1>q DEF ListTypeInv, QueueTypeOK
  <2> QED BY <2>2, <2>3
<1>2. LocksInv' /\ FilesInv' /\ DownInv' /\ ListInv'
  BY <1>d, <1>l, <1>q DEF ThreadsInv, LocksInv, FilesInv, DownInv, ListInv
<1>3. GroupInv'
  BY <1>d DEF ThreadsInv, GroupInv
<1>4. TrxInv'
  BY <1>d, <1>l DEF ThreadsInv, TrxInv, TrxOK, Ordered
<1> QED BY <1>1, <1>2, <1>3, <1>4 DEF ThreadsInv, TypeInv

(* Every step keeps the first half of the invariant.                       *)
LEMMA NextThreads == ASSUME OneEngine, ThreadsInv, [Next]_vars PROVE ThreadsInv'
<1>1. CASE \E t \in Trx : Transaction(t)
  <2>1. PICK t \in Trx : Transaction(t)
    BY <1>1
  <2> QED BY <2>1, PrepareThreads, LeaderLockLogThreads, LeaderSyncThreads, NoRotateThreads,
             CommitOrderedThreads, CommitEngineThreads, UnlogThreads, LeaderWriteThreads
          DEF Transaction
<1>2. CASE \E t \in Sessions : Session(t)
  <2>1. PICK t \in Sessions : Session(t)
    BY <1>2
  <2> QED BY <2>1, RotatorLockLogThreads, RotateThreads, OpenNewThreads,
             RotateFailsThreads, ReleaseLogThreads, CommitLockThreads, CommitUnlockThreads,
             RequestCheckpointThreads, InnodbQueuesThreads, RequestedThreads DEF Session
<1>3. CASE \E t \in Threads : Notifies(t)
  BY <1>3, NotifiesThreads
<1>4. CASE \E t \in Markers : MarkStep(t)
  BY <1>4, MarkLockThreads, MarkWriteThreads DEF MarkStep
<1>5. CASE BackgroundQueue \/ BackgroundMark \/ FlushRedo \/ Purge
  BY <1>5, BackgroundQueueThreads, BackgroundMarkThreads, FlushRedoThreads, PurgeThreads
<1>6. CASE Crash \/ Recover \/ RecoverAborts
  BY <1>6, CrashThreads, RecoverThreads, RecoverAbortsThreads
<1>7. CASE Finished \/ UNCHANGED vars
  BY <1>7, StutterThreads DEF Finished
<1> QED BY <1>1, <1>2, <1>3, <1>4, <1>5, <1>6, <1>7 DEF Next

----------------------------------------------------------------------------
(* The second half: where the one checkpoint request for a file is on its  *)
(* way through InnoDB, the notifying threads and the background thread.    *)

Places == {"none", "asking", "asked", "notify", "queued", "taken", "marking"}

Flushing(f) == \E t \in Sessions : pc[t] = "flush" /\ binlog_id[t] = f

(* Before the background thread's queue: with the session that asks, in    *)
(* InnoDB's list, or with a thread that will notify.                       *)
RequestsInv(where) ==
  /\ \A f \in Files :
       /\ where[f] = "asking" <=> Flushing(f)
       /\ where[f] = "asked" <=> \E i \in DOMAIN log_requests : log_requests[i].cookie = f
       /\ where[f] = "notify" <=> \E t \in Threads : Contains(notifying[t], f)
  /\ \A i, j \in DOMAIN log_requests : log_requests[i].cookie = log_requests[j].cookie => i = j
  /\ \A t \in Threads : /\ IsInjective(notifying[t])
                        /\ flush_notify[t] # NoLsn => notifying[t] = <<>>
  /\ \A t, u \in Threads, f \in Files :
       Contains(notifying[t], f) /\ Contains(notifying[u], f) => t = u

(* In the queue: the links have no cycle, and nobody is notified twice.    *)
QueueInv(where) ==
  /\ \A f \in Files :
       /\ where[f] = "queued" <=> f \in Queued
       /\ where[f] = "taken" <=> f \in Reach(next_in_queue, bg.next)
       /\ where[f] = "marking" <=> bg.entry = f /\ bg.times = 1
       /\ where[f] \in {"queued", "taken"} => f \notin Reach(next_in_queue, next_in_queue[f])
       /\ notify_count[f] = 0
  /\ bg.times \in {0, 1} /\ (bg.times = 1 => bg.entry # NoFile)

(* Only a file that was rotated away from is asked for, and once.          *)
AskedInv(where) ==
  /\ \A f \in Files : where[f] # "none" => server = "up" /\ f < current_binlog_id
  /\ \A t \in Sessions : check_purge[t] /\ to_ask[t] # <<>> => where[binlog_id[t]] = "none"

CountInv(where) ==
  server = "up" => \A f \in Files :
    /\ xid_count[f] = Cardinality(Unlogging(f)) + Cardinality(Holding(f))
                      + IF where[f] = "none" THEN 0 ELSE 1
    /\ xid_count[f] # 0 => Head(binlog_xid_count_list) <= f /\ f <= current_binlog_id

PlacesInv(where) ==
  /\ RequestsInv(where) /\ QueueInv(where) /\ AskedInv(where) /\ CountInv(where)
  /\ xid_count \in [Files -> Nat]

CountsInv == ThreadsInv /\ \E where \in [Files -> Places] : PlacesInv(where)

(* Sets of sessions are finite.                                            *)
LEMMA SessionSets ==
  ASSUME NEW S, S \subseteq Sessions
  PROVE  IsFiniteSet(S) /\ Cardinality(S) \in Nat
<1>1. IsFiniteSet(Sessions)
  BY XaAssumption, FS_Union DEF Sessions
<1> QED BY <1>1, FS_Subset, FS_CardinalityType

(* Who will call unlog() and who holds an entry are sets of sessions,      *)
(* before a step and after it.                                             *)
LEMMA ReasonSets ==
  /\ \A f : Unlogging(f) \subseteq Sessions /\ Holding(f) \subseteq Sessions
  /\ \A f : Unlogging(f)' \subseteq Sessions /\ Holding(f)' \subseteq Sessions
BY XaAssumption DEF Unlogging, Holding, Sessions

(* A count that is the number of its reasons is not negative.              *)
LEMMA CountsAreNumbers ==
  ASSUME ThreadsInv', NEW where, CountInv(where)', server' = "up"
  PROVE  xid_count' \in [Files -> Nat]
<1>1. xid_count' \in [Files -> Int]
  BY DEF ThreadsInv, TypeInv, ListTypeInv
<1>2. ASSUME NEW f \in Files PROVE xid_count'[f] \in Nat
  <2>1. Cardinality(Unlogging(f)') \in Nat /\ Cardinality(Holding(f)') \in Nat
    BY SessionSets, ReasonSets
  <2>2. xid_count'[f] = Cardinality(Unlogging(f)') + Cardinality(Holding(f)')
                        + IF where[f] = "none" THEN 0 ELSE 1
    BY DEF CountInv
  <2> QED BY <2>1, <2>2
<1> QED BY <1>1, <1>2

(* The counts stay right when neither they nor the reasons change.         *)
LEMMA SameCounts ==
  ASSUME NEW where \in [Files -> Places], NEW where2 \in [Files -> Places], CountInv(where),
         \A f \in Files : where2[f] = "none" <=> where[f] = "none",
         server = "up",
         \A f \in Files : Unlogging(f)' = Unlogging(f) /\ Holding(f)' = Holding(f),
         UNCHANGED <<xid_count, current_binlog_id, binlog_xid_count_list>>
  PROVE  CountInv(where2)'
BY DEF CountInv

(* Requests stay where they are when no list of them changes.              *)
LEMMA SameRequests ==
  ASSUME NEW where, RequestsInv(where),
         \A f \in Files : Flushing(f)' = Flushing(f),
         UNCHANGED <<log_requests, notifying>>,
         \A t \in Threads : flush_notify'[t] # NoLsn =>
            flush_notify'[t] = flush_notify[t] \/ notifying[t] = <<>>
  PROVE  RequestsInv(where)'
BY DEF RequestsInv

(* The same for the queue of the background thread.                        *)
LEMMA SameQueue ==
  ASSUME NEW where, QueueInv(where),
         UNCHANGED <<binlog_background_thread_queue, next_in_queue, notify_count, bg>>
  PROVE  QueueInv(where)'
BY DEF QueueInv, Queued, Reach

(* And for the files for which nobody has asked yet.                       *)
LEMMA SameAsked ==
  ASSUME NEW where, AskedInv(where), UNCHANGED <<server, current_binlog_id, check_purge, to_ask>>,
         \A t \in Sessions : check_purge[t] => binlog_id'[t] = binlog_id[t]
  PROVE  AskedInv(where)'
BY DEF AskedInv

(* So a step that touches none of these keeps the second half.             *)
LEMMA QuietPlaces ==
  ASSUME ThreadsInv', NEW where \in [Files -> Places], PlacesInv(where), server = "up",
         \A f \in Files : /\ Unlogging(f)' = Unlogging(f) /\ Holding(f)' = Holding(f)
                          /\ Flushing(f)' = Flushing(f),
         UNCHANGED <<log_requests, notifying>>,
         UNCHANGED <<binlog_background_thread_queue, next_in_queue, notify_count, bg>>,
         UNCHANGED <<server, xid_count, current_binlog_id, binlog_xid_count_list>>,
         UNCHANGED <<check_purge, to_ask>>,
         \A t \in Threads : flush_notify'[t] # NoLsn =>
            flush_notify'[t] = flush_notify[t] \/ notifying[t] = <<>>,
         \A t \in Sessions : check_purge[t] => binlog_id'[t] = binlog_id[t]
  PROVE  PlacesInv(where)'
<1>0. RequestsInv(where) /\ QueueInv(where) /\ AskedInv(where) /\ CountInv(where)
  BY DEF PlacesInv
<1>1. RequestsInv(where)'
  BY <1>0, SameRequests
<1>2. QueueInv(where)'
  BY <1>0, SameQueue
<1>3. AskedInv(where)'
  BY <1>0, SameAsked
<1>4. CountInv(where)'
  BY <1>0, SameCounts
<1>5. xid_count' \in [Files -> Nat]
  BY DEF PlacesInv
<1> QED BY <1>1, <1>2, <1>3, <1>4, <1>5 DEF PlacesInv

(* One more session in a set of them.                                      *)
LEMMA OneMore ==
  ASSUME NEW S, S \subseteq Sessions, NEW t \in Sessions, t \notin S
  PROVE  Cardinality(S \cup {t}) = Cardinality(S) + 1
BY SessionSets, FS_AddElement

(* One session less in a set of them.                                      *)
LEMMA OneLess ==
  ASSUME NEW S, S \subseteq Sessions, NEW t \in S
  PROVE  Cardinality(S \ {t}) = Cardinality(S) - 1 /\ Cardinality(S) # 0
<1>1. S \ {t} \subseteq Sessions /\ t \in Sessions /\ t \notin S \ {t} /\ S = (S \ {t}) \cup {t}
  OBVIOUS
<1>2. Cardinality(S) = Cardinality(S \ {t}) + 1
  BY <1>1, OneMore
<1> QED BY <1>1, <1>2, SessionSets

(* The sessions of two disjoint sets.                                      *)
LEMMA DisjointSets ==
  ASSUME NEW S, S \subseteq Sessions, NEW T, T \subseteq Sessions, S \cap T = {}
  PROVE  Cardinality(S \cup T) = Cardinality(S) + Cardinality(T)
<1>1. IsFiniteSet(S) /\ IsFiniteSet(T) /\ Cardinality(S) \in Nat /\ Cardinality(T) \in Nat
  BY SessionSets
<1>2. Cardinality(S \cup T) = Cardinality(S) + Cardinality(T) - Cardinality(S \cap T)
  BY <1>1, FS_Union
<1>3. Cardinality(S \cap T) = 0
  BY FS_EmptySet
<1> QED BY <1>1, <1>2, <1>3

(* A file that there is a reason for has a count.                          *)
LEMMA ReasonCounts ==
  ASSUME NEW where \in [Files -> Places], CountInv(where), server = "up", NEW f \in Files,
         Unlogging(f) # {} \/ Holding(f) # {} \/ where[f] # "none"
  PROVE  xid_count[f] # 0 /\ Head(binlog_xid_count_list) <= f /\ f <= current_binlog_id
<1>1. /\ Cardinality(Unlogging(f)) \in Nat /\ Cardinality(Holding(f)) \in Nat
      /\ Unlogging(f) # {} => Cardinality(Unlogging(f)) # 0
      /\ Holding(f) # {} => Cardinality(Holding(f)) # 0
  BY ReasonSets, SessionSets, OneLess
<1>2. /\ xid_count[f] = Cardinality(Unlogging(f)) + Cardinality(Holding(f))
                        + IF where[f] = "none" THEN 0 ELSE 1
      /\ xid_count[f] # 0 => Head(binlog_xid_count_list) <= f /\ f <= current_binlog_id
  BY DEF CountInv
<1> QED BY <1>1, <1>2

(* A step that changes the count of one file, and its reasons, by the same *)
(* number.                                                                 *)
LEMMA OneCountChanged ==
  ASSUME NEW where, NEW where2, CountInv(where), server = "up", NEW b \in Files,
         \A f \in Files : f # b => /\ Unlogging(f)' = Unlogging(f) /\ Holding(f)' = Holding(f)
                                   /\ where2[f] = where[f]
                                   /\ xid_count'[f] = xid_count[f],
         UNCHANGED <<current_binlog_id, binlog_xid_count_list>>,
         xid_count'[b] = Cardinality(Unlogging(b)') + Cardinality(Holding(b)')
                         + IF where2[b] = "none" THEN 0 ELSE 1,
         xid_count'[b] # 0 => Head(binlog_xid_count_list) <= b /\ b <= current_binlog_id
  PROVE  CountInv(where2)'
BY DEF CountInv

(* The list of entries holds the current file.                             *)
LEMMA CurrentListed ==
  ASSUME ThreadsInv
  PROVE  /\ current_binlog_id \in Files /\ Head(binlog_xid_count_list) \in Files
         /\ Head(binlog_xid_count_list) <= current_binlog_id
<1>1. /\ current_binlog_id \in Files /\ binlog_xid_count_list \in Seq(Files)
      /\ binlog_xid_count_list # <<>> /\ UpTo(binlog_xid_count_list, current_binlog_id)
  BY DEF ThreadsInv, TypeInv, ListTypeInv, ListInv
<1> QED BY <1>1, UpToElements

(* rotate() below max_binlog_size                                          *)
LEMMA NoRotatePlaces ==
  ASSUME OneEngine, ThreadsInv, ThreadsInv', NEW t \in Trx, NoRotate(t),
         NEW where \in [Files -> Places], PlacesInv(where)
  PROVE  PlacesInv(where)'
<1>t. CoordinatorTypeOK /\ QueueTypeOK /\ ListTypeInv
  BY DEF ThreadsInv, TypeInv
<1>g. server = "up" /\ pc[t] = "rotate" /\ mark[t] = "no"
  BY DEF NoRotate, At
<1>pc. /\ pc'[t] = "after"
       /\ \A v \in Sessions : v # t => pc'[v] = pc[v]
  BY <1>t, <1>g, Constants DEF NoRotate, Goto, CoordinatorTypeOK
<1>d. UNCHANGED <<file, unsynced, binlog_id, check_purge, to_ask, server,
   log_requests, notifying, flush_notify, binlog_background_thread_queue,
   next_in_queue, notify_count, bg, current_binlog_id, binlog_xid_count_list,
   xid_count>>
  BY DEF NoRotate, diskVars, engineVars, redoVars, serverVars, lockVars,
     localVars, listVars, ckptVars, requestVars, queueVars
<1>U. \A f \in Files : Unlogging(f)' = Unlogging(f)
  BY <1>g, <1>pc, <1>d, XaAssumption, Constants DEF Unlogging
<1>H. \A f \in Files : Holding(f)' = Holding(f)
  BY <1>g, <1>pc, <1>d, Constants DEF Holding, ThreadsInv, FilesInv
<1>A. \A f \in Files : Flushing(f)' = Flushing(f)
  BY <1>g, <1>pc, <1>d, Constants DEF Flushing
<1> QED BY <1>g, <1>d, <1>U, <1>H, <1>A, QuietPlaces


(* write_binlog_checkpoint_event_already_locked()                          *)
LEMMA MarkWritePlaces ==
  ASSUME OneEngine, ThreadsInv, ThreadsInv', NEW t \in Markers, MarkWrite(t),
         NEW where \in [Files -> Places], PlacesInv(where)
  PROVE  PlacesInv(where)'
<1>t. CoordinatorTypeOK /\ QueueTypeOK /\ ListTypeInv
  BY DEF ThreadsInv, TypeInv
<1>g. server = "up" /\ mark[t] = "write"
  BY DEF MarkWrite, At
<1>c. current_binlog_id \in Files
  BY <1>t DEF ListTypeInv
<1>d. UNCHANGED <<pc, file, unsynced, binlog_id, check_purge, to_ask, server,
   log_requests, notifying, flush_notify, binlog_background_thread_queue,
   next_in_queue, notify_count, bg, current_binlog_id, binlog_xid_count_list,
   xid_count>>
  BY <1>c DEF MarkWrite, diskVars, engineVars, redoVars, serverVars, lockVars,
     localVars, listVars, ckptVars, requestVars, queueVars
<1>U. \A f \in Files : Unlogging(f)' = Unlogging(f)
  BY <1>g, <1>c, <1>d, XaAssumption, Constants DEF Unlogging
<1>H. \A f \in Files : Holding(f)' = Holding(f)
  BY <1>g, <1>c, <1>d, Constants DEF Holding, ThreadsInv, FilesInv
<1>A. \A f \in Files : Flushing(f)' = Flushing(f)
  BY <1>g, <1>c, <1>d, Constants DEF Flushing
<1> QED BY <1>g, <1>d, <1>U, <1>H, <1>A, QuietPlaces


(* purge_logs()                                                            *)
LEMMA PurgePlaces ==
  ASSUME OneEngine, ThreadsInv, ThreadsInv', Purge,
         NEW where \in [Files -> Places], PlacesInv(where)
  PROVE  PlacesInv(where)'
<1>t. CoordinatorTypeOK /\ QueueTypeOK /\ ListTypeInv
  BY DEF ThreadsInv, TypeInv
<1>g. server = "up"
  BY DEF Purge, At
<1>d. UNCHANGED <<pc, file, unsynced, binlog_id, check_purge, to_ask, server,
   log_requests, notifying, flush_notify, binlog_background_thread_queue,
   next_in_queue, notify_count, bg, current_binlog_id, binlog_xid_count_list,
   xid_count>>
  BY DEF Purge, diskVars, engineVars, redoVars, serverVars, lockVars,
     localVars, listVars, ckptVars, requestVars, queueVars
<1>U. \A f \in Files : Unlogging(f)' = Unlogging(f)
  BY <1>g, <1>d, XaAssumption, Constants DEF Unlogging
<1>H. \A f \in Files : Holding(f)' = Holding(f)
  BY <1>g, <1>d, Constants DEF Holding, ThreadsInv, FilesInv
<1>A. \A f \in Files : Flushing(f)' = Flushing(f)
  BY <1>g, <1>d, Constants DEF Flushing
<1> QED BY <1>g, <1>d, <1>U, <1>H, <1>A, QuietPlaces


(* commit_one_phase_2()                                                    *)
LEMMA CommitEnginePlaces ==
  ASSUME OneEngine, ThreadsInv, ThreadsInv', NEW t \in Trx, CommitEngine(t),
         NEW where \in [Files -> Places], PlacesInv(where)
  PROVE  PlacesInv(where)'
<1>t. CoordinatorTypeOK /\ QueueTypeOK /\ ListTypeInv
  BY DEF ThreadsInv, TypeInv
<1>g. server = "up" /\ pc[t] = "ordered" /\ mark[t] = "no"
  BY DEF CommitEngine, At
<1>pc. /\ pc'[t] = IF t \in NeedUnlog THEN "unlog" ELSE "acked"
       /\ \A v \in Sessions : v # t => pc'[v] = pc[v]
  BY <1>t, <1>g, Constants DEF CommitEngine, Goto, CoordinatorTypeOK
<1>d. UNCHANGED <<file, unsynced, binlog_id, check_purge, to_ask, server,
   log_requests, notifying, flush_notify, binlog_background_thread_queue,
   next_in_queue, notify_count, bg, current_binlog_id, binlog_xid_count_list,
   xid_count>>
  BY DEF CommitEngine, diskVars, engineVars, redoVars, serverVars, lockVars,
     localVars, listVars, ckptVars, requestVars, queueVars
<1>U. \A f \in Files : Unlogging(f)' = Unlogging(f)
  BY <1>g, <1>pc, <1>d, XaAssumption, Constants DEF Unlogging
<1>H. \A f \in Files : Holding(f)' = Holding(f)
  BY <1>g, <1>pc, <1>d, Constants DEF Holding, ThreadsInv, FilesInv
<1>A. \A f \in Files : Flushing(f)' = Flushing(f)
  BY <1>g, <1>pc, <1>d, Constants DEF Flushing
<1> QED BY <1>g, <1>d, <1>U, <1>H, <1>A, QuietPlaces


(* ReleaseLog                                                              *)
LEMMA ReleaseLogPlaces ==
  ASSUME OneEngine, ThreadsInv, ThreadsInv', NEW t \in Sessions, ReleaseLog(t),
         NEW where \in [Files -> Places], PlacesInv(where)
  PROVE  PlacesInv(where)'
<1>t. CoordinatorTypeOK /\ QueueTypeOK /\ ListTypeInv
  BY DEF ThreadsInv, TypeInv
<1>g. server = "up" /\ pc[t] = "after" /\ mark[t] = "no" /\ LOCK_log' = NoThread
  BY DEF ReleaseLog, At, Goto
<1>r. LOCK_log = t /\ binlog_id[t] # NoFile
  BY <1>t, <1>g, Constants DEF ThreadsInv, LocksInv, FilesInv, ListTypeInv
<1>pc. /\ \A u \in Sessions : u # t => pc'[u] = pc[u]
       /\ pc' \in [Sessions -> Labels]
       /\ \/ /\ t \in Rotators /\ pc'[t] = (IF check_purge[t] THEN "request" ELSE "end")
             /\ LOCK_after_binlog_sync' = LOCK_after_binlog_sync
          \/ /\ pc'[t] = "order" /\ LOCK_after_binlog_sync = NoThread
             /\ LOCK_after_binlog_sync' = t
  <2>1. pc \in [Sessions -> Labels]
    BY <1>t DEF CoordinatorTypeOK
  <2>2. CASE t \in ChecksumSetters
    <3>1. pc' = [pc EXCEPT ![t] = IF check_purge[t] THEN "request" ELSE "end"]
          /\ LOCK_after_binlog_sync' = LOCK_after_binlog_sync
      BY <2>2 DEF ReleaseLog, Goto
    <3>2. t \in Rotators /\ {"request", "end"} \subseteq Labels
      BY <2>2, XaAssumption DEF Labels
    <3> QED BY <2>1, <3>1, <3>2
  <2>3. CASE t \notin ChecksumSetters
    <3>1. /\ pc' = [pc EXCEPT ![t] = "order"] /\ LOCK_after_binlog_sync = NoThread
          /\ LOCK_after_binlog_sync' = t
      BY <2>3 DEF ReleaseLog, Goto
    <3>2. "order" \in Labels
      BY DEF Labels
    <3> QED BY <2>1, <3>1, <3>2
  <2> QED BY <2>2, <2>3
<1>d. UNCHANGED <<file, unsynced, binlog_id, check_purge, to_ask, server,
   log_requests, notifying, flush_notify, binlog_background_thread_queue,
   next_in_queue, notify_count, bg, current_binlog_id, binlog_xid_count_list,
   xid_count>>
  BY <1>r DEF ReleaseLog, Goto, diskVars, engineVars, redoVars, serverVars,
     lockVars, localVars, listVars, ckptVars, requestVars, queueVars
<1>U. \A f \in Files : Unlogging(f)' = Unlogging(f)
  BY <1>g, <1>pc, <1>r, <1>d, XaAssumption, Constants DEF Unlogging
<1>H. \A f \in Files : Holding(f)' = Holding(f)
  BY <1>g, <1>pc, <1>r, <1>d, Constants DEF Holding, ThreadsInv, FilesInv
<1>A. \A f \in Files : Flushing(f)' = Flushing(f)
  BY <1>g, <1>pc, <1>r, <1>d, Constants DEF Flushing
<1> QED BY <1>g, <1>d, <1>U, <1>H, <1>A, QuietPlaces


(* CommitLock                                                              *)
LEMMA CommitLockPlaces ==
  ASSUME OneEngine, ThreadsInv, ThreadsInv', NEW t \in Sessions, CommitLock(t),
         NEW where \in [Files -> Places], PlacesInv(where)
  PROVE  PlacesInv(where)'
<1>t. CoordinatorTypeOK /\ QueueTypeOK /\ ListTypeInv
  BY DEF ThreadsInv, TypeInv
<1>g. server = "up" /\ pc[t] = "order" /\ mark[t] = "no" /\ LOCK_commit_ordered = NoThread
  BY DEF CommitLock, At
<1>pc. /\ pc'[t] = "commit"
       /\ \A v \in Sessions : v # t => pc'[v] = pc[v]
  BY <1>t, <1>g, Constants DEF CommitLock, Goto, CoordinatorTypeOK
<1>d. UNCHANGED <<file, unsynced, binlog_id, check_purge, to_ask, server,
   log_requests, notifying, flush_notify, binlog_background_thread_queue,
   next_in_queue, notify_count, bg, current_binlog_id, binlog_xid_count_list,
   xid_count>>
  BY DEF CommitLock, diskVars, engineVars, redoVars, serverVars, lockVars,
     localVars, listVars, ckptVars, requestVars, queueVars
<1>U. \A f \in Files : Unlogging(f)' = Unlogging(f)
  BY <1>g, <1>pc, <1>d, XaAssumption, Constants DEF Unlogging
<1>H. \A f \in Files : Holding(f)' = Holding(f)
  BY <1>g, <1>pc, <1>d, Constants DEF Holding, ThreadsInv, FilesInv
<1>A. \A f \in Files : Flushing(f)' = Flushing(f)
  BY <1>g, <1>pc, <1>d, Constants DEF Flushing
<1> QED BY <1>g, <1>d, <1>U, <1>H, <1>A, QuietPlaces


(* CommitUnlock                                                            *)
LEMMA CommitUnlockPlaces ==
  ASSUME OneEngine, ThreadsInv, ThreadsInv', NEW t \in Sessions, CommitUnlock(t),
         NEW where \in [Files -> Places], PlacesInv(where)
  PROVE  PlacesInv(where)'
<1>t. CoordinatorTypeOK /\ QueueTypeOK /\ ListTypeInv
  BY DEF ThreadsInv, TypeInv
<1>g. server = "up" /\ pc[t] = "commit" /\ mark[t] = "no" /\ group[t] = <<>>
  BY DEF CommitUnlock, At
<1>e. \A u : ~Contains(group[t], u)
  BY <1>g, EmptyList
<1>pc. /\ pc'[t] = IF check_purge[t] THEN "request" ELSE IF t \in Trx THEN "ordered" ELSE "end"
       /\ \A v \in Sessions : v # t => pc'[v] = pc[v]
  BY <1>t, <1>g, <1>e, Constants DEF CommitUnlock, Goto, CoordinatorTypeOK
<1>d. UNCHANGED <<file, unsynced, binlog_id, check_purge, to_ask, server,
   log_requests, notifying, flush_notify, binlog_background_thread_queue,
   next_in_queue, notify_count, bg, current_binlog_id, binlog_xid_count_list,
   xid_count>>
  BY <1>e DEF CommitUnlock, diskVars, engineVars, redoVars, serverVars,
     lockVars, localVars, listVars, ckptVars, requestVars, queueVars
<1>U. \A f \in Files : Unlogging(f)' = Unlogging(f)
  BY <1>g, <1>pc, <1>e, <1>d, XaAssumption, Constants DEF Unlogging
<1>H. \A f \in Files : Holding(f)' = Holding(f)
  BY <1>g, <1>pc, <1>e, <1>d, Constants DEF Holding, ThreadsInv, FilesInv
<1>A. \A f \in Files : Flushing(f)' = Flushing(f)
  BY <1>g, <1>pc, <1>e, <1>d, Constants DEF Flushing
<1> QED BY <1>g, <1>d, <1>U, <1>H, <1>A, QuietPlaces


(* rotate_and_purge()                                                      *)
LEMMA RotatorLockLogPlaces ==
  ASSUME OneEngine, ThreadsInv, ThreadsInv', NEW t \in Sessions, RotatorLockLog(t),
         NEW where \in [Files -> Places], PlacesInv(where)
  PROVE  PlacesInv(where)'
<1>t. CoordinatorTypeOK /\ QueueTypeOK /\ ListTypeInv
  BY DEF ThreadsInv, TypeInv
<1>g. server = "up" /\ pc[t] = "rotate" /\ mark[t] = "no" /\ t \in Rotators /\ LOCK_log = NoThread
  BY DEF RotatorLockLog, At
<1>binlog_id. /\ binlog_id'[t] = current_binlog_id
              /\ \A v \in Sessions : v # t => binlog_id'[v] = binlog_id[v]
  BY <1>t, <1>g, Constants DEF RotatorLockLog, Goto, CoordinatorTypeOK
<1>d. UNCHANGED <<pc, file, unsynced, check_purge, to_ask, server,
   log_requests, notifying, flush_notify, binlog_background_thread_queue,
   next_in_queue, notify_count, bg, current_binlog_id, binlog_xid_count_list,
   xid_count>>
  BY DEF RotatorLockLog, diskVars, engineVars, redoVars, serverVars, lockVars,
     localVars, listVars, ckptVars, requestVars, queueVars
<1>U. \A f \in Files : Unlogging(f)' = Unlogging(f)
  BY <1>g, <1>binlog_id, <1>d, XaAssumption, Constants DEF Unlogging
<1>H. \A f \in Files : Holding(f)' = Holding(f)
  BY <1>g, <1>binlog_id, <1>d, Constants DEF Holding, ThreadsInv, FilesInv
<1>A. \A f \in Files : Flushing(f)' = Flushing(f)
  BY <1>g, <1>binlog_id, <1>d, Constants DEF Flushing
<1>b. \A v \in Sessions : check_purge[v] => binlog_id'[v] = binlog_id[v]
  BY <1>g, <1>binlog_id, <1>d DEF ThreadsInv, FilesInv
<1> QED BY <1>g, <1>d, <1>U, <1>H, <1>A, <1>b, QuietPlaces


(* srv_master_callback()                                                   *)
LEMMA FlushRedoPlaces ==
  ASSUME OneEngine, ThreadsInv, ThreadsInv', FlushRedo,
         NEW where \in [Files -> Places], PlacesInv(where)
  PROVE  PlacesInv(where)'
<1>t. CoordinatorTypeOK /\ QueueTypeOK /\ ListTypeInv
  BY DEF ThreadsInv, TypeInv
<1>g. server = "up"
  BY DEF FlushRedo, At, FlushedBy
<1>flush_notify. /\ flush_notify'[Flusher] = [to |-> lsn]
                 /\ \A v \in Threads : v # Flusher => flush_notify'[v] = flush_notify[v]
  BY <1>t, <1>g, Constants DEF FlushRedo, Goto, QueueTypeOK, FlushedBy
<1>d. UNCHANGED <<pc, file, unsynced, binlog_id, check_purge, to_ask, server,
   log_requests, notifying, binlog_background_thread_queue, next_in_queue,
   notify_count, bg, current_binlog_id, binlog_xid_count_list, xid_count>>
  BY DEF FlushRedo, FlushedBy, diskVars, engineVars, redoVars, serverVars,
     lockVars, localVars, listVars, ckptVars, requestVars, queueVars
<1>U. \A f \in Files : Unlogging(f)' = Unlogging(f)
  BY <1>g, <1>flush_notify, <1>d, XaAssumption, Constants DEF Unlogging
<1>H. \A f \in Files : Holding(f)' = Holding(f)
  BY <1>g, <1>flush_notify, <1>d, Constants DEF Holding, ThreadsInv, FilesInv
<1>A. \A f \in Files : Flushing(f)' = Flushing(f)
  BY <1>g, <1>flush_notify, <1>d, Constants DEF Flushing
<1>n. notifying[Flusher] = <<>> /\ \A v \in Threads : v # Flusher => flush_notify'[v] = flush_notify[v]
  BY <1>flush_notify DEF FlushRedo, Busy
<1> QED BY <1>g, <1>d, <1>U, <1>H, <1>A, <1>n, QuietPlaces


(* run_commit_ordered()                                                    *)
LEMMA CommitOrderedPlaces ==
  ASSUME OneEngine, ThreadsInv, ThreadsInv', NEW t \in Trx, CommitOrdered(t),
         NEW where \in [Files -> Places], PlacesInv(where)
  PROVE  PlacesInv(where)'
<1>t. CoordinatorTypeOK /\ QueueTypeOK /\ ListTypeInv
  BY DEF ThreadsInv, TypeInv
<1>g. server = "up" /\ pc[t] = "commit" /\ mark[t] = "no" /\ group[t] # <<>>
  BY DEF CommitOrdered, At
<1>u. PICK u \in Trx : /\ u = Head(group[t]) /\ Contains(group[t], u)
                       /\ engine[u] = "prepared" /\ file[u] # NoFile
                       /\ u = t \/ pc[u] = "grouped"
  <2>1. group[t] \in Seq(Trx) /\ IsInjective(group[t])
    BY <1>t, Constants DEF ThreadsInv, GroupInv, CoordinatorTypeOK
  <2>2. Head(group[t]) \in Trx /\ Contains(group[t], Head(group[t]))
    BY <1>g, <2>1, TailList
  <2> QED BY <2>2, Constants DEF ThreadsInv, GroupInv
<1>pc. /\ pc' \in [Sessions -> Labels]
       /\ \A v \in Sessions : pc'[v] = IF v = u /\ u # t THEN "ordered" ELSE pc[v]
  <2>1. pc' = IF u = t THEN pc ELSE [pc EXCEPT ![u] = "ordered"]
    BY <1>u DEF CommitOrdered
  <2>2. pc \in [Sessions -> Labels] /\ "ordered" \in Labels /\ u \in Sessions
    BY <1>t, Constants DEF CoordinatorTypeOK, Labels
  <2> QED BY <2>1, <2>2
<1>d. UNCHANGED <<file, unsynced, binlog_id, check_purge, to_ask, server,
   log_requests, notifying, flush_notify, binlog_background_thread_queue,
   next_in_queue, notify_count, bg, current_binlog_id, binlog_xid_count_list,
   xid_count>>
  BY DEF CommitOrdered, diskVars, engineVars, redoVars, serverVars, lockVars,
     localVars, listVars, ckptVars, requestVars, queueVars
<1>U. \A f \in Files : Unlogging(f)' = Unlogging(f)
  BY <1>g, <1>u, <1>pc, <1>d, XaAssumption, Constants DEF Unlogging
<1>H. \A f \in Files : Holding(f)' = Holding(f)
  BY <1>g, <1>u, <1>pc, <1>d, Constants DEF Holding, ThreadsInv, FilesInv
<1>A. \A f \in Files : Flushing(f)' = Flushing(f)
  BY <1>g, <1>u, <1>pc, <1>d, Constants DEF Flushing
<1> QED BY <1>g, <1>d, <1>U, <1>H, <1>A, QuietPlaces


(* trx_prepare()                                                           *)
LEMMA PreparePlaces ==
  ASSUME OneEngine, ThreadsInv, ThreadsInv', NEW t \in Trx, Prepare(t),
         NEW where \in [Files -> Places], PlacesInv(where)
  PROVE  PlacesInv(where)'
<1>t. CoordinatorTypeOK /\ QueueTypeOK /\ ListTypeInv
  BY DEF ThreadsInv, TypeInv
<1>g. server = "up" /\ pc[t] = "prepare" /\ mark[t] = "no"
  BY DEF Prepare, At, FlushedBy
<1>pc. /\ pc'[t] = "queue"
       /\ \A v \in Sessions : v # t => pc'[v] = pc[v]
  BY <1>t, <1>g, Constants DEF Prepare, Goto, CoordinatorTypeOK, FlushedBy
<1>d. UNCHANGED <<file, unsynced, binlog_id, check_purge, to_ask, server,
   log_requests, notifying, binlog_background_thread_queue, next_in_queue,
   notify_count, bg, current_binlog_id, binlog_xid_count_list, xid_count>>
  BY DEF Prepare, FlushedBy, diskVars, engineVars, redoVars, serverVars,
     lockVars, localVars, listVars, ckptVars, requestVars, queueVars
<1>f. notifying[t] = <<>> /\ \A v \in Threads : v # t => flush_notify'[v] = flush_notify[v]
  <2>1. notifying[t] = <<>> /\ (UNCHANGED flush_notify \/ FlushedBy(t, lsn))
    BY DEF Prepare, At, Busy
  <2> QED BY <2>1, <1>t DEF FlushedBy, QueueTypeOK
<1>U. \A f \in Files : Unlogging(f)' = Unlogging(f)
  BY <1>g, <1>pc, <1>d, XaAssumption, Constants DEF Unlogging
<1>H. \A f \in Files : Holding(f)' = Holding(f)
  BY <1>g, <1>pc, <1>d, Constants DEF Holding, ThreadsInv, FilesInv
<1>A. \A f \in Files : Flushing(f)' = Flushing(f)
  BY <1>g, <1>pc, <1>d, Constants DEF Flushing
<1>n. \A v \in Threads : flush_notify'[v] # NoLsn =>
         flush_notify'[v] = flush_notify[v] \/ notifying[v] = <<>>
  BY <1>f
<1> QED BY <1>g, <1>d, <1>U, <1>H, <1>A, <1>n, QuietPlaces


(* trx_group_commit_leader()                                               *)
LEMMA LeaderLockLogPlaces ==
  ASSUME OneEngine, ThreadsInv, ThreadsInv', NEW t \in Trx, LeaderLockLog(t),
         NEW where \in [Files -> Places], PlacesInv(where)
  PROVE  PlacesInv(where)'
<1>t. CoordinatorTypeOK /\ QueueTypeOK /\ ListTypeInv
  BY DEF ThreadsInv, TypeInv
<1>g. server = "up" /\ pc[t] = "queue" /\ mark[t] = "no" /\ LOCK_log = NoThread
  BY DEF LeaderLockLog, At, WriteEvents
<1>pc. /\ pc'[t] = "write"
       /\ \A v \in Sessions : v # t => pc'[v] = pc[v]
  BY <1>t, <1>g, Constants DEF LeaderLockLog, Goto, CoordinatorTypeOK,
     WriteEvents
<1>file. /\ file'[t] = current_binlog_id
         /\ \A v \in Trx : v # t => file'[v] = file[v]
  BY <1>t, <1>g, Constants DEF LeaderLockLog, Goto, CoordinatorTypeOK,
     WriteEvents
<1>unsynced. unsynced' = Append(unsynced, t)
  BY DEF LeaderLockLog, WriteEvents
<1>binlog_id. /\ binlog_id'[t] = current_binlog_id
              /\ \A v \in Sessions : v # t => binlog_id'[v] = binlog_id[v]
  BY <1>t, <1>g, Constants DEF LeaderLockLog, Goto, CoordinatorTypeOK,
     WriteEvents
<1>d. UNCHANGED <<check_purge, to_ask, server, log_requests, notifying,
   flush_notify, binlog_background_thread_queue, next_in_queue, notify_count,
   bg, current_binlog_id, binlog_xid_count_list, xid_count>>
  BY DEF LeaderLockLog, WriteEvents, diskVars, engineVars, redoVars,
     serverVars, lockVars, localVars, listVars, ckptVars, requestVars,
     queueVars
<1>s. /\ \A v : v \in ToSet(unsynced) <=> Contains(unsynced, v)
      /\ \A v : v \in ToSet(unsynced') <=> Contains(unsynced', v)
  <2>1. unsynced \in Seq(Trx) /\ unsynced' \in Seq(Trx)
    BY DEF ThreadsInv, TypeInv, CoordinatorTypeOK
  <2> QED BY <2>1, SetOfList
<1>U. \A f \in Files : Unlogging(f)' = Unlogging(f)
  <2>1. unsynced \in Seq(Trx)
    BY <1>t DEF CoordinatorTypeOK
  <2>2. \A v : Contains(unsynced', v) <=> v = t \/ Contains(unsynced, v)
    BY <2>1, <1>unsynced, AppendList
  <2>3. file[t] = NoFile
    BY <1>g DEF ThreadsInv, TrxInv, TrxOK
  <2> QED BY <1>g, <1>s, <1>pc, <1>file, <2>2, <2>3, XaAssumption, Constants DEF Unlogging
<1>H. \A f \in Files : Holding(f)' = Holding(f)
  BY <1>g, <1>pc, <1>binlog_id, <1>d, Constants DEF Holding, ThreadsInv,
     FilesInv
<1>A. \A f \in Files : Flushing(f)' = Flushing(f)
  BY <1>g, <1>pc, <1>binlog_id, Constants DEF Flushing
<1>b. \A v \in Sessions : check_purge[v] => binlog_id'[v] = binlog_id[v]
  BY <1>g, <1>pc, <1>file, <1>unsynced, <1>binlog_id, <1>d DEF ThreadsInv,
     FilesInv
<1> QED BY <1>g, <1>d, <1>U, <1>H, <1>A, <1>b, QuietPlaces


(* trx_group_commit_leader()                                               *)
LEMMA LeaderWritePlaces ==
  ASSUME OneEngine, ThreadsInv, ThreadsInv', NEW t \in Trx, NEW u \in Trx, LeaderWrite(t, u),
         NEW where \in [Files -> Places], PlacesInv(where)
  PROVE  PlacesInv(where)'
<1>t. CoordinatorTypeOK /\ QueueTypeOK /\ ListTypeInv
  BY DEF ThreadsInv, TypeInv
<1>g. server = "up" /\ pc[t] = "write" /\ mark[t] = "no" /\ pc[u] = "queue"
  BY DEF LeaderWrite, At, WriteEvents
<1>pc. /\ pc'[u] = "grouped"
       /\ \A v \in Sessions : v # u => pc'[v] = pc[v]
  BY <1>t, <1>g, Constants DEF LeaderWrite, Goto, CoordinatorTypeOK,
     WriteEvents
<1>file. /\ file'[u] = current_binlog_id
         /\ \A v \in Trx : v # u => file'[v] = file[v]
  BY <1>t, <1>g, Constants DEF LeaderWrite, Goto, CoordinatorTypeOK,
     WriteEvents
<1>unsynced. unsynced' = Append(unsynced, u)
  BY DEF LeaderWrite, WriteEvents
<1>d. UNCHANGED <<binlog_id, check_purge, to_ask, server, log_requests,
   notifying, flush_notify, binlog_background_thread_queue, next_in_queue,
   notify_count, bg, current_binlog_id, binlog_xid_count_list, xid_count>>
  BY DEF LeaderWrite, WriteEvents, diskVars, engineVars, redoVars, serverVars,
     lockVars, localVars, listVars, ckptVars, requestVars, queueVars
<1>s. /\ \A v : v \in ToSet(unsynced) <=> Contains(unsynced, v)
      /\ \A v : v \in ToSet(unsynced') <=> Contains(unsynced', v)
  <2>1. unsynced \in Seq(Trx) /\ unsynced' \in Seq(Trx)
    BY DEF ThreadsInv, TypeInv, CoordinatorTypeOK
  <2> QED BY <2>1, SetOfList
<1>U. \A f \in Files : Unlogging(f)' = Unlogging(f)
  <2>1. unsynced \in Seq(Trx)
    BY <1>t DEF CoordinatorTypeOK
  <2>2. \A v : Contains(unsynced', v) <=> v = u \/ Contains(unsynced, v)
    BY <2>1, <1>unsynced, AppendList
  <2>3. file[u] = NoFile
    BY <1>g DEF ThreadsInv, TrxInv, TrxOK
  <2> QED BY <1>g, <1>s, <1>pc, <1>file, <2>2, <2>3, XaAssumption, Constants DEF Unlogging
<1>H. \A f \in Files : Holding(f)' = Holding(f)
  BY <1>g, <1>pc, <1>d, Constants DEF Holding, ThreadsInv, FilesInv
<1>A. \A f \in Files : Flushing(f)' = Flushing(f)
  BY <1>g, <1>pc, <1>d, Constants DEF Flushing
<1> QED BY <1>g, <1>d, <1>U, <1>H, <1>A, QuietPlaces


(* rotate()                                                                *)
LEMMA RotatePlaces ==
  ASSUME OneEngine, ThreadsInv, ThreadsInv', NEW t \in Sessions, Rotate(t),
         NEW where \in [Files -> Places], PlacesInv(where)
  PROVE  PlacesInv(where)'
<1>t. CoordinatorTypeOK /\ QueueTypeOK /\ ListTypeInv
  BY DEF ThreadsInv, TypeInv
<1>g. server = "up" /\ pc[t] = "rotate" /\ mark[t] = "no" /\ LOCK_log = t /\ current_binlog_id < MaxFile
  BY DEF Rotate, At, Activated
<1>pc. /\ pc'[t] = "open"
       /\ \A v \in Sessions : v # t => pc'[v] = pc[v]
  BY <1>t, <1>g, Constants DEF Rotate, Goto, CoordinatorTypeOK, Activated
<1>xid_count. /\ xid_count'[current_binlog_id] = xid_count[current_binlog_id] + 1
              /\ \A v \in Files : v # current_binlog_id => xid_count'[v] = xid_count[v]
  BY <1>t, <1>g, Constants DEF Rotate, Goto, ListTypeInv, Activated
<1>d. UNCHANGED <<file, unsynced, binlog_id, check_purge, to_ask, server,
   log_requests, notifying, flush_notify, binlog_background_thread_queue,
   next_in_queue, notify_count, bg, current_binlog_id, binlog_xid_count_list>>
  BY DEF Rotate, Activated, diskVars, engineVars, redoVars, serverVars,
     lockVars, localVars, listVars, ckptVars, requestVars, queueVars
<1>0. RequestsInv(where) /\ QueueInv(where) /\ AskedInv(where) /\ CountInv(where)
  BY DEF PlacesInv
<1>c. PICK b \in Files : /\ b = current_binlog_id /\ binlog_id[t] = current_binlog_id
                        /\ Head(binlog_xid_count_list) <= b /\ b <= current_binlog_id
  <2>1. /\ current_binlog_id \in Files /\ Head(binlog_xid_count_list) <= current_binlog_id
        /\ current_binlog_id <= current_binlog_id
    BY CurrentListed, Constants
  <2> QED BY <1>g, <2>1 DEF ThreadsInv, FilesInv
<1>U. \A f \in Files : Unlogging(f)' = Unlogging(f)
  BY <1>g, <1>pc, <1>c, <1>d, XaAssumption, Constants DEF Unlogging
<1>H. \A f \in Files : Holding(f)' = IF f = b THEN Holding(f) \cup {t} ELSE Holding(f)
  BY <1>g, <1>pc, <1>c, <1>d, Constants DEF Holding, ThreadsInv, FilesInv
<1>A. \A f \in Files : Flushing(f)' = Flushing(f)
  BY <1>g, <1>pc, <1>c, <1>d, Constants DEF Flushing
<1>1. RequestsInv(where)'
  BY <1>0, <1>d, <1>A, SameRequests
<1>2. QueueInv(where)'
  BY <1>0, <1>d, SameQueue
<1>3. AskedInv(where)'
  BY <1>0, <1>d, SameAsked
<1>4. CountInv(where)'
  <2>1. /\ Cardinality(Unlogging(b)) \in Nat /\ Cardinality(Holding(b)) \in Nat
        /\ xid_count[b] = Cardinality(Unlogging(b)) + Cardinality(Holding(b))
                           + IF where[b] = "none" THEN 0 ELSE 1
    BY <1>0, <1>g, ReasonSets, SessionSets DEF CountInv
  <2>2. t \notin Holding(b)
    BY <1>g DEF Holding, ThreadsInv, FilesInv
  <2>3. Cardinality(Holding(b)') = Cardinality(Holding(b)) + 1
    BY <1>H, <2>2, ReasonSets, OneMore
  <2>4. xid_count'[b] = Cardinality(Unlogging(b)') + Cardinality(Holding(b)')
                         + IF where[b] = "none" THEN 0 ELSE 1
    BY <1>c, <1>U, <1>xid_count, <2>1, <2>3
  <2> QED BY <1>0, <1>g, <1>c, <1>d, <1>U, <1>H, <1>xid_count, <2>4, OneCountChanged
<1>5. xid_count' \in [Files -> Nat]
  BY <1>4, <1>g, <1>d, CountsAreNumbers
<1> QED BY <1>1, <1>2, <1>3, <1>4, <1>5 DEF PlacesInv


(* new_file_impl() fails.                                                  *)
LEMMA RotateFailsPlaces ==
  ASSUME OneEngine, ThreadsInv, ThreadsInv', NEW t \in Sessions, RotateFails(t),
         NEW where \in [Files -> Places], PlacesInv(where)
  PROVE  PlacesInv(where)'
<1>t. CoordinatorTypeOK /\ QueueTypeOK /\ ListTypeInv
  BY DEF ThreadsInv, TypeInv
<1>g. server = "up" /\ pc[t] = "open" /\ mark[t] = "no"
  BY DEF RotateFails, At, Decremented
<1>b. binlog_id[t] \in Files
  BY <1>t, <1>g, Constants DEF ThreadsInv, FilesInv, CoordinatorTypeOK, ListTypeInv
<1>pc. /\ pc'[t] = "after"
       /\ \A v \in Sessions : v # t => pc'[v] = pc[v]
  BY <1>t, <1>g, <1>b, Constants DEF RotateFails, Goto, CoordinatorTypeOK,
     Decremented
<1>xid_count. /\ xid_count'[binlog_id[t]] = xid_count[binlog_id[t]] - 1
              /\ \A v \in Files : v # binlog_id[t] => xid_count'[v] = xid_count[v]
  BY <1>t, <1>g, <1>b, Constants DEF RotateFails, Goto, ListTypeInv,
     Decremented
<1>d. UNCHANGED <<file, unsynced, binlog_id, check_purge, to_ask, server,
   log_requests, notifying, flush_notify, binlog_background_thread_queue,
   next_in_queue, notify_count, bg, current_binlog_id, binlog_xid_count_list>>
  BY <1>b DEF RotateFails, Decremented, diskVars, engineVars, redoVars,
     serverVars, lockVars, localVars, listVars, ckptVars, requestVars,
     queueVars
<1>0. RequestsInv(where) /\ QueueInv(where) /\ AskedInv(where) /\ CountInv(where)
  BY DEF PlacesInv
<1>e. PICK b \in Files : b = binlog_id[t]
  BY <1>b
<1>U. \A f \in Files : Unlogging(f)' = Unlogging(f)
  BY <1>g, <1>pc, <1>e, <1>d, XaAssumption, Constants DEF Unlogging
<1>H. \A f \in Files : Holding(f)' = IF f = b THEN Holding(f) \ {t} ELSE Holding(f)
  BY <1>g, <1>pc, <1>e, <1>d, Constants DEF Holding, ThreadsInv, FilesInv
<1>A. \A f \in Files : Flushing(f)' = Flushing(f)
  BY <1>g, <1>pc, <1>e, <1>d, Constants DEF Flushing
<1>1. RequestsInv(where)'
  BY <1>0, <1>d, <1>A, SameRequests
<1>2. QueueInv(where)'
  BY <1>0, <1>d, SameQueue
<1>3. AskedInv(where)'
  BY <1>0, <1>d, SameAsked
<1>4. CountInv(where)'
  <2>1. t \in Holding(b)
    BY <1>g, <1>e DEF Holding
  <2>2. /\ Cardinality(Unlogging(b)) \in Nat /\ Cardinality(Holding(b)) \in Nat
        /\ xid_count[b] = Cardinality(Unlogging(b)) + Cardinality(Holding(b))
                           + IF where[b] = "none" THEN 0 ELSE 1
    BY <1>0, <1>g, ReasonSets, SessionSets DEF CountInv
  <2>3. Cardinality(Holding(b)') = Cardinality(Holding(b)) - 1
    BY <1>H, <2>1, ReasonSets, OneLess
  <2>4. xid_count'[b] = Cardinality(Unlogging(b)') + Cardinality(Holding(b)')
                         + IF where[b] = "none" THEN 0 ELSE 1
    BY <1>U, <1>H, <1>xid_count, <1>e, <2>2, <2>3
  <2>5. Head(binlog_xid_count_list) <= b /\ b <= current_binlog_id
    BY <1>0, <1>g, <2>1, ReasonCounts
  <2> QED BY <1>0, <1>g, <1>e, <1>d, <1>U, <1>H, <1>xid_count, <2>4, <2>5, OneCountChanged
<1>5. xid_count' \in [Files -> Nat]
  BY <1>4, <1>g, <1>d, CountsAreNumbers
<1> QED BY <1>1, <1>2, <1>3, <1>4, <1>5 DEF PlacesInv


(* The count that rotate() took is given back.                             *)
LEMMA RequestedPlaces ==
  ASSUME OneEngine, ThreadsInv, ThreadsInv', NEW t \in Sessions, Requested(t),
         NEW where \in [Files -> Places], PlacesInv(where)
  PROVE  PlacesInv(where)'
<1>t. CoordinatorTypeOK /\ QueueTypeOK /\ ListTypeInv
  BY DEF ThreadsInv, TypeInv
<1>g. server = "up" /\ pc[t] = "request" /\ mark[t] = "no"
  BY DEF Requested, At, MarkXidDone, Decremented
<1>b. binlog_id[t] \in Files
  BY <1>t, <1>g, Constants DEF ThreadsInv, FilesInv, CoordinatorTypeOK, ListTypeInv
<1>pc. /\ pc'[t] = IF t \in Trx THEN "ordered" ELSE "end"
       /\ \A v \in Sessions : v # t => pc'[v] = pc[v]
  BY <1>t, <1>g, <1>b, Constants DEF Requested, Goto, CoordinatorTypeOK,
     MarkXidDone, Decremented
<1>xid_count. /\ xid_count'[binlog_id[t]] = xid_count[binlog_id[t]] - 1
              /\ \A v \in Files : v # binlog_id[t] => xid_count'[v] = xid_count[v]
  BY <1>t, <1>g, <1>b, Constants DEF Requested, Goto, ListTypeInv,
     MarkXidDone, Decremented
<1>d. UNCHANGED <<file, unsynced, binlog_id, check_purge, to_ask, server,
   log_requests, notifying, flush_notify, binlog_background_thread_queue,
   next_in_queue, notify_count, bg, current_binlog_id, binlog_xid_count_list>>
  BY <1>b DEF Requested, MarkXidDone, Decremented, diskVars, engineVars,
     redoVars, serverVars, lockVars, localVars, listVars, ckptVars,
     requestVars, queueVars
<1>0. RequestsInv(where) /\ QueueInv(where) /\ AskedInv(where) /\ CountInv(where)
  BY DEF PlacesInv
<1>e. PICK b \in Files : b = binlog_id[t]
  BY <1>b
<1>U. \A f \in Files : Unlogging(f)' = Unlogging(f)
  BY <1>g, <1>pc, <1>e, <1>d, XaAssumption, Constants DEF Unlogging
<1>H. \A f \in Files : Holding(f)' = IF f = b THEN Holding(f) \ {t} ELSE Holding(f)
  BY <1>g, <1>pc, <1>e, <1>d, Constants DEF Holding, ThreadsInv, FilesInv
<1>A. \A f \in Files : Flushing(f)' = Flushing(f)
  BY <1>g, <1>pc, <1>e, <1>d, Constants DEF Flushing
<1>1. RequestsInv(where)'
  BY <1>0, <1>d, <1>A, SameRequests
<1>2. QueueInv(where)'
  BY <1>0, <1>d, SameQueue
<1>3. AskedInv(where)'
  BY <1>0, <1>d, SameAsked
<1>4. CountInv(where)'
  <2>1. t \in Holding(b)
    BY <1>g, <1>e DEF Holding, ThreadsInv, FilesInv
  <2>2. /\ Cardinality(Unlogging(b)) \in Nat /\ Cardinality(Holding(b)) \in Nat
        /\ xid_count[b] = Cardinality(Unlogging(b)) + Cardinality(Holding(b))
                           + IF where[b] = "none" THEN 0 ELSE 1
    BY <1>0, <1>g, ReasonSets, SessionSets DEF CountInv
  <2>3. Cardinality(Holding(b)') = Cardinality(Holding(b)) - 1
    BY <1>H, <2>1, ReasonSets, OneLess
  <2>4. xid_count'[b] = Cardinality(Unlogging(b)') + Cardinality(Holding(b)')
                         + IF where[b] = "none" THEN 0 ELSE 1
    BY <1>U, <1>H, <1>xid_count, <1>e, <2>2, <2>3
  <2>5. Head(binlog_xid_count_list) <= b /\ b <= current_binlog_id
    BY <1>0, <1>g, <2>1, ReasonCounts
  <2> QED BY <1>0, <1>g, <1>e, <1>d, <1>U, <1>H, <1>xid_count, <2>4, <2>5, OneCountChanged
<1>5. xid_count' \in [Files -> Nat]
  BY <1>4, <1>g, <1>d, CountsAreNumbers
<1> QED BY <1>1, <1>2, <1>3, <1>4, <1>5 DEF PlacesInv


(* unlog()                                                                 *)
LEMMA UnlogPlaces ==
  ASSUME OneEngine, ThreadsInv, ThreadsInv', NEW t \in Trx, Unlog(t),
         NEW where \in [Files -> Places], PlacesInv(where)
  PROVE  PlacesInv(where)'
<1>t. CoordinatorTypeOK /\ QueueTypeOK /\ ListTypeInv
  BY DEF ThreadsInv, TypeInv
<1>g. server = "up" /\ pc[t] = "unlog" /\ mark[t] = "no"
  BY DEF Unlog, At, MarkXidDone, Decremented
<1>b. file[t] \in Files
  BY <1>t, <1>g DEF ThreadsInv, TrxInv, TrxOK, CoordinatorTypeOK
<1>pc. /\ pc'[t] = "acked"
       /\ \A v \in Sessions : v # t => pc'[v] = pc[v]
  BY <1>t, <1>g, <1>b, Constants DEF Unlog, Goto, CoordinatorTypeOK,
     MarkXidDone, Decremented
<1>xid_count. /\ xid_count'[file[t]] = xid_count[file[t]] - 1
              /\ \A v \in Files : v # file[t] => xid_count'[v] = xid_count[v]
  BY <1>t, <1>g, <1>b, Constants DEF Unlog, Goto, ListTypeInv, MarkXidDone,
     Decremented
<1>d. UNCHANGED <<file, unsynced, binlog_id, check_purge, to_ask, server,
   log_requests, notifying, flush_notify, binlog_background_thread_queue,
   next_in_queue, notify_count, bg, current_binlog_id, binlog_xid_count_list>>
  BY <1>b DEF Unlog, MarkXidDone, Decremented, diskVars, engineVars, redoVars,
     serverVars, lockVars, localVars, listVars, ckptVars, requestVars,
     queueVars
<1>0. RequestsInv(where) /\ QueueInv(where) /\ AskedInv(where) /\ CountInv(where)
  BY DEF PlacesInv
<1>e. PICK b \in Files : b = file[t]
  BY <1>b
<1>U. \A f \in Files : Unlogging(f)' = IF f = b THEN Unlogging(f) \ {t} ELSE Unlogging(f)
  BY <1>g, <1>pc, <1>e, <1>d, XaAssumption, Constants DEF Unlogging
<1>H. \A f \in Files : Holding(f)' = Holding(f)
  BY <1>g, <1>pc, <1>e, <1>d, Constants DEF Holding, ThreadsInv, FilesInv
<1>A. \A f \in Files : Flushing(f)' = Flushing(f)
  BY <1>g, <1>pc, <1>e, <1>d, Constants DEF Flushing
<1>1. RequestsInv(where)'
  BY <1>0, <1>d, <1>A, SameRequests
<1>2. QueueInv(where)'
  BY <1>0, <1>d, SameQueue
<1>3. AskedInv(where)'
  BY <1>0, <1>d, SameAsked
<1>4. CountInv(where)'
  <2>1. t \in Unlogging(b)
    <3>1. t \notin ToSet(unsynced)
      <4>1. unsynced \in Seq(Trx) /\ ~Contains(unsynced, t)
        BY <1>t, <1>g, NoGroup DEF ThreadsInv, GroupInv, CoordinatorTypeOK,
           Committing
      <4> QED BY <4>1, SetOfList
    <3>2. t \in NeedUnlog
      BY <1>g DEF ThreadsInv, TrxInv, TrxOK
    <3> QED BY <1>g, <1>e, <3>1, <3>2 DEF Unlogging
  <2>2. /\ Cardinality(Unlogging(b)) \in Nat /\ Cardinality(Holding(b)) \in Nat
        /\ xid_count[b] = Cardinality(Unlogging(b)) + Cardinality(Holding(b))
                           + IF where[b] = "none" THEN 0 ELSE 1
    BY <1>0, <1>g, ReasonSets, SessionSets DEF CountInv
  <2>3. Cardinality(Unlogging(b)') = Cardinality(Unlogging(b)) - 1
    BY <1>U, <2>1, ReasonSets, OneLess
  <2>4. xid_count'[b] = Cardinality(Unlogging(b)') + Cardinality(Holding(b)')
                         + IF where[b] = "none" THEN 0 ELSE 1
    BY <1>U, <1>H, <1>xid_count, <1>e, <2>2, <2>3
  <2>5. Head(binlog_xid_count_list) <= b /\ b <= current_binlog_id
    BY <1>0, <1>g, <2>1, ReasonCounts
  <2> QED BY <1>0, <1>g, <1>e, <1>d, <1>U, <1>H, <1>xid_count, <2>4, <2>5, OneCountChanged
<1>5. xid_count' \in [Files -> Nat]
  BY <1>4, <1>g, <1>d, CountsAreNumbers
<1> QED BY <1>1, <1>2, <1>3, <1>4, <1>5 DEF PlacesInv


(* flush_and_sync()                                                        *)
LEMMA LeaderSyncPlaces ==
  ASSUME OneEngine, ThreadsInv, ThreadsInv', NEW t \in Trx, LeaderSync(t),
         NEW where \in [Files -> Places], PlacesInv(where)
  PROVE  PlacesInv(where)'
<1>t. CoordinatorTypeOK /\ QueueTypeOK /\ ListTypeInv
  BY DEF ThreadsInv, TypeInv
<1>g. server = "up" /\ pc[t] = "write" /\ mark[t] = "no"
  BY DEF LeaderSync, At, Activated
<1>b. binlog_id[t] \in Files
  BY <1>t, <1>g, Constants DEF ThreadsInv, FilesInv, CoordinatorTypeOK, ListTypeInv
<1>pc. /\ pc'[t] = "rotate"
       /\ \A v \in Sessions : v # t => pc'[v] = pc[v]
  BY <1>t, <1>g, <1>b, Constants DEF LeaderSync, Goto, CoordinatorTypeOK,
     Activated
<1>unsynced. unsynced' = <<>>
  BY DEF LeaderSync, Activated
<1>xid_count. /\ xid_count'[binlog_id[t]] = xid_count[binlog_id[t]] + Cardinality(ToSet(group[t]) \cap NeedUnlog)
              /\ \A v \in Files : v # binlog_id[t] => xid_count'[v] = xid_count[v]
  BY <1>t, <1>g, <1>b, Constants DEF LeaderSync, Goto, ListTypeInv, Activated
<1>d. UNCHANGED <<file, binlog_id, check_purge, to_ask, server, log_requests,
   notifying, flush_notify, binlog_background_thread_queue, next_in_queue,
   notify_count, bg, current_binlog_id, binlog_xid_count_list>>
  BY <1>b DEF LeaderSync, Activated, diskVars, engineVars, redoVars,
     serverVars, lockVars, localVars, listVars, ckptVars, requestVars,
     queueVars
<1>0. RequestsInv(where) /\ QueueInv(where) /\ AskedInv(where) /\ CountInv(where)
  BY DEF PlacesInv
<1>s. /\ \A v : v \in ToSet(unsynced) <=> Contains(unsynced, v)
      /\ \A v : v \in ToSet(unsynced') <=> Contains(unsynced', v)
  <2>1. unsynced \in Seq(Trx) /\ unsynced' \in Seq(Trx)
    BY DEF ThreadsInv, TypeInv, CoordinatorTypeOK
  <2> QED BY <2>1, SetOfList
<1>c. PICK b \in Files : /\ b = binlog_id[t] /\ b = current_binlog_id
                        /\ Head(binlog_xid_count_list) <= b /\ b <= current_binlog_id
  <2>1. /\ current_binlog_id \in Files /\ Head(binlog_xid_count_list) <= current_binlog_id
        /\ current_binlog_id <= current_binlog_id
    BY CurrentListed, Constants
  <2> QED BY <1>g, <2>1, Constants DEF ThreadsInv, FilesInv
<1>G. PICK G \in SUBSET Sessions : G = ToSet(group[t]) \cap NeedUnlog
  BY XaAssumption DEF Sessions
<1>U. \A f \in Files : /\ Unlogging(f)' = IF f = b THEN Unlogging(f) \cup G ELSE Unlogging(f)
                       /\ Unlogging(f) \cap G = {}
  <2>1. \A v : ~Contains(unsynced', v)
    BY <1>unsynced, EmptyList
  <2>2. \A v \in Trx : Contains(unsynced, v) <=> Contains(group[t], v)
    <3>1. \A l \in Sessions : l # t => pc[l] # "write"
      BY <1>g, Constants DEF ThreadsInv, LocksInv
    <3> QED BY <1>g, <3>1, Constants DEF ThreadsInv, GroupInv
  <2>3. \A v \in Trx : Contains(group[t], v) => file[v] = b /\ pc[v] \in {"write", "grouped"}
    <3>1. t \in Sessions
      BY Constants
    <3>2. \A v \in Trx : Contains(group[t], v) =>
            file[v] = binlog_id[t] /\ (v = t \/ pc[v] = "grouped")
      BY <3>1 DEF ThreadsInv, GroupInv
    <3> QED BY <3>2, <1>g, <1>c
  <2>4. \A v \in Trx : v \in ToSet(group[t]) <=> Contains(group[t], v)
    <3>1. group[t] \in Seq(Trx)
      BY <1>t, Constants DEF CoordinatorTypeOK
    <3> QED BY <3>1, SetOfList
  <2>5. \A v \in NeedUnlog : v \in G <=> Contains(unsynced, v)
    BY <1>G, <2>2, <2>4, XaAssumption
  <2>6. \A v \in G : v \in NeedUnlog
    BY <1>G
  <2>7. \A v \in Trx : pc[v] \in {"write", "grouped"} => pc'[v] \notin {"acked", "gone"}
    BY <1>pc, Constants
  <2>8. \A v \in Trx : pc'[v] \in {"acked", "gone"} <=> pc[v] \in {"acked", "gone"}
    BY <1>g, <1>pc, Constants
  <2>9. ASSUME NEW f \in Files, NEW v \in NeedUnlog
        PROVE  /\ v \in Unlogging(f)' <=> v \in Unlogging(f) \/ (f = b /\ v \in G)
               /\ ~(v \in Unlogging(f) /\ v \in G)
    BY <1>d, <1>s, <2>1, <2>2, <2>3, <2>5, <2>8, XaAssumption DEF Unlogging
  <2>10. \A f : Unlogging(f) \subseteq NeedUnlog /\ Unlogging(f)' \subseteq NeedUnlog
    BY DEF Unlogging
  <2> QED BY <2>6, <2>9, <2>10
<1>H. \A f \in Files : Holding(f)' = Holding(f)
  BY <1>g, <1>pc, <1>d, Constants DEF Holding, ThreadsInv, FilesInv
<1>A. \A f \in Files : Flushing(f)' = Flushing(f)
  BY <1>g, <1>pc, <1>d, Constants DEF Flushing
<1>1. RequestsInv(where)'
  BY <1>0, <1>d, <1>A, SameRequests
<1>2. QueueInv(where)'
  BY <1>0, <1>d, SameQueue
<1>3. AskedInv(where)'
  BY <1>0, <1>d, SameAsked
<1>4. CountInv(where)'
  <2>1. /\ Cardinality(Unlogging(b)) \in Nat /\ Cardinality(Holding(b)) \in Nat
        /\ xid_count[b] = Cardinality(Unlogging(b)) + Cardinality(Holding(b))
                           + IF where[b] = "none" THEN 0 ELSE 1
    BY <1>0, <1>g, ReasonSets, SessionSets DEF CountInv
  <2>3. Cardinality(Unlogging(b)') = Cardinality(Unlogging(b)) + Cardinality(G)
    BY <1>U, <1>G, ReasonSets, DisjointSets
  <2>4. Cardinality(G) \in Nat /\ xid_count'[b] = xid_count[b] + Cardinality(G)
    BY <1>G, <1>c, <1>xid_count, SessionSets
  <2>5. xid_count'[b] = Cardinality(Unlogging(b)') + Cardinality(Holding(b)')
                         + IF where[b] = "none" THEN 0 ELSE 1
    BY <1>H, <2>1, <2>3, <2>4
  <2> QED BY <1>0, <1>g, <1>c, <1>d, <1>U, <1>H, <1>xid_count, <2>5, OneCountChanged
<1>5. xid_count' \in [Files -> Nat]
  BY <1>4, <1>g, <1>d, CountsAreNumbers
<1> QED BY <1>1, <1>2, <1>3, <1>4, <1>5 DEF PlacesInv


(* open()                                                                  *)
LEMMA OpenNewPlaces ==
  ASSUME OneEngine, ThreadsInv, ThreadsInv', NEW t \in Sessions, OpenNew(t),
         NEW where \in [Files -> Places], PlacesInv(where)
  PROVE  PlacesInv(where)'
<1>t. CoordinatorTypeOK /\ QueueTypeOK /\ ListTypeInv
  BY DEF ThreadsInv, TypeInv
<1>g. server = "up" /\ pc[t] = "open" /\ mark[t] = "no"
  BY DEF OpenNew, At, Linked
<1>new. /\ current_binlog_id + 1 \in Files /\ current_binlog_id \in Nat
       /\ binlog_id[t] = current_binlog_id /\ LOCK_log = t /\ ~check_purge[t]
  <2>1. current_binlog_id < MaxFile /\ current_binlog_id \in Files
    BY <1>t, <1>g DEF ThreadsInv, FilesInv, ListTypeInv
  <2>2. current_binlog_id + 1 \in Files /\ current_binlog_id \in Nat
    BY <2>1, MaxFileAssumption DEF Files
  <2> QED BY <1>g, <2>2 DEF ThreadsInv, FilesInv, LocksInv
<1>others. \A u \in Sessions : u # t =>
              pc[u] \notin {"write", "open", "after"} /\ LOCK_log # u
  BY <1>new DEF ThreadsInv, LocksInv
<1>pc. /\ pc'[t] = "after"
       /\ \A v \in Sessions : v # t => pc'[v] = pc[v]
  BY <1>t, <1>g, <1>new, <1>others, Constants DEF OpenNew, Goto,
     CoordinatorTypeOK, Linked
<1>check_purge. /\ check_purge'[t] = TRUE
                /\ \A v \in Sessions : v # t => check_purge'[v] = check_purge[v]
  BY <1>t, <1>g, <1>new, <1>others, Constants DEF OpenNew, Goto,
     CoordinatorTypeOK, Linked
<1>current_binlog_id. current_binlog_id' = current_binlog_id + 1
  BY DEF OpenNew, Linked
<1>binlog_xid_count_list. 
         /\ binlog_xid_count_list' \in Seq(Files) /\ binlog_xid_count_list' # <<>>
         /\ UpTo(binlog_xid_count_list', current_binlog_id + 1)
         /\ Head(binlog_xid_count_list) <= Head(binlog_xid_count_list')
         /\ Head(binlog_xid_count_list') <= current_binlog_id + 1
         /\ Head(binlog_xid_count_list') \in Nat
  <2>1. /\ binlog_xid_count_list \in Seq(Files) /\ binlog_xid_count_list # <<>>
        /\ UpTo(binlog_xid_count_list, current_binlog_id)
        /\ current_binlog_id \in Files
    BY <1>t DEF ThreadsInv, ListInv, ListTypeInv
  <2>2. Linked(current_binlog_id + 1)
    BY DEF OpenNew
  <2> QED BY <1>new, <2>1, <2>2, LinkedList, Constants
<1>d. UNCHANGED <<file, unsynced, binlog_id, to_ask, server, log_requests,
   notifying, flush_notify, binlog_background_thread_queue, next_in_queue,
   notify_count, bg, xid_count>>
  BY <1>new, <1>others DEF OpenNew, Linked, diskVars, engineVars, redoVars,
     serverVars, lockVars, localVars, listVars, ckptVars, requestVars,
     queueVars
<1>0. RequestsInv(where) /\ QueueInv(where) /\ AskedInv(where) /\ CountInv(where)
  BY DEF PlacesInv
<1>L. /\ Head(binlog_xid_count_list') \in Nat
      /\ \A f \in Files : /\ Head(binlog_xid_count_list) <= f
                          /\ f < Head(binlog_xid_count_list')
                          => xid_count[f] = 0
  <2>1. /\ binlog_xid_count_list \in Seq(Files) /\ binlog_xid_count_list # <<>>
        /\ UpTo(binlog_xid_count_list, current_binlog_id)
        /\ current_binlog_id \in Files
    BY <1>t DEF ThreadsInv, ListInv, ListTypeInv
  <2>2. Linked(current_binlog_id + 1)
    BY DEF OpenNew
  <2> QED BY <1>new, <2>1, <2>2, LinkedList, Constants
<1>U. \A f \in Files : Unlogging(f)' = Unlogging(f)
  BY <1>g, <1>new, <1>pc, <1>check_purge, <1>d, XaAssumption, Constants DEF
     Unlogging
<1>H. \A f \in Files : Holding(f)' = Holding(f)
  BY <1>g, <1>new, <1>pc, <1>check_purge, <1>d, Constants DEF Holding,
     ThreadsInv, FilesInv
<1>A. \A f \in Files : Flushing(f)' = Flushing(f)
  BY <1>g, <1>new, <1>pc, <1>check_purge, <1>d, Constants DEF Flushing
<1>1. RequestsInv(where)'
  BY <1>0, <1>d, <1>A, SameRequests
<1>2. QueueInv(where)'
  BY <1>0, <1>d, SameQueue
<1>3. AskedInv(where)'
  <2>1. \A f \in Files : f \in Nat /\ (f < current_binlog_id => f < current_binlog_id + 1)
    BY <1>new, Constants
  <2>2. where[binlog_id[t]] = "none"
    <3>1. ~(current_binlog_id < current_binlog_id) /\ current_binlog_id \in Files
      BY <1>t, <1>new DEF ListTypeInv
    <3> QED BY <3>1, <1>0, <1>new DEF AskedInv
  <2> QED BY <1>0, <1>d, <1>check_purge, <1>current_binlog_id, <2>1, <2>2 DEF AskedInv
<1>4. CountInv(where)'
  <2>1. ASSUME NEW f \in Files, xid_count[f] # 0
        PROVE  Head(binlog_xid_count_list') <= f /\ f <= current_binlog_id + 1
    <3>1. Head(binlog_xid_count_list) <= f /\ f <= current_binlog_id
      BY <1>0, <1>g, <2>1 DEF CountInv
    <3>2. ~(f < Head(binlog_xid_count_list'))
      BY <1>L, <2>1, <3>1
    <3> QED BY <3>1, <3>2, <1>L, <1>new, Constants
  <2> QED BY <1>0, <1>g, <1>d, <1>U, <1>H, <1>current_binlog_id, <2>1 DEF CountInv
<1>5. xid_count' \in [Files -> Nat]
  BY <1>4, <1>g, <1>d, CountsAreNumbers
<1> QED BY <1>1, <1>2, <1>3, <1>4, <1>5 DEF PlacesInv


(* mark_xid_done(), with LOCK_log                                          *)
LEMMA MarkLockPlaces ==
  ASSUME OneEngine, ThreadsInv, ThreadsInv', NEW t \in Markers, MarkLock(t),
         NEW where \in [Files -> Places], PlacesInv(where)
  PROVE  PlacesInv(where)'
<1>t. CoordinatorTypeOK /\ QueueTypeOK /\ ListTypeInv
  BY DEF ThreadsInv, TypeInv
<1>g. server = "up" /\ mark[t] = "lock" /\ LOCK_log = NoThread
  BY DEF MarkLock, At, Trimmed
<1>binlog_xid_count_list. 
         /\ binlog_xid_count_list' \in Seq(Files) /\ binlog_xid_count_list' # <<>>
         /\ UpTo(binlog_xid_count_list', current_binlog_id)
         /\ Head(binlog_xid_count_list) <= Head(binlog_xid_count_list')
         /\ Head(binlog_xid_count_list') <= current_binlog_id
         /\ Head(binlog_xid_count_list') \in Files
  <2>1. /\ binlog_xid_count_list \in Seq(Files) /\ binlog_xid_count_list # <<>>
        /\ UpTo(binlog_xid_count_list, current_binlog_id)
        /\ current_binlog_id \in Files
    BY <1>t DEF ThreadsInv, ListInv, ListTypeInv
  <2>2. Trimmed
    BY DEF MarkLock
  <2> QED BY <2>1, <2>2, TrimmedList
<1>d. UNCHANGED <<pc, file, unsynced, binlog_id, check_purge, to_ask, server,
   log_requests, notifying, flush_notify, binlog_background_thread_queue,
   next_in_queue, notify_count, bg, current_binlog_id, xid_count>>
  BY DEF MarkLock, Trimmed, diskVars, engineVars, redoVars, serverVars,
     lockVars, localVars, listVars, ckptVars, requestVars, queueVars
<1>0. RequestsInv(where) /\ QueueInv(where) /\ AskedInv(where) /\ CountInv(where)
  BY DEF PlacesInv
<1>L. /\ Head(binlog_xid_count_list') \in Nat
      /\ \A f \in Files : /\ Head(binlog_xid_count_list) <= f
                          /\ f < Head(binlog_xid_count_list')
                          => xid_count[f] = 0
  <2>1. /\ binlog_xid_count_list \in Seq(Files) /\ binlog_xid_count_list # <<>>
        /\ UpTo(binlog_xid_count_list, current_binlog_id)
        /\ current_binlog_id \in Files
    BY <1>t DEF ThreadsInv, ListInv, ListTypeInv
  <2>2. Trimmed
    BY DEF MarkLock
  <2> QED BY <2>1, <2>2, TrimmedList, Constants
<1>U. \A f \in Files : Unlogging(f)' = Unlogging(f)
  BY <1>d, XaAssumption, Constants DEF Unlogging
<1>H. \A f \in Files : Holding(f)' = Holding(f)
  BY <1>d, Constants DEF Holding, ThreadsInv, FilesInv
<1>A. \A f \in Files : Flushing(f)' = Flushing(f)
  BY <1>d, Constants DEF Flushing
<1>1. RequestsInv(where)'
  BY <1>0, <1>d, <1>A, SameRequests
<1>2. QueueInv(where)'
  BY <1>0, <1>d, SameQueue
<1>3. AskedInv(where)'
  BY <1>0, <1>d, SameAsked
<1>4. CountInv(where)'
  <2>1. ASSUME NEW f \in Files, xid_count[f] # 0
        PROVE  Head(binlog_xid_count_list') <= f /\ f <= current_binlog_id
    <3>1. Head(binlog_xid_count_list) <= f /\ f <= current_binlog_id
      BY <1>0, <1>g, <2>1 DEF CountInv
    <3>2. ~(f < Head(binlog_xid_count_list'))
      BY <1>L, <2>1, <3>1
    <3> QED BY <3>1, <3>2, <1>L, Constants
  <2> QED BY <1>0, <1>g, <1>d, <1>U, <1>H, <2>1 DEF CountInv
<1>5. xid_count' \in [Files -> Nat]
  BY <1>4, <1>g, <1>d, CountsAreNumbers
<1> QED BY <1>1, <1>2, <1>3, <1>4, <1>5 DEF PlacesInv


(* do_checkpoint_request()                                                 *)
LEMMA RequestCheckpointPlaces ==
  ASSUME OneEngine, ThreadsInv, ThreadsInv', NEW t \in Sessions, RequestCheckpoint(t),
         NEW where \in [Files -> Places], PlacesInv(where)
  PROVE  \E where2 \in [Files -> Places] : PlacesInv(where2)'
<1>t. CoordinatorTypeOK /\ QueueTypeOK /\ ListTypeInv
  BY DEF ThreadsInv, TypeInv
<1>g. server = "up" /\ pc[t] = "request" /\ mark[t] = "no" /\ to_ask[t] # <<>>
  BY DEF RequestCheckpoint, At, Activated, ReadLsn
<1>b. binlog_id[t] \in Files
  BY <1>t, <1>g, Constants DEF ThreadsInv, FilesInv, CoordinatorTypeOK, ListTypeInv
<1>ask. to_ask[t] = Engines /\ Tail(to_ask[t]) = <<>> /\ Head(to_ask[t]) = "InnoDB"
  <2>1. to_ask[t] \in {Engines, Tail(Engines), <<>>}
    BY <1>t DEF CoordinatorTypeOK
  <2> QED BY <2>1, <1>g, OneEngineToAsk
<1>pc. /\ pc'[t] = "flush"
       /\ \A v \in Sessions : v # t => pc'[v] = pc[v]
  BY <1>t, <1>g, <1>b, <1>ask, Constants DEF RequestCheckpoint, Goto,
     CoordinatorTypeOK, Activated, ReadLsn
<1>to_ask. /\ to_ask'[t] = <<>>
           /\ \A v \in Sessions : v # t => to_ask'[v] = to_ask[v]
  BY <1>t, <1>g, <1>b, <1>ask, Constants DEF RequestCheckpoint, Goto,
     CoordinatorTypeOK, Activated, ReadLsn
<1>xid_count. /\ xid_count'[binlog_id[t]] = xid_count[binlog_id[t]] + 1
              /\ \A v \in Files : v # binlog_id[t] => xid_count'[v] = xid_count[v]
  BY <1>t, <1>g, <1>b, <1>ask, Constants DEF RequestCheckpoint, Goto,
     ListTypeInv, Activated, ReadLsn
<1>d. UNCHANGED <<file, unsynced, binlog_id, check_purge, server,
   log_requests, notifying, flush_notify, binlog_background_thread_queue,
   next_in_queue, notify_count, bg, current_binlog_id, binlog_xid_count_list>>
  BY <1>b, <1>ask DEF RequestCheckpoint, Activated, ReadLsn, diskVars,
     engineVars, redoVars, serverVars, lockVars, localVars, listVars,
     ckptVars, requestVars, queueVars
<1>0. RequestsInv(where) /\ QueueInv(where) /\ AskedInv(where) /\ CountInv(where)
  BY DEF PlacesInv
<1>e. PICK b \in Files : b = binlog_id[t]
  BY <1>b
<1>w. PICK where2 \in [Files -> Places] : where2 = [where EXCEPT ![b] = "asking"]
  BY DEF Places
<1>c. check_purge[t] /\ b < current_binlog_id
  BY <1>g, <1>e DEF ThreadsInv, FilesInv
<1>x. /\ where[b] = "none" /\ where2[b] = "asking"
      /\ \A f \in Files : f # b => where2[f] = where[f]
  BY <1>0, <1>g, <1>e, <1>w, <1>c DEF AskedInv
<1>U. \A f \in Files : Unlogging(f)' = Unlogging(f)
  BY <1>g, <1>pc, <1>d, XaAssumption, Constants DEF Unlogging
<1>H. \A f \in Files : Holding(f)' = Holding(f)
  BY <1>g, <1>pc, <1>d, Constants DEF Holding
<1>A. \A f \in Files : Flushing(f)' <=> f = b \/ Flushing(f)
  BY <1>g, <1>pc, <1>d, <1>e, Constants DEF Flushing
<1>1. RequestsInv(where2)'
  BY <1>0, <1>x, <1>A, <1>d DEF RequestsInv
<1>2. QueueInv(where2)'
  <2>1. QueueInv(where2)
    BY <1>0, <1>x DEF QueueInv
  <2> QED BY <2>1, <1>d, SameQueue
<1>3. AskedInv(where2)'
  <2>1. \A v \in Sessions : check_purge[v] /\ binlog_id[v] = b => v = t
    BY <1>c, <1>e DEF ThreadsInv, FilesInv
  <2> QED BY <1>0, <1>x, <1>g, <1>c, <1>d, <1>to_ask, <2>1, RotatedFile DEF AskedInv
<1>4. CountInv(where2)'
  <2>1. /\ Cardinality(Unlogging(b)) \in Nat /\ Cardinality(Holding(b)) \in Nat
        /\ xid_count[b] = Cardinality(Unlogging(b)) + Cardinality(Holding(b))
                           + IF where[b] = "none" THEN 0 ELSE 1
    BY <1>0, <1>g, ReasonSets, SessionSets DEF CountInv
  <2>2. t \in Holding(b)
    BY <1>g, <1>c, <1>e DEF Holding
  <2>3. Head(binlog_xid_count_list) <= b /\ b <= current_binlog_id
    BY <1>0, <1>g, <2>2, ReasonCounts
  <2>4. xid_count'[b] = Cardinality(Unlogging(b)') + Cardinality(Holding(b)')
                         + IF where2[b] = "none" THEN 0 ELSE 1
    BY <1>U, <1>H, <1>xid_count, <1>e, <1>x, <2>1
  <2> QED BY <1>0, <1>g, <1>e, <1>d, <1>x, <1>U, <1>H, <1>xid_count, <2>3, <2>4, OneCountChanged
<1>5. xid_count' \in [Files -> Nat]
  BY <1>4, <1>g, <1>d, CountsAreNumbers
<1> QED BY <1>1, <1>2, <1>3, <1>4, <1>5 DEF PlacesInv


(* innodb_log_flush_request()                                              *)
LEMMA InnodbQueuesPlaces ==
  ASSUME OneEngine, ThreadsInv, ThreadsInv', NEW t \in Sessions, InnodbQueues(t),
         NEW where \in [Files -> Places], PlacesInv(where)
  PROVE  \E where2 \in [Files -> Places] : PlacesInv(where2)'
<1>t. CoordinatorTypeOK /\ QueueTypeOK /\ ListTypeInv
  BY DEF ThreadsInv, TypeInv
<1>g. server = "up" /\ pc[t] = "flush" /\ mark[t] = "no"
  BY DEF InnodbQueues, At, QueueRequest
<1>b. binlog_id[t] \in Files
  BY <1>t, <1>g, Constants DEF ThreadsInv, FilesInv, CoordinatorTypeOK, ListTypeInv
<1>pc. /\ pc'[t] = "request"
       /\ \A v \in Sessions : v # t => pc'[v] = pc[v]
  BY <1>t, <1>g, <1>b, Constants DEF InnodbQueues, Goto, CoordinatorTypeOK,
     QueueRequest
<1>d. UNCHANGED <<file, unsynced, binlog_id, check_purge, to_ask, server,
   flush_notify, binlog_background_thread_queue, next_in_queue, notify_count,
   bg, current_binlog_id, binlog_xid_count_list, xid_count>>
  BY <1>b DEF InnodbQueues, QueueRequest, diskVars, engineVars, redoVars,
     serverVars, lockVars, localVars, listVars, ckptVars, requestVars,
     queueVars
<1>0. RequestsInv(where) /\ QueueInv(where) /\ AskedInv(where) /\ CountInv(where)
  BY DEF PlacesInv
<1>e. PICK b \in Files : b = binlog_id[t]
  BY <1>b
<1>y. /\ seen[t] \in [lsn : Nat, flushed : Nat] /\ notifying[t] = <<>> /\ t \in Threads
      /\ QueueRequest(t, b)
  BY <1>t, <1>g, <1>e, Constants DEF ThreadsInv, FilesInv, QueueTypeOK,
     InnodbQueues, At, Busy
<1>r. PICK list \in Seq(Requests), own \in Seq(Files), to \in Nat :
        /\ Detached(t, list, to, own)
        /\ \/ list = log_requests /\ own = <<b>>
           \/ list = Append(log_requests, [cookie |-> b, lsn |-> seen[t].lsn]) /\ own = <<>>
  BY <1>t, <1>y, RequestQueued
<1>c. /\ where[b] = "asking" /\ Flushing(b) /\ check_purge[t]
      /\ \A v \in Sessions : pc[v] = "flush" /\ binlog_id[v] = b => v = t
  BY <1>0, <1>g, <1>e DEF RequestsInv, Flushing, ThreadsInv, FilesInv
<1>l. /\ \A f \in Files : (\E i \in DOMAIN list : list[i].cookie = f) \/ Contains(own, f)
           <=> f = b \/ \E i \in DOMAIN log_requests : log_requests[i].cookie = f
      /\ \A i, j \in DOMAIN list : list[i].cookie = list[j].cookie => i = j
      /\ \A i \in DOMAIN list : ~Contains(own, list[i].cookie)
      /\ IsInjective(own)
  <2>1. /\ log_requests \in Seq(Requests)
        /\ \A i \in DOMAIN log_requests : log_requests[i].cookie # b
        /\ \A i, j \in DOMAIN log_requests : log_requests[i].cookie = log_requests[j].cookie => i = j
    BY <1>t, <1>0, <1>c DEF RequestsInv, QueueTypeOK
  <2>2. CASE list = log_requests /\ own = <<b>>
    <3>1. IsInjective(own) /\ \A v : Contains(own, v) <=> v = b
      BY <2>2 DEF IsInjective, Contains
    <3> QED BY <2>1, <2>2, <3>1
  <2>3. CASE list = Append(log_requests, [cookie |-> b, lsn |-> seen[t].lsn]) /\ own = <<>>
    <3>1. IsInjective(own) /\ \A v : ~Contains(own, v)
      BY <2>3, EmptyList
    <3>2. PICK r \in Requests : r = [cookie |-> b, lsn |-> seen[t].lsn]
      BY <1>y DEF Requests
    <3>3. PICK k \in Nat : k = Len(log_requests) /\ DOMAIN log_requests = 1 .. k
      BY <2>1
    <3>4. /\ DOMAIN list = 1 .. k + 1 /\ list[k + 1].cookie = b
          /\ \A i \in 1 .. k : list[i] = log_requests[i]
      <4>1. list = Append(log_requests, r) /\ r.cookie = b
        BY <2>3, <3>2
      <4>2. /\ Len(list) = k + 1 /\ list[k + 1] = r
            /\ \A i \in 1 .. k : list[i] = log_requests[i]
        BY <2>1, <3>3, <4>1, AppendProperties
      <4> QED BY <4>1, <4>2
    <3>5. \A i \in 1 .. k + 1 : i \in 1 .. k \/ i = k + 1
      BY <3>3
    <3>6. k + 1 \in 1 .. k + 1 /\ \A i \in 1 .. k : i \in 1 .. k + 1
      BY <3>3
    <3> QED BY <2>1, <3>1, <3>3, <3>4, <3>5, <3>6
  <2> QED BY <2>2, <2>3, <1>r
<1>Q. PICK D \in SUBSET Files : DetachedFiles(D, t, list, to, own)
  <2>1. notifying \in [Threads -> Seq(Files)]
    BY <1>t DEF QueueTypeOK
  <2> QED BY <2>1, <1>y, <1>r, <1>l, DetachedRequests
<1>D. /\ \A f \in Files : f \in D <=> Contains(notifying'[t], f)
      /\ \A f \in Files : Contains(own, f) => f \in D
      /\ \A f \in D : Contains(own, f) \/ \E i \in DOMAIN list : list[i].cookie = f
      /\ \A i \in DOMAIN list : list[i].cookie \notin D =>
           \E j \in DOMAIN log_requests' : log_requests'[j] = list[i]
      /\ \A j \in DOMAIN log_requests' :
           \E i \in DOMAIN list : log_requests'[j] = list[i] /\ list[i].cookie \notin D
      /\ \A i, j \in DOMAIN log_requests' :
           log_requests'[i].cookie = log_requests'[j].cookie => i = j
      /\ IsInjective(notifying'[t])
      /\ \A v \in Threads : v # t => notifying'[v] = notifying[v]
  BY <1>Q DEF DetachedFiles
<1>w. PICK where2 \in [Files -> Places] :
        \A f \in Files : where2[f] = IF f \in D THEN "notify"
                                     ELSE IF f = b THEN "asked" ELSE where[f]
  <2>1. [f \in Files |-> IF f \in D THEN "notify" ELSE IF f = b THEN "asked" ELSE where[f]]
          \in [Files -> Places]
    BY DEF Places
  <2> QED BY <2>1
<1>x. \A f \in D : f = b \/ where[f] = "asked"
  BY <1>0, <1>D, <1>l DEF RequestsInv
<1>A. \A f \in Files : Flushing(f)' <=> f # b /\ Flushing(f)
  BY <1>g, <1>pc, <1>d, <1>e, <1>c, Constants DEF Flushing
<1>z. \A f \in Files : /\ where2[f] = "none" <=> where[f] = "none"
                       /\ where2[f] \in {"queued", "taken", "marking"} <=>
                            where[f] \in {"queued", "taken", "marking"}
                       /\ where2[f] \in {"queued", "taken", "marking"} => where2[f] = where[f]
  BY <1>w, <1>x, <1>c
<1>U. \A f \in Files : Unlogging(f)' = Unlogging(f)
  BY <1>g, <1>pc, <1>d, XaAssumption, Constants DEF Unlogging
<1>H. \A f \in Files : Holding(f)' = Holding(f)
  BY <1>g, <1>pc, <1>d, Constants DEF Holding, ThreadsInv, FilesInv
<1>1. RequestsInv(where2)'
  <2>1. \A f \in Files : where2[f] = "asking" <=> Flushing(f)'
    BY <1>0, <1>A, <1>w, <1>x DEF RequestsInv
  <2>2. \A f \in Files : where2[f] = "asked" <=>
          \E i \in DOMAIN log_requests' : log_requests'[i].cookie = f
    <3>1. \A f \in Files : (\E i \in DOMAIN log_requests' : log_requests'[i].cookie = f)
                            <=> f \notin D /\ \E i \in DOMAIN list : list[i].cookie = f
      BY <1>D
    <3>2. \A f \in Files : where[f] = "asked" <=>
            \E i \in DOMAIN log_requests : log_requests[i].cookie = f
      BY <1>0 DEF RequestsInv
    <3>3. \A f \in Files \ D : (\E i \in DOMAIN list : list[i].cookie = f) <=> f = b \/ where[f] = "asked"
      BY <1>D, <1>l, <3>2
    <3> QED BY <3>1, <3>3, <1>w
  <2>3. \A f \in Files : where2[f] = "notify" <=> \E v \in Threads : Contains(notifying'[v], f)
    <3>1. \A f \in Files : where[f] = "notify" <=> \E v \in Threads : Contains(notifying[v], f)
      BY <1>0 DEF RequestsInv
    <3>2. \A f : ~Contains(notifying[t], f)
      BY <1>y, EmptyList
    <3>3. \A f \in Files : (\E v \in Threads : Contains(notifying'[v], f)) <=> f \in D \/ where[f] = "notify"
      BY <3>1, <3>2, <1>D, <1>y
    <3> QED BY <3>3, <1>w, <1>c
  <2>4. \A v \in Threads : /\ IsInjective(notifying'[v])
                           /\ flush_notify'[v] # NoLsn => notifying'[v] = <<>>
    <3>1. flush_notify[t] = NoLsn
      BY DEF InnodbQueues, At, Busy
    <3> QED BY <3>1, <1>0, <1>D, <1>d DEF RequestsInv
  <2>5. \A v, u \in Threads, f \in Files :
          Contains(notifying'[v], f) /\ Contains(notifying'[u], f) => v = u
    <3>1. \A f \in D, v \in Threads : ~Contains(notifying[v], f)
      BY <1>0, <1>x, <1>c DEF RequestsInv
    <3> QED BY <3>1, <1>0, <1>D DEF RequestsInv
  <2> QED BY <2>1, <2>2, <2>3, <2>4, <2>5, <1>D DEF RequestsInv
<1>2. QueueInv(where2)'
  <2>1. QueueInv(where2)
    BY <1>0, <1>z DEF QueueInv
  <2> QED BY <2>1, <1>d, SameQueue
<1>3. AskedInv(where2)'
  <2>1. AskedInv(where2)
    BY <1>0, <1>z, RotatedFile DEF AskedInv
  <2> QED BY <2>1, <1>d, SameAsked
<1>4. CountInv(where2)'
  BY <1>0, <1>g, <1>d, <1>z, <1>U, <1>H, SameCounts
<1>5. xid_count' \in [Files -> Nat]
  BY <1>4, <1>g, <1>d, CountsAreNumbers
<1> QED BY <1>1, <1>2, <1>3, <1>4, <1>5 DEF PlacesInv

(* log_flush_notify()                                                      *)
LEMMA FlushNotifyPlaces ==
  ASSUME ThreadsInv, ThreadsInv', NEW t \in Threads, QueueStep(FlushNotify(t)),
         NEW where \in [Files -> Places], PlacesInv(where)
  PROVE  \E where2 \in [Files -> Places] : PlacesInv(where2)'
<1>0. RequestsInv(where) /\ QueueInv(where) /\ AskedInv(where) /\ CountInv(where)
  BY DEF PlacesInv
<1>t. /\ notifying \in [Threads -> Seq(Files)] /\ log_requests \in Seq(Requests)
      /\ flush_notify \in [Threads -> [to : Nat] \cup {NoLsn}] /\ <<>> \in Seq(Files)
  <2>1. QueueTypeOK
    BY DEF ThreadsInv, TypeInv
  <2>2. <<>> \in Seq(Files)
    OBVIOUS
  <2> QED BY <2>1, <2>2 DEF QueueTypeOK
<1>g. /\ server = "up" /\ flush_notify[t] # NoLsn
      /\ Detached(t, log_requests, flush_notify[t].to, <<>>)
      /\ flush_notify' = [flush_notify EXCEPT ![t] = NoLsn]
  BY DEF QueueStep, FlushNotify
<1>d. /\ UNCHANGED <<pc, file, unsynced, binlog_id, check_purge, to_ask, server>>
      /\ UNCHANGED <<binlog_background_thread_queue, next_in_queue, notify_count, bg>>
      /\ UNCHANGED <<current_binlog_id, binlog_xid_count_list, xid_count>>
  BY DEF QueueStep, FlushNotify, diskVars, serverVars, localVars, listVars, queueVars
<1>y. /\ notifying[t] = <<>>
      /\ \A i, j \in DOMAIN log_requests : log_requests[i].cookie = log_requests[j].cookie => i = j
  BY <1>0, <1>g DEF RequestsInv
<1>Q. PICK D \in SUBSET Files : DetachedFiles(D, t, log_requests, flush_notify[t].to, <<>>)
  <2>1. IsInjective(<<>>) /\ \A f : ~Contains(<<>>, f)
    BY EmptyList
  <2> QED BY <2>1, <1>t, <1>g, <1>y, DetachedRequests
<1>D. /\ \A f \in Files : f \in D <=> Contains(notifying'[t], f)
      /\ \A f \in D : \E i \in DOMAIN log_requests : log_requests[i].cookie = f
      /\ \A i \in DOMAIN log_requests : log_requests[i].cookie \notin D =>
           \E j \in DOMAIN log_requests' : log_requests'[j] = log_requests[i]
      /\ \A j \in DOMAIN log_requests' :
           \E i \in DOMAIN log_requests : /\ log_requests'[j] = log_requests[i]
                                          /\ log_requests[i].cookie \notin D
      /\ \A i, j \in DOMAIN log_requests' :
           log_requests'[i].cookie = log_requests'[j].cookie => i = j
      /\ IsInjective(notifying'[t])
      /\ \A v \in Threads : v # t => notifying'[v] = notifying[v]
  BY <1>Q, EmptyList DEF DetachedFiles
<1>w. PICK where2 \in [Files -> Places] :
        \A f \in Files : where2[f] = IF f \in D THEN "notify" ELSE where[f]
  <2>1. [f \in Files |-> IF f \in D THEN "notify" ELSE where[f]] \in [Files -> Places]
    BY DEF Places
  <2> QED BY <2>1
<1>x. \A f \in D : where[f] = "asked"
  BY <1>0, <1>D DEF RequestsInv
<1>z. \A f \in Files : /\ where2[f] = "none" <=> where[f] = "none"
                       /\ where2[f] \in {"queued", "taken", "marking"} <=>
                            where[f] \in {"queued", "taken", "marking"}
                       /\ where2[f] \in {"queued", "taken", "marking"} => where2[f] = where[f]
  BY <1>w, <1>x
<1>U. \A f \in Files : /\ Unlogging(f)' = Unlogging(f) /\ Holding(f)' = Holding(f)
                       /\ Flushing(f)' = Flushing(f)
  BY <1>d DEF Unlogging, Holding, Flushing
<1>1. RequestsInv(where2)'
  <2>1. \A f \in Files : where2[f] = "asking" <=> Flushing(f)'
    BY <1>0, <1>U, <1>w, <1>x DEF RequestsInv
  <2>2. \A f \in Files : where2[f] = "asked" <=>
          \E i \in DOMAIN log_requests' : log_requests'[i].cookie = f
    <3>1. \A f \in Files : (\E i \in DOMAIN log_requests' : log_requests'[i].cookie = f)
            <=> f \notin D /\ \E i \in DOMAIN log_requests : log_requests[i].cookie = f
      BY <1>D
    <3> QED BY <3>1, <1>0, <1>w DEF RequestsInv
  <2>3. \A f \in Files : where2[f] = "notify" <=> \E v \in Threads : Contains(notifying'[v], f)
    <3>1. \A f \in Files : where[f] = "notify" <=> \E v \in Threads : Contains(notifying[v], f)
      BY <1>0 DEF RequestsInv
    <3>2. \A f : ~Contains(notifying[t], f)
      BY <1>y, EmptyList
    <3>3. \A f \in Files : (\E v \in Threads : Contains(notifying'[v], f)) <=> f \in D \/ where[f] = "notify"
      BY <3>1, <3>2, <1>D
    <3> QED BY <3>3, <1>w
  <2>4. \A v \in Threads : /\ IsInjective(notifying'[v])
                           /\ flush_notify'[v] # NoLsn => notifying'[v] = <<>>
    BY <1>0, <1>D, <1>g, <1>t DEF RequestsInv
  <2>5. \A v, u \in Threads, f \in Files :
          Contains(notifying'[v], f) /\ Contains(notifying'[u], f) => v = u
    <3>1. \A f \in D, v \in Threads : ~Contains(notifying[v], f)
      BY <1>0, <1>x DEF RequestsInv
    <3> QED BY <3>1, <1>0, <1>D DEF RequestsInv
  <2> QED BY <2>1, <2>2, <2>3, <2>4, <2>5, <1>D DEF RequestsInv
<1>2. QueueInv(where2)'
  <2>1. QueueInv(where2)
    BY <1>0, <1>z DEF QueueInv
  <2> QED BY <2>1, <1>d, SameQueue
<1>3. AskedInv(where2)'
  <2>1. AskedInv(where2)
    BY <1>0, <1>z, RotatedFile DEF AskedInv
  <2> QED BY <2>1, <1>d, SameAsked
<1>4. CountInv(where2)'
  BY <1>0, <1>g, <1>d, <1>z, <1>U, SameCounts
<1>5. xid_count' \in [Files -> Nat]
  BY <1>4, <1>g, <1>d, CountsAreNumbers
<1> QED BY <1>1, <1>2, <1>3, <1>4, <1>5 DEF PlacesInv

(* commit_checkpoint_notify(): the entry is not in the queue yet.          *)
LEMMA NotifyPlaces ==
  ASSUME ThreadsInv, ThreadsInv', NEW t \in Threads, QueueStep(Notify(t)),
         NEW where \in [Files -> Places], PlacesInv(where)
  PROVE  \E where2 \in [Files -> Places] : PlacesInv(where2)'
<1>0. RequestsInv(where) /\ QueueInv(where) /\ AskedInv(where) /\ CountInv(where)
  BY DEF PlacesInv
<1>t. /\ notifying \in [Threads -> Seq(Files)]
      /\ binlog_background_thread_queue \in Files \cup {NoFile}
      /\ next_in_queue \in [Files -> Files \cup {NoFile}]
      /\ bg.next \in Files \cup {NoFile}
  BY DEF ThreadsInv, TypeInv, QueueTypeOK
<1>g. /\ server = "up" /\ flush_notify[t] = NoLsn /\ notifying[t] # <<>>
      /\ notifying' = [notifying EXCEPT ![t] = Tail(@)]
  BY DEF QueueStep, Notify
<1>d. /\ UNCHANGED <<pc, file, unsynced, binlog_id, check_purge, to_ask, server>>
      /\ UNCHANGED <<log_requests, flush_notify, bg>>
      /\ UNCHANGED <<current_binlog_id, binlog_xid_count_list, xid_count>>
  BY DEF QueueStep, Notify, diskVars, serverVars, localVars, listVars
<1>n. notifying[t] \in Seq(Files) /\ IsInjective(notifying[t])
  BY <1>0, <1>t DEF RequestsInv
<1>f. PICK f \in Files : f = Head(notifying[t]) /\ Contains(notifying[t], f)
  BY <1>n, <1>g, TailList
<1>s. /\ \A v \in Threads : v # t => notifying'[v] = notifying[v]
      /\ notifying'[t] \in Seq(Files) /\ IsInjective(notifying'[t])
      /\ \A g : Contains(notifying'[t], g) <=> Contains(notifying[t], g) /\ g # f
  BY <1>t, <1>g, <1>f, <1>n, TailList
<1>x. where[f] = "notify" /\ f \notin Queued /\ f \notin Reach(next_in_queue, bg.next)
  BY <1>0, <1>f DEF RequestsInv, QueueInv
<1>q. /\ next_in_queue' = [next_in_queue EXCEPT ![f] = binlog_background_thread_queue]
      /\ binlog_background_thread_queue' = f /\ UNCHANGED notify_count
  BY <1>x, <1>f DEF QueueStep, Notify
<1>w. PICK where2 \in [Files -> Places] :
        where2[f] = "queued" /\ \A g \in Files : g # f => where2[g] = where[g]
  <2>1. [where EXCEPT ![f] = "queued"] \in [Files -> Places]
    BY DEF Places
  <2> QED BY <2>1
<1>U. \A g \in Files : /\ Unlogging(g)' = Unlogging(g) /\ Holding(g)' = Holding(g)
                       /\ Flushing(g)' = Flushing(g)
  BY <1>d DEF Unlogging, Holding, Flushing
<1>1. RequestsInv(where2)'
  <2>1. \A v, u \in Threads, g \in Files :
          Contains(notifying[v], g) /\ Contains(notifying[u], g) => v = u
    BY <1>0 DEF RequestsInv
  <2>2. \A v \in Threads, g \in Files : Contains(notifying'[v], g) <=> Contains(notifying[v], g) /\ g # f
    BY <2>1, <1>s, <1>f
  <2>3. \A g \in Files : where2[g] = "notify" <=> \E v \in Threads : Contains(notifying'[v], g)
    BY <2>2, <1>0, <1>w DEF RequestsInv
  <2>4. \A v \in Threads : /\ IsInjective(notifying'[v])
                           /\ flush_notify'[v] # NoLsn => notifying'[v] = <<>>
    BY <1>0, <1>s, <1>g, <1>d DEF RequestsInv
  <2>5. \A v, u \in Threads, g \in Files :
          Contains(notifying'[v], g) /\ Contains(notifying'[u], g) => v = u
    BY <2>1, <2>2
  <2>6. \A g \in Files :
          /\ where2[g] = "asking" <=> Flushing(g)'
          /\ where2[g] = "asked" <=> \E i \in DOMAIN log_requests' : log_requests'[i].cookie = g
    BY <1>0, <1>w, <1>x, <1>d, <1>U DEF RequestsInv
  <2> QED BY <2>3, <2>4, <2>5, <2>6, <1>0, <1>d DEF RequestsInv
<1>2. QueueInv(where2)'
  <2> DEFINE q == binlog_background_thread_queue
             R == Reach(next_in_queue, q)
  <2>0. /\ next_in_queue \in [Files -> Files \cup {NoFile}] /\ f \in Files
        /\ q \in Files \cup {NoFile}
    BY <1>t
  <2>1. /\ next_in_queue' \in [Files -> Files \cup {NoFile}] /\ next_in_queue'[f] = q
        /\ \A g \in Files : g # f => next_in_queue'[g] = next_in_queue[g]
    BY <1>t, <1>q
  <2>2. Reach(next_in_queue', q) = R /\ f \notin R
    <3>1. f \notin R
      BY <1>x DEF Queued
    <3>2. Reach([next_in_queue EXCEPT ![f] = q], q) = R
      BY <3>1, <2>0, ReachFrame
    <3> QED BY <3>1, <3>2, <1>q
  <2>3. Queued' = {f} \cup R
    BY <2>1, <2>2, <1>q, ReachStep DEF Queued
  <2>4. Reach(next_in_queue', bg.next) = Reach(next_in_queue, bg.next)
    <3>1. PICK x \in Files \cup {NoFile} : x = bg.next
      BY <1>t
    <3>2. f \notin Reach(next_in_queue, x)
      BY <3>1, <1>x
    <3>3. Reach([next_in_queue EXCEPT ![f] = q], x) = Reach(next_in_queue, x)
      BY <3>2, <2>0, ReachFrame, ZenonT(30)
    <3> QED BY <3>1, <3>3, <1>q
  <2>5. ASSUME NEW g \in Files, g # f, where[g] \in {"queued", "taken"}
        PROVE  g \notin Reach(next_in_queue', next_in_queue'[g])
    <3>1. g \in Queued \/ g \in Reach(next_in_queue, bg.next)
      BY <2>5, <1>0 DEF QueueInv
    <3>2. f \notin Reach(next_in_queue, next_in_queue[g])
      BY <3>1, <1>t, <1>x, ReachWithin DEF Queued
    <3>3. Reach(next_in_queue', next_in_queue[g]) = Reach(next_in_queue, next_in_queue[g])
      <4>1. PICK x \in Files \cup {NoFile} : x = next_in_queue[g]
        BY <1>t
      <4>2. f \notin Reach(next_in_queue, x)
        BY <3>2, <4>1
      <4>3. Reach([next_in_queue EXCEPT ![f] = q], x) = Reach(next_in_queue, x)
        BY <4>2, <2>0, ReachFrame, ZenonT(30)
      <4> QED BY <4>1, <4>3, <1>q
    <3> QED BY <3>3, <2>1, <2>5, <1>0 DEF QueueInv
  <2>6. f \notin Reach(next_in_queue', next_in_queue'[f])
    BY <2>1, <2>2
  <2>7. \A g \in Files : where2[g] = "queued" <=> g \in Queued'
    BY <2>3, <1>0, <1>w DEF QueueInv, Queued
  <2>8. \A g \in Files : /\ where2[g] = "taken" <=> g \in Reach(next_in_queue', bg'.next)
                         /\ where2[g] = "marking" <=> bg'.entry = g /\ bg'.times = 1
                         /\ notify_count'[g] = 0
    BY <2>4, <1>0, <1>w, <1>x, <1>d, <1>q DEF QueueInv
  <2>9. \A g \in Files : where2[g] \in {"queued", "taken"} =>
          g \notin Reach(next_in_queue', next_in_queue'[g])
    BY <2>5, <2>6, <1>w
  <2> QED BY <2>7, <2>8, <2>9, <1>0, <1>d DEF QueueInv
<1>3. AskedInv(where2)'
  <2>1. AskedInv(where2)
    BY <1>0, <1>w, <1>x, RotatedFile DEF AskedInv
  <2> QED BY <2>1, <1>d, SameAsked
<1>4. CountInv(where2)'
  <2>1. \A g \in Files : where2[g] = "none" <=> where[g] = "none"
    BY <1>w, <1>x
  <2> QED BY <2>1, <1>0, <1>g, <1>d, <1>U, SameCounts
<1>5. xid_count' \in [Files -> Nat]
  BY <1>4, <1>g, <1>d, CountsAreNumbers
<1> QED BY <1>1, <1>2, <1>3, <1>4, <1>5 DEF PlacesInv

(* binlog_background_thread() takes the queue.                             *)
LEMMA BackgroundGrabPlaces ==
  ASSUME ThreadsInv, ThreadsInv', QueueStep(BackgroundGrab),
         NEW where \in [Files -> Places], PlacesInv(where)
  PROVE  \E where2 \in [Files -> Places] : PlacesInv(where2)'
<1>0. RequestsInv(where) /\ QueueInv(where) /\ AskedInv(where) /\ CountInv(where)
  BY DEF PlacesInv
<1>t. /\ binlog_background_thread_queue \in Files \cup {NoFile}
      /\ next_in_queue \in [Files -> Files \cup {NoFile}]
  BY DEF ThreadsInv, TypeInv, QueueTypeOK
<1>g. /\ server = "up" /\ bg.next = NoFile /\ bg.entry = NoFile /\ bg.times = 0
      /\ bg'.next = binlog_background_thread_queue /\ bg'.entry = NoFile /\ bg'.times = 0
      /\ binlog_background_thread_queue' = NoFile
  BY DEF QueueStep, BackgroundGrab, Idle
<1>d. /\ UNCHANGED <<pc, file, unsynced, binlog_id, check_purge, to_ask, server>>
      /\ UNCHANGED <<log_requests, notifying, flush_notify, next_in_queue, notify_count>>
      /\ UNCHANGED <<current_binlog_id, binlog_xid_count_list, xid_count>>
  BY DEF QueueStep, BackgroundGrab, diskVars, serverVars, localVars, listVars, requestVars
<1>w. PICK where2 \in [Files -> Places] :
        \A f \in Files : where2[f] = IF where[f] = "queued" THEN "taken" ELSE where[f]
  <2>1. [f \in Files |-> IF where[f] = "queued" THEN "taken" ELSE where[f]] \in [Files -> Places]
    BY DEF Places
  <2> QED BY <2>1
<1>x. \A f \in Files : where[f] # "taken"
  BY <1>0, <1>g, ReachNothing DEF QueueInv
<1>U. \A f \in Files : /\ Unlogging(f)' = Unlogging(f) /\ Holding(f)' = Holding(f)
                       /\ Flushing(f)' = Flushing(f)
  BY <1>d DEF Unlogging, Holding, Flushing
<1>1. RequestsInv(where2)'
  <2>1. RequestsInv(where2)
    BY <1>0, <1>w DEF RequestsInv
  <2> QED BY <2>1, <1>d, <1>U, SameRequests
<1>2. QueueInv(where2)'
  <2>1. Queued' = {} /\ Reach(next_in_queue', bg'.next) = Queued
    BY <1>g, <1>d, ReachNothing DEF Queued
  <2>2. \A f \in Files : /\ where2[f] = "queued" <=> f \in Queued'
                         /\ where2[f] = "taken" <=> f \in Reach(next_in_queue', bg'.next)
    BY <2>1, <1>0, <1>w, <1>x DEF QueueInv
  <2>3. \A f \in Files : where2[f] = "marking" <=> bg'.entry = f /\ bg'.times = 1
    BY <1>0, <1>g, <1>w DEF QueueInv
  <2>4. \A f \in Files : where2[f] \in {"queued", "taken"} =>
                           f \notin Reach(next_in_queue', next_in_queue'[f])
    BY <1>0, <1>w, <1>d DEF QueueInv
  <2> QED BY <2>2, <2>3, <2>4, <1>0, <1>g, <1>d DEF QueueInv
<1>3. AskedInv(where2)'
  <2>1. AskedInv(where2)
    BY <1>0, <1>w, RotatedFile DEF AskedInv
  <2> QED BY <2>1, <1>d, SameAsked
<1>4. CountInv(where2)'
  <2>1. \A f \in Files : where2[f] = "none" <=> where[f] = "none"
    BY <1>w
  <2> QED BY <2>1, <1>0, <1>g, <1>d, <1>U, SameCounts
<1>5. xid_count' \in [Files -> Nat]
  BY <1>4, <1>g, <1>d, CountsAreNumbers
<1> QED BY <1>1, <1>2, <1>3, <1>4, <1>5 DEF PlacesInv

(* binlog_background_thread() goes on to the next entry of what it took.   *)
LEMMA BackgroundNextPlaces ==
  ASSUME ThreadsInv, ThreadsInv', QueueStep(BackgroundNext),
         NEW where \in [Files -> Places], PlacesInv(where)
  PROVE  \E where2 \in [Files -> Places] : PlacesInv(where2)'
<1>0. RequestsInv(where) /\ QueueInv(where) /\ AskedInv(where) /\ CountInv(where)
  BY DEF PlacesInv
<1>t. /\ next_in_queue \in [Files -> Files \cup {NoFile}] /\ notify_count \in [Files -> Nat]
      /\ bg.next \in Files \cup {NoFile}
  BY DEF ThreadsInv, TypeInv, QueueTypeOK
<1>f. PICK f \in Files : f = bg.next /\ bg.times = 0
  BY <1>t DEF QueueStep, BackgroundNext
<1>g. /\ server = "up" /\ bg'.next = next_in_queue[f] /\ bg'.entry = f
      /\ bg'.times = notify_count[f] + 1
      /\ notify_count' = [notify_count EXCEPT ![f] = 0]
  BY <1>f DEF QueueStep, BackgroundNext
<1>d. /\ UNCHANGED <<pc, file, unsynced, binlog_id, check_purge, to_ask, server>>
      /\ UNCHANGED <<log_requests, notifying, flush_notify, next_in_queue>>
      /\ UNCHANGED <<current_binlog_id, binlog_xid_count_list, xid_count,
                     binlog_background_thread_queue>>
  BY DEF QueueStep, BackgroundNext, diskVars, serverVars, localVars, listVars, requestVars
<1>r. Reach(next_in_queue, bg.next) = {f} \cup Reach(next_in_queue, next_in_queue[f])
  BY <1>t, <1>f, ReachStep
<1>x. /\ where[f] = "taken" /\ f \notin Reach(next_in_queue, next_in_queue[f])
      /\ bg'.times = 1 /\ \A g \in Files : where[g] # "marking"
  <2>1. where[f] = "taken"
    BY <1>0, <1>r DEF QueueInv
  <2> QED BY <2>1, <1>0, <1>f, <1>g DEF QueueInv
<1>w. PICK where2 \in [Files -> Places] :
        where2[f] = "marking" /\ \A g \in Files : g # f => where2[g] = where[g]
  <2>1. [where EXCEPT ![f] = "marking"] \in [Files -> Places]
    BY DEF Places
  <2> QED BY <2>1
<1>U. \A g \in Files : /\ Unlogging(g)' = Unlogging(g) /\ Holding(g)' = Holding(g)
                       /\ Flushing(g)' = Flushing(g)
  BY <1>d DEF Unlogging, Holding, Flushing
<1>1. RequestsInv(where2)'
  <2>1. RequestsInv(where2)
    BY <1>0, <1>w, <1>x DEF RequestsInv
  <2> QED BY <2>1, <1>d, <1>U, SameRequests
<1>2. QueueInv(where2)'
  <2>1. Queued' = Queued
    BY <1>d DEF Queued
  <2>2. \A g \in Files : /\ where2[g] = "queued" <=> g \in Queued'
                         /\ where2[g] = "taken" <=> g \in Reach(next_in_queue', bg'.next)
    BY <2>1, <1>0, <1>w, <1>x, <1>r, <1>d, <1>g DEF QueueInv
  <2>3. \A g \in Files : where2[g] = "marking" <=> bg'.entry = g /\ bg'.times = 1
    BY <1>g, <1>w, <1>x
  <2>4. \A g \in Files : where2[g] \in {"queued", "taken"} =>
                           g \notin Reach(next_in_queue', next_in_queue'[g])
    BY <1>0, <1>w, <1>d DEF QueueInv
  <2>5. \A g \in Files : notify_count'[g] = 0
    BY <1>0, <1>t, <1>g DEF QueueInv
  <2>6. bg'.times \in {0, 1} /\ (bg'.times = 1 => bg'.entry # NoFile)
    BY <1>g, <1>x, Constants
  <2> QED BY <2>2, <2>3, <2>4, <2>5, <2>6 DEF QueueInv
<1>3. AskedInv(where2)'
  <2>1. AskedInv(where2)
    BY <1>0, <1>w, <1>x, RotatedFile DEF AskedInv
  <2> QED BY <2>1, <1>d, SameAsked
<1>4. CountInv(where2)'
  <2>1. \A g \in Files : where2[g] = "none" <=> where[g] = "none"
    BY <1>w, <1>x
  <2> QED BY <2>1, <1>0, <1>g, <1>d, <1>U, SameCounts
<1>5. xid_count' \in [Files -> Nat]
  BY <1>4, <1>g, <1>d, CountsAreNumbers
<1> QED BY <1>1, <1>2, <1>3, <1>4, <1>5 DEF PlacesInv

(* The background thread calls mark_xid_done().                            *)
LEMMA BackgroundMarkPlaces ==
  ASSUME ThreadsInv, ThreadsInv', BackgroundMark,
         NEW where \in [Files -> Places], PlacesInv(where)
  PROVE  \E where2 \in [Files -> Places] : PlacesInv(where2)'
<1>0. RequestsInv(where) /\ QueueInv(where) /\ AskedInv(where) /\ CountInv(where)
  BY DEF PlacesInv
<1>t. /\ bg \in [entry : Files \cup {NoFile}, next : Files \cup {NoFile}, times : Nat]
      /\ xid_count \in [Files -> Int]
  BY DEF ThreadsInv, TypeInv, QueueTypeOK, ListTypeInv
<1>f. PICK f \in Files : f = bg.entry /\ bg.times = 1
  <2>1. bg.times > 0
    BY DEF BackgroundMark
  <2>2. bg.times = 1 /\ bg.entry # NoFile
    BY <2>1, <1>0 DEF QueueInv
  <2> QED BY <2>2, <1>t
<1>g. /\ server = "up" /\ bg'.next = bg.next /\ bg'.times = 0
      /\ xid_count'[f] = xid_count[f] - 1
      /\ \A g \in Files : g # f => xid_count'[g] = xid_count[g]
  <2>1. bg' = IF bg.times = 1 /\ bg.next = NoFile THEN Idle ELSE [bg EXCEPT !.times = @ - 1]
    BY DEF BackgroundMark, BackgroundMarked
  <2>2. bg'.next = bg.next /\ bg'.times = 0
    BY <2>1, <1>t, <1>f DEF Idle
  <2>3. xid_count' = [xid_count EXCEPT ![f] = @ - 1] /\ server = "up"
    BY <1>f DEF BackgroundMark, MarkXidDone, Decremented
  <2> QED BY <2>2, <2>3, <1>t
<1>d. /\ UNCHANGED <<pc, file, unsynced, binlog_id, check_purge, to_ask, server>>
      /\ UNCHANGED <<log_requests, notifying, flush_notify, next_in_queue, notify_count>>
      /\ UNCHANGED <<current_binlog_id, binlog_xid_count_list,
                     binlog_background_thread_queue>>
  BY DEF BackgroundMark, MarkXidDone, diskVars, serverVars, localVars, requestVars, queueVars
<1>x. where[f] = "marking" /\ \A g \in Files : where[g] = "marking" => g = f
  BY <1>0, <1>f DEF QueueInv
<1>w. PICK where2 \in [Files -> Places] :
        where2[f] = "none" /\ \A g \in Files : g # f => where2[g] = where[g]
  <2>1. [where EXCEPT ![f] = "none"] \in [Files -> Places]
    BY DEF Places
  <2> QED BY <2>1
<1>U. \A g \in Files : /\ Unlogging(g)' = Unlogging(g) /\ Holding(g)' = Holding(g)
                       /\ Flushing(g)' = Flushing(g)
  BY <1>d DEF Unlogging, Holding, Flushing
<1>1. RequestsInv(where2)'
  <2>1. RequestsInv(where2)
    BY <1>0, <1>w, <1>x DEF RequestsInv
  <2> QED BY <2>1, <1>d, <1>U, SameRequests
<1>2. QueueInv(where2)'
  <2>1. Queued' = Queued /\ Reach(next_in_queue', bg'.next) = Reach(next_in_queue, bg.next)
    BY <1>d, <1>g DEF Queued
  <2>2. \A g \in Files : /\ where2[g] = "queued" <=> g \in Queued'
                         /\ where2[g] = "taken" <=> g \in Reach(next_in_queue', bg'.next)
    BY <2>1, <1>0, <1>w, <1>x DEF QueueInv
  <2>3. \A g \in Files : where2[g] = "marking" <=> bg'.entry = g /\ bg'.times = 1
    BY <1>g, <1>w, <1>x
  <2>4. \A g \in Files : /\ where2[g] \in {"queued", "taken"} =>
                              g \notin Reach(next_in_queue', next_in_queue'[g])
                         /\ notify_count'[g] = 0
    BY <1>0, <1>w, <1>d DEF QueueInv
  <2> QED BY <2>2, <2>3, <2>4, <1>g DEF QueueInv
<1>3. AskedInv(where2)'
  <2>1. AskedInv(where2)
    BY <1>0, <1>w, <1>x, RotatedFile DEF AskedInv
  <2> QED BY <2>1, <1>d, SameAsked
<1>4. CountInv(where2)'
  <2>1. /\ Cardinality(Unlogging(f)) \in Nat /\ Cardinality(Holding(f)) \in Nat
        /\ xid_count[f] = Cardinality(Unlogging(f)) + Cardinality(Holding(f))
                          + IF where[f] = "none" THEN 0 ELSE 1
    BY <1>0, <1>g, ReasonSets, SessionSets DEF CountInv
  <2>2. xid_count'[f] = Cardinality(Unlogging(f)') + Cardinality(Holding(f)')
                        + IF where2[f] = "none" THEN 0 ELSE 1
    BY <2>1, <1>U, <1>g, <1>w, <1>x
  <2>3. Head(binlog_xid_count_list) <= f /\ f <= current_binlog_id
    BY <1>0, <1>g, <1>x, ReasonCounts
  <2> QED BY <2>2, <2>3, <1>0, <1>g, <1>d, <1>U, <1>w, OneCountChanged
<1>5. xid_count' \in [Files -> Nat]
  BY <1>4, <1>g, <1>d, CountsAreNumbers
<1> QED BY <1>1, <1>2, <1>3, <1>4, <1>5 DEF PlacesInv

(* A crash forgets every request.                                          *)
LEMMA CrashPlaces ==
  ASSUME ThreadsInv, ThreadsInv', Crash, NEW where \in [Files -> Places], PlacesInv(where)
  PROVE  \E where2 \in [Files -> Places] : PlacesInv(where2)'
<1>g. /\ server' = "down" /\ UNCHANGED <<xid_count, current_binlog_id>>
      /\ log_requests' = <<>> /\ notifying' = [t \in Threads |-> <<>>]
      /\ flush_notify' = [t \in Threads |-> NoLsn]
      /\ binlog_background_thread_queue' = NoFile /\ notify_count' = [f \in Files |-> 0]
      /\ bg' = Idle /\ check_purge' = [t \in Sessions |-> FALSE]
  BY DEF Crash, QueueForgotten, listVars
<1>w. PICK where2 \in [Files -> Places] : \A f \in Files : where2[f] = "none"
  <2>1. [f \in Files |-> "none"] \in [Files -> Places]
    BY DEF Places
  <2> QED BY <2>1
<1>p. \A t \in Sessions : pc'[t] # "flush"
  BY DEF Crash
<1>1. RequestsInv(where2)'
  <2>1. \A f \in Files : ~Flushing(f)'
    BY <1>p DEF Flushing
  <2>2. DOMAIN log_requests' = {}
    BY <1>g
  <2>3. \A t \in Threads : notifying'[t] = <<>> /\ flush_notify'[t] = NoLsn
    BY <1>g
  <2> QED BY <2>1, <2>2, <2>3, <1>w, EmptyList DEF RequestsInv
<1>2. QueueInv(where2)'
  <2>1. Queued' = {} /\ Reach(next_in_queue', bg'.next) = {} /\ bg'.times = 0
    BY <1>g, ReachNothing DEF Queued, Idle
  <2> QED BY <2>1, <1>g, <1>w DEF QueueInv
<1>3. AskedInv(where2)'
  BY <1>g, <1>w DEF AskedInv
<1>4. CountInv(where2)' /\ xid_count' \in [Files -> Nat]
  BY <1>g DEF CountInv, PlacesInv
<1> QED BY <1>1, <1>2, <1>3, <1>4 DEF PlacesInv

(* A restarted server has nothing to count.                                *)
LEMMA RecoverPlaces ==
  ASSUME ThreadsInv, ThreadsInv', Recover, NEW where \in [Files -> Places], PlacesInv(where)
  PROVE  PlacesInv(where)'
<1>0. RequestsInv(where) /\ QueueInv(where) /\ AskedInv(where)
  BY DEF PlacesInv
<1>g. server = "down" /\ server' = "up" /\ xid_count' = [f \in Files |-> 0]
  BY DEF Recover, Recovered, ListRestarted
<1>d. /\ UNCHANGED <<pc, file, unsynced, binlog_id, check_purge, to_ask>>
      /\ UNCHANGED <<log_requests, notifying, flush_notify>>
      /\ UNCHANGED <<binlog_background_thread_queue, next_in_queue, notify_count, bg>>
  BY DEF Recover, Recovered, localVars, ckptVars, requestVars, queueVars
<1>x. \A f \in Files : where[f] = "none"
  BY <1>0, <1>g DEF AskedInv
<1>p. \A t \in Sessions : pc[t] \in {"prepare", "acked", "gone"} /\ ~check_purge[t]
  BY <1>g DEF ThreadsInv, DownInv
<1>1. RequestsInv(where)'
  <2>1. \A f \in Files : Flushing(f)' = Flushing(f)
    BY <1>d DEF Flushing
  <2> QED BY <2>1, <1>0, <1>d, SameRequests
<1>2. QueueInv(where)'
  BY <1>0, <1>d, SameQueue
<1>3. AskedInv(where)'
  BY <1>x, <1>p, <1>d DEF AskedInv
<1>4. CountInv(where)'
  <2>1. ASSUME NEW f \in Files PROVE Unlogging(f)' = {} /\ Holding(f)' = {}
    <3>1. \A t \in Trx : pc[t] = "prepare" => file[t] # f
      BY Constants DEF ThreadsInv, TrxInv, TrxOK
    <3> QED BY <3>1, <1>p, <1>d, XaAssumption, Constants DEF Unlogging, Holding
  <2>2. Cardinality({}) = 0
    BY FS_EmptySet
  <2> QED BY <2>1, <2>2, <1>x, <1>g DEF CountInv
<1> QED BY <1>1, <1>2, <1>3, <1>4, <1>g DEF PlacesInv

(* recover() gives up.                                                     *)
LEMMA RecoverAbortsPlaces ==
  ASSUME ThreadsInv, ThreadsInv', RecoverAborts, NEW where \in [Files -> Places], PlacesInv(where)
  PROVE  PlacesInv(where)'
<1>0. RequestsInv(where) /\ QueueInv(where) /\ AskedInv(where)
  BY DEF PlacesInv
<1>g. server = "down" /\ server' = "aborted"
  BY DEF RecoverAborts
<1>d. /\ UNCHANGED <<pc, binlog_id, check_purge, to_ask, xid_count>>
      /\ UNCHANGED <<log_requests, notifying, flush_notify>>
      /\ UNCHANGED <<binlog_background_thread_queue, next_in_queue, notify_count, bg>>
  BY DEF RecoverAborts, localVars, ckptVars, requestVars, queueVars, listVars
<1>x. \A f \in Files : where[f] = "none"
  BY <1>0, <1>g DEF AskedInv
<1>1. RequestsInv(where)'
  <2>1. \A f \in Files : Flushing(f)' = Flushing(f)
    BY <1>d DEF Flushing
  <2> QED BY <2>1, <1>0, <1>d, SameRequests
<1>2. QueueInv(where)'
  BY <1>0, <1>d, SameQueue
<1>3. AskedInv(where)'
  BY <1>0, <1>x, <1>d DEF AskedInv
<1>4. CountInv(where)' /\ xid_count' \in [Files -> Nat]
  BY <1>g, <1>d DEF CountInv, PlacesInv
<1> QED BY <1>1, <1>2, <1>3, <1>4 DEF PlacesInv

(* At the beginning nothing is asked for.                                  *)
LEMMA InitPlaces == ASSUME Init PROVE CountsInv
<1>t. ThreadsInv
  BY InitThreads
<1>g. /\ server = "up" /\ xid_count = [f \in Files |-> 0]
      /\ log_requests = <<>> /\ notifying = [t \in Threads |-> <<>>]
      /\ flush_notify = [t \in Threads |-> NoLsn]
      /\ binlog_background_thread_queue = NoFile /\ notify_count = [f \in Files |-> 0]
      /\ bg = Idle /\ check_purge = [t \in Sessions |-> FALSE]
      /\ file = [t \in Trx |-> NoFile]
  BY DEF Init, QueueInit, ListInit
<1>w. PICK where \in [Files -> Places] : \A f \in Files : where[f] = "none"
  <2>1. [f \in Files |-> "none"] \in [Files -> Places]
    BY DEF Places
  <2> QED BY <2>1
<1>p. \A t \in Sessions : pc[t] \in {"prepare", "rotate"}
  BY DEF Init
<1>1. RequestsInv(where)
  <2>1. \A f \in Files : ~Flushing(f)
    BY <1>p DEF Flushing
  <2>2. DOMAIN log_requests = {}
    BY <1>g
  <2>3. \A t \in Threads : notifying[t] = <<>> /\ flush_notify[t] = NoLsn
    BY <1>g
  <2> QED BY <2>1, <2>2, <2>3, <1>w, EmptyList DEF RequestsInv
<1>2. QueueInv(where)
  <2>1. Queued = {} /\ Reach(next_in_queue, bg.next) = {} /\ bg.times = 0
    BY <1>g, ReachNothing DEF Queued, Idle
  <2> QED BY <2>1, <1>g, <1>w DEF QueueInv
<1>3. AskedInv(where)
  BY <1>g, <1>w DEF AskedInv
<1>4. CountInv(where)
  <2>1. ASSUME NEW f \in Files PROVE Unlogging(f) = {} /\ Holding(f) = {}
    <3>1. \A t \in Trx : file[t] # f
      BY <1>g, Constants
    <3> QED BY <3>1, <1>p, <1>g, XaAssumption, Constants DEF Unlogging, Holding
  <2>2. Cardinality({}) = 0
    BY FS_EmptySet
  <2>3. ASSUME NEW f \in Files
        PROVE  /\ xid_count[f] = 0 /\ where[f] = "none"
               /\ Cardinality(Unlogging(f)) = 0 /\ Cardinality(Holding(f)) = 0
    <3>1. Unlogging(f) = {} /\ Holding(f) = {}
      BY <2>1
    <3> QED BY <3>1, <2>2, <1>w, <1>g
  <2> QED BY <2>3 DEF CountInv
<1>5. xid_count \in [Files -> Nat]
  BY <1>g
<1>6. PlacesInv(where)
  BY <1>1, <1>2, <1>3, <1>4, <1>5 DEF PlacesInv
<1> QED BY <1>t, <1>6 DEF CountsInv

(* A step that changes nothing keeps the places of the requests.           *)
LEMMA StutterPlaces ==
  ASSUME ThreadsInv', NEW where \in [Files -> Places], PlacesInv(where), UNCHANGED vars
  PROVE  PlacesInv(where)'
<1>0. RequestsInv(where) /\ QueueInv(where) /\ AskedInv(where) /\ CountInv(where)
  BY DEF PlacesInv
<1>d. /\ UNCHANGED <<pc, file, unsynced, binlog_id, check_purge, to_ask, server>>
      /\ UNCHANGED <<log_requests, notifying, flush_notify>>
      /\ UNCHANGED <<binlog_background_thread_queue, next_in_queue, notify_count, bg>>
      /\ UNCHANGED <<current_binlog_id, binlog_xid_count_list, xid_count>>
  BY DEF vars, diskVars, serverVars, localVars, listVars, ckptVars, requestVars, queueVars
<1>U. \A f \in Files : /\ Unlogging(f)' = Unlogging(f) /\ Holding(f)' = Holding(f)
                       /\ Flushing(f)' = Flushing(f)
  BY <1>d DEF Unlogging, Holding, Flushing
<1>1. RequestsInv(where)'
  BY <1>0, <1>d, <1>U, SameRequests
<1>2. QueueInv(where)'
  BY <1>0, <1>d, SameQueue
<1>3. AskedInv(where)'
  BY <1>0, <1>d, SameAsked
<1>4. CountInv(where)'
  BY <1>0, <1>d, <1>U DEF CountInv
<1>5. xid_count' \in [Files -> Nat]
  BY <1>d DEF PlacesInv
<1> QED BY <1>1, <1>2, <1>3, <1>4, <1>5 DEF PlacesInv

(* The counts are kept by every step.                                      *)
LEMMA NextPlaces == ASSUME OneEngine, CountsInv, [Next]_vars PROVE CountsInv'
<1>t. ThreadsInv /\ ThreadsInv'
  BY NextThreads DEF CountsInv
<1>w. PICK where \in [Files -> Places] : PlacesInv(where)
  BY DEF CountsInv
<1> SUFFICES \E where2 \in [Files -> Places] : PlacesInv(where2)'
  BY <1>t DEF CountsInv
<1>1. CASE \E t \in Trx : Transaction(t)
  <2>1. PICK t \in Trx : Transaction(t)
    BY <1>1
  <2> QED BY <1>t, <1>w, <2>1, PreparePlaces, LeaderLockLogPlaces, LeaderSyncPlaces,
             NoRotatePlaces, CommitOrderedPlaces, CommitEnginePlaces, UnlogPlaces,
             LeaderWritePlaces DEF Transaction
<1>2. CASE \E t \in Sessions : Session(t)
  <2>1. PICK t \in Sessions : Session(t)
    BY <1>2
  <2>2. CASE RotatorLockLog(t) \/ Rotate(t) \/ OpenNew(t) \/ RotateFails(t) \/ ReleaseLog(t)
    BY <1>t, <1>w, <2>2, RotatorLockLogPlaces, RotatePlaces, OpenNewPlaces, RotateFailsPlaces,
       ReleaseLogPlaces
  <2>3. CASE \/ CommitLock(t) \/ CommitUnlock(t) \/ RequestCheckpoint(t)
             \/ InnodbQueues(t) \/ Requested(t)
    BY <1>t, <1>w, <2>3, CommitLockPlaces, CommitUnlockPlaces, RequestCheckpointPlaces,
       InnodbQueuesPlaces, RequestedPlaces
  <2> QED BY <2>1, <2>2, <2>3 DEF Session
<1>3. CASE \E t \in Threads : Notifies(t)
  <2>1. PICK t \in Threads : Notifies(t)
    BY <1>3
  <2>2. QueueStep(FlushNotify(t)) \/ QueueStep(Notify(t))
    BY <2>1 DEF Notifies, QueueStep
  <2> QED BY <1>t, <1>w, <2>2, FlushNotifyPlaces, NotifyPlaces
<1>4. CASE \E t \in Markers : MarkStep(t)
  BY <1>t, <1>w, <1>4, MarkLockPlaces, MarkWritePlaces DEF MarkStep
<1>5. CASE BackgroundQueue
  <2>1. QueueStep(BackgroundGrab) \/ QueueStep(BackgroundNext)
    BY <1>5 DEF BackgroundQueue, QueueStep
  <2> QED BY <1>t, <1>w, <2>1, BackgroundGrabPlaces, BackgroundNextPlaces
<1>6. CASE BackgroundMark \/ FlushRedo \/ Purge
  BY <1>t, <1>w, <1>6, BackgroundMarkPlaces, FlushRedoPlaces, PurgePlaces
<1>7. CASE Crash \/ Recover \/ RecoverAborts
  BY <1>t, <1>w, <1>7, CrashPlaces, RecoverPlaces, RecoverAbortsPlaces
<1>8. CASE Finished \/ UNCHANGED vars
  BY <1>t, <1>w, <1>8, StutterPlaces DEF Finished
<1> QED BY <1>1, <1>2, <1>3, <1>4, <1>5, <1>6, <1>7, <1>8 DEF Next

(* The counts are exact in every reachable state.                          *)
LEMMA CountsInvariant == ASSUME OneEngine PROVE Spec => []CountsInv
<1>1. Init => CountsInv
  BY InitPlaces
<1>2. CountsInv /\ [Next]_vars => CountsInv'
  BY NextPlaces
<1> QED BY <1>1, <1>2, PTL DEF Spec

----------------------------------------------------------------------------
(* What follows from the counts.                                           *)

(* BinlogXa's variables keep their types: among them, no count is ever     *)
(* taken below zero by mark_xid_done(), the list of entries is never       *)
(* empty, and no more of the redo log is flushed than was written.         *)
THEOREM TypeCorrect == ASSUME OneEngine PROVE Spec => []TypeOK
<1>1. CountsInv => TypeOK
  BY DEF CountsInv, PlacesInv, ThreadsInv, TypeInv, ListTypeInv, ListInv, TypeOK, ListTypeOK
<1> QED BY <1>1, CountsInvariant, PTL

(* A set without two different elements has none or one.                   *)
LEMMA AtMostOne ==
  ASSUME NEW S, \A x, y \in S : x = y
  PROVE  Cardinality(S) = IF S = {} THEN 0 ELSE 1
<1>1. CASE S = {}
  BY <1>1, FS_EmptySet
<1>2. CASE S # {}
  <2>1. PICK x \in S : TRUE
    BY <1>2
  <2>2. S = {x}
    BY <2>1
  <2> QED BY <1>2, <2>2, FS_Singleton
<1> QED BY <1>1, <1>2

(* A request and its answer exist once, at the place where it is.          *)
LEMMA OneRequest ==
  ASSUME ThreadsInv, NEW where \in [Files -> Places], PlacesInv(where), NEW f \in Files
  PROVE  /\ Cardinality(Asking(f)) = IF where[f] = "asking" THEN 1 ELSE 0
         /\ Cardinality(Asked(f)) = IF where[f] = "asked" THEN 1 ELSE 0
         /\ Cardinality(Notifying(f)) = IF where[f] = "notify" THEN 1 ELSE 0
<1>0. RequestsInv(where) /\ FilesInv
  BY DEF PlacesInv, ThreadsInv
<1>1. Cardinality(Asking(f)) = IF where[f] = "asking" THEN 1 ELSE 0
  <2>1. \A x, y \in Asking(f) : x = y
    BY <1>0 DEF Asking, FilesInv
  <2>2. Asking(f) # {} <=> where[f] = "asking"
    BY <1>0 DEF Asking, FilesInv, RequestsInv, Flushing
  <2> QED BY <2>1, <2>2, AtMostOne
<1>2. Cardinality(Asked(f)) = IF where[f] = "asked" THEN 1 ELSE 0
  <2>1. \A x, y \in Asked(f) : x = y
    BY <1>0 DEF Asked, RequestsInv
  <2>2. Asked(f) # {} <=> where[f] = "asked"
    BY <1>0 DEF Asked, RequestsInv
  <2> QED BY <2>1, <2>2, AtMostOne
<1>3. Cardinality(Notifying(f)) = IF where[f] = "notify" THEN 1 ELSE 0
  <2>0. \A t \in Threads : notifying[t] \in Seq(Files)
    BY DEF ThreadsInv, TypeInv, QueueTypeOK
  <2>1. \A x : x \in Notifying(f) <=>
          \E t \in Threads : \E i \in DOMAIN notifying[t] :
            x = <<t, i>> /\ notifying[t][i] = f
    BY DEF Notifying
  <2>2. ASSUME NEW x \in Notifying(f), NEW y \in Notifying(f) PROVE x = y
    <3>1. PICK t \in Threads : \E i \in DOMAIN notifying[t] : x = <<t, i>> /\ notifying[t][i] = f
      BY <2>1
    <3>2. PICK u \in Threads : \E j \in DOMAIN notifying[u] : y = <<u, j>> /\ notifying[u][j] = f
      BY <2>1
    <3>i. PICK i \in DOMAIN notifying[t] : x = <<t, i>> /\ notifying[t][i] = f
      BY <3>1
    <3>j. PICK j \in DOMAIN notifying[u] : y = <<u, j>> /\ notifying[u][j] = f
      BY <3>2
    <3>3. Contains(notifying[t], f) /\ Contains(notifying[u], f)
      BY <2>0, <3>i, <3>j DEF Contains
    <3>4. t = u
      BY <1>0, <3>3 DEF RequestsInv
    <3>5. i = j
      BY <1>0, <3>i, <3>j, <3>4 DEF RequestsInv, IsInjective
    <3> QED BY <3>i, <3>j, <3>4, <3>5
  <2>3. Notifying(f) # {} <=> \E t \in Threads : Contains(notifying[t], f)
    <3>1. \A t \in Threads : Contains(notifying[t], f) <=>
            \E i \in DOMAIN notifying[t] : notifying[t][i] = f
      BY <2>0 DEF Contains
    <3>2. (\E x : x \in Notifying(f)) <=>
            \E t \in Threads : \E i \in DOMAIN notifying[t] : notifying[t][i] = f
      BY <2>1, Zenon
    <3> QED BY <3>1, <3>2
  <2>4. Notifying(f) # {} <=> where[f] = "notify"
    BY <2>3, <1>0 DEF RequestsInv
  <2> QED BY <2>2, <2>4, AtMostOne
<1> QED BY <1>1, <1>2, <1>3

(* The count of every entry is the number of reasons to keep it: no        *)
(* notification is lost or counted twice between InnoDB's list, the        *)
(* notifying threads and the queue of the background thread, and a file    *)
(* that is still needed has its entry in the list.                         *)
THEOREM CountsExact == ASSUME OneEngine PROVE Spec => []CountExact
<1>1. ASSUME CountsInv PROVE CountExact
  <2>1. PICK where \in [Files -> Places] : PlacesInv(where)
    BY <1>1 DEF CountsInv
  <2>2. ThreadsInv /\ QueueInv(where) /\ CountInv(where)
    BY <1>1, <2>1 DEF CountsInv, PlacesInv
  <2>3. ASSUME server = "up", NEW f \in Files,
               NEW reasons, reasons = Cardinality(Unlogging(f)) + Cardinality(Holding(f))
                   + Cardinality(Asking(f)) + Cardinality(Asked(f)) + Answers(f)
        PROVE  xid_count[f] = reasons /\ (reasons > 0 => f \in ToSet(binlog_xid_count_list))
    <3>1. PICK u \in Nat, h \in Nat : u = Cardinality(Unlogging(f)) /\ h = Cardinality(Holding(f))
      BY ReasonSets, SessionSets
    <3>2. /\ Cardinality(Asking(f)) = IF where[f] = "asking" THEN 1 ELSE 0
          /\ Cardinality(Asked(f)) = IF where[f] = "asked" THEN 1 ELSE 0
          /\ Cardinality(Notifying(f)) = IF where[f] = "notify" THEN 1 ELSE 0
      BY <2>1, <2>2, OneRequest
    <3>3. /\ f \in Queued <=> where[f] = "queued"
          /\ f \in Reach(next_in_queue, bg.next) <=> where[f] = "taken"
          /\ where[f] = "marking" <=> bg.entry = f /\ bg.times = 1
          /\ notify_count[f] = 0 /\ bg.times \in {0, 1}
      BY <2>2 DEF QueueInv
    <3>4. (IF bg.entry = f THEN bg.times ELSE 0) = IF where[f] = "marking" THEN 1 ELSE 0
      BY <3>3
    <3>5. Answers(f) = IF where[f] \in {"notify", "queued", "taken", "marking"} THEN 1 ELSE 0
      BY <3>2, <3>3, <3>4 DEF Answers
    <3>6. where[f] \in Places
      OBVIOUS
    <3>7. Cardinality(Asking(f)) + Cardinality(Asked(f)) + Answers(f)
            = IF where[f] = "none" THEN 0 ELSE 1
      BY <3>2, <3>5, <3>6 DEF Places
    <3>8. /\ xid_count[f] = u + h + IF where[f] = "none" THEN 0 ELSE 1
          /\ xid_count[f] # 0 => Head(binlog_xid_count_list) <= f /\ f <= current_binlog_id
      BY <2>2, <2>3, <3>1 DEF CountInv
    <3>9. xid_count[f] = reasons
      <4>1. PICK a \in Nat, b \in Nat, c \in Nat :
              a = Cardinality(Asking(f)) /\ b = Cardinality(Asked(f)) /\ c = Answers(f)
        BY <3>2, <3>5
      <4> QED BY <2>3, <3>1, <3>7, <3>8, <4>1
    <3>10. ASSUME reasons > 0 PROVE f \in ToSet(binlog_xid_count_list)
      <4>1. /\ binlog_xid_count_list \in Seq(Files) /\ binlog_xid_count_list # <<>>
            /\ current_binlog_id \in Files /\ UpTo(binlog_xid_count_list, current_binlog_id)
        BY <2>2 DEF ThreadsInv, TypeInv, ListTypeInv, ListInv
      <4>2. f \in Nat
        BY DEF Files
      <4>3. Head(binlog_xid_count_list) <= f /\ f <= current_binlog_id
        BY <3>10, <3>9, <3>8
      <4>4. Contains(binlog_xid_count_list, f)
        BY <4>1, <4>2, <4>3, UpToElements
      <4> QED BY <4>1, <4>4, SetOfList
    <3> QED BY <3>9, <3>10
  <2> QED BY <2>3 DEF CountExact
<1> QED BY <1>1, CountsInvariant, PTL

----------------------------------------------------------------------------
(* The checkpoint events: the last file's event names no file behind the   *)
(* head of the list, and what is about to be written names none that still *)
(* has a reason before it.                                                 *)
CkptInv ==
  /\ checkpoint[current_binlog_id] # NoFile
  /\ checkpoint[current_binlog_id] <= Head(binlog_xid_count_list)
  /\ named # NoFile => /\ Head(binlog_xid_count_list) <= named
                       /\ named <= current_binlog_id
                       /\ \A f \in Files : f < named => xid_count[f] = 0
  /\ \A m \in Markers : mark[m] = "write" => named = Head(binlog_xid_count_list)

(* A count that is taken down is not zero.                                 *)
LEMMA CountedDown ==
  ASSUME xid_count \in [Files -> Nat], xid_count' \in [Files -> Nat], NEW f \in Files,
         Decremented(f)
  PROVE  \A g \in Files : xid_count'[g] # 0 => xid_count[g] # 0
BY DEF Decremented

(* What most steps do to the list and to the checkpoint events: nothing,   *)
(* and no count but the current file's comes up from zero.                 *)
QuietCkpt ==
  /\ UNCHANGED <<checkpoint, binlog_xid_count_list, current_binlog_id, named>>
  /\ \A m \in Markers : mark'[m] = "write" => mark[m] = "write"
  /\ \A f \in Files : xid_count'[f] # 0 => xid_count[f] # 0 \/ f = current_binlog_id

(* A call of mark_xid_done() does so in its first hold of LOCK_xid_list.   *)
LEMMA MarkQuiet ==
  ASSUME CountsInv, CountsInv', NEW m \in Markers, NEW f \in Files, MarkXidDone(m, f),
         UNCHANGED <<checkpoint, named>>
  PROVE  QuietCkpt
<1>1. xid_count \in [Files -> Nat] /\ xid_count' \in [Files -> Nat]
  BY DEF CountsInv, PlacesInv
<1>2. mark \in [Markers -> {"no", "lock", "write"}]
  BY DEF CountsInv, ThreadsInv, TypeInv, CoordinatorTypeOK
<1>3. \A g \in Files : xid_count'[g] # 0 => xid_count[g] # 0
  BY <1>1, CountedDown DEF MarkXidDone
<1>4. \A v \in Markers : mark'[v] = "write" => mark[v] = "write"
  BY <1>2 DEF MarkXidDone
<1> QED BY <1>3, <1>4 DEF MarkXidDone, QuietCkpt

(* So do the steps of a session that neither rotates nor writes a          *)
(* checkpoint event.                                                       *)
LEMMA SessionQuiet ==
  ASSUME CountsInv, CountsInv', NEW t \in Sessions,
         \/ t \in Trx /\ Transaction(t)
         \/ RotatorLockLog(t) \/ ReleaseLog(t) \/ CommitLock(t) \/ CommitUnlock(t)
         \/ RequestCheckpoint(t) \/ InnodbQueues(t) \/ Requested(t)
  PROVE  QuietCkpt
<1>0. ThreadsInv /\ xid_count \in [Files -> Nat] /\ t \in Markers
  BY Constants DEF CountsInv, PlacesInv
<1>b. binlog_id[t] \in Files \cup {NoFile} /\ (t \in Trx => file[t] \in Files \cup {NoFile})
  BY <1>0 DEF ThreadsInv, TypeInv, CoordinatorTypeOK
<1>1. CASE \/ Prepare(t) \/ LeaderLockLog(t) \/ NoRotate(t) \/ CommitOrdered(t)
           \/ CommitEngine(t)
           \/ \E u \in Trx : LeaderWrite(t, u)
           \/ RotatorLockLog(t) \/ ReleaseLog(t) \/ CommitLock(t) \/ CommitUnlock(t)
           \/ InnodbQueues(t)
  <2>1. UNCHANGED <<checkpoint, named, mark, listVars>>
    BY <1>1 DEF Prepare, LeaderLockLog, NoRotate, CommitOrdered, CommitEngine, LeaderWrite,
       RotatorLockLog, ReleaseLog, CommitLock, CommitUnlock, InnodbQueues, WriteEvents,
       diskVars, localVars
  <2> QED BY <2>1 DEF QuietCkpt, listVars
<1>2. CASE t \in Trx /\ LeaderSync(t)
  <2>1. UNCHANGED <<checkpoint, named, mark, current_binlog_id, binlog_xid_count_list>>
    BY <1>2 DEF LeaderSync, localVars
  <2>2. binlog_id[t] = current_binlog_id
    BY <1>0, <1>2 DEF LeaderSync, At, ThreadsInv, FilesInv
  <2>3. \A f \in Files : f # current_binlog_id => xid_count'[f] = xid_count[f]
    BY <1>2, <1>0, <2>2 DEF LeaderSync, Activated
  <2> QED BY <2>1, <2>3 DEF QuietCkpt
<1>3. CASE RequestCheckpoint(t)
  <2>1. UNCHANGED <<checkpoint, named, mark, current_binlog_id, binlog_xid_count_list>>
    BY <1>3 DEF RequestCheckpoint, diskVars
  <2>2. server = "up" /\ pc[t] = "request" /\ check_purge[t]
    BY <1>0, <1>3 DEF RequestCheckpoint, At, ThreadsInv, FilesInv
  <2>3. PICK b \in Files : b = binlog_id[t]
    BY <1>0, <2>2, RotatedFile
  <2>4. t \in Holding(b)
    BY <2>2, <2>3 DEF Holding
  <2>5. PICK where \in [Files -> Places] : CountInv(where)
    BY DEF CountsInv, PlacesInv
  <2>6. xid_count[b] # 0
    BY <2>2, <2>4, <2>5, ReasonCounts
  <2>7. \A f \in Files : f # b => xid_count'[f] = xid_count[f]
    BY <1>3, <1>0, <2>3 DEF RequestCheckpoint, Activated
  <2> QED BY <2>1, <2>6, <2>7 DEF QuietCkpt
<1>4. CASE Requested(t)
  <2>1. check_purge[t]
    BY <1>0, <1>4 DEF Requested, At, ThreadsInv, FilesInv
  <2>2. binlog_id[t] \in Files
    BY <1>0, <2>1, RotatedFile
  <2>3. MarkXidDone(t, binlog_id[t]) /\ UNCHANGED <<checkpoint, named>>
    BY <1>4 DEF Requested, diskVars, localVars
  <2> QED BY <1>0, <2>2, <2>3, MarkQuiet
<1>5. CASE t \in Trx /\ Unlog(t)
  <2>1. file[t] # NoFile
    BY <1>0, <1>5 DEF Unlog, At, ThreadsInv, TrxInv, TrxOK
  <2>2. file[t] \in Files
    BY <1>5, <1>b, <2>1
  <2>3. MarkXidDone(t, file[t]) /\ UNCHANGED <<checkpoint, named>>
    BY <1>5 DEF Unlog, diskVars, localVars
  <2> QED BY <1>0, <2>2, <2>3, MarkQuiet
<1>6. CASE t \in Trx /\ Transaction(t)
  BY <1>1, <1>2, <1>5, <1>6 DEF Transaction
<1> QED BY <1>1, <1>3, <1>4, <1>6

(* And so do the redo log, the two queues and the purge of old files.      *)
LEMMA OthersQuiet ==
  ASSUME CountsInv, CountsInv',
         \/ \E t \in Threads : Notifies(t)
         \/ BackgroundQueue \/ BackgroundMark \/ FlushRedo \/ Purge \/ RecoverAborts
         \/ UNCHANGED vars
  PROVE  QuietCkpt
<1>1. CASE BackgroundMark
  <2>0. Background \in Markers
    BY Constants
  <2>1. ThreadsInv /\ (bg.times > 0 => bg.entry \in Files)
    <3>1. PICK where \in [Files -> Places] : QueueInv(where)
      BY DEF CountsInv, PlacesInv
    <3>2. ThreadsInv /\ bg.entry \in Files \cup {NoFile}
      BY DEF CountsInv, ThreadsInv, TypeInv, QueueTypeOK
    <3> QED BY <3>1, <3>2 DEF QueueInv
  <2>2. bg.entry \in Files /\ MarkXidDone(Background, bg.entry) /\ UNCHANGED <<checkpoint, named>>
    BY <1>1, <2>1 DEF BackgroundMark, diskVars, localVars
  <2> QED BY <2>0, <2>2, MarkQuiet
<1>2. CASE ~BackgroundMark
  <2>1. UNCHANGED <<checkpoint, named, mark, current_binlog_id, binlog_xid_count_list, xid_count>>
    BY <1>2 DEF Notifies, BackgroundQueue, QueueStep, FlushRedo, Purge, RecoverAborts, vars,
       diskVars, localVars, listVars
  <2> QED BY <2>1 DEF QuietCkpt
<1> QED BY <1>1, <1>2

(* Steps of that kind keep what the checkpoint events say.                 *)
LEMMA QuietKeepsCkpt ==
  ASSUME CountsInv, CkptInv, QuietCkpt
  PROVE  CkptInv' /\ checkpoint'[current_binlog_id'] = checkpoint[current_binlog_id]
<1>1. ThreadsInv /\ current_binlog_id \in Nat /\ named \in Nat /\ Files \subseteq Nat
  BY FilesAreNumbers, Constants DEF CountsInv, ThreadsInv, TypeInv, ListTypeInv
<1>2. ASSUME named # NoFile, NEW f \in Files, f < named PROVE xid_count'[f] = 0
  <2>1. xid_count[f] = 0 /\ f # current_binlog_id
    BY <1>1, <1>2 DEF CkptInv
  <2> QED BY <2>1 DEF QuietCkpt
<1> QED BY <1>2 DEF CkptInv, QuietCkpt

(* rotate() holds the current file's entry before it looks for the first   *)
(* file with a reason.                                                     *)
LEMMA RotateCkpt ==
  ASSUME CountsInv, CountsInv', CkptInv, NEW t \in Sessions, Rotate(t)
  PROVE  CkptInv' /\ checkpoint'[current_binlog_id'] = checkpoint[current_binlog_id]
<1>0. ThreadsInv /\ ThreadsInv' /\ xid_count \in [Files -> Nat]
  BY DEF CountsInv, PlacesInv
<1>1. /\ binlog_xid_count_list \in Seq(Files) /\ binlog_xid_count_list # <<>>
      /\ current_binlog_id \in Files /\ UpTo(binlog_xid_count_list, current_binlog_id)
  BY <1>0 DEF ThreadsInv, TypeInv, ListTypeInv, ListInv
<1>2. /\ server = "up" /\ server' = "up" /\ LOCK_log = t /\ pc[t] = "rotate"
      /\ named' = InitialCheckpoint(xid_count', current_binlog_id + 1)
      /\ UNCHANGED <<checkpoint, mark, current_binlog_id, binlog_xid_count_list>>
  BY DEF Rotate, At, diskVars, serverVars
<1>3. xid_count'[current_binlog_id] # 0
  BY <1>0, <1>1 DEF Rotate, Activated
<1>4. /\ named' \in Nat /\ Head(binlog_xid_count_list) <= named'
      /\ named' <= current_binlog_id
      /\ \A f \in Files : Head(binlog_xid_count_list) <= f /\ f < named' => xid_count'[f] = 0
  BY <1>1, <1>2, <1>3, InitialCheckpointNamed
<1>5. PICK where \in [Files -> Places] : CountInv(where)'
  BY DEF CountsInv, PlacesInv
<1>6. \A f \in Files : xid_count'[f] # 0 => Head(binlog_xid_count_list) <= f
  BY <1>2, <1>5 DEF CountInv
<1>7. \A m \in Markers : mark[m] # "write"
  BY <1>0, <1>2 DEF ThreadsInv, LocksInv
<1>8. \A f \in Files : f < named' => xid_count'[f] = 0
  BY <1>4, <1>6
<1> QED BY <1>2, <1>4, <1>7, <1>8 DEF CkptInv

(* rotate() fails.                                                         *)
LEMMA RotateFailsCkpt ==
  ASSUME CountsInv, CkptInv, NEW t \in Sessions, RotateFails(t)
  PROVE  CkptInv' /\ checkpoint'[current_binlog_id'] = checkpoint[current_binlog_id]
<1>1. ThreadsInv
  BY DEF CountsInv
<1>2. /\ pc[t] = "open" /\ named' = NoFile
      /\ UNCHANGED <<checkpoint, mark, current_binlog_id, binlog_xid_count_list>>
  BY DEF RotateFails, At, diskVars
<1>3. \A m \in Markers : mark[m] # "write"
  BY <1>1, <1>2 DEF ThreadsInv, LocksInv
<1> QED BY <1>2, <1>3 DEF CkptInv

(* open() writes the event of the new file, then links in its entry.       *)
LEMMA OpenNewCkpt ==
  ASSUME CountsInv, CkptInv, NEW t \in Sessions, OpenNew(t)
  PROVE  CkptInv' /\ checkpoint'[current_binlog_id'] >= checkpoint[current_binlog_id]
<1>0. ThreadsInv
  BY DEF CountsInv
<1>1. /\ binlog_xid_count_list \in Seq(Files) /\ binlog_xid_count_list # <<>>
      /\ current_binlog_id \in Files /\ UpTo(binlog_xid_count_list, current_binlog_id)
      /\ checkpoint \in [Files -> Files \cup {NoFile}] /\ named \in Nat
      /\ current_binlog_id \in Nat /\ checkpoint[current_binlog_id] \in Nat
  BY <1>0, FilesAreNumbers, Constants
  DEF ThreadsInv, TypeInv, ListTypeInv, CoordinatorTypeOK, ListInv
<1>2. /\ pc[t] = "open" /\ named' = NoFile /\ UNCHANGED mark
      /\ Linked(current_binlog_id + 1) /\ current_binlog_id' = current_binlog_id + 1
      /\ checkpoint' = [checkpoint EXCEPT ![current_binlog_id + 1] = named]
  BY DEF OpenNew, At, Linked
<1>3. named # NoFile /\ current_binlog_id + 1 \in Files
  BY <1>0, <1>1, <1>2, MaxFileAssumption DEF ThreadsInv, FilesInv, Files
<1>4. /\ Head(binlog_xid_count_list') \in Files
      /\ Head(binlog_xid_count_list) <= Head(binlog_xid_count_list')
      /\ Head(binlog_xid_count_list') <= current_binlog_id =>
           xid_count[Head(binlog_xid_count_list')] # 0
  BY <1>1, <1>2, <1>3, LinkedList
<1>5. PICK h \in Files : h = Head(binlog_xid_count_list') /\ h \in Nat
  BY <1>4, Constants
<1>6. named <= h
  BY <1>1, <1>3, <1>4, <1>5 DEF CkptInv
<1>7. checkpoint'[current_binlog_id'] = named
  BY <1>1, <1>2, <1>3
<1>8. \A m \in Markers : mark[m] # "write"
  BY <1>0, <1>2 DEF ThreadsInv, LocksInv
<1>9. checkpoint[current_binlog_id] <= named
  <2>1. PICK g \in Nat : g = Head(binlog_xid_count_list)
    BY <1>1, UpToElements, Constants
  <2> QED BY <1>1, <1>3, <2>1 DEF CkptInv
<1> QED BY <1>1, <1>2, <1>3, <1>5, <1>6, <1>7, <1>8, <1>9 DEF CkptInv

(* mark_xid_done() removes entries and is about to name the first one left. *)
LEMMA MarkLockCkpt ==
  ASSUME CountsInv, CountsInv', CkptInv, NEW t \in Markers, MarkLock(t)
  PROVE  CkptInv' /\ checkpoint'[current_binlog_id'] = checkpoint[current_binlog_id]
<1>0. ThreadsInv
  BY DEF CountsInv
<1>1. /\ binlog_xid_count_list \in Seq(Files) /\ binlog_xid_count_list # <<>>
      /\ current_binlog_id \in Files /\ UpTo(binlog_xid_count_list, current_binlog_id)
      /\ current_binlog_id \in Nat /\ checkpoint[current_binlog_id] \in Nat
  BY <1>0, FilesAreNumbers, Constants DEF ThreadsInv, TypeInv, ListTypeInv, ListInv
<1>2. /\ server = "up" /\ server' = "up" /\ Trimmed /\ named' = Head(binlog_xid_count_list')
      /\ UNCHANGED <<checkpoint, current_binlog_id, xid_count>>
  BY DEF MarkLock, diskVars, serverVars, Trimmed
<1>3. /\ Head(binlog_xid_count_list') \in Files
      /\ Head(binlog_xid_count_list) <= Head(binlog_xid_count_list')
      /\ Head(binlog_xid_count_list') <= current_binlog_id
  BY <1>1, <1>2, TrimmedList
<1>4. PICK g \in Nat, h \in Nat :
        g = Head(binlog_xid_count_list) /\ h = Head(binlog_xid_count_list')
  BY <1>1, <1>3, UpToElements, Constants
<1>5. PICK where \in [Files -> Places] : CountInv(where)'
  BY DEF CountsInv, PlacesInv
<1>6. \A f \in Files : f < h => xid_count'[f] = 0
  BY <1>2, <1>4, <1>5, Constants DEF CountInv
<1> QED BY <1>1, <1>2, <1>3, <1>4, <1>6 DEF CkptInv

(* The event is written while its writer holds LOCK_log.                   *)
LEMMA MarkWriteCkpt ==
  ASSUME CountsInv, CkptInv, NEW t \in Markers, MarkWrite(t)
  PROVE  CkptInv' /\ checkpoint'[current_binlog_id'] >= checkpoint[current_binlog_id]
<1>0. ThreadsInv
  BY DEF CountsInv
<1>1. /\ binlog_xid_count_list \in Seq(Files) /\ binlog_xid_count_list # <<>>
      /\ current_binlog_id \in Files /\ UpTo(binlog_xid_count_list, current_binlog_id)
      /\ checkpoint \in [Files -> Files \cup {NoFile}] /\ checkpoint[current_binlog_id] \in Nat
      /\ mark \in [Markers -> {"no", "lock", "write"}]
  BY <1>0, FilesAreNumbers, Constants
  DEF ThreadsInv, TypeInv, ListTypeInv, CoordinatorTypeOK, ListInv
<1>2. /\ mark[t] = "write" /\ named' = NoFile
      /\ checkpoint' = [checkpoint EXCEPT ![current_binlog_id] = named]
      /\ UNCHANGED <<current_binlog_id, binlog_xid_count_list>>
      /\ mark' = [mark EXCEPT ![t] = "no"]
  BY DEF MarkWrite, listVars
<1>3. named = Head(binlog_xid_count_list)
  BY <1>2 DEF CkptInv
<1>4. PICK g \in Files : g = Head(binlog_xid_count_list) /\ g \in Nat /\ g # NoFile
  BY <1>1, UpToElements, Constants
<1>5. checkpoint'[current_binlog_id] = g
  BY <1>1, <1>2, <1>3, <1>4
<1>6. \A m \in Markers : mark'[m] # "write"
  BY <1>0, <1>1, <1>2 DEF ThreadsInv, LocksInv
<1> QED BY <1>1, <1>2, <1>4, <1>5, <1>6 DEF CkptInv

(* A crash leaves the events alone; a restart opens a file that names      *)
(* itself.                                                                 *)
LEMMA RestartCkpt ==
  ASSUME CountsInv, CkptInv, Crash \/ Recover
  PROVE  CkptInv' /\ checkpoint'[current_binlog_id'] >= checkpoint[current_binlog_id]
<1>0. ThreadsInv
  BY DEF CountsInv
<1>1. CASE Crash
  <2>1. /\ named' = NoFile /\ mark' = [m \in Markers |-> "no"]
        /\ UNCHANGED <<checkpoint, current_binlog_id, binlog_xid_count_list>>
    BY <1>1 DEF Crash, listVars
  <2>2. checkpoint[current_binlog_id] \in Nat
    BY <1>0, FilesAreNumbers DEF ThreadsInv, TypeInv, ListTypeInv
  <2> QED BY <2>1, <2>2 DEF CkptInv
<1>2. CASE Recover
  <2>0. /\ checkpoint \in [Files -> Files \cup {NoFile}] /\ checkpoint[current_binlog_id] \in Nat
        /\ current_binlog_id \in Files /\ current_binlog_id \in Nat
        /\ binlog_xid_count_list \in Seq(Files) /\ binlog_xid_count_list # <<>>
        /\ UpTo(binlog_xid_count_list, current_binlog_id)
    BY <1>0, FilesAreNumbers, Constants
    DEF ThreadsInv, TypeInv, ListTypeInv, CoordinatorTypeOK, ListInv
  <2>1. Max(index) = current_binlog_id
    BY <1>0, LastFile
  <2>2. /\ server = "down" /\ UNCHANGED <<named, mark>>
        /\ checkpoint' = [checkpoint EXCEPT ![current_binlog_id + 1] = current_binlog_id + 1]
        /\ current_binlog_id' = current_binlog_id + 1
        /\ binlog_xid_count_list' = <<current_binlog_id + 1>>
    BY <1>2, <2>1 DEF Recover, Recovered, ListRestarted, localVars
  <2>3. named = NoFile /\ (\A m \in Markers : mark[m] = "no") /\ current_binlog_id + 1 \in Files
    BY <1>0, <2>0, <2>2, MaxFileAssumption DEF ThreadsInv, DownInv, Files
  <2>4. checkpoint'[current_binlog_id'] = current_binlog_id + 1
    BY <2>0, <2>2, <2>3
  <2>5. Head(binlog_xid_count_list') = current_binlog_id + 1
    BY <2>2
  <2>6. checkpoint[current_binlog_id] <= current_binlog_id
    <3>1. PICK g \in Nat : g = Head(binlog_xid_count_list) /\ g <= current_binlog_id
      BY <2>0, UpToElements, Constants
    <3> QED BY <2>0, <3>1 DEF CkptInv
  <2> QED BY <2>0, <2>2, <2>3, <2>4, <2>5, <2>6, Constants DEF CkptInv
<1> QED BY <1>1, <1>2

(* No step breaks what the events say, none names an earlier file.         *)
LEMMA NextCkpt ==
  ASSUME CountsInv, CountsInv', CkptInv, [Next]_vars
  PROVE  CkptInv' /\ checkpoint'[current_binlog_id'] >= checkpoint[current_binlog_id]
<1>0. checkpoint[current_binlog_id] \in Nat
  BY FilesAreNumbers DEF CountsInv, ThreadsInv, TypeInv, ListTypeInv
<1>1. CASE QuietCkpt
  BY <1>0, <1>1, QuietKeepsCkpt
<1>2. CASE \E t \in Trx : Transaction(t)
  BY <1>1, <1>2, SessionQuiet, Constants
<1>3. CASE \E t \in Sessions : Session(t)
  <2>1. PICK t \in Sessions : Session(t)
    BY <1>3
  <2>2. CASE Rotate(t) \/ OpenNew(t) \/ RotateFails(t)
    BY <1>0, <2>2, RotateCkpt, OpenNewCkpt, RotateFailsCkpt
  <2> QED BY <1>1, <2>1, <2>2, SessionQuiet DEF Session
<1>4. CASE \E t \in Markers : MarkStep(t)
  BY <1>0, <1>4, MarkLockCkpt, MarkWriteCkpt DEF MarkStep
<1>5. CASE Crash \/ Recover
  BY <1>5, RestartCkpt
<1>6. CASE \/ \E t \in Threads : Notifies(t)
           \/ BackgroundQueue \/ BackgroundMark \/ FlushRedo \/ Purge \/ RecoverAborts
           \/ UNCHANGED vars
  BY <1>1, <1>6, OthersQuiet
<1> QED BY <1>2, <1>3, <1>4, <1>5, <1>6 DEF Next, Finished

(* The first file names itself.                                            *)
LEMMA InitCkpt == ASSUME Init PROVE CkptInv
<1>1. /\ checkpoint = [f \in Files |-> IF f = 1 THEN 1 ELSE NoFile] /\ named = NoFile
      /\ mark = [m \in Markers |-> "no"]
      /\ current_binlog_id = 1 /\ binlog_xid_count_list = <<1>>
  BY DEF Init, ListInit
<1>2. 1 \in Files /\ NoFile = 0
  BY MaxFileAssumption DEF Files, NoFile
<1>3. checkpoint[current_binlog_id] = 1 /\ Head(binlog_xid_count_list) = 1
  BY <1>1, <1>2
<1> QED BY <1>1, <1>2, <1>3 DEF CkptInv

(* The last file of the index is the current one, after a step as before.  *)
LEMMA LastFileNext == ASSUME ThreadsInv' PROVE Max(index)' = current_binlog_id'
<1>1. /\ index' \in SUBSET Nat /\ Head(binlog_xid_count_list') \in index'
      /\ \A f \in index' : f <= current_binlog_id' /\ f .. current_binlog_id' \subseteq index'
      /\ current_binlog_id' \in Nat
  BY Constants DEF ThreadsInv, TypeInv, CoordinatorTypeOK, ListTypeInv, ListInv
<1>2. PICK h \in index' : h \in Nat /\ h <= current_binlog_id'
  BY <1>1
<1>3. current_binlog_id' \in index'
  BY <1>1, <1>2
<1> QED BY <1>1, <1>3, MaxNumber

(* Checkpoint events are logged in order: with an entry list that is       *)
(* trimmed by several threads and files that are opened meanwhile, no      *)
(* event names a file before the one that the last event has named, so     *)
(* that recovery is right to look at the last event only.                  *)
THEOREM CheckpointsOrdered == ASSUME OneEngine PROVE Spec => CheckpointsInOrder
<1>1. Init => CkptInv
  BY InitCkpt
<1>2. CountsInv /\ CountsInv' /\ CkptInv /\ [Next]_vars => CkptInv'
  BY NextCkpt
<1>3. CountsInv /\ CountsInv' /\ CkptInv /\ [Next]_vars =>
        [checkpoint'[Max(index')] >= checkpoint[Max(index)]]_vars
  BY NextCkpt, LastFile, LastFileNext DEF CountsInv
<1> QED BY <1>1, <1>2, <1>3, CountsInvariant, PTL DEF Spec, CheckpointsInOrder

----------------------------------------------------------------------------
(* The file that the last event names is there, but while somebody is in   *)
(* mark_xid_done().  Whoever counts the first entry down to zero goes on   *)
(* to write an event (Due), so that with nobody under way the last event   *)
(* names the first entry, and so does the event that open() writes.        *)
Due == \E m \in Markers : mark[m] = "lock"
Marking == \E m \in Markers : mark[m] # "no"

RenewInv ==
  server = "up" =>
    /\ \/ Due \/ Head(binlog_xid_count_list) = current_binlog_id
       \/ xid_count[Head(binlog_xid_count_list)] # 0
    /\ \/ Marking
       \/ /\ checkpoint[current_binlog_id] = Head(binlog_xid_count_list)
          /\ named # NoFile => named = Head(binlog_xid_count_list)

(* What most steps do: no call of mark_xid_done() ends, and who takes the  *)
(* first entry's count to zero begins one.                                 *)
QuietRenew ==
  /\ UNCHANGED <<server, checkpoint, binlog_xid_count_list, current_binlog_id, named>>
  /\ \A m \in Markers : mark[m] # "no" => mark'[m] = mark[m]
  /\ \/ Due' \/ Head(binlog_xid_count_list) = current_binlog_id
     \/ xid_count[Head(binlog_xid_count_list)] # 0 =>
          xid_count'[Head(binlog_xid_count_list)] # 0

LEMMA QuietKeepsRenew == ASSUME RenewInv, QuietRenew PROVE RenewInv'
BY DEF RenewInv, QuietRenew, Due, Marking

(* A call of mark_xid_done() that begins                                   *)
LEMMA MarkRenew ==
  ASSUME CountsInv, NEW m \in Markers, NEW f \in Files, MarkXidDone(m, f),
         mark[m] = "no", UNCHANGED <<server, checkpoint, named>>
  PROVE  QuietRenew
<1>1. xid_count \in [Files -> Nat] /\ mark \in [Markers -> {"no", "lock", "write"}]
  BY DEF CountsInv, PlacesInv, ThreadsInv, TypeInv, CoordinatorTypeOK
<1>2. /\ Decremented(f) /\ UNCHANGED <<current_binlog_id, binlog_xid_count_list>>
      /\ mark' = [mark EXCEPT ![m] = IF CheckpointDue(f) THEN "lock" ELSE "no"]
  BY DEF MarkXidDone
<1>3. \A v \in Markers : mark[v] # "no" => mark'[v] = mark[v]
  BY <1>1, <1>2
<1>4. PICK h \in Files : h = Head(binlog_xid_count_list)
  BY UpToElements DEF CountsInv, ThreadsInv, TypeInv, ListTypeInv, ListInv
<1>5. Due' \/ h = current_binlog_id \/ (xid_count[h] # 0 => xid_count'[h] # 0)
  <2>1. CASE CheckpointDue(f)
    BY <1>1, <1>2, <2>1 DEF Due
  <2>2. CASE ~CheckpointDue(f) /\ h # current_binlog_id /\ xid_count[h] # 0
    <3>1. CASE h # f
      BY <1>1, <1>2, <3>1 DEF Decremented
    <3>2. CASE h = f
      <4>1. xid_count[f] # 1 /\ xid_count[f] # 0 /\ xid_count[f] \in Nat
        BY <1>1, <1>4, <2>2, <3>2 DEF CheckpointDue
      <4>2. xid_count'[f] = xid_count[f] - 1
        BY <1>1, <1>2 DEF Decremented
      <4> QED BY <3>2, <4>1, <4>2
    <3> QED BY <3>1, <3>2
  <2> QED BY <2>1, <2>2
<1> QED BY <1>2, <1>3, <1>4, <1>5 DEF QuietRenew

LEMMA SessionRenew ==
  ASSUME CountsInv, NEW t \in Sessions,
         \/ t \in Trx /\ Transaction(t)
         \/ RotatorLockLog(t) \/ ReleaseLog(t) \/ CommitLock(t) \/ CommitUnlock(t)
         \/ RequestCheckpoint(t) \/ InnodbQueues(t) \/ Requested(t)
  PROVE  QuietRenew
<1>0. /\ ThreadsInv /\ xid_count \in [Files -> Nat] /\ t \in Markers
      /\ Head(binlog_xid_count_list) \in Files
  BY Constants, UpToElements
  DEF CountsInv, PlacesInv, ThreadsInv, TypeInv, ListTypeInv, ListInv
<1>b. binlog_id[t] \in Files \cup {NoFile} /\ (t \in Trx => file[t] \in Files \cup {NoFile})
  BY <1>0 DEF ThreadsInv, TypeInv, CoordinatorTypeOK
<1>1. CASE \/ Prepare(t) \/ LeaderLockLog(t) \/ NoRotate(t) \/ CommitOrdered(t)
           \/ CommitEngine(t)
           \/ \E u \in Trx : LeaderWrite(t, u)
           \/ RotatorLockLog(t) \/ ReleaseLog(t) \/ CommitLock(t) \/ CommitUnlock(t)
           \/ InnodbQueues(t)
  <2>1. UNCHANGED <<server, checkpoint, named, mark, listVars>>
    BY <1>1 DEF Prepare, LeaderLockLog, NoRotate, CommitOrdered, CommitEngine, LeaderWrite,
       RotatorLockLog, ReleaseLog, CommitLock, CommitUnlock, InnodbQueues, WriteEvents,
       diskVars, localVars, serverVars
  <2> QED BY <2>1 DEF QuietRenew, listVars
<1>2. CASE (t \in Trx /\ LeaderSync(t)) \/ RequestCheckpoint(t)
  <2>1. UNCHANGED <<server, checkpoint, named, mark, current_binlog_id, binlog_xid_count_list>>
    BY <1>2 DEF LeaderSync, RequestCheckpoint, diskVars, localVars, serverVars
  <2>2. \A f \in Files : xid_count[f] # 0 => xid_count'[f] # 0
    <3>1. CASE t \in Trx /\ LeaderSync(t)
      <4>1. PICK n : xid_count' = [xid_count EXCEPT ![binlog_id[t]] = @ + n] /\ n \in Nat
        <5>1. ToSet(group[t]) \cap NeedUnlog \subseteq Sessions
          BY XaAssumption DEF Sessions
        <5>2. Cardinality(ToSet(group[t]) \cap NeedUnlog) \in Nat
          BY <5>1, SessionSets
        <5> QED BY <3>1, <5>2 DEF LeaderSync, Activated
      <4> QED BY <1>0, <4>1
    <3>2. CASE RequestCheckpoint(t)
      BY <1>0, <3>2 DEF RequestCheckpoint, Activated
    <3> QED BY <1>2, <3>1, <3>2
  <2> QED BY <1>0, <2>1, <2>2 DEF QuietRenew
<1>4. CASE Requested(t)
  <2>1. check_purge[t] /\ mark[t] = "no"
    BY <1>0, <1>4 DEF Requested, At, ThreadsInv, FilesInv
  <2>2. binlog_id[t] \in Files
    BY <1>0, <2>1, RotatedFile
  <2>3. MarkXidDone(t, binlog_id[t]) /\ UNCHANGED <<server, checkpoint, named>>
    BY <1>4 DEF Requested, diskVars, localVars, serverVars
  <2> QED BY <1>0, <2>1, <2>2, <2>3, MarkRenew
<1>5. CASE t \in Trx /\ Unlog(t)
  <2>1. file[t] # NoFile /\ mark[t] = "no"
    BY <1>0, <1>5 DEF Unlog, At, ThreadsInv, TrxInv, TrxOK
  <2>2. file[t] \in Files
    BY <1>5, <1>b, <2>1
  <2>3. MarkXidDone(t, file[t]) /\ UNCHANGED <<server, checkpoint, named>>
    BY <1>5 DEF Unlog, diskVars, localVars, serverVars
  <2> QED BY <1>0, <2>1, <2>2, <2>3, MarkRenew
<1>6. CASE t \in Trx /\ Transaction(t)
  BY <1>1, <1>2, <1>5, <1>6 DEF Transaction
<1> QED BY <1>1, <1>2, <1>4, <1>6

LEMMA OthersRenew ==
  ASSUME CountsInv,
         \/ \E t \in Threads : Notifies(t)
         \/ BackgroundQueue \/ BackgroundMark \/ FlushRedo \/ Purge
         \/ UNCHANGED vars
  PROVE  QuietRenew
<1>1. CASE BackgroundMark
  <2>0. Background \in Markers
    BY Constants
  <2>1. bg.times > 0 => bg.entry \in Files
    <3>1. PICK where \in [Files -> Places] : QueueInv(where)
      BY DEF CountsInv, PlacesInv
    <3>2. bg.entry \in Files \cup {NoFile}
      BY DEF CountsInv, ThreadsInv, TypeInv, QueueTypeOK
    <3> QED BY <3>1, <3>2 DEF QueueInv
  <2>2. /\ bg.entry \in Files /\ mark[Background] = "no"
        /\ MarkXidDone(Background, bg.entry) /\ UNCHANGED <<server, checkpoint, named>>
    BY <1>1, <2>1 DEF BackgroundMark, diskVars, localVars, serverVars
  <2> QED BY <2>0, <2>2, MarkRenew
<1>2. CASE ~BackgroundMark
  <2>1. UNCHANGED <<server, checkpoint, named, mark, current_binlog_id,
                    binlog_xid_count_list, xid_count>>
    BY <1>2 DEF Notifies, BackgroundQueue, QueueStep, FlushRedo, Purge, vars,
       diskVars, localVars, listVars, serverVars
  <2> QED BY <2>1 DEF QuietRenew
<1> QED BY <1>1, <1>2

(* rotate() looks for the first entry with a count: with nobody on the way *)
(* to remove entries that is the first one.                                *)
LEMMA RotateRenew ==
  ASSUME CountsInv, RenewInv, NEW t \in Sessions, Rotate(t)
  PROVE  RenewInv'
<1>0. ThreadsInv /\ xid_count \in [Files -> Nat]
  BY DEF CountsInv, PlacesInv
<1>1. /\ binlog_xid_count_list \in Seq(Files) /\ binlog_xid_count_list # <<>>
      /\ current_binlog_id \in Files /\ UpTo(binlog_xid_count_list, current_binlog_id)
  BY <1>0 DEF ThreadsInv, TypeInv, ListTypeInv, ListInv
<1>2. /\ server = "up" /\ LOCK_log = t /\ xid_count' = [xid_count EXCEPT ![current_binlog_id] = @ + 1]
      /\ named' = InitialCheckpoint(xid_count', current_binlog_id + 1)
      /\ UNCHANGED <<server, checkpoint, mark, current_binlog_id, binlog_xid_count_list>>
  BY DEF Rotate, At, diskVars, serverVars, Activated
<1>3. PICK h \in Files : h = Head(binlog_xid_count_list) /\ h \in Nat
  BY <1>1, UpToElements, Constants
<1>4. xid_count[h] # 0 \/ h = current_binlog_id => xid_count'[h] # 0
  BY <1>0, <1>1, <1>2
<1>5. /\ named' \in Nat /\ h <= named'
      /\ \A f \in Files : h <= f /\ f < named' => xid_count'[f] = 0
  BY <1>1, <1>2, <1>3, InitialCheckpointNamed
<1>6. xid_count'[h] # 0 => named' = h
  BY <1>3, <1>5
<1>7. Marking => Due
  <2>1. mark[t] = "no" /\ mark \in [Markers -> {"no", "lock", "write"}]
    BY <1>0 DEF Rotate, At, ThreadsInv, TypeInv, CoordinatorTypeOK
  <2>2. \A m \in Markers : mark[m] = "write" => LOCK_log = m
    BY <1>0 DEF ThreadsInv, LocksInv
  <2>3. ASSUME NEW m \in Markers, mark[m] # "no" PROVE mark[m] = "lock"
    BY <1>2, <2>1, <2>2, <2>3
  <2> QED BY <2>3 DEF Marking, Due
<1> QED BY <1>2, <1>3, <1>4, <1>6, <1>7 DEF RenewInv, Due, Marking

(* The current file's count goes back.                                     *)
LEMMA RotateFailsRenew ==
  ASSUME CountsInv, RenewInv, NEW t \in Sessions, RotateFails(t)
  PROVE  RenewInv'
<1>0. /\ ThreadsInv /\ xid_count \in [Files -> Nat] /\ current_binlog_id \in Files
  BY DEF CountsInv, PlacesInv, ThreadsInv, TypeInv, ListTypeInv
<1>1. /\ pc[t] = "open" /\ Decremented(binlog_id[t]) /\ named' = NoFile
      /\ UNCHANGED <<server, checkpoint, mark, current_binlog_id, binlog_xid_count_list>>
  BY DEF RotateFails, At, diskVars, serverVars
<1>2. binlog_id[t] = current_binlog_id
  BY <1>0, <1>1 DEF ThreadsInv, FilesInv
<1>3. PICK h \in Files : h = Head(binlog_xid_count_list)
  BY <1>0, UpToElements DEF ThreadsInv, TypeInv, ListTypeInv, ListInv
<1>4. h # current_binlog_id => xid_count'[h] = xid_count[h]
  BY <1>0, <1>1, <1>2 DEF Decremented
<1> QED BY <1>1, <1>3, <1>4 DEF RenewInv, Due, Marking

(* open() removes entries: the one that its event names only if somebody   *)
(* waits to remove it.                                                     *)
LEMMA OpenNewRenew ==
  ASSUME CountsInv, RenewInv, NEW t \in Sessions, OpenNew(t)
  PROVE  RenewInv'
<1>0. ThreadsInv
  BY DEF CountsInv
<1>1. /\ binlog_xid_count_list \in Seq(Files) /\ binlog_xid_count_list # <<>>
      /\ current_binlog_id \in Files /\ UpTo(binlog_xid_count_list, current_binlog_id)
      /\ checkpoint \in [Files -> Files \cup {NoFile}] /\ current_binlog_id \in Nat
  BY <1>0, FilesAreNumbers, Constants
  DEF ThreadsInv, TypeInv, ListTypeInv, CoordinatorTypeOK, ListInv
<1>2. /\ server = "up" /\ pc[t] = "open" /\ named' = NoFile /\ UNCHANGED <<mark, xid_count>>
      /\ Linked(current_binlog_id + 1) /\ current_binlog_id' = current_binlog_id + 1
      /\ checkpoint' = [checkpoint EXCEPT ![current_binlog_id + 1] = named]
  BY DEF OpenNew, At, Linked
<1>3. /\ named # NoFile /\ current_binlog_id + 1 \in Files
      /\ binlog_id[t] = current_binlog_id
  BY <1>0, <1>1, <1>2, MaxFileAssumption DEF ThreadsInv, FilesInv, Files
<1>4. PICK g \in Files, h \in Files :
        /\ g = Head(binlog_xid_count_list) /\ h = Head(binlog_xid_count_list')
        /\ g \in Nat /\ h \in Nat /\ g <= h /\ h <= current_binlog_id + 1
        /\ g < h => xid_count[g] = 0
        /\ h <= current_binlog_id => xid_count[h] # 0
  <2>1. /\ Head(binlog_xid_count_list') \in Files
        /\ Head(binlog_xid_count_list) <= Head(binlog_xid_count_list')
        /\ Head(binlog_xid_count_list') <= current_binlog_id + 1
        /\ \A f \in Files : /\ Head(binlog_xid_count_list) <= f
                            /\ f < Head(binlog_xid_count_list')
                            => xid_count[f] = 0
        /\ Head(binlog_xid_count_list') <= current_binlog_id =>
             xid_count[Head(binlog_xid_count_list')] # 0
    BY <1>1, <1>2, <1>3, LinkedList
  <2>2. PICK g \in Files : g = Head(binlog_xid_count_list) /\ g \in Nat
    BY <1>1, UpToElements, Constants
  <2>3. PICK h \in Files : h = Head(binlog_xid_count_list') /\ h \in Nat
    BY <2>1, Constants
  <2>4. g <= h /\ (g < h => xid_count[g] = 0)
    BY <2>1, <2>2, <2>3
  <2> QED BY <2>1, <2>2, <2>3, <2>4
<1>5. xid_count[current_binlog_id] # 0
  <2>1. PICK where \in [Files -> Places] : CountInv(where)
    BY DEF CountsInv, PlacesInv
  <2>2. t \in Holding(current_binlog_id)
    BY <1>2, <1>3 DEF Holding
  <2> QED BY <1>1, <1>2, <2>1, <2>2, ReasonCounts
<1>6. checkpoint'[current_binlog_id'] = named
  BY <1>1, <1>2, <1>3
<1>7. h = current_binlog_id' \/ xid_count'[h] # 0
  BY <1>1, <1>2, <1>4
<1>8. ~Marking => named = h
  <2> SUFFICES ASSUME ~Marking PROVE named = h
    OBVIOUS
  <2>1. named = g /\ ~Due
    BY <1>2, <1>3, <1>4 DEF RenewInv, Marking, Due
  <2>2. xid_count[g] # 0
    BY <1>2, <1>4, <1>5, <2>1 DEF RenewInv
  <2> QED BY <1>4, <2>1, <2>2
<1>9. (Due <=> Due') /\ (Marking <=> Marking')
  BY <1>2 DEF Due, Marking
<1> QED BY <1>2, <1>4, <1>6, <1>7, <1>8, <1>9 DEF RenewInv

(* mark_xid_done() leaves a first entry with a count, or the current one,  *)
LEMMA MarkLockRenew ==
  ASSUME CountsInv, NEW t \in Markers, MarkLock(t)
  PROVE  RenewInv'
<1>0. ThreadsInv
  BY DEF CountsInv
<1>1. /\ binlog_xid_count_list \in Seq(Files) /\ binlog_xid_count_list # <<>>
      /\ current_binlog_id \in Files /\ UpTo(binlog_xid_count_list, current_binlog_id)
      /\ mark \in [Markers -> {"no", "lock", "write"}]
  BY <1>0 DEF ThreadsInv, TypeInv, ListTypeInv, CoordinatorTypeOK, ListInv
<1>2. /\ Trimmed /\ mark' = [mark EXCEPT ![t] = "write"]
      /\ UNCHANGED <<current_binlog_id, xid_count>>
  BY DEF MarkLock, Trimmed
<1>3. \/ Head(binlog_xid_count_list') = current_binlog_id
      \/ xid_count[Head(binlog_xid_count_list')] # 0
  BY <1>1, <1>2, TrimmedList
<1>4. Marking'
  BY <1>1, <1>2 DEF Marking
<1> QED BY <1>2, <1>3, <1>4 DEF RenewInv

(* and names it.                                                           *)
LEMMA MarkWriteRenew ==
  ASSUME CountsInv, CkptInv, RenewInv, NEW t \in Markers, MarkWrite(t)
  PROVE  RenewInv'
<1>0. ThreadsInv
  BY DEF CountsInv
<1>1. /\ current_binlog_id \in Files /\ checkpoint \in [Files -> Files \cup {NoFile}]
      /\ mark \in [Markers -> {"no", "lock", "write"}]
  BY <1>0 DEF ThreadsInv, TypeInv, ListTypeInv, CoordinatorTypeOK
<1>2. /\ server = "up" /\ mark[t] = "write" /\ named' = NoFile
      /\ checkpoint' = [checkpoint EXCEPT ![current_binlog_id] = named]
      /\ UNCHANGED <<current_binlog_id, binlog_xid_count_list, xid_count>>
      /\ mark' = [mark EXCEPT ![t] = "no"]
  BY DEF MarkWrite, listVars
<1>3. named = Head(binlog_xid_count_list)
  BY <1>2 DEF CkptInv
<1>4. checkpoint'[current_binlog_id'] = Head(binlog_xid_count_list')
  BY <1>1, <1>2, <1>3
<1>5. Due => Due'
  BY <1>1, <1>2 DEF Due
<1> QED BY <1>2, <1>4, <1>5 DEF RenewInv

(* A restart opens a file that names itself, with nobody under way.        *)
LEMMA RecoverRenew ==
  ASSUME CountsInv, Recover
  PROVE  RenewInv'
<1>0. ThreadsInv
  BY DEF CountsInv
<1>1. checkpoint \in [Files -> Files \cup {NoFile}] /\ current_binlog_id \in Files
      /\ current_binlog_id \in Nat
  BY <1>0, Constants DEF ThreadsInv, TypeInv, ListTypeInv, CoordinatorTypeOK
<1>2. Max(index) = current_binlog_id
  BY <1>0, LastFile
<1>3. /\ server = "down" /\ UNCHANGED <<named, mark>>
      /\ checkpoint' = [checkpoint EXCEPT ![current_binlog_id + 1] = current_binlog_id + 1]
      /\ current_binlog_id' = current_binlog_id + 1
      /\ binlog_xid_count_list' = <<current_binlog_id + 1>>
  BY <1>2 DEF Recover, Recovered, ListRestarted, localVars
<1>4. named = NoFile /\ current_binlog_id + 1 \in Files
  BY <1>0, <1>1, <1>3, MaxFileAssumption DEF ThreadsInv, DownInv, Files
<1>5. /\ checkpoint'[current_binlog_id'] = current_binlog_id + 1
      /\ Head(binlog_xid_count_list') = current_binlog_id + 1
  BY <1>1, <1>3, <1>4
<1> QED BY <1>3, <1>4, <1>5 DEF RenewInv

LEMMA NextRenew ==
  ASSUME CountsInv, CkptInv, RenewInv, [Next]_vars
  PROVE  RenewInv'
<1>1. CASE QuietRenew
  BY <1>1, QuietKeepsRenew
<1>2. CASE \E t \in Trx : Transaction(t)
  BY <1>1, <1>2, SessionRenew, Constants
<1>3. CASE \E t \in Sessions : Session(t)
  <2>1. PICK t \in Sessions : Session(t)
    BY <1>3
  <2>2. CASE Rotate(t) \/ OpenNew(t) \/ RotateFails(t)
    BY <2>2, RotateRenew, OpenNewRenew, RotateFailsRenew
  <2> QED BY <1>1, <2>1, <2>2, SessionRenew DEF Session
<1>4. CASE \E t \in Markers : MarkStep(t)
  BY <1>4, MarkLockRenew, MarkWriteRenew DEF MarkStep
<1>5. CASE Crash \/ RecoverAborts
  BY <1>5 DEF Crash, RecoverAborts, RenewInv
<1>6. CASE \/ \E t \in Threads : Notifies(t)
           \/ BackgroundQueue \/ BackgroundMark \/ FlushRedo \/ Purge
           \/ UNCHANGED vars
  BY <1>1, <1>6, OthersRenew
<1>7. CASE Recover
  BY <1>7, RecoverRenew
<1> QED BY <1>2, <1>3, <1>4, <1>5, <1>6, <1>7 DEF Next, Finished

LEMMA InitRenew == ASSUME Init PROVE RenewInv
<1>1. /\ checkpoint = [f \in Files |-> IF f = 1 THEN 1 ELSE NoFile] /\ named = NoFile
      /\ current_binlog_id = 1 /\ binlog_xid_count_list = <<1>>
  BY DEF Init, ListInit
<1>2. 1 \in Files
  BY MaxFileAssumption DEF Files
<1>3. checkpoint[current_binlog_id] = 1 /\ Head(binlog_xid_count_list) = 1
  BY <1>1, <1>2
<1> QED BY <1>1, <1>3 DEF RenewInv

(* While the server is up the file that the last checkpoint event names    *)
(* can be missing from the index only as long as a call of mark_xid_done() *)
(* is between its first hold of LOCK_xid_list and the sync of the event it *)
(* writes: no purge takes a file that recovery needs at any other moment,  *)
(* however many rotations and notifications are under way.                 *)
THEOREM CheckpointRenewal == ASSUME OneEngine PROVE Spec => []CheckpointRenewed
<1>1. Init => CkptInv /\ RenewInv
  BY InitCkpt, InitRenew
<1>2. CountsInv /\ CountsInv' /\ CkptInv /\ RenewInv /\ [Next]_vars => CkptInv' /\ RenewInv'
  BY NextCkpt, NextRenew
<1>3. ASSUME CountsInv, RenewInv PROVE CheckpointRenewed
  <2>1. SUFFICES ASSUME server = "up", ~Marking PROVE CanScan
    BY DEF CheckpointRenewed, Marking
  <2>2. Head(binlog_xid_count_list) \in index /\ Max(index) = current_binlog_id
    BY <1>3, LastFile DEF CountsInv, ThreadsInv, ListInv
  <2>3. checkpoint[current_binlog_id] = Head(binlog_xid_count_list)
    BY <1>3, <2>1 DEF RenewInv
  <2> QED BY <2>2, <2>3 DEF CanScan
<1> QED BY <1>1, <1>2, <1>3, CountsInvariant, PTL DEF Spec

----------------------------------------------------------------------------
(* The third part: what is durable when a count is zero.  It holds because *)
(* whoever rotates asks for the checkpoint only behind the groups that are *)
(* written before, for which every rotating session has to take the two    *)
(* mutexes of the commit order.                                            *)
Ordering == ChecksumSetters = {}

(* A session at a is, in the commit order, behind one at b.                *)
Behind(a, b) ==
  \/ b \in {"request", "flush"}
  \/ b = "commit" /\ a # "commit"
  \/ b = "order" /\ a \notin {"order", "commit"}

(* The group of a leader behind one that has rotated is in a later file.   *)
OrderInv ==
  \A r, l \in Sessions, t \in Trx :
    check_purge[r] /\ Behind(pc[l], pc[r]) /\ Contains(group[l], t) =>
      binlog_id[r] < binlog_id[l]

FlushedTo(t, n) ==
  engine[t] = "committed" /\ \A i \in DOMAIN redo : redo[i] = t => i <= n

WillAsk(f) == \E r \in Sessions : check_purge[r] /\ binlog_id[r] = f /\ to_ask[r] # <<>>

(* A checkpoint will cover t, or t is flushed.                             *)
Covered(t) ==
  \/ WillAsk(file[t])
  \/ \E r \in Sessions : /\ seen[r] # NoLsn /\ binlog_id[r] = file[t]
                         /\ FlushedTo(t, seen[r].lsn)
  \/ \E i \in DOMAIN log_requests : /\ log_requests[i].cookie = file[t]
                                    /\ FlushedTo(t, log_requests[i].lsn)
  \/ FlushedTo(t, flushed_lsn)

DurableInv ==
  server = "up" => \A t \in Trx :
    t \notin NeedUnlog /\ file[t] # NoFile /\ file[t] < current_binlog_id => Covered(t)

(* Nobody announces more than is flushed.                                  *)
PositionsInv ==
  \A t \in Threads : /\ seen[t] # NoLsn => seen[t].flushed <= flushed_lsn
                     /\ flush_notify[t] # NoLsn => flush_notify[t].to <= flushed_lsn

(* What is rolled back is not logged; while the server is down, what is    *)
(* logged and prepared will be found.                                      *)
OutcomeInv ==
  \A t \in Trx :
    /\ engine[t] = "rolled back" => file[t] = NoFile
    /\ server = "down" /\ engine[t] = "prepared" /\ file[t] # NoFile =>
         file[t] \in index /\ checkpoint[current_binlog_id] <= file[t]

RecoveryInv == OrderInv /\ DurableInv /\ PositionsInv /\ OutcomeInv

(* The commit order, when a session moves on and nothing else changes.     *)
LEMMA MoveOrder ==
  ASSUME OrderInv, NEW t \in Sessions, \A v \in Sessions : v # t => pc'[v] = pc[v],
         UNCHANGED <<group, binlog_id, check_purge>>,
         \A l \in Sessions, u \in Trx :
           check_purge[t] /\ Contains(group[l], u) /\ l # t /\ Behind(pc[l], pc'[t]) =>
             Behind(pc[l], pc[t]),
         \A r \in Sessions, u \in Trx :
           check_purge[r] /\ Contains(group[t], u) /\ r # t /\ Behind(pc'[t], pc[r]) =>
             Behind(pc[t], pc[r]),
         \A u \in Trx : Contains(group[t], u) => pc'[t] \notin {"request", "flush"}
  PROVE  OrderInv'
<1> SUFFICES ASSUME NEW r \in Sessions, NEW l \in Sessions, NEW u \in Trx,
                    check_purge'[r], Behind(pc'[l], pc'[r]), Contains(group'[l], u)
             PROVE  binlog_id'[r] < binlog_id'[l]
  BY DEF OrderInv, Behind
<1>0. check_purge[r] /\ Contains(group[l], u)
  OBVIOUS
<1>1. CASE r = t /\ l = t
  BY <1>1, <1>0 DEF Behind
<1>2. CASE r = t /\ l # t
  BY <1>2, <1>0 DEF OrderInv
<1>3. CASE r # t /\ l = t
  BY <1>3, <1>0 DEF OrderInv
<1>4. CASE r # t /\ l # t
  BY <1>4, <1>0 DEF OrderInv
<1> QED BY <1>1, <1>2, <1>3, <1>4

(* Nobody is found in the group of a session that does not commit one.     *)
LEMMA EmptyGroup ==
  ASSUME ThreadsInv, NEW t \in Sessions, pc[t] \notin Committing \/ t \in Rotators
  PROVE  \A u \in Trx : ~Contains(group[t], u)
BY Constants DEF ThreadsInv, GroupInv

(* The steps of the sessions keep the commit order.                        *)
LEMMA SessionOrder ==
  ASSUME Ordering, ThreadsInv, OrderInv, NEW t \in Sessions,
         \/ NoRotate(t) \/ Rotate(t) \/ RotateFails(t) \/ ReleaseLog(t) \/ CommitLock(t)
         \/ CommitUnlock(t) \/ RequestCheckpoint(t) \/ InnodbQueues(t) \/ Requested(t)
         \/ Prepare(t) \/ LeaderSync(t) \/ CommitEngine(t) \/ Unlog(t)
  PROVE  OrderInv'
<1>t. pc \in [Sessions -> Labels] /\ group \in [Sessions -> Seq(Trx)]
  BY DEF ThreadsInv, TypeInv, CoordinatorTypeOK
<1>d. UNCHANGED <<group, binlog_id, check_purge>>
  BY DEF NoRotate, Rotate, RotateFails, ReleaseLog, CommitLock, CommitUnlock,
     RequestCheckpoint, InnodbQueues, Requested, Prepare, LeaderSync, CommitEngine, Unlog,
     localVars
<1>m. OrderInv /\ t \in Sessions
  OBVIOUS
<1>1. CASE NoRotate(t) \/ Rotate(t) \/ RotateFails(t) \/ LeaderSync(t)
  <2>1. /\ pc[t] \in {"write", "rotate", "open"} /\ pc'[t] \in {"rotate", "open", "after"}
        /\ \A v \in Sessions : v # t => pc'[v] = pc[v]
    BY <1>1, <1>t DEF NoRotate, Rotate, RotateFails, LeaderSync, At, Goto
  <2>2. ~check_purge[t]
    BY <2>1 DEF ThreadsInv, FilesInv
  <2> QED BY <1>d, <2>1, <2>2, MoveOrder DEF Behind
<1>2. CASE Prepare(t) \/ CommitEngine(t) \/ Unlog(t) \/ Requested(t)
  <2>1. /\ pc[t] \in {"prepare", "ordered", "unlog", "request"}
        /\ pc'[t] \in {"queue", "unlog", "acked", "ordered", "end"}
        /\ \A v \in Sessions : v # t => pc'[v] = pc[v]
    BY <1>2, <1>t DEF Prepare, CommitEngine, Unlog, Requested, At, Goto
  <2>2. \A u \in Trx : ~Contains(group[t], u)
    BY <2>1, EmptyGroup DEF Committing
  <2> QED BY <1>d, <2>1, <2>2, MoveOrder DEF Behind
<1>3. CASE RequestCheckpoint(t) \/ InnodbQueues(t)
  <2>1. /\ pc[t] \in {"request", "flush"}
        /\ pc'[t] \in {"request", "flush"}
        /\ \A v \in Sessions : v # t => pc'[v] = pc[v]
    BY <1>3, <1>t DEF RequestCheckpoint, InnodbQueues, At, Goto
  <2>2. \A u \in Trx : ~Contains(group[t], u)
    BY <2>1, EmptyGroup DEF Committing
  <2> QED BY <1>d, <2>1, <2>2, MoveOrder DEF Behind
<1>4. CASE ReleaseLog(t)
  <2>1. /\ pc[t] = "after" /\ pc'[t] = "order"
        /\ \A v \in Sessions : v # t => pc'[v] = pc[v]
    BY <1>4, <1>t DEF ReleaseLog, At, Goto, Ordering
  <2>2. \A l \in Sessions : l # t => pc[l] \notin {"write", "open", "after"}
                                     /\ (l \in Trx => pc[l] # "rotate")
    BY <2>1 DEF ThreadsInv, LocksInv
  <2>3. \A l \in Sessions, u \in Trx : Contains(group[l], u) => l \in Trx /\ pc[l] \in Committing
    BY DEF ThreadsInv, GroupInv
  <2>4. \A l \in Sessions, u \in Trx : Contains(group[l], u) /\ l # t => pc[l] \in {"order", "commit"}
    BY <2>2, <2>3 DEF Committing
  <2> QED BY <1>d, <2>1, <2>4, MoveOrder DEF Behind
<1>5. CASE CommitLock(t)
  <2>1. /\ pc[t] = "order" /\ pc'[t] = "commit"
        /\ \A v \in Sessions : v # t => pc'[v] = pc[v]
    BY <1>5, <1>t DEF CommitLock, At, Goto
  <2>2. \A l \in Sessions : l # t => pc[l] # "order"
    BY <2>1 DEF ThreadsInv, LocksInv
  <2> QED BY <1>d, <2>1, <2>2, MoveOrder DEF Behind
<1>6. CASE CommitUnlock(t)
  <2>1. /\ pc[t] = "commit" /\ pc'[t] \in {"request", "ordered", "end"}
        /\ \A v \in Sessions : v # t => pc'[v] = pc[v]
        /\ group[t] = <<>>
    BY <1>6, <1>t DEF CommitUnlock, At, Goto
  <2>2. \A l \in Sessions : l # t => pc[l] # "commit"
    BY <2>1 DEF ThreadsInv, LocksInv
  <2>3. \A u \in Trx : ~Contains(group[t], u)
    BY <2>1, EmptyList
  <2> QED BY <1>d, <2>1, <2>2, <2>3, MoveOrder DEF Behind
<1> QED BY <1>1, <1>2, <1>3, <1>4, <1>5, <1>6

(* A new leader is in the current file, behind all that have rotated.      *)
LEMMA LeaderOrder ==
  ASSUME ThreadsInv, OrderInv, NEW t \in Trx, LeaderLockLog(t) \/ \E u \in Trx : LeaderWrite(t, u)
  PROVE  OrderInv'
<1>t. /\ pc \in [Sessions -> Labels] /\ group \in [Sessions -> Seq(Trx)] /\ t \in Sessions
      /\ binlog_id \in [Sessions -> Files \cup {NoFile}] /\ UNCHANGED check_purge
  BY Constants DEF ThreadsInv, TypeInv, CoordinatorTypeOK, LeaderLockLog, LeaderWrite, localVars
<1>f. \A r \in Sessions : check_purge[r] => binlog_id[r] < current_binlog_id
                          /\ pc[r] \notin {"queue", "write"}
  BY DEF ThreadsInv, FilesInv
<1>1. CASE LeaderLockLog(t)
  <2>1. /\ pc[t] = "queue" /\ pc'[t] = "write" /\ binlog_id'[t] = current_binlog_id
        /\ \A v \in Sessions : v # t => /\ pc'[v] = pc[v] /\ group'[v] = group[v]
                                        /\ binlog_id'[v] = binlog_id[v]
    BY <1>1, <1>t DEF LeaderLockLog, At, Goto
  <2>2. ~check_purge[t]
    BY <1>f, <1>t, <2>1
  <2> QED BY <1>t, <1>f, <2>1, <2>2 DEF OrderInv, Behind
<1>2. ASSUME NEW u \in Trx, LeaderWrite(t, u) PROVE OrderInv'
  <2>0. u \in Sessions
    BY Constants
  <2>1. /\ pc[t] = "write" /\ pc[u] = "queue" /\ pc'[u] = "grouped" /\ UNCHANGED binlog_id
        /\ \A v \in Sessions : v # u => pc'[v] = pc[v]
        /\ \A v \in Sessions : v # t => group'[v] = group[v]
    BY <1>2, <2>0, <1>t DEF LeaderWrite, At, Goto, localVars
  <2>2. ~check_purge[u] /\ ~check_purge[t]
    BY <1>f, <1>t, <2>0, <2>1
  <2>3. Contains(group[t], t)
    BY <2>1 DEF ThreadsInv, TrxInv, TrxOK
  <2>4. \A x \in Trx : ~Contains(group[u], x)
    BY <2>0, <2>1, EmptyGroup DEF Committing
  <2> QED BY <1>t, <2>1, <2>2, <2>3, <2>4 DEF OrderInv, Behind
<1> QED BY <1>1, <1>2

(* A rotating session takes LOCK_log; a rotation comes to its end.         *)
LEMMA RotatorOrder ==
  ASSUME ThreadsInv, OrderInv, NEW t \in Sessions, RotatorLockLog(t) \/ OpenNew(t)
  PROVE  OrderInv'
<1>t. /\ pc \in [Sessions -> Labels] /\ check_purge \in [Sessions -> BOOLEAN]
      /\ binlog_id \in [Sessions -> Files \cup {NoFile}] /\ UNCHANGED group
  BY DEF ThreadsInv, TypeInv, CoordinatorTypeOK, RotatorLockLog, OpenNew
<1>1. CASE RotatorLockLog(t)
  <2>1. /\ t \in Rotators /\ pc[t] = "rotate" /\ UNCHANGED <<pc, check_purge>>
        /\ \A v \in Sessions : v # t => binlog_id'[v] = binlog_id[v]
    BY <1>1, <1>t DEF RotatorLockLog, At
  <2>2. ~check_purge[t] /\ \A u \in Trx : ~Contains(group[t], u)
    BY <2>1, EmptyGroup DEF ThreadsInv, FilesInv
  <2> QED BY <1>t, <2>1, <2>2 DEF OrderInv, Behind
<1>2. CASE OpenNew(t)
  <2>1. /\ pc[t] = "open" /\ pc'[t] = "after" /\ UNCHANGED binlog_id
        /\ \A v \in Sessions : v # t => pc'[v] = pc[v] /\ check_purge'[v] = check_purge[v]
    BY <1>2, <1>t DEF OpenNew, At, Goto
  <2> QED BY <1>t, <2>1 DEF OrderInv, Behind
<1> QED BY <1>1, <1>2

(* run_commit_ordered() takes one transaction out of the group.            *)
LEMMA CommitOrderedOrder ==
  ASSUME ThreadsInv, OrderInv, NEW t \in Trx, CommitOrdered(t)
  PROVE  OrderInv'
<1>t. /\ pc \in [Sessions -> Labels] /\ group \in [Sessions -> Seq(Trx)] /\ t \in Sessions
      /\ IsInjective(group[t])
  BY Constants DEF ThreadsInv, TypeInv, CoordinatorTypeOK, GroupInv
<1>g. /\ pc[t] = "commit" /\ group[t] # <<>> /\ UNCHANGED <<binlog_id, check_purge>>
      /\ group' = [group EXCEPT ![t] = Tail(@)]
      /\ pc' = IF Head(group[t]) = t THEN pc ELSE [pc EXCEPT ![Head(group[t])] = "ordered"]
  BY DEF CommitOrdered, At
<1>1. /\ Head(group[t]) \in Trx /\ Contains(group[t], Head(group[t]))
      /\ \A x : Contains(Tail(group[t]), x) => Contains(group[t], x)
  BY <1>t, <1>g, TailList
<1>2. PICK u \in Trx : u = Head(group[t]) /\ Contains(group[t], u) /\ u \in Sessions
  BY <1>1, Constants
<1>3. \A l \in Sessions, x \in Trx : Contains(group'[l], x) => Contains(group[l], x)
  BY <1>t, <1>g, <1>1
<1>4. \A v \in Sessions : pc'[v] = IF v = u /\ u # t THEN "ordered" ELSE pc[v]
  BY <1>t, <1>g, <1>2
<1>5. u # t => pc[u] = "grouped"
  BY <1>t, <1>2 DEF ThreadsInv, GroupInv
<1>6. u # t => \A x \in Trx : ~Contains(group[u], x)
  BY <1>5, <1>2, EmptyGroup DEF Committing
<1> QED BY <1>g, <1>2, <1>3, <1>4, <1>6 DEF OrderInv, Behind

(* What most steps do to the redo log and to the requests: nothing but     *)
(* flushing more of it; and no decision of recovery is taken.              *)
NoDecision ==
  \A t \in Trx : /\ engine[t] = "committed" => engine'[t] = "committed"
                 /\ engine'[t] = "rolled back" => engine[t] = "rolled back"
                 /\ \/ file'[t] = file[t]
                    \/ file'[t] = current_binlog_id /\ engine'[t] # "rolled back"

StillAsking ==
  \A r \in Sessions : check_purge[r] =>
    check_purge'[r] /\ binlog_id'[r] = binlog_id[r] /\ to_ask'[r] = to_ask[r]

AnnounceFlushed ==
  \A t \in Threads : flush_notify'[t] # NoLsn =>
    flush_notify'[t] = flush_notify[t] \/ flush_notify'[t].to <= flushed_lsn'

QuietRedo ==
  /\ server = "up" /\ UNCHANGED <<server, current_binlog_id, redo, seen, log_requests>>
  /\ flushed_lsn <= flushed_lsn'
  /\ NoDecision /\ StillAsking /\ AnnounceFlushed

(* In particular when all of it stays as it is.                            *)
LEMMA SameRedo ==
  ASSUME flushed_lsn \in Nat, server = "up",
         UNCHANGED <<server, current_binlog_id, redo, seen, log_requests>>,
         UNCHANGED <<flushed_lsn, engine, file, check_purge, binlog_id, to_ask, flush_notify>>
  PROVE  QuietRedo
<1>1. NoDecision /\ StillAsking
  BY DEF NoDecision, StillAsking
<1>2. AnnounceFlushed
  BY DEF AnnounceFlushed
<1>3. flushed_lsn <= flushed_lsn'
  OBVIOUS
<1> QED BY <1>1, <1>2, <1>3 DEF QuietRedo

(* When a thread has flushed the log.                                      *)
LEMMA FlushAnnounced ==
  ASSUME NEW t \in Threads, QueueTypeOK, UNCHANGED <<flushed_lsn, flush_notify>> \/ FlushedBy(t, lsn)
  PROVE  flushed_lsn <= flushed_lsn' /\ AnnounceFlushed
<1>1. lsn \in Nat /\ flushed_lsn \in Nat /\ flushed_lsn <= lsn
  BY DEF QueueTypeOK
<1>2. CASE UNCHANGED <<flushed_lsn, flush_notify>>
  BY <1>1, <1>2 DEF AnnounceFlushed
<1>3. CASE FlushedBy(t, lsn)
  <2>1. flush_notify \in [Threads -> [to : Nat] \cup {NoLsn}]
    BY DEF QueueTypeOK
  <2>2. /\ flushed_lsn' = lsn /\ flush_notify'[t] = [to |-> lsn]
        /\ \A v \in Threads : v # t => flush_notify'[v] = flush_notify[v]
    BY <1>3, <2>1 DEF FlushedBy
  <2>3. flush_notify'[t].to <= flushed_lsn'
    BY <1>1, <2>2
  <2> QED BY <1>1, <2>2, <2>3 DEF AnnounceFlushed
<1> QED BY <1>2, <1>3

(* Transactions that are flushed to a position are so to a later one.      *)
LEMMA FlushedFurther ==
  ASSUME CoordinatorTypeOK, NEW t \in Trx, NEW m \in Nat, NEW n \in Nat, m <= n, FlushedTo(t, m)
  PROVE  FlushedTo(t, n)
<1>1. redo \in Seq(Trx)
  BY DEF CoordinatorTypeOK
<1>2. \A i \in DOMAIN redo : i \in Nat
  BY <1>1
<1> QED BY <1>2 DEF FlushedTo

(* A request that was read or queued is about a position.                  *)
LEMMA RequestTypes ==
  ASSUME QueueTypeOK
  PROVE  /\ \A r \in Threads : seen[r] # NoLsn => seen[r].lsn \in Nat /\ seen[r].flushed \in Nat
         /\ \A i \in DOMAIN log_requests : log_requests[i].lsn \in Nat
                                           /\ log_requests[i].cookie \in Files
         /\ \A r \in Threads : flush_notify[r] # NoLsn => flush_notify[r].to \in Nat
         /\ lsn \in Nat /\ flushed_lsn \in Nat /\ flushed_lsn <= lsn
<1>1. log_requests \in Seq(Requests)
  BY DEF QueueTypeOK
<1>4. \A i \in DOMAIN log_requests : log_requests[i] \in Requests
  BY <1>1
<1>2. \A i \in DOMAIN log_requests : log_requests[i] \in [cookie : Files, lsn : Nat]
  BY <1>4 DEF Requests
<1>3. \A r \in Threads : /\ seen[r] \in [lsn : Nat, flushed : Nat] \cup {NoLsn}
                         /\ flush_notify[r] \in [to : Nat] \cup {NoLsn}
  BY DEF QueueTypeOK
<1> QED BY <1>2, <1>3 DEF QueueTypeOK

(* A transaction stays covered when nothing is taken from the requests.    *)
LEMMA CoveredStays ==
  ASSUME ThreadsInv, ThreadsInv', NEW t \in Trx, Covered(t), file'[t] = file[t],
         \A n : FlushedTo(t, n) => FlushedTo(t, n)',
         StillAsking, UNCHANGED <<seen, log_requests>>, flushed_lsn <= flushed_lsn'
  PROVE  Covered(t)'
<1>t. CoordinatorTypeOK' /\ flushed_lsn \in Nat /\ flushed_lsn' \in Nat
  BY DEF ThreadsInv, TypeInv, QueueTypeOK
<1>s. \A r \in Sessions : seen[r] # NoLsn => check_purge[r]
  BY DEF ThreadsInv, FilesInv
<1>3. CASE WillAsk(file[t])
  BY <1>3 DEF Covered, WillAsk, StillAsking
<1>4. CASE \E r \in Sessions : /\ seen[r] # NoLsn /\ binlog_id[r] = file[t]
                               /\ FlushedTo(t, seen[r].lsn)
  <2>1. PICK r \in Sessions : /\ seen[r] # NoLsn /\ binlog_id[r] = file[t]
                              /\ FlushedTo(t, seen[r].lsn)
    BY <1>4
  <2>2. seen'[r] = seen[r] /\ binlog_id'[r] = binlog_id[r]
    BY <1>s, <2>1 DEF StillAsking
  <2>3. FlushedTo(t, seen[r].lsn)'
    <3>1. PICK n : n = seen[r].lsn
      OBVIOUS
    <3>2. FlushedTo(t, n)'
      BY <3>1, <2>1
    <3> QED BY <3>1, <3>2, <2>2 DEF FlushedTo
  <2> QED BY <2>1, <2>2, <2>3 DEF Covered
<1>5. CASE \E i \in DOMAIN log_requests : /\ log_requests[i].cookie = file[t]
                                          /\ FlushedTo(t, log_requests[i].lsn)
  <2>1. PICK i \in DOMAIN log_requests : /\ log_requests[i].cookie = file[t]
                                         /\ FlushedTo(t, log_requests[i].lsn)
    BY <1>5
  <2>3. FlushedTo(t, log_requests[i].lsn)'
    <3>1. PICK n : n = log_requests[i].lsn
      OBVIOUS
    <3>2. FlushedTo(t, n)'
      BY <3>1, <2>1
    <3> QED BY <3>1, <3>2 DEF FlushedTo
  <2> QED BY <2>1, <2>3 DEF Covered
<1>6. CASE FlushedTo(t, flushed_lsn)
  <2>1. PICK n \in Nat : n = flushed_lsn /\ n <= flushed_lsn'
    BY <1>t
  <2>2. FlushedTo(t, n)'
    BY <2>1, <1>6
  <2>5. redo' \in Seq(Trx)
    BY <1>t DEF CoordinatorTypeOK
  <2>3. \A i \in DOMAIN redo' : i \in Nat
    BY <2>5
  <2>4. FlushedTo(t, flushed_lsn)'
    BY <1>t, <2>1, <2>2, <2>3 DEF FlushedTo
  <2> QED BY <2>4 DEF Covered
<1> QED BY <1>3, <1>4, <1>5, <1>6 DEF Covered

(* Steps of that kind leave every transaction covered.                     *)
LEMMA QuietDurable ==
  ASSUME ThreadsInv, ThreadsInv', DurableInv, QuietRedo
  PROVE  DurableInv'
<1>c. current_binlog_id \in Nat
  BY Constants DEF ThreadsInv, TypeInv, ListTypeInv
<1> SUFFICES ASSUME NEW t \in Trx, t \notin NeedUnlog, file'[t] # NoFile,
                    file'[t] < current_binlog_id'
             PROVE  Covered(t)'
  BY DEF DurableInv
<1>1. file'[t] = file[t] /\ Covered(t)
  <2>1. file'[t] = file[t] /\ server = "up" /\ file[t] < current_binlog_id
    <3>1. current_binlog_id' = current_binlog_id /\ server = "up" /\ NoDecision
      BY DEF QuietRedo
    <3>2. file'[t] # current_binlog_id
      BY <1>c, <3>1
    <3> QED BY <3>1, <3>2 DEF NoDecision
  <2> QED BY <2>1 DEF DurableInv
<1>2. ASSUME NEW n, FlushedTo(t, n) PROVE FlushedTo(t, n)'
  BY <1>2 DEF FlushedTo, QuietRedo, NoDecision
<1>3. /\ StillAsking /\ flushed_lsn <= flushed_lsn'
      /\ UNCHANGED <<seen, log_requests>>
  BY DEF QuietRedo
<1> QED BY <1>1, <1>2, <1>3, CoveredStays

(* They keep the whole of it.                                              *)
LEMMA QuietRecovery ==
  ASSUME ThreadsInv, ThreadsInv', RecoveryInv, QuietRedo, OrderInv'
  PROVE  RecoveryInv'
<1>1. DurableInv'
  BY QuietDurable DEF RecoveryInv
<1>t. QueueTypeOK /\ QueueTypeOK'
  BY DEF ThreadsInv, TypeInv
<1>2. PositionsInv'
  <2>1. ASSUME NEW t \in Threads, seen'[t] # NoLsn PROVE seen'[t].flushed <= flushed_lsn'
    <3>1. seen'[t] = seen[t] /\ flushed_lsn <= flushed_lsn'
      BY DEF QuietRedo
    <3>2. seen[t].flushed \in Nat /\ flushed_lsn \in Nat /\ flushed_lsn' \in Nat
      BY <2>1, <3>1, <1>t, RequestTypes DEF QueueTypeOK
    <3>3. seen[t].flushed <= flushed_lsn
      BY <2>1, <3>1 DEF RecoveryInv, PositionsInv
    <3> QED BY <3>1, <3>2, <3>3
  <2>2. ASSUME NEW t \in Threads, flush_notify'[t] # NoLsn
        PROVE  flush_notify'[t].to <= flushed_lsn'
    <3>1. CASE flush_notify'[t] = flush_notify[t]
      <4>1. flush_notify[t].to \in Nat /\ flushed_lsn \in Nat /\ flushed_lsn' \in Nat
        BY <2>2, <3>1, <1>t, RequestTypes DEF QueueTypeOK
      <4>2. flush_notify[t].to <= flushed_lsn
        BY <2>2, <3>1 DEF RecoveryInv, PositionsInv
      <4>3. flushed_lsn <= flushed_lsn'
        BY DEF QuietRedo
      <4> QED BY <3>1, <4>1, <4>2, <4>3
    <3> QED BY <3>1, <2>2 DEF QuietRedo, AnnounceFlushed
  <2> QED BY <2>1, <2>2 DEF PositionsInv
<1>3. OutcomeInv'
  BY DEF RecoveryInv, OutcomeInv, QuietRedo, NoDecision
<1> QED BY <1>1, <1>2, <1>3 DEF RecoveryInv

(* Steps that touch neither the engines nor the redo log.                  *)
LEMMA PlainSteps ==
  ASSUME Ordering, ThreadsInv, ThreadsInv', RecoveryInv,
         \/ \E t \in Sessions : \/ NoRotate(t) \/ Rotate(t) \/ RotateFails(t) \/ ReleaseLog(t)
                                \/ CommitLock(t) \/ CommitUnlock(t) \/ Requested(t)
                                \/ t \in Trx /\ (LeaderSync(t) \/ Unlog(t))
         \/ \E t \in Markers : MarkStep(t)
         \/ \E t \in Threads : QueueStep(Notify(t))
         \/ BackgroundQueue \/ BackgroundMark \/ Purge
         \/ server = "up" /\ UNCHANGED vars
  PROVE  RecoveryInv'
<1>t. flushed_lsn \in Nat
  BY DEF ThreadsInv, TypeInv, QueueTypeOK
<1>1. CASE \E t \in Sessions : \/ NoRotate(t) \/ Rotate(t) \/ RotateFails(t) \/ ReleaseLog(t)
                               \/ CommitLock(t) \/ CommitUnlock(t) \/ Requested(t)
                               \/ t \in Trx /\ (LeaderSync(t) \/ Unlog(t))
  <2>1. PICK t \in Sessions : \/ NoRotate(t) \/ Rotate(t) \/ RotateFails(t) \/ ReleaseLog(t)
                              \/ CommitLock(t) \/ CommitUnlock(t) \/ Requested(t)
                              \/ LeaderSync(t) \/ Unlog(t)
    BY <1>1
  <2>2. OrderInv'
    BY <2>1, SessionOrder DEF RecoveryInv
  <2>3. /\ server = "up" /\ UNCHANGED <<server, current_binlog_id, redo, seen, log_requests>>
        /\ UNCHANGED <<flushed_lsn, engine, file, check_purge, binlog_id, to_ask, flush_notify>>
    BY <2>1 DEF NoRotate, Rotate, RotateFails, ReleaseLog, CommitLock, CommitUnlock, Requested,
       LeaderSync, Unlog, MarkXidDone, At, diskVars, engineVars, redoVars, serverVars, localVars,
       listVars, ckptVars, requestVars
  <2>4. QuietRedo
    BY <1>t, <2>3, SameRedo
  <2> QED BY <2>2, <2>4, QuietRecovery
<1>2. CASE ~(\E t \in Sessions : \/ NoRotate(t) \/ Rotate(t) \/ RotateFails(t) \/ ReleaseLog(t)
                                 \/ CommitLock(t) \/ CommitUnlock(t) \/ Requested(t)
                                 \/ t \in Trx /\ (LeaderSync(t) \/ Unlog(t)))
  <2>1. /\ server = "up" /\ UNCHANGED <<server, current_binlog_id, redo, seen, log_requests>>
        /\ UNCHANGED <<flushed_lsn, engine, file, check_purge, binlog_id, to_ask, flush_notify>>
        /\ UNCHANGED <<pc, group>>
    <3>1. CASE \E t \in Markers : MarkStep(t)
      BY <3>1 DEF MarkStep, MarkLock, MarkWrite, Trimmed, diskVars, engineVars, redoVars,
         serverVars, listVars, ckptVars, requestVars
    <3>2. CASE \/ \E t \in Threads : QueueStep(Notify(t))
               \/ BackgroundQueue
      BY <3>2 DEF QueueStep, Notify, BackgroundQueue, BackgroundGrab, BackgroundNext, diskVars,
         redoVars, serverVars, localVars, listVars, requestVars
    <3>3. CASE BackgroundMark \/ Purge \/ (server = "up" /\ UNCHANGED vars)
      BY <3>3 DEF BackgroundMark, MarkXidDone, Purge, vars, diskVars, engineVars, redoVars,
         serverVars, localVars, listVars, ckptVars, requestVars
    <3> QED BY <1>2, <3>1, <3>2, <3>3
  <2>2. OrderInv'
    BY <2>1 DEF RecoveryInv, OrderInv, Behind
  <2>3. QuietRedo
    BY <1>t, <2>1, SameRedo
  <2> QED BY <2>2, <2>3, QuietRecovery
<1> QED BY <1>1, <1>2

(* The first steps of a transaction, and the flush of the redo log.        *)
LEMMA TransactionSteps ==
  ASSUME Ordering, ThreadsInv, ThreadsInv', RecoveryInv,
         \/ \E t \in Trx : \/ Prepare(t) \/ LeaderLockLog(t) \/ CommitEngine(t)
                           \/ \E u \in Trx : LeaderWrite(t, u)
         \/ \E t \in Sessions : RotatorLockLog(t)
         \/ FlushRedo
  PROVE  RecoveryInv'
<1>q. QueueTypeOK
  BY DEF ThreadsInv, TypeInv
<1>t. /\ engine \in [Trx -> {"active", "prepared", "committed", "rolled back"}]
      /\ file \in [Trx -> Files \cup {NoFile}]
      /\ binlog_id \in [Sessions -> Files \cup {NoFile}]
  BY DEF ThreadsInv, TypeInv, CoordinatorTypeOK
<1>o. OrderInv
  BY DEF RecoveryInv
<1>1. ASSUME NEW t \in Trx, Prepare(t) PROVE RecoveryInv'
  <2>0. t \in Sessions /\ t \in Threads
    BY Constants
  <2>1. OrderInv'
    BY <1>o, <1>1, <2>0, SessionOrder
  <2>2. /\ server = "up" /\ UNCHANGED <<server, current_binlog_id, redo, seen, log_requests>>
        /\ UNCHANGED <<file, check_purge, binlog_id, to_ask>>
        /\ pc[t] = "prepare" /\ engine' = [engine EXCEPT ![t] = "prepared"]
        /\ \/ UNCHANGED <<flushed_lsn, flush_notify>>
           \/ FlushedBy(t, lsn)
    BY <1>1 DEF Prepare, At, diskVars, serverVars, localVars, listVars
  <2>3. engine[t] = "active"
    BY <2>2 DEF ThreadsInv, TrxInv, TrxOK
  <2>4. flushed_lsn <= flushed_lsn' /\ AnnounceFlushed
    BY <1>q, <2>0, <2>2, FlushAnnounced
  <2>6. NoDecision /\ StillAsking
    BY <1>t, <2>2, <2>3 DEF NoDecision, StillAsking
  <2>5. QuietRedo
    BY <2>2, <2>4, <2>6 DEF QuietRedo
  <2> QED BY <2>1, <2>5, QuietRecovery
<1>2. ASSUME NEW t \in Trx, NEW u \in Trx, (LeaderLockLog(t) /\ u = t) \/ LeaderWrite(t, u)
      PROVE  RecoveryInv'
  <2>1. OrderInv'
    BY <1>o, <1>2, LeaderOrder
  <2>2. /\ server = "up"
        /\ UNCHANGED <<server, current_binlog_id, redo, seen, log_requests>>
        /\ UNCHANGED <<flushed_lsn, engine, check_purge, to_ask, flush_notify>>
        /\ pc[u] = "queue" /\ file' = [file EXCEPT ![u] = current_binlog_id]
        /\ \/ /\ pc[t] = "queue"
              /\ binlog_id' = [binlog_id EXCEPT ![t] = current_binlog_id]
           \/ UNCHANGED binlog_id
    BY <1>2 DEF LeaderLockLog, LeaderWrite, WriteEvents, At, diskVars, engineVars, redoVars,
       serverVars, localVars, listVars, ckptVars, requestVars
  <2>3. engine[u] = "prepared"
    BY <2>2 DEF ThreadsInv, TrxInv, TrxOK
  <2>4. \A r \in Sessions : check_purge[r] => binlog_id'[r] = binlog_id[r]
    <3>1. \A r \in Sessions : check_purge[r] => pc[r] # "queue"
      BY DEF ThreadsInv, FilesInv
    <3> QED BY <1>t, <2>2, <3>1
  <2>6. NoDecision /\ StillAsking
    BY <1>t, <2>2, <2>3, <2>4 DEF NoDecision, StillAsking
  <2>7. flushed_lsn <= flushed_lsn' /\ AnnounceFlushed
    BY <1>q, <2>2, FlushAnnounced, Constants
  <2>5. QuietRedo
    BY <2>2, <2>6, <2>7 DEF QuietRedo
  <2> QED BY <2>1, <2>5, QuietRecovery
<1>3. ASSUME NEW t \in Trx, CommitEngine(t) PROVE RecoveryInv'
  <2>0. t \in Sessions
    BY Constants
  <2>1. OrderInv'
    BY <1>o, <1>3, <2>0, SessionOrder
  <2>2. /\ server = "up"
        /\ UNCHANGED <<server, current_binlog_id, redo, seen, log_requests>>
        /\ UNCHANGED <<flushed_lsn, file, check_purge, binlog_id, to_ask, flush_notify>>
        /\ engine' = [engine EXCEPT ![t] = "committed"]
    BY <1>3 DEF CommitEngine, At, diskVars, redoVars, serverVars, localVars, listVars, ckptVars,
       requestVars
  <2>6. NoDecision /\ StillAsking
    BY <1>t, <2>2 DEF NoDecision, StillAsking
  <2>7. flushed_lsn <= flushed_lsn' /\ AnnounceFlushed
    BY <1>q, <2>2, FlushAnnounced, Constants
  <2>3. QuietRedo
    BY <2>2, <2>6, <2>7 DEF QuietRedo
  <2> QED BY <2>1, <2>3, QuietRecovery
<1>4. ASSUME NEW t \in Sessions, RotatorLockLog(t) PROVE RecoveryInv'
  <2>1. OrderInv'
    BY <1>o, <1>4, RotatorOrder
  <2>2. /\ server = "up" /\ pc[t] = "rotate"
        /\ UNCHANGED <<server, current_binlog_id, redo, seen, log_requests>>
        /\ UNCHANGED <<flushed_lsn, engine, file, check_purge, to_ask, flush_notify>>
        /\ binlog_id' = [binlog_id EXCEPT ![t] = current_binlog_id]
    BY <1>4 DEF RotatorLockLog, At, diskVars, engineVars, redoVars, serverVars, listVars,
       ckptVars, requestVars
  <2>3. ~check_purge[t]
    BY <2>2 DEF ThreadsInv, FilesInv
  <2>6. NoDecision /\ StillAsking
    BY <1>t, <2>2, <2>3 DEF NoDecision, StillAsking
  <2>7. flushed_lsn <= flushed_lsn' /\ AnnounceFlushed
    BY <1>q, <2>2, FlushAnnounced, Constants
  <2>4. QuietRedo
    BY <2>2, <2>6, <2>7 DEF QuietRedo
  <2> QED BY <2>1, <2>4, QuietRecovery
<1>5. CASE FlushRedo
  <2>0. Flusher \in Threads
    BY Constants
  <2>1. /\ server = "up" /\ UNCHANGED <<server, current_binlog_id, redo, seen, log_requests>>
        /\ UNCHANGED <<engine, file, check_purge, binlog_id, to_ask, pc, group>>
        /\ FlushedBy(Flusher, lsn)
    BY <1>5 DEF FlushRedo, diskVars, serverVars, localVars, listVars
  <2>2. OrderInv'
    BY <1>o, <2>1 DEF OrderInv, Behind
  <2>3. flushed_lsn <= flushed_lsn' /\ AnnounceFlushed
    BY <1>q, <2>0, <2>1, FlushAnnounced
  <2>5. NoDecision /\ StillAsking
    BY <2>1 DEF NoDecision, StillAsking
  <2>4. QuietRedo
    BY <2>1, <2>3, <2>5 DEF QuietRedo
  <2> QED BY <2>2, <2>4, QuietRecovery
<1> QED BY <1>1, <1>2, <1>3, <1>4, <1>5

(* A request leaves InnoDB's list when what it waits for is flushed.       *)
LEMMA DetachedOrKept ==
  ASSUME notifying \in [Threads -> Seq(Files)], NEW t \in Threads,
         NEW list \in Seq(Requests), NEW to, NEW own \in Seq(Files),
         Detached(t, list, to, own), NEW i \in DOMAIN list
  PROVE  list[i].lsn <= to \/ \E j \in DOMAIN log_requests' : log_requests'[j] = list[i]
<1>1. PICK n \in 0 .. Len(list) : FirstDetached(n, t, list, to, own)
  BY DetachedLists
<1>2. PICK k \in Nat : k = Len(list)
  OBVIOUS
<1>3. /\ \A j \in 1 .. n : list[j].lsn <= to
      /\ log_requests' \in Seq(Requests) /\ Len(log_requests') = k - n
      /\ \A j \in 1 .. k - n : log_requests'[j] = list[n + j]
      /\ n \in Nat /\ n <= k
  BY <1>1, <1>2 DEF FirstDetached
<1>4. i \in Nat /\ 1 <= i /\ i <= k
  BY <1>2
<1>5. CASE i <= n
  BY <1>3, <1>4, <1>5
<1>6. CASE i > n
  <2>1. i - n \in 1 .. k - n /\ n + (i - n) = i
    BY <1>3, <1>4, <1>6
  <2>2. DOMAIN log_requests' = 1 .. k - n
    BY <1>3
  <2>3. log_requests'[i - n] = list[i]
    BY <1>3, <2>1
  <2> QED BY <2>1, <2>2, <2>3
<1> QED BY <1>3, <1>4, <1>5, <1>6

(* Whether it leaves or stays, the transactions it is about are covered.   *)
LEMMA ListCovers ==
  ASSUME ThreadsInv, NEW u \in Trx, NEW t \in Threads, NEW list \in Seq(Requests),
         NEW to \in Nat, to <= flushed_lsn, NEW own \in Seq(Files), Detached(t, list, to, own),
         UNCHANGED <<redo, engine, file, flushed_lsn>>,
         NEW i \in DOMAIN list, list[i].cookie = file[u], FlushedTo(u, list[i].lsn)
  PROVE  Covered(u)'
<1>t. /\ CoordinatorTypeOK /\ flushed_lsn \in Nat /\ notifying \in [Threads -> Seq(Files)]
  BY DEF ThreadsInv, TypeInv, QueueTypeOK
<1>0. PICK n \in Nat : n = list[i].lsn
  <2>1. list[i] \in Requests
    OBVIOUS
  <2> QED BY <2>1 DEF Requests
<1>1. FlushedTo(u, n)'
  BY <1>0 DEF FlushedTo
<1>2. CASE n <= to
  <2>1. PICK p \in Nat : p = flushed_lsn /\ n <= p
    BY <1>t, <1>2
  <2>2. FlushedTo(u, p)
    BY <1>0, <1>t, <2>1, FlushedFurther
  <2>3. FlushedTo(u, flushed_lsn)'
    BY <2>1, <2>2 DEF FlushedTo
  <2> QED BY <2>3 DEF Covered
<1>3. CASE \E j \in DOMAIN log_requests' : log_requests'[j] = list[i]
  <2>1. PICK j \in DOMAIN log_requests' : log_requests'[j] = list[i]
    BY <1>3
  <2>2. FlushedTo(u, log_requests[j].lsn)' /\ log_requests'[j].cookie = file'[u]
    BY <1>0, <1>1, <2>1 DEF FlushedTo
  <2> QED BY <2>1, <2>2 DEF Covered
<1> QED BY <1>0, <1>t, <1>2, <1>3, DetachedOrKept

(* log_flush_notify()                                                      *)
LEMMA FlushNotifyRecovery ==
  ASSUME ThreadsInv, RecoveryInv, NEW t \in Threads, QueueStep(FlushNotify(t))
  PROVE  RecoveryInv'
<1>0. OrderInv /\ DurableInv /\ PositionsInv /\ OutcomeInv
  BY DEF RecoveryInv
<1>t. QueueTypeOK
  BY DEF ThreadsInv, TypeInv
<1>d. /\ server = "up" /\ UNCHANGED <<server, current_binlog_id, redo, seen, flushed_lsn>>
      /\ UNCHANGED <<engine, file, check_purge, binlog_id, to_ask, pc, group>>
      /\ flush_notify[t] # NoLsn /\ flush_notify' = [flush_notify EXCEPT ![t] = NoLsn]
      /\ Detached(t, log_requests, flush_notify[t].to, <<>>)
  BY DEF QueueStep, FlushNotify, diskVars, redoVars, serverVars, localVars, listVars
<1>1. OrderInv'
  BY <1>0, <1>d DEF OrderInv, Behind
<1>2. PositionsInv'
  <2>1. flush_notify \in [Threads -> [to : Nat] \cup {NoLsn}]
    BY <1>t DEF QueueTypeOK
  <2>2. \A v \in Threads : flush_notify'[v] # NoLsn => flush_notify'[v] = flush_notify[v]
    BY <2>1, <1>d
  <2> QED BY <2>2, <1>0, <1>d DEF PositionsInv
<1>3. OutcomeInv'
  BY <1>0, <1>d DEF OutcomeInv
<1>4. DurableInv'
  <2>0. PICK to \in Nat : to = flush_notify[t].to /\ to <= flushed_lsn
    BY <1>0, <1>t, <1>d, RequestTypes DEF PositionsInv
  <2>1. log_requests \in Seq(Requests) /\ <<>> \in Seq(Files)
    BY <1>t, EmptyList DEF QueueTypeOK
  <2> SUFFICES ASSUME NEW u \in Trx, u \notin NeedUnlog, file[u] # NoFile,
                      file[u] < current_binlog_id
               PROVE  Covered(u)'
    BY <1>d DEF DurableInv
  <2>2. Covered(u)
    BY <1>0, <1>d DEF DurableInv
  <2>3. CASE \E i \in DOMAIN log_requests : /\ log_requests[i].cookie = file[u]
                                            /\ FlushedTo(u, log_requests[i].lsn)
    BY <2>0, <2>1, <2>3, <1>d, ListCovers
  <2>4. CASE \/ WillAsk(file[u])
             \/ \E r \in Sessions : /\ seen[r] # NoLsn /\ binlog_id[r] = file[u]
                                    /\ FlushedTo(u, seen[r].lsn)
             \/ FlushedTo(u, flushed_lsn)
    BY <2>4, <1>d DEF Covered, WillAsk, FlushedTo
  <2> QED BY <2>2, <2>3, <2>4 DEF Covered
<1> QED BY <1>1, <1>2, <1>3, <1>4 DEF RecoveryInv

(* innodb_log_flush_request() queues the request or notifies at once.      *)
LEMMA InnodbQueuesRecovery ==
  ASSUME Ordering, ThreadsInv, RecoveryInv, NEW t \in Sessions, InnodbQueues(t)
  PROVE  RecoveryInv'
<1>0. OrderInv /\ DurableInv /\ PositionsInv /\ OutcomeInv
  BY DEF RecoveryInv
<1>t. QueueTypeOK /\ CoordinatorTypeOK /\ t \in Threads
  BY Constants DEF ThreadsInv, TypeInv
<1>d. /\ server = "up" /\ UNCHANGED <<server, current_binlog_id, redo, flush_notify, flushed_lsn>>
      /\ UNCHANGED <<engine, file, check_purge, binlog_id, to_ask, group>>
      /\ pc[t] = "flush" /\ QueueRequest(t, binlog_id[t])
      /\ seen' = [seen EXCEPT ![t] = NoLsn]
  BY DEF InnodbQueues, QueueRequest, At, diskVars, engineVars, redoVars, serverVars, localVars,
     listVars
<1>b. check_purge[t] /\ seen[t] # NoLsn
  BY <1>d DEF ThreadsInv, FilesInv
<1>f. PICK b \in Files : b = binlog_id[t]
  BY <1>b, RotatedFile
<1>s. /\ seen \in [Threads -> [lsn : Nat, flushed : Nat] \cup {NoLsn}]
      /\ seen[t] \in [lsn : Nat, flushed : Nat]
  BY <1>t, <1>b DEF QueueTypeOK
<1>v. \A v \in Threads : v # t => seen'[v] = seen[v]
  BY <1>d, <1>s
<1>1. OrderInv'
  BY <1>0, SessionOrder
<1>2. PositionsInv'
  <2>1. seen'[t] = NoLsn
    BY <1>d, <1>s, <1>t
  <2> QED BY <2>1, <1>v, <1>0, <1>d DEF PositionsInv
<1>3. OutcomeInv'
  BY <1>0, <1>d DEF OutcomeInv
<1>4. DurableInv'
  <2>0. PICK n \in Nat, m \in Nat : n = seen[t].lsn /\ m = seen[t].flushed /\ m <= flushed_lsn
    <3>1. seen[t].lsn \in Nat /\ seen[t].flushed \in Nat
      BY <1>s
    <3>2. seen[t].flushed <= flushed_lsn
      BY <1>0, <1>b, <1>t DEF PositionsInv
    <3> QED BY <3>1, <3>2
  <2>q. PICK list \in Seq(Requests), own \in Seq(Files), to \in Nat :
          /\ Detached(t, list, to, own)
          /\ \/ list = log_requests /\ to = m /\ n <= m
             \/ /\ list = Append(log_requests, [cookie |-> b, lsn |-> n])
                /\ to \in {flushed_lsn, m}
    BY <1>d, <1>f, <1>s, <1>t, <2>0, RequestQueued
  <2>1. log_requests \in Seq(Requests) /\ flushed_lsn \in Nat /\ [cookie |-> b, lsn |-> n] \in Requests
    BY <1>t DEF QueueTypeOK, Requests
  <2>t. to <= flushed_lsn
    BY <2>0, <2>q, <2>1
  <2>k. /\ \A i \in DOMAIN log_requests : i \in DOMAIN list /\ list[i] = log_requests[i]
        /\ \/ n <= m
           \/ \E i \in DOMAIN list : list[i] = [cookie |-> b, lsn |-> n]
    <3>1. PICK k \in Nat : k = Len(log_requests)
      BY <2>1
    <3>2. CASE list = log_requests /\ n <= m
      BY <3>2
    <3>3. CASE list = Append(log_requests, [cookie |-> b, lsn |-> n])
      <4>1. DOMAIN list = 1 .. k + 1 /\ DOMAIN log_requests = 1 .. k
        BY <2>1, <3>1, <3>3
      <4>2. list[k + 1] = [cookie |-> b, lsn |-> n] /\ \A i \in 1 .. k : list[i] = log_requests[i]
        BY <2>1, <3>1, <3>3
      <4> QED BY <4>1, <4>2
    <3> QED BY <2>q, <3>2, <3>3
  <2> SUFFICES ASSUME NEW u \in Trx, u \notin NeedUnlog, file[u] # NoFile,
                      file[u] < current_binlog_id
               PROVE  Covered(u)'
    BY <1>d DEF DurableInv
  <2>2. Covered(u)
    BY <1>0, <1>d DEF DurableInv
  <2>3. CASE \E i \in DOMAIN log_requests : /\ log_requests[i].cookie = file[u]
                                            /\ FlushedTo(u, log_requests[i].lsn)
    <3>1. PICK i \in DOMAIN log_requests : /\ log_requests[i].cookie = file[u]
                                           /\ FlushedTo(u, log_requests[i].lsn)
      BY <2>3
    <3>2. i \in DOMAIN list /\ list[i] = log_requests[i]
      BY <2>k
    <3> QED BY <2>q, <2>t, <3>1, <3>2, <1>d, <1>t, ListCovers
  <2>4. CASE WillAsk(file[u])
    BY <2>4, <1>d DEF Covered, WillAsk
  <2>5. CASE FlushedTo(u, flushed_lsn)
    BY <2>5, <1>d DEF Covered, FlushedTo
  <2>6. CASE \E r \in Sessions : /\ seen[r] # NoLsn /\ binlog_id[r] = file[u]
                                 /\ FlushedTo(u, seen[r].lsn)
    <3>1. PICK r \in Sessions : /\ seen[r] # NoLsn /\ binlog_id[r] = file[u]
                                /\ FlushedTo(u, seen[r].lsn)
      BY <2>6
    <3>2. CASE r # t
      <4>1. seen'[r] = seen[r]
        BY <1>v, <3>2, Constants
      <4> QED BY <3>1, <4>1, <1>d DEF Covered, FlushedTo
    <3>3. CASE r = t
      <4>1. file[u] = b /\ FlushedTo(u, n)
        BY <3>1, <3>3, <1>f, <2>0
      <4>2. CASE n <= m
        <5>1. PICK p \in Nat : p = flushed_lsn /\ n <= p
          BY <2>0, <2>1, <4>2
        <5>2. FlushedTo(u, p)
          BY <1>t, <4>1, <5>1, FlushedFurther
        <5> QED BY <2>5, <5>1, <5>2
      <4>3. CASE \E i \in DOMAIN list : list[i] = [cookie |-> b, lsn |-> n]
        <5>1. PICK i \in DOMAIN list : list[i] = [cookie |-> b, lsn |-> n]
          BY <4>3
        <5>2. list[i].cookie = file[u] /\ list[i].lsn = n
          BY <4>1, <5>1
        <5>3. FlushedTo(u, list[i].lsn)
          BY <4>1, <5>2
        <5> QED BY <2>q, <2>t, <5>2, <5>3, <1>d, <1>t, ListCovers
      <4> QED BY <2>k, <4>2, <4>3
    <3> QED BY <3>2, <3>3
  <2> QED BY <2>2, <2>3, <2>4, <2>5, <2>6 DEF Covered
<1> QED BY <1>1, <1>2, <1>3, <1>4 DEF RecoveryInv

(* The redo log and its positions.                                         *)
LEMMA RedoTypes ==
  ASSUME ThreadsInv
  PROVE  redo \in Seq(Trx) /\ lsn = Len(redo) /\ lsn \in Nat /\ flushed_lsn \in Nat
<1>1. CoordinatorTypeOK /\ QueueTypeOK
  BY DEF ThreadsInv, TypeInv
<1>2. redo \in Seq(Trx) /\ lsn = Len(redo)
  BY <1>1 DEF CoordinatorTypeOK
<1>3. lsn \in Nat /\ flushed_lsn \in Nat
  BY <1>1, RequestTypes
<1> QED BY <1>2, <1>3

(* When the checkpoint for a file is requested, all transactions of that   *)
(* file whose engine is asked are committed there: a group that was still  *)
(* to be committed would be behind the rotation and so in a later file.    *)
LEMMA AllCommitted ==
  ASSUME ThreadsInv, RecoveryInv, server = "up", NEW r \in Sessions, check_purge[r],
         pc[r] = "request", NEW u \in Trx, u \notin NeedUnlog, file[u] = binlog_id[r]
  PROVE  engine[u] = "committed"
<1>t. /\ u \in Sessions /\ pc[u] \in Labels /\ binlog_id[r] \in Nat /\ file[u] # NoFile
      /\ engine[u] \in {"active", "prepared", "committed", "rolled back"}
  BY Constants, FilesAreNumbers DEF ThreadsInv, TypeInv, CoordinatorTypeOK, FilesInv
<1>1. \A l \in Sessions : ~Contains(group[l], u)
  <2>1. SUFFICES ASSUME NEW l \in Sessions, Contains(group[l], u) PROVE FALSE
    OBVIOUS
  <2>2. binlog_id[r] < binlog_id[l]
    BY <2>1 DEF RecoveryInv, OrderInv, Behind
  <2>3. file[u] = binlog_id[l]
    BY <2>1 DEF ThreadsInv, GroupInv
  <2>4. PICK b \in Nat : b = binlog_id[r]
    BY <1>t
  <2>5. binlog_id[l] = b
    BY <2>3, <2>4
  <2>6. b < b
    BY <2>2, <2>4, <2>5
  <2> QED BY <2>6
<1>2. engine[u] # "rolled back"
  BY <1>t DEF RecoveryInv, OutcomeInv
<1>3. TrxOK(u) /\ pc[u] # "end"
  BY DEF ThreadsInv, TrxInv, LocksInv
<1>4. CASE pc[u] \in {"acked", "gone"}
  BY <1>t, <1>2, <1>3, <1>4 DEF TrxOK
<1>5. CASE pc[u] \in {"commit", "request", "flush", "ordered", "unlog"}
  BY <1>t, <1>1, <1>3, <1>5 DEF TrxOK, Ordered
<1>6. pc[u] \in {"acked", "gone", "commit", "request", "flush", "ordered", "unlog"}
  BY <1>t, <1>1, <1>3 DEF TrxOK, Labels
<1> QED BY <1>4, <1>5, <1>6

(* do_checkpoint_request()                                                 *)
LEMMA RequestCheckpointRecovery ==
  ASSUME OneEngine, Ordering, ThreadsInv, RecoveryInv, NEW t \in Sessions, RequestCheckpoint(t)
  PROVE  RecoveryInv'
<1>0. OrderInv /\ DurableInv /\ PositionsInv /\ OutcomeInv
  BY DEF RecoveryInv
<1>t. QueueTypeOK /\ CoordinatorTypeOK /\ t \in Threads
  BY Constants DEF ThreadsInv, TypeInv
<1>a. /\ server = "up" /\ pc[t] = "request" /\ to_ask[t] # <<>>
      /\ to_ask' = [to_ask EXCEPT ![t] = Tail(@)]
      /\ UNCHANGED <<server, current_binlog_id, redo, log_requests, flush_notify, flushed_lsn>>
      /\ UNCHANGED <<engine, file, check_purge, binlog_id, group, lsn>>
  BY DEF RequestCheckpoint, At, diskVars, engineVars, redoVars, serverVars
<1>b. check_purge[t]
  BY <1>a DEF ThreadsInv, FilesInv
<1>c. Head(to_ask[t]) = "InnoDB"
  <2>1. to_ask \in [Sessions -> {Engines, Tail(Engines), <<>>}]
    BY <1>t DEF CoordinatorTypeOK
  <2> QED BY <2>1, <1>a, OneEngineToAsk
<1>d. seen' = [seen EXCEPT ![t] = [lsn |-> lsn, flushed |-> flushed_lsn]]
  BY <1>c DEF RequestCheckpoint, ReadLsn
<1>s. /\ seen'[t] = [lsn |-> lsn, flushed |-> flushed_lsn]
      /\ \A v \in Threads : v # t => seen'[v] = seen[v]
  BY <1>d, <1>t DEF QueueTypeOK
<1>k. \A v \in Sessions : v # t => to_ask'[v] = to_ask[v]
  BY <1>a, <1>t DEF CoordinatorTypeOK
<1>1. OrderInv'
  BY <1>0, SessionOrder
<1>2. PositionsInv'
  <2>1. flushed_lsn \in Nat /\ seen'[t].flushed = flushed_lsn
    BY <1>s, <1>t DEF QueueTypeOK
  <2>2. seen'[t].flushed <= flushed_lsn'
    BY <2>1, <1>a
  <2> QED BY <2>2, <1>s, <1>0, <1>a DEF PositionsInv
<1>3. OutcomeInv'
  BY <1>0, <1>a DEF OutcomeInv
<1>4. DurableInv'
  <2> SUFFICES ASSUME NEW u \in Trx, u \notin NeedUnlog, file[u] # NoFile,
                      file[u] < current_binlog_id
               PROVE  Covered(u)'
    BY <1>a DEF DurableInv
  <2>1. CASE file[u] = binlog_id[t]
    <3>1. engine[u] = "committed"
      BY <2>1, <1>a, <1>b, AllCommitted
    <3>2. redo \in Seq(Trx) /\ lsn = Len(redo)
      BY <1>t DEF CoordinatorTypeOK
    <3>3. \A i \in DOMAIN redo : i <= lsn
      BY <3>2
    <3>4. seen'[t].lsn = lsn /\ seen'[t] # NoLsn
      BY <1>s, LsnIsSome
    <3>5. FlushedTo(u, seen[t].lsn)'
      BY <3>1, <3>3, <3>4, <1>a DEF FlushedTo
    <3> QED BY <2>1, <3>4, <3>5, <1>a DEF Covered
  <2>2. CASE file[u] # binlog_id[t]
    <3>1. Covered(u)
      BY <1>0, <1>a DEF DurableInv
    <3>2. CASE WillAsk(file[u])
      BY <2>2, <3>2, <1>a, <1>k DEF Covered, WillAsk
    <3>3. CASE \E r \in Sessions : /\ seen[r] # NoLsn /\ binlog_id[r] = file[u]
                                   /\ FlushedTo(u, seen[r].lsn)
      <4>1. PICK r \in Sessions : /\ seen[r] # NoLsn /\ binlog_id[r] = file[u]
                                  /\ FlushedTo(u, seen[r].lsn)
        BY <3>3
      <4>2. seen'[r] = seen[r]
        BY <2>2, <4>1, <1>s, Constants
      <4> QED BY <4>1, <4>2, <1>a DEF Covered, FlushedTo
    <3>4. CASE \/ \E i \in DOMAIN log_requests : /\ log_requests[i].cookie = file[u]
                                                 /\ FlushedTo(u, log_requests[i].lsn)
               \/ FlushedTo(u, flushed_lsn)
      BY <3>4, <1>a DEF Covered, FlushedTo
    <3> QED BY <3>1, <3>2, <3>3, <3>4 DEF Covered
  <2> QED BY <2>1, <2>2
<1> QED BY <1>1, <1>2, <1>3, <1>4 DEF RecoveryInv

(* run_commit_ordered(): a transaction that is still to be committed is    *)
(* covered by a checkpoint that is still to be requested.                  *)
LEMMA CommitOrderedRecovery ==
  ASSUME ThreadsInv, ThreadsInv', RecoveryInv, NEW t \in Trx, CommitOrdered(t)
  PROVE  RecoveryInv'
<1>0. OrderInv /\ DurableInv /\ PositionsInv /\ OutcomeInv
  BY DEF RecoveryInv
<1>t. /\ engine \in [Trx -> {"active", "prepared", "committed", "rolled back"}]
      /\ group \in [Sessions -> Seq(Trx)] /\ t \in Sessions
  BY Constants DEF ThreadsInv, TypeInv, CoordinatorTypeOK
<1>r. redo \in Seq(Trx) /\ flushed_lsn \in Nat
  BY RedoTypes
<1>d. /\ server = "up" /\ group[t] # <<>>
      /\ UNCHANGED <<server, current_binlog_id, log_requests, flush_notify, flushed_lsn, seen>>
      /\ UNCHANGED <<file, check_purge, binlog_id, to_ask>>
  BY DEF CommitOrdered, At, diskVars, serverVars, listVars, ckptVars, requestVars
<1>u. PICK u \in Trx : u = Head(group[t]) /\ Contains(group[t], u)
  BY <1>t, <1>d, NonemptyList
<1>p. engine[u] = "prepared"
  <2>1. GroupInv
    BY DEF ThreadsInv
  <2>2. t \in Sessions /\ Contains(group[t], u)
    BY <1>t, <1>u
  <2> QED BY <2>1, <2>2 DEF GroupInv
<1>e. \/ UNCHANGED <<engine, redo>>
      \/ engine' = [engine EXCEPT ![u] = "committed"] /\ redo' = Append(redo, u)
  BY <1>u DEF CommitOrdered
<1>c. \A v \in Trx : /\ engine[v] = "committed" => engine'[v] = "committed"
                     /\ engine'[v] = "rolled back" => engine[v] = "rolled back"
  BY <1>e, <1>t
<1>1. OrderInv'
  BY <1>0, CommitOrderedOrder
<1>2. PositionsInv'
  BY <1>0, <1>d DEF PositionsInv
<1>3. OutcomeInv'
  BY <1>0, <1>c, <1>d DEF OutcomeInv
<1>4. ASSUME NEW v \in Trx, NEW n, FlushedTo(v, n) PROVE FlushedTo(v, n)'
  <2>1. v # u /\ engine'[v] = "committed"
    BY <1>4, <1>p, <1>c DEF FlushedTo
  <2>2. \A i \in DOMAIN redo' : redo'[i] = v => i \in DOMAIN redo /\ redo[i] = v
    <3>1. CASE redo' = redo
      BY <3>1
    <3>2. CASE redo' = Append(redo, u)
      <4>1. PICK k \in Nat : k = Len(redo)
        BY <1>r
      <4>2. DOMAIN redo' = 1 .. k + 1 /\ DOMAIN redo = 1 .. k
        BY <1>r, <3>2, <4>1
      <4>3. redo'[k + 1] = u /\ \A i \in 1 .. k : redo'[i] = redo[i]
        BY <1>r, <3>2, <4>1
      <4> QED BY <2>1, <4>2, <4>3
    <3> QED BY <1>e, <3>1, <3>2
  <2> QED BY <1>4, <2>1, <2>2 DEF FlushedTo
<1>5. DurableInv'
  <2> SUFFICES ASSUME NEW v \in Trx, v \notin NeedUnlog, file[v] # NoFile,
                      file[v] < current_binlog_id
               PROVE  Covered(v)'
    BY <1>d DEF DurableInv
  <2>1. Covered(v)
    BY <1>0, <1>d DEF DurableInv
  <2>2. StillAsking /\ flushed_lsn <= flushed_lsn'
    BY <1>r, <1>d DEF StillAsking
  <2> QED BY <2>1, <2>2, <1>4, <1>d, CoveredStays
<1> QED BY <1>1, <1>2, <1>3, <1>5 DEF RecoveryInv

(* open(): the rotating session will ask for the file it leaves.           *)
LEMMA OpenNewRecovery ==
  ASSUME OneEngine, ThreadsInv, ThreadsInv', RecoveryInv, NEW t \in Sessions, OpenNew(t)
  PROVE  RecoveryInv'
<1>0. OrderInv /\ DurableInv /\ PositionsInv /\ OutcomeInv
  BY DEF RecoveryInv
<1>t. /\ check_purge \in [Sessions -> BOOLEAN] /\ flushed_lsn \in Nat
      /\ current_binlog_id \in Nat /\ \A u \in Trx : file[u] \in Nat
  <2>1. CoordinatorTypeOK /\ QueueTypeOK /\ ListTypeInv
    BY DEF ThreadsInv, TypeInv
  <2>2. flushed_lsn \in Nat
    BY RedoTypes
  <2> QED BY <2>1, <2>2, Constants, FilesAreNumbers DEF CoordinatorTypeOK, ListTypeInv
<1>d. /\ server = "up" /\ pc[t] = "open" /\ current_binlog_id' = current_binlog_id + 1
      /\ UNCHANGED <<server, log_requests, flush_notify, flushed_lsn, seen, redo, engine>>
      /\ UNCHANGED <<file, binlog_id, to_ask>>
      /\ check_purge' = [check_purge EXCEPT ![t] = TRUE]
  BY DEF OpenNew, Linked, At, serverVars, engineVars, redoVars, ckptVars, requestVars
<1>1. OrderInv'
  BY <1>0, RotatorOrder
<1>2. PositionsInv'
  BY <1>0, <1>d DEF PositionsInv
<1>3. OutcomeInv'
  BY <1>0, <1>d DEF OutcomeInv
<1>4. DurableInv'
  <2> SUFFICES ASSUME NEW u \in Trx, u \notin NeedUnlog, file[u] # NoFile,
                      file[u] < current_binlog_id + 1
               PROVE  Covered(u)'
    BY <1>d DEF DurableInv
  <2>1. CASE file[u] = current_binlog_id
    <3>1. ~check_purge[t] /\ binlog_id[t] = current_binlog_id
      BY <1>d DEF ThreadsInv, FilesInv
    <3>2. to_ask[t] # <<>>
      BY <3>1, OneEngineToAsk DEF ThreadsInv, FilesInv
    <3>3. check_purge'[t]
      BY <1>t, <1>d
    <3> QED BY <2>1, <3>1, <3>2, <3>3, <1>d DEF Covered, WillAsk
  <2>2. CASE file[u] < current_binlog_id
    <3>1. Covered(u)
      BY <2>2, <1>0, <1>d DEF DurableInv
    <3>2. StillAsking /\ flushed_lsn <= flushed_lsn'
      BY <1>t, <1>d DEF StillAsking
    <3>3. \A n : FlushedTo(u, n) => FlushedTo(u, n)'
      BY <1>d DEF FlushedTo
    <3> QED BY <3>1, <3>2, <3>3, <1>d, CoveredStays
  <2> QED BY <2>1, <2>2, <1>t
<1> QED BY <1>1, <1>2, <1>3, <1>4 DEF RecoveryInv

(* A transaction that a crash would leave in doubt is in a file that has   *)
(* an entry: recovery will not have to look before it, and it is not       *)
(* purged.                                                                 *)
LEMMA InDoubtListed ==
  ASSUME CountsInv, CkptInv, RecoveryInv, server = "up", NEW u \in Trx,
         engine[u] \in {"prepared", "committed"}, ~Durable(u), file[u] # NoFile
  PROVE  file[u] \in index /\ checkpoint[current_binlog_id] <= file[u]
<1>t. ThreadsInv /\ DurableInv
  BY DEF CountsInv, RecoveryInv
<1>f. PICK f \in Files : f = file[u]
  BY <1>t DEF ThreadsInv, TypeInv, CoordinatorTypeOK
<1>w. PICK where \in [Files -> Places] : RequestsInv(where) /\ CountInv(where)
  BY DEF CountsInv, PlacesInv
<1>h. PICK h \in Nat : h = Head(binlog_xid_count_list) /\ h <= current_binlog_id /\ h \in index
  BY <1>t, CurrentListed, Constants DEF ThreadsInv, ListInv
<1>n. current_binlog_id \in Nat /\ f \in Nat /\ f <= current_binlog_id
  BY <1>t, <1>f, Constants DEF ThreadsInv, TypeInv, ListTypeInv, TrxInv, TrxOK
<1>1. h <= f
  <2>1. SUFFICES ASSUME f # current_binlog_id, Unlogging(f) = {}, Holding(f) = {},
                        where[f] = "none"
                 PROVE  FALSE
    BY <1>h, <1>n, <1>w, ReasonCounts
  <2>2. CASE u \in NeedUnlog
    <3>1. ~Contains(unsynced, u)
      <4>1. SUFFICES ASSUME Contains(unsynced, u) PROVE FALSE
        OBVIOUS
      <4>2. PICK l \in Sessions : pc[l] = "write" /\ Contains(group[l], u)
        BY <4>1, <1>t DEF ThreadsInv, GroupInv
      <4>3. file[u] = binlog_id[l] /\ binlog_id[l] = current_binlog_id
        BY <4>2, <1>t DEF ThreadsInv, GroupInv, FilesInv
      <4> QED BY <4>3, <2>1, <1>f
    <3>2. u \notin ToSet(unsynced)
      <4>1. unsynced \in Seq(Trx)
        BY <1>t DEF ThreadsInv, TypeInv, CoordinatorTypeOK
      <4> QED BY <3>1, <4>1, SetOfList
    <3>3. pc[u] \in {"acked", "gone"}
      BY <2>1, <2>2, <3>2, <1>f DEF Unlogging
    <3>4. engine[u] = "committed"
      BY <3>3, <1>t DEF ThreadsInv, TrxInv, TrxOK
    <3>5. PICK i \in flushed_lsn + 1 .. lsn : redo[i] = u
      BY <3>4 DEF Durable
    <3>6. i \in DOMAIN redo
      <4>1. redo \in Seq(Trx) /\ lsn = Len(redo) /\ lsn \in Nat /\ flushed_lsn \in Nat
        BY <1>t, RedoTypes
      <4> QED BY <3>5, <4>1
    <3> QED BY <2>2, <3>5, <3>6, <1>t DEF ThreadsInv, TrxInv
  <2>3. CASE u \notin NeedUnlog
    <3>1. Covered(u)
      BY <2>1, <2>3, <1>t, <1>f, <1>n DEF DurableInv
    <3>2. ~WillAsk(f)
      BY <2>1, <1>t DEF WillAsk, Holding, ThreadsInv, FilesInv
    <3>3. \A r \in Sessions : ~(seen[r] # NoLsn /\ binlog_id[r] = f)
      BY <2>1, <1>t DEF Holding, ThreadsInv, FilesInv
    <3>4. \A i \in DOMAIN log_requests : log_requests[i].cookie # f
      BY <2>1, <1>w DEF RequestsInv
    <3>5. FlushedTo(u, flushed_lsn)
      BY <1>f, <3>1, <3>2, <3>3, <3>4 DEF Covered
    <3>6. Durable(u)
      <4>1. redo \in Seq(Trx) /\ lsn = Len(redo) /\ lsn \in Nat /\ flushed_lsn \in Nat
        BY <1>t, RedoTypes
      <4>2. \A i \in flushed_lsn + 1 .. lsn : i \in DOMAIN redo /\ ~(i <= flushed_lsn)
        BY <4>1
      <4> QED BY <3>5, <4>2 DEF FlushedTo, Durable
    <3> QED BY <3>6
  <2> QED BY <2>2, <2>3
<1>2. f \in index
  <2>1. h .. current_binlog_id \subseteq index
    BY <1>h, <1>t DEF ThreadsInv, ListInv
  <2>2. f \in h .. current_binlog_id
    BY <1>1, <1>h, <1>n
  <2> QED BY <2>1, <2>2
<1>3. checkpoint[current_binlog_id] <= f
  <2>1. checkpoint[current_binlog_id] \in Nat
    BY <1>t, FilesAreNumbers DEF ThreadsInv, TypeInv, ListTypeInv
  <2> QED BY <2>1, <1>1, <1>h, <1>n DEF CkptInv
<1> QED BY <1>2, <1>3, <1>f

(* Nothing is rotated away from, asked or announced while the server is    *)
(* down.                                                                   *)
LEMMA DownRecovery ==
  ASSUME ThreadsInv', server' # "up", PositionsInv', OutcomeInv'
  PROVE  RecoveryInv'
<1>1. \A r \in Sessions : ~check_purge'[r]
  BY DEF ThreadsInv, DownInv
<1>2. OrderInv' /\ DurableInv'
  BY <1>1 DEF OrderInv, DurableInv
<1> QED BY <1>2 DEF RecoveryInv

(* A crash: what is then prepared and in the log was in doubt before.      *)
LEMMA CrashRecovery ==
  ASSUME CountsInv, CkptInv, RecoveryInv, ThreadsInv', Crash
  PROVE  RecoveryInv'
<1>0. ThreadsInv /\ OutcomeInv
  BY DEF CountsInv, RecoveryInv
<1>a. /\ server = "up" /\ server' = "down"
      /\ seen' = [t \in Threads |-> NoLsn] /\ flush_notify' = [t \in Threads |-> NoLsn]
      /\ UNCHANGED <<index, checkpoint, current_binlog_id>>
  BY DEF Crash, QueueForgotten, listVars
<1>e. \A t \in Trx :
        engine'[t] = IF engine[t] = "committed" /\ ~Durable(t) THEN "prepared" ELSE engine[t]
  BY DEF Crash
<1>f. \A t \in Trx : file'[t] = file[t] \/ file'[t] = NoFile
  BY DEF Crash
<1>1. PositionsInv'
  BY <1>a DEF PositionsInv
<1>2. OutcomeInv'
  <2> SUFFICES ASSUME NEW t \in Trx
               PROVE  /\ engine'[t] = "rolled back" => file'[t] = NoFile
                      /\ engine'[t] = "prepared" /\ file'[t] # NoFile =>
                           file'[t] \in index' /\ checkpoint'[current_binlog_id'] <= file'[t]
    BY DEF OutcomeInv
  <2>1. ASSUME engine'[t] = "rolled back" PROVE file'[t] = NoFile
    <3>1. engine[t] = "rolled back"
      BY <1>e, <2>1
    <3> QED BY <3>1, <1>0, <1>f DEF OutcomeInv
  <2>2. ASSUME engine'[t] = "prepared", file'[t] # NoFile
        PROVE  file'[t] \in index' /\ checkpoint'[current_binlog_id'] <= file'[t]
    <3>1. file'[t] = file[t] /\ file[t] # NoFile
      BY <1>f, <2>2
    <3>2. engine[t] \in {"prepared", "committed"} /\ ~Durable(t)
      BY <1>e, <2>2 DEF Durable
    <3>3. file[t] \in index /\ checkpoint[current_binlog_id] <= file[t]
      BY <1>a, <3>1, <3>2, InDoubtListed
    <3> QED BY <1>a, <3>1, <3>3
  <2> QED BY <2>1, <2>2
<1> QED BY <1>0, <1>a, <1>1, <1>2, DownRecovery

(* recover(): all that is in the log is then committed, and durably so.    *)
LEMMA RecoverRecovery ==
  ASSUME ThreadsInv, ThreadsInv', RecoveryInv, Recover
  PROVE  RecoveryInv'
<1>0. OrderInv /\ DurableInv /\ PositionsInv /\ OutcomeInv
  BY DEF RecoveryInv
<1>a. /\ server = "down" /\ server' = "up"
      /\ UNCHANGED <<file, redo, flushed_lsn, seen, flush_notify, check_purge>>
  BY DEF Recover, Recovered, redoVars, localVars, ckptVars, requestVars
<1>d. redo = <<>> /\ \A r \in Sessions : pc[r] \in {"prepare", "acked", "gone"} /\ ~check_purge[r]
  BY <1>a DEF ThreadsInv, DownInv
<1>m. Max(index) = current_binlog_id
  BY LastFile
<1>e. \A t \in Trx : engine'[t] =
        IF engine[t] # "prepared" THEN engine[t]
        ELSE IF t \in Scanned THEN "committed" ELSE "rolled back"
  BY DEF Recover, Recovered
<1>n. \A t \in Trx : file[t] \in Nat
  BY FilesAreNumbers DEF ThreadsInv, TypeInv, CoordinatorTypeOK
<1>c. current_binlog_id \in Files /\ checkpoint[current_binlog_id] \in Nat
  BY FilesAreNumbers DEF ThreadsInv, TypeInv, ListTypeInv
<1>s. \A t \in Trx : engine[t] = "prepared" /\ file[t] # NoFile => t \in Scanned
  <2> SUFFICES ASSUME NEW t \in Trx, engine[t] = "prepared", file[t] # NoFile
               PROVE  t \in Scanned
    OBVIOUS
  <2>1. file[t] \in index /\ checkpoint[current_binlog_id] <= file[t]
    BY <1>0, <1>a DEF OutcomeInv
  <2>2. CanScan
    BY DEF Recover, Recovered
  <2> QED BY <2>1, <2>2, <1>m, <1>n, <1>c DEF Scanned
<1>k. \A t \in Trx : file[t] # NoFile => engine'[t] = "committed"
  <2> SUFFICES ASSUME NEW t \in Trx, file[t] # NoFile
               PROVE  engine'[t] = "committed"
    OBVIOUS
  <2>1. engine[t] \in {"active", "prepared", "committed", "rolled back"} /\ t \in Sessions
    BY Constants DEF ThreadsInv, TypeInv, CoordinatorTypeOK
  <2>2. engine[t] # "rolled back"
    BY <1>0 DEF OutcomeInv
  <2>3. engine[t] # "active"
    BY <1>d, <2>1 DEF ThreadsInv, TrxInv, TrxOK
  <2> QED BY <1>e, <1>s, <2>1, <2>2, <2>3
<1>1. OrderInv'
  BY <1>a, <1>d DEF OrderInv
<1>2. DurableInv'
  <2>1. \A t \in Trx : file[t] # NoFile => FlushedTo(t, flushed_lsn)'
    BY <1>a, <1>d, <1>k DEF FlushedTo
  <2> QED BY <2>1, <1>a DEF DurableInv, Covered
<1>3. PositionsInv'
  BY <1>0, <1>a DEF PositionsInv
<1>4. OutcomeInv'
  BY <1>a, <1>k DEF OutcomeInv
<1> QED BY <1>1, <1>2, <1>3, <1>4 DEF RecoveryInv

(* A restart that gives up, or nothing at all, while the server is down.   *)
LEMMA DownSteps ==
  ASSUME ThreadsInv, ThreadsInv', RecoveryInv,
         RecoverAborts \/ (server # "up" /\ UNCHANGED vars)
  PROVE  RecoveryInv'
<1>0. PositionsInv /\ OutcomeInv
  BY DEF RecoveryInv
<1>a. /\ server' # "up" /\ (server' = "down" => server = "down")
      /\ UNCHANGED <<file, index, checkpoint, current_binlog_id, engine>>
      /\ UNCHANGED <<flushed_lsn, seen, flush_notify>>
  BY DEF RecoverAborts, vars, diskVars, engineVars, redoVars, listVars, ckptVars, requestVars,
     serverVars
<1>1. PositionsInv'
  BY <1>0, <1>a DEF PositionsInv
<1>2. OutcomeInv'
  BY <1>0, <1>a DEF OutcomeInv
<1> QED BY <1>a, <1>1, <1>2, DownRecovery

(* Nothing is logged or committed when the server is first started.        *)
LEMMA InitRecovery == ASSUME Init PROVE RecoveryInv
<1>1. /\ file = [t \in Trx |-> NoFile] /\ engine = [t \in Trx |-> "active"] /\ server = "up"
      /\ check_purge = [t \in Sessions |-> FALSE]
      /\ seen = [t \in Threads |-> NoLsn] /\ flush_notify = [t \in Threads |-> NoLsn]
  BY DEF Init, QueueInit
<1> QED BY <1>1 DEF RecoveryInv, OrderInv, DurableInv, PositionsInv, OutcomeInv

(* Every step keeps what recovery depends on.                              *)
LEMMA NextRecovery ==
  ASSUME OneEngine, Ordering, CountsInv, CountsInv', CkptInv, RecoveryInv, [Next]_vars
  PROVE  RecoveryInv'
<1>t. ThreadsInv /\ ThreadsInv'
  BY DEF CountsInv
<1>1. CASE \E t \in Trx : Transaction(t)
  <2>1. PICK t \in Trx : Transaction(t)
    BY <1>1
  <2>2. t \in Sessions
    BY Constants
  <2>3. CASE CommitOrdered(t)
    BY <1>t, <2>3, CommitOrderedRecovery
  <2>4. CASE NoRotate(t) \/ LeaderSync(t) \/ Unlog(t)
    BY <1>t, <2>2, <2>4, PlainSteps
  <2>5. CASE \/ Prepare(t) \/ LeaderLockLog(t) \/ CommitEngine(t)
             \/ \E u \in Trx : LeaderWrite(t, u)
    BY <1>t, <2>5, TransactionSteps
  <2> QED BY <2>1, <2>3, <2>4, <2>5 DEF Transaction
<1>2. CASE \E t \in Sessions : Session(t)
  <2>1. PICK t \in Sessions : Session(t)
    BY <1>2
  <2>2. CASE RotatorLockLog(t)
    BY <1>t, <2>2, TransactionSteps
  <2>3. CASE \/ Rotate(t) \/ RotateFails(t) \/ ReleaseLog(t)
             \/ CommitLock(t) \/ CommitUnlock(t) \/ Requested(t)
    BY <1>t, <2>3, PlainSteps
  <2>4. CASE OpenNew(t) \/ RequestCheckpoint(t) \/ InnodbQueues(t)
    BY <1>t, <2>4, OpenNewRecovery, RequestCheckpointRecovery, InnodbQueuesRecovery
  <2> QED BY <2>1, <2>2, <2>3, <2>4 DEF Session
<1>3. CASE \E t \in Threads : Notifies(t)
  <2>1. PICK t \in Threads : Notifies(t)
    BY <1>3
  <2>2. QueueStep(FlushNotify(t)) \/ QueueStep(Notify(t))
    BY <2>1 DEF Notifies, QueueStep
  <2> QED BY <1>t, <2>2, FlushNotifyRecovery, PlainSteps
<1>4. CASE \/ \E t \in Markers : MarkStep(t)
           \/ BackgroundQueue \/ BackgroundMark \/ Purge
  BY <1>t, <1>4, PlainSteps
<1>5. CASE FlushRedo
  BY <1>t, <1>5, TransactionSteps
<1>6. CASE Crash \/ Recover \/ RecoverAborts
  BY <1>t, <1>6, CrashRecovery, RecoverRecovery, DownSteps
<1>7. CASE Finished \/ UNCHANGED vars
  <2>1. UNCHANGED vars
    BY <1>7 DEF Finished
  <2>2. CASE server = "up"
    BY <1>t, <2>1, <2>2, PlainSteps
  <2>3. CASE server # "up"
    BY <1>t, <2>1, <2>3, DownSteps
  <2> QED BY <2>2, <2>3
<1> QED BY <1>1, <1>2, <1>3, <1>4, <1>5, <1>6, <1>7 DEF Next

(* The three parts hold together in every reachable state.                 *)
LEMMA RecoveryInvariant ==
  ASSUME OneEngine, Ordering
  PROVE  Spec => [](CountsInv /\ CkptInv /\ RecoveryInv)
<1>1. Init => CkptInv /\ RecoveryInv
  BY InitCkpt, InitRecovery
<1>2. CountsInv /\ CountsInv' /\ CkptInv /\ RecoveryInv /\ [Next]_vars => CkptInv' /\ RecoveryInv'
  BY NextCkpt, NextRecovery
<1> QED BY <1>1, <1>2, CountsInvariant, PTL DEF Spec

(* The file that the last binlog checkpoint event names is early enough:   *)
(* whatever is prepared in an engine, or committed there without being     *)
(* durable, and in the binary log, is found by a recovery that starts from *)
(* it - at every moment between a rotation, the commit checkpoint it       *)
(* requests from InnoDB, the answer, and the new event, if the named file  *)
(* is in the index.  CheckpointRenewal says when it may not be.            *)
THEOREM CheckpointCoverage ==
  ASSUME OneEngine, Ordering
  PROVE  Spec => []CheckpointFinds
<1>1. ASSUME CountsInv, CkptInv, RecoveryInv PROVE CheckpointFinds
  <2>0. ThreadsInv
    BY <1>1 DEF CountsInv
  <2>1. SUFFICES ASSUME server # "aborted", CanScan,
                        NEW t \in Trx, InDoubt(t), Logged(t)
                 PROVE  t \in Scanned
    BY DEF CheckpointFinds
  <2>2. engine[t] \in {"prepared", "committed"} /\ ~Durable(t) /\ file[t] # NoFile
    BY <2>1 DEF InDoubt, Logged
  <2>3. file[t] \in index /\ checkpoint[current_binlog_id] <= file[t]
    <3>1. CASE server = "up"
      BY <1>1, <2>2, <3>1, InDoubtListed
    <3>2. CASE server # "up"
      <4>1. redo = <<>> /\ server = "down"
        BY <2>0, <2>1, <3>2 DEF ThreadsInv, DownInv, TypeInv, CoordinatorTypeOK
      <4>2. lsn = 0 /\ flushed_lsn \in Nat
        BY <2>0, <4>1, RedoTypes
      <4>3. engine[t] = "committed" => Durable(t)
        BY <4>2 DEF Durable
      <4>4. engine[t] = "prepared"
        BY <2>2, <4>3
      <4> QED BY <1>1, <2>2, <4>1, <4>4 DEF RecoveryInv, OutcomeInv
    <3> QED BY <3>1, <3>2
  <2>4. file[t] \in Nat /\ checkpoint[current_binlog_id] \in Nat
    BY <2>0, FilesAreNumbers DEF ThreadsInv, TypeInv, ListTypeInv
  <2>5. Max(index) = current_binlog_id
    BY <2>0, LastFile
  <2> QED BY <2>1, <2>3, <2>4, <2>5 DEF Scanned
<1> QED BY <1>1, RecoveryInvariant, PTL

(* The engines agree with the binary log after any number of crashes: what *)
(* a client was told to be committed is committed and logged, and what a   *)
(* crash left undecided is committed if and only if it is logged.          *)
THEOREM RecoveryAgrees ==
  ASSUME OneEngine, Ordering
  PROVE  Spec => []EngineMatchesBinlog
<1>1. ASSUME CountsInv, RecoveryInv PROVE EngineMatchesBinlog
  <2>1. SUFFICES ASSUME server = "up", NEW t \in Trx
                 PROVE  /\ pc[t] = "acked" => engine[t] = "committed" /\ file[t] # NoFile
                        /\ pc[t] = "gone" => (engine[t] = "committed") = (file[t] # NoFile)
    BY DEF EngineMatchesBinlog
  <2>2. TrxOK(t) /\ engine[t] \in {"active", "prepared", "committed", "rolled back"}
    BY <1>1 DEF CountsInv, ThreadsInv, TrxInv, TypeInv, CoordinatorTypeOK
  <2>3. engine[t] = "rolled back" => file[t] = NoFile
    BY <1>1 DEF RecoveryInv, OutcomeInv
  <2>4. CASE pc[t] = "acked"
    BY <2>1, <2>2, <2>3, <2>4 DEF TrxOK
  <2>5. CASE pc[t] = "gone"
    BY <2>1, <2>2, <2>3, <2>5 DEF TrxOK
  <2> QED BY <2>4, <2>5
<1> QED BY <1>1, RecoveryInvariant, PTL
=============================================================================
