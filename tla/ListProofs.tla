---------------------------- MODULE ListProofs -----------------------------
(***************************************************************************)
(* Lemmas about lists without duplicates, and an induction principle that  *)
(* takes a set of numbers for the property to be proved.                   *)
(***************************************************************************)
EXTENDS Naturals, Sequences, SequencesExt, FiniteSets, SequenceTheorems,
        FiniteSetTheorems, WellFoundedInduction, TLAPS

(* Induction over the natural numbers, for the numbers in a set.           *)
LEMMA InductiveSet ==
  ASSUME NEW I, 0 \in I, \A n \in Nat : n \in I => n + 1 \in I
  PROVE  Nat \subseteq I
<1> DEFINE T == Nat \ I
           R == {ss \in Nat \X Nat : ss[1] < ss[2]}
<1>1. IsWellFoundedOn(R, Nat)
  BY NatLessThanWellFounded DEF OpToRel
<1>2. SUFFICES ASSUME T # {} PROVE FALSE
  OBVIOUS
<1> HIDE DEF R
<1>3. PICK x \in T : \A y \in T : ~(<<y, x>> \in R)
  BY <1>1, <1>2, WFMin
<1> USE DEF R
<1>4. x \in Nat /\ x # 0 /\ x - 1 \in Nat /\ x - 1 < x
  BY <1>3
<1>5. <<x - 1, x>> \in R
  BY <1>4
<1>6. x - 1 \notin T
  BY <1>3, <1>5
<1>7. x - 1 \in I
  BY <1>4, <1>6
<1>8. (x - 1) + 1 \in I
  BY <1>4, <1>7
<1> QED BY <1>3, <1>4, <1>8

(* The lists an operation builds have the elements one expects, each once. *)
LEMMA EmptyList ==
  ASSUME NEW S
  PROVE  /\ <<>> \in Seq(S)
         /\ IsInjective(<<>>)
         /\ \A u : ~Contains(<<>>, u)
BY DEF IsInjective, Contains

(* A list that contains nothing is empty.                                  *)
LEMMA NonemptyList ==
  ASSUME NEW S, NEW s \in Seq(S), s # <<>>
  PROVE  Contains(s, Head(s)) /\ Head(s) \in S
BY DEF Contains

(* The elements of a list belong to the set it is a list of.               *)
LEMMA ElementOfList ==
  ASSUME NEW S, NEW s \in Seq(S), NEW u, Contains(s, u)
  PROVE  u \in S
BY DEF Contains

(* push_front()                                                            *)
LEMMA PushList ==
  ASSUME NEW S, NEW s \in Seq(S), NEW t \in S
  PROVE  /\ <<t>> \o s \in Seq(S)
         /\ \A u : Contains(<<t>> \o s, u) <=> u = t \/ Contains(s, u)
         /\ IsInjective(s) /\ ~Contains(s, t) => IsInjective(<<t>> \o s)
<1>1. <<t>> \o s \in Seq(S) /\ Len(<<t>> \o s) = Len(s) + 1
  OBVIOUS
<1>2. /\ (<<t>> \o s)[1] = t
      /\ \A i \in 1 .. Len(s) : (<<t>> \o s)[i + 1] = s[i]
      /\ \A i \in 2 .. Len(s) + 1 : (<<t>> \o s)[i] = s[i - 1]
  OBVIOUS
<1>3. \A u : Contains(<<t>> \o s, u) <=> u = t \/ Contains(s, u)
  <2>1. ASSUME NEW u, Contains(<<t>> \o s, u) PROVE u = t \/ Contains(s, u)
    BY <2>1, <1>1, <1>2 DEF Contains
  <2>2. ASSUME NEW u, Contains(s, u) PROVE Contains(<<t>> \o s, u)
    <3>1. PICK i \in 1 .. Len(s) : s[i] = u
      BY <2>2 DEF Contains
    <3>2. i + 1 \in 1 .. Len(<<t>> \o s) /\ (<<t>> \o s)[i + 1] = u
      BY <3>1, <1>1, <1>2
    <3> QED BY <3>2 DEF Contains
  <2>3. Contains(<<t>> \o s, t)
    BY <1>1, <1>2 DEF Contains
  <2> QED BY <2>1, <2>2, <2>3
<1>4. ASSUME IsInjective(s), ~Contains(s, t) PROVE IsInjective(<<t>> \o s)
  <2> SUFFICES ASSUME NEW i \in 1 .. Len(s) + 1, NEW j \in 1 .. Len(s) + 1,
                      (<<t>> \o s)[i] = (<<t>> \o s)[j]
               PROVE  i = j
    BY <1>1 DEF IsInjective
  <2> QED BY <1>1, <1>2, <1>4 DEF IsInjective, Contains
<1> QED BY <1>1, <1>3, <1>4

(* push_back()                                                             *)
LEMMA AppendList ==
  ASSUME NEW S, NEW s \in Seq(S), NEW t \in S
  PROVE  /\ Append(s, t) \in Seq(S)
         /\ Append(s, t) # <<>>
         /\ \A u : Contains(Append(s, t), u) <=> u = t \/ Contains(s, u)
         /\ IsInjective(s) /\ ~Contains(s, t) => IsInjective(Append(s, t))
<1>1. \A u : Contains(Append(s, t), u) <=> u = t \/ Contains(s, u)
  <2>1. ASSUME NEW u, Contains(Append(s, t), u) PROVE u = t \/ Contains(s, u)
    BY <2>1 DEF Contains
  <2>2. ASSUME NEW u, Contains(s, u) PROVE Contains(Append(s, t), u)
    BY <2>2 DEF Contains
  <2>3. Contains(Append(s, t), t)
    BY DEF Contains
  <2> QED BY <2>1, <2>2, <2>3
<1>2. ASSUME IsInjective(s), ~Contains(s, t) PROVE IsInjective(Append(s, t))
  BY <1>2 DEF IsInjective, Contains
<1> QED BY <1>1, <1>2

(* One list after another.                                                 *)
LEMMA ConcatList ==
  ASSUME NEW S, NEW r \in Seq(S), NEW s \in Seq(S)
  PROVE  /\ r \o s \in Seq(S)
         /\ \A u : Contains(r \o s, u) <=> Contains(r, u) \/ Contains(s, u)
         /\ IsInjective(r) /\ IsInjective(s) /\
            (\A u : ~(Contains(r, u) /\ Contains(s, u))) => IsInjective(r \o s)
<1>1. /\ r \o s \in Seq(S) /\ Len(r \o s) = Len(r) + Len(s)
      /\ DOMAIN (r \o s) = 1 .. Len(r) + Len(s)
      /\ Len(r) \in Nat /\ Len(s) \in Nat
      /\ DOMAIN r = 1 .. Len(r) /\ DOMAIN s = 1 .. Len(s)
  OBVIOUS
<1>2. /\ \A i \in 1 .. Len(r) : (r \o s)[i] = r[i]
      /\ \A i \in 1 .. Len(s) : (r \o s)[Len(r) + i] = s[i]
  OBVIOUS
<1>2a. \A i \in 1 .. Len(r) + Len(s) : i \notin 1 .. Len(r) =>
          i - Len(r) \in 1 .. Len(s) /\ (r \o s)[i] = s[i - Len(r)]
  BY <1>1
<1>3. \A u : Contains(r \o s, u) <=> Contains(r, u) \/ Contains(s, u)
  <2>1. ASSUME NEW u, Contains(r \o s, u)
        PROVE  Contains(r, u) \/ Contains(s, u)
    BY <2>1, <1>1, <1>2, <1>2a DEF Contains
  <2>2. ASSUME NEW u, Contains(r, u) PROVE Contains(r \o s, u)
    BY <2>2, <1>1, <1>2 DEF Contains
  <2>3. ASSUME NEW u, Contains(s, u) PROVE Contains(r \o s, u)
    <3>1. PICK i \in 1 .. Len(s) : s[i] = u
      BY <2>3 DEF Contains
    <3>2. Len(r) + i \in 1 .. Len(r \o s) /\ (r \o s)[Len(r) + i] = u
      BY <3>1, <1>1, <1>2
    <3> QED BY <3>2 DEF Contains
  <2> QED BY <2>1, <2>2, <2>3
<1>4. ASSUME IsInjective(r), IsInjective(s),
             \A u : ~(Contains(r, u) /\ Contains(s, u))
      PROVE  IsInjective(r \o s)
  <2> SUFFICES ASSUME NEW i \in 1 .. Len(r) + Len(s),
                      NEW j \in 1 .. Len(r) + Len(s),
                      (r \o s)[i] = (r \o s)[j]
               PROVE  i = j
    BY <1>1 DEF IsInjective
  <2>1. CASE i \in 1 .. Len(r) /\ j \in 1 .. Len(r)
    BY <2>1, <1>1, <1>2, <1>4 DEF IsInjective
  <2>2. CASE i \notin 1 .. Len(r) /\ j \notin 1 .. Len(r)
    <3>1. /\ i - Len(r) \in DOMAIN s /\ (r \o s)[i] = s[i - Len(r)]
          /\ j - Len(r) \in DOMAIN s /\ (r \o s)[j] = s[j - Len(r)]
      BY <2>2, <1>1, <1>2a
    <3>2. i - Len(r) = j - Len(r)
      BY <3>1, <1>4 DEF IsInjective
    <3> QED BY <3>2, <1>1
  <2>3. CASE i \in 1 .. Len(r) /\ j \notin 1 .. Len(r)
    <3>1. Contains(r, (r \o s)[i])
      BY <2>3, <1>2 DEF Contains
    <3>2. Contains(s, (r \o s)[j])
      BY <2>3, <1>2a DEF Contains
    <3> QED BY <3>1, <3>2, <1>4
  <2>4. CASE i \notin 1 .. Len(r) /\ j \in 1 .. Len(r)
    <3>1. Contains(r, (r \o s)[j])
      BY <2>4, <1>2 DEF Contains
    <3>2. Contains(s, (r \o s)[i])
      BY <2>4, <1>2a DEF Contains
    <3> QED BY <3>1, <3>2, <1>4
  <2> QED BY <2>1, <2>2, <2>3, <2>4
<1> QED BY <1>1, <1>3, <1>4

(* Removing an element takes it out and keeps the others.                  *)
LEMMA RemoveList ==
  ASSUME NEW S, NEW s \in Seq(S), NEW t, IsInjective(s)
  PROVE  /\ RemoveFirst(s, t) \in Seq(S)
         /\ IsInjective(RemoveFirst(s, t))
         /\ \A u : Contains(RemoveFirst(s, t), u) <=> Contains(s, u) /\ u # t
<1>1. CASE ~Contains(s, t)
  BY <1>1 DEF RemoveFirst, Contains
<1>2. CASE Contains(s, t)
  <2> DEFINE I == {i \in 1 .. Len(s) : s[i] = t}
  <2>1. PICK k \in 1 .. Len(s) : s[k] = t
    BY <1>2 DEF Contains
  <2>2. I = {k}
    BY <2>1 DEF IsInjective
  <2>3. SelectInSeq(s, LAMBDA v : v = t) = k
    <3>1. SelectInSeq(s, LAMBDA v : v = t) = IF I # {} THEN Min(I) ELSE 0
      BY DEF SelectInSeq
    <3>2. Min({k}) = k
      BY DEF Min
    <3> QED BY <3>1, <3>2, <2>2
  <2> DEFINE a == SubSeq(s, 1, k - 1)
             b == SubSeq(s, k + 1, Len(s))
             r == a \o b
  <2>4. RemoveFirst(s, t) = r
    BY <2>1, <2>3 DEF RemoveFirst, RemoveAt
  <2>5. /\ a \in Seq(S) /\ Len(a) = k - 1
        /\ \A i \in 1 .. k - 1 : a[i] = s[i]
    OBVIOUS
  <2>6. /\ b \in Seq(S) /\ Len(b) = Len(s) - k
        /\ \A i \in 1 .. Len(s) - k : b[i] = s[k + i]
    OBVIOUS
  <2> HIDE DEF a, b
  <2>7. IsInjective(a) /\ IsInjective(b)
    <3>1. IsInjective(a)
      BY <2>5 DEF IsInjective
    <3>2. ASSUME NEW i \in 1 .. Len(b), NEW j \in 1 .. Len(b), b[i] = b[j]
          PROVE  i = j
      <4>1. /\ k + i \in DOMAIN s /\ b[i] = s[k + i]
            /\ k + j \in DOMAIN s /\ b[j] = s[k + j]
        BY <2>6
      <4>2. k + i = k + j
        BY <3>2, <4>1 DEF IsInjective
      <4> QED BY <4>2, <2>6
    <3> QED BY <3>1, <3>2, <2>6 DEF IsInjective
  <2>8. \A u : Contains(a, u) <=> \E i \in 1 .. k - 1 : s[i] = u
    BY <2>5 DEF Contains
  <2>9. \A u : Contains(b, u) <=> \E i \in k + 1 .. Len(s) : s[i] = u
    <3>1. ASSUME NEW u, Contains(b, u)
          PROVE  \E i \in k + 1 .. Len(s) : s[i] = u
      BY <3>1, <2>6 DEF Contains
    <3>2. ASSUME NEW u, NEW i \in k + 1 .. Len(s), s[i] = u
          PROVE  Contains(b, u)
      <4>1. i - k \in 1 .. Len(b) /\ b[i - k] = s[i]
        BY <2>6
      <4> QED BY <4>1, <3>2 DEF Contains
    <3> QED BY <3>1, <3>2
  <2>10. \A u : ~(Contains(a, u) /\ Contains(b, u))
    BY <2>8, <2>9 DEF IsInjective
  <2>11. /\ r \in Seq(S) /\ IsInjective(r)
         /\ \A u : Contains(r, u) <=> Contains(a, u) \/ Contains(b, u)
    BY <2>5, <2>6, <2>7, <2>10, ConcatList
  <2>12. \A u : Contains(a, u) \/ Contains(b, u) <=> Contains(s, u) /\ u # t
    <3>1. ASSUME NEW u, Contains(a, u) \/ Contains(b, u)
          PROVE  Contains(s, u) /\ u # t
      <4>1. PICK i \in 1 .. Len(s) : i # k /\ s[i] = u
        BY <3>1, <2>8, <2>9
      <4> QED BY <4>1, <2>1 DEF Contains, IsInjective
    <3>2. ASSUME NEW u, Contains(s, u), u # t
          PROVE  Contains(a, u) \/ Contains(b, u)
      <4>1. PICK i \in 1 .. Len(s) : s[i] = u
        BY <3>2 DEF Contains
      <4>2. i \in 1 .. k - 1 \/ i \in k + 1 .. Len(s)
        BY <4>1, <3>2, <2>1
      <4> QED BY <4>1, <4>2, <2>8, <2>9
    <3> QED BY <3>1, <3>2
  <2> QED BY <2>4, <2>11, <2>12
<1> QED BY <1>1, <1>2

(* A list read from its end has the same elements.                         *)
LEMMA ReverseList ==
  ASSUME NEW S, NEW s \in Seq(S)
  PROVE  /\ Reverse(s) \in Seq(S)
         /\ \A u : Contains(Reverse(s), u) <=> Contains(s, u)
         /\ IsInjective(s) => IsInjective(Reverse(s))
<1>1. /\ Reverse(s) \in Seq(S) /\ Len(Reverse(s)) = Len(s)
      /\ DOMAIN Reverse(s) = 1 .. Len(s)
      /\ \A i \in 1 .. Len(s) : Reverse(s)[i] = s[Len(s) - i + 1]
  BY DEF Reverse
<1>2. \A i \in 1 .. Len(s) : Len(s) - i + 1 \in 1 .. Len(s)
  OBVIOUS
<1>3. ASSUME NEW u, Contains(Reverse(s), u) PROVE Contains(s, u)
  BY <1>1, <1>2, <1>3 DEF Contains
<1>4. ASSUME NEW u, Contains(s, u) PROVE Contains(Reverse(s), u)
  <2>1. PICK i \in 1 .. Len(s) : s[i] = u
    BY <1>4 DEF Contains
  <2>2. /\ Len(s) - i + 1 \in 1 .. Len(s)
        /\ Len(s) - (Len(s) - i + 1) + 1 = i
    OBVIOUS
  <2>3. Reverse(s)[Len(s) - i + 1] = u
    BY <2>1, <2>2, <1>1
  <2> QED BY <2>2, <2>3, <1>1 DEF Contains
<1>5. ASSUME IsInjective(s) PROVE IsInjective(Reverse(s))
  <2> SUFFICES ASSUME NEW i \in 1 .. Len(s), NEW j \in 1 .. Len(s),
                      Reverse(s)[i] = Reverse(s)[j]
               PROVE  i = j
    BY <1>1 DEF IsInjective
  <2>1. /\ Len(s) - i + 1 \in DOMAIN s /\ Len(s) - j + 1 \in DOMAIN s
        /\ s[Len(s) - i + 1] = s[Len(s) - j + 1]
    BY <1>1, <1>2
  <2>2. Len(s) - i + 1 = Len(s) - j + 1
    BY <2>1, <1>5 DEF IsInjective
  <2> QED BY <2>2
<1> QED BY <1>1, <1>3, <1>4, <1>5

(* The head goes, the rest stays.                                          *)
LEMMA TailList ==
  ASSUME NEW S, NEW s \in Seq(S), s # <<>>, IsInjective(s)
  PROVE  /\ Tail(s) \in Seq(S) /\ Head(s) \in S
         /\ IsInjective(Tail(s))
         /\ \A u : Contains(Tail(s), u) <=> Contains(s, u) /\ u # Head(s)
         /\ Contains(s, Head(s))
<1>1. /\ Tail(s) \in Seq(S) /\ Len(Tail(s)) = Len(s) - 1
      /\ \A i \in 1 .. Len(s) - 1 : Tail(s)[i] = s[i + 1]
      /\ Head(s) = s[1] /\ 1 \in 1 .. Len(s)
  OBVIOUS
<1>2. IsInjective(Tail(s))
  BY <1>1 DEF IsInjective
<1>3. ASSUME NEW u, Contains(Tail(s), u) PROVE Contains(s, u) /\ u # Head(s)
  BY <1>1, <1>3 DEF Contains, IsInjective
<1>4. ASSUME NEW u, Contains(s, u), u # Head(s) PROVE Contains(Tail(s), u)
  <2>1. PICK i \in 1 .. Len(s) : s[i] = u
    BY <1>4 DEF Contains
  <2>2. i - 1 \in 1 .. Len(s) - 1 /\ Tail(s)[i - 1] = s[i]
    BY <2>1, <1>1, <1>4
  <2> QED BY <2>1, <2>2, <1>1 DEF Contains
<1>5. Contains(s, Head(s)) /\ Head(s) \in S
  BY <1>1 DEF Contains
<1> QED BY <1>1, <1>2, <1>3, <1>4, <1>5

(* The set of the elements of a list.                                      *)
LEMMA SetOfList ==
  ASSUME NEW S, NEW s \in Seq(S)
  PROVE  /\ \A u : u \in ToSet(s) <=> Contains(s, u)
         /\ ToSet(s) \subseteq S
         /\ IsFiniteSet(ToSet(s))
<1>1. \A u : u \in ToSet(s) <=> Contains(s, u)
  BY DEF ToSet, Contains
<1>2. IsFiniteSet(ToSet(s))
  <2> DEFINE f == [i \in 1 .. Len(s) |-> s[i]]
  <2>1. IsFiniteSet(1 .. Len(s))
    BY FS_Interval, 1 \in Int, Len(s) \in Int
  <2>2. f \in Surjection(1 .. Len(s), ToSet(s))
    BY DEF Surjection, ToSet
  <2> QED BY <2>1, <2>2, FS_Surjection
<1> QED BY <1>1, <1>2, ElementOfList
=============================================================================
