--------------------------- MODULE MdlListProofs ---------------------------
(***************************************************************************)
(* Lemmas about what Mdl is built from: savepoints in ticket lists, the    *)
(* bitmaps and counters of an MDL_lock, the compatibility of lock types.   *)
(***************************************************************************)
EXTENDS Mdl, ListProofs

(* StoredBefore keeps what comes before the first x, of a list in which    *)
(* nothing comes twice.                                                    *)
LEMMA BeforeList ==
  ASSUME NEW S, NEW s \in Seq(S), NEW x, IsInjective(s)
  PROVE  /\ StoredBefore(s, x) \in Seq(S)
         /\ IsInjective(StoredBefore(s, x))
         /\ \A u : Contains(StoredBefore(s, x), u) <=>
              \E i \in 1 .. Len(s) : s[i] = u /\ \A j \in 1 .. i : s[j] # x
<1>1. CASE ~Contains(s, x)
  BY <1>1 DEF StoredBefore, Contains
<1>2. CASE Contains(s, x)
  <2>1. PICK k \in 1 .. Len(s) : s[k] = x
    BY <1>2 DEF Contains
  <2>2. (CHOOSE i \in 1 .. Len(s) : s[i] = x) = k
    BY <2>1 DEF IsInjective
  <2> DEFINE a == SubSeq(s, 1, k - 1)
  <2>3. StoredBefore(s, x) = a
    BY <1>2, <2>2 DEF StoredBefore
  <2>4. /\ a \in Seq(S) /\ Len(a) = k - 1
        /\ \A i \in 1 .. k - 1 : a[i] = s[i]
    OBVIOUS
  <2> HIDE DEF a
  <2>5. IsInjective(a)
    BY <2>4 DEF IsInjective
  <2>6. ASSUME NEW u, Contains(a, u)
        PROVE  \E i \in 1 .. Len(s) : s[i] = u /\ \A j \in 1 .. i : s[j] # x
    <3>1. PICK i \in 1 .. k - 1 : s[i] = u
      BY <2>4, <2>6 DEF Contains
    <3>2. \A j \in 1 .. i : s[j] # x
      BY <2>1, <3>1 DEF IsInjective
    <3> QED BY <3>1, <3>2
  <2>7. ASSUME NEW u, NEW i \in 1 .. Len(s), s[i] = u,
               \A j \in 1 .. i : s[j] # x
        PROVE  Contains(a, u)
    <3>1. i \in 1 .. k - 1
      BY <2>1, <2>7
    <3> QED BY <3>1, <2>4, <2>7 DEF Contains
  <2> QED BY <2>3, <2>4, <2>5, <2>6, <2>7
<1> QED BY <1>1, <1>2

(* What comes before x is in the list.                                     *)
LEMMA BeforeInList ==
  ASSUME NEW S, NEW s \in Seq(S), NEW x, IsInjective(s), NEW u,
         Contains(StoredBefore(s, x), u)
  PROVE  Contains(s, u)
BY BeforeList DEF Contains

(* A savepoint is a ticket of the list, or none.                           *)
LEMMA NewestInList ==
  ASSUME NEW S, NEW s \in Seq(S)
  PROVE  /\ Newest(s) \in S \cup {NoTicket}
         /\ Newest(s) # NoTicket => Contains(s, Newest(s))
BY DEF Newest, Contains

(* A savepoint in a list that has not grown since: nothing comes before.   *)
LEMMA BeforeNewest ==
  ASSUME NEW S, NEW s \in Seq(S), IsInjective(s), NEW u
  PROVE  ~Contains(StoredBefore(s, Newest(s)), u)
<1>1. CASE s = <<>>
  <2>1. ~Contains(s, u) /\ ~Contains(s, Newest(s))
    BY <1>1 DEF Contains
  <2> QED BY <2>1 DEF StoredBefore
<1>2. CASE s # <<>>
  <2>1. Newest(s) = s[1] /\ \A i \in 1 .. Len(s) : 1 \in 1 .. i
    BY <1>2 DEF Newest
  <2> DEFINE x == Newest(s)
  <2> HIDE DEF x
  <2>2. Contains(StoredBefore(s, x), u) <=>
          \E i \in 1 .. Len(s) : s[i] = u /\ \A j \in 1 .. i : s[j] # x
    BY BeforeList
  <2>3. x = s[1]
    BY <2>1 DEF x
  <2>4. ~Contains(StoredBefore(s, x), u)
    BY <2>1, <2>2, <2>3
  <2> QED BY <2>4 DEF x
<1> QED BY <1>1, <1>2

(* A ticket pushed on a list comes before any savepoint in it.             *)
LEMMA BeforePush ==
  ASSUME NEW S, NEW s \in Seq(S), NEW x, IsInjective(s),
         NEW t \in S, ~Contains(s, t), t # x, NEW u
  PROVE  Contains(StoredBefore(<<t>> \o s, x), u) <=>
           u = t \/ Contains(StoredBefore(s, x), u)
<1> DEFINE r == <<t>> \o s
<1>1. r \in Seq(S) /\ IsInjective(r)
  BY PushList
<1>2. /\ Len(r) = Len(s) + 1 /\ r[1] = t
      /\ \A i \in 1 .. Len(s) : r[i + 1] = s[i]
      /\ \A i \in 2 .. Len(s) + 1 : i - 1 \in 1 .. Len(s) /\ r[i] = s[i - 1]
  OBVIOUS
<1> HIDE DEF r
<1>3. Contains(StoredBefore(r, x), u) <=>
        \E i \in 1 .. Len(r) : r[i] = u /\ \A j \in 1 .. i : r[j] # x
  BY <1>1, BeforeList
<1>4. Contains(StoredBefore(s, x), u) <=>
        \E i \in 1 .. Len(s) : s[i] = u /\ \A j \in 1 .. i : s[j] # x
  BY BeforeList
<1>5. ASSUME NEW i \in 1 .. Len(r), r[i] = u, \A j \in 1 .. i : r[j] # x
      PROVE  u = t \/ Contains(StoredBefore(s, x), u)
  <2>1. CASE i = 1
    BY <2>1, <1>2, <1>5
  <2>2. CASE i # 1
    <3>1. i - 1 \in 1 .. Len(s) /\ s[i - 1] = u
      BY <2>2, <1>2, <1>5
    <3>2. \A j \in 1 .. i - 1 : s[j] # x
      <4> TAKE j \in 1 .. i - 1
      <4>1. j + 1 \in 1 .. i /\ j \in 1 .. Len(s) /\ r[j + 1] = s[j]
        BY <1>2
      <4> QED BY <4>1, <1>5
    <3> QED BY <3>1, <3>2, <1>4
  <2> QED BY <2>1, <2>2
<1>6. ASSUME u = t PROVE Contains(StoredBefore(r, x), u)
  <2>1. 1 \in 1 .. Len(r) /\ r[1] = u /\ \A j \in 1 .. 1 : r[j] # x
    BY <1>2, <1>6
  <2> QED BY <2>1, <1>3
<1>7. ASSUME NEW i \in 1 .. Len(s), s[i] = u, \A j \in 1 .. i : s[j] # x
      PROVE  Contains(StoredBefore(r, x), u)
  <2>1. i + 1 \in 1 .. Len(r) /\ r[i + 1] = u
    BY <1>2, <1>7
  <2>2. \A j \in 1 .. i + 1 : r[j] # x
    BY <1>2, <1>7
  <2> QED BY <2>1, <2>2, <1>3
<1> QED BY <1>3, <1>4, <1>5, <1>6, <1>7 DEF r

(* The compatibility tables are symmetric.                                 *)
LEMMA SymmetricTables ==
  ASSUME NEW x \in Types, NEW y \in Types
  PROVE  /\ x \in ObjectGrantedIncompatible[y] => y \in ObjectGrantedIncompatible[x]
         /\ x \in ScopedGrantedIncompatible[y] => y \in ScopedGrantedIncompatible[x]
<1>1. x \in ObjectGrantedIncompatible[y] => y \in ObjectGrantedIncompatible[x]
  BY DEF Types, ObjectGrantedIncompatible
<1>2. x \in ScopedGrantedIncompatible[y] => y \in ScopedGrantedIncompatible[x]
  BY DEF Types, ScopedGrantedIncompatible
<1> QED BY <1>1, <1>2

(* Whichever strategy a lock has, incompatibility is symmetric.            *)
LEMMA IncompatibleSymmetric ==
  ASSUME NEW l \in Locks, NEW x \in Types, NEW y \in Types,
         x \in Incompatible(l, y)
  PROVE  y \in Incompatible(l, x)
BY SymmetricTables DEF Incompatible, GrantedIncompatible

(* A type that is stronger or equal is incompatible with at least as much. *)
LEMMA WeakerIsCompatible ==
  ASSUME NEW l \in Locks, NEW x \in Types, NEW y \in Types, NEW z \in Types,
         StrongerOrEqual(Strategy[l], x, y), z \notin Incompatible(l, x)
  PROVE  z \notin Incompatible(l, y)
BY DEF StrongerOrEqual, Incompatible

(* The number of tickets of type y in G, where f gives the types.          *)
Number(G, f, y) == Cardinality({t \in G : f[t] = y})

(* A summary covers a list when its bitmap has every type in the list and  *)
(* its counters are at least the numbers of tickets.                       *)
Covers(s, G, f) ==
  /\ IsFiniteSet(G)
  /\ \A t \in G : f[t] \in s.bitmap
  /\ \A y \in Types : s.count[y] >= Number(G, f, y)

(* A summary agrees with a list when it has the types in the list, and     *)
(* their numbers, exactly.                                                 *)
Agrees(s, G, f) ==
  /\ IsFiniteSet(G)
  /\ s.bitmap = {f[t] : t \in G}
  /\ \A y \in Types : s.count[y] = Number(G, f, y)

(* The operations of Ticket_list keep bitmap and counters well formed.     *)
LEMMA SumType ==
  ASSUME NEW s \in Sum, NEW y \in Types
  PROVE  /\ AddTicket(s, y) \in Sum /\ RemoveTicket(s, y) \in Sum
         /\ EmptySum \in Sum
BY DEF Sum, AddTicket, RemoveTicket, EmptySum

(* How many tickets of a type there are in a finite set.                   *)
LEMMA NumberType ==
  ASSUME NEW G, IsFiniteSet(G), NEW f, NEW y
  PROVE  /\ Number(G, f, y) \in Nat
         /\ IsFiniteSet({u \in G : f[u] = y})
         /\ Number(G, f, y) = 0 <=> \A u \in G : f[u] # y
<1> DEFINE H == {u \in G : f[u] = y}
<1>1. IsFiniteSet(H) /\ Cardinality(H) \in Nat
  BY FS_Subset, FS_CardinalityType, H \in SUBSET G
<1>2. Cardinality(H) = 0 <=> H = {}
  BY <1>1, FS_EmptySet
<1>3. H = {} <=> \A u \in G : f[u] # y
  OBVIOUS
<1>4. Number(G, f, y) = Cardinality(H)
  BY DEF Number
<1> HIDE DEF H
<1>5. /\ Number(G, f, y) \in Nat
      /\ Number(G, f, y) = 0 <=> \A u \in G : f[u] # y
  BY <1>1, <1>2, <1>3, <1>4
<1> QED BY <1>1, <1>5 DEF H

(* A ticket comes.                                                         *)
LEMMA NumberAdd ==
  ASSUME NEW G, IsFiniteSet(G), NEW f, NEW t, NEW y, t \notin G
  PROVE  Number(G \cup {t}, f, y) =
           IF f[t] = y THEN Number(G, f, y) + 1 ELSE Number(G, f, y)
<1> DEFINE H == {u \in G : f[u] = y}
<1>1. IsFiniteSet(H)
  BY NumberType
<1>2. CASE f[t] = y
  <2>1. {u \in G \cup {t} : f[u] = y} = H \cup {t} /\ t \notin H
    BY <1>2
  <2> QED BY <2>1, <1>1, <1>2, FS_AddElement DEF Number
<1>3. CASE f[t] # y
  <2>1. {u \in G \cup {t} : f[u] = y} = H
    BY <1>3
  <2> QED BY <2>1, <1>3 DEF Number
<1> QED BY <1>2, <1>3

(* A ticket goes.                                                          *)
LEMMA NumberRemove ==
  ASSUME NEW G, IsFiniteSet(G), NEW f, NEW t, NEW y, t \in G
  PROVE  Number(G \ {t}, f, y) =
           IF f[t] = y THEN Number(G, f, y) - 1 ELSE Number(G, f, y)
<1> DEFINE H == {u \in G : f[u] = y}
<1>1. IsFiniteSet(H)
  BY NumberType
<1>2. CASE f[t] = y
  <2>1. {u \in G \ {t} : f[u] = y} = H \ {t} /\ t \in H
    BY <1>2
  <2> QED BY <2>1, <1>1, <1>2, FS_RemoveElement DEF Number
<1>3. CASE f[t] # y
  <2>1. {u \in G \ {t} : f[u] = y} = H
    BY <1>3
  <2> QED BY <2>1, <1>3 DEF Number
<1> QED BY <1>2, <1>3

(* add_ticket() keeps a summary covering.                                  *)
LEMMA CoversAdd ==
  ASSUME NEW s \in Sum, NEW G, NEW f, NEW t, NEW y \in Types,
         Covers(s, G, f), t \notin G, f[t] = y
  PROVE  Covers(AddTicket(s, y), G \cup {t}, f)
<1>1. IsFiniteSet(G) /\ IsFiniteSet(G \cup {t})
  BY FS_AddElement DEF Covers
<1>2. \A u \in G \cup {t} : f[u] \in AddTicket(s, y).bitmap
  BY DEF Covers, AddTicket
<1>3. ASSUME NEW z \in Types
      PROVE  AddTicket(s, y).count[z] >=
               Number(G \cup {t}, f, z)
  <2>1. /\ Number(G, f, z) \in Nat
        /\ Number(G \cup {t}, f, z) =
             IF f[t] = z THEN Number(G, f, z) + 1
                         ELSE Number(G, f, z)
    <3>1. Number(G, f, z) \in Nat
      BY <1>1, NumberType
    <3> QED BY <3>1, <1>1, NumberAdd
  <2>2. s.count \in [Types -> Int] /\
        s.count[z] >= Number(G, f, z)
    BY DEF Covers, Sum
  <2>3. AddTicket(s, y).count[z] = IF z = y THEN s.count[z] + 1 ELSE s.count[z]
    BY <2>2 DEF AddTicket
  <2> QED BY <2>1, <2>2, <2>3
<1> QED BY <1>1, <1>2, <1>3 DEF Covers

(* remove_ticket() clears a bit only when the last ticket of the type goes *)
(* and so keeps a summary covering.                                        *)
LEMMA CoversRemove ==
  ASSUME NEW s \in Sum, NEW G, NEW f, NEW t \in G, NEW y \in Types,
         Covers(s, G, f), f[t] = y
  PROVE  Covers(RemoveTicket(s, y), G \ {t}, f)
<1>1. IsFiniteSet(G) /\ IsFiniteSet(G \ {t})
  BY FS_RemoveElement DEF Covers
<1>2. ASSUME NEW z \in Types
      PROVE  /\ Number(G, f, z) \in Nat
             /\ Number(G \ {t}, f, z) \in Nat
             /\ Number(G \ {t}, f, z) =
                  IF f[t] = z THEN Number(G, f, z) - 1
                              ELSE Number(G, f, z)
             /\ Number(G \ {t}, f, z) = 0 <=>
                  \A u \in G \ {t} : f[u] # z
  <2>1. Number(G, f, z) \in Nat
    BY <1>1, NumberType
  <2>2. /\ Number(G \ {t}, f, z) \in Nat
        /\ Number(G \ {t}, f, z) = 0 <=> \A u \in G \ {t} : f[u] # z
    BY <1>1, NumberType
  <2>3. Number(G \ {t}, f, z) =
          IF f[t] = z THEN Number(G, f, z) - 1 ELSE Number(G, f, z)
    BY <1>1, NumberRemove
  <2> QED BY <2>1, <2>2, <2>3
<1>3. s.count \in [Types -> Int] /\
      \A z \in Types : s.count[z] >= Number(G, f, z)
  BY DEF Covers, Sum
<1>4. ASSUME NEW u \in G \ {t} PROVE f[u] \in RemoveTicket(s, y).bitmap
  <2>1. f[u] \in s.bitmap
    BY DEF Covers
  <2>2. CASE f[u] # y
    BY <2>1, <2>2 DEF RemoveTicket
  <2>3. CASE f[u] = y
    <3>1. Number(G \ {t}, f, y) >= 1
      BY <1>2, <2>3
    <3>2. s.count[y] # 1
      BY <3>1, <1>2, <1>3
    <3> QED BY <3>2, <2>1 DEF RemoveTicket
  <2> QED BY <2>2, <2>3
<1>5. ASSUME NEW z \in Types
      PROVE  RemoveTicket(s, y).count[z] >=
               Number(G \ {t}, f, z)
  <2>1. RemoveTicket(s, y).count[z] =
          IF z = y THEN s.count[z] - 1 ELSE s.count[z]
    BY <1>3 DEF RemoveTicket
  <2> QED BY <2>1, <1>2, <1>3
<1> QED BY <1>1, <1>4, <1>5 DEF Covers

(* A ticket that goes without its summary leaves it covering.              *)
LEMMA CoversShrink ==
  ASSUME NEW s \in Sum, NEW G, NEW f, NEW t, Covers(s, G, f)
  PROVE  Covers(s, G \ {t}, f)
<1>1. IsFiniteSet(G) /\ IsFiniteSet(G \ {t})
  BY FS_RemoveElement DEF Covers
<1>2. \A u \in G \ {t} : f[u] \in s.bitmap
  BY DEF Covers
<1>3. ASSUME NEW z \in Types
      PROVE  s.count[z] >= Number(G \ {t}, f, z)
  <2>1. /\ Number(G, f, z) \in Nat
        /\ Number(G \ {t}, f, z) \in Nat
        /\ t \in G => Number(G \ {t}, f, z) =
                  IF f[t] = z THEN Number(G, f, z) - 1
                              ELSE Number(G, f, z)
    <3>1. Number(G, f, z) \in Nat
      BY <1>1, NumberType
    <3>2. Number(G \ {t}, f, z) \in Nat
      BY <1>1, NumberType
    <3> QED BY <3>1, <3>2, <1>1, NumberRemove
  <2>2. s.count \in [Types -> Int] /\
        s.count[z] >= Number(G, f, z)
    BY DEF Covers, Sum
  <2>3. CASE t \in G
    BY <2>1, <2>2, <2>3
  <2>4. CASE t \notin G
    BY <2>2, <2>4, G \ {t} = G
  <2> QED BY <2>3, <2>4
<1> QED BY <1>1, <1>2, <1>3 DEF Covers

(* Only the types of the tickets in the list matter.                       *)
LEMMA CoversFrame ==
  ASSUME NEW s, NEW G, NEW f, NEW g, Covers(s, G, f), \A t \in G : g[t] = f[t]
  PROVE  Covers(s, G, g)
<1>1. \A y : {t \in G : g[t] = y} = {t \in G : f[t] = y}
  OBVIOUS
<1> QED BY <1>1 DEF Covers, Number

(* The summary of a new MDL_lock covers, and agrees with, no tickets.      *)
LEMMA EmptySummary ==
  ASSUME NEW f
  PROVE  Covers(EmptySum, {}, f) /\ Agrees(EmptySum, {}, f)
<1>1. \A y : {t \in {} : f[t] = y} = {}
  OBVIOUS
<1> QED BY <1>1, FS_EmptySet DEF Covers, Agrees, EmptySum, Number

(* add_ticket() keeps a summary exact.                                     *)
LEMMA AgreesAdd ==
  ASSUME NEW s \in Sum, NEW G, NEW f, NEW t, NEW y \in Types,
         Agrees(s, G, f), t \notin G, f[t] = y
  PROVE  Agrees(AddTicket(s, y), G \cup {t}, f)
<1>1. IsFiniteSet(G) /\ IsFiniteSet(G \cup {t})
  BY FS_AddElement DEF Agrees
<1>2. AddTicket(s, y).bitmap = {f[u] : u \in G \cup {t}}
  BY DEF Agrees, AddTicket
<1>3. ASSUME NEW z \in Types
      PROVE  AddTicket(s, y).count[z] =
               Number(G \cup {t}, f, z)
  <2>1. Number(G \cup {t}, f, z) =
             IF f[t] = z THEN Number(G, f, z) + 1
                         ELSE Number(G, f, z)
    BY <1>1, NumberAdd
  <2>2. s.count \in [Types -> Int] /\
        s.count[z] = Number(G, f, z)
    BY DEF Agrees, Sum
  <2>3. AddTicket(s, y).count[z] = IF z = y THEN s.count[z] + 1 ELSE s.count[z]
    BY <2>2 DEF AddTicket
  <2> QED BY <2>1, <2>2, <2>3
<1> QED BY <1>1, <1>2, <1>3 DEF Agrees

(* remove_ticket() keeps a summary exact.                                  *)
LEMMA AgreesRemove ==
  ASSUME NEW s \in Sum, NEW G, NEW f, NEW t \in G, NEW y \in Types,
         Agrees(s, G, f), f[t] = y
  PROVE  Agrees(RemoveTicket(s, y), G \ {t}, f)
<1>1. IsFiniteSet(G) /\ IsFiniteSet(G \ {t})
  BY FS_RemoveElement DEF Agrees
<1>2. ASSUME NEW z \in Types
      PROVE  /\ Number(G, f, z) \in Nat
             /\ Number(G \ {t}, f, z) =
                  IF f[t] = z THEN Number(G, f, z) - 1
                              ELSE Number(G, f, z)
             /\ Number(G \ {t}, f, z) = 0 <=>
                  \A u \in G \ {t} : f[u] # z
  <2>1. Number(G, f, z) \in Nat
    BY <1>1, NumberType
  <2>2. /\ Number(G \ {t}, f, z) \in Nat
        /\ Number(G \ {t}, f, z) = 0 <=> \A u \in G \ {t} : f[u] # z
    BY <1>1, NumberType
  <2>3. Number(G \ {t}, f, z) =
          IF f[t] = z THEN Number(G, f, z) - 1 ELSE Number(G, f, z)
    BY <1>1, NumberRemove
  <2> QED BY <2>1, <2>2, <2>3
<1>3. s.count \in [Types -> Int] /\
      \A z \in Types : s.count[z] = Number(G, f, z)
  BY DEF Agrees, Sum
<1>4. RemoveTicket(s, y).bitmap = {f[u] : u \in G \ {t}}
  <2>1. s.bitmap = {f[u] : u \in G}
    BY DEF Agrees
  <2>2. s.count[y] = 1 <=> \A u \in G \ {t} : f[u] # y
    BY <1>2, <1>3
  <2>3. CASE s.count[y] = 1
    <3>1. RemoveTicket(s, y).bitmap = s.bitmap \ {y}
      BY <2>3 DEF RemoveTicket
    <3> QED BY <3>1, <2>1, <2>2, <2>3
  <2>4. CASE s.count[y] # 1
    <3>1. RemoveTicket(s, y).bitmap = s.bitmap
      BY <2>4 DEF RemoveTicket
    <3>2. PICK v \in G \ {t} : f[v] = y
      BY <2>2, <2>4
    <3> QED BY <3>1, <3>2, <2>1
  <2> QED BY <2>3, <2>4
<1>5. ASSUME NEW z \in Types
      PROVE  RemoveTicket(s, y).count[z] =
               Number(G \ {t}, f, z)
  <2>1. RemoveTicket(s, y).count[z] =
          IF z = y THEN s.count[z] - 1 ELSE s.count[z]
    BY <1>3 DEF RemoveTicket
  <2> QED BY <2>1, <1>2, <1>3
<1> QED BY <1>1, <1>4, <1>5 DEF Agrees

(* Only the types of the tickets in the list matter.                       *)
LEMMA AgreesFrame ==
  ASSUME NEW s, NEW G, NEW f, NEW g, Agrees(s, G, f), \A t \in G : g[t] = f[t]
  PROVE  Agrees(s, G, g)
<1>1. \A y : {t \in G : g[t] = y} = {t \in G : f[t] = y}
  OBVIOUS
<1>2. {g[t] : t \in G} = {f[t] : t \in G}
  OBVIOUS
<1> QED BY <1>1, <1>2 DEF Agrees, Number
=============================================================================
