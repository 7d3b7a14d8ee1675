-------------------------- MODULE RecentListProofs --------------------------
(***************************************************************************)
(* Theorems about RecentList for any contacts in any order and any number  *)
(* of events.                                                              *)
(***************************************************************************)
EXTENDS RecentList, FiniteSetTheorems, WellFoundedInduction, TLAPS

-----------------------------------------------------------------------------
(* Lists                                                                   *)

LEMMA EntryIs ==
    /\ \A f \in Friend : Row(f) \in Entry /\ Own(f) \in Entry
    /\ \A e \in Entry : e.friend \in Friend /\ e.id \in {"row", "own"}
    /\ \A f : Row(f).friend = f /\ Row(f).id = "row" /\ Own(f).friend = f /\ Own(f).id = "own"
    /\ \A e \in Entry : e.id = "row" => e = Row(e.friend)
<1>1. \A f \in Friend : Row(f) \in Entry /\ Own(f) \in Entry
  BY DEF Entry, Row, Own
<1>2. \A e \in Entry : e.friend \in Friend /\ e.id \in {"row", "own"}
  BY DEF Entry
<1>3. \A f : Row(f).friend = f /\ Row(f).id = "row" /\ Own(f).friend = f /\ Own(f).id = "own"
  BY DEF Row, Own
<1>4. \A e \in Entry : e.id = "row" => e = Row(e.friend)
  BY DEF Entry, Row
<1>5. QED
  BY <1>1, <1>2, <1>3, <1>4

LEMMA ConcatOf ==
    ASSUME NEW S, NEW s \in Seq(S), NEW t \in Seq(S)
    PROVE  /\ s \o t \in Seq(S) /\ Len(s \o t) = Len(s) + Len(t)
           /\ DOMAIN (s \o t) = 1..(Len(s) + Len(t)) /\ DOMAIN s = 1..Len(s)
           /\ \A i \in 1..Len(s) : (s \o t)[i] = s[i]
           /\ \A i \in 1..Len(t) : (s \o t)[Len(s) + i] = t[i]
OBVIOUS

(* A set of natural numbers that is not empty has a least element.         *)
LEMMA LeastIs ==
    ASSUME NEW T \in SUBSET Nat, T # {}
    PROVE  Least(T) \in T /\ \A k \in T : Least(T) <= k
<1>1. \E x \in T : \A y \in T : ~ (<<y, x>> \in OpToRel(<, Nat))
  BY NatLessThanWellFounded, WFMin
<1>2. PICK x \in T : \A y \in T : ~ (<<y, x>> \in OpToRel(<, Nat))
  BY <1>1
<1>3. \A y \in T : ~ (y < x)
  BY <1>2 DEF OpToRel
<1>4. \E m \in T : \A k \in T : m <= k
  BY <1>3
<1>5. QED
  BY <1>4 DEF Least

(* A list without the first of some of its places.                         *)
LEMMA WithoutIs ==
    ASSUME NEW S, NEW list \in Seq(S), NEW P \in SUBSET (1..Len(list)), P # {}
    PROVE  LET n == Least(P) IN
           /\ n \in P /\ n \in 1..Len(list) /\ \A k \in P : n <= k
           /\ Without(list, P) \in Seq(S) /\ Len(Without(list, P)) = Len(list) - 1
           /\ \A i \in 1..Len(list) : i < n => Without(list, P)[i] = list[i]
           /\ \A i \in 1..(Len(list) - 1) : n <= i => Without(list, P)[i] = list[i + 1]
<1>. DEFINE n == Least(P)
            front == SubSeq(list, 1, n - 1)
            back  == SubSeq(list, n + 1, Len(list))
<1>1. n \in P /\ n \in 1..Len(list) /\ \A k \in P : n <= k
  <2>1. P \in SUBSET Nat
    OBVIOUS
  <2>2. QED
    BY <2>1, LeastIs
<1>2. Without(list, P) = front \o back
  BY DEF Without
<1>. HIDE DEF n
<1>3. /\ front \in Seq(S) /\ Len(front) = n - 1
      /\ \A i \in 1..(n - 1) : front[i] = list[i]
  BY <1>1
<1>4. /\ back \in Seq(S) /\ Len(back) = Len(list) - n
      /\ \A i \in 1..(Len(list) - n) : back[i] = list[n + i]
  BY <1>1
<1>. HIDE DEF front, back
<1>5. /\ front \o back \in Seq(S) /\ Len(front \o back) = Len(list) - 1
      /\ \A i \in 1..(n - 1) : (front \o back)[i] = front[i]
      /\ \A i \in 1..(Len(list) - n) : (front \o back)[n - 1 + i] = back[i]
  <2>1. front \in Seq(S) /\ back \in Seq(S)
    BY <1>3, <1>4
  <2>2. /\ front \o back \in Seq(S) /\ Len(front \o back) = Len(front) + Len(back)
        /\ \A i \in 1..Len(front) : (front \o back)[i] = front[i]
        /\ \A i \in 1..Len(back) : (front \o back)[Len(front) + i] = back[i]
    BY <2>1, ConcatOf
  <2>3. Len(front) = n - 1 /\ Len(back) = Len(list) - n
    BY <1>3, <1>4
  <2>4. Len(front \o back) = Len(list) - 1
    BY <1>1, <2>2, <2>3
  <2>5. \A i \in 1..(n - 1) : (front \o back)[i] = front[i]
    BY <2>2, <2>3
  <2>6. \A i \in 1..(Len(list) - n) : (front \o back)[n - 1 + i] = back[i]
    BY <2>2, <2>3
  <2>7. QED
    BY <2>2, <2>4, <2>5, <2>6
<1>6. ASSUME NEW i \in 1..(Len(list) - 1), n <= i
      PROVE  (front \o back)[i] = list[i + 1]
  <2>1. i - n + 1 \in 1..(Len(list) - n)
    BY <1>1, <1>6
  <2>2. (front \o back)[n - 1 + (i - n + 1)] = list[n + (i - n + 1)]
    BY <1>4, <1>5, <2>1
  <2>3. n - 1 + (i - n + 1) = i /\ n + (i - n + 1) = i + 1
    BY <1>1
  <2>4. QED
    BY <2>2, <2>3
<1>7. \A i \in 1..Len(list) : i < n => (front \o back)[i] = list[i]
  <2>1. \A i \in 1..Len(list) : i < n => i \in 1..(n - 1)
    BY <1>1
  <2>2. QED
    BY <1>3, <1>5, <2>1
<1>8. /\ Without(list, P) \in Seq(S) /\ Len(Without(list, P)) = Len(list) - 1
      /\ \A i \in 1..Len(list) : i < n => Without(list, P)[i] = list[i]
      /\ \A i \in 1..(Len(list) - 1) : n <= i => Without(list, P)[i] = list[i + 1]
  BY <1>2, <1>5, <1>6, <1>7
<1>9. QED
  BY <1>1, <1>8 DEF n

LEMMA WithoutType ==
    ASSUME NEW list \in Seq(Entry), NEW P \in SUBSET (1..Len(list))
    PROVE  Without(list, P) \in Seq(Entry)
<1>1. CASE P = {}
  BY <1>1 DEF Without
<1>2. CASE P # {}
  BY <1>2, WithoutIs
<1>3. QED
  BY <1>1, <1>2

(* Every element of the shorter list is one of the longer list, at another *)
(* place for another place; and all but the one taken out are left.        *)
LEMMA WithoutMap ==
    ASSUME NEW S, NEW list \in Seq(S), NEW P \in SUBSET (1..Len(list))
    PROVE  /\ \E g \in [1..Len(Without(list, P)) -> 1..Len(list)] :
                 /\ \A i \in 1..Len(Without(list, P)) : Without(list, P)[i] = list[g[i]]
                 /\ \A i, j \in 1..Len(Without(list, P)) : g[i] = g[j] => i = j
                 /\ P # {} => \A i \in 1..Len(Without(list, P)) : g[i] # Least(P)
           /\ \A i \in 1..Len(list) : P = {} \/ i # Least(P) =>
                 \E j \in 1..Len(Without(list, P)) : Without(list, P)[j] = list[i]
<1>1. CASE P = {}
  <2>. DEFINE g == [i \in 1..Len(list) |-> i]
  <2>1. Without(list, P) = list
    BY <1>1 DEF Without
  <2>2. g \in [1..Len(list) -> 1..Len(list)] /\ \A i \in 1..Len(list) : g[i] = i
    OBVIOUS
  <2>. HIDE DEF g
  <2>3. QED
    BY <1>1, <2>1, <2>2
<1>2. CASE P # {}
  <2>. DEFINE n == Least(P)
              w == Without(list, P)
              g == [i \in 1..(Len(list) - 1) |-> IF i < n THEN i ELSE i + 1]
  <2>1. /\ n \in 1..Len(list) /\ w \in Seq(S) /\ Len(w) = Len(list) - 1
        /\ \A i \in 1..Len(list) : i < n => w[i] = list[i]
        /\ \A i \in 1..(Len(list) - 1) : n <= i => w[i] = list[i + 1]
    BY <1>2, WithoutIs
  <2>. HIDE DEF n, w
  <2>2. g \in [1..Len(w) -> 1..Len(list)]
    BY <2>1
  <2>3. \A i \in 1..Len(w) : w[i] = list[g[i]] /\ g[i] # n
    BY <2>1
  <2>4. \A i, j \in 1..Len(w) : g[i] = g[j] => i = j
    BY <2>1
  <2>5. ASSUME NEW i \in 1..Len(list), i # n
        PROVE  \E j \in 1..Len(w) : w[j] = list[i]
    <3>1. CASE i < n
      BY <2>1, <3>1
    <3>2. CASE n < i
      <4>1. i - 1 \in 1..(Len(list) - 1) /\ n <= i - 1 /\ (i - 1) + 1 = i
        BY <2>1, <3>2
      <4>2. w[i - 1] = list[(i - 1) + 1]
        BY <2>1, <4>1
      <4>3. QED
        BY <2>1, <4>1, <4>2
    <3>3. QED
      BY <2>1, <2>5, <3>1, <3>2
  <2>. HIDE DEF g
  <2>6. QED
    BY <1>2, <2>2, <2>3, <2>4, <2>5 DEF n, w
<1>3. QED
  BY <1>1, <1>2

(* The two ways to put an entry into a list.                               *)
LEMMA FirstIs ==
    ASSUME NEW list \in Seq(Entry), NEW e \in Entry
    PROVE  /\ First(list, e) \in Seq(Entry) /\ Len(First(list, e)) = Len(list) + 1
           /\ First(list, e)[1] = e
           /\ \A i \in 1..Len(list) : First(list, e)[i + 1] = list[i]
           /\ \A i \in 1..(Len(list) + 1) : i # 1 => First(list, e)[i] = list[i - 1]
BY DEF First

LEMMA SecondIs ==
    ASSUME NEW list \in Seq(Entry), NEW e \in Entry
    PROVE  /\ Second(list, e) \in Seq(Entry) /\ Len(Second(list, e)) = Len(list) + 1
           /\ list # <<>> => Second(list, e)[1] = list[1]
<1>1. CASE list = <<>>
  BY <1>1 DEF Second
<1>2. CASE list # <<>>
  BY <1>2 DEF Second
<1>3. QED
  BY <1>1, <1>2

(* Wherever it is put, the entry is at one place and the list at the       *)
(* others.                                                                 *)
IsPut(new, list, e) ==
    /\ new \in Seq(Entry) /\ Len(new) = Len(list) + 1
    /\ \E k \in 1..Len(new), g \in [1..Len(new) -> 1..(Len(list) + 1)] :
          /\ new[k] = e
          /\ \A i \in 1..Len(new) : i # k => g[i] \in 1..Len(list) /\ new[i] = list[g[i]]
          /\ \A i, j \in 1..Len(new) : i # k /\ j # k /\ g[i] = g[j] => i = j
    /\ \A i \in 1..Len(list) : \E j \in 1..Len(new) : new[j] = list[i]

LEMMA PutIs ==
    ASSUME NEW list \in Seq(Entry), NEW e \in Entry,
           NEW new, new \in {First(list, e), Second(list, e)}
    PROVE  IsPut(new, list, e)
<1>1. CASE new = First(list, e)
  <2>. DEFINE g == [i \in 1..Len(new) |-> IF i = 1 THEN 1 ELSE i - 1]
  <2>1. /\ new \in Seq(Entry) /\ Len(new) = Len(list) + 1 /\ new[1] = e
        /\ \A i \in 1..Len(list) : new[i + 1] = list[i]
        /\ \A i \in 1..Len(new) : i # 1 => new[i] = list[i - 1]
    <3>1. /\ new \in Seq(Entry) /\ Len(new) = Len(list) + 1 /\ new[1] = e
          /\ \A i \in 1..Len(list) : new[i + 1] = list[i]
          /\ \A i \in 1..(Len(list) + 1) : i # 1 => new[i] = list[i - 1]
      BY <1>1, FirstIs, Zenon
    <3>2. QED
      BY <3>1
  <2>2. /\ g \in [1..Len(new) -> 1..(Len(list) + 1)]
        /\ \A i \in 1..Len(new) : i # 1 => g[i] \in 1..Len(list) /\ new[i] = list[g[i]]
        /\ \A i, j \in 1..Len(new) : i # 1 /\ j # 1 /\ g[i] = g[j] => i = j
    BY <2>1
  <2>3. \A i \in 1..Len(list) : i + 1 \in 1..Len(new) /\ new[i + 1] = list[i]
    BY <2>1
  <2>4. 1 \in 1..Len(new)
    BY <2>1
  <2>. HIDE DEF g
  <2>5. \E k \in 1..Len(new), h \in [1..Len(new) -> 1..(Len(list) + 1)] :
                 /\ new[k] = e
                 /\ \A i \in 1..Len(new) : i # k => h[i] \in 1..Len(list) /\ new[i] = list[h[i]]
                 /\ \A i, j \in 1..Len(new) : i # k /\ j # k /\ h[i] = h[j] => i = j
    BY <2>1, <2>2, <2>4
  <2>6. QED
    BY <2>1, <2>3, <2>5 DEF IsPut
<1>2. CASE new = Second(list, e) /\ list = <<>>
  <2>1. new = <<e>> /\ Len(list) = 0
    BY <1>2 DEF Second
  <2>. DEFINE g == [i \in 1..Len(new) |-> 1]
  <2>2. g \in [1..Len(new) -> 1..(Len(list) + 1)] /\ Len(new) = 1 /\ new[1] = e /\ new \in Seq(Entry)
    BY <2>1
  <2>. HIDE DEF g
  <2>3. QED
    BY <2>1, <2>2 DEF IsPut
<1>3. CASE new = Second(list, e) /\ list # <<>>
  <2>. DEFINE g == [i \in 1..Len(new) |-> IF i <= 2 THEN 1 ELSE i - 1]
  <2>1. /\ new \in Seq(Entry) /\ Len(new) = Len(list) + 1 /\ new[2] = e /\ new[1] = list[1]
        /\ Len(list) >= 1
        /\ \A i \in 1..Len(new) : i > 2 => new[i] = list[i - 1]
    <3>. DEFINE two == <<list[1], e>>
                rest == Tail(list)
    <3>1. /\ two \in Seq(Entry) /\ Len(two) = 2 /\ two[1] = list[1] /\ two[2] = e
          /\ rest \in Seq(Entry) /\ Len(rest) = Len(list) - 1 /\ Len(list) >= 1
          /\ \A i \in 1..(Len(list) - 1) : rest[i] = list[i + 1]
      BY <1>3
    <3>2. new = two \o rest
      BY <1>3 DEF Second
    <3>. HIDE DEF two, rest
    <3>3. /\ new \in Seq(Entry) /\ Len(new) = Len(two) + Len(rest)
          /\ \A i \in 1..Len(two) : new[i] = two[i]
          /\ \A i \in 1..Len(rest) : new[Len(two) + i] = rest[i]
      <4>1. two \in Seq(Entry) /\ rest \in Seq(Entry)
        BY <3>1
      <4>2. QED
        BY <3>2, <4>1, ConcatOf
    <3>4. ASSUME NEW i \in 1..Len(new), i > 2
          PROVE  new[i] = list[i - 1]
      <4>1. i - 2 \in 1..Len(rest) /\ i - 2 \in 1..(Len(list) - 1)
        BY <3>1, <3>3, <3>4
      <4>2. new[Len(two) + (i - 2)] = rest[i - 2] /\ rest[i - 2] = list[(i - 2) + 1]
        BY <3>1, <3>3, <4>1
      <4>3. Len(two) + (i - 2) = i /\ (i - 2) + 1 = i - 1
        BY <3>1
      <4>4. QED
        BY <4>2, <4>3
    <3>5. 1 \in 1..Len(two) /\ 2 \in 1..Len(two)
      BY <3>1
    <3>6. QED
      BY <3>1, <3>3, <3>4, <3>5
  <2>2. /\ g \in [1..Len(new) -> 1..(Len(list) + 1)]
        /\ \A i \in 1..Len(new) : i # 2 => g[i] \in 1..Len(list) /\ new[i] = list[g[i]]
        /\ \A i, j \in 1..Len(new) : i # 2 /\ j # 2 /\ g[i] = g[j] => i = j
    BY <2>1
  <2>3. ASSUME NEW i \in 1..Len(list)
        PROVE  \E j \in 1..Len(new) : new[j] = list[i]
    <3>1. CASE i = 1
      BY <2>1, <3>1
    <3>2. CASE i > 1
      <4>1. i + 1 \in 1..Len(new) /\ i + 1 > 2 /\ (i + 1) - 1 = i
        BY <2>1, <3>2
      <4>2. QED
        BY <2>1, <4>1
    <3>3. QED
      BY <3>1, <3>2
  <2>4. 2 \in 1..Len(new)
    BY <2>1
  <2>. HIDE DEF g
  <2>5. \E k \in 1..Len(new), h \in [1..Len(new) -> 1..(Len(list) + 1)] :
                 /\ new[k] = e
                 /\ \A i \in 1..Len(new) : i # k => h[i] \in 1..Len(list) /\ new[i] = list[h[i]]
                 /\ \A i, j \in 1..Len(new) : i # k /\ j # k /\ h[i] = h[j] => i = j
    BY <2>1, <2>2, <2>4
  <2>6. QED
    BY <2>1, <2>3, <2>5 DEF IsPut
<1>4. QED
  BY <1>1, <1>2, <1>3

(* What an entry of the shared dictionary comes back as.                   *)
LEMMA CodedEntryIs ==
    ASSUME NEW e \in Entry
    PROVE  /\ CodedEntry(e) \in Entry /\ CodedEntry(e).friend = e.friend
           /\ CodedEntry(e).id = "own" => e.id = "own" \/ e.friend \in Small
           /\ CodedEntry(CodedEntry(e)) = CodedEntry(e)
<1>1. CASE e.friend \in Small
  <2>1. CodedEntry(e) = Own(e.friend) /\ e.friend \in Friend
    BY <1>1, EntryIs DEF CodedEntry
  <2>2. Own(e.friend) \in Entry /\ Own(e.friend).friend = e.friend
    BY <2>1, EntryIs
  <2>3. CodedEntry(Own(e.friend)) = Own(e.friend)
    BY <1>1, <2>2 DEF CodedEntry
  <2>4. QED
    BY <1>1, <2>1, <2>2, <2>3
<1>2. CASE e.friend \notin Small
  <2>1. CodedEntry(e) = e
    BY <1>2 DEF CodedEntry
  <2>2. QED
    BY <2>1, EntryIs
<1>3. QED
  BY <1>1, <1>2

LEMMA CodedIs ==
    ASSUME NEW list \in Seq(Entry)
    PROVE  /\ Coded(list) \in Seq(Entry) /\ Len(Coded(list)) = Len(list)
           /\ \A i \in 1..Len(list) : /\ Coded(list)[i] = CodedEntry(list[i])
                                     /\ Coded(list)[i].friend = list[i].friend
<1>1. \A i \in 1..Len(list) : CodedEntry(list[i]) \in Entry /\ CodedEntry(list[i]).friend = list[i].friend
  BY CodedEntryIs
<1>2. Coded(list) \in [1..Len(list) -> Entry] /\ Len(list) \in Nat
  BY <1>1 DEF Coded
<1>3. Coded(list) \in Seq(Entry) /\ Len(Coded(list)) = Len(list)
  BY <1>2
<1>4. \A i \in 1..Len(list) : Coded(list)[i] = CodedEntry(list[i])
  BY DEF Coded
<1>5. QED
  BY <1>1, <1>3, <1>4

LEMMA PlaceIs ==
    ASSUME NEW list, NEW e
    PROVE  Place(list, e) \in {First(list, e), Second(list, e)}
BY DEF Place

LEMMA AtIs ==
    ASSUME NEW list \in Seq(Entry), NEW e, NEW f
    PROVE  At(list, e) \in SUBSET (1..Len(list)) /\ Of(list, f) \in SUBSET (1..Len(list))
BY DEF At, Of

LEMMA MostRecentType ==
    ASSUME NEW list \in Seq(Entry), NEW e \in Entry
    PROVE  MostRecent(list, e) \in Seq(Entry)
<1>1. Without(list, At(list, e)) \in Seq(Entry)
  BY AtIs, WithoutType
<1>2. QED
  BY <1>1, FirstIs DEF MostRecent

-----------------------------------------------------------------------------
(* Array.unique and the merged lists                                       *)

(* The ranks of the places of a finite set number them from 1, in order.   *)
LEMMA Ranks ==
    ASSUME NEW n \in Nat, NEW P \in SUBSET (1..n)
    PROVE  /\ IsFiniteSet(P) /\ Cardinality(P) \in Nat
           /\ \A i \in P : Rank(P, i) \in 1..Cardinality(P)
           /\ \A i, j \in P : i < j => Rank(P, i) < Rank(P, j)
           /\ \A k \in 1..Cardinality(P) : \E i \in P : Rank(P, i) = k
<1>. DEFINE below(i) == {j \in P : j <= i}
<1>1. IsFiniteSet(P) /\ Cardinality(P) \in Nat
  <2>1. 1 \in Int /\ n \in Int
    OBVIOUS
  <2>2. IsFiniteSet(1..n)
    BY <2>1, FS_Interval
  <2>3. QED
    BY <2>2, FS_Subset, FS_CardinalityType
<1>2. ASSUME NEW i \in P
      PROVE  /\ IsFiniteSet(below(i)) /\ Cardinality(below(i)) \in Nat
             /\ Cardinality(below(i)) <= Cardinality(P) /\ Cardinality(below(i)) # 0
  <2>1. below(i) \in SUBSET P /\ i \in below(i)
    OBVIOUS
  <2>2. IsFiniteSet(below(i)) /\ Cardinality(below(i)) <= Cardinality(P)
    BY <1>1, <2>1, FS_Subset
  <2>3. Cardinality(below(i)) \in Nat /\ Cardinality(below(i)) # 0
    BY <2>1, <2>2, FS_CardinalityType, FS_EmptySet
  <2>4. QED
    BY <2>2, <2>3
<1>3. \A i \in P : Rank(P, i) \in 1..Cardinality(P)
  BY <1>1, <1>2 DEF Rank
<1>4. ASSUME NEW i \in P, NEW j \in P, i < j
      PROVE  Rank(P, i) < Rank(P, j)
  <2>1. below(i) \in SUBSET below(j) /\ j \in below(j) /\ j \notin below(i)
    <3>1. \A m \in P : m <= i => m <= j
      BY <1>4
    <3>2. ~ (j <= i) /\ j <= j
      BY <1>4
    <3>3. QED
      BY <3>1, <3>2
  <2>2. Cardinality(below(i)) <= Cardinality(below(j)) /\ Cardinality(below(i)) # Cardinality(below(j))
    BY <1>2, <2>1, FS_Subset
  <2>3. QED
    BY <1>2, <2>2 DEF Rank
<1>5. ASSUME NEW k \in 1..Cardinality(P)
      PROVE  \E i \in P : Rank(P, i) = k
  <2>. DEFINE f == [i \in P |-> Rank(P, i)]
              T == 1..Cardinality(P)
  <2>1. f \in [P -> T]
    BY <1>3
  <2>2. ASSUME NEW i \in P, NEW j \in P, f[i] = f[j]
        PROVE  i = j
    <3>1. ~ (i < j) /\ ~ (j < i)
      BY <1>3, <1>4, <2>2
    <3>2. QED
      BY <3>1
  <2>3. f \in Injection(P, T)
    BY <2>1, <2>2 DEF Injection, IsInjective
  <2>4. IsFiniteSet(T) /\ Cardinality(T) = Cardinality(P)
    BY <1>1, FS_Interval
  <2>5. f \in Surjection(P, T)
    BY <2>3, <2>4, FS_Injection
  <2>6. QED
    BY <2>5 DEF Surjection
<1>6. QED
  BY <1>1, <1>3, <1>4, <1>5

LEMMA ChosenIs ==
    ASSUME NEW S, NEW s \in Seq(S), NEW P \in SUBSET (1..Len(s))
    PROVE  /\ Chosen(s, P) \in Seq(S)
           /\ \E g \in [1..Len(Chosen(s, P)) -> P] :
                 /\ \A k \in 1..Len(Chosen(s, P)) : Chosen(s, P)[k] = s[g[k]]
                 /\ \A k, l \in 1..Len(Chosen(s, P)) : g[k] = g[l] => k = l
           /\ \A i \in P : \E k \in 1..Len(Chosen(s, P)) : Chosen(s, P)[k] = s[i]
<1>. DEFINE n == Cardinality(P)
            place(k) == CHOOSE i \in P : Rank(P, i) = k
            g == [k \in 1..n |-> place(k)]
            c == Chosen(s, P)
<1>1. Len(s) \in Nat /\ \A i \in P : i \in Int /\ s[i] \in S
  OBVIOUS
<1>2. /\ n \in Nat
      /\ \A i \in P : Rank(P, i) \in 1..n
      /\ \A i, j \in P : i < j => Rank(P, i) < Rank(P, j)
      /\ \A k \in 1..n : \E i \in P : Rank(P, i) = k
  BY <1>1, Ranks
<1>3. c = [k \in 1..n |-> s[place(k)]]
  BY DEF Chosen
<1>4. \A k \in 1..n : place(k) \in P /\ Rank(P, place(k)) = k
  BY <1>2
<1>. HIDE DEF n, place, c
<1>5. c \in Seq(S) /\ Len(c) = n
  <2>1. \A k \in 1..n : s[place(k)] \in S
    BY <1>1, <1>4
  <2>2. c \in [1..n -> S]
    BY <1>3, <2>1
  <2>3. QED
    BY <1>2, <2>2
<1>6. /\ g \in [1..n -> P]
      /\ \A k \in 1..n : c[k] = s[g[k]] /\ Rank(P, g[k]) = k
  BY <1>3, <1>4
<1>7. \A k, l \in 1..n : g[k] = g[l] => k = l
  BY <1>6
<1>8. ASSUME NEW i \in P
      PROVE  \E k \in 1..n : c[k] = s[i]
  <2>1. Rank(P, i) \in 1..n
    BY <1>2
  <2>. DEFINE r == Rank(P, i)
              j == place(r)
  <2>2. r \in 1..n /\ c[r] = s[j]
    BY <1>3, <2>1
  <2>3. j \in P /\ Rank(P, j) = r
    BY <1>4, <2>1
  <2>. HIDE DEF j
  <2>4. j = i
    <3>1. j < i => Rank(P, j) < Rank(P, i)
      BY <1>2, <2>3, Zenon
    <3>2. i < j => Rank(P, i) < Rank(P, j)
      BY <1>2, <2>3, Zenon
    <3>3. i \in Int /\ j \in Int /\ r \in Int
      BY <1>1, <1>2, <2>2, <2>3
    <3>4. QED
      BY <2>3, <3>1, <3>2, <3>3
  <2>5. QED
    BY <2>2, <2>4
<1>. HIDE DEF g
<1>9. QED
  BY <1>5, <1>6, <1>7, <1>8 DEF c

(* Array.unique has every element once.                                    *)
LEMMA UniqueIs ==
    ASSUME NEW S, NEW s \in Seq(S)
    PROVE  /\ Unique(s) \in Seq(S)
           /\ \A k \in 1..Len(Unique(s)) : \E i \in 1..Len(s) : Unique(s)[k] = s[i]
           /\ \A i \in 1..Len(s) : \E k \in 1..Len(Unique(s)) : Unique(s)[k] = s[i]
           /\ \A k, l \in 1..Len(Unique(s)) : Unique(s)[k] = Unique(s)[l] => k = l
<1>. DEFINE P == {i \in 1..Len(s) : \A j \in 1..(i - 1) : s[j] # s[i]}
            u == Unique(s)
<1>1. P \in SUBSET (1..Len(s)) /\ u = Chosen(s, P)
  BY DEF Unique
<1>2. \A i, j \in P : s[i] = s[j] => i = j
  <2>1. SUFFICES ASSUME NEW i \in P, NEW j \in P, s[i] = s[j], i < j PROVE FALSE
    <3>1. \A i \in P : i \in Int
      OBVIOUS
    <3>2. QED
      BY <2>1, <3>1
  <2>2. i \in 1..(j - 1)
    BY <2>1
  <2>3. QED
    BY <2>1, <2>2
<1>3. ASSUME NEW i \in 1..Len(s)
      PROVE  \E j \in P : s[j] = s[i]
  <2>. DEFINE T == {j \in 1..Len(s) : s[j] = s[i]}
  <2>1. T \in SUBSET Nat /\ i \in T
    OBVIOUS
  <2>2. Least(T) \in T /\ \A k \in T : Least(T) <= k
    BY <2>1, LeastIs
  <2>3. \A j \in 1..(Least(T) - 1) : j \in 1..Len(s) /\ ~ (Least(T) <= j)
    BY <2>2
  <2>4. \A j \in 1..(Least(T) - 1) : s[j] # s[Least(T)]
    BY <2>2, <2>3
  <2>5. QED
    BY <2>2, <2>4
<1>. HIDE DEF P, u
<1>4. u \in Seq(S)
  BY <1>1, ChosenIs
<1>. DEFINE v == Chosen(s, P)
<1>5. /\ \E g \in [1..Len(v) -> P] :
            /\ \A k \in 1..Len(v) : v[k] = s[g[k]]
            /\ \A k, l \in 1..Len(v) : g[k] = g[l] => k = l
      /\ \A i \in P : \E k \in 1..Len(v) : v[k] = s[i]
  BY <1>1, ChosenIs
<1>6. u = v
  BY <1>1
<1>. HIDE DEF v
<1>7. PICK g \in [1..Len(u) -> P] :
                 /\ \A k \in 1..Len(u) : u[k] = s[g[k]]
                 /\ \A k, l \in 1..Len(u) : g[k] = g[l] => k = l
  BY <1>5, <1>6
<1>8. \A i \in P : \E k \in 1..Len(u) : u[k] = s[i]
  BY <1>5, <1>6
<1>9. \A k \in 1..Len(u) : \E i \in 1..Len(s) : u[k] = s[i]
  BY <1>1, <1>7
<1>10. \A i \in 1..Len(s) : \E k \in 1..Len(u) : u[k] = s[i]
  BY <1>3, <1>8
<1>11. \A k, l \in 1..Len(u) : u[k] = u[l] => k = l
  BY <1>2, <1>7
<1>12. QED
  BY <1>4, <1>9, <1>10, <1>11 DEF u

(* A merged list has a row for each of the contacts, once.                 *)
LEMMA MergedIs ==
    ASSUME NEW list \in Seq(Entry), NEW contacts \in SUBSET Friend
    PROVE  /\ Merged(list, contacts) \in Seq(Entry)
           /\ \A k \in 1..Len(Merged(list, contacts)) :
                 \E f \in contacts : Merged(list, contacts)[k] = Row(f)
           /\ \A f \in contacts :
                 \E k \in 1..Len(Merged(list, contacts)) : Merged(list, contacts)[k] = Row(f)
           /\ \A k, l \in 1..Len(Merged(list, contacts)) :
                 Merged(list, contacts)[k] = Merged(list, contacts)[l] => k = l
<1>. DEFINE all    == [i \in 1..Len(Order) |-> Row(Order[i])]
            rows   == {Row(f) : f \in contacts}
            In(l)  == {i \in 1..Len(l) : l[i] \in rows}
            one    == Chosen(list, In(list))
            two    == Chosen(all, In(all))
            both   == one \o two
<1>1. all \in Seq(Entry) /\ Len(all) = Len(Order) /\ \A i \in 1..Len(all) : all[i] = Row(Order[i])
  <2>1. Order \in Seq(Friend) /\ \A i \in 1..Len(Order) : Row(Order[i]) \in Entry
    BY OrderAssumption, EntryIs
  <2>2. all \in [1..Len(Order) -> Entry] /\ Len(Order) \in Nat
    BY <2>1
  <2>3. QED
    BY <2>2
<1>2. Merged(list, contacts) = Unique(both)
  BY DEF Merged
<1>3. \A f \in contacts : \E i \in In(all) : all[i] = Row(f)
  <2>1. ASSUME NEW f \in contacts
        PROVE  \E i \in 1..Len(Order) : Order[i] = f
    BY OrderAssumption
  <2>2. QED
    BY <1>1, <2>1
<1>. HIDE DEF all
<1>4. ASSUME NEW l \in Seq(Entry)
      PROVE  /\ Chosen(l, In(l)) \in Seq(Entry)
             /\ \A k \in 1..Len(Chosen(l, In(l))) : Chosen(l, In(l))[k] \in rows
             /\ \A i \in In(l) : \E k \in 1..Len(Chosen(l, In(l))) : Chosen(l, In(l))[k] = l[i]
  <2>. DEFINE P == In(l)
              c == Chosen(l, P)
  <2>1. P \in SUBSET (1..Len(l)) /\ \A i \in P : l[i] \in rows
    OBVIOUS
  <2>. HIDE DEF P
  <2>2. c \in Seq(Entry) /\ \A i \in P : \E k \in 1..Len(c) : c[k] = l[i]
    BY <2>1, ChosenIs
  <2>3. PICK g \in [1..Len(c) -> P] : \A k \in 1..Len(c) : c[k] = l[g[k]]
    BY <2>1, ChosenIs
  <2>4. \A k \in 1..Len(c) : c[k] \in rows
    BY <2>1, <2>3
  <2>5. QED
    BY <2>2, <2>4 DEF P
<1>5. /\ one \in Seq(Entry) /\ \A k \in 1..Len(one) : one[k] \in rows
  BY <1>4
<1>6. /\ two \in Seq(Entry) /\ \A k \in 1..Len(two) : two[k] \in rows
      /\ \A i \in In(all) : \E k \in 1..Len(two) : two[k] = all[i]
  BY <1>1, <1>4
<1>. HIDE DEF one, two, In
<1>7. /\ both \in Seq(Entry) /\ Len(both) = Len(one) + Len(two)
      /\ \A i \in 1..Len(one) : both[i] = one[i]
      /\ \A i \in 1..Len(two) : both[Len(one) + i] = two[i]
  BY <1>5, <1>6, ConcatOf
<1>. HIDE DEF both
<1>8. ASSUME NEW i \in 1..Len(both)
      PROVE  both[i] \in rows
  <2>1. CASE i <= Len(one)
    <3>1. i \in 1..Len(one)
      BY <1>5, <1>7, <2>1
    <3>2. QED
      BY <1>5, <1>7, <3>1
  <2>2. CASE i > Len(one)
    <3>1. i - Len(one) \in 1..Len(two) /\ Len(one) + (i - Len(one)) = i
      BY <1>5, <1>6, <1>7, <2>2
    <3>2. QED
      BY <1>6, <1>7, <3>1
  <2>3. QED
    BY <1>5, <2>1, <2>2
<1>9. ASSUME NEW f \in contacts
      PROVE  \E i \in 1..Len(both) : both[i] = Row(f)
  <2>1. PICK k \in 1..Len(two) : two[k] = Row(f)
    BY <1>3, <1>6
  <2>2. Len(one) + k \in 1..Len(both)
    BY <1>5, <1>6, <1>7
  <2>3. QED
    BY <1>7, <2>1, <2>2
<1>10. /\ Unique(both) \in Seq(Entry)
       /\ \A k \in 1..Len(Unique(both)) : \E i \in 1..Len(both) : Unique(both)[k] = both[i]
       /\ \A i \in 1..Len(both) : \E k \in 1..Len(Unique(both)) : Unique(both)[k] = both[i]
       /\ \A k, l \in 1..Len(Unique(both)) : Unique(both)[k] = Unique(both)[l] => k = l
  BY <1>7, UniqueIs
<1>11. \A k \in 1..Len(Unique(both)) : Unique(both)[k] \in rows
  BY <1>8, <1>10
<1>. DEFINE m == Unique(both)
<1>. HIDE DEF m
<1>12. /\ m \in Seq(Entry) /\ \A k \in 1..Len(m) : \E f \in contacts : m[k] = Row(f)
       /\ \A k, l \in 1..Len(m) : m[k] = m[l] => k = l
  BY <1>10, <1>11 DEF m, rows
<1>13. \A f \in contacts : \E k \in 1..Len(m) : m[k] = Row(f)
  BY <1>9, <1>10 DEF m
<1>14. QED
  BY <1>2, <1>12, <1>13 DEF m

-----------------------------------------------------------------------------
(* The shared list                                                         *)

(* The job a queue has begun fits its operation, and a removal runs in an  *)
(* app that has its copy.                                                  *)
DoingShape ==
    /\ \A q \in Queue : /\ doing[q].op = "most" => doing[q].entry \in Entry
                        /\ doing[q].op = "look" => doing[q].entry \in Friend
                        /\ doing[q].op = "remove" => doing[q].entry \in Entry /\ doing[q].entry.id = "row"
    /\ ~Free("removal") => loaded["app"]

TypeInv == TypeOK /\ DoingShape

LEMMA ListType ==
    ASSUME TypeOK, NEW p \in Process
    PROVE  List(p) \in Seq(Entry)
BY DEF TypeOK, List

LEMMA WriteIs ==
    ASSUME TypeOK, NEW p \in Process, NEW base, NEW list \in Seq(Entry),
           NEW more \in SUBSET Causes, Write(p, base, list, more)
    PROVE  /\ disk' = Coded(list) /\ disk' \in Seq(Entry)
           /\ copy' \in [Process -> Seq(Entry)] /\ copy'[p] = Coded(list)
           /\ \A q \in Process : q # p => copy'[q] = copy[q] /\ loaded'[q] = loaded[q]
           /\ loaded' \in [Process -> BOOLEAN] /\ loaded'[p]
           /\ causes' \subseteq Causes /\ causes \subseteq causes' /\ more \subseteq causes'
           /\ "overtaken" \in causes' \/ base = List(p)
           /\ "stale" \in causes' \/ List(p) = disk
<1>1. Coded(list) \in Seq(Entry)
  BY CodedIs
<1>2. /\ disk' = Coded(list) /\ copy' = [copy EXCEPT ![p] = Coded(list)]
      /\ loaded' = [loaded EXCEPT ![p] = TRUE]
      /\ causes' = causes \cup more \cup If("overtaken", base # List(p)) \cup If("stale", List(p) # disk)
  BY DEF Write
<1>3. copy \in [Process -> Seq(Entry)] /\ loaded \in [Process -> BOOLEAN] /\ causes \subseteq Causes
  BY DEF TypeOK
<1>4. /\ copy' \in [Process -> Seq(Entry)] /\ copy'[p] = Coded(list)
      /\ \A q \in Process : q # p => copy'[q] = copy[q] /\ loaded'[q] = loaded[q]
      /\ loaded' \in [Process -> BOOLEAN] /\ loaded'[p]
  BY <1>1, <1>2, <1>3
<1>5. /\ causes' \subseteq Causes /\ causes \subseteq causes' /\ more \subseteq causes'
      /\ "overtaken" \in causes' \/ base = List(p)
      /\ "stale" \in causes' \/ List(p) = disk
  <2>. HIDE DEF Write
  <2>1. If("overtaken", base # List(p)) \subseteq {"overtaken"} /\ If("stale", List(p) # disk) \subseteq {"stale"}
    BY DEF If
  <2>2. "overtaken" \in Causes /\ "stale" \in Causes
    BY DEF Causes
  <2>3. /\ base # List(p) => "overtaken" \in If("overtaken", base # List(p))
        /\ List(p) # disk => "stale" \in If("stale", List(p) # disk)
    BY DEF If
  <2>4. QED
    BY <1>2, <1>3, <2>1, <2>2, <2>3
<1>6. QED
  BY <1>1, <1>2, <1>4, <1>5

LEMMA LoadIs ==
    ASSUME TypeOK, NEW p \in Process, Load(p)
    PROVE  /\ disk' = disk /\ copy' \in [Process -> Seq(Entry)] /\ copy'[p] = List(p)
           /\ \A q \in Process : q # p => copy'[q] = copy[q] /\ loaded'[q] = loaded[q]
           /\ loaded' \in [Process -> BOOLEAN] /\ loaded'[p]
BY ListType DEF TypeOK, Load

LEMMA BeginIs ==
    ASSUME TypeOK, NEW q \in Queue, NEW p \in Process,
           NEW op \in {"most", "look", "merge", "remove"},
           NEW entry \in Entry \cup Friend \cup {NoOne}, NEW with \in SUBSET Friend,
           Begin(q, p, op, entry, with)
    PROVE  /\ doing' \in [Queue -> Work] /\ doing'[q].op = op /\ doing'[q].entry = entry
           /\ doing'[q].list = List(p) /\ doing'[q].with = with
           /\ \A r \in Queue : r # q => doing'[r] = doing[r]
           /\ Load(p)
<1>. DEFINE job == [op |-> op, entry |-> entry, list |-> List(p), with |-> with]
<1>1. job \in Work
  BY ListType DEF Work
<1>2. doing' = [doing EXCEPT ![q] = job] /\ doing \in [Queue -> Work]
  BY DEF Begin, TypeOK
<1>3. doing' \in [Queue -> Work] /\ doing'[q] = job /\ \A r \in Queue : r # q => doing'[r] = doing[r]
  BY <1>1, <1>2
<1>4. Load(p)
  BY DEF Begin
<1>5. QED
  BY <1>3, <1>4

LEMMA EndIs ==
    ASSUME TypeOK, NEW q \in Queue, End(q)
    PROVE  /\ doing' \in [Queue -> Work] /\ doing'[q] = Idle
           /\ \A r \in Queue : r # q => doing'[r] = doing[r]
<1>1. Idle \in Work /\ doing \in [Queue -> Work]
  BY DEF Idle, Work, TypeOK
<1>2. QED
  BY <1>1 DEF End

-----------------------------------------------------------------------------
(* Types                                                                   *)

(* The types in three parts: what Write and Load change, what Begin and    *)
(* End change, and the rest.                                               *)
StoreType ==
    /\ disk \in Seq(Entry) /\ copy \in [Process -> Seq(Entry)] /\ loaded \in [Process -> BOOLEAN]
    /\ causes \subseteq Causes

RestType ==
    /\ friends \subseteq Friend
    /\ target \in Entry \cup {NoOne} /\ waiting \in BOOLEAN
    /\ chatQ \in Seq(Job) /\ opens \in Seq(Entry)
    /\ finds \subseteq [friend : Friend, list : Seq(Entry)]
    /\ view \in [open : BOOLEAN, recent : Seq(Entry), asked : BOOLEAN, merge : BOOLEAN,
                 with : SUBSET Friend]
    /\ page \in [asked : BOOLEAN, merge : BOOLEAN, contacts : SUBSET Friend]
    /\ events \in 0..MaxEvents
    /\ removed \subseteq Friend /\ accepted \subseteq Friend /\ listed \subseteq Friend

LEMMA TypeParts == TypeOK <=> StoreType /\ RestType /\ doing \in [Queue -> Work]
BY DEF TypeOK, StoreType, RestType

LEMMA PartTypes ==
    ASSUME TypeOK
    PROVE  /\ \A q \in Queue : /\ doing[q] \in Work /\ doing[q].list \in Seq(Entry)
                               /\ doing[q].with \in SUBSET Friend
           /\ view.recent \in Seq(Entry) /\ view.with \in SUBSET Friend
           /\ page.contacts \in SUBSET Friend
           /\ \A r \in finds : r.friend \in Friend /\ r.list \in Seq(Entry)
           /\ \A i \in 1..Len(chatQ) : chatQ[i] \in Job
<1>1. \A q \in Queue : /\ doing[q] \in Work /\ doing[q].list \in Seq(Entry)
                       /\ doing[q].with \in SUBSET Friend
  BY DEF TypeOK, Work
<1>2. /\ view.recent \in Seq(Entry) /\ view.with \in SUBSET Friend
      /\ page.contacts \in SUBSET Friend
  BY DEF TypeOK
<1>3. \A r \in finds : r.friend \in Friend /\ r.list \in Seq(Entry)
  BY DEF TypeOK
<1>4. \A i \in 1..Len(chatQ) : chatQ[i] \in Job
  BY DEF TypeOK
<1>5. QED
  BY <1>1, <1>2, <1>3, <1>4

LEMMA JobIs ==
    ASSUME NEW j \in Job
    PROVE  /\ j.op \in {"most", "look"} /\ j.entry \in Entry \cup Friend
           /\ j.op = "most" => j.entry \in Entry
           /\ j.op = "look" => j.entry \in Friend
BY DEF Job

(* The list a job of EndLook writes.                                       *)
LEMMA PlaceType ==
    ASSUME NEW list \in Seq(Entry), NEW e \in Entry
    PROVE  Place(list, e) \in Seq(Entry)
BY FirstIs, SecondIs, PlaceIs

LEMMA LookedIs ==
    ASSUME NEW list \in Seq(Entry), NEW f, Of(list, f) # {}
    PROVE  /\ Least(Of(list, f)) \in 1..Len(list) /\ list[Least(Of(list, f))] \in Entry
           /\ list[Least(Of(list, f))].friend = f
           /\ Without(list, Of(list, f)) \in Seq(Entry)
           /\ Place(Without(list, Of(list, f)), list[Least(Of(list, f))]) \in Seq(Entry)
<1>1. Of(list, f) \in SUBSET (1..Len(list)) /\ Of(list, f) \in SUBSET Nat
  BY DEF Of
<1>2. Least(Of(list, f)) \in Of(list, f)
  BY <1>1, LeastIs
<1>3. /\ Least(Of(list, f)) \in 1..Len(list) /\ list[Least(Of(list, f))] \in Entry
      /\ list[Least(Of(list, f))].friend = f
  BY <1>1, <1>2 DEF Of
<1>4. Without(list, Of(list, f)) \in Seq(Entry)
  BY <1>1, WithoutType
<1>5. QED
  BY <1>3, <1>4, PlaceType

LEMMA StoreKept == StoreType /\ UNCHANGED <<store, causes>> => StoreType'
BY DEF StoreType, store

LEMMA LoadType ==
    ASSUME TypeOK, NEW p \in Process, Load(p), UNCHANGED causes
    PROVE  StoreType' /\ (loaded["app"] => loaded'["app"])
<1>1. /\ disk' = disk /\ copy' \in [Process -> Seq(Entry)]
      /\ \A q \in Process : q # p => loaded'[q] = loaded[q]
      /\ loaded' \in [Process -> BOOLEAN] /\ loaded'[p]
  BY LoadIs
<1>2. "app" \in Process
  BY DEF Process
<1>3. QED
  BY <1>1, <1>2 DEF TypeOK, StoreType

LEMMA WriteType ==
    ASSUME TypeOK, NEW p \in Process, NEW base, NEW list \in Seq(Entry),
           NEW more \in SUBSET Causes, Write(p, base, list, more)
    PROVE  StoreType' /\ (loaded["app"] => loaded'["app"])
<1>1. /\ disk' \in Seq(Entry) /\ copy' \in [Process -> Seq(Entry)]
      /\ \A q \in Process : q # p => loaded'[q] = loaded[q]
      /\ loaded' \in [Process -> BOOLEAN] /\ loaded'[p]
      /\ causes' \subseteq Causes
  BY WriteIs
<1>2. "app" \in Process
  BY DEF Process
<1>3. QED
  BY <1>1, <1>2 DEF StoreType

(* The store keeps its types.  The app's copy is unloaded only when the    *)
(* app ends, and a removal with it.                                        *)
LEMMA StoreStep ==
    ASSUME TypeInv, [Next]_vars
    PROVE  StoreType' /\ (loaded["app"] => loaded'["app"] \/ doing'["removal"] = Idle)
<1>. USE DEF TypeInv
<1>1. StoreType /\ "keyboard" \in Process /\ "app" \in Process
  BY TypeParts DEF Process
<1>2. /\ \A q \in Queue : doing[q].list \in Seq(Entry) /\ doing[q].with \in SUBSET Friend
      /\ view.recent \in Seq(Entry) /\ view.with \in SUBSET Friend
      /\ \A r \in finds : r.friend \in Friend /\ r.list \in Seq(Entry)
      /\ "chat" \in Queue /\ "completion" \in Queue /\ "removal" \in Queue /\ "pages" \in Queue
  BY PartTypes DEF Queue
<1>3. CASE UNCHANGED <<store, causes>>
  BY <1>1, <1>3, StoreKept DEF store
<1>4. CASE /\ \E p \in Process : Load(p)
           /\ UNCHANGED causes
  BY <1>4, LoadType
<1>5. CASE EndMost
  <2>. DEFINE job == doing["chat"]
  <2>1. job.entry \in Entry
    BY <1>2, <1>5 DEF EndMost, DoingShape
  <2>2. MostRecent(job.list, job.entry) \in Seq(Entry)
    BY <1>2, <2>1, MostRecentType
  <2>3. If("late", job.entry.friend \notin friends) \in SUBSET Causes
    BY DEF If, Causes
  <2>4. Write("keyboard", job.list, MostRecent(job.list, job.entry), If("late", job.entry.friend \notin friends))
    BY <1>5 DEF EndMost
  <2>5. QED
    BY <1>1, <2>2, <2>3, <2>4, WriteType
<1>6. CASE EndLook
  <2>. DEFINE job   == doing["chat"]
              found == Of(job.list, job.entry)
              more  == If("offline", /\ target # NoOne /\ target.friend = job.entry
                                     /\ [op |-> "most", entry |-> target] \notin Jobs)
              new   == Place(Without(job.list, found), job.list[Least(found)])
  <2>1. CASE found = {}
    BY <1>1, <1>6, <2>1, StoreKept DEF EndLook, store
  <2>2. CASE found # {}
    <3>1. Write("keyboard", job.list, new, more)
      BY <1>6, <2>2 DEF EndLook
    <3>2. new \in Seq(Entry)
      BY <1>2, <2>2, LookedIs
    <3>3. more \in SUBSET Causes
      BY DEF If, Causes
    <3>. HIDE DEF more, new
    <3>4. QED
      BY <1>1, <3>1, <3>2, <3>3, WriteType
  <2>3. QED
    BY <2>1, <2>2
<1>7. CASE \E r \in finds : FriendFound(r)
  <2>1. PICK r \in finds : FriendFound(r)
    BY <1>7
  <2>2. CASE UNCHANGED <<store, causes>>
    BY <1>1, <2>2, StoreKept DEF store
  <2>3. CASE Write("keyboard", r.list, Place(r.list, Row(r.friend)), {})
    <3>1. r.list \in Seq(Entry) /\ Row(r.friend) \in Entry
      BY <1>2, EntryIs
    <3>2. Place(r.list, Row(r.friend)) \in Seq(Entry) /\ {} \in SUBSET Causes
      BY <3>1, PlaceType
    <3>3. QED
      BY <1>1, <2>3, <3>2, WriteType
  <2>4. QED
    BY <2>1, <2>2, <2>3 DEF FriendFound
<1>8. CASE EndAccept
  <2>. DEFINE job == doing["completion"]
  <2>1. job.entry \in Entry
    BY <1>2, <1>8 DEF EndAccept, DoingShape
  <2>2. MostRecent(job.list, job.entry) \in Seq(Entry)
    BY <1>2, <2>1, MostRecentType
  <2>3. If("late", job.entry.friend \notin friends) \in SUBSET Causes
    BY DEF If, Causes
  <2>4. Write("keyboard", job.list, MostRecent(job.list, job.entry), If("late", job.entry.friend \notin friends))
    BY <1>8 DEF EndAccept
  <2>5. QED
    BY <1>1, <2>2, <2>3, <2>4, WriteType
<1>9. CASE MergeView
  <2>. DEFINE new  == Merged(view.recent, view.with)
              more == {"page"} \cup If("old", view.with # friends)
  <2>1. Write("keyboard", view.recent, new, more)
    BY <1>9 DEF MergeView
  <2>2. new \in Seq(Entry)
    BY <1>2, MergedIs
  <2>3. more \in SUBSET Causes
    BY DEF If, Causes
  <2>. HIDE DEF new, more
  <2>4. QED
    BY <1>1, <2>1, <2>2, <2>3, WriteType
<1>10. CASE EndMerge
  <2>. DEFINE job  == doing["pages"]
              new  == Merged(job.list, job.with)
              more == {"page"} \cup If("old", job.with # friends)
  <2>1. Write("app", job.list, new, more)
    BY <1>10 DEF EndMerge
  <2>2. new \in Seq(Entry)
    BY <1>2, MergedIs
  <2>3. more \in SUBSET Causes
    BY DEF If, Causes
  <2>. HIDE DEF new, more
  <2>4. QED
    BY <1>1, <2>1, <2>2, <2>3, WriteType
<1>11. CASE EndRemove
  <2>. DEFINE job  == doing["removal"]
              new  == Without(job.list, At(job.list, job.entry))
              more == If("late", job.entry.friend \in friends)
  <2>1. CASE job.entry \in Entries(job.list)
    <3>1. Write("app", job.list, new, more)
      BY <1>11, <2>1 DEF EndRemove
    <3>2. new \in Seq(Entry)
      BY <1>2, AtIs, WithoutType
    <3>3. more \in SUBSET Causes
      BY DEF If, Causes
    <3>. HIDE DEF new, more
    <3>4. QED
      BY <1>1, <3>1, <3>2, <3>3, WriteType
  <2>2. CASE job.entry \notin Entries(job.list)
    <3>1. UNCHANGED store /\ causes' = causes \cup If("stale", List("app") # disk)
      BY <1>11, <2>2 DEF EndRemove
    <3>2. If("stale", List("app") # disk) \subseteq Causes
      BY DEF If, Causes
    <3>3. QED
      BY <1>1, <3>1, <3>2 DEF StoreType, store
  <2>3. QED
    BY <2>1, <2>2
<1>12. CASE Clear
  <2>1. Write("app", List("app"), <<>>, {}) /\ <<>> \in Seq(Entry) /\ {} \in SUBSET Causes
    BY <1>12 DEF Clear
  <2>2. QED
    BY <1>1, <2>1, WriteType
<1>13. CASE KillKeyboard
  BY <1>1, <1>13 DEF KillKeyboard, StoreType, history, Process
<1>14. CASE KillApp
  <2>1. causes' \subseteq Causes
    BY <1>1, <1>14 DEF KillApp, StoreType, If, Causes
  <2>2. /\ disk' = disk /\ copy' = [copy EXCEPT !["app"] = <<>>]
        /\ loaded' = [loaded EXCEPT !["app"] = FALSE]
    BY <1>14 DEF KillApp
  <2>3. doing'["removal"] = Idle
    BY <1>14 DEF KillApp, TypeOK, Queue
  <2>4. QED
    BY <1>1, <2>1, <2>2, <2>3 DEF StoreType
<1>15. CASE BeginJob \/ (\E f \in Friend : Accept(f) \/ Remove(f)) \/ BeginMerge \/ OpenView
  BY <1>1, <1>4, <1>15 DEF BeginJob, Accept, Remove, BeginMerge, OpenView, Begin, history
<1>16. CASE \/ \E e \in Entry : Tap(e)
            \/ Invite \/ RunOpen \/ RemoveTarget \/ ContactsArrived
            \/ \E f \in Friend : MessageArrived(f)
            \/ \E r \in finds : FriendNotFound(r)
            \/ LoadContacts \/ PageArrived
            \/ UNCHANGED vars
  BY <1>3, <1>16 DEF Tap, Invite, RunOpen, RemoveTarget, ContactsArrived, MessageArrived,
       FriendNotFound, LoadContacts, PageArrived, vars, store, history
<1>17. QED
  BY <1>5, <1>6, <1>7, <1>8, <1>9, <1>10, <1>11, <1>12, <1>13, <1>14, <1>15, <1>16
     DEF Next, MainStep, ChatStep, AnswerStep, FriendStep, AppStep, Kill

LEMMA RestKept == RestType /\ UNCHANGED <<friends, chat, page, history>> => RestType'
BY DEF RestType, chat, history, seen

LEMMA ClosedType ==
    /\ <<>> \in Seq(Job) /\ <<>> \in Seq(Entry)
    /\ Closed \in [open : BOOLEAN, recent : Seq(Entry), asked : BOOLEAN, merge : BOOLEAN, with : SUBSET Friend]
    /\ NoPage \in [asked : BOOLEAN, merge : BOOLEAN, contacts : SUBSET Friend]
<1>1. <<>> \in Seq(Job) /\ <<>> \in Seq(Entry)
  OBVIOUS
<1>2. {} \in SUBSET Friend
  OBVIOUS
<1>3. QED
  BY <1>1, <1>2 DEF Closed, NoPage

LEMMA SetTargetType ==
    ASSUME RestType, NEW e \in Entry, SetTarget(e)
    PROVE  /\ target' \in Entry \cup {NoOne} /\ waiting' \in BOOLEAN
           /\ chatQ' \in Seq(Job)
<1>. DEFINE j == [op |-> "most", entry |-> e]
<1>1. j \in Job
  BY DEF Job
<1>2. target' = e /\ waiting' = FALSE /\ chatQ' = Append(chatQ, j) /\ chatQ \in Seq(Job)
  BY DEF RestType, SetTarget
<1>. HIDE DEF j
<1>3. chatQ' \in Seq(Job)
  BY <1>1, <1>2
<1>4. QED
  BY <1>2, <1>3

LEMMA ListsType ==
    ASSUME RestType, NEW f \in Friend, Lists(f)
    PROVE  listed' \subseteq Friend
BY DEF RestType, Lists

LEMMA EventType ==
    ASSUME RestType, Event
    PROVE  events' \in 0..MaxEvents
BY BoundAssumption DEF RestType, Event

LEMMA RestStep ==
    ASSUME TypeInv, [Next]_vars
    PROVE  RestType'
<1>. USE DEF TypeInv
<1>1. TypeOK /\ RestType
  BY TypeParts
<1>2. /\ \A r \in finds : r.friend \in Friend /\ r.list \in Seq(Entry)
      /\ view.recent \in Seq(Entry) /\ view.with \in SUBSET Friend
      /\ "chat" \in Queue /\ "completion" \in Queue /\ "removal" \in Queue /\ "pages" \in Queue
      /\ \A q \in Queue : doing[q].list \in Seq(Entry)
  BY <1>1, PartTypes DEF Queue
<1>3. CASE OpenView
  <2>1. List("keyboard") \in Seq(Entry)
    BY <1>1, ListType DEF Process
  <2>2. view' = [Closed EXCEPT !.open = TRUE, !.recent = List("keyboard"), !.asked = TRUE]
    BY <1>3 DEF OpenView
  <2>3. view' \in [open : BOOLEAN, recent : Seq(Entry), asked : BOOLEAN, merge : BOOLEAN, with : SUBSET Friend]
    BY <2>1, <2>2 DEF Closed
  <2>4. QED
    BY <1>1, <1>3, <2>3, EventType DEF OpenView, RestType, seen
<1>4. CASE \E e \in Entry : Tap(e)
  <2>1. PICK e \in Entry : Tap(e)
    BY <1>4
  <2>2. view' \in [open : BOOLEAN, recent : Seq(Entry), asked : BOOLEAN, merge : BOOLEAN, with : SUBSET Friend]
    BY <2>1 DEF Tap, Closed
  <2>3. SetTarget(e) /\ Event
    BY <2>1 DEF Tap
  <2>4. target' \in Entry \cup {NoOne} /\ waiting' \in BOOLEAN /\ chatQ' \in Seq(Job) /\ events' \in 0..MaxEvents
    BY <1>1, <2>3, SetTargetType, EventType
  <2>5. QED
    BY <1>1, <2>1, <2>2, <2>4 DEF Tap, RestType, seen
<1>5. CASE ContactsArrived
  <2>1. view' \in [open : BOOLEAN, recent : Seq(Entry), asked : BOOLEAN, merge : BOOLEAN, with : SUBSET Friend]
    BY <1>1, <1>5 DEF ContactsArrived, RestType
  <2>2. QED
    BY <1>1, <1>5, <2>1 DEF ContactsArrived, RestType, history, seen
<1>6. CASE MergeView
  <2>1. Merged(view.recent, view.with) \in Seq(Entry)
    BY <1>2, MergedIs
  <2>2. view' = [view EXCEPT !.merge = FALSE, !.recent = Merged(view.recent, view.with), !.with = {}]
    BY <1>6 DEF MergeView
  <2>3. view' \in [open : BOOLEAN, recent : Seq(Entry), asked : BOOLEAN, merge : BOOLEAN, with : SUBSET Friend]
    BY <1>1, <2>1, <2>2 DEF RestType
  <2>4. QED
    BY <1>1, <1>6, <2>3 DEF MergeView, RestType, history, seen
<1>7. CASE Invite
  BY <1>1, <1>7, EventType DEF Invite, RestType, seen
<1>8. CASE RunOpen
  <2>1. Head(opens) \in Entry /\ opens' \in Seq(Entry) /\ SetTarget(Head(opens))
    BY <1>1, <1>8 DEF RunOpen, RestType
  <2>2. target' \in Entry \cup {NoOne} /\ waiting' \in BOOLEAN /\ chatQ' \in Seq(Job)
    BY <1>1, <2>1, SetTargetType
  <2>3. QED
    BY <1>1, <1>8, <2>1, <2>2 DEF RunOpen, RestType, history, seen
<1>9. CASE RemoveTarget
  BY <1>1, <1>9 DEF RemoveTarget, RestType, history, seen
<1>10. CASE \E f \in Friend : MessageArrived(f)
  <2>1. PICK f \in Friend : MessageArrived(f)
    BY <1>10
  <2>2. [op |-> "look", entry |-> f] \in Job
    BY DEF Job
  <2>3. chatQ' \in Seq(Job)
    BY <1>1, <2>1, <2>2 DEF MessageArrived, RestType
  <2>4. events' \in 0..MaxEvents
    BY <1>1, <2>1, EventType DEF MessageArrived
  <2>5. QED
    BY <1>1, <2>1, <2>3, <2>4 DEF MessageArrived, RestType, seen
<1>11. CASE BeginJob
  <2>1. chatQ' \in Seq(Job)
    BY <1>1, <1>11 DEF BeginJob, RestType
  <2>2. QED
    BY <1>1, <1>11, <2>1 DEF BeginJob, RestType, history, seen
<1>12. CASE EndMost
  <2>1. doing["chat"].entry \in Entry
    BY <1>2, <1>12 DEF EndMost, DoingShape
  <2>2. doing["chat"].entry.friend \in Friend
    BY <2>1, EntryIs
  <2>3. listed' \subseteq Friend
    BY <1>1, <1>12, <2>2, ListsType DEF EndMost
  <2>4. QED
    BY <1>1, <1>12, <2>3 DEF EndMost, RestType, chat
<1>13. CASE EndLook
  <2>1. doing["chat"].entry \in Friend
    BY <1>2, <1>13 DEF EndLook, DoingShape
  <2>2. {[friend |-> doing["chat"].entry, list |-> doing["chat"].list]}
           \subseteq [friend : Friend, list : Seq(Entry)]
    BY <1>2, <2>1
  <2>3. finds' \subseteq [friend : Friend, list : Seq(Entry)]
    BY <1>1, <1>13, <2>2 DEF EndLook, RestType
  <2>4. QED
    BY <1>1, <1>13, <2>3 DEF EndLook, RestType, history, seen
<1>14. CASE \E r \in finds : FriendFound(r)
  <2>1. PICK r \in finds : FriendFound(r)
    BY <1>14
  <2>2. r.friend \in Friend /\ Row(r.friend) \in Entry
    BY <1>2, EntryIs
  <2>3. listed' \subseteq Friend
    BY <1>1, <2>1, <2>2, ListsType DEF FriendFound, RestType
  <2>4. opens' \in Seq(Entry)
    <3>1. opens \in Seq(Entry) /\ (opens' = opens \/ opens' = Append(opens, Row(r.friend)))
      BY <1>1, <2>1 DEF FriendFound, RestType
    <3>2. QED
      BY <2>2, <3>1
  <2>5. QED
    BY <1>1, <2>1, <2>3, <2>4 DEF FriendFound, RestType
<1>15. CASE \E r \in finds : FriendNotFound(r)
  BY <1>1, <1>15 DEF FriendNotFound, RestType, history, seen
<1>16. CASE \E f \in Friend : Accept(f)
  <2>1. PICK f \in Friend : Accept(f)
    BY <1>16
  <2>2. events' \in 0..MaxEvents
    BY <1>1, <2>1, EventType DEF Accept
  <2>3. QED
    BY <1>1, <2>1, <2>2 DEF Accept, RestType, chat
<1>17. CASE EndAccept
  <2>1. doing["completion"].entry \in Entry
    BY <1>2, <1>17 DEF EndAccept, DoingShape
  <2>2. doing["completion"].entry.friend \in Friend
    BY <2>1, EntryIs
  <2>3. listed' \subseteq Friend /\ opens' \in Seq(Entry)
    BY <1>1, <1>17, <2>1, <2>2, ListsType DEF EndAccept, RestType
  <2>4. QED
    BY <1>1, <1>17, <2>3 DEF EndAccept, RestType
<1>18. CASE LoadContacts
  BY <1>1, <1>18, EventType DEF LoadContacts, RestType, chat, seen
<1>19. CASE PageArrived
  BY <1>1, <1>19 DEF PageArrived, RestType, chat, history, seen
<1>20. CASE BeginMerge
  BY <1>1, <1>20 DEF BeginMerge, RestType, chat, history, seen
<1>21. CASE \E f \in Friend : Remove(f)
  <2>1. PICK f \in Friend : Remove(f)
    BY <1>21
  <2>2. events' \in 0..MaxEvents
    BY <1>1, <2>1, EventType DEF Remove
  <2>3. QED
    BY <1>1, <2>1, <2>2 DEF Remove, RestType, chat
<1>22. CASE EndRemove
  <2>1. page' \in [asked : BOOLEAN, merge : BOOLEAN, contacts : SUBSET Friend]
    BY <1>1, <1>22 DEF EndRemove, RestType
  <2>2. QED
    BY <1>1, <1>22, <2>1 DEF EndRemove, RestType, chat, history, seen
<1>23. CASE Clear
  BY <1>1, <1>23, EventType DEF Clear, RestType, chat
<1>24. CASE KillKeyboard
  <2>1. /\ target' = NoOne /\ waiting' = FALSE /\ chatQ' = <<>> /\ finds' = {} /\ opens' = <<>>
        /\ view' = Closed /\ UNCHANGED <<friends, page, events, removed, accepted, listed>>
    BY <1>24 DEF KillKeyboard, history, seen
  <2>2. QED
    BY <1>1, <2>1, ClosedType DEF RestType
<1>25. CASE KillApp
  BY <1>1, <1>25 DEF KillApp, RestType, NoPage, chat, history, seen
<1>26. CASE EndMerge \/ UNCHANGED vars
  BY <1>1, <1>26, RestKept DEF EndMerge, vars, chat, history, seen
<1>27. QED
  BY <1>3, <1>4, <1>5, <1>6, <1>7, <1>8, <1>9, <1>10, <1>11, <1>12, <1>13, <1>14, <1>15, <1>16,
     <1>17, <1>18, <1>19, <1>20, <1>21, <1>22, <1>23, <1>24, <1>25, <1>26
     DEF Next, MainStep, ChatStep, AnswerStep, FriendStep, AppStep, Kill

LEMMA WorkStep ==
    ASSUME TypeInv, [Next]_vars
    PROVE  doing' \in [Queue -> Work] /\ DoingShape'
<1>. USE DEF TypeInv
<1>1. TypeOK /\ DoingShape /\ doing \in [Queue -> Work]
  BY DEF TypeOK
<1>2. loaded["app"] => loaded'["app"] \/ doing'["removal"] = Idle
  BY StoreStep
<1>3. /\ "chat" \in Queue /\ "completion" \in Queue /\ "removal" \in Queue /\ "pages" \in Queue
      /\ "keyboard" \in Process /\ "app" \in Process /\ page.contacts \in SUBSET Friend
      /\ {} \in SUBSET Friend
  BY PartTypes DEF Queue, Process
<1>4. Idle \in Work /\ Idle.op = "none"
  BY DEF Idle, Work
<1>5. CASE BeginJob
  <2>1. Head(chatQ) \in Job
    BY <1>1, <1>5 DEF BeginJob, TypeOK
  <2>. DEFINE j == Head(chatQ)
  <2>2. /\ j.op \in {"most", "look", "merge", "remove"} /\ j.entry \in Entry \cup Friend \cup {NoOne}
        /\ j.op = "most" => j.entry \in Entry
        /\ j.op = "look" => j.entry \in Friend
        /\ j.op # "remove"
    BY <2>1, JobIs
  <2>3. Begin("chat", "keyboard", j.op, j.entry, {})
    BY <1>5 DEF BeginJob
  <2>. HIDE DEF j
  <2>4. /\ doing' \in [Queue -> Work] /\ doing'["chat"].op = j.op /\ doing'["chat"].entry = j.entry
        /\ \A r \in Queue : r # "chat" => doing'[r] = doing[r]
    BY <1>1, <1>3, <2>2, <2>3, BeginIs
  <2>5. QED
    BY <1>1, <1>2, <1>3, <2>2, <2>4 DEF DoingShape, Free
<1>6. CASE \E f \in Friend : Accept(f)
  <2>1. PICK f \in Friend : Accept(f)
    BY <1>6
  <2>2. Own(f) \in Entry
    BY EntryIs
  <2>3. Begin("completion", "keyboard", "most", Own(f), {})
    BY <2>1 DEF Accept
  <2>4. /\ doing' \in [Queue -> Work] /\ doing'["completion"].op = "most"
        /\ doing'["completion"].entry = Own(f)
        /\ \A r \in Queue : r # "completion" => doing'[r] = doing[r]
    BY <1>1, <1>3, <2>2, <2>3, BeginIs
  <2>5. QED
    BY <1>1, <1>2, <1>3, <2>2, <2>4 DEF DoingShape, Free
<1>7. CASE BeginMerge
  <2>1. Begin("pages", "app", "merge", NoOne, page.contacts)
    BY <1>7 DEF BeginMerge
  <2>2. /\ doing' \in [Queue -> Work] /\ doing'["pages"].op = "merge"
        /\ \A r \in Queue : r # "pages" => doing'[r] = doing[r]
    BY <1>1, <1>3, <2>1, BeginIs
  <2>3. QED
    BY <1>1, <1>2, <1>3, <2>2 DEF DoingShape, Free
<1>8. CASE \E f \in Friend : Remove(f)
  <2>1. PICK f \in Friend : Remove(f)
    BY <1>8
  <2>2. Row(f) \in Entry /\ Row(f).id = "row"
    BY EntryIs
  <2>3. Begin("removal", "app", "remove", Row(f), {})
    BY <2>1 DEF Remove
  <2>4. /\ doing' \in [Queue -> Work] /\ doing'["removal"].op = "remove"
        /\ doing'["removal"].entry = Row(f)
        /\ \A r \in Queue : r # "removal" => doing'[r] = doing[r]
        /\ Load("app")
    BY <1>1, <1>3, <2>2, <2>3, BeginIs
  <2>5. loaded'["app"]
    BY <1>1, <1>3, <2>4, LoadIs
  <2>6. QED
    BY <1>1, <1>3, <2>2, <2>4, <2>5 DEF DoingShape
<1>9. ASSUME NEW q \in Queue, End(q)
      PROVE  doing' \in [Queue -> Work] /\ DoingShape'
  <2>1. /\ doing' \in [Queue -> Work] /\ doing'[q] = Idle
        /\ \A r \in Queue : r # q => doing'[r] = doing[r]
    BY <1>1, <1>9, EndIs
  <2>2. QED
    BY <1>1, <1>2, <1>3, <1>4, <2>1 DEF DoingShape, Free
<1>10. CASE EndMost \/ EndLook \/ EndAccept \/ EndMerge \/ EndRemove
  BY <1>3, <1>9, <1>10 DEF EndMost, EndLook, EndAccept, EndMerge, EndRemove
<1>11. CASE KillKeyboard \/ KillApp
  <2>1. PICK q \in Queue, r \in Queue : doing' = [doing EXCEPT ![q] = Idle, ![r] = Idle]
    BY <1>3, <1>11 DEF KillKeyboard, KillApp
  <2>2. /\ doing' \in [Queue -> Work]
        /\ \A s \in Queue : doing'[s] = doing[s] \/ doing'[s] = Idle
    BY <1>1, <1>4, <2>1
  <2>3. QED
    BY <1>1, <1>2, <1>3, <1>4, <2>2 DEF DoingShape, Free
<1>12. CASE UNCHANGED doing
  BY <1>1, <1>2, <1>12 DEF DoingShape, Free
<1>13. CASE \/ OpenView \/ MergeView \/ Invite \/ RunOpen \/ RemoveTarget \/ ContactsArrived
            \/ LoadContacts \/ PageArrived \/ Clear \/ UNCHANGED vars
            \/ \E e \in Entry : Tap(e)
            \/ \E f \in Friend : MessageArrived(f)
            \/ \E r \in finds : FriendFound(r) \/ FriendNotFound(r)
  BY <1>12, <1>13 DEF OpenView, MergeView, Invite, RunOpen, RemoveTarget, ContactsArrived, LoadContacts,
       PageArrived, Clear, vars, Tap, MessageArrived, FriendFound, FriendNotFound
<1>14. QED
  BY <1>5, <1>6, <1>7, <1>8, <1>10, <1>11, <1>13
     DEF Next, MainStep, ChatStep, AnswerStep, FriendStep, AppStep, Kill

(* Type correctness: whatever the user, the friends and the server do, the *)
(* state keeps its types, a job its shape.                                 *)
THEOREM TypesKept == Spec => []TypeInv
<1>1. Init => TypeInv
  <2>1. ASSUME Init
        PROVE  TypeInv
    <3>1. Idle \in Work /\ Idle.op = "none"
      BY DEF Idle, Work
    <3>2. doing = [q \in Queue |-> Idle] /\ "removal" \in Queue
      BY <2>1 DEF Init, Queue
    <3>3. doing \in [Queue -> Work] /\ DoingShape
      BY <3>1, <3>2 DEF DoingShape, Free
    <3>4. StoreType
      BY <2>1 DEF Init, StoreType
    <3>5. RestType
      <4>1. /\ friends \in SUBSET Friend /\ target = NoOne /\ waiting = FALSE /\ chatQ = <<>>
            /\ finds = {} /\ opens = <<>> /\ view = Closed /\ page = NoPage /\ events = 0
            /\ removed = {} /\ accepted = {} /\ listed = {}
        BY <2>1 DEF Init
      <4>2. 0 \in 0..MaxEvents
        BY BoundAssumption
      <4>3. QED
        BY <4>1, <4>2, ClosedType DEF RestType
    <3>6. QED
      BY <3>3, <3>4, <3>5, TypeParts DEF TypeInv
  <2>2. QED
    BY <2>1
<1>2. TypeInv /\ [Next]_vars => TypeInv'
  <2>1. ASSUME TypeInv, [Next]_vars
        PROVE  TypeInv'
    <3>1. StoreType' /\ RestType' /\ doing' \in [Queue -> Work] /\ DoingShape'
      BY <2>1, StoreStep, RestStep, WorkStep
    <3>2. TypeOK'
      BY <3>1 DEF TypeOK, StoreType, RestType
    <3>3. QED
      BY <3>1, <3>2 DEF TypeInv
  <2>2. QED
    BY <2>1
<1>3. QED
  BY <1>1, <1>2, PTL DEF Spec

-----------------------------------------------------------------------------
(* Who is in a list                                                        *)

LEMMA NamesCoded ==
    ASSUME NEW list \in Seq(Entry)
    PROVE  Names(Coded(list)) = Names(list)
BY CodedIs DEF Names

(* Only the friend of the entry taken out can be gone.                     *)
LEMMA NamesWithout ==
    ASSUME NEW list \in Seq(Entry), NEW P \in SUBSET (1..Len(list)), NEW f,
           \A i \in P : list[i].friend = f
    PROVE  Names(Without(list, P)) \subseteq Names(list) /\ Names(list) \subseteq Names(Without(list, P)) \cup {f}
<1>. DEFINE w == Without(list, P)
<1>1. \A i \in 1..Len(w) : \E j \in 1..Len(list) : w[i] = list[j]
  <2>1. PICK g \in [1..Len(w) -> 1..Len(list)] : \A i \in 1..Len(w) : w[i] = list[g[i]]
    BY WithoutMap
  <2>2. \A i \in 1..Len(w) : g[i] \in 1..Len(list)
    OBVIOUS
  <2>3. QED
    BY <2>1, <2>2
<1>2. \A i \in 1..Len(list) : P = {} \/ i # Least(P) => \E j \in 1..Len(w) : w[j] = list[i]
  BY WithoutMap
<1>3. P # {} => list[Least(P)].friend = f
  BY WithoutIs
<1>. HIDE DEF w
<1>4. Names(w) \subseteq Names(list)
  BY <1>1 DEF Names
<1>5. Names(list) \subseteq Names(w) \cup {f}
  <2>1. \A i \in 1..Len(list) : list[i].friend = f \/ \E j \in 1..Len(w) : w[j].friend = list[i].friend
    BY <1>2, <1>3
  <2>2. QED
    BY <2>1 DEF Names
<1>6. QED
  BY <1>4, <1>5 DEF w

LEMMA NamesPut ==
    ASSUME NEW list \in Seq(Entry), NEW e \in Entry,
           NEW new, new \in {First(list, e), Second(list, e)}
    PROVE  Names(new) = Names(list) \cup {e.friend}
<1>1. IsPut(new, list, e)
  BY PutIs
<1>2. PICK k \in 1..Len(new), g \in [1..Len(new) -> 1..(Len(list) + 1)] :
                 /\ new[k] = e
                 /\ \A i \in 1..Len(new) : i # k => g[i] \in 1..Len(list) /\ new[i] = list[g[i]]
  BY <1>1 DEF IsPut
<1>3. Names(new) \subseteq Names(list) \cup {e.friend}
  BY <1>2 DEF Names
<1>4. Names(list) \subseteq Names(new)
  BY <1>1 DEF IsPut, Names
<1>5. e.friend \in Names(new)
  BY <1>2 DEF Names
<1>6. QED
  BY <1>3, <1>4, <1>5

LEMMA NamesAt ==
    ASSUME NEW list \in Seq(Entry), NEW e
    PROVE  /\ Without(list, At(list, e)) \in Seq(Entry)
           /\ Names(Without(list, At(list, e))) \subseteq Names(list)
           /\ Names(list) \subseteq Names(Without(list, At(list, e))) \cup {e.friend}
<1>1. At(list, e) \in SUBSET (1..Len(list)) /\ \A i \in At(list, e) : list[i].friend = e.friend
  BY DEF At
<1>2. Without(list, At(list, e)) \in Seq(Entry)
  BY <1>1, WithoutType
<1>3. /\ Names(Without(list, At(list, e))) \subseteq Names(list)
      /\ Names(list) \subseteq Names(Without(list, At(list, e))) \cup {e.friend}
  BY <1>1, NamesWithout
<1>4. QED
  BY <1>2, <1>3

LEMMA NamesMostRecent ==
    ASSUME NEW list \in Seq(Entry), NEW e \in Entry
    PROVE  Names(MostRecent(list, e)) = Names(list) \cup {e.friend}
<1>. DEFINE w == Without(list, At(list, e))
<1>1. w \in Seq(Entry) /\ Names(w) \subseteq Names(list) /\ Names(list) \subseteq Names(w) \cup {e.friend}
  BY NamesAt
<1>. HIDE DEF w
<1>2. Names(First(w, e)) = Names(w) \cup {e.friend}
  BY <1>1, NamesPut
<1>3. QED
  BY <1>1, <1>2 DEF MostRecent, w

LEMMA NamesPlace ==
    ASSUME NEW list \in Seq(Entry), NEW e \in Entry
    PROVE  Names(Place(list, e)) = Names(list) \cup {e.friend}
BY PlaceIs, NamesPut

LEMMA NamesLooked ==
    ASSUME NEW list \in Seq(Entry), NEW f, Of(list, f) # {}
    PROVE  Names(Place(Without(list, Of(list, f)), list[Least(Of(list, f))])) = Names(list)
<1>. DEFINE w == Without(list, Of(list, f))
            e == list[Least(Of(list, f))]
<1>1. e \in Entry /\ e.friend = f /\ w \in Seq(Entry) /\ Least(Of(list, f)) \in 1..Len(list)
  BY LookedIs
<1>2. Of(list, f) \in SUBSET (1..Len(list)) /\ \A i \in Of(list, f) : list[i].friend = f
  BY DEF Of
<1>3. Names(w) \subseteq Names(list) /\ Names(list) \subseteq Names(w) \cup {f}
  BY <1>2, NamesWithout
<1>4. f \in Names(list)
  BY <1>1 DEF Names
<1>. HIDE DEF w, e
<1>5. Names(Place(w, e)) = Names(w) \cup {f}
  BY <1>1, NamesPlace
<1>6. QED
  BY <1>3, <1>4, <1>5 DEF w, e

LEMMA NamesMerged ==
    ASSUME NEW list \in Seq(Entry), NEW contacts \in SUBSET Friend
    PROVE  Names(Merged(list, contacts)) = contacts
<1>. DEFINE m == Merged(list, contacts)
<1>1. \A k \in 1..Len(m) : \E f \in contacts : m[k] = Row(f)
  BY MergedIs
<1>2. \A f \in contacts : \E k \in 1..Len(m) : m[k] = Row(f)
  BY MergedIs
<1>3. \A f : Row(f).friend = f
  BY EntryIs
<1>. HIDE DEF m
<1>4. QED
  BY <1>1, <1>2, <1>3 DEF Names, m

(* What a write does to the list of the defaults and to its writer's copy. *)
LEMMA NamesWritten ==
    ASSUME TypeOK, NEW p \in Process, NEW base, NEW list \in Seq(Entry),
           NEW more \in SUBSET Causes, Write(p, base, list, more)
    PROVE  /\ Names(disk') = Names(list) /\ Names(copy'[p]) = Names(list)
           /\ \A q \in Process : q # p => copy'[q] = copy[q]
           /\ causes \subseteq causes' /\ more \subseteq causes'
           /\ causes' \cap {"overtaken", "stale"} = {} => base = List(p) /\ base = disk
<1>1. /\ disk' = Coded(list) /\ copy'[p] = Coded(list)
      /\ \A q \in Process : q # p => copy'[q] = copy[q]
      /\ causes \subseteq causes' /\ more \subseteq causes'
      /\ "overtaken" \in causes' \/ base = List(p)
      /\ "stale" \in causes' \/ List(p) = disk
  BY WriteIs
<1>2. Names(Coded(list)) = Names(list)
  BY NamesCoded
<1>3. QED
  BY <1>1, <1>2

-----------------------------------------------------------------------------
(* Listed contacts stay                                                    *)

Disturbed == causes \cap {"overtaken", "stale", "old", "late"} # {}

StayInv == listed \subseteq friends /\ (~Disturbed => listed \subseteq Names(disk))

(* A write that keeps, of the newest list, the contacts that are listed.   *)
LEMMA StayWrite ==
    ASSUME TypeOK, StayInv, NEW p \in Process, NEW base, NEW list \in Seq(Entry),
           NEW more \in SUBSET Causes, Write(p, base, list, more),
           UNCHANGED friends, listed' \subseteq friends,
           listed \subseteq Names(base) /\ more \cap {"old", "late"} = {} => listed' \subseteq Names(list)
    PROVE  StayInv'
<1>1. /\ Names(disk') = Names(list) /\ causes \subseteq causes' /\ more \subseteq causes'
      /\ causes' \cap {"overtaken", "stale"} = {} => base = disk
  BY NamesWritten
<1>2. ASSUME ~Disturbed'
      PROVE  listed' \subseteq Names(disk')
  <2>1. ~Disturbed /\ base = disk /\ more \cap {"old", "late"} = {}
    BY <1>1, <1>2 DEF Disturbed
  <2>2. listed \subseteq Names(base)
    BY <2>1 DEF StayInv
  <2>3. QED
    BY <1>1, <2>1, <2>2
<1>3. QED
  BY <1>2 DEF StayInv

LEMMA StayStep ==
    ASSUME TypeInv, StayInv, [Next]_vars
    PROVE  StayInv'
<1>1. /\ TypeOK /\ "keyboard" \in Process /\ "app" \in Process
      /\ \A q \in Queue : doing[q].list \in Seq(Entry) /\ doing[q].with \in SUBSET Friend
      /\ view.recent \in Seq(Entry) /\ view.with \in SUBSET Friend
      /\ \A r \in finds : r.friend \in Friend /\ r.list \in Seq(Entry)
      /\ "chat" \in Queue /\ "completion" \in Queue /\ "removal" \in Queue /\ "pages" \in Queue
  BY PartTypes DEF TypeInv, Queue, Process
<1>2. CASE UNCHANGED <<disk, listed, causes>> /\ friends \subseteq friends'
  BY <1>2 DEF StayInv, Disturbed
<1>3. CASE EndMost
  <2>. DEFINE job == doing["chat"]
              new == MostRecent(job.list, job.entry)
              more == If("late", job.entry.friend \notin friends)
  <2>1. job.entry \in Entry /\ job.entry.friend \in Friend
    BY <1>1, <1>3, EntryIs DEF EndMost, DoingShape, TypeInv
  <2>2. new \in Seq(Entry) /\ Names(new) = Names(job.list) \cup {job.entry.friend}
    BY <1>1, <2>1, MostRecentType, NamesMostRecent
  <2>3. more \in SUBSET Causes
    BY DEF If, Causes
  <2>4. Write("keyboard", job.list, new, more) /\ Lists(job.entry.friend) /\ UNCHANGED friends
    BY <1>3 DEF EndMost
  <2>5. /\ listed' \subseteq friends
        /\ listed \subseteq Names(job.list) => listed' \subseteq Names(new)
    BY <2>2, <2>4 DEF Lists, StayInv
  <2>. HIDE DEF new, more, job
  <2>6. QED
    BY <1>1, <2>2, <2>3, <2>4, <2>5, StayWrite
<1>4. CASE EndAccept
  <2>. DEFINE job == doing["completion"]
              new == MostRecent(job.list, job.entry)
              more == If("late", job.entry.friend \notin friends)
  <2>1. job.entry \in Entry /\ job.entry.friend \in Friend
    BY <1>1, <1>4, EntryIs DEF EndAccept, DoingShape, TypeInv
  <2>2. new \in Seq(Entry) /\ Names(new) = Names(job.list) \cup {job.entry.friend}
    BY <1>1, <2>1, MostRecentType, NamesMostRecent
  <2>3. more \in SUBSET Causes
    BY DEF If, Causes
  <2>4. Write("keyboard", job.list, new, more) /\ Lists(job.entry.friend) /\ UNCHANGED friends
    BY <1>4 DEF EndAccept
  <2>5. /\ listed' \subseteq friends
        /\ listed \subseteq Names(job.list) => listed' \subseteq Names(new)
    BY <2>2, <2>4 DEF Lists, StayInv
  <2>. HIDE DEF new, more, job
  <2>6. QED
    BY <1>1, <2>2, <2>3, <2>4, <2>5, StayWrite
<1>5. CASE EndLook
  <2>. DEFINE job   == doing["chat"]
              found == Of(job.list, job.entry)
              more  == If("offline", /\ target # NoOne /\ target.friend = job.entry
                                     /\ [op |-> "most", entry |-> target] \notin Jobs)
              new   == Place(Without(job.list, found), job.list[Least(found)])
  <2>1. CASE found = {}
    BY <1>2, <1>5, <2>1 DEF EndLook, store, history, seen
  <2>2. CASE found # {}
    <3>1. Write("keyboard", job.list, new, more) /\ UNCHANGED <<friends, listed>>
      BY <1>5, <2>2 DEF EndLook, history, seen
    <3>2. new \in Seq(Entry) /\ Names(new) = Names(job.list) /\ job.list \in Seq(Entry)
      BY <1>1, <2>2, LookedIs, NamesLooked
    <3>3. more \in SUBSET Causes
      BY DEF If, Causes
    <3>4. listed' \subseteq friends /\ (listed \subseteq Names(job.list) => listed' \subseteq Names(new))
      BY <3>1, <3>2 DEF StayInv
    <3>. HIDE DEF more, new, job
    <3>5. QED
      BY <1>1, <3>1, <3>2, <3>3, <3>4, StayWrite
  <2>3. QED
    BY <2>1, <2>2
<1>6. CASE \E r \in finds : FriendFound(r)
  <2>1. PICK r \in finds : FriendFound(r)
    BY <1>6
  <2>2. CASE UNCHANGED <<store, listed, causes>>
    BY <1>2, <2>1, <2>2 DEF store, FriendFound
  <2>3. CASE Write("keyboard", r.list, Place(r.list, Row(r.friend)), {}) /\ Lists(r.friend)
    <3>. DEFINE new == Place(r.list, Row(r.friend))
    <3>1. r.list \in Seq(Entry) /\ Row(r.friend) \in Entry /\ Row(r.friend).friend = r.friend
      BY <1>1, EntryIs
    <3>2. new \in Seq(Entry) /\ Names(new) = Names(r.list) \cup {r.friend} /\ {} \in SUBSET Causes
      BY <3>1, PlaceType, NamesPlace
    <3>3. listed' \subseteq friends /\ (listed \subseteq Names(r.list) => listed' \subseteq Names(new))
      BY <2>3, <3>2 DEF Lists, StayInv
    <3>4. UNCHANGED friends /\ Write("keyboard", r.list, new, {})
      BY <2>1, <2>3 DEF FriendFound
    <3>. HIDE DEF new
    <3>5. QED
      BY <1>1, <3>2, <3>3, <3>4, StayWrite
  <2>4. QED
    BY <2>1, <2>2, <2>3 DEF FriendFound
<1>7. CASE MergeView
  <2>. DEFINE new  == Merged(view.recent, view.with)
              more == {"page"} \cup If("old", view.with # friends)
  <2>1. Write("keyboard", view.recent, new, more) /\ UNCHANGED <<friends, listed>>
    BY <1>7 DEF MergeView, history, seen
  <2>2. new \in Seq(Entry) /\ Names(new) = view.with
    BY <1>1, MergedIs, NamesMerged
  <2>3. more \in SUBSET Causes /\ (more \cap {"old", "late"} = {} => view.with = friends)
    BY DEF If, Causes
  <2>4. listed' \subseteq friends /\ (more \cap {"old", "late"} = {} => listed' \subseteq Names(new))
    BY <2>1, <2>2, <2>3 DEF StayInv
  <2>. HIDE DEF new, more
  <2>5. QED
    BY <1>1, <2>1, <2>2, <2>3, <2>4, StayWrite
<1>8. CASE EndMerge
  <2>. DEFINE job  == doing["pages"]
              new  == Merged(job.list, job.with)
              more == {"page"} \cup If("old", job.with # friends)
  <2>1. Write("app", job.list, new, more) /\ UNCHANGED <<friends, listed>>
    BY <1>8 DEF EndMerge, history, seen
  <2>2. new \in Seq(Entry) /\ Names(new) = job.with /\ job.list \in Seq(Entry)
    BY <1>1, MergedIs, NamesMerged
  <2>3. more \in SUBSET Causes /\ (more \cap {"old", "late"} = {} => job.with = friends)
    BY DEF If, Causes
  <2>4. listed' \subseteq friends /\ (more \cap {"old", "late"} = {} => listed' \subseteq Names(new))
    BY <2>1, <2>2, <2>3 DEF StayInv
  <2>. HIDE DEF new, more, job
  <2>5. QED
    BY <1>1, <2>1, <2>2, <2>3, <2>4, StayWrite
<1>9. CASE EndRemove
  <2>. DEFINE job  == doing["removal"]
              new  == Without(job.list, At(job.list, job.entry))
              more == If("late", job.entry.friend \in friends)
  <2>1. CASE job.entry \in Entries(job.list)
    <3>1. Write("app", job.list, new, more) /\ UNCHANGED <<friends, listed>>
      BY <1>9, <2>1 DEF EndRemove, history, seen
    <3>2. job.list \in Seq(Entry)
      BY <1>1
    <3>3. new \in Seq(Entry) /\ Names(job.list) \subseteq Names(new) \cup {job.entry.friend}
      BY <3>2, NamesAt
    <3>4. more \in SUBSET Causes /\ (more \cap {"old", "late"} = {} => job.entry.friend \notin friends)
      BY DEF If, Causes
    <3>5. /\ listed' \subseteq friends
          /\ listed \subseteq Names(job.list) /\ more \cap {"old", "late"} = {} => listed' \subseteq Names(new)
      BY <3>1, <3>3, <3>4 DEF StayInv
    <3>. HIDE DEF new, more, job
    <3>6. QED
      BY <1>1, <3>1, <3>3, <3>4, <3>5, StayWrite
  <2>2. CASE job.entry \notin Entries(job.list)
    BY <1>9, <2>2 DEF EndRemove, store, history, seen, StayInv, Disturbed
  <2>3. QED
    BY <2>1, <2>2
<1>10. CASE Clear
  BY <1>10 DEF Clear, StayInv
<1>11. CASE \E f \in Friend : Remove(f)
  BY <1>11 DEF Remove, Begin, Load, StayInv, Disturbed
<1>12. CASE KillApp
  BY <1>12 DEF KillApp, StayInv, Disturbed, history, seen
<1>13. CASE \/ OpenView \/ Invite \/ RunOpen \/ RemoveTarget \/ ContactsArrived \/ BeginJob
            \/ LoadContacts \/ PageArrived \/ BeginMerge \/ KillKeyboard \/ UNCHANGED vars
            \/ \E e \in Entry : Tap(e)
            \/ \E f \in Friend : MessageArrived(f) \/ Accept(f)
            \/ \E r \in finds : FriendNotFound(r)
  BY <1>2, <1>13 DEF OpenView, Invite, RunOpen, RemoveTarget, ContactsArrived, BeginJob, LoadContacts,
       PageArrived, BeginMerge, KillKeyboard, vars, Tap, MessageArrived, Accept, FriendNotFound,
       Begin, Load, store, history, seen
<1>14. QED
  BY <1>3, <1>4, <1>5, <1>6, <1>7, <1>8, <1>9, <1>10, <1>11, <1>12, <1>13
     DEF Next, MainStep, ChatStep, AnswerStep, FriendStep, AppStep, Kill

(* A contact a chat or a message put into the list stays in it until it is *)
(* removed or the list is emptied, unless a write was made from a list     *)
(* that was not the newest, or for a contact or from contacts that the     *)
(* server had changed since.                                               *)
THEOREM ListedKept == Spec => []ListedStays
<1>1. Init => StayInv
  BY DEF Init, StayInv
<1>2. TypeInv /\ StayInv /\ [Next]_vars => StayInv'
  BY StayStep
<1>3. StayInv => ListedStays
  BY DEF StayInv, ListedStays, Disturbed
<1>4. QED
  BY <1>1, <1>2, <1>3, TypesKept, PTL DEF Spec

-----------------------------------------------------------------------------
(* No contact twice                                                        *)

(* The contacts that can have an entry of their own number.                *)
Known == accepted \cup Small

OwnIn(e, A) == e.id = "own" => e.friend \in A

(* A contact has one entry, or is among A; and an entry of a contact's own *)
(* number is of one among A.                                               *)
Fit(list, A) ==
    /\ \A i, j \in 1..Len(list) : list[i].friend = list[j].friend => i = j \/ list[i].friend \in A
    /\ \A i \in 1..Len(list) : OwnIn(list[i], A)

LEMMA FitMore ==
    ASSUME NEW list, NEW A, NEW B, A \subseteq B, Fit(list, A)
    PROVE  Fit(list, B)
BY DEF Fit, OwnIn

LEMMA FitEmpty == \A A : Fit(<<>>, A)
BY DEF Fit

LEMMA FitCoded ==
    ASSUME NEW list \in Seq(Entry), NEW A, Small \subseteq A, Fit(list, A)
    PROVE  Fit(Coded(list), A)
<1>. DEFINE c == Coded(list)
<1>1. Len(c) = Len(list) /\ \A i \in 1..Len(list) : c[i] = CodedEntry(list[i]) /\ c[i].friend = list[i].friend
  BY CodedIs
<1>2. \A i \in 1..Len(list) : list[i] \in Entry
  OBVIOUS
<1>3. \A i \in 1..Len(list) : c[i].id = "own" => list[i].id = "own" \/ list[i].friend \in Small
  BY <1>1, <1>2, CodedEntryIs
<1>. HIDE DEF c
<1>4. \A i \in 1..Len(c) : OwnIn(c[i], A)
  BY <1>1, <1>3 DEF Fit, OwnIn
<1>5. \A i, j \in 1..Len(c) : c[i].friend = c[j].friend => i = j \/ c[i].friend \in A
  BY <1>1 DEF Fit
<1>6. QED
  BY <1>4, <1>5 DEF Fit, c

LEMMA FitWithout ==
    ASSUME NEW list \in Seq(Entry), NEW P \in SUBSET (1..Len(list)), NEW A, Fit(list, A)
    PROVE  Fit(Without(list, P), A)
<1>. DEFINE w == Without(list, P)
<1>1. PICK g \in [1..Len(w) -> 1..Len(list)] :
          /\ \A i \in 1..Len(w) : w[i] = list[g[i]]
          /\ \A i, j \in 1..Len(w) : g[i] = g[j] => i = j
  BY WithoutMap
<1>. HIDE DEF w
<1>2. \A i \in 1..Len(w) : g[i] \in 1..Len(list)
  OBVIOUS
<1>3. \A i \in 1..Len(w) : OwnIn(w[i], A)
  BY <1>1, <1>2 DEF Fit
<1>4. \A i, j \in 1..Len(w) : w[i].friend = w[j].friend => i = j \/ w[i].friend \in A
  BY <1>1, <1>2 DEF Fit
<1>5. QED
  BY <1>3, <1>4 DEF Fit, w

LEMMA FitPut ==
    ASSUME NEW list \in Seq(Entry), NEW e \in Entry, NEW A, Fit(list, A), OwnIn(e, A),
           e.friend \notin Names(list) \/ e.friend \in A,
           NEW new, new \in {First(list, e), Second(list, e)}
    PROVE  Fit(new, A)
<1>1. IsPut(new, list, e)
  BY PutIs
<1>2. PICK k \in 1..Len(new), g \in [1..Len(new) -> 1..(Len(list) + 1)] :
          /\ new[k] = e
          /\ \A i \in 1..Len(new) : i # k => g[i] \in 1..Len(list) /\ new[i] = list[g[i]]
          /\ \A i, j \in 1..Len(new) : i # k /\ j # k /\ g[i] = g[j] => i = j
  BY <1>1 DEF IsPut
<1>3. \A i \in 1..Len(new) : OwnIn(new[i], A)
  BY <1>2 DEF Fit
<1>4. \A i \in 1..Len(new) : i # k => new[i].friend # e.friend \/ e.friend \in A
  BY <1>2 DEF Names
<1>5. ASSUME NEW i \in 1..Len(new), NEW j \in 1..Len(new), new[i].friend = new[j].friend
      PROVE  i = j \/ new[i].friend \in A
  <2>1. CASE i = k \/ j = k
    BY <1>2, <1>4, <1>5, <2>1
  <2>2. CASE i # k /\ j # k
    <3>1. g[i] \in 1..Len(list) /\ g[j] \in 1..Len(list) /\ new[i] = list[g[i]] /\ new[j] = list[g[j]]
      BY <1>2, <2>2
    <3>2. g[i] = g[j] \/ list[g[i]].friend \in A
      BY <1>5, <3>1 DEF Fit
    <3>3. QED
      BY <1>2, <2>2, <3>1, <3>2
  <2>3. QED
    BY <2>1, <2>2
<1>6. QED
  BY <1>3, <1>5 DEF Fit

(* What firstIndex finds is the only entry of the contact.                 *)
LEMMA AbsentOf ==
    ASSUME NEW list \in Seq(Entry), NEW f, NEW A, Fit(list, A),
           NEW P \in SUBSET Of(list, f), f \in A \/ P = Of(list, f)
    PROVE  f \notin Names(Without(list, P)) \/ f \in A
<1>. DEFINE w == Without(list, P)
<1>. SUFFICES ASSUME f \in Names(w), f \notin A PROVE FALSE
  OBVIOUS
<1>1. P \in SUBSET (1..Len(list)) /\ P = Of(list, f)
  BY DEF Of
<1>2. PICK g \in [1..Len(w) -> 1..Len(list)] :
          /\ \A i \in 1..Len(w) : w[i] = list[g[i]]
          /\ P # {} => \A i \in 1..Len(w) : g[i] # Least(P)
  BY <1>1, WithoutMap
<1>3. PICK i \in 1..Len(w) : w[i].friend = f
  BY DEF Names
<1>4. g[i] \in 1..Len(list) /\ list[g[i]].friend = f
  BY <1>2, <1>3
<1>5. g[i] \in P
  BY <1>1, <1>4 DEF Of
<1>6. Least(P) \in P /\ Least(P) \in 1..Len(list)
  BY <1>1, <1>5, WithoutIs
<1>7. list[Least(P)].friend = f
  BY <1>1, <1>6 DEF Of
<1>8. g[i] = Least(P)
  BY <1>4, <1>6, <1>7 DEF Fit
<1>9. QED
  BY <1>2, <1>5, <1>8

LEMMA AtOrOf ==
    ASSUME NEW list \in Seq(Entry), NEW e \in Entry, NEW A, Fit(list, A), OwnIn(e, A)
    PROVE  At(list, e) \in SUBSET Of(list, e.friend) /\ (e.friend \in A \/ At(list, e) = Of(list, e.friend))
<1>1. At(list, e) \in SUBSET Of(list, e.friend)
  BY DEF At, Of
<1>2. ASSUME e.friend \notin A, NEW i \in 1..Len(list), list[i].friend = e.friend
      PROVE  list[i] = e
  <2>1. list[i].id # "own" /\ e.id # "own" /\ list[i] \in Entry
    BY <1>2 DEF Fit, OwnIn
  <2>2. list[i].id = "row" /\ e.id = "row"
    BY <2>1, EntryIs
  <2>3. QED
    BY <1>2, <2>1, <2>2, EntryIs
<1>3. QED
  BY <1>1, <1>2 DEF At, Of

LEMMA FitMostRecent ==
    ASSUME NEW list \in Seq(Entry), NEW e \in Entry, NEW A, Fit(list, A), OwnIn(e, A)
    PROVE  Fit(MostRecent(list, e), A)
<1>. DEFINE w == Without(list, At(list, e))
<1>1. At(list, e) \in SUBSET (1..Len(list))
  BY AtIs
<1>2. w \in Seq(Entry) /\ Fit(w, A)
  BY <1>1, WithoutType, FitWithout
<1>3. At(list, e) \in SUBSET Of(list, e.friend) /\ (e.friend \in A \/ At(list, e) = Of(list, e.friend))
  BY AtOrOf
<1>4. e.friend \notin Names(w) \/ e.friend \in A
  BY <1>3, AbsentOf
<1>. HIDE DEF w
<1>5. Fit(First(w, e), A)
  BY <1>2, <1>4, FitPut
<1>6. QED
  BY <1>5 DEF MostRecent, w

LEMMA FitPlace ==
    ASSUME NEW list \in Seq(Entry), NEW e \in Entry, NEW A, Fit(list, A), OwnIn(e, A),
           e.friend \notin Names(list) \/ e.friend \in A
    PROVE  Fit(Place(list, e), A)
BY PlaceIs, FitPut

LEMMA FitLooked ==
    ASSUME NEW list \in Seq(Entry), NEW f, NEW A, Fit(list, A), Of(list, f) # {}
    PROVE  Fit(Place(Without(list, Of(list, f)), list[Least(Of(list, f))]), A)
<1>. DEFINE w == Without(list, Of(list, f))
            e == list[Least(Of(list, f))]
<1>1. e \in Entry /\ e.friend = f /\ w \in Seq(Entry) /\ Least(Of(list, f)) \in 1..Len(list)
  BY LookedIs
<1>2. OwnIn(e, A)
  BY <1>1 DEF Fit
<1>3. Fit(w, A)
  BY AtIs, FitWithout
<1>4. f \notin Names(w) \/ f \in A
  BY AbsentOf
<1>. HIDE DEF w, e
<1>5. Fit(Place(w, e), A)
  BY <1>1, <1>2, <1>3, <1>4, FitPlace
<1>6. QED
  BY <1>5 DEF w, e

LEMMA FitMerged ==
    ASSUME NEW list \in Seq(Entry), NEW contacts \in SUBSET Friend, NEW A
    PROVE  Fit(Merged(list, contacts), A)
<1>. DEFINE m == Merged(list, contacts)
<1>1. /\ \A k \in 1..Len(m) : \E f \in contacts : m[k] = Row(f)
      /\ \A k, l \in 1..Len(m) : m[k] = m[l] => k = l
  BY MergedIs
<1>. HIDE DEF m
<1>2. \A k \in 1..Len(m) : m[k] = Row(m[k].friend) /\ m[k].id = "row"
  BY <1>1, EntryIs
<1>3. \A k, l \in 1..Len(m) : m[k].friend = m[l].friend => k = l
  BY <1>1, <1>2
<1>4. QED
  BY <1>2, <1>3 DEF Fit, OwnIn, m

(* Every list anybody holds is fit, a friend who is looked for is not in   *)
(* the list read before, and who asks for an own number has one.           *)
StoreFit == Fit(disk, Known) /\ \A p \in Process : Fit(copy[p], Known)
WorkFit ==
    \A q \in Queue : /\ Fit(doing[q].list, Known)
                     /\ doing[q].op = "most" => OwnIn(doing[q].entry, Known)
RestFit ==
    /\ Fit(view.recent, Known)
    /\ \A r \in finds : Fit(r.list, Known) /\ r.friend \notin Names(r.list)
    /\ \A i \in 1..Len(chatQ) : chatQ[i].op = "most" => OwnIn(chatQ[i].entry, Known)
    /\ \A i \in 1..Len(opens) : OwnIn(opens[i], Known)

TwinInv == StoreFit /\ WorkFit /\ RestFit

LEMMA KnownGrows ==
    ASSUME [Next]_vars
    PROVE  Known \subseteq Known'
<1>1. CASE \E f \in Friend : Accept(f)
  BY <1>1 DEF Accept, Known
<1>2. CASE UNCHANGED accepted
  BY <1>2 DEF Known
<1>3. QED
  BY <1>1, <1>2
     DEF Next, MainStep, ChatStep, AnswerStep, FriendStep, AppStep, Kill, vars, history, seen,
         OpenView, Tap, MergeView, Invite, RunOpen, RemoveTarget, BeginJob, EndMost, EndLook,
         ContactsArrived, EndAccept, FriendFound, FriendNotFound, MessageArrived, LoadContacts,
         PageArrived, BeginMerge, EndMerge, EndRemove, Clear, Remove, KillKeyboard, KillApp

LEMMA ListFit ==
    ASSUME StoreFit, NEW p \in Process
    PROVE  Fit(List(p), Known)
BY DEF StoreFit, List

LEMMA WriteFit ==
    ASSUME TypeOK, StoreFit, NEW p \in Process, NEW base, NEW list \in Seq(Entry),
           NEW more \in SUBSET Causes, Write(p, base, list, more), Fit(list, Known)
    PROVE  Fit(disk', Known) /\ \A q \in Process : Fit(copy'[q], Known)
<1>1. /\ disk' = Coded(list) /\ copy'[p] = Coded(list)
      /\ \A q \in Process : q # p => copy'[q] = copy[q]
  BY WriteIs
<1>2. Fit(Coded(list), Known)
  BY FitCoded DEF Known
<1>3. QED
  BY <1>1, <1>2 DEF StoreFit

LEMMA LoadFit ==
    ASSUME TypeOK, StoreFit, NEW p \in Process, Load(p)
    PROVE  Fit(disk', Known) /\ \A q \in Process : Fit(copy'[q], Known)
<1>1. disk' = disk /\ copy'[p] = List(p) /\ \A q \in Process : q # p => copy'[q] = copy[q]
  BY LoadIs
<1>2. QED
  BY <1>1, ListFit DEF StoreFit

LEMMA TwinStore ==
    ASSUME TypeInv, TwinInv, [Next]_vars
    PROVE  StoreFit'
<1>1. /\ TypeOK /\ StoreFit /\ WorkFit /\ RestFit /\ "keyboard" \in Process /\ "app" \in Process
      /\ \A q \in Queue : doing[q].list \in Seq(Entry) /\ doing[q].with \in SUBSET Friend
      /\ view.recent \in Seq(Entry) /\ view.with \in SUBSET Friend
      /\ \A r \in finds : r.friend \in Friend /\ r.list \in Seq(Entry)
      /\ "chat" \in Queue /\ "completion" \in Queue /\ "removal" \in Queue /\ "pages" \in Queue
  BY PartTypes DEF TypeInv, TwinInv, Queue, Process
<1>2. SUFFICES Fit(disk', Known) /\ \A q \in Process : Fit(copy'[q], Known)
  <2>1. ASSUME Fit(disk', Known) /\ \A q \in Process : Fit(copy'[q], Known)
        PROVE  StoreFit'
    <3>1. Fit(disk', Known') /\ \A q \in Process : Fit(copy'[q], Known')
      BY <2>1, KnownGrows, FitMore
    <3>2. QED
      BY <3>1 DEF StoreFit, Fit, OwnIn
  <2>2. QED
    BY <2>1
<1>3. CASE UNCHANGED <<disk, copy>>
  BY <1>1, <1>3 DEF StoreFit
<1>4. CASE \E p \in Process : Load(p)
  BY <1>1, <1>4, LoadFit
<1>5. ASSUME NEW p \in Process, NEW base, NEW list \in Seq(Entry), NEW more,
             Write(p, base, list, more), more \in SUBSET Causes, Fit(list, Known)
      PROVE  Fit(disk', Known) /\ \A q \in Process : Fit(copy'[q], Known)
  BY <1>1, <1>5, WriteFit
<1>6. CASE EndMost
  <2>. DEFINE job == doing["chat"]
              new == MostRecent(job.list, job.entry)
              more == If("late", job.entry.friend \notin friends)
  <2>1. job.entry \in Entry /\ OwnIn(job.entry, Known) /\ Fit(job.list, Known) /\ job.list \in Seq(Entry)
    BY <1>1, <1>6 DEF EndMost, DoingShape, TypeInv, WorkFit
  <2>2. new \in Seq(Entry) /\ Fit(new, Known)
    BY <2>1, MostRecentType, FitMostRecent
  <2>3. more \in SUBSET Causes
    BY DEF If, Causes
  <2>4. Write("keyboard", job.list, new, more)
    BY <1>6 DEF EndMost
  <2>. HIDE DEF new, more, job
  <2>5. QED
    BY <1>1, <1>5, <2>2, <2>3, <2>4
<1>7. CASE EndAccept
  <2>. DEFINE job == doing["completion"]
              new == MostRecent(job.list, job.entry)
              more == If("late", job.entry.friend \notin friends)
  <2>1. job.entry \in Entry /\ OwnIn(job.entry, Known) /\ Fit(job.list, Known) /\ job.list \in Seq(Entry)
    BY <1>1, <1>7 DEF EndAccept, DoingShape, TypeInv, WorkFit
  <2>2. new \in Seq(Entry) /\ Fit(new, Known)
    BY <2>1, MostRecentType, FitMostRecent
  <2>3. more \in SUBSET Causes
    BY DEF If, Causes
  <2>4. Write("keyboard", job.list, new, more)
    BY <1>7 DEF EndAccept
  <2>. HIDE DEF new, more, job
  <2>5. QED
    BY <1>1, <1>5, <2>2, <2>3, <2>4
<1>8. CASE EndLook
  <2>. DEFINE job   == doing["chat"]
              found == Of(job.list, job.entry)
              more  == If("offline", /\ target # NoOne /\ target.friend = job.entry
                                     /\ [op |-> "most", entry |-> target] \notin Jobs)
              new   == Place(Without(job.list, found), job.list[Least(found)])
  <2>1. CASE found = {}
    BY <1>3, <1>8, <2>1 DEF EndLook, store
  <2>2. CASE found # {}
    <3>1. Write("keyboard", job.list, new, more)
      BY <1>8, <2>2 DEF EndLook
    <3>2. job.list \in Seq(Entry) /\ Fit(job.list, Known)
      BY <1>1 DEF WorkFit
    <3>3. new \in Seq(Entry) /\ Fit(new, Known)
      BY <2>2, <3>2, LookedIs, FitLooked
    <3>4. more \in SUBSET Causes
      BY DEF If, Causes
    <3>. HIDE DEF more, new, job
    <3>5. QED
      BY <1>1, <1>5, <3>1, <3>3, <3>4
  <2>3. QED
    BY <2>1, <2>2
<1>9. CASE \E r \in finds : FriendFound(r)
  <2>1. PICK r \in finds : FriendFound(r)
    BY <1>9
  <2>2. CASE UNCHANGED store
    BY <1>3, <2>2 DEF store
  <2>3. CASE Write("keyboard", r.list, Place(r.list, Row(r.friend)), {})
    <3>. DEFINE new == Place(r.list, Row(r.friend))
    <3>1. /\ r.list \in Seq(Entry) /\ Row(r.friend) \in Entry /\ Row(r.friend).friend = r.friend
          /\ Row(r.friend).id = "row"
      BY <1>1, EntryIs
    <3>2. OwnIn(Row(r.friend), Known) /\ Fit(r.list, Known) /\ r.friend \notin Names(r.list)
      BY <1>1, <3>1 DEF OwnIn, RestFit
    <3>3. new \in Seq(Entry) /\ Fit(new, Known) /\ {} \in SUBSET Causes
      BY <3>1, <3>2, PlaceType, FitPlace
    <3>. HIDE DEF new
    <3>4. Write("keyboard", r.list, new, {})
      BY <2>3 DEF new
    <3>5. QED
      BY <1>1, <1>5, <3>3, <3>4
  <2>4. QED
    BY <2>1, <2>2, <2>3 DEF FriendFound
<1>10. CASE MergeView
  <2>. DEFINE new  == Merged(view.recent, view.with)
              more == {"page"} \cup If("old", view.with # friends)
  <2>1. Write("keyboard", view.recent, new, more)
    BY <1>10 DEF MergeView
  <2>2. new \in Seq(Entry) /\ Fit(new, Known)
    BY <1>1, MergedIs, FitMerged
  <2>3. more \in SUBSET Causes
    BY DEF If, Causes
  <2>. HIDE DEF new, more
  <2>4. QED
    BY <1>1, <1>5, <2>1, <2>2, <2>3
<1>11. CASE EndMerge
  <2>. DEFINE job  == doing["pages"]
              new  == Merged(job.list, job.with)
              more == {"page"} \cup If("old", job.with # friends)
  <2>1. Write("app", job.list, new, more)
    BY <1>11 DEF EndMerge
  <2>2. new \in Seq(Entry) /\ Fit(new, Known)
    BY <1>1, MergedIs, FitMerged
  <2>3. more \in SUBSET Causes
    BY DEF If, Causes
  <2>. HIDE DEF new, more, job
  <2>4. QED
    BY <1>1, <1>5, <2>1, <2>2, <2>3
<1>12. CASE EndRemove
  <2>. DEFINE job  == doing["removal"]
              new  == Without(job.list, At(job.list, job.entry))
              more == If("late", job.entry.friend \in friends)
  <2>1. CASE job.entry \in Entries(job.list)
    <3>1. Write("app", job.list, new, more)
      BY <1>12, <2>1 DEF EndRemove
    <3>2. job.list \in Seq(Entry) /\ Fit(job.list, Known)
      BY <1>1 DEF WorkFit
    <3>3. At(job.list, job.entry) \in SUBSET (1..Len(job.list))
      BY <3>2, AtIs
    <3>4. new \in Seq(Entry) /\ Fit(new, Known)
      BY <3>2, <3>3, WithoutType, FitWithout
    <3>5. more \in SUBSET Causes
      BY DEF If, Causes
    <3>. HIDE DEF more, new, job
    <3>6. QED
      BY <1>1, <1>5, <3>1, <3>4, <3>5
  <2>2. CASE job.entry \notin Entries(job.list)
    BY <1>3, <1>12, <2>2 DEF EndRemove, store
  <2>3. QED
    BY <2>1, <2>2
<1>13. CASE Clear
  <2>1. Write("app", List("app"), <<>>, {}) /\ <<>> \in Seq(Entry) /\ {} \in SUBSET Causes
    BY <1>13 DEF Clear
  <2>2. QED
    BY <1>1, <1>5, <2>1, FitEmpty
<1>14. CASE KillKeyboard \/ KillApp
  <2>1. PICK p \in Process : copy' = [copy EXCEPT ![p] = <<>>] /\ disk' = disk
    BY <1>1, <1>14 DEF KillKeyboard, KillApp
  <2>2. \A q \in Process : copy'[q] = copy[q] \/ copy'[q] = <<>>
    BY <1>1, <2>1 DEF TypeOK
  <2>3. QED
    BY <1>1, <2>1, <2>2, FitEmpty DEF StoreFit
<1>15. CASE BeginJob \/ (\E f \in Friend : Accept(f) \/ Remove(f)) \/ BeginMerge \/ OpenView
  BY <1>1, <1>4, <1>15 DEF BeginJob, Accept, Remove, BeginMerge, OpenView, Begin
<1>16. CASE \/ \E e \in Entry : Tap(e)
            \/ Invite \/ RunOpen \/ RemoveTarget \/ ContactsArrived
            \/ \E f \in Friend : MessageArrived(f)
            \/ \E r \in finds : FriendNotFound(r)
            \/ LoadContacts \/ PageArrived
            \/ UNCHANGED vars
  BY <1>3, <1>16 DEF Tap, Invite, RunOpen, RemoveTarget, ContactsArrived, MessageArrived,
       FriendNotFound, LoadContacts, PageArrived, vars, store
<1>17. QED
  BY <1>6, <1>7, <1>8, <1>9, <1>10, <1>11, <1>12, <1>13, <1>14, <1>15, <1>16
     DEF Next, MainStep, ChatStep, AnswerStep, FriendStep, AppStep, Kill

LEMMA TwinWork ==
    ASSUME TypeInv, TwinInv, [Next]_vars
    PROVE  WorkFit'
<1>1. /\ TypeOK /\ StoreFit /\ WorkFit /\ RestFit /\ "keyboard" \in Process /\ "app" \in Process
      /\ page.contacts \in SUBSET Friend /\ {} \in SUBSET Friend
      /\ "chat" \in Queue /\ "completion" \in Queue /\ "removal" \in Queue /\ "pages" \in Queue
  BY PartTypes DEF TypeInv, TwinInv, Queue, Process
<1>2. Known \subseteq Known'
  BY KnownGrows
<1>3. SUFFICES \A q \in Queue : /\ Fit(doing'[q].list, Known')
                                /\ doing'[q].op = "most" => OwnIn(doing'[q].entry, Known')
  BY DEF WorkFit, Fit, OwnIn
<1>4. \A q \in Queue : /\ Fit(doing[q].list, Known')
                       /\ doing[q].op = "most" => OwnIn(doing[q].entry, Known')
  BY <1>1, <1>2, FitMore DEF WorkFit, OwnIn
<1>5. \A p \in Process : Fit(List(p), Known')
  BY <1>1, <1>2, ListFit, FitMore
<1>6. Idle.op = "none" /\ Fit(Idle.list, Known')
  BY FitEmpty DEF Idle
<1>7. CASE BeginJob
  <2>. DEFINE j == Head(chatQ)
  <2>1. j \in Job /\ (j.op = "most" => OwnIn(j.entry, Known))
    <3>1. chatQ \in Seq(Job) /\ chatQ # <<>>
      BY <1>1, <1>7 DEF BeginJob, TypeOK
    <3>2. 1 \in 1..Len(chatQ) /\ j = chatQ[1] /\ j \in Job
      BY <3>1
    <3>3. QED
      BY <1>1, <3>2 DEF RestFit
  <2>2. /\ j.op \in {"most", "look", "merge", "remove"} /\ j.entry \in Entry \cup Friend \cup {NoOne}
    BY <2>1, JobIs
  <2>3. Begin("chat", "keyboard", j.op, j.entry, {})
    BY <1>7 DEF BeginJob
  <2>. HIDE DEF j
  <2>4. /\ doing'["chat"].op = j.op /\ doing'["chat"].entry = j.entry /\ doing'["chat"].list = List("keyboard")
        /\ \A r \in Queue : r # "chat" => doing'[r] = doing[r]
    BY <1>1, <2>2, <2>3, BeginIs
  <2>5. doing'["chat"].op = "most" => OwnIn(doing'["chat"].entry, Known')
    BY <1>2, <2>1, <2>4 DEF OwnIn
  <2>6. QED
    BY <1>1, <1>4, <1>5, <2>4, <2>5
<1>8. CASE \E f \in Friend : Accept(f)
  <2>1. PICK f \in Friend : Accept(f)
    BY <1>8
  <2>2. Own(f) \in Entry /\ Own(f).friend = f
    BY EntryIs
  <2>3. Begin("completion", "keyboard", "most", Own(f), {}) /\ f \in Known'
    BY <2>1 DEF Accept, Known
  <2>4. /\ doing'["completion"].entry = Own(f) /\ doing'["completion"].list = List("keyboard")
        /\ \A r \in Queue : r # "completion" => doing'[r] = doing[r]
    BY <1>1, <2>2, <2>3, BeginIs
  <2>5. OwnIn(doing'["completion"].entry, Known')
    BY <2>2, <2>3, <2>4 DEF OwnIn
  <2>6. QED
    BY <1>1, <1>4, <1>5, <2>4, <2>5
<1>9. CASE BeginMerge
  <2>1. Begin("pages", "app", "merge", NoOne, page.contacts)
    BY <1>9 DEF BeginMerge
  <2>2. /\ doing'["pages"].op = "merge" /\ doing'["pages"].list = List("app")
        /\ \A r \in Queue : r # "pages" => doing'[r] = doing[r]
    BY <1>1, <2>1, BeginIs
  <2>3. QED
    BY <1>1, <1>4, <1>5, <2>2
<1>10. CASE \E f \in Friend : Remove(f)
  <2>1. PICK f \in Friend : Remove(f)
    BY <1>10
  <2>2. Row(f) \in Entry
    BY EntryIs
  <2>3. Begin("removal", "app", "remove", Row(f), {})
    BY <2>1 DEF Remove
  <2>4. /\ doing'["removal"].op = "remove" /\ doing'["removal"].list = List("app")
        /\ \A r \in Queue : r # "removal" => doing'[r] = doing[r]
    BY <1>1, <2>2, <2>3, BeginIs
  <2>5. QED
    BY <1>1, <1>4, <1>5, <2>4
<1>11. CASE \A s \in Queue : doing'[s] = doing[s] \/ doing'[s] = Idle
  BY <1>4, <1>6, <1>11
<1>12. ASSUME NEW q \in Queue, End(q)
       PROVE  \A s \in Queue : doing'[s] = doing[s] \/ doing'[s] = Idle
  BY <1>1, <1>12, EndIs
<1>13. CASE EndMost \/ EndLook \/ EndAccept \/ EndMerge \/ EndRemove
  BY <1>1, <1>11, <1>12, <1>13 DEF EndMost, EndLook, EndAccept, EndMerge, EndRemove
<1>14. CASE KillKeyboard \/ KillApp
  <2>1. PICK q \in Queue, r \in Queue : doing' = [doing EXCEPT ![q] = Idle, ![r] = Idle]
    BY <1>1, <1>14 DEF KillKeyboard, KillApp
  <2>2. \A s \in Queue : doing'[s] = doing[s] \/ doing'[s] = Idle
    BY <1>1, <2>1 DEF TypeOK
  <2>3. QED
    BY <1>11, <2>2
<1>15. CASE \/ OpenView \/ MergeView \/ Invite \/ RunOpen \/ RemoveTarget \/ ContactsArrived
            \/ LoadContacts \/ PageArrived \/ Clear \/ UNCHANGED vars
            \/ \E e \in Entry : Tap(e)
            \/ \E f \in Friend : MessageArrived(f)
            \/ \E r \in finds : FriendFound(r) \/ FriendNotFound(r)
  <2>1. UNCHANGED doing
    BY <1>15 DEF OpenView, MergeView, Invite, RunOpen, RemoveTarget, ContactsArrived, LoadContacts,
         PageArrived, Clear, vars, Tap, MessageArrived, FriendFound, FriendNotFound
  <2>2. QED
    BY <1>11, <2>1
<1>16. QED
  BY <1>7, <1>8, <1>9, <1>10, <1>13, <1>14, <1>15
     DEF Next, MainStep, ChatStep, AnswerStep, FriendStep, AppStep, Kill

LEMMA AppendIs ==
    ASSUME NEW S, NEW s \in Seq(S), NEW x \in S
    PROVE  /\ Append(s, x) \in Seq(S) /\ Len(Append(s, x)) = Len(s) + 1
           /\ \A i \in 1..Len(s) : Append(s, x)[i] = s[i]
           /\ Append(s, x)[Len(s) + 1] = x
OBVIOUS

LEMMA TailIs ==
    ASSUME NEW S, NEW s \in Seq(S), s # <<>>
    PROVE  /\ Tail(s) \in Seq(S) /\ Len(Tail(s)) = Len(s) - 1 /\ Len(s) >= 1
           /\ \A i \in 1..(Len(s) - 1) : Tail(s)[i] = s[i + 1] /\ i + 1 \in 1..Len(s)
           /\ Head(s) = s[1] /\ Head(s) \in S
OBVIOUS

LEMMA TwinRest ==
    ASSUME TypeInv, TwinInv, [Next]_vars
    PROVE  RestFit'
<1>1. /\ TypeOK /\ StoreFit /\ WorkFit /\ RestFit /\ "keyboard" \in Process /\ "app" \in Process
      /\ "chat" \in Queue /\ "completion" \in Queue
      /\ chatQ \in Seq(Job) /\ opens \in Seq(Entry) /\ view.recent \in Seq(Entry) /\ view.with \in SUBSET Friend
      /\ \A r \in finds : r.friend \in Friend /\ r.list \in Seq(Entry)
  BY PartTypes DEF TypeInv, TwinInv, Queue, Process, TypeOK
<1>2. Known \subseteq Known'
  BY KnownGrows
<1>. DEFINE VFit == Fit(view'.recent, Known')
            FFit == \A r \in finds' : Fit(r.list, Known') /\ r.friend \notin Names(r.list)
            QFit == \A i \in 1..Len(chatQ') : chatQ'[i].op = "most" => OwnIn(chatQ'[i].entry, Known')
            OFit == \A i \in 1..Len(opens') : OwnIn(opens'[i], Known')
<1>3. SUFFICES VFit /\ FFit /\ QFit /\ OFit
  BY DEF RestFit, Fit, OwnIn, Names
<1>4. /\ Fit(view.recent, Known')
      /\ \A r \in finds : Fit(r.list, Known') /\ r.friend \notin Names(r.list)
      /\ \A i \in 1..Len(chatQ) : chatQ[i].op = "most" => OwnIn(chatQ[i].entry, Known')
      /\ \A i \in 1..Len(opens) : OwnIn(opens[i], Known')
  BY <1>1, <1>2, FitMore DEF RestFit, OwnIn
<1>5. /\ view'.recent = view.recent => VFit
      /\ finds' \subseteq finds => FFit
      /\ chatQ' = chatQ => QFit
      /\ opens' = opens => OFit
  BY <1>4
<1>. HIDE DEF VFit, FFit, QFit, OFit
<1>6. Closed.recent = <<>>
  BY DEF Closed
<1>7. view'.recent = <<>> => VFit
  BY FitEmpty DEF VFit
<1>8. ASSUME NEW e \in Entry, SetTarget(e), OwnIn(e, Known')
      PROVE  QFit
  <2>. DEFINE j == [op |-> "most", entry |-> e]
  <2>1. j \in Job /\ j.op = "most" /\ j.entry = e
    BY DEF Job
  <2>2. chatQ' = Append(chatQ, j)
    BY <1>8 DEF SetTarget
  <2>. HIDE DEF j
  <2>3. Len(chatQ') = Len(chatQ) + 1 /\ chatQ'[Len(chatQ) + 1] = j /\ \A i \in 1..Len(chatQ) : chatQ'[i] = chatQ[i]
    BY <1>1, <2>1, <2>2, AppendIs
  <2>4. \A i \in 1..Len(chatQ') : i \in 1..Len(chatQ) \/ i = Len(chatQ) + 1
    BY <1>1, <2>3
  <2>5. QED
    BY <1>4, <1>8, <2>1, <2>3, <2>4 DEF QFit
<1>9. ASSUME NEW e \in Entry, opens' = Append(opens, e), OwnIn(e, Known')
      PROVE  OFit
  <2>1. Len(opens') = Len(opens) + 1 /\ opens'[Len(opens) + 1] = e /\ \A i \in 1..Len(opens) : opens'[i] = opens[i]
    BY <1>1, <1>9, AppendIs
  <2>2. \A i \in 1..Len(opens') : i \in 1..Len(opens) \/ i = Len(opens) + 1
    BY <1>1, <2>1
  <2>3. QED
    BY <1>4, <1>9, <2>1, <2>2 DEF OFit
<1>10. CASE OpenView
  <2>1. view'.recent = List("keyboard") /\ UNCHANGED <<finds, chatQ, opens>>
    BY <1>10 DEF OpenView, Closed
  <2>2. Fit(List("keyboard"), Known')
    BY <1>1, <1>2, ListFit, FitMore
  <2>3. QED
    BY <1>5, <2>1, <2>2 DEF VFit
<1>11. CASE \E e \in Entry : Tap(e)
  <2>1. PICK e \in Entry : Tap(e)
    BY <1>11
  <2>2. e \in Entries(view.recent) /\ SetTarget(e) /\ view' = Closed /\ UNCHANGED <<finds, opens>>
    BY <2>1 DEF Tap
  <2>3. PICK i \in 1..Len(view.recent) : view.recent[i] = e
    BY <2>2 DEF Entries
  <2>4. OwnIn(e, Known')
    BY <1>4, <2>3 DEF Fit
  <2>5. QED
    BY <1>5, <1>6, <1>7, <1>8, <2>2, <2>4
<1>12. CASE MergeView
  <2>1. UNCHANGED <<finds, chatQ, opens>> /\ view' = [view EXCEPT !.merge = FALSE, !.recent = Merged(view.recent, view.with), !.with = {}]
    BY <1>12 DEF MergeView
  <2>2. view'.recent = Merged(view.recent, view.with)
    BY <1>1, <2>1 DEF TypeOK
  <2>3. Fit(Merged(view.recent, view.with), Known')
    BY <1>1, FitMerged
  <2>4. QED
    BY <1>5, <2>1, <2>2, <2>3 DEF VFit
<1>13. CASE RunOpen
  <2>1. /\ opens \in Seq(Entry) /\ opens # <<>> /\ SetTarget(Head(opens)) /\ opens' = Tail(opens)
        /\ UNCHANGED <<finds, view>>
    BY <1>1, <1>13 DEF RunOpen
  <2>2. /\ Len(Tail(opens)) = Len(opens) - 1 /\ Len(opens) >= 1
        /\ \A i \in 1..(Len(opens) - 1) : Tail(opens)[i] = opens[i + 1] /\ i + 1 \in 1..Len(opens)
        /\ Head(opens) = opens[1] /\ Head(opens) \in Entry
    BY <2>1, TailIs
  <2>3. OwnIn(Head(opens), Known')
    <3>1. 1 \in 1..Len(opens)
      BY <1>1, <2>2
    <3>2. QED
      BY <1>4, <2>2, <3>1
  <2>4. OFit
    BY <1>4, <2>1, <2>2 DEF OFit
  <2>5. QED
    BY <1>5, <1>8, <2>1, <2>2, <2>3, <2>4
<1>14. CASE \E f \in Friend : MessageArrived(f)
  <2>1. PICK f \in Friend : MessageArrived(f)
    BY <1>14
  <2>. DEFINE j == [op |-> "look", entry |-> f]
  <2>2. chatQ' = Append(chatQ, j) /\ UNCHANGED <<finds, opens, view>>
    BY <2>1 DEF MessageArrived
  <2>3. j \in Job /\ j.op = "look"
    BY DEF Job
  <2>. HIDE DEF j
  <2>4. Len(chatQ') = Len(chatQ) + 1 /\ chatQ'[Len(chatQ) + 1] = j /\ \A i \in 1..Len(chatQ) : chatQ'[i] = chatQ[i]
    BY <1>1, <2>2, <2>3, AppendIs
  <2>5. \A i \in 1..Len(chatQ') : i \in 1..Len(chatQ) \/ i = Len(chatQ) + 1
    BY <1>1, <2>4
  <2>6. QFit
    BY <1>4, <2>3, <2>4, <2>5 DEF QFit
  <2>7. QED
    BY <1>5, <2>2, <2>6
<1>15. CASE BeginJob
  <2>1. chatQ # <<>> /\ chatQ' = Tail(chatQ) /\ UNCHANGED <<finds, opens, view>>
    BY <1>15 DEF BeginJob
  <2>2. /\ Len(chatQ') = Len(chatQ) - 1
        /\ \A i \in 1..(Len(chatQ) - 1) : chatQ'[i] = chatQ[i + 1] /\ i + 1 \in 1..Len(chatQ)
    BY <1>1, <2>1, TailIs
  <2>3. QFit
    BY <1>4, <2>2 DEF QFit
  <2>4. QED
    BY <1>5, <2>1, <2>3
<1>16. CASE EndLook
  <2>. DEFINE job == doing["chat"]
              r   == [friend |-> job.entry, list |-> job.list]
  <2>1. UNCHANGED <<chatQ, opens, view>>
    BY <1>16 DEF EndLook
  <2>2. CASE Of(job.list, job.entry) # {}
    BY <1>5, <1>16, <2>1, <2>2 DEF EndLook
  <2>3. CASE Of(job.list, job.entry) = {}
    <3>1. finds' = finds \cup {r}
      BY <1>16, <2>3 DEF EndLook
    <3>2. Fit(job.list, Known')
      BY <1>1, <1>2, FitMore DEF WorkFit
    <3>3. job.entry \notin Names(job.list)
      BY <2>3 DEF Of, Names
    <3>4. FFit
      BY <1>4, <3>1, <3>2, <3>3 DEF FFit
    <3>5. QED
      BY <1>5, <2>1, <3>4
  <2>4. QED
    BY <2>2, <2>3
<1>17. CASE \E r \in finds : FriendFound(r)
  <2>1. PICK r \in finds : FriendFound(r)
    BY <1>17
  <2>2. Row(r.friend) \in Entry /\ Row(r.friend).id = "row"
    BY <1>1, EntryIs
  <2>3. OwnIn(Row(r.friend), Known')
    BY <2>2 DEF OwnIn
  <2>4. /\ finds' \subseteq finds /\ UNCHANGED <<chatQ, view>>
        /\ opens' = opens \/ opens' = Append(opens, Row(r.friend))
    BY <2>1 DEF FriendFound
  <2>5. QED
    BY <1>5, <1>9, <2>2, <2>3, <2>4
<1>18. CASE EndAccept
  <2>. DEFINE e == doing["completion"].entry
  <2>1. e \in Entry /\ OwnIn(e, Known)
    BY <1>1, <1>18 DEF EndAccept, TypeInv, DoingShape, WorkFit
  <2>2. opens' = Append(opens, e) /\ UNCHANGED <<finds, chatQ, view>>
    BY <1>18 DEF EndAccept
  <2>3. OwnIn(e, Known')
    BY <1>2, <2>1 DEF OwnIn
  <2>. HIDE DEF e
  <2>4. QED
    BY <1>5, <1>9, <2>1, <2>2, <2>3
<1>19. CASE KillKeyboard
  <2>1. view' = Closed /\ finds' = {} /\ chatQ' = <<>> /\ opens' = <<>>
    BY <1>19 DEF KillKeyboard
  <2>2. QFit /\ OFit
    BY <2>1 DEF QFit, OFit
  <2>3. QED
    BY <1>5, <1>6, <1>7, <2>1, <2>2
<1>20. CASE ContactsArrived
  <2>1. UNCHANGED <<finds, chatQ, opens>> /\ view'.recent = view.recent
    BY <1>1, <1>20 DEF ContactsArrived, TypeOK
  <2>2. QED
    BY <1>5, <2>1
<1>21. CASE \/ Invite \/ RemoveTarget \/ EndMost
            \/ LoadContacts \/ PageArrived \/ BeginMerge \/ EndMerge \/ EndRemove \/ Clear \/ KillApp
            \/ UNCHANGED vars
            \/ \E r \in finds : FriendNotFound(r)
            \/ \E f \in Friend : Accept(f) \/ Remove(f)
  <2>1. UNCHANGED <<chatQ, opens, view>> /\ finds' \subseteq finds
    BY <1>21 DEF Invite, RemoveTarget, EndMost, LoadContacts, PageArrived, BeginMerge, EndMerge, EndRemove,
         Clear, KillApp, vars, chat, FriendNotFound, Accept, Remove
  <2>2. QED
    BY <1>5, <2>1
<1>22. QED
  BY <1>10, <1>11, <1>12, <1>13, <1>14, <1>15, <1>16, <1>17, <1>18, <1>19, <1>20, <1>21
     DEF Next, MainStep, ChatStep, AnswerStep, FriendStep, AppStep, Kill

LEMMA TwinStep ==
    ASSUME TypeInv, TwinInv, [Next]_vars
    PROVE  TwinInv'
<1>1. StoreFit' /\ WorkFit' /\ RestFit'
  BY TwinStore, TwinWork, TwinRest
<1>2. QED
  BY <1>1 DEF TwinInv

LEMMA TwinInit == Init => TwinInv
<1>1. ASSUME Init
      PROVE  TwinInv
  <2>1. Closed.recent = <<>> /\ Idle.list = <<>> /\ Idle.op = "none"
    BY DEF Closed, Idle
  <2>2. StoreFit
    BY <1>1, FitEmpty DEF Init, StoreFit
  <2>3. WorkFit
    BY <1>1, <2>1, FitEmpty DEF Init, WorkFit
  <2>4. RestFit
    BY <1>1, <2>1, FitEmpty DEF Init, RestFit
  <2>5. QED
    BY <2>2, <2>3, <2>4 DEF TwinInv
<1>2. QED
  BY <1>1

(* No contact is twice in the list of the defaults or of a process, unless *)
(* one of its entries can have another number than the other.              *)
THEOREM TwinsNever == Spec => []NoTwins
<1>1. TypeInv /\ TwinInv /\ [Next]_vars => TwinInv'
  BY TwinStep
<1>2. TwinInv => NoTwins
  BY DEF TwinInv, StoreFit, Fit, NoTwins, Known, Process
<1>3. QED
  BY TwinInit, <1>1, <1>2, TypesKept, PTL DEF Spec

-----------------------------------------------------------------------------
(* Removed contacts are gone                                               *)

Undone == causes \cap {"overtaken", "stale", "old", "late", "killed"} # {}

Removing(f) == doing["removal"].op = "remove" /\ doing["removal"].entry = Row(f)

(* A removed contact that is in the defaults is being removed; and if it   *)
(* is not in the list that its removal has read, the app has not got it    *)
(* back since.                                                             *)
GoneInv ==
    /\ removed \cap friends = {}
    /\ ~Undone => \A f \in removed \ Known :
          /\ f \in Names(disk) => Removing(f)
          /\ Removing(f) /\ f \notin Names(doing["removal"].list) => f \notin Names(copy["app"])

LEMMA RemovingIs ==
    ASSUME DoingShape
    PROVE  /\ \A f : Removing(f) => ~Free("removal") /\ loaded["app"] /\ List("app") = copy["app"]
           /\ Idle.op # "remove"
BY DEF DoingShape, Removing, Free, Idle, List

(* A write that brings no removed contact into the newest list.            *)
LEMMA GoneWrite ==
    ASSUME TypeInv, GoneInv, NEW p \in Process, NEW base, NEW list \in Seq(Entry),
           NEW more \in SUBSET Causes, Write(p, base, list, more),
           UNCHANGED <<friends, removed, accepted>>, doing'["removal"] = doing["removal"],
           more \cap {"old", "late"} = {} => removed \cap Names(list) \subseteq Names(base)
    PROVE  GoneInv'
<1>1. /\ Names(disk') = Names(list) /\ Names(copy'[p]) = Names(list)
      /\ \A q \in Process : q # p => copy'[q] = copy[q]
      /\ causes \subseteq causes' /\ more \subseteq causes'
      /\ causes' \cap {"overtaken", "stale"} = {} => base = List(p) /\ base = disk
  BY NamesWritten DEF TypeInv
<1>2. "app" \in Process
  BY DEF Process
<1>3. ASSUME ~Undone', NEW f \in removed \ Known
      PROVE  /\ f \in Names(disk') => Removing(f)
             /\ Removing(f) /\ f \notin Names(doing["removal"].list) => f \notin Names(copy'["app"])
  <2>1. ~Undone /\ base = List(p) /\ base = disk /\ removed \cap Names(list) \subseteq Names(base)
    BY <1>1, <1>3 DEF Undone
  <2>2. /\ f \in Names(disk) => Removing(f)
        /\ Removing(f) /\ f \notin Names(doing["removal"].list) => f \notin Names(copy["app"])
    BY <1>3, <2>1 DEF GoneInv
  <2>3. f \in Names(list) => f \in Names(base)
    BY <1>3, <2>1
  <2>4. Removing(f) => List("app") = copy["app"]
    BY RemovingIs DEF TypeInv
  <2>5. CASE p = "app"
    BY <1>1, <2>1, <2>2, <2>3, <2>4, <2>5
  <2>6. CASE p # "app"
    BY <1>1, <1>2, <2>1, <2>2, <2>3, <2>6
  <2>7. QED
    BY <2>5, <2>6
<1>4. \A f : Removing(f)' <=> Removing(f)
  BY DEF Removing
<1>5. Known' = Known /\ removed' = removed /\ friends' = friends
  BY DEF Known
<1>6. ~Undone' => \A f \in removed' \ Known' :
          /\ f \in Names(disk') => Removing(f)'
          /\ Removing(f)' /\ f \notin Names(doing'["removal"].list) => f \notin Names(copy'["app"])
  BY <1>3, <1>4, <1>5
<1>7. QED
  BY <1>5, <1>6 DEF GoneInv, Names

LEMMA GoneKept ==
    ASSUME GoneInv, UNCHANGED disk, doing'["removal"] = doing["removal"],
           removed' \ Known' \subseteq removed \ Known, removed' \cap friends' = {},
           causes \subseteq causes', Free("removal") \/ copy'["app"] = copy["app"], DoingShape
    PROVE  GoneInv'
<1>1. \A f : (Removing(f)' <=> Removing(f)) /\ (Removing(f) => copy'["app"] = copy["app"])
  BY RemovingIs DEF Removing
<1>2. ~Undone' => ~Undone
  BY DEF Undone
<1>3. ~Undone' => \A f \in removed' \ Known' :
          /\ f \in Names(disk') => Removing(f)'
          /\ Removing(f)' /\ f \notin Names(doing'["removal"].list) => f \notin Names(copy'["app"])
  BY <1>1, <1>2 DEF GoneInv
<1>4. QED
  BY <1>3 DEF GoneInv, Names

LEMMA GoneStep ==
    ASSUME TypeInv, TwinInv, GoneInv, [Next]_vars
    PROVE  GoneInv'
<1>1. /\ TypeOK /\ DoingShape /\ StoreFit /\ WorkFit /\ "keyboard" \in Process /\ "app" \in Process
      /\ \A q \in Queue : doing[q].list \in Seq(Entry) /\ doing[q].with \in SUBSET Friend
      /\ view.recent \in Seq(Entry) /\ view.with \in SUBSET Friend /\ page.contacts \in SUBSET Friend
      /\ \A r \in finds : r.friend \in Friend /\ r.list \in Seq(Entry)
      /\ "chat" \in Queue /\ "completion" \in Queue /\ "removal" \in Queue /\ "pages" \in Queue
      /\ removed \cap friends = {} /\ {} \in SUBSET Friend
  BY PartTypes DEF TypeInv, TwinInv, GoneInv, Queue, Process
<1>2. ASSUME NEW q \in Queue, End(q), q # "removal"
      PROVE  doing'["removal"] = doing["removal"]
  BY <1>1, <1>2, EndIs
<1>3. CASE EndMost
  <2>. DEFINE job == doing["chat"]
              new == MostRecent(job.list, job.entry)
              more == If("late", job.entry.friend \notin friends)
  <2>1. job.entry \in Entry
    BY <1>1, <1>3 DEF EndMost, DoingShape
  <2>2. new \in Seq(Entry) /\ Names(new) = Names(job.list) \cup {job.entry.friend}
    BY <1>1, <2>1, MostRecentType, NamesMostRecent
  <2>3. more \in SUBSET Causes /\ (more \cap {"old", "late"} = {} => job.entry.friend \in friends)
    BY DEF If, Causes
  <2>4. Write("keyboard", job.list, new, more) /\ UNCHANGED <<friends, removed, accepted>> /\ End("chat")
    BY <1>3 DEF EndMost
  <2>5. more \cap {"old", "late"} = {} => removed \cap Names(new) \subseteq Names(job.list)
    BY <1>1, <2>2, <2>3
  <2>6. doing'["removal"] = doing["removal"]
    BY <1>1, <1>2, <2>4
  <2>. HIDE DEF new, more, job
  <2>7. QED
    BY <1>1, <2>2, <2>3, <2>4, <2>5, <2>6, GoneWrite
<1>4. CASE EndAccept
  <2>. DEFINE job == doing["completion"]
              new == MostRecent(job.list, job.entry)
              more == If("late", job.entry.friend \notin friends)
  <2>1. job.entry \in Entry
    BY <1>1, <1>4 DEF EndAccept, DoingShape
  <2>2. new \in Seq(Entry) /\ Names(new) = Names(job.list) \cup {job.entry.friend}
    BY <1>1, <2>1, MostRecentType, NamesMostRecent
  <2>3. more \in SUBSET Causes /\ (more \cap {"old", "late"} = {} => job.entry.friend \in friends)
    BY DEF If, Causes
  <2>4. Write("keyboard", job.list, new, more) /\ UNCHANGED <<friends, removed, accepted>> /\ End("completion")
    BY <1>4 DEF EndAccept
  <2>5. more \cap {"old", "late"} = {} => removed \cap Names(new) \subseteq Names(job.list)
    BY <1>1, <2>2, <2>3
  <2>6. doing'["removal"] = doing["removal"]
    BY <1>1, <1>2, <2>4
  <2>. HIDE DEF new, more, job
  <2>7. QED
    BY <1>1, <2>2, <2>3, <2>4, <2>5, <2>6, GoneWrite
<1>5. CASE EndLook
  <2>. DEFINE job   == doing["chat"]
              found == Of(job.list, job.entry)
              more  == If("offline", /\ target # NoOne /\ target.friend = job.entry
                                     /\ [op |-> "most", entry |-> target] \notin Jobs)
              new   == Place(Without(job.list, found), job.list[Least(found)])
  <2>1. doing'["removal"] = doing["removal"] /\ UNCHANGED <<friends, removed, accepted>>
    BY <1>1, <1>2, <1>5 DEF EndLook, history, seen
  <2>2. CASE found = {}
    <3>1. UNCHANGED <<disk, copy, causes>> /\ Known' = Known
      BY <1>5, <2>1, <2>2 DEF EndLook, store, Known
    <3>2. QED
      BY <1>1, <2>1, <3>1, GoneKept
  <2>3. CASE found # {}
    <3>1. Write("keyboard", job.list, new, more)
      BY <1>5, <2>3 DEF EndLook
    <3>2. new \in Seq(Entry) /\ Names(new) = Names(job.list) /\ job.list \in Seq(Entry)
      BY <1>1, <2>3, LookedIs, NamesLooked
    <3>3. more \in SUBSET Causes
      BY DEF If, Causes
    <3>4. removed \cap Names(new) \subseteq Names(job.list)
      BY <3>2
    <3>. HIDE DEF more, new, job
    <3>5. QED
      BY <1>1, <2>1, <3>1, <3>2, <3>3, <3>4, GoneWrite
  <2>4. QED
    BY <2>2, <2>3
<1>6. CASE \E r \in finds : FriendFound(r)
  <2>1. PICK r \in finds : FriendFound(r)
    BY <1>6
  <2>2. UNCHANGED <<friends, removed, accepted, doing>> /\ r.friend \in friends
    BY <2>1 DEF FriendFound
  <2>3. CASE UNCHANGED <<store, causes>>
    <3>1. UNCHANGED <<disk, copy, causes>> /\ Known' = Known
      BY <2>2, <2>3 DEF store, Known
    <3>2. QED
      BY <1>1, <2>2, <3>1, GoneKept
  <2>4. CASE Write("keyboard", r.list, Place(r.list, Row(r.friend)), {})
    <3>. DEFINE new == Place(r.list, Row(r.friend))
    <3>1. r.list \in Seq(Entry) /\ Row(r.friend) \in Entry /\ Row(r.friend).friend = r.friend
      BY <1>1, EntryIs
    <3>2. new \in Seq(Entry) /\ Names(new) = Names(r.list) \cup {r.friend} /\ {} \in SUBSET Causes
      BY <3>1, PlaceType, NamesPlace
    <3>3. removed \cap Names(new) \subseteq Names(r.list)
      BY <1>1, <2>2, <3>2
    <3>. HIDE DEF new
    <3>4. Write("keyboard", r.list, new, {})
      BY <2>4 DEF new
    <3>5. QED
      BY <1>1, <2>2, <3>2, <3>3, <3>4, GoneWrite
  <2>5. QED
    BY <2>1, <2>3, <2>4 DEF FriendFound
<1>7. CASE MergeView
  <2>. DEFINE new  == Merged(view.recent, view.with)
              more == {"page"} \cup If("old", view.with # friends)
  <2>1. Write("keyboard", view.recent, new, more) /\ UNCHANGED <<friends, removed, accepted, doing>>
    BY <1>7 DEF MergeView, history, seen
  <2>2. new \in Seq(Entry) /\ Names(new) = view.with
    BY <1>1, MergedIs, NamesMerged
  <2>3. more \in SUBSET Causes /\ (more \cap {"old", "late"} = {} => view.with = friends)
    BY DEF If, Causes
  <2>4. more \cap {"old", "late"} = {} => removed \cap Names(new) \subseteq Names(view.recent)
    BY <1>1, <2>2, <2>3
  <2>. HIDE DEF new, more
  <2>5. QED
    BY <1>1, <2>1, <2>2, <2>3, <2>4, GoneWrite
<1>8. CASE EndMerge
  <2>. DEFINE job  == doing["pages"]
              new  == Merged(job.list, job.with)
              more == {"page"} \cup If("old", job.with # friends)
  <2>1. Write("app", job.list, new, more) /\ UNCHANGED <<friends, removed, accepted>> /\ End("pages")
    BY <1>8 DEF EndMerge, history, seen
  <2>2. new \in Seq(Entry) /\ Names(new) = job.with
    BY <1>1, MergedIs, NamesMerged
  <2>3. more \in SUBSET Causes /\ (more \cap {"old", "late"} = {} => job.with = friends)
    BY DEF If, Causes
  <2>4. more \cap {"old", "late"} = {} => removed \cap Names(new) \subseteq Names(job.list)
    BY <1>1, <2>2, <2>3
  <2>5. doing'["removal"] = doing["removal"]
    BY <1>1, <1>2, <2>1
  <2>. HIDE DEF new, more, job
  <2>6. QED
    BY <1>1, <2>1, <2>2, <2>3, <2>4, <2>5, GoneWrite
<1>9. CASE Clear
  <2>1. /\ Write("app", List("app"), <<>>, {}) /\ <<>> \in Seq(Entry) /\ {} \in SUBSET Causes
        /\ UNCHANGED <<friends, removed, accepted, doing>>
    BY <1>9 DEF Clear
  <2>2. Names(<<>>) = {}
    BY DEF Names
  <2>3. removed \cap Names(<<>>) \subseteq Names(List("app"))
    BY <2>2
  <2>4. QED
    BY <1>1, <2>1, <2>3, GoneWrite
<1>10. CASE \E f \in Friend : Remove(f)
  <2>1. PICK f \in Friend : Remove(f)
    BY <1>10
  <2>2. Row(f) \in Entry /\ \A g : Row(g).friend = g
    BY EntryIs
  <2>3. /\ Begin("removal", "app", "remove", Row(f), {}) /\ Free("removal") /\ UNCHANGED <<accepted, causes>>
        /\ removed' = removed \cup {f} /\ friends' = friends \ {f}
    BY <2>1 DEF Remove
  <2>4. /\ doing'["removal"].op = "remove" /\ doing'["removal"].entry = Row(f)
        /\ doing'["removal"].list = List("app") /\ Load("app")
    BY <1>1, <2>2, <2>3, BeginIs
  <2>5. disk' = disk /\ copy'["app"] = List("app")
    BY <1>1, <2>4, LoadIs
  <2>6. ~Undone' => \A g \in removed' \ Known' :
            /\ g \in Names(disk') => g = f
            /\ g \notin Names(doing'["removal"].list) => g \notin Names(copy'["app"])
    <3>1. ASSUME ~Undone', NEW g \in removed' \ Known', g \in Names(disk'), g # f
          PROVE  FALSE
      <4>1. ~Undone /\ g \in removed \ Known /\ g \in Names(disk)
        BY <2>3, <2>5, <3>1 DEF Undone, Known
      <4>2. Removing(g)
        BY <4>1 DEF GoneInv
      <4>3. QED
        BY <1>1, <2>3, <4>2, RemovingIs
    <3>2. QED
      BY <2>4, <2>5, <3>1
  <2>7. Removing(f)'
    BY <2>4 DEF Removing, Row
  <2>8. removed' \cap friends' = {}
    BY <1>1, <2>3
  <2>9. ~Undone' => \A g \in removed' \ Known' :
            /\ g \in Names(disk') => Removing(g)'
            /\ Removing(g)' /\ g \notin Names(doing'["removal"].list) => g \notin Names(copy'["app"])
    BY <2>6, <2>7
  <2>10. QED
    BY <2>8, <2>9 DEF GoneInv, Names
<1>11. CASE EndRemove
  <2>. DEFINE job  == doing["removal"]
              e    == job.entry
              new  == Without(job.list, At(job.list, e))
              more == If("late", e.friend \in friends)
  <2>1. /\ job.op = "remove" /\ End("removal") /\ UNCHANGED <<friends, removed, accepted>>
        /\ IF e \in Entries(job.list) THEN Write("app", job.list, new, more)
           ELSE UNCHANGED store /\ causes' = causes \cup If("stale", List("app") # disk)
    BY <1>11 DEF EndRemove, history, seen
  <2>2. e \in Entry /\ e.id = "row" /\ Fit(job.list, Known) /\ job.list \in Seq(Entry)
    BY <1>1, <2>1 DEF DoingShape, WorkFit
  <2>3. OwnIn(e, Known)
    BY <2>2 DEF OwnIn
  <2>4. At(job.list, e) \in SUBSET Of(job.list, e.friend) /\ (e.friend \in Known \/ At(job.list, e) = Of(job.list, e.friend))
    BY <2>2, <2>3, AtOrOf
  <2>5. doing'["removal"] = Idle
    BY <1>1, <2>1, EndIs
  <2>6. \A f : Removing(f) => e.friend = f
    BY EntryIs DEF Removing
  <2>7. ASSUME ~Undone', NEW f \in removed \ Known, f \in Names(disk')
        PROVE  FALSE
    <3>1. CASE e \in Entries(job.list)
      <4>1. Write("app", job.list, new, more)
        BY <2>1, <3>1
      <4>2. /\ new \in Seq(Entry) /\ Names(new) \subseteq Names(job.list)
            /\ e.friend \notin Names(new) \/ e.friend \in Known
        <5>1. new \in Seq(Entry) /\ Names(new) \subseteq Names(job.list)
          BY <2>2, NamesAt
        <5>. DEFINE P == At(job.list, e)
        <5>. HIDE DEF P, job, e
        <5>2. e.friend \notin Names(Without(job.list, P)) \/ e.friend \in Known
          <6>1. P \in SUBSET Of(job.list, e.friend) /\ (e.friend \in Known \/ P = Of(job.list, e.friend))
            BY <2>4 DEF P
          <6>2. QED
            BY <2>2, <6>1, AbsentOf
        <5>3. QED
          BY <5>1, <5>2 DEF P
      <4>3. more \in SUBSET Causes
        BY DEF If, Causes
      <4>. HIDE DEF new, more, e, job
      <4>4. /\ Names(disk') = Names(new) /\ causes \subseteq causes'
            /\ causes' \cap {"overtaken", "stale"} = {} => job.list = List("app") /\ job.list = disk
        BY <1>1, <4>1, <4>2, <4>3, NamesWritten
      <4>5. ~Undone /\ f \in Names(disk)
        BY <2>7, <4>2, <4>4 DEF Undone
      <4>6. Removing(f)
        BY <2>7, <4>5 DEF GoneInv
      <4>7. QED
        BY <2>6, <2>7, <4>2, <4>4, <4>6
    <3>2. CASE e \notin Entries(job.list)
      <4>1. /\ disk' = disk /\ causes \subseteq causes'
            /\ "stale" \in causes' \/ List("app") = disk
        BY <2>1, <3>2 DEF store, If
      <4>2. ~Undone /\ f \in Names(disk) /\ List("app") = disk
        BY <2>7, <4>1 DEF Undone
      <4>3. Removing(f)
        BY <2>7, <4>2 DEF GoneInv
      <4>4. At(job.list, e) = {} /\ e.friend = f
        BY <2>6, <3>2, <4>3 DEF At, Entries
      <4>5. Of(job.list, f) = {}
        BY <2>4, <2>7, <4>4
      <4>6. f \notin Names(job.list)
        BY <4>5 DEF Of, Names
      <4>7. f \notin Names(copy["app"])
        BY <2>7, <4>2, <4>3, <4>6 DEF GoneInv
      <4>8. QED
        BY <1>1, <4>2, <4>3, <4>7, RemovingIs
    <3>3. QED
      BY <3>1, <3>2
  <2>8. \A f : ~Removing(f)'
    BY <1>1, <2>5, RemovingIs DEF Removing
  <2>9. Known' = Known /\ removed' = removed /\ friends' = friends
    BY <2>1 DEF Known
  <2>10. ~Undone' => \A f \in removed' \ Known' :
            /\ f \in Names(disk') => Removing(f)'
            /\ Removing(f)' /\ f \notin Names(doing'["removal"].list) => f \notin Names(copy'["app"])
    BY <2>7, <2>8, <2>9
  <2>11. QED
    BY <1>1, <2>9, <2>10 DEF GoneInv, Names
<1>12. CASE KillApp
  <2>1. /\ disk' = disk /\ doing'["removal"] = Idle /\ UNCHANGED <<friends, removed, accepted>>
        /\ causes' = causes \cup If("killed", ~Free("removal"))
    BY <1>1, <1>12 DEF KillApp, history, seen, TypeOK
  <2>2. \A f : ~Removing(f)'
    BY <1>1, <2>1, RemovingIs DEF Removing
  <2>3. ASSUME ~Undone', NEW f \in removed \ Known, f \in Names(disk)
        PROVE  FALSE
    <3>1. ~Undone /\ Free("removal")
      BY <2>1, <2>3 DEF Undone, If
    <3>2. Removing(f)
      BY <2>3, <3>1 DEF GoneInv
    <3>3. QED
      BY <1>1, <3>1, <3>2, RemovingIs
  <2>4. Known' = Known /\ removed' = removed /\ friends' = friends
    BY <2>1 DEF Known
  <2>5. ~Undone' => \A f \in removed' \ Known' :
            /\ f \in Names(disk') => Removing(f)'
            /\ Removing(f)' /\ f \notin Names(doing'["removal"].list) => f \notin Names(copy'["app"])
    BY <2>1, <2>2, <2>3, <2>4
  <2>6. QED
    BY <1>1, <2>4, <2>5 DEF GoneInv, Names
<1>13. CASE \E f \in Friend : Accept(f)
  <2>1. PICK f \in Friend : Accept(f)
    BY <1>13
  <2>2. Own(f) \in Entry
    BY EntryIs
  <2>3. /\ Begin("completion", "keyboard", "most", Own(f), {}) /\ UNCHANGED causes
        /\ friends' = friends \cup {f} /\ removed' = removed \ {f} /\ accepted' = accepted \cup {f}
    BY <2>1 DEF Accept
  <2>4. doing'["removal"] = doing["removal"] /\ Load("keyboard")
    BY <1>1, <2>2, <2>3, BeginIs
  <2>5. disk' = disk /\ copy'["app"] = copy["app"]
    BY <1>1, <2>4, LoadIs
  <2>6. removed' \ Known' \subseteq removed \ Known /\ removed' \cap friends' = {}
    BY <1>1, <2>3 DEF Known
  <2>7. QED
    BY <1>1, <2>3, <2>4, <2>5, <2>6, GoneKept
<1>14. CASE BeginJob
  <2>1. Begin("chat", "keyboard", Head(chatQ).op, Head(chatQ).entry, {}) /\ UNCHANGED <<friends, removed, accepted, causes>>
    BY <1>14 DEF BeginJob, history, seen
  <2>2. Load("keyboard") /\ doing'["removal"] = doing["removal"]
    BY <1>1, <2>1 DEF Begin, TypeOK
  <2>3. disk' = disk /\ copy'["app"] = copy["app"] /\ Known' = Known
    BY <1>1, <2>1, <2>2, LoadIs DEF Known
  <2>4. QED
    BY <1>1, <2>1, <2>2, <2>3, GoneKept
<1>15. CASE BeginMerge
  <2>1. Begin("pages", "app", "merge", NoOne, page.contacts) /\ UNCHANGED <<friends, removed, accepted, causes>>
    BY <1>15 DEF BeginMerge, history, seen
  <2>2. Load("app") /\ doing'["removal"] = doing["removal"]
    BY <1>1, <2>1 DEF Begin, TypeOK
  <2>3. disk' = disk /\ copy'["app"] = List("app") /\ Known' = Known
    BY <1>1, <2>1, <2>2, LoadIs DEF Known
  <2>4. Free("removal") \/ copy'["app"] = copy["app"]
    BY <1>1, <2>3 DEF DoingShape, List
  <2>5. QED
    BY <1>1, <2>1, <2>2, <2>3, <2>4, GoneKept
<1>16. CASE OpenView
  <2>1. Load("keyboard") /\ UNCHANGED <<friends, removed, accepted, causes, doing>>
    BY <1>16 DEF OpenView, seen
  <2>2. disk' = disk /\ copy'["app"] = copy["app"] /\ Known' = Known
    BY <1>1, <2>1, LoadIs DEF Known
  <2>3. QED
    BY <1>1, <2>1, <2>2, GoneKept
<1>17. CASE KillKeyboard
  <2>1. /\ UNCHANGED <<disk, friends, removed, accepted, causes>> /\ copy' = [copy EXCEPT !["keyboard"] = <<>>]
        /\ doing' = [doing EXCEPT !["chat"] = Idle, !["completion"] = Idle]
    BY <1>17 DEF KillKeyboard, history, seen
  <2>2. copy'["app"] = copy["app"] /\ doing'["removal"] = doing["removal"] /\ Known' = Known
    BY <1>1, <2>1 DEF TypeOK, Known
  <2>3. QED
    BY <1>1, <2>1, <2>2, GoneKept
<1>18. CASE \/ Invite \/ RunOpen \/ RemoveTarget \/ ContactsArrived \/ LoadContacts \/ PageArrived
            \/ UNCHANGED vars
            \/ \E e \in Entry : Tap(e)
            \/ \E f \in Friend : MessageArrived(f)
            \/ \E r \in finds : FriendNotFound(r)
  <2>1. UNCHANGED <<disk, copy, doing, friends, removed, accepted, causes>>
    BY <1>18 DEF Invite, RunOpen, RemoveTarget, ContactsArrived, LoadContacts, PageArrived, vars, Tap,
         MessageArrived, FriendNotFound, store, history, seen
  <2>2. Known' = Known
    BY <2>1 DEF Known
  <2>3. QED
    BY <1>1, <2>1, <2>2, GoneKept
<1>19. QED
  BY <1>3, <1>4, <1>5, <1>6, <1>7, <1>8, <1>9, <1>10, <1>11, <1>12, <1>13, <1>14, <1>15, <1>16, <1>17, <1>18
     DEF Next, MainStep, ChatStep, AnswerStep, FriendStep, AppStep, Kill

(* A contact removed in the app is gone from the list of the defaults,     *)
(* unless it can be in it under another number, or a write was made from a *)
(* list that was not the newest, for a contact or from contacts that the   *)
(* server had changed since, or the app ended before its write.            *)
THEOREM RemovedGo == Spec => []RemovedIsGone
<1>1. Init => GoneInv
  BY DEF Init, GoneInv
<1>2. TypeInv /\ TwinInv /\ [Next]_vars => TwinInv'
  BY TwinStep
<1>3. TypeInv /\ TwinInv /\ GoneInv /\ [Next]_vars => GoneInv'
  BY GoneStep
<1>4. GoneInv => RemovedIsGone
  <2>1. ASSUME GoneInv, AtRest, ~Undone, NEW f \in removed, f \in Names(disk), f \notin Known
        PROVE  FALSE
    <3>1. Removing(f)
      BY <2>1 DEF GoneInv
    <3>2. doing["removal"] = Idle
      BY <2>1 DEF AtRest, Free, Queue
    <3>3. QED
      BY <3>1, <3>2 DEF Removing, Idle
  <2>2. QED
    BY <2>1 DEF RemovedIsGone, Undone, Known
<1>5. QED
  BY TwinInit, <1>1, <1>2, <1>3, <1>4, TypesKept, PTL DEF Spec

-----------------------------------------------------------------------------
(* The open chat comes first                                               *)

NoMost(q) == \A i \in 1..Len(q) : q[i].op # "most"

(* The last of the chats that were opened is e's.                          *)
LastMost(q, e) ==
    \A i \in 1..Len(q) :
        q[i].op = "most" /\ (\A j \in 1..Len(q) : q[j].op = "most" => j <= i) => q[i].entry = e

(* No chat is being opened, and nothing has put another contact first.     *)
Settled ==
    /\ doing["chat"].op # "most" /\ opens = <<>> /\ Free("completion")
    /\ causes \cap {"overtaken", "page", "offline"} = {}

HasFirst(e) ==
    /\ loaded["keyboard"] /\ copy["keyboard"] # <<>>
    /\ copy["keyboard"][1] = CodedEntry(e)

(* The chat that is open is the last to be put in front, is being put in   *)
(* front, or is there.                                                     *)
FirstInv ==
    target # NoOne =>
        /\ LastMost(chatQ, target)
        /\ NoMost(chatQ) => /\ doing["chat"].op = "most" => doing["chat"].entry = target
                            /\ Settled => HasFirst(target)

LEMMA FirstKept ==
    ASSUME FirstInv, target' \in {target, NoOne}, UNCHANGED chatQ, doing'["chat"] = doing["chat"],
           Settled' => Settled /\ (HasFirst(target) => HasFirst(target)')
    PROVE  FirstInv'
<1>1. CASE target' = NoOne
  BY <1>1 DEF FirstInv
<1>2. CASE target' = target /\ target # NoOne
  <2>1. LastMost(chatQ', target') /\ (NoMost(chatQ') => NoMost(chatQ))
    BY <1>2 DEF FirstInv
  <2>2. NoMost(chatQ) => /\ doing'["chat"].op = "most" => doing'["chat"].entry = target'
                         /\ Settled' => HasFirst(target)'
    BY <1>2 DEF FirstInv
  <2>3. QED
    BY <2>1, <2>2 DEF FirstInv, NoMost, LastMost
<1>3. QED
  BY <1>1, <1>2

LEMMA FirstSet ==
    ASSUME TypeOK, NEW e \in Entry, SetTarget(e)
    PROVE  FirstInv'
<1>. DEFINE j == [op |-> "most", entry |-> e]
<1>1. j \in Job /\ j.op = "most" /\ j.entry = e
  BY DEF Job
<1>2. chatQ' = Append(chatQ, j) /\ target' = e /\ chatQ \in Seq(Job)
  BY DEF SetTarget, TypeOK
<1>. HIDE DEF j
<1>3. Len(chatQ') = Len(chatQ) + 1 /\ chatQ'[Len(chatQ) + 1] = j /\ Len(chatQ) \in Nat
  BY <1>1, <1>2, AppendIs
<1>4. Len(chatQ) + 1 \in 1..Len(chatQ') /\ chatQ'[Len(chatQ) + 1].op = "most"
  BY <1>1, <1>3
<1>5. ~NoMost(chatQ')
  BY <1>4 DEF NoMost
<1>6. ASSUME NEW i \in 1..Len(chatQ'), \A k \in 1..Len(chatQ') : chatQ'[k].op = "most" => k <= i
      PROVE  chatQ'[i].entry = e
  <2>1. Len(chatQ) + 1 <= i
    BY <1>4, <1>6
  <2>2. i = Len(chatQ) + 1
    BY <1>3, <2>1
  <2>3. QED
    BY <1>1, <1>3, <2>2
<1>7. LastMost(chatQ', target')
  BY <1>2, <1>6 DEF LastMost
<1>8. QED
  BY <1>5, <1>7 DEF FirstInv, LastMost, NoMost

LEMMA LoadFirst ==
    ASSUME TypeOK, Load("keyboard"), NEW e, HasFirst(e)
    PROVE  loaded'["keyboard"] /\ copy'["keyboard"] = copy["keyboard"]
BY LoadIs DEF Process, HasFirst, List

(* What a write of the keyboard puts first.                                *)
LEMMA WriteFirst ==
    ASSUME TypeOK, NEW base, NEW list \in Seq(Entry), NEW more \in SUBSET Causes,
           Write("keyboard", base, list, more), list # <<>>, NEW e \in Entry,
           list[1] \in {e, CodedEntry(e)}
    PROVE  loaded'["keyboard"] /\ copy'["keyboard"] # <<>> /\ copy'["keyboard"][1] = CodedEntry(e)
<1>1. loaded'["keyboard"] /\ copy'["keyboard"] = Coded(list)
  BY WriteIs DEF Process
<1>2. 1 \in 1..Len(list) /\ Len(Coded(list)) = Len(list)
  BY CodedIs
<1>3. Coded(list)[1] = CodedEntry(list[1])
  BY <1>2, CodedIs
<1>4. CodedEntry(list[1]) = CodedEntry(e)
  BY CodedEntryIs
<1>5. Coded(list) # <<>>
  BY <1>2
<1>6. QED
  BY <1>1, <1>3, <1>4, <1>5

LEMMA SubSeqOne ==
    ASSUME NEW S, NEW s \in Seq(S), s # <<>>
    PROVE  SubSeq(s, 1, 1) = <<s[1]>>
<1>1. Len(s) \in Nat /\ Len(s) >= 1 /\ s[1] \in S
  OBVIOUS
<1>2. SubSeq(s, 1, 1) = [i \in 1..1 |-> s[i]]
  BY <1>1
<1>3. <<s[1]>> = [i \in 1..1 |-> s[i]]
  BY <1>1
<1>4. QED
  BY <1>2, <1>3

LEMMA FirstStep ==
    ASSUME TypeInv, FirstInv, [Next]_vars
    PROVE  FirstInv'
<1>1. /\ TypeOK /\ DoingShape /\ "keyboard" \in Process /\ "app" \in Process
      /\ \A q \in Queue : doing[q].list \in Seq(Entry) /\ doing[q].with \in SUBSET Friend
      /\ view.recent \in Seq(Entry) /\ view.with \in SUBSET Friend /\ page.contacts \in SUBSET Friend
      /\ \A r \in finds : r.friend \in Friend /\ r.list \in Seq(Entry)
      /\ "chat" \in Queue /\ "completion" \in Queue /\ "removal" \in Queue /\ "pages" \in Queue
      /\ chatQ \in Seq(Job) /\ opens \in Seq(Entry) /\ target \in Entry \cup {NoOne} /\ {} \in SUBSET Friend
  BY PartTypes DEF TypeInv, Queue, Process, TypeOK

(* Steps that leave the keyboard's chats and its list as they are.         *)
<1>2. ASSUME target' \in {target, NoOne}, UNCHANGED <<chatQ, opens>>, causes \subseteq causes',
             doing'["chat"] = doing["chat"], doing'["completion"] = doing["completion"],
             copy'["keyboard"] = copy["keyboard"], loaded'["keyboard"] = loaded["keyboard"]
      PROVE  FirstInv'
  <2>1. Settled' => Settled
    BY <1>2 DEF Settled, Free
  <2>2. target' = target => (HasFirst(target) => HasFirst(target)')
    BY <1>2 DEF HasFirst, CodedEntry
  <2>3. CASE target' = target
    BY <1>2, <2>1, <2>2, <2>3, FirstKept
  <2>4. CASE target' = NoOne
    BY <2>4 DEF FirstInv
  <2>5. QED
    BY <1>2, <2>3, <2>4

(* Steps after which another contact may be first.                         *)
<1>3. ASSUME UNCHANGED <<target, chatQ>>, doing'["chat"] = doing["chat"], ~Settled'
      PROVE  FirstInv'
  BY <1>3, FirstKept

(* Steps of the app                                                        *)
<1>4. ASSUME NEW base, NEW list \in Seq(Entry), NEW more \in SUBSET Causes, Write("app", base, list, more),
             UNCHANGED chat, doing'["chat"] = doing["chat"], doing'["completion"] = doing["completion"]
      PROVE  FirstInv'
  <2>1. /\ copy'["keyboard"] = copy["keyboard"] /\ loaded'["keyboard"] = loaded["keyboard"]
        /\ causes \subseteq causes'
    BY <1>1, <1>4, WriteIs
  <2>2. QED
    BY <1>2, <1>4, <2>1 DEF chat
<1>5. CASE OpenView
  <2>1. Load("keyboard") /\ UNCHANGED <<target, chatQ, opens, doing, causes>>
    BY <1>5 DEF OpenView
  <2>2. (Settled' => Settled) /\ (HasFirst(target) => HasFirst(target)')
    BY <1>1, <2>1, LoadFirst DEF Settled, Free, HasFirst, CodedEntry
  <2>3. QED
    BY <2>1, <2>2, FirstKept
<1>6. CASE \E e \in Entry : Tap(e)
  BY <1>1, <1>6, FirstSet DEF Tap
<1>7. CASE RunOpen
  <2>1. SetTarget(Head(opens)) /\ Head(opens) \in Entry
    BY <1>1, <1>7 DEF RunOpen
  <2>2. QED
    BY <1>1, <2>1, FirstSet
<1>8. CASE MergeView
  <2>. DEFINE new  == Merged(view.recent, view.with)
              more == {"page"} \cup If("old", view.with # friends)
  <2>1. Write("keyboard", view.recent, new, more) /\ UNCHANGED <<target, chatQ, doing>>
    BY <1>8 DEF MergeView
  <2>2. new \in Seq(Entry)
    BY <1>1, MergedIs
  <2>3. more \in SUBSET Causes /\ "page" \in more
    BY DEF If, Causes
  <2>. HIDE DEF new, more
  <2>4. "page" \in causes'
    BY <1>1, <2>1, <2>2, <2>3, WriteIs
  <2>5. ~Settled'
    BY <2>4 DEF Settled
  <2>6. QED
    BY <1>3, <2>1, <2>5
<1>9. CASE EndMerge
  <2>. DEFINE job  == doing["pages"]
              new  == Merged(job.list, job.with)
              more == {"page"} \cup If("old", job.with # friends)
  <2>1. Write("app", job.list, new, more) /\ UNCHANGED chat /\ End("pages")
    BY <1>9 DEF EndMerge
  <2>2. new \in Seq(Entry)
    BY <1>1, MergedIs
  <2>3. more \in SUBSET Causes
    BY DEF If, Causes
  <2>4. doing'["chat"] = doing["chat"] /\ doing'["completion"] = doing["completion"]
    BY <1>1, <2>1, EndIs
  <2>. HIDE DEF new, more, job
  <2>5. QED
    BY <1>4, <2>1, <2>2, <2>3, <2>4
<1>10. CASE EndRemove
  <2>. DEFINE job  == doing["removal"]
              new  == Without(job.list, At(job.list, job.entry))
              more == If("late", job.entry.friend \in friends)
  <2>1. UNCHANGED chat /\ End("removal")
    BY <1>10 DEF EndRemove
  <2>2. doing'["chat"] = doing["chat"] /\ doing'["completion"] = doing["completion"]
    BY <1>1, <2>1, EndIs
  <2>3. CASE job.entry \in Entries(job.list)
    <3>1. Write("app", job.list, new, more)
      BY <1>10, <2>3 DEF EndRemove
    <3>2. new \in Seq(Entry)
      BY <1>1, AtIs, WithoutType
    <3>3. more \in SUBSET Causes
      BY DEF If, Causes
    <3>. HIDE DEF new, more, job
    <3>4. QED
      BY <1>4, <2>1, <2>2, <3>1, <3>2, <3>3
  <2>4. CASE job.entry \notin Entries(job.list)
    BY <1>2, <1>10, <2>1, <2>2, <2>4 DEF EndRemove, store, chat
  <2>5. QED
    BY <2>3, <2>4
<1>11. CASE Clear
  <2>1. Write("app", List("app"), <<>>, {}) /\ <<>> \in Seq(Entry) /\ {} \in SUBSET Causes /\ UNCHANGED <<chat, doing>>
    BY <1>11 DEF Clear
  <2>2. QED
    BY <1>4, <2>1
<1>12. CASE BeginMerge \/ \E f \in Friend : Remove(f)
  <2>1. /\ \E q \in {"pages", "removal"} : \E op, entry, with : Begin(q, "app", op, entry, with)
        /\ UNCHANGED <<chat, causes>>
    BY <1>12 DEF BeginMerge, Remove
  <2>2. Load("app") /\ doing'["chat"] = doing["chat"] /\ doing'["completion"] = doing["completion"]
    BY <1>1, <2>1 DEF Begin, TypeOK
  <2>3. copy'["keyboard"] = copy["keyboard"] /\ loaded'["keyboard"] = loaded["keyboard"]
    BY <1>1, <2>2, LoadIs
  <2>4. QED
    BY <1>2, <2>1, <2>2, <2>3 DEF chat
<1>13. CASE KillApp
  <2>1. /\ copy' = [copy EXCEPT !["app"] = <<>>] /\ loaded' = [loaded EXCEPT !["app"] = FALSE]
        /\ doing' = [doing EXCEPT !["removal"] = Idle, !["pages"] = Idle]
        /\ causes \subseteq causes' /\ UNCHANGED chat
    BY <1>13 DEF KillApp
  <2>2. /\ doing'["chat"] = doing["chat"] /\ doing'["completion"] = doing["completion"]
        /\ copy'["keyboard"] = copy["keyboard"] /\ loaded'["keyboard"] = loaded["keyboard"]
    BY <1>1, <2>1 DEF TypeOK
  <2>3. QED
    BY <1>2, <2>1, <2>2 DEF chat
<1>14. CASE \E f \in Friend : Accept(f)
  <2>1. PICK f \in Friend : Accept(f)
    BY <1>14
  <2>2. Own(f) \in Entry
    BY EntryIs
  <2>3. Begin("completion", "keyboard", "most", Own(f), {}) /\ UNCHANGED <<target, chatQ>>
    BY <2>1 DEF Accept, chat
  <2>4. doing'["chat"] = doing["chat"] /\ doing'["completion"].op = "most"
    BY <1>1, <2>2, <2>3, BeginIs
  <2>5. ~Settled'
    BY <2>4 DEF Settled, Free, Idle
  <2>6. QED
    BY <1>3, <2>3, <2>4, <2>5
<1>15. CASE EndAccept
  <2>1. opens' = Append(opens, doing["completion"].entry) /\ End("completion") /\ UNCHANGED <<target, chatQ>>
    BY <1>15 DEF EndAccept
  <2>2. doing'["chat"] = doing["chat"]
    BY <1>1, <2>1, EndIs
  <2>3. opens' # <<>>
    BY <1>1, <2>1
  <2>4. ~Settled'
    BY <2>3 DEF Settled
  <2>5. QED
    BY <1>3, <2>1, <2>2, <2>4
<1>16. CASE RemoveTarget \/ KillKeyboard
  <2>1. target' = NoOne
    BY <1>16 DEF RemoveTarget, KillKeyboard
  <2>2. QED
    BY <2>1 DEF FirstInv
<1>17. CASE \E f \in Friend : MessageArrived(f)
  <2>1. PICK f \in Friend : MessageArrived(f)
    BY <1>17
  <2>. DEFINE j == [op |-> "look", entry |-> f]
  <2>2. chatQ' = Append(chatQ, j) /\ UNCHANGED <<store, target, opens, doing, causes>>
    BY <2>1 DEF MessageArrived
  <2>3. j \in Job /\ j.op = "look"
    BY DEF Job
  <2>. HIDE DEF j
  <2>4. Len(chatQ') = Len(chatQ) + 1 /\ chatQ'[Len(chatQ) + 1] = j /\ \A i \in 1..Len(chatQ) : chatQ'[i] = chatQ[i]
    BY <1>1, <2>2, <2>3, AppendIs
  <2>5. /\ \A i \in 1..Len(chatQ') : i \in 1..Len(chatQ) \/ i = Len(chatQ) + 1
        /\ \A i \in 1..Len(chatQ) : i \in 1..Len(chatQ')
    BY <1>1, <2>4
  <2>6. NoMost(chatQ') => NoMost(chatQ)
    BY <2>4, <2>5 DEF NoMost
  <2>7. LastMost(chatQ, target) => LastMost(chatQ', target)
    <3>1. ASSUME LastMost(chatQ, target), NEW i \in 1..Len(chatQ'), chatQ'[i].op = "most",
                 \A k \in 1..Len(chatQ') : chatQ'[k].op = "most" => k <= i
          PROVE  chatQ'[i].entry = target
      <4>1. i \in 1..Len(chatQ) /\ chatQ'[i] = chatQ[i]
        BY <2>3, <2>4, <2>5, <3>1
      <4>2. \A k \in 1..Len(chatQ) : chatQ[k].op = "most" => k <= i
        BY <2>4, <2>5, <3>1
      <4>3. QED
        BY <3>1, <4>1, <4>2 DEF LastMost
    <3>2. QED
      BY <3>1 DEF LastMost
  <2>8. (Settled' => Settled) /\ (HasFirst(target) => HasFirst(target)')
    BY <2>2 DEF Settled, Free, HasFirst, CodedEntry, store
  <2>9. ASSUME target # NoOne
        PROVE  /\ LastMost(chatQ', target)
               /\ NoMost(chatQ') => /\ doing["chat"].op = "most" => doing["chat"].entry = target
                                    /\ Settled' => HasFirst(target)'
    BY <2>6, <2>7, <2>8, <2>9 DEF FirstInv
  <2>10. QED
    BY <2>2, <2>9 DEF FirstInv, LastMost, NoMost
<1>18. CASE BeginJob
  <2>. DEFINE j == Head(chatQ)
  <2>1. /\ chatQ # <<>> /\ Free("chat") /\ chatQ' = Tail(chatQ) /\ Begin("chat", "keyboard", j.op, j.entry, {})
        /\ UNCHANGED <<target, opens, causes>>
    BY <1>18 DEF BeginJob
  <2>2. /\ Len(chatQ') = Len(chatQ) - 1 /\ Len(chatQ) >= 1 /\ j = chatQ[1] /\ j \in Job
        /\ \A i \in 1..(Len(chatQ) - 1) : chatQ'[i] = chatQ[i + 1] /\ i + 1 \in 1..Len(chatQ)
    BY <1>1, <2>1, TailIs
  <2>3. j.op \in {"most", "look", "merge", "remove"} /\ j.entry \in Entry \cup Friend \cup {NoOne}
    BY <2>2, JobIs
  <2>. HIDE DEF j
  <2>4. /\ doing'["chat"].op = j.op /\ doing'["chat"].entry = j.entry
        /\ doing'["completion"] = doing["completion"] /\ Load("keyboard")
    <3>1. Begin("chat", "keyboard", j.op, j.entry, {})
      BY <2>1
    <3>2. /\ TypeOK /\ "chat" \in Queue /\ "keyboard" \in Process /\ {} \in SUBSET Friend
          /\ j.op \in {"most", "look", "merge", "remove"} /\ j.entry \in Entry \cup Friend \cup {NoOne}
      BY <1>1, <2>3
    <3>3. /\ doing'["chat"].op = j.op /\ doing'["chat"].entry = j.entry
          /\ \A r \in Queue : r # "chat" => doing'[r] = doing[r]
      BY <3>1, <3>2, BeginIs
    <3>4. Load("keyboard")
      BY <3>1 DEF Begin
    <3>5. QED
      BY <1>1, <3>3, <3>4
  <2>5. \A k \in 1..Len(chatQ) : k = 1 \/ (k - 1 \in 1..Len(chatQ') /\ chatQ'[k - 1] = chatQ[k])
    <3>1. ASSUME NEW k \in 1..Len(chatQ), k # 1
          PROVE  k - 1 \in 1..Len(chatQ') /\ chatQ'[k - 1] = chatQ[k]
      <4>1. k - 1 \in 1..(Len(chatQ) - 1) /\ (k - 1) + 1 = k
        BY <2>2, <3>1
      <4>2. chatQ'[k - 1] = chatQ[(k - 1) + 1]
        BY <2>2, <4>1
      <4>3. QED
        BY <2>2, <4>1, <4>2
    <3>2. QED
      BY <3>1
  <2>6. LastMost(chatQ, target) => LastMost(chatQ', target)
    <3>1. ASSUME LastMost(chatQ, target), NEW i \in 1..Len(chatQ'), chatQ'[i].op = "most",
                 \A k \in 1..Len(chatQ') : chatQ'[k].op = "most" => k <= i
          PROVE  chatQ'[i].entry = target
      <4>1. i + 1 \in 1..Len(chatQ) /\ chatQ'[i] = chatQ[i + 1]
        BY <2>2
      <4>2. ASSUME NEW k \in 1..Len(chatQ), chatQ[k].op = "most"
            PROVE  k <= i + 1
        <5>1. CASE k = 1
          BY <4>1, <5>1
        <5>2. CASE k # 1
          <6>1. k - 1 \in 1..Len(chatQ') /\ chatQ'[k - 1].op = "most"
            BY <2>5, <4>2, <5>2
          <6>2. k - 1 <= i
            BY <3>1, <6>1
          <6>3. QED
            BY <6>2
        <5>3. QED
          BY <5>1, <5>2
      <4>3. QED
        BY <3>1, <4>1, <4>2 DEF LastMost
    <3>2. QED
      BY <3>1 DEF LastMost
  <2>7. ASSUME NoMost(chatQ'), j.op = "most", LastMost(chatQ, target)
        PROVE  j.entry = target
    <3>1. 1 \in 1..Len(chatQ)
      BY <1>1, <2>2
    <3>2. \A k \in 1..Len(chatQ) : chatQ[k].op = "most" => k = 1
      BY <2>5, <2>7 DEF NoMost
    <3>3. \A k \in 1..Len(chatQ) : chatQ[k].op = "most" => k <= 1
      BY <3>2
    <3>4. QED
      BY <2>2, <2>7, <3>1, <3>3 DEF LastMost
  <2>8. NoMost(chatQ') /\ j.op # "most" => NoMost(chatQ)
    BY <2>2, <2>5 DEF NoMost
  <2>9. Settled' => j.op # "most" /\ Settled
    BY <2>1, <2>4 DEF Settled, Free, Idle
  <2>10. HasFirst(target) => HasFirst(target)'
    BY <1>1, <2>1, <2>4, LoadFirst DEF HasFirst, CodedEntry
  <2>11. ASSUME target # NoOne
         PROVE  /\ LastMost(chatQ', target)
                /\ NoMost(chatQ') => /\ doing'["chat"].op = "most" => doing'["chat"].entry = target
                                     /\ Settled' => HasFirst(target)'
    BY <2>4, <2>6, <2>7, <2>8, <2>9, <2>10, <2>11 DEF FirstInv
  <2>12. QED
    BY <2>1, <2>11 DEF FirstInv, LastMost, NoMost
<1>19. CASE EndMost
  <2>. DEFINE job == doing["chat"]
              w   == Without(job.list, At(job.list, job.entry))
              new == MostRecent(job.list, job.entry)
              more == If("late", job.entry.friend \notin friends)
  <2>1. job.op = "most" /\ job.entry \in Entry
    BY <1>1, <1>19 DEF EndMost, DoingShape
  <2>2. new \in Seq(Entry) /\ new # <<>> /\ new[1] = job.entry
    <3>1. w \in Seq(Entry)
      BY <1>1, NamesAt
    <3>2. new = First(w, job.entry)
      BY DEF MostRecent
    <3>. HIDE DEF w, new, job
    <3>3. new \in Seq(Entry) /\ Len(new) = Len(w) + 1 /\ new[1] = job.entry
      BY <2>1, <3>1, <3>2, FirstIs
    <3>4. QED
      BY <3>1, <3>3
  <2>3. more \in SUBSET Causes
    BY DEF If, Causes
  <2>4. Write("keyboard", job.list, new, more) /\ UNCHANGED chat /\ End("chat")
    BY <1>19 DEF EndMost
  <2>5. doing'["chat"].op # "most"
    BY <1>1, <2>4, EndIs DEF Idle
  <2>. HIDE DEF new, more, job
  <2>6. loaded'["keyboard"] /\ copy'["keyboard"] # <<>> /\ copy'["keyboard"][1] = CodedEntry(job.entry)
    BY <1>1, <2>1, <2>2, <2>3, <2>4, WriteFirst
  <2>7. target # NoOne => LastMost(chatQ, target) /\ (NoMost(chatQ) => job.entry = target)
    BY <2>1 DEF FirstInv, job
  <2>8. UNCHANGED <<target, chatQ>>
    BY <2>4 DEF chat
  <2>9. target # NoOne => LastMost(chatQ, target) /\ (NoMost(chatQ) => HasFirst(target)')
    BY <2>6, <2>7, <2>8 DEF HasFirst, CodedEntry
  <2>10. QED
    BY <2>5, <2>8, <2>9 DEF FirstInv, LastMost, NoMost
<1>20. CASE EndLook
  <2>. DEFINE job   == doing["chat"]
              found == Of(job.list, job.entry)
              w     == Without(job.list, found)
              e     == job.list[Least(found)]
              more  == If("offline", /\ target # NoOne /\ target.friend = job.entry
                                     /\ [op |-> "most", entry |-> target] \notin Jobs)
              new   == Place(w, e)
  <2>1. job.op = "look" /\ End("chat") /\ UNCHANGED <<target, chatQ, opens>>
    BY <1>20 DEF EndLook
  <2>2. doing'["chat"].op # "most" /\ doing'["completion"] = doing["completion"]
    BY <1>1, <2>1, EndIs DEF Idle
  <2>3. causes \subseteq causes' => (Settled' => Settled)
    BY <2>1, <2>2 DEF Settled, Free
  <2>4. SUFFICES ASSUME target # NoOne, NoMost(chatQ), Settled', HasFirst(target), causes \subseteq causes'
                 PROVE  HasFirst(target)'
    <3>1. causes \subseteq causes'
      <4>1. CASE found = {}
        BY <1>20, <4>1 DEF EndLook
      <4>2. CASE found # {}
        BY <1>20, <4>2 DEF EndLook, Write
      <4>3. QED
        BY <4>1, <4>2
    <3>2. target # NoOne => /\ LastMost(chatQ, target)
                            /\ NoMost(chatQ) => (Settled' => HasFirst(target)')
      BY <2>3, <2>4, <3>1 DEF FirstInv
    <3>3. QED
      BY <2>1, <2>2, <3>2 DEF FirstInv, LastMost, NoMost
  <2>5. CASE found = {}
    BY <1>20, <2>1, <2>4, <2>5 DEF EndLook, store, HasFirst, CodedEntry
  <2>6. CASE found # {}
    <3>1. Write("keyboard", job.list, new, more)
      BY <1>20, <2>6 DEF EndLook
    <3>2. /\ job.list \in Seq(Entry) /\ e \in Entry /\ w \in Seq(Entry) /\ new \in Seq(Entry)
      BY <1>1, <2>6, LookedIs
    <3>3. more \in SUBSET Causes
      BY DEF If, Causes
    <3>4. "overtaken" \notin causes' /\ "offline" \notin causes'
      BY <2>4 DEF Settled
    <3>5. target.friend # job.entry
      <4>1. [op |-> "most", entry |-> target] \notin Jobs
        BY <2>4 DEF Jobs, NoMost
      <4>2. "offline" \notin more
        BY <3>1, <3>4 DEF Write
      <4>3. QED
        BY <2>4, <4>1, <4>2 DEF If
    <3>6. job.list = copy["keyboard"] /\ job.list # <<>> /\ job.list[1] = CodedEntry(target)
      <4>. HIDE DEF new, more, job
      <4>1. job.list = List("keyboard")
        BY <1>1, <3>1, <3>2, <3>3, <3>4, WriteIs
      <4>2. QED
        BY <2>4, <4>1 DEF HasFirst, List
    <3>7. target \in Entry /\ CodedEntry(target).friend = target.friend
      BY <1>1, <2>4, CodedEntryIs
    <3>8. w # <<>> /\ w[1] = job.list[1]
      <4>1. 1 \in 1..Len(job.list) /\ 1 \notin found
        BY <3>2, <3>5, <3>6, <3>7 DEF Of
      <4>2. found \in SUBSET (1..Len(job.list))
        BY <3>2, AtIs
      <4>. HIDE DEF found, job
      <4>3. /\ Least(found) \in found /\ Least(found) \in 1..Len(job.list) /\ Len(w) = Len(job.list) - 1
            /\ \A i \in 1..Len(job.list) : i < Least(found) => w[i] = job.list[i]
        BY <2>6, <3>2, <4>2, WithoutIs
      <4>. HIDE DEF w
      <4>4. 1 < Least(found)
        <5>1. Least(found) \in Nat /\ Least(found) >= 1 /\ Least(found) # 1
          BY <4>1, <4>3
        <5>2. QED
          BY <5>1
      <4>5. Len(w) # 0
        BY <3>2, <4>3, <4>4
      <4>6. QED
        BY <4>1, <4>3, <4>4, <4>5
    <3>. HIDE DEF w, e, job, more
    <3>9. new # <<>> /\ new[1] = CodedEntry(target)
      <4>1. new = Second(w, e)
        BY <2>4 DEF Place
      <4>. HIDE DEF new
      <4>2. Len(new) = Len(w) + 1 /\ new[1] = w[1]
        BY <3>2, <3>8, <4>1, SecondIs
      <4>3. Len(new) # 0
        BY <3>2, <4>2
      <4>4. QED
        BY <3>2, <3>6, <3>8, <4>2, <4>3
    <3>. HIDE DEF new
    <3>10. loaded'["keyboard"] /\ copy'["keyboard"] # <<>> /\ copy'["keyboard"][1] = CodedEntry(target)
      BY <1>1, <3>1, <3>2, <3>3, <3>7, <3>9, WriteFirst
    <3>11. QED
      BY <2>1, <3>10 DEF HasFirst, CodedEntry
  <2>7. QED
    BY <2>5, <2>6
<1>21. CASE \E r \in finds : FriendFound(r)
  <2>1. PICK r \in finds : FriendFound(r)
    BY <1>21
  <2>. DEFINE new == Place(r.list, Row(r.friend))
  <2>2. UNCHANGED <<target, chatQ, doing>>
    BY <2>1 DEF FriendFound
  <2>3. CASE target = NoOne
    BY <2>2, <2>3 DEF FirstInv
  <2>4. CASE target # NoOne
    <3>1. Write("keyboard", r.list, new, {}) /\ UNCHANGED opens
      BY <2>1, <2>4 DEF FriendFound
    <3>2. r.list \in Seq(Entry) /\ Row(r.friend) \in Entry /\ {} \in SUBSET Causes
      BY <1>1, EntryIs
    <3>3. new \in Seq(Entry)
      BY <3>2, PlaceType
    <3>4. new = Second(r.list, Row(r.friend))
      BY <2>4 DEF Place
    <3>. HIDE DEF new
    <3>5. causes \subseteq causes' /\ ("overtaken" \in causes' \/ r.list = List("keyboard"))
      BY <1>1, <3>1, <3>2, <3>3, WriteIs
    <3>6. Settled' => Settled
      BY <2>2, <3>1, <3>5 DEF Settled, Free
    <3>7. ASSUME Settled', HasFirst(target)
          PROVE  HasFirst(target)'
      <4>1. r.list = copy["keyboard"] /\ r.list # <<>> /\ r.list[1] = CodedEntry(target)
        BY <3>5, <3>7 DEF Settled, HasFirst, List
      <4>2. Len(new) = Len(r.list) + 1 /\ new[1] = CodedEntry(target)
        BY <3>2, <3>4, <4>1, SecondIs
      <4>3. new # <<>>
        BY <3>2, <4>2
      <4>4. target \in Entry
        BY <1>1, <2>4
      <4>5. loaded'["keyboard"] /\ copy'["keyboard"] # <<>> /\ copy'["keyboard"][1] = CodedEntry(target)
        BY <1>1, <3>1, <3>2, <3>3, <4>2, <4>3, <4>4, WriteFirst
      <4>6. QED
        BY <2>2, <4>5 DEF HasFirst, CodedEntry
    <3>8. QED
      BY <2>2, <3>6, <3>7, FirstKept
  <2>5. QED
    BY <2>3, <2>4
<1>22. CASE \/ Invite \/ ContactsArrived \/ LoadContacts \/ PageArrived \/ UNCHANGED vars
            \/ \E r \in finds : FriendNotFound(r)
  <2>1. UNCHANGED <<copy, loaded, doing, target, chatQ, opens, causes>>
    BY <1>22 DEF Invite, ContactsArrived, LoadContacts, PageArrived, vars, FriendNotFound, store, chat, history
  <2>2. QED
    BY <1>2, <2>1
<1>23. QED
  BY <1>5, <1>6, <1>7, <1>8, <1>9, <1>10, <1>11, <1>12, <1>13, <1>14, <1>15, <1>16, <1>17, <1>18,
     <1>19, <1>20, <1>21, <1>22
     DEF Next, MainStep, ChatStep, AnswerStep, FriendStep, AppStep, Kill

(* The contact whose chat is open is the first of the list the keyboard    *)
(* has, unless a list was written over a newer one, a contact page put it  *)
(* in its own order or offline messages came for that chat.                *)
THEOREM OpenChatFirst == Spec => []OpenChatIsFirst
<1>1. Init => FirstInv
  BY DEF Init, FirstInv
<1>2. TypeInv /\ FirstInv /\ [Next]_vars => FirstInv'
  BY FirstStep
<1>3. TypeInv /\ FirstInv => OpenChatIsFirst
  <2>1. ASSUME TypeInv, FirstInv, AtRest, target # NoOne,
               causes \cap {"overtaken", "page", "offline"} = {}
        PROVE  SubSeq(copy["keyboard"], 1, 1) = Coded(<<target>>)
    <3>1. NoMost(chatQ) /\ Settled
      BY <2>1 DEF AtRest, NoMost, Settled, Free, Queue, Idle
    <3>2. copy["keyboard"] # <<>> /\ copy["keyboard"][1] = CodedEntry(target)
      BY <2>1, <3>1 DEF FirstInv, HasFirst
    <3>3. copy["keyboard"] \in Seq(Entry)
      BY <2>1 DEF TypeInv, TypeOK, Process
    <3>4. SubSeq(copy["keyboard"], 1, 1) = <<copy["keyboard"][1]>>
      BY <3>2, <3>3, SubSeqOne
    <3>5. Coded(<<target>>) = <<CodedEntry(target)>>
      BY DEF Coded
    <3>6. QED
      BY <3>2, <3>4, <3>5
  <2>2. QED
    BY <2>1 DEF OpenChatIsFirst
<1>4. QED
  BY <1>1, <1>2, <1>3, TypesKept, PTL DEF Spec

=============================================================================
