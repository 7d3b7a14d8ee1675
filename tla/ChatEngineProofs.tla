-------------------------- MODULE ChatEngineProofs --------------------------
(***************************************************************************)
(* Theorems about ChatEngine for any friends, any page size and backlog    *)
(* and every bound.                                                        *)
(***************************************************************************)
EXTENDS ChatEngine, SequenceTheorems, FiniteSetTheorems, TLAPS

-----------------------------------------------------------------------------
(* Sequences                                                               *)

LEMMA EmptyOf == \A S : <<>> \in Seq(S)
OBVIOUS

LEMMA FirstOf ==
    ASSUME NEW S, NEW s \in Seq(S), s # <<>>
    PROVE  /\ Head(s) \in S /\ Tail(s) \in Seq(S) /\ Head(s) = s[1] /\ 1 \in DOMAIN s
           /\ \A i \in DOMAIN Tail(s) : i + 1 \in DOMAIN s /\ Tail(s)[i] = s[i + 1]
           /\ \A i \in DOMAIN s : i # 1 => i - 1 \in DOMAIN Tail(s) /\ Tail(s)[i - 1] = s[i]
<1>1. /\ Head(s) = s[1] /\ Tail(s) \in Seq(S) /\ Len(Tail(s)) = Len(s) - 1 /\ Len(s) >= 1
      /\ DOMAIN s = 1..Len(s) /\ DOMAIN Tail(s) = 1..(Len(s) - 1)
      /\ \A i \in 1..(Len(s) - 1) : Tail(s)[i] = s[i + 1]
  OBVIOUS
<1>2. \A i \in 1..Len(s) : s[i] \in S
  OBVIOUS
<1>3. ASSUME NEW i \in 1..Len(s), i # 1
      PROVE  i - 1 \in 1..(Len(s) - 1) /\ Tail(s)[i - 1] = s[i]
  <2>1. i - 1 \in 1..(Len(s) - 1)
    BY <1>1, <1>3
  <2>2. Tail(s)[i - 1] = s[(i - 1) + 1]
    BY <1>1, <2>1
  <2>3. QED
    BY <2>1, <2>2
<1>4. QED
  BY <1>1, <1>2, <1>3

LEMMA AppendOf ==
    ASSUME NEW S, NEW s \in Seq(S), NEW e \in S
    PROVE  /\ Append(s, e) \in Seq(S) /\ Append(s, e) # <<>>
           /\ Len(Append(s, e)) = Len(s) + 1 /\ Append(s, e)[Len(s) + 1] = e
           /\ \A i \in DOMAIN s : i \in DOMAIN Append(s, e) /\ Append(s, e)[i] = s[i]
           /\ \A i \in DOMAIN Append(s, e) : i # Len(s) + 1 => i \in DOMAIN s
OBVIOUS

LEMMA ConcatOf ==
    ASSUME NEW S, NEW s \in Seq(S), NEW t \in Seq(S)
    PROVE  /\ s \o t \in Seq(S) /\ Len(s \o t) = Len(s) + Len(t)
           /\ DOMAIN (s \o t) = 1..(Len(s) + Len(t)) /\ DOMAIN s = 1..Len(s)
           /\ \A i \in 1..Len(s) : (s \o t)[i] = s[i]
           /\ \A i \in 1..Len(t) : (s \o t)[Len(s) + i] = t[i]
OBVIOUS

-----------------------------------------------------------------------------
(* Array.unique                                                            *)

(* A set of natural numbers that is not empty has a least element.         *)
LEMMA Least ==
    ASSUME NEW T \in SUBSET Nat, T # {}
    PROVE  \E m \in T : \A k \in T : m <= k
<1>1. \E x \in T : \A y \in T : ~ (<<y, x>> \in OpToRel(<, Nat))
  BY NatLessThanWellFounded, WFMin
<1>2. PICK x \in T : \A y \in T : ~ (<<y, x>> \in OpToRel(<, Nat))
  BY <1>1
<1>3. \A y \in T : ~ (y < x)
  BY <1>2 DEF OpToRel
<1>4. QED
  BY <1>3

(* Every element of a sequence has a first occurrence.                     *)
LEMMA FirstOccurrence ==
    ASSUME NEW S, NEW s \in Seq(S), NEW i \in DOMAIN s
    PROVE  \E j \in Firsts(s) : j <= i /\ s[j] = s[i]
<1>. DEFINE T == {j \in DOMAIN s : s[j] = s[i]}
<1>1. T \in SUBSET Nat /\ i \in T
  OBVIOUS
<1>2. PICK m \in T : \A k \in T : m <= k
  BY <1>1, Least
<1>3. m \in Firsts(s)
  BY <1>2 DEF Firsts
<1>4. QED
  BY <1>1, <1>2, <1>3

(* The ranks of the places of a finite set number them from 1, in order.   *)
LEMMA Ranks ==
    ASSUME NEW n \in Nat, NEW P \in SUBSET (1..n)
    PROVE  /\ IsFiniteSet(P) /\ Cardinality(P) \in Nat
           /\ \A i \in P : Rank(P, i) \in 1..Cardinality(P)
           /\ \A i, j \in P : i < j => Rank(P, i) < Rank(P, j)
           /\ \A k \in 1..Cardinality(P) : \E i \in P : Rank(P, i) = k
<1>. DEFINE below(i) == {j \in P : j <= i}
<1>1. IsFiniteSet(P) /\ Cardinality(P) \in Nat
  <2>1. 1 \in Int /\ n \in Int
    OBVIOUS
  <2>2. IsFiniteSet(1..n)
    BY <2>1, FS_Interval
  <2>3. QED
    BY <2>2, FS_Subset, FS_CardinalityType
<1>2. ASSUME NEW i \in P
      PROVE  /\ IsFiniteSet(below(i)) /\ Cardinality(below(i)) \in Nat
             /\ Cardinality(below(i)) <= Cardinality(P) /\ Cardinality(below(i)) # 0
  <2>1. below(i) \in SUBSET P /\ i \in below(i)
    OBVIOUS
  <2>2. IsFiniteSet(below(i)) /\ Cardinality(below(i)) <= Cardinality(P)
    BY <1>1, <2>1, FS_Subset
  <2>3. Cardinality(below(i)) \in Nat /\ Cardinality(below(i)) # 0
    BY <2>1, <2>2, FS_CardinalityType, FS_EmptySet
  <2>4. QED
    BY <2>2, <2>3
<1>3. \A i \in P : Rank(P, i) \in 1..Cardinality(P)
  BY <1>1, <1>2 DEF Rank
<1>4. ASSUME NEW i \in P, NEW j \in P, i < j
      PROVE  Rank(P, i) < Rank(P, j)
  <2>1. below(i) \in SUBSET below(j) /\ j \in below(j) /\ j \notin below(i)
    <3>1. \A m \in P : m <= i => m <= j
      BY <1>4
    <3>2. ~ (j <= i) /\ j <= j
      BY <1>4
    <3>3. QED
      BY <3>1, <3>2
  <2>2. Cardinality(below(i)) <= Cardinality(below(j)) /\ Cardinality(below(i)) # Cardinality(below(j))
    BY <1>2, <2>1, FS_Subset
  <2>3. QED
    BY <1>2, <2>2 DEF Rank
<1>5. ASSUME NEW k \in 1..Cardinality(P)
      PROVE  \E i \in P : Rank(P, i) = k
  <2>. DEFINE f == [i \in P |-> Rank(P, i)]
              T == 1..Cardinality(P)
  <2>1. f \in [P -> T]
    BY <1>3
  <2>2. ASSUME NEW i \in P, NEW j \in P, f[i] = f[j]
        PROVE  i = j
    <3>1. ~ (i < j) /\ ~ (j < i)
      BY <1>3, <1>4, <2>2
    <3>2. QED
      BY <3>1
  <2>3. f \in Injection(P, T)
    BY <2>1, <2>2 DEF Injection, IsInjective
  <2>4. IsFiniteSet(T) /\ Cardinality(T) = Cardinality(P)
    BY <1>1, FS_Interval
  <2>5. f \in Surjection(P, T)
    BY <2>3, <2>4, FS_Injection
  <2>6. QED
    BY <2>5 DEF Surjection
<1>6. QED
  BY <1>1, <1>3, <1>4, <1>5

(* Array.unique keeps of each element the first occurrence, in the order   *)
(* of these.                                                               *)
LEMMA UniqueIs ==
    ASSUME NEW S, NEW s \in Seq(S)
    PROVE  /\ Unique(s) \in Seq(S)
           /\ \E g \in [DOMAIN Unique(s) -> Firsts(s)] :
                 /\ \A k \in DOMAIN Unique(s) : Unique(s)[k] = s[g[k]]
                 /\ \A k, l \in DOMAIN Unique(s) : k < l => g[k] < g[l]
           /\ \A i \in DOMAIN s : \E k \in DOMAIN Unique(s) : Unique(s)[k] = s[i]
<1>. DEFINE P == Firsts(s)
            n == Cardinality(P)
            place(k) == CHOOSE i \in P : Rank(P, i) = k
            g == [k \in 1..n |-> place(k)]
<1>1. /\ Len(s) \in Nat /\ DOMAIN s = 1..Len(s) /\ P \in SUBSET (1..Len(s))
      /\ \A i \in P : i \in Int
  BY DEF Firsts
<1>2. /\ n \in Nat
      /\ \A i \in P : Rank(P, i) \in 1..n
      /\ \A i, j \in P : i < j => Rank(P, i) < Rank(P, j)
      /\ \A k \in 1..n : \E i \in P : Rank(P, i) = k
  BY <1>1, Ranks
<1>3. Unique(s) = [k \in 1..n |-> s[place(k)]]
  BY DEF Unique
<1>4. \A k \in 1..n : place(k) \in P /\ Rank(P, place(k)) = k
  BY <1>2
<1>. HIDE DEF P, n, place
<1>5. DOMAIN Unique(s) = 1..n
  BY <1>3
<1>6. \A i \in P : s[i] \in S
  BY <1>1
<1>7. Unique(s) \in Seq(S)
  <2>1. \A k \in 1..n : s[place(k)] \in S
    BY <1>4, <1>6
  <2>2. Unique(s) \in [1..n -> S]
    BY <1>3, <2>1
  <2>3. QED
    BY <1>2, <2>2
<1>8. /\ g \in [1..n -> P]
      /\ \A k \in 1..n : Unique(s)[k] = s[g[k]]
  BY <1>3, <1>4
<1>9. ASSUME NEW k \in 1..n, NEW l \in 1..n, k < l
      PROVE  g[k] < g[l]
  <2>1. g[k] \in P /\ g[l] \in P /\ Rank(P, g[k]) = k /\ Rank(P, g[l]) = l
    BY <1>4
  <2>2. ~ (g[l] < g[k]) /\ g[l] # g[k]
    BY <1>2, <1>9, <2>1
  <2>3. g[k] \in Int /\ g[l] \in Int
    BY <1>1, <2>1
  <2>4. QED
    BY <2>2, <2>3
<1>10. ASSUME NEW i \in DOMAIN s
       PROVE  \E k \in 1..n : Unique(s)[k] = s[i]
  <2>1. PICK j \in P : j <= i /\ s[j] = s[i]
    BY FirstOccurrence DEF P
  <2>2. Rank(P, j) \in 1..n
    BY <1>2
  <2>3. place(Rank(P, j)) = j
    <3>1. place(Rank(P, j)) \in P /\ Rank(P, place(Rank(P, j))) = Rank(P, j)
      BY <1>4, <2>2
    <3>2. ~ (place(Rank(P, j)) < j) /\ ~ (j < place(Rank(P, j)))
      BY <1>2, <3>1
    <3>3. place(Rank(P, j)) \in Int /\ j \in Int
      BY <1>1, <3>1
    <3>4. QED
      BY <3>2, <3>3
  <2>4. Unique(s)[Rank(P, j)] = s[i]
    BY <1>3, <2>1, <2>2, <2>3
  <2>5. QED
    BY <2>2, <2>4
<1>11. g \in [DOMAIN Unique(s) -> Firsts(s)]
  BY <1>5, <1>8 DEF P
<1>12. QED
  BY <1>5, <1>7, <1>8, <1>9, <1>10, <1>11

-----------------------------------------------------------------------------
(* Types                                                                   *)

LEMMA BlockTypes ==
    /\ \A u \in Users, m \in Time :
          /\ [do |-> "append", user |-> u, msg |-> m] \in Block
          /\ [do |-> "display", user |-> u, msg |-> m] \in Block
    /\ \A u \in Users :
          /\ [do |-> "lookup", user |-> u] \in Block
          /\ [do |-> "open", user |-> u] \in Block
    /\ \A u \in Users, s \in Seq(Time) : [do |-> "history", user |-> u, msgs |-> s] \in Block
    /\ [do |-> "nothing"] \in Block
BY DEF Block

LEMMA BlockFields ==
    ASSUME NEW b \in Block
    PROVE  /\ b.do \in {"append", "display"} => b.user \in Users /\ b.msg \in Time
           /\ b.do \in {"lookup", "open"} => b.user \in Users
           /\ b.do = "history" => b.user \in Users /\ b.msgs \in Seq(Time)
<1>1. CASE b \in [do : {"append", "display"}, user : Users, msg : Time]
  BY <1>1
<1>2. CASE b \in [do : {"lookup", "open"}, user : Users]
  BY <1>2
<1>3. CASE b \in [do : {"history"}, user : Users, msgs : Seq(Time)]
  BY <1>3
<1>4. CASE b \in [do : {"nothing"}]
  BY <1>4
<1>5. QED
  BY <1>1, <1>2, <1>3, <1>4 DEF Block

LEMMA RequestFields ==
    ASSUME NEW r \in Request
    PROVE  /\ r.id \in Nat /\ r.user \in Users /\ r.page \in Nat \ {0} /\ r.reply \in Page
           /\ r.reply.msgs \in Seq(Time) /\ r.reply.next \in Nat /\ r.reply.ok \in BOOLEAN
           /\ \A p \in Page : [r EXCEPT !.reply = p] \in Request
BY DEF Request, Page

LEMMA NewRequest ==
    ASSUME NEW i \in Nat, NEW u \in Users, NEW p \in Nat \ {0}
    PROVE  [id |-> i, user |-> u, page |-> p, reply |-> Failed] \in Request
<1>1. Failed \in Page
  BY EmptyOf DEF Failed, Page
<1>2. QED
  BY <1>1 DEF Request

LEMMA MergeFields ==
    /\ Idle \notin Merge
    /\ \A x \in Merge : /\ x.at \in {"merge", "merged"} /\ x.user \in Users
                        /\ x.msgs \in Seq(Time) /\ x.next \in Nat
                        /\ [x EXCEPT !.at = "merged"] \in Merge
    /\ \A u \in Users, s \in Seq(Time), n \in Nat :
          [at |-> "merge", user |-> u, next |-> n, msgs |-> s] \in Merge
BY DEF Merge, Idle

LEMMA PageBounds ==
    ASSUME NEW len \in Nat, NEW q \in Nat, NEW size \in Nat \ {0},
           NEW n, n = len - q, NEW a, a = IF n > size THEN n - size + 1 ELSE 1
    PROVE  /\ n \in Int /\ n <= len /\ a \in Nat \ {0} /\ a >= n - size + 1
           /\ n > size => a = n - size + 1
           /\ \A i \in a..n : i \in 1..len
OBVIOUS

(* The p-th page of a chat of len messages covers the places up to         *)
(* LastPlace(len, p), from FirstPlace of that on.                          *)
LastPlace(len, p) == len - (p - 1) * PageSize
FirstPlace(n) == IF n > PageSize THEN n - PageSize + 1 ELSE 1

LEMMA PageIs ==
    ASSUME TypeOK, NEW u \in Users, NEW p \in Nat \ {0},
           NEW n, n = LastPlace(Len(log[u]), p), NEW a, a = FirstPlace(n)
    PROVE  /\ n \in Int /\ n <= Len(log[u]) /\ a \in Nat \ {0} /\ a >= n - PageSize + 1
           /\ n > PageSize => a = n - PageSize + 1
           /\ \A i \in a..n : i \in 1..Len(log[u])
           /\ PageOf(u, p).msgs \in Seq(Time) /\ PageOf(u, p) \in Page /\ PageOf(u, p).ok
           /\ Len(PageOf(u, p).msgs) = IF a <= n THEN n - a + 1 ELSE 0
           /\ \A i \in DOMAIN PageOf(u, p).msgs : PageOf(u, p).msgs[i] = log[u][a + i - 1]
           /\ PageOf(u, p).next # 0 => n > PageSize /\ PageOf(u, p).next = p + 1
<1>1. /\ log[u] \in Seq(Time) /\ Len(log[u]) \in Nat /\ PageSize \in Nat \ {0}
  BY PagesAssumption DEF TypeOK
<1>2. PICK q \in Nat : q = (p - 1) * PageSize
  <2>1. p - 1 \in Nat /\ PageSize \in Nat
    BY <1>1
  <2>2. QED
    BY <2>1
<1>3. /\ n \in Int /\ n <= Len(log[u]) /\ a \in Nat \ {0} /\ a >= n - PageSize + 1
      /\ n > PageSize => a = n - PageSize + 1
      /\ \A i \in a..n : i \in 1..Len(log[u])
  <2>1. n = Len(log[u]) - q
    BY <1>2 DEF LastPlace
  <2>2. a = IF n > PageSize THEN n - PageSize + 1 ELSE 1
    BY DEF FirstPlace
  <2>3. QED
    BY <1>1, <2>1, <2>2, PageBounds
<1>4. PageOf(u, p) = [msgs |-> SubSeq(log[u], a, n), next |-> IF n > PageSize THEN p + 1 ELSE 0,
                      ok |-> TRUE]
  BY DEF PageOf, LastPlace, FirstPlace
<1>5. /\ SubSeq(log[u], a, n) \in Seq(Time)
      /\ Len(SubSeq(log[u], a, n)) = IF a <= n THEN n - a + 1 ELSE 0
      /\ \A i \in 1..(n - a + 1) : SubSeq(log[u], a, n)[i] = log[u][a + i - 1]
  <2>1. \A i \in a..n : log[u][i] \in Time
    <3>1. \A i \in 1..Len(log[u]) : log[u][i] \in Time
      BY <1>1
    <3>2. QED
      BY <1>3, <3>1
  <2>2. a \in Int /\ n \in Int
    BY <1>3
  <2>3. SubSeq(log[u], a, n) \in Seq(Time)
    BY <2>1, <2>2, SubSeqProperties
  <2>4. Len(SubSeq(log[u], a, n)) = IF a <= n THEN n - a + 1 ELSE 0
    BY <2>1, <2>2, SubSeqProperties
  <2>5. \A i \in 1..(n - a + 1) : SubSeq(log[u], a, n)[i] = log[u][a + i - 1]
    BY <2>1, <2>2, SubSeqProperties
  <2>6. QED
    BY <2>3, <2>4, <2>5
<1>6. DOMAIN SubSeq(log[u], a, n) = 1..Len(SubSeq(log[u], a, n))
  BY <1>5
<1>7. (IF n > PageSize THEN p + 1 ELSE 0) \in Nat
  OBVIOUS
<1>8. PageOf(u, p) \in Page
  BY <1>4, <1>5, <1>7 DEF Page
<1>9. \A i \in DOMAIN PageOf(u, p).msgs : i \in 1..(n - a + 1)
  BY <1>3, <1>4, <1>5, <1>6
<1>10. \A i \in DOMAIN PageOf(u, p).msgs : PageOf(u, p).msgs[i] = log[u][a + i - 1]
  BY <1>4, <1>5, <1>9
<1>11. PageOf(u, p).next # 0 => n > PageSize /\ PageOf(u, p).next = p + 1
  BY <1>4
<1>12. /\ PageOf(u, p).msgs \in Seq(Time) /\ PageOf(u, p).ok
       /\ Len(PageOf(u, p).msgs) = IF a <= n THEN n - a + 1 ELSE 0
  BY <1>4, <1>5
<1>13. QED
  BY <1>3, <1>8, <1>10, <1>11, <1>12

-----------------------------------------------------------------------------
(* Type correctness                                                        *)

(* No timestamp is ahead of the messages written.                          *)
TypeInv == TypeOK /\ \A u \in Users : clock[u] <= Backlog + written

LEMMA Bounds ==
    /\ MaxNew \in Nat /\ MaxAsk \in Nat /\ MaxSelect \in Nat /\ MaxLogin \in Nat
    /\ PageSize \in Nat \ {0} /\ Backlog \in Nat
BY PagesAssumption, BoundAssumption

LEMMA TypeInit == Init => TypeInv
<1>1. \A i \in 1..Backlog : i \in Time
  BY Bounds DEF Time
<1>2. [i \in 1..Backlog |-> i] \in Seq(Time)
  BY <1>1, Bounds
<1>3. Backlog \in 0..Backlog + MaxNew /\ 0 \in 0..MaxNew /\ 0 \in 0..MaxSelect /\ 0 \in 0..MaxLogin
  BY Bounds
<1>4. \A S : {} \in SUBSET S
  OBVIOUS
<1>. SUFFICES ASSUME Init PROVE TypeInv
  OBVIOUS
<1>6. /\ clock \in [Users -> 0..Backlog + MaxNew] /\ log \in [Users -> Seq(Time)]
      /\ msgHistory \in [Users -> Seq(Time)] /\ arrived \in [Users -> SUBSET Time]
      /\ \A u \in Users : clock[u] <= Backlog + written
  <2>1. /\ clock = [u \in Users |-> Backlog] /\ written = 0
        /\ log = [u \in Users |-> [i \in 1..Backlog |-> i]]
        /\ msgHistory = [u \in Users |-> <<>>] /\ arrived = [u \in Users |-> {}]
    BY DEF Init
  <2>2. <<>> \in Seq(Time)
    BY EmptyOf
  <2>3. QED
    BY <1>2, <1>3, <1>4, <2>1, <2>2, Bounds
<1>7. /\ pushQ \in Seq(Shown) /\ contentList \in Seq(Shown)
      /\ bgQ \in Seq(Block) /\ mainQ \in Seq(Block)
  <2>1. pushQ = <<>> /\ contentList = <<>> /\ bgQ = <<>> /\ mainQ = <<>>
    BY DEF Init
  <2>2. QED
    BY <2>1, EmptyOf
<1>8. /\ release \in BOOLEAN /\ targetUser \in Users \cup {None} /\ nextHistoryPage \in Nat
      /\ waittingNewOne \in BOOLEAN /\ refreshing \in BOOLEAN
      /\ requests \subseteq Request /\ lookups \subseteq Users /\ net \in Merge \cup {Idle}
      /\ written \in 0..MaxNew /\ asks \in Nat /\ selects \in 0..MaxSelect
      /\ logins \in 0..MaxLogin
      /\ overlapped \subseteq Users /\ repaged \subseteq Users /\ crossed \in BOOLEAN
  <2>1. /\ release = FALSE /\ targetUser = None /\ nextHistoryPage = 1
        /\ waittingNewOne = FALSE /\ refreshing = FALSE
        /\ requests = {} /\ lookups = {} /\ net = Idle
        /\ written = 0 /\ asks = 0 /\ selects = 0 /\ logins = 0
        /\ overlapped = {} /\ repaged = {} /\ crossed = FALSE
    BY DEF Init
  <2>2. QED
    BY <1>3, <2>1
<1>9. QED
  BY <1>6, <1>7, <1>8 DEF TypeInv, TypeOK

LEMMA ShownType ==
    ASSUME NEW u \in Users, NEW s \in Seq(Time)
    PROVE  ShownAs(u, s) \in Seq(Shown) /\ DOMAIN ShownAs(u, s) = DOMAIN s
           /\ \A i \in DOMAIN s : ShownAs(u, s)[i].from = u
<1>1. \A i \in 1..Len(s) : [from |-> u, msg |-> s[i]] \in Shown
  BY DEF Shown
<1>2. ShownAs(u, s) = [i \in 1..Len(s) |-> [from |-> u, msg |-> s[i]]] /\ Len(s) \in Nat
  BY DEF ShownAs
<1>3. QED
  BY <1>1, <1>2

LEMMA MergedType ==
    ASSUME NEW s \in Seq(Time), NEW t \in Seq(Time)
    PROVE  Merged(s, t) \in Seq(Time)
<1>1. t \o s \in Seq(Time)
  BY ConcatOf
<1>2. QED
  BY <1>1, UniqueIs DEF Merged

LEMMA PostType ==
    ASSUME TypeOK, NEW b \in Block, Post(b)
    PROVE  mainQ' \in Seq(Block)
<1>1. mainQ \in Seq(Block)
  BY DEF TypeOK
<1>2. QED
  BY <1>1, AppendOf DEF Post

LEMMA NextMain ==
    ASSUME TypeOK, mainQ # <<>>
    PROVE  Head(mainQ) \in Block /\ Tail(mainQ) \in Seq(Block)
<1>1. mainQ \in Seq(Block)
  BY DEF TypeOK
<1>2. QED
  BY <1>1, FirstOf

LEMMA NextBg ==
    ASSUME TypeOK, bgQ # <<>>
    PROVE  Head(bgQ) \in Block /\ Tail(bgQ) \in Seq(Block)
<1>1. bgQ \in Seq(Block)
  BY DEF TypeOK
<1>2. QED
  BY <1>1, FirstOf

LEMMA AskType ==
    ASSUME TypeOK, NEW u \in Users, NEW p \in Nat \ {0}, Ask(u, p)
    PROVE  asks' \in Nat /\ requests' \subseteq Request /\ repaged' \subseteq Users
<1>1. asks + 1 \in Nat /\ requests \subseteq Request /\ repaged \subseteq Users
  BY DEF TypeOK
<1>2. [id |-> asks + 1, user |-> u, page |-> p, reply |-> Failed] \in Request
  BY <1>1, NewRequest
<1>3. QED
  BY <1>1, <1>2 DEF Ask

LEMMA SetTargetType ==
    ASSUME TypeOK, NEW u \in Users, SetTarget(u)
    PROVE  /\ targetUser' \in Users \cup {None} /\ nextHistoryPage' \in Nat
           /\ waittingNewOne' \in BOOLEAN /\ contentList' \in Seq(Shown) /\ refreshing' \in BOOLEAN
           /\ asks' \in Nat /\ requests' \subseteq Request /\ repaged' \subseteq Users
           /\ crossed' \in BOOLEAN
<1>1. /\ targetUser' = u /\ nextHistoryPage' = 1 /\ waittingNewOne' = FALSE
      /\ refreshing' = TRUE \/ refreshing' = FALSE
  BY Zenon DEF SetTarget
<1>2. crossed' \in BOOLEAN
  BY DEF SetTarget, Crossing
<1>3. CASE msgHistory[u] = <<>>
  <2>1. Ask(u, 1) /\ contentList' = <<>>
    BY <1>3 DEF SetTarget
  <2>2. asks' \in Nat /\ requests' \subseteq Request /\ repaged' \subseteq Users
    <3>1. 1 \in Nat \ {0}
      OBVIOUS
    <3>2. QED
      BY <2>1, <3>1, AskType
  <2>3. contentList' \in Seq(Shown)
    BY <2>1, EmptyOf
  <2>4. QED
    BY <1>1, <1>2, <2>2, <2>3
<1>4. CASE msgHistory[u] # <<>>
  <2>1. /\ contentList' = ShownAs(u, msgHistory[u]) /\ repaged' = repaged \cup {u}
        /\ asks' = asks /\ requests' = requests
    BY <1>4 DEF SetTarget
  <2>2. msgHistory[u] \in Seq(Time)
    BY DEF TypeOK
  <2>3. QED
    BY <1>1, <1>2, <2>1, <2>2, ShownType DEF TypeOK
<1>5. QED
  BY <1>3, <1>4

(* A message written with u is one tick after the latest.                  *)
LEMMA NewTime ==
    ASSUME TypeInv, NEW u \in Users, written < MaxNew, written' = written + 1,
           clock' = [clock EXCEPT ![u] = clock[u] + 1]
    PROVE  /\ clock[u] + 1 \in Time /\ clock[u] + 1 \in Nat /\ written' \in 0..MaxNew
           /\ clock' \in [Users -> 0..Backlog + MaxNew]
           /\ \A v \in Users : clock'[v] <= Backlog + written'
<1>1. /\ clock \in [Users -> 0..Backlog + MaxNew] /\ written \in 0..MaxNew
      /\ \A v \in Users : clock[v] <= Backlog + written
  BY DEF TypeInv, TypeOK
<1>2. clock[u] \in Nat /\ clock[u] + 1 <= Backlog + MaxNew
  BY <1>1, Bounds
<1>3. \A v \in Users : clock'[v] = IF v = u THEN clock[u] + 1 ELSE clock[v]
  BY <1>1
<1>4. \A v \in Users : clock'[v] <= Backlog + written'
  BY <1>1, <1>3, Bounds
<1>5. clock[u] + 1 \in 0..Backlog + MaxNew /\ clock[u] + 1 \in Time
  BY <1>2, Bounds DEF Time
<1>6. QED
  BY <1>1, <1>2, <1>4, <1>5, Bounds

LEMMA TypeStep ==
    ASSUME TypeInv, [Next]_vars
    PROVE  TypeInv'
<1>. USE DEF chat, view, bounds, history
<1>0. TypeOK /\ \A u \in Users : clock[u] <= Backlog + written
  BY DEF TypeInv
<1>1. ASSUME NEW u \in Users, Select(u)
      PROVE  TypeInv'
  <2>1. SetTarget(u) /\ selects' \in 0..MaxSelect
    BY <1>0, <1>1, Bounds DEF Select, TypeOK
  <2>2. QED
    BY <1>0, <1>1, <2>1, SetTargetType DEF Select, TypeInv, TypeOK
<1>2. CASE RemoveTarget
  <2>1. Crossing(None) \in BOOLEAN
    BY DEF Crossing
  <2>2. QED
    BY <1>0, <1>2, <2>1, EmptyOf DEF RemoveTarget, TypeInv, TypeOK
<1>3. CASE InvitePrivacyChat
  BY <1>0, <1>3 DEF InvitePrivacyChat, TypeInv, TypeOK
<1>4. CASE ClosePrivacyMode
  BY <1>0, <1>4 DEF ClosePrivacyMode, TypeInv, TypeOK
<1>5. CASE LoadMoreHistory
  <2>1. CASE targetUser # None /\ nextHistoryPage > 0 /\ Ask(targetUser, nextHistoryPage) /\ UNCHANGED mainQ
    <3>1. targetUser \in Users /\ nextHistoryPage \in Nat \ {0}
      BY <1>0, <2>1 DEF TypeOK
    <3>2. asks' \in Nat /\ requests' \subseteq Request /\ repaged' \subseteq Users
      BY <1>0, <2>1, <3>1, AskType
    <3>3. QED
      BY <1>0, <1>5, <2>1, <3>2 DEF LoadMoreHistory, TypeInv, TypeOK
  <2>2. CASE Post([do |-> "nothing"]) /\ UNCHANGED <<asks, requests, repaged>>
    <3>1. mainQ' \in Seq(Block)
      BY <1>0, <2>2, PostType, BlockTypes
    <3>2. QED
      BY <1>0, <1>5, <2>2, <3>1 DEF LoadMoreHistory, TypeInv, TypeOK
  <2>3. QED
    BY <1>5, <2>1, <2>2 DEF LoadMoreHistory
<1>6. ASSUME NEW delivered \in BOOLEAN, SendMsg(delivered)
      PROVE  TypeInv'
  <2>. DEFINE u == targetUser
              m == clock[u] + 1
  <2>1. u \in Users /\ written < MaxNew /\ written' = written + 1
        /\ clock' = [clock EXCEPT ![u] = clock[u] + 1]
    BY <1>0, <1>6 DEF SendMsg, TypeOK
  <2>2. /\ m \in Time /\ written' \in 0..MaxNew
        /\ clock' \in [Users -> 0..Backlog + MaxNew]
        /\ \A v \in Users : clock'[v] <= Backlog + written'
    BY <2>1, NewTime
  <2>3. /\ msgHistory' = [msgHistory EXCEPT ![u] = Append(msgHistory[u], m)]
        /\ log' = IF delivered THEN [log EXCEPT ![u] = Append(log[u], m)] ELSE log
        /\ arrived' = [arrived EXCEPT ![u] = arrived[u] \cup {m}]
        /\ Post([do |-> "display", user |-> u, msg |-> m])
        /\ overlapped' = Overlapped(u)
    BY <1>6 DEF SendMsg
  <2>. HIDE DEF m
  <2>4. mainQ' \in Seq(Block)
    BY <1>0, <2>1, <2>2, <2>3, PostType, BlockTypes
  <2>5. log' \in [Users -> Seq(Time)] /\ msgHistory' \in [Users -> Seq(Time)]
    <3>1. Append(log[u], m) \in Seq(Time) /\ Append(msgHistory[u], m) \in Seq(Time)
      BY <1>0, <2>1, <2>2, AppendOf DEF TypeOK
    <3>2. QED
      BY <1>0, <2>3, <3>1 DEF TypeOK
  <2>6. arrived' \in [Users -> SUBSET Time] /\ overlapped' \subseteq Users
    BY <1>0, <2>1, <2>2, <2>3 DEF TypeOK, Overlapped
  <2>7. QED
    BY <1>0, <1>6, <2>2, <2>4, <2>5, <2>6 DEF SendMsg, TypeInv, TypeOK
<1>7. ASSUME NEW u \in Users, NEW pushed \in BOOLEAN, FriendWrites(u, pushed)
      PROVE  TypeInv'
  <2>. DEFINE m == clock[u] + 1
  <2>1. written < MaxNew /\ written' = written + 1 /\ clock' = [clock EXCEPT ![u] = clock[u] + 1]
    BY <1>7 DEF FriendWrites
  <2>2. /\ m \in Time /\ written' \in 0..MaxNew
        /\ clock' \in [Users -> 0..Backlog + MaxNew]
        /\ \A v \in Users : clock'[v] <= Backlog + written'
    BY <2>1, NewTime
  <2>3. /\ log' = [log EXCEPT ![u] = Append(log[u], m)]
        /\ pushQ' = IF pushed THEN Append(pushQ, [from |-> u, msg |-> m]) ELSE pushQ
    BY <1>7 DEF FriendWrites
  <2>. HIDE DEF m
  <2>4. log' \in [Users -> Seq(Time)]
    <3>1. Append(log[u], m) \in Seq(Time)
      BY <1>0, <2>2, AppendOf DEF TypeOK
    <3>2. QED
      BY <1>0, <2>3, <3>1 DEF TypeOK
  <2>5. pushQ' \in Seq(Shown)
    <3>1. [from |-> u, msg |-> m] \in Shown /\ pushQ \in Seq(Shown)
      BY <1>0, <2>2 DEF Shown, TypeOK
    <3>2. QED
      BY <2>3, <3>1, AppendOf
  <2>6. QED
    BY <1>0, <1>7, <2>2, <2>4, <2>5 DEF FriendWrites, TypeInv, TypeOK
<1>8. ASSUME NEW stranger \in BOOLEAN, NewMsgArrived(stranger)
      PROVE  TypeInv'
  <2>. DEFINE u == Head(pushQ).from
              m == Head(pushQ).msg
  <2>1. u \in Users /\ m \in Time /\ Tail(pushQ) \in Seq(Shown)
    <3>1. pushQ \in Seq(Shown) /\ pushQ # <<>>
      BY <1>0, <1>8 DEF NewMsgArrived, TypeOK
    <3>2. Head(pushQ) \in Shown /\ Tail(pushQ) \in Seq(Shown)
      BY <3>1, FirstOf
    <3>3. QED
      BY <3>2 DEF Shown
  <2>2. /\ pushQ' = Tail(pushQ)
        /\ arrived' = [arrived EXCEPT ![u] = arrived[u] \cup {m}]
        /\ \/ /\ bgQ' = Append(bgQ, [do |-> "append", user |-> u, msg |-> m])
              /\ Post([do |-> "display", user |-> u, msg |-> m])
           \/ /\ bgQ' = bgQ \o << [do |-> "append", user |-> u, msg |-> m] >>
                        \o (IF stranger THEN << [do |-> "lookup", user |-> u] >> ELSE <<>>)
              /\ UNCHANGED mainQ
    BY <1>8 DEF NewMsgArrived
  <2>. HIDE DEF u, m
  <2>3. bgQ' \in Seq(Block)
    <3>1. bgQ \in Seq(Block) /\ [do |-> "append", user |-> u, msg |-> m] \in Block
          /\ [do |-> "lookup", user |-> u] \in Block
      BY <1>0, <2>1, BlockTypes DEF TypeOK
    <3>2. Append(bgQ, [do |-> "append", user |-> u, msg |-> m]) \in Seq(Block)
      BY <3>1, AppendOf
    <3>3. << [do |-> "append", user |-> u, msg |-> m] >> \in Seq(Block)
          /\ (IF stranger THEN << [do |-> "lookup", user |-> u] >> ELSE <<>>) \in Seq(Block)
      BY <3>1, EmptyOf
    <3>4. bgQ \o << [do |-> "append", user |-> u, msg |-> m] >> \in Seq(Block)
      BY <3>1, <3>3, ConcatOf
    <3>5. bgQ \o << [do |-> "append", user |-> u, msg |-> m] >>
             \o (IF stranger THEN << [do |-> "lookup", user |-> u] >> ELSE <<>>) \in Seq(Block)
      BY <3>3, <3>4, ConcatOf
    <3>6. QED
      BY <2>2, <3>2, <3>5
  <2>4. mainQ' \in Seq(Block)
    <3>1. [do |-> "display", user |-> u, msg |-> m] \in Block /\ mainQ \in Seq(Block)
      BY <1>0, <2>1, BlockTypes DEF TypeOK
    <3>2. QED
      BY <1>0, <2>2, <3>1, PostType
  <2>5. arrived' \in [Users -> SUBSET Time]
    BY <1>0, <2>1, <2>2 DEF TypeOK
  <2>6. pushQ' \in Seq(Shown)
    BY <2>1, <2>2
  <2>7. QED
    BY <1>0, <1>8, <2>3, <2>4, <2>5, <2>6 DEF NewMsgArrived, TypeInv, TypeOK
<1>9. CASE AppendHistory
  <2>. DEFINE b == Head(bgQ)
  <2>1. b \in Block /\ Tail(bgQ) \in Seq(Block) /\ b.do = "append"
    BY <1>0, <1>9, NextBg DEF AppendHistory
  <2>2. b.user \in Users /\ b.msg \in Time
    BY <2>1, BlockFields
  <2>3. /\ bgQ' = Tail(bgQ)
        /\ msgHistory' = [msgHistory EXCEPT ![b.user] = Append(msgHistory[b.user], b.msg)]
        /\ overlapped' = Overlapped(b.user)
    BY <1>9 DEF AppendHistory
  <2>. HIDE DEF b
  <2>4. msgHistory' \in [Users -> Seq(Time)]
    <3>1. Append(msgHistory[b.user], b.msg) \in Seq(Time)
      BY <1>0, <2>2, AppendOf DEF TypeOK
    <3>2. QED
      BY <1>0, <2>2, <2>3, <3>1 DEF TypeOK
  <2>5. overlapped' \subseteq Users
    BY <1>0, <2>2, <2>3 DEF TypeOK, Overlapped
  <2>6. QED
    BY <1>0, <1>9, <2>1, <2>3, <2>4, <2>5 DEF AppendHistory, TypeInv, TypeOK
<1>10. CASE LookUp
  <2>1. Head(bgQ) \in Block /\ Tail(bgQ) \in Seq(Block) /\ Head(bgQ).do = "lookup"
    BY <1>0, <1>10, NextBg DEF LookUp
  <2>2. Head(bgQ).user \in Users
    BY <2>1, BlockFields
  <2>3. QED
    BY <1>0, <1>10, <2>1, <2>2 DEF LookUp, TypeInv, TypeOK
<1>11. CASE Login
  BY <1>0, <1>11, Bounds DEF Login, TypeInv, TypeOK
<1>12. CASE ReleaseHistory
  <2>1. <<>> \in Seq(Time) /\ {} \in SUBSET Time
    BY EmptyOf
  <2>2. QED
    BY <1>0, <1>12, <2>1 DEF ReleaseHistory, TypeInv, TypeOK
<1>13. ASSUME NEW r \in requests, Serve(r)
       PROVE  TypeInv'
  <2>1. r \in Request /\ requests \subseteq Request
    BY <1>0 DEF TypeOK
  <2>2. r.user \in Users /\ r.page \in Nat \ {0}
    BY <2>1, RequestFields
  <2>3. PageOf(r.user, r.page) \in Page
    BY <1>0, <2>2, PageIs
  <2>4. [r EXCEPT !.reply = PageOf(r.user, r.page)] \in Request
    BY <2>1, <2>3, RequestFields
  <2>5. requests' \subseteq Request
    BY <1>13, <2>1, <2>4 DEF Serve
  <2>6. QED
    BY <1>0, <1>13, <2>5 DEF Serve, TypeInv, TypeOK
<1>14. ASSUME NEW r \in requests, HistoryArrived(r)
       PROVE  TypeInv'
  <2>1. r \in Request /\ requests' \subseteq Request
    BY <1>0, <1>14 DEF TypeOK, HistoryArrived
  <2>2. r.user \in Users /\ r.reply.msgs \in Seq(Time) /\ r.reply.next \in Nat
    BY <2>1, RequestFields
  <2>3. msgHistory[r.user] \in Seq(Time)
    BY <1>0, <2>2 DEF TypeOK
  <2>4. Merged(msgHistory[r.user], r.reply.msgs) \in Seq(Time)
    BY <2>2, <2>3, MergedType
  <2>5. [at |-> "merge", user |-> r.user, next |-> r.reply.next,
         msgs |-> Merged(msgHistory[r.user], r.reply.msgs)] \in Merge
    BY <2>2, <2>4, MergeFields
  <2>6. net' \in Merge \cup {Idle} /\ repaged' \subseteq Users
    BY <1>0, <1>14, <2>2, <2>5 DEF HistoryArrived, TypeOK
  <2>7. QED
    BY <1>0, <1>14, <2>1, <2>6 DEF HistoryArrived, TypeInv, TypeOK
<1>15. ASSUME NEW r \in requests, HistoryFailed(r)
       PROVE  TypeInv'
  <2>1. mainQ' \in Seq(Block) /\ requests' \subseteq Request
    BY <1>0, <1>15, PostType, BlockTypes DEF HistoryFailed, TypeOK
  <2>2. QED
    BY <1>0, <1>15, <2>1 DEF HistoryFailed, TypeInv, TypeOK
<1>16. ASSUME NEW u \in lookups, FriendListArrived(u)
       PROVE  TypeInv'
  <2>1. u \in Users /\ lookups' \subseteq Users
    BY <1>0, <1>16 DEF TypeOK, FriendListArrived
  <2>2. mainQ' \in Seq(Block)
    BY <1>0, <1>16, <2>1, PostType, BlockTypes DEF FriendListArrived, TypeOK
  <2>3. QED
    BY <1>0, <1>16, <2>1, <2>2 DEF FriendListArrived, TypeInv, TypeOK
<1>17. CASE SetHistory
  <2>1. net \in Merge
    BY <1>0, <1>17 DEF SetHistory, TypeOK
  <2>2. net.user \in Users /\ net.msgs \in Seq(Time) /\ [net EXCEPT !.at = "merged"] \in Merge
    BY <2>1, MergeFields
  <2>3. msgHistory' \in [Users -> Seq(Time)] /\ net' \in Merge \cup {Idle}
    BY <1>0, <1>17, <2>2 DEF SetHistory, TypeOK
  <2>4. QED
    BY <1>0, <1>17, <2>3 DEF SetHistory, TypeInv, TypeOK
<1>18. CASE TurnPage
  <2>1. net \in Merge
    BY <1>0, <1>18 DEF TurnPage, TypeOK
  <2>2. net.user \in Users /\ net.msgs \in Seq(Time) /\ net.next \in Nat
    BY <2>1, MergeFields
  <2>3. mainQ' \in Seq(Block)
    BY <1>0, <1>18, <2>2, PostType, BlockTypes DEF TurnPage
  <2>4. QED
    BY <1>0, <1>18, <2>2, <2>3 DEF TurnPage, TypeInv, TypeOK
<1>19. CASE DisplayMsg
  <2>1. Head(mainQ) \in Block /\ Tail(mainQ) \in Seq(Block) /\ Head(mainQ).do = "display"
    BY <1>0, <1>19, NextMain DEF DisplayMsg
  <2>2. Head(mainQ).user \in Users /\ Head(mainQ).msg \in Time
    BY <2>1, BlockFields
  <2>3. [from |-> Head(mainQ).user, msg |-> Head(mainQ).msg] \in Shown /\ contentList \in Seq(Shown)
    BY <1>0, <2>2 DEF Shown, TypeOK
  <2>4. contentList' \in Seq(Shown)
    BY <1>19, <2>3, AppendOf DEF DisplayMsg
  <2>5. QED
    BY <1>0, <1>19, <2>1, <2>4 DEF DisplayMsg, TypeInv, TypeOK
<1>20. CASE ShowHistory
  <2>1. Head(mainQ) \in Block /\ Tail(mainQ) \in Seq(Block) /\ Head(mainQ).do = "history"
    BY <1>0, <1>20, NextMain DEF ShowHistory
  <2>2. Head(mainQ).user \in Users /\ Head(mainQ).msgs \in Seq(Time)
    BY <2>1, BlockFields
  <2>3. contentList' \in Seq(Shown)
    BY <1>20, <2>2, ShownType DEF ShowHistory
  <2>4. QED
    BY <1>0, <1>20, <2>1, <2>3 DEF ShowHistory, TypeInv, TypeOK
<1>21. CASE InsertNothing
  <2>1. Tail(mainQ) \in Seq(Block)
    BY <1>0, <1>21, NextMain DEF InsertNothing
  <2>2. QED
    BY <1>0, <1>21, <2>1 DEF InsertNothing, TypeInv, TypeOK
<1>22. CASE OpenNewOne
  <2>1. Head(mainQ) \in Block /\ Tail(mainQ) \in Seq(Block) /\ Head(mainQ).do = "open"
    BY <1>0, <1>22, NextMain DEF OpenNewOne
  <2>2. Head(mainQ).user \in Users
    BY <2>1, BlockFields
  <2>3. SetTarget(Head(mainQ).user)
    BY <1>22 DEF OpenNewOne
  <2>4. QED
    BY <1>0, <1>22, <2>1, <2>2, <2>3, SetTargetType DEF OpenNewOne, TypeInv, TypeOK
<1>23. CASE UNCHANGED vars
  BY <1>0, <1>23 DEF vars, TypeInv, TypeOK
<1>24. QED
  BY <1>1, <1>2, <1>3, <1>4, <1>5, <1>6, <1>7, <1>8, <1>9, <1>10, <1>11, <1>12, <1>13, <1>14,
     <1>15, <1>16, <1>17, <1>18, <1>19, <1>20, <1>21, <1>22, <1>23
     DEF Next, User, Net, MainBlock

(* Every reachable state is well typed: the blocks of the queues, the      *)
(* requests of chatHistoryWith and the caches of MsgHistory.               *)
THEOREM TypeCorrect == Spec => []TypeOK
<1>1. TypeInv => TypeOK
  BY DEF TypeInv
<1>2. QED
  BY <1>1, TypeInit, TypeStep, PTL DEF Spec

-----------------------------------------------------------------------------
(* Membership                                                              *)

LEMMA ContainsIs ==
    ASSUME NEW S, NEW s \in Seq(S), NEW x
    PROVE  Contains(s, x) <=> \E i \in DOMAIN s : s[i] = x
BY DEF Contains

LEMMA ContainsAppend ==
    ASSUME NEW S, NEW s \in Seq(S), NEW e \in S, NEW x
    PROVE  Contains(Append(s, e), x) <=> Contains(s, x) \/ x = e
<1>. DEFINE t == Append(s, e)
<1>0. /\ t \in Seq(S) /\ Len(t) = Len(s) + 1 /\ t[Len(s) + 1] = e
      /\ \A i \in DOMAIN s : i \in DOMAIN t /\ t[i] = s[i]
      /\ \A i \in DOMAIN t : i # Len(s) + 1 => i \in DOMAIN s
      /\ Len(s) + 1 \in DOMAIN t
  BY AppendOf
<1>. HIDE DEF t
<1>1. ASSUME Contains(s, x) PROVE Contains(t, x)
  BY <1>0, <1>1, ContainsIs
<1>2. ASSUME x = e PROVE Contains(t, x)
  BY <1>0, <1>2, ContainsIs
<1>3. ASSUME Contains(t, x) PROVE Contains(s, x) \/ x = e
  <2>1. PICK i \in DOMAIN t : t[i] = x
    BY <1>0, <1>3, ContainsIs
  <2>2. QED
    BY <1>0, <2>1, ContainsIs
<1>4. QED
  BY <1>1, <1>2, <1>3 DEF t

LEMMA ContainsTail ==
    ASSUME NEW S, NEW s \in Seq(S), s # <<>>, NEW x
    PROVE  Contains(s, x) <=> x = Head(s) \/ Contains(Tail(s), x)
<1>1. ASSUME Contains(s, x), x # Head(s) PROVE Contains(Tail(s), x)
  <2>1. PICK i \in DOMAIN s : s[i] = x
    BY <1>1, ContainsIs
  <2>2. i # 1
    BY <1>1, <2>1, FirstOf
  <2>3. i - 1 \in DOMAIN Tail(s) /\ Tail(s)[i - 1] = x
    BY <2>1, <2>2, FirstOf
  <2>4. QED
    BY <2>3, FirstOf, ContainsIs
<1>2. ASSUME x = Head(s) PROVE Contains(s, x)
  BY <1>2, FirstOf, ContainsIs
<1>3. ASSUME Contains(Tail(s), x) PROVE Contains(s, x)
  <2>1. PICK i \in DOMAIN Tail(s) : Tail(s)[i] = x
    <3>1. Tail(s) \in Seq(S)
      BY FirstOf
    <3>2. QED
      BY <1>3, <3>1, ContainsIs
  <2>2. QED
    BY <2>1, FirstOf, ContainsIs
<1>4. QED
  BY <1>1, <1>2, <1>3

LEMMA ContainsConcat ==
    ASSUME NEW S, NEW s \in Seq(S), NEW t \in Seq(S), NEW x
    PROVE  Contains(s \o t, x) <=> Contains(s, x) \/ Contains(t, x)
<1>. DEFINE st == s \o t
<1>0. /\ st \in Seq(S) /\ DOMAIN st = 1..(Len(s) + Len(t)) /\ DOMAIN s = 1..Len(s)
      /\ DOMAIN t = 1..Len(t) /\ Len(s) \in Nat /\ Len(t) \in Nat
      /\ \A i \in 1..Len(s) : st[i] = s[i]
      /\ \A i \in 1..Len(t) : st[Len(s) + i] = t[i]
  BY ConcatOf
<1>. HIDE DEF st
<1>1. ASSUME Contains(s, x) PROVE Contains(st, x)
  <2>1. PICK i \in 1..Len(s) : s[i] = x
    BY <1>0, <1>1, ContainsIs
  <2>2. i \in DOMAIN st /\ st[i] = x
    BY <1>0, <2>1
  <2>3. QED
    BY <1>0, <2>2, ContainsIs
<1>2. ASSUME Contains(t, x) PROVE Contains(st, x)
  <2>1. PICK i \in 1..Len(t) : t[i] = x
    BY <1>0, <1>2, ContainsIs
  <2>2. Len(s) + i \in DOMAIN st /\ st[Len(s) + i] = x
    BY <1>0, <2>1
  <2>3. QED
    BY <1>0, <2>2, ContainsIs
<1>3. ASSUME Contains(st, x) PROVE Contains(s, x) \/ Contains(t, x)
  <2>1. PICK i \in 1..(Len(s) + Len(t)) : st[i] = x
    BY <1>0, <1>3, ContainsIs
  <2>2. CASE i <= Len(s)
    <3>1. i \in 1..Len(s)
      BY <1>0, <2>1, <2>2
    <3>2. QED
      BY <1>0, <2>1, <3>1, ContainsIs
  <2>3. CASE ~ (i <= Len(s))
    <3>1. i - Len(s) \in 1..Len(t) /\ Len(s) + (i - Len(s)) = i
      BY <1>0, <2>1, <2>3
    <3>2. t[i - Len(s)] = x
      BY <1>0, <2>1, <3>1
    <3>3. QED
      BY <1>0, <3>1, <3>2, ContainsIs
  <2>4. QED
    BY <2>2, <2>3
<1>4. QED
  BY <1>1, <1>2, <1>3 DEF st

(* The merge of a page into the cache holds what either held, and nothing  *)
(* else.                                                                   *)
LEMMA MergedHolds ==
    ASSUME NEW s \in Seq(Time), NEW t \in Seq(Time), NEW x
    PROVE  Contains(Merged(s, t), x) <=> Contains(s, x) \/ Contains(t, x)
<1>. DEFINE ts == t \o s
<1>1. ts \in Seq(Time) /\ Merged(s, t) = Unique(ts)
  BY ConcatOf DEF Merged
<1>2. Contains(ts, x) <=> Contains(s, x) \/ Contains(t, x)
  BY ContainsConcat
<1>. HIDE DEF ts
<1>3. Unique(ts) \in Seq(Time)
  BY <1>1, UniqueIs
<1>4. ASSUME Contains(ts, x) PROVE Contains(Unique(ts), x)
  <2>1. PICK i \in DOMAIN ts : ts[i] = x
    BY <1>1, <1>4, ContainsIs
  <2>2. \E k \in DOMAIN Unique(ts) : Unique(ts)[k] = ts[i]
    BY <1>1, UniqueIs
  <2>3. QED
    BY <1>3, <2>1, <2>2, ContainsIs
<1>5. ASSUME Contains(Unique(ts), x) PROVE Contains(ts, x)
  <2>1. PICK k \in DOMAIN Unique(ts) : Unique(ts)[k] = x
    BY <1>3, <1>5, ContainsIs
  <2>2. PICK g \in [DOMAIN Unique(ts) -> Firsts(ts)] :
            \A l \in DOMAIN Unique(ts) : Unique(ts)[l] = ts[g[l]]
    BY <1>1, UniqueIs
  <2>3. g[k] \in DOMAIN ts /\ ts[g[k]] = x
    BY <2>1, <2>2 DEF Firsts
  <2>4. QED
    BY <1>1, <2>3, ContainsIs
<1>6. QED
  BY <1>1, <1>2, <1>4, <1>5

-----------------------------------------------------------------------------
(* No message is lost but by a merge                                       *)

(* While a merge is under way, what it will write holds all that is        *)
(* cached, unless a message was appended meanwhile.                        *)
MergeKeeps ==
    net # Idle /\ net.at = "merge" /\ net.user \notin overlapped =>
        \A i \in DOMAIN msgHistory[net.user] : Contains(net.msgs, msgHistory[net.user][i])

KeptInv == OnlyMergesLoseMessages /\ MergeKeeps

keptVars == <<msgHistory, arrived, bgQ, overlapped, net>>

LEMMA KeptInit == Init => KeptInv
BY DEF Init, KeptInv, OnlyMergesLoseMessages, MergeKeeps

(* What every step needs of the types.                                     *)
LEMMA KeptTypes ==
    ASSUME TypeOK
    PROVE  /\ \A u \in Users : msgHistory[u] \in Seq(Time) /\ arrived[u] \subseteq Time
           /\ msgHistory \in [Users -> Seq(Time)] /\ arrived \in [Users -> SUBSET Time]
           /\ bgQ \in Seq(Block) /\ overlapped \subseteq Users
           /\ net # Idle => net.user \in Users /\ net.msgs \in Seq(Time)
<1>1. net # Idle => net \in Merge
  BY DEF TypeOK
<1>2. net # Idle => net.user \in Users /\ net.msgs \in Seq(Time)
  BY <1>1, MergeFields
<1>3. QED
  BY <1>2 DEF TypeOK

(* A message is cached for u behind what is there.                         *)
LEMMA KeptAppend ==
    ASSUME TypeOK, KeptInv, NEW u \in Users, NEW m \in Time,
           msgHistory' = [msgHistory EXCEPT ![u] = Append(msgHistory[u], m)],
           overlapped' = Overlapped(u), net' = net
    PROVE  /\ MergeKeeps'
           /\ \A v \in Users : \A x : Contains(msgHistory'[v], x)
                 <=> Contains(msgHistory[v], x) \/ (v = u /\ x = m)
           /\ overlapped \subseteq overlapped'
<1>0. /\ msgHistory \in [Users -> Seq(Time)] /\ \A v \in Users : msgHistory[v] \in Seq(Time)
      /\ overlapped \subseteq Users
      /\ net # Idle => net.user \in Users /\ net.msgs \in Seq(Time)
  BY KeptTypes
<1>1. \A v \in Users : msgHistory'[v] = IF v = u THEN Append(msgHistory[u], m) ELSE msgHistory[v]
  BY <1>0
<1>2. overlapped \subseteq overlapped'
  BY DEF Overlapped
<1>3. MergeKeeps'
  <2>. SUFFICES ASSUME net # Idle, net.at = "merge", net.user \notin overlapped'
                PROVE  \A i \in DOMAIN msgHistory'[net.user] :
                          Contains(net.msgs, msgHistory'[net.user][i])
    BY DEF MergeKeeps
  <2>1. net.user # u
    BY DEF Overlapped
  <2>2. msgHistory'[net.user] = msgHistory[net.user] /\ net.user \notin overlapped
    BY <1>0, <1>1, <1>2, <2>1
  <2>3. QED
    BY <2>2 DEF KeptInv, MergeKeeps
<1>4. ASSUME NEW v \in Users, NEW x
      PROVE  Contains(msgHistory'[v], x) <=> Contains(msgHistory[v], x) \/ (v = u /\ x = m)
  <2>1. CASE v = u
    <3>1. msgHistory'[v] = Append(msgHistory[u], m)
      BY <1>1, <2>1
    <3>2. Contains(Append(msgHistory[u], m), x) <=> Contains(msgHistory[u], x) \/ x = m
      BY <1>0, ContainsAppend
    <3>3. QED
      BY <2>1, <3>1, <3>2
  <2>2. CASE v # u
    BY <1>1, <2>2
  <2>3. QED
    BY <2>1, <2>2
<1>5. QED
  BY <1>2, <1>3, <1>4

LEMMA KeptStep ==
    ASSUME TypeInv, TypeOK', KeptInv, [Next]_vars
    PROVE  KeptInv'
<1>. USE DEF chat, view, bounds, history
<1>. DEFINE block(u, m) == [do |-> "append", user |-> u, msg |-> m]
<1>0. /\ TypeOK /\ OnlyMergesLoseMessages /\ MergeKeeps
      /\ \A u \in Users : msgHistory[u] \in Seq(Time) /\ arrived[u] \subseteq Time
      /\ msgHistory \in [Users -> Seq(Time)] /\ arrived \in [Users -> SUBSET Time]
      /\ bgQ \in Seq(Block) /\ overlapped \subseteq Users
      /\ net # Idle => net.user \in Users /\ net.msgs \in Seq(Time)
  BY KeptTypes DEF TypeInv, KeptInv
<1>k. ASSUME NEW u \in Users \ overlapped, NEW m \in arrived[u]
      PROVE  Contains(msgHistory[u], m) \/ Contains(bgQ, block(u, m))
  BY <1>0 DEF OnlyMergesLoseMessages
<1>1. CASE UNCHANGED keptVars
  BY <1>0, <1>1 DEF keptVars, KeptInv, OnlyMergesLoseMessages, MergeKeeps
<1>2. ASSUME NEW delivered \in BOOLEAN, SendMsg(delivered)
      PROVE  KeptInv'
  <2>. DEFINE t == targetUser
              n == clock[t] + 1
  <2>1. /\ t \in Users /\ written < MaxNew /\ written' = written + 1
        /\ clock' = [clock EXCEPT ![t] = clock[t] + 1]
        /\ msgHistory' = [msgHistory EXCEPT ![t] = Append(msgHistory[t], n)]
        /\ arrived' = [arrived EXCEPT ![t] = arrived[t] \cup {n}]
        /\ overlapped' = Overlapped(t) /\ net' = net /\ bgQ' = bgQ
    BY <1>0, <1>2 DEF SendMsg, TypeOK
  <2>2. n \in Time
    BY <2>1, NewTime
  <2>. HIDE DEF n
  <2>3. /\ MergeKeeps'
        /\ \A v \in Users : \A x : Contains(msgHistory'[v], x)
              <=> Contains(msgHistory[v], x) \/ (v = t /\ x = n)
        /\ overlapped \subseteq overlapped'
    BY <1>0, <2>1, <2>2, KeptAppend
  <2>4. ASSUME NEW u \in Users \ overlapped', NEW m \in arrived'[u]
        PROVE  Contains(msgHistory'[u], m) \/ Contains(bgQ', block(u, m))
    <3>1. m \in arrived[u] \/ (u = t /\ m = n)
      BY <1>0, <2>1, <2>4
    <3>2. QED
      BY <1>k, <2>1, <2>3, <2>4, <3>1
  <2>5. QED
    BY <2>3, <2>4 DEF KeptInv, OnlyMergesLoseMessages
<1>3. ASSUME NEW stranger \in BOOLEAN, NewMsgArrived(stranger)
      PROVE  KeptInv'
  <2>. DEFINE t == Head(pushQ).from
              n == Head(pushQ).msg
              b == [do |-> "append", user |-> t, msg |-> n]
  <2>1. t \in Users /\ n \in Time
    <3>1. pushQ \in Seq(Shown) /\ pushQ # <<>>
      BY <1>0, <1>3 DEF NewMsgArrived, TypeOK
    <3>2. Head(pushQ) \in Shown
      BY <3>1, FirstOf
    <3>3. QED
      BY <3>2 DEF Shown
  <2>2. /\ arrived' = [arrived EXCEPT ![t] = arrived[t] \cup {n}]
        /\ \/ bgQ' = Append(bgQ, b)
           \/ bgQ' = bgQ \o <<b>> \o (IF stranger THEN << [do |-> "lookup", user |-> t] >> ELSE <<>>)
        /\ UNCHANGED <<msgHistory, overlapped, net>>
    BY <1>3 DEF NewMsgArrived
  <2>3. b \in Block /\ [do |-> "lookup", user |-> t] \in Block
    BY <2>1, BlockTypes
  <2>4. b = block(t, n)
    OBVIOUS
  <2>. HIDE DEF t, n, b
  <2>5. \A x : Contains(bgQ, x) \/ x = b => Contains(bgQ', x)
    <3>1. \A x : Contains(Append(bgQ, b), x) <=> Contains(bgQ, x) \/ x = b
      BY <1>0, <2>3, ContainsAppend
    <3>2. bgQ \o <<b>> = Append(bgQ, b)
      BY <1>0, <2>3
    <3>3. Append(bgQ, b) \in Seq(Block)
      BY <1>0, <2>3, AppendOf
    <3>4. << [do |-> "lookup", user |-> t] >> \in Seq(Block) /\ <<>> \in Seq(Block)
      BY <2>3, EmptyOf
    <3>. DEFINE rest == IF stranger THEN << [do |-> "lookup", user |-> t] >> ELSE <<>>
    <3>5. rest \in Seq(Block)
      BY <3>4
    <3>6. bgQ' = Append(bgQ, b) \/ bgQ' = Append(bgQ, b) \o rest
      BY <2>2, <3>2
    <3>. HIDE DEF rest
    <3>7. \A x : Contains(Append(bgQ, b), x) => Contains(Append(bgQ, b) \o rest, x)
      BY <3>3, <3>5, ContainsConcat
    <3>8. QED
      BY <3>1, <3>6, <3>7
  <2>6. ASSUME NEW u \in Users \ overlapped', NEW m \in arrived'[u]
        PROVE  Contains(msgHistory'[u], m) \/ Contains(bgQ', block(u, m))
    <3>1. m \in arrived[u] \/ (u = t /\ m = n)
      BY <1>0, <2>1, <2>2, <2>6
    <3>2. Contains(msgHistory[u], m) \/ Contains(bgQ, block(u, m)) \/ (u = t /\ m = n)
      BY <1>k, <2>2, <3>1
    <3>. HIDE DEF block
    <3>3. QED
      BY <2>2, <2>4, <2>5, <3>2
  <2>7. OnlyMergesLoseMessages'
    BY <2>6, Zenon DEF OnlyMergesLoseMessages
  <2>8. MergeKeeps'
    BY <1>0, <2>2 DEF MergeKeeps
  <2>9. QED
    BY <2>7, <2>8 DEF KeptInv
<1>4. CASE AppendHistory
  <2>. DEFINE b == Head(bgQ)
  <2>1. /\ bgQ # <<>> /\ b.do = "append" /\ bgQ' = Tail(bgQ)
        /\ msgHistory' = [msgHistory EXCEPT ![b.user] = Append(msgHistory[b.user], b.msg)]
        /\ overlapped' = Overlapped(b.user) /\ net' = net /\ arrived' = arrived
    BY <1>4 DEF AppendHistory
  <2>2. b \in Block
    BY <1>0, <2>1, FirstOf
  <2>3. b.user \in Users /\ b.msg \in Time
    BY <2>1, <2>2, BlockFields
  <2>4. \A x : Contains(bgQ, x) => x = b \/ Contains(bgQ', x)
    BY <1>0, <2>1, ContainsTail
  <2>. HIDE DEF b
  <2>5. /\ MergeKeeps'
        /\ \A v \in Users : \A x : Contains(msgHistory'[v], x)
              <=> Contains(msgHistory[v], x) \/ (v = b.user /\ x = b.msg)
        /\ overlapped \subseteq overlapped'
    BY <1>0, <2>1, <2>3, KeptAppend
  <2>6. ASSUME NEW u \in Users \ overlapped', NEW m \in arrived'[u]
        PROVE  Contains(msgHistory'[u], m) \/ Contains(bgQ', block(u, m))
    <3>1. Contains(msgHistory[u], m) \/ Contains(bgQ, block(u, m))
      BY <1>k, <2>1, <2>5
    <3>2. block(u, m) = b => u = b.user /\ m = b.msg
      OBVIOUS
    <3>. HIDE DEF block
    <3>3. QED
      BY <2>4, <2>5, <3>1, <3>2
  <2>7. QED
    BY <2>5, <2>6 DEF KeptInv, OnlyMergesLoseMessages
<1>5. CASE LookUp
  <2>1. /\ bgQ # <<>> /\ Head(bgQ).do = "lookup" /\ bgQ' = Tail(bgQ)
        /\ UNCHANGED <<msgHistory, arrived, overlapped, net>>
    BY <1>5 DEF LookUp
  <2>2. \A x : Contains(bgQ, x) => x = Head(bgQ) \/ Contains(bgQ', x)
    BY <1>0, <2>1, ContainsTail
  <2>3. ASSUME NEW u \in Users \ overlapped', NEW m \in arrived'[u]
        PROVE  Contains(msgHistory'[u], m) \/ Contains(bgQ', block(u, m))
    <3>1. Contains(msgHistory[u], m) \/ Contains(bgQ, block(u, m))
      BY <1>k, <2>1
    <3>2. block(u, m) # Head(bgQ)
      BY <2>1
    <3>. HIDE DEF block
    <3>3. QED
      BY <2>1, <2>2, <3>1, <3>2
  <2>4. MergeKeeps'
    BY <1>0, <2>1 DEF MergeKeeps
  <2>5. QED
    BY <2>3, <2>4 DEF KeptInv, OnlyMergesLoseMessages
<1>6. CASE ReleaseHistory
  <2>1. /\ msgHistory' = [u \in Users |-> <<>>] /\ arrived' = [u \in Users |-> {}]
        /\ UNCHANGED <<bgQ, overlapped, net>>
    BY <1>6 DEF ReleaseHistory
  <2>2. MergeKeeps'
    BY <1>0, <2>1 DEF MergeKeeps
  <2>3. OnlyMergesLoseMessages'
    BY <2>1 DEF OnlyMergesLoseMessages
  <2>4. QED
    BY <2>2, <2>3 DEF KeptInv
<1>7. ASSUME NEW r \in requests, HistoryArrived(r)
      PROVE  KeptInv'
  <2>1. r.user \in Users /\ r.reply.msgs \in Seq(Time)
    BY <1>0, RequestFields DEF TypeOK
  <2>2. UNCHANGED <<msgHistory, arrived, bgQ, overlapped>>
    BY <1>7 DEF HistoryArrived
  <2>3. MergeKeeps'
    <3>. SUFFICES ASSUME net' # Idle
                  PROVE  \A i \in DOMAIN msgHistory[net'.user] :
                             Contains(net'.msgs, msgHistory[net'.user][i])
      BY <2>2 DEF MergeKeeps
    <3>1. net'.user = r.user /\ net'.msgs = Merged(msgHistory[r.user], r.reply.msgs)
      BY <1>7 DEF HistoryArrived
    <3>2. \A x : Contains(msgHistory[r.user], x)
             => Contains(Merged(msgHistory[r.user], r.reply.msgs), x)
      BY <1>0, <2>1, MergedHolds
    <3>3. \A i \in DOMAIN msgHistory[r.user] : Contains(msgHistory[r.user], msgHistory[r.user][i])
      BY <1>0, <2>1, ContainsIs
    <3>4. QED
      BY <3>1, <3>2, <3>3
  <2>4. QED
    BY <1>0, <2>2, <2>3 DEF KeptInv, OnlyMergesLoseMessages
<1>8. CASE SetHistory
  <2>1. /\ net # Idle /\ net.at = "merge"
        /\ msgHistory' = [msgHistory EXCEPT ![net.user] = net.msgs]
        /\ net' = [net EXCEPT !.at = "merged"]
        /\ UNCHANGED <<arrived, bgQ, overlapped>>
    BY <1>8 DEF SetHistory
  <2>2. net \in Merge
    BY <1>0, <2>1 DEF TypeOK
  <2>3. net'.at = "merged" /\ net.user \in Users
    BY <2>1, <2>2, MergeFields DEF Merge
  <2>4. MergeKeeps'
    BY <2>3 DEF MergeKeeps
  <2>5. ASSUME NEW u \in Users \ overlapped', NEW m \in arrived'[u]
        PROVE  Contains(msgHistory'[u], m) \/ Contains(bgQ', block(u, m))
    <3>1. Contains(msgHistory[u], m) \/ Contains(bgQ, block(u, m))
      BY <1>k, <2>1
    <3>. HIDE DEF block
    <3>2. CASE u = net.user
      <4>1. msgHistory'[u] = net.msgs
        BY <1>0, <2>1, <2>3, <3>2
      <4>2. Contains(msgHistory[u], m) => Contains(net.msgs, m)
        <5>1. \A i \in DOMAIN msgHistory[u] : Contains(net.msgs, msgHistory[u][i])
          BY <1>0, <2>1, <3>2 DEF MergeKeeps
        <5>2. QED
          BY <1>0, <5>1, ContainsIs
      <4>3. QED
        BY <2>1, <3>1, <4>1, <4>2
    <3>3. CASE u # net.user
      BY <1>0, <2>1, <3>1, <3>3
    <3>4. QED
      BY <3>2, <3>3
  <2>6. QED
    BY <2>4, <2>5 DEF KeptInv, OnlyMergesLoseMessages
<1>9. CASE TurnPage
  <2>1. net' = Idle /\ UNCHANGED <<msgHistory, arrived, bgQ, overlapped>>
    BY <1>9 DEF TurnPage
  <2>2. QED
    BY <1>0, <2>1 DEF KeptInv, OnlyMergesLoseMessages, MergeKeeps
<1>10. (\/ \E u \in Users : Select(u)
        \/ RemoveTarget \/ InvitePrivacyChat \/ ClosePrivacyMode \/ LoadMoreHistory
        \/ \E u \in Users, pushed \in BOOLEAN : FriendWrites(u, pushed)
        \/ Login \/ (\E r \in requests : Serve(r) \/ HistoryFailed(r))
        \/ (\E u \in lookups : FriendListArrived(u))
        \/ MainBlock \/ UNCHANGED vars) => UNCHANGED keptVars
  BY DEF Select, RemoveTarget, InvitePrivacyChat, ClosePrivacyMode, LoadMoreHistory, FriendWrites,
         Login, Serve, HistoryFailed, FriendListArrived, MainBlock, DisplayMsg, ShowHistory,
         InsertNothing, OpenNewOne, vars, keptVars
<1>11. QED
  BY <1>1, <1>2, <1>3, <1>4, <1>5, <1>6, <1>7, <1>8, <1>9, <1>10 DEF Next, User, Net

(* The cache loses no message handed to it but one appended between the    *)
(* reading and the writing of loadMoreHistory's closure.                   *)
THEOREM ArrivalsAreKept == Spec => []OnlyMergesLoseMessages
<1>1. TypeInv /\ [Next]_vars => TypeInv' /\ TypeOK'
  BY TypeStep DEF TypeInv
<1>2. Init => TypeInv /\ KeptInv
  BY TypeInit, KeptInit
<1>3. TypeInv /\ KeptInv /\ [Next]_vars => TypeInv' /\ KeptInv'
  BY <1>1, KeptStep
<1>4. KeptInv => OnlyMergesLoseMessages
  BY DEF KeptInv
<1>5. QED
  BY <1>2, <1>3, <1>4, PTL DEF Spec

-----------------------------------------------------------------------------
(* The list shows the open chat                                            *)

(* Until the chat is changed past the comparison of the target, all that   *)
(* is on its way to the list is for the open chat.                         *)
ListInv ==
    \/ crossed
    \/ /\ \A i \in DOMAIN contentList : contentList[i].from = targetUser
       /\ \A i \in DOMAIN mainQ :
             mainQ[i].do \in {"display", "history"} => mainQ[i].user = targetUser
       /\ net # Idle => net.user = targetUser

listVars == <<contentList, targetUser, mainQ, net, crossed>>

(* The blocks of a queue that fill the list are for u.                     *)
AllFor(q, u) == \A i \in DOMAIN q : q[i].do \in {"display", "history"} => q[i].user = u

(* So is what the list shows.                                              *)
ShowsOnly(l, u) == \A i \in DOMAIN l : l[i].from = u

LEMMA ListInvIs ==
    ListInv <=> \/ crossed
                \/ /\ ShowsOnly(contentList, targetUser) /\ AllFor(mainQ, targetUser)
                   /\ net # Idle => net.user = targetUser
BY DEF ListInv, AllFor, ShowsOnly

LEMMA ListInit == Init => ListInv
BY DEF Init, ListInv

LEMMA AllForTail ==
    ASSUME NEW q \in Seq(Block), q # <<>>, NEW u, AllFor(q, u)
    PROVE  AllFor(Tail(q), u)
BY FirstOf DEF AllFor

LEMMA AllForAppend ==
    ASSUME NEW q \in Seq(Block), NEW u, AllFor(q, u), NEW b \in Block,
           b.do \in {"display", "history"} => b.user = u
    PROVE  AllFor(Append(q, b), u)
<1>1. ASSUME NEW i \in DOMAIN Append(q, b), Append(q, b)[i].do \in {"display", "history"}
      PROVE  Append(q, b)[i].user = u
  <2>1. CASE i = Len(q) + 1
    BY <1>1, <2>1, AppendOf
  <2>2. CASE i # Len(q) + 1
    BY <1>1, <2>2, AppendOf DEF AllFor
  <2>3. QED
    BY <2>1, <2>2
<1>2. QED
  BY <1>1 DEF AllFor

(* Choosing a chat starts anew, or notes what is under way for another.    *)
LEMMA ListSetTarget ==
    ASSUME TypeOK, NEW u \in Users, SetTarget(u), net' = net,
           (mainQ # <<>> /\ mainQ' = Tail(mainQ)) \/ mainQ' = mainQ
    PROVE  ListInv'
<1>0. mainQ \in Seq(Block) /\ msgHistory[u] \in Seq(Time)
  BY DEF TypeOK
<1>1. targetUser' = u /\ crossed' = Crossing(u)
      /\ (contentList' = <<>> \/ contentList' = ShownAs(u, msgHistory[u]))
  BY DEF SetTarget
<1>2. ASSUME ~ Crossing(u)
      PROVE  ShowsOnly(contentList', u) /\ AllFor(mainQ', u) /\ (net' # Idle => net'.user = u)
  <2>1. (net # Idle => net.user = u) /\ AllFor(mainQ, u)
    BY <1>2 DEF Crossing, AllFor
  <2>2. AllFor(mainQ', u)
    BY <1>0, <2>1, AllForTail
  <2>3. ShowsOnly(contentList', u)
    BY <1>0, <1>1, ShownType DEF ShowsOnly
  <2>4. QED
    BY <2>1, <2>2, <2>3
<1>3. CASE Crossing(u)
  BY <1>1, <1>3 DEF ListInv
<1>4. CASE ~ Crossing(u)
  <2>1. ShowsOnly(contentList', targetUser') /\ AllFor(mainQ', targetUser')
        /\ (net' # Idle => net'.user = targetUser')
    BY <1>1, <1>2, <1>4
  <2>2. QED
    BY <2>1 DEF ListInv, AllFor, ShowsOnly
<1>5. QED
  BY <1>3, <1>4

LEMMA ListStep ==
    ASSUME TypeInv, ListInv, [Next]_vars
    PROVE  ListInv'
<1>. USE DEF chat, view, bounds, history
<1>0. TypeOK /\ mainQ \in Seq(Block) /\ contentList \in Seq(Shown)
  BY DEF TypeInv, TypeOK
<1>1. CASE UNCHANGED listVars
  BY <1>1 DEF listVars, ListInv
<1>2. ASSUME NEW u \in Users, Select(u)
      PROVE  ListInv'
  BY <1>0, <1>2, ListSetTarget DEF Select
<1>3. CASE OpenNewOne
  <2>1. /\ mainQ # <<>> /\ Head(mainQ).do = "open" /\ mainQ' = Tail(mainQ)
        /\ SetTarget(Head(mainQ).user) /\ net' = net
    BY <1>3 DEF OpenNewOne
  <2>2. Head(mainQ).user \in Users
    BY <1>0, <2>1, NextMain, BlockFields
  <2>3. QED
    BY <1>0, <2>1, <2>2, ListSetTarget
<1>4. CASE RemoveTarget
  <2>1. /\ targetUser' = None /\ crossed' = Crossing(None) /\ contentList' = <<>>
        /\ mainQ' = mainQ /\ net' = net
    BY <1>4 DEF RemoveTarget
  <2>2. QED
    BY <2>1 DEF ListInv, Crossing
<1>. SUFFICES ASSUME ~ crossed', UNCHANGED <<targetUser, crossed>>
              PROVE  ListInv'
  <2>1. (\E u \in Users : Select(u)) \/ OpenNewOne \/ RemoveTarget
        \/ UNCHANGED <<targetUser, crossed>>
    BY DEF Next, User, Net, MainBlock, InvitePrivacyChat, ClosePrivacyMode, LoadMoreHistory,
           Ask, SendMsg, FriendWrites, NewMsgArrived, AppendHistory, LookUp, Login, ReleaseHistory,
           Serve, HistoryArrived, HistoryFailed, FriendListArrived, SetHistory, TurnPage,
           DisplayMsg, ShowHistory, InsertNothing, vars
  <2>2. QED
    BY <1>2, <1>3, <1>4, <2>1 DEF ListInv
<1>. DEFINE u == targetUser
<1>5. /\ ShowsOnly(contentList, u) /\ AllFor(mainQ, u)
      /\ net # Idle => net.user = u
  BY DEF ListInv, AllFor, ShowsOnly
<1>6. SUFFICES /\ ShowsOnly(contentList', u) /\ AllFor(mainQ', u)
               /\ net' # Idle => net'.user = u
  BY DEF ListInv, AllFor, ShowsOnly
<1>. HIDE DEF u
<1>7. ASSUME NEW b \in Block, Post(b), b.do \in {"display", "history"} => b.user = u
      PROVE  AllFor(mainQ', u)
  BY <1>0, <1>5, <1>7, AllForAppend DEF Post
<1>8. [do |-> "nothing"].do \notin {"display", "history"}
  OBVIOUS
<1>9. CASE LoadMoreHistory
  <2>1. contentList' = contentList /\ net' = net
        /\ (mainQ' = mainQ \/ Post([do |-> "nothing"]))
    BY <1>9 DEF LoadMoreHistory
  <2>2. QED
    BY <1>5, <1>7, <1>8, <2>1, BlockTypes
<1>10. ASSUME NEW delivered \in BOOLEAN, SendMsg(delivered)
       PROVE  ShowsOnly(contentList', u) /\ AllFor(mainQ', u) /\ (net' # Idle => net'.user = u)
  <2>. DEFINE m == clock[u] + 1
  <2>1. /\ u \in Users /\ written < MaxNew /\ written' = written + 1
        /\ clock' = [clock EXCEPT ![u] = clock[u] + 1]
        /\ Post([do |-> "display", user |-> u, msg |-> m])
        /\ contentList' = contentList /\ net' = net
    BY <1>0, <1>10 DEF SendMsg, TypeOK, u
  <2>2. m \in Time
    BY <2>1, NewTime
  <2>. HIDE DEF m
  <2>3. QED
    BY <1>5, <1>7, <2>1, <2>2, BlockTypes
<1>11. ASSUME NEW stranger \in BOOLEAN, NewMsgArrived(stranger)
       PROVE  ShowsOnly(contentList', u) /\ AllFor(mainQ', u) /\ (net' # Idle => net'.user = u)
  <2>. DEFINE t == Head(pushQ).from
              m == Head(pushQ).msg
  <2>1. contentList' = contentList /\ net' = net
        /\ (mainQ' = mainQ \/ (t = u /\ Post([do |-> "display", user |-> t, msg |-> m])))
    BY <1>11 DEF NewMsgArrived, u
  <2>2. t \in Users /\ m \in Time
    <3>1. pushQ \in Seq(Shown) /\ pushQ # <<>>
      BY <1>0, <1>11 DEF NewMsgArrived, TypeOK
    <3>2. Head(pushQ) \in Shown
      BY <3>1, FirstOf
    <3>3. QED
      BY <3>2 DEF Shown
  <2>. HIDE DEF t, m
  <2>3. QED
    BY <1>5, <1>7, <2>1, <2>2, BlockTypes
<1>12. ASSUME NEW r \in requests, HistoryArrived(r)
       PROVE  ShowsOnly(contentList', u) /\ AllFor(mainQ', u) /\ (net' # Idle => net'.user = u)
  BY <1>5, <1>12 DEF HistoryArrived, u
<1>13. ASSUME NEW r \in requests, HistoryFailed(r)
       PROVE  ShowsOnly(contentList', u) /\ AllFor(mainQ', u) /\ (net' # Idle => net'.user = u)
  BY <1>5, <1>7, <1>8, <1>13, BlockTypes DEF HistoryFailed
<1>14. ASSUME NEW v \in lookups, FriendListArrived(v)
       PROVE  ShowsOnly(contentList', u) /\ AllFor(mainQ', u) /\ (net' # Idle => net'.user = u)
  <2>1. contentList' = contentList /\ net' = net
        /\ (mainQ' = mainQ \/ Post([do |-> "open", user |-> v]))
    BY <1>14 DEF FriendListArrived
  <2>2. v \in Users
    BY <1>0 DEF TypeOK
  <2>3. QED
    BY <1>5, <1>7, <2>1, <2>2, BlockTypes
<1>15. CASE SetHistory
  <2>1. net # Idle /\ net' = [net EXCEPT !.at = "merged"]
        /\ contentList' = contentList /\ mainQ' = mainQ
    BY <1>15 DEF SetHistory
  <2>2. net \in Merge
    BY <1>0, <2>1 DEF TypeOK
  <2>3. net'.user = net.user
    BY <2>1, <2>2 DEF Merge
  <2>4. QED
    BY <1>5, <2>1, <2>3
<1>16. CASE TurnPage
  <2>1. /\ net # Idle /\ net' = Idle /\ contentList' = contentList
        /\ Post([do |-> "history", user |-> net.user, msgs |-> net.msgs])
    BY <1>16 DEF TurnPage
  <2>2. net.user \in Users /\ net.msgs \in Seq(Time)
    BY <1>0, <2>1, MergeFields DEF TypeOK
  <2>3. AllFor(mainQ', u)
    BY <1>5, <1>7, <2>1, <2>2, BlockTypes
  <2>4. QED
    BY <1>5, <2>1, <2>3
<1>17. CASE DisplayMsg
  <2>. DEFINE e == [from |-> Head(mainQ).user, msg |-> Head(mainQ).msg]
  <2>1. /\ mainQ # <<>> /\ Head(mainQ).do = "display" /\ mainQ' = Tail(mainQ)
        /\ contentList' = Append(contentList, e) /\ net' = net
    BY <1>17 DEF DisplayMsg
  <2>2. Head(mainQ).user = u
    BY <1>0, <1>5, <2>1, FirstOf DEF AllFor
  <2>3. e \in Shown
    BY <1>0, <2>1, NextMain, BlockFields DEF Shown
  <2>4. e.from = u
    BY <2>2
  <2>. HIDE DEF e
  <2>5. ShowsOnly(contentList', u)
    <3>1. ASSUME NEW i \in DOMAIN Append(contentList, e)
          PROVE  Append(contentList, e)[i].from = u
      <4>1. CASE i = Len(contentList) + 1
        BY <1>0, <2>3, <2>4, <4>1, AppendOf
      <4>2. CASE i # Len(contentList) + 1
        BY <1>0, <1>5, <2>3, <4>2, AppendOf DEF ShowsOnly
      <4>3. QED
        BY <4>1, <4>2
    <3>2. QED
      BY <2>1, <3>1 DEF ShowsOnly
  <2>6. AllFor(mainQ', u)
    BY <1>0, <1>5, <2>1, AllForTail
  <2>7. QED
    BY <1>5, <2>1, <2>5, <2>6
<1>18. CASE ShowHistory
  <2>1. /\ mainQ # <<>> /\ Head(mainQ).do = "history" /\ mainQ' = Tail(mainQ)
        /\ contentList' = ShownAs(Head(mainQ).user, Head(mainQ).msgs) /\ net' = net
    BY <1>18 DEF ShowHistory
  <2>2. Head(mainQ).user = u
    BY <1>0, <1>5, <2>1, FirstOf DEF AllFor
  <2>3. Head(mainQ).user \in Users /\ Head(mainQ).msgs \in Seq(Time)
    BY <1>0, <2>1, NextMain, BlockFields
  <2>4. ShowsOnly(contentList', u)
    BY <2>1, <2>2, <2>3, ShownType DEF ShowsOnly
  <2>5. AllFor(mainQ', u)
    BY <1>0, <1>5, <2>1, AllForTail
  <2>6. QED
    BY <1>5, <2>1, <2>4, <2>5
<1>19. CASE InsertNothing
  <2>1. /\ mainQ # <<>> /\ mainQ' = Tail(mainQ) /\ contentList' = contentList /\ net' = net
    BY <1>19 DEF InsertNothing
  <2>2. AllFor(mainQ', u)
    BY <1>0, <1>5, <2>1, AllForTail
  <2>3. QED
    BY <1>5, <2>1, <2>2
<1>20. CASE UNCHANGED <<contentList, mainQ, net>>
  BY <1>5, <1>20
<1>21. (\/ InvitePrivacyChat \/ ClosePrivacyMode
        \/ (\E v \in Users, pushed \in BOOLEAN : FriendWrites(v, pushed))
        \/ AppendHistory \/ LookUp \/ Login \/ ReleaseHistory
        \/ (\E r \in requests : Serve(r)) \/ UNCHANGED vars) => UNCHANGED <<contentList, mainQ, net>>
  BY DEF InvitePrivacyChat, ClosePrivacyMode, FriendWrites, AppendHistory, LookUp, Login,
         ReleaseHistory, Serve, vars
<1>22. (\E v \in Users : Select(v)) \/ OpenNewOne \/ RemoveTarget
       => \/ ShowsOnly(contentList', u) /\ AllFor(mainQ', u) /\ (net' # Idle => net'.user = u)
  BY <1>2, <1>3, <1>4 DEF ListInv, AllFor, ShowsOnly, u
<1>23. QED
  BY <1>9, <1>10, <1>11, <1>12, <1>13, <1>14, <1>15, <1>16, <1>17, <1>18, <1>19, <1>20, <1>21, <1>22
     DEF Next, User, Net, MainBlock

(* What ChatHistoryView lists is of the open chat, unless the chat was     *)
(* changed past the one comparison of the target.                          *)
THEOREM ListFollowsTarget == Spec => []ListIsOfTarget
<1>1. Init => TypeInv /\ ListInv
  BY TypeInit, ListInit
<1>2. TypeInv /\ ListInv /\ [Next]_vars => TypeInv' /\ ListInv'
  BY TypeStep, ListStep
<1>3. ListInv => ListIsOfTarget
  BY DEF ListInv, ListIsOfTarget
<1>4. QED
  BY <1>1, <1>2, <1>3, PTL DEF Spec

-----------------------------------------------------------------------------
(* The cached backlog                                                      *)

(* The messages of the backlog in a sequence, whether they are in order,   *)
(* and whether they are a range.                                           *)
Old(c)     == {v \in 1..Backlog : Contains(c, v)}
Ordered(c) == \A i, j \in DOMAIN c : i < j /\ c[i] <= Backlog /\ c[j] <= Backlog => c[i] < c[j]
Filled(c)  == \A v, w \in Old(c) : v..w \subseteq Old(c)
Sound(c)   == Ordered(c) /\ Filled(c)

(* The backlog in a sequence begins no later than after place n: nothing   *)
(* is missing between it and what ends at n.                               *)
Reaches(c, n) == Old(c) # {} => \E v \in Old(c) : v <= n + 1

(* A sequence is the part of a chat from place a to place n.               *)
Slice(t, a, n) ==
    /\ a \in Nat \ {0} /\ n \in Int
    /\ \A i \in DOMAIN t : /\ a + i - 1 <= n
                           /\ a + i - 1 <= Backlog => t[i] = a + i - 1
                           /\ a + i - 1 > Backlog => t[i] > Backlog
    /\ \A v \in a..n : v - a + 1 \in DOMAIN t

(* The record of each chat begins with the backlog, and what comes after   *)
(* it is newer, wherever it is.                                            *)
LogsOK ==
    \A u \in Users : /\ clock[u] >= Backlog /\ Len(log[u]) >= Backlog
                     /\ \A i \in DOMAIN log[u] : /\ i <= Backlog => log[u][i] = i
                                                 /\ i > Backlog => log[u][i] > Backlog

NewsOK ==
    /\ \A i \in DOMAIN pushQ : pushQ[i].msg > Backlog
    /\ \A i \in DOMAIN bgQ : bgQ[i].do = "append" => bgQ[i].msg > Backlog

(* The number p of the next page fits what is cached in c.                 *)
Follows(c, len, p) == p # 0 => Reaches(c, LastPlace(len, p))

(* What a request of u will bring, or has brought, fits what is cached.    *)
Fits(r, c, len) ==
    /\ Follows(c, len, r.page)
    /\ r.reply.ok =>
          \E a \in Nat, n \in Int :
             /\ Slice(r.reply.msgs, a, n) /\ Reaches(c, n)
             /\ r.reply.next # 0 => LastPlace(len, r.reply.next) >= a - 1

Merging(u) == net # Idle /\ net.user = u

(* A friend's only request, while none of its pages is merged, fits its    *)
(* cache; the cache the merge writes is sound and fits the page after it;  *)
(* and so does the cache of the open chat the page to be asked for.        *)
RequestsOK(u) ==
    \A r \in requests : r.user = u =>
        /\ ~ Merging(u)
        /\ \A q \in requests : q.user = u => q = r
        /\ Fits(r, msgHistory[u], Len(log[u]))

MergeOK(u) ==
    /\ Merging(u) /\ net.at = "merge" => Sound(net.msgs) /\ Follows(net.msgs, Len(log[u]), net.next)
    /\ Merging(u) /\ net.at = "merged" => Follows(msgHistory[u], Len(log[u]), net.next)

TargetOK(u) ==
    u = targetUser =>
        /\ net = Idle => Follows(msgHistory[u], Len(log[u]), nextHistoryPage)
        /\ net # Idle /\ net.user # u => Old(msgHistory[u]) = {}

PagesOK(u) == Sound(msgHistory[u]) /\ RequestsOK(u) /\ MergeOK(u) /\ TargetOK(u)

PagesInv == LogsOK /\ NewsOK /\ \A u \in Users \ repaged : PagesOK(u)

LEMMA LastPlaceIs ==
    ASSUME NEW len \in Nat, NEW p \in Nat \ {0}
    PROVE  /\ LastPlace(len, p) \in Int
           /\ \A more \in Nat : more >= len => LastPlace(more, p) >= LastPlace(len, p)
           /\ LastPlace(len, p + 1) = LastPlace(len, p) - PageSize
<1>1. PageSize \in Nat
  BY PagesAssumption
<1>2. PICK q \in Nat : q = (p - 1) * PageSize
  <2>1. p - 1 \in Nat
    OBVIOUS
  <2>2. QED
    BY <1>1, <2>1
<1>3. ((p + 1) - 1) * PageSize = q + PageSize
  BY <1>1, <1>2
<1>4. /\ LastPlace(len, p) = len - q
      /\ \A more \in Nat : LastPlace(more, p) = more - q
  BY <1>2 DEF LastPlace
<1>5. LastPlace(len, p + 1) = len - (q + PageSize)
  BY <1>3 DEF LastPlace
<1>6. QED
  BY <1>1, <1>2, <1>4, <1>5

LEMMA OldIs ==
    ASSUME NEW c \in Seq(Time)
    PROVE  /\ \A v : v \in Old(c) <=> v \in 1..Backlog /\ \E i \in DOMAIN c : c[i] = v
           /\ \A i \in DOMAIN c : c[i] \in Nat \ {0} /\ i \in Nat \ {0}
           /\ \A i \in DOMAIN c : c[i] <= Backlog => c[i] \in Old(c)
<1>1. \A i \in DOMAIN c : c[i] \in Nat \ {0} /\ i \in Nat \ {0}
  BY Bounds DEF Time
<1>2. \A v : v \in Old(c) <=> v \in 1..Backlog /\ \E i \in DOMAIN c : c[i] = v
  BY ContainsIs DEF Old
<1>3. QED
  BY <1>1, <1>2, Bounds

LEMMA OldEmpty == Old(<<>>) = {} /\ Sound(<<>>)
<1>1. <<>> \in Seq(Time) /\ DOMAIN <<>> = {}
  BY EmptyOf
<1>2. Old(<<>>) = {}
  BY <1>1, OldIs
<1>3. QED
  BY <1>1, <1>2 DEF Sound, Ordered, Filled

(* A new message changes nothing of the backlog cached.                    *)
LEMMA OldAppend ==
    ASSUME NEW c \in Seq(Time), NEW m \in Time, m > Backlog
    PROVE  Old(Append(c, m)) = Old(c) /\ (Sound(c) => Sound(Append(c, m)))
<1>0. Backlog \in Nat /\ m \in Nat
  BY Bounds DEF Time
<1>1. ASSUME NEW v
      PROVE  v \in Old(Append(c, m)) <=> v \in Old(c)
  <2>1. Contains(Append(c, m), v) <=> Contains(c, v) \/ v = m
    BY ContainsAppend
  <2>2. v \in 1..Backlog => v # m
    BY <1>0
  <2>3. QED
    BY <2>1, <2>2 DEF Old
<1>2. Old(Append(c, m)) = Old(c)
  BY <1>1
<1>3. ASSUME Ordered(c)
      PROVE  Ordered(Append(c, m))
  <2>. SUFFICES ASSUME NEW i \in DOMAIN Append(c, m), NEW j \in DOMAIN Append(c, m), i < j,
                       Append(c, m)[i] <= Backlog, Append(c, m)[j] <= Backlog
                PROVE  Append(c, m)[i] < Append(c, m)[j]
    BY DEF Ordered
  <2>1. i # Len(c) + 1 /\ j # Len(c) + 1
    BY <1>0, AppendOf
  <2>2. i \in DOMAIN c /\ j \in DOMAIN c /\ Append(c, m)[i] = c[i] /\ Append(c, m)[j] = c[j]
    BY <2>1, AppendOf
  <2>3. QED
    BY <1>3, <2>2 DEF Ordered
<1>4. QED
  BY <1>2, <1>3 DEF Sound, Filled

(* The backlog in a part of a chat.                                        *)
LEMMA SliceOld ==
    ASSUME NEW t \in Seq(Time), NEW a, NEW n, Slice(t, a, n)
    PROVE  /\ a \in Nat \ {0} /\ n \in Int
           /\ \A i \in DOMAIN t : t[i] <= Backlog => t[i] = a + i - 1 /\ t[i] <= n /\ t[i] >= a
           /\ \A v \in Int : v \in Old(t) <=> v <= Backlog /\ a <= v /\ v <= n
           /\ Ordered(t)
<1>0. a \in Nat \ {0} /\ n \in Int /\ Backlog \in Nat
  BY Bounds DEF Slice
<1>1. \A i \in DOMAIN t : i \in Nat \ {0} /\ t[i] \in Nat \ {0}
  BY OldIs
<1>2. ASSUME NEW i \in DOMAIN t, t[i] <= Backlog
      PROVE  t[i] = a + i - 1 /\ t[i] <= n /\ t[i] >= a
  <2>1. ~ (t[i] > Backlog)
    BY <1>0, <1>1, <1>2
  <2>2. a + i - 1 <= Backlog
    BY <1>0, <1>1, <2>1 DEF Slice
  <2>3. t[i] = a + i - 1 /\ a + i - 1 <= n
    BY <2>2 DEF Slice
  <2>4. QED
    BY <1>0, <1>1, <2>3
<1>3. ASSUME NEW v \in Int, v <= Backlog, a <= v, v <= n
      PROVE  v \in Old(t)
  <2>1. v \in a..n
    BY <1>0, <1>3
  <2>2. v - a + 1 \in DOMAIN t /\ a + (v - a + 1) - 1 = v
    BY <1>0, <2>1 DEF Slice
  <2>3. t[v - a + 1] = v
    BY <1>3, <2>2 DEF Slice
  <2>4. v \in 1..Backlog
    BY <1>0, <1>3
  <2>5. QED
    BY <2>2, <2>3, <2>4, OldIs
<1>4. ASSUME NEW v \in Int, v \in Old(t)
      PROVE  v <= Backlog /\ a <= v /\ v <= n
  <2>1. v \in 1..Backlog /\ \E i \in DOMAIN t : t[i] = v
    BY <1>4, OldIs
  <2>2. PICK i \in DOMAIN t : t[i] = v
    BY <2>1
  <2>3. v <= Backlog
    BY <1>0, <2>1
  <2>4. t[i] <= n /\ t[i] >= a
    BY <1>2, <2>2, <2>3
  <2>5. QED
    BY <1>0, <2>2, <2>3, <2>4
<1>5. Ordered(t)
  <2>. SUFFICES ASSUME NEW i \in DOMAIN t, NEW j \in DOMAIN t, i < j,
                       t[i] <= Backlog, t[j] <= Backlog
                PROVE  t[i] < t[j]
    BY DEF Ordered
  <2>1. t[i] = a + i - 1 /\ t[j] = a + j - 1
    BY <1>2
  <2>2. QED
    BY <1>0, <1>1, <2>1
<1>6. QED
  BY <1>0, <1>2, <1>3, <1>4, <1>5

(* The merge: a page that ends no earlier than before the backlog cached   *)
(* and begins no later than it leaves it in order and without a hole.      *)
LEMMA MergeSound ==
    ASSUME NEW s \in Seq(Time), NEW t \in Seq(Time), NEW a, NEW n,
           Sound(s), Slice(t, a, n), Reaches(s, n), ~ Overtaken(s, t)
    PROVE  Sound(Merged(s, t)) /\ Reaches(Merged(s, t), a - 1)
<1>. DEFINE ts == t \o s
            c == Merged(s, t)
<1>0. a \in Nat \ {0} /\ n \in Int /\ Backlog \in Nat /\ c \in Seq(Time)
  BY SliceOld, Bounds, MergedType
<1>1. /\ \A i \in DOMAIN t : t[i] <= Backlog => t[i] = a + i - 1 /\ t[i] <= n /\ t[i] >= a
      /\ \A v \in Int : v \in Old(t) <=> v <= Backlog /\ a <= v /\ v <= n
      /\ Ordered(t)
  BY SliceOld
<1>2. \A v : v \in Old(c) <=> v \in Old(s) \/ v \in Old(t)
  <2>1. \A v : Contains(c, v) <=> Contains(s, v) \/ Contains(t, v)
    BY MergedHolds
  <2>. HIDE DEF c
  <2>2. QED
    BY <2>1 DEF Old
<1>3. ASSUME NEW v \in Old(s)
      PROVE  a <= v /\ a \in Old(t)
  <2>1. v \in 1..Backlog
    BY DEF Old
  <2>2. PICK i \in DOMAIN s : s[i] = v
    BY OldIs
  <2>3. PICK j \in DOMAIN t : ~ (t[j] > v)
    BY <1>0, <2>1, <2>2 DEF Overtaken
  <2>4. t[j] \in Nat
    BY OldIs
  <2>5. t[j] <= Backlog /\ t[j] <= v
    BY <1>0, <2>1, <2>3, <2>4
  <2>6. t[j] <= n /\ t[j] >= a
    BY <1>1, <2>5
  <2>7. a <= v /\ a <= Backlog /\ a <= a /\ a <= n
    BY <1>0, <2>1, <2>4, <2>5, <2>6
  <2>8. QED
    BY <1>0, <1>1, <2>7
<1>4. \A v \in Old(c) : v \in Int /\ v <= Backlog /\ a <= v /\ a \in Old(c)
  <2>1. ASSUME NEW v \in Old(t)
        PROVE  v \in Int /\ v <= Backlog /\ a <= v /\ a \in Old(t)
    <3>1. v \in Int /\ v <= Backlog
      BY <1>0 DEF Old
    <3>2. a <= v /\ v <= n
      BY <1>1, <3>1
    <3>3. a <= Backlog /\ a <= a /\ a <= n
      BY <1>0, <3>1, <3>2
    <3>4. QED
      BY <1>0, <1>1, <3>1, <3>2, <3>3
  <2>2. ASSUME NEW v \in Old(s)
        PROVE  v \in Int /\ v <= Backlog
    BY <1>0 DEF Old
  <2>. HIDE DEF c
  <2>3. QED
    BY <1>2, <1>3, <2>1, <2>2
<1>5. Reaches(c, a - 1)
  <2>. HIDE DEF c
  <2>1. a <= (a - 1) + 1
    BY <1>0
  <2>2. QED
    BY <1>4, <2>1 DEF Reaches
<1>6. Filled(c)
  <2>. SUFFICES ASSUME NEW v \in Old(c), NEW w \in Old(c), NEW x \in v..w
                PROVE  x \in Old(c)
    BY DEF Filled
  <2>1. v \in Int /\ w \in Int /\ a <= v /\ w <= Backlog
    BY <1>4
  <2>2. x \in Int /\ a <= x /\ x <= w /\ x <= Backlog
    BY <1>0, <2>1
  <2>3. CASE x <= n
    <3>1. x \in Old(t)
      BY <1>1, <2>2, <2>3
    <3>2. QED
      BY <1>2, <3>1
  <2>4. CASE x > n
    <3>1. w > n
      BY <1>0, <2>1, <2>2, <2>4
    <3>2. w \notin Old(t)
      BY <1>0, <1>1, <2>1, <3>1
    <3>3. w \in Old(s)
      BY <1>2, <3>2
    <3>4. PICK z \in Old(s) : z <= n + 1
      BY <3>3 DEF Reaches
    <3>5. z \in Int
      BY DEF Old
    <3>6. x \in z..w
      BY <1>0, <2>1, <2>2, <2>4, <3>4, <3>5
    <3>7. x \in Old(s)
      BY <3>3, <3>6 DEF Sound, Filled
    <3>8. QED
      BY <1>2, <3>7
  <2>5. QED
    BY <1>0, <2>2, <2>3, <2>4
<1>7. Ordered(c)
  <2>1. /\ ts \in Seq(Time) /\ DOMAIN ts = 1..(Len(t) + Len(s)) /\ DOMAIN t = 1..Len(t)
        /\ DOMAIN s = 1..Len(s) /\ Len(t) \in Nat /\ Len(s) \in Nat
        /\ \A i \in 1..Len(t) : ts[i] = t[i]
        /\ \A i \in 1..Len(s) : ts[Len(t) + i] = s[i]
    BY ConcatOf
  <2>2. c = Unique(ts)
    BY DEF Merged
  <2>. HIDE DEF ts, c
  <2>11. \E g \in [DOMAIN Unique(ts) -> Firsts(ts)] :
            /\ \A k \in DOMAIN Unique(ts) : Unique(ts)[k] = ts[g[k]]
            /\ \A k, l \in DOMAIN Unique(ts) : k < l => g[k] < g[l]
    <3>1. ts \in Seq(Time)
      BY <2>1
    <3>2. QED
      BY <3>1, UniqueIs
  <2>3. PICK g \in [DOMAIN c -> Firsts(ts)] :
            /\ \A k \in DOMAIN c : c[k] = ts[g[k]]
            /\ \A k, l \in DOMAIN c : k < l => g[k] < g[l]
    BY <2>2, <2>11, Zenon
  <2>. SUFFICES ASSUME NEW k \in DOMAIN c, NEW l \in DOMAIN c, k < l,
                       c[k] <= Backlog, c[l] <= Backlog
                PROVE  c[k] < c[l]
    BY DEF Ordered
  <2>4. /\ g[k] \in Firsts(ts) /\ g[l] \in Firsts(ts) /\ g[k] < g[l]
        /\ c[k] = ts[g[k]] /\ c[l] = ts[g[l]]
    BY <2>3
  <2>5. /\ g[k] \in 1..(Len(t) + Len(s)) /\ g[l] \in 1..(Len(t) + Len(s))
        /\ \A j \in 1..(Len(t) + Len(s)) : j < g[l] => ts[j] # ts[g[l]]
    BY <2>1, <2>4 DEF Firsts
  <2>6. c[k] \in Old(c) /\ c[l] \in Old(c) /\ c[k] \in Nat /\ c[l] \in Nat
    BY <1>0, OldIs
  <2>7. CASE g[l] <= Len(t)
    <3>1. g[k] \in 1..Len(t) /\ g[l] \in 1..Len(t)
      BY <2>1, <2>4, <2>5, <2>7
    <3>2. c[k] = t[g[k]] /\ c[l] = t[g[l]]
      BY <2>1, <2>4, <3>1
    <3>3. QED
      BY <1>1, <2>1, <2>4, <3>1, <3>2 DEF Ordered
  <2>8. CASE g[l] > Len(t) /\ g[k] > Len(t)
    <3>. DEFINE i == g[k] - Len(t)
                j == g[l] - Len(t)
    <3>1. i \in 1..Len(s) /\ j \in 1..Len(s) /\ i < j /\ Len(t) + i = g[k] /\ Len(t) + j = g[l]
      BY <2>1, <2>4, <2>5, <2>8
    <3>2. c[k] = s[i] /\ c[l] = s[j]
      BY <2>1, <2>4, <3>1
    <3>. HIDE DEF i, j
    <3>3. QED
      BY <2>1, <3>1, <3>2 DEF Sound, Ordered
  <2>9. CASE g[l] > Len(t) /\ g[k] <= Len(t)
    <3>1. g[k] \in 1..Len(t)
      BY <2>1, <2>5, <2>9
    <3>2. c[k] = t[g[k]]
      BY <2>1, <2>4, <3>1
    <3>3. c[k] <= n
      BY <1>1, <2>1, <3>1, <3>2
    <3>4. c[l] \notin Old(t)
      <4>1. \A j \in 1..Len(t) : t[j] # c[l]
        <5>1. \A j \in 1..Len(t) : j \in 1..(Len(t) + Len(s)) /\ j < g[l]
          BY <2>1, <2>5, <2>9
        <5>2. QED
          BY <2>1, <2>4, <2>5, <5>1
      <4>2. QED
        BY <2>1, <4>1, OldIs
    <3>5. a <= c[l]
      BY <1>4, <2>6
    <3>6. c[l] > n
      BY <1>0, <1>1, <2>6, <3>4, <3>5
    <3>7. QED
      BY <1>0, <2>6, <3>3, <3>6
  <2>10. QED
    BY <2>1, <2>5, <2>7, <2>8, <2>9
<1>8. QED
  BY <1>5, <1>6, <1>7 DEF Sound

(* A sound sequence is what BacklogIsARange asks of a cache.               *)
LEMMA SoundIsRange ==
    ASSUME NEW c \in Seq(Time), Sound(c), NEW i \in DOMAIN c, NEW j \in DOMAIN c,
           i < j, c[i] <= Backlog, c[j] <= Backlog,
           \A k \in DOMAIN c : i < k /\ k < j => c[k] > Backlog
    PROVE  c[j] = c[i] + 1
<1>0. Backlog \in Nat /\ \A k \in DOMAIN c : c[k] \in Nat \ {0} /\ k \in Nat \ {0}
  BY Bounds, OldIs
<1>1. c[i] < c[j] /\ c[i] \in Old(c) /\ c[j] \in Old(c)
  BY OldIs DEF Sound, Ordered
<1>2. ASSUME c[j] # c[i] + 1
      PROVE  FALSE
  <2>1. c[i] + 1 \in c[i]..c[j] /\ c[i] + 1 <= Backlog /\ c[i] + 1 < c[j]
    BY <1>0, <1>1, <1>2
  <2>2. c[i] + 1 \in Old(c)
    BY <1>1, <2>1 DEF Sound, Filled
  <2>3. PICK k \in DOMAIN c : c[k] = c[i] + 1
    BY <2>2, OldIs
  <2>4. c[k] <= Backlog /\ ~ (c[k] > Backlog) /\ ~ (c[k] < c[i]) /\ ~ (c[j] < c[k])
        /\ c[k] # c[i] /\ c[k] # c[j]
    <3>1. \A x, y, z : x \in Nat /\ y \in Nat /\ z = x + 1 /\ z <= Backlog /\ z < y =>
             z <= Backlog /\ ~ (z > Backlog) /\ ~ (z < x) /\ ~ (y < z) /\ z # x /\ z # y
      BY <1>0
    <3>2. c[i] \in Nat /\ c[j] \in Nat
      BY <1>0
    <3>3. c[k] <= Backlog /\ c[k] < c[j]
      BY <2>1, <2>3, Zenon
    <3>4. QED
      BY <2>3, <3>1, <3>2, <3>3, Zenon
  <2>5. ~ (k < i) /\ ~ (j < k)
    BY <2>4 DEF Sound, Ordered
  <2>6. k # i /\ k # j
    BY <2>4
  <2>7. i < k /\ k < j
    <3>1. i \in Nat /\ j \in Nat /\ k \in Nat
      BY <1>0
    <3>2. QED
      BY <2>5, <2>6, <3>1
  <2>8. QED
    BY <2>4, <2>7
<1>3. QED
  BY <1>2

-----------------------------------------------------------------------------
(* What is cached keeps fitting the pages                                  *)

LEMMA PagesTypes ==
    ASSUME TypeOK
    PROVE  /\ msgHistory \in [Users -> Seq(Time)] /\ \A u \in Users : msgHistory[u] \in Seq(Time)
           /\ \A u \in Users : log[u] \in Seq(Time) /\ Len(log[u]) \in Nat
           /\ \A r \in requests : r \in Request /\ r.user \in Users /\ r.page \in Nat \ {0}
           /\ repaged \subseteq Users
           /\ net # Idle => /\ net \in Merge /\ net.user \in Users /\ net.msgs \in Seq(Time)
                            /\ net.next \in Nat /\ net.at \in {"merge", "merged"}
           /\ nextHistoryPage \in Nat /\ (targetUser \in Users \/ targetUser = None)
<1>1. net # Idle => net \in Merge
  BY DEF TypeOK
<1>2. net # Idle => /\ net.user \in Users /\ net.msgs \in Seq(Time)
                    /\ net.next \in Nat /\ net.at \in {"merge", "merged"}
  BY <1>1, MergeFields
<1>3. \A r \in requests : r \in Request /\ r.user \in Users /\ r.page \in Nat \ {0}
  BY RequestFields DEF TypeOK
<1>4. /\ msgHistory \in [Users -> Seq(Time)] /\ \A u \in Users : msgHistory[u] \in Seq(Time)
      /\ \A u \in Users : log[u] \in Seq(Time) /\ Len(log[u]) \in Nat
      /\ repaged \subseteq Users /\ nextHistoryPage \in Nat
      /\ (targetUser \in Users \/ targetUser = None)
  BY DEF TypeOK
<1>5. QED
  BY <1>1, <1>2, <1>3, <1>4

(* New messages move the pages towards the newer ones, never away from     *)
(* what is cached; a cache that was emptied, or to which new messages were *)
(* appended, fits as it did.                                               *)
LEMMA FollowsKept ==
    ASSUME NEW c, NEW d, Old(d) = Old(c) \/ Old(d) = {}, NEW p \in Nat,
           NEW len \in Nat, NEW more \in Nat, more >= len, Follows(c, len, p)
    PROVE  Follows(d, more, p)
<1>. SUFFICES ASSUME p # 0, Old(d) # {}
              PROVE  \E v \in Old(d) : v <= LastPlace(more, p) + 1
  BY DEF Follows, Reaches
<1>1. p \in Nat \ {0}
  OBVIOUS
<1>2. /\ LastPlace(len, p) \in Int /\ LastPlace(more, p) \in Int
      /\ LastPlace(more, p) >= LastPlace(len, p)
  BY <1>1, LastPlaceIs
<1>3. PICK v \in Old(c) : v <= LastPlace(len, p) + 1
  BY DEF Follows, Reaches
<1>4. v \in Int
  BY DEF Old
<1>5. v <= LastPlace(more, p) + 1
  BY <1>2, <1>3, <1>4
<1>6. QED
  BY <1>3, <1>5

LEMMA FitsKept ==
    ASSUME NEW c, NEW d, Old(d) = Old(c) \/ Old(d) = {}, NEW r \in Request,
           NEW len \in Nat, NEW more \in Nat, more >= len, Fits(r, c, len)
    PROVE  Fits(r, d, more)
<1>0. r.page \in Nat \ {0} /\ r.reply.next \in Nat
  BY RequestFields
<1>1. Follows(d, more, r.page)
  BY <1>0, FollowsKept DEF Fits
<1>2. ASSUME r.reply.ok
      PROVE  \E a \in Nat, n \in Int :
                /\ Slice(r.reply.msgs, a, n) /\ Reaches(d, n)
                /\ r.reply.next # 0 => LastPlace(more, r.reply.next) >= a - 1
  <2>1. PICK a \in Nat, n \in Int :
            /\ Slice(r.reply.msgs, a, n) /\ Reaches(c, n)
            /\ r.reply.next # 0 => LastPlace(len, r.reply.next) >= a - 1
    BY <1>2 DEF Fits
  <2>2. Reaches(d, n)
    BY <2>1 DEF Reaches
  <2>3. ASSUME r.reply.next # 0
        PROVE  LastPlace(more, r.reply.next) >= a - 1
    <3>1. /\ LastPlace(len, r.reply.next) \in Int /\ LastPlace(more, r.reply.next) \in Int
          /\ LastPlace(more, r.reply.next) >= LastPlace(len, r.reply.next)
      BY <1>0, <2>3, LastPlaceIs
    <3>2. LastPlace(len, r.reply.next) >= a - 1
      BY <2>1, <2>3
    <3>3. QED
      BY <3>1, <3>2
  <2>4. QED
    BY <2>1, <2>2, <2>3
<1>3. QED
  BY <1>1, <1>2 DEF Fits

LEMMA FollowsEmpty ==
    ASSUME NEW c, Old(c) = {}, NEW len, NEW p
    PROVE  Follows(c, len, p)
BY DEF Follows, Reaches

(* A step that at most empties the cache of u or appends new messages to   *)
(* it, adds to the chat and takes requests away.                           *)
LEMMA PagesKept ==
    ASSUME TypeOK, TypeOK', NEW u \in Users, PagesOK(u), Sound(msgHistory'[u]),
           Old(msgHistory'[u]) = Old(msgHistory[u]) \/ Old(msgHistory'[u]) = {},
           Len(log'[u]) >= Len(log[u]), requests' \subseteq requests,
           UNCHANGED <<net, targetUser, nextHistoryPage>>
    PROVE  PagesOK(u)'
<1>. DEFINE c == msgHistory[u]
            d == msgHistory'[u]
            len == Len(log[u])
            more == Len(log'[u])
<1>0. /\ len \in Nat /\ more \in Nat /\ more >= len
      /\ \A r \in requests : r \in Request
      /\ net # Idle => net.next \in Nat
      /\ nextHistoryPage \in Nat
      /\ Old(d) = Old(c) \/ Old(d) = {}
      /\ Sound(d)
      /\ net' = net /\ targetUser' = targetUser /\ nextHistoryPage' = nextHistoryPage
      /\ requests' \subseteq requests
  <2>1. /\ log[u] \in Seq(Time) /\ log'[u] \in Seq(Time) /\ nextHistoryPage \in Nat
        /\ Sound(d) /\ (Old(d) = Old(c) \/ Old(d) = {}) /\ more >= len
        /\ net' = net /\ targetUser' = targetUser /\ nextHistoryPage' = nextHistoryPage
        /\ requests' \subseteq requests
    BY DEF TypeOK
  <2>2. len \in Nat /\ more \in Nat
    BY <2>1
  <2>3. (\A r \in requests : r \in Request) /\ (net # Idle => net.next \in Nat)
    BY PagesTypes
  <2>4. QED
    BY <2>1, <2>2, <2>3
<1>1. /\ \A p \in Nat : Follows(c, len, p) => Follows(d, more, p)
      /\ \A p \in Nat : \A s : Follows(s, len, p) => Follows(s, more, p)
      /\ \A r \in requests : Fits(r, c, len) => Fits(r, d, more)
  <2>. HIDE DEF c, d, len, more
  <2>1. QED
    BY <1>0, FollowsKept, FitsKept
<1>2. RequestsOK(u)'
  <2>1. \A r \in requests : r.user = u =>
           /\ ~ Merging(u)
           /\ \A q \in requests : q.user = u => q = r
           /\ Fits(r, c, len)
    BY DEF PagesOK, RequestsOK
  <2>2. Merging(u)' <=> Merging(u)
    BY <1>0 DEF Merging
  <2>. HIDE DEF c, len
  <2>3. \A r \in requests' : r.user = u =>
           /\ ~ Merging(u)'
           /\ \A q \in requests' : q.user = u => q = r
           /\ Fits(r, d, more)
    BY <1>0, <1>1, <2>1, <2>2
  <2>4. QED
    BY <2>3 DEF RequestsOK
<1>3. MergeOK(u)'
  <2>1. /\ Merging(u) /\ net.at = "merge" => Sound(net.msgs) /\ Follows(net.msgs, len, net.next)
        /\ Merging(u) /\ net.at = "merged" => Follows(c, len, net.next)
    BY DEF PagesOK, MergeOK
  <2>2. Merging(u)' <=> Merging(u)
    BY <1>0 DEF Merging
  <2>3. Merging(u) => net # Idle
    BY DEF Merging
  <2>. HIDE DEF c, len
  <2>4. /\ Merging(u)' /\ net.at = "merge" => Sound(net.msgs) /\ Follows(net.msgs, more, net.next)
        /\ Merging(u)' /\ net.at = "merged" => Follows(d, more, net.next)
    BY <1>0, <1>1, <2>1, <2>2, <2>3
  <2>5. QED
    BY <1>0, <2>4 DEF MergeOK
<1>4. TargetOK(u)'
  <2>1. u = targetUser => /\ net = Idle => Follows(c, len, nextHistoryPage)
                          /\ net # Idle /\ net.user # u => Old(c) = {}
    BY DEF PagesOK, TargetOK
  <2>. HIDE DEF c, len
  <2>2. u = targetUser => /\ net = Idle => Follows(d, more, nextHistoryPage)
                          /\ net # Idle /\ net.user # u => Old(d) = {}
    BY <1>0, <1>1, <2>1
  <2>3. QED
    BY <1>0, <2>2 DEF TargetOK
<1>5. QED
  BY <1>0, <1>2, <1>3, <1>4 DEF PagesOK

(* Asking for a page of u, when none is on its way or merged already.      *)
LEMMA AskPages ==
    ASSUME TypeOK, NEW u \in Users, u \notin repaged', NEW p \in Nat \ {0}, Ask(u, p),
           RequestsOK(u), Follows(msgHistory[u], Len(log[u]), p),
           UNCHANGED <<msgHistory, log, net>>
    PROVE  u \notin repaged /\ ~ Merging(u) /\ RequestsOK(u)' /\ MergeOK(u)'
<1>. DEFINE q == [id |-> asks + 1, user |-> u, page |-> p, reply |-> Failed]
<1>1. u \notin repaged /\ ~ Loading(u)
  BY DEF Ask
<1>2. ~ Merging(u) /\ \A r \in requests : r.user # u
  BY <1>1 DEF Loading, Merging
<1>3. requests' = requests \cup {q}
  BY DEF Ask
<1>4. q.user = u /\ q.page = p /\ ~ q.reply.ok
  BY DEF Failed
<1>. HIDE DEF q
<1>5. Fits(q, msgHistory[u], Len(log[u]))
  BY <1>4 DEF Fits
<1>6. ~ Merging(u)'
  BY <1>2 DEF Merging
<1>7. RequestsOK(u)'
  BY <1>2, <1>3, <1>5, <1>6 DEF RequestsOK
<1>8. MergeOK(u)'
  BY <1>6 DEF MergeOK
<1>9. QED
  BY <1>1, <1>2, <1>7, <1>8

(* Asking for a page of another friend, or choosing another chat.          *)
LEMMA AskOther ==
    ASSUME TypeOK, NEW u \in Users, NEW v \in Users, u # v, PagesOK(v),
           requests' = requests \/ \E p \in Nat : Ask(u, p),
           UNCHANGED <<msgHistory, log, net>>
    PROVE  Sound(msgHistory'[v]) /\ RequestsOK(v)' /\ MergeOK(v)'
<1>1. \A r \in requests' : r.user = v => r \in requests
  BY DEF Ask
<1>2. (Merging(v)' <=> Merging(v)) /\ \A r \in requests : r \in requests'
  BY DEF Merging, Ask
<1>3. RequestsOK(v)'
  BY <1>1, <1>2 DEF PagesOK, RequestsOK
<1>4. MergeOK(v)'
  BY <1>2 DEF PagesOK, MergeOK
<1>5. QED
  BY <1>3, <1>4 DEF PagesOK

LEMMA SetTargetPages ==
    ASSUME TypeOK, NEW u \in Users, SetTarget(u), NEW v \in Users \ repaged', PagesOK(v),
           UNCHANGED <<msgHistory, log, net>>
    PROVE  PagesOK(v)'
<1>1. targetUser' = u
  BY DEF SetTarget
<1>2. CASE v # u
  <2>1. requests' = requests \/ \E p \in Nat : Ask(u, p)
    <3>1. Ask(u, 1) \/ requests' = requests
      BY DEF SetTarget
    <3>2. QED
      BY <3>1
  <2>2. Sound(msgHistory'[v]) /\ RequestsOK(v)' /\ MergeOK(v)'
    BY <1>2, <2>1, AskOther
  <2>3. TargetOK(v)'
    BY <1>1, <1>2 DEF TargetOK
  <2>4. QED
    BY <2>2, <2>3 DEF PagesOK
<1>3. CASE v = u
  <2>1. msgHistory[u] = <<>> /\ Ask(u, 1)
    BY <1>3 DEF SetTarget
  <2>2. Old(msgHistory[u]) = {}
    BY <2>1, OldEmpty
  <2>3. 1 \in Nat \ {0}
    OBVIOUS
  <2>4. RequestsOK(u) /\ Follows(msgHistory[u], Len(log[u]), 1) /\ u \notin repaged'
    BY <1>3, <2>2, FollowsEmpty DEF PagesOK
  <2>5. RequestsOK(u)' /\ MergeOK(u)'
    BY <2>1, <2>3, <2>4, AskPages
  <2>6. TargetOK(u)'
    BY <2>2, FollowsEmpty DEF TargetOK
  <2>7. Sound(msgHistory'[u])
    BY <1>3 DEF PagesOK
  <2>8. QED
    BY <1>3, <2>5, <2>6, <2>7 DEF PagesOK
<1>4. QED
  BY <1>2, <1>3

(* The server answers with the part of the chat the page stands for.       *)
LEMMA ServePages ==
    ASSUME TypeOK, LogsOK, NEW r \in requests, Serve(r), NEW v \in Users, PagesOK(v)
    PROVE  PagesOK(v)'
<1>. DEFINE u == r.user
            len == Len(log[u])
            n == LastPlace(len, r.page)
            a == FirstPlace(n)
            reply == PageOf(u, r.page)
            served == [r EXCEPT !.reply = reply]
<1>0. /\ requests' = (requests \ {r}) \cup {served}
      /\ UNCHANGED <<msgHistory, log, net, targetUser, nextHistoryPage>>
  BY DEF Serve, chat
<1>1. r \in Request /\ u \in Users /\ r.page \in Nat \ {0} /\ len \in Nat
  BY PagesTypes
<1>2. /\ n \in Int /\ n <= len /\ a \in Nat \ {0} /\ a >= n - PageSize + 1
      /\ n > PageSize => a = n - PageSize + 1
      /\ \A i \in a..n : i \in 1..len
      /\ reply.msgs \in Seq(Time)
      /\ Len(reply.msgs) = IF a <= n THEN n - a + 1 ELSE 0
      /\ \A i \in DOMAIN reply.msgs : reply.msgs[i] = log[u][a + i - 1]
      /\ reply.next # 0 => n > PageSize /\ reply.next = r.page + 1
  <2>1. /\ n = LastPlace(Len(log[u]), r.page) /\ a = FirstPlace(n) /\ reply = PageOf(u, r.page)
        /\ len = Len(log[u])
    OBVIOUS
  <2>. HIDE DEF n, a, reply, len, u
  <2>2. /\ n \in Int /\ n <= len /\ a \in Nat \ {0} /\ a >= n - PageSize + 1
        /\ n > PageSize => a = n - PageSize + 1
        /\ \A i \in a..n : i \in 1..len
    BY <1>1, <2>1, PageIs
  <2>3. reply.msgs \in Seq(Time) /\ Len(reply.msgs) = IF a <= n THEN n - a + 1 ELSE 0
    BY <1>1, <2>1, PageIs
  <2>4. \A i \in DOMAIN reply.msgs : reply.msgs[i] = log[u][a + i - 1]
    BY <1>1, <2>1, PageIs
  <2>5. reply.next # 0 => n > PageSize /\ reply.next = r.page + 1
    BY <1>1, <2>1, PageIs
  <2>6. QED
    BY <2>2, <2>3, <2>4, <2>5
<1>3. /\ served.user = u /\ served.page = r.page /\ served.reply = reply
  BY <1>1 DEF Request
<1>4. LastPlace(len, r.page + 1) = n - PageSize
  BY <1>1, LastPlaceIs
<1>. HIDE DEF n, a, reply, served
<1>5. Slice(reply.msgs, a, n)
  <2>1. DOMAIN reply.msgs = 1..Len(reply.msgs)
    BY <1>2
  <2>2. \A i \in DOMAIN reply.msgs : a + i - 1 \in a..n
    BY <1>2, <2>1
  <2>3. \A i \in DOMAIN reply.msgs : a + i - 1 \in DOMAIN log[u]
    <3>1. DOMAIN log[u] = 1..len
      BY <1>1, PagesTypes
    <3>2. QED
      BY <1>2, <2>2, <3>1
  <2>4. \A i \in DOMAIN reply.msgs : /\ a + i - 1 <= n
                                     /\ a + i - 1 <= Backlog => reply.msgs[i] = a + i - 1
                                     /\ a + i - 1 > Backlog => reply.msgs[i] > Backlog
    <3>1. \A i \in DOMAIN log[u] : /\ i <= Backlog => log[u][i] = i
                                   /\ i > Backlog => log[u][i] > Backlog
      BY <1>1 DEF LogsOK
    <3>2. \A i \in DOMAIN reply.msgs : a + i - 1 <= n
      BY <1>2, <2>2
    <3>. HIDE DEF u
    <3>3. QED
      BY <1>2, <2>3, <3>1, <3>2
  <2>5. \A x \in a..n : x - a + 1 \in DOMAIN reply.msgs
    BY <1>2, <2>1
  <2>6. QED
    BY <1>2, <2>4, <2>5 DEF Slice
<1>6. RequestsOK(v)'
  <2>1. CASE v # u
    BY <1>0, <1>3, <2>1 DEF PagesOK, RequestsOK, Merging
  <2>2. CASE v = u
    <3>1. ~ Merging(u) /\ (\A q \in requests : q.user = u => q = r) /\ Fits(r, msgHistory[u], len)
      BY <2>2 DEF PagesOK, RequestsOK
    <3>2. Follows(msgHistory[u], len, r.page) /\ Reaches(msgHistory[u], n)
      BY <1>1, <3>1 DEF Fits, Follows, n
    <3>3. reply.next # 0 => LastPlace(len, reply.next) >= a - 1
      <4>1. ASSUME reply.next # 0
            PROVE  LastPlace(len, reply.next) >= a - 1
        <5>1. reply.next = r.page + 1 /\ a = n - PageSize + 1
          BY <1>2, <4>1
        <5>2. LastPlace(len, reply.next) = n - PageSize
          BY <1>4, <5>1
        <5>3. QED
          BY <1>2, <5>1, <5>2, Bounds
      <4>2. QED
        BY <4>1
    <3>4. a \in Nat
      BY <1>2
    <3>5. Fits(served, msgHistory[u], len)
      BY <1>2, <1>3, <1>5, <3>2, <3>3, <3>4 DEF Fits
    <3>6. \A q \in requests' : q.user = u => q = served
      BY <1>0, <3>1
    <3>7. ~ Merging(u)'
      BY <1>0, <3>1 DEF Merging
    <3>. HIDE DEF u
    <3>8. QED
      BY <1>0, <2>2, <3>5, <3>6, <3>7 DEF RequestsOK
  <2>3. QED
    BY <2>1, <2>2
<1>7. MergeOK(v)' /\ TargetOK(v)' /\ Sound(msgHistory'[v])
  BY <1>0 DEF PagesOK, MergeOK, TargetOK, Merging
<1>8. QED
  BY <1>6, <1>7 DEF PagesOK

(* The page is merged into the cache of the open chat, or dropped.         *)
LEMMA ArrivedPages ==
    ASSUME TypeOK, TypeOK', NEW r \in requests, HistoryArrived(r),
           NEW v \in Users \ repaged', PagesOK(v)
    PROVE  PagesOK(v)'
<1>0. /\ requests' = requests \ {r} /\ net = Idle
      /\ UNCHANGED <<msgHistory, log, targetUser, nextHistoryPage>>
      /\ r.reply.ok
  BY DEF HistoryArrived, chat
<1>1. /\ r \in Request /\ r.user \in Users /\ r.reply.msgs \in Seq(Time) /\ r.reply.next \in Nat
  BY PagesTypes, RequestFields
<1>2. CASE r.user # targetUser
  <2>1. net' = net
    BY <1>0, <1>2 DEF HistoryArrived
  <2>2. Len(log'[v]) >= Len(log[v])
    BY <1>0, PagesTypes
  <2>3. Sound(msgHistory'[v])
    BY <1>0 DEF PagesOK
  <2>4. QED
    BY <1>0, <2>1, <2>2, <2>3, PagesKept
<1>3. CASE r.user = targetUser
  <2>. DEFINE c == msgHistory[v]
              t == r.reply.msgs
              m == Merged(c, t)
  <2>1. net' = [at |-> "merge", user |-> r.user, next |-> r.reply.next,
                msgs |-> Merged(msgHistory[r.user], t)]
    BY <1>3 DEF HistoryArrived
  <2>2. net' # Idle /\ net'.user = r.user /\ net'.at = "merge" /\ net'.next = r.reply.next
    BY <2>1 DEF Idle
  <2>3. Sound(msgHistory'[v])
    BY <1>0 DEF PagesOK
  <2>4. TargetOK(v)'
    BY <1>0, <1>3, <2>2 DEF TargetOK
  <2>5. CASE v # r.user
    <3>1. ~ Merging(v)'
      BY <2>2, <2>5 DEF Merging
    <3>2. RequestsOK(v)' /\ MergeOK(v)'
      BY <1>0, <3>1 DEF PagesOK, RequestsOK, MergeOK
    <3>3. QED
      BY <2>3, <2>4, <3>2 DEF PagesOK
  <2>6. CASE v = r.user
    <3>1. (\A q \in requests : q.user = v => q = r) /\ Fits(r, c, Len(log[v]))
      BY <2>6 DEF PagesOK, RequestsOK
    <3>2. RequestsOK(v)'
      BY <1>0, <3>1 DEF RequestsOK
    <3>3. PICK a \in Nat, n \in Int :
              /\ Slice(t, a, n) /\ Reaches(c, n)
              /\ r.reply.next # 0 => LastPlace(Len(log[v]), r.reply.next) >= a - 1
      BY <1>0, <3>1 DEF Fits
    <3>4. ~ Overtaken(c, t)
      BY <2>6 DEF HistoryArrived
    <3>5. c \in Seq(Time) /\ Sound(c) /\ Len(log[v]) \in Nat
      BY PagesTypes DEF PagesOK
    <3>6. net'.msgs = m
      BY <2>1, <2>6
    <3>. HIDE DEF c, t
    <3>7. Sound(m) /\ Reaches(m, a - 1)
      BY <1>1, <3>3, <3>4, <3>5, MergeSound DEF t
    <3>. HIDE DEF m
    <3>8. Follows(m, Len(log[v]), r.reply.next)
      <4>. SUFFICES ASSUME r.reply.next # 0, Old(m) # {}
                    PROVE  \E x \in Old(m) : x <= LastPlace(Len(log[v]), r.reply.next) + 1
        BY DEF Follows, Reaches
      <4>1. PICK x \in Old(m) : x <= (a - 1) + 1
        BY <3>7 DEF Reaches
      <4>2. r.reply.next \in Nat \ {0} /\ x \in Int
        BY <1>1 DEF Old
      <4>3. LastPlace(Len(log[v]), r.reply.next) \in Int
        BY <3>5, <4>2, LastPlaceIs
      <4>4. LastPlace(Len(log[v]), r.reply.next) >= a - 1
        BY <3>3
      <4>5. x <= LastPlace(Len(log[v]), r.reply.next) + 1
        BY <4>1, <4>2, <4>3, <4>4
      <4>6. QED
        BY <4>5
    <3>9. MergeOK(v)'
      BY <1>0, <2>2, <3>6, <3>7, <3>8 DEF MergeOK
    <3>10. QED
      BY <2>3, <2>4, <3>2, <3>9 DEF PagesOK
  <2>7. QED
    BY <2>5, <2>6
<1>4. QED
  BY <1>2, <1>3

(* The merged cache is written.                                            *)
LEMMA SetPages ==
    ASSUME TypeOK, SetHistory, NEW v \in Users, PagesOK(v)
    PROVE  PagesOK(v)'
<1>0. /\ net # Idle /\ net.at = "merge" /\ net \in Merge /\ net.user \in Users
      /\ msgHistory' = [msgHistory EXCEPT ![net.user] = net.msgs]
      /\ msgHistory \in [Users -> Seq(Time)]
      /\ net' = [net EXCEPT !.at = "merged"]
      /\ UNCHANGED <<requests, log, targetUser, nextHistoryPage>>
  BY PagesTypes DEF SetHistory, chat
<1>1. net' # Idle /\ net'.at = "merged" /\ net'.user = net.user /\ net'.next = net.next
  BY <1>0 DEF Merge, Idle
<1>2. Merging(v)' <=> Merging(v)
  BY <1>0, <1>1 DEF Merging
<1>3. CASE v = net.user
  <2>1. Merging(v) /\ msgHistory'[v] = net.msgs
    BY <1>0, <1>3 DEF Merging
  <2>2. Sound(net.msgs) /\ Follows(net.msgs, Len(log[v]), net.next)
    BY <1>0, <2>1 DEF PagesOK, MergeOK
  <2>3. MergeOK(v)' /\ Sound(msgHistory'[v])
    BY <1>0, <1>1, <2>1, <2>2 DEF MergeOK
  <2>4. RequestsOK(v)'
    BY <1>0, <2>1 DEF PagesOK, RequestsOK
  <2>5. TargetOK(v)'
    BY <1>1, <1>3 DEF TargetOK
  <2>6. QED
    BY <2>3, <2>4, <2>5 DEF PagesOK
<1>4. CASE v # net.user
  <2>1. msgHistory'[v] = msgHistory[v] /\ ~ Merging(v)
    BY <1>0, <1>4 DEF Merging
  <2>2. Sound(msgHistory'[v]) /\ MergeOK(v)' /\ RequestsOK(v)'
    BY <1>0, <1>2, <2>1 DEF PagesOK, RequestsOK, MergeOK
  <2>3. TargetOK(v)'
    BY <1>0, <1>1, <2>1 DEF PagesOK, TargetOK
  <2>4. QED
    BY <2>2, <2>3 DEF PagesOK
<1>5. QED
  BY <1>3, <1>4

(* The page to be asked for next is the one after the page merged.         *)
LEMMA TurnPages ==
    ASSUME TypeOK, TurnPage, NEW v \in Users, PagesOK(v)
    PROVE  PagesOK(v)'
<1>0. /\ net # Idle /\ net.at = "merged" /\ net' = Idle /\ nextHistoryPage' = net.next
      /\ UNCHANGED <<requests, log, targetUser, msgHistory>>
  BY DEF TurnPage
<1>1. ~ Merging(v)'
  BY <1>0 DEF Merging
<1>2. Sound(msgHistory'[v]) /\ MergeOK(v)' /\ RequestsOK(v)'
  BY <1>0, <1>1 DEF PagesOK, RequestsOK, MergeOK
<1>3. TargetOK(v)'
  <2>1. CASE v = net.user
    <3>1. Follows(msgHistory[v], Len(log[v]), net.next)
      BY <1>0, <2>1 DEF PagesOK, MergeOK, Merging
    <3>2. QED
      BY <1>0, <3>1 DEF TargetOK
  <2>2. CASE v # net.user /\ v = targetUser
    <3>1. Old(msgHistory[v]) = {}
      BY <1>0, <2>2 DEF PagesOK, TargetOK
    <3>2. QED
      BY <1>0, <3>1, FollowsEmpty DEF TargetOK
  <2>3. CASE v # targetUser
    BY <1>0, <2>3 DEF TargetOK
  <2>4. QED
    BY <2>1, <2>2, <2>3
<1>4. QED
  BY <1>2, <1>3 DEF PagesOK

-----------------------------------------------------------------------------
(* New messages are newer than the backlog                                 *)

LEMMA NewsInit == Init => LogsOK /\ NewsOK
BY Bounds DEF Init, LogsOK, NewsOK

LEMMA NewsAppend ==
    ASSUME NEW q \in Seq(Block), NEW b \in Block, b.do = "append" => b.msg > Backlog,
           \A i \in DOMAIN q : q[i].do = "append" => q[i].msg > Backlog
    PROVE  \A i \in DOMAIN Append(q, b) : Append(q, b)[i].do = "append" => Append(q, b)[i].msg > Backlog
<1>1. \A i \in DOMAIN Append(q, b) :
         \/ i \in DOMAIN q /\ Append(q, b)[i] = q[i]
         \/ Append(q, b)[i] = b
  BY AppendOf
<1>2. QED
  BY <1>1

(* A message is added to the record of a chat.                             *)
LEMMA LogGrows ==
    ASSUME TypeInv, LogsOK, NEW u \in Users, NEW m, m = clock[u] + 1, m \in Time,
           clock' = [clock EXCEPT ![u] = clock[u] + 1],
           log' = log \/ log' = [log EXCEPT ![u] = Append(log[u], m)]
    PROVE  /\ LogsOK' /\ m > Backlog
           /\ \A v \in Users : Len(log'[v]) >= Len(log[v])
<1>0. /\ clock \in [Users -> 0..Backlog + MaxNew] /\ log \in [Users -> Seq(Time)]
      /\ \A v \in Users : log[v] \in Seq(Time) /\ Len(log[v]) \in Nat /\ clock[v] \in Nat
      /\ Backlog \in Nat
  BY Bounds DEF TypeInv, TypeOK
<1>1. /\ clock[u] >= Backlog /\ Len(log[u]) >= Backlog
      /\ \A i \in DOMAIN log[u] : /\ i <= Backlog => log[u][i] = i
                                  /\ i > Backlog => log[u][i] > Backlog
  BY DEF LogsOK
<1>2. m > Backlog
  BY <1>0, <1>1
<1>3. \A v \in Users : clock'[v] >= Backlog
  BY <1>0, <1>1 DEF LogsOK
<1>4. ASSUME NEW v \in Users
      PROVE  /\ Len(log'[v]) >= Len(log[v]) /\ Len(log'[v]) >= Backlog
             /\ \A i \in DOMAIN log'[v] : /\ i <= Backlog => log'[v][i] = i
                                          /\ i > Backlog => log'[v][i] > Backlog
  <2>1. CASE log'[v] = log[v]
    BY <1>0, <2>1 DEF LogsOK
  <2>2. CASE v = u /\ log'[v] = Append(log[u], m)
    <3>1. Len(log'[v]) = Len(log[u]) + 1 /\ log'[v][Len(log[u]) + 1] = m
      BY <1>0, <2>2, AppendOf
    <3>2. \A i \in DOMAIN log[u] : log'[v][i] = log[u][i]
      BY <1>0, <2>2, AppendOf
    <3>3. \A i \in DOMAIN log'[v] : i # Len(log[u]) + 1 => i \in DOMAIN log[u]
      BY <1>0, <2>2, AppendOf
    <3>4. ASSUME NEW i \in DOMAIN log'[v]
          PROVE  /\ i <= Backlog => log'[v][i] = i
                 /\ i > Backlog => log'[v][i] > Backlog
      <4>1. CASE i = Len(log[u]) + 1
        BY <1>0, <1>1, <1>2, <3>1, <4>1
      <4>2. CASE i # Len(log[u]) + 1
        BY <1>1, <3>2, <3>3, <4>2
      <4>3. QED
        BY <4>1, <4>2
    <3>5. QED
      BY <1>0, <1>1, <2>2, <3>1, <3>4
  <2>3. QED
    BY <1>0, <2>1, <2>2
<1>5. QED
  BY <1>2, <1>3, <1>4 DEF LogsOK

LEMMA NewsStep ==
    ASSUME TypeInv, LogsOK, NewsOK, [Next]_vars
    PROVE  LogsOK' /\ NewsOK' /\ \A v \in Users : Len(log'[v]) >= Len(log[v])
<1>. USE DEF chat, view, bounds, history
<1>0. /\ TypeOK /\ bgQ \in Seq(Block) /\ pushQ \in Seq(Shown)
      /\ \A v \in Users : Len(log[v]) \in Nat
      /\ \A i \in DOMAIN pushQ : pushQ[i].msg > Backlog
      /\ \A i \in DOMAIN bgQ : bgQ[i].do = "append" => bgQ[i].msg > Backlog
  BY PagesTypes DEF TypeInv, TypeOK, NewsOK
<1>1. ASSUME UNCHANGED <<clock, log>>
      PROVE  LogsOK' /\ \A v \in Users : Len(log'[v]) >= Len(log[v])
  BY <1>0, <1>1 DEF LogsOK
<1>2. ASSUME UNCHANGED <<pushQ, bgQ>>
      PROVE  NewsOK'
  BY <1>2 DEF NewsOK
<1>3. ASSUME NEW delivered \in BOOLEAN, SendMsg(delivered)
      PROVE  LogsOK' /\ NewsOK' /\ \A v \in Users : Len(log'[v]) >= Len(log[v])
  <2>. DEFINE u == targetUser
              m == clock[u] + 1
  <2>1. /\ u \in Users /\ written < MaxNew /\ written' = written + 1
        /\ clock' = [clock EXCEPT ![u] = clock[u] + 1]
        /\ log' = log \/ log' = [log EXCEPT ![u] = Append(log[u], m)]
        /\ UNCHANGED <<pushQ, bgQ>>
    BY <1>0, <1>3 DEF SendMsg, TypeOK
  <2>2. m \in Time
    BY <2>1, NewTime
  <2>3. LogsOK' /\ \A v \in Users : Len(log'[v]) >= Len(log[v])
    BY <2>1, <2>2, LogGrows
  <2>4. QED
    BY <1>2, <2>1, <2>3
<1>4. ASSUME NEW u \in Users, NEW pushed \in BOOLEAN, FriendWrites(u, pushed)
      PROVE  LogsOK' /\ NewsOK' /\ \A v \in Users : Len(log'[v]) >= Len(log[v])
  <2>. DEFINE m == clock[u] + 1
              s == [from |-> u, msg |-> m]
  <2>1. /\ written < MaxNew /\ written' = written + 1
        /\ clock' = [clock EXCEPT ![u] = clock[u] + 1]
        /\ log' = [log EXCEPT ![u] = Append(log[u], m)]
        /\ pushQ' = pushQ \/ pushQ' = Append(pushQ, s)
        /\ bgQ' = bgQ
    BY <1>4 DEF FriendWrites
  <2>2. m \in Time
    BY <2>1, NewTime
  <2>3. LogsOK' /\ m > Backlog /\ \A v \in Users : Len(log'[v]) >= Len(log[v])
    BY <2>1, <2>2, LogGrows
  <2>4. s \in Shown /\ s.msg = m
    BY <2>2 DEF Shown
  <2>. HIDE DEF s
  <2>5. \A i \in DOMAIN Append(pushQ, s) : Append(pushQ, s)[i].msg > Backlog
    <3>1. \A i \in DOMAIN Append(pushQ, s) :
             \/ i \in DOMAIN pushQ /\ Append(pushQ, s)[i] = pushQ[i]
             \/ Append(pushQ, s)[i] = s
      BY <1>0, <2>4, AppendOf
    <3>2. QED
      BY <1>0, <2>3, <2>4, <3>1
  <2>6. \A i \in DOMAIN pushQ' : pushQ'[i].msg > Backlog
    BY <1>0, <2>1, <2>5
  <2>7. QED
    BY <1>0, <2>1, <2>3, <2>6 DEF NewsOK
<1>5. ASSUME NEW stranger \in BOOLEAN, NewMsgArrived(stranger)
      PROVE  LogsOK' /\ NewsOK' /\ \A v \in Users : Len(log'[v]) >= Len(log[v])
  <2>. DEFINE u == Head(pushQ).from
              m == Head(pushQ).msg
              b == [do |-> "append", user |-> u, msg |-> m]
              l == [do |-> "lookup", user |-> u]
  <2>1. /\ pushQ # <<>> /\ pushQ' = Tail(pushQ)
        /\ bgQ' = Append(bgQ, b) \/ bgQ' = bgQ \o <<b>> \o (IF stranger THEN <<l>> ELSE <<>>)
        /\ UNCHANGED <<clock, log>>
    BY <1>5 DEF NewMsgArrived
  <2>2. Head(pushQ) \in Shown /\ Head(pushQ).msg > Backlog
    BY <1>0, <2>1, FirstOf
  <2>3. u \in Users /\ m \in Time /\ m > Backlog
    BY <2>2 DEF Shown
  <2>4. b \in Block /\ l \in Block /\ l.do # "append" /\ b.msg > Backlog
    BY <2>3, BlockTypes
  <2>. HIDE DEF b, l
  <2>5. /\ Append(bgQ, b) \in Seq(Block)
        /\ bgQ \o <<b>> = Append(bgQ, b) /\ Append(bgQ, b) \o <<l>> = Append(Append(bgQ, b), l)
        /\ Append(bgQ, b) \o <<>> = Append(bgQ, b)
    BY <1>0, <2>4
  <2>6. \A i \in DOMAIN Append(bgQ, b) :
           Append(bgQ, b)[i].do = "append" => Append(bgQ, b)[i].msg > Backlog
    BY <1>0, <2>4, NewsAppend
  <2>7. \A i \in DOMAIN Append(Append(bgQ, b), l) :
           Append(Append(bgQ, b), l)[i].do = "append" => Append(Append(bgQ, b), l)[i].msg > Backlog
    <3>1. Append(bgQ, b) \in Seq(Block)
      BY <2>5
    <3>. DEFINE q == Append(bgQ, b)
    <3>2. q \in Seq(Block) /\ \A i \in DOMAIN q : q[i].do = "append" => q[i].msg > Backlog
      BY <2>6, <3>1
    <3>. HIDE DEF q
    <3>3. \A i \in DOMAIN Append(q, l) : Append(q, l)[i].do = "append" => Append(q, l)[i].msg > Backlog
      BY <2>4, <3>2, NewsAppend
    <3>4. QED
      BY <3>3 DEF q
  <2>8. bgQ' = Append(bgQ, b) \/ bgQ' = Append(Append(bgQ, b), l)
    <3>1. CASE bgQ' = Append(bgQ, b)
      BY <3>1
    <3>2. CASE bgQ' = bgQ \o <<b>> \o (IF stranger THEN <<l>> ELSE <<>>)
      <4>1. CASE stranger
        <5>1. bgQ' = bgQ \o <<b>> \o <<l>>
          BY <3>2, <4>1, Zenon
        <5>2. QED
          BY <2>5, <5>1
      <4>2. CASE ~ stranger
        <5>1. bgQ' = bgQ \o <<b>> \o <<>>
          BY <3>2, <4>2, Zenon
        <5>2. QED
          BY <2>5, <5>1
      <4>3. QED
        BY <4>1, <4>2
    <3>3. QED
      BY <2>1, <3>1, <3>2, Zenon
  <2>9. \A i \in DOMAIN bgQ' : bgQ'[i].do = "append" => bgQ'[i].msg > Backlog
    BY <2>6, <2>7, <2>8, Zenon
  <2>10. \A i \in DOMAIN pushQ' : pushQ'[i].msg > Backlog
    BY <1>0, <2>1, FirstOf
  <2>11. NewsOK'
    BY <2>9, <2>10 DEF NewsOK
  <2>12. QED
    BY <1>1, <2>1, <2>11
<1>6. CASE AppendHistory \/ LookUp
  <2>1. bgQ # <<>> /\ bgQ' = Tail(bgQ) /\ UNCHANGED <<clock, log, pushQ>>
    BY <1>6 DEF AppendHistory, LookUp
  <2>2. \A i \in DOMAIN bgQ' : bgQ'[i].do = "append" => bgQ'[i].msg > Backlog
    BY <1>0, <2>1, FirstOf
  <2>3. QED
    BY <1>0, <1>1, <2>1, <2>2 DEF NewsOK
<1>7. (\/ \E u \in Users : Select(u)
       \/ RemoveTarget \/ InvitePrivacyChat \/ ClosePrivacyMode \/ LoadMoreHistory
       \/ Login \/ ReleaseHistory
       \/ (\E r \in requests : Serve(r) \/ HistoryArrived(r) \/ HistoryFailed(r))
       \/ (\E u \in lookups : FriendListArrived(u)) \/ SetHistory \/ TurnPage
       \/ MainBlock \/ UNCHANGED vars) => UNCHANGED <<clock, log, pushQ, bgQ>>
  BY DEF Select, RemoveTarget, InvitePrivacyChat, ClosePrivacyMode, LoadMoreHistory, Login,
         ReleaseHistory, Serve, HistoryArrived, HistoryFailed, FriendListArrived, SetHistory,
         TurnPage, MainBlock, DisplayMsg, ShowHistory, InsertNothing, OpenNewOne, vars
<1>8. ASSUME UNCHANGED <<clock, log, pushQ, bgQ>>
      PROVE  LogsOK' /\ NewsOK' /\ \A v \in Users : Len(log'[v]) >= Len(log[v])
  BY <1>1, <1>2, <1>8
<1>9. QED
  BY <1>3, <1>4, <1>5, <1>6, <1>7, <1>8 DEF Next, User, Net

-----------------------------------------------------------------------------
(* The cached backlog has no hole                                          *)

LEMMA PagesInit == Init => PagesInv
<1>. SUFFICES ASSUME Init PROVE PagesInv
  OBVIOUS
<1>1. /\ msgHistory = [u \in Users |-> <<>>] /\ requests = {} /\ net = Idle
  BY DEF Init
<1>2. ASSUME NEW u \in Users
      PROVE  PagesOK(u)
  <2>1. msgHistory[u] = <<>> /\ ~ Merging(u)
    BY <1>1 DEF Merging
  <2>2. Sound(msgHistory[u]) /\ Old(msgHistory[u]) = {}
    BY <2>1, OldEmpty
  <2>3. QED
    BY <1>1, <2>1, <2>2, FollowsEmpty DEF PagesOK, RequestsOK, MergeOK, TargetOK
<1>3. QED
  BY <1>2, NewsInit DEF PagesInv

(* A new message is cached behind what is there.                           *)
LEMMA AppendPages ==
    ASSUME TypeOK, TypeOK', NEW u \in Users, NEW m \in Time, m > Backlog,
           msgHistory' = [msgHistory EXCEPT ![u] = Append(msgHistory[u], m)],
           \A w \in Users : Len(log'[w]) >= Len(log[w]),
           UNCHANGED <<requests, net, targetUser, nextHistoryPage>>,
           NEW v \in Users, PagesOK(v)
    PROVE  PagesOK(v)'
<1>0. msgHistory \in [Users -> Seq(Time)] /\ Sound(msgHistory[v]) /\ msgHistory[v] \in Seq(Time)
  BY PagesTypes DEF PagesOK
<1>1. Sound(msgHistory'[v]) /\ Old(msgHistory'[v]) = Old(msgHistory[v])
  <2>1. CASE v = u
    <3>1. msgHistory'[v] = Append(msgHistory[v], m)
      BY <1>0, <2>1
    <3>2. QED
      BY <1>0, <3>1, OldAppend
  <2>2. CASE v # u
    <3>1. msgHistory'[v] = msgHistory[v]
      BY <1>0, <2>2
    <3>2. QED
      BY <1>0, <3>1
  <2>3. QED
    BY <2>1, <2>2
<1>2. QED
  BY <1>1, PagesKept

LEMMA PagesStep ==
    ASSUME TypeInv, TypeOK', PagesInv, [Next]_vars
    PROVE  PagesInv'
<1>. USE DEF chat, view, bounds, history
<1>0. /\ TypeOK /\ LogsOK /\ NewsOK
      /\ \A v \in Users \ repaged : PagesOK(v) /\ Sound(msgHistory[v])
      /\ repaged \subseteq Users
  BY PagesTypes DEF TypeInv, PagesInv, PagesOK
<1>1. LogsOK' /\ NewsOK' /\ \A v \in Users : Len(log'[v]) >= Len(log[v])
  BY <1>0, NewsStep
<1>. SUFFICES ASSUME NEW v \in Users \ repaged'
              PROVE  PagesOK(v)'
  BY <1>1 DEF PagesInv
<1>2. ASSUME v \notin repaged, msgHistory' = msgHistory, requests' \subseteq requests,
             UNCHANGED <<net, targetUser, nextHistoryPage>>
      PROVE  PagesOK(v)'
  BY <1>0, <1>1, <1>2, PagesKept
<1>3. ASSUME NEW u \in Users, SetTarget(u), UNCHANGED <<msgHistory, log, net>>
      PROVE  PagesOK(v)'
  <2>1. repaged \subseteq repaged'
    BY <1>3 DEF SetTarget, Ask
  <2>2. QED
    BY <1>0, <1>3, <2>1, SetTargetPages
<1>4. ASSUME NEW u \in Users, Select(u)
      PROVE  PagesOK(v)'
  BY <1>3, <1>4 DEF Select
<1>5. CASE OpenNewOne
  <2>1. mainQ # <<>> /\ Head(mainQ).do = "open" /\ SetTarget(Head(mainQ).user)
        /\ UNCHANGED <<msgHistory, log, net>>
    BY <1>5 DEF OpenNewOne
  <2>2. Head(mainQ).user \in Users
    BY <1>0, <2>1, NextMain, BlockFields
  <2>3. QED
    BY <1>3, <2>1, <2>2
<1>6. CASE RemoveTarget
  <2>1. /\ targetUser' = None /\ UNCHANGED <<msgHistory, log, net, requests, repaged>>
    BY <1>6 DEF RemoveTarget
  <2>2. PagesOK(v)
    BY <1>0, <2>1
  <2>3. v # targetUser'
    BY <2>1, NoneAssumption
  <2>4. QED
    BY <2>1, <2>2, <2>3 DEF PagesOK, RequestsOK, MergeOK, TargetOK, Merging
<1>7. CASE LoadMoreHistory
  <2>1. UNCHANGED <<msgHistory, log, net, targetUser, nextHistoryPage>>
    BY <1>7 DEF LoadMoreHistory
  <2>2. CASE UNCHANGED <<requests, repaged>>
    BY <1>2, <2>1, <2>2
  <2>3. CASE /\ targetUser # None /\ nextHistoryPage > 0
             /\ Ask(targetUser, nextHistoryPage)
    <3>1. targetUser \in Users /\ nextHistoryPage \in Nat \ {0} /\ repaged \subseteq repaged'
      BY <1>0, <2>3 DEF TypeOK, Ask
    <3>2. PagesOK(v)
      BY <1>0, <3>1
    <3>3. CASE v # targetUser
      <4>1. Sound(msgHistory'[v]) /\ RequestsOK(v)' /\ MergeOK(v)'
        BY <1>0, <2>1, <2>3, <3>1, <3>2, <3>3, AskOther
      <4>2. TargetOK(v)'
        BY <2>1, <3>3 DEF TargetOK
      <4>3. QED
        BY <4>1, <4>2 DEF PagesOK
    <3>4. CASE v = targetUser
      <4>1. v \notin repaged /\ (net # Idle => net.user # v)
        BY <2>3, <3>4 DEF Ask, Loading
      <4>2. Follows(msgHistory[v], Len(log[v]), nextHistoryPage)
        BY <3>2, <3>4, <4>1, FollowsEmpty DEF PagesOK, TargetOK
      <4>3. RequestsOK(v)' /\ MergeOK(v)'
        BY <1>0, <2>1, <2>3, <3>1, <3>2, <3>4, <4>2, AskPages DEF PagesOK
      <4>4. Sound(msgHistory'[v]) /\ TargetOK(v)'
        BY <2>1, <3>2 DEF PagesOK, TargetOK
      <4>5. QED
        BY <4>3, <4>4 DEF PagesOK
    <3>5. QED
      BY <3>3, <3>4
  <2>4. QED
    BY <1>7, <2>2, <2>3 DEF LoadMoreHistory
<1>8. ASSUME NEW delivered \in BOOLEAN, SendMsg(delivered)
      PROVE  PagesOK(v)'
  <2>. DEFINE u == targetUser
              m == clock[u] + 1
  <2>1. /\ u \in Users /\ written < MaxNew /\ written' = written + 1
        /\ clock' = [clock EXCEPT ![u] = clock[u] + 1]
        /\ msgHistory' = [msgHistory EXCEPT ![u] = Append(msgHistory[u], m)]
        /\ UNCHANGED <<requests, net, targetUser, nextHistoryPage, repaged>>
    BY <1>0, <1>8 DEF SendMsg, TypeOK
  <2>2. m \in Time /\ m > Backlog
    <3>1. m \in Time
      BY <2>1, NewTime
    <3>2. clock[u] >= Backlog /\ clock[u] \in Nat
      <4>1. clock[u] \in 0..Backlog + MaxNew
        BY <1>0, <2>1 DEF TypeOK
      <4>2. clock[u] >= Backlog
        BY <1>0, <2>1 DEF LogsOK
      <4>. HIDE DEF u
      <4>3. QED
        BY <4>1, <4>2, Bounds
    <3>3. QED
      BY <3>1, <3>2, Bounds
  <2>. HIDE DEF m, u
  <2>3. QED
    BY <1>0, <1>1, <2>1, <2>2, AppendPages
<1>9. CASE AppendHistory
  <2>. DEFINE b == Head(bgQ)
  <2>1. /\ bgQ # <<>> /\ b.do = "append"
        /\ msgHistory' = [msgHistory EXCEPT ![b.user] = Append(msgHistory[b.user], b.msg)]
        /\ UNCHANGED <<requests, net, targetUser, nextHistoryPage, repaged>>
    BY <1>9 DEF AppendHistory
  <2>2. b \in Block /\ b = bgQ[1] /\ 1 \in DOMAIN bgQ
    BY <1>0, <2>1, NextBg, FirstOf DEF TypeOK
  <2>3. b.user \in Users /\ b.msg \in Time /\ b.msg > Backlog
    BY <1>0, <2>1, <2>2, BlockFields DEF NewsOK
  <2>. HIDE DEF b
  <2>4. QED
    BY <1>0, <1>1, <2>1, <2>3, AppendPages
<1>10. CASE ReleaseHistory
  <2>1. /\ msgHistory' = [u \in Users |-> <<>>]
        /\ UNCHANGED <<requests, net, targetUser, nextHistoryPage, repaged>>
    BY <1>10 DEF ReleaseHistory
  <2>2. Sound(msgHistory'[v]) /\ Old(msgHistory'[v]) = {}
    BY <2>1, OldEmpty
  <2>3. QED
    BY <1>0, <1>1, <2>1, <2>2, PagesKept
<1>11. ASSUME NEW r \in requests, Serve(r)
       PROVE  PagesOK(v)'
  <2>1. PagesOK(v)
    BY <1>0, <1>11 DEF Serve
  <2>2. QED
    BY <1>0, <1>11, <2>1, ServePages
<1>12. ASSUME NEW r \in requests, HistoryArrived(r)
       PROVE  PagesOK(v)'
  <2>1. PagesOK(v)
    BY <1>0, <1>12 DEF HistoryArrived
  <2>2. QED
    BY <1>0, <1>12, <2>1, ArrivedPages
<1>13. CASE SetHistory
  <2>1. PagesOK(v)
    BY <1>0, <1>13 DEF SetHistory
  <2>2. QED
    BY <1>0, <1>13, <2>1, SetPages
<1>14. CASE TurnPage
  <2>1. PagesOK(v)
    BY <1>0, <1>14 DEF TurnPage
  <2>2. QED
    BY <1>0, <1>14, <2>1, TurnPages
<1>15. (\/ InvitePrivacyChat \/ ClosePrivacyMode
        \/ (\E u \in Users, pushed \in BOOLEAN : FriendWrites(u, pushed))
        \/ (\E stranger \in BOOLEAN : NewMsgArrived(stranger)) \/ LookUp \/ Login
        \/ (\E r \in requests : HistoryFailed(r)) \/ (\E u \in lookups : FriendListArrived(u))
        \/ DisplayMsg \/ ShowHistory \/ InsertNothing \/ UNCHANGED vars)
       => /\ msgHistory' = msgHistory /\ requests' \subseteq requests
          /\ UNCHANGED <<net, targetUser, nextHistoryPage, repaged>>
  BY DEF InvitePrivacyChat, ClosePrivacyMode, FriendWrites, NewMsgArrived, LookUp, Login,
         HistoryFailed, FriendListArrived, DisplayMsg, ShowHistory, InsertNothing, vars
<1>16. ASSUME msgHistory' = msgHistory, requests' \subseteq requests,
              UNCHANGED <<net, targetUser, nextHistoryPage, repaged>>
       PROVE  PagesOK(v)'
  BY <1>2, <1>16
<1>17. QED
  BY <1>4, <1>5, <1>6, <1>7, <1>8, <1>9, <1>10, <1>11, <1>12, <1>13, <1>14, <1>15, <1>16
     DEF Next, User, Net, MainBlock

(* Whatever pages come, messages arrive, logins empty the cache and chats  *)
(* are opened and left, the messages of before this process that are       *)
(* cached are in order, without repetition and without a hole, but for the *)
(* friends in repaged, with whom one of three things happened: they were   *)
(* chosen again with messages cached, two of their pages were under way at *)
(* once, or a page came so late that new messages pushed all of it above   *)
(* what is cached.                                                         *)
THEOREM BacklogInOrder == Spec => []BacklogIsARange
<1>1. TypeInv /\ [Next]_vars => TypeInv' /\ TypeOK'
  BY TypeStep DEF TypeInv
<1>2. Init => TypeInv /\ PagesInv
  BY TypeInit, PagesInit
<1>3. TypeInv /\ PagesInv /\ [Next]_vars => TypeInv' /\ PagesInv'
  BY <1>1, PagesStep
<1>4. TypeInv /\ PagesInv => BacklogIsARange
  <2>. SUFFICES ASSUME TypeInv, PagesInv, NEW u \in Users \ repaged,
                       NEW i \in DOMAIN msgHistory[u], NEW j \in DOMAIN msgHistory[u], i < j,
                       msgHistory[u][i] <= Backlog, msgHistory[u][j] <= Backlog,
                       \A k \in DOMAIN msgHistory[u] : i < k /\ k < j => msgHistory[u][k] > Backlog
                PROVE  msgHistory[u][j] = msgHistory[u][i] + 1
    BY DEF BacklogIsARange
  <2>1. msgHistory[u] \in Seq(Time) /\ Sound(msgHistory[u])
    BY PagesTypes DEF TypeInv, PagesInv, PagesOK
  <2>2. QED
    BY <2>1, SoundIsRange
<1>5. QED
  BY <1>2, <1>3, <1>4, PTL DEF Spec

=============================================================================
