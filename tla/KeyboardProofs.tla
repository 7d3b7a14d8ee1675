---------------------------- MODULE KeyboardProofs ----------------------------
(***************************************************************************)
(* Theorems about four parts of the keyboard that make no use of each      *)
(* other: touches and key presses (KeyTouch), for every set of keys and    *)
(* any number of touches; the unread marks of its chats (UnreadCount), for *)
(* any friends and any number of messages, chats opened and logins; the    *)
(* search for sentences (Sentence), for any number of syllables, words,    *)
(* paths and scores; and the calls for candidates (Candidates, which       *)
(* MCInput calls Search!), for any queues, kinds of calls and number of    *)
(* them.                                                                   *)
(***************************************************************************)
EXTENDS KeyTouch, UnreadCount, Sentence, MCInput, SequenceTheorems, WellFoundedInduction, TLAPS

-----------------------------------------------------------------------------
(* Touches and key presses                                                 *)

(* A press record after n touches: confirmations belong to touches that    *)
(* have begun, none is repeated, and a letter still pending has none.      *)
Sound(p, n) ==
    /\ p \in Press
    /\ p.by <= n
    /\ \A t \in Touches : p.fired[t] <= 1 /\ (t > n => p.fired[t] = 0)
    /\ p.by # 0 /\ p.key \in Letters => p.fired[p.by] = 0
    /\ p.key = Nothing => p.by = 0

(* What one record becomes: no confirmation is taken back.                 *)
Grows(p, q) == \A t \in Touches : p.fired[t] <= q.fired[t]

(* The pending letter, if a touch made it, is confirmed in q.              *)
Fired(p, q) == p.by # 0 /\ p.key \in Letters => q.fired[p.by] = 1

-----------------------------------------------------------------------------
(* The operators on the press record                                       *)

LEMMA HoldIs ==
    ASSUME NEW p \in Press, NEW k \in Keys \cup {Nothing}, NEW t \in 0..MaxTouch
    PROVE  /\ Hold(p, k, t) \in Press
           /\ Hold(p, k, t).key = k /\ Hold(p, k, t).by = t
           /\ Hold(p, k, t).fired = p.fired
BY DEF Press, Hold

LEMMA ForgetIs ==
    ASSUME NEW p \in Press
    PROVE  /\ Forget(p) \in Press
           /\ Forget(p).key = Nothing /\ Forget(p).by = 0
           /\ Forget(p).fired = p.fired
<1>1. Forget(p) = Hold(p, Nothing, 0)
  BY DEF Forget, Hold
<1>2. 0 \in 0..MaxTouch
  BY TouchAssumption
<1>3. QED
  BY <1>1, <1>2, HoldIs

LEMMA ConfirmIs ==
    ASSUME NEW p \in Press, NEW t \in Touches
    PROVE  /\ Confirm(p, t) \in Press
           /\ Confirm(p, t).key = p.key /\ Confirm(p, t).by = p.by
           /\ Confirm(p, t).fired = [p.fired EXCEPT ![t] = @ + 1]
<1> DEFINE f == [p.fired EXCEPT ![t] = @ + 1]
<1>1. p.fired \in [Touches -> Nat] /\ t # 0
  BY DEF Press, Touches
<1>2. f \in [Touches -> Nat]
  BY <1>1
<1>3. Confirm(p, t) = [p EXCEPT !.fired = f]
  BY <1>1 DEF Confirm
<1>4. /\ [p EXCEPT !.fired = f] \in Press
      /\ [p EXCEPT !.fired = f].fired = f
      /\ [p EXCEPT !.fired = f].key = p.key
      /\ [p EXCEPT !.fired = f].by = p.by
  <2> HIDE DEF f
  <2>1. QED
    BY <1>2 DEF Press
<1>5. QED
  BY <1>3, <1>4

LEMMA ForgetSound ==
    ASSUME NEW n \in 0..MaxTouch, NEW p, Sound(p, n)
    PROVE  /\ Sound(Forget(p), n) /\ Grows(p, Forget(p))
           /\ Forget(p).by = 0 /\ Forget(p).key = Nothing
<1>1. p \in Press /\ p.fired \in [Touches -> Nat]
  BY DEF Sound, Press
<1>2. QED
  BY <1>1, ForgetIs DEF Sound, Grows

(* Confirming the pending letter, whichever key is held next.              *)
LEMMA ConfirmPendingSound ==
    ASSUME NEW n \in 0..MaxTouch, NEW p, Sound(p, n), p.key \in Letters
    PROVE  LET q == ConfirmPending(p)
           IN  /\ q \in Press /\ q.key = p.key /\ q.by = p.by
               /\ \A t \in Touches : q.fired[t] <= 1 /\ (t > n => q.fired[t] = 0)
               /\ Grows(p, q) /\ Fired(p, q)
<1> DEFINE q == ConfirmPending(p)
<1>1. p \in Press /\ p.fired \in [Touches -> Nat] /\ p.by \in 0..MaxTouch /\ p.by <= n
  BY DEF Sound, Press
<1>2. CASE p.by = 0
  <2>1. q = p
    BY <1>2 DEF ConfirmPending, Confirm
  <2>2. QED
    BY <1>1, <1>2, <2>1 DEF Sound, Grows, Fired
<1>3. CASE p.by # 0
  <2>1. p.by \in Touches /\ p.fired[p.by] = 0
    BY <1>1, <1>3, TouchAssumption DEF Sound, Touches
  <2>2. /\ q \in Press /\ q.key = p.key /\ q.by = p.by
        /\ q.fired = [p.fired EXCEPT ![p.by] = @ + 1]
    BY <1>1, <2>1, ConfirmIs DEF ConfirmPending
  <2>3. q.fired[p.by] = 1 /\ \A t \in Touches \ {p.by} : q.fired[t] = p.fired[t]
    BY <1>1, <2>1, <2>2
  <2>4. \A t \in Touches : /\ q.fired[t] <= 1 /\ p.fired[t] <= q.fired[t]
                           /\ t > n => q.fired[t] = 0
    BY <1>1, <2>1, <2>3, TouchAssumption DEF Sound, Touches
  <2>5. QED
    BY <2>2, <2>3, <2>4 DEF Grows, Fired
<1>4. QED
  BY <1>2, <1>3

LEMMA KeyUpSound ==
    ASSUME NEW n \in 0..MaxTouch, NEW p, Sound(p, n), NEW k \in Keys
    PROVE  LET q == KeyUp(p, k)
           IN  /\ Sound(q, n) /\ Grows(p, q)
               /\ q = p \/ (q.by = 0 /\ q.key = Nothing)
               /\ p.key = k => q.by = 0 /\ q.key = Nothing /\ Fired(p, q)
<1> DEFINE q == KeyUp(p, k)
<1>0. p \in Press /\ p.fired \in [Touches -> Nat]
  BY DEF Sound, Press
<1>1. CASE k \in Modifiers
  <2>1. q = Forget(p)
    BY <1>1 DEF KeyUp
  <2>2. p.key = k => p.key \notin Letters
    BY <1>1, KeysAssumption
  <2>3. QED
    BY <2>1, <2>2, ForgetSound DEF Fired
<1>2. CASE k \notin Modifiers /\ p.key = k
  <2> DEFINE c == ConfirmPending(p)
  <2>1. q = Forget(c)
    BY <1>2 DEF KeyUp
  <2>2. p.key \in Letters
    BY <1>2 DEF Keys
  <2>3. /\ c \in Press /\ Grows(p, c) /\ Fired(p, c)
        /\ \A t \in Touches : c.fired[t] <= 1 /\ (t > n => c.fired[t] = 0)
    BY <2>2, ConfirmPendingSound
  <2>4. /\ q \in Press /\ q.key = Nothing /\ q.by = 0 /\ q.fired = c.fired
    BY <2>1, <2>3, ForgetIs
  <2>5. QED
    BY <2>3, <2>4 DEF Sound, Grows, Fired
<1>3. CASE k \notin Modifiers /\ p.key # k
  <2>1. q = p
    BY <1>3 DEF KeyUp
  <2>2. QED
    BY <1>0, <1>3, <2>1 DEF Grows
<1>4. QED
  BY <1>1, <1>2, <1>3

LEMMA GrowsTrans ==
    ASSUME NEW p \in Press, NEW q \in Press, NEW r \in Press, Grows(p, q), Grows(q, r)
    PROVE  Grows(p, r)
BY DEF Grows, Press

LEMMA KeyOtherSound ==
    ASSUME NEW n \in 0..MaxTouch, NEW p, Sound(p, n), NEW k \in Keys, lower \in BOOLEAN
    PROVE  LET q == KeyOther(p, k)
           IN  Sound(q, n) /\ Grows(p, q) /\ (q = p \/ (q.by = 0 /\ q.key = Nothing))
<1> DEFINE q == KeyOther(p, k)
<1>0. p \in Press /\ p.fired \in [Touches -> Nat]
  BY DEF Sound, Press
<1>1. CASE ~lower \/ p.key = Nothing
  <2>1. q = p
    BY <1>1, Zenon DEF KeyOther
  <2>2. QED
    BY <1>0, <2>1 DEF Grows
<1>2. CASE lower /\ p.key # Nothing /\ k = p.key
  <2>1. q = Forget(p)
    BY <1>2, Zenon DEF KeyOther
  <2>2. QED
    BY <2>1, ForgetSound
<1>3. CASE lower /\ p.key # Nothing /\ k # p.key
  <2> DEFINE u == KeyUp(p, p.key)
  <2>1. q = Forget(u)
    BY <1>3, Zenon DEF KeyOther
  <2>2. p.key \in Keys
    BY <1>0, <1>3 DEF Press
  <2>3. Sound(u, n) /\ Grows(p, u)
    BY <2>2, KeyUpSound
  <2>4. Sound(q, n) /\ Grows(u, q) /\ q.by = 0 /\ q.key = Nothing
    BY <2>1, <2>3, ForgetSound
  <2>5. Grows(p, q)
    BY <1>0, <2>3, <2>4, GrowsTrans DEF Sound
  <2>6. QED
    BY <2>4, <2>5
<1>4. QED
  BY <1>1, <1>2, <1>3

(* A new touch goes down on k.                                             *)
LEMMA KeyDownSound ==
    ASSUME NEW n \in 0..MaxTouch, n < MaxTouch, NEW p, Sound(p, n), NEW k \in Keys
    PROVE  LET q == KeyDown(p, k, n + 1)
           IN  /\ Sound(q, n + 1) /\ Grows(p, q) /\ q.key = k
               /\ q.by = n + 1 \/ (q.by = p.by /\ p.key = k)
               /\ k \in Letters => q.by = n + 1
<1> DEFINE t == n + 1  q == KeyDown(p, k, t)
<1>1. /\ p \in Press /\ p.fired \in [Touches -> Nat] /\ p.by \in 0..MaxTouch
      /\ k \in Keys \cup {Nothing} /\ p.by <= n /\ k # Nothing
      /\ \A s \in Touches : p.fired[s] <= 1 /\ (s > n => p.fired[s] = 0)
  BY KeysAssumption DEF Sound, Press, Keys
<1>2. t \in Touches /\ t # 0 /\ t > n /\ t \in 0..MaxTouch /\ p.fired[t] = 0
  BY <1>1, TouchAssumption DEF Touches
<1>3. \A s \in Touches : s > t => s > n
  BY DEF Touches
<1>4. CASE k = p.key /\ p.by # 0
  <2>1. q = Hold(p, k, IF k \in Letters THEN t ELSE p.by)
    BY <1>2, <1>4 DEF KeyDown
  <2>2. /\ q \in Press /\ q.key = k /\ q.fired = p.fired
        /\ q.by = IF k \in Letters THEN t ELSE p.by
    BY <1>1, <1>2, <2>1, HoldIs
  <2>3. q.by <= t
    BY <1>1, <2>2
  <2>4. QED
    BY <1>1, <1>2, <1>3, <1>4, <2>2, <2>3 DEF Sound, Grows
<1>5. CASE ~(k = p.key /\ p.by # 0) /\ k \in Modifiers
  <2> DEFINE c == Confirm(p, t)
  <2>1. q = Hold(c, k, t)
    BY <1>2, <1>5 DEF KeyDown
  <2>2. c \in Press /\ c.fired = [p.fired EXCEPT ![t] = @ + 1]
    BY <1>1, <1>2, ConfirmIs
  <2>3. q \in Press /\ q.key = k /\ q.by = t /\ q.fired = c.fired
    BY <1>1, <1>2, <2>1, <2>2, HoldIs
  <2>4. q.fired[t] = 1 /\ \A s \in Touches \ {t} : q.fired[s] = p.fired[s]
    BY <1>1, <1>2, <2>2, <2>3
  <2>5. k \notin Letters
    BY <1>5, KeysAssumption
  <2>6. \A s \in Touches : /\ q.fired[s] <= 1 /\ p.fired[s] <= q.fired[s]
                           /\ s > t => q.fired[s] = 0
    BY <1>1, <1>2, <1>3, <2>4
  <2>7. Sound(q, t)
    BY <1>1, <2>3, <2>5, <2>6 DEF Sound
  <2>8. QED
    BY <2>3, <2>5, <2>6, <2>7 DEF Grows
<1>6. CASE ~(k = p.key /\ p.by # 0) /\ k \notin Modifiers /\ p.key \in Letters
  <2> DEFINE c == ConfirmPending(p)
  <2>1. q = Hold(c, k, t)
    BY <1>2, <1>6 DEF KeyDown
  <2>2. /\ c \in Press /\ Grows(p, c) /\ Fired(p, c)
        /\ \A s \in Touches : c.fired[s] <= 1 /\ (s > n => c.fired[s] = 0)
    BY <1>6, ConfirmPendingSound
  <2>3. q \in Press /\ q.key = k /\ q.by = t /\ q.fired = c.fired
    BY <1>1, <1>2, <2>1, <2>2, HoldIs
  <2>4. QED
    BY <1>1, <1>2, <1>3, <2>2, <2>3 DEF Sound, Grows, Fired
<1>7. CASE ~(k = p.key /\ p.by # 0) /\ k \notin Modifiers /\ p.key \notin Letters
  <2>1. q = Hold(p, k, t)
    BY <1>2, <1>7 DEF KeyDown
  <2>2. q \in Press /\ q.key = k /\ q.by = t /\ q.fired = p.fired
    BY <1>1, <1>2, <2>1, HoldIs
  <2>3. QED
    BY <1>1, <1>2, <1>3, <1>7, <2>2 DEF Sound, Grows, Fired
<1>8. QED
  BY <1>4, <1>5, <1>6, <1>7

(* A key no touch made is tapped: the repeat timer, the punctuation drag.  *)
LEMMA VirtualTapSound ==
    ASSUME NEW n \in 0..MaxTouch, NEW p, Sound(p, n), NEW k \in Letters
    PROVE  LET q == KeyUp(KeyDown(p, k, 0), k)
           IN  /\ Sound(q, n) /\ Grows(p, q) /\ Fired(p, q)
               /\ q.by = 0 /\ q.key = Nothing
<1> DEFINE d == KeyDown(p, k, 0)  q == KeyUp(d, k)
<1>1. /\ p \in Press /\ p.fired \in [Touches -> Nat]
      /\ k \in Keys /\ k \in Keys \cup {Nothing} /\ k # Nothing /\ k \notin Modifiers
      /\ 0 \in 0..MaxTouch
  BY KeysAssumption, TouchAssumption DEF Sound, Press, Keys
<1>2. Sound(d, n) /\ Grows(p, d) /\ Fired(p, d) /\ d.key = k
  <2>1. CASE p.key \in Letters
    <3> DEFINE c == ConfirmPending(p)
    <3>1. d = Hold(c, k, 0)
      BY <1>1, <2>1 DEF KeyDown
    <3>2. /\ c \in Press /\ Grows(p, c) /\ Fired(p, c)
          /\ \A s \in Touches : c.fired[s] <= 1 /\ (s > n => c.fired[s] = 0)
      BY <2>1, ConfirmPendingSound
    <3>3. d \in Press /\ d.key = k /\ d.by = 0 /\ d.fired = c.fired
      BY <1>1, <3>1, <3>2, HoldIs
    <3>4. QED
      BY <1>1, <3>2, <3>3 DEF Sound, Grows, Fired
  <2>2. CASE p.key \notin Letters
    <3>1. d = Hold(p, k, 0)
      BY <1>1, <2>2 DEF KeyDown
    <3>2. d \in Press /\ d.key = k /\ d.by = 0 /\ d.fired = p.fired
      BY <1>1, <3>1, HoldIs
    <3>3. QED
      BY <1>1, <2>2, <3>2 DEF Sound, Grows, Fired
  <2>3. QED
    BY <2>1, <2>2
<1>3. Sound(q, n) /\ Grows(d, q) /\ q.by = 0 /\ q.key = Nothing
  BY <1>1, <1>2, KeyUpSound
<1>4. Grows(p, q) /\ Fired(p, q)
  <2>1. p \in Press /\ d \in Press /\ q \in Press
    BY <1>1, <1>2, <1>3 DEF Sound
  <2>2. Grows(p, q)
    BY <1>2, <1>3, <2>1, GrowsTrans
  <2>3. CASE p.by # 0 /\ p.key \in Letters
    <3>1. p.by \in Touches
      BY <2>1, <2>3 DEF Press, Touches
    <3>2. d.fired[p.by] = 1
      BY <1>2, <2>3 DEF Fired
    <3>3. d.fired[p.by] <= q.fired[p.by] /\ q.fired[p.by] <= 1
      BY <1>3, <3>1 DEF Sound, Grows
    <3>4. q.fired[p.by] \in Nat
      BY <2>1, <3>1 DEF Press
    <3>5. QED
      BY <2>2, <3>2, <3>3, <3>4 DEF Fired
  <2>4. QED
    BY <2>2, <2>3 DEF Fired
<1>5. QED
  BY <1>3, <1>4

-----------------------------------------------------------------------------
(* The touches                                                             *)

(* The cached key, and the key under a finger, of a touch that stayed.     *)
KeysKnown ==
    /\ \A t \in 1..begun \ slid : under[t] = landed[t]
    /\ touchCache \in 1..begun \ slid => keyCache = landed[touchCache]
    /\ press.by \in 1..begun \ slid => press.key = landed[press.by]

(* A letter that stayed under its finger has been typed, or is the pending *)
(* key of a finger still down.                                             *)
TypedOrPending ==
    \A t \in 1..begun \ (taken \cup slid \cup dropped \cup swiped) :
        landed[t] \in Letters =>
            press.fired[t] = 1 \/ (t \in down /\ press.by = t)

TouchInv ==
    /\ TypeOK
    /\ Sound(press, begun)
    /\ currentTouch <= begun /\ touchCache <= begun
    /\ KeysKnown
    /\ PendingIsOfCurrentTouch
    /\ TypedOrPending

(* Every property of KeyTouch follows from TouchInv, which a step keeps.   *)
LEMMA TouchInit == Init => TouchInv
<1> SUFFICES ASSUME Init PROVE TouchInv
  OBVIOUS
<1>1. press \in Press /\ Sound(press, begun)
  BY KeysAssumption, TouchAssumption DEF Init, Sound, Press, Touches
<1>2. TypeOK
  BY <1>1, KeysAssumption, TouchAssumption DEF Init, TypeOK
<1>3. QED
  BY <1>1, <1>2 DEF Init, TouchInv, KeysKnown, PendingIsOfCurrentTouch, TypedOrPending

(* What TouchInv says of a key looked up for the current touch, and of the *)
(* press once that touch is released.                                      *)
LEMMA KeyOfCurrent ==
    ASSUME TouchInv, currentTouch # 0
    PROVE  /\ currentTouch \in 1..begun /\ currentTouch \in Touches
           /\ KeyOf(currentTouch, touchCache, keyCache) \in Keys \cup {Nothing}
           /\ currentTouch \notin slid =>
                KeyOf(currentTouch, touchCache, keyCache) = landed[currentTouch]
BY TouchAssumption DEF TouchInv, TypeOK, KeyOf, KeysKnown, Touches

(* c, k: what getKeyboardKey has cached, for the current touch or a new one*)
LEMMA ReleaseSound ==
    ASSUME TouchInv, NEW c, NEW k,
           \/ c = touchCache /\ k = keyCache
           \/ c = begun + 1 /\ k \in Keys \cup {Nothing}
    PROVE  LET q == Release(press, c, k)
           IN  /\ Sound(q, begun) /\ Grows(press, q)
               /\ q = press \/ (q.by = 0 /\ q.key = Nothing)
               /\ q.by # 0 => q.by \in slid \cup swiped
               /\ Fired(press, q) \/ press.by \in slid \cup swiped
<1> DEFINE q == Release(press, c, k)
           r == KeyOf(currentTouch, c, k)
<1>1. /\ Sound(press, begun) /\ begun \in 0..MaxTouch
      /\ press \in Press /\ press.by \in 0..begun /\ press.fired \in [Touches -> Nat]
  BY DEF TouchInv, TypeOK, Sound, Press
<1>2. CASE currentTouch = 0
  <2>1. q = press
    BY <1>2 DEF Release
  <2>2. press.by \in {0} \cup slid \cup swiped
    BY <1>2 DEF TouchInv, PendingIsOfCurrentTouch
  <2>3. QED
    BY <1>1, <2>1, <2>2 DEF Grows, Fired
<1>3. CASE currentTouch # 0
  <2>1. /\ r \in Keys \cup {Nothing} /\ currentTouch \in 1..begun
        /\ currentTouch \notin slid => r = landed[currentTouch]
    BY <1>3, KeyOfCurrent, TouchAssumption DEF KeyOf, TouchInv, TypeOK, KeysKnown, Touches
  <2>2. press.by \in {0} \cup slid \cup swiped \/ (press.by = currentTouch /\ press.by \notin slid)
    BY DEF TouchInv, PendingIsOfCurrentTouch
  <2>3. press.by = currentTouch /\ press.by \notin slid => press.key = r /\ r # Nothing
    BY <1>3, <2>1 DEF TouchInv, KeysKnown, Sound
  <2>4. CASE r = Nothing
    <3>1. q = press
      BY <1>3, <2>4 DEF Release
    <3>2. press.by \in {0} \cup slid \cup swiped
      BY <2>2, <2>3, <2>4
    <3>3. QED
      BY <1>1, <3>1, <3>2 DEF Grows, Fired
  <2>5. CASE r # Nothing
    <3>1. q = KeyUp(press, r) /\ r \in Keys
      BY <1>3, <2>1, <2>5 DEF Release
    <3>2. /\ Sound(q, begun) /\ Grows(press, q)
          /\ q = press \/ (q.by = 0 /\ q.key = Nothing)
          /\ press.key = r => q.by = 0 /\ Fired(press, q)
      BY <1>1, <3>1, KeyUpSound
    <3>3. QED
      BY <2>2, <2>3, <3>2 DEF Fired
  <2>6. QED
    BY <2>4, <2>5
<1>4. QED
  BY <1>2, <1>3

(* Every letter that stayed under its finger is typed, but the pending one.*)
LEMMA OthersTyped ==
    ASSUME TouchInv, NEW q, q \in Press, \A t \in Touches : q.fired[t] <= 1,
           Grows(press, q)
    PROVE  \A t \in 1..begun \ (taken \cup slid \cup dropped \cup swiped) :
               landed[t] \in Letters => t = press.by \/ q.fired[t] = 1
<1> SUFFICES ASSUME NEW t \in 1..begun, t \notin taken \cup slid \cup dropped \cup swiped,
                    landed[t] \in Letters, t # press.by
             PROVE  q.fired[t] = 1
  OBVIOUS
<1>1. /\ t \in Touches /\ press.fired[t] <= q.fired[t] /\ q.fired[t] <= 1
      /\ press.fired[t] \in Nat /\ q.fired[t] \in Nat
  BY TouchAssumption DEF TouchInv, TypeOK, Press, Grows, Touches
<1>2. press.fired[t] = 1
  BY DEF TouchInv, TypedOrPending
<1>3. QED
  BY <1>1, <1>2

LEMMA ReleaseTypes ==
    ASSUME TouchInv, NEW q, q \in Press, \A t \in Touches : q.fired[t] <= 1,
           Grows(press, q), Fired(press, q) \/ press.by \in slid \cup swiped
    PROVE  \A t \in 1..begun \ (taken \cup slid \cup dropped \cup swiped) :
               landed[t] \in Letters => q.fired[t] = 1
<1> SUFFICES ASSUME NEW t \in 1..begun, t \notin taken \cup slid \cup dropped \cup swiped,
                    landed[t] \in Letters, t = press.by
             PROVE  q.fired[t] = 1
  BY OthersTyped
<1>1. press.key = landed[t] /\ press.by # 0
  BY DEF TouchInv, KeysKnown
<1>2. QED
  BY <1>1 DEF Fired

LEMMA BeginsStep ==
    ASSUME TouchInv, NEW k \in Keys \cup {Nothing}, NEW early \in BOOLEAN,
           TouchBegins(k, early)
    PROVE  TouchInv'
<1> DEFINE t == begun + 1
           p == IF early THEN Release(press, t, k) ELSE Release(press, touchCache, keyCache)
<1>1. /\ begun \in 0..MaxTouch /\ begun < MaxTouch /\ t \in Touches /\ t \in 0..MaxTouch
      /\ begun' = t /\ currentTouch' = t /\ touchCache' = t /\ keyCache' = k
      /\ under' = [under EXCEPT ![t] = k] /\ landed' = [landed EXCEPT ![t] = k]
      /\ down' = down \cup {t}
      /\ press' = IF k = Nothing THEN p ELSE KeyDown(p, k, t)
      /\ UNCHANGED <<lower, taken, slid, dropped, swiped>>
  BY TouchAssumption DEF TouchBegins, TouchInv, TypeOK, Touches, gone
<1>2. /\ Sound(p, begun) /\ Grows(press, p)
      /\ p = press \/ (p.by = 0 /\ p.key = Nothing)
      /\ p.by # 0 => p.by \in slid \cup swiped
      /\ Fired(press, p) \/ press.by \in slid \cup swiped
  <2>1. CASE early
    <3>1. p = Release(press, t, k)
      BY <2>1
    <3>2. QED
      BY <3>1, ReleaseSound
  <2>2. CASE ~early
    <3>1. p = Release(press, touchCache, keyCache)
      BY <2>2
    <3>2. QED
      BY <3>1, ReleaseSound
  <2>3. QED
    BY <2>1, <2>2
<1> HIDE DEF p
<1>3. /\ Sound(press', t) /\ Grows(p, press')
      /\ press'.by = t \/ (press'.by = p.by /\ press'.key = p.key)
      /\ press'.by = t => press'.key = k
      /\ k \in Letters => press'.by = t
  <2>1. CASE k = Nothing
    <3>1. press' = p /\ k \notin Letters
      BY <1>1, <2>1, KeysAssumption
    <3>2. p.by <= begun /\ p.by \in 0..MaxTouch /\ p.fired \in [Touches -> Nat]
      BY <1>2 DEF Sound, Press
    <3>3. Sound(p, t)
      BY <1>1, <1>2, <3>2 DEF Sound, Touches
    <3>4. p.by # t
      BY <1>1, <3>2
    <3>5. QED
      BY <3>1, <3>2, <3>3, <3>4 DEF Grows
  <2>2. CASE k # Nothing
    <3>1. press' = KeyDown(p, k, begun + 1) /\ k \in Keys
      BY <1>1, <2>2
    <3>2. QED
      BY <1>1, <1>2, <3>1, KeyDownSound
  <2>3. QED
    BY <2>1, <2>2
<1>4. /\ under \in [Touches -> Keys \cup {Nothing}]
      /\ landed \in [Touches -> Keys \cup {Nothing}]
      /\ down \subseteq 1..begun /\ 1..begun \subseteq Touches
      /\ 1..t = 1..begun \cup {t} /\ t \notin 1..begun
  <2>1. 1..t = 1..begun \cup {t} /\ t \notin 1..begun
    BY <1>1
  <2>2. 1..begun \subseteq Touches
    BY <1>1, TouchAssumption DEF Touches
  <2>3. QED
    BY <2>1, <2>2 DEF TouchInv, TypeOK
<1>5. TypeOK'
  <2>1. press' \in Press /\ (press'.key = Nothing => press'.by = 0)
    BY <1>3 DEF Sound
  <2>2. down' \subseteq 1..begun'
    BY <1>1, <1>4
  <2>3. begun' \in 0..MaxTouch /\ currentTouch' \in 0..MaxTouch /\ touchCache' \in 0..MaxTouch
    BY <1>1
  <2>4. under' \in [Touches -> Keys \cup {Nothing}] /\ landed' \in [Touches -> Keys \cup {Nothing}]
    BY <1>1, <1>4
  <2>5. lower' \in BOOLEAN
    BY <1>1, Zenon DEF TouchInv, TypeOK
  <2>6. QED
    BY <1>1, <2>1, <2>2, <2>3, <2>4, <2>5 DEF TouchInv, TypeOK
<1>6. KeysKnown'
  <2>1. \A s \in 1..begun : under'[s] = under[s] /\ landed'[s] = landed[s]
    BY <1>1, <1>4
  <2>2. under'[t] = k /\ landed'[t] = k
    BY <1>1, <1>4
  <2>3. \A s \in 1..t \ slid : under'[s] = landed'[s]
    BY <1>4, <2>1, <2>2 DEF TouchInv, KeysKnown
  <2>4. press'.by \in 1..t \ slid => press'.key = landed'[press'.by]
    <3>1. CASE press'.by = t
      BY <1>3, <2>2, <3>1
    <3>2. CASE press'.by # t /\ press'.by \in 1..t \ slid
      <4>1. press'.by = press.by /\ press'.key = press.key /\ press.by \in 1..begun \ slid
        BY <1>2, <1>3, <1>4, <3>2
      <4>2. press.key = landed[press.by]
        BY <4>1 DEF TouchInv, KeysKnown
      <4>3. QED
        BY <2>1, <4>1, <4>2
    <3>3. QED
      BY <3>1, <3>2
  <2>5. QED
    BY <1>1, <2>2, <2>3, <2>4 DEF KeysKnown
<1>7. PendingIsOfCurrentTouch'
  BY <1>1, <1>2, <1>3 DEF PendingIsOfCurrentTouch
<1>8. TypedOrPending'
  <2>1. \A s \in 1..begun \ (taken \cup slid \cup dropped \cup swiped) :
           landed[s] \in Letters => p.fired[s] = 1
    BY <1>2, ReleaseTypes DEF Sound
  <2>2. \A s \in 1..begun : p.fired[s] = 1 => press'.fired[s] = 1
    <3> SUFFICES ASSUME NEW s \in 1..begun, p.fired[s] = 1 PROVE press'.fired[s] = 1
      OBVIOUS
    <3>1. s \in Touches /\ 1 <= press'.fired[s] /\ press'.fired[s] <= 1
      BY <1>3, <1>4 DEF Sound, Grows
    <3>2. press'.fired[s] \in Nat
      BY <1>3, <3>1 DEF Sound, Press
    <3>3. QED
      BY <3>1, <3>2
  <2>3. \A s \in 1..begun : landed'[s] = landed[s]
    BY <1>1, <1>4
  <2>4. landed'[t] = k
    BY <1>1, <1>4
  <2>5. QED
    BY <1>1, <1>3, <1>4, <2>1, <2>2, <2>3, <2>4 DEF TypedOrPending
<1>9. QED
  BY <1>1, <1>3, <1>5, <1>6, <1>7, <1>8 DEF TouchInv

(* The steps that begin no touch: the types, and what TouchInv says of the *)
(* keys, when the press keeps its owner and key or loses both.             *)
LEMMA QuietStep ==
    ASSUME TouchInv, begun' = begun, landed' = landed, slid' = slid, under' = under,
           down' \subseteq down, taken' \subseteq Touches,
           dropped' \subseteq Touches, swiped' \subseteq Touches, lower' \in BOOLEAN,
           Sound(press', begun),
           press'.by = 0 \/ (press'.by = press.by /\ press'.key = press.key),
           \/ UNCHANGED <<touchCache, keyCache>>
           \/ /\ currentTouch # 0 /\ touchCache' = currentTouch
              /\ keyCache' = KeyOf(currentTouch, touchCache, keyCache),
           currentTouch' \in {0, currentTouch},
           PendingIsOfCurrentTouch', TypedOrPending'
    PROVE  TouchInv'
<1>1. /\ begun \in 0..MaxTouch /\ currentTouch \in 0..MaxTouch /\ touchCache \in 0..MaxTouch
      /\ keyCache \in Keys \cup {Nothing} /\ currentTouch <= begun /\ touchCache <= begun
      /\ down \subseteq 1..begun
  BY DEF TouchInv, TypeOK
<1>2. /\ touchCache' \in 0..MaxTouch /\ keyCache' \in Keys \cup {Nothing} /\ touchCache' <= begun
      /\ touchCache' \in 1..begun \ slid => keyCache' = landed[touchCache']
  <2>1. CASE UNCHANGED <<touchCache, keyCache>>
    BY <1>1, <2>1 DEF TouchInv, KeysKnown
  <2>2. CASE /\ currentTouch # 0 /\ touchCache' = currentTouch
             /\ keyCache' = KeyOf(currentTouch, touchCache, keyCache)
    BY <1>1, <2>2, KeyOfCurrent
  <2>3. QED
    BY <2>1, <2>2
<1>3. TypeOK'
  <2>1. /\ press' \in Press /\ (press'.key = Nothing => press'.by = 0)
        /\ currentTouch' \in 0..MaxTouch
    BY <1>1, TouchAssumption DEF Sound
  <2>2. QED
    BY <1>1, <1>2, <2>1 DEF TouchInv, TypeOK
<1>4. KeysKnown'
  BY <1>2 DEF TouchInv, KeysKnown
<1>5. currentTouch' <= begun
  BY <1>1
<1>6. QED
  BY <1>2, <1>3, <1>4, <1>5 DEF TouchInv

LEMMA EndsStep ==
    ASSUME TouchInv, NEW t \in down, TouchEnds(t)
    PROVE  TouchInv'
<1>1. press' = Release(press, touchCache, keyCache)
  BY DEF TouchEnds
<1>2. /\ Sound(press', begun) /\ Grows(press, press')
      /\ press' = press \/ (press'.by = 0 /\ press'.key = Nothing)
      /\ press'.by # 0 => press'.by \in slid \cup swiped
      /\ Fired(press, press') \/ press.by \in slid \cup swiped
  BY <1>1, ReleaseSound
<1>3. /\ UNCHANGED <<lower, begun, taken, under, landed, slid, dropped, swiped>>
      /\ currentTouch' = 0 /\ down' = down \ {t}
  BY DEF TouchEnds, gone
<1>4. PendingIsOfCurrentTouch'
  BY <1>2, <1>3 DEF PendingIsOfCurrentTouch
<1>5. TypedOrPending'
  <2>1. \A s \in 1..begun \ (taken \cup slid \cup dropped \cup swiped) :
           landed[s] \in Letters => press'.fired[s] = 1
    BY <1>2, ReleaseTypes DEF Sound
  <2>2. QED
    BY <1>3, <2>1 DEF TypedOrPending
<1>6. lower' \in BOOLEAN /\ taken' \subseteq Touches /\ dropped' \subseteq Touches
      /\ swiped' \subseteq Touches
  <2>1. lower' \in BOOLEAN
    BY <1>3, Zenon DEF TouchInv, TypeOK
  <2>2. QED
    BY <1>3, <2>1 DEF TouchInv, TypeOK
<1>7. \/ UNCHANGED <<touchCache, keyCache>>
      \/ /\ currentTouch # 0 /\ touchCache' = currentTouch
         /\ keyCache' = KeyOf(currentTouch, touchCache, keyCache)
  BY DEF TouchEnds
<1>8. QED
  BY <1>2, <1>3, <1>4, <1>5, <1>6, <1>7, QuietStep

LEMMA TakenEndsStep ==
    ASSUME TouchInv, NEW t \in down, TakenTouchEnds(t)
    PROVE  TouchInv'
<1>1. /\ UNCHANGED <<press, currentTouch, touchCache, keyCache, lower, begun, taken, under,
                     landed, slid, dropped, swiped>>
      /\ down' = down \ {t} /\ t \in taken
  BY DEF TakenTouchEnds, layer, gone
<1>2. TypeOK'
  <2>1. lower' \in BOOLEAN
    BY <1>1, Zenon DEF TouchInv, TypeOK
  <2>2. QED
    BY <1>1, <2>1 DEF TouchInv, TypeOK
<1>3. TypedOrPending'
  BY <1>1 DEF TouchInv, TypedOrPending
<1>4. QED
  BY <1>1, <1>2, <1>3 DEF TouchInv, KeysKnown, PendingIsOfCurrentTouch

LEMMA SlideStep ==
    ASSUME TouchInv, NEW t \in down, NEW k \in Keys \cup {Nothing}, Slide(t, k)
    PROVE  TouchInv'
<1>1. /\ UNCHANGED <<press, currentTouch, touchCache, keyCache, lower, begun, down, taken,
                     landed, dropped, swiped>>
      /\ under' = [under EXCEPT ![t] = k] /\ slid' = slid \cup {t}
  BY DEF Slide, layer, gone
<1>2. /\ under \in [Touches -> Keys \cup {Nothing}] /\ 1..begun \subseteq Touches
      /\ t \in 1..begun
  <2>1. begun \in 0..MaxTouch /\ MaxTouch \in Nat
    BY TouchAssumption DEF TouchInv, TypeOK
  <2>2. 1..begun \subseteq Touches
    BY ONLY <2>1 DEF Touches
  <2>3. under \in [Touches -> Keys \cup {Nothing}] /\ t \in 1..begun
    BY DEF TouchInv, TypeOK
  <2> QED
    BY <2>2, <2>3
<1>3. TypeOK'
  <2>1. lower' \in BOOLEAN
    BY <1>1, Zenon DEF TouchInv, TypeOK
  <2>2. under' \in [Touches -> Keys \cup {Nothing}] /\ slid' \subseteq Touches
    BY <1>1, <1>2 DEF TouchInv, TypeOK
  <2>3. QED
    BY <1>1, <2>1, <2>2 DEF TouchInv, TypeOK
<1>4. KeysKnown'
  <2>1. \A s \in 1..begun \ slid' : under'[s] = landed[s]
    BY <1>1, <1>2 DEF TouchInv, KeysKnown
  <2>2. QED
    BY <1>1, <2>1 DEF TouchInv, KeysKnown
<1>5. PendingIsOfCurrentTouch' /\ TypedOrPending'
  BY <1>1 DEF TouchInv, PendingIsOfCurrentTouch, TypedOrPending
<1>6. QED
  BY <1>1, <1>3, <1>4, <1>5 DEF TouchInv

LEMMA BoardStep ==
    ASSUME TouchInv, ChangeBoard
    PROVE  TouchInv'
<1>1. UNCHANGED <<press, currentTouch, touchCache, keyCache, begun, down, taken, under,
                  landed, slid, dropped, swiped>>
  BY DEF ChangeBoard, layer, glass, gone
<1>2. lower' \in BOOLEAN
  BY Zenon DEF ChangeBoard
<1>3. QED
  BY <1>1, <1>2 DEF TouchInv, TypeOK, KeysKnown, PendingIsOfCurrentTouch, TypedOrPending

LEMMA LongPressStep ==
    ASSUME TouchInv, NEW t \in down, LongPress(t)
    PROVE  TouchInv'
<1>1. /\ UNCHANGED <<currentTouch, touchCache, keyCache, lower, begun, down, under, landed,
                     slid, swiped>>
      /\ press' = Forget(press) /\ taken' \in {taken, taken \cup {t}}
      /\ dropped' = IF press.by = 0 THEN dropped ELSE dropped \cup {press.by}
  BY DEF LongPress, Drop, TakenBy, layer
<1>2. begun \in 0..MaxTouch /\ Sound(press, begun) /\ press.by \in 0..MaxTouch /\ t \in Touches
  BY TouchAssumption DEF TouchInv, TypeOK, Sound, Press, Touches
<1>3. /\ Sound(press', begun) /\ Grows(press, press')
      /\ press'.by = 0 /\ press'.key = Nothing
  BY <1>1, <1>2, ForgetSound
<1>4. PendingIsOfCurrentTouch'
  BY <1>3 DEF PendingIsOfCurrentTouch
<1>5. taken \subseteq taken' /\ dropped \subseteq dropped' /\ (press.by # 0 => press.by \in dropped')
  BY <1>1
<1>6. TypedOrPending'
  <2>1. \A s \in 1..begun \ (taken \cup slid \cup dropped \cup swiped) :
           landed[s] \in Letters => s = press.by \/ press'.fired[s] = 1
    BY <1>3, OthersTyped DEF Sound
  <2>2. QED
    BY <1>1, <1>5, <2>1 DEF TypedOrPending
<1>7. lower' \in BOOLEAN /\ taken' \subseteq Touches /\ dropped' \subseteq Touches
      /\ swiped' \subseteq Touches
  <2>1. lower' \in BOOLEAN
    BY <1>1, Zenon DEF TouchInv, TypeOK
  <2>2. taken \subseteq Touches /\ dropped \subseteq Touches /\ swiped \subseteq Touches
    BY DEF TouchInv, TypeOK
  <2>3. press.by # 0 => press.by \in Touches
    BY <1>2 DEF Touches
  <2>. QED
    BY <1>1, <1>2, <2>1, <2>2, <2>3
<1>8. QED
  BY <1>1, <1>3, <1>4, <1>6, <1>7, QuietStep

(* The layer after its current touch was cancelled.                        *)
LEMMA CancelLayer ==
    ASSUME TouchInv, NEW p, TouchCancel(p)
    PROVE  /\ currentTouch' = 0
           /\ \/ UNCHANGED <<touchCache, keyCache>>
              \/ /\ currentTouch # 0 /\ touchCache' = currentTouch
                 /\ keyCache' = KeyOf(currentTouch, touchCache, keyCache)
BY DEF TouchCancel

LEMMA MoveCursorStep ==
    ASSUME TouchInv, NEW t \in down, MoveCursor(t)
    PROVE  TouchInv'
<1> DEFINE p == Forget(press)
<1>1. /\ UNCHANGED <<lower, begun, down, under, landed, slid, swiped>>
      /\ TouchCancel(p) /\ taken' \in {taken, taken \cup {t}}
      /\ dropped' = IF press.by = 0 THEN dropped ELSE dropped \cup {press.by}
  BY DEF MoveCursor, Drop, TakenBy
<1>2. begun \in 0..MaxTouch /\ Sound(press, begun) /\ press.by \in 0..MaxTouch /\ t \in Touches
  BY TouchAssumption DEF TouchInv, TypeOK, Sound, Press, Touches
<1>3. Sound(p, begun) /\ Grows(press, p) /\ p.by = 0 /\ p.key = Nothing
  BY <1>2, ForgetSound
<1>4. press' = p
  BY <1>1, <1>3 DEF TouchCancel, KeyOther
<1>5. PendingIsOfCurrentTouch'
  BY <1>3, <1>4 DEF PendingIsOfCurrentTouch
<1>6. taken \subseteq taken' /\ dropped \subseteq dropped' /\ (press.by # 0 => press.by \in dropped')
  BY <1>1
<1>7. TypedOrPending'
  <2>1. \A s \in 1..begun \ (taken \cup slid \cup dropped \cup swiped) :
           landed[s] \in Letters => s = press.by \/ press'.fired[s] = 1
    BY <1>3, <1>4, OthersTyped DEF Sound
  <2>2. QED
    BY <1>1, <1>6, <2>1 DEF TypedOrPending
<1>8. lower' \in BOOLEAN /\ taken' \subseteq Touches /\ dropped' \subseteq Touches
      /\ swiped' \subseteq Touches
  <2>1. lower' \in BOOLEAN
    BY <1>1, Zenon DEF TouchInv, TypeOK
  <2>2. press.by # 0 => press.by \in Touches
    BY <1>2 DEF Touches
  <2>3. taken \subseteq Touches /\ dropped \subseteq Touches /\ swiped \subseteq Touches
    BY DEF TouchInv, TypeOK
  <2>4. taken' \subseteq Touches
    BY <1>1, <1>2, <2>3
  <2>5. QED
    BY <1>1, <2>1, <2>2, <2>3, <2>4
<1>9. QED
  BY <1>1, <1>3, <1>4, <1>5, <1>7, <1>8, CancelLayer, QuietStep

LEMMA SwipeLeftStep ==
    ASSUME TouchInv, NEW t \in down, SwipeLeft(t)
    PROVE  TouchInv'
<1> DEFINE k == KeyOf(currentTouch, touchCache, keyCache)
<1>1. /\ UNCHANGED <<lower, begun, down, under, landed, slid, dropped>>
      /\ TouchCancel(press) /\ taken' \in {taken, taken \cup {t}}
      /\ swiped' = IF press.by = 0 THEN swiped ELSE swiped \cup {press.by}
  BY DEF SwipeLeft, TakenBy
<1>2. /\ begun \in 0..MaxTouch /\ Sound(press, begun) /\ press.by \in 0..MaxTouch
      /\ t \in Touches /\ press \in Press /\ press.fired \in [Touches -> Nat]
  BY TouchAssumption DEF TouchInv, TypeOK, Sound, Press, Touches
<1>3. /\ Sound(press', begun) /\ Grows(press, press')
      /\ press' = press \/ (press'.by = 0 /\ press'.key = Nothing)
  <2>1. CASE currentTouch = 0 \/ k = Nothing
    <3>1. press' = press
      BY <1>1, <2>1 DEF TouchCancel
    <3>2. QED
      BY <1>2, <3>1 DEF Grows
  <2>2. CASE ~(currentTouch = 0 \/ k = Nothing)
    <3>1. press' = KeyOther(press, k)
      BY <1>1, <2>2 DEF TouchCancel
    <3>2. k \in Keys
      BY <2>2, KeyOfCurrent
    <3>3. lower \in BOOLEAN
      BY Zenon DEF TouchInv, TypeOK
    <3>4. QED
      BY <1>2, <3>1, <3>2, <3>3, KeyOtherSound
  <2>3. QED
    BY <2>1, <2>2
<1>4. taken \subseteq taken' /\ swiped \subseteq swiped' /\ (press.by # 0 => press.by \in swiped')
  BY <1>1
<1>5. PendingIsOfCurrentTouch'
  BY <1>3, <1>4 DEF PendingIsOfCurrentTouch
<1>6. TypedOrPending'
  <2>1. \A s \in 1..begun \ (taken \cup slid \cup dropped \cup swiped) :
           landed[s] \in Letters => s = press.by \/ press'.fired[s] = 1
    BY <1>3, OthersTyped DEF Sound
  <2>2. QED
    BY <1>1, <1>4, <2>1 DEF TypedOrPending
<1>7. lower' \in BOOLEAN /\ taken' \subseteq Touches /\ dropped' \subseteq Touches
      /\ swiped' \subseteq Touches
  <2>1. lower' \in BOOLEAN
    BY <1>1, Zenon DEF TouchInv, TypeOK
  <2>2. press.by # 0 => press.by \in Touches
    BY <1>2 DEF Touches
  <2>3. taken \subseteq Touches /\ dropped \subseteq Touches /\ swiped \subseteq Touches
    BY DEF TouchInv, TypeOK
  <2>4. taken' \subseteq Touches
    BY <1>1, <1>2, <2>3
  <2>5. QED
    BY <1>1, <2>1, <2>2, <2>3, <2>4
<1>8. QED
  BY <1>1, <1>3, <1>5, <1>6, <1>7, CancelLayer, QuietStep

LEMMA VBackStep ==
    ASSUME TouchInv, VBack
    PROVE  TouchInv'
<1>1. /\ UNCHANGED <<currentTouch, touchCache, keyCache, lower, begun, down, taken, under,
                     landed, slid, dropped, swiped>>
      /\ press' = KeyUp(KeyDown(press, Delete, 0), Delete)
  BY DEF VBack, layer, glass, gone
<1>2. begun \in 0..MaxTouch /\ Sound(press, begun) /\ Delete \in Letters
  BY KeysAssumption DEF TouchInv, TypeOK
<1>3. /\ Sound(press', begun) /\ Grows(press, press') /\ Fired(press, press')
      /\ press'.by = 0 /\ press'.key = Nothing
  BY <1>1, <1>2, VirtualTapSound
<1>4. PendingIsOfCurrentTouch'
  BY <1>3 DEF PendingIsOfCurrentTouch
<1>5. TypedOrPending'
  <2>1. \A s \in 1..begun \ (taken \cup slid \cup dropped \cup swiped) :
           landed[s] \in Letters => press'.fired[s] = 1
    BY <1>3, ReleaseTypes DEF Sound
  <2>2. QED
    BY <1>1, <2>1 DEF TypedOrPending
<1>6. lower' \in BOOLEAN
  BY <1>1, Zenon DEF TouchInv, TypeOK
<1>7. taken' \subseteq Touches /\ dropped' \subseteq Touches /\ swiped' \subseteq Touches
  BY <1>1 DEF TouchInv, TypeOK
<1>8. QED
  BY <1>1, <1>3, <1>4, <1>5, <1>6, <1>7, QuietStep

LEMMA PuncDragStep ==
    ASSUME TouchInv, NEW k \in Letters, PuncDrag(k)
    PROVE  TouchInv'
<1> DEFINE p == Forget(press)
<1>1. /\ UNCHANGED <<currentTouch, touchCache, keyCache, begun, down, taken, under,
                     landed, slid, swiped>>
      /\ press' = KeyUp(KeyDown(p, k, 0), k)
      /\ dropped' = IF press.by = 0 THEN dropped ELSE dropped \cup {press.by}
  BY DEF PuncDrag, Drop, layer, glass
<1>2. begun \in 0..MaxTouch /\ Sound(press, begun) /\ press.by \in 0..MaxTouch
  BY DEF TouchInv, TypeOK, Sound, Press
<1>3. Sound(p, begun) /\ Grows(press, p)
  BY <1>2, ForgetSound
<1>4. /\ Sound(press', begun) /\ Grows(p, press')
      /\ press'.by = 0 /\ press'.key = Nothing
  BY <1>1, <1>2, <1>3, VirtualTapSound
<1>5. Grows(press, press')
  BY <1>2, <1>3, <1>4, GrowsTrans DEF Sound
<1>6. PendingIsOfCurrentTouch'
  BY <1>4 DEF PendingIsOfCurrentTouch
<1>7. dropped \subseteq dropped' /\ (press.by # 0 => press.by \in dropped')
  BY <1>1
<1>8. TypedOrPending'
  <2>1. \A s \in 1..begun \ (taken \cup slid \cup dropped \cup swiped) :
           landed[s] \in Letters => s = press.by \/ press'.fired[s] = 1
    BY <1>4, <1>5, OthersTyped DEF Sound
  <2>2. QED
    BY <1>1, <1>7, <2>1 DEF TypedOrPending
<1>9. lower' \in BOOLEAN /\ taken' \subseteq Touches /\ dropped' \subseteq Touches
      /\ swiped' \subseteq Touches
  <2>1. lower' \in BOOLEAN
    BY Zenon DEF PuncDrag
  <2>2. dropped' \subseteq Touches
    <3>1. press.by # 0 => press.by \in Touches
      BY <1>2 DEF Touches
    <3>2. dropped \subseteq Touches
      BY DEF TouchInv, TypeOK
    <3>3. QED
      BY <1>1, <3>1, <3>2
  <2>3. QED
    BY <1>1, <2>1, <2>2 DEF TouchInv, TypeOK
<1>10. QED
  BY <1>1, <1>4, <1>6, <1>8, <1>9, QuietStep

LEMMA TouchStep == TouchInv /\ [Next]_vars => TouchInv'
<1> SUFFICES ASSUME TouchInv, [Next]_vars PROVE TouchInv'
  OBVIOUS
<1>1. ASSUME NEW k \in Keys \cup {Nothing}, NEW early \in BOOLEAN, TouchBegins(k, early)
      PROVE  TouchInv'
  BY <1>1, BeginsStep
<1>2. ASSUME NEW t \in down,
             \/ TouchEnds(t) \/ TakenTouchEnds(t)
             \/ LongPress(t) \/ MoveCursor(t) \/ SwipeLeft(t)
      PROVE  TouchInv'
  BY <1>2, EndsStep, TakenEndsStep, LongPressStep, MoveCursorStep, SwipeLeftStep
<1>3. ASSUME NEW t \in down, NEW k \in Keys \cup {Nothing}, Slide(t, k)
      PROVE  TouchInv'
  BY <1>3, SlideStep
<1>4. CASE VBack \/ ChangeBoard
  BY <1>4, VBackStep, BoardStep
<1>5. ASSUME NEW k \in Letters, PuncDrag(k)
      PROVE  TouchInv'
  BY <1>5, PuncDragStep
<1>6. CASE UNCHANGED vars
  BY <1>6 DEF vars, layer, glass, gone, TouchInv, TypeOK, KeysKnown, PendingIsOfCurrentTouch,
              TypedOrPending
<1>7. QED
  BY <1>1, <1>2, <1>3, <1>4, <1>5, <1>6 DEF Next

(* TouchInv holds in every reachable state: fingers, gestures and the      *)
(* repeat timer keep the pending press and the touch layer in step.        *)
THEOREM TouchInvariant == Spec => []TouchInv
<1>1. Init => TouchInv
  BY TouchInit
<1>2. TouchInv /\ [Next]_vars => TouchInv'
  BY TouchStep
<1>3. QED
  BY <1>1, <1>2, PTL DEF Spec

-----------------------------------------------------------------------------
(* The properties                                                          *)

(* Every variable of the touch model keeps its type, and no touch owns a   *)
(* press when no key is pending, for any keys and number of touches.       *)
THEOREM TypeCorrect == Spec => []TypeOK
<1>1. TouchInv => TypeOK
  BY DEF TouchInv
<1>2. QED
  BY <1>1, TouchInvariant, PTL

(* One press of a key is never typed twice, however many fingers overlap.  *)
THEOREM FiresAtMostOnce == Spec => []PressFiresAtMostOnce
<1>1. TouchInv => PressFiresAtMostOnce
  BY DEF TouchInv, Sound, PressFiresAtMostOnce
<1>2. QED
  BY <1>1, TouchInvariant, PTL

(* A letter that stayed under its finger until it was lifted has been      *)
(* typed exactly once, unless a gesture took it, for any number of fingers.*)
THEOREM LettersAreTyped == Spec => []NoLetterIsLost
<1>1. TouchInv => NoLetterIsLost
  BY DEF TouchInv, TypedOrPending, NoLetterIsLost
<1>2. QED
  BY <1>1, TouchInvariant, PTL

(* TouchLayer and the controller agree on whose key is pending.            *)
THEOREM PendingFollowsCurrent == Spec => []PendingIsOfCurrentTouch
<1>1. TouchInv => PendingIsOfCurrentTouch
  BY DEF TouchInv
<1>2. QED
  BY <1>1, TouchInvariant, PTL

-----------------------------------------------------------------------------
(* The unread marks: what they rest on                                     *)

(* A counter is positive exactly for the chats with unread messages: the   *)
(* offline dictionary never decides whether a chat keeps its mark.         *)
CounterIsUnread == \A u \in Users : u \in unread <=> unreadCount[u] > 0

(* A friend of the answer that is counted and not stored yet is unread, or *)
(* was read since.                                                         *)
HalfwayIsEarned == \A u \in Users : Halfway(u) => u \in unread \cup late

(* So is every entry of the dictionary, but the one about to be dropped.   *)
EntryIsEarned ==
    \A u \in Users : offlineDict[u] > 0 =>
        \/ u \in unread \cup late
        \/ at["main"] \in {"fetch", "drop"} /\ u = opened

(* Only the friends of the answer are still to be counted.                 *)
LeftIsNamed == \A u \in left : answer[u] > 0

MarkInv == UnreadTypeOK /\ LeftIsNamed /\ CounterIsUnread /\ HalfwayIsEarned /\ EntryIsEarned

-----------------------------------------------------------------------------
(* Type correctness                                                        *)

LEMMA TypeInit == UnreadInit => UnreadTypeOK
<1>. SUFFICES ASSUME UnreadInit PROVE UnreadTypeOK
  OBVIOUS
<1>1. dotQ \in Seq(BOOLEAN) /\ dot \in BOOLEAN
  <2>1. dotQ = <<>> /\ dot = FALSE
    BY DEF UnreadInit
  <2>2. <<>> \in Seq(BOOLEAN)
    OBVIOUS
  <2>. QED
    BY <2>1, <2>2
<1>2. has \in [Queues -> BOOLEAN] /\ raced \in BOOLEAN /\ release \in BOOLEAN
  BY DEF UnreadInit
<1>3. at \in [Queues -> Places] /\ at["main"] = "idle" /\ at["net"] = "idle"
  BY DEF UnreadInit, Queues, Places
<1>4. unreadCount \in [Users -> Nat] /\ offlineDict \in [Users -> 0..MaxOffline]
  BY BoundAssumption DEF UnreadInit
<1>5. answer \in [Users -> 0..MaxOffline]
  BY BoundAssumption DEF UnreadInit
<1>6. pushes \in 0..MaxPush /\ opens \in 0..MaxOpen /\ appears \in 0..MaxAppear
  BY BoundAssumption DEF UnreadInit
<1>7. /\ targetUser \in Users \cup {None} /\ opened \in Users \cup {None}
      /\ left \subseteq Users /\ unread \subseteq Users /\ late \subseteq Users
      /\ starting \in Nat /\ asking \in Nat
  BY DEF UnreadInit
<1>. QED
  BY <1>1, <1>2, <1>3, <1>4, <1>5, <1>6, <1>7 DEF UnreadTypeOK

LEMMA TypeStep == UnreadTypeOK /\ [UnreadNext]_unreadVars => UnreadTypeOK'
<1>. SUFFICES ASSUME UnreadTypeOK, [UnreadNext]_unreadVars PROVE UnreadTypeOK'
  OBVIOUS
<1>. USE BoundAssumption
<1>1. ASSUME NEW new \in BOOLEAN, Appear(new) PROVE UnreadTypeOK'
  <2>1. dotQ' \in Seq(BOOLEAN) /\ dot' \in BOOLEAN
    <3>1. CASE new
      <4>1. dotQ' = <<>> /\ dot' = FALSE
        BY <1>1, <3>1 DEF Appear
      <4>2. <<>> \in Seq(BOOLEAN)
        OBVIOUS
      <4>. QED
        BY <4>1, <4>2
    <3>2. CASE ~new
      BY <1>1, <3>2 DEF UnreadTypeOK, Appear, bar
    <3>. QED
      BY <3>1, <3>2
  <2>2. appears' \in 0..MaxAppear /\ starting' \in Nat
    BY <1>1 DEF UnreadTypeOK, Appear
  <2>. QED
    BY <1>1, <2>1, <2>2 DEF UnreadTypeOK, Appear, dicts, reply
<1>2. CASE Login
  BY <1>2 DEF UnreadTypeOK, Login, dicts, reply, bar, bounds, Queues
<1>3. CASE ReleaseHistory
  <2>1. late' \subseteq Users /\ unread' \subseteq Users /\ release' \in BOOLEAN
    BY <1>3 DEF ReleaseHistory
  <2>2. unreadCount' \in [Users -> Nat] /\ offlineDict' \in [Users -> 0..MaxOffline]
    BY <1>3 DEF ReleaseHistory
  <2>. QED
    BY <1>3, <2>1, <2>2 DEF UnreadTypeOK, ReleaseHistory, reply, bar, logins, bounds
<1>4. ASSUME NEW msgs \in [Users -> 0..MaxOffline], OfflineArrived(msgs) PROVE UnreadTypeOK'
  <2>1. asking' \in Nat
    BY <1>4 DEF UnreadTypeOK, OfflineArrived
  <2>. QED
    BY <1>4, <2>1 DEF UnreadTypeOK, OfflineArrived, Goto, dicts, bar, bounds, Queues, Places
<1>5. CASE StoreOffline
  BY <1>5 DEF UnreadTypeOK, StoreOffline, Goto, Race, reply, bar, logins, bounds, Queues, Places
<1>6. CASE RemoveTarget
  BY <1>6 DEF UnreadTypeOK, RemoveTarget, dicts, reply, bar, logins, bounds, Queues
<1>7. CASE ClearCounter
  BY <1>7 DEF UnreadTypeOK, ClearCounter, Goto, reply, bar, logins, bounds, Queues, Places
<1>8. CASE FetchOffline
  BY <1>8 DEF UnreadTypeOK, FetchOffline, Goto, dicts, reply, bar, logins, bounds, Queues, Places
<1>9. CASE DropOffline
  BY <1>9 DEF UnreadTypeOK, DropOffline, Goto, reply, bar, logins, bounds, Queues, Places
<1>10. ASSUME NEW u \in Users, CountOffline(u) PROVE UnreadTypeOK'
  BY <1>10 DEF UnreadTypeOK, CountOffline, Race, bar, logins, bounds, Queues
<1>11. ASSUME NEW u \in Users, SetTarget(u) PROVE UnreadTypeOK'
  BY <1>11 DEF UnreadTypeOK, SetTarget, Goto, dicts, reply, bar, logins, Queues, Places
<1>12. ASSUME NEW u \in Users, NEW known \in BOOLEAN, NewMsgArrived(u, known) PROVE UnreadTypeOK'
  BY <1>12 DEF UnreadTypeOK, NewMsgArrived, Goto, Race, reply, bar, logins, Queues, Places
<1>13. ASSUME NEW q \in Queues, Look(q) PROVE UnreadTypeOK'
  BY <1>13 DEF UnreadTypeOK, Look, Goto, HasUnread, dicts, reply, bar, logins, bounds, Queues, Places
<1>14. ASSUME NEW q \in Queues, PostDot(q) PROVE UnreadTypeOK'
  BY <1>14 DEF UnreadTypeOK, PostDot, Goto, dicts, reply, logins, bounds, Queues, Places
<1>15. CASE RunDot
  BY <1>15 DEF UnreadTypeOK, RunDot, dicts, reply, logins, bounds, Queues
<1>16. CASE UNCHANGED unreadVars
  BY <1>16 DEF UnreadTypeOK, unreadVars, dicts, reply, bar, logins, bounds
<1>. QED
  BY <1>1, <1>2, <1>3, <1>4, <1>5, <1>6, <1>7, <1>8, <1>9, <1>10, <1>11, <1>12, <1>13,
     <1>14, <1>15, <1>16 DEF UnreadNext

(* The counters, the dictionaries and the positions of both queues keep    *)
(* their types: an answer is never added to one of before, and no queue    *)
(* reaches a step of the other.                                            *)
THEOREM UnreadTypesKept == UnreadSpec => []UnreadTypeOK
BY TypeInit, TypeStep, PTL DEF UnreadSpec

-----------------------------------------------------------------------------
(* Marks                                                                   *)

LEMMA MarkInit == UnreadInit => MarkInv
<1>. SUFFICES ASSUME UnreadInit PROVE MarkInv
  OBVIOUS
<1>1. UnreadTypeOK
  BY TypeInit
<1>2. CounterIsUnread /\ EntryIsEarned /\ LeftIsNamed
  BY DEF UnreadInit, CounterIsUnread, EntryIsEarned, LeftIsNamed
<1>3. HalfwayIsEarned
  BY DEF UnreadInit, HalfwayIsEarned, Halfway, Queues
<1>. QED
  BY <1>1, <1>2, <1>3 DEF MarkInv

(* A step that leaves the counters, the answer and the history alone, and  *)
(* moves no queue into or out of the steps that write them.                *)
LEMMA MarkUnchanged ==
    ASSUME MarkInv, UNCHANGED <<dicts, reply, unread, late>>,
           at'["net"] = "count" <=> at["net"] = "count",
           at["main"] \in {"fetch", "drop"} =>
               at'["main"] \in {"fetch", "drop"} /\ opened' = opened
    PROVE  CounterIsUnread' /\ HalfwayIsEarned' /\ EntryIsEarned'
<1>1. CounterIsUnread'
  BY DEF MarkInv, CounterIsUnread, dicts
<1>2. HalfwayIsEarned'
  BY DEF MarkInv, HalfwayIsEarned, Halfway, reply
<1>3. EntryIsEarned'
  BY DEF MarkInv, EntryIsEarned, dicts
<1>. QED
  BY <1>1, <1>2, <1>3

LEMMA LeftStep == LeftIsNamed /\ [UnreadNext]_unreadVars => LeftIsNamed'
<1>. SUFFICES ASSUME LeftIsNamed, [UnreadNext]_unreadVars PROVE LeftIsNamed'
  OBVIOUS
<1>1. ASSUME NEW msgs \in [Users -> 0..MaxOffline], OfflineArrived(msgs) PROVE LeftIsNamed'
  BY <1>1 DEF OfflineArrived, LeftIsNamed
<1>2. ASSUME NEW u \in Users, CountOffline(u) PROVE LeftIsNamed'
  BY <1>2 DEF CountOffline, LeftIsNamed
<1>3. CASE UNCHANGED reply
  BY <1>3 DEF reply, LeftIsNamed
<1>. QED
  BY <1>1, <1>2, <1>3 DEF UnreadNext, Appear, Login, ReleaseHistory, StoreOffline, RemoveTarget,
     ClearCounter, FetchOffline, DropOffline, SetTarget, NewMsgArrived, Look, PostDot,
     RunDot, unreadVars

LEMMA MarkStep == MarkInv /\ [UnreadNext]_unreadVars => MarkInv'
<1>. SUFFICES ASSUME MarkInv, [UnreadNext]_unreadVars PROVE CounterIsUnread' /\ HalfwayIsEarned' /\ EntryIsEarned'
  BY TypeStep, LeftStep DEF MarkInv
<1>. USE DEF MarkInv
<1>1. ASSUME NEW new \in BOOLEAN, Appear(new)
      PROVE  CounterIsUnread' /\ HalfwayIsEarned' /\ EntryIsEarned'
  BY <1>1, MarkUnchanged DEF Appear
<1>2. CASE Login
  BY <1>2, MarkUnchanged DEF Login
<1>3. CASE ReleaseHistory
  <2>1. CounterIsUnread' /\ EntryIsEarned'
    BY <1>3 DEF ReleaseHistory, CounterIsUnread, EntryIsEarned
  <2>2. HalfwayIsEarned'
    BY <1>3 DEF ReleaseHistory, HalfwayIsEarned, Halfway, reply
  <2>. QED
    BY <2>1, <2>2
<1>4. ASSUME NEW msgs \in [Users -> 0..MaxOffline], OfflineArrived(msgs)
      PROVE  CounterIsUnread' /\ HalfwayIsEarned' /\ EntryIsEarned'
  <2>1. CounterIsUnread'
    BY <1>4 DEF OfflineArrived, CounterIsUnread, dicts
  <2>2. HalfwayIsEarned'
    BY <1>4 DEF OfflineArrived, HalfwayIsEarned, Halfway
  <2>3. EntryIsEarned'
    BY <1>4 DEF OfflineArrived, EntryIsEarned, Goto, dicts, UnreadTypeOK, Queues
  <2>. QED
    BY <2>1, <2>2, <2>3
<1>5. CASE StoreOffline
  <2>1. CounterIsUnread'
    BY <1>5 DEF StoreOffline, CounterIsUnread
  <2>2. HalfwayIsEarned'
    BY <1>5 DEF StoreOffline, HalfwayIsEarned, Halfway, Goto, UnreadTypeOK, Queues
  <2>3. EntryIsEarned'
    BY <1>5 DEF StoreOffline, EntryIsEarned, HalfwayIsEarned, Halfway
  <2>. QED
    BY <2>1, <2>2, <2>3
<1>6. CASE RemoveTarget
  BY <1>6, MarkUnchanged DEF RemoveTarget
<1>7. CASE ClearCounter
  <2>1. CounterIsUnread'
    BY <1>7 DEF ClearCounter, CounterIsUnread, UnreadTypeOK
  <2>2. HalfwayIsEarned'
    BY <1>7 DEF ClearCounter, HalfwayIsEarned, Halfway, Goto, reply, UnreadTypeOK, Queues
  <2>3. EntryIsEarned'
    BY <1>7 DEF ClearCounter, EntryIsEarned, Goto, UnreadTypeOK, Queues
  <2>. QED
    BY <2>1, <2>2, <2>3
<1>8. CASE FetchOffline
  <2>1. CounterIsUnread'
    BY <1>8 DEF FetchOffline, CounterIsUnread, dicts
  <2>2. HalfwayIsEarned'
    BY <1>8 DEF FetchOffline, HalfwayIsEarned, Halfway, Goto, reply, UnreadTypeOK, Queues
  <2>3. EntryIsEarned'
    BY <1>8 DEF FetchOffline, EntryIsEarned, Goto, dicts, UnreadTypeOK, Queues
  <2>. QED
    BY <2>1, <2>2, <2>3
<1>9. CASE DropOffline
  <2>1. CounterIsUnread'
    BY <1>9 DEF DropOffline, CounterIsUnread
  <2>2. HalfwayIsEarned'
    BY <1>9 DEF DropOffline, HalfwayIsEarned, Halfway, Goto, reply, UnreadTypeOK, Queues
  <2>3. EntryIsEarned'
    BY <1>9 DEF DropOffline, EntryIsEarned, Goto, UnreadTypeOK, Queues
  <2>. QED
    BY <2>1, <2>2, <2>3
<1>10. ASSUME NEW u \in Users, CountOffline(u)
       PROVE  CounterIsUnread' /\ HalfwayIsEarned' /\ EntryIsEarned'
  <2>1. CounterIsUnread'
    <3>1. answer[u] \in Nat /\ unreadCount[u] \in Nat
      BY DEF UnreadTypeOK
    <3>2. answer[u] > 0
      BY <1>10 DEF CountOffline, LeftIsNamed
    <3>. QED
      BY <1>10, <3>1, <3>2 DEF CountOffline, CounterIsUnread, UnreadTypeOK
  <2>2. HalfwayIsEarned'
    BY <1>10 DEF CountOffline, HalfwayIsEarned, Halfway
  <2>3. EntryIsEarned'
    BY <1>10 DEF CountOffline, EntryIsEarned
  <2>. QED
    BY <2>1, <2>2, <2>3
<1>11. ASSUME NEW u \in Users, SetTarget(u)
       PROVE  CounterIsUnread' /\ HalfwayIsEarned' /\ EntryIsEarned'
  BY <1>11, MarkUnchanged DEF SetTarget, Goto, UnreadTypeOK, Queues
<1>12. ASSUME NEW u \in Users, NEW known \in BOOLEAN, NewMsgArrived(u, known)
       PROVE  CounterIsUnread' /\ HalfwayIsEarned' /\ EntryIsEarned'
  <2>1. CounterIsUnread'
    BY <1>12 DEF NewMsgArrived, CounterIsUnread, UnreadTypeOK
  <2>2. HalfwayIsEarned'
    BY <1>12 DEF NewMsgArrived, HalfwayIsEarned, Halfway, Goto, reply, UnreadTypeOK, Queues
  <2>3. EntryIsEarned'
    BY <1>12 DEF NewMsgArrived, EntryIsEarned
  <2>. QED
    BY <2>1, <2>2, <2>3
<1>13. ASSUME NEW q \in Queues, Look(q)
       PROVE  CounterIsUnread' /\ HalfwayIsEarned' /\ EntryIsEarned'
  BY <1>13, MarkUnchanged DEF Look, Goto, UnreadTypeOK, Queues
<1>14. ASSUME NEW q \in Queues, PostDot(q)
       PROVE  CounterIsUnread' /\ HalfwayIsEarned' /\ EntryIsEarned'
  BY <1>14, MarkUnchanged DEF PostDot, Goto, UnreadTypeOK, Queues
<1>15. CASE RunDot
  BY <1>15, MarkUnchanged DEF RunDot
<1>16. CASE UNCHANGED unreadVars
  BY <1>16, MarkUnchanged DEF unreadVars
<1>. QED
  BY <1>1, <1>2, <1>3, <1>4, <1>5, <1>6, <1>7, <1>8, <1>9, <1>10, <1>11, <1>12, <1>13,
     <1>14, <1>15, <1>16 DEF UnreadNext

THEOREM MarkInvariant == UnreadSpec => []MarkInv
BY MarkInit, MarkStep, PTL DEF UnreadSpec

(* No chat is marked that has no message counted since it was read, but    *)
(* for the two windows MarkIsEarned names: confirmUnreadMsg between its    *)
(* two writes, and getOfflineMsg between counting and storing.             *)
THEOREM MarksAreEarned == UnreadSpec => []MarkIsEarned
<1>1. MarkInv => MarkIsEarned
  <2>. SUFFICES ASSUME MarkInv, NEW u \in Marked
                PROVE  \/ u \in unread \cup late
                       \/ at["main"] \in {"fetch", "drop"} /\ u = opened
    BY DEF MarkIsEarned
  <2>1. u \in Users /\ unreadCount[u] \in Nat /\ offlineDict[u] \in Nat
    BY DEF MarkInv, UnreadTypeOK, Marked
  <2>2. unreadCount[u] > 0 \/ offlineDict[u] > 0
    BY <2>1 DEF Marked, Count
  <2>. QED
    BY <2>1, <2>2 DEF MarkInv, CounterIsUnread, EntryIsEarned
<1>. QED
  BY <1>1, MarkInvariant, PTL

-----------------------------------------------------------------------------
(* The promise of Inbox                                                    *)

LEMMA UnreadIsMarked == MarkInv => unread \subseteq Marked /\ Marked \subseteq Users
<1>. SUFFICES ASSUME MarkInv PROVE unread \subseteq Marked
  BY DEF Marked
<1>. SUFFICES ASSUME NEW u \in unread PROVE u \in Marked
  OBVIOUS
<1>1. u \in Users /\ unreadCount[u] \in Nat /\ offlineDict[u] \in Nat
  BY DEF MarkInv, UnreadTypeOK
<1>2. unreadCount[u] > 0
  BY <1>1 DEF MarkInv, CounterIsUnread
<1>. QED
  BY <1>1, <1>2 DEF Marked, Count

(* One more message of u marks u and leaves the other marks.               *)
LEMMA CountedIsMarked ==
    ASSUME UnreadTypeOK, NEW u \in Users, NEW n \in Nat, n > 0, UNCHANGED offlineDict,
           unreadCount' = [unreadCount EXCEPT ![u] = @ + n]
    PROVE  Marked' = Marked \cup {u}
<1>1. unreadCount'[u] + offlineDict'[u] > 0
  BY DEF UnreadTypeOK
<1>2. \A v \in Users : v # u => unreadCount'[v] + offlineDict'[v] = unreadCount[v] + offlineDict[v]
  BY DEF UnreadTypeOK
<1>. QED
  BY <1>1, <1>2 DEF Marked, Count

(* Clearing the counter of u may take the mark of u and no other.          *)
LEMMA ClearedIsMarkedOrNot ==
    ASSUME UnreadTypeOK, NEW u \in Users, UNCHANGED offlineDict,
           unreadCount' = [unreadCount EXCEPT ![u] = 0]
    PROVE  Marked' \in {Marked, Marked \ {u}}
<1>1. \A v \in Users : v # u => unreadCount'[v] + offlineDict'[v] = unreadCount[v] + offlineDict[v]
  BY DEF UnreadTypeOK
<1>2. unreadCount'[u] + offlineDict'[u] > 0 => unreadCount[u] + offlineDict[u] > 0
  BY DEF UnreadTypeOK
<1>3. CASE unreadCount'[u] + offlineDict'[u] > 0
  BY <1>1, <1>2, <1>3 DEF Marked, Count
<1>4. CASE ~(unreadCount'[u] + offlineDict'[u] > 0)
  BY <1>1, <1>4 DEF Marked, Count
<1>. QED
  BY <1>3, <1>4

LEMMA PromiseInit == UnreadInit => Promise!Init
BY DEF UnreadInit, Promise!Init, Marked, Count

LEMMA PromiseStep == MarkInv /\ MarkInv' /\ [UnreadNext]_unreadVars => [Promise!Next]_<<unread, Marked>>
<1>. SUFFICES ASSUME MarkInv, MarkInv', [UnreadNext]_unreadVars PROVE Promise!Next
  OBVIOUS
<1>a. (unread \subseteq Marked /\ Marked \subseteq Users)'
  BY UnreadIsMarked, PTL
<1>. USE DEF MarkInv
<1>1. CASE ReleaseHistory
  <2>1. unread' = {} /\ Marked' = {}
    BY <1>1 DEF ReleaseHistory, Marked, Count
  <2>. QED
    BY <2>1 DEF Promise!Next, Promise!Forget
<1>2. ASSUME NEW u \in Users, CountOffline(u) PROVE Promise!Next
  <2>1. answer[u] \in Nat /\ answer[u] > 0
    BY <1>2 DEF CountOffline, LeftIsNamed, UnreadTypeOK
  <2>2. UNCHANGED offlineDict /\ unreadCount' = [unreadCount EXCEPT ![u] = @ + answer[u]]
    BY <1>2 DEF CountOffline
  <2>3. Marked' = Marked \cup {u}
    BY <2>1, <2>2, CountedIsMarked
  <2>4. unread' = unread \cup {u}
    BY <1>2 DEF CountOffline
  <2>. QED
    BY <2>3, <2>4 DEF Promise!Next, Promise!Receive
<1>3. ASSUME NEW u \in Users, NEW known \in BOOLEAN, NewMsgArrived(u, known) PROVE Promise!Next
  <2>1. UNCHANGED offlineDict /\ unreadCount' = [unreadCount EXCEPT ![u] = @ + 1]
    BY <1>3 DEF NewMsgArrived
  <2>2. 1 \in Nat /\ 1 > 0
    OBVIOUS
  <2>3. Marked' = Marked \cup {u}
    BY <2>1, <2>2, CountedIsMarked
  <2>4. unread' = unread \cup {u}
    BY <1>3 DEF NewMsgArrived
  <2>. QED
    BY <2>3, <2>4 DEF Promise!Next, Promise!Receive
<1>4. CASE ClearCounter
  <2>1. opened \in Users
    BY <1>4 DEF ClearCounter, UnreadTypeOK
  <2>2. UNCHANGED offlineDict /\ unreadCount' = [unreadCount EXCEPT ![opened] = 0]
    BY <1>4 DEF ClearCounter
  <2>3. Marked' \in {Marked, Marked \ {opened}}
    BY <2>1, <2>2, ClearedIsMarkedOrNot
  <2>4. unread' = unread \ {opened}
    BY <1>4 DEF ClearCounter
  <2>. QED
    BY <2>1, <2>3, <2>4 DEF Promise!Next, Promise!Read
<1>5. CASE UNCHANGED unread
  <2>1. unread \subseteq Marked' /\ Marked' \subseteq Users
    BY <1>5, <1>a
  <2>. QED
    BY <1>5, <2>1 DEF Promise!Next, Promise!Remark
<1>. QED
  BY <1>1, <1>2, <1>3, <1>4, <1>5 DEF UnreadNext, Appear, Login, OfflineArrived, StoreOffline,
     RemoveTarget, FetchOffline, DropOffline, SetTarget, Look, PostDot, RunDot, unreadVars

(* The two dictionaries of MsgHistory, written by two queues and cleared   *)
(* by a third, implement Inbox: a chat with unread messages keeps its mark *)
(* until confirmUnreadMsg begins to read it or releaseHistory runs.        *)
THEOREM PromiseKept == UnreadSpec => KeepsPromise
BY PromiseInit, PromiseStep, MarkInvariant, PTL DEF UnreadSpec, KeepsPromise, Promise!Spec

-----------------------------------------------------------------------------
(* The red dot                                                             *)

(* What the dot will be once the changes already posted have run.          *)
LastDot == IF dotQ = <<>> THEN dot ELSE dotQ[Len(dotQ)]

(* The queue is on its way to look at the counters, or has seen a mark.    *)
WillLight(q) ==
    \/ at[q] \in {"clear", "fetch", "drop", "count", "look"}
    \/ at[q] = "post" /\ has[q]

(* Unless a login is about to clear everything, a mark has lit the dot or  *)
(* a queue is still to light it.                                           *)
MarkLights ==
    starting = 0 /\ ~release /\ ~raced /\ HasUnread
    => LastDot \/ \E q \in Queues : WillLight(q)

(* A queue puts the dot out only when nothing is marked.                   *)
DarkIsRight ==
    ~raced => \A q \in Queues : at[q] = "post" /\ ~has[q] => ~HasUnread

DotInv == UnreadTypeOK /\ MarkLights /\ DarkIsRight

LEMMA DotInit == UnreadInit => DotInv
<1>. SUFFICES ASSUME UnreadInit PROVE DotInv
  OBVIOUS
<1>1. UnreadTypeOK
  BY TypeInit
<1>2. ~HasUnread
  BY DEF UnreadInit, HasUnread, Marked, Count
<1>. QED
  BY <1>1, <1>2 DEF DotInv, MarkLights, DarkIsRight

(* The tail of a sequence ends as the sequence does.                       *)
LEMMA LastOfTail ==
    ASSUME NEW S, NEW s \in Seq(S), s # <<>>
    PROVE  IF Tail(s) = <<>> THEN Head(s) = s[Len(s)] ELSE Tail(s)[Len(Tail(s))] = s[Len(s)]
<1>1. Len(s) \in Nat /\ Len(s) > 0 /\ Head(s) = s[1]
  BY EmptySeq
<1>2. /\ Tail(s) \in Seq(S) /\ Len(Tail(s)) = Len(s) - 1
      /\ \A i \in 1..Len(Tail(s)) : Tail(s)[i] = s[i + 1]
  BY HeadTailProperties
<1>3. CASE Tail(s) = <<>>
  <2>1. Len(Tail(s)) = 0
    BY <1>3, EmptySeq
  <2>2. Len(Tail(s)) = Len(s) - 1 /\ Len(s) \in Nat
    BY <1>1, <1>2
  <2>3. Len(s) = 1
    BY <2>1, <2>2
  <2>. QED
    BY <1>1, <1>3, <2>3
<1>4. CASE Tail(s) # <<>>
  <2>1. Len(Tail(s)) \in Nat /\ Len(Tail(s)) > 0
    BY <1>2, <1>4, EmptySeq
  <2>. QED
    BY <1>1, <1>2, <1>4, <2>1
<1>. QED
  BY <1>3, <1>4

(* Running the first posted change leaves the last one.                    *)
LEMMA RunKeepsLast == UnreadTypeOK /\ RunDot => LastDot' = LastDot
<1>. SUFFICES ASSUME UnreadTypeOK, RunDot PROVE LastDot' = LastDot
  OBVIOUS
<1>. DEFINE Changes == BOOLEAN
<1>1. dotQ \in Seq(Changes) /\ dotQ # <<>>
  BY DEF UnreadTypeOK, RunDot
<1>. HIDE DEF Changes
<1>2. dot' = Head(dotQ) /\ dotQ' = Tail(dotQ)
  BY DEF RunDot
<1>3. IF Tail(dotQ) = <<>> THEN Head(dotQ) = dotQ[Len(dotQ)]
                           ELSE Tail(dotQ)[Len(Tail(dotQ))] = dotQ[Len(dotQ)]
  BY <1>1, LastOfTail
<1>. QED
  BY <1>1, <1>2, <1>3 DEF LastDot

LEMMA PostIsLast == \A q \in Queues : UnreadTypeOK /\ PostDot(q) => LastDot' = has[q]
<1>. SUFFICES ASSUME NEW q \in Queues, UnreadTypeOK, PostDot(q) PROVE LastDot' = has[q]
  OBVIOUS
<1>1. dotQ \in Seq(BOOLEAN) /\ has[q] \in BOOLEAN /\ dotQ' = Append(dotQ, has[q])
  BY DEF UnreadTypeOK, PostDot
<1>2. Append(dotQ, has[q]) # <<>> /\ Len(Append(dotQ, has[q])) = Len(dotQ) + 1
  BY <1>1
<1>3. Append(dotQ, has[q])[Len(dotQ) + 1] = has[q]
  BY <1>1
<1>. QED
  BY <1>1, <1>2, <1>3 DEF LastDot

(* Steps that mark no chat, post nothing and stop no queue on its way.     *)
LEMMA DotUnchanged ==
    ASSUME DotInv, LastDot' = LastDot, HasUnread' => HasUnread,
           UNCHANGED <<has, starting, release, raced>>,
           \A q \in Queues : WillLight(q) => WillLight(q)',
           \A q \in Queues : at'[q] = "post" => at[q] = "post"
    PROVE  MarkLights' /\ DarkIsRight'
BY DEF DotInv, MarkLights, DarkIsRight

(* A count is a race if the other queue is to put the dot out.             *)
LEMMA RaceShows ==
    ASSUME NEW q \in Queues, Race(q)
    PROVE  \A p \in Queues : p # q /\ at[p] = "post" /\ ~has[p] => raced'
BY DEF Race

(* Clearing the counter or the entry of one chat marks none.               *)
LEMMA ClearingMarksNone ==
    ASSUME UnreadTypeOK, NEW u \in Users,
           \/ unreadCount' = [unreadCount EXCEPT ![u] = 0] /\ UNCHANGED offlineDict
           \/ offlineDict' = [offlineDict EXCEPT ![u] = 0] /\ UNCHANGED unreadCount
    PROVE  HasUnread' => HasUnread
<1>1. \A v \in Users : unreadCount'[v] + offlineDict'[v] > 0 => unreadCount[v] + offlineDict[v] > 0
  <2>. TAKE v \in Users
  <2>1. unreadCount[v] \in Nat /\ offlineDict[v] \in Nat
    BY DEF UnreadTypeOK
  <2>2. unreadCount'[v] \in {0, unreadCount[v]} /\ offlineDict'[v] \in {0, offlineDict[v]}
    BY DEF UnreadTypeOK
  <2>. QED
    BY <2>1, <2>2
<1>. QED
  BY <1>1 DEF HasUnread, Marked, Count

LEMMA DotStep == DotInv /\ [UnreadNext]_unreadVars => DotInv'
<1>. SUFFICES ASSUME DotInv, [UnreadNext]_unreadVars PROVE MarkLights' /\ DarkIsRight'
  BY TypeStep DEF DotInv
<1>a. UnreadTypeOK
  BY DEF DotInv
<1>1. ASSUME NEW new \in BOOLEAN, Appear(new) PROVE MarkLights' /\ DarkIsRight'
  <2>1. starting' # 0
    BY <1>1, <1>a DEF Appear, UnreadTypeOK
  <2>2. DarkIsRight'
    BY <1>1 DEF Appear, DotInv, DarkIsRight, HasUnread, Marked, Count, dicts
  <2>. QED
    BY <2>1, <2>2 DEF MarkLights
<1>2. CASE Login
  BY <1>2 DEF Login, DotInv, MarkLights, DarkIsRight, HasUnread, Marked, Count, dicts
<1>3. CASE ReleaseHistory
  <2>1. ~HasUnread'
    BY <1>3 DEF ReleaseHistory, HasUnread, Marked, Count
  <2>. QED
    BY <2>1 DEF MarkLights, DarkIsRight
<1>4. ASSUME NEW msgs \in [Users -> 0..MaxOffline], OfflineArrived(msgs)
      PROVE  MarkLights' /\ DarkIsRight'
  <2>1. UNCHANGED <<dicts, has, bar, starting, release, raced>>
    BY <1>4 DEF OfflineArrived
  <2>2. at["net"] = "idle" /\ at'["net"] \in {"idle", "count"} /\ at'["main"] = at["main"]
    BY <1>4, <1>a DEF OfflineArrived, Goto, UnreadTypeOK, Queues
  <2>3. \A q \in Queues : WillLight(q) => WillLight(q)'
    BY <2>1, <2>2 DEF WillLight, Queues
  <2>4. LastDot' = LastDot /\ (HasUnread' => HasUnread)
    BY <2>1 DEF LastDot, HasUnread, Marked, Count, dicts, bar
  <2>5. \A q \in Queues : at'[q] = "post" => at[q] = "post"
    BY <2>2 DEF Queues
  <2>. QED
    BY <2>1, <2>3, <2>4, <2>5, DotUnchanged
<1>5. CASE StoreOffline
  <2>1. at'["net"] = "look" /\ at'["main"] = at["main"] /\ UNCHANGED has
    BY <1>5, <1>a DEF StoreOffline, Goto, UnreadTypeOK, Queues
  <2>2. at["main"] = "post" /\ ~has["main"] => raced'
    BY <1>5, RaceShows DEF StoreOffline, Queues
  <2>3. MarkLights'
    BY <2>1 DEF MarkLights, WillLight, Queues
  <2>4. DarkIsRight'
    BY <2>1, <2>2 DEF DarkIsRight, Queues
  <2>. QED
    BY <2>3, <2>4
<1>6. CASE RemoveTarget
  <2>1. LastDot' = LastDot /\ (HasUnread' => HasUnread)
    BY <1>6 DEF RemoveTarget, LastDot, HasUnread, Marked, Count, dicts, bar
  <2>2. UNCHANGED <<has, starting, release, raced, at>>
    BY <1>6 DEF RemoveTarget, logins
  <2>. QED
    BY <2>1, <2>2, DotUnchanged DEF WillLight
<1>7. CASE ClearCounter
  <2>1. HasUnread' => HasUnread
    BY <1>7, <1>a, ClearingMarksNone DEF ClearCounter, UnreadTypeOK
  <2>2. LastDot' = LastDot /\ UNCHANGED <<has, starting, release, raced>>
    BY <1>7 DEF ClearCounter, LastDot, bar, logins
  <2>3. at'["main"] = "fetch" /\ at'["net"] = at["net"]
    BY <1>7, <1>a DEF ClearCounter, Goto, UnreadTypeOK, Queues
  <2>4. \A q \in Queues : WillLight(q) => WillLight(q)'
    BY <2>2, <2>3 DEF WillLight, Queues
  <2>5. \A q \in Queues : at'[q] = "post" => at[q] = "post"
    BY <2>3 DEF Queues
  <2>. QED
    BY <2>1, <2>2, <2>4, <2>5, DotUnchanged
<1>8. CASE FetchOffline
  <2>1. LastDot' = LastDot /\ (HasUnread' => HasUnread)
    BY <1>8 DEF FetchOffline, LastDot, HasUnread, Marked, Count, dicts, bar
  <2>2. UNCHANGED <<has, starting, release, raced>>
    BY <1>8 DEF FetchOffline, logins
  <2>3. at'["main"] \in {"drop", "look"} /\ at'["net"] = at["net"]
    BY <1>8, <1>a DEF FetchOffline, Goto, UnreadTypeOK, Queues
  <2>4. \A q \in Queues : WillLight(q) => WillLight(q)'
    BY <2>2, <2>3 DEF WillLight, Queues
  <2>5. \A q \in Queues : at'[q] = "post" => at[q] = "post"
    BY <2>3 DEF Queues
  <2>. QED
    BY <2>1, <2>2, <2>4, <2>5, DotUnchanged
<1>9. CASE DropOffline
  <2>1. HasUnread' => HasUnread
    BY <1>9, <1>a, ClearingMarksNone DEF DropOffline, UnreadTypeOK
  <2>2. LastDot' = LastDot /\ UNCHANGED <<has, starting, release, raced>>
    BY <1>9 DEF DropOffline, LastDot, bar, logins
  <2>3. at'["main"] = "look" /\ at'["net"] = at["net"]
    BY <1>9, <1>a DEF DropOffline, Goto, UnreadTypeOK, Queues
  <2>4. \A q \in Queues : WillLight(q) => WillLight(q)'
    BY <2>2, <2>3 DEF WillLight, Queues
  <2>5. \A q \in Queues : at'[q] = "post" => at[q] = "post"
    BY <2>3 DEF Queues
  <2>. QED
    BY <2>1, <2>2, <2>4, <2>5, DotUnchanged
<1>10. ASSUME NEW u \in Users, CountOffline(u) PROVE MarkLights' /\ DarkIsRight'
  <2>1. at'["net"] = "count" /\ at'["main"] = at["main"] /\ UNCHANGED has
    BY <1>10 DEF CountOffline
  <2>2. at["main"] = "post" /\ ~has["main"] => raced'
    BY <1>10, RaceShows DEF CountOffline, Queues
  <2>3. MarkLights'
    BY <2>1 DEF MarkLights, WillLight, Queues
  <2>4. DarkIsRight'
    BY <2>1, <2>2 DEF DarkIsRight, Queues
  <2>. QED
    BY <2>3, <2>4
<1>11. ASSUME NEW u \in Users, SetTarget(u) PROVE MarkLights' /\ DarkIsRight'
  <2>1. LastDot' = LastDot /\ (HasUnread' => HasUnread)
    BY <1>11 DEF SetTarget, LastDot, HasUnread, Marked, Count, dicts, bar
  <2>2. UNCHANGED <<has, starting, release, raced>>
    BY <1>11 DEF SetTarget, logins
  <2>3. at'["main"] = "clear" /\ at'["net"] = at["net"]
    BY <1>11, <1>a DEF SetTarget, Goto, UnreadTypeOK, Queues
  <2>4. \A q \in Queues : WillLight(q) => WillLight(q)'
    BY <2>2, <2>3 DEF WillLight, Queues
  <2>5. \A q \in Queues : at'[q] = "post" => at[q] = "post"
    BY <2>3 DEF Queues
  <2>. QED
    BY <2>1, <2>2, <2>4, <2>5, DotUnchanged
<1>12. ASSUME NEW u \in Users, NEW known \in BOOLEAN, NewMsgArrived(u, known)
       PROVE  MarkLights' /\ DarkIsRight'
  <2>1. at'["main"] = "look" /\ at'["net"] = at["net"] /\ UNCHANGED has
    BY <1>12, <1>a DEF NewMsgArrived, Goto, UnreadTypeOK, Queues
  <2>2. at["net"] = "post" /\ ~has["net"] => raced'
    BY <1>12, RaceShows DEF NewMsgArrived, Queues
  <2>3. MarkLights'
    BY <2>1 DEF MarkLights, WillLight, Queues
  <2>4. DarkIsRight'
    BY <2>1, <2>2 DEF DarkIsRight, Queues
  <2>. QED
    BY <2>3, <2>4
<1>13. ASSUME NEW q \in Queues, Look(q) PROVE MarkLights' /\ DarkIsRight'
  <2>1. at' = [at EXCEPT ![q] = "post"] /\ has' = [has EXCEPT ![q] = HasUnread]
    BY <1>13 DEF Look, Goto
  <2>2. HasUnread' = HasUnread /\ raced' = raced
    BY <1>13 DEF Look, HasUnread, Marked, Count, dicts
  <2>3. at'[q] = "post" /\ has'[q] = HasUnread
    BY <2>1, <1>a DEF UnreadTypeOK
  <2>4. \A p \in Queues : p # q => at'[p] = at[p] /\ has'[p] = has[p]
    BY <2>1, <1>a DEF UnreadTypeOK
  <2>5. MarkLights'
    BY <2>2, <2>3 DEF MarkLights, WillLight
  <2>6. DarkIsRight'
    BY <2>2, <2>3, <2>4 DEF DotInv, DarkIsRight
  <2>. QED
    BY <2>5, <2>6
<1>14. ASSUME NEW q \in Queues, PostDot(q) PROVE MarkLights' /\ DarkIsRight'
  <2>1. LastDot' = has[q]
    BY <1>14, <1>a, PostIsLast
  <2>2. UNCHANGED <<has, raced>> /\ (HasUnread' <=> HasUnread) /\ at[q] = "post"
    BY <1>14 DEF PostDot, HasUnread, Marked, Count, dicts
  <2>3. \A p \in Queues : at'[p] = "post" => at[p] = "post"
    BY <1>14, <1>a DEF PostDot, Goto, UnreadTypeOK
  <2>4. MarkLights'
    BY <2>1, <2>2 DEF DotInv, MarkLights, DarkIsRight
  <2>5. DarkIsRight'
    BY <2>2, <2>3 DEF DotInv, DarkIsRight
  <2>. QED
    BY <2>4, <2>5
<1>15. CASE RunDot
  <2>1. LastDot' = LastDot
    BY <1>15, <1>a, RunKeepsLast
  <2>2. UNCHANGED <<has, starting, release, raced, at>> /\ (HasUnread' => HasUnread)
    BY <1>15 DEF RunDot, HasUnread, Marked, Count, dicts, logins
  <2>. QED
    BY <2>1, <2>2, DotUnchanged DEF WillLight
<1>16. CASE UNCHANGED unreadVars
  <2>1. LastDot' = LastDot /\ (HasUnread' => HasUnread)
    BY <1>16 DEF unreadVars, LastDot, HasUnread, Marked, Count, dicts, bar
  <2>2. UNCHANGED <<has, starting, release, raced, at>>
    BY <1>16 DEF unreadVars, logins
  <2>. QED
    BY <2>1, <2>2, DotUnchanged DEF WillLight
<1>. QED
  BY <1>1, <1>2, <1>3, <1>4, <1>5, <1>6, <1>7, <1>8, <1>9, <1>10, <1>11, <1>12, <1>13,
     <1>14, <1>15, <1>16 DEF UnreadNext

(* When the keyboard rests, a mark in the contact list lights the red dot, *)
(* whatever order hasUnreadMsg ran in on the two queues, unless a message  *)
(* was counted between its answer and newMsgRead.                          *)
THEOREM DotIsShown == UnreadSpec => []DotShowsUnread
<1>1. DotInv => DotShowsUnread
  BY DEF DotInv, MarkLights, DotShowsUnread, WillLight, LastDot, Queues
<1>. QED
  BY <1>1, DotInit, DotStep, PTL DEF UnreadSpec

-----------------------------------------------------------------------------
(* Sentences: what the stacks keep, whatever the data base answers         *)

(* A set of natural numbers that is not empty has a least element.         *)
LEMMA Least ==
    ASSUME NEW T \in SUBSET Nat, T # {}
    PROVE  \E m \in T : \A k \in T : m <= k
<1>1. \E x \in T : \A y \in T : ~ (<<y, x>> \in OpToRel(<, Nat))
  BY NatLessThanWellFounded, WFMin
<1>2. PICK x \in T : \A y \in T : ~ (<<y, x>> \in OpToRel(<, Nat))
  BY <1>1
<1>3. \A y \in T : ~ (y < x)
  BY <1>2 DEF OpToRel
<1>. QED
  BY <1>3

(* The scores of a sequence of items are integers.                         *)
LEMMA ScoreInt ==
    ASSUME NEW S, \A x \in S : x.score \in Int, NEW s \in Seq(S), NEW i \in 1..Len(s)
    PROVE  s[i] \in S /\ s[i].score \in Int
BY ElementOfSeq

LEMMA MiddleRange ==
    ASSUME NEW S, NEW s \in Seq(S), s # <<>>
    PROVE  Middle(s) \in 1..Len(s)
<1>1. Len(s) \in Nat /\ Len(s) # 0
  BY LenProperties, EmptySeq
<1>. QED
  BY <1>1 DEF Middle

-----------------------------------------------------------------------------
(* The place of a new item                                                 *)

(* The scan from the middle to the front ends.                             *)
LEMMA FrontExists ==
    ASSUME NEW S, \A x \in S : x.score \in Int,
           NEW s \in Seq(S), s # <<>>, NEW e \in S, e.score > s[Middle(s)].score
    PROVE  \E p \in 1..Middle(s) :
               /\ p > 1 => s[p - 1].score >= e.score
               /\ \A q \in p..Middle(s) : s[q].score < e.score
<1>. DEFINE m == Middle(s)
            T == {p \in 1..m : \A q \in p..m : s[q].score < e.score}
<1>1. m \in 1..Len(s) /\ Len(s) \in Nat /\ e.score \in Int
  BY MiddleRange, LenProperties
<1>2. \A i \in 1..m : s[i].score \in Int
  BY <1>1, ScoreInt
<1>3. m \in T
  <2>1. \A q \in m..m : q = m
    BY <1>1
  <2>2. s[m].score < e.score
    BY <1>1, <1>2
  <2>. QED
    BY <2>1, <2>2, <1>1
<1>4. T \in SUBSET Nat
  BY <1>1
<1>5. PICK p \in T : \A k \in T : p <= k
  <2>. HIDE DEF T
  <2>. QED
    BY <1>3, <1>4, Least
<1>6. ASSUME p > 1 PROVE s[p - 1].score >= e.score
  <2>1. p - 1 \in 1..m
    BY <1>5, <1>6, <1>1
  <2>2. p - 1 \notin T
    <3>. HIDE DEF T
    <3>. QED
      BY <1>5, <1>4, <2>1
  <2>3. PICK q \in (p - 1)..m : ~ (s[q].score < e.score)
    BY <2>1, <2>2
  <2>4. q \notin p..m
    BY <1>5, <2>3
  <2>5. q = p - 1
    BY <2>3, <2>4, <1>1, <1>5
  <2>. QED
    BY <2>3, <2>5, <2>1, <1>2, <1>1
<1>. QED
  BY <1>5, <1>6

(* The scan from the middle to the end ends.                               *)
LEMMA BackExists ==
    ASSUME NEW S, \A x \in S : x.score \in Int, NEW s \in Seq(S), s # <<>>, NEW e \in S
    PROVE  \E p \in Middle(s)..(Len(s) + 1) :
               /\ p <= Len(s) => s[p].score <= e.score
               /\ \A q \in Middle(s)..(p - 1) : s[q].score > e.score
<1>. DEFINE m == Middle(s)
            n == Len(s)
            T == {p \in m..(n + 1) : p <= n => s[p].score <= e.score}
<1>1. m \in 1..n /\ n \in Nat /\ e.score \in Int
  BY MiddleRange, LenProperties
<1>2. \A i \in 1..n : s[i].score \in Int
  BY <1>1, ScoreInt
<1>3. n + 1 \in T
  BY <1>1
<1>4. T \in SUBSET Nat
  BY <1>1
<1>5. PICK p \in T : \A k \in T : p <= k
  <2>. HIDE DEF T
  <2>. QED
    BY <1>3, <1>4, Least
<1>6. ASSUME NEW q \in m..(p - 1) PROVE s[q].score > e.score
  <2>1. q \in m..n /\ q < p
    BY <1>1, <1>5
  <2>2. q \notin T
    <3>. HIDE DEF T
    <3>. QED
      BY <1>5, <1>4, <2>1, <1>1
  <2>3. ~ (s[q].score <= e.score)
    BY <2>1, <2>2, <1>1
  <2>4. s[q].score \in Int
    BY <2>1, <1>1, <1>2
  <2>. QED
    BY <2>3, <2>4, <1>1
<1>. QED
  BY <1>5, <1>6

(* In a stack that is in order, all before the place are no worse than the *)
(* new item and all behind it are no better.                               *)
LEMMA PlaceFits ==
    ASSUME NEW S, \A x \in S : x.score \in Int,
           NEW s \in Seq(S), s # <<>>, Sorted(s), NEW e \in S
    PROVE  /\ Place(s, e) \in 1..(Len(s) + 1)
           /\ \A q \in 1..(Place(s, e) - 1) : s[q].score >= e.score
           /\ \A q \in Place(s, e)..Len(s) : s[q].score <= e.score
<1>. DEFINE m == Middle(s)
            n == Len(s)
            p == Place(s, e)
<1>1. m \in 1..n /\ n \in Nat /\ e.score \in Int /\ DOMAIN s = 1..n
  BY MiddleRange, LenProperties
<1>2. \A i \in 1..n : s[i].score \in Int
  BY <1>1, ScoreInt
<1>3. \A i, j \in 1..n : i <= j => s[i].score >= s[j].score
  <2>. SUFFICES ASSUME NEW i \in 1..n, NEW j \in 1..n, i <= j PROVE s[i].score >= s[j].score
    OBVIOUS
  <2>1. CASE i = j
    BY <2>1, <1>2
  <2>2. CASE i < j
    BY <2>2, <1>1 DEF Sorted
  <2>. QED
    BY <2>1, <2>2, <1>1
<1>4. CASE e.score > s[m].score
  <2>1. /\ p \in 1..m
        /\ p > 1 => s[p - 1].score >= e.score
        /\ \A q \in p..m : s[q].score < e.score
    BY <1>4, FrontExists DEF Place
  <2>. HIDE DEF p
  <2>2. p \in 1..(n + 1)
    BY <2>1, <1>1
  <2>3. ASSUME NEW q \in 1..(p - 1) PROVE s[q].score >= e.score
    <3>1. p > 1 /\ q \in 1..n /\ p - 1 \in 1..n /\ q <= p - 1
      BY <2>1, <2>2, <1>1
    <3>2. s[q].score >= s[p - 1].score /\ s[p - 1].score >= e.score
      BY <3>1, <1>3, <2>1
    <3>. QED
      BY <3>1, <3>2, <1>1, <1>2
  <2>4. ASSUME NEW q \in p..n PROVE s[q].score <= e.score
    <3>1. q \in 1..n
      BY <2>1, <1>1
    <3>2. CASE q <= m
      <4>1. s[q].score < e.score
        BY <3>1, <3>2, <2>1, <1>1
      <4>. QED
        BY <4>1, <3>1, <1>1, <1>2
    <3>3. CASE m <= q
      <4>1. s[m].score >= s[q].score
        BY <3>1, <3>3, <1>1, <1>3
      <4>. QED
        BY <4>1, <1>4, <3>1, <1>1, <1>2
    <3>. QED
      BY <3>1, <3>2, <3>3, <1>1
  <2>. QED
    BY <2>2, <2>3, <2>4 DEF p
<1>5. CASE ~ (e.score > s[m].score)
  <2>1. /\ p \in m..(n + 1)
        /\ p <= n => s[p].score <= e.score
        /\ \A q \in m..(p - 1) : s[q].score > e.score
    BY <1>5, BackExists DEF Place
  <2>. HIDE DEF p
  <2>2. p \in 1..(n + 1)
    BY <2>1, <1>1
  <2>3. ASSUME NEW q \in 1..(p - 1) PROVE s[q].score >= e.score
    <3>1. q \in 1..n
      BY <2>2, <1>1
    <3>2. CASE m <= q
      <4>1. s[q].score > e.score
        BY <3>1, <3>2, <2>1, <2>2, <1>1
      <4>. QED
        BY <4>1, <3>1, <1>1, <1>2
    <3>3. CASE q <= m
      <4>1. s[q].score >= s[m].score
        BY <3>1, <3>3, <1>1, <1>3
      <4>. QED
        BY <4>1, <1>5, <3>1, <1>1, <1>2
    <3>. QED
      BY <3>1, <3>2, <3>3, <1>1
  <2>4. ASSUME NEW q \in p..n PROVE s[q].score <= e.score
    <3>1. q \in 1..n /\ p \in 1..n /\ p <= q
      BY <2>2, <1>1
    <3>2. s[p].score <= e.score /\ s[p].score >= s[q].score
      BY <3>1, <2>1, <1>3
    <3>. QED
      BY <3>1, <3>2, <1>1, <1>2
  <2>. QED
    BY <2>2, <2>3, <2>4 DEF p
<1>. QED
  BY <1>4, <1>5

-----------------------------------------------------------------------------
(* The push                                                                *)

(* Inserting keeps the order, and every item.                              *)
LEMMA InsertedFits ==
    ASSUME NEW S, \A x \in S : x.score \in Int, NEW s \in Seq(S), Sorted(s), NEW e \in S
    PROVE  /\ Inserted(s, e) \in Seq(S)
           /\ Len(Inserted(s, e)) = Len(s) + 1
           /\ Sorted(Inserted(s, e))
           /\ Elements(Inserted(s, e)) = Elements(s) \cup {e}
<1>. DEFINE n == Len(s)
            r == Inserted(s, e)
<1>1. n \in Nat /\ DOMAIN s = 1..n /\ e.score \in Int
  BY LenProperties
<1>2. \A i \in 1..n : s[i] \in S /\ s[i].score \in Int
  BY <1>1, ScoreInt
<1>3. CASE s = <<>>
  <2>1. r = <<e>> /\ n = 0
    BY <1>3, EmptySeq DEF Inserted
  <2>2. r \in Seq(S) /\ Len(r) = 1 /\ DOMAIN r = {1} /\ r[1] = e
    BY <2>1
  <2>3. Elements(s) = {}
    BY <1>1, <2>1 DEF Elements
  <2>. QED
    BY <2>1, <2>2, <2>3 DEF Sorted, Elements
<1>4. CASE s # <<>>
  <2>. DEFINE p == Place(s, e)
              a == SubSeq(s, 1, p - 1)
              b == SubSeq(s, p, n)
  <2>1. /\ p \in 1..(n + 1)
        /\ \A q \in 1..(p - 1) : s[q].score >= e.score
        /\ \A q \in p..n : s[q].score <= e.score
    BY <1>4, PlaceFits
  <2>2. r = (a \o <<e>>) \o b
    BY <1>4 DEF Inserted, InsertAt
  <2>. HIDE DEF p
  <2>3. a \in Seq(S) /\ Len(a) = p - 1 /\ \A i \in 1..(p - 1) : a[i] = s[i]
    <3>1. \A i \in 1..(p - 1) : s[i] \in S
      BY <2>1, <1>1, <1>2
    <3>2. /\ a \in Seq(S)
          /\ Len(a) = IF 1 <= p - 1 THEN p - 1 - 1 + 1 ELSE 0
          /\ \A i \in 1..(p - 1 - 1 + 1) : a[i] = s[1 + i - 1]
      BY <3>1, <2>1, SubSeqProperties
    <3>. HIDE DEF a
    <3>. QED
      BY <3>2, <2>1, <1>1
  <2>4. b \in Seq(S) /\ Len(b) = n - p + 1 /\ \A i \in 1..(n - p + 1) : b[i] = s[p + i - 1]
    <3>1. \A i \in p..n : s[i] \in S
      BY <2>1, <1>1, <1>2
    <3>2. /\ b \in Seq(S)
          /\ Len(b) = IF p <= n THEN n - p + 1 ELSE 0
          /\ \A i \in 1..(n - p + 1) : b[i] = s[p + i - 1]
      BY <3>1, <2>1, <1>1, SubSeqProperties
    <3>. HIDE DEF b
    <3>3. Len(b) = n - p + 1
      <4>1. n \in Nat /\ p \in 1..(n + 1)
        BY <2>1, <1>1
      <4>2. (IF p <= n THEN n - p + 1 ELSE 0) = n - p + 1
        BY ONLY <4>1
      <4>. QED
        BY <3>2, <4>2
    <3>. QED
      BY <3>2, <3>3
  <2>. HIDE DEF a, b
  <2>5. <<e>> \in Seq(S) /\ Len(<<e>>) = 1 /\ <<e>>[1] = e
    OBVIOUS
  <2>6. /\ a \o <<e>> \in Seq(S) /\ Len(a \o <<e>>) = p
        /\ \A i \in 1..p : (a \o <<e>>)[i] = IF i < p THEN s[i] ELSE e
    <3>1. /\ a \o <<e>> \in Seq(S) /\ Len(a \o <<e>>) = Len(a) + 1
          /\ \A i \in 1..(Len(a) + 1) : (a \o <<e>>)[i] = IF i <= Len(a) THEN a[i] ELSE <<e>>[i - Len(a)]
      BY <2>3, <2>5, ConcatProperties
    <3>2. ASSUME NEW i \in 1..p PROVE (a \o <<e>>)[i] = IF i < p THEN s[i] ELSE e
      <4>1. CASE i < p
        <5>1. i \in 1..(Len(a) + 1) /\ i <= Len(a) /\ i \in 1..(p - 1)
          BY <4>1, <2>3, <2>1
        <5>. QED
          BY <4>1, <5>1, <3>1, <2>3
      <4>2. CASE i = p
        <5>1. i \in 1..(Len(a) + 1) /\ ~(i <= Len(a)) /\ ~(i < p) /\ i - Len(a) = 1
          BY <4>2, <2>3, <2>1
        <5>2. (a \o <<e>>)[i] = <<e>>[1]
          BY <5>1, <3>1
        <5>. QED
          BY <5>1, <5>2
      <4>3. i < p \/ i = p
        BY <2>1
      <4>. QED
        BY <4>1, <4>2, <4>3, Zenon
    <3>. QED
      BY <3>1, <3>2, <2>3, <2>1
  <2>7. /\ r \in Seq(S) /\ Len(r) = n + 1
        /\ \A i \in 1..(n + 1) : r[i] = IF i < p THEN s[i] ELSE IF i = p THEN e ELSE s[i - 1]
    <3>. DEFINE c == a \o <<e>>
    <3>1. c \in Seq(S) /\ Len(c) = p /\ \A i \in 1..p : c[i] = IF i < p THEN s[i] ELSE e
      BY <2>6
    <3>2. r = c \o b
      BY <2>2
    <3>. HIDE DEF c, r
    <3>3. /\ r \in Seq(S) /\ Len(r) = p + (n - p + 1)
          /\ \A i \in 1..(p + (n - p + 1)) : r[i] = IF i <= p THEN c[i] ELSE b[i - p]
      BY <3>1, <3>2, <2>4, ConcatProperties
    <3>4. ASSUME NEW i \in 1..(n + 1)
          PROVE  r[i] = IF i < p THEN s[i] ELSE IF i = p THEN e ELSE s[i - 1]
      <4>1. CASE i <= p
        BY <4>1, <3>1, <3>3, <2>1, <1>1
      <4>2. CASE i > p
        <5>1. i - p \in 1..(n - p + 1) /\ p + (i - p) - 1 = i - 1
          BY <4>2, <2>1, <1>1
        <5>2. b[i - p] = s[i - 1]
          BY <5>1, <2>4
        <5>3. i \in 1..(p + (n - p + 1)) /\ ~(i <= p) /\ ~(i < p) /\ i # p
          BY <4>2, <2>1, <1>1
        <5>4. r[i] = b[i - p]
          BY <5>3, <3>3
        <5>. QED
          BY <5>2, <5>3, <5>4
      <4>. QED
        BY <4>1, <4>2, <2>1, <1>1
    <3>. QED
      BY <3>3, <3>4, <2>1, <1>1
  <2>. HIDE DEF r
  <2>8. Sorted(r)
    <3>1. DOMAIN r = 1..(n + 1)
      BY <2>7, LenProperties
    <3>2. \A i, j \in 1..n : i < j => s[i].score >= s[j].score
      BY <1>1 DEF Sorted
    <3>. SUFFICES ASSUME NEW i \in 1..(n + 1), NEW j \in 1..(n + 1), i < j
                  PROVE  r[i].score >= r[j].score
      BY <3>1 DEF Sorted
    <3>3. CASE j < p
      BY <3>3, <3>2, <2>7, <2>1, <1>1
    <3>4. CASE j = p
      <4>1. i \in 1..(p - 1) /\ i < p /\ ~(j < p)
        BY <3>4, <2>1, <1>1
      <4>2. r[i] = s[i] /\ r[j] = e
        BY <4>1, <3>4, <2>7
      <4>. QED
        BY <4>1, <4>2, <2>1
    <3>5. CASE j > p /\ i = p
      <4>1. j - 1 \in p..n /\ r[j] = s[j - 1] /\ r[i] = e
        BY <3>5, <2>7, <2>1, <1>1
      <4>2. s[j - 1].score <= e.score
        BY <4>1, <2>1
      <4>3. s[j - 1].score \in Int
        BY <4>1, <2>1, <1>1, <1>2
      <4>. QED
        BY <4>1, <4>2, <4>3, <1>1
    <3>6. CASE j > p /\ i < p
      <4>1. i \in 1..(p - 1) /\ i \in 1..n /\ j - 1 \in p..n /\ j - 1 \in 1..n /\ i < j - 1
        BY <3>6, <2>1, <1>1
      <4>2. r[i] = s[i] /\ r[j] = s[j - 1]
        BY <3>6, <2>7, <2>1, <1>1
      <4>. QED
        BY <4>1, <4>2, <3>2
    <3>7. CASE j > p /\ i > p
      <4>1. i - 1 \in 1..n /\ j - 1 \in 1..n /\ i - 1 < j - 1
        BY <3>7, <2>1, <1>1
      <4>2. r[i] = s[i - 1] /\ r[j] = s[j - 1]
        BY <3>7, <2>7, <2>1, <1>1
      <4>. QED
        BY <4>1, <4>2, <3>2
    <3>. QED
      BY <3>3, <3>4, <3>5, <3>6, <3>7, <2>1, <1>1
  <2>9. Elements(r) = Elements(s) \cup {e}
    <3>1. DOMAIN r = 1..(n + 1)
      BY <2>7, LenProperties
    <3>2. ASSUME NEW x \in Elements(r) PROVE x \in Elements(s) \cup {e}
      <4>1. PICK i \in 1..(n + 1) : x = r[i]
        BY <3>1 DEF Elements
      <4>2. CASE i < p
        <5>1. i \in 1..n /\ r[i] = s[i]
          BY <4>2, <2>7, <2>1, <1>1
        <5>. QED
          BY <4>1, <5>1, <1>1 DEF Elements
      <4>3. CASE i = p
        BY <4>1, <4>3, <2>7
      <4>4. CASE i > p
        <5>1. i - 1 \in 1..n /\ r[i] = s[i - 1]
          BY <4>4, <2>7, <2>1, <1>1
        <5>. QED
          BY <4>1, <5>1, <1>1 DEF Elements
      <4>. QED
        BY <4>2, <4>3, <4>4, <2>1, <1>1
    <3>3. ASSUME NEW x \in Elements(s) PROVE x \in Elements(r)
      <4>1. PICK i \in 1..n : x = s[i]
        BY <1>1 DEF Elements
      <4>2. CASE i < p
        <5>1. i \in 1..(n + 1) /\ r[i] = s[i]
          BY <4>2, <2>7, <1>1
        <5>. QED
          BY <4>1, <5>1, <3>1 DEF Elements
      <4>3. CASE i >= p
        <5>1. i + 1 \in 1..(n + 1) /\ r[i + 1] = s[i]
          BY <4>3, <2>7, <2>1, <1>1
        <5>. QED
          BY <4>1, <5>1, <3>1 DEF Elements
      <4>. QED
        BY <4>2, <4>3, <2>1, <1>1
    <3>4. e \in Elements(r)
      <4>1. p \in 1..(n + 1) /\ r[p] = e
        BY <2>7, <2>1
      <4>. QED
        BY <4>1, <3>1 DEF Elements
    <3>. QED
      BY <3>2, <3>3, <3>4
  <2>. QED
    BY <2>7, <2>8, <2>9 DEF r
<1>. QED
  BY <1>3, <1>4

(* A push keeps the stack in order and within its length, forgets nothing  *)
(* unless it is full, and nothing that is better than an item it keeps.    *)
THEOREM PushFits ==
    ASSUME NEW S, \A x \in S : x.score \in Int, NEW max \in Nat \ {0},
           NEW s \in Seq(S), Sorted(s), Len(s) <= max, NEW e \in S
    PROVE  LET r == Push(s, max, e) IN
           /\ r \in Seq(S) /\ Sorted(r)
           /\ Len(r) = IF Len(s) = max THEN max ELSE Len(s) + 1
           /\ Elements(r) \subseteq Elements(s) \cup {e}
           /\ \A x \in (Elements(s) \cup {e}) \ Elements(r) :
                 Len(r) = max /\ \A j \in 1..max : r[j].score >= x.score
           /\ Len(s) = max => \A j \in 1..max : r[j].score >= s[max].score
<1>. DEFINE n == Len(s)
            t == Inserted(s, e)
            r == Push(s, max, e)
<1>1. n \in Nat /\ DOMAIN s = 1..n /\ e.score \in Int
  BY LenProperties
<1>2. \A i \in 1..n : s[i] \in S /\ s[i].score \in Int
  BY <1>1, ScoreInt
<1>3. t \in Seq(S) /\ Len(t) = n + 1 /\ Sorted(t) /\ Elements(t) = Elements(s) \cup {e}
  BY InsertedFits
<1>4. DOMAIN t = 1..(n + 1)
  BY <1>3, LenProperties
<1>5. \A i \in 1..(n + 1) : t[i] \in S /\ t[i].score \in Int
  BY <1>3, ScoreInt
<1>6. \A i, j \in 1..(n + 1) : i <= j => t[i].score >= t[j].score
  <2>. SUFFICES ASSUME NEW i \in 1..(n + 1), NEW j \in 1..(n + 1), i <= j
                PROVE  t[i].score >= t[j].score
    OBVIOUS
  <2>. HIDE DEF t
  <2>1. CASE i = j
    BY <2>1, <1>5
  <2>2. CASE i < j
    BY <2>2, <1>3, <1>4 DEF Sorted
  <2>. QED
    BY <2>1, <2>2, <1>1
<1>7. CASE Refused(s, max, e)
  <2>1. r = s /\ n = max /\ e.score < s[n].score
    BY <1>7 DEF Push, Refused
  <2>2. \A j \in 1..max : r[j].score >= s[max].score
    <3>. SUFFICES ASSUME NEW j \in 1..max PROVE s[j].score >= s[max].score
      BY <2>1
    <3>1. CASE j = max
      BY <3>1, <2>1, <1>2
    <3>2. CASE j < max
      BY <3>2, <2>1, <1>1 DEF Sorted
    <3>. QED
      BY <3>1, <3>2, <1>1
  <2>3. \A j \in 1..max : r[j].score >= e.score
    <3>. SUFFICES ASSUME NEW j \in 1..max PROVE s[j].score >= e.score
      BY <2>1
    <3>1. s[j].score >= s[max].score /\ s[max].score > e.score
      BY <2>1, <2>2
    <3>. QED
      BY <3>1, <2>1, <1>1, <1>2
  <2>4. \A x \in (Elements(s) \cup {e}) \ Elements(r) : x = e
    BY <2>1
  <2>. QED
    BY <2>1, <2>2, <2>3, <2>4
<1>8. CASE ~Refused(s, max, e) /\ n < max
  <2>1. r = t
    BY <1>8, <1>3, <1>1 DEF Push, Cut
  <2>. HIDE DEF t, r
  <2>2. n # max
    <3>1. n \in Nat /\ max \in Nat /\ n < max
      BY <1>8, LenProperties
    <3>. QED
      BY <3>1
  <2>3. Len(r) = n + 1 /\ (Elements(s) \cup {e}) \ Elements(r) = {}
    BY <2>1, <1>3
  <2>. QED
    BY <2>1, <2>2, <2>3, <1>3 DEF r
<1>9. CASE ~Refused(s, max, e) /\ n = max
  <2>1. r = SubSeq(t, 1, max)
    BY <1>9, <1>3, <1>1 DEF Push, Cut
  <2>2. e.score >= s[max].score
    BY <1>9, <1>1, <1>2 DEF Refused
  <2>. HIDE DEF t
  <2>3. r \in Seq(S) /\ Len(r) = max /\ \A i \in 1..max : r[i] = t[i]
    <3>1. \A i \in 1..max : t[i] \in S
      BY <1>5, <1>9, <1>1
    <3>2. /\ SubSeq(t, 1, max) \in Seq(S)
          /\ Len(SubSeq(t, 1, max)) = IF 1 <= max THEN max - 1 + 1 ELSE 0
          /\ \A i \in 1..(max - 1 + 1) : SubSeq(t, 1, max)[i] = t[1 + i - 1]
      BY <3>1, SubSeqProperties
    <3>. HIDE DEF r
    <3>. QED
      BY <3>2, <2>1
  <2>. HIDE DEF r
  <2>4. DOMAIN r = 1..max
    BY <2>3, LenProperties
  <2>5. Sorted(r)
    BY <2>3, <2>4, <1>6, <1>9, <1>1 DEF Sorted
  <2>6. Elements(r) \subseteq Elements(t)
    <3>1. ASSUME NEW x \in Elements(r) PROVE x \in Elements(t)
      <4>1. PICK i \in 1..max : x = r[i]
        BY <2>4 DEF Elements
      <4>2. i \in DOMAIN t /\ x = t[i]
        BY <4>1, <2>3, <1>4, <1>9, <1>1
      <4>. QED
        BY <4>2 DEF Elements
    <3>. QED
      BY <3>1
  <2>7. ASSUME NEW x \in Elements(t) \ Elements(r)
        PROVE  \A j \in 1..max : r[j].score >= x.score
    <3>1. PICK i \in 1..(n + 1) : x = t[i]
      BY <1>4 DEF Elements
    <3>2. i = max + 1
      <4>1. i \notin 1..max
        BY <3>1, <2>3, <2>4 DEF Elements
      <4>. QED
        BY <4>1, <1>9, <1>1
    <3>. QED
      BY <3>1, <3>2, <2>3, <1>6, <1>9, <1>1
  <2>8. ASSUME NEW j \in 1..max PROVE r[j].score >= s[max].score
    <3>1. r[j] \in Elements(t)
      <4>1. r[j] = t[j] /\ j \in DOMAIN t
        BY <2>3, <1>4, <1>9, <1>1
      <4>. QED
        BY <4>1 DEF Elements
    <3>2. CASE r[j] = e
      BY <3>2, <2>2
    <3>3. CASE r[j] \in Elements(s)
      <4>1. PICK i \in 1..n : r[j] = s[i]
        BY <3>3, <1>1 DEF Elements
      <4>2. CASE i = max
        BY <4>1, <4>2, <1>2, <1>9
      <4>3. CASE i < max
        BY <4>1, <4>3, <1>9, <1>1 DEF Sorted
      <4>. QED
        BY <4>1, <4>2, <4>3, <1>9, <1>1
    <3>. QED
      BY <3>1, <3>2, <3>3, <1>3
  <2>. QED
    BY <2>3, <2>5, <2>6, <2>7, <2>8, <1>3, <1>9 DEF r
<1>10. n < max \/ n = max
  <2>1. n \in Nat /\ max \in Nat /\ n <= max
    BY LenProperties
  <2>. QED
    BY <2>1
<1>. QED
  BY <1>7, <1>8, <1>9, <1>10, Zenon

(* The stacks are in order and keep the best; the rest follows from what a *)
(* push does (PushFits).                                                   *)
StackInv == SentenceTypeOK /\ StacksSorted /\ KeepsTheBest

-----------------------------------------------------------------------------
(* Helpers                                                                 *)

LEMMA ItemScores == \A x \in Items : x.score \in Int
<1>1. Scores \subseteq Int
  BY SentenceAssumption
<1>2. \A x \in Items : x.score \in Scores
  BY DEF Items
<1>. QED
  BY <1>1, <1>2

(* What a pass pushes is a path of words.                                  *)
LEMMA ExtensionsAreSteps ==
    ASSUME SentenceTypeOK, NEW s \in {2, 3}, NEW l \in Ends
    PROVE  Extensions(s, l) \subseteq Steps
<1>1. ASSUME NEW p \in Extendable(s, l) PROVE p \in Seq(Words)
  <2>1. PICK e \in Elements(graph[l]) : p = e.path
    BY DEF Extendable
  <2>2. graph[l] \in Seq(Items)
    BY DEF SentenceTypeOK
  <2>3. e \in Items
    BY <2>1, <2>2, ElementOfSeq, LenProperties DEF Elements
  <2>. QED
    BY <2>1, <2>3 DEF Items
<1>2. ASSUME NEW p \in Seq(Words), NEW w \in Words
      PROVE  [path |-> Append(p, w), to |-> w.to] \in Steps
  <2>1. Append(p, w) \in Seq(Words)
    BY AppendProperties
  <2>2. w.to \in Ends
    BY DEF Words
  <2>. QED
    BY <2>1, <2>2 DEF Steps
<1>3. Following(l) \subseteq Words
  BY DEF Following
<1>. QED
  BY <1>1, <1>2, <1>3 DEF Extensions

-----------------------------------------------------------------------------
(* The invariant                                                           *)

LEMMA StackInit == SentenceInit => StackInv
<1>. SUFFICES ASSUME SentenceInit PROVE StackInv
  OBVIOUS
<1>1. <<>> \in Seq(Items) /\ Len(<<>>) = 0 /\ DOMAIN <<>> = {}
  BY EmptySeq, LenProperties
<1>2. \A i \in Ends : graph[i] = <<>> /\ lost[i] = {}
  BY DEF SentenceInit
<1>3. pending \subseteq Steps
  <2>1. ASSUME NEW w \in Following(0) PROVE [path |-> <<w>>, to |-> w.to] \in Steps
    <3>1. w \in Words
      BY DEF Following
    <3>2. <<w>> \in Seq(Words) /\ w.to \in Ends
      BY <3>1 DEF Words
    <3>. QED
      BY <3>2 DEF Steps
  <2>. QED
    BY <2>1 DEF SentenceInit
<1>4. SentenceTypeOK
  <2>1. graph \in [Ends -> Seq(Items)] /\ lost \in [Ends -> SUBSET Scores]
    BY <1>1 DEF SentenceInit
  <2>2. stage \in 1..4 /\ last \in 0..Syllables
    BY SentenceAssumption DEF SentenceInit
  <2>3. lexicon \in [Runs -> 0..MaxWords] /\ width \in Widths
    BY DEF SentenceInit
  <2>. QED
    BY <1>3, <2>1, <2>2, <2>3 DEF SentenceTypeOK
<1>5. StacksSorted
  <2>1. width \in Nat
    BY SentenceAssumption DEF SentenceInit
  <2>. QED
    BY <1>1, <1>2, <2>1 DEF StacksSorted, Sorted
<1>6. KeepsTheBest
  BY <1>2 DEF KeepsTheBest
<1>. QED
  BY <1>4, <1>5, <1>6 DEF StackInv

(* One push: the stack it goes to stays in order and keeps the best.       *)
LEMMA ExtendKeeps == StackInv /\ Extend => StackInv'
<1>. SUFFICES ASSUME StackInv, Extend PROVE StackInv'
  OBVIOUS
<1>1. PICK p \in pending, score \in Scores :
         LET e == [path |-> p.path, score |-> score] IN
         /\ pending' = pending \ {p}
         /\ graph' = [graph EXCEPT ![p.to] = Push(@, width, e)]
         /\ lost' = [lost EXCEPT ![p.to] = @ \cup {x.score : x \in Thrown(graph[p.to], e)}]
         /\ UNCHANGED <<lexicon, width, stage, last>>
  BY DEF Extend
<1>. DEFINE e == [path |-> p.path, score |-> score]
            t == p.to
            s == graph[t]
            r == Push(s, width, e)
<1>2. SentenceTypeOK /\ StacksSorted /\ KeepsTheBest
  BY DEF StackInv
<1>3. t \in Ends /\ p.path \in Seq(Words)
  BY <1>2 DEF SentenceTypeOK, Steps
<1>4. e \in Items
  BY <1>3 DEF Items
<1>5. s \in Seq(Items) /\ Sorted(s) /\ Len(s) <= width /\ width \in Nat \ {0}
  BY <1>2, <1>3, SentenceAssumption DEF SentenceTypeOK, StacksSorted
<1>6. /\ r \in Seq(Items) /\ Sorted(r)
      /\ Len(r) = IF Len(s) = width THEN width ELSE Len(s) + 1
      /\ Elements(r) \subseteq Elements(s) \cup {e}
      /\ \A x \in (Elements(s) \cup {e}) \ Elements(r) :
            Len(r) = width /\ \A j \in 1..width : r[j].score >= x.score
      /\ Len(s) = width => \A j \in 1..width : r[j].score >= s[width].score
  <2>. HIDE DEF e, s
  <2>. QED
    BY <1>4, <1>5, ItemScores, PushFits
<1>7. Thrown(s, e) = (Elements(s) \cup {e}) \ Elements(r)
  BY DEF Thrown
<1>8. /\ graph' = [graph EXCEPT ![t] = r]
      /\ lost' = [lost EXCEPT ![t] = @ \cup {x.score : x \in Thrown(s, e)}]
      /\ pending' \subseteq pending
      /\ UNCHANGED <<lexicon, width, stage, last>>
  BY <1>1
<1>9. \A i \in Ends : /\ graph'[i] = IF i = t THEN r ELSE graph[i]
                      /\ lost'[i] = IF i = t THEN lost[t] \cup {x.score : x \in Thrown(s, e)} ELSE lost[i]
  BY <1>8, <1>3, <1>2 DEF SentenceTypeOK
<1>10. Len(s) \in Nat /\ Elements(s) \subseteq Items
  <2>1. Len(s) \in Nat /\ DOMAIN s = 1..Len(s)
    BY <1>5, LenProperties
  <2>2. \A i \in 1..Len(s) : s[i] \in Items
    BY <1>5, ElementOfSeq
  <2>. QED
    BY <2>1, <2>2 DEF Elements
<1>. HIDE DEF e, s, r, t
<1>11. SentenceTypeOK'
  <2>1. graph' \in [Ends -> Seq(Items)]
    BY <1>2, <1>6, <1>8 DEF SentenceTypeOK
  <2>2. lost' \in [Ends -> SUBSET Scores]
    <3>1. Thrown(s, e) \subseteq Items
      BY <1>7, <1>10, <1>4
    <3>2. {x.score : x \in Thrown(s, e)} \subseteq Scores
      BY <3>1 DEF Items
    <3>. QED
      BY <3>2, <1>2, <1>8 DEF SentenceTypeOK
  <2>. QED
    BY <1>2, <1>8, <2>1, <2>2 DEF SentenceTypeOK
<1>12. StacksSorted'
  <2>1. Len(r) <= width
    BY <1>5, <1>6, <1>10
  <2>2. ASSUME NEW i \in Ends PROVE Sorted(graph'[i]) /\ Len(graph'[i]) <= width'
    BY <2>1, <1>6, <1>8, <1>9, <1>2 DEF StacksSorted
  <2>. QED
    BY <2>2 DEF StacksSorted
<1>13. KeepsTheBest'
  <2>. SUFFICES ASSUME NEW i \in Ends, NEW n \in lost'[i]
                PROVE  Len(graph'[i]) = width /\ \A j \in 1..width : graph'[i][j].score >= n
    BY <1>8 DEF KeepsTheBest
  <2>1. CASE i # t
    BY <2>1, <1>9, <1>2 DEF KeepsTheBest
  <2>2. CASE i = t /\ n \in lost[t]
    <3>1. Len(s) = width /\ \A j \in 1..width : s[j].score >= n
      BY <2>2, <1>2 DEF KeepsTheBest, s
    <3>2. s[width].score >= n
      BY <3>1, <1>5
    <3>3. \A j \in 1..width : r[j].score >= s[width].score
      BY <3>1, <1>6
    <3>4. Len(r) = width
      BY <3>1, <1>6
    <3>5. \A j \in 1..width : r[j].score \in Int
      BY <3>4, <1>6, ItemScores, ScoreInt
    <3>6. s[width].score \in Int /\ n \in Int
      <4>1. s[width].score \in Int
        BY <3>1, <1>5, ItemScores, ScoreInt
      <4>2. n \in Scores
        BY <2>2, <1>2, <1>3 DEF SentenceTypeOK
      <4>3. n \in Int
        BY <4>2, SentenceAssumption
      <4>. QED
        BY <4>1, <4>3
    <3>7. \A j \in 1..width : r[j].score >= n
      BY <3>2, <3>3, <3>5, <3>6
    <3>. QED
      BY <2>2, <3>4, <3>7, <1>9
  <2>3. CASE i = t /\ n \in {x.score : x \in Thrown(s, e)}
    <3>1. PICK x \in Thrown(s, e) : n = x.score
      BY <2>3
    <3>2. Len(r) = width /\ \A j \in 1..width : r[j].score >= n
      BY <3>1, <1>6, <1>7
    <3>. QED
      BY <2>3, <3>2, <1>9
  <2>. QED
    BY <2>1, <2>2, <2>3, <1>9
<1>. QED
  BY <1>11, <1>12, <1>13 DEF StackInv

LEMMA StackStep == StackInv /\ [SentenceNext]_sentenceVars => StackInv'
<1>. SUFFICES ASSUME StackInv, [SentenceNext]_sentenceVars PROVE StackInv'
  OBVIOUS
<1>1. SentenceTypeOK /\ StacksSorted /\ KeepsTheBest
  BY DEF StackInv
<1>2. CASE Extend
  BY <1>2, ExtendKeeps
<1>3. CASE Visit
  <2>1. stage \in {2, 3} /\ last + 1 \in Ends
    BY <1>3, <1>1, SentenceAssumption DEF Visit, SentenceTypeOK, Ends
  <2>2. pending' \subseteq Steps
    BY <1>3, <1>1, <2>1, ExtensionsAreSteps DEF Visit
  <2>3. SentenceTypeOK'
    BY <1>3, <1>1, <2>1, <2>2 DEF Visit, SentenceTypeOK, Ends
  <2>4. StacksSorted' /\ KeepsTheBest'
    BY <1>3, <1>1 DEF Visit, StacksSorted, KeepsTheBest
  <2>. QED
    BY <2>3, <2>4 DEF StackInv
<1>4. CASE Pass
  <2>1. stage' \in 1..4 /\ last' \in 0..Syllables
    BY <1>4, <1>1, SentenceAssumption DEF Pass, SentenceTypeOK
  <2>2. SentenceTypeOK'
    BY <1>4, <1>1, <2>1 DEF Pass, SentenceTypeOK
  <2>3. StacksSorted' /\ KeepsTheBest'
    BY <1>4, <1>1 DEF Pass, StacksSorted, KeepsTheBest
  <2>. QED
    BY <2>2, <2>3 DEF StackInv
<1>5. CASE UNCHANGED sentenceVars
  <2>1. SentenceTypeOK'
    BY <1>5, <1>1 DEF sentenceVars, SentenceTypeOK
  <2>2. StacksSorted' /\ KeepsTheBest'
    BY <1>5, <1>1 DEF sentenceVars, StacksSorted, KeepsTheBest
  <2>. QED
    BY <2>1, <2>2 DEF StackInv
<1>. QED
  BY <1>2, <1>3, <1>4, <1>5 DEF SentenceNext

THEOREM SpecStackInv == SentenceSpec => []StackInv
BY StackInit, StackStep, PTL DEF SentenceSpec

-----------------------------------------------------------------------------
(* Theorems                                                                *)

(* The passes stay within the syllables, and everything pushed is a path   *)
(* of words (getCandidate).                                                *)
THEOREM SpecTypeOK == SentenceSpec => []SentenceTypeOK
<1>1. StackInv => SentenceTypeOK
  BY DEF StackInv
<1>. QED
  BY <1>1, SpecStackInv, PTL

(* Each stack is in order and within its length after every push           *)
(* (PriorityStack.push).                                                   *)
THEOREM SpecStacksSorted == SentenceSpec => []StacksSorted
<1>1. StackInv => StacksSorted
  BY DEF StackInv
<1>. QED
  BY <1>1, SpecStackInv, PTL

(* A stack only throws out what is no better than all it keeps, so that    *)
(* the best path pushed to a syllable is never lost (PriorityStack.push).  *)
THEOREM SpecKeepsTheBest == SentenceSpec => []KeepsTheBest
<1>1. StackInv => KeepsTheBest
  BY DEF StackInv
<1>. QED
  BY <1>1, SpecStackInv, PTL
-----------------------------------------------------------------------------
(* The invariant of the search                                             *)

(* A queue, as what it is at; a block; and a call that returned            *)
Pcs    == {"idle", "words", "defer", "wait", "read", "clear", "finish"}
Queue  == [pc : Pcs, call : 0..MaxCall, got : SUBSET Search!Found, trouble : SUBSET Search!Troubles]
Block  == [call : Search!Calls, part : Search!Deferred, got : SUBSET Search!Found, begun : BOOLEAN]
Result == [call : 0..MaxCall, got : SUBSET Search!Found, trouble : SUBSET Search!Troubles, since : 0..MaxCall]

(* A queue that is at something is at one of the calls there were.         *)
SearchTypes ==
    /\ calls \in 0..MaxCall /\ letters \in 0..calls /\ emptied \in 0..calls
    /\ about \in [Search!Calls -> [deferred : SUBSET Search!Deferred, known : BOOLEAN]]
    /\ search \in [Searchers -> Queue] /\ group \subseteq Block
    /\ cache \in [Search!Slots -> SUBSET Search!Found]
    /\ kept \subseteq Search!Found /\ returned \in Result /\ ever \subseteq {"abreast", "late"}
    /\ returned.call <= calls
    /\ \A q \in Searchers : search[q].call <= calls /\ (Search!At(q, "idle") <=> search[q].call = 0)

(* A call that is not abreast of another is the last one, and the letters  *)
(* are its own.                                                            *)
AloneInv == \A q \in Search!Busy : "abreast" \notin search[q].trouble =>
    Search!Busy = {q} /\ letters = search[q].call /\ calls = search[q].call /\ emptied < calls

(* What one part may have found for a call, and all of them together       *)
Clean(q)       == "abreast" \notin search[q].trouble /\ "late" \notin search[q].trouble
                    /\ "dirty" \notin search[q].trouble
Fits(q, p, s)  ==
    \/ s = IF about[search[q].call].known THEN {<<search[q].call, p>>} ELSE {}
    \/ s = {} /\ "slow" \in search[q].trouble
Offer(q)       == {<<search[q].call, p>> : p \in {"words"} \cup about[search[q].call].deferred}
GotFits(q)     ==
    /\ search[q].got \subseteq Offer(q)
    /\ IF about[search[q].call].known THEN search[q].got = Offer(q) \/ "slow" \in search[q].trouble
       ELSE search[q].got = {}

(* Nothing but what it found itself is in the cache of a clean call.       *)
CacheFits(q, parts) ==
    /\ Fits(q, "words", cache["words"])
    /\ \A p \in Search!Deferred : IF p \in parts THEN Fits(q, p, cache[p]) ELSE cache[p] = {}

Pending == {b.part : b \in group}
CleanFits(q) ==
    /\ Search!At(q, "words") => group = {} /\ \A s \in Search!Slots : cache[s] = {}
    /\ Search!At(q, "defer") => group = {} /\ CacheFits(q, {})
    /\ Search!At(q, "wait") =>
        /\ Pending \subseteq about[search[q].call].deferred
        /\ CacheFits(q, about[search[q].call].deferred \ Pending)
        /\ \A b \in group : b.call = search[q].call /\ (b.begun => Fits(q, b.part, b.got))
        /\ \A b, c \in group : b.part = c.part => b = c
    /\ Search!At(q, "read") => group = {} /\ CacheFits(q, about[search[q].call].deferred)
    /\ search[q].pc \in {"clear", "finish"} => group = {} /\ GotFits(q)
CleanInv == \A q \in Search!Busy : Clean(q) => CleanFits(q)

(* Unless a block was late somebody waits for those that are there, and    *)
(* will clear the cache.                                                   *)
ClearInv == "late" \notin ever =>
    /\ group # {} => \E q \in Searchers : Search!At(q, "wait")
    /\ (\E s \in Search!Slots : cache[s] # {})
         => \E q \in Searchers : search[q].pc \in {"defer", "wait", "read", "clear"}

(* As long as nothing went wrong the candidates kept are of the calls      *)
(* since the buffer was empty, but not of the one under way.               *)
KeptInv == ever = {} =>
    /\ \A q \in Search!Busy : Clean(q)
    /\ Search!Letters(kept) \subseteq (emptied + 1)..calls
    /\ \A q \in Search!Busy : search[q].call \notin Search!Letters(kept)

SearchInv ==
    /\ SearchTypes /\ AloneInv /\ CleanInv /\ ClearInv /\ KeptInv
    /\ Search!CandidatesFit /\ Search!NothingMissing

-----------------------------------------------------------------------------
(* Steps of the search, without their EXCEPTs                              *)

(* A queue moves, and keeps its call.                                      *)
Moves(q, pc, got, trouble) ==
    /\ search' \in [Searchers -> Queue]
    /\ \A p \in Searchers \ {q} : search'[p] = search[p]
    /\ search'[q].pc = pc /\ search'[q].call = search[q].call
    /\ search'[q].got = got /\ search'[q].trouble = trouble

(* A queue takes a record with a new pc, result and trouble.               *)
LEMMA QueueMoves ==
    ASSUME search \in [Searchers -> Queue], NEW q \in Searchers, NEW pc \in Pcs,
           NEW got \in SUBSET Search!Found, NEW trouble \in SUBSET Search!Troubles,
           search' = [search EXCEPT ![q] = [search[q] EXCEPT !.pc = pc, !.got = got, !.trouble = trouble]]
    PROVE  Moves(q, pc, got, trouble)
<1>1. search[q] \in Queue
  OBVIOUS
<1>2. [search[q] EXCEPT !.pc = pc, !.got = got, !.trouble = trouble] \in Queue
  BY <1>1 DEF Queue
<1>3. search' \in [Searchers -> Queue]
        /\ search'[q] = [search[q] EXCEPT !.pc = pc, !.got = got, !.trouble = trouble]
  BY <1>2
<1>4. \A p \in Searchers \ {q} : search'[p] = search[p]
  OBVIOUS
<1> QED
  BY <1>1, <1>3, <1>4 DEF Moves, Queue

LEMMA FoundThere == \A slot \in Search!Parts : letters \in 0..MaxCall
  => Search!Query(slot) \in SUBSET Search!Found
  BY DEF Search!Query, Search!Found, Search!Calls

LEMMA WordsMoves ==
    ASSUME SearchTypes, NEW q \in Searchers, Search!Words(q)
    PROVE  /\ \E trouble \in {search[q].trouble, search[q].trouble \cup {"slow"}} :
                /\ Moves(q, "defer", search[q].got, trouble)
                /\ cache' = [cache EXCEPT !["words"] = cache'["words"]]
                /\ cache'["words"] \in SUBSET Search!Found
                /\ \/ cache'["words"] = Search!Query("words")
                   \/ cache'["words"] = {} /\ "slow" \in trouble
           /\ search[q].pc = "words"
<1> USE DEF SearchTypes
<1>1. search[q] \in Queue /\ search[q].got \in SUBSET Search!Found
        /\ search[q].trouble \in SUBSET Search!Troubles
  BY DEF Queue
<1>2. letters \in 0..MaxCall /\ Search!Query("words") \in SUBSET Search!Found /\ "words" \in Search!Slots
  <2>1. letters \in 0..MaxCall
    BY PartsAssumption DEF Search!CallAssumption
  <2> QED
    BY <2>1, FoundThere DEF Search!Parts, Search!Slots
<1>3. CASE cache' = [cache EXCEPT !["words"] = Search!Query("words")] /\ Search!Then(q, "defer")
  <2>1. search' = [search EXCEPT ![q] = [search[q] EXCEPT !.pc = "defer", !.got = search[q].got,
        !.trouble = search[q].trouble]]
    BY <1>1, <1>3 DEF Search!Then, Search!Go, Queue
  <2>2. Moves(q, "defer", search[q].got, search[q].trouble)
    BY <2>1, <1>1, QueueMoves DEF Pcs
  <2> QED
    BY <2>2, <1>2, <1>3 DEF Search!Words, Search!At
<1>4. CASE /\ cache' = [cache EXCEPT !["words"] = {}]
           /\ Search!Go(q, [search[q] EXCEPT !.pc = "defer", !.trouble = @ \cup {"slow"}])
  <2>1. search' = [search EXCEPT ![q] = [search[q] EXCEPT !.pc = "defer", !.got = search[q].got,
                                                          !.trouble = search[q].trouble \cup {"slow"}]]
    BY <1>1, <1>4 DEF Search!Go, Queue
  <2>2. Moves(q, "defer", search[q].got, search[q].trouble \cup {"slow"})
    BY <2>1, <1>1, QueueMoves DEF Pcs, Search!Troubles
  <2> QED
    BY <2>2, <1>2, <1>4 DEF Search!Words, Search!At
<1> QED
  BY <1>3, <1>4 DEF Search!Words

LEMMA DeferMoves ==
    ASSUME SearchTypes, NEW q \in Searchers, Search!Defer(q)
    PROVE  Moves(q, "wait", search[q].got, search[q].trouble)
<1>1. search[q] \in Queue /\ search[q].got \in SUBSET Search!Found
        /\ search[q].trouble \in SUBSET Search!Troubles
  BY DEF Queue, SearchTypes
<1>2. search' = [search EXCEPT ![q] = [search[q] EXCEPT !.pc = "wait", !.got = search[q].got,
      !.trouble = search[q].trouble]]
  BY <1>1 DEF Search!Defer, Search!Then, Search!Go, Queue
<1> QED
  BY <1>1, <1>2, QueueMoves DEF Pcs, SearchTypes

LEMMA WaitedMoves ==
    ASSUME SearchTypes, NEW q \in Searchers, Search!Waited(q)
    PROVE  Moves(q, "read", search[q].got, search[q].trouble)
<1>1. search[q] \in Queue /\ search[q].got \in SUBSET Search!Found
        /\ search[q].trouble \in SUBSET Search!Troubles
  BY DEF Queue, SearchTypes
<1>2. search' = [search EXCEPT ![q] = [search[q] EXCEPT !.pc = "read", !.got = search[q].got,
      !.trouble = search[q].trouble]]
  BY <1>1 DEF Search!Waited, Search!Then, Search!Go, Queue
<1> QED
  BY <1>1, <1>2, QueueMoves DEF Pcs, SearchTypes

LEMMA TimeOutMoves ==
    ASSUME SearchTypes, NEW q \in Searchers, Search!TimeOut(q)
    PROVE  Moves(q, "read", search[q].got, search[q].trouble \cup {"late"})
<1>1. search[q] \in Queue /\ search[q].got \in SUBSET Search!Found
        /\ search[q].trouble \cup {"late"} \in SUBSET Search!Troubles
  BY DEF Queue, SearchTypes, Search!Troubles
<1>2. search' = [search EXCEPT ![q] = [search[q] EXCEPT !.pc = "read", !.got = search[q].got,
                                                        !.trouble = search[q].trouble \cup {"late"}]]
  BY <1>1 DEF Search!TimeOut, Search!Go, Queue
<1> QED
  BY <1>1, <1>2, QueueMoves DEF Pcs, SearchTypes

LEMMA ReadMoves ==
    ASSUME SearchTypes, NEW q \in Searchers, Search!Read(q)
    PROVE  Moves(q, "clear", UNION {cache[s] : s \in Search!Slots}, search[q].trouble)
<1>1. search[q] \in Queue /\ search[q].trouble \in SUBSET Search!Troubles
  BY DEF Queue, SearchTypes
<1>2. UNION {cache[s] : s \in Search!Slots} \in SUBSET Search!Found
  BY DEF SearchTypes
<1>3. search' = [search EXCEPT ![q] = [search[q] EXCEPT !.pc = "clear",
      !.got = UNION {cache[s] : s \in Search!Slots},
                                                        !.trouble = search[q].trouble]]
  BY <1>1 DEF Search!Read, Search!Go, Queue
<1> QED
  BY <1>1, <1>2, <1>3, QueueMoves DEF Pcs, SearchTypes

LEMMA ClearMoves ==
    ASSUME SearchTypes, NEW q \in Searchers, Search!Clear(q)
    PROVE  Moves(q, "finish", search[q].got, search[q].trouble)
<1>1. search[q] \in Queue /\ search[q].got \in SUBSET Search!Found
        /\ search[q].trouble \in SUBSET Search!Troubles
  BY DEF Queue, SearchTypes
<1>2. search' = [search EXCEPT ![q] = [search[q] EXCEPT !.pc = "finish", !.got = search[q].got,
      !.trouble = search[q].trouble]]
  BY <1>1 DEF Search!Clear, Search!Then, Search!Go, Queue
<1> QED
  BY <1>1, <1>2, QueueMoves DEF Pcs, SearchTypes

(* A queue that ends its call                                              *)
LEMMA FinishMoves ==
    ASSUME SearchTypes, NEW q \in Searchers, Search!Finish(q)
    PROVE  /\ search' \in [Searchers -> Queue] /\ search'[q] = Search!Idle
           /\ \A p \in Searchers \ {q} : search'[p] = search[p]
<1>1. Search!Idle \in Queue
  BY PartsAssumption DEF Search!Idle, Queue, Pcs, Search!CallAssumption
<1> QED
  BY <1>1 DEF Search!Finish, Search!Go, SearchTypes

(* A queue whose trouble may grow, while it is at what it was at.          *)
Troubled(p, more) ==
    /\ search'[p].pc = search[p].pc /\ search'[p].call = search[p].call /\ search'[p].got = search[p].got
    /\ search'[p].trouble = search[p].trouble \cup more

LEMMA QueueTroubled ==
    ASSUME search \in [Searchers -> Queue], NEW p \in Searchers, NEW more \in SUBSET Search!Troubles
    PROVE  /\ [search[p] EXCEPT !.trouble = @ \cup more] \in Queue
           /\ search'[p] = [search[p] EXCEPT !.trouble = @ \cup more] => Troubled(p, more)
           /\ search'[p] = search[p] => Troubled(p, {})
<1>1. search[p] \in Queue /\ search[p].trouble \cup more \in SUBSET Search!Troubles
  BY DEF Queue
<1> QED
  BY <1>1 DEF Queue, Troubled

LEMMA BeginSets ==
    ASSUME NEW q \in Searchers, Search!Begin(q)
    PROVE  /\ search[q].pc = "idle" /\ calls < MaxCall /\ calls' = calls + 1 /\ letters' = calls + 1
           /\ \E a \in Calling : about' = [about EXCEPT ![calls + 1] = a]
           /\ UNCHANGED <<group, cache, kept, emptied, returned>>
  BY Zenon DEF Search!Begin, Search!At

LEMMA BeginMoves ==
    ASSUME SearchTypes, NEW q \in Searchers, Search!Begin(q)
    PROVE  /\ search' \in [Searchers -> Queue] /\ search[q].pc = "idle"
           /\ search'[q].pc = "words" /\ search'[q].call = calls + 1 /\ search'[q].got = {}
           /\ \A t \in Search!Troubles : t \in search'[q].trouble <=>
                \/ t = "abreast" /\ Search!Busy \ {q} # {}
                \/ t = "late" /\ group # {}
                \/ t = "dirty" /\ \E s \in Search!Slots : cache[s] # {}
           /\ \A p \in Searchers \ {q} : Troubled(p, IF p \in Search!Busy THEN {"abreast"} ELSE {})
           /\ ever' = ever \cup (search'[q].trouble \ {"dirty"})
           /\ ever' \subseteq {"abreast", "late"}
<1> USE DEF SearchTypes
<1> DEFINE trouble == {t \in Search!Troubles : \/ t = "abreast" /\ Search!Busy \ {q} # {}
                                               \/ t = "late" /\ group # {}
                                               \/ t = "dirty" /\ \E s \in Search!Slots : cache[s] # {}}
           new == [Search!Idle EXCEPT !.pc = "words", !.call = calls + 1, !.trouble = trouble]
<1>1. /\ search' = [p \in Searchers |-> IF p = q THEN new
                                        ELSE IF p \in Search!Busy
                                          THEN [search[p] EXCEPT !.trouble = @ \cup {"abreast"}] ELSE search[p]]
      /\ ever' = ever \cup (trouble \ {"dirty"}) /\ search[q].pc = "idle" /\ calls < MaxCall
  BY DEF Search!Begin, Search!At
<1>2. calls + 1 \in 0..MaxCall /\ trouble \in SUBSET Search!Troubles
  <2>1. calls < MaxCall /\ calls \in 0..MaxCall /\ MaxCall \in Nat
    BY <1>1, PartsAssumption DEF Search!CallAssumption
  <2>2. calls + 1 \in 0..MaxCall
    BY ONLY <2>1
  <2> QED
    BY <2>2
<1> HIDE DEF trouble
<1>3. /\ new \in Queue /\ new.pc = "words" /\ new.call = calls + 1 /\ new.got = {}
      /\ new.trouble = trouble
  BY <1>2 DEF Queue, Search!Idle, Pcs
<1> HIDE DEF new
<1>4. search'[q] = new
  BY <1>1
<1>5. \A p \in Searchers \ {q} : /\ search'[p] \in Queue
                                 /\ Troubled(p, IF p \in Search!Busy THEN {"abreast"} ELSE {})
  <2> SUFFICES ASSUME NEW p \in Searchers \ {q}
               PROVE  search'[p] \in Queue /\ Troubled(p, IF p \in Search!Busy THEN {"abreast"} ELSE {})
    OBVIOUS
  <2>1. search'[p] = IF p \in Search!Busy THEN [search[p] EXCEPT !.trouble = @ \cup {"abreast"}] ELSE search[p]
    BY <1>1
  <2>2. {"abreast"} \in SUBSET Search!Troubles
    BY DEF Search!Troubles
  <2> QED
    BY <2>1, <2>2, QueueTroubled
<1>6. search' \in [Searchers -> Queue]
  <2>1. \A p \in Searchers : search'[p] \in Queue
    BY <1>3, <1>4, <1>5
  <2> QED
    BY <2>1, <1>1
<1>7. \A t \in Search!Troubles : t \in trouble <=>
                \/ t = "abreast" /\ Search!Busy \ {q} # {}
                \/ t = "late" /\ group # {}
                \/ t = "dirty" /\ \E s \in Search!Slots : cache[s] # {}
  BY DEF trouble
<1>8. ever' \subseteq {"abreast", "late"}
  BY <1>1 DEF trouble
<1> QED
  BY <1>1, <1>3, <1>4, <1>5, <1>6, <1>7, <1>8

LEMMA EmptyMoves ==
    ASSUME SearchTypes, NEW q \in Searchers, Search!Empty(q)
    PROVE  /\ search' \in [Searchers -> Queue] /\ search[q].pc = "idle"
           /\ \A p \in Searchers : Troubled(p, IF p \in Search!Busy THEN {"abreast"} ELSE {})
<1> USE DEF SearchTypes
<1>1. \A p \in Searchers : /\ search'[p] \in Queue
                           /\ Troubled(p, IF p \in Search!Busy THEN {"abreast"} ELSE {})
  <2> SUFFICES ASSUME NEW p \in Searchers
               PROVE  search'[p] \in Queue /\ Troubled(p, IF p \in Search!Busy THEN {"abreast"} ELSE {})
    OBVIOUS
  <2>1. search'[p] = IF p \in Search!Busy THEN [search[p] EXCEPT !.trouble = @ \cup {"abreast"}] ELSE search[p]
    BY DEF Search!Empty
  <2>2. {"abreast"} \in SUBSET Search!Troubles
    BY DEF Search!Troubles
  <2> QED
    BY <2>1, <2>2, QueueTroubled
<1>2. search' \in [Searchers -> Queue]
  BY <1>1 DEF Search!Empty
<1> QED
  BY <1>1, <1>2 DEF Search!Empty, Search!At

(* A block reads the letters; a slow one troubles its call.                *)
LEMMA RunMoves ==
    ASSUME SearchTypes, NEW b \in group, Search!Run(b)
    PROVE  \E got \in {Search!Query(b.part), {}}, c \in SUBSET Search!Found :
             /\ got = Search!Query(b.part) \/ b.part = "sentence"
             /\ c = IF b.part = "single" THEN cache["single"] \cup got ELSE got
             /\ \E d \in Block :
                  /\ d.call = b.call /\ d.part = b.part /\ d.begun = TRUE /\ d.got = c
                  /\ group' = (group \ {b}) \cup {d}
             /\ search' \in [Searchers -> Queue]
             /\ \A q \in Searchers : Troubled(q, IF got # Search!Query(b.part)
                  /\ search[q].call = b.call THEN {"slow"} ELSE {})
<1> USE DEF SearchTypes
<1>1. PICK got \in {Search!Query(b.part)} \cup (IF b.part = "sentence" THEN {{}} ELSE {}) :
        /\ group' = (group \ {b}) \cup
                      {[b EXCEPT !.begun = TRUE,
                                 !.got = IF b.part = "single" THEN cache["single"] \cup got ELSE got]}
        /\ search' = [q \in Searchers |-> IF got # Search!Query(b.part) /\ search[q].call = b.call
                                          THEN [search[q] EXCEPT !.trouble = @ \cup {"slow"}] ELSE search[q]]
  BY DEF Search!Run
<1> DEFINE c == IF b.part = "single" THEN cache["single"] \cup got ELSE got
           d == [b EXCEPT !.begun = TRUE, !.got = c]
<1>2. b \in Block /\ b.part \in Search!Deferred
  BY DEF Block
<1>3. Search!Query(b.part) \in SUBSET Search!Found /\ cache["single"] \in SUBSET Search!Found
  <2>1. letters \in 0..MaxCall /\ b.part \in Search!Parts /\ "single" \in Search!Slots
    BY <1>2, PartsAssumption DEF Search!CallAssumption, Search!Parts, Search!Slots, Search!Deferred
  <2> QED
    BY <2>1, FoundThere
<1>4. c \in SUBSET Search!Found /\ got \in {Search!Query(b.part), {}}
        /\ (got = Search!Query(b.part) \/ b.part = "sentence")
  BY <1>1, <1>3
<1>5. group' = (group \ {b}) \cup {d}
  BY <1>1
<1> HIDE DEF c
<1>6. d \in Block /\ d.call = b.call /\ d.part = b.part /\ d.begun = TRUE /\ d.got = c
  BY <1>2, <1>4 DEF Block
<1> HIDE DEF d
<1>7. \A q \in Searchers : /\ search'[q] \in Queue
                           /\ Troubled(q, IF got # Search!Query(b.part)
                                /\ search[q].call = b.call THEN {"slow"} ELSE {})
  <2> SUFFICES ASSUME NEW q \in Searchers
               PROVE  /\ search'[q] \in Queue
                      /\ Troubled(q, IF got # Search!Query(b.part)
                           /\ search[q].call = b.call THEN {"slow"} ELSE {})
    OBVIOUS
  <2>1. search'[q] = IF got # Search!Query(b.part) /\ search[q].call = b.call
                     THEN [search[q] EXCEPT !.trouble = @ \cup {"slow"}] ELSE search[q]
    BY <1>1
  <2>2. {"slow"} \in SUBSET Search!Troubles
    BY DEF Search!Troubles
  <2> QED
    BY <2>1, <2>2, QueueTroubled
<1>8. search' \in [Searchers -> Queue]
  BY <1>1, <1>7
<1> QED
  <2>1. c = IF b.part = "single" THEN cache["single"] \cup got ELSE got
    BY DEF c
  <2> QED
    BY <2>1, <1>4, <1>5, <1>6, <1>7, <1>8

LEMMA RunBlock ==
    ASSUME SearchTypes, NEW b \in group, Search!Run(b)
    PROVE  \E d \in Block : group' = (group \ {b}) \cup {d}
<1>1. PICK got \in {Search!Query(b.part), {}}, c \in SUBSET Search!Found :
        /\ got = Search!Query(b.part) \/ b.part = "sentence"
        /\ c = IF b.part = "single" THEN cache["single"] \cup got ELSE got
        /\ \E d \in Block :
             /\ d.call = b.call /\ d.part = b.part /\ d.begun = TRUE /\ d.got = c
             /\ group' = (group \ {b}) \cup {d}
        /\ search' \in [Searchers -> Queue]
        /\ \A q \in Searchers : Troubled(q, IF got # Search!Query(b.part)
             /\ search[q].call = b.call THEN {"slow"} ELSE {})
  BY RunMoves
<1> QED
  BY <1>1

-----------------------------------------------------------------------------
(* The types                                                               *)

LEMMA SearchInitTypes ==
    ASSUME Search!Init
    PROVE  SearchTypes
<1> USE PartsAssumption DEF Search!CallAssumption
<1>1. Search!Idle \in Queue
  BY DEF Search!Idle, Queue, Pcs
<1>2. search \in [Searchers -> Queue] /\ \A q \in Searchers : search[q].call = 0 /\ Search!At(q, "idle")
  BY <1>1 DEF Search!Init, Search!Idle, Search!At
<1>3. returned \in Result /\ returned.call <= calls
  BY DEF Search!Init, Result
<1>4. about \in [Search!Calls -> [deferred : SUBSET Search!Deferred, known : BOOLEAN]]
  BY DEF Search!Init
<1>5. cache \in [Search!Slots -> SUBSET Search!Found]
  BY DEF Search!Init
<1> QED
  BY <1>2, <1>3, <1>4, <1>5 DEF Search!Init, SearchTypes

(* The part of the types that is about a step of one queue                 *)
LEMMA MovesTypes ==
    ASSUME SearchTypes, NEW q \in Searchers, NEW pc \in Pcs \ {"idle"}, NEW got, NEW trouble,
           Moves(q, pc, got, trouble), search[q].pc # "idle", calls' = calls
    PROVE  /\ search' \in [Searchers -> Queue]
           /\ \A p \in Searchers : search'[p].call <= calls' /\ (Search!At(p, "idle")' <=> search'[p].call = 0)
<1> QED
  BY DEF Moves, SearchTypes, Search!At

LEMMA SearchTypesStep ==
    ASSUME SearchTypes, Search!Next
    PROVE  SearchTypes'
<1> USE PartsAssumption DEF Search!CallAssumption
<1> DEFINE Others == /\ about' \in [Search!Calls -> [deferred : SUBSET Search!Deferred, known : BOOLEAN]]
                     /\ group' \subseteq Block /\ cache' \in [Search!Slots -> SUBSET Search!Found]
                     /\ kept' \subseteq Search!Found /\ returned' \in Result
                          /\ ever' \subseteq {"abreast", "late"}
           InCall == /\ search' \in [Searchers -> Queue]
                      /\ \A p \in Searchers : search'[p].call <= calls'
                           /\ (Search!At(p, "idle")' <=> search'[p].call = 0)
<1>0. /\ about \in [Search!Calls -> [deferred : SUBSET Search!Deferred, known : BOOLEAN]]
      /\ group \subseteq Block /\ cache \in [Search!Slots -> SUBSET Search!Found]
      /\ kept \subseteq Search!Found /\ returned \in Result /\ ever \subseteq {"abreast", "late"}
      /\ calls \in 0..MaxCall /\ letters \in 0..calls /\ emptied \in 0..calls /\ returned.call <= calls
      /\ letters \in 0..MaxCall /\ search \in [Searchers -> Queue]
  BY DEF SearchTypes
<1>m. \A slot \in Search!Parts : Search!Query(slot) \in SUBSET Search!Found
  BY <1>0, FoundThere
<1>1. ASSUME NEW q \in Searchers, Search!Begin(q) PROVE SearchTypes'
  <2>0. /\ calls < MaxCall /\ calls' = calls + 1 /\ letters' = calls + 1
        /\ UNCHANGED <<group, cache, kept, emptied, returned>>
    BY <1>1, BeginSets
  <2>1. calls' = calls + 1 /\ calls' \in 0..MaxCall /\ letters' = calls' /\ emptied' \in 0..calls'
    BY <1>0, <2>0
  <2>2. InCall
    <3>1. /\ search' \in [Searchers -> Queue] /\ search'[q].pc = "words" /\ search'[q].call = calls + 1
          /\ \A p \in Searchers \ {q} : search'[p].pc = search[p].pc /\ search'[p].call = search[p].call
      BY <1>1, BeginMoves DEF Troubled
    <3>2. \A p \in Searchers : search[p].call <= calls /\ (search[p].pc = "idle" <=> search[p].call = 0)
      BY DEF SearchTypes, Search!At
    <3>3. \A p \in Searchers : search[p].call \in 0..MaxCall
      BY <1>0 DEF Queue
    <3> QED
      BY <1>0, <2>1, <3>1, <3>2, <3>3 DEF Search!At
  <2>3. about' \in [Search!Calls -> [deferred : SUBSET Search!Deferred, known : BOOLEAN]]
    <3>1. PICK a \in Calling : about' = [about EXCEPT ![calls + 1] = a]
      BY <1>1, BeginSets
    <3>2. a \in [deferred : SUBSET Search!Deferred, known : BOOLEAN]
      OBVIOUS
    <3> QED
      BY <1>0, <3>1, <3>2
  <2>4. ever' \subseteq {"abreast", "late"}
    BY <1>1, BeginMoves
  <2> QED
    <3>1. returned'.call <= calls'
      BY <1>0, <2>0 DEF Result
    <3>2. /\ group' \subseteq Block /\ cache' \in [Search!Slots -> SUBSET Search!Found]
          /\ kept' \subseteq Search!Found /\ returned' \in Result
      BY <1>0, <2>0
    <3>3. letters' \in 0..calls'
      BY <2>1
    <3> QED
      BY <2>1, <2>2, <2>3, <2>4, <3>1, <3>2, <3>3 DEF SearchTypes
<1>2. ASSUME NEW q \in Searchers, Search!Empty(q) PROVE SearchTypes'
  <2>1. InCall
    <3>1. /\ search' \in [Searchers -> Queue]
          /\ \A p \in Searchers : search'[p].pc = search[p].pc /\ search'[p].call = search[p].call
      BY <1>2, EmptyMoves DEF Troubled
    <3> QED
      BY <1>2, <3>1 DEF Search!At, Search!Empty, SearchTypes
  <2>2. ever' \subseteq {"abreast", "late"}
    BY <1>0, <1>2 DEF Search!Empty
  <2> QED
    BY <1>0, <1>2, <2>1, <2>2 DEF Search!Empty, SearchTypes
<1>3. ASSUME NEW q \in Searchers, Search!Words(q) PROVE SearchTypes'
  <2>1. PICK trouble : Moves(q, "defer", search[q].got, trouble)
    BY <1>3, WordsMoves
  <2>2. InCall
    BY <1>3, <2>1, MovesTypes DEF Search!Words, Search!shared, Search!At, Pcs
  <2>3. cache' \in [Search!Slots -> SUBSET Search!Found]
    <3>1. cache'["words"] \in SUBSET Search!Found /\ cache' = [cache EXCEPT !["words"] = cache'["words"]]
      BY <1>3, WordsMoves
    <3> QED
      BY <1>0, <3>1
  <2> QED
    BY <1>0, <1>3, <2>2, <2>3 DEF Search!Words, Search!shared, SearchTypes
<1>4. ASSUME NEW q \in Searchers, Search!Defer(q) PROVE SearchTypes'
  <2>1. InCall
    BY <1>4, DeferMoves, MovesTypes DEF Search!Defer, Search!shared, Search!At, Pcs
  <2>2. group' \subseteq Block
    <3>1. search[q].call \in Search!Calls
      BY <1>0, <1>4 DEF Search!Defer, Search!At, SearchTypes, Queue, Search!Calls
    <3>2. about[search[q].call].deferred \subseteq Search!Deferred
      BY <1>0, <3>1
    <3>3. \A p \in Search!Deferred : [call |-> search[q].call, part |-> p, got |-> {},
          begun |-> FALSE] \in Block
      BY <3>1 DEF Block
    <3> QED
      BY <1>0, <1>4, <3>2, <3>3 DEF Search!Defer
  <2> QED
    BY <1>0, <1>4, <2>1, <2>2 DEF Search!Defer, Search!shared, SearchTypes
<1>5. ASSUME NEW q \in Searchers, Search!Waited(q) PROVE SearchTypes'
  <2>1. InCall
    BY <1>5, WaitedMoves, MovesTypes DEF Search!Waited, Search!shared, Search!At, Pcs
  <2> QED
    BY <1>0, <1>5, <2>1 DEF Search!Waited, Search!shared, SearchTypes
<1>6. ASSUME NEW q \in Searchers, Search!TimeOut(q) PROVE SearchTypes'
  <2>1. InCall
    BY <1>6, TimeOutMoves, MovesTypes DEF Search!TimeOut, Search!shared, Search!At, Pcs
  <2> QED
    BY <1>0, <1>6, <2>1 DEF Search!TimeOut, Search!shared, SearchTypes
<1>7. ASSUME NEW q \in Searchers, Search!Read(q) PROVE SearchTypes'
  <2>1. InCall
    BY <1>7, ReadMoves, MovesTypes DEF Search!Read, Search!shared, Search!At, Pcs
  <2> QED
    BY <1>0, <1>7, <2>1 DEF Search!Read, Search!shared, SearchTypes
<1>8. ASSUME NEW q \in Searchers, Search!Clear(q) PROVE SearchTypes'
  <2>1. InCall
    BY <1>8, ClearMoves, MovesTypes DEF Search!Clear, Search!shared, Search!At, Pcs
  <2>2. cache' \in [Search!Slots -> SUBSET Search!Found]
    BY <1>8 DEF Search!Clear
  <2> QED
    BY <1>0, <1>8, <2>1, <2>2 DEF Search!Clear, Search!shared, SearchTypes
<1>9. ASSUME NEW q \in Searchers, Search!Finish(q) PROVE SearchTypes'
  <2>1. InCall
    <3>1. search' \in [Searchers -> Queue] /\ search'[q] = Search!Idle
            /\ \A p \in Searchers \ {q} : search'[p] = search[p]
      BY <1>9, FinishMoves
    <3>2. \A p \in Searchers : search[p].call <= calls /\ (search[p].pc = "idle" <=> search[p].call = 0)
      BY DEF SearchTypes, Search!At
    <3>3. calls' = calls /\ 0 <= calls
      BY <1>0, <1>9 DEF Search!Finish, Search!shared
    <3>4. Search!Idle.pc = "idle" /\ Search!Idle.call = 0
      BY DEF Search!Idle
    <3> QED
      BY <3>1, <3>2, <3>3, <3>4 DEF Search!At
  <2>2. search[q].got \in SUBSET Search!Found /\ search[q].call \in 0..MaxCall
          /\ search[q].trouble \in SUBSET Search!Troubles
        /\ search[q].call <= calls
    BY <1>0 DEF Queue, SearchTypes
  <2>3. kept' \subseteq Search!Found
    <3>1. Search!Query("others") \in SUBSET Search!Found
      BY <1>m DEF Search!Parts
    <3> QED
      BY <1>0, <1>9, <2>2, <3>1 DEF Search!Finish
  <2>4. returned' \in Result /\ returned'.call <= calls'
    <3>1. returned' = [call |-> search[q].call, got |-> kept', trouble |-> search[q].trouble, since |-> emptied]
      BY <1>9 DEF Search!Finish
    <3>2. emptied \in 0..MaxCall /\ calls' = calls
      BY <1>0, <1>9 DEF Search!Finish, Search!shared
    <3> QED
      BY <2>2, <2>3, <3>1, <3>2 DEF Result
  <2> QED
    BY <1>0, <1>9, <2>1, <2>3, <2>4 DEF Search!Finish, Search!shared, SearchTypes
<1>10. ASSUME NEW b \in group, Search!Run(b) PROVE SearchTypes'
  <2>1. InCall
    <3>1. /\ search' \in [Searchers -> Queue]
          /\ \A p \in Searchers : search'[p].pc = search[p].pc /\ search'[p].call = search[p].call
      BY <1>10, RunMoves DEF Troubled
    <3> QED
      BY <1>10, <3>1 DEF Search!At, Search!Run, Search!shared, SearchTypes
  <2>2. group' \subseteq Block
    <3>2. PICK d \in Block : group' = (group \ {b}) \cup {d}
      BY <1>10, RunBlock
    <3> QED
      BY <1>0, <3>2
  <2> QED
    BY <1>0, <1>10, <2>1, <2>2 DEF Search!Run, Search!shared, SearchTypes
<1>11. ASSUME NEW b \in group, Search!Leave(b) PROVE SearchTypes'
  <2>1. InCall
    BY <1>11 DEF Search!Leave, Search!shared, SearchTypes, Search!At
  <2>2. cache' \in [Search!Slots -> SUBSET Search!Found]
    <3>1. b.got \in SUBSET Search!Found
      BY <1>0 DEF Block
    <3> QED
      BY <1>0, <1>11, <3>1 DEF Search!Leave
  <2>3. group' \subseteq Block
    BY <1>0, <1>11 DEF Search!Leave
  <2> QED
    BY <1>0, <1>11, <2>1, <2>2, <2>3 DEF Search!Leave, Search!shared, SearchTypes
<1> QED
  BY <1>1, <1>2, <1>3, <1>4, <1>5, <1>6, <1>7, <1>8, <1>9, <1>10, <1>11 DEF Search!Next, Search!Step

-----------------------------------------------------------------------------
(* Calls that are not abreast                                              *)

(* What a step does to one queue is nothing that could help.               *)
LEMMA AloneStep ==
    ASSUME SearchTypes, AloneInv, Search!Next
    PROVE  AloneInv'
<1> SUFFICES ASSUME NEW p \in Search!Busy', "abreast" \notin search'[p].trouble
             PROVE  Search!Busy' = {p} /\ letters' = search'[p].call /\ calls' = search'[p].call
                      /\ emptied' < calls'
  BY DEF AloneInv
<1>0. p \in Searchers /\ search'[p].pc # "idle" /\ calls \in Nat /\ emptied \in 0..calls
      /\ Search!Busy' = {q \in Searchers : search'[q].pc # "idle"}
  BY DEF Search!Busy, Search!At, SearchTypes
<1>m. ASSUME NEW q \in Searchers, search[q].pc # "idle", calls' = calls, letters' = letters, emptied' = emptied,
             \E pc \in Pcs : \E got, trouble : Moves(q, pc, got, trouble) /\ search[q].trouble \subseteq trouble
      PROVE  Search!Busy' = {p} /\ letters' = search'[p].call /\ calls' = search'[p].call /\ emptied' < calls'
  <2>1. p \in Search!Busy /\ "abreast" \notin search[p].trouble /\ search'[p].call = search[p].call
    BY <1>0, <1>m DEF Moves, Search!Busy, Search!At
  <2>2. Search!Busy = {p} /\ letters = search[p].call /\ calls = search[p].call /\ emptied < calls
    BY <2>1 DEF AloneInv
  <2>3. Search!Busy' \subseteq Search!Busy
    BY <1>0, <1>m DEF Moves, Search!Busy, Search!At
  <2> QED
    BY <1>m, <2>1, <2>2, <2>3
<1>n. ASSUME \A q \in Searchers : \E more \in SUBSET Search!Troubles : Troubled(q, more),
             calls' = calls, letters' = letters, emptied' = emptied
      PROVE  Search!Busy' = {p} /\ letters' = search'[p].call /\ calls' = search'[p].call /\ emptied' < calls'
  <2>1. p \in Search!Busy /\ "abreast" \notin search[p].trouble /\ search'[p].call = search[p].call
    BY <1>0, <1>n DEF Troubled, Search!Busy, Search!At
  <2>2. Search!Busy = {p} /\ letters = search[p].call /\ calls = search[p].call /\ emptied < calls
    BY <2>1 DEF AloneInv
  <2>3. Search!Busy' \subseteq Search!Busy
    BY <1>0, <1>n DEF Troubled, Search!Busy, Search!At
  <2> QED
    BY <1>n, <2>1, <2>2, <2>3
<1>1. ASSUME NEW q \in Searchers, Search!Begin(q)
      PROVE  Search!Busy' = {p} /\ letters' = search'[p].call /\ calls' = search'[p].call /\ emptied' < calls'
  <2>1. /\ search'[q].call = calls + 1
        /\ "abreast" \in search'[q].trouble <=> Search!Busy \ {q} # {}
        /\ \A r \in Searchers \ {q} : search'[r].pc = search[r].pc /\ (r \in Search!Busy
             => "abreast" \in search'[r].trouble)
    BY <1>1, BeginMoves DEF Troubled, Search!Troubles
  <2>2. p = q
    BY <1>0, <2>1 DEF Search!Busy, Search!At
  <2>3. Search!Busy \ {q} = {} /\ Search!Busy' = {q}
    BY <1>0, <2>1, <2>2 DEF Search!Busy, Search!At
  <2> QED
    BY <1>0, <1>1, <2>1, <2>2, <2>3, BeginSets
<1>2. ASSUME NEW q \in Searchers, Search!Empty(q)
      PROVE  FALSE
  BY <1>0, <1>2, EmptyMoves DEF Troubled, Search!Busy, Search!At
<1>3. ASSUME NEW q \in Searchers, Search!Words(q)
      PROVE  Search!Busy' = {p} /\ letters' = search'[p].call /\ calls' = search'[p].call /\ emptied' < calls'
  <2>1. \E pc \in Pcs : \E got, trouble : Moves(q, pc, got, trouble) /\ search[q].trouble \subseteq trouble
    BY <1>3, WordsMoves DEF Pcs
  <2> QED
    BY <1>3, <1>m, <2>1 DEF Search!Words, Search!shared, Search!At
<1>4. ASSUME NEW q \in Searchers, Search!Defer(q)
      PROVE  Search!Busy' = {p} /\ letters' = search'[p].call /\ calls' = search'[p].call /\ emptied' < calls'
  <2>1. \E pc \in Pcs : \E got, trouble : Moves(q, pc, got, trouble) /\ search[q].trouble \subseteq trouble
    BY <1>4, DeferMoves DEF Pcs
  <2> QED
    BY <1>4, <1>m, <2>1 DEF Search!Defer, Search!shared, Search!At
<1>5. ASSUME NEW q \in Searchers, Search!Waited(q)
      PROVE  Search!Busy' = {p} /\ letters' = search'[p].call /\ calls' = search'[p].call /\ emptied' < calls'
  <2>1. \E pc \in Pcs : \E got, trouble : Moves(q, pc, got, trouble) /\ search[q].trouble \subseteq trouble
    BY <1>5, WaitedMoves DEF Pcs
  <2> QED
    BY <1>5, <1>m, <2>1 DEF Search!Waited, Search!shared, Search!At
<1>6. ASSUME NEW q \in Searchers, Search!TimeOut(q)
      PROVE  Search!Busy' = {p} /\ letters' = search'[p].call /\ calls' = search'[p].call /\ emptied' < calls'
  <2>1. \E pc \in Pcs : \E got, trouble : Moves(q, pc, got, trouble) /\ search[q].trouble \subseteq trouble
    <3>1. Moves(q, "read", search[q].got, search[q].trouble \cup {"late"}) /\ "read" \in Pcs
      BY <1>6, TimeOutMoves DEF Pcs
    <3> QED
      BY <3>1, search[q].trouble \subseteq search[q].trouble \cup {"late"}, Zenon
  <2> QED
    BY <1>6, <1>m, <2>1 DEF Search!TimeOut, Search!shared, Search!At
<1>7. ASSUME NEW q \in Searchers, Search!Read(q)
      PROVE  Search!Busy' = {p} /\ letters' = search'[p].call /\ calls' = search'[p].call /\ emptied' < calls'
  <2>1. \E pc \in Pcs : \E got, trouble : Moves(q, pc, got, trouble) /\ search[q].trouble \subseteq trouble
    BY <1>7, ReadMoves DEF Pcs
  <2> QED
    BY <1>7, <1>m, <2>1 DEF Search!Read, Search!shared, Search!At
<1>8. ASSUME NEW q \in Searchers, Search!Clear(q)
      PROVE  Search!Busy' = {p} /\ letters' = search'[p].call /\ calls' = search'[p].call /\ emptied' < calls'
  <2>1. \E pc \in Pcs : \E got, trouble : Moves(q, pc, got, trouble) /\ search[q].trouble \subseteq trouble
    BY <1>8, ClearMoves DEF Pcs
  <2> QED
    BY <1>8, <1>m, <2>1 DEF Search!Clear, Search!shared, Search!At
<1>9. ASSUME NEW q \in Searchers, Search!Finish(q)
      PROVE  Search!Busy' = {p} /\ letters' = search'[p].call /\ calls' = search'[p].call /\ emptied' < calls'
  <2>1. p # q /\ search'[p] = search[p] /\ q \in Search!Busy
    BY <1>0, <1>9, FinishMoves DEF Search!Idle, Search!Finish, Search!At, Search!Busy
  <2>2. p \in Search!Busy
    BY <1>0, <2>1 DEF Search!Busy, Search!At
  <2> QED
    BY <2>1, <2>2 DEF AloneInv
<1>10. ASSUME NEW b \in group, Search!Run(b)
       PROVE  Search!Busy' = {p} /\ letters' = search'[p].call /\ calls' = search'[p].call /\ emptied' < calls'
  <2>1. \A q \in Searchers : \E more \in SUBSET Search!Troubles : Troubled(q, more)
    BY <1>10, RunMoves DEF Search!Troubles
  <2> QED
    BY <1>10, <1>n, <2>1 DEF Search!Run, Search!shared
<1>11. ASSUME NEW b \in group, Search!Leave(b)
       PROVE  Search!Busy' = {p} /\ letters' = search'[p].call /\ calls' = search'[p].call /\ emptied' < calls'
  BY <1>0, <1>11 DEF AloneInv, Search!Busy, Search!At, Search!Leave, Search!shared
<1> QED
  BY <1>1, <1>2, <1>3, <1>4, <1>5, <1>6, <1>7, <1>8, <1>9, <1>10, <1>11 DEF Search!Next, Search!Step

-----------------------------------------------------------------------------
(* The cache of a call that is clean                                       *)

(* A clean call is the only one.                                           *)
LEMMA CleanIsAlone ==
    ASSUME SearchTypes, AloneInv, NEW p \in Search!Busy, Clean(p), NEW q \in Search!Busy
    PROVE  p = q /\ letters = search[p].call /\ calls = search[p].call /\ search[p].call \in Search!Calls
                 /\ p \in Searchers
<1>1. Search!Busy = {p} /\ letters = search[p].call /\ calls = search[p].call
  BY DEF AloneInv, Clean
<1>2. p \in Searchers /\ search[p].call # 0 /\ search[p].call \in 0..MaxCall
  BY DEF Search!Busy, Search!At, SearchTypes, Queue
<1> QED
  BY <1>1, <1>2, PartsAssumption DEF Search!Calls, Search!CallAssumption

(* What a query finds, then                                                *)
LEMMA QueryFits ==
    ASSUME SearchTypes, AloneInv, NEW p \in Search!Busy, Clean(p), NEW slot
    PROVE  Search!Query(slot) = IF about[search[p].call].known THEN {<<search[p].call, slot>>} ELSE {}
<1>1. letters = search[p].call /\ search[p].call \in Search!Calls
  BY CleanIsAlone
<1> QED
  BY <1>1, PartsAssumption DEF Search!Query, Search!Calls, Search!CallAssumption

(* Only q moves, and what is left depends on its record alone.             *)
LEMMA CleanMoves ==
    ASSUME SearchTypes, AloneInv, CleanInv, NEW q \in Search!Busy, NEW pc \in Pcs \ {"idle"}, NEW got,
           NEW trouble,
           Moves(q, pc, got, trouble), search[q].trouble \subseteq trouble, NEW p \in Search!Busy', Clean(p)'
    PROVE  /\ p = q /\ Clean(q) /\ CleanFits(q) /\ letters = search[q].call
           /\ search[q].call \in Search!Calls
<1>1. q \in Searchers /\ p \in Searchers
  BY DEF Search!Busy
<1>2. p \in Search!Busy /\ Clean(p)
  BY <1>1 DEF Moves, Search!Busy, Search!At, Clean
<1>3. p = q /\ letters = search[p].call /\ search[p].call \in Search!Calls
  BY <1>2, CleanIsAlone
<1> QED
  BY <1>2, <1>3 DEF CleanInv


LEMMA CleanStep ==
    ASSUME SearchTypes, AloneInv, CleanInv, Search!Next
    PROVE  CleanInv'
<1> SUFFICES ASSUME NEW p \in Search!Busy', Clean(p)'
             PROVE  CleanFits(p)'
  BY DEF CleanInv
<1>0. p \in Searchers /\ search'[p].pc # "idle"
  BY DEF Search!Busy, Search!At
<1>1. ASSUME NEW q \in Searchers, Search!Begin(q) PROVE CleanFits(p)'
  <2>1. /\ search'[q].pc = "words"
        /\ "abreast" \in search'[q].trouble <=> Search!Busy \ {q} # {}
        /\ "late" \in search'[q].trouble <=> group # {}
        /\ "dirty" \in search'[q].trouble <=> \E s \in Search!Slots : cache[s] # {}
        /\ \A r \in Searchers \ {q} : search'[r].pc = search[r].pc /\ (r \in Search!Busy
             => "abreast" \in search'[r].trouble)
    BY <1>1, BeginMoves DEF Troubled, Search!Troubles
  <2>2. p = q
    BY <1>0, <2>1 DEF Search!Busy, Search!At, Clean
  <2>3. group' = {} /\ \A s \in Search!Slots : cache'[s] = {}
    BY <1>1, <2>1, <2>2, BeginSets DEF Clean
  <2> QED
    BY <2>1, <2>2, <2>3 DEF CleanFits, Search!At
<1>2. ASSUME NEW q \in Searchers, Search!Empty(q) PROVE CleanFits(p)'
  BY <1>0, <1>2, EmptyMoves DEF Troubled, Search!Busy, Search!At, Clean
<1>3. ASSUME NEW q \in Searchers, Search!Words(q) PROVE CleanFits(p)'
  <2>1. PICK trouble \in {search[q].trouble, search[q].trouble \cup {"slow"}} :
          /\ Moves(q, "defer", search[q].got, trouble)
          /\ cache' = [cache EXCEPT !["words"] = cache'["words"]]
          /\ \/ cache'["words"] = Search!Query("words")
             \/ cache'["words"] = {} /\ "slow" \in trouble
    BY <1>3, WordsMoves
  <2>2. q \in Search!Busy /\ about' = about /\ group' = group
    BY <1>3 DEF Search!Words, Search!shared, Search!At, Search!Busy
  <2>3. p = q /\ Clean(q) /\ CleanFits(q)
    BY <2>1, <2>2, CleanMoves DEF Pcs
  <2>4. group = {} /\ \A s \in Search!Slots : cache[s] = {}
    BY <1>3, <2>3 DEF CleanFits, Search!Words
  <2>5. search'[q].pc = "defer" /\ search'[q].call = search[q].call /\ search'[q].trouble = trouble
    BY <2>1 DEF Moves
  <2>6. Fits(q, "words", cache["words"])'
    BY <2>1, <2>2, <2>3, <2>5, QueryFits DEF Fits
  <2>7. \A d \in Search!Deferred : cache'[d] = {}
    BY <2>1, <2>4 DEF Search!Deferred, Search!Slots, SearchTypes
  <2> QED
    BY <2>2, <2>3, <2>4, <2>5, <2>6, <2>7 DEF CleanFits, CacheFits, Search!At
<1>4. ASSUME NEW q \in Searchers, Search!Defer(q) PROVE CleanFits(p)'
  <2>1. Moves(q, "wait", search[q].got, search[q].trouble)
    BY <1>4, DeferMoves
  <2>2. q \in Search!Busy /\ about' = about /\ cache' = cache
    BY <1>4 DEF Search!Defer, Search!shared, Search!At, Search!Busy
  <2>3. p = q /\ Clean(q) /\ CleanFits(q) /\ search[q].call \in Search!Calls
    BY <2>1, <2>2, CleanMoves DEF Pcs
  <2>4. group = {} /\ CacheFits(q, {})
    BY <1>4, <2>3 DEF CleanFits, Search!Defer
  <2>5. search'[q].pc = "wait" /\ search'[q].call = search[q].call /\ search'[q].trouble = search[q].trouble
    BY <2>1 DEF Moves
  <2> DEFINE parts == about[search[q].call].deferred
             new(d) == [call |-> search[q].call, part |-> d, got |-> {}, begun |-> FALSE]
  <2>6. /\ \A b \in group' : \E d \in parts : b = new(d)
        /\ \A d \in parts : new(d) \in group'
        /\ \A d : new(d).call = search[q].call /\ new(d).part = d /\ new(d).begun = FALSE
    BY <1>4, <2>4 DEF Search!Defer
  <2> HIDE DEF new
  <2>7. Pending' = about'[search'[q].call].deferred
    <3>1. Pending' = {b.part : b \in group'}
      BY DEF Pending
    <3>2. Pending' \subseteq parts
      BY <2>6, <3>1
    <3>3. parts \subseteq Pending'
      BY <2>6, <3>1
    <3> QED
      BY <2>2, <2>5, <3>2, <3>3
  <2>8. CacheFits(q, about[search[q].call].deferred \ Pending)'
    BY <2>2, <2>4, <2>5, <2>7 DEF CacheFits, Fits
  <2>9. /\ \A b \in group' : b.call = search'[q].call /\ ~b.begun
        /\ \A b, c \in group' : b.part = c.part => b = c
    BY <2>5, <2>6
  <2> QED
    BY <2>3, <2>5, <2>7, <2>8, <2>9 DEF CleanFits, Search!At
<1>5. ASSUME NEW q \in Searchers, Search!Waited(q) PROVE CleanFits(p)'
  <2>1. Moves(q, "read", search[q].got, search[q].trouble)
    BY <1>5, WaitedMoves
  <2>2. q \in Search!Busy /\ about' = about /\ cache' = cache /\ group' = group /\ group = {}
    BY <1>5 DEF Search!Waited, Search!shared, Search!At, Search!Busy
  <2>3. p = q /\ Clean(q) /\ CleanFits(q)
    BY <2>1, <2>2, CleanMoves DEF Pcs
  <2>4. CacheFits(q, about[search[q].call].deferred)
    <3>1. Pending = {}
      BY <2>2 DEF Pending
    <3> QED
      BY <1>5, <2>3, <3>1 DEF CleanFits, Search!Waited
  <2>5. search'[q].pc = "read" /\ search'[q].call = search[q].call /\ search'[q].trouble = search[q].trouble
    BY <2>1 DEF Moves
  <2>6. CacheFits(q, about[search[q].call].deferred)'
    BY <2>2, <2>4, <2>5 DEF CacheFits, Fits
  <2> QED
    BY <2>2, <2>3, <2>5, <2>6 DEF CleanFits, Search!At
<1>6. ASSUME NEW q \in Searchers, Search!TimeOut(q) PROVE CleanFits(p)'
  <2>1. Moves(q, "read", search[q].got, search[q].trouble \cup {"late"})
    BY <1>6, TimeOutMoves
  <2>2. q \in Search!Busy
    BY <1>6 DEF Search!TimeOut, Search!At, Search!Busy
  <2>3. p = q
    <3>1. search[q].trouble \subseteq search[q].trouble \cup {"late"} /\ "read" \in Pcs \ {"idle"}
      BY DEF Pcs
    <3> QED
      BY <2>1, <2>2, <3>1, CleanMoves
  <2> QED
    BY <2>1, <2>3 DEF Moves, Clean
<1>7. ASSUME NEW q \in Searchers, Search!Read(q) PROVE CleanFits(p)'
  <2> DEFINE all == UNION {cache[s] : s \in Search!Slots}
  <2>1. Moves(q, "clear", all, search[q].trouble)
    BY <1>7, ReadMoves
  <2>2. q \in Search!Busy /\ about' = about /\ group' = group /\ Search!At(q, "read")
    BY <1>7 DEF Search!Read, Search!shared, Search!At, Search!Busy
  <2>3. p = q /\ Clean(q) /\ CleanFits(q) /\ search[q].call \in Search!Calls
    BY <2>1, <2>2, CleanMoves DEF Pcs
  <2>4. group = {} /\ CacheFits(q, about[search[q].call].deferred)
    BY <2>2, <2>3 DEF CleanFits
  <2>5. search'[q].pc = "clear" /\ search'[q].call = search[q].call /\ search'[q].trouble = search[q].trouble
        /\ search'[q].got = all
    BY <2>1 DEF Moves
  <2> DEFINE call  == search[q].call
             parts == about[call].deferred
  <2>6. all = cache["words"] \cup cache["sentence"] \cup cache["single"]
    BY DEF Search!Slots
  <2>7. parts \subseteq Search!Deferred /\ about[call].known \in BOOLEAN
    BY <2>3 DEF SearchTypes
  <2> HIDE DEF all
  <2>8. ASSUME about[call].known
        PROVE  all \subseteq Offer(q) /\ (all = Offer(q) \/ "slow" \in search[q].trouble)
    <3>1. \A d \in {"words"} \cup parts :
            cache[d] = {<<call, d>>} \/ (cache[d] = {} /\ "slow" \in search[q].trouble)
      BY <2>4, <2>7, <2>8 DEF CacheFits, Fits
    <3>2. \A d \in Search!Deferred \ parts : cache[d] = {}
      BY <2>4 DEF CacheFits
    <3>3. Offer(q) = {<<call, d>> : d \in {"words"} \cup parts}
      BY DEF Offer
    <3>4. \A d \in {"words", "sentence", "single"} :
            cache[d] = {} \/ (cache[d] = {<<call, d>>} /\ d \in {"words"} \cup parts)
      BY <3>1, <3>2 DEF Search!Deferred
    <3>5. all \subseteq Offer(q)
      BY <2>6, <3>3, <3>4
    <3>6. ASSUME "slow" \notin search[q].trouble PROVE Offer(q) \subseteq all
      <4>1. {"words"} \cup parts \subseteq {"words", "sentence", "single"}
        BY <2>7 DEF Search!Deferred
      <4>2. \A d \in {"words"} \cup parts : <<call, d>> \in cache[d]
        BY <3>1, <3>6
      <4> QED
        BY <2>6, <3>3, <4>1, <4>2
    <3> QED
      BY <3>5, <3>6
  <2>9. ASSUME ~about[call].known
        PROVE  all = {}
    <3>1. \A d \in {"words"} \cup Search!Deferred : cache[d] = {}
      BY <2>4, <2>9 DEF CacheFits, Fits
    <3> QED
      BY <2>6, <3>1 DEF Search!Deferred
  <2>10. GotFits(q)'
    BY <2>2, <2>5, <2>8, <2>9 DEF GotFits, Offer
  <2> QED
    BY <2>2, <2>3, <2>4, <2>5, <2>10 DEF CleanFits, Search!At
<1>8. ASSUME NEW q \in Searchers, Search!Clear(q) PROVE CleanFits(p)'
  <2>1. Moves(q, "finish", search[q].got, search[q].trouble)
    BY <1>8, ClearMoves
  <2>2. q \in Search!Busy /\ about' = about /\ group' = group /\ search[q].pc = "clear"
    BY <1>8 DEF Search!Clear, Search!shared, Search!At, Search!Busy
  <2>3. p = q /\ Clean(q) /\ CleanFits(q)
    BY <2>1, <2>2, CleanMoves DEF Pcs
  <2>4. group = {} /\ GotFits(q)
    BY <2>2, <2>3 DEF CleanFits
  <2>5. search'[q].pc = "finish" /\ search'[q].call = search[q].call /\ search'[q].trouble = search[q].trouble
        /\ search'[q].got = search[q].got
    BY <2>1 DEF Moves
  <2>6. GotFits(q)'
    BY <2>2, <2>4, <2>5 DEF GotFits, Offer
  <2> QED
    BY <2>2, <2>3, <2>4, <2>5, <2>6 DEF CleanFits, Search!At
<1>9. ASSUME NEW q \in Searchers, Search!Finish(q) PROVE CleanFits(p)'
  <2>1. p # q /\ search'[p] = search[p] /\ q \in Search!Busy
    BY <1>0, <1>9, FinishMoves DEF Search!Idle, Search!Finish, Search!At, Search!Busy
  <2>2. p \in Search!Busy /\ Clean(p)
    BY <1>0, <2>1 DEF Search!Busy, Search!At, Clean
  <2> QED
    BY <2>1, <2>2, CleanIsAlone
<1>10. ASSUME NEW b \in group, Search!Run(b) PROVE CleanFits(p)'
  <2>1. PICK got \in {Search!Query(b.part), {}}, c \in SUBSET Search!Found :
          /\ got = Search!Query(b.part) \/ b.part = "sentence"
          /\ c = IF b.part = "single" THEN cache["single"] \cup got ELSE got
          /\ \E d \in Block :
               /\ d.call = b.call /\ d.part = b.part /\ d.begun = TRUE /\ d.got = c
               /\ group' = (group \ {b}) \cup {d}
          /\ search' \in [Searchers -> Queue]
          /\ \A q \in Searchers : Troubled(q, IF got # Search!Query(b.part)
               /\ search[q].call = b.call THEN {"slow"} ELSE {})
    BY <1>10, RunMoves
  <2>2. PICK d \in Block :
          /\ d.call = b.call /\ d.part = b.part /\ d.begun = TRUE /\ d.got = c
          /\ group' = (group \ {b}) \cup {d}
    BY <2>1
  <2>3. about' = about /\ cache' = cache /\ ~b.begun
    BY <1>10 DEF Search!Run, Search!shared
  <2>4. Troubled(p, IF got # Search!Query(b.part) /\ search[p].call = b.call THEN {"slow"} ELSE {})
    BY <1>0, <2>1
  <2>5. /\ search'[p].pc = search[p].pc /\ search'[p].call = search[p].call
             /\ search[p].trouble \subseteq search'[p].trouble
        /\ got # Search!Query(b.part) /\ search[p].call = b.call => "slow" \in search'[p].trouble
    BY <2>4 DEF Troubled
  <2>6. p \in Search!Busy /\ Clean(p)
    BY <1>0, <2>5 DEF Search!Busy, Search!At, Clean
  <2>7. CleanFits(p) /\ search[p].call \in Search!Calls
    BY <2>6, CleanIsAlone DEF CleanInv
  <2>8. Search!At(p, "wait")
    <3>1. search[p].pc \in Pcs
      BY <1>0 DEF SearchTypes, Queue
    <3> QED
      BY <2>6, <2>7, <3>1 DEF CleanFits, Search!At, Pcs, Search!Busy
  <2>9. /\ Pending \subseteq about[search[p].call].deferred
        /\ CacheFits(p, about[search[p].call].deferred \ Pending)
        /\ \A e \in group : e.call = search[p].call /\ (e.begun => Fits(p, e.part, e.got))
        /\ \A e, f \in group : e.part = f.part => e = f
    BY <2>7, <2>8 DEF CleanFits
  <2>10. Pending' = Pending
    BY <2>2 DEF Pending
  <2>11. b.part \in Pending /\ b.part \in Search!Deferred
    BY DEF Pending, SearchTypes, Block
  <2>12. b.part = "single" => cache["single"] = {}
    BY <2>9, <2>11 DEF CacheFits
  <2>13. c = got
    BY <2>1, <2>12
  <2>14. Fits(p, d.part, d.got)'
    <3>1. got = Search!Query(b.part) \/ (got = {} /\ "slow" \in search'[p].trouble)
      BY <2>1, <2>5, <2>9
    <3>2. Search!Query(b.part) = IF about[search[p].call].known THEN {<<search[p].call, b.part>>} ELSE {}
      BY <2>6, QueryFits
    <3> QED
      BY <2>2, <2>3, <2>5, <2>13, <3>1, <3>2 DEF Fits
  <2>15. CacheFits(p, about[search[p].call].deferred \ Pending)'
    BY <2>3, <2>5, <2>9, <2>10 DEF CacheFits, Fits
  <2>16. \A e \in group' : e.call = search'[p].call /\ (e.begun => Fits(p, e.part, e.got)')
    <3> SUFFICES ASSUME NEW e \in group' PROVE e.call = search'[p].call /\ (e.begun => Fits(p, e.part, e.got)')
      OBVIOUS
    <3>1. CASE e = d
      BY <2>2, <2>5, <2>9, <2>14, <3>1
    <3>2. CASE e \in group
      BY <2>3, <2>5, <2>9, <3>2 DEF Fits
    <3> QED
      BY <2>2, <3>1, <3>2
  <2>17. \A e, f \in group' : e.part = f.part => e = f
    BY <2>2, <2>9
  <2>18. Pending' \subseteq about'[search'[p].call].deferred
    BY <2>3, <2>5, <2>9, <2>10
  <2>19. search'[p].pc = "wait"
    BY <2>5, <2>8 DEF Search!At
  <2> QED
    BY <2>15, <2>16, <2>17, <2>18, <2>19 DEF CleanFits, Search!At
<1>11. ASSUME NEW b \in group, Search!Leave(b) PROVE CleanFits(p)'
  <2>1. /\ about' = about /\ search' = search /\ b.begun /\ group' = group \ {b}
        /\ cache' = [cache EXCEPT ![b.part] = b.got]
    BY <1>11 DEF Search!Leave, Search!shared
  <2>2. p \in Search!Busy /\ Clean(p)
    BY <2>1 DEF Search!Busy, Search!At, Clean
  <2>3. CleanFits(p) /\ search[p].call \in Search!Calls
    BY <2>2, CleanIsAlone DEF CleanInv
  <2>4. Search!At(p, "wait")
    <3>1. search[p].pc \in Pcs
      BY <1>0 DEF SearchTypes, Queue
    <3> QED
      BY <2>2, <2>3, <3>1 DEF CleanFits, Search!At, Pcs, Search!Busy
  <2>5. /\ Pending \subseteq about[search[p].call].deferred
        /\ CacheFits(p, about[search[p].call].deferred \ Pending)
        /\ \A e \in group : e.call = search[p].call /\ (e.begun => Fits(p, e.part, e.got))
        /\ \A e, f \in group : e.part = f.part => e = f
    BY <2>3, <2>4 DEF CleanFits
  <2>6. Pending' = Pending \ {b.part}
    BY <2>1, <2>5 DEF Pending
  <2>7. b.part \in Pending /\ b.part \in Search!Deferred /\ Fits(p, b.part, b.got)
    BY <2>1, <2>5 DEF Pending, SearchTypes, Block
  <2>8. /\ cache'["words"] = cache["words"]
        /\ \A d \in Search!Deferred : cache'[d] = IF d = b.part THEN b.got ELSE cache[d]
    BY <2>1, <2>7 DEF SearchTypes, Search!Slots, Search!Deferred
  <2>9. CacheFits(p, about[search[p].call].deferred \ Pending)'
    <3>1. Fits(p, "words", cache["words"])'
      BY <2>1, <2>5, <2>8 DEF CacheFits, Fits
    <3>2. \A d \in Search!Deferred : IF d \in about[search[p].call].deferred \ Pending'
                                     THEN Fits(p, d, cache'[d]) ELSE cache'[d] = {}
      <4> SUFFICES ASSUME NEW d \in Search!Deferred
                   PROVE  IF d \in about[search[p].call].deferred \ Pending'
                          THEN Fits(p, d, cache'[d]) ELSE cache'[d] = {}
        OBVIOUS
      <4>1. CASE d = b.part
        BY <2>5, <2>6, <2>7, <2>8, <4>1
      <4>2. CASE d # b.part
        BY <2>5, <2>6, <2>8, <4>2 DEF CacheFits
      <4> QED
        BY <4>1, <4>2
    <3> QED
      BY <2>1, <3>1, <3>2 DEF CacheFits, Fits
  <2>10. /\ \A e \in group' : e.call = search'[p].call /\ (e.begun => Fits(p, e.part, e.got)')
         /\ \A e, f \in group' : e.part = f.part => e = f
    BY <2>1, <2>5 DEF Fits
  <2>11. Pending' \subseteq about'[search'[p].call].deferred /\ search'[p].pc = "wait"
    BY <2>1, <2>4, <2>5, <2>6 DEF Search!At
  <2> QED
    BY <2>9, <2>10, <2>11 DEF CleanFits, Search!At
<1> QED
  BY <1>1, <1>2, <1>3, <1>4, <1>5, <1>6, <1>7, <1>8, <1>9, <1>10, <1>11 DEF Search!Next, Search!Step

-----------------------------------------------------------------------------
(* What is in the cache is cleared                                         *)

LEMMA ClearStep ==
    ASSUME SearchTypes, ClearInv, Search!Next
    PROVE  ClearInv'
<1> SUFFICES ASSUME "late" \notin ever'
             PROVE  /\ group' # {} => \E q \in Searchers : search'[q].pc = "wait"
                    /\ (\E s \in Search!Slots : cache'[s] # {}) =>
                         \E q \in Searchers : search'[q].pc \in {"defer", "wait", "read", "clear"}
  BY DEF ClearInv, Search!At
<1> DEFINE Some == \E s \in Search!Slots : cache[s] # {}
           Left == /\ group' # {} => \E q \in Searchers : search'[q].pc = "wait"
                   /\ Some' => \E q \in Searchers : search'[q].pc \in {"defer", "wait", "read", "clear"}
<1>0. "late" \notin ever =>
        /\ group # {} => \E q \in Searchers : search[q].pc = "wait"
        /\ Some => \E q \in Searchers : search[q].pc \in {"defer", "wait", "read", "clear"}
  BY DEF ClearInv, Search!At
<1>1. ASSUME NEW q \in Searchers, Search!Begin(q) PROVE Left
  <2>1. "late" \notin ever /\ search[q].pc = "idle" /\ group' = group /\ cache' = cache
    BY <1>1, BeginMoves, BeginSets
  <2>2. \A r \in Searchers \ {q} : search'[r].pc = search[r].pc
    BY <1>1, BeginMoves DEF Troubled
  <2> QED
    BY <1>0, <2>1, <2>2
<1>2. ASSUME NEW q \in Searchers, Search!Empty(q) PROVE Left
  <2>1. "late" \notin ever /\ group' = group /\ cache' = cache
    BY <1>2 DEF Search!Empty
  <2>2. \A r \in Searchers : search'[r].pc = search[r].pc
    BY <1>2, EmptyMoves DEF Troubled
  <2> QED
    BY <1>0, <2>1, <2>2
<1>3. ASSUME NEW q \in Searchers, Search!Words(q) PROVE Left
  <2>1. \E trouble : Moves(q, "defer", search[q].got, trouble)
    BY <1>3, WordsMoves
  <2>2. search[q].pc = "words" /\ ever' = ever /\ group' = group
    BY <1>3 DEF Search!Words, Search!At
  <2> QED
    BY <1>0, <2>1, <2>2 DEF Moves
<1>4. ASSUME NEW q \in Searchers, Search!Defer(q) PROVE Left
  BY <1>4, DeferMoves DEF Moves
<1>5. ASSUME NEW q \in Searchers, Search!Waited(q) PROVE Left
  <2>1. Moves(q, "read", search[q].got, search[q].trouble)
    BY <1>5, WaitedMoves
  <2> QED
    BY <1>5, <2>1 DEF Moves, Search!Waited
<1>6. ASSUME NEW q \in Searchers, Search!TimeOut(q) PROVE Left
  BY <1>6 DEF Search!TimeOut
<1>7. ASSUME NEW q \in Searchers, Search!Read(q) PROVE Left
  <2>1. \E got : Moves(q, "clear", got, search[q].trouble)
    BY <1>7, ReadMoves
  <2>2. search[q].pc = "read" /\ ever' = ever /\ group' = group
    BY <1>7 DEF Search!Read, Search!At
  <2> QED
    BY <1>0, <2>1, <2>2 DEF Moves
<1>8. ASSUME NEW q \in Searchers, Search!Clear(q) PROVE Left
  <2>1. Moves(q, "finish", search[q].got, search[q].trouble)
    BY <1>8, ClearMoves
  <2>2. search[q].pc = "clear" /\ ever' = ever /\ group' = group /\ ~Some'
    BY <1>8 DEF Search!Clear, Search!At
  <2> QED
    BY <1>0, <2>1, <2>2 DEF Moves
<1>9. ASSUME NEW q \in Searchers, Search!Finish(q) PROVE Left
  <2>1. \A r \in Searchers \ {q} : search'[r] = search[r]
    BY <1>9, FinishMoves
  <2>2. search[q].pc = "finish" /\ ever' = ever /\ group' = group /\ cache' = cache
    BY <1>9 DEF Search!Finish, Search!At
  <2> QED
    BY <1>0, <2>1, <2>2
<1>10. ASSUME NEW b \in group, Search!Run(b) PROVE Left
  <2>1. \A r \in Searchers : search'[r].pc = search[r].pc
    BY <1>10, RunMoves DEF Troubled
  <2>2. ever' = ever /\ cache' = cache /\ group # {}
    BY <1>10 DEF Search!Run
  <2> QED
    BY <1>0, <2>1, <2>2
<1>11. ASSUME NEW b \in group, Search!Leave(b) PROVE Left
  <2>1. search' = search /\ ever' = ever /\ group # {}
    BY <1>11 DEF Search!Leave
  <2> QED
    BY <1>0, <2>1
<1> QED
  BY <1>1, <1>2, <1>3, <1>4, <1>5, <1>6, <1>7, <1>8, <1>9, <1>10, <1>11 DEF Search!Next, Search!Step

-----------------------------------------------------------------------------
(* The candidates kept                                                     *)

LEMMA KeptStep ==
    ASSUME SearchTypes, AloneInv, CleanInv, ClearInv, KeptInv, Search!Next
    PROVE  KeptInv'
<1> SUFFICES ASSUME ever' = {}
             PROVE  /\ \A p \in Search!Busy' : Clean(p)'
                    /\ Search!Letters(kept') \subseteq (emptied' + 1)..calls'
                    /\ \A p \in Search!Busy' : search'[p].call \notin Search!Letters(kept')
  BY DEF KeptInv, Search!Letters
<1> DEFINE Keeps == /\ \A p \in Search!Busy' : Clean(p)'
                    /\ Search!Letters(kept') \subseteq (emptied' + 1)..calls'
                    /\ \A p \in Search!Busy' : search'[p].call \notin Search!Letters(kept')
<1>0. /\ Search!Busy' = {p \in Searchers : search'[p].pc # "idle"}
           /\ Search!Busy = {p \in Searchers : search[p].pc # "idle"}
      /\ calls \in Nat /\ emptied \in 0..calls
  BY DEF Search!Busy, Search!At, SearchTypes
<1>k. ASSUME ever = {}
      PROVE  /\ \A p \in Search!Busy : Clean(p) /\ search[p].call \notin Search!Letters(kept)
             /\ Search!Letters(kept) \subseteq (emptied + 1)..calls
  BY <1>k DEF KeptInv
<1>m. ASSUME NEW q \in Searchers, NEW pc \in Pcs \ {"idle"}, NEW got, NEW trouble, Moves(q, pc, got, trouble),
             search[q].pc # "idle", trouble \subseteq search[q].trouble \cup {"slow"},
             ever' = ever, kept' = kept, calls' = calls, emptied' = emptied
      PROVE  Keeps
  <2>1. Search!Busy' \subseteq Search!Busy
    BY <1>0, <1>m DEF Moves
  <2>2. \A p \in Search!Busy' : search'[p].call = search[p].call
          /\ search'[p].trouble \subseteq search[p].trouble \cup {"slow"}
    BY <1>0, <1>m DEF Moves
  <2> QED
    BY <1>k, <1>m, <2>1, <2>2 DEF Clean
<1>1. ASSUME NEW q \in Searchers, Search!Begin(q) PROVE Keeps
  <2>1. /\ search[q].pc = "idle" /\ calls' = calls + 1
        /\ group' = group /\ cache' = cache /\ kept' = kept /\ emptied' = emptied
    BY <1>1, BeginSets
  <2>2. /\ search'[q].call = calls + 1
        /\ "abreast" \in search'[q].trouble <=> Search!Busy \ {q} # {}
        /\ "late" \in search'[q].trouble <=> group # {}
        /\ "dirty" \in search'[q].trouble <=> \E s \in Search!Slots : cache[s] # {}
        /\ ever' = ever \cup (search'[q].trouble \ {"dirty"})
        /\ \A r \in Searchers \ {q} : search'[r].pc = search[r].pc
    BY <1>1, BeginMoves DEF Troubled, Search!Troubles
  <2>3. ever = {} /\ "abreast" \notin search'[q].trouble /\ "late" \notin search'[q].trouble
    BY <2>2
  <2>4. Search!Busy \ {q} = {} /\ Search!Busy' \subseteq {q}
    BY <1>0, <2>2, <2>3
  <2>5. \A s \in Search!Slots : cache[s] = {}
    <3>1. \A r \in Searchers : search[r].pc = "idle"
      BY <1>0, <2>1, <2>4
    <3> QED
      BY <2>3, <3>1 DEF ClearInv
  <2>6. \A p \in Search!Busy' : Clean(p)'
    BY <2>2, <2>3, <2>4, <2>5 DEF Clean
  <2>7. Search!Letters(kept) \subseteq (emptied + 1)..calls
    BY <1>k, <2>3
  <2>8. \A n \in (emptied + 1)..calls : n \in (emptied + 1)..(calls + 1) /\ n # calls + 1
    BY <1>0
  <2> QED
    BY <2>1, <2>2, <2>4, <2>6, <2>7, <2>8
<1>2. ASSUME NEW q \in Searchers, Search!Empty(q) PROVE Keeps
  <2>1. /\ kept' = {} /\ emptied' = calls /\ calls' = calls
        /\ Search!Busy = {} /\ \A p \in Searchers : search'[p].pc = search[p].pc
    <3>1. /\ kept' = {} /\ emptied' = calls /\ calls' = calls
          /\ ever' = IF Search!Busy = {} THEN ever ELSE ever \cup {"abreast"}
      BY <1>2 DEF Search!Empty
    <3>2. \A p \in Searchers : search'[p].pc = search[p].pc
      BY <1>2, EmptyMoves DEF Troubled
    <3> QED
      BY <3>1, <3>2
  <2>2. Search!Busy' = {}
    BY <1>0, <2>1
  <2>3. Search!Letters(kept') = {}
    BY <2>1 DEF Search!Letters
  <2> QED
    BY <2>2, <2>3
<1>3. ASSUME NEW q \in Searchers, Search!Words(q) PROVE Keeps
  <2>1. PICK trouble \in {search[q].trouble, search[q].trouble \cup {"slow"}} :
          Moves(q, "defer", search[q].got, trouble)
    BY <1>3, WordsMoves
  <2>2. trouble \subseteq search[q].trouble \cup {"slow"} /\ "defer" \in Pcs \ {"idle"}
    BY DEF Pcs
  <2> QED
    BY <1>3, <1>m, <2>1, <2>2 DEF Search!Words, Search!shared, Search!At
<1>4. ASSUME NEW q \in Searchers, Search!Defer(q) PROVE Keeps
  <2>1. Moves(q, "wait", search[q].got, search[q].trouble) /\ "wait" \in Pcs \ {"idle"}
    BY <1>4, DeferMoves DEF Pcs
  <2>2. search[q].trouble \subseteq search[q].trouble \cup {"slow"}
    OBVIOUS
  <2> QED
    BY <1>4, <1>m, <2>1, <2>2 DEF Search!Defer, Search!shared, Search!At
<1>5. ASSUME NEW q \in Searchers, Search!Waited(q) PROVE Keeps
  <2>1. Moves(q, "read", search[q].got, search[q].trouble) /\ "read" \in Pcs \ {"idle"}
    BY <1>5, WaitedMoves DEF Pcs
  <2>2. search[q].trouble \subseteq search[q].trouble \cup {"slow"}
    OBVIOUS
  <2> QED
    BY <1>5, <1>m, <2>1, <2>2 DEF Search!Waited, Search!shared, Search!At
<1>6. ASSUME NEW q \in Searchers, Search!TimeOut(q) PROVE Keeps
  BY <1>6 DEF Search!TimeOut
<1>7. ASSUME NEW q \in Searchers, Search!Read(q) PROVE Keeps
  <2>1. Moves(q, "clear", UNION {cache[s] : s \in Search!Slots}, search[q].trouble)
          /\ "clear" \in Pcs \ {"idle"}
    BY <1>7, ReadMoves DEF Pcs
  <2>2. search[q].trouble \subseteq search[q].trouble \cup {"slow"}
    OBVIOUS
  <2> QED
    BY <1>7, <1>m, <2>1, <2>2 DEF Search!Read, Search!shared, Search!At
<1>8. ASSUME NEW q \in Searchers, Search!Clear(q) PROVE Keeps
  <2>1. Moves(q, "finish", search[q].got, search[q].trouble) /\ "finish" \in Pcs \ {"idle"}
    BY <1>8, ClearMoves DEF Pcs
  <2>2. search[q].trouble \subseteq search[q].trouble \cup {"slow"}
    OBVIOUS
  <2> QED
    BY <1>8, <1>m, <2>1, <2>2 DEF Search!Clear, Search!shared, Search!At
<1>9. ASSUME NEW q \in Searchers, Search!Finish(q) PROVE Keeps
  <2>1. /\ ever = {} /\ calls' = calls /\ emptied' = emptied /\ q \in Search!Busy /\ search[q].pc = "finish"
        /\ LET all == search[q].got \cup Search!Query("others") IN kept' = IF all = {} THEN kept ELSE all
    BY <1>9 DEF Search!Finish, Search!shared, Search!At, Search!Busy
  <2>2. Clean(q) /\ CleanFits(q)
    BY <1>k, <2>1 DEF CleanInv
  <2>3. search[q].call = calls /\ search[q].call \in Search!Calls /\ Search!Busy = {q} /\ emptied < calls
    <3>1. search[q].call = calls /\ search[q].call \in Search!Calls
      BY <2>1, <2>2, CleanIsAlone
    <3> QED
      BY <2>1, <2>2, <3>1 DEF AloneInv, Clean
  <2>4. Search!Busy' = {}
    <3>1. search'[q].pc = "idle" /\ \A p \in Searchers \ {q} : search'[p] = search[p]
      BY <1>9, FinishMoves DEF Search!Idle
    <3> QED
      BY <1>0, <2>3, <3>1
  <2>5. Search!Letters(search[q].got) \subseteq {calls}
    <3>1. search[q].got \subseteq Offer(q)
      BY <2>1, <2>2 DEF CleanFits, GotFits
    <3> QED
      BY <2>3, <3>1 DEF Search!Letters, Offer
  <2>6. Search!Letters(Search!Query("others")) \subseteq {calls}
    <3>1. Search!Query("others") \subseteq {<<calls, "others">>}
      BY <2>1, <2>2, <2>3, QueryFits
    <3> QED
      BY <3>1 DEF Search!Letters
  <2>7. Search!Letters(kept') \subseteq Search!Letters(kept) \cup {calls}
    BY <2>1, <2>5, <2>6 DEF Search!Letters
  <2>8. calls \in (emptied + 1)..calls
    BY <1>0, <2>3
  <2> QED
    BY <1>k, <2>1, <2>4, <2>7, <2>8
<1>10. ASSUME NEW b \in group, Search!Run(b) PROVE Keeps
  <2>1. \A q \in Searchers : \E more \in {{}, {"slow"}} : Troubled(q, more)
    BY <1>10, RunMoves
  <2>2. ever' = ever /\ kept' = kept /\ calls' = calls /\ emptied' = emptied
    BY <1>10 DEF Search!Run, Search!shared
  <2>3. Search!Busy' \subseteq Search!Busy
    BY <1>0, <2>1 DEF Troubled
  <2>4. \A p \in Search!Busy' : search'[p].call = search[p].call
          /\ search'[p].trouble \subseteq search[p].trouble \cup {"slow"}
    BY <1>0, <2>1 DEF Troubled
  <2> QED
    BY <1>k, <2>2, <2>3, <2>4 DEF Clean
<1>11. ASSUME NEW b \in group, Search!Leave(b) PROVE Keeps
  <2>1. search' = search /\ ever' = ever /\ kept' = kept /\ calls' = calls /\ emptied' = emptied
    BY <1>11 DEF Search!Leave, Search!shared
  <2> QED
    BY <1>0, <1>k, <2>1 DEF Clean
<1> QED
  BY <1>1, <1>2, <1>3, <1>4, <1>5, <1>6, <1>7, <1>8, <1>9, <1>10, <1>11 DEF Search!Next, Search!Step

-----------------------------------------------------------------------------
(* What a call returns                                                     *)

LEMMA ReturnStep ==
    ASSUME SearchTypes, AloneInv, CleanInv, KeptInv, Search!CandidatesFit, Search!NothingMissing, Search!Next
    PROVE  Search!CandidatesFit' /\ Search!NothingMissing'
<1>0. /\ calls \in 0..MaxCall /\ returned.call \in 0..calls /\ MaxCall \in Nat
      /\ about \in [Search!Calls -> [deferred : SUBSET Search!Deferred, known : BOOLEAN]]
  BY PartsAssumption DEF SearchTypes, Search!CallAssumption, Result
<1>k. ASSUME returned' = returned, ever \subseteq ever',
             returned.call # 0 => about'[returned.call] = about[returned.call]
      PROVE  Search!CandidatesFit' /\ Search!NothingMissing'
  <2>1. Search!CandidatesFit'
    BY <1>k DEF Search!CandidatesFit, Search!Letters
  <2>2. Search!NothingMissing'
    BY <1>k DEF Search!NothingMissing
  <2> QED
    BY <2>1, <2>2
<1>1. ASSUME NEW q \in Searchers, Search!Begin(q) PROVE Search!CandidatesFit' /\ Search!NothingMissing'
  <2>1. calls < MaxCall /\ returned' = returned /\ \E a \in Calling : about' = [about EXCEPT ![calls + 1] = a]
    BY <1>1, BeginSets
  <2>2. returned.call # 0 => returned.call \in Search!Calls /\ returned.call # calls + 1
    BY <1>0 DEF Search!Calls
  <2>3. returned.call # 0 => about'[returned.call] = about[returned.call]
    BY <1>0, <2>1, <2>2
  <2>4. ever \subseteq ever'
    BY <1>1, BeginMoves
  <2> QED
    BY <1>k, <2>1, <2>3, <2>4
<1>2. ASSUME NEW q \in Searchers, Search!Empty(q) PROVE Search!CandidatesFit' /\ Search!NothingMissing'
  BY <1>2, <1>k DEF Search!Empty
<1>3. ASSUME NEW q \in Searchers, Search!Words(q) \/ Search!Defer(q) \/ Search!Waited(q)
               \/ Search!TimeOut(q) \/ Search!Read(q) \/ Search!Clear(q)
      PROVE  Search!CandidatesFit' /\ Search!NothingMissing'
  <2>1. returned' = returned /\ ever \subseteq ever' /\ about' = about
    BY <1>3
       DEF Search!Words, Search!Defer, Search!Waited, Search!TimeOut, Search!Read, Search!Clear, Search!shared
  <2> QED
    BY <1>k, <2>1
<1>4. ASSUME NEW q \in Searchers, Search!Finish(q) PROVE Search!CandidatesFit' /\ Search!NothingMissing'
  <2> DEFINE call == search[q].call
             all  == search[q].got \cup Search!Query("others")
  <2>1. /\ returned' = [call |-> call, got |-> IF all = {} THEN kept ELSE all,
                        trouble |-> search[q].trouble, since |-> emptied]
        /\ about' = about /\ ever' = ever /\ q \in Search!Busy /\ search[q].pc = "finish"
    BY <1>4 DEF Search!Finish, Search!shared, Search!At, Search!Busy
  <2>2. /\ returned'.call = call /\ returned'.got = IF all = {} THEN kept ELSE all
        /\ returned'.trouble = search[q].trouble /\ returned'.since = emptied
    BY <2>1
  <2>3. search[q].trouble \subseteq Search!Troubles
    BY <2>1 DEF Search!Busy, SearchTypes, Queue
  <2>c. ASSUME Clean(q)
        PROVE  /\ call = calls /\ call \in Search!Calls /\ GotFits(q)
               /\ Search!Query("others") = IF about[call].known THEN {<<call, "others">>} ELSE {}
    <3>1. call = calls /\ call \in Search!Calls
      BY <2>1, <2>c, CleanIsAlone
    <3>2. GotFits(q)
      BY <2>1, <2>c DEF CleanInv, CleanFits
    <3>3. Search!Query("others") = IF about[call].known THEN {<<call, "others">>} ELSE {}
      BY <2>1, <2>c, QueryFits
    <3> QED
      BY <3>1, <3>2, <3>3
  <2>4. Search!CandidatesFit'
    <3> SUFFICES ASSUME search[q].trouble \ {"slow"} = {}
                 PROVE  \/ Search!Letters(returned'.got) \subseteq {call}
                        \/ /\ Search!Letters(returned'.got) \subseteq (emptied + 1)..(call - 1) \/ ever # {}
                           /\ ~about[call].known
      BY <2>1, <2>2 DEF Search!CandidatesFit, Search!Letters
    <3>1. Clean(q)
      BY DEF Clean
    <3>2. /\ call = calls /\ call \in Search!Calls /\ GotFits(q)
          /\ Search!Query("others") = IF about[call].known THEN {<<call, "others">>} ELSE {}
      BY <2>c, <3>1
    <3>3. CASE about[call].known
      <4>1. search[q].got \subseteq Offer(q) /\ Search!Query("others") = {<<call, "others">>}
        BY <3>2, <3>3 DEF GotFits
      <4>2. \A c \in all : c[1] = call
        BY <4>1 DEF Offer
      <4>3. Search!Letters(all) \subseteq {call} /\ all # {}
        BY <4>1, <4>2 DEF Search!Letters
      <4> QED
        BY <2>2, <4>3
    <3>4. CASE ~about[call].known
      <4>1. all = {}
        BY <3>2, <3>4 DEF GotFits
      <4>2. returned'.got = kept
        BY <2>2, <4>1
      <4>3. ASSUME ever = {} PROVE Search!Letters(kept) \subseteq (emptied + 1)..(call - 1)
        <5>1. Search!Letters(kept) \subseteq (emptied + 1)..calls /\ call \notin Search!Letters(kept)
          BY <2>1, <4>3 DEF KeptInv
        <5>2. \A n \in (emptied + 1)..calls : n # calls => n \in (emptied + 1)..(calls - 1)
          BY <1>0 DEF SearchTypes
        <5> QED
          BY <3>2, <5>1, <5>2
      <4> QED
        BY <3>4, <4>2, <4>3
    <3> QED
      BY <3>3, <3>4
  <2>5. Search!NothingMissing'
    <3> SUFFICES ASSUME search[q].trouble = {}, about[call].known
                 PROVE  returned'.got = {<<call, p>> : p \in {"words", "others"} \cup about[call].deferred}
      BY <2>1, <2>2 DEF Search!NothingMissing
    <3>1. Clean(q)
      BY DEF Clean
    <3>2. search[q].got = Offer(q) /\ Search!Query("others") = {<<call, "others">>}
      BY <2>c, <3>1 DEF GotFits
    <3>3. all = {<<call, p>> : p \in {"words", "others"} \cup about[call].deferred}
      BY <3>2 DEF Offer
    <3> QED
      BY <2>2, <3>2, <3>3
  <2> QED
    BY <2>4, <2>5
<1>5. ASSUME NEW b \in group, Search!Run(b) \/ Search!Leave(b) PROVE Search!CandidatesFit'
               /\ Search!NothingMissing'
  BY <1>5, <1>k DEF Search!Run, Search!Leave, Search!shared
<1> QED
  BY <1>1, <1>2, <1>3, <1>4, <1>5 DEF Search!Next, Search!Step

-----------------------------------------------------------------------------

LEMMA SearchBegins ==
    ASSUME Search!Init
    PROVE  SearchInv
<1>1. SearchTypes
  BY SearchInitTypes
<1>2. Search!Busy = {} /\ group = {} /\ kept = {} /\ returned.call = 0 /\ \A s \in Search!Slots : cache[s] = {}
  BY DEF Search!Init, Search!Busy, Search!At, Search!Idle
<1>3. Search!Letters(kept) = {}
  BY <1>2 DEF Search!Letters
<1> QED
  BY <1>1, <1>2, <1>3
     DEF SearchInv, AloneInv, CleanInv, ClearInv, KeptInv, Search!CandidatesFit, Search!NothingMissing

LEMMA SearchGoesOn ==
    ASSUME SearchInv, [Search!Next]_(Search!vars)
    PROVE  SearchInv'
<1>1. CASE Search!Next
  BY <1>1, SearchTypesStep, AloneStep, CleanStep, ClearStep, KeptStep, ReturnStep DEF SearchInv
<1>2. CASE UNCHANGED Search!vars
  <2>1. SearchTypes'
    BY <1>2 DEF Search!vars, SearchInv, SearchTypes, Search!At
  <2>2. AloneInv' /\ ClearInv'
    BY <1>2 DEF Search!vars, SearchInv, AloneInv, ClearInv, Search!Busy, Search!At
  <2>3. CleanInv'
    <3> SUFFICES ASSUME NEW p \in Search!Busy', Clean(p)' PROVE CleanFits(p)'
      BY DEF CleanInv
    <3>1. search' = search /\ about' = about /\ cache' = cache /\ group' = group
      BY <1>2 DEF Search!vars
    <3>2. p \in Search!Busy /\ Clean(p)
      BY <3>1 DEF Search!Busy, Search!At, Clean
    <3>3. CleanFits(p)
      BY <3>2 DEF SearchInv, CleanInv
    <3>4. Pending' = Pending
      BY <3>1 DEF Pending
    <3>5. GotFits(p) => GotFits(p)'
      BY <3>1 DEF GotFits, Offer
    <3>6. Search!At(p, "words") => CleanFits(p)'
      BY <3>1, <3>3 DEF Search!At, CleanFits
    <3>7. Search!At(p, "defer") => CleanFits(p)'
      BY <3>1, <3>3 DEF Search!At, CleanFits, CacheFits, Fits
    <3>8. Search!At(p, "wait") => CleanFits(p)'
      BY <3>1, <3>3, <3>4 DEF Search!At, CleanFits, CacheFits, Fits
    <3>9. Search!At(p, "read") => CleanFits(p)'
      BY <3>1, <3>3 DEF Search!At, CleanFits, CacheFits, Fits
    <3>10. search[p].pc \in {"clear", "finish"} => CleanFits(p)'
      BY <3>1, <3>3, <3>5 DEF Search!At, CleanFits
    <3>11. search[p].pc \in Pcs \ {"idle"}
      BY <3>2 DEF SearchInv, SearchTypes, Queue, Search!Busy, Search!At
    <3> QED
      BY <3>6, <3>7, <3>8, <3>9, <3>10, <3>11 DEF Search!At, Pcs
  <2>4. KeptInv'
    BY <1>2 DEF Search!vars, SearchInv, KeptInv, Search!Busy, Search!At, Clean, Search!Letters
  <2>5. Search!CandidatesFit' /\ Search!NothingMissing'
    BY <1>2 DEF Search!vars, SearchInv, Search!CandidatesFit, Search!NothingMissing, Search!Letters
  <2> QED
    BY <2>1, <2>2, <2>3, <2>4, <2>5 DEF SearchInv
<1> QED
  BY <1>1, <1>2

LEMMA SearchIsRight ==
    ASSUME SearchInv
    PROVE  Search!TypeOK /\ Search!CandidatesFit /\ Search!NothingMissing /\ Search!CacheIsEmpty
<1>1. Search!TypeOK
  <2>1. /\ letters \in 0..MaxCall /\ emptied \in 0..MaxCall
    BY PartsAssumption DEF SearchInv, SearchTypes, Search!CallAssumption
  <2>2. \A q \in Searchers :
          /\ search[q].pc \in {"idle", "words", "defer", "wait", "read", "clear", "finish"}
          /\ search[q].call \in 0..MaxCall /\ search[q].got \subseteq Search!Found
          /\ search[q].trouble \subseteq Search!Troubles
    BY DEF SearchInv, SearchTypes, Queue, Pcs
  <2>3. returned.call \in 0..MaxCall /\ returned.got \subseteq Search!Found
    BY DEF SearchInv, SearchTypes, Result
  <2> QED
    BY <2>1, <2>2, <2>3 DEF SearchInv, SearchTypes, Block, Search!TypeOK
<1>2. Search!CacheIsEmpty
  BY DEF SearchInv, ClearInv, Search!CacheIsEmpty, Search!At
<1> QED
  BY <1>1, <1>2 DEF SearchInv

(* A call that is not disturbed returns what is there for its letters, all *)
(* of it unless a query was late, and nothing else: for any queues, kinds  *)
(* of calls and number of them.                                            *)
THEOREM SearchStays == Search!Spec
  => [](Search!TypeOK /\ Search!CandidatesFit /\ Search!NothingMissing /\ Search!CacheIsEmpty)
<1> QED
  BY SearchBegins, SearchGoesOn, SearchIsRight, PTL DEF Search!Spec

(* The same of the search that MCInput runs, whichever part moves.         *)
THEOREM SearchStaysRight == Parts => []SearchRight
<1>1. PartsInit => SearchInv
  BY SearchBegins DEF PartsInit
<1>2. [PartsNext]_<<part, typing, searching, learning>> => [Search!Next]_(Search!vars)
  BY DEF PartsNext, searching, Search!vars
<1>3. SearchInv => SearchRight
  BY SearchIsRight DEF SearchRight
<1>. QED
  BY <1>1, <1>2, <1>3, SearchGoesOn, PTL DEF Parts

=============================================================================
