------------------------------- MODULE KeyTouch -------------------------------
(***************************************************************************)
(* From fingers to key presses.  TouchLayer.swift covers the keyboard and  *)
(* turns the touches of several fingers into touch-down, touch-up and      *)
(* cancel events of keys, one current touch at a time;                     *)
(* KeyboardViewController.swift keeps the key that waits to be confirmed   *)
(* (pendingKey) and confirms it when it is released, or when another key   *)
(* goes down.  Gestures take a press away.  Everything runs on the main    *)
(* queue; what is hard is the order in which fingers land, slide and lift. *)
(*                                                                         *)
(* A touch is a number, given in order and never reused, as UITouch        *)
(* objects are while TouchLayer holds them.  A key is its tag; the earth   *)
(* key, whose confirmation types nothing, is left out.                     *)
(***************************************************************************)
EXTENDS Integers

CONSTANTS
    Letters,   \* keys confirmed when released
    Modifiers, \* kShiftButtonID and kNumberButtonID, confirmed when pressed
    Delete,    \* kDeleteButtonID
    Nothing,   \* no key
    MaxTouch   \* bound: touches

ASSUME KeysAssumption ==
    /\ Letters \cap Modifiers = {}
    /\ Delete \in Letters
    /\ Nothing \notin Letters \cup Modifiers
ASSUME TouchAssumption == MaxTouch \in Nat

Keys    == Letters \cup Modifiers
Touches == 1..MaxTouch

VARIABLES
    press,        \* pendingKey, the touch it belongs to, confirmations so far
    currentTouch, \* TouchLayer.currentTouch, 0 for nil
    touchCache,   \* TouchLayer.touchCache, 0 for nil
    keyCache,     \* TouchLayer.keyCache
    lower,        \* keyboardMode = .lower
    begun,        \* touches begun so far
    down,         \* touches whose finger is on the glass
    taken,        \* touches a gesture recognizer has taken from the view
    under,        \* the key under each touch, at its last position
    landed,       \* history: the key each touch went down on
    slid,         \* history: touches that left the key they went down on
    dropped,      \* history: touches whose press a gesture took away
    swiped        \* history: touches whose press a swipe left pending

layer   == <<currentTouch, touchCache, keyCache>>
glass   == <<begun, down, taken, under, landed, slid>>
gone    == <<dropped, swiped>>
vars    == <<press, layer, lower, glass, gone>>

(* fired counts confirmations for each touch; by is 0 for a press no touch *)
(* made (the repeat timer, the punctuation drag).                          *)
Press == [key : Keys \cup {Nothing}, by : 0..MaxTouch, fired : [Touches -> Nat]]

TypeOK ==
    /\ press \in Press
    /\ currentTouch \in 0..MaxTouch
    /\ touchCache \in 0..MaxTouch
    /\ keyCache \in Keys \cup {Nothing}
    /\ lower \in BOOLEAN
    /\ begun \in 0..MaxTouch
    /\ down \subseteq 1..begun
    /\ taken \subseteq Touches
    /\ under \in [Touches -> Keys \cup {Nothing}]
    /\ landed \in [Touches -> Keys \cup {Nothing}]
    /\ slid \subseteq Touches
    /\ dropped \subseteq Touches /\ swiped \subseteq Touches
    /\ press.key = Nothing => press.by = 0

Init ==
    /\ press = [key |-> Nothing, by |-> 0, fired |-> [t \in Touches |-> 0]]
    /\ currentTouch = 0 /\ touchCache = 0 /\ keyCache = Nothing
    /\ lower = TRUE
    /\ begun = 0 /\ down = {} /\ taken = {}
    /\ under = [t \in Touches |-> Nothing] /\ landed = [t \in Touches |-> Nothing]
    /\ slid = {} /\ dropped = {} /\ swiped = {}

-----------------------------------------------------------------------------
(* KeyboardViewController: what each event does to the pending press.      *)

Confirm(p, t) == IF t = 0 THEN p ELSE [p EXCEPT !.fired[t] = @ + 1]

Forget(p) == [p EXCEPT !.key = Nothing, !.by = 0]

(* keyboardKeyConfirm of the pending key                                   *)
ConfirmPending(p) == Confirm(p, p.by)

Hold(p, k, t) == [p EXCEPT !.key = k, !.by = t]

(* Mutant: the released key stays pending.                                 *)
KeyUpKeeps(p, k) ==
    IF k \in Modifiers THEN Forget(p)
    ELSE IF p.key = k THEN ConfirmPending(p)
    ELSE p

(* A key that is pending already is left alone: its press goes on.         *)
KeyDown(p, k, t) ==
    IF k = p.key /\ p.by # 0 /\ t # 0 THEN Hold(p, k, IF k \in Letters THEN t ELSE p.by)
    ELSE IF k \in Modifiers THEN Hold(Confirm(p, t), k, t)
    ELSE IF p.key \in Letters THEN Hold(ConfirmPending(p), k, t)
    ELSE Hold(p, k, t)

KeyUp(p, k) ==
    IF k \in Modifiers THEN Forget(p)
    ELSE IF p.key = k THEN Forget(ConfirmPending(p))
    ELSE p

(* keyboardKeyOther: the pending key is released if another is cancelled.  *)
KeyOther(p, k) ==
    IF ~lower \/ p.key = Nothing THEN p
    ELSE IF k = p.key THEN Forget(p)
    ELSE Forget(KeyUp(p, p.key))

-----------------------------------------------------------------------------
(* TouchLayer                                                              *)

(* Mutant: the cached key is used without asking whose it is.              *)
CachedKey(t, cached, key) == key

(* getKeyboardKey: the key found for the latest touch asked about is kept, *)
(* any other touch is looked up where it is now.                           *)
KeyOf(t, cached, key) == IF cached = t THEN key ELSE under[t]

(* touchUpInside of the current touch, if there is one                     *)
Release(p, cached, key) ==
    LET k == KeyOf(currentTouch, cached, key)
    IN  IF currentTouch = 0 \/ k = Nothing THEN p ELSE KeyUp(p, k)

(* shouldReceive: the current touch is released, then the new one goes     *)
(* down.  UIKit asks several recognizers in an order of its own, and one   *)
(* asked before (early) has already cached the new touch.                  *)
TouchBegins(k, early) ==
    LET t == begun + 1
        p == IF early THEN Release(press, t, k) ELSE Release(press, touchCache, keyCache)
    IN
    /\ begun < MaxTouch
    /\ begun' = t
    /\ down' = down \cup {t}
    /\ under' = [under EXCEPT ![t] = k]
    /\ landed' = [landed EXCEPT ![t] = k]
    /\ currentTouch' = t /\ touchCache' = t /\ keyCache' = k
    /\ press' = IF k = Nothing THEN p ELSE KeyDown(p, k, t)
    /\ UNCHANGED <<lower, taken, slid, gone>>

(* Mutant: a lifted finger releases only its own key.                      *)
TouchEndsOwn(t) ==
    /\ t \in down
    /\ down' = down \ {t}
    /\ press' = IF currentTouch = t THEN Release(press, touchCache, keyCache) ELSE press
    /\ currentTouch' = 0
    /\ UNCHANGED <<touchCache, keyCache, lower, begun, taken, under, landed, slid, gone>>

(* touchesEnded releases the current touch, whichever finger was lifted.   *)
TouchEnds(t) ==
    /\ t \in down
    /\ down' = down \ {t}
    /\ press' = Release(press, touchCache, keyCache)
    /\ currentTouch' = 0
    /\ IF currentTouch = 0 THEN UNCHANGED <<touchCache, keyCache>>
       ELSE /\ touchCache' = currentTouch
            /\ keyCache' = KeyOf(currentTouch, touchCache, keyCache)
    /\ UNCHANGED <<lower, begun, taken, under, landed, slid, gone>>

(* The view hears nothing of the end of a touch a recognizer has taken.    *)
TakenTouchEnds(t) ==
    /\ t \in down \cap taken
    /\ down' = down \ {t}
    /\ UNCHANGED <<press, layer, lower, begun, taken, under, landed, slid, gone>>

Slide(t, k) ==
    /\ t \in down /\ k # under[t]
    /\ under' = [under EXCEPT ![t] = k]
    /\ slid' = slid \cup {t}
    /\ UNCHANGED <<press, layer, lower, begun, down, taken, landed, gone>>

(* touchCancel of the current touch                                        *)
TouchCancel(p) ==
    LET k == KeyOf(currentTouch, touchCache, keyCache) IN
    /\ press' = IF currentTouch = 0 \/ k = Nothing THEN p ELSE KeyOther(p, k)
    /\ currentTouch' = 0
    /\ IF currentTouch = 0 THEN UNCHANGED <<touchCache, keyCache>>
       ELSE touchCache' = currentTouch /\ keyCache' = k

-----------------------------------------------------------------------------
(* Gestures                                                                *)

(* The touch the recognizer tracked is its own from now on, or stays.      *)
TakenBy(t) == taken' \in {taken, taken \cup {t}}

(* The press the gesture takes away, if it has not been confirmed.         *)
Drop ==
    /\ dropped' = IF press.by = 0 THEN dropped ELSE dropped \cup {press.by}
    /\ UNCHANGED swiped

(* Long presses on return, on a letter, on the layout key; the double tap  *)
(* on shift.                                                               *)
LongPress(t) ==
    /\ t \in down
    /\ press' = Forget(press)
    /\ Drop
    /\ TakenBy(t)
    /\ UNCHANGED <<layer, lower, begun, down, under, landed, slid>>

(* moveCursorMode: the finger moves the cursor instead of typing.          *)
MoveCursor(t) ==
    /\ t \in down
    /\ TouchCancel(Forget(press))
    /\ Drop
    /\ TakenBy(t)
    /\ UNCHANGED <<lower, begun, down, under, landed, slid>>

(* The swipe to the left on delete or return, when its finger is lifted.   *)
(* The key may stay pending: keyboardKeyOther does nothing on a board      *)
(* other than the lower one, nor where the current touch is on no key.     *)
SwipeLeft(t) ==
    /\ t \in down /\ landed[t] = Delete
    /\ TouchCancel(press)
    /\ swiped' = IF press.by = 0 THEN swiped ELSE swiped \cup {press.by}
    /\ TakenBy(t)
    /\ UNCHANGED <<lower, begun, down, under, landed, slid, dropped>>

(* The timer of a long press on delete taps a delete key of its own.       *)
VBack ==
    /\ \E t \in down : landed[t] = Delete
    /\ press' = KeyUp(KeyDown(press, Delete, 0), Delete)
    /\ UNCHANGED <<layer, lower, glass, gone>>

(* dragMode: a finger dragged over the punctuation board is lifted on k.   *)
PuncDrag(k) ==
    /\ ~lower
    /\ press' = KeyUp(KeyDown(Forget(press), k, 0), k)
    /\ Drop
    /\ lower' \in BOOLEAN
    /\ UNCHANGED <<layer, glass>>

(* Another board is shown: the engine changes it after a confirmed key.    *)
ChangeBoard ==
    /\ lower' = ~lower
    /\ UNCHANGED <<press, layer, glass, gone>>

Next ==
    \/ \E k \in Keys \cup {Nothing}, early \in BOOLEAN : TouchBegins(k, early)
    \/ \E t \in down :
          \/ TouchEnds(t) \/ TakenTouchEnds(t)
          \/ LongPress(t) \/ MoveCursor(t) \/ SwipeLeft(t)
    \/ \E t \in down, k \in Keys \cup {Nothing} : Slide(t, k)
    \/ VBack \/ ChangeBoard
    \/ \E k \in Letters : PuncDrag(k)

Spec == Init /\ [][Next]_vars

-----------------------------------------------------------------------------
(* Properties                                                              *)

(* However fingers overlap and whatever gesture interferes, one press of a *)
(* key is confirmed at most once.                                          *)
PressFiresAtMostOnce == \A t \in Touches : press.fired[t] <= 1

(* A letter whose finger stayed on it until it was lifted has been typed,  *)
(* in whatever order fingers landed and lifted, unless a gesture took it.  *)
NoLetterIsLost ==
    \A t \in 1..begun \ (down \cup taken \cup slid \cup dropped \cup swiped) :
        landed[t] \in Letters => press.fired[t] = 1

(* The key the controller holds pending is the key of the touch the        *)
(* TouchLayer holds current: no gesture, timer or second finger sets the   *)
(* two apart, only a finger that left its key or the swipe to the left.    *)
PendingIsOfCurrentTouch == press.by \in {0, currentTouch} \cup slid \cup swiped

=============================================================================
