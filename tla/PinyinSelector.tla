---------------------------- MODULE PinyinSelector ----------------------------
(***************************************************************************)
(* The list of syllables beside the nine keys (PinYinSelector.swift) and   *)
(* the part of T9Strategy that fills it.  Keys are processed on their own  *)
(* queue: the digits are cut, the lists are put in place, a reload of the  *)
(* table is left to the main queue and the syllables are looked up.  A tap *)
(* chooses one on the main queue and has the same done there.  Nothing     *)
(* keeps the two apart, and the table shows what it was last loaded with.  *)
(* An empty buffer stands for a list of punctuation.                       *)
(*                                                                         *)
(* What the digits are cut into is data here (see NineKeys).  A syllable   *)
(* is known by its number.  Left out: undoStep and drop, which nothing     *)
(* calls; a load of the table is one step.                                 *)
(***************************************************************************)
EXTENDS Integers, Sequences, SequencesExt

CONSTANTS
    Buffers, \* contents of the buffer, natural numbers
    Lists,   \* for each: what it is cut into from the front and the end, and the first syllables
    Width,   \* for each syllable, how many digits it takes
    Length,  \* for each content, how many digits it has
    Think,   \* how many rows of punctuation there are
    MaxKey,  \* bound: changes of the buffer
    MaxTap   \* bound: taps on the table

Empty     == 0
Syllables == DOMAIN Width
Cuts      == Seq(Seq(Syllables))

ListAssumption ==
    /\ Buffers \subseteq Nat \ {Empty} /\ Think \in Nat \ {0} /\ MaxKey \in Nat \ {0} /\ MaxTap \in Nat
    /\ Width \in [Syllables -> Nat \ {0}] /\ Length \in [Buffers -> Nat \ {0}]
    /\ \A b \in Buffers : /\ Lists[b].front \in Cuts /\ Lists[b].back \in Cuts
                          /\ Lists[b].front # <<>> /\ Lists[b].back # <<>>
                          /\ Lists[b].first \in Seq(Syllables) /\ Lists[b].first # <<>>

VARIABLES
    buffer,   \* inputBuffer
    cached,   \* bufferCache
    pinyin,   \* the delegate's pinyin
    lists,    \* pinyinCache, pinyinCache2, selectedPinyinCache, firstList
    index,    \* currentIndex
    shown,    \* what the table was last loaded with: punctuation, or syllables
    reloads,  \* reloads waiting on the main queue
    act,      \* what each queue is at
    keys,     \* changes of the buffer so far
    taps,     \* taps so far
    last,     \* the last tap: what was seen, what was taken
    causes,   \* what may have gone wrong so far
    untouched \* nothing was chosen since the buffer got its digits

vars == <<buffer, cached, pinyin, lists, index, shown, reloads, act, keys, taps, last, causes, untouched>>

Queues == {"keys", "main"}
Idle   == [pc |-> "idle", for |-> Empty, row |-> 0]
Causes == {"abreast",  \* a key was processed, or a reload due, at the time of a tap
           "emptied",  \* a syllable was tapped on when there was no buffer any more
           "missed",   \* the table was loaded late, for a buffer that had been emptied
           "retyped",  \* the digits of the last buffer were typed once more
           "neither"}  \* a syllable was chosen that begins neither list
Marks  == [kind : {"none", "think"}, at : 0..Think] \cup [kind : {"syllable"}, at : Syllables]

At(q, pc) == act[q].pc = pc

TypeOK ==
    /\ buffer \in Buffers \cup {Empty} /\ cached \in Buffers \cup {Empty}
    /\ pinyin \in Cuts /\ index \in Nat /\ reloads \in Nat
    /\ lists.cache \in Cuts /\ lists.cache2 \in Cuts /\ lists.selected \in Cuts
    /\ lists.first \in Seq(Syllables)
    /\ index <= Len(lists.cache) \/ "abreast" \in causes \/ At("keys", "first") \/ At("keys", "index")
    /\ shown.kind \in {"think", "syllable"} /\ shown.rows \in Seq(Syllables)
    /\ \A q \in Queues :
        /\ act[q].pc \in {"idle", "compare", "cut", "lists", "first", "index", "cache", "query", "swap", "pick", "assign", "show", "trapped"}
        /\ act[q].for \in Buffers \cup {Empty}
    /\ keys \in 0..MaxKey /\ taps \in 0..MaxTap
    /\ last.seen \in Marks /\ last.got \in Marks
    /\ causes \subseteq Causes /\ untouched \in BOOLEAN

NoLists == [cache |-> <<>>, cache2 |-> <<>>, selected |-> <<>>, first |-> <<>>]
NoMark  == [kind |-> "none", at |-> 0]

Init ==
    /\ buffer = Empty /\ cached = Empty /\ pinyin = <<>> /\ lists = NoLists /\ index = 0
    /\ shown = [kind |-> "think", rows |-> <<>>] /\ reloads = 0
    /\ act = [q \in Queues |-> Idle] /\ keys = 0 /\ taps = 0
    /\ last = [seen |-> NoMark, got |-> NoMark] /\ causes = {} /\ untouched = TRUE

-----------------------------------------------------------------------------
(* Helpers                                                                 *)

Then(q, pc) == act' = [act EXCEPT ![q].pc = pc]
Trapped     == \E q \in Queues : At(q, "trapped")
Quiet       == reloads = 0 /\ \A q \in Queues : At(q, "idle")
Position    == IF index = Len(lists.cache) THEN index - 1 ELSE index

-----------------------------------------------------------------------------
(* A change of the buffer                                                  *)

(* A key, or a candidate, gives the buffer other digits or none.           *)
Key(b) ==
    /\ ~Trapped /\ At("keys", "idle") /\ keys < MaxKey /\ b # buffer
    /\ keys' = keys + 1 /\ buffer' = b /\ untouched' = TRUE
    /\ act' = IF b = Empty THEN act ELSE [act EXCEPT !["keys"] = [Idle EXCEPT !.pc = "compare", !.for = b]]
    /\ causes' = causes \cup (IF At("main", "idle") THEN {} ELSE {"abreast"})
                        \cup (IF b # Empty /\ b = cached THEN {"retyped"} ELSE {})
    /\ UNCHANGED <<cached, pinyin, lists, index, shown, reloads, taps, last>>

(* Mutant: lists are kept for any buffer.                                  *)
CompareAny(q) ==
    /\ ~Trapped /\ At(q, "compare")
    /\ Then(q, IF cached = Empty THEN "cut" ELSE "query")
    /\ UNCHANGED <<buffer, cached, pinyin, lists, index, shown, reloads, keys, taps, last, causes, untouched>>

(* getResult: the same digits as last time are not cut again.              *)
Compare(q) ==
    /\ ~Trapped /\ At(q, "compare")
    /\ Then(q, IF cached # act[q].for THEN "cut" ELSE "query")
    /\ UNCHANGED <<buffer, cached, pinyin, lists, index, shown, reloads, keys, taps, last, causes, untouched>>

Cut(q) ==
    /\ ~Trapped /\ At(q, "cut")
    /\ pinyin' = Lists[act[q].for].front
    /\ Then(q, "lists")
    /\ UNCHANGED <<buffer, cached, lists, index, shown, reloads, keys, taps, last, causes, untouched>>

(* update: the lists, then the first syllables,                            *)
UpdateLists(q) ==
    /\ ~Trapped /\ At(q, "lists")
    /\ lists' = [cache |-> pinyin, cache2 |-> Lists[act[q].for].back, selected |-> pinyin, first |-> lists.first]
    /\ Then(q, "first")
    /\ UNCHANGED <<buffer, cached, pinyin, index, shown, reloads, keys, taps, last, causes, untouched>>

UpdateFirst(q) ==
    /\ ~Trapped /\ At(q, "first")
    /\ lists' = [lists EXCEPT !.first = Lists[act[q].for].first]
    /\ Then(q, "index")
    /\ UNCHANGED <<buffer, cached, pinyin, index, shown, reloads, keys, taps, last, causes, untouched>>

(* Mutant: goes on with the row that was at.                               *)
UpdateIndexNot(q) ==
    /\ ~Trapped /\ At(q, "index")
    /\ reloads' = reloads + 1
    /\ Then(q, "cache")
    /\ UNCHANGED <<buffer, cached, pinyin, lists, index, shown, keys, taps, last, causes, untouched>>

(* Mutant: no reload.                                                      *)
UpdateIndexOnly(q) ==
    /\ ~Trapped /\ At(q, "index")
    /\ index' = 0
    /\ Then(q, "cache")
    /\ UNCHANGED <<buffer, cached, pinyin, lists, shown, reloads, keys, taps, last, causes, untouched>>

(* and, at its end, the place and a reload.                                *)
UpdateIndex(q) ==
    /\ ~Trapped /\ At(q, "index")
    /\ index' = 0 /\ reloads' = reloads + 1
    /\ Then(q, "cache")
    /\ UNCHANGED <<buffer, cached, pinyin, lists, shown, keys, taps, last, causes, untouched>>

Cache(q) ==
    /\ ~Trapped /\ At(q, "cache")
    /\ cached' = act[q].for
    /\ Then(q, "query")
    /\ UNCHANGED <<buffer, pinyin, lists, index, shown, reloads, keys, taps, last, causes, untouched>>

(* The words are looked up; a tap then loads the table.                    *)
Query(q) ==
    /\ ~Trapped /\ At(q, "query")
    /\ act' = [act EXCEPT ![q] = IF q = "keys" THEN Idle ELSE [@ EXCEPT !.pc = "show"]]
    /\ UNCHANGED <<buffer, cached, pinyin, lists, index, shown, reloads, keys, taps, last, causes, untouched>>

-----------------------------------------------------------------------------
(* The table                                                               *)

(* Mutant: the list before the place.                                      *)
RowsBefore ==
    IF buffer = Empty \/ lists.cache = <<>> THEN [kind |-> "think", rows |-> <<>>]
    ELSE [kind |-> "syllable", rows |-> IF index <= 1 THEN lists.first ELSE lists.cache[index]]

(* numberOfRowsInSection, cellForRowAt                                     *)
Rows ==
    IF buffer = Empty \/ lists.cache = <<>> THEN [kind |-> "think", rows |-> <<>>]
    ELSE [kind |-> "syllable", rows |-> IF index = 0 THEN lists.first ELSE lists.cache[Position + 1]]

Reload ==
    /\ ~Trapped /\ At("main", "idle") /\ reloads > 0
    /\ reloads' = reloads - 1
    /\ IF index <= Len(lists.cache) THEN shown' = Rows /\ UNCHANGED act
       ELSE Then("main", "trapped") /\ UNCHANGED shown
    /\ causes' = IF buffer = Empty THEN causes \cup {"missed"} ELSE causes
    /\ UNCHANGED <<buffer, cached, pinyin, lists, index, keys, taps, last, untouched>>

Seen(r) == IF shown.kind = "think" THEN [kind |-> "think", at |-> r] ELSE [kind |-> "syllable", at |-> shown.rows[r]]

(* didSelectRowAt: without a buffer the row is one of punctuation.         *)
Tap(r) ==
    /\ ~Trapped /\ At("main", "idle") /\ taps < MaxTap
    /\ r \in IF shown.kind = "think" THEN 1..Think ELSE DOMAIN shown.rows
    /\ taps' = taps + 1 /\ untouched' = (untouched /\ buffer = Empty)
    /\ causes' = causes \cup (IF Quiet THEN {} ELSE {"abreast"})
                        \cup (IF buffer = Empty /\ shown.kind = "syllable" THEN {"emptied"} ELSE {})
    /\ IF buffer # Empty
       THEN /\ act' = [act EXCEPT !["main"] = [pc |-> "swap", for |-> Empty, row |-> r]]
            /\ last' = [seen |-> Seen(r), got |-> NoMark]
       ELSE IF r <= Think
       THEN last' = [seen |-> Seen(r), got |-> [kind |-> "think", at |-> r]] /\ UNCHANGED act
       ELSE Then("main", "trapped") /\ last' = [seen |-> Seen(r), got |-> NoMark]
    /\ UNCHANGED <<buffer, cached, pinyin, lists, index, shown, reloads, keys>>

(* Mutant: the list from the front is kept.                                *)
SwapNot ==
    /\ ~Trapped /\ At("main", "swap")
    /\ Then("main", "pick")
    /\ UNCHANGED <<buffer, cached, pinyin, lists, index, shown, reloads, keys, taps, last, causes, untouched>>

(* A first syllable that does not begin the one list is taken to begin the *)
(* other.                                                                  *)
Swap ==
    LET r == act["main"].row
        py == lists.first[r]
        away == index = 0 /\ ~Contains(lists.cache[1], py)
    IN  /\ ~Trapped /\ At("main", "swap")
        /\ IF index = 0 /\ (r \notin DOMAIN lists.first \/ lists.cache = <<>>)
           THEN Then("main", "trapped") /\ UNCHANGED <<lists, causes>>
           ELSE /\ Then("main", "pick")
                /\ lists' = IF away THEN [lists EXCEPT !.cache = lists.cache2, !.cache2 = lists.cache, !.selected = lists.cache2]
                            ELSE lists
                /\ causes' = IF away /\ ~Contains(lists.cache2[1], py) THEN causes \cup {"neither"} ELSE causes
        /\ UNCHANGED <<buffer, cached, pinyin, index, shown, reloads, keys, taps, last, untouched>>

(* Mutant: goes on past the last list.                                     *)
PickBeyond ==
    LET n == Position
        list == IF n = 0 THEN lists.first ELSE lists.cache[n + 1]
        py == list[act["main"].row]
    IN  /\ ~Trapped /\ At("main", "pick")
        /\ IF (n + 1) \notin DOMAIN lists.cache \/ (n + 1) \notin DOMAIN lists.selected \/ act["main"].row \notin DOMAIN list
           THEN Then("main", "trapped") /\ UNCHANGED <<lists, index, last>>
           ELSE /\ lists' = [lists EXCEPT !.selected[n + 1] = <<py>>]
                /\ index' = index + 1
                /\ last' = [last EXCEPT !.got = [kind |-> "syllable", at |-> py]]
                /\ Then("main", "assign")
        /\ UNCHANGED <<buffer, cached, pinyin, shown, reloads, keys, taps, causes, untouched>>

(* The chosen syllable takes the place of its list; on to the next.        *)
Pick ==
    LET n == Position
        list == IF n = 0 THEN lists.first ELSE lists.cache[n + 1]
        py == list[act["main"].row]
    IN  /\ ~Trapped /\ At("main", "pick")
        /\ IF (n + 1) \notin DOMAIN lists.cache \/ (n + 1) \notin DOMAIN lists.selected \/ act["main"].row \notin DOMAIN list
           THEN Then("main", "trapped") /\ UNCHANGED <<lists, index, last>>
           ELSE /\ lists' = [lists EXCEPT !.selected[n + 1] = <<py>>]
                /\ index' = IF index + 1 <= Len(lists.cache) THEN index + 1 ELSE index
                /\ last' = [last EXCEPT !.got = [kind |-> "syllable", at |-> py]]
                /\ Then("main", "assign")
        /\ UNCHANGED <<buffer, cached, pinyin, shown, reloads, keys, taps, causes, untouched>>

(* The delegate is given the chosen ones; bufferChanged.                   *)
Assign ==
    /\ ~Trapped /\ At("main", "assign")
    /\ pinyin' = lists.selected
    /\ act' = [act EXCEPT !["main"].pc = IF buffer = Empty THEN "show" ELSE "compare", !["main"].for = buffer]
    /\ UNCHANGED <<buffer, cached, lists, index, shown, reloads, keys, taps, last, causes, untouched>>

Show ==
    /\ ~Trapped /\ At("main", "show")
    /\ shown' = IF index < Len(lists.cache) /\ lists.cache[index + 1] # <<>> THEN Rows ELSE shown
    /\ act' = [act EXCEPT !["main"] = Idle]
    /\ UNCHANGED <<buffer, cached, pinyin, lists, index, reloads, keys, taps, last, causes, untouched>>

-----------------------------------------------------------------------------

Step(q) == \/ Compare(q) \/ Cut(q) \/ UpdateLists(q) \/ UpdateFirst(q) \/ UpdateIndex(q) \/ Cache(q) \/ Query(q)

Next ==
    \/ \E b \in Buffers \cup {Empty} : Key(b)
    \/ \E q \in Queues : Step(q)
    \/ Reload \/ Swap \/ Pick \/ Assign \/ Show
    \/ \E r \in 1..10 : Tap(r)

Spec == Init /\ [][Next]_vars

-----------------------------------------------------------------------------
(* Properties                                                              *)

(* What a tap takes is what its row showed, unless a key was about or the  *)
(* buffer had been emptied: the table is not loaded then.                  *)
TakesWhatIsShown ==
    last.got # NoMark /\ last.got # last.seen => causes \cap {"abreast", "emptied", "missed"} # {}

(* A tap on a row that is there ends the program in these cases only.      *)
TrapsNeedCause == Trapped => causes \cap {"abreast", "emptied", "missed"} # {}

Digits(cut) == FoldLeft(LAMBDA n, names : n + Width[names[1]], 0, cut)

(* What is looked up is for the digits in the buffer, however much of it   *)
(* was chosen and whichever list it was chosen from.                       *)
PinyinFits ==
    Quiet /\ buffer # Empty /\ causes \cap {"abreast", "neither"} = {} => Digits(pinyin) = Length[buffer]

(* Nothing is chosen for digits that have just been typed, unless they are *)
(* the last ones again: the choices made then still hold.                  *)
StartsAfresh ==
    Quiet /\ buffer # Empty /\ untouched /\ causes \cap {"abreast", "retyped"} = {} =>
        index = 0 /\ pinyin = Lists[buffer].front

(* When all is done the table shows what a tap would choose from.          *)
ShownIsCurrent ==
    Quiet /\ buffer # Empty /\ causes \cap {"abreast", "missed"} = {} =>
        shown.rows = IF Position = 0 THEN lists.first ELSE lists.cache[Position + 1]

=============================================================================
