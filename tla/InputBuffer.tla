---------------------------- MODULE InputBuffer ----------------------------
(***************************************************************************)
(* The buffer of typed letters (ZhInput.swift) and its two writers: the    *)
(* queue that handles the keys one by one, and the main queue, on which    *)
(* candidates are shown, chosen and inserted (KeyboardViewController).     *)
(* Each access of inputBuffer is safe by itself; changing it takes a read  *)
(* and a write (+=, remove(at:), dropFirst), and only one check, before    *)
(* candidates are handed over, notices that it changed in between.         *)
(*                                                                         *)
(* Every key is told apart by its number, so that the text shows which     *)
(* keys it was made from.  The candidates for a buffer are words, each of  *)
(* one character, for a beginning of it; what they are does not matter.    *)
(* Letters are those of full pinyin with the settings as delivered; left   *)
(* out are English, nine keys, code tables, shift, the deletion that       *)
(* repeats, double spaces and the panel that edits a candidate.            *)
(***************************************************************************)
EXTENDS Integers, Sequences, SequencesExt

CONSTANTS
    MaxKey, \* bound: keys pressed
    MaxTap, \* bound: gestures on the candidates and the buffer
    Kinds   \* the kinds of keys pressed

KeyKinds == {"letter", "delete", "space", "return", "punctuation"}

KeyAssumption == MaxKey \in Nat \ {0} /\ MaxTap \in Nat /\ Kinds \subseteq KeyKinds

VARIABLES
    pressed,    \* the kind of each key pressed so far
    waiting,    \* keyProcessQueue: the keys not begun
    buffer,     \* inputBuffer
    candidates, \* the buffer that the candidates on the screen are for
    blocks,     \* the main queue
    hint,       \* a delayed displaySmartHint is outstanding
    act,        \* what each of the two queues is at
    stack,      \* tracebackStack
    text,       \* the words in the text field, each the keys it was made from
    gone,       \* keys the user took back
    taps,       \* the gestures so far
    causes      \* what may have gone wrong so far

vars == <<pressed, waiting, buffer, candidates, blocks, hint, act, stack, text, gone,
          taps, causes>>

Keys   == 1..MaxKey
Actors == {"keys", "main"}

Idle == [pc |-> "idle", read |-> <<>>, more |-> <<>>, key |-> 0, length |-> 0, own |-> FALSE,
         touched |-> {}]

Causes == {"hasty",     \* a key or a gesture came before all was done for those before
           "own",       \* punctuation cleared the buffer in the midst of the choice it made
           "raced",     \* the buffer had changed since it was read
           "overtaken", \* or since it was compared
           "stale",     \* a candidate was chosen for letters no more in the buffer
           "late",      \* letters were typed before punctuation had its candidate
           "cut",       \* punctuation takes one candidate and clears the rest
           "cleared",   \* a choice found no candidates
           "moved"}     \* letters were put back after something later had been entered

TypeOK ==
    /\ pressed \in Seq(Kinds) /\ Len(pressed) <= MaxKey
    /\ waiting \in Seq(Keys)
    /\ buffer \in Seq(Keys) /\ candidates \in Seq(Keys)
    /\ \A i \in DOMAIN blocks :
        blocks[i].op \in {"candidates", "insert", "select", "take", "delete"} /\ blocks[i].of \in Seq(Keys)
    /\ hint \in BOOLEAN
    /\ \A w \in Actors :
        /\ act[w].pc \in {"idle", "get", "set", "dequeue", "check", "hand", "remove", "store", "clean",
                           "sync", "old", "drop", "empty", "wipe", "trap"}
        /\ act[w].read \in Seq(Keys) /\ act[w].more \in Seq(Keys)
        /\ act[w].key \in Keys \cup {0} /\ act[w].length \in 0..MaxKey /\ act[w].own \in BOOLEAN
        /\ act[w].touched \subseteq {"own", "raced"}
    /\ \A i \in DOMAIN stack : stack[i].word \in Seq(Keys) /\ stack[i].shown \in BOOLEAN
    /\ text \in Seq(Seq(Keys)) /\ gone \subseteq Keys
    /\ taps \in 0..MaxTap /\ causes \subseteq Causes

Init ==
    /\ pressed = <<>> /\ waiting = <<>> /\ buffer = <<>> /\ candidates = <<>>
    /\ blocks = <<>> /\ hint = FALSE /\ act = [w \in Actors |-> Idle]
    /\ stack = <<>> /\ text = <<>> /\ gone = {} /\ taps = 0 /\ causes = {}

-----------------------------------------------------------------------------
(* Helpers                                                                 *)

At(w, pc) == act[w].pc = pc /\ \A v \in Actors : act[v].pc # "trap"
Free      == At("main", "idle")

Go(w, new)        == act' = [act EXCEPT ![w] = new]
Write(w, s, new)  ==
    /\ buffer' = s
    /\ act' = [v \in Actors |-> IF v = w THEN new
                               ELSE IF act[v].pc = "idle" \/ s = buffer THEN act[v]
                               ELSE [act[v] EXCEPT !.touched = @ \cup
                                        {IF act["main"].own /\ act["keys"].pc = "clean" THEN "own" ELSE "raced"}]]
Then(w, pc)       == Go(w, [act[w] EXCEPT !.pc = pc])
Post(new)         == blocks' = blocks \o new
Shows(of)         == <<[op |-> "candidates", of |-> of]>>
Inserts(of)       == <<[op |-> "insert", of |-> of]>>
Select            == <<[op |-> "select", of |-> <<>>]>>
Raced(w)          == act[w].touched
Busy              == blocks # <<>> \/ hint \/ \E w \in Actors : act[w].pc # "idle"
Hasty             == {c \in {"hasty"} : Busy}
Drop(s, n)        == SubSeq(s, n + 1, Len(s))
Letters(s)        == {s[i] : i \in DOMAIN s}

screen == <<candidates, stack, text>>
input  == <<pressed, waiting, taps>>

-----------------------------------------------------------------------------
(* bufferChanged, on either queue                                          *)

(* displaySmartHint follows after a deletion and a choice; it clears the   *)
(* candidates of an empty buffer.                                          *)
Hints(w) == IF w = "main" THEN act[w].length > 0 ELSE pressed[act[w].key] = "delete"
Rest(w)  == IF Hints(w) /\ buffer = <<>> THEN Shows(<<>>) ELSE <<>>

(* Letters that are put back come after a later key.                       *)
Moved(w) ==
    LET back == act[w].more
        later(word) == \E i \in DOMAIN word : word[i] > back[1]
    IN
    /\ w = "main" /\ ~Hints(w)
    /\ \/ act[w].read # <<>>
       \/ \E i \in DOMAIN text : later(text[i])
       \/ \E i \in DOMAIN blocks : blocks[i].op = "insert" /\ later(blocks[i].of)

Get(w) ==
    /\ At(w, "get")
    /\ Go(w, [act[w] EXCEPT !.pc = "set", !.read = buffer, !.touched = {}])
    /\ UNCHANGED <<buffer, screen, blocks, hint, gone, input, causes>>

(* Mutant: the key is written twice.                                       *)
SetTwice(w) ==
    LET new == act[w].read \o act[w].more \o act[w].more IN
    /\ At(w, "set")
    /\ Write(w, new, [act[w] EXCEPT !.pc = "dequeue", !.touched = {}])
    /\ causes' = causes \cup Raced(w) \cup {c \in {"moved"} : Moved(w)}
    /\ UNCHANGED <<screen, blocks, hint, gone, input>>

Set(w) ==
    LET new == act[w].read \o act[w].more IN
    /\ At(w, "set")
    /\ Write(w, new, [act[w] EXCEPT !.pc = "dequeue", !.touched = {}])
    /\ causes' = causes \cup Raced(w) \cup {c \in {"moved"} : Moved(w)}
    /\ UNCHANGED <<screen, blocks, hint, gone, input>>

(* The candidates are computed for the buffer as it is then.               *)
Dequeue(w) ==
    /\ At(w, "dequeue")
    /\ Go(w, [act[w] EXCEPT !.pc = "check", !.read = buffer, !.touched = {}])
    /\ UNCHANGED <<buffer, screen, blocks, hint, gone, input, causes>>

(* Mutant: the candidates are handed over in any case.                     *)
CheckNothing(w) ==
    /\ At(w, "check")
    /\ Go(w, [act[w] EXCEPT !.pc = "hand", !.touched = {}]) /\ UNCHANGED blocks
    /\ UNCHANGED <<buffer, screen, hint, gone, input, causes>>

(* guard dequeue == inputBuffer                                            *)
Check(w) ==
    /\ At(w, "check")
    /\ IF buffer = act[w].read
       THEN Go(w, [act[w] EXCEPT !.pc = "hand", !.touched = {}]) /\ UNCHANGED blocks
       ELSE Go(w, Idle) /\ Post(Rest(w))
    /\ UNCHANGED <<buffer, screen, hint, gone, input, causes>>

Hand(w) ==
    /\ At(w, "hand")
    /\ Post(Shows(act[w].read) \o Rest(w))
    /\ Go(w, Idle)
    /\ causes' = causes \cup {IF c = "raced" THEN "overtaken" ELSE c : c \in Raced(w)}
    /\ UNCHANGED <<buffer, screen, hint, gone, input>>

-----------------------------------------------------------------------------
(* The queue of the keys                                                   *)

Press ==
    /\ Len(pressed) < MaxKey /\ \A w \in Actors : act[w].pc # "trap"
    /\ \E kind \in Kinds : pressed' = Append(pressed, kind)
    /\ waiting' = Append(waiting, Len(pressed'))
    /\ UNCHANGED <<buffer, screen, blocks, hint, act, gone, taps, causes>>

Begin(kind) == At("keys", "idle") /\ waiting # <<>> /\ pressed[Head(waiting)] = kind

Taken(other) ==
    /\ waiting' = Tail(waiting) /\ UNCHANGED <<pressed, taps>>
    /\ causes' = causes \cup Hasty \cup other

Key(pc, read, more) ==
    Go("keys", [Idle EXCEPT !.pc = pc, !.key = Head(waiting), !.read = read, !.more = more])

Letter ==
    /\ Begin("letter") /\ Taken({})
    /\ Key("get", <<>>, <<Head(waiting)>>)
    /\ UNCHANGED <<buffer, screen, blocks, hint, gone>>

(* The last index is computed from one read of the buffer,                 *)
Delete ==
    /\ Begin("delete") /\ Taken({}) /\ buffer # <<>>
    /\ Key("remove", buffer, <<>>)
    /\ UNCHANGED <<buffer, screen, blocks, hint, gone>>

(* the letter removed from a second one: beyond its end, the program ends. *)
RemoveLast ==
    LET last == Len(act["keys"].read) IN
    /\ At("keys", "remove")
    /\ IF last > Len(buffer)
       THEN Then("keys", "trap")
       ELSE Go("keys", [act["keys"] EXCEPT !.pc = "store", !.read = buffer,
                            !.more = RemoveAt(buffer, last), !.touched = {}])
    /\ causes' = causes \cup Raced("keys")
    /\ UNCHANGED <<buffer, screen, blocks, hint, gone, input>>

Store ==
    /\ At("keys", "store")
    /\ Write("keys", act["keys"].more, [act["keys"] EXCEPT !.pc = "get", !.more = <<>>])
    /\ gone' = gone \cup (Letters(act["keys"].read) \ Letters(buffer'))
    /\ causes' = causes \cup Raced("keys")
    /\ UNCHANGED <<screen, blocks, hint, input>>

(* With an empty buffer the text loses a character, on the main queue.     *)
DeleteText ==
    /\ Begin("delete") /\ Taken({}) /\ buffer = <<>>
    /\ Key("sync", <<>>, <<>>)
    /\ Post(<<[op |-> "delete", of |-> <<>>]>>)
    /\ UNCHANGED <<buffer, screen, hint, gone>>

Space ==
    /\ Begin("space") /\ Taken({})
    /\ Post(IF buffer = <<>> THEN Inserts(<<Head(waiting)>>)
            ELSE IF candidates = <<>> THEN Shows(buffer) \o Select ELSE Select)
    /\ UNCHANGED <<buffer, screen, hint, act, gone>>

(* The letters themselves are inserted.                                    *)
Return ==
    /\ Begin("return") /\ Taken({})
    /\ IF buffer = <<>>
       THEN Post(Inserts(<<Head(waiting)>>)) /\ UNCHANGED act
       ELSE Post(Inserts(buffer)) /\ Key("clean", buffer, <<>>)
    /\ UNCHANGED <<buffer, screen, hint, gone>>

(* Mutant: the buffer is cleared before its candidate is taken.            *)
PunctuationOnly ==
    /\ Begin("punctuation") /\ Taken({})
    /\ IF buffer = <<>>
       THEN Post(Inserts(<<Head(waiting)>>)) /\ hint' = TRUE /\ UNCHANGED act
       ELSE Key("clean", buffer, <<Head(waiting)>>) /\ UNCHANGED <<blocks, hint>>
    /\ UNCHANGED <<buffer, screen, gone>>

(* dealWithCandidatesBeforeInsert: the first candidate, then cleanUp       *)
Punctuation ==
    /\ Begin("punctuation")
    /\ Taken({c \in {"cut"} : buffer # <<>> /\ candidates = <<>>})
    /\ IF buffer = <<>>
       THEN Post(Inserts(<<Head(waiting)>>)) /\ hint' = TRUE /\ UNCHANGED act
       ELSE /\ Post(IF candidates = <<>> THEN <<>> ELSE <<[op |-> "take", of |-> buffer]>>)
            /\ Key("clean", buffer, <<Head(waiting)>>) /\ UNCHANGED hint
    /\ UNCHANGED <<buffer, screen, gone>>

(* Mutant: the candidates of the buffer stay.                              *)
CleanOnly ==
    /\ At("keys", "clean")
    /\ Write("keys", <<>>, Idle)
    /\ causes' = causes \cup Raced("keys")
    /\ Post(IF act["keys"].more = <<>> THEN <<>> ELSE Inserts(act["keys"].more))
    /\ UNCHANGED <<screen, hint, gone, input>>

(* cleanUp                                                                 *)
Clean ==
    /\ At("keys", "clean")
    /\ Write("keys", <<>>, Idle) /\ hint' = TRUE
    /\ causes' = causes \cup Raced("keys")
    /\ Post(IF act["keys"].more = <<>> THEN <<>> ELSE Inserts(act["keys"].more))
    /\ UNCHANGED <<screen, gone, input>>

(* displaySmartHint, some time after                                       *)
Hint ==
    /\ hint /\ \A w \in Actors : act[w].pc # "trap"
    /\ hint' = FALSE
    /\ Post(IF buffer = <<>> THEN Shows(<<>>) ELSE <<>>)
    /\ UNCHANGED <<buffer, screen, act, gone, input, causes>>

-----------------------------------------------------------------------------
(* The main queue                                                          *)

(* updateCandidates                                                        *)
UpdateCandidates ==
    /\ Free /\ blocks # <<>> /\ Head(blocks).op = "candidates"
    /\ blocks' = Tail(blocks)
    /\ candidates' = Head(blocks).of
    /\ UNCHANGED <<buffer, stack, text, hint, act, gone, input, causes>>

InsertText ==
    /\ Free /\ blocks # <<>> /\ Head(blocks).op = "insert"
    /\ blocks' = Tail(blocks)
    /\ text' = text \o [i \in DOMAIN Head(blocks).of |-> <<Head(blocks).of[i]>>]
    /\ UNCHANGED <<buffer, candidates, stack, hint, act, gone, input, causes>>

DeleteBackward ==
    /\ Free /\ blocks # <<>> /\ Head(blocks).op = "delete"
    /\ blocks' = Tail(blocks) \o (IF buffer = <<>> THEN Shows(<<>>) ELSE <<>>)
    /\ IF text = <<>> THEN UNCHANGED <<text, gone>>
       ELSE text' = Front(text) /\ gone' = gone \cup Letters(Last(text))
    /\ Go("keys", Idle)
    /\ UNCHANGED <<buffer, candidates, stack, hint, input, causes>>

Gesture(other) ==
    /\ Free /\ taps < MaxTap /\ taps' = taps + 1
    /\ causes' = causes \cup other \cup {c \in {"hasty"} : Busy \/ waiting # <<>>}
    /\ UNCHANGED <<pressed, waiting>>

(* didSelectCandidate, of a candidate for so many letters.  Punctuation    *)
(* has cleared the buffer that it takes a candidate of: then it is its own.*)
Choose(taking, of) ==
    LET own == taking /\ of = candidates IN
    IF candidates = <<>>
    THEN /\ Write("main", <<>>, Idle) /\ hint' = TRUE
         /\ UNCHANGED text
    ELSE \E length \in 1..Len(candidates) :
         /\ text' = Append(text, SubSeq(candidates, 1, length))
         /\ Go("main", [Idle EXCEPT !.pc = "old", !.length = length, !.own = own])
         /\ UNCHANGED <<buffer, hint>>

Tap ==
    /\ Gesture({}) /\ candidates # <<>>
    /\ Choose(FALSE, <<>>)
    /\ UNCHANGED <<blocks, candidates, stack, gone>>

DidSelectCandidate ==
    /\ Free /\ blocks # <<>> /\ Head(blocks).op \in {"select", "take"}
    /\ blocks' = Tail(blocks)
    /\ Choose(Head(blocks).op = "take", Head(blocks).of)
    /\ causes' = causes \cup {c \in {"cleared"} :
            candidates = <<>> /\ (buffer # <<>> \/ Head(blocks).op = "take")}
    /\ UNCHANGED <<candidates, stack, gone, input>>

(* candidateSelect: the buffer is kept,                                    *)
Old ==
    /\ At("main", "old")
    /\ Go("main", [act["main"] EXCEPT !.pc = "drop", !.more = buffer])
    /\ UNCHANGED <<buffer, screen, blocks, hint, gone, input, causes>>

(* compared with the length, read and shortened.                           *)
ReadRest ==
    /\ At("main", "drop")
    /\ Go("main", [act["main"] EXCEPT !.pc = "empty", !.read = buffer, !.touched = {}])
    /\ UNCHANGED <<buffer, screen, blocks, hint, gone, input, causes>>

(* Mutant: the length is not compared with that of the buffer.             *)
DropLength ==
    LET a == act["main"] IN
    /\ At("main", "empty")
    /\ causes' = causes \cup Raced("main")
                        \cup {c \in {"stale"} : ~a.own /\ ~IsPrefix(Last(text), a.read)}
                        \cup {c \in {"late"} : a.own /\ ~(Letters(a.read) \subseteq Letters(candidates))}
                        \cup {c \in {"cut"} : a.own /\ a.length < Len(candidates)}
    /\ IF a.length > Len(a.more)
       THEN Then("main", "trap") /\ UNCHANGED <<buffer, stack>>
       ELSE /\ stack' = Append(stack, [word |-> Last(text), shown |-> TRUE])
            /\ Write("main", Drop(a.read, a.length), [a EXCEPT !.pc = "get", !.more = <<>>])
    /\ UNCHANGED <<candidates, text, blocks, hint, gone, input>>

(* What was kept is cut at the length for the stack; too short, the        *)
(* program ends.                                                           *)
DropRead ==
    LET a == act["main"] IN
    /\ At("main", "empty")
    /\ causes' = causes \cup Raced("main")
                        \cup {c \in {"stale"} : ~a.own /\ ~IsPrefix(Last(text), a.read)}
                        \cup {c \in {"late"} : a.own /\ ~(Letters(a.read) \subseteq Letters(candidates))}
                        \cup {c \in {"cut"} : a.own /\ a.length < Len(candidates)}
    /\ IF a.length <= Len(a.read) /\ a.length > Len(a.more)
       THEN Then("main", "trap") /\ UNCHANGED <<buffer, stack>>
       ELSE /\ stack' = Append(stack, [word |-> Last(text), shown |-> TRUE])
            /\ Write("main", IF a.length > Len(a.read) THEN <<>> ELSE Drop(a.read, a.length),
                     [a EXCEPT !.pc = "get", !.more = <<>>])
    /\ UNCHANGED <<candidates, text, blocks, hint, gone, input>>

(* cleanInputBuffer                                                        *)
CleanInputBuffer ==
    /\ Gesture({}) /\ buffer # <<>>
    /\ stack' = Append(stack, [word |-> buffer, shown |-> FALSE])
    /\ gone' = gone \cup Letters(buffer)
    /\ Write("main", <<>>, Idle) /\ hint' = TRUE
    /\ UNCHANGED <<candidates, text, blocks>>

(* Mutant: the letters go behind the buffer.                               *)
TracebackBehind ==
    LET last == Last(stack) IN
    /\ stack # <<>>
    /\ Gesture({c \in {"moved"} : last.shown /\ (text = <<>> \/ Last(text) # last.word)})
    /\ stack' = Front(stack)
    /\ text' = IF last.shown /\ text # <<>> THEN Front(text) ELSE text
    /\ gone' = gone \ Letters(last.word)
    /\ Go("main", [Idle EXCEPT !.pc = "wipe", !.read = buffer, !.more = buffer \o last.word])
    /\ UNCHANGED <<buffer, candidates, blocks, hint>>

(* doTraceback: the letters of the last choice, or those last cleared, go  *)
(* before the buffer,                                                      *)
DoTraceback ==
    LET last == Last(stack) IN
    /\ stack # <<>>
    /\ Gesture({c \in {"moved"} : last.shown /\ (text = <<>> \/ Last(text) # last.word)})
    /\ stack' = Front(stack)
    /\ text' = IF last.shown /\ text # <<>> THEN Front(text) ELSE text
    /\ gone' = gone \ Letters(last.word)
    /\ Go("main", [Idle EXCEPT !.pc = "wipe", !.read = buffer, !.more = last.word \o buffer])
    /\ UNCHANGED <<buffer, candidates, blocks, hint>>

(* which is emptied first.                                                 *)
Wipe ==
    /\ At("main", "wipe")
    /\ Write("main", <<>>, [act["main"] EXCEPT !.pc = "get"])
    /\ causes' = causes \cup Raced("main")
    /\ UNCHANGED <<screen, blocks, hint, gone, input>>

-----------------------------------------------------------------------------
Next ==
    \/ Press \/ Letter \/ Delete \/ RemoveLast \/ Store \/ DeleteText \/ Space \/ Return
    \/ Punctuation \/ Clean \/ Hint
    \/ UpdateCandidates \/ InsertText \/ DeleteBackward \/ Tap \/ DidSelectCandidate
    \/ Old \/ ReadRest \/ DropRead \/ CleanInputBuffer \/ DoTraceback \/ Wipe
    \/ \E w \in Actors : Get(w) \/ Set(w) \/ Dequeue(w) \/ Check(w) \/ Hand(w)

Spec == Init /\ [][Next]_vars

-----------------------------------------------------------------------------
(* Properties                                                              *)

Quiet        == waiting = <<>> /\ ~Busy
Unless(some) == causes \cap some # {}
Output       == FlattenSeq(text) \o buffer

(* Every letter typed is in the text or in the buffer, or was taken back   *)
(* by the user.  What loses one: a write that undoes another; a candidate  *)
(* chosen for letters that are gone; a letter typed between a punctuation  *)
(* mark and the choice it asked for; candidates cleared before a choice;   *)
(* and by design a mark after a candidate for less than the whole buffer.  *)
NothingLost ==
    Quiet => \/ Unless({"raced", "stale", "late", "cleared", "cut", "moved"})
             \/ \A k \in DOMAIN pressed : pressed[k] = "letter" => k \in Letters(Output) \cup gone

(* What was entered comes out in the order of the keys, and nothing twice. *)
InOrder ==
    Quiet => \/ Unless({"raced", "stale", "moved", "own"})
             \/ \A i, j \in DOMAIN Output : i < j => Output[i] < Output[j]

(* Once all is done the candidates on the screen are those of the buffer,  *)
(* although two queues compute and post them.                              *)
CandidatesFit == Quiet => Unless({"overtaken"}) \/ candidates = buffer

(* The program ends on an index out of range only after one of these.      *)
TrapsRace == (\E w \in Actors : act[w].pc = "trap") => Unless({"raced", "stale", "late"})

(* All of this takes haste: a user who waits for each key and gesture to   *)
(* be done meets none of it, but what is by design.                        *)
PatienceHelps == Unless({"hasty"}) \/ causes \subseteq {"cut", "moved", "own"}

=============================================================================
