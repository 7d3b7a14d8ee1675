------------------------------- MODULE NineKeys -------------------------------
(***************************************************************************)
(* How the digits of the nine keys are read as syllables (PinyinStruct,    *)
(* NumString).  A code is a run of digits and stands for one or several    *)
(* syllables.  There are two lists, the digits cut into codes from the     *)
(* front and from the end, the longest first, and the paths: pinyins, in   *)
(* which every code is given one of its syllables.  Separators cut the     *)
(* digits beforehand.  All are made anew whenever the buffer changes,      *)
(* unless it has become empty.                                             *)
(*                                                                         *)
(* A syllable is the number it has under its code.  Left out: paths chosen *)
(* in the list of syllables (PinyinSelector).                              *)
(***************************************************************************)
EXTENDS Integers, Sequences, FiniteSets, SequencesExt

CONSTANTS
    Digits,    \* the keys, natural numbers
    Codes,     \* the codes that may be in the table; those of one digit are
    MaxName,   \* bound: the syllables of a code
    MaxLength, \* bound: the length of the buffer
    MaxChoice  \* bound: candidates chosen

Sep == 0

DigitAssumption ==
    /\ Digits \subseteq Nat \ {Sep} /\ Codes \subseteq Seq(Digits) \ {<<>>}
    /\ \A d \in Digits : <<d>> \in Codes
    /\ MaxName \in Nat \ {0} /\ MaxLength \in Nat \ {0} /\ MaxChoice \in Nat

VARIABLES
    names,   \* how many syllables each code has
    buffer,  \* inputBuffer
    pinyin,  \* pinyin: codes from the front
    pinyin2, \* pinyin2: codes from the end
    pinyins, \* pinyins: the paths
    choices, \* candidates chosen so far
    doubled, \* two separators were typed in a row
    trapped  \* the program has ended: there is no first path

vars == <<names, buffer, pinyin, pinyin2, pinyins, choices, doubled, trapped>>

Syllable == [code : Codes, name : 1..MaxName]

TypeOK ==
    /\ names \in [Codes -> 0..MaxName]
    /\ buffer \in Seq(Digits \cup {Sep}) /\ Len(buffer) <= MaxLength
    /\ pinyin \in Seq(Codes) /\ pinyin2 \in Seq(Codes)
    /\ pinyins \in Seq(Seq(Syllable))
    /\ choices \in 0..MaxChoice /\ doubled \in BOOLEAN /\ trapped \in BOOLEAN

-----------------------------------------------------------------------------
(* The table                                                               *)

Known(c) == c \in Codes /\ names[c] > 0

From(s, i) == SubSeq(s, i + 1, Len(s))

(* The parts of the buffer between the separators.                         *)
PartsOf(b) ==
    FoldLeft(LAMBDA ps, c : IF c = Sep THEN Append(ps, <<>>) ELSE [ps EXCEPT ![Len(ps)] = Append(@, c)],
             <<<<>>>>, b)

(* How many digits the longest code takes at the front, or at the end.     *)
Fits(s)  == {n \in 1..Len(s) : Known(SubSeq(s, 1, n))}
EndFits(s) == {n \in 1..Len(s) : Known(SubSeq(s, Len(s) - n + 1, Len(s)))}
Most(N) == CHOOSE n \in N : \A k \in N : k <= n

-----------------------------------------------------------------------------
(* nums2pylist_i                                                           *)

RECURSIVE Forward(_), Backward(_)

(* A part cut from the front.                                              *)
Forward(s) ==
    IF s = <<>> THEN <<>>
    ELSE LET n == Most(Fits(s)) IN <<SubSeq(s, 1, n)>> \o Forward(From(s, n))

(* A part cut from the end, its last code first.                           *)
Backward(s) ==
    IF s = <<>> THEN <<>>
    ELSE LET i == Len(s) - Most(EndFits(s)) IN <<From(s, i)>> \o Backward(SubSeq(s, 1, i))

Nums2pylist(b) == FlattenSeq([i \in DOMAIN PartsOf(b) |-> Forward(PartsOf(b)[i])])

(* Mutant: not turned round.                                               *)
Nums2pylistTurned(b) == FlattenSeq([i \in DOMAIN PartsOf(b) |-> Backward(PartsOf(b)[i])])

(* What was cut from the end is turned round as a whole.                   *)
Nums2pylistReverse(b) == Reverse(FlattenSeq([i \in DOMAIN PartsOf(b) |-> Backward(PartsOf(b)[i])]))

-----------------------------------------------------------------------------
(* Pinyins                                                                 *)

NumStr(path) == FlattenSeq([i \in DOMAIN path |-> path[i].code])
Name(c, k)   == [code |-> c, name |-> k]

(* Mutant: the first syllable of a code is passed over.                    *)
InsertMore(paths, c, prior) ==
    LET same == {i \in DOMAIN paths : NumStr(paths[i]) = prior}
    IN  IF prior = <<>> THEN paths \o [k \in 1..names[c] |-> <<Name(c, k + 1)>>]
        ELSE [i \in DOMAIN paths |-> IF i \in same THEN Append(paths[i], Name(c, 1)) ELSE paths[i]]

(* Mutant: only one syllable of a code.                                    *)
InsertOne(paths, c, prior) ==
    LET same == {i \in DOMAIN paths : NumStr(paths[i]) = prior}
    IN  IF prior = <<>> THEN paths \o [k \in 1..names[c] |-> <<Name(c, k)>>]
        ELSE [i \in DOMAIN paths |-> IF i \in same THEN Append(paths[i], Name(c, 1)) ELSE paths[i]]

(* Mutant: goes on from any path.                                          *)
InsertAny(paths, c, prior) ==
    IF prior = <<>> THEN paths \o [k \in 1..names[c] |-> <<Name(c, k)>>]
    ELSE [i \in DOMAIN paths |-> Append(paths[i], Name(c, 1))]

(* insertNewSyllables: without digits before it, a code begins new paths;  *)
(* with them, it goes on from each path for just these digits, the first   *)
(* syllable in place and the others behind.                                *)
InsertNewSyllables(paths, c, prior) ==
    LET same == {i \in DOMAIN paths : NumStr(paths[i]) = prior}
        others(i) == IF i \in same THEN [k \in 1..(names[c] - 1) |-> Append(paths[i], Name(c, k + 1))] ELSE <<>>
    IN  IF prior = <<>> THEN paths \o [k \in 1..names[c] |-> <<Name(c, k)>>]
        ELSE [i \in DOMAIN paths |-> IF i \in same THEN Append(paths[i], Name(c, 1)) ELSE paths[i]]
             \o FlattenSeq([i \in DOMAIN paths |-> others(i)])

RECURSIVE GeneratePinyins(_, _, _, _)

(* generatePinyins for one part, after the digits prior; left are those    *)
(* that the part before has left in priorNumStr.  First the longest code,  *)
(* then, from the front, the shortest ones; a code of one digit does not   *)
(* begin a path there.                                                     *)
GeneratePinyins(s, prior, left, paths) ==
    LET n     == Most(Fits(s))
        first == InsertNewSyllables(paths, SubSeq(s, 1, n), left)
        longest ==
            IF n = Len(s) THEN first
            ELSE LET before == left \o SubSeq(s, 1, n)
                 IN  GeneratePinyins(From(s, n), before, before, first).paths
        shorter(r, i) ==
            LET c      == SubSeq(s, r.first + 1, i)
                before == prior \o SubSeq(s, 1, r.first)
                new    == InsertNewSyllables(r.paths, c, before)
            IN  IF ~Known(c) \/ (Len(c) = 1 /\ prior = <<>>) THEN [r EXCEPT !.left = prior]
                ELSE IF i = Len(s) THEN [paths |-> new, first |-> i, left |-> before]
                ELSE [paths |-> GeneratePinyins(From(s, i), before \o c, before \o c, new).paths,
                      first |-> i, left |-> before \o c]
    IN  FoldLeft(shorter, [paths |-> longest, first |-> 0, left |-> prior], [i \in 1..Len(s) |-> i])

(* All parts, up to one that is empty.                                     *)
GetPinyins(b) ==
    FoldLeft(LAMBDA r, s : IF r.over \/ s = <<>> THEN [r EXCEPT !.over = TRUE]
                           ELSE LET g == GeneratePinyins(s, <<>>, r.left, r.paths)
                                IN  [paths |-> g.paths, left |-> g.left, over |-> FALSE],
             [paths |-> <<>>, left |-> <<>>, over |-> FALSE], PartsOf(b)).paths

-----------------------------------------------------------------------------

Init ==
    /\ names \in {f \in [Codes -> 0..MaxName] : \A d \in Digits : f[<<d>>] > 0}
    /\ buffer = <<>> /\ pinyin = <<>> /\ pinyin2 = <<>> /\ pinyins = <<>>
    /\ choices = 0 /\ doubled = FALSE /\ trapped = FALSE

(* bufferChanged, getResult: the first of the paths is asked for.          *)
BufferChanged(b) ==
    /\ buffer' = b
    /\ IF b = <<>> THEN UNCHANGED <<pinyin, pinyin2, pinyins, trapped>>
       ELSE /\ pinyin' = Nums2pylist(b) /\ pinyin2' = Nums2pylistReverse(b)
            /\ pinyins' = GetPinyins(b)
            /\ trapped' = (pinyins' = <<>>)

Type(d) ==
    /\ ~trapped /\ Len(buffer) < MaxLength
    /\ BufferChanged(Append(buffer, d))
    /\ UNCHANGED <<names, choices, doubled>>

(* A separator is not typed first.                                         *)
Separate ==
    /\ ~trapped /\ buffer # <<>> /\ Len(buffer) < MaxLength
    /\ doubled' = (doubled \/ Last(buffer) = Sep)
    /\ BufferChanged(Append(buffer, Sep))
    /\ UNCHANGED <<names, choices>>

Delete ==
    /\ ~trapped /\ buffer # <<>>
    /\ BufferChanged(Front(buffer))
    /\ UNCHANGED <<names, choices, doubled>>

(* Mutant: the separator stays.                                            *)
CandidateSelectOnly ==
    /\ ~trapped /\ buffer # <<>> /\ choices < MaxChoice
    /\ \E i \in DOMAIN pinyins : \E m \in 1..Len(pinyins[i]) :
        BufferChanged(From(buffer, Len(NumStr(SubSeq(pinyins[i], 1, m)))))
    /\ choices' = choices + 1
    /\ UNCHANGED <<names, doubled>>

(* A candidate is chosen for the beginning of a path: as many characters   *)
(* as it has letters are taken off the buffer, and one separator.          *)
CandidateSelect ==
    /\ ~trapped /\ buffer # <<>> /\ choices < MaxChoice
    /\ \E i \in DOMAIN pinyins : \E m \in 1..Len(pinyins[i]) :
        LET rest == From(buffer, Len(NumStr(SubSeq(pinyins[i], 1, m))))
        IN  BufferChanged(IF rest # <<>> /\ Head(rest) = Sep THEN Tail(rest) ELSE rest)
    /\ choices' = choices + 1
    /\ UNCHANGED <<names, doubled>>

Next == (\E d \in Digits : Type(d)) \/ Separate \/ Delete \/ CandidateSelect

Spec == Init /\ [][Next]_vars

-----------------------------------------------------------------------------
(* Properties                                                              *)

(* Digits without a separator.                                             *)
Plain == buffer # <<>> /\ ~Contains(buffer, Sep)
CodesOf(path) == [i \in DOMAIN path |-> path[i].code]

(* Every path is for all of the digits, though paths grow in two nested    *)
(* searches that tell them apart by their digits alone.                    *)
PathsCover == Plain => \A i \in DOMAIN pinyins : NumStr(pinyins[i]) = buffer

(* The paths begin with the cut that the list from the front has, so that  *)
(* the first of them and the list agree, with every choice of syllables.   *)
EveryNameOfTheFirst ==
    Plain =>
        /\ CodesOf(pinyins[1]) = pinyin
        /\ \A i \in DOMAIN pinyin : \A k \in 1..names[pinyin[i]] :
            \E j \in DOMAIN pinyins : CodesOf(pinyins[j]) = pinyin /\ pinyins[j][i].name = k

(* The list from the end is for all of the digits as well, in order.       *)
BothListsCover ==
    Plain => FlattenSeq(pinyin) = buffer /\ FlattenSeq(pinyin2) = buffer

(* A path is asked for where there is none only after two separators in a  *)
(* row: the choice that comes next to them takes off one.                  *)
TrapsNeedTwo == trapped => doubled

=============================================================================
