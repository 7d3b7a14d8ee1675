---------------------------- MODULE PriorityStack ----------------------------
(***************************************************************************)
(* The stack of bounded length that the input engine keeps its best paths  *)
(* in (libs/PriorityStack.swift): a sequence of items by falling score.    *)
(* A push looks for the place of the new item from the middle outwards,    *)
(* inserts it there and drops the last item if there is one too many.      *)
(***************************************************************************)
EXTENDS Integers, Sequences, SequencesExt

Middle(s) == Len(s) \div 2 + 1

(* Mutant: no scan to the front.                                           *)
PlaceShort(s, e) ==
    IF e.score > s[Middle(s)].score
    THEN Middle(s)
    ELSE CHOOSE p \in Middle(s)..(Len(s) + 1) :
            /\ p <= Len(s) => s[p].score <= e.score
            /\ \A q \in Middle(s)..(p - 1) : s[q].score > e.score

(* The place of e in a stack that is not empty.  Before the middle item, e *)
(* goes behind the last that is no worse; after it, in front of the first  *)
(* that is no better.                                                      *)
Place(s, e) ==
    IF e.score > s[Middle(s)].score
    THEN CHOOSE p \in 1..Middle(s) :
            /\ p > 1 => s[p - 1].score >= e.score
            /\ \A q \in p..Middle(s) : s[q].score < e.score
    ELSE CHOOSE p \in Middle(s)..(Len(s) + 1) :
            /\ p <= Len(s) => s[p].score <= e.score
            /\ \A q \in Middle(s)..(p - 1) : s[q].score > e.score

(* Mutant: a full stack turns down everything.                             *)
RefusedFull(s, max, e) == Len(s) = max

(* Mutant: as good as the last item is not good enough.                    *)
RefusedTie(s, max, e) == Len(s) = max /\ e.score <= s[Len(s)].score

(* push: a full stack turns down what is worse than its last item.         *)
Refused(s, max, e) == Len(s) = max /\ e.score < s[Len(s)].score

Inserted(s, e) == IF s = <<>> THEN <<e>> ELSE InsertAt(s, Place(s, e), e)

Cut(s, max) == IF Len(s) > max THEN SubSeq(s, 1, max) ELSE s

Push(s, max, e) == IF Refused(s, max, e) THEN s ELSE Cut(Inserted(s, e), max)

Elements(s) == {s[i] : i \in DOMAIN s}

Sorted(s) == \A i, j \in DOMAIN s : i < j => s[i].score >= s[j].score

=============================================================================
