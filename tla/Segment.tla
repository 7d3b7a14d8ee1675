------------------------------- MODULE Segment -------------------------------
(***************************************************************************)
(* How typed letters are cut into syllables (segment, libs/FSegment.swift) *)
(* and, for the nine keys, syllables into words (dag, T9Strategy.swift).   *)
(* Both go from the front to the end and keep, for every place, the best   *)
(* ways to get there; a way is as good as the product of the weights of    *)
(* its pieces.  Letters keep one way for each place and pass over a place  *)
(* that no way gets to; syllables keep several and stop at such a place.   *)
(*                                                                         *)
(* Left out: two names that are cut by a table, corrected spelling, which  *)
(* only changes what pieces there are, and apostrophes, at which letters   *)
(* are cut beforehand.  A run of syllables has one word at most.           *)
(***************************************************************************)
EXTENDS PriorityStack, FiniteSets

CONSTANTS
    MaxLength,  \* bound: letters or syllables
    MaxPiece,   \* the longest piece of letters, 7 in the code
    MaxWeight,  \* bound: the weight of a piece
    PathNum     \* how many ways syllables keep

SegmentAssumption ==
    /\ MaxLength \in Nat \ {0} /\ MaxPiece \in Nat \ {0}
    /\ MaxWeight \in Nat \ {0} /\ PathNum \in Nat \ {0}

VARIABLES
    kind,   \* what is being cut
    length, \* how many of them there are
    weight, \* the weight of each piece, or 0 if there is no such piece
    D,      \* D: the best ways to each place
    from,   \* fromIndex
    answer  \* the places cut at, once all is done

vars == <<kind, length, weight, D, from, answer>>

Places == 1..MaxLength
Pieces == {p \in (0..MaxLength) \X Places : p[1] < p[2]}
Kinds  == {"letters", "syllables"}
None   == <<0>>

TypeOK ==
    /\ kind \in Kinds /\ length \in Places
    /\ weight \in [Pieces -> 0..MaxWeight]
    /\ \A i \in Places : \A e \in Elements(D[i]) : e.path \in Seq(Places) /\ e.score \in Nat \ {0}
    /\ from \in 0..MaxLength
    /\ answer \in Seq(Places) \cup {None}

-----------------------------------------------------------------------------

Width == IF kind = "letters" THEN 1 ELSE PathNum

Piece(i, j) ==
    /\ j \in (i + 1)..length /\ weight[<<i, j>>] > 0
    /\ kind = "letters" => j - i <= MaxPiece

Onwards(e, j) == [path |-> Append(e.path, j), score |-> e.score * weight[<<from, j>>]]

(* The ways to the place that is gone on from.                             *)
Ways == IF from = 0 THEN <<[path |-> <<>>, score |-> 1]>> ELSE D[from]

Reached(j) ==
    IF Piece(from, j) THEN FoldLeft(LAMBDA s, e : Push(s, Width, Onwards(e, j)), D[j], Ways) ELSE D[j]

Init ==
    /\ kind \in Kinds /\ length \in Places
    /\ weight \in {w \in [Pieces -> 0..MaxWeight] : \A p \in Pieces : p[2] > length => w[p] = 0}
    /\ D = [i \in Places |-> <<>>] /\ from = 0 /\ answer = None

(* Mutant: goes on from the end, too.                                      *)
ExtendBeyond ==
    /\ answer = None /\ from <= length
    /\ Ways # <<>>
    /\ D' = [j \in Places |-> Reached(j)]
    /\ from' = from + 1
    /\ UNCHANGED <<kind, length, weight, answer>>

(* Go on from the next place.                                              *)
Extend ==
    /\ answer = None /\ from < length
    /\ Ways # <<>>
    /\ D' = [j \in Places |-> Reached(j)]
    /\ from' = from + 1
    /\ UNCHANGED <<kind, length, weight, answer>>

(* Mutant: letters break as well.                                          *)
SkipAll ==
    /\ answer = None /\ from < length
    /\ Ways = <<>>
    /\ from' = length
    /\ UNCHANGED <<kind, length, weight, D, answer>>

(* No way leads to it: letters continue, syllables break.                  *)
Skip ==
    /\ answer = None /\ from < length
    /\ Ways = <<>>
    /\ from' = IF kind = "letters" THEN from + 1 ELSE length
    /\ UNCHANGED <<kind, length, weight, D, answer>>

(* Mutant: the last of the ways that are left, not the first.              *)
PickLast ==
    /\ answer = None /\ from = length
    /\ answer' = LET i == CHOOSE i \in Places : D[i] # <<>> /\ \A j \in Places : D[j] # <<>> => j <= i
                 IN  IF \E j \in Places : D[j] # <<>> THEN D[i][Len(D[i])].path ELSE <<>>
    /\ UNCHANGED <<kind, length, weight, D, from>>

(* The best way to the last place there is a way to.                       *)
Pick ==
    /\ answer = None /\ from = length
    /\ answer' = IF \E i \in Places : D[i] # <<>>
                 THEN D[CHOOSE i \in Places : D[i] # <<>> /\ \A j \in Places : D[j] # <<>> => j <= i][1].path
                 ELSE <<>>
    /\ UNCHANGED <<kind, length, weight, D, from>>

Next == Extend \/ Skip \/ Pick

Spec == Init /\ [][Next]_vars

-----------------------------------------------------------------------------
(* Properties                                                              *)

(* All ways to each place, with their weights, from the definition.        *)
All[i \in 0..MaxLength] ==
    IF i = 0 THEN {[path |-> <<>>, score |-> 1]}
    ELSE UNION {{[path |-> Append(e.path, i), score |-> e.score * weight[<<k, i>>]] : e \in All[k]} :
                   k \in {k \in 0..(i - 1) : Piece(k, i)}}

Best(i) == {e \in All[i] : \A x \in All[i] : e.score >= x.score}

Done      == answer # None
Reachable == {i \in 0..length : All[i] # {}}
Furthest  == CHOOSE i \in Reachable : \A j \in Reachable : j <= i
Gap       == \E i \in 1..(length - 1) : All[i] = {}

(* Letters are cut as far as they can be, past places where no piece ends, *)
(* and by the best of all cuts.                                            *)
LettersCutBest ==
    Done /\ kind = "letters" => \E e \in Best(Furthest) : answer = e.path

(* So are syllables if a word ends after each; if not, the words stop      *)
(* there, and the answer is still no worse than any single word.           *)
SyllablesCutBest ==
    Done /\ kind = "syllables" =>
        /\ ~Gap => \E e \in Best(Furthest) : answer = e.path
        /\ \A i \in Places : Piece(0, i) => answer # <<>> /\ answer[Len(answer)] >= i

(* Of two cuts that are as good, letters take the one with the shorter     *)
(* last piece, the one found last.                                         *)
TiesGoToTheLast ==
    Done /\ kind = "letters" /\ answer # <<>> =>
        \A e \in Best(Furthest) :
            Len(e.path) > 1 => Len(answer) > 1 /\ answer[Len(answer) - 1] >= e.path[Len(e.path) - 1]

=============================================================================
