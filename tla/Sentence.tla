------------------------------- MODULE Sentence -------------------------------
(***************************************************************************)
(* How the engine puts a sentence together from the words it knows for     *)
(* runs of syllables (getCandidate, Dag/LoginputEngine.swift).  For every  *)
(* syllable it keeps a stack of the best paths that end there.  It goes    *)
(* over the stacks three times: the first words, then the second words     *)
(* after paths of one word, then all others after paths of two words or    *)
(* more; what is left in the last stack is the answer.                     *)
(*                                                                         *)
(* A score adds up weights of one, two and three words, all from the data  *)
(* base; here it is any of Scores.  The pushes of one visit come in the    *)
(* order of the data base's answers; here, in any order.                   *)
(***************************************************************************)
EXTENDS PriorityStack, FiniteSets

CONSTANTS
    Syllables, \* how many syllables were typed
    MaxWords,  \* bound: words known for one run of syllables
    Widths,    \* the values of pathNumber
    Scores     \* the scores a path may get

ASSUME SentenceAssumption ==
    /\ Syllables \in Nat \ {0} /\ MaxWords \in Nat \ {0}
    /\ Widths \subseteq Nat \ {0} /\ Scores \subseteq Nat \ {0}

VARIABLES
    lexicon, \* how many words the data base has for each run of syllables
    width,   \* pathNumber
    graph,   \* Graph: the stack of each syllable
    stage,   \* the pass, or 4 when all is done
    last,    \* lastIndex: the stack whose paths are being extended
    pending, \* what this visit has still to push
    lost     \* the scores of what was thrown out of each stack

sentenceVars == <<lexicon, width, graph, stage, last, pending, lost>>

Ends  == 1..Syllables
Runs  == {r \in Ends \X Ends : r[1] <= r[2]}
Words == [from : Ends, to : Ends, id : 1..MaxWords]
Items == [path : Seq(Words), score : Scores]
Steps == [path : Seq(Words), to : Ends]

Known(w) == w.from <= w.to /\ w.id <= lexicon[<<w.from, w.to>>]

SentenceTypeOK ==
    /\ lexicon \in [Runs -> 0..MaxWords] /\ width \in Widths
    /\ graph \in [Ends -> Seq(Items)]
    /\ stage \in 1..4 /\ last \in 0..Syllables
    /\ pending \subseteq Steps
    /\ lost \in [Ends -> SUBSET Scores]

-----------------------------------------------------------------------------

(* The words that may follow a path to l.                                  *)
Following(l) == {w \in Words : w.from = l + 1 /\ Known(w)}

(* Mutant: the filter the comment at the third pass warns of.              *)
ExtendableFar(s, l) ==
    IF s = 1 THEN {<<>>}
    ELSE {e.path : e \in {e \in Elements(graph[l]) : IF s = 2 THEN Len(e.path) = 1 ELSE Len(e.path) >= 2 /\ l > 2}}

(* Mutant: the third pass takes paths of two words only.                   *)
ExtendableTwo(s, l) ==
    IF s = 1 THEN {<<>>} ELSE {e.path : e \in {e \in Elements(graph[l]) : Len(e.path) = s - 1}}

(* Mutant: the second pass does not look at the length.                    *)
ExtendableAny(s, l) ==
    IF s = 1 THEN {<<>>}
    ELSE {e.path : e \in {e \in Elements(graph[l]) : s = 2 \/ Len(e.path) >= 2}}

(* The paths in the stack of l that a pass extends.                        *)
Extendable(s, l) ==
    IF s = 1 THEN {<<>>}
    ELSE {e.path : e \in {e \in Elements(graph[l]) : IF s = 2 THEN Len(e.path) = 1 ELSE Len(e.path) >= 2}}

Extensions(s, l) ==
    {[path |-> Append(p, w), to |-> w.to] : p \in Extendable(s, l), w \in Following(l)}

SentenceInit ==
    /\ lexicon \in [Runs -> 0..MaxWords] /\ width \in Widths
    /\ graph = [i \in Ends |-> <<>>] /\ lost = [i \in Ends |-> {}]
    /\ stage = 1 /\ last = 0
    /\ pending = {[path |-> <<w>>, to |-> w.to] : w \in Following(0)}

Thrown(s, e) == (Elements(s) \cup {e}) \ Elements(Push(s, width, e))

(* One word more: a path is pushed onto the stack where it ends.           *)
Extend ==
    \E p \in pending, score \in Scores :
        LET e == [path |-> p.path, score |-> score] IN
        /\ pending' = pending \ {p}
        /\ graph' = [graph EXCEPT ![p.to] = Push(@, width, e)]
        /\ lost' = [lost EXCEPT ![p.to] = @ \cup {x.score : x \in Thrown(graph[p.to], e)}]
        /\ UNCHANGED <<lexicon, width, stage, last>>

(* Mutant: one stack too many.                                             *)
VisitBeyond ==
    /\ pending = {} /\ stage \in {2, 3} /\ last <= Syllables
    /\ last' = last + 1
    /\ pending' = IF last < Syllables THEN Extensions(stage, last + 1) ELSE {}
    /\ UNCHANGED <<lexicon, width, graph, stage, lost>>

(* The next stack of the pass.                                             *)
Visit ==
    /\ pending = {} /\ stage \in {2, 3} /\ last < Syllables
    /\ last' = last + 1
    /\ pending' = Extensions(stage, last + 1)
    /\ UNCHANGED <<lexicon, width, graph, stage, lost>>

(* The next pass, if there are syllables enough for it.                    *)
Pass ==
    /\ pending = {} /\ stage < 4 /\ (stage = 1 \/ last = Syllables)
    /\ stage' = IF stage < 3 /\ Syllables > stage THEN stage + 1 ELSE 4
    /\ last' = 0
    /\ UNCHANGED <<lexicon, width, graph, pending, lost>>

SentenceNext == Extend \/ Visit \/ Pass

SentenceSpec == SentenceInit /\ [][SentenceNext]_sentenceVars

-----------------------------------------------------------------------------
(* Properties                                                              *)

Done == stage = 4

(* All ways to cover the syllables up to i with known words.               *)
Covers[i \in 0..Syllables] ==
    IF i = 0 THEN {<<>>}
    ELSE UNION {{Append(p, w) : p \in Covers[w.from - 1]} : w \in {w \in Words : w.to = i /\ Known(w)}}

(* Every stack is in order and no longer than it may be.                   *)
StacksSorted == \A i \in Ends : Sorted(graph[i]) /\ Len(graph[i]) <= width

(* What a stack has thrown out was no better than anything it kept, and    *)
(* it only ever throws out when it is full: so its best path is the best   *)
(* of all that were pushed (push looks at the last item and drops one).    *)
KeepsTheBest ==
    \A i \in Ends : \A n \in lost[i] :
        Len(graph[i]) = width /\ \A j \in 1..width : graph[i][j].score >= n

(* Every path is made of known words without a gap, and none is offered    *)
(* twice, though every stack is visited in two passes.                     *)
PathsWhole ==
    \A i \in Ends :
        /\ \A e \in Elements(graph[i]) : e.path \in Covers[i]
        /\ \A j, k \in DOMAIN graph[i] : j # k => graph[i][j].path # graph[i][k].path

(* A sentence is found whenever known words cover the syllables, however   *)
(* few paths are kept.  The comments in getCandidate warn of the filters   *)
(* that would lose rare sentences.                                         *)
SentenceFound == Done => (graph[Syllables] # <<>> <=> Covers[Syllables] # {})

(* If no stack overflowed, every sentence is found.                        *)
AllFound ==
    Done /\ (\A i \in Ends : lost[i] = {}) =>
        {e.path : e \in Elements(graph[Syllables])} = Covers[Syllables]

=============================================================================
