------------------------------ MODULE MCEngine ------------------------------
(***************************************************************************)
(* The computations of the input engine: sentences from words (Sentence),  *)
(* letters and syllables cut into pieces (Segment), digits read as         *)
(* syllables (NineKeys, with two keys and the codes that may be made of    *)
(* them).  Each is asked for by itself, for any input and any contents of  *)
(* the data base; the others stay as they begin.                           *)
(***************************************************************************)
EXTENDS Sentence

VARIABLES
    asked, \* what the engine is asked for
    kind, length, weight, D, from, answer,
    names, buffer, pinyin, pinyin2, pinyins, choices, doubled, trapped

pieces == <<kind, length, weight, D, from, answer>>
digits == <<names, buffer, pinyin, pinyin2, pinyins, choices, doubled, trapped>>

Cutter == INSTANCE Segment WITH MaxLength <- 4, MaxPiece <- 3, MaxWeight <- 2, PathNum <- 2

Reader == INSTANCE NineKeys WITH
    Digits <- {1, 2}, Codes <- {<<1>>, <<2>>, <<1, 2>>, <<2, 1>>, <<1, 2, 1>>},
    MaxName <- 2, MaxLength <- 4, MaxChoice <- 1

ASSUME PartsAssumption == Cutter!SegmentAssumption /\ Reader!DigitAssumption

(* What is not asked for has no pieces and one syllable for each code.     *)
AskedInit ==
    /\ asked \in {"sentence", "cut", "digits"}
    /\ IF asked = "sentence"
       THEN SentenceInit
       ELSE /\ lexicon = [r \in Runs |-> 0] /\ width = CHOOSE w \in Widths : TRUE
            /\ graph = [i \in Ends |-> <<>>] /\ lost = [i \in Ends |-> {}]
            /\ stage = 1 /\ last = 0 /\ pending = {}
    /\ IF asked = "cut"
       THEN Cutter!Init
       ELSE /\ kind = "letters" /\ length = 1 /\ weight = [i \in Cutter!Pieces |-> 0]
            /\ D = [i \in Cutter!Places |-> <<>>] /\ from = 0 /\ answer = <<0>>
    /\ IF asked = "digits"
       THEN Reader!Init
       ELSE /\ names = [c \in {<<1>>} |-> 1]
            /\ buffer = <<>> /\ pinyin = <<>> /\ pinyin2 = <<>> /\ pinyins = <<>>
            /\ choices = 0 /\ doubled = FALSE /\ trapped = FALSE

AskedNext ==
    \/ asked = "sentence" /\ SentenceNext /\ UNCHANGED <<asked, pieces, digits>>
    \/ asked = "cut" /\ Cutter!Next /\ UNCHANGED <<asked, sentenceVars, digits>>
    \/ asked = "digits" /\ Reader!Next /\ UNCHANGED <<asked, sentenceVars, pieces>>

Asked == AskedInit /\ [][AskedNext]_<<asked, sentenceVars, pieces, digits>>

-----------------------------------------------------------------------------
(* The properties of the computations, each stated and explained in its    *)
(* module; KeepsTheBest is that of Sentence.                               *)

(* The stacks are sorted, hold whole paths, every one that is to be found, *)
(* and a sentence whenever there is one.                                   *)
SentencesRight == SentenceTypeOK /\ StacksSorted /\ PathsWhole /\ SentenceFound /\ AllFound

(* Letters and syllables are cut into pieces of the greatest weight, of    *)
(* two ways as good by the one found last.                                 *)
CutsRight ==
    asked = "cut" =>
        /\ Cutter!TypeOK
        /\ Cutter!LettersCutBest /\ Cutter!SyllablesCutBest /\ Cutter!TiesGoToTheLast

(* Both lists and every path are for all of the digits, the first path in  *)
(* every choice of syllables, and there is one unless two separators were  *)
(* typed in a row.                                                         *)
DigitsRight ==
    asked = "digits" =>
        /\ Reader!TypeOK /\ Reader!PathsCover /\ Reader!EveryNameOfTheFirst
        /\ Reader!BothListsCover /\ Reader!TrapsNeedTwo

=============================================================================
