------------------------------- MODULE MCInput -------------------------------
(***************************************************************************)
(* The parts of the input method that run on the queue of the keys and the *)
(* main queue: the buffer (InputBuffer), the search for candidates         *)
(* (Candidates, on two queues that behave alike) and what is learned       *)
(* (Learning, two pairs).  Neither model has a variable of another, so one *)
(* part moves while the others stay as they began.                         *)
(***************************************************************************)
EXTENDS Sequences, TLC

CONSTANTS
    MaxKey, MaxTap, Pressable, \* the constants of InputBuffer
    Searchers, Calling,        \* of Candidates: the queues, and the kinds of calls,
    MaxCall,                   \* and its bound,
    Learned, NoPair, MaxTask   \* and of Learning

VARIABLES
    part, \* the part that moves
    pressed, waiting, buffer, candidates, posted, hint, doing, stack, text, undone, taps, causes,
    calls, about, letters, search, group, cache, kept, emptied, returned, ever,
    rows, flag, tasks, words, evidence, hits, mixed

typing    == <<pressed, waiting, buffer, candidates, posted, hint, doing, stack, text, undone,
               taps, causes>>
searching == <<calls, about, letters, search, group, cache, kept, emptied, returned, ever>>
learning  == <<rows, flag, tasks, words, evidence, hits, mixed>>

Buffer == INSTANCE InputBuffer WITH
    Kinds <- Pressable, blocks <- posted, act <- doing, gone <- undone

Search == INSTANCE Candidates WITH
    Queues <- Searchers, Kinds <- Calling, input <- letters, act <- search, blocks <- group

(* Calls that leave one part or nothing to blocks.                         *)
Searches ==
    {[deferred |-> {"sentence"}, known |-> TRUE],
     [deferred |-> {"single"}, known |-> TRUE],
     [deferred |-> {}, known |-> FALSE]}

Learner == INSTANCE Learning WITH
    text <- words, causes <- mixed, Pair <- Learned, None <- NoPair

ASSUME PartsAssumption ==
    Buffer!KeyAssumption /\ Search!CallAssumption /\ Learner!NoneAssumption /\ Learner!TaskAssumption

Symmetry == Permutations(Searchers) \cup Permutations(Learned)

PartsInit ==
    /\ part \in {"buffer", "search", "learner"}
    /\ Buffer!Init /\ Search!Init /\ Learner!Init

PartsNext ==
    \/ part = "buffer" /\ Buffer!Next /\ UNCHANGED <<part, searching, learning>>
    \/ part = "search" /\ Search!Next /\ UNCHANGED <<part, typing, learning>>
    \/ part = "learner" /\ Learner!Next /\ UNCHANGED <<part, typing, searching>>

Parts == PartsInit /\ [][PartsNext]_<<part, typing, searching, learning>>

-----------------------------------------------------------------------------
(* The properties of the parts, each stated and explained in its module    *)

(* Letters are neither lost, doubled nor swapped, nor does the program end *)
(* but for the races named, none of which a user who waits can meet.       *)
BufferKept ==
    part = "buffer" =>
        /\ Buffer!TypeOK
        /\ Buffer!NothingLost /\ Buffer!InOrder
        /\ Buffer!CandidatesFit /\ Buffer!TrapsRace /\ Buffer!PatienceHelps

(* A call that is not disturbed returns what is there for its letters, and *)
(* leaves nothing behind.                                                  *)
SearchRight ==
    part = "search" =>
        /\ Search!TypeOK
        /\ Search!CandidatesFit /\ Search!NothingMissing /\ Search!CacheIsEmpty

(* A pair has one row, weighed by how often it was learned, and a deletion *)
(* takes out what it deletes, but for the causes named.                    *)
LearnedRight ==
    part = "learner" =>
        Learner!TypeOK /\ Learner!OneRow /\ Learner!CountsRight /\ Learner!UndoesTheLast

=============================================================================
