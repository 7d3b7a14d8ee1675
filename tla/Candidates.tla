------------------------------ MODULE Candidates ------------------------------
(***************************************************************************)
(* How candidates are found for the typed letters (InputDelegate.swift,    *)
(* QuanpinStrategy.swift).  getCandidates puts the letters where its       *)
(* queries find them, asks for words itself, leaves long sentences and     *)
(* single characters to blocks, waits for these for a while, collects what *)
(* is in resultCache and clears it.  It is called on the queue of the keys *)
(* and on the main queue, and nothing keeps the two apart; a block that    *)
(* was not waited for long enough goes on with whatever is there by then.  *)
(*                                                                         *)
(* The letters of each call are told apart by its number.  A candidate is  *)
(* the number of the letters it was found for and the part that found it.  *)
(* resultCache orders all accesses by barriers, so each is one step.  The  *)
(* letters and the syllables made of them count as one.  Left out: capital *)
(* letters, and the settings that switch a part off.                       *)
(***************************************************************************)
EXTENDS Integers, FiniteSets

CONSTANTS
    Queues,  \* the queues it is called on
    Kinds,   \* the kinds of calls: what is left to blocks, and whether anything is found
    MaxCall  \* bound: calls of getCandidates

Deferred == {"sentence", "single"}

CallAssumption ==
    /\ Kinds \subseteq [deferred : SUBSET Deferred, known : BOOLEAN]
    /\ MaxCall \in Nat \ {0}

VARIABLES
    calls,    \* how many calls there were
    about,    \* what each call is for
    input,    \* inputBuffer
    act,      \* what each of the two queues is at
    blocks,   \* the blocks of the group
    cache,    \* resultCache
    kept,     \* candidateCache
    emptied,  \* the calls there had been when the buffer was last empty
    returned, \* the last call to return, and its candidates
    ever      \* blocks have been late, or calls abreast, before

vars == <<calls, about, input, act, blocks, cache, kept, emptied, returned, ever>>

Calls   == 1..MaxCall
Slots   == {"sentence", "words", "single"} \* 10, 1 to 4 and 0
Parts   == Slots \cup {"others"}           \* English words, emoji and the user's own table
Found   == Calls \X Parts
Idle    == [pc |-> "idle", call |-> 0, got |-> {}, trouble |-> {}]

Troubles == {"abreast",  \* the other queue was at it as well
             "late",     \* a block outlived the wait of its call
             "dirty",    \* the cache was not empty at the beginning
             "slow"}     \* a query took too long

TypeOK ==
    /\ calls \in 0..MaxCall /\ input \in 0..MaxCall /\ emptied \in 0..MaxCall
    /\ about \in [Calls -> [deferred : SUBSET Deferred, known : BOOLEAN]]
    /\ \A q \in Queues :
        /\ act[q].pc \in {"idle", "words", "defer", "wait", "read", "clear", "finish"}
        /\ act[q].call \in 0..MaxCall /\ act[q].got \subseteq Found
        /\ act[q].trouble \subseteq Troubles
    /\ blocks \subseteq [call : Calls, part : Deferred, got : SUBSET Found, begun : BOOLEAN]
    /\ cache \in [Slots -> SUBSET Found]
    /\ kept \subseteq Found
    /\ returned.call \in 0..MaxCall /\ returned.got \subseteq Found
    /\ ever \subseteq {"abreast", "late"}

Init ==
    /\ calls = 0 /\ input = 0 /\ emptied = 0
    /\ about = [n \in Calls |-> [deferred |-> {}, known |-> FALSE]]
    /\ act = [q \in Queues |-> Idle]
    /\ blocks = {} /\ cache = [s \in Slots |-> {}] /\ kept = {}
    /\ returned = [call |-> 0, got |-> {}, trouble |-> {}, since |-> 0] /\ ever = {}

-----------------------------------------------------------------------------
(* Helpers                                                                 *)

At(q, pc)   == act[q].pc = pc
Go(q, new)  == act' = [act EXCEPT ![q] = new]
Busy        == {q \in Queues : ~At(q, "idle")}
Then(q, pc) == Go(q, [act[q] EXCEPT !.pc = pc])

(* What a part finds for the letters that are in place.                    *)
Query(part) == IF input # 0 /\ about[input].known THEN {<<input, part>>} ELSE {}

shared == <<calls, about, emptied>>

-----------------------------------------------------------------------------
(* getCandidates                                                           *)

(* The letters have changed, or the user scrolls for more.                 *)
Begin(q) ==
    /\ At(q, "idle") /\ calls < MaxCall
    /\ calls' = calls + 1
    /\ \E a \in Kinds : about' = [about EXCEPT ![calls + 1] = a]
    /\ input' = calls + 1
    /\ LET both == Busy \ {q} # {}
           trouble == {t \in Troubles : \/ t = "abreast" /\ both
                                        \/ t = "late" /\ blocks # {}
                                        \/ t = "dirty" /\ \E s \in Slots : cache[s] # {}}
       IN  /\ act' = [p \in Queues |->
                        IF p = q THEN [Idle EXCEPT !.pc = "words", !.call = calls + 1, !.trouble = trouble]
                        ELSE IF p \in Busy THEN [act[p] EXCEPT !.trouble = @ \cup {"abreast"}] ELSE act[p]]
           /\ ever' = ever \cup (trouble \ {"dirty"})
    /\ UNCHANGED <<blocks, cache, kept, emptied, returned>>

(* Mutant: the candidates stay.                                            *)
EmptyOnly(q) ==
    /\ At(q, "idle") /\ emptied # calls
    /\ emptied' = calls
    /\ act' = [p \in Queues |-> IF p \in Busy THEN [act[p] EXCEPT !.trouble = @ \cup {"abreast"}] ELSE act[p]]
    /\ ever' = IF Busy = {} THEN ever ELSE ever \cup {"abreast"}
    /\ UNCHANGED <<calls, about, input, blocks, cache, kept, returned>>

(* Mutant: the next call is taken for the last.                            *)
EmptyAhead(q) ==
    /\ At(q, "idle") /\ emptied # calls
    /\ kept' = {} /\ emptied' = calls + 1
    /\ UNCHANGED <<calls, about, input, act, blocks, cache, returned, ever>>

(* The buffer has become empty: no candidates are kept for it.             *)
Empty(q) ==
    /\ At(q, "idle") /\ emptied # calls
    /\ kept' = {} /\ emptied' = calls
    /\ act' = [p \in Queues |-> IF p \in Busy THEN [act[p] EXCEPT !.trouble = @ \cup {"abreast"}] ELSE act[p]]
    /\ ever' = IF Busy = {} THEN ever ELSE ever \cup {"abreast"}
    /\ UNCHANGED <<calls, about, input, blocks, cache, returned>>

(* getSubResult waits half a second for its queries, which read the        *)
(* letters when they run, and gives up all of them if one is late.         *)
Words(q) ==
    /\ At(q, "words")
    /\ \/ cache' = [cache EXCEPT !["words"] = Query("words")] /\ Then(q, "defer")
       \/ /\ cache' = [cache EXCEPT !["words"] = {}]
          /\ Go(q, [act[q] EXCEPT !.pc = "defer", !.trouble = @ \cup {"slow"}])
    /\ UNCHANGED <<shared, input, blocks, kept, returned, ever>>

(* Long sentences and single characters are left to blocks.                *)
Defer(q) ==
    /\ At(q, "defer")
    /\ blocks' = blocks \cup {[call |-> act[q].call, part |-> p, got |-> {}, begun |-> FALSE] :
                                p \in about[act[q].call].deferred}
    /\ Then(q, "wait")
    /\ UNCHANGED <<shared, input, cache, kept, returned, ever>>

(* Mutant: does not wait for blocks that have begun.                       *)
WaitedBegun(q) ==
    /\ At(q, "wait") /\ \A b \in blocks : b.begun
    /\ Then(q, "read")
    /\ UNCHANGED <<shared, input, blocks, cache, kept, returned, ever>>

(* The group has nothing left to do, be it of this call or of another.     *)
Waited(q) ==
    /\ At(q, "wait") /\ blocks = {}
    /\ Then(q, "read")
    /\ UNCHANGED <<shared, input, blocks, cache, kept, returned, ever>>

(* 0.8 seconds are over.                                                   *)
TimeOut(q) ==
    /\ At(q, "wait") /\ blocks # {}
    /\ Go(q, [act[q] EXCEPT !.pc = "read", !.trouble = @ \cup {"late"}])
    /\ ever' = ever \cup {"late"}
    /\ UNCHANGED <<shared, input, blocks, cache, kept, returned>>

(* Everything in the cache, whoever put it there.                          *)
Read(q) ==
    /\ At(q, "read")
    /\ Go(q, [act[q] EXCEPT !.pc = "clear", !.got = UNION {cache[s] : s \in Slots}])
    /\ UNCHANGED <<shared, input, blocks, cache, kept, returned, ever>>

(* Mutant: single characters are left.                                     *)
ClearMost(q) ==
    /\ At(q, "clear")
    /\ cache' = [cache EXCEPT !["sentence"] = {}, !["words"] = {}]
    /\ Then(q, "finish")
    /\ UNCHANGED <<shared, input, blocks, kept, returned, ever>>

(* getCandidates clears the cache when getResult has returned.             *)
Clear(q) ==
    /\ At(q, "clear")
    /\ cache' = [s \in Slots |-> {}]
    /\ Then(q, "finish")
    /\ UNCHANGED <<shared, input, blocks, kept, returned, ever>>

(* English words, emoji and the user's table, for the letters that are     *)
(* there by now.  If nothing was found at all, the last candidates stay.   *)
Finish(q) ==
    /\ At(q, "finish")
    /\ LET all == act[q].got \cup Query("others")
           got == IF all = {} THEN kept ELSE all
       IN  /\ kept' = got
           /\ returned' = [call |-> act[q].call, got |-> got, trouble |-> act[q].trouble, since |-> emptied]
    /\ Go(q, Idle)
    /\ UNCHANGED <<shared, input, blocks, cache, ever>>

-----------------------------------------------------------------------------
(* The blocks                                                              *)

(* The letters are read when the block runs, or it is late itself; single  *)
(* characters are added to those that are in the cache.                    *)
Run(b) ==
    /\ ~b.begun
    /\ \E got \in {Query(b.part)} \cup (IF b.part = "sentence" THEN {{}} ELSE {}) :
        /\ blocks' = (blocks \ {b}) \cup
                       {[b EXCEPT !.begun = TRUE,
                                  !.got = IF b.part = "single" THEN cache["single"] \cup got ELSE got]}
        /\ LET slow == got # Query(b.part)
           IN  act' = [q \in Queues |-> IF slow /\ act[q].call = b.call
                                       THEN [act[q] EXCEPT !.trouble = @ \cup {"slow"}] ELSE act[q]]
    /\ UNCHANGED <<shared, input, cache, kept, returned, ever>>

(* What the block has found is put in the cache.                           *)
Leave(b) ==
    /\ b.begun
    /\ cache' = [cache EXCEPT ![b.part] = b.got]
    /\ blocks' = blocks \ {b}
    /\ UNCHANGED <<shared, input, act, kept, returned, ever>>

-----------------------------------------------------------------------------

Step(q) == \/ Words(q) \/ Defer(q) \/ Waited(q) \/ TimeOut(q) \/ Read(q) \/ Clear(q) \/ Finish(q)

Next ==
    \/ \E q \in Queues : Begin(q) \/ Empty(q) \/ Step(q)
    \/ \E b \in blocks : Run(b) \/ Leave(b)

Spec == Init /\ [][Next]_vars

-----------------------------------------------------------------------------
(* Properties                                                              *)

Letters(got) == {c[1] : c \in got}

(* A call that nothing has disturbed returns candidates for its own        *)
(* letters; if there are none, those of the last letters that had some, if *)
(* the buffer was not empty in between.                                    *)
CandidatesFit ==
    returned.call # 0 /\ returned.trouble \ {"slow"} = {} =>
        \/ Letters(returned.got) \subseteq {returned.call}
        \/ /\ Letters(returned.got) \subseteq (returned.since + 1)..(returned.call - 1) \/ ever # {}
           /\ ~about[returned.call].known \/ returned.trouble = {"slow"}

(* It returns what every part has found.                                   *)
NothingMissing ==
    returned.call # 0 /\ returned.trouble = {} /\ about[returned.call].known =>
        returned.got = {<<returned.call, p>> : p \in {"words", "others"} \cup about[returned.call].deferred}

(* Between the calls the cache is empty, unless a block was late: even     *)
(* calls that overlap leave nothing behind.                                *)
CacheIsEmpty ==
    (\A q \in Queues : At(q, "idle")) /\ blocks = {} /\ (\E s \in Slots : cache[s] # {}) =>
        "late" \in ever

=============================================================================
