------------------------------ MODULE Learning ------------------------------
(***************************************************************************)
(* The associations between words that the keyboard learns                 *)
(* (Database+Think.swift): a table of pairs with a count each.  Every      *)
(* word entered is learned, and a deletion right after takes a new pair    *)
(* out again.  Either takes several statements of the database, each on    *)
(* the serial queue of FMDB, and they are issued from any thread of the    *)
(* global queue: the statements of two operations mix.                     *)
(*                                                                         *)
(* A pair stands for the hash of the text before the word and the word;    *)
(* words are one character long, so that one deletion takes one back.  No  *)
(* two pairs have the same word, so that taking a word out for good, which *)
(* the code does by the word alone, takes out one pair.                    *)
(***************************************************************************)
EXTENDS Integers, Sequences, SequencesExt, FiniteSets, FiniteSetsExt

CONSTANTS
    Pair,   \* the pairs learned
    None,   \* no pair
    MaxTask \* bound: words entered and deletions

NoneAssumption == None \notin Pair
TaskAssumption == MaxTask \in Nat

VARIABLES
    rows,     \* the table "Think": from row ids to pairs and counts
    flag,     \* thinkDBCanRemoveLast
    tasks,    \* the operations begun
    text,     \* the words in the text field, each the operation that learns it
    evidence, \* history: how often each pair was learned and not taken back
    hits,     \* history: what each removal was for and what it changed
    causes    \* what may have gone wrong so far

vars == <<rows, flag, tasks, text, evidence, hits, causes>>

RowIds == 1..MaxTask
Row    == [pair : Pair, count : -MaxTask..MaxTask]

Causes == {"hurried", \* a word was entered while another was being learned,
           "twice",   \* one of the same pair
           "mixed",   \* something was taken out while another operation was under way
           "older",   \* a deletion took back a word that was known, or none
           "taken"}   \* or one whose pair was no more in the table

Pcs == {"find", "update", "insert", "flag", "guard", "max", "count", "change", "clear", "done"}

TypeOK ==
    /\ DOMAIN rows \subseteq RowIds /\ \A r \in DOMAIN rows : rows[r] \in Row
    /\ flag \in BOOLEAN
    /\ DOMAIN tasks = 1..Len(tasks) /\ Len(tasks) <= MaxTask
    /\ \A t \in DOMAIN tasks :
        /\ tasks[t].pc \in Pcs /\ tasks[t].pair \in Pair \cup {None} /\ tasks[t].row \in RowIds \cup {0}
        /\ tasks[t].count \in -MaxTask..MaxTask /\ tasks[t].main \in BOOLEAN
        /\ tasks[t].of \in 0..MaxTask
    /\ text \in Seq(DOMAIN tasks)
    /\ evidence \in [Pair -> Int]
    /\ \A h \in hits : h.pair \in Pair /\ h.wanted \in Pair \cup {None}
    /\ causes \subseteq Causes

Init ==
    /\ rows = <<>> /\ flag = FALSE /\ tasks = <<>> /\ text = <<>>
    /\ evidence = [p \in Pair |-> 0] /\ hits = {} /\ causes = {}

-----------------------------------------------------------------------------
(* Helpers                                                                 *)

Task(pc, pair, of, main) ==
    [pc |-> pc, pair |-> pair, of |-> of, row |-> 0, count |-> 0, main |-> main]
Learner(pair)   == Task("find", pair, 0, FALSE)
Remover(of, main) ==
    Task("guard", IF of = 0 THEN None ELSE tasks[of].pair, of, main)
Start(task)   == Len(tasks) < MaxTask /\ tasks' = Append(tasks, task)
At(t, pc)     == tasks[t].pc = pc
Then(t, pc)   == tasks' = [tasks EXCEPT ![t].pc = pc]
MainFree      == \A t \in DOMAIN tasks : tasks[t].main => At(t, "done")
RowsOf(pair)  == {r \in DOMAIN rows : rows[r].pair = pair}
LastRow       == IF DOMAIN rows = {} THEN 0 ELSE Max(DOMAIN rows)
Without(some) == [r \in DOMAIN rows \ some |-> rows[r]]
Under       == {t \in DOMAIN tasks : ~At(t, "done")}
Learns(t)   == tasks'[t].of = 0 /\ tasks'[t].pair # None
Hurried(pair) ==
    LET under == {t \in Under : Learns(t)} IN
    {c \in {"hurried"} : under # {}}
    \cup {c \in {"twice"} : \E t \in under : tasks[t].pair = pair}

(* Of a removal, or of anything begun while one is under way               *)
Mixed == {c \in {"mixed"} : Under # {} /\ \E t \in Under \cup {Len(tasks')} : ~Learns(t)}

Older(t) ==
    LET of == tasks[t].of IN
    {c \in {"older"} : of = 0 \/ tasks[of].row # 0}
    \cup {c \in {"taken"} : of # 0 /\ RowsOf(tasks[of].pair) = {}}

-----------------------------------------------------------------------------
(* The user                                                                *)

(* insertText: the word is learned behind the scenes.                      *)
InsertText(pair) ==
    /\ MainFree /\ Start(Learner(pair))
    /\ text' = Append(text, Len(tasks'))
    /\ causes' = causes \cup Mixed \cup Hurried(pair)
    /\ UNCHANGED <<rows, flag, evidence, hits>>

(* The delete key, with no letters typed                                   *)
Delete ==
    /\ MainFree /\ Start(Remover(IF text = <<>> THEN 0 ELSE Last(text), FALSE))
    /\ text' = IF text = <<>> THEN text ELSE Front(text)
    /\ causes' = causes \cup Mixed
    /\ UNCHANGED <<rows, flag, evidence, hits>>

(* doTraceback, on the main queue: of a word, or of letters that were      *)
(* cleared and never were a word                                           *)
DoTraceback ==
    /\ MainFree
    /\ \/ /\ text # <<>> /\ Start(Remover(Last(text), TRUE)) /\ text' = Front(text)
       \/ /\ Start(Remover(0, TRUE)) /\ UNCHANGED text
    /\ causes' = causes \cup Mixed
    /\ UNCHANGED <<rows, flag, evidence, hits>>

(* removeFromThinkDB: the user takes a candidate out for good.             *)
RemoveFromThinkDB(pair) ==
    /\ MainFree /\ RowsOf(pair) # {}
    /\ rows' = Without(RowsOf(pair))
    /\ evidence' = [evidence EXCEPT ![pair] = 0]
    /\ causes' = causes \cup {c \in {"mixed"} : Under # {}}
    /\ UNCHANGED <<flag, tasks, text, hits>>

-----------------------------------------------------------------------------
(* updateThinkDB                                                           *)

(* Mutant: only the last row is looked at.                                 *)
FindLast(t) ==
    /\ At(t, "find")
    /\ LET found == RowsOf(tasks[t].pair) \cap {LastRow} IN
       IF found = {} THEN Then(t, "insert")
       ELSE \E r \in found : tasks' = [tasks EXCEPT ![t].pc = "update", ![t].row = r]
    /\ UNCHANGED <<rows, flag, text, evidence, hits, causes>>

GetThinkDBRowId(t) ==
    /\ At(t, "find")
    /\ LET found == RowsOf(tasks[t].pair) IN
       IF found = {} THEN Then(t, "insert")
       ELSE \E r \in found : tasks' = [tasks EXCEPT ![t].pc = "update", ![t].row = r]
    /\ UNCHANGED <<rows, flag, text, evidence, hits, causes>>

(* The count of the row with that id, whatever it is by now                *)
Update(t) ==
    LET r == tasks[t].row
        p == tasks[t].pair
    IN
    /\ At(t, "update") /\ Then(t, "done")
    /\ rows' = IF r \in DOMAIN rows THEN [rows EXCEPT ![r].count = @ + 1] ELSE rows
    /\ evidence' = [evidence EXCEPT ![p] = @ + 1]
    /\ UNCHANGED <<flag, text, hits, causes>>

(* Mutant: a new row takes the place of the last.                          *)
InsertLast(t) ==
    /\ At(t, "insert") /\ Then(t, "flag")
    /\ rows' = [r \in DOMAIN rows \cup {LastRow} |->
                  IF r = LastRow THEN [pair |-> tasks[t].pair, count |-> 0] ELSE rows[r]]
    /\ evidence' = [evidence EXCEPT ![tasks[t].pair] = @ + 1]
    /\ UNCHANGED <<flag, text, hits, causes>>

(* A new row gets the id after the last.                                   *)
Insert(t) ==
    /\ At(t, "insert") /\ Then(t, "flag")
    /\ rows' = [r \in DOMAIN rows \cup {LastRow + 1} |->
                  IF r = LastRow + 1 THEN [pair |-> tasks[t].pair, count |-> 0] ELSE rows[r]]
    /\ evidence' = [evidence EXCEPT ![tasks[t].pair] = @ + 1]
    /\ UNCHANGED <<flag, text, hits, causes>>

SetFlag(t) ==
    /\ At(t, "flag") /\ Then(t, "done")
    /\ flag' = TRUE
    /\ UNCHANGED <<rows, text, evidence, hits, causes>>

-----------------------------------------------------------------------------
(* tryRemoveNewThink                                                       *)

Guard(t) ==
    /\ At(t, "guard") /\ Then(t, IF flag THEN "max" ELSE "done")
    /\ causes' = causes \cup (IF flag THEN Older(t) ELSE {})
    /\ UNCHANGED <<rows, flag, text, evidence, hits>>

(* Mutant: the first row is taken for the last.                            *)
MinRowId(t) ==
    /\ At(t, "max")
    /\ tasks' = [tasks EXCEPT ![t].row = IF DOMAIN rows = {} THEN 0 ELSE Min(DOMAIN rows),
                              ![t].pc = IF LastRow > 0 THEN "count" ELSE "done"]
    /\ UNCHANGED <<rows, flag, text, evidence, hits, causes>>

MaxRowId(t) ==
    /\ At(t, "max")
    /\ tasks' = [tasks EXCEPT ![t].row = LastRow, ![t].pc = IF LastRow > 0 THEN "count" ELSE "done"]
    /\ UNCHANGED <<rows, flag, text, evidence, hits, causes>>

Count(t) ==
    LET r == tasks[t].row IN
    /\ At(t, "count")
    /\ tasks' = [tasks EXCEPT ![t].pc = "change",
                    ![t].count = IF r \in DOMAIN rows THEN rows[r].count ELSE 0]
    /\ UNCHANGED <<rows, flag, text, evidence, hits, causes>>

(* Mutant: the row goes, whatever its count.                               *)
DeleteRow(t) ==
    LET r == tasks[t].row IN
    /\ At(t, "change") /\ Then(t, "clear")
    /\ IF r \notin DOMAIN rows
       THEN UNCHANGED <<rows, evidence, hits>>
       ELSE LET p == rows[r].pair IN
            /\ rows' = Without({r})
            /\ evidence' = [evidence EXCEPT ![p] = @ - 1]
            /\ hits' = hits \cup {[pair |-> p, wanted |-> tasks[t].pair]}
    /\ UNCHANGED <<flag, text, causes>>

(* One is taken off the count, or the row deleted.                         *)
Change(t) ==
    LET r == tasks[t].row IN
    /\ At(t, "change") /\ Then(t, "clear")
    /\ IF r \notin DOMAIN rows
       THEN UNCHANGED <<rows, evidence, hits>>
       ELSE LET p == rows[r].pair IN
            /\ rows' = IF tasks[t].count > 0 THEN [rows EXCEPT ![r].count = @ - 1] ELSE Without({r})
            /\ evidence' = [evidence EXCEPT ![p] = @ - 1]
            /\ hits' = hits \cup {[pair |-> p, wanted |-> tasks[t].pair]}
    /\ UNCHANGED <<flag, text, causes>>

ClearFlag(t) ==
    /\ At(t, "clear") /\ Then(t, "done")
    /\ flag' = FALSE
    /\ UNCHANGED <<rows, text, evidence, hits, causes>>

-----------------------------------------------------------------------------
Step(t) ==
    \/ GetThinkDBRowId(t) \/ Update(t) \/ Insert(t) \/ SetFlag(t)
    \/ Guard(t) \/ MaxRowId(t) \/ Count(t) \/ Change(t) \/ ClearFlag(t)

Next ==
    \/ Delete \/ DoTraceback
    \/ \E p \in Pair : InsertText(p) \/ RemoveFromThinkDB(p)
    \/ \E t \in DOMAIN tasks : Step(t)

Spec == Init /\ [][Next]_vars

-----------------------------------------------------------------------------
(* Properties                                                              *)

Unless(some) == causes \cap some # {}
Quiet        == \A t \in DOMAIN tasks : At(t, "done")

(* No pair has two rows, although no statement both looks and inserts.     *)
OneRow == Unless({"twice"}) \/ \A p \in Pair : Cardinality(RowsOf(p)) <= 1

(* The table weighs each pair by how often it was learned and not taken    *)
(* back, and no count falls below zero.                                    *)
CountsRight ==
    \/ Unless({"mixed"})
    \/ \A p \in Pair : MapThenSumSet(LAMBDA r : rows[r].count + 1, RowsOf(p)) = evidence[p]
       /\ \A r \in DOMAIN rows : rows[r].count >= 0

(* A deletion takes out what it deletes: the row with the last id is that  *)
(* of the word deleted.                                                    *)
UndoesTheLast ==
    Unless({"older", "taken", "hurried", "mixed"}) \/ \A h \in hits : h.pair = h.wanted

=============================================================================
