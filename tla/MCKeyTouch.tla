----------------------------- MODULE MCKeyTouch -----------------------------
(***************************************************************************)
(* What fingers touch: the keys (KeyTouch) and the list of syllables       *)
(* beside the nine keys (PinyinSelector, with the digits 53424 and with    *)
(* digits whose shortest first syllable begins neither list).  The list is *)
(* a view of its own, and neither model has a variable of the other, so    *)
(* one part moves while the other stays as it began.                       *)
(***************************************************************************)
EXTENDS KeyTouch, Sequences

VARIABLES
    part, \* the part that moves
    digits, cached, pinyin, lists, index, shown, reloads, act, keys, chosen, last, upset,
    untouched

beside == <<digits, cached, pinyin, lists, index, shown, reloads, act, keys, chosen, last,
            upset, untouched>>

Digits == {1, 2}

Widths == <<2, 2, 3, 3, 2, 3, 3, 1>>

Cuts ==
    <<[front |-> <<<<3, 4>>, <<5>>>>, back |-> <<<<1, 2>>, <<6, 7>>>>, first |-> <<3, 4, 1, 2>>],
      [front |-> <<<<6, 7>>, <<8>>>>, back |-> <<<<8>>, <<4>>>>, first |-> <<6, 7, 1>>]>>

Selector == INSTANCE PinyinSelector WITH
    buffer <- digits, taps <- chosen, causes <- upset,
    Buffers <- Digits, Lists <- Cuts, Width <- Widths, Length <- <<5, 4>>, Think <- 3,
    MaxKey <- 3, MaxTap <- 2

ASSUME PartsAssumption == Selector!ListAssumption

PartsInit == part \in {"keys", "selector"} /\ Init /\ Selector!Init

PartsNext ==
    \/ part = "keys" /\ Next /\ UNCHANGED <<part, beside>>
    \/ part = "selector" /\ Selector!Next /\ UNCHANGED <<part, vars>>

Parts == PartsInit /\ [][PartsNext]_<<part, vars, beside>>

-----------------------------------------------------------------------------
(* The properties of the keys are those of KeyTouch; those of the list are *)
(* stated and explained in PinyinSelector.                                 *)

(* A tap takes what its row shows, and what is looked up is for the digits *)
(* in the buffer, but for the causes named.                                *)
TableRight ==
    part = "selector" =>
        /\ Selector!TypeOK /\ Selector!TakesWhatIsShown /\ Selector!TrapsNeedCause
        /\ Selector!PinyinFits /\ Selector!StartsAfresh /\ Selector!ShownIsCurrent

=============================================================================
