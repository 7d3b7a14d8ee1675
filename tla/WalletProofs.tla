---------------------------- MODULE WalletProofs ----------------------------
(***************************************************************************)
(* Theorems about the wallet stores (WalletStore) and the page that sends  *)
(* tokens (SendToken), as MCWallet runs them: for any number of wallets,   *)
(* edits and starts no wallet, key, edit or password is lost, and for any  *)
(* number of payments, edits and estimates what is sent is what the page   *)
(* showed, each but for the causes the properties name.                    *)
(*                                                                         *)
(* The invariant WalletInv says, beside what is to be proved, where each   *)
(* wallet is while an operation is between two of its writes (JobInv,      *)
(* ListInv), that copies of a wallet held by a page or an operation are    *)
(* not out of date (DateInv, RecoverInv), and that what a new wallet       *)
(* brings with it is not yet known anywhere (FreshInv).                    *)
(*                                                                         *)
(* The invariant PayInv follows a payment from the tap to the status       *)
(* (SendInv), says which of two payments knows of the other (PairInv), and *)
(* that an estimate that is outstanding alone, or in use, is for what the  *)
(* page would send (AskInv, FitInv).                                       *)
(***************************************************************************)
EXTENDS MCWallet, SequenceTheorems, FiniteSetTheorems, WellFoundedInduction, TLAPS

(* The bounds are natural numbers.                                         *)
LEMMA BoundsGiven == Store!BoundAssumption
BY PartsAssumption

USE BoundsGiven

-----------------------------------------------------------------------------
(* The invariant                                                           *)

(* Every copy of a wallet: in the list, in use, on the page that switches  *)
(* wallets; and with it that of the operation under way (Mine).            *)
Elems(s) == {s[i] : i \in 1..Len(s)}
Others == Elems(list) \cup Elems(wallet) \cup Elems(switcher.wallets) \cup Elems(switcher.currentUW)
Copies == Others \cup Elems(job.wallet)
Jobs == {"none", "migrate", "listed", "cleared", "save", "append", "recover", "rename", "select"}
Mine == job.wallet[1]

(* The types, those of the operation under way and of the page spelled     *)
(* out; a page that is open shows a wallet, and a password is only set for *)
(* a wallet in use.                                                        *)
StoreTypes ==
    /\ Store!TypeOK
    /\ job \in [kind : Jobs, wallet : Store!BoundedSeq(Store!UserWallet, 1)]
    /\ switcher \in [wallets : Seq(Store!UserWallet), currentUW : Store!BoundedSeq(Store!UserWallet, 1)]
    /\ (job.kind = "none") <=> (job.wallet = <<>>)
    /\ Store!Opened => switcher.currentUW # <<>> /\ Store!HasCurrent
    /\ setting # {} => Store!HasCurrent

(* What is under way fits what is stored: an old wallet is brought over    *)
(* first, and other operations need a wallet in use.                       *)
JobInv ==
    /\ ~running => job = Store!Idle /\ switcher = Store!Closed /\ setting = {}
    /\ job.kind \in {"migrate", "listed"} => old = 3 /\ Mine = Store!OldWallet
    /\ job.kind = "listed" => Store!HasCurrent
    /\ job.kind = "cleared" => old > 0 /\ Mine = Store!OldWallet /\ Store!HasCurrent /\ Store!Current.id = 0
    /\ running /\ old = 3 => job.kind \in {"migrate", "listed", "cleared"}
    /\ job.kind \in {"rename", "recover", "select", "append"} => Store!HasCurrent
    /\ job.kind = "select" => Store!Opened
    /\ job.kind = "rename" => switcher = Store!Closed /\ Store!Current = Mine
    /\ job.kind \in {"migrate", "listed", "cleared"} => switcher = Store!Closed /\ setting = {}

(* Until the old wallet is brought over nothing else is there.             *)
OldInv == old = 3 =>
    /\ made = 0 /\ switcher = Store!Closed /\ setting = {} /\ saved[0] = <<Store!OldWallet>>
    /\ \A u \in Copies : u = Store!OldWallet
    /\ job.kind # "cleared" /\ Store!Spared(0, {"killed"}) => list = <<>>

(* Numbers of wallets and passwords that were not given out are nowhere,   *)
(* and a wallet that is being made is not in the list yet.                 *)
FreshInv ==
    /\ \A u \in Copies : u.id <= made /\ (u.pwd <= made \/ u.pwd = Store!OldPwd)
    /\ setting \subseteq 1..made
    /\ \A w \in Store!Id : w > made => saved[w] = <<>> /\ keychain[w] = 0
    /\ job.kind \in {"save", "append"} =>
        /\ Mine.id = made /\ Mine.pwd = made /\ made > 0
        /\ \A u \in Elems(list) \cup Elems(switcher.wallets) \cup Elems(switcher.currentUW) :
            u.id # made /\ u.pwd # made
    /\ job.kind = "save" => /\ saved[made] = <<>> /\ keychain[made] = 0
                            /\ \A u \in Elems(wallet) : u.id # made /\ u.pwd # made
    /\ job.kind = "append" => wallet = job.wallet /\ saved[made] = job.wallet
    /\ \A u \in Others : saved[u.id] # <<>>
    /\ job.kind \notin {"save", "none"} => saved[Mine.id] # <<>>

(* No wallet is twice in the list if no kill broke into its operation.     *)
Distinct == \A w \in Store!Id : Store!Spared(w, {"killed"})
    => \A i, j \in 1..Len(list) : list[i].id = w /\ list[j].id = w => i = j

(* A wallet the user saw saved is in the list, in use, or still to be      *)
(* brought over.                                                           *)
ListInv ==
    /\ Distinct
    /\ Store!HasCurrent /\ job.kind # "append" /\ ~Store!Unmigrated(Store!Current.id) /\ Store!Spared(Store!Current.id, {"killed"})
       => Store!Listed(Store!Current)
    /\ \A w \in Store!Id : saved[w] # <<>> /\ Store!Spared(w, {"killed"})
        => (\E i \in 1..Len(list) : list[i].id = w) \/ (Store!HasCurrent /\ Store!Current.id = w) \/ Store!Unmigrated(w)
    /\ \A u \in Elems(switcher.wallets) : Store!Listed(u)
    /\ job.kind = "cleared" => Store!Listed(Store!OldWallet)
    /\ job.kind = "select" => Store!Listed(Mine)

(* The list has u as it is.                                                *)
Brought(u) == \A i \in 1..Len(list) : Store!Same(list[i], u) => list[i] = u

(* What a recovery is about to write differs from the wallet in use only   *)
(* if the recovery is to blame.                                            *)
RecoverInv == job.kind = "recover" =>
    /\ Mine.id = Store!Current.id /\ Mine.tokens = 0
    /\ Store!Current.tokens # 0 => "emptied" \in blame[Mine.id]
    /\ Mine.key # Store!Current.key => "replaced" \in blame[Mine.id]

(* Before the wallet in use is replaced, the list has it as it is: else    *)
(* its edits would be lost with it.                                        *)
DateInv == Store!HasCurrent /\ Store!Spared(Store!Current.id, {"killed", "snapshot"}) =>
    /\ job.kind \in {"save", "select"} => Brought(Store!Current)
    /\ Store!Opened /\ job.kind # "recover" => Brought(Store!Current) \/ switcher.currentUW = wallet
    /\ job.kind = "recover" => Brought(Mine)

(* Every copy has the key that was saved, unless a recovery replaced it.   *)
KeyInv == \A w \in Store!Id : saved[w] # <<>> /\ Store!Spared(w, {"replaced"})
    => \A u \in Copies : u.id = w => u.key = saved[w][1].key

(* Every copy has the password of the keychain, but for the causes named;  *)
(* one that is still to be kept is known to its own wallet only.           *)
NewPassword(p) == p \in setting \/ (job.kind \in {"save", "append"} /\ p = Mine.pwd)
PasswordInv ==
    /\ \A p \in 1..MaxMake : NewPassword(p) =>
        \A u \in Copies : /\ u.pwd = p => u.id = p
                          /\ u.id = p /\ Store!Spared(p, {"renewed"}) => u.pwd = p
    /\ \A w \in Store!Id : keychain[w] # 0 /\ Store!Spared(w, {"renewed", "switched"})
        => \A u \in Copies : u.id = w => u.pwd = keychain[w]
    /\ old = 3 => keychain[0] \in {0, Store!OldPwd}

-----------------------------------------------------------------------------
(* The list and sequences of one element                                   *)

(* What is somewhere in a sequence has a first place.                      *)
LEMMA LeastIndex ==
    ASSUME NEW s, NEW w, \E i \in 1..Len(s) : s[i].id = w, Len(s) \in Nat
    PROVE  \E i \in 1..Len(s) : s[i].id = w /\ \A j \in 1..i - 1 : s[j].id # w
<1>. DEFINE T == {i \in 1..Len(s) : s[i].id = w}
<1>1. T \in SUBSET Nat /\ T # {}
  OBVIOUS
<1>2. PICK x \in T : \A y \in T : ~ (<<y, x>> \in OpToRel(<, Nat))
  BY <1>1, NatLessThanWellFounded, WFMin
<1>3. \A y \in T : ~ (y < x)
  BY <1>1, <1>2 DEF OpToRel
<1>. QED
  BY <1>3

(* A sequence of at most one element is empty or has one.                  *)
LEMMA BoundedIs ==
    ASSUME NEW S
    PROVE  \A s : s \in Store!BoundedSeq(S, 1) <=> s = <<>> \/ \E x \in S : s = <<x>>
<1>. SUFFICES ASSUME NEW s
     PROVE s \in Store!BoundedSeq(S, 1) <=> s = <<>> \/ \E x \in S : s = <<x>>
  OBVIOUS
<1>1. Store!BoundedSeq(S, 1) = [1..0 -> S] \cup [1..1 -> S]
  <2>1. 0..1 = {0, 1}
    OBVIOUS
  <2>2. Store!BoundedSeq(S, 1) = UNION {[1..m -> S] : m \in {0, 1}}
    BY <2>1 DEF Store!BoundedSeq, Store!SeqOf
  <2>3. UNION {[1..m -> S] : m \in {0, 1}} = [1..0 -> S] \cup [1..1 -> S]
    OBVIOUS
  <2>. QED
    BY <2>2, <2>3
<1>2. s \in [1..0 -> S] <=> s = <<>>
  <2>1. ASSUME s \in [1..0 -> S] PROVE s = <<>>
    <3>1. s \in Seq(S)
      BY <2>1, SeqDef
    <3>2. Len(s) = 0
      BY <2>1, <3>1, LenProperties
    <3>. QED
      BY <3>1, <3>2, EmptySeq
  <2>2. <<>> \in [1..0 -> S]
    <3>1. <<>> \in Seq(S) /\ Len(<<>>) = 0
      OBVIOUS
    <3>2. <<>> \in [1..Len(<<>>) -> S]
      BY <3>1, LenProperties
    <3>. QED
      BY <3>1, <3>2
  <2>. QED
    BY <2>1, <2>2
<1>3. s \in [1..1 -> S] <=> \E x \in S : s = <<x>>
  <2>1. ASSUME s \in [1..1 -> S] PROVE s[1] \in S /\ s = <<s[1]>>
    BY <2>1
  <2>2. ASSUME NEW x \in S PROVE <<x>> \in [1..1 -> S]
    OBVIOUS
  <2>. QED
    BY <2>1, <2>2
<1>. QED
  BY <1>1, <1>2, <1>3

(* The list after a wallet was brought up to date in it                    *)
LEMMA UpdateIs ==
    ASSUME NEW u \in Store!UserWallet, list \in Seq(Store!UserWallet), Store!UpdateWalletInList(u)
    PROVE  /\ list' \in Seq(Store!UserWallet) /\ Len(list') = Len(list)
           /\ \A i \in 1..Len(list) :
               /\ list'[i].id = list[i].id
               /\ list'[i] = list[i] \/ (list'[i] = u /\ list[i].id = u.id)
           /\ (\A i, j \in 1..Len(list) : list[i].id = u.id /\ list[j].id = u.id => i = j)
              => \A i \in 1..Len(list) : list[i].id = u.id => list'[i] = u
           /\ Elems(list') \subseteq Elems(list) \cup {u}
<1>. Len(list) \in Nat
  BY LenProperties
<1>1. CASE Store!Listed(u)
  <2>. DEFINE k == Store!FirstIndex(u)
  <2>1. \E i \in 1..Len(list) : list[i].id = u.id /\ \A j \in 1..i - 1 : list[j].id # u.id
    BY <1>1, LeastIndex DEF Store!Listed, Store!Same
  <2>2. k \in 1..Len(list) /\ list[k].id = u.id
    BY <2>1 DEF Store!FirstIndex, Store!Same
  <2>3. list' = [list EXCEPT ![k] = u]
    BY <1>1 DEF Store!UpdateWalletInList
  <2>. HIDE DEF k
  <2>4. list' \in Seq(Store!UserWallet) /\ Len(list') = Len(list)
    BY <2>2, <2>3
  <2>5. \A i \in 1..Len(list) : list'[i] = IF i = k THEN u ELSE list[i]
    BY <2>2, <2>3
  <2>6. Elems(list') \subseteq Elems(list) \cup {u}
    BY <2>4, <2>5 DEF Elems
  <2>. QED
    BY <2>2, <2>4, <2>5, <2>6
<1>2. CASE ~Store!Listed(u)
  <2>1. list' = list
    BY <1>2 DEF Store!UpdateWalletInList
  <2>. QED
    BY <2>1, <1>2 DEF Elems, Store!Listed, Store!Same
<1>. QED
  BY <1>1, <1>2

(* The list after a wallet was put behind it.                              *)
LEMMA AppendIs ==
    ASSUME NEW u \in Store!UserWallet, list \in Seq(Store!UserWallet), Store!AddNewWallet(u)
    PROVE  /\ list' \in Seq(Store!UserWallet) /\ Len(list') = Len(list) + 1 /\ Len(list) \in Nat
           /\ \A i \in 1..Len(list) : list'[i] = list[i]
           /\ list'[Len(list) + 1] = u
           /\ Elems(list') = Elems(list) \cup {u}
<1>1. /\ list' \in Seq(Store!UserWallet) /\ Len(list') = Len(list) + 1 /\ Len(list) \in Nat
      /\ \A i \in 1..Len(list) : list'[i] = list[i]
      /\ list'[Len(list) + 1] = u
  BY DEF Store!AddNewWallet
<1>2. Elems(list') = Elems(list) \cup {u}
  BY <1>1 DEF Elems
<1>. QED
  BY <1>1, <1>2

(* The elements of a sequence of at most one.                              *)
LEMMA OneElem ==
    /\ Elems(<<>>) = {}
    /\ \A x : Elems(<<x>>) = {x}
BY DEF Elems

(* The old wallet is one.                                                  *)
LEMMA IdIs == 0 \in Store!Id /\ Store!OldWallet \in Store!UserWallet /\ Store!OldWallet.id = 0 /\ Store!OldWallet.key = 0 /\ Store!OldWallet.pwd = Store!OldPwd
              /\ Len(Store!OldKeys) = 3
BY DEF Store!Id, Store!OldWallet, Store!UserWallet, Store!OldPwd, Store!OldKeys, Store!BoundAssumption

(* A wallet is its fields.                                                 *)
LEMMA FieldsIs ==
    \A u \in Store!UserWallet :
        /\ u.id \in Store!Id /\ u.key \in Store!Id /\ u.pwd \in 1..MaxMake + 1
        /\ u.tokens \in 0..MaxEdit /\ u.name \in 0..MaxEdit
        /\ u = [id |-> u.id, key |-> u.key, pwd |-> u.pwd, tokens |-> u.tokens, name |-> u.name]
BY DEF Store!UserWallet

(* What is in use, or under way, is one wallet or none.                    *)
LEMMA OneIs ==
    /\ <<>> \in Store!BoundedSeq(Store!UserWallet, 1) /\ \A u \in Store!UserWallet : <<u>> \in Store!BoundedSeq(Store!UserWallet, 1)
    /\ \A s \in Store!BoundedSeq(Store!UserWallet, 1) : s # <<>> => s[1] \in Store!UserWallet /\ s = <<s[1]>>
BY BoundedIs

(* The wallets at hand, typed.                                             *)
LEMMA MineIs ==
    ASSUME StoreTypes
    PROVE  /\ job.kind # "none" => Mine \in Store!UserWallet /\ job.wallet = <<Mine>>
           /\ Store!HasCurrent => Store!Current \in Store!UserWallet /\ wallet = <<Store!Current>>
           /\ Store!Opened => switcher.currentUW[1] \in Store!UserWallet /\ switcher.currentUW = <<switcher.currentUW[1]>>
           /\ switcher.wallets \in Seq(Store!UserWallet) /\ list \in Seq(Store!UserWallet)
           /\ (job = Store!Idle) <=> (job.kind = "none")
<1>1. /\ job.wallet \in Store!BoundedSeq(Store!UserWallet, 1) /\ wallet \in Store!BoundedSeq(Store!UserWallet, 1)
      /\ switcher.currentUW \in Store!BoundedSeq(Store!UserWallet, 1)
      /\ (job.kind = "none") <=> (job.wallet = <<>>)
      /\ Store!Opened => switcher.currentUW # <<>>
      /\ switcher.wallets \in Seq(Store!UserWallet) /\ list \in Seq(Store!UserWallet)
      /\ job = [kind |-> job.kind, wallet |-> job.wallet]
  BY DEF StoreTypes, Store!TypeOK
<1>2. (job = Store!Idle) <=> (job.kind = "none")
  <2>1. job = Store!Idle => job.kind = "none"
    BY DEF Store!Idle
  <2>2. job.kind = "none" => job = Store!Idle
    BY <1>1 DEF Store!Idle
  <2>. QED
    BY <2>1, <2>2
<1>3. job.kind # "none" => Mine \in Store!UserWallet /\ job.wallet = <<Mine>>
  BY <1>1, OneIs DEF Mine
<1>4. Store!HasCurrent => Store!Current \in Store!UserWallet /\ wallet = <<Store!Current>>
  BY <1>1, OneIs DEF Store!HasCurrent, Store!Current
<1>5. Store!Opened => switcher.currentUW[1] \in Store!UserWallet /\ switcher.currentUW = <<switcher.currentUW[1]>>
  BY <1>1, OneIs
<1>. QED
  BY <1>1, <1>2, <1>3, <1>4, <1>5

-----------------------------------------------------------------------------
(* Types                                                                   *)

(* The types in parts: a step disturbs few of them.                        *)
Counters == /\ old \in 0..Len(Store!OldKeys) /\ running \in BOOLEAN
            /\ made \in 0..MaxMake /\ changes \in 0..MaxEdit /\ starts \in 0..MaxStart
            /\ setting \subseteq 1..MaxMake
WalletTypes  == wallet \in Store!BoundedSeq(Store!UserWallet, 1) /\ list \in Seq(Store!UserWallet)
JobType  == /\ job \in [kind : Jobs, wallet : Store!BoundedSeq(Store!UserWallet, 1)]
            /\ (job.kind = "none") <=> (job.wallet = <<>>)
PageType == switcher \in [wallets : Seq(Store!UserWallet), currentUW : Store!BoundedSeq(Store!UserWallet, 1)]
Histories == /\ keychain \in [Store!Id -> 0..Store!OldPwd]
             /\ saved \in [Store!Id -> Store!BoundedSeq(Store!UserWallet, 1)] /\ blame \in [Store!Id -> SUBSET Store!Causes]
Present  == (Store!Opened => switcher.currentUW # <<>> /\ Store!HasCurrent) /\ (setting # {} => Store!HasCurrent)

LEMMA TypeParts == StoreTypes <=> Counters /\ WalletTypes /\ JobType /\ PageType /\ Histories /\ Present
<1>1. StoreTypes => Counters /\ WalletTypes /\ JobType /\ PageType /\ Histories /\ Present
  BY DEF StoreTypes, Store!TypeOK, Counters, WalletTypes, JobType, PageType, Histories, Present
<1>2. JobType => /\ job.wallet \in Store!BoundedSeq(Store!UserWallet, 1)
                 /\ job.kind \in {"none", "migrate", "listed", "cleared", "save", "append",
                     "recover", "rename", "select"}
  BY DEF JobType, Jobs
<1>3. PageType => switcher.wallets \in Seq(Store!UserWallet) /\ switcher.currentUW \in Store!BoundedSeq(Store!UserWallet, 1)
  BY DEF PageType
<1>4. ASSUME Counters, WalletTypes, JobType, PageType, Histories, Present PROVE StoreTypes
  <2>1. Store!TypeOK
    BY <1>2, <1>3, <1>4 DEF Store!TypeOK, Counters, WalletTypes, Histories
  <2>. QED
    BY <2>1, <1>4 DEF StoreTypes, JobType, PageType, Present
<1>. QED
  BY <1>1, <1>4

LEMMA PartTypes ==
    ASSUME StoreTypes
    PROVE  /\ old \in 0..3 /\ made \in 0..MaxMake /\ changes \in 0..MaxEdit /\ starts \in 0..MaxStart
           /\ setting \subseteq 1..MaxMake /\ MaxMake \in Nat /\ MaxEdit \in Nat
           /\ list \in Seq(Store!UserWallet) /\ switcher.wallets \in Seq(Store!UserWallet)
           /\ Len(list) \in Nat /\ Len(switcher.wallets) \in Nat
           /\ \A i \in 1..Len(list) : list[i] \in Store!UserWallet
           /\ \A i \in 1..Len(switcher.wallets) : switcher.wallets[i] \in Store!UserWallet
           /\ keychain \in [Store!Id -> 0..Store!OldPwd]
           /\ saved \in [Store!Id -> Store!BoundedSeq(Store!UserWallet, 1)] /\ blame \in [Store!Id -> SUBSET Store!Causes]
           /\ job = [kind |-> job.kind, wallet |-> job.wallet]
           /\ switcher = [wallets |-> switcher.wallets, currentUW |-> switcher.currentUW]
<1>1. Counters /\ WalletTypes /\ JobType /\ PageType /\ Histories
  BY TypeParts
<1>2. switcher.wallets \in Seq(Store!UserWallet) /\ switcher = [wallets |-> switcher.wallets, currentUW |-> switcher.currentUW]
  BY <1>1 DEF PageType
<1>3. \A s \in Seq(Store!UserWallet) : Len(s) \in Nat /\ \A i \in 1..Len(s) : s[i] \in Store!UserWallet
  BY LenProperties, ElementOfSeq
<1>. QED
  BY <1>1, <1>2, <1>3, IdIs DEF Counters, WalletTypes, JobType, Histories, Store!BoundAssumption

(* What a step may do to what is under way                                 *)
LEMMA JobStep == StoreTypes /\ [Store!Next]_(Store!vars) => JobType'
<1>. SUFFICES ASSUME StoreTypes, [Store!Next]_(Store!vars) PROVE JobType'
  OBVIOUS
<1>1. JobType
  BY TypeParts
<1>2. job' = job => JobType'
  BY <1>1 DEF JobType
<1>3. job' = Store!Idle => JobType'
  BY OneIs DEF JobType, Store!Idle, Jobs
<1>4. ASSUME NEW u \in Store!UserWallet, NEW k \in Jobs \ {"none"}, job' = [kind |-> k, wallet |-> <<u>>]
      PROVE  JobType'
  BY <1>4, OneIs DEF JobType
<1>. HIDE DEF JobType
<1>5. /\ job.kind # "none" => Mine \in Store!UserWallet
      /\ Store!HasCurrent => Store!Current \in Store!UserWallet
      /\ switcher.wallets \in Seq(Store!UserWallet)
  BY MineIs
<1>6. /\ MaxMake \in Nat /\ made \in 0..MaxMake /\ changes \in 0..MaxEdit /\ Store!OldWallet \in Store!UserWallet
      /\ MaxEdit \in Nat
  BY IdIs, TypeParts DEF Counters, Store!BoundAssumption
<1>7. \A id \in Store!Id, key \in Store!Id, name \in 0..MaxEdit :
        made < MaxMake => Store!NewWallet(id, key, name) \in Store!UserWallet
  BY <1>6 DEF Store!NewWallet, Store!UserWallet, Store!Id
<1>8. \A n \in 0..MaxEdit : Store!HasCurrent => [Store!Current EXCEPT !.name = n] \in Store!UserWallet
  BY <1>5 DEF Store!UserWallet
<1>9. {"listed", "cleared", "append", "recover", "rename", "select", "save", "migrate"} \subseteq Jobs \ {"none"}
  BY DEF Jobs
<1>11. CASE Store!Launch
  BY <1>11, <1>3, <1>4, <1>6, <1>9 DEF Store!Launch
<1>12. CASE Store!MigrateCurrent
  BY <1>12, <1>4, <1>5, <1>9 DEF Store!MigrateCurrent, Store!Then, Mine
<1>13. CASE Store!MigrateList
  BY <1>13, <1>4, <1>5, <1>9 DEF Store!MigrateList, Store!Then, Mine
<1>14. CASE Store!SaveWalletInfo
  <2>1. made + 1 \in Store!Id /\ 0 \in 0..MaxEdit /\ made < MaxMake
    BY <1>14, <1>6 DEF Store!SaveWalletInfo, Store!Id
  <2>. QED
    BY <1>14, <2>1, <1>4, <1>7, <1>9 DEF Store!SaveWalletInfo, Store!Then
<1>15. CASE Store!SaveCurrent
  BY <1>15, <1>4, <1>5, <1>9 DEF Store!SaveCurrent, Store!Then, Mine
<1>16. CASE Store!Recover
  <2>1. made + 1 \in Store!Id /\ made < MaxMake /\ Store!HasCurrent
    BY <1>16, <1>6 DEF Store!Recover, Store!Id
  <2>2. Store!Current.id \in Store!Id /\ Store!Current.key \in Store!Id /\ Store!Current.name \in 0..MaxEdit
    BY <2>1, <1>5, FieldsIs
  <2>3. PICK key \in {Store!Current.key, made + 1} : Store!Then("recover", Store!NewWallet(Store!Current.id, key, Store!Current.name))
    BY <1>16 DEF Store!Recover
  <2>. QED
    BY <2>1, <2>2, <2>3, <1>4, <1>7, <1>9 DEF Store!Then
<1>17. CASE Store!Rename
  <2>1. changes + 1 \in 0..MaxEdit /\ Store!HasCurrent
    BY <1>17, <1>6 DEF Store!Rename
  <2>. QED
    BY <1>17, <2>1, <1>4, <1>8, <1>9 DEF Store!Rename, Store!Then
<1>18. CASE Store!SelectWallet
  <2>1. PICK i \in 1..Len(switcher.wallets) :
            IF Store!Same(switcher.wallets[i], switcher.currentUW[1]) THEN UNCHANGED job ELSE Store!Then("select", switcher.wallets[i])
    BY <1>18 DEF Store!SelectWallet
  <2>2. switcher.wallets[i] \in Store!UserWallet
    BY <1>5, ElementOfSeq
  <2>. QED
    BY <2>1, <2>2, <1>2, <1>4, <1>9 DEF Store!Then
<1>19. CASE Store!Kill \/ Store!ClearOldKey \/ Store!SaveAppend \/ Store!RecoverCurrent \/ Store!RenameList \/ Store!SelectCurrent
  <2>1. job' = job \/ job' = Store!Idle
    BY <1>19 DEF Store!Kill, Store!ClearOldKey, Store!SaveAppend, Store!RecoverCurrent, Store!RenameList, Store!SelectCurrent
  <2>. QED
    BY <2>1, <1>2, <1>3
<1>20. CASE Store!KeepPassword \/ Store!SaveEnabledContract \/ Store!OpenSwitcher \/ Store!LeaveSwitcher \/ UNCHANGED Store!vars
  <2>1. job' = job
    BY <1>20 DEF Store!KeepPassword, Store!SaveEnabledContract, Store!OpenSwitcher, Store!LeaveSwitcher, Store!vars
  <2>. QED
    BY <2>1, <1>2
<1>. QED
  BY <1>11, <1>12, <1>13, <1>14, <1>15, <1>16, <1>17, <1>18, <1>19, <1>20 DEF Store!Next

LEMMA CounterStep == StoreTypes /\ JobInv /\ FreshInv /\ [Store!Next]_(Store!vars) => Counters'
<1>. SUFFICES ASSUME StoreTypes, JobInv, FreshInv, [Store!Next]_(Store!vars) PROVE Counters'
  OBVIOUS
<1>1. /\ old \in 0..3 /\ running \in BOOLEAN /\ made \in 0..MaxMake /\ changes \in 0..MaxEdit
      /\ starts \in 0..MaxStart /\ setting \subseteq 1..MaxMake
      /\ MaxMake \in Nat /\ MaxEdit \in Nat /\ MaxStart \in Nat
  BY TypeParts, IdIs DEF Counters, Store!BoundAssumption
<1>2. old' \in 0..3
  <2>1. old' = old \/ (job.kind = "cleared" /\ old' = old - 1)
    BY DEF Store!Next, Store!vars, Store!Launch, Store!MigrateCurrent, Store!MigrateList, Store!ClearOldKey, Store!SaveWalletInfo, Store!SaveCurrent,
       Store!SaveAppend, Store!KeepPassword, Store!Recover, Store!RecoverCurrent, Store!SaveEnabledContract, Store!Rename, Store!RenameList,
       Store!OpenSwitcher, Store!LeaveSwitcher, Store!SelectWallet, Store!SelectCurrent, Store!Kill
  <2>. QED
    BY <1>1, <2>1 DEF JobInv
<1>3. running' \in BOOLEAN
  BY <1>1 DEF Store!Next, Store!vars, Store!Launch, Store!MigrateCurrent, Store!MigrateList, Store!ClearOldKey, Store!SaveWalletInfo, Store!SaveCurrent,
       Store!SaveAppend, Store!KeepPassword, Store!Recover, Store!RecoverCurrent, Store!SaveEnabledContract, Store!Rename, Store!RenameList,
       Store!OpenSwitcher, Store!LeaveSwitcher, Store!SelectWallet, Store!SelectCurrent, Store!Kill
<1>4. made' \in 0..MaxMake /\ changes' \in 0..MaxEdit /\ starts' \in 0..MaxStart
  <2>1. /\ made' = made \/ (made < MaxMake /\ made' = made + 1)
        /\ changes' = changes \/ (changes < MaxEdit /\ changes' = changes + 1)
        /\ starts' = starts \/ (starts < MaxStart /\ starts' = starts + 1)
    BY DEF Store!Next, Store!vars, Store!bounds, Store!Launch, Store!MigrateCurrent, Store!MigrateList, Store!ClearOldKey, Store!SaveWalletInfo, Store!SaveCurrent,
       Store!SaveAppend, Store!KeepPassword, Store!Recover, Store!RecoverCurrent, Store!SaveEnabledContract, Store!Rename, Store!RenameList,
       Store!OpenSwitcher, Store!LeaveSwitcher, Store!SelectWallet, Store!SelectCurrent, Store!Kill
  <2>. QED
    BY <1>1, <2>1
<1>5. setting' \subseteq 1..MaxMake
  <2>1. setting' \subseteq setting \/ (job.kind = "append" /\ setting' = setting \cup {Mine.pwd})
    BY DEF Store!Next, Store!vars, Store!Launch, Store!MigrateCurrent, Store!MigrateList, Store!ClearOldKey, Store!SaveWalletInfo, Store!SaveCurrent, Mine,
       Store!SaveAppend, Store!KeepPassword, Store!Recover, Store!RecoverCurrent, Store!SaveEnabledContract, Store!Rename, Store!RenameList,
       Store!OpenSwitcher, Store!LeaveSwitcher, Store!SelectWallet, Store!SelectCurrent, Store!Kill
  <2>2. job.kind = "append" => Mine.pwd = made /\ made > 0
    BY DEF FreshInv
  <2>3. job.kind = "append" => Mine.pwd \in 1..MaxMake
    BY <1>1, <2>2
  <2>. QED
    BY <1>1, <2>1, <2>3
<1>. QED
  BY <1>2, <1>3, <1>4, <1>5, IdIs DEF Counters

(* An edited wallet is a wallet.                                           *)
LEMMA EditedIs ==
    ASSUME StoreTypes, Store!HasCurrent, changes < MaxEdit
    PROVE  /\ [Store!Current EXCEPT !.tokens = changes + 1] \in Store!UserWallet
           /\ [Store!Current EXCEPT !.name = changes + 1] \in Store!UserWallet
<1>1. Store!Current \in Store!UserWallet /\ changes + 1 \in 0..MaxEdit
  BY MineIs, TypeParts DEF Counters, Store!BoundAssumption
<1>. QED
  BY <1>1 DEF Store!UserWallet

(* A new wallet is one.                                                    *)
LEMMA NewIs ==
    ASSUME StoreTypes, made < MaxMake
    PROVE  /\ Store!NewWallet(made + 1, made + 1, 0) \in Store!UserWallet
           /\ Store!HasCurrent => \A key \in {Store!Current.key, made + 1} :
                Store!NewWallet(Store!Current.id, key, Store!Current.name) \in Store!UserWallet
           /\ \A id, key, name : /\ Store!NewWallet(id, key, name).id = id /\ Store!NewWallet(id, key, name).key = key
                                 /\ Store!NewWallet(id, key, name).pwd = made + 1
                                 /\ Store!NewWallet(id, key, name).tokens = 0
<1>1. made \in 0..MaxMake /\ MaxMake \in Nat /\ MaxEdit \in Nat
  BY TypeParts DEF Counters, Store!BoundAssumption
<1>2. made + 1 \in Store!Id /\ 0 \in 0..MaxEdit /\ made + 1 \in 1..MaxMake + 1
  BY <1>1 DEF Store!Id
<1>3. Store!HasCurrent => Store!Current.id \in Store!Id /\ Store!Current.key \in Store!Id /\ Store!Current.name \in 0..MaxEdit
  BY MineIs, FieldsIs
<1>. QED
  BY <1>2, <1>3 DEF Store!NewWallet, Store!UserWallet

LEMMA WalletsStep == StoreTypes /\ JobInv /\ [Store!Next]_(Store!vars) => WalletTypes'
<1>. SUFFICES ASSUME StoreTypes, JobInv, [Store!Next]_(Store!vars) PROVE WalletTypes'
  OBVIOUS
<1>1. /\ list \in Seq(Store!UserWallet) /\ wallet \in Store!BoundedSeq(Store!UserWallet, 1)
      /\ job.kind # "none" => Mine \in Store!UserWallet
      /\ Store!HasCurrent => Store!Current \in Store!UserWallet
      /\ Store!Opened => switcher.currentUW[1] \in Store!UserWallet
  BY MineIs, TypeParts DEF WalletTypes
<1>2. wallet' = wallet \/ (\E u \in Store!UserWallet : wallet' = <<u>>)
  <2>1. CASE Store!MigrateCurrent \/ Store!SaveCurrent \/ Store!RecoverCurrent \/ Store!SelectCurrent
    BY <2>1, <1>1 DEF Store!MigrateCurrent, Store!SaveCurrent, Store!RecoverCurrent, Store!SelectCurrent, Store!SetCurrentWallet, Mine
  <2>2. CASE Store!SaveEnabledContract \/ Store!Rename
    BY <2>2, EditedIs DEF Store!SaveEnabledContract, Store!Rename, Store!SetCurrentWallet
  <2>3. CASE \/ Store!Launch \/ Store!MigrateList \/ Store!ClearOldKey \/ Store!SaveWalletInfo \/ Store!SaveAppend \/ Store!KeepPassword \/ Store!Recover
             \/ Store!RenameList \/ Store!OpenSwitcher \/ Store!LeaveSwitcher \/ Store!SelectWallet \/ Store!Kill \/ UNCHANGED Store!vars
    BY <2>3 DEF Store!Launch, Store!MigrateList, Store!ClearOldKey, Store!SaveWalletInfo, Store!SaveAppend, Store!KeepPassword, Store!Recover,
             Store!RenameList, Store!OpenSwitcher, Store!LeaveSwitcher, Store!SelectWallet, Store!Kill, Store!vars, Store!stores
  <2>. QED
    BY <2>1, <2>2, <2>3 DEF Store!Next
<1>3. list' \in Seq(Store!UserWallet)
  <2>1. list' = list \/ (\E u \in Store!UserWallet : Store!UpdateWalletInList(u)) \/ (\E u \in Store!UserWallet : Store!AddNewWallet(u))
    <3>1. CASE Store!MigrateList \/ Store!SaveAppend \/ Store!RenameList
      BY <3>1, <1>1 DEF Store!MigrateList, Store!SaveAppend, Store!RenameList, Mine
    <3>2. CASE Store!SaveWalletInfo
      BY <3>2, <1>1 DEF Store!SaveWalletInfo
    <3>3. CASE Store!Recover
      <4>1. made < MaxMake /\ Store!HasCurrent
        BY <3>3 DEF Store!Recover
      <4>2. PICK key \in {Store!Current.key, made + 1} : Store!UpdateWalletInList(Store!NewWallet(Store!Current.id, key, Store!Current.name))
        BY <3>3 DEF Store!Recover
      <4>. QED
        BY <4>1, <4>2, NewIs
    <3>4. CASE Store!SelectWallet
      BY <3>4, <1>1 DEF Store!SelectWallet
    <3>5. CASE \/ Store!Launch \/ Store!MigrateCurrent \/ Store!ClearOldKey \/ Store!SaveCurrent \/ Store!KeepPassword \/ Store!RecoverCurrent
               \/ Store!SaveEnabledContract \/ Store!Rename \/ Store!OpenSwitcher \/ Store!LeaveSwitcher \/ Store!SelectCurrent \/ Store!Kill
               \/ UNCHANGED Store!vars
      BY <3>5 DEF Store!Launch, Store!MigrateCurrent, Store!ClearOldKey, Store!SaveCurrent, Store!KeepPassword, Store!RecoverCurrent,
               Store!SaveEnabledContract, Store!Rename, Store!OpenSwitcher, Store!LeaveSwitcher, Store!SelectCurrent, Store!Kill, Store!vars, Store!stores
    <3>. QED
      BY <3>1, <3>2, <3>3, <3>4, <3>5 DEF Store!Next
  <2>. QED
    BY <1>1, <2>1, UpdateIs, AppendIs
<1>. QED
  BY <1>1, <1>2, <1>3, OneIs DEF WalletTypes

LEMMA PageStep == StoreTypes /\ JobInv /\ [Store!Next]_(Store!vars) => PageType'
<1>. SUFFICES ASSUME StoreTypes, JobInv, [Store!Next]_(Store!vars) PROVE PageType'
  OBVIOUS
<1>1. PageType /\ list \in Seq(Store!UserWallet) /\ wallet \in Store!BoundedSeq(Store!UserWallet, 1)
      /\ (job.kind # "none" => Mine \in Store!UserWallet)
  BY MineIs, TypeParts DEF WalletTypes
<1>2. switcher' = switcher \/ switcher' = Store!Closed => PageType'
  <2>1. <<>> \in Seq(Store!UserWallet)
    BY EmptySeq
  <2>2. switcher' = switcher => PageType'
    BY <1>1 DEF PageType
  <2>3. switcher' = Store!Closed => PageType'
    BY <2>1, OneIs DEF PageType, Store!Closed
  <2>. QED
    BY <2>2, <2>3
<1>3. CASE Store!OpenSwitcher
  BY <1>3, <1>1 DEF Store!OpenSwitcher, PageType
<1>4. CASE Store!SelectCurrent
  BY <1>4, <1>1, OneIs DEF Store!SelectCurrent, PageType, Mine
<1>5. CASE \/ Store!Launch \/ Store!MigrateCurrent \/ Store!MigrateList \/ Store!ClearOldKey \/ Store!SaveWalletInfo \/ Store!SaveCurrent
           \/ Store!SaveAppend \/ Store!KeepPassword \/ Store!Recover \/ Store!RecoverCurrent \/ Store!SaveEnabledContract \/ Store!Rename
           \/ Store!RenameList \/ Store!LeaveSwitcher \/ Store!SelectWallet \/ Store!Kill \/ UNCHANGED Store!vars
  <2>1. switcher' = switcher \/ switcher' = Store!Closed
    BY <1>5 DEF Store!Launch, Store!MigrateCurrent, Store!MigrateList, Store!ClearOldKey, Store!SaveWalletInfo, Store!SaveCurrent,
           Store!SaveAppend, Store!KeepPassword, Store!Recover, Store!RecoverCurrent, Store!SaveEnabledContract, Store!Rename,
           Store!RenameList, Store!LeaveSwitcher, Store!SelectWallet, Store!Kill, Store!vars
  <2>. QED
    BY <2>1, <1>2
<1>. QED
  BY <1>3, <1>4, <1>5 DEF Store!Next

LEMMA HistoryStep == StoreTypes /\ JobInv /\ [Store!Next]_(Store!vars) => Histories'
<1>. SUFFICES ASSUME StoreTypes, JobInv, [Store!Next]_(Store!vars) PROVE Histories'
  OBVIOUS
<1>1. Histories /\ setting \subseteq 1..MaxMake /\ MaxMake \in Nat
      /\ (job.kind # "none" => Mine \in Store!UserWallet /\ Mine.id \in Store!Id)
      /\ (Store!HasCurrent => Store!Current \in Store!UserWallet /\ Store!Current.id \in Store!Id)
      /\ (Store!Opened => switcher.currentUW[1].id \in Store!Id)
      /\ (setting # {} => Store!HasCurrent)
  BY MineIs, FieldsIs, TypeParts DEF Counters, Present, Store!BoundAssumption
<1>2. keychain' \in [Store!Id -> 0..Store!OldPwd]
  <2>1. CASE Store!KeepPassword
    BY <2>1, <1>1 DEF Store!KeepPassword, Histories, Store!OldPwd
  <2>2. CASE ~Store!KeepPassword
    BY <2>2, <1>1 DEF Store!Next, Store!vars, Store!stores, Store!Launch, Store!MigrateCurrent, Store!MigrateList, Store!ClearOldKey, Store!SaveWalletInfo,
       Store!SaveCurrent, Store!SaveAppend, Store!Recover, Store!RecoverCurrent, Store!SaveEnabledContract, Store!Rename, Store!RenameList,
       Store!OpenSwitcher, Store!LeaveSwitcher, Store!SelectWallet, Store!SelectCurrent, Store!Kill, Histories
  <2>. QED
    BY <2>1, <2>2
<1>3. saved' \in [Store!Id -> Store!BoundedSeq(Store!UserWallet, 1)]
  <2>1. saved' = saved \/ \E u \in Store!UserWallet : saved' = [saved EXCEPT ![u.id] = <<u>>]
    <3>1. CASE Store!SaveCurrent
      BY <3>1, <1>1 DEF Store!SaveCurrent, Mine
    <3>2. CASE Store!RecoverCurrent
      <4>. DEFINE v == [Mine EXCEPT !.tokens = Store!Current.tokens]
      <4>1. Mine \in Store!UserWallet /\ Store!Current \in Store!UserWallet
        BY <3>2, <1>1 DEF Store!RecoverCurrent, JobInv
      <4>2. v \in Store!UserWallet /\ v.id = Mine.id
        BY <4>1 DEF Store!UserWallet
      <4>3. saved' = [saved EXCEPT ![Mine.id] = <<v>>]
        BY <3>2 DEF Store!RecoverCurrent, Mine
      <4>. QED
        BY <4>2, <4>3
    <3>3. CASE Store!SaveEnabledContract \/ Store!Rename
      BY <3>3, EditedIs DEF Store!SaveEnabledContract, Store!Rename
    <3>4. CASE ~(Store!SaveCurrent \/ Store!RecoverCurrent \/ Store!SaveEnabledContract \/ Store!Rename)
      BY <3>4 DEF Store!Next, Store!vars, Store!Launch, Store!MigrateCurrent, Store!MigrateList, Store!ClearOldKey, Store!SaveWalletInfo,
       Store!SaveAppend, Store!KeepPassword, Store!Recover, Store!RenameList,
       Store!OpenSwitcher, Store!LeaveSwitcher, Store!SelectWallet, Store!SelectCurrent, Store!Kill
    <3>. QED
      BY <3>1, <3>2, <3>3, <3>4
  <2>2. \A u \in Store!UserWallet : <<u>> \in Store!BoundedSeq(Store!UserWallet, 1)
    BY OneIs
  <2>. QED
    BY <2>1, <2>2, <1>1 DEF Histories
<1>4. blame' \in [Store!Id -> SUBSET Store!Causes]
  <2>1. blame' = blame \/ \E w \in Store!Id, C \in SUBSET Store!Causes : Store!Blame(w, C)
    <3>1. CASE Store!KeepPassword
      BY <3>1, <1>1 DEF Store!KeepPassword, Store!If, Store!Causes, Store!Blame
    <3>2. CASE Store!Recover
      <4>1. PICK key \in {Store!Current.key, made + 1} : LET u == Store!NewWallet(Store!Current.id, key, Store!Current.name) IN
               Store!Blame(u.id, Store!If("emptied", Store!Current.tokens # 0) \cup Store!If("replaced", Store!Current.key # key)
                       \cup Store!If("renewed", keychain[u.id] # 0 \/ setting # {}))
        BY <3>2 DEF Store!Recover
      <4>2. \E C \in SUBSET Store!Causes : Store!Blame(Store!Current.id, C)
        BY <4>1 DEF Store!If, Store!Causes, Store!NewWallet
      <4>. QED
        BY <4>2, <3>2, <1>1 DEF Store!Recover
    <3>3. CASE Store!SelectWallet \/ Store!SelectCurrent
      <4>1. \E w \in Store!Id, b \in BOOLEAN : Store!Blame(w, Store!If("snapshot", b))
        BY <3>3, <1>1 DEF Store!SelectWallet, Store!SelectCurrent, Mine
      <4>. QED
        BY <4>1 DEF Store!If, Store!Causes
    <3>4. CASE Store!Kill
      BY <3>4, <1>1 DEF Store!Kill, Mine, Store!Causes
    <3>5. CASE ~(Store!KeepPassword \/ Store!Recover \/ Store!SelectWallet \/ Store!SelectCurrent \/ Store!Kill)
      BY <3>5 DEF Store!Next, Store!vars, Store!Launch, Store!MigrateCurrent, Store!MigrateList, Store!ClearOldKey, Store!SaveWalletInfo,
       Store!SaveCurrent, Store!SaveAppend, Store!RecoverCurrent, Store!SaveEnabledContract, Store!Rename, Store!RenameList,
       Store!OpenSwitcher, Store!LeaveSwitcher
    <3>. QED
      BY <3>1, <3>2, <3>3, <3>4, <3>5
  <2>. QED
    BY <2>1, <1>1 DEF Histories, Store!Blame
<1>. QED
  BY <1>2, <1>3, <1>4 DEF Histories

LEMMA PresentStep == StoreTypes /\ JobInv /\ [Store!Next]_(Store!vars) => Present'
<1>. SUFFICES ASSUME StoreTypes, JobInv, [Store!Next]_(Store!vars) PROVE Present'
  OBVIOUS
<1>1. /\ Store!Opened => switcher.currentUW # <<>> /\ Store!HasCurrent
      /\ setting # {} => Store!HasCurrent
      /\ switcher = [wallets |-> switcher.wallets, currentUW |-> switcher.currentUW]
  BY TypeParts, PartTypes DEF Present
<1>2. Store!HasCurrent => Store!HasCurrent'
  <2>1. wallet' = wallet \/ \E u : wallet' = <<u>>
    BY DEF Store!Next, Store!vars, Store!stores, Store!Launch, Store!MigrateCurrent, Store!MigrateList, Store!ClearOldKey, Store!SaveWalletInfo, Store!SaveCurrent,
       Store!SaveAppend, Store!KeepPassword, Store!Recover, Store!RecoverCurrent, Store!SaveEnabledContract, Store!Rename, Store!RenameList,
       Store!OpenSwitcher, Store!LeaveSwitcher, Store!SelectWallet, Store!SelectCurrent, Store!Kill, Store!SetCurrentWallet
  <2>2. \A u : <<u>> # <<>>
    OBVIOUS
  <2>. QED
    BY <2>1, <2>2 DEF Store!HasCurrent
<1>3. Store!Opened' => switcher'.currentUW # <<>> /\ Store!HasCurrent'
  <2>1. CASE Store!OpenSwitcher
    BY <2>1 DEF Store!OpenSwitcher, Store!HasCurrent, Store!stores
  <2>2. CASE Store!SelectCurrent
    <3>1. switcher'.currentUW = <<Mine>> /\ wallet' = <<Mine>>
      BY <2>2, <1>1 DEF Store!SelectCurrent, Store!SetCurrentWallet, Mine
    <3>. QED
      BY <3>1 DEF Store!HasCurrent
  <2>3. CASE ~(Store!OpenSwitcher \/ Store!SelectCurrent)
    <3>1. switcher' = switcher \/ switcher' = Store!Closed
      BY <2>3 DEF Store!Next, Store!vars, Store!Launch, Store!MigrateCurrent, Store!MigrateList, Store!ClearOldKey, Store!SaveWalletInfo, Store!SaveCurrent,
         Store!SaveAppend, Store!KeepPassword, Store!Recover, Store!RecoverCurrent, Store!SaveEnabledContract, Store!Rename,
         Store!RenameList, Store!LeaveSwitcher, Store!SelectWallet, Store!Kill
    <3>. QED
      BY <3>1, <1>1, <1>2 DEF Store!Opened
  <2>. QED
    BY <2>1, <2>2, <2>3
<1>4. setting' # {} => Store!HasCurrent'
  <2>1. setting' \subseteq setting \/ job.kind = "append"
    BY DEF Store!Next, Store!vars, Store!Launch, Store!MigrateCurrent, Store!MigrateList, Store!ClearOldKey, Store!SaveWalletInfo, Store!SaveCurrent,
       Store!SaveAppend, Store!KeepPassword, Store!Recover, Store!RecoverCurrent, Store!SaveEnabledContract, Store!Rename, Store!RenameList,
       Store!OpenSwitcher, Store!LeaveSwitcher, Store!SelectWallet, Store!SelectCurrent, Store!Kill
  <2>2. job.kind = "append" => Store!HasCurrent
    BY DEF JobInv
  <2>. QED
    BY <1>1, <1>2, <2>1, <2>2
<1>. QED
  BY <1>3, <1>4 DEF Present

LEMMA TypeStep == StoreTypes /\ JobInv /\ FreshInv /\ [Store!Next]_(Store!vars) => StoreTypes'
<1>. SUFFICES ASSUME StoreTypes, JobInv, FreshInv, [Store!Next]_(Store!vars) PROVE StoreTypes'
  OBVIOUS
<1>1. Counters' /\ WalletTypes' /\ JobType' /\ PageType' /\ Histories' /\ Present'
  BY CounterStep, WalletsStep, JobStep, PageStep, HistoryStep, PresentStep
<1>2. ASSUME Counters', WalletTypes', JobType', PageType', Histories', Present' PROVE StoreTypes'
  <2>1. JobType' => /\ job.wallet' \in Store!BoundedSeq(Store!UserWallet, 1)
                    /\ job.kind' \in {"none", "migrate", "listed", "cleared", "save", "append",
                     "recover", "rename", "select"}
    BY DEF JobType, Jobs
  <2>2. PageType' => switcher.wallets' \in Seq(Store!UserWallet) /\ switcher.currentUW' \in Store!BoundedSeq(Store!UserWallet, 1)
    BY DEF PageType
  <2>3. Store!TypeOK'
    BY <1>2, <2>1, <2>2 DEF Store!TypeOK, Counters, WalletTypes, Histories
  <2>. QED
    BY <2>3, <1>2 DEF StoreTypes, JobType, PageType, Present
<1>. QED
  BY <1>1, <1>2

(* Two ways of looking at what a step changes                              *)

-----------------------------------------------------------------------------
(* What a step does to the copies of wallets                               *)

(* The copies one by one.                                                  *)
CopyFacts ==
    /\ \A u \in Copies : u \in Store!UserWallet
    /\ Store!HasCurrent => Store!Current \in Others
    /\ Store!Opened => switcher.currentUW[1] \in Others
    /\ job.kind # "none" => Mine \in Copies
    /\ Others \subseteq Copies
    /\ Elems(list) \subseteq Others /\ Elems(switcher.wallets) \subseteq Others
    /\ Elems(wallet) = (IF Store!HasCurrent THEN {Store!Current} ELSE {})
    /\ Elems(switcher.currentUW) = (IF switcher.currentUW # <<>> THEN {switcher.currentUW[1]} ELSE {})
    /\ Elems(job.wallet) = (IF job.kind # "none" THEN {Mine} ELSE {})
    /\ \A i \in 1..Len(list) : list[i] \in Elems(list)
    /\ \A i \in 1..Len(switcher.wallets) : switcher.wallets[i] \in Elems(switcher.wallets)

LEMMA CopyIs == StoreTypes => CopyFacts
<1>. SUFFICES ASSUME StoreTypes PROVE CopyFacts
  OBVIOUS
<1>1. /\ list \in Seq(Store!UserWallet) /\ wallet \in Store!BoundedSeq(Store!UserWallet, 1)
      /\ switcher.wallets \in Seq(Store!UserWallet) /\ switcher.currentUW \in Store!BoundedSeq(Store!UserWallet, 1)
      /\ job.wallet \in Store!BoundedSeq(Store!UserWallet, 1) /\ (job.kind = "none" <=> job.wallet = <<>>)
      /\ Store!Opened => switcher.currentUW # <<>>
  BY DEF StoreTypes, Store!TypeOK
<1>2. \A s \in Seq(Store!UserWallet) : Elems(s) \subseteq Store!UserWallet /\ \A i \in 1..Len(s) : s[i] \in Elems(s)
  BY ElementOfSeq DEF Elems
<1>3. \A s \in Store!BoundedSeq(Store!UserWallet, 1) :
        Elems(s) = (IF s # <<>> THEN {s[1]} ELSE {}) /\ Elems(s) \subseteq Store!UserWallet
  <2>. SUFFICES ASSUME NEW s \in Store!BoundedSeq(Store!UserWallet, 1)
       PROVE Elems(s) = (IF s # <<>> THEN {s[1]} ELSE {}) /\ Elems(s) \subseteq Store!UserWallet
    OBVIOUS
  <2>1. CASE s = <<>>
    BY <2>1, OneElem
  <2>2. CASE s # <<>>
    BY <2>2, OneElem, OneIs
  <2>. QED
    BY <2>1, <2>2
<1>4. /\ Elems(wallet) = (IF Store!HasCurrent THEN {Store!Current} ELSE {})
      /\ Elems(switcher.currentUW) = (IF switcher.currentUW # <<>> THEN {switcher.currentUW[1]} ELSE {})
      /\ Elems(job.wallet) = (IF job.kind # "none" THEN {Mine} ELSE {})
  BY <1>1, <1>3 DEF Store!HasCurrent, Store!Current, Mine
<1>5. /\ Elems(list) \subseteq Store!UserWallet /\ Elems(switcher.wallets) \subseteq Store!UserWallet
      /\ Elems(wallet) \subseteq Store!UserWallet /\ Elems(switcher.currentUW) \subseteq Store!UserWallet
      /\ Elems(job.wallet) \subseteq Store!UserWallet
  BY <1>1, <1>2, <1>3
<1>6. /\ \A i \in 1..Len(list) : list[i] \in Elems(list)
      /\ \A i \in 1..Len(switcher.wallets) : switcher.wallets[i] \in Elems(switcher.wallets)
  BY <1>1, <1>2
<1>. QED
  BY <1>1, <1>4, <1>5, <1>6 DEF CopyFacts, Others, Copies

LEMMA CopyNext == StoreTypes' => CopyFacts'
BY CopyIs, PTL

(* Each operation starts, goes on and ends with what it needs.             *)
LEMMA JobInvStep == StoreTypes /\ JobInv /\ OldInv /\ StoreTypes' /\ [Store!Next]_(Store!vars) => JobInv'
<1>. SUFFICES ASSUME StoreTypes, JobInv, OldInv, StoreTypes', [Store!Next]_(Store!vars) PROVE JobInv'
  OBVIOUS
<1>1. /\ Len(Store!OldKeys) = 3 /\ Store!OldWallet.id = 0
      /\ (job = Store!Idle) <=> (job.kind = "none")
      /\ \A u \in Copies : u \in Store!UserWallet
      /\ Store!HasCurrent => Store!Current \in Store!UserWallet
      /\ old \in 0..3
  BY IdIs, MineIs, CopyIs, PartTypes DEF CopyFacts
<1>2. Store!Idle.kind = "none" /\ \A k, u : [kind |-> k, wallet |-> <<u>>].kind = k /\ [kind |-> k, wallet |-> <<u>>].wallet[1] = u
  BY DEF Store!Idle
<1>3. CASE Store!Launch
  BY <1>3, <1>1, <1>2 DEF Store!Launch, JobInv, Mine, Store!HasCurrent, Store!stores, Store!bounds, Store!Opened, Store!Free
<1>4. CASE Store!MigrateCurrent
  BY <1>4, <1>1, <1>2 DEF Store!MigrateCurrent, Store!SetCurrentWallet, Store!Then, JobInv, Mine, Store!HasCurrent, Store!Current, Store!bounds
<1>5. CASE Store!MigrateList
  <2>1. Store!HasCurrent /\ Store!Current = Store!OldWallet
    BY <1>5, <1>1, CopyIs DEF Store!MigrateList, JobInv, OldInv, CopyFacts
  <2>. QED
    BY <1>5, <2>1, <1>1, <1>2 DEF Store!MigrateList, Store!Then, JobInv, Mine, Store!HasCurrent, Store!Current, Store!bounds
<1>6. CASE Store!ClearOldKey
  BY <1>6, <1>1, <1>2 DEF Store!ClearOldKey, JobInv, Mine, Store!HasCurrent, Store!Current, Store!stores, Store!bounds
<1>7. CASE Store!SaveWalletInfo
  BY <1>7, <1>1, <1>2 DEF Store!SaveWalletInfo, Store!Then, JobInv, Mine, Store!HasCurrent, Store!Current, Store!Free
<1>8. CASE Store!SaveCurrent
  BY <1>8, <1>1, <1>2 DEF Store!SaveCurrent, Store!SetCurrentWallet, Store!Then, JobInv, Mine, Store!HasCurrent, Store!Current, Store!bounds, Store!Idle
<1>9. CASE Store!SaveAppend
  BY <1>9, <1>1, <1>2 DEF Store!SaveAppend, JobInv, Mine, Store!HasCurrent, Store!Current, Store!bounds
<1>10. CASE Store!KeepPassword
  <2>1. /\ UNCHANGED <<old, wallet, list, job, switcher, running>>
        /\ setting # {} /\ setting' \subseteq setting
    BY <1>10 DEF Store!KeepPassword
  <2>. QED
    BY <2>1 DEF JobInv, Mine, Store!HasCurrent, Store!Current, Store!Opened
<1>11. CASE Store!Recover
  <2>1. \E u : Store!Then("recover", u)
    BY <1>11 DEF Store!Recover
  <2>. QED
    BY <1>11, <2>1, <1>1, <1>2 DEF Store!Recover, Store!Then, JobInv, Mine, Store!HasCurrent, Store!Current, Store!Free
<1>12. CASE Store!RecoverCurrent
  BY <1>12, <1>1, <1>2 DEF Store!RecoverCurrent, Store!SetCurrentWallet, JobInv, Mine, Store!HasCurrent, Store!Current, Store!bounds
<1>13. CASE Store!SaveEnabledContract
  BY <1>13, <1>1, <1>2 DEF Store!SaveEnabledContract, Store!SetCurrentWallet, JobInv, Mine, Store!HasCurrent, Store!Current, Store!Free
<1>14. CASE Store!Rename
  BY <1>14, <1>1, <1>2 DEF Store!Rename, Store!SetCurrentWallet, Store!Then, JobInv, Mine, Store!HasCurrent, Store!Current, Store!Free, Store!Opened
<1>15. CASE Store!RenameList
  BY <1>15, <1>1, <1>2 DEF Store!RenameList, JobInv, Mine, Store!HasCurrent, Store!Current, Store!bounds
<1>16. CASE Store!OpenSwitcher
  BY <1>16, <1>1, <1>2 DEF Store!OpenSwitcher, JobInv, Mine, Store!HasCurrent, Store!Current, Store!stores, Store!bounds, Store!Free
<1>17. CASE Store!LeaveSwitcher
  BY <1>17, <1>1, <1>2 DEF Store!LeaveSwitcher, JobInv, Mine, Store!HasCurrent, Store!Current, Store!stores, Store!bounds, Store!Free
<1>18. CASE Store!SelectWallet
  <2>1. Store!HasCurrent /\ (job' = job \/ \E u : Store!Then("select", u))
    BY <1>18 DEF Store!SelectWallet, StoreTypes
  <2>. QED
    BY <1>18, <2>1, <1>1, <1>2 DEF Store!SelectWallet, Store!Then, JobInv, Mine, Store!HasCurrent, Store!Current, Store!bounds, Store!Free, Store!Opened
<1>19. CASE Store!SelectCurrent
  BY <1>19, <1>1, <1>2 DEF Store!SelectCurrent, Store!SetCurrentWallet, JobInv, Mine, Store!HasCurrent, Store!Current, Store!bounds
<1>20. CASE Store!Kill
  BY <1>20, <1>1, <1>2 DEF Store!Kill, JobInv, Mine, Store!HasCurrent, Store!Current, Store!stores, Store!bounds
<1>21. CASE UNCHANGED Store!vars
  BY <1>21 DEF Store!vars, JobInv, Mine, Store!HasCurrent, Store!Current, Store!stores, Store!bounds, Store!Opened
<1>. QED
  BY <1>3, <1>4, <1>5, <1>6, <1>7, <1>8, <1>9, <1>10, <1>11, <1>12, <1>13, <1>14, <1>15, <1>16, <1>17,
     <1>18, <1>19, <1>20, <1>21 DEF Store!Next

CopiesNext ==
    /\ Store!Launch => Others' = Others /\ Copies' \subseteq Copies \cup {Store!OldWallet}
    /\ Store!SaveWalletInfo => /\ Others' \subseteq Others
                               /\ Copies' \subseteq Others \cup {Store!NewWallet(made + 1, made + 1, 0)}
    /\ Store!Recover => \A u : Store!Then("recover", u) => Copies' \subseteq Others \cup {u}
    /\ Store!SaveEnabledContract => Copies' \subseteq Others \cup {[Store!Current EXCEPT !.tokens = changes + 1]}
    /\ Store!Rename => Copies' \subseteq Others \cup {[Store!Current EXCEPT !.name = changes + 1]}
    /\ ~(Store!Launch \/ Store!SaveWalletInfo \/ Store!Recover \/ Store!SaveEnabledContract \/ Store!Rename) => Copies' \subseteq Copies
    /\ Store!KeepPassword \/ Store!OpenSwitcher \/ Store!LeaveSwitcher \/ Store!SelectWallet \/ Store!Kill \/ Store!ClearOldKey \/ UNCHANGED Store!vars
       => Others' \subseteq Others

(* No step makes a copy out of nothing but those that bring in a wallet.   *)
LEMMA CopiesStep == StoreTypes /\ JobInv /\ StoreTypes' /\ [Store!Next]_(Store!vars) => CopiesNext
<1>. SUFFICES ASSUME StoreTypes, JobInv, StoreTypes', [Store!Next]_(Store!vars) PROVE CopiesNext
  OBVIOUS
<1>. DEFINE L == Elems(list)
            C == Elems(wallet)
            W == Elems(switcher.wallets)
            P == Elems(switcher.currentUW)
            J == Elems(job.wallet)
<1>1. /\ Others = L \cup C \cup W \cup P /\ Copies = Others \cup J
      /\ Others' = L' \cup C' \cup W' \cup P' /\ Copies' = Others' \cup J'
  BY DEF Others, Copies
<1>2. /\ list \in Seq(Store!UserWallet)
      /\ Store!HasCurrent => Store!Current \in Store!UserWallet /\ C = {Store!Current}
      /\ job.kind # "none" => Mine \in Store!UserWallet /\ J = {Mine}
      /\ Store!Opened => switcher.currentUW[1] \in Store!UserWallet /\ P = {switcher.currentUW[1]}
  BY MineIs, CopyIs, TypeParts DEF CopyFacts, Present
<1>3. Elems(<<>>) = {} /\ \A x : Elems(<<x>>) = {x}
  BY OneElem
<1>4. \A u \in Store!UserWallet : /\ Store!UpdateWalletInList(u) => L' \subseteq L \cup {u}
                                  /\ Store!AddNewWallet(u) => L' \subseteq L \cup {u}
  BY <1>2, UpdateIs, AppendIs
<1>5. /\ list' = list => L' = L
      /\ wallet' = wallet => C' = C
      /\ job' = job => J' = J
      /\ switcher' = switcher => W' = W /\ P' = P
      /\ switcher' = Store!Closed => W' = {} /\ P' = {}
      /\ job' = Store!Idle => J' = {}
      /\ \A u : Store!SetCurrentWallet(u) => C' = {u}
      /\ \A k, u : Store!Then(k, u) => J' = {u}
  BY <1>3 DEF Store!Closed, Store!Idle, Store!SetCurrentWallet, Store!Then
<1>6. /\ job.kind # "none" => J = {job.wallet[1]}
  BY <1>2 DEF Mine
<1>. HIDE DEF L, C, W, P, J
<1>11. ASSUME Store!Launch PROVE Others' = Others /\ Copies' \subseteq Copies \cup {Store!OldWallet}
  <2>1. J' \subseteq {Store!OldWallet}
    BY <1>11, <1>3, <1>5 DEF Store!Launch, J
  <2>. QED
    BY <1>11, <2>1, <1>1, <1>5 DEF Store!Launch, Store!stores
<1>12. ASSUME Store!SaveWalletInfo
       PROVE  Others' \subseteq Others /\ Copies' \subseteq Others \cup {Store!NewWallet(made + 1, made + 1, 0)}
  <2>1. L' \subseteq L \cup C
    BY <1>12, <1>2, <1>4, <1>5 DEF Store!SaveWalletInfo
  <2>2. C' = C /\ W' = W /\ P' = P /\ J' = {Store!NewWallet(made + 1, made + 1, 0)}
    BY <1>12, <1>5 DEF Store!SaveWalletInfo
  <2>. QED
    BY <2>1, <2>2, <1>1
<1>13. ASSUME Store!Recover, NEW u, Store!Then("recover", u) PROVE Copies' \subseteq Others \cup {u}
  <2>1. Store!HasCurrent /\ made < MaxMake
    BY <1>13 DEF Store!Recover
  <2>2. PICK key \in {Store!Current.key, made + 1} :
            LET v == Store!NewWallet(Store!Current.id, key, Store!Current.name)
            IN  Store!UpdateWalletInList(v) /\ Store!Then("recover", v)
    BY <1>13 DEF Store!Recover
  <2>3. u = Store!NewWallet(Store!Current.id, key, Store!Current.name)
    BY <2>2, <1>13 DEF Store!Then
  <2>4. u \in Store!UserWallet
    BY <2>1, <2>3, NewIs
  <2>5. L' \subseteq L \cup {u}
    BY <2>2, <2>3, <2>4, <1>4
  <2>6. C' = C /\ W' = W /\ P' = P /\ J' = {u}
    BY <1>13, <1>5 DEF Store!Recover
  <2>. QED
    BY <2>5, <2>6, <1>1
<1>14. ASSUME Store!SaveEnabledContract PROVE Copies' \subseteq Others \cup {[Store!Current EXCEPT !.tokens = changes + 1]}
  <2>1. /\ C' = {[Store!Current EXCEPT !.tokens = changes + 1]} /\ L' = L /\ W' = W /\ P' = P
        /\ J' = {}
    BY <1>14, <1>5 DEF Store!SaveEnabledContract, Store!Free
  <2>. QED
    BY <2>1, <1>1
<1>15. ASSUME Store!Rename PROVE Copies' \subseteq Others \cup {[Store!Current EXCEPT !.name = changes + 1]}
  <2>1. /\ C' = {[Store!Current EXCEPT !.name = changes + 1]} /\ L' = L /\ W' = W /\ P' = P
        /\ J' = {[Store!Current EXCEPT !.name = changes + 1]}
    BY <1>15, <1>5 DEF Store!Rename
  <2>. QED
    BY <2>1, <1>1
<1>16. ASSUME Store!MigrateCurrent \/ Store!SaveCurrent \/ Store!RecoverCurrent PROVE Copies' \subseteq Copies
  <2>1. /\ L' = L /\ C' = J /\ J' \subseteq J
        /\ (W' = W /\ P' = P) \/ (W' = {} /\ P' = {})
    BY <1>16, <1>1, <1>5, <1>6 DEF Store!MigrateCurrent, Store!SaveCurrent, Store!RecoverCurrent
  <2>. QED
    BY <2>1, <1>1
<1>17. ASSUME Store!MigrateList \/ Store!SaveAppend \/ Store!RenameList PROVE Copies' \subseteq Copies
  <2>0. job.kind # "none" /\ Mine \in Store!UserWallet /\ J = {Mine}
    BY <1>17, <1>2 DEF Store!MigrateList, Store!SaveAppend, Store!RenameList
  <2>1. Store!AddNewWallet(Mine) \/ Store!UpdateWalletInList(Mine)
    BY <1>17 DEF Store!MigrateList, Store!SaveAppend, Store!RenameList, Mine
  <2>2. /\ L' \subseteq L \cup J /\ C' = C /\ J' \subseteq J
        /\ (W' = W /\ P' = P) \/ (W' = {} /\ P' = {})
    <3>1. L' \subseteq L \cup J
      BY <2>0, <2>1, <1>4
    <3>. QED
      BY <1>17, <3>1, <1>5, <1>6 DEF Store!MigrateList, Store!SaveAppend, Store!RenameList
  <2>. QED
    BY <2>2, <1>1
<1>18. ASSUME Store!SelectCurrent PROVE Copies' \subseteq Copies
  <2>1. switcher'.currentUW = <<job.wallet[1]>> /\ switcher'.wallets = switcher.wallets
    BY <1>18, PartTypes DEF Store!SelectCurrent
  <2>2. L' = L /\ C' = J /\ J' = {} /\ W' = W /\ P' = J
    <3>1. P' = J
      BY <2>1, <1>3, <1>6, <1>18 DEF P, Store!SelectCurrent
    <3>2. W' = W
      BY <2>1 DEF W
    <3>. QED
      BY <3>1, <3>2, <1>18, <1>5, <1>6 DEF Store!SelectCurrent
  <2>. QED
    BY <2>2, <1>1
<1>19. ASSUME Store!KeepPassword \/ Store!LeaveSwitcher \/ Store!Kill \/ Store!ClearOldKey \/ UNCHANGED Store!vars
       PROVE  Copies' \subseteq Copies /\ Others' \subseteq Others
  <2>1. L' = L /\ C' = C /\ (J' = J \/ J' = {}) /\ ((W' = W /\ P' = P) \/ (W' = {} /\ P' = {}))
    BY <1>19, <1>5 DEF Store!KeepPassword, Store!LeaveSwitcher, Store!Kill, Store!ClearOldKey, Store!vars, Store!stores
  <2>. QED
    BY <2>1, <1>1
<1>20. ASSUME Store!OpenSwitcher PROVE Copies' \subseteq Copies /\ Others' \subseteq Others
  <2>1. L' = L /\ C' = C /\ J' = J
    BY <1>20, <1>5 DEF Store!OpenSwitcher, Store!stores
  <2>2. W' = L /\ P' = C
    BY <1>20 DEF Store!OpenSwitcher, W, P, L, C
  <2>. QED
    BY <2>1, <2>2, <1>1
<1>21. ASSUME Store!SelectWallet PROVE Copies' \subseteq Copies /\ Others' \subseteq Others
  <2>1. Store!Opened /\ Store!UpdateWalletInList(switcher.currentUW[1]) /\ C' = C /\ W' = W /\ P' = P
    BY <1>21, <1>5 DEF Store!SelectWallet
  <2>2. L' \subseteq L \cup P
    BY <2>1, <1>2, <1>4
  <2>3. J' = J \/ J' \subseteq W
    <3>1. PICK i \in 1..Len(switcher.wallets) : job' = job \/ Store!Then("select", switcher.wallets[i])
      BY <1>21 DEF Store!SelectWallet
    <3>2. switcher.wallets[i] \in W
      BY CopyIs DEF CopyFacts, W
    <3>. QED
      BY <3>1, <3>2, <1>5
  <2>. QED
    BY <2>1, <2>2, <2>3, <1>1
<1>22. ~(Store!Launch \/ Store!SaveWalletInfo \/ Store!Recover \/ Store!SaveEnabledContract \/ Store!Rename) => Copies' \subseteq Copies
  BY <1>16, <1>17, <1>18, <1>19, <1>20, <1>21 DEF Store!Next
<1>. QED
  BY <1>11, <1>12, <1>13, <1>14, <1>15, <1>19, <1>20, <1>21, <1>22 DEF CopiesNext

(* The old wallet is alone until it is in the list.                        *)
LEMMA OldStep == StoreTypes /\ JobInv /\ OldInv /\ StoreTypes' /\ [Store!Next]_(Store!vars) => OldInv'
<1>. SUFFICES ASSUME StoreTypes, JobInv, OldInv, StoreTypes', [Store!Next]_(Store!vars), old' = 3
     PROVE  OldInv'
  BY DEF OldInv
<1>1. /\ old \in 0..3 /\ Len(Store!OldKeys) = 3 /\ CopiesNext /\ 0 \in Store!Id
      /\ (job = Store!Idle) <=> (job.kind = "none")
  BY PartTypes, IdIs, CopiesStep, MineIs
<1>2. /\ old = 3 /\ ~Store!ClearOldKey
  BY <1>1 DEF Store!Next, Store!vars, Store!Launch, Store!MigrateCurrent, Store!MigrateList, Store!ClearOldKey, Store!SaveWalletInfo, Store!SaveCurrent,
       Store!SaveAppend, Store!KeepPassword, Store!Recover, Store!RecoverCurrent, Store!SaveEnabledContract, Store!Rename, Store!RenameList,
       Store!OpenSwitcher, Store!LeaveSwitcher, Store!SelectWallet, Store!SelectCurrent, Store!Kill
<1>3. ~running \/ job.kind \in {"migrate", "listed", "cleared"}
  BY <1>2 DEF JobInv
<1>4. /\ made = 0 /\ switcher = Store!Closed /\ setting = {} /\ saved[0] = <<Store!OldWallet>>
      /\ \A u \in Copies : u = Store!OldWallet
      /\ job.kind # "cleared" /\ Store!Spared(0, {"killed"}) => list = <<>>
      /\ ~running => job.kind = "none"
  BY <1>1, <1>2 DEF OldInv, JobInv
<1>5. Store!Launch \/ Store!MigrateCurrent \/ Store!MigrateList \/ Store!Kill \/ UNCHANGED Store!vars
  BY <1>2, <1>3, <1>4, <1>1 DEF Store!Next, Store!SaveWalletInfo, Store!SaveCurrent, Store!SaveAppend, Store!KeepPassword, Store!Recover,
     Store!RecoverCurrent, Store!SaveEnabledContract, Store!Rename, Store!RenameList, Store!OpenSwitcher, Store!LeaveSwitcher, Store!SelectWallet,
     Store!SelectCurrent, Store!Free
<1>6. \A u \in Copies' : u = Store!OldWallet
  <2>1. Copies' \subseteq Copies \cup {Store!OldWallet}
    <3>1. CASE Store!Launch
      BY <3>1, <1>1 DEF CopiesNext
    <3>2. CASE Store!MigrateCurrent \/ Store!MigrateList \/ Store!Kill \/ UNCHANGED Store!vars
      <4>1. ~(Store!Launch \/ Store!SaveWalletInfo \/ Store!Recover \/ Store!SaveEnabledContract \/ Store!Rename)
        BY <3>2, <1>3, <1>4, <1>1 DEF Store!MigrateCurrent, Store!MigrateList, Store!Kill, Store!vars, Store!Launch, Store!SaveWalletInfo,
           Store!Recover, Store!SaveEnabledContract, Store!Rename, Store!Free, JobInv
      <4>. QED
        BY <4>1, <1>1 DEF CopiesNext
    <3>. QED
      BY <3>1, <3>2, <1>5
  <2>. QED
    BY <2>1, <1>4
<1>7. made' = 0 /\ switcher' = Store!Closed /\ setting' = {} /\ saved'[0] = <<Store!OldWallet>>
  BY <1>4, <1>5 DEF Store!Launch, Store!MigrateCurrent, Store!MigrateList, Store!Kill, Store!vars, Store!bounds
<1>8. job'.kind # "cleared" /\ Store!Spared(0, {"killed"})' => list' = <<>>
  <2>1. CASE Store!Launch
    BY <2>1, <1>4 DEF Store!Launch, Store!stores, Store!Spared
  <2>2. CASE Store!MigrateCurrent
    BY <2>2, <1>4 DEF Store!MigrateCurrent, Store!Spared
  <2>3. CASE Store!MigrateList
    BY <2>3 DEF Store!MigrateList, Store!Then
  <2>4. CASE Store!Kill
    <3>1. CASE job.kind = "cleared"
      <4>1. Mine = Store!OldWallet /\ Store!OldWallet.id = 0
        BY <3>1, IdIs DEF JobInv
      <4>2. "killed" \in blame'[0]
        BY <2>4, <3>1, <4>1, <1>1, PartTypes DEF Store!Kill, Store!Blame, Mine
      <4>. QED
        BY <4>2 DEF Store!Spared
    <3>2. CASE job.kind # "cleared"
      BY <3>2, <2>4, <1>3, <1>4 DEF Store!Kill, Store!stores, Store!Spared, JobInv
    <3>. QED
      BY <3>1, <3>2
  <2>5. CASE UNCHANGED Store!vars
    BY <2>5, <1>4 DEF Store!vars, Store!stores, Store!Spared
  <2>. QED
    BY <2>1, <2>2, <2>3, <2>4, <2>5, <1>5
<1>. QED
  BY <1>6, <1>7, <1>8 DEF OldInv

LEMMA OthersNext == StoreTypes /\ JobInv /\ StoreTypes' /\ [Store!Next]_(Store!vars)
    => Others' \subseteq Copies'
BY CopyNext DEF CopyFacts

(* The passwords and ids of what is new                                    *)
Young(u, n) == u.id <= n /\ (u.pwd <= n \/ u.pwd = Store!OldPwd)

(* Numbers are given out in order.                                         *)
LEMMA YoungStep ==
    StoreTypes /\ JobInv /\ OldInv /\ FreshInv /\ StoreTypes' /\ [Store!Next]_(Store!vars) => \A u \in Copies' : Young(u, made')
<1>. SUFFICES ASSUME StoreTypes, JobInv, OldInv, FreshInv, StoreTypes', [Store!Next]_(Store!vars)
     PROVE  \A u \in Copies' : Young(u, made')
  OBVIOUS
<1>1. /\ CopiesNext /\ made \in Nat /\ made' \in Nat /\ MaxMake \in Nat
      /\ \A u \in Copies : u.id \in Nat /\ u.pwd \in Nat
      /\ \A u \in Copies : Young(u, made)
  <2>1. made \in Nat /\ MaxMake \in Nat
    BY PartTypes
  <2>2. made' \in Nat
    BY <2>1 DEF StoreTypes, Store!TypeOK
  <2>3. \A u \in Copies : u.id \in Nat /\ u.pwd \in Nat
    BY CopyIs, FieldsIs, <2>1 DEF CopyFacts, Store!Id
  <2>4. CopiesNext
    BY CopiesStep
  <2>. QED
    BY <2>1, <2>2, <2>3, <2>4 DEF FreshInv, Young
<1>2. made' = made \/ (made < MaxMake /\ made' = made + 1)
  BY DEF Store!Next, Store!vars, Store!bounds, Store!Launch, Store!MigrateCurrent, Store!MigrateList, Store!ClearOldKey, Store!SaveWalletInfo, Store!SaveCurrent,
       Store!SaveAppend, Store!KeepPassword, Store!Recover, Store!RecoverCurrent, Store!SaveEnabledContract, Store!Rename, Store!RenameList,
       Store!OpenSwitcher, Store!LeaveSwitcher, Store!SelectWallet, Store!SelectCurrent, Store!Kill
<1>3. \A u \in Copies : Young(u, made')
  BY <1>1, <1>2 DEF Young
<1>4. Others \subseteq Copies
  BY CopyIs DEF CopyFacts
<1>5. CASE Store!Launch
  BY <1>5, <1>1, <1>3, IdIs DEF CopiesNext, Young
<1>6. CASE Store!SaveWalletInfo
  <2>1. made < MaxMake /\ made' = made + 1
    BY <1>6 DEF Store!SaveWalletInfo
  <2>. QED
    BY <1>6, <2>1, <1>1, <1>3, <1>4, NewIs DEF CopiesNext, Young
<1>7. CASE Store!Recover
  <2>1. made < MaxMake /\ made' = made + 1 /\ Store!HasCurrent
    BY <1>7 DEF Store!Recover
  <2>2. PICK key \in {Store!Current.key, made + 1} : Store!Then("recover", Store!NewWallet(Store!Current.id, key, Store!Current.name))
    BY <1>7 DEF Store!Recover
  <2>3. Store!Current \in Copies
    BY <2>1, CopyIs DEF CopyFacts
  <2>4. Young(Store!NewWallet(Store!Current.id, key, Store!Current.name), made')
    BY <2>1, <2>3, <1>1, NewIs DEF Young
  <2>5. Copies' \subseteq Others \cup {Store!NewWallet(Store!Current.id, key, Store!Current.name)}
    BY <1>7, <2>2, <1>1 DEF CopiesNext
  <2>. QED
    BY <2>4, <2>5, <1>3, <1>4
<1>8. CASE Store!SaveEnabledContract \/ Store!Rename
  <2>1. Store!HasCurrent /\ Store!Current \in Copies /\ Store!Current \in Store!UserWallet
    BY <1>8, CopyIs DEF CopyFacts, Store!SaveEnabledContract, Store!Rename
  <2>2. /\ [Store!Current EXCEPT !.tokens = changes + 1].id = Store!Current.id
        /\ [Store!Current EXCEPT !.tokens = changes + 1].pwd = Store!Current.pwd
        /\ [Store!Current EXCEPT !.name = changes + 1].id = Store!Current.id
        /\ [Store!Current EXCEPT !.name = changes + 1].pwd = Store!Current.pwd
    BY <2>1 DEF Store!UserWallet
  <2>. QED
    BY <1>8, <2>1, <2>2, <1>1, <1>3, <1>4 DEF CopiesNext, Young
<1>9. CASE ~(Store!Launch \/ Store!SaveWalletInfo \/ Store!Recover \/ Store!SaveEnabledContract \/ Store!Rename)
  BY <1>9, <1>1, <1>3 DEF CopiesNext
<1>. QED
  BY <1>5, <1>6, <1>7, <1>8, <1>9

(* FreshInv in parts.                                                      *)
Fresh1 == setting \subseteq 1..made /\ \A w \in Store!Id : w > made => saved[w] = <<>> /\ keychain[w] = 0
Fresh2 == job.kind \in {"save", "append"} =>
        /\ Mine.id = made /\ Mine.pwd = made /\ made > 0
        /\ \A u \in Elems(list) \cup Elems(switcher.wallets) \cup Elems(switcher.currentUW) :
            u.id # made /\ u.pwd # made
Fresh3 == /\ job.kind = "save" => /\ saved[made] = <<>> /\ keychain[made] = 0
                                  /\ \A u \in Elems(wallet) : u.id # made /\ u.pwd # made
          /\ job.kind = "append" => wallet = job.wallet /\ saved[made] = job.wallet
Fresh4 == /\ \A u \in Others : saved[u.id] # <<>>
          /\ job.kind \notin {"save", "none"} => saved[Mine.id] # <<>>

LEMMA FreshParts == FreshInv <=> Fresh1 /\ Fresh2 /\ Fresh3 /\ Fresh4 /\ \A u \in Copies : Young(u, made)
BY DEF FreshInv, Fresh1, Fresh2, Fresh3, Fresh4, Young

LEMMA Fresh1Step == StoreTypes /\ JobInv /\ FreshInv /\ [Store!Next]_(Store!vars) => Fresh1'
<1>. SUFFICES ASSUME StoreTypes, JobInv, FreshInv, [Store!Next]_(Store!vars) PROVE Fresh1'
  OBVIOUS
<1>1. /\ made \in Nat /\ MaxMake \in Nat /\ Fresh1 /\ Fresh2
      /\ saved \in [Store!Id -> Store!BoundedSeq(Store!UserWallet, 1)] /\ keychain \in [Store!Id -> 0..Store!OldPwd]
      /\ Store!HasCurrent => Store!Current.id \in Store!Id /\ Store!Current.id <= made
      /\ job.kind # "none" => Mine.id \in Store!Id /\ Mine.id <= made
      /\ setting # {} => Store!HasCurrent
  <2>1. Fresh1 /\ Fresh2
    BY FreshParts
  <2>2. \A u \in Copies : u.id \in Store!Id /\ u.id <= made
    BY CopyIs, FieldsIs DEF CopyFacts, FreshInv
  <2>3. (Store!HasCurrent => Store!Current \in Copies) /\ (job.kind # "none" => Mine \in Copies)
    BY CopyIs DEF CopyFacts
  <2>. QED
    BY <2>1, <2>2, <2>3, PartTypes, TypeParts DEF Present
<1>2. made' = made \/ made' = made + 1
  BY DEF Store!Next, Store!vars, Store!bounds, Store!Launch, Store!MigrateCurrent, Store!MigrateList, Store!ClearOldKey, Store!SaveWalletInfo, Store!SaveCurrent,
       Store!SaveAppend, Store!KeepPassword, Store!Recover, Store!RecoverCurrent, Store!SaveEnabledContract, Store!Rename, Store!RenameList,
       Store!OpenSwitcher, Store!LeaveSwitcher, Store!SelectWallet, Store!SelectCurrent, Store!Kill
<1>3. setting' \subseteq 1..made'
  <2>1. setting' \subseteq setting \/ (job.kind = "append" /\ setting' = setting \cup {Mine.pwd})
    BY DEF Store!Next, Store!vars, Store!Launch, Store!MigrateCurrent, Store!MigrateList, Store!ClearOldKey, Store!SaveWalletInfo, Store!SaveCurrent, Mine,
       Store!SaveAppend, Store!KeepPassword, Store!Recover, Store!RecoverCurrent, Store!SaveEnabledContract, Store!Rename, Store!RenameList,
       Store!OpenSwitcher, Store!LeaveSwitcher, Store!SelectWallet, Store!SelectCurrent, Store!Kill
  <2>2. job.kind = "append" => Mine.pwd \in 1..made
    BY <1>1 DEF Fresh2
  <2>3. setting' \subseteq 1..made
    BY <2>1, <2>2, <1>1 DEF Fresh1
  <2>. QED
    BY <2>3, <1>1, <1>2
<1>4. ASSUME NEW w \in Store!Id, w > made' PROVE saved'[w] = <<>> /\ keychain'[w] = 0
  <2>0. w > made /\ saved[w] = <<>> /\ keychain[w] = 0 /\ w \in Nat
    BY <1>1, <1>2, <1>4 DEF Fresh1, Store!Id
  <2>1. saved' = saved \/ \E v \in Store!Id : \E u : v <= made /\ saved' = [saved EXCEPT ![v] = u]
    <3>1. CASE Store!SaveCurrent
      BY <3>1, <1>1 DEF Store!SaveCurrent, Mine
    <3>2. CASE Store!RecoverCurrent
      BY <3>2, <1>1 DEF Store!RecoverCurrent, Mine
    <3>3. CASE Store!SaveEnabledContract \/ Store!Rename
      <4>1. Store!HasCurrent /\ Store!Current \in Store!UserWallet
        BY <3>3, MineIs DEF Store!SaveEnabledContract, Store!Rename
      <4>2. /\ [Store!Current EXCEPT !.tokens = changes + 1].id = Store!Current.id
            /\ [Store!Current EXCEPT !.name = changes + 1].id = Store!Current.id
        BY <4>1 DEF Store!UserWallet
      <4>. QED
        BY <3>3, <1>1, <4>1, <4>2 DEF Store!SaveEnabledContract, Store!Rename
    <3>4. CASE ~(Store!SaveCurrent \/ Store!RecoverCurrent \/ Store!SaveEnabledContract \/ Store!Rename)
      BY <3>4 DEF Store!Next, Store!vars, Store!Launch, Store!MigrateCurrent, Store!MigrateList, Store!ClearOldKey, Store!SaveWalletInfo,
       Store!SaveAppend, Store!KeepPassword, Store!Recover, Store!RenameList,
       Store!OpenSwitcher, Store!LeaveSwitcher, Store!SelectWallet, Store!SelectCurrent, Store!Kill
    <3>. QED
      BY <3>1, <3>2, <3>3, <3>4
  <2>2. saved'[w] = <<>>
    BY <2>0, <2>1, <1>1
  <2>3. keychain' = keychain \/ \E p : Store!HasCurrent /\ keychain' = [keychain EXCEPT ![Store!Current.id] = p]
    BY <1>1 DEF Store!Next, Store!vars, Store!stores, Store!Launch, Store!MigrateCurrent, Store!MigrateList, Store!ClearOldKey, Store!SaveWalletInfo, Store!SaveCurrent,
       Store!SaveAppend, Store!KeepPassword, Store!Recover, Store!RecoverCurrent, Store!SaveEnabledContract, Store!Rename, Store!RenameList,
       Store!OpenSwitcher, Store!LeaveSwitcher, Store!SelectWallet, Store!SelectCurrent, Store!Kill
  <2>. QED
    BY <2>0, <2>2, <2>3, <1>1
<1>. QED
  BY <1>3, <1>4 DEF Fresh1

LEMMA Fresh23Step == StoreTypes /\ JobInv /\ FreshInv /\ StoreTypes' /\ [Store!Next]_(Store!vars) => Fresh2' /\ Fresh3'
<1>. SUFFICES ASSUME StoreTypes, JobInv, FreshInv, StoreTypes', [Store!Next]_(Store!vars), job'.kind \in {"save", "append"}
     PROVE  Fresh2' /\ Fresh3'
  BY DEF Fresh2, Fresh3
<1>1. /\ made \in Nat /\ MaxMake \in Nat /\ made <= MaxMake /\ Fresh1 /\ Fresh2 /\ Fresh3
      /\ saved \in [Store!Id -> Store!BoundedSeq(Store!UserWallet, 1)] /\ keychain \in [Store!Id -> 0..Store!OldPwd]
      /\ \A u \in Copies : Young(u, made) /\ u.id \in Nat /\ u.pwd \in Nat
      /\ Others \subseteq Copies /\ Store!OldPwd = MaxMake + 1
      /\ Store!HasCurrent => Elems(wallet) = {Store!Current} /\ Store!Current.id \in Store!Id
      /\ setting # {} => Store!HasCurrent
      /\ job.kind # "none" => Mine.id \in Store!Id /\ job.wallet = <<Mine>>
  <2>1. made \in Nat /\ MaxMake \in Nat /\ made <= MaxMake
    BY PartTypes
  <2>2. Fresh1 /\ Fresh2 /\ Fresh3 /\ \A u \in Copies : Young(u, made)
    BY FreshParts
  <2>3. \A u \in Store!UserWallet : u.id \in Store!Id /\ u.id \in Nat /\ u.pwd \in Nat
    BY FieldsIs DEF Store!Id
  <2>4. /\ \A u \in Copies : u \in Store!UserWallet
        /\ Store!HasCurrent => Elems(wallet) = {Store!Current} /\ Store!Current \in Store!UserWallet
        /\ job.kind # "none" => Mine \in Store!UserWallet /\ job.wallet = <<Mine>>
        /\ Others \subseteq Copies
    BY CopyIs, MineIs DEF CopyFacts
  <2>5. /\ saved \in [Store!Id -> Store!BoundedSeq(Store!UserWallet, 1)] /\ keychain \in [Store!Id -> 0..Store!OldPwd]
        /\ setting # {} => Store!HasCurrent
    BY PartTypes, TypeParts DEF Present
  <2>. QED
    BY <2>1, <2>2, <2>3, <2>4, <2>5 DEF Store!OldPwd
<1>2. Store!SaveWalletInfo \/ Store!SaveCurrent \/ Store!KeepPassword \/ UNCHANGED Store!vars
  BY DEF Store!Next, Store!Launch, Store!MigrateCurrent, Store!MigrateList, Store!ClearOldKey, Store!Then, Store!Idle,
       Store!SaveAppend, Store!Recover, Store!RecoverCurrent, Store!SaveEnabledContract, Store!Rename, Store!RenameList,
       Store!OpenSwitcher, Store!LeaveSwitcher, Store!SelectWallet, Store!SelectCurrent, Store!Kill, JobInv, Store!Free
<1>3. CASE Store!SaveWalletInfo
  <2>. DEFINE u == Store!NewWallet(made + 1, made + 1, 0)
  <2>1. made < MaxMake /\ made' = made + 1 /\ job' = [kind |-> "save", wallet |-> <<u>>]
        /\ saved' = saved /\ keychain' = keychain
    BY <1>3 DEF Store!SaveWalletInfo, Store!Then
  <2>2. u.id = made' /\ u.pwd = made'
    BY <2>1, NewIs
  <2>3. Others' \subseteq Others
    BY <1>3, CopiesStep DEF CopiesNext
  <2>4. \A v \in Others' : v.id # made' /\ v.pwd # made'
    BY <2>1, <2>3, <1>1 DEF Young
  <2>5. saved[made'] = <<>> /\ keychain[made'] = 0 /\ made' > 0
    BY <2>1, <1>1 DEF Fresh1, Store!Id
  <2>. HIDE DEF u
  <2>6. job'.kind = "save" /\ Mine' = u
    BY <2>1 DEF Mine
  <2>. QED
    BY <2>1, <2>2, <2>4, <2>5, <2>6 DEF Fresh2, Fresh3, Others
<1>4. CASE Store!SaveCurrent
  <2>1. /\ job.kind = "save" /\ wallet' = <<Mine>> /\ job' = [kind |-> "append", wallet |-> <<Mine>>]
        /\ saved' = [saved EXCEPT ![Mine.id] = <<Mine>>] /\ made' = made
        /\ list' = list /\ (switcher' = switcher \/ switcher' = Store!Closed)
    BY <1>4 DEF Store!SaveCurrent, Store!SetCurrentWallet, Store!Then, Mine, Store!bounds
  <2>2. Mine' = Mine /\ job'.kind = "append" /\ job'.wallet = <<Mine>>
    BY <2>1 DEF Mine
  <2>3. Mine.id = made /\ Mine.pwd = made /\ made > 0
    BY <2>1, <1>1 DEF Fresh2
  <2>4. saved'[made] = <<Mine>>
    BY <2>1, <2>3, <1>1
  <2>5. \A u \in Elems(list)' \cup Elems(switcher.wallets)' \cup Elems(switcher.currentUW)' :
            u.id # made /\ u.pwd # made
    BY <2>1, <1>1, OneElem DEF Fresh2, Store!Closed
  <2>. QED
    BY <2>1, <2>2, <2>3, <2>4, <2>5 DEF Fresh2, Fresh3
<1>5. CASE Store!KeepPassword
  <2>1. /\ setting # {} /\ UNCHANGED <<job, made, list, switcher, wallet, saved>>
        /\ keychain' = keychain \/ \E p : keychain' = [keychain EXCEPT ![Store!Current.id] = p]
    BY <1>5 DEF Store!KeepPassword, Store!bounds
  <2>2. job.kind = "save" => Store!Current.id # made
    BY <2>1, <1>1 DEF Fresh3
  <2>3. made \in Store!Id
    BY <1>1 DEF Store!Id
  <2>4. job.kind = "save" => keychain'[made] = 0
    BY <2>1, <2>2, <2>3, <1>1 DEF Fresh3
  <2>. QED
    BY <2>1, <2>4, <1>1 DEF Fresh2, Fresh3, Mine
<1>6. CASE UNCHANGED Store!vars
  BY <1>6, <1>1 DEF Fresh2, Fresh3, Mine, Store!vars, Store!stores, Store!bounds
<1>. QED
  BY <1>2, <1>3, <1>4, <1>5, <1>6

(* What the user saw saved is not forgotten.                               *)
LEMMA LastGrows ==
    StoreTypes /\ JobInv /\ [Store!Next]_(Store!vars) => \A w \in Store!Id : saved[w] # <<>> => saved'[w] # <<>>
<1>. SUFFICES ASSUME StoreTypes, JobInv, [Store!Next]_(Store!vars), NEW w \in Store!Id, saved[w] # <<>> PROVE saved'[w] # <<>>
  OBVIOUS
<1>1. saved' = saved \/ \E v, u : saved' = [saved EXCEPT ![v] = <<u>>]
  BY DEF Store!Next, Store!vars, Store!Launch, Store!MigrateCurrent, Store!MigrateList, Store!ClearOldKey, Store!SaveWalletInfo, Store!SaveCurrent,
       Store!SaveAppend, Store!KeepPassword, Store!Recover, Store!RecoverCurrent, Store!SaveEnabledContract, Store!Rename, Store!RenameList,
       Store!OpenSwitcher, Store!LeaveSwitcher, Store!SelectWallet, Store!SelectCurrent, Store!Kill
<1>2. saved \in [Store!Id -> Store!BoundedSeq(Store!UserWallet, 1)] /\ \A u : <<u>> # <<>>
  BY PartTypes
<1>. QED
  BY <1>1, <1>2

(* What is somewhere was saved.                                            *)
LEMMA Fresh4Step == StoreTypes /\ JobInv /\ OldInv /\ FreshInv /\ StoreTypes' /\ [Store!Next]_(Store!vars) => Fresh4'
<1>. SUFFICES ASSUME StoreTypes, JobInv, OldInv, FreshInv, StoreTypes', [Store!Next]_(Store!vars)
     PROVE  Fresh4'
  OBVIOUS
<1>. DEFINE Saw(u) == saved'[u.id] # <<>>
<1>1. /\ Fresh4 /\ CopiesNext /\ \A u \in Copies : u.id \in Store!Id
      /\ Copies = Others \cup (IF job.kind # "none" THEN {Mine} ELSE {})
      /\ Store!HasCurrent => Store!Current \in Others
      /\ saved \in [Store!Id -> Store!BoundedSeq(Store!UserWallet, 1)]
  BY FreshParts, CopiesStep, CopyIs, FieldsIs, PartTypes DEF CopyFacts, Copies
<1>2. \A w \in Store!Id : saved[w] # <<>> => saved'[w] # <<>>
  BY LastGrows
<1>3. \A u \in Others : Saw(u)
  BY <1>1, <1>2 DEF Fresh4
<1>4. job.kind \notin {"save", "none"} => Saw(Mine)
  BY <1>1, <1>2 DEF Fresh4
<1>5. Others' \subseteq Copies' /\ (job'.kind # "none" => Mine' \in Copies')
  BY CopyNext DEF CopyFacts
<1>6. (\A u \in Copies' : Saw(u)) => Fresh4'
  BY <1>5 DEF Fresh4
<1>7. ASSUME job.kind # "save", Copies' \subseteq Copies PROVE Fresh4'
  BY <1>1, <1>3, <1>4, <1>6, <1>7
<1>. HIDE DEF Saw
<1>8. CASE Store!Launch
  <2>1. old = 3 => Saw(Store!OldWallet)
    <3>1. old = 3 => saved[0] = <<Store!OldWallet>>
      BY DEF OldInv
    <3>2. old = 3 => saved[0] # <<>>
      BY <3>1
    <3>. QED
      BY <3>2, <1>2, IdIs DEF Saw
  <2>2. job'.kind # "none" => old = 3 /\ Mine' = Store!OldWallet
    BY <1>8, IdIs DEF Store!Launch, Store!Idle, Mine
  <2>3. Others' = Others
    BY <1>8, <1>1 DEF CopiesNext
  <2>. QED
    BY <2>1, <2>2, <2>3, <1>3 DEF Fresh4, Saw
<1>9. CASE Store!SaveWalletInfo
  <2>1. Others' \subseteq Others /\ job'.kind = "save"
    BY <1>9, <1>1 DEF CopiesNext, Store!SaveWalletInfo, Store!Then
  <2>. QED
    BY <2>1, <1>3 DEF Fresh4, Saw
<1>10. CASE Store!Recover
  <2>1. PICK key : Store!Then("recover", Store!NewWallet(Store!Current.id, key, Store!Current.name))
    BY <1>10 DEF Store!Recover
  <2>2. Store!HasCurrent /\ Store!NewWallet(Store!Current.id, key, Store!Current.name).id = Store!Current.id
    BY <1>10 DEF Store!Recover, Store!NewWallet
  <2>3. Saw(Store!NewWallet(Store!Current.id, key, Store!Current.name))
    BY <2>2, <1>1, <1>3 DEF Saw
  <2>4. Copies' \subseteq Others \cup {Store!NewWallet(Store!Current.id, key, Store!Current.name)}
    BY <1>10, <2>1, <1>1 DEF CopiesNext
  <2>. QED
    BY <2>3, <2>4, <1>3, <1>6
<1>11. CASE Store!SaveEnabledContract \/ Store!Rename
  <2>1. Store!HasCurrent /\ Store!Current \in Store!UserWallet
    BY <1>11, MineIs DEF Store!SaveEnabledContract, Store!Rename
  <2>2. /\ [Store!Current EXCEPT !.tokens = changes + 1].id = Store!Current.id
        /\ [Store!Current EXCEPT !.name = changes + 1].id = Store!Current.id
    BY <2>1 DEF Store!UserWallet
  <2>3. Saw([Store!Current EXCEPT !.tokens = changes + 1]) /\ Saw([Store!Current EXCEPT !.name = changes + 1])
    BY <2>1, <2>2, <1>1, <1>3 DEF Saw
  <2>. QED
    BY <1>11, <2>3, <1>1, <1>3, <1>6 DEF CopiesNext
<1>12. CASE Store!SaveCurrent
  <2>1. job.kind = "save" /\ saved' = [saved EXCEPT ![Mine.id] = <<Mine>>]
    BY <1>12 DEF Store!SaveCurrent, Mine
  <2>2. Saw(Mine)
    BY <2>1, <1>1 DEF Saw
  <2>3. Copies' \subseteq Copies
    BY <1>12, <2>1, <1>1 DEF CopiesNext, Store!SaveCurrent, Store!Launch, Store!SaveWalletInfo, Store!Recover, Store!SaveEnabledContract,
       Store!Rename, Store!Free, Store!Idle, JobInv
  <2>. QED
    BY <2>2, <2>3, <1>1, <1>3, <1>6
<1>13. CASE Store!KeepPassword \/ Store!Kill \/ UNCHANGED Store!vars
  <2>1. Others' \subseteq Others
    BY <1>13, <1>1 DEF CopiesNext
  <2>2. job' = job \/ job'.kind = "none"
    BY <1>13 DEF Store!KeepPassword, Store!Kill, Store!vars, Store!Idle
  <2>. QED
    BY <2>1, <2>2, <1>3, <1>4 DEF Fresh4, Saw, Mine
<1>14. CASE ~(Store!Launch \/ Store!SaveWalletInfo \/ Store!Recover \/ Store!SaveEnabledContract \/ Store!Rename \/ Store!SaveCurrent
              \/ Store!KeepPassword \/ Store!Kill \/ UNCHANGED Store!vars)
  <2>1. Copies' \subseteq Copies
    BY <1>14, <1>1 DEF CopiesNext
  <2>2. job.kind # "save"
    BY <1>14 DEF Store!Next, Store!MigrateCurrent, Store!MigrateList, Store!ClearOldKey, Store!SaveAppend, Store!RecoverCurrent,
       Store!RenameList, Store!OpenSwitcher, Store!LeaveSwitcher, Store!SelectWallet, Store!SelectCurrent, Store!Free, Store!Idle
  <2>. QED
    BY <2>1, <2>2, <1>7
<1>. QED
  BY <1>8, <1>9, <1>10, <1>11, <1>12, <1>13, <1>14

LEMMA FreshStep == StoreTypes /\ JobInv /\ OldInv /\ FreshInv /\ StoreTypes' /\ [Store!Next]_(Store!vars) => FreshInv'
BY Fresh1Step, Fresh23Step, Fresh4Step, YoungStep
   DEF FreshInv, Fresh1, Fresh2, Fresh3, Fresh4, Young

-----------------------------------------------------------------------------
(* The list                                                                *)

(* A wallet is in the list as its number is.                               *)
IdListed(w) == \E i \in 1..Len(list) : list[i].id = w

LEMMA ListedIs == \A u : Store!Listed(u) <=> IdListed(u.id)
BY DEF Store!Listed, IdListed, Store!Same

LEMMA ListedNext == \A u : Store!Listed(u)' <=> IdListed(u.id)'
BY DEF Store!Listed, IdListed, Store!Same

(* Nothing that was to blame is forgotten.                                 *)
LEMMA BlameNext == StoreTypes /\ [Store!Next]_(Store!vars) => \A w \in Store!Id : blame[w] \subseteq blame'[w]
<1>. SUFFICES ASSUME StoreTypes, [Store!Next]_(Store!vars), NEW w \in Store!Id PROVE blame[w] \subseteq blame'[w]
  OBVIOUS
<1>1. blame \in [Store!Id -> SUBSET Store!Causes]
  BY PartTypes
<1>2. blame' = blame \/ \E v, C : Store!Blame(v, C)
  BY DEF Store!Next, Store!vars, Store!Launch, Store!MigrateCurrent, Store!MigrateList, Store!ClearOldKey, Store!SaveWalletInfo, Store!SaveCurrent,
       Store!SaveAppend, Store!KeepPassword, Store!Recover, Store!RecoverCurrent, Store!SaveEnabledContract, Store!Rename, Store!RenameList,
       Store!OpenSwitcher, Store!LeaveSwitcher, Store!SelectWallet, Store!SelectCurrent, Store!Kill
<1>. QED
  BY <1>1, <1>2 DEF Store!Blame

LEMMA BlameGrows ==
    StoreTypes /\ StoreTypes' /\ [Store!Next]_(Store!vars) => \A w \in Store!Id : \A C : Store!Spared(w, C)' => Store!Spared(w, C)
BY BlameNext DEF Store!Spared

(* The list stays, is brought up to date, or grows.                        *)
ListNext ==
    \/ list' = list /\ ~Store!MigrateList /\ ~Store!SaveAppend
    \/ \E u \in Store!UserWallet : /\ Store!UpdateWalletInList(u) /\ ~Store!MigrateList /\ ~Store!SaveAppend
                                   /\ Store!SaveWalletInfo => Store!HasCurrent /\ u = Store!Current
                                   /\ Store!RenameList => u = Mine
                                   /\ Store!SelectWallet => u = switcher.currentUW[1]
                                   /\ Store!Recover => Store!Then("recover", u) /\ u.id = Store!Current.id
                                   /\ Store!SaveWalletInfo \/ Store!RenameList \/ Store!SelectWallet \/ Store!Recover
    \/ Store!MigrateList /\ Store!AddNewWallet(Mine) /\ Mine \in Store!UserWallet
    \/ Store!SaveAppend /\ Store!AddNewWallet(Mine) /\ Mine \in Store!UserWallet

LEMMA ListStep == StoreTypes /\ JobInv /\ [Store!Next]_(Store!vars) => ListNext
<1>. SUFFICES ASSUME StoreTypes, JobInv, [Store!Next]_(Store!vars) PROVE ListNext
  OBVIOUS
<1>1. /\ job.kind # "none" => Mine \in Store!UserWallet
      /\ Store!HasCurrent => Store!Current \in Store!UserWallet
      /\ Store!Opened => switcher.currentUW[1] \in Store!UserWallet
      /\ job = Store!Idle <=> job.kind = "none"
      /\ Store!Idle.kind = "none"
  BY MineIs DEF Store!Idle
<1>2. CASE Store!MigrateList \/ Store!SaveAppend
  BY <1>2, <1>1 DEF Store!MigrateList, Store!SaveAppend, ListNext, Mine
<1>3. CASE Store!SaveWalletInfo
  <2>1. ~Store!MigrateList /\ ~Store!SaveAppend /\ ~Store!RenameList /\ ~Store!SelectWallet /\ ~Store!Recover
    <3>1. job.kind = "none" /\ job'.kind = "save"
      BY <1>1, <1>3 DEF Store!SaveWalletInfo, Store!Free, Store!Then
    <3>. QED
      BY <3>1, <1>1 DEF Store!MigrateList, Store!SaveAppend, Store!RenameList, Store!SelectWallet, Store!Recover, Store!Then
  <2>. QED
    BY <2>1, <1>1, <1>3 DEF Store!SaveWalletInfo, ListNext
<1>4. CASE Store!RenameList
  <2>1. job.kind = "rename" /\ ~Store!MigrateList /\ ~Store!SaveAppend /\ ~Store!SelectWallet /\ ~Store!Recover /\ ~Store!SaveWalletInfo
    BY <1>1, <1>4 DEF Store!RenameList, Store!MigrateList, Store!SaveAppend, Store!SelectWallet, Store!Recover, Store!SaveWalletInfo, Store!Free
  <2>2. Store!UpdateWalletInList(Mine) /\ Mine \in Store!UserWallet
    BY <1>1, <1>4 DEF Store!RenameList, Mine
  <2>. QED
    BY <2>1, <2>2, <1>4 DEF ListNext
<1>5. CASE Store!Recover
  <2>1. Store!HasCurrent /\ made < MaxMake /\ job.kind = "none" /\ job'.kind = "recover"
    BY <1>1, <1>5 DEF Store!Recover, Store!Then, Store!Free
  <2>2. PICK key \in {Store!Current.key, made + 1} :
            LET u == Store!NewWallet(Store!Current.id, key, Store!Current.name) IN Store!UpdateWalletInList(u) /\ Store!Then("recover", u)
    BY <1>5 DEF Store!Recover
  <2>3. Store!NewWallet(Store!Current.id, key, Store!Current.name) \in Store!UserWallet
        /\ Store!NewWallet(Store!Current.id, key, Store!Current.name).id = Store!Current.id
    BY <2>1, NewIs
  <2>4. ~Store!MigrateList /\ ~Store!SaveAppend /\ ~Store!SelectWallet /\ ~Store!RenameList /\ ~Store!SaveWalletInfo
    BY <2>1, <1>1 DEF Store!RenameList, Store!MigrateList, Store!SaveAppend, Store!SelectWallet, Store!SaveWalletInfo, Store!Then
  <2>. QED
    BY <2>2, <2>3, <2>4, <1>5 DEF ListNext
<1>6. CASE Store!SelectWallet
  <2>1. job.kind = "none" /\ job'.kind \in {"none", "select"} /\ Store!Opened
    BY <1>1, <1>6 DEF Store!SelectWallet, Store!Then, Store!Free
  <2>2. Store!UpdateWalletInList(switcher.currentUW[1])
    BY <1>6 DEF Store!SelectWallet
  <2>4. ~Store!MigrateList /\ ~Store!SaveAppend /\ ~Store!Recover /\ ~Store!RenameList /\ ~Store!SaveWalletInfo
    BY <2>1, <1>1 DEF Store!RenameList, Store!MigrateList, Store!SaveAppend, Store!Recover, Store!SaveWalletInfo, Store!Then
  <2>. QED
    BY <2>1, <2>2, <2>4, <1>1, <1>6 DEF ListNext
<1>7. CASE ~(Store!MigrateList \/ Store!SaveAppend \/ Store!SaveWalletInfo \/ Store!RenameList \/ Store!Recover \/ Store!SelectWallet)
  <2>1. list' = list
    BY <1>7 DEF Store!Next, Store!vars, Store!stores, Store!Launch, Store!MigrateCurrent, Store!ClearOldKey, Store!SaveCurrent,
       Store!KeepPassword, Store!RecoverCurrent, Store!SaveEnabledContract, Store!Rename,
       Store!OpenSwitcher, Store!LeaveSwitcher, Store!SelectCurrent, Store!Kill
  <2>. QED
    BY <2>1, <1>7 DEF ListNext
<1>. QED
  BY <1>2, <1>3, <1>4, <1>5, <1>6, <1>7

(* The ids in the list                                                     *)
Grows == Store!MigrateList \/ Store!SaveAppend
IdsNext ==
    /\ Len(list) \in Nat
    /\ \A i \in 1..Len(list) : list'[i].id = list[i].id
    /\ ~Grows => Len(list') = Len(list)
    /\ Grows => Len(list') = Len(list) + 1 /\ list'[Len(list) + 1] = Mine

LEMMA IdsStep == StoreTypes /\ JobInv /\ [Store!Next]_(Store!vars) => IdsNext
<1>. SUFFICES ASSUME StoreTypes, JobInv, [Store!Next]_(Store!vars) PROVE IdsNext
  OBVIOUS
<1>1. list \in Seq(Store!UserWallet) /\ Len(list) \in Nat /\ ListNext
  BY PartTypes, ListStep
<1>2. CASE list' = list /\ ~Grows
  BY <1>1, <1>2 DEF IdsNext
<1>3. CASE ~Grows /\ \E u \in Store!UserWallet : Store!UpdateWalletInList(u)
  BY <1>1, <1>3, UpdateIs DEF IdsNext
<1>4. CASE Grows /\ Store!AddNewWallet(Mine) /\ Mine \in Store!UserWallet
  <2>1. /\ Len(list') = Len(list) + 1 /\ list'[Len(list) + 1] = Mine
        /\ \A i \in 1..Len(list) : list'[i] = list[i]
    BY <1>1, <1>4, AppendIs
  <2>. QED
    BY <1>1, <1>4, <2>1 DEF IdsNext
<1>. QED
  BY <1>1, <1>2, <1>3, <1>4 DEF ListNext, Grows

LEMMA IdListedStep == StoreTypes /\ JobInv /\ [Store!Next]_(Store!vars)
    => \A w : IdListed(w)' <=> IdListed(w) \/ (Grows /\ Mine.id = w)
<1>. SUFFICES ASSUME StoreTypes, JobInv, [Store!Next]_(Store!vars), NEW w
     PROVE IdListed(w)' <=> IdListed(w) \/ (Grows /\ Mine.id = w)
  OBVIOUS
<1>1. IdsNext
  BY IdsStep
<1>2. CASE ~Grows
  BY <1>1, <1>2 DEF IdsNext, IdListed
<1>3. CASE Grows
  BY <1>1, <1>3 DEF IdsNext, IdListed
<1>. QED
  BY <1>2, <1>3

(* What is already there when a wallet joins the list                      *)
LEMMA JoinsOnce == StoreTypes /\ JobInv /\ OldInv /\ FreshInv
    => /\ Store!MigrateList => Mine.id = 0 /\ (Store!Spared(0, {"killed"}) => list = <<>>)
       /\ Store!SaveAppend => ~IdListed(Mine.id)
<1>. SUFFICES ASSUME StoreTypes, JobInv, OldInv, FreshInv
     PROVE  /\ Store!MigrateList => Mine.id = 0 /\ (Store!Spared(0, {"killed"}) => list = <<>>)
            /\ Store!SaveAppend => ~IdListed(Mine.id)
  OBVIOUS
<1>1. ASSUME Store!MigrateList PROVE Mine.id = 0 /\ (Store!Spared(0, {"killed"}) => list = <<>>)
  BY <1>1, IdIs DEF Store!MigrateList, JobInv, OldInv
<1>2. ASSUME Store!SaveAppend PROVE ~IdListed(Mine.id)
  <2>1. \A u \in Elems(list) : u.id # Mine.id
    BY <1>2, FreshParts DEF Fresh2, Store!SaveAppend
  <2>2. \A i \in 1..Len(list) : list[i] \in Elems(list)
    BY CopyIs DEF CopyFacts
  <2>. QED
    BY <2>1, <2>2 DEF IdListed
<1>. QED
  BY <1>1, <1>2

(* A wallet joins the list once, unless a kill makes it join again.        *)
LEMMA DistinctStep ==
    StoreTypes /\ JobInv /\ OldInv /\ FreshInv /\ Distinct /\ StoreTypes' /\ [Store!Next]_(Store!vars) => Distinct'
<1>. SUFFICES ASSUME StoreTypes, JobInv, OldInv, FreshInv, Distinct, StoreTypes', [Store!Next]_(Store!vars),
                     NEW w \in Store!Id, Store!Spared(w, {"killed"})',
                     NEW i \in 1..Len(list'), NEW j \in 1..Len(list'),
                     list'[i].id = w, list'[j].id = w
     PROVE  i = j
  BY DEF Distinct
<1>1. IdsNext /\ Store!Spared(w, {"killed"})
  BY IdsStep, BlameGrows
<1>2. \A k, l \in 1..Len(list) : list[k].id = w /\ list[l].id = w => k = l
  BY <1>1 DEF Distinct
<1>3. CASE ~Grows
  BY <1>1, <1>2, <1>3 DEF IdsNext
<1>4. CASE Grows /\ Mine.id # w
  BY <1>1, <1>2, <1>4 DEF IdsNext
<1>5. CASE Grows /\ Mine.id = w
  <2>1. ~IdListed(w)
    <3>1. CASE Store!MigrateList
      BY <3>1, <1>1, <1>5, JoinsOnce DEF IdListed
    <3>2. CASE Store!SaveAppend
      BY <3>2, <1>5, JoinsOnce
    <3>. QED
      BY <3>1, <3>2, <1>5 DEF Grows
  <2>. QED
    BY <1>1, <1>5, <2>1 DEF IdsNext, IdListed
<1>. QED
  BY <1>3, <1>4, <1>5

(* The wallet in use                                                       *)
InUse(w) == Store!HasCurrent /\ Store!Current.id = w

CurrentNext ==
    \/ /\ \A w : InUse(w)' <=> InUse(w)
       /\ ~Store!MigrateCurrent /\ ~Store!SaveCurrent /\ ~Store!SelectCurrent
    \/ Store!MigrateCurrent /\ (\A w : InUse(w)' <=> w = 0) /\ old = 3 /\ old' = 3
    \/ Store!SaveCurrent /\ (\A w : InUse(w)' <=> w = Mine.id) /\ job.kind = "save" /\ job'.kind = "append"
    \/ Store!SelectCurrent /\ (\A w : InUse(w)' <=> w = Mine.id) /\ job.kind = "select"

LEMMA CurrentStep == StoreTypes /\ JobInv /\ RecoverInv /\ [Store!Next]_(Store!vars) => CurrentNext
<1>. SUFFICES ASSUME StoreTypes, JobInv, RecoverInv, [Store!Next]_(Store!vars) PROVE CurrentNext
  OBVIOUS
<1>1. /\ Store!HasCurrent => Store!Current \in Store!UserWallet
      /\ \A u : Store!SetCurrentWallet(u) => Store!HasCurrent' /\ Store!Current' = u
      /\ \A u : Store!SetCurrentWallet(u) => \A w : InUse(w)' <=> w = u.id
      /\ \A k, u : Store!Then(k, u) => job'.kind = k
      /\ Store!Idle.kind = "none"
  <2>1. Store!HasCurrent => Store!Current \in Store!UserWallet
    BY MineIs
  <2>2. ASSUME NEW u, Store!SetCurrentWallet(u) PROVE Store!HasCurrent' /\ Store!Current' = u /\ \A w : InUse(w)' <=> w = u.id
    <3>1. Store!HasCurrent' /\ Store!Current' = u
      BY <2>2 DEF Store!SetCurrentWallet, Store!HasCurrent, Store!Current
    <3>. QED
      BY <3>1 DEF InUse
  <2>3. \A k, u : Store!Then(k, u) => job'.kind = k
    BY DEF Store!Then
  <2>. QED
    BY <2>1, <2>2, <2>3 DEF Store!Idle
<1>2. CASE Store!MigrateCurrent
  <2>1. old = 3 /\ old' = 3 /\ Mine.id = 0 /\ Store!SetCurrentWallet(Mine)
    BY <1>2, IdIs DEF Store!MigrateCurrent, JobInv, Mine
  <2>. QED
    BY <2>1, <1>1, <1>2 DEF CurrentNext
<1>3. CASE Store!SaveCurrent
  BY <1>3, <1>1 DEF Store!SaveCurrent, Mine, CurrentNext
<1>4. CASE Store!SelectCurrent
  BY <1>4, <1>1 DEF Store!SelectCurrent, Mine, CurrentNext
<1>5. ASSUME Store!RecoverCurrent PROVE \A w : InUse(w)' <=> InUse(w)
  <2>1. Store!HasCurrent /\ Mine.id = Store!Current.id
    BY <1>5 DEF Store!RecoverCurrent, RecoverInv, JobInv
  <2>2. Store!SetCurrentWallet(Mine)
    BY <1>5 DEF Store!RecoverCurrent, Mine
  <2>. QED
    BY <2>1, <2>2, <1>1 DEF InUse
<1>6. ASSUME Store!SaveEnabledContract \/ Store!Rename PROVE \A w : InUse(w)' <=> InUse(w)
  <2>1. Store!HasCurrent /\ Store!Current \in Store!UserWallet
    BY <1>6, <1>1 DEF Store!SaveEnabledContract, Store!Rename
  <2>2. /\ [Store!Current EXCEPT !.tokens = changes + 1].id = Store!Current.id
        /\ [Store!Current EXCEPT !.name = changes + 1].id = Store!Current.id
    BY <2>1 DEF Store!UserWallet
  <2>. QED
    BY <1>6, <2>1, <2>2, <1>1 DEF Store!SaveEnabledContract, Store!Rename, InUse
<1>7. ASSUME ~(Store!MigrateCurrent \/ Store!SaveCurrent \/ Store!SelectCurrent \/ Store!RecoverCurrent \/ Store!SaveEnabledContract
               \/ Store!Rename)
      PROVE  \A w : InUse(w)' <=> InUse(w)
  <2>1. wallet' = wallet
    BY <1>7 DEF Store!Next, Store!vars, Store!stores, Store!Launch, Store!MigrateList, Store!ClearOldKey, Store!SaveWalletInfo,
       Store!SaveAppend, Store!KeepPassword, Store!Recover, Store!RenameList,
       Store!OpenSwitcher, Store!LeaveSwitcher, Store!SelectWallet, Store!Kill
  <2>. QED
    BY <2>1 DEF InUse, Store!HasCurrent, Store!Current
<1>. QED
  BY <1>2, <1>3, <1>4, <1>5, <1>6, <1>7 DEF CurrentNext

(* The keys of the old wallet go one by one, once it is in the list.       *)
LEMMA OldNext == StoreTypes /\ [Store!Next]_(Store!vars)
    => old' = old \/ (Store!ClearOldKey /\ job.kind = "cleared" /\ old' < old)
<1>. SUFFICES ASSUME StoreTypes, [Store!Next]_(Store!vars)
     PROVE old' = old \/ (Store!ClearOldKey /\ job.kind = "cleared" /\ old' < old)
  OBVIOUS
<1>1. old \in 0..3
  BY PartTypes, IdIs
<1>. QED
  BY <1>1 DEF Store!Next, Store!vars, Store!stores, Store!Launch, Store!MigrateCurrent, Store!MigrateList, Store!ClearOldKey, Store!SaveWalletInfo,
     Store!SaveCurrent, Store!SaveAppend, Store!KeepPassword, Store!Recover, Store!RecoverCurrent, Store!SaveEnabledContract, Store!Rename,
     Store!RenameList, Store!OpenSwitcher, Store!LeaveSwitcher, Store!SelectWallet, Store!SelectCurrent, Store!Kill

(* ListInv in parts.                                                       *)
InUseListed == \A w \in Store!Id : InUse(w) /\ job.kind # "append" /\ ~Store!Unmigrated(w) /\ Store!Spared(w, {"killed"})
    => IdListed(w)
KnownListed == \A w \in Store!Id : saved[w] # <<>> /\ Store!Spared(w, {"killed"})
    => IdListed(w) \/ InUse(w) \/ Store!Unmigrated(w)
RowsListed == \A u \in Elems(switcher.wallets) : IdListed(u.id)
JobListed == /\ job.kind = "cleared" => IdListed(0)
             /\ job.kind = "select" => IdListed(Mine.id)

LEMMA ListParts == StoreTypes => (ListInv <=> Distinct /\ InUseListed /\ KnownListed /\ RowsListed /\ JobListed)
<1>. SUFFICES ASSUME StoreTypes
     PROVE ListInv <=> Distinct /\ InUseListed /\ KnownListed /\ RowsListed /\ JobListed
  OBVIOUS
<1>1. Store!HasCurrent => Store!Current.id \in Store!Id
  BY MineIs, FieldsIs
<1>. QED
  BY <1>1, ListedIs, IdIs DEF ListInv, InUseListed, KnownListed, RowsListed, JobListed, InUse, IdListed

(* The wallet in use is in the list but while it is being put there.       *)
LEMMA InUseListedStep ==
    StoreTypes /\ JobInv /\ OldInv /\ FreshInv /\ InUseListed /\ RecoverInv /\ JobListed /\ StoreTypes' /\ [Store!Next]_(Store!vars)
    => InUseListed'
<1>. SUFFICES ASSUME StoreTypes, JobInv, OldInv, FreshInv, InUseListed, RecoverInv, JobListed, StoreTypes',
                     [Store!Next]_(Store!vars), NEW w \in Store!Id, InUse(w)', job'.kind # "append", ~Store!Unmigrated(w)',
                     Store!Spared(w, {"killed"})'
     PROVE  IdListed(w)'
  BY DEF InUseListed
<1>1. /\ Store!Spared(w, {"killed"}) /\ CurrentNext
      /\ IdListed(w) => IdListed(w)'
      /\ old' = old \/ (Store!ClearOldKey /\ job.kind = "cleared")
  BY BlameGrows, CurrentStep, IdListedStep, OldNext, IdIs
<1>2. CASE InUse(w) /\ Store!Unmigrated(w)
  <2>1. w = 0 /\ old' # old
    BY <1>2 DEF Store!Unmigrated
  <2>. QED
    BY <2>1, <1>1 DEF JobListed
<1>3. CASE InUse(w) /\ ~Store!Unmigrated(w) /\ job.kind # "append"
  BY <1>1, <1>3 DEF InUseListed
<1>4. CASE InUse(w) /\ job.kind = "append"
  <2>1. Mine.id = w
    BY <1>4, FreshParts DEF Fresh3, InUse, Store!Current, Mine
  <2>2. Store!SaveAppend \/ Store!Kill
    BY <1>4 DEF Store!Next, Store!vars, Store!Launch, Store!MigrateCurrent, Store!MigrateList, Store!ClearOldKey, Store!SaveWalletInfo,
       Store!SaveCurrent, Store!SaveAppend, Store!KeepPassword, Store!Recover, Store!RecoverCurrent, Store!SaveEnabledContract, Store!Rename,
       Store!RenameList, Store!OpenSwitcher, Store!LeaveSwitcher, Store!SelectWallet, Store!SelectCurrent, Store!Free, Store!Idle, JobInv
  <2>3. ASSUME Store!Kill PROVE FALSE
    <3>1. blame \in [Store!Id -> SUBSET Store!Causes] /\ blame' = [blame EXCEPT ![w] = @ \cup {"killed"}]
      BY <1>4, <2>1, <2>3, PartTypes DEF Store!Kill, Store!Blame, Mine
    <3>. QED
      BY <3>1 DEF Store!Spared
  <2>. QED
    BY <2>1, <2>2, <2>3, IdListedStep DEF Grows
<1>5. CASE ~InUse(w)
  <2>1. ASSUME Store!MigrateCurrent PROVE FALSE
    <3>1. job.kind = "migrate" /\ old = 3
      BY <2>1 DEF Store!MigrateCurrent, JobInv
    <3>2. w = 0 /\ old' = 3
      BY <1>1, <2>1, <3>1 DEF CurrentNext
    <3>. QED
      BY <3>2, IdIs DEF Store!Unmigrated
  <2>2. Store!SelectCurrent /\ Mine.id = w /\ job.kind = "select"
    BY <1>1, <1>5, <2>1 DEF CurrentNext
  <2>. QED
    BY <2>2, <1>1 DEF JobListed
<1>. QED
  BY <1>2, <1>3, <1>4, <1>5

(* Only what becomes the current wallet is written down as saved.          *)
LEMMA SavedIsInUse == StoreTypes /\ JobInv /\ [Store!Next]_(Store!vars)
    => \A w \in Store!Id : saved'[w] = saved[w] \/ InUse(w)'
<1>. SUFFICES ASSUME StoreTypes, JobInv, [Store!Next]_(Store!vars), NEW w \in Store!Id PROVE saved'[w] = saved[w] \/ InUse(w)'
  OBVIOUS
<1>1. /\ saved \in [Store!Id -> Store!BoundedSeq(Store!UserWallet, 1)]
      /\ \A u : Store!SetCurrentWallet(u) => InUse(u.id)'
  BY PartTypes DEF Store!SetCurrentWallet, InUse, Store!HasCurrent, Store!Current
<1>2. CASE Store!SaveCurrent
  BY <1>2, <1>1 DEF Store!SaveCurrent
<1>3. CASE Store!RecoverCurrent
  BY <1>3, <1>1 DEF Store!RecoverCurrent
<1>4. CASE Store!SaveEnabledContract
  BY <1>4, <1>1 DEF Store!SaveEnabledContract
<1>5. CASE Store!Rename
  BY <1>5, <1>1 DEF Store!Rename
<1>6. CASE ~(Store!SaveCurrent \/ Store!RecoverCurrent \/ Store!SaveEnabledContract \/ Store!Rename)
  <2>1. saved' = saved
    BY <1>6 DEF Store!Next, Store!vars, Store!Launch, Store!MigrateCurrent, Store!MigrateList, Store!ClearOldKey, Store!SaveWalletInfo,
     Store!SaveAppend, Store!KeepPassword, Store!Recover, Store!RenameList, Store!OpenSwitcher, Store!LeaveSwitcher, Store!SelectWallet,
     Store!SelectCurrent, Store!Kill
  <2>. QED
    BY <2>1
<1>. QED
  BY <1>2, <1>3, <1>4, <1>5, <1>6

(* The wallet that gives way to another is in the list by then.            *)
LEMMA KnownListedStep ==
    StoreTypes /\ JobInv /\ OldInv /\ FreshInv /\ InUseListed /\ KnownListed /\ RecoverInv /\ JobListed
    /\ StoreTypes' /\ [Store!Next]_(Store!vars) => KnownListed'
<1>. SUFFICES ASSUME StoreTypes, JobInv, OldInv, FreshInv, InUseListed, KnownListed, RecoverInv, JobListed,
                     StoreTypes', [Store!Next]_(Store!vars), NEW w \in Store!Id, saved'[w] # <<>>, Store!Spared(w, {"killed"})',
                     ~InUse(w)', ~Store!Unmigrated(w)'
     PROVE  IdListed(w)'
  BY DEF KnownListed
<1>1. /\ Store!Spared(w, {"killed"}) /\ CurrentNext
      /\ IdListed(w) => IdListed(w)'
      /\ old' = old \/ (Store!ClearOldKey /\ job.kind = "cleared")
      /\ saved[w] # <<>>
  BY BlameGrows, CurrentStep, IdListedStep, OldNext, SavedIsInUse
<1>2. CASE Store!Unmigrated(w)
  <2>1. w = 0 /\ old' # old
    BY <1>2 DEF Store!Unmigrated
  <2>. QED
    BY <2>1, <1>1 DEF JobListed
<1>3. CASE InUse(w) /\ ~Store!Unmigrated(w)
  <2>1. ~Store!MigrateCurrent
    <3>1. ASSUME Store!MigrateCurrent PROVE w = 0 /\ old = 3
      <4>1. old = 3
        BY <3>1 DEF Store!MigrateCurrent, JobInv
      <4>2. Store!Current = Store!OldWallet
        BY <4>1, <1>3, CopyIs DEF OldInv, CopyFacts, InUse
      <4>. QED
        BY <4>1, <4>2, <1>3, IdIs DEF InUse
    <3>. QED
      BY <3>1, <1>3, IdIs DEF Store!Unmigrated
  <2>2. job.kind # "append"
    BY <2>1, <1>1, <1>3 DEF CurrentNext
  <2>. QED
    BY <2>2, <1>1, <1>3 DEF InUseListed
<1>4. CASE IdListed(w)
  BY <1>1, <1>4
<1>. QED
  BY <1>1, <1>2, <1>3, <1>4 DEF KnownListed

(* The page shows wallets of the list,                                     *)
LEMMA RowsListedStep ==
    StoreTypes /\ JobInv /\ RowsListed /\ StoreTypes' /\ [Store!Next]_(Store!vars) => RowsListed'
<1>. SUFFICES ASSUME StoreTypes, JobInv, RowsListed, StoreTypes', [Store!Next]_(Store!vars),
                     NEW u \in Elems(switcher'.wallets)
     PROVE  IdListed(u.id)'
  BY DEF RowsListed
<1>1. IdListed(u.id) => IdListed(u.id)'
  BY IdListedStep
<1>2. switcher'.wallets = switcher.wallets \/ switcher'.wallets = <<>> \/ switcher'.wallets = list
  <2>1. Store!SelectCurrent => switcher'.wallets = switcher.wallets
    BY PartTypes DEF Store!SelectCurrent
  <2>. QED
    BY <2>1 DEF Store!Next, Store!vars, Store!Launch, Store!MigrateCurrent, Store!MigrateList, Store!ClearOldKey, Store!SaveWalletInfo,
       Store!SaveCurrent, Store!SaveAppend, Store!KeepPassword, Store!Recover, Store!RecoverCurrent, Store!SaveEnabledContract, Store!Rename,
       Store!RenameList, Store!OpenSwitcher, Store!LeaveSwitcher, Store!SelectWallet, Store!Closed, Store!Kill
<1>3. CASE switcher'.wallets = switcher.wallets
  BY <1>1, <1>3 DEF RowsListed
<1>4. CASE switcher'.wallets = list
  <2>1. IdListed(u.id)
    BY <1>4 DEF Elems, IdListed
  <2>. QED
    BY <2>1, <1>1
<1>5. CASE switcher'.wallets = <<>>
  BY <1>5, OneElem
<1>. QED
  BY <1>2, <1>3, <1>4, <1>5

(* and takes one of them into use.                                         *)
LEMMA JobListedStep ==
    StoreTypes /\ JobInv /\ OldInv /\ FreshInv /\ RowsListed /\ JobListed /\ StoreTypes' /\ [Store!Next]_(Store!vars) => JobListed'
<1>. SUFFICES ASSUME StoreTypes, JobInv, OldInv, FreshInv, RowsListed, JobListed, StoreTypes', [Store!Next]_(Store!vars)
     PROVE  JobListed'
  OBVIOUS
<1>1. \A w : IdListed(w) => IdListed(w)'
  BY IdListedStep
<1>2. /\ \A k, u : Store!Then(k, u) => job'.kind = k /\ Mine' = u
      /\ Store!Idle.kind = "none"
  BY DEF Store!Then, Mine, Store!Idle
<1>3. ASSUME job'.kind = "cleared" PROVE IdListed(0)'
  <2>1. (Store!MigrateList /\ Mine.id = 0) \/ job.kind = "cleared"
    <3>1. Store!MigrateList \/ job.kind = "cleared"
      BY <1>2, <1>3 DEF Store!Next, Store!vars, Store!Launch, Store!MigrateCurrent, Store!ClearOldKey, Store!SaveWalletInfo,
         Store!SaveCurrent, Store!SaveAppend, Store!KeepPassword, Store!Recover, Store!RecoverCurrent, Store!SaveEnabledContract, Store!Rename,
         Store!RenameList, Store!OpenSwitcher, Store!LeaveSwitcher, Store!SelectWallet, Store!SelectCurrent, Store!Kill
    <3>. QED
      BY <3>1, JoinsOnce
  <2>2. Store!MigrateList /\ Mine.id = 0 => IdListed(0)'
    BY IdListedStep DEF Grows
  <2>. QED
    BY <2>1, <2>2, <1>1 DEF JobListed
<1>4. ASSUME job'.kind = "select" PROVE IdListed(Mine.id)'
  <2>1. Store!SelectWallet \/ (job' = job)
    BY <1>2, <1>4 DEF Store!Next, Store!vars, Store!Launch, Store!MigrateCurrent, Store!MigrateList, Store!ClearOldKey, Store!SaveWalletInfo,
         Store!SaveCurrent, Store!SaveAppend, Store!KeepPassword, Store!Recover, Store!RecoverCurrent, Store!SaveEnabledContract, Store!Rename,
         Store!RenameList, Store!OpenSwitcher, Store!LeaveSwitcher, Store!SelectCurrent, Store!Kill
  <2>2. CASE job' = job
    BY <2>2, <1>1, <1>4 DEF JobListed, Mine
  <2>3. CASE Store!SelectWallet /\ job' # job
    <3>1. PICK i \in 1..Len(switcher.wallets) : Store!Then("select", switcher.wallets[i])
      BY <2>3 DEF Store!SelectWallet
    <3>2. IdListed(switcher.wallets[i].id)
      BY CopyIs DEF CopyFacts, RowsListed
    <3>. QED
      BY <3>1, <3>2, <1>1, <1>2
  <2>. QED
    BY <2>1, <2>2, <2>3
<1>. QED
  BY <1>3, <1>4 DEF JobListed

LEMMA ListNextParts == StoreTypes' =>
    (ListInv' <=> Distinct' /\ InUseListed' /\ KnownListed' /\ RowsListed' /\ JobListed')
BY ListParts, PTL

LEMMA ListInvStep ==
    StoreTypes /\ JobInv /\ OldInv /\ FreshInv /\ ListInv /\ RecoverInv /\ StoreTypes' /\ [Store!Next]_(Store!vars) => ListInv'
BY ListParts, ListNextParts, DistinctStep, InUseListedStep, KnownListedStep, RowsListedStep, JobListedStep

-----------------------------------------------------------------------------
(* Copies that are written back                                            *)

(* Who starts an operation that writes a copy back.                        *)
LEMMA JobNext == StoreTypes /\ JobInv /\ [Store!Next]_(Store!vars)
    => /\ job'.kind = "recover" /\ ~Store!Recover => job' = job /\ (Store!KeepPassword \/ UNCHANGED Store!vars)
       /\ job'.kind = "save" /\ ~Store!SaveWalletInfo => job' = job /\ (Store!KeepPassword \/ UNCHANGED Store!vars)
       /\ job'.kind = "select" /\ ~Store!SelectWallet => job' = job /\ (Store!KeepPassword \/ UNCHANGED Store!vars)
<1>. SUFFICES ASSUME StoreTypes, JobInv, [Store!Next]_(Store!vars), job'.kind \in {"recover", "save", "select"},
                     ~(job'.kind = "recover" /\ Store!Recover), ~(job'.kind = "save" /\ Store!SaveWalletInfo),
                     ~(job'.kind = "select" /\ Store!SelectWallet)
     PROVE  job' = job /\ (Store!KeepPassword \/ UNCHANGED Store!vars)
  OBVIOUS
<1>1. /\ (job = Store!Idle) <=> (job.kind = "none")
      /\ \A k, u : Store!Then(k, u) => job'.kind = k
      /\ Store!Idle.kind = "none" /\ \A k, u : [kind |-> k, wallet |-> <<u>>].kind = k
  BY MineIs DEF Store!Then, Store!Idle
<1>2. ~(Store!SaveWalletInfo \/ Store!Recover \/ Store!SelectWallet)
  BY <1>1 DEF Store!SaveWalletInfo, Store!Recover, Store!SelectWallet, Store!Free
<1>3. ~(Store!Launch \/ Store!MigrateCurrent \/ Store!MigrateList \/ Store!SaveCurrent \/ Store!SaveAppend \/ Store!RecoverCurrent
        \/ Store!Rename \/ Store!RenameList \/ Store!SelectCurrent \/ Store!Kill)
  BY <1>1 DEF Store!Launch, Store!MigrateCurrent, Store!MigrateList, Store!SaveCurrent, Store!SaveAppend, Store!RecoverCurrent, Store!Rename,
     Store!RenameList, Store!SelectCurrent, Store!Kill
<1>4. ~(Store!ClearOldKey \/ Store!SaveEnabledContract \/ Store!OpenSwitcher \/ Store!LeaveSwitcher)
  BY <1>1 DEF Store!ClearOldKey, Store!SaveEnabledContract, Store!OpenSwitcher, Store!LeaveSwitcher, Store!Free
<1>5. Store!KeepPassword \/ UNCHANGED Store!vars
  BY <1>2, <1>3, <1>4 DEF Store!Next
<1>. QED
  BY <1>5 DEF Store!KeepPassword, Store!vars

(* A recovery blames itself for what it changes, and is not overtaken.     *)
LEMMA RecoverInvStep == StoreTypes /\ JobInv /\ RecoverInv /\ StoreTypes' /\ [Store!Next]_(Store!vars) => RecoverInv'
<1>. SUFFICES ASSUME StoreTypes, JobInv, RecoverInv, StoreTypes', [Store!Next]_(Store!vars), job'.kind = "recover"
     PROVE  RecoverInv'
  BY DEF RecoverInv
<1>1. \A w \in Store!Id : blame[w] \subseteq blame'[w]
  BY BlameNext
<1>2. CASE Store!Recover
  <2>0. Store!HasCurrent /\ Store!Current.id \in Store!Id /\ Store!Current \in Store!UserWallet
    BY <1>2, MineIs, FieldsIs DEF Store!Recover
  <2>1. PICK key \in {Store!Current.key, made + 1} :
            LET u == Store!NewWallet(Store!Current.id, key, Store!Current.name) IN
            /\ Store!Then("recover", u)
            /\ Store!Blame(u.id, Store!If("emptied", Store!Current.tokens # 0) \cup Store!If("replaced", Store!Current.key # key)
                       \cup Store!If("renewed", keychain[u.id] # 0 \/ setting # {}))
    BY <1>2 DEF Store!Recover
  <2>. DEFINE u == Store!NewWallet(Store!Current.id, key, Store!Current.name)
  <2>2. u.id = Store!Current.id /\ u.key = key /\ u.tokens = 0
    BY DEF Store!NewWallet
  <2>3. Mine' = u /\ Store!Current' = Store!Current
    BY <1>2, <2>1 DEF Store!Then, Mine, Store!Recover, Store!Current
  <2>4. /\ Store!Current.tokens # 0 => "emptied" \in blame'[Store!Current.id]
        /\ Store!Current.key # key => "replaced" \in blame'[Store!Current.id]
    <3>1. blame' = [blame EXCEPT ![Store!Current.id] = @ \cup (Store!If("emptied", Store!Current.tokens # 0)
                       \cup Store!If("replaced", Store!Current.key # key)
                       \cup Store!If("renewed", keychain[u.id] # 0 \/ setting # {}))]
      BY <2>1, <2>2 DEF Store!Blame
    <3>2. /\ Store!Current.tokens # 0 => "emptied" \in Store!If("emptied", Store!Current.tokens # 0)
          /\ Store!Current.key # key => "replaced" \in Store!If("replaced", Store!Current.key # key)
      BY DEF Store!If
    <3>. QED
      BY <3>1, <3>2, <2>0, PartTypes
  <2>. HIDE DEF u
  <2>. QED
    BY <2>2, <2>3, <2>4 DEF RecoverInv
<1>3. CASE ~Store!Recover
  <2>1. job' = job /\ (Store!KeepPassword \/ UNCHANGED Store!vars)
    BY <1>3, JobNext
  <2>2. Store!Current' = Store!Current /\ Mine' = Mine
    BY <2>1 DEF Store!KeepPassword, Store!vars, Store!stores, Store!Current, Mine
  <2>3. Mine.id \in Store!Id
    BY <2>1, MineIs, FieldsIs
  <2>. QED
    BY <2>1, <2>2, <2>3, <1>1 DEF RecoverInv
<1>. QED
  BY <1>2, <1>3

(* The sequence has u as it is, if at all.                                 *)
UpToDate(s, u) == \A i \in 1..Len(s) : s[i].id = u.id => s[i] = u

LEMMA BroughtIs ==
    /\ \A u : Brought(u) <=> UpToDate(list, u)
    /\ Brought(Store!Current)' <=> UpToDate(list', Store!Current')
    /\ Brought(Mine)' <=> UpToDate(list', Mine')
BY DEF Brought, Store!Same, UpToDate

(* A write of u into the list brings u up to date there                    *)
LEMMA UpdateOn ==
    ASSUME StoreTypes, Distinct, NEW u \in Store!UserWallet, Store!Spared(u.id, {"killed"}), Store!UpdateWalletInList(u)
    PROVE  UpToDate(list', u)
<1>1. u.id \in Store!Id /\ list \in Seq(Store!UserWallet)
  BY FieldsIs, PartTypes
<1>2. \A i, j \in 1..Len(list) : list[i].id = u.id /\ list[j].id = u.id => i = j
  BY <1>1 DEF Distinct
<1>3. /\ Len(list') = Len(list)
      /\ \A i \in 1..Len(list) : list'[i].id = list[i].id
      /\ \A i \in 1..Len(list) : list[i].id = u.id => list'[i] = u
  BY <1>1, <1>2, UpdateIs
<1>. QED
  BY <1>3 DEF UpToDate

(* and no other wallet out of date.                                        *)
LEMMA UpdateOther ==
    ASSUME StoreTypes, NEW u \in Store!UserWallet, Store!UpdateWalletInList(u), NEW v, v.id # u.id, UpToDate(list, v)
    PROVE  UpToDate(list', v)
<1>1. list \in Seq(Store!UserWallet)
  BY PartTypes
<1>2. /\ Len(list') = Len(list)
      /\ \A i \in 1..Len(list) : /\ list'[i].id = list[i].id
                                 /\ list'[i] = list[i] \/ (list'[i] = u /\ list[i].id = u.id)
  BY <1>1, UpdateIs
<1>. QED
  BY <1>2 DEF UpToDate

KilledOrSnapshot == {"killed", "snapshot"}

LEMMA SparedBoth == \A w : Store!Spared(w, KilledOrSnapshot) => Store!Spared(w, {"killed"}) /\ Store!Spared(w, {"snapshot"})
BY DEF Store!Spared, KilledOrSnapshot

(* After a tap the current wallet is in the list as it is, unless the page *)
(* wrote back an earlier copy.                                             *)
LEMMA SelectBrings ==
    ASSUME StoreTypes, JobInv, ListInv, DateInv, StoreTypes', Store!SelectWallet, [Store!Next]_(Store!vars),
           Store!Spared(Store!Current.id, KilledOrSnapshot)'
    PROVE  UpToDate(list', Store!Current)
<1>. DEFINE u == switcher.currentUW[1]
<1>1. /\ Store!HasCurrent /\ Store!Current \in Store!UserWallet /\ wallet = <<Store!Current>> /\ Store!Current.id \in Store!Id
      /\ Store!Opened /\ u \in Store!UserWallet /\ u.id \in Store!Id /\ switcher.currentUW = <<u>>
      /\ Distinct /\ job.kind = "none"
  BY MineIs, FieldsIs DEF Store!SelectWallet, StoreTypes, ListInv, Store!Free, Store!Idle
<1>2. /\ Store!UpdateWalletInList(u) /\ Store!Blame(u.id, Store!If("snapshot", Store!Stored(u.id) # <<u>>))
      /\ wallet' = wallet
  BY DEF Store!SelectWallet
<1>3. Store!Spared(Store!Current.id, KilledOrSnapshot) /\ Store!Spared(Store!Current.id, {"snapshot"})'
  <2>1. Store!Current' = Store!Current
    BY <1>2 DEF Store!Current
  <2>. QED
    BY <2>1, <1>1, BlameGrows DEF Store!Spared, KilledOrSnapshot
<1>. HIDE DEF u
<1>4. CASE Store!Current.id = u.id
  <2>1. Store!Stored(u.id) = <<u>>
    <3>1. ASSUME Store!Stored(u.id) # <<u>> PROVE FALSE
      <4>1. "snapshot" \in Store!If("snapshot", Store!Stored(u.id) # <<u>>)
        BY <3>1 DEF Store!If
      <4>2. "snapshot" \in blame'[u.id]
        BY <4>1, <1>1, <1>2, PartTypes DEF Store!Blame
      <4>3. Store!Current' = Store!Current
        BY <1>2 DEF Store!Current
      <4>. QED
        BY <4>2, <4>3, <1>3, <1>4 DEF Store!Spared
    <3>. QED
      BY <3>1
  <2>2. Store!Stored(u.id) = wallet
    BY <1>1, <1>4 DEF Store!Stored
  <2>3. Store!Current = u
    BY <2>1, <2>2, <1>1
  <2>. QED
    BY <2>3, <1>1, <1>2, <1>3, SparedBoth, UpdateOn
<1>5. CASE Store!Current.id # u.id
  <2>1. switcher.currentUW # wallet
    BY <1>1, <1>5
  <2>2. UpToDate(list, Store!Current)
    BY <2>1, <1>1, <1>3, BroughtIs DEF DateInv, KilledOrSnapshot
  <2>. QED
    BY <2>2, <1>1, <1>2, <1>5, UpdateOther
<1>. QED
  BY <1>4, <1>5

(* The wallet in use has a number.                                         *)
CurrentId == Store!HasCurrent => Store!Current.id \in Store!Id

LEMMA CurrentIdIs == StoreTypes => CurrentId
BY MineIs, FieldsIs DEF CurrentId

LEMMA CurrentIdNext == StoreTypes' => CurrentId'
BY CurrentIdIs, PTL

DateSave    == job.kind \in {"save", "select"} => Brought(Store!Current)
DateOpen    == Store!Opened /\ job.kind # "recover" => Brought(Store!Current) \/ switcher.currentUW = wallet
DateRecover == job.kind = "recover" => Brought(Mine)

(* Pages and operations hold copies while others write; none that is       *)
(* written back later is out of date, but for the causes named.            *)
LEMMA DateStep ==
    StoreTypes /\ JobInv /\ FreshInv /\ ListInv /\ RecoverInv /\ DateInv /\ StoreTypes' /\ JobInv' /\ [Store!Next]_(Store!vars)
    => DateInv'
<1>. SUFFICES ASSUME StoreTypes, JobInv, FreshInv, ListInv, RecoverInv, DateInv, StoreTypes', JobInv', [Store!Next]_(Store!vars),
                     Store!HasCurrent', Store!Spared(Store!Current.id, KilledOrSnapshot)'
     PROVE  DateSave' /\ DateOpen' /\ DateRecover'
  BY DEF DateInv, DateSave, DateOpen, DateRecover, KilledOrSnapshot
<1>1. /\ (job = Store!Idle) <=> (job.kind = "none")
      /\ \A k, u : Store!Then(k, u) => job'.kind = k /\ Mine' = u
      /\ Store!Idle.kind = "none"
      /\ Store!HasCurrent => Store!Current \in Store!UserWallet /\ wallet = <<Store!Current>>
      /\ job.kind # "none" => Mine \in Store!UserWallet
  BY MineIs DEF Store!Then, Store!Idle, Mine
<1>2. Store!Current'.id \in Store!Id
  BY CurrentIdNext DEF CurrentId, Store!Id
<1>3. /\ Store!Spared(Store!Current'.id, KilledOrSnapshot) /\ Distinct
      /\ CurrentNext
      /\ \A w : Store!Spared(w, KilledOrSnapshot) => Store!Spared(w, {"killed"})
  <2>1. blame[Store!Current'.id] \subseteq blame'[Store!Current'.id]
    BY <1>2, BlameNext
  <2>. QED
    BY <2>1, CurrentStep, SparedBoth DEF Store!Spared, ListInv
<1>4. CASE switcher' = Store!Closed /\ ~(job'.kind \in {"save", "select", "recover"})
  <2>1. ~Store!Opened'
    BY <1>4 DEF Store!Opened, Store!Closed
  <2>. QED
    BY <2>1, <1>4 DEF DateSave, DateOpen, DateRecover
<1>5. CASE Store!SaveWalletInfo
  <2>1. wallet' = wallet /\ Store!HasCurrent /\ Store!UpdateWalletInList(Store!Current) /\ job'.kind = "save"
    BY <1>1, <1>5 DEF Store!SaveWalletInfo, Store!HasCurrent
  <2>2. UpToDate(list', Store!Current) /\ Store!Current' = Store!Current
    BY <2>1, <1>1, <1>3, UpdateOn DEF Store!Current
  <2>. QED
    BY <2>1, <2>2, BroughtIs DEF DateSave, DateOpen, DateRecover
<1>6. CASE Store!SelectWallet
  <2>1. UpToDate(list', Store!Current) /\ Store!Current' = Store!Current
    <3>1. wallet' = wallet
      BY <1>6 DEF Store!SelectWallet
    <3>2. Store!Current' = Store!Current
      BY <3>1 DEF Store!Current
    <3>. QED
      BY <1>6, <3>2, SelectBrings
  <2>2. job'.kind # "recover"
    BY <1>6, <1>1 DEF Store!SelectWallet, Store!Free
  <2>. QED
    BY <2>1, <2>2, BroughtIs DEF DateSave, DateOpen, DateRecover
<1>7. CASE Store!Recover
  <2>1. PICK key \in {Store!Current.key, made + 1} :
            LET u == Store!NewWallet(Store!Current.id, key, Store!Current.name) IN Store!UpdateWalletInList(u) /\ Store!Then("recover", u)
    BY <1>7 DEF Store!Recover
  <2>. DEFINE u == Store!NewWallet(Store!Current.id, key, Store!Current.name)
  <2>2. wallet' = wallet /\ Store!HasCurrent /\ made < MaxMake
    BY <1>7 DEF Store!Recover
  <2>3. u \in Store!UserWallet /\ u.id = Store!Current.id /\ Store!Current' = Store!Current
    BY <2>2, NewIs DEF Store!Current
  <2>4. Store!UpdateWalletInList(u) /\ Mine' = u /\ job'.kind = "recover"
    BY <2>1, <1>1
  <2>. HIDE DEF u
  <2>5. UpToDate(list', Mine')
    BY <2>3, <2>4, <1>3, UpdateOn
  <2>. QED
    BY <2>4, <2>5, BroughtIs DEF DateSave, DateOpen, DateRecover
<1>8. CASE Store!OpenSwitcher
  <2>1. switcher'.currentUW = wallet' /\ job' = job /\ job.kind = "none"
    BY <1>8, <1>1 DEF Store!OpenSwitcher, Store!stores, Store!Free
  <2>. QED
    BY <2>1 DEF DateSave, DateOpen, DateRecover
<1>9. CASE Store!SelectCurrent
  <2>1. switcher'.currentUW = wallet' /\ job'.kind = "none"
    BY <1>9, <1>1, PartTypes DEF Store!SelectCurrent, Store!SetCurrentWallet
  <2>. QED
    BY <2>1 DEF DateSave, DateOpen, DateRecover
<1>10. CASE Store!SaveCurrent \/ Store!SaveAppend
  <2>1. /\ job.kind \in {"save", "append"} /\ job'.kind \in {"append", "none"}
        /\ Store!Current' = Mine
    <3>1. Store!SaveCurrent => Store!Current' = Mine
      BY DEF Store!SaveCurrent, Store!SetCurrentWallet, Store!Current, Mine
    <3>2. Store!SaveAppend => Store!Current' = Mine
      BY FreshParts DEF Store!SaveAppend, Fresh3, Store!Current, Mine
    <3>. QED
      BY <3>1, <3>2, <1>1, <1>10 DEF Store!SaveCurrent, Store!SaveAppend
  <2>2. ~IdListed(Mine.id)
    BY <2>1, CopyIs, FreshParts DEF Fresh2, IdListed, CopyFacts
  <2>3. IdsNext /\ (list' = list \/ Store!SaveAppend)
    BY <1>10, IdsStep DEF Store!SaveCurrent
  <2>4. UpToDate(list', Mine)
    BY <2>2, <2>3 DEF IdsNext, IdListed, UpToDate, Grows
  <2>. QED
    BY <2>1, <2>4, BroughtIs DEF DateSave, DateOpen, DateRecover
<1>11. CASE Store!RecoverCurrent
  <2>1. Store!HasCurrent /\ Store!Current' = Mine /\ list' = list /\ job.kind = "recover" /\ job'.kind = "none"
        /\ Mine.id = Store!Current.id
    BY <1>11, <1>1 DEF Store!RecoverCurrent, Store!SetCurrentWallet, Store!Current, Mine, JobInv, RecoverInv
  <2>2. UpToDate(list, Mine)
    BY <2>1, <1>3, BroughtIs DEF DateInv, KilledOrSnapshot
  <2>. QED
    BY <2>1, <2>2, BroughtIs DEF DateSave, DateOpen, DateRecover
<1>12. CASE Store!KeepPassword \/ UNCHANGED Store!vars
  <2>1. UNCHANGED <<wallet, list, job, switcher>>
    BY <1>12 DEF Store!KeepPassword, Store!vars, Store!stores
  <2>2. DateSave /\ DateOpen /\ DateRecover /\ Store!HasCurrent /\ Store!Current' = Store!Current /\ Mine' = Mine
    BY <2>1, <1>3 DEF DateInv, DateSave, DateOpen, DateRecover, KilledOrSnapshot, Store!HasCurrent, Store!Current, Mine
  <2>. QED
    BY <2>1, <2>2, BroughtIs DEF DateSave, DateOpen, DateRecover, Store!Opened
<1>13. CASE Store!Launch \/ Store!MigrateCurrent \/ Store!MigrateList \/ Store!ClearOldKey \/ Store!SaveEnabledContract \/ Store!Rename
            \/ Store!RenameList \/ Store!LeaveSwitcher \/ Store!Kill
  <2>1. switcher' = Store!Closed
    BY <1>13, <1>1 DEF JobInv, Store!Launch, Store!MigrateCurrent, Store!MigrateList, Store!ClearOldKey, Store!SaveEnabledContract, Store!Rename,
       Store!RenameList, Store!LeaveSwitcher, Store!Kill, Store!Opened
  <2>2. ~(job'.kind \in {"save", "select", "recover"})
    BY <1>13, <1>1 DEF Store!Launch, Store!MigrateCurrent, Store!MigrateList, Store!ClearOldKey, Store!SaveEnabledContract, Store!Rename,
       Store!RenameList, Store!LeaveSwitcher, Store!Kill, Store!Free
  <2>. QED
    BY <2>1, <2>2, <1>4
<1>. QED
  BY <1>5, <1>6, <1>7, <1>8, <1>9, <1>10, <1>11, <1>12, <1>13 DEF Store!Next

-----------------------------------------------------------------------------
(* What a recovery makes, and whom it blames                               *)
LEMMA RecoverIs ==
    ASSUME StoreTypes, Store!Recover
    PROVE  /\ Store!HasCurrent /\ Store!Current \in Store!UserWallet /\ Store!Current \in Copies /\ Store!Current.id \in Store!Id
           /\ saved' = saved /\ keychain' = keychain /\ setting' = setting /\ made' = made + 1 /\ made < MaxMake
           /\ job.kind = "none"
           /\ \E u \in Store!UserWallet :
                /\ Store!Then("recover", u) /\ u.id = Store!Current.id /\ u.pwd = made + 1
                /\ u.key # Store!Current.key => ~Store!Spared(Store!Current.id, {"replaced"})'
                /\ keychain[Store!Current.id] # 0 \/ setting # {} => ~Store!Spared(Store!Current.id, {"renewed"})'
<1>1. /\ Store!HasCurrent /\ Store!Current \in Store!UserWallet /\ Store!Current \in Copies /\ Store!Current.id \in Store!Id
      /\ saved' = saved /\ keychain' = keychain /\ setting' = setting /\ made' = made + 1 /\ made < MaxMake
      /\ job.kind = "none"
  BY MineIs, FieldsIs, CopyIs DEF Store!Recover, CopyFacts, Store!Free, Store!Idle
<1>2. PICK key \in {Store!Current.key, made + 1} :
            LET u == Store!NewWallet(Store!Current.id, key, Store!Current.name) IN
            /\ Store!Then("recover", u)
            /\ Store!Blame(u.id, Store!If("emptied", Store!Current.tokens # 0) \cup Store!If("replaced", Store!Current.key # key)
                       \cup Store!If("renewed", keychain[u.id] # 0 \/ setting # {}))
  BY DEF Store!Recover
<1>. DEFINE u == Store!NewWallet(Store!Current.id, key, Store!Current.name)
<1>3. u \in Store!UserWallet /\ u.id = Store!Current.id /\ u.pwd = made + 1 /\ u.key = key
  BY <1>1, NewIs DEF Store!NewWallet
<1>4. blame' = [blame EXCEPT ![Store!Current.id] = @ \cup (Store!If("emptied", Store!Current.tokens # 0)
                   \cup Store!If("replaced", Store!Current.key # key)
                   \cup Store!If("renewed", keychain[Store!Current.id] # 0 \/ setting # {}))]
  BY <1>2, <1>3 DEF Store!Blame
<1>5. /\ Store!Current.key # key => "replaced" \in blame'[Store!Current.id]
      /\ keychain[Store!Current.id] # 0 \/ setting # {} => "renewed" \in blame'[Store!Current.id]
  <2>1. /\ Store!Current.key # key => "replaced" \in Store!If("replaced", Store!Current.key # key)
        /\ keychain[Store!Current.id] # 0 \/ setting # {}
           => "renewed" \in Store!If("renewed", keychain[Store!Current.id] # 0 \/ setting # {})
    BY DEF Store!If
  <2>. QED
    BY <1>4, <2>1, <1>1, PartTypes
<1>6. Store!Then("recover", u) /\ wallet' = wallet
  BY <1>2 DEF Store!Recover
<1>. HIDE DEF u
<1>7. Store!Current' = Store!Current
  BY <1>6 DEF Store!Current
<1>8. /\ "replaced" \in blame'[Store!Current.id] => ~Store!Spared(Store!Current.id, {"replaced"})'
      /\ "renewed" \in blame'[Store!Current.id] => ~Store!Spared(Store!Current.id, {"renewed"})'
  BY <1>7 DEF Store!Spared
<1>. QED
  BY <1>1, <1>3, <1>5, <1>6, <1>8

(* What an edit does.                                                      *)
LEMMA EditIs ==
    ASSUME StoreTypes, Store!SaveEnabledContract \/ Store!Rename, CopiesNext
    PROVE  /\ Store!HasCurrent /\ Store!Current \in Store!UserWallet /\ Store!Current \in Copies /\ Store!Current.id \in Store!Id
           /\ keychain' = keychain /\ setting' = setting /\ job.kind = "none" /\ blame' = blame /\ old' = old
           /\ job'.kind \in {"none", "rename"}
           /\ \E u : /\ u.id = Store!Current.id /\ u.pwd = Store!Current.pwd /\ u.key = Store!Current.key
                     /\ wallet' = <<u>> /\ saved' = [saved EXCEPT ![Store!Current.id] = <<u>>]
                     /\ Copies' \subseteq Others \cup {u}
<1>1. /\ Store!HasCurrent /\ Store!Current \in Store!UserWallet /\ Store!Current \in Copies /\ Store!Current.id \in Store!Id
      /\ keychain' = keychain /\ setting' = setting /\ job.kind = "none" /\ blame' = blame /\ old' = old
      /\ job'.kind \in {"none", "rename"}
  BY MineIs, FieldsIs, CopyIs DEF Store!SaveEnabledContract, Store!Rename, CopyFacts, Store!Free, Store!Idle, Store!Then
<1>2. /\ [Store!Current EXCEPT !.tokens = changes + 1].id = Store!Current.id
      /\ [Store!Current EXCEPT !.tokens = changes + 1].pwd = Store!Current.pwd
      /\ [Store!Current EXCEPT !.tokens = changes + 1].key = Store!Current.key
      /\ [Store!Current EXCEPT !.name = changes + 1].id = Store!Current.id
      /\ [Store!Current EXCEPT !.name = changes + 1].pwd = Store!Current.pwd
      /\ [Store!Current EXCEPT !.name = changes + 1].key = Store!Current.key
  BY <1>1 DEF Store!UserWallet
<1>3. CASE Store!SaveEnabledContract
  <2>. DEFINE u == [Store!Current EXCEPT !.tokens = changes + 1]
  <2>1. /\ u.id = Store!Current.id /\ u.pwd = Store!Current.pwd /\ u.key = Store!Current.key
        /\ wallet' = <<u>> /\ saved' = [saved EXCEPT ![u.id] = <<u>>]
        /\ Copies' \subseteq Others \cup {u}
    BY <1>2, <1>3 DEF Store!SaveEnabledContract, Store!SetCurrentWallet, CopiesNext
  <2>. HIDE DEF u
  <2>. QED
    BY <1>1, <2>1
<1>4. CASE Store!Rename
  <2>. DEFINE u == [Store!Current EXCEPT !.name = changes + 1]
  <2>1. /\ u.id = Store!Current.id /\ u.pwd = Store!Current.pwd /\ u.key = Store!Current.key
        /\ wallet' = <<u>> /\ saved' = [saved EXCEPT ![u.id] = <<u>>]
        /\ Copies' \subseteq Others \cup {u}
    BY <1>2, <1>4 DEF Store!Rename, Store!SetCurrentWallet, CopiesNext
  <2>. HIDE DEF u
  <2>. QED
    BY <1>1, <2>1
<1>. QED
  BY <1>3, <1>4

(* What a start does.                                                      *)
LEMMA LaunchIs ==
    ASSUME StoreTypes, JobInv, OldInv, Store!Launch, StoreTypes'
    PROVE  /\ saved' = saved /\ keychain' = keychain /\ setting' = {} /\ setting = {} /\ blame' = blame
           /\ job.kind = "none" /\ job'.kind \in {"none", "migrate"}
           /\ Copies' \subseteq Copies \/ (Copies' \subseteq Copies \cup {Store!OldWallet} /\ old = 3 /\ saved[0] = <<Store!OldWallet>>)
<1>1. /\ saved' = saved /\ keychain' = keychain /\ setting' = {} /\ setting = {} /\ blame' = blame
      /\ job = Store!Idle /\ job'.kind \in {"none", "migrate"}
  BY DEF Store!Launch, JobInv, Store!stores, Store!Idle
<1>2. /\ Others' = Elems(list') \cup Elems(wallet') \cup Elems(switcher'.wallets) \cup Elems(switcher'.currentUW)
      /\ Copies' = Others' \cup Elems(job'.wallet)
      /\ Copies = Others \cup Elems(job.wallet)
  BY DEF Copies, Others
<1>3. Others' = Others
  BY <1>2 DEF Store!Launch, Store!stores, Others
<1>4. CASE old = 3
  <2>1. Elems(job'.wallet) \subseteq {Store!OldWallet}
    BY <1>4, IdIs, OneElem DEF Store!Launch, Store!Idle
  <2>. QED
    BY <1>1, <1>2, <1>3, <1>4, <2>1 DEF OldInv, Store!Idle
<1>5. CASE old # 3
  <2>1. Elems(job'.wallet) = {}
    BY <1>5, IdIs, OneElem DEF Store!Launch, Store!Idle
  <2>. QED
    BY <1>1, <1>2, <1>3, <2>1 DEF Store!Idle
<1>. QED
  BY <1>4, <1>5

-----------------------------------------------------------------------------
(* Keys and passwords                                                      *)

(* Only a recovery changes the key of a wallet.                            *)
LEMMA KeyStep ==
    StoreTypes /\ JobInv /\ OldInv /\ FreshInv /\ RecoverInv /\ KeyInv /\ StoreTypes' /\ [Store!Next]_(Store!vars) => KeyInv'
<1>. SUFFICES ASSUME StoreTypes, JobInv, OldInv, FreshInv, RecoverInv, KeyInv, StoreTypes', [Store!Next]_(Store!vars),
                     NEW w \in Store!Id, saved'[w] # <<>>, Store!Spared(w, {"replaced"})',
                     NEW u \in Copies', u.id = w
     PROVE  u.key = saved'[w][1].key
  BY DEF KeyInv
<1>1. /\ Store!Spared(w, {"replaced"}) /\ CopiesNext /\ Others \subseteq Copies
      /\ saved \in [Store!Id -> Store!BoundedSeq(Store!UserWallet, 1)]
  BY BlameGrows, CopiesStep, CopyIs, PartTypes DEF CopyFacts
<1>2. ASSUME saved[w] # <<>>, NEW v \in Copies, v.id = w PROVE v.key = saved[w][1].key
  BY <1>1, <1>2 DEF KeyInv
<1>3. CASE saved' = saved /\ Copies' \subseteq Copies
  BY <1>2, <1>3
<1>4. CASE Store!Launch
  <2>1. u \in Copies \/ (u = Store!OldWallet /\ saved[0] = <<Store!OldWallet>>)
    BY <1>4, LaunchIs
  <2>. QED
    BY <2>1, <1>2, <1>4, LaunchIs, IdIs
<1>5. CASE Store!SaveWalletInfo
  <2>1. saved' = saved /\ made < MaxMake
    BY <1>5 DEF Store!SaveWalletInfo
  <2>2. u \in Copies \/ u = Store!NewWallet(made + 1, made + 1, 0)
    BY <1>5, <1>1 DEF CopiesNext
  <2>3. CASE u = Store!NewWallet(made + 1, made + 1, 0)
    <3>1. w = made + 1 /\ made \in Nat
      BY <2>3, PartTypes DEF Store!NewWallet
    <3>2. saved[w] = <<>>
      BY <3>1, FreshParts DEF Fresh1
    <3>. QED
      BY <2>1, <3>2
  <2>. QED
    BY <2>1, <2>2, <2>3, <1>2
<1>6. CASE Store!Recover
  <2>1. PICK v \in Store!UserWallet :
                /\ Store!Then("recover", v) /\ v.id = Store!Current.id
                /\ v.key # Store!Current.key => ~Store!Spared(Store!Current.id, {"replaced"})'
    BY <1>6, RecoverIs
  <2>2. u \in Others \cup {v} /\ saved' = saved /\ Store!Current \in Copies
    BY <1>6, <1>1, <2>1, RecoverIs DEF CopiesNext
  <2>3. CASE u = v
    <3>1. Store!Current.id = w
      BY <2>1, <2>3
    <3>2. Store!Spared(Store!Current.id, {"replaced"})'
      <4>1. Store!Current' = Store!Current
        BY <1>6 DEF Store!Recover, Store!Current
      <4>. QED
        BY <3>1, <4>1 DEF Store!Spared
    <3>. QED
      BY <2>1, <2>2, <2>3, <3>1, <3>2, <1>2
  <2>. QED
    BY <2>2, <2>3, <1>1, <1>2
<1>7. CASE Store!SaveEnabledContract \/ Store!Rename
  <2>1. PICK v : /\ v.id = Store!Current.id /\ v.key = Store!Current.key
                 /\ saved' = [saved EXCEPT ![Store!Current.id] = <<v>>]
                 /\ Copies' \subseteq Others \cup {v}
    BY <1>7, <1>1, EditIs
  <2>2. Store!Current \in Copies /\ Store!Current.id \in Store!Id /\ Store!HasCurrent /\ Store!Current \in Others
    BY <1>7, <1>1, EditIs, CopyIs DEF CopyFacts
  <2>3. saved[Store!Current.id] # <<>>
    BY <2>2, FreshParts DEF Fresh4
  <2>4. CASE Store!Current.id = w
    BY <2>1, <2>2, <2>3, <2>4, <1>1, <1>2
  <2>5. CASE Store!Current.id # w
    <3>1. saved'[w] = saved[w] /\ u \in Copies
      BY <2>1, <2>5, <1>1
    <3>. QED
      BY <3>1, <1>2
  <2>. QED
    BY <2>4, <2>5
<1>8. CASE Store!SaveCurrent
  <2>1. /\ saved' = [saved EXCEPT ![Mine.id] = <<Mine>>] /\ job.kind = "save" /\ Mine.id \in Store!Id
        /\ ~(Store!Launch \/ Store!SaveWalletInfo \/ Store!Recover \/ Store!SaveEnabledContract \/ Store!Rename)
    BY <1>8, MineIs, FieldsIs DEF Store!SaveCurrent, Mine, Store!Launch, Store!SaveWalletInfo, Store!Recover, Store!SaveEnabledContract,
       Store!Rename, Store!Free, Store!Idle, JobInv
  <2>2. u \in Copies
    BY <2>1, <1>1 DEF CopiesNext
  <2>3. CASE w = Mine.id
    <3>1. \A v \in Others : v.id # Mine.id
      BY <2>1, FreshParts DEF Fresh2, Fresh3, Others
    <3>2. u = Mine
      <4>1. Copies = Others \cup {Mine}
        BY <2>1, CopyIs DEF Copies, CopyFacts
      <4>. QED
        BY <2>2, <2>3, <3>1, <4>1
    <3>. QED
      BY <2>1, <2>3, <3>2, <1>1
  <2>4. CASE w # Mine.id
    <3>1. saved'[w] = saved[w]
      BY <2>1, <2>4, <1>1
    <3>. QED
      BY <2>2, <3>1, <1>2
  <2>. QED
    BY <2>3, <2>4
<1>9. CASE Store!RecoverCurrent
  <2>1. /\ saved' = [saved EXCEPT ![Mine.id] = <<[Mine EXCEPT !.tokens = Store!Current.tokens]>>]
        /\ job.kind = "recover" /\ Mine.id \in Store!Id /\ Mine \in Store!UserWallet /\ Mine \in Copies
        /\ Store!HasCurrent /\ Store!Current \in Copies /\ Store!Current \in Others /\ Mine.id = Store!Current.id
        /\ Mine.key # Store!Current.key => "replaced" \in blame[Mine.id]
        /\ ~(Store!Launch \/ Store!SaveWalletInfo \/ Store!Recover \/ Store!SaveEnabledContract \/ Store!Rename)
    BY <1>9, MineIs, FieldsIs, CopyIs DEF Store!RecoverCurrent, Mine, Store!Launch, Store!SaveWalletInfo, Store!Recover,
       Store!SaveEnabledContract, Store!Rename, Store!Free, Store!Idle, JobInv, RecoverInv, CopyFacts
  <2>2. u \in Copies
    BY <2>1, <1>1 DEF CopiesNext
  <2>3. CASE w = Mine.id
    <3>1. saved[w] # <<>>
      BY <2>1, <2>3, FreshParts DEF Fresh4
    <3>2. Mine.key = Store!Current.key
      BY <2>1, <2>3, <1>1 DEF Store!Spared
    <3>3. [Mine EXCEPT !.tokens = Store!Current.tokens].key = Mine.key
      BY <2>1 DEF Store!UserWallet
    <3>4. saved'[w][1].key = saved[w][1].key
      BY <2>1, <2>3, <3>1, <3>2, <3>3, <1>1, <1>2
    <3>. QED
      BY <2>2, <3>1, <3>4, <1>2
  <2>4. CASE w # Mine.id
    <3>1. saved'[w] = saved[w]
      BY <2>1, <2>4, <1>1
    <3>. QED
      BY <2>2, <3>1, <1>2
  <2>. QED
    BY <2>3, <2>4
<1>10. CASE ~(Store!Launch \/ Store!SaveWalletInfo \/ Store!Recover \/ Store!SaveEnabledContract \/ Store!Rename \/ Store!SaveCurrent
              \/ Store!RecoverCurrent)
  <2>1. Copies' \subseteq Copies
    BY <1>10, <1>1 DEF CopiesNext
  <2>2. saved' = saved
    BY <1>10 DEF Store!Next, Store!vars, Store!MigrateCurrent, Store!MigrateList, Store!ClearOldKey,
       Store!SaveAppend, Store!KeepPassword, Store!RenameList, Store!OpenSwitcher, Store!LeaveSwitcher, Store!SelectWallet, Store!SelectCurrent, Store!Kill
  <2>. QED
    BY <2>1, <2>2, <1>3
<1>. QED
  BY <1>4, <1>5, <1>6, <1>7, <1>8, <1>9, <1>10

(* PasswordInv in parts.                                                   *)
PasswordNew == \A p \in 1..MaxMake : NewPassword(p) =>
    \A u \in Copies : /\ u.pwd = p => u.id = p
                      /\ u.id = p /\ Store!Spared(p, {"renewed"}) => u.pwd = p
PasswordKept == \A w \in Store!Id : keychain[w] # 0 /\ Store!Spared(w, {"renewed", "switched"})
    => \A u \in Copies : u.id = w => u.pwd = keychain[w]
PasswordOld == old = 3 => keychain[0] \in {0, Store!OldPwd}

LEMMA PasswordParts == PasswordInv <=> PasswordNew /\ PasswordKept /\ PasswordOld
BY DEF PasswordInv, PasswordNew, PasswordKept, PasswordOld

(* Which passwords are new, and which wallets the step brings              *)
LEMMA NewNext == StoreTypes /\ JobInv /\ FreshInv /\ [Store!Next]_(Store!vars)
    => \A p : NewPassword(p)' => NewPassword(p) \/ (Store!SaveWalletInfo /\ p = made + 1)
<1>. SUFFICES ASSUME StoreTypes, JobInv, FreshInv, [Store!Next]_(Store!vars), NEW p, NewPassword(p)'
     PROVE NewPassword(p) \/ (Store!SaveWalletInfo /\ p = made + 1)
  OBVIOUS
<1>1. /\ Store!Idle.kind = "none"
      /\ \A k, u : Store!Then(k, u) => job'.kind = k /\ Mine' = u
  BY DEF Store!Idle, Store!Then, Mine
<1>2. CASE Store!SaveWalletInfo
  <2>1. Mine'.pwd = made + 1 /\ setting' = setting
    BY <1>1, <1>2 DEF Store!SaveWalletInfo, Store!NewWallet
  <2>. QED
    BY <1>2, <2>1 DEF NewPassword
<1>3. CASE Store!SaveCurrent
  <2>1. Mine' = Mine /\ setting' = setting /\ job.kind = "save"
    BY <1>1, <1>3 DEF Store!SaveCurrent, Mine
  <2>. QED
    BY <2>1 DEF NewPassword
<1>4. CASE Store!SaveAppend
  <2>1. setting' = setting \cup {Mine.pwd} /\ job.kind = "append" /\ job'.kind = "none"
    BY <1>1, <1>4 DEF Store!SaveAppend, Mine
  <2>. QED
    BY <2>1 DEF NewPassword
<1>5. CASE Store!KeepPassword \/ UNCHANGED Store!vars
  <2>1. setting' \subseteq setting /\ job' = job /\ Mine' = Mine
    BY <1>5 DEF Store!KeepPassword, Store!vars, Mine
  <2>. QED
    BY <2>1 DEF NewPassword
<1>6. CASE ~(Store!SaveWalletInfo \/ Store!SaveCurrent \/ Store!SaveAppend \/ Store!KeepPassword \/ UNCHANGED Store!vars)
  <2>1. setting' \subseteq setting
    BY <1>6 DEF Store!Next, Store!Launch, Store!MigrateCurrent, Store!MigrateList, Store!ClearOldKey,
       Store!Recover, Store!RecoverCurrent, Store!SaveEnabledContract, Store!Rename, Store!RenameList, Store!OpenSwitcher, Store!LeaveSwitcher,
       Store!SelectWallet, Store!SelectCurrent, Store!Kill
  <2>2. ~(job'.kind \in {"save", "append"})
    <3>1. CASE Store!Launch \/ Store!MigrateCurrent \/ Store!MigrateList \/ Store!RecoverCurrent \/ Store!Rename \/ Store!RenameList
               \/ Store!SelectCurrent \/ Store!Kill
      BY <1>1, <3>1 DEF Store!Launch, Store!MigrateCurrent, Store!MigrateList, Store!RecoverCurrent, Store!Rename, Store!RenameList,
         Store!SelectCurrent, Store!Kill
    <3>2. CASE Store!ClearOldKey
      BY <1>1, <3>2 DEF Store!ClearOldKey
    <3>3. CASE Store!Recover \/ Store!SelectWallet
      BY <1>1, <3>3 DEF Store!Recover, Store!SelectWallet, Store!Free
    <3>4. CASE Store!SaveEnabledContract \/ Store!OpenSwitcher \/ Store!LeaveSwitcher
      BY <1>1, <3>4 DEF Store!SaveEnabledContract, Store!OpenSwitcher, Store!LeaveSwitcher, Store!Free
    <3>. QED
      BY <1>6, <3>1, <3>2, <3>3, <3>4 DEF Store!Next
  <2>. QED
    BY <2>1, <2>2 DEF NewPassword
<1>. QED
  BY <1>2, <1>3, <1>4, <1>5, <1>6

(* A new password is known to its own wallet only, until it is kept.       *)
LEMMA PasswordNewStep ==
    StoreTypes /\ JobInv /\ OldInv /\ FreshInv /\ PasswordNew /\ StoreTypes' /\ [Store!Next]_(Store!vars) => PasswordNew'
<1>. SUFFICES ASSUME StoreTypes, JobInv, OldInv, FreshInv, PasswordNew, StoreTypes', [Store!Next]_(Store!vars),
                     NEW p \in 1..MaxMake, NewPassword(p)', NEW u \in Copies'
     PROVE  /\ u.pwd = p => u.id = p
            /\ u.id = p /\ Store!Spared(p, {"renewed"})' => u.pwd = p
  BY DEF PasswordNew
<1>1. /\ CopiesNext /\ Others \subseteq Copies /\ made \in Nat /\ MaxMake \in Nat /\ p \in Store!Id
      /\ \A v \in Copies : v.id \in Nat /\ v.pwd \in Nat /\ v.id <= made /\ (v.pwd <= made \/ v.pwd = MaxMake + 1)
      /\ Store!Spared(p, {"renewed"})' => Store!Spared(p, {"renewed"})
  <2>1. p \in Store!Id /\ MaxMake \in Nat
    BY DEF Store!Id, Store!BoundAssumption
  <2>2. \A v \in Copies : v.id \in Nat /\ v.pwd \in Nat
    BY <2>1, CopyIs, FieldsIs DEF CopyFacts, Store!Id
  <2>. QED
    BY <2>1, <2>2, CopiesStep, CopyIs, PartTypes, BlameGrows DEF CopyFacts, FreshInv, Store!OldPwd
<1>2. CASE ~NewPassword(p)
  <2>1. Store!SaveWalletInfo /\ p = made + 1
    BY <1>2, NewNext
  <2>2. u \in Copies \/ (u.id = p /\ u.pwd = p)
    BY <2>1, <1>1 DEF CopiesNext, Store!NewWallet
  <2>. QED
    BY <2>1, <2>2, <1>1
<1>3. CASE NewPassword(p)
  <2>1. \A v \in Copies : /\ v.pwd = p => v.id = p
                          /\ v.id = p /\ Store!Spared(p, {"renewed"}) => v.pwd = p
    BY <1>3 DEF PasswordNew
  <2>2. CASE u \in Copies
    BY <2>1, <2>2, <1>1
  <2>3. p <= made
    BY <1>3, <1>1, FreshParts DEF NewPassword, Fresh1, Fresh2
  <2>4. CASE Store!SaveWalletInfo
    <3>1. u \in Copies \/ (u.id = made + 1 /\ u.pwd = made + 1)
      BY <2>4, <1>1 DEF CopiesNext, Store!NewWallet
    <3>. QED
      BY <3>1, <2>2, <2>3, <1>1
  <2>5. CASE Store!Launch
    <3>1. u \in Copies
      BY <2>5, <1>3, LaunchIs DEF NewPassword
    <3>. QED
      BY <3>1, <2>2
  <2>6. CASE Store!Recover
    <3>1. PICK v \in Store!UserWallet :
                /\ Store!Then("recover", v) /\ v.id = Store!Current.id /\ v.pwd = made + 1
                /\ setting # {} => ~Store!Spared(Store!Current.id, {"renewed"})'
      BY <2>6, RecoverIs
    <3>2. u \in Copies \/ u = v
      BY <2>6, <3>1, <1>1 DEF CopiesNext
    <3>3. setting # {}
      BY <2>6, <1>3, RecoverIs DEF NewPassword
    <3>4. Store!Current.id = p => ~Store!Spared(p, {"renewed"})'
      <4>1. Store!Current' = Store!Current
        BY <2>6 DEF Store!Recover, Store!Current
      <4>. QED
        BY <3>1, <3>3, <4>1 DEF Store!Spared
    <3>. QED
      BY <3>1, <3>2, <3>4, <2>2, <2>3, <1>1
  <2>7. CASE Store!SaveEnabledContract \/ Store!Rename
    <3>1. PICK v : v.id = Store!Current.id /\ v.pwd = Store!Current.pwd /\ Copies' \subseteq Others \cup {v}
      BY <2>7, <1>1, EditIs
    <3>2. Store!Current \in Copies /\ (u \in Copies \/ u = v)
      BY <2>7, <3>1, <1>1, EditIs
    <3>. QED
      BY <3>1, <3>2, <2>1, <1>1
  <2>8. CASE ~(Store!Launch \/ Store!SaveWalletInfo \/ Store!Recover \/ Store!SaveEnabledContract \/ Store!Rename)
    BY <2>2, <2>8, <1>1 DEF CopiesNext
  <2>. QED
    BY <2>4, <2>5, <2>6, <2>7, <2>8
<1>. QED
  BY <1>2, <1>3

(* What keeping a password does, whichever wallet is in use by then.       *)
LEMMA KeepIs ==
    ASSUME StoreTypes, Store!KeepPassword
    PROVE  /\ Store!Current.id \in Store!Id /\ Store!HasCurrent /\ Store!Current \in Copies /\ setting # {}
           /\ keychain' = keychain
              \/ \E p \in setting : /\ keychain' = [keychain EXCEPT ![Store!Current.id] = p]
                                    /\ Store!Current.pwd # p => "switched" \in blame'[Store!Current.id]
<1>1. PICK p \in setting :
        \/ /\ keychain' = [keychain EXCEPT ![Store!Current.id] = p]
           /\ Store!Blame(Store!Current.id, Store!If("switched", Store!Current.pwd # p))
        \/ UNCHANGED <<keychain, blame>>
  BY DEF Store!KeepPassword
<1>2. Store!HasCurrent /\ Store!Current.id \in Store!Id /\ Store!Current \in Copies
  BY CopyIs, MineIs, FieldsIs DEF StoreTypes, CopyFacts
<1>3. Store!Blame(Store!Current.id, Store!If("switched", Store!Current.pwd # p)) /\ Store!Current.pwd # p
      => "switched" \in blame'[Store!Current.id]
  BY <1>2, PartTypes DEF Store!Blame, Store!If
<1>. QED
  BY <1>1, <1>2, <1>3

LEMMA KeychainNext == [Store!Next]_(Store!vars) => keychain' = keychain \/ Store!KeepPassword
BY DEF Store!Next, Store!vars, Store!stores, Store!Launch, Store!MigrateCurrent, Store!MigrateList, Store!ClearOldKey, Store!SaveWalletInfo,
     Store!SaveCurrent, Store!SaveAppend, Store!Recover, Store!RecoverCurrent, Store!SaveEnabledContract, Store!Rename,
     Store!RenameList, Store!OpenSwitcher, Store!LeaveSwitcher, Store!SelectWallet, Store!SelectCurrent, Store!Kill

(* Nothing else writes to the keychain, and no copy changes its password.  *)
LEMMA PasswordKeptStep ==
    StoreTypes /\ JobInv /\ OldInv /\ FreshInv /\ PasswordNew /\ PasswordKept /\ PasswordOld /\ StoreTypes' /\ [Store!Next]_(Store!vars) => PasswordKept'
<1>. SUFFICES ASSUME StoreTypes, JobInv, OldInv, FreshInv, PasswordNew, PasswordKept, PasswordOld, StoreTypes', [Store!Next]_(Store!vars),
                     NEW w \in Store!Id, keychain'[w] # 0, Store!Spared(w, {"renewed", "switched"})',
                     NEW u \in Copies', u.id = w
     PROVE  u.pwd = keychain'[w]
  BY DEF PasswordKept
<1>1. /\ CopiesNext /\ Others \subseteq Copies
      /\ keychain \in [Store!Id -> 0..Store!OldPwd]
      /\ Store!Spared(w, {"renewed", "switched"}) /\ Store!Spared(w, {"renewed"})
  <2>1. Store!Spared(w, {"renewed", "switched"})
    BY BlameGrows
  <2>2. Store!Spared(w, {"renewed"})
    BY <2>1 DEF Store!Spared
  <2>. QED
    BY <2>1, <2>2, CopiesStep, CopyIs, PartTypes DEF CopyFacts
<1>2. ASSUME keychain[w] # 0, NEW v \in Copies, v.id = w PROVE v.pwd = keychain[w]
  BY <1>1, <1>2 DEF PasswordKept
<1>3. CASE Store!KeepPassword
  <2>1. u \in Copies
    <3>1. ~(Store!Launch \/ Store!SaveWalletInfo \/ Store!Recover \/ Store!SaveEnabledContract \/ Store!Rename)
      <4>1. setting' # setting /\ job' = job /\ switcher' = switcher /\ running' = running
        BY <1>3 DEF Store!KeepPassword
      <4>. QED
        BY <4>1 DEF Store!Launch, Store!SaveWalletInfo, Store!Recover, Store!SaveEnabledContract, Store!Rename
    <3>. QED
      BY <3>1, <1>1 DEF CopiesNext
  <2>2. CASE keychain'[w] = keychain[w]
    BY <2>1, <2>2, <1>2
  <2>3. CASE keychain'[w] # keychain[w]
    <3>1. PICK p \in setting : /\ keychain' = [keychain EXCEPT ![Store!Current.id] = p]
                               /\ Store!Current.pwd # p => "switched" \in blame'[Store!Current.id]
      BY <1>3, <2>3, KeepIs
    <3>2. w = Store!Current.id /\ keychain'[w] = p
      BY <3>1, <2>3, <1>1, <1>3, KeepIs
    <3>3. Store!Current.pwd = p
      BY <3>1, <3>2 DEF Store!Spared
    <3>4. NewPassword(p) /\ p \in 1..MaxMake
      BY PartTypes DEF NewPassword
    <3>5. w = p
      BY <3>2, <3>3, <3>4, <1>3, KeepIs DEF PasswordNew
    <3>. QED
      BY <2>1, <3>2, <3>4, <3>5, <1>1 DEF PasswordNew
  <2>. QED
    BY <2>2, <2>3
<1>4. CASE keychain' = keychain
  <2>1. CASE u \in Copies
    BY <2>1, <1>2, <1>4
  <2>2. CASE Store!SaveWalletInfo
    <3>1. u \in Copies \/ u = Store!NewWallet(made + 1, made + 1, 0)
      BY <2>2, <1>1 DEF CopiesNext
    <3>2. ASSUME u = Store!NewWallet(made + 1, made + 1, 0) PROVE FALSE
      <4>1. w = made + 1 /\ made \in Nat
        BY <3>2, PartTypes DEF Store!NewWallet
      <4>. QED
        BY <4>1, <1>4, FreshParts DEF Fresh1
    <3>. QED
      BY <3>1, <3>2, <2>1
  <2>3. CASE Store!Launch
    <3>1. u \in Copies \/ (u = Store!OldWallet /\ old = 3)
      BY <2>3, LaunchIs
    <3>. QED
      BY <3>1, <2>1, <1>4, IdIs DEF PasswordOld
  <2>4. CASE Store!Recover
    <3>1. PICK v \in Store!UserWallet :
                /\ Store!Then("recover", v) /\ v.id = Store!Current.id
                /\ keychain[Store!Current.id] # 0 => ~Store!Spared(Store!Current.id, {"renewed"})'
      BY <2>4, RecoverIs
    <3>2. u \in Copies \/ u = v
      BY <2>4, <3>1, <1>1 DEF CopiesNext
    <3>3. u # v
      <4>1. Store!Current' = Store!Current
        BY <2>4 DEF Store!Recover, Store!Current
      <4>. QED
        BY <3>1, <4>1, <1>4 DEF Store!Spared
    <3>. QED
      BY <3>2, <3>3, <2>1
  <2>5. CASE Store!SaveEnabledContract \/ Store!Rename
    <3>1. PICK v : v.id = Store!Current.id /\ v.pwd = Store!Current.pwd /\ Copies' \subseteq Others \cup {v}
      BY <2>5, <1>1, EditIs
    <3>2. Store!Current \in Copies /\ (u \in Copies \/ u = v)
      BY <2>5, <3>1, <1>1, EditIs
    <3>. QED
      BY <3>1, <3>2, <1>2, <1>4
  <2>6. CASE ~(Store!Launch \/ Store!SaveWalletInfo \/ Store!Recover \/ Store!SaveEnabledContract \/ Store!Rename)
    BY <2>1, <2>6, <1>1 DEF CopiesNext
  <2>. QED
    BY <2>2, <2>3, <2>4, <2>5, <2>6
<1>. QED
  BY <1>3, <1>4, KeychainNext

(* The three parts together.                                               *)
LEMMA PasswordInvStep ==
    StoreTypes /\ JobInv /\ OldInv /\ FreshInv /\ PasswordInv /\ StoreTypes' /\ [Store!Next]_(Store!vars) => PasswordInv'
<1>. SUFFICES ASSUME StoreTypes, JobInv, OldInv, FreshInv, PasswordInv, StoreTypes', [Store!Next]_(Store!vars)
     PROVE  PasswordNew' /\ PasswordKept' /\ PasswordOld'
  BY PasswordParts DEF PasswordInv, PasswordNew, PasswordKept, PasswordOld
<1>1. PasswordNew /\ PasswordKept /\ PasswordOld
  BY PasswordParts
<1>2. PasswordOld'
  <2>1. ASSUME old' = 3 PROVE keychain' = keychain /\ old = 3
    <3>1. old = 3
      BY <2>1, OldNext, PartTypes, IdIs
    <3>2. setting = {}
      BY <3>1 DEF OldInv
    <3>. QED
      BY <3>1, <3>2, KeychainNext, KeepIs
  <2>. QED
    BY <2>1, <1>1 DEF PasswordOld, Store!OldPwd
<1>. QED
  BY <1>1, <1>2, PasswordNewStep, PasswordKeptStep

-----------------------------------------------------------------------------
(* The wallet of an id, from where it is                                   *)
LEMMA StoredIs ==
    ASSUME StoreTypes, NEW w \in Store!Id
    PROVE  /\ InUse(w) => Store!Stored(w) = wallet /\ wallet = <<Store!Current>> /\ Store!Current \in Copies
           /\ ~InUse(w) /\ ~IdListed(w) => Store!Stored(w) = <<>>
           /\ ~InUse(w) /\ IdListed(w)
              => \E i \in 1..Len(list) : list[i].id = w /\ Store!Stored(w) = <<list[i]>> /\ list[i] \in Copies
<1>1. InUse(w) => Store!Stored(w) = wallet /\ wallet = <<Store!Current>> /\ Store!Current \in Copies
  BY MineIs, CopyIs DEF InUse, Store!Stored, CopyFacts
<1>2. ~InUse(w) /\ ~IdListed(w) => Store!Stored(w) = <<>>
  BY DEF InUse, Store!Stored, IdListed
<1>3. ASSUME ~InUse(w), IdListed(w)
      PROVE  \E i \in 1..Len(list) : list[i].id = w /\ Store!Stored(w) = <<list[i]>> /\ list[i] \in Copies
  <2>. DEFINE k == CHOOSE i \in 1..Len(list) : list[i].id = w /\ \A j \in 1..i - 1 : list[j].id # w
  <2>1. \E i \in 1..Len(list) : list[i].id = w /\ \A j \in 1..i - 1 : list[j].id # w
    BY <1>3, LeastIndex, PartTypes DEF IdListed
  <2>2. k \in 1..Len(list) /\ list[k].id = w
    BY <2>1
  <2>3. Store!Stored(w) = <<list[k]>>
    BY <1>3 DEF Store!Stored, InUse, IdListed
  <2>. HIDE DEF k
  <2>4. list[k] \in Copies
    BY <2>2, CopyIs DEF CopyFacts
  <2>. QED
    BY <2>2, <2>3, <2>4
<1>. QED
  BY <1>1, <1>2, <1>3

StoredAt(w) == \A i \in 1..Len(list) : ~InUse(w) /\ list[i].id = w => Store!Stored(w) = <<list[i]>>

LEMMA StoredAtIs == StoreTypes /\ Distinct => \A w \in Store!Id : Store!Spared(w, {"killed"}) => StoredAt(w)
<1>. SUFFICES ASSUME StoreTypes, Distinct, NEW w \in Store!Id, Store!Spared(w, {"killed"}), ~InUse(w),
                     NEW i \in 1..Len(list), list[i].id = w
     PROVE  Store!Stored(w) = <<list[i]>>
  BY DEF StoredAt
<1>1. PICK j \in 1..Len(list) : list[j].id = w /\ Store!Stored(w) = <<list[j]>>
  BY StoredIs DEF IdListed
<1>2. i = j
  BY <1>1 DEF Distinct
<1>. QED
  BY <1>1, <1>2

AllStoredAt == \A w \in Store!Id : Store!Spared(w, {"killed"}) => StoredAt(w)

LEMMA AllStoredAtIs == StoreTypes /\ Distinct => AllStoredAt
BY StoredAtIs DEF AllStoredAt

LEMMA AllStoredAtNext == StoreTypes' /\ Distinct' => AllStoredAt'
BY AllStoredAtIs, PTL

UsedStored == \A w \in Store!Id : InUse(w) => Store!Stored(w) = wallet

LEMMA UsedStoredIs == StoreTypes => UsedStored
BY StoredIs DEF UsedStored

LEMMA UsedStoredNext == StoreTypes' => UsedStored'
BY UsedStoredIs, PTL

KilledSnapshotOrEmptied == {"killed", "snapshot", "emptied"}

(* The current wallet: what it is now is what was written down.            *)
LEMMA UsedKept ==
    ASSUME StoreTypes, JobInv, OldInv, FreshInv, ListInv, RecoverInv, Store!EditsKept, StoreTypes', [Store!Next]_(Store!vars),
           NEW w \in Store!Id, saved'[w] # <<>>, Store!Spared(w, KilledSnapshotOrEmptied)', InUse(w)', ~Store!Unmigrated(w)'
    PROVE  wallet' = saved'[w]
<1>1. /\ saved \in [Store!Id -> Store!BoundedSeq(Store!UserWallet, 1)]
      /\ Store!Spared(w, KilledSnapshotOrEmptied) /\ UsedStored
      /\ saved[w] # <<>> => Store!Stored(w) = saved[w] \/ Store!Unmigrated(w)
      /\ \A u : Store!SetCurrentWallet(u) => u.id = w /\ wallet' = <<u>>
      /\ Len(Store!OldKeys) = 3
  <2>1. Store!Spared(w, KilledSnapshotOrEmptied)
    BY BlameGrows
  <2>2. \A u : Store!SetCurrentWallet(u) => u.id = w /\ wallet' = <<u>>
    BY DEF Store!SetCurrentWallet, InUse, Store!Current
  <2>3. saved[w] # <<>> => Store!Stored(w) = saved[w] \/ Store!Unmigrated(w)
    BY <2>1 DEF Store!EditsKept, KilledSnapshotOrEmptied
  <2>. QED
    BY <2>1, <2>2, <2>3, PartTypes, UsedStoredIs, IdIs
<1>2. CASE Store!MigrateCurrent
  <2>1. old' = 3 /\ Mine.id = 0 /\ Store!SetCurrentWallet(Mine)
    BY <1>2, IdIs DEF Store!MigrateCurrent, JobInv, Mine
  <2>. QED
    BY <2>1, <1>1 DEF Store!Unmigrated
<1>3. CASE Store!SaveCurrent
  <2>1. Store!SetCurrentWallet(Mine) /\ saved' = [saved EXCEPT ![Mine.id] = <<Mine>>]
    BY <1>3 DEF Store!SaveCurrent, Mine
  <2>. QED
    BY <2>1, <1>1
<1>4. CASE Store!RecoverCurrent
  <2>1. /\ Store!SetCurrentWallet(Mine) /\ saved' = [saved EXCEPT ![Mine.id] = <<[Mine EXCEPT !.tokens = Store!Current.tokens]>>]
        /\ job.kind = "recover" /\ Mine \in Store!UserWallet
        /\ Mine.tokens = 0 /\ (Store!Current.tokens # 0 => "emptied" \in blame[Mine.id])
    BY <1>4, MineIs DEF Store!RecoverCurrent, Mine, RecoverInv
  <2>2. Mine.id = w /\ wallet' = <<Mine>>
    BY <2>1, <1>1
  <2>3. Store!Current.tokens = 0
    BY <2>1, <2>2, <1>1 DEF Store!Spared, KilledSnapshotOrEmptied
  <2>4. [Mine EXCEPT !.tokens = Store!Current.tokens] = Mine
    BY <2>1, <2>3 DEF Store!UserWallet
  <2>. QED
    BY <2>1, <2>2, <2>4, <1>1
<1>5. CASE Store!SaveEnabledContract \/ Store!Rename
  <2>1. /\ Store!Current.id \in Store!Id
        /\ \E u : /\ u.id = Store!Current.id /\ wallet' = <<u>> /\ saved' = [saved EXCEPT ![Store!Current.id] = <<u>>]
    BY <1>5, CopiesStep, EditIs
  <2>. QED
    BY <2>1, <1>1 DEF InUse, Store!Current
<1>6. CASE Store!SelectCurrent
  <2>1. /\ Store!SetCurrentWallet(Mine) /\ saved' = saved /\ old' = old
        /\ Store!Blame(Mine.id, Store!If("snapshot", Store!Stored(Mine.id) # <<Mine>>))
    BY <1>6 DEF Store!SelectCurrent, Mine
  <2>2. Mine.id = w /\ wallet' = <<Mine>>
    BY <2>1, <1>1
  <2>3. ASSUME Store!Stored(w) # <<Mine>> PROVE FALSE
    <3>1. "snapshot" \in blame'[w]
      BY <2>1, <2>2, <2>3, PartTypes DEF Store!Blame, Store!If
    <3>. QED
      BY <3>1 DEF Store!Spared, KilledSnapshotOrEmptied
  <2>. QED
    BY <2>1, <2>2, <2>3, <1>1 DEF Store!Unmigrated
<1>7. CASE ~(Store!MigrateCurrent \/ Store!SaveCurrent \/ Store!RecoverCurrent \/ Store!SaveEnabledContract \/ Store!Rename \/ Store!SelectCurrent)
  <2>1. wallet' = wallet /\ saved' = saved
    BY <1>7 DEF Store!Next, Store!vars, Store!stores, Store!Launch, Store!MigrateList, Store!ClearOldKey, Store!SaveWalletInfo,
       Store!SaveAppend, Store!KeepPassword, Store!Recover, Store!RenameList, Store!OpenSwitcher, Store!LeaveSwitcher, Store!SelectWallet, Store!Kill
  <2>2. InUse(w)
    BY <2>1 DEF InUse, Store!HasCurrent, Store!Current
  <2>3. CASE Store!Unmigrated(w)
    <3>1. w = 0 /\ old = 3
      BY <2>3, <1>1 DEF Store!Unmigrated
    <3>2. saved[0] = <<Store!OldWallet>> /\ \A u \in Copies : u = Store!OldWallet
      BY <3>1 DEF OldInv
    <3>. QED
      BY <2>1, <2>2, <3>1, <3>2, StoredIs
  <2>. QED
    BY <2>1, <2>2, <2>3, <1>1 DEF UsedStored
<1>. QED
  BY <1>2, <1>3, <1>4, <1>5, <1>6, <1>7

(* Another wallet: the list holds what was written down.                   *)
LEMMA RestKept ==
    ASSUME StoreTypes, JobInv, OldInv, FreshInv, ListInv, RecoverInv, DateInv, Store!EditsKept, StoreTypes', ListInv', [Store!Next]_(Store!vars),
           NEW w \in Store!Id, saved'[w] # <<>>, Store!Spared(w, KilledSnapshotOrEmptied)', ~InUse(w)', ~Store!Unmigrated(w)'
    PROVE  Store!Stored(w)' = saved'[w]
<1>1. /\ Store!Spared(w, KilledSnapshotOrEmptied) /\ Store!Spared(w, KilledOrSnapshot) /\ Store!Spared(w, {"killed"}) /\ Store!Spared(w, {"killed"})' /\ Store!Spared(w, {"snapshot"})'
      /\ saved'[w] = saved[w]
      /\ Store!Stored(w) = saved[w] \/ Store!Unmigrated(w)
      /\ CurrentNext /\ Distinct /\ InUseListed /\ KnownListed /\ JobListed
      /\ Len(Store!OldKeys) = 3
      /\ list \in Seq(Store!UserWallet)
  <2>1. Store!Spared(w, KilledSnapshotOrEmptied)
    BY BlameGrows
  <2>2. Store!Spared(w, KilledOrSnapshot) /\ Store!Spared(w, {"killed"}) /\ Store!Spared(w, {"killed"})' /\ Store!Spared(w, {"snapshot"})'
    BY <2>1 DEF Store!Spared, KilledSnapshotOrEmptied, KilledOrSnapshot
  <2>3. saved'[w] = saved[w]
    BY SavedIsInUse
  <2>4. Store!Stored(w) = saved[w] \/ Store!Unmigrated(w)
    BY <2>1, <2>3 DEF Store!EditsKept, KilledSnapshotOrEmptied
  <2>. QED
    BY <2>1, <2>2, <2>3, <2>4, CurrentStep, ListParts, IdIs, PartTypes
<1>2. /\ \E k \in 1..Len(list') : list'[k].id = w
      /\ \A k \in 1..Len(list') : list'[k].id = w => Store!Stored(w)' = <<list'[k]>>
  <2>1. Distinct' /\ KnownListed'
    BY ListNextParts
  <2>2. IdListed(w)'
    BY <2>1, <1>1 DEF KnownListed
  <2>3. StoredAt(w)'
    BY <2>1, <1>1, AllStoredAtNext DEF AllStoredAt, Store!Id
  <2>. QED
    BY <2>2, <2>3 DEF IdListed, StoredAt
<1>3. ~Store!Unmigrated(w)
  <2>1. ASSUME Store!Unmigrated(w) PROVE FALSE
    <3>1. w = 0 /\ old = 3 /\ old' # old
      BY <2>1, <1>1 DEF Store!Unmigrated
    <3>2. Store!ClearOldKey /\ job.kind = "cleared"
      BY <3>1, OldNext
    <3>3. Store!HasCurrent /\ Store!Current.id = 0 /\ wallet' = wallet
      BY <3>2 DEF JobInv, Store!ClearOldKey, Store!stores
    <3>. QED
      BY <3>1, <3>3 DEF InUse, Store!HasCurrent, Store!Current
  <2>. QED
    BY <2>1
<1>4. Store!Stored(w) = saved[w] /\ saved[w] # <<>>
  BY <1>1, <1>3
<1>5. CASE InUse(w)
  <2>1. ~Store!MigrateCurrent
    <3>1. ASSUME Store!MigrateCurrent PROVE FALSE
      <4>1. old = 3 /\ old' = 3
        BY <3>1, IdIs DEF Store!MigrateCurrent, JobInv
      <4>2. Store!Current = Store!OldWallet
        BY <4>1, <1>5, StoredIs DEF OldInv
      <4>3. w = 0
        BY <4>2, <1>5, IdIs DEF InUse
      <4>. QED
        BY <4>1, <4>3, <1>3, <1>1 DEF Store!Unmigrated
    <3>. QED
      BY <3>1
  <2>2. (Store!SaveCurrent /\ job.kind = "save") \/ (Store!SelectCurrent /\ job.kind = "select")
    BY <2>1, <1>1, <1>5 DEF CurrentNext
  <2>3. list' = list /\ UpToDate(list, Store!Current) /\ Store!Current.id = w /\ Store!Stored(w) = <<Store!Current>>
    BY <2>2, <1>1, <1>5, BroughtIs, StoredIs DEF Store!SaveCurrent, Store!SelectCurrent, DateInv, KilledOrSnapshot, InUse
  <2>. QED
    BY <2>3, <1>1, <1>2, <1>4 DEF UpToDate
<1>6. CASE ~InUse(w)
  <2>1. PICK k \in 1..Len(list) : list[k].id = w /\ Store!Stored(w) = <<list[k]>>
    BY <1>4, <1>6, StoredIs
  <2>2. k \in 1..Len(list') /\ list'[k].id = w
    BY <2>1, IdsStep DEF IdsNext
  <2>3. list'[k] = list[k]
    <3>1. CASE list' = list
      BY <3>1
    <3>2. CASE Grows
      <4>1. Store!AddNewWallet(Mine) /\ Mine \in Store!UserWallet
        BY <3>2, ListStep, UpdateIs DEF ListNext, Grows
      <4>. QED
        BY <4>1, <1>1, AppendIs
    <3>3. ASSUME NEW u \in Store!UserWallet, Store!UpdateWalletInList(u), u.id = w => u = list[k]
          PROVE  list'[k] = list[k]
      BY <3>3, <2>1, <1>1, UpdateIs
    <3>4. CASE Store!SaveWalletInfo /\ ~Grows /\ list' # list
      <4>1. Store!HasCurrent /\ Store!UpdateWalletInList(Store!Current) /\ Store!Current \in Store!UserWallet
        BY <3>4, MineIs DEF Store!SaveWalletInfo
      <4>. QED
        BY <4>1, <3>3, <1>6 DEF InUse
    <3>5. CASE Store!RenameList
      <4>1. Store!HasCurrent /\ Mine = Store!Current /\ Store!UpdateWalletInList(Mine) /\ Mine \in Store!UserWallet
        BY <3>5, MineIs DEF Store!RenameList, JobInv, Mine
      <4>. QED
        BY <4>1, <3>3, <1>6 DEF InUse
    <3>6. CASE Store!SelectWallet
      <4>. DEFINE u == switcher.currentUW[1]
      <4>1. /\ u \in Store!UserWallet /\ Store!UpdateWalletInList(u)
            /\ Store!Blame(u.id, Store!If("snapshot", Store!Stored(u.id) # <<u>>))
        BY <3>6, MineIs DEF Store!SelectWallet
      <4>. HIDE DEF u
      <4>2. ASSUME u.id = w PROVE u = list[k]
        <5>1. Store!Stored(w) = <<u>>
          <6>1. ASSUME Store!Stored(w) # <<u>> PROVE FALSE
            <7>1. "snapshot" \in blame'[w]
              BY <4>1, <4>2, <6>1, PartTypes DEF Store!Blame, Store!If
            <7>. QED
              BY <7>1, <1>1 DEF Store!Spared
          <6>. QED
            BY <6>1
        <5>. QED
          BY <5>1, <2>1
      <4>. QED
        BY <4>1, <4>2, <3>3
    <3>7. CASE Store!Recover /\ ~Grows
      <4>1. PICK key \in {Store!Current.key, made + 1} :
                LET u == Store!NewWallet(Store!Current.id, key, Store!Current.name) IN Store!UpdateWalletInList(u)
        BY <3>7 DEF Store!Recover
      <4>2. Store!HasCurrent /\ made < MaxMake
        BY <3>7 DEF Store!Recover
      <4>3. Store!NewWallet(Store!Current.id, key, Store!Current.name) \in Store!UserWallet
            /\ Store!NewWallet(Store!Current.id, key, Store!Current.name).id = Store!Current.id
        BY <4>2, NewIs
      <4>. QED
        BY <4>1, <4>2, <4>3, <3>3, <1>6 DEF InUse
    <3>8. list' = list \/ Grows \/ Store!SaveWalletInfo \/ Store!RenameList \/ Store!SelectWallet \/ Store!Recover
      BY ListStep DEF ListNext, Grows
    <3>. QED
      BY <3>1, <3>2, <3>4, <3>5, <3>6, <3>7, <3>8
  <2>. QED
    BY <2>1, <2>2, <2>3, <1>1, <1>2, <1>4
<1>. QED
  BY <1>5, <1>6

(* What was saved last is what the stores hold, in use or in the list.     *)
LEMMA EditsStep ==
    StoreTypes /\ JobInv /\ OldInv /\ FreshInv /\ ListInv /\ RecoverInv /\ DateInv /\ Store!EditsKept /\ StoreTypes' /\ ListInv'
    /\ [Store!Next]_(Store!vars) => Store!EditsKept'
<1>. SUFFICES ASSUME StoreTypes, JobInv, OldInv, FreshInv, ListInv, RecoverInv, DateInv, Store!EditsKept, StoreTypes', ListInv',
                     [Store!Next]_(Store!vars), NEW w \in Store!Id, saved'[w] # <<>>, Store!Spared(w, KilledSnapshotOrEmptied)', ~Store!Unmigrated(w)'
     PROVE  Store!Stored(w)' = saved'[w]
  BY DEF Store!EditsKept, KilledSnapshotOrEmptied
<1>1. CASE InUse(w)'
  <2>1. Store!Stored(w)' = wallet'
    BY <1>1, UsedStoredNext DEF UsedStored, Store!Id
  <2>. QED
    BY <2>1, <1>1, UsedKept
<1>2. CASE ~InUse(w)'
  BY <1>2, RestKept
<1>. QED
  BY <1>1, <1>2

-----------------------------------------------------------------------------
(* The inductive invariant                                                 *)

WalletInv ==
    /\ StoreTypes /\ JobInv /\ OldInv /\ FreshInv /\ ListInv
    /\ RecoverInv /\ DateInv /\ KeyInv /\ PasswordInv /\ Store!EditsKept

(* It holds before the first start,                                        *)
LEMMA WalletInit == Store!Init => WalletInv
<1>. SUFFICES ASSUME Store!Init PROVE WalletInv
  OBVIOUS
<1>1. /\ old \in {0, 3} /\ wallet = <<>> /\ list = <<>>
      /\ keychain \in [Store!Id -> {0, Store!OldPwd}]
      /\ \A w \in Store!Id : w # 0 \/ old = 0 => keychain[w] = 0
      /\ setting = {} /\ job = Store!Idle /\ switcher = Store!Closed /\ running = FALSE
      /\ made = 0 /\ changes = 0 /\ starts = 0
      /\ saved = [w \in Store!Id |-> IF w = 0 /\ old > 0 THEN <<Store!OldWallet>> ELSE <<>>]
      /\ blame = [w \in Store!Id |-> {}]
      /\ MaxMake \in Nat /\ MaxEdit \in Nat /\ MaxStart \in Nat
      /\ 0 \in Store!Id /\ Store!OldWallet \in Store!UserWallet /\ Store!OldWallet.id = 0 /\ Len(Store!OldKeys) = 3
  BY IdIs DEF Store!Init, Store!BoundAssumption
<1>2. /\ Elems(list) = {} /\ Elems(wallet) = {} /\ Elems(switcher.wallets) = {} /\ Elems(switcher.currentUW) = {}
      /\ Elems(job.wallet) = {} /\ Others = {} /\ Copies = {}
  BY <1>1, OneElem DEF Others, Copies, Store!Idle, Store!Closed
<1>3. job.kind = "none" /\ job.wallet = <<>> /\ switcher.wallets = <<>> /\ switcher.currentUW = <<>> /\ ~Store!HasCurrent /\ ~Store!Opened
  BY <1>1 DEF Store!Idle, Store!Closed, Store!HasCurrent, Store!Opened
<1>4. StoreTypes
  <2>1. Counters
    <3>1. old \in 0..Len(Store!OldKeys)
      BY <1>1
    <3>4. running \in BOOLEAN
      BY <1>1, Zenon
    <3>2. made \in 0..MaxMake /\ changes \in 0..MaxEdit /\ starts \in 0..MaxStart
      BY <1>1
    <3>3. setting \subseteq 1..MaxMake
      BY <1>1
    <3>. QED
      BY <3>1, <3>2, <3>3, <3>4 DEF Counters
  <2>2. WalletTypes
    BY <1>1, OneIs DEF WalletTypes
  <2>3. JobType
    BY <1>1, OneIs DEF JobType, Store!Idle, Jobs
  <2>4. PageType
    BY <1>1, OneIs DEF PageType, Store!Closed
  <2>5. Histories
    BY <1>1, OneIs DEF Histories, Store!OldPwd
  <2>6. Present
    BY <1>1, <1>3 DEF Present
  <2>. QED
    BY <2>1, <2>2, <2>3, <2>4, <2>5, <2>6, TypeParts
<1>5. JobInv
  BY <1>1, <1>3 DEF JobInv
<1>6. OldInv
  BY <1>1, <1>2 DEF OldInv
<1>7. FreshInv
  BY <1>1, <1>2, <1>3 DEF FreshInv, Store!Id
<1>8. ListInv
  BY <1>1, <1>2, <1>3 DEF ListInv, Distinct, Store!Unmigrated
<1>9. RecoverInv /\ DateInv /\ KeyInv
  BY <1>2, <1>3 DEF RecoverInv, DateInv, KeyInv
<1>10. PasswordInv
  BY <1>1, <1>2, <1>3 DEF PasswordInv, NewPassword
<1>11. Store!EditsKept
  BY <1>1 DEF Store!EditsKept, Store!Unmigrated
<1>. QED
  BY <1>4, <1>5, <1>6, <1>7, <1>8, <1>9, <1>10, <1>11 DEF WalletInv

(* and every operation, edit and kill keeps it.                            *)
LEMMA WalletStep == WalletInv /\ [Store!Next]_(Store!vars) => WalletInv'
<1>. SUFFICES ASSUME WalletInv, [Store!Next]_(Store!vars) PROVE WalletInv'
  OBVIOUS
<1>1. StoreTypes'
  BY TypeStep DEF WalletInv
<1>2. JobInv' /\ OldInv' /\ FreshInv' /\ RecoverInv'
  BY <1>1, JobInvStep, OldStep, FreshStep, RecoverInvStep DEF WalletInv
<1>3. ListInv'
  BY <1>1, ListInvStep DEF WalletInv
<1>4. DateInv' /\ KeyInv' /\ PasswordInv'
  BY <1>1, <1>2, DateStep, KeyStep, PasswordInvStep DEF WalletInv
<1>5. Store!EditsKept'
  BY <1>1, <1>3, EditsStep DEF WalletInv
<1>. QED
  BY <1>1, <1>2, <1>3, <1>4, <1>5 DEF WalletInv

(* The number of elements is the same seen from either module.             *)
LEMMA SameCardinality == \A S : Store!Cardinality(S) = Cardinality(S)
BY DEF Store!Cardinality, Cardinality

(* A wallet that is in the list once is counted once.                      *)
LEMMA TimesAre ==
    ASSUME StoreTypes, NEW w \in Store!Id, \A i, j \in 1..Len(list) : list[i].id = w /\ list[j].id = w => i = j
    PROVE  Store!Times(w) <= 1 /\ (IdListed(w) => Store!Times(w) = 1)
<1>. DEFINE S == {i \in 1..Len(list) : list[i].id = w}
<1>1. CASE IdListed(w)
  <2>1. PICK i \in 1..Len(list) : list[i].id = w
    BY <1>1 DEF IdListed
  <2>2. S = {i}
    BY <2>1
  <2>3. Store!Cardinality(S) = 1
    BY <2>2, FS_Singleton, SameCardinality
  <2>. QED
    BY <2>3 DEF Store!Times
<1>2. CASE ~IdListed(w)
  <2>1. S = {}
    BY <1>2 DEF IdListed
  <2>2. Store!Cardinality(S) = 0
    BY <2>1, FS_EmptySet, SameCardinality
  <2>. QED
    BY <2>2, <1>2 DEF Store!Times
<1>. QED
  BY <1>1, <1>2

(* It gives every property of the stores.                                  *)
LEMMA InvKeepsWallets == WalletInv => Store!TypeOK /\ Store!ListedOnce /\ Store!EditsKept /\ Store!KeysKept /\ Store!KeychainOpens
<1>. SUFFICES ASSUME WalletInv PROVE Store!TypeOK /\ Store!ListedOnce /\ Store!EditsKept /\ Store!KeysKept /\ Store!KeychainOpens
  OBVIOUS
<1>1. StoreTypes /\ Distinct /\ InUseListed /\ KnownListed
  BY ListParts DEF WalletInv
<1>2. Store!ListedOnce
  <2>1. ASSUME NEW w \in Store!Id, Store!Spared(w, {"killed"}) PROVE Store!Times(w) <= 1 /\ (IdListed(w) => Store!Times(w) = 1)
    BY <1>1, <2>1, TimesAre DEF Distinct
  <2>2. Store!HasCurrent => Store!Current.id \in Store!Id /\ InUse(Store!Current.id)
    BY <1>1, MineIs, FieldsIs DEF InUse
  <2>. QED
    BY <2>1, <2>2, <1>1 DEF Store!ListedOnce, InUseListed
<1>3. ASSUME NEW w \in Store!Id, Store!Stored(w) # <<>>
      PROVE  Store!Stored(w)[1] \in Copies /\ Store!Stored(w)[1].id = w
  <2>1. CASE InUse(w)
    <3>1. Store!Stored(w) = <<Store!Current>> /\ Store!Current \in Copies /\ Store!Current.id = w
      BY <2>1, <1>1, StoredIs DEF InUse
    <3>. QED
      BY <3>1
  <2>2. CASE ~InUse(w)
    <3>1. PICK i \in 1..Len(list) : list[i].id = w /\ Store!Stored(w) = <<list[i]>> /\ list[i] \in Copies
      BY <2>2, <1>1, <1>3, StoredIs
    <3>. QED
      BY <3>1
  <2>. QED
    BY <2>1, <2>2
<1>4. Store!KeysKept
  <2>. SUFFICES ASSUME NEW w \in Store!Id, saved[w] # <<>>, Store!Spared(w, {"killed", "replaced"}), ~Store!Unmigrated(w)
       PROVE  Store!Stored(w) # <<>> /\ Store!Stored(w)[1].key = saved[w][1].key
    BY DEF Store!KeysKept
  <2>1. Store!Spared(w, {"killed"}) /\ Store!Spared(w, {"replaced"})
    BY DEF Store!Spared
  <2>2. IdListed(w) \/ InUse(w)
    BY <2>1, <1>1 DEF KnownListed
  <2>3. Store!Stored(w) # <<>>
    <3>1. \A x : <<x>> # <<>>
      OBVIOUS
    <3>. QED
      BY <2>2, <3>1, <1>1, StoredIs
  <2>. QED
    BY <2>1, <2>3, <1>3 DEF WalletInv, KeyInv
<1>5. Store!KeychainOpens
  BY <1>3 DEF WalletInv, PasswordInv, Store!KeychainOpens, Store!Opens
<1>. QED
  BY <1>2, <1>4, <1>5 DEF WalletInv, StoreTypes

-----------------------------------------------------------------------------
(* Whatever is created, recovered, edited or switched, and wherever a kill *)
(* falls between two writes (WalletUtil and its pages): the wallet list    *)
(* has no wallet twice, tokens, name and key of every wallet stay as they  *)
(* were last saved, and the keychain opens it, each but for the causes the *)
(* property names.                                                         *)
THEOREM WalletsStay == Parts => []WalletsKept
<1>1. PartsInit => WalletInv
  BY WalletInit DEF PartsInit
<1>2. [PartsNext]_<<part, vars, stores, form>> => [Store!Next]_(Store!vars)
  BY DEF PartsNext, stores, Store!vars, Store!stores, Store!bounds
<1>3. WalletInv => WalletsKept
  BY InvKeepsWallets DEF WalletsKept
<1>. QED
  BY <1>1, <1>2, <1>3, WalletStep, PTL DEF Parts

-----------------------------------------------------------------------------
(* The invariant of the payments                                           *)

(* A send, as what it holds, and the sends that wait for the keychain or   *)
(* are under way                                                           *)
Payment == [step : Pay!Steps, seen : Pay!Shown \X (Pay!Typed \cup {Pay!Blank}), to : Pay!Shown,
            value : -Fee..Balance, left : Int, limits : Pay!Request \cup {Pay!NoLimit},
            blame : SUBSET Pay!Causes]
Underway == {"nonce", "epoch", "address", "sign", "submit", "poll"}
Going(s) == send[s].step \in Underway \cup {"auth"}

(* An amount of nothing stays in the field only while it is edited.        *)
AmountInv == focus # "value" => amount # 0

(* A send has a tap; a send under way, unless uncovered, keeps the user    *)
(* off the form,                                                           *)
TapFits(s)   == s > taps => Pay!At(s, "none")
CoverFits(s) == s \in Pay!InFlight /\ Pay!Spared(s, {"uncovered"}) => covered /\ focus = "none"

(* so that what was seen is what will be sent,                             *)
SeenFits(s) == s \in Pay!InFlight /\ Pay!Spared(s, {"uncovered"}) =>
    /\ send[s].step \in {"nonce", "epoch", "address"} => address = send[s].seen[1]
    /\ send[s].step \in {"sign", "submit"} => send[s].to = send[s].seen[1]
    /\ send[s].step \in {"nonce", "epoch"} /\ Pay!Spared(s, {"blank"}) => sendingValue = send[s].seen[2]

(* the amount is the one seen, less the fee,                               *)
LessFits(s) ==
    LET less == send[s].seen[2] - send[s].value
    IN  /\ less \in 0..Fee /\ (Token => less = 0)
        /\ ~Token => send[s].left >= Fee /\ (less > 0 => send[s].left = Fee)
PaidFits(s) ==
    send[s].step \in {"address", "sign", "submit"} /\ Pay!Spared(s, {"uncovered", "blank", "poor"})
        => LessFits(s)

(* and the limits are those for it; what is signed is for an address.      *)
LimitFits(s) ==
    /\ s \in Pay!InFlight /\ Pay!Spared(s, {"uncovered", "blank", "hurried", "mixed"}) /\ send[s].seen[1] \in Payees =>
        /\ send[s].step \in {"nonce", "epoch", "address", "sign"} => limits = send[s].seen
        /\ send[s].step = "submit" => send[s].limits = send[s].seen
    /\ Pay!At(s, "submit") => send[s].to \in Payees

SendFits(s) == CoverFits(s) /\ SeenFits(s) /\ PaidFits(s) /\ LimitFits(s)

(* Of two sends that wait or are under way one knows of the other; one     *)
(* that waits is known to all.                                             *)
Known(s) == ~Pay!Spared(s, {"uncovered", "twice"})
PairFits(s, t) == Going(s) /\ Going(t) => (Pay!At(s, "auth") => Known(t)) /\ (Known(s) \/ Known(t))

(* An estimate fits the form, unless the address is being edited.          *)
Fits(e) == address \in Payees /\ focus # "address" /\ sendingValue > 0 => e = <<address, sendingValue>>

(* One that is outstanding alone does, and those in use do while the       *)
(* button is enabled or was when it was tapped.                            *)
AskInv == estimates # {} /\ ~mixed => ~enabled /\ \E e \in estimates : estimates = {e} /\ Fits(e)
Ready  == enabled \/ \E s \in Pay!Sends : Pay!At(s, "auth") /\ Pay!Spared(s, {"hurried"})
FitInv == Ready /\ estimates = {} /\ ~mixed => Fits(limits)

SendInv == \A s \in Pay!Sends : TapFits(s) /\ SendFits(s)
PairInv == \A s, t \in Pay!Sends : s # t => PairFits(s, t)
PayInv  == Pay!TypeOK /\ AmountInv /\ SendInv /\ PairInv /\ AskInv /\ FitInv

-----------------------------------------------------------------------------
(* What the helpers do                                                     *)

(* The constants and the types, as the provers want them                   *)
LEMMA PayConstants ==
    /\ Balance \in Nat /\ Fee \in Nat /\ Fee > 0 /\ Fee <= Balance
    /\ MaxSend \in Nat /\ MaxTyped \in Nat /\ Token \in BOOLEAN
    /\ Invalid \notin Payees /\ Pay!Empty \notin Payees /\ Pay!Empty # Invalid
BY PartsAssumption DEF Pay!AmountAssumption, Pay!AddressAssumption, Pay!BoundAssumption

LEMMA SendType == Pay!TypeOK => send \in [Pay!Sends -> Payment]
BY DEF Pay!TypeOK, Payment

(* A send of which only the blame changes, and only grows                  *)
Same(s) ==
    /\ send'[s].step = send[s].step /\ send'[s].seen = send[s].seen /\ send'[s].to = send[s].to
    /\ send'[s].value = send[s].value /\ send'[s].left = send[s].left
    /\ send'[s].limits = send[s].limits /\ send[s].blame \subseteq send'[s].blame

LEMMA BlamedIs ==
    ASSUME Pay!TypeOK, NEW S, NEW c \in Pay!Causes
    PROVE  /\ Pay!Blamed(S, c) \in [Pay!Sends -> Payment]
           /\ \A s \in Pay!Sends :
                /\ Pay!Blamed(S, c)[s].step = send[s].step /\ Pay!Blamed(S, c)[s].seen = send[s].seen
                /\ Pay!Blamed(S, c)[s].to = send[s].to /\ Pay!Blamed(S, c)[s].value = send[s].value
                /\ Pay!Blamed(S, c)[s].left = send[s].left /\ Pay!Blamed(S, c)[s].limits = send[s].limits
                /\ Pay!Blamed(S, c)[s].blame = send[s].blame \cup {d \in {c} : s \in S}
<1>1. ASSUME NEW s \in Pay!Sends
      PROVE  /\ Pay!Blamed(S, c)[s] \in Payment
             /\ Pay!Blamed(S, c)[s].step = send[s].step /\ Pay!Blamed(S, c)[s].seen = send[s].seen
             /\ Pay!Blamed(S, c)[s].to = send[s].to /\ Pay!Blamed(S, c)[s].value = send[s].value
             /\ Pay!Blamed(S, c)[s].left = send[s].left /\ Pay!Blamed(S, c)[s].limits = send[s].limits
             /\ Pay!Blamed(S, c)[s].blame = send[s].blame \cup {d \in {c} : s \in S}
  <2>1. send[s] \in Payment
    BY SendType
  <2>2. Pay!Blamed(S, c)[s] = [send[s] EXCEPT !.blame = send[s].blame \cup {d \in {c} : s \in S}]
    BY DEF Pay!Blamed
  <2>3. send[s].blame \cup {d \in {c} : s \in S} \in SUBSET Pay!Causes
    BY <2>1 DEF Payment
  <2>. QED
    BY <2>1, <2>2, <2>3 DEF Payment
<1>2. Pay!Blamed(S, c) = [s \in Pay!Sends |-> Pay!Blamed(S, c)[s]]
  BY DEF Pay!Blamed
<1>. QED
  BY <1>1, <1>2

(* The end of editing: the values stay what they may be, an estimate is    *)
(* asked for, or what is shown stays or is no order.                       *)
LEMMA EndIs ==
    ASSUME Pay!TypeOK, NEW f \in {"none", "address", "value"}, NEW a \in Pay!Shown, NEW v \in Pay!Typed \cup {Pay!Blank},
           Pay!EditingEnd(f, a, v)
    PROVE  /\ sendingValue' \in 0..Balance /\ amount' \in Pay!Typed \cup {Pay!Blank}
           /\ enabled' \in BOOLEAN /\ mixed' \in BOOLEAN /\ estimates' \subseteq Pay!Request
           /\ (f # "value" => amount' = v /\ sendingValue' = sendingValue)
           /\ (f = "value" => amount' # 0)
           /\ sendingValue' = Pay!Value(f, v)
<1>1. Pay!Value(f, v) \in 0..Balance
  BY PayConstants DEF Pay!TypeOK, Pay!Value, Pay!Min2, Pay!Typed, Pay!Blank
<1>2. sendingValue' = Pay!Value(f, v)
  BY DEF Pay!EditingEnd
<1>3. amount' = IF f = "value" /\ v # Pay!Blank
                THEN IF Pay!Value(f, v) = 0 THEN Pay!Blank ELSE Pay!Value(f, v)
                ELSE v
  BY DEF Pay!EditingEnd
<1>4. amount' \in Pay!Typed \cup {Pay!Blank} /\ (f = "value" => amount' # 0)
  BY <1>1, <1>3, PayConstants DEF Pay!Typed, Pay!Blank
<1>5. enabled' \in BOOLEAN /\ mixed' \in BOOLEAN /\ estimates' \subseteq Pay!Request
  <2>1. CASE Pay!Asks(f, a, v)
    <3>1. estimates' = estimates \cup {<<a, Pay!Value(f, v)>>} /\ mixed' = (estimates # {}) /\ enabled' = FALSE
      BY <2>1 DEF Pay!EditingEnd, Pay!AskEstimate
    <3>2. <<a, Pay!Value(f, v)>> \in Pay!Request
      BY <2>1, <1>1 DEF Pay!Asks, Pay!Request
    <3>3. mixed' \in BOOLEAN
      BY <3>1, Zenon
    <3>. QED
      BY <3>1, <3>2, <3>3 DEF Pay!TypeOK
  <2>2. CASE ~Pay!Asks(f, a, v)
    <3>1. UNCHANGED <<estimates, mixed>>
      BY <2>2 DEF Pay!EditingEnd
    <3>2. enabled' = (enabled /\ (f = "address" => a # Pay!Empty) /\ (f = "value" => v # Pay!Blank))
      BY <2>2 DEF Pay!EditingEnd
    <3>3. enabled' \in BOOLEAN
      BY <3>2, Zenon
    <3>. QED
      BY <3>1, <3>3 DEF Pay!TypeOK
  <2>. QED
    BY <2>1, <2>2
<1>6. f # "value" => amount' = v /\ sendingValue' = sendingValue
  BY <1>2, <1>3 DEF Pay!Value
<1>. QED
  BY <1>1, <1>2, <1>4, <1>5, <1>6

(* If none is asked for the order on the page is the one it was.           *)
LEMMA EndStays ==
    ASSUME Pay!TypeOK, NEW f \in {"none", "address", "value"}, NEW a \in Payees, NEW v \in Pay!Typed \cup {Pay!Blank},
           Pay!EditingEnd(f, a, v), ~Pay!Asks(f, a, v), sendingValue' > 0
    PROVE  f # "address" /\ sendingValue' = sendingValue
<1>1. a # Pay!Empty /\ a # Invalid
  BY PayConstants
<1>2. sendingValue' = Pay!Value(f, v) /\ Pay!Value(f, v) > 0
  BY DEF Pay!EditingEnd
<1>3. Pay!Stops(f, a, v)
  BY <1>1, <1>2 DEF Pay!Asks
<1>. QED
  BY <1>1, <1>2, <1>3 DEF Pay!Stops, Pay!Value

(* So an estimate that fits goes on to fit, one asked for does, and the    *)
(* button is not enabled while one is outstanding.                         *)
LEMMA EndKeeps ==
    ASSUME Pay!TypeOK, AskInv, FitInv,
           NEW f \in {"none", "address", "value"}, NEW v \in Pay!Typed \cup {Pay!Blank}, address' \in Pay!Shown,
           Pay!EditingEnd(f, address', v), UNCHANGED limits,
           f # "address" => address' = address /\ (focus' # "address" => focus # "address")
    PROVE  /\ AskInv'
           /\ Ready /\ estimates' = {} /\ ~mixed' => Fits(limits)'
           /\ enabled' => enabled
<1>0. PICK e : e = <<address', sendingValue'>>
  OBVIOUS
<1>1. CASE Pay!Asks(f, address', v)
  <2>1. estimates' = estimates \cup {e} /\ mixed' = (estimates # {}) /\ enabled' = FALSE
    BY <1>0, <1>1 DEF Pay!EditingEnd, Pay!AskEstimate
  <2>2. Fits(e)'
    BY <1>0 DEF Fits
  <2>3. ~mixed' => estimates' = {e}
    BY <2>1
  <2>4. AskInv'
    BY <2>1, <2>2, <2>3 DEF AskInv
  <2>. QED
    BY <2>1, <2>4
<1>2. CASE ~Pay!Asks(f, address', v)
  <2>1. UNCHANGED <<estimates, mixed>>
    BY <1>2 DEF Pay!EditingEnd
  <2>2. enabled' => enabled
    BY <1>2 DEF Pay!EditingEnd
  <2>3. ASSUME NEW x, Fits(x) PROVE address' \in Payees /\ focus' # "address" /\ sendingValue' > 0 => x = e
    <3>1. SUFFICES ASSUME address' \in Payees, focus' # "address", sendingValue' > 0 PROVE x = e
      OBVIOUS
    <3>2. f # "address" /\ sendingValue' = sendingValue
      BY <1>2, <3>1, EndStays
    <3>. QED
      BY <1>0, <3>1, <3>2, <2>3 DEF Fits
  <2>4. AskInv'
    <3>1. SUFFICES ASSUME estimates' # {}, ~mixed'
                   PROVE  ~enabled' /\ \E x \in estimates' : estimates' = {x} /\ Fits(x)'
      BY DEF AskInv
    <3>2. PICK x \in estimates : estimates = {x} /\ Fits(x)
      BY <2>1, <3>1 DEF AskInv
    <3>3. Fits(x)'
      BY <1>0, <2>3, <3>2 DEF Fits
    <3>4. ~enabled'
      BY <2>1, <2>2, <3>1 DEF AskInv
    <3>. QED
      BY <2>1, <3>2, <3>3, <3>4
  <2>5. ASSUME Ready, estimates' = {}, ~mixed' PROVE Fits(limits)'
    <3>1. Fits(limits)
      BY <2>1, <2>5 DEF FitInv
    <3>. QED
      BY <1>0, <3>1, <2>3 DEF Fits
  <2>. QED
    BY <2>2, <2>4, <2>5
<1>. QED
  BY <1>1, <1>2

(* A step takes no send back, and gives none a tap that had none: all but  *)
(* the tap itself.                                                         *)
Calm(s) ==
    /\ Pay!At(s, "none") => send'[s].step = "none"
    /\ send'[s].step \in Underway \cup {"auth"} => Going(s) /\ send[s].blame \subseteq send'[s].blame
    /\ send'[s].step = "auth" => Pay!At(s, "auth")

LEMMA SameIsCalm == ASSUME NEW s \in Pay!Sends, Same(s) PROVE Calm(s)
BY DEF Same, Calm, Going, Pay!At

(* A send goes on to fit if nothing of the form changes, or if it is known *)
(* to be uncovered.                                                        *)
LEMMA KeptFits ==
    ASSUME NEW s \in Pay!Sends, SendFits(s), Same(s),
           s \in Pay!InFlight => \/ "uncovered" \in send'[s].blame
                                 \/ UNCHANGED <<address, sendingValue, limits>> /\ covered' /\ focus' = "none"
    PROVE  SendFits(s)'
<1>1. s \in Pay!InFlight' <=> s \in Pay!InFlight
  BY DEF Pay!InFlight, Same
<1>2. \A S : send'[s].blame \cap S = {} => send[s].blame \cap S = {}
  BY DEF Same
<1>3. CoverFits(s)'
  BY <1>1, <1>2 DEF CoverFits, Pay!Spared, SendFits
<1>4. SeenFits(s)'
  BY <1>1, <1>2 DEF SeenFits, Pay!Spared, SendFits, Same
<1>5. PaidFits(s)'
  BY <1>2 DEF PaidFits, LessFits, Pay!Spared, SendFits, Same
<1>6. LimitFits(s)'
  BY <1>1, <1>2 DEF LimitFits, Pay!Spared, SendFits, Same, Pay!At
<1>. QED
  BY <1>3, <1>4, <1>5, <1>6 DEF SendFits

LEMMA Uncovered ==
    ASSUME NEW s \in Pay!InFlight, SendFits(s), ~covered \/ focus # "none"
    PROVE  "uncovered" \in send[s].blame
BY DEF SendFits, CoverFits, Pay!Spared, Pay!InFlight

(* A send that ends, or never began, fits anyhow.                          *)
LEMMA OverFits ==
    ASSUME NEW s \in Pay!Sends, send'[s].step \in {"none", "auth", "sent", "failed"}
    PROVE  SendFits(s)'
BY DEF SendFits, CoverFits, SeenFits, PaidFits, LimitFits, Pay!InFlight, Pay!At

(* Pairs go on to know of one another.                                     *)
LEMMA PairKept ==
    ASSUME PairInv, \A s \in Pay!Sends : Calm(s)
    PROVE  PairInv'
<1>1. SUFFICES ASSUME NEW s \in Pay!Sends, NEW t \in Pay!Sends, s # t, Going(s)', Going(t)'
               PROVE  (Pay!At(s, "auth")' => Known(t)') /\ (Known(s)' \/ Known(t)')
  BY DEF PairInv, PairFits
<1>2. /\ Going(s) /\ send[s].blame \subseteq send'[s].blame /\ (Pay!At(s, "auth")' => Pay!At(s, "auth"))
      /\ Going(t) /\ send[t].blame \subseteq send'[t].blame
  BY <1>1 DEF Calm, Going, Pay!At
<1>3. (Pay!At(s, "auth") => Known(t)) /\ (Known(s) \/ Known(t))
  BY <1>1, <1>2 DEF PairInv, PairFits
<1>4. (Known(s) => Known(s)') /\ (Known(t) => Known(t)')
  BY <1>2 DEF Known, Pay!Spared
<1>. QED
  BY <1>2, <1>3, <1>4

LEMMA TapKept ==
    ASSUME Pay!TypeOK, Pay!TypeOK', NEW s \in Pay!Sends, TapFits(s), Calm(s), taps' >= taps
    PROVE  TapFits(s)'
BY DEF TapFits, Calm, Pay!At, Pay!TypeOK, Pay!Sends

(* The button and what waits for the keychain were ready before.           *)
LEMMA ReadyKept ==
    ASSUME \A s \in Pay!Sends : Calm(s), enabled' => enabled
    PROVE  Ready' => Ready
<1>1. ASSUME NEW s \in Pay!Sends, Pay!At(s, "auth")', Pay!Spared(s, {"hurried"})'
      PROVE  Pay!At(s, "auth") /\ Pay!Spared(s, {"hurried"})
  BY <1>1 DEF Calm, Pay!At, Pay!Spared
<1>. QED
  BY <1>1 DEF Ready

(* The estimates fit as they did if the form stays, or the address is      *)
(* edited.                                                                 *)
LEMMA FormKept ==
    ASSUME AskInv, FitInv, UNCHANGED <<limits, estimates, mixed, enabled, sendingValue>>,
           focus' = "address" \/ (address' = address /\ (focus' # "address" => focus # "address"))
    PROVE  /\ AskInv'
           /\ Ready /\ estimates' = {} /\ ~mixed' => Fits(limits)'
           /\ enabled' => enabled
<1>1. ASSUME NEW x, Fits(x) PROVE Fits(x)'
  BY <1>1 DEF Fits
<1>2. AskInv'
  <2>1. SUFFICES ASSUME estimates # {}, ~mixed
                 PROVE  ~enabled /\ \E x \in estimates : estimates = {x} /\ Fits(x)'
    BY DEF AskInv
  <2>. QED
    BY <1>1, <2>1 DEF AskInv
<1>3. Ready /\ estimates' = {} /\ ~mixed' => Fits(limits)'
  BY <1>1 DEF FitInv, Fits
<1>. QED
  BY <1>2, <1>3

(* What a step that is not a tap or an estimate has to show                *)
LEMMA PayKept ==
    ASSUME PayInv, Pay!TypeOK', AmountInv', AskInv', taps' >= taps,
           \A s \in Pay!Sends : Calm(s) /\ SendFits(s)',
           Ready /\ estimates' = {} /\ ~mixed' => Fits(limits)',
           enabled' => enabled
    PROVE  PayInv'
<1>1. PairInv'
  BY PairKept DEF PayInv
<1>2. SendInv'
  BY TapKept DEF PayInv, SendInv
<1>3. FitInv'
  BY ReadyKept DEF FitInv
<1>. QED
  BY <1>1, <1>2, <1>3 DEF PayInv

-----------------------------------------------------------------------------
(* The form                                                                *)

LEMMA AddressTyped == PayInv /\ Pay!TypeAddress => PayInv'
<1>. SUFFICES ASSUME PayInv, Pay!TypeAddress PROVE PayInv'
  OBVIOUS
<1>0. /\ focus = "address" /\ address' \in Pay!Shown /\ edits' = edits + 1 /\ edits < MaxTyped
      /\ UNCHANGED <<amount, focus, sendingValue, available, Pay!asked, limits, enabled, covered, send, taps>>
  BY DEF Pay!TypeAddress, Pay!Edit
<1>1. Pay!TypeOK'
  BY <1>0, PayConstants DEF PayInv, Pay!TypeOK, Pay!asked
<1>2. AmountInv'
  BY <1>0 DEF PayInv, AmountInv
<1>3. ASSUME NEW s \in Pay!Sends PROVE Calm(s) /\ SendFits(s)'
  BY <1>0, SameIsCalm, KeptFits, Uncovered DEF PayInv, SendInv, Same
<1>4. AskInv' /\ (Ready /\ estimates' = {} /\ ~mixed' => Fits(limits)') /\ (enabled' => enabled)
  BY <1>0, FormKept DEF PayInv, Pay!asked
<1>. QED
  BY <1>0, <1>1, <1>2, <1>3, <1>4, PayKept DEF PayInv, Pay!TypeOK

LEMMA ValueIsTyped == PayInv /\ Pay!TypeValue => PayInv'
<1>. SUFFICES ASSUME PayInv, Pay!TypeValue PROVE PayInv'
  OBVIOUS
<1>0. /\ focus = "value" /\ amount' \in Pay!Typed \cup {Pay!Blank} /\ edits' = edits + 1 /\ edits < MaxTyped
      /\ UNCHANGED <<address, focus, sendingValue, available, Pay!asked, limits, enabled, covered, send, taps>>
  BY DEF Pay!TypeValue, Pay!Edit
<1>1. Pay!TypeOK'
  BY <1>0, PayConstants DEF PayInv, Pay!TypeOK, Pay!asked
<1>2. AmountInv'
  BY <1>0 DEF PayInv, AmountInv
<1>3. ASSUME NEW s \in Pay!Sends PROVE Calm(s) /\ SendFits(s)'
  BY <1>0, SameIsCalm, KeptFits, Uncovered DEF PayInv, SendInv, Same
<1>4. AskInv' /\ (Ready /\ estimates' = {} /\ ~mixed' => Fits(limits)') /\ (enabled' => enabled)
  BY <1>0, FormKept DEF PayInv, Pay!asked
<1>. QED
  BY <1>0, <1>1, <1>2, <1>3, <1>4, PayKept DEF PayInv, Pay!TypeOK

LEMMA Focused == PayInv /\ Pay!Focus => PayInv'
<1>. SUFFICES ASSUME PayInv, Pay!Focus PROVE PayInv'
  OBVIOUS
<1>0. /\ ~covered /\ focus = "none" /\ focus' \in {"address", "value"}
      /\ UNCHANGED <<address, amount, sendingValue, available, Pay!asked, limits, enabled, covered, send, taps, edits>>
  BY DEF Pay!Focus, Pay!UserFree
<1>1. Pay!TypeOK'
  BY <1>0 DEF PayInv, Pay!TypeOK, Pay!asked
<1>2. AmountInv'
  BY <1>0 DEF PayInv, AmountInv
<1>3. ASSUME NEW s \in Pay!Sends PROVE Calm(s) /\ SendFits(s)'
  BY <1>0, SameIsCalm, KeptFits, Uncovered DEF PayInv, SendInv, Same
<1>4. AskInv' /\ (Ready /\ estimates' = {} /\ ~mixed' => Fits(limits)') /\ (enabled' => enabled)
  BY <1>0, FormKept DEF PayInv, Pay!asked
<1>. QED
  BY <1>0, <1>1, <1>2, <1>3, <1>4, PayKept DEF PayInv, Pay!TypeOK

LEMMA Left == PayInv /\ Pay!Leave => PayInv'
<1>. SUFFICES ASSUME PayInv, Pay!Leave PROVE PayInv'
  OBVIOUS
<1>0. /\ ~covered /\ focus \in {"address", "value"} /\ Pay!EditingEnd(focus, address, amount) /\ focus' = "none"
      /\ covered' = Pay!Asks(focus, address, amount)
      /\ UNCHANGED <<address, available, asking, limits, send, taps, edits>>
  BY DEF Pay!Leave, Pay!UserFree, PayInv, Pay!TypeOK
<1>1. /\ address \in Pay!Shown /\ amount \in Pay!Typed \cup {Pay!Blank} /\ focus \in {"none", "address", "value"}
      /\ Pay!TypeOK /\ address' = address
  BY <1>0 DEF PayInv, Pay!TypeOK
<1>2. /\ sendingValue' \in 0..Balance /\ amount' \in Pay!Typed \cup {Pay!Blank}
      /\ enabled' \in BOOLEAN /\ mixed' \in BOOLEAN /\ estimates' \subseteq Pay!Request
      /\ (focus # "value" => amount' = amount) /\ (focus = "value" => amount' # 0)
  BY <1>0, <1>1, EndIs
<1>3. covered' \in BOOLEAN
  BY <1>0, Zenon DEF Pay!Asks
<1>4. Pay!TypeOK'
  BY <1>0, <1>1, <1>2, <1>3 DEF Pay!TypeOK
<1>5. AmountInv'
  BY <1>0, <1>2 DEF PayInv, AmountInv
<1>6. ASSUME NEW s \in Pay!Sends PROVE Calm(s) /\ SendFits(s)'
  BY <1>0, SameIsCalm, KeptFits, Uncovered DEF PayInv, SendInv, Same
<1>7. AskInv' /\ (Ready /\ estimates' = {} /\ ~mixed' => Fits(limits)') /\ (enabled' => enabled)
  BY <1>0, <1>1, EndKeeps DEF PayInv
<1>. QED
  BY <1>0, <1>4, <1>5, <1>6, <1>7, PayKept DEF PayInv, Pay!TypeOK

LEMMA MaxTaken == PayInv /\ Pay!MaxValueTaped => PayInv'
<1>. SUFFICES ASSUME PayInv, Pay!MaxValueTaped PROVE PayInv'
  OBVIOUS
<1>0. /\ ~covered /\ Pay!EditingEnd("value", address, available)
      /\ covered' = Pay!Asks("value", address, available) /\ edits' = edits + 1 /\ edits < MaxTyped
      /\ UNCHANGED <<address, focus, available, asking, limits, send, taps>>
  BY DEF Pay!MaxValueTaped, Pay!UserFree, Pay!Edit
<1>1. address \in Pay!Shown /\ available \in Pay!Typed \cup {Pay!Blank} /\ Pay!TypeOK /\ address' = address
  BY <1>0, PayConstants DEF PayInv, Pay!TypeOK, Pay!Typed
<1>2. /\ sendingValue' \in 0..Balance /\ amount' \in Pay!Typed \cup {Pay!Blank}
      /\ enabled' \in BOOLEAN /\ mixed' \in BOOLEAN /\ estimates' \subseteq Pay!Request
      /\ amount' # 0
  BY <1>0, <1>1, EndIs
<1>3. covered' \in BOOLEAN
  BY <1>0, Zenon DEF Pay!Asks
<1>4. Pay!TypeOK'
  BY <1>0, <1>1, <1>2, <1>3, PayConstants DEF Pay!TypeOK
<1>5. AmountInv'
  BY <1>2 DEF AmountInv
<1>6. ASSUME NEW s \in Pay!Sends PROVE Calm(s) /\ SendFits(s)'
  BY <1>0, SameIsCalm, KeptFits, Uncovered DEF PayInv, SendInv, Same
<1>7. AskInv' /\ (Ready /\ estimates' = {} /\ ~mixed' => Fits(limits)') /\ (enabled' => enabled)
  BY <1>0, <1>1, EndKeeps DEF PayInv
<1>. QED
  BY <1>0, <1>4, <1>5, <1>6, <1>7, PayKept DEF PayInv, Pay!TypeOK

LEMMA GasAdjusted == PayInv /\ Pay!AdjustGas => PayInv'
<1>. SUFFICES ASSUME PayInv, Pay!AdjustGas PROVE PayInv'
  OBVIOUS
<1>0. /\ ~covered /\ address # Pay!Empty /\ sendingValue > 0 /\ edits' = edits + 1 /\ edits < MaxTyped
      /\ estimates' = estimates \cup {<<address, sendingValue>>} /\ mixed' = (estimates # {})
      /\ enabled' = FALSE /\ covered' = TRUE
      /\ UNCHANGED <<address, amount, focus, sendingValue, available, asking, limits, send, taps>>
  BY DEF Pay!AdjustGas, Pay!UserFree, Pay!Edit, Pay!AskEstimate, Pay!form
<1>1. mixed' \in BOOLEAN
  BY <1>0, Zenon
<1>2. <<address, sendingValue>> \in Pay!Request
  BY <1>0, PayConstants DEF PayInv, Pay!TypeOK, Pay!Request
<1>3. Pay!TypeOK'
  <2>1. estimates' \subseteq Pay!Request /\ edits' \in 0..MaxTyped
    BY <1>0, <1>2, PayConstants DEF PayInv, Pay!TypeOK
  <2>2. enabled' \in BOOLEAN /\ covered' \in BOOLEAN
    BY <1>0
  <2>. QED
    BY <1>0, <1>1, <2>1, <2>2 DEF PayInv, Pay!TypeOK
<1>4. AmountInv'
  BY <1>0 DEF PayInv, AmountInv
<1>5. ASSUME NEW s \in Pay!Sends PROVE Calm(s) /\ SendFits(s)'
  BY <1>0, SameIsCalm, KeptFits, Uncovered DEF PayInv, SendInv, Same
<1>6. PICK e : e = <<address, sendingValue>>
  OBVIOUS
<1>7. Fits(e)' /\ (~mixed' => estimates' = {e})
  BY <1>0, <1>6 DEF Fits
<1>8. AskInv' /\ estimates' # {}
  BY <1>0, <1>6, <1>7 DEF AskInv
<1>. QED
  BY <1>0, <1>3, <1>4, <1>5, <1>8, PayKept DEF PayInv, Pay!TypeOK

LEMMA Scanned == PayInv /\ Pay!Scan => PayInv'
<1>. SUFFICES ASSUME PayInv, Pay!Scan PROVE PayInv'
  OBVIOUS
<1>0. /\ ~covered /\ focus = "none" /\ asking = 0 /\ edits' = edits + 1 /\ edits < MaxTyped
      /\ address' \in Pay!Shown /\ Pay!EditingEnd("address", address', amount)
      /\ asking' = 1 /\ covered' = TRUE
      /\ UNCHANGED <<focus, available, limits, send, taps>>
  BY DEF Pay!Scan, Pay!UserFree, Pay!Edit
<1>1. amount \in Pay!Typed \cup {Pay!Blank} /\ Pay!TypeOK
  BY DEF PayInv, Pay!TypeOK
<1>2. /\ sendingValue' \in 0..Balance /\ amount' \in Pay!Typed \cup {Pay!Blank}
      /\ enabled' \in BOOLEAN /\ mixed' \in BOOLEAN /\ estimates' \subseteq Pay!Request
      /\ amount' = amount
  <2>1. PICK a \in Pay!Shown : a = address'
    BY <1>0
  <2>2. Pay!EditingEnd("address", a, amount)
    BY <1>0, <2>1
  <2>. QED
    BY <2>2, <1>1, EndIs
<1>3. Pay!TypeOK'
  BY <1>0, <1>1, <1>2, PayConstants DEF Pay!TypeOK
<1>4. AmountInv'
  BY <1>0, <1>2 DEF PayInv, AmountInv
<1>5. ASSUME NEW s \in Pay!Sends PROVE Calm(s) /\ SendFits(s)'
  BY <1>0, SameIsCalm, KeptFits, Uncovered DEF PayInv, SendInv, Same
<1>6. AskInv' /\ (Ready /\ estimates' = {} /\ ~mixed' => Fits(limits)') /\ (enabled' => enabled)
  BY <1>0, <1>1, EndKeeps DEF PayInv
<1>. QED
  BY <1>0, <1>3, <1>4, <1>5, <1>6, PayKept DEF PayInv, Pay!TypeOK

-----------------------------------------------------------------------------
(* The answers of the node, and the tap                                    *)

LEMMA BalanceKnown == PayInv /\ Pay!BalanceArrived => PayInv'
<1>. SUFFICES ASSUME PayInv, Pay!BalanceArrived PROVE PayInv'
  OBVIOUS
<1>0. /\ asking' = 0 /\ available' \in 0..Balance /\ covered' = FALSE /\ send' = Pay!Blamed(Pay!InFlight, "uncovered")
      /\ UNCHANGED <<address, amount, focus, sendingValue, estimates, mixed, limits, enabled, taps, edits>>
  BY DEF Pay!BalanceArrived, Pay!Hide, Pay!form
<1>1. /\ send' \in [Pay!Sends -> Payment]
      /\ \A s \in Pay!Sends : Same(s) /\ (s \in Pay!InFlight => "uncovered" \in send'[s].blame)
  <2>1. Pay!TypeOK /\ "uncovered" \in Pay!Causes
    BY DEF PayInv, Pay!Causes
  <2>. QED
    BY <1>0, <2>1, BlamedIs DEF Same
<1>2. Pay!TypeOK'
  <2>1. covered' \in BOOLEAN /\ available' \in 0..Balance
    BY <1>0, Zenon
  <2>3. asking' \in 0..1
    BY <1>0
  <2>2. Pay!TypeOK
    BY DEF PayInv
  <2>. QED
    BY <1>0, <1>1, <2>1, <2>2, <2>3 DEF Pay!TypeOK, Payment
<1>3. AmountInv'
  BY <1>0 DEF PayInv, AmountInv
<1>4. ASSUME NEW s \in Pay!Sends PROVE Calm(s) /\ SendFits(s)'
  BY <1>1, SameIsCalm, KeptFits DEF PayInv, SendInv
<1>5. AskInv' /\ (Ready /\ estimates' = {} /\ ~mixed' => Fits(limits)') /\ (enabled' => enabled)
  BY <1>0, FormKept DEF PayInv
<1>. QED
  BY <1>0, <1>2, <1>3, <1>4, <1>5, PayKept DEF PayInv, Pay!TypeOK

(* An estimate that comes alone fits; one that fails is known to whoever   *)
(* waits for the keychain.                                                 *)
LEMMA EstimateKnown == PayInv /\ Pay!EstimateArrived => PayInv'
<1>. SUFFICES ASSUME PayInv, Pay!EstimateArrived PROVE PayInv'
  OBVIOUS
<1>1. PICK e \in estimates :
        /\ estimates' = estimates \ {e}
        /\ covered' = FALSE
        /\ \/ /\ e[1] # Invalid /\ limits' = e /\ enabled' = TRUE
              /\ send' = Pay!Blamed(Pay!InFlight, "uncovered")
           \/ /\ UNCHANGED <<limits, enabled>>
              /\ send' = [s \in Pay!Sends |-> IF send[s].step = "auth"
                              THEN [send[s] EXCEPT !.blame = @ \cup {"hurried"}]
                              ELSE Pay!Blamed(Pay!InFlight, "uncovered")[s]]
  BY DEF Pay!EstimateArrived
<1>2. UNCHANGED <<address, amount, focus, sendingValue, available, asking, mixed, taps, edits>>
  BY DEF Pay!EstimateArrived, Pay!form
<1>3. Pay!TypeOK /\ send \in [Pay!Sends -> Payment] /\ "uncovered" \in Pay!Causes /\ "hurried" \in Pay!Causes
  BY SendType DEF PayInv, Pay!Causes
<1>4. /\ send' \in [Pay!Sends -> Payment]
      /\ \A s \in Pay!Sends : Same(s) /\ (s \in Pay!InFlight => "uncovered" \in send'[s].blame)
  <2>1. CASE send' = Pay!Blamed(Pay!InFlight, "uncovered")
    BY <1>3, <2>1, BlamedIs DEF Same
  <2>2. CASE send' = [s \in Pay!Sends |-> IF send[s].step = "auth"
                              THEN [send[s] EXCEPT !.blame = @ \cup {"hurried"}]
                              ELSE Pay!Blamed(Pay!InFlight, "uncovered")[s]]
    <3>1. ASSUME NEW s \in Pay!Sends, send[s].step = "auth"
          PROVE  send'[s] \in Payment /\ Same(s) /\ s \notin Pay!InFlight
      <4>1. send'[s] = [send[s] EXCEPT !.blame = @ \cup {"hurried"}]
        BY <2>2, <3>1
      <4>. QED
        BY <1>3, <3>1, <4>1 DEF Payment, Same, Pay!InFlight
    <3>2. ASSUME NEW s \in Pay!Sends, send[s].step # "auth"
          PROVE  send'[s] \in Payment /\ Same(s) /\ (s \in Pay!InFlight => "uncovered" \in send'[s].blame)
      <4>1. send'[s] = Pay!Blamed(Pay!InFlight, "uncovered")[s]
        BY <2>2, <3>2
      <4>. QED
        BY <1>3, <4>1, BlamedIs DEF Same
    <3>3. send' = [s \in Pay!Sends |-> send'[s]]
      BY <2>2
    <3>. QED
      BY <3>1, <3>2, <3>3
  <2>. QED
    BY <1>1, <2>1, <2>2
<1>5. e \in Pay!Request
  BY <1>3 DEF Pay!TypeOK
<1>6. Pay!TypeOK'
  BY <1>1, <1>2, <1>3, <1>4, <1>5 DEF Pay!TypeOK, Payment
<1>7. AmountInv'
  BY <1>2 DEF PayInv, AmountInv
<1>8. \A s \in Pay!Sends : Calm(s) /\ SendFits(s)'
  BY <1>4, SameIsCalm, KeptFits DEF PayInv, SendInv
<1>9. AskInv'
  <2>1. SUFFICES ASSUME estimates' # {}, ~mixed PROVE FALSE
    BY <1>2 DEF AskInv
  <2>2. PICK x \in estimates : estimates = {x}
    BY <1>1, <2>1 DEF PayInv, AskInv
  <2>. QED
    BY <1>1, <2>1, <2>2
<1>10. FitInv'
  <2>1. SUFFICES ASSUME Ready', ~mixed PROVE Fits(limits)'
    BY <1>2 DEF FitInv
  <2>2. ~enabled /\ Fits(e)
    BY <1>1, <2>1 DEF PayInv, AskInv
  <2>3. CASE limits' = e
    BY <1>2, <2>2, <2>3 DEF Fits
  <2>4. CASE UNCHANGED enabled /\ send' = [s \in Pay!Sends |-> IF send[s].step = "auth"
                              THEN [send[s] EXCEPT !.blame = @ \cup {"hurried"}]
                              ELSE Pay!Blamed(Pay!InFlight, "uncovered")[s]]
    <3>1. PICK s \in Pay!Sends : send'[s].step = "auth" /\ "hurried" \notin send'[s].blame
      BY <2>1, <2>2, <2>4 DEF Ready, Pay!At, Pay!Spared
    <3>2. send[s].step = "auth"
      BY <1>4, <3>1 DEF Same
    <3>3. send'[s] = [send[s] EXCEPT !.blame = @ \cup {"hurried"}]
      BY <2>4, <3>2
    <3>. QED
      BY <1>3, <3>1, <3>3 DEF Payment
  <2>. QED
    BY <1>1, <2>3, <2>4
<1>11. PairInv' /\ SendInv'
  BY <1>2, <1>3, <1>6, <1>8, PairKept, TapKept DEF PayInv, SendInv, Pay!TypeOK
<1>. QED
  BY <1>6, <1>7, <1>9, <1>10, <1>11 DEF PayInv

(* The button is enabled and nothing covers it: what is under way is known *)
(* to be uncovered, and whoever waits knows of the tap.                    *)
LEMMA Tapped == PayInv /\ Pay!SendTokenDidTap => PayInv'
<1>. SUFFICES ASSUME PayInv, Pay!SendTokenDidTap PROVE PayInv'
  OBVIOUS
<1>1. Pay!TypeOK /\ send \in [Pay!Sends -> Payment] /\ "twice" \in Pay!Causes /\ MaxSend \in Nat
  BY SendType, PayConstants DEF PayInv, Pay!Causes
<1>2. PICK u : u = taps + 1
  OBVIOUS
<1>3. PICK W : W = {s \in Pay!Sends : Pay!At(s, "auth")}
  OBVIOUS
<1>4. PICK S : S = W \cup {t \in {u} : W # {}}
  OBVIOUS
<1>5. /\ ~covered /\ enabled /\ taps < MaxSend /\ taps' = u
      /\ send' = [Pay!Blamed(S, "twice") EXCEPT ![u].step = "auth"]
      /\ UNCHANGED <<address, amount, focus, sendingValue, available, asking, estimates, mixed,
                     limits, enabled, covered, edits>>
  BY <1>2, <1>3, <1>4 DEF Pay!SendTokenDidTap, Pay!UserFree, Pay!form, Pay!asked
<1>6. u \in Pay!Sends /\ send[u].step = "none"
  <2>1. taps \in 0..MaxSend
    BY <1>1 DEF Pay!TypeOK
  <2>2. u \in Pay!Sends /\ u > taps
    BY <1>1, <1>2, <1>5, <2>1 DEF Pay!Sends
  <2>. QED
    BY <2>2 DEF PayInv, SendInv, TapFits, Pay!At
<1>. DEFINE B == Pay!Blamed(S, "twice")
<1>7. /\ B \in [Pay!Sends -> Payment]
      /\ \A s \in Pay!Sends :
           /\ B[s].step = send[s].step /\ B[s].seen = send[s].seen /\ B[s].to = send[s].to
           /\ B[s].value = send[s].value /\ B[s].left = send[s].left /\ B[s].limits = send[s].limits
           /\ B[s].blame = send[s].blame \cup {d \in {"twice"} : s \in S}
  BY <1>1, BlamedIs
<1>8. send' = [B EXCEPT ![u].step = "auth"]
  BY <1>5
<1>. HIDE DEF B
<1>9. send' \in [Pay!Sends -> Payment] /\ send'[u].step = "auth" /\ send'[u].blame = B[u].blame
  <2>1. B[u] \in Payment
    BY <1>6, <1>7
  <2>2. send'[u] = [B[u] EXCEPT !.step = "auth"] /\ \A s \in Pay!Sends \ {u} : send'[s] = B[s]
    BY <1>6, <1>7, <1>8
  <2>3. send'[u] \in Payment /\ send'[u].step = "auth" /\ send'[u].blame = B[u].blame
    BY <2>1, <2>2 DEF Payment, Pay!Steps
  <2>4. send' = [s \in Pay!Sends |-> send'[s]]
    BY <1>7, <1>8
  <2>. QED
    BY <1>7, <2>2, <2>3, <2>4
<1>10. ASSUME NEW s \in Pay!Sends \ {u} PROVE Same(s)
  <2>1. send'[s] = B[s]
    BY <1>7, <1>8
  <2>. QED
    BY <2>1, <1>7 DEF Same
<1>11. Pay!TypeOK'
  BY <1>1, <1>2, <1>5, <1>9 DEF Pay!TypeOK, Payment
<1>12. AmountInv'
  BY <1>5 DEF PayInv, AmountInv
<1>13. ASSUME NEW s \in Pay!Sends PROVE TapFits(s)' /\ SendFits(s)'
  <2>1. CASE s = u
    BY <1>2, <1>5, <1>9, <1>11, <2>1, OverFits DEF TapFits, Pay!TypeOK
  <2>2. CASE s # u
    <3>1. Same(s)
      BY <1>10, <2>2
    <3>2. TapFits(s)'
      <4>1. TapFits(s) /\ Calm(s)
        BY <3>1, SameIsCalm DEF PayInv, SendInv
      <4>2. taps \in 0..MaxSend
        BY <1>1 DEF Pay!TypeOK
      <4>3. taps' >= taps
        BY <1>1, <1>2, <1>5, <4>2
      <4>. QED
        BY <1>1, <1>11, <4>1, <4>3, TapKept
    <3>3. s \in Pay!InFlight => "uncovered" \in send'[s].blame
      BY <1>5, <3>1, Uncovered DEF PayInv, SendInv, Same
    <3>. QED
      BY <3>1, <3>2, <3>3, KeptFits DEF PayInv, SendInv
  <2>. QED
    BY <2>1, <2>2
<1>14. ASSUME NEW t \in Pay!Sends \ {u}, Going(t)'
       PROVE  Known(t)' /\ (Pay!At(t, "auth")' => Known(u)')
  <2>1. Same(t)
    BY <1>10
  <2>2. CASE Pay!At(t, "auth")
    <3>1. t \in S /\ u \in S
      BY <1>3, <1>4, <2>2
    <3>2. "twice" \in B[t].blame /\ "twice" \in B[u].blame
      BY <1>6, <1>7, <3>1
    <3>3. send'[t] = B[t]
      BY <1>7, <1>8
    <3>. QED
      BY <1>9, <3>2, <3>3 DEF Known, Pay!Spared
  <2>3. CASE ~Pay!At(t, "auth")
    <3>1. t \in Pay!InFlight /\ ~Pay!At(t, "auth")'
      BY <1>14, <2>1, <2>3 DEF Same, Pay!At, Going, Underway, Pay!InFlight
    <3>2. "uncovered" \in send'[t].blame
      BY <1>5, <2>1, <3>1, Uncovered DEF PayInv, SendInv, Same
    <3>. QED
      BY <3>1, <3>2 DEF Known, Pay!Spared
  <2>. QED
    BY <2>2, <2>3
<1>15. PairInv'
  <2>1. SUFFICES ASSUME NEW s \in Pay!Sends, NEW t \in Pay!Sends, s # t, Going(s)', Going(t)'
                 PROVE  (Pay!At(s, "auth")' => Known(t)') /\ (Known(s)' \/ Known(t)')
    BY DEF PairInv, PairFits
  <2>2. CASE s = u
    BY <1>14, <2>1, <2>2
  <2>3. CASE t = u
    BY <1>14, <2>1, <2>3
  <2>4. CASE s # u /\ t # u
    BY <1>14, <2>1, <2>4
  <2>. QED
    BY <2>2, <2>3, <2>4
<1>16. AskInv' /\ (Ready /\ estimates' = {} /\ ~mixed' => Fits(limits)')
  BY <1>5, FormKept DEF PayInv
<1>17. Ready
  BY <1>5 DEF Ready
<1>. QED
  BY <1>11, <1>12, <1>13, <1>15, <1>16, <1>17 DEF PayInv, SendInv, FitInv

-----------------------------------------------------------------------------
(* The sends                                                               *)

(* One send becomes r, and no other changes;                               *)
LEMMA MovedIs ==
    ASSUME Pay!TypeOK, NEW s \in Pay!Sends, NEW r \in Payment, send' = [send EXCEPT ![s] = r]
    PROVE  /\ send' \in [Pay!Sends -> Payment] /\ send'[s] = r
           /\ \A t \in Pay!Sends \ {s} : send'[t] = send[t] /\ Same(t) /\ Calm(t)
<1>1. send \in [Pay!Sends -> Payment]
  BY SendType
<1>2. send'[s] = r /\ \A t \in Pay!Sends \ {s} : send'[t] = send[t]
  BY <1>1
<1>3. \A t \in Pay!Sends \ {s} : Same(t)
  BY <1>2 DEF Same
<1>. QED
  BY <1>1, <1>2, <1>3, SameIsCalm

(* or the others are uncovered by it.                                      *)
LEMMA EndedIs ==
    ASSUME Pay!TypeOK, NEW s \in Pay!Sends, NEW r \in Payment,
           send' = [Pay!Blamed(Pay!InFlight \ {s}, "uncovered") EXCEPT ![s] = r]
    PROVE  /\ send' \in [Pay!Sends -> Payment] /\ send'[s] = r
           /\ \A t \in Pay!Sends \ {s} : Same(t) /\ Calm(t) /\ (t \in Pay!InFlight => "uncovered" \in send'[t].blame)
<1>. DEFINE B == Pay!Blamed(Pay!InFlight \ {s}, "uncovered")
<1>1. /\ B \in [Pay!Sends -> Payment]
      /\ \A t \in Pay!Sends :
           /\ B[t].step = send[t].step /\ B[t].seen = send[t].seen /\ B[t].to = send[t].to
           /\ B[t].value = send[t].value /\ B[t].left = send[t].left /\ B[t].limits = send[t].limits
           /\ B[t].blame = send[t].blame \cup {d \in {"uncovered"} : t \in Pay!InFlight \ {s}}
  <2>1. "uncovered" \in Pay!Causes
    BY DEF Pay!Causes
  <2>. QED
    BY <2>1, BlamedIs
<1>2. send' = [B EXCEPT ![s] = r]
  OBVIOUS
<1>. HIDE DEF B
<1>3. send' \in [Pay!Sends -> Payment] /\ send'[s] = r /\ \A t \in Pay!Sends \ {s} : send'[t] = B[t]
  BY <1>1, <1>2
<1>4. ASSUME NEW t \in Pay!Sends \ {s}
      PROVE  Same(t) /\ (t \in Pay!InFlight => "uncovered" \in send'[t].blame)
  <2>1. send'[t] = B[t] /\ t \in Pay!Sends
    BY <1>3
  <2>2. Same(t)
    BY <2>1, <1>1 DEF Same
  <2>3. t \in Pay!InFlight => "uncovered" \in B[t].blame
    BY <2>1, <1>1
  <2>. QED
    BY <2>1, <2>2, <2>3
<1>. QED
  BY <1>3, <1>4, SameIsCalm

LEMMA NothingIs ==
    ASSUME NEW x \in Pay!Steps, NEW b \in SUBSET Pay!Causes
    PROVE  /\ [Pay!NoSend EXCEPT !.step = x, !.blame = b] \in Payment
           /\ [Pay!NoSend EXCEPT !.step = x] \in Payment
<1>1. /\ Pay!NoLimit \in Pay!Shown \X (Pay!Typed \cup {Pay!Blank}) /\ Pay!Empty \in Pay!Shown
      /\ 0 \in -Fee..Balance /\ 0 \in Int
  BY PayConstants DEF Pay!NoLimit, Pay!Shown, Pay!Typed
<1>. QED
  BY <1>1 DEF Pay!NoSend, Payment

(* The password is accepted: what is seen is what the page shows, and the  *)
(* limits fit it unless an estimate is asked for.                          *)
LEMMA PasswordGiven ==
    ASSUME PayInv, NEW s \in Pay!Sends, Pay!SendTokenWithPwd(s)
    PROVE  PayInv'
<1>1. Pay!TypeOK /\ send \in [Pay!Sends -> Payment]
  BY SendType DEF PayInv
<1>. DEFINE b == send[s].blame \cup {c \in {"blank"} : amount' # sendingValue'}
                   \cup {c \in {"hurried"} : estimates' # {}} \cup {c \in {"mixed"} : mixed'}
            r == [send[s] EXCEPT !.step = "nonce", !.seen = <<address, amount'>>, !.blame = b]
<1>2. /\ send[s].step = "auth" /\ Pay!EditingEnd(focus, address, amount) /\ focus' = "none" /\ covered' = TRUE
      /\ UNCHANGED <<address, available, asking, limits, taps, edits>>
  BY DEF Pay!SendTokenWithPwd, Pay!At
<1>3. send' = [send EXCEPT ![s] = r]
  BY <1>1 DEF Pay!SendTokenWithPwd
<1>4. /\ address \in Pay!Shown /\ amount \in Pay!Typed \cup {Pay!Blank} /\ focus \in {"none", "address", "value"}
      /\ address' = address
  BY <1>1, <1>2 DEF Pay!TypeOK
<1>5. /\ sendingValue' \in 0..Balance /\ amount' \in Pay!Typed \cup {Pay!Blank}
      /\ enabled' \in BOOLEAN /\ mixed' \in BOOLEAN /\ estimates' \subseteq Pay!Request
      /\ (focus # "value" => amount' = amount /\ sendingValue' = sendingValue)
      /\ (focus = "value" => amount' # 0)
  BY <1>1, <1>2, <1>4, EndIs
<1>6. b \in SUBSET Pay!Causes
  BY <1>1 DEF Payment, Pay!Causes
<1>7. /\ (b \cap {"blank"} = {} => amount' = sendingValue') /\ (b \cap {"hurried"} = {} => estimates' = {})
      /\ (b \cap {"mixed"} = {} => ~mixed') /\ send[s].blame \subseteq b
  OBVIOUS
<1>. HIDE DEF b
<1>8. r \in Payment /\ r.step = "nonce" /\ r.seen = <<address, amount'>> /\ r.blame = b
  <2>1. send[s] \in Payment /\ "nonce" \in Pay!Steps
    BY <1>1 DEF Pay!Steps
  <2>2. <<address, amount'>> \in Pay!Shown \X (Pay!Typed \cup {Pay!Blank})
    BY <1>4, <1>5
  <2>. QED
    BY <2>1, <2>2, <1>6 DEF Payment
<1>. HIDE DEF r
<1>9. /\ send' \in [Pay!Sends -> Payment] /\ send'[s] = r
      /\ \A t \in Pay!Sends \ {s} : send'[t] = send[t] /\ Same(t) /\ Calm(t)
  BY <1>1, <1>3, <1>8, MovedIs
<1>10. Pay!TypeOK'
  BY <1>1, <1>2, <1>4, <1>5, <1>9 DEF Pay!TypeOK, Payment
<1>11. AmountInv' /\ amount' # 0
  BY <1>2, <1>5 DEF PayInv, AmountInv
<1>12. AskInv' /\ (Ready /\ estimates' = {} /\ ~mixed' => Fits(limits)') /\ (enabled' => enabled)
  BY <1>1, <1>2, <1>4, EndKeeps DEF PayInv
<1>13. Calm(s)
  BY <1>2, <1>7, <1>8, <1>9 DEF Calm, Pay!At, Going
<1>14. ASSUME NEW t \in Pay!Sends \ {s} PROVE SendFits(t)'
  <2>1. SendFits(t) /\ Same(t) /\ send'[t] = send[t]
    BY <1>9 DEF PayInv, SendInv
  <2>2. ASSUME t \in Pay!InFlight, "uncovered" \notin send[t].blame
        PROVE  UNCHANGED <<address, sendingValue, limits>> /\ covered' /\ focus' = "none"
    <3>1. focus = "none"
      BY <2>1, <2>2, Uncovered
    <3>. QED
      BY <1>2, <1>5, <3>1
  <2>. QED
    BY <2>1, <2>2, KeptFits
<1>15. SendFits(s)'
  <2>1. s \in Pay!InFlight' /\ send'[s].step = "nonce" /\ send'[s].seen = <<address, amount'>> /\ send'[s].blame = b
    BY <1>8, <1>9 DEF Pay!InFlight
  <2>2. CoverFits(s)' /\ PaidFits(s)'
    BY <1>2, <2>1 DEF CoverFits, PaidFits
  <2>3. SeenFits(s)'
    BY <1>2, <1>7, <2>1 DEF SeenFits, Pay!Spared
  <2>4. ASSUME b \cap {"uncovered", "blank", "hurried", "mixed"} = {}, address \in Payees
        PROVE  limits' = <<address, amount'>>
    <3>1. amount' = sendingValue' /\ estimates' = {} /\ ~mixed' /\ sendingValue' > 0
      BY <1>5, <1>7, <1>11, <2>4
    <3>2. Ready
      BY <1>2, <1>7, <2>4 DEF Ready, Pay!At, Pay!Spared
    <3>. QED
      BY <1>2, <1>12, <2>4, <3>1, <3>2 DEF Fits
  <2>5. LimitFits(s)'
    BY <2>1, <2>4 DEF LimitFits, Pay!Spared, Pay!At
  <2>. QED
    BY <2>2, <2>3, <2>5 DEF SendFits
<1>16. \A t \in Pay!Sends : Calm(t) /\ SendFits(t)'
  BY <1>9, <1>13, <1>14, <1>15
<1>17. taps' >= taps
  BY <1>1, <1>2 DEF Pay!TypeOK
<1>. QED
  BY <1>10, <1>11, <1>12, <1>16, <1>17, PayKept

(* The password is refused, before or after the end of editing.            *)
LEMMA PasswordRefused ==
    ASSUME PayInv, NEW s \in Pay!Sends, Pay!Refused(s)
    PROVE  PayInv'
<1>1. Pay!TypeOK
  BY DEF PayInv
<1>. DEFINE r == [Pay!NoSend EXCEPT !.step = "failed"]
<1>2. /\ send[s].step = "auth" /\ send' = [send EXCEPT ![s] = r]
      /\ UNCHANGED <<address, available, asking, limits, taps, edits>>
  BY DEF Pay!Refused, Pay!At
<1>3. r \in Payment /\ r.step = "failed"
  BY NothingIs DEF Pay!Steps, Pay!NoSend
<1>. HIDE DEF r
<1>4. /\ send' \in [Pay!Sends -> Payment] /\ send'[s].step = "failed"
      /\ \A t \in Pay!Sends \ {s} : send'[t] = send[t] /\ Same(t) /\ Calm(t)
  BY <1>1, <1>2, <1>3, MovedIs
<1>5. Calm(s) /\ SendFits(s)'
  BY <1>2, <1>4, OverFits DEF Calm, Pay!At, Underway
<1>6. /\ address \in Pay!Shown /\ amount \in Pay!Typed \cup {Pay!Blank} /\ focus \in {"none", "address", "value"}
      /\ address' = address
  BY <1>1, <1>2 DEF Pay!TypeOK
<1>7. taps' >= taps
  BY <1>1, <1>2 DEF Pay!TypeOK
<1>8. CASE /\ Pay!EditingEnd(focus, address, amount)
           /\ covered' = (covered \/ Pay!Asks(focus, address, amount))
           /\ focus' = "none"
  <2>1. /\ sendingValue' \in 0..Balance /\ amount' \in Pay!Typed \cup {Pay!Blank}
        /\ enabled' \in BOOLEAN /\ mixed' \in BOOLEAN /\ estimates' \subseteq Pay!Request
        /\ (focus # "value" => amount' = amount /\ sendingValue' = sendingValue)
        /\ (focus = "value" => amount' # 0)
    BY <1>1, <1>6, <1>8, EndIs
  <2>2. covered' \in BOOLEAN /\ (covered => covered')
    BY <1>8, Zenon
  <2>3. Pay!TypeOK'
    BY <1>1, <1>2, <1>4, <1>6, <1>8, <2>1, <2>2 DEF Pay!TypeOK, Payment
  <2>4. AmountInv'
    BY <1>8, <2>1 DEF PayInv, AmountInv
  <2>5. AskInv' /\ (Ready /\ estimates' = {} /\ ~mixed' => Fits(limits)') /\ (enabled' => enabled)
    BY <1>1, <1>2, <1>6, <1>8, EndKeeps DEF PayInv
  <2>6. ASSUME NEW t \in Pay!Sends \ {s} PROVE SendFits(t)'
    <3>1. SendFits(t) /\ Same(t) /\ send'[t] = send[t]
      BY <1>4 DEF PayInv, SendInv
    <3>2. ASSUME t \in Pay!InFlight, "uncovered" \notin send[t].blame
          PROVE  UNCHANGED <<address, sendingValue, limits>> /\ covered' /\ focus' = "none"
      <4>1. covered /\ focus = "none"
        BY <3>1, <3>2, Uncovered
      <4>. QED
        BY <1>2, <1>8, <2>1, <2>2, <4>1
    <3>. QED
      BY <3>1, <3>2, KeptFits
  <2>. QED
    BY <1>4, <1>5, <1>7, <2>3, <2>4, <2>5, <2>6, PayKept
<1>9. CASE UNCHANGED <<amount, focus, sendingValue, enabled, covered, estimates, mixed>>
  <2>1. Pay!TypeOK'
    BY <1>1, <1>2, <1>4, <1>9 DEF Pay!TypeOK, Payment
  <2>2. AmountInv'
    BY <1>9 DEF PayInv, AmountInv
  <2>3. AskInv' /\ (Ready /\ estimates' = {} /\ ~mixed' => Fits(limits)') /\ (enabled' => enabled)
    BY <1>2, <1>9, FormKept DEF PayInv
  <2>4. ASSUME NEW t \in Pay!Sends \ {s} PROVE SendFits(t)'
    BY <1>2, <1>4, <1>9, KeptFits, Uncovered DEF PayInv, SendInv
  <2>. QED
    BY <1>4, <1>5, <1>7, <2>1, <2>2, <2>3, <2>4, PayKept
<1>. QED
  BY <1>8, <1>9 DEF Pay!Refused

(* A send goes on, and nothing else moves.                                 *)
LEMMA GoesOn ==
    ASSUME PayInv, NEW s \in Pay!Sends, NEW r \in Payment, send' = [send EXCEPT ![s] = r],
           UNCHANGED <<Pay!form, available, Pay!asked, limits, enabled, covered, taps, edits>>,
           s \in Pay!InFlight, r.step \in Underway, send[s].blame \subseteq r.blame,
           SendFits(s)'
    PROVE  PayInv'
<1>1. Pay!TypeOK
  BY DEF PayInv
<1>2. UNCHANGED <<address, amount, focus, sendingValue, available, asking, estimates, mixed,
                  limits, enabled, covered, taps, edits>>
  BY DEF Pay!form, Pay!asked
<1>3. /\ send' \in [Pay!Sends -> Payment] /\ send'[s] = r
      /\ \A t \in Pay!Sends \ {s} : send'[t] = send[t] /\ Same(t) /\ Calm(t)
  BY <1>1, MovedIs
<1>4. Calm(s)
  BY <1>3 DEF Calm, Pay!At, Going, Underway, Pay!InFlight
<1>5. Pay!TypeOK'
  BY <1>1, <1>2, <1>3 DEF Pay!TypeOK, Payment
<1>6. AmountInv'
  BY <1>2 DEF PayInv, AmountInv
<1>7. AskInv' /\ (Ready /\ estimates' = {} /\ ~mixed' => Fits(limits)') /\ (enabled' => enabled)
  BY <1>2, FormKept DEF PayInv
<1>8. ASSUME NEW t \in Pay!Sends \ {s} PROVE SendFits(t)'
  BY <1>2, <1>3, KeptFits, Uncovered DEF PayInv, SendInv
<1>9. taps' >= taps
  BY <1>1, <1>2 DEF Pay!TypeOK
<1>. QED
  BY <1>3, <1>4, <1>5, <1>6, <1>7, <1>8, <1>9, PayKept

LEMMA NonceKnown ==
    ASSUME PayInv, NEW s \in Pay!Sends, Pay!NonceArrived(s)
    PROVE  PayInv'
<1>1. Pay!TypeOK /\ send \in [Pay!Sends -> Payment]
  BY SendType DEF PayInv
<1>. DEFINE r == [send[s] EXCEPT !.step = "epoch"]
<1>2. /\ send[s].step = "nonce" /\ send' = [send EXCEPT ![s] = r]
      /\ UNCHANGED <<Pay!form, available, Pay!asked, limits, enabled, covered, taps, edits>>
  BY <1>1 DEF Pay!NonceArrived, Pay!At
<1>3. /\ r \in Payment /\ r.step = "epoch" /\ r.seen = send[s].seen /\ r.to = send[s].to
      /\ r.blame = send[s].blame
  BY <1>1 DEF Payment, Pay!Steps
<1>. HIDE DEF r
<1>4. send'[s] = r
  BY <1>1, <1>2
<1>5. s \in Pay!InFlight /\ s \in Pay!InFlight' /\ SendFits(s)
  BY <1>2, <1>3, <1>4 DEF Pay!InFlight, PayInv, SendInv
<1>6. UNCHANGED <<address, focus, sendingValue, limits, covered>>
  BY <1>2 DEF Pay!form
<1>7. CoverFits(s)' /\ PaidFits(s)'
  BY <1>3, <1>4, <1>5, <1>6 DEF SendFits, CoverFits, PaidFits, Pay!Spared
<1>8. SeenFits(s)'
  BY <1>2, <1>3, <1>4, <1>5, <1>6 DEF SendFits, SeenFits, Pay!Spared
<1>9. LimitFits(s)'
  BY <1>2, <1>3, <1>4, <1>5, <1>6 DEF SendFits, LimitFits, Pay!Spared, Pay!At
<1>10. SendFits(s)' /\ r.step \in Underway /\ send[s].blame \subseteq r.blame
  BY <1>3, <1>7, <1>8, <1>9 DEF SendFits, Underway
<1>. QED
  BY <1>2, <1>3, <1>5, <1>10, GoesOn

(* The amount is read: it is the one seen, less what is missing for the    *)
(* fee.                                                                    *)
LEMMA LessIs ==
    ASSUME Pay!TypeOK
    PROVE  /\ Pay!LessFee(sendingValue) \in -Fee..Balance /\ available - Pay!LessFee(sendingValue) \in Int
           /\ ~Pay!Poor =>
                LET less == sendingValue - Pay!LessFee(sendingValue) IN
                /\ less \in 0..Fee /\ (Token => less = 0)
                /\ ~Token => /\ available - Pay!LessFee(sendingValue) >= Fee
                             /\ less > 0 => available - Pay!LessFee(sendingValue) = Fee
<1>1. /\ sendingValue \in 0..Balance /\ available \in 0..Balance
      /\ Balance \in Nat /\ Fee \in Nat /\ Fee <= Balance
  BY PayConstants DEF Pay!TypeOK
<1>2. CASE ~Token /\ available - sendingValue < Fee
  <2>1. Pay!LessFee(sendingValue) = available - Fee
    BY <1>1, <1>2 DEF Pay!LessFee
  <2>. QED
    BY <1>1, <1>2, <2>1 DEF Pay!Poor
<1>3. CASE ~(~Token /\ available - sendingValue < Fee)
  <2>1. Pay!LessFee(sendingValue) = sendingValue
    BY <1>3 DEF Pay!LessFee
  <2>. QED
    BY <1>1, <1>3, <2>1 DEF Pay!Poor
<1>. QED
  BY <1>2, <1>3

LEMMA EpochKnown ==
    ASSUME PayInv, NEW s \in Pay!Sends, Pay!EpochArrived(s)
    PROVE  PayInv'
<1>1. Pay!TypeOK /\ send \in [Pay!Sends -> Payment]
  BY SendType DEF PayInv
<1>. DEFINE v == Pay!LessFee(sendingValue)
            b == send[s].blame \cup {c \in {"poor"} : Pay!Poor}
            r == [send[s] EXCEPT !.step = "address", !.value = v, !.left = available - v, !.blame = b]
<1>2. /\ send[s].step = "epoch" /\ send' = [send EXCEPT ![s] = r]
      /\ UNCHANGED <<Pay!form, available, Pay!asked, limits, enabled, covered, taps, edits>>
  BY <1>1 DEF Pay!EpochArrived, Pay!At
<1>3. b \in SUBSET Pay!Causes /\ send[s].blame \subseteq b /\ (b \cap {"poor"} = {} => ~Pay!Poor)
  BY <1>1 DEF Payment, Pay!Causes
<1>4. v \in -Fee..Balance /\ available - v \in Int
  BY <1>1, LessIs
<1>5. ~Pay!Poor => LET less == sendingValue - v IN
               /\ less \in 0..Fee /\ (Token => less = 0)
               /\ ~Token => available - v >= Fee /\ (less > 0 => available - v = Fee)
  BY <1>1, LessIs
<1>. HIDE DEF v, b
<1>6. /\ r \in Payment /\ r.step = "address" /\ r.seen = send[s].seen /\ r.to = send[s].to
      /\ r.value = v /\ r.left = available - v /\ r.blame = b
  <2>1. send[s] \in Payment /\ "address" \in Pay!Steps
    BY <1>1 DEF Pay!Steps
  <2>2. PICK n \in Int : n = available - v
    BY <1>4
  <2>3. r = [send[s] EXCEPT !.step = "address", !.value = v, !.left = n, !.blame = b]
    BY <2>2
  <2>. QED
    BY <2>1, <2>2, <2>3, <1>3, <1>4 DEF Payment
<1>. HIDE DEF r
<1>7. send'[s] = r
  BY <1>1, <1>2
<1>8. s \in Pay!InFlight /\ s \in Pay!InFlight' /\ SendFits(s)
  BY <1>2, <1>6, <1>7 DEF Pay!InFlight, PayInv, SendInv
<1>9. UNCHANGED <<address, focus, sendingValue, limits, covered>>
  BY <1>2 DEF Pay!form
<1>10. \A S : b \cap S = {} => send[s].blame \cap S = {}
  BY <1>3
<1>11. CoverFits(s)'
  BY <1>6, <1>7, <1>8, <1>9, <1>10 DEF SendFits, CoverFits, Pay!Spared
<1>12. SeenFits(s)'
  BY <1>2, <1>6, <1>7, <1>8, <1>9, <1>10 DEF SendFits, SeenFits, Pay!Spared
<1>13. PaidFits(s)'
  <2>1. SUFFICES ASSUME b \cap {"uncovered", "blank", "poor"} = {} PROVE LessFits(s)'
    BY <1>6, <1>7 DEF PaidFits, Pay!Spared
  <2>2. ~Pay!Poor /\ send[s].blame \cap {"uncovered"} = {} /\ send[s].blame \cap {"blank"} = {}
    BY <1>3, <2>1
  <2>3. sendingValue = send[s].seen[2]
    BY <1>2, <1>8, <2>2 DEF SendFits, SeenFits, Pay!Spared
  <2>. QED
    BY <1>5, <1>6, <1>7, <2>2, <2>3 DEF LessFits
<1>14. LimitFits(s)'
  BY <1>2, <1>6, <1>7, <1>8, <1>9, <1>10 DEF SendFits, LimitFits, Pay!Spared, Pay!At
<1>15. SendFits(s)' /\ r.step \in Underway /\ send[s].blame \subseteq r.blame
  BY <1>3, <1>6, <1>11, <1>12, <1>13, <1>14 DEF SendFits, Underway
<1>. QED
  BY <1>2, <1>6, <1>8, <1>15, GoesOn

LEMMA AddressKnown ==
    ASSUME PayInv, NEW s \in Pay!Sends, Pay!AddressRead(s)
    PROVE  PayInv'
<1>1. Pay!TypeOK /\ send \in [Pay!Sends -> Payment]
  BY SendType DEF PayInv
<1>. DEFINE r == [send[s] EXCEPT !.step = "sign", !.to = address]
<1>2. /\ send[s].step = "address" /\ send' = [send EXCEPT ![s] = r]
      /\ UNCHANGED <<Pay!form, available, Pay!asked, limits, enabled, covered, taps, edits>>
  BY <1>1 DEF Pay!AddressRead, Pay!At
<1>3. /\ r \in Payment /\ r.step = "sign" /\ r.seen = send[s].seen /\ r.to = address
      /\ r.value = send[s].value /\ r.left = send[s].left /\ r.blame = send[s].blame
  <2>1. send[s] \in Payment /\ address \in Pay!Shown
    BY <1>1 DEF Pay!TypeOK
  <2>. QED
    BY <2>1 DEF Payment, Pay!Steps
<1>. HIDE DEF r
<1>4. send'[s] = r
  BY <1>1, <1>2
<1>5. s \in Pay!InFlight /\ s \in Pay!InFlight' /\ SendFits(s)
  BY <1>2, <1>3, <1>4 DEF Pay!InFlight, PayInv, SendInv
<1>6. UNCHANGED <<address, focus, sendingValue, limits, covered>>
  BY <1>2 DEF Pay!form
<1>7. CoverFits(s)'
  BY <1>3, <1>4, <1>5, <1>6 DEF SendFits, CoverFits, Pay!Spared
<1>8. SeenFits(s)'
  BY <1>2, <1>3, <1>4, <1>5, <1>6 DEF SendFits, SeenFits, Pay!Spared
<1>9. PaidFits(s)'
  BY <1>2, <1>3, <1>4, <1>5 DEF SendFits, PaidFits, LessFits, Pay!Spared
<1>10. LimitFits(s)'
  BY <1>2, <1>3, <1>4, <1>5, <1>6 DEF SendFits, LimitFits, Pay!Spared, Pay!At
<1>11. SendFits(s)' /\ r.step \in Underway /\ send[s].blame \subseteq r.blame
  BY <1>3, <1>7, <1>8, <1>9, <1>10 DEF SendFits, Underway
<1>. QED
  BY <1>2, <1>3, <1>5, <1>11, GoesOn

LEMMA SignKeeps ==
    ASSUME PayInv, NEW s \in Pay!Sends, Pay!Sign(s)
    PROVE  PayInv'
<1>1. Pay!TypeOK /\ send \in [Pay!Sends -> Payment]
  BY SendType DEF PayInv
<1>. DEFINE r == [send[s] EXCEPT !.step = "submit", !.limits = limits]
<1>2. /\ send[s].step = "sign" /\ send[s].to \in Payees /\ send' = [send EXCEPT ![s] = r]
      /\ UNCHANGED <<Pay!form, available, Pay!asked, limits, enabled, covered, taps, edits>>
  BY <1>1 DEF Pay!Sign, Pay!At
<1>3. /\ r \in Payment /\ r.step = "submit" /\ r.seen = send[s].seen /\ r.to = send[s].to
      /\ r.value = send[s].value /\ r.left = send[s].left /\ r.blame = send[s].blame /\ r.limits = limits
  <2>1. send[s] \in Payment /\ limits \in Pay!Request \cup {Pay!NoLimit}
    BY <1>1 DEF Pay!TypeOK
  <2>. QED
    BY <2>1 DEF Payment, Pay!Steps
<1>. HIDE DEF r
<1>4. send'[s] = r
  BY <1>1, <1>2
<1>5. s \in Pay!InFlight /\ s \in Pay!InFlight' /\ SendFits(s)
  BY <1>2, <1>3, <1>4 DEF Pay!InFlight, PayInv, SendInv
<1>6. UNCHANGED <<address, focus, sendingValue, limits, covered>>
  BY <1>2 DEF Pay!form
<1>7. CoverFits(s)'
  BY <1>3, <1>4, <1>5, <1>6 DEF SendFits, CoverFits, Pay!Spared
<1>8. SeenFits(s)'
  BY <1>2, <1>3, <1>4, <1>5 DEF SendFits, SeenFits, Pay!Spared
<1>9. PaidFits(s)'
  BY <1>2, <1>3, <1>4, <1>5 DEF SendFits, PaidFits, LessFits, Pay!Spared
<1>10. LimitFits(s)'
  BY <1>2, <1>3, <1>4, <1>5 DEF SendFits, LimitFits, Pay!Spared, Pay!At
<1>11. SendFits(s)' /\ r.step \in Underway /\ send[s].blame \subseteq r.blame
  BY <1>3, <1>7, <1>8, <1>9, <1>10 DEF SendFits, Underway
<1>. QED
  BY <1>2, <1>3, <1>5, <1>11, GoesOn

(* The transaction is with the node; its status covers the page again.     *)
LEMMA SubmittedKeeps ==
    ASSUME PayInv, NEW s \in Pay!Sends, Pay!Submitted(s)
    PROVE  PayInv'
<1>1. Pay!TypeOK /\ send \in [Pay!Sends -> Payment]
  BY SendType DEF PayInv
<1>. DEFINE r == [Pay!NoSend EXCEPT !.step = "poll", !.blame = send[s].blame]
<1>2. /\ send[s].step = "submit" /\ send' = [send EXCEPT ![s] = r] /\ covered' = TRUE
      /\ UNCHANGED <<address, amount, focus, sendingValue, available, asking, estimates, mixed,
                     limits, enabled, taps, edits>>
  BY DEF Pay!Submitted, Pay!At, Pay!form, Pay!asked
<1>3. r \in Payment /\ r.step = "poll" /\ r.blame = send[s].blame
  <2>1. send[s].blame \in SUBSET Pay!Causes /\ "poll" \in Pay!Steps
    BY <1>1 DEF Payment, Pay!Steps
  <2>. QED
    BY <2>1, NothingIs DEF Pay!NoSend
<1>. HIDE DEF r
<1>4. /\ send' \in [Pay!Sends -> Payment] /\ send'[s] = r
      /\ \A t \in Pay!Sends \ {s} : send'[t] = send[t] /\ Same(t) /\ Calm(t)
  BY <1>1, <1>2, <1>3, MovedIs
<1>5. s \in Pay!InFlight /\ SendFits(s)
  BY <1>2 DEF Pay!InFlight, PayInv, SendInv
<1>6. Calm(s)
  BY <1>2, <1>3, <1>4 DEF Calm, Pay!At, Going, Underway
<1>7. SendFits(s)'
  BY <1>2, <1>3, <1>4, <1>5 DEF SendFits, CoverFits, SeenFits, PaidFits, LimitFits, Pay!Spared, Pay!At
<1>8. Pay!TypeOK'
  <2>1. covered' \in BOOLEAN
    BY <1>2
  <2>. QED
    BY <1>1, <1>2, <1>4, <2>1 DEF Pay!TypeOK, Payment
<1>9. AmountInv'
  BY <1>2 DEF PayInv, AmountInv
<1>10. AskInv' /\ (Ready /\ estimates' = {} /\ ~mixed' => Fits(limits)') /\ (enabled' => enabled)
  BY <1>2, FormKept DEF PayInv
<1>11. ASSUME NEW t \in Pay!Sends \ {s} PROVE SendFits(t)'
  BY <1>2, <1>4, KeptFits, Uncovered DEF PayInv, SendInv
<1>12. taps' >= taps
  BY <1>1, <1>2 DEF Pay!TypeOK
<1>. QED
  BY <1>4, <1>6, <1>7, <1>8, <1>9, <1>10, <1>11, <1>12, PayKept

(* A send ends, refused by the node or with a status, and takes the        *)
(* overlay with it.                                                        *)
LEMMA EndedKeeps ==
    ASSUME PayInv, NEW s \in Pay!Sends, NEW x \in {"failed", "sent"},
           send' = [Pay!Blamed(Pay!InFlight \ {s}, "uncovered") EXCEPT ![s] = [Pay!NoSend EXCEPT !.step = x]],
           send[s].step # "none", covered' = FALSE,
           UNCHANGED <<Pay!form, available, Pay!asked, limits, enabled, taps, edits>>
    PROVE  PayInv'
<1>1. Pay!TypeOK
  BY DEF PayInv
<1>. DEFINE r == [Pay!NoSend EXCEPT !.step = x]
<1>2. r \in Payment /\ r.step = x
  <2>1. x \in Pay!Steps
    BY DEF Pay!Steps
  <2>. QED
    BY <2>1, NothingIs DEF Pay!NoSend
<1>3. send' = [Pay!Blamed(Pay!InFlight \ {s}, "uncovered") EXCEPT ![s] = r]
  OBVIOUS
<1>4. UNCHANGED <<address, amount, focus, sendingValue, available, asking, estimates, mixed,
                  limits, enabled, taps, edits>>
  BY DEF Pay!form, Pay!asked
<1>. HIDE DEF r
<1>5. /\ send' \in [Pay!Sends -> Payment] /\ send'[s] = r
      /\ \A t \in Pay!Sends \ {s} : Same(t) /\ Calm(t) /\ (t \in Pay!InFlight => "uncovered" \in send'[t].blame)
  BY <1>1, <1>2, <1>3, EndedIs
<1>6. Calm(s) /\ SendFits(s)'
  BY <1>2, <1>5, OverFits DEF Calm, Pay!At, Underway
<1>7. Pay!TypeOK'
  <2>1. covered' \in BOOLEAN
    OBVIOUS
  <2>. QED
    BY <1>1, <1>4, <1>5, <2>1 DEF Pay!TypeOK, Payment
<1>8. AmountInv'
  BY <1>4 DEF PayInv, AmountInv
<1>9. AskInv' /\ (Ready /\ estimates' = {} /\ ~mixed' => Fits(limits)') /\ (enabled' => enabled)
  BY <1>4, FormKept DEF PayInv
<1>10. ASSUME NEW t \in Pay!Sends \ {s} PROVE SendFits(t)'
  BY <1>5, KeptFits DEF PayInv, SendInv
<1>11. taps' >= taps
  BY <1>1, <1>4 DEF Pay!TypeOK
<1>. QED
  BY <1>5, <1>6, <1>7, <1>8, <1>9, <1>10, <1>11, PayKept

LEMMA AnswerKeeps ==
    ASSUME PayInv, NEW s \in Pay!Sends, Pay!Answer(s)
    PROVE  PayInv'
<1>1. CASE Pay!Failed(s)
  BY <1>1, EndedKeeps DEF Pay!Failed
<1>2. CASE Pay!StatusArrived(s)
  BY <1>2, EndedKeeps DEF Pay!StatusArrived, Pay!At
<1>. QED
  BY <1>1, <1>2, PasswordGiven, PasswordRefused, NonceKnown, EpochKnown, AddressKnown,
     SignKeeps, SubmittedKeeps DEF Pay!Answer

-----------------------------------------------------------------------------
(* The payments                                                            *)

LEMMA PayInit == Pay!Init => PayInv
<1>. SUFFICES ASSUME Pay!Init PROVE PayInv
  OBVIOUS
<1>1. send = [s \in Pay!Sends |-> Pay!NoSend] /\ Pay!NoSend \in Payment /\ Pay!NoSend.step = "none"
  <2>1. /\ Pay!NoLimit \in Pay!Shown \X (Pay!Typed \cup {Pay!Blank}) /\ Pay!Empty \in Pay!Shown /\ "none" \in Pay!Steps
        /\ 0 \in -Fee..Balance /\ 0 \in Int
    BY PayConstants DEF Pay!NoLimit, Pay!Shown, Pay!Typed, Pay!Steps
  <2>2. Pay!NoSend \in Payment /\ Pay!NoSend.step = "none"
    BY <2>1 DEF Pay!NoSend, Payment
  <2>. QED
    BY <2>2 DEF Pay!Init
<1>2. Pay!TypeOK
  <2>1. /\ address \in Pay!Shown /\ amount \in Pay!Typed \cup {Pay!Blank} /\ focus \in {"none", "address", "value"}
        /\ asking \in 0..1 /\ estimates \subseteq Pay!Request /\ limits \in Pay!Request \cup {Pay!NoLimit}
    BY DEF Pay!Init, Pay!Shown
  <2>2. /\ sendingValue \in 0..Balance /\ available \in 0..Balance
        /\ taps \in 0..MaxSend /\ edits \in 0..MaxTyped
    BY PayConstants DEF Pay!Init
  <2>3. mixed \in BOOLEAN /\ enabled \in BOOLEAN /\ covered \in BOOLEAN
    BY DEF Pay!Init
  <2>4. send \in [Pay!Sends -> Payment]
    BY <1>1
  <2>. QED
    BY <2>1, <2>2, <2>3, <2>4 DEF Pay!TypeOK, Payment
<1>3. AmountInv
  BY PayConstants DEF Pay!Init, AmountInv, Pay!Blank
<1>4. \A s \in Pay!Sends : send[s].step = "none"
  BY <1>1
<1>5. SendInv
  BY <1>4 DEF SendInv, TapFits, SendFits, CoverFits, SeenFits, PaidFits, LimitFits, Pay!InFlight, Pay!At
<1>6. PairInv
  BY <1>4 DEF PairInv, PairFits, Going, Underway
<1>7. AskInv
  BY DEF AskInv, Pay!Init
<1>8. FitInv
  BY <1>4 DEF FitInv, Ready, Pay!Init, Pay!At
<1>. QED
  BY <1>2, <1>3, <1>5, <1>6, <1>7, <1>8 DEF PayInv

LEMMA PayStep == PayInv /\ [Pay!Next]_(Pay!vars) => PayInv'
<1>. SUFFICES ASSUME PayInv, [Pay!Next]_(Pay!vars) PROVE PayInv'
  OBVIOUS
<1>1. CASE UNCHANGED Pay!vars
  <2>1. UNCHANGED <<address, amount, focus, sendingValue, available, asking, estimates, mixed,
                    limits, enabled, covered, send, taps, edits>>
    BY <1>1 DEF Pay!vars, Pay!form, Pay!asked
  <2>2. Pay!TypeOK'
    BY <2>1 DEF PayInv, Pay!TypeOK
  <2>3. AmountInv' /\ SendInv' /\ PairInv' /\ AskInv' /\ FitInv'
    BY <2>1 DEF PayInv, AmountInv, SendInv, TapFits, SendFits, CoverFits, SeenFits, PaidFits, LessFits, LimitFits,
                PairInv, PairFits, Known, Going, Pay!Spared, Pay!At, Pay!InFlight, AskInv, FitInv, Ready, Fits
  <2>. QED
    BY <2>2, <2>3 DEF PayInv
<1>2. CASE \E s \in Pay!Sends : Pay!Answer(s)
  BY <1>2, AnswerKeeps
<1>. QED
  BY <1>1, <1>2, AddressTyped, ValueIsTyped, Focused, Left, MaxTaken, GasAdjusted, Scanned,
     BalanceKnown, EstimateKnown, Tapped DEF Pay!Next

(* What the page is promised                                               *)
LEMMA PayKeeps == PayInv => Pay!TypeOK /\ Pay!SentAsShown /\ Pay!LimitsFit /\ Pay!OneAtATime
<1>. SUFFICES ASSUME PayInv PROVE Pay!TypeOK /\ Pay!SentAsShown /\ Pay!LimitsFit /\ Pay!OneAtATime
  OBVIOUS
<1>1. \A s \in Pay!Sends : SendFits(s)
  BY DEF PayInv, SendInv
<1>2. ASSUME NEW s \in Pay!Sends, Pay!Made(s), Pay!Spared(s, {"uncovered"})
      PROVE  send[s].to = send[s].seen[1] /\ send[s].to \in Payees /\ s \in Pay!InFlight
  BY <1>1, <1>2 DEF SendFits, SeenFits, LimitFits, Pay!Made, Pay!At, Pay!InFlight
<1>3. \A s \in Pay!Sends : \A S, T : S \subseteq T /\ Pay!Spared(s, T) => Pay!Spared(s, S)
  BY DEF Pay!Spared
<1>4. Pay!SentAsShown
  <2>1. SUFFICES ASSUME NEW s \in Pay!Sends, Pay!Made(s), Pay!Spared(s, {"uncovered", "blank", "poor"})
                 PROVE  send[s].to = send[s].seen[1] /\ LessFits(s)
    BY DEF Pay!SentAsShown, LessFits
  <2>2. Pay!Spared(s, {"uncovered"})
    BY <2>1, <1>3
  <2>. QED
    BY <1>1, <1>2, <2>1, <2>2 DEF SendFits, PaidFits, Pay!Made
<1>5. Pay!LimitsFit
  <2>1. SUFFICES ASSUME NEW s \in Pay!Sends, Pay!Made(s), Pay!Spared(s, {"uncovered", "blank", "hurried", "mixed"})
                 PROVE  send[s].limits = send[s].seen
    BY DEF Pay!LimitsFit
  <2>2. Pay!Spared(s, {"uncovered"})
    BY <2>1, <1>3
  <2>. QED
    BY <1>1, <1>2, <2>1, <2>2 DEF SendFits, LimitFits, Pay!Made
<1>6. Pay!OneAtATime
  <2>1. SUFFICES ASSUME NEW s \in Pay!InFlight, NEW t \in Pay!InFlight, s # t
                 PROVE  Known(s) \/ Known(t)
    BY DEF Pay!OneAtATime, Known
  <2>2. s \in Pay!Sends /\ t \in Pay!Sends /\ Going(s) /\ Going(t)
    BY <2>1 DEF Pay!InFlight, Going, Underway
  <2>. QED
    BY <2>1, <2>2 DEF PayInv, PairInv, PairFits
<1>. QED
  BY <1>4, <1>5, <1>6 DEF PayInv

(* With any number of payments, edits and estimates: what is sent is what  *)
(* the page showed, with limits for it, one at a time, each but for the    *)
(* causes named.                                                           *)
THEOREM PaymentsFit ==
    Pay!Spec => [](Pay!TypeOK /\ Pay!SentAsShown /\ Pay!LimitsFit /\ Pay!OneAtATime)
BY PayInit, PayStep, PayKeeps, PTL DEF Pay!Spec

(* The same of the payments that MCWallet runs, whichever part moves.      *)
THEOREM PaymentsStayRight == Parts => []PaymentsRight
<1>1. PartsInit => PayInv
  BY PayInit DEF PartsInit
<1>2. [PartsNext]_<<part, vars, stores, form>> => [Pay!Next]_(Pay!vars)
  BY DEF PartsNext, form, Pay!vars, Pay!form, Pay!asked
<1>3. PayInv => PaymentsRight
  BY PayKeeps DEF PaymentsRight
<1>. QED
  BY <1>1, <1>2, <1>3, PayStep, PTL DEF Parts

=============================================================================
