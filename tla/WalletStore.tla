---------------------------- MODULE WalletStore ----------------------------
(***************************************************************************)
(* The wallets of the device (WalletUtil.swift) under the pages of the app *)
(* that change them.  The wallet in use is one record in the group's       *)
(* UserDefaults; all wallets are a list in the app's MMKV store; the       *)
(* password that a fingerprint or face releases is an item of the keychain *)
(* named by the wallet's id.                                               *)
(*                                                                         *)
(* Pages run on the main queue, so an operation is not interrupted by      *)
(* another page; but each write is a step of its own (job), because the    *)
(* app may be killed after any of them.  The keychain is written on a      *)
(* global queue, which looks the id up when it runs.                       *)
(*                                                                         *)
(* Ids, keys and passwords are numbers: wallet n is the nth made, 0 is the *)
(* wallet of an app older than the list.  The tokens the user enabled and  *)
(* the name are the number of the edit they stem from.  Left out: the test *)
(* net, which no wallet is ever on (the setter of isTestNet changes a copy *)
(* and drops it); the server's consent to the first wallet, which only     *)
(* delays it; removeWallet and removeAll, which nothing calls.             *)
(***************************************************************************)
EXTENDS Integers, Sequences, FiniteSets, SequencesExt

CONSTANTS
    MaxMake,  \* bound: wallets made and passwords reset
    MaxEdit,  \* bound: changes of tokens or names
    MaxStart  \* bound: starts of the app

BoundAssumption == MaxMake \in Nat /\ MaxEdit \in Nat /\ MaxStart \in Nat

VARIABLES
    old,      \* what is left of the keys of the earlier app
    current,  \* kCurrentWallet, a sequence of at most one wallet
    list,     \* kWalletList
    keychain, \* the password kept for each id, 0 without one
    setting,  \* keychain blocks on the global queue: the passwords they keep
    job,      \* the rest of the operation the main queue is in
    page,     \* the open WalletSwitcherController
    running,  \* whether the app runs
    made, edits, starts, \* counters behind the bounds
    last,     \* history: each wallet as its user last saw it saved
    blame     \* history: what may have cost a wallet something

stores == <<current, list, keychain>>
bounds == <<made, edits, starts>>
vars   == <<old, stores, setting, job, page, running, bounds, last, blame>>

Id         == 0..MaxMake
UserWallet == [id : Id, key : Id, pwd : 1..MaxMake + 1, tokens : 0..MaxEdit, name : 0..MaxEdit]
OldKeys    == <<"WalletPrivateKey", "WalletWords", "WalletPublicKey">>
OldPwd     == MaxMake + 1
Idle       == [kind |-> "none", wallet |-> <<>>]
Closed     == [wallets |-> <<>>, currentUW |-> <<>>]
Causes     == {"killed",   \* the app was killed between two writes
               "snapshot", \* a page wrote back a wallet as it was when the page opened
               "emptied",  \* a reset of the password left the enabled tokens out
               "replaced", \* a reset of the password brought another key
               "renewed",  \* a reset of the password left the keychain alone
               "switched"} \* the current wallet changed before the keychain was written

TypeOK ==
    /\ old \in 0..Len(OldKeys)
    /\ current \in BoundedSeq(UserWallet, 1) /\ list \in Seq(UserWallet)
    /\ keychain \in [Id -> 0..OldPwd] /\ setting \subseteq 1..MaxMake
    /\ job.kind \in {"none", "migrate", "listed", "cleared", "save", "append",
                     "recover", "rename", "select"}
    /\ job.wallet \in BoundedSeq(UserWallet, 1)
    /\ page.wallets \in Seq(UserWallet) /\ page.currentUW \in BoundedSeq(UserWallet, 1)
    /\ running \in BOOLEAN
    /\ made \in 0..MaxMake /\ edits \in 0..MaxEdit /\ starts \in 0..MaxStart
    /\ last \in [Id -> BoundedSeq(UserWallet, 1)] /\ blame \in [Id -> SUBSET Causes]

OldWallet == [id |-> 0, key |-> 0, pwd |-> OldPwd, tokens |-> 0, name |-> 0]

(* Installed anew, or over an app that kept a single wallet and perhaps    *)
(* its password in the keychain                                            *)
Init ==
    /\ old \in {0, Len(OldKeys)}
    /\ current = <<>> /\ list = <<>>
    /\ keychain \in [Id -> {0, OldPwd}]
    /\ \A w \in Id : w # 0 \/ old = 0 => keychain[w] = 0
    /\ setting = {} /\ job = Idle /\ page = Closed /\ running = FALSE
    /\ made = 0 /\ edits = 0 /\ starts = 0
    /\ last = [w \in Id |-> IF w = 0 /\ old > 0 THEN <<OldWallet>> ELSE <<>>]
    /\ blame = [w \in Id |-> {}]

-----------------------------------------------------------------------------
(* Helpers                                                                 *)

HasCurrent == current # <<>>
Current    == current[1]
Opened     == page # Closed
Free       == running /\ job = Idle

(* UserWallet.==, under which firstIndex(of:) finds a wallet               *)
Same(u, v) == u.id = v.id
Listed(u)  == \E i \in 1..Len(list) : Same(list[i], u)
FirstIndex(u) ==
    CHOOSE i \in 1..Len(list) : Same(list[i], u) /\ \A j \in 1..i - 1 : ~Same(list[j], u)

SetCurrentWallet(u) == current' = <<u>>

(* Mutant: the position of the wallet is taken for granted.                *)
UpdateFirst(u) ==
    list' = IF list # <<>> THEN [list EXCEPT ![1] = u] ELSE list

UpdateWalletInList(u) ==
    list' = IF Listed(u) THEN [list EXCEPT ![FirstIndex(u)] = u] ELSE list

AddNewWallet(u) == list' = Append(list, u)

Then(kind, u) == job' = [kind |-> kind, wallet |-> <<u>>]

(* The wallet of this id as the device would use it, a sequence like last  *)
Stored(w) ==
    IF HasCurrent /\ Current.id = w THEN current
    ELSE IF \E i \in 1..Len(list) : list[i].id = w
         THEN <<list[CHOOSE i \in 1..Len(list) :
                     list[i].id = w /\ \A j \in 1..i - 1 : list[j].id # w]>>
         ELSE <<>>

Blame(w, causes) == blame' = [blame EXCEPT ![w] = @ \cup causes]
If(cause, condition) == {c \in {cause} : condition}

-----------------------------------------------------------------------------
(* The app starts: migrateIfNeeded                                         *)

Launch ==
    /\ ~running /\ starts < MaxStart
    /\ running' = TRUE /\ starts' = starts + 1
    /\ job' = IF old = Len(OldKeys) THEN [kind |-> "migrate", wallet |-> <<OldWallet>>] ELSE Idle
    /\ UNCHANGED <<old, stores, setting, page, made, edits, last, blame>>

MigrateCurrent ==
    /\ job.kind = "migrate"
    /\ SetCurrentWallet(job.wallet[1])
    /\ Then("listed", job.wallet[1])
    /\ UNCHANGED <<old, list, keychain, setting, page, running, bounds, last, blame>>

MigrateList ==
    /\ job.kind = "listed"
    /\ AddNewWallet(job.wallet[1])
    /\ Then("cleared", job.wallet[1])
    /\ UNCHANGED <<old, current, keychain, setting, page, running, bounds, last, blame>>

(* Mutant: one key more is removed than there are.                         *)
ClearOneMore ==
    /\ job.kind = "cleared"
    /\ old' = old - 1
    /\ job' = IF old = 0 THEN Idle ELSE job
    /\ UNCHANGED <<stores, setting, page, running, bounds, last, blame>>

(* removeObject for one key after the other, the private key first         *)
ClearOldKey ==
    /\ job.kind = "cleared"
    /\ old' = old - 1
    /\ job' = IF old = 1 THEN Idle ELSE job
    /\ UNCHANGED <<stores, setting, page, running, bounds, last, blame>>

-----------------------------------------------------------------------------
(* Pages that create, import, recover and edit a wallet                    *)

NewWallet(id, key, name) ==
    [id |-> id, key |-> key, pwd |-> made + 1, tokens |-> 0, name |-> name]

(* nextStep of CreateWalletPage3 and next of ImportPage2: saveWalletInfo,  *)
(* which first brings the list up to date.  That an imported key may be    *)
(* there already makes no difference: wallets are told apart by id.        *)
SaveWalletInfo ==
    /\ Free /\ made < MaxMake
    /\ Then("save", NewWallet(made + 1, made + 1, 0))
    /\ made' = made + 1
    /\ IF HasCurrent THEN UpdateWalletInList(Current) ELSE UNCHANGED list
    /\ UNCHANGED <<old, current, keychain, setting, page, running, edits, starts, last, blame>>

SaveCurrent ==
    LET u == job.wallet[1] IN
    /\ job.kind = "save"
    /\ SetCurrentWallet(u)
    /\ Then("append", u)
    /\ last' = [last EXCEPT ![u.id] = <<u>>]
    /\ UNCHANGED <<old, list, keychain, setting, page, running, bounds, blame>>

(* Mutant: the list is left to the next switch, which updates it.          *)
SaveNowhere ==
    /\ job.kind = "append"
    /\ setting' = setting \cup {job.wallet[1].pwd}
    /\ job' = Idle
    /\ page' \in {page, Closed}
    /\ UNCHANGED <<old, stores, running, bounds, last, blame>>

(* and the block for the keychain.  The page then leads to the root, or,   *)
(* after a creation, back.                                                 *)
SaveAppend ==
    LET u == job.wallet[1] IN
    /\ job.kind = "append"
    /\ AddNewWallet(u)
    /\ setting' = setting \cup {u.pwd}
    /\ job' = Idle
    /\ page' \in {page, Closed}
    /\ UNCHANGED <<old, current, keychain, running, bounds, last, blame>>

(* Mutant: the password is kept under the one id the earlier app used.     *)
KeepForApp ==
    \E pwd \in setting :
        /\ setting' = setting \ {pwd}
        /\ keychain' = [keychain EXCEPT ![0] = pwd]
        /\ UNCHANGED <<old, current, list, job, page, running, bounds, last, blame>>

(* The block on the global queue; set fails without a passcode.            *)
KeepPassword ==
    \E pwd \in setting :
        /\ setting' = setting \ {pwd}
        /\ \/ /\ keychain' = [keychain EXCEPT ![Current.id] = pwd]
              /\ Blame(Current.id, If("switched", Current.pwd # pwd))
           \/ UNCHANGED <<keychain, blame>>
        /\ UNCHANGED <<old, current, list, job, page, running, bounds, last>>

(* next of ImportPage2 when isRecover is set ("forgot password"): the key  *)
(* imported, also another one, takes the place of the current wallet's.    *)
Recover ==
    /\ Free /\ HasCurrent /\ made < MaxMake
    /\ made' = made + 1
    /\ \E key \in {Current.key, made + 1} :
        LET u == NewWallet(Current.id, key, Current.name) IN
        /\ UpdateWalletInList(u)
        /\ Then("recover", u)
        /\ Blame(u.id, If("emptied", Current.tokens # 0) \cup If("replaced", Current.key # key)
                       \cup If("renewed", keychain[u.id] # 0 \/ setting # {}))
    /\ UNCHANGED <<old, current, keychain, setting, page, running, edits, starts, last>>

(* The recovery began on the wallet's pages, whose stack it leaves, or in  *)
(* the tab of the web views.                                               *)
RecoverCurrent ==
    LET u == job.wallet[1] IN
    /\ job.kind = "recover"
    /\ SetCurrentWallet(u)
    /\ last' = [last EXCEPT ![u.id] = <<[u EXCEPT !.tokens = Current.tokens]>>]
    /\ job' = Idle
    /\ page' \in {page, Closed}
    /\ UNCHANGED <<old, list, keychain, setting, running, bounds, blame>>

(* saveEnabledContract, of addDidTap in AddAssetController and of "hide"   *)
(* in WalletMainController                                                 *)
SaveEnabledContract ==
    LET u == [Current EXCEPT !.tokens = edits + 1] IN
    /\ Free /\ ~Opened /\ HasCurrent /\ edits < MaxEdit
    /\ edits' = edits + 1
    /\ SetCurrentWallet(u)
    /\ last' = [last EXCEPT ![u.id] = <<u>>]
    /\ UNCHANGED <<old, list, keychain, setting, job, page, running, made, starts, blame>>

(* confirmDidTap of WalletRenameView                                       *)
Rename ==
    LET u == [Current EXCEPT !.name = edits + 1] IN
    /\ Free /\ ~Opened /\ HasCurrent /\ edits < MaxEdit
    /\ edits' = edits + 1
    /\ SetCurrentWallet(u)
    /\ Then("rename", u)
    /\ last' = [last EXCEPT ![u.id] = <<u>>]
    /\ UNCHANGED <<old, list, keychain, setting, page, running, made, starts, blame>>

RenameList ==
    /\ job.kind = "rename"
    /\ UpdateWalletInList(job.wallet[1])
    /\ job' = Idle
    /\ UNCHANGED <<old, current, keychain, setting, page, running, bounds, last, blame>>

-----------------------------------------------------------------------------
(* WalletSwitcherController: wallets and currentUW are read when it opens. *)

OpenSwitcher ==
    /\ Free /\ ~Opened /\ HasCurrent
    /\ page' = [wallets |-> list, currentUW |-> current]
    /\ UNCHANGED <<old, stores, setting, job, running, bounds, last, blame>>

LeaveSwitcher ==
    /\ Free /\ Opened
    /\ page' = Closed
    /\ UNCHANGED <<old, stores, setting, job, running, bounds, last, blame>>

(* Mutant: the wallet that is left is not brought up to date in the list.  *)
SelectOnly ==
    /\ Free /\ Opened
    /\ \E i \in 1..Len(page.wallets) :
        LET u == page.currentUW[1] IN
        /\ IF Same(page.wallets[i], u) THEN UNCHANGED job ELSE Then("select", page.wallets[i])
    /\ UNCHANGED <<old, stores, setting, page, running, bounds, last, blame>>

(* didSelectRowAt                                                          *)
SelectWallet ==
    /\ Free /\ Opened
    /\ \E i \in 1..Len(page.wallets) :
        LET u == page.currentUW[1] IN
        /\ UpdateWalletInList(u)
        /\ Blame(u.id, If("snapshot", Stored(u.id) # <<u>>))
        /\ IF Same(page.wallets[i], u) THEN UNCHANGED job ELSE Then("select", page.wallets[i])
    /\ UNCHANGED <<old, current, keychain, setting, page, running, bounds, last>>

SelectCurrent ==
    LET u == job.wallet[1] IN
    /\ job.kind = "select"
    /\ SetCurrentWallet(u)
    /\ Blame(u.id, If("snapshot", Stored(u.id) # <<u>>))
    /\ page' = [page EXCEPT !.currentUW = <<u>>]
    /\ job' = Idle
    /\ UNCHANGED <<old, list, keychain, setting, running, bounds, last>>

-----------------------------------------------------------------------------
(* The app ends                                                            *)

Kill ==
    /\ running
    /\ running' = FALSE /\ job' = Idle /\ page' = Closed /\ setting' = {}
    /\ IF job.kind \in {"append", "cleared"}
       THEN Blame(job.wallet[1].id, {"killed"})
       ELSE UNCHANGED blame
    /\ UNCHANGED <<old, stores, bounds, last>>

Next ==
    \/ Launch \/ MigrateCurrent \/ MigrateList \/ ClearOldKey
    \/ SaveWalletInfo \/ SaveCurrent \/ SaveAppend \/ KeepPassword
    \/ Recover \/ RecoverCurrent \/ SaveEnabledContract \/ Rename \/ RenameList
    \/ OpenSwitcher \/ LeaveSwitcher \/ SelectWallet \/ SelectCurrent
    \/ Kill

Spec == Init /\ [][Next]_vars

-----------------------------------------------------------------------------
(* Properties                                                              *)

Times(w)     == Cardinality({i \in 1..Len(list) : list[i].id = w})
Spared(w, causes) == blame[w] \cap causes = {}
Unmigrated(w)     == w = 0 /\ old = Len(OldKeys)

(* The two stores agree on which wallets there are: none is in the list    *)
(* twice, and the one in use, which a switch would otherwise drop, is in   *)
(* it as soon as the operation that brought it is over.  Only an app       *)
(* killed between setCurrentWallet and addNewWallet, or during a           *)
(* migration, leaves them apart.                                           *)
ListedOnce ==
    /\ \A w \in Id : Spared(w, {"killed"}) => Times(w) <= 1
    /\ HasCurrent /\ job.kind # "append" /\ ~Unmigrated(Current.id)
          /\ Spared(Current.id, {"killed"})
       => Times(Current.id) = 1

(* Tokens, name, key and password of every wallet stay as its user last    *)
(* saved them, through any number of switches, creations and recoveries    *)
(* of other wallets, although saveEnabledContract changes only the current *)
(* wallet and the list follows later.  What breaks it: a switch back on    *)
(* the page that holds the earlier copies, a recovery, which starts with   *)
(* no tokens, or a kill between the two stores.                            *)
EditsKept ==
    \A w \in Id : last[w] # <<>> /\ Spared(w, {"killed", "snapshot", "emptied"})
        => Stored(w) = last[w] \/ Unmigrated(w)

(* The private key of a wallet is never lost, whatever copies the pages    *)
(* write back: only a recovery with the words of another wallet replaces   *)
(* it, and only a kill within a creation leaves it to the next switch.     *)
KeysKept ==
    \A w \in Id : last[w] # <<>> /\ Spared(w, {"killed", "replaced"})
        => \/ Stored(w) # <<>> /\ Stored(w)[1].key = last[w][1].key
           \/ Unmigrated(w)

Opens(w) == keychain[w] # 0 /\ Stored(w) # <<>> => keychain[w] = Stored(w)[1].pwd

(* The password that a face or a fingerprint releases opens the wallet it  *)
(* is kept for, after a migration too ("life.whoops.app" stays the id),    *)
(* unless the password was reset, or another wallet became current before  *)
(* the global queue looked the id up.                                      *)
KeychainOpens == \A w \in Id : Spared(w, {"renewed", "switched"}) => Opens(w)

=============================================================================
