---------------------------- MODULE DAppRequests ----------------------------
(***************************************************************************)
(* What a web page may ask of the wallet, and what it is told              *)
(* (WebViewController.swift, DAppAPI.swift, ConfluxAPI.swift).  The script *)
(* that is put into every page numbers its requests and keeps a callback   *)
(* for each; the app answers by evaluating a call of that callback.  In    *)
(* between come dialogs, stacked over one another and over the page, the   *)
(* keychain on a global queue, and for a transaction four answers of the   *)
(* node.  Several requests are under way at once.                          *)
(*                                                                         *)
(* The page lies in a tab.  A link of the keyboard leads to another tab,   *)
(* where the wallet can be changed, and back.  Requests are numbered in    *)
(* the order of arrival; pages by the number of loads before.  Left out: a *)
(* device without a wallet, which is asked to create one when the page     *)
(* asks for accounts, and where signing ends the program (DAppAPI.swift,   *)
(* line 62); "on", which keeps a text that nothing reads; batches, which   *)
(* go the way of a call; what is asked for, beyond the address a           *)
(* transaction is said to be from.                                         *)
(***************************************************************************)
EXTENDS Integers, Sequences, FiniteSets, SequencesExt

CONSTANTS
    Wallet,     \* the wallets of the device, each with one address
    None,       \* no wallet
    MaxRequest, \* bound: requests
    MaxChange   \* bound: further pages loaded and changes of the wallet, together

ASSUME NoneAssumption == None \notin Wallet
ASSUME BoundAssumption == MaxRequest \in Nat /\ MaxChange \in Nat

VARIABLES
    current,  \* WalletUtil.getCurrentWallet()
    stale,    \* the wallets whose password in the keychain is an old one
    view,     \* where the page is
    page,     \* the page loaded
    known,    \* the address the page was last told
    requests, \* the requests that arrived
    main,     \* blocks on the main queue
    dialogs,  \* the dialogs over the page, the uppermost last
    approved, \* ConfluxAPI.approved
    trapped,  \* a closed page was unwrapped
    pool,     \* the requests whose transaction the node has taken
    executed, \* the number of transactions of each wallet it has executed
    switches  \* counter behind the bound

node   == <<pool, executed>>
around == <<stale, switches>>
vars   == <<current, around, view, page, known, requests, main, dialogs, approved, trapped, node>>

Kinds  == {"accounts", "transaction", "typed", "call"}
Pcs    == {"main", "dialog", "keychain", "begin", "epoch", "nonce", "estimate", "submit",
           "call", "forgotten", "done"}
Told   == {"nothing", "result", "error"}
Blocks == {"allow", "sign", "password", "result", "error"}
Causes == {"again",    \* the keychain held an old password, and the user was asked for it
           "lost",     \* the node has the transaction, but its answer was lost
           "abreast",  \* another transaction was being signed or not executed
           "stacked",  \* the dialog for the address was up when another was answered
           "switched", \* the wallet changed after the request
           "behind",   \* it had changed before, and the page did not know
           "cut"}      \* the node was not reached

TypeOK ==
    /\ current \in Wallet /\ stale \subseteq Wallet
    /\ view \in {"shown", "away", "import", "gone"} /\ page \in 0..MaxChange
    /\ known \in Wallet \cup {None}
    /\ Len(requests) <= MaxRequest
    /\ \A i \in DOMAIN requests :
        /\ requests[i].kind \in Kinds /\ requests[i].page \in 0..page
        /\ requests[i].pc \in Pcs /\ requests[i].told \in Told
        /\ {requests[i].from, requests[i].signer} \subseteq Wallet \cup {None}
        /\ requests[i].nonce \in 0..MaxRequest /\ requests[i].causes \subseteq Causes
    /\ \A b \in Range(main) \cup Range(dialogs) :
        /\ b.kind \in Blocks /\ b.id \in DOMAIN requests /\ b.address \in Wallet \cup {None}
    /\ {approved, trapped} \subseteq BOOLEAN
    /\ pool \subseteq DOMAIN requests /\ executed \in [Wallet -> 0..MaxRequest]
    /\ switches \in 0..MaxChange

Init ==
    /\ current \in Wallet /\ stale \in SUBSET Wallet
    /\ view = "shown" /\ page = 0 /\ known = None
    /\ requests = <<>> /\ main = <<>> /\ dialogs = <<>>
    /\ approved = FALSE /\ trapped = FALSE
    /\ pool = {} /\ executed = [w \in Wallet |-> 0]
    /\ switches = 0

-----------------------------------------------------------------------------
(* Helpers                                                                 *)

Ids     == DOMAIN requests
At(pc)  == {i \in Ids : requests[i].pc = pc}
Running == ~trapped

Block(kind, i)        == [kind |-> kind, id |-> i, address |-> None]
Post(b)               == main' = Append(main, b)
Goto(i, pc)           == requests' = [requests EXCEPT ![i].pc = pc]

(* Mutant: the answer bears the number that the next request will have.    *)
SendResultAhead(i, value) == Goto(i, "done") /\ Post(Block(value, Len(requests) + 1))

SendResultBack(i, value)  == Goto(i, "done") /\ Post(Block(value, i))

WithCause(R, S, c) ==
    [i \in DOMAIN R |-> IF i \in S THEN [R[i] EXCEPT !.causes = @ \cup {c}] ELSE R[i]]

(* The transactions being signed or sent, and those the node has taken and *)
(* not executed                                                            *)
Signing ==
    {i \in Ids : /\ requests[i].kind = "transaction"
                 /\ \/ requests[i].pc \in {"begin", "epoch", "nonce", "estimate", "submit"}
                    \/ i \in pool /\ requests[i].nonce >= executed[requests[i].signer]}

-----------------------------------------------------------------------------
(* The page                                                                *)

(* A request comes in on the main queue.  A transaction says which address *)
(* it is from, if the page knows one, or leaves that to the app.           *)
Request(kind, from) ==
    [kind |-> kind, from |-> from, page |-> page, signer |-> None, nonce |-> 0,
     pc |-> IF kind = "call" THEN "call" ELSE "main", told |-> "nothing",
     causes |-> IF from \in Wallet \ {current} THEN {"behind"} ELSE {}]

Ask(kind, from) ==
    /\ view = "shown" /\ Len(requests) < MaxRequest
    /\ requests' = Append(requests, Request(kind, from))

(* The address goes into the dialog now and to the page when it is allowed *)
ApproveAddressAccess ==
    /\ Ask("accounts", None)
    /\ Post([kind |-> "allow", id |-> Len(requests) + 1, address |-> current])

GetPasswordToSign(kind, from) == Ask(kind, from) /\ Post(Block("sign", Len(requests) + 1))

RpcPassingThrough == Ask("call", None) /\ UNCHANGED main

ProcessRequest ==
    /\ Running
    /\ \/ ApproveAddressAccess
       \/ \E from \in {known, None} : GetPasswordToSign("transaction", from)
       \/ GetPasswordToSign("typed", None)
       \/ RpcPassingThrough
    /\ UNCHANGED <<current, around, view, page, known, dialogs, approved, trapped, node>>

(* Another page is loaded, with no callbacks and without an address; the   *)
(* dialogs of the old one stay.                                            *)
Load ==
    /\ Running /\ view # "gone" /\ page + switches < MaxChange
    /\ page' = page + 1 /\ known' = None
    /\ UNCHANGED <<current, around, view, requests, main, dialogs, approved, trapped, node>>

-----------------------------------------------------------------------------
(* The main queue                                                          *)

(* The callback of a request is called once, and only by its own page      *)
Hears(i) == view # "gone" /\ requests[i].page = page /\ requests[i].told = "nothing"

Evaluate(b) ==
    /\ requests' = IF Hears(b.id) THEN [requests EXCEPT ![b.id].told = b.kind] ELSE requests
    /\ known' = IF Hears(b.id) /\ b.address # None THEN b.address ELSE known
    /\ main' = Tail(main)
    /\ UNCHANGED <<dialogs, trapped>>

(* A dialog is laid over the page, which must be there.                    *)
Overlay(b) ==
    /\ main' = Tail(main) /\ UNCHANGED known
    /\ IF view = "gone"
       THEN trapped' = TRUE /\ UNCHANGED <<requests, dialogs>>
       ELSE Goto(b.id, "dialog") /\ dialogs' = Append(dialogs, b) /\ UNCHANGED trapped

(* Mutant: the user is asked whatever was allowed before.                  *)
AllowAlways(b) == Overlay(b)

Allow(b) ==
    IF approved
    THEN /\ Goto(b.id, "done")
         /\ main' = Append(Tail(main), [b EXCEPT !.kind = "result"])
         /\ UNCHANGED <<known, dialogs, trapped>>
    ELSE Overlay(b)

RunMain ==
    /\ Running /\ main # <<>>
    /\ LET b == Head(main)
       IN CASE b.kind \in {"result", "error"}  -> Evaluate(b)
            [] b.kind = "allow"                -> Allow(b)
            [] b.kind \in {"sign", "password"} -> Overlay(b)
    /\ UNCHANGED <<current, around, view, page, approved, node>>

-----------------------------------------------------------------------------
(* The user's answers to the uppermost dialog                              *)

Top        == Last(dialogs)
Asked(kind) == Running /\ view = "shown" /\ dialogs # <<>> /\ Top.kind = kind
Dismiss    == dialogs' = Front(dialogs)

AnswerAllow(yes) ==
    /\ Asked("allow") /\ Dismiss
    /\ LET others == {d.id : d \in {e \in Range(Front(dialogs)) : e.kind = "allow"}}
           R      == [requests EXCEPT ![Top.id].pc = "done"]
       IN requests' = IF yes THEN WithCause(R, others, "stacked") ELSE R
    /\ approved' = (approved \/ yes)
    /\ Post([Top EXCEPT !.kind = IF yes THEN "result" ELSE "error",
                        !.address = IF yes THEN @ ELSE None])
    /\ UNCHANGED <<current, around, view, page, known, trapped, node>>

ConfirmSign ==
    /\ Asked("sign") /\ Dismiss /\ Goto(Top.id, "keychain")
    /\ UNCHANGED <<current, around, view, page, known, main, approved, trapped, node>>

RefuseSign ==
    /\ Asked("sign") /\ Dismiss /\ SendResultBack(Top.id, "error")
    /\ UNCHANGED <<current, around, view, page, known, approved, trapped, node>>

(* The wallet that the password opens is the one in use at that time.      *)
Unlocked(i) ==
    LET rivals == Signing \ {i}
        R      == [requests EXCEPT ![i].pc = "begin", ![i].signer = current]
    IN requests' = IF requests[i].kind = "transaction" /\ rivals # {}
                   THEN WithCause(R, rivals \cup {i}, "abreast") ELSE R

EnterPassword ==
    /\ Asked("password") /\ Dismiss /\ Unlocked(Top.id)
    /\ UNCHANGED <<current, around, view, page, known, main, approved, trapped, node>>

(* Mutant: nothing is said of a wrong password.                            *)
SilentPassword ==
    /\ Asked("password") /\ Dismiss /\ Goto(Top.id, "done")
    /\ UNCHANGED <<current, around, view, page, known, main, approved, trapped, node>>

(* Cancelled, or a wrong password                                          *)
WrongPassword ==
    /\ Asked("password") /\ Dismiss /\ SendResultBack(Top.id, "error")
    /\ UNCHANGED <<current, around, view, page, known, approved, trapped, node>>

(* The pages that import a wallet are pushed over this one; the request is *)
(* not answered.                                                           *)
ForgetPassword ==
    /\ Asked("password") /\ Dismiss /\ Goto(Top.id, "forgotten") /\ view' = "import"
    /\ UNCHANGED <<current, around, page, known, main, approved, trapped, node>>

-----------------------------------------------------------------------------
(* The keychain, on a global queue                                         *)

(* Nothing kept, or the owner not recognized: the password is asked for.   *)
(* An old password ends the request for the page and asks for it as well.  *)
Keychain(i) ==
    /\ Running /\ i \in At("keychain")
    /\ \/ Goto(i, "main") /\ Post(Block("password", i))
       \/ current \notin stale /\ Unlocked(i) /\ UNCHANGED main
       \/ /\ current \in stale
          /\ requests' = [requests EXCEPT ![i].pc = "main", ![i].causes = @ \cup {"again"}]
          /\ main' = main \o <<Block("error", i), Block("password", i)>>
    /\ UNCHANGED <<current, around, view, page, known, dialogs, approved, trapped, node>>

-----------------------------------------------------------------------------
(* Signing and sending, each step in the callback of the one before        *)

(* Mutant: the address of the first wallet made is taken.                  *)
FirstAddress == CHOOSE w \in Wallet : TRUE

Address == current

Begin(i) ==
    /\ Running /\ i \in At("begin")
    /\ IF requests[i].kind = "typed"
       THEN \E value \in {"result", "error"} : SendResultBack(i, value)
       ELSE /\ requests' = [requests EXCEPT ![i].pc = "epoch",
                                            ![i].from = IF @ = None THEN Address ELSE @]
            /\ UNCHANGED main
    /\ UNCHANGED <<current, around, view, page, known, dialogs, approved, trapped, node>>

(* A question to the node that was not answered ends the request           *)
Failed(i) == SendResultBack(i, "error")

EpochArrived(i) ==
    /\ Running /\ i \in At("epoch")
    /\ \/ Failed(i)
       \/ Goto(i, "nonce") /\ UNCHANGED main
    /\ UNCHANGED <<current, around, view, page, known, dialogs, approved, trapped, node>>

(* Mutants: the number is taken for 0, or one too high.                    *)
NonceZero(i) ==
    /\ Running /\ i \in At("nonce")
    /\ \/ Failed(i)
       \/ Goto(i, "estimate") /\ UNCHANGED main
    /\ UNCHANGED <<current, around, view, page, known, dialogs, approved, trapped, node>>

NonceAhead(i) ==
    /\ Running /\ i \in At("nonce")
    /\ \/ Failed(i)
       \/ /\ requests' = [requests EXCEPT ![i].pc = "estimate",
                                          ![i].nonce = executed[requests[i].from] + 1]
          /\ UNCHANGED main
    /\ UNCHANGED <<current, around, view, page, known, dialogs, approved, trapped, node>>

(* The node counts the transactions of an address that it has executed.    *)
NonceArrived(i) ==
    /\ Running /\ i \in At("nonce")
    /\ \/ Failed(i)
       \/ /\ requests' = [requests EXCEPT ![i].pc = "estimate",
                                          ![i].nonce = executed[requests[i].from]]
          /\ UNCHANGED main
    /\ UNCHANGED <<current, around, view, page, known, dialogs, approved, trapped, node>>

(* Mutant: a failed estimate is told, and the transaction sent nonetheless *)
EstimateAnyway(i) ==
    /\ Running /\ i \in At("estimate") /\ Goto(i, "submit")
    /\ \/ Post(Block("error", i))
       \/ UNCHANGED main
    /\ UNCHANGED <<current, around, view, page, known, dialogs, approved, trapped, node>>

EstimateArrived(i) ==
    /\ Running /\ i \in At("estimate")
    /\ \/ Failed(i)
       \/ Goto(i, "submit") /\ UNCHANGED main
    /\ UNCHANGED <<current, around, view, page, known, dialogs, approved, trapped, node>>

(* The node refuses a number it has executed, and a second transaction of  *)
(* the same number: the price is the same for all.                         *)
Taken(i) ==
    LET r == requests[i]
    IN /\ r.nonce >= executed[r.signer]
       /\ \A j \in pool : requests[j].signer # r.signer \/ requests[j].nonce # r.nonce

Submitted(i) ==
    /\ Running /\ i \in At("submit")
    /\ \/ Taken(i) /\ SendResultBack(i, "result") /\ pool' = pool \cup {i}
       \/ /\ Taken(i) /\ pool' = pool \cup {i}
          /\ requests' = [requests EXCEPT ![i].pc = "done", ![i].causes = @ \cup {"lost"}]
          /\ Post(Block("error", i))
       \/ /\ requests' = [requests EXCEPT ![i].pc = "done", ![i].causes = @ \cup {"cut"}]
          /\ Post(Block("error", i)) /\ UNCHANGED pool
       \/ ~Taken(i) /\ SendResultBack(i, "error") /\ UNCHANGED pool
    /\ UNCHANGED <<current, around, view, page, known, dialogs, approved, trapped, executed>>

(* A call is answered with what came back; nothing is a result too.        *)
CallArrived(i) ==
    /\ Running /\ i \in At("call")
    /\ \E value \in {"result", "error"} : SendResultBack(i, value)
    /\ UNCHANGED <<current, around, view, page, known, dialogs, approved, trapped, node>>

(* The node executes the transactions of a wallet in the order of numbers  *)
Execute(w) ==
    /\ \E i \in pool : requests[i].signer = w /\ requests[i].nonce = executed[w]
    /\ executed' = [executed EXCEPT ![w] = @ + 1]
    /\ UNCHANGED <<current, around, view, page, known, requests, main, dialogs, approved, trapped, pool>>

-----------------------------------------------------------------------------
(* Where the page is                                                       *)

(* A link opens another tab; the page hears nothing more until it is shown *)
(* again.                                                                  *)
OpenLink ==
    /\ Running /\ view = "shown" /\ view' = "away"
    /\ UNCHANGED <<current, around, page, known, requests, main, dialogs, approved, trapped, node>>

ViewWillAppear ==
    /\ Running /\ view \in {"away", "import"} /\ view' = "shown"
    /\ UNCHANGED <<current, around, page, known, requests, main, dialogs, approved, trapped, node>>

Change(w) ==
    /\ w # current /\ page + switches < MaxChange
    /\ current' = w /\ switches' = switches + 1
    /\ requests' = WithCause(requests, Ids, "switched")

SwitchWallet ==
    /\ Running /\ view = "away" /\ \E w \in Wallet : Change(w)
    /\ UNCHANGED <<stale, view, page, known, main, dialogs, approved, trapped, node>>

Close == view' = "gone" /\ dialogs' = <<>>

(* The page leaves the screen for some tenths of a second, in which the    *)
(* main queue runs what it holds.                                          *)
PopViewController ==
    /\ Running /\ view = "shown" /\ main = <<>> /\ Close
    /\ UNCHANGED <<current, around, page, known, requests, main, approved, trapped, node>>

(* A wallet recovered in the pages over this one takes the place of the    *)
(* current one, and all of these pages are closed.                         *)
Recover ==
    /\ Running /\ view = "import" /\ main = <<>> /\ Close
    /\ \E w \in Wallet : Change(w)
    /\ UNCHANGED <<stale, page, known, main, approved, trapped, node>>

Dialog ==
    \/ \E yes \in BOOLEAN : AnswerAllow(yes)
    \/ ConfirmSign \/ RefuseSign \/ EnterPassword \/ WrongPassword \/ ForgetPassword
Sign(i) ==
    \/ Keychain(i) \/ Begin(i) \/ EpochArrived(i) \/ NonceArrived(i) \/ EstimateArrived(i)
    \/ Submitted(i) \/ CallArrived(i)
Move == OpenLink \/ ViewWillAppear \/ SwitchWallet \/ PopViewController \/ Recover

Next ==
    \/ ProcessRequest \/ Load \/ RunMain \/ Dialog
    \/ \E i \in Ids : Sign(i)
    \/ \E w \in Wallet : Execute(w)
    \/ Move

Spec == Init /\ [][Next]_vars

(* The queues run what they hold, the node answers or the request for it   *)
(* times out, and the node executes what it can.  Nothing is asked of the  *)
(* user or of the page.                                                    *)
Fairness ==
    /\ WF_vars(RunMain)
    /\ \A i \in 1..MaxRequest : WF_vars(i \in Ids /\ Sign(i))
    /\ \A w \in Wallet : WF_vars(Execute(w))

LiveSpec == Spec /\ Fairness

-----------------------------------------------------------------------------
(* Properties                                                              *)

(* A page that was told its transaction was refused does not have it sent  *)
(* all the same: except when an old password in the keychain ended the     *)
(* request and the user then typed the right one, or the node's answer was *)
(* lost.                                                                   *)
RefusedIsNotSent ==
    \A i \in Ids : requests[i].told = "error" /\ i \in pool
                   => requests[i].causes \cap {"again", "lost"} # {}

(* A transaction is signed by the wallet whose address it is from, whose   *)
(* number it carries: except when the wallet was changed in another tab    *)
(* after the request, or before it without the page knowing.               *)
SignedByItsSender ==
    \A i \in At("epoch") \cup At("nonce") \cup At("estimate") \cup At("submit") \cup pool :
        requests[i].signer = requests[i].from \/ requests[i].causes \cap {"switched", "behind"} # {}

(* A transaction the user signed is sent once its gas is known, unless the *)
(* node could not be reached, or another transaction had been signed       *)
(* before it was executed and took its number, or the wallet was changed.  *)
SignedIsTaken ==
    [][\A i \in Ids : requests[i].pc = "submit" /\ requests'[i].pc = "done"
                      => i \in pool'
                         \/ requests'[i].causes \cap {"cut", "abreast", "switched", "behind"} # {}]_vars

(* Once the address was allowed no dialog asks for it, except one that was *)
(* up already under the dialog that was answered.                          *)
AskedOnce ==
    \A d \in Range(dialogs) :
        approved /\ d.kind = "allow" => "stacked" \in requests[d.id].causes

(* Every request is answered, unless its page has been replaced or closed  *)
(* or the user said to have forgotten the password, or a dialog for it is  *)
(* up.                                                                     *)
Settled(i) ==
    \/ i \notin Ids \/ trapped \/ view = "gone"
    \/ requests[i].told # "nothing" \/ requests[i].page # page
    \/ requests[i].pc \in {"dialog", "forgotten"}

RequestSettles == \A i \in 1..MaxRequest : []<>Settled(i)

(* A transaction the node has taken is executed, unless it carries the     *)
(* number of another address.                                              *)
Executed(i) ==
    /\ i \in pool
    /\ \/ requests[i].nonce < executed[requests[i].signer]
       \/ requests[i].causes \cap {"switched", "behind"} # {}

SentIsExecuted == \A i \in 1..MaxRequest : i \in pool ~> Executed(i)

=============================================================================
