----------------------------- MODULE SendToken -----------------------------
(***************************************************************************)
(* The page that sends tokens (SendTokenController.swift): a form with an  *)
(* address and an amount, requests to the node answered on another queue,  *)
(* and the overlay (loadingWith, hideLoadingWith) that keeps the user off  *)
(* the form.  There is one overlay for all of them, so that any answer     *)
(* takes it away.                                                          *)
(*                                                                         *)
(* A send asks the keychain for the password, then the node for the nonce  *)
(* and the epoch; only then are amount, address and limits read from the   *)
(* page, on the queue of the answer.                                       *)
(*                                                                         *)
(* Amounts are numbers of the token's unit, the price of gas is 1.  An     *)
(* estimate stands for the two limits it sets; that the user may set one   *)
(* by hand is left out, and so are an amount that is not a number, which   *)
(* an alert puts back to the last one, and pages opened over this one,     *)
(* except the scanner.                                                     *)
(***************************************************************************)
EXTENDS Integers, FiniteSets

CONSTANTS
    Address,  \* addresses that pass verifyAddress
    Invalid,  \* an address that does not
    Token,    \* whether a token is sent, and not CFX
    Balance,  \* bound: what the wallet may hold
    Fee,      \* 21000
    MaxSend,  \* bound: taps on the button
    MaxEdit,  \* bound: changes to the form
    MaxAsk    \* bound: estimates outstanding

VARIABLES
    address, amount, \* what the fields show
    focus,           \* the field being edited
    sendingValue,    \* the amount the page would send
    available,       \* currentAvailableBalance
    asking,          \* requests for the balance outstanding
    estimates,       \* estimates outstanding, each for an address and an amount
    mixed,           \* whether the last one was asked for before the ones before were answered
    limits,          \* the estimate that gasLimit and storageLimit are from
    enabled,         \* sendButton.isEnabled
    covered,         \* loadingView
    send,            \* the sends, in the order of the taps
    taps, edits      \* their number, and that of the changes to the form

form  == <<address, amount, focus, sendingValue>>
asked == <<asking, estimates, mixed>>
vars  == <<form, available, asked, limits, enabled, covered, send, taps, edits>>

Blank   == Balance + 2 \* an empty amount field
Empty   == "empty"     \* an empty address field
NoLimit == <<Empty, 0>>

AmountAssumption  == Fee \in Nat \ {0} /\ Balance \in Nat /\ Fee <= Balance
AddressAssumption == Token \in BOOLEAN /\ Invalid \notin Address /\ Empty \notin Address \cup {Invalid}
BoundAssumption   == MaxSend \in Nat /\ MaxEdit \in Nat /\ MaxAsk \in Nat

Typed   == 0..Balance + 1
Shown   == Address \cup {Invalid, Empty}
Request == (Shown \ {Empty}) \X (1..Balance)
Sends   == 1..MaxSend
Steps   == {"none", "auth", "nonce", "epoch", "address", "sign", "submit",
             "poll", "sent", "failed"}
Causes  == {"uncovered", \* an answer to something else took the overlay away
            "twice",     \* the button was tapped while the keychain was asked
            "blank",     \* the amount shown was not the amount to be sent
            "hurried",   \* an estimate was outstanding, or failed since the tap
            "mixed",     \* the last estimates were outstanding together
            "poor"}      \* the balance read since does not do any more

NoSend == [step |-> "none", seen |-> NoLimit, to |-> Empty, value |-> 0, left |-> 0,
           limits |-> NoLimit, blame |-> {}]

TypeOK ==
    /\ address \in Shown /\ amount \in Typed \cup {Blank}
    /\ focus \in {"none", "address", "value"}
    /\ sendingValue \in 0..Balance /\ available \in 0..Balance
    /\ asking \in 0..1 /\ estimates \subseteq Request /\ mixed \in BOOLEAN
    /\ limits \in Request \cup {NoLimit}
    /\ enabled \in BOOLEAN /\ covered \in BOOLEAN
    /\ send \in [Sends -> [step : Steps, seen : Shown \X (Typed \cup {Blank}), to : Shown,
                           value : -Fee..Balance, left : Int, limits : Request \cup {NoLimit}, blame : SUBSET Causes]]
    /\ taps \in 0..MaxSend /\ edits \in 0..MaxEdit

(* viewDidAppear: getBalance                                               *)
Init ==
    /\ address = Empty /\ amount = Blank /\ focus = "none" /\ sendingValue = 0
    /\ available = 0 /\ asking = 1 /\ estimates = {} /\ mixed = FALSE /\ limits = NoLimit
    /\ enabled = FALSE /\ covered = TRUE
    /\ send = [s \in Sends |-> NoSend] /\ taps = 0 /\ edits = 0

-----------------------------------------------------------------------------
(* Helpers                                                                 *)

Edit == edits < MaxEdit /\ edits' = edits + 1

InFlight == {s \in Sends : send[s].step \in {"nonce", "epoch", "address", "sign", "submit", "poll"}}

(* checkStatusOfTransaction polls on the main queue when a token is sent.  *)
MainFree == Token => \A s \in Sends : send[s].step # "poll"
UserFree == MainFree /\ ~covered

Blamed(sends, cause) ==
    [s \in Sends |-> [send[s] EXCEPT !.blame = @ \cup {c \in {cause} : s \in sends}]]

(* hideLoadingWith, in an answer that is not the end of send s             *)
Hide(others) == covered' = FALSE /\ send' = Blamed(others, "uncovered")

Min2(a, b) == IF a < b THEN a ELSE b

(* The text that editingEnd finds in a field may stop it.                  *)
Stops(field, a, v) ==
    \/ field = "address" /\ a \in {Empty, Invalid}
    \/ field = "value" /\ v = Blank
    \/ field = "none"

(* Mutant: the amount is not held against the balance.                     *)
ValueTyped(field, v) == IF field = "value" /\ v # Blank THEN v ELSE sendingValue

(* sendingValue after the amount field that shows v was left               *)
Value(field, v) == IF field = "value" /\ v # Blank THEN Min2(v, available) ELSE sendingValue

(* updateGasLimit follows, which disables the button and covers the page.  *)
Asks(field, a, v) == ~Stops(field, a, v) /\ a # Empty /\ Value(field, v) > 0

AskEstimate(a, value) ==
    /\ Cardinality(estimates) < MaxAsk
    /\ estimates' = estimates \cup {<<a, value>>}
    /\ mixed' = (estimates # {})

(* Mutant: an estimate leaves the button as it is.                         *)
EditingEndEnabled(field, a, v) ==
    LET value == Value(field, v) IN
    /\ sendingValue' = value
    /\ amount' = IF field = "value" /\ v # Blank THEN IF value = 0 THEN Blank ELSE value ELSE v
    /\ enabled' = enabled
    /\ IF Asks(field, a, v)
       THEN AskEstimate(a, value)
       ELSE UNCHANGED <<estimates, mixed>>

(* editingEnd of a field, with the texts a and v on the page               *)
EditingEnd(field, a, v) ==
    LET value == Value(field, v) IN
    /\ sendingValue' = value
    /\ amount' = IF field = "value" /\ v # Blank THEN IF value = 0 THEN Blank ELSE value ELSE v
    /\ IF Asks(field, a, v)
       THEN AskEstimate(a, value) /\ enabled' = FALSE
       ELSE /\ UNCHANGED <<estimates, mixed>>
            /\ enabled' = (enabled /\ (field = "address" => a # Empty) /\ (field = "value" => v # Blank))

-----------------------------------------------------------------------------
(* The form                                                                *)

(* Keys reach the field being edited even under the overlay.               *)
TypeAddress ==
    /\ MainFree /\ focus = "address" /\ Edit
    /\ address' \in Shown \ {address}
    /\ UNCHANGED <<amount, focus, sendingValue, available, asked, limits, enabled, covered, send, taps>>

TypeValue ==
    /\ MainFree /\ focus = "value" /\ Edit
    /\ amount' \in (Typed \cup {Blank}) \ {amount}
    /\ UNCHANGED <<address, focus, sendingValue, available, asked, limits, enabled, covered, send, taps>>

(* A tap on a field                                                        *)
Focus ==
    /\ UserFree /\ focus = "none"
    /\ focus' \in {"address", "value"}
    /\ UNCHANGED <<address, amount, sendingValue, available, asked, limits, enabled, covered, send, taps, edits>>

(* dismissKeyboard, or a tap on the other field, which begins anew         *)
Leave ==
    /\ UserFree /\ focus # "none"
    /\ EditingEnd(focus, address, amount)
    /\ covered' = Asks(focus, address, amount)
    /\ focus' = "none"
    /\ UNCHANGED <<address, available, asking, limits, send, taps, edits>>

(* maxValueTaped                                                           *)
MaxValueTaped ==
    /\ UserFree /\ Edit
    /\ EditingEnd("value", address, available)
    /\ covered' = Asks("value", address, available)
    /\ UNCHANGED <<address, focus, available, asking, limits, send, taps>>

(* adjustGas, adjustGasMax                                                 *)
AdjustGas ==
    /\ UserFree /\ address # Empty /\ sendingValue > 0 /\ Edit
    /\ AskEstimate(address, sendingValue)
    /\ enabled' = FALSE /\ covered' = TRUE
    /\ UNCHANGED <<form, available, asking, limits, send, taps>>

(* scanFinished; the page then appears again and asks for the balance.     *)
Scan ==
    /\ UserFree /\ focus = "none" /\ asking = 0 /\ Edit
    /\ \E a \in Shown \ {Empty} : address' = a /\ EditingEnd("address", a, amount)
    /\ asking' = 1 /\ covered' = TRUE
    /\ UNCHANGED <<focus, available, limits, send, taps>>

(* Mutant: the answer of getBalance leaves the overlay.                    *)
BalanceCovered ==
    /\ MainFree /\ asking = 1
    /\ asking' = 0 /\ available' \in 0..Balance
    /\ UNCHANGED <<form, estimates, mixed, limits, enabled, covered, send, taps, edits>>

(* The answer of the node, or its failure, of getBalance                   *)
BalanceArrived ==
    /\ MainFree /\ asking = 1
    /\ asking' = 0 /\ available' \in 0..Balance
    /\ Hide(InFlight)
    /\ UNCHANGED <<form, estimates, mixed, limits, enabled, taps, edits>>

(* and of getGasLimit, which knows no invalid address                      *)
EstimateArrived ==
    /\ MainFree
    /\ \E e \in estimates :
        /\ estimates' = estimates \ {e}
        /\ covered' = FALSE
        /\ \/ /\ e[1] # Invalid /\ limits' = e /\ enabled' = TRUE
              /\ send' = Blamed(InFlight, "uncovered")
           \/ /\ UNCHANGED <<limits, enabled>>
              /\ send' = [s \in Sends |-> IF send[s].step = "auth"
                              THEN [send[s] EXCEPT !.blame = @ \cup {"hurried"}]
                              ELSE Blamed(InFlight, "uncovered")[s]]
    /\ UNCHANGED <<form, available, asking, mixed, taps, edits>>

-----------------------------------------------------------------------------
(* A send                                                                  *)

At(s, step) == send[s].step = step

(* sendTokenDidTap                                                         *)
SendTokenDidTap ==
    LET waiting == {s \in Sends : At(s, "auth")} IN
    /\ UserFree /\ enabled /\ taps < MaxSend
    /\ taps' = taps + 1
    /\ send' = [Blamed(waiting \cup {t \in {taps + 1} : waiting # {}}, "twice")
                  EXCEPT ![taps + 1].step = "auth"]
    /\ UNCHANGED <<form, available, asked, limits, enabled, covered, edits>>

(* Mutant: the overlay is shown only once the transaction was submitted.   *)
SendUncovered(s) ==
    /\ MainFree /\ At(s, "auth")
    /\ EditingEnd(focus, address, amount)
    /\ focus' = "none"
    /\ send' = [send EXCEPT ![s].step = "nonce", ![s].seen = <<address, amount'>>,
                    ![s].blame = @ \cup {c \in {"blank"} : amount' # sendingValue'}
                                   \cup {c \in {"hurried"} : estimates' # {}}
                                   \cup {c \in {"mixed"} : mixed'}]
    /\ UNCHANGED <<address, available, asking, covered, limits, taps, edits>>

(* sendTokenWithPwd: editing ends, with what that does; then the overlay   *)
SendTokenWithPwd(s) ==
    /\ MainFree /\ At(s, "auth")
    /\ EditingEnd(focus, address, amount)
    /\ focus' = "none" /\ covered' = TRUE
    /\ send' = [send EXCEPT ![s].step = "nonce", ![s].seen = <<address, amount'>>,
                    ![s].blame = @ \cup {c \in {"blank"} : amount' # sendingValue'}
                                   \cup {c \in {"hurried"} : estimates' # {}}
                                   \cup {c \in {"mixed"} : mixed'}]
    /\ UNCHANGED <<address, available, asking, limits, taps, edits>>

(* The password is wrong, or none is given.                                *)
Refused(s) ==
    /\ MainFree /\ At(s, "auth")
    /\ send' = [send EXCEPT ![s] = [NoSend EXCEPT !.step = "failed"]]
    /\ \/ /\ EditingEnd(focus, address, amount)
          /\ covered' = (covered \/ Asks(focus, address, amount))
          /\ focus' = "none"
       \/ UNCHANGED <<amount, focus, sendingValue, enabled, covered, estimates, mixed>>
    /\ UNCHANGED <<address, available, asking, limits, taps, edits>>

(* error(_:), wherever the node refuses                                    *)
Failed(s) ==
    /\ MainFree /\ send[s].step \in {"nonce", "epoch", "sign", "submit"}
    /\ covered' = FALSE
    /\ send' = [Blamed(InFlight \ {s}, "uncovered") EXCEPT ![s] = [NoSend EXCEPT !.step = "failed"]]
    /\ UNCHANGED <<form, available, asked, limits, enabled, taps, edits>>

NonceArrived(s) ==
    /\ At(s, "nonce")
    /\ send' = [send EXCEPT ![s].step = "epoch"]
    /\ UNCHANGED <<form, available, asked, limits, enabled, covered, taps, edits>>

(* Mutant: what is missing for the fee is not added up.                    *)
TakeFee(value) == IF ~Token /\ available - value < Fee THEN value - Fee ELSE value

(* The fee comes off what does not leave room for it.                      *)
LessFee(value) ==
    LET x == available - value IN
    IF ~Token /\ x < Fee THEN value - Fee + x ELSE value

Poor == available < sendingValue \/ (~Token /\ available < Fee)

(* The epoch arrives: the amount is read on the queue of the answer,       *)
EpochArrived(s) ==
    /\ At(s, "epoch")
    /\ send' = [send EXCEPT ![s].step = "address", ![s].value = LessFee(sendingValue),
                    ![s].left = available - LessFee(sendingValue),
                    ![s].blame = @ \cup {c \in {"poor"} : Poor}]
    /\ UNCHANGED <<form, available, asked, limits, enabled, covered, taps, edits>>

(* the address on the main queue,                                          *)
AddressRead(s) ==
    /\ MainFree /\ At(s, "address")
    /\ send' = [send EXCEPT ![s].step = "sign", ![s].to = address]
    /\ UNCHANGED <<form, available, asked, limits, enabled, covered, taps, edits>>

(* and the limits on the former again.  Signing and sending follow.        *)
Sign(s) ==
    /\ At(s, "sign") /\ send[s].to \in Address
    /\ send' = [send EXCEPT ![s].step = "submit", ![s].limits = limits]
    /\ UNCHANGED <<form, available, asked, limits, enabled, covered, taps, edits>>

Submitted(s) ==
    /\ MainFree /\ At(s, "submit")
    /\ send' = [send EXCEPT ![s] = [NoSend EXCEPT !.step = "poll", !.blame = send[s].blame]]
    /\ covered' = TRUE
    /\ UNCHANGED <<form, available, asked, limits, enabled, taps, edits>>

(* Mutant: the status is answered on the queue that waits for it.          *)
StatusOnMain(s) ==
    /\ MainFree /\ At(s, "poll")
    /\ covered' = FALSE
    /\ send' = [Blamed(InFlight \ {s}, "uncovered") EXCEPT ![s] = [NoSend EXCEPT !.step = "sent"]]
    /\ UNCHANGED <<form, available, asked, limits, enabled, taps, edits>>

(* checkStatusOfTransaction, once the transaction has a status             *)
StatusArrived(s) ==
    /\ At(s, "poll")
    /\ covered' = FALSE
    /\ send' = [Blamed(InFlight \ {s}, "uncovered") EXCEPT ![s] = [NoSend EXCEPT !.step = "sent"]]
    /\ UNCHANGED <<form, available, asked, limits, enabled, taps, edits>>

-----------------------------------------------------------------------------
Answer(s) ==
    \/ SendTokenWithPwd(s) \/ Refused(s) \/ Failed(s) \/ NonceArrived(s) \/ EpochArrived(s)
    \/ AddressRead(s) \/ Sign(s) \/ Submitted(s) \/ StatusArrived(s)

Next ==
    \/ TypeAddress \/ TypeValue \/ Focus \/ Leave \/ MaxValueTaped \/ AdjustGas \/ Scan
    \/ BalanceArrived \/ EstimateArrived \/ SendTokenDidTap
    \/ \E s \in Sends : Answer(s)

Spec == Init /\ [][Next]_vars

(* The keychain and the node answer or time out, every transaction gets a  *)
(* status, and the queues run what they were given.                        *)
Fairness ==
    /\ WF_vars(BalanceArrived) /\ WF_vars(EstimateArrived)
    /\ \A s \in Sends : WF_vars(Answer(s))

LiveSpec == Spec /\ Fairness

-----------------------------------------------------------------------------
(* Properties                                                              *)

Made(s)           == send[s].step = "submit"
Spared(s, causes) == send[s].blame \cap causes = {}

(* A transaction goes to the address and is of the amount that the page    *)
(* showed when the password was accepted, although both are read two       *)
(* answers later; what a payment in CFX does not leave for the fee, and no *)
(* more, comes off it.  What breaks it: the overlay was taken away         *)
(* meanwhile, the amount field had been emptied, which leaves sendingValue *)
(* behind, or the balance is not what it was when the amount was entered.  *)
SentAsShown ==
    \A s \in Sends : Made(s) /\ Spared(s, {"uncovered", "blank", "poor"})
        => LET shown == send[s].seen[2]
               less  == shown - send[s].value
           IN  /\ send[s].to = send[s].seen[1]
               /\ less \in 0..Fee /\ (Token => less = 0)
               /\ ~Token => send[s].left >= Fee /\ (less > 0 => send[s].left = Fee)

(* No second payment is under way before the first one is reported, unless *)
(* the overlay was taken away by another answer, or the button was tapped  *)
(* again before the keychain answered.                                     *)
OneAtATime ==
    \A s, t \in InFlight : s # t =>
        ~Spared(s, {"uncovered", "twice"}) \/ ~Spared(t, {"uncovered", "twice"})

(* The limits in a transaction were estimated for its own address and      *)
(* amount, unless an estimate is still outstanding when the send begins    *)
(* (the end of editing that the send forces may ask for one) or failed     *)
(* while the keychain was asked, or the last ones were outstanding         *)
(* together, so that the answer to the older one counts for the page.      *)
LimitsFit ==
    \A s \in Sends : Made(s) /\ Spared(s, {"uncovered", "blank", "hurried", "mixed"})
        => send[s].limits = send[s].seen

(* Every send that got its password is reported in the end, and the page   *)
(* does not stay covered.                                                  *)
SendEnds      == \A s \in Sends : s \in InFlight ~> send[s].step \in {"sent", "failed"}
PageComesFree == covered ~> ~covered

=============================================================================
