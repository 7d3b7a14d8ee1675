------------------------------ MODULE MCWallet ------------------------------
(***************************************************************************)
(* What the app does with wallets: the requests of web pages               *)
(* (DAppRequests, with two wallets that are not told apart), the stores    *)
(* (WalletStore) and the page that sends tokens (SendToken, for one        *)
(* payment over the whole form, and for two over a part of it).  Neither   *)
(* model has a variable of another, so one part moves while the others     *)
(* stay as they began.                                                     *)
(***************************************************************************)
EXTENDS DAppRequests, TLC

CONSTANTS
    MaxMake, MaxEdit, MaxStart,               \* the bounds of WalletStore
    Payees, Invalid, Token, Balance, Fee,     \* the constants of SendToken,
    MaxSend, MaxTyped, MaxAsk                 \* and its bounds

VARIABLES
    part, \* the part that moves
    old, wallet, list, keychain, setting, job, switcher, running, made, changes, starts,
    saved, blame,
    address, amount, focus, sendingValue, available, asking, estimates, mixed, limits,
    enabled, covered, send, taps, edits

stores == <<old, wallet, list, keychain, setting, job, switcher, running, made, changes,
            starts, saved, blame>>
form   == <<address, amount, focus, sendingValue, available, asking, estimates, mixed, limits,
            enabled, covered, send, taps, edits>>

Store == INSTANCE WalletStore WITH
    current <- wallet, page <- switcher, edits <- changes, last <- saved

Pay == INSTANCE SendToken WITH Address <- Payees, MaxEdit <- MaxTyped

ASSUME PartsAssumption ==
    /\ Store!BoundAssumption
    /\ Pay!AmountAssumption /\ Pay!AddressAssumption /\ Pay!BoundAssumption

Wallets == Permutations(Wallet)

PartsInit ==
    /\ part \in {"requests", "stores", "payment", "payments"}
    /\ Init /\ (part # "requests" => stale = {})
    /\ Store!Init /\ (part # "stores" => old = 0)
    /\ Pay!Init

(* Bounds: either one payment, or several with one valid address, amounts  *)
(* and balances of nothing or all, and one estimate at a time              *)
Payments ==
    /\ part = "payment" => taps <= 1
    /\ part = "payments" =>
        /\ address \in {CHOOSE a \in Payees : TRUE, Pay!Empty}
        /\ amount \in {0, Balance, Pay!Blank} /\ available \in {0, Balance}
        /\ Cardinality(estimates) <= 1

PartsNext ==
    \/ part = "requests" /\ Next /\ UNCHANGED <<part, stores, form>>
    \/ part = "stores" /\ Store!Next /\ UNCHANGED <<part, vars, form>>
    \/ part \in {"payment", "payments"} /\ Pay!Next /\ UNCHANGED <<part, vars, stores>> /\ Payments'

Parts == PartsInit /\ [][PartsNext]_<<part, vars, stores, form>>

-----------------------------------------------------------------------------
(* The properties of the parts, each stated and explained in its module    *)

(* What a page asks for is sent only if it was agreed to, by the wallet it *)
(* is from, asked for once, and what was signed is taken: each but for the *)
(* causes named.                                                           *)
RequestsRight ==
    /\ [](TypeOK /\ RefusedIsNotSent /\ SignedByItsSender /\ AskedOnce)
    /\ SignedIsTaken

(* The two stores and the keychain lose no wallet, key, edit or password,  *)
(* but for the causes named.                                               *)
WalletsKept ==
    part = "stores" =>
        /\ Store!TypeOK
        /\ Store!ListedOnce /\ Store!EditsKept /\ Store!KeysKept /\ Store!KeychainOpens

(* A transaction is what the page showed when the password was accepted,   *)
(* with limits estimated for it, and no payment starts during another, but *)
(* for the causes named.                                                   *)
PaymentsRight ==
    part \in {"payment", "payments"} =>
        Pay!TypeOK /\ Pay!SentAsShown /\ Pay!LimitsFit /\ Pay!OneAtATime

=============================================================================
