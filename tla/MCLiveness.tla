----------------------------- MODULE MCLiveness -----------------------------
(***************************************************************************)
(* What must come about in the end: the login of the keyboard              *)
(* (SocketLayer), the loading of old messages (ChatEngine), the start of   *)
(* an account (SessionStore), a payment (SendToken), the delivery of       *)
(* pushed messages (Reception) and the requests of web pages               *)
(* (DAppRequests).  Neither model has a variable of another, so one part   *)
(* moves while the others stay at rest.  The instances are small.          *)
(***************************************************************************)
EXTENDS SocketLayer

CONSTANTS u1, u2, None

VARIABLES
    part, \* the part that moves
    clock, log, pushQ, msgHistory, release, targetUser, nextHistoryPage, waittingNewOne,
    contentList, refreshing, bgQ, chatQ, pages, lookups, net, written, asks, selects,
    releases, cached, overlapped, repaged, crossed,
    keys, disk, loginUser, loaded, backup, screen, spinning, consents, job, flow, made,
    starts, logins, out, blame,
    address, amount, focus, sendingValue, available, asking, estimates, mixed, limits,
    enabled, covered, send, taps, edits,
    started, loggedIn, writes, asked, wire, reads, delegate, decrypt, marks, shown, arrived,
    pushed, beats, breaks, taken, dropped, causes, dead,
    current, stale, view, page, known, requests, blocks, dialogs, approved, trapped, pool,
    executed, switches

chat      == <<clock, log, pushQ, msgHistory, release, targetUser, nextHistoryPage,
               waittingNewOne, contentList, refreshing, bgQ, chatQ, pages, lookups, net,
               written, asks, selects, releases, cached, overlapped, repaged, crossed>>
account   == <<keys, disk, loginUser, loaded, backup, screen, spinning, consents, job,
               flow, made, starts, logins, out, blame>>
form      == <<address, amount, focus, sendingValue, available, asking, estimates, mixed,
               limits, enabled, covered, send, taps, edits>>
reception == <<started, loggedIn, writes, asked, wire, reads, delegate, decrypt, marks,
               shown, arrived, pushed, beats, breaks, taken, dropped, causes, dead>>
web       == <<current, stale, view, page, known, requests, blocks, dialogs, approved,
               trapped, pool, executed, switches>>

Chat == INSTANCE ChatEngine WITH
    mainQ <- chatQ, requests <- pages, logins <- releases, arrived <- cached,
    Users <- {u1, u2}, PageSize <- 1, Backlog <- 2,
    MaxNew <- 0, MaxAsk <- 2, MaxSelect <- 2, MaxLogin <- 0

Account == INSTANCE SessionStore WITH
    asked <- consents,
    AllCases <- <<"weChat">>, Flows <- {"f1", "f2"},
    MaxKey <- 2, MaxStart <- 1, MaxLogin <- 0

Payment == INSTANCE SendToken WITH
    Address <- {"a"}, Invalid <- "invalid", Token <- TRUE,
    Balance <- 1, Fee <- 1, MaxSend <- 1, MaxEdit <- 3, MaxAsk <- 1

Delivery == INSTANCE Reception WITH
    session <- loggedIn, main <- delegate,
    Message <- {}, MaxPush <- 1, MaxBeat <- 1, MaxBreak <- 1

Pages == INSTANCE DAppRequests WITH
    main <- blocks,
    Wallet <- {u1}, MaxRequest <- 2, MaxChange <- 0

ASSUME PartsAssumption ==
    Payment!AmountAssumption /\ Payment!AddressAssumption /\ Payment!BoundAssumption

Parts == {"login", "chat", "account", "payment", "delivery", "web"}

(* At rest nobody waits for the balance, and nothing is to be written.     *)
PartsInit ==
    /\ part \in Parts
    /\ Init /\ (part # "login" => token)
    /\ Chat!Init
    /\ Account!Init /\ (part = "account" <=> backup["weChat"] # 0)
    /\ Pages!Init /\ (part # "web" => current = u1 /\ stale = {})
    /\ address = Payment!Empty /\ amount = Payment!Blank /\ focus = "none" /\ sendingValue = 0
    /\ available = 0 /\ estimates = {} /\ mixed = FALSE /\ limits = Payment!NoLimit
    /\ asking = (IF part = "payment" THEN 1 ELSE 0) /\ covered = (part = "payment")
    /\ enabled = FALSE
    /\ send = [s \in Payment!Sends |-> Payment!NoSend] /\ taps = 0 /\ edits = 0
    /\ IF part = "delivery"
       THEN Delivery!Init
       ELSE /\ started = FALSE /\ loggedIn = FALSE /\ dead = FALSE
            /\ writes = <<>> /\ asked = <<>> /\ wire = <<>> /\ reads = <<>>
            /\ delegate = <<>> /\ decrypt = <<>> /\ marks = <<>>
            /\ shown = [m \in {} |-> "no"] /\ arrived = <<>>
            /\ pushed = 0 /\ beats = 0 /\ breaks = 0
            /\ taken = {} /\ dropped = {} /\ causes = {}

PartsNext ==
    \/ part = "login" /\ Next /\ UNCHANGED <<part, chat, account, form, reception, web>>
    \/ part = "chat" /\ Chat!Next /\ UNCHANGED <<part, vars, account, form, reception, web>>
    \/ part = "account" /\ Account!Next /\ UNCHANGED <<part, vars, chat, form, reception, web>>
    \/ part = "payment" /\ Payment!Next /\ UNCHANGED <<part, vars, chat, account, reception, web>>
    \/ part = "delivery" /\ Delivery!Next /\ UNCHANGED <<part, vars, chat, account, form, web>>
    \/ part = "web" /\ Pages!Next /\ UNCHANGED <<part, vars, chat, account, form, reception>>

(* The fairness of each module, of the part that moves.                    *)
LoginFairness ==
    /\ \A l \in Attempts :
        /\ WF_vars(part = "login" /\ (LoginGranted(l) \/ LoginTimeout(l)))
        /\ WF_vars(part = "login" /\ TokenReply(l))
        /\ WF_vars(part = "login" /\ InfoReply(l))
        /\ WF_vars(part = "login" /\ NetResume(l))
    /\ \A c \in Call : WF_vars(part = "login" /\ ServerInfoReply(c))
    /\ WF_vars(/\ part = "login"
               /\ (DidConnect \/ DidReadLoginResponse \/ WatchDog \/ DidDisconnect
                   \/ ClearCallback \/ Relogin))

ChatFairness ==
    /\ WF_chat(part = "chat" /\ Chat!MainBlock)
    /\ WF_chat(part = "chat" /\ Chat!Net)
    /\ WF_chat(part = "chat" /\ Chat!ReleaseHistory)

AccountFairness ==
    /\ WF_account(part = "account" /\ Account!CreatePlatform)
    /\ \A f \in {"f1", "f2"} :
        /\ WF_account(part = "account" /\ Account!Answer(f))
        /\ WF_account(part = "account" /\ Account!Closure(f))

PaymentFairness ==
    /\ WF_form(part = "payment" /\ Payment!BalanceArrived)
    /\ WF_form(part = "payment" /\ Payment!EstimateArrived)
    /\ \A s \in Payment!Sends : WF_form(part = "payment" /\ Payment!Answer(s))

DeliveryFairness ==
    /\ WF_reception(part = "delivery" /\ Delivery!Transmit)
    /\ WF_reception(part = "delivery" /\ Delivery!Answer)
    /\ WF_reception(part = "delivery" /\ Delivery!Read)
    /\ WF_reception(part = "delivery" /\ Delivery!Delegate)

WebFairness ==
    /\ WF_web(part = "web" /\ Pages!RunMain)
    /\ \A i \in 1..2 : WF_web(part = "web" /\ i \in Pages!Ids /\ Pages!Sign(i))
    /\ WF_web(part = "web" /\ Pages!Execute(u1))

LiveParts ==
    /\ PartsInit
    /\ [][PartsNext]_<<part, vars, chat, account, form, reception, web>>
    /\ LoginFairness /\ ChatFairness /\ AccountFairness /\ PaymentFairness
    /\ DeliveryFairness /\ WebFairness

-----------------------------------------------------------------------------
(* The properties of the parts, each stated and explained in its module;   *)
(* AttemptsEnd is that of SocketLayer.                                     *)

(* Types of every part.                                                    *)
PartsTypeOK ==
    /\ part = "login" => TypeOK
    /\ part = "chat" => Chat!TypeOK
    /\ part = "account" => Account!TypeOK
    /\ part = "payment" => Payment!TypeOK
    /\ part = "delivery" => Delivery!TypeOK
    /\ part = "web" => Pages!TypeOK

(* The refresh control of the chat does not spin for ever.                 *)
RefreshEnds == Chat!RefreshEnds

(* The first page of the app does not wait for ever for an account.        *)
RegistrationEnds == Account!RegistrationEnds

(* What the server pushes gets to the chat or is dropped.                  *)
PushArrives == Delivery!PushArrives

(* A payment ends and its page can be used again; a request of a web page  *)
(* is answered or asks the user, and a transaction the node took is        *)
(* executed, but for the causes named.                                     *)
WalletEnds ==
    /\ Payment!SendEnds /\ Payment!PageComesFree
    /\ Pages!RequestSettles /\ Pages!SentIsExecuted

=============================================================================
