------------------------------ MODULE ChatEngine ------------------------------
(***************************************************************************)
(* The open chat of the keyboard: ChatEngine.swift, the per-friend cache   *)
(* of MsgHistory.swift and the list shown by ChatHistoryView.swift.        *)
(*                                                                         *)
(*   - the main queue runs the user's taps, newMsgArrived and the blocks   *)
(*     other threads post to it, in the order they were posted (mainQ);    *)
(*   - backGroundQueue, serial, appends arrivals to the cache (bgQ);       *)
(*   - the completion queue of URLSession.shared, serial, runs the closure *)
(*     that merges a page of server history into the cache (net), whose    *)
(*     reads and writes other threads can slip between;                    *)
(*   - a global-queue thread runs login, which queues the clearing of the  *)
(*     cache on writeQueue (release).                                      *)
(*                                                                         *)
(* A message is its timestamp, which is what the code compares: per friend *)
(* a number that grows.  A missing session answers like a failed request.  *)
(* The unread counters, the recent list and the texts are left out.        *)
(***************************************************************************)
EXTENDS Integers, Sequences, FiniteSets, SequencesExt

CONSTANTS
    Users,      \* the friends and groups of the session
    None,       \* no target
    PageSize,   \* messages per page of server history
    Backlog,    \* messages with each friend before this process started
    MaxNew,     \* bound: messages written while it runs, in all chats
    MaxAsk,     \* bound: page requests the user causes
    MaxSelect,  \* bound: chats chosen by hand
    MaxLogin    \* bound: logins, each of which releases the cache

ASSUME NoneAssumption == None \notin Users
ASSUME PagesAssumption == PageSize \in Nat \ {0} /\ Backlog \in Nat
ASSUME BoundAssumption ==
    /\ MaxNew \in Nat /\ MaxAsk \in Nat
    /\ MaxSelect \in Nat /\ MaxLogin \in Nat

VARIABLES
    clock,           \* timestamp of the latest message with each friend
    log,             \* the server's record of each chat, oldest first
    pushQ,           \* messages pushed to this device, not yet on its main queue
    msgHistory,      \* MsgHistory.msgHistory; a missing entry is <<>>
    release,         \* releaseHistory's block waits on writeQueue
    targetUser,      \* ChatEngine.targetUser
    nextHistoryPage, \* ChatEngine.nextHistoryPage
    waittingNewOne,  \* ChatEngine.waittingNewOne
    contentList,     \* ChatHistoryView.contentList
    refreshing,      \* ChatHistoryView.refreshControl is spinning
    bgQ,             \* blocks on backGroundQueue
    mainQ,           \* blocks on the main queue
    requests,        \* page requests whose closure has not started
    lookups,         \* friend-list requests not answered yet
    net,             \* the closure on the completion queue, or Idle
    written, asks, selects, logins, \* counters behind the bounds
    arrived,         \* history: messages handed to the cache since login
    overlapped,      \* history: friends whose append ran inside a merge
    repaged,         \* history: friends paged again from the start, twice at once, or too late
    crossed          \* history: the chat was changed with something of another on its way to the list

chat    == <<targetUser, nextHistoryPage, waittingNewOne>>
view    == <<contentList, refreshing>>
bounds  == <<written, asks, selects, logins>>
history == <<arrived, overlapped, repaged, crossed>>
vars    == <<clock, log, pushQ, msgHistory, release, chat, view, bgQ, mainQ, requests,
             lookups, net, bounds, history>>

Time == 1..Backlog + MaxNew
Shown == [from : Users, msg : Time]

Block ==
    [do : {"append", "display"}, user : Users, msg : Time]
    \cup [do : {"lookup", "open"}, user : Users]
    \cup [do : {"history"}, user : Users, msgs : Seq(Time)]
    \cup [do : {"nothing"}]

(* A page request with what its closure will be called with; until the     *)
(* server has served it that is a failure.                                 *)
Page    == [msgs : Seq(Time), next : Nat, ok : BOOLEAN]
Failed  == [msgs |-> <<>>, next |-> 0, ok |-> FALSE]
Request == [id : Nat, user : Users, page : Nat \ {0}, reply : Page]

Idle   == [at |-> "idle"]
Merge  == [at : {"merge", "merged"}, user : Users, msgs : Seq(Time), next : Nat]

TypeOK ==
    /\ clock \in [Users -> 0..Backlog + MaxNew]
    /\ log \in [Users -> Seq(Time)]
    /\ pushQ \in Seq(Shown)
    /\ msgHistory \in [Users -> Seq(Time)]
    /\ release \in BOOLEAN
    /\ targetUser \in Users \cup {None}
    /\ nextHistoryPage \in Nat
    /\ waittingNewOne \in BOOLEAN
    /\ contentList \in Seq(Shown)
    /\ refreshing \in BOOLEAN
    /\ bgQ \in Seq(Block) /\ mainQ \in Seq(Block)
    /\ requests \subseteq Request
    /\ lookups \subseteq Users
    /\ net \in Merge \cup {Idle}
    /\ written \in 0..MaxNew /\ asks \in Nat /\ selects \in 0..MaxSelect /\ logins \in 0..MaxLogin
    /\ arrived \in [Users -> SUBSET Time]
    /\ overlapped \subseteq Users /\ repaged \subseteq Users /\ crossed \in BOOLEAN

Init ==
    /\ clock = [u \in Users |-> Backlog]
    /\ log = [u \in Users |-> [i \in 1..Backlog |-> i]] /\ pushQ = <<>>
    /\ msgHistory = [u \in Users |-> <<>>] /\ release = FALSE
    /\ targetUser = None /\ nextHistoryPage = 1 /\ waittingNewOne = FALSE
    /\ contentList = <<>> /\ refreshing = FALSE
    /\ bgQ = <<>> /\ mainQ = <<>> /\ requests = {} /\ lookups = {} /\ net = Idle
    /\ written = 0 /\ asks = 0 /\ selects = 0 /\ logins = 0
    /\ arrived = [u \in Users |-> {}]
    /\ overlapped = {} /\ repaged = {} /\ crossed = FALSE

-----------------------------------------------------------------------------
(* Helpers                                                                 *)

(* Array.unique keeps the first of equal elements, in their order: the     *)
(* k-th of what it returns is at the place of s that has rank k.           *)
Firsts(s) == {i \in DOMAIN s : \A j \in DOMAIN s : j < i => s[j] # s[i]}

Rank(places, i) == Cardinality({j \in places : j <= i})

Unique(s) ==
    [k \in 1..Cardinality(Firsts(s)) |->
        s[CHOOSE i \in Firsts(s) : Rank(Firsts(s), i) = k]]

ShownAs(u, s) == [i \in DOMAIN s |-> [from |-> u, msg |-> s[i]]]

Post(b) == mainQ' = Append(mainQ, b)

(* A page request of u is on its way or its closure is running.            *)
Loading(u) == (\E r \in requests : r.user = u) \/ (net # Idle /\ net.user = u)

(* Friends whose cache was written while a merge held a copy of it.        *)
Overlapped(u) ==
    IF net # Idle /\ net.user = u /\ net.at = "merge" THEN overlapped \cup {u} ELSE overlapped

(* What is merged, or waits on the main queue, for the list of another     *)
(* chat than u's.                                                          *)
Crossing(u) ==
    \/ net # Idle /\ net.user # u
    \/ \E i \in DOMAIN mainQ : mainQ[i].do \in {"display", "history"} /\ mainQ[i].user # u

(* The p-th page counted from the newest message, oldest first, and the    *)
(* number of the page after it, 0 when this one is the last.               *)
PageOf(u, p) ==
    LET n == Len(log[u]) - (p - 1) * PageSize
    IN  [msgs |-> SubSeq(log[u], IF n > PageSize THEN n - PageSize + 1 ELSE 1, n),
         next |-> IF n > PageSize THEN p + 1 ELSE 0,
         ok   |-> TRUE]

(* chatHistoryWith: the request leaves with the page number it was given.  *)
Ask(u, p) ==
    /\ asks' = asks + 1
    /\ requests' = requests \cup
         {[id |-> asks + 1, user |-> u, page |-> p, reply |-> Failed]}
    /\ repaged' = IF Loading(u) THEN repaged \cup {u} ELSE repaged

-----------------------------------------------------------------------------
(* The user's taps, on the main queue                                      *)

(* setTarget up to its last reads; both ways of choosing a chat share it.  *)
SetTarget(u) ==
    LET l == msgHistory[u] IN
    /\ targetUser' = u /\ crossed' = Crossing(u)
    /\ waittingNewOne' = FALSE
    /\ IF l = <<>>
       THEN /\ Ask(u, 1)
            /\ nextHistoryPage' = 1
            /\ contentList' = <<>> /\ refreshing' = TRUE
       ELSE /\ nextHistoryPage' = 1
            /\ contentList' = ShownAs(u, l) /\ refreshing' = FALSE
            /\ repaged' = repaged \cup {u}
            /\ UNCHANGED <<asks, requests>>

Select(u) ==
    /\ selects < MaxSelect /\ (msgHistory[u] = <<>> => asks < MaxAsk)
    /\ selects' = selects + 1
    /\ SetTarget(u)
    /\ UNCHANGED <<clock, log, pushQ, msgHistory, release, bgQ, mainQ, lookups, net, written, logins,
                   arrived, overlapped>>

(* viewWillDisappear                                                       *)
RemoveTarget ==
    /\ targetUser # None
    /\ targetUser' = None /\ crossed' = Crossing(None)
    /\ contentList' = <<>> /\ refreshing' = FALSE
    /\ UNCHANGED <<clock, log, pushQ, msgHistory, release, nextHistoryPage, waittingNewOne,
                   bgQ, mainQ, requests, lookups, net, bounds, arrived, overlapped,
                   repaged>>

(* The invitation was sent from a chat window with no friend chosen.       *)
InvitePrivacyChat ==
    /\ targetUser = None /\ ~waittingNewOne
    /\ waittingNewOne' = TRUE
    /\ UNCHANGED <<clock, log, pushQ, msgHistory, release, targetUser, nextHistoryPage,
                   view, bgQ, mainQ, requests, lookups, net, bounds, history>>

ClosePrivacyMode ==
    /\ waittingNewOne
    /\ waittingNewOne' = FALSE
    /\ UNCHANGED <<clock, log, pushQ, msgHistory, release, targetUser, nextHistoryPage,
                   view, bgQ, mainQ, requests, lookups, net, bounds, history>>

(* Pulling the list down; a control that spins already sends no event.     *)
LoadMoreHistory ==
    /\ ~refreshing
    /\ refreshing' = TRUE
    /\ \/ /\ targetUser # None /\ nextHistoryPage > 0 /\ asks < MaxAsk
          /\ Ask(targetUser, nextHistoryPage)
          /\ UNCHANGED mainQ
       \/ /\ targetUser = None \/ nextHistoryPage = 0
          /\ Post([do |-> "nothing"])
          /\ UNCHANGED <<asks, requests, repaged>>
    /\ UNCHANGED <<clock, log, pushQ, msgHistory, release, targetUser, nextHistoryPage,
                   waittingNewOne, contentList, bgQ, lookups, net, written, selects, logins,
                   arrived, overlapped, crossed>>

(* The message is cached and shown whether or not it reaches the server.   *)
SendMsg(delivered) ==
    LET u == targetUser
        m == clock[u] + 1
    IN
    /\ u # None
    /\ ~release
    /\ written < MaxNew /\ written' = written + 1
    /\ clock' = [clock EXCEPT ![u] = m]
    /\ log' = IF delivered THEN [log EXCEPT ![u] = Append(@, m)] ELSE log
    /\ msgHistory' = [msgHistory EXCEPT ![u] = Append(@, m)]
    /\ Post([do |-> "display", user |-> u, msg |-> m])
    /\ arrived' = [arrived EXCEPT ![u] = @ \cup {m}]
    /\ overlapped' = Overlapped(u)
    /\ UNCHANGED <<pushQ, release, chat, view, bgQ, requests, lookups, net,
                   asks, selects, logins, repaged, crossed>>

-----------------------------------------------------------------------------
(* Messages from the server                                                *)

(* Somebody writes to this user; the server pushes it if it can.           *)
FriendWrites(u, pushed) ==
    LET m == clock[u] + 1 IN
    /\ written < MaxNew /\ written' = written + 1
    /\ clock' = [clock EXCEPT ![u] = m]
    /\ log' = [log EXCEPT ![u] = Append(@, m)]
    /\ pushQ' = IF pushed THEN Append(pushQ, [from |-> u, msg |-> m]) ELSE pushQ
    /\ UNCHANGED <<msgHistory, release, chat, view, bgQ, mainQ, requests, lookups, net,
                   asks, selects, logins, history>>

(* The sender is looked up in the friend list if it is not a recent chat   *)
(* (stranger); both blocks follow each other on backGroundQueue.           *)
NewMsgArrived(stranger) ==
    LET u == Head(pushQ).from
        m == Head(pushQ).msg
    IN
    /\ pushQ # <<>>
    /\ pushQ' = Tail(pushQ)
    /\ arrived' = [arrived EXCEPT ![u] = @ \cup {m}]
    /\ IF u = targetUser
       THEN /\ ~stranger
            /\ bgQ' = Append(bgQ, [do |-> "append", user |-> u, msg |-> m])
            /\ Post([do |-> "display", user |-> u, msg |-> m])
       ELSE /\ bgQ' = bgQ \o << [do |-> "append", user |-> u, msg |-> m] >>
                          \o (IF stranger THEN << [do |-> "lookup", user |-> u] >> ELSE <<>>)
            /\ UNCHANGED mainQ
    /\ UNCHANGED <<clock, log, msgHistory, release, chat, view, requests, lookups, net,
                   bounds, overlapped, repaged, crossed>>

-----------------------------------------------------------------------------
(* backGroundQueue and writeQueue                                          *)

(* A synchronous write waits behind the block releaseHistory queued.       *)
AppendHistory ==
    LET b == Head(bgQ) IN
    /\ bgQ # <<>> /\ b.do = "append"
    /\ ~release
    /\ bgQ' = Tail(bgQ)
    /\ msgHistory' = [msgHistory EXCEPT ![b.user] = Append(@, b.msg)]
    /\ overlapped' = Overlapped(b.user)
    /\ UNCHANGED <<clock, log, pushQ, release, chat, view, mainQ, requests, lookups, net,
                   bounds, arrived, repaged, crossed>>

LookUp ==
    LET b == Head(bgQ) IN
    /\ bgQ # <<>> /\ b.do = "lookup"
    /\ bgQ' = Tail(bgQ)
    /\ lookups' = lookups \cup {b.user}
    /\ UNCHANGED <<clock, log, pushQ, msgHistory, release, chat, view, mainQ, requests, net,
                   bounds, history>>

(* The first thing login does, on a thread of its own.                     *)
Login ==
    /\ logins < MaxLogin
    /\ logins' = logins + 1
    /\ release' = TRUE
    /\ UNCHANGED <<clock, log, pushQ, msgHistory, chat, view, bgQ, mainQ, requests, lookups,
                   net, written, asks, selects, history>>

ReleaseHistory ==
    /\ release
    /\ release' = FALSE
    /\ msgHistory' = [u \in Users |-> <<>>]
    /\ arrived' = [u \in Users |-> {}]
    /\ UNCHANGED <<clock, log, pushQ, chat, view, bgQ, mainQ, requests, lookups, net, bounds,
                   overlapped, repaged, crossed>>

-----------------------------------------------------------------------------
(* The completion queue                                                    *)

Serve(r) ==
    /\ ~r.reply.ok
    /\ requests' = (requests \ {r}) \cup {[r EXCEPT !.reply = PageOf(r.user, r.page)]}
    /\ UNCHANGED <<clock, log, pushQ, msgHistory, release, chat, view, bgQ, mainQ, lookups,
                   net, bounds, history>>

(* Mutant: a failed request tells nobody.                                  *)
FailSilently(r) ==
    /\ net = Idle
    /\ ~r.reply.ok
    /\ requests' = requests \ {r}
    /\ UNCHANGED <<clock, log, pushQ, msgHistory, release, chat, view, bgQ, mainQ, lookups,
                   net, bounds, history>>

HistoryFailed(r) ==
    /\ net = Idle
    /\ ~r.reply.ok
    /\ requests' = requests \ {r}
    /\ Post([do |-> "nothing"])
    /\ UNCHANGED <<clock, log, pushQ, msgHistory, release, chat, view, bgQ, lookups, net,
                   bounds, history>>

(* Mutants: the page goes behind the cached messages, or replaces them.    *)
MergedBehind(cached, page) == Unique(cached \o page)
Replaced(cached, page) == page

Merged(cached, page) == Unique(page \o cached)

(* A page that comes so late that new messages have pushed all of it above *)
(* the oldest message cached.                                              *)
Overtaken(cached, page) ==
    \E i \in DOMAIN cached : cached[i] <= Backlog /\ \A j \in DOMAIN page : page[j] > cached[i]

(* Mutant: the page is merged whichever chat is open.                      *)
HistoryTaken(r) ==
    /\ net = Idle
    /\ r.reply.ok
    /\ requests' = requests \ {r}
    /\ net' = [at |-> "merge", user |-> r.user, next |-> r.reply.next,
               msgs |-> Merged(msgHistory[r.user], r.reply.msgs)]
    /\ UNCHANGED <<clock, log, pushQ, msgHistory, release, chat, view, bgQ, mainQ, lookups,
                   bounds, history>>

(* The closure reads targetUser and the cache; another chat ends it.       *)
HistoryArrived(r) ==
    /\ net = Idle
    /\ r.reply.ok
    /\ requests' = requests \ {r}
    /\ net' = IF r.user # targetUser THEN Idle
              ELSE [at |-> "merge", user |-> r.user, next |-> r.reply.next,
                    msgs |-> Merged(msgHistory[r.user], r.reply.msgs)]
    /\ repaged' = IF Overtaken(msgHistory[r.user], r.reply.msgs)
                  THEN repaged \cup {r.user} ELSE repaged
    /\ UNCHANGED <<clock, log, pushQ, msgHistory, release, chat, view, bgQ, mainQ, lookups,
                   bounds, arrived, overlapped, crossed>>

SetHistory ==
    /\ net # Idle /\ net.at = "merge"
    /\ ~release
    /\ msgHistory' = [msgHistory EXCEPT ![net.user] = net.msgs]
    /\ net' = [net EXCEPT !.at = "merged"]
    /\ UNCHANGED <<clock, log, pushQ, release, chat, view, bgQ, mainQ, requests, lookups,
                   bounds, history>>

TurnPage ==
    /\ net # Idle /\ net.at = "merged"
    /\ nextHistoryPage' = net.next
    /\ Post([do |-> "history", user |-> net.user, msgs |-> net.msgs])
    /\ net' = Idle
    /\ UNCHANGED <<clock, log, pushQ, msgHistory, release, targetUser, waittingNewOne,
                   view, bgQ, requests, lookups, bounds, history>>

(* The friend list arrives while the user waits for somebody new.          *)
FriendListArrived(u) ==
    /\ net = Idle
    /\ lookups' = lookups \ {u}
    /\ IF targetUser = None /\ waittingNewOne
       THEN Post([do |-> "open", user |-> u])
       ELSE UNCHANGED mainQ
    /\ UNCHANGED <<clock, log, pushQ, msgHistory, release, chat, view, bgQ, requests, net,
                   bounds, history>>

-----------------------------------------------------------------------------
(* Blocks on the main queue                                                *)

DisplayMsg ==
    /\ mainQ # <<>> /\ Head(mainQ).do = "display"
    /\ mainQ' = Tail(mainQ)
    /\ contentList' = Append(contentList, [from |-> Head(mainQ).user, msg |-> Head(mainQ).msg])
    /\ UNCHANGED <<clock, log, pushQ, msgHistory, release, chat, refreshing, bgQ, requests,
                   lookups, net, bounds, history>>

(* ChatHistoryView.setHistory, posted by the merge                         *)
ShowHistory ==
    /\ mainQ # <<>> /\ Head(mainQ).do = "history"
    /\ mainQ' = Tail(mainQ)
    /\ contentList' = ShownAs(Head(mainQ).user, Head(mainQ).msgs)
    /\ refreshing' = FALSE
    /\ UNCHANGED <<clock, log, pushQ, msgHistory, release, chat, bgQ, requests, lookups, net,
                   bounds, history>>

(* ChatHistoryView.insertHistory with an empty list                        *)
InsertNothing ==
    /\ mainQ # <<>> /\ Head(mainQ).do = "nothing"
    /\ mainQ' = Tail(mainQ)
    /\ refreshing' = FALSE
    /\ UNCHANGED <<clock, log, pushQ, msgHistory, release, chat, contentList, bgQ, requests,
                   lookups, net, bounds, history>>

OpenNewOne ==
    /\ mainQ # <<>> /\ Head(mainQ).do = "open"
    /\ mainQ' = Tail(mainQ)
    /\ SetTarget(Head(mainQ).user)
    /\ UNCHANGED <<clock, log, pushQ, msgHistory, release, bgQ, lookups, net, written,
                   selects, logins,
                   arrived, overlapped>>

MainBlock == DisplayMsg \/ ShowHistory \/ InsertNothing \/ OpenNewOne

Net ==
    \/ \E r \in requests : HistoryArrived(r) \/ HistoryFailed(r)
    \/ \E u \in lookups : FriendListArrived(u)
    \/ SetHistory \/ TurnPage

User ==
    \/ \E u \in Users : Select(u)
    \/ RemoveTarget \/ InvitePrivacyChat \/ ClosePrivacyMode \/ LoadMoreHistory
    \/ \E delivered \in BOOLEAN : SendMsg(delivered)

Next ==
    \/ User
    \/ \E u \in Users, pushed \in BOOLEAN : FriendWrites(u, pushed)
    \/ \E stranger \in BOOLEAN : NewMsgArrived(stranger)
    \/ AppendHistory \/ LookUp \/ Login \/ ReleaseHistory
    \/ \E r \in requests : Serve(r)
    \/ Net
    \/ MainBlock

Spec == Init /\ [][Next]_vars

(* The queues are drained and every request ends, answered or timed out.   *)
Fairness == WF_vars(MainBlock) /\ WF_vars(Net) /\ WF_vars(ReleaseHistory)

FairSpec == Spec /\ Fairness

-----------------------------------------------------------------------------
(* Properties                                                              *)

(* The messages of a friend that were there before this process started    *)
(* reach the cache only in pages, in any number of requests around which   *)
(* new messages arrive, pages shift and the cache is released.  Those      *)
(* cached are in order, without repetition and without a hole, unless the  *)
(* friend is chosen again with messages cached, two of its pages are under *)
(* way at once, or a page comes so late that more new messages than a page *)
(* holds have pushed all of it above what is cached.                       *)
BacklogIsARange ==
    \A u \in Users \ repaged : \A i, j \in DOMAIN msgHistory[u] :
        LET cached == msgHistory[u] IN
        /\ i < j /\ cached[i] <= Backlog /\ cached[j] <= Backlog
        /\ \A k \in DOMAIN cached : i < k /\ k < j => cached[k] > Backlog
        => cached[j] = cached[i] + 1

(* A message handed to the cache stays in it until the next login, or      *)
(* waits on backGroundQueue; only an append that ran between the reading   *)
(* and the writing of loadMoreHistory's closure can be lost.               *)
OnlyMergesLoseMessages ==
    \A u \in Users \ overlapped : \A m \in arrived[u] :
        \/ Contains(msgHistory[u], m)
        \/ Contains(bgQ, [do |-> "append", user |-> u, msg |-> m])

(* The spinning refresh control, which keeps the user from loading more,   *)
(* always stops: some answer, failure or change of chat ends it.           *)
RefreshEnds == refreshing ~> ~refreshing

(* The list on the screen holds messages of the open chat only, and none   *)
(* without one, however pages, messages and openings follow each other.    *)
(* The closure of a page compares the target once and before the merge; so *)
(* only a chat changed while something for another was past that point, or *)
(* waited on the main queue, mixes them.                                   *)
ListIsOfTarget ==
    \/ crossed
    \/ \A i \in DOMAIN contentList : contentList[i].from = targetUser

=============================================================================
