----------------------------- MODULE UnreadCount -----------------------------
(***************************************************************************)
(* The unread marks of the chats: the two dictionaries of MsgHistory.swift *)
(* and the red dot of the tool bar, as ChatEngine.swift drives them.       *)
(*                                                                         *)
(*   - the main queue opens chats and receives pushed messages;            *)
(*   - the completion queue of URLSession.shared counts the answer to      *)
(*     getOfflineMsgs, entry by entry, and then stores it;                 *)
(*   - a global-queue thread runs login, which queues the clearing of both *)
(*     dictionaries on writeQueue (release); synchronous writes wait for   *)
(*     it.                                                                 *)
(*                                                                         *)
(* Both of the first two compute the red dot and post its change to the    *)
(* main queue.  Each write of a dictionary is a step of its own.  What a   *)
(* message says, its place in the history (ChatEngine) and the deletion    *)
(* request for read offline messages, which leaves nothing on the device,  *)
(* are left out.                                                           *)
(***************************************************************************)
EXTENDS Integers, Sequences

CONSTANTS
    Users,      \* the friends and groups of the session
    None,       \* no chat
    MaxOffline, \* bound: offline messages of one friend in one answer
    MaxPush,    \* bound: pushed messages
    MaxOpen,    \* bound: chats opened
    MaxAppear   \* bound: times the keyboard appears, each with a login

ASSUME NoneAssumption == None \notin Users
ASSUME BoundAssumption ==
    /\ MaxOffline \in Nat /\ MaxPush \in Nat /\ MaxOpen \in Nat /\ MaxAppear \in Nat

VARIABLES
    unreadCount,  \* MsgHistory.unreadCount; a missing entry is 0
    offlineDict,  \* MsgHistory.offlineDict, the count of an entry; 0 when missing
    release,      \* releaseHistory's block waits on writeQueue
    targetUser,   \* ChatEngine.targetUser
    at,           \* where the main and the completion queue are
    opened,       \* the chat setTarget was called with
    answer,       \* the offline messages the closure was called with
    left,         \* the friends of the answer not counted yet
    has,          \* hasUnreadMsg's value on each queue
    dotQ,         \* changes of the red dot posted to the main queue
    dot,          \* the red dot of the tool bar is visible
    starting,     \* logins of the keyboard's appearance that have not begun
    asking,       \* logins begun whose offline answer has not come
    pushes, opens, appears, \* counters behind the bounds
    unread,       \* history: chats with a message counted since they were read
    late,         \* history: chats read while an answer naming them was counted
    raced         \* history: a message was counted while a queue was to put the dot out

dicts  == <<unreadCount, offlineDict>>
reply  == <<answer, left>>
bar    == <<dotQ, dot>>
logins == <<starting, asking>>
bounds == <<pushes, opens, appears>>
unreadVars == <<dicts, release, targetUser, at, opened, reply, has, bar, logins, bounds,
                unread, late, raced>>

Queues == {"main", "net"}
Places == {"idle", "clear", "fetch", "drop", "count", "look", "post"}

UnreadTypeOK ==
    /\ unreadCount \in [Users -> Nat]
    /\ offlineDict \in [Users -> 0..MaxOffline]
    /\ release \in BOOLEAN
    /\ targetUser \in Users \cup {None}
    /\ at \in [Queues -> Places]
    /\ at["main"] # "count" /\ at["net"] \notin {"clear", "fetch", "drop"}
    /\ opened \in Users \cup {None}
    /\ at["main"] \in {"clear", "fetch", "drop"} => opened \in Users
    /\ answer \in [Users -> 0..MaxOffline]
    /\ left \subseteq Users
    /\ has \in [Queues -> BOOLEAN]
    /\ dotQ \in Seq(BOOLEAN) /\ dot \in BOOLEAN
    /\ starting \in Nat /\ asking \in Nat
    /\ pushes \in 0..MaxPush /\ opens \in 0..MaxOpen /\ appears \in 0..MaxAppear
    /\ unread \subseteq Users /\ late \subseteq Users
    /\ raced \in BOOLEAN

UnreadInit ==
    /\ unreadCount = [u \in Users |-> 0] /\ offlineDict = [u \in Users |-> 0]
    /\ release = FALSE /\ targetUser = None
    /\ at = [q \in Queues |-> "idle"]
    /\ opened = None /\ answer = [u \in Users |-> 0] /\ left = {}
    /\ has = [q \in Queues |-> FALSE] /\ dotQ = <<>> /\ dot = FALSE
    /\ starting = 0 /\ asking = 0
    /\ pushes = 0 /\ opens = 0 /\ appears = 0
    /\ unread = {} /\ late = {} /\ raced = FALSE

-----------------------------------------------------------------------------
(* Helpers                                                                 *)

(* getUnreadMsgCount                                                       *)
Count(u) == unreadCount[u] + offlineDict[u]

Marked == {u \in Users : Count(u) > 0}

(* hasUnreadMsg                                                            *)
HasUnread == Marked # {}

Goto(q, place) == at' = [at EXCEPT ![q] = place]

(* The closure of getOfflineMsgs has counted u and not stored its entry.   *)
Halfway(u) == at["net"] = "count" /\ answer[u] > 0 /\ u \notin left

(* A message is counted on q while the other queue is to put the dot out.  *)
Race(q) == raced' = (raced \/ \E p \in Queues \ {q} : at[p] = "post" /\ ~has[p])

-----------------------------------------------------------------------------
(* The keyboard appears and logs in                                        *)

(* viewDidAppear, with the tool bar of before or that of a new keyboard    *)
(* view; changes posted for an old bar are of no effect on a new one.      *)
Appear(new) ==
    /\ at["main"] = "idle" /\ appears < MaxAppear
    /\ appears' = appears + 1
    /\ starting' = starting + 1
    /\ IF new THEN dot' = FALSE /\ dotQ' = <<>> ELSE UNCHANGED bar
    /\ UNCHANGED <<dicts, release, targetUser, at, opened, reply, has, asking, pushes, opens,
                   unread, late, raced>>

(* login queues the clearing and goes on; it may end without an answer.    *)
Login ==
    /\ starting > 0
    /\ starting' = starting - 1 /\ asking' = asking + 1
    /\ release' = TRUE
    /\ UNCHANGED <<dicts, targetUser, at, opened, reply, has, bar, bounds, unread, late, raced>>

(* releaseHistory(except: nil), its block on writeQueue                    *)
ReleaseHistory ==
    /\ release
    /\ release' = FALSE
    /\ unreadCount' = [u \in Users |-> 0] /\ offlineDict' = [u \in Users |-> 0]
    /\ unread' = {}
    /\ late' = {u \in Users : Halfway(u)}
    /\ UNCHANGED <<targetUser, at, opened, reply, has, bar, logins, bounds, raced>>

-----------------------------------------------------------------------------
(* The answer to getOfflineMsgs, on the completion queue                   *)

(* An empty answer or a failure ends the closure at once.                  *)
OfflineArrived(msgs) ==
    /\ at["net"] = "idle" /\ asking > 0
    /\ asking' = asking - 1
    /\ answer' = msgs
    /\ left' = {u \in Users : msgs[u] > 0}
    /\ Goto("net", IF left' = {} THEN "idle" ELSE "count")
    /\ UNCHANGED <<dicts, release, targetUser, opened, has, bar, starting, bounds,
                   unread, late, raced>>

(* unreadAdd for one entry                                                 *)
CountOffline(u) ==
    /\ at["net"] = "count" /\ u \in left /\ ~release
    /\ left' = left \ {u}
    /\ unreadCount' = [unreadCount EXCEPT ![u] = @ + answer[u]]
    /\ unread' = unread \cup {u}
    /\ Race("net")
    /\ UNCHANGED <<offlineDict, release, targetUser, at, opened, answer, has, bar, logins,
                   bounds, late>>

(* Mutant: the answer is stored without a look at the red dot.             *)
StoreOfflineQuietly ==
    /\ at["net"] = "count" /\ left = {} /\ ~release
    /\ offlineDict' = answer
    /\ Goto("net", "idle")
    /\ Race("net")
    /\ UNCHANGED <<unreadCount, release, targetUser, opened, reply, has, bar, logins, bounds,
                   unread, late>>

(* setOfflineMsg replaces the dictionary.                                  *)
StoreOffline ==
    /\ at["net"] = "count" /\ left = {} /\ ~release
    /\ offlineDict' = answer
    /\ Goto("net", "look")
    /\ Race("net")
    /\ UNCHANGED <<unreadCount, release, targetUser, opened, reply, has, bar, logins, bounds,
                   unread, late>>

-----------------------------------------------------------------------------
(* Chats and messages, on the main queue                                   *)

(* setTarget up to confirmUnreadMsg                                        *)
SetTarget(u) ==
    /\ at["main"] = "idle" /\ opens < MaxOpen
    /\ opens' = opens + 1
    /\ targetUser' = u /\ opened' = u
    /\ Goto("main", "clear")
    /\ UNCHANGED <<dicts, release, reply, has, bar, logins, pushes, appears, unread, late, raced>>

RemoveTarget ==
    /\ at["main"] = "idle" /\ targetUser # None
    /\ targetUser' = None
    /\ UNCHANGED <<dicts, release, at, opened, reply, has, bar, logins, bounds, unread, late, raced>>

(* confirmUnreadMsg: the counter first; from here on the chat is read      *)
ClearCounter ==
    /\ at["main"] = "clear" /\ ~release
    /\ unreadCount' = [unreadCount EXCEPT ![opened] = 0]
    /\ unread' = unread \ {opened}
    /\ late' = IF Halfway(opened) THEN late \cup {opened} ELSE late \ {opened}
    /\ Goto("main", "fetch")
    /\ UNCHANGED <<offlineDict, release, targetUser, opened, reply, has, bar, logins, bounds, raced>>

FetchOffline ==
    /\ at["main"] = "fetch"
    /\ Goto("main", IF offlineDict[opened] > 0 THEN "drop" ELSE "look")
    /\ UNCHANGED <<dicts, release, targetUser, opened, reply, has, bar, logins, bounds,
                   unread, late, raced>>

(* Mutant: the counter is cleared with the entry, once more.               *)
DropBoth ==
    /\ at["main"] = "drop" /\ ~release
    /\ unreadCount' = [unreadCount EXCEPT ![opened] = 0]
    /\ offlineDict' = [offlineDict EXCEPT ![opened] = 0]
    /\ Goto("main", "look")
    /\ UNCHANGED <<release, targetUser, opened, reply, has, bar, logins, bounds,
                   unread, late, raced>>

(* Mutant: the entry is confirmed to the server and not dropped.           *)
DropNothing ==
    /\ at["main"] = "drop" /\ ~release
    /\ Goto("main", "look")
    /\ UNCHANGED <<dicts, release, targetUser, opened, reply, has, bar, logins, bounds,
                   unread, late, raced>>

(* confirmOfflineMsg, whose entry is acknowledged, changes nothing here.   *)
DropOffline ==
    /\ at["main"] = "drop" /\ ~release
    /\ offlineDict' = [offlineDict EXCEPT ![opened] = 0]
    /\ Goto("main", "look")
    /\ UNCHANGED <<unreadCount, release, targetUser, opened, reply, has, bar, logins, bounds,
                   unread, late, raced>>

(* newMsgArrived; known is what NetLayer.sessionUser finds: without it the *)
(* message of the open chat is counted too.  A message that is shown       *)
(* changes nothing here.                                                   *)
NewMsgArrived(u, known) ==
    /\ at["main"] = "idle" /\ ~release /\ pushes < MaxPush
    /\ u # targetUser \/ ~known
    /\ pushes' = pushes + 1
    /\ unreadCount' = [unreadCount EXCEPT ![u] = @ + 1]
    /\ unread' = unread \cup {u}
    /\ Race("main")
    /\ Goto("main", "look")
    /\ UNCHANGED <<offlineDict, release, targetUser, opened, reply, has, bar, logins, opens,
                   appears, late>>

-----------------------------------------------------------------------------
(* The red dot, on either queue                                            *)

Look(q) ==
    /\ at[q] = "look"
    /\ has' = [has EXCEPT ![q] = HasUnread]
    /\ Goto(q, "post")
    /\ UNCHANGED <<dicts, release, targetUser, opened, reply, bar, logins, bounds,
                   unread, late, raced>>

(* hasNewMsg or newMsgRead                                                 *)
PostDot(q) ==
    /\ at[q] = "post"
    /\ dotQ' = Append(dotQ, has[q])
    /\ Goto(q, "idle")
    /\ UNCHANGED <<dicts, release, targetUser, opened, reply, has, dot, logins, bounds,
                   unread, late, raced>>

RunDot ==
    /\ at["main"] = "idle" /\ dotQ # <<>>
    /\ dot' = Head(dotQ) /\ dotQ' = Tail(dotQ)
    /\ UNCHANGED <<dicts, release, targetUser, at, opened, reply, has, logins, bounds,
                   unread, late, raced>>

UnreadNext ==
    \/ \E new \in BOOLEAN : Appear(new)
    \/ Login
    \/ ReleaseHistory
    \/ \E msgs \in [Users -> 0..MaxOffline] : OfflineArrived(msgs)
    \/ StoreOffline
    \/ RemoveTarget
    \/ ClearCounter
    \/ FetchOffline
    \/ DropOffline
    \/ \E u \in Users : CountOffline(u) \/ SetTarget(u)
    \/ \E u \in Users, known \in BOOLEAN : NewMsgArrived(u, known)
    \/ \E q \in Queues : Look(q) \/ PostDot(q)
    \/ RunDot

UnreadSpec == UnreadInit /\ [][UnreadNext]_unreadVars

-----------------------------------------------------------------------------
(* Properties                                                              *)

(* The counters implement the promise of Inbox: whatever the queues        *)
(* interleave, a chat keeps its mark in the contact list                   *)
(* (getUnreadMsgCount) until confirmUnreadMsg begins to read it or a login *)
(* releases everything.                                                    *)
Promise == INSTANCE Inbox WITH marked <- Marked
KeepsPromise == Promise!Spec

(* A marked chat has a message counted since it was read.  Excepted are    *)
(* the chat whose offline entry confirmUnreadMsg is about to drop, and a   *)
(* chat read, or released, while the closure of getOfflineMsgs was between *)
(* counting and storing it: that one is marked although it was read.       *)
MarkIsEarned ==
    \A u \in Marked :
        \/ u \in unread \cup late
        \/ at["main"] \in {"fetch", "drop"} /\ u = opened

(* Once both queues rest and the posted changes ran, a chat with unread    *)
(* messages lights the red dot.  Excepted are the time until a login has   *)
(* cleared the counters for a new tool bar, and runs where a message was   *)
(* counted between hasUnreadMsg and newMsgRead on the other queue.         *)
DotShowsUnread ==
    (/\ \A q \in Queues : at[q] = "idle"
     /\ dotQ = <<>> /\ starting = 0 /\ ~release /\ ~raced)
    => (HasUnread => dot)
=============================================================================
