----------------------------- MODULE RecentList -----------------------------
(***************************************************************************)
(* The list of recent contacts of one platform (NetLayer.swift,            *)
(* ChatEngine.swift, the contact pages of app and keyboard).               *)
(*                                                                         *)
(* Each process keeps the list in a copy it read from the group's defaults *)
(* when it first needed it, and every change writes the list back whole.   *)
(* A change is a read, some work and a write, on one of several queues:    *)
(*   chat       ChatEngineQueue of the keyboard, serial                    *)
(*   completion answers in the keyboard, serial                            *)
(*   main       main queue of the keyboard (writes without reading)        *)
(*   removal    answers in the app, serial                                 *)
(*   pages      the global queue that merges the list of the contact page  *)
(* One access of the shared dictionary is one step: what a race of two     *)
(* accesses at the level of memory does is not modelled.  Groups are       *)
(* friends here, with one entry.                                           *)
(***************************************************************************)
EXTENDS Integers, Sequences, FiniteSets

CONSTANTS
    Friend,   \* contacts the server can know
    Small,    \* those whose row on the server has a number below 100
    Order,    \* the order in which the server lists its contacts
    NoOne,    \* no contact
    MaxEvents \* bound: events from the user, the friends and the server

(* A WhoopsUser as == tells it apart: the_id is the number of the row in   *)
(* the friend list, or the friend_id itself.                               *)
Entry == [friend : Friend, id : {"row", "own"}]
Row(f) == [friend |-> f, id |-> "row"]
Own(f) == [friend |-> f, id |-> "own"]

ASSUME FriendAssumption == Small \subseteq Friend /\ NoOne \notin Friend \cup Entry
ASSUME OrderAssumption  == Order \in Seq(Friend) /\ Friend = {Order[i] : i \in 1..Len(Order)}
ASSUME BoundAssumption  == MaxEvents \in Nat

VARIABLES
    friends,  \* the server's friend list
    disk,     \* kNetLayerRecentUserList in the defaults
    copy,     \* recent_userList_dic of each process
    loaded,   \* whether the process has made its copy
    target,   \* ChatEngine.targetUser
    waiting,  \* ChatEngine.waittingNewOne
    chatQ,    \* jobs on ChatEngineQueue
    doing,    \* the job each queue has begun, with the list it read
    finds,    \* getFriendList requests of showTheFuckingRedDotIfNeeded
    opens,    \* setTarget calls queued on the main queue
    view,     \* the keyboard's contact list
    page,     \* the app's contact page: globalAllContacts and its request
    events,   \* counter behind MaxEvents
    removed,  \* history: contacts that were removed and not added since
    accepted, \* history: contacts that were added by an invitation
    listed,   \* history: contacts a chat or a message put into the list
    causes    \* history: what has disturbed the list

store   == <<disk, copy, loaded>>
chat    == <<target, waiting, chatQ, finds, opens, view>>
seen    == <<removed, accepted, listed>>
history == <<events, seen>>
vars    == <<friends, store, chat, doing, page, history, causes>>

Process == {"keyboard", "app"}
Queue   == {"chat", "completion", "removal", "pages"}
Job     == [op : {"most"}, entry : Entry] \cup [op : {"look"}, entry : Friend]
Work    == [op : {"none", "most", "look", "merge", "remove"},
            entry : Entry \cup Friend \cup {NoOne}, list : Seq(Entry), with : SUBSET Friend]
Idle    == [op |-> "none", entry |-> NoOne, list |-> <<>>, with |-> {}]
Closed  == [open |-> FALSE, recent |-> <<>>, asked |-> FALSE, merge |-> FALSE, with |-> {}]
NoPage  == [asked |-> FALSE, merge |-> FALSE, contacts |-> {}]
Causes  == {"overtaken", \* a list was written over one it was not made from
            "stale",     \* a process wrote although the other had written
            "old",       \* a contact page had not all of the server's contacts, or more
            "page",      \* a contact page put the list in its own order
            "offline",   \* offline messages of the chat that is open
            "late",      \* the contact was removed, or added, since the change began
            "killed"}    \* the app ended between the removal and its write

TypeOK ==
    /\ friends \subseteq Friend
    /\ disk \in Seq(Entry) /\ copy \in [Process -> Seq(Entry)] /\ loaded \in [Process -> BOOLEAN]
    /\ target \in Entry \cup {NoOne} /\ waiting \in BOOLEAN
    /\ chatQ \in Seq(Job) /\ opens \in Seq(Entry) /\ doing \in [Queue -> Work]
    /\ finds \subseteq [friend : Friend, list : Seq(Entry)]
    /\ view \in [open : BOOLEAN, recent : Seq(Entry), asked : BOOLEAN, merge : BOOLEAN,
                 with : SUBSET Friend]
    /\ page \in [asked : BOOLEAN, merge : BOOLEAN, contacts : SUBSET Friend]
    /\ events \in 0..MaxEvents
    /\ removed \subseteq Friend /\ accepted \subseteq Friend /\ listed \subseteq Friend
    /\ causes \subseteq Causes

Init ==
    /\ friends \in SUBSET Friend
    /\ disk = <<>> /\ copy = [p \in Process |-> <<>>] /\ loaded = [p \in Process |-> FALSE]
    /\ target = NoOne /\ waiting = FALSE /\ chatQ = <<>> /\ finds = {} /\ opens = <<>>
    /\ doing = [q \in Queue |-> Idle] /\ view = Closed /\ page = NoPage
    /\ events = 0 /\ removed = {} /\ accepted = {} /\ listed = {} /\ causes = {}

-----------------------------------------------------------------------------
(* Lists                                                                   *)

Names(list) == {list[i].friend : i \in 1..Len(list)}
Entries(list) == {list[i] : i \in 1..Len(list)}

At(list, e) == {i \in 1..Len(list) : list[i] = e}
Of(list, f) == {i \in 1..Len(list) : list[i].friend = f}

(* firstIndex                                                              *)
Least(places) == CHOOSE i \in places : \A j \in places : i <= j

(* list.remove(at: firstIndex), if there is one                            *)
Without(list, places) ==
    IF places = {} THEN list
    ELSE SubSeq(list, 1, Least(places) - 1) \o SubSeq(list, Least(places) + 1, Len(list))

First(list, e)  == <<e>> \o list
Second(list, e) == IF list = <<>> THEN <<e>> ELSE <<list[1], e>> \o Tail(list)

(* Mutant: the contact is put behind the first.                            *)
MostRecentSecond(list, e) == Second(Without(list, At(list, e)), e)

(* setMostRecentUser, but for the read and the write                       *)
MostRecent(list, e) == First(Without(list, At(list, e)), e)

(* Mutant: the contact is looked up and not put into the list.             *)
PlaceNowhere(list, e) == list

(* A contact the red dot is about goes to the front, or behind the contact *)
(* whose chat is open.                                                     *)
Place(list, e) == IF target = NoOne THEN First(list, e) ELSE Second(list, e)

(* Mutant: nothing is left out.                                            *)
UniqueNot(list) == list

(* What a list has at some places, in order: the k-th is at that of rank k *)
Rank(places, i) == Cardinality({j \in places : j <= i})
Chosen(list, places) ==
    [k \in 1..Cardinality(places) |-> list[CHOOSE i \in places : Rank(places, i) = k]]

(* Array.unique                                                            *)
Unique(list) ==
    Chosen(list, {i \in 1..Len(list) : \A j \in 1..(i - 1) : list[j] # list[i]})

(* Both pages: known contacts in the list's order, then all contacts.      *)
Merged(list, contacts) ==
    LET all    == [i \in 1..Len(Order) |-> Row(Order[i])]
        Cur(l) == Chosen(l, {i \in 1..Len(l) : l[i] \in {Row(f) : f \in contacts}})
    IN  Unique(Cur(list) \o Cur(all))

(* codedString and whoopsUserList: the number of a row below 100 comes     *)
(* back as the friend's own.                                               *)
CodedEntry(e) == IF e.friend \in Small THEN Own(e.friend) ELSE e
Coded(list)   == [i \in 1..Len(list) |-> CodedEntry(list[i])]

-----------------------------------------------------------------------------
(* The shared list                                                         *)

List(p) == IF loaded[p] THEN copy[p] ELSE disk

If(cause, condition) == {c \in {cause} : condition}

(* setRecentUser in p of a list made from the list base                    *)
Write(p, base, list, more) ==
    /\ disk' = Coded(list)
    /\ copy' = [copy EXCEPT ![p] = Coded(list)]
    /\ loaded' = [loaded EXCEPT ![p] = TRUE]
    /\ causes' = causes \cup more \cup If("overtaken", base # List(p))
                        \cup If("stale", List(p) # disk)

Lists(f) == listed' = listed \cup ({f} \cap friends)

Load(p) ==
    /\ copy' = [copy EXCEPT ![p] = List(p)]
    /\ loaded' = [loaded EXCEPT ![p] = TRUE]
    /\ UNCHANGED disk

Free(q)  == doing[q] = Idle
Begin(q, p, op, entry, with) ==
    /\ doing' = [doing EXCEPT ![q] = [op |-> op, entry |-> entry, list |-> List(p), with |-> with]]
    /\ Load(p)
End(q)   == doing' = [doing EXCEPT ![q] = Idle]
Event    == events < MaxEvents /\ events' = events + 1

-----------------------------------------------------------------------------
(* The keyboard's main queue                                               *)

(* setTarget                                                               *)
SetTarget(e) ==
    /\ target' = e /\ waiting' = FALSE
    /\ chatQ' = Append(chatQ, [op |-> "most", entry |-> e])

(* The contact list opens with the recent contacts and asks for all.       *)
OpenView ==
    /\ ~view.open /\ Event
    /\ view' = [Closed EXCEPT !.open = TRUE, !.recent = List("keyboard"), !.asked = TRUE]
    /\ Load("keyboard")
    /\ UNCHANGED <<friends, target, waiting, chatQ, finds, opens, doing, page, seen, causes>>

(* The list is dismissed and the chat opened.  The answers to its requests *)
(* are dropped with it (weak self): that one may be merged while it is on  *)
(* its way out is left out.                                                *)
Tap(e) ==
    /\ view.open /\ e \in Entries(view.recent) /\ Event
    /\ SetTarget(e) /\ view' = Closed
    /\ UNCHANGED <<friends, store, finds, opens, doing, page, seen, causes>>

(* The requests are answered; a request that failed leaves no contacts.    *)
ContactsArrived ==
    /\ view.asked
    /\ \E contacts \in {friends, {}} :
          view' = [view EXCEPT !.asked = FALSE, !.merge = TRUE, !.with = contacts]
    /\ UNCHANGED <<friends, store, target, waiting, chatQ, finds, opens, doing, page, history, causes>>

(* group.notify: the list that the view read when it opened is merged and  *)
(* written.                                                                *)
MergeView ==
    LET new == Merged(view.recent, view.with) IN
    /\ view.merge
    /\ Write("keyboard", view.recent, new, {"page"} \cup If("old", view.with # friends))
    /\ view' = [view EXCEPT !.merge = FALSE, !.recent = new, !.with = {}]
    /\ UNCHANGED <<friends, target, waiting, chatQ, finds, opens, doing, page, history>>

(* An invitation is sent while no chat is open.                            *)
Invite ==
    /\ target = NoOne /\ ~waiting /\ Event
    /\ waiting' = TRUE
    /\ UNCHANGED <<friends, store, target, chatQ, finds, opens, view, doing, page, seen, causes>>

RunOpen ==
    /\ opens # <<>>
    /\ SetTarget(Head(opens)) /\ opens' = Tail(opens)
    /\ UNCHANGED <<friends, store, finds, view, doing, page, history, causes>>

RemoveTarget ==
    /\ target # NoOne
    /\ target' = NoOne
    /\ UNCHANGED <<friends, store, waiting, chatQ, finds, opens, view, doing, page, history, causes>>

-----------------------------------------------------------------------------
(* Messages                                                                *)

(* newMsgArrived for a chat that is not open, or the newest of the offline *)
(* messages of any chat                                                    *)
MessageArrived(f) ==
    /\ f \in friends /\ Event
    /\ chatQ' = Append(chatQ, [op |-> "look", entry |-> f])
    /\ UNCHANGED <<friends, store, target, waiting, finds, opens, view, doing, page, seen, causes>>

BeginJob ==
    /\ chatQ # <<>> /\ Free("chat")
    /\ Begin("chat", "keyboard", Head(chatQ).op, Head(chatQ).entry, {})
    /\ chatQ' = Tail(chatQ)
    /\ UNCHANGED <<friends, target, waiting, finds, opens, view, page, history, causes>>

(* setMostRecentUser                                                       *)
EndMost ==
    LET job == doing["chat"] IN
    /\ job.op = "most"
    /\ Write("keyboard", job.list, MostRecent(job.list, job.entry),
             If("late", job.entry.friend \notin friends))
    /\ Lists(job.entry.friend)
    /\ End("chat")
    /\ UNCHANGED <<friends, chat, page, events, removed, accepted>>

Jobs == {chatQ[i] : i \in 1..Len(chatQ)}

(* The contact is in the list, or is looked for on the server.             *)
EndLook ==
    LET job   == doing["chat"]
        found == Of(job.list, job.entry)
    IN
    /\ job.op = "look"
    /\ IF found # {}
       THEN /\ Write("keyboard", job.list, Place(Without(job.list, found), job.list[Least(found)]),
                     If("offline", /\ target # NoOne /\ target.friend = job.entry
                                   /\ [op |-> "most", entry |-> target] \notin Jobs))
            /\ UNCHANGED finds
       ELSE /\ finds' = finds \cup {[friend |-> job.entry, list |-> job.list]}
            /\ UNCHANGED <<store, causes>>
    /\ End("chat")
    /\ UNCHANGED <<friends, target, waiting, chatQ, opens, view, page, history>>

(* The answer opens the chat of an invited friend, or adds the friend to   *)
(* the list that was read before the request.                              *)
FriendFound(r) ==
    LET e == Row(r.friend) IN
    /\ r \in finds /\ Free("completion")
    /\ r.friend \in friends
    /\ finds' = finds \ {r}
    /\ IF target = NoOne /\ waiting
       THEN opens' = Append(opens, e) /\ UNCHANGED <<store, listed, causes>>
       ELSE /\ Write("keyboard", r.list, Place(r.list, e), {})
            /\ Lists(r.friend)
            /\ UNCHANGED opens
    /\ UNCHANGED <<friends, target, waiting, chatQ, view, doing, page, events, removed, accepted>>

(* The request failed, or the sender is not a friend any more.             *)
FriendNotFound(r) ==
    /\ r \in finds /\ Free("completion")
    /\ finds' = finds \ {r}
    /\ UNCHANGED <<friends, store, target, waiting, chatQ, opens, view, doing, page, history, causes>>

(* acceptInvite: the server has a new friend, with an entry of the         *)
(* friend's own number; then its chat is opened.                           *)
Accept(f) ==
    /\ f \notin friends /\ Event /\ Free("completion")
    /\ friends' = friends \cup {f}
    /\ removed' = removed \ {f} /\ accepted' = accepted \cup {f}
    /\ Begin("completion", "keyboard", "most", Own(f), {})
    /\ UNCHANGED <<chat, page, listed, causes>>

EndAccept ==
    LET job == doing["completion"] IN
    /\ job.op = "most"
    /\ Write("keyboard", job.list, MostRecent(job.list, job.entry),
             If("late", job.entry.friend \notin friends))
    /\ End("completion")
    /\ Lists(job.entry.friend)
    /\ opens' = Append(opens, job.entry)
    /\ UNCHANGED <<friends, target, waiting, chatQ, finds, view, page, events, removed, accepted>>

-----------------------------------------------------------------------------
(* The app                                                                 *)

LoadContacts ==
    /\ ~page.asked /\ ~page.merge /\ Event
    /\ page' = [page EXCEPT !.asked = TRUE]
    /\ UNCHANGED <<friends, store, chat, doing, seen, causes>>

(* A request that failed leaves the contacts of the page as they are.      *)
PageArrived ==
    /\ page.asked
    /\ \E contacts \in {friends, page.contacts} :
          page' = [asked |-> FALSE, merge |-> TRUE, contacts |-> contacts]
    /\ UNCHANGED <<friends, store, chat, doing, history, causes>>

BeginMerge ==
    /\ page.merge /\ Free("pages")
    /\ Begin("pages", "app", "merge", NoOne, page.contacts)
    /\ page' = [page EXCEPT !.merge = FALSE]
    /\ UNCHANGED <<friends, chat, history, causes>>

EndMerge ==
    LET job == doing["pages"] IN
    /\ job.op = "merge"
    /\ Write("app", job.list, Merged(job.list, job.with),
             {"page"} \cup If("old", job.with # friends))
    /\ End("pages")
    /\ UNCHANGED <<friends, chat, page, history>>

(* deleteContact, setBlackList: the server has removed f.                  *)
Remove(f) ==
    /\ f \in friends /\ Event /\ Free("removal")
    /\ friends' = friends \ {f} /\ removed' = removed \cup {f}
    /\ Begin("removal", "app", "remove", Row(f), {})
    /\ listed' = listed \ {f}
    /\ UNCHANGED <<chat, page, accepted, causes>>

(* Mutant: the contact stays in the list.                                  *)
RemoveNothing ==
    /\ doing["removal"].op = "remove"
    /\ End("removal")
    /\ page' = [page EXCEPT !.contacts = @ \ {doing["removal"].entry.friend}]
    /\ UNCHANGED <<friends, store, chat, history, causes>>

EndRemove ==
    LET job == doing["removal"] IN
    /\ job.op = "remove"
    /\ IF job.entry \in Entries(job.list)
       THEN Write("app", job.list, Without(job.list, At(job.list, job.entry)),
                  If("late", job.entry.friend \in friends))
       ELSE UNCHANGED store /\ causes' = causes \cup If("stale", List("app") # disk)
    /\ End("removal")
    /\ page' = [page EXCEPT !.contacts = @ \ {job.entry.friend}]
    /\ UNCHANGED <<friends, chat, history>>

(* An expired session, a logout or revoked keys empty the list.            *)
Clear ==
    /\ disk # <<>> /\ Event
    /\ Write("app", List("app"), <<>>, {})
    /\ listed' = {}
    /\ UNCHANGED <<friends, chat, doing, page, removed, accepted>>

-----------------------------------------------------------------------------
(* A process ends                                                          *)

KillKeyboard ==
    /\ loaded["keyboard"]
    /\ loaded' = [loaded EXCEPT !["keyboard"] = FALSE] /\ copy' = [copy EXCEPT !["keyboard"] = <<>>]
    /\ target' = NoOne /\ waiting' = FALSE /\ chatQ' = <<>> /\ finds' = {} /\ opens' = <<>>
    /\ view' = Closed
    /\ doing' = [doing EXCEPT !["chat"] = Idle, !["completion"] = Idle]
    /\ UNCHANGED <<friends, disk, page, history, causes>>

KillApp ==
    /\ loaded["app"]
    /\ loaded' = [loaded EXCEPT !["app"] = FALSE] /\ copy' = [copy EXCEPT !["app"] = <<>>]
    /\ doing' = [doing EXCEPT !["removal"] = Idle, !["pages"] = Idle]
    /\ page' = NoPage
    /\ causes' = causes \cup If("killed", ~Free("removal"))
    /\ UNCHANGED <<friends, disk, chat, history>>

-----------------------------------------------------------------------------
MainStep == OpenView \/ (\E e \in Entry : Tap(e)) \/ MergeView \/ Invite \/ RunOpen \/ RemoveTarget
ChatStep == BeginJob \/ EndMost \/ EndLook
AnswerStep == ContactsArrived \/ EndAccept \/ \E r \in finds : FriendFound(r) \/ FriendNotFound(r)
FriendStep == \E f \in Friend : MessageArrived(f) \/ Accept(f)
AppStep == LoadContacts \/ PageArrived \/ BeginMerge \/ EndMerge \/ EndRemove \/ Clear
           \/ \E f \in Friend : Remove(f)
Kill == KillKeyboard \/ KillApp

Next == MainStep \/ ChatStep \/ AnswerStep \/ FriendStep \/ AppStep \/ Kill

Spec == Init /\ [][Next]_vars

-----------------------------------------------------------------------------
(* Properties                                                              *)

AtRest ==
    /\ \A q \in Queue : Free(q)
    /\ chatQ = <<>> /\ finds = {} /\ opens = <<>> /\ ~page.merge /\ ~view.merge

(* The contact whose chat is open is the first of the list the keyboard    *)
(* has, by which viewDidAppear (KeyboardViewController.swift:755) opens    *)
(* the chat again, unless a list was written over a newer one, a contact   *)
(* page put it in its order or offline messages came for that chat.        *)
OpenChatIsFirst ==
    AtRest /\ target # NoOne /\ causes \cap {"overtaken", "page", "offline"} = {}
        => SubSeq(copy["keyboard"], 1, 1) = Coded(<<target>>)

(* No contact is twice in a list, but for one that came by an invitation   *)
(* or has a small number, whose entries == does not find equal.            *)
NoTwins ==
    \A list \in {disk, copy["keyboard"], copy["app"]} : \A i, j \in 1..Len(list) :
        list[i].friend = list[j].friend => i = j \/ list[i].friend \in accepted \cup Small

(* A contact that came into the list by its chat or its message stays in   *)
(* it, unless a list was written over a newer one or without the other     *)
(* process's changes, or the contacts were not to be had.                  *)
ListedStays ==
    AtRest /\ causes \cap {"overtaken", "stale", "old", "late"} = {}
        => listed \subseteq Names(disk)

(* A contact removed in the app is gone from the list, unless it is in it  *)
(* under another number or one of the two races brought it back.           *)
RemovedIsGone ==
    AtRest /\ causes \cap {"overtaken", "stale", "old", "late", "killed"} = {}
        => removed \cap Names(disk) \subseteq accepted \cup Small

=============================================================================
