-------------------------------- MODULE Inbox --------------------------------
(***************************************************************************)
(* What the marks of the contact list promise: a chat with messages nobody *)
(* has read is marked, and stays marked until that chat is read or a login *)
(* forgets all marks.  A mark may stay, or come back, for a chat that was  *)
(* read.                                                                   *)
(***************************************************************************)
CONSTANTS Users

VARIABLES
    unread,  \* chats with a message counted since they were last read
    marked   \* chats the contact list marks

Init == unread = {} /\ marked = {}

Receive(u) == unread' = unread \cup {u} /\ marked' = marked \cup {u}

Read(u) == unread' = unread \ {u} /\ marked' \in {marked, marked \ {u}}

(* The marks of chats that were read may come and go.                      *)
Remark == unread \subseteq marked' /\ marked' \subseteq Users /\ UNCHANGED unread

Forget == unread' = {} /\ marked' = {}

Next ==
    \/ \E u \in Users : Receive(u) \/ Read(u)
    \/ Remark
    \/ Forget

Spec == Init /\ [][Next]_<<unread, marked>>
=============================================================================
