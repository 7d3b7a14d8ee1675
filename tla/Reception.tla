----------------------------- MODULE Reception -----------------------------
(***************************************************************************)
(* What SocketLayer.swift does with the bytes it reads, once logged in:    *)
(* one read is taken for one frame, and a frame is the answer to a login,  *)
(* a heartbeat or a message, or a message pushed by the server.  The       *)
(* socket keeps a queue of reads that were asked for, each with a tag: the *)
(* end of a write asks for one with the tag of what was written, the end   *)
(* of a read for one with none.  The answer to a message is reported under *)
(* the tag of the read that got it.                                        *)
(*                                                                         *)
(* GCDAsyncSocket and the server are modelled from the outside: writes are *)
(* sent and answered in their order, a read takes any bytes that are       *)
(* there.  A frame has two parts, so that a read may end inside it.  The   *)
(* way to a login is the subject of SocketLayer; here every login is       *)
(* granted.                                                                *)
(***************************************************************************)
EXTENDS Integers, Sequences, SequencesExt, FiniteSets

CONSTANTS
    Message,  \* the messages the user sends
    MaxPush,  \* bound: messages pushed by the server
    MaxBeat,  \* bound: ticks of the heartbeat timer
    MaxBreak  \* bound: connections lost

ASSUME MessageAssumption == Message \cap {"none", "login", "beat"} = {}
ASSUME BoundsAssumption  == MaxPush \in Nat /\ MaxBeat \in Nat /\ MaxBreak \in Nat

VARIABLES
    started, \* the socket is connected or connecting
    session, \* SocketLayer.session # nil
    writes,  \* the tags of the writes not begun
    asked,   \* what the server has not answered
    wire,    \* the parts of frames not yet read
    reads,   \* the tags of the reads outstanding
    main,    \* the main queue
    decrypt, \* processQueue
    marks,   \* states of sent messages, shown 20 ms later
    shown,   \* how each sent message is shown
    arrived, \* the pushed messages that newMsgArrived got
    pushed,  \* how many were pushed
    beats,   \* ticks of the timer
    breaks,  \* connections lost
    taken,   \* the messages that the server accepted
    dropped, \* frames some part of which was dropped, or lost with the connection
    causes,  \* what may have gone wrong so far
    dead     \* the program has ended

line    == <<writes, asked, wire, reads>>
bounds  == <<pushed, beats, breaks>>
history == <<taken, dropped, causes>>
vars    == <<started, session, line, main, decrypt, marks, shown, arrived, bounds, history, dead>>

Tag   == Message \cup {"none", "login", "beat"}
Kind  == {"login", "beat", "accepted", "refused"} \* and what is pushed
Parts == {"head", "rest"}

Causes == {"offline", \* a message was sent without a session
           "shifted", \* an answer came with a read of something else
           "broken"}  \* the connection was lost

Frame(kind, tag) == [kind |-> kind, tag |-> tag, of |-> 0]
Pushed(k)        == [kind |-> "push", tag |-> "none", of |-> k]

FrameType == [kind : Kind, tag : Tag, of : {0}] \cup {Pushed(k) : k \in 1..MaxPush}
PartType  == [frame : FrameType, part : Parts]
BlockType == [op : {"wrote", "read", "lost", "show", "status"}, tag : Tag,
              data : Seq(PartType), sent : BOOLEAN, of : {0}]
             \cup [op : {"message"}, tag : {"none"}, data : {<<>>}, sent : {TRUE}, of : 1..MaxPush]
MarkType  == [tag : Message, sent : BOOLEAN]

TypeOK ==
    /\ started \in BOOLEAN /\ session \in BOOLEAN /\ dead \in BOOLEAN
    /\ writes \in Seq(Tag) /\ asked \in Seq(Tag) /\ reads \in Seq(Tag)
    /\ wire \in Seq(PartType) /\ main \in Seq(BlockType)
    /\ marks \in Seq(MarkType)
    /\ shown \in [Message -> {"no", "delivered", "failed"}]
    /\ decrypt \in Seq(1..MaxPush) /\ arrived \in Seq(1..MaxPush)
    /\ pushed \in 0..MaxPush /\ beats \in 0..MaxBeat /\ breaks \in 0..MaxBreak
    /\ taken \subseteq Message /\ dropped \subseteq FrameType
    /\ causes \subseteq Causes

Init ==
    /\ started = TRUE /\ session = FALSE /\ dead = FALSE
    /\ writes = <<"login">> /\ asked = <<>> /\ wire = <<>> /\ reads = <<>>
    /\ main = <<>> /\ decrypt = <<>> /\ marks = <<>>
    /\ shown = [m \in Message |-> "no"] /\ arrived = <<>>
    /\ pushed = 0 /\ beats = 0 /\ breaks = 0
    /\ taken = {} /\ dropped = {} /\ causes = {}

-----------------------------------------------------------------------------
(* Helpers                                                                 *)

Block(op, tag)   == [op |-> op, tag |-> tag, data |-> <<>>, sent |-> TRUE, of |-> 0]
Post(b)          == main' = Append(main, b)
Bytes(f)         == <<[frame |-> f, part |-> "head"], [frame |-> f, part |-> "rest"]>>
Whole(data)      == \E f \in {data[i].frame : i \in DOMAIN data} : data = Bytes(f)

(* msgSentStatus                                                           *)
Mark(tag, sent) == IF tag \in Message THEN Append(marks, [tag |-> tag, sent |-> sent]) ELSE marks

(* readData and write on a socket that is not connected do nothing.        *)
ReadWith(tag) == reads' = IF started THEN Append(reads, tag) ELSE reads
Write(tag)    == writes' = IF started THEN Append(writes, tag) ELSE writes

-----------------------------------------------------------------------------
(* The socket and the server                                               *)

Transmit ==
    /\ writes # <<>>
    /\ writes' = Tail(writes) /\ asked' = Append(asked, Head(writes))
    /\ Post(Block("wrote", Head(writes)))
    /\ UNCHANGED <<started, session, wire, reads, decrypt, marks, shown, arrived, bounds,
                   history, dead>>

Answer ==
    /\ asked # <<>>
    /\ asked' = Tail(asked)
    /\ LET t == Head(asked) IN
       \/ /\ t \in {"login", "beat"}
          /\ wire' = wire \o Bytes(Frame(t, t)) /\ UNCHANGED taken
       \/ /\ t \in Message
          /\ wire' = wire \o Bytes(Frame("accepted", t)) /\ taken' = taken \cup {t}
       \/ /\ t \in Message
          /\ wire' = wire \o Bytes(Frame("refused", t)) /\ UNCHANGED taken
    /\ UNCHANGED <<started, session, writes, reads, main, decrypt, marks, shown, arrived,
                   bounds, dropped, causes, dead>>

(* The server knows the session before the keyboard does.                  *)
Push ==
    /\ pushed < MaxPush /\ started
    /\ session \/ \E i \in DOMAIN wire : wire[i].frame.kind = "login"
    /\ pushed' = pushed + 1
    /\ wire' = wire \o Bytes(Pushed(pushed'))
    /\ UNCHANGED <<started, session, writes, asked, reads, main, decrypt, marks, shown,
                   arrived, beats, breaks, history, dead>>

(* A read ends with as much as has arrived.                                *)
Read ==
    /\ reads # <<>> /\ wire # <<>>
    /\ \E n \in 1..Len(wire) :
        /\ Post([Block("read", Head(reads)) EXCEPT !.data = SubSeq(wire, 1, n)])
        /\ wire' = SubSeq(wire, n + 1, Len(wire))
    /\ reads' = Tail(reads)
    /\ UNCHANGED <<started, session, writes, asked, decrypt, marks, shown, arrived, bounds,
                   history, dead>>

Break ==
    /\ started /\ breaks < MaxBreak
    /\ breaks' = breaks + 1
    /\ started' = FALSE /\ causes' = causes \cup {"broken"}
    /\ dropped' = dropped \cup {wire[i].frame : i \in DOMAIN wire}
    /\ writes' = <<>> /\ asked' = <<>> /\ wire' = <<>> /\ reads' = <<>>
    /\ Post(Block("lost", "none"))
    /\ UNCHANGED <<session, decrypt, marks, shown, arrived, pushed, beats, taken, dead>>

-----------------------------------------------------------------------------
(* The delegate, on the main queue                                         *)

Begin(op) == ~dead /\ main # <<>> /\ Head(main).op = op

(* didWriteDataWithTag                                                     *)
DidWrite ==
    /\ Begin("wrote") /\ main' = Tail(main)
    /\ marks' = Mark(Head(main).tag, TRUE)
    /\ ReadWith(Head(main).tag)
    /\ UNCHANGED <<started, session, writes, asked, wire, decrypt, shown, arrived, bounds,
                   history, dead>>

(* Mutant: a read that is no frame is not followed by another.             *)
DropOnly ==
    /\ Begin("read") /\ ~Whole(Head(main).data) /\ main' = Tail(main)
    /\ dropped' = dropped \cup {Head(main).data[i].frame : i \in DOMAIN Head(main).data}
    /\ UNCHANGED <<started, session, line, decrypt, marks, shown, arrived, bounds,
                   taken, causes, dead>>

(* didRead: anything but one frame is dropped.                             *)
DropRead ==
    /\ Begin("read") /\ ~Whole(Head(main).data) /\ main' = Tail(main)
    /\ dropped' = dropped \cup {Head(main).data[i].frame : i \in DOMAIN Head(main).data}
    /\ ReadWith("none")
    /\ UNCHANGED <<started, session, writes, asked, wire, decrypt, marks, shown, arrived,
                   bounds, taken, causes, dead>>

(* With less than twelve bytes there is no header to be cut out.           *)
ReadTrap ==
    /\ Begin("read") /\ Len(Head(main).data) = 1
    /\ dead' = TRUE
    /\ UNCHANGED <<started, session, line, main, decrypt, marks, shown, arrived, bounds, history>>

Received(kinds) ==
    /\ Begin("read") /\ Whole(Head(main).data)
    /\ Head(main).data[1].frame.kind \in kinds
    /\ ReadWith("none")

LoginResponse ==
    /\ Received({"login"}) /\ main' = Tail(main)
    /\ session' = TRUE /\ Write("beat")
    /\ UNCHANGED <<started, asked, wire, decrypt, marks, shown, arrived, bounds, history, dead>>

KeepaliveResponse ==
    /\ Received({"beat"}) /\ main' = Tail(main)
    /\ UNCHANGED <<started, session, writes, asked, wire, decrypt, marks, shown, arrived,
                   bounds, history, dead>>

(* The answer is reported for the tag of the read.                         *)
MessageResponse ==
    LET b == Head(main)
        f == b.data[1].frame
    IN
    /\ Received({"accepted", "refused"})
    /\ main' = Append(Tail(main), [Block("status", b.tag) EXCEPT !.sent = (f.kind = "accepted")])
    /\ causes' = causes \cup {c \in {"shifted"} : b.tag # f.tag}
    /\ UNCHANGED <<started, session, writes, asked, wire, decrypt, marks, shown, arrived,
                   bounds, taken, dropped, dead>>

(* Mutant: the message is not queued behind those being decrypted.         *)
PushAtOnce ==
    /\ Received({"push"})
    /\ \/ /\ main' = Tail(main) /\ decrypt' = Append(decrypt, Head(main).data[1].frame.of)
       \/ /\ main' = Append(Tail(main), [Block("message", "none") EXCEPT !.of = Head(main).data[1].frame.of])
          /\ UNCHANGED decrypt
    /\ UNCHANGED <<started, session, writes, asked, wire, marks, shown, arrived, bounds,
                   history, dead>>

(* Mutant: one message is decrypted at a time, and the others go.          *)
PushLast ==
    /\ Received({"push"}) /\ main' = Tail(main)
    /\ decrypt' = <<Head(main).data[1].frame.of>>
    /\ UNCHANGED <<started, session, writes, asked, wire, marks, shown, arrived, bounds,
                   history, dead>>

MessageRequest ==
    /\ Received({"push"}) /\ main' = Tail(main)
    /\ decrypt' = Append(decrypt, Head(main).data[1].frame.of)
    /\ UNCHANGED <<started, session, writes, asked, wire, marks, shown, arrived, bounds,
                   history, dead>>

(* processQueue.async                                                      *)
Decrypt ==
    /\ decrypt # <<>> /\ ~dead
    /\ decrypt' = Tail(decrypt)
    /\ Post([Block("message", "none") EXCEPT !.of = Head(decrypt)])
    /\ UNCHANGED <<started, session, line, marks, shown, arrived, bounds, history, dead>>

NewMsgArrived ==
    /\ Begin("message") /\ main' = Tail(main)
    /\ arrived' = Append(arrived, Head(main).of)
    /\ UNCHANGED <<started, session, line, decrypt, marks, shown, bounds, history, dead>>

(* Mutant: there is no new login.                                          *)
LoseOnly ==
    /\ Begin("lost") /\ main' = Tail(main)
    /\ session' = FALSE /\ started' = TRUE
    /\ UNCHANGED <<line, decrypt, marks, shown, arrived, bounds, history, dead>>

(* socketDidDisconnect: connect and log in again                           *)
DidDisconnect ==
    /\ Begin("lost") /\ main' = Tail(main)
    /\ session' = FALSE /\ started' = TRUE /\ writes' = <<"login">>
    /\ UNCHANGED <<asked, wire, reads, decrypt, marks, shown, arrived, bounds, history, dead>>

-----------------------------------------------------------------------------
(* Sending, and how a sent message is shown                                *)

(* sendMessage: its callback shows the message, with a session or without. *)
SendMessage(msg) ==
    /\ ~dead /\ shown[msg] = "no"
    /\ \A i \in DOMAIN main : main[i].op # "show" \/ main[i].tag # msg
    /\ Post(Block("show", msg))
    /\ IF session THEN Write(msg) ELSE UNCHANGED writes
    /\ causes' = causes \cup {c \in {"offline"} : ~(session /\ started)}
    /\ UNCHANGED <<started, session, asked, wire, reads, decrypt, marks, shown, arrived,
                   bounds, taken, dropped, dead>>

DisplayMsg ==
    /\ Begin("show") /\ main' = Tail(main)
    /\ shown' = [shown EXCEPT ![Head(main).tag] = "delivered"]
    /\ UNCHANGED <<started, session, line, decrypt, marks, arrived, bounds, history, dead>>

HeartBeat ==
    /\ ~dead /\ session /\ beats < MaxBeat
    /\ beats' = beats + 1 /\ Write("beat")
    /\ UNCHANGED <<started, session, asked, wire, reads, main, decrypt, marks, shown, arrived,
                   pushed, breaks, history, dead>>

MsgSentStatus ==
    /\ Begin("status") /\ main' = Tail(main)
    /\ marks' = Mark(Head(main).tag, Head(main).sent)
    /\ UNCHANGED <<started, session, line, decrypt, shown, arrived, bounds, history, dead>>

(* Mutant: a message that failed stays so.                                 *)
ConfirmOnly ==
    /\ marks # <<>> /\ ~dead /\ marks' = Tail(marks)
    /\ shown' = [shown EXCEPT ![Head(marks).tag] = "delivered"]
    /\ UNCHANGED <<started, session, line, main, decrypt, arrived, bounds, history, dead>>

(* confirmMsgSent, failedMsgSent: of a message in the list                 *)
ShowStatus ==
    LET k == Head(marks) IN
    /\ marks # <<>> /\ ~dead /\ marks' = Tail(marks)
    /\ shown' = [shown EXCEPT ![k.tag] =
                    IF @ = "no" THEN @ ELSE IF k.sent THEN "delivered" ELSE "failed"]
    /\ UNCHANGED <<started, session, line, main, decrypt, arrived, bounds, history, dead>>

-----------------------------------------------------------------------------
Socket   == Transmit \/ Answer \/ Read
Delegate == \/ DidWrite \/ DropRead \/ ReadTrap \/ LoginResponse \/ KeepaliveResponse
            \/ MessageResponse \/ MessageRequest \/ Decrypt \/ NewMsgArrived
            \/ DidDisconnect \/ DisplayMsg \/ MsgSentStatus \/ ShowStatus

Next ==
    \/ Socket \/ Delegate \/ Push \/ Break \/ HeartBeat
    \/ \E msg \in Message : SendMessage(msg)

Spec == Init /\ [][Next]_vars

(* The socket, the server and the two queues go on.                        *)
Fairness == WF_vars(Transmit) /\ WF_vars(Answer) /\ WF_vars(Read) /\ WF_vars(Delegate)

LiveSpec == Spec /\ Fairness

-----------------------------------------------------------------------------
(* Properties                                                              *)

Quiet ==
    /\ ~dead /\ writes = <<>> /\ asked = <<>> /\ wire = <<>> /\ main = <<>> /\ decrypt = <<>>
    /\ marks = <<>>

(* A connection never falls silent: while one is open something is to be   *)
(* written or read, or a delegate call is due that asks for the next read; *)
(* when none is, the call that opens the next one is due.  Every path      *)
(* through the delegate calls, the early return as well, must ask again.   *)
Listening ==
    IF started
    THEN writes # <<>> \/ reads # <<>> \/ \E i \in DOMAIN main : main[i].op \in {"wrote", "read"}
    ELSE \E i \in DOMAIN main : main[i].op = "lost"

(* Pushed messages reach the chat in the order of the server, none twice,  *)
(* although they pass from the main queue to another and back.             *)
InOrder == \A i, j \in DOMAIN arrived : i < j => arrived[i] < arrived[j]

(* A pushed message is lost only with a read that was not one frame, or on *)
(* the wire of a lost connection: what is dropped costs the next one       *)
(* nothing.                                                                *)
NothingLost ==
    Quiet => \A k \in 1..pushed : k \in ToSet(arrived) \/ Pushed(k) \in dropped

(* Both, for messages that pass three queues and come in any pieces.       *)
PushesKept == InOrder /\ NothingLost

(* A message that has been sent is shown as delivered if the server        *)
(* accepted it and as failed if not, unless an answer came with the read   *)
(* of something else or was dropped, or no session or no connection was    *)
(* there to carry it.                                                      *)
MarksFit ==
    Quiet => \/ causes # {}
             \/ \A msg \in Message :
                    shown[msg] = "no" \/ Frame("refused", msg) \in dropped
                    \/ (shown[msg] = "delivered" <=> msg \in taken)

(* What the server pushes gets to the chat or is dropped, as long as the   *)
(* program runs.                                                           *)
PushArrives ==
    \A k \in 1..MaxPush :
        pushed >= k ~> k \in ToSet(arrived) \/ Pushed(k) \in dropped \/ dead

=============================================================================
