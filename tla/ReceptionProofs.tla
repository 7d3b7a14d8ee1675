--------------------------- MODULE ReceptionProofs ---------------------------
(***************************************************************************)
(* Theorems about Reception for every set of messages and every bound.     *)
(***************************************************************************)
EXTENDS Reception, TLAPS

(* Types of the frames and blocks the actions build.                       *)
LEMMA FrameTypes ==
    /\ \A kind \in Kind, tag \in Tag : Frame(kind, tag) \in FrameType
    /\ \A k \in 1..MaxPush : Pushed(k) \in FrameType
    /\ \A f \in FrameType : f.kind = "push" => f.of \in 1..MaxPush /\ f = Pushed(f.of)
    /\ \A f \in FrameType : f.tag \in Tag
BY DEF FrameType, Frame, Pushed, Kind, Tag

LEMMA BytesType == \A f \in FrameType : Bytes(f) \in Seq(PartType) /\ Len(Bytes(f)) = 2
BY DEF Bytes, PartType, Parts

LEMMA BlockTypes ==
    /\ \A op \in {"wrote", "read", "lost", "show", "status"}, tag \in Tag :
          Block(op, tag) \in BlockType
    /\ \A tag \in Tag, data \in Seq(PartType) :
          [Block("read", tag) EXCEPT !.data = data] \in BlockType
    /\ \A tag \in Tag, sent \in BOOLEAN :
          [Block("status", tag) EXCEPT !.sent = sent] \in BlockType
    /\ \A k \in 1..MaxPush : [Block("message", "none") EXCEPT !.of = k] \in BlockType
<1>0. <<>> \in Seq(PartType)
  OBVIOUS
<1>1. ASSUME NEW op \in {"wrote", "read", "lost", "show", "status"}, NEW tag \in Tag
      PROVE  Block(op, tag) \in BlockType
  BY <1>0 DEF Block, BlockType
<1>2. ASSUME NEW tag \in Tag, NEW data \in Seq(PartType)
      PROVE  [Block("read", tag) EXCEPT !.data = data] \in BlockType
  BY DEF Block, BlockType
<1>3. ASSUME NEW tag \in Tag, NEW sent \in BOOLEAN
      PROVE  [Block("status", tag) EXCEPT !.sent = sent] \in BlockType
  BY <1>0 DEF Block, BlockType
<1>4. ASSUME NEW k \in 1..MaxPush
      PROVE  [Block("message", "none") EXCEPT !.of = k] \in BlockType
  BY <1>0 DEF Block, BlockType
<1>5. QED
  BY <1>1, <1>2, <1>3, <1>4

LEMMA BlockFields ==
    ASSUME NEW b \in BlockType
    PROVE  /\ b.tag \in Tag /\ b.data \in Seq(PartType) /\ b.sent \in BOOLEAN
           /\ b.op = "message" => b.of \in 1..MaxPush
           /\ b.op \in {"wrote", "read", "lost", "show", "status", "message"}
<1>0. <<>> \in Seq(PartType) /\ "none" \in Tag
  BY DEF Tag
<1>1. CASE b \in [op : {"wrote", "read", "lost", "show", "status"}, tag : Tag,
                  data : Seq(PartType), sent : BOOLEAN, of : {0}]
  BY <1>1
<1>2. CASE b \in [op : {"message"}, tag : {"none"}, data : {<<>>}, sent : {TRUE},
                  of : 1..MaxPush]
  BY <1>0, <1>2
<1>3. QED
  BY <1>1, <1>2 DEF BlockType

(* A read that is one frame begins with that frame's head.                 *)
LEMMA WholeRead ==
    ASSUME NEW data, Whole(data)
    PROVE  /\ DOMAIN data = 1..2 /\ data[1].part = "head"
           /\ \A i \in DOMAIN data : data[i].frame = data[1].frame
BY DEF Whole, Bytes

LEMMA FirstOf ==
    ASSUME NEW S, NEW s \in Seq(S), s # <<>>
    PROVE  /\ Head(s) \in S /\ Tail(s) \in Seq(S) /\ Head(s) = s[1] /\ 1 \in DOMAIN s
           /\ Len(Tail(s)) = Len(s) - 1
           /\ \A i \in DOMAIN Tail(s) : i + 1 \in DOMAIN s /\ Tail(s)[i] = s[i + 1]
           /\ \A i \in DOMAIN s : i # 1 => i - 1 \in DOMAIN Tail(s) /\ Tail(s)[i - 1] = s[i]
<1>1. /\ Head(s) = s[1] /\ Tail(s) \in Seq(S) /\ Len(Tail(s)) = Len(s) - 1 /\ Len(s) >= 1
      /\ DOMAIN s = 1..Len(s) /\ DOMAIN Tail(s) = 1..(Len(s) - 1)
      /\ \A i \in 1..(Len(s) - 1) : Tail(s)[i] = s[i + 1]
  OBVIOUS
<1>2. \A i \in 1..Len(s) : s[i] \in S
  OBVIOUS
<1>3. ASSUME NEW i \in 1..Len(s), i # 1
      PROVE  i - 1 \in 1..(Len(s) - 1) /\ Tail(s)[i - 1] = s[i]
  <2>1. i - 1 \in 1..(Len(s) - 1)
    BY <1>1, <1>3
  <2>2. Tail(s)[i - 1] = s[(i - 1) + 1]
    BY <1>1, <2>1
  <2>3. QED
    BY <2>1, <2>2
<1>4. QED
  BY <1>1, <1>2, <1>3

LEMMA FirstBlock ==
    ASSUME TypeOK, main # <<>>
    PROVE  /\ Head(main) \in BlockType /\ Tail(main) \in Seq(BlockType)
           /\ Head(main) = main[1] /\ 1 \in DOMAIN main
           /\ Len(Tail(main)) = Len(main) - 1
           /\ \A i \in DOMAIN Tail(main) : i + 1 \in DOMAIN main /\ Tail(main)[i] = main[i + 1]
           /\ \A i \in DOMAIN main : i # 1 => i - 1 \in DOMAIN Tail(main) /\ Tail(main)[i - 1] = main[i]
<1>1. main \in Seq(BlockType)
  BY DEF TypeOK
<1>2. QED
  BY <1>1, FirstOf

LEMMA AppendOf ==
    ASSUME NEW S, NEW s \in Seq(S), NEW e \in S
    PROVE  /\ Append(s, e) \in Seq(S) /\ Append(s, e) # <<>>
           /\ Len(Append(s, e)) = Len(s) + 1 /\ Append(s, e)[Len(s) + 1] = e
           /\ \A i \in DOMAIN s : i \in DOMAIN Append(s, e) /\ Append(s, e)[i] = s[i]
           /\ \A i \in DOMAIN Append(s, e) : i # Len(s) + 1 => i \in DOMAIN s
OBVIOUS

LEMMA ConcatOf ==
    ASSUME NEW S, NEW s \in Seq(S), NEW t \in Seq(S)
    PROVE  /\ s \o t \in Seq(S) /\ Len(s \o t) = Len(s) + Len(t)
           /\ DOMAIN (s \o t) = 1..(Len(s) + Len(t)) /\ DOMAIN s = 1..Len(s)
           /\ \A i \in 1..Len(s) : (s \o t)[i] = s[i]
           /\ \A i \in 1..Len(t) : (s \o t)[Len(s) + i] = t[i]
OBVIOUS

LEMMA Tags == "none" \in Tag /\ "login" \in Tag /\ "beat" \in Tag /\ Message \subseteq Tag
BY DEF Tag

LEMMA ReadWithType ==
    ASSUME TypeOK, NEW tag \in Tag, ReadWith(tag)
    PROVE  /\ reads' \in Seq(Tag)
           /\ started => reads' # <<>>
           /\ reads # <<>> => reads' # <<>>
<1>1. reads \in Seq(Tag)
  BY DEF TypeOK
<1>2. QED
  BY <1>1, AppendOf DEF ReadWith

LEMMA WriteType ==
    ASSUME TypeOK, NEW tag \in Tag, Write(tag)
    PROVE  writes' \in Seq(Tag) /\ (writes # <<>> => writes' # <<>>)
<1>1. writes \in Seq(Tag)
  BY DEF TypeOK
<1>2. QED
  BY <1>1, AppendOf DEF Write

LEMMA MarkMade ==
    ASSUME TypeOK, NEW tag, NEW sent \in BOOLEAN
    PROVE  Mark(tag, sent) \in Seq(MarkType)
<1>1. marks \in Seq(MarkType)
  BY DEF TypeOK
<1>2. tag \in Message => [tag |-> tag, sent |-> sent] \in MarkType
  BY DEF MarkType
<1>3. QED
  BY <1>1, <1>2, AppendOf DEF Mark

(* The frames of a read, or of the wire.                                   *)
LEMMA FramesOf ==
    ASSUME NEW s \in Seq(PartType)
    PROVE  {s[i].frame : i \in DOMAIN s} \subseteq FrameType
<1>1. \A i \in DOMAIN s : s[i] \in PartType
  OBVIOUS
<1>2. \A i \in DOMAIN s : s[i].frame \in FrameType
  BY <1>1 DEF PartType
<1>3. QED
  BY <1>2

LEMMA EmptyOf == \A S : <<>> \in Seq(S)
OBVIOUS

LEMMA TypeInit == Init => TypeOK
<1> SUFFICES ASSUME Init PROVE TypeOK
  OBVIOUS
<1>1. <<"login">> \in Seq(Tag)
  BY Tags
<1>2. shown \in [Message -> {"no", "delivered", "failed"}]
  BY DEF Init
<1>3. 0 \in 0..MaxPush /\ 0 \in 0..MaxBeat /\ 0 \in 0..MaxBreak
  BY BoundsAssumption
<1>4. QED
  BY <1>1, <1>2, <1>3, EmptyOf DEF Init, TypeOK

LEMMA TypeStep == TypeOK /\ [Next]_vars => TypeOK'
<1> SUFFICES ASSUME TypeOK, [Next]_vars PROVE TypeOK'
  OBVIOUS
<1> USE DEF line, bounds, history
<1>0. "none" \in Tag /\ "login" \in Tag /\ "beat" \in Tag /\ Message \subseteq Tag
  BY Tags
<1>1. CASE Transmit
  <2>1. Head(writes) \in Tag /\ Tail(writes) \in Seq(Tag)
    BY <1>1 DEF Transmit, TypeOK
  <2>2. main' \in Seq(BlockType)
    BY <1>1, <2>1, BlockTypes DEF Transmit, Post, TypeOK
  <2>3. QED
    BY <1>1, <2>1, <2>2 DEF Transmit, TypeOK
<1>2. CASE Answer
  <2>1. Head(asked) \in Tag /\ Tail(asked) \in Seq(Tag)
    BY <1>2 DEF Answer, TypeOK
  <2>2. wire' \in Seq(PartType) /\ taken' \subseteq Message
    <3>1. PICK kind \in Kind : wire' = wire \o Bytes(Frame(kind, Head(asked)))
      BY <1>2 DEF Answer, Kind
    <3>2. Bytes(Frame(kind, Head(asked))) \in Seq(PartType)
      BY <2>1, FrameTypes, BytesType
    <3>3. taken' \subseteq Message
      BY <1>2 DEF Answer, TypeOK
    <3>4. QED
      BY <3>1, <3>2, <3>3 DEF TypeOK
  <2>3. QED
    BY <1>2, <2>1, <2>2 DEF Answer, TypeOK
<1>3. CASE Push
  <2>1. pushed' \in 1..MaxPush /\ pushed' \in 0..MaxPush
    BY <1>3, BoundsAssumption DEF Push, TypeOK
  <2>2. wire' \in Seq(PartType)
    BY <1>3, <2>1, FrameTypes, BytesType DEF Push, TypeOK
  <2>3. QED
    BY <1>3, <2>1, <2>2 DEF Push, TypeOK
<1>4. CASE Read
  <2>1. Head(reads) \in Tag /\ Tail(reads) \in Seq(Tag) /\ wire \in Seq(PartType)
    BY <1>4 DEF Read, TypeOK
  <2>2. PICK n \in 1..Len(wire) :
            /\ main' = Append(main, [Block("read", Head(reads)) EXCEPT !.data = SubSeq(wire, 1, n)])
            /\ wire' = SubSeq(wire, n + 1, Len(wire))
    BY <1>4 DEF Read, Post
  <2>3. SubSeq(wire, 1, n) \in Seq(PartType) /\ wire' \in Seq(PartType)
    BY <2>1, <2>2
  <2>4. [Block("read", Head(reads)) EXCEPT !.data = SubSeq(wire, 1, n)] \in BlockType
    BY <2>1, <2>3, BlockTypes
  <2>5. main' \in Seq(BlockType)
    BY <2>2, <2>4 DEF TypeOK
  <2>6. QED
    BY <1>4, <2>1, <2>3, <2>5 DEF Read, TypeOK
<1>5. CASE Break
  <2>1. main' \in Seq(BlockType)
    BY <1>0, <1>5, BlockTypes DEF Break, Post, TypeOK
  <2>2. dropped' \subseteq FrameType
    BY <1>5, FramesOf DEF Break, TypeOK
  <2>3. breaks' \in 0..MaxBreak
    BY <1>5, BoundsAssumption DEF Break, TypeOK
  <2>4. causes' \subseteq Causes
    BY <1>5 DEF Break, TypeOK, Causes
  <2>5. QED
    BY <1>5, <2>1, <2>2, <2>3, <2>4, EmptyOf DEF Break, TypeOK
<1>6. CASE DidWrite
  <2>1. Head(main) \in BlockType /\ Tail(main) \in Seq(BlockType) /\ Head(main).tag \in Tag
    BY <1>6, FirstBlock, BlockFields DEF DidWrite, Begin
  <2>2. reads' \in Seq(Tag) /\ marks' \in Seq(MarkType)
    BY <1>6, <2>1, ReadWithType, MarkMade DEF DidWrite
  <2>3. QED
    BY <1>6, <2>1, <2>2 DEF DidWrite, TypeOK
<1>7. CASE DropRead
  <2>1. /\ Head(main) \in BlockType /\ Tail(main) \in Seq(BlockType)
        /\ Head(main).data \in Seq(PartType)
    BY <1>7, FirstBlock, BlockFields DEF DropRead, Begin
  <2>2. reads' \in Seq(Tag)
    BY <1>0, <1>7, ReadWithType DEF DropRead
  <2>3. dropped' \subseteq FrameType
    BY <1>7, <2>1, FramesOf DEF DropRead, TypeOK
  <2>4. QED
    BY <1>7, <2>1, <2>2, <2>3 DEF DropRead, TypeOK
<1>8. CASE ReadTrap
  BY <1>8 DEF ReadTrap, TypeOK
<1>9. CASE LoginResponse
  <2>1. Tail(main) \in Seq(BlockType)
    BY <1>9, FirstBlock DEF LoginResponse, Received, Begin
  <2>2. reads' \in Seq(Tag) /\ writes' \in Seq(Tag)
    BY <1>0, <1>9, ReadWithType, WriteType DEF LoginResponse, Received
  <2>3. QED
    BY <1>9, <2>1, <2>2 DEF LoginResponse, TypeOK
<1>10. CASE KeepaliveResponse
  <2>1. Tail(main) \in Seq(BlockType) /\ reads' \in Seq(Tag)
    BY <1>0, <1>10, FirstBlock, ReadWithType DEF KeepaliveResponse, Received, Begin
  <2>2. QED
    BY <1>10, <2>1 DEF KeepaliveResponse, TypeOK
<1>11. CASE MessageResponse
  <2>1. /\ Tail(main) \in Seq(BlockType) /\ reads' \in Seq(Tag) /\ Head(main).tag \in Tag
    BY <1>0, <1>11, FirstBlock, BlockFields, ReadWithType DEF MessageResponse, Received, Begin
  <2>2. PICK sent \in BOOLEAN :
            main' = Append(Tail(main), [Block("status", Head(main).tag) EXCEPT !.sent = sent])
    BY <1>11 DEF MessageResponse
  <2>3. main' \in Seq(BlockType)
    BY <2>1, <2>2, BlockTypes
  <2>4. QED
    BY <1>11, <2>1, <2>3 DEF MessageResponse, TypeOK, Causes
<1>12. CASE MessageRequest
  <2>1. /\ Tail(main) \in Seq(BlockType) /\ reads' \in Seq(Tag)
        /\ Head(main).data \in Seq(PartType)
    BY <1>0, <1>12, FirstBlock, BlockFields, ReadWithType DEF MessageRequest, Received, Begin
  <2>2. Head(main).data[1] \in PartType
    BY <1>12, <2>1, WholeRead DEF MessageRequest, Received
  <2>3. Head(main).data[1].frame.of \in 1..MaxPush
    BY <1>12, <2>2, FrameTypes DEF MessageRequest, Received, PartType
  <2>4. decrypt' \in Seq(1..MaxPush)
    BY <1>12, <2>3, AppendOf DEF MessageRequest, TypeOK
  <2>5. QED
    BY <1>12, <2>1, <2>4 DEF MessageRequest, TypeOK
<1>13. CASE Decrypt
  <2>1. Head(decrypt) \in 1..MaxPush /\ Tail(decrypt) \in Seq(1..MaxPush)
    BY <1>13, FirstOf DEF Decrypt, TypeOK
  <2>2. main' \in Seq(BlockType)
    BY <1>13, <2>1, BlockTypes DEF Decrypt, Post, TypeOK
  <2>3. QED
    BY <1>13, <2>1, <2>2 DEF Decrypt, TypeOK
<1>14. CASE NewMsgArrived
  <2>1. Tail(main) \in Seq(BlockType) /\ Head(main).of \in 1..MaxPush
    BY <1>14, FirstBlock, BlockFields DEF NewMsgArrived, Begin
  <2>2. QED
    BY <1>14, <2>1 DEF NewMsgArrived, TypeOK
<1>15. CASE DidDisconnect
  <2>1. Tail(main) \in Seq(BlockType)
    BY <1>15, FirstBlock DEF DidDisconnect, Begin
  <2>2. <<"login">> \in Seq(Tag)
    BY <1>0
  <2>3. QED
    BY <1>15, <2>1, <2>2 DEF DidDisconnect, TypeOK
<1>16. ASSUME NEW msg \in Message, SendMessage(msg) PROVE TypeOK'
  <2>1. msg \in Tag
    BY <1>0
  <2>2. main' \in Seq(BlockType)
    BY <1>16, <2>1, BlockTypes DEF SendMessage, Post, TypeOK
  <2>3. writes' \in Seq(Tag)
    BY <1>16, <2>1, WriteType DEF SendMessage, TypeOK
  <2>4. QED
    BY <1>16, <2>2, <2>3 DEF SendMessage, TypeOK, Causes
<1>17. CASE DisplayMsg
  <2>1. Tail(main) \in Seq(BlockType)
    BY <1>17, FirstBlock DEF DisplayMsg, Begin
  <2>2. QED
    BY <1>17, <2>1 DEF DisplayMsg, TypeOK
<1>18. CASE HeartBeat
  <2>1. writes' \in Seq(Tag)
    BY <1>0, <1>18, WriteType DEF HeartBeat
  <2>2. QED
    BY <1>18, <2>1, BoundsAssumption DEF HeartBeat, TypeOK
<1>19. CASE MsgSentStatus
  <2>1. Tail(main) \in Seq(BlockType) /\ Head(main).sent \in BOOLEAN
    BY <1>19, FirstBlock, BlockFields DEF MsgSentStatus, Begin
  <2>2. marks' \in Seq(MarkType)
    BY <1>19, <2>1, MarkMade DEF MsgSentStatus
  <2>3. QED
    BY <1>19, <2>1, <2>2 DEF MsgSentStatus, TypeOK
<1>20. CASE ShowStatus
  <2>1. marks' \in Seq(MarkType)
    BY <1>20, FirstOf DEF ShowStatus, TypeOK
  <2>2. shown' \in [Message -> {"no", "delivered", "failed"}]
    BY <1>20 DEF ShowStatus, TypeOK
  <2>3. QED
    BY <1>20, <2>1, <2>2 DEF ShowStatus, TypeOK
<1>21. CASE UNCHANGED vars
  BY <1>21 DEF vars, TypeOK
<1>22. QED
  BY <1>1, <1>2, <1>3, <1>4, <1>5, <1>6, <1>7, <1>8, <1>9, <1>10, <1>11, <1>12,
     <1>13, <1>14, <1>15, <1>16, <1>17, <1>18, <1>19, <1>20, <1>21
     DEF Next, Socket, Delegate

(* Every reachable state is well typed: in particular only messages that   *)
(* were pushed reach decryption and the chat.                              *)
THEOREM TypeCorrect == Spec => []TypeOK
BY TypeInit, TypeStep, PTL DEF Spec

-----------------------------------------------------------------------------
(***************************************************************************)
(* Listening is inductive: a block that is taken from the main queue while *)
(* the connection is open and that was the only reason to expect anything  *)
(* more asks for a read before it is gone.                                 *)
(***************************************************************************)
Due(q, ops) == \E i \in DOMAIN q : q[i].op \in ops

LEMMA DuePost ==
    ASSUME NEW q \in Seq(BlockType), NEW b \in BlockType, NEW ops
    PROVE  Due(Append(q, b), ops) <=> Due(q, ops) \/ b.op \in ops
BY AppendOf DEF Due

LEMMA DueTake ==
    ASSUME NEW q \in Seq(BlockType), q # <<>>, NEW ops
    PROVE  Due(q, ops) /\ Head(q).op \notin ops => Due(Tail(q), ops)
BY FirstOf DEF Due

ListeningInv == IF started THEN writes # <<>> \/ reads # <<>> \/ Due(main, {"wrote", "read"})
                           ELSE Due(main, {"lost"})

(* A step of the main queue, which may post a block of its own: it leaves  *)
(* the connection alone or asks for the next read.                         *)
LEMMA ListeningTake ==
    ASSUME TypeOK, ListeningInv, main # <<>>, Head(main).op # "lost", UNCHANGED started,
           main' = Tail(main) \/ \E b \in BlockType : main' = Append(Tail(main), b),
           \/ Head(main).op \notin {"wrote", "read"} /\ UNCHANGED reads
           \/ \E tag \in Tag : ReadWith(tag),
           writes # <<>> => writes' # <<>>
    PROVE  ListeningInv'
<1>1. main \in Seq(BlockType) /\ Tail(main) \in Seq(BlockType)
  BY FirstBlock DEF TypeOK
<1>2. ASSUME NEW ops, Due(main, ops), Head(main).op \notin ops PROVE Due(main', ops)
  <2>1. Due(Tail(main), ops)
    BY <1>1, <1>2, DueTake
  <2>2. \A b \in BlockType : Due(Append(Tail(main), b), ops)
    BY <1>1, <2>1, DuePost
  <2>3. QED
    BY <2>1, <2>2
<1>3. reads # <<>> => reads' # <<>>
  BY ReadWithType
<1>4. CASE ~started
  BY <1>2, <1>4 DEF ListeningInv
<1>5. CASE started /\ Head(main).op \notin {"wrote", "read"}
  BY <1>2, <1>3, <1>5 DEF ListeningInv
<1>6. CASE started /\ \E tag \in Tag : ReadWith(tag)
  <2>1. reads' # <<>>
    BY <1>6, ReadWithType
  <2>2. QED
    BY <1>6, <2>1 DEF ListeningInv
<1>7. QED
  BY <1>4, <1>5, <1>6

(* A step that posts a block, or nothing, and keeps what is under way.     *)
LEMMA ListeningPost ==
    ASSUME TypeOK, ListeningInv, UNCHANGED started,
           main' = main \/ \E b \in BlockType : main' = Append(main, b),
           writes # <<>> => writes' # <<>>, reads # <<>> => reads' # <<>>
    PROVE  ListeningInv'
<1>1. main \in Seq(BlockType)
  BY DEF TypeOK
<1>2. \A ops : Due(main, ops) => Due(main', ops)
  BY <1>1, DuePost
<1>3. QED
  BY <1>2 DEF ListeningInv

LEMMA ListeningInit == Init => ListeningInv
BY DEF Init, ListeningInv

LEMMA ListeningStep == TypeOK /\ ListeningInv /\ [Next]_vars => ListeningInv'
<1> SUFFICES ASSUME TypeOK, ListeningInv, [Next]_vars PROVE ListeningInv'
  OBVIOUS
<1> USE DEF line, history, bounds
<1>0. main \in Seq(BlockType)
  BY DEF TypeOK
<1>1. CASE Transmit
  <2>1. Head(writes) \in Tag
    BY <1>1, FirstOf DEF Transmit, TypeOK
  <2>2. Block("wrote", Head(writes)) \in BlockType /\ Block("wrote", Head(writes)).op = "wrote"
    BY <2>1, BlockTypes DEF Block
  <2>3. Due(main', {"wrote", "read"}) /\ (Due(main, {"lost"}) => Due(main', {"lost"}))
    BY <1>0, <1>1, <2>2, DuePost DEF Transmit, Post
  <2>4. QED
    BY <1>1, <2>3 DEF Transmit, ListeningInv
<1>2. CASE Answer
  BY <1>2, ListeningPost DEF Answer
<1>3. CASE Push
  BY <1>3, ListeningPost DEF Push
<1>4. CASE Read
  <2>1. PICK n \in 1..Len(wire) :
            main' = Append(main, [Block("read", Head(reads)) EXCEPT !.data = SubSeq(wire, 1, n)])
    BY <1>4 DEF Read, Post
  <2> DEFINE b == [Block("read", Head(reads)) EXCEPT !.data = SubSeq(wire, 1, n)]
  <2>2. Head(reads) \in Tag /\ SubSeq(wire, 1, n) \in Seq(PartType)
    <3>1. wire \in Seq(PartType) /\ reads \in Seq(Tag)
      BY DEF TypeOK
    <3>2. QED
      BY <1>4, <3>1, FirstOf DEF Read
  <2>3. b \in BlockType /\ b.op = "read"
    BY <2>2, BlockTypes DEF Block
  <2> HIDE DEF b
  <2>4. main' = Append(main, b)
    BY <2>1 DEF b
  <2>5. Due(main', {"wrote", "read"}) /\ (Due(main, {"lost"}) => Due(main', {"lost"}))
    BY <1>0, <2>3, <2>4, DuePost
  <2>6. QED
    BY <1>4, <2>5 DEF Read, ListeningInv
<1>5. CASE Break
  <2>1. Block("lost", "none") \in BlockType /\ Block("lost", "none").op = "lost"
    BY Tags, BlockTypes DEF Block
  <2>2. Due(main', {"lost"})
    BY <1>0, <1>5, <2>1, DuePost DEF Break, Post
  <2>3. QED
    BY <1>5, <2>2 DEF Break, ListeningInv
<1>6. CASE DidWrite
  <2>1. Head(main).tag \in Tag
    BY <1>6, FirstBlock, BlockFields DEF DidWrite, Begin
  <2>2. QED
    BY <1>6, <2>1, ListeningTake DEF DidWrite, Begin
<1>7. CASE DropRead
  BY <1>7, Tags, ListeningTake DEF DropRead, Begin
<1>8. CASE ReadTrap
  BY <1>8, ListeningPost DEF ReadTrap
<1>9. CASE LoginResponse
  <2>1. writes # <<>> => writes' # <<>>
    BY <1>9, Tags, WriteType DEF LoginResponse
  <2>2. QED
    BY <1>9, <2>1, Tags, ListeningTake DEF LoginResponse, Received, Begin
<1>10. CASE KeepaliveResponse
  BY <1>10, Tags, ListeningTake DEF KeepaliveResponse, Received, Begin
<1>11. CASE MessageResponse
  <2>1. /\ main # <<>> /\ Head(main).op = "read" /\ ReadWith("none")
        /\ UNCHANGED <<started, writes>>
    BY <1>11 DEF MessageResponse, Received, Begin
  <2>2. Head(main).tag \in Tag
    BY <2>1, FirstBlock, BlockFields
  <2>3. \E sent \in BOOLEAN :
            main' = Append(Tail(main), [Block("status", Head(main).tag) EXCEPT !.sent = sent])
    BY <1>11 DEF MessageResponse
  <2>4. \E b \in BlockType : main' = Append(Tail(main), b)
    BY <2>2, <2>3, BlockTypes
  <2>5. QED
    BY <2>1, <2>4, Tags, ListeningTake
<1>12. CASE MessageRequest
  BY <1>12, Tags, ListeningTake DEF MessageRequest, Received, Begin
<1>13. CASE Decrypt
  <2>1. Head(decrypt) \in 1..MaxPush
    BY <1>13, FirstOf DEF Decrypt, TypeOK
  <2>2. QED
    BY <1>13, <2>1, BlockTypes, ListeningPost DEF Decrypt, Post
<1>14. CASE NewMsgArrived
  BY <1>14, ListeningTake DEF NewMsgArrived, Begin
<1>15. CASE DidDisconnect
  BY <1>15 DEF DidDisconnect, ListeningInv
<1>16. ASSUME NEW msg \in Message, SendMessage(msg) PROVE ListeningInv'
  <2>1. writes # <<>> => writes' # <<>>
    BY <1>16, Tags, WriteType DEF SendMessage
  <2>2. Block("show", msg) \in BlockType
    BY Tags, BlockTypes
  <2>3. QED
    BY <1>16, <2>1, <2>2, ListeningPost DEF SendMessage, Post
<1>17. CASE DisplayMsg
  BY <1>17, ListeningTake DEF DisplayMsg, Begin
<1>18. CASE HeartBeat
  <2>1. writes # <<>> => writes' # <<>>
    BY <1>18, Tags, WriteType DEF HeartBeat
  <2>2. QED
    BY <1>18, <2>1, ListeningPost DEF HeartBeat
<1>19. CASE MsgSentStatus
  BY <1>19, ListeningTake DEF MsgSentStatus, Begin
<1>20. CASE ShowStatus
  BY <1>20, ListeningPost DEF ShowStatus
<1>21. CASE UNCHANGED vars
  BY <1>21, ListeningPost DEF vars
<1>22. QED
  BY <1>1, <1>2, <1>3, <1>4, <1>5, <1>6, <1>7, <1>8, <1>9, <1>10, <1>11, <1>12,
     <1>13, <1>14, <1>15, <1>16, <1>17, <1>18, <1>19, <1>20, <1>21
     DEF Next, Socket, Delegate

(* A connection never falls silent, whatever is pushed, cut into pieces,   *)
(* dropped or lost: for any number of messages and lost connections.       *)
THEOREM AlwaysListening == Spec => []Listening
<1>1. ListeningInv => Listening
  BY DEF ListeningInv, Listening, Due
<1>2. Spec => [](TypeOK /\ ListeningInv)
  BY TypeInit, TypeStep, ListeningInit, ListeningStep, PTL DEF Spec
<1>3. QED
  BY <1>1, <1>2, PTL
-----------------------------------------------------------------------------
(***************************************************************************)
(* PushesKept.  A pushed message passes the wire, a read on the main queue,*)
(* processQueue, a block on the main queue and the chat's arrivals, in     *)
(* this order.  What is further on was pushed before what is behind, and   *)
(* in every one of the places the order is that of the server; of a frame  *)
(* cut in two only the piece with its head counts, since the other is      *)
(* dropped unless it comes with the head.                                  *)
(***************************************************************************)
HeadPart(k) == [frame |-> Pushed(k), part |-> "head"]

Heads(s)     == {k \in 1..MaxPush : \E i \in DOMAIN s : s[i] = HeadPart(k)}
Msgs(q)      == {q[i].of : i \in {j \in DOMAIN q : q[j].op = "message"}}
ReadHeads(q) == UNION {Heads(q[i].data) : i \in {j \in DOMAIN q : q[j].op = "read"}}

Precede(X, Y) == \A x \in X, y \in Y : x < y

Increasing(s) == \A i, j \in DOMAIN s : i < j => s[i] < s[j]
HeadsInOrder(s) ==
    \A i, j \in DOMAIN s : \A k, l \in 1..MaxPush :
        i < j /\ s[i] = HeadPart(k) /\ s[j] = HeadPart(l) => k < l
MsgsInOrder(q) ==
    \A i, j \in DOMAIN q : i < j /\ q[i].op = "message" /\ q[j].op = "message"
                               => q[i].of < q[j].of
ReadsInOrder(q) ==
    \A i, j \in DOMAIN q : i < j /\ q[i].op = "read" /\ q[j].op = "read"
                               => Precede(Heads(q[i].data), Heads(q[j].data))

OrderInv ==
    /\ Increasing(arrived) /\ Increasing(decrypt)
    /\ MsgsInOrder(main) /\ ReadsInOrder(main) /\ HeadsInOrder(wire)
    /\ Precede(ToSet(arrived), Msgs(main) \cup ToSet(decrypt) \cup ReadHeads(main) \cup Heads(wire))
    /\ Precede(Msgs(main), ToSet(decrypt) \cup ReadHeads(main) \cup Heads(wire))
    /\ Precede(ToSet(decrypt), ReadHeads(main) \cup Heads(wire))
    /\ Precede(ReadHeads(main), Heads(wire))
    /\ ToSet(arrived) \cup Msgs(main) \cup ToSet(decrypt) \cup ReadHeads(main) \cup Heads(wire)
          \subseteq 1..pushed

(* Queues of numbers.                                                      *)
LEMMA NumbersPost ==
    ASSUME NEW s \in Seq(1..MaxPush), NEW k \in 1..MaxPush
    PROVE  /\ ToSet(Append(s, k)) = ToSet(s) \cup {k}
           /\ Increasing(s) /\ Precede(ToSet(s), {k}) => Increasing(Append(s, k))
<1>1. /\ DOMAIN Append(s, k) = 1..(Len(s) + 1) /\ DOMAIN s = 1..Len(s)
      /\ Append(s, k)[Len(s) + 1] = k
      /\ \A i \in 1..Len(s) : Append(s, k)[i] = s[i]
  OBVIOUS
<1>2. QED
  BY <1>1 DEF ToSet, Increasing, Precede

LEMMA NumbersTake ==
    ASSUME NEW s \in Seq(1..MaxPush), s # <<>>
    PROVE  /\ Head(s) \in ToSet(s) /\ ToSet(s) = {Head(s)} \cup ToSet(Tail(s))
           /\ Increasing(s) => Increasing(Tail(s)) /\ Precede({Head(s)}, ToSet(Tail(s)))
<1>1. /\ Head(s) = s[1] /\ 1 \in DOMAIN s /\ DOMAIN s = 1..Len(s)
      /\ DOMAIN Tail(s) = 1..(Len(s) - 1)
      /\ \A i \in DOMAIN Tail(s) : i + 1 \in DOMAIN s /\ Tail(s)[i] = s[i + 1]
      /\ \A i \in DOMAIN s : i # 1 => i - 1 \in DOMAIN Tail(s) /\ Tail(s)[i - 1] = s[i]
  BY FirstOf
<1>2. Head(s) \in ToSet(s) /\ ToSet(s) = {Head(s)} \cup ToSet(Tail(s))
  BY <1>1 DEF ToSet
<1>3. ASSUME Increasing(s) PROVE Increasing(Tail(s)) /\ Precede({Head(s)}, ToSet(Tail(s)))
  BY <1>1, <1>3 DEF ToSet, Increasing, Precede
<1>4. QED
  BY <1>2, <1>3

(* The main queue.                                                         *)
LEMMA BlocksPost ==
    ASSUME NEW q \in Seq(BlockType), NEW b \in BlockType
    PROVE  /\ Msgs(Append(q, b)) = IF b.op = "message" THEN Msgs(q) \cup {b.of} ELSE Msgs(q)
           /\ ReadHeads(Append(q, b)) = IF b.op = "read" THEN ReadHeads(q) \cup Heads(b.data)
                                                         ELSE ReadHeads(q)
           /\ MsgsInOrder(q) /\ (b.op = "message" => Precede(Msgs(q), {b.of}))
                 => MsgsInOrder(Append(q, b))
           /\ ReadsInOrder(q) /\ (b.op = "read" => Precede(ReadHeads(q), Heads(b.data)))
                 => ReadsInOrder(Append(q, b))
<1>1. /\ DOMAIN Append(q, b) = 1..(Len(q) + 1) /\ DOMAIN q = 1..Len(q)
      /\ Append(q, b)[Len(q) + 1] = b
      /\ \A i \in 1..Len(q) : Append(q, b)[i] = q[i]
  OBVIOUS
<1>2. Msgs(Append(q, b)) = IF b.op = "message" THEN Msgs(q) \cup {b.of} ELSE Msgs(q)
  BY <1>1 DEF Msgs
<1>3. ReadHeads(Append(q, b)) = IF b.op = "read" THEN ReadHeads(q) \cup Heads(b.data)
                                                 ELSE ReadHeads(q)
  BY <1>1 DEF ReadHeads
<1>4. ASSUME MsgsInOrder(q), b.op = "message" => Precede(Msgs(q), {b.of})
      PROVE  MsgsInOrder(Append(q, b))
  BY <1>1, <1>4 DEF MsgsInOrder, Precede, Msgs
<1>5. ASSUME ReadsInOrder(q), b.op = "read" => Precede(ReadHeads(q), Heads(b.data))
      PROVE  ReadsInOrder(Append(q, b))
  <2>1. SUFFICES ASSUME NEW i \in 1..(Len(q) + 1), NEW j \in 1..(Len(q) + 1), i < j,
                        Append(q, b)[i].op = "read", Append(q, b)[j].op = "read"
                 PROVE  Precede(Heads(Append(q, b)[i].data), Heads(Append(q, b)[j].data))
    BY <1>1 DEF ReadsInOrder
  <2>2. i \in 1..Len(q) /\ Append(q, b)[i] = q[i]
    BY <1>1, <2>1
  <2>3. CASE j \in 1..Len(q)
    BY <1>1, <1>5, <2>1, <2>2, <2>3 DEF ReadsInOrder
  <2>4. CASE j = Len(q) + 1
    <3>1. Heads(q[i].data) \subseteq ReadHeads(q)
      BY <1>1, <2>1, <2>2 DEF ReadHeads
    <3>2. QED
      BY <1>1, <1>5, <2>1, <2>2, <2>4, <3>1 DEF Precede
  <2>5. QED
    BY <2>3, <2>4
<1>6. QED
  BY <1>2, <1>3, <1>4, <1>5

LEMMA BlocksTake ==
    ASSUME NEW q \in Seq(BlockType), q # <<>>
    PROVE  /\ Msgs(Tail(q)) \subseteq Msgs(q) /\ ReadHeads(Tail(q)) \subseteq ReadHeads(q)
           /\ MsgsInOrder(q) => MsgsInOrder(Tail(q))
           /\ ReadsInOrder(q) => ReadsInOrder(Tail(q))
           /\ Head(q).op = "message" =>
                 /\ Head(q).of \in Msgs(q)
                 /\ MsgsInOrder(q) => Precede({Head(q).of}, Msgs(Tail(q)))
           /\ Head(q).op = "read" =>
                 /\ Heads(Head(q).data) \subseteq ReadHeads(q)
                 /\ ReadsInOrder(q) => Precede(Heads(Head(q).data), ReadHeads(Tail(q)))
<1>1. /\ Head(q) = q[1] /\ 1 \in DOMAIN q /\ DOMAIN q = 1..Len(q)
      /\ DOMAIN Tail(q) = 1..(Len(q) - 1)
      /\ \A i \in DOMAIN Tail(q) : i + 1 \in DOMAIN q /\ Tail(q)[i] = q[i + 1]
  BY FirstOf
<1>2. Msgs(Tail(q)) \subseteq Msgs(q)
  BY <1>1 DEF Msgs
<1>3. ReadHeads(Tail(q)) \subseteq ReadHeads(q)
  BY <1>1 DEF ReadHeads
<1>4. ASSUME MsgsInOrder(q) PROVE MsgsInOrder(Tail(q))
  BY <1>1, <1>4 DEF MsgsInOrder
<1>5. ASSUME ReadsInOrder(q) PROVE ReadsInOrder(Tail(q))
  BY <1>1, <1>5 DEF ReadsInOrder
<1>6. ASSUME Head(q).op = "message" PROVE Head(q).of \in Msgs(q)
  BY <1>1, <1>6 DEF Msgs
<1>7. ASSUME Head(q).op = "message", MsgsInOrder(q)
      PROVE  Precede({Head(q).of}, Msgs(Tail(q)))
  BY <1>1, <1>7 DEF Msgs, MsgsInOrder, Precede
<1>8. ASSUME Head(q).op = "read" PROVE Heads(Head(q).data) \subseteq ReadHeads(q)
  BY <1>1, <1>8 DEF ReadHeads
<1>9. ASSUME Head(q).op = "read", ReadsInOrder(q)
      PROVE  Precede(Heads(Head(q).data), ReadHeads(Tail(q)))
  <2>1. ASSUME NEW j \in DOMAIN Tail(q), Tail(q)[j].op = "read"
        PROVE  Precede(Heads(Head(q).data), Heads(Tail(q)[j].data))
    BY <1>1, <1>9, <2>1 DEF ReadsInOrder
  <2>2. QED
    BY <2>1 DEF ReadHeads, Precede
<1>10. QED
  BY <1>2, <1>3, <1>4, <1>5, <1>6, <1>7, <1>8, <1>9

(* The wire.                                                               *)
LEMMA PushedDistinct ==
    \A k, l \in 1..MaxPush : /\ Pushed(k) = Pushed(l) => k = l
                             /\ HeadPart(k) = HeadPart(l) => k = l
BY DEF Pushed, HeadPart

LEMMA WireWrite ==
    ASSUME NEW w \in Seq(PartType), NEW f \in FrameType
    PROVE  /\ Heads(w \o Bytes(f)) = Heads(w) \cup {k \in 1..MaxPush : f = Pushed(k)}
           /\ HeadsInOrder(w) /\ Precede(Heads(w), {k \in 1..MaxPush : f = Pushed(k)})
                 => HeadsInOrder(w \o Bytes(f))
<1> DEFINE v == w \o Bytes(f)
<1>1. /\ Len(Bytes(f)) = 2 /\ Bytes(f) \in Seq(PartType)
      /\ Bytes(f)[1] = [frame |-> f, part |-> "head"]
      /\ Bytes(f)[2] = [frame |-> f, part |-> "rest"]
  BY BytesType DEF Bytes
<1>2. /\ DOMAIN v = 1..(Len(w) + 2) /\ DOMAIN w = 1..Len(w)
      /\ \A i \in 1..Len(w) : v[i] = w[i]
      /\ v[Len(w) + 1] = [frame |-> f, part |-> "head"]
      /\ v[Len(w) + 2] = [frame |-> f, part |-> "rest"]
  <2> DEFINE t == Bytes(f)
  <2>1. t \in Seq(PartType) /\ Len(t) = 2
    BY <1>1
  <2> HIDE DEF t
  <2>2. /\ DOMAIN (w \o t) = 1..(Len(w) + Len(t)) /\ DOMAIN w = 1..Len(w)
        /\ \A i \in 1..Len(w) : (w \o t)[i] = w[i]
        /\ \A i \in 1..Len(t) : (w \o t)[Len(w) + i] = t[i]
    BY <2>1, ConcatOf
  <2>3. /\ DOMAIN v = 1..(Len(w) + Len(t)) /\ DOMAIN w = 1..Len(w)
        /\ \A i \in 1..Len(w) : v[i] = w[i]
        /\ \A i \in 1..Len(t) : v[Len(w) + i] = t[i]
    BY <2>2, Zenon DEF t
  <2> HIDE DEF v
  <2>4. v[Len(w) + 1] = t[1] /\ v[Len(w) + 2] = t[2]
    BY <2>1, <2>3
  <2>5. QED
    BY <1>1, <2>1, <2>3, <2>4 DEF t
<1> HIDE DEF v
<1>3. \A k \in 1..MaxPush : /\ [frame |-> f, part |-> "head"] = HeadPart(k) <=> f = Pushed(k)
                            /\ [frame |-> f, part |-> "rest"] # HeadPart(k)
  BY DEF HeadPart
<1>4. Heads(v) = Heads(w) \cup {k \in 1..MaxPush : f = Pushed(k)}
  BY <1>2, <1>3 DEF Heads
<1>5. ASSUME HeadsInOrder(w), Precede(Heads(w), {k \in 1..MaxPush : f = Pushed(k)})
      PROVE  HeadsInOrder(v)
  <2>1. SUFFICES ASSUME NEW i \in 1..(Len(w) + 2), NEW j \in 1..(Len(w) + 2),
                        NEW k \in 1..MaxPush, NEW l \in 1..MaxPush,
                        i < j, v[i] = HeadPart(k), v[j] = HeadPart(l)
                 PROVE  k < l
    BY <1>2 DEF HeadsInOrder
  <2>2. i # Len(w) + 2 /\ j # Len(w) + 2
    BY <1>2, <1>3, <2>1
  <2>3. i \in 1..Len(w) /\ w[i] = HeadPart(k)
    BY <1>2, <2>1, <2>2
  <2>4. CASE j \in 1..Len(w)
    BY <1>2, <1>5, <2>1, <2>3, <2>4 DEF HeadsInOrder
  <2>5. CASE j = Len(w) + 1
    <3>1. f = Pushed(l) /\ k \in Heads(w)
      BY <1>2, <1>3, <2>1, <2>3, <2>5 DEF Heads
    <3>2. QED
      BY <1>5, <3>1 DEF Precede
  <2>6. QED
    BY <2>2, <2>4, <2>5
<1>6. QED
  BY <1>4, <1>5 DEF v

LEMMA WireCut ==
    ASSUME NEW w \in Seq(PartType), NEW n \in 1..Len(w)
    PROVE  /\ Heads(SubSeq(w, 1, n)) \subseteq Heads(w)
           /\ Heads(SubSeq(w, n + 1, Len(w))) \subseteq Heads(w)
           /\ HeadsInOrder(w) =>
                 /\ HeadsInOrder(SubSeq(w, n + 1, Len(w)))
                 /\ Precede(Heads(SubSeq(w, 1, n)), Heads(SubSeq(w, n + 1, Len(w))))
<1> DEFINE a == SubSeq(w, 1, n)
           b == SubSeq(w, n + 1, Len(w))
<1>1. /\ DOMAIN w = 1..Len(w) /\ DOMAIN a = 1..n /\ DOMAIN b = 1..(Len(w) - n)
      /\ \A i \in 1..n : a[i] = w[i]
      /\ \A i \in 1..(Len(w) - n) : b[i] = w[n + i]
  OBVIOUS
<1> HIDE DEF a, b
<1>2. /\ \A i \in DOMAIN a : i \in DOMAIN w /\ i <= n
      /\ \A i \in DOMAIN b : n + i \in DOMAIN w /\ n + i > n
  BY <1>1
<1>3. Heads(a) \subseteq Heads(w) /\ Heads(b) \subseteq Heads(w)
  BY <1>1, <1>2 DEF Heads
<1>4. ASSUME HeadsInOrder(w) PROVE HeadsInOrder(b)
  BY <1>1, <1>2, <1>4 DEF HeadsInOrder
<1>5. ASSUME HeadsInOrder(w) PROVE Precede(Heads(a), Heads(b))
  <2>1. SUFFICES ASSUME NEW k \in Heads(a), NEW l \in Heads(b) PROVE k < l
    BY DEF Precede
  <2>2. PICK i \in DOMAIN a : a[i] = HeadPart(k)
    BY DEF Heads
  <2>3. PICK j \in DOMAIN b : b[j] = HeadPart(l)
    BY DEF Heads
  <2>4. i < n + j /\ w[i] = HeadPart(k) /\ w[n + j] = HeadPart(l)
    BY <1>1, <1>2, <2>2, <2>3
  <2>5. k \in 1..MaxPush /\ l \in 1..MaxPush
    BY DEF Heads
  <2>6. QED
    BY <1>2, <1>5, <2>4, <2>5 DEF HeadsInOrder
<1>6. QED
  BY <1>3, <1>4, <1>5 DEF a, b

LEMMA OrderInit == Init => OrderInv
BY DEF Init, OrderInv, Increasing, MsgsInOrder, ReadsInOrder, HeadsInOrder, Precede,
       ToSet, Msgs, ReadHeads, Heads

(* Steps that take no pushed message any further.                          *)
LEMMA OrderTake ==
    ASSUME TypeOK, OrderInv, main # <<>>,
           \/ main' = Tail(main)
           \/ \E b \in BlockType : b.op \notin {"message", "read"} /\ main' = Append(Tail(main), b),
           UNCHANGED <<arrived, decrypt, wire, pushed>>
    PROVE  OrderInv'
<1>1. main \in Seq(BlockType) /\ Tail(main) \in Seq(BlockType)
  BY FirstBlock DEF TypeOK
<1>2. /\ Msgs(Tail(main)) \subseteq Msgs(main) /\ ReadHeads(Tail(main)) \subseteq ReadHeads(main)
      /\ MsgsInOrder(Tail(main)) /\ ReadsInOrder(Tail(main))
  BY <1>1, BlocksTake DEF OrderInv
<1>3. /\ Msgs(main') \subseteq Msgs(main) /\ ReadHeads(main') \subseteq ReadHeads(main)
      /\ MsgsInOrder(main') /\ ReadsInOrder(main')
  <2>1. CASE main' = Tail(main)
    BY <1>2, <2>1
  <2>2. ASSUME NEW b \in BlockType, b.op \notin {"message", "read"},
               main' = Append(Tail(main), b)
        PROVE  /\ Msgs(main') \subseteq Msgs(main) /\ ReadHeads(main') \subseteq ReadHeads(main)
               /\ MsgsInOrder(main') /\ ReadsInOrder(main')
    BY <1>1, <1>2, <2>2, BlocksPost
  <2>3. QED
    BY <2>1, <2>2
<1>4. QED
  BY <1>3 DEF OrderInv, Precede

LEMMA OrderPost ==
    ASSUME TypeOK, OrderInv,
           \/ main' = main
           \/ \E b \in BlockType : b.op \notin {"message", "read"} /\ main' = Append(main, b),
           UNCHANGED <<arrived, decrypt, pushed>>,
           Heads(wire') \subseteq Heads(wire), HeadsInOrder(wire')
    PROVE  OrderInv'
<1>1. main \in Seq(BlockType)
  BY DEF TypeOK
<1>2. /\ Msgs(main') = Msgs(main) /\ ReadHeads(main') = ReadHeads(main)
      /\ MsgsInOrder(main') /\ ReadsInOrder(main')
  <2>1. CASE main' = main
    BY <2>1 DEF OrderInv
  <2>2. ASSUME NEW b \in BlockType, b.op \notin {"message", "read"}, main' = Append(main, b)
        PROVE  /\ Msgs(main') = Msgs(main) /\ ReadHeads(main') = ReadHeads(main)
               /\ MsgsInOrder(main') /\ ReadsInOrder(main')
    BY <1>1, <2>2, BlocksPost DEF OrderInv
  <2>3. QED
    BY <2>1, <2>2
<1>3. QED
  BY <1>2 DEF OrderInv, Precede

LEMMA OrderStep == TypeOK /\ OrderInv /\ [Next]_vars => OrderInv'
<1> SUFFICES ASSUME TypeOK, OrderInv, [Next]_vars PROVE OrderInv'
  OBVIOUS
<1> USE DEF line, history, bounds
<1>0. /\ main \in Seq(BlockType) /\ wire \in Seq(PartType) /\ pushed \in 0..MaxPush
      /\ decrypt \in Seq(1..MaxPush) /\ arrived \in Seq(1..MaxPush)
  BY DEF TypeOK
<1>1. CASE Transmit
  <2>1. Head(writes) \in Tag
    BY <1>1, FirstOf DEF Transmit, TypeOK
  <2>2. Block("wrote", Head(writes)) \in BlockType /\ Block("wrote", Head(writes)).op = "wrote"
    BY <2>1, BlockTypes DEF Block
  <2>3. HeadsInOrder(wire)
    BY DEF OrderInv
  <2>4. QED
    BY <1>1, <2>2, <2>3, OrderPost DEF Transmit, Post
<1>2. CASE Answer
  <2>1. PICK kind \in Kind : wire' = wire \o Bytes(Frame(kind, Head(asked)))
    BY <1>2 DEF Answer, Kind
  <2> DEFINE f == Frame(kind, Head(asked))
  <2>2. f \in FrameType /\ \A k \in 1..MaxPush : f # Pushed(k)
    <3>1. Head(asked) \in Tag
      BY <1>2, FirstOf DEF Answer, TypeOK
    <3>2. QED
      BY <3>1, FrameTypes DEF Frame, Pushed, Kind
  <2> HIDE DEF f
  <2>3. wire' = wire \o Bytes(f)
    BY <2>1 DEF f
  <2>4. Heads(wire') = Heads(wire) /\ HeadsInOrder(wire')
    <3>1. {k \in 1..MaxPush : f = Pushed(k)} = {}
      BY <2>2
    <3>2. HeadsInOrder(wire) /\ Precede(Heads(wire), {k \in 1..MaxPush : f = Pushed(k)})
      BY <3>1 DEF OrderInv, Precede
    <3>3. QED
      BY <1>0, <2>2, <2>3, <3>1, <3>2, WireWrite
  <2>5. QED
    BY <1>2, <2>4, OrderPost DEF Answer
<1>3. CASE Push
  <2>1. pushed' = pushed + 1 /\ pushed' \in 1..MaxPush
    <3>1. pushed < MaxPush /\ pushed' = pushed + 1
      BY <1>3, Zenon DEF Push
    <3>2. QED
      BY <1>0, <3>1, BoundsAssumption
  <2>2. /\ Pushed(pushed') \in FrameType
        /\ {k \in 1..MaxPush : Pushed(pushed') = Pushed(k)} = {pushed'}
    BY <2>1, FrameTypes, PushedDistinct
  <2>3. Precede(Heads(wire), {pushed'})
    BY <1>0, <2>1 DEF OrderInv, Precede
  <2>4. Heads(wire') = Heads(wire) \cup {pushed'} /\ HeadsInOrder(wire')
    BY <1>0, <1>3, <2>2, <2>3, WireWrite DEF Push, OrderInv
  <2>5. UNCHANGED <<main, decrypt, arrived>>
    BY <1>3 DEF Push
  <2>6. 1..pushed \subseteq 1..pushed' /\ \A x \in 1..pushed : x < pushed'
    BY <1>0, <2>1
  <2>7. QED
    BY <1>0, <2>1, <2>4, <2>5, <2>6 DEF OrderInv, Precede
<1>4. CASE Read
  <2>1. PICK n \in 1..Len(wire) :
            /\ main' = Append(main, [Block("read", Head(reads)) EXCEPT !.data = SubSeq(wire, 1, n)])
            /\ wire' = SubSeq(wire, n + 1, Len(wire))
    BY <1>4 DEF Read, Post
  <2> DEFINE b == [Block("read", Head(reads)) EXCEPT !.data = SubSeq(wire, 1, n)]
  <2>2. Head(reads) \in Tag /\ SubSeq(wire, 1, n) \in Seq(PartType)
    <3>1. reads \in Seq(Tag)
      BY DEF TypeOK
    <3>2. QED
      BY <1>0, <1>4, <3>1, FirstOf DEF Read
  <2>3. b \in BlockType /\ b.op = "read" /\ b.data = SubSeq(wire, 1, n)
    BY <2>2, BlockTypes DEF Block
  <2> HIDE DEF b
  <2>4. main' = Append(main, b)
    BY <2>1 DEF b
  <2>5. /\ Heads(b.data) \subseteq Heads(wire) /\ Heads(wire') \subseteq Heads(wire)
        /\ HeadsInOrder(wire') /\ Precede(Heads(b.data), Heads(wire'))
    BY <1>0, <2>1, <2>3, WireCut DEF OrderInv
  <2>6. Precede(ReadHeads(main), Heads(b.data))
    BY <2>5 DEF OrderInv, Precede
  <2>7. /\ Msgs(main') = Msgs(main) /\ ReadHeads(main') = ReadHeads(main) \cup Heads(b.data)
        /\ MsgsInOrder(main') /\ ReadsInOrder(main')
    BY <1>0, <2>3, <2>4, <2>6, BlocksPost DEF OrderInv
  <2>8. UNCHANGED <<decrypt, arrived, pushed>>
    BY <1>4 DEF Read
  <2>9. QED
    BY <2>5, <2>7, <2>8 DEF OrderInv, Precede
<1>5. CASE Break
  <2>1. Block("lost", "none") \in BlockType /\ Block("lost", "none").op = "lost"
    BY Tags, BlockTypes DEF Block
  <2>2. Heads(wire') \subseteq Heads(wire) /\ HeadsInOrder(wire')
    BY <1>5 DEF Break, Heads, HeadsInOrder
  <2>3. QED
    BY <1>5, <2>1, <2>2, OrderPost DEF Break, Post
<1>6. CASE DidWrite
  BY <1>6, OrderTake DEF DidWrite, Begin
<1>7. CASE DropRead
  BY <1>7, OrderTake DEF DropRead, Begin
<1>8. CASE ReadTrap
  BY <1>8, OrderPost DEF ReadTrap, OrderInv
<1>9. CASE LoginResponse
  BY <1>9, OrderTake DEF LoginResponse, Received, Begin
<1>10. CASE KeepaliveResponse
  BY <1>10, OrderTake DEF KeepaliveResponse, Received, Begin
<1>11. CASE MessageResponse
  <2>1. main # <<>> /\ UNCHANGED <<arrived, decrypt, wire, pushed>>
    BY <1>11 DEF MessageResponse, Received, Begin
  <2>2. Head(main).tag \in Tag
    BY <2>1, FirstBlock, BlockFields
  <2>3. PICK sent \in BOOLEAN :
            main' = Append(Tail(main), [Block("status", Head(main).tag) EXCEPT !.sent = sent])
    BY <1>11 DEF MessageResponse
  <2>4. /\ [Block("status", Head(main).tag) EXCEPT !.sent = sent] \in BlockType
        /\ [Block("status", Head(main).tag) EXCEPT !.sent = sent].op = "status"
    BY <2>2, BlockTypes DEF Block
  <2>5. QED
    BY <2>1, <2>3, <2>4, OrderTake
<1>12. CASE MessageRequest
  <2> DEFINE k == Head(main).data[1].frame.of
  <2>1. /\ main # <<>> /\ Head(main).op = "read" /\ main' = Tail(main)
        /\ decrypt' = Append(decrypt, k) /\ UNCHANGED <<arrived, wire, pushed>>
    BY <1>12 DEF MessageRequest, Received, Begin
  <2>2. k \in 1..MaxPush /\ k \in Heads(Head(main).data)
    <3>1. Head(main).data \in Seq(PartType)
      BY <2>1, FirstBlock, BlockFields
    <3>2. 1 \in DOMAIN Head(main).data /\ Head(main).data[1].part = "head"
      BY <1>12, WholeRead DEF MessageRequest, Received
    <3>3. Head(main).data[1] \in PartType
      BY <3>1, <3>2
    <3>4. Head(main).data[1].frame.kind = "push"
      BY <1>12 DEF MessageRequest, Received
    <3>5. k \in 1..MaxPush /\ Head(main).data[1].frame = Pushed(k)
      BY <3>3, <3>4, FrameTypes DEF PartType
    <3>6. Head(main).data[1] = HeadPart(k)
      BY <3>2, <3>3, <3>5 DEF PartType, HeadPart
    <3>7. QED
      BY <3>2, <3>5, <3>6 DEF Heads
  <2> HIDE DEF k
  <2>3. /\ Msgs(main') \subseteq Msgs(main) /\ ReadHeads(main') \subseteq ReadHeads(main)
        /\ MsgsInOrder(main') /\ ReadsInOrder(main')
        /\ k \in ReadHeads(main) /\ Precede({k}, ReadHeads(main'))
    <3>1. /\ Heads(Head(main).data) \subseteq ReadHeads(main)
          /\ Precede(Heads(Head(main).data), ReadHeads(Tail(main)))
      BY <1>0, <2>1, BlocksTake DEF OrderInv
    <3>2. QED
      BY <1>0, <2>1, <2>2, <3>1, BlocksTake DEF OrderInv, Precede
  <2>4. Precede(ToSet(decrypt), {k})
    BY <2>3 DEF OrderInv, Precede
  <2>5. ToSet(decrypt') = ToSet(decrypt) \cup {k} /\ Increasing(decrypt')
    BY <1>0, <2>1, <2>2, <2>4, NumbersPost DEF OrderInv
  <2>6. QED
    BY <2>1, <2>3, <2>5 DEF OrderInv, Precede
<1>13. CASE Decrypt
  <2> DEFINE k == Head(decrypt)
             b == [Block("message", "none") EXCEPT !.of = k]
  <2>1. /\ decrypt # <<>> /\ decrypt' = Tail(decrypt) /\ main' = Append(main, b)
        /\ UNCHANGED <<arrived, wire, pushed>>
    BY <1>13 DEF Decrypt, Post
  <2>2. k \in 1..MaxPush
    BY <1>0, <2>1, FirstOf
  <2>3. b \in BlockType /\ b.op = "message" /\ b.of = k
    BY <2>2, BlockTypes DEF Block
  <2> HIDE DEF b
  <2>4. /\ ToSet(decrypt) = {k} \cup ToSet(decrypt') /\ Increasing(decrypt')
        /\ Precede({k}, ToSet(decrypt'))
    BY <1>0, <2>1, NumbersTake DEF OrderInv
  <2> HIDE DEF k
  <2>5. Precede(Msgs(main), {k})
    BY <2>4 DEF OrderInv, Precede
  <2>6. /\ Msgs(main') = Msgs(main) \cup {k} /\ ReadHeads(main') = ReadHeads(main)
        /\ MsgsInOrder(main') /\ ReadsInOrder(main')
    BY <1>0, <2>1, <2>3, <2>5, BlocksPost DEF OrderInv
  <2>7. QED
    BY <2>1, <2>4, <2>6 DEF OrderInv, Precede
<1>14. CASE NewMsgArrived
  <2> DEFINE k == Head(main).of
  <2>1. /\ main # <<>> /\ Head(main).op = "message" /\ main' = Tail(main)
        /\ arrived' = Append(arrived, k) /\ UNCHANGED <<decrypt, wire, pushed>>
    BY <1>14 DEF NewMsgArrived, Begin
  <2>2. k \in 1..MaxPush
    BY <2>1, FirstBlock, BlockFields
  <2>3. /\ Msgs(main') \subseteq Msgs(main) /\ ReadHeads(main') \subseteq ReadHeads(main)
        /\ MsgsInOrder(main') /\ ReadsInOrder(main')
        /\ k \in Msgs(main) /\ Precede({k}, Msgs(main'))
    BY <1>0, <2>1, BlocksTake DEF OrderInv
  <2> HIDE DEF k
  <2>4. Precede(ToSet(arrived), {k})
    BY <2>3 DEF OrderInv, Precede
  <2>5. ToSet(arrived') = ToSet(arrived) \cup {k} /\ Increasing(arrived')
    BY <1>0, <2>1, <2>2, <2>4, NumbersPost DEF OrderInv
  <2>6. QED
    BY <2>1, <2>3, <2>5 DEF OrderInv, Precede
<1>15. CASE DidDisconnect
  BY <1>15, OrderTake DEF DidDisconnect, Begin
<1>16. ASSUME NEW msg \in Message, SendMessage(msg) PROVE OrderInv'
  <2>1. Block("show", msg) \in BlockType /\ Block("show", msg).op = "show"
    BY Tags, BlockTypes DEF Block
  <2>2. HeadsInOrder(wire)
    BY DEF OrderInv
  <2>3. QED
    BY <1>16, <2>1, <2>2, OrderPost DEF SendMessage, Post
<1>17. CASE DisplayMsg
  BY <1>17, OrderTake DEF DisplayMsg, Begin
<1>18. CASE HeartBeat
  BY <1>18, OrderPost DEF HeartBeat, OrderInv
<1>19. CASE MsgSentStatus
  BY <1>19, OrderTake DEF MsgSentStatus, Begin
<1>20. CASE ShowStatus
  BY <1>20, OrderPost DEF ShowStatus, OrderInv
<1>21. CASE UNCHANGED vars
  BY <1>21, OrderPost DEF vars, OrderInv
<1>22. QED
  BY <1>1, <1>2, <1>3, <1>4, <1>5, <1>6, <1>7, <1>8, <1>9, <1>10, <1>11, <1>12,
     <1>13, <1>14, <1>15, <1>16, <1>17, <1>18, <1>19, <1>20, <1>21
     DEF Next, Socket, Delegate
-----------------------------------------------------------------------------
(***************************************************************************)
(* Nothing is lost: the head of every frame that was pushed is in one of   *)
(* the places OrderInv names, or the frame is among those dropped.  A step *)
(* takes it from one place and puts it in the next, or drops the frame it  *)
(* belongs to.                                                             *)
(***************************************************************************)
Losses == {k \in 1..MaxPush : Pushed(k) \in dropped}

KeptInv == 1..pushed \subseteq ToSet(arrived) \cup Msgs(main) \cup ToSet(decrypt)
                               \cup ReadHeads(main) \cup Heads(wire) \cup Losses

MsgOf(b)   == IF b.op = "message" THEN {b.of} ELSE {}
HeadsOf(b) == IF b.op = "read" THEN Heads(b.data) ELSE {}

LEMMA BlocksLeft ==
    ASSUME NEW q \in Seq(BlockType), q # <<>>
    PROVE  /\ Msgs(q) \subseteq MsgOf(Head(q)) \cup Msgs(Tail(q))
           /\ ReadHeads(q) \subseteq HeadsOf(Head(q)) \cup ReadHeads(Tail(q))
<1>1. /\ Head(q) = q[1] /\ 1 \in DOMAIN q /\ DOMAIN q = 1..Len(q)
      /\ DOMAIN Tail(q) = 1..(Len(q) - 1)
      /\ \A i \in DOMAIN q : i # 1 => i - 1 \in DOMAIN Tail(q) /\ Tail(q)[i - 1] = q[i]
  BY FirstOf
<1>2. Msgs(q) \subseteq MsgOf(Head(q)) \cup Msgs(Tail(q))
  BY <1>1 DEF Msgs, MsgOf
<1>3. ASSUME NEW k \in ReadHeads(q)
      PROVE  k \in HeadsOf(Head(q)) \cup ReadHeads(Tail(q))
  <2>1. PICK i \in DOMAIN q : q[i].op = "read" /\ k \in Heads(q[i].data)
    BY DEF ReadHeads
  <2>2. QED
    BY <1>1, <2>1 DEF ReadHeads, HeadsOf
<1>4. QED
  BY <1>2, <1>3

LEMMA WireParts ==
    ASSUME NEW w \in Seq(PartType), NEW n \in 1..Len(w)
    PROVE  Heads(w) \subseteq Heads(SubSeq(w, 1, n)) \cup Heads(SubSeq(w, n + 1, Len(w)))
<1> DEFINE a == SubSeq(w, 1, n)
           b == SubSeq(w, n + 1, Len(w))
<1>1. /\ DOMAIN w = 1..Len(w) /\ DOMAIN a = 1..n /\ DOMAIN b = 1..(Len(w) - n)
      /\ \A i \in 1..n : a[i] = w[i]
      /\ \A i \in 1..(Len(w) - n) : b[i] = w[n + i]
  OBVIOUS
<1> HIDE DEF a, b
<1>2. ASSUME NEW i \in DOMAIN w, i > n PROVE i - n \in DOMAIN b /\ b[i - n] = w[i]
  <2>1. i - n \in 1..(Len(w) - n) /\ n + (i - n) = i
    BY <1>1, <1>2
  <2>2. b[i - n] = w[n + (i - n)]
    BY <1>1, <2>1
  <2>3. QED
    BY <1>1, <2>1, <2>2
<1>3. ASSUME NEW i \in DOMAIN w, ~(i > n) PROVE i \in DOMAIN a /\ a[i] = w[i]
  BY <1>1, <1>3
<1>4. QED
  BY <1>2, <1>3 DEF Heads, a, b

(* The heads of a read, or of the wire, belong to its frames.              *)
LEMMA HeadsAreFrames ==
    ASSUME NEW s, NEW k \in Heads(s)
    PROVE  Pushed(k) \in {s[i].frame : i \in DOMAIN s}
BY DEF Heads, HeadPart

(* A read that is one frame has no head of another.                        *)
LEMMA WholeHeads ==
    ASSUME NEW data, Whole(data), NEW k \in Heads(data)
    PROVE  data[1].frame = Pushed(k)
BY WholeRead, HeadsAreFrames

LEMMA KeptInit == Init => KeptInv
BY DEF Init, KeptInv

(* A step of the main queue: what its block carried goes somewhere.        *)
LEMMA KeptTake ==
    ASSUME TypeOK, KeptInv, main # <<>>,
           main' = Tail(main) \/ \E b \in BlockType : main' = Append(Tail(main), b),
           MsgOf(Head(main)) \subseteq ToSet(arrived)',
           HeadsOf(Head(main)) \subseteq ToSet(decrypt)' \cup Losses',
           ToSet(arrived) \subseteq ToSet(arrived)', ToSet(decrypt) \subseteq ToSet(decrypt)',
           Losses \subseteq Losses', UNCHANGED <<wire, pushed>>
    PROVE  KeptInv'
<1>1. main \in Seq(BlockType) /\ Tail(main) \in Seq(BlockType)
  BY FirstBlock DEF TypeOK
<1>2. Msgs(Tail(main)) \subseteq Msgs(main)' /\ ReadHeads(Tail(main)) \subseteq ReadHeads(main)'
  <2>1. \A b \in BlockType :
            /\ Msgs(Tail(main)) \subseteq Msgs(Append(Tail(main), b))
            /\ ReadHeads(Tail(main)) \subseteq ReadHeads(Append(Tail(main), b))
    BY <1>1, BlocksPost
  <2>2. QED
    BY <2>1
<1>3. /\ Msgs(main) \subseteq MsgOf(Head(main)) \cup Msgs(main)'
      /\ ReadHeads(main) \subseteq HeadsOf(Head(main)) \cup ReadHeads(main)'
  BY <1>1, <1>2, BlocksLeft
<1>4. Heads(wire)' = Heads(wire) /\ pushed' = pushed
  OBVIOUS
<1>5. QED
  BY <1>3, <1>4 DEF KeptInv

LEMMA KeptPost ==
    ASSUME TypeOK, KeptInv,
           main' = main \/ \E b \in BlockType : main' = Append(main, b),
           UNCHANGED <<arrived, decrypt, pushed>>, Losses \subseteq Losses',
           Heads(wire) \subseteq Heads(wire)' \cup Losses'
    PROVE  KeptInv'
<1>1. main \in Seq(BlockType)
  BY DEF TypeOK
<1>2. \A b \in BlockType : /\ Msgs(main) \subseteq Msgs(Append(main, b))
                           /\ ReadHeads(main) \subseteq ReadHeads(Append(main, b))
  BY <1>1, BlocksPost
<1>3. Msgs(main) \subseteq Msgs(main)' /\ ReadHeads(main) \subseteq ReadHeads(main)'
  BY <1>2
<1>4. ToSet(arrived)' = ToSet(arrived) /\ ToSet(decrypt)' = ToSet(decrypt) /\ pushed' = pushed
  OBVIOUS
<1>5. QED
  BY <1>3, <1>4 DEF KeptInv

(* Blocks that carry no pushed message.                                    *)
LEMMA NoneCarried ==
    ASSUME NEW b, b.op \notin {"message", "read"}
    PROVE  MsgOf(b) = {} /\ HeadsOf(b) = {}
BY DEF MsgOf, HeadsOf

LEMMA NonePushed ==
    ASSUME NEW b, b.op = "read", Whole(b.data), b.data[1].frame.kind # "push"
    PROVE  MsgOf(b) = {} /\ HeadsOf(b) = {}
<1>1. ASSUME NEW k \in Heads(b.data) PROVE FALSE
  <2>1. b.data[1].frame = Pushed(k)
    BY WholeHeads
  <2>2. QED
    BY <2>1 DEF Pushed
<1>2. QED
  BY <1>1 DEF MsgOf, HeadsOf

LEMMA KeptStep == TypeOK /\ KeptInv /\ [Next]_vars => KeptInv'
<1> SUFFICES ASSUME TypeOK, KeptInv, [Next]_vars PROVE KeptInv'
  OBVIOUS
<1> USE DEF line, history, bounds
<1>0. /\ main \in Seq(BlockType) /\ wire \in Seq(PartType) /\ pushed \in 0..MaxPush
      /\ decrypt \in Seq(1..MaxPush) /\ arrived \in Seq(1..MaxPush)
  BY DEF TypeOK
<1>same. UNCHANGED dropped => Losses' = Losses
  BY DEF Losses
<1>1. CASE Transmit
  <2>1. Head(writes) \in Tag
    BY <1>1, FirstOf DEF Transmit, TypeOK
  <2>2. Block("wrote", Head(writes)) \in BlockType
    BY <2>1, BlockTypes
  <2>3. QED
    BY <1>1, <1>same, <2>2, KeptPost DEF Transmit, Post
<1>2. CASE Answer
  <2>1. PICK kind \in Kind : wire' = wire \o Bytes(Frame(kind, Head(asked)))
    BY <1>2 DEF Answer, Kind
  <2>2. Frame(kind, Head(asked)) \in FrameType
    BY <1>2, FirstOf, FrameTypes DEF Answer, TypeOK
  <2>3. Heads(wire) \subseteq Heads(wire')
    BY <1>0, <2>1, <2>2, WireWrite
  <2>4. QED
    BY <1>2, <1>same, <2>3, KeptPost DEF Answer
<1>3. CASE Push
  <2>1. pushed' = pushed + 1 /\ pushed' \in 1..MaxPush
    <3>1. pushed < MaxPush /\ pushed' = pushed + 1
      BY <1>3, Zenon DEF Push
    <3>2. QED
      BY <1>0, <3>1, BoundsAssumption
  <2>2. Heads(wire)' = Heads(wire) \cup {pushed'}
    <3>1. Pushed(pushed') \in FrameType /\ wire' = wire \o Bytes(Pushed(pushed'))
      BY <1>3, <2>1, FrameTypes DEF Push
    <3>2. {k \in 1..MaxPush : Pushed(pushed') = Pushed(k)} = {pushed'}
      BY <2>1, PushedDistinct
    <3>3. Heads(wire') = Heads(wire) \cup {k \in 1..MaxPush : Pushed(pushed') = Pushed(k)}
      BY <1>0, <3>1, WireWrite
    <3>4. QED
      BY <3>2, <3>3
  <2>3. 1..pushed' = 1..pushed \cup {pushed'}
    BY <1>0, <2>1
  <2>4. UNCHANGED <<main, decrypt, arrived, dropped>>
    BY <1>3 DEF Push
  <2>5. QED
    BY <1>same, <2>2, <2>3, <2>4 DEF KeptInv
<1>4. CASE Read
  <2>1. PICK n \in 1..Len(wire) :
            /\ main' = Append(main, [Block("read", Head(reads)) EXCEPT !.data = SubSeq(wire, 1, n)])
            /\ wire' = SubSeq(wire, n + 1, Len(wire))
    BY <1>4 DEF Read, Post
  <2> DEFINE b == [Block("read", Head(reads)) EXCEPT !.data = SubSeq(wire, 1, n)]
  <2>2. Head(reads) \in Tag /\ SubSeq(wire, 1, n) \in Seq(PartType)
    <3>1. reads \in Seq(Tag)
      BY DEF TypeOK
    <3>2. QED
      BY <1>0, <1>4, <3>1, FirstOf DEF Read
  <2>3. b \in BlockType /\ b.op = "read" /\ b.data = SubSeq(wire, 1, n)
    BY <2>2, BlockTypes DEF Block
  <2> HIDE DEF b
  <2>4. main' = Append(main, b)
    BY <2>1 DEF b
  <2>5. /\ Msgs(main') = Msgs(main)
        /\ ReadHeads(main') = ReadHeads(main) \cup Heads(SubSeq(wire, 1, n))
    BY <1>0, <2>3, <2>4, BlocksPost
  <2>6. Heads(wire) \subseteq Heads(SubSeq(wire, 1, n)) \cup Heads(wire')
    BY <1>0, <2>1, WireParts
  <2>7. UNCHANGED <<decrypt, arrived, pushed, dropped>>
    BY <1>4 DEF Read
  <2>8. QED
    BY <1>same, <2>5, <2>6, <2>7 DEF KeptInv
<1>5. CASE Break
  <2>1. Block("lost", "none") \in BlockType
    BY Tags, BlockTypes
  <2>2. dropped' = dropped \cup {wire[i].frame : i \in DOMAIN wire}
    BY <1>5 DEF Break
  <2>3. \A k \in Heads(wire) : k \in 1..MaxPush /\ Pushed(k) \in dropped'
    BY <2>2, HeadsAreFrames DEF Heads
  <2>4. Losses \subseteq Losses' /\ Heads(wire) \subseteq Losses'
    BY <2>2, <2>3 DEF Losses
  <2>5. QED
    BY <1>5, <2>1, <2>4, KeptPost DEF Break, Post
<1>6. CASE DidWrite
  BY <1>6, <1>same, NoneCarried, KeptTake DEF DidWrite, Begin
<1>7. CASE DropRead
  <2>1. /\ main # <<>> /\ Head(main).op = "read" /\ main' = Tail(main)
        /\ dropped' = dropped \cup {Head(main).data[i].frame : i \in DOMAIN Head(main).data}
        /\ UNCHANGED <<arrived, decrypt, wire, pushed>>
    BY <1>7 DEF DropRead, Begin
  <2>2. \A k \in Heads(Head(main).data) : k \in 1..MaxPush /\ Pushed(k) \in dropped'
    BY <2>1, HeadsAreFrames DEF Heads
  <2>3. /\ Losses \subseteq Losses' /\ HeadsOf(Head(main)) \subseteq Losses'
        /\ MsgOf(Head(main)) = {}
    BY <2>1, <2>2 DEF Losses, HeadsOf, MsgOf
  <2>4. QED
    BY <2>1, <2>3, KeptTake
<1>8. CASE ReadTrap
  BY <1>8, <1>same, KeptPost DEF ReadTrap
<1>9. CASE LoginResponse
  <2>1. MsgOf(Head(main)) = {} /\ HeadsOf(Head(main)) = {}
    BY <1>9, NonePushed DEF LoginResponse, Received, Begin
  <2>2. QED
    BY <1>9, <1>same, <2>1, KeptTake DEF LoginResponse, Received, Begin
<1>10. CASE KeepaliveResponse
  <2>1. MsgOf(Head(main)) = {} /\ HeadsOf(Head(main)) = {}
    BY <1>10, NonePushed DEF KeepaliveResponse, Received, Begin
  <2>2. QED
    BY <1>10, <1>same, <2>1, KeptTake DEF KeepaliveResponse, Received, Begin
<1>11. CASE MessageResponse
  <2>1. main # <<>> /\ UNCHANGED <<arrived, decrypt, wire, pushed, dropped>>
    BY <1>11 DEF MessageResponse, Received, Begin
  <2>2. MsgOf(Head(main)) = {} /\ HeadsOf(Head(main)) = {}
    BY <1>11, NonePushed DEF MessageResponse, Received, Begin
  <2>3. \E b \in BlockType : main' = Append(Tail(main), b)
    <3>1. Head(main).tag \in Tag
      BY <2>1, FirstBlock, BlockFields
    <3>2. \E sent \in BOOLEAN :
              main' = Append(Tail(main), [Block("status", Head(main).tag) EXCEPT !.sent = sent])
      BY <1>11 DEF MessageResponse
    <3>3. QED
      BY <3>1, <3>2, BlockTypes
  <2>4. QED
    BY <1>same, <2>1, <2>2, <2>3, KeptTake
<1>12. CASE MessageRequest
  <2> DEFINE k == Head(main).data[1].frame.of
  <2>1. /\ main # <<>> /\ Head(main).op = "read" /\ main' = Tail(main)
        /\ decrypt' = Append(decrypt, k) /\ UNCHANGED <<arrived, wire, pushed, dropped>>
        /\ Whole(Head(main).data) /\ Head(main).data[1].frame.kind = "push"
    BY <1>12 DEF MessageRequest, Received, Begin
  <2>2. k \in 1..MaxPush
    <3>1. Head(main).data \in Seq(PartType)
      BY <2>1, FirstBlock, BlockFields
    <3>2. Head(main).data[1] \in PartType
      BY <2>1, <3>1, WholeRead
    <3>3. QED
      BY <2>1, <3>2, FrameTypes DEF PartType
  <2>3. ASSUME NEW l \in Heads(Head(main).data) PROVE l = k
    <3>1. Head(main).data[1].frame = Pushed(l)
      BY <2>1, WholeHeads
    <3>2. QED
      BY <3>1 DEF Pushed
  <2> HIDE DEF k
  <2>4. ToSet(decrypt)' = ToSet(decrypt) \cup {k}
    BY <1>0, <2>1, <2>2, NumbersPost
  <2>5. MsgOf(Head(main)) = {} /\ HeadsOf(Head(main)) \subseteq ToSet(decrypt)'
    BY <2>1, <2>3, <2>4 DEF MsgOf, HeadsOf
  <2>6. QED
    BY <1>same, <2>1, <2>4, <2>5, KeptTake
<1>13. CASE Decrypt
  <2> DEFINE k == Head(decrypt)
             b == [Block("message", "none") EXCEPT !.of = k]
  <2>1. /\ decrypt # <<>> /\ decrypt' = Tail(decrypt) /\ main' = Append(main, b)
        /\ UNCHANGED <<arrived, wire, pushed, dropped>>
    BY <1>13 DEF Decrypt, Post
  <2>2. k \in 1..MaxPush
    BY <1>0, <2>1, FirstOf
  <2>3. b \in BlockType /\ b.op = "message" /\ b.of = k
    BY <2>2, BlockTypes DEF Block
  <2> HIDE DEF b
  <2>4. ToSet(decrypt) = {k} \cup ToSet(decrypt')
    BY <1>0, <2>1, NumbersTake
  <2>5. Msgs(main') = Msgs(main) \cup {k} /\ ReadHeads(main') = ReadHeads(main)
    BY <1>0, <2>1, <2>3, BlocksPost
  <2> HIDE DEF k
  <2>6. QED
    BY <1>same, <2>1, <2>4, <2>5 DEF KeptInv
<1>14. CASE NewMsgArrived
  <2> DEFINE k == Head(main).of
  <2>1. /\ main # <<>> /\ Head(main).op = "message" /\ main' = Tail(main)
        /\ arrived' = Append(arrived, k) /\ UNCHANGED <<decrypt, wire, pushed, dropped>>
    BY <1>14 DEF NewMsgArrived, Begin
  <2>2. k \in 1..MaxPush
    BY <2>1, FirstBlock, BlockFields
  <2>3. MsgOf(Head(main)) = {k} /\ HeadsOf(Head(main)) = {}
    BY <2>1 DEF MsgOf, HeadsOf
  <2> HIDE DEF k
  <2>4. ToSet(arrived)' = ToSet(arrived) \cup {k}
    BY <1>0, <2>1, <2>2, NumbersPost
  <2>5. QED
    BY <1>same, <2>1, <2>3, <2>4, KeptTake
<1>15. CASE DidDisconnect
  BY <1>15, <1>same, NoneCarried, KeptTake DEF DidDisconnect, Begin
<1>16. ASSUME NEW msg \in Message, SendMessage(msg) PROVE KeptInv'
  <2>1. Block("show", msg) \in BlockType
    BY Tags, BlockTypes
  <2>2. QED
    BY <1>16, <1>same, <2>1, KeptPost DEF SendMessage, Post
<1>17. CASE DisplayMsg
  BY <1>17, <1>same, NoneCarried, KeptTake DEF DisplayMsg, Begin
<1>18. CASE HeartBeat
  BY <1>18, <1>same, KeptPost DEF HeartBeat
<1>19. CASE MsgSentStatus
  BY <1>19, <1>same, NoneCarried, KeptTake DEF MsgSentStatus, Begin
<1>20. CASE ShowStatus
  BY <1>20, <1>same, KeptPost DEF ShowStatus
<1>21. CASE UNCHANGED vars
  BY <1>21, <1>same, KeptPost DEF vars
<1>22. QED
  BY <1>1, <1>2, <1>3, <1>4, <1>5, <1>6, <1>7, <1>8, <1>9, <1>10, <1>11, <1>12,
     <1>13, <1>14, <1>15, <1>16, <1>17, <1>18, <1>19, <1>20, <1>21
     DEF Next, Socket, Delegate

(* What the server pushes reaches the chat in its order, none twice, and   *)
(* once everything has settled only a frame cut by a read or lost with the *)
(* connection is missing: for any number of messages, cut in any way.      *)
THEOREM PushedMessagesAreKept == Spec => []PushesKept
<1>1. OrderInv => InOrder
  BY DEF OrderInv, Increasing, InOrder
<1>2. KeptInv => NothingLost
  <2>1. SUFFICES ASSUME KeptInv, Quiet, NEW k \in 1..pushed
                 PROVE  k \in ToSet(arrived) \/ Pushed(k) \in dropped
    BY DEF NothingLost
  <2>2. Msgs(main) = {} /\ ReadHeads(main) = {} /\ ToSet(decrypt) = {} /\ Heads(wire) = {}
    BY <2>1 DEF Quiet, Msgs, ReadHeads, ToSet, Heads
  <2>3. QED
    BY <2>1, <2>2 DEF KeptInv, Losses
<1>3. Spec => [](TypeOK /\ OrderInv /\ KeptInv)
  BY TypeInit, TypeStep, OrderInit, OrderStep, KeptInit, KeptStep, PTL DEF Spec
<1>4. QED
  BY <1>1, <1>2, <1>3, PTL DEF PushesKept

-----------------------------------------------------------------------------
(***************************************************************************)
(* MarksFit.  While nothing has gone wrong a message is in one place on    *)
(* its way out: waiting to be written, waiting for an answer, accepted, or *)
(* refused, and a refusal is a frame, a status, a mark or what is shown.   *)
(* The block that shows a message comes before the end of its write, and   *)
(* only that asks for the read its answer is reported with; so nothing     *)
(* that shows a message as delivered comes after what shows it as failed.  *)
(***************************************************************************)
Has(q, op, m)         == \E i \in DOMAIN q : q[i].op = op /\ q[i].tag = m
HasStatus(q, m, sent) == \E i \in DOMAIN q : q[i].op = "status" /\ q[i].tag = m /\ q[i].sent = sent
HasFrame(s, f)        == \E i \in DOMAIN s : s[i].frame = f
HasRead(q, f)         == \E i \in DOMAIN q : q[i].op = "read" /\ HasFrame(q[i].data, f)
HasMark(s, m, sent)   == \E i \in DOMAIN s : s[i].tag = m /\ s[i].sent = sent
HasTag(s, m)          == \E i \in DOMAIN s : s[i] = m

Once(s, m) == \A i, j \in DOMAIN s : s[i] = m /\ s[j] = m => i = j
ShowsFirst(q, m) ==
    \A i, j \in DOMAIN q : q[i].op = "wrote" /\ q[i].tag = m
                              /\ q[j].op \in {"show", "wrote"} /\ q[j].tag = m => j <= i
RefusedLast(s, m) ==
    \A i, j \in DOMAIN s : s[i].tag = m /\ s[i].sent = FALSE /\ s[j].tag = m /\ s[j].sent = TRUE
                              => j < i

Sent(m)     == shown[m] # "no" \/ Has(main, "show", m)
Reported(m) == \/ HasTag(reads, m) \/ Has(main, "read", m) \/ Has(main, "status", m)
               \/ HasMark(marks, m, FALSE) \/ shown[m] = "failed"
Refused(m)  == LET f == Frame("refused", m) IN
               \/ f \in dropped \/ HasFrame(wire, f) \/ HasRead(main, f)
               \/ HasStatus(main, m, FALSE) \/ HasMark(marks, m, FALSE) \/ shown[m] = "failed"
Accepted(m) == LET f == Frame("accepted", m) IN
               HasFrame(wire, f) \/ HasRead(main, f) \/ HasStatus(main, m, TRUE)

Fate(m) ==
    /\ Once(writes, m) /\ Once(asked, m)
    /\ HasTag(writes, m) => ~(HasTag(asked, m) \/ m \in taken \/ Refused(m)
                                \/ Has(main, "wrote", m) \/ Reported(m))
    /\ HasTag(asked, m) => m \notin taken /\ ~Refused(m)
    /\ m \in taken => ~Refused(m)
    /\ Accepted(m) => m \in taken
    /\ ShowsFirst(main, m) /\ (Reported(m) => ~Has(main, "show", m) /\ ~Has(main, "wrote", m))
    /\ RefusedLast(marks, m) /\ (shown[m] = "failed" => ~HasMark(marks, m, TRUE))
    /\ Sent(m) => HasTag(writes, m) \/ HasTag(asked, m) \/ m \in taken \/ Refused(m)
    /\ HasTag(writes, m) \/ HasTag(asked, m) \/ m \in taken \/ Refused(m)
          \/ Has(main, "wrote", m) \/ Reported(m) => Sent(m)

FateInv == causes = {} => started /\ ~Due(main, {"lost"}) /\ \A m \in Message : Fate(m)

(* Sequences of tags, of marks and of parts of frames.                     *)
LEMMA TagsPost ==
    ASSUME NEW S, NEW s \in Seq(S), NEW e \in S, NEW m
    PROVE  /\ HasTag(Append(s, e), m) <=> HasTag(s, m) \/ e = m
           /\ Once(s, m) /\ (e = m => ~HasTag(s, m)) => Once(Append(s, e), m)
<1>1. /\ DOMAIN Append(s, e) = 1..(Len(s) + 1) /\ DOMAIN s = 1..Len(s) /\ Len(s) \in Nat
      /\ Append(s, e)[Len(s) + 1] = e
      /\ \A i \in 1..Len(s) : Append(s, e)[i] = s[i]
  OBVIOUS
<1>2. QED
  BY <1>1 DEF HasTag, Once

LEMMA TagsTake ==
    ASSUME NEW S, NEW s \in Seq(S), s # <<>>, NEW m
    PROVE  /\ HasTag(s, m) <=> HasTag(Tail(s), m) \/ Head(s) = m
           /\ Once(s, m) => Once(Tail(s), m) /\ (Head(s) = m => ~HasTag(Tail(s), m))
<1>1. /\ Head(s) = s[1] /\ 1 \in DOMAIN s /\ DOMAIN s = 1..Len(s)
      /\ DOMAIN Tail(s) = 1..(Len(s) - 1)
      /\ \A i \in DOMAIN Tail(s) : i + 1 \in DOMAIN s /\ Tail(s)[i] = s[i + 1]
      /\ \A i \in DOMAIN s : i # 1 => i - 1 \in DOMAIN Tail(s) /\ Tail(s)[i - 1] = s[i]
  BY FirstOf
<1>2. ASSUME NEW i \in DOMAIN s, s[i] = m PROVE HasTag(Tail(s), m) \/ Head(s) = m
  BY <1>1, <1>2 DEF HasTag
<1>3. HasTag(Tail(s), m) \/ Head(s) = m => HasTag(s, m)
  BY <1>1 DEF HasTag
<1>4. ASSUME Once(s, m) PROVE Once(Tail(s), m) /\ (Head(s) = m => ~HasTag(Tail(s), m))
  <2>1. ASSUME NEW i \in DOMAIN Tail(s) PROVE i \in Nat /\ i + 1 # 1
    BY <1>1
  <2>2. QED
    BY <1>1, <1>4, <2>1 DEF HasTag, Once
<1>5. QED
  BY <1>2, <1>3, <1>4 DEF HasTag

LEMMA MarksPost ==
    ASSUME NEW s \in Seq(MarkType), NEW e \in MarkType, NEW m
    PROVE  /\ \A sent \in BOOLEAN : HasMark(Append(s, e), m, sent)
                                      <=> HasMark(s, m, sent) \/ (e.tag = m /\ e.sent = sent)
           /\ RefusedLast(s, m) /\ (e.tag = m /\ e.sent = TRUE => ~HasMark(s, m, FALSE))
                 => RefusedLast(Append(s, e), m)
<1>1. /\ DOMAIN Append(s, e) = 1..(Len(s) + 1) /\ DOMAIN s = 1..Len(s) /\ Len(s) \in Nat
      /\ Append(s, e)[Len(s) + 1] = e
      /\ \A i \in 1..Len(s) : Append(s, e)[i] = s[i]
  OBVIOUS
<1>2. QED
  BY <1>1 DEF HasMark, RefusedLast

LEMMA MarksTake ==
    ASSUME NEW s \in Seq(MarkType), s # <<>>, NEW m
    PROVE  /\ \A sent \in BOOLEAN : HasMark(s, m, sent)
                  <=> HasMark(Tail(s), m, sent) \/ (Head(s).tag = m /\ Head(s).sent = sent)
           /\ RefusedLast(s, m) =>
                 /\ RefusedLast(Tail(s), m)
                 /\ Head(s).tag = m /\ Head(s).sent = FALSE => ~HasMark(Tail(s), m, TRUE)
<1>1. /\ Head(s) = s[1] /\ 1 \in DOMAIN s /\ DOMAIN s = 1..Len(s)
      /\ DOMAIN Tail(s) = 1..(Len(s) - 1)
      /\ \A i \in DOMAIN Tail(s) : i + 1 \in DOMAIN s /\ Tail(s)[i] = s[i + 1]
      /\ \A i \in DOMAIN s : i # 1 => i - 1 \in DOMAIN Tail(s) /\ Tail(s)[i - 1] = s[i]
  BY FirstOf
<1>2. ASSUME NEW sent \in BOOLEAN, NEW i \in DOMAIN s, s[i].tag = m, s[i].sent = sent
      PROVE  HasMark(Tail(s), m, sent) \/ (Head(s).tag = m /\ Head(s).sent = sent)
  BY <1>1, <1>2 DEF HasMark
<1>3. ASSUME NEW sent \in BOOLEAN,
             HasMark(Tail(s), m, sent) \/ (Head(s).tag = m /\ Head(s).sent = sent)
      PROVE  HasMark(s, m, sent)
  BY <1>1, <1>3 DEF HasMark
<1>4. ASSUME RefusedLast(s, m) PROVE RefusedLast(Tail(s), m)
  BY <1>1, <1>4 DEF RefusedLast
<1>5. ASSUME RefusedLast(s, m), Head(s).tag = m, Head(s).sent = FALSE
      PROVE  ~HasMark(Tail(s), m, TRUE)
  BY <1>1, <1>5 DEF RefusedLast, HasMark
<1>6. QED
  BY <1>2, <1>3, <1>4, <1>5 DEF HasMark

LEMMA FramesWrite ==
    ASSUME NEW w \in Seq(PartType), NEW g \in FrameType, NEW f
    PROVE  HasFrame(w \o Bytes(g), f) <=> HasFrame(w, f) \/ f = g
<1> DEFINE t == Bytes(g)
<1>1. t \in Seq(PartType) /\ DOMAIN t = 1..2 /\ t[1].frame = g /\ t[2].frame = g /\ Len(t) = 2
  BY BytesType DEF Bytes
<1> HIDE DEF t
<1>2. /\ DOMAIN (w \o t) = 1..(Len(w) + Len(t)) /\ DOMAIN w = 1..Len(w)
      /\ \A i \in 1..Len(w) : (w \o t)[i] = w[i]
      /\ \A i \in 1..Len(t) : (w \o t)[Len(w) + i] = t[i]
  BY <1>1, ConcatOf
<1> DEFINE v == w \o t
<1>3. /\ DOMAIN v = 1..(Len(w) + 2) /\ \A i \in 1..Len(w) : v[i] = w[i]
      /\ v[Len(w) + 1].frame = g /\ v[Len(w) + 2].frame = g
  <2>1. DOMAIN v = 1..(Len(w) + 2) /\ \A i \in 1..Len(w) : v[i] = w[i]
    BY <1>1, <1>2
  <2>2. v[Len(w) + 1] = t[1] /\ v[Len(w) + 2] = t[2]
    BY <1>1, <1>2
  <2>3. QED
    BY <1>1, <2>1, <2>2
<1> HIDE DEF v
<1>4. HasFrame(v, f) <=> HasFrame(w, f) \/ f = g
  BY <1>2, <1>3 DEF HasFrame
<1>5. QED
  BY <1>4, Zenon DEF v, t

LEMMA FramesCut ==
    ASSUME NEW w \in Seq(PartType), NEW n \in 1..Len(w), NEW f
    PROVE  HasFrame(w, f) <=> HasFrame(SubSeq(w, 1, n), f) \/ HasFrame(SubSeq(w, n + 1, Len(w)), f)
<1> DEFINE a == SubSeq(w, 1, n)
           b == SubSeq(w, n + 1, Len(w))
<1>1. /\ DOMAIN w = 1..Len(w) /\ DOMAIN a = 1..n /\ DOMAIN b = 1..(Len(w) - n)
      /\ \A i \in 1..n : a[i] = w[i]
      /\ \A i \in 1..(Len(w) - n) : b[i] = w[n + i]
  OBVIOUS
<1> HIDE DEF a, b
<1>2. ASSUME NEW i \in DOMAIN w, i > n PROVE i - n \in DOMAIN b /\ b[i - n] = w[i]
  <2>1. i - n \in 1..(Len(w) - n) /\ n + (i - n) = i
    BY <1>1, <1>2
  <2>2. b[i - n] = w[n + (i - n)]
    BY <1>1, <2>1
  <2>3. QED
    BY <1>1, <2>1, <2>2
<1>3. ASSUME NEW i \in DOMAIN w, ~(i > n) PROVE i \in DOMAIN a /\ a[i] = w[i]
  BY <1>1, <1>3
<1>4. HasFrame(w, f) => HasFrame(a, f) \/ HasFrame(b, f)
  BY <1>2, <1>3 DEF HasFrame
<1>5. ASSUME NEW i \in DOMAIN a PROVE i \in DOMAIN w /\ a[i] = w[i]
  BY <1>1
<1>6. ASSUME NEW i \in DOMAIN b PROVE n + i \in DOMAIN w /\ b[i] = w[n + i]
  BY <1>1
<1>7. HasFrame(a, f) \/ HasFrame(b, f) => HasFrame(w, f)
  BY <1>5, <1>6 DEF HasFrame
<1>8. QED
  BY <1>4, <1>7 DEF a, b

(* The main queue.                                                         *)
LEMMA QueuePost ==
    ASSUME NEW q \in Seq(BlockType), NEW b \in BlockType, NEW m
    PROVE  /\ \A op : Has(Append(q, b), op, m) <=> Has(q, op, m) \/ (b.op = op /\ b.tag = m)
           /\ HasStatus(Append(q, b), m, TRUE)
                 <=> HasStatus(q, m, TRUE) \/ (b.op = "status" /\ b.tag = m /\ b.sent = TRUE)
           /\ HasStatus(Append(q, b), m, FALSE)
                 <=> HasStatus(q, m, FALSE) \/ (b.op = "status" /\ b.tag = m /\ b.sent = FALSE)
           /\ \A f : HasRead(Append(q, b), f)
                  <=> HasRead(q, f) \/ (b.op = "read" /\ HasFrame(b.data, f))
           /\ ShowsFirst(q, m) /\ (b.op \in {"show", "wrote"} /\ b.tag = m => ~Has(q, "wrote", m))
                 => ShowsFirst(Append(q, b), m)
<1>1. /\ DOMAIN Append(q, b) = 1..(Len(q) + 1) /\ DOMAIN q = 1..Len(q) /\ Len(q) \in Nat
      /\ Append(q, b)[Len(q) + 1] = b
      /\ \A i \in 1..Len(q) : Append(q, b)[i] = q[i]
  OBVIOUS
<1>2. \A op : Has(Append(q, b), op, m) <=> Has(q, op, m) \/ (b.op = op /\ b.tag = m)
  BY <1>1 DEF Has
<1>3. /\ HasStatus(Append(q, b), m, TRUE)
            <=> HasStatus(q, m, TRUE) \/ (b.op = "status" /\ b.tag = m /\ b.sent = TRUE)
      /\ HasStatus(Append(q, b), m, FALSE)
            <=> HasStatus(q, m, FALSE) \/ (b.op = "status" /\ b.tag = m /\ b.sent = FALSE)
  BY <1>1 DEF HasStatus
<1>4. \A f : HasRead(Append(q, b), f) <=> HasRead(q, f) \/ (b.op = "read" /\ HasFrame(b.data, f))
  BY <1>1 DEF HasRead
<1>5. ASSUME ShowsFirst(q, m), b.op \in {"show", "wrote"} /\ b.tag = m => ~Has(q, "wrote", m)
      PROVE  ShowsFirst(Append(q, b), m)
  BY <1>1, <1>5 DEF ShowsFirst, Has
<1>6. QED
  BY <1>2, <1>3, <1>4, <1>5

LEMMA QueueTake ==
    ASSUME NEW q \in Seq(BlockType), q # <<>>, NEW m
    PROVE  /\ \A op : Has(q, op, m) <=> Has(Tail(q), op, m) \/ (Head(q).op = op /\ Head(q).tag = m)
           /\ HasStatus(q, m, TRUE)
                 <=> \/ HasStatus(Tail(q), m, TRUE)
                     \/ Head(q).op = "status" /\ Head(q).tag = m /\ Head(q).sent = TRUE
           /\ HasStatus(q, m, FALSE)
                 <=> \/ HasStatus(Tail(q), m, FALSE)
                     \/ Head(q).op = "status" /\ Head(q).tag = m /\ Head(q).sent = FALSE
           /\ \A f : HasRead(q, f)
                  <=> HasRead(Tail(q), f) \/ (Head(q).op = "read" /\ HasFrame(Head(q).data, f))
           /\ ShowsFirst(q, m) =>
                 /\ ShowsFirst(Tail(q), m)
                 /\ Head(q).op = "wrote" /\ Head(q).tag = m
                       => ~Has(Tail(q), "show", m) /\ ~Has(Tail(q), "wrote", m)
<1>1. /\ Head(q) = q[1] /\ 1 \in DOMAIN q /\ DOMAIN q = 1..Len(q)
      /\ DOMAIN Tail(q) = 1..(Len(q) - 1)
      /\ \A i \in DOMAIN Tail(q) : i + 1 \in DOMAIN q /\ Tail(q)[i] = q[i + 1]
      /\ \A i \in DOMAIN q : i # 1 => i - 1 \in DOMAIN Tail(q) /\ Tail(q)[i - 1] = q[i]
  BY FirstOf
<1>2. ASSUME NEW op
      PROVE  Has(q, op, m) <=> Has(Tail(q), op, m) \/ (Head(q).op = op /\ Head(q).tag = m)
  <2>1. ASSUME NEW i \in DOMAIN q, q[i].op = op, q[i].tag = m
        PROVE  Has(Tail(q), op, m) \/ (Head(q).op = op /\ Head(q).tag = m)
    BY <1>1, <2>1 DEF Has
  <2>2. Has(Tail(q), op, m) \/ (Head(q).op = op /\ Head(q).tag = m) => Has(q, op, m)
    BY <1>1 DEF Has
  <2>3. QED
    BY <2>1, <2>2 DEF Has
<1>3. ASSUME NEW sent \in BOOLEAN
      PROVE  HasStatus(q, m, sent)
          <=> \/ HasStatus(Tail(q), m, sent)
              \/ Head(q).op = "status" /\ Head(q).tag = m /\ Head(q).sent = sent
  <2>1. ASSUME NEW i \in DOMAIN q, q[i].op = "status", q[i].tag = m, q[i].sent = sent
        PROVE  \/ HasStatus(Tail(q), m, sent)
               \/ Head(q).op = "status" /\ Head(q).tag = m /\ Head(q).sent = sent
    BY <1>1, <2>1 DEF HasStatus
  <2>2. ASSUME \/ HasStatus(Tail(q), m, sent)
               \/ Head(q).op = "status" /\ Head(q).tag = m /\ Head(q).sent = sent
        PROVE  HasStatus(q, m, sent)
    BY <1>1, <2>2 DEF HasStatus
  <2>3. QED
    BY <2>1, <2>2 DEF HasStatus
<1>4. ASSUME NEW f
      PROVE  HasRead(q, f)
          <=> HasRead(Tail(q), f) \/ (Head(q).op = "read" /\ HasFrame(Head(q).data, f))
  <2>1. ASSUME NEW i \in DOMAIN q, q[i].op = "read", HasFrame(q[i].data, f)
        PROVE  HasRead(Tail(q), f) \/ (Head(q).op = "read" /\ HasFrame(Head(q).data, f))
    BY <1>1, <2>1 DEF HasRead
  <2>2. ASSUME HasRead(Tail(q), f) \/ (Head(q).op = "read" /\ HasFrame(Head(q).data, f))
        PROVE  HasRead(q, f)
    BY <1>1, <2>2 DEF HasRead
  <2>3. QED
    BY <2>1, <2>2 DEF HasRead
<1>5. ASSUME ShowsFirst(q, m) PROVE ShowsFirst(Tail(q), m)
  BY <1>1, <1>5 DEF ShowsFirst
<1>6. ASSUME ShowsFirst(q, m), Head(q).op = "wrote", Head(q).tag = m
      PROVE  ~Has(Tail(q), "show", m) /\ ~Has(Tail(q), "wrote", m)
  BY <1>1, <1>6 DEF ShowsFirst, Has
<1>7. QED
  BY <1>2, <1>3, <1>4, <1>5, <1>6

(* A read that is one frame has the parts of no other.                     *)
LEMMA WholeFrame ==
    ASSUME NEW data, Whole(data), NEW f
    PROVE  HasFrame(data, f) <=> f = data[1].frame
BY WholeRead DEF HasFrame

LEMMA AnswerFrames ==
    /\ \A k, l \in Kind, t, u \in Tag : Frame(k, t) = Frame(l, u) <=> k = l /\ t = u
    /\ \A f \in FrameType : f.kind \in Kind => f = Frame(f.kind, f.tag)
    /\ \A k \in Kind, t \in Tag, i \in 1..MaxPush : Frame(k, t) # Pushed(i)
    /\ \A k \in Kind, t \in Tag : Frame(k, t).kind = k /\ Frame(k, t).tag = t
BY DEF FrameType, Frame, Pushed, Kind
(* What a step does to the places of one message.                          *)
LEMMA FateStep ==
    ASSUME TypeOK, started, ~Due(main, {"lost"}), causes = {}, causes' = {},
           NEW m \in Message, Fate(m), [Next]_vars
    PROVE  Fate(m)'
<1> USE DEF line, history, bounds
<1>0. /\ main \in Seq(BlockType) /\ wire \in Seq(PartType) /\ marks \in Seq(MarkType)
      /\ writes \in Seq(Tag) /\ asked \in Seq(Tag) /\ reads \in Seq(Tag)
      /\ m \in Tag /\ m \notin {"none", "login", "beat"}
  BY MessageAssumption, Tags DEF TypeOK
<1>1. CASE Transmit
  <2> DEFINE t == Head(writes)
             b == Block("wrote", t)
  <2>1. /\ writes # <<>> /\ writes' = Tail(writes) /\ asked' = Append(asked, t)
        /\ main' = Append(main, b) /\ UNCHANGED <<reads, wire, marks, shown, taken, dropped>>
    BY <1>1 DEF Transmit, Post
  <2>2. t \in Tag
    BY <1>0, <2>1, FirstOf
  <2>3. b \in BlockType /\ b.op = "wrote" /\ b.tag = t
    BY <2>2, BlockTypes DEF Block
  <2> HIDE DEF t, b
  <2>4. /\ \A op : Has(main', op, m) <=> Has(main, op, m) \/ (b.op = op /\ b.tag = m)
        /\ HasStatus(main', m, TRUE) <=> HasStatus(main, m, TRUE)
        /\ HasStatus(main', m, FALSE) <=> HasStatus(main, m, FALSE)
        /\ \A f : HasRead(main', f) <=> HasRead(main, f)
        /\ t = m => (~Has(main, "wrote", m) => ShowsFirst(main', m))
        /\ t # m => ShowsFirst(main', m)
    BY <1>0, <2>1, <2>3, QueuePost DEF Fate
  <2>5. /\ HasTag(writes, m) <=> HasTag(writes', m) \/ t = m
        /\ Once(writes', m) /\ (t = m => ~HasTag(writes', m))
    BY <1>0, <2>1, TagsTake DEF Fate, t
  <2>6. /\ HasTag(asked', m) <=> HasTag(asked, m) \/ t = m
        /\ Once(asked, m) /\ (t = m => ~HasTag(asked, m)) => Once(asked', m)
    BY <1>0, <2>1, <2>2, TagsPost
  <2>7. CASE t = m
    <3>1. HasTag(writes, m)
      BY <2>5, <2>7
    <3>2. ShowsFirst(main', m) /\ Once(asked', m)
      BY <2>4, <2>6, <2>7, <3>1 DEF Fate
    <3>3. /\ ~Reported(m) /\ ~Refused(m) /\ ~Has(main, "wrote", m) /\ m \notin taken
          /\ ~HasTag(asked, m)
      BY <3>1 DEF Fate
    <3>ops. ASSUME NEW op \in {"read", "status", "show"}
          PROVE  Has(main', op, m) <=> Has(main, op, m)
      BY <2>3, <2>4
    <3>4. /\ (Reported(m)' <=> Reported(m)) /\ (Refused(m)' <=> Refused(m))
      BY <2>1, <2>4, <3>ops DEF Reported, Refused
    <3>5. (Accepted(m)' <=> Accepted(m)) /\ (Sent(m)' <=> Sent(m))
      BY <2>1, <2>4, <3>ops DEF Accepted, Sent
    <3>6. Sent(m) /\ ~Accepted(m)
      BY <3>1, <3>3 DEF Fate
    <3>7. HasTag(asked', m) /\ ~HasTag(writes', m) /\ Once(writes', m)
      BY <2>5, <2>6, <2>7
    <3>8. RefusedLast(marks', m) /\ shown'[m] # "failed"
      BY <2>1, <3>3 DEF Fate, Reported
    <3>9. QED
      BY <2>1, <3>2, <3>3, <3>4, <3>5, <3>6, <3>7, <3>8 DEF Fate
  <2>8. CASE t # m
    <3>1. HasTag(writes', m) <=> HasTag(writes, m)
      BY <2>5, <2>8
    <3>2. (HasTag(asked', m) <=> HasTag(asked, m)) /\ Once(asked', m)
      BY <2>6, <2>8 DEF Fate
    <3>3. \A op : Has(main', op, m) <=> Has(main, op, m)
      BY <2>3, <2>4, <2>8
    <3>4. QED
      BY <2>1, <2>4, <2>5, <2>8, <3>1, <3>2, <3>3 DEF Fate, Sent, Reported, Refused, Accepted
  <2>9. QED
    BY <2>7, <2>8
<1>2. CASE Answer
  <2> DEFINE t == Head(asked)
  <2>1. /\ asked # <<>> /\ asked' = Tail(asked)
        /\ UNCHANGED <<writes, reads, main, marks, shown, dropped>>
    BY <1>2 DEF Answer
  <2>2. t \in Tag
    BY <1>0, <2>1, FirstOf
  <2>3. PICK kind \in Kind :
            /\ wire' = wire \o Bytes(Frame(kind, t))
            /\ \/ kind \in {"login", "beat"} /\ t \in {"login", "beat"} /\ taken' = taken
               \/ kind = "accepted" /\ taken' = taken \cup {t}
               \/ kind = "refused" /\ taken' = taken
    <3>1. CASE t \in {"login", "beat"} /\ wire' = wire \o Bytes(Frame(t, t)) /\ UNCHANGED taken
      BY <3>1 DEF Kind
    <3>2. CASE wire' = wire \o Bytes(Frame("accepted", t)) /\ taken' = taken \cup {t}
      BY <3>2 DEF Kind
    <3>3. CASE wire' = wire \o Bytes(Frame("refused", t)) /\ UNCHANGED taken
      BY <3>3 DEF Kind
    <3>4. QED
      BY <1>2, <3>1, <3>2, <3>3 DEF Answer
  <2> HIDE DEF t
  <2>4. \A f : HasFrame(wire', f) <=> HasFrame(wire, f) \/ f = Frame(kind, t)
    BY <1>0, <2>2, <2>3, FrameTypes, FramesWrite
  <2>5. \A k \in Kind : HasFrame(wire', Frame(k, m))
                          <=> HasFrame(wire, Frame(k, m)) \/ (k = kind /\ m = t)
    BY <1>0, <2>2, <2>4, AnswerFrames
  <2>6. /\ HasFrame(wire', Frame("accepted", m))
              <=> HasFrame(wire, Frame("accepted", m)) \/ (kind = "accepted" /\ m = t)
        /\ HasFrame(wire', Frame("refused", m))
              <=> HasFrame(wire, Frame("refused", m)) \/ (kind = "refused" /\ m = t)
    BY <2>5 DEF Kind
  <2>7. /\ HasTag(asked, m) <=> HasTag(asked', m) \/ t = m
        /\ Once(asked', m) /\ (t = m => ~HasTag(asked', m))
    BY <1>0, <2>1, TagsTake DEF Fate, t
  <2>8. CASE kind \in {"login", "beat"} /\ t \in {"login", "beat"} /\ taken' = taken
    <3>1. t # m
      BY <1>0, <2>8
    <3>2. QED
      BY <2>1, <2>6, <2>7, <2>8, <3>1 DEF Fate, Sent, Reported, Refused, Accepted
  <2>9. CASE kind = "accepted" /\ taken' = taken \cup {t}
    BY <2>1, <2>6, <2>7, <2>9 DEF Fate, Sent, Reported, Refused, Accepted
  <2>10. CASE kind = "refused" /\ taken' = taken
    BY <2>1, <2>6, <2>7, <2>10 DEF Fate, Sent, Reported, Refused, Accepted
  <2>11. QED
    BY <2>3, <2>8, <2>9, <2>10
<1>3. CASE Push
  <2>1. pushed' \in 1..MaxPush
    BY <1>3, BoundsAssumption DEF Push, TypeOK
  <2>2. /\ wire' = wire \o Bytes(Pushed(pushed'))
        /\ UNCHANGED <<writes, asked, reads, main, marks, shown, taken, dropped>>
    BY <1>3 DEF Push
  <2>3. \A f : HasFrame(wire', f) <=> HasFrame(wire, f) \/ f = Pushed(pushed')
    BY <1>0, <2>1, <2>2, FrameTypes, FramesWrite
  <2>4. /\ HasFrame(wire', Frame("refused", m)) <=> HasFrame(wire, Frame("refused", m))
        /\ HasFrame(wire', Frame("accepted", m)) <=> HasFrame(wire, Frame("accepted", m))
    BY <1>0, <2>1, <2>3, AnswerFrames DEF Kind
  <2>5. QED
    BY <2>2, <2>4 DEF Fate, Sent, Reported, Refused, Accepted
<1>4. CASE Read
  <2> DEFINE t == Head(reads)
  <2>1. PICK n \in 1..Len(wire) :
            /\ main' = Append(main, [Block("read", t) EXCEPT !.data = SubSeq(wire, 1, n)])
            /\ wire' = SubSeq(wire, n + 1, Len(wire))
    BY <1>4 DEF Read, Post
  <2> DEFINE b == [Block("read", t) EXCEPT !.data = SubSeq(wire, 1, n)]
  <2>2. /\ reads # <<>> /\ reads' = Tail(reads)
        /\ UNCHANGED <<writes, asked, marks, shown, taken, dropped>>
    BY <1>4 DEF Read
  <2>3. t \in Tag /\ SubSeq(wire, 1, n) \in Seq(PartType)
    BY <1>0, <2>2, FirstOf
  <2>4. b \in BlockType /\ b.op = "read" /\ b.tag = t /\ b.data = SubSeq(wire, 1, n)
    BY <2>3, BlockTypes DEF Block
  <2>5. main' = Append(main, b)
    BY <2>1
  <2> HIDE DEF b, t
  <2>6. /\ \A op : Has(main', op, m) <=> Has(main, op, m) \/ (b.op = op /\ b.tag = m)
        /\ HasStatus(main', m, TRUE) <=> HasStatus(main, m, TRUE)
        /\ HasStatus(main', m, FALSE) <=> HasStatus(main, m, FALSE)
        /\ \A f : HasRead(main', f) <=> HasRead(main, f) \/ HasFrame(b.data, f)
        /\ ShowsFirst(main', m)
    <3>1. \A op : Has(main', op, m) <=> Has(main, op, m) \/ (b.op = op /\ b.tag = m)
      BY <1>0, <2>4, <2>5, QueuePost
    <3>2. /\ HasStatus(main', m, TRUE) <=> HasStatus(main, m, TRUE)
          /\ HasStatus(main', m, FALSE) <=> HasStatus(main, m, FALSE)
      BY <1>0, <2>4, <2>5, QueuePost
    <3>3. \A f : HasRead(main', f) <=> HasRead(main, f) \/ HasFrame(b.data, f)
      BY <1>0, <2>4, <2>5, QueuePost
    <3>4. ShowsFirst(main', m)
      BY <1>0, <2>4, <2>5, QueuePost DEF Fate
    <3>5. QED
      BY <3>1, <3>2, <3>3, <3>4
  <2>7. HasTag(reads, m) <=> HasTag(reads', m) \/ t = m
    BY <1>0, <2>2, TagsTake DEF t
  <2>8. \A f : HasFrame(wire, f) <=> HasFrame(b.data, f) \/ HasFrame(wire', f)
    BY <1>0, <2>1, <2>4, FramesCut
  <2>9. ASSUME NEW op \in {"show", "wrote", "status"}
        PROVE  Has(main', op, m) <=> Has(main, op, m)
    BY <2>4, <2>6
  <2>10. Has(main', "read", m) <=> Has(main, "read", m) \/ t = m
    BY <2>4, <2>6
  <2>11. Reported(m)' <=> Reported(m)
    BY <2>2, <2>7, <2>9, <2>10 DEF Reported
  <2>12. (Refused(m)' <=> Refused(m)) /\ (Accepted(m)' <=> Accepted(m))
    BY <2>2, <2>6, <2>8 DEF Refused, Accepted
  <2>13. Sent(m)' <=> Sent(m)
    BY <2>2, <2>9 DEF Sent
  <2>14. QED
    BY <2>2, <2>6, <2>9, <2>11, <2>12, <2>13 DEF Fate
<1>5. CASE Break
  BY <1>5 DEF Break
<1>6. CASE DidWrite
  <2> DEFINE t == Head(main).tag
  <2>1. /\ main # <<>> /\ Head(main).op = "wrote" /\ main' = Tail(main)
        /\ marks' = Mark(t, TRUE) /\ reads' = Append(reads, t)
        /\ UNCHANGED <<writes, asked, wire, shown, taken, dropped>>
    BY <1>6 DEF DidWrite, Begin, ReadWith
  <2>2. t \in Tag
    BY <2>1, FirstBlock, BlockFields
  <2>3. /\ \A op : Has(main, op, m) <=> Has(main', op, m) \/ (op = "wrote" /\ t = m)
        /\ HasStatus(main', m, TRUE) <=> HasStatus(main, m, TRUE)
        /\ HasStatus(main', m, FALSE) <=> HasStatus(main, m, FALSE)
        /\ \A f : HasRead(main', f) <=> HasRead(main, f)
        /\ ShowsFirst(main', m)
        /\ t = m => ~Has(main', "show", m) /\ ~Has(main', "wrote", m)
    BY <1>0, <2>1, QueueTake DEF Fate
  <2> HIDE DEF t
  <2>4. HasTag(reads', m) <=> HasTag(reads, m) \/ t = m
    BY <1>0, <2>1, <2>2, TagsPost
  <2>5. t = m => ~Reported(m)
    BY <2>3 DEF Fate
  <2>6. /\ HasMark(marks', m, FALSE) <=> HasMark(marks, m, FALSE)
        /\ HasMark(marks', m, TRUE) <=> HasMark(marks, m, TRUE) \/ t = m
        /\ RefusedLast(marks', m)
    <3>1. CASE t \in Message
      <4> DEFINE e == [tag |-> t, sent |-> TRUE]
      <4>1. e \in MarkType /\ e.tag = t /\ e.sent = TRUE /\ marks' = Append(marks, e)
        BY <2>1, <3>1 DEF MarkType, Mark
      <4> HIDE DEF e
      <4>2. QED
        BY <1>0, <2>5, <4>1, MarksPost DEF Fate, Reported
    <3>2. CASE t \notin Message
      BY <2>1, <3>2 DEF Mark, Fate
    <3>3. QED
      BY <3>1, <3>2
  <2>7. CASE t = m
    <3>1. ~HasTag(writes, m) /\ ~Reported(m) /\ Sent(m)
      BY <2>3, <2>5, <2>7 DEF Fate
    <3>2. (Refused(m)' <=> Refused(m)) /\ (Accepted(m)' <=> Accepted(m))
      BY <2>1, <2>3, <2>6 DEF Refused, Accepted
    <3>3. Sent(m)' <=> Sent(m)
      BY <2>1, <2>3 DEF Sent
    <3>4. shown'[m] # "failed"
      BY <2>1, <3>1 DEF Reported
    <3>5. QED
      BY <2>1, <2>3, <2>6, <2>7, <3>1, <3>2, <3>3, <3>4 DEF Fate
  <2>8. CASE t # m
    BY <2>1, <2>3, <2>4, <2>6, <2>8 DEF Fate, Sent, Reported, Refused, Accepted
  <2>9. QED
    BY <2>7, <2>8
<1>7. CASE DropRead
  <2> DEFINE b == Head(main)
  <2>1. /\ main # <<>> /\ b.op = "read" /\ main' = Tail(main)
        /\ dropped' = dropped \cup {b.data[i].frame : i \in DOMAIN b.data}
        /\ reads' = Append(reads, "none")
        /\ UNCHANGED <<writes, asked, wire, marks, shown, taken>>
    BY <1>7 DEF DropRead, Begin, ReadWith
  <2>2. /\ \A op : Has(main, op, m) <=> Has(main', op, m) \/ (op = "read" /\ b.tag = m)
        /\ HasStatus(main', m, TRUE) <=> HasStatus(main, m, TRUE)
        /\ HasStatus(main', m, FALSE) <=> HasStatus(main, m, FALSE)
        /\ \A f : HasRead(main, f) <=> HasRead(main', f) \/ HasFrame(b.data, f)
        /\ ShowsFirst(main', m)
    BY <1>0, <2>1, QueueTake DEF Fate
  <2>3. HasTag(reads', m) <=> HasTag(reads, m)
    BY <1>0, <2>1, Tags, TagsPost
  <2>4. \A f : f \in dropped' <=> f \in dropped \/ HasFrame(b.data, f)
    BY <2>1 DEF HasFrame
  <2> HIDE DEF b
  <2>5. QED
    BY <2>1, <2>2, <2>3, <2>4 DEF Fate, Sent, Reported, Refused, Accepted
<1>8. CASE ReadTrap
  <2>1. UNCHANGED <<writes, asked, reads, wire, main, marks, shown, taken, dropped>>
    BY <1>8 DEF ReadTrap
  <2>2. QED
    BY <2>1 DEF Fate, Sent, Reported, Refused, Accepted
<1>9. ASSUME Received({"login", "beat", "push"}), main' = Tail(main),
             HasTag(writes', m) <=> HasTag(writes, m), Once(writes', m),
             UNCHANGED <<asked, wire, marks, shown, taken, dropped>>
      PROVE  Fate(m)'
  <2> DEFINE b == Head(main)
  <2>1. /\ main # <<>> /\ b.op = "read" /\ Whole(b.data)
        /\ b.data[1].frame.kind \in {"login", "beat", "push"} /\ reads' = Append(reads, "none")
    BY <1>9 DEF Received, Begin, ReadWith
  <2>2. /\ \A op : Has(main, op, m) <=> Has(main', op, m) \/ (op = "read" /\ b.tag = m)
        /\ HasStatus(main', m, TRUE) <=> HasStatus(main, m, TRUE)
        /\ HasStatus(main', m, FALSE) <=> HasStatus(main, m, FALSE)
        /\ \A f : HasRead(main, f) <=> HasRead(main', f) \/ HasFrame(b.data, f)
        /\ ShowsFirst(main', m)
    BY <1>0, <1>9, <2>1, QueueTake DEF Fate
  <2>3. HasTag(reads', m) <=> HasTag(reads, m)
    BY <1>0, <2>1, Tags, TagsPost
  <2>4. ~HasFrame(b.data, Frame("refused", m)) /\ ~HasFrame(b.data, Frame("accepted", m))
    BY <2>1, WholeFrame DEF Frame
  <2> HIDE DEF b
  <2>5. QED
    BY <1>9, <2>2, <2>3, <2>4 DEF Fate, Sent, Reported, Refused, Accepted
<1>10. CASE LoginResponse
  <2>1. writes' = Append(writes, "beat")
    BY <1>10 DEF LoginResponse, Write
  <2>2. (HasTag(writes', m) <=> HasTag(writes, m)) /\ Once(writes', m)
    BY <1>0, <2>1, Tags, TagsPost DEF Fate
  <2>3. /\ Received({"login", "beat", "push"}) /\ main' = Tail(main)
        /\ UNCHANGED <<asked, wire, marks, shown, taken, dropped>>
    BY <1>10 DEF LoginResponse, Received
  <2>4. QED
    BY <1>9, <2>2, <2>3
<1>11. CASE KeepaliveResponse
  BY <1>9, <1>11 DEF KeepaliveResponse, Received, Fate
<1>12. CASE MessageRequest
  BY <1>9, <1>12 DEF MessageRequest, Received, Fate
<1>13. CASE MessageResponse
  <2> DEFINE b == Head(main)
             f == b.data[1].frame
             s == [Block("status", b.tag) EXCEPT !.sent = (f.kind = "accepted")]
  <2>1. /\ main # <<>> /\ b.op = "read" /\ Whole(b.data) /\ f.kind \in {"accepted", "refused"}
        /\ main' = Append(Tail(main), s) /\ reads' = Append(reads, "none")
        /\ UNCHANGED <<writes, asked, wire, marks, shown, taken, dropped>>
    BY <1>13 DEF MessageResponse, Received, Begin, ReadWith
  <2>2. b.tag = f.tag
    <3>1. causes' = causes \cup {c \in {"shifted"} : b.tag # f.tag}
      BY <1>13 DEF MessageResponse
    <3>2. QED
      BY <3>1
  <2>3. b \in BlockType /\ Tail(main) \in Seq(BlockType) /\ b.tag \in Tag /\ b.data \in Seq(PartType)
    BY <2>1, FirstBlock, BlockFields
  <2>4. f \in FrameType
    <3>1. b.data[1] \in PartType
      BY <2>1, <2>3, WholeRead
    <3>2. QED
      BY <3>1 DEF PartType
  <2>5. f = Frame(f.kind, b.tag) /\ f.kind \in Kind
    BY <2>1, <2>2, <2>4, AnswerFrames DEF Kind
  <2>6. s \in BlockType /\ s.op = "status" /\ s.tag = b.tag /\ (s.sent <=> f.kind = "accepted")
        /\ s.sent \in BOOLEAN
    <3>1. PICK sent \in BOOLEAN : sent = (f.kind = "accepted")
      OBVIOUS
    <3>2. s = [Block("status", b.tag) EXCEPT !.sent = sent]
      BY <3>1
    <3>3. s \in BlockType /\ s.op = "status" /\ s.tag = b.tag /\ s.sent = sent
      BY <2>3, <3>2, BlockTypes DEF Block
    <3>4. QED
      BY <3>1, <3>3
  <2>7. /\ HasFrame(b.data, Frame("refused", m)) <=> f.kind = "refused" /\ b.tag = m
        /\ HasFrame(b.data, Frame("accepted", m)) <=> f.kind = "accepted" /\ b.tag = m
    <3>1. \A g : HasFrame(b.data, g) <=> g = f
      BY <2>1, WholeFrame
    <3>2. \A k \in Kind : Frame(k, m) = f <=> f.kind = k /\ b.tag = m
      BY <1>0, <2>3, <2>5, AnswerFrames
    <3>3. QED
      BY <3>1, <3>2 DEF Kind
  <2>8. /\ \A op : Has(main, op, m) <=> Has(Tail(main), op, m) \/ (op = "read" /\ b.tag = m)
        /\ HasStatus(Tail(main), m, TRUE) <=> HasStatus(main, m, TRUE)
        /\ HasStatus(Tail(main), m, FALSE) <=> HasStatus(main, m, FALSE)
        /\ \A g : HasRead(main, g) <=> HasRead(Tail(main), g) \/ HasFrame(b.data, g)
        /\ ShowsFirst(Tail(main), m)
    BY <1>0, <2>1, QueueTake DEF Fate
  <2>9. HasTag(reads', m) <=> HasTag(reads, m)
    BY <1>0, <2>1, Tags, TagsPost
  <2> HIDE DEF b, f, s
  <2>10. /\ \A op : Has(main', op, m) <=> Has(Tail(main), op, m) \/ (op = "status" /\ b.tag = m)
         /\ HasStatus(main', m, TRUE)
               <=> HasStatus(main, m, TRUE) \/ (b.tag = m /\ f.kind = "accepted")
         /\ HasStatus(main', m, FALSE)
               <=> HasStatus(main, m, FALSE) \/ (b.tag = m /\ f.kind = "refused")
         /\ \A g : HasRead(main', g) <=> HasRead(Tail(main), g)
         /\ ShowsFirst(main', m)
    <3>1. /\ \A op : Has(main', op, m) <=> Has(Tail(main), op, m) \/ (s.op = op /\ s.tag = m)
          /\ HasStatus(main', m, TRUE)
                <=> HasStatus(Tail(main), m, TRUE) \/ (s.op = "status" /\ s.tag = m /\ s.sent = TRUE)
          /\ HasStatus(main', m, FALSE)
                <=> HasStatus(Tail(main), m, FALSE) \/ (s.op = "status" /\ s.tag = m /\ s.sent = FALSE)
          /\ \A g : HasRead(main', g) <=> HasRead(Tail(main), g)
          /\ ShowsFirst(main', m)
      <4> DEFINE q == Tail(main)
      <4>1. s \in BlockType /\ q \in Seq(BlockType) /\ main' = Append(q, s)
        BY <2>1, <2>3, <2>6
      <4> HIDE DEF q
      <4>2. \A op : Has(main', op, m) <=> Has(q, op, m) \/ (s.op = op /\ s.tag = m)
        BY <4>1, QueuePost
      <4>3. /\ HasStatus(main', m, TRUE)
                  <=> HasStatus(q, m, TRUE) \/ (s.op = "status" /\ s.tag = m /\ s.sent = TRUE)
            /\ HasStatus(main', m, FALSE)
                  <=> HasStatus(q, m, FALSE) \/ (s.op = "status" /\ s.tag = m /\ s.sent = FALSE)
        BY <4>1, QueuePost
      <4>4. \A g : HasRead(main', g) <=> HasRead(q, g)
        BY <2>6, <4>1, QueuePost
      <4>5. ShowsFirst(q, m) => ShowsFirst(main', m)
        BY <2>6, <4>1, QueuePost
      <4>6. QED
        BY <2>8, <4>2, <4>3, <4>4, <4>5 DEF q
    <3>2. s.sent = TRUE <=> f.kind = "accepted"
      BY <2>6
    <3>3. s.sent = FALSE <=> f.kind = "refused"
      BY <2>1, <2>6
    <3>4. QED
      BY <2>6, <2>8, <3>1, <3>2, <3>3
  <2>11. CASE b.tag = m
    <3>1. Reported(m) /\ Reported(m)'
      BY <2>8, <2>10, <2>11 DEF Reported
    <3>2. (Refused(m)' <=> Refused(m)) /\ (Accepted(m)' <=> Accepted(m))
      <4>1. CASE f.kind = "accepted"
        BY <2>1, <2>7, <2>8, <2>10, <2>11, <4>1 DEF Refused, Accepted
      <4>2. CASE f.kind = "refused"
        BY <2>1, <2>7, <2>8, <2>10, <2>11, <4>2 DEF Refused, Accepted
      <4>3. QED
        BY <2>1, <4>1, <4>2
    <3>3. Sent(m)' <=> Sent(m)
      BY <2>1, <2>8, <2>10 DEF Sent
    <3>4. (Has(main', "show", m) <=> Has(main, "show", m)) /\ (Has(main', "wrote", m) <=> Has(main, "wrote", m))
      BY <2>8, <2>10
    <3>5. QED
      BY <2>1, <2>10, <3>1, <3>2, <3>3, <3>4 DEF Fate
  <2>12. CASE b.tag # m
    BY <2>1, <2>7, <2>8, <2>9, <2>10, <2>12 DEF Fate, Sent, Reported, Refused, Accepted
  <2>13. QED
    BY <2>11, <2>12
<1>14. CASE Decrypt
  <2> DEFINE b == [Block("message", "none") EXCEPT !.of = Head(decrypt)]
  <2>1. /\ main' = Append(main, b)
        /\ UNCHANGED <<writes, asked, reads, wire, marks, shown, taken, dropped>>
    BY <1>14 DEF Decrypt, Post
  <2>2. b \in BlockType /\ b.op = "message" /\ b.tag = "none"
    <3>1. Head(decrypt) \in 1..MaxPush
      BY <1>14, FirstOf DEF Decrypt, TypeOK
    <3>2. QED
      BY <3>1, BlockTypes DEF Block
  <2> HIDE DEF b
  <2>3. /\ \A op : Has(main', op, m) <=> Has(main, op, m)
        /\ HasStatus(main', m, TRUE) <=> HasStatus(main, m, TRUE)
        /\ HasStatus(main', m, FALSE) <=> HasStatus(main, m, FALSE)
        /\ \A f : HasRead(main', f) <=> HasRead(main, f)
        /\ ShowsFirst(main', m)
    BY <1>0, <2>1, <2>2, QueuePost DEF Fate
  <2>4. QED
    BY <2>1, <2>3 DEF Fate, Sent, Reported, Refused, Accepted
<1>15. CASE NewMsgArrived
  <2>1. /\ main # <<>> /\ Head(main).op = "message" /\ main' = Tail(main)
        /\ UNCHANGED <<writes, asked, reads, wire, marks, shown, taken, dropped>>
    BY <1>15 DEF NewMsgArrived, Begin
  <2>2. Head(main).tag # m
    <3>1. Head(main) \in BlockType
      BY <2>1, FirstBlock
    <3>2. QED
      BY <1>0, <2>1, <3>1 DEF BlockType
  <2>3. /\ \A op : Has(main', op, m) <=> Has(main, op, m)
        /\ HasStatus(main', m, TRUE) <=> HasStatus(main, m, TRUE)
        /\ HasStatus(main', m, FALSE) <=> HasStatus(main, m, FALSE)
        /\ \A f : HasRead(main', f) <=> HasRead(main, f)
        /\ ShowsFirst(main', m)
    BY <1>0, <2>1, <2>2, QueueTake DEF Fate
  <2>4. QED
    BY <2>1, <2>3 DEF Fate, Sent, Reported, Refused, Accepted
<1>16. CASE DidDisconnect
  <2>1. main # <<>> /\ Head(main).op = "lost"
    BY <1>16 DEF DidDisconnect, Begin
  <2>2. Due(main, {"lost"})
    BY <2>1, FirstBlock DEF Due
  <2>3. QED
    BY <2>2
<1>17. ASSUME NEW msg \in Message, SendMessage(msg) PROVE Fate(m)'
  <2> DEFINE b == Block("show", msg)
  <2>1. causes' = causes \cup {c \in {"offline"} : ~(session /\ started)}
    BY <1>17 DEF SendMessage
  <2>2. session
    BY <2>1
  <2>3. /\ main' = Append(main, b) /\ writes' = Append(writes, msg)
        /\ shown[msg] = "no" /\ ~Has(main, "show", msg)
        /\ UNCHANGED <<asked, reads, wire, marks, shown, taken, dropped>>
    BY <1>17, <2>2 DEF SendMessage, Post, Write, Has
  <2>4. b \in BlockType /\ b.op = "show" /\ b.tag = msg /\ msg \in Tag
    BY Tags, BlockTypes DEF Block
  <2> HIDE DEF b
  <2>5. /\ \A op : Has(main', op, m) <=> Has(main, op, m) \/ (op = "show" /\ msg = m)
        /\ HasStatus(main', m, TRUE) <=> HasStatus(main, m, TRUE)
        /\ HasStatus(main', m, FALSE) <=> HasStatus(main, m, FALSE)
        /\ \A f : HasRead(main', f) <=> HasRead(main, f)
        /\ (msg = m => ~Has(main, "wrote", m)) => ShowsFirst(main', m)
    <3>1. \A op : Has(main', op, m) <=> Has(main, op, m) \/ (op = "show" /\ msg = m)
      BY <1>0, <2>3, <2>4, QueuePost
    <3>2. /\ HasStatus(main', m, TRUE) <=> HasStatus(main, m, TRUE)
          /\ HasStatus(main', m, FALSE) <=> HasStatus(main, m, FALSE)
          /\ \A f : HasRead(main', f) <=> HasRead(main, f)
      BY <1>0, <2>3, <2>4, QueuePost
    <3>3. (msg = m => ~Has(main, "wrote", m)) => ShowsFirst(main', m)
      BY <1>0, <2>3, <2>4, QueuePost DEF Fate
    <3>4. QED
      BY <3>1, <3>2, <3>3
  <2>6. /\ HasTag(writes', m) <=> HasTag(writes, m) \/ msg = m
        /\ (msg = m => ~HasTag(writes, m)) => Once(writes', m)
    BY <1>0, <2>3, <2>4, TagsPost DEF Fate
  <2>7. msg = m => ~Sent(m)
    BY <2>3 DEF Sent
  <2>8. CASE msg = m
    <3>1. /\ ~HasTag(writes, m) /\ ~HasTag(asked, m) /\ m \notin taken /\ ~Refused(m)
          /\ ~Has(main, "wrote", m) /\ ~Reported(m)
      BY <2>7, <2>8 DEF Fate
    <3>2. HasTag(writes', m) /\ Once(writes', m) /\ ShowsFirst(main', m)
      BY <2>5, <2>6, <2>8, <3>1
    <3>ops. ASSUME NEW op \in {"read", "status"}
          PROVE  Has(main', op, m) <=> Has(main, op, m)
      BY <2>5
    <3>3. /\ (Reported(m)' <=> Reported(m)) /\ (Refused(m)' <=> Refused(m))
          /\ (Accepted(m)' <=> Accepted(m))
      BY <2>3, <2>5, <3>ops DEF Reported, Refused, Accepted
    <3>4. Sent(m)' /\ ~Has(main', "wrote", m)
      BY <2>3, <2>5, <2>8, <3>1 DEF Sent
    <3>5. RefusedLast(marks', m) /\ shown'[m] # "failed" /\ ~Accepted(m) /\ Once(asked', m)
      BY <2>3, <3>1 DEF Fate, Reported
    <3>6. QED
      BY <2>3, <3>1, <3>2, <3>3, <3>4, <3>5 DEF Fate
  <2>9. CASE msg # m
    BY <2>3, <2>5, <2>6, <2>9 DEF Fate, Sent, Reported, Refused, Accepted
  <2>10. QED
    BY <2>8, <2>9
<1>18. CASE DisplayMsg
  <2> DEFINE t == Head(main).tag
  <2>1. /\ main # <<>> /\ Head(main).op = "show" /\ main' = Tail(main)
        /\ UNCHANGED <<writes, asked, reads, wire, marks, taken, dropped>>
    BY <1>18 DEF DisplayMsg, Begin
  <2>2. shown'[m] = IF t = m THEN "delivered" ELSE shown[m]
    BY <1>18 DEF DisplayMsg, TypeOK
  <2>3. /\ \A op : Has(main, op, m) <=> Has(main', op, m) \/ (op = "show" /\ t = m)
        /\ HasStatus(main', m, TRUE) <=> HasStatus(main, m, TRUE)
        /\ HasStatus(main', m, FALSE) <=> HasStatus(main, m, FALSE)
        /\ \A f : HasRead(main', f) <=> HasRead(main, f)
        /\ ShowsFirst(main', m)
    BY <1>0, <2>1, QueueTake DEF Fate
  <2> HIDE DEF t
  <2>4. t = m => ~Reported(m)
    BY <2>3 DEF Fate
  <2>5. QED
    BY <2>1, <2>2, <2>3, <2>4 DEF Fate, Sent, Reported, Refused, Accepted
<1>19. CASE HeartBeat
  <2>1. /\ writes' = Append(writes, "beat")
        /\ UNCHANGED <<asked, reads, wire, main, marks, shown, taken, dropped>>
    BY <1>19 DEF HeartBeat, Write
  <2>2. (HasTag(writes', m) <=> HasTag(writes, m)) /\ Once(writes', m)
    BY <1>0, <2>1, Tags, TagsPost DEF Fate
  <2>3. QED
    BY <2>1, <2>2 DEF Fate, Sent, Reported, Refused, Accepted
<1>20. CASE MsgSentStatus
  <2> DEFINE t == Head(main).tag
             sent == Head(main).sent
  <2>1. /\ main # <<>> /\ Head(main).op = "status" /\ main' = Tail(main)
        /\ marks' = Mark(t, sent) /\ UNCHANGED <<writes, asked, reads, wire, shown, taken, dropped>>
    BY <1>20 DEF MsgSentStatus, Begin
  <2>2. t \in Tag /\ sent \in BOOLEAN
    BY <2>1, FirstBlock, BlockFields
  <2>3. /\ \A op : Has(main, op, m) <=> Has(main', op, m) \/ (op = "status" /\ t = m)
        /\ HasStatus(main, m, TRUE) <=> HasStatus(main', m, TRUE) \/ (t = m /\ sent = TRUE)
        /\ HasStatus(main, m, FALSE) <=> HasStatus(main', m, FALSE) \/ (t = m /\ sent = FALSE)
        /\ \A f : HasRead(main', f) <=> HasRead(main, f)
        /\ ShowsFirst(main', m)
    BY <1>0, <2>1, QueueTake DEF Fate
  <2> HIDE DEF t, sent
  <2>4. t = m /\ sent = TRUE => ~Refused(m)
    BY <2>3 DEF Fate, Accepted
  <2>5. /\ HasMark(marks', m, FALSE) <=> HasMark(marks, m, FALSE) \/ (t = m /\ sent = FALSE)
        /\ HasMark(marks', m, TRUE) <=> HasMark(marks, m, TRUE) \/ (t = m /\ sent = TRUE)
        /\ RefusedLast(marks', m)
    <3>1. CASE t \in Message
      <4> DEFINE e == [tag |-> t, sent |-> sent]
      <4>1. e \in MarkType /\ e.tag = t /\ e.sent = sent /\ marks' = Append(marks, e)
        BY <2>1, <2>2, <3>1 DEF MarkType, Mark
      <4> HIDE DEF e
      <4>2. QED
        BY <1>0, <2>2, <2>4, <4>1, MarksPost DEF Fate, Refused
    <3>2. CASE t \notin Message
      BY <2>1, <3>2 DEF Mark, Fate
    <3>3. QED
      BY <3>1, <3>2
  <2>6. QED
    BY <2>1, <2>2, <2>3, <2>4, <2>5 DEF Fate, Sent, Reported, Refused, Accepted
<1>21. CASE ShowStatus
  <2> DEFINE k == Head(marks)
  <2>1. /\ marks # <<>> /\ marks' = Tail(marks)
        /\ UNCHANGED <<writes, asked, reads, wire, main, taken, dropped>>
    BY <1>21 DEF ShowStatus
  <2>2. shown'[m] = IF k.tag # m \/ shown[m] = "no" THEN shown[m]
                    ELSE IF k.sent THEN "delivered" ELSE "failed"
    <3>1. k \in MarkType
      BY <1>0, <2>1, FirstOf
    <3>2. k.tag \in Message
      BY <3>1 DEF MarkType
    <3>3. QED
      BY <1>21, <3>2 DEF ShowStatus, TypeOK
  <2>3. k.sent \in BOOLEAN
    <3>1. k \in MarkType
      BY <1>0, <2>1, FirstOf
    <3>2. QED
      BY <3>1 DEF MarkType
  <2>4. /\ HasMark(marks, m, TRUE) <=> HasMark(marks', m, TRUE) \/ (k.tag = m /\ k.sent = TRUE)
        /\ HasMark(marks, m, FALSE) <=> HasMark(marks', m, FALSE) \/ (k.tag = m /\ k.sent = FALSE)
        /\ RefusedLast(marks', m)
        /\ k.tag = m /\ k.sent = FALSE => ~HasMark(marks', m, TRUE)
    BY <1>0, <2>1, MarksTake DEF Fate
  <2> HIDE DEF k
  <2>5. CASE k.tag # m \/ shown[m] = "no"
    <3>1. shown'[m] = shown[m]
      BY <2>2, <2>5
    <3>2. ~(k.tag = m /\ k.sent = FALSE)
      BY <2>4, <2>5 DEF Fate, Sent, Reported, Refused, Accepted
    <3>3. QED
      BY <2>1, <2>4, <3>1, <3>2 DEF Fate, Sent, Reported, Refused, Accepted
  <2>6. CASE k.tag = m /\ shown[m] # "no" /\ k.sent = TRUE
    <3>1. shown'[m] = "delivered" /\ shown[m] # "failed"
      BY <2>2, <2>4, <2>6 DEF Fate
    <3>2. QED
      BY <2>1, <2>4, <2>6, <3>1 DEF Fate, Sent, Reported, Refused, Accepted
  <2>7. CASE k.tag = m /\ shown[m] # "no" /\ k.sent = FALSE
    <3>1. shown'[m] = "failed"
      BY <2>2, <2>7
    <3>2. QED
      BY <2>1, <2>4, <2>7, <3>1 DEF Fate, Sent, Reported, Refused, Accepted
  <2>8. QED
    BY <2>3, <2>5, <2>6, <2>7
<1>22. CASE UNCHANGED vars
  <2>1. UNCHANGED <<writes, asked, reads, wire, main, marks, shown, taken, dropped>>
    BY <1>22 DEF vars
  <2>2. QED
    BY <2>1 DEF Fate, Sent, Reported, Refused, Accepted
<1>23. QED
  BY <1>1, <1>2, <1>3, <1>4, <1>5, <1>6, <1>7, <1>8, <1>10, <1>11, <1>12,
     <1>13, <1>14, <1>15, <1>16, <1>17, <1>18, <1>19, <1>20, <1>21, <1>22
     DEF Next, Socket, Delegate
LEMMA FateInit == Init => FateInv
<1> SUFFICES ASSUME Init PROVE started /\ ~Due(main, {"lost"}) /\ \A m \in Message : Fate(m)
  BY DEF FateInv
<1>1. started /\ ~Due(main, {"lost"})
  BY DEF Init, Due
<1>2. ASSUME NEW m \in Message PROVE Fate(m)
  <2>1. m # "login"
    BY MessageAssumption
  <2>2. ~HasTag(writes, m) /\ ~HasTag(asked, m) /\ ~HasTag(reads, m) /\ Once(writes, m) /\ Once(asked, m)
    BY <2>1 DEF Init, HasTag, Once
  <2>3. /\ \A op : ~Has(main, op, m)
        /\ ~HasStatus(main, m, TRUE) /\ ~HasStatus(main, m, FALSE)
        /\ \A f : ~HasRead(main, f) /\ ~HasFrame(wire, f)
        /\ ~HasMark(marks, m, TRUE) /\ ~HasMark(marks, m, FALSE)
        /\ ShowsFirst(main, m) /\ RefusedLast(marks, m)
    BY DEF Init, Has, HasStatus, HasRead, HasFrame, HasMark, ShowsFirst, RefusedLast
  <2>4. shown[m] = "no" /\ m \notin taken /\ dropped = {}
    BY DEF Init
  <2>5. QED
    BY <2>2, <2>3, <2>4 DEF Fate, Sent, Reported, Refused, Accepted
<1>3. QED
  BY <1>1, <1>2

(* What went wrong stays on record, and while nothing did the connection   *)
(* is open and no loss of it is to be dealt with.                          *)
LEMMA CausesStep ==
    ASSUME TypeOK, causes = {} => started /\ ~Due(main, {"lost"}), [Next]_vars, causes' = {}
    PROVE  causes = {} /\ started' /\ ~Due(main', {"lost"})
<1> USE DEF line, history, bounds
<1>0. main \in Seq(BlockType)
  BY DEF TypeOK
<1>1. ASSUME UNCHANGED causes \/ \E C : causes' = causes \cup C, UNCHANGED started,
             \/ main' = main
             \/ main' = Tail(main) /\ main # <<>>
             \/ \E b \in BlockType : b.op # "lost" /\ main' = Append(main, b)
             \/ \E b \in BlockType : b.op # "lost" /\ main' = Append(Tail(main), b) /\ main # <<>>
      PROVE  causes = {} /\ started' /\ ~Due(main', {"lost"})
  <2>1. causes = {} /\ started' /\ ~Due(main, {"lost"})
    BY <1>1
  <2>2. main # <<>> => Tail(main) \in Seq(BlockType) /\ ~Due(Tail(main), {"lost"})
    BY <1>0, <2>1, FirstOf DEF Due
  <2>3. CASE main' = main \/ (main' = Tail(main) /\ main # <<>>)
    BY <2>1, <2>2, <2>3
  <2>4. ASSUME NEW b \in BlockType, b.op # "lost", main' = Append(main, b)
        PROVE  ~Due(main', {"lost"})
    BY <1>0, <2>1, <2>4, DuePost
  <2>5. ASSUME NEW b \in BlockType, b.op # "lost", main' = Append(Tail(main), b), main # <<>>
        PROVE  ~Due(main', {"lost"})
    BY <2>2, <2>5, DuePost
  <2>6. QED
    BY <1>1, <2>1, <2>3, <2>4, <2>5
<1>2. CASE Transmit
  <2>1. Head(writes) \in Tag
    BY <1>2, FirstOf DEF Transmit, TypeOK
  <2>2. Block("wrote", Head(writes)) \in BlockType /\ Block("wrote", Head(writes)).op # "lost"
    BY <2>1, BlockTypes DEF Block
  <2>3. QED
    BY <1>1, <1>2, <2>2 DEF Transmit, Post
<1>3. CASE Read
  <2>1. PICK n \in 1..Len(wire) :
            main' = Append(main, [Block("read", Head(reads)) EXCEPT !.data = SubSeq(wire, 1, n)])
    BY <1>3 DEF Read, Post
  <2>2. Head(reads) \in Tag /\ SubSeq(wire, 1, n) \in Seq(PartType)
    <3>1. wire \in Seq(PartType) /\ reads \in Seq(Tag)
      BY DEF TypeOK
    <3>2. QED
      BY <1>3, <3>1, FirstOf DEF Read
  <2> DEFINE b == [Block("read", Head(reads)) EXCEPT !.data = SubSeq(wire, 1, n)]
  <2>3. b \in BlockType /\ b.op # "lost" /\ main' = Append(main, b)
    BY <2>1, <2>2, BlockTypes DEF Block
  <2> HIDE DEF b
  <2>4. UNCHANGED <<causes, started>>
    BY <1>3 DEF Read
  <2>5. QED
    BY <1>1, <2>3, <2>4
<1>4. CASE Break
  BY <1>4 DEF Break
<1>5. CASE MessageResponse
  <2>1. main # <<>> /\ UNCHANGED started /\ \E C : causes' = causes \cup C
    BY <1>5 DEF MessageResponse, Received, Begin
  <2>2. Head(main).tag \in Tag
    BY <2>1, FirstBlock, BlockFields
  <2>3. PICK sent \in BOOLEAN :
            main' = Append(Tail(main), [Block("status", Head(main).tag) EXCEPT !.sent = sent])
    BY <1>5 DEF MessageResponse
  <2>4. /\ [Block("status", Head(main).tag) EXCEPT !.sent = sent] \in BlockType
        /\ [Block("status", Head(main).tag) EXCEPT !.sent = sent].op # "lost"
    BY <2>2, BlockTypes DEF Block
  <2>5. QED
    BY <1>1, <2>1, <2>3, <2>4
<1>6. CASE Decrypt
  <2> DEFINE b == [Block("message", "none") EXCEPT !.of = Head(decrypt)]
  <2>1. Head(decrypt) \in 1..MaxPush
    BY <1>6, FirstOf DEF Decrypt, TypeOK
  <2>2. b \in BlockType /\ b.op # "lost"
    BY <2>1, BlockTypes DEF Block
  <2>3. main' = Append(main, b) /\ UNCHANGED <<causes, started>>
    BY <1>6 DEF Decrypt, Post
  <2> HIDE DEF b
  <2>4. QED
    BY <1>1, <2>2, <2>3
<1>7. CASE DidDisconnect
  <2>1. main # <<>> /\ Head(main).op = "lost" /\ causes' = causes
    BY <1>7 DEF DidDisconnect, Begin
  <2>2. Due(main, {"lost"})
    BY <2>1, FirstBlock DEF Due
  <2>3. QED
    BY <2>1, <2>2
<1>8. ASSUME NEW msg \in Message, SendMessage(msg)
      PROVE  causes = {} /\ started' /\ ~Due(main', {"lost"})
  <2>1. Block("show", msg) \in BlockType /\ Block("show", msg).op # "lost"
    BY Tags, BlockTypes DEF Block
  <2>2. QED
    BY <1>1, <1>8, <2>1 DEF SendMessage, Post
<1>9. CASE Answer \/ Push \/ ReadTrap \/ HeartBeat \/ ShowStatus
  BY <1>1, <1>9 DEF Answer, Push, ReadTrap, HeartBeat, ShowStatus
<1>10. CASE DidWrite \/ DropRead \/ LoginResponse \/ KeepaliveResponse
  BY <1>1, <1>10 DEF DidWrite, DropRead, LoginResponse, KeepaliveResponse, Received, Begin
<1>11. CASE MessageRequest \/ NewMsgArrived \/ DisplayMsg \/ MsgSentStatus
  BY <1>1, <1>11 DEF MessageRequest, NewMsgArrived, DisplayMsg, MsgSentStatus, Received, Begin
<1>12. CASE UNCHANGED vars
  BY <1>1, <1>12 DEF vars
<1>13. QED
  BY <1>2, <1>3, <1>4, <1>5, <1>6, <1>7, <1>8, <1>9, <1>10, <1>11, <1>12
     DEF Next, Socket, Delegate

LEMMA FateKept == TypeOK /\ FateInv /\ [Next]_vars => FateInv'
<1> SUFFICES ASSUME TypeOK, FateInv, [Next]_vars, causes' = {}
             PROVE  started' /\ ~Due(main', {"lost"}) /\ \A m \in Message : Fate(m)'
  BY DEF FateInv
<1>1. causes = {} /\ started' /\ ~Due(main', {"lost"})
  BY CausesStep DEF FateInv
<1>2. \A m \in Message : Fate(m)'
  BY <1>1, FateStep DEF FateInv
<1>3. QED
  BY <1>1, <1>2

(* What is shown of a message that was sent is what the server did with    *)
(* it, once everything has settled, unless the connection was lost, an     *)
(* answer was dropped or came with the read of something else.             *)
THEOREM MarksFitTheServer == Spec => []MarksFit
<1>1. TypeOK /\ FateInv => MarksFit
  <2>1. SUFFICES ASSUME TypeOK, FateInv, Quiet, causes = {}, NEW m \in Message, shown[m] # "no",
                        Frame("refused", m) \notin dropped
                 PROVE  shown[m] = "delivered" <=> m \in taken
    BY DEF MarksFit
  <2>2. Fate(m)
    BY <2>1 DEF FateInv
  <2>3. /\ ~HasTag(writes, m) /\ ~HasTag(asked, m) /\ ~HasMark(marks, m, FALSE)
        /\ \A f : ~HasFrame(wire, f) /\ ~HasRead(main, f)
        /\ ~HasStatus(main, m, FALSE)
    BY <2>1 DEF Quiet, HasTag, HasMark, HasFrame, HasRead, HasStatus
  <2>4. shown[m] \in {"delivered", "failed"}
    BY <2>1 DEF TypeOK
  <2>5. m \in taken <=> shown[m] # "failed"
    BY <2>1, <2>2, <2>3 DEF Fate, Sent, Refused
  <2>6. QED
    BY <2>4, <2>5
<1>2. Spec => [](TypeOK /\ FateInv)
  BY TypeInit, TypeStep, FateInit, FateKept, PTL DEF Spec
<1>3. QED
  BY <1>1, <1>2, PTL
=============================================================================
