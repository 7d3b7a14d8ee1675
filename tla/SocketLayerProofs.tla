-------------------------- MODULE SocketLayerProofs --------------------------
(***************************************************************************)
(* Theorems about two parts that make no use of each other: the message    *)
(* connection (SocketLayer), for every set of attempts and every bound;    *)
(* and the words the keyboard learns (Learning, which MCInput calls        *)
(* Learner!), for any pairs and any number of words and deletions.         *)
(***************************************************************************)
EXTENDS SocketLayer, MCInput, FiniteSetTheorems, SequenceTheorems, WellFoundedInduction, TLAPS

(* Types of the values the actions build.                                  *)
LEMMA FrameTypes ==
    /\ NoSession \in Session
    /\ [type |-> "login", sess |-> NoSession] \in Frame
    /\ \A s \in Session : /\ [type |-> "heartbeat", sess |-> s] \in Frame
                          /\ [type |-> "message", sess |-> s] \in Frame
BY BoundsAssumption DEF Session, NoSession, Frame

LEMMA EventTypes ==
    /\ [ev |-> "connected"] \in Event
    /\ [ev |-> "watchDog"] \in Event
    /\ [ev |-> "disconnected", err |-> TRUE] \in Event
    /\ [ev |-> "disconnected", err |-> FALSE] \in Event
    /\ \A s \in Session : [ev |-> "loginResponse", sess |-> s] \in Event
    /\ \A e \in Event : /\ e.ev = "disconnected" => e.err \in BOOLEAN
                        /\ e.ev = "loginResponse" => e.sess \in Session
BY DEF Event

LEMMA RequestTypes ==
    /\ \A l \in Attempts : <<l, "thread">> \in Call /\ <<l, "net">> \in Call
    /\ \A n \in 1..MaxRelogin : <<"main", n>> \in Call
    /\ \A l \in Attempts : <<"login", l>> \in Request /\ <<"info", l>> \in Request
    /\ \A c \in Call : <<"server", c>> \in Request
BY DEF Call, Request

(* A socket that was started has a numbered connection; TypeOK alone is    *)
(* not inductive, because Login records the number of the connection.      *)
ConnNumbered == sock # "idle" => conn \in 1..MaxConn

TypeInv == TypeOK /\ ConnNumbered

LEMMA TypeInit == Init => TypeInv
<1> SUFFICES ASSUME Init PROVE TypeInv
  OBVIOUS
<1>1. att \in [Attempts -> AttState] /\ fired \in [Attempts -> Nat]
  BY DEF Init, AttState
<1>2. /\ conn \in 0..MaxConn /\ relogins \in 0..MaxRelogin
      /\ session \in Session /\ main \in MainState
  BY BoundsAssumption, FrameTypes DEF Init, MainState
<1>3. token \in BOOLEAN /\ timer \in BOOLEAN /\ sessionUser \in BOOLEAN
  BY Zenon DEF Init
<1>4. outQ \in Seq(Frame) /\ inQ \in Seq(Session) /\ mainQ \in Seq(Event)
  BY DEF Init
<1>5. QED
  BY <1>1, <1>2, <1>3, <1>4 DEF Init, TypeInv, TypeOK, ConnNumbered

(* The operators that several actions share keep the types.                *)
LEMMA WriteType ==
    ASSUME TypeOK, NEW STATE f, f \in Frame, Write(f)
    PROVE  outQ' \in Seq(Frame)
BY DEF Write, TypeOK

LEMMA DropConnectionType ==
    ASSUME TypeInv, NEW STATE q, q \in Seq(Event), DropConnection(q), conn' = conn
    PROVE  /\ sock' \in {"idle", "connecting", "connected"}
           /\ outQ' \in Seq(Frame) /\ inQ' \in Seq(Session) /\ mainQ' \in Seq(Event)
           /\ ConnNumbered'
<1>1. CASE sock = "connected"
  <2>1. Append(q, [ev |-> "disconnected", err |-> FALSE]) \in Seq(Event)
    BY EventTypes
  <2>2. QED
    BY <1>1, <2>1 DEF DropConnection, ConnNumbered
<1>2. CASE sock # "connected"
  BY <1>2 DEF DropConnection, TypeInv, TypeOK, ConnNumbered
<1>3. QED
  BY <1>1, <1>2

LEMMA LoginType ==
    ASSUME TypeInv, NEW STATE cb, cb \in Attempts \cup {"none"}, Login(cb)
    PROVE  /\ outQ' \in Seq(Frame) /\ callback' = cb /\ sessionUser' = TRUE
           /\ loginOn' \subseteq 1..MaxConn
           /\ UNCHANGED <<sock, conn, inQ, session, timer>>
<1>1. outQ' \in Seq(Frame)
  BY FrameTypes DEF Login, Write, TypeInv, TypeOK
<1>2. loginOn' \subseteq 1..MaxConn
  BY DEF Login, TypeInv, TypeOK, ConnNumbered
<1>3. QED
  BY <1>1, <1>2 DEF Login

LEMMA HeartBeatType ==
    ASSUME TypeOK, NEW STATE s, s \in Session, HeartBeat(s)
    PROVE  outQ' \in Seq(Frame) /\ timer' \in BOOLEAN
<1>1. [type |-> "heartbeat", sess |-> s] \in Frame
  BY FrameTypes
<1>2. outQ' \in Seq(Frame)
  <2>1. CASE s # NoSession /\ sessionUser
    <3>1. Write([type |-> "heartbeat", sess |-> s])
      BY <2>1, Zenon DEF HeartBeat
    <3>2. QED
      BY <1>1, <3>1, WriteType
  <2>2. CASE ~(s # NoSession /\ sessionUser)
    <3>1. outQ' = outQ
      BY <2>2, Zenon DEF HeartBeat
    <3>2. QED
      BY <3>1 DEF TypeOK
  <2>3. QED
    BY <2>1, <2>2
<1>3. timer' \in BOOLEAN
  BY Zenon DEF HeartBeat, TypeOK
<1>4. QED
  BY <1>2, <1>3

(* Every step of the threads keeps the types.                              *)
LEMMA TypeStep == TypeInv /\ [Next]_vars => TypeInv'
<1> SUFFICES ASSUME TypeInv, [Next]_vars PROVE TypeInv'
  OBVIOUS
<1> USE DEF TypeInv
<1>1. CASE SocketUp
  BY <1>1, EventTypes DEF SocketUp, TypeOK, ConnNumbered, layer, netVars, history
<1>2. CASE SocketError
  BY <1>2, EventTypes DEF SocketError, TypeOK, ConnNumbered, layer, netVars, history
<1>3. CASE Transmit
  <2>1. outQ' \in Seq(Frame)
    BY <1>3 DEF Transmit, TypeOK
  <2>2. \A ok \in BOOLEAN : [conn |-> conn, ok |-> ok] \in Session
    BY DEF TypeOK, Session
  <2>3. inQ' \in Seq(Session)
    <3>1. CASE UNCHANGED inQ
      BY <3>1 DEF TypeOK
    <3>2. CASE \E ok \in Verdicts : inQ' = Append(inQ, [conn |-> conn, ok |-> ok])
      BY <2>2, <3>2, VerdictsAssumption DEF TypeOK
    <3>3. QED
      BY <1>3, <3>1, <3>2 DEF Transmit
  <2>4. QED
    BY <1>3, <2>1, <2>3 DEF Transmit, TypeOK, ConnNumbered, layer, netVars, history
<1>4. CASE Read
  <2>1. inQ' \in Seq(Session) /\ Head(inQ) \in Session
    BY <1>4 DEF Read, TypeOK
  <2>2. mainQ' \in Seq(Event)
    <3>1. [ev |-> "loginResponse", sess |-> Head(inQ)] \in Event
      BY <2>1, EventTypes
    <3>2. \/ mainQ' = Append(mainQ, [ev |-> "loginResponse", sess |-> Head(inQ)])
          \/ mainQ' = mainQ
      BY <1>4, Zenon DEF Read
    <3>3. mainQ \in Seq(Event)
      BY DEF TypeOK
    <3>4. \A e \in Event : Append(mainQ, e) \in Seq(Event)
      BY <3>3
    <3>5. QED
      BY <3>1, <3>2, <3>3, <3>4
  <2>3. QED
    BY <1>4, <2>1, <2>2 DEF Read, TypeOK, ConnNumbered, layer, netVars, history
<1>5. ASSUME NEW c \in Call, ServerInfoReply(c) PROVE TypeInv'
  <2>1. /\ sock' \in {"idle", "connecting", "connected"}
        /\ conn' \in 0..MaxConn /\ lateConn' \subseteq 1..MaxConn
        /\ ConnNumbered'
    <3>1. CASE UNCHANGED <<sock, conn, lateConn>>
      BY <3>1 DEF TypeOK, ConnNumbered
    <3>2. CASE /\ conn < MaxConn /\ sock' = "connecting" /\ conn' = conn + 1
               /\ lateConn' \in {lateConn, lateConn \cup {conn + 1}}
      BY <3>2, BoundsAssumption DEF TypeOK, ConnNumbered
    <3>3. QED
      BY <1>5, <3>1, <3>2 DEF ServerInfoReply
  <2>2. inflight' \subseteq Request /\ granted' \subseteq Call
    BY <1>5 DEF ServerInfoReply, TypeOK
  <2>3. QED
    BY <1>5, <2>1, <2>2 DEF ServerInfoReply, TypeOK, layer
<1>6. ASSUME NEW l \in Attempts, TokenReply(l) PROVE TypeInv'
  BY <1>6, RequestTypes
     DEF TokenReply, TypeOK, ConnNumbered, layer, sockVars, history, AttState
<1>7. ASSUME NEW l \in Attempts, InfoReply(l) PROVE TypeInv'
  BY <1>7, RequestTypes, DropConnectionType
     DEF InfoReply, AskServer, TypeOK, ConnNumbered, layer, sockVars, history, AttState
<1>8. ASSUME NEW l \in Attempts, NetResume(l) PROVE TypeInv'
  <2>1. Login(l) /\ l \in Attempts \cup {"none"}
    BY <1>8, Zenon DEF NetResume
  <2>2. att' \in [Attempts -> AttState]
    BY <1>8 DEF NetResume, TypeOK, AttState
  <2>3. /\ outQ' \in Seq(Frame) /\ callback' = l /\ sessionUser' = TRUE
        /\ loginOn' \subseteq 1..MaxConn
        /\ UNCHANGED <<sock, conn, inQ, session, timer>>
    BY <2>1, LoginType
  <2>4. QED
    BY <1>8, <2>2, <2>3 DEF NetResume, TypeOK, ConnNumbered, netVars
<1>9. ASSUME NEW l \in Attempts, Appear(l) PROVE TypeInv'
  <2>1. att' \in [Attempts -> AttState] /\ inflight' \subseteq Request
    <3>1. CASE AskServer(<<l, "thread">>, token, inflight)
               /\ att' = [att EXCEPT ![l] = "await"]
      BY <3>1, RequestTypes DEF AskServer, TypeOK, AttState
    <3>2. CASE Fallback(l, inflight)
      BY <3>2, RequestTypes DEF Fallback, TypeOK, AttState
    <3>3. QED
      BY <1>9, <3>1, <3>2, Zenon DEF Appear
  <2>2. CASE token
    <3>1. DropConnection(mainQ) /\ conn' = conn
      BY <1>9, <2>2, Zenon DEF Appear
    <3>2. mainQ \in Seq(Event)
      BY DEF TypeOK
    <3>3. QED
      BY <1>9, <2>1, <3>1, <3>2, DropConnectionType
         DEF Appear, TypeOK, ConnNumbered, layer, history
  <2>3. CASE ~token
    <3>1. UNCHANGED <<sockVars, mainQ>>
      BY <1>9, <2>3, Zenon DEF Appear
    <3>2. QED
      BY <1>9, <2>1, <3>1 DEF Appear, TypeOK, ConnNumbered, sockVars, layer, history
  <2>4. QED
    BY <2>2, <2>3
<1>10. ASSUME NEW l \in Attempts, LoginGranted(l) PROVE TypeInv'
  <2>1. Login(l) /\ l \in Attempts \cup {"none"}
    BY <1>10, Zenon DEF LoginGranted
  <2>2. att' \in [Attempts -> AttState]
    BY <1>10 DEF LoginGranted, TypeOK, AttState
  <2>3. /\ outQ' \in Seq(Frame) /\ callback' = l /\ sessionUser' = TRUE
        /\ loginOn' \subseteq 1..MaxConn
        /\ UNCHANGED <<sock, conn, inQ, session, timer>>
    BY <2>1, LoginType
  <2>4. QED
    BY <1>10, <2>2, <2>3 DEF LoginGranted, TypeOK, ConnNumbered, netVars
<1>11. ASSUME NEW l \in Attempts, LoginTimeout(l) PROVE TypeInv'
  BY <1>11, RequestTypes
     DEF LoginTimeout, Fallback, TypeOK, ConnNumbered, layer, sockVars, history, AttState
<1>12. CASE DidConnect
  BY <1>12 DEF DidConnect, NextEvent, FireCallback, TypeOK, ConnNumbered,
     sockVars, layer, netVars, MainState
<1>13. CASE DidReadLoginResponse
  <2>1. Head(mainQ) \in Event /\ Head(mainQ).sess \in Session /\ Tail(mainQ) \in Seq(Event)
    BY <1>13, EventTypes DEF DidReadLoginResponse, NextEvent, TypeOK
  <2>2. outQ' \in Seq(Frame) /\ timer' \in BOOLEAN
    BY <1>13, <2>1, HeartBeatType DEF DidReadLoginResponse
  <2>3. QED
    BY <1>13, <2>1, <2>2, EventTypes
       DEF DidReadLoginResponse, FireCallback, TypeOK, ConnNumbered, netVars, MainState
<1>14. CASE WatchDog
  BY <1>14 DEF WatchDog, NextEvent, TypeOK, ConnNumbered, sockVars, netVars, history
<1>15. CASE DidDisconnect
  <2>1. Tail(mainQ) \in Seq(Event)
    BY <1>15 DEF DidDisconnect, NextEvent, TypeOK
  <2>2. CASE Head(mainQ).err /\ sessionUser
    <3>1. /\ relogins' = relogins + 1 /\ main' = "await"
          /\ DropConnection(Tail(mainQ)) /\ conn' = conn
          /\ AskServer(<<"main", relogins + 1>>, token, inflight)
      BY <1>15, <2>2, Zenon DEF DidDisconnect
    <3>2. relogins + 1 \in 1..MaxRelogin
      BY <1>15, <2>2, BoundsAssumption DEF DidDisconnect, TypeOK
    <3>3. inflight' \subseteq Request
      BY <3>1, <3>2, RequestTypes DEF AskServer, TypeOK
    <3>4. /\ sock' \in {"idle", "connecting", "connected"} /\ ConnNumbered'
          /\ outQ' \in Seq(Frame) /\ inQ' \in Seq(Session) /\ mainQ' \in Seq(Event)
      BY <2>1, <3>1, DropConnectionType
    <3>5. session' \in Session /\ main' \in MainState /\ relogins' \in 0..MaxRelogin
      BY <1>15, <3>1, <3>2, FrameTypes DEF DidDisconnect, MainState
    <3>6. QED
      BY <1>15, <3>3, <3>4, <3>5 DEF DidDisconnect, TypeOK, history
  <2>3. CASE ~(Head(mainQ).err /\ sessionUser)
    <3>1. mainQ' = Tail(mainQ) /\ UNCHANGED <<sock, outQ, inQ, main, relogins, inflight>>
      BY <1>15, <2>3, Zenon DEF DidDisconnect
    <3>2. QED
      BY <1>15, <2>1, <3>1, FrameTypes
         DEF DidDisconnect, TypeOK, ConnNumbered, history, MainState
  <2>4. QED
    BY <2>2, <2>3
<1>16. CASE ClearCallback
  BY <1>16 DEF ClearCallback, TypeOK, ConnNumbered, sockVars, netVars, history, MainState
<1>17. CASE Relogin
  BY <1>17, LoginType DEF Relogin, TypeOK, ConnNumbered, netVars, MainState
<1>18. CASE Tick
  BY <1>18, HeartBeatType DEF Tick, TypeOK, ConnNumbered, netVars, history
<1>19. CASE SendMessage
  BY <1>19, FrameTypes, WriteType DEF SendMessage, TypeOK, ConnNumbered, layer, netVars, history
<1>20. CASE UNCHANGED vars
  BY <1>20 DEF vars, sockVars, layer, netVars, history, TypeOK, ConnNumbered
<1>21. QED
  BY <1>1, <1>2, <1>3, <1>4, <1>5, <1>6, <1>7, <1>8, <1>9, <1>10, <1>11, <1>12,
     <1>13, <1>14, <1>15, <1>16, <1>17, <1>18, <1>19, <1>20
     DEF Next, Socket, Net, Thread, MainQueue

(* Every reachable state is well typed, for every set of attempts and      *)
(* every bound: in particular the connections a login is recorded on exist.*)
THEOREM TypeCorrect == Spec => []TypeOK
<1>1. Spec => []TypeInv
  BY TypeInit, TypeStep, PTL DEF Spec
<1>2. TypeInv => TypeOK
  BY DEF TypeInv
<1>3. QED
  BY <1>1, <1>2, PTL

-----------------------------------------------------------------------------
(***************************************************************************)
(* StaleSessionIsDoomed.  Responses still on the main queue are part of    *)
(* the argument: one that belongs to a lost connection has a disconnect    *)
(* event behind it, so storing its session is undone later.                *)
(***************************************************************************)
LiveSessions == {s \in Session : sock = "connected" /\ s.conn = conn}

Pending(q) == \E j \in DOMAIN q : q[j].ev = "disconnected"

LoginsDoomed(q, live) ==
    \A i \in DOMAIN q :
        q[i].ev = "loginResponse" /\ q[i].sess \notin live
            => \E j \in DOMAIN q : j > i /\ q[j].ev = "disconnected"

SessionInv ==
    /\ sock # "connected" => inQ = <<>>
    /\ \A i \in DOMAIN inQ : inQ[i].conn = conn
    /\ LoginsDoomed(mainQ, LiveSessions)
    /\ session # NoSession /\ session \notin LiveSessions => Pending(mainQ)

(* Queueing a block keeps the order of those before it.                    *)
LEMMA QueueAppend ==
    ASSUME NEW q \in Seq(Event), NEW e \in Event, NEW live,
           LoginsDoomed(q, live), e.ev = "loginResponse" => e.sess \in live
    PROVE  LoginsDoomed(Append(q, e), live)
<1>1. SUFFICES ASSUME NEW i \in DOMAIN Append(q, e),
                      Append(q, e)[i].ev = "loginResponse",
                      Append(q, e)[i].sess \notin live
               PROVE  \E j \in DOMAIN Append(q, e) :
                          j > i /\ Append(q, e)[j].ev = "disconnected"
  BY DEF LoginsDoomed
<1>2. i \in DOMAIN q /\ q[i] = Append(q, e)[i]
  BY <1>1
<1>3. PICK j \in DOMAIN q : j > i /\ q[j].ev = "disconnected"
  BY <1>1, <1>2 DEF LoginsDoomed
<1>4. QED
  BY <1>3

(* A disconnect event dooms everything queued before it.                   *)
LEMMA QueueDisconnect ==
    ASSUME NEW q \in Seq(Event), NEW e \in Event, NEW live, e.ev = "disconnected"
    PROVE  LoginsDoomed(Append(q, e), live) /\ Pending(Append(q, e))
<1>1. Append(q, e)[Len(q) + 1] = e /\ DOMAIN Append(q, e) = 1..(Len(q) + 1)
  OBVIOUS
<1>2. QED
  BY <1>1 DEF LoginsDoomed, Pending

LEMMA PendingAppend ==
    ASSUME NEW q \in Seq(Event), NEW e \in Event, Pending(q)
    PROVE  Pending(Append(q, e))
BY DEF Pending

(* Taking the first block.                                                 *)
LEMMA QueueTail ==
    ASSUME NEW q \in Seq(Event), NEW live, q # <<>>, LoginsDoomed(q, live)
    PROVE  /\ LoginsDoomed(Tail(q), live)
           /\ Pending(q) /\ Head(q).ev # "disconnected" => Pending(Tail(q))
           /\ Head(q).ev = "loginResponse" /\ Head(q).sess \notin live => Pending(Tail(q))
<1>1. /\ Tail(q) \in Seq(Event) /\ Len(Tail(q)) = Len(q) - 1 /\ Len(q) >= 1
      /\ \A i \in 1..(Len(q) - 1) : Tail(q)[i] = q[i + 1]
      /\ Head(q) = q[1] /\ DOMAIN Tail(q) = 1..(Len(q) - 1) /\ DOMAIN q = 1..Len(q)
  OBVIOUS
<1>2. LoginsDoomed(Tail(q), live)
  <2>1. SUFFICES ASSUME NEW i \in DOMAIN Tail(q),
                        Tail(q)[i].ev = "loginResponse", Tail(q)[i].sess \notin live
                 PROVE  \E j \in DOMAIN Tail(q) : j > i /\ Tail(q)[j].ev = "disconnected"
    BY DEF LoginsDoomed
  <2>2. i + 1 \in DOMAIN q /\ q[i + 1] = Tail(q)[i]
    BY <1>1
  <2>3. PICK k \in DOMAIN q : k > i + 1 /\ q[k].ev = "disconnected"
    BY <2>1, <2>2 DEF LoginsDoomed
  <2>4. k - 1 \in DOMAIN Tail(q) /\ k - 1 > i /\ Tail(q)[k - 1] = q[k]
    BY <1>1, <2>3
  <2>5. QED
    BY <2>3, <2>4
<1>3. ASSUME NEW k \in 1..Len(q), k > 1, q[k].ev = "disconnected" PROVE Pending(Tail(q))
  <2>1. k - 1 \in 1..(Len(q) - 1) /\ Tail(q)[k - 1] = q[k]
    BY <1>1, <1>3
  <2>2. QED
    BY <1>1, <1>3, <2>1 DEF Pending
<1>4. QED
  BY <1>1, <1>2, <1>3 DEF Pending, LoginsDoomed

(* The set of live sessions shrinks only together with a disconnect event. *)
LEMMA DropConnectionDooms ==
    ASSUME TypeInv, NEW STATE q, q \in Seq(Event), LoginsDoomed(q, LiveSessions),
           DropConnection(q), UNCHANGED conn
    PROVE  /\ LoginsDoomed(mainQ', LiveSessions')
           /\ Pending(q) => Pending(mainQ')
           /\ \A s \in LiveSessions : s \in LiveSessions' \/ Pending(mainQ')
           /\ inQ' = IF sock = "connected" THEN <<>> ELSE inQ
           /\ sock' = IF sock = "connected" THEN "idle" ELSE sock
<1>1. CASE sock = "connected"
  <2>1. /\ mainQ' = Append(q, [ev |-> "disconnected", err |-> FALSE])
        /\ sock' = "idle" /\ inQ' = <<>>
    BY <1>1 DEF DropConnection
  <2>2. /\ [ev |-> "disconnected", err |-> FALSE] \in Event
        /\ [ev |-> "disconnected", err |-> FALSE].ev = "disconnected"
    BY EventTypes
  <2>3. LoginsDoomed(mainQ', LiveSessions') /\ Pending(mainQ')
    BY <2>1, <2>2, QueueDisconnect
  <2>4. QED
    BY <1>1, <2>1, <2>3
<1>2. CASE sock # "connected"
  <2>1. mainQ' = q /\ UNCHANGED <<sock, inQ>>
    BY <1>2 DEF DropConnection
  <2>2. LiveSessions' = LiveSessions
    BY <2>1 DEF LiveSessions
  <2>3. QED
    BY <1>2, <2>1, <2>2
<1>3. QED
  BY <1>1, <1>2

LEMMA SessionInit == Init => SessionInv
BY DEF Init, SessionInv, LoginsDoomed, Pending

(* Steps that touch neither the connection's state nor the session.        *)
LEMMA SessionFrame ==
    ASSUME SessionInv, UNCHANGED <<sock, conn, inQ, mainQ, session>>
    PROVE  SessionInv'
<1>1. LiveSessions' = LiveSessions
  BY DEF LiveSessions
<1>2. QED
  BY <1>1 DEF SessionInv

(* Queueing a block that is no login response, with the connection as is.  *)
LEMMA SessionPost ==
    ASSUME TypeInv, SessionInv, NEW STATE e, e \in Event, e.ev # "loginResponse",
           mainQ' = Append(mainQ, e), UNCHANGED <<conn, inQ, session>>,
           LiveSessions \subseteq LiveSessions', sock' # "connected" => sock # "connected"
    PROVE  SessionInv'
<1>1. mainQ \in Seq(Event)
  BY DEF TypeInv, TypeOK
<1>2. LoginsDoomed(mainQ, LiveSessions')
  BY DEF SessionInv, LoginsDoomed
<1>3. LoginsDoomed(mainQ', LiveSessions')
  BY <1>1, <1>2, QueueAppend
<1>4. Pending(mainQ) => Pending(mainQ')
  BY <1>1, PendingAppend
<1>5. QED
  BY <1>3, <1>4 DEF SessionInv

(* A step that drops the connection and leaves the session alone.          *)
LEMMA SessionDrop ==
    ASSUME TypeInv, SessionInv, DropConnection(mainQ), UNCHANGED <<conn, session>>
    PROVE  SessionInv'
<1>1. mainQ \in Seq(Event) /\ LoginsDoomed(mainQ, LiveSessions)
  BY DEF TypeInv, TypeOK, SessionInv
<1>2. /\ LoginsDoomed(mainQ', LiveSessions')
      /\ Pending(mainQ) => Pending(mainQ')
      /\ \A s \in LiveSessions : s \in LiveSessions' \/ Pending(mainQ')
      /\ inQ' = IF sock = "connected" THEN <<>> ELSE inQ
      /\ sock' = IF sock = "connected" THEN "idle" ELSE sock
  BY <1>1, DropConnectionDooms
<1>3. session' # NoSession /\ session' \notin LiveSessions' => Pending(mainQ')
  BY <1>2 DEF SessionInv
<1>4. /\ sock' # "connected" => inQ' = <<>>
      /\ \A i \in DOMAIN inQ' : inQ'[i].conn = conn'
  BY <1>2 DEF SessionInv
<1>5. QED
  BY <1>2, <1>3, <1>4 DEF SessionInv

LEMMA SessionStep == TypeInv /\ SessionInv /\ [Next]_vars => SessionInv'
<1> SUFFICES ASSUME TypeInv, SessionInv, [Next]_vars PROVE SessionInv'
  OBVIOUS
<1>0. /\ mainQ \in Seq(Event) /\ inQ \in Seq(Session) /\ session \in Session
      /\ conn \in 0..MaxConn
  BY DEF TypeInv, TypeOK
<1>1. CASE SocketUp
  <2>1. [ev |-> "connected"] \in Event /\ [ev |-> "connected"].ev # "loginResponse"
    BY EventTypes
  <2>2. LiveSessions \subseteq LiveSessions'
    BY <1>1 DEF SocketUp, LiveSessions
  <2>3. QED
    BY <1>1, <2>1, <2>2, SessionPost DEF SocketUp, layer
<1>2. CASE SocketError
  <2>1. /\ [ev |-> "disconnected", err |-> TRUE] \in Event
        /\ [ev |-> "disconnected", err |-> TRUE].ev = "disconnected"
    BY EventTypes
  <2>2. LoginsDoomed(mainQ', LiveSessions') /\ Pending(mainQ')
    BY <1>0, <1>2, <2>1, QueueDisconnect DEF SocketError
  <2>3. QED
    BY <1>2, <2>2 DEF SocketError, SessionInv
<1>3. CASE Transmit
  <2>1. UNCHANGED <<sock, conn, mainQ, session>> /\ sock = "connected"
    BY <1>3 DEF Transmit, layer
  <2>2. LiveSessions' = LiveSessions
    BY <2>1 DEF LiveSessions
  <2>3. \A i \in DOMAIN inQ' : inQ'[i].conn = conn
    <3>1. CASE UNCHANGED inQ
      BY <3>1 DEF SessionInv
    <3>2. CASE \E ok \in Verdicts : inQ' = Append(inQ, [conn |-> conn, ok |-> ok])
      BY <1>0, <3>2 DEF SessionInv
    <3>3. QED
      BY <1>3, <3>1, <3>2 DEF Transmit
  <2>4. QED
    BY <2>1, <2>2, <2>3 DEF SessionInv
<1>4. CASE Read
  <2>1. UNCHANGED <<sock, conn, session>> /\ inQ # <<>> /\ inQ' = Tail(inQ)
    BY <1>4 DEF Read, layer
  <2>2. LiveSessions' = LiveSessions
    BY <2>1 DEF LiveSessions
  <2>3. Head(inQ) \in LiveSessions
    BY <1>0, <2>1 DEF SessionInv, LiveSessions
  <2>4. \A i \in DOMAIN inQ' : inQ'[i].conn = conn
    BY <1>0, <2>1 DEF SessionInv
  <2>5. LoginsDoomed(mainQ', LiveSessions) /\ (Pending(mainQ) => Pending(mainQ'))
    <3> DEFINE e == [ev |-> "loginResponse", sess |-> Head(inQ)]
    <3>1. e \in Event /\ e.sess \in LiveSessions
      BY <2>3, EventTypes DEF LiveSessions
    <3>2. CASE mainQ' = mainQ
      BY <3>2 DEF SessionInv
    <3>3. CASE mainQ' = Append(mainQ, e)
      <4> HIDE DEF e
      <4>1. LoginsDoomed(Append(mainQ, e), LiveSessions)
        BY <1>0, <3>1, QueueAppend DEF SessionInv
      <4>2. QED
        BY <1>0, <3>1, <3>3, <4>1, PendingAppend
    <3>4. QED
      BY <1>4, <3>2, <3>3, Zenon DEF Read
  <2>6. sock' # "connected" => inQ' = <<>>
    BY <2>1 DEF SessionInv
  <2>7. QED
    BY <2>1, <2>2, <2>4, <2>5, <2>6 DEF SessionInv
<1>5. ASSUME NEW c \in Call, ServerInfoReply(c) PROVE SessionInv'
  <2>1. UNCHANGED <<inQ, mainQ, session>>
    BY <1>5 DEF ServerInfoReply, layer
  <2>2. CASE UNCHANGED <<sock, conn>>
    BY <2>1, <2>2, SessionFrame
  <2>3. CASE sock = "idle" /\ sock' = "connecting"
    <3>1. LiveSessions' = LiveSessions
      BY <2>3 DEF LiveSessions
    <3>2. inQ' = <<>>
      BY <2>1, <2>3 DEF SessionInv
    <3>3. QED
      BY <2>1, <3>1, <3>2 DEF SessionInv
  <2>4. QED
    BY <1>5, <2>2, <2>3 DEF ServerInfoReply
<1>6. ASSUME NEW l \in Attempts, TokenReply(l) PROVE SessionInv'
  BY <1>6, SessionFrame DEF TokenReply, sockVars, layer
<1>7. ASSUME NEW l \in Attempts, InfoReply(l) PROVE SessionInv'
  BY <1>7, SessionFrame, SessionDrop DEF InfoReply, sockVars, layer
<1>8. ASSUME NEW l \in Attempts, NetResume(l) PROVE SessionInv'
  BY <1>8, SessionFrame DEF NetResume, Login
<1>9. ASSUME NEW l \in Attempts, Appear(l) PROVE SessionInv'
  <2>1. \/ UNCHANGED <<sockVars, mainQ>>
        \/ DropConnection(mainQ) /\ UNCHANGED conn
    BY <1>9, Zenon DEF Appear
  <2>2. QED
    BY <1>9, <2>1, SessionFrame, SessionDrop DEF Appear, sockVars, layer
<1>10. ASSUME NEW l \in Attempts, LoginGranted(l) PROVE SessionInv'
  BY <1>10, SessionFrame DEF LoginGranted, Login
<1>11. ASSUME NEW l \in Attempts, LoginTimeout(l) PROVE SessionInv'
  BY <1>11, SessionFrame DEF LoginTimeout, sockVars, layer
<1>12. CASE DidConnect
  <2>1. UNCHANGED <<sock, conn, inQ, session>> /\ mainQ' = Tail(mainQ)
    BY <1>12 DEF DidConnect, sockVars, layer
  <2>2. mainQ # <<>> /\ Head(mainQ).ev = "connected"
    BY <1>12 DEF DidConnect, NextEvent
  <2>3. QED
    BY <1>0, <2>1, <2>2, QueueTail DEF SessionInv, LiveSessions
<1>13. CASE DidReadLoginResponse
  <2>1. /\ UNCHANGED <<sock, conn, inQ>> /\ session' = Head(mainQ).sess
        /\ mainQ' = Append(Tail(mainQ), [ev |-> "watchDog"])
    BY <1>13 DEF DidReadLoginResponse
  <2>2. mainQ # <<>> /\ Head(mainQ).ev = "loginResponse" /\ Tail(mainQ) \in Seq(Event)
    BY <1>0, <1>13 DEF DidReadLoginResponse, NextEvent
  <2>3. /\ LoginsDoomed(Tail(mainQ), LiveSessions)
        /\ Head(mainQ).sess \notin LiveSessions => Pending(Tail(mainQ))
    BY <1>0, <2>2, QueueTail DEF SessionInv
  <2>4. [ev |-> "watchDog"] \in Event /\ [ev |-> "watchDog"].ev # "loginResponse"
    BY EventTypes
  <2>5. /\ LoginsDoomed(mainQ', LiveSessions)
        /\ Head(mainQ).sess \notin LiveSessions => Pending(mainQ')
    BY <2>1, <2>2, <2>3, <2>4, QueueAppend, PendingAppend
  <2>6. LiveSessions' = LiveSessions
    BY <2>1 DEF LiveSessions
  <2>7. QED
    BY <2>1, <2>5, <2>6 DEF SessionInv
<1>14. CASE WatchDog
  <2>1. UNCHANGED <<sock, conn, inQ, session>> /\ mainQ' = Tail(mainQ)
    BY <1>14 DEF WatchDog, sockVars
  <2>2. mainQ # <<>> /\ Head(mainQ).ev = "watchDog"
    BY <1>14 DEF WatchDog, NextEvent
  <2>3. QED
    BY <1>0, <2>1, <2>2, QueueTail DEF SessionInv, LiveSessions
<1>15. CASE DidDisconnect
  <2>1. /\ session' = NoSession /\ UNCHANGED conn
        /\ \/ DropConnection(Tail(mainQ))
           \/ mainQ' = Tail(mainQ) /\ UNCHANGED <<sock, inQ>>
    BY <1>15, Zenon DEF DidDisconnect
  <2>2. mainQ # <<>> /\ Tail(mainQ) \in Seq(Event)
    BY <1>0, <1>15 DEF DidDisconnect, NextEvent
  <2>3. LoginsDoomed(Tail(mainQ), LiveSessions)
    BY <1>0, <2>2, QueueTail DEF SessionInv
  <2>4. CASE DropConnection(Tail(mainQ))
    <3>1. /\ LoginsDoomed(mainQ', LiveSessions')
          /\ inQ' = IF sock = "connected" THEN <<>> ELSE inQ
          /\ sock' = IF sock = "connected" THEN "idle" ELSE sock
      BY <2>1, <2>2, <2>3, <2>4, DropConnectionDooms
    <3>2. /\ sock' # "connected" => inQ' = <<>>
          /\ \A i \in DOMAIN inQ' : inQ'[i].conn = conn'
      BY <2>1, <3>1 DEF SessionInv
    <3>3. QED
      BY <2>1, <3>1, <3>2 DEF SessionInv
  <2>5. CASE mainQ' = Tail(mainQ) /\ UNCHANGED <<sock, inQ>>
    <3>1. LiveSessions' = LiveSessions
      BY <2>1, <2>5 DEF LiveSessions
    <3>2. QED
      BY <2>1, <2>3, <2>5, <3>1 DEF SessionInv
  <2>6. QED
    BY <2>1, <2>4, <2>5
<1>16. CASE ClearCallback
  BY <1>16, SessionFrame DEF ClearCallback, sockVars
<1>17. CASE Relogin
  BY <1>17, SessionFrame DEF Relogin, Login
<1>18. CASE Tick
  BY <1>18, SessionFrame DEF Tick
<1>19. CASE SendMessage
  BY <1>19, SessionFrame DEF SendMessage, layer
<1>20. CASE UNCHANGED vars
  BY <1>20, SessionFrame DEF vars, sockVars, layer
<1>21. QED
  BY <1>1, <1>2, <1>3, <1>4, <1>5, <1>6, <1>7, <1>8, <1>9, <1>10, <1>11, <1>12,
     <1>13, <1>14, <1>15, <1>16, <1>17, <1>18, <1>19, <1>20
     DEF Next, Socket, Net, Thread, MainQueue

(* A session never outlives its connection except while the disconnect     *)
(* event that clears it is on the main queue: for any number of logins,    *)
(* connections and reconnects.                                             *)
THEOREM StaleSessionsAreDoomed == Spec => []StaleSessionIsDoomed
<1>1. TypeInv /\ SessionInv => StaleSessionIsDoomed
  BY DEF TypeInv, TypeOK, SessionInv, StaleSessionIsDoomed, DisconnectPending,
         Pending, LiveSessions
<1>2. Spec => [](TypeInv /\ SessionInv)
  BY TypeInit, TypeStep, SessionInit, SessionStep, PTL DEF Spec
<1>3. QED
  BY <1>1, <1>2, PTL
-----------------------------------------------------------------------------
(***************************************************************************)
(* LiveSessionIsBeating.  A tick stops the timer only without a session or *)
(* without a user; the argument is that the user is set before the first   *)
(* login request is written and is never taken away, so that whoever holds *)
(* a session, or anything that can still become one, has a user.           *)
(***************************************************************************)
Queued(name, q) == \E i \in DOMAIN q : q[i].ev = name

LoginUnderWay ==
    \/ \E i \in DOMAIN outQ : outQ[i].type = "login"
    \/ inQ # <<>>
    \/ Queued("loginResponse", mainQ)
    \/ session # NoSession

BeatInv ==
    /\ session # NoSession => timer \/ Queued("watchDog", mainQ)
    /\ LoginUnderWay => sessionUser

LEMMA QueuedAppend ==
    ASSUME NEW q \in Seq(Event), NEW e \in Event, NEW name
    PROVE  Queued(name, Append(q, e)) <=> Queued(name, q) \/ e.ev = name
<1>1. /\ DOMAIN Append(q, e) = 1..(Len(q) + 1) /\ DOMAIN q = 1..Len(q)
      /\ Append(q, e)[Len(q) + 1] = e
      /\ \A i \in 1..Len(q) : Append(q, e)[i] = q[i]
  OBVIOUS
<1>2. QED
  BY <1>1 DEF Queued

LEMMA QueuedTail ==
    ASSUME NEW q \in Seq(Event), q # <<>>, NEW name
    PROVE  /\ Queued(name, Tail(q)) => Queued(name, q)
           /\ Queued(name, q) /\ Head(q).ev # name => Queued(name, Tail(q))
<1>1. /\ Tail(q) \in Seq(Event) /\ Len(Tail(q)) = Len(q) - 1 /\ Len(q) >= 1
      /\ \A i \in 1..(Len(q) - 1) : Tail(q)[i] = q[i + 1]
      /\ Head(q) = q[1] /\ DOMAIN Tail(q) = 1..(Len(q) - 1) /\ DOMAIN q = 1..Len(q)
  OBVIOUS
<1>2. ASSUME Queued(name, Tail(q)) PROVE Queued(name, q)
  <2>1. PICK i \in 1..(Len(q) - 1) : q[i + 1].ev = name
    BY <1>1, <1>2 DEF Queued
  <2>2. i + 1 \in DOMAIN q
    BY <1>1
  <2>3. QED
    BY <2>1, <2>2 DEF Queued
<1>3. ASSUME Queued(name, q), Head(q).ev # name PROVE Queued(name, Tail(q))
  <2>1. PICK i \in 1..Len(q) : q[i].ev = name
    BY <1>1, <1>3 DEF Queued
  <2>2. i - 1 \in 1..(Len(q) - 1) /\ Tail(q)[i - 1] = q[i]
    BY <1>1, <1>3, <2>1
  <2>3. QED
    BY <1>1, <2>1, <2>2 DEF Queued
<1>4. QED
  BY <1>2, <1>3

LEMMA BeatInit == Init => BeatInv
BY DEF Init, BeatInv, LoginUnderWay, Queued

(* Steps that leave session and timer alone, lose no watchDog block, and   *)
(* bring no login on its way.                                              *)
LEMMA BeatFrame ==
    ASSUME BeatInv, UNCHANGED <<session, timer>>,
           Queued("watchDog", mainQ) => Queued("watchDog", mainQ'),
           \/ sessionUser' = TRUE
           \/ sessionUser' = sessionUser /\ (LoginUnderWay' => LoginUnderWay)
    PROVE  BeatInv'
BY DEF BeatInv

(* Dropping the connection takes every login on its way with it.           *)
LEMMA BeatDrop ==
    ASSUME TypeInv, NEW STATE q, q \in Seq(Event), DropConnection(q),
           UNCHANGED session,
           \A name \in {"loginResponse", "watchDog"} : Queued(name, q) <=> Queued(name, mainQ)
    PROVE  /\ Queued("watchDog", mainQ) => Queued("watchDog", mainQ')
           /\ LoginUnderWay' => LoginUnderWay
<1>1. CASE sock = "connected"
  <2>1. /\ mainQ' = Append(q, [ev |-> "disconnected", err |-> FALSE])
        /\ outQ' = <<>> /\ inQ' = <<>>
    BY <1>1 DEF DropConnection
  <2>2. /\ [ev |-> "disconnected", err |-> FALSE] \in Event
        /\ [ev |-> "disconnected", err |-> FALSE].ev = "disconnected"
    BY EventTypes
  <2>3. \A name \in {"loginResponse", "watchDog"} : Queued(name, mainQ') <=> Queued(name, q)
    BY <2>1, <2>2, QueuedAppend
  <2>4. QED
    BY <2>1, <2>3 DEF LoginUnderWay
<1>2. CASE sock # "connected"
  BY <1>2 DEF DropConnection, LoginUnderWay
<1>3. QED
  BY <1>1, <1>2

LEMMA BeatStep == TypeInv /\ BeatInv /\ [Next]_vars => BeatInv'
<1> SUFFICES ASSUME TypeInv, BeatInv, [Next]_vars PROVE BeatInv'
  OBVIOUS
<1>0. /\ mainQ \in Seq(Event) /\ inQ \in Seq(Session) /\ session \in Session
      /\ outQ \in Seq(Frame)
  BY DEF TypeInv, TypeOK
<1>1. CASE SocketUp
  <2>1. [ev |-> "connected"] \in Event /\ [ev |-> "connected"].ev = "connected"
    BY EventTypes
  <2>2. \A name \in {"loginResponse", "watchDog"} : Queued(name, mainQ') <=> Queued(name, mainQ)
    BY <1>0, <1>1, <2>1, QueuedAppend DEF SocketUp
  <2>3. QED
    BY <1>1, <2>2, BeatFrame DEF SocketUp, layer, LoginUnderWay
<1>2. CASE SocketError
  <2>1. /\ [ev |-> "disconnected", err |-> TRUE] \in Event
        /\ [ev |-> "disconnected", err |-> TRUE].ev = "disconnected"
    BY EventTypes
  <2>2. \A name \in {"loginResponse", "watchDog"} : Queued(name, mainQ') <=> Queued(name, mainQ)
    BY <1>0, <1>2, <2>1, QueuedAppend DEF SocketError
  <2>3. outQ' = <<>> /\ inQ' = <<>> /\ UNCHANGED layer
    BY <1>2 DEF SocketError
  <2>4. LoginUnderWay' => LoginUnderWay
    BY <2>2, <2>3 DEF LoginUnderWay, layer
  <2>5. QED
    BY <2>2, <2>3, <2>4, BeatFrame DEF layer
<1>3. CASE Transmit
  <2>1. /\ UNCHANGED <<mainQ, session, timer, sessionUser>>
        /\ outQ # <<>> /\ outQ' = Tail(outQ)
        /\ Head(outQ).type = "login" \/ inQ' = inQ
    BY <1>3 DEF Transmit, layer
  <2>2. /\ DOMAIN outQ = 1..Len(outQ) /\ Len(outQ) >= 1 /\ Head(outQ) = outQ[1]
        /\ DOMAIN Tail(outQ) = 1..(Len(outQ) - 1)
        /\ \A i \in 1..(Len(outQ) - 1) : Tail(outQ)[i] = outQ[i + 1] /\ i + 1 \in 1..Len(outQ)
    BY <1>0, <2>1
  <2>3. LoginUnderWay' => LoginUnderWay
    <3>1. CASE \E i \in DOMAIN outQ' : outQ'[i].type = "login"
      BY <2>1, <2>2, <3>1 DEF LoginUnderWay
    <3>2. CASE inQ' # <<>>
      <4>1. CASE inQ' = inQ
        BY <3>2, <4>1 DEF LoginUnderWay
      <4>2. CASE Head(outQ).type = "login"
        BY <2>2, <4>2 DEF LoginUnderWay
      <4>3. QED
        BY <2>1, <4>1, <4>2
    <3>3. QED
      BY <2>1, <3>1, <3>2 DEF LoginUnderWay
  <2>4. QED
    BY <2>1, <2>3, BeatFrame
<1>4. CASE Read
  <2>1. /\ UNCHANGED <<outQ, session, timer, sessionUser>> /\ inQ # <<>>
        /\ \/ mainQ' = Append(mainQ, [ev |-> "loginResponse", sess |-> Head(inQ)])
           \/ mainQ' = mainQ
    BY <1>4, Zenon DEF Read, layer
  <2>2. Head(inQ) \in Session
    BY <1>0, <2>1
  <2>3. [ev |-> "loginResponse", sess |-> Head(inQ)] \in Event
    BY <2>2, EventTypes
  <2>4. Queued("watchDog", mainQ) => Queued("watchDog", mainQ')
    <3> DEFINE e == [ev |-> "loginResponse", sess |-> Head(inQ)]
    <3>1. mainQ' = mainQ \/ mainQ' = Append(mainQ, e)
      BY <2>1
    <3>2. e \in Event
      BY <2>3
    <3> HIDE DEF e
    <3>3. QED
      BY <1>0, <3>1, <3>2, QueuedAppend
  <2>5. LoginUnderWay
    BY <2>1 DEF LoginUnderWay
  <2>6. QED
    BY <2>1, <2>4, <2>5, BeatFrame
<1>5. ASSUME NEW c \in Call, ServerInfoReply(c) PROVE BeatInv'
  BY <1>5, BeatFrame DEF ServerInfoReply, layer, LoginUnderWay
<1>6. ASSUME NEW l \in Attempts, TokenReply(l) PROVE BeatInv'
  BY <1>6, BeatFrame DEF TokenReply, sockVars, layer, LoginUnderWay
<1>7. ASSUME NEW l \in Attempts, InfoReply(l) PROVE BeatInv'
  <2>1. /\ UNCHANGED layer
        /\ UNCHANGED <<sockVars, mainQ>> \/ DropConnection(mainQ)
    BY <1>7, Zenon DEF InfoReply
  <2>2. CASE UNCHANGED <<sockVars, mainQ>>
    BY <2>1, <2>2, BeatFrame DEF sockVars, layer, LoginUnderWay
  <2>3. CASE DropConnection(mainQ)
    BY <1>0, <2>1, <2>3, BeatDrop, BeatFrame DEF layer
  <2>4. QED
    BY <2>1, <2>2, <2>3
<1>8. ASSUME NEW l \in Attempts, NetResume(l) PROVE BeatInv'
  BY <1>8, BeatFrame DEF NetResume, Login
<1>9. ASSUME NEW l \in Attempts, Appear(l) PROVE BeatInv'
  <2>1. /\ UNCHANGED layer
        /\ UNCHANGED <<sockVars, mainQ>> \/ DropConnection(mainQ)
    BY <1>9, Zenon DEF Appear
  <2>2. CASE UNCHANGED <<sockVars, mainQ>>
    BY <2>1, <2>2, BeatFrame DEF sockVars, layer, LoginUnderWay
  <2>3. CASE DropConnection(mainQ)
    BY <1>0, <2>1, <2>3, BeatDrop, BeatFrame DEF layer
  <2>4. QED
    BY <2>1, <2>2, <2>3
<1>10. ASSUME NEW l \in Attempts, LoginGranted(l) PROVE BeatInv'
  BY <1>10, BeatFrame DEF LoginGranted, Login
<1>11. ASSUME NEW l \in Attempts, LoginTimeout(l) PROVE BeatInv'
  BY <1>11, BeatFrame DEF LoginTimeout, sockVars, layer, LoginUnderWay
<1>12. CASE DidConnect
  <2>1. mainQ # <<>> /\ Head(mainQ).ev = "connected" /\ mainQ' = Tail(mainQ)
    BY <1>12 DEF DidConnect, NextEvent
  <2>2. \A name \in {"loginResponse", "watchDog"} : Queued(name, mainQ') <=> Queued(name, mainQ)
    BY <1>0, <2>1, QueuedTail
  <2>3. QED
    BY <1>12, <2>2, BeatFrame DEF DidConnect, sockVars, layer, LoginUnderWay
<1>13. CASE DidReadLoginResponse
  <2>1. mainQ # <<>> /\ Head(mainQ).ev = "loginResponse" /\ Tail(mainQ) \in Seq(Event)
    BY <1>0, <1>13 DEF DidReadLoginResponse, NextEvent
  <2>2. Queued("loginResponse", mainQ)
    BY <1>0, <2>1 DEF Queued
  <2>3. sessionUser'
    BY <1>13, <2>2, Zenon DEF DidReadLoginResponse, BeatInv, LoginUnderWay
  <2>4. Queued("watchDog", mainQ')
    <3>1. [ev |-> "watchDog"] \in Event /\ [ev |-> "watchDog"].ev = "watchDog"
      BY EventTypes
    <3>2. QED
      BY <1>13, <2>1, <3>1, QueuedAppend DEF DidReadLoginResponse
  <2>5. QED
    BY <2>3, <2>4, Zenon DEF BeatInv
<1>14. CASE WatchDog
  <2>1. mainQ # <<>> /\ Head(mainQ).ev = "watchDog" /\ mainQ' = Tail(mainQ)
    BY <1>14 DEF WatchDog, NextEvent
  <2>2. Queued("loginResponse", mainQ') => Queued("loginResponse", mainQ)
    BY <1>0, <2>1, QueuedTail
  <2>3. LoginUnderWay' => LoginUnderWay
    BY <1>14, <2>2 DEF WatchDog, sockVars, LoginUnderWay
  <2>4. timer' /\ sessionUser' = sessionUser
    BY <1>14 DEF WatchDog
  <2>5. QED
    BY <2>3, <2>4, Zenon DEF BeatInv
<1>15. CASE DidDisconnect
  <2>1. /\ session' = NoSession /\ sessionUser' = sessionUser
        /\ \/ mainQ' = Tail(mainQ) /\ UNCHANGED <<outQ, inQ>>
           \/ DropConnection(Tail(mainQ))
    BY <1>15, Zenon DEF DidDisconnect
  <2>2. mainQ # <<>> /\ Tail(mainQ) \in Seq(Event)
    BY <1>0, <1>15 DEF DidDisconnect, NextEvent
  <2>3. Queued("loginResponse", Tail(mainQ)) => Queued("loginResponse", mainQ)
    BY <1>0, <2>2, QueuedTail
  <2>4. /\ Queued("loginResponse", mainQ') => Queued("loginResponse", Tail(mainQ))
        /\ outQ' \in {outQ, <<>>} /\ inQ' \in {inQ, <<>>}
    <3>1. CASE mainQ' = Tail(mainQ) /\ UNCHANGED <<outQ, inQ>>
      BY <3>1
    <3>2. CASE DropConnection(Tail(mainQ)) /\ sock = "connected"
      <4>1. /\ mainQ' = Append(Tail(mainQ), [ev |-> "disconnected", err |-> FALSE])
            /\ outQ' = <<>> /\ inQ' = <<>>
        BY <3>2 DEF DropConnection
      <4>2. /\ [ev |-> "disconnected", err |-> FALSE] \in Event
            /\ [ev |-> "disconnected", err |-> FALSE].ev = "disconnected"
        BY EventTypes
      <4>3. QED
        BY <2>2, <4>1, <4>2, QueuedAppend
    <3>3. CASE DropConnection(Tail(mainQ)) /\ sock # "connected"
      BY <3>3 DEF DropConnection
    <3>4. QED
      BY <2>1, <3>1, <3>2, <3>3
  <2>5. LoginUnderWay' => LoginUnderWay
    BY <2>1, <2>3, <2>4 DEF LoginUnderWay
  <2>6. QED
    BY <2>1, <2>5, Zenon DEF BeatInv
<1>16. CASE ClearCallback
  BY <1>16, BeatFrame DEF ClearCallback, sockVars, LoginUnderWay
<1>17. CASE Relogin
  BY <1>17, BeatFrame DEF Relogin, Login
<1>18. CASE Tick
  <2>1. /\ UNCHANGED <<inQ, mainQ, session, sessionUser>> /\ HeartBeat(session)
    BY <1>18 DEF Tick
  <2>2. CASE session # NoSession /\ sessionUser
    BY <2>1, <2>2, Zenon DEF HeartBeat, BeatInv
  <2>3. CASE ~(session # NoSession /\ sessionUser)
    <3>1. session = NoSession
      BY <2>3, Zenon DEF BeatInv, LoginUnderWay
    <3>2. outQ' = outQ
      BY <2>1, <2>3, Zenon DEF HeartBeat
    <3>3. LoginUnderWay' => LoginUnderWay
      BY <2>1, <3>2 DEF LoginUnderWay
    <3>4. QED
      BY <2>1, <3>1, <3>3, Zenon DEF BeatInv
  <2>4. QED
    BY <2>2, <2>3
<1>19. CASE SendMessage
  <2>1. UNCHANGED <<mainQ, session, timer, sessionUser>> /\ session # NoSession
    BY <1>19 DEF SendMessage, layer
  <2>2. LoginUnderWay
    BY <2>1 DEF LoginUnderWay
  <2>3. QED
    BY <2>1, <2>2, BeatFrame
<1>20. CASE UNCHANGED vars
  BY <1>20, BeatFrame DEF vars, sockVars, layer, LoginUnderWay
<1>21. QED
  BY <1>1, <1>2, <1>3, <1>4, <1>5, <1>6, <1>7, <1>8, <1>9, <1>10, <1>11, <1>12,
     <1>13, <1>14, <1>15, <1>16, <1>17, <1>18, <1>19, <1>20
     DEF Next, Socket, Net, Thread, MainQueue

(* While a session is set the heartbeat timer runs or is about to be       *)
(* installed: no last tick of an old timer, however it falls between the   *)
(* steps of a new login, leaves the session without heartbeats.            *)
THEOREM LiveSessionsBeat == Spec => []LiveSessionIsBeating
<1>1. BeatInv => LiveSessionIsBeating
  BY DEF BeatInv, LiveSessionIsBeating, Queued
<1>2. Spec => [](TypeInv /\ BeatInv)
  BY TypeInit, TypeStep, BeatInit, BeatStep, PTL DEF Spec
<1>3. QED
  BY <1>1, <1>2, PTL

-----------------------------------------------------------------------------
(***************************************************************************)
(* CallbackAtMostOnce.  The slot holds the closure of an attempt that has  *)
(* made its last step; the main queue empties it before it runs the next   *)
(* block, and no attempt fills it twice.                                   *)
(***************************************************************************)
RequestsAwaited ==
    \A l \in Attempts : /\ <<"login", l>> \in inflight => att[l] = "tokenReq"
                        /\ <<"info", l>> \in inflight => att[l] = "infoReq"

OnceInv ==
    /\ RequestsAwaited
    /\ \A l \in Attempts :
          /\ callback = l => att[l] = "done"
          /\ fired[l] = 0 \/ (fired[l] = 1 /\ att[l] = "done"
                               /\ (callback = l => main = "clear"))

LEMMA OnceInit == Init => OnceInv
BY AttemptsAssumption DEF Init, OnceInv, RequestsAwaited

(* A step of attempt l, after which the slot is unchanged or holds l.      *)
LEMMA OnceAttempt ==
    ASSUME TypeInv, OnceInv, NEW l \in Attempts, NEW STATE a, a \in AttState,
           att[l] # "done", att' = [att EXCEPT ![l] = a],
           UNCHANGED <<main, fired>>,
           \A k \in Attempts, r \in {"login", "info"} :
               k # l /\ <<r, k>> \in inflight' => <<r, k>> \in inflight,
           <<"login", l>> \in inflight' => a = "tokenReq",
           <<"info", l>> \in inflight' => a = "infoReq",
           callback' = callback \/ (callback' = l /\ a = "done")
    PROVE  OnceInv'
<1>1. \A k \in Attempts : att'[k] = IF k = l THEN a ELSE att[k]
  BY DEF TypeInv, TypeOK
<1>2. \A k \in Attempts : /\ <<"login", k>> \in inflight' => att'[k] = "tokenReq"
                          /\ <<"info", k>> \in inflight' => att'[k] = "infoReq"
  <2> SUFFICES ASSUME NEW k \in Attempts
               PROVE  /\ <<"login", k>> \in inflight' => att'[k] = "tokenReq"
                      /\ <<"info", k>> \in inflight' => att'[k] = "infoReq"
    BY Zenon
  <2>1. CASE k = l
    BY <1>1, <2>1
  <2>2. CASE k # l
    <3>1. /\ <<"login", k>> \in inflight' => <<"login", k>> \in inflight
          /\ <<"info", k>> \in inflight' => <<"info", k>> \in inflight
      BY <2>2
    <3>2. /\ <<"login", k>> \in inflight => att[k] = "tokenReq"
          /\ <<"info", k>> \in inflight => att[k] = "infoReq"
      BY DEF OnceInv, RequestsAwaited
    <3>3. QED
      BY <1>1, <2>2, <3>1, <3>2
  <2>3. QED
    BY <2>1, <2>2
<1>3. fired[l] = 0 /\ callback # l
  BY DEF OnceInv
<1>4. QED
  BY <1>1, <1>2, <1>3 DEF OnceInv, RequestsAwaited

(* The requests for the server's address concern no attempt's own ones.    *)
LEMMA AskServerOwn ==
    ASSUME NEW STATE c, NEW STATE t, NEW STATE r, c \in Call, AskServer(c, t, r)
    PROVE  \A k \in Attempts, x \in {"login", "info"} :
               <<x, k>> \in inflight' <=> <<x, k>> \in r
BY DEF AskServer

LEMMA OnceStep == TypeInv /\ OnceInv /\ [Next]_vars => OnceInv'
<1> SUFFICES ASSUME TypeInv, OnceInv, [Next]_vars PROVE OnceInv'
  OBVIOUS
<1>0. /\ att \in [Attempts -> AttState] /\ fired \in [Attempts -> Nat]
      /\ callback \in Attempts \cup {"none"} /\ "none" \notin Attempts
  BY AttemptsAssumption DEF TypeInv, TypeOK
<1>1. ASSUME UNCHANGED <<main, att, fired, inflight, callback>> PROVE OnceInv'
  BY <1>1 DEF OnceInv, RequestsAwaited
<1>2. CASE Socket
  BY <1>1, <1>2 DEF Socket, SocketUp, SocketError, Transmit, Read, layer, netVars, history
<1>3. ASSUME NEW c \in Call, ServerInfoReply(c) PROVE OnceInv'
  BY <1>3 DEF ServerInfoReply, layer, OnceInv, RequestsAwaited
<1>4. ASSUME NEW l \in Attempts, TokenReply(l) PROVE OnceInv'
  <2>1. att[l] = "tokenReq" /\ <<"info", l>> \notin inflight
    BY <1>4 DEF TokenReply, OnceInv, RequestsAwaited
  <2>2. CASE /\ att' = [att EXCEPT ![l] = "infoReq"]
             /\ inflight' = (inflight \ {<<"login", l>>}) \cup {<<"info", l>>}
    BY <1>4, <2>1, <2>2, OnceAttempt DEF TokenReply, layer, history, AttState
  <2>3. CASE /\ att' = [att EXCEPT ![l] = "done"]
             /\ inflight' = inflight \ {<<"login", l>>}
    BY <1>4, <2>1, <2>3, OnceAttempt DEF TokenReply, layer, history, AttState
  <2>4. QED
    BY <1>4, <2>2, <2>3 DEF TokenReply
<1>5. ASSUME NEW l \in Attempts, InfoReply(l) PROVE OnceInv'
  <2>1. att[l] = "infoReq" /\ <<"login", l>> \notin inflight
    BY <1>5 DEF InfoReply, OnceInv, RequestsAwaited
  <2>2. CASE /\ att' = [att EXCEPT ![l] = "done"]
             /\ inflight' = inflight \ {<<"info", l>>}
    BY <1>5, <2>1, <2>2, OnceAttempt DEF InfoReply, layer, history, AttState
  <2>3. CASE /\ att' = [att EXCEPT ![l] = "netAwait"]
             /\ AskServer(<<l, "net">>, TRUE, inflight \ {<<"info", l>>})
    <3>1. \A k \in Attempts, r \in {"login", "info"} :
              <<r, k>> \in inflight' <=> <<r, k>> \in inflight \ {<<"info", l>>}
      BY <2>3, RequestTypes, AskServerOwn
    <3>2. QED
      BY <1>5, <2>1, <2>3, <3>1, OnceAttempt DEF InfoReply, layer, history, AttState
  <2>4. QED
    BY <1>5, <2>2, <2>3, Zenon DEF InfoReply
<1>6. ASSUME NEW l \in Attempts, NetResume(l) PROVE OnceInv'
  <2>1. att[l] = "netAwait" /\ <<"login", l>> \notin inflight /\ <<"info", l>> \notin inflight
    BY <1>6 DEF NetResume, OnceInv, RequestsAwaited
  <2>2. QED
    BY <1>6, <2>1, OnceAttempt DEF NetResume, Login, AttState
<1>7. ASSUME NEW l \in Attempts, Appear(l) PROVE OnceInv'
  <2>1. att[l] = "off" /\ <<"login", l>> \notin inflight /\ <<"info", l>> \notin inflight
    BY <1>7 DEF Appear, OnceInv, RequestsAwaited
  <2>2. CASE /\ att' = [att EXCEPT ![l] = "await"]
             /\ AskServer(<<l, "thread">>, token, inflight)
    <3>1. \A k \in Attempts, r \in {"login", "info"} :
              <<r, k>> \in inflight' <=> <<r, k>> \in inflight
      BY <2>2, RequestTypes, AskServerOwn
    <3>2. QED
      BY <1>7, <2>1, <2>2, <3>1, OnceAttempt DEF Appear, layer, history, AttState
  <2>3. CASE Fallback(l, inflight)
    <3>1. CASE /\ att' = [att EXCEPT ![l] = "tokenReq"]
               /\ inflight' = inflight \cup {<<"login", l>>}
      BY <1>7, <2>1, <3>1, OnceAttempt DEF Appear, layer, history, AttState
    <3>2. CASE att' = [att EXCEPT ![l] = "done"] /\ inflight' = inflight
      BY <1>7, <2>1, <3>2, OnceAttempt DEF Appear, layer, history, AttState
    <3>3. QED
      BY <2>3, <3>1, <3>2 DEF Fallback
  <2>4. QED
    BY <1>7, <2>2, <2>3, Zenon DEF Appear
<1>8. ASSUME NEW l \in Attempts, LoginGranted(l) PROVE OnceInv'
  <2>1. att[l] = "await" /\ <<"login", l>> \notin inflight /\ <<"info", l>> \notin inflight
    BY <1>8 DEF LoginGranted, OnceInv, RequestsAwaited
  <2>2. QED
    BY <1>8, <2>1, OnceAttempt DEF LoginGranted, Login, netVars, AttState
<1>9. ASSUME NEW l \in Attempts, LoginTimeout(l) PROVE OnceInv'
  <2>1. att[l] = "await" /\ <<"login", l>> \notin inflight /\ <<"info", l>> \notin inflight
    BY <1>9 DEF LoginTimeout, OnceInv, RequestsAwaited
  <2>2. CASE /\ att' = [att EXCEPT ![l] = "tokenReq"]
             /\ inflight' = inflight \cup {<<"login", l>>}
    BY <1>9, <2>1, <2>2, OnceAttempt DEF LoginTimeout, layer, history, AttState
  <2>3. CASE att' = [att EXCEPT ![l] = "done"] /\ inflight' = inflight
    BY <1>9, <2>1, <2>3, OnceAttempt DEF LoginTimeout, layer, history, AttState
  <2>4. QED
    BY <1>9, <2>2, <2>3 DEF LoginTimeout, Fallback
<1>10. CASE DidConnect \/ DidReadLoginResponse
  <2>1. /\ main = "free" /\ FireCallback
        /\ UNCHANGED <<att, inflight, callback>>
    BY <1>10, Zenon DEF DidConnect, DidReadLoginResponse, NextEvent, layer, netVars
  <2>2. \A l \in Attempts : callback = l => fired[l] = 0
    BY <2>1 DEF OnceInv
  <2>3. \A l \in Attempts : fired'[l] = IF callback = l THEN fired[l] + 1 ELSE fired[l]
    BY <1>0, <2>1 DEF FireCallback
  <2>4. main' = "clear"
    BY <2>1 DEF FireCallback
  <2>5. QED
    BY <2>1, <2>2, <2>3, <2>4 DEF OnceInv, RequestsAwaited
<1>11. CASE DidDisconnect
  <2>1. main = "free" /\ UNCHANGED <<att, fired, callback>>
    BY <1>11 DEF DidDisconnect, NextEvent, history
  <2>2. \A k \in Attempts, x \in {"login", "info"} :
            <<x, k>> \in inflight' <=> <<x, k>> \in inflight
    <3>1. CASE AskServer(<<"main", relogins + 1>>, token, inflight) /\ relogins < MaxRelogin
      <4>1. <<"main", relogins + 1>> \in Call
        BY <3>1, RequestTypes, BoundsAssumption DEF TypeInv, TypeOK
      <4>2. QED
        BY <3>1, <4>1, AskServerOwn
    <3>2. CASE UNCHANGED inflight
      BY <3>2
    <3>3. QED
      BY <1>11, <3>1, <3>2, Zenon DEF DidDisconnect
  <2>3. QED
    BY <2>1, <2>2 DEF OnceInv, RequestsAwaited
<1>12. CASE ClearCallback
  BY <1>0, <1>12 DEF ClearCallback, netVars, history, OnceInv, RequestsAwaited
<1>13. CASE Relogin
  BY <1>0, <1>13 DEF Relogin, Login, netVars, OnceInv, RequestsAwaited
<1>14. CASE WatchDog \/ Tick \/ SendMessage
  BY <1>1, <1>14 DEF WatchDog, Tick, SendMessage, layer, netVars, history
<1>15. CASE UNCHANGED vars
  BY <1>1, <1>15 DEF vars, layer, netVars, history
<1>16. QED
  BY <1>2, <1>3, <1>4, <1>5, <1>6, <1>7, <1>8, <1>9, <1>10, <1>11, <1>12, <1>13,
     <1>14, <1>15 DEF Next, Net, Thread, MainQueue

(* A login attempt's closure is called at most once, for any number of     *)
(* attempts, connections and responses.                                    *)
THEOREM CallbacksFireOnce == Spec => []CallbackAtMostOnce
<1>1. OnceInv => CallbackAtMostOnce
  <2>1. ASSUME OnceInv, NEW l \in Attempts PROVE fired[l] = 0 \/ fired[l] = 1
    BY <2>1, Zenon DEF OnceInv
  <2>2. ASSUME OnceInv, NEW l \in Attempts PROVE fired[l] <= 1
    BY <2>1, <2>2
  <2>3. QED
    BY <2>2, Zenon DEF CallbackAtMostOnce
<1>2. Spec => [](TypeInv /\ OnceInv)
  BY TypeInit, TypeStep, OnceInit, OnceStep, PTL DEF Spec
<1>3. QED
  BY <1>1, <1>2, PTL

-----------------------------------------------------------------------------
(***************************************************************************)
(* SilentConnectionIsLate.  A connection is opened by the answer to a call *)
(* that somebody still waits for, who will log in on it when he resumes,   *)
(* or by one nobody waits for any more, which lateConn records.            *)
(***************************************************************************)
WillLogin ==
    \/ main = "await"
    \/ \E l \in Attempts : \/ att[l] = "netAwait"
                           \/ att[l] = "await" /\ <<l, "thread">> \in granted

SilentInv == sock # "idle" => conn \in loginOn \cup lateConn \/ WillLogin

LEMMA SilentInit == Init => SilentInv
BY DEF Init, SilentInv

(* Steps that open no connection, and after which whoever was about to log *)
(* in still is.                                                            *)
LEMMA SilentFrame ==
    ASSUME SilentInv, UNCHANGED conn, sock = "idle" => sock' = "idle",
           loginOn \subseteq loginOn', lateConn \subseteq lateConn',
           WillLogin => WillLogin'
    PROVE  SilentInv'
BY DEF SilentInv

(* The requested login accounts for the connection it is written to.       *)
LEMMA SilentLogin ==
    ASSUME NEW STATE cb, Login(cb)
    PROVE  SilentInv'
BY DEF Login, SilentInv

(* A step of attempt l alone, which was not about to log in.               *)
LEMMA SilentAttempt ==
    ASSUME TypeInv, SilentInv, NEW l \in Attempts, NEW STATE a,
           att' = [att EXCEPT ![l] = a],
           ~(att[l] = "netAwait" \/ (att[l] = "await" /\ <<l, "thread">> \in granted)),
           UNCHANGED <<conn, main, granted, loginOn, lateConn>>,
           sock = "idle" => sock' = "idle"
    PROVE  SilentInv'
<1>1. \A k \in Attempts : k # l => att'[k] = att[k]
  BY DEF TypeInv, TypeOK
<1>2. WillLogin => WillLogin'
  BY <1>1 DEF WillLogin
<1>3. QED
  BY <1>2, SilentFrame

LEMMA SilentStep == TypeInv /\ OnceInv /\ SilentInv /\ [Next]_vars => SilentInv'
<1> SUFFICES ASSUME TypeInv, OnceInv, SilentInv, [Next]_vars PROVE SilentInv'
  OBVIOUS
<1>1. CASE Socket
  BY <1>1, SilentFrame
     DEF Socket, SocketUp, SocketError, Transmit, Read, netVars, history, WillLogin
<1>2. ASSUME NEW c \in Call, ServerInfoReply(c) PROVE SilentInv'
  <2>1. UNCHANGED <<main, relogins, att, loginOn>>
    BY <1>2 DEF ServerInfoReply
  <2>2. CASE UNCHANGED <<sock, conn, lateConn>>
    <3>1. granted \subseteq granted'
      BY <1>2 DEF ServerInfoReply
    <3>2. QED
      BY <2>1, <2>2, <3>1, SilentFrame DEF WillLogin
  <2>3. CASE /\ granted' = granted \cup {c} /\ conn' = conn + 1
             /\ lateConn' = IF Waiting(c) THEN lateConn ELSE lateConn \cup {conn + 1}
    <3>1. CASE Waiting(c)
      <4>1. \/ main = "await"
            \/ c[1] \in Attempts /\ c[2] = "thread" /\ att[c[1]] = "await"
            \/ c[1] \in Attempts /\ att[c[1]] = "netAwait"
        BY <3>1 DEF Waiting
      <4>2. c[1] \in Attempts /\ c[2] = "thread" => c = <<c[1], "thread">>
        BY AttemptsAssumption DEF Call
      <4>3. WillLogin'
        BY <2>1, <2>3, <4>1, <4>2 DEF WillLogin
      <4>4. QED
        BY <4>3 DEF SilentInv
    <3>2. CASE ~Waiting(c)
      BY <2>3, <3>2 DEF SilentInv
    <3>3. QED
      BY <3>1, <3>2
  <2>4. QED
    BY <1>2, <2>2, <2>3 DEF ServerInfoReply
<1>3. ASSUME NEW l \in Attempts, TokenReply(l) PROVE SilentInv'
  <2>1. att[l] = "tokenReq"
    BY <1>3 DEF TokenReply, OnceInv, RequestsAwaited
  <2>2. QED
    BY <1>3, <2>1, SilentAttempt DEF TokenReply, sockVars, history
<1>4. ASSUME NEW l \in Attempts, InfoReply(l) PROVE SilentInv'
  <2>1. att[l] = "infoReq"
    BY <1>4 DEF InfoReply, OnceInv, RequestsAwaited
  <2>2. UNCHANGED conn /\ (sock = "idle" => sock' = "idle")
    BY <1>4 DEF InfoReply, DropConnection, sockVars
  <2>3. \E a \in {"done", "netAwait"} : att' = [att EXCEPT ![l] = a]
    BY <1>4 DEF InfoReply
  <2>4. QED
    BY <1>4, <2>1, <2>2, <2>3, SilentAttempt DEF InfoReply, history
<1>5. ASSUME NEW l \in Attempts, NetResume(l) PROVE SilentInv'
  BY <1>5, SilentLogin DEF NetResume
<1>6. ASSUME NEW l \in Attempts, Appear(l) PROVE SilentInv'
  <2>1. att[l] = "off"
    BY <1>6 DEF Appear
  <2>2. UNCHANGED conn /\ (sock = "idle" => sock' = "idle")
    BY <1>6 DEF Appear, DropConnection, sockVars
  <2>3. \E a \in {"await", "tokenReq", "done"} : att' = [att EXCEPT ![l] = a]
    BY <1>6 DEF Appear, Fallback
  <2>4. QED
    BY <1>6, <2>1, <2>2, <2>3, SilentAttempt DEF Appear, history
<1>7. ASSUME NEW l \in Attempts, LoginGranted(l) PROVE SilentInv'
  BY <1>7, SilentLogin DEF LoginGranted
<1>8. ASSUME NEW l \in Attempts, LoginTimeout(l) PROVE SilentInv'
  <2>1. att[l] = "await" /\ <<l, "thread">> \notin granted
    BY <1>8 DEF LoginTimeout
  <2>2. \E a \in {"tokenReq", "done"} : att' = [att EXCEPT ![l] = a]
    BY <1>8 DEF LoginTimeout, Fallback
  <2>3. QED
    BY <1>8, <2>1, <2>2, SilentAttempt DEF LoginTimeout, sockVars, history
<1>9. CASE DidConnect \/ DidReadLoginResponse
  <2>1. main = "free"
    BY <1>9 DEF DidConnect, DidReadLoginResponse, NextEvent
  <2>2. UNCHANGED <<sock, conn, att, granted, loginOn, lateConn>>
    BY <1>9 DEF DidConnect, DidReadLoginResponse, sockVars, netVars
  <2>3. QED
    BY <2>1, <2>2, SilentFrame DEF WillLogin
<1>10. CASE DidDisconnect
  <2>1. UNCHANGED <<conn, att, granted, loginOn, lateConn>> /\ main = "free"
    BY <1>10 DEF DidDisconnect, NextEvent, history
  <2>2. sock = "idle" => sock' = "idle"
    BY <1>10 DEF DidDisconnect, DropConnection
  <2>3. QED
    BY <2>1, <2>2, SilentFrame DEF WillLogin
<1>11. CASE ClearCallback
  BY <1>11, SilentFrame DEF ClearCallback, sockVars, netVars, history, WillLogin
<1>12. CASE Relogin
  BY <1>12, SilentLogin DEF Relogin
<1>13. CASE WatchDog \/ Tick \/ SendMessage
  BY <1>13, SilentFrame
     DEF WatchDog, Tick, SendMessage, sockVars, netVars, history, WillLogin
<1>14. CASE UNCHANGED vars
  BY <1>14, SilentFrame DEF vars, sockVars, netVars, history, WillLogin
<1>15. QED
  BY <1>1, <1>2, <1>3, <1>4, <1>5, <1>6, <1>7, <1>8, <1>9, <1>10, <1>11, <1>12,
     <1>13, <1>14 DEF Next, Net, Thread, MainQueue

(* A connection on which nobody logged in or is about to was opened by an  *)
(* answer whose caller had given up: no other interleaving of the waits,   *)
(* the drops and the answers leaves the keyboard silently connected.       *)
THEOREM SilentConnectionsAreLate == Spec => []SilentConnectionIsLate
<1>1. SilentInv => SilentConnectionIsLate
  BY DEF SilentInv, SilentConnectionIsLate, NobodyConnecting, WillLogin
<1>2. Spec => [](TypeInv /\ OnceInv /\ SilentInv)
  BY TypeInit, TypeStep, OnceInit, OnceStep, SilentInit, SilentStep, PTL DEF Spec
<1>3. QED
  BY <1>1, <1>2, PTL

LEMMA Least ==
    ASSUME NEW T \in SUBSET Nat, T # {}
    PROVE  \E m \in T : \A k \in T : m <= k
<1>1. \E x \in T : \A y \in T : ~ (<<y, x>> \in OpToRel(<, Nat))
  BY NatLessThanWellFounded, WFMin
<1>2. PICK x \in T : \A y \in T : ~ (<<y, x>> \in OpToRel(<, Nat))
  BY <1>1
<1>3. \A y \in T : ~ (y < x)
  BY <1>2 DEF OpToRel
<1>. QED
  BY <1>3

-----------------------------------------------------------------------------
(* The invariant of what is learned                                        *)

IsLearner(t) == tasks[t].of = 0 /\ tasks[t].pair # NoPair
TaskRecord   == [pc : Learner!Pcs, pair : Learned \cup {NoPair}, of : 0..MaxTask, row : Learner!RowIds \cup {0},
                 count : -MaxTask..MaxTask, main : BOOLEAN]
Begun        == DOMAIN tasks

(* The tasks that inserted, raised and lowered a count                     *)
Inserters == {t \in Begun : IsLearner(t) /\ tasks[t].pc \in {"flag", "done"} /\ tasks[t].row = 0}
Raisers   == {t \in Begun : IsLearner(t) /\ Learner!At(t, "done") /\ tasks[t].row # 0}
Takers    == {t \in Begun : ~IsLearner(t) /\ tasks[t].pc \in {"clear", "done"}}

(* The sum CountsRight takes                                               *)
Total(f, S) == Learner!MapThenSumSet(LAMBDA r : f[r].count + 1, S)

(* The types, with what bounds them: no row has more than the operations   *)
(* have given it.                                                          *)
LearnTypes ==
    /\ tasks \in Seq(TaskRecord) /\ Len(tasks) <= MaxTask
    /\ DOMAIN rows \subseteq Learner!RowIds /\ \A r \in DOMAIN rows : rows[r] \in Learner!Row
    /\ flag \in BOOLEAN /\ words \in Seq(Begun) /\ evidence \in [Learned -> Int]
    /\ hits \subseteq [pair : Learned, wanted : Learned \cup {NoPair}] /\ mixed \subseteq Learner!Causes
    /\ \A r \in DOMAIN rows :
        r <= Cardinality(Inserters) /\ rows[r].count \in -Cardinality(Takers)..Cardinality(Raisers)

(* A task does one or the other; what is taken back was a word.            *)
TaskFits(t) ==
    IF IsLearner(t) THEN /\ tasks[t].pair \in Learned
                         /\ tasks[t].pc \in {"find", "update", "insert", "flag", "done"}
                         /\ tasks[t].pc \in {"find", "insert", "flag"} => tasks[t].row = 0
                         /\ tasks[t].pc = "update" => tasks[t].row # 0
    ELSE /\ tasks[t].pc \in {"guard", "max", "count", "change", "clear", "done"}
         /\ tasks[t].of # 0 => /\ tasks[t].of \in 1..(t - 1) /\ IsLearner(tasks[t].of)
                               /\ tasks[t].pair = tasks[tasks[t].of].pair
         /\ tasks[t].pc = "count" => tasks[t].row # 0

TasksFit ==
    /\ \A t \in Begun : TaskFits(t)
    /\ \A i \in DOMAIN words : IsLearner(words[i])
    /\ "twice" \in mixed => "hurried" \in mixed

(* Pairs of one learner at a time: who inserts finds no row.               *)
TwiceFits ==
    /\ \A t, u \in Learner!Under : IsLearner(t) /\ IsLearner(u) /\ tasks[t].pair = tasks[u].pair => t = u
    /\ \A t \in Learner!Under : IsLearner(t) /\ Learner!At(t, "insert") => Learner!RowsOf(tasks[t].pair) = {}
    /\ \A r, s \in DOMAIN rows : rows[r].pair = rows[s].pair => r = s
TwiceInv == "twice" \notin mixed => TwiceFits

(* Who takes out is alone, what was read still holds, and the table weighs *)
(* the pairs.                                                              *)
AloneFits == \A t \in Learner!Under : ~IsLearner(t) => Learner!Under = {t}
StillThere(t) ==
    /\ Learner!At(t, "update") => tasks[t].row \in DOMAIN rows /\ rows[tasks[t].row].pair = tasks[t].pair
    /\ tasks[t].pc \in {"count", "change"} => tasks[t].row \in DOMAIN rows
    /\ Learner!At(t, "change") => tasks[t].count = rows[tasks[t].row].count
Weighed ==
    /\ \A r \in DOMAIN rows : rows[r].count >= 0
    /\ \A p \in Learned : Total(rows, Learner!RowsOf(p)) = evidence[p]
MixedInv == "mixed" \notin mixed => AloneFits /\ (\A t \in Learner!Under : StillThere(t)) /\ Weighed

(* One operation at a time.  The flag is set as long as the last one is a  *)
(* word whose row, if it is new, is the last, or takes such a word back.   *)
NewIsLast(u) == tasks[u].row = 0 => Learner!RowsOf(tasks[u].pair) \subseteq {Learner!LastRow}
LearnerFits(u) ==
    /\ words # <<>> /\ Learner!Last(words) = u
    /\ tasks[u].pc \in {"flag", "done"} => NewIsLast(u)
RemoverFits(u) ==
    /\ flag /\ Learner!At(u, "guard") /\ tasks[u].of # 0 => tasks[u].of = u - 1 /\ NewIsLast(u - 1)
    /\ Learner!At(u, "done") => ~flag
    /\ Learner!At(u, "max") => Learner!LastRow # 0 /\ Learner!LastRow \in Learner!RowsOf(tasks[u].pair)
    /\ tasks[u].pc \in {"count", "change"} => tasks[u].row \in Learner!RowsOf(tasks[u].pair)
LastFits ==
    /\ Learner!Under \subseteq {Len(tasks)} /\ (flag => Len(tasks) # 0)
    /\ \A u \in Begun : u = Len(tasks) => IF IsLearner(u) THEN LearnerFits(u) ELSE RemoverFits(u)
    /\ \A h \in hits : h.pair = h.wanted
Calm    == mixed \cap {"older", "taken", "hurried", "mixed"} = {}
LastInv == Calm => LastFits

LearnInv == LearnTypes /\ TasksFit /\ TwiceInv /\ MixedInv /\ LastInv

-----------------------------------------------------------------------------
(* Sums over a finite set of rows, which CountsRight takes                 *)

Some(s)     == CHOOSE x \in s : TRUE

(* A function on the subsets of S is the sum of those of at most n rows.   *)
SumsTo(f, S, n, g) ==
    \A s \in SUBSET S : Cardinality(s) <= n =>
        g[s] = IF s = {} THEN 0 ELSE (f[Some(s)].count + 1) + g[s \ {Some(s)}]

SumsOf(f, S, g) ==
    \A s \in SUBSET S : g[s] = IF s = {} THEN 0 ELSE (f[Some(s)].count + 1) + g[s \ {Some(s)}]

LEMMA SumsExist ==
    ASSUME NEW S, IsFiniteSet(S), NEW f, \A r \in S : f[r].count \in Int
    PROVE  \A n \in Nat : \E g \in [SUBSET S -> Int] : SumsTo(f, S, n, g)
<1> DEFINE Bad == {n \in Nat : ~\E g \in [SUBSET S -> Int] : SumsTo(f, S, n, g)}
<1> SUFFICES ASSUME Bad # {} PROVE FALSE
  OBVIOUS
<1>1. PICK n \in Bad : \A k \in Bad : n <= k
  BY Least
<1>2. \A s \in SUBSET S : IsFiniteSet(s) /\ Cardinality(s) \in Nat /\ (Cardinality(s) = 0 <=> s = {})
  BY FS_Subset, FS_CardinalityType, FS_EmptySet
<1>3. CASE n = 0
  <2> DEFINE g == [s \in SUBSET S |-> 0]
  <2>1. g \in [SUBSET S -> Int] /\ SumsTo(f, S, 0, g)
    BY <1>2 DEF SumsTo
  <2> QED
    BY <1>3, <2>1
<1>4. CASE n # 0
  <2>1. n - 1 \in Nat /\ n - 1 \notin Bad
    <3>1. n \in Nat /\ \A k \in Bad : n <= k
      BY <1>1
    <3> HIDE DEF Bad
    <3> QED
      BY <1>4, <3>1
  <2>2. PICK g \in [SUBSET S -> Int] : SumsTo(f, S, n - 1, g)
    BY <2>1
  <2> DEFINE h == [s \in SUBSET S |-> IF Cardinality(s) <= n - 1 THEN g[s]
                                      ELSE (f[Some(s)].count + 1) + g[s \ {Some(s)}]]
  <2>3. ASSUME NEW s \in SUBSET S, s # {}
        PROVE  /\ Some(s) \in s /\ s \ {Some(s)} \in SUBSET S
               /\ Cardinality(s \ {Some(s)}) = Cardinality(s) - 1
    BY <1>2, <2>3, FS_RemoveElement DEF Some
  <2>4. h \in [SUBSET S -> Int]
    <3> SUFFICES ASSUME NEW s \in SUBSET S
                 PROVE  (IF Cardinality(s) <= n - 1 THEN g[s]
                         ELSE (f[Some(s)].count + 1) + g[s \ {Some(s)}]) \in Int
      OBVIOUS
    <3>1. s = {} => Cardinality(s) <= n - 1
      BY <1>2, <2>1
    <3> QED
      BY <2>3, <3>1
  <2>5. SumsTo(f, S, n, h)
    <3> SUFFICES ASSUME NEW s \in SUBSET S, Cardinality(s) <= n
                 PROVE  h[s] = IF s = {} THEN 0 ELSE (f[Some(s)].count + 1) + h[s \ {Some(s)}]
      BY DEF SumsTo
    <3>1. CASE s = {}
      BY <1>2, <2>1, <2>2, <3>1 DEF SumsTo
    <3>2. CASE s # {}
      <4>1. Cardinality(s \ {Some(s)}) <= n - 1 /\ s \ {Some(s)} \in SUBSET S
        BY <1>2, <2>1, <2>3, <3>2
      <4>2. h[s \ {Some(s)}] = g[s \ {Some(s)}]
        BY <4>1
      <4>3. h[s] = (f[Some(s)].count + 1) + g[s \ {Some(s)}]
        BY <2>2, <3>2 DEF SumsTo
      <4> QED
        BY <3>2, <4>2, <4>3
    <3> QED
      BY <3>1, <3>2
  <2> QED
    BY <2>4, <2>5
<1> QED
  BY <1>3, <1>4

(* There is one such function only, if f and e agree.                      *)
LEMMA SumsAgree ==
    ASSUME NEW S, IsFiniteSet(S), NEW f, NEW e, \A r \in S : f[r].count = e[r].count, NEW g, NEW h,
           SumsOf(f, S, g),
           SumsOf(e, S, h)
    PROVE  \A s \in SUBSET S : h[s] = g[s]
<1> DEFINE Bad == {n \in Nat : \E s \in SUBSET S : Cardinality(s) = n /\ h[s] # g[s]}
<1>1. \A s \in SUBSET S : IsFiniteSet(s) /\ Cardinality(s) \in Nat
  BY FS_Subset, FS_CardinalityType
<1> SUFFICES ASSUME Bad # {} PROVE FALSE
  BY <1>1
<1>2. PICK n \in Bad : \A k \in Bad : n <= k
  BY Least
<1>3. PICK s \in SUBSET S : Cardinality(s) = n /\ h[s] # g[s]
  BY <1>2
<1>4. s # {}
  BY <1>3 DEF SumsOf
<1>5. Some(s) \in s /\ s \ {Some(s)} \in SUBSET S /\ Cardinality(s \ {Some(s)}) = n - 1
  BY <1>1, <1>3, <1>4, FS_RemoveElement DEF Some
<1>6. n - 1 \in Nat
  BY <1>1, <1>5
<1>7. n - 1 \notin Bad
  <2>1. n \in Nat /\ \A k \in Bad : n <= k
    BY <1>2
  <2> HIDE DEF Bad
  <2> QED
    BY <1>6, <2>1
<1>8. h[s \ {Some(s)}] = g[s \ {Some(s)}]
  BY <1>5, <1>6, <1>7
<1> QED
  BY <1>3, <1>4, <1>5, <1>8 DEF SumsOf

(* So the sum is what its definition says.                                 *)
LEMMA TotalSums ==
    ASSUME NEW S, IsFiniteSet(S), NEW f, \A r \in S : f[r].count \in Int
    PROVE  \E g \in [SUBSET S -> Int] :
             /\ SumsOf(f, S, g)
             /\ Total(f, S) = g[S]
<1> DEFINE Sums(g) == g = [s \in SUBSET S |->
                             IF s = {} THEN 0 ELSE (f[Some(s)].count + 1) + g[s \ {Some(s)}]]
<1>1. PICK g \in [SUBSET S -> Int] : SumsTo(f, S, Cardinality(S), g)
  BY SumsExist, FS_CardinalityType
<1>2. \A s \in SUBSET S : Cardinality(s) <= Cardinality(S)
  BY FS_Subset
<1>3. Sums(g)
  BY <1>1, <1>2 DEF SumsTo
<1>4. PICK h : Sums(h) /\ Total(f, S) = h[S]
  <2>1. Sums(CHOOSE h : Sums(h))
    BY <1>3
  <2>2. Total(f, S) = (CHOOSE h : Sums(h))[S]
    BY DEF Total, Learner!MapThenSumSet, Learner!MapThenFoldSet, Some
  <2> QED
    BY <2>1, <2>2
<1>5. \A s \in SUBSET S : h[s] = g[s]
  <2>1. SumsOf(f, S, g) /\ SumsOf(f, S, h)
    BY <1>3, <1>4 DEF SumsOf
  <2> QED
    BY <2>1, SumsAgree
<1> QED
  <2>1. SumsOf(f, S, g)
    BY <1>3 DEF SumsOf
  <2> QED
    BY <1>4, <1>5, <2>1

(* Any row may be the first.                                               *)
Picks(f, S, g) == \A s \in SUBSET S : \A x \in s : g[s] = (f[x].count + 1) + g[s \ {x}]

LEMMA SumsPick ==
    ASSUME NEW S, IsFiniteSet(S), NEW f, \A r \in S : f[r].count \in Int, NEW g \in [SUBSET S -> Int],
           SumsOf(f, S, g)
    PROVE  Picks(f, S, g)
<1> DEFINE Off(s) == \E x \in s : g[s] # (f[x].count + 1) + g[s \ {x}]
           Bad    == {n \in Nat : \E s \in SUBSET S : Cardinality(s) = n /\ Off(s)}
<1>1. \A s \in SUBSET S : IsFiniteSet(s) /\ Cardinality(s) \in Nat
  BY FS_Subset, FS_CardinalityType
<1> SUFFICES ASSUME Bad # {} PROVE FALSE
  BY <1>1 DEF Picks
<1>2. PICK n \in Bad : \A k \in Bad : n <= k
  BY Least
<1>3. PICK s \in SUBSET S : Cardinality(s) = n /\ Off(s)
  BY <1>2
<1>4. PICK x \in s : g[s] # (f[x].count + 1) + g[s \ {x}]
  BY <1>3
<1> DEFINE y == Some(s)
<1>5. y \in s /\ g[s] = (f[y].count + 1) + g[s \ {y}]
  BY <1>4 DEF Some, SumsOf
<1> HIDE DEF y
<1>6. x # y
  BY <1>4, <1>5
<1>7. ASSUME NEW z \in s, NEW w \in s, z # w
      PROVE  g[s \ {z}] = (f[w].count + 1) + g[(s \ {z}) \ {w}]
  <2>1. s \ {z} \in SUBSET S /\ w \in s \ {z} /\ Cardinality(s \ {z}) = n - 1
    BY <1>1, <1>3, <1>7, FS_RemoveElement
  <2>2. n - 1 \in Nat
    BY <1>1, <2>1
  <2>3. n - 1 \notin Bad
    <3>1. n \in Nat /\ \A k \in Bad : n <= k
      BY <1>2
    <3> HIDE DEF Bad
    <3> QED
      BY <2>2, <3>1
  <2> QED
    BY <2>1, <2>2, <2>3
<1>8. g[s \ {y}] = (f[x].count + 1) + g[(s \ {y}) \ {x}] /\ g[s \ {x}] = (f[y].count + 1) + g[(s \ {x}) \ {y}]
  BY <1>5, <1>6, <1>7
<1>9. (s \ {y}) \ {x} = (s \ {x}) \ {y} /\ (s \ {x}) \ {y} \in SUBSET S
  OBVIOUS
<1> DEFINE rest == g[(s \ {x}) \ {y}]
           a    == f[x].count
           b    == f[y].count
<1>10. rest \in Int /\ a \in Int /\ b \in Int
  BY <1>5, <1>9
<1>11. g[s \ {y}] = (a + 1) + rest /\ g[s \ {x}] = (b + 1) + rest
  BY <1>8, <1>9
<1>12. g[s] # (a + 1) + g[s \ {x}] /\ g[s] = (b + 1) + g[s \ {y}]
  BY <1>4, <1>5
<1> HIDE DEF rest, a, b
<1> QED
  BY ONLY <1>10, <1>11, <1>12

LEMMA TotalEmpty ==
    ASSUME NEW f
    PROVE  Total(f, {}) = 0
<1>1. PICK g \in [SUBSET {} -> Int] : SumsOf(f, {}, g) /\ Total(f, {}) = g[{}]
  BY TotalSums, FS_EmptySet
<1> QED
  BY <1>1 DEF SumsOf

LEMMA TotalInt ==
    ASSUME NEW S, IsFiniteSet(S), NEW f, \A r \in S : f[r].count \in Int
    PROVE  Total(f, S) \in Int
<1>1. PICK g \in [SUBSET S -> Int] : SumsOf(f, S, g) /\ Total(f, S) = g[S]
  BY TotalSums
<1> QED
  BY <1>1

LEMMA TotalSame ==
    ASSUME NEW S, IsFiniteSet(S), NEW f, NEW e, \A r \in S : f[r].count \in Int /\ e[r].count = f[r].count
    PROVE  Total(e, S) = Total(f, S)
<1>1. PICK g \in [SUBSET S -> Int] :
        /\ SumsOf(f, S, g)
        /\ Total(f, S) = g[S]
  BY TotalSums
<1>2. PICK h \in [SUBSET S -> Int] :
        /\ SumsOf(e, S, h)
        /\ Total(e, S) = h[S]
  BY TotalSums
<1>3. \A s \in SUBSET S : h[s] = g[s]
  BY <1>1, <1>2, SumsAgree
<1> QED
  BY <1>1, <1>2, <1>3

LEMMA TotalPick ==
    ASSUME NEW S, IsFiniteSet(S), NEW f, \A r \in S : f[r].count \in Int, NEW x \in S
    PROVE  Total(f, S) = (f[x].count + 1) + Total(f, S \ {x})
<1>1. PICK g \in [SUBSET S -> Int] :
        /\ SumsOf(f, S, g)
        /\ Total(f, S) = g[S]
  BY TotalSums
<1> DEFINE T == S \ {x}
<1>2. T \in SUBSET S /\ IsFiniteSet(T) /\ \A r \in T : f[r].count \in Int
  BY FS_Subset
<1> HIDE DEF T
<1>3. PICK h \in [SUBSET T -> Int] :
        /\ SumsOf(f, T, h)
        /\ Total(f, T) = h[T]
  BY <1>2, TotalSums
<1>4. \A s \in SUBSET T : h[s] = g[s]
  <2>1. SumsOf(f, T, g)
    BY <1>1, <1>2 DEF SumsOf
  <2> QED
    BY <1>2, <1>3, <2>1, SumsAgree
<1>5. g[S] = (f[x].count + 1) + g[T]
  <2>1. Picks(f, S, g)
    BY <1>1, SumsPick
  <2> QED
    BY <2>1 DEF Picks, T
<1> QED
  BY <1>1, <1>3, <1>4, <1>5 DEF T

-----------------------------------------------------------------------------
(* Rows and tasks                                                          *)

LEMMA MaxIs ==
    ASSUME NEW n \in Nat, NEW S \in SUBSET (1..n), S # {}
    PROVE  Learner!Max(S) \in S /\ \A r \in S : r <= Learner!Max(S)
<1> DEFINE T == {n - r : r \in S}
<1>1. T \in SUBSET Nat /\ T # {}
  <2>1. \A r \in S : n - r \in Nat
    OBVIOUS
  <2> QED
    BY <2>1
<1>2. PICK m \in T : \A k \in T : m <= k
  BY <1>1, Least
<1>3. PICK r \in S : m = n - r
  BY <1>2
<1>4. \A s \in S : r >= s
  <2> SUFFICES ASSUME NEW s \in S PROVE r >= s
    OBVIOUS
  <2>1. n - r <= n - s
    BY <1>2, <1>3
  <2> QED
    BY <2>1
<1>5. \E x \in S : \A y \in S : x >= y
  BY <1>4
<1>6. Learner!Max(S) \in S /\ \A y \in S : Learner!Max(S) >= y
  BY <1>5 DEF Learner!Max
<1> QED
  BY <1>6

LEMMA LearnFacts ==
    ASSUME LearnTypes
    PROVE  /\ MaxTask \in Nat /\ Len(tasks) \in 0..MaxTask /\ Begun = 1..Len(tasks)
           /\ tasks \in [Begun -> TaskRecord] /\ IsFiniteSet(Begun)
           /\ Learner!Under = {t \in Begun : tasks[t].pc # "done"}
<1>1. MaxTask \in Nat
  BY PartsAssumption DEF Learner!TaskAssumption
<1>2. /\ Len(tasks) \in Nat /\ Begun = 1..Len(tasks) /\ tasks \in [1..Len(tasks) -> TaskRecord]
  BY LenProperties DEF LearnTypes, Begun
<1>3. IsFiniteSet(1..Len(tasks))
  BY <1>2, FS_Interval
<1>4. Learner!Under = {t \in Begun : tasks[t].pc # "done"}
  BY DEF Learner!Under, Learner!At, Begun
<1> QED
  BY <1>1, <1>2, <1>3, <1>4 DEF LearnTypes

LEMMA LastRowIs ==
    ASSUME LearnTypes
    PROVE  /\ Learner!LastRow \in 0..MaxTask /\ \A r \in DOMAIN rows : r <= Learner!LastRow
           /\ Learner!LastRow # 0 => Learner!LastRow \in DOMAIN rows
           /\ Learner!LastRow = 0 => DOMAIN rows = {}
<1>1. MaxTask \in Nat /\ DOMAIN rows \in SUBSET (1..MaxTask)
  BY LearnFacts DEF LearnTypes, Learner!RowIds
<1>2. CASE DOMAIN rows = {}
  BY <1>1, <1>2 DEF Learner!LastRow
<1>3. CASE DOMAIN rows # {}
  <2>1. Learner!Max(DOMAIN rows) \in DOMAIN rows /\ \A r \in DOMAIN rows : r <= Learner!Max(DOMAIN rows)
    BY <1>1, <1>3, MaxIs
  <2>2. Learner!LastRow = Learner!Max(DOMAIN rows)
    BY <1>3 DEF Learner!LastRow
  <2> QED
    BY <1>1, <1>3, <2>1, <2>2
<1> QED
  BY <1>2, <1>3

LEMMA RowsFinite ==
    ASSUME LearnTypes, NEW p
    PROVE  /\ IsFiniteSet(Learner!RowsOf(p)) /\ Learner!RowsOf(p) \subseteq DOMAIN rows
           /\ \A r \in DOMAIN rows : rows[r].count \in Int /\ rows[r].pair \in Learned
           /\ \A r \in DOMAIN rows : r \in Nat
<1>1. MaxTask \in Nat /\ DOMAIN rows \subseteq 1..MaxTask
  BY LearnFacts DEF LearnTypes, Learner!RowIds
<1>2. IsFiniteSet(1..MaxTask) /\ Learner!RowsOf(p) \in SUBSET (1..MaxTask)
  BY <1>1, FS_Interval DEF Learner!RowsOf
<1>3. \A r \in DOMAIN rows : rows[r].count \in Int /\ rows[r].pair \in Learned
  BY <1>1 DEF LearnTypes, Learner!Row
<1>4. IsFiniteSet(Learner!RowsOf(p))
  BY <1>2, FS_Subset
<1>5. Learner!RowsOf(p) \subseteq DOMAIN rows
  BY DEF Learner!RowsOf
<1>6. \A r \in DOMAIN rows : r \in Nat
  BY <1>1
<1> QED
  BY <1>3, <1>4, <1>5, <1>6

(* How many did something is at most how many began.                       *)
LEMMA SomeBegun ==
    ASSUME LearnTypes, NEW S \in SUBSET Begun
    PROVE  IsFiniteSet(S) /\ Cardinality(S) \in 0..MaxTask
<1>1. IsFiniteSet(S) /\ Cardinality(S) <= Cardinality(Begun)
  BY LearnFacts, FS_Subset
<1>2. Cardinality(Begun) = Len(tasks)
  <2>1. Len(tasks) \in Nat /\ Begun = 1..Len(tasks)
    BY LearnFacts
  <2>2. Cardinality(1..Len(tasks)) = IF 1 > Len(tasks) THEN 0 ELSE Len(tasks) - 1 + 1
    BY <2>1, FS_Interval
  <2> QED
    BY <2>1, <2>2
<1> QED
  BY <1>1, <1>2, LearnFacts, FS_CardinalityType

-----------------------------------------------------------------------------
(* Steps, without their EXCEPTs                                            *)

(* A task moves on.                                                        *)
Moves(t, pc, row, count) ==
    /\ tasks' \in Seq(TaskRecord) /\ Len(tasks') = Len(tasks) /\ DOMAIN tasks' = DOMAIN tasks
    /\ \A u \in Begun \ {t} : tasks'[u] = tasks[u]
    /\ tasks'[t].pc = pc /\ tasks'[t].row = row /\ tasks'[t].count = count
    /\ tasks'[t].pair = tasks[t].pair /\ tasks'[t].of = tasks[t].of

LEMMA TaskMoves ==
    ASSUME LearnTypes, NEW t \in Begun, NEW pc \in Learner!Pcs, NEW row \in Learner!RowIds \cup {0},
           NEW count \in -MaxTask..MaxTask,
           tasks' = [tasks EXCEPT ![t] = [tasks[t] EXCEPT !.pc = pc, !.row = row, !.count = count]]
    PROVE  Moves(t, pc, row, count)
<1> DEFINE new == [tasks[t] EXCEPT !.pc = pc, !.row = row, !.count = count]
<1>1. tasks[t] \in TaskRecord /\ t \in 1..Len(tasks) /\ tasks \in Seq(TaskRecord)
  BY LearnFacts DEF LearnTypes
<1>2. /\ new \in TaskRecord /\ new.pc = pc /\ new.row = row /\ new.count = count
      /\ new.pair = tasks[t].pair /\ new.of = tasks[t].of
  BY <1>1 DEF TaskRecord
<1>3. tasks' = [tasks EXCEPT ![t] = new]
  OBVIOUS
<1> HIDE DEF new
<1>4. /\ tasks' \in Seq(TaskRecord) /\ Len(tasks') = Len(tasks)
      /\ \A j \in 1..Len(tasks) : tasks'[j] = IF j = t THEN new ELSE tasks[j]
  BY <1>1, <1>2, <1>3, ExceptSeq
<1>5. DOMAIN tasks' = 1..Len(tasks') /\ Begun = 1..Len(tasks) /\ DOMAIN tasks = Begun
  BY <1>4, LearnFacts, LenProperties DEF Begun
<1> QED
  BY <1>1, <1>2, <1>4, <1>5 DEF Moves

(* The fields of a task as they are                                        *)
LEMMA TaskFields ==
    ASSUME LearnTypes, NEW t \in Begun
    PROVE  /\ tasks[t].pc \in Learner!Pcs /\ tasks[t].row \in Learner!RowIds \cup {0}
           /\ tasks[t].count \in -MaxTask..MaxTask /\ tasks[t].pair \in Learned \cup {NoPair}
           /\ tasks[t].of \in 0..MaxTask
           /\ \A pc, row, count :
                /\ [tasks[t] EXCEPT !.pc = pc]
                     = [tasks[t] EXCEPT !.pc = pc, !.row = tasks[t].row, !.count = tasks[t].count]
                /\ [tasks[t] EXCEPT !.pc = pc, !.row = row]
                     = [tasks[t] EXCEPT !.pc = pc, !.row = row, !.count = tasks[t].count]
                /\ [tasks[t] EXCEPT !.pc = pc, !.count = count]
                     = [tasks[t] EXCEPT !.pc = pc, !.row = tasks[t].row, !.count = count]
<1>1. tasks[t] \in TaskRecord
  BY LearnFacts
<1> QED
  BY <1>1 DEF TaskRecord

LEMMA ThenMoves ==
    ASSUME LearnTypes, NEW t \in Begun, NEW pc \in Learner!Pcs, Learner!Then(t, pc)
    PROVE  Moves(t, pc, tasks[t].row, tasks[t].count)
<1>1. tasks' = [tasks EXCEPT ![t] = [tasks[t] EXCEPT !.pc = pc]]
  BY DEF Learner!Then
<1>2. tasks' = [tasks EXCEPT ![t] = [tasks[t] EXCEPT !.pc = pc, !.row = tasks[t].row, !.count = tasks[t].count]]
  BY <1>1, TaskFields
<1> QED
  BY <1>2, TaskFields, TaskMoves

LEMMA FindMoves ==
    ASSUME LearnTypes, NEW t \in Begun, Learner!GetThinkDBRowId(t)
    PROVE  \/ Learner!RowsOf(tasks[t].pair) = {} /\ Moves(t, "insert", tasks[t].row, tasks[t].count)
           \/ \E r \in Learner!RowsOf(tasks[t].pair) : Moves(t, "update", r, tasks[t].count)
<1>1. CASE Learner!RowsOf(tasks[t].pair) = {}
  BY <1>1, ThenMoves DEF Learner!GetThinkDBRowId, Learner!Pcs
<1>2. CASE Learner!RowsOf(tasks[t].pair) # {}
  <2>1. PICK r \in Learner!RowsOf(tasks[t].pair) : tasks' = [tasks EXCEPT ![t].pc = "update", ![t].row = r]
    BY <1>2 DEF Learner!GetThinkDBRowId
  <2>2. tasks' = [tasks EXCEPT ![t] = [tasks[t] EXCEPT !.pc = "update", !.row = r]]
    BY <2>1, LearnFacts
  <2>3. tasks' = [tasks EXCEPT ![t] = [tasks[t] EXCEPT !.pc = "update", !.row = r, !.count = tasks[t].count]]
    BY <2>2, TaskFields
  <2>4. r \in Learner!RowIds
    BY DEF Learner!RowsOf, LearnTypes
  <2>5. Moves(t, "update", r, tasks[t].count)
    BY <2>3, <2>4, TaskFields, TaskMoves DEF Learner!Pcs
  <2> QED
    BY <2>5
<1> QED
  BY <1>1, <1>2

LEMMA MaxMoves ==
    ASSUME LearnTypes, NEW t \in Begun, Learner!MaxRowId(t)
    PROVE  Moves(t, IF Learner!LastRow > 0 THEN "count" ELSE "done", Learner!LastRow, tasks[t].count)
<1> DEFINE pc == IF Learner!LastRow > 0 THEN "count" ELSE "done"
<1>1. tasks' = [tasks EXCEPT ![t].row = Learner!LastRow, ![t].pc = pc]
  BY DEF Learner!MaxRowId
<1>2. pc \in Learner!Pcs
  BY DEF Learner!Pcs
<1> HIDE DEF pc
<1>3. tasks' = [tasks EXCEPT ![t] = [tasks[t] EXCEPT !.pc = pc, !.row = Learner!LastRow,
      !.count = tasks[t].count]]
  <2>1. tasks' = [tasks EXCEPT ![t] = [tasks[t] EXCEPT !.row = Learner!LastRow, !.pc = pc]]
    BY <1>1, LearnFacts
  <2>2. tasks[t] \in TaskRecord
    BY LearnFacts
  <2>3. [tasks[t] EXCEPT !.row = Learner!LastRow, !.pc = pc]
          = [tasks[t] EXCEPT !.pc = pc, !.row = Learner!LastRow, !.count = tasks[t].count]
    BY <2>2 DEF TaskRecord
  <2> QED
    BY <2>1, <2>3
<1>4. Learner!LastRow \in Learner!RowIds \cup {0}
  BY LastRowIs DEF Learner!RowIds
<1>5. Moves(t, pc, Learner!LastRow, tasks[t].count)
  BY <1>2, <1>3, <1>4, TaskFields, TaskMoves
<1> QED
  BY <1>5 DEF pc

LEMMA CountMoves ==
    ASSUME LearnTypes, NEW t \in Begun, Learner!Count(t)
    PROVE  Moves(t, "change", tasks[t].row,
                 IF tasks[t].row \in DOMAIN rows THEN rows[tasks[t].row].count ELSE 0)
<1> DEFINE count == IF tasks[t].row \in DOMAIN rows THEN rows[tasks[t].row].count ELSE 0
<1>1. tasks' = [tasks EXCEPT ![t].pc = "change", ![t].count = count]
  BY DEF Learner!Count
<1>2. count \in -MaxTask..MaxTask
  BY LearnFacts DEF LearnTypes, Learner!Row
<1> HIDE DEF count
<1>3. tasks' = [tasks EXCEPT ![t] = [tasks[t] EXCEPT !.pc = "change", !.count = count]]
  BY <1>1, LearnFacts
<1>4. tasks' = [tasks EXCEPT ![t] = [tasks[t] EXCEPT !.pc = "change", !.row = tasks[t].row, !.count = count]]
  BY <1>3, TaskFields
<1>5. Moves(t, "change", tasks[t].row, count)
  BY <1>2, <1>4, TaskFields, TaskMoves DEF Learner!Pcs
<1> QED
  BY <1>5 DEF count

(* Another task begins.                                                    *)
Begins(task) ==
    /\ tasks' \in Seq(TaskRecord) /\ Len(tasks') = Len(tasks) + 1 /\ Len(tasks') <= MaxTask
    /\ DOMAIN tasks' = Begun \cup {Len(tasks) + 1}
    /\ \A u \in Begun : tasks'[u] = tasks[u]
    /\ tasks'[Len(tasks) + 1] = task

LEMMA TaskBegins ==
    ASSUME LearnTypes, NEW task \in TaskRecord, Learner!Start(task)
    PROVE  Begins(task)
<1>1. tasks' = Append(tasks, task) /\ Len(tasks) < MaxTask /\ tasks \in Seq(TaskRecord) /\ Len(tasks) \in Nat
  BY LearnFacts DEF Learner!Start, LearnTypes
<1>2. /\ tasks' \in Seq(TaskRecord) /\ Len(tasks') = Len(tasks) + 1
      /\ \A u \in 1..Len(tasks) : tasks'[u] = tasks[u]
      /\ tasks'[Len(tasks) + 1] = task
  BY <1>1, AppendProperties
<1>3. DOMAIN tasks' = 1..(Len(tasks) + 1) /\ Begun = 1..Len(tasks)
  BY <1>2, LearnFacts, LenProperties
<1>4. MaxTask \in Nat
  BY LearnFacts
<1> QED
  BY <1>1, <1>2, <1>3, <1>4 DEF Begins

(* The tasks that the user begins                                          *)
LEMMA LearnerBegins ==
    ASSUME LearnTypes, NEW p \in Learned, Learner!InsertText(p)
    PROVE  Begins(Learner!Learner(p)) /\ Learner!Learner(p).pc = "find" /\ Learner!Learner(p).of = 0
             /\ Learner!Learner(p).pair = p
           /\ Learner!Learner(p).row = 0 /\ p # NoPair
<1>1. Learner!Learner(p) \in TaskRecord
  BY LearnFacts DEF Learner!Learner, Learner!Task, TaskRecord, Learner!Pcs
<1> QED
  BY <1>1, TaskBegins, PartsAssumption DEF Learner!InsertText, Learner!Learner, Learner!Task,
     Learner!NoneAssumption

LEMMA RemoverBegins ==
    ASSUME LearnTypes, TasksFit, Learner!Delete \/ Learner!DoTraceback
    PROVE  \E of \in 0..Len(tasks), fg \in BOOLEAN :
             /\ of = 0 \/ (words # <<>> /\ of = Learner!Last(words) /\ of \in Begun /\ IsLearner(of))
             /\ Begins(Learner!Remover(of, fg)) /\ Learner!Remover(of, fg).pc = "guard"
                  /\ Learner!Remover(of, fg).of = of
             /\ Learner!Remover(of, fg).pair = IF of = 0 THEN NoPair ELSE tasks[of].pair
             /\ words' = words \/ (words # <<>> /\ words' = Learner!Front(words))
<1>0. words # <<>> => Learner!Last(words) \in Begun /\ IsLearner(Learner!Last(words))
        /\ Learner!Last(words) # 0 /\ Learner!Last(words) \in 0..Len(tasks)
  <2> SUFFICES ASSUME words # <<>>
               PROVE  Learner!Last(words) \in Begun /\ IsLearner(Learner!Last(words))
                        /\ Learner!Last(words) # 0 /\ Learner!Last(words) \in 0..Len(tasks)
    OBVIOUS
  <2>1. words \in Seq(Begun) /\ Len(words) \in Nat /\ Len(words) # 0 /\ DOMAIN words = 1..Len(words)
    BY EmptySeq, LenProperties DEF LearnTypes
  <2>2. Len(words) \in 1..Len(words)
    BY <2>1
  <2> QED
    BY <2>1, <2>2, ElementOfSeq, LearnFacts DEF Learner!Last, TasksFit
<1>1. ASSUME NEW of \in 0..Len(tasks), of = 0 \/ (words # <<>> /\ of = Learner!Last(words)), NEW fg \in BOOLEAN,
             Learner!Start(Learner!Remover(of, fg))
      PROVE  /\ Begins(Learner!Remover(of, fg)) /\ Learner!Remover(of, fg).pc = "guard"
                  /\ Learner!Remover(of, fg).of = of
             /\ Learner!Remover(of, fg).pair = IF of = 0 THEN NoPair ELSE tasks[of].pair
             /\ of = 0 \/ (words # <<>> /\ of = Learner!Last(words) /\ of \in Begun /\ IsLearner(of))
  <2>1. (IF of = 0 THEN NoPair ELSE tasks[of].pair) \in Learned \cup {NoPair}
    BY <1>0, <1>1, TaskFields
  <2>2. of \in 0..MaxTask /\ 0 \in -MaxTask..MaxTask
    BY LearnFacts
  <2> DEFINE pair == IF of = 0 THEN NoPair ELSE tasks[of].pair
  <2>3. Learner!Remover(of, fg) = [pc |-> "guard", pair |-> pair, of |-> of, row |-> 0, count |-> 0,
        main |-> fg]
    BY DEF Learner!Remover, Learner!Task
  <2> HIDE DEF pair
  <2>4. Learner!Remover(of, fg) \in TaskRecord
    BY <2>1, <2>2, <2>3 DEF TaskRecord, Learner!Pcs, pair
  <2>5. Begins(Learner!Remover(of, fg))
    BY <1>1, <2>4, TaskBegins
  <2> QED
    BY <1>0, <1>1, <2>3, <2>5 DEF pair
<1>2. CASE Learner!Delete
  <2>1. CASE words = <<>>
    <3> DEFINE of == IF words = <<>> THEN 0 ELSE Learner!Last(words)
    <3>1. Learner!Start(Learner!Remover(of, FALSE)) /\ words' = words /\ of = 0
      BY <1>2, <2>1 DEF Learner!Delete
    <3> HIDE DEF of
    <3>2. Learner!Start(Learner!Remover(0, FALSE))
      BY <3>1
    <3>3. 0 \in 0..Len(tasks)
      BY LearnFacts
    <3> QED
      BY <1>1, <3>1, <3>2, <3>3
  <2>2. CASE words # <<>>
    <3>1. Learner!Start(Learner!Remover(Learner!Last(words), FALSE)) /\ words' = Learner!Front(words)
      BY <1>2, <2>2 DEF Learner!Delete
    <3> QED
      BY <1>0, <1>1, <2>2, <3>1
  <2> QED
    BY <2>1, <2>2
<1>3. CASE Learner!DoTraceback
  <2>1. CASE words # <<>> /\ Learner!Start(Learner!Remover(Learner!Last(words), TRUE))
               /\ words' = Learner!Front(words)
    BY <1>0, <1>1, <2>1
  <2>2. CASE Learner!Start(Learner!Remover(0, TRUE)) /\ UNCHANGED words
    <3>1. 0 \in 0..Len(tasks)
      BY LearnFacts
    <3> QED
      BY <1>1, <2>2, <3>1
  <2> QED
    BY <1>3, <2>1, <2>2 DEF Learner!DoTraceback
<1> QED
  BY <1>2, <1>3

-----------------------------------------------------------------------------
(* Where a task goes from where it is                                      *)

Advance(t, pc, row) ==
    \/ Learner!At(t, "find") /\ pc = "insert" /\ row = tasks[t].row
    \/ Learner!At(t, "find") /\ pc = "update" /\ row # 0
    \/ Learner!At(t, "update") /\ pc = "done" /\ row = tasks[t].row
    \/ Learner!At(t, "insert") /\ pc = "flag" /\ row = tasks[t].row
    \/ Learner!At(t, "flag") /\ pc = "done" /\ row = tasks[t].row
    \/ Learner!At(t, "guard") /\ pc \in {"max", "done"} /\ row = tasks[t].row
    \/ Learner!At(t, "max") /\ pc = "count" /\ row # 0
    \/ Learner!At(t, "max") /\ pc = "done" /\ row = 0
    \/ Learner!At(t, "count") /\ pc = "change" /\ row = tasks[t].row
    \/ Learner!At(t, "change") /\ pc = "clear" /\ row = tasks[t].row
    \/ Learner!At(t, "clear") /\ pc = "done" /\ row = tasks[t].row

LEMMA StepMoves ==
    ASSUME LearnTypes, NEW t \in Begun, Learner!Step(t)
    PROVE  words' = words /\ \E pc, row, count : Moves(t, pc, row, count) /\ Advance(t, pc, row)
<1>1. CASE Learner!GetThinkDBRowId(t)
  <2>1. Learner!At(t, "find") /\ words' = words
    BY <1>1 DEF Learner!GetThinkDBRowId
  <2>2. CASE Moves(t, "insert", tasks[t].row, tasks[t].count)
    BY <2>1, <2>2 DEF Advance
  <2>3. CASE \E r \in Learner!RowsOf(tasks[t].pair) : Moves(t, "update", r, tasks[t].count)
    <3>1. PICK r \in Learner!RowsOf(tasks[t].pair) : Moves(t, "update", r, tasks[t].count)
      BY <2>3
    <3>2. r # 0
      BY DEF Learner!RowsOf, LearnTypes, Learner!RowIds
    <3> QED
      BY <2>1, <3>1, <3>2 DEF Advance
  <2> QED
    BY <1>1, <2>2, <2>3, FindMoves
<1>2. CASE Learner!Update(t)
  <2>1. Learner!At(t, "update") /\ Learner!Then(t, "done") /\ words' = words /\ "done" \in Learner!Pcs
    BY <1>2 DEF Learner!Update, Learner!Pcs
  <2> QED
    BY <2>1, ThenMoves DEF Advance
<1>3. CASE Learner!Insert(t)
  <2>1. Learner!At(t, "insert") /\ Learner!Then(t, "flag") /\ words' = words /\ "flag" \in Learner!Pcs
    BY <1>3 DEF Learner!Insert, Learner!Pcs
  <2> QED
    BY <2>1, ThenMoves DEF Advance
<1>4. CASE Learner!SetFlag(t)
  <2>1. Learner!At(t, "flag") /\ Learner!Then(t, "done") /\ words' = words /\ "done" \in Learner!Pcs
    BY <1>4 DEF Learner!SetFlag, Learner!Pcs
  <2> QED
    BY <2>1, ThenMoves DEF Advance
<1>5. CASE Learner!Guard(t)
  <2> DEFINE pc == IF flag THEN "max" ELSE "done"
  <2>1. Learner!At(t, "guard") /\ Learner!Then(t, pc) /\ words' = words /\ pc \in {"max", "done"}
          /\ pc \in Learner!Pcs
    BY <1>5 DEF Learner!Guard, Learner!Pcs
  <2> HIDE DEF pc
  <2>2. Moves(t, pc, tasks[t].row, tasks[t].count)
    BY <2>1, ThenMoves
  <2> QED
    BY <2>1, <2>2 DEF Advance
<1>6. CASE Learner!MaxRowId(t)
  <2>1. Learner!At(t, "max") /\ words' = words
    BY <1>6 DEF Learner!MaxRowId
  <2>2. Moves(t, IF Learner!LastRow > 0 THEN "count" ELSE "done", Learner!LastRow, tasks[t].count)
          /\ Learner!LastRow \in Nat
    BY <1>6, MaxMoves, LastRowIs
  <2> QED
    BY <2>1, <2>2 DEF Advance
<1>7. CASE Learner!Count(t)
  <2>1. Learner!At(t, "count") /\ words' = words
    BY <1>7 DEF Learner!Count
  <2>2. Moves(t, "change", tasks[t].row,
              IF tasks[t].row \in DOMAIN rows THEN rows[tasks[t].row].count ELSE 0)
    BY <1>7, CountMoves
  <2> QED
    BY <2>1, <2>2 DEF Advance
<1>8. CASE Learner!Change(t)
  <2>1. Learner!At(t, "change") /\ Learner!Then(t, "clear") /\ words' = words /\ "clear" \in Learner!Pcs
    BY <1>8 DEF Learner!Change, Learner!Pcs
  <2> QED
    BY <2>1, ThenMoves DEF Advance
<1>9. CASE Learner!ClearFlag(t)
  <2>1. Learner!At(t, "clear") /\ Learner!Then(t, "done") /\ words' = words /\ "done" \in Learner!Pcs
    BY <1>9 DEF Learner!ClearFlag, Learner!Pcs
  <2> QED
    BY <2>1, ThenMoves DEF Advance
<1> QED
  BY <1>1, <1>2, <1>3, <1>4, <1>5, <1>6, <1>7, <1>8, <1>9 DEF Learner!Step

(* Which step it is                                                        *)
LEMMA StepIs ==
    ASSUME NEW t, Learner!Step(t)
    PROVE  /\ Learner!At(t, "find") => Learner!GetThinkDBRowId(t)
           /\ Learner!At(t, "update") => Learner!Update(t)
           /\ Learner!At(t, "insert") => Learner!Insert(t)
           /\ Learner!At(t, "flag") => Learner!SetFlag(t)
           /\ Learner!At(t, "guard") => Learner!Guard(t)
           /\ Learner!At(t, "max") => Learner!MaxRowId(t)
           /\ Learner!At(t, "count") => Learner!Count(t)
           /\ Learner!At(t, "change") => Learner!Change(t)
           /\ Learner!At(t, "clear") => Learner!ClearFlag(t)
  BY DEF Learner!Step, Learner!At, Learner!GetThinkDBRowId, Learner!Update, Learner!Insert,
     Learner!SetFlag, Learner!Guard, Learner!MaxRowId,
         Learner!Count, Learner!Change, Learner!ClearFlag

(* Only a guard tells of trouble.                                          *)
LEMMA StepCauses ==
    ASSUME NEW t, Learner!Step(t)
    PROVE  mixed' \in {mixed, mixed \cup Learner!Older(t)}
  BY DEF Learner!Step, Learner!GetThinkDBRowId, Learner!Update, Learner!Insert, Learner!SetFlag,
     Learner!Guard, Learner!MaxRowId,
         Learner!Count, Learner!Change, Learner!ClearFlag

(* Nobody changes from a learner to a remover or back.                     *)
LEMMA LearnerMoves ==
    ASSUME LearnTypes, NEW t \in Begun, NEW pc, NEW row, NEW count, Moves(t, pc, row, count)
    PROVE  /\ Begun' = Begun /\ \A u \in Begun : IsLearner(u)' <=> IsLearner(u)
           /\ \A u \in Begun : tasks'[u].pair = tasks[u].pair /\ tasks'[u].of = tasks[u].of
  BY DEF Moves, IsLearner, Begun

LEMMA LearnerStays ==
    ASSUME LearnTypes, NEW task, Begins(task)
    PROVE  /\ Begun' = Begun \cup {Len(tasks) + 1}
           /\ \A u \in Begun : tasks'[u] = tasks[u] /\ (IsLearner(u)' <=> IsLearner(u))
  BY DEF Begins, IsLearner, Begun

(* The groups only grow.                                                   *)
LEMMA GroupsMove ==
    ASSUME LearnTypes, NEW t \in Begun, NEW pc, NEW row, NEW count,
           Moves(t, pc, row, count), Advance(t, pc, row)
    PROVE  Inserters \subseteq Inserters' /\ Raisers \subseteq Raisers' /\ Takers \subseteq Takers'
<1>1. /\ Begun' = Begun /\ \A u \in Begun : IsLearner(u)' <=> IsLearner(u)
      /\ \A u \in Begun \ {t} : tasks'[u] = tasks[u]
      /\ tasks'[t].pc = pc /\ tasks'[t].row = row
  BY LearnerMoves DEF Moves
<1>2. Inserters' = {u \in Begun : IsLearner(u) /\ tasks'[u].pc \in {"flag", "done"} /\ tasks'[u].row = 0}
  BY <1>1 DEF Inserters
<1>3. Raisers' = {u \in Begun : IsLearner(u) /\ tasks'[u].pc = "done" /\ tasks'[u].row # 0}
  BY <1>1 DEF Raisers, Learner!At
<1>4. Takers' = {u \in Begun : ~IsLearner(u) /\ tasks'[u].pc \in {"clear", "done"}}
  BY <1>1 DEF Takers
<1>5. /\ t \in Inserters => pc \in {"flag", "done"} /\ row = 0
      /\ t \notin Raisers
      /\ t \in Takers => pc \in {"clear", "done"}
  BY DEF Advance, Learner!At, Inserters, Raisers, Takers
<1>6. Inserters \subseteq Inserters'
  <2> SUFFICES ASSUME NEW u \in Inserters PROVE u \in Inserters'
    OBVIOUS
  <2> QED
    BY <1>1, <1>2, <1>5 DEF Inserters
<1>7. Raisers \subseteq Raisers'
  <2> SUFFICES ASSUME NEW u \in Raisers PROVE u \in Raisers'
    OBVIOUS
  <2> QED
    BY <1>1, <1>3, <1>5 DEF Raisers, Learner!At
<1>8. Takers \subseteq Takers'
  <2> SUFFICES ASSUME NEW u \in Takers PROVE u \in Takers'
    OBVIOUS
  <2> QED
    BY <1>1, <1>4, <1>5 DEF Takers
<1> QED
  BY <1>6, <1>7, <1>8

LEMMA GroupsBegin ==
    ASSUME LearnTypes, NEW task, Begins(task)
    PROVE  Inserters \subseteq Inserters' /\ Raisers \subseteq Raisers' /\ Takers \subseteq Takers'
  BY LearnerStays DEF Inserters, Raisers, Takers, Learner!At

(* How many there are then                                                 *)
LEMMA GroupGrows ==
    ASSUME NEW n \in Nat, n <= MaxTask, NEW T \in SUBSET (1..n), NEW S \in SUBSET T
    PROVE  /\ Cardinality(S) \in 0..MaxTask /\ Cardinality(T) \in 0..MaxTask
           /\ Cardinality(S) <= Cardinality(T)
           /\ \A t \in T : t \notin S => Cardinality(S) + 1 <= Cardinality(T)
<1>1. MaxTask \in Nat
  BY PartsAssumption DEF Learner!TaskAssumption
<1>2. IsFiniteSet(1..n) /\ Cardinality(1..n) = n
  BY FS_Interval
<1>3. IsFiniteSet(T) /\ Cardinality(T) <= n /\ Cardinality(T) \in Nat
  BY <1>2, FS_Subset, FS_CardinalityType
<1>4. IsFiniteSet(S) /\ Cardinality(S) <= Cardinality(T) /\ Cardinality(S) \in Nat
  BY <1>3, FS_Subset, FS_CardinalityType
<1>5. ASSUME NEW t \in T, t \notin S PROVE Cardinality(S) + 1 <= Cardinality(T)
  <2>1. S \cup {t} \in SUBSET T /\ Cardinality(S \cup {t}) = Cardinality(S) + 1
    BY <1>4, <1>5, FS_AddElement
  <2>2. Cardinality(S \cup {t}) <= Cardinality(T)
    BY <1>3, <2>1, FS_Subset
  <2> QED
    BY <2>1, <2>2
<1> QED
  BY <1>1, <1>3, <1>4, <1>5

-----------------------------------------------------------------------------
(* The table as the operations leave it                                    *)

LEMMA UpdateRows ==
    ASSUME LearnTypes, NEW t \in Begun, Learner!Update(t)
    PROVE  /\ DOMAIN rows' = DOMAIN rows
           /\ \A r \in DOMAIN rows :
                /\ rows'[r].pair = rows[r].pair
                /\ rows'[r].count = IF r = tasks[t].row THEN rows[r].count + 1 ELSE rows[r].count
                /\ r # tasks[t].row => rows'[r] = rows[r]
                /\ DOMAIN rows'[r] = DOMAIN rows[r]
           /\ \A r \in DOMAIN rows : rows'[r] = [pair |-> rows'[r].pair, count |-> rows'[r].count]
           /\ Moves(t, "done", tasks[t].row, tasks[t].count) /\ Learner!At(t, "update")
<1>1. /\ rows' = IF tasks[t].row \in DOMAIN rows THEN [rows EXCEPT ![tasks[t].row].count = @ + 1] ELSE rows
      /\ Learner!Then(t, "done") /\ Learner!At(t, "update") /\ "done" \in Learner!Pcs
  BY DEF Learner!Update, Learner!Pcs
<1>2. \A r \in DOMAIN rows : rows[r] \in Learner!Row
  BY DEF LearnTypes
<1>3. DOMAIN rows' = DOMAIN rows
  BY <1>1
<1>4. \A r \in DOMAIN rows : rows'[r] = IF r = tasks[t].row THEN [rows[r] EXCEPT !.count = @ + 1] ELSE rows[r]
  BY <1>1
<1>5. \A r \in DOMAIN rows :
        /\ [rows[r] EXCEPT !.count = @ + 1] = [pair |-> rows[r].pair, count |-> rows[r].count + 1]
        /\ rows[r] = [pair |-> rows[r].pair, count |-> rows[r].count]
  BY <1>2 DEF Learner!Row
<1> QED
  BY <1>1, <1>3, <1>4, <1>5, ThenMoves

LEMMA InsertRows ==
    ASSUME LearnTypes, NEW t \in Begun, Learner!Insert(t)
    PROVE  /\ Learner!LastRow + 1 \notin DOMAIN rows /\ DOMAIN rows' = DOMAIN rows \cup {Learner!LastRow + 1}
           /\ \A r \in DOMAIN rows : rows'[r] = rows[r]
           /\ rows'[Learner!LastRow + 1] = [pair |-> tasks[t].pair, count |-> 0]
           /\ Moves(t, "flag", tasks[t].row, tasks[t].count) /\ Learner!At(t, "insert")
<1> DEFINE new == [pair |-> tasks[t].pair, count |-> 0]
<1>1. /\ rows' = [r \in DOMAIN rows \cup {Learner!LastRow + 1} |-> IF r = Learner!LastRow + 1 THEN new
           ELSE rows[r]]
      /\ Learner!Then(t, "flag") /\ Learner!At(t, "insert") /\ "flag" \in Learner!Pcs
  BY DEF Learner!Insert, Learner!Pcs
<1>2. Learner!LastRow \in Nat /\ \A r \in DOMAIN rows : r <= Learner!LastRow /\ r \in Nat
  BY LastRowIs, RowsFinite
<1>3. Learner!LastRow + 1 \notin DOMAIN rows
  BY <1>2
<1> HIDE DEF new
<1> QED
  BY <1>1, <1>3, ThenMoves DEF new

LEMMA ChangeRows ==
    ASSUME LearnTypes, NEW t \in Begun, Learner!Change(t)
    PROVE  /\ DOMAIN rows' \subseteq DOMAIN rows
           /\ tasks[t].row \notin DOMAIN rows => rows' = rows /\ evidence' = evidence /\ hits' = hits
           /\ tasks[t].row \in DOMAIN rows =>
                /\ IF tasks[t].count > 0 THEN /\ DOMAIN rows' = DOMAIN rows
                                              /\ rows'[tasks[t].row].pair = rows[tasks[t].row].pair
                                              /\ rows'[tasks[t].row].count = rows[tasks[t].row].count - 1
                                              /\ rows'[tasks[t].row] = [pair |-> rows'[tasks[t].row].pair,
                                                                        count |-> rows'[tasks[t].row].count]
                   ELSE DOMAIN rows' = DOMAIN rows \ {tasks[t].row}
                /\ evidence' = [evidence EXCEPT ![rows[tasks[t].row].pair] = @ - 1]
                /\ hits' = hits \cup {[pair |-> rows[tasks[t].row].pair, wanted |-> tasks[t].pair]}
           /\ \A r \in DOMAIN rows' : r # tasks[t].row => rows'[r] = rows[r]
           /\ Moves(t, "clear", tasks[t].row, tasks[t].count) /\ Learner!At(t, "change")
<1> DEFINE q == tasks[t].row
<1>1. Learner!Then(t, "clear") /\ Learner!At(t, "change") /\ "clear" \in Learner!Pcs
  BY DEF Learner!Change, Learner!Pcs
<1>2. Moves(t, "clear", tasks[t].row, tasks[t].count)
  BY <1>1, ThenMoves
<1>3. CASE q \notin DOMAIN rows
  <2>1. UNCHANGED <<rows, evidence, hits>>
    BY <1>3 DEF Learner!Change
  <2> QED
    BY <1>1, <1>2, <1>3, <2>1
<1>4. CASE q \in DOMAIN rows
  <2>1. /\ rows' = IF tasks[t].count > 0 THEN [rows EXCEPT ![q].count = @ - 1] ELSE Learner!Without({q})
        /\ evidence' = [evidence EXCEPT ![rows[q].pair] = @ - 1]
        /\ hits' = hits \cup {[pair |-> rows[q].pair, wanted |-> tasks[t].pair]}
    BY <1>4 DEF Learner!Change
  <2>2. CASE tasks[t].count > 0
    <3>1. rows[q] \in Learner!Row
      BY <1>4 DEF LearnTypes
    <3>2. /\ DOMAIN rows' = DOMAIN rows /\ rows'[q] = [rows[q] EXCEPT !.count = @ - 1]
          /\ \A r \in DOMAIN rows' : r # q => rows'[r] = rows[r]
      BY <1>4, <2>1, <2>2
    <3>3. [rows[q] EXCEPT !.count = @ - 1] = [pair |-> rows[q].pair, count |-> rows[q].count - 1]
      BY <3>1 DEF Learner!Row
    <3> QED
      BY <1>1, <1>2, <1>4, <2>1, <2>2, <3>2, <3>3
  <2>3. CASE ~(tasks[t].count > 0)
    <3>1. rows' = [r \in DOMAIN rows \ {q} |-> rows[r]]
      BY <2>1, <2>3 DEF Learner!Without
    <3>2. /\ DOMAIN rows' = DOMAIN rows \ {q}
          /\ \A r \in DOMAIN rows' : rows'[r] = rows[r]
      BY <3>1
    <3> QED
      BY <1>1, <1>2, <1>4, <2>1, <2>3, <3>2
  <2> QED
    BY <2>2, <2>3
<1> QED
  BY <1>3, <1>4

LEMMA RemoveRows ==
    ASSUME LearnTypes, NEW p \in Learned, Learner!RemoveFromThinkDB(p)
    PROVE  /\ DOMAIN rows' = DOMAIN rows \ Learner!RowsOf(p) /\ \A r \in DOMAIN rows' : rows'[r] = rows[r]
           /\ UNCHANGED <<flag, tasks, words, hits>>
           /\ evidence' = [evidence EXCEPT ![p] = 0]
           /\ mixed' = mixed \cup {c \in {"mixed"} : Learner!Under # {}}
  BY DEF Learner!RemoveFromThinkDB, Learner!Without

(* The operations that leave the table, the counts learned and the hits    *)
Reads(t) ==
    \/ Learner!GetThinkDBRowId(t) \/ Learner!SetFlag(t) \/ Learner!Guard(t) \/ Learner!MaxRowId(t)
         \/ Learner!Count(t) \/ Learner!ClearFlag(t)

LEMMA ReadRows ==
    ASSUME NEW t, Reads(t)
    PROVE  UNCHANGED <<rows, evidence, hits, words>>
  BY DEF Reads, Learner!GetThinkDBRowId, Learner!SetFlag, Learner!Guard, Learner!MaxRowId,
     Learner!Count, Learner!ClearFlag

-----------------------------------------------------------------------------
(* The types stay                                                          *)

(* The rows, and how many did what                                         *)
RowsGrow ==
    /\ \A r \in DOMAIN rows' : rows'[r] = [pair |-> rows'[r].pair, count |-> rows'[r].count]
    /\ \A r \in DOMAIN rows' : rows'[r].pair \in Learned /\ rows'[r].count \in Int /\ r \in Nat \ {0}
    /\ \A r \in DOMAIN rows' : r <= Cardinality(Inserters')
    /\ \A r \in DOMAIN rows' : -Cardinality(Takers') <= rows'[r].count
         /\ rows'[r].count <= Cardinality(Raisers')

(* What remains to be shown of the types once the tasks fit                *)
LEMMA RowsFit ==
    ASSUME LearnTypes, RowsGrow, Begun \subseteq Begun',
           tasks' \in Seq(TaskRecord), Len(tasks') <= MaxTask, flag' \in BOOLEAN, words' \in Seq(Begun'),
           evidence' \in [Learned -> Int], hits' \subseteq [pair : Learned, wanted : Learned \cup {NoPair}],
           mixed' \subseteq Learner!Causes
    PROVE  LearnTypes'
<1>1. Len(tasks') \in Nat /\ Begun' = 1..Len(tasks') /\ MaxTask \in Nat
  BY LenProperties, PartsAssumption DEF Begun, Learner!TaskAssumption
<1>2. Inserters' \in SUBSET Begun' /\ Raisers' \in SUBSET Begun' /\ Takers' \in SUBSET Begun'
  BY DEF Inserters, Raisers, Takers
<1>3. Cardinality(Inserters') \in 0..MaxTask /\ Cardinality(Raisers') \in 0..MaxTask
        /\ Cardinality(Takers') \in 0..MaxTask
  BY <1>1, <1>2, GroupGrows
<1>4. /\ \A r \in DOMAIN rows' : rows'[r].count \in -Cardinality(Takers')..Cardinality(Raisers')
      /\ \A r \in DOMAIN rows' : rows'[r].count \in -MaxTask..MaxTask
      /\ DOMAIN rows' \subseteq Learner!RowIds
  BY <1>1, <1>3 DEF RowsGrow, Learner!RowIds
<1>5. \A r \in DOMAIN rows' : rows'[r] \in Learner!Row
  BY <1>4 DEF RowsGrow, Learner!Row
<1> QED
  BY <1>4, <1>5 DEF RowsGrow, LearnTypes

(* The rows do not grow if no operation changes them.                      *)
LEMMA RowsKeep ==
    ASSUME LearnTypes, DOMAIN rows' \subseteq DOMAIN rows, \A r \in DOMAIN rows' : rows'[r] = rows[r],
           Begun \subseteq Begun', tasks' \in Seq(TaskRecord), Len(tasks') <= MaxTask,
           Inserters \subseteq Inserters', Raisers \subseteq Raisers', Takers \subseteq Takers'
    PROVE  RowsGrow
<1>1. Len(tasks') \in Nat /\ Begun' = 1..Len(tasks') /\ MaxTask \in Nat
  BY LenProperties, PartsAssumption DEF Begun, Learner!TaskAssumption
<1>2. Inserters' \in SUBSET Begun' /\ Raisers' \in SUBSET Begun' /\ Takers' \in SUBSET Begun'
  BY DEF Inserters, Raisers, Takers
<1>3. /\ Cardinality(Inserters) \in Nat /\ Cardinality(Inserters') \in Nat
      /\ Cardinality(Inserters) <= Cardinality(Inserters')
  <2>1. Inserters' \in SUBSET (1..Len(tasks')) /\ Inserters \in SUBSET Inserters'
    BY <1>1, <1>2
  <2>2. /\ Cardinality(Inserters) \in 0..MaxTask /\ Cardinality(Inserters') \in 0..MaxTask
        /\ Cardinality(Inserters) <= Cardinality(Inserters')
    BY <1>1, <2>1, GroupGrows
  <2> QED
    BY <1>1, <2>2
<1>4. /\ Cardinality(Raisers) \in Nat /\ Cardinality(Raisers') \in Nat
      /\ Cardinality(Raisers) <= Cardinality(Raisers')
  <2>1. Raisers' \in SUBSET (1..Len(tasks')) /\ Raisers \in SUBSET Raisers'
    BY <1>1, <1>2
  <2>2. /\ Cardinality(Raisers) \in 0..MaxTask /\ Cardinality(Raisers') \in 0..MaxTask
        /\ Cardinality(Raisers) <= Cardinality(Raisers')
    BY <1>1, <2>1, GroupGrows
  <2> QED
    BY <1>1, <2>2
<1>5. /\ Cardinality(Takers) \in Nat /\ Cardinality(Takers') \in Nat
      /\ Cardinality(Takers) <= Cardinality(Takers')
  <2>1. Takers' \in SUBSET (1..Len(tasks')) /\ Takers \in SUBSET Takers'
    BY <1>1, <1>2
  <2>2. /\ Cardinality(Takers) \in 0..MaxTask /\ Cardinality(Takers') \in 0..MaxTask
        /\ Cardinality(Takers) <= Cardinality(Takers')
    BY <1>1, <2>1, GroupGrows
  <2> QED
    BY <1>1, <2>2
<1>6. \A r \in DOMAIN rows :
        /\ rows[r].pair \in Learned /\ rows[r].count \in Int /\ r \in Nat \ {0}
        /\ rows[r] = [pair |-> rows[r].pair, count |-> rows[r].count]
        /\ r <= Cardinality(Inserters)
        /\ -Cardinality(Takers) <= rows[r].count /\ rows[r].count <= Cardinality(Raisers)
  <2>1. \A r \in DOMAIN rows : rows[r] \in Learner!Row /\ r \in Learner!RowIds
    BY DEF LearnTypes
  <2>2. \A r \in DOMAIN rows :
        /\ rows[r].pair \in Learned /\ rows[r].count \in Int /\ r \in Nat \ {0}
        /\ rows[r] = [pair |-> rows[r].pair, count |-> rows[r].count]
    BY <1>1, <2>1 DEF Learner!Row, Learner!RowIds
  <2> QED
    BY <1>4, <1>5, <2>2 DEF LearnTypes
<1>7. \A r \in DOMAIN rows' :
        r <= Cardinality(Inserters') /\ -Cardinality(Takers') <= rows'[r].count
        /\ rows'[r].count <= Cardinality(Raisers')
  <2> SUFFICES ASSUME NEW r \in DOMAIN rows'
               PROVE  r <= Cardinality(Inserters') /\ -Cardinality(Takers') <= rows[r].count
                      /\ rows[r].count <= Cardinality(Raisers')
    OBVIOUS
  <2>1. /\ r \in Int /\ rows[r].count \in Int /\ r <= Cardinality(Inserters)
        /\ -Cardinality(Takers) <= rows[r].count /\ rows[r].count <= Cardinality(Raisers)
    BY <1>6
  <2> QED
    BY ONLY <1>3, <1>4, <1>5, <2>1
<1> QED
  BY <1>6, <1>7 DEF RowsGrow

(* The words in the text field                                             *)
LEMMA WordsGo ==
    ASSUME NEW S, NEW T, S \subseteq T, NEW s \in Seq(S)
    PROVE  /\ s \in Seq(T)
           /\ s # <<>> => Learner!Front(s) \in Seq(T) /\ \A i \in DOMAIN Learner!Front(s) : i \in DOMAIN s
                /\ Learner!Front(s)[i] = s[i]
           /\ \A e \in T : /\ Append(s, e) \in Seq(T) /\ Append(s, e) # <<>> /\ Learner!Last(Append(s, e)) = e
                           /\ \A i \in DOMAIN Append(s, e) : Append(s, e)[i] = e \/ (i \in DOMAIN s
                                /\ Append(s, e)[i] = s[i])
<1>1. Len(s) \in Nat /\ s \in [1..Len(s) -> S] /\ DOMAIN s = 1..Len(s)
  BY LenProperties
<1>2. s \in Seq(T)
  <2>1. s \in [1..Len(s) -> T]
    BY <1>1
  <2> QED
    BY <1>1, <2>1, SeqDef
<1>3. ASSUME s # <<>>
      PROVE  Learner!Front(s) \in Seq(T) /\ \A i \in DOMAIN Learner!Front(s) : i \in DOMAIN s
               /\ Learner!Front(s)[i] = s[i]
  <2>1. Len(s) # 0 /\ Len(s) - 1 \in Nat
    BY <1>1, <1>3, EmptySeq
  <2>2. \A i \in 1..(Len(s) - 1) : s[i] \in T
    BY <1>1
  <2> DEFINE n == Len(s) - 1
             u == SubSeq(s, 1, n)
  <2>3. Learner!Front(s) = u
    BY DEF Learner!Front
  <2> HIDE DEF n
  <2>n. n \in Nat /\ n = Len(s) - 1 /\ n - 1 + 1 = n
    BY <2>1 DEF n
  <2>m. \A i \in 1..n : s[i] \in T
    BY <2>2 DEF n
  <2>k. /\ u \in Seq(T) /\ Len(u) = IF 1 <= n THEN n - 1 + 1 ELSE 0
        /\ \A i \in 1..(n - 1 + 1) : u[i] = s[1 + i - 1]
    BY <2>n, <2>m, SubSeqProperties
  <2> HIDE DEF u
  <2>4. u \in Seq(T) /\ Len(u) = n /\ \A i \in 1..n : u[i] = s[i]
    <3>1. Len(u) = n
      <4>1. Len(u) = IF 1 <= n THEN n - 1 + 1 ELSE 0
        BY <2>k
      <4>2. (IF 1 <= n THEN n - 1 + 1 ELSE 0) = n
        BY ONLY <2>n
      <4> QED
        BY ONLY <4>1, <4>2
    <3>2. ASSUME NEW i \in 1..n PROVE u[i] = s[i]
      <4>1. i \in 1..(n - 1 + 1) /\ 1 + i - 1 = i
        BY <2>n
      <4>2. u[i] = s[1 + i - 1]
        BY <2>k, <4>1
      <4> QED
        BY <4>1, <4>2
    <3> QED
      BY <2>k, <3>1, <3>2
  <2>5. DOMAIN u = 1..n /\ \A i \in 1..n : i \in 1..Len(s)
    BY <2>4, <2>n, <1>1, LenProperties
  <2> QED
    BY <1>1, <2>3, <2>4, <2>5
<1>4. ASSUME NEW e \in T
      PROVE  /\ Append(s, e) \in Seq(T) /\ Append(s, e) # <<>> /\ Learner!Last(Append(s, e)) = e
             /\ \A i \in DOMAIN Append(s, e) : Append(s, e)[i] = e \/ (i \in DOMAIN s /\ Append(s, e)[i] = s[i])
  <2>1. /\ Append(s, e) \in Seq(T) /\ Append(s, e) # <<>> /\ Len(Append(s, e)) = Len(s) + 1
        /\ \A i \in 1..Len(s) : Append(s, e)[i] = s[i]
        /\ Append(s, e)[Len(s) + 1] = e
    BY <1>2, AppendProperties
  <2>2. DOMAIN Append(s, e) = 1..(Len(s) + 1)
    BY <2>1, LenProperties
  <2>3. \A i \in 1..(Len(s) + 1) : i \in 1..Len(s) \/ i = Len(s) + 1
    BY <1>1
  <2> QED
    BY <1>1, <2>1, <2>2, <2>3 DEF Learner!Last
<1> QED
  BY <1>2, <1>3, <1>4

LEMMA CausesThere ==
    ASSUME mixed \subseteq Learner!Causes
    PROVE  /\ mixed \cup Learner!Mixed \subseteq Learner!Causes
                /\ \A p : mixed \cup Learner!Mixed \cup Learner!Hurried(p) \subseteq Learner!Causes
           /\ \A t : mixed \cup Learner!Older(t) \subseteq Learner!Causes
           /\ mixed \cup {c \in {"mixed"} : Learner!Under # {}} \subseteq Learner!Causes
<1>1. Learner!Mixed \subseteq Learner!Causes
  BY DEF Learner!Mixed, Learner!Causes
<1>2. \A p : Learner!Hurried(p) \subseteq Learner!Causes
  BY DEF Learner!Hurried, Learner!Causes
<1>3. \A t : Learner!Older(t) \subseteq Learner!Causes
  BY DEF Learner!Older, Learner!Causes
<1> QED
  BY <1>1, <1>2, <1>3 DEF Learner!Causes

(* A step that leaves the table                                            *)
LEMMA KeepTypes ==
    ASSUME LearnTypes, UNCHANGED <<rows, evidence, hits>>, Begun \subseteq Begun',
           tasks' \in Seq(TaskRecord), Len(tasks') <= MaxTask, flag' \in BOOLEAN, words' \in Seq(Begun'),
           mixed' \subseteq Learner!Causes,
           Inserters \subseteq Inserters', Raisers \subseteq Raisers', Takers \subseteq Takers'
    PROVE  LearnTypes'
<1>1. DOMAIN rows' \subseteq DOMAIN rows /\ \A r \in DOMAIN rows' : rows'[r] = rows[r]
  OBVIOUS
<1>2. RowsGrow
  BY <1>1, RowsKeep
<1>3. evidence' \in [Learned -> Int] /\ hits' \subseteq [pair : Learned, wanted : Learned \cup {NoPair}]
  BY DEF LearnTypes
<1> QED
  BY <1>2, <1>3, RowsFit

LEMMA UserTypes ==
    ASSUME LearnTypes, TasksFit, (\E p \in Learned : Learner!InsertText(p)) \/ Learner!Delete
             \/ Learner!DoTraceback
    PROVE  LearnTypes'
<1>1. \E task : /\ Begins(task)
                /\ \/ words' = Append(words, Len(tasks'))
                   \/ words' = words
                   \/ words # <<>> /\ words' = Learner!Front(words)
  <2>1. CASE \E p \in Learned : Learner!InsertText(p)
    BY <2>1, LearnerBegins DEF Learner!InsertText
  <2>2. CASE Learner!Delete \/ Learner!DoTraceback
    BY <2>2, RemoverBegins
  <2> QED
    BY <2>1, <2>2
<1>2. PICK task : /\ Begins(task)
                  /\ \/ words' = Append(words, Len(tasks'))
                     \/ words' = words
                     \/ words # <<>> /\ words' = Learner!Front(words)
  BY <1>1
<1>3. /\ tasks' \in Seq(TaskRecord) /\ Len(tasks') <= MaxTask /\ Begun \subseteq Begun'
           /\ Len(tasks') \in Begun'
  BY <1>2, LearnerStays DEF Begins
<1>4. words' \in Seq(Begun')
  BY <1>2, <1>3, WordsGo DEF LearnTypes
<1>5. UNCHANGED <<rows, evidence, hits, flag>> /\ flag' \in BOOLEAN
  BY DEF Learner!InsertText, Learner!Delete, Learner!DoTraceback, LearnTypes
<1>6. mixed' \subseteq Learner!Causes
  BY CausesThere DEF Learner!InsertText, Learner!Delete, Learner!DoTraceback, LearnTypes
<1>7. Inserters \subseteq Inserters' /\ Raisers \subseteq Raisers' /\ Takers \subseteq Takers'
  BY <1>2, GroupsBegin
<1> QED
  BY <1>3, <1>4, <1>5, <1>6, <1>7, KeepTypes

LEMMA RemoveTypes ==
    ASSUME LearnTypes, NEW p \in Learned, Learner!RemoveFromThinkDB(p)
    PROVE  LearnTypes'
<1>1. /\ DOMAIN rows' \subseteq DOMAIN rows /\ \A r \in DOMAIN rows' : rows'[r] = rows[r]
      /\ UNCHANGED <<flag, tasks, words, hits>> /\ evidence' = [evidence EXCEPT ![p] = 0]
      /\ mixed' = mixed \cup {c \in {"mixed"} : Learner!Under # {}}
  BY RemoveRows
<1>2. /\ Begun' = Begun /\ Inserters' = Inserters /\ Raisers' = Raisers /\ Takers' = Takers
      /\ tasks' \in Seq(TaskRecord) /\ Len(tasks') <= MaxTask
  BY <1>1 DEF Begun, Inserters, Raisers, Takers, IsLearner, Learner!At, LearnTypes
<1>3. RowsGrow
  BY <1>1, <1>2, RowsKeep
<1>4. /\ flag' \in BOOLEAN /\ words' \in Seq(Begun') /\ evidence' \in [Learned -> Int]
      /\ hits' \subseteq [pair : Learned, wanted : Learned \cup {NoPair}]
  BY <1>1, <1>2 DEF LearnTypes
<1>5. mixed' \subseteq Learner!Causes
  BY <1>1, CausesThere DEF LearnTypes
<1> QED
  BY <1>2, <1>3, <1>4, <1>5, RowsFit

(* What every step of a task leaves as it should be                        *)
LEMMA StepTypes ==
    ASSUME LearnTypes, NEW t \in Begun, Learner!Step(t)
    PROVE  /\ Begun' = Begun /\ tasks' \in Seq(TaskRecord) /\ Len(tasks') <= MaxTask
           /\ flag' \in BOOLEAN /\ words' \in Seq(Begun') /\ mixed' \subseteq Learner!Causes
           /\ Inserters \subseteq Inserters' /\ Raisers \subseteq Raisers' /\ Takers \subseteq Takers'
<1>1. PICK pc, row, count : Moves(t, pc, row, count) /\ Advance(t, pc, row)
  BY StepMoves
<1>2. /\ Begun' = Begun /\ tasks' \in Seq(TaskRecord) /\ Len(tasks') <= MaxTask
  BY <1>1, LearnerMoves, LearnFacts DEF Moves
<1>3. words' \in Seq(Begun')
  BY <1>2, StepMoves DEF LearnTypes
<1>4. flag' \in BOOLEAN
  BY Zenon DEF LearnTypes, Learner!Step, Learner!GetThinkDBRowId, Learner!Update, Learner!Insert,
     Learner!SetFlag, Learner!Guard, Learner!MaxRowId,
              Learner!Count, Learner!Change, Learner!ClearFlag
<1>5. mixed' \in {mixed, mixed \cup Learner!Older(t)}
  BY StepCauses
<1>6. mixed' \subseteq Learner!Causes
  BY <1>5, CausesThere DEF LearnTypes
<1> QED
  BY <1>1, <1>2, <1>3, <1>4, <1>6, GroupsMove

LEMMA ReadTypes ==
    ASSUME LearnTypes, NEW t \in Begun, Learner!Step(t), Reads(t)
    PROVE  LearnTypes'
<1>1. UNCHANGED <<rows, evidence, hits>>
  BY ReadRows
<1> QED
  BY <1>1, StepTypes, KeepTypes

(* The rows as records                                                     *)
LEMMA RowFields ==
    ASSUME LearnTypes
    PROVE  \A r \in DOMAIN rows :
             /\ rows[r] = [pair |-> rows[r].pair, count |-> rows[r].count]
             /\ rows[r].pair \in Learned /\ rows[r].count \in Int /\ r \in Nat \ {0}
             /\ r <= Cardinality(Inserters)
             /\ -Cardinality(Takers) <= rows[r].count /\ rows[r].count <= Cardinality(Raisers)
<1>1. \A r \in DOMAIN rows : rows[r] \in Learner!Row /\ r \in Learner!RowIds
  BY DEF LearnTypes
<1>2. MaxTask \in Nat /\ Cardinality(Takers) \in Nat /\ Cardinality(Raisers) \in Nat
  BY LearnFacts, SomeBegun DEF Takers, Raisers
<1>3. \A r \in DOMAIN rows :
        /\ rows[r].pair \in Learned /\ rows[r].count \in Int /\ r \in Nat \ {0}
        /\ rows[r] = [pair |-> rows[r].pair, count |-> rows[r].count]
  BY <1>1, <1>2 DEF Learner!Row, Learner!RowIds
<1> QED
  BY <1>2, <1>3 DEF LearnTypes

(* How the groups count, one step on                                       *)
LEMMA GroupsCount ==
    ASSUME LearnTypes, NEW t \in Begun, Learner!Step(t)
    PROVE  /\ Cardinality(Inserters) \in Nat /\ Cardinality(Inserters') \in Nat
           /\ Cardinality(Inserters) <= Cardinality(Inserters')
           /\ Cardinality(Raisers) \in Nat /\ Cardinality(Raisers') \in Nat
           /\ Cardinality(Raisers) <= Cardinality(Raisers')
           /\ Cardinality(Takers) \in Nat /\ Cardinality(Takers') \in Nat
           /\ Cardinality(Takers) <= Cardinality(Takers')
           /\ t \in Inserters' \ Inserters => Cardinality(Inserters) + 1 <= Cardinality(Inserters')
           /\ t \in Raisers' \ Raisers => Cardinality(Raisers) + 1 <= Cardinality(Raisers')
           /\ t \in Takers' \ Takers => Cardinality(Takers) + 1 <= Cardinality(Takers')
<1>1. /\ Len(tasks') \in Nat /\ Len(tasks') <= MaxTask /\ Begun' = 1..Len(tasks') /\ MaxTask \in Nat
  BY StepTypes, LearnFacts, LenProperties DEF Begun
<1>2. Inserters' \in SUBSET (1..Len(tasks')) /\ Inserters \in SUBSET Inserters'
  BY <1>1, StepTypes DEF Inserters
<1>3. Raisers' \in SUBSET (1..Len(tasks')) /\ Raisers \in SUBSET Raisers'
  BY <1>1, StepTypes DEF Raisers
<1>4. Takers' \in SUBSET (1..Len(tasks')) /\ Takers \in SUBSET Takers'
  BY <1>1, StepTypes DEF Takers
<1>5. /\ Cardinality(Inserters) \in 0..MaxTask /\ Cardinality(Inserters') \in 0..MaxTask
      /\ Cardinality(Inserters) <= Cardinality(Inserters')
      /\ t \in Inserters' \ Inserters => Cardinality(Inserters) + 1 <= Cardinality(Inserters')
  BY <1>1, <1>2, GroupGrows
<1>6. /\ Cardinality(Raisers) \in 0..MaxTask /\ Cardinality(Raisers') \in 0..MaxTask
      /\ Cardinality(Raisers) <= Cardinality(Raisers')
      /\ t \in Raisers' \ Raisers => Cardinality(Raisers) + 1 <= Cardinality(Raisers')
  BY <1>1, <1>3, GroupGrows
<1>7. /\ Cardinality(Takers) \in 0..MaxTask /\ Cardinality(Takers') \in 0..MaxTask
      /\ Cardinality(Takers) <= Cardinality(Takers')
      /\ t \in Takers' \ Takers => Cardinality(Takers) + 1 <= Cardinality(Takers')
  BY <1>1, <1>4, GroupGrows
<1> QED
  BY <1>1, <1>5, <1>6, <1>7

(* One is added to a count: so there is one more who raised one.           *)
LEMMA UpdateTypes ==
    ASSUME LearnTypes, TasksFit, NEW t \in Begun, Learner!Update(t)
    PROVE  LearnTypes'
<1> DEFINE q == tasks[t].row
<1>1. Learner!Step(t)
  BY DEF Learner!Step
<1>2. /\ DOMAIN rows' = DOMAIN rows
      /\ \A r \in DOMAIN rows :
           /\ rows'[r].pair = rows[r].pair
           /\ rows'[r].count = IF r = q THEN rows[r].count + 1 ELSE rows[r].count
           /\ rows'[r] = [pair |-> rows'[r].pair, count |-> rows'[r].count]
      /\ Moves(t, "done", q, tasks[t].count) /\ Learner!At(t, "update")
  BY UpdateRows
<1>3. IsLearner(t) /\ q # 0 /\ tasks[t].pair \in Learned
  <2>1. TaskFits(t)
    BY DEF TasksFit
  <2> QED
    BY <1>2, <2>1 DEF TaskFits, Learner!At
<1>4. t \in Raisers' \ Raisers
  BY <1>2, <1>3, LearnerMoves DEF Moves, Raisers, Learner!At
<1>5. RowsGrow
  <2>1. \A r \in DOMAIN rows' :
          /\ rows'[r] = [pair |-> rows'[r].pair, count |-> rows'[r].count]
          /\ rows'[r].pair \in Learned /\ rows'[r].count \in Int /\ r \in Nat \ {0}
    BY <1>2, RowFields
  <2>2. \A r \in DOMAIN rows' : r <= Cardinality(Inserters')
    BY <1>1, <1>2, RowFields, GroupsCount
  <2>3. \A r \in DOMAIN rows' : -Cardinality(Takers') <= rows'[r].count
          /\ rows'[r].count <= Cardinality(Raisers')
    <3> SUFFICES ASSUME NEW r \in DOMAIN rows
                 PROVE  -Cardinality(Takers') <= rows'[r].count /\ rows'[r].count <= Cardinality(Raisers')
      BY <1>2
    <3>1. /\ rows[r].count \in Int /\ -Cardinality(Takers) <= rows[r].count
               /\ rows[r].count <= Cardinality(Raisers)
          /\ rows'[r].count \in {rows[r].count, rows[r].count + 1}
      BY <1>2, RowFields
    <3>2. /\ Cardinality(Raisers) \in Nat /\ Cardinality(Raisers') \in Nat
          /\ Cardinality(Raisers) + 1 <= Cardinality(Raisers')
          /\ Cardinality(Takers) \in Nat /\ Cardinality(Takers') \in Nat
          /\ Cardinality(Takers) <= Cardinality(Takers')
      BY <1>1, <1>4, GroupsCount
    <3> QED
      BY ONLY <3>1, <3>2
  <2> QED
    BY <2>1, <2>2, <2>3 DEF RowsGrow
<1>6. evidence' \in [Learned -> Int] /\ hits' = hits
  <2>1. evidence' = [evidence EXCEPT ![tasks[t].pair] = @ + 1] /\ hits' = hits
    BY DEF Learner!Update
  <2> QED
    BY <1>3, <2>1 DEF LearnTypes
<1>7. hits' \subseteq [pair : Learned, wanted : Learned \cup {NoPair}]
  BY <1>6 DEF LearnTypes
<1> QED
  BY <1>1, <1>5, <1>6, <1>7, StepTypes, RowsFit

(* There is one more row: so there is one more who inserted one.           *)
LEMMA InsertTypes ==
    ASSUME LearnTypes, TasksFit, NEW t \in Begun, Learner!Insert(t)
    PROVE  LearnTypes'
<1> DEFINE n == Learner!LastRow + 1
<1>1. Learner!Step(t)
  BY DEF Learner!Step
<1>2. /\ DOMAIN rows' = DOMAIN rows \cup {n} /\ \A r \in DOMAIN rows : rows'[r] = rows[r]
      /\ rows'[n] = [pair |-> tasks[t].pair, count |-> 0]
      /\ Moves(t, "flag", tasks[t].row, tasks[t].count) /\ Learner!At(t, "insert")
  BY InsertRows
<1>3. IsLearner(t) /\ tasks[t].row = 0 /\ tasks[t].pair \in Learned
  <2>1. TaskFits(t)
    BY DEF TasksFit
  <2> QED
    BY <1>2, <2>1 DEF TaskFits, Learner!At
<1>4. t \in Inserters' \ Inserters
  BY <1>2, <1>3, LearnerMoves DEF Moves, Inserters, Learner!At
<1>c. /\ Cardinality(Inserters) \in Nat /\ Cardinality(Inserters') \in Nat
      /\ Cardinality(Inserters) + 1 <= Cardinality(Inserters')
      /\ Cardinality(Raisers) \in Nat /\ Cardinality(Raisers') \in Nat
      /\ Cardinality(Raisers) <= Cardinality(Raisers')
      /\ Cardinality(Takers) \in Nat /\ Cardinality(Takers') \in Nat
      /\ Cardinality(Takers) <= Cardinality(Takers')
  BY <1>1, <1>4, GroupsCount
<1>n. n \in Nat \ {0} /\ n <= Cardinality(Inserters')
  <2>1. Learner!LastRow \in Nat /\ (Learner!LastRow # 0 => Learner!LastRow \in DOMAIN rows)
    BY LastRowIs, LearnFacts
  <2>2. Learner!LastRow <= Cardinality(Inserters)
    BY <1>c, <2>1, RowFields
  <2> QED
    BY <1>c, <2>1, <2>2
<1> HIDE DEF n
<1>5. RowsGrow
  <2>1. \A r \in DOMAIN rows' :
          /\ rows'[r] = [pair |-> rows'[r].pair, count |-> rows'[r].count]
          /\ rows'[r].pair \in Learned /\ rows'[r].count \in Int /\ r \in Nat \ {0}
    BY <1>2, <1>3, <1>n, RowFields
  <2>2. ASSUME NEW r \in DOMAIN rows'
        PROVE  r <= Cardinality(Inserters') /\ -Cardinality(Takers') <= rows'[r].count
               /\ rows'[r].count <= Cardinality(Raisers')
    <3>1. CASE r = n
      BY <1>2, <1>c, <1>n, <3>1
    <3>2. CASE r \in DOMAIN rows
      <4>1. /\ rows[r].count \in Int /\ -Cardinality(Takers) <= rows[r].count
                 /\ rows[r].count <= Cardinality(Raisers)
            /\ rows'[r].count = rows[r].count /\ r \in Nat /\ r <= Cardinality(Inserters)
        BY <1>2, <3>2, RowFields
      <4> QED
        BY ONLY <1>c, <4>1
    <3> QED
      BY <1>2, <2>2, <3>1, <3>2
  <2> QED
    BY <2>1, <2>2 DEF RowsGrow
<1>6. evidence' \in [Learned -> Int] /\ hits' = hits
  <2>1. evidence' = [evidence EXCEPT ![tasks[t].pair] = @ + 1] /\ hits' = hits
    BY DEF Learner!Insert
  <2> QED
    BY <1>3, <2>1 DEF LearnTypes
<1>7. hits' \subseteq [pair : Learned, wanted : Learned \cup {NoPair}]
  BY <1>6 DEF LearnTypes
<1> QED
  BY <1>1, <1>5, <1>6, <1>7, StepTypes, RowsFit

(* One is taken off a count: so there is one more who took one.            *)
LEMMA ChangeTypes ==
    ASSUME LearnTypes, TasksFit, NEW t \in Begun, Learner!Change(t)
    PROVE  LearnTypes'
<1> DEFINE q == tasks[t].row
<1>1. Learner!Step(t)
  BY DEF Learner!Step
<1>2. /\ DOMAIN rows' \subseteq DOMAIN rows
      /\ q \notin DOMAIN rows => rows' = rows /\ evidence' = evidence /\ hits' = hits
      /\ q \in DOMAIN rows /\ q \in DOMAIN rows' =>
           /\ rows'[q].pair = rows[q].pair /\ rows'[q].count = rows[q].count - 1
           /\ rows'[q] = [pair |-> rows'[q].pair, count |-> rows'[q].count]
      /\ q \in DOMAIN rows =>
           /\ evidence' = [evidence EXCEPT ![rows[q].pair] = @ - 1]
           /\ hits' = hits \cup {[pair |-> rows[q].pair, wanted |-> tasks[t].pair]}
      /\ \A r \in DOMAIN rows' : r # q => rows'[r] = rows[r]
      /\ Moves(t, "clear", q, tasks[t].count) /\ Learner!At(t, "change")
  BY ChangeRows
<1>3. ~IsLearner(t)
  <2>1. TaskFits(t)
    BY DEF TasksFit
  <2> QED
    BY <1>2, <2>1 DEF TaskFits, Learner!At
<1>4. t \in Takers' \ Takers
  BY <1>2, <1>3, LearnerMoves DEF Moves, Takers, Learner!At
<1>c. /\ Cardinality(Inserters) \in Nat /\ Cardinality(Inserters') \in Nat
      /\ Cardinality(Inserters) <= Cardinality(Inserters')
      /\ Cardinality(Raisers) \in Nat /\ Cardinality(Raisers') \in Nat
      /\ Cardinality(Raisers) <= Cardinality(Raisers')
      /\ Cardinality(Takers) \in Nat /\ Cardinality(Takers') \in Nat
      /\ Cardinality(Takers) + 1 <= Cardinality(Takers')
  BY <1>1, <1>4, GroupsCount
<1>m. \A r \in DOMAIN rows' :
        /\ r \in DOMAIN rows /\ rows'[r].pair = rows[r].pair
             /\ rows'[r].count \in {rows[r].count, rows[r].count - 1}
        /\ rows'[r] = [pair |-> rows'[r].pair, count |-> rows'[r].count]
  BY <1>2, RowFields
<1>5. RowsGrow
  <2>1. \A r \in DOMAIN rows' :
          /\ rows'[r] = [pair |-> rows'[r].pair, count |-> rows'[r].count]
          /\ rows'[r].pair \in Learned /\ rows'[r].count \in Int /\ r \in Nat \ {0}
    BY <1>m, RowFields
  <2>2. ASSUME NEW r \in DOMAIN rows'
        PROVE  r <= Cardinality(Inserters') /\ -Cardinality(Takers') <= rows'[r].count
               /\ rows'[r].count <= Cardinality(Raisers')
    <3>1. /\ rows[r].count \in Int /\ -Cardinality(Takers) <= rows[r].count
               /\ rows[r].count <= Cardinality(Raisers)
          /\ rows'[r].count \in {rows[r].count, rows[r].count - 1} /\ r \in Nat /\ r <= Cardinality(Inserters)
      BY <1>m, <2>2, RowFields
    <3> QED
      BY ONLY <1>c, <3>1
  <2> QED
    BY <2>1, <2>2 DEF RowsGrow
<1>6. evidence' \in [Learned -> Int] /\ hits' \subseteq [pair : Learned, wanted : Learned \cup {NoPair}]
  <2>1. CASE q \notin DOMAIN rows
    BY <1>2, <2>1 DEF LearnTypes
  <2>2. CASE q \in DOMAIN rows
    <3>1. rows[q].pair \in Learned /\ tasks[t].pair \in Learned \cup {NoPair}
      BY <2>2, RowFields, TaskFields
    <3> QED
      BY <1>2, <2>2, <3>1 DEF LearnTypes
  <2> QED
    BY <2>1, <2>2
<1> QED
  BY <1>1, <1>5, <1>6, StepTypes, RowsFit

LEMMA LearnTypesStep ==
    ASSUME LearnTypes, TasksFit, [Learner!Next]_(Learner!vars)
    PROVE  LearnTypes'
<1>1. CASE UNCHANGED Learner!vars
  BY <1>1 DEF Learner!vars, LearnTypes, Begun, Inserters, Raisers, Takers, IsLearner, Learner!At
<1>2. CASE Learner!Delete \/ Learner!DoTraceback
  BY <1>2, UserTypes
<1>3. ASSUME NEW p \in Learned, Learner!InsertText(p) PROVE LearnTypes'
  BY <1>3, UserTypes
<1>4. ASSUME NEW p \in Learned, Learner!RemoveFromThinkDB(p) PROVE LearnTypes'
  BY <1>4, RemoveTypes
<1>5. ASSUME NEW t \in Begun, Learner!Step(t) PROVE LearnTypes'
  <2>1. Reads(t) \/ Learner!Update(t) \/ Learner!Insert(t) \/ Learner!Change(t)
    BY <1>5 DEF Learner!Step, Reads
  <2> QED
    BY <1>5, <2>1, ReadTypes, UpdateTypes, InsertTypes, ChangeTypes
<1> QED
  BY <1>1, <1>2, <1>3, <1>4, <1>5 DEF Learner!Next, Begun

-----------------------------------------------------------------------------
(* What a task is stays right                                              *)

LEMMA FitBegins ==
    ASSUME LearnTypes, TasksFit, NEW task, Begins(task),
           \/ task.pc = "find" /\ task.of = 0 /\ task.pair \in Learned /\ task.row = 0
           \/ /\ task.pc = "guard" /\ task.of \in 0..Len(tasks)
              /\ IF task.of = 0 THEN task.pair = NoPair
                 ELSE task.of \in Begun /\ IsLearner(task.of) /\ task.pair = tasks[task.of].pair
    PROVE  \A u \in Begun' : TaskFits(u)'
<1>1. /\ Begun' = Begun \cup {Len(tasks) + 1} /\ Begun = 1..Len(tasks) /\ Len(tasks) \in Nat
      /\ \A u \in Begun : tasks'[u] = tasks[u] /\ (IsLearner(u)' <=> IsLearner(u))
      /\ tasks'[Len(tasks) + 1] = task
  BY LearnerStays, LearnFacts DEF Begins
<1>2. ASSUME NEW u \in Begun PROVE TaskFits(u)'
  <2>1. TaskFits(u) /\ tasks'[u] = tasks[u] /\ (IsLearner(u)' <=> IsLearner(u))
    BY <1>1 DEF TasksFit
  <2>2. CASE IsLearner(u)
    BY <2>1, <2>2 DEF TaskFits
  <2>3. CASE ~IsLearner(u)
    <3>1. \A o \in 1..(u - 1) : o \in Begun
      BY <1>1
    <3> QED
      BY <1>1, <2>1, <2>3, <3>1 DEF TaskFits
  <2> QED
    BY <2>2, <2>3
<1>n. PICK n \in Nat : n = Len(tasks) + 1
  BY <1>1
<1>3. TaskFits(n)'
  <2>1. n - 1 = Len(tasks) /\ tasks'[n] = task
    BY <1>1, <1>n
  <2>2. IsLearner(n)' <=> task.of = 0 /\ task.pair # NoPair
    BY <2>1 DEF IsLearner
  <2>3. CASE task.pc = "find" /\ task.of = 0 /\ task.pair \in Learned /\ task.row = 0
    <3>1. IsLearner(n)'
      BY <2>2, <2>3, PartsAssumption DEF Learner!NoneAssumption
    <3> QED
      BY <2>1, <2>3, <3>1 DEF TaskFits
  <2>4. CASE /\ task.pc = "guard" /\ task.of \in 0..Len(tasks)
             /\ IF task.of = 0 THEN task.pair = NoPair
                ELSE task.of \in Begun /\ IsLearner(task.of) /\ task.pair = tasks[task.of].pair
    <3>1. ~IsLearner(n)'
      BY <2>2, <2>4
    <3>2. CASE task.of = 0
      BY <2>1, <2>4, <3>1, <3>2 DEF TaskFits
    <3>3. CASE task.of # 0
      <4>1. task.of \in 1..(n - 1) /\ IsLearner(task.of)' /\ tasks'[task.of].pair = task.pair
        BY <1>1, <2>1, <2>4, <3>3
      <4> QED
        BY <2>1, <2>4, <3>1, <4>1 DEF TaskFits
    <3> QED
      BY <3>2, <3>3
  <2> QED
    BY <2>3, <2>4
<1> QED
  BY <1>1, <1>2, <1>n, <1>3

LEMMA FitMoves ==
    ASSUME LearnTypes, TasksFit, NEW t \in Begun, NEW pc, NEW row, NEW count,
           Moves(t, pc, row, count), Advance(t, pc, row)
    PROVE  \A u \in Begun : TaskFits(u)'
<1>1. /\ \A u \in Begun : (IsLearner(u)' <=> IsLearner(u)) /\ tasks'[u].pair = tasks[u].pair
           /\ tasks'[u].of = tasks[u].of
      /\ \A u \in Begun \ {t} : tasks'[u] = tasks[u]
      /\ tasks'[t].pc = pc /\ tasks'[t].row = row
      /\ Begun = 1..Len(tasks) /\ Len(tasks) \in Nat
  BY LearnerMoves, LearnFacts DEF Moves
<1> SUFFICES ASSUME NEW u \in Begun PROVE TaskFits(u)'
  OBVIOUS
<1>2. TaskFits(u)
  BY DEF TasksFit
<1>3. tasks[u].of # 0 /\ ~IsLearner(u)
        => /\ IsLearner(tasks[u].of)' /\ tasks'[tasks[u].of].pair = tasks[tasks[u].of].pair
  <2>1. \A o \in 1..(u - 1) : o \in Begun
    BY <1>1
  <2> QED
    BY <1>1, <1>2, <2>1 DEF TaskFits
<1>4. CASE u # t
  <2>1. tasks'[u] = tasks[u] /\ (IsLearner(u)' <=> IsLearner(u))
    BY <1>1, <1>4
  <2> QED
    BY <1>2, <1>3, <2>1 DEF TaskFits
<1>5. CASE u = t
  <2>1. /\ tasks'[t].pc = pc /\ tasks'[t].row = row /\ tasks'[t].pair = tasks[t].pair
             /\ tasks'[t].of = tasks[t].of
        /\ (IsLearner(t)' <=> IsLearner(t))
    BY <1>1
  <2>2. CASE IsLearner(t)
    <3>1. /\ pc \in {"find", "update", "insert", "flag", "done"}
          /\ pc \in {"find", "insert", "flag"} => row = 0
          /\ pc = "update" => row # 0
      BY <1>2, <1>5, <2>2 DEF TaskFits, Advance, Learner!At
    <3> QED
      BY <1>2, <1>5, <2>1, <2>2, <3>1 DEF TaskFits
  <2>3. CASE ~IsLearner(t)
    <3>1. /\ pc \in {"guard", "max", "count", "change", "clear", "done"}
          /\ pc = "count" => row # 0
      BY <1>2, <1>5, <2>3 DEF TaskFits, Advance, Learner!At
    <3> QED
      BY <1>2, <1>3, <1>5, <2>1, <2>3, <3>1 DEF TaskFits
  <2> QED
    BY <2>2, <2>3
<1> QED
  BY <1>4, <1>5

(* What the user does, in one form                                         *)
UserBegins(task) ==
    /\ Begins(task)
    /\ \/ task.pc = "find" /\ task.of = 0 /\ task.pair \in Learned /\ task.row = 0
       \/ /\ task.pc = "guard" /\ task.of \in 0..Len(tasks)
          /\ IF task.of = 0 THEN task.pair = NoPair
             ELSE /\ task.of \in Begun /\ IsLearner(task.of) /\ task.pair = tasks[task.of].pair
                  /\ words # <<>> /\ task.of = Learner!Last(words)
    /\ \/ task.pc = "find" /\ words' = Append(words, Len(tasks'))
       \/ task.pc = "guard" /\ (words' = words \/ (words # <<>> /\ words' = Learner!Front(words)))
    /\ UNCHANGED <<rows, flag, evidence, hits>>
    /\ \/ task.pc = "find" /\ mixed' = mixed \cup Learner!Mixed \cup Learner!Hurried(task.pair)
       \/ task.pc = "guard" /\ mixed' = mixed \cup Learner!Mixed

LEMMA UserTasks ==
    ASSUME LearnTypes, TasksFit, (\E p \in Learned : Learner!InsertText(p)) \/ Learner!Delete
             \/ Learner!DoTraceback
    PROVE  \E task : UserBegins(task)
<1>1. CASE \E p \in Learned : Learner!InsertText(p)
  <2>1. PICK p \in Learned : Learner!InsertText(p)
    BY <1>1
  <2>2. /\ Begins(Learner!Learner(p)) /\ Learner!Learner(p).pc = "find" /\ Learner!Learner(p).of = 0
             /\ Learner!Learner(p).pair = p
        /\ Learner!Learner(p).row = 0
    BY <2>1, LearnerBegins
  <2>3. /\ words' = Append(words, Len(tasks')) /\ UNCHANGED <<rows, flag, evidence, hits>>
        /\ mixed' = mixed \cup Learner!Mixed \cup Learner!Hurried(p)
    BY <2>1 DEF Learner!InsertText
  <2>4. UserBegins(Learner!Learner(p))
    BY <2>2, <2>3 DEF UserBegins
  <2> QED
    BY <2>4
<1>2. CASE Learner!Delete \/ Learner!DoTraceback
  <2>1. PICK of \in 0..Len(tasks), fg \in BOOLEAN :
          /\ of = 0 \/ (words # <<>> /\ of = Learner!Last(words) /\ of \in Begun /\ IsLearner(of))
          /\ Begins(Learner!Remover(of, fg)) /\ Learner!Remover(of, fg).pc = "guard"
               /\ Learner!Remover(of, fg).of = of
          /\ Learner!Remover(of, fg).pair = IF of = 0 THEN NoPair ELSE tasks[of].pair
          /\ words' = words \/ (words # <<>> /\ words' = Learner!Front(words))
    BY <1>2, RemoverBegins
  <2>2. UNCHANGED <<rows, flag, evidence, hits>> /\ mixed' = mixed \cup Learner!Mixed
    BY <1>2 DEF Learner!Delete, Learner!DoTraceback
  <2>3. UserBegins(Learner!Remover(of, fg))
    BY <2>1, <2>2 DEF UserBegins
  <2> QED
    BY <2>3
<1> QED
  BY <1>1, <1>2

LEMMA TasksFitStep ==
    ASSUME LearnTypes, TasksFit, [Learner!Next]_(Learner!vars)
    PROVE  TasksFit'
<1>1. CASE UNCHANGED Learner!vars
  BY <1>1 DEF Learner!vars, TasksFit, TaskFits, IsLearner, Begun
<1>2. CASE (\E p \in Learned : Learner!InsertText(p)) \/ Learner!Delete \/ Learner!DoTraceback
  <2>1. PICK task : UserBegins(task)
    BY <1>2, UserTasks
  <2>2. \A u \in Begun' : TaskFits(u)'
    BY <2>1, FitBegins DEF UserBegins
  <2>3. /\ Begun' = Begun \cup {Len(tasks) + 1} /\ Len(tasks') = Len(tasks) + 1 /\ tasks'[Len(tasks) + 1] = task
        /\ \A u \in Begun : IsLearner(u)' <=> IsLearner(u)
    BY <2>1, LearnerStays DEF UserBegins, Begins
  <2>4. \A i \in DOMAIN words : words[i] \in Begun /\ IsLearner(words[i])
    BY LenProperties, ElementOfSeq DEF LearnTypes, TasksFit
  <2>5. (\A i \in DOMAIN words : IsLearner(words[i]))'
    <3>1. CASE task.pc = "find" /\ words' = Append(words, Len(tasks'))
      <4>0. PICK n \in Begun' : n = Len(tasks')
        BY <2>3
      <4>1. IsLearner(n)'
        <5>1. task.of = 0 /\ task.pair # NoPair
          BY <2>1, <3>1, PartsAssumption DEF UserBegins, Learner!NoneAssumption
        <5> QED
          BY <2>3, <4>0, <5>1 DEF IsLearner
      <4>2. words \in Seq(Begun) /\ Begun \subseteq Begun' /\ Len(tasks') \in Begun'
        BY <2>3 DEF LearnTypes
      <4>3. \A i \in DOMAIN words' : words'[i] = n \/ (i \in DOMAIN words /\ words'[i] = words[i])
        BY <3>1, <4>0, <4>2, WordsGo
      <4> QED
        BY <2>3, <2>4, <4>1, <4>3 DEF IsLearner
    <3>2. CASE words' = words
      BY <2>3, <2>4, <3>2 DEF IsLearner
    <3>3. CASE words # <<>> /\ words' = Learner!Front(words)
      <4>1. words \in Seq(Begun) /\ Begun \subseteq Begun'
        BY <2>3 DEF LearnTypes
      <4>2. \A i \in DOMAIN words' : i \in DOMAIN words /\ words'[i] = words[i]
        BY <3>3, <4>1, WordsGo
      <4> QED
        BY <2>3, <2>4, <4>2 DEF IsLearner
    <3> QED
      BY <2>1, <3>1, <3>2, <3>3 DEF UserBegins
  <2>6. "twice" \in mixed' => "hurried" \in mixed'
    BY <2>1 DEF UserBegins, Learner!Mixed, Learner!Hurried, TasksFit
  <2> QED
    BY <2>2, <2>5, <2>6 DEF TasksFit
<1>3. ASSUME NEW p \in Learned, Learner!RemoveFromThinkDB(p) PROVE TasksFit'
  <2>1. UNCHANGED <<tasks, words>> /\ mixed' = mixed \cup {c \in {"mixed"} : Learner!Under # {}}
    BY <1>3 DEF Learner!RemoveFromThinkDB
  <2> QED
    BY <2>1 DEF TasksFit, TaskFits, IsLearner, Begun
<1>4. ASSUME NEW t \in Begun, Learner!Step(t) PROVE TasksFit'
  <2>1. PICK pc, row, count : Moves(t, pc, row, count) /\ Advance(t, pc, row)
    BY <1>4, StepMoves
  <2>2. Begun' = Begun /\ (\A u \in Begun : TaskFits(u)') /\ words' = words
    BY <1>4, <2>1, FitMoves, LearnerMoves, StepMoves
  <2>3. \A i \in DOMAIN words : words[i] \in Begun /\ IsLearner(words[i])
    BY LenProperties, ElementOfSeq DEF LearnTypes, TasksFit
  <2>4. (\A i \in DOMAIN words : IsLearner(words[i]))'
    BY <2>1, <2>2, <2>3, LearnerMoves DEF IsLearner
  <2>5. mixed' \in {mixed, mixed \cup Learner!Older(t)}
    BY <1>4, StepCauses
  <2>6. "twice" \in mixed' => "hurried" \in mixed'
    BY <2>5 DEF Learner!Older, TasksFit
  <2> QED
    BY <2>2, <2>4, <2>6 DEF TasksFit
<1> QED
  BY <1>1, <1>2, <1>3, <1>4 DEF Learner!Next, Begun

-----------------------------------------------------------------------------
(* Pairs of one learner at a time                                          *)

(* Who is under way then                                                   *)
LEMMA UnderBegins ==
    ASSUME LearnTypes, NEW task, Begins(task), task.pc # "done"
    PROVE  /\ Learner!Under' = Learner!Under \cup {Len(tasks) + 1} /\ Len(tasks) + 1 \notin Begun
           /\ \A u \in Begun : tasks'[u] = tasks[u] /\ (IsLearner(u)' <=> IsLearner(u))
<1>1. /\ DOMAIN tasks' = Begun \cup {Len(tasks) + 1} /\ tasks'[Len(tasks) + 1] = task
      /\ \A u \in Begun : tasks'[u] = tasks[u] /\ (IsLearner(u)' <=> IsLearner(u))
  BY LearnerStays DEF Begins
<1>2. Len(tasks) + 1 \notin Begun
  BY LearnFacts
<1>3. Learner!Under' = {u \in DOMAIN tasks' : tasks'[u].pc # "done"}
  BY DEF Learner!Under, Learner!At
<1> QED
  BY <1>1, <1>2, <1>3, LearnFacts

LEMMA UnderMoves ==
    ASSUME LearnTypes, NEW t \in Begun, NEW pc, NEW row, NEW count, Moves(t, pc, row, count)
    PROVE  Learner!Under' = (Learner!Under \ {t}) \cup (IF pc = "done" THEN {} ELSE {t})
<1>1. Learner!Under' = {u \in DOMAIN tasks' : tasks'[u].pc # "done"} /\ DOMAIN tasks' = Begun
  BY DEF Learner!Under, Learner!At, Moves, Begun
<1> QED
  BY <1>1, LearnFacts DEF Moves

(* The two of one table and the next that have a pair                      *)
LEMMA RowsSame ==
    ASSUME DOMAIN rows' \subseteq DOMAIN rows, \A r \in DOMAIN rows' : rows'[r].pair = rows[r].pair
    PROVE  \A p : Learner!RowsOf(p)' \subseteq Learner!RowsOf(p) /\ (DOMAIN rows' = DOMAIN rows
             => Learner!RowsOf(p)' = Learner!RowsOf(p))
  BY DEF Learner!RowsOf

(* The learners under way are no more, none of them goes to insert, and no *)
(* row is new.                                                             *)
LEMMA TwiceKeep ==
    ASSUME LearnTypes, TwiceFits, NEW t \in Begun, NEW pc, NEW row, NEW count,
           Moves(t, pc, row, count), Advance(t, pc, row),
           DOMAIN rows' \subseteq DOMAIN rows, \A r \in DOMAIN rows' : rows'[r].pair = rows[r].pair,
           pc = "insert" => Learner!RowsOf(tasks[t].pair) = {}
    PROVE  TwiceFits'
<1>1. Learner!Under' \subseteq Learner!Under \cup {t} /\ t \in Learner!Under
  BY UnderMoves, LearnFacts DEF Advance, Learner!At
<1>2. \A u \in Begun : (IsLearner(u)' <=> IsLearner(u)) /\ tasks'[u].pair = tasks[u].pair
  BY LearnerMoves
<1>3. \A u \in Begun \ {t} : tasks'[u] = tasks[u]
  BY DEF Moves
<1>4. \A p : Learner!RowsOf(p)' \subseteq Learner!RowsOf(p)
  BY RowsSame
<1>5. \A u \in Learner!Under : u \in Begun
  BY LearnFacts
<1>6. (\A v, u \in Learner!Under : IsLearner(v) /\ IsLearner(u) /\ tasks[v].pair = tasks[u].pair => v = u)'
  BY <1>1, <1>2, <1>5 DEF TwiceFits
<1>7. (\A u \in Learner!Under : IsLearner(u) /\ Learner!At(u, "insert") => Learner!RowsOf(tasks[u].pair) = {})'
  <2> SUFFICES ASSUME NEW u \in Learner!Under', IsLearner(u)', tasks'[u].pc = "insert"
               PROVE  Learner!RowsOf(tasks[u].pair)' = {}
    BY DEF Learner!At
  <2>1. u \in Learner!Under /\ IsLearner(u) /\ tasks'[u].pair = tasks[u].pair /\ u \in Begun
    BY <1>1, <1>2, <1>5
  <2>2. Learner!RowsOf(tasks[u].pair) = {}
    <3>1. CASE u = t
      BY <3>1 DEF Moves
    <3>2. CASE u # t
      BY <1>3, <2>1, <3>2 DEF TwiceFits, Learner!At
    <3> QED
      BY <3>1, <3>2
  <2>3. PICK p : p = tasks[u].pair
    OBVIOUS
  <2>4. Learner!RowsOf(p)' = {}
    BY <1>4, <2>2, <2>3
  <2> QED
    BY <2>1, <2>3, <2>4 DEF Learner!RowsOf
<1>8. (\A r, s \in DOMAIN rows : rows[r].pair = rows[s].pair => r = s)'
  BY DEF TwiceFits
<1> QED
  BY <1>6, <1>7, <1>8 DEF TwiceFits

LEMMA TwiceBegins ==
    ASSUME LearnTypes, TwiceFits, NEW task, UserBegins(task), "twice" \notin mixed'
    PROVE  TwiceFits'
<1>1. /\ Begins(task) /\ task.pc \in {"find", "guard"} /\ rows' = rows
  BY DEF UserBegins
<1>n. PICK n \in Nat : n = Len(tasks) + 1
  BY LearnFacts
<1>2. /\ Learner!Under' = Learner!Under \cup {n} /\ n \notin Begun /\ Learner!Under \subseteq Begun
      /\ \A u \in Begun : tasks'[u] = tasks[u] /\ (IsLearner(u)' <=> IsLearner(u))
      /\ tasks'[n] = task /\ Len(tasks') = n
  BY <1>1, <1>n, UnderBegins, LearnFacts DEF Begins
<1>3. IsLearner(n)' => \A u \in Learner!Under : IsLearner(u) => tasks[u].pair # task.pair
  <2> SUFFICES ASSUME IsLearner(n)', NEW u \in Learner!Under, IsLearner(u), tasks[u].pair = task.pair
               PROVE  FALSE
    OBVIOUS
  <2>1. task.of = 0 /\ task.pair # NoPair
    BY <1>2 DEF IsLearner
  <2>2. task.pc = "find" /\ mixed' = mixed \cup Learner!Mixed \cup Learner!Hurried(task.pair)
    BY <2>1 DEF UserBegins
  <2>3. Learner!Learns(u)
    BY <1>2 DEF Learner!Learns, IsLearner
  <2>4. "twice" \in Learner!Hurried(task.pair)
    BY <2>3 DEF Learner!Hurried
  <2> QED
    BY <2>2, <2>4
<1>4. (\A v, u \in Learner!Under : IsLearner(v) /\ IsLearner(u) /\ tasks[v].pair = tasks[u].pair => v = u)'
  BY <1>2, <1>3 DEF TwiceFits
<1>5. (\A u \in Learner!Under : IsLearner(u) /\ Learner!At(u, "insert") => Learner!RowsOf(tasks[u].pair) = {})'
  <2> SUFFICES ASSUME NEW u \in Learner!Under', IsLearner(u)', tasks'[u].pc = "insert"
               PROVE  Learner!RowsOf(tasks[u].pair)' = {}
    BY DEF Learner!At
  <2>1. u \in Learner!Under /\ u \in Begun
    BY <1>1, <1>2
  <2>2. Learner!RowsOf(tasks[u].pair) = {} /\ tasks'[u] = tasks[u]
    BY <1>2, <2>1 DEF TwiceFits, Learner!At
  <2> QED
    BY <1>1, <2>2 DEF Learner!RowsOf
<1>6. (\A r, s \in DOMAIN rows : rows[r].pair = rows[s].pair => r = s)'
  BY <1>1 DEF TwiceFits
<1> QED
  BY <1>4, <1>5, <1>6 DEF TwiceFits

LEMMA TwiceInsert ==
    ASSUME LearnTypes, TasksFit, TwiceFits, NEW t \in Begun, Learner!Insert(t)
    PROVE  TwiceFits'
<1> DEFINE n == Learner!LastRow + 1
           p == tasks[t].pair
<1>1. /\ n \notin DOMAIN rows /\ DOMAIN rows' = DOMAIN rows \cup {n}
      /\ \A r \in DOMAIN rows : rows'[r] = rows[r]
      /\ rows'[n] = [pair |-> p, count |-> 0]
      /\ Moves(t, "flag", tasks[t].row, tasks[t].count) /\ Learner!At(t, "insert")
  BY InsertRows
<1> HIDE DEF n
<1>2. Learner!Under' = Learner!Under /\ t \in Learner!Under /\ Learner!Under \subseteq Begun
  <2>1. t \in Learner!Under /\ Learner!Under \subseteq Begun
    BY <1>1, LearnFacts DEF Learner!At
  <2>2. Learner!Under' = (Learner!Under \ {t}) \cup (IF "flag" = "done" THEN {} ELSE {t})
    BY <1>1, UnderMoves
  <2> QED
    BY <2>1, <2>2
<1>3. /\ \A u \in Begun : (IsLearner(u)' <=> IsLearner(u)) /\ tasks'[u].pair = tasks[u].pair
      /\ \A u \in Begun \ {t} : tasks'[u] = tasks[u]
      /\ tasks'[t].pc = "flag"
  BY <1>1, LearnerMoves DEF Moves
<1>4. IsLearner(t) /\ Learner!RowsOf(p) = {}
  <2>1. IsLearner(t)
    BY <1>1 DEF TasksFit, TaskFits, Learner!At
  <2> QED
    BY <1>1, <1>2, <2>1 DEF TwiceFits
<1>5. (\A v, u \in Learner!Under : IsLearner(v) /\ IsLearner(u) /\ tasks[v].pair = tasks[u].pair => v = u)'
  BY <1>2, <1>3 DEF TwiceFits
<1>6. (\A u \in Learner!Under : IsLearner(u) /\ Learner!At(u, "insert") => Learner!RowsOf(tasks[u].pair) = {})'
  <2> SUFFICES ASSUME NEW u \in Learner!Under', IsLearner(u)', tasks'[u].pc = "insert"
               PROVE  Learner!RowsOf(tasks[u].pair)' = {}
    BY DEF Learner!At
  <2>1. u \in Learner!Under /\ u \in Begun /\ u # t /\ IsLearner(u) /\ tasks'[u] = tasks[u]
    BY <1>2, <1>3
  <2>2. Learner!RowsOf(tasks[u].pair) = {} /\ tasks[u].pair # p
    BY <1>2, <1>4, <2>1 DEF TwiceFits, Learner!At
  <2>3. \A r \in DOMAIN rows' : rows'[r].pair # tasks[u].pair
    BY <1>1, <2>2 DEF Learner!RowsOf
  <2> QED
    BY <2>1, <2>3 DEF Learner!RowsOf
<1>7. (\A r, s \in DOMAIN rows : rows[r].pair = rows[s].pair => r = s)'
  <2>1. \A r \in DOMAIN rows : rows[r].pair # p
    BY <1>4 DEF Learner!RowsOf
  <2> QED
    BY <1>1, <2>1 DEF TwiceFits
<1> QED
  BY <1>5, <1>6, <1>7 DEF TwiceFits

LEMMA TwiceStep ==
    ASSUME LearnTypes, TasksFit, TwiceInv, [Learner!Next]_(Learner!vars)
    PROVE  TwiceInv'
<1> SUFFICES ASSUME "twice" \notin mixed' PROVE TwiceFits'
  BY DEF TwiceInv
<1>1. CASE UNCHANGED Learner!vars
  BY <1>1 DEF Learner!vars, TwiceInv, TwiceFits, Learner!Under, IsLearner, Learner!At, Learner!RowsOf
<1>2. CASE (\E p \in Learned : Learner!InsertText(p)) \/ Learner!Delete \/ Learner!DoTraceback
  <2>1. PICK task : UserBegins(task)
    BY <1>2, UserTasks
  <2>2. TwiceFits
    BY <2>1 DEF UserBegins, TwiceInv
  <2> QED
    BY <2>1, <2>2, TwiceBegins
<1>3. ASSUME NEW p \in Learned, Learner!RemoveFromThinkDB(p) PROVE TwiceFits'
  <2>1. /\ DOMAIN rows' \subseteq DOMAIN rows /\ \A r \in DOMAIN rows' : rows'[r] = rows[r]
        /\ tasks' = tasks /\ mixed' = mixed \cup {c \in {"mixed"} : Learner!Under # {}}
    BY <1>3, RemoveRows
  <2>2. TwiceFits
    BY <2>1 DEF TwiceInv
  <2>3. \A q : Learner!RowsOf(q)' \subseteq Learner!RowsOf(q)
    BY <2>1, RowsSame
  <2>4. Learner!Under' = Learner!Under /\ \A u : (IsLearner(u)' <=> IsLearner(u)) /\ tasks'[u] = tasks[u]
    BY <2>1 DEF Learner!Under, IsLearner, Learner!At
  <2>5. (\A u \in Learner!Under : IsLearner(u) /\ Learner!At(u, "insert")
          => Learner!RowsOf(tasks[u].pair) = {})'
    <3> SUFFICES ASSUME NEW u \in Learner!Under', IsLearner(u)', tasks'[u].pc = "insert"
                 PROVE  Learner!RowsOf(tasks[u].pair)' = {}
      BY DEF Learner!At
    <3>1. Learner!RowsOf(tasks[u].pair) = {}
      BY <2>2, <2>4 DEF TwiceFits, Learner!At
    <3> QED
      BY <2>1, <3>1 DEF Learner!RowsOf
  <2> QED
    BY <2>1, <2>2, <2>4, <2>5 DEF TwiceFits
<1>4. ASSUME NEW t \in Begun, Learner!Step(t) PROVE TwiceFits'
  <2>1. PICK pc, row, count : Moves(t, pc, row, count) /\ Advance(t, pc, row)
    BY <1>4, StepMoves
  <2>2. mixed' \in {mixed, mixed \cup Learner!Older(t)}
    BY <1>4, StepCauses
  <2>3. TwiceFits
    BY <2>2 DEF TwiceInv
  <2>4. CASE Learner!Insert(t)
    BY <2>3, <2>4, TwiceInsert
  <2>5. CASE ~Learner!Insert(t)
    <3>1. DOMAIN rows' \subseteq DOMAIN rows /\ \A r \in DOMAIN rows' : rows'[r].pair = rows[r].pair
      <4>1. CASE Reads(t)
        BY <4>1, ReadRows
      <4>2. CASE Learner!Update(t)
        BY <4>2, UpdateRows
      <4>3. CASE Learner!Change(t)
        <5>1. /\ DOMAIN rows' \subseteq DOMAIN rows
              /\ tasks[t].row \notin DOMAIN rows => rows' = rows
              /\ tasks[t].row \in DOMAIN rows /\ tasks[t].row \in DOMAIN rows' =>
                    rows'[tasks[t].row].pair = rows[tasks[t].row].pair
              /\ \A r \in DOMAIN rows' : r # tasks[t].row => rows'[r] = rows[r]
          BY <4>3, ChangeRows
        <5> QED
          BY <5>1
      <4> QED
        BY <1>4, <2>5, <4>1, <4>2, <4>3 DEF Learner!Step, Reads
    <3>2. pc = "insert" => Learner!RowsOf(tasks[t].pair) = {}
      <4> SUFFICES ASSUME pc = "insert" PROVE Learner!RowsOf(tasks[t].pair) = {}
        OBVIOUS
      <4>1. Learner!At(t, "find")
        BY <2>1 DEF Advance
      <4>2. Learner!GetThinkDBRowId(t)
        BY <1>4, <4>1, StepIs
      <4>3. tasks'[t].pc = "insert"
        BY <2>1 DEF Moves
      <4> QED
        BY <4>2, <4>3, FindMoves DEF Moves
    <3> QED
      BY <2>1, <2>3, <3>1, <3>2, TwiceKeep
  <2> QED
    BY <2>4, <2>5
<1> QED
  BY <1>1, <1>2, <1>3, <1>4 DEF Learner!Next, Begun

-----------------------------------------------------------------------------
(* Who takes out is alone                                                  *)

LEMMA AloneBegins ==
    ASSUME LearnTypes, AloneFits, NEW task, UserBegins(task), "mixed" \notin mixed'
    PROVE  AloneFits'
<1>1. /\ Begins(task) /\ task.pc \in {"find", "guard"}
           /\ mixed' \in {mixed \cup Learner!Mixed \cup Learner!Hurried(task.pair), mixed \cup Learner!Mixed}
  BY DEF UserBegins
<1>n. PICK n \in Nat : n = Len(tasks) + 1
  BY LearnFacts
<1>2. /\ Learner!Under' = Learner!Under \cup {n} /\ n \notin Begun /\ Learner!Under \subseteq Begun
      /\ \A u \in Begun : tasks'[u] = tasks[u] /\ (IsLearner(u)' <=> IsLearner(u))
      /\ tasks'[n] = task /\ Len(tasks') = n
  BY <1>1, <1>n, UnderBegins, LearnFacts DEF Begins
<1>3. Learner!Under = {} \/ \A u \in Learner!Under \cup {Len(tasks')} : Learner!Learns(u)
  BY <1>1 DEF Learner!Mixed
<1>4. CASE Learner!Under = {}
  BY <1>2, <1>4 DEF AloneFits
<1>5. CASE \A u \in Learner!Under \cup {n} : Learner!Learns(u)
  <2>1. \A u \in Learner!Under' : IsLearner(u)'
    BY <1>2, <1>5 DEF Learner!Learns, IsLearner
  <2> QED
    BY <2>1 DEF AloneFits
<1> QED
  BY <1>2, <1>3, <1>4, <1>5

LEMMA AloneMoves ==
    ASSUME LearnTypes, AloneFits, NEW t \in Begun, NEW pc, NEW row, NEW count,
           Moves(t, pc, row, count), Advance(t, pc, row)
    PROVE  AloneFits' /\ t \in Learner!Under /\ Learner!Under' \subseteq Learner!Under
<1>1. t \in Learner!Under /\ Learner!Under \subseteq Begun
  BY LearnFacts DEF Advance, Learner!At
<1>2. Learner!Under' \subseteq Learner!Under
  BY <1>1, UnderMoves
<1>3. \A u \in Begun : IsLearner(u)' <=> IsLearner(u)
  BY LearnerMoves
<1> QED
  BY <1>1, <1>2, <1>3 DEF AloneFits

-----------------------------------------------------------------------------
(* What was read still holds                                               *)

(* The task that moves                                                     *)
LEMMA OwnThere ==
    ASSUME LearnTypes, NEW t \in Begun, StillThere(t), Learner!Step(t)
    PROVE  StillThere(t)'
<1>1. CASE Learner!GetThinkDBRowId(t)
  <2>1. rows' = rows
    BY <1>1, ReadRows DEF Reads
  <2>2. CASE Moves(t, "insert", tasks[t].row, tasks[t].count)
    BY <2>2 DEF Moves, StillThere, Learner!At
  <2>3. CASE \E r \in Learner!RowsOf(tasks[t].pair) : Moves(t, "update", r, tasks[t].count)
    BY <2>1, <2>3 DEF Moves, StillThere, Learner!At, Learner!RowsOf
  <2> QED
    BY <1>1, <2>2, <2>3, FindMoves
<1>2. CASE Learner!MaxRowId(t)
  <2>1. rows' = rows
    BY <1>2, ReadRows DEF Reads
  <2>2. /\ tasks'[t].pc = (IF Learner!LastRow > 0 THEN "count" ELSE "done") /\ tasks'[t].row = Learner!LastRow
    BY <1>2, MaxMoves DEF Moves
  <2>3. Learner!LastRow > 0 => Learner!LastRow \in DOMAIN rows
    BY LastRowIs
  <2> QED
    BY <2>1, <2>2, <2>3 DEF StillThere, Learner!At
<1>3. CASE Learner!Count(t)
  <2>1. rows' = rows
    BY <1>3, ReadRows DEF Reads
  <2>2. tasks[t].row \in DOMAIN rows
    BY <1>3 DEF Learner!Count, Learner!At, StillThere
  <2>3. /\ tasks'[t].pc = "change" /\ tasks'[t].row = tasks[t].row
        /\ tasks'[t].count = rows[tasks[t].row].count
    BY <1>3, <2>2, CountMoves DEF Moves
  <2> QED
    BY <2>1, <2>2, <2>3 DEF StillThere, Learner!At
<1>4. CASE Learner!Update(t) \/ Learner!Insert(t) \/ Learner!SetFlag(t) \/ Learner!Guard(t)
             \/ Learner!Change(t) \/ Learner!ClearFlag(t)
  <2>1. Learner!At(t, "update") \/ Learner!At(t, "insert") \/ Learner!At(t, "flag")
          \/ Learner!At(t, "guard") \/ Learner!At(t, "change") \/ Learner!At(t, "clear")
    BY <1>4 DEF Learner!Update, Learner!Insert, Learner!SetFlag, Learner!Guard, Learner!Change,
       Learner!ClearFlag
  <2>2. PICK pc, row, count : Moves(t, pc, row, count) /\ Advance(t, pc, row)
    BY StepMoves
  <2>3. tasks'[t].pc \in {"done", "flag", "max", "clear"}
    BY <2>1, <2>2 DEF Moves, Advance, Learner!At
  <2> QED
    BY <2>3 DEF StillThere, Learner!At
<1> QED
  BY <1>1, <1>2, <1>3, <1>4 DEF Learner!Step

LEMMA ThereStep ==
    ASSUME LearnTypes, TasksFit, AloneFits, \A u \in Learner!Under : StillThere(u), NEW t \in Begun,
           Learner!Step(t)
    PROVE  \A u \in Learner!Under' : StillThere(u)'
<1>1. PICK pc, row, count : Moves(t, pc, row, count) /\ Advance(t, pc, row)
  BY StepMoves
<1>2. t \in Learner!Under /\ Learner!Under' \subseteq Learner!Under /\ Learner!Under \subseteq Begun
  BY <1>1, AloneMoves, LearnFacts
<1> SUFFICES ASSUME NEW u \in Learner!Under' PROVE StillThere(u)'
  OBVIOUS
<1>3. CASE u = t
  BY <1>2, <1>3, OwnThere
<1>4. CASE u # t
  <2>1. IsLearner(t) /\ IsLearner(u) /\ u \in Learner!Under /\ tasks'[u] = tasks[u]
    BY <1>1, <1>2, <1>4 DEF AloneFits, Moves
  <2>2. tasks[u].pc \notin {"count", "change"} /\ ~Learner!Change(t)
    <3>1. TaskFits(u) /\ TaskFits(t)
      BY <1>2, <2>1 DEF TasksFit
    <3> QED
      BY <2>1, <3>1 DEF TaskFits, Learner!Change, Learner!At
  <2>3. DOMAIN rows \subseteq DOMAIN rows' /\ \A r \in DOMAIN rows : rows'[r].pair = rows[r].pair
    <3>1. CASE Reads(t)
      BY <3>1, ReadRows
    <3>2. CASE Learner!Update(t)
      BY <3>2, UpdateRows
    <3>3. CASE Learner!Insert(t)
      BY <3>3, InsertRows
    <3> QED
      BY <2>2, <3>1, <3>2, <3>3 DEF Learner!Step, Reads
  <2>4. StillThere(u)
    BY <2>1
  <2> QED
    BY <2>1, <2>2, <2>3, <2>4 DEF StillThere, Learner!At
<1> QED
  BY <1>3, <1>4

-----------------------------------------------------------------------------
(* The table weighs the pairs                                              *)

(* The rows of the other pairs stay.                                       *)
LEMMA OtherTotals ==
    ASSUME LearnTypes, NEW p \in Learned,
           \A r : (r \in DOMAIN rows /\ rows[r].pair = p) <=> (r \in DOMAIN rows' /\ rows'[r].pair = p),
           \A r \in Learner!RowsOf(p) : rows'[r].count = rows[r].count
    PROVE  Total(rows, Learner!RowsOf(p))' = Total(rows, Learner!RowsOf(p))
<1>1. Learner!RowsOf(p)' = Learner!RowsOf(p)
  BY DEF Learner!RowsOf
<1>2. PICK S : S = Learner!RowsOf(p) /\ IsFiniteSet(S)
  BY RowsFinite
<1>3. PICK f : f = rows
  OBVIOUS
<1>4. PICK e : e = rows'
  OBVIOUS
<1>5. \A r \in S : f[r].count \in Int /\ e[r].count = f[r].count
  BY <1>2, <1>3, <1>4, RowsFinite
<1>6. Total(e, S) = Total(f, S)
  BY <1>2, <1>5, TotalSame
<1> QED
  BY <1>1, <1>2, <1>3, <1>4, <1>6

(* One count differs.                                                      *)
LEMMA TotalShift ==
    ASSUME NEW S, IsFiniteSet(S), NEW f, NEW e, NEW x \in S, NEW d \in Int,
           \A r \in S : f[r].count \in Int /\ e[r].count \in Int,
           \A r \in S \ {x} : f[r].count \in Int /\ e[r].count = f[r].count,
           e[x].count = f[x].count + d
    PROVE  Total(e, S) = Total(f, S) + d
<1>1. Total(e, S) = (e[x].count + 1) + Total(e, S \ {x})
  BY TotalPick
<1>2. Total(f, S) = (f[x].count + 1) + Total(f, S \ {x})
  BY TotalPick
<1>3. Total(e, S \ {x}) = Total(f, S \ {x}) /\ Total(f, S \ {x}) \in Int
  <2>1. IsFiniteSet(S \ {x})
    BY FS_Subset
  <2> QED
    BY <2>1, TotalSame, TotalInt
<1>4. f[x].count \in Int /\ e[x].count = f[x].count + d /\ d \in Int
  OBVIOUS
<1> QED
  BY ONLY <1>1, <1>2, <1>3, <1>4

LEMMA UpdateWeighs ==
    ASSUME LearnTypes, TasksFit, Weighed, NEW t \in Begun, StillThere(t), Learner!Update(t)
    PROVE  Weighed'
<1> DEFINE p == tasks[t].pair
           q == tasks[t].row
<1>1. /\ DOMAIN rows' = DOMAIN rows
      /\ \A r \in DOMAIN rows :
           /\ rows'[r].pair = rows[r].pair
           /\ rows'[r].count = IF r = q THEN rows[r].count + 1 ELSE rows[r].count
      /\ Learner!At(t, "update")
  BY UpdateRows
<1>2. q \in DOMAIN rows /\ rows[q].pair = p /\ p \in Learned
  BY <1>1, RowsFinite DEF StillThere
<1>3. evidence' = [evidence EXCEPT ![p] = @ + 1] /\ evidence \in [Learned -> Int]
  BY DEF Learner!Update, LearnTypes
<1>4. \A r \in DOMAIN rows' : rows'[r].count >= 0
  BY <1>1, RowsFinite DEF Weighed
<1>5. ASSUME NEW o \in Learned, o # p PROVE Total(rows, Learner!RowsOf(o))' = evidence'[o]
  <2>1. /\ \A r : (r \in DOMAIN rows /\ rows[r].pair = o) <=> (r \in DOMAIN rows' /\ rows'[r].pair = o)
        /\ \A r \in Learner!RowsOf(o) : rows'[r].count = rows[r].count
    BY <1>1, <1>2, <1>5 DEF Learner!RowsOf
  <2>2. Total(rows, Learner!RowsOf(o))' = Total(rows, Learner!RowsOf(o))
    BY <2>1, OtherTotals
  <2> QED
    BY <1>3, <1>5, <2>2 DEF Weighed
<1>6. Total(rows', Learner!RowsOf(p)) = Total(rows, Learner!RowsOf(p)) + 1
  <2>1. PICK S : S = Learner!RowsOf(p) /\ IsFiniteSet(S) /\ q \in S
    BY <1>2, RowsFinite DEF Learner!RowsOf
  <2>2. PICK f : f = rows
    OBVIOUS
  <2>3. PICK e : e = rows'
    OBVIOUS
  <2>4. PICK x \in S : x = q
    BY <2>1
  <2>5. /\ \A r \in S : f[r].count \in Int /\ e[r].count \in Int
        /\ \A r \in S \ {x} : f[r].count \in Int /\ e[r].count = f[r].count
        /\ e[x].count = f[x].count + 1
    <3>1. S \subseteq DOMAIN rows
      BY <2>1 DEF Learner!RowsOf
    <3>2. \A r \in DOMAIN rows : rows[r].count \in Int
      BY RowsFinite
    <3>3. \A r \in S : f[r].count \in Int /\ e[r].count = IF r = x THEN f[r].count + 1 ELSE f[r].count
      BY <1>1, <2>2, <2>3, <2>4, <3>1, <3>2
    <3> QED
      BY <3>3
  <2>9. Total(e, S) = Total(f, S) + 1
    BY <2>1, <2>5, TotalShift
  <2> QED
    BY <2>1, <2>2, <2>3, <2>9
<1>7. Total(rows, Learner!RowsOf(p)) = evidence[p] /\ evidence'[p] = evidence[p] + 1
  BY <1>2, <1>3 DEF Weighed
<1>8. \A o \in Learned : Total(rows, Learner!RowsOf(o))' = evidence'[o]
  <2> SUFFICES ASSUME NEW o \in Learned PROVE Total(rows, Learner!RowsOf(o))' = evidence'[o]
    OBVIOUS
  <2>1. CASE o = p
    <3>1. Learner!RowsOf(o)' = Learner!RowsOf(p)
      BY <1>1, <2>1 DEF Learner!RowsOf
    <3> QED
      BY <1>6, <1>7, <2>1, <3>1
  <2> QED
    BY <1>5, <2>1
<1> QED
  BY <1>4, <1>8 DEF Weighed

LEMMA InsertWeighs ==
    ASSUME LearnTypes, TasksFit, Weighed, NEW t \in Begun, Learner!Insert(t)
    PROVE  Weighed'
<1> DEFINE n == Learner!LastRow + 1
           p == tasks[t].pair
<1>1. /\ n \notin DOMAIN rows /\ DOMAIN rows' = DOMAIN rows \cup {n}
      /\ \A r \in DOMAIN rows : rows'[r] = rows[r]
      /\ rows'[n] = [pair |-> p, count |-> 0] /\ Learner!At(t, "insert")
  BY InsertRows
<1> HIDE DEF n
<1>2. rows'[n].pair = p /\ rows'[n].count = 0 /\ p \in Learned
  <2>1. TaskFits(t)
    BY DEF TasksFit
  <2> QED
    BY <1>1, <2>1 DEF TaskFits, Learner!At
<1>3. evidence' = [evidence EXCEPT ![p] = @ + 1] /\ evidence \in [Learned -> Int]
  BY DEF Learner!Insert, LearnTypes
<1>4. \A r \in DOMAIN rows' : rows'[r].count >= 0
  BY <1>1, <1>2 DEF Weighed
<1>5. ASSUME NEW o \in Learned, o # p PROVE Total(rows, Learner!RowsOf(o))' = evidence'[o]
  <2>1. /\ \A r : (r \in DOMAIN rows /\ rows[r].pair = o) <=> (r \in DOMAIN rows' /\ rows'[r].pair = o)
        /\ \A r \in Learner!RowsOf(o) : rows'[r].count = rows[r].count
    BY <1>1, <1>2, <1>5 DEF Learner!RowsOf
  <2>2. Total(rows, Learner!RowsOf(o))' = Total(rows, Learner!RowsOf(o))
    BY <2>1, OtherTotals
  <2> QED
    BY <1>3, <1>5, <2>2 DEF Weighed
<1>6. Total(rows', Learner!RowsOf(p) \cup {n}) = Total(rows, Learner!RowsOf(p)) + 1
  <2>1. PICK S : S = Learner!RowsOf(p) /\ IsFiniteSet(S) /\ n \notin S
    BY <1>1, RowsFinite DEF Learner!RowsOf
  <2>2. PICK f : f = rows
    OBVIOUS
  <2>3. PICK e : e = rows'
    OBVIOUS
  <2>4. PICK x : x = n /\ x \notin S
    BY <2>1
  <2>5. \A r \in S : f[r].count \in Int /\ e[r].count = f[r].count
    <3>1. S \subseteq DOMAIN rows /\ \A r \in DOMAIN rows : rows[r].count \in Int
      BY <2>1, RowsFinite DEF Learner!RowsOf
    <3> QED
      BY <1>1, <2>2, <2>3, <3>1
  <2>6. e[x].count = 0
    BY <1>2, <2>3, <2>4
  <2>7. IsFiniteSet(S \cup {x}) /\ x \in S \cup {x} /\ (S \cup {x}) \ {x} = S
        /\ \A r \in S \cup {x} : e[r].count \in Int
    <3>1. IsFiniteSet(S \cup {x})
      BY <2>1, FS_AddElement
    <3> QED
      BY <2>4, <2>5, <2>6, <3>1
  <2>8. Total(e, S \cup {x}) = (e[x].count + 1) + Total(e, S)
    <3>1. Total(e, S \cup {x}) = (e[x].count + 1) + Total(e, (S \cup {x}) \ {x})
      BY <2>7, TotalPick
    <3> QED
      BY <2>7, <3>1
  <2>9. Total(e, S) = Total(f, S) /\ Total(f, S) \in Int
    BY <2>1, <2>5, TotalSame, TotalInt
  <2>10. Total(e, S \cup {x}) = Total(f, S) + 1
    BY ONLY <2>6, <2>8, <2>9
  <2> QED
    BY <2>1, <2>2, <2>3, <2>4, <2>10
<1>7. Total(rows, Learner!RowsOf(p)) = evidence[p] /\ evidence'[p] = evidence[p] + 1
  BY <1>2, <1>3 DEF Weighed
<1>8. \A o \in Learned : Total(rows, Learner!RowsOf(o))' = evidence'[o]
  <2> SUFFICES ASSUME NEW o \in Learned PROVE Total(rows, Learner!RowsOf(o))' = evidence'[o]
    OBVIOUS
  <2>1. CASE o = p
    <3>1. Learner!RowsOf(o)' = Learner!RowsOf(p) \cup {n}
      BY <1>1, <1>2, <2>1 DEF Learner!RowsOf
    <3> QED
      BY <1>6, <1>7, <2>1, <3>1
  <2> QED
    BY <1>5, <2>1
<1> QED
  BY <1>4, <1>8 DEF Weighed

LEMMA ChangeWeighs ==
    ASSUME LearnTypes, TasksFit, Weighed, NEW t \in Begun, StillThere(t), Learner!Change(t)
    PROVE  Weighed'
<1> DEFINE q == tasks[t].row
<1>1. Learner!At(t, "change") /\ q \in DOMAIN rows /\ tasks[t].count = rows[q].count
  BY DEF Learner!Change, StillThere, Learner!At
<1>p. PICK p \in Learned : p = rows[q].pair
  BY <1>1, RowsFinite
<1>2. /\ IF tasks[t].count > 0 THEN /\ DOMAIN rows' = DOMAIN rows /\ rows'[q].pair = p
                                    /\ rows'[q].count = rows[q].count - 1
         ELSE DOMAIN rows' = DOMAIN rows \ {q}
      /\ evidence' = [evidence EXCEPT ![p] = @ - 1]
      /\ \A r \in DOMAIN rows' : r # q => rows'[r] = rows[r]
  BY <1>1, <1>p, ChangeRows
<1>3. /\ \A r \in DOMAIN rows : rows[r].count \in Int /\ rows[r].count >= 0
      /\ evidence \in [Learned -> Int]
  BY <1>1, RowsFinite DEF Weighed, LearnTypes
<1>4. \A r \in DOMAIN rows' : rows'[r].count >= 0
  <2> SUFFICES ASSUME NEW r \in DOMAIN rows' PROVE rows'[r].count >= 0
    OBVIOUS
  <2>1. CASE r # q
    BY <1>2, <1>3, <2>1
  <2>2. CASE r = q
    <3>1. tasks[t].count > 0 /\ rows'[q].count = rows[q].count - 1 /\ rows[q].count \in Int
      BY <1>1, <1>2, <1>3, <2>2
    <3> QED
      BY <1>1, <2>2, <3>1
  <2> QED
    BY <2>1, <2>2
<1>5. ASSUME NEW o \in Learned, o # p PROVE Total(rows, Learner!RowsOf(o))' = evidence'[o]
  <2>1. /\ \A r : (r \in DOMAIN rows /\ rows[r].pair = o) <=> (r \in DOMAIN rows' /\ rows'[r].pair = o)
        /\ \A r \in Learner!RowsOf(o) : rows'[r].count = rows[r].count
    <3>1. \A r \in DOMAIN rows : r # q => r \in DOMAIN rows' /\ rows'[r] = rows[r]
      BY <1>2
    <3>2. DOMAIN rows' \subseteq DOMAIN rows /\ (q \in DOMAIN rows' => rows'[q].pair = p)
      BY <1>2
    <3> QED
      BY <1>p, <1>5, <3>1, <3>2 DEF Learner!RowsOf
  <2>2. Total(rows, Learner!RowsOf(o))' = Total(rows, Learner!RowsOf(o))
    BY <2>1, OtherTotals
  <2> QED
    BY <1>2, <1>3, <1>5, <2>2 DEF Weighed
<1>s. PICK S : S = Learner!RowsOf(p) /\ IsFiniteSet(S) /\ q \in S /\ S \subseteq DOMAIN rows
  BY <1>1, <1>p, RowsFinite DEF Learner!RowsOf
<1>f. PICK f : f = rows
  OBVIOUS
<1>e. PICK e : e = rows'
  OBVIOUS
<1>x. PICK x \in S : x = q
  BY <1>s
<1>v. f[x].count \in Int /\ \A r \in S : f[r].count \in Int
  BY <1>3, <1>s, <1>f
<1>6. Total(rows, Learner!RowsOf(p))' = Total(rows, Learner!RowsOf(p)) - 1
  <2>1. CASE tasks[t].count > 0
    <3>1. /\ \A r \in S : f[r].count \in Int /\ e[r].count \in Int
          /\ \A r \in S \ {x} : f[r].count \in Int /\ e[r].count = f[r].count
          /\ e[x].count = f[x].count + (-1)
      <4>1. \A r \in DOMAIN rows : rows'[r].count = IF r = q THEN rows[r].count - 1 ELSE rows[r].count
        BY <1>2, <2>1
      <4>2. \A r \in S : f[r].count \in Int /\ e[r].count = IF r = x THEN f[r].count - 1 ELSE f[r].count
        BY <1>3, <1>s, <1>f, <1>e, <1>x, <4>1
      <4>3. e[x].count = f[x].count - 1
        BY <4>2
      <4>4. f[x].count - 1 = f[x].count + (-1)
        BY ONLY <1>v
      <4> QED
        BY <4>2, <4>3, <4>4
    <3>i. Total(f, S) \in Int
      BY <1>s, <1>v, TotalInt
    <3>d. PICK d \in Int : d = -1
      OBVIOUS
    <3>t. Total(e, S) = Total(f, S) + d
      <4>1. e[x].count = f[x].count + d
        BY <3>1, <3>d
      <4> QED
        BY <1>s, <3>1, <4>1, TotalShift
    <3>2. Total(e, S) = Total(f, S) - 1
      BY ONLY <3>i, <3>d, <3>t
    <3>3. Learner!RowsOf(p)' = S
      <4>1. \A r \in DOMAIN rows : rows'[r].pair = rows[r].pair
        BY <1>2, <1>p, <2>1
      <4> QED
        BY <1>2, <1>s, <2>1, <4>1 DEF Learner!RowsOf
    <3> QED
      BY <1>s, <1>f, <1>e, <3>2, <3>3
  <2>2. CASE ~(tasks[t].count > 0)
    <3>1. DOMAIN rows' = DOMAIN rows \ {q} /\ \A r \in DOMAIN rows' : rows'[r] = rows[r]
      BY <1>2, <2>2
    <3>2. f[x].count = 0
      BY <1>1, <1>3, <1>f, <1>x, <2>2
    <3>3. Total(f, S) = (f[x].count + 1) + Total(f, S \ {x})
      BY <1>s, <1>v, TotalPick
    <3>4. IsFiniteSet(S \ {x}) /\ \A r \in S \ {x} : f[r].count \in Int /\ e[r].count = f[r].count
      <4>1. IsFiniteSet(S \ {x})
        BY <1>s, FS_Subset
      <4> QED
        BY <1>s, <1>f, <1>e, <1>x, <1>v, <3>1, <4>1
    <3>5. Total(e, S \ {x}) = Total(f, S \ {x}) /\ Total(f, S \ {x}) \in Int
      BY <3>4, TotalSame, TotalInt
    <3>6. Total(e, S \ {x}) = Total(f, S) - 1
      BY ONLY <3>2, <3>3, <3>5
    <3>7. Learner!RowsOf(p)' = S \ {x}
      BY <1>s, <1>x, <3>1 DEF Learner!RowsOf
    <3> QED
      BY <1>s, <1>f, <1>e, <3>6, <3>7
  <2> QED
    BY <2>1, <2>2
<1>7. \A o \in Learned : Total(rows, Learner!RowsOf(o))' = evidence'[o]
  <2> SUFFICES ASSUME NEW o \in Learned PROVE Total(rows, Learner!RowsOf(o))' = evidence'[o]
    OBVIOUS
  <2>1. CASE o = p
    <3>1. Total(rows, Learner!RowsOf(p)) = evidence[p] /\ evidence'[p] = evidence[p] - 1
      BY <1>2, <1>3 DEF Weighed
    <3> QED
      BY <1>6, <2>1, <3>1
  <2> QED
    BY <1>5, <2>1
<1> QED
  BY <1>4, <1>7 DEF Weighed

LEMMA RemoveWeighs ==
    ASSUME LearnTypes, Weighed, NEW p \in Learned, Learner!RemoveFromThinkDB(p)
    PROVE  Weighed'
<1>1. /\ DOMAIN rows' = DOMAIN rows \ Learner!RowsOf(p) /\ \A r \in DOMAIN rows' : rows'[r] = rows[r]
      /\ evidence' = [evidence EXCEPT ![p] = 0] /\ evidence \in [Learned -> Int]
  BY RemoveRows DEF LearnTypes
<1>2. \A r \in DOMAIN rows' : rows'[r].count >= 0
  BY <1>1 DEF Weighed
<1>3. ASSUME NEW o \in Learned, o # p PROVE Total(rows, Learner!RowsOf(o))' = evidence'[o]
  <2>1. /\ \A r : (r \in DOMAIN rows /\ rows[r].pair = o) <=> (r \in DOMAIN rows' /\ rows'[r].pair = o)
        /\ \A r \in Learner!RowsOf(o) : rows'[r].count = rows[r].count
    BY <1>1, <1>3 DEF Learner!RowsOf
  <2>2. Total(rows, Learner!RowsOf(o))' = Total(rows, Learner!RowsOf(o))
    BY <2>1, OtherTotals
  <2> QED
    BY <1>1, <1>3, <2>2 DEF Weighed
<1>4. Total(rows, Learner!RowsOf(p))' = evidence'[p]
  <2>1. Learner!RowsOf(p)' = {}
    BY <1>1 DEF Learner!RowsOf
  <2>2. PICK e : e = rows'
    OBVIOUS
  <2>3. Total(e, {}) = 0
    BY TotalEmpty
  <2> QED
    BY <1>1, <2>1, <2>2, <2>3
<1>5. \A o \in Learned : Total(rows, Learner!RowsOf(o))' = evidence'[o]
  <2> SUFFICES ASSUME NEW o \in Learned PROVE Total(rows, Learner!RowsOf(o))' = evidence'[o]
    OBVIOUS
  <2> QED
    BY <1>3, <1>4
<1> QED
  BY <1>2, <1>5 DEF Weighed

LEMMA WeighedKept ==
    ASSUME LearnTypes, Weighed, UNCHANGED <<rows, evidence>>
    PROVE  Weighed'
<1>1. \A r \in DOMAIN rows' : rows'[r].count >= 0
  BY DEF Weighed
<1>2. ASSUME NEW p \in Learned PROVE Total(rows, Learner!RowsOf(p))' = evidence'[p]
  <2>1. Total(rows, Learner!RowsOf(p))' = Total(rows, Learner!RowsOf(p))
    BY OtherTotals
  <2> QED
    BY <2>1 DEF Weighed
<1> QED
  BY <1>1, <1>2 DEF Weighed

LEMMA MixedStep ==
    ASSUME LearnTypes, TasksFit, MixedInv, [Learner!Next]_(Learner!vars)
    PROVE  MixedInv'
<1> SUFFICES ASSUME "mixed" \notin mixed'
             PROVE  AloneFits' /\ (\A t \in Learner!Under : StillThere(t))' /\ Weighed'
  BY DEF MixedInv
<1>1. CASE UNCHANGED Learner!vars
  <2>1. AloneFits /\ (\A t \in Learner!Under : StillThere(t)) /\ Weighed
    BY <1>1 DEF Learner!vars, MixedInv
  <2>2. UNCHANGED <<tasks, rows, evidence>>
    BY <1>1 DEF Learner!vars
  <2>3. AloneFits' /\ (\A t \in Learner!Under : StillThere(t))'
    BY <2>1, <2>2 DEF AloneFits, StillThere, Learner!Under, IsLearner, Learner!At
  <2>4. Weighed'
    BY <2>1, <2>2, WeighedKept
  <2> QED
    BY <2>3, <2>4
<1>2. CASE (\E p \in Learned : Learner!InsertText(p)) \/ Learner!Delete \/ Learner!DoTraceback
  <2>1. PICK task : UserBegins(task)
    BY <1>2, UserTasks
  <2>2. AloneFits /\ (\A t \in Learner!Under : StillThere(t)) /\ Weighed
    BY <2>1 DEF UserBegins, MixedInv
  <2>3. AloneFits'
    BY <2>1, <2>2, AloneBegins
  <2>4. Begins(task) /\ task.pc \in {"find", "guard"} /\ UNCHANGED <<rows, evidence>>
    BY <2>1 DEF UserBegins
  <2>5. \A t \in Learner!Under' : StillThere(t)'
    <3> SUFFICES ASSUME NEW t \in Learner!Under' PROVE StillThere(t)'
      OBVIOUS
    <3>1. CASE t \in Learner!Under
      <4>1. tasks'[t] = tasks[t] /\ StillThere(t)
        BY <2>2, <2>4, <3>1, UnderBegins, LearnFacts
      <4> QED
        BY <2>4, <4>1 DEF StillThere, Learner!At
    <3>2. CASE t = Len(tasks) + 1
      <4>1. tasks'[t] = task
        BY <2>4, <3>2 DEF Begins
      <4> QED
        BY <2>4, <4>1 DEF StillThere, Learner!At
    <3> QED
      BY <2>4, <3>1, <3>2, UnderBegins
  <2>6. Weighed'
    BY <2>2, <2>4, WeighedKept
  <2> QED
    BY <2>3, <2>5, <2>6
<1>3. ASSUME NEW p \in Learned, Learner!RemoveFromThinkDB(p)
      PROVE  AloneFits' /\ (\A t \in Learner!Under : StillThere(t))' /\ Weighed'
  <2>1. tasks' = tasks /\ mixed' = mixed \cup {c \in {"mixed"} : Learner!Under # {}}
    BY <1>3 DEF Learner!RemoveFromThinkDB
  <2>2. Weighed /\ Learner!Under' = {}
    BY <2>1 DEF MixedInv, Learner!Under, Learner!At
  <2> QED
    BY <1>3, <2>2, RemoveWeighs DEF AloneFits
<1>4. ASSUME NEW t \in Begun, Learner!Step(t)
      PROVE  AloneFits' /\ (\A u \in Learner!Under : StillThere(u))' /\ Weighed'
  <2>1. PICK pc, row, count : Moves(t, pc, row, count) /\ Advance(t, pc, row)
    BY <1>4, StepMoves
  <2>2. mixed' \in {mixed, mixed \cup Learner!Older(t)}
    BY <1>4, StepCauses
  <2>3. AloneFits /\ (\A u \in Learner!Under : StillThere(u)) /\ Weighed
    BY <2>2 DEF MixedInv
  <2>4. AloneFits' /\ t \in Learner!Under
    BY <2>1, <2>3, AloneMoves
  <2>5. \A u \in Learner!Under' : StillThere(u)'
    BY <1>4, <2>3, ThereStep
  <2>6. Weighed'
    <3>1. CASE Reads(t)
      <4>1. rows' = rows /\ evidence' = evidence
        BY <3>1, ReadRows
      <4> QED
        BY <2>3, <4>1, WeighedKept
    <3>2. CASE Learner!Update(t)
      BY <2>3, <2>4, <3>2, UpdateWeighs
    <3>3. CASE Learner!Insert(t)
      BY <2>3, <3>3, InsertWeighs
    <3>4. CASE Learner!Change(t)
      BY <2>3, <2>4, <3>4, ChangeWeighs
    <3> QED
      BY <1>4, <3>1, <3>2, <3>3, <3>4 DEF Learner!Step, Reads
  <2> QED
    BY <2>4, <2>5, <2>6
<1> QED
  BY <1>1, <1>2, <1>3, <1>4 DEF Learner!Next, Begun

-----------------------------------------------------------------------------
(* One operation at a time                                                 *)

LEMMA WordAdded ==
    ASSUME NEW S, NEW T, S \subseteq T, NEW s \in Seq(S), NEW e \in T
    PROVE  Append(s, e) # <<>> /\ Learner!Last(Append(s, e)) = e
<1>1. s \in Seq(T) /\ Len(s) \in Nat
  BY WordsGo, LenProperties
<1>2. /\ Append(s, e) # <<>> /\ Len(Append(s, e)) = Len(s) + 1
      /\ Append(s, e)[Len(s) + 1] = e
  BY <1>1, AppendProperties
<1> QED
  BY <1>1, <1>2 DEF Learner!Last

LEMMA LastRowNext ==
    ASSUME LearnTypes'
    PROVE  /\ Learner!LastRow' \in Nat /\ \A r \in DOMAIN rows' : r <= Learner!LastRow'
           /\ Learner!LastRow' # 0 => Learner!LastRow' \in DOMAIN rows'
           /\ Learner!LastRow' = 0 => DOMAIN rows' = {}
<1>1. MaxTask \in Nat /\ DOMAIN rows' \in SUBSET (1..MaxTask)
  BY PartsAssumption DEF LearnTypes, Learner!RowIds, Learner!TaskAssumption
<1>2. Learner!LastRow' = IF DOMAIN rows' = {} THEN 0 ELSE Learner!Max(DOMAIN rows')
  BY DEF Learner!LastRow
<1>3. CASE DOMAIN rows' = {}
  BY <1>2, <1>3
<1>4. CASE DOMAIN rows' # {}
  <2>1. Learner!Max(DOMAIN rows') \in DOMAIN rows' /\ \A r \in DOMAIN rows' : r <= Learner!Max(DOMAIN rows')
    BY <1>1, <1>4, MaxIs
  <2> QED
    BY <1>1, <1>2, <1>4, <2>1
<1> QED
  BY <1>3, <1>4

(* A row that is the last stays the last as rows go.                       *)
LEMMA LastStays ==
    ASSUME LearnTypes, LearnTypes', NEW p, Learner!RowsOf(p) \subseteq {Learner!LastRow},
           DOMAIN rows' \subseteq DOMAIN rows, \A r \in DOMAIN rows' : rows'[r].pair = rows[r].pair
    PROVE  Learner!RowsOf(p)' \subseteq {Learner!LastRow'}
<1>1. Learner!RowsOf(p)' \subseteq Learner!RowsOf(p) /\ Learner!RowsOf(p)' \subseteq DOMAIN rows'
  BY DEF Learner!RowsOf
<1>2. \A r \in DOMAIN rows : r <= Learner!LastRow /\ r \in Nat
  BY LastRowIs, RowsFinite
<1>3. /\ Learner!LastRow' \in Nat /\ \A r \in DOMAIN rows' : r <= Learner!LastRow'
      /\ Learner!LastRow' = 0 => DOMAIN rows' = {}
      /\ Learner!LastRow' # 0 => Learner!LastRow' \in DOMAIN rows'
  BY LastRowNext
<1> SUFFICES ASSUME NEW r \in Learner!RowsOf(p)' PROVE r = Learner!LastRow'
  OBVIOUS
<1>4. r = Learner!LastRow /\ r \in DOMAIN rows' /\ r \in Nat
  BY <1>1, <1>2
<1>5. Learner!LastRow' \in DOMAIN rows /\ r <= Learner!LastRow'
  BY <1>3, <1>4
<1>6. Learner!LastRow' <= Learner!LastRow
  BY <1>2, <1>5
<1> QED
  BY <1>3, <1>4, <1>5, <1>6

(* So does that of a word.                                                 *)
LEMMA NewStays ==
    ASSUME LearnTypes, LearnTypes', NEW u, NewIsLast(u),
           tasks'[u].row = tasks[u].row, tasks'[u].pair = tasks[u].pair,
           DOMAIN rows' \subseteq DOMAIN rows, \A r \in DOMAIN rows' : rows'[r].pair = rows[r].pair
    PROVE  NewIsLast(u)'
<1> SUFFICES ASSUME tasks[u].row = 0 PROVE Learner!RowsOf(tasks[u].pair)' \subseteq {Learner!LastRow'}
  BY DEF NewIsLast
<1>1. PICK p : p = tasks[u].pair
  OBVIOUS
<1>2. Learner!RowsOf(p) \subseteq {Learner!LastRow}
  BY <1>1 DEF NewIsLast
<1>3. Learner!RowsOf(p)' \subseteq {Learner!LastRow'}
  BY <1>2, LastStays
<1>4. Learner!RowsOf(tasks[u].pair)' = Learner!RowsOf(p)'
  BY <1>1 DEF Learner!RowsOf
<1> QED
  BY <1>3, <1>4

(* Nobody was at it when the user began the next.                          *)
LEMMA LastBegins ==
    ASSUME LearnTypes, LearnTypes', TasksFit, LastFits, NEW task, UserBegins(task), Calm'
    PROVE  LastFits'
<1>1. Begins(task) /\ task.pc \in {"find", "guard"} /\ UNCHANGED <<rows, flag, hits>>
  BY DEF UserBegins
<1>n. PICK n \in Nat : n = Len(tasks) + 1 /\ n - 1 = Len(tasks) /\ n # 0
  BY LearnFacts
<1>2. /\ Learner!Under' = Learner!Under \cup {n} /\ n \notin Begun /\ Learner!Under \subseteq Begun
      /\ \A u \in Begun : tasks'[u] = tasks[u] /\ (IsLearner(u)' <=> IsLearner(u))
      /\ tasks'[n] = task /\ Len(tasks') = n /\ n \in Begun'
  BY <1>1, <1>n, UnderBegins, LearnerStays, LearnFacts DEF Begins
<1>3. /\ task.pc = "find" => task.of = 0 /\ task.pair \in Learned /\ words' = Append(words, n)
      /\ task.pc = "guard" => IF task.of = 0 THEN task.pair = NoPair
                              ELSE words # <<>> /\ task.of = Learner!Last(words)
  BY <1>2 DEF UserBegins
<1>4. IsLearner(n)' <=> task.pc = "find"
  <2>1. IsLearner(n)' <=> task.of = 0 /\ task.pair # NoPair
    BY <1>2 DEF IsLearner
  <2> QED
    BY <1>1, <1>3, <2>1, PartsAssumption DEF Learner!NoneAssumption
<1>5. Learner!Under = {}
  <2> SUFFICES ASSUME NEW u \in Learner!Under PROVE FALSE
    OBVIOUS
  <2>1. Learner!Learns(u) <=> IsLearner(u)
    BY <1>2 DEF Learner!Learns, IsLearner
  <2>2. CASE task.pc = "find"
    <3>1. mixed' = mixed \cup Learner!Mixed \cup Learner!Hurried(task.pair)
      BY <2>2 DEF UserBegins
    <3>2. "mixed" \notin Learner!Mixed /\ "hurried" \notin Learner!Hurried(task.pair)
      BY <3>1 DEF Calm
    <3>3. Learner!Learns(u)
      BY <3>2 DEF Learner!Mixed
    <3>4. "hurried" \in Learner!Hurried(task.pair)
      BY <3>3 DEF Learner!Hurried
    <3> QED
      BY <3>2, <3>4
  <2>3. CASE task.pc = "guard"
    <3>1. mixed' = mixed \cup Learner!Mixed
      BY <2>3 DEF UserBegins
    <3>2. "mixed" \notin Learner!Mixed
      BY <3>1 DEF Calm
    <3>3. Learner!Learns(n)
      BY <1>2, <3>2 DEF Learner!Mixed
    <3>4. IsLearner(n)'
      BY <3>3 DEF Learner!Learns, IsLearner
    <3> QED
      BY <1>4, <2>3, <3>4
  <2> QED
    BY <1>1, <2>2, <2>3
<1>6. CASE task.pc = "find"
  <2>1. words \in Seq(Begun) /\ Begun \subseteq Begun'
    BY <1>1, LearnerStays DEF LearnTypes
  <2>2. words' # <<>> /\ Learner!Last(words') = n
    <3>1. PICK e \in Begun' : e = n
      BY <1>2
    <3>2. Append(words, e) # <<>> /\ Learner!Last(Append(words, e)) = e
      BY <2>1, WordAdded
    <3> QED
      BY <1>3, <1>6, <3>1, <3>2
  <2>3. LearnerFits(n)'
    BY <1>2, <1>6, <2>2 DEF LearnerFits
  <2> QED
    BY <1>1, <1>2, <1>4, <1>5, <1>6, <1>n, <2>3 DEF LastFits
<1>7. CASE task.pc = "guard"
  <2>1. ASSUME flag, task.of # 0
        PROVE  task.of = n - 1 /\ NewIsLast(n - 1)'
    <3>1. PICK l \in Begun : l = Len(tasks) /\ l = n - 1
      BY <1>n, <2>1, LearnFacts DEF LastFits
    <3>2. tasks[l].pc = "done"
      BY <1>5, LearnFacts
    <3>3. IsLearner(l)
      <4>1. ~IsLearner(l) => RemoverFits(l)
        BY <3>1 DEF LastFits
      <4> QED
        BY <2>1, <3>2, <4>1 DEF RemoverFits, Learner!At
    <3>4. LearnerFits(l)
      BY <3>1, <3>3 DEF LastFits
    <3>5. task.of = l
      BY <1>3, <1>7, <2>1, <3>4 DEF LearnerFits
    <3>6. NewIsLast(l)
      BY <3>2, <3>4 DEF LearnerFits
    <3>7. NewIsLast(l)'
      BY <1>1, <1>2, <3>6, NewStays
    <3> QED
      BY <3>1, <3>5, <3>7
  <2>2. RemoverFits(n)'
    BY <1>1, <1>2, <1>7, <2>1 DEF RemoverFits, Learner!At
  <2> QED
    BY <1>1, <1>2, <1>4, <1>5, <1>7, <1>n, <2>2 DEF LastFits
<1> QED
  BY <1>1, <1>6, <1>7

(* A word is learned.                                                      *)
LEMMA LearnerLast ==
    ASSUME LearnTypes, LearnTypes', TasksFit, TwiceFits, NEW t \in Begun, IsLearner(t), LearnerFits(t),
           Learner!Step(t)
    PROVE  LearnerFits(t)' /\ hits' = hits
<1>1. PICK pc, row, count : Moves(t, pc, row, count) /\ Advance(t, pc, row) /\ words' = words
  BY StepMoves
<1>2. TaskFits(t) /\ tasks'[t].pc = pc /\ tasks'[t].row = row /\ tasks'[t].pair = tasks[t].pair
  BY <1>1 DEF TasksFit, Moves
<1>3. tasks[t].pc \in {"find", "update", "insert", "flag"}
  BY <1>1, <1>2 DEF TaskFits, Advance, Learner!At
<1>4. hits' = hits
  <2>1. ~Learner!Change(t)
    BY <1>3 DEF Learner!Change, Learner!At
  <2> QED
    BY <2>1, ReadRows DEF Learner!Step, Reads, Learner!Update, Learner!Insert
<1>5. CASE Learner!At(t, "find")
  <2>1. pc \in {"insert", "update"}
    BY <1>1, <1>5 DEF Advance, Learner!At
  <2> QED
    BY <1>1, <1>2, <1>4, <2>1 DEF LearnerFits
<1>6. CASE Learner!At(t, "update")
  <2>1. row # 0
    BY <1>1, <1>2, <1>6 DEF Advance, Learner!At, TaskFits
  <2> QED
    BY <1>1, <1>2, <1>4, <2>1 DEF LearnerFits, NewIsLast
<1>7. CASE Learner!At(t, "insert")
  <2>1. Learner!Insert(t)
    BY <1>7, StepIs
  <2>2. PICK n : n = Learner!LastRow + 1
    OBVIOUS
  <2>3. /\ n \notin DOMAIN rows /\ DOMAIN rows' = DOMAIN rows \cup {n}
        /\ \A r \in DOMAIN rows : rows'[r] = rows[r]
    BY <2>1, <2>2, InsertRows
  <2>4. Learner!RowsOf(tasks[t].pair) = {}
    <3>1. t \in Learner!Under
      BY <1>3, LearnFacts
    <3> QED
      BY <1>7, <3>1 DEF TwiceFits
  <2>5. Learner!LastRow' = n
    <3>1. Learner!LastRow \in Nat /\ \A r \in DOMAIN rows : r <= Learner!LastRow
      BY LastRowIs, LearnFacts
    <3>2. Learner!LastRow' \in Nat /\ n <= Learner!LastRow' /\ (Learner!LastRow' # 0
            => Learner!LastRow' \in DOMAIN rows')
      BY <2>3, LastRowNext
    <3> QED
      BY <2>2, <2>3, <3>1, <3>2
  <2>6. Learner!RowsOf(tasks[t].pair)' \subseteq {n}
    <3>1. Learner!RowsOf(tasks[t].pair)' = {r \in DOMAIN rows' : rows'[r].pair = tasks[t].pair}
      BY <1>2 DEF Learner!RowsOf
    <3> QED
      BY <2>3, <2>4, <3>1 DEF Learner!RowsOf
  <2> QED
    BY <1>1, <1>4, <2>5, <2>6 DEF LearnerFits, NewIsLast
<1>8. CASE Learner!At(t, "flag")
  <2>1. Learner!SetFlag(t)
    BY <1>8, StepIs
  <2>2. rows' = rows /\ row = tasks[t].row
    BY <1>1, <1>8, <2>1 DEF Learner!SetFlag, Advance, Learner!At
  <2>3. NewIsLast(t)
    BY <1>8 DEF LearnerFits, Learner!At
  <2>4. NewIsLast(t)'
    BY <1>2, <2>2, <2>3, NewStays
  <2> QED
    BY <1>1, <1>4, <2>4 DEF LearnerFits
<1> QED
  BY <1>3, <1>5, <1>6, <1>7, <1>8 DEF Learner!At

(* A word is taken back.                                                   *)
LEMMA RemoverLast ==
    ASSUME LearnTypes, LearnTypes', TasksFit, NEW t \in Begun, ~IsLearner(t), RemoverFits(t),
           \A h \in hits : h.pair = h.wanted, Learner!Step(t), Calm'
    PROVE  RemoverFits(t)' /\ \A h \in hits' : h.pair = h.wanted
<1>1. PICK pc, row, count : Moves(t, pc, row, count) /\ Advance(t, pc, row)
  BY StepMoves
<1>2. /\ TaskFits(t) /\ tasks'[t].pc = pc /\ tasks'[t].row = row /\ tasks'[t].pair = tasks[t].pair
      /\ tasks'[t].of = tasks[t].of
  BY <1>1 DEF TasksFit, Moves
<1>3. tasks[t].pc \in {"guard", "max", "count", "change", "clear"}
  BY <1>1, <1>2 DEF TaskFits, Advance, Learner!At
<1>4. CASE Learner!At(t, "guard")
  <2>1. Learner!Guard(t)
    BY <1>4, StepIs
  <2>2. /\ UNCHANGED <<rows, flag, hits>> /\ pc = (IF flag THEN "max" ELSE "done")
        /\ mixed' = mixed \cup (IF flag THEN Learner!Older(t) ELSE {})
    <3>1. Learner!Then(t, IF flag THEN "max" ELSE "done")
      BY <2>1 DEF Learner!Guard
    <3>2. tasks'[t].pc = IF flag THEN "max" ELSE "done"
      BY <3>1, LearnFacts DEF Learner!Then, Begun, TaskRecord
    <3> QED
      BY <1>2, <2>1, <3>2 DEF Learner!Guard
  <2>3. CASE ~flag
    <3>1. pc = "done" /\ ~flag'
      BY <2>2, <2>3
    <3> QED
      BY <1>2, <2>2, <3>1 DEF RemoverFits, Learner!At
  <2>4. CASE flag
    <3>1. "older" \notin Learner!Older(t) /\ "taken" \notin Learner!Older(t)
      BY <2>2, <2>4 DEF Calm
    <3>2. tasks[t].of # 0 /\ tasks[tasks[t].of].row = 0 /\ Learner!RowsOf(tasks[tasks[t].of].pair) # {}
      BY <3>1 DEF Learner!Older
    <3>3. NewIsLast(tasks[t].of)
      BY <1>4, <2>4, <3>2 DEF RemoverFits
    <3>4. tasks[tasks[t].of].pair = tasks[t].pair
      BY <1>2, <3>2 DEF TaskFits
    <3>5. Learner!LastRow \in Learner!RowsOf(tasks[t].pair)
      BY <3>2, <3>3, <3>4 DEF NewIsLast
    <3>6. Learner!LastRow # 0
      BY <3>5, RowFields DEF Learner!RowsOf
    <3>7. Learner!LastRow' = Learner!LastRow /\ Learner!RowsOf(tasks[t].pair)' = Learner!RowsOf(tasks[t].pair)
      BY <1>2, <2>2 DEF Learner!LastRow, Learner!RowsOf
    <3>8. pc = "max"
      BY <2>2, <2>4
    <3> QED
      BY <1>2, <2>2, <3>5, <3>6, <3>7, <3>8 DEF RemoverFits, Learner!At
  <2> QED
    BY <2>3, <2>4
<1>5. CASE Learner!At(t, "max")
  <2>1. Learner!MaxRowId(t)
    BY <1>5, StepIs
  <2>2. UNCHANGED <<rows, flag, hits>>
    BY <2>1 DEF Learner!MaxRowId
  <2>3. Learner!LastRow \in Nat /\ Learner!LastRow # 0 /\ Learner!LastRow \in Learner!RowsOf(tasks[t].pair)
    BY <1>5, LastRowIs, LearnFacts DEF RemoverFits
  <2>4. pc = "count" /\ row = Learner!LastRow
    <3>1. tasks'[t].pc = "count" /\ tasks'[t].row = Learner!LastRow
      BY <2>1, <2>3, MaxMoves DEF Moves
    <3> QED
      BY <1>2, <3>1
  <2>5. Learner!RowsOf(tasks[t].pair)' = Learner!RowsOf(tasks[t].pair)
    BY <1>2, <2>2 DEF Learner!RowsOf
  <2> QED
    BY <1>2, <2>2, <2>3, <2>4, <2>5 DEF RemoverFits, Learner!At
<1>6. CASE Learner!At(t, "count")
  <2>1. Learner!Count(t)
    BY <1>6, StepIs
  <2>2. UNCHANGED <<rows, flag, hits>> /\ pc = "change" /\ row = tasks[t].row
    BY <1>1, <1>6, <2>1 DEF Learner!Count, Advance, Learner!At
  <2>3. tasks[t].row \in Learner!RowsOf(tasks[t].pair)
    BY <1>6 DEF RemoverFits, Learner!At
  <2>4. Learner!RowsOf(tasks[t].pair)' = Learner!RowsOf(tasks[t].pair)
    BY <1>2, <2>2 DEF Learner!RowsOf
  <2> QED
    BY <1>2, <2>2, <2>3, <2>4 DEF RemoverFits, Learner!At
<1>7. CASE Learner!At(t, "change")
  <2>1. Learner!Change(t)
    BY <1>7, StepIs
  <2>2. tasks[t].row \in DOMAIN rows /\ rows[tasks[t].row].pair = tasks[t].pair
    BY <1>7 DEF RemoverFits, Learner!At, Learner!RowsOf
  <2>3. hits' = hits \cup {[pair |-> rows[tasks[t].row].pair, wanted |-> tasks[t].pair]}
    BY <2>1, <2>2, ChangeRows
  <2>4. pc = "clear"
    BY <1>1, <1>7 DEF Advance, Learner!At
  <2> QED
    BY <1>2, <2>2, <2>3, <2>4 DEF RemoverFits, Learner!At
<1>8. CASE Learner!At(t, "clear")
  <2>1. Learner!ClearFlag(t)
    BY <1>8, StepIs
  <2>2. hits' = hits /\ ~flag' /\ pc = "done"
    BY <1>1, <1>8, <2>1 DEF Learner!ClearFlag, Advance, Learner!At
  <2> QED
    BY <1>2, <2>2 DEF RemoverFits, Learner!At
<1> QED
  BY <1>3, <1>4, <1>5, <1>6, <1>7, <1>8 DEF Learner!At

LEMMA LastStep ==
    ASSUME LearnTypes, LearnTypes', TasksFit, TwiceInv, LastInv, [Learner!Next]_(Learner!vars)
    PROVE  LastInv'
<1> SUFFICES ASSUME Calm' PROVE LastFits'
  BY DEF LastInv
<1>1. CASE UNCHANGED Learner!vars
  <2>1. LastFits
    BY <1>1 DEF Learner!vars, LastInv, Calm
  <2> QED
    BY <1>1, <2>1 DEF Learner!vars, LastFits, LearnerFits, RemoverFits, NewIsLast, Learner!LastRow,
       Learner!RowsOf, Learner!Under, Begun, IsLearner, Learner!At
<1>2. CASE (\E p \in Learned : Learner!InsertText(p)) \/ Learner!Delete \/ Learner!DoTraceback
  <2>1. PICK task : UserBegins(task)
    BY <1>2, UserTasks
  <2>2. LastFits
    BY <2>1 DEF UserBegins, LastInv, Calm
  <2> QED
    BY <2>1, <2>2, LastBegins
<1>3. ASSUME NEW p \in Learned, Learner!RemoveFromThinkDB(p) PROVE LastFits'
  <2>1. /\ DOMAIN rows' \subseteq DOMAIN rows /\ \A r \in DOMAIN rows' : rows'[r] = rows[r]
        /\ UNCHANGED <<flag, tasks, words, hits>>
        /\ mixed' = mixed \cup {c \in {"mixed"} : Learner!Under # {}}
    BY <1>3, RemoveRows
  <2>2. LastFits /\ Learner!Under = {}
    BY <2>1 DEF LastInv, Calm
  <2>3. Learner!Under' = Learner!Under /\ Begun' = Begun /\ \A u : IsLearner(u)' <=> IsLearner(u)
    BY <2>1 DEF Learner!Under, Begun, IsLearner, Learner!At
  <2>4. ASSUME NEW u \in Begun, u = Len(tasks)
        PROVE  IF IsLearner(u) THEN LearnerFits(u)' ELSE RemoverFits(u)'
    <3>1. tasks[u].pc = "done"
      BY <2>2, LearnFacts
    <3>2. CASE IsLearner(u)
      <4>1. LearnerFits(u)
        BY <2>2, <2>4, <3>2 DEF LastFits
      <4>2. NewIsLast(u)
        BY <3>1, <4>1 DEF LearnerFits
      <4>3. NewIsLast(u)'
        BY <2>1, <4>2, NewStays
      <4> QED
        BY <2>1, <3>2, <4>1, <4>3 DEF LearnerFits
    <3>3. CASE ~IsLearner(u)
      <4>1. RemoverFits(u)
        BY <2>2, <2>4, <3>3 DEF LastFits
      <4> QED
        BY <2>1, <3>1, <3>3, <4>1 DEF RemoverFits, Learner!At
    <3> QED
      BY <3>2, <3>3
  <2> QED
    BY <2>1, <2>2, <2>3, <2>4 DEF LastFits
<1>4. ASSUME NEW t \in Begun, Learner!Step(t) PROVE LastFits'
  <2>1. PICK pc, row, count : Moves(t, pc, row, count) /\ Advance(t, pc, row)
    BY <1>4, StepMoves
  <2>2. mixed' \in {mixed, mixed \cup Learner!Older(t)}
    BY <1>4, StepCauses
  <2>3. LastFits /\ TwiceFits
    BY <2>2 DEF LastInv, Calm, TwiceInv, TasksFit
  <2>4. t \in Learner!Under /\ Learner!Under' \subseteq Learner!Under \cup {t}
    BY <2>1, UnderMoves, LearnFacts DEF Advance, Learner!At
  <2>5. t = Len(tasks) /\ Len(tasks') = Len(tasks) /\ t # 0
    BY <2>1, <2>3, <2>4, LearnFacts DEF LastFits, Moves
  <2>6. Begun' = Begun /\ \A u \in Begun : IsLearner(u)' <=> IsLearner(u)
    BY <2>1, LearnerMoves
  <2>7. CASE IsLearner(t)
    <3>1. LearnerFits(t)
      BY <2>3, <2>5, <2>7 DEF LastFits
    <3>2. LearnerFits(t)' /\ hits' = hits
      BY <1>4, <2>3, <2>7, <3>1, LearnerLast
    <3> QED
      BY <2>3, <2>4, <2>5, <2>6, <2>7, <3>2 DEF LastFits
  <2>8. CASE ~IsLearner(t)
    <3>1. RemoverFits(t) /\ \A h \in hits : h.pair = h.wanted
      BY <2>3, <2>5, <2>8 DEF LastFits
    <3>2. RemoverFits(t)' /\ \A h \in hits' : h.pair = h.wanted
      BY <1>4, <2>8, <3>1, RemoverLast
    <3> QED
      BY <2>3, <2>4, <2>5, <2>6, <2>8, <3>2 DEF LastFits
  <2> QED
    BY <2>7, <2>8
<1> QED
  BY <1>1, <1>2, <1>3, <1>4 DEF Learner!Next, Begun

-----------------------------------------------------------------------------
(* What is learned is right                                                *)

LEMMA LearnBegins ==
    ASSUME Learner!Init
    PROVE  LearnInv
<1>1. /\ rows = <<>> /\ flag = FALSE /\ tasks = <<>> /\ words = <<>>
      /\ evidence = [p \in Learned |-> 0] /\ hits = {} /\ mixed = {}
  BY DEF Learner!Init
<1>2. DOMAIN rows = {} /\ Begun = {} /\ Learner!Under = {} /\ Len(tasks) = 0 /\ DOMAIN words = {}
  BY <1>1, EmptySeq DEF Begun, Learner!Under
<1>3. MaxTask \in Nat
  BY PartsAssumption DEF Learner!TaskAssumption
<1>4. LearnTypes
  <2>1. tasks \in Seq(TaskRecord) /\ words \in Seq(Begun)
    BY <1>1, EmptySeq
  <2>2. evidence \in [Learned -> Int]
    BY <1>1
  <2>3. flag \in BOOLEAN
    BY <1>1
  <2> QED
    BY <1>1, <1>2, <1>3, <2>1, <2>2, <2>3 DEF LearnTypes
<1>5. TasksFit /\ TwiceFits
  BY <1>1, <1>2 DEF TasksFit, TwiceFits
<1>6. AloneFits /\ (\A t \in Learner!Under : StillThere(t)) /\ Weighed
  <2>1. \A p : Learner!RowsOf(p) = {}
    BY <1>2 DEF Learner!RowsOf
  <2>2. ASSUME NEW p \in Learned PROVE Total(rows, Learner!RowsOf(p)) = evidence[p]
    BY <1>1, <2>1, TotalEmpty
  <2> QED
    BY <1>2, <2>2 DEF AloneFits, Weighed
<1>7. LastFits
  BY <1>1, <1>2 DEF LastFits
<1> QED
  BY <1>4, <1>5, <1>6, <1>7 DEF LearnInv, TwiceInv, MixedInv, LastInv

LEMMA LearnStep ==
    ASSUME LearnInv, [Learner!Next]_(Learner!vars)
    PROVE  LearnInv'
<1>1. LearnTypes'
  BY LearnTypesStep DEF LearnInv
<1>2. TasksFit' /\ TwiceInv' /\ MixedInv'
  BY TasksFitStep, TwiceStep, MixedStep DEF LearnInv
<1>3. LastInv'
  BY <1>1, LastStep DEF LearnInv
<1> QED
  BY <1>1, <1>2, <1>3 DEF LearnInv

LEMMA SameSize == \A S : Learner!Cardinality(S) = Cardinality(S)
  BY DEF Learner!Cardinality, Cardinality

LEMMA LearnIsRight ==
    ASSUME LearnInv
    PROVE  Learner!TypeOK /\ Learner!OneRow /\ Learner!CountsRight /\ Learner!UndoesTheLast
<1>1. Learner!TypeOK
  <2>1. /\ Begun = DOMAIN tasks /\ DOMAIN tasks = 1..Len(tasks) /\ Len(tasks) <= MaxTask
        /\ \A t \in DOMAIN tasks : tasks[t] \in TaskRecord
    BY LearnFacts DEF LearnInv, LearnTypes, Begun
  <2>2. \A t \in DOMAIN tasks :
          /\ tasks[t].pc \in Learner!Pcs /\ tasks[t].pair \in Learned \cup {NoPair}
               /\ tasks[t].row \in Learner!RowIds \cup {0}
          /\ tasks[t].count \in -MaxTask..MaxTask /\ tasks[t].main \in BOOLEAN
          /\ tasks[t].of \in 0..MaxTask
    BY <2>1 DEF TaskRecord
  <2>3. \A h \in hits : h.pair \in Learned /\ h.wanted \in Learned \cup {NoPair}
    BY DEF LearnInv, LearnTypes
  <2> QED
    BY <2>1, <2>2, <2>3 DEF LearnInv, LearnTypes, Learner!TypeOK
<1>2. Learner!OneRow
  <2> SUFFICES ASSUME "twice" \notin mixed, NEW p \in Learned PROVE Cardinality(Learner!RowsOf(p)) <= 1
    BY SameSize DEF Learner!OneRow, Learner!Unless
  <2>1. \A r, s \in Learner!RowsOf(p) : r = s
    BY DEF LearnInv, TwiceInv, TwiceFits, Learner!RowsOf
  <2>2. CASE Learner!RowsOf(p) = {}
    BY <2>2, FS_EmptySet
  <2>3. CASE Learner!RowsOf(p) # {}
    <3>1. PICK r : Learner!RowsOf(p) = {r}
      BY <2>1, <2>3
    <3> QED
      BY <3>1, FS_Singleton
  <2> QED
    BY <2>2, <2>3
<1>3. Learner!CountsRight
  <2> SUFFICES ASSUME "mixed" \notin mixed
               PROVE  \A p \in Learned : Total(rows, Learner!RowsOf(p)) = evidence[p]
                                      /\ \A r \in DOMAIN rows : rows[r].count >= 0
    BY DEF Learner!CountsRight, Learner!Unless, Total
  <2> QED
    BY DEF LearnInv, MixedInv, Weighed
<1>4. Learner!UndoesTheLast
  BY DEF LearnInv, LastInv, LastFits, Calm, Learner!UndoesTheLast, Learner!Unless
<1> QED
  BY <1>1, <1>2, <1>3, <1>4

(* No pair has two rows, the rows weigh the pairs by how often they were   *)
(* learned and not taken back, and a deletion takes out what it deletes,   *)
(* but for the causes named: for any pairs and any number of words and     *)
(* deletions.                                                              *)
THEOREM LearnStays == Learner!Spec
  => [](Learner!TypeOK /\ Learner!OneRow /\ Learner!CountsRight /\ Learner!UndoesTheLast)
<1>1. Learner!Init => LearnInv
  BY LearnBegins
<1>2. LearnInv /\ [Learner!Next]_(Learner!vars) => LearnInv'
  BY LearnStep
<1>3. LearnInv => Learner!TypeOK /\ Learner!OneRow /\ Learner!CountsRight /\ Learner!UndoesTheLast
  BY LearnIsRight
<1> QED
  BY <1>1, <1>2, <1>3, PTL DEF Learner!Spec

(* The same of the learning that MCInput runs, whichever part moves.       *)
THEOREM LearnedStaysRight == Parts => []LearnedRight
<1>1. PartsInit => LearnInv
  BY LearnBegins DEF PartsInit
<1>2. [PartsNext]_<<part, typing, searching, learning>> => [Learner!Next]_(Learner!vars)
  BY DEF PartsNext, learning, Learner!vars
<1>3. LearnInv => LearnedRight
  BY LearnIsRight DEF LearnedRight
<1>. QED
  BY <1>1, <1>2, <1>3, LearnStep, PTL DEF Parts

=============================================================================
