----------------------------- MODULE SocketLayer -----------------------------
(***************************************************************************)
(* The keyboard's instant-messaging connection: SocketLayer.swift (one     *)
(* GCDAsyncSocket whose delegate queue is the main queue), the login       *)
(* sequence of ChatEngine.swift that drives it, and the two NetLayer       *)
(* requests that sequence needs.  Three threads touch the same fields:     *)
(*                                                                         *)
(*   - the main queue runs the socket's delegate calls, the heartbeat      *)
(*     timer and the user's sends, and blocks inside connect2Server when   *)
(*     it reconnects;                                                      *)
(*   - a global-queue thread per appearance of the keyboard runs           *)
(*     ChatEngine.login;                                                   *)
(*   - the completion queue of URLSession.shared, which is serial, runs    *)
(*     every NetLayer callback, and blocks inside connect2Server when the  *)
(*     fallback login runs there.                                          *)
(*                                                                         *)
(* One platform is modelled: the keyboard runs inside one host app.        *)
(***************************************************************************)
EXTENDS Integers, Sequences

CONSTANTS
    Attempts,    \* the appearances of the keyboard, each starts one login
    Verdicts,    \* results the server may give to a login request
    MaxConn,     \* bound: connections the socket ever opens
    MaxRelogin,  \* bound: reconnects started by the main queue
    MaxOut       \* bound: frames waiting in the socket's write queue

ASSUME AttemptsAssumption == {"main", "none"} \cap Attempts = {}
ASSUME VerdictsAssumption == Verdicts \subseteq BOOLEAN
ASSUME BoundsAssumption   == MaxConn \in Nat /\ MaxRelogin \in Nat /\ MaxOut \in Nat

VARIABLES
    sock,        \* GCDAsyncSocket: "idle", "connecting" or "connected"
    conn,        \* number of the latest connection, 0 before the first
    outQ,        \* frames accepted by the socket and not yet on the wire
    inQ,         \* login responses of the server not yet read
    mainQ,       \* blocks queued on the main queue
    main,        \* what the main queue is doing
    relogins,    \* reconnects the main queue has started
    session,     \* SocketLayer.session
    sessionUser, \* SocketLayer.sessionUser # nil
    callback,    \* SocketLayer.callback: whose closure it is, or "none"
    timer,       \* SocketLayer.heartBeatTimer # nil
    att,         \* control point of each login attempt
    token,       \* NetLayer.sessionUser(for: platform) # nil
    inflight,    \* HTTP requests not answered yet
    granted,     \* connect2Server calls whose semaphore was signalled
    netBusy,     \* the attempt whose callback blocks the completion queue
    fired,       \* history: how often each attempt's closure was called
    loginOn,     \* history: connections a login request was written to
    lateConn     \* history: connections opened for a call that had given up

sockVars == <<sock, conn, outQ, inQ>>
layer    == <<session, sessionUser, callback, timer>>
netVars  == <<token, inflight, granted, netBusy>>
history  == <<fired, loginOn, lateConn>>
vars     == <<sockVars, mainQ, main, relogins, layer, att, netVars, history>>

(***************************************************************************)
(* A session is named by the connection it was given on and by whether the *)
(* response carried result = true; connection 0 stands for nil.            *)
(***************************************************************************)
Session   == [conn : 0..MaxConn, ok : BOOLEAN]
NoSession == [conn |-> 0, ok |-> FALSE]

Frame == [type : {"login", "heartbeat", "message"}, sess : Session]

Event == [ev : {"connected", "watchDog"}]
         \cup [ev : {"disconnected"}, err : BOOLEAN]
         \cup [ev : {"loginResponse"}, sess : Session]

(* A call of connect2Server: by an attempt's own thread, by the completion *)
(* queue on its behalf, or the n-th call by the main queue.                *)
Call    == {<<l, k>> : l \in Attempts, k \in {"thread", "net"}}
           \cup {<<"main", n>> : n \in 1..MaxRelogin}
Request == {<<k, l>> : k \in {"login", "info"}, l \in Attempts}
           \cup {<<"server", c>> : c \in Call}

AttState  == {"off", "await", "tokenReq", "infoReq", "netAwait", "done"}
MainState == {"free", "clear", "await"}

TypeOK ==
    /\ sock \in {"idle", "connecting", "connected"}
    /\ conn \in 0..MaxConn
    /\ outQ \in Seq(Frame)
    /\ inQ \in Seq(Session)
    /\ mainQ \in Seq(Event)
    /\ main \in MainState
    /\ relogins \in 0..MaxRelogin
    /\ session \in Session
    /\ sessionUser \in BOOLEAN
    /\ callback \in Attempts \cup {"none"}
    /\ timer \in BOOLEAN
    /\ att \in [Attempts -> AttState]
    /\ token \in BOOLEAN
    /\ inflight \subseteq Request
    /\ granted \subseteq Call
    /\ netBusy \in Attempts \cup {"none"}
    /\ fired \in [Attempts -> Nat]
    /\ loginOn \subseteq 1..MaxConn
    /\ lateConn \subseteq 1..MaxConn

(* A fresh process; a token may be left over from an earlier one.          *)
Init ==
    /\ sock = "idle" /\ conn = 0 /\ outQ = <<>> /\ inQ = <<>>
    /\ mainQ = <<>> /\ main = "free" /\ relogins = 0
    /\ session = NoSession /\ sessionUser = FALSE
    /\ callback = "none" /\ timer = FALSE
    /\ att = [l \in Attempts |-> "off"]
    /\ token \in BOOLEAN
    /\ inflight = {} /\ granted = {} /\ netBusy = "none"
    /\ fired = [l \in Attempts |-> 0] /\ loginOn = {} /\ lateConn = {}

-----------------------------------------------------------------------------
(* GCDAsyncSocket, as SocketLayer uses it.                                 *)

(* write(_:withTimeout:tag:) is ignored by a socket that was not started.  *)
Write(f) ==
    outQ' = IF sock = "idle" THEN outQ ELSE Append(outQ, f)

(* The connection comes up; the delegate hears of it on the main queue.    *)
SocketUp ==
    /\ sock = "connecting"
    /\ sock' = "connected"
    /\ mainQ' = Append(mainQ, [ev |-> "connected"])
    /\ UNCHANGED <<conn, outQ, inQ, main, relogins, layer, att, netVars, history>>

(* The connection fails, or is lost with everything queued on it.          *)
SocketError ==
    /\ sock # "idle"
    /\ sock' = "idle" /\ outQ' = <<>> /\ inQ' = <<>>
    /\ mainQ' = Append(mainQ, [ev |-> "disconnected", err |-> TRUE])
    /\ UNCHANGED <<conn, main, relogins, layer, att, netVars, history>>

(* The next frame goes out; the server may answer a login request.         *)
Transmit ==
    /\ sock = "connected" /\ outQ # <<>>
    /\ outQ' = Tail(outQ)
    /\ \/ /\ Head(outQ).type = "login"
          /\ \E ok \in Verdicts : inQ' = Append(inQ, [conn |-> conn, ok |-> ok])
       \/ UNCHANGED inQ
    /\ UNCHANGED <<sock, conn, mainQ, main, relogins, layer, att, netVars, history>>

(* socket(_:didRead:): a read that holds exactly one frame is parsed; one  *)
(* that holds two, or part of one, fails the length test and is dropped.   *)
Read ==
    /\ inQ # <<>>
    /\ inQ' = Tail(inQ)
    /\ \/ mainQ' = Append(mainQ, [ev |-> "loginResponse", sess |-> Head(inQ)])
       \/ UNCHANGED mainQ
    /\ UNCHANGED <<sock, conn, outQ, main, relogins, layer, att, netVars, history>>

-----------------------------------------------------------------------------
(* connect2Server, in two steps around the wait on its semaphore.          *)

(* Mutant: the delegate is detached before disconnecting.                  *)
DropSilently(q) ==
    mainQ' = q /\ IF sock = "connected"
                  THEN sock' = "idle" /\ outQ' = <<>> /\ inQ' = <<>>
                  ELSE UNCHANGED <<sock, outQ, inQ>>

(* A connected socket is disconnected first; no error is reported for it.   *)
DropConnection(q) ==
    IF sock = "connected"
    THEN /\ sock' = "idle" /\ outQ' = <<>> /\ inQ' = <<>>
         /\ mainQ' = Append(q, [ev |-> "disconnected", err |-> FALSE])
    ELSE mainQ' = q /\ UNCHANGED <<sock, outQ, inQ>>

(* Then the server's address is asked for; without a session user          *)
(* getIMServerInfo fails at once and the semaphore is never signalled.     *)
AskServer(c, hasToken, requests) ==
    inflight' = IF hasToken THEN requests \cup {<<"server", c>>} ELSE requests

(* The caller still waits for the answer to call c.                        *)
Waiting(c) ==
    \/ c[1] = "main" /\ main = "await" /\ c[2] = relogins
    \/ c[1] \in Attempts /\ c[2] = "thread" /\ att[c[1]] = "await"
    \/ c[1] \in Attempts /\ c[2] = "net" /\ att[c[1]] = "netAwait"

(* The answer to getIMServerInfo, delivered on the completion queue:       *)
(* connect throws, and is ignored, unless the socket is idle.              *)
ServerInfoReply(c) ==
    /\ netBusy = "none" /\ <<"server", c>> \in inflight
    /\ inflight' = inflight \ {<<"server", c>>}
    /\ \/ UNCHANGED <<sock, conn, granted, lateConn>>
       \/ /\ granted' = granted \cup {c}
          /\ IF sock = "idle"
             THEN /\ conn < MaxConn
                  /\ sock' = "connecting" /\ conn' = conn + 1
                  /\ lateConn' = IF Waiting(c) THEN lateConn
                                               ELSE lateConn \cup {conn + 1}
             ELSE UNCHANGED <<sock, conn, lateConn>>
    /\ UNCHANGED <<outQ, inQ, mainQ, main, relogins, layer, att, token,
                   netBusy, fired, loginOn>>

(* SocketLayer.login: remember the closure and the user, write the request.*)
Login(cb) ==
    /\ callback' = cb /\ sessionUser' = TRUE
    /\ Write([type |-> "login", sess |-> NoSession])
    /\ loginOn' = IF sock = "idle" THEN loginOn ELSE loginOn \cup {conn}
    /\ UNCHANGED <<sock, conn, inQ, session, timer>>

-----------------------------------------------------------------------------
(* ChatEngine.login, run by the thread of one appearance of the keyboard.  *)

(* loginUser needs the platform's key pair, which may be missing.          *)
Fallback(l, requests) ==
    \/ /\ att' = [att EXCEPT ![l] = "tokenReq"]
       /\ inflight' = requests \cup {<<"login", l>>}
    \/ att' = [att EXCEPT ![l] = "done"] /\ inflight' = requests

Appear(l) ==
    /\ att[l] = "off"
    /\ IF token
       THEN /\ att' = [att EXCEPT ![l] = "await"]
            /\ DropConnection(mainQ) /\ AskServer(<<l, "thread">>, token, inflight)
            /\ UNCHANGED conn
       ELSE Fallback(l, inflight) /\ UNCHANGED <<sockVars, mainQ>>
    /\ UNCHANGED <<main, relogins, layer, token, granted, netBusy, history>>

(* Mutant: the attempt logs in only if the connection is already up.       *)
LoginIfConnected(l) ==
    /\ att[l] = "await" /\ <<l, "thread">> \in granted
    /\ IF sock = "connected" THEN Login(l)
       ELSE UNCHANGED <<sockVars, layer, loginOn>>
    /\ att' = [att EXCEPT ![l] = "done"]
    /\ UNCHANGED <<mainQ, main, relogins, netVars, fired, lateConn>>

(* connect2Server returned true.                                           *)
LoginGranted(l) ==
    /\ att[l] = "await" /\ <<l, "thread">> \in granted
    /\ Login(l)
    /\ att' = [att EXCEPT ![l] = "done"]
    /\ UNCHANGED <<mainQ, main, relogins, netVars, fired, lateConn>>

(* connect2Server timed out and returned false.                            *)
LoginTimeout(l) ==
    /\ att[l] = "await" /\ <<l, "thread">> \notin granted
    /\ Fallback(l, inflight)
    /\ UNCHANGED <<sockVars, mainQ, main, relogins, layer, token, granted,
                   netBusy, history>>

(* NetLayer.loginUser, first answer: the token is stored, then userInfo.   *)
TokenReply(l) ==
    /\ netBusy = "none" /\ <<"login", l>> \in inflight
    /\ \/ /\ att' = [att EXCEPT ![l] = "infoReq"] /\ token' = TRUE
          /\ inflight' = (inflight \ {<<"login", l>>}) \cup {<<"info", l>>}
       \/ /\ att' = [att EXCEPT ![l] = "done"] /\ UNCHANGED token
          /\ inflight' = inflight \ {<<"login", l>>}
    /\ UNCHANGED <<sockVars, mainQ, main, relogins, layer, granted, netBusy, history>>

(* Second answer: failure takes the session user away again; success runs  *)
(* connect2Server right there, on the completion queue.                    *)
InfoReply(l) ==
    /\ netBusy = "none" /\ <<"info", l>> \in inflight
    /\ \/ /\ att' = [att EXCEPT ![l] = "done"] /\ token' = FALSE
          /\ inflight' = inflight \ {<<"info", l>>}
          /\ UNCHANGED <<sockVars, mainQ, netBusy>>
       \/ /\ att' = [att EXCEPT ![l] = "netAwait"]
          /\ token' = TRUE /\ netBusy' = l
          /\ DropConnection(mainQ)
          /\ AskServer(<<l, "net">>, TRUE, inflight \ {<<"info", l>>})
          /\ UNCHANGED conn
    /\ UNCHANGED <<main, relogins, layer, granted, history>>

(* Mutant: the wait has no timeout.                                        *)
NetResumeWhenGranted(l) ==
    /\ netBusy = l /\ att[l] = "netAwait" /\ <<l, "net">> \in granted
    /\ Login(l)
    /\ netBusy' = "none" /\ att' = [att EXCEPT ![l] = "done"]
    /\ UNCHANGED <<mainQ, main, relogins, token, inflight, granted, fired, lateConn>>

(* The wait ends, signalled or timed out: its result is ignored here.      *)
NetResume(l) ==
    /\ netBusy = l /\ att[l] = "netAwait"
    /\ Login(l)
    /\ netBusy' = "none" /\ att' = [att EXCEPT ![l] = "done"]
    /\ UNCHANGED <<mainQ, main, relogins, token, inflight, granted, fired, lateConn>>

-----------------------------------------------------------------------------
(* The main queue.                                                         *)

(* heartBeat(): without a session or a user the timer is invalidated.      *)
HeartBeat(s) ==
    IF s # NoSession /\ sessionUser
    THEN Write([type |-> "heartbeat", sess |-> s]) /\ UNCHANGED timer
    ELSE timer' = FALSE /\ UNCHANGED outQ

(* callback?(..) and, in a step of its own, callback = nil: the attempts'  *)
(* threads assign the same field without synchronisation.                  *)
FireCallback ==
    /\ fired' = IF callback \in Attempts
                THEN [fired EXCEPT ![callback] = @ + 1] ELSE fired
    /\ main' = "clear"

(* Mutant: the closure stays in its slot after it was called.              *)
KeepCallback ==
    /\ main = "clear"
    /\ main' = "free"
    /\ UNCHANGED <<sockVars, mainQ, relogins, layer, att, netVars, history>>

ClearCallback ==
    /\ main = "clear"
    /\ main' = "free" /\ callback' = "none"
    /\ UNCHANGED <<sockVars, mainQ, relogins, session, sessionUser, timer,
                   att, netVars, history>>

NextEvent(name) == main = "free" /\ mainQ # <<>> /\ Head(mainQ).ev = name

DidConnect ==
    /\ NextEvent("connected")
    /\ mainQ' = Tail(mainQ)
    /\ FireCallback
    /\ UNCHANGED <<sockVars, relogins, layer, att, netVars, loginOn, lateConn>>

DidReadLoginResponse ==
    /\ NextEvent("loginResponse")
    /\ session' = Head(mainQ).sess
    /\ HeartBeat(Head(mainQ).sess)
    /\ mainQ' = Append(Tail(mainQ), [ev |-> "watchDog"])
    /\ FireCallback
    /\ UNCHANGED <<sock, conn, inQ, relogins, sessionUser, callback, att,
                   netVars, loginOn, lateConn>>

(* Mutant: an installed timer is invalidated and not replaced.             *)
WatchDogToggles ==
    /\ NextEvent("watchDog")
    /\ mainQ' = Tail(mainQ) /\ timer' = ~timer
    /\ UNCHANGED <<sockVars, main, relogins, session, sessionUser, callback,
                   att, netVars, history>>

WatchDog ==
    /\ NextEvent("watchDog")
    /\ mainQ' = Tail(mainQ) /\ timer' = TRUE
    /\ UNCHANGED <<sockVars, main, relogins, session, sessionUser, callback,
                   att, netVars, history>>

(* socketDidDisconnect: after an error the main queue itself reconnects.   *)
DidDisconnect ==
    /\ NextEvent("disconnected")
    /\ session' = NoSession
    /\ IF Head(mainQ).err /\ sessionUser
       THEN /\ relogins < MaxRelogin
            /\ main' = "await" /\ relogins' = relogins + 1
            /\ AskServer(<<"main", relogins + 1>>, token, inflight)
            /\ DropConnection(Tail(mainQ))
       ELSE mainQ' = Tail(mainQ) /\ UNCHANGED <<sock, outQ, inQ, main, relogins, inflight>>
    /\ UNCHANGED <<conn, sessionUser, callback, timer, att, token, granted,
                   netBusy, history>>

(* The main queue's connect2Server ends, signalled or not; log in again.   *)
Relogin ==
    /\ main = "await"
    /\ Login("none")
    /\ main' = "free"
    /\ UNCHANGED <<mainQ, relogins, att, netVars, fired, lateConn>>

(* The 30 second timer.                                                    *)
Tick ==
    /\ main = "free" /\ timer /\ Len(outQ) < MaxOut
    /\ HeartBeat(session)
    /\ UNCHANGED <<sock, conn, inQ, mainQ, main, relogins, session,
                   sessionUser, callback, att, netVars, history>>

(* sendMessage past its guard; without a session nothing is written.       *)
SendMessage ==
    /\ main = "free" /\ session # NoSession /\ sessionUser /\ Len(outQ) < MaxOut
    /\ Write([type |-> "message", sess |-> session])
    /\ UNCHANGED <<sock, conn, inQ, mainQ, main, relogins, layer, att,
                   netVars, history>>

-----------------------------------------------------------------------------
Socket == SocketUp \/ SocketError \/ Transmit \/ Read
Net    == \/ \E c \in Call : ServerInfoReply(c)
          \/ \E l \in Attempts : TokenReply(l) \/ InfoReply(l) \/ NetResume(l)
Thread == \E l \in Attempts : Appear(l) \/ LoginGranted(l) \/ LoginTimeout(l)
MainQueue == \/ DidConnect \/ DidReadLoginResponse \/ WatchDog \/ DidDisconnect
             \/ ClearCallback \/ Relogin \/ Tick \/ SendMessage

Next == Socket \/ Net \/ Thread \/ MainQueue
Spec == Init /\ [][Next]_vars

(***************************************************************************)
(* Fairness: the threads and queues run, every wait of connect2Server ends *)
(* (answer or 10 second timeout), and URLSession calls every completion    *)
(* handler once, with an answer or with its own timeout.  Nothing is       *)
(* assumed of the user, of the server's verdict or of the connection.      *)
(***************************************************************************)
Fairness ==
    /\ \A l \in Attempts : /\ WF_vars(LoginGranted(l) \/ LoginTimeout(l))
                           /\ WF_vars(TokenReply(l))
                           /\ WF_vars(InfoReply(l))
                           /\ WF_vars(NetResume(l))
    /\ \A c \in Call : WF_vars(ServerInfoReply(c))
    /\ WF_vars(DidConnect \/ DidReadLoginResponse \/ WatchDog \/ DidDisconnect
                \/ ClearCallback \/ Relogin)

FairSpec == Spec /\ Fairness

-----------------------------------------------------------------------------
(* Properties.                                                             *)

(* A login attempt's closure is called at most once, although both the     *)
(* connection coming up and the login response call it, on whatever        *)
(* connection they belong to.                                              *)
CallbackAtMostOnce == \A l \in Attempts : fired[l] <= 1

(* Events still to come will clear the session.                            *)
DisconnectPending == \E i \in DOMAIN mainQ : mainQ[i].ev = "disconnected"

(* A session outlives its connection only until the disconnect event that  *)
(* is already queued on the main queue: a session of an older connection   *)
(* is never kept for good, however the three threads interleave.           *)
StaleSessionIsDoomed ==
    session # NoSession /\ ~(sock = "connected" /\ session.conn = conn)
        => DisconnectPending

(* While a session is set the heartbeat timer is installed, or the block   *)
(* that installs it is queued: no interleaving of an old timer's last tick *)
(* with a new login leaves a session without heartbeats.                   *)
LiveSessionIsBeating ==
    session # NoSession => timer \/ \E i \in DOMAIN mainQ : mainQ[i].ev = "watchDog"

(* Nobody is between connect2Server and the login request that follows.    *)
NobodyConnecting ==
    /\ main # "await" /\ ~DisconnectPending
    /\ \A l \in Attempts : att[l] \notin {"await", "netAwait"}

(* A connection on which nobody asked to log in, and nobody is about to,   *)
(* was opened by a server address that arrived after its caller gave up.   *)
SilentConnectionIsLate ==
    sock # "idle" /\ NobodyConnecting => conn \in loginOn \cup lateConn

(* Every login attempt ends: the main queue, the completion queue and the  *)
(* attempt's thread wait for one another but never for ever.               *)
AttemptsEnd == \A l \in Attempts : att[l] # "off" ~> att[l] = "done"

(* Every heartbeat is written after a login: its session was accepted by   *)
(* the server, on the connection it is written to (SocketLayer.swift:53).  *)
HeartbeatOnlyAfterLogin ==
    \A i \in DOMAIN outQ : outQ[i].type = "heartbeat" =>
        outQ[i].sess.ok /\ outQ[i].sess.conn = conn

=============================================================================
