------------------------- MODULE SessionStoreProofs -------------------------
(***************************************************************************)
(* Theorems about SessionStore for any platforms, any number of            *)
(* registrations and logins under way, and any bounds.                     *)
(***************************************************************************)
EXTENDS SessionStore, TLAPS

USE BoundAssumption DEF Providers, Registering, Kinds, Steps, Foreign

-----------------------------------------------------------------------------
(* Values of the types                                                     *)

LEMMA Cases ==
    /\ Len(AllCases) \in Nat /\ Len(AllCases) > 0
    /\ \A i \in 1..Len(AllCases) : AllCases[i] \in Platform
    /\ \A p \in Platform : \E i \in 1..Len(AllCases) : p = AllCases[i]
    /\ \A i, j \in 1..Len(AllCases) : AllCases[i] = AllCases[j] => i = j
    /\ AllCases[1] \in Platform
BY CasesAssumption DEF Platform

LEMMA Values ==
    /\ NoOne \in Session /\ Idle \in Jobs /\ NoFlow \in FlowType
    /\ \A k \in Key, token \in BOOLEAN : [key |-> k, token |-> token] \in Session
    /\ \A s \in Session : s.key \in Key /\ s.token \in BOOLEAN
                          /\ s = [key |-> s.key, token |-> s.token]
    /\ 0 \in Key /\ Key \subseteq Nat
<1>1. 0 \in Key /\ Key \subseteq Nat
  BY BoundAssumption DEF Key
<1>2. NoOne \in Session
  BY <1>1 DEF NoOne, Session
<1>3. Idle \in Jobs
  BY Cases DEF Idle, Jobs
<1>4. NoFlow \in FlowType
  BY <1>1, Cases DEF NoFlow, FlowType, Process
<1>5. \A k \in Key, token \in BOOLEAN : [key |-> k, token |-> token] \in Session
  BY DEF Session
<1>6. \A s \in Session : s.key \in Key /\ s.token \in BOOLEAN
                         /\ s = [key |-> s.key, token |-> s.token]
  BY DEF Session
<1>7. QED
  BY <1>1, <1>2, <1>3, <1>4, <1>5, <1>6

LEMMA FlowFields ==
    ASSUME NEW x \in FlowType
    PROVE  /\ x.on \in Process /\ x.kind \in Kinds
           /\ x.key \in [Platform -> Key]
           /\ x.step \in Steps
           /\ x.at \in 0..Len(AllCases)
BY DEF FlowType

LEMMA SessionsType ==
    ASSUME TypeOK, NEW q \in Process
    PROVE  Sessions(q) \in [Platform -> Session]
BY DEF TypeOK, Sessions

LEMMA KeysType ==
    ASSUME TypeOK, NEW p \in Platform, NEW k \in Key, SetKey(p, k)
    PROVE  /\ keys' \in [Platform -> Key] /\ keys'[p] = k
           /\ \A r \in Platform \ {p} : keys'[r] = keys[r]
BY DEF TypeOK, SetKey

(* What an action does to the sessions.                                    *)
LEMMA LoadGives ==
    ASSUME TypeOK, NEW q \in Process, Load(q), UNCHANGED disk
    PROVE  /\ loaded' \in [Process -> BOOLEAN]
           /\ loginUser' \in [Process -> [Platform -> Session]]
           /\ \A r \in Process : Sessions(r)' = Sessions(r)
           /\ loaded["app"] => loaded'["app"]
           /\ \A r \in Process : loginUser'[r] \in {loginUser[r], disk}
<1>1. Sessions(q) \in [Platform -> Session]
  BY SessionsType
<1>2. /\ loaded' \in [Process -> BOOLEAN] /\ loginUser' \in [Process -> [Platform -> Session]]
      /\ loaded'[q] = TRUE /\ loginUser'[q] = Sessions(q)
      /\ \A r \in Process \ {q} : loaded'[r] = loaded[r] /\ loginUser'[r] = loginUser[r]
  BY <1>1 DEF TypeOK, Load
<1>3. \A r \in Process : Sessions(r)' = Sessions(r)
  BY <1>2 DEF Sessions
<1>4. loaded["app"] => loaded'["app"]
  BY <1>2 DEF Process
<1>5. \A r \in Process : loginUser'[r] \in {loginUser[r], disk}
  BY <1>2 DEF Sessions
<1>6. QED
  BY <1>2, <1>3, <1>4, <1>5

LEMMA SaveGives ==
    ASSUME TypeOK, NEW q \in Process, NEW d \in [Platform -> Session], Save(q, d)
    PROVE  /\ loaded' \in [Process -> BOOLEAN] /\ disk' = d
           /\ loginUser' \in [Process -> [Platform -> Session]]
           /\ loaded'[q] = TRUE /\ loginUser'[q] = d /\ Sessions(q)' = d
           /\ \A r \in Process \ {q} :
                 /\ loaded'[r] = loaded[r] /\ loginUser'[r] = loginUser[r]
                 /\ Sessions(r)' = IF loaded[r] THEN Sessions(r) ELSE d
<1>1. /\ loaded' \in [Process -> BOOLEAN] /\ disk' = d
      /\ loginUser' \in [Process -> [Platform -> Session]]
      /\ loaded'[q] = TRUE /\ loginUser'[q] = d
      /\ \A r \in Process \ {q} : loaded'[r] = loaded[r] /\ loginUser'[r] = loginUser[r]
  BY DEF TypeOK, Save
<1>2. QED
  BY <1>1 DEF Sessions

LEMMA SetGives ==
    ASSUME TypeOK, NEW q \in Process, NEW p \in Platform, NEW s \in Session, SetSession(q, p, s)
    PROVE  \E d \in [Platform -> Session] :
              /\ Save(q, d) /\ d = [Sessions(q) EXCEPT ![p] = s] /\ d[p] = s
              /\ \A r \in Platform \ {p} : d[r] = Sessions(q)[r]
              /\ blame' = blame \cup Stray(q, Platform \ {p})
<1>1. Sessions(q) \in [Platform -> Session]
  BY SessionsType
<1> DEFINE d == [Sessions(q) EXCEPT ![p] = s]
<1>2. /\ d \in [Platform -> Session] /\ d[p] = s
      /\ \A r \in Platform \ {p} : d[r] = Sessions(q)[r]
  BY <1>1
<1>3. Save(q, d) /\ blame' = blame \cup Stray(q, Platform \ {p})
  BY DEF SetSession, Blame
<1>4. QED
  BY <1>2, <1>3

(* What an action does to the flows.                                       *)
Changed(f, x) == /\ flow' \in [Flows -> FlowType] /\ flow'[f] = x
                 /\ \A g \in Flows \ {f} : flow'[g] = flow[g]

LEMMA StartGives ==
    ASSUME TypeOK, NEW q \in Process, NEW key \in [Platform -> Key],
           NEW kind \in Kinds, NEW step \in {"post", "info"},
           Start(q, kind, step, key)
    PROVE  \E f \in Flows, x \in FlowType :
              /\ ~Busy(f) /\ Changed(f, x)
              /\ x.on = q /\ x.kind = kind /\ x.key = key /\ x.step = step
<1>1. PICK f \in Flows : /\ ~Busy(f)
                         /\ flow' = [flow EXCEPT ![f] = [on |-> q, kind |-> kind, key |-> key,
                                                         step |-> step, at |-> 0]]
  BY DEF Start
<1> DEFINE x == [on |-> q, kind |-> kind, key |-> key, step |-> step, at |-> 0]
<1>2. x \in FlowType
  BY Cases DEF FlowType
<1>3. x.on = q /\ x.kind = kind /\ x.key = key /\ x.step = step
  OBVIOUS
<1>4. Changed(f, x)
  BY <1>1, <1>2 DEF Changed, TypeOK
<1>5. QED
  BY <1>1, <1>2, <1>3, <1>4

LEMMA StepGives ==
    ASSUME TypeOK, NEW f \in Flows,
           NEW step \in Steps \ {"idle"}, Step(f, step)
    PROVE  \E x \in FlowType :
              /\ Changed(f, x) /\ x.on = flow[f].on /\ x.kind = flow[f].kind
              /\ x.key = flow[f].key /\ x.step = step /\ x.at = 1
<1> DEFINE x == [flow[f] EXCEPT !.step = step, !.at = 1]
<1>1. flow[f] \in FlowType
  BY DEF TypeOK
<1>2. /\ x \in FlowType /\ x.on = flow[f].on /\ x.kind = flow[f].kind
      /\ x.key = flow[f].key /\ x.step = step /\ x.at = 1
  <2> DEFINE y == [on |-> flow[f].on, kind |-> flow[f].kind, key |-> flow[f].key,
                   step |-> step, at |-> 1]
  <2> DEFINE z == [flow[f] EXCEPT !.step = step]
             w == [on |-> flow[f].on, kind |-> flow[f].kind, key |-> flow[f].key,
                   step |-> step, at |-> flow[f].at]
  <2>a. x = [z EXCEPT !.at = 1]
    OBVIOUS
  <2>b. z = w
    BY <1>1 DEF FlowType
  <2>c. [w EXCEPT !.at = 1] = y
    OBVIOUS
  <2>1. x = y
    BY <2>a, <2>b, <2>c
  <2>2. y.at \in 0..Len(AllCases)
    BY <1>1, Cases, FlowFields
  <2>3. y \in FlowType
    BY <1>1, <2>2, FlowFields DEF FlowType
  <2>4. QED
    BY <2>1, <2>3
<1>3. flow' = [flow EXCEPT ![f] = x]
  BY <1>1 DEF Step, TypeOK
<1>4. Changed(f, x)
  BY <1>2, <1>3 DEF Changed, TypeOK
<1>5. QED
  BY <1>2, <1>4

LEMMA MoreGives ==
    ASSUME TypeOK, NEW f \in Flows, flow[f].at < Len(AllCases),
           flow' = [flow EXCEPT ![f].at = @ + 1]
    PROVE  \E x \in FlowType :
              /\ Changed(f, x) /\ x.on = flow[f].on /\ x.kind = flow[f].kind
              /\ x.key = flow[f].key /\ x.step = flow[f].step /\ x.at = flow[f].at + 1
<1> DEFINE x == [flow[f] EXCEPT !.at = @ + 1]
<1>1. flow[f] \in FlowType
  BY DEF TypeOK
<1>2. /\ x \in FlowType /\ x.on = flow[f].on /\ x.kind = flow[f].kind
      /\ x.key = flow[f].key /\ x.step = flow[f].step /\ x.at = flow[f].at + 1
  <2> DEFINE y == [on |-> flow[f].on, kind |-> flow[f].kind, key |-> flow[f].key,
                   step |-> flow[f].step, at |-> flow[f].at + 1]
  <2>1. x = y
    BY <1>1 DEF FlowType
  <2>2. y.at \in 0..Len(AllCases)
    BY <1>1, Cases, FlowFields
  <2>3. y \in FlowType
    BY <1>1, <2>2, FlowFields DEF FlowType
  <2>4. QED
    BY <2>1, <2>3
<1>3. flow' = [flow EXCEPT ![f] = x]
  BY <1>1 DEF TypeOK
<1>4. Changed(f, x)
  BY <1>2, <1>3 DEF Changed, TypeOK
<1>5. QED
  BY <1>2, <1>4

LEMMA DoneGives ==
    ASSUME TypeOK, NEW f \in Flows, Done(f)
    PROVE  Changed(f, NoFlow)
BY Values DEF TypeOK, Done, Changed

LEMMA OnlyType ==
    ASSUME NEW p \in Platform, NEW k \in Key
    PROVE  /\ Only(p, k) \in [Platform -> Key]
           /\ \A r \in Platform : Only(p, k)[r] = IF r = p THEN k ELSE 0
BY Values DEF Only

LEMMA ForgetGives ==
    ASSUME TypeOK, NEW q \in Process, Forget(q)
    PROVE  /\ flow' \in [Flows -> FlowType]
           /\ \A f \in Flows : flow'[f] = IF flow[f].on = q THEN NoFlow ELSE flow[f]
           /\ loaded' \in [Process -> BOOLEAN]
           /\ loginUser' \in [Process -> [Platform -> Session]]
           /\ loaded'[q] = FALSE /\ \A p \in Platform : loginUser'[q][p] = NoOne
           /\ \A r \in Process \ {q} : loaded'[r] = loaded[r] /\ loginUser'[r] = loginUser[r]
BY Values DEF TypeOK, Forget

-----------------------------------------------------------------------------
(* Types and shapes                                                        *)

TokenHasKey(d) == \A p \in Platform : d[p].token => d[p].key # 0

UsersOf(x) == {p \in Platform : x.key[p] # 0}

(* What the kind of a flow says of its step and of whom it is for          *)
FlowShape(x) == x.step # "idle" =>
    /\ x.kind \in {"single", "unbind"} =>
          (\E p \in Platform : UsersOf(x) = {p}) /\ x.step \in {"post", "info"}
    /\ x.kind = "unbind" => x.on = "app" /\ x.step = "info"
    /\ x.kind \in Registering \cup {"restore"} => x.on = "app" /\ UsersOf(x) = Platform
    /\ x.step \in {"store", "refuse", "drop", "undo"} => x.at > 0
    /\ x.step \in {"refuse", "drop"} => x.kind \in Registering
    /\ x.step = "bind" => x.kind \in Providers

JobShape ==
    /\ job.kind \in {"start", "delete"} \cup Registering => job.at > 0
    /\ job.kind \in {"start", "import"} \cup Registering => made > 0
    /\ job.kind = "start" => screen = "starting"
    /\ job.kind \in {"import"} \cup Registering => screen = "welcome"
    /\ job.kind = "delete" => screen = "main"
    /\ job.kind = "none" => job.at = 0

StoreOK ==
    /\ disk \in [Platform -> Session]
    /\ loginUser \in [Process -> [Platform -> Session]]
    /\ loaded \in [Process -> BOOLEAN]
    /\ TokenHasKey(disk) /\ \A q \in Process : TokenHasKey(loginUser[q])

FlowsOK == flow \in [Flows -> FlowType] /\ \A f \in Flows : FlowShape(flow[f])

JobOK == job \in Jobs /\ screen \in {"off", "starting", "welcome", "main"}
         /\ made \in 0..MaxKey /\ JobShape

RestOK ==
    /\ keys \in [Platform -> Key] /\ backup \in [Platform -> Key]
    /\ spinning \in BOOLEAN /\ asked \subseteq Providers
    /\ starts \in 0..MaxStart /\ logins \in 0..MaxLogin
    /\ out \in BOOLEAN /\ blame \subseteq Causes

TypeInv == StoreOK /\ FlowsOK /\ JobOK /\ RestOK

LEMMA TypeInvImplies == TypeInv => TypeOK
BY DEF TypeInv, StoreOK, FlowsOK, JobOK, RestOK, TypeOK

LEMMA TypeInit == Init => TypeInv
<1> SUFFICES ASSUME Init PROVE TypeInv
  OBVIOUS
<1>1. StoreOK
  BY Values DEF Init, StoreOK, TokenHasKey, NoOne
<1>2. FlowsOK
  BY Values DEF Init, FlowsOK, FlowShape, NoFlow
<1>3. JobOK
  BY Values, BoundAssumption DEF Init, JobOK, JobShape, Idle
<1>4. RestOK
  <2>1. keys \in [Platform -> Key] /\ backup \in [Platform -> Key]
    <3>1. 0 \in Key /\ Foreign \in Key
      BY DEF Key
    <3>2. QED
      BY <3>1 DEF Init
  <2>2. starts \in 0..MaxStart /\ logins \in 0..MaxLogin
    BY BoundAssumption DEF Init
  <2>3. spinning \in BOOLEAN /\ asked \subseteq Providers /\ out \in BOOLEAN /\ blame \subseteq Causes
    BY DEF Init
  <2>4. QED
    BY <2>1, <2>2, <2>3 DEF RestOK
<1>5. QED
  BY <1>1, <1>2, <1>3, <1>4 DEF TypeInv

LEMMA FlowNow ==
    ASSUME TypeInv, NEW f \in Flows
    PROVE  flow[f] \in FlowType /\ FlowShape(flow[f]) /\ Users(f) = UsersOf(flow[f])
BY DEF TypeInv, FlowsOK, Users, UsersOf

LEMMA ChangedOK ==
    ASSUME TypeInv, NEW f \in Flows, NEW x \in FlowType, FlowShape(x), Changed(f, x)
    PROVE  FlowsOK'
BY DEF TypeInv, FlowsOK, Changed

LEMMA OneGives ==
    ASSUME TypeInv, NEW f \in Flows, Busy(f), flow[f].kind \in {"single", "unbind"}
    PROVE  /\ One(f) \in Platform /\ Users(f) = {One(f)}
           /\ flow[f].key[One(f)] \in Key \ {0}
<1>1. \E p \in Platform : Users(f) = {p}
  BY FlowNow DEF FlowShape, Busy
<1>2. One(f) \in Platform /\ Users(f) = {One(f)}
  BY <1>1 DEF One
<1>3. flow[f].key[One(f)] # 0
  BY <1>2 DEF Users
<1>4. QED
  BY <1>2, <1>3, FlowNow, FlowFields

LEMMA NextCaseGives ==
    ASSUME TypeInv, job.kind \in {"start", "delete"} \cup Registering, job' = NextCase
    PROVE  /\ AllCases[job.at] \in Platform /\ job.at \in 1..Len(AllCases)
           /\ job' \in Jobs
           /\ \/ job' = Idle /\ job.at = Len(AllCases)
              \/ /\ job' # Idle /\ job'.kind = job.kind /\ job.at < Len(AllCases)
                 /\ job'.at = job.at + 1
<1>1. job \in Jobs /\ job.at > 0 /\ job.at \in 0..Len(AllCases)
  BY DEF TypeInv, JobOK, JobShape, Jobs
<1>2. CASE job.at < Len(AllCases)
  <2> DEFINE j == [kind |-> job.kind, at |-> job.at + 1]
  <2>1. job' = j
    BY <1>1, <1>2 DEF NextCase, Jobs
  <2>2. j \in Jobs
    BY <1>1, <1>2, Cases DEF Jobs
  <2>3. QED
    BY <1>1, <1>2, <2>1, <2>2, Cases DEF Idle
<1>3. CASE ~(job.at < Len(AllCases))
  BY <1>1, <1>3, Cases, Values DEF NextCase
<1>4. QED
  BY <1>2, <1>3

LEMMA TokensOfSessions ==
    ASSUME TypeInv, NEW q \in Process
    PROVE  TokenHasKey(Sessions(q))
BY DEF TypeInv, StoreOK, TokenHasKey, Sessions

LEMMA LoadOK ==
    ASSUME TypeInv, NEW q \in Process, Load(q), UNCHANGED disk
    PROVE  StoreOK'
<1>1. /\ loaded' \in [Process -> BOOLEAN]
      /\ loginUser' \in [Process -> [Platform -> Session]]
      /\ \A r \in Process : loginUser'[r] \in {loginUser[r], disk}
  BY LoadGives, TypeInvImplies
<1>2. \A r \in Process : TokenHasKey(loginUser'[r])
  BY <1>1 DEF TypeInv, StoreOK
<1>3. QED
  BY <1>1, <1>2 DEF TypeInv, StoreOK, TokenHasKey

LEMMA SaveOK ==
    ASSUME TypeInv, NEW q \in Process, NEW d \in [Platform -> Session], TokenHasKey(d), Save(q, d)
    PROVE  StoreOK'
<1>1. /\ loaded' \in [Process -> BOOLEAN] /\ disk' = d
      /\ loginUser' \in [Process -> [Platform -> Session]]
      /\ loginUser'[q] = d
      /\ \A r \in Process \ {q} : loginUser'[r] = loginUser[r]
  BY SaveGives, TypeInvImplies
<1>2. \A r \in Process : TokenHasKey(loginUser'[r])
  BY <1>1 DEF TypeInv, StoreOK
<1>3. QED
  BY <1>1, <1>2 DEF TypeInv, StoreOK, TokenHasKey

LEMMA SetOK ==
    ASSUME TypeInv, NEW q \in Process, NEW p \in Platform, NEW s \in Session,
           s.token => s.key # 0, SetSession(q, p, s)
    PROVE  StoreOK' /\ blame' \subseteq Causes
<1>1. PICK d \in [Platform -> Session] :
              /\ Save(q, d) /\ d[p] = s
              /\ \A r \in Platform \ {p} : d[r] = Sessions(q)[r]
              /\ blame' = blame \cup Stray(q, Platform \ {p})
  BY SetGives, TypeInvImplies
<1>2. TokenHasKey(d)
  BY <1>1, TokensOfSessions DEF TokenHasKey
<1>3. StoreOK'
  BY <1>1, <1>2, SaveOK
<1>4. Stray(q, Platform \ {p}) \subseteq {"stray"}
  BY DEF Stray, If
<1>5. QED
  BY <1>1, <1>3, <1>4 DEF TypeInv, RestOK, Causes

LEMMA CausesOf ==
    /\ \A condition \in BOOLEAN : \A c \in Causes : If(c, condition) \subseteq Causes
    /\ \A q \in Process : \A ps : Stray(q, ps) \subseteq Causes
    /\ \A p \in Platform : \A fs : Late(p, fs) \subseteq Causes
BY DEF If, Stray, Late, Causes

LEMMA StartOK ==
    ASSUME TypeInv, NEW q \in Process, NEW key \in [Platform -> Key],
           NEW kind \in Kinds, NEW step \in {"post", "info"},
           Start(q, kind, step, key),
           kind \in {"single", "unbind"} =>
              \E p \in Platform : {r \in Platform : key[r] # 0} = {p},
           kind = "unbind" => q = "app" /\ step = "info",
           kind \in Registering \cup {"restore"} => q = "app" /\ \A r \in Platform : key[r] # 0
    PROVE  FlowsOK'
<1>1. PICK f \in Flows, x \in FlowType :
              /\ Changed(f, x)
              /\ x.on = q /\ x.kind = kind /\ x.key = key /\ x.step = step
  BY StartGives, TypeInvImplies
<1>2. FlowShape(x)
  BY <1>1 DEF FlowShape, UsersOf
<1>3. QED
  BY <1>1, <1>2, ChangedOK

LEMMA OnlyUsers ==
    ASSUME NEW p \in Platform, NEW k \in Key \ {0}
    PROVE  {r \in Platform : Only(p, k)[r] # 0} = {p}
BY DEF Only

LEMMA StepOK ==
    ASSUME TypeInv, NEW f \in Flows, Busy(f),
           NEW step \in Steps \ {"idle"}, Step(f, step),
           flow[f].kind \in {"single", "unbind"} => step = "info",
           step \in {"refuse", "drop"} => flow[f].kind \in Registering,
           step = "bind" => flow[f].kind \in Providers
    PROVE  FlowsOK'
<1>1. PICK x \in FlowType :
              /\ Changed(f, x) /\ x.on = flow[f].on /\ x.kind = flow[f].kind
              /\ x.key = flow[f].key /\ x.step = step /\ x.at = 1
  BY StepGives, TypeInvImplies
<1>2. UsersOf(x) = UsersOf(flow[f])
  BY <1>1 DEF UsersOf
<1>3. FlowShape(x)
  BY <1>1, <1>2, FlowNow DEF FlowShape, Busy
<1>4. QED
  BY <1>1, <1>3, ChangedOK

LEMMA MoreOK ==
    ASSUME TypeInv, NEW f \in Flows, Busy(f), flow[f].at < Len(AllCases),
           flow' = [flow EXCEPT ![f].at = @ + 1]
    PROVE  FlowsOK'
<1>1. PICK x \in FlowType :
              /\ Changed(f, x) /\ x.on = flow[f].on /\ x.kind = flow[f].kind
              /\ x.key = flow[f].key /\ x.step = flow[f].step /\ x.at = flow[f].at + 1
  BY MoreGives, TypeInvImplies
<1>2. UsersOf(x) = UsersOf(flow[f])
  BY <1>1 DEF UsersOf
<1>3. flow[f].at \in Nat /\ x.at > 0
  BY <1>1, FlowNow, FlowFields, Cases
<1>4. FlowShape(x)
  BY <1>1, <1>2, <1>3, FlowNow DEF FlowShape, Busy
<1>5. QED
  BY <1>1, <1>4, ChangedOK

LEMMA DoneOK ==
    ASSUME TypeInv, NEW f \in Flows, Done(f)
    PROVE  FlowsOK'
<1>1. Changed(f, NoFlow)
  BY DoneGives, TypeInvImplies
<1>2. FlowShape(NoFlow)
  BY DEF FlowShape, NoFlow
<1>3. QED
  BY <1>1, <1>2, Values, ChangedOK

LEMMA ForgetOK ==
    ASSUME TypeInv, NEW q \in Process, Forget(q), UNCHANGED disk
    PROVE  StoreOK' /\ FlowsOK'
<1>1. /\ flow' \in [Flows -> FlowType]
      /\ \A f \in Flows : flow'[f] = IF flow[f].on = q THEN NoFlow ELSE flow[f]
      /\ loaded' \in [Process -> BOOLEAN]
      /\ loginUser' \in [Process -> [Platform -> Session]]
      /\ \A p \in Platform : loginUser'[q][p] = NoOne
      /\ \A r \in Process \ {q} : loginUser'[r] = loginUser[r]
  BY ForgetGives, TypeInvImplies
<1>2. FlowShape(NoFlow)
  BY DEF FlowShape, NoFlow
<1>3. FlowsOK'
  BY <1>1, <1>2 DEF TypeInv, FlowsOK
<1>4. \A r \in Process : TokenHasKey(loginUser'[r])
  BY <1>1 DEF TypeInv, StoreOK, TokenHasKey, NoOne
<1>5. QED
  BY <1>1, <1>3, <1>4 DEF TypeInv, StoreOK, TokenHasKey

(* What is left alone stays well typed.                                    *)
LEMMA Kept ==
    ASSUME TypeInv
    PROVE  /\ UNCHANGED store => StoreOK'
           /\ UNCHANGED flow => FlowsOK'
           /\ UNCHANGED <<job, screen, made>> => JobOK'
<1>1. UNCHANGED store => StoreOK'
  BY DEF TypeInv, StoreOK, store, TokenHasKey
<1>2. UNCHANGED flow => FlowsOK'
  BY DEF TypeInv, FlowsOK
<1>3. UNCHANGED <<job, screen, made>> => JobOK'
  BY DEF TypeInv, JobOK, JobShape
<1>4. QED
  BY <1>1, <1>2, <1>3

-----------------------------------------------------------------------------
(* Type correctness: one lemma for the steps of each actor                 *)

LEMMA TypeAppStep ==
    ASSUME TypeInv, AppStep
    PROVE  TypeInv'
<1> USE DEF bounds, store, pages
<1>1. CASE Launch
  <2>1. StoreOK' /\ FlowsOK' /\ RestOK'
    BY <1>1, Kept, BoundAssumption DEF Launch, TypeInv, RestOK
  <2>2. CASE KeyPairsExist
    <3> DEFINE j == [kind |-> "start", at |-> 1]
    <3>1. j \in Jobs
      BY Cases DEF Jobs
    <3>2. job' = j /\ screen' = "starting" /\ made' = made + 1 /\ made < MaxKey
      BY <1>1, <2>2 DEF Launch
    <3>3. JobOK'
      BY <3>1, <3>2, BoundAssumption DEF TypeInv, JobOK, JobShape
    <3>4. QED
      BY <2>1, <3>3 DEF TypeInv
  <2>3. CASE ~KeyPairsExist
    <3>1. JobOK'
      BY <1>1, <2>3 DEF Launch, TypeInv, JobOK, JobShape
    <3>2. QED
      BY <2>1, <3>1 DEF TypeInv
  <2>4. QED
    BY <2>2, <2>3
<1>2. CASE StartPlatform
  <2>1. /\ AllCases[job.at] \in Platform
        /\ job' \in Jobs
        /\ (job' = Idle \/ (job'.kind = "start" /\ job'.at = job.at + 1))
    BY <1>2, NextCaseGives DEF StartPlatform
  <2>2. JobOK'
    BY <1>2, <2>1, Cases DEF TypeInv, JobOK, JobShape, Jobs, Idle, StartPlatform
  <2>3. StoreOK'
    BY <1>2, LoadOK DEF StartPlatform, Process
  <2>4. CASE Sessions("app")[AllCases[job.at]] = NoOne
    <3> DEFINE p == AllCases[job.at]
    <3>1. p \in Platform /\ made \in Key \ {0}
      BY <1>2, <2>1, BoundAssumption DEF StartPlatform, TypeInv, JobOK, JobShape, Key
    <3>2. /\ SetKey(p, made) /\ Start("app", "single", "post", Only(p, made))
          /\ blame' = blame \cup (Late(p, Flows) \cup Stray("app", {p}))
      BY <1>2, <2>4 DEF StartPlatform, Blame
    <3> HIDE DEF p
    <3>3. FlowsOK'
      <4>1. Only(p, made) \in [Platform -> Key]
        BY <3>1, OnlyType
      <4>2. {r \in Platform : Only(p, made)[r] # 0} = {p}
        BY <3>1, OnlyUsers
      <4>3. QED
        BY <3>1, <3>2, <4>1, <4>2, StartOK DEF Process
    <3>4. keys' \in [Platform -> Key]
      BY <3>1, <3>2, KeysType, TypeInvImplies
    <3>5. blame' \subseteq Causes
      BY <3>1, <3>2, CausesOf DEF TypeInv, RestOK, Process
    <3>6. RestOK'
      BY <1>2, <3>4, <3>5 DEF TypeInv, RestOK, StartPlatform
    <3>7. QED
      BY <2>2, <2>3, <3>3, <3>6 DEF TypeInv
  <2>5. CASE Sessions("app")[AllCases[job.at]] # NoOne
    <3>1. FlowsOK' /\ RestOK'
      BY <1>2, <2>5, Kept DEF StartPlatform, TypeInv, RestOK
    <3>2. QED
      BY <2>2, <2>3, <3>1 DEF TypeInv
  <2>6. QED
    BY <2>4, <2>5
<1>3. CASE EnterMain
  <2>1. StoreOK' /\ FlowsOK' /\ RestOK'
    BY <1>3, Kept DEF EnterMain, TypeInv, RestOK
  <2>2. JobOK'
    BY <1>3 DEF EnterMain, TypeInv, JobOK, JobShape, Free
  <2>3. QED
    BY <2>1, <2>2 DEF TypeInv
<1>4. CASE TokensRejected
  <2>1. StoreOK'
    BY <1>4, LoadOK DEF TokensRejected, Process
  <2>2. FlowsOK' /\ RestOK'
    BY <1>4, Kept DEF TokensRejected, TypeInv, RestOK
  <2>3. JobOK'
    BY <1>4 DEF TokensRejected, TypeInv, JobOK, JobShape, Free
  <2>4. QED
    BY <2>1, <2>2, <2>3 DEF TypeInv
<1>5. CASE RenewSessions
  <2>1. Save("app", Sessions("app")) /\ blame' = blame \cup Stray("app", Platform)
    BY <1>5 DEF RenewSessions, Blame
  <2>2. Sessions("app") \in [Platform -> Session] /\ TokenHasKey(Sessions("app"))
    BY SessionsType, TypeInvImplies, TokensOfSessions DEF Process
  <2>3. StoreOK'
    BY <2>1, <2>2, SaveOK DEF Process
  <2>4. blame' \subseteq Causes
    BY <2>1, CausesOf DEF TypeInv, RestOK, Process
  <2>5. FlowsOK' /\ JobOK' /\ RestOK'
    BY <1>5, <2>4, Kept DEF RenewSessions, TypeInv, RestOK
  <2>6. QED
    BY <2>3, <2>5 DEF TypeInv
<1>6. QED
  BY <1>1, <1>2, <1>3, <1>4, <1>5 DEF AppStep

(* A step of the welcome page that only asks or hears a provider, or stops *)
(* the indicator; and one that begins a walk                               *)
Turns ==
    /\ UNCHANGED <<keys, disk, loginUser, loaded, backup, screen, job, flow, made, starts,
                   logins, out, blame>>
    /\ Free("welcome") /\ spinning' \in BOOLEAN /\ asked' \subseteq Providers
Begins == \E kind \in {"import"} \cup Registering :
    /\ UNCHANGED <<keys, disk, loginUser, loaded, backup, screen, flow, starts, logins, blame>>
    /\ Free("welcome") /\ Restoring = {} /\ made < MaxKey /\ made' = made + 1 /\ out' = FALSE
    /\ job' = [kind |-> kind, at |-> 1]
    /\ spinning' \in BOOLEAN /\ asked' \subseteq Providers

LEMMA WelcomeIs ==
    ASSUME TypeInv, WelcomeStep
    PROVE  Turns \/ Begins \/ CreatePlatform \/ ImportPlatform \/ LoginBatch
<1> USE DEF bounds, store, pages
<1>0. spinning \in BOOLEAN /\ asked \subseteq Providers
  BY DEF TypeInv, RestOK
<1>1. CASE LoginWithAnonymous
  BY <1>0, <1>1 DEF LoginWithAnonymous, CreateNewKeyPairs, Begins
<1>2. ASSUME NEW p \in Providers, AskProvider(p) \/ NotAuthorised(p)
      PROVE  Turns
  BY <1>0, <1>2 DEF AskProvider, NotAuthorised, Turns
<1>3. ASSUME NEW p \in Providers, Authorised(p)
      PROVE  Begins
  <2>1. spinning' \in BOOLEAN /\ asked' \subseteq Providers /\ CreateNewKeyPairs(p)
    BY <1>0, <1>3 DEF Authorised
  <2>2. p \in {"import"} \cup Registering
    OBVIOUS
  <2>3. QED
    BY <2>1, <2>2 DEF CreateNewKeyPairs, Begins
<1>4. CASE LoginWithBackup \/ PickNoBackup
  BY <1>0, <1>4 DEF LoginWithBackup, PickNoBackup, Turns
<1>5. CASE ImportKeystore
  BY <1>0, <1>5 DEF ImportKeystore, Begins
<1>6. QED
  BY <1>1, <1>2, <1>3, <1>4, <1>5 DEF WelcomeStep, ProviderStep, BackupStep

LEMMA TypeWelcomeStep ==
    ASSUME TypeInv, WelcomeStep
    PROVE  TypeInv'
<1> USE DEF bounds, store, pages
<1>1. CASE Begins
  <2>1. StoreOK' /\ FlowsOK' /\ RestOK'
    BY <1>1, Kept DEF Begins, TypeInv, RestOK
  <2>2. PICK kind \in {"import"} \cup Registering : job' = [kind |-> kind, at |-> 1]
    BY <1>1 DEF Begins
  <2> DEFINE j == [kind |-> kind, at |-> 1]
  <2>3. j \in Jobs
    BY Cases DEF Jobs
  <2>4. job' = j /\ screen' = "welcome" /\ made' = made + 1 /\ made < MaxKey
    BY <1>1, <2>2 DEF Begins, Free
  <2>5. JobOK'
    BY <2>3, <2>4, BoundAssumption DEF TypeInv, JobOK, JobShape
  <2>6. QED
    BY <2>1, <2>5 DEF TypeInv
<1>2. CASE CreatePlatform
  <2>1. /\ AllCases[job.at] \in Platform
        /\ job' \in Jobs
        /\ (job' = Idle \/ (job' # Idle /\ job'.kind \in Registering /\ job'.at = job.at + 1))
    BY <1>2, NextCaseGives DEF CreatePlatform
  <2>2. JobOK'
    BY <1>2, <2>1, Cases DEF TypeInv, JobOK, JobShape, Jobs, Idle, CreatePlatform
  <2>3. made \in Key \ {0}
    BY <1>2, BoundAssumption DEF CreatePlatform, TypeInv, JobOK, JobShape, Key
  <2>4. keys' \in [Platform -> Key]
    BY <1>2, <2>1, <2>3, KeysType, TypeInvImplies DEF CreatePlatform
  <2>5. blame' \subseteq Causes
    BY <1>2, <2>1, CausesOf DEF CreatePlatform, Blame, TypeInv, RestOK
  <2>6. StoreOK' /\ RestOK'
    BY <1>2, <2>4, <2>5, Kept DEF CreatePlatform, TypeInv, RestOK
  <2>7. FlowsOK'
    <3>1. CASE job' = Idle
      <4> DEFINE key == [p \in Platform |-> made]
      <4>1. key \in [Platform -> Key] /\ \A r \in Platform : key[r] # 0
        BY <2>3
      <4>2. Start("app", job.kind, "post", key)
        BY <1>2, <3>1 DEF CreatePlatform
      <4>3. job.kind \in Kinds /\ job.kind \notin {"single", "unbind"}
        BY <1>2 DEF CreatePlatform
      <4> HIDE DEF key
      <4>4. QED
        BY <4>1, <4>2, <4>3, StartOK DEF Process
    <3>2. CASE job' # Idle
      BY <1>2, <3>2, Kept DEF CreatePlatform
    <3>3. QED
      BY <3>1, <3>2
  <2>8. QED
    BY <2>2, <2>6, <2>7 DEF TypeInv
<1>3. CASE Turns
  <2>1. StoreOK' /\ FlowsOK' /\ JobOK'
    BY <1>3, Kept DEF Turns
  <2>2. RestOK'
    BY <1>3 DEF Turns, TypeInv, RestOK
  <2>3. QED
    BY <2>1, <2>2 DEF TypeInv
<1>4. CASE ImportPlatform
  <2>1. job \in Jobs /\ job.kind = "import" /\ job.at \in 1..Len(AllCases)
    BY <1>4, Cases DEF ImportPlatform, TypeInv, JobOK, Jobs
  <2> DEFINE j == [kind |-> "import", at |-> IF job.at < Len(AllCases) THEN job.at + 1 ELSE 0]
             p == AllCases[job.at]
             k == IF backup[p] # 0 THEN backup[p] ELSE made
  <2>2. j \in Jobs
    BY <2>1, Cases DEF Jobs
  <2>3. job' = j
    BY <1>4, <2>1 DEF ImportPlatform, Jobs
  <2>4. JobOK'
    BY <1>4, <2>1, <2>2, <2>3 DEF ImportPlatform, TypeInv, JobOK, JobShape
  <2>5. p \in Platform /\ k \in Key
    BY <2>1, Cases, BoundAssumption DEF TypeInv, JobOK, RestOK, Key
  <2>6. SetKey(p, k) /\ blame' = blame \cup Late(p, Flows)
    BY <1>4 DEF ImportPlatform, Blame
  <2> HIDE DEF p, k
  <2>7. keys' \in [Platform -> Key]
    BY <2>5, <2>6, KeysType, TypeInvImplies
  <2>8. blame' \subseteq Causes
    BY <2>5, <2>6, CausesOf DEF TypeInv, RestOK
  <2>9. StoreOK' /\ FlowsOK' /\ RestOK'
    BY <1>4, <2>7, <2>8, Kept DEF ImportPlatform, TypeInv, RestOK
  <2>10. QED
    BY <2>4, <2>9 DEF TypeInv
<1>5. CASE LoginBatch
  <2>1. StoreOK' /\ RestOK'
    BY <1>5, Kept DEF LoginBatch, TypeInv, RestOK
  <2>2. JobOK'
    BY <1>5, Values DEF LoginBatch, TypeInv, JobOK, JobShape, Idle
  <2>3. FlowsOK'
    BY <1>5, StartOK DEF LoginBatch, AllKeys, TypeInv, RestOK, Process
  <2>4. QED
    BY <2>1, <2>2, <2>3 DEF TypeInv
<1>6. QED
  BY <1>1, <1>2, <1>3, <1>4, <1>5, WelcomeIs

LEMMA TypeMainStep ==
    ASSUME TypeInv, MainStep
    PROVE  TypeInv'
<1> USE DEF bounds, store, pages
<1>1. CASE Backup
  <2>1. StoreOK' /\ FlowsOK' /\ JobOK' /\ RestOK'
    BY <1>1, Kept DEF Backup, TypeInv, RestOK
  <2>2. QED
    BY <2>1 DEF TypeInv
<1>2. ASSUME NEW p \in Platform, Unbind(p)
      PROVE  TypeInv'
  <2>1. Load("app") /\ Sessions("app")[p].token
        /\ Start("app", "unbind", "info", Only(p, Sessions("app")[p].key))
    BY <1>2 DEF Unbind
  <2>2. Sessions("app")[p].key \in Key \ {0}
    BY <2>1, SessionsType, TypeInvImplies, TokensOfSessions, Values DEF Process, TokenHasKey
  <2>3. StoreOK'
    BY <1>2, <2>1, LoadOK DEF Unbind, Process
  <2>4. FlowsOK'
    <3> DEFINE key == Only(p, Sessions("app")[p].key)
    <3>1. key \in [Platform -> Key] /\ {r \in Platform : key[r] # 0} = {p}
      BY <2>2, OnlyType, OnlyUsers
    <3>2. Start("app", "unbind", "info", key)
      BY <2>1
    <3> HIDE DEF key
    <3>3. QED
      BY <3>1, <3>2, StartOK DEF Process
  <2>5. JobOK' /\ RestOK'
    BY <1>2, Kept DEF Unbind, TypeInv, RestOK
  <2>6. QED
    BY <2>3, <2>4, <2>5 DEF TypeInv
<1>3. CASE LogoutAll
  <2> DEFINE j == [kind |-> "delete", at |-> 1]
             d == [p \in Platform |-> NoOne]
  <2>1. j \in Jobs
    BY Cases DEF Jobs
  <2>2. job' = j /\ screen = "main" /\ screen' = "main" /\ made' = made
    BY <1>3 DEF LogoutAll, Free
  <2>3. JobOK'
    BY <2>1, <2>2 DEF TypeInv, JobOK, JobShape
  <2>4. FlowsOK'
    BY <1>3, Kept DEF LogoutAll
  <2>5. CASE AllTokens("app")
    <3>1. Save("app", d)
      BY <1>3, <2>5 DEF LogoutAll
    <3>2. d \in [Platform -> Session] /\ TokenHasKey(d)
      BY Values DEF TokenHasKey, NoOne
    <3> HIDE DEF d
    <3>3. StoreOK'
      BY <3>1, <3>2, SaveOK DEF Process
    <3>4. blame' \subseteq Causes /\ out' = TRUE
      BY <1>3, <2>5 DEF LogoutAll, If, Causes
    <3>5. RestOK'
      BY <1>3, <3>4 DEF LogoutAll, TypeInv, RestOK
    <3>6. QED
      BY <2>3, <2>4, <3>3, <3>5 DEF TypeInv
  <2>6. CASE ~AllTokens("app")
    <3>1. StoreOK'
      BY <1>3, <2>6, LoadOK DEF LogoutAll, Process
    <3>2. RestOK'
      BY <1>3, <2>6 DEF LogoutAll, TypeInv, RestOK, Blame, Causes
    <3>3. QED
      BY <2>3, <2>4, <3>1, <3>2 DEF TypeInv
  <2>7. QED
    BY <2>5, <2>6
<1>4. CASE DeletePlatform
  <2>1. /\ AllCases[job.at] \in Platform
        /\ job' \in Jobs
        /\ (job' = Idle \/ (job' # Idle /\ job'.kind = "delete" /\ job'.at = job.at + 1))
    BY <1>4, NextCaseGives DEF DeletePlatform
  <2>2. JobOK'
    BY <1>4, <2>1, Cases DEF TypeInv, JobOK, JobShape, Jobs, Idle, DeletePlatform
  <2>3. keys' \in [Platform -> Key]
    BY <1>4, <2>1, KeysType, TypeInvImplies, Values DEF DeletePlatform
  <2>4. blame' \subseteq Causes
    BY <1>4, <2>1, CausesOf DEF DeletePlatform, Blame, TypeInv, RestOK
  <2>5. spinning' \in BOOLEAN
    BY <1>4 DEF DeletePlatform, TypeInv, RestOK
  <2>6. StoreOK' /\ FlowsOK' /\ RestOK'
    BY <1>4, <2>3, <2>4, <2>5, Kept DEF DeletePlatform, TypeInv, RestOK
  <2>7. QED
    BY <2>2, <2>6 DEF TypeInv
<1>5. QED
  BY <1>1, <1>2, <1>3, <1>4 DEF MainStep

LEMMA TypeKeyboardStep ==
    ASSUME TypeInv, NEW p \in Platform, KeyboardLogin(p)
    PROVE  TypeInv'
<1> USE DEF bounds, store, pages
<1>1. StoreOK'
  BY LoadOK DEF KeyboardLogin, Process
<1>2. JobOK'
  BY Kept DEF KeyboardLogin
<1>3. logins' \in 0..MaxLogin
  BY BoundAssumption DEF KeyboardLogin, TypeInv, RestOK
<1>4. CASE keys[p] # 0
  <2>1. Start("keyboard", "single", "post", Only(p, keys[p])) /\ keys[p] \in Key \ {0}
    BY <1>4 DEF KeyboardLogin, TypeInv, RestOK
  <2>2. FlowsOK'
    BY <2>1, OnlyType, OnlyUsers, StartOK DEF Process
  <2>3. blame' = blame \cup If("late", out) /\ out \in BOOLEAN
    BY <1>4 DEF KeyboardLogin, Blame, TypeInv, RestOK
  <2>4. blame' \subseteq Causes
    BY <2>3, CausesOf DEF TypeInv, RestOK, Causes
  <2>5. RestOK'
    BY <1>3, <2>4 DEF KeyboardLogin, TypeInv, RestOK
  <2>6. QED
    BY <1>1, <1>2, <2>2, <2>5 DEF TypeInv
<1>5. CASE keys[p] = 0
  <2>1. FlowsOK' /\ RestOK'
    BY <1>3, <1>5, Kept DEF KeyboardLogin, TypeInv, RestOK
  <2>2. QED
    BY <1>1, <1>2, <2>1 DEF TypeInv
<1>6. QED
  BY <1>4, <1>5

LEMMA TypeAnswer ==
    ASSUME TypeInv, NEW f \in Flows, Answer(f)
    PROVE  TypeInv'
<1> USE DEF bounds, store, pages
<1> DEFINE s == [key |-> flow[f].key[One(f)], token |-> TRUE]
<1>0. /\ flow[f] \in FlowType /\ flow[f].on \in Process /\ FlowShape(flow[f])
      /\ flow[f].kind \in Kinds
  BY FlowNow, FlowFields
<1>a. Busy(f) /\ flow[f].kind \in {"single", "unbind"}
        => s \in Session /\ s.key # 0 /\ One(f) \in Platform
  BY OneGives, Values
<1>1. CASE TokenArrived(f)
  <2>1. /\ flow[f].step = "post" /\ Busy(f) /\ flow[f].kind = "single" /\ Step(f, "info")
        /\ SetSession(flow[f].on, One(f), s)
    BY <1>1 DEF TokenArrived, Answered, Busy
  <2>2. s \in Session /\ s.key # 0 /\ One(f) \in Platform
    BY <1>a, <2>1
  <2> HIDE DEF s
  <2>3. StoreOK' /\ blame' \subseteq Causes
    BY <1>0, <2>1, <2>2, SetOK
  <2>4. FlowsOK'
    BY <2>1, StepOK
  <2>5. JobOK' /\ RestOK'
    BY <1>1, <2>3, Kept DEF TokenArrived, TypeInv, RestOK
  <2>6. QED
    BY <2>3, <2>4, <2>5 DEF TypeInv
<1>2. CASE TokensArrived(f)
  <2>1. flow[f].step = "post" /\ Busy(f) /\ flow[f].kind # "single" /\ Step(f, "store")
    BY <1>2 DEF TokensArrived, Answered, Busy
  <2>2. FlowsOK'
    BY <1>0, <2>1, StepOK DEF FlowShape
  <2>3. StoreOK' /\ JobOK' /\ RestOK'
    BY <1>2, Kept DEF TokensArrived, TypeInv, RestOK
  <2>4. QED
    BY <2>2, <2>3 DEF TypeInv
<1>3. CASE PostFailed(f)
  <2>1. flow[f].step = "post" /\ Busy(f)
    BY <1>3 DEF PostFailed, Answered, Busy
  <2>2. FlowsOK'
    <3>1. CASE flow[f].kind \in Registering
      BY <1>3, <2>1, <3>1, StepOK DEF PostFailed
    <3>2. CASE flow[f].kind \notin Registering
      BY <1>3, <3>2, DoneOK DEF PostFailed
    <3>3. QED
      BY <3>1, <3>2
  <2>3. blame' \subseteq Causes
    BY <1>3, CausesOf DEF PostFailed, Blame, TypeInv, RestOK, Causes
  <2>4. StoreOK' /\ JobOK' /\ RestOK'
    BY <1>3, <2>3, Kept DEF PostFailed, TypeInv, RestOK
  <2>5. QED
    BY <2>2, <2>4 DEF TypeInv
<1>4. CASE InfoArrived(f)
  <2>1. flow[f].step = "info" /\ Busy(f)
    BY <1>4 DEF InfoArrived, Answered, Busy
  <2>2. FlowsOK'
    <3>1. Done(f) \/ (flow[f].kind \in Providers /\ Step(f, "bind"))
      BY <1>4 DEF InfoArrived
    <3>2. QED
      BY <2>1, <3>1, DoneOK, StepOK
  <2>3. CASE flow[f].kind \in {"single", "unbind"}
    <3>1. SetSession(flow[f].on, One(f), s)
      BY <1>4, <2>3 DEF InfoArrived
    <3>2. s \in Session /\ s.key # 0 /\ One(f) \in Platform
      BY <1>a, <2>1, <2>3
    <3> HIDE DEF s
    <3>3. StoreOK' /\ blame' \subseteq Causes
      BY <1>0, <3>1, <3>2, SetOK
    <3>4. JobOK' /\ RestOK'
      BY <1>4, <2>3, <3>3, Kept DEF InfoArrived, TypeInv, RestOK
    <3>5. QED
      BY <2>2, <3>3, <3>4 DEF TypeInv
  <2>4. CASE flow[f].kind \notin {"single", "unbind"}
    <3>1. Sessions("app") \in [Platform -> Session] /\ TokenHasKey(Sessions("app"))
      BY SessionsType, TypeInvImplies, TokensOfSessions DEF Process
    <3>2. Save("app", Sessions("app")) \/ UNCHANGED store
      BY <1>4, <2>4 DEF InfoArrived
    <3>3. StoreOK'
      BY <3>1, <3>2, SaveOK, Kept DEF Process
    <3>4. /\ screen' = screen \/ (screen' = "main" /\ job.kind = "none")
          /\ UNCHANGED <<job, made, keys, backup, spinning, starts, logins, out>>
          /\ asked' \in {asked, {}} /\ blame' \subseteq blame
      BY <1>4, <2>4 DEF InfoArrived, LeavePage
    <3>5. JobOK'
      BY <3>4 DEF TypeInv, JobOK, JobShape
    <3>6. RestOK'
      BY <3>4 DEF TypeInv, RestOK
    <3>7. QED
      BY <2>2, <3>3, <3>5, <3>6 DEF TypeInv
  <2>5. QED
    BY <2>3, <2>4
<1>5. CASE InfoFailed(f)
  <2>1. flow[f].step = "info" /\ Busy(f)
    BY <1>5 DEF InfoFailed, Answered, Busy
  <2>2. CASE flow[f].kind = "single"
    <3>1. SetSession(flow[f].on, One(f), NoOne) /\ Done(f)
      BY <1>5, <2>2 DEF InfoFailed
    <3>2. StoreOK' /\ blame' \subseteq Causes
      BY <1>0, <1>a, <2>1, <2>2, <3>1, Values, SetOK DEF NoOne
    <3>3. FlowsOK'
      BY <3>1, DoneOK
    <3>4. JobOK' /\ RestOK'
      BY <1>5, <3>2, Kept DEF InfoFailed, TypeInv, RestOK
    <3>5. QED
      BY <3>2, <3>3, <3>4 DEF TypeInv
  <2>3. CASE flow[f].kind # "single"
    <3>1. /\ UNCHANGED <<store, blame>>
          /\ IF flow[f].kind = "unbind" THEN Done(f) ELSE Step(f, Undoing(f))
      BY <1>5, <2>3 DEF InfoFailed
    <3>2. FlowsOK'
      BY <1>0, <2>1, <2>3, <3>1, DoneOK, StepOK DEF Undoing
    <3>3. StoreOK' /\ JobOK' /\ RestOK'
      BY <1>5, <3>1, Kept DEF InfoFailed, TypeInv, RestOK
    <3>4. QED
      BY <3>2, <3>3 DEF TypeInv
  <2>4. QED
    BY <2>2, <2>3
<1>6. CASE BindArrived(f)
  <2>1. /\ Save("app", Sessions("app")) /\ blame' = blame \cup Stray("app", Platform)
        /\ Done(f)
    BY <1>6 DEF BindArrived, Blame
  <2>2. Sessions("app") \in [Platform -> Session] /\ TokenHasKey(Sessions("app"))
    BY SessionsType, TypeInvImplies, TokensOfSessions DEF Process
  <2>3. StoreOK' /\ FlowsOK'
    BY <2>1, <2>2, SaveOK, DoneOK DEF Process
  <2>4. blame' \subseteq Causes
    BY <2>1, CausesOf DEF TypeInv, RestOK, Process
  <2>5. /\ screen' = screen \/ (screen' = "main" /\ job.kind = "none")
        /\ UNCHANGED <<job, made, keys, backup, spinning, starts, logins, out>>
        /\ asked' \in {asked, {}}
    BY <1>6 DEF BindArrived, LeavePage
  <2>6. JobOK'
    BY <2>5 DEF TypeInv, JobOK, JobShape
  <2>7. RestOK'
    BY <2>4, <2>5 DEF TypeInv, RestOK
  <2>8. QED
    BY <2>3, <2>6, <2>7 DEF TypeInv
<1>7. CASE BindFailed(f)
  <2>1. FlowsOK'
    BY <1>7, DoneOK DEF BindFailed
  <2>2. StoreOK' /\ JobOK' /\ RestOK'
    BY <1>7, Kept DEF BindFailed, TypeInv, RestOK
  <2>3. QED
    BY <2>1, <2>2 DEF TypeInv
<1>8. QED
  BY <1>1, <1>2, <1>3, <1>4, <1>5, <1>6, <1>7 DEF Answer

LEMMA TypeClosure ==
    ASSUME TypeInv, NEW f \in Flows, Closure(f)
    PROVE  TypeInv'
<1> USE DEF bounds, store, pages
<1> DEFINE p == AllCases[flow[f].at]
<1>0. /\ flow[f] \in FlowType /\ flow[f].on \in Process /\ FlowShape(flow[f])
      /\ flow[f].kind \in Kinds
  BY FlowNow, FlowFields
<1>1. /\ flow[f].step \in {"store", "refuse", "drop", "undo"} /\ Busy(f)
      /\ flow[f].kind \in Registering \cup {"restore"} /\ flow[f].at \in 1..Len(AllCases)
      /\ p \in Platform /\ flow[f].key[p] \in Key \ {0}
      /\ flow[f].step \in {"refuse", "drop"} => flow[f].kind \in Registering
  <2>1. flow[f].step \in {"store", "refuse", "drop", "undo"}
    BY DEF Closure, StoreToken, DropKey, UndoSession
  <2>2. flow[f].at \in 1..Len(AllCases)
    BY <1>0, <2>1, FlowFields, Cases DEF FlowShape
  <2>3. UsersOf(flow[f]) = Platform /\ flow[f].kind \in Registering \cup {"restore"}
    BY <1>0, <2>1 DEF FlowShape
  <2>4. p \in Platform
    BY <2>2, Cases
  <2>5. flow[f].key[p] \in Key \ {0}
    BY <1>0, <2>3, <2>4, FlowFields DEF UsersOf
  <2>6. QED
    BY <1>0, <2>1, <2>2, <2>3, <2>4, <2>5 DEF Busy, FlowShape
<1> HIDE DEF p
<1>2. CASE StoreToken(f)
  <2>1. PICK token \in BOOLEAN :
           SetSession("app", p, [key |-> flow[f].key[p], token |-> token])
    BY <1>2 DEF StoreToken, p
  <2>2. StoreOK' /\ blame' \subseteq Causes
    BY <1>1, <2>1, Values, SetOK DEF Process
  <2>3. FlowsOK'
    <3>1. CASE flow[f].at < Len(AllCases)
      BY <1>1, <1>2, <3>1, MoreOK DEF StoreToken, Advance
    <3>2. CASE ~(flow[f].at < Len(AllCases))
      <4>1. Step(f, "info") \/ Step(f, Undoing(f))
        BY <1>2, <3>2 DEF StoreToken, Advance
      <4>2. QED
        BY <1>1, <4>1, StepOK DEF Undoing
    <3>3. QED
      BY <3>1, <3>2
  <2>4. JobOK' /\ RestOK'
    BY <1>2, <2>2, Kept DEF StoreToken, TypeInv, RestOK
  <2>5. QED
    BY <2>2, <2>3, <2>4 DEF TypeInv
<1>3. CASE DropKey(f)
  <2>1. keys' \in [Platform -> Key]
    BY <1>1, <1>3, KeysType, TypeInvImplies, Values DEF DropKey, p
  <2>2. blame' \subseteq Causes
    BY <1>1, <1>3, CausesOf DEF DropKey, p, Blame, TypeInv, RestOK
  <2>3. spinning' \in BOOLEAN
    BY <1>3 DEF DropKey
  <2>4. FlowsOK'
    <3>1. CASE flow[f].at < Len(AllCases)
      BY <1>1, <1>3, <3>1, MoreOK DEF DropKey, Advance
    <3>2. CASE ~(flow[f].at < Len(AllCases))
      <4>1. Step(f, "undo") \/ Done(f)
        BY <1>3, <3>2 DEF DropKey, Advance
      <4>2. QED
        BY <1>1, <4>1, StepOK, DoneOK
    <3>3. QED
      BY <3>1, <3>2
  <2>5. StoreOK' /\ JobOK' /\ RestOK'
    BY <1>3, <2>1, <2>2, <2>3, Kept DEF DropKey, TypeInv, RestOK
  <2>6. QED
    BY <2>4, <2>5 DEF TypeInv
<1>4. CASE UndoSession(f)
  <2>1. StoreOK' /\ blame' \subseteq Causes
    BY <1>1, <1>4, Values, SetOK DEF UndoSession, p, NoOne, Process
  <2>2. FlowsOK'
    <3>1. CASE flow[f].at < Len(AllCases)
      BY <1>1, <1>4, <3>1, MoreOK DEF UndoSession, Advance
    <3>2. CASE ~(flow[f].at < Len(AllCases))
      BY <1>4, <3>2, DoneOK DEF UndoSession, Advance
    <3>3. QED
      BY <3>1, <3>2
  <2>3. JobOK' /\ RestOK'
    BY <1>4, <2>1, Kept DEF UndoSession, TypeInv, RestOK
  <2>4. QED
    BY <2>1, <2>2, <2>3 DEF TypeInv
<1>5. QED
  BY <1>2, <1>3, <1>4 DEF Closure

LEMMA TypeKill ==
    ASSUME TypeInv, Kill
    PROVE  TypeInv'
<1> USE DEF bounds, store, pages
<1>1. CASE AppEnds
  <2>1. StoreOK' /\ FlowsOK'
    BY <1>1, ForgetOK DEF AppEnds, Process
  <2>2. JobOK'
    BY <1>1, Values DEF AppEnds, TypeInv, JobOK, JobShape, Idle
  <2>3. blame' \subseteq Causes
    BY <1>1 DEF AppEnds, Blame, If, Causes, TypeInv, RestOK
  <2>4. RestOK'
    BY <1>1, <2>3 DEF AppEnds, TypeInv, RestOK
  <2>5. QED
    BY <2>1, <2>2, <2>4 DEF TypeInv
<1>2. CASE KillKeyboard
  <2>1. StoreOK' /\ FlowsOK'
    BY <1>2, ForgetOK DEF KillKeyboard, Process
  <2>2. JobOK' /\ RestOK'
    BY <1>2, Kept DEF KillKeyboard, TypeInv, RestOK
  <2>3. QED
    BY <2>1, <2>2 DEF TypeInv
<1>3. QED
  BY <1>1, <1>2 DEF Kill, KillApp, ImportTraps

LEMMA TypeStep == TypeInv /\ [Next]_vars => TypeInv'
<1> SUFFICES ASSUME TypeInv, [Next]_vars PROVE TypeInv'
  OBVIOUS
<1>1. CASE UNCHANGED vars
  <2>1. StoreOK' /\ FlowsOK' /\ JobOK'
    BY <1>1, Kept DEF vars, store, pages, bounds
  <2>2. RestOK'
    BY <1>1 DEF vars, pages, bounds, TypeInv, RestOK
  <2>3. QED
    BY <2>1, <2>2 DEF TypeInv
<1>2. QED
  BY <1>1, TypeAppStep, TypeWelcomeStep, TypeMainStep, TypeKeyboardStep, TypeAnswer,
     TypeClosure, TypeKill DEF Next, KeyboardStep

(* Every variable keeps its type; beside it a flow's step and users fit    *)
(* its kind, the walk of the app its page, and a token comes with a key.   *)
THEOREM TypeCorrect == Spec => []TypeOK
<1>1. Spec => []TypeInv
  BY TypeInit, TypeStep, PTL DEF Spec
<1>2. QED
  BY <1>1, TypeInvImplies, PTL

-----------------------------------------------------------------------------
(* Nothing comes back after a logout                                       *)

BatchOf(x) == x.step # "idle" /\ x.kind \in Registering \cup {"restore"}
Batch(f)   == BatchOf(flow[f])

Clean == out /\ blame \cap {"late", "killed"} = {}

(* Clean says that nobody else was about to log in: the sessions are gone, *)
(* and the pairs are gone or being deleted, so the app will not register   *)
(* anew when it starts.                                                    *)
OutInv ==
    /\ job.kind \in {"import"} \cup Registering => ~out
    /\ (\E f \in Flows : Batch(f)) => ~out \/ "late" \in blame
    /\ Clean => /\ \A p \in Platform : disk[p] = NoOne /\ Sessions("app")[p] = NoOne
                /\ \A f \in Flows : ~Busy(f)
                /\ \/ job.kind = "delete" /\ (job.at > 1 => ~KeyPairsExist)
                   \/ job.kind = "none" /\ screen \in {"welcome", "off"} /\ ~KeyPairsExist

(* A step that is taken when the device is not clean leaves it so.         *)
LEMMA OutDirty ==
    ASSUME OutInv, ~Clean, out' = out,
           blame \subseteq blame' \/ ~out \/ "late" \in blame',
           "late" \in blame => "late" \in blame',
           job'.kind \in {"import"} \cup Registering => job.kind \in {"import"} \cup Registering,
           \A f \in Flows : Batch(f)' => \E g \in Flows : Batch(g)
    PROVE  OutInv'
<1>1. ~Clean'
  BY DEF Clean
<1>2. QED
  BY <1>1 DEF OutInv

(* The flow that an action changes is a batch only if it was one.          *)
LEMMA BatchesOf ==
    ASSUME NEW f \in Flows, NEW x, Changed(f, x), BatchOf(x) => Batch(f)
    PROVE  \A g \in Flows : Batch(g)' => Batch(g)
BY DEF Changed, Batch

LEMMA ForgetBatches ==
    ASSUME TypeInv, NEW q \in Process, Forget(q)
    PROVE  /\ \A g \in Flows : Batch(g)' => Batch(g)
           /\ \A g \in Flows : Busy(g)' => Busy(g)
<1>1. \A f \in Flows : flow'[f] = IF flow[f].on = q THEN NoFlow ELSE flow[f]
  BY ForgetGives, TypeInvImplies
<1>2. ~BatchOf(NoFlow) /\ NoFlow.step = "idle"
  BY DEF BatchOf, NoFlow
<1>3. QED
  BY <1>1, <1>2 DEF Batch, Busy

(* An answer or a closure begins no batch.                                 *)
LEMMA AnswerBatches ==
    ASSUME TypeInv, NEW f \in Flows, Answer(f) \/ Closure(f)
    PROVE  Busy(f) /\ \A g \in Flows : Batch(g)' => Batch(g)
<1>1. Busy(f)
  BY DEF Busy, Answer, Closure, Answered, TokenArrived, TokensArrived, PostFailed, InfoArrived,
         InfoFailed, BindArrived, BindFailed, StoreToken, DropKey, UndoSession
<1>2. \/ Done(f)
      \/ \E step \in Steps \ {"idle"} : Step(f, step)
      \/ flow[f].at < Len(AllCases) /\ flow' = [flow EXCEPT ![f].at = @ + 1]
  <2>1. CASE Answer(f)
    BY <2>1 DEF Answer, TokenArrived, TokensArrived, PostFailed, InfoArrived, InfoFailed,
          BindArrived, BindFailed, Undoing
  <2>2. CASE Closure(f)
    BY <2>2 DEF Closure, StoreToken, DropKey, UndoSession, Advance, Undoing
  <2>3. QED
    BY <2>1, <2>2
<1>3. \E x : Changed(f, x) /\ (x = NoFlow \/ x.kind = flow[f].kind)
  <2>1. CASE Done(f)
    BY <2>1, DoneGives, TypeInvImplies
  <2>2. ASSUME NEW step \in Steps \ {"idle"}, Step(f, step)
        PROVE  \E x : Changed(f, x) /\ x.kind = flow[f].kind
    BY <2>2, StepGives, TypeInvImplies
  <2>3. CASE flow[f].at < Len(AllCases) /\ flow' = [flow EXCEPT ![f].at = @ + 1]
    BY <2>3, MoreGives, TypeInvImplies
  <2>4. QED
    BY <1>2, <2>1, <2>2, <2>3
<1>4. ~BatchOf(NoFlow)
  BY DEF BatchOf, NoFlow
<1>5. QED
  BY <1>1, <1>3, <1>4, BatchesOf DEF Busy, Batch, BatchOf

(* A login of one user and an unbind begin none either.                    *)
LEMMA StartBatches ==
    ASSUME TypeInv, NEW q \in Process, NEW key \in [Platform -> Key],
           NEW kind \in {"single", "unbind"}, NEW step \in {"post", "info"},
           Start(q, kind, step, key)
    PROVE  \A g \in Flows : Batch(g)' => Batch(g)
<1>1. PICK f \in Flows, x \in FlowType : Changed(f, x) /\ x.kind = kind
  BY StartGives, TypeInvImplies
<1>2. QED
  BY <1>1, BatchesOf DEF BatchOf

LEMMA OutInit == Init => OutInv
BY Values DEF Init, OutInv, Clean, Batch, BatchOf, NoFlow, Idle

LEMMA OutAppStep ==
    ASSUME TypeInv, OutInv, AppStep
    PROVE  OutInv'
<1> USE DEF bounds, store, pages
<1>0. job.kind = "none" => ~(Clean /\ screen \in {"starting", "main"})
  BY DEF OutInv
<1>1. CASE Launch
  <2>1. CASE KeyPairsExist
    <3>1. screen = "off" /\ job'.kind = "start" /\ UNCHANGED <<flow, out, blame>>
      BY <1>1, <2>1 DEF Launch
    <3>2. ~Clean
      BY <2>1, <3>1 DEF OutInv, TypeInv, JobOK, JobShape
    <3>3. QED
      BY <3>1, <3>2, OutDirty DEF Batch
  <2>2. CASE ~KeyPairsExist
    <3>1. screen' = "welcome" /\ UNCHANGED <<keys, store, job, flow, out, blame>>
      BY <1>1, <2>2 DEF Launch
    <3>2. screen = "off"
      BY <1>1 DEF Launch
    <3>3. QED
      BY <3>1, <3>2 DEF OutInv, Clean, Batch, Busy, Sessions, KeyPairsExist
  <2>3. QED
    BY <2>1, <2>2
<1>2. CASE StartPlatform
  <2>1. /\ AllCases[job.at] \in Platform
        /\ (job' = Idle \/ job'.kind = "start")
    BY <1>2, NextCaseGives DEF StartPlatform
  <2>2. ~Clean /\ job'.kind \notin {"import"} \cup Registering /\ out' = out
    BY <1>2, <2>1 DEF OutInv, StartPlatform, Idle
  <2>3. CASE Sessions("app")[AllCases[job.at]] = NoOne
    <3> DEFINE key == Only(AllCases[job.at], made)
    <3>1. Start("app", "single", "post", key) /\ blame \subseteq blame'
      BY <1>2, <2>3 DEF StartPlatform, Blame
    <3>2. key \in [Platform -> Key]
      BY <2>1, OnlyType DEF TypeInv, JobOK, Key
    <3> HIDE DEF key
    <3>3. \A g \in Flows : Batch(g)' => Batch(g)
      BY <3>1, <3>2, StartBatches DEF Process
    <3>4. QED
      BY <2>2, <3>1, <3>3, OutDirty
  <2>4. CASE Sessions("app")[AllCases[job.at]] # NoOne
    BY <1>2, <2>2, <2>4, OutDirty DEF StartPlatform, Batch
  <2>5. QED
    BY <2>3, <2>4
<1>3. CASE EnterMain
  BY <1>0, <1>3, OutDirty DEF EnterMain, Free, Batch
<1>4. CASE TokensRejected
  BY <1>0, <1>4, OutDirty DEF TokensRejected, Free, Batch
<1>5. CASE RenewSessions
  <2>1. ~Clean
    BY <1>5 DEF RenewSessions, OutInv, NoOne
  <2>2. QED
    BY <1>5, <2>1, OutDirty DEF RenewSessions, Blame, Batch
<1>6. QED
  BY <1>1, <1>2, <1>3, <1>4, <1>5 DEF AppStep

LEMMA OutWelcomeStep ==
    ASSUME TypeInv, OutInv, WelcomeStep
    PROVE  OutInv'
<1>1. CASE Turns
  BY <1>1 DEF Turns, OutInv, Clean, Batch, Busy, Sessions, KeyPairsExist
<1>2. CASE ~Turns
  <2>1. Begins => ~out'
    BY DEF Begins
  <2>2. CreatePlatform => ~out'
    BY DEF OutInv, CreatePlatform
  <2>3. ImportPlatform \/ LoginBatch => ~out'
    BY DEF OutInv, ImportPlatform, LoginBatch, Imported
  <2>4. ~out'
    BY <1>2, <2>1, <2>2, <2>3, WelcomeIs
  <2>5. QED
    BY <2>4 DEF OutInv, Clean
<1>3. QED
  BY <1>1, <1>2

LEMMA OutMainStep ==
    ASSUME TypeInv, OutInv, MainStep
    PROVE  OutInv'
<1> USE DEF bounds, store, pages
<1>0. job.kind = "none" => ~(Clean /\ screen = "main")
  BY DEF OutInv
<1>1. CASE Backup
  BY <1>0, <1>1, OutDirty DEF Backup, Free, Batch
<1>2. ASSUME NEW p \in Platform, Unbind(p)
      PROVE  OutInv'
  <2> DEFINE key == Only(p, Sessions("app")[p].key)
  <2>1. Start("app", "unbind", "info", key) /\ UNCHANGED <<job, out, blame>> /\ ~Clean
    BY <1>0, <1>2 DEF Unbind, Free
  <2>2. key \in [Platform -> Key]
    BY OnlyType, SessionsType, TypeInvImplies, Values DEF Process
  <2> HIDE DEF key
  <2>3. \A g \in Flows : Batch(g)' => Batch(g)
    BY <2>1, <2>2, StartBatches DEF Process
  <2>4. QED
    BY <2>1, <2>3, OutDirty
<1>3. CASE LogoutAll
  <2>1. job'.kind = "delete" /\ job'.at = 1 /\ flow' = flow /\ ~Clean
    BY <1>0, <1>3 DEF LogoutAll, Free
  <2>2. CASE AllTokens("app")
    <3> DEFINE d == [p \in Platform |-> NoOne]
    <3>1. Save("app", d) /\ d \in [Platform -> Session]
      BY <1>3, <2>2, Values DEF LogoutAll
    <3>2. disk' = d /\ Sessions("app")' = d
      BY <3>1, SaveGives, TypeInvImplies DEF Process
    <3>3. out' = TRUE /\ blame' = If("late", \E f \in Flows : Busy(f))
      BY <1>3, <2>2 DEF LogoutAll
    <3>4. (\E f \in Flows : Busy(f)) => "late" \in blame'
      BY <3>3 DEF If
    <3>5. \A f \in Flows : Busy(f)' = Busy(f) /\ Batch(f)' = Batch(f) /\ (Batch(f) => Busy(f))
      BY <2>1 DEF Busy, Batch, BatchOf
    <3>6. QED
      BY <2>1, <3>2, <3>4, <3>5 DEF OutInv, Clean
  <2>3. CASE ~AllTokens("app")
    BY <1>3, <2>1, <2>3, OutDirty DEF LogoutAll, Blame, Batch
  <2>4. QED
    BY <2>2, <2>3
<1>4. CASE DeletePlatform
  <2>1. /\ AllCases[job.at] \in Platform /\ job.at \in 1..Len(AllCases)
        /\ \/ job' = Idle
           \/ job' # Idle /\ job'.kind = "delete"
    BY <1>4, NextCaseGives DEF DeletePlatform
  <2>2. /\ job.kind = "delete" /\ SetKey(AllCases[job.at], 0)
        /\ UNCHANGED <<store, flow, out>> /\ blame \subseteq blame'
        /\ job' = Idle => screen' = "welcome"
    BY <1>4 DEF DeletePlatform, Blame
  <2>3. /\ \A p \in Platform : disk'[p] = disk[p] /\ Sessions("app")'[p] = Sessions("app")[p]
        /\ \A f \in Flows : Busy(f)' = Busy(f) /\ Batch(f)' = Batch(f)
        /\ Clean' => Clean
    BY <2>2 DEF Sessions, Busy, Batch, Clean
  <2>4. keys'[AllCases[job.at]] = 0 /\ \A r \in Platform \ {AllCases[job.at]} : keys'[r] = keys[r]
    BY <2>1, <2>2, KeysType, TypeInvImplies, Values
  <2>5. Clean => ~KeyPairsExist'
    BY <2>1, <2>2, <2>4, Cases DEF OutInv, KeyPairsExist
  <2>6. job'.kind \in {"none", "delete"} /\ (job'.kind = "none" => screen' = "welcome")
    BY <2>1, <2>2 DEF Idle
  <2>7. QED
    BY <2>2, <2>3, <2>5, <2>6 DEF OutInv
<1>5. QED
  BY <1>1, <1>2, <1>3, <1>4 DEF MainStep

LEMMA OutKeyboardStep ==
    ASSUME TypeInv, OutInv, NEW p \in Platform, KeyboardLogin(p)
    PROVE  OutInv'
<1> USE DEF bounds, store, pages
<1>1. UNCHANGED <<keys, disk, job, screen, out>> /\ Load("keyboard")
  BY DEF KeyboardLogin
<1>2. Sessions("app")' = Sessions("app")
  BY <1>1, LoadGives, TypeInvImplies DEF Process
<1>3. CASE keys[p] # 0
  <2>1. Start("keyboard", "single", "post", Only(p, keys[p])) /\ blame' = blame \cup If("late", out)
    BY <1>3 DEF KeyboardLogin, Blame
  <2>2. ~Clean' /\ ("late" \in blame => "late" \in blame')
    BY <1>1, <2>1 DEF Clean, If
  <2>3. keys[p] \in Key
    BY DEF TypeInv, RestOK
  <2>4. \A g \in Flows : Batch(g)' => Batch(g)
    BY <2>1, <2>3, OnlyType, StartBatches DEF Process
  <2>5. QED
    BY <1>1, <2>2, <2>4 DEF OutInv
<1>4. CASE keys[p] = 0
  <2>1. UNCHANGED <<flow, blame>>
    BY <1>4 DEF KeyboardLogin
  <2>2. QED
    BY <1>1, <1>2, <2>1 DEF OutInv, Clean, Batch, Busy, KeyPairsExist
<1>5. QED
  BY <1>3, <1>4

LEMMA OutAnswer ==
    ASSUME TypeInv, OutInv, NEW f \in Flows, Answer(f) \/ Closure(f)
    PROVE  OutInv'
<1>1. Busy(f) /\ \A g \in Flows : Batch(g)' => Batch(g)
  BY AnswerBatches
<1>2. ~Clean
  BY <1>1 DEF OutInv
<1>3. UNCHANGED <<job, out>>
  BY DEF Answer, Closure, TokenArrived, TokensArrived, PostFailed, InfoArrived,
         InfoFailed, BindArrived, BindFailed, StoreToken, DropKey, UndoSession
<1>4. blame \subseteq blame' \/ (Batch(f) /\ blame' = blame \cap {"late"})
  <2>1. CASE InfoArrived(f)
    <3>1. CASE flow[f].kind \in {"single", "unbind"}
      BY <2>1, <3>1 DEF InfoArrived, SetSession, Blame
    <3>2. CASE flow[f].kind \notin {"single", "unbind"}
      <4>1. blame' = blame \cap {"late"}
        BY <2>1, <3>2 DEF InfoArrived
      <4>2. Batch(f)
        BY <1>1, <3>2, FlowNow, FlowFields DEF Batch, BatchOf, Busy
      <4>3. QED
        BY <4>1, <4>2
    <3>3. QED
      BY <3>1, <3>2
  <2>2. CASE TokenArrived(f) \/ TokensArrived(f) \/ PostFailed(f) \/ BindArrived(f) \/ BindFailed(f)
    BY <2>2 DEF TokenArrived, TokensArrived, PostFailed, BindArrived, BindFailed, SetSession, Blame
  <2>3. CASE InfoFailed(f)
    BY <2>3 DEF InfoFailed, SetSession, Blame
  <2>4. CASE Closure(f)
    BY <2>4 DEF Closure, StoreToken, DropKey, UndoSession, SetSession, Blame
  <2>5. QED
    BY <2>1, <2>2, <2>3, <2>4 DEF Answer
<1>5. blame \subseteq blame' \/ ~out \/ "late" \in blame'
  BY <1>4 DEF OutInv
<1>6. "late" \in blame => "late" \in blame'
  BY <1>4
<1>7. QED
  BY <1>1, <1>2, <1>3, <1>5, <1>6, OutDirty

LEMMA OutKill ==
    ASSUME TypeInv, OutInv, Kill
    PROVE  OutInv'
<1> USE DEF bounds, store, pages
<1>1. CASE AppEnds
  <2>1. /\ Forget("app") /\ UNCHANGED <<keys, disk, out>>
        /\ screen' = "off" /\ job' = Idle /\ blame \subseteq blame'
        /\ job.kind # "none" => "killed" \in blame'
    BY <1>1 DEF AppEnds, Blame, If
  <2>2. \A f \in Flows : (Batch(f)' => Batch(f)) /\ (Busy(f)' => Busy(f))
    BY <2>1, ForgetBatches DEF Process
  <2>3. Sessions("app")' = disk
    BY <2>1, ForgetGives, TypeInvImplies DEF Process, Sessions
  <2>4. Clean' => Clean /\ job.kind = "none"
    BY <2>1 DEF Clean
  <2>5. QED
    BY <2>1, <2>2, <2>3, <2>4 DEF OutInv, Idle, KeyPairsExist
<1>2. CASE KillKeyboard
  <2>1. Forget("keyboard") /\ UNCHANGED <<keys, disk, out, blame, screen, job>>
    BY <1>2 DEF KillKeyboard
  <2>2. \A f \in Flows : (Batch(f)' => Batch(f)) /\ (Busy(f)' => Busy(f))
    BY <2>1, ForgetBatches DEF Process
  <2>3. Sessions("app")' = Sessions("app")
    BY <2>1, ForgetGives, TypeInvImplies DEF Process, Sessions
  <2>4. QED
    BY <2>1, <2>2, <2>3 DEF OutInv, Clean, KeyPairsExist
<1>3. QED
  BY <1>1, <1>2 DEF Kill, KillApp, ImportTraps

LEMMA OutStep == TypeInv /\ OutInv /\ [Next]_vars => OutInv'
<1> SUFFICES ASSUME TypeInv, OutInv, [Next]_vars PROVE OutInv'
  OBVIOUS
<1>1. CASE UNCHANGED vars
  BY <1>1 DEF vars, store, pages, bounds, OutInv, Clean, Batch, Busy, Sessions, KeyPairsExist
<1>2. QED
  BY <1>1, OutAppStep, OutWelcomeStep, OutMainStep, OutKeyboardStep, OutAnswer, OutKill
     DEF Next, KeyboardStep

(* After a logout no session comes back to the defaults, unless a login    *)
(* was outstanding or the app was killed before the pairs were deleted.    *)
THEOREM NothingComesBack == Spec => []LoggedOutStaysOut
<1>1. Spec => [](TypeInv /\ OutInv)
  BY TypeInit, TypeStep, OutInit, OutStep, PTL DEF Spec
<1>2. OutInv => LoggedOutStaysOut
  BY DEF OutInv, Clean, LoggedOutStaysOut
<1>3. QED
  BY <1>1, <1>2, PTL

-----------------------------------------------------------------------------
(* A login that is reported is whole                                       *)

(* A registration or login that has not failed                             *)
Uses(x)           == x.step \in {"post", "store", "info", "bind"} /\ x.kind # "unbind"
HeldBy(x, ks)     == \A p \in UsersOf(x) : ks[p] = x.key[p]
StoredIn(x, l, d) ==
    /\ x.step = "store" =>
          \A i \in 1..Len(AllCases) : i < x.at => l /\ d[AllCases[i]].key = x.key[AllCases[i]]
    /\ x.step \in {"info", "bind"} =>
          l /\ \A p \in Platform : d[p] = [key |-> x.key[p], token |-> TRUE]

Held == \A f \in Flows : Uses(flow[f]) => HeldBy(flow[f], keys)

(* A batch shows on the welcome page and has the app to itself; a login of *)
(* the keyboard changes the keyboard's copy and the defaults only.         *)
Alone(f) == /\ screen = "welcome"
            /\ \A g \in Flows \ {f} : Busy(g) => flow[g].on = "keyboard"
Whole == \A f \in Flows :
    Batch(f) => Alone(f) /\ StoredIn(flow[f], loaded["app"], Sessions("app"))

(* The platforms whose pair the walk has made or imported                  *)
Renewing == job.kind \in {"import"} \cup Registering =>
    \A i \in 1..Len(AllCases) :
        i < job.at \/ (job.kind = "import" /\ job.at = 0) =>
            /\ job.kind \in Registering => keys[AllCases[i]] = made
            /\ \A f \in Flows : Busy(f) /\ flow[f].on = "app" => AllCases[i] \notin Users(f)

WholeInv == "late" \notin blame => Held /\ Whole /\ Renewing

(* y is the flow x after an answer or a closure.                           *)
Follows(x, y) ==
    \/ y.step = "idle"
    \/ /\ x.step # "idle" /\ y.key = x.key /\ y.kind = x.kind /\ y.on = x.on
       /\ Uses(y) => Uses(x)

FlowsFollow == \A g \in Flows : Follows(flow[g], flow'[g])
KeysKept    == \A g \in Flows : Uses(flow[g]) => \A p \in UsersOf(flow[g]) : keys'[p] = keys[p]
(* No flow of the app begins.                                              *)
NobodyJoins == \A g \in Flows : Busy(g)' =>
    flow'[g].on = "keyboard" \/ (Busy(g) /\ flow'[g].on = flow[g].on)

LEMMA BatchIs ==
    ASSUME TypeInv, NEW f \in Flows, Batch(f)
    PROVE  /\ Busy(f) /\ flow[f].on = "app" /\ Users(f) = Platform
           /\ UsersOf(flow[f]) = Platform /\ flow[f].kind \in Registering \cup {"restore"}
BY FlowNow DEF Batch, BatchOf, Busy, FlowShape

LEMMA NoBatch ==
    ASSUME Whole, screen # "welcome"
    PROVE  \A f \in Flows : ~Batch(f)
BY DEF Whole, Alone

(* A batch leaves no room for another flow of the app.                     *)
LEMMA OneBatch ==
    ASSUME TypeInv, Whole, NEW f \in Flows, Batch(f), NEW g \in Flows, Busy(g), flow[g].on = "app"
    PROVE  g = f
BY DEF Whole, Alone

LEMMA NotLate ==
    ASSUME NEW p \in Platform, NEW fs, "late" \notin Late(p, fs)
    PROVE  \A g \in fs : Busy(g) => p \notin Users(g)
BY DEF Late, If

LEMMA SetKeepsKeys ==
    ASSUME TypeInv, NEW p \in Platform, NEW k \in Key, SetKey(p, k),
           \A g \in Flows : Uses(flow[g]) => p \notin UsersOf(flow[g])
    PROVE  KeysKept
<1>1. \A r \in Platform \ {p} : keys'[r] = keys[r]
  BY KeysType, TypeInvImplies
<1>2. QED
  BY <1>1 DEF KeysKept, UsersOf

LEMMA SameFollows ==
    /\ UNCHANGED flow => FlowsFollow
    /\ UNCHANGED keys => KeysKept
    /\ FlowsFollow => NobodyJoins
    /\ FlowsFollow => \A g \in Flows : Batch(g)' => Batch(g)
<1>1. UNCHANGED flow => FlowsFollow
  BY DEF FlowsFollow, Follows
<1>2. UNCHANGED keys => KeysKept
  BY DEF KeysKept
<1>3. FlowsFollow => NobodyJoins
  BY DEF FlowsFollow, Follows, NobodyJoins, Busy
<1>4. FlowsFollow => \A g \in Flows : Batch(g)' => Batch(g)
  BY DEF FlowsFollow, Follows, Batch, BatchOf
<1>5. QED
  BY <1>1, <1>2, <1>3, <1>4

LEMMA HeldKept ==
    ASSUME Held, FlowsFollow, KeysKept
    PROVE  Held'
<1> SUFFICES ASSUME NEW f \in Flows, Uses(flow'[f]), NEW p \in UsersOf(flow'[f])
             PROVE  keys'[p] = flow'[f].key[p]
  BY DEF Held, HeldBy
<1>1. Uses(flow[f]) /\ flow'[f].key = flow[f].key
  BY DEF FlowsFollow, Follows, Uses
<1>2. p \in UsersOf(flow[f])
  BY <1>1 DEF UsersOf
<1>3. QED
  BY <1>1, <1>2 DEF Held, HeldBy, KeysKept

LEMMA WholeKept ==
    ASSUME Whole, NobodyJoins, screen' = screen,
           loaded["app"] => loaded'["app"] /\ Sessions("app")' = Sessions("app"),
           \A g \in Flows : Batch(g)' => flow'[g] = flow[g]
    PROVE  Whole'
<1> SUFFICES ASSUME NEW f \in Flows, Batch(f)'
             PROVE  Alone(f)' /\ StoredIn(flow[f], loaded["app"], Sessions("app"))'
  BY DEF Whole
<1>1. flow'[f] = flow[f] /\ Batch(f)
  BY DEF Batch
<1>2. Alone(f) /\ StoredIn(flow[f], loaded["app"], Sessions("app"))
  BY <1>1 DEF Whole
<1>3. Alone(f)'
  BY <1>2 DEF Alone, NobodyJoins
<1>4. StoredIn(flow'[f], loaded'["app"], Sessions("app")')
  BY <1>1, <1>2 DEF StoredIn
<1>5. QED
  BY <1>3, <1>4

LEMMA RenewingKept ==
    ASSUME Renewing, NobodyJoins, \A g \in Flows : Busy(g)' /\ Busy(g) => flow'[g].key = flow[g].key,
           UNCHANGED <<job, made>>,
           job.kind \in Registering => \A i \in 1..Len(AllCases) :
                                     i < job.at => keys'[AllCases[i]] = keys[AllCases[i]]
    PROVE  Renewing'
<1> SUFFICES ASSUME job.kind \in {"import"} \cup Registering, NEW i \in 1..Len(AllCases),
                    i < job.at \/ (job.kind = "import" /\ job.at = 0)
             PROVE  /\ job.kind \in Registering => keys'[AllCases[i]] = made
                    /\ \A f \in Flows : Busy(f)' /\ flow'[f].on = "app" => AllCases[i] \notin Users(f)'
  BY DEF Renewing
<1>1. /\ job.kind \in Registering => keys[AllCases[i]] = made
      /\ \A f \in Flows : Busy(f) /\ flow[f].on = "app" => AllCases[i] \notin Users(f)
  BY DEF Renewing
<1>2. job.kind \in Registering => keys'[AllCases[i]] = made
  BY <1>1
<1>3. ASSUME NEW f \in Flows, Busy(f)', flow'[f].on = "app"
      PROVE  AllCases[i] \notin Users(f)'
  <2>1. Busy(f) /\ flow[f].on = "app" /\ flow'[f].key = flow[f].key
    BY <1>3 DEF NobodyJoins
  <2>2. QED
    BY <1>1, <2>1 DEF Users
<1>4. QED
  BY <1>2, <1>3

LEMMA NotRenewing ==
    ASSUME job'.kind \notin {"import"} \cup Registering
    PROVE  Renewing'
BY DEF Renewing

(* Another flow than a batch stores a session.                             *)
LEMMA SetElsewhere ==
    ASSUME TypeInv, Whole, NEW f \in Flows, Busy(f), ~Batch(f), NEW p \in Platform,
           NEW s \in Session, SetSession(flow[f].on, p, s), FlowsFollow, screen' = screen,
           \A g \in Flows \ {f} : flow'[g] = flow[g]
    PROVE  Whole'
<1> DEFINE q == flow[f].on
<1>1. q \in Process
  BY FlowNow, FlowFields
<1>2. \A g \in Flows : Batch(g)' => Batch(g) /\ g # f
  BY SameFollows
<1>3. CASE q = "app"
  <2>1. \A g \in Flows : ~Batch(g)
    BY <1>3, OneBatch
  <2>2. QED
    BY <1>2, <2>1 DEF Whole
<1>4. CASE q # "app"
  <2>1. PICK d \in [Platform -> Session] : Save(q, d)
    BY <1>1, SetGives, TypeInvImplies
  <2>2. /\ loaded'["app"] = loaded["app"]
        /\ Sessions("app")' = IF loaded["app"] THEN Sessions("app") ELSE d
    BY <1>1, <1>4, <2>1, SaveGives, TypeInvImplies DEF Process
  <2>3. \A g \in Flows : Batch(g)' => flow'[g] = flow[g]
    BY <1>2
  <2>4. QED
    BY <2>2, <2>3, SameFollows, WholeKept
<1>5. QED
  BY <1>3, <1>4

LEMMA FollowsOf ==
    ASSUME NEW f \in Flows, NEW x, Changed(f, x), Follows(flow[f], x)
    PROVE  FlowsFollow
BY DEF Changed, FlowsFollow, Follows

LEMMA AnswerFollows ==
    ASSUME TypeInv, NEW f \in Flows, Answer(f) \/ Closure(f)
    PROVE  Busy(f) /\ FlowsFollow /\ \A g \in Flows \ {f} : flow'[g] = flow[g]
<1>1. Busy(f)
  BY AnswerBatches
<1>2. \/ Done(f)
      \/ \E step \in {"store", "info", "bind"} :
            Step(f, step) /\ flow[f].step \in {"post", "store", "info"}
      \/ \E step \in {"refuse", "drop", "undo"} : Step(f, step)
      \/ flow[f].at < Len(AllCases) /\ flow' = [flow EXCEPT ![f].at = @ + 1]
  <2>1. CASE Answer(f)
    BY <2>1 DEF Answer, Answered, TokenArrived, TokensArrived, PostFailed, InfoArrived,
          InfoFailed, BindArrived, BindFailed, Undoing
  <2>2. CASE Closure(f)
    BY <2>2 DEF Closure, StoreToken, DropKey, UndoSession, Advance, Undoing
  <2>3. QED
    BY <2>1, <2>2
<1>3. \E x : Changed(f, x) /\ Follows(flow[f], x)
  <2>1. CASE Done(f)
    BY <2>1, DoneGives, TypeInvImplies DEF Follows, NoFlow
  <2>2. ASSUME NEW step \in {"store", "info", "bind"}, Step(f, step),
               flow[f].step \in {"post", "store", "info"}
        PROVE  \E x : Changed(f, x) /\ Follows(flow[f], x)
    <3>1. PICK x \in FlowType :
              /\ Changed(f, x) /\ x.on = flow[f].on /\ x.kind = flow[f].kind
              /\ x.key = flow[f].key /\ x.step = step
      BY <2>2, StepGives, TypeInvImplies
    <3>2. QED
      BY <2>2, <3>1 DEF Follows, Uses
  <2>3. ASSUME NEW step \in {"refuse", "drop", "undo"}, Step(f, step)
        PROVE  \E x : Changed(f, x) /\ Follows(flow[f], x)
    <3>1. PICK x \in FlowType :
              /\ Changed(f, x) /\ x.on = flow[f].on /\ x.kind = flow[f].kind
              /\ x.key = flow[f].key /\ x.step = step
      BY <2>3, StepGives, TypeInvImplies
    <3>2. QED
      BY <1>1, <3>1 DEF Follows, Uses, Busy
  <2>4. CASE flow[f].at < Len(AllCases) /\ flow' = [flow EXCEPT ![f].at = @ + 1]
    <3>1. PICK x \in FlowType :
              /\ Changed(f, x) /\ x.on = flow[f].on /\ x.kind = flow[f].kind
              /\ x.key = flow[f].key /\ x.step = flow[f].step
      BY <2>4, MoreGives, TypeInvImplies
    <3>2. QED
      BY <1>1, <3>1 DEF Follows, Uses, Busy
  <2>5. QED
    BY <1>2, <2>1, <2>2, <2>3, <2>4
<1>4. QED
  BY <1>1, <1>3, FollowsOf DEF Changed

LEMMA ForgetFollows ==
    ASSUME TypeInv, NEW q \in Process, Forget(q)
    PROVE  FlowsFollow /\ \A g \in Flows : Busy(g)' => flow'[g] = flow[g] /\ flow[g].on # q
<1>1. \A f \in Flows : flow'[f] = IF flow[f].on = q THEN NoFlow ELSE flow[f]
  BY ForgetGives, TypeInvImplies
<1>2. QED
  BY <1>1 DEF FlowsFollow, Follows, NoFlow, Busy

LEMMA FollowedKeys ==
    ASSUME FlowsFollow
    PROVE  \A g \in Flows : Busy(g)' /\ Busy(g) => flow'[g].key = flow[g].key
BY DEF FlowsFollow, Follows, Busy

(* A flow that starts holds the pairs of the defaults.                     *)
LEMMA HeldStart ==
    ASSUME Held, KeysKept, NEW f \in Flows, NEW x, Changed(f, x),
           Uses(x) => HeldBy(x, keys')
    PROVE  Held'
<1> SUFFICES ASSUME NEW g \in Flows, Uses(flow'[g])
             PROVE  HeldBy(flow'[g], keys')
  BY DEF Held
<1>1. CASE g = f
  BY <1>1 DEF Changed
<1>2. CASE g # f
  <2>1. flow'[g] = flow[g] /\ HeldBy(flow[g], keys)
    BY <1>2 DEF Changed, Held
  <2>2. QED
    BY <2>1 DEF HeldBy, KeysKept
<1>3. QED
  BY <1>1, <1>2

LEMMA SomeUser ==
    ASSUME TypeInv, NEW f \in Flows, Busy(f)
    PROVE  \E r \in Platform : r \in Users(f)
<1>1. CASE flow[f].kind \in {"single", "unbind"}
  BY <1>1, OneGives
<1>2. CASE flow[f].kind \in Registering \cup {"restore"}
  BY <1>2, BatchIs, Cases DEF Batch, BatchOf, Busy
<1>3. QED
  BY <1>1, <1>2, FlowNow, FlowFields

LEMMA WholeInit == Init => WholeInv
<1> SUFFICES ASSUME Init PROVE WholeInv
  OBVIOUS
<1>1. \A f \in Flows : flow[f].step = "idle"
  BY DEF Init, NoFlow
<1>2. Held /\ Whole
  BY <1>1 DEF Held, Whole, Uses, Batch, BatchOf
<1>3. Renewing
  BY DEF Init, Renewing, Idle
<1>4. QED
  BY <1>2, <1>3 DEF WholeInv

LEMMA WholeAppStep ==
    ASSUME TypeInv, WholeInv, AppStep
    PROVE  WholeInv'
<1> USE DEF bounds, store, pages
<1> SUFFICES ASSUME "late" \notin blame' PROVE Held' /\ Whole' /\ Renewing'
  BY DEF WholeInv
<1>0. "late" \notin blame /\ Held /\ Whole /\ Renewing
  <2>1. blame \subseteq blame'
    BY DEF AppStep, Launch, StartPlatform, EnterMain, TokensRejected, RenewSessions, Blame
  <2>2. QED
    BY <2>1 DEF WholeInv
<1>1. CASE Launch
  <2>1. screen = "off" /\ UNCHANGED <<keys, flow>> /\ (job' = job \/ job'.kind = "start")
    BY <1>1 DEF Launch
  <2>2. Held'
    BY <1>0, <2>1, SameFollows, HeldKept
  <2>3. Whole'
    BY <1>0, <2>1, NoBatch DEF Whole, Batch
  <2>4. job'.kind \notin {"import"} \cup Registering
    BY <2>1 DEF TypeInv, JobOK, JobShape
  <2>5. QED
    BY <2>2, <2>3, <2>4, NotRenewing
<1>2. CASE StartPlatform
  <2> DEFINE p == AllCases[job.at]
  <2>1. /\ p \in Platform
        /\ (job' = Idle \/ job'.kind = "start")
    BY <1>2, NextCaseGives DEF StartPlatform
  <2>2. Renewing'
    BY <2>1, NotRenewing DEF Idle
  <2>3. screen = "starting"
    BY <1>2 DEF StartPlatform, TypeInv, JobOK, JobShape
  <2>4. \A g \in Flows : ~Batch(g)
    BY <1>0, <2>3, NoBatch
  <2>5. CASE Sessions("app")[p] = NoOne
    <3>1. /\ SetKey(p, made) /\ Start("app", "single", "post", Only(p, made))
          /\ "late" \notin Late(p, Flows)
      BY <1>2, <2>5 DEF StartPlatform, Blame
    <3>2. made \in Key
      BY DEF TypeInv, JobOK, Key
    <3> HIDE DEF p
    <3>3. PICK f \in Flows, x \in FlowType : Changed(f, x) /\ x.kind = "single" /\ x.key = Only(p, made)
      BY <2>1, <3>1, <3>2, OnlyType, StartGives, TypeInvImplies DEF Process
    <3>4. \A g \in Flows : Uses(flow[g]) => p \notin UsersOf(flow[g])
      BY <2>1, <3>1, NotLate DEF Uses, Busy, Users, UsersOf
    <3>5. KeysKept
      BY <2>1, <3>1, <3>2, <3>4, SetKeepsKeys
    <3>6. HeldBy(x, keys')
      <4>1. keys'[p] = made
        BY <2>1, <3>1, <3>2, KeysType, TypeInvImplies
      <4>2. QED
        BY <2>1, <3>2, <3>3, <4>1, OnlyType DEF HeldBy, UsersOf
    <3>7. Held'
      BY <1>0, <3>3, <3>5, <3>6, HeldStart
    <3>8. \A g \in Flows : ~Batch(g)'
      BY <2>4, <3>3, BatchesOf DEF BatchOf
    <3>9. QED
      BY <2>2, <3>7, <3>8 DEF Whole
  <2>6. CASE Sessions("app")[p] # NoOne
    <3>1. UNCHANGED <<keys, flow>>
      BY <1>2, <2>6 DEF StartPlatform
    <3>2. Held' /\ Whole'
      BY <1>0, <2>4, <3>1, SameFollows, HeldKept DEF Whole, Batch
    <3>3. QED
      BY <2>2, <3>2
  <2>7. QED
    BY <2>5, <2>6
<1>3. CASE EnterMain \/ TokensRejected
  <2>1. /\ screen \in {"starting", "main"} /\ job' = job /\ job.kind = "none"
        /\ UNCHANGED <<keys, flow>>
    BY <1>3 DEF EnterMain, TokensRejected, Free
  <2>2. Held'
    BY <1>0, <2>1, SameFollows, HeldKept
  <2>3. Whole'
    BY <1>0, <2>1, NoBatch DEF Whole, Batch
  <2>4. QED
    BY <2>1, <2>2, <2>3, NotRenewing
<1>4. CASE RenewSessions
  <2>1. UNCHANGED <<keys, flow, job, made, screen>> /\ Save("app", Sessions("app"))
    BY <1>4 DEF RenewSessions
  <2>2. loaded'["app"] = TRUE /\ Sessions("app")' = Sessions("app")
    BY <2>1, SaveGives, SessionsType, TypeInvImplies DEF Process
  <2>3. Held'
    BY <1>0, <2>1, SameFollows, HeldKept
  <2>4. Whole'
    BY <1>0, <2>1, <2>2, SameFollows, WholeKept
  <2>5. Renewing'
    BY <1>0, <2>1, SameFollows, RenewingKept
  <2>6. QED
    BY <2>3, <2>4, <2>5
<1>5. QED
  BY <1>1, <1>2, <1>3, <1>4 DEF AppStep

LEMMA WholeWelcomeStep ==
    ASSUME TypeInv, WholeInv, WelcomeStep
    PROVE  WholeInv'
<1> USE DEF bounds, store, pages
<1> SUFFICES ASSUME "late" \notin blame' PROVE Held' /\ Whole' /\ Renewing'
  BY DEF WholeInv
<1>0. "late" \notin blame /\ Held /\ Whole /\ Renewing
  <2>1. blame \subseteq blame'
    BY WelcomeIs DEF Turns, Begins, CreatePlatform, ImportPlatform, LoginBatch, Blame
  <2>2. QED
    BY <2>1 DEF WholeInv
<1>1. CASE Begins
  <2>1. UNCHANGED <<keys, flow, screen, disk, loaded, loginUser>> /\ job'.at = 1
    BY <1>1 DEF Begins
  <2>2. Held'
    BY <1>0, <2>1, SameFollows, HeldKept
  <2>3. Whole'
    BY <1>0, <2>1, SameFollows, WholeKept DEF Sessions
  <2>4. Renewing'
    BY <2>1 DEF Renewing
  <2>5. QED
    BY <2>2, <2>3, <2>4
<1>2. CASE CreatePlatform
  <2> DEFINE p == AllCases[job.at]
  <2>1. /\ p \in Platform /\ job.at \in 1..Len(AllCases) /\ job.kind \in Registering
        /\ \/ job' = Idle /\ job.at = Len(AllCases)
           \/ job' # Idle /\ job'.kind \in Registering /\ job'.at = job.at + 1
    BY <1>2, NextCaseGives DEF CreatePlatform
  <2>2. /\ SetKey(p, made) /\ "late" \notin Late(p, Flows)
        /\ UNCHANGED <<disk, loaded, loginUser, screen, made>>
    BY <1>2 DEF CreatePlatform, Blame
  <2>3. made \in Key
    BY DEF TypeInv, JobOK, Key
  <2>4. p = AllCases[job.at]
    OBVIOUS
  <2> HIDE DEF p
  <2>5. \A g \in Flows : Busy(g) => p \notin Users(g)
    BY <2>1, <2>2, NotLate
  <2>6. \A g \in Flows : ~Batch(g)
    BY <2>1, <2>5, BatchIs
  <2>7. KeysKept
    BY <2>1, <2>2, <2>3, <2>5, SetKeepsKeys DEF Uses, Busy, Users, UsersOf
  <2>8. keys'[p] = made /\ \A r \in Platform \ {p} : keys'[r] = keys[r]
    BY <2>1, <2>2, <2>3, KeysType, TypeInvImplies
  <2>9. \A i \in 1..Len(AllCases) : i <= job.at =>
           /\ keys'[AllCases[i]] = made
           /\ \A f \in Flows : Busy(f) /\ flow[f].on = "app" => AllCases[i] \notin Users(f)
    <3> SUFFICES ASSUME NEW i \in 1..Len(AllCases), i <= job.at
                 PROVE  /\ keys'[AllCases[i]] = made
                        /\ \A f \in Flows : Busy(f) /\ flow[f].on = "app" => AllCases[i] \notin Users(f)
      OBVIOUS
    <3>1. CASE i = job.at
      BY <2>4, <2>5, <2>8, <3>1
    <3>2. CASE i < job.at
      <4>1. /\ keys[AllCases[i]] = made
            /\ \A f \in Flows : Busy(f) /\ flow[f].on = "app" => AllCases[i] \notin Users(f)
        BY <1>0, <2>1, <3>2 DEF Renewing
      <4>2. AllCases[i] \in Platform \ {p}
        BY <2>1, <2>4, <3>2, Cases
      <4>3. QED
        BY <2>8, <4>1, <4>2
    <3>3. QED
      BY <2>1, <3>1, <3>2, Cases
  <2>10. CASE job' # Idle
    <3>1. flow' = flow
      BY <1>2, <2>10 DEF CreatePlatform
    <3>2. Held'
      BY <1>0, <2>7, <3>1, SameFollows, HeldKept
    <3>3. Whole'
      BY <2>6, <3>1 DEF Whole, Batch
    <3>4. Renewing'
      <4>1. job'.kind \in Registering /\ job'.at = job.at + 1 /\ job.at \in Nat
        BY <2>1, <2>10, Cases
      <4>2. \A i \in 1..Len(AllCases) : i < job'.at => i <= job.at
        BY <4>1, Cases
      <4>3. \A f \in Flows : Busy(f)' = Busy(f) /\ Users(f)' = Users(f)
        BY <3>1 DEF Busy, Users
      <4>4. QED
        BY <2>2, <2>9, <3>1, <4>1, <4>2, <4>3 DEF Renewing
    <3>5. QED
      BY <3>2, <3>3, <3>4
  <2>11. CASE job' = Idle
    <3> DEFINE key == [r \in Platform |-> made]
    <3>1. Start("app", job.kind, "post", key)
      BY <1>2, <2>11 DEF CreatePlatform
    <3>2. key \in [Platform -> Key] /\ \A r \in Platform : key[r] = made
      BY <2>3
    <3> HIDE DEF key
    <3>3. PICK f \in Flows, x \in FlowType :
              Changed(f, x) /\ x.on = "app" /\ x.key = key /\ x.step = "post"
      <4>1. job.kind \in Kinds
        BY <1>2 DEF CreatePlatform
      <4>2. QED
        BY <3>1, <3>2, <4>1, StartGives, TypeInvImplies DEF Process
    <3>4. \A r \in Platform : keys'[r] = made
      <4> SUFFICES ASSUME NEW r \in Platform PROVE keys'[r] = made
        OBVIOUS
      <4>1. PICK i \in 1..Len(AllCases) : r = AllCases[i]
        BY Cases
      <4>2. job.at = Len(AllCases)
        BY <2>1, <2>11
      <4>3. i <= job.at
        BY <4>2, Cases
      <4>4. QED
        BY <2>9, <4>1, <4>3
    <3>5. Held'
      BY <1>0, <2>7, <3>2, <3>3, <3>4, HeldStart DEF HeldBy, UsersOf
    <3>6. \A g \in Flows : Busy(g) => flow[g].on # "app"
      <4> SUFFICES ASSUME NEW g \in Flows, Busy(g), flow[g].on = "app" PROVE FALSE
        OBVIOUS
      <4>1. PICK r \in Platform : r \in Users(g)
        BY SomeUser
      <4>2. PICK i \in 1..Len(AllCases) : r = AllCases[i]
        BY Cases
      <4>3. i <= job.at
        BY <2>1, <2>11, Cases
      <4>4. QED
        BY <2>9, <4>1, <4>2, <4>3
    <3>7. screen' = "welcome"
      BY <2>1, <2>2 DEF TypeInv, JobOK, JobShape
    <3>8. Alone(f)'
      <4> SUFFICES ASSUME NEW g \in Flows \ {f}, Busy(g)' PROVE flow'[g].on = "keyboard"
        BY <3>7 DEF Alone
      <4>1. flow'[g] = flow[g] /\ Busy(g)
        BY <3>3 DEF Changed, Busy
      <4>2. QED
        BY <3>6, <4>1, FlowNow, FlowFields DEF Process
    <3>9. Whole'
      <4> SUFFICES ASSUME NEW g \in Flows, Batch(g)'
                   PROVE  Alone(g)' /\ StoredIn(flow[g], loaded["app"], Sessions("app"))'
        BY DEF Whole
      <4>1. g = f
        BY <2>6, <3>3 DEF Changed, Batch
      <4>2. StoredIn(flow'[f], loaded'["app"], Sessions("app")')
        BY <3>3 DEF StoredIn, Changed
      <4>3. QED
        BY <3>8, <4>1, <4>2
    <3>10. Renewing'
      BY <2>11, NotRenewing DEF Idle
    <3>11. QED
      BY <3>5, <3>9, <3>10
  <2>12. QED
    BY <2>10, <2>11
<1>3. CASE ImportPlatform
  <2> DEFINE p == AllCases[job.at]
             k == IF backup[p] # 0 THEN backup[p] ELSE made
  <2>1. job \in Jobs /\ job.kind = "import" /\ job.at \in 1..Len(AllCases)
    BY <1>3, Cases DEF ImportPlatform, TypeInv, JobOK, Jobs
  <2>2. job' = [kind |-> "import", at |-> IF job.at < Len(AllCases) THEN job.at + 1 ELSE 0]
    BY <1>3, <2>1 DEF ImportPlatform, Jobs
  <2>3. p \in Platform /\ k \in Key
    BY <2>1, Cases, BoundAssumption DEF TypeInv, JobOK, RestOK, Key
  <2>4. /\ SetKey(p, k) /\ "late" \notin Late(p, Flows)
        /\ UNCHANGED <<disk, loaded, loginUser, screen, made, flow>>
    BY <1>3 DEF ImportPlatform, Blame
  <2>5. p = AllCases[job.at]
    OBVIOUS
  <2> HIDE DEF p, k
  <2>6. \A g \in Flows : Busy(g) => p \notin Users(g)
    BY <2>3, <2>4, NotLate
  <2>7. \A g \in Flows : ~Batch(g)
    BY <2>3, <2>6, BatchIs
  <2>8. KeysKept
    BY <2>3, <2>4, <2>6, SetKeepsKeys DEF Uses, Busy, Users, UsersOf
  <2>9. Held'
    BY <1>0, <2>4, <2>8, SameFollows, HeldKept
  <2>10. Whole'
    BY <2>4, <2>7 DEF Whole, Batch
  <2>11. Renewing'
    <3> SUFFICES ASSUME NEW i \in 1..Len(AllCases), i < job'.at \/ job'.at = 0,
                        NEW f \in Flows, Busy(f), flow[f].on = "app"
                 PROVE  AllCases[i] \notin Users(f)
      <4>1. \A f \in Flows : Busy(f)' = Busy(f) /\ Users(f)' = Users(f) /\ flow'[f] = flow[f]
        BY <2>4 DEF Busy, Users
      <4>2. job'.kind = "import"
        BY <2>2
      <4>3. QED
        BY <4>1, <4>2 DEF Renewing
    <3>1. CASE i = job.at
      BY <2>5, <2>6, <3>1
    <3>2. CASE i < job.at
      BY <1>0, <2>1, <3>2 DEF Renewing
    <3>3. i <= job.at
      BY <2>1, <2>2, Cases
    <3>4. QED
      BY <2>1, <3>1, <3>2, <3>3, Cases
  <2>12. QED
    BY <2>9, <2>10, <2>11
<1>4. CASE LoginBatch
  <2>1. /\ job.kind = "import" /\ job.at = 0 /\ job' = Idle
        /\ Start("app", "restore", "post", keys)
        /\ UNCHANGED <<keys, disk, loaded, loginUser, screen>>
    BY <1>4 DEF LoginBatch, Imported
  <2>2. PICK f \in Flows, x \in FlowType :
            Changed(f, x) /\ x.on = "app" /\ x.key = keys /\ x.step = "post"
    BY <2>1, StartGives, TypeInvImplies DEF Process, TypeInv, RestOK
  <2>3. Held'
    BY <1>0, <2>1, <2>2, SameFollows, HeldStart DEF HeldBy, UsersOf
  <2>4. \A g \in Flows : Busy(g) => flow[g].on # "app"
    <3> SUFFICES ASSUME NEW g \in Flows, Busy(g), flow[g].on = "app" PROVE FALSE
      OBVIOUS
    <3>1. PICK r \in Platform : r \in Users(g)
      BY SomeUser
    <3>2. PICK i \in 1..Len(AllCases) : r = AllCases[i]
      BY Cases
    <3>3. QED
      BY <1>0, <2>1, <3>1, <3>2 DEF Renewing
  <2>5. \A g \in Flows : ~Batch(g)
    BY <2>4, BatchIs
  <2>6. screen' = "welcome"
    BY <2>1 DEF TypeInv, JobOK, JobShape
  <2>7. Alone(f)'
    <3> SUFFICES ASSUME NEW g \in Flows \ {f}, Busy(g)' PROVE flow'[g].on = "keyboard"
      BY <2>6 DEF Alone
    <3>1. flow'[g] = flow[g] /\ Busy(g)
      BY <2>2 DEF Changed, Busy
    <3>2. QED
      BY <2>4, <3>1, FlowNow, FlowFields DEF Process
  <2>8. Whole'
    <3> SUFFICES ASSUME NEW g \in Flows, Batch(g)'
                 PROVE  Alone(g)' /\ StoredIn(flow[g], loaded["app"], Sessions("app"))'
      BY DEF Whole
    <3>1. g = f
      BY <2>2, <2>5 DEF Changed, Batch
    <3>2. StoredIn(flow'[f], loaded'["app"], Sessions("app")')
      BY <2>2 DEF StoredIn, Changed
    <3>3. QED
      BY <2>7, <3>1, <3>2
  <2>9. Renewing'
    BY <2>1, NotRenewing DEF Idle
  <2>10. QED
    BY <2>3, <2>8, <2>9
<1>5. CASE Turns
  <2>1. UNCHANGED <<keys, flow, screen, disk, loaded, loginUser, job, made>>
    BY <1>5 DEF Turns
  <2>2. Held'
    BY <1>0, <2>1, SameFollows, HeldKept
  <2>3. Whole'
    BY <1>0, <2>1, SameFollows, WholeKept DEF Sessions
  <2>4. Renewing'
    BY <1>0, <2>1, SameFollows, RenewingKept
  <2>5. QED
    BY <2>2, <2>3, <2>4
<1>6. QED
  BY <1>1, <1>2, <1>3, <1>4, <1>5, WelcomeIs

LEMMA WholeMainStep ==
    ASSUME TypeInv, WholeInv, MainStep
    PROVE  WholeInv'
<1> USE DEF bounds, store, pages
<1> SUFFICES ASSUME "late" \notin blame' PROVE Held' /\ Whole' /\ Renewing'
  BY DEF WholeInv
<1>1. CASE Backup
  <2>1. UNCHANGED <<keys, flow, blame, screen, job, made, disk, loaded, loginUser>>
    BY <1>1 DEF Backup
  <2>2. Held /\ Whole /\ Renewing
    BY <2>1 DEF WholeInv
  <2>3. Held'
    BY <2>1, <2>2, SameFollows, HeldKept
  <2>4. Whole'
    BY <2>1, <2>2, SameFollows, WholeKept DEF Sessions
  <2>5. Renewing'
    BY <2>1, <2>2, SameFollows, RenewingKept
  <2>6. QED
    BY <2>3, <2>4, <2>5
<1>2. ASSUME NEW p \in Platform, Unbind(p)
      PROVE  Held' /\ Whole' /\ Renewing'
  <2> DEFINE key == Only(p, Sessions("app")[p].key)
  <2>1. /\ Start("app", "unbind", "info", key) /\ UNCHANGED <<keys, job, blame>>
        /\ screen = "main" /\ job.kind = "none"
    BY <1>2 DEF Unbind, Free
  <2>2. Held /\ Whole
    BY <2>1 DEF WholeInv
  <2>3. key \in [Platform -> Key]
    BY OnlyType, SessionsType, TypeInvImplies, Values DEF Process
  <2> HIDE DEF key
  <2>4. PICK f \in Flows, x \in FlowType : Changed(f, x) /\ x.kind = "unbind"
    BY <2>1, <2>3, StartGives, TypeInvImplies DEF Process
  <2>5. Held'
    BY <2>1, <2>2, <2>4, SameFollows, HeldStart DEF Uses
  <2>6. \A g \in Flows : ~Batch(g)'
    BY <2>1, <2>2, <2>4, NoBatch, BatchesOf DEF BatchOf
  <2>7. QED
    BY <2>1, <2>5, <2>6, NotRenewing DEF Whole
<1>3. CASE LogoutAll
  <2>1. flow' = flow /\ keys' = keys /\ job'.kind = "delete" /\ screen = "main"
    BY <1>3 DEF LogoutAll, Free
  <2>2. Renewing'
    BY <2>1, NotRenewing
  <2>3. CASE AllTokens("app")
    <3>1. blame' = If("late", \E f \in Flows : Busy(f))
      BY <1>3, <2>3 DEF LogoutAll
    <3>2. \A f \in Flows : ~Busy(f)
      BY <3>1 DEF If
    <3>3. Held' /\ Whole'
      BY <2>1, <3>2 DEF Held, Whole, Uses, Batch, BatchOf, Busy
    <3>4. QED
      BY <2>2, <3>3
  <2>4. CASE ~AllTokens("app")
    <3>1. "late" \notin blame
      BY <1>3, <2>4 DEF LogoutAll, Blame
    <3>2. Held /\ Whole
      BY <3>1 DEF WholeInv
    <3>3. Held'
      BY <2>1, <3>2, SameFollows, HeldKept
    <3>4. Whole'
      BY <2>1, <3>2, NoBatch DEF Whole, Batch
    <3>5. QED
      BY <2>2, <3>3, <3>4
  <2>5. QED
    BY <2>3, <2>4
<1>4. CASE DeletePlatform
  <2> DEFINE p == AllCases[job.at]
  <2>1. /\ p \in Platform /\ (job' = Idle \/ job'.kind = "delete")
    BY <1>4, NextCaseGives DEF DeletePlatform
  <2>2. /\ job.kind = "delete" /\ SetKey(p, 0) /\ flow' = flow
        /\ "late" \notin blame /\ "late" \notin Late(p, Flows)
    BY <1>4 DEF DeletePlatform, Blame
  <2>3. Held /\ Whole /\ screen = "main"
    BY <2>2 DEF WholeInv, TypeInv, JobOK, JobShape
  <2> HIDE DEF p
  <2>4. KeysKept
    BY <2>1, <2>2, NotLate, SetKeepsKeys, Values DEF Uses, Busy, Users, UsersOf
  <2>5. Held'
    BY <2>2, <2>3, <2>4, SameFollows, HeldKept
  <2>6. Whole'
    BY <2>2, <2>3, NoBatch DEF Whole, Batch
  <2>7. QED
    BY <2>1, <2>5, <2>6, NotRenewing DEF Idle
<1>5. QED
  BY <1>1, <1>2, <1>3, <1>4 DEF MainStep

LEMMA WholeKeyboardStep ==
    ASSUME TypeInv, WholeInv, NEW p \in Platform, KeyboardLogin(p)
    PROVE  WholeInv'
<1> USE DEF bounds, store, pages
<1> SUFFICES ASSUME "late" \notin blame' PROVE Held' /\ Whole' /\ Renewing'
  BY DEF WholeInv
<1>1. UNCHANGED <<keys, disk, job, made, screen>> /\ Load("keyboard")
  BY DEF KeyboardLogin
<1>2. Sessions("app")' = Sessions("app") /\ (loaded["app"] => loaded'["app"])
  BY <1>1, LoadGives, TypeInvImplies DEF Process
<1>3. Held /\ Whole /\ Renewing
  BY DEF KeyboardLogin, Blame, WholeInv
<1>4. CASE keys[p] # 0
  <2>1. Start("keyboard", "single", "post", Only(p, keys[p])) /\ keys[p] \in Key
    BY <1>4 DEF KeyboardLogin, TypeInv, RestOK
  <2>2. PICK f \in Flows, x \in FlowType :
            /\ ~Busy(f) /\ Changed(f, x) /\ x.on = "keyboard" /\ x.kind = "single"
            /\ x.key = Only(p, keys[p])
    BY <2>1, OnlyType, StartGives, TypeInvImplies DEF Process
  <2>3. HeldBy(x, keys')
    BY <1>1, <2>1, <2>2, OnlyType DEF HeldBy, UsersOf
  <2>4. Held'
    BY <1>1, <1>3, <2>2, <2>3, SameFollows, HeldStart
  <2>5. NobodyJoins
    BY <2>2 DEF Changed, NobodyJoins, Busy
  <2>6. \A g \in Flows : Batch(g)' => flow'[g] = flow[g]
    BY <2>2 DEF Changed, Batch, BatchOf
  <2>7. Whole'
    BY <1>1, <1>2, <1>3, <2>5, <2>6, WholeKept
  <2>8. \A g \in Flows : Busy(g)' /\ Busy(g) => flow'[g].key = flow[g].key
    BY <2>2 DEF Changed
  <2>9. Renewing'
    BY <1>1, <1>3, <2>5, <2>8, RenewingKept
  <2>10. QED
    BY <2>4, <2>7, <2>9
<1>5. CASE keys[p] = 0
  <2>1. flow' = flow
    BY <1>5 DEF KeyboardLogin
  <2>2. Held'
    BY <1>1, <1>3, <2>1, SameFollows, HeldKept
  <2>3. Whole'
    BY <1>1, <1>2, <1>3, <2>1, SameFollows, WholeKept
  <2>4. Renewing'
    BY <1>1, <1>3, <2>1, SameFollows, RenewingKept
  <2>5. QED
    BY <2>2, <2>3, <2>4
<1>6. QED
  BY <1>4, <1>5

LEMMA WholeAnswer ==
    ASSUME TypeInv, WholeInv, NEW f \in Flows, Answer(f)
    PROVE  WholeInv'
<1> USE DEF bounds, store, pages
<1> SUFFICES ASSUME "late" \notin blame' PROVE Held' /\ Whole' /\ Renewing'
  BY DEF WholeInv
<1> DEFINE s == [key |-> flow[f].key[One(f)], token |-> TRUE]
<1>1. "late" \notin blame
  BY DEF Answer, TokenArrived, TokensArrived, PostFailed, InfoArrived, InfoFailed, BindArrived,
        BindFailed, SetSession, Blame
<1>2. Held /\ Whole /\ Renewing
  BY <1>1 DEF WholeInv
<1>3. Busy(f) /\ FlowsFollow /\ \A g \in Flows \ {f} : flow'[g] = flow[g]
  BY AnswerFollows
<1>4. keys' = keys /\ UNCHANGED <<job, made>>
  BY DEF Answer, TokenArrived, TokensArrived, PostFailed, InfoArrived, InfoFailed, BindArrived,
        BindFailed
<1>5. Held'
  BY <1>2, <1>3, <1>4, SameFollows, HeldKept
<1>6. Renewing'
  BY <1>2, <1>3, <1>4, SameFollows, FollowedKeys, RenewingKept
<1>7. Whole'
  <2>a. flow[f].kind \in {"single", "unbind"} => s \in Session /\ One(f) \in Platform /\ ~Batch(f)
    BY <1>3, OneGives, Values DEF Batch, BatchOf
  <2>b. \A x : Changed(f, x) /\ ~BatchOf(x) => \A g \in Flows : Batch(g)' => flow'[g] = flow[g]
    BY DEF Changed, Batch
  <2>1. CASE TokenArrived(f)
    <3>1. SetSession(flow[f].on, One(f), s) /\ flow[f].kind = "single" /\ screen' = screen
      BY <2>1 DEF TokenArrived
    <3> HIDE DEF s
    <3>2. QED
      BY <1>2, <1>3, <2>a, <3>1, SetElsewhere
  <2>2. CASE TokensArrived(f)
    <3>1. Step(f, "store") /\ UNCHANGED <<disk, loaded, loginUser, screen>>
      BY <2>2 DEF TokensArrived
    <3>2. PICK x \in FlowType : Changed(f, x) /\ x.kind = flow[f].kind /\ x.step = "store" /\ x.at = 1
      BY <3>1, StepGives, TypeInvImplies
    <3>3. ASSUME NEW g \in Flows, Batch(g)'
          PROVE  Alone(g)' /\ StoredIn(flow[g], loaded["app"], Sessions("app"))'
      <4>1. Batch(g) /\ Alone(g) /\ StoredIn(flow[g], loaded["app"], Sessions("app"))
        BY <1>2, <1>3, <3>3, SameFollows DEF Whole
      <4>2. Alone(g)'
        BY <1>3, <3>1, <4>1, SameFollows DEF Alone, NobodyJoins
      <4>3. g = f
        BY <1>2, <1>3, <2>a, <2>2, <3>2, <4>1, BatchIs, OneBatch, FlowNow, FlowFields
           DEF TokensArrived, Answered, FlowShape, Batch, BatchOf
      <4>4. StoredIn(flow'[f], loaded'["app"], Sessions("app")')
        BY <3>2 DEF Changed, StoredIn
      <4>5. QED
        BY <4>2, <4>3, <4>4
    <3>4. QED
      BY <3>3 DEF Whole
  <2>3. CASE PostFailed(f)
    <3>1. UNCHANGED <<disk, loaded, loginUser, screen>> /\ (Step(f, "refuse") \/ Done(f))
      BY <2>3 DEF PostFailed
    <3>2. PICK x : Changed(f, x) /\ x.step \in {"refuse", "idle"}
      BY <3>1, StepGives, DoneGives, TypeInvImplies DEF NoFlow
    <3>3. ASSUME NEW g \in Flows, Batch(g)'
          PROVE  Alone(g)' /\ StoredIn(flow[g], loaded["app"], Sessions("app"))'
      <4>1. Batch(g) /\ Alone(g) /\ StoredIn(flow[g], loaded["app"], Sessions("app"))
        BY <1>2, <1>3, <3>3, SameFollows DEF Whole
      <4>2. Alone(g)'
        BY <1>3, <3>1, <4>1, SameFollows DEF Alone, NobodyJoins
      <4>3. StoredIn(flow'[g], loaded'["app"], Sessions("app")')
        BY <3>1, <3>2, <4>1 DEF Changed, StoredIn, Sessions
      <4>4. QED
        BY <4>2, <4>3
    <3>4. QED
      BY <3>3 DEF Whole
  <2>4. CASE InfoArrived(f) /\ flow[f].kind \in {"single", "unbind"}
    <3>1. SetSession(flow[f].on, One(f), s) /\ screen' = screen
      BY <2>4 DEF InfoArrived
    <3> HIDE DEF s
    <3>2. QED
      BY <1>2, <1>3, <2>4, <2>a, <3>1, SetElsewhere
  <2>c. Batch(f) /\ Done(f) => Whole'
    <3> SUFFICES ASSUME Batch(f), Done(f), NEW g \in Flows, Batch(g)' PROVE FALSE
      BY DEF Whole
    <3>1. Changed(f, NoFlow)
      BY DoneGives, TypeInvImplies
    <3>2. g # f /\ Batch(g)
      BY <3>1 DEF Changed, Batch, BatchOf, NoFlow
    <3>3. QED
      BY <1>2, <3>2, OneBatch, BatchIs
  <2>5. CASE InfoArrived(f) /\ flow[f].kind \notin {"single", "unbind"}
    <3>1. Batch(f) /\ flow[f].step = "info"
      BY <1>3, <2>5, FlowNow, FlowFields DEF Batch, BatchOf, Busy, InfoArrived, Answered
    <3>2. CASE Done(f)
      BY <2>c, <3>1, <3>2
    <3>3. CASE flow[f].kind \in Providers
      <4>1. Step(f, "bind") /\ screen' = screen /\ (Save("app", Sessions("app")) \/ UNCHANGED store)
        BY <2>5, <3>3 DEF InfoArrived
      <4>2. PICK x \in FlowType : Changed(f, x) /\ x.key = flow[f].key /\ x.step = "bind"
        BY <4>1, StepGives, TypeInvImplies
      <4>3. Sessions("app")' = Sessions("app") /\ (loaded["app"] => loaded'["app"])
        <5>1. CASE Save("app", Sessions("app"))
          BY <5>1, SaveGives, SessionsType, TypeInvImplies DEF Process
        <5>2. CASE UNCHANGED store
          BY <5>2 DEF Sessions
        <5>3. QED
          BY <4>1, <5>1, <5>2
      <4>4. Alone(f) /\ StoredIn(flow[f], loaded["app"], Sessions("app"))
        BY <1>2, <3>1 DEF Whole
      <4>5. StoredIn(flow'[f], loaded'["app"], Sessions("app")')
        BY <3>1, <4>2, <4>3, <4>4 DEF Changed, StoredIn
      <4>6. Alone(f)'
        BY <1>3, <4>1, <4>4, SameFollows DEF Alone, NobodyJoins
      <4>7. \A g \in Flows : Batch(g)' => g = f
        BY <1>2, <1>3, <3>1, SameFollows, OneBatch, BatchIs
      <4>8. QED
        BY <4>5, <4>6, <4>7 DEF Whole
    <3>4. QED
      BY <2>5, <3>2, <3>3 DEF InfoArrived
  <2>8. CASE BindArrived(f) \/ BindFailed(f)
    <3>1. flow[f].step = "bind" /\ Done(f)
      BY <2>8 DEF BindArrived, BindFailed, Answered
    <3>2. Batch(f)
      BY <3>1, FlowNow DEF FlowShape, Batch, BatchOf
    <3>3. QED
      BY <2>c, <3>1, <3>2
  <2>6. CASE InfoFailed(f) /\ flow[f].kind = "single"
    <3>1. SetSession(flow[f].on, One(f), NoOne) /\ screen' = screen
      BY <2>6 DEF InfoFailed
    <3>2. QED
      BY <1>2, <1>3, <2>6, <2>a, <3>1, Values, SetElsewhere
  <2>7. CASE InfoFailed(f) /\ flow[f].kind # "single"
    <3>1. UNCHANGED <<disk, loaded, loginUser, screen>> /\ (Step(f, Undoing(f)) \/ Done(f))
      BY <2>7 DEF InfoFailed
    <3>2. PICK x : Changed(f, x) /\ x.step \in {"drop", "undo", "idle"}
      BY <3>1, StepGives, DoneGives, TypeInvImplies DEF NoFlow, Undoing
    <3>3. ASSUME NEW g \in Flows, Batch(g)'
          PROVE  Alone(g)' /\ StoredIn(flow[g], loaded["app"], Sessions("app"))'
      <4>1. Batch(g) /\ Alone(g) /\ StoredIn(flow[g], loaded["app"], Sessions("app"))
        BY <1>2, <1>3, <3>3, SameFollows DEF Whole
      <4>2. Alone(g)'
        BY <1>3, <3>1, <4>1, SameFollows DEF Alone, NobodyJoins
      <4>3. StoredIn(flow'[g], loaded'["app"], Sessions("app")')
        BY <3>1, <3>2, <4>1 DEF Changed, StoredIn, Sessions
      <4>4. QED
        BY <4>2, <4>3
    <3>4. QED
      BY <3>3 DEF Whole
  <2>9. QED
    BY <2>1, <2>2, <2>3, <2>4, <2>5, <2>6, <2>7, <2>8 DEF Answer
<1>8. QED
  BY <1>5, <1>6, <1>7

(* What a closure of f works on.                                           *)
LEMMA ClosureIs ==
    ASSUME TypeInv, NEW f \in Flows, Closure(f)
    PROVE  /\ Batch(f) /\ flow[f].on = "app" /\ UsersOf(flow[f]) = Platform
           /\ flow[f].at \in 1..Len(AllCases) /\ AllCases[flow[f].at] \in Platform
           /\ flow[f].key[AllCases[flow[f].at]] \in Key \ {0}
           /\ flow[f].step \in {"refuse", "drop"} => flow[f].kind \in Registering
           /\ flow[f].step \in {"store", "refuse", "drop", "undo"}
<1>1. flow[f].step \in {"store", "refuse", "drop", "undo"}
  BY DEF Closure, StoreToken, DropKey, UndoSession
<1>2. flow[f].at \in 1..Len(AllCases) /\ flow[f].kind \in Registering \cup {"restore"}
  BY <1>1, FlowNow, FlowFields, Cases DEF FlowShape
<1>3. Batch(f)
  BY <1>1, <1>2 DEF Batch, BatchOf
<1>4. flow[f].on = "app" /\ UsersOf(flow[f]) = Platform
  BY <1>3, BatchIs
<1>5. AllCases[flow[f].at] \in Platform
  BY <1>2, Cases
<1>6. flow[f].key[AllCases[flow[f].at]] \in Key \ {0}
  BY <1>4, <1>5, FlowNow, FlowFields DEF UsersOf
<1>7. QED
  BY <1>1, <1>2, <1>3, <1>4, <1>5, <1>6, FlowNow DEF FlowShape

(* The last platform of a batch: every session has a token of its pair.    *)
LEMMA StoredAll ==
    ASSUME NEW key \in [Platform -> Key], NEW d \in [Platform -> Session],
           \A i \in 1..Len(AllCases) : d[AllCases[i]].key = key[AllCases[i]],
           \A p \in Platform : d[p].token
    PROVE  \A p \in Platform : d[p] = [key |-> key[p], token |-> TRUE]
<1> SUFFICES ASSUME NEW p \in Platform PROVE d[p] = [key |-> key[p], token |-> TRUE]
  OBVIOUS
<1>1. PICK i \in 1..Len(AllCases) : p = AllCases[i]
  BY Cases
<1>2. d[p].key = key[p]
  BY <1>1
<1>3. d[p] \in Session /\ d[p].token = TRUE
  BY Values
<1>4. QED
  BY <1>2, <1>3, Values

LEMMA WholeClosure ==
    ASSUME TypeInv, WholeInv, NEW f \in Flows, Closure(f)
    PROVE  WholeInv'
<1> USE DEF bounds, store, pages
<1> SUFFICES ASSUME "late" \notin blame' PROVE Held' /\ Whole' /\ Renewing'
  BY DEF WholeInv
<1> DEFINE p == AllCases[flow[f].at]
<1>1. "late" \notin blame
  BY DEF Closure, StoreToken, DropKey, UndoSession, SetSession, Blame
<1>2. Held /\ Whole /\ Renewing
  BY <1>1 DEF WholeInv
<1>3. Busy(f) /\ FlowsFollow /\ \A g \in Flows \ {f} : flow'[g] = flow[g]
  BY AnswerFollows
<1>4. UNCHANGED <<job, made, screen>>
  BY DEF Closure, StoreToken, DropKey, UndoSession
<1>5. /\ Batch(f) /\ flow[f].on = "app" /\ UsersOf(flow[f]) = Platform
      /\ flow[f].at \in 1..Len(AllCases) /\ p \in Platform /\ flow[f].key[p] \in Key \ {0}
  BY ClosureIs
<1>6. \A g \in Flows : Batch(g)' => g = f /\ Alone(g)'
  <2> SUFFICES ASSUME NEW g \in Flows, Batch(g)' PROVE g = f /\ Alone(g)'
    OBVIOUS
  <2>1. Batch(g) /\ Alone(g)
    BY <1>2, <1>3, SameFollows DEF Whole
  <2>2. Alone(g)'
    BY <1>3, <1>4, <2>1, SameFollows DEF Alone, NobodyJoins
  <2>3. QED
    BY <1>2, <1>5, <2>1, <2>2, OneBatch, BatchIs
<1>7. CASE StoreToken(f)
  <2>1. PICK token \in BOOLEAN : SetSession("app", p, [key |-> flow[f].key[p], token |-> token])
    BY <1>7 DEF StoreToken
  <2>2. keys' = keys /\ flow[f].step = "store"
    BY <1>7 DEF StoreToken
  <2>3. Held'
    BY <1>2, <1>3, <2>2, SameFollows, HeldKept
  <2>4. Renewing'
    BY <1>2, <1>3, <1>4, <2>2, SameFollows, FollowedKeys, RenewingKept
  <2> DEFINE s == [key |-> flow[f].key[p], token |-> token]
  <2>5. s \in Session /\ s.key = flow[f].key[p] /\ SetSession("app", p, s)
    BY <1>5, <2>1, Values
  <2>6. p = AllCases[flow[f].at]
    OBVIOUS
  <2> HIDE DEF s, p
  <2>7. PICK d \in [Platform -> Session] :
              /\ Save("app", d) /\ d[p] = s
              /\ \A r \in Platform \ {p} : d[r] = Sessions("app")[r]
    <3>1. "app" \in Process /\ p \in Platform /\ TypeOK
      BY <1>5, TypeInvImplies DEF Process
    <3>2. \E d \in [Platform -> Session] :
              /\ Save("app", d) /\ d = [Sessions("app") EXCEPT ![p] = s] /\ d[p] = s
              /\ \A r \in Platform \ {p} : d[r] = Sessions("app")[r]
              /\ blame' = blame \cup Stray("app", Platform \ {p})
      BY <2>5, <3>1, SetGives
    <3>3. QED
      BY <3>2
  <2>8. disk' = d /\ Sessions("app")' = d /\ loaded'["app"] = TRUE
    BY <2>7, SaveGives, TypeInvImplies DEF Process
  <2>9. \A i \in 1..Len(AllCases) : i <= flow[f].at => d[AllCases[i]].key = flow[f].key[AllCases[i]]
    <3> SUFFICES ASSUME NEW i \in 1..Len(AllCases), i <= flow[f].at
                 PROVE  d[AllCases[i]].key = flow[f].key[AllCases[i]]
      OBVIOUS
    <3>1. CASE i = flow[f].at
      BY <2>5, <2>6, <2>7, <3>1
    <3>2. CASE i < flow[f].at
      <4>1. Sessions("app")[AllCases[i]].key = flow[f].key[AllCases[i]]
        BY <1>2, <1>5, <2>2, <3>2 DEF Whole, StoredIn
      <4>2. AllCases[i] \in Platform \ {p}
        BY <1>5, <2>6, <3>2, Cases
      <4>3. QED
        BY <2>7, <4>1, <4>2
    <3>3. QED
      BY <1>5, <3>1, <3>2, Cases
  <2>10. StoredIn(flow'[f], loaded'["app"], Sessions("app")')
    <3>1. CASE flow[f].at < Len(AllCases)
      <4>1. flow' = [flow EXCEPT ![f].at = @ + 1]
        BY <1>7, <3>1 DEF StoreToken, Advance
      <4>2. PICK x \in FlowType :
              /\ Changed(f, x) /\ x.key = flow[f].key /\ x.step = flow[f].step
              /\ x.at = flow[f].at + 1
        BY <3>1, <4>1, MoreGives, TypeInvImplies
      <4>3. \A i \in 1..Len(AllCases) : i < x.at => i <= flow[f].at
        BY <1>5, <4>2, Cases
      <4>4. QED
        BY <2>2, <2>8, <2>9, <4>2, <4>3 DEF Changed, StoredIn
    <3>2. CASE ~(flow[f].at < Len(AllCases))
      <4>1. IF \A r \in Platform : disk'[r].token THEN Step(f, "info") ELSE Step(f, Undoing(f))
        BY <1>7, <3>2 DEF StoreToken, Advance
      <4>2. CASE \A r \in Platform : disk'[r].token
        <5>1. PICK x \in FlowType : Changed(f, x) /\ x.key = flow[f].key /\ x.step = "info"
          BY <4>1, <4>2, StepGives, TypeInvImplies
        <5>2. flow[f].at = Len(AllCases)
          BY <1>5, <3>2, Cases
        <5>3. \A r \in Platform : d[r] = [key |-> flow[f].key[r], token |-> TRUE]
          <6>1. flow[f].key \in [Platform -> Key] /\ \A r \in Platform : d[r].token
            BY <2>8, <4>2, FlowNow, FlowFields
          <6>2. \A i \in 1..Len(AllCases) : d[AllCases[i]].key = flow[f].key[AllCases[i]]
            BY <2>9, <5>2, Cases
          <6> DEFINE key == flow[f].key
          <6>3. /\ key \in [Platform -> Key] /\ d \in [Platform -> Session]
                /\ \A r \in Platform : d[r].token
                /\ \A i \in 1..Len(AllCases) : d[AllCases[i]].key = key[AllCases[i]]
            BY <6>1, <6>2
          <6> HIDE DEF key
          <6>4. \A r \in Platform : d[r] = [key |-> key[r], token |-> TRUE]
            BY <6>3, StoredAll
          <6>5. QED
            BY <6>4 DEF key
        <5>4. QED
          BY <2>8, <5>1, <5>3 DEF Changed, StoredIn
      <4>3. CASE ~(\A r \in Platform : disk'[r].token)
        <5>1. PICK x \in FlowType : Changed(f, x) /\ x.step \in {"drop", "undo"}
          BY <4>1, <4>3, StepGives, TypeInvImplies DEF Undoing
        <5>2. QED
          BY <5>1 DEF Changed, StoredIn
      <4>4. QED
        BY <4>2, <4>3
    <3>3. QED
      BY <3>1, <3>2
  <2>11. Whole'
    BY <1>6, <2>10 DEF Whole
  <2>12. QED
    BY <2>3, <2>4, <2>11
<1>8. CASE DropKey(f)
  <2>1. /\ SetKey(p, 0) /\ "late" \notin Late(p, Flows \ {f})
        /\ UNCHANGED <<disk, loaded, loginUser>> /\ flow[f].step \in {"refuse", "drop"}
    BY <1>8 DEF DropKey, Blame
  <2> HIDE DEF p
  <2>2. \A g \in Flows : Uses(flow[g]) => p \notin UsersOf(flow[g])
    BY <1>5, <2>1, NotLate DEF Uses, Busy, Users, UsersOf
  <2>3. KeysKept
    BY <1>5, <2>1, <2>2, SetKeepsKeys, Values
  <2>4. Held'
    BY <1>2, <1>3, <2>3, HeldKept
  <2>5. StoredIn(flow'[f], loaded'["app"], Sessions("app")')
    <3>1. Done(f) \/ Step(f, "undo")
          \/ (flow[f].at < Len(AllCases) /\ flow' = [flow EXCEPT ![f].at = @ + 1])
      BY <1>8 DEF DropKey, Advance
    <3>2. \E x : Changed(f, x) /\ x.step \notin {"store", "info", "bind"}
      BY <2>1, <3>1, DoneGives, StepGives, MoreGives, TypeInvImplies DEF NoFlow
    <3>3. QED
      BY <3>2 DEF Changed, StoredIn
  <2>6. Whole'
    BY <1>6, <2>5 DEF Whole
  <2>7. job.kind \in Registering => \A i \in 1..Len(AllCases) :
                                  i < job.at => keys'[AllCases[i]] = keys[AllCases[i]]
    <3> SUFFICES ASSUME job.kind \in Registering, NEW i \in 1..Len(AllCases), i < job.at PROVE FALSE
      OBVIOUS
    <3>1. AllCases[i] \notin Users(f)
      BY <1>2, <1>3, <1>5 DEF Renewing
    <3>2. QED
      BY <1>5, <3>1, BatchIs, Cases
  <2>8. Renewing'
    BY <1>2, <1>3, <1>4, <2>7, SameFollows, FollowedKeys, RenewingKept
  <2>9. QED
    BY <2>4, <2>6, <2>8
<1>9. CASE UndoSession(f)
  <2>1. keys' = keys /\ flow[f].step = "undo"
    BY <1>9 DEF UndoSession
  <2>2. Held'
    BY <1>2, <1>3, <2>1, SameFollows, HeldKept
  <2>3. Renewing'
    BY <1>2, <1>3, <1>4, <2>1, SameFollows, FollowedKeys, RenewingKept
  <2>4. StoredIn(flow'[f], loaded'["app"], Sessions("app")')
    <3>1. Done(f) \/ (flow[f].at < Len(AllCases) /\ flow' = [flow EXCEPT ![f].at = @ + 1])
      BY <1>9 DEF UndoSession, Advance
    <3>2. \E x : Changed(f, x) /\ x.step \notin {"store", "info", "bind"}
      BY <2>1, <3>1, DoneGives, MoreGives, TypeInvImplies DEF NoFlow
    <3>3. QED
      BY <3>2 DEF Changed, StoredIn
  <2>5. Whole'
    BY <1>6, <2>4 DEF Whole
  <2>6. QED
    BY <2>2, <2>3, <2>5
<1>10. QED
  BY <1>7, <1>8, <1>9 DEF Closure

LEMMA WholeKill ==
    ASSUME TypeInv, WholeInv, Kill
    PROVE  WholeInv'
<1> USE DEF bounds, store, pages
<1> SUFFICES ASSUME "late" \notin blame' PROVE Held' /\ Whole' /\ Renewing'
  BY DEF WholeInv
<1>1. CASE AppEnds
  <2>1. "late" \notin blame /\ Forget("app") /\ keys' = keys /\ job' = Idle
    BY <1>1 DEF AppEnds, Blame
  <2>2. FlowsFollow /\ \A g \in Flows : Busy(g)' => flow'[g] = flow[g] /\ flow[g].on # "app"
    BY <2>1, ForgetFollows DEF Process
  <2>3. Held'
    BY <2>1, <2>2, SameFollows, HeldKept DEF WholeInv
  <2>4. \A g \in Flows : ~Batch(g)'
    <3> SUFFICES ASSUME NEW g \in Flows, Batch(g)' PROVE FALSE
      OBVIOUS
    <3>1. Batch(g) /\ Busy(g)'
      BY <2>2, SameFollows DEF Batch, BatchOf, Busy
    <3>2. QED
      BY <2>2, <3>1, BatchIs
  <2>5. QED
    BY <2>1, <2>3, <2>4, NotRenewing DEF Whole, Idle
<1>2. CASE KillKeyboard
  <2>1. "late" \notin blame /\ Forget("keyboard") /\ UNCHANGED <<keys, disk, job, made, screen>>
    BY <1>2 DEF KillKeyboard
  <2>2. FlowsFollow /\ \A g \in Flows : Busy(g)' => flow'[g] = flow[g]
    BY <2>1, ForgetFollows DEF Process
  <2>3. loaded'["app"] = loaded["app"] /\ Sessions("app")' = Sessions("app")
    BY <2>1, ForgetGives, TypeInvImplies DEF Process, Sessions
  <2>4. \A g \in Flows : Batch(g)' => flow'[g] = flow[g]
    BY <2>2 DEF Batch, BatchOf, Busy
  <2>5. Held /\ Whole /\ Renewing
    BY <2>1 DEF WholeInv
  <2>6. Held'
    BY <2>1, <2>2, <2>5, SameFollows, HeldKept
  <2>7. Whole'
    BY <2>1, <2>2, <2>3, <2>4, <2>5, SameFollows, WholeKept
  <2>8. Renewing'
    BY <2>1, <2>2, <2>5, SameFollows, FollowedKeys, RenewingKept
  <2>9. QED
    BY <2>6, <2>7, <2>8
<1>3. QED
  BY <1>1, <1>2 DEF Kill, KillApp, ImportTraps

LEMMA WholeStep == TypeInv /\ WholeInv /\ [Next]_vars => WholeInv'
<1> SUFFICES ASSUME TypeInv, WholeInv, [Next]_vars PROVE WholeInv'
  OBVIOUS
<1>1. CASE UNCHANGED vars
  BY <1>1 DEF vars, store, pages, bounds, WholeInv, Held, Whole, Renewing, Alone, Batch, Busy,
              Users, Sessions
<1>2. QED
  BY <1>1, WholeAppStep, WholeWelcomeStep, WholeMainStep, WholeKeyboardStep, WholeAnswer,
     WholeClosure, WholeKill DEF Next, KeyboardStep

(* The last answer of a batch                                              *)
Leaving(f) == (InfoArrived(f) /\ flow[f].kind \notin {"single", "unbind"}) \/ BindArrived(f)

(* Only the last answer of a batch leaves the welcome page for the main    *)
(* one, and then every session is the one the batch stored.                *)
LEMMA LeavesWhole ==
    ASSUME TypeInv, WholeInv, [Next]_vars,
           screen = "welcome", screen' = "main", "late" \notin blame
    PROVE  \A p \in Platform : disk'[p] = [key |-> keys'[p], token |-> TRUE]
<1> USE DEF bounds, store, pages
<1>1. \E f \in Flows : Leaving(f)
  <2>1. ~(UNCHANGED vars)
    BY DEF vars
  <2>2. ~AppStep
    BY DEF AppStep, Launch, StartPlatform, EnterMain, TokensRejected, RenewSessions, Free
  <2>3. ~WelcomeStep
    BY WelcomeIs DEF Turns, Begins, CreatePlatform, ImportPlatform, LoginBatch
  <2>4. ~MainStep
    BY DEF MainStep, Backup, Unbind, LogoutAll, DeletePlatform
  <2>5. ~KeyboardStep /\ ~Kill
    BY DEF KeyboardStep, KeyboardLogin, Kill, KillApp, ImportTraps, AppEnds, KillKeyboard
  <2>6. \A f \in Flows : ~Closure(f)
    BY DEF Closure, StoreToken, DropKey, UndoSession
  <2>7. PICK f \in Flows : Answer(f)
    BY <2>1, <2>2, <2>3, <2>4, <2>5, <2>6 DEF Next
  <2>8. QED
    BY <2>7 DEF Leaving, Answer, TokenArrived, TokensArrived, PostFailed, InfoArrived,
          InfoFailed, BindArrived, BindFailed
<1>2. PICK f \in Flows : Leaving(f)
  BY <1>1
<1>3. Held /\ Whole
  BY DEF WholeInv
<1>4. flow[f].step \in {"info", "bind"} /\ keys' = keys
  BY <1>2 DEF Leaving, InfoArrived, BindArrived, Answered
<1>5. Batch(f) /\ Uses(flow[f])
  <2>1. flow[f].step = "bind" => flow[f].kind \in Providers
    BY <1>4, FlowNow DEF FlowShape
  <2>2. flow[f].step = "info" => flow[f].kind \notin {"single", "unbind"}
    BY <1>2 DEF Leaving, BindArrived, Answered
  <2>3. flow[f].kind \in Kinds
    BY FlowNow, FlowFields
  <2>4. flow[f].kind \in Registering \cup {"restore"}
    BY <1>4, <2>1, <2>2, <2>3
  <2>5. QED
    BY <1>4, <2>4 DEF Batch, BatchOf, Uses
<1>6. \A p \in Platform : Sessions("app")[p] = [key |-> flow[f].key[p], token |-> TRUE]
  BY <1>3, <1>4, <1>5 DEF Whole, StoredIn
<1>7. \A p \in Platform : keys[p] = flow[f].key[p]
  BY <1>3, <1>5, BatchIs DEF Held, HeldBy
<1>8. \E p \in Platform : Sessions("app")[p] # NoOne
  <2>1. AllCases[1] \in Platform
    BY Cases
  <2>2. Sessions("app")[AllCases[1]].token = TRUE
    <3> DEFINE c == AllCases[1]
    <3>1. c \in Platform
      BY <2>1
    <3> HIDE DEF c
    <3>2. Sessions("app")[c] = [key |-> flow[f].key[c], token |-> TRUE]
      BY <1>6, <3>1
    <3>3. Sessions("app")[c].token = TRUE
      BY <3>2
    <3>4. QED
      BY <3>3 DEF c
  <2>3. NoOne.token = FALSE
    BY DEF NoOne
  <2>4. Sessions("app")[AllCases[1]] # NoOne
    BY <2>2, <2>3
  <2>5. QED
    BY <2>1, <2>4
<1>9. disk' = Sessions("app")
  BY <1>2, <1>8 DEF Leaving, InfoArrived, BindArrived, Save
<1>10. QED
  BY <1>4, <1>6, <1>7, <1>9

(* A registration or restored backup that is reported to the page has a    *)
(* session with a token for every platform, of the pair in the defaults.   *)
THEOREM ReportedLoginsAreWhole == Spec => ReportedLoginIsWhole
<1>1. Spec => [](TypeInv /\ WholeInv)
  BY TypeInit, TypeStep, WholeInit, WholeStep, PTL DEF Spec
<1>2. TypeInv /\ WholeInv /\ [Next]_vars
      => [screen = "welcome" /\ screen' = "main" /\ "late" \notin blame
            => \A p \in Platform : disk'[p] = [key |-> keys'[p], token |-> TRUE]]_vars
  BY LeavesWhole
<1>3. QED
  BY <1>1, <1>2, PTL DEF Spec, ReportedLoginIsWhole

-----------------------------------------------------------------------------
(* Sessions fit the key pairs                                              *)

(* The batch x has already stored, or taken back, its session of the i-th  *)
(* platform.                                                               *)
Settled(x, i) == x.step \in {"info", "bind"} \/ (x.step \in {"store", "undo"} /\ i < x.at)
AllSettled(i) == \A f \in Flows : Batch(f) => Settled(flow[f], i)
Matched(p)    == disk[p].key \in {0, keys[p]} /\ Sessions("app")[p].key \in {0, keys[p]}

Refused   == \A f \in Flows : flow[f].step = "refuse" => blame \cap {"failed", "late"} # {}
Deleting  == job.kind = "delete" => out \/ blame \cap {"kept", "late"} # {}
UnbindHeld == blame = {} =>
    \A f \in Flows : Busy(f) /\ flow[f].kind = "unbind" => HeldBy(flow[f], keys)
Matching  == blame = {} /\ job.kind \notin {"import"} \cup Registering =>
    \A i \in 1..Len(AllCases) : AllSettled(i) => Matched(AllCases[i])

MatchInv == Refused /\ Deleting /\ UnbindHeld /\ Matching

(* The answer of a batch that says all its sessions are good               *)
Reported(f) == InfoArrived(f) /\ flow[f].kind \notin {"single", "unbind"}

Actors == AppStep \/ WelcomeStep \/ MainStep \/ KeyboardStep \/ Kill

LEMMA StartIs ==
    ASSUME TypeInv, NEW q, NEW kind, NEW step, NEW key, Start(q, kind, step, key)
    PROVE  \E f \in Flows :
              /\ ~Busy(f) /\ \A g \in Flows \ {f} : flow'[g] = flow[g]
              /\ flow'[f].kind = kind /\ flow'[f].step = step /\ flow'[f].key = key
BY DEF Start, TypeInv, FlowsOK

LEMMA BlameGrows ==
    ASSUME TypeInv, [Next]_vars
    PROVE  \/ blame \subseteq blame'
           \/ LogoutAll /\ AllTokens("app") /\ blame' = If("late", \E f \in Flows : Busy(f))
           \/ \E f \in Flows : Reported(f) /\ blame' = blame \cap {"late"}
<1>1. CASE AppStep \/ WelcomeStep \/ KeyboardStep \/ Kill
  BY <1>1, WelcomeIs DEF AppStep, Launch, StartPlatform, EnterMain, TokensRejected, RenewSessions,
              Turns, Begins, CreatePlatform, ImportPlatform, LoginBatch,
              KeyboardStep, KeyboardLogin, Kill, KillApp, ImportTraps, AppEnds,
              KillKeyboard, Blame
<1>2. CASE MainStep
  BY <1>2 DEF MainStep, Backup, Unbind, LogoutAll, DeletePlatform, Blame
<1>3. ASSUME NEW f \in Flows, Answer(f)
      PROVE  blame \subseteq blame' \/ (Reported(f) /\ blame' = blame \cap {"late"})
  <2>1. CASE InfoArrived(f)
    BY <2>1 DEF InfoArrived, Reported, SetSession, Blame
  <2>2. CASE ~InfoArrived(f)
    BY <1>3, <2>2 DEF Answer, TokenArrived, TokensArrived, PostFailed, InfoFailed, BindArrived,
          BindFailed, SetSession, Blame
  <2>3. QED
    BY <2>1, <2>2
<1>4. ASSUME NEW f \in Flows, Closure(f)
      PROVE  blame \subseteq blame'
  BY <1>4 DEF Closure, StoreToken, DropKey, UndoSession, SetSession, Blame
<1>5. CASE UNCHANGED vars
  BY <1>5 DEF vars
<1>6. QED
  BY <1>1, <1>2, <1>3, <1>4, <1>5 DEF Next

(* What the actors, answers and closures apart, do to the flows            *)
LEMMA ActorFlows ==
    ASSUME TypeInv, Actors, NEW g \in Flows
    PROVE  \/ flow'[g] = flow[g]
           \/ flow'[g] = NoFlow
           \/ /\ ~Busy(g) /\ flow'[g].step \in {"post", "info"}
              /\ flow'[g].kind = "unbind" =>
                    \E p \in Platform : Unbind(p) /\ flow'[g].key = Only(p, Sessions("app")[p].key)
<1>1. CASE UNCHANGED flow
  BY <1>1
<1>2. ASSUME NEW q \in Process, Forget(q)
      PROVE  flow'[g] \in {flow[g], NoFlow}
  BY <1>2, ForgetGives, TypeInvImplies
<1>3. ASSUME NEW q, NEW kind, kind # "unbind", NEW key, Start(q, kind, "post", key)
      PROVE  flow'[g] = flow[g] \/ (~Busy(g) /\ flow'[g].step = "post" /\ flow'[g].kind # "unbind")
  BY <1>3, StartIs
<1>4. ASSUME NEW p \in Platform, Unbind(p)
      PROVE  \/ flow'[g] = flow[g]
             \/ /\ ~Busy(g) /\ flow'[g].step = "info"
                /\ flow'[g].key = Only(p, Sessions("app")[p].key)
  BY <1>4, StartIs DEF Unbind
<1>5. CASE AppStep
  BY <1>1, <1>3, <1>5 DEF AppStep, Launch, StartPlatform, EnterMain, TokensRejected, RenewSessions
<1>6. CASE WelcomeStep
  <2>1. CASE CreatePlatform
    BY <1>1, <1>3, <2>1, NextCaseGives DEF CreatePlatform, Process
  <2>2. CASE ~CreatePlatform
    BY <1>1, <1>3, <1>6, <2>2, WelcomeIs DEF Turns, Begins, ImportPlatform, LoginBatch
  <2>3. QED
    BY <2>1, <2>2
<1>7. CASE MainStep
  BY <1>1, <1>4, <1>7 DEF MainStep, Backup, LogoutAll, DeletePlatform
<1>8. CASE KeyboardStep
  BY <1>1, <1>3, <1>8 DEF KeyboardStep, KeyboardLogin
<1>9. CASE Kill
  BY <1>2, <1>9 DEF Kill, KillApp, ImportTraps, AppEnds, KillKeyboard, Process
<1>10. QED
  BY <1>5, <1>6, <1>7, <1>8, <1>9 DEF Actors

(* A pair that a flow uses is not changed behind its back.                 *)
LEMMA KeysStay ==
    ASSUME TypeInv, Actors, "late" \notin blame'
    PROVE  \A g \in Flows : Busy(g) => \A r \in UsersOf(flow[g]) : keys'[r] = keys[r]
<1>1. ASSUME NEW p \in Platform, NEW k \in Key, SetKey(p, k), "late" \notin Late(p, Flows)
      PROVE  \A g \in Flows : Busy(g) => \A r \in UsersOf(flow[g]) : keys'[r] = keys[r]
  <2>1. \A r \in Platform \ {p} : keys'[r] = keys[r]
    BY <1>1, KeysType, TypeInvImplies
  <2>2. \A g \in Flows : Busy(g) => p \notin Users(g)
    BY <1>1, NotLate
  <2>3. QED
    BY <2>1, <2>2 DEF Users, UsersOf
<1>2. CASE UNCHANGED keys
  BY <1>2
<1>3. made \in Key /\ \A p \in Platform : backup[p] \in Key
  BY DEF TypeInv, JobOK, RestOK, Key
<1>4. CASE StartPlatform
  <2>1. AllCases[job.at] \in Platform
    BY <1>4, NextCaseGives DEF StartPlatform
  <2>2. \/ UNCHANGED keys
        \/ SetKey(AllCases[job.at], made) /\ "late" \notin Late(AllCases[job.at], Flows)
    BY <1>4 DEF StartPlatform, Blame
  <2>3. QED
    BY <1>1, <1>2, <1>3, <2>1, <2>2
<1>5. CASE CreatePlatform
  <2>1. AllCases[job.at] \in Platform
    BY <1>5, NextCaseGives DEF CreatePlatform
  <2>2. SetKey(AllCases[job.at], made) /\ "late" \notin Late(AllCases[job.at], Flows)
    BY <1>5 DEF CreatePlatform, Blame
  <2>3. QED
    BY <1>1, <1>3, <2>1, <2>2
<1>6. CASE ImportPlatform
  <2> DEFINE p == AllCases[job.at]
             k == IF backup[p] # 0 THEN backup[p] ELSE made
  <2>1. p \in Platform
    BY <1>6, Cases DEF ImportPlatform, TypeInv, JobOK, Jobs
  <2>2. k \in Key
    BY <1>3, <2>1
  <2>3. SetKey(p, k) /\ "late" \notin Late(p, Flows)
    BY <1>6 DEF ImportPlatform, Blame
  <2> HIDE DEF p, k
  <2>4. QED
    BY <1>1, <2>1, <2>2, <2>3
<1>7. CASE DeletePlatform
  <2>1. AllCases[job.at] \in Platform
    BY <1>7, NextCaseGives DEF DeletePlatform
  <2>2. SetKey(AllCases[job.at], 0) /\ "late" \notin Late(AllCases[job.at], Flows)
    BY <1>7 DEF DeletePlatform, Blame
  <2>3. QED
    BY <1>1, <2>1, <2>2, Values
<1>8. CASE ~(StartPlatform \/ CreatePlatform \/ ImportPlatform \/ DeletePlatform)
  <2>1. UNCHANGED keys
    BY <1>8, WelcomeIs DEF Actors, AppStep, Launch, EnterMain, TokensRejected, RenewSessions,
                Turns, Begins, LoginBatch,
                MainStep, Backup, Unbind, LogoutAll, KeyboardStep, KeyboardLogin,
                Kill, KillApp, ImportTraps, AppEnds, KillKeyboard
  <2>2. QED
    BY <1>2, <2>1
<1>9. QED
  BY <1>4, <1>5, <1>6, <1>7, <1>8

LEMMA ReportedIs ==
    ASSUME TypeInv, WholeInv, NEW f \in Flows, Reported(f), "late" \notin blame
    PROVE  /\ Batch(f) /\ screen = "welcome" /\ keys' = keys
           /\ flow'[f] = NoFlow \/ (flow'[f].step = "bind" /\ flow'[f].kind = flow[f].kind)
           /\ \A g \in Flows \ {f} : flow'[g] = flow[g] /\ (Busy(g) => flow[g].on # "app")
           /\ \A p \in Platform : Sessions("app")[p] = [key |-> keys[p], token |-> TRUE]
<1>1. Held /\ Whole
  BY DEF WholeInv
<1>2. flow[f].step = "info" /\ keys' = keys /\ (Done(f) \/ Step(f, "bind"))
  BY DEF Reported, InfoArrived, Answered
<1>3. Batch(f) /\ Uses(flow[f])
  BY <1>2, FlowNow, FlowFields DEF Batch, BatchOf, Uses, Reported
<1>4. \A p \in Platform : Sessions("app")[p] = [key |-> flow[f].key[p], token |-> TRUE]
  BY <1>1, <1>2, <1>3 DEF Whole, StoredIn
<1>5. \A p \in Platform : keys[p] = flow[f].key[p]
  BY <1>1, <1>3, BatchIs DEF Held, HeldBy
<1>6. Alone(f)
  BY <1>1, <1>3 DEF Whole
<1>7. \E x : /\ Changed(f, x)
             /\ x = NoFlow \/ (x.step = "bind" /\ x.kind = flow[f].kind)
  BY <1>2, DoneGives, StepGives, TypeInvImplies
<1>8. QED
  BY <1>2, <1>3, <1>4, <1>5, <1>6, <1>7 DEF Alone, Changed

LEMMA RefusedStep ==
    ASSUME TypeInv, WholeInv, Refused, [Next]_vars
    PROVE  Refused'
<1> SUFFICES ASSUME NEW g \in Flows, flow'[g].step = "refuse"
             PROVE  blame' \cap {"failed", "late"} # {}
  BY DEF Refused
<1>1. CASE blame \subseteq blame'
  <2>1. CASE flow[g].step = "refuse"
    BY <1>1, <2>1 DEF Refused
  <2>2. CASE flow[g].step # "refuse"
    <3>1. ~Actors /\ ~UNCHANGED vars
      BY <2>2, ActorFlows DEF NoFlow, vars
    <3>2. PICK f \in Flows : Answer(f) \/ Closure(f)
      BY <3>1 DEF Next, Actors
    <3>3. g = f
      BY <2>2, <3>2, AnswerFollows
    <3>4. /\ TypeOK
          /\ \A step \in Steps \ {"idle"} :
                Step(f, step) => flow'[f].step = step
          /\ Done(f) => flow'[f].step = "idle"
          /\ flow[f].at < Len(AllCases) /\ flow' = [flow EXCEPT ![f].at = @ + 1]
                => flow'[f].step = flow[f].step
      BY TypeInvImplies, StepGives, DoneGives, MoreGives DEF Changed, NoFlow
    <3>5. CASE PostFailed(f)
      <4>1. flow[f].kind \in Registering
        BY <3>3, <3>4, <3>5 DEF PostFailed
      <4>2. QED
        BY <3>5, <4>1 DEF PostFailed, Blame, If
    <3>6. CASE ~PostFailed(f)
      <4>1. ~Answer(f)
        BY <3>3, <3>4, <3>6 DEF Answer, TokenArrived, TokensArrived, InfoArrived, InfoFailed,
              BindArrived, BindFailed, Undoing
      <4>2. Closure(f)
        BY <3>2, <4>1
      <4>3. QED
        BY <2>2, <3>3, <3>4, <4>2 DEF Closure, StoreToken, DropKey, UndoSession, Advance, Undoing
    <3>7. QED
      BY <3>5, <3>6
  <2>3. QED
    BY <2>1, <2>2
<1>2. CASE LogoutAll /\ blame' = If("late", \E f \in Flows : Busy(f))
  BY <1>2 DEF LogoutAll, Busy, If
<1>3. ASSUME NEW f \in Flows, Reported(f), blame' = blame \cap {"late"}, "late" \notin blame
      PROVE  FALSE
  <2>1. g # f /\ flow'[g] = flow[g] /\ Busy(g)
    BY <1>3, ReportedIs DEF NoFlow, Busy
  <2>2. flow[g].on = "app"
    BY <2>1, FlowNow, FlowFields DEF FlowShape, Busy
  <2>3. QED
    BY <1>3, <2>1, <2>2, ReportedIs
<1>4. QED
  BY <1>1, <1>2, <1>3, BlameGrows

LEMMA DeletingStep ==
    ASSUME TypeInv, WholeInv, Deleting, [Next]_vars
    PROVE  Deleting'
<1> SUFFICES ASSUME job'.kind = "delete"
             PROVE  out' \/ blame' \cap {"kept", "late"} # {}
  BY DEF Deleting
<1>1. CASE LogoutAll
  BY <1>1 DEF LogoutAll, Blame
<1>2. CASE ~LogoutAll
  <2>1. job.kind = "delete" /\ out' = out
    <3>1. ~WelcomeStep
      <4>1. CASE CreatePlatform
        BY <4>1, NextCaseGives DEF CreatePlatform, Idle
      <4>2. CASE ImportPlatform
        BY <4>2 DEF ImportPlatform, TypeInv, JobOK, Jobs
      <4>3. CASE Turns \/ Begins
        BY <1>2, <4>3 DEF Turns, Begins, Free
      <4>4. CASE LoginBatch
        BY <4>4 DEF LoginBatch, Idle
      <4>5. QED
        BY <4>1, <4>2, <4>3, <4>4, WelcomeIs
    <3>2. CASE StartPlatform
      BY <3>2, NextCaseGives DEF StartPlatform, Idle
    <3>3. CASE DeletePlatform
      BY <3>3 DEF DeletePlatform
    <3>4. CASE UNCHANGED vars
      BY <3>4 DEF vars
    <3>5. CASE Launch \/ EnterMain \/ TokensRejected \/ RenewSessions
      BY <3>5 DEF Launch, EnterMain, TokensRejected, RenewSessions
    <3>6. CASE Backup \/ (\E p \in Platform : Unbind(p)) \/ KeyboardStep \/ Kill
      BY <3>6 DEF Backup, Unbind, KeyboardStep, KeyboardLogin, Kill, KillApp, ImportTraps,
                  AppEnds, KillKeyboard, Idle
    <3>7. CASE \E f \in Flows : Answer(f) \/ Closure(f)
      BY <3>7 DEF Answer, Closure, TokenArrived, TokensArrived, PostFailed, InfoArrived,
                  InfoFailed, BindArrived, BindFailed, StoreToken, DropKey, UndoSession
    <3>8. QED
      BY <1>2, <3>1, <3>2, <3>3, <3>4, <3>5, <3>6, <3>7 DEF Next, AppStep, MainStep
  <2>2. CASE blame \subseteq blame'
    BY <2>1, <2>2 DEF Deleting
  <2>3. ASSUME NEW f \in Flows, Reported(f), blame' = blame \cap {"late"}, "late" \notin blame
        PROVE  FALSE
    BY <2>1, <2>3, ReportedIs DEF TypeInv, JobOK, JobShape
  <2>4. QED
    BY <1>2, <2>1, <2>2, <2>3, BlameGrows DEF Deleting
<1>3. QED
  BY <1>1, <1>2

LEMMA UnbindHeldStep ==
    ASSUME TypeInv, WholeInv, MatchInv, [Next]_vars
    PROVE  UnbindHeld'
<1> SUFFICES ASSUME blame' = {}, NEW g \in Flows, Busy(g)', flow'[g].kind = "unbind"
             PROVE  HeldBy(flow'[g], keys')
  BY DEF UnbindHeld
<1>1. CASE blame \subseteq blame'
  <2>1. blame = {} /\ UnbindHeld /\ Matching
    BY <1>1 DEF MatchInv
  <2>2. CASE UNCHANGED vars
    BY <2>1, <2>2 DEF vars, UnbindHeld, Busy
  <2>3. CASE Actors
    <3>1. CASE flow'[g] = flow[g]
      <4>1. Busy(g) /\ HeldBy(flow[g], keys)
        BY <2>1, <3>1 DEF UnbindHeld, Busy
      <4>2. QED
        BY <2>3, <3>1, <4>1, KeysStay DEF HeldBy
    <3>2. ASSUME NEW p \in Platform, Unbind(p), flow'[g].key = Only(p, Sessions("app")[p].key)
          PROVE  HeldBy(flow'[g], keys')
      <4>1. screen = "main" /\ job.kind = "none" /\ keys' = keys /\ Sessions("app")[p].token
        BY <3>2 DEF Unbind, Free
      <4>2. \A f \in Flows : ~Batch(f)
        BY <2>1, <4>1, NoBatch DEF WholeInv
      <4>3. PICK i \in 1..Len(AllCases) : p = AllCases[i]
        BY Cases
      <4>4. Matched(p)
        BY <2>1, <4>1, <4>2, <4>3 DEF Matching, AllSettled
      <4>5. Sessions("app")[p].key \in Key \ {0}
        BY <4>1, SessionsType, TypeInvImplies, TokensOfSessions, Values DEF Process, TokenHasKey
      <4>6. Sessions("app")[p].key = keys[p]
        BY <4>4, <4>5 DEF Matched
      <4>7. QED
        BY <3>2, <4>1, <4>5, <4>6, OnlyType DEF HeldBy, UsersOf
    <3>3. QED
      BY <2>3, <3>1, <3>2, ActorFlows DEF NoFlow, Busy
  <2>4. ASSUME NEW f \in Flows, Answer(f) \/ Closure(f)
        PROVE  HeldBy(flow'[g], keys')
    <3>1. Follows(flow[g], flow'[g])
      BY <2>4, AnswerFollows DEF FlowsFollow
    <3>2. Busy(g) /\ flow[g].kind = "unbind" /\ flow'[g].key = flow[g].key
      BY <3>1 DEF Follows, Busy
    <3>3. HeldBy(flow[g], keys)
      BY <2>1, <3>2 DEF UnbindHeld
    <3>4. \A r \in UsersOf(flow[g]) : keys'[r] = keys[r]
      <4>1. CASE Answer(f)
        BY <4>1 DEF Answer, TokenArrived, TokensArrived, PostFailed, InfoArrived, InfoFailed,
              BindArrived, BindFailed
      <4>2. CASE StoreToken(f) \/ UndoSession(f)
        BY <4>2 DEF StoreToken, UndoSession
      <4>3. CASE DropKey(f)
        <5> DEFINE p == AllCases[flow[f].at]
        <5>1. SetKey(p, 0) /\ "late" \notin Late(p, Flows \ {f})
          BY <4>3 DEF DropKey, Blame
        <5>2. p \in Platform /\ g # f
          BY <3>2, <4>3, ClosureIs, BatchIs DEF Closure
        <5> HIDE DEF p
        <5>3. p \notin UsersOf(flow[g])
          BY <3>2, <5>1, <5>2, NotLate DEF Users, UsersOf
        <5>4. \A r \in Platform \ {p} : keys'[r] = keys[r]
          BY <5>1, <5>2, KeysType, TypeInvImplies, Values
        <5>5. QED
          BY <5>3, <5>4 DEF UsersOf
      <4>4. QED
        BY <2>4, <4>1, <4>2, <4>3 DEF Closure
    <3>5. QED
      BY <3>2, <3>3, <3>4 DEF HeldBy, UsersOf
  <2>5. QED
    BY <2>2, <2>3, <2>4 DEF Next, Actors
<1>2. CASE LogoutAll /\ blame' = If("late", \E f \in Flows : Busy(f))
  BY <1>2 DEF LogoutAll, Busy, If
<1>3. ASSUME NEW f \in Flows, Reported(f), blame' = blame \cap {"late"}
      PROVE  FALSE
  <2>1. g # f /\ flow'[g] = flow[g] /\ Busy(g) /\ flow[g].on # "app"
    BY <1>3, ReportedIs DEF NoFlow, Busy, Batch, BatchOf
  <2>2. flow[g].on = "app"
    BY <2>1, FlowNow DEF FlowShape, Busy
  <2>3. QED
    BY <2>1, <2>2
<1>4. QED
  BY <1>1, <1>2, <1>3, BlameGrows

(* The new batch has settled nothing yet, another flow changes no batch.   *)
LEMMA SettledBack ==
    ASSUME \A g \in Flows : Batch(g) => flow'[g] = flow[g], NEW i, AllSettled(i)'
    PROVE  AllSettled(i)
BY DEF AllSettled, Batch

(* A session is set that fits its pair, from a copy that is up to date.    *)
LEMMA SetMatches ==
    ASSUME TypeInv, NEW q \in Process, NEW p \in Platform, NEW s \in Session,
           SetSession(q, p, s), blame' = {}, keys' = keys, s.key \in {0, keys[p]},
           NEW r \in Platform, r # p \/ q # "app" => Matched(r)
    PROVE  Matched(r)'
<1>1. PICK d \in [Platform -> Session] :
              /\ Save(q, d) /\ d[p] = s
              /\ \A x \in Platform \ {p} : d[x] = Sessions(q)[x]
              /\ blame' = blame \cup Stray(q, Platform \ {p})
  BY SetGives, TypeInvImplies
<1>2. \A x \in Platform \ {p} : Sessions(q)[x] = disk[x]
  BY <1>1 DEF Stray, If
<1>3. disk' = d /\ Sessions(q)' = d
      /\ \A x \in Process \ {q} : Sessions(x)' = IF loaded[x] THEN Sessions(x) ELSE d
  BY <1>1, SaveGives, TypeInvImplies
<1>4. d[r].key \in {0, keys[r]}
  <2>1. CASE r = p
    BY <1>1, <2>1
  <2>2. CASE r # p
    BY <1>1, <1>2, <2>2 DEF Matched
  <2>3. QED
    BY <2>1, <2>2
<1>5. Sessions("app")'[r].key \in {0, keys[r]}
  <2>1. CASE q = "app"
    BY <1>3, <1>4, <2>1
  <2>2. CASE q # "app"
    <3>1. Sessions("app")' = IF loaded["app"] THEN Sessions("app") ELSE d
      BY <1>3, <2>2 DEF Process
    <3>2. QED
      BY <1>4, <2>2, <3>1 DEF Matched
  <2>3. QED
    BY <2>1, <2>2
<1>6. QED
  BY <1>3, <1>4, <1>5 DEF Matched

LEMMA MatchingActors ==
    ASSUME TypeInv, OutInv, WholeInv, MatchInv, Actors
    PROVE  Matching'
<1> USE DEF bounds, store, pages
<1> SUFFICES ASSUME blame' = {}, job'.kind \notin {"import"} \cup Registering,
                    NEW i \in 1..Len(AllCases), AllSettled(i)'
             PROVE  Matched(AllCases[i])'
  BY DEF Matching
<1> DEFINE r == AllCases[i]
<1>1. r \in Platform
  BY Cases
<1>2. blame \subseteq blame' => blame = {} /\ Deleting /\ Matching /\ Held /\ Whole
  BY DEF MatchInv, WholeInv
<1>3. \A g \in Flows : (Busy(g) /\ (flow'[g] = flow[g] \/ flow'[g] = NoFlow)) \/ ~Busy(g)
  BY ActorFlows
<1>4. blame \subseteq blame' /\ job.kind \notin {"import"} \cup Registering
        /\ (\A g \in Flows : Batch(g) => flow'[g] = flow[g]) => Matched(r)
  BY <1>2, SettledBack DEF Matching
<1> HIDE DEF r
<1>5. CASE Launch \/ EnterMain \/ TokensRejected
  <2>1. /\ UNCHANGED <<keys, disk, flow, blame>> /\ job.kind \notin {"import"} \cup Registering
        /\ (UNCHANGED <<loaded, loginUser>> \/ Load("app"))
    BY <1>5 DEF Launch, EnterMain, TokensRejected, Free, TypeInv, JobOK, JobShape
  <2>2. Sessions("app")' = Sessions("app")
    <3>1. CASE UNCHANGED <<loaded, loginUser>>
      BY <2>1, <3>1 DEF Sessions
    <3>2. CASE Load("app")
      BY <2>1, <3>2, LoadGives, TypeInvImplies DEF Process
    <3>3. QED
      BY <2>1, <3>1, <3>2
  <2>3. Matched(r)
    BY <1>4, <2>1
  <2>4. QED
    BY <2>1, <2>2, <2>3 DEF Matched, r
<1>6. CASE StartPlatform
  <2> DEFINE p == AllCases[job.at]
  <2>1. p \in Platform
    BY <1>6, NextCaseGives DEF StartPlatform
  <2>2. /\ job.kind = "start" /\ disk' = disk /\ Load("app") /\ blame \subseteq blame'
    BY <1>6 DEF StartPlatform, Blame
  <2>3. Sessions("app")' = Sessions("app")
    BY <2>2, LoadGives, TypeInvImplies DEF Process
  <2>4. screen = "starting"
    BY <2>2 DEF TypeInv, JobOK, JobShape
  <2>5. Matched(r)
    BY <1>2, <1>4, <2>2, <2>4, NoBatch
  <2>6. CASE Sessions("app")[p] = NoOne
    <3>0. made \in Key
      BY TypeInvImplies DEF TypeOK, Key
    <3>1. SetKey(p, made) /\ "stray" \notin Stray("app", {p}) /\ made \in Key
      BY <1>6, <2>6, <3>0 DEF StartPlatform, Blame
    <3> HIDE DEF p
    <3>2. disk[p] = NoOne
      BY <2>6, <3>1 DEF Stray, If
    <3>3. \A x \in Platform \ {p} : keys'[x] = keys[x]
      BY <2>1, <3>1, KeysType, TypeInvImplies
    <3>4. CASE r = p
      BY <2>2, <2>3, <2>6, <3>2, <3>4 DEF Matched, NoOne, r
    <3>5. CASE r # p
      BY <1>1, <2>2, <2>3, <2>5, <3>3, <3>5 DEF Matched, r
    <3>6. QED
      BY <3>4, <3>5
  <2>7. CASE Sessions("app")[p] # NoOne
    <3>1. keys' = keys
      BY <1>6, <2>7 DEF StartPlatform
    <3>2. QED
      BY <2>2, <2>3, <2>5, <3>1 DEF Matched, r
  <2>8. QED
    BY <2>6, <2>7
<1>7. CASE RenewSessions
  <2>1. /\ UNCHANGED <<keys, flow, job>> /\ Save("app", Sessions("app"))
        /\ blame \subseteq blame' /\ "stray" \notin Stray("app", Platform)
    BY <1>7 DEF RenewSessions, Blame
  <2>2. disk' = Sessions("app") /\ Sessions("app")' = Sessions("app")
    BY <2>1, SaveGives, SessionsType, TypeInvImplies DEF Process
  <2>3. Matched(r)
    BY <1>4, <2>1
  <2>4. QED
    BY <2>1, <2>2, <2>3 DEF Matched, r
<1>8. CASE WelcomeStep
  <2>1. ~Begins
    BY DEF Begins
  <2>2. ~ImportPlatform
    BY DEF ImportPlatform, TypeInv, JobOK, Jobs
  <2>3. CASE CreatePlatform
    <3>1. job' = Idle
      BY <2>3, NextCaseGives DEF CreatePlatform
    <3>2. Start("app", job.kind, "post", [p \in Platform |-> made])
      BY <2>3, <3>1 DEF CreatePlatform
    <3>3. \E f \in Flows : Batch(f)' /\ flow'[f].step = "post"
      <4>1. PICK f \in Flows : flow'[f].kind = job.kind /\ flow'[f].step = "post"
        BY <3>2, StartIs
      <4>2. job.kind \in Registering
        BY <2>3 DEF CreatePlatform
      <4>3. QED
        BY <4>1, <4>2 DEF Batch, BatchOf
    <3>4. QED
      BY <3>3 DEF AllSettled, Settled
  <2>4. CASE LoginBatch
    <3>1. Start("app", "restore", "post", keys)
      BY <2>4 DEF LoginBatch
    <3>2. \E f \in Flows : Batch(f)' /\ flow'[f].step = "post"
      BY <3>1, StartIs DEF Batch, BatchOf
    <3>3. QED
      BY <3>2 DEF AllSettled, Settled
  <2>6. CASE Turns
    <3>1. UNCHANGED <<keys, disk, loaded, loginUser, flow, job, blame>>
      BY <2>6 DEF Turns
    <3>2. Matched(r)
      BY <1>4, <3>1
    <3>3. QED
      BY <3>1, <3>2 DEF Matched, Sessions, r
  <2>7. QED
    BY <1>8, <2>1, <2>2, <2>3, <2>4, <2>6, WelcomeIs
<1>9. CASE Backup
  <2>1. UNCHANGED <<keys, disk, loaded, loginUser, flow, job, blame>>
    BY <1>9 DEF Backup
  <2>2. Matched(r)
    BY <1>4, <2>1
  <2>3. QED
    BY <2>1, <2>2 DEF Matched, Sessions, r
<1>10. ASSUME NEW p \in Platform, Unbind(p)
       PROVE  Matched(r)'
  <2>1. /\ UNCHANGED <<keys, disk, job, blame>> /\ Load("app") /\ screen = "main"
    BY <1>10 DEF Unbind, Free
  <2>2. Sessions("app")' = Sessions("app")
    BY <2>1, LoadGives, TypeInvImplies DEF Process
  <2>3. Matched(r)
    BY <1>2, <1>4, <2>1, NoBatch
  <2>4. QED
    BY <2>1, <2>2, <2>3 DEF Matched
<1>11. CASE LogoutAll
  <2>1. AllTokens("app")
    BY <1>11 DEF LogoutAll, Blame
  <2> DEFINE d == [p \in Platform |-> NoOne]
  <2>2. Save("app", d) /\ d \in [Platform -> Session]
    BY <1>11, <2>1, Values DEF LogoutAll
  <2>3. disk' = d /\ Sessions("app")' = d
    BY <2>2, SaveGives, TypeInvImplies DEF Process
  <2>4. QED
    BY <1>1, <2>3 DEF Matched, NoOne, r
<1>12. CASE DeletePlatform
  <2>1. /\ job.kind = "delete" /\ UNCHANGED <<disk, loaded, loginUser>> /\ blame \subseteq blame'
    BY <1>12 DEF DeletePlatform, Blame
  <2>2. Clean
    BY <1>2, <2>1 DEF Clean, Deleting
  <2>3. disk[r] = NoOne /\ Sessions("app")[r] = NoOne
    BY <1>1, <2>2 DEF OutInv
  <2>4. Sessions("app")' = Sessions("app")
    BY <2>1 DEF Sessions
  <2>5. QED
    BY <2>1, <2>3, <2>4 DEF Matched, NoOne, r
<1>13. ASSUME NEW p \in Platform, KeyboardLogin(p)
       PROVE  Matched(r)'
  <2>1. UNCHANGED <<keys, disk, job>> /\ Load("keyboard") /\ blame \subseteq blame'
    BY <1>13 DEF KeyboardLogin, Blame
  <2>2. Sessions("app")' = Sessions("app")
    BY <2>1, LoadGives, TypeInvImplies DEF Process
  <2>3. \A g \in Flows : Busy(g) => flow'[g] = flow[g]
    BY <1>13, StartIs DEF KeyboardLogin
  <2>4. Matched(r)
    BY <1>4, <2>1, <2>3 DEF Batch, BatchOf, Busy
  <2>5. QED
    BY <2>1, <2>2, <2>4 DEF Matched
<1>14. CASE AppEnds
  <2>1. /\ Forget("app") /\ UNCHANGED <<keys, disk>> /\ blame \subseteq blame'
        /\ job.kind = "none" /\ Registrations = {} /\ Restoring = {}
    BY <1>14 DEF AppEnds, Blame, If
  <2>2. \A g \in Flows : ~Batch(g)
    BY <2>1 DEF Registrations, Restoring, Batch, BatchOf, Busy
  <2>3. Sessions("app")' = disk
    BY <2>1, ForgetGives, TypeInvImplies DEF Process, Sessions
  <2>4. Matched(r)
    BY <1>4, <2>1, <2>2
  <2>5. QED
    BY <2>1, <2>3, <2>4 DEF Matched, r
<1>15. CASE KillKeyboard
  <2>1. Forget("keyboard") /\ UNCHANGED <<keys, disk, job, blame>>
    BY <1>15 DEF KillKeyboard
  <2>2. Sessions("app")' = Sessions("app")
    BY <2>1, ForgetGives, TypeInvImplies DEF Process, Sessions
  <2>3. \A g \in Flows : Batch(g) => flow'[g] = flow[g]
    BY <2>1, ForgetGives, TypeInvImplies, BatchIs DEF Process
  <2>4. Matched(r)
    BY <1>4, <2>1, <2>3
  <2>5. QED
    BY <2>1, <2>2, <2>4 DEF Matched, r
<1>16. Matched(r)'
  BY <1>5, <1>6, <1>7, <1>8, <1>9, <1>10, <1>11, <1>12, <1>13, <1>14, <1>15
     DEF Actors, AppStep, MainStep, KeyboardStep, Kill, KillApp, ImportTraps, r
<1>17. QED
  BY <1>16 DEF r

LEMMA MatchingAnswer ==
    ASSUME TypeInv, OutInv, WholeInv, MatchInv, NEW f \in Flows, Answer(f)
    PROVE  Matching'
<1> USE DEF bounds, store, pages
<1> SUFFICES ASSUME blame' = {}, job'.kind \notin {"import"} \cup Registering,
                    NEW i \in 1..Len(AllCases), AllSettled(i)'
             PROVE  Matched(AllCases[i])'
  BY DEF Matching
<1> DEFINE r == AllCases[i]
           s == [key |-> flow[f].key[One(f)], token |-> TRUE]
<1>1. r \in Platform /\ r = AllCases[i]
  BY Cases
<1>2. keys' = keys /\ job' = job
  BY DEF Answer, TokenArrived, TokensArrived, PostFailed, InfoArrived, InfoFailed, BindArrived,
        BindFailed
<1>3. Busy(f) /\ \A g \in Flows \ {f} : flow'[g] = flow[g]
  BY AnswerFollows
<1>4. ~Batch(f) => \A g \in Flows : Batch(g) => flow'[g] = flow[g]
  BY <1>3
<1>5. blame \subseteq blame' => blame = {} /\ Matching /\ UnbindHeld /\ Held /\ Whole
  BY DEF MatchInv, WholeInv
<1>6. blame \subseteq blame' /\ ~Batch(f) => Matched(r)
  BY <1>1, <1>2, <1>4, <1>5, SettledBack DEF Matching
<1>7. flow[f].kind \in {"single", "unbind"} =>
         ~Batch(f) /\ One(f) \in Platform /\ s \in Session /\ s.key = flow[f].key[One(f)]
         /\ One(f) \in UsersOf(flow[f]) /\ flow[f].on \in Process
  <2>1. flow[f].kind \in {"single", "unbind"} => s \in Session
    BY <1>3, OneGives, Values
  <2>2. QED
    BY <1>3, <2>1, OneGives, FlowNow, FlowFields DEF Batch, BatchOf, UsersOf
<1> HIDE DEF r
<1>8. CASE TokenArrived(f) \/ (InfoArrived(f) /\ flow[f].kind \in {"single", "unbind"})
  <2>1. /\ SetSession(flow[f].on, One(f), s) /\ flow[f].step \in {"post", "info"}
        /\ flow[f].kind \in {"single", "unbind"}
    BY <1>8 DEF TokenArrived, InfoArrived, Answered
  <2> HIDE DEF s
  <2>2. blame \subseteq blame'
    BY <2>1 DEF SetSession, Blame
  <2>3. HeldBy(flow[f], keys)
    BY <1>3, <1>5, <2>1, <2>2 DEF Held, Uses, UnbindHeld
  <2>4. s.key = keys[One(f)]
    BY <1>7, <2>1, <2>3 DEF HeldBy
  <2>5. Matched(r)
    BY <1>6, <1>7, <2>1, <2>2
  <2>6. QED
    BY <1>1, <1>2, <1>7, <2>1, <2>4, <2>5, SetMatches
<1>9. CASE InfoFailed(f) /\ flow[f].kind = "single"
  <2>1. SetSession(flow[f].on, One(f), NoOne)
    BY <1>9 DEF InfoFailed
  <2>2. blame \subseteq blame'
    BY <2>1 DEF SetSession, Blame
  <2>3. Matched(r)
    BY <1>6, <1>7, <1>9, <2>2
  <2>4. NoOne \in Session /\ NoOne.key = 0
    BY Values DEF NoOne
  <2>5. QED
    BY <1>1, <1>2, <1>7, <1>9, <2>1, <2>3, <2>4, SetMatches
<1>10. CASE TokensArrived(f) \/ (InfoFailed(f) /\ flow[f].kind \notin {"single", "unbind"})
  <2>1. flow[f].kind \in Registering \cup {"restore"}
    BY <1>3, <1>10, FlowNow, FlowFields DEF TokensArrived, Answered, FlowShape, Busy
  <2>2. PICK step \in {"store", "drop", "undo"} : Step(f, step)
    BY <1>10 DEF TokensArrived, InfoFailed, BindArrived, BindFailed, Undoing
  <2>3. PICK x \in FlowType : Changed(f, x) /\ x.kind = flow[f].kind /\ x.step = step /\ x.at = 1
    BY <2>2, StepGives, TypeInvImplies
  <2>4. Batch(f)' /\ ~(i < flow'[f].at) /\ flow'[f].step \notin {"info", "bind"}
    BY <2>1, <2>2, <2>3, Cases DEF Changed, Batch, BatchOf
  <2>5. QED
    BY <2>4 DEF AllSettled, Settled
<1>11. CASE InfoFailed(f) /\ flow[f].kind = "unbind"
  <2>1. UNCHANGED <<disk, loaded, loginUser, blame>>
    BY <1>11 DEF InfoFailed
  <2>2. Matched(r)
    BY <1>6, <1>7, <1>11, <2>1
  <2>3. QED
    BY <1>1, <1>2, <2>1, <2>2 DEF Matched, Sessions
<1>12. CASE PostFailed(f)
  <2>1. UNCHANGED <<disk, loaded, loginUser>> /\ blame \subseteq blame' /\ flow[f].kind = "single"
    BY <1>12 DEF PostFailed, Blame, If
  <2>2. Matched(r)
    BY <1>6, <1>7, <2>1
  <2>3. QED
    BY <1>1, <1>2, <2>1, <2>2 DEF Matched, Sessions
<1>13. CASE InfoArrived(f) /\ flow[f].kind \notin {"single", "unbind"}
  <2>1. Reported(f) /\ blame' = blame \cap {"late"}
    BY <1>13 DEF Reported, InfoArrived
  <2>2. "late" \notin blame
    BY <2>1
  <2>3. \A p \in Platform : Sessions("app")[p] = [key |-> keys[p], token |-> TRUE]
    BY <2>1, <2>2, ReportedIs
  <2>4. Sessions("app")[r].key = keys[r] /\ Sessions("app")[r].token = TRUE
    <3>1. Sessions("app")[r] = [key |-> keys[r], token |-> TRUE]
      BY <1>1, <2>3
    <3>2. QED
      BY <3>1
  <2>5. Sessions("app")[r] # NoOne
    BY <2>4 DEF NoOne
  <2>6. Save("app", Sessions("app"))
    BY <1>1, <1>13, <2>5 DEF InfoArrived
  <2>7. disk' = Sessions("app") /\ Sessions("app")' = Sessions("app")
    BY <2>6, SaveGives, SessionsType, TypeInvImplies DEF Process
  <2>8. QED
    BY <1>1, <1>2, <2>4, <2>7 DEF Matched
<1>14. CASE BindArrived(f) \/ BindFailed(f)
  <2>1. /\ flow[f].step = "bind" /\ Done(f) /\ blame \subseteq blame'
        /\ \/ UNCHANGED <<disk, loaded, loginUser>>
           \/ Save("app", Sessions("app"))
    BY <1>14 DEF BindArrived, BindFailed, Answered, Blame
  <2>2. AllSettled(i)
    BY <1>3, <2>1 DEF AllSettled, Settled, Batch
  <2>3. Matched(r)
    BY <1>1, <1>2, <1>5, <2>1, <2>2 DEF Matching
  <2>4. CASE UNCHANGED <<disk, loaded, loginUser>>
    BY <1>1, <1>2, <2>3, <2>4 DEF Matched, Sessions
  <2>5. CASE Save("app", Sessions("app"))
    <3>1. disk' = Sessions("app") /\ Sessions("app")' = Sessions("app")
      BY <2>5, SaveGives, SessionsType, TypeInvImplies DEF Process
    <3>2. QED
      BY <1>1, <1>2, <2>3, <3>1 DEF Matched
  <2>6. QED
    BY <2>1, <2>4, <2>5
<1>15. QED
  BY <1>8, <1>9, <1>10, <1>11, <1>12, <1>13, <1>14 DEF Answer

LEMMA MatchingClosure ==
    ASSUME TypeInv, OutInv, WholeInv, MatchInv, NEW f \in Flows, Closure(f)
    PROVE  Matching'
<1> USE DEF bounds, store, pages
<1> SUFFICES ASSUME blame' = {}, job'.kind \notin {"import"} \cup Registering,
                    NEW i \in 1..Len(AllCases), AllSettled(i)'
             PROVE  Matched(AllCases[i])'
  BY DEF Matching
<1> DEFINE r == AllCases[i]
           p == AllCases[flow[f].at]
<1>1. r \in Platform /\ r = AllCases[i]
  BY Cases
<1>2. job' = job /\ blame \subseteq blame'
  BY DEF Closure, StoreToken, DropKey, UndoSession, SetSession, Blame
<1>3. blame = {} /\ Matching /\ Refused /\ Held /\ Whole
  BY <1>2 DEF MatchInv, WholeInv
<1>4. /\ Batch(f) /\ flow[f].on = "app" /\ UsersOf(flow[f]) = Platform
      /\ flow[f].at \in 1..Len(AllCases) /\ p \in Platform /\ flow[f].key[p] \in Key \ {0}
      /\ flow[f].step \in {"refuse", "drop"} => flow[f].kind \in Registering
      /\ p = AllCases[flow[f].at]
  BY ClosureIs
<1>5. \A g \in Flows : Batch(g) => g = f
  BY <1>3, <1>4, OneBatch, BatchIs
<1>6. Settled(flow[f], i) => Matched(r)
  BY <1>1, <1>2, <1>3, <1>5 DEF Matching, AllSettled
<1>7. r = p <=> i = flow[f].at
  BY <1>1, <1>4, Cases
<1> HIDE DEF r, p
<1>8. CASE StoreToken(f)
  <2>1. PICK token \in BOOLEAN : SetSession("app", p, [key |-> flow[f].key[p], token |-> token])
    BY <1>8 DEF StoreToken, p
  <2>2. keys' = keys /\ flow[f].step = "store"
    BY <1>8 DEF StoreToken
  <2> DEFINE s == [key |-> flow[f].key[p], token |-> token]
  <2>3. keys[p] = flow[f].key[p]
    BY <1>3, <1>4, <2>2, BatchIs DEF Held, HeldBy, Uses
  <2>4. s \in Session /\ s.key = keys[p] /\ SetSession("app", p, s)
    BY <1>4, <2>1, <2>3, Values
  <2> HIDE DEF s
  <2>5. r = p \/ Settled(flow[f], i)
    <3>1. CASE flow[f].at < Len(AllCases)
      <4>1. flow' = [flow EXCEPT ![f].at = @ + 1]
        BY <1>8, <3>1 DEF StoreToken, Advance
      <4>2. PICK x \in FlowType :
              /\ Changed(f, x) /\ x.kind = flow[f].kind /\ x.step = flow[f].step
              /\ x.at = flow[f].at + 1
        BY <3>1, <4>1, MoreGives, TypeInvImplies
      <4>3. Batch(f)' /\ flow'[f] = x
        BY <1>4, <2>2, <4>2 DEF Changed, Batch, BatchOf
      <4>4. i < x.at
        BY <2>2, <4>2, <4>3 DEF AllSettled, Settled
      <4>5. i = flow[f].at \/ i < flow[f].at
        BY <1>4, <4>2, <4>4, Cases
      <4>6. QED
        BY <1>7, <2>2, <4>5 DEF Settled
    <3>2. CASE ~(flow[f].at < Len(AllCases))
      <4>1. i = flow[f].at \/ i < flow[f].at
        BY <1>4, <3>2, Cases
      <4>2. QED
        BY <1>7, <2>2, <4>1 DEF Settled
    <3>3. QED
      BY <3>1, <3>2
  <2>6. r # p => Matched(r)
    BY <1>6, <2>5
  <2>7. "app" \in Process
    BY DEF Process
  <2>8. Matched(r)'
    BY <1>1, <1>4, <2>2, <2>4, <2>6, <2>7, SetMatches
  <2>9. QED
    BY <2>8 DEF r
<1>9. CASE DropKey(f)
  <2>1. flow[f].step = "drop"
    BY <1>2, <1>3, <1>9 DEF DropKey, Refused
  <2>2. \/ Step(f, "undo")
        \/ flow[f].at < Len(AllCases) /\ flow' = [flow EXCEPT ![f].at = @ + 1]
    BY <1>9, <2>1 DEF DropKey, Advance
  <2>3. \E x : /\ Changed(f, x) /\ x.kind = flow[f].kind
               /\ x.step = "drop" \/ (x.step = "undo" /\ x.at = 1)
    BY <2>1, <2>2, StepGives, MoreGives, TypeInvImplies
  <2>4. Batch(f)' /\ (flow'[f].step = "drop" \/ (flow'[f].step = "undo" /\ ~(i < flow'[f].at)))
    BY <1>4, <2>3, Cases DEF Changed, Batch, BatchOf
  <2>5. QED
    BY <2>4 DEF AllSettled, Settled
<1>10. CASE UndoSession(f)
  <2>1. SetSession("app", p, NoOne) /\ keys' = keys /\ flow[f].step = "undo"
    BY <1>10 DEF UndoSession, p
  <2>2. NoOne \in Session /\ NoOne.key = 0
    BY Values DEF NoOne
  <2>3. r = p \/ Settled(flow[f], i)
    <3>1. CASE flow[f].at < Len(AllCases)
      <4>1. flow' = [flow EXCEPT ![f].at = @ + 1]
        BY <1>10, <3>1 DEF UndoSession, Advance
      <4>2. PICK x \in FlowType :
              /\ Changed(f, x) /\ x.kind = flow[f].kind /\ x.step = flow[f].step
              /\ x.at = flow[f].at + 1
        BY <3>1, <4>1, MoreGives, TypeInvImplies
      <4>3. Batch(f)' /\ flow'[f] = x
        BY <1>4, <2>1, <4>2 DEF Changed, Batch, BatchOf
      <4>4. i < x.at
        BY <2>1, <4>2, <4>3 DEF AllSettled, Settled
      <4>5. i = flow[f].at \/ i < flow[f].at
        BY <1>4, <4>2, <4>4, Cases
      <4>6. QED
        BY <1>7, <2>1, <4>5 DEF Settled
    <3>2. CASE ~(flow[f].at < Len(AllCases))
      <4>1. i = flow[f].at \/ i < flow[f].at
        BY <1>4, <3>2, Cases
      <4>2. QED
        BY <1>7, <2>1, <4>1 DEF Settled
    <3>3. QED
      BY <3>1, <3>2
  <2>4. r # p => Matched(r)
    BY <1>6, <2>3
  <2>5. "app" \in Process
    BY DEF Process
  <2>6. Matched(r)'
    BY <1>1, <1>4, <2>1, <2>2, <2>4, <2>5, SetMatches
  <2>7. QED
    BY <2>6 DEF r
<1>11. QED
  BY <1>8, <1>9, <1>10 DEF Closure

LEMMA MatchInit == Init => MatchInv
<1> SUFFICES ASSUME Init PROVE MatchInv
  OBVIOUS
<1>1. \A f \in Flows : flow[f].step = "idle"
  BY DEF Init, NoFlow
<1>2. Refused /\ UnbindHeld
  BY <1>1 DEF Refused, UnbindHeld, Busy
<1>3. Deleting
  BY DEF Init, Deleting, Idle
<1>4. Matching
  <2>1. \A p \in Platform : disk[p].key = 0 /\ Sessions("app")[p].key = 0
    BY DEF Init, Sessions, NoOne, Process
  <2>2. QED
    BY <2>1, Cases DEF Matching, Matched
<1>5. QED
  BY <1>2, <1>3, <1>4 DEF MatchInv

LEMMA MatchStep == TypeInv /\ OutInv /\ WholeInv /\ MatchInv /\ [Next]_vars => MatchInv'
<1> SUFFICES ASSUME TypeInv, OutInv, WholeInv, MatchInv, [Next]_vars PROVE MatchInv'
  OBVIOUS
<1>1. Matching'
  <2>1. CASE UNCHANGED vars
    BY <2>1 DEF vars, store, pages, bounds, MatchInv, Matching, AllSettled, Settled, Batch, Matched,
                Sessions
  <2>2. QED
    BY <2>1, MatchingActors, MatchingAnswer, MatchingClosure DEF Next, Actors
<1>2. QED
  BY <1>1, RefusedStep, DeletingStep, UnbindHeldStep DEF MatchInv

(* The session of a platform is one of its key pair when nothing is going  *)
(* on, unless one of the causes that blame names has parted them.          *)
THEOREM SessionsFitTheKeys == Spec => []SessionsMatchKeys
<1>1. Init => TypeInv /\ OutInv /\ WholeInv /\ MatchInv
  BY TypeInit, OutInit, WholeInit, MatchInit
<1>2. TypeInv /\ OutInv /\ WholeInv /\ MatchInv /\ [Next]_vars
      => (TypeInv /\ OutInv /\ WholeInv /\ MatchInv)'
  BY TypeStep, OutStep, WholeStep, MatchStep
<1>3. MatchInv => SessionsMatchKeys
  <2> SUFFICES ASSUME MatchInv, Quiet, blame = {}, NEW p \in Platform
               PROVE  disk[p].key \in {0, keys[p]}
    BY DEF SessionsMatchKeys
  <2>1. PICK i \in 1..Len(AllCases) : p = AllCases[i]
    BY Cases
  <2>2. AllSettled(i) /\ job.kind = "none"
    BY DEF Quiet, AllSettled, Batch, BatchOf, Busy
  <2>3. QED
    BY <2>1, <2>2 DEF MatchInv, Matching, Matched
<1>4. QED
  BY <1>1, <1>2, <1>3, PTL DEF Spec
=============================================================================
