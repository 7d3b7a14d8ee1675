---------------------------- MODULE SessionStore ----------------------------
(***************************************************************************)
(* The accounts of the device: the key pairs and the sessions that the app *)
(* and the keyboard extension share through the group's UserDefaults       *)
(* (RSA.swift, NetLayer.swift), as the app's first pages and the login of  *)
(* the keyboard drive them.                                                *)
(*                                                                         *)
(*   - a key pair is read from the defaults whenever it is needed, a       *)
(*     session from the copy of the dictionary each process made when it   *)
(*     first used it; a change of a session writes the whole copy back;    *)
(*   - the main queue of the app walks Platform.allCases (job), one        *)
(*     platform at a time;                                                 *)
(*   - a registration or login is a flow of two requests; its closures run *)
(*     on the process's serial completion queue.                           *)
(*                                                                         *)
(* Either process may be killed between any two steps.  A key pair is the  *)
(* number of the walk that made it, those of another device, or of an      *)
(* older version of the app with fewer platforms, come in a backup.  What  *)
(* a session says of the user beside key and token, the alerts, the wallet *)
(* address sent to the server, which leaves nothing here, and an           *)
(* authorisation that is answered after the welcome page was left are left *)
(* out.                                                                    *)
(***************************************************************************)
EXTENDS Integers, Sequences

CONSTANTS
    AllCases, \* Platform.allCases, a sequence of the platforms
    Flows,    \* bound: registrations and logins outstanding at a time
    MaxKey,   \* bound: walks that make key pairs
    MaxStart, \* bound: starts of the app
    MaxLogin  \* bound: logins of the keyboard

Platform == {AllCases[i] : i \in 1..Len(AllCases)}

(* Who may authorise a registration on the welcome page, and what a        *)
(* registration is begun with                                              *)
Providers   == Platform \cap {"weChat", "apple"}
Registering == {"anonymous"} \cup Providers

ASSUME CasesAssumption ==
    /\ AllCases \in Seq(Platform) /\ Len(AllCases) > 0
    /\ \A i, j \in 1..Len(AllCases) : AllCases[i] = AllCases[j] => i = j
ASSUME BoundAssumption ==
    MaxKey \in Nat /\ MaxStart \in Nat /\ MaxLogin \in Nat

VARIABLES
    keys,     \* the key pair of each platform in the defaults, 0 without one
    disk,     \* kNetLayerUser in the defaults
    loginUser,\* NetLayer.loginUser of each process
    loaded,   \* whether a process has made its copy
    backup,   \* the key pairs in the backup file the user keeps
    screen,   \* what the app shows, "off" when it does not run
    spinning, \* the welcome page's loading indicator
    asked,    \* the providers whose authorisation it waits for
    job,      \* the walk of the app's main queue
    flow,     \* registrations and logins
    made,     \* number of walks that made key pairs
    starts, logins, \* counters behind the bounds
    out,      \* history: logged out, and no account asked for since
    blame     \* history: what may have parted sessions and key pairs since they agreed

bounds == <<made, starts, logins>>
store  == <<disk, loginUser, loaded>>
pages  == <<screen, spinning, asked>>
vars   == <<keys, store, backup, pages, job, flow, bounds, out, blame>>

Foreign  == MaxKey + 1 \* a pair made elsewhere
Key      == 0..Foreign
Process  == {"app", "keyboard"}
Session  == [key : Key, token : BOOLEAN]
NoOne    == [key |-> 0, token |-> FALSE]
Idle     == [kind |-> "none", at |-> 0]
NoFlow   == [on |-> "app", kind |-> "single", key |-> [p \in Platform |-> 0],
             step |-> "idle", at |-> 0]
Jobs     == [kind : {"none", "start", "import", "delete"} \cup Registering,
             at : 0..Len(AllCases)]
Kinds    == {"single", "restore", "unbind"} \cup Registering
Steps    == {"idle", "post", "store", "info", "bind", "refuse", "drop", "undo"}
FlowType == [on : Process, kind : Kinds, key : [Platform -> Key], step : Steps,
             at : 0..Len(AllCases)]
Causes   == {"stray",  \* a process relied on, or wrote back, a copy that was not up to date
             "late",   \* a pair was replaced or deleted during a login with it
             "failed", \* the first request of a batch failed
             "kept",   \* logoutAll did nothing
             "killed"} \* the app was killed while it changed the account

TypeOK ==
    /\ keys \in [Platform -> Key] /\ backup \in [Platform -> Key]
    /\ disk \in [Platform -> Session]
    /\ loginUser \in [Process -> [Platform -> Session]]
    /\ loaded \in [Process -> BOOLEAN]
    /\ screen \in {"off", "starting", "welcome", "main"} /\ spinning \in BOOLEAN
    /\ asked \subseteq Providers
    /\ job \in Jobs /\ flow \in [Flows -> FlowType]
    /\ made \in 0..MaxKey /\ starts \in 0..MaxStart /\ logins \in 0..MaxLogin
    /\ out \in BOOLEAN /\ blame \subseteq Causes

Init ==
    /\ keys = [p \in Platform |-> 0]
    /\ \E S \in SUBSET Platform :
          backup = [p \in Platform |-> IF p \in S THEN Foreign ELSE 0]
    /\ disk = [p \in Platform |-> NoOne]
    /\ loginUser = [q \in Process |-> disk] /\ loaded = [q \in Process |-> FALSE]
    /\ screen = "off" /\ spinning = FALSE /\ asked = {} /\ job = Idle
    /\ flow = [f \in Flows |-> NoFlow]
    /\ made = 0 /\ starts = 0 /\ logins = 0
    /\ out = FALSE /\ blame = {}

-----------------------------------------------------------------------------
(* Helpers                                                                 *)

(* RSAKeyPairManager.keyPairsExists looks at the first platform only.      *)
KeyPairsExist == keys[AllCases[1]] # 0

(* NetLayer.loginUser as process q reads it                                *)
Sessions(q) == IF loaded[q] THEN loginUser[q] ELSE disk

Load(q) ==
    /\ loaded' = [loaded EXCEPT ![q] = TRUE]
    /\ loginUser' = [loginUser EXCEPT ![q] = Sessions(q)]

(* An assignment to loginUser and its didSet                               *)
Save(q, d) ==
    /\ loaded' = [loaded EXCEPT ![q] = TRUE]
    /\ loginUser' = [loginUser EXCEPT ![q] = d]
    /\ disk' = d

Blame(causes)        == blame' = blame \cup causes
If(cause, condition) == {c \in {cause} : condition}
Stray(q, platforms)  == If("stray", \E p \in platforms : Sessions(q)[p] # disk[p])

(* setSessionUser, and with NoOne removeSessionUser                        *)
SetSession(q, p, s) ==
    /\ Save(q, [Sessions(q) EXCEPT ![p] = s])
    /\ Blame(Stray(q, Platform \ {p}))

(* commonBatchRequestData                                                  *)
AllTokens(q) == \A p \in Platform : Sessions(q)[p].token

Busy(f)  == flow[f].step # "idle"
Users(f) == {p \in Platform : flow[f].key[p] # 0}
One(f)   == CHOOSE p \in Platform : Users(f) = {p}

(* The main queue of the app takes a tap, an alert or a callback.          *)
Free(page) == screen = page /\ job.kind = "none"

(* loadingWith covers the page while a backup is restored or a platform    *)
(* unbound.                                                                *)
Restoring == {f \in Flows : Busy(f) /\ flow[f].kind = "restore"}
Unbinding == {f \in Flows : Busy(f) /\ flow[f].kind = "unbind"}
Registrations == {f \in Flows : Busy(f) /\ flow[f].kind \in Registering}

(* The completion queue of q is inside a closure.                          *)
Running(q) == \E f \in Flows : flow[f].on = q /\ flow[f].step \in {"store", "refuse", "drop", "undo"}
Answered(f, step) == flow[f].step = step /\ ~Running(flow[f].on)

Start(q, kind, step, key) ==
    \E f \in Flows :
        /\ ~Busy(f)
        /\ flow' = [flow EXCEPT ![f] = [on |-> q, kind |-> kind, key |-> key,
                                        step |-> step, at |-> 0]]
Only(p, k) == [r \in Platform |-> IF r = p THEN k ELSE 0]

Step(f, step) == flow' = [flow EXCEPT ![f].step = step, ![f].at = 1]
Done(f)       == flow' = [flow EXCEPT ![f] = NoFlow]

(* The closure of f goes on with the next of allCases, or with what follows.*)
Advance(f, next) ==
    IF flow[f].at < Len(AllCases) THEN flow' = [flow EXCEPT ![f].at = @ + 1] ELSE next

SetKey(p, k) == keys' = [keys EXCEPT ![p] = k]

(* One of the flows uses the pair of p that changes.                       *)
Late(p, flows) == If("late", \E f \in flows : Busy(f) /\ p \in Users(f))

NextCase == IF job.at < Len(AllCases) THEN [job EXCEPT !.at = @ + 1] ELSE Idle

-----------------------------------------------------------------------------
(* The app starts                                                          *)

(* application(didFinishLaunchingWithOptions:)                             *)
Launch ==
    /\ screen = "off" /\ starts < MaxStart /\ made < MaxKey
    /\ starts' = starts + 1
    /\ IF KeyPairsExist
       THEN screen' = "starting" /\ job' = [kind |-> "start", at |-> 1] /\ made' = made + 1
       ELSE screen' = "welcome" /\ UNCHANGED <<job, made>>
    /\ UNCHANGED <<keys, store, backup, spinning, asked, flow, logins, out, blame>>

(* Its loop: a platform without session gets a new pair and registers.     *)
StartPlatform ==
    LET p == AllCases[job.at] IN
    /\ job.kind = "start"
    /\ Load("app")
    /\ IF Sessions("app")[p] = NoOne
       THEN /\ SetKey(p, made) /\ Start("app", "single", "post", Only(p, made))
            /\ Blame(Late(p, Flows) \cup Stray("app", {p}))
       ELSE UNCHANGED <<keys, flow, blame>>
    /\ job' = NextCase
    /\ UNCHANGED <<disk, backup, pages, bounds, out>>

(* g.wait, over when the registrations are or after 5 s                    *)
EnterMain ==
    /\ Free("starting")
    /\ screen' = "main"
    /\ UNCHANGED <<keys, store, backup, spinning, asked, job, flow, bounds, out, blame>>

(* checkAllTokensAvailable or getFriendListBatch fails, or the pairs were  *)
(* revoked: a new welcome page                                             *)
TokensRejected ==
    /\ Free("main")
    /\ screen' = "welcome" /\ spinning' = FALSE
    /\ Load("app")
    /\ UNCHANGED <<keys, disk, backup, asked, job, flow, bounds, out, blame>>

(* bind, from the settings, and userInfoBatch store sessions they have     *)
(* just read.                                                              *)
RenewSessions ==
    /\ screen \in {"welcome", "main"} /\ ~Running("app")
    /\ \E p \in Platform : Sessions("app")[p].token
    /\ Save("app", Sessions("app"))
    /\ Blame(Stray("app", Platform))
    /\ UNCHANGED <<keys, backup, pages, job, flow, bounds, out>>

-----------------------------------------------------------------------------
(* The welcome page                                                        *)

(* createNewKeyPairs for a registration of this kind                       *)
CreateNewKeyPairs(kind) ==
    /\ Free("welcome") /\ Restoring = {} /\ made < MaxKey
    /\ made' = made + 1
    /\ out' = FALSE
    /\ job' = [kind |-> kind, at |-> 1]
    /\ UNCHANGED <<keys, store, backup, screen, flow, starts, logins, blame>>

(* loginWithAnonymousDidTap                                                *)
LoginWithAnonymous ==
    /\ ~spinning /\ spinning' = TRUE
    /\ CreateNewKeyPairs("anonymous")
    /\ UNCHANGED asked

(* loginWithWeChatDidTap, loginWithAppleDidTap                             *)
AskProvider(p) ==
    /\ Free("welcome") /\ ~spinning /\ Restoring = {}
    /\ spinning' = TRUE /\ asked' = asked \cup {p}
    /\ UNCHANGED <<keys, store, backup, screen, job, flow, bounds, out, blame>>

(* thirdPlatformLoginCallback; Apple's answer stops the indicator first.   *)
Authorised(p) ==
    /\ p \in asked /\ asked' = asked \ {p}
    /\ spinning' = (spinning /\ p # "apple")
    /\ CreateNewKeyPairs(p)

(* Nothing follows a refusal: the indicator spins on.                      *)
NotAuthorised(p) ==
    /\ Free("welcome") /\ p \in asked /\ asked' = asked \ {p}
    /\ UNCHANGED <<keys, store, backup, screen, spinning, job, flow, bounds, out, blame>>

CreatePlatform ==
    /\ job.kind \in Registering
    /\ SetKey(AllCases[job.at], made) /\ Blame(Late(AllCases[job.at], Flows))
    /\ job' = NextCase
    /\ IF job' = Idle
       THEN Start("app", job.kind, "post", [p \in Platform |-> made])
       ELSE UNCHANGED flow
    /\ UNCHANGED <<store, backup, pages, bounds, out>>

(* loginWithBackupDidTap; a file that cannot be read leaves the indicator  *)
(* spinning.                                                               *)
LoginWithBackup ==
    /\ Free("welcome") /\ Restoring = {}
    /\ spinning' = TRUE
    /\ UNCHANGED <<keys, store, backup, screen, asked, job, flow, bounds, out, blame>>

(* documentPickerWasCancelled, or a wrong password: the indicator stops,   *)
(* whatever it was spinning for, and the buttons answer again.             *)
PickNoBackup ==
    /\ Free("welcome") /\ Restoring = {} /\ spinning
    /\ spinning' = FALSE
    /\ UNCHANGED <<keys, store, backup, screen, asked, job, flow, bounds, out, blame>>

(* importKeystore with the right password; picking the file has stopped    *)
(* the indicator too.                                                      *)
ImportKeystore ==
    /\ Free("welcome") /\ Restoring = {} /\ made < MaxKey
    /\ \E p \in Platform : backup[p] # 0
    /\ made' = made + 1
    /\ spinning' = FALSE /\ out' = FALSE
    /\ job' = [kind |-> "import", at |-> 1]
    /\ UNCHANGED <<keys, store, backup, screen, asked, flow, starts, logins, blame>>

(* importKeyPairs: a platform the backup lacks gets a new pair.            *)
ImportPlatform ==
    LET p == AllCases[job.at] IN
    /\ job.kind = "import" /\ job.at > 0
    /\ SetKey(p, IF backup[p] # 0 THEN backup[p] ELSE made) /\ Blame(Late(p, Flows))
    /\ job' = [job EXCEPT !.at = IF @ < Len(AllCases) THEN @ + 1 ELSE 0]
    /\ UNCHANGED <<store, backup, pages, flow, bounds, out>>

Imported == job = [kind |-> "import", at |-> 0]
AllKeys  == \A p \in Platform : keys[p] # 0

(* The rest of importKeystore, which reads every pair again                *)
LoginBatch ==
    /\ Imported /\ AllKeys
    /\ job' = Idle
    /\ Start("app", "restore", "post", keys)
    /\ UNCHANGED <<keys, store, backup, pages, bounds, out, blame>>

-----------------------------------------------------------------------------
(* The main page                                                           *)

(* exportKeyPairs, from the page after a registration or the settings      *)
Backup ==
    /\ Free("main") /\ AllKeys
    /\ backup' = keys
    /\ UNCHANGED <<keys, store, pages, job, flow, bounds, out, blame>>

(* unbind reads the session of p and asks the server.                      *)
Unbind(p) ==
    /\ Free("main") /\ Unbinding = {} /\ Sessions("app")[p].token
    /\ Start("app", "unbind", "info", Only(p, Sessions("app")[p].key))
    /\ Load("app")
    /\ UNCHANGED <<keys, disk, backup, pages, job, bounds, out, blame>>

(* Mutant: only the first platform is logged out.                          *)
LogoutFirst ==
    /\ Free("main") /\ Unbinding = {}
    /\ IF AllTokens("app")
       THEN /\ Save("app", [Sessions("app") EXCEPT ![AllCases[1]] = NoOne])
            /\ out' = TRUE
            /\ blame' = If("late", \E f \in Flows : Busy(f))
       ELSE /\ Load("app")
            /\ Blame({"kept"})
            /\ UNCHANGED <<disk, out>>
    /\ job' = [kind |-> "delete", at |-> 1]
    /\ UNCHANGED <<keys, backup, pages, flow, bounds>>

(* deleteKey: logoutAll, which does nothing when a token is missing, and   *)
(* then deleteKeyPairs and a new welcome page                              *)
LogoutAll ==
    /\ Free("main") /\ Unbinding = {}
    /\ IF AllTokens("app")
       THEN /\ Save("app", [p \in Platform |-> NoOne])
            /\ out' = TRUE
            /\ blame' = If("late", \E f \in Flows : Busy(f))
       ELSE /\ Load("app")
            /\ Blame({"kept"})
            /\ UNCHANGED <<disk, out>>
    /\ job' = [kind |-> "delete", at |-> 1]
    /\ UNCHANGED <<keys, backup, pages, flow, bounds>>

DeletePlatform ==
    /\ job.kind = "delete"
    /\ SetKey(AllCases[job.at], 0) /\ Blame(Late(AllCases[job.at], Flows))
    /\ job' = NextCase
    /\ IF job' = Idle
       THEN screen' = "welcome" /\ spinning' = FALSE
       ELSE UNCHANGED <<screen, spinning>>
    /\ UNCHANGED <<store, backup, asked, flow, bounds, out>>

-----------------------------------------------------------------------------
(* The keyboard                                                            *)

(* ChatEngine.login for p, with no session or no connection                *)
KeyboardLogin(p) ==
    /\ logins < MaxLogin
    /\ logins' = logins + 1
    /\ Load("keyboard")
    /\ IF keys[p] # 0
       THEN Start("keyboard", "single", "post", Only(p, keys[p])) /\ Blame(If("late", out))
       ELSE UNCHANGED <<flow, blame>>
    /\ UNCHANGED <<keys, disk, backup, pages, job, made, starts, out>>

-----------------------------------------------------------------------------
(* Answers, on the completion queue of the flow's process                  *)

(* regNewUser, loginUser: the token is stored and userInfo asked.          *)
TokenArrived(f) ==
    /\ Answered(f, "post") /\ flow[f].kind = "single"
    /\ SetSession(flow[f].on, One(f), [key |-> flow[f].key[One(f)], token |-> TRUE])
    /\ Step(f, "info")
    /\ UNCHANGED <<keys, backup, pages, job, bounds, out>>

(* regNewUserBatch, loginBatch: the loop over users follows.               *)
TokensArrived(f) ==
    /\ Answered(f, "post") /\ flow[f].kind # "single"
    /\ Step(f, "store")
    /\ UNCHANGED <<keys, store, backup, pages, job, bounds, out, blame>>

(* The first request fails and nothing was stored; createNewKeyPairs       *)
(* deletes the pairs, the others leave them.                               *)
PostFailed(f) ==
    /\ Answered(f, "post")
    /\ IF flow[f].kind \in Registering THEN Step(f, "refuse") ELSE Done(f)
    /\ Blame(If("failed", flow[f].kind # "single"))
    /\ UNCHANGED <<keys, store, backup, pages, job, bounds, out>>

(* What a failed batch does next                                           *)
Undoing(f) == IF flow[f].kind \in Registering THEN "drop" ELSE "undo"

(* Mutant: userInfoBatch does not look at the tokens before it asks.       *)
StoreAnyToken(f) ==
    /\ flow[f].step = "store"
    /\ \E token \in BOOLEAN :
          SetSession("app", AllCases[flow[f].at], [key |-> flow[f].key[AllCases[flow[f].at]],
                                                   token |-> token])
    /\ Advance(f, Step(f, "info"))
    /\ UNCHANGED <<keys, backup, pages, job, bounds, out>>

(* setSessionUser for one user of a batch; the server may have left out    *)
(* its token, and then userInfoBatch fails before it asks.                 *)
StoreToken(f) ==
    /\ flow[f].step = "store"
    /\ \E token \in BOOLEAN :
          SetSession("app", AllCases[flow[f].at], [key |-> flow[f].key[AllCases[flow[f].at]],
                                                   token |-> token])
    /\ Advance(f, IF \A p \in Platform : disk'[p].token THEN Step(f, "info")
                  ELSE Step(f, Undoing(f)))
    /\ UNCHANGED <<keys, backup, pages, job, bounds, out>>

(* The main queue shows the main page, unless the restoring of a backup    *)
(* covers this one.                                                        *)
LeavePage(f) ==
    /\ job.kind \notin Registering
    /\ IF Restoring \ {f} = {} /\ job.kind = "none"
       THEN screen' = "main" /\ asked' = {}
       ELSE UNCHANGED <<screen, asked>>

(* userInfo and unbind store the user they were called with, userInfoBatch *)
(* the sessions it reads; its caller binds the provider's platform or      *)
(* leaves the page.                                                        *)
InfoArrived(f) ==
    /\ Answered(f, "info")
    /\ IF flow[f].kind \in {"single", "unbind"}
       THEN /\ SetSession(flow[f].on, One(f), [key |-> flow[f].key[One(f)], token |-> TRUE])
            /\ Done(f)
            /\ UNCHANGED <<screen, asked>>
       ELSE /\ IF \E p \in Platform : Sessions("app")[p] # NoOne
               THEN Save("app", Sessions("app"))
               ELSE UNCHANGED store
            /\ IF flow[f].kind \in Providers
               THEN Step(f, "bind") /\ UNCHANGED <<screen, asked>>
               ELSE Done(f) /\ LeavePage(f)
            /\ blame' = blame \cap {"late"}
    /\ UNCHANGED <<keys, backup, spinning, job, bounds, out>>

(* bind stores the provider's session as it reads it and the page is left. *)
BindArrived(f) ==
    /\ Answered(f, "bind") /\ Sessions("app")[flow[f].kind].token
    /\ Save("app", Sessions("app")) /\ Blame(Stray("app", Platform))
    /\ Done(f) /\ LeavePage(f)
    /\ UNCHANGED <<keys, backup, spinning, job, bounds, out>>

(* An alert: the account is there, the page stays and its indicator spins  *)
(* on if it still does.                                                    *)
BindFailed(f) ==
    /\ Answered(f, "bind")
    /\ Done(f)
    /\ UNCHANGED <<keys, store, backup, pages, job, bounds, out, blame>>

(* They fail: a login's session is removed; a batch tells its caller,      *)
(* which deletes the pairs of a registration, and then removes them.       *)
InfoFailed(f) ==
    /\ Answered(f, "info")
    /\ CASE flow[f].kind = "single" -> SetSession(flow[f].on, One(f), NoOne) /\ Done(f)
         [] flow[f].kind = "unbind" -> Done(f) /\ UNCHANGED <<store, blame>>
         [] OTHER -> Step(f, Undoing(f)) /\ UNCHANGED <<store, blame>>
    /\ UNCHANGED <<keys, backup, pages, job, bounds, out>>

(* Mutant: createNewKeyPairs leaves the indicator spinning.                *)
DropKeySpinning(f) ==
    /\ flow[f].step \in {"refuse", "drop"}
    /\ SetKey(AllCases[flow[f].at], 0) /\ Blame(Late(AllCases[flow[f].at], Flows \ {f}))
    /\ Advance(f, IF flow[f].step = "drop" THEN Step(f, "undo") ELSE Done(f))
    /\ UNCHANGED <<store, backup, pages, job, bounds, out>>

(* createNewKeyPairs is told of a failure: deleteKeyPairs, platform by     *)
(* platform, and the indicator stops.                                      *)
DropKey(f) ==
    /\ flow[f].step \in {"refuse", "drop"}
    /\ SetKey(AllCases[flow[f].at], 0) /\ Blame(Late(AllCases[flow[f].at], Flows \ {f}))
    /\ Advance(f, IF flow[f].step = "drop" THEN Step(f, "undo") ELSE Done(f))
    /\ spinning' = (spinning /\ flow[f].at < Len(AllCases))
    /\ UNCHANGED <<store, backup, screen, asked, job, bounds, out>>

(* Mutant: the sessions a failed batch stored are left.                    *)
UndoNothing(f) ==
    /\ flow[f].step = "undo"
    /\ Advance(f, Done(f))
    /\ UNCHANGED <<keys, store, backup, pages, job, bounds, out, blame>>

(* removeSessionUser for one user of a failed batch                        *)
UndoSession(f) ==
    /\ flow[f].step = "undo"
    /\ SetSession("app", AllCases[flow[f].at], NoOne)
    /\ Advance(f, Done(f))
    /\ UNCHANGED <<keys, backup, pages, job, bounds, out>>

-----------------------------------------------------------------------------
(* A process ends                                                          *)

Forget(q) ==
    /\ flow' = [f \in Flows |-> IF flow[f].on = q THEN NoFlow ELSE flow[f]]
    /\ loaded' = [loaded EXCEPT ![q] = FALSE]
    /\ loginUser' = [loginUser EXCEPT ![q] = [p \in Platform |-> NoOne]]

AppEnds ==
    /\ Forget("app")
    /\ screen' = "off" /\ spinning' = FALSE /\ asked' = {} /\ job' = Idle
    /\ Blame(If("killed", job.kind # "none" \/ Registrations # {} \/ Restoring # {}))
    /\ UNCHANGED <<keys, disk, backup, bounds, out>>

KillApp == screen # "off" /\ AppEnds

(* importKeystore unwraps a pair that was deleted since it was imported.   *)
ImportTraps == Imported /\ ~AllKeys /\ AppEnds

KillKeyboard ==
    /\ loaded["keyboard"]
    /\ Forget("keyboard")
    /\ UNCHANGED <<keys, disk, backup, pages, job, bounds, out, blame>>

-----------------------------------------------------------------------------
AppStep == Launch \/ StartPlatform \/ EnterMain \/ TokensRejected \/ RenewSessions
ProviderStep == \E p \in Providers : AskProvider(p) \/ Authorised(p) \/ NotAuthorised(p)
BackupStep == LoginWithBackup \/ PickNoBackup \/ ImportKeystore \/ ImportPlatform \/ LoginBatch
WelcomeStep == LoginWithAnonymous \/ ProviderStep \/ CreatePlatform \/ BackupStep
MainStep == Backup \/ (\E p \in Platform : Unbind(p)) \/ LogoutAll \/ DeletePlatform
Answer(f) == TokenArrived(f) \/ TokensArrived(f) \/ PostFailed(f) \/ InfoArrived(f) \/ InfoFailed(f)
             \/ BindArrived(f) \/ BindFailed(f)
Closure(f) == StoreToken(f) \/ DropKey(f) \/ UndoSession(f)
KeyboardStep == \E p \in Platform : KeyboardLogin(p)
Kill == KillApp \/ ImportTraps \/ KillKeyboard

Next == AppStep \/ WelcomeStep \/ MainStep \/ KeyboardStep \/ Kill
        \/ \E f \in Flows : Answer(f) \/ Closure(f)

(* A request is answered or times out, a queue runs what it has begun.     *)
Fairness ==
    /\ WF_vars(CreatePlatform)
    /\ \A f \in Flows : WF_vars(Answer(f)) /\ WF_vars(Closure(f))

Spec == Init /\ [][Next]_vars
FairSpec == Spec /\ Fairness

-----------------------------------------------------------------------------
(* Properties                                                              *)

Quiet == job.kind = "none" /\ \A f \in Flows : ~Busy(f)

(* The session of a platform is one of its key pair, the one a backup      *)
(* holds and that decrypts its chats, when nothing is going on.  Only a    *)
(* copy of the dictionary that was not up to date, a pair replaced during  *)
(* a login with it, a failed batch, a logout that logoutAll ignored and a  *)
(* killed process part them.                                               *)
SessionsMatchKeys ==
    Quiet /\ blame = {} => \A p \in Platform : disk[p].key \in {0, keys[p]}

(* After a logout no session comes back to the defaults, unless a login    *)
(* was outstanding in either process, or the app was killed before the     *)
(* pairs were deleted and registers anew when it starts.                   *)
LoggedOutStaysOut ==
    out /\ blame \cap {"late", "killed"} = {} => \A p \in Platform : disk[p] = NoOne

(* A registration or restored backup that is reported to the page has a    *)
(* session with a token for every platform, of the pair in the defaults,   *)
(* unless a pair changed during a login with it.                           *)
ReportedLoginIsWhole ==
    [][screen = "welcome" /\ screen' = "main" /\ "late" \notin blame
        => \A p \in Platform : disk'[p] = [key |-> keys'[p], token |-> TRUE]]_vars

(* An anonymous registration that was begun ends: the page is left or the  *)
(* indicator stops, and the buttons answer again.  One begun with WeChat   *)
(* does so until it asks to bind; if that fails, nothing stops the         *)
(* indicator any more but choosing a backup.  With Apple the indicator has *)
(* stopped before it begins.                                               *)
Binding == \E f \in Flows : flow[f].kind = "weChat" /\ flow[f].step = "bind"

RegistrationEnds ==
    /\ job.kind = "anonymous" ~> (~spinning \/ screen # "welcome")
    /\ job.kind = "weChat" ~> (~spinning \/ screen # "welcome" \/ Binding)

=============================================================================
