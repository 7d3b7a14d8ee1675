# KeyCrypt / Whoops: a TLA+ model of the keyboard

KeyCrypt (called Whoops in the code) is an iOS app and a keyboard extension
that encrypts chats inside other messengers. The keyboard is a Chinese input
method, a chat client with its own IM connection, and a wallet front end. The
code is Swift (`src/Whoops-IOS-Dev`); the two back ends under `src/go-backend`
and `src/rust-backend` are placeholders. The test targets contain only the
empty Xcode templates, so what the code promises is taken from its comments and
from what its callers rely on.

This directory holds TLA+ modules translated from the Swift source, the TLC
configurations that check them, and proofs checked by TLAPS. `PROJECT.json`
says, for every definition, which lines it stands for.

Short names for files used below: `SocketLayer.swift`, `ChatEngine.swift`,
`MsgHistory.swift`, `ChatHistoryView.swift` and `TouchLayer.swift`,
`KeyboardViewController.swift`, `ZhInput.swift` live under `keyboard/`;
`NetLayer.swift` and `WalletUtil.swift` under `SharedLib/`, in use by both the
app and the keyboard.

## 1. Inventory

| Component | State it keeps | Operations | Hard behaviour | What makes it correct | Status |
|---|---|---|---|---|---|
| Message connection and login (`SocketLayer`, `ChatEngine.login`) | socket, session, session user, callback slot, heartbeat timer, semaphores | connect2Server, login, heartBeat, watchDog, delegate calls, sendMessage | three threads on the same fields; waits that block queues; late answers; reconnects | one report per attempt, no session without its connection, no session without heartbeat, every login ends | `SocketLayer` |
| Open chat and its cache (`ChatEngine`, `MsgHistory`, `ChatHistoryView`) | target, page number, cached messages per friend, list on screen, refresh control | setTarget, removeTarget, loadMoreHistory, newMsgArrived, sendMsg, releaseHistory | a merge on one queue, appends on another, clearing on a third; pages that shift; a chat changed between check and use | no message lost, no hole and no repetition in the history, pages only in their chat, the refresh control stops | `ChatEngine` |
| Touches to key presses (`TouchLayer`, `KeyboardViewController`) | current touch, cached key, pending key | shouldReceive, touchesEnded, keyDown/Up/Other, long presses, pan gestures, repeat timer | fingers that overlap and lift in any order, gestures that take a touch away | a press typed once, none lost | `KeyTouch` |
| Unread counters and red dot (`MsgHistory`, `ChatEngine`) | unreadCount, offlineDict | unreadAdd, setOfflineMsg, confirmUnreadMsg | two dictionaries written by three queues, the dot by two | an unread chat stays marked until it is read, a mark is earned, the dot shows the marks | `Inbox`, `UnreadCount` |
| Reception (`SocketLayer` didRead, `ChatEngine`) | reads outstanding and their tags, messages on their way | didRead, didWrite, dispatch by type, decryption, states of sent messages | frames coalesced or split by TCP, answers told apart only by the read that got them | the connection never falls silent, order, a drop costs only itself | `Reception` |
| Sessions, key pairs, registration, login, logout (`NetLayer`, `RSA`, `AppDelegate`, `WelcomeController`) | loginUser, a copy in each process, key pairs in shared defaults | regNewUserBatch, loginUserBatch, setSessionUser, unbind, logoutAll, import and deletion of keys | two processes write whole dictionaries back; requests in a row, roll-back after the callback | a session is of its key pair, a logout is final, a reported login is whole | `SessionStore` |
| Recent list (`NetLayer`, `ChatEngine`, contact pages) | recent_userList_dic, a copy in each process | setMostRecentUser, setRecentUser, merge with the friend list, removal | read, work and write on five queues of two processes | the open chat comes first, nobody twice, nobody dropped or revived | `RecentList` |
| Input buffer (`ZhInput`, `KeyboardViewController`) | inputBuffer, candidates, tracebackStack | keyPress, selection, traceback, confirm, insertion | the buffer is read and written back by two queues | no letter lost, doubled or swapped; candidates of the buffer | `InputBuffer` |
| Candidates (`QuanpinStrategy`, `InputDelegate`) | inputBuffer of the strategy, resultCache, candidateCache | getCandidates with its queries, group of blocks, wait, clearing | late blocks, two callers | candidates are of the letters asked for, all there, nothing left over | `Candidates` |
| Nine keys (`PinyinStruct`, `NumString`, `T9Strategy`, `PinYinSelector`) | lists of codes, paths, table of syllables | set, nums2pylist, select, reload | lists replaced while the table shows the old ones | lists and paths cover the digits, a tap takes what its row shows | `NineKeys`, `PinyinSelector`, `Segment` |
| Engine (`PriorityStack`, `Dag/LoginputEngine`, `FSegment`) | stacks of best paths | push, getCandidate, segment, dag | places, ties, bounds | the best is kept, what is found is optimal or complete | `PriorityStack`, `Sentence`, `Segment` |
| Learning (`Database+Think`) | the table of associations, one flag | learn, take the newest row back, take a word out | several statements per operation, from any thread | counts right, one row per pair, a deletion takes out what it deletes | `Learning` |
| Wallet store (`WalletUtil`, wallet pages) | current wallet, wallet list, keychain | migrate, create, import, recover, rename, enable tokens, switch | three stores written one after the other, a kill between, copies on pages | one entry per wallet, edits and keys kept, the keychain opens its wallet | `WalletStore` |
| Sending tokens (`SendTokenController`) | form, balance, limits, overlay | edit, estimate, send, nested answers, polling | form editable while requests run; one overlay for all | what is signed is what was shown; one payment at a time | `SendToken` |
| DApp web view (`WebViewController`, `DAppAPI`, `ConfluxAPI`) | requests, dialogs, approval, page | request, dialog, password, four answers of the node | answers out of order, page or wallet changed meanwhile | refused is not sent, signed by its sender, nobody asked twice | `DAppRequests` |
| App pages, keyboard views, settings, message encryption | layout, defaults | | | | not modelled: views, key-value reads, pure library calls |
| Go and Rust back ends, pods, tests | | | | | not modelled: placeholders and third-party code, but for the input engine's Swift sources under `Pods/LoginputEngineLib`, which are modelled |

How they interact. The keyboard's view controller appears and calls
`ChatEngine.login` on a global queue. That drives `SocketLayer` and falls back
to `NetLayer` requests. `SocketLayer` hands arriving messages to `ChatEngine`
on the main queue. `ChatEngine` appends them to `MsgHistory`, shows them in
`ChatHistoryView` or counts them as unread, and keeps the recent list in
`NetLayer`. Touches become key presses in `TouchLayer` and
`KeyboardViewController`, which hand them to `ZhInput`; that asks the strategy
(`QuanpinStrategy`, `T9Strategy`) for candidates, which asks the engine for
sentences; text goes to the host app or, in a chat, to `ChatEngine.sendMsg`, and
what was entered is learned. The app process shares sessions, key pairs and
wallets with the keyboard through the group's `UserDefaults`; its web view and
its payments sign with the current wallet, whose password the keychain keeps.

Threads, as modelled. The main queue and the labelled queues are serial. The
completion queue of `URLSession.shared` is serial. Global-queue blocks run
beside everything else. A queue is a sequence of blocks in the order they were
posted; where a closure reads shared state and writes it later, the model has
a step for each.

## 2. Plan

The order was: the connection (`SocketLayer`), the chat on it (`ChatEngine`),
the touches (`KeyTouch`), the marks (`UnreadCount`, shown to implement `Inbox`);
then the shared stores (`SessionStore`, `RecentList`, `WalletStore`), what depends
on them (`SendToken`, `DAppRequests`), the input method from the key press to the
sentence (`InputBuffer`, `Candidates`, `NineKeys`, `PinyinSelector`, `Segment`,
`Sentence`, `PriorityStack`), and `Reception` and `Learning`; then the proofs about
the connection, the reception, the chat, the sessions, the recent list, the touches,
the marks, the sentence search, the wallet stores, payments and requests, the search
for candidates and the learning. All of these are done.

What is left, in the order of its worth:

1. theorems about `InputBuffer`, and about the table of `PinyinSelector`;
2. an abstract `ChatLog`, a growing set of known messages per friend, that
   `ChatEngine` implements between logins;
3. the keyboard's transfer view, which sends like `SendToken` and then writes a
   chat message; the user's dictionary, which has the shape of `Learning`; the
   nine keys' own queries, which have the shape of `Candidates`.

## 3. Modules

**`SocketLayer.tla`** models the connection and the login. `sock`, `conn`,
`outQ`, `inQ` are GCDAsyncSocket with the server at the other end; `session`,
`sessionUser`, `callback`, `timer` are the fields of `SocketLayer`; `att` is
the program counter of each `ChatEngine.login`; `token`, `inflight`, `granted`,
`netBusy` are the `NetLayer` requests and semaphores behind them; `mainQ` and
`main` are the main queue, which blocks in the reconnect. `connect2Server` is
two steps, up to its wait and from its end; the delegate calls are one step,
except that calling the callback and clearing it are two, because the login
threads assign the same field. A session remembers which connection it was
granted on and whether the response said success, as the code never looks.

**`ChatEngine.tla`** models the chat that is open. The main queue runs taps
and the blocks posted to it (`mainQ`); `backGroundQueue` appends (`bgQ`); the
completion queue runs `loadMoreHistory`'s closure, which is three steps:
`HistoryArrived` compares the target and reads the cache, `SetHistory` writes it
through `writeQueue`, `TurnPage` sets the page number and posts the list.
`releaseHistory` queues its block on `writeQueue` (`release`), and a synchronous
write waits behind it. A message is its timestamp, which is all
`LXFChatMsgModel.==` compares; the server keeps a log per chat and pages it from
the newest message. A read of the cache is atomic. `arrived`, `overlapped`,
`repaged` and `crossed` are history variables. `Unique` keeps the first of equal
messages by their place (`Firsts`, `Rank`), which is what the loop of
`removeDuplicates` leaves.

**`KeyTouch.tla`** models fingers, `TouchLayer`'s current touch and one-entry
key cache, and the controller's pending key. Operators on the press record are
the controller's methods; each action is one event UIKit delivers, with all the
calls it leads to. Which recognizer sees a touch first, and whether a recognizer
keeps a touch to itself, is UIKit's choice and nondeterministic.
A confirmation is counted per touch (`fired`).
The earth key, whose confirmation types nothing, and the drawing of keys are
left out. `landed`, `slid`, `dropped` and `swiped` are history variables.

**`Inbox.tla`** states what the marks of the contact list promise, without
queues or dictionaries: `unread` chats are `marked` and stay so until one is
read or a login forgets all.

**`UnreadCount.tla`** models `MsgHistory`'s two dictionaries and the red dot.
`at` is the program counter of the main queue and of the completion queue. A
chat is opened in steps `ClearCounter`, `FetchOffline`, `DropOffline`, which are
the two writes of `confirmUnreadMsg` and the read between them; the offline
answer is `CountOffline` for each entry and then `StoreOffline`. Both end in
`Look` and `PostDot`. `ReleaseHistory` is the block of `login` on `writeQueue`.
`Count` is `getUnreadMsgCount`; a missing entry of either dictionary is 0.
`Promise` is `Inbox` with `marked` mapped to the chats whose `Count` is positive;
`unread`, `late` and `raced` are history variables. That the server
deletes acknowledged messages is not modelled: an answer may name any friends.

**`Reception.tla`** models what one connection after the other reads and writes.
GCDAsyncSocket is modelled from the outside: `writes` are sent and answered in
order (`asked`), `wire` holds parts of frames, two to a frame, and a read takes
any number of them. `reads` are the tags of the reads outstanding. `Delegate` is
one delegate call on the main queue, with the early returns of didRead; the
pushed message goes over `decrypt` and back. `SocketLayer`'s `Read` abstracts
this module; here every login is granted.

**`SessionStore.tla`** has the defaults (`keys`, `disk`) and a copy per process.
`job` is the walk of the app's main queue over `Platform.allCases`; a flow is a
registration or login with two requests, in its single and its batch form.
The three logins of the welcome page differ before and after it: `AskProvider`,
`Authorised` and `NotAuthorised` are the taps and answers of WeChat and Apple, and
their registrations end with a third request (`BindArrived`, `BindFailed`).
A backup may be there from the start, made on another device (`Foreign`), and may
lack platforms that an older version did not have. `KillApp`, `KillKeyboard` and
`ImportTraps` end a process between two steps, and what it had queued is gone.

**`RecentList.tla`** gives each queue that changes the list a read and a write;
`copy` and `loaded` are the dictionary of each process, `disk` what they share.
An entry is a contact together with which number `==` compares.

**`WalletStore.tla`** has `current` (defaults), `list` (MMKV) and `keychain`. An
operation on the main queue is the list of the writes it still has to do (`job`),
and a kill may come between two of them. `last` is what the user saw saved.

**`SendToken.tla`** models one page: the fields, the requests outstanding, the
one overlay, and for each tap on the button where its chain of answers is.
`shown` records the form at the moment the password was accepted.

**`DAppRequests.tla`** numbers the requests of a page and follows each through
dialogs (a stack), the keychain, and the answers of the node to the evaluation of
the callback. `ConfluxAPI.approved`, the page's `known` address and the current
wallet are shared by all of them.

**`InputBuffer.tla`** gives each of the two queues a program counter (`act`) and a
step per access of `inputBuffer`: `+=`, `remove(at:)` and `dropFirst` are a read
and a write, as the buffer's lock covers each alone. Every key carries its
number, so that the text tells where each letter went. `causes` records what has
come in between; the properties name the causes that excuse them.

**`Candidates.tla`** follows `getCandidates` of full pinyin on each queue that
calls it, step by step, with the blocks of its group, which may run at any time
and are waited for only for a while. What a call asks for, and how much of it the
caches know, is one of the `Kinds` it is given.

**`NineKeys.tla`** computes `pinyin`, `pinyin2` and `pinyins` from a buffer over
any table of codes, as `PinyinStruct` and `NumString` do; it uses recursive
operators. **`PinyinSelector.tla`** takes such lists as data and models the table
beside the keys: `set` on the key queue, `Reload` and taps on the main queue.

**`PriorityStack.tla`** is the push of the engine's bounded stack.
**`Sentence.tla`** is `getCandidate` built on it: three passes over the stacks,
one push a step, over any lexicon and any scores. **`Segment.tla`** is the
cutting of letters (`FSegment.segment`) and of the nine keys' syllables
(`T9Strategy.dag`), each compared with all ways to cut.

**`Learning.tla`** models the table `Think` with one step per SQL statement and
any number of operations at once on the global queue. `evidence` counts what the
user entered.

### Modules for TLC

`MCSocketLayer`, `MCChatEngine`, `MCSessionStore` and `MCRecentList` instantiate
one module: they add the symmetry of attempts, friends and flows, and the order
of two platforms or contacts. `MCReception` chooses in the initial state whether
the user sends or a heartbeat is due, and drops only the other of the two actions.

`MCKeyTouch`, `MCWallet`, `MCInput`, `MCEngine` and `MCLiveness` put components
side by side in one run: one of them is extended, the others are instances, and
no two share a variable. `part` (`asked` in `MCEngine`) is chosen in the initial
state and says which one moves; the others keep the state they began in. So a
behaviour is a behaviour of one component in which the others stutter, and no
product of state spaces arises; nothing that components do to each other is
claimed here, as each models what the others send it. A property of such a module
is a conjunction of named properties of the parts:

| Property | of | is |
|---|---|---|
| `TableRight` (MCKeyTouch) | `PinyinSelector` | `TakesWhatIsShown`, `TrapsNeedCause`, `PinyinFits`, `StartsAfresh`, `ShownIsCurrent` |
| `WalletsKept` (MCWallet) | `WalletStore` | `ListedOnce`, `EditsKept`, `KeysKept`, `KeychainOpens` |
| `PaymentsRight` (MCWallet) | `SendToken` | `SentAsShown`, `LimitsFit`, `OneAtATime` |
| `RequestsRight` (MCWallet) | `DAppRequests` | `RefusedIsNotSent`, `SignedByItsSender`, `AskedOnce`, `SignedIsTaken` |
| `BufferKept` (MCInput) | `InputBuffer` | `NothingLost`, `InOrder`, `CandidatesFit`, `TrapsRace`, `PatienceHelps` |
| `SearchRight` (MCInput) | `Candidates` | `CandidatesFit`, `NothingMissing`, `CacheIsEmpty` |
| `LearnedRight` (MCInput) | `Learning` | `OneRow`, `CountsRight`, `UndoesTheLast` |
| `SentencesRight` (MCEngine) | `Sentence` | `StacksSorted`, `PathsWhole`, `SentenceFound`, `AllFound` |
| `CutsRight` (MCEngine) | `Segment` | `LettersCutBest`, `SyllablesCutBest`, `TiesGoToTheLast` |
| `DigitsRight` (MCEngine) | `NineKeys` | `PathsCover`, `EveryNameOfTheFirst`, `BothListsCover`, `TrapsNeedTwo` |
| `WalletEnds` (MCLiveness) | `SendToken`, `DAppRequests` | `SendEnds`, `PageComesFree`; `RequestSettles`, `SentIsExecuted` |

Each of them also contains the type invariant of its component, as `PartsTypeOK`
does for the six parts of `MCLiveness`.

### Proof modules

| Module | Proves about |
|---|---|
| `SocketLayerProofs` | `SocketLayer`; `Learning` |
| `ReceptionProofs` | `Reception` |
| `ChatEngineProofs` | `ChatEngine` |
| `SessionStoreProofs` | `SessionStore` |
| `RecentListProofs` | `RecentList` |
| `KeyboardProofs` | `KeyTouch`; `UnreadCount` with `Inbox`; `Sentence` with `PriorityStack`; `Candidates` |
| `WalletProofs` | `WalletStore`; `SendToken` |
| `DAppRequestsProofs` | `DAppRequests` |

Components that share a proof module make no use of each other there. Section 5 has
the arguments.

## 4. Runs

| Run | Module, configuration | Checks | Shows |
|---|---|---|---|
| `socket_layer` | MCSocketLayer, `SocketLayer.cfg` | CallbackAtMostOnce, StaleSessionIsDoomed, LiveSessionIsBeating, SilentConnectionIsLate | two logins overlapping with a reconnect and failures keep callback, session and timer consistent |
| `heartbeat_on_new_connection` | MCSocketLayer, `SocketLayerStale.cfg` | HeartbeatOnlyAfterLogin, violated | an old session's heartbeat precedes the login on a new connection |
| `chat_engine` | MCChatEngine, `Chat.cfg` | OnlyMergesLoseMessages, BacklogIsARange, ListIsOfTarget | only an append inside a merge loses a message, pages that shift still give a history without hole or repetition, and the list is of the open chat |
| `unread_count` | UnreadCount, `UnreadCount.cfg` | MarkIsEarned, DotShowsUnread, KeepsPromise | the dictionaries implement `Inbox`; stale marks and a wrong dot need one of the named overlaps |
| `key_touch` | MCKeyTouch, `KeyTouch.cfg` | PressFiresAtMostOnce, NoLetterIsLost, PendingIsOfCurrentTouch, TableRight | two overlapping fingers and every gesture type each letter once; a tap on the table of syllables takes what its row shows |
| `session_store` | MCSessionStore, `SessionStore.cfg` | SessionsMatchKeys, LoggedOutStaysOut, ReportedLoginIsWhole | two platforms, two requests at once, two starts, kills: by what sessions and keys part |
| `recent_list` | MCRecentList, `RecentList.cfg` | OpenChatIsFirst, NoTwins, ListedStays, RemovedIsGone | any four events in two processes: order and contents of the list |
| `wallet` | MCWallet, `Wallet.cfg` | WalletsKept, PaymentsRight, RequestsRight | no wallet, key, edit or password is lost, what is signed is what was shown and agreed to |
| `reception` | MCReception, `Reception.cfg` | Listening, PushesKept, MarksFit | frames read in any pieces: a read is always outstanding or coming, pushed messages keep their order, a drop costs only itself |
| `input` | MCInput, `Input.cfg` | BufferKept, SearchRight, LearnedRight | the two queues of the input method: letters, candidates and what is learned, statement by statement |
| `engine` | MCEngine, `Engine.cfg` | KeepsTheBest, SentencesRight, CutsRight, DigitsRight | the engine's answers against reference definitions, over every lexicon, weight and table of codes within the bounds |
| `liveness` | MCLiveness, `Liveness.cfg` | PartsTypeOK, AttemptsEnd, RefreshEnds, RegistrationEnds, PushArrives, WalletEnds | every login, load, payment and request ends, a registration too (one begun with WeChat as far as its bind), what is pushed arrives or is dropped |

The violated run is a finding: `SocketLayer.swift:53` says that a heartbeat is sent
only after the login ("心跳包必须在登录后才发"), and a login response of the old connection,
handled while a login thread has already reconnected, makes `heartBeat()` write to
the new connection before its login request.

Other places where the code does what its names or comments do not say were met
while modelling. They follow from one test or are described by an exception of a
property, and have no run of their own:

- a login that the server rejects starts heartbeats as well, as the response's
  result is not looked at;
- when the server's address does not arrive in ten seconds, the login of a reconnect
  is written to a socket that was not started and dropped; the late address then
  opens a connection nobody logs in on (`lateConn` in `SocketLayer`);
- a page of old messages, or the chat of a new friend, lands after the user has
  turned to another chat (`crossed` in `ChatEngine`);
- when more new messages than a page holds arrive between two loads of a page, the
  next page lies above what is cached and is merged in front of it (`Overtaken`, a
  page being five messages, `ChatEngine.swift:342`). Pages of one message, a backlog
  of three, two new messages and three requests show it; `Chat.cfg` is smaller, and
  the theorem about `BacklogIsARange` names it as a cause;
- a start of the app replaces the key pair of a platform whose session was lost;
- after a password is reset by importing the wallet again, the keychain still has
  the old one;
- a message the server refuses stays shown as delivered, as its answer comes with a
  read that was asked for earlier and is reported under that read's tag;
- a WeChat login that is refused, or whose binding fails after the registration, leaves
  the welcome page waiting: nothing stops its indicator, and while it spins no login
  button answers. Only choosing a backup, or cancelling the choice, stops it;
- a web page keeps the address of the wallet before a switch;
- of the nine keys, the list made from the end has its parts in the wrong order
  with separators, some ways to cut the digits are not generated, and two syllables
  of the same digits count as one.

Many properties are stated with exceptions the code earns: without the exception
TLC shows a behaviour of the code that breaks the property, and no line of the
repository denies that behaviour.
`OnlyMergesLoseMessages` excludes friends for whom an append ran between the
read and the write of the merge. `BacklogIsARange` excludes friends whose pages
were asked for again from the start or twice at once, or answered too late: the code
then merges a page in front of what it should follow. `ListIsOfTarget` excludes runs
in which the chat was changed while something for another was past the one
comparison of the target. `MarkIsEarned` excludes a chat opened, or a login begun,
between the counting and the storing of an offline answer: the chat is marked again
although it was read. `DotShowsUnread` excludes runs where a message was counted on
one queue while the other had asked `hasUnreadMsg` and not posted its answer; without
the exception TLC puts out the dot of an unread chat. `NoLetterIsLost` excludes
touches that left their key, that a gesture took, and that a swipe to the left on
delete or return left pending: on a board other than the lower one that key is then
typed together with the next one.

Elsewhere the exceptions are values of a history variable, most often
`causes`, declared with a comment on each, so that a property reads "unless one
of these came in". Each cause a property names was found necessary: taken out,
TLC shows a counterexample. Those worth a reader's attention:

- `RegistrationEnds`: a WeChat login that has come to its bind; the next thing may be the
  bind's failure, which ends nothing.
- `SessionsMatchKeys`: a copy of the sessions that was not up to date, a pair
  replaced during a login with it, a failed batch, a logout that was ignored, a kill.
- `ListedStays`, `RemovedIsGone`: a list written over a newer one, by another
  queue or by the other process.
- `EditsKept`: a switch on a page that holds copies made before the edit.
- `SentAsShown`: the overlay taken away by another request's answer; an amount
  field that was emptied, which leaves the amount behind; a balance that changed.
- `RefusedIsNotSent`: a request ended by the old password in the keychain goes on
  when the user types the right one.
- `NothingLost` of `InputBuffer`: a write that undoes another; a candidate chosen
  for letters that are gone. `PatienceHelps` shows that all of that takes haste.
- `CandidatesFit` of `Candidates`: two calls abreast, or a block that was late,
  also one of an earlier call.
- `MarksFit`: an answer that came with the read of something else.

### Bounds

Every bound is a constant used in a guard and named in its module.

- Two attempts, two connections, one reconnect and one frame in the write queue
  (`SocketLayer.cfg`): a login can overlap another, an old connection can be
  followed by a new one, and a reconnect can meet both. The violated run has two
  frames, the heartbeat and the login. The theorems cover all bounds.
- Two friends, one message per page, a backlog of two, one new message, two
  requests, two chats opened and one login (`Chat.cfg`): enough for a page of one
  chat to arrive in the other, for a page to be cut off, for a message to shift
  pages and for an answer to overtake a change of chat. The theorems cover all
  bounds.
- Two friends, one offline message each, two pushed messages, two chats opened
  and two appearances (`UnreadCount.cfg`): an old answer can meet a new login, a
  chat can be opened while it is in the answer, and both queues can race for the
  dot. The theorems cover all bounds.
- Two touches, two letters of which one is delete, one modifier (`KeyTouch.cfg`):
  two fingers overlapping in every order, on the same key or different ones. The
  theorems cover any number of touches and keys. Two buffers of digits with the lists
  the nine keys make of them, three keys and two taps for the table.
- Two platforms, two flows, two starts and one login of the keyboard
  (`SessionStore.cfg`): a login of the keyboard can meet a batch, a second start can
  meet what a kill left. Two walks make key pairs, so that a registration can
  come over another one's pairs. The run starts with an old backup that lacks one of
  the platforms (`SmallInit`), so that an import can come over pairs made here and can
  find none; a user who never chooses it has none. Apple is one of the platforms;
  WeChat, whose login differs by the indicator alone, is that of the liveness run. The
  theorems are about `Spec`, with any backup at the start, all bounds and both logins.
- Two contacts and four events (`RecentList.cfg`): two writers and what a third
  sees of it, in both processes.
- Two wallets made, one edit, two starts (`Wallet.cfg`, the part "stores"): an edit, a
  switch away and back, with a kill. The theorem covers all bounds.
- A balance of two with a fee of two and two addresses (`Wallet.cfg`): an amount at
  the boundary of balance and fee, a form changed in either field. The part "payment"
  has one payment over the whole form; "payments" has two with one valid address,
  amounts and balances of nothing or all, and one estimate at a time (`Payments` in
  `MCWallet`). The theorem `PaymentsFit` has none of these bounds.
- Two requests and one change of wallet (`Wallet.cfg`): two requests can overlap at
  every stage, with the wallet changed between. The theorem covers all bounds.
- One message sent or one heartbeat, two pushed messages, one lost connection,
  frames of two parts (`Reception.cfg`): a read can end inside a frame, hold two, or
  be another's. The theorems cover all bounds.
- Three keys and two gestures (`Input.cfg`): two accesses can enclose a
  third. Two calls on two queues for the search, four operations on two pairs for
  the learning: two learners of one pair with a deletion between and an older row.
  The theorems about search and learning cover all bounds.
- Four syllables, paths kept one or two (`Engine.cfg`): all three passes push,
  and stacks overflow. Words of one run differ only by score, so one is enough.
  Four letters, pieces of up to three, two weights for the cuts. Codes of one, two
  and three digits, two of them overlapping, two syllables per code, four digits:
  every way the longest code can mislead.
- The liveness run has the smallest instance of each part in which its waits can
  cross, as its graphs are searched for cycles: one connection with one reconnect,
  one payment, one pushed message, two requests. The account has one platform,
  WeChat, whose login is the one that does not always end, two walks and a backup
  from the start, so that it can be chosen beside a registration; that a walk over two
  platforms goes through them is in the larger graph of `SessionStore.cfg`.

`CHECK_DEADLOCK FALSE` stands in every configuration: with the bounds reached,
and in the code when the user does nothing and the queues are empty, the
system may stop; a computation (`Sentence`, `Segment`) ends with its answer, and
a program that trapped does nothing more.

### Fairness

Each module states the fairness its queues justify, and `MCLiveness` repeats it
for the part that moves (`LoginFairness`, `ChatFairness` and so on), as `WF_` over
the variables of that part. All of it is weak fairness of steps that nothing but
the queue's own scheduling can hold up.

- `SocketLayer`: a started login thread goes on; a wait ends, signalled or after
  its ten seconds; URLSession calls each completion handler once, with an answer or
  a timeout; the main queue runs its blocks and ends its own wait.
- `ChatEngine`: the main queue and the completion queue are drained, and the block
  on `writeQueue` runs.
- `SessionStore`: a walk goes on, a request is answered or times out, its closure
  runs.
- `SendToken`: balance and estimate are answered, and every request of a payment.
- `Reception`: the socket sends, the server answers, a read that is asked for and
  has bytes ends, delegate calls run.
- `DAppRequests`: the main queue runs its blocks, the keychain and the node answer
  a request, the node executes what it took.

Nothing is assumed of the user, the server's verdicts, or the network: a connection
may never come up, and a request may fail.

### Mutants

For every property of a passing run a variant of one operation, placed before
it in the same module under a comment "Mutant", breaks it the way a slip in
the code would: a dropped guard, a missing reset, a cache used without asking
whose it is, a failed request nobody is told of. Conjunctions of properties have a
mutant for several of their parts.

## 5. Proofs

The proofs hold for every value of the constants that the modules' named
assumptions allow: any set of keys with disjoint modifiers, any attempts, friends,
platforms and flows, any page size and backlog, any bounds. The assumptions say
that bounds are natural numbers, that a value standing for "none" is not one of
the things it stands beside, that sizes and scores which the code never has as
0 are positive, that a fee is positive and can be paid, and that no platform is
listed twice. Every inductive invariant was
checked by TLC as an invariant of the run's instance as well.

`SocketLayerProofs`: `TypeInv` is `TypeOK` strengthened by `ConnNumbered` (a
started socket has a number), without which a login could record connection 0.
`TypeCorrect` follows. The four properties of the run have an invariant each:

- `StaleSessionsAreDoomed` needs `SessionInv`: besides the
  stored session, every login response still queued on the main queue that
  belongs to a dead connection is followed there by a disconnect event, or
  handling it would store a session that nobody clears. The lemmas on appending to
  and taking from a queue carry that through all actions.
- `LiveSessionsBeat` needs `BeatInv`: the timer may be stopped only when no session is
  set or the block that starts it again is queued; and whatever may still bring a
  session (`LoginUnderWay`: a login frame on its way out or in, a response queued)
  has a session user to send heartbeats for.
- `CallbacksFireOnce` needs `OnceInv`: the slot holds an attempt only when that
  attempt has returned, so no thread can claim it again, and an attempt that was
  reported is in the slot only until the second of the two steps of the report.
  `RequestsAwaited` says that a request under way is the one its attempt waits for.
- `SilentConnectionsAreLate` needs `SilentInv`: a connection without a login is late or
  somebody is about to log in on it (`WillLogin`). It uses `OnceInv` for what an
  attempt waits for.

`ReceptionProofs`: `TypeCorrect` needs no strengthening. `AlwaysListening` has the
property as its invariant, for queues that only post and take (`ListeningInv`).
`PushedMessagesAreKept` has two. `OrderInv` places every pushed message on one line:
those in the list precede those on the way back to the main queue, these those in
decryption, these those in reads delivered, these those on the wire; and each part is
in order. `KeptInv` says that each of them is somewhere on that line or lost with
what was dropped. `MarksFitTheServer` needs `FateInv`: as long as no cause came in,
each message is in exactly one of the states of its way (`Fate`): to be written, asked,
accepted or refused; a refusal still on its way is behind every mark of success, so
that the last mark is the right one.

`SessionStoreProofs`: `TypeInv` adds to `TypeOK` what the shapes of flows and walks
rely on (`FlowShape`, `JobShape`, a session with a token has a key).

- `NothingComesBack` needs `OutInv`: after a logout, unless a cause came in, nothing is
  under way that could store a session, the app's copy is empty too, and the walk that
  deletes the pairs has not left them behind.
- `ReportedLoginsAreWhole`, an action property, needs `WholeInv`: every flow that will
  use a pair holds the one in the defaults (`Held`); a batch has stored its sessions as
  far as it has come, and nothing else of the app runs beside it (`Whole`); and a walk
  that makes or imports pairs does so under no flow of the app (`Renewing`).
- `SessionsFitTheKeys` needs all of these and `MatchInv`: away from the walks that
  replace pairs, each platform whose turn in a batch has come or is over is matched
  (`Matching`); a failed batch, a deletion and an unbinding leave it so.

`ChatEngineProofs`: `TypeInv` adds the relation between the clock of a chat and the
messages written. `Unique` is characterised by `UniqueIs`: the sequence of the
values that occur, by first occurrence; the lemma about ranks under it is an
induction over naturals by a least counterexample (`Least`).

- `ArrivalsAreKept` needs `KeptInv`: what the merge holds contains the cache it read,
  unless an append came in between.
- `ListFollowsTarget` needs `ListInv`: unless the chat was changed at the wrong moment,
  not only the list but every block on the main queue and the merge under way are for
  the open chat.
- `BacklogInOrder` needs `PagesInv`. The server's log begins with the backlog, and new
  messages are newer than it (`LogsOK`, `NewsOK`). For a friend whose pages were not asked
  for out of turn (`PagesOK`), the cache is `Sound` (in order, with nothing left out), the
  one request under way asks for a page that reaches it from below (`RequestsOK`,
  `Fits`), and so does the page number that will be stored when the merge ends
  (`MergeOK`, `TargetOK`). `SliceOld` says which part of the backlog a page is although
  new messages have shifted it, `MergeSound` that a merge with such a page is sound
  again, `SoundIsRange` that a sound cache is a range. The proof failed at first: a page
  that comes after more new messages than it holds does not reach the cache. That
  is the third cause of `repaged`, which the model had not had.

`KeyboardProofs` on touches: `Sound` says of the press record that no touch is confirmed
twice and that a pending letter is not confirmed yet; lemmas show each
controller method keeps it and takes no confirmation back. `TouchInv` adds what
ties the record to the touch layer: the cached key and the pending key of a
finger that has not moved are those it landed on (`KeysKnown`), and every letter
that stayed under its finger is typed or is pending under a finger still down
(`TypedOrPending`). The argument turns on `ReleaseSound`: whenever the current
touch is released, by its own finger, by another or by the next touch, the
pending press is confirmed, unless its finger slid or was swiped. From
`TouchInv` follow `TypeCorrect`, `FiresAtMostOnce`, `LettersAreTyped` and
`PendingFollowsCurrent`.

`KeyboardProofs` on marks: `MarkInv` says that a counter is positive exactly for the
chats with unread messages (`CounterIsUnread`), and that an entry of the offline
dictionary, or of an answer counted and not yet stored, belongs to a chat that
is unread or was read meanwhile. The first part is why the promise holds: the
dictionary, which is replaced and dropped out of step, only ever adds marks, as
each of its messages is in the counter as well. `MarksAreEarned` is the second
part. `PromiseKept` maps every step to a step of `Inbox`; what leaves `unread`
alone is a `Remark`, whose condition is `CounterIsUnread` after the step.
`DotIsShown` has an invariant of its own: with a mark, the last posted change
lights the dot or a queue is still on its way to do so (`MarkLights`), and a
queue about to put it out has seen no mark (`DarkIsRight`).

`RecentListProofs`: `Small` may be any set of the contacts, `Order` any sequence
of all of them, with repetitions. The first part is about lists: `Without`, `First`,
`Second`, `Chosen`, `Unique` and `Coded` are `CHOOSE`s and comprehensions of places, and
the lemmas say which entries they keep, where, and that each comes from one place
(`IsPut`, `ChosenIs`, `UniqueIs`, `MergedIs`). `TypeInv` adds to `TypeOK` what a queue's
job must look like for its operation (`DoingShape`); `TypesKept` follows.

- `ListedKept` needs `StayInv`: the listed contacts are in the defaults at every moment
  and not only at rest, and each of them is a friend, or a merge would drop it. `listed` grows only
  with the write, so a list read before another's write loses a contact only where the
  write itself records `overtaken` or `stale`.
- `TwinsNever` needs `TwinInv`: the property not only of the three lists but of
  every list somebody has read and not written yet, in a queue, in the open contact view
  or in a search for a friend, who is not in the list read before; and an entry with a
  contact's own number is of one accepted or small, wherever it is queued.
- `RemovedGo` needs `GoneInv`: a removed contact that is still in the defaults is one
  whose removal is under way, and when that removal has read a list without
  it, the app has not got it back since.
- `OpenChatFirst` needs `FirstInv`: of the chats queued to be put in front the
  last is the open one; when none is queued the one being put in front is; and when
  that is done too the keyboard's list begins with it.

`KeyboardProofs` on sentences: `PushFits` says what a push does to a stack sorted by
falling score, for any length, bound and score: it stays sorted and within its
bound, everything is either kept or no better than all that is kept. The place
is a `CHOOSE` from the middle outwards; that there is one (`FrontExists`,
`BackExists`) takes a least element, which `Least` has from `WFMin` of the
library. `PlaceFits` and `InsertedFits` do the insertion.

`StackInv` is `TypeOK` together with both properties of the
stacks: sorted and bounded, and whatever was thrown out of a stack (`lost`) is no
better than what is in it, which is full. Each step is one push or none, so
`PushFits` carries it. `SpecTypeOK`, `SpecStacksSorted` and `SpecKeepsTheBest`
follow, for any number of syllables, words, widths and scores.

`KeyboardProofs` on candidates: the theorem is about `Candidates` alone
(`SearchStays`) and as `MCInput` runs it (`SearchStaysRight`), for any queues and any
kinds of calls. `SearchInv` says of a call that met no other that the letters are still
its own (`AloneInv`); of a clean call, which started on an empty cache and waited for all
its blocks, that the cache holds what its queries found and nothing else at every step, and
that each pending block is its own (`CleanInv`); that, unless a block was ever late, a
block or an entry of the cache has a call that waits for it and will clear it (`ClearInv`);
and that the candidates kept between calls are of calls since the buffer was emptied
(`KeptInv`). The last two are needed for the next call to start clean: the three
properties hold only together.

`WalletProofs` on the stores: `WalletInv` follows a wallet through the writes of an operation.
`JobInv` and `OldInv` say what is under way and what is there before the wallet of the
earlier app is brought over; `FreshInv` that numbers and passwords not given out yet are
nowhere. `ListInv` has `ListedOnce` and says that a wallet saved is in the list, in use, or
to be brought over. `EditsKept` needs `DateInv`: before the wallet in use is replaced, the
list has it as it is, in every operation that replaces it; and `RecoverInv` for a recovery,
which writes the wallet back with less. `KeysKept` and `KeychainOpens` need the same of every
copy of a wallet, on a page, in an operation, in either store (`KeyInv`, `PasswordInv`), and not
of the stored ones alone.

`WalletProofs` on payments: the theorem is about `SendToken` (`PaymentsFit`), in CFX or a
token, and from it `PaymentsStayRight` for `MCWallet`, whose bound `Payments` only takes
steps away. `PayInv` has for each payment an invariant per stage
(`SendInv`): it keeps the user off the form (`CoverFits`); what was seen is in the
form, and then in the payment (`SeenFits`); the amount is the one seen, less a part of
the fee if the balance asks for it (`PaidFits`); the limits are those for it (`LimitFits`).
`PairInv` says that of two payments one is marked as knowing of the other, which is
`OneAtATime` and the reason `CoverFits` survives the other's answers. The limits come from
estimates: one that is outstanding alone fits the form (`AskInv`), and so do the limits
in use while the button is enabled (`FitInv`).

`DAppRequestsProofs`: every step is the course of one request, a new one, a change of the wallet,
or the node executing (`CourseIs`). That rests on `WayInv`: a request has at most one block on
the main queue and one dialog (`OneMain`, `OneDialog`), so only its own step moves it;
what is to be signed is a transaction or typed data (`KindsFit`); and the node has
executed all numbers below the next (`Counted`), which by a pigeonhole argument bounds them.
From `CourseIs`, each in lemmas of its own, follow `SenderInv` (the sender and the signer
are the wallet in use, unless it was changed), `LoneInv` (a transaction with no other beside
it has the number that comes next), `RefusedInv` (a request that was told an error, or whose
error is queued, is over) and that the address is asked for once. The action property
`SignedIsTaken` follows from `LoneInv`.

`SocketLayerProofs` on learning: `LearnStays` about `Learning` alone and `LearnedStaysRight` as
`MCInput` runs it. `LearnTypes` strengthens `TypeOK`: an operation inserts at most one row, and
raises or lowers one count once, so that row numbers and counts are bounded by how many
operations have done so (`Inserters`, `Raisers`, `Takers`); without that the bounds of
`TypeOK` are not inductive. Each property has an invariant under its own exceptions.
`TwiceFits`: a learner about to insert finds no row of its pair, as no other learner has that
pair. `MixedInv`: who takes out is alone, what an operation read still holds, and the sum
of the counts of a pair's rows is the evidence (`Weighed`); that a sum of the library, a
fold by `CHOOSE` over a set of any size, is the sum in every order is proved by a least
counterexample (`TotalSums`, `TotalPick`, `TotalShift`). `LastFits`: with one operation at a
time the flag is set only if the last one is a word whose row, if it is new, is the last
row of the table, or takes such a word back; so that the row with the greatest
number is the one to take out.

Only model-checked:

- `BufferKept` of `InputBuffer`: its properties follow the letters of a buffer through
  concatenations of what each key wrote, and an invariant has to say of every mix of two
  accesses what either will write over; no theorem yet;
- `TableRight` of `PinyinSelector`, whose lists `MCKeyTouch` gives as data;
- of `Sentence`, `PathsWhole`, `SentenceFound` and `AllFound`, which speak of all
  sentences, and of `Segment` everything, which is compared with all cuts: what a
  search over data computes needs an induction over the data, whose hypothesis is an
  operator, and the library's rules for that are out of the provers' reach. Inductions
  over naturals go by a least counterexample where the claim can be written as a set,
  as for the stacks, `Unique` and the sums of `Learning`;
- `NineKeys`, which is made of recursive operators;
- of `PartsTypeOK`, as it is: the types of its parts are parts of the theorems above,
  but for `MCLiveness` no theorem puts them together;
- every liveness property: they depend on fairness and on `ENABLED`.

Not every theorem stands for a property of a run: `PushFits`, `TypesKept`, `PaymentsFit`,
`SearchStays` and `LearnStays` say what they say of a component by itself, without the
module that runs it.

## 6. Not modelled

See the inventory and the notes in `PROJECT.json`. The Swift sources are
the program; the C, C++ and Objective-C files of the repository are vendored
libraries (LMDB, Protobuf, MMKV and the like) with their headers, in several copies,
and are used, not modelled.

Within the modelled components: the texts, keys and encryption of messages,
group members and red packets of a chat; an authorisation by WeChat or Apple that is
answered after its page was left; an amount that is not a number;
the test net of the wallet; gas limits set by hand and the keyboard's transfer
view; the user's dictionary; English, code tables, shift and repeated deletion;
double pinyin, for which the repository has no strategy file; the nine keys' own
queries; fuzzy and corrected spelling and `getEvaluate` in the engine.

Seen, and left out of the hazards, are places where the outcome follows from one
test and no order of steps (the doubled counts, the red packet reported although it
failed, the weight of a word learned twice), where another system decides (a lost
answer of the node, delivered messages reported again), where the program ends and
nothing is left to say (unwrapped pages), or where no text says what should be
(separators among the letters a candidate takes off the buffer). The two hazards
without a property have a note in `PROJECT.json`.
Unsynchronised reads of Swift dictionaries are taken as atomic.
