-------------------------- MODULE DAppRequestsProofs --------------------------
(***************************************************************************)
(* Theorems about the requests of web pages (DAppRequests, as MCWallet     *)
(* runs it), for any number of wallets, requests and changes of the        *)
(* wallet.                                                                 *)
(*                                                                         *)
(* A request waits for one block, or for one dialog, at a time (OneMain,   *)
(* OneDialog), so that only its own step turns it: every step of the       *)
(* specification is a turn of one request, a new one, a change of the      *)
(* wallet, or the node executing (CourseIs).  On this rest that a request  *)
(* told an error is over (RefusedInv), that the sender and the signer are  *)
(* the wallet in use (SenderInv), and that a transaction with no other     *)
(* under way has the number that comes next (LoneInv), since the node has  *)
(* executed all numbers below (Counted).                                   *)
(***************************************************************************)
EXTENDS MCWallet, SequenceTheorems, FiniteSetTheorems, WellFoundedInduction, TLAPS

-----------------------------------------------------------------------------
(* The invariant of the requests                                           *)

(* Requests, blocks and dialogs, as what they hold                         *)
Someone == Wallet \cup {None}
Req     == [kind : Kinds, from : Someone, page : Nat, signer : Someone, nonce : 0..MaxRequest,
            pc : Pcs, told : Told, causes : SUBSET Causes]
Blk     == [kind : Blocks, id : 1..MaxRequest, address : Someone]

(* The blocks that lay a dialog over the page; the places of a request     *)
(* that asks the node, or has been opened                                  *)
Asks == {"allow", "sign", "password"}
Node == {"epoch", "nonce", "estimate", "submit"}
Live == Node \cup {"begin"}

(* The types, with the requests and the blocks spelled out                 *)
TypeInv ==
    /\ TypeOK
    /\ requests \in Seq(Req) /\ main \in Seq(Blk) /\ dialogs \in Seq(Blk)
    /\ \A i \in Ids : requests[i].page <= page

(* A request waits for one block, or for one dialog, at a time.            *)
OneMain ==
    \A m \in 1..Len(main) : main[m].kind \in Asks =>
        /\ requests[main[m].id].pc = "main"
        /\ main[m].kind # "allow" => requests[main[m].id].kind \in {"transaction", "typed"}
        /\ \A n \in 1..Len(main) : main[n].kind \in Asks /\ main[n].id = main[m].id => n = m

OneDialog ==
    \A m \in 1..Len(dialogs) :
        /\ dialogs[m].kind \in Asks /\ requests[dialogs[m].id].pc = "dialog"
        /\ dialogs[m].kind # "allow" => requests[dialogs[m].id].kind \in {"transaction", "typed"}
        /\ \A n \in 1..Len(dialogs) : dialogs[n].id = dialogs[m].id => n = m

(* Only what is to be signed comes to the keychain, and only transactions  *)
(* to the node.                                                            *)
KindsFit ==
    \A i \in Ids :
        /\ requests[i].pc \in {"keychain", "begin"} => requests[i].kind \in {"transaction", "typed"}
        /\ requests[i].pc \in Node => requests[i].kind = "transaction" /\ requests[i].from \in Wallet
        /\ requests[i].pc \in Live => requests[i].signer \in Wallet
        /\ i \in pool => /\ requests[i].pc = "done" /\ requests[i].kind = "transaction"
                         /\ requests[i].signer \in Wallet /\ requests[i].from \in Wallet

(* The node has executed, of each wallet, the numbers below executed.      *)
Counted ==
    \A w \in Wallet : \A k \in 0..(executed[w] - 1) :
        \E i \in pool : requests[i].signer = w /\ requests[i].nonce = k

(* What the course of a request rests on                                   *)
WayInv == TypeInv /\ OneMain /\ OneDialog /\ KindsFit /\ Counted

(* A request that is or will be told an error is over and not sent, but    *)
(* for the causes named.                                                   *)
ErrorDue(i) == requests[i].told = "error" \/ \E m \in 1..Len(main) : main[m].kind = "error" /\ main[m].id = i
RefusedInv ==
    \A i \in Ids : ErrorDue(i) =>
        \/ requests[i].pc = "done" /\ i \notin pool
        \/ requests[i].causes \cap {"again", "lost"} # {}

(* The address a transaction is from, and the wallet that signs it, are    *)
(* the one in use, unless the wallet was changed.                          *)
Moved(i) == requests[i].causes \cap {"switched", "behind"} # {}
SenderInv ==
    \A i \in Ids :
        /\ requests[i].from \in {None, current} \/ Moved(i)
        /\ requests[i].pc \in Live \/ i \in pool => requests[i].signer = current \/ Moved(i)

(* A transaction with no other beside it has the number that comes next.   *)
LoneInv ==
    /\ \A i \in Signing : "abreast" \in requests[i].causes \/ Signing \subseteq {i}
    /\ \A i \in At("estimate") \cup At("submit") :
          \/ requests[i].causes \cap {"abreast", "switched", "behind"} # {}
          \/ requests[i].nonce = executed[requests[i].signer]

-----------------------------------------------------------------------------
(* What the steps do to requests, blocks and dialogs                       *)

(* One request may change, in the fields of new; all may get causes.       *)
Turned(i, new) ==
    /\ requests' \in Seq(Req) /\ Len(requests') = Len(requests) /\ Ids' = Ids
    /\ \A j \in Ids :
          /\ requests'[j].kind = requests[j].kind /\ requests'[j].page = requests[j].page
          /\ requests[j].causes \subseteq requests'[j].causes
    /\ \A j \in Ids \ {i} :
          /\ requests'[j].from = requests[j].from /\ requests'[j].signer = requests[j].signer
          /\ requests'[j].nonce = requests[j].nonce /\ requests'[j].pc = requests[j].pc
          /\ requests'[j].told = requests[j].told
    /\ i \in Ids =>
          /\ requests'[i].from = new.from /\ requests'[i].signer = new.signer
          /\ requests'[i].nonce = new.nonce /\ requests'[i].pc = new.pc
          /\ requests'[i].told = new.told

(* A request as it is, but for where it is                                 *)
As(i, pc) == [from |-> requests[i].from, signer |-> requests[i].signer,
              nonce |-> requests[i].nonce, pc |-> pc, told |-> requests[i].told]

(* The first k blocks of the main queue have run, and others were posted.  *)
Moves(q, new, k, added) ==
    /\ new \in Seq(Blk) /\ Len(new) = Len(q) - k + Len(added)
    /\ \A n \in 1..Len(new) :
          \/ n + k \in 1..Len(q) /\ new[n] = q[n + k]
          \/ n - (Len(q) - k) \in 1..Len(added) /\ new[n] = added[n - (Len(q) - k)]

(* Every request, block and dialog is one, and blocks and dialogs are for  *)
(* requests that arrived.                                                  *)
LEMMA ReqIs ==
    ASSUME TypeInv
    PROVE  /\ Ids = 1..Len(requests) /\ Len(requests) \in 0..MaxRequest /\ Len(requests) \in Nat
           /\ \A i \in Ids : /\ requests[i] \in Req /\ i \in 1..MaxRequest
                             /\ requests[i].causes \subseteq Causes
           /\ Len(main) \in Nat /\ DOMAIN main = 1..Len(main)
           /\ \A m \in 1..Len(main) : main[m] \in Blk /\ main[m].id \in Ids
           /\ Len(dialogs) \in Nat /\ DOMAIN dialogs = 1..Len(dialogs)
           /\ \A m \in 1..Len(dialogs) : dialogs[m] \in Blk /\ dialogs[m].id \in Ids
<1>1. /\ Ids = 1..Len(requests) /\ Len(requests) \in Nat
      /\ DOMAIN main = 1..Len(main) /\ Len(main) \in Nat
      /\ DOMAIN dialogs = 1..Len(dialogs) /\ Len(dialogs) \in Nat
  BY DEF TypeInv, Ids
<1>2. Len(requests) <= MaxRequest
  BY DEF TypeInv, TypeOK
<1>3. /\ \A i \in 1..Len(requests) : requests[i] \in Req
      /\ \A m \in 1..Len(main) : main[m] \in Blk
      /\ \A m \in 1..Len(dialogs) : dialogs[m] \in Blk
  BY DEF TypeInv
<1>4. /\ \A m \in 1..Len(main) : main[m].id \in Ids
      /\ \A m \in 1..Len(dialogs) : dialogs[m].id \in Ids
  BY <1>1 DEF TypeInv, TypeOK, Range, Ids
<1>5. \A i \in 1..Len(requests) : requests[i].causes \subseteq Causes /\ i \in 1..MaxRequest
  <2>1. \A r \in Req : r.causes \subseteq Causes
    BY DEF Req
  <2>. QED
    BY <2>1, <1>1, <1>2, <1>3, BoundAssumption
<1>. QED
  BY <1>1, <1>2, <1>3, <1>4, <1>5, BoundAssumption

(* Only the fields of new matter.                                          *)
LEMMA SameFields ==
    ASSUME NEW i, NEW was, Turned(i, was), NEW new,
           new.from = was.from, new.signer = was.signer, new.nonce = was.nonce,
           new.pc = was.pc, new.told = was.told
    PROVE  Turned(i, new)
BY DEF Turned

(* A request replaced by another of its kind and page                      *)
LEMMA TurnIs ==
    ASSUME TypeInv, NEW i \in Ids, NEW new \in Req,
           requests' = [requests EXCEPT ![i] = new],
           new.kind = requests[i].kind, new.page = requests[i].page,
           requests[i].causes \subseteq new.causes
    PROVE  Turned(i, new) /\ requests'[i].causes = new.causes
<1>1. Ids = 1..Len(requests) /\ requests \in Seq(Req) /\ \A j \in Ids : requests[j] \in Req
  BY ReqIs DEF TypeInv
<1>2. /\ requests' \in Seq(Req) /\ Len(requests') = Len(requests)
      /\ \A j \in 1..Len(requests) : requests'[j] = IF j = i THEN new ELSE requests[j]
  BY <1>1
<1>3. Ids' = Ids
  BY <1>1, <1>2 DEF Ids
<1>. QED
  BY <1>1, <1>2, <1>3 DEF Turned

(* WithCause adds a cause and touches nothing else.                        *)
LEMMA CauseIs ==
    ASSUME NEW R \in Seq(Req), NEW S, NEW c \in Causes
    PROVE  /\ WithCause(R, S, c) \in Seq(Req) /\ Len(WithCause(R, S, c)) = Len(R)
           /\ DOMAIN WithCause(R, S, c) = 1..Len(R)
           /\ \A j \in 1..Len(R) :
                /\ WithCause(R, S, c)[j].kind = R[j].kind /\ WithCause(R, S, c)[j].page = R[j].page
                /\ R[j].causes \subseteq WithCause(R, S, c)[j].causes
                /\ (j \in S => c \in WithCause(R, S, c)[j].causes)
                /\ WithCause(R, S, c)[j].from = R[j].from
                /\ WithCause(R, S, c)[j].signer = R[j].signer
                /\ WithCause(R, S, c)[j].nonce = R[j].nonce
                /\ WithCause(R, S, c)[j].pc = R[j].pc
                /\ WithCause(R, S, c)[j].told = R[j].told
<1>. DEFINE n == Len(R)
            W == WithCause(R, S, c)
<1>1. n \in Nat /\ DOMAIN R = 1..n /\ \A j \in 1..n : R[j] \in Req
  BY LenProperties, ElementOfSeq
<1>2. W = [j \in 1..n |-> IF j \in S THEN [R[j] EXCEPT !.causes = @ \cup {c}] ELSE R[j]]
  BY <1>1 DEF WithCause
<1>. HIDE DEF W
<1>3. \A r \in Req : /\ [r EXCEPT !.causes = @ \cup {c}] \in Req
                     /\ [r EXCEPT !.causes = @ \cup {c}].causes = r.causes \cup {c}
                     /\ [r EXCEPT !.causes = @ \cup {c}].kind = r.kind
                     /\ [r EXCEPT !.causes = @ \cup {c}].page = r.page
                     /\ [r EXCEPT !.causes = @ \cup {c}].from = r.from
                     /\ [r EXCEPT !.causes = @ \cup {c}].signer = r.signer
                     /\ [r EXCEPT !.causes = @ \cup {c}].nonce = r.nonce
                     /\ [r EXCEPT !.causes = @ \cup {c}].pc = r.pc
                     /\ [r EXCEPT !.causes = @ \cup {c}].told = r.told
  BY DEF Req
<1>4. ASSUME NEW j \in 1..n
      PROVE  /\ W[j] \in Req /\ W[j].kind = R[j].kind /\ W[j].page = R[j].page
             /\ R[j].causes \subseteq W[j].causes /\ (j \in S => c \in W[j].causes)
             /\ W[j].from = R[j].from /\ W[j].signer = R[j].signer
             /\ W[j].nonce = R[j].nonce /\ W[j].pc = R[j].pc /\ W[j].told = R[j].told
  <2>1. CASE j \in S
    <3>1. W[j] = [R[j] EXCEPT !.causes = @ \cup {c}]
      BY <1>2, <2>1
    <3>. QED
      BY <3>1, <1>1, <1>3
  <2>2. CASE j \notin S
    BY <1>1, <1>2, <2>2
  <2>. QED
    BY <2>1, <2>2
<1>5. W \in [1..n -> Req] /\ DOMAIN W = 1..n
  BY <1>2, <1>4
<1>6. W \in Seq(Req)
  BY <1>1, <1>5, SeqDef
<1>7. Len(W) = n
  BY <1>1, <1>5, <1>6, LenProperties
<1>. QED
  BY <1>4, <1>5, <1>6, <1>7 DEF W

(* A request replaced, and others given a cause                            *)
LEMMA BlameIs ==
    ASSUME TypeInv, NEW i \in Ids, NEW new \in Req, NEW S, NEW c \in Causes,
           requests' = WithCause([requests EXCEPT ![i] = new], S, c),
           new.kind = requests[i].kind, new.page = requests[i].page,
           requests[i].causes \subseteq new.causes
    PROVE  /\ Turned(i, new)
           /\ \A j \in Ids \cap S : c \in requests'[j].causes
<1>. DEFINE R == [requests EXCEPT ![i] = new]
<1>1. Ids = 1..Len(requests) /\ requests \in Seq(Req) /\ i \in 1..Len(requests)
  BY ReqIs DEF TypeInv
<1>2. /\ R \in Seq(Req) /\ Len(R) = Len(requests)
      /\ \A j \in 1..Len(requests) : R[j] = (IF j = i THEN new ELSE requests[j])
  BY <1>1, ExceptSeq
<1>3. requests' = WithCause(R, S, c)
  OBVIOUS
<1>. HIDE DEF R
<1>4. /\ requests' \in Seq(Req) /\ Len(requests') = Len(requests) /\ Ids' = Ids
      /\ \A j \in Ids :
        /\ requests'[j].kind = R[j].kind /\ requests'[j].page = R[j].page
        /\ R[j].causes \subseteq requests'[j].causes /\ (j \in S => c \in requests'[j].causes)
        /\ requests'[j].from = R[j].from /\ requests'[j].signer = R[j].signer
        /\ requests'[j].nonce = R[j].nonce /\ requests'[j].pc = R[j].pc
        /\ requests'[j].told = R[j].told
  <2>. DEFINE W == WithCause(R, S, c)
  <2>1. /\ W \in Seq(Req) /\ Len(W) = Len(R) /\ DOMAIN W = 1..Len(R)
        /\ \A j \in 1..Len(R) :
          /\ W[j].kind = R[j].kind /\ W[j].page = R[j].page
          /\ R[j].causes \subseteq W[j].causes /\ (j \in S => c \in W[j].causes)
          /\ W[j].from = R[j].from /\ W[j].signer = R[j].signer
          /\ W[j].nonce = R[j].nonce /\ W[j].pc = R[j].pc /\ W[j].told = R[j].told
    BY <1>2, CauseIs
  <2>2. requests' = W /\ Ids' = DOMAIN W
    BY <1>3 DEF Ids
  <2>. HIDE DEF W
  <2>3. 1..Len(R) = Ids /\ Len(R) = Len(requests)
    BY <1>1, <1>2
  <2>4. W \in Seq(Req) /\ Len(W) = Len(requests) /\ DOMAIN W = Ids
    BY <2>1, <2>3
  <2>5. \A j \in Ids :
          /\ W[j].kind = R[j].kind /\ W[j].page = R[j].page
          /\ R[j].causes \subseteq W[j].causes /\ (j \in S => c \in W[j].causes)
          /\ W[j].from = R[j].from /\ W[j].signer = R[j].signer
          /\ W[j].nonce = R[j].nonce /\ W[j].pc = R[j].pc /\ W[j].told = R[j].told
    BY <2>1, <2>3
  <2>. QED
    BY ONLY <2>2, <2>4, <2>5
<1>5. R[i] = new /\ \A j \in Ids \ {i} : R[j] = requests[j]
  BY <1>1, <1>2
<1>6. ASSUME NEW j \in Ids \ {i}
      PROVE  /\ requests'[j].kind = requests[j].kind /\ requests'[j].page = requests[j].page
             /\ requests[j].causes \subseteq requests'[j].causes
             /\ requests'[j].from = requests[j].from /\ requests'[j].signer = requests[j].signer
             /\ requests'[j].nonce = requests[j].nonce /\ requests'[j].pc = requests[j].pc
             /\ requests'[j].told = requests[j].told
  <2>1. j \in Ids /\ R[j] = requests[j]
    BY <1>5
  <2>2. /\ requests'[j].kind = R[j].kind /\ requests'[j].page = R[j].page
        /\ R[j].causes \subseteq requests'[j].causes
        /\ requests'[j].from = R[j].from /\ requests'[j].signer = R[j].signer
        /\ requests'[j].nonce = R[j].nonce /\ requests'[j].pc = R[j].pc
        /\ requests'[j].told = R[j].told
    BY <1>4, <2>1
  <2>. QED
    BY ONLY <2>1, <2>2
<1>7. /\ requests'[i].kind = requests[i].kind /\ requests'[i].page = requests[i].page
      /\ requests[i].causes \subseteq requests'[i].causes
      /\ requests'[i].from = new.from /\ requests'[i].signer = new.signer
      /\ requests'[i].nonce = new.nonce /\ requests'[i].pc = new.pc
      /\ requests'[i].told = new.told
  BY <1>4, <1>5
<1>8. \A j \in Ids : /\ requests'[j].kind = requests[j].kind /\ requests'[j].page = requests[j].page
                     /\ requests[j].causes \subseteq requests'[j].causes
  BY <1>6, <1>7
<1>9. Turned(i, new)
  BY <1>4, <1>6, <1>7, <1>8 DEF Turned
<1>. QED
  BY <1>4, <1>9

(* A change of the wallet is known to all requests and turns none.         *)
LEMMA ChangeIs ==
    ASSUME TypeInv, NEW w \in Wallet, Change(w)
    PROVE  (\A new : Turned(0, new)) /\ \A j \in Ids : "switched" \in requests'[j].causes
<1>1. Ids = 1..Len(requests) /\ requests \in Seq(Req) /\ 0 \notin Ids
  BY ReqIs DEF TypeInv
<1>2. requests' = WithCause(requests, Ids, "switched") /\ "switched" \in Causes
  BY DEF Change, Causes
<1>. QED
  BY <1>1, <1>2, CauseIs DEF Turned, Ids

(* A block is posted.                                                      *)
LEMMA PostIs ==
    ASSUME TypeInv, NEW b \in Blk, main' = Append(main, b)
    PROVE  Moves(main, main', 0, <<b>>)
<1>1. main \in Seq(Blk) /\ Len(main) \in Nat
  BY ReqIs DEF TypeInv
<1>2. /\ main' \in Seq(Blk) /\ Len(main') = Len(main) + 1
      /\ \A n \in 1..Len(main') : main'[n] = IF n = Len(main) + 1 THEN b ELSE main[n]
  BY <1>1
<1>. QED
  BY <1>1, <1>2 DEF Moves

(* The first block is taken.                                               *)
LEMMA TailIs ==
    ASSUME TypeInv, main # <<>>, main' = Tail(main)
    PROVE  /\ Moves(main, main', 1, <<>>) /\ Head(main) = main[1] /\ main[1] \in Blk
           /\ main[1].id \in Ids /\ 1 \in 1..Len(main)
<1>1. main \in Seq(Blk)
  BY DEF TypeInv
<1>0. Len(main) \in Nat \ {0}
  BY <1>1, EmptySeq, LenProperties
<1>2. /\ Len(main) \in Nat /\ 1 \in 1..Len(main) /\ Head(main) = main[1]
      /\ main' \in Seq(Blk) /\ Len(main') = Len(main) - 1
      /\ \A n \in 1..Len(main') : main'[n] = main[n + 1]
  BY <1>0, <1>1, HeadTailProperties
<1>3. main[1] \in Blk /\ main[1].id \in Ids
  BY <1>2, ReqIs
<1>4. \A n \in 1..Len(main') : n + 1 \in 1..Len(main)
  BY <1>2
<1>5. Len(main') = Len(main) - 1 + Len(<<>>)
  BY <1>2
<1>6. Moves(main, main', 1, <<>>)
  BY <1>2, <1>4, <1>5 DEF Moves
<1>. QED
  BY <1>2, <1>3, <1>6

(* The uppermost dialog is dismissed.                                      *)
LEMMA FrontIs ==
    ASSUME TypeInv, dialogs # <<>>, Dismiss
    PROVE  /\ dialogs' \in Seq(Blk) /\ Len(dialogs') = Len(dialogs) - 1
           /\ \A m \in 1..Len(dialogs') : m \in 1..Len(dialogs) /\ dialogs'[m] = dialogs[m]
           /\ Len(dialogs) \in 1..Len(dialogs) /\ Top = dialogs[Len(dialogs)]
           /\ Top \in Blk /\ Top.id \in Ids
<1>1. dialogs \in Seq(Blk)
  BY DEF TypeInv
<1>2. Len(dialogs) \in Nat /\ Len(dialogs) >= 1
  BY <1>1
<1>3. dialogs' = SubSeq(dialogs, 1, Len(dialogs) - 1)
  BY DEF Dismiss, Front
<1>. DEFINE n == Len(dialogs) - 1
<1>a. 1 \in 1..(Len(dialogs) + 1) /\ n \in 0..Len(dialogs) /\ n \in (1 - 1)..Len(dialogs)
  BY <1>2
<1>b. /\ SubSeq(dialogs, 1, n) \in Seq(Blk)
      /\ Len(SubSeq(dialogs, 1, n)) = IF 1 <= n THEN n - 1 + 1 ELSE 0
      /\ \A m \in 1..(n - 1 + 1) : SubSeq(dialogs, 1, n)[m] = dialogs[1 + m - 1]
  BY <1>1, <1>a, SubSeqProperties
<1>c. /\ (IF 1 <= n THEN n - 1 + 1 ELSE 0) = n /\ n - 1 + 1 = n
      /\ \A m \in 1..n : 1 + m - 1 = m
  <2>1. n \in Nat
    BY <1>2
  <2>. HIDE DEF n
  <2>. QED
    BY <2>1
<1>4. /\ dialogs' \in Seq(Blk) /\ Len(dialogs') = Len(dialogs) - 1
      /\ \A m \in 1..(Len(dialogs) - 1) : dialogs'[m] = dialogs[m]
  <2>1. dialogs' = SubSeq(dialogs, 1, n)
    BY <1>3
  <2>. HIDE DEF n
  <2>2. /\ dialogs' \in Seq(Blk) /\ Len(dialogs') = n
        /\ \A m \in 1..n : dialogs'[m] = dialogs[m]
    BY <2>1, <1>b, <1>c
  <2>. QED
    BY <2>2 DEF n
<1>5. Top = dialogs[Len(dialogs)]
  BY DEF Top, Last
<1>6. Top \in Blk /\ Top.id \in Ids
  BY <1>2, <1>5, ReqIs
<1>. QED
  BY <1>2, <1>4, <1>5, <1>6

(* A block for a request is one.                                           *)
LEMMA BlockIs ==
    ASSUME TypeInv, NEW i \in Ids, NEW kind \in Blocks
    PROVE  Block(kind, i) \in Blk /\ Block(kind, i).id = i /\ Block(kind, i).kind = kind
BY ReqIs DEF Block, Blk, Someone

(* Nothing turns if the requests stay, and nothing moves if the queue      *)
(* stays.                                                                  *)
LEMMA StillIs == TypeInv /\ UNCHANGED requests => \A new : Turned(0, new)
<1>1. SUFFICES ASSUME TypeInv, UNCHANGED requests PROVE \A new : Turned(0, new)
  OBVIOUS
<1>2. 0 \notin Ids /\ Ids' = Ids /\ requests \in Seq(Req)
  BY <1>1, ReqIs DEF TypeInv, Ids
<1>. QED
  BY <1>1, <1>2 DEF Turned

LEMMA QuietIs == TypeInv /\ UNCHANGED main => Moves(main, main', 0, <<>>)
<1>1. SUFFICES ASSUME TypeInv, UNCHANGED main PROVE Moves(main, main, 0, <<>>)
  OBVIOUS
<1>2. main \in Seq(Blk) /\ Len(main) \in Nat /\ Len(<<>>) = 0
  BY <1>1, ReqIs DEF TypeInv
<1>3. Len(main) = Len(main) - 0 + Len(<<>>) /\ \A n \in 1..Len(main) : n + 0 = n
  BY <1>2
<1>. QED
  BY <1>2, <1>3 DEF Moves

(* A request ends, and its page is to be told.                             *)
LEMMA DoneIs ==
    ASSUME TypeInv, NEW i \in Ids, NEW value \in {"result", "error"}, SendResultBack(i, value)
    PROVE  Turned(i, As(i, "done")) /\ Moves(main, main', 0, <<Block(value, i)>>)
<1>. DEFINE new == [requests[i] EXCEPT !.pc = "done"]
<1>1. requests[i] \in Req
  BY ReqIs
<1>2. /\ new \in Req /\ new.kind = requests[i].kind /\ new.page = requests[i].page
      /\ requests[i].causes = new.causes /\ requests' = [requests EXCEPT ![i] = new]
  BY <1>1 DEF SendResultBack, Goto, Req, Pcs
<1>a. /\ new.from = requests[i].from /\ new.signer = requests[i].signer
      /\ new.nonce = requests[i].nonce /\ new.pc = "done" /\ new.told = requests[i].told
  BY <1>1 DEF Req
<1>3. Turned(i, As(i, "done"))
  <2>. HIDE DEF new
  <2>1. Turned(i, new)
    BY <1>2, TurnIs
  <2>2. /\ As(i, "done").from = new.from /\ As(i, "done").signer = new.signer
        /\ As(i, "done").nonce = new.nonce /\ As(i, "done").pc = new.pc
        /\ As(i, "done").told = new.told
    BY <1>a DEF As
  <2>. QED
    BY <2>1, <2>2, SameFields
<1>4. Block(value, i) \in Blk
  BY BlockIs DEF Blocks
<1>5. Moves(main, main', 0, <<Block(value, i)>>)
  BY <1>4, PostIs DEF SendResultBack, Post
<1>. QED
  BY <1>3, <1>5

(* A request goes to another place.                                        *)
LEMMA GotoIs ==
    ASSUME TypeInv, NEW i \in Ids, NEW pc \in Pcs, Goto(i, pc)
    PROVE  Turned(i, As(i, pc))
<1>. DEFINE new == [requests[i] EXCEPT !.pc = pc]
<1>1. requests[i] \in Req
  BY ReqIs
<1>2. /\ new \in Req /\ new.kind = requests[i].kind /\ new.page = requests[i].page
      /\ requests[i].causes = new.causes /\ requests' = [requests EXCEPT ![i] = new]
  BY <1>1 DEF Goto, Req
<1>3. /\ new.from = requests[i].from /\ new.signer = requests[i].signer
      /\ new.nonce = requests[i].nonce /\ new.pc = pc /\ new.told = requests[i].told
  BY <1>1 DEF Req
<1>. HIDE DEF new
<1>4. Turned(i, new)
  BY <1>2, TurnIs
<1>5. /\ As(i, pc).from = new.from /\ As(i, pc).signer = new.signer
      /\ As(i, pc).nonce = new.nonce /\ As(i, pc).pc = new.pc /\ As(i, pc).told = new.told
  BY <1>3 DEF As
<1>. QED
  BY <1>4, <1>5, SameFields

(* The wallet is opened: all transactions being signed know of each other. *)
LEMMA UnlockedIs ==
    ASSUME TypeInv, NEW i \in Ids, Unlocked(i)
    PROVE  /\ Turned(i, [As(i, "begin") EXCEPT !.signer = current])
           /\ requests[i].kind = "transaction" /\ Signing \ {i} # {} =>
                 \A j \in Signing \cup {i} : "abreast" \in requests'[j].causes
<1>. DEFINE new == [requests[i] EXCEPT !.pc = "begin", !.signer = current]
            R   == [requests EXCEPT ![i].pc = "begin", ![i].signer = current]
<1>1. requests[i] \in Req /\ current \in Wallet /\ i \in DOMAIN requests /\ Signing \subseteq Ids
  BY ReqIs DEF TypeInv, TypeOK, Ids, Signing
<1>2. /\ new \in Req /\ new.kind = requests[i].kind /\ new.page = requests[i].page
      /\ requests[i].causes = new.causes
  BY <1>1 DEF Req, Pcs, Someone
<1>a. /\ new.from = requests[i].from /\ new.signer = current
      /\ new.nonce = requests[i].nonce /\ new.pc = "begin" /\ new.told = requests[i].told
  BY <1>1 DEF Req
<1>3. R = [requests EXCEPT ![i] = new]
  BY <1>1
<1>4. "abreast" \in Causes
  BY DEF Causes
<1>5. /\ Turned(i, new)
      /\ requests[i].kind = "transaction" /\ Signing \ {i} # {} =>
            \A j \in Signing \cup {i} : "abreast" \in requests'[j].causes
  <2>1. CASE requests[i].kind = "transaction" /\ Signing \ {i} # {}
    <3>. DEFINE S == (Signing \ {i}) \cup {i}
    <3>1. requests' = WithCause([requests EXCEPT ![i] = new], S, "abreast")
      BY <1>3, <2>1 DEF Unlocked
    <3>2. S = Signing \cup {i} /\ S \subseteq Ids
      BY <1>1
    <3>. HIDE DEF new, S
    <3>3. Turned(i, new) /\ \A j \in Ids \cap S : "abreast" \in requests'[j].causes
      BY <3>1, <1>2, <1>4, BlameIs
    <3>. QED
      BY <3>2, <3>3
  <2>2. CASE ~(requests[i].kind = "transaction" /\ Signing \ {i} # {})
    <3>1. requests' = [requests EXCEPT ![i] = new]
      BY <1>3, <2>2 DEF Unlocked
    <3>. HIDE DEF new
    <3>2. Turned(i, new)
      BY <3>1, <1>2, TurnIs
    <3>. QED
      BY <3>2, <2>2
  <2>. QED
    BY <2>1, <2>2
<1>. HIDE DEF new
<1>. DEFINE as == [As(i, "begin") EXCEPT !.signer = current]
<1>6. /\ as.from = new.from /\ as.signer = new.signer /\ as.nonce = new.nonce
      /\ as.pc = new.pc /\ as.told = new.told
  BY <1>a DEF As
<1>. HIDE DEF as
<1>7. Turned(i, as)
  BY <1>5, <1>6, SameFields
<1>. QED
  BY <1>5, <1>7 DEF as

-----------------------------------------------------------------------------
(* One block, one dialog                                                   *)

(* A step keeps one block for a request if what waits goes on waiting, and *)
(* what is posted is posted once.                                          *)
LEMMA MainKept ==
    ASSUME TypeInv, OneMain, NEW k \in {0, 1}, NEW added, Moves(main, main', k, added),
           Len(added) \in Nat,
           \A m \in 1..Len(main) : m > k /\ main[m].kind \in Asks =>
               /\ requests'[main[m].id].pc = "main"
               /\ requests'[main[m].id].kind = requests[main[m].id].kind,
           \A a \in 1..Len(added) : added[a].kind \in Asks =>
               /\ requests'[added[a].id].pc = "main"
               /\ added[a].kind # "allow" => requests'[added[a].id].kind \in {"transaction", "typed"}
               /\ \A b \in 1..Len(added) : added[b].kind \in Asks => b = a
               /\ \A m \in 1..Len(main) : m > k /\ main[m].kind \in Asks => main[m].id # added[a].id
    PROVE  OneMain'
<1>1. Len(main) \in Nat
  BY ReqIs
<1>. DEFINE Old(n) == n + k \in 1..Len(main) /\ main'[n] = main[n + k]
            Add(n) == /\ n - (Len(main) - k) \in 1..Len(added)
                      /\ main'[n] = added[n - (Len(main) - k)]
<1>2. \A n \in 1..Len(main') : Old(n) \/ Add(n)
  BY DEF Moves
<1>3. ASSUME NEW n \in 1..Len(main'), main'[n].kind \in Asks, Old(n)
      PROVE  /\ n + k > k /\ n + k \in 1..Len(main) /\ main[n + k] = main'[n]
             /\ requests'[main'[n].id].pc = "main"
             /\ main'[n].kind # "allow" => requests'[main'[n].id].kind \in {"transaction", "typed"}
  <2>1. n + k > k /\ n + k \in 1..Len(main) /\ main[n + k] = main'[n]
    BY <1>3
  <2>. QED
    BY <2>1, <1>3 DEF OneMain
<1>4. ASSUME NEW n \in 1..Len(main'), main'[n].kind \in Asks,
             NEW m \in 1..Len(main'), main'[m].kind \in Asks, main'[m].id = main'[n].id
      PROVE  m = n
  <2>1. CASE Old(n) /\ Old(m)
    <3>1. /\ n + k \in 1..Len(main) /\ main[n + k] = main'[n]
          /\ m + k \in 1..Len(main) /\ main[m + k] = main'[m]
      BY <2>1
    <3>2. m + k = n + k
      BY <3>1, <1>4 DEF OneMain
    <3>. QED
      BY <3>2
  <2>2. CASE Old(n) /\ Add(m)
    <3>1. main[n + k].id # added[m - (Len(main) - k)].id
      BY <2>2, <1>3, <1>4
    <3>. QED
      BY <3>1, <2>2, <1>4
  <2>3. CASE Add(n) /\ Old(m)
    <3>1. main[m + k].id # added[n - (Len(main) - k)].id
      BY <2>3, <1>3, <1>4
    <3>. QED
      BY <3>1, <2>3, <1>4
  <2>4. CASE Add(n) /\ Add(m)
    <3>1. m - (Len(main) - k) = n - (Len(main) - k)
      BY <2>4, <1>4
    <3>. QED
      BY <3>1, <1>1
  <2>. QED
    BY <2>1, <2>2, <2>3, <2>4, <1>2
<1>5. ASSUME NEW n \in 1..Len(main'), main'[n].kind \in Asks
      PROVE  /\ requests'[main'[n].id].pc = "main"
             /\ main'[n].kind # "allow" => requests'[main'[n].id].kind \in {"transaction", "typed"}
  <2>1. CASE Old(n)
    BY <2>1, <1>3, <1>5
  <2>2. CASE Add(n)
    BY <2>2, <1>5
  <2>. QED
    BY <2>1, <2>2, <1>2
<1>. QED
  BY <1>4, <1>5 DEF OneMain

(* A step of a request that neither waits for a block nor a dialog, before *)
(* or after, but for what it is told.                                      *)
Plain(added, i) ==
    /\ Len(added) \in Nat
    /\ \A a \in 1..Len(added) : added[a].kind \in {"result", "error"} /\ added[a].id = i
Aside == {"main", "dialog"}

WorkStep(i, new, added) ==
    /\ i \in Ids /\ requests[i].pc \notin Aside /\ Turned(i, new) /\ new.pc \notin Aside
    /\ Moves(main, main', 0, added) /\ Plain(added, i) /\ UNCHANGED dialogs

(* The answer to the uppermost dialog                                      *)
ReplyStep(i, new, added) ==
    /\ dialogs # <<>> /\ i = Top.id /\ Dismiss /\ Turned(i, new) /\ new.pc \notin Aside
    /\ Moves(main, main', 0, added) /\ Plain(added, i)

(* Requests get causes at most, and dialogs may be closed.                 *)
OtherStep ==
    /\ \A new : Turned(0, new)
    /\ UNCHANGED main /\ (UNCHANGED dialogs \/ dialogs' = <<>>)

(* These three kinds of steps keep one block and one dialog for a request. *)
LEMMA WorkKeeps ==
    ASSUME TypeInv, OneMain, OneDialog, NEW i, NEW new, NEW added, WorkStep(i, new, added)
    PROVE  OneMain' /\ OneDialog'
<1>1. \A j \in Ids : j # i => requests'[j].pc = requests[j].pc
  BY DEF WorkStep, Turned
<1>2. \A j \in Ids : requests'[j].kind = requests[j].kind
  BY DEF WorkStep, Turned
<1>3. OneMain'
  <2>1. \A m \in 1..Len(main) : m > 0 /\ main[m].kind \in Asks =>
               /\ requests'[main[m].id].pc = "main"
               /\ requests'[main[m].id].kind = requests[main[m].id].kind
    BY <1>1, <1>2, ReqIs DEF OneMain, WorkStep, Aside
  <2>2. \A a \in 1..Len(added) : added[a].kind \notin Asks
    BY DEF WorkStep, Plain, Asks
  <2>3. Moves(main, main', 0, added) /\ Len(added) \in Nat
    BY DEF WorkStep, Plain
  <2>. QED
    BY <2>1, <2>2, <2>3, MainKept
<1>4. OneDialog'
  <2>1. dialogs' = dialogs
    BY DEF WorkStep
  <2>2. \A m \in 1..Len(dialogs) : /\ requests'[dialogs[m].id].pc = requests[dialogs[m].id].pc
                                   /\ requests'[dialogs[m].id].kind = requests[dialogs[m].id].kind
    BY <1>1, <1>2, ReqIs DEF OneDialog, WorkStep, Aside
  <2>. QED
    BY <2>1, <2>2 DEF OneDialog
<1>. QED
  BY <1>3, <1>4

LEMMA ReplyKeeps ==
    ASSUME TypeInv, OneMain, OneDialog, NEW i, NEW new, NEW added, ReplyStep(i, new, added)
    PROVE  OneMain' /\ OneDialog'
<1>1. \A j \in Ids : j # i => requests'[j].pc = requests[j].pc
  BY DEF ReplyStep, Turned
<1>2. \A j \in Ids : requests'[j].kind = requests[j].kind
  BY DEF ReplyStep, Turned
<1>0. /\ Len(dialogs) \in 1..Len(dialogs) /\ i = dialogs[Len(dialogs)].id /\ i \in Ids
      /\ requests[i].pc = "dialog" /\ Len(dialogs') = Len(dialogs) - 1
      /\ \A m \in 1..Len(dialogs') : m \in 1..Len(dialogs) /\ dialogs'[m] = dialogs[m]
  BY FrontIs DEF ReplyStep, OneDialog
<1>3. OneMain'
  <2>1. \A m \in 1..Len(main) : m > 0 /\ main[m].kind \in Asks =>
               /\ requests'[main[m].id].pc = "main"
               /\ requests'[main[m].id].kind = requests[main[m].id].kind
    BY <1>0, <1>1, <1>2, ReqIs DEF OneMain
  <2>2. \A a \in 1..Len(added) : added[a].kind \notin Asks
    BY DEF ReplyStep, Plain, Asks
  <2>3. Moves(main, main', 0, added) /\ Len(added) \in Nat
    BY DEF ReplyStep, Plain
  <2>. QED
    BY <2>1, <2>2, <2>3, MainKept
<1>4. OneDialog'
  <2>1. ASSUME NEW m \in 1..Len(dialogs'), dialogs[m].id = i
        PROVE  FALSE
    <3>1. m = Len(dialogs)
      BY <1>0, <2>1 DEF OneDialog
    <3>2. Len(dialogs) \in Nat /\ Len(dialogs') = Len(dialogs) - 1
      BY <1>0, ReqIs
    <3>. QED
      BY <3>1, <3>2
  <2>2. \A m \in 1..Len(dialogs') : /\ requests'[dialogs[m].id].pc = requests[dialogs[m].id].pc
                                    /\ requests'[dialogs[m].id].kind = requests[dialogs[m].id].kind
    BY <1>0, <1>1, <1>2, <2>1, ReqIs
  <2>3. ASSUME NEW m \in 1..Len(dialogs')
        PROVE  /\ m \in 1..Len(dialogs) /\ dialogs'[m] = dialogs[m]
               /\ dialogs'[m].kind \in Asks /\ requests'[dialogs'[m].id].pc = "dialog"
               /\ dialogs'[m].kind # "allow" =>
                     requests'[dialogs'[m].id].kind \in {"transaction", "typed"}
    <3>1. m \in 1..Len(dialogs) /\ dialogs'[m] = dialogs[m]
      BY <1>0
    <3>. QED
      BY <2>2, <3>1 DEF OneDialog
  <2>4. ASSUME NEW m \in 1..Len(dialogs'), NEW n \in 1..Len(dialogs'),
               dialogs'[n].id = dialogs'[m].id
        PROVE  n = m
    <3>1. /\ m \in 1..Len(dialogs) /\ n \in 1..Len(dialogs)
          /\ dialogs[n].id = dialogs[m].id
      BY <2>3, <2>4
    <3>. QED
      BY <3>1 DEF OneDialog
  <2>. QED
    BY <2>3, <2>4 DEF OneDialog
<1>. QED
  BY <1>3, <1>4

LEMMA OtherKeeps ==
    ASSUME TypeInv, OneMain, OneDialog, OtherStep
    PROVE  OneMain' /\ OneDialog'
<1>1. \A j \in Ids : requests'[j].pc = requests[j].pc /\ requests'[j].kind = requests[j].kind
  BY ReqIs DEF OtherStep, Turned
<1>2. OneMain'
  BY <1>1, ReqIs DEF OneMain, OtherStep
<1>3. CASE UNCHANGED dialogs
  BY <1>1, <1>2, <1>3, ReqIs DEF OneDialog
<1>4. CASE dialogs' = <<>>
  BY <1>2, <1>4 DEF OneDialog
<1>. QED
  BY <1>3, <1>4 DEF OtherStep

-----------------------------------------------------------------------------
(* The steps                                                               *)

(* A step that tells the page, the last of a request                       *)
LEMMA DoneStep ==
    ASSUME TypeInv, NEW i \in Ids, NEW value \in {"result", "error"}, SendResultBack(i, value)
    PROVE  /\ Turned(i, As(i, "done")) /\ As(i, "done").pc \notin Aside
           /\ Moves(main, main', 0, <<Block(value, i)>>) /\ Plain(<<Block(value, i)>>, i)
<1>1. Block(value, i).id = i /\ Block(value, i).kind = value
  BY DEF Block
<1>2. Plain(<<Block(value, i)>>, i)
  BY <1>1 DEF Plain
<1>3. As(i, "done").pc \notin Aside
  BY DEF As, Aside
<1>. QED
  BY <1>2, <1>3, DoneIs

EndStep(i, value) == WorkStep(i, As(i, "done"), <<Block(value, i)>>)

(* What the others of a step of a request leave alone                      *)
rest == <<current, around, view, page, known, approved, trapped>>

(* A request at work is answered.                                          *)
LEMMA EndIs ==
    ASSUME TypeInv, NEW i \in Ids, NEW value \in {"result", "error"}, SendResultBack(i, value),
           requests[i].pc \notin Aside, UNCHANGED dialogs
    PROVE  EndStep(i, value)
BY DoneStep DEF EndStep, WorkStep

(* A request goes on, and nothing is posted.                               *)
LEMMA OnIs ==
    ASSUME TypeInv, NEW i \in Ids, NEW new, Turned(i, new), new.pc \notin Aside,
           requests[i].pc \notin Aside, UNCHANGED <<main, dialogs>>
    PROVE  WorkStep(i, new, <<>>)
<1>1. Moves(main, main', 0, <<>>)
  BY QuietIs
<1>2. Plain(<<>>, i)
  BY DEF Plain
<1>. QED
  BY <1>1, <1>2 DEF WorkStep

(* The same, for one that only changes its place                           *)
LEMMA OnGoto ==
    ASSUME TypeInv, NEW i \in Ids, NEW pc \in Pcs \ Aside, Goto(i, pc),
           requests[i].pc \notin Aside, UNCHANGED <<main, dialogs>>
    PROVE  WorkStep(i, As(i, pc), <<>>)
<1>1. Turned(i, As(i, pc))
  BY GotoIs
<1>2. As(i, pc).pc \notin Aside
  BY DEF As
<1>. QED
  BY <1>1, <1>2, OnIs

(* What each step of the signing and sending does: the request goes on or  *)
(* is answered, and what others keep stays.                                *)
LEMMA BeginIs ==
    ASSUME TypeInv, NEW i \in Ids, Begin(i)
    PROVE  /\ requests[i].pc = "begin" /\ UNCHANGED <<rest, node>>
           /\ \/ requests[i].kind = "typed" /\ \E value \in {"result", "error"} : EndStep(i, value)
              \/ /\ requests[i].kind # "typed"
                 /\ WorkStep(i, [As(i, "epoch") EXCEPT !.from = IF @ = None THEN current ELSE @], <<>>)
<1>1. requests[i].pc = "begin" /\ requests[i].pc \notin Aside
  BY DEF Begin, At, Aside
<1>2. UNCHANGED <<rest, node, dialogs>>
  BY DEF Begin, rest
<1>3. CASE requests[i].kind = "typed"
  <2>1. PICK value \in {"result", "error"} : SendResultBack(i, value)
    BY <1>3 DEF Begin
  <2>2. EndStep(i, value)
    BY <2>1, <1>1, <1>2, EndIs
  <2>. QED
    BY <2>2, <1>1, <1>2, <1>3
<1>4. CASE requests[i].kind # "typed"
  <2>. DEFINE from == IF requests[i].from = None THEN current ELSE requests[i].from
              new  == [requests[i] EXCEPT !.pc = "epoch", !.from = from]
              as   == [As(i, "epoch") EXCEPT !.from = IF @ = None THEN current ELSE @]
  <2>1. requests[i] \in Req /\ current \in Wallet
    BY ReqIs DEF TypeInv, TypeOK
  <2>2. /\ new \in Req /\ new.kind = requests[i].kind /\ new.page = requests[i].page
        /\ requests[i].causes = new.causes
        /\ new.from = from /\ new.signer = requests[i].signer
        /\ new.nonce = requests[i].nonce /\ new.pc = "epoch" /\ new.told = requests[i].told
    BY <2>1 DEF Req, Pcs, Someone
  <2>3. requests' = [requests EXCEPT ![i] = new]
    BY <1>4, <2>1 DEF Begin, Address
  <2>4. /\ as.from = from /\ as.signer = requests[i].signer /\ as.nonce = requests[i].nonce
        /\ as.pc = "epoch" /\ as.told = requests[i].told
    BY DEF As
  <2>5. UNCHANGED main
    BY <1>4 DEF Begin
  <2>. HIDE DEF new, as, from
  <2>6. Turned(i, new)
    BY <2>2, <2>3, TurnIs
  <2>7. Turned(i, as)
    BY <2>2, <2>4, <2>6, SameFields
  <2>8. as.pc \notin Aside
    BY <2>4 DEF Aside
  <2>9. WorkStep(i, as, <<>>)
    BY <1>1, <1>2, <2>5, <2>7, <2>8, OnIs
  <2>. QED
    BY <1>1, <1>2, <1>4, <2>9 DEF as
<1>. QED
  BY <1>3, <1>4

LEMMA EpochIs ==
    ASSUME TypeInv, NEW i \in Ids, EpochArrived(i)
    PROVE  /\ requests[i].pc = "epoch" /\ UNCHANGED <<rest, node>>
           /\ EndStep(i, "error") \/ WorkStep(i, As(i, "nonce"), <<>>)
<1>1. requests[i].pc = "epoch" /\ requests[i].pc \notin Aside /\ UNCHANGED <<rest, node, dialogs>>
  BY DEF EpochArrived, At, Aside, rest
<1>2. CASE Failed(i)
  BY <1>1, <1>2, EndIs DEF Failed
<1>3. CASE Goto(i, "nonce") /\ UNCHANGED main
  <2>1. "nonce" \in Pcs \ Aside
    BY DEF Pcs, Aside
  <2>. QED
    BY <1>1, <1>3, <2>1, OnGoto
<1>. QED
  BY <1>1, <1>2, <1>3 DEF EpochArrived

LEMMA NonceIs ==
    ASSUME TypeInv, KindsFit, NEW i \in Ids, NonceArrived(i)
    PROVE  /\ requests[i].pc = "nonce" /\ UNCHANGED <<rest, node>>
           /\ \/ EndStep(i, "error")
              \/ WorkStep(i, [As(i, "estimate") EXCEPT !.nonce = executed[requests[i].from]], <<>>)
<1>1. requests[i].pc = "nonce" /\ requests[i].pc \notin Aside /\ UNCHANGED <<rest, node, dialogs>>
  BY DEF NonceArrived, At, Aside, rest
<1>2. CASE Failed(i)
  BY <1>1, <1>2, EndIs DEF Failed
<1>3. CASE /\ requests' = [requests EXCEPT ![i].pc = "estimate", ![i].nonce = executed[requests[i].from]]
           /\ UNCHANGED main
  <2>. DEFINE nonce == executed[requests[i].from]
              new   == [requests[i] EXCEPT !.pc = "estimate", !.nonce = nonce]
              as    == [As(i, "estimate") EXCEPT !.nonce = nonce]
  <2>1. requests[i] \in Req /\ nonce \in 0..MaxRequest
    BY <1>1, ReqIs DEF TypeInv, TypeOK, KindsFit, Node
  <2>2. requests' = [requests EXCEPT ![i] = new]
    BY <1>3, <2>1
  <2>. HIDE DEF nonce
  <2>3. /\ new \in Req /\ new.kind = requests[i].kind /\ new.page = requests[i].page
        /\ requests[i].causes = new.causes
        /\ new.from = requests[i].from /\ new.signer = requests[i].signer
        /\ new.nonce = nonce /\ new.pc = "estimate" /\ new.told = requests[i].told
    BY <2>1 DEF Req, Pcs, Someone
  <2>4. /\ as.from = requests[i].from /\ as.signer = requests[i].signer /\ as.nonce = nonce
        /\ as.pc = "estimate" /\ as.told = requests[i].told
    BY DEF As
  <2>. HIDE DEF new, as
  <2>6. Turned(i, new)
    BY <2>2, <2>3, TurnIs
  <2>7. Turned(i, as)
    BY <2>3, <2>4, <2>6, SameFields
  <2>8. as.pc \notin Aside
    BY <2>4 DEF Aside
  <2>9. WorkStep(i, as, <<>>)
    BY <1>1, <1>3, <2>7, <2>8, OnIs
  <2>. QED
    BY <1>1, <2>9 DEF as, nonce
<1>. QED
  BY <1>1, <1>2, <1>3 DEF NonceArrived

LEMMA EstimateIs ==
    ASSUME TypeInv, NEW i \in Ids, EstimateArrived(i)
    PROVE  /\ requests[i].pc = "estimate" /\ UNCHANGED <<rest, node>>
           /\ EndStep(i, "error") \/ WorkStep(i, As(i, "submit"), <<>>)
<1>1. requests[i].pc = "estimate" /\ requests[i].pc \notin Aside /\ UNCHANGED <<rest, node, dialogs>>
  BY DEF EstimateArrived, At, Aside, rest
<1>2. CASE Failed(i)
  BY <1>1, <1>2, EndIs DEF Failed
<1>3. CASE Goto(i, "submit") /\ UNCHANGED main
  <2>1. "submit" \in Pcs \ Aside
    BY DEF Pcs, Aside
  <2>. QED
    BY <1>1, <1>3, <2>1, OnGoto
<1>. QED
  BY <1>1, <1>2, <1>3 DEF EstimateArrived

(* A request that ends with a cause                                        *)
LEMMA EndCauseIs ==
    ASSUME TypeInv, NEW i \in Ids, NEW c \in Causes,
           requests' = [requests EXCEPT ![i].pc = "done", ![i].causes = @ \cup {c}],
           Post(Block("error", i)), requests[i].pc \notin Aside, UNCHANGED dialogs
    PROVE  EndStep(i, "error") /\ c \in requests'[i].causes
<1>. DEFINE new == [requests[i] EXCEPT !.pc = "done", !.causes = @ \cup {c}]
<1>1. requests[i] \in Req
  BY ReqIs
<1>2. /\ new \in Req /\ new.kind = requests[i].kind /\ new.page = requests[i].page
      /\ requests[i].causes \subseteq new.causes /\ c \in new.causes
      /\ new.from = requests[i].from /\ new.signer = requests[i].signer
      /\ new.nonce = requests[i].nonce /\ new.pc = "done" /\ new.told = requests[i].told
  BY <1>1 DEF Req, Pcs
<1>3. requests' = [requests EXCEPT ![i] = new]
  BY <1>1
<1>. HIDE DEF new
<1>4. Turned(i, new) /\ c \in requests'[i].causes
  BY <1>2, <1>3, TurnIs
<1>5. /\ As(i, "done").from = new.from /\ As(i, "done").signer = new.signer
      /\ As(i, "done").nonce = new.nonce /\ As(i, "done").pc = new.pc
      /\ As(i, "done").told = new.told
  BY <1>2 DEF As
<1>6. Turned(i, As(i, "done"))
  BY <1>4, <1>5, SameFields
<1>7. Block("error", i) \in Blk /\ Block("error", i).id = i /\ Block("error", i).kind = "error"
  BY BlockIs DEF Blocks
<1>8. Moves(main, main', 0, <<Block("error", i)>>)
  BY <1>7, PostIs DEF Post
<1>9. Plain(<<Block("error", i)>>, i)
  BY <1>7 DEF Plain
<1>10. As(i, "done").pc \notin Aside
  BY DEF As, Aside
<1>. QED
  BY <1>4, <1>6, <1>8, <1>9, <1>10 DEF EndStep, WorkStep

LEMMA SubmittedIs ==
    ASSUME TypeInv, NEW i \in Ids, Submitted(i)
    PROVE  /\ requests[i].pc = "submit" /\ UNCHANGED <<rest, executed>>
           /\ \/ Taken(i) /\ EndStep(i, "result") /\ pool' = pool \cup {i}
              \/ /\ Taken(i) /\ EndStep(i, "error") /\ pool' = pool \cup {i}
                 /\ "lost" \in requests'[i].causes
              \/ EndStep(i, "error") /\ UNCHANGED pool /\ "cut" \in requests'[i].causes
              \/ ~Taken(i) /\ EndStep(i, "error") /\ UNCHANGED pool
<1>1. requests[i].pc = "submit" /\ requests[i].pc \notin Aside /\ UNCHANGED <<rest, executed, dialogs>>
  BY DEF Submitted, At, Aside, rest
<1>2. "lost" \in Causes /\ "cut" \in Causes
  BY DEF Causes
<1>3. CASE Taken(i) /\ SendResultBack(i, "result") /\ pool' = pool \cup {i}
  BY <1>1, <1>3, EndIs
<1>4. CASE /\ Taken(i) /\ pool' = pool \cup {i}
           /\ requests' = [requests EXCEPT ![i].pc = "done", ![i].causes = @ \cup {"lost"}]
           /\ Post(Block("error", i))
  BY <1>1, <1>2, <1>4, EndCauseIs
<1>5. CASE /\ requests' = [requests EXCEPT ![i].pc = "done", ![i].causes = @ \cup {"cut"}]
           /\ Post(Block("error", i)) /\ UNCHANGED pool
  BY <1>1, <1>2, <1>5, EndCauseIs
<1>6. CASE ~Taken(i) /\ SendResultBack(i, "error") /\ UNCHANGED pool
  BY <1>1, <1>6, EndIs
<1>. QED
  BY <1>1, <1>3, <1>4, <1>5, <1>6 DEF Submitted

(* A call of the node is answered.                                         *)
LEMMA CallIs ==
    ASSUME TypeInv, NEW i \in Ids, CallArrived(i)
    PROVE  /\ requests[i].pc = "call" /\ UNCHANGED <<rest, node>>
           /\ \E value \in {"result", "error"} : EndStep(i, value)
<1>1. requests[i].pc = "call" /\ requests[i].pc \notin Aside /\ UNCHANGED <<rest, node, dialogs>>
  BY DEF CallArrived, At, Aside, rest
<1>2. PICK value \in {"result", "error"} : SendResultBack(i, value)
  BY DEF CallArrived
<1>3. EndStep(i, value)
  BY <1>1, <1>2, EndIs
<1>. QED
  BY <1>1, <1>3

(* The password is asked for.                                              *)
PasswordStep(i, added) ==
    /\ i \in Ids /\ requests[i].pc = "keychain" /\ Turned(i, As(i, "main"))
    /\ Moves(main, main', 0, added) /\ UNCHANGED dialogs
    /\ \/ added = <<Block("password", i)>>
       \/ added = <<Block("error", i), Block("password", i)>> /\ "again" \in requests'[i].causes

(* The keychain opens the wallet, or the password is asked for.            *)
LEMMA KeychainIs ==
    ASSUME TypeInv, NEW i \in Ids, Keychain(i)
    PROVE  /\ requests[i].pc = "keychain" /\ UNCHANGED <<rest, node>>
           /\ \/ \E added \in Seq(Blk) : PasswordStep(i, added)
              \/ /\ Unlocked(i)
                 /\ WorkStep(i, [As(i, "begin") EXCEPT !.signer = current], <<>>)
<1>1. requests[i].pc = "keychain" /\ requests[i].pc \notin Aside /\ UNCHANGED <<rest, node, dialogs>>
  BY DEF Keychain, At, Aside, rest
<1>2. /\ Block("password", i) \in Blk /\ Block("error", i) \in Blk
      /\ main \in Seq(Blk) /\ requests[i] \in Req /\ Len(main) \in Nat
  BY BlockIs, ReqIs DEF Blocks, TypeInv
<1>3. CASE Goto(i, "main") /\ Post(Block("password", i))
  <2>1. Turned(i, As(i, "main"))
    BY <1>3, GotoIs DEF Pcs
  <2>2. Moves(main, main', 0, <<Block("password", i)>>)
    BY <1>2, <1>3, PostIs DEF Post
  <2>3. PasswordStep(i, <<Block("password", i)>>) /\ <<Block("password", i)>> \in Seq(Blk)
    BY <1>1, <1>2, <2>1, <2>2 DEF PasswordStep
  <2>. QED
    BY <1>1, <2>3
<1>4. CASE Unlocked(i) /\ UNCHANGED main
  <2>1. Turned(i, [As(i, "begin") EXCEPT !.signer = current])
    BY <1>4, UnlockedIs
  <2>2. [As(i, "begin") EXCEPT !.signer = current].pc \notin Aside
    BY DEF As, Aside
  <2>3. WorkStep(i, [As(i, "begin") EXCEPT !.signer = current], <<>>)
    BY <1>1, <1>4, <2>1, <2>2, OnIs
  <2>. QED
    BY <1>1, <1>4, <2>3
<1>5. CASE /\ requests' = [requests EXCEPT ![i].pc = "main", ![i].causes = @ \cup {"again"}]
           /\ main' = main \o <<Block("error", i), Block("password", i)>>
  <2>. DEFINE new   == [requests[i] EXCEPT !.pc = "main", !.causes = @ \cup {"again"}]
              added == <<Block("error", i), Block("password", i)>>
  <2>1. /\ new \in Req /\ new.kind = requests[i].kind /\ new.page = requests[i].page
        /\ requests[i].causes \subseteq new.causes /\ "again" \in new.causes
        /\ new.from = requests[i].from /\ new.signer = requests[i].signer
        /\ new.nonce = requests[i].nonce /\ new.pc = "main" /\ new.told = requests[i].told
    BY <1>2 DEF Req, Pcs, Causes
  <2>2. requests' = [requests EXCEPT ![i] = new]
    BY <1>2, <1>5
  <2>. HIDE DEF new
  <2>3. Turned(i, new) /\ "again" \in requests'[i].causes
    BY <2>1, <2>2, TurnIs
  <2>4. /\ As(i, "main").from = new.from /\ As(i, "main").signer = new.signer
        /\ As(i, "main").nonce = new.nonce /\ As(i, "main").pc = new.pc
        /\ As(i, "main").told = new.told
    BY <2>1 DEF As
  <2>5. Turned(i, As(i, "main"))
    BY <2>3, <2>4, SameFields
  <2>6. added \in Seq(Blk) /\ Len(added) = 2
    BY <1>2
  <2>7. main' = main \o added
    BY <1>5
  <2>8. Moves(main, main', 0, added)
    <3>. HIDE DEF added
    <3>1. /\ main' \in Seq(Blk) /\ Len(main') = Len(main) + 2
          /\ \A n \in 1..(Len(main) + 2) :
                main'[n] = IF n <= Len(main) THEN main[n] ELSE added[n - Len(main)]
      <4>1. /\ main \o added \in Seq(Blk) /\ Len(main \o added) = Len(main) + Len(added)
            /\ \A n \in 1..(Len(main) + Len(added)) : (main \o added)[n] =
                  IF n <= Len(main) THEN main[n] ELSE added[n - Len(main)]
        BY <1>2, <2>6, ConcatProperties
      <4>. QED
        BY ONLY <4>1, <2>6, <2>7
    <3>2. Len(main') = Len(main) - 0 + Len(added)
      BY <1>2, <2>6, <3>1
    <3>3. ASSUME NEW n \in 1..Len(main')
          PROVE  \/ n + 0 \in 1..Len(main) /\ main'[n] = main[n + 0]
                 \/ /\ n - (Len(main) - 0) \in 1..Len(added)
                    /\ main'[n] = added[n - (Len(main) - 0)]
      <4>0. n \in Nat /\ n + 0 = n /\ Len(main) - 0 = Len(main)
        BY <1>2, <3>1
      <4>1. CASE n <= Len(main)
        BY <1>2, <3>1, <4>0, <4>1
      <4>2. CASE n > Len(main)
        <5>1. n - Len(main) \in 1..Len(added) /\ main'[n] = added[n - Len(main)]
          BY <1>2, <2>6, <3>1, <4>0, <4>2
        <5>. QED
          BY <4>0, <5>1
      <4>. QED
        BY <1>2, <4>0, <4>1, <4>2
    <3>. QED
      BY <3>1, <3>2, <3>3 DEF Moves
  <2>9. PasswordStep(i, added)
    BY <1>1, <2>3, <2>5, <2>8 DEF PasswordStep
  <2>. QED
    BY <1>1, <2>6, <2>9
<1>. QED
  BY <1>1, <1>3, <1>4, <1>5 DEF Keychain

(* The user's answers                                                      *)
LEMMA ReplyOn ==
    ASSUME TypeInv, dialogs # <<>>, Dismiss, NEW new, Turned(Top.id, new), new.pc \notin Aside,
           UNCHANGED main
    PROVE  ReplyStep(Top.id, new, <<>>)
<1>1. Moves(main, main', 0, <<>>)
  BY QuietIs
<1>2. Plain(<<>>, Top.id)
  BY DEF Plain
<1>. QED
  BY <1>1, <1>2 DEF ReplyStep

EndReply(value) == ReplyStep(Top.id, As(Top.id, "done"), <<Block(value, Top.id)>>)

(* What each answer of the user does                                       *)
LEMMA ConfirmIs ==
    ASSUME TypeInv, ConfirmSign
    PROVE  /\ UNCHANGED <<rest, node>> /\ dialogs # <<>> /\ Top.kind = "sign"
           /\ ReplyStep(Top.id, As(Top.id, "keychain"), <<>>)
<1>1. UNCHANGED <<rest, node, main>> /\ dialogs # <<>> /\ Top.kind = "sign" /\ Dismiss
  BY DEF ConfirmSign, Asked, rest
<1>2. Top.id \in Ids
  BY <1>1, FrontIs
<1>3. Turned(Top.id, As(Top.id, "keychain"))
  BY <1>2, GotoIs DEF ConfirmSign, Pcs
<1>4. As(Top.id, "keychain").pc \notin Aside
  BY DEF As, Aside
<1>. QED
  BY <1>1, <1>3, <1>4, ReplyOn

(* A dialog that is refused ends its request.                              *)
LEMMA EndReplyIs ==
    ASSUME TypeInv, dialogs # <<>>, Dismiss, SendResultBack(Top.id, "error")
    PROVE  EndReply("error")
<1>1. Top.id \in Ids
  BY FrontIs
<1>. QED
  BY <1>1, DoneStep DEF EndReply, ReplyStep

LEMMA RefuseIs ==
    ASSUME TypeInv, RefuseSign \/ WrongPassword
    PROVE  UNCHANGED <<rest, node>> /\ EndReply("error")
<1>1. UNCHANGED <<rest, node>> /\ dialogs # <<>> /\ Dismiss /\ SendResultBack(Top.id, "error")
  BY DEF RefuseSign, WrongPassword, Asked, rest
<1>. QED
  BY <1>1, EndReplyIs

LEMMA EnterIs ==
    ASSUME TypeInv, EnterPassword
    PROVE  /\ UNCHANGED <<rest, node>> /\ dialogs # <<>> /\ Top.kind = "password" /\ Unlocked(Top.id)
           /\ ReplyStep(Top.id, [As(Top.id, "begin") EXCEPT !.signer = current], <<>>)
<1>1. /\ UNCHANGED <<rest, node, main>> /\ dialogs # <<>> /\ Top.kind = "password" /\ Dismiss
      /\ Unlocked(Top.id)
  BY DEF EnterPassword, Asked, rest
<1>2. Top.id \in Ids
  BY <1>1, FrontIs
<1>3. Turned(Top.id, [As(Top.id, "begin") EXCEPT !.signer = current])
  BY <1>1, <1>2, UnlockedIs
<1>4. [As(Top.id, "begin") EXCEPT !.signer = current].pc \notin Aside
  BY DEF As, Aside
<1>. QED
  BY <1>1, <1>3, <1>4, ReplyOn

LEMMA ForgetIs ==
    ASSUME TypeInv, ForgetPassword
    PROVE  /\ UNCHANGED <<current, around, page, known, approved, trapped, node>>
           /\ dialogs # <<>> /\ view' = "import"
           /\ ReplyStep(Top.id, As(Top.id, "forgotten"), <<>>)
<1>1. /\ UNCHANGED <<current, around, page, known, approved, trapped, node, main>>
      /\ dialogs # <<>> /\ Dismiss /\ view' = "import"
  BY DEF ForgetPassword, Asked
<1>2. Top.id \in Ids
  BY <1>1, FrontIs
<1>3. Turned(Top.id, As(Top.id, "forgotten"))
  BY <1>2, GotoIs DEF ForgetPassword, Pcs
<1>4. As(Top.id, "forgotten").pc \notin Aside
  BY DEF As, Aside
<1>. QED
  BY <1>1, <1>3, <1>4, ReplyOn

(* The dialog for the address: when it is allowed, the other dialogs for   *)
(* it are known to have been up.                                           *)
LEMMA AllowIs ==
    ASSUME TypeInv, NEW yes \in BOOLEAN, AnswerAllow(yes)
    PROVE  /\ UNCHANGED <<current, around, view, page, known, trapped, node>>
           /\ dialogs # <<>> /\ Top.kind = "allow" /\ approved' = (approved \/ yes)
           /\ \E b \in Blk : /\ ReplyStep(Top.id, As(Top.id, "done"), <<b>>)
                             /\ b.kind = IF yes THEN "result" ELSE "error"
           /\ yes => \A m \in 1..Len(dialogs') :
                        dialogs'[m].kind = "allow" => "stacked" \in requests'[dialogs'[m].id].causes
<1>1. /\ UNCHANGED <<current, around, view, page, known, trapped, node>>
      /\ dialogs # <<>> /\ Top.kind = "allow" /\ Dismiss /\ approved' = (approved \/ yes)
  BY DEF AnswerAllow, Asked
<1>. DEFINE i == Top.id
            b == [Top EXCEPT !.kind = IF yes THEN "result" ELSE "error",
                             !.address = IF yes THEN @ ELSE None]
            S == {d.id : d \in {e \in Range(Front(dialogs)) : e.kind = "allow"}}
            new == [requests[i] EXCEPT !.pc = "done"]
            R == [requests EXCEPT ![i].pc = "done"]
<1>2. i \in Ids /\ Top \in Blk /\ requests[i] \in Req
  BY <1>1, FrontIs, ReqIs
<1>3. b \in Blk /\ b.id = i /\ b.kind = IF yes THEN "result" ELSE "error"
  BY <1>2 DEF Blk, Blocks, Someone
<1>4. /\ new \in Req /\ new.kind = requests[i].kind /\ new.page = requests[i].page
      /\ requests[i].causes \subseteq new.causes
      /\ new.from = requests[i].from /\ new.signer = requests[i].signer
      /\ new.nonce = requests[i].nonce /\ new.pc = "done" /\ new.told = requests[i].told
  BY <1>2 DEF Req, Pcs
<1>5. R = [requests EXCEPT ![i] = new]
  BY <1>2
<1>6. requests' = IF yes THEN WithCause([requests EXCEPT ![i] = new], S, "stacked")
                  ELSE [requests EXCEPT ![i] = new]
  BY <1>5 DEF AnswerAllow
<1>7. main' = Append(main, b)
  BY DEF AnswerAllow, Post
<1>8. "stacked" \in Causes
  BY DEF Causes
<1>. HIDE DEF new, S, R, b
<1>9. Turned(i, new) /\ (yes => \A j \in Ids \cap S : "stacked" \in requests'[j].causes)
  <2>1. CASE yes
    <3>1. requests' = WithCause([requests EXCEPT ![i] = new], S, "stacked")
      BY <1>6, <2>1
    <3>2. Turned(i, new) /\ \A j \in Ids \cap S : "stacked" \in requests'[j].causes
      BY <1>2, <1>4, <1>8, <3>1, BlameIs
    <3>. QED
      BY <3>2
  <2>2. CASE ~yes
    <3>1. requests' = [requests EXCEPT ![i] = new]
      BY <1>6, <2>2
    <3>2. Turned(i, new)
      BY <1>2, <1>4, <3>1, TurnIs
    <3>. QED
      BY <2>2, <3>2
  <2>. QED
    BY <2>1, <2>2
<1>10. Turned(i, As(i, "done"))
  <2>1. /\ As(i, "done").from = new.from /\ As(i, "done").signer = new.signer
        /\ As(i, "done").nonce = new.nonce /\ As(i, "done").pc = new.pc
        /\ As(i, "done").told = new.told
    BY <1>4 DEF As
  <2>. QED
    BY <1>9, <2>1, SameFields
<1>11. Moves(main, main', 0, <<b>>)
  BY <1>3, <1>7, PostIs
<1>12. Plain(<<b>>, i) /\ As(i, "done").pc \notin Aside
  BY <1>3 DEF Plain, As, Aside
<1>13. ReplyStep(i, As(i, "done"), <<b>>)
  BY <1>1, <1>10, <1>11, <1>12 DEF ReplyStep
<1>14. ASSUME yes, NEW m \in 1..Len(dialogs'), dialogs'[m].kind = "allow"
       PROVE  "stacked" \in requests'[dialogs'[m].id].causes
  <2>1. dialogs' = Front(dialogs) /\ dialogs' \in Seq(Blk)
    BY <1>1, FrontIs DEF Dismiss
  <2>2. m \in DOMAIN dialogs' /\ dialogs'[m] \in Range(dialogs')
    BY <2>1, LenProperties DEF Range
  <2>3. dialogs'[m].id \in S
    BY <1>14, <2>1, <2>2 DEF S
  <2>4. dialogs'[m].id \in Ids
    <3>1. m \in 1..Len(dialogs) /\ dialogs'[m] = dialogs[m]
      BY <1>1, FrontIs
    <3>. QED
      BY <3>1, ReqIs
  <2>. QED
    BY <1>9, <1>14, <2>3, <2>4
<1>. QED
  BY <1>1, <1>3, <1>13, <1>14

(* What a block of the main queue does                                     *)
TellStep(b) ==
    /\ b.kind \in {"result", "error"} /\ Moves(main, main', 1, <<>>) /\ UNCHANGED <<dialogs, trapped>>
    /\ known' \in Someone
    /\ \E told \in {requests[b.id].told, b.kind} :
          Turned(b.id, [As(b.id, requests[b.id].pc) EXCEPT !.told = told])

LostStep(b) ==
    /\ b.kind \in Asks /\ Moves(main, main', 1, <<>>) /\ UNCHANGED <<requests, known, dialogs>>
    /\ trapped' = TRUE

DialogStep(b) ==
    /\ b.kind \in Asks /\ (b.kind = "allow" => ~approved) /\ Turned(b.id, As(b.id, "dialog"))
    /\ Moves(main, main', 1, <<>>) /\ dialogs' = Append(dialogs, b) /\ UNCHANGED <<known, trapped>>

GrantStep(b) ==
    /\ b.kind = "allow" /\ Turned(b.id, As(b.id, "done")) /\ UNCHANGED <<known, dialogs, trapped>>
    /\ \E c \in Blk : c.kind = "result" /\ c.id = b.id /\ Moves(main, main', 1, <<c>>)

(* The first block is taken, and another posted.                           *)
LEMMA TailPostIs ==
    ASSUME TypeInv, main # <<>>, NEW c \in Blk, main' = Append(Tail(main), c)
    PROVE  Moves(main, main', 1, <<c>>)
<1>1. main \in Seq(Blk)
  BY DEF TypeInv
<1>0. Len(main) \in Nat \ {0}
  BY <1>1, EmptySeq, LenProperties
<1>. DEFINE t == Tail(main)
<1>2. /\ t \in Seq(Blk) /\ Len(t) = Len(main) - 1
      /\ \A n \in 1..Len(t) : t[n] = main[n + 1]
  BY <1>0, <1>1, HeadTailProperties
<1>. HIDE DEF t
<1>3. /\ main' \in Seq(Blk) /\ Len(main') = Len(t) + 1
      /\ (\A n \in 1..Len(t) : main'[n] = t[n]) /\ main'[Len(t) + 1] = c
  <2>1. main' = Append(t, c)
    BY DEF t
  <2>2. /\ Append(t, c) \in Seq(Blk) /\ Len(Append(t, c)) = Len(t) + 1
        /\ (\A n \in 1..Len(t) : Append(t, c)[n] = t[n]) /\ Append(t, c)[Len(t) + 1] = c
    BY ONLY <1>2, c \in Blk, AppendProperties
  <2>. QED
    BY ONLY <2>1, <2>2
<1>4. Len(main') = Len(main) - 1 + Len(<<c>>)
  BY <1>0, <1>2, <1>3
<1>5. ASSUME NEW n \in 1..Len(main')
      PROVE  \/ n + 1 \in 1..Len(main) /\ main'[n] = main[n + 1]
             \/ n - (Len(main) - 1) \in 1..Len(<<c>>) /\ main'[n] = <<c>>[n - (Len(main) - 1)]
  <2>1. CASE n <= Len(t)
    BY <1>0, <1>2, <1>3, <2>1
  <2>2. CASE n = Len(t) + 1
    <3>1. n - (Len(main) - 1) = 1 /\ main'[n] = c
      BY <1>0, <1>2, <1>3, <2>2
    <3>. QED
      BY <3>1
  <2>. QED
    BY <1>0, <1>2, <1>3, <2>1, <2>2
<1>. QED
  BY <1>3, <1>4, <1>5 DEF Moves

(* A callback of the page is called, or nobody hears it.                   *)
LEMMA EvaluateIs ==
    ASSUME TypeInv, main # <<>>, main[1].kind \in {"result", "error"}, Evaluate(main[1])
    PROVE  TellStep(main[1])
<1>. DEFINE b == main[1]
            i == b.id
<1>1. main' = Tail(main) /\ UNCHANGED <<dialogs, trapped>>
  BY DEF Evaluate
<1>2. Moves(main, main', 1, <<>>) /\ b \in Blk /\ i \in Ids
  BY <1>1, TailIs
<1>3. known' \in Someone
  BY <1>2 DEF Evaluate, Blk, TypeInv, TypeOK, Someone
<1>4. requests[i] \in Req /\ b.kind \in Told
  BY <1>2, ReqIs DEF Told
<1>5. \E told \in {requests[i].told, b.kind} : Turned(i, [As(i, requests[i].pc) EXCEPT !.told = told])
  <2>1. CASE Hears(i)
    <3>. DEFINE new == [requests[i] EXCEPT !.told = b.kind]
                as  == [As(i, requests[i].pc) EXCEPT !.told = b.kind]
    <3>1. /\ new \in Req /\ new.kind = requests[i].kind /\ new.page = requests[i].page
          /\ requests[i].causes = new.causes
          /\ new.from = requests[i].from /\ new.signer = requests[i].signer
          /\ new.nonce = requests[i].nonce /\ new.pc = requests[i].pc /\ new.told = b.kind
      BY <1>4 DEF Req
    <3>2. requests' = [requests EXCEPT ![i] = new]
      BY <1>4, <2>1 DEF Evaluate
    <3>3. /\ as.from = requests[i].from /\ as.signer = requests[i].signer
          /\ as.nonce = requests[i].nonce /\ as.pc = requests[i].pc /\ as.told = b.kind
      BY DEF As
    <3>. HIDE DEF new, as, i
    <3>4. Turned(i, new)
      BY <1>2, <3>1, <3>2, TurnIs
    <3>5. /\ as.from = new.from /\ as.signer = new.signer /\ as.nonce = new.nonce
          /\ as.pc = new.pc /\ as.told = new.told
      BY <3>1, <3>3
    <3>6. Turned(i, as)
      BY ONLY <3>4, <3>5, SameFields
    <3>. QED
      BY <3>6 DEF as, i
  <2>2. CASE ~Hears(i)
    <3>. DEFINE as == [As(i, requests[i].pc) EXCEPT !.told = requests[i].told]
    <3>1. requests' = requests /\ Ids' = Ids /\ requests \in Seq(Req)
      BY <2>2 DEF Evaluate, Ids, TypeInv
    <3>2. /\ as.from = requests[i].from /\ as.signer = requests[i].signer
          /\ as.nonce = requests[i].nonce /\ as.pc = requests[i].pc /\ as.told = requests[i].told
      BY DEF As
    <3>. HIDE DEF as
    <3>3. Turned(i, as)
      BY <3>1, <3>2 DEF Turned
    <3>. QED
      BY <3>3 DEF as
  <2>. QED
    BY <2>1, <2>2
<1>. QED
  BY <1>1, <1>2, <1>3, <1>5 DEF TellStep

(* A dialog is laid over the page, or the page is gone.                    *)
LEMMA OverlayIs ==
    ASSUME TypeInv, main # <<>>, main[1].kind \in Asks, main[1].kind = "allow" => ~approved,
           Overlay(main[1])
    PROVE  LostStep(main[1]) \/ DialogStep(main[1])
<1>1. main' = Tail(main) /\ UNCHANGED known
  BY DEF Overlay
<1>2. Moves(main, main', 1, <<>>) /\ main[1].id \in Ids
  BY <1>1, TailIs
<1>3. CASE view = "gone"
  BY <1>1, <1>2, <1>3 DEF Overlay, LostStep
<1>4. CASE view # "gone"
  <2>1. /\ Goto(main[1].id, "dialog") /\ dialogs' = Append(dialogs, main[1]) /\ UNCHANGED trapped
    BY <1>4 DEF Overlay
  <2>2. Turned(main[1].id, As(main[1].id, "dialog"))
    BY <1>2, <2>1, GotoIs DEF Pcs
  <2>. QED
    BY <1>1, <1>2, <2>1, <2>2 DEF DialogStep
<1>. QED
  BY <1>3, <1>4

(* The first block of the main queue is one of the four.                   *)
LEMMA RunIs ==
    ASSUME TypeInv, RunMain
    PROVE  /\ UNCHANGED <<current, around, view, page, approved, node>> /\ main # <<>>
           /\ main[1] \in Blk /\ main[1].id \in Ids /\ 1 \in 1..Len(main)
           /\ \/ TellStep(main[1]) \/ LostStep(main[1]) \/ DialogStep(main[1])
              \/ GrantStep(main[1])
<1>1. UNCHANGED <<current, around, view, page, approved, node>> /\ main # <<>>
  BY DEF RunMain
<1>2. Head(main) = main[1] /\ main[1] \in Blk /\ main[1].id \in Ids /\ 1 \in 1..Len(main)
  <2>1. main \in Seq(Blk)
    BY DEF TypeInv
  <2>2. Len(main) \in Nat \ {0}
    BY <1>1, <2>1, EmptySeq, LenProperties
  <2>3. Head(main) = main[1] /\ 1 \in 1..Len(main)
    BY <2>1, <2>2
  <2>. QED
    BY <2>3, ReqIs
<1>3. main[1].kind \in Blocks
  BY <1>2 DEF Blk
<1>4. CASE main[1].kind \in {"result", "error"}
  <2>1. Evaluate(main[1])
    BY <1>2, <1>4 DEF RunMain
  <2>. QED
    BY <1>1, <1>2, <1>4, <2>1, EvaluateIs
<1>5. CASE main[1].kind \in {"sign", "password"}
  <2>1. Overlay(main[1])
    BY <1>2, <1>5 DEF RunMain
  <2>. QED
    BY <1>1, <1>2, <1>5, <2>1, OverlayIs DEF Asks
<1>6. CASE main[1].kind = "allow" /\ ~approved
  <2>1. Overlay(main[1])
    BY <1>2, <1>6 DEF RunMain, Allow
  <2>. QED
    BY <1>1, <1>2, <1>6, <2>1, OverlayIs DEF Asks
<1>7. CASE main[1].kind = "allow" /\ approved
  <2>. DEFINE c == [main[1] EXCEPT !.kind = "result"]
  <2>1. /\ Goto(main[1].id, "done") /\ main' = Append(Tail(main), c)
        /\ UNCHANGED <<known, dialogs, trapped>>
    BY <1>2, <1>7 DEF RunMain, Allow
  <2>2. c \in Blk /\ c.kind = "result" /\ c.id = main[1].id
    BY <1>2 DEF Blk, Blocks
  <2>. HIDE DEF c
  <2>3. Moves(main, main', 1, <<c>>)
    BY <1>1, <2>1, <2>2, TailPostIs
  <2>4. Turned(main[1].id, As(main[1].id, "done"))
    BY <1>2, <2>1, GotoIs DEF Pcs
  <2>5. GrantStep(main[1])
    BY <1>7, <2>1, <2>2, <2>3, <2>4 DEF GrantStep
  <2>. QED
    BY <1>1, <1>2, <2>5
<1>. QED
  BY <1>3, <1>4, <1>5, <1>6, <1>7 DEF Blocks

(* A request that comes in                                                 *)
NewStep(added) ==
    LET i == Len(requests) + 1
    IN /\ requests' \in Seq(Req) /\ Len(requests') = Len(requests) + 1 /\ Len(requests') <= MaxRequest
       /\ \A j \in Ids : requests'[j] = requests[j]
       /\ requests'[i].page = page /\ requests'[i].told = "nothing"
       /\ requests'[i].pc \in {"main", "call"}
       /\ \/ requests'[i].from \in {None, current} \/ "behind" \in requests'[i].causes
       /\ added \in Seq(Blk) /\ Moves(main, main', 0, added)
       /\ \/ added = <<>>
          \/ \E b \in Blk : /\ added = <<b>> /\ b.id = i /\ b.kind \in {"allow", "sign"}
                            /\ requests'[i].pc = "main"
                            /\ b.kind = "sign" => requests'[i].kind \in {"transaction", "typed"}

(* The request that comes in is typed, new and of the page shown; if it    *)
(* names an address other than the one in use, it is known to be behind.   *)
LEMMA AskIs ==
    ASSUME TypeInv, NEW kind \in Kinds, NEW from \in Someone, Ask(kind, from)
    PROVE  LET i == Len(requests) + 1
           IN /\ requests' \in Seq(Req) /\ Len(requests') = Len(requests) + 1 /\ Len(requests') <= MaxRequest
              /\ \A j \in Ids : requests'[j] = requests[j]
              /\ requests'[i].page = page /\ requests'[i].told = "nothing"
              /\ requests'[i].pc = IF kind = "call" THEN "call" ELSE "main"
              /\ requests'[i].kind = kind
              /\ \/ requests'[i].from \in {None, current} \/ "behind" \in requests'[i].causes
              /\ i \in 1..MaxRequest
<1>. DEFINE r == Request(kind, from)
            n == Len(requests)
<1>1. requests \in Seq(Req) /\ n \in Nat /\ Ids = 1..n /\ n < MaxRequest /\ MaxRequest \in Nat
  BY ReqIs, BoundAssumption DEF TypeInv, Ask
<1>2. page \in Nat /\ current \in Wallet
  BY BoundAssumption DEF TypeInv, TypeOK
<1>3. /\ r \in Req /\ r.kind = kind /\ r.from = from /\ r.page = page /\ r.told = "nothing"
      /\ r.pc = (IF kind = "call" THEN "call" ELSE "main")
      /\ r.causes = IF from \in Wallet \ {current} THEN {"behind"} ELSE {}
  BY <1>1, <1>2 DEF Request, Req, Pcs, Told, Causes, Someone
<1>4. requests' = Append(requests, r)
  BY DEF Ask
<1>. HIDE DEF r
<1>5. /\ requests' \in Seq(Req) /\ Len(requests') = n + 1
      /\ (\A j \in 1..n : requests'[j] = requests[j]) /\ requests'[n + 1] = r
  BY <1>1, <1>3, <1>4, AppendProperties
<1>6. r.from \in {None, current} \/ "behind" \in r.causes
  BY <1>3 DEF Someone
<1>. QED
  BY <1>1, <1>3, <1>5, <1>6

(* Each request of the page comes in so.                                   *)
LEMMA ProcessIs ==
    ASSUME TypeInv, ProcessRequest
    PROVE  /\ UNCHANGED <<current, around, view, page, known, dialogs, approved, trapped, node>>
           /\ \E added \in Seq(Blk) : NewStep(added)
<1>1. UNCHANGED <<current, around, view, page, known, dialogs, approved, trapped, node>>
  BY DEF ProcessRequest
<1>2. /\ None \in Someone /\ known \in Someone /\ current \in Someone
      /\ "accounts" \in Kinds /\ "transaction" \in Kinds /\ "typed" \in Kinds /\ "call" \in Kinds
  BY DEF TypeInv, TypeOK, Someone, Kinds
<1>. DEFINE i == Len(requests) + 1
<1>3. CASE ApproveAddressAccess
  <2>. DEFINE b == [kind |-> "allow", id |-> i, address |-> current]
  <2>1. Ask("accounts", None) /\ main' = Append(main, b)
    BY <1>3 DEF ApproveAddressAccess, Post
  <2>2. i \in 1..MaxRequest /\ requests'[i].pc = "main"
    BY <1>2, <2>1, AskIs
  <2>3. b \in Blk /\ b.id = i /\ b.kind = "allow"
    BY <1>2, <2>2 DEF Blk, Blocks
  <2>. HIDE DEF b
  <2>4. Moves(main, main', 0, <<b>>) /\ <<b>> \in Seq(Blk)
    BY <2>1, <2>3, PostIs
  <2>5. NewStep(<<b>>)
    BY <1>2, <2>1, <2>2, <2>3, <2>4, AskIs DEF NewStep
  <2>. QED
    BY <1>1, <2>4, <2>5
<1>4. ASSUME NEW kind \in {"transaction", "typed"}, NEW from \in Someone,
             GetPasswordToSign(kind, from)
      PROVE  \E added \in Seq(Blk) : NewStep(added)
  <2>. DEFINE b == Block("sign", i)
  <2>1. Ask(kind, from) /\ main' = Append(main, b) /\ kind \in Kinds
    BY <1>2, <1>4 DEF GetPasswordToSign, Post
  <2>2. i \in 1..MaxRequest /\ requests'[i].pc = "main" /\ requests'[i].kind = kind
    BY <2>1, AskIs
  <2>3. b \in Blk /\ b.id = i /\ b.kind = "sign"
    BY <1>2, <2>2 DEF Blk, Blocks, Block
  <2>. HIDE DEF b
  <2>4. Moves(main, main', 0, <<b>>) /\ <<b>> \in Seq(Blk)
    BY <2>1, <2>3, PostIs
  <2>5. NewStep(<<b>>)
    BY <2>1, <2>2, <2>3, <2>4, AskIs DEF NewStep
  <2>. QED
    BY <2>4, <2>5
<1>5. CASE RpcPassingThrough
  <2>1. Ask("call", None) /\ UNCHANGED main
    BY <1>5 DEF RpcPassingThrough
  <2>2. Moves(main, main', 0, <<>>) /\ <<>> \in Seq(Blk)
    BY <2>1, QuietIs
  <2>3. NewStep(<<>>)
    BY <1>2, <2>1, <2>2, AskIs DEF NewStep
  <2>. QED
    BY <1>1, <2>2, <2>3
<1>. QED
  BY <1>1, <1>2, <1>3, <1>4, <1>5 DEF ProcessRequest

(* The other steps keep one block and one dialog.                          *)
LEMMA PasswordKeeps ==
    ASSUME TypeInv, OneMain, OneDialog, KindsFit, NEW i, NEW added, PasswordStep(i, added)
    PROVE  OneMain' /\ OneDialog'
<1>1. /\ \A j \in Ids : requests'[j].kind = requests[j].kind /\ (j # i => requests'[j].pc = requests[j].pc)
      /\ requests'[i].pc = "main" /\ i \in Ids /\ requests[i].pc = "keychain"
      /\ requests[i].kind \in {"transaction", "typed"}
  BY DEF PasswordStep, Turned, As, KindsFit
<1>2. OneMain'
  <2>1. \A m \in 1..Len(main) : m > 0 /\ main[m].kind \in Asks =>
               /\ requests'[main[m].id].pc = "main" /\ main[m].id # i
               /\ requests'[main[m].id].kind = requests[main[m].id].kind
    BY <1>1, ReqIs DEF OneMain
  <2>2. Moves(main, main', 0, added)
    BY DEF PasswordStep
  <2>3. /\ Len(added) \in Nat
        /\ \A a \in 1..Len(added) : added[a].kind \in Asks =>
               a = Len(added) /\ added[a].id = i
    <3>1. CASE added = <<Block("password", i)>>
      BY <3>1 DEF Block, Asks
    <3>2. CASE added = <<Block("error", i), Block("password", i)>>
      BY <3>2 DEF Block, Asks
    <3>. QED
      BY <3>1, <3>2 DEF PasswordStep
  <2>4. \A a \in 1..Len(added) : added[a].kind \in Asks =>
               /\ requests'[added[a].id].pc = "main"
               /\ added[a].kind # "allow" => requests'[added[a].id].kind \in {"transaction", "typed"}
               /\ \A b \in 1..Len(added) : added[b].kind \in Asks => b = a
               /\ \A m \in 1..Len(main) : m > 0 /\ main[m].kind \in Asks => main[m].id # added[a].id
    BY <1>1, <2>1, <2>3
  <2>. QED
    BY <2>1, <2>2, <2>3, <2>4, MainKept
<1>3. OneDialog'
  BY <1>1, ReqIs DEF OneDialog, PasswordStep
<1>. QED
  BY <1>2, <1>3

(* The blocks of the main queue                                            *)
LEMMA TellKeeps ==
    ASSUME TypeInv, OneMain, OneDialog, main # <<>>, main[1].id \in Ids, TellStep(main[1])
    PROVE  OneMain' /\ OneDialog'
<1>1. \A j \in Ids : requests'[j].kind = requests[j].kind /\ requests'[j].pc = requests[j].pc
  BY DEF TellStep, Turned, As
<1>2. OneMain'
  <2>1. \A m \in 1..Len(main) : m > 1 /\ main[m].kind \in Asks =>
               /\ requests'[main[m].id].pc = "main"
               /\ requests'[main[m].id].kind = requests[main[m].id].kind
    BY <1>1, ReqIs DEF OneMain
  <2>2. Moves(main, main', 1, <<>>)
    BY DEF TellStep
  <2>. QED
    BY <2>1, <2>2, MainKept
<1>3. OneDialog'
  BY <1>1, ReqIs DEF OneDialog, TellStep
<1>. QED
  BY <1>2, <1>3

LEMMA LostKeeps ==
    ASSUME TypeInv, OneMain, OneDialog, LostStep(main[1])
    PROVE  OneMain' /\ OneDialog'
<1>1. OneMain'
  <2>1. \A m \in 1..Len(main) : m > 1 /\ main[m].kind \in Asks =>
               /\ requests'[main[m].id].pc = "main"
               /\ requests'[main[m].id].kind = requests[main[m].id].kind
    BY DEF OneMain, LostStep
  <2>2. Moves(main, main', 1, <<>>)
    BY DEF LostStep
  <2>. QED
    BY <2>1, <2>2, MainKept
<1>2. OneDialog'
  BY DEF OneDialog, LostStep
<1>. QED
  BY <1>1, <1>2

(* A block that asks is run: no other block or dialog is for its request.  *)
LEMMA FirstIs ==
    ASSUME TypeInv, OneMain, OneDialog, 1 \in 1..Len(main), main[1].kind \in Asks,
           NEW pc, Turned(main[1].id, As(main[1].id, pc))
    PROVE  /\ main[1].id \in Ids /\ requests[main[1].id].pc = "main" /\ requests'[main[1].id].pc = pc
           /\ main[1].kind # "allow" => requests'[main[1].id].kind \in {"transaction", "typed"}
           /\ \A m \in 1..Len(main) : m > 1 /\ main[m].kind \in Asks =>
                 /\ requests'[main[m].id].pc = "main"
                 /\ requests'[main[m].id].kind = requests[main[m].id].kind
           /\ \A m \in 1..Len(dialogs) :
                 /\ dialogs[m].id # main[1].id
                 /\ requests'[dialogs[m].id].pc = requests[dialogs[m].id].pc
                 /\ requests'[dialogs[m].id].kind = requests[dialogs[m].id].kind
<1>1. /\ main[1].id \in Ids /\ requests[main[1].id].pc = "main"
      /\ main[1].kind # "allow" => requests[main[1].id].kind \in {"transaction", "typed"}
  BY ReqIs DEF OneMain
<1>2. /\ \A j \in Ids : requests'[j].kind = requests[j].kind
      /\ \A j \in Ids : j # main[1].id => requests'[j].pc = requests[j].pc
      /\ requests'[main[1].id].pc = pc
  BY <1>1 DEF Turned, As
<1>3. \A m \in 1..Len(main) : m > 1 /\ main[m].kind \in Asks => main[m].id # main[1].id /\ main[m].id \in Ids
  BY ReqIs DEF OneMain
<1>4. \A m \in 1..Len(main) : m > 1 /\ main[m].kind \in Asks =>
                 /\ requests'[main[m].id].pc = "main"
                 /\ requests'[main[m].id].kind = requests[main[m].id].kind
  BY <1>2, <1>3 DEF OneMain
<1>5. \A m \in 1..Len(dialogs) : dialogs[m].id # main[1].id /\ dialogs[m].id \in Ids
  BY <1>1, ReqIs DEF OneDialog
<1>. QED
  BY <1>1, <1>2, <1>4, <1>5

LEMMA DialogKeeps ==
    ASSUME TypeInv, OneMain, OneDialog, 1 \in 1..Len(main), DialogStep(main[1])
    PROVE  OneMain' /\ OneDialog'
<1>. DEFINE i == main[1].id
<1>0. Turned(i, As(i, "dialog")) /\ main[1].kind \in Asks /\ main[1] \in Blk
  BY ReqIs DEF DialogStep
<1>1. /\ i \in Ids /\ requests[i].pc = "main" /\ requests'[i].pc = "dialog"
      /\ main[1].kind # "allow" => requests'[i].kind \in {"transaction", "typed"}
      /\ \A m \in 1..Len(main) : m > 1 /\ main[m].kind \in Asks =>
            /\ requests'[main[m].id].pc = "main"
            /\ requests'[main[m].id].kind = requests[main[m].id].kind
      /\ \A m \in 1..Len(dialogs) :
            /\ dialogs[m].id # i
            /\ requests'[dialogs[m].id].pc = requests[dialogs[m].id].pc
            /\ requests'[dialogs[m].id].kind = requests[dialogs[m].id].kind
  BY <1>0, FirstIs
<1>2. OneMain'
  <2>1. Moves(main, main', 1, <<>>)
    BY DEF DialogStep
  <2>. QED
    BY <1>1, <2>1, MainKept
<1>3. OneDialog'
  <2>1. /\ dialogs \in Seq(Blk) /\ dialogs' = Append(dialogs, main[1])
    BY DEF DialogStep, TypeInv
  <2>2. /\ Len(dialogs) \in Nat /\ Len(dialogs') = Len(dialogs) + 1
        /\ (\A m \in 1..Len(dialogs) : dialogs'[m] = dialogs[m])
        /\ dialogs'[Len(dialogs) + 1] = main[1]
    BY <1>0, <2>1, AppendProperties
  <2>3. ASSUME NEW m \in 1..Len(dialogs')
        PROVE  \/ m \in 1..Len(dialogs) /\ dialogs'[m] = dialogs[m]
               \/ m = Len(dialogs) + 1 /\ dialogs'[m] = main[1]
    BY <2>2
  <2>4. ASSUME NEW m \in 1..Len(dialogs')
        PROVE  /\ dialogs'[m].kind \in Asks /\ requests'[dialogs'[m].id].pc = "dialog"
               /\ dialogs'[m].kind # "allow" => requests'[dialogs'[m].id].kind \in {"transaction", "typed"}
    BY <1>0, <1>1, <2>3 DEF OneDialog
  <2>5. ASSUME NEW m \in 1..Len(dialogs'), NEW n \in 1..Len(dialogs'), dialogs'[n].id = dialogs'[m].id
        PROVE  n = m
    BY <1>1, <2>3, <2>5 DEF OneDialog
  <2>. QED
    BY <2>4, <2>5 DEF OneDialog
<1>. QED
  BY <1>2, <1>3

LEMMA GrantKeeps ==
    ASSUME TypeInv, OneMain, OneDialog, 1 \in 1..Len(main), GrantStep(main[1])
    PROVE  OneMain' /\ OneDialog'
<1>. DEFINE i == main[1].id
<1>0. Turned(i, As(i, "done")) /\ main[1].kind \in Asks /\ UNCHANGED dialogs
  BY DEF GrantStep, Asks
<1>1. /\ \A m \in 1..Len(main) : m > 1 /\ main[m].kind \in Asks =>
            /\ requests'[main[m].id].pc = "main"
            /\ requests'[main[m].id].kind = requests[main[m].id].kind
      /\ \A m \in 1..Len(dialogs) :
            /\ requests'[dialogs[m].id].pc = requests[dialogs[m].id].pc
            /\ requests'[dialogs[m].id].kind = requests[dialogs[m].id].kind
  BY <1>0, FirstIs
<1>2. OneMain'
  <2>1. PICK c \in Blk : c.kind = "result" /\ Moves(main, main', 1, <<c>>)
    BY DEF GrantStep
  <2>2. Len(<<c>>) \in Nat /\ \A a \in 1..Len(<<c>>) : <<c>>[a].kind \notin Asks
    BY <2>1 DEF Asks
  <2>. QED
    BY <1>1, <2>1, <2>2, MainKept
<1>3. OneDialog'
  BY <1>0, <1>1 DEF OneDialog
<1>. QED
  BY <1>2, <1>3

(* A new request has no other block.                                       *)
LEMMA NewKeeps ==
    ASSUME TypeInv, OneMain, OneDialog, NEW added, NewStep(added), UNCHANGED dialogs
    PROVE  OneMain' /\ OneDialog'
<1>1. /\ \A m \in 1..Len(main) : requests'[main[m].id] = requests[main[m].id] /\ main[m].id # Len(requests) + 1
      /\ \A m \in 1..Len(dialogs) : requests'[dialogs[m].id] = requests[dialogs[m].id]
  BY ReqIs DEF NewStep
<1>2. OneMain'
  <2>1. Moves(main, main', 0, added) /\ added \in Seq(Blk) /\ Len(added) \in Nat
    BY DEF NewStep
  <2>2. \A a \in 1..Len(added) : added[a].kind \in Asks =>
               /\ requests'[added[a].id].pc = "main" /\ added[a].id = Len(requests) + 1
               /\ added[a].kind # "allow" => requests'[added[a].id].kind \in {"transaction", "typed"}
               /\ \A b \in 1..Len(added) : added[b].kind \in Asks => b = a
    <3>1. CASE added = <<>>
      BY <3>1
    <3>2. CASE added # <<>>
      <4>1. PICK b \in Blk : /\ added = <<b>> /\ b.id = Len(requests) + 1 /\ b.kind \in {"allow", "sign"}
                             /\ requests'[b.id].pc = "main"
                             /\ b.kind = "sign" => requests'[b.id].kind \in {"transaction", "typed"}
        BY <3>2 DEF NewStep
      <4>. QED
        BY <4>1
    <3>. QED
      BY <3>1, <3>2
  <2>3. \A m \in 1..Len(main) : m > 0 /\ main[m].kind \in Asks =>
               /\ requests'[main[m].id].pc = "main"
               /\ requests'[main[m].id].kind = requests[main[m].id].kind
    BY <1>1 DEF OneMain
  <2>4. \A a \in 1..Len(added) : added[a].kind \in Asks =>
               \A m \in 1..Len(main) : m > 0 /\ main[m].kind \in Asks => main[m].id # added[a].id
    BY <1>1, <2>2
  <2>. QED
    BY <2>1, <2>2, <2>3, <2>4, MainKept
<1>3. OneDialog'
  BY <1>1 DEF OneDialog
<1>. QED
  BY <1>2, <1>3

(* Loading, moving, and what the node executes                             *)
LEMMA ExecuteIs ==
    ASSUME TypeInv, NEW w \in Wallet, Execute(w)
    PROVE  /\ OtherStep /\ UNCHANGED <<rest, requests, pool, main, dialogs>>
           /\ executed' = [executed EXCEPT ![w] = @ + 1]
           /\ \E i \in pool : requests[i].signer = w /\ requests[i].nonce = executed[w]
BY StillIs DEF Execute, rest, OtherStep

(* Loading a page, leaving it and coming back turn no request.             *)
LEMMA PageIs ==
    ASSUME TypeInv, Load \/ OpenLink \/ ViewWillAppear \/ PopViewController
    PROVE  /\ OtherStep /\ UNCHANGED <<current, around, requests, main, approved, trapped, node>>
           /\ page' \in {page, page + 1} /\ (page' = page \/ page + switches < MaxChange)
           /\ known' \in {known, None} /\ view' \in {view, "shown", "away", "gone"}
<1>1. UNCHANGED requests /\ \A new : Turned(0, new)
  BY StillIs DEF Load, OpenLink, ViewWillAppear, PopViewController
<1>2. CASE Load
  BY <1>1, <1>2 DEF Load, OtherStep
<1>3. CASE OpenLink \/ ViewWillAppear
  BY <1>1, <1>3 DEF OpenLink, ViewWillAppear, OtherStep
<1>4. CASE PopViewController
  BY <1>1, <1>4 DEF PopViewController, Close, OtherStep
<1>. QED
  BY <1>2, <1>3, <1>4

(* A change of the wallet, in another tab or by recovering one             *)
LEMMA SwitchIs ==
    ASSUME TypeInv, SwitchWallet \/ Recover
    PROVE  /\ OtherStep /\ UNCHANGED <<stale, page, known, main, approved, trapped, node>>
           /\ current' \in Wallet /\ switches' = switches + 1 /\ page + switches < MaxChange
           /\ view' \in {view, "gone"} /\ \A j \in Ids : "switched" \in requests'[j].causes
<1>1. PICK w \in Wallet : Change(w)
  BY DEF SwitchWallet, Recover
<1>2. (\A new : Turned(0, new)) /\ \A j \in Ids : "switched" \in requests'[j].causes
  BY <1>1, ChangeIs
<1>3. current' = w /\ switches' = switches + 1 /\ page + switches < MaxChange
  BY <1>1 DEF Change
<1>4. CASE SwitchWallet
  BY <1>2, <1>3, <1>4 DEF SwitchWallet, OtherStep
<1>5. CASE Recover
  BY <1>2, <1>3, <1>5 DEF Recover, Close, OtherStep
<1>. QED
  BY <1>4, <1>5

-----------------------------------------------------------------------------
(* The course of a request                                                 *)

(* The turns of a request that step makes: to a place where nothing is     *)
(* signed, an answer heard, the wallet opened, the sender set, the number  *)
(* set, on to the next question, given up, and sent.                       *)
Signable == {"transaction", "typed"}
Turn(i, new) == i \in Ids /\ Turned(i, new) /\ UNCHANGED <<current, executed>>

Stops(i) ==
    /\ UNCHANGED pool /\ requests[i].pc \notin {"submit", "done"}
    /\ \E pc \in {"main", "dialog", "keychain", "forgotten", "done"} :
          Turn(i, As(i, pc)) /\ (pc = "keychain" => requests[i].kind \in Signable)
Hearing(i) == UNCHANGED pool /\ \E told : Turn(i, [As(i, requests[i].pc) EXCEPT !.told = told])
Opens(i) ==
    /\ UNCHANGED pool /\ requests[i].pc \in {"dialog", "keychain"} /\ requests[i].kind \in Signable
    /\ Unlocked(i) /\ Turn(i, [As(i, "begin") EXCEPT !.signer = current])
Begins(i) ==
    /\ UNCHANGED pool /\ requests[i].pc = "begin" /\ requests[i].kind # "typed"
    /\ Turn(i, [As(i, "epoch") EXCEPT !.from = IF @ = None THEN current ELSE @])
Counts(i) ==
    /\ UNCHANGED pool /\ requests[i].pc = "nonce"
    /\ Turn(i, [As(i, "estimate") EXCEPT !.nonce = executed[requests[i].from]])
GoesOn(i) ==
    /\ UNCHANGED pool
    /\ \/ requests[i].pc = "epoch" /\ Turn(i, As(i, "nonce"))
       \/ requests[i].pc = "estimate" /\ Turn(i, As(i, "submit"))
Fails(i) ==
    /\ UNCHANGED pool /\ requests[i].pc = "submit" /\ Turn(i, As(i, "done"))
    /\ "cut" \in requests'[i].causes \/ ~Taken(i)
Sends(i) == pool' = pool \cup {i} /\ requests[i].pc = "submit" /\ Turn(i, As(i, "done"))

Goes(i) == \/ Stops(i) \/ Hearing(i) \/ Opens(i) \/ Begins(i) \/ Counts(i) \/ GoesOn(i) \/ Fails(i)
           \/ Sends(i)
Comes == \E added \in Seq(Blk) : NewStep(added) /\ UNCHANGED <<current, node, dialogs>>
Still == UNCHANGED <<current, node>> /\ \A new : Turned(0, new)
Switched ==
    /\ UNCHANGED node /\ current' \in Wallet /\ \A new : Turned(0, new)
    /\ \A j \in Ids : "switched" \in requests'[j].causes

Course == \/ (\E i \in Ids : Goes(i)) \/ Comes \/ Still \/ Switched
          \/ \E w \in Wallet : Execute(w)

(* An answer ends the course.                                              *)
LEMMA EndGoes ==
    ASSUME NEW i \in Ids, NEW value, EndStep(i, value), UNCHANGED <<rest, node>>,
           requests[i].pc \notin {"submit", "done"}
    PROVE  Stops(i)
<1>1. Turn(i, As(i, "done"))
  BY DEF EndStep, WorkStep, Turn, rest, node
<1>. QED
  BY <1>1 DEF Stops, node

(* Each step at work is a turn.                                            *)
LEMMA SignGoes ==
    ASSUME TypeInv, KindsFit, NEW i \in Ids, Sign(i)
    PROVE  Goes(i)
<1>1. CASE Keychain(i)
  <2>1. requests[i].pc = "keychain" /\ UNCHANGED <<rest, node>> /\ requests[i].kind \in Signable
    BY <1>1, KeychainIs DEF KindsFit, Signable
  <2>2. CASE \E added \in Seq(Blk) : PasswordStep(i, added)
    <3>1. Turn(i, As(i, "main"))
      BY <2>1, <2>2 DEF PasswordStep, Turn, rest, node
    <3>. QED
      BY <2>1, <3>1 DEF Stops, Goes, node
  <2>3. CASE Unlocked(i) /\ WorkStep(i, [As(i, "begin") EXCEPT !.signer = current], <<>>)
    BY <2>1, <2>3 DEF WorkStep, Turn, Opens, Goes, rest, node
  <2>. QED
    BY <1>1, <2>2, <2>3, KeychainIs
<1>2. CASE Begin(i)
  <2>1. requests[i].pc = "begin" /\ UNCHANGED <<rest, node>>
    BY <1>2, BeginIs
  <2>2. CASE \E value \in {"result", "error"} : EndStep(i, value)
    BY <2>1, <2>2, EndGoes DEF Goes
  <2>3. CASE /\ requests[i].kind # "typed"
             /\ WorkStep(i, [As(i, "epoch") EXCEPT !.from = IF @ = None THEN current ELSE @], <<>>)
    BY <2>1, <2>3 DEF WorkStep, Turn, Begins, Goes, rest, node
  <2>. QED
    BY <1>2, <2>2, <2>3, BeginIs
<1>3. CASE EpochArrived(i)
  <2>1. requests[i].pc = "epoch" /\ UNCHANGED <<rest, node>>
    BY <1>3, EpochIs
  <2>2. CASE EndStep(i, "error")
    BY <2>1, <2>2, EndGoes DEF Goes
  <2>3. CASE WorkStep(i, As(i, "nonce"), <<>>)
    BY <2>1, <2>3 DEF WorkStep, Turn, GoesOn, Goes, rest, node
  <2>. QED
    BY <1>3, <2>2, <2>3, EpochIs
<1>4. CASE NonceArrived(i)
  <2>1. requests[i].pc = "nonce" /\ UNCHANGED <<rest, node>>
    BY <1>4, NonceIs
  <2>2. CASE EndStep(i, "error")
    BY <2>1, <2>2, EndGoes DEF Goes
  <2>3. CASE WorkStep(i, [As(i, "estimate") EXCEPT !.nonce = executed[requests[i].from]], <<>>)
    BY <2>1, <2>3 DEF WorkStep, Turn, Counts, Goes, rest, node
  <2>. QED
    BY <1>4, <2>2, <2>3, NonceIs
<1>5. CASE EstimateArrived(i)
  <2>1. requests[i].pc = "estimate" /\ UNCHANGED <<rest, node>>
    BY <1>5, EstimateIs
  <2>2. CASE EndStep(i, "error")
    BY <2>1, <2>2, EndGoes DEF Goes
  <2>3. CASE WorkStep(i, As(i, "submit"), <<>>)
    BY <2>1, <2>3 DEF WorkStep, Turn, GoesOn, Goes, rest, node
  <2>. QED
    BY <1>5, <2>2, <2>3, EstimateIs
<1>6. CASE Submitted(i)
  <2>1. requests[i].pc = "submit" /\ UNCHANGED <<rest, executed>>
    BY <1>6, SubmittedIs
  <2>2. \/ \E value : EndStep(i, value) /\ pool' = pool \cup {i}
        \/ /\ \E value : EndStep(i, value) /\ UNCHANGED pool
           /\ "cut" \in requests'[i].causes \/ ~Taken(i)
    BY <1>6, SubmittedIs
  <2>3. ASSUME NEW value, EndStep(i, value)
        PROVE  Turn(i, As(i, "done"))
    BY <2>1, <2>3 DEF EndStep, WorkStep, Turn, rest
  <2>. QED
    BY <2>1, <2>2, <2>3 DEF Fails, Sends, Goes
<1>7. CASE CallArrived(i)
  BY <1>7, CallIs, EndGoes DEF Goes
<1>. QED
  BY <1>1, <1>2, <1>3, <1>4, <1>5, <1>6, <1>7 DEF Sign

(* Each answer of the user is a turn.                                      *)
LEMMA ReplyGoes ==
    ASSUME TypeInv, OneDialog, NEW pc \in {"keychain", "forgotten", "done"}, NEW added,
           ReplyStep(Top.id, As(Top.id, pc), added), pc = "keychain" => Top.kind # "allow",
           UNCHANGED <<current, node>>
    PROVE  Stops(Top.id) /\ Top.id \in Ids
<1>1. /\ Top.id \in Ids /\ requests[Top.id].pc = "dialog"
      /\ pc = "keychain" => requests[Top.id].kind \in Signable
  BY FrontIs DEF ReplyStep, OneDialog, Signable
<1>2. Turn(Top.id, As(Top.id, pc))
  BY <1>1 DEF ReplyStep, Turn, node
<1>. QED
  BY <1>1, <1>2 DEF Stops, node

LEMMA DialogGoes ==
    ASSUME TypeInv, OneDialog, Dialog
    PROVE  \E i \in Ids : Goes(i)
<1>1. ASSUME NEW yes \in BOOLEAN, AnswerAllow(yes)
      PROVE  Stops(Top.id) /\ Top.id \in Ids
  BY <1>1, AllowIs, ReplyGoes
<1>2. CASE ConfirmSign
  <2>1. Top.kind # "allow" /\ ReplyStep(Top.id, As(Top.id, "keychain"), <<>>) /\ UNCHANGED <<current, node>>
    BY <1>2, ConfirmIs DEF rest
  <2>. QED
    BY <2>1, ReplyGoes DEF Goes
<1>3. CASE RefuseSign \/ WrongPassword
  <2>1. ReplyStep(Top.id, As(Top.id, "done"), <<Block("error", Top.id)>>) /\ UNCHANGED <<current, node>>
    BY <1>3, RefuseIs DEF EndReply, rest
  <2>. QED
    BY <2>1, ReplyGoes DEF Goes
<1>4. CASE EnterPassword
  <2>1. /\ UNCHANGED <<rest, node>> /\ dialogs # <<>> /\ Top.kind = "password" /\ Unlocked(Top.id)
        /\ ReplyStep(Top.id, [As(Top.id, "begin") EXCEPT !.signer = current], <<>>)
    BY <1>4, EnterIs
  <2>2. Top.id \in Ids /\ requests[Top.id].pc = "dialog" /\ requests[Top.id].kind \in Signable
    BY <2>1, FrontIs DEF ReplyStep, OneDialog, Signable
  <2>3. Opens(Top.id)
    BY <2>1, <2>2 DEF Opens, Turn, ReplyStep, rest, node
  <2>. QED
    BY <2>2, <2>3 DEF Goes
<1>5. CASE ForgetPassword
  <2>1. ReplyStep(Top.id, As(Top.id, "forgotten"), <<>>) /\ UNCHANGED <<current, node>>
    BY <1>5, ForgetIs
  <2>. QED
    BY <2>1, ReplyGoes DEF Goes
<1>. QED
  BY <1>1, <1>2, <1>3, <1>4, <1>5 DEF Dialog, Goes

(* Each block that runs is a turn, or its page is gone.                    *)
LEMMA RunGoes ==
    ASSUME TypeInv, OneMain, RunMain
    PROVE  Still \/ \E i \in Ids : Goes(i)
<1>1. /\ UNCHANGED <<current, node>> /\ main[1].id \in Ids /\ 1 \in 1..Len(main)
      /\ TellStep(main[1]) \/ LostStep(main[1]) \/ DialogStep(main[1]) \/ GrantStep(main[1])
  BY RunIs
<1>2. main[1].kind \in Asks => requests[main[1].id].pc = "main"
  BY <1>1 DEF OneMain
<1>3. CASE TellStep(main[1])
  BY <1>1, <1>3 DEF TellStep, Hearing, Goes, Turn, node
<1>4. CASE LostStep(main[1])
  BY <1>1, <1>4, StillIs DEF LostStep, Still
<1>5. CASE DialogStep(main[1])
  <2>1. Turn(main[1].id, As(main[1].id, "dialog")) /\ requests[main[1].id].pc = "main"
    BY <1>1, <1>2, <1>5 DEF DialogStep, Turn, node
  <2>. QED
    BY <1>1, <2>1 DEF Stops, Goes, node
<1>6. CASE GrantStep(main[1])
  <2>1. Turn(main[1].id, As(main[1].id, "done")) /\ requests[main[1].id].pc = "main"
    BY <1>1, <1>2, <1>6 DEF GrantStep, Turn, node, Asks
  <2>. QED
    BY <1>1, <2>1 DEF Stops, Goes, node
<1>. QED
  BY <1>1, <1>3, <1>4, <1>5, <1>6

(* Every step of the specification is a turn of one request, a new         *)
(* request, a change of the wallet, an execution by the node, or none.     *)
LEMMA CourseIs ==
    ASSUME TypeInv, OneMain, OneDialog, KindsFit, [Next]_vars
    PROVE  Course
<1>1. CASE ProcessRequest
  BY <1>1, ProcessIs DEF Comes, Course
<1>2. CASE Load \/ OpenLink \/ ViewWillAppear \/ PopViewController
  BY <1>2, PageIs DEF OtherStep, Still, Course
<1>3. CASE SwitchWallet \/ Recover
  BY <1>3, SwitchIs DEF OtherStep, Switched, Course
<1>4. CASE RunMain
  BY <1>4, RunGoes DEF Course
<1>5. CASE Dialog
  BY <1>5, DialogGoes DEF Course
<1>6. ASSUME NEW i \in Ids, Sign(i)
      PROVE  Course
  BY <1>6, SignGoes DEF Course
<1>7. CASE UNCHANGED vars
  BY <1>7, StillIs DEF vars, Still, Course
<1>. QED
  BY <1>1, <1>2, <1>3, <1>4, <1>5, <1>6, <1>7 DEF Next, Move, Course

-----------------------------------------------------------------------------
(* Types                                                                   *)

(* The types in parts                                                      *)
Places == /\ current \in Wallet /\ stale \subseteq Wallet
          /\ view \in {"shown", "away", "import", "gone"} /\ page \in 0..MaxChange
          /\ known \in Someone /\ {approved, trapped} \subseteq BOOLEAN /\ switches \in 0..MaxChange
Arrived == requests \in Seq(Req) /\ Len(requests) <= MaxRequest /\ \A i \in Ids : requests[i].page <= page
Waiting == /\ main \in Seq(Blk) /\ \A m \in 1..Len(main) : main[m].id \in Ids
           /\ dialogs \in Seq(Blk) /\ \A m \in 1..Len(dialogs) : dialogs[m].id \in Ids
Nodes == pool \subseteq Ids /\ executed \in [Wallet -> 0..MaxRequest]

LEMMA ReqTypeParts == TypeInv <=> Places /\ Arrived /\ Waiting /\ Nodes
<1>1. TypeInv => Places /\ Arrived /\ Waiting /\ Nodes
  <2>. SUFFICES ASSUME TypeInv PROVE Places /\ Arrived /\ Waiting /\ Nodes
    OBVIOUS
  <2>1. Places /\ Nodes
    BY DEF TypeInv, TypeOK, Places, Nodes, Someone, Ids
  <2>2. Arrived
    BY DEF TypeInv, TypeOK, Arrived
  <2>3. Waiting
    BY ReqIs DEF TypeInv, Waiting
  <2>. QED
    BY <2>1, <2>2, <2>3
<1>2. Places /\ Arrived /\ Waiting /\ Nodes => TypeInv
  <2>. SUFFICES ASSUME Places, Arrived, Waiting, Nodes PROVE TypeInv
    OBVIOUS
  <2>1. \A i \in Ids : requests[i] \in Req
    BY DEF Arrived, Ids
  <2>2. \A i \in Ids : requests[i].page \in 0..page
    BY <2>1 DEF Arrived, Places, Req
  <2>3. ASSUME NEW i \in DOMAIN requests
        PROVE  /\ requests[i].kind \in Kinds /\ requests[i].page \in 0..page
               /\ requests[i].pc \in Pcs /\ requests[i].told \in Told
               /\ {requests[i].from, requests[i].signer} \subseteq Wallet \cup {None}
               /\ requests[i].nonce \in 0..MaxRequest /\ requests[i].causes \subseteq Causes
    BY <2>1, <2>2 DEF Ids, Req, Someone
  <2>4. \A b \in Range(main) \cup Range(dialogs) :
           /\ b.kind \in Blocks /\ b.id \in DOMAIN requests /\ b.address \in Wallet \cup {None}
    <3>1. \A b \in Range(main) \cup Range(dialogs) : b \in Blk /\ b.id \in DOMAIN requests
      BY DEF Waiting, Range, Ids
    <3>. QED
      BY <3>1 DEF Blk, Someone
  <2>5. TypeOK
    <3>1. /\ current \in Wallet /\ stale \subseteq Wallet
          /\ view \in {"shown", "away", "import", "gone"} /\ page \in 0..MaxChange
          /\ known \in Wallet \cup {None} /\ {approved, trapped} \subseteq BOOLEAN
          /\ switches \in 0..MaxChange /\ Len(requests) <= MaxRequest
          /\ pool \subseteq DOMAIN requests /\ executed \in [Wallet -> 0..MaxRequest]
      BY DEF Places, Arrived, Nodes, Ids, Someone
    <3>. HIDE DEF Places, Arrived, Nodes, Waiting
    <3>. QED
      BY <2>3, <2>4, <3>1 DEF TypeOK
  <2>. QED
    BY <2>5 DEF TypeInv, Arrived, Waiting
<1>. QED
  BY <1>1, <1>2

LEMMA ReqTypeNext == TypeInv' <=> Places' /\ Arrived' /\ Waiting' /\ Nodes'
BY ReqTypeParts, PTL

(* What is not about requests keeps its types.                             *)
LEMMA PlacesStep == TypeInv /\ [Next]_vars => Places'
<1>. SUFFICES ASSUME TypeInv, [Next]_vars PROVE Places'
  OBVIOUS
<1>0. Places /\ None \in Someone
  BY ReqTypeParts DEF Someone
<1>1. CASE ProcessRequest
  BY <1>0, <1>1, ProcessIs DEF Places, around
<1>2. CASE Load \/ OpenLink \/ ViewWillAppear \/ PopViewController
  <2>1. /\ UNCHANGED <<current, around, requests, main, approved, trapped, node>>
        /\ page' \in {page, page + 1} /\ (page' = page \/ page + switches < MaxChange)
        /\ known' \in {known, None} /\ view' \in {view, "shown", "away", "gone"}
    BY <1>2, PageIs
  <2>2. page' \in 0..MaxChange
    BY <1>0, <2>1, BoundAssumption DEF Places
  <2>. QED
    BY <1>0, <2>1, <2>2 DEF Places, around
<1>3. CASE SwitchWallet \/ Recover
  <2>1. /\ UNCHANGED <<stale, page, known, main, approved, trapped, node>>
        /\ current' \in Wallet /\ switches' = switches + 1 /\ page + switches < MaxChange
        /\ view' \in {view, "gone"}
    BY <1>3, SwitchIs
  <2>2. switches' \in 0..MaxChange
    BY <1>0, <2>1, BoundAssumption DEF Places
  <2>. QED
    BY <1>0, <2>1, <2>2 DEF Places
<1>4. CASE RunMain
  <2>1. UNCHANGED <<current, around, view, page, approved, node>>
    BY <1>4, RunIs
  <2>2. known' \in Someone /\ trapped' \in {TRUE, trapped}
    BY <1>0, <1>4, RunIs DEF TellStep, LostStep, DialogStep, GrantStep, Places
  <2>. QED
    BY <1>0, <2>1, <2>2 DEF Places, around
<1>5. ASSUME NEW yes \in BOOLEAN, AnswerAllow(yes)
      PROVE  Places'
  <2>1. /\ UNCHANGED <<current, around, view, page, known, trapped, node>>
        /\ approved' = (approved \/ yes)
    BY <1>5 DEF AnswerAllow
  <2>2. approved' \in BOOLEAN
    BY <2>1
  <2>. QED
    BY <1>0, <2>1, <2>2 DEF Places, around
<1>6. CASE ConfirmSign \/ RefuseSign \/ EnterPassword \/ WrongPassword
  BY <1>0, <1>6 DEF ConfirmSign, RefuseSign, EnterPassword, WrongPassword, Places, around
<1>7. CASE ForgetPassword
  BY <1>0, <1>7 DEF ForgetPassword, Places, around
<1>8. ASSUME NEW i \in Ids, Sign(i)
      PROVE  Places'
  BY <1>0, <1>8 DEF Sign, Keychain, Begin, EpochArrived, NonceArrived, EstimateArrived, Submitted,
                    CallArrived, Places, around
<1>9. ASSUME NEW w \in Wallet, Execute(w)
      PROVE  Places'
  BY <1>0, <1>9 DEF Execute, Places, around
<1>10. CASE UNCHANGED vars
  BY <1>0, <1>10 DEF vars, Places, around
<1>. QED
  BY <1>1, <1>2, <1>3, <1>4, <1>5, <1>6, <1>7, <1>8, <1>9, <1>10 DEF Next, Dialog, Move

(* Pages are numbered upwards.                                             *)
LEMMA PageGrows == TypeInv /\ [Next]_vars => page' \in {page, page + 1}
<1>. SUFFICES ASSUME TypeInv, [Next]_vars PROVE page' \in {page, page + 1}
  OBVIOUS
<1>1. CASE Load \/ OpenLink \/ ViewWillAppear \/ PopViewController
  BY <1>1, PageIs
<1>2. CASE ProcessRequest \/ RunMain \/ Dialog \/ SwitchWallet \/ Recover \/ UNCHANGED vars
  BY <1>2 DEF ProcessRequest, RunMain, Dialog, AnswerAllow, ConfirmSign, RefuseSign, EnterPassword,
              WrongPassword, ForgetPassword, SwitchWallet, Recover, vars
<1>3. ASSUME NEW i \in Ids, Sign(i)
      PROVE  page' = page
  BY <1>3 DEF Sign, Keychain, Begin, EpochArrived, NonceArrived, EstimateArrived, Submitted, CallArrived
<1>4. ASSUME NEW w \in Wallet, Execute(w)
      PROVE  page' = page
  BY <1>4 DEF Execute
<1>. QED
  BY <1>1, <1>2, <1>3, <1>4 DEF Next, Move

(* Requests are typed, of a page loaded, and stay.                         *)
LEMMA ArrivedStep ==
    ASSUME TypeInv, OneMain, OneDialog, KindsFit, [Next]_vars
    PROVE  Arrived' /\ \A i \in Ids : i \in Ids'
<1>1. Arrived /\ Ids = 1..Len(requests) /\ page \in Nat
  BY ReqTypeParts, ReqIs, BoundAssumption DEF Places
<1>2. page' \in {page, page + 1}
  BY PageGrows
<1>3. ASSUME NEW i, NEW new, Turned(i, new)
      PROVE  Arrived' /\ \A j \in Ids : j \in Ids'
  <2>1. /\ requests' \in Seq(Req) /\ Len(requests') = Len(requests) /\ Ids' = Ids
        /\ \A j \in Ids : requests'[j].page = requests[j].page
    BY <1>3 DEF Turned
  <2>2. \A j \in Ids' : requests'[j].page <= page'
    <3>1. \A j \in Ids : requests[j].page \in Nat /\ requests[j].page <= page
      BY <1>1, ReqIs DEF Arrived, Req
    <3>. QED
      BY <1>1, <1>2, <2>1, <3>1
  <2>. QED
    BY <1>1, <2>1, <2>2 DEF Arrived
<1>4. ASSUME NEW added, NewStep(added)
      PROVE  Arrived' /\ \A j \in Ids : j \in Ids'
  <2>1. /\ requests' \in Seq(Req) /\ Len(requests') = Len(requests) + 1 /\ Len(requests') <= MaxRequest
        /\ \A j \in Ids : requests'[j] = requests[j]
        /\ requests'[Len(requests) + 1].page = page
    BY <1>4 DEF NewStep
  <2>2. Ids' = 1..(Len(requests) + 1) /\ Len(requests) \in Nat
    BY <1>1, <2>1, ReqIs DEF Ids
  <2>3. \A j \in Ids' : requests'[j].page <= page'
    <3>1. \A j \in Ids : requests[j].page \in Nat /\ requests[j].page <= page
      BY <1>1, ReqIs DEF Arrived, Req
    <3>. QED
      BY <1>1, <1>2, <2>1, <2>2, <3>1
  <2>. QED
    BY <1>1, <2>1, <2>2, <2>3 DEF Arrived
<1>5. ASSUME NEW i, NEW new, Turn(i, new)
      PROVE  Arrived' /\ \A j \in Ids : j \in Ids'
  BY <1>3, <1>5 DEF Turn
<1>6. ASSUME NEW i \in Ids, Goes(i)
      PROVE  \E new : Turn(i, new)
  BY <1>6 DEF Goes, Stops, Hearing, Opens, Begins, Counts, GoesOn, Fails, Sends
<1>7. ASSUME NEW w \in Wallet, Execute(w)
      PROVE  \A new : Turned(0, new)
  BY <1>7, ExecuteIs DEF OtherStep
<1>. QED
  BY <1>3, <1>4, <1>5, <1>6, <1>7, CourseIs DEF Course, Comes, Still, Switched

(* Blocks that move or are posted are for requests that arrived.           *)
LEMMA MovesIds ==
    ASSUME TypeInv, NEW k \in {0, 1}, NEW added, Moves(main, main', k, added), Len(added) \in Nat,
           \A i \in Ids : i \in Ids', \A a \in 1..Len(added) : added[a].id \in Ids'
    PROVE  main' \in Seq(Blk) /\ \A m \in 1..Len(main') : main'[m].id \in Ids'
<1>1. \A m \in 1..Len(main) : main[m].id \in Ids'
  BY ReqIs
<1>. QED
  BY <1>1 DEF Moves

(* Blocks and dialogs are typed, and for requests that arrived.            *)
LEMMA WaitingStep ==
    ASSUME TypeInv, OneMain, OneDialog, KindsFit, [Next]_vars
    PROVE  Waiting'
<1>0. /\ \A i \in Ids : i \in Ids'
      /\ Waiting /\ Len(main) \in Nat /\ Len(dialogs) \in Nat
  BY ArrivedStep, ReqTypeParts, ReqIs
<1>. DEFINE Mains == main' \in Seq(Blk) /\ \A m \in 1..Len(main') : main'[m].id \in Ids'
            Dials == dialogs' \in Seq(Blk) /\ \A m \in 1..Len(dialogs') : dialogs'[m].id \in Ids'
<1>1. ASSUME UNCHANGED dialogs \/ dialogs' = <<>>
      PROVE  Dials
  <2>1. CASE UNCHANGED dialogs
    BY <1>0, <2>1 DEF Waiting
  <2>2. CASE dialogs' = <<>>
    BY <2>2
  <2>. QED
    BY <1>1, <2>1, <2>2
<1>2. UNCHANGED main => Mains
  BY <1>0 DEF Waiting
<1>3. ASSUME dialogs # <<>>, Dismiss
      PROVE  Dials
  <2>1. /\ dialogs' \in Seq(Blk)
        /\ \A m \in 1..Len(dialogs') : m \in 1..Len(dialogs) /\ dialogs'[m] = dialogs[m]
    BY <1>3, FrontIs
  <2>. QED
    BY <1>0, <2>1 DEF Waiting
<1>4. ASSUME NEW i \in Ids, NEW added, Plain(added, i), Moves(main, main', 0, added)
      PROVE  Mains
  BY <1>0, <1>4, MovesIds DEF Plain
<1>5. CASE ProcessRequest
  <2>1. PICK added \in Seq(Blk) : NewStep(added) /\ UNCHANGED dialogs
    BY <1>5, ProcessIs
  <2>2. Len(requests) + 1 \in Ids'
    BY <2>1, ReqIs DEF NewStep, Ids
  <2>3. Len(added) \in Nat /\ \A a \in 1..Len(added) : added[a].id \in Ids'
    <3>1. CASE added = <<>>
      BY <3>1
    <3>2. CASE added # <<>>
      <4>1. PICK b \in Blk : added = <<b>> /\ b.id = Len(requests) + 1
        BY <2>1, <3>2 DEF NewStep
      <4>. QED
        BY <2>2, <4>1
    <3>. QED
      BY <3>1, <3>2
  <2>4. Mains
    BY <1>0, <2>1, <2>3, MovesIds DEF NewStep
  <2>. QED
    BY <1>1, <2>1, <2>4 DEF Waiting
<1>6. CASE OtherStep
  BY <1>1, <1>2, <1>6 DEF OtherStep, Waiting
<1>7. ASSUME NEW i \in Ids, NEW new, NEW added, WorkStep(i, new, added)
      PROVE  Waiting'
  <2>1. Mains /\ UNCHANGED dialogs
    BY <1>4, <1>7 DEF WorkStep
  <2>. QED
    BY <1>1, <2>1 DEF Waiting
<1>8. ASSUME NEW new, NEW added, ReplyStep(Top.id, new, added)
      PROVE  Waiting'
  <2>1. Dials /\ Top.id \in Ids
    BY <1>3, <1>8, FrontIs DEF ReplyStep
  <2>2. Mains
    BY <1>4, <1>8, <2>1 DEF ReplyStep
  <2>. QED
    BY <2>1, <2>2 DEF Waiting
<1>9. ASSUME NEW i \in Ids, NEW added \in Seq(Blk), PasswordStep(i, added)
      PROVE  Waiting'
  <2>1. \A a \in 1..Len(added) : added[a].id = i
    <3>1. CASE added = <<Block("password", i)>>
      BY <3>1 DEF Block
    <3>2. CASE added = <<Block("error", i), Block("password", i)>>
      BY <3>2 DEF Block
    <3>. QED
      BY <1>9, <3>1, <3>2 DEF PasswordStep
  <2>2. Mains /\ UNCHANGED dialogs
    BY <1>0, <1>9, <2>1, MovesIds DEF PasswordStep
  <2>. QED
    BY <1>1, <2>2 DEF Waiting
<1>10. CASE RunMain
  <2>1. /\ main[1] \in Blk /\ main[1].id \in Ids
        /\ TellStep(main[1]) \/ LostStep(main[1]) \/ DialogStep(main[1]) \/ GrantStep(main[1])
    BY <1>10, RunIs
  <2>2. ASSUME Moves(main, main', 1, <<>>)
        PROVE  Mains
    BY <1>0, <2>2, MovesIds
  <2>3. CASE TellStep(main[1]) \/ LostStep(main[1])
    BY <1>1, <2>2, <2>3 DEF TellStep, LostStep, Waiting
  <2>4. CASE DialogStep(main[1])
    <3>1. /\ dialogs' \in Seq(Blk) /\ Len(dialogs') = Len(dialogs) + 1
          /\ (\A m \in 1..Len(dialogs) : dialogs'[m] = dialogs[m])
          /\ dialogs'[Len(dialogs) + 1] = main[1]
      BY <1>0, <2>1, <2>4, AppendProperties DEF DialogStep, Waiting
    <3>2. \A m \in 1..Len(dialogs') : m \in 1..Len(dialogs) \/ m = Len(dialogs) + 1
      BY <1>0, <3>1
    <3>3. Dials
      BY <1>0, <2>1, <3>1, <3>2 DEF Waiting
    <3>. QED
      BY <2>2, <2>4, <3>3 DEF DialogStep, Waiting
  <2>5. CASE GrantStep(main[1])
    <3>1. PICK c \in Blk : c.id = main[1].id /\ Moves(main, main', 1, <<c>>)
      BY <2>5 DEF GrantStep
    <3>2. Len(<<c>>) \in Nat /\ \A a \in 1..Len(<<c>>) : <<c>>[a].id \in Ids'
      BY <1>0, <2>1, <3>1
    <3>3. Mains
      BY <1>0, <3>1, <3>2, MovesIds
    <3>. QED
      BY <1>1, <2>5, <3>3 DEF GrantStep, Waiting
  <2>. QED
    BY <2>1, <2>3, <2>4, <2>5
<1>11. CASE Dialog
  <2>1. ASSUME NEW yes \in BOOLEAN, AnswerAllow(yes)
        PROVE  Waiting'
    BY <1>8, <2>1, AllowIs
  <2>2. CASE ConfirmSign
    BY <1>8, <2>2, ConfirmIs
  <2>3. CASE RefuseSign \/ WrongPassword
    BY <1>8, <2>3, RefuseIs DEF EndReply
  <2>4. CASE EnterPassword
    BY <1>8, <2>4, EnterIs
  <2>5. CASE ForgetPassword
    BY <1>8, <2>5, ForgetIs
  <2>. QED
    BY <1>11, <2>1, <2>2, <2>3, <2>4, <2>5 DEF Dialog
<1>12. ASSUME NEW i \in Ids, Sign(i)
       PROVE  Waiting'
  <2>1. CASE Keychain(i)
    BY <1>7, <1>9, <2>1, KeychainIs
  <2>2. CASE Begin(i)
    BY <1>7, <2>2, BeginIs DEF EndStep
  <2>3. CASE EpochArrived(i)
    BY <1>7, <2>3, EpochIs DEF EndStep
  <2>4. CASE NonceArrived(i)
    BY <1>7, <2>4, NonceIs DEF EndStep
  <2>5. CASE EstimateArrived(i)
    BY <1>7, <2>5, EstimateIs DEF EndStep
  <2>6. CASE Submitted(i)
    BY <1>7, <2>6, SubmittedIs DEF EndStep
  <2>7. CASE CallArrived(i)
    BY <1>7, <2>7, CallIs DEF EndStep
  <2>. QED
    BY <1>12, <2>1, <2>2, <2>3, <2>4, <2>5, <2>6, <2>7 DEF Sign
<1>13. CASE UNCHANGED vars
  BY <1>6, <1>13, StillIs DEF OtherStep, vars
<1>. QED
  BY <1>5, <1>6, <1>10, <1>11, <1>12, <1>13, PageIs, SwitchIs, ExecuteIs DEF Next, Move

(* No request ever waits for two blocks that ask or for two dialogs.       *)
LEMMA OneStep ==
    ASSUME TypeInv, OneMain, OneDialog, KindsFit, [Next]_vars
    PROVE  OneMain' /\ OneDialog'
<1>1. CASE ProcessRequest
  BY <1>1, ProcessIs, NewKeeps
<1>2. CASE OtherStep
  BY <1>2, OtherKeeps
<1>3. CASE RunMain
  <2>1. /\ main # <<>> /\ main[1].id \in Ids /\ 1 \in 1..Len(main)
        /\ TellStep(main[1]) \/ LostStep(main[1]) \/ DialogStep(main[1]) \/ GrantStep(main[1])
    BY <1>3, RunIs
  <2>. QED
    BY <2>1, TellKeeps, LostKeeps, DialogKeeps, GrantKeeps
<1>4. CASE Dialog
  <2>1. ASSUME NEW yes \in BOOLEAN, AnswerAllow(yes)
        PROVE  OneMain' /\ OneDialog'
    BY <2>1, AllowIs, ReplyKeeps
  <2>2. CASE ConfirmSign
    BY <2>2, ConfirmIs, ReplyKeeps
  <2>3. CASE RefuseSign \/ WrongPassword
    BY <2>3, RefuseIs, ReplyKeeps DEF EndReply
  <2>4. CASE EnterPassword
    BY <2>4, EnterIs, ReplyKeeps
  <2>5. CASE ForgetPassword
    BY <2>5, ForgetIs, ReplyKeeps
  <2>. QED
    BY <1>4, <2>1, <2>2, <2>3, <2>4, <2>5 DEF Dialog
<1>5. ASSUME NEW i \in Ids, Sign(i)
      PROVE  OneMain' /\ OneDialog'
  <2>1. CASE Keychain(i)
    BY <2>1, KeychainIs, WorkKeeps, PasswordKeeps
  <2>2. CASE Begin(i)
    BY <2>2, BeginIs, WorkKeeps DEF EndStep
  <2>3. CASE EpochArrived(i)
    BY <2>3, EpochIs, WorkKeeps DEF EndStep
  <2>4. CASE NonceArrived(i)
    BY <2>4, NonceIs, WorkKeeps DEF EndStep
  <2>5. CASE EstimateArrived(i)
    BY <2>5, EstimateIs, WorkKeeps DEF EndStep
  <2>6. CASE Submitted(i)
    BY <2>6, SubmittedIs, WorkKeeps DEF EndStep
  <2>7. CASE CallArrived(i)
    BY <2>7, CallIs, WorkKeeps DEF EndStep
  <2>. QED
    BY <1>5, <2>1, <2>2, <2>3, <2>4, <2>5, <2>6, <2>7 DEF Sign
<1>6. CASE UNCHANGED vars
  BY <1>2, <1>6, StillIs DEF OtherStep, vars
<1>. QED
  BY <1>1, <1>2, <1>3, <1>4, <1>5, <1>6, PageIs, SwitchIs, ExecuteIs DEF Next, Move

-----------------------------------------------------------------------------
(* Who comes to the keychain and to the node                               *)

(* A turn keeps KindsFit if its new place fits the kind.                   *)
LEMMA KindsTurn ==
    ASSUME TypeInv, KindsFit, NEW i \in Ids, NEW new, Turned(i, new),
           pool' = pool \/ pool' = pool \cup {i},
           new.pc \in {"keychain", "begin"} => requests[i].kind \in {"transaction", "typed"},
           new.pc \in Node => requests[i].kind = "transaction" /\ new.from \in Wallet,
           new.pc \in Live => new.signer \in Wallet,
           i \in pool' => /\ new.pc = "done" /\ requests[i].kind = "transaction"
                          /\ new.signer \in Wallet /\ new.from \in Wallet
    PROVE  KindsFit'
<1>1. /\ Ids' = Ids /\ requests'[i].kind = requests[i].kind
      /\ requests'[i].from = new.from /\ requests'[i].signer = new.signer /\ requests'[i].pc = new.pc
      /\ \A j \in Ids \ {i} : /\ requests'[j].kind = requests[j].kind /\ requests'[j].pc = requests[j].pc
                              /\ requests'[j].from = requests[j].from
                              /\ requests'[j].signer = requests[j].signer
  BY DEF Turned
<1>2. ASSUME NEW j \in Ids \ {i}
      PROVE  /\ requests'[j].pc \in {"keychain", "begin"} => requests'[j].kind \in {"transaction", "typed"}
             /\ requests'[j].pc \in Node => requests'[j].kind = "transaction" /\ requests'[j].from \in Wallet
             /\ requests'[j].pc \in Live => requests'[j].signer \in Wallet
             /\ j \in pool' => /\ requests'[j].pc = "done" /\ requests'[j].kind = "transaction"
                               /\ requests'[j].signer \in Wallet /\ requests'[j].from \in Wallet
  BY <1>1, <1>2 DEF KindsFit
<1>. QED
  BY <1>1, <1>2 DEF KindsFit

(* No request changes, but for its causes.                                 *)
LEMMA TurnedNone ==
    ASSUME TypeInv, \A new : Turned(0, new)
    PROVE  /\ Ids' = Ids
           /\ \A j \in Ids :
                /\ requests'[j].kind = requests[j].kind /\ requests'[j].page = requests[j].page
                /\ requests[j].causes \subseteq requests'[j].causes
                /\ requests'[j].from = requests[j].from /\ requests'[j].signer = requests[j].signer
                /\ requests'[j].nonce = requests[j].nonce /\ requests'[j].pc = requests[j].pc
                /\ requests'[j].told = requests[j].told
BY ReqIs DEF Turned

(* The fields a turn sets                                                  *)
LEMMA AsIs ==
    \A i, pc : /\ As(i, pc).from = requests[i].from /\ As(i, pc).signer = requests[i].signer
               /\ As(i, pc).nonce = requests[i].nonce /\ As(i, pc).pc = pc
               /\ As(i, pc).told = requests[i].told
BY DEF As

LEMMA OpenedIs ==
    \A i : LET new == [As(i, "begin") EXCEPT !.signer = current]
           IN /\ new.from = requests[i].from /\ new.signer = current
              /\ new.nonce = requests[i].nonce /\ new.pc = "begin" /\ new.told = requests[i].told
BY DEF As

LEMMA BegunIs ==
    \A i : LET new == [As(i, "epoch") EXCEPT !.from = IF @ = None THEN current ELSE @]
           IN /\ new.from = (IF requests[i].from = None THEN current ELSE requests[i].from)
              /\ new.signer = requests[i].signer
              /\ new.nonce = requests[i].nonce /\ new.pc = "epoch" /\ new.told = requests[i].told
BY DEF As

LEMMA CountedIs ==
    \A i : LET new == [As(i, "estimate") EXCEPT !.nonce = executed[requests[i].from]]
           IN /\ new.from = requests[i].from /\ new.signer = requests[i].signer
              /\ new.nonce = executed[requests[i].from] /\ new.pc = "estimate"
              /\ new.told = requests[i].told
BY DEF As

LEMMA ToldIs ==
    \A i, told : LET new == [As(i, requests[i].pc) EXCEPT !.told = told]
                 IN /\ new.from = requests[i].from /\ new.signer = requests[i].signer
                    /\ new.nonce = requests[i].nonce /\ new.pc = requests[i].pc /\ new.told = told
BY DEF As

(* Only what is to be signed comes to the keychain, and only transactions  *)
(* to the node.                                                            *)
LEMMA KindsStep ==
    ASSUME TypeInv, OneMain, OneDialog, KindsFit, [Next]_vars
    PROVE  KindsFit'
<1>0. /\ current \in Wallet /\ pool \subseteq Ids
      /\ \A i \in Ids : requests[i] \in Req /\ requests[i].from \in Someone
  BY ReqTypeParts, ReqIs DEF Places, Nodes, Req
<1>1. ASSUME NEW i \in Ids, Stops(i)
      PROVE  KindsFit'
  <2>1. PICK pc \in {"main", "dialog", "keychain", "forgotten", "done"} :
            Turned(i, As(i, pc)) /\ (pc = "keychain" => requests[i].kind \in Signable)
    BY <1>1 DEF Stops, Turn
  <2>2. pool' = pool /\ i \notin pool
    BY <1>1 DEF Stops, KindsFit
  <2>3. pc \notin Live
    BY DEF Live, Node
  <2>. DEFINE new == As(i, pc)
  <2>4. Turned(i, new) /\ new.pc = pc
    BY <2>1, AsIs
  <2>. HIDE DEF new
  <2>. QED
    BY <2>1, <2>2, <2>3, <2>4, KindsTurn DEF Signable, Live
<1>2. ASSUME NEW i \in Ids, Hearing(i)
      PROVE  KindsFit'
  <2>1. PICK told : Turned(i, [As(i, requests[i].pc) EXCEPT !.told = told]) /\ pool' = pool
    BY <1>2 DEF Hearing, Turn
  <2>. DEFINE new == [As(i, requests[i].pc) EXCEPT !.told = told]
  <2>2. Turned(i, new) /\ new.pc = requests[i].pc /\ new.from = requests[i].from
        /\ new.signer = requests[i].signer
    BY <2>1, ToldIs
  <2>. HIDE DEF new
  <2>3. /\ new.pc \in {"keychain", "begin"} => requests[i].kind \in {"transaction", "typed"}
        /\ new.pc \in Node => requests[i].kind = "transaction" /\ new.from \in Wallet
        /\ new.pc \in Live => new.signer \in Wallet
        /\ i \in pool' => /\ new.pc = "done" /\ requests[i].kind = "transaction"
                          /\ new.signer \in Wallet /\ new.from \in Wallet
    BY <2>1, <2>2 DEF KindsFit
  <2>. QED
    BY <2>1, <2>2, <2>3, KindsTurn
<1>3. ASSUME NEW i \in Ids, Opens(i)
      PROVE  KindsFit'
  <2>. DEFINE new == [As(i, "begin") EXCEPT !.signer = current]
  <2>1. /\ Turned(i, new) /\ pool' = pool /\ i \notin pool /\ requests[i].kind \in Signable
        /\ new.pc = "begin" /\ new.signer = current
    BY <1>3, OpenedIs DEF Opens, Turn, KindsFit
  <2>. HIDE DEF new
  <2>. QED
    BY <1>0, <2>1, KindsTurn DEF Signable, Node
<1>4. ASSUME NEW i \in Ids, Begins(i)
      PROVE  KindsFit'
  <2>. DEFINE new == [As(i, "epoch") EXCEPT !.from = IF @ = None THEN current ELSE @]
  <2>1. /\ Turned(i, new) /\ pool' = pool /\ i \notin pool /\ requests[i].kind = "transaction"
        /\ new.pc = "epoch" /\ new.signer = requests[i].signer /\ new.signer \in Wallet
        /\ new.from = IF requests[i].from = None THEN current ELSE requests[i].from
    BY <1>4, BegunIs DEF Begins, Turn, KindsFit, Live
  <2>2. new.from \in Wallet
    BY <1>0, <2>1 DEF Someone
  <2>. HIDE DEF new
  <2>. QED
    BY <2>1, <2>2, KindsTurn
<1>5. ASSUME NEW i \in Ids, Counts(i)
      PROVE  KindsFit'
  <2>. DEFINE new == [As(i, "estimate") EXCEPT !.nonce = executed[requests[i].from]]
  <2>1. /\ Turned(i, new) /\ pool' = pool /\ i \notin pool /\ requests[i].kind = "transaction"
        /\ new.pc = "estimate" /\ new.signer \in Wallet /\ new.from \in Wallet
    BY <1>5, CountedIs DEF Counts, Turn, KindsFit, Live, Node
  <2>. HIDE DEF new
  <2>. QED
    BY <2>1, KindsTurn
<1>6. ASSUME NEW i \in Ids, GoesOn(i)
      PROVE  KindsFit'
  <2>1. PICK pc \in {"nonce", "submit"} : Turned(i, As(i, pc))
    BY <1>6 DEF GoesOn, Turn
  <2>. DEFINE new == As(i, pc)
  <2>2. /\ Turned(i, new) /\ pool' = pool /\ i \notin pool /\ requests[i].kind = "transaction"
        /\ new.pc = pc /\ new.signer \in Wallet /\ new.from \in Wallet
    BY <1>6, <2>1, AsIs DEF GoesOn, KindsFit, Live, Node
  <2>. HIDE DEF new
  <2>. QED
    BY <2>2, KindsTurn
<1>7. ASSUME NEW i \in Ids, Fails(i) \/ Sends(i)
      PROVE  KindsFit'
  <2>. DEFINE new == As(i, "done")
  <2>1. /\ Turned(i, new) /\ pool' \in {pool, pool \cup {i}} /\ requests[i].kind = "transaction"
        /\ new.pc = "done" /\ new.signer \in Wallet /\ new.from \in Wallet
    BY <1>7, AsIs DEF Fails, Sends, Turn, KindsFit, Live, Node
  <2>. HIDE DEF new
  <2>2. new.pc \notin Live /\ new.pc \notin {"keychain", "begin"}
    BY <2>1 DEF Live, Node
  <2>. QED
    BY <2>1, <2>2, KindsTurn DEF Live
<1>8. ASSUME pool' = pool, \A new : Turned(0, new)
      PROVE  KindsFit'
  BY <1>8, TurnedNone DEF KindsFit
<1>9. ASSUME NEW added, NewStep(added), pool' = pool
      PROVE  KindsFit'
  <2>1. /\ \A j \in Ids : requests'[j] = requests[j]
        /\ requests'[Len(requests) + 1].pc \in {"main", "call"}
        /\ Len(requests) + 1 \notin pool
        /\ \A j \in Ids' : j \in Ids \/ j = Len(requests) + 1
    BY <1>0, <1>9, ReqIs DEF NewStep, Ids
  <2>. QED
    BY <1>9, <2>1 DEF KindsFit, Live, Node
<1>10. ASSUME NEW w \in Wallet, Execute(w)
       PROVE  KindsFit'
  BY <1>8, <1>10, ExecuteIs DEF OtherStep
<1>. QED
  BY <1>1, <1>2, <1>3, <1>4, <1>5, <1>6, <1>7, <1>8, <1>9, <1>10, CourseIs
  DEF Course, Goes, Comes, Still, Switched, node

-----------------------------------------------------------------------------
(* What the node has taken and executed                                    *)

(* What the node has taken stays as it is.                                 *)
LEMMA PoolStays ==
    ASSUME TypeInv, OneMain, OneDialog, KindsFit, [Next]_vars
    PROVE  \A j \in pool : /\ j \in pool' /\ requests'[j].kind = requests[j].kind
                           /\ requests'[j].signer = requests[j].signer
                           /\ requests'[j].nonce = requests[j].nonce
<1>. DEFINE Same(j) == /\ j \in pool' /\ requests'[j].kind = requests[j].kind
                       /\ requests'[j].signer = requests[j].signer
                       /\ requests'[j].nonce = requests[j].nonce
<1>0. pool \subseteq Ids /\ \A j \in pool : requests[j].pc = "done"
  BY ReqTypeParts DEF Nodes, KindsFit
<1>1. ASSUME NEW i \in Ids, i \notin pool, NEW new, Turned(i, new), pool \subseteq pool'
      PROVE  \A j \in pool : Same(j)
  BY <1>0, <1>1 DEF Turned
<1>2. ASSUME NEW i \in Ids, requests[i].pc # "done", NEW new, Turn(i, new), pool \subseteq pool'
      PROVE  \A j \in pool : Same(j)
  BY <1>0, <1>1, <1>2 DEF Turn
<1>3. ASSUME NEW i \in Ids, Hearing(i)
      PROVE  \A j \in pool : Same(j)
  <2>1. PICK told : Turned(i, [As(i, requests[i].pc) EXCEPT !.told = told]) /\ pool' = pool
    BY <1>3 DEF Hearing, Turn
  <2>. DEFINE new == [As(i, requests[i].pc) EXCEPT !.told = told]
  <2>2. Turned(i, new) /\ new.signer = requests[i].signer /\ new.nonce = requests[i].nonce
    BY <2>1, ToldIs
  <2>. HIDE DEF new
  <2>. QED
    BY <1>0, <2>1, <2>2 DEF Turned
<1>4. ASSUME pool' = pool, \A new : Turned(0, new)
      PROVE  \A j \in pool : Same(j)
  BY <1>0, <1>4, TurnedNone
<1>5. ASSUME NEW i \in Ids, Stops(i) \/ Opens(i) \/ Begins(i) \/ Counts(i) \/ GoesOn(i) \/ Fails(i) \/ Sends(i)
      PROVE  \A j \in pool : Same(j)
  <2>1. requests[i].pc # "done" /\ pool \subseteq pool'
    BY <1>5 DEF Stops, Opens, Begins, Counts, GoesOn, Fails, Sends
  <2>2. \E new : Turn(i, new)
    BY <1>5 DEF Stops, Opens, Begins, Counts, GoesOn, Fails, Sends
  <2>. QED
    BY <1>2, <2>1, <2>2
<1>6. CASE Comes
  BY <1>0, <1>6 DEF Comes, NewStep, node
<1>7. ASSUME NEW w \in Wallet, Execute(w)
      PROVE  \A j \in pool : Same(j)
  BY <1>7 DEF Execute
<1>. QED
  BY <1>3, <1>4, <1>5, <1>6, <1>7, CourseIs DEF Course, Goes, Still, Switched, node

(* Only the node executes.                                                 *)
LEMMA ExecutedIs ==
    ASSUME TypeInv, OneMain, OneDialog, KindsFit, [Next]_vars
    PROVE  UNCHANGED executed \/ \E w \in Wallet : Execute(w)
BY CourseIs DEF Course, Goes, Stops, Hearing, Opens, Begins, Counts, GoesOn, Fails, Sends, Turn,
                Comes, Still, Switched, node

(* The numbers executed are of requests, each of one: no more than these.  *)
LEMMA BoundedExecuted ==
    ASSUME TypeInv, NEW w \in Wallet, NEW e \in Nat,
           \A k \in 0..(e - 1) : \E i \in pool : requests[i].signer = w /\ requests[i].nonce = k
    PROVE  e <= MaxRequest
<1>. DEFINE f == [k \in 1..e |-> CHOOSE i \in pool : requests[i].signer = w /\ requests[i].nonce = k - 1]
            N == 1..MaxRequest
            D == 1..e
<1>1. \A k \in D : k \in Int /\ k - 1 \in 0..(e - 1)
  OBVIOUS
<1>2. \A k \in D : f[k] \in pool /\ requests[f[k]].nonce = k - 1
  BY <1>1
<1>3. pool \subseteq N
  BY ReqTypeParts, ReqIs DEF Nodes
<1>4. f \in [D -> N]
  BY <1>2, <1>3
<1>5. ASSUME NEW k \in D, NEW m \in D, f[k] = f[m]
      PROVE  k = m
  <2>1. k - 1 = m - 1
    BY <1>2, <1>5
  <2>. QED
    BY <1>1, <2>1
<1>. HIDE DEF f
<1>6. f \in Injection(D, N)
  BY <1>4, <1>5 DEF Injection, IsInjective
<1>7. IsFiniteSet(N) /\ Cardinality(N) = MaxRequest /\ Cardinality(D) = e
  <2>1. MaxRequest \in Nat
    BY BoundAssumption
  <2>. QED
    BY <2>1, FS_Interval
<1>8. Cardinality(D) <= Cardinality(N)
  BY <1>6, <1>7, FS_Injection
<1>. QED
  BY <1>7, <1>8

(* The numbers below executed stay accounted for, and in bounds.           *)
LEMMA CountedStep ==
    ASSUME TypeInv, OneMain, OneDialog, KindsFit, Counted, [Next]_vars
    PROVE  Counted' /\ executed' \in [Wallet -> 0..MaxRequest]
<1>0. executed \in [Wallet -> 0..MaxRequest] /\ MaxRequest \in Nat
  BY ReqTypeParts, BoundAssumption DEF Nodes
<1>1. \A w \in Wallet : \A k \in 0..(executed[w] - 1) :
          \E i \in pool' : requests'[i].signer = w /\ requests'[i].nonce = k
  BY PoolStays DEF Counted
<1>2. CASE UNCHANGED executed
  BY <1>0, <1>1, <1>2 DEF Counted
<1>3. ASSUME NEW w \in Wallet, Execute(w)
      PROVE  Counted' /\ executed' \in [Wallet -> 0..MaxRequest]
  <2>1. /\ UNCHANGED <<requests, pool>> /\ executed' = [executed EXCEPT ![w] = @ + 1]
        /\ \E i \in pool : requests[i].signer = w /\ requests[i].nonce = executed[w]
    BY <1>3, ExecuteIs
  <2>2. executed'[w] = executed[w] + 1 /\ \A v \in Wallet \ {w} : executed'[v] = executed[v]
    BY <1>0, <2>1
  <2>3. executed[w] \in Nat
    BY <1>0
  <2>4. \A k \in 0..(executed[w] + 1 - 1) : k \in 0..(executed[w] - 1) \/ k = executed[w]
    BY <2>3
  <2>5. \A k \in 0..(executed[w] + 1 - 1) : \E i \in pool : requests[i].signer = w /\ requests[i].nonce = k
    BY <2>1, <2>4 DEF Counted
  <2>6. executed[w] + 1 <= MaxRequest
    BY <2>3, <2>5, BoundedExecuted
  <2>7. executed' \in [Wallet -> 0..MaxRequest]
    BY <1>0, <2>1, <2>3, <2>6
  <2>8. Counted'
    <3>1. ASSUME NEW v \in Wallet, NEW k, k \in 0..(executed'[v] - 1)
          PROVE  \E i \in pool' : requests'[i].signer = v /\ requests'[i].nonce = k
      <4>1. CASE v = w
        <5>0. executed'[v] = executed[w] + 1
          BY ONLY <2>2, <4>1
        <5>1. k \in 0..(executed[w] + 1 - 1)
          BY <2>3, <3>1, <5>0
        <5>2. pool' = pool /\ requests' = requests
          BY <2>1
        <5>. QED
          BY <2>5, <4>1, <5>1, <5>2
      <4>2. CASE v # w
        BY <1>1, <2>2, <3>1, <4>2
      <4>. QED
        BY <4>1, <4>2
    <3>. QED
      BY <3>1 DEF Counted
  <2>. QED
    BY <2>7, <2>8
<1>. QED
  BY <1>2, <1>3, ExecutedIs

(* The node has only requests that arrived.                                *)
LEMMA NodesStep ==
    ASSUME TypeInv, OneMain, OneDialog, KindsFit, Counted, [Next]_vars
    PROVE  Nodes'
<1>1. executed' \in [Wallet -> 0..MaxRequest]
  BY CountedStep
<1>2. pool \subseteq Ids'
  BY ArrivedStep, ReqTypeParts DEF Nodes
<1>3. \A j \in pool' : j \in pool \/ j \in Ids
  BY CourseIs DEF Course, Goes, Stops, Hearing, Opens, Begins, Counts, GoesOn, Fails, Sends, Turn,
                  Comes, Still, Switched, Execute, node
<1>4. pool' \subseteq Ids'
  BY <1>2, <1>3, ArrivedStep
<1>. QED
  BY <1>1, <1>4 DEF Nodes

(* The invariant of the course is inductive.                               *)
LEMMA WayStep == WayInv /\ [Next]_vars => WayInv'
<1>. SUFFICES ASSUME WayInv, [Next]_vars PROVE WayInv'
  OBVIOUS
<1>1. TypeInv /\ OneMain /\ OneDialog /\ KindsFit /\ Counted
  BY DEF WayInv
<1>2. TypeInv'
  BY <1>1, PlacesStep, ArrivedStep, WaitingStep, NodesStep, ReqTypeNext
<1>3. OneMain' /\ OneDialog' /\ KindsFit' /\ Counted'
  BY <1>1, OneStep, KindsStep, CountedStep
<1>. QED
  BY <1>2, <1>3 DEF WayInv

-----------------------------------------------------------------------------
(* The sender and the signer                                               *)

(* SenderInv, for one request                                              *)
SenderFits(i) ==
    /\ requests[i].from \in {None, current} \/ Moved(i)
    /\ requests[i].pc \in Live \/ i \in pool => requests[i].signer = current \/ Moved(i)

(* A turn keeps SenderInv if the request turned fits.                      *)
LEMMA SenderTurn ==
    ASSUME TypeInv, SenderInv, NEW i \in Ids, NEW new, Turned(i, new), UNCHANGED current,
           pool' = pool \/ pool' = pool \cup {i},
           new.from \in {None, current} \/ Moved(i),
           new.pc \in Live \/ i \in pool' => new.signer = current \/ Moved(i)
    PROVE  SenderInv'
<1>1. /\ Ids' = Ids
      /\ requests'[i].from = new.from /\ requests'[i].signer = new.signer /\ requests'[i].pc = new.pc
      /\ \A j \in Ids \ {i} : /\ requests'[j].pc = requests[j].pc /\ requests'[j].from = requests[j].from
                              /\ requests'[j].signer = requests[j].signer
      /\ \A j \in Ids : requests[j].causes \subseteq requests'[j].causes
  BY DEF Turned
<1>2. \A j \in Ids : Moved(j) => Moved(j)'
  BY <1>1 DEF Moved
<1>3. ASSUME NEW j \in Ids \ {i}
      PROVE  SenderFits(j)'
  <2>1. SenderFits(j)
    BY DEF SenderInv, SenderFits
  <2>. QED
    BY <1>1, <1>2, <1>3, <2>1 DEF SenderFits
<1>4. SenderFits(i)'
  BY <1>1, <1>2 DEF SenderFits
<1>. QED
  BY <1>1, <1>3, <1>4 DEF SenderInv, SenderFits

(* SenderInv is inductive with the invariant of the course.                *)
LEMMA SenderStep ==
    ASSUME TypeInv, OneMain, OneDialog, KindsFit, SenderInv, [Next]_vars
    PROVE  SenderInv'
<1>0. /\ pool \subseteq Ids /\ \A i \in Ids : SenderFits(i)
  BY ReqTypeParts DEF Nodes, SenderInv, SenderFits
<1>1. ASSUME NEW i \in Ids, Stops(i)
      PROVE  SenderInv'
  <2>1. PICK pc \in {"main", "dialog", "keychain", "forgotten", "done"} :
            Turned(i, As(i, pc)) /\ UNCHANGED current
    BY <1>1 DEF Stops, Turn
  <2>2. pool' = pool /\ i \notin pool /\ pc \notin Live
    BY <1>1 DEF Stops, KindsFit, Live, Node
  <2>. DEFINE new == As(i, pc)
  <2>3. Turned(i, new) /\ new.pc = pc /\ new.from = requests[i].from
    BY <2>1, AsIs
  <2>. HIDE DEF new
  <2>. QED
    BY <1>0, <2>1, <2>2, <2>3, SenderTurn DEF SenderFits
<1>2. ASSUME NEW i \in Ids, Hearing(i)
      PROVE  SenderInv'
  <2>1. PICK told : /\ Turned(i, [As(i, requests[i].pc) EXCEPT !.told = told]) /\ pool' = pool
                    /\ UNCHANGED current
    BY <1>2 DEF Hearing, Turn
  <2>. DEFINE new == [As(i, requests[i].pc) EXCEPT !.told = told]
  <2>2. Turned(i, new) /\ new.pc = requests[i].pc /\ new.from = requests[i].from
        /\ new.signer = requests[i].signer
    BY <2>1, ToldIs
  <2>. HIDE DEF new
  <2>. QED
    BY <1>0, <2>1, <2>2, SenderTurn DEF SenderFits
<1>3. ASSUME NEW i \in Ids, Opens(i)
      PROVE  SenderInv'
  <2>. DEFINE new == [As(i, "begin") EXCEPT !.signer = current]
  <2>1. /\ Turned(i, new) /\ pool' = pool /\ new.from = requests[i].from
        /\ new.pc = "begin" /\ new.signer = current /\ UNCHANGED current
    BY <1>3, OpenedIs DEF Opens, Turn
  <2>. HIDE DEF new
  <2>. QED
    BY <1>0, <2>1, SenderTurn DEF SenderFits
<1>4. ASSUME NEW i \in Ids, Begins(i)
      PROVE  SenderInv'
  <2>. DEFINE new == [As(i, "epoch") EXCEPT !.from = IF @ = None THEN current ELSE @]
  <2>1. /\ Turned(i, new) /\ pool' = pool /\ requests[i].pc \in Live
        /\ new.signer = requests[i].signer /\ UNCHANGED current
        /\ new.from = IF requests[i].from = None THEN current ELSE requests[i].from
    BY <1>4, BegunIs DEF Begins, Turn, Live
  <2>. HIDE DEF new
  <2>. QED
    BY <1>0, <2>1, SenderTurn DEF SenderFits
<1>5. ASSUME NEW i \in Ids, Counts(i)
      PROVE  SenderInv'
  <2>. DEFINE new == [As(i, "estimate") EXCEPT !.nonce = executed[requests[i].from]]
  <2>1. /\ Turned(i, new) /\ pool' = pool /\ requests[i].pc \in Live /\ UNCHANGED current
        /\ new.signer = requests[i].signer /\ new.from = requests[i].from
    BY <1>5, CountedIs DEF Counts, Turn, Live, Node
  <2>. HIDE DEF new
  <2>. QED
    BY <1>0, <2>1, SenderTurn DEF SenderFits
<1>6. ASSUME NEW i \in Ids, GoesOn(i) \/ Fails(i) \/ Sends(i)
      PROVE  SenderInv'
  <2>1. PICK pc : Turned(i, As(i, pc)) /\ UNCHANGED current
    BY <1>6 DEF GoesOn, Fails, Sends, Turn
  <2>. DEFINE new == As(i, pc)
  <2>2. /\ Turned(i, new) /\ pool' \in {pool, pool \cup {i}} /\ requests[i].pc \in Live
        /\ new.signer = requests[i].signer /\ new.from = requests[i].from
    BY <1>6, <2>1, AsIs DEF GoesOn, Fails, Sends, Live, Node
  <2>. HIDE DEF new
  <2>. QED
    BY <1>0, <2>1, <2>2, SenderTurn DEF SenderFits
<1>7. ASSUME UNCHANGED current, pool' = pool, \A new : Turned(0, new)
      PROVE  SenderInv'
  <2>1. \A j \in Ids : Moved(j) => Moved(j)'
    BY <1>7, TurnedNone DEF Moved
  <2>. QED
    BY <1>7, <2>1, TurnedNone DEF SenderInv
<1>8. CASE Switched
  <2>1. \A j \in Ids : Moved(j)'
    BY <1>8 DEF Switched, Moved
  <2>2. Ids' = Ids
    BY <1>8, TurnedNone DEF Switched
  <2>. QED
    BY <2>1, <2>2 DEF SenderInv
<1>9. ASSUME NEW added, NewStep(added), UNCHANGED <<current, pool>>
      PROVE  SenderInv'
  <2>0. PICK n : n = Len(requests) + 1
    OBVIOUS
  <2>1. /\ \A j \in Ids : requests'[j] = requests[j]
        /\ requests'[n].pc \in {"main", "call"} /\ n \notin pool
        /\ requests'[n].from \in {None, current} \/ "behind" \in requests'[n].causes
        /\ \A j \in Ids' : j \in Ids \/ j = n
    BY <1>0, <1>9, <2>0, ReqIs DEF NewStep, Ids
  <2>2. \A j \in Ids : SenderFits(j)'
    BY <1>0, <1>9, <2>1 DEF SenderFits, Moved
  <2>3. SenderFits(n)'
    BY <1>9, <2>1 DEF SenderFits, Moved, Live, Node
  <2>. QED
    BY <2>1, <2>2, <2>3 DEF SenderInv, SenderFits
<1>10. ASSUME NEW w \in Wallet, Execute(w)
       PROVE  SenderInv'
  BY <1>7, <1>10, ExecuteIs DEF OtherStep, rest
<1>. QED
  BY <1>1, <1>2, <1>3, <1>4, <1>5, <1>6, <1>7, <1>8, <1>9, <1>10, CourseIs
  DEF Course, Goes, Comes, Still, node

(* From it follows that a transaction is signed by its sender.             *)
LEMMA SenderKept == TypeInv /\ KindsFit /\ SenderInv => SignedByItsSender
<1>. SUFFICES ASSUME TypeInv, KindsFit, SenderInv,
                     NEW i \in At("epoch") \cup At("nonce") \cup At("estimate") \cup At("submit") \cup pool
              PROVE  requests[i].signer = requests[i].from \/ Moved(i)
  BY DEF SignedByItsSender, Moved
<1>1. i \in Ids /\ (requests[i].pc \in Node \/ i \in pool)
  BY ReqTypeParts DEF At, Node, Nodes
<1>2. requests[i].from \in Wallet
  BY <1>1 DEF KindsFit
<1>3. requests[i].from = current \/ Moved(i)
  BY <1>1, <1>2, NoneAssumption DEF SenderInv
<1>4. requests[i].signer = current \/ Moved(i)
  BY <1>1 DEF SenderInv, Live
<1>. QED
  BY <1>3, <1>4

-----------------------------------------------------------------------------
(* One transaction beside another                                          *)

(* Which transactions are under way, before and after a step               *)
LEMMA SigningIs ==
    \A j : j \in Signing <=> /\ j \in Ids /\ requests[j].kind = "transaction"
                             /\ \/ requests[j].pc \in Live
                                \/ j \in pool /\ requests[j].nonce >= executed[requests[j].signer]
BY DEF Signing, Live, Node

LEMMA SigningNext ==
    \A j : j \in Signing' <=> /\ j \in Ids' /\ requests'[j].kind = "transaction"
                              /\ \/ requests'[j].pc \in Live
                                 \/ j \in pool' /\ requests'[j].nonce >= executed'[requests'[j].signer]
BY DEF Signing, Live, Node

(* A turn brings at most its own request under way.                        *)
LEMMA SigningTurn ==
    ASSUME NEW i \in Ids, NEW new, Turn(i, new), pool' = pool \/ pool' = pool \cup {i}
    PROVE  /\ Signing' \subseteq Signing \cup {i}
           /\ \A j \in Ids : requests[j].causes \subseteq requests'[j].causes
<1>1. ASSUME NEW j \in Signing', j # i
      PROVE  j \in Signing
  BY <1>1, SigningIs, SigningNext DEF Turn, Turned
<1>. QED
  BY <1>1 DEF Turn, Turned

(* LoneInv in parts: alone or known to be abreast; with the number that    *)
(* comes next, or a cause                                                  *)
Lone(i)     == "abreast" \in requests[i].causes \/ Signing \subseteq {i}
HasNext(i)  == \/ requests[i].causes \cap {"abreast", "switched", "behind"} # {}
               \/ requests[i].nonce = executed[requests[i].signer]
LoneParts   == (\A i \in Signing : Lone(i)) /\ \A i \in At("estimate") \cup At("submit") : HasNext(i)

LEMMA LonePartsIs == LoneInv <=> LoneParts
BY DEF LoneInv, LoneParts, Lone, HasNext

LEMMA LonePartsNext == LoneInv' <=> LoneParts'
BY LonePartsIs, PTL

(* The first part is kept while none comes under way,                      *)
LEMMA LoneShrinks ==
    ASSUME LoneInv, Signing' \subseteq Signing,
           \A j \in Signing : requests[j].causes \subseteq requests'[j].causes
    PROVE  \A j \in Signing' : Lone(j)'
BY LonePartsIs DEF LoneParts, Lone

(* the second by a turn that sets the number that comes next.              *)
LEMMA NextTurn ==
    ASSUME TypeInv, LoneInv, NEW i \in Ids, NEW new, Turn(i, new),
           new.pc \in {"estimate", "submit"} =>
               new.nonce = executed[new.signer]
               \/ requests[i].causes \cap {"abreast", "switched", "behind"} # {}
    PROVE  \A j \in At("estimate")' \cup At("submit")' : HasNext(j)'
<1>1. /\ Ids' = Ids /\ executed' = executed
      /\ requests'[i].signer = new.signer /\ requests'[i].nonce = new.nonce /\ requests'[i].pc = new.pc
      /\ \A j \in Ids \ {i} : /\ requests'[j].pc = requests[j].pc /\ requests'[j].nonce = requests[j].nonce
                              /\ requests'[j].signer = requests[j].signer
      /\ \A j \in Ids : requests[j].causes \subseteq requests'[j].causes
  BY DEF Turn, Turned
<1>2. ASSUME NEW j \in Ids, requests'[j].pc \in {"estimate", "submit"}
      PROVE  HasNext(j)'
  <2>1. CASE j = i
    BY <1>1, <1>2, <2>1 DEF HasNext
  <2>2. CASE j # i
    <3>1. HasNext(j)
      BY <1>1, <1>2, <2>2, LonePartsIs DEF LoneParts, At
    <3>. QED
      BY <1>1, <2>2, <3>1 DEF HasNext
  <2>. QED
    BY <2>1, <2>2
<1>. QED
  BY <1>1, <1>2 DEF At

(* LoneInv is inductive with SenderInv and the invariant of the course.    *)
LEMMA LoneStep ==
    ASSUME TypeInv, OneMain, OneDialog, KindsFit, SenderInv, LoneInv, [Next]_vars
    PROVE  LoneInv'
<1>0. /\ pool \subseteq Ids /\ LoneParts
      /\ executed \in [Wallet -> 0..MaxRequest]
      /\ \A i \in Ids : requests[i] \in Req
  BY ReqTypeParts, LonePartsIs, ReqIs DEF Nodes
<1>. DEFINE Firsts == \A j \in Signing' : Lone(j)'
            Seconds == \A j \in At("estimate")' \cup At("submit")' : HasNext(j)'
<1>1. Firsts /\ Seconds => LoneInv'
  BY LonePartsNext DEF LoneParts
<1>2. ASSUME NEW i \in Ids, NEW new, Turn(i, new), pool' = pool \/ pool' = pool \cup {i},
             i \in Signing' => i \in Signing
      PROVE  Firsts
  <2>1. /\ Signing' \subseteq Signing
        /\ \A j \in Signing : requests[j].causes \subseteq requests'[j].causes
    BY <1>2, SigningTurn, SigningIs
  <2>. QED
    BY <2>1, LoneShrinks
<1>3. ASSUME NEW i \in Ids, Stops(i)
      PROVE  Firsts /\ Seconds
  <2>1. PICK pc \in {"main", "dialog", "keychain", "forgotten", "done"} : Turn(i, As(i, pc))
    BY <1>3 DEF Stops
  <2>2. pool' = pool /\ i \notin pool /\ pc \notin Live /\ pc \notin {"estimate", "submit"}
    BY <1>3 DEF Stops, KindsFit, Live, Node
  <2>. DEFINE new == As(i, pc)
  <2>3. Turn(i, new) /\ new.pc = pc
    BY <2>1, AsIs
  <2>. HIDE DEF new
  <2>4. i \notin Signing'
    BY <2>2, <2>3, SigningNext DEF Turn, Turned
  <2>5. Firsts
    BY <1>2, <2>2, <2>3, <2>4
  <2>6. Seconds
    BY <2>2, <2>3, NextTurn
  <2>. QED
    BY <2>5, <2>6
<1>4. ASSUME NEW i \in Ids, Hearing(i)
      PROVE  Firsts /\ Seconds
  <2>1. PICK told : Turn(i, [As(i, requests[i].pc) EXCEPT !.told = told]) /\ pool' = pool
    BY <1>4 DEF Hearing
  <2>. DEFINE new == [As(i, requests[i].pc) EXCEPT !.told = told]
  <2>2. Turn(i, new) /\ new.pc = requests[i].pc /\ new.nonce = requests[i].nonce
        /\ new.signer = requests[i].signer
    BY <2>1, ToldIs
  <2>. HIDE DEF new
  <2>3. i \in Signing' => i \in Signing
    BY <2>1, <2>2, SigningIs, SigningNext DEF Turn, Turned
  <2>4. new.pc \in {"estimate", "submit"} =>
               new.nonce = executed[new.signer]
               \/ requests[i].causes \cap {"abreast", "switched", "behind"} # {}
    BY <1>0, <2>2 DEF LoneParts, HasNext, At
  <2>5. Firsts
    BY <1>2, <2>1, <2>2, <2>3
  <2>6. Seconds
    BY <2>2, <2>4, NextTurn
  <2>. QED
    BY <2>5, <2>6
<1>5. ASSUME NEW i \in Ids, Opens(i)
      PROVE  Firsts /\ Seconds
  <2>. DEFINE new == [As(i, "begin") EXCEPT !.signer = current]
  <2>1. Turn(i, new) /\ pool' = pool /\ new.pc = "begin" /\ i \notin pool
    BY <1>5, OpenedIs DEF Opens, KindsFit
  <2>. HIDE DEF new
  <2>2. /\ Signing' \subseteq Signing \cup {i}
        /\ \A j \in Ids : requests[j].causes \subseteq requests'[j].causes
    BY <2>1, SigningTurn
  <2>3. i \in Signing' => requests[i].kind = "transaction"
    BY <2>1, SigningNext DEF Turn, Turned
  <2>8. Seconds
    BY <2>1, NextTurn
  <2>4. CASE i \notin Signing'
    BY <1>2, <2>1, <2>4, <2>8
  <2>5. CASE i \in Signing' /\ Signing \ {i} # {}
    <3>1. \A j \in Signing \cup {i} : "abreast" \in requests'[j].causes
      BY <1>5, <2>3, <2>5, UnlockedIs DEF Opens
    <3>2. Firsts
      BY <2>2, <3>1 DEF Lone
    <3>. QED
      BY <2>8, <3>2
  <2>6. CASE Signing \subseteq {i}
    <3>1. Firsts
      BY <2>2, <2>6 DEF Lone
    <3>. QED
      BY <2>8, <3>1
  <2>. QED
    BY <2>4, <2>5, <2>6
<1>6. ASSUME NEW i \in Ids, Begins(i)
      PROVE  Firsts /\ Seconds
  <2>. DEFINE new == [As(i, "epoch") EXCEPT !.from = IF @ = None THEN current ELSE @]
  <2>1. /\ Turn(i, new) /\ pool' = pool /\ new.pc = "epoch" /\ requests[i].pc = "begin"
        /\ requests[i].kind = "transaction"
    BY <1>6, BegunIs DEF Begins, KindsFit
  <2>. HIDE DEF new
  <2>2. i \in Signing
    BY <2>1, SigningIs DEF Live
  <2>3. Firsts
    BY <1>2, <2>1, <2>2
  <2>4. Seconds
    BY <2>1, NextTurn
  <2>. QED
    BY <2>3, <2>4
<1>7. ASSUME NEW i \in Ids, Counts(i)
      PROVE  Firsts /\ Seconds
  <2>. DEFINE new == [As(i, "estimate") EXCEPT !.nonce = executed[requests[i].from]]
  <2>1. /\ Turn(i, new) /\ pool' = pool /\ requests[i].pc = "nonce" /\ requests[i].pc \in Node
        /\ new.nonce = executed[requests[i].from] /\ new.signer = requests[i].signer
    BY <1>7, CountedIs DEF Counts, Node
  <2>. HIDE DEF new
  <2>2. i \in Signing /\ requests[i].from \in Wallet
    BY <2>1, SigningIs DEF Live, KindsFit
  <2>3. requests[i].signer = requests[i].from \/ Moved(i)
    BY <2>1, <2>2, NoneAssumption DEF SenderInv, Live
  <2>4. new.nonce = executed[new.signer]
        \/ requests[i].causes \cap {"abreast", "switched", "behind"} # {}
    BY <2>1, <2>3 DEF Moved
  <2>5. Firsts
    BY <1>2, <2>1, <2>2
  <2>6. Seconds
    BY <2>1, <2>4, NextTurn
  <2>. QED
    BY <2>5, <2>6
<1>8. ASSUME NEW i \in Ids, GoesOn(i)
      PROVE  Firsts /\ Seconds
  <2>1. PICK pc \in {"nonce", "submit"} : Turn(i, As(i, pc)) /\ (pc = "submit" => requests[i].pc = "estimate")
    BY <1>8 DEF GoesOn
  <2>. DEFINE new == As(i, pc)
  <2>2. /\ Turn(i, new) /\ pool' = pool /\ new.pc = pc /\ requests[i].pc \in Node
        /\ new.nonce = requests[i].nonce /\ new.signer = requests[i].signer
    BY <1>8, <2>1, AsIs DEF GoesOn, Node
  <2>. HIDE DEF new
  <2>3. i \in Signing
    BY <2>2, SigningIs DEF Live, KindsFit
  <2>4. new.pc \in {"estimate", "submit"} =>
               new.nonce = executed[new.signer]
               \/ requests[i].causes \cap {"abreast", "switched", "behind"} # {}
    BY <1>0, <2>1, <2>2 DEF LoneParts, HasNext, At
  <2>5. Firsts
    BY <1>2, <2>2, <2>3
  <2>6. Seconds
    BY <2>2, <2>4, NextTurn
  <2>. QED
    BY <2>5, <2>6
<1>9. ASSUME NEW i \in Ids, Fails(i) \/ Sends(i)
      PROVE  Firsts /\ Seconds
  <2>. DEFINE new == As(i, "done")
  <2>1. /\ Turn(i, new) /\ pool' \in {pool, pool \cup {i}} /\ new.pc = "done" /\ requests[i].pc \in Node
    BY <1>9, AsIs DEF Fails, Sends, Node
  <2>. HIDE DEF new
  <2>2. i \in Signing
    BY <2>1, SigningIs DEF Live, KindsFit
  <2>3. Firsts
    BY <1>2, <2>1, <2>2
  <2>4. Seconds
    BY <2>1, NextTurn
  <2>. QED
    BY <2>3, <2>4
<1>10. ASSUME Still \/ Switched
       PROVE  Firsts /\ Seconds
  <2>1. /\ Ids' = Ids /\ UNCHANGED <<pool, executed>>
        /\ \A j \in Ids :
             /\ requests'[j].kind = requests[j].kind
             /\ requests[j].causes \subseteq requests'[j].causes
             /\ requests'[j].signer = requests[j].signer
             /\ requests'[j].nonce = requests[j].nonce /\ requests'[j].pc = requests[j].pc
    BY <1>10, TurnedNone DEF Still, Switched, node
  <2>2. Signing' \subseteq Signing
    BY <2>1, SigningIs, SigningNext
  <2>3. Firsts
    BY <2>1, <2>2, SigningIs, LoneShrinks
  <2>4. ASSUME NEW j \in Ids, requests'[j].pc \in {"estimate", "submit"}
        PROVE  HasNext(j)'
    <3>1. HasNext(j)
      BY <1>0, <2>1, <2>4 DEF LoneParts, At
    <3>. QED
      BY <2>1, <3>1 DEF HasNext
  <2>5. Seconds
    BY <2>1, <2>4 DEF At
  <2>. QED
    BY <2>3, <2>5
<1>11. ASSUME NEW added, NewStep(added), UNCHANGED node
       PROVE  Firsts /\ Seconds
  <2>0. PICK n : n = Len(requests) + 1
    OBVIOUS
  <2>1. /\ \A j \in Ids : requests'[j] = requests[j]
        /\ requests'[n].pc \in {"main", "call"} /\ n \notin pool
        /\ \A j \in Ids' : j \in Ids \/ j = n
        /\ UNCHANGED <<pool, executed>>
    BY <1>0, <1>11, <2>0, ReqIs DEF NewStep, Ids, node
  <2>2. n \notin Signing' /\ requests'[n].pc \notin {"estimate", "submit"}
    BY <2>1, SigningNext DEF Live, Node
  <2>3. Signing' \subseteq Signing
    BY <2>1, <2>2, SigningIs, SigningNext
  <2>4. Firsts
    BY <2>1, <2>3, SigningIs, LoneShrinks
  <2>5. ASSUME NEW j \in Ids', requests'[j].pc \in {"estimate", "submit"}
        PROVE  HasNext(j)'
    <3>1. j \in Ids /\ requests'[j] = requests[j]
      BY <2>1, <2>2, <2>5
    <3>2. HasNext(j)
      BY <1>0, <2>5, <3>1 DEF LoneParts, At
    <3>. QED
      BY <2>1, <3>1, <3>2 DEF HasNext
  <2>6. Seconds
    BY <2>5 DEF At
  <2>. QED
    BY <2>4, <2>6
<1>12. ASSUME NEW w \in Wallet, Execute(w)
       PROVE  Firsts /\ Seconds
  <2>1. /\ UNCHANGED <<requests, pool>> /\ Ids' = Ids
        /\ executed' = [executed EXCEPT ![w] = @ + 1]
    BY <1>12, ExecuteIs DEF Ids
  <2>2. PICK k \in pool : requests[k].signer = w /\ requests[k].nonce = executed[w]
    BY <1>12, ExecuteIs
  <2>3. /\ executed'[w] = executed[w] + 1 /\ executed[w] \in Nat
        /\ \A v \in Wallet \ {w} : executed'[v] = executed[v] /\ executed[v] \in Nat
    BY <1>0, <2>1
  <2>4. ASSUME NEW j \in pool, requests[j].nonce >= executed'[requests[j].signer]
        PROVE  requests[j].nonce >= executed[requests[j].signer]
    <3>1. requests[j].signer \in Wallet /\ requests[j].nonce \in Nat
      BY <1>0 DEF KindsFit, Req
    <3>2. CASE requests[j].signer = w
      BY <2>3, <2>4, <3>1, <3>2
    <3>3. CASE requests[j].signer # w
      BY <2>3, <2>4, <3>1, <3>3
    <3>. QED
      BY <3>2, <3>3
  <2>5. Signing' \subseteq Signing
    BY <2>1, <2>4, SigningIs, SigningNext
  <2>6. Firsts
    BY <2>1, <2>5, LoneShrinks
  <2>7. k \in Signing /\ requests[k].pc = "done"
    BY <1>0, <2>2, <2>3, SigningIs DEF KindsFit
  <2>8. ASSUME NEW j \in Ids, requests[j].pc \in {"estimate", "submit"}
        PROVE  HasNext(j)'
    <3>1. HasNext(j) /\ requests[j].pc \in Node
      BY <1>0, <2>8 DEF LoneParts, At, Node
    <3>2. j \in Signing /\ requests[j].signer \in Wallet /\ j # k
      BY <2>7, <2>8, <3>1, SigningIs DEF KindsFit, Live
    <3>3. "abreast" \in requests[j].causes
      BY <1>0, <2>7, <3>2 DEF LoneParts, Lone
    <3>. QED
      BY <2>1, <3>3 DEF HasNext
  <2>9. Seconds
    BY <2>1, <2>8 DEF At
  <2>. QED
    BY <2>6, <2>9
<1>. QED
  BY <1>1, <1>3, <1>4, <1>5, <1>6, <1>7, <1>8, <1>9, <1>10, <1>11, <1>12, CourseIs
  DEF Course, Goes, Comes, node

(* A transaction signed is taken by the node, or there is a cause: its     *)
(* number is the next one, and only another under way could have taken it. *)
LEMMA TakenStep ==
    ASSUME TypeInv, OneMain, OneDialog, KindsFit, SenderInv, LoneInv, [Next]_vars,
           NEW i \in Ids, requests[i].pc = "submit", requests'[i].pc = "done"
    PROVE  i \in pool' \/ requests'[i].causes \cap {"cut", "abreast", "switched", "behind"} # {}
<1>1. ASSUME NEW j \in Ids, NEW new, Turn(j, new), new.pc = requests[j].pc \/ j # i
      PROVE  FALSE
  <2>1. requests'[j].pc = requests[j].pc \/ j # i
    BY <1>1 DEF Turn, Turned
  <2>2. j # i => requests'[i].pc = requests[i].pc
    BY <1>1 DEF Turn, Turned
  <2>. QED
    BY <2>1, <2>2
<1>2. ASSUME NEW j \in Ids, Hearing(j)
      PROVE  FALSE
  <2>1. PICK told : Turn(j, [As(j, requests[j].pc) EXCEPT !.told = told])
    BY <1>2 DEF Hearing
  <2>. DEFINE new == [As(j, requests[j].pc) EXCEPT !.told = told]
  <2>2. Turn(j, new) /\ new.pc = requests[j].pc
    BY <2>1, ToldIs
  <2>. HIDE DEF new
  <2>. QED
    BY <1>1, <2>2
<1>3. ASSUME NEW j \in Ids, Stops(j) \/ Opens(j) \/ Begins(j) \/ Counts(j) \/ GoesOn(j)
      PROVE  FALSE
  <2>1. requests[j].pc # "submit"
    BY <1>3 DEF Stops, Opens, Begins, Counts, GoesOn
  <2>2. \E new : Turn(j, new)
    BY <1>3 DEF Stops, Opens, Begins, Counts, GoesOn
  <2>. QED
    BY <1>1, <2>1, <2>2
<1>4. ASSUME NEW j \in Ids, Sends(j)
      PROVE  i \in pool'
  <2>1. j = i
    BY <1>1, <1>4 DEF Sends
  <2>. QED
    BY <1>4, <2>1 DEF Sends
<1>5. ASSUME NEW j \in Ids, Fails(j)
      PROVE  requests'[i].causes \cap {"cut", "abreast", "switched", "behind"} # {}
  <2>1. j = i
    BY <1>1, <1>5 DEF Fails
  <2>2. requests[i].causes \subseteq requests'[i].causes
    BY <1>5 DEF Fails, Turn, Turned
  <2>3. CASE "cut" \in requests'[i].causes
    BY <2>3
  <2>4. CASE ~Taken(i) /\ requests[i].causes \cap {"abreast", "switched", "behind"} = {}
    <3>1. requests[i].pc \in Node
      BY DEF Node
    <3>2. i \in Signing /\ requests[i].signer \in Wallet
      BY <3>1, SigningIs DEF KindsFit, Live
    <3>3. requests[i].nonce = executed[requests[i].signer]
      BY <2>4, LonePartsIs DEF LoneParts, HasNext, At
    <3>4. requests[i].nonce \in Nat
      BY ReqIs DEF Req
    <3>5. PICK k \in pool : requests[k].signer = requests[i].signer /\ requests[k].nonce = requests[i].nonce
      BY <2>4, <3>3, <3>4 DEF Taken
    <3>6. k \in Signing /\ k # i
      BY <3>3, <3>4, <3>5, SigningIs, ReqTypeParts DEF KindsFit, Nodes
    <3>7. "abreast" \in requests[i].causes
      BY <3>2, <3>6, LonePartsIs DEF LoneParts, Lone
    <3>. QED
      BY <2>4, <3>7
  <2>. QED
    BY <1>5, <2>1, <2>2, <2>3, <2>4 DEF Fails
<1>6. ASSUME Still \/ Switched
      PROVE  FALSE
  <2>1. requests'[i].pc = requests[i].pc
    BY <1>6, TurnedNone DEF Still, Switched
  <2>. QED
    BY <2>1
<1>7. ASSUME Comes
      PROVE  FALSE
  BY <1>7 DEF Comes, NewStep
<1>8. ASSUME NEW w \in Wallet, Execute(w)
      PROVE  FALSE
  BY <1>8, ExecuteIs
<1>. QED
  BY <1>2, <1>3, <1>4, <1>5, <1>6, <1>7, <1>8, CourseIs DEF Course, Goes

-----------------------------------------------------------------------------
(* What is refused and what is asked                                       *)

(* The two ways out of RefusedInv                                          *)
Excused(i) == requests[i].causes \cap {"again", "lost"} # {}
Over(i)    == requests[i].pc = "done" /\ i \notin pool

(* A turn keeps RefusedInv if the request turned, once told or to be told  *)
(* an error, is over or excused.                                           *)
LEMMA DueTurn ==
    ASSUME TypeInv, RefusedInv, NEW i \in Ids, NEW new, Turned(i, new),
           NEW k \in {0, 1}, NEW added, Moves(main, main', k, added), Len(added) \in Nat,
           \A a \in 1..Len(added) : added[a].id = i,
           pool' = pool \/ pool' = pool \cup {i},
           (ErrorDue(i) \/ new.told = "error" \/ \E a \in 1..Len(added) : added[a].kind = "error")
               => (new.pc = "done" /\ i \notin pool') \/ Excused(i)'
    PROVE  RefusedInv'
<1>1. /\ Ids' = Ids /\ requests'[i].pc = new.pc /\ requests'[i].told = new.told
      /\ \A j \in Ids \ {i} : requests'[j].pc = requests[j].pc /\ requests'[j].told = requests[j].told
      /\ \A j \in Ids : requests[j].causes \subseteq requests'[j].causes
  BY DEF Turned
<1>2. Len(main) \in Nat
  BY ReqIs
<1>3. ASSUME NEW n \in 1..Len(main'), main'[n].kind = "error"
      PROVE  \/ \E m \in 1..Len(main) : main[m].kind = "error" /\ main[m].id = main'[n].id
             \/ main'[n].id = i /\ \E a \in 1..Len(added) : added[a].kind = "error"
  BY <1>3 DEF Moves
<1>4. ASSUME NEW j \in Ids \ {i}, ErrorDue(j)'
      PROVE  Over(j)' \/ Excused(j)'
  <2>1. ErrorDue(j)
    BY <1>1, <1>3, <1>4 DEF ErrorDue
  <2>2. Over(j) \/ Excused(j)
    BY <2>1 DEF RefusedInv, Over, Excused
  <2>. QED
    BY <1>1, <2>2 DEF Over, Excused
<1>5. ASSUME ErrorDue(i)'
      PROVE  Over(i)' \/ Excused(i)'
  <2>1. ErrorDue(i) \/ new.told = "error" \/ \E a \in 1..Len(added) : added[a].kind = "error"
    BY <1>1, <1>3, <1>5 DEF ErrorDue
  <2>. QED
    BY <1>1, <2>1 DEF Over
<1>. QED
  BY <1>1, <1>4, <1>5 DEF RefusedInv, Over, Excused

(* Who is not over is told an error only with an excuse.                   *)
LEMMA NotOver ==
    ASSUME TypeInv, RefusedInv, NEW i \in Ids, requests[i].pc # "done", ErrorDue(i)
    PROVE  Excused(i)
BY DEF RefusedInv, Excused

LEMMA DueGoes ==
    ASSUME TypeInv, RefusedInv, NEW i \in Ids, NEW new, Turned(i, new),
           NEW k \in {0, 1}, NEW added, Moves(main, main', k, added), Len(added) \in Nat,
           \A a \in 1..Len(added) : added[a].id = i,
           pool' = pool \/ pool' = pool \cup {i},
           requests[i].pc # "done", new.told = requests[i].told,
           (\E a \in 1..Len(added) : added[a].kind = "error")
               => (new.pc = "done" /\ i \notin pool') \/ Excused(i)'
    PROVE  RefusedInv'
<1>1. requests[i].causes \subseteq requests'[i].causes
  BY DEF Turned
<1>2. ErrorDue(i) \/ new.told = "error" => Excused(i)'
  <2>1. ErrorDue(i) \/ new.told = "error" => ErrorDue(i)
    BY DEF ErrorDue
  <2>. QED
    BY <1>1, <2>1, NotOver DEF Excused
<1>3. (ErrorDue(i) \/ new.told = "error" \/ \E a \in 1..Len(added) : added[a].kind = "error")
               => (new.pc = "done" /\ i \notin pool') \/ Excused(i)'
  BY <1>2
<1>. QED
  BY <1>3, DueTurn

(* Nothing is told, and no block posted.                                   *)
LEMMA DueQuiet ==
    ASSUME TypeInv, RefusedInv, \A new : Turned(0, new), UNCHANGED pool,
           \A n \in 1..Len(main') : \E m \in 1..Len(main) : main'[n] = main[m]
    PROVE  RefusedInv'
<1>1. ASSUME NEW j \in Ids, ErrorDue(j)'
      PROVE  Over(j)' \/ Excused(j)'
  <2>1. ErrorDue(j)
    BY <1>1, TurnedNone DEF ErrorDue
  <2>2. Over(j) \/ Excused(j)
    BY <2>1 DEF RefusedInv, Over, Excused
  <2>. QED
    BY <2>2, TurnedNone DEF Over, Excused
<1>. QED
  BY <1>1, TurnedNone DEF RefusedInv, Over, Excused

LEMMA DueNew ==
    ASSUME TypeInv, RefusedInv, NEW added, NewStep(added), UNCHANGED pool
    PROVE  RefusedInv'
<1>0. PICK n : n = Len(requests) + 1
  OBVIOUS
<1>1. /\ \A j \in Ids : requests'[j] = requests[j]
      /\ requests'[n].told = "nothing"
      /\ \A j \in Ids' : j \in Ids \/ j = n
      /\ Len(main) \in Nat /\ \A m \in 1..Len(main) : main[m].id # n
  BY <1>0, ReqIs DEF NewStep, Ids
<1>2. \A a \in 1..Len(added) : added[a].kind # "error"
  <2>1. CASE added = <<>>
    BY <2>1
  <2>2. CASE added # <<>>
    <3>1. PICK b \in Blk : added = <<b>> /\ b.kind \in {"allow", "sign"}
      BY <2>2 DEF NewStep
    <3>. QED
      BY <3>1
  <2>. QED
    BY <2>1, <2>2
<1>3. ASSUME NEW m \in 1..Len(main'), main'[m].kind = "error"
      PROVE  m \in 1..Len(main) /\ main'[m] = main[m]
  <2>1. Moves(main, main', 0, added)
    BY DEF NewStep
  <2>2. \/ m + 0 \in 1..Len(main) /\ main'[m] = main[m + 0]
        \/ m - (Len(main) - 0) \in 1..Len(added) /\ main'[m] = added[m - (Len(main) - 0)]
    BY <2>1 DEF Moves
  <2>3. m \in Int
    BY <2>1 DEF Moves
  <2>. QED
    BY <1>1, <1>2, <1>3, <2>2, <2>3
<1>4. ASSUME NEW j \in Ids, ErrorDue(j)'
      PROVE  Over(j)' \/ Excused(j)'
  <2>1. ErrorDue(j)
    BY <1>1, <1>3, <1>4 DEF ErrorDue
  <2>2. Over(j) \/ Excused(j)
    BY <2>1 DEF RefusedInv, Over, Excused
  <2>. QED
    BY <1>1, <2>2 DEF Over, Excused
<1>5. ~ErrorDue(n)'
  BY <1>1, <1>3 DEF ErrorDue
<1>. QED
  BY <1>1, <1>4, <1>5 DEF RefusedInv, Over, Excused

(* A request that ends, and one that goes on                               *)
LEMMA DueEnd ==
    ASSUME TypeInv, KindsFit, RefusedInv, NEW i \in Ids, NEW value \in {"result", "error"},
           EndStep(i, value), requests[i].pc # "done",
           \/ pool' = pool
           \/ pool' = pool \cup {i} /\ (value = "result" \/ "lost" \in requests'[i].causes)
    PROVE  RefusedInv'
<1>1. /\ Turned(i, As(i, "done")) /\ Moves(main, main', 0, <<Block(value, i)>>)
      /\ As(i, "done").told = requests[i].told /\ As(i, "done").pc = "done"
  BY AsIs DEF EndStep, WorkStep
<1>2. Block(value, i).id = i /\ Block(value, i).kind = value
  BY DEF Block
<1>3. i \notin pool
  BY DEF KindsFit
<1>. DEFINE added == <<Block(value, i)>>
            new   == As(i, "done")
<1>4. /\ Len(added) \in Nat /\ \A a \in 1..Len(added) : added[a].id = i /\ added[a].kind = value
  BY <1>2
<1>. HIDE DEF added, new
<1>5. (\E a \in 1..Len(added) : added[a].kind = "error")
               => (new.pc = "done" /\ i \notin pool') \/ Excused(i)'
  BY <1>1, <1>3, <1>4 DEF Excused, new
<1>. QED
  BY <1>1, <1>4, <1>5, DueGoes DEF added, new

LEMMA DueOn ==
    ASSUME TypeInv, RefusedInv, NEW i \in Ids, NEW new, Turned(i, new),
           NEW k \in {0, 1}, NEW added, Moves(main, main', k, added), Len(added) \in Nat,
           \A a \in 1..Len(added) : added[a].id = i /\ added[a].kind # "error",
           UNCHANGED pool, requests[i].pc # "done", new.told = requests[i].told
    PROVE  RefusedInv'
BY DueGoes

(* The steps at work keep RefusedInv, and the answers of the user, and the *)
(* blocks of the main queue.                                               *)
LEMMA DueSign ==
    ASSUME TypeInv, OneMain, OneDialog, KindsFit, RefusedInv, NEW i \in Ids, Sign(i)
    PROVE  RefusedInv'
<1>0. ASSUME NEW new, WorkStep(i, new, <<>>), new.told = requests[i].told, UNCHANGED pool,
             requests[i].pc # "done"
      PROVE  RefusedInv'
  <2>1. Turned(i, new) /\ Moves(main, main', 0, <<>>)
    BY <1>0 DEF WorkStep
  <2>. QED
    BY <1>0, <2>1, DueOn
<1>1. CASE Keychain(i)
  <2>1. requests[i].pc = "keychain" /\ UNCHANGED <<rest, node>>
    BY <1>1, KeychainIs
  <2>2. CASE WorkStep(i, [As(i, "begin") EXCEPT !.signer = current], <<>>)
    BY <1>0, <2>1, <2>2, OpenedIs DEF node
  <2>3. ASSUME NEW added, PasswordStep(i, added)
        PROVE  RefusedInv'
    <3>1. /\ Turned(i, As(i, "main")) /\ Moves(main, main', 0, added)
          /\ As(i, "main").told = requests[i].told
      BY <2>3, AsIs DEF PasswordStep
    <3>2. Len(added) \in Nat /\ \A a \in 1..Len(added) : added[a].id = i
      <4>1. CASE added = <<Block("password", i)>>
        BY <4>1 DEF Block
      <4>2. CASE added = <<Block("error", i), Block("password", i)>>
        BY <4>2 DEF Block
      <4>. QED
        BY <2>3, <4>1, <4>2 DEF PasswordStep
    <3>3. (\E a \in 1..Len(added) : added[a].kind = "error") => Excused(i)'
      <4>1. CASE added = <<Block("password", i)>>
        BY <4>1 DEF Block
      <4>2. CASE "again" \in requests'[i].causes
        BY <4>2 DEF Excused
      <4>. QED
        BY <2>3, <4>1, <4>2 DEF PasswordStep
    <3>. DEFINE new == As(i, "main")
    <3>. HIDE DEF new
    <3>. QED
      BY <2>1, <3>1, <3>2, <3>3, DueGoes DEF node, new
  <2>. QED
    BY <1>1, <2>2, <2>3, KeychainIs
<1>2. CASE Begin(i)
  <2>1. requests[i].pc = "begin" /\ UNCHANGED pool
    BY <1>2, BeginIs DEF node
  <2>2. CASE \E value \in {"result", "error"} : EndStep(i, value)
    BY <2>1, <2>2, DueEnd
  <2>3. CASE WorkStep(i, [As(i, "epoch") EXCEPT !.from = IF @ = None THEN current ELSE @], <<>>)
    BY <1>0, <2>1, <2>3, BegunIs
  <2>. QED
    BY <1>2, <2>2, <2>3, BeginIs
<1>3. CASE EpochArrived(i)
  BY <1>0, <1>3, EpochIs, DueEnd, AsIs DEF node
<1>4. CASE NonceArrived(i)
  <2>1. requests[i].pc = "nonce" /\ UNCHANGED pool
    BY <1>4, NonceIs DEF node
  <2>2. CASE WorkStep(i, [As(i, "estimate") EXCEPT !.nonce = executed[requests[i].from]], <<>>)
    BY <1>0, <2>1, <2>2, CountedIs
  <2>. QED
    BY <1>4, <2>1, <2>2, NonceIs, DueEnd
<1>5. CASE EstimateArrived(i)
  BY <1>0, <1>5, EstimateIs, DueEnd, AsIs DEF node
<1>6. CASE Submitted(i)
  BY <1>6, SubmittedIs, DueEnd
<1>7. CASE CallArrived(i)
  BY <1>7, CallIs, DueEnd DEF node
<1>8. \/ Keychain(i) \/ Begin(i) \/ EpochArrived(i) \/ NonceArrived(i) \/ EstimateArrived(i)
      \/ Submitted(i) \/ CallArrived(i)
  BY DEF Sign
<1>. QED
  BY ONLY <1>1, <1>2, <1>3, <1>4, <1>5, <1>6, <1>7, <1>8

(* An answer of the user ends the request, or posts nothing.               *)
LEMMA DueReply ==
    ASSUME TypeInv, OneDialog, KindsFit, RefusedInv, NEW new, NEW added,
           ReplyStep(Top.id, new, added), new.told = requests[Top.id].told, UNCHANGED pool,
           new.pc = "done" \/ added = <<>>
    PROVE  RefusedInv'
<1>1. PICK i : i = Top.id
  OBVIOUS
<1>2. i \in Ids /\ requests[i].pc = "dialog"
  BY <1>1, FrontIs DEF ReplyStep, OneDialog
<1>3. i \notin pool /\ requests[i].pc # "done"
  BY <1>2 DEF KindsFit
<1>4. /\ Turned(i, new) /\ Moves(main, main', 0, added) /\ Len(added) \in Nat
      /\ \A a \in 1..Len(added) : added[a].id = i
  BY <1>1 DEF ReplyStep, Plain
<1>5. (\E a \in 1..Len(added) : added[a].kind = "error") => new.pc = "done" /\ i \notin pool'
  BY <1>3
<1>. QED
  BY <1>1, <1>2, <1>3, <1>4, <1>5, DueGoes

LEMMA DueDialog ==
    ASSUME TypeInv, OneDialog, KindsFit, RefusedInv, Dialog
    PROVE  RefusedInv'
<1>1. ASSUME NEW yes \in BOOLEAN, AnswerAllow(yes)
      PROVE  RefusedInv'
  BY <1>1, AllowIs, DueReply, AsIs DEF node
<1>2. CASE ConfirmSign
  BY <1>2, ConfirmIs, DueReply, AsIs DEF node
<1>3. CASE RefuseSign \/ WrongPassword
  BY <1>3, RefuseIs, DueReply, AsIs DEF node, EndReply
<1>4. CASE EnterPassword
  BY <1>4, EnterIs, DueReply, OpenedIs DEF node
<1>5. CASE ForgetPassword
  BY <1>5, ForgetIs, DueReply, AsIs DEF node
<1>. QED
  BY <1>1, <1>2, <1>3, <1>4, <1>5 DEF Dialog

LEMMA DueRun ==
    ASSUME TypeInv, OneMain, KindsFit, RefusedInv, RunMain
    PROVE  RefusedInv'
<1>0. PICK i : i = main[1].id
  OBVIOUS
<1>1. /\ UNCHANGED pool /\ i \in Ids /\ 1 \in 1..Len(main) /\ Len(main) \in Nat
      /\ TellStep(main[1]) \/ LostStep(main[1]) \/ DialogStep(main[1]) \/ GrantStep(main[1])
  BY <1>0, RunIs, ReqIs DEF node
<1>2. main[1].kind \in Asks => requests[i].pc = "main"
  BY <1>0, <1>1 DEF OneMain
<1>3. CASE TellStep(main[1])
  <2>1. PICK told \in {requests[i].told, main[1].kind} :
            Turned(i, [As(i, requests[i].pc) EXCEPT !.told = told])
    BY <1>0, <1>3 DEF TellStep
  <2>. DEFINE new == [As(i, requests[i].pc) EXCEPT !.told = told]
  <2>2. Turned(i, new) /\ new.pc = requests[i].pc /\ new.told = told
    BY <2>1, ToldIs
  <2>. HIDE DEF new
  <2>3. Moves(main, main', 1, <<>>) /\ \A a \in 1..Len(<<>>) : FALSE
    BY <1>3 DEF TellStep
  <2>4. told = "error" => ErrorDue(i)
    BY <1>0, <1>1, <2>1 DEF ErrorDue
  <2>5. requests[i].causes \subseteq requests'[i].causes
    BY <1>1, <2>2 DEF Turned
  <2>6. ErrorDue(i) => (new.pc = "done" /\ i \notin pool') \/ Excused(i)'
    BY <1>1, <2>2, <2>5 DEF RefusedInv, Excused
  <2>. QED
    BY <1>1, <2>2, <2>3, <2>4, <2>6, DueTurn
<1>4. CASE LostStep(main[1])
  <2>1. \A new : Turned(0, new)
    BY <1>4, StillIs DEF LostStep
  <2>2. \A n \in 1..Len(main') : \E m \in 1..Len(main) : main'[n] = main[m]
    BY <1>4 DEF LostStep, Moves
  <2>. QED
    BY <1>1, <2>1, <2>2, DueQuiet
<1>5. CASE DialogStep(main[1])
  <2>. DEFINE new == As(i, "dialog")
  <2>1. /\ Turned(i, new) /\ Moves(main, main', 1, <<>>) /\ requests[i].pc = "main"
        /\ new.told = requests[i].told
    BY <1>0, <1>2, <1>5, AsIs DEF DialogStep
  <2>. HIDE DEF new
  <2>. QED
    BY <1>1, <2>1, DueOn
<1>6. CASE GrantStep(main[1])
  <2>. DEFINE new == As(i, "done")
  <2>1. Turned(i, new) /\ requests[i].pc = "main" /\ new.told = requests[i].told
    BY <1>0, <1>2, <1>6, AsIs DEF GrantStep, Asks
  <2>2. PICK c \in Blk : c.kind = "result" /\ c.id = i /\ Moves(main, main', 1, <<c>>)
    BY <1>0, <1>6 DEF GrantStep
  <2>3. Len(<<c>>) \in Nat /\ \A a \in 1..Len(<<c>>) : <<c>>[a].id = i /\ <<c>>[a].kind # "error"
    BY <2>2
  <2>. HIDE DEF new
  <2>. QED
    BY <1>1, <2>1, <2>2, <2>3, DueOn
<1>. QED
  BY <1>1, <1>3, <1>4, <1>5, <1>6

(* RefusedInv is inductive with the invariant of the course.               *)
LEMMA RefusedStep ==
    ASSUME TypeInv, OneMain, OneDialog, KindsFit, RefusedInv, [Next]_vars
    PROVE  RefusedInv'
<1>1. CASE ProcessRequest
  BY <1>1, ProcessIs, DueNew DEF node
<1>2. ASSUME OtherStep, UNCHANGED pool
      PROVE  RefusedInv'
  BY <1>2, DueQuiet DEF OtherStep
<1>3. CASE UNCHANGED vars
  BY <1>2, <1>3, StillIs DEF OtherStep, vars, node
<1>4. CASE Load \/ Move
  BY <1>2, <1>4, PageIs, SwitchIs DEF Move, node
<1>5. ASSUME NEW w \in Wallet, Execute(w)
      PROVE  RefusedInv'
  BY <1>2, <1>5, ExecuteIs
<1>. QED
  BY <1>1, <1>3, <1>4, <1>5, DueRun, DueDialog, DueSign DEF Next

(* From it follows that what is refused is not sent.                       *)
LEMMA RefusedKept == TypeInv /\ KindsFit /\ RefusedInv => RefusedIsNotSent
BY DEF RefusedInv, RefusedIsNotSent, ErrorDue

(* The dialogs for the address, by their places                            *)
AskedAt == \A m \in 1..Len(dialogs) :
               approved /\ dialogs[m].kind = "allow" => "stacked" \in requests[dialogs[m].id].causes

LEMMA AskedIs == TypeInv => (AskedAt <=> AskedOnce)
BY ReqIs DEF AskedAt, AskedOnce, Range

LEMMA AskedNext == TypeInv' => (AskedAt' <=> AskedOnce')
BY AskedIs, PTL

(* No dialog is added, and nothing allowed.                                *)
LEMMA AskedShrinks ==
    ASSUME TypeInv, AskedAt, approved' = approved,
           \A j \in Ids : requests[j].causes \subseteq requests'[j].causes,
           \A m \in 1..Len(dialogs') : m \in 1..Len(dialogs) /\ dialogs'[m] = dialogs[m]
    PROVE  AskedAt'
<1>1. ASSUME NEW m \in 1..Len(dialogs'), approved', dialogs'[m].kind = "allow"
      PROVE  "stacked" \in requests'[dialogs'[m].id].causes
  <2>1. m \in 1..Len(dialogs) /\ dialogs'[m] = dialogs[m] /\ approved
    BY <1>1
  <2>2. dialogs[m].id \in Ids
    BY <2>1, ReqIs
  <2>3. "stacked" \in requests[dialogs[m].id].causes
    BY <1>1, <2>1 DEF AskedAt
  <2>. QED
    BY <2>1, <2>2, <2>3
<1>. QED
  BY <1>1 DEF AskedAt

(* Causes are never taken back.                                            *)
LEMMA TurnCauses == \A i, new : Turned(i, new) => \A j \in Ids : requests[j].causes \subseteq requests'[j].causes
BY DEF Turned

(* The address is asked for once: a dialog comes up only before it was     *)
(* allowed, and those up then are known.                                   *)
LEMMA AskedStep ==
    ASSUME TypeInv, OneMain, OneDialog, KindsFit, AskedAt, [Next]_vars
    PROVE  AskedAt'
<1>0. \A m \in 1..Len(dialogs) : m \in 1..Len(dialogs) /\ dialogs[m] = dialogs[m]
  OBVIOUS
<1>1. CASE ProcessRequest
  <2>1. /\ approved' = approved /\ dialogs' = dialogs
        /\ \A j \in Ids : requests'[j] = requests[j]
    BY <1>1, ProcessIs DEF NewStep
  <2>. QED
    BY <2>1, AskedShrinks
<1>2. ASSUME OtherStep, UNCHANGED approved
      PROVE  AskedAt'
  <2>1. \A j \in Ids : requests[j].causes \subseteq requests'[j].causes
    BY <1>2, TurnCauses DEF OtherStep
  <2>2. CASE UNCHANGED dialogs
    BY <1>2, <2>1, <2>2, AskedShrinks
  <2>3. CASE dialogs' = <<>>
    BY <2>3 DEF AskedAt
  <2>. QED
    BY <1>2, <2>2, <2>3 DEF OtherStep
<1>3. CASE UNCHANGED vars
  BY <1>2, <1>3, StillIs DEF OtherStep, vars
<1>4. CASE Load \/ Move
  BY <1>2, <1>4, PageIs, SwitchIs DEF Move
<1>5. ASSUME NEW w \in Wallet, Execute(w)
      PROVE  AskedAt'
  BY <1>2, <1>5, ExecuteIs DEF rest
<1>6. ASSUME NEW i \in Ids, Sign(i)
      PROVE  AskedAt'
  <2>1. approved' = approved /\ dialogs' = dialogs
    BY <1>6 DEF Sign, Keychain, Begin, EpochArrived, NonceArrived, EstimateArrived, Submitted, CallArrived
  <2>2. \E new : Turned(i, new)
    BY <1>6, SignGoes DEF Goes, Stops, Hearing, Opens, Begins, Counts, GoesOn, Fails, Sends, Turn
  <2>. QED
    BY <2>1, <2>2, TurnCauses, AskedShrinks
<1>7. ASSUME NEW new, NEW added, ReplyStep(Top.id, new, added), UNCHANGED approved
      PROVE  AskedAt'
  BY <1>7, FrontIs, TurnCauses, AskedShrinks DEF ReplyStep
<1>8. ASSUME NEW yes \in BOOLEAN, AnswerAllow(yes)
      PROVE  AskedAt'
  <2>1. /\ approved' = (approved \/ yes)
        /\ \E b \in Blk : ReplyStep(Top.id, As(Top.id, "done"), <<b>>)
        /\ yes => \A m \in 1..Len(dialogs') :
                     dialogs'[m].kind = "allow" => "stacked" \in requests'[dialogs'[m].id].causes
    BY <1>8, AllowIs
  <2>2. CASE yes
    BY <2>1, <2>2 DEF AskedAt
  <2>3. CASE ~yes
    <3>1. approved \in BOOLEAN
      BY ReqTypeParts DEF Places
    <3>2. approved' = approved
      BY <2>1, <2>3, <3>1
    <3>. QED
      BY <1>7, <2>1, <3>2
  <2>. QED
    BY <2>2, <2>3
<1>9. CASE Dialog
  <2>1. CASE ConfirmSign
    BY <1>7, <2>1, ConfirmIs DEF rest
  <2>2. CASE RefuseSign \/ WrongPassword
    BY <1>7, <2>2, RefuseIs DEF rest, EndReply
  <2>3. CASE EnterPassword
    BY <1>7, <2>3, EnterIs DEF rest
  <2>4. CASE ForgetPassword
    BY <1>7, <2>4, ForgetIs
  <2>. QED
    BY <1>8, <1>9, <2>1, <2>2, <2>3, <2>4 DEF Dialog
<1>10. CASE RunMain
  <2>1. /\ main[1] \in Blk /\ approved' = approved
        /\ TellStep(main[1]) \/ LostStep(main[1]) \/ DialogStep(main[1]) \/ GrantStep(main[1])
    BY <1>10, RunIs
  <2>2. \A j \in Ids : requests[j].causes \subseteq requests'[j].causes
    BY <2>1, TurnCauses DEF TellStep, LostStep, DialogStep, GrantStep
  <2>3. CASE UNCHANGED dialogs
    BY <2>1, <2>2, <2>3, AskedShrinks
  <2>4. CASE DialogStep(main[1])
    <3>1. dialogs \in Seq(Blk) /\ dialogs' = Append(dialogs, main[1]) /\ Len(dialogs) \in Nat
      BY <2>4, ReqIs DEF DialogStep, TypeInv
    <3>2. /\ Len(dialogs') = Len(dialogs) + 1 /\ dialogs'[Len(dialogs) + 1] = main[1]
          /\ \A m \in 1..Len(dialogs) : dialogs'[m] = dialogs[m]
      BY <2>1, <3>1, AppendProperties
    <3>3. ASSUME NEW m \in 1..Len(dialogs'), approved', dialogs'[m].kind = "allow"
          PROVE  "stacked" \in requests'[dialogs'[m].id].causes
      <4>1. CASE m = Len(dialogs) + 1
        BY <2>1, <2>4, <3>2, <3>3, <4>1 DEF DialogStep
      <4>2. CASE m # Len(dialogs) + 1
        <5>1. m \in 1..Len(dialogs) /\ dialogs'[m] = dialogs[m] /\ approved
          BY <2>1, <3>1, <3>2, <3>3, <4>2
        <5>2. dialogs[m].id \in Ids /\ "stacked" \in requests[dialogs[m].id].causes
          BY <3>3, <5>1, ReqIs DEF AskedAt
        <5>. QED
          BY <2>2, <5>1, <5>2
      <4>. QED
        BY <4>1, <4>2
    <3>. QED
      BY <3>3 DEF AskedAt
  <2>. QED
    BY <2>1, <2>3, <2>4 DEF TellStep, LostStep, GrantStep
<1>. QED
  BY <1>1, <1>3, <1>4, <1>5, <1>6, <1>9, <1>10 DEF Next

-----------------------------------------------------------------------------
(* The invariant, and the theorem                                          *)

(* The invariant of the requests                                           *)
ReqInv == WayInv /\ SenderInv /\ LoneInv /\ RefusedInv /\ AskedAt

LEMMA ReqInit == Init => ReqInv
<1>. SUFFICES ASSUME Init PROVE ReqInv
  OBVIOUS
<1>1. requests = <<>> /\ Ids = {} /\ main = <<>> /\ dialogs = <<>> /\ pool = {}
  BY DEF Init, Ids
<1>2. Places /\ Arrived /\ Waiting /\ Nodes
  <2>1. Places
    <3>1. {approved, trapped} \subseteq BOOLEAN
      BY DEF Init
    <3>2. /\ current \in Wallet /\ stale \subseteq Wallet
          /\ view \in {"shown", "away", "import", "gone"} /\ page \in 0..MaxChange
          /\ known \in Someone /\ switches \in 0..MaxChange
      BY BoundAssumption DEF Init, Someone
    <3>. QED
      BY <3>1, <3>2 DEF Places
  <2>2. Nodes
    BY <1>1, BoundAssumption DEF Init, Nodes
  <2>3. Arrived /\ Waiting
    BY <1>1, BoundAssumption DEF Arrived, Waiting
  <2>. QED
    BY <2>1, <2>2, <2>3
<1>3. \A w \in Wallet : executed[w] = 0
  BY DEF Init
<1>4. WayInv
  BY <1>1, <1>2, <1>3, ReqTypeParts DEF WayInv, OneMain, OneDialog, KindsFit, Counted
<1>5. SenderInv /\ LoneInv /\ RefusedInv /\ AskedAt
  BY <1>1 DEF SenderInv, LoneInv, RefusedInv, AskedAt, Signing, At
<1>. QED
  BY <1>4, <1>5 DEF ReqInv

LEMMA ReqStep == ReqInv /\ [Next]_vars => ReqInv'
BY WayStep, SenderStep, LoneStep, RefusedStep, AskedStep DEF ReqInv, WayInv

(* What the pages are promised of each state, and of each step             *)
LEMMA ReqKept == ReqInv => TypeOK /\ RefusedIsNotSent /\ SignedByItsSender /\ AskedOnce
BY RefusedKept, SenderKept, AskedIs DEF ReqInv, WayInv, TypeInv

LEMMA ReqTaken == ReqInv /\ [Next]_vars =>
    \A i \in Ids : requests[i].pc = "submit" /\ requests'[i].pc = "done"
                   => i \in pool'
                      \/ requests'[i].causes \cap {"cut", "abreast", "switched", "behind"} # {}
BY TakenStep DEF ReqInv, WayInv

(* RequestsRight: whatever the pages ask and the user answers, what is     *)
(* refused is not sent, transactions are signed by their sender, the       *)
(* address is asked for once, and what was signed is taken, each but for   *)
(* the causes named.                                                       *)
THEOREM RequestsStayRight == Parts => RequestsRight
<1>1. PartsInit => ReqInv
  BY ReqInit DEF PartsInit
<1>2. [PartsNext]_<<part, vars, stores, form>> => [Next]_vars
  BY DEF PartsNext
<1>3. ReqInv /\ [Next]_vars =>
      [\A i \in Ids : requests[i].pc = "submit" /\ requests'[i].pc = "done"
                      => i \in pool'
                         \/ requests'[i].causes \cap {"cut", "abreast", "switched", "behind"} # {}]_vars
  BY ReqTaken
<1>. QED
  BY <1>1, <1>2, <1>3, ReqStep, ReqKept, PTL DEF Parts, RequestsRight, SignedIsTaken
=============================================================================
