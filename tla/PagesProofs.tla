----------------------------- MODULE PagesProofs -----------------------------
(***************************************************************************)
(* Theorems about the front ends: the pages of the app (Pages), for every  *)
(* number of accounts, clicks and losses, then the payroll page (Payroll), *)
(* for every number of rows, sends and actions.                            *)
(***************************************************************************)
EXTENDS Pages, Payroll, SequenceTheorems, TLAPS

-----------------------------------------------------------------------------
(* Type correctness.                                                       *)

Account == Holders \cup {None}
Keys == KeyPairs \cup {None}

BrowserType ==
  /\ active \in Holders
  /\ network \in Networks
  /\ stored \in [Holders -> Keys]

PageType ==
  [loaded : BOOLEAN, connected : BOOLEAN, address : Account, network : Networks \cup {None},
   keys : Keys, recipient : Account, submit : BOOLEAN, paying : BOOLEAN,
   dropdown : BOOLEAN, registering : BOOLEAN, watching : BOOLEAN,
   seen : {<<>>} \cup (Holders \X Networks),
   notes : Account, refreshing : BOOLEAN, polling : BOOLEAN,
   cached : BOOLEAN, rows : SUBSET [who : Holders, keys : KeyPairs \cup {"listed"}]]

Wizard == {"disclaimer", "accepting", "storage", "derive", "deriving"}
Onboarded == {"terms", "keys"} \cup Wizard  \* the account is asked about

TaskType ==
  [kind : {"none", "connect", "change"},
   stage : {"none", "access", "network", "wasm"} \cup Onboarded,
   who : Account, terms : BOOLEAN, storage : BOOLEAN, keys : Keys]

TaskOps == {"terms", "keys", "accept", "save", "got"}
Request ==
  [op : TaskOps \cup {"notes", "self", "book", "filter"}, who : Account,
   pair : Keys, live : BOOLEAN]

Signing == [who : Holders, live : BOOLEAN]

AdmType ==
  [address : Account, connecting : SUBSET Holders, client : [Contracts -> Account],
   crossed : SUBSET Contracts, source : Account,
   insertOnly : {None, "admin", "anyone"}, toggle : BOOLEAN, refreshing : BOOLEAN]

DerivationType ==
  [id : Nat, who : Account, for : {"forms", "leaf"},
   stage : {"lookup", "first", "second", "save"}, pair : Keys]

CallType ==
  [id : Nat, contract : Contracts, source : Account, created : BOOLEAN, crossed : BOOLEAN]

AdminType ==
  /\ adm \in AdmType
  /\ deriving \subseteq DerivationType
  /\ calls \subseteq CallType
  /\ adminClicks \in Nat

-----------------------------------------------------------------------------
(* The admin page.                                                         *)

\* A cached client is the connected account's, or one whose creation the end
\* of a connect() crossed.
ClientsFit ==
  \A c \in Contracts : adm.client[c] # None => adm.client[c] = adm.address \/ c \in adm.crossed

AdminInv == AdminType /\ ClientsFit /\ PageSpeaksForOneAccount

LEMMA CallIsTyped ==
  ASSUME AdminType, NEW c \in Contracts, NEW source \in Account, NEW crossed \in BOOLEAN
  PROVE  Call(c, source, crossed) \in CallType
BY DEF AdminType, Call, CallType

LEMMA WithClientInv ==
  ASSUME AdminInv, NEW c \in Contracts, WithClient(c), adminClicks' \in Nat
  PROVE  AdminInv'
<1>1. adm' = adm /\ deriving' = deriving /\ adm \in AdmType
  BY DEF WithClient, AdminInv, AdminType
<1>2. PICK source \in Account, crossed \in BOOLEAN :
        /\ calls' = calls \cup {Call(c, source, crossed)}
        /\ source = adm.address \/ crossed
  <2>1. CASE adm.client[c] # None
    <3>1. adm.client[c] \in Account /\ (c \in adm.crossed) \in BOOLEAN
      BY <1>1 DEF AdmType
    <3>2. adm.client[c] = adm.address \/ c \in adm.crossed
      BY <2>1 DEF AdminInv, ClientsFit
    <3>3. calls' = calls \cup {Call(c, adm.client[c], c \in adm.crossed)}
      BY <2>1 DEF WithClient
    <3>4. QED
      BY <3>1, <3>2, <3>3
  <2>2. CASE adm.client[c] = None
    <3>1. adm.address \in Account
      BY <1>1 DEF AdmType
    <3>2. calls' = calls \cup {Call(c, adm.address, FALSE)}
      BY <2>2 DEF WithClient
    <3>3. QED
      BY <3>1, <3>2
  <2>3. QED
    BY <2>1, <2>2
<1>3. Call(c, source, crossed) \in CallType
  BY CallIsTyped DEF AdminInv
<1>4. Call(c, source, crossed).source = source /\ Call(c, source, crossed).crossed = crossed
  BY DEF Call
<1>5. AdminType'
  BY <1>1, <1>2, <1>3 DEF AdminInv, AdminType
<1>6. PageSpeaksForOneAccount'
  BY <1>1, <1>2, <1>4 DEF AdminInv, PageSpeaksForOneAccount
<1>7. QED
  BY <1>1, <1>5, <1>6 DEF AdminInv, ClientsFit

\* The end of a connect() drops the clients and marks what it crosses.
LEMMA ConnectedInv ==
  ASSUME AdminInv, NEW a \in Holders, AdminConnected(a)
  PROVE  AdminInv'
<1>1. /\ adm \in AdmType /\ calls \subseteq CallType /\ deriving' = deriving
      /\ adminClicks' = adminClicks
  BY DEF AdminInv, AdminType, AdminConnected
<1>2. adm' \in AdmType /\ adm'.client = [c \in Contracts |-> None]
  BY <1>1 DEF AdminConnected, Invalidated, AdmType, Account
<1>3. \A c \in calls' : c \in CallType /\ c.crossed
  BY <1>1 DEF AdminConnected, CallType
<1>4. AdminType'
  BY <1>1, <1>2, <1>3 DEF AdminInv, AdminType
<1>5. ClientsFit'
  BY <1>2 DEF ClientsFit
<1>6. PageSpeaksForOneAccount'
  BY <1>3 DEF PageSpeaksForOneAccount
<1>7. QED
  BY <1>4, <1>5, <1>6 DEF AdminInv

\* A client that is created is the connected account's, unless it is crossed.
LEMMA ClientCreatedInv ==
  ASSUME AdminInv, NEW call \in calls, ClientCreated(call)
  PROVE  AdminInv'
<1>1. /\ adm \in AdmType /\ calls \subseteq CallType /\ call \in CallType
      /\ deriving' = deriving /\ adminClicks' = adminClicks
  BY DEF AdminInv, AdminType, ClientCreated
<1>2. call.source = adm.address \/ call.crossed
  BY DEF AdminInv, PageSpeaksForOneAccount
<1>3. /\ call.contract \in Contracts /\ call.source \in Account
      /\ adm'.address = adm.address
      /\ adm'.client = [adm.client EXCEPT ![call.contract] = call.source]
      /\ adm'.crossed = IF call.crossed THEN adm.crossed \cup {call.contract}
                        ELSE adm.crossed \ {call.contract}
  BY <1>1 DEF ClientCreated, AdmType, CallType
<1>4. adm' \in AdmType
  BY <1>1, <1>3 DEF ClientCreated, AdmType
<1>5. calls' \subseteq CallType
  BY <1>1 DEF ClientCreated, CallType
<1>6. ClientsFit'
  <2> SUFFICES ASSUME NEW c \in Contracts, adm'.client[c] # None
               PROVE  adm'.client[c] = adm'.address \/ c \in adm'.crossed
    BY DEF ClientsFit
  <2>1. adm.client \in [Contracts -> Account]
    BY <1>1 DEF AdmType
  <2>2. CASE c = call.contract
    BY <1>2, <1>3, <2>1, <2>2
  <2>3. CASE c # call.contract
    BY <1>3, <2>1, <2>3 DEF AdminInv, ClientsFit
  <2>4. QED
    BY <2>2, <2>3
<1>7. PageSpeaksForOneAccount'
  BY <1>1, <1>2, <1>3 DEF AdminInv, PageSpeaksForOneAccount, ClientCreated, CallType
<1>8. QED
  BY <1>1, <1>4, <1>5, <1>6, <1>7 DEF AdminInv, AdminType

LEMMA DerivationIsTyped ==
  ASSUME AdminType, BrowserType, NEW d \in deriving,
         LookUp(d) \/ SignFirst(d) \/ SignSecond(d) \/ SaveDerived(d) \/ DerivationFails(d)
  PROVE  AdminType' /\ UNCHANGED calls /\ adm'.client = adm.client
         /\ adm'.address = adm.address /\ adm'.crossed = adm.crossed
<1>1. adm \in AdmType /\ d \in DerivationType /\ deriving \subseteq DerivationType
  BY DEF AdminType
<1>2. ASSUME NEW stage \in {"lookup", "first", "second", "save"}, NEW pair \in Keys,
             Advance(d, stage, pair)
      PROVE  AdminType' /\ UNCHANGED <<calls, adm>>
  <2>1. [d EXCEPT !.stage = stage, !.pair = pair] \in DerivationType
    BY <1>1 DEF DerivationType
  <2>2. QED
    BY <1>1, <1>2, <2>1 DEF Advance, AdminType
<1>3. None \in Keys /\ active \in Keys /\ "mixed" \in Keys
  BY DEF BrowserType, Keys, KeyPairs
<1>4. CASE LookUp(d)
  <2>1. CASE Advance(d, "first", None)
    BY <1>2, <1>3, <2>1
  <2>2. CASE /\ Derived(d) /\ deriving' = deriving \ {d}
             /\ UNCHANGED <<calls, adminClicks, failures>>
    <3>1. /\ adm' \in AdmType /\ adm'.client = adm.client
          /\ adm'.address = adm.address /\ adm'.crossed = adm.crossed
      BY <1>1, <2>2 DEF Derived, AdmType
    <3>2. QED
      BY <1>1, <2>2, <3>1 DEF AdminType
  <2>3. QED
    BY <1>4, <2>1, <2>2 DEF LookUp
<1>5. CASE SignFirst(d)
  BY <1>2, <1>3, <1>5 DEF SignFirst
<1>6. CASE SignSecond(d)
  BY <1>2, <1>3, <1>6 DEF SignSecond
<1>7. CASE SaveDerived(d)
  BY <1>2, <1>3, <1>7 DEF SaveDerived
<1>8. CASE DerivationFails(d)
  BY <1>1, <1>8 DEF DerivationFails, AdminType
<1>9. QED
  BY <1>4, <1>5, <1>6, <1>7, <1>8

LEMMA AdminStep ==
  ASSUME AdminInv, BrowserType, AdminNext
  PROVE  AdminInv'
<1> USE DEF AdminInv
<1>1. /\ adm \in AdmType /\ calls \subseteq CallType /\ deriving \subseteq DerivationType
      /\ adminClicks \in Nat /\ active \in Holders
  BY DEF AdminType, BrowserType
<1>2. CASE AdminConnect
  <2>1. /\ adm' \in AdmType /\ adm'.client = adm.client
        /\ adm'.address = adm.address /\ adm'.crossed = adm.crossed
    BY <1>1, <1>2 DEF AdminConnect, AdmType
  <2>2. QED
    BY <1>1, <1>2, <2>1
       DEF AdminConnect, AdminClick, AdminType, ClientsFit, PageSpeaksForOneAccount
<1>3. ASSUME NEW a \in Holders, AdminConnected(a) PROVE AdminInv'
  BY <1>3, ConnectedInv
<1>4. ASSUME NEW a \in Holders, AdminConnectFails(a) PROVE AdminInv'
  <2>1. /\ adm' \in AdmType /\ adm'.client = adm.client
        /\ adm'.address = adm.address /\ adm'.crossed = adm.crossed
    BY <1>1, <1>4 DEF AdminConnectFails, AdmType
  <2>2. QED
    BY <1>1, <1>4, <2>1
       DEF AdminConnectFails, AdminType, ClientsFit, PageSpeaksForOneAccount
<1>5. CASE DeriveKeys \/ LeafOfPrivateKey
  <2>1. adm.address \in Account /\ adm.source \in Account
    BY <1>1 DEF AdmType
  <2>2. \A who \in Account, purpose \in {"forms", "leaf"} :
          Derivation(who, purpose) \in DerivationType
    BY <1>1 DEF Derivation, DerivationType, Keys
  <2>3. deriving' \subseteq DerivationType /\ adminClicks' \in Nat /\ UNCHANGED <<adm, calls>>
    BY <1>1, <1>5, <2>1, <2>2 DEF DeriveKeys, LeafOfPrivateKey, AdminClick
  <2>4. QED
    BY <2>3 DEF AdminType, ClientsFit, PageSpeaksForOneAccount
<1>6. ASSUME NEW d \in deriving,
             LookUp(d) \/ SignFirst(d) \/ SignSecond(d) \/ SaveDerived(d) \/ DerivationFails(d)
      PROVE  AdminInv'
  BY <1>6, DerivationIsTyped DEF ClientsFit, PageSpeaksForOneAccount
<1>7. ASSUME NEW c \in Contracts, InsertLeaf(c) PROVE AdminInv'
  BY <1>1, <1>7, WithClientInv DEF InsertLeaf, AdminClick
<1>8. CASE ToggleAdminInsertOnly
  BY <1>1, <1>8, WithClientInv DEF ToggleAdminInsertOnly, AdminClick, Contracts
<1>9. ASSUME NEW call \in calls, ClientCreated(call) PROVE AdminInv'
  BY <1>9, ClientCreatedInv
<1>10. ASSUME NEW call \in calls, SignAndSend(call) \/ CallRefused(call) PROVE AdminInv'
  <2>1. /\ adm' \in AdmType /\ adm'.client = adm.client
        /\ adm'.address = adm.address /\ adm'.crossed = adm.crossed
    BY <1>1, <1>10 DEF SignAndSend, CallRefused, AdmType
  <2>2. calls' \subseteq calls /\ UNCHANGED <<deriving, adminClicks>>
    BY <1>10 DEF SignAndSend, CallRefused
  <2>3. QED
    BY <1>1, <2>1, <2>2 DEF AdminType, ClientsFit, PageSpeaksForOneAccount
<1>11. CASE RefreshState
  <2>1. /\ adm' \in AdmType /\ adm'.client = adm.client
        /\ adm'.address = adm.address /\ adm'.crossed = adm.crossed
    BY <1>1, <1>11, ZenonT(60) DEF RefreshState, AdmType
  <2>2. QED
    BY <1>1, <1>11, <2>1
       DEF RefreshState, AdminClick, AdminType, ClientsFit, PageSpeaksForOneAccount
<1> HIDE DEF AdminInv
<1>12. CASE \E a \in Holders : AdminConnected(a) \/ AdminConnectFails(a)
  BY <1>3, <1>4, <1>12
<1>13. CASE \E d \in deriving :
              LookUp(d) \/ SignFirst(d) \/ SignSecond(d) \/ SaveDerived(d) \/ DerivationFails(d)
  BY <1>6, <1>13
<1>14. CASE \E c \in Contracts : InsertLeaf(c)
  BY <1>7, <1>14
<1>15. CASE \E call \in calls : ClientCreated(call) \/ SignAndSend(call) \/ CallRefused(call)
  BY <1>9, <1>10, <1>15
<1>16. QED
  BY <1>2, <1>5, <1>8, <1>11, <1>12, <1>13, <1>14, <1>15 DEF AdminNext

-----------------------------------------------------------------------------
(* The main page.  The invariant is stated of values, so that the lemmas    *)
(* need not say which of them a step has changed already.                   *)

StageOf(op) == IF op = "accept" THEN "accepting"
               ELSE IF op \in {"save", "got"} THEN "deriving" ELSE op

LiveTask(r) == r.live /\ r.op \in TaskOps
LiveSelf(r) == r.live /\ r.op = "self"

NoLiveTask(q) == \A i \in DOMAIN q : ~LiveTask(q[i])
SelfsOf(q, who) == \A i \in DOMAIN q : LiveSelf(q[i]) => q[i].who = who

\* At most one request of the running task is awaited; it is of the task's
\* stage and account, and behind it keys are asked for that account only.
Awaited(q, t) ==
  /\ \A i \in DOMAIN q : LiveTask(q[i]) => t.stage = StageOf(q[i].op) /\ q[i].who = t.who
  /\ \A i, j \in DOMAIN q : LiveTask(q[i]) /\ LiveTask(q[j]) => i = j
  /\ \A i, j \in DOMAIN q :
       LiveTask(q[i]) /\ i < j /\ LiveSelf(q[j]) => q[j].who = t.who
  /\ t.stage \in Wizard => SelfsOf(q, t.who)

\* A derivation saves its own account's pair, where there was none.
Fresh(st, a) == st[a] \in {None, a}

RequestsFit(q, st) ==
  \A i \in DOMAIN q :
    /\ q[i].op = "self" => q[i].who \in Holders
    /\ q[i].op = "save" => q[i].who \in Holders /\ q[i].pair = q[i].who /\ Fresh(st, q[i].who)
    /\ q[i].op = "got" => q[i].who \in Holders /\ st[q[i].who] = q[i].who

SignaturesFit(sg, q, t, st) ==
  \A s \in sg : /\ Fresh(st, s.who)
                /\ s.live => t.stage = "deriving" /\ s.who = t.who /\ NoLiveTask(q)

\* What a task knows of its account.
TaskFits(t, p, st) ==
  /\ t.stage = "none" <=> t = NoTask
  /\ t.stage \in Onboarded \cup {"wasm"} => t.who \in Holders
  /\ t.stage = "network" /\ t.kind = "connect" => t.who \in Holders
  /\ t.stage \in {"access", "wasm"} => t.kind = "connect"
  /\ t.stage = "network" => t.kind # "none"
  /\ t.stage \in Onboarded \cup {"wasm"} /\ p.connected => p.address = t.who
  /\ t.stage \in {"access", "network"} /\ t.kind = "connect" => ~p.connected
  /\ t.stage \in Wizard => IF t.keys = None THEN Fresh(st, t.who) ELSE t.keys = st[t.who]
  /\ t.stage \in {"derive", "deriving"} => t.keys = None

\* The page is of one account until a change of account is acted on.
Quiet(t) == t.stage = "none" \/ (t.kind = "change" /\ t.stage = "network")

OwnRow(p) == [who |-> p.address, keys |-> p.keys]

PageFits(t, p, st) ==
  p.connected /\ Quiet(t) =>
    /\ p.address \in Holders
    /\ p.keys = st[p.address] /\ p.keys # None
    /\ p.recipient = p.address
    /\ \A r \in p.rows : r = OwnRow(p)

SelfsFit(q, t, p) == p.connected /\ Quiet(t) => SelfsOf(q, p.address)

Typed(p, t, q, sg, st) ==
  /\ p \in PageType /\ t \in TaskType /\ q \in Seq(Request)
  /\ sg \subseteq Signing /\ st \in [Holders -> Keys]

Fits(p, t, q, sg, st) ==
  /\ Typed(p, t, q, sg, st)
  /\ Awaited(q, t) /\ RequestsFit(q, st) /\ SelfsFit(q, t, p)
  /\ SignaturesFit(sg, q, t, st)
  /\ TaskFits(t, p, st) /\ PageFits(t, p, st)

SessionInv ==
  Fits(page, task, queue, signing, stored) /\ active \in Holders /\ network \in Networks

\* While the admin page is open nothing is left of the main page.
MainClosed ==
  open = "admin" => /\ ~page.connected /\ task.stage \in {"none", "access"}
                    /\ queue = <<>> /\ signing = {}

PagesInv == open \in Pages /\ AdminInv /\ SessionInv /\ MainClosed

-----------------------------------------------------------------------------
(* Steps of the values.                                                    *)

\* p2 differs from p in nothing an account shows in, the rows aside.
SameIdentity(p2, p) ==
  /\ p2.connected = p.connected /\ p2.address = p.address
  /\ p2.keys = p.keys /\ p2.recipient = p.recipient

LEMMA PageChangeFits ==
  ASSUME NEW p, NEW t, NEW q, NEW sg, NEW st, Fits(p, t, q, sg, st),
         NEW p2 \in PageType, SameIdentity(p2, p),
         p.connected /\ Quiet(t) => \A r \in p2.rows : r = OwnRow(p)
  PROVE  Fits(p2, t, q, sg, st)
<1>1. Typed(p2, t, q, sg, st)
  BY DEF Fits, Typed
<1>2. SelfsFit(q, t, p2)
  BY DEF Fits, SelfsFit, SameIdentity
<1>3. TaskFits(t, p2, st)
  BY DEF Fits, TaskFits, SameIdentity
<1>4. PageFits(t, p2, st)
  BY DEF Fits, PageFits, SameIdentity, OwnRow
<1>5. QED
  BY <1>1, <1>2, <1>3, <1>4 DEF Fits

\* Requests of no account's, and for the keys of the connected account.
Asked(q2, q, p) ==
  \/ q2 = q
  \/ \E op \in {"notes", "book", "filter"}, who \in Account : q2 = Append(q, Ask(op, who))
  \/ /\ p.connected /\ p.keys = None /\ p.address # None
     /\ q2 = Append(q, Ask("self", p.address))

LEMMA AppendIndex ==
  ASSUME NEW S, NEW q \in Seq(S), NEW r \in S
  PROVE  /\ Append(q, r) \in Seq(S)
         /\ DOMAIN Append(q, r) = DOMAIN q \cup {Len(q) + 1}
         /\ Len(q) + 1 \notin DOMAIN q
         /\ \A i \in DOMAIN q : Append(q, r)[i] = q[i] /\ i \in Nat /\ i < Len(q) + 1
         /\ Append(q, r)[Len(q) + 1] = r
OBVIOUS

LEMMA TailIndex ==
  ASSUME NEW S, NEW q \in Seq(S), q # <<>>
  PROVE  /\ Tail(q) \in Seq(S)
         /\ \A i \in DOMAIN Tail(q) : i \in Nat /\ i + 1 \in DOMAIN q /\ Tail(q)[i] = q[i + 1]
         /\ 1 \in DOMAIN q /\ Head(q) = q[1] /\ Head(q) \in S
OBVIOUS

\* A request that is neither the task's nor for keys goes in unnoticed.
LEMMA AppendFits ==
  ASSUME NEW p, NEW t, NEW q, NEW sg, NEW st, Fits(p, t, q, sg, st),
         NEW r \in Request, r.op \notin TaskOps,
         r.op = "self" => p.connected /\ r.who = p.address /\ r.who \in Holders
  PROVE  Fits(p, t, Append(q, r), sg, st)
<1> DEFINE q2 == Append(q, r)
           n == Len(q) + 1
<1>1. q \in Seq(Request)
  BY DEF Fits, Typed
<1>2. /\ q2 \in Seq(Request) /\ DOMAIN q2 = DOMAIN q \cup {n} /\ n \notin DOMAIN q /\ q2[n] = r
      /\ \A i \in DOMAIN q : q2[i] = q[i] /\ i \in Nat /\ i < n
  BY <1>1, AppendIndex
<1>3. n \in Nat /\ ~LiveTask(r)
  BY <1>1 DEF LiveTask
<1> HIDE DEF q2, n
<1>4. NoLiveTask(q) => NoLiveTask(q2)
  BY <1>2, <1>3 DEF NoLiveTask
<1>5. \A i \in DOMAIN q2 : LiveTask(q2[i]) => i \in DOMAIN q /\ LiveTask(q[i]) /\ q2[i] = q[i]
  BY <1>2, <1>3
<1>6. \A i \in DOMAIN q : LiveTask(q[i]) => t.stage \in Onboarded
  BY DEF Fits, Awaited, LiveTask, StageOf, TaskOps, Onboarded, Wizard
<1>7. \A i \in DOMAIN q2 : LiveSelf(q2[i]) =>
        \/ i \in DOMAIN q /\ LiveSelf(q[i]) /\ q2[i] = q[i]
        \/ i = n /\ p.connected /\ q2[i].who = p.address
  BY <1>2 DEF LiveSelf
<1>8. t.stage \in Onboarded /\ p.connected => p.address = t.who
  BY DEF Fits, TaskFits
<1>9. Awaited(q2, t)
  <2>1. \A i \in DOMAIN q2 : LiveTask(q2[i]) => t.stage = StageOf(q2[i].op) /\ q2[i].who = t.who
    BY <1>5 DEF Fits, Awaited
  <2>2. \A i, j \in DOMAIN q2 : LiveTask(q2[i]) /\ LiveTask(q2[j]) => i = j
    BY <1>5 DEF Fits, Awaited
  <2>3. \A i, j \in DOMAIN q2 :
          LiveTask(q2[i]) /\ i < j /\ LiveSelf(q2[j]) => q2[j].who = t.who
    BY <1>5, <1>6, <1>7, <1>8 DEF Fits, Awaited
  <2>4. t.stage \in Wizard => SelfsOf(q2, t.who)
    BY <1>7, <1>8 DEF Fits, Awaited, SelfsOf, Onboarded
  <2>5. QED
    BY <2>1, <2>2, <2>3, <2>4 DEF Awaited
<1>10. SelfsFit(q2, t, p)
  BY <1>7 DEF Fits, SelfsFit, SelfsOf
<1>11. RequestsFit(q2, st)
  BY <1>2 DEF Fits, RequestsFit, TaskOps
<1>12. SignaturesFit(sg, q2, t, st)
  BY <1>4 DEF Fits, SignaturesFit
<1>13. Typed(p, t, q2, sg, st)
  BY <1>2 DEF Fits, Typed
<1>14. QED
  BY <1>9, <1>10, <1>11, <1>12, <1>13 DEF Fits, q2

LEMMA AskedFits ==
  ASSUME NEW p, NEW t, NEW q, NEW sg, NEW st, Fits(p, t, q, sg, st), NEW q2, Asked(q2, q, p)
  PROVE  Fits(p, t, q2, sg, st)
<1>1. \A op \in {"notes", "book", "filter", "self"}, who \in Account :
        /\ Ask(op, who) \in Request /\ Ask(op, who).op = op /\ Ask(op, who).who = who
        /\ op \notin TaskOps
  BY DEF Ask, Request, TaskOps, Account, Keys
<1>2. p.address \in Account
  BY DEF Fits, Typed, PageType
<1>3. CASE q2 = q
  BY <1>3
<1>4. ASSUME NEW op \in {"notes", "book", "filter"}, NEW who \in Account,
             q2 = Append(q, Ask(op, who))
      PROVE  Fits(p, t, q2, sg, st)
  <2>1. Ask(op, who) \in Request /\ Ask(op, who).op \notin TaskOps /\ Ask(op, who).op # "self"
    BY <1>1
  <2>2. QED
    BY <1>4, <2>1, AppendFits
<1>5. CASE p.connected /\ p.address # None /\ q2 = Append(q, Ask("self", p.address))
  <2>1. /\ Ask("self", p.address) \in Request /\ Ask("self", p.address).op \notin TaskOps
        /\ Ask("self", p.address).who = p.address /\ p.address \in Holders
    BY <1>1, <1>2, <1>5 DEF Account
  <2>2. QED
    BY <1>5, <2>1, AppendFits
<1>6. QED
  BY <1>3, <1>4, <1>5 DEF Asked

\* The head of the queue is served.
LEMMA TailFits ==
  ASSUME NEW p, NEW t, NEW q, NEW sg, NEW st, Fits(p, t, q, sg, st), q # <<>>
  PROVE  /\ Fits(p, t, Tail(q), sg, st)
         /\ LiveTask(Head(q)) => NoLiveTask(Tail(q)) /\ SelfsOf(Tail(q), t.who)
<1> DEFINE q2 == Tail(q)
<1>1. q \in Seq(Request)
  BY DEF Fits, Typed
<1>2. /\ q2 \in Seq(Request) /\ 1 \in DOMAIN q /\ Head(q) = q[1]
      /\ \A i \in DOMAIN q2 : i \in Nat \ {0} /\ i + 1 \in DOMAIN q /\ q2[i] = q[i + 1]
  BY <1>1, TailIndex
<1> HIDE DEF q2
<1>3. NoLiveTask(q) => NoLiveTask(q2)
  BY <1>2 DEF NoLiveTask
<1>4. \A who : SelfsOf(q, who) => SelfsOf(q2, who)
  BY <1>2 DEF SelfsOf
<1>5. Awaited(q2, t)
  <2>1. \A i \in DOMAIN q2 : LiveTask(q2[i]) => t.stage = StageOf(q2[i].op) /\ q2[i].who = t.who
    BY <1>2 DEF Fits, Awaited
  <2>2. \A i, j \in DOMAIN q2 : LiveTask(q2[i]) /\ LiveTask(q2[j]) => i = j
    BY <1>2 DEF Fits, Awaited
  <2>3. \A i, j \in DOMAIN q2 :
          LiveTask(q2[i]) /\ i < j /\ LiveSelf(q2[j]) => q2[j].who = t.who
    BY <1>2 DEF Fits, Awaited
  <2>4. QED
    BY <1>4, <2>1, <2>2, <2>3 DEF Fits, Awaited
<1>6. SelfsFit(q2, t, p)
  BY <1>4 DEF Fits, SelfsFit
<1>7. RequestsFit(q2, st)
  BY <1>2 DEF Fits, RequestsFit
<1>8. SignaturesFit(sg, q2, t, st)
  BY <1>3 DEF Fits, SignaturesFit
<1>9. Typed(p, t, q2, sg, st)
  BY <1>2 DEF Fits, Typed
<1>10. LiveTask(Head(q)) => NoLiveTask(q2) /\ SelfsOf(q2, t.who)
  <2> SUFFICES ASSUME LiveTask(q[1]), NEW i \in DOMAIN q2
               PROVE  ~LiveTask(q2[i]) /\ (LiveSelf(q2[i]) => q2[i].who = t.who)
    BY <1>2 DEF NoLiveTask, SelfsOf
  <2>1. 1 < i + 1 /\ 1 # i + 1
    BY <1>2
  <2>2. QED
    BY <1>2, <2>1 DEF Fits, Awaited
<1>11. QED
  BY <1>5, <1>6, <1>7, <1>8, <1>9, <1>10 DEF Fits, q2

\* q2 is q, with some of its requests given up.
GivenUp(q2, q) ==
  /\ q2 \in Seq(Request) /\ DOMAIN q2 = DOMAIN q
  /\ \A i \in DOMAIN q : /\ q2[i].op = q[i].op /\ q2[i].who = q[i].who
                         /\ q2[i].pair = q[i].pair
                         /\ q2[i].live => q[i].live

LEMMA GivenUpFits ==
  ASSUME NEW p, NEW t, NEW q, NEW sg, NEW st, Fits(p, t, q, sg, st),
         NEW q2, GivenUp(q2, q)
  PROVE  Fits(p, t, q2, sg, st)
<1>1. \A i \in DOMAIN q2 : /\ i \in DOMAIN q
                           /\ LiveTask(q2[i]) => LiveTask(q[i])
                           /\ LiveSelf(q2[i]) => LiveSelf(q[i])
                           /\ q2[i].op = q[i].op /\ q2[i].who = q[i].who
                           /\ q2[i].pair = q[i].pair
  BY DEF GivenUp, LiveTask, LiveSelf
<1>2. Awaited(q2, t)
  <2>1. \A i \in DOMAIN q2 : LiveTask(q2[i]) => t.stage = StageOf(q2[i].op) /\ q2[i].who = t.who
    BY <1>1 DEF Fits, Awaited
  <2>2. \A i, j \in DOMAIN q2 : LiveTask(q2[i]) /\ LiveTask(q2[j]) => i = j
    BY <1>1 DEF Fits, Awaited
  <2>3. \A i, j \in DOMAIN q2 :
          LiveTask(q2[i]) /\ i < j /\ LiveSelf(q2[j]) => q2[j].who = t.who
    BY <1>1 DEF Fits, Awaited
  <2>4. t.stage \in Wizard => SelfsOf(q2, t.who)
    BY <1>1 DEF Fits, Awaited, SelfsOf
  <2>5. QED
    BY <2>1, <2>2, <2>3, <2>4 DEF Awaited
<1>3. SelfsFit(q2, t, p)
  BY <1>1 DEF Fits, SelfsFit, SelfsOf
<1>4. RequestsFit(q2, st)
  BY <1>1 DEF Fits, RequestsFit
<1>5. SignaturesFit(sg, q2, t, st)
  BY <1>1 DEF Fits, SignaturesFit, NoLiveTask
<1>6. Typed(p, t, q2, sg, st)
  BY DEF Fits, Typed, GivenUp
<1>7. QED
  BY <1>2, <1>3, <1>4, <1>5, <1>6 DEF Fits

\* Nobody awaits a request or a signature for the task.
Unawaited(q, sg) == NoLiveTask(q) /\ \A s \in sg : ~s.live

LEMMA DisconnectedType ==
  ASSUME NEW p \in PageType
  PROVE  Disconnected(p) \in PageType /\ ~Disconnected(p).connected
BY ZenonT(60) DEF Disconnected, PageType, Account, Keys

LEMMA NoTaskType ==
  /\ NoTask \in TaskType /\ NoTask.stage = "none" /\ NoTask.kind = "none" /\ NoTask.who = None
  /\ NoTask.keys = None /\ ~NoTask.terms /\ ~NoTask.storage
<1>1. /\ NoTask.stage = "none" /\ NoTask.kind = "none" /\ NoTask.who = None
      /\ NoTask.keys = None /\ ~NoTask.terms /\ ~NoTask.storage
  BY DEF NoTask
<1>2. None \in Account /\ None \in Keys
  BY DEF Account, Keys
<1>3. NoTask \in TaskType
  BY <1>2 DEF NoTask, TaskType
<1>4. QED
  BY <1>1, <1>3

\* disconnect(), while a task goes on or not.
LEMMA DisconnectFits ==
  ASSUME NEW p, NEW t, NEW q, NEW sg, NEW st, Fits(p, t, q, sg, st),
         NEW p2 \in PageType, ~p2.connected
  PROVE  Fits(p2, t, q, sg, st)
<1>1. TaskFits(t, p2, st)
  BY DEF Fits, TaskFits
<1>2. QED
  BY <1>1 DEF Fits, Typed, PageFits, SelfsFit

\* The end of a task nobody awaits anything for, on a page that is not connected.
LEMMA EndedFits ==
  ASSUME NEW p, NEW t, NEW q, NEW sg, NEW st, Fits(p, t, q, sg, st), Unawaited(q, sg),
         NEW p2 \in PageType, ~p2.connected,
         NEW t2 \in TaskType, t2 = NoTask \/ (t2.stage = "access" /\ t2.kind = "connect")
  PROVE  Fits(p2, t2, q, sg, st)
<1>1. t2.stage \in {"none", "access"} /\ (t2.stage = "none" <=> t2 = NoTask)
  BY NoTaskType
<1>2. TaskFits(t2, p2, st)
  BY <1>1 DEF TaskFits, Onboarded, Wizard
<1>3. Awaited(q, t2)
  BY <1>1 DEF Unawaited, NoLiveTask, Awaited, Wizard
<1>4. SignaturesFit(sg, q, t2, st)
  BY DEF Fits, SignaturesFit, Unawaited
<1>5. QED
  BY <1>2, <1>3, <1>4 DEF Fits, Typed, PageFits, SelfsFit

LEMMA AbortFits ==
  ASSUME NEW q, NEW sg, NEW st, Fits(page, task, q, sg, st), Unawaited(q, sg), Abort
  PROVE  Fits(page', task', q, sg, st)
<1>1. page \in PageType
  BY DEF Fits, Typed
<1>2. QED
  BY <1>1, DisconnectedType, NoTaskType, EndedFits DEF Abort

\* A derivation is saved.
LEMMA SavedFits ==
  ASSUME NEW p, NEW t, NEW q, NEW sg, NEW st, Fits(p, t, q, sg, st),
         NEW a \in Holders, Fresh(st, a)
  PROVE  Fits(p, t, q, sg, [st EXCEPT ![a] = a])
<1> DEFINE st2 == [st EXCEPT ![a] = a]
<1>1. /\ st \in [Holders -> Keys] /\ st2 \in [Holders -> Keys]
      /\ \A b \in Holders : st2[b] = IF b = a THEN a ELSE st[b]
  BY DEF Fits, Typed, Keys, KeyPairs
<1> HIDE DEF st2
<1>2. \A b \in Holders : /\ Fresh(st, b) => Fresh(st2, b)
                         /\ st[b] # None => st2[b] = st[b]
                         /\ st[b] = b => st2[b] = b
  BY <1>1 DEF Fresh
<1>3. RequestsFit(q, st2)
  BY <1>2 DEF Fits, RequestsFit
<1>4. SignaturesFit(sg, q, t, st2)
  <2>1. \A s \in sg : s.who \in Holders
    BY DEF Fits, Typed, Signing
  <2>2. QED
    BY <1>2, <2>1 DEF Fits, SignaturesFit
<1>5. TaskFits(t, p, st2)
  <2>1. t.stage \in Wizard =>
          IF t.keys = None THEN Fresh(st2, t.who) ELSE t.keys = st2[t.who]
    BY <1>2 DEF Fits, TaskFits, Onboarded
  <2>2. QED
    BY <2>1 DEF Fits, TaskFits
<1>6. PageFits(t, p, st2)
  BY <1>2 DEF Fits, PageFits
<1>7. QED
  BY <1>1, <1>3, <1>4, <1>5, <1>6 DEF Fits, Typed, st2

LEMMA AskedSame ==
  ASSUME NEW p, NEW p2, SameIdentity(p2, p), NEW q, NEW q2, Asked(q2, q, p)
  PROVE  Asked(q2, q, p2)
BY DEF Asked, SameIdentity

LEMMA RefreshFacts ==
  ASSUME NEW p \in PageType, NEW q
  PROVE  LET n == RefreshNotes(p, q)
         IN  /\ n.page \in PageType /\ SameIdentity(n.page, p) /\ n.page.rows = p.rows
             /\ Asked(n.queue, q, p)
<1>1. CASE p.refreshing \/ ~p.connected \/ p.address = None
  BY <1>1 DEF RefreshNotes, SameIdentity, Asked
<1>2. CASE ~(p.refreshing \/ ~p.connected \/ p.address = None)
  <2> DEFINE p2 == [p EXCEPT !.refreshing = TRUE]
  <2>1. p2 \in PageType /\ SameIdentity(p2, p) /\ p2.rows = p.rows
    BY DEF PageType, SameIdentity
  <2>2. p.address \in Account
    BY DEF PageType
  <2>3. Asked(Append(q, Ask("notes", p.address)), q, p)
    BY <2>2 DEF Asked
  <2>4. QED
    BY <1>2, <2>1, <2>3 DEF RefreshNotes
<1>3. QED
  BY <1>1, <1>2

\* The rows p2 has and p has not are p's account's with p's keys, if p has keys.
RowsOf(p2, p, who) ==
  p.keys # None => \A r \in p2.rows : r \in p.rows \/ r = [who |-> who, keys |-> p.keys]

LEMMA WithRowFacts ==
  ASSUME NEW p \in PageType, NEW who \in Account, NEW p2 \in WithRow(p, who)
  PROVE  p2 \in PageType /\ SameIdentity(p2, p) /\ RowsOf(p2, p, who)
<1>1. CASE p2 = p
  BY <1>1 DEF SameIdentity, RowsOf
<1>2. CASE p2 # p
  <2>1. who # None
    BY <1>2 DEF WithRow
  <2>2. PICK keys \in KeyPairs \cup {"listed"} :
          /\ p2 = [p EXCEPT !.rows = @ \cup {[who |-> who, keys |-> keys]}]
          /\ p.keys # None => keys = p.keys
    <3>1. p.keys # None => p.keys \in KeyPairs
      BY DEF PageType, Keys
    <3>2. QED
      BY <1>2, <3>1 DEF WithRow
  <2>3. who \in Holders
    BY <2>1 DEF Account
  <2>4. [who |-> who, keys |-> keys] \in [who : Holders, keys : KeyPairs \cup {"listed"}]
    BY <2>3
  <2>5. p2 \in PageType /\ SameIdentity(p2, p)
        /\ p2.rows = p.rows \cup {[who |-> who, keys |-> keys]}
    BY <2>2, <2>4 DEF PageType, SameIdentity
  <2>6. RowsOf(p2, p, who)
    BY <2>2, <2>5 DEF RowsOf
  <2>7. QED
    BY <2>5, <2>6
<1>3. QED
  BY <1>1, <1>2

LEMMA ContinueFacts ==
  ASSUME NEW p \in PageType, NEW q, Continue(p, q)
  PROVE  /\ page' \in PageType /\ SameIdentity(page', p) /\ RowsOf(page', p, p.address)
         /\ Asked(queue', q, p)
<1>1. CASE p.address # None /\ p.keys = None /\ p.connected
  BY <1>1 DEF Continue, SameIdentity, RowsOf, Asked
<1>2. CASE ~(p.address # None /\ p.keys = None /\ p.connected)
  <2>1. p.address \in Account /\ page' \in WithRow(p, p.address) /\ queue' = q
    BY <1>2 DEF Continue, PageType
  <2>2. QED
    BY <2>1, WithRowFacts DEF Asked
<1>3. QED
  BY <1>1, <1>2

LEMMA LoadFacts ==
  ASSUME NEW p \in PageType, NEW q, NEW op \in {"book", "filter"}, LoadIfNeeded(p, q, op)
  PROVE  /\ page' \in PageType /\ SameIdentity(page', p) /\ RowsOf(page', p, p.address)
         /\ Asked(queue', q, p)
<1>1. CASE p.cached \/ ~p.connected
  <2> DEFINE p2 == [p EXCEPT !.rows = {}]
  <2>1. p2 \in PageType /\ SameIdentity(p2, p) /\ p2.rows = {}
    BY DEF PageType, SameIdentity
  <2>2. Continue(p2, q)
    BY <1>1 DEF LoadIfNeeded
  <2> HIDE DEF p2
  <2>3. /\ page' \in PageType /\ SameIdentity(page', p2) /\ RowsOf(page', p2, p2.address)
        /\ Asked(queue', q, p2)
    BY <2>1, <2>2, ContinueFacts
  <2>4. SameIdentity(p, p2)
    BY <2>1 DEF SameIdentity
  <2>5. Asked(queue', q, p)
    BY <2>3, <2>4, AskedSame
  <2>6. QED
    BY <2>1, <2>3, <2>5 DEF SameIdentity, RowsOf
<1>2. CASE ~(p.cached \/ ~p.connected)
  <2>1. None \in Account
    BY DEF Account
  <2>2. page' = p /\ (queue' = q \/ queue' = Append(q, Ask(op, None)))
    BY <1>2 DEF LoadIfNeeded
  <2>3. QED
    BY <2>1, <2>2 DEF SameIdentity, RowsOf, Asked
<1>3. QED
  BY <1>1, <1>2

LEMMA RenderFacts ==
  ASSUME NEW p \in PageType, NEW q, Render(p, q)
  PROVE  /\ page' \in PageType /\ SameIdentity(page', p)
         /\ p.keys # None => \A r \in page'.rows : r = OwnRow(p)
         /\ Asked(queue', q, p)
<1> DEFINE p2 == [p EXCEPT !.rows = {}]
<1>1. p2 \in PageType /\ SameIdentity(p2, p) /\ SameIdentity(p, p2) /\ p2.rows = {}
  BY DEF PageType, SameIdentity
<1>2. LoadIfNeeded(p2, q, "book")
  BY DEF Render
<1> HIDE DEF p2
<1>3. /\ page' \in PageType /\ SameIdentity(page', p2) /\ RowsOf(page', p2, p2.address)
      /\ Asked(queue', q, p2)
  BY <1>1, <1>2, LoadFacts
<1>4. QED
  BY <1>1, <1>3, AskedSame DEF SameIdentity, RowsOf, OwnRow

\* The account t is for is known, and so are its keys.
KeysKnown(t, q, sg, st) ==
  /\ t.stage \in Onboarded /\ Unawaited(q, sg) /\ SelfsOf(q, t.who)
  /\ IF t.keys = None THEN Fresh(st, t.who) ELSE t.keys = st[t.who]

LEMMA FinishFits ==
  ASSUME NEW t0, NEW q, NEW sg, NEW st, Fits(page, t0, q, sg, st),
         NEW t \in TaskType, t.stage = t0.stage, t.who = t0.who,
         KeysKnown(t, q, sg, st), t.keys # None, Finish(t, q)
  PROVE  Fits(page', task', queue', sg, st)
<1> DEFINE fresh == t.kind = "connect" /\ ~page.watching
           ready == [KeysReady(page, t) EXCEPT
                       !.submit = TRUE, !.recipient = t.who, !.polling = TRUE, !.cached = FALSE,
                       !.watching = @ \/ fresh, !.seen = IF fresh THEN <<>> ELSE @]
           notes == RefreshNotes(ready, q)
<1>1. page \in PageType /\ t \in TaskType /\ t.who \in Holders
  BY DEF Fits, Typed, TaskFits, KeysKnown
<1>2. ready \in PageType
  <2>1. t.who \in Account /\ t.keys \in Keys
    BY <1>1 DEF TaskType
  <2>2. KeysReady(page, t) \in PageType
    BY <1>1, <2>1 DEF KeysReady, PageType
  <2> DEFINE k == KeysReady(page, t)
             watching == k.watching \/ fresh
             seen == IF fresh THEN <<>> ELSE k.seen
  <2>3. watching \in BOOLEAN /\ seen \in {<<>>} \cup (Holders \X Networks)
    BY <2>2 DEF PageType
  <2>4. ready = [k EXCEPT !.submit = TRUE, !.recipient = t.who, !.polling = TRUE,
                          !.cached = FALSE, !.watching = watching, !.seen = seen]
    BY <2>2 DEF PageType
  <2> HIDE DEF watching, seen
  <2> DEFINE k1 == [k EXCEPT !.submit = TRUE, !.recipient = t.who, !.polling = TRUE]
  <2>5. k1 \in PageType
    <3> HIDE DEF k
    <3>1. k \in PageType
      BY <2>2 DEF k
    <3>2. QED
      BY <2>1, <3>1 DEF PageType
  <2> HIDE DEF k1
  <2>6. [k1 EXCEPT !.cached = FALSE, !.watching = watching, !.seen = seen] \in PageType
    BY <2>3, <2>5, ZenonT(60) DEF PageType
  <2>7. ready = [k1 EXCEPT !.cached = FALSE, !.watching = watching, !.seen = seen]
    <3> HIDE DEF k, ready
    <3>1. QED
      BY <2>4 DEF k1
  <2>8. QED
    BY <2>6, <2>7
<1>3. /\ ready.connected = page.connected /\ ready.address = page.address
      /\ ready.keys = t.keys /\ ready.recipient = t.who
  BY <1>1 DEF KeysReady, PageType
<1>4. task' = NoTask /\ Render(notes.page, notes.queue)
  BY DEF Finish
<1> HIDE DEF ready
<1>5. notes.page \in PageType /\ SameIdentity(notes.page, ready) /\ Asked(notes.queue, q, ready)
  BY <1>2, RefreshFacts
<1> HIDE DEF notes
<1>6. /\ page' \in PageType /\ SameIdentity(page', notes.page)
      /\ notes.page.keys # None => \A r \in page'.rows : r = OwnRow(notes.page)
      /\ Asked(queue', notes.queue, notes.page)
  BY <1>4, <1>5, RenderFacts
<1>7. /\ SameIdentity(page', ready) /\ SameIdentity(page', notes.page)
      /\ \A r \in page'.rows : r = OwnRow(page')
  BY <1>3, <1>5, <1>6 DEF SameIdentity, OwnRow
<1>8. Fits(page', NoTask, q, sg, st)
  <2>1. TaskFits(NoTask, page', st)
    BY NoTaskType DEF TaskFits, Onboarded, Wizard
  <2>2. Awaited(q, NoTask)
    BY NoTaskType DEF KeysKnown, Unawaited, NoLiveTask, Awaited, Wizard
  <2>3. SignaturesFit(sg, q, NoTask, st)
    BY DEF Fits, SignaturesFit, KeysKnown, Unawaited
  <2>4. page.connected => page.address = t.who
    BY DEF Fits, TaskFits, KeysKnown
  <2>5. PageFits(NoTask, page', st)
    BY <1>1, <1>3, <1>7, <2>4 DEF PageFits, SameIdentity, KeysKnown
  <2>6. SelfsFit(q, NoTask, page')
    BY <1>3, <1>7, <2>4 DEF SelfsFit, SameIdentity, KeysKnown
  <2>7. Typed(page', NoTask, q, sg, st)
    BY <1>6, NoTaskType DEF Fits, Typed
  <2>8. QED
    BY <2>1, <2>2, <2>3, <2>5, <2>6, <2>7 DEF Fits
<1>9. Asked(notes.queue, q, page') /\ Asked(queue', notes.queue, page')
  BY <1>5, <1>6, <1>7, AskedSame
<1>10. Fits(page', NoTask, notes.queue, sg, st)
  BY <1>8, <1>9, AskedFits
<1>11. Fits(page', NoTask, queue', sg, st)
  BY <1>9, <1>10, AskedFits
<1>12. QED
  BY <1>4, <1>11

\* The wizard shows a step, or is through.
LEMMA WizardFits ==
  ASSUME NEW t0, NEW q, NEW sg, NEW st, Fits(page, t0, q, sg, st),
         NEW t \in TaskType, t.stage = t0.stage, t.who = t0.who, KeysKnown(t, q, sg, st),
         NEW stage \in {"disclaimer", "storage", "derive"}, stage = "derive" => t.keys = None
  PROVE  Fits(page, [t EXCEPT !.stage = stage], q, sg, st)
<1> DEFINE t2 == [t EXCEPT !.stage = stage]
<1>1. /\ t2 \in TaskType /\ t2.stage = stage /\ t2.who = t.who /\ t2.keys = t.keys
      /\ t2.kind = t.kind
  BY DEF Fits, Typed, TaskType, Onboarded, Wizard
<1>2. t2 # NoTask
  BY <1>1, NoTaskType
<1> HIDE DEF t2
<1>3. TaskFits(t2, page, st)
  <2>1. t.who \in Holders /\ (page.connected => page.address = t.who)
    BY DEF Fits, TaskFits, KeysKnown
  <2>2. QED
    BY <1>1, <1>2, <2>1 DEF TaskFits, KeysKnown, Onboarded, Wizard
<1>4. Awaited(q, t2)
  BY <1>1 DEF KeysKnown, Unawaited, NoLiveTask, Awaited
<1>5. SignaturesFit(sg, q, t2, st)
  BY DEF Fits, SignaturesFit, KeysKnown, Unawaited
<1>6. ~Quiet(t2)
  BY <1>1 DEF Quiet
<1>7. Typed(page, t2, q, sg, st)
  BY <1>1 DEF Fits, Typed
<1>8. QED
  BY <1>3, <1>4, <1>5, <1>6, <1>7 DEF Fits, PageFits, SelfsFit, t2

LEMMA ProceedFits ==
  ASSUME NEW t0, NEW q, NEW sg, NEW st, Fits(page, t0, q, sg, st),
         NEW t \in TaskType, t.stage = t0.stage, t.who = t0.who, KeysKnown(t, q, sg, st),
         Proceed(t, q)
  PROVE  Fits(page', task', queue', sg, st)
<1>1. CASE task' = [t EXCEPT !.stage = "disclaimer"] /\ queue' = q /\ page' = page
  BY <1>1, WizardFits
<1>2. CASE task' = [t EXCEPT !.stage = "storage"] /\ queue' = q /\ page' = page
  BY <1>2, WizardFits
<1>3. CASE t.keys = None /\ task' = [t EXCEPT !.stage = "derive"] /\ queue' = q /\ page' = page
  BY <1>3, WizardFits
<1>4. CASE t.keys # None /\ Finish(t, q)
  BY <1>4, FinishFits
<1>5. QED
  BY <1>1, <1>2, <1>3, <1>4 DEF Proceed

-----------------------------------------------------------------------------
(* What the steps have in common.                                          *)

LEMMA IdleUnawaited ==
  ASSUME NEW p, NEW t, NEW q, NEW sg, NEW st, Fits(p, t, q, sg, st),
         t.stage \notin {"terms", "keys", "accepting", "deriving"}
  PROVE  Unawaited(q, sg)
<1>1. \A i \in DOMAIN q : LiveTask(q[i]) => StageOf(q[i].op) = t.stage
  BY DEF Fits, Awaited
<1>2. \A op \in TaskOps : StageOf(op) \in {"terms", "keys", "accepting", "deriving"}
  BY DEF TaskOps, StageOf
<1>3. NoLiveTask(q)
  BY <1>1, <1>2 DEF NoLiveTask, LiveTask
<1>4. \A s \in sg : ~s.live
  BY DEF Fits, SignaturesFit
<1>5. QED
  BY <1>3, <1>4 DEF Unawaited

\* A task moves on while nobody awaits anything for it.
LEMMA TaskChangeFits ==
  ASSUME NEW p, NEW t, NEW q, NEW sg, NEW st, Fits(p, t, q, sg, st), Unawaited(q, sg),
         NEW p2 \in PageType, NEW t2 \in TaskType,
         TaskFits(t2, p2, st), PageFits(t2, p2, st), SelfsFit(q, t2, p2),
         t2.stage \in Wizard => SelfsOf(q, t2.who)
  PROVE  Fits(p2, t2, q, sg, st)
<1>1. Awaited(q, t2)
  BY DEF Unawaited, NoLiveTask, Awaited
<1>2. SignaturesFit(sg, q, t2, st)
  BY DEF Fits, SignaturesFit, Unawaited
<1>3. QED
  BY <1>1, <1>2 DEF Fits, Typed

\* A request of the task's is posted.
LEMMA RequestFits ==
  ASSUME NEW p, NEW t, NEW q, NEW sg, NEW st, Fits(p, t, q, sg, st),
         NEW r \in Request, r.op \in TaskOps,
         r.live => Unawaited(q, sg) /\ t.stage = StageOf(r.op) /\ r.who = t.who,
         r.op = "save" => r.who \in Holders /\ r.pair = r.who /\ Fresh(st, r.who),
         r.op = "got" => r.who \in Holders /\ st[r.who] = r.who
  PROVE  Fits(p, t, Append(q, r), sg, st)
<1> DEFINE q2 == Append(q, r)
           n == Len(q) + 1
<1>1. q \in Seq(Request)
  BY DEF Fits, Typed
<1>2. /\ q2 \in Seq(Request) /\ DOMAIN q2 = DOMAIN q \cup {n} /\ n \notin DOMAIN q /\ q2[n] = r
      /\ \A i \in DOMAIN q : q2[i] = q[i] /\ i \in Nat /\ i < n
  BY <1>1, AppendIndex
<1>3. n \in Nat /\ ~LiveSelf(r)
  BY <1>1 DEF LiveSelf, TaskOps
<1> HIDE DEF q2, n
<1>4. LiveTask(r) => NoLiveTask(q) /\ t.stage = StageOf(r.op) /\ r.who = t.who
  BY DEF LiveTask, Unawaited
<1>5. Awaited(q2, t)
  <2>1. \A i \in DOMAIN q2 : LiveTask(q2[i]) => t.stage = StageOf(q2[i].op) /\ q2[i].who = t.who
    BY <1>2, <1>4 DEF Fits, Awaited
  <2>2. \A i, j \in DOMAIN q2 : LiveTask(q2[i]) /\ LiveTask(q2[j]) => i = j
    BY <1>2, <1>4 DEF Fits, Awaited, NoLiveTask
  <2>3. \A i, j \in DOMAIN q2 :
          LiveTask(q2[i]) /\ i < j /\ LiveSelf(q2[j]) => q2[j].who = t.who
    <3> SUFFICES ASSUME NEW i \in DOMAIN q2, NEW j \in DOMAIN q2,
                        LiveTask(q2[i]), i < j, LiveSelf(q2[j])
                 PROVE  q2[j].who = t.who
      OBVIOUS
    <3>1. j \in DOMAIN q /\ q2[j] = q[j] /\ j < n
      BY <1>2, <1>3
    <3>2. i # n
      BY <1>3, <3>1, <1>1
    <3>3. i \in DOMAIN q /\ q2[i] = q[i]
      BY <1>2, <3>2
    <3>4. QED
      BY <3>1, <3>3 DEF Fits, Awaited
  <2>4. t.stage \in Wizard => SelfsOf(q2, t.who)
    BY <1>2, <1>3 DEF Fits, Awaited, SelfsOf
  <2>5. QED
    BY <2>1, <2>2, <2>3, <2>4 DEF Awaited
<1>6. SelfsFit(q2, t, p)
  BY <1>2, <1>3 DEF Fits, SelfsFit, SelfsOf
<1>7. RequestsFit(q2, st)
  BY <1>2, <1>3 DEF Fits, RequestsFit, TaskOps
<1>8. SignaturesFit(sg, q2, t, st)
  <2> SUFFICES ASSUME NEW s \in sg
               PROVE  /\ Fresh(st, s.who)
                      /\ s.live => t.stage = "deriving" /\ s.who = t.who /\ NoLiveTask(q2)
    BY DEF SignaturesFit
  <2>1. /\ Fresh(st, s.who)
        /\ s.live => t.stage = "deriving" /\ s.who = t.who /\ NoLiveTask(q)
    BY DEF Fits, SignaturesFit
  <2>2. s.live => ~r.live
    BY DEF Unawaited
  <2>3. s.live => NoLiveTask(q2)
    BY <1>2, <2>1, <2>2 DEF NoLiveTask, LiveTask
  <2>4. QED
    BY <2>1, <2>3
<1>9. Typed(p, t, q2, sg, st)
  BY <1>2 DEF Fits, Typed
<1>10. QED
  BY <1>5, <1>6, <1>7, <1>8, <1>9 DEF Fits, q2

LEMMA AskType ==
  ASSUME NEW op \in TaskOps, NEW who \in Holders
  PROVE  /\ Ask(op, who) \in Request /\ Ask(op, who).op = op /\ Ask(op, who).who = who
         /\ Ask(op, who).live
BY DEF Ask, Request, Account, Keys

\* The worker answers the request the task awaits.
LEMMA ServedFits ==
  ASSUME SessionInv, NEW op \in TaskOps, Served(op)
  PROVE  /\ Fits(page, task, Tail(queue), signing, stored)
         /\ Unawaited(Tail(queue), signing) /\ SelfsOf(Tail(queue), task.who)
         /\ task.stage = StageOf(op) /\ Head(queue).who = task.who /\ task.who \in Holders
         /\ page \in PageType /\ task \in TaskType
<1>1. Fits(page, task, queue, signing, stored)
  BY DEF SessionInv
<1>2. queue \in Seq(Request) /\ queue # <<>> /\ LiveTask(Head(queue)) /\ Head(queue).op = op
  BY <1>1 DEF Fits, Typed, Served, LiveTask
<1>3. 1 \in DOMAIN queue /\ Head(queue) = queue[1]
  BY <1>2, TailIndex
<1>4. task.stage = StageOf(op) /\ Head(queue).who = task.who
  BY <1>1, <1>2, <1>3 DEF Fits, Awaited
<1>5. \A s \in signing : ~s.live
  BY <1>1, <1>2, <1>3 DEF Fits, SignaturesFit, NoLiveTask
<1>6. task.stage \in Onboarded
  BY <1>4 DEF StageOf, TaskOps, Onboarded, Wizard
<1>7. task.who \in Holders
  BY <1>1, <1>6 DEF Fits, TaskFits
<1>8. QED
  BY <1>1, <1>2, <1>4, <1>5, <1>7, TailFits DEF Unawaited, Fits, Typed

-----------------------------------------------------------------------------
(* The steps of connect() and of the watcher.                              *)

LEMMA ConnectingType ==
  /\ Connecting \in TaskType /\ Connecting.stage = "access" /\ Connecting.kind = "connect"
BY DEF Connecting, NoTask, TaskType, Account, Keys

LEMMA ConnectInv ==
  ASSUME SessionInv, Connect
  PROVE  SessionInv'
<1>1. /\ Fits(page, task, queue, signing, stored) /\ page \in PageType
      /\ task = NoTask /\ ~page.connected
  BY DEF SessionInv, Fits, Typed, Connect
<1>2. Unawaited(queue, signing)
  BY <1>1, NoTaskType, IdleUnawaited
<1>3. page' \in PageType /\ ~page'.connected
  BY <1>1 DEF Connect, PageType
<1>4. UNCHANGED <<queue, signing, stored, active, network>> /\ task' = Connecting
  BY DEF Connect, browserVars
<1>5. Fits(page', task', queue, signing, stored)
  BY <1>1, <1>2, <1>3, <1>4, ConnectingType, EndedFits
<1>6. QED
  BY <1>4, <1>5 DEF SessionInv

LEMMA AccessGrantedInv ==
  ASSUME SessionInv, AccessGranted
  PROVE  SessionInv'
<1>1. /\ Fits(page, task, queue, signing, stored) /\ task \in TaskType /\ page \in PageType
      /\ task.stage = "access" /\ active \in Holders
  BY DEF SessionInv, Fits, Typed, AccessGranted
<1>2. Unawaited(queue, signing)
  BY <1>1, IdleUnawaited
<1>3. task.kind = "connect" /\ ~page.connected
  BY <1>1 DEF Fits, TaskFits
<1>4. /\ task' = [task EXCEPT !.stage = "network", !.who = active]
      /\ UNCHANGED <<page, queue, signing, stored, active, network>>
  BY DEF AccessGranted, browserVars
<1>5. /\ task' \in TaskType /\ task'.stage = "network" /\ task'.kind = "connect"
      /\ task'.who = active
  BY <1>1, <1>3, <1>4 DEF TaskType, Account
<1>6. TaskFits(task', page, stored)
  BY <1>1, <1>3, <1>5, NoTaskType DEF TaskFits, Onboarded, Wizard
<1>7. Fits(page, task', queue, signing, stored)
  BY <1>1, <1>2, <1>3, <1>5, <1>6, TaskChangeFits DEF PageFits, SelfsFit, Wizard
<1>8. QED
  BY <1>1, <1>4, <1>7 DEF SessionInv

LEMMA AbortInv ==
  ASSUME SessionInv, task.stage \notin {"terms", "keys", "accepting", "deriving"}, Abort,
         UNCHANGED <<queue, signing, stored, active, network>>
  PROVE  SessionInv'
<1>1. Fits(page, task, queue, signing, stored) /\ Unawaited(queue, signing)
  BY IdleUnawaited DEF SessionInv
<1>2. Fits(page', task', queue, signing, stored)
  BY <1>1, AbortFits
<1>3. QED
  BY <1>2 DEF SessionInv

LEMMA NetworkOfConnectInv ==
  ASSUME SessionInv, NetworkOfConnect
  PROVE  SessionInv'
<1>1. /\ Fits(page, task, queue, signing, stored) /\ task \in TaskType /\ page \in PageType
      /\ task.kind = "connect" /\ task.stage = "network" /\ network \in Networks
  BY DEF SessionInv, Fits, Typed, NetworkOfConnect
<1>2. UNCHANGED <<queue, signing, stored, active, network>>
  BY DEF NetworkOfConnect, browserVars
<1>3. CASE Abort
  BY <1>1, <1>2, <1>3, AbortInv
<1>4. CASE ~Abort
  <2>1. Unawaited(queue, signing)
    BY <1>1, IdleUnawaited
  <2>2. task.who \in Holders
    BY <1>1 DEF Fits, TaskFits
  <2>3. /\ page' = [page EXCEPT !.connected = TRUE, !.address = task.who, !.network = network]
        /\ task' = [task EXCEPT !.stage = "wasm"]
    BY <1>4 DEF NetworkOfConnect
  <2>4. page' \in PageType /\ page'.connected /\ page'.address = task.who
    BY <1>1, <2>2, <2>3 DEF PageType, Account
  <2>5. /\ task' \in TaskType /\ task'.stage = "wasm" /\ task'.kind = "connect"
        /\ task'.who = task.who
    BY <1>1, <2>3 DEF TaskType
  <2>6. TaskFits(task', page', stored)
    BY <2>2, <2>4, <2>5, NoTaskType DEF TaskFits, Onboarded, Wizard
  <2>7. Fits(page', task', queue, signing, stored)
    BY <1>1, <2>1, <2>4, <2>5, <2>6, TaskChangeFits DEF PageFits, SelfsFit, Wizard, Quiet
  <2>8. QED
    BY <1>2, <2>7 DEF SessionInv
<1>5. QED
  BY <1>3, <1>4

\* The task asks the worker whether its account has accepted the terms.
LEMMA AskTermsFits ==
  ASSUME NEW t, NEW p, NEW q, NEW sg, NEW st, Fits(p, t, q, sg, st), Unawaited(q, sg),
         t.who \in Holders, NEW p2 \in PageType, p2.connected => p2.address = t.who
  PROVE  Fits(p2, [t EXCEPT !.stage = "terms"], Append(q, Ask("terms", t.who)), sg, st)
<1> DEFINE t2 == [t EXCEPT !.stage = "terms"]
<1>1. t \in TaskType
  BY DEF Fits, Typed
<1>2. /\ t2 \in TaskType /\ t2.stage = "terms" /\ t2.who = t.who /\ t2.kind = t.kind
  BY <1>1 DEF TaskType, Onboarded
<1> HIDE DEF t2
<1>3. TaskFits(t2, p2, st)
  BY <1>2, NoTaskType DEF TaskFits, Onboarded, Wizard
<1>4. Fits(p2, t2, q, sg, st)
  BY <1>2, <1>3, TaskChangeFits DEF PageFits, SelfsFit, Wizard, Quiet
<1>5. "terms" \in TaskOps /\ StageOf("terms") = "terms"
  BY DEF TaskOps, StageOf
<1> DEFINE r == Ask("terms", t.who)
<1>6. r \in Request /\ r.op = "terms" /\ r.who = t.who /\ r.live
  BY <1>5, AskType
<1> HIDE DEF r
<1>7. Fits(p2, t2, Append(q, r), sg, st)
  BY <1>2, <1>4, <1>5, <1>6, RequestFits
<1>8. QED
  BY <1>7 DEF t2, r

LEMMA WasmLoadedInv ==
  ASSUME SessionInv, WasmLoaded
  PROVE  SessionInv'
<1>1. /\ Fits(page, task, queue, signing, stored) /\ page \in PageType /\ task.stage = "wasm"
  BY DEF SessionInv, Fits, Typed, WasmLoaded
<1>2. Unawaited(queue, signing)
  BY <1>1, IdleUnawaited
<1>3. task.who \in Holders /\ (page.connected => page.address = task.who)
  BY <1>1 DEF Fits, TaskFits
<1>4. page' \in PageType /\ page'.connected = page.connected /\ page'.address = page.address
  BY <1>1 DEF WasmLoaded, PageType
<1>5. /\ task' = [task EXCEPT !.stage = "terms"] /\ queue' = Append(queue, Ask("terms", task.who))
      /\ UNCHANGED <<signing, stored, active, network>>
  BY DEF WasmLoaded, browserVars
<1>6. Fits(page', task', queue', signing, stored)
  BY <1>1, <1>2, <1>3, <1>4, <1>5, AskTermsFits
<1>7. QED
  BY <1>5, <1>6 DEF SessionInv

LEMMA CallFailsInv ==
  ASSUME SessionInv, CallFails
  PROVE  SessionInv'
BY AbortInv DEF CallFails, browserVars

LEMMA WatcherReportsInv ==
  ASSUME SessionInv, WatcherReports
  PROVE  SessionInv'
<1>1. /\ Fits(page, task, queue, signing, stored) /\ task \in TaskType /\ page \in PageType
      /\ active \in Holders /\ network \in Networks
  BY DEF SessionInv, Fits, Typed
<1> DEFINE seen == [page EXCEPT !.seen = <<active, network>>]
           moved == active # page.address
<1>2. UNCHANGED <<queue, signing, stored, active, network>>
  BY DEF WatcherReports, browserVars
<1>3. /\ seen \in PageType /\ SameIdentity(seen, page) /\ seen.rows = page.rows
      /\ [seen EXCEPT !.submit = FALSE] \in PageType
      /\ SameIdentity([seen EXCEPT !.submit = FALSE], page)
      /\ [seen EXCEPT !.submit = FALSE].rows = page.rows
  BY <1>1 DEF PageType, SameIdentity
<1>4. page' \in PageType /\ SameIdentity(page', page) /\ page'.rows = page.rows
  BY <1>3 DEF WatcherReports
<1>5. Fits(page', task, queue, signing, stored)
  BY <1>1, <1>4, PageChangeFits DEF Fits, PageFits
<1>6. CASE task' = task
  BY <1>1, <1>2, <1>5, <1>6 DEF SessionInv
<1>7. CASE task' # task
  <2>1. /\ task = NoTask /\ page.connected
        /\ task' = [NoTask EXCEPT !.kind = "change", !.stage = "network",
                                  !.who = IF moved THEN active ELSE None]
    BY <1>7 DEF WatcherReports
  <2>2. Unawaited(queue, signing)
    BY <1>1, <2>1, NoTaskType, IdleUnawaited
  <2>3. task' \in TaskType /\ task'.kind = "change" /\ task'.stage = "network"
    BY <1>1, <2>1, NoTaskType DEF TaskType, Account
  <2>4. TaskFits(task', page', stored)
    BY <2>3, NoTaskType DEF TaskFits, Onboarded, Wizard
  <2>5. Quiet(task) /\ Quiet(task')
    BY <2>1, <2>3, NoTaskType DEF Quiet
  <2>6. PageFits(task', page', stored) /\ SelfsFit(queue, task', page')
    BY <1>5, <2>5 DEF Fits, PageFits, SelfsFit
  <2>7. Fits(page', task', queue, signing, stored)
    BY <1>4, <1>5, <2>2, <2>3, <2>4, <2>6, TaskChangeFits DEF Wizard
  <2>8. QED
    BY <1>1, <1>2, <2>7 DEF SessionInv
<1>8. QED
  BY <1>6, <1>7

LEMMA NetworkOfChangeInv ==
  ASSUME SessionInv, NetworkOfChange
  PROVE  SessionInv'
<1>1. /\ Fits(page, task, queue, signing, stored) /\ task \in TaskType /\ page \in PageType
      /\ network \in Networks /\ active \in Holders
      /\ task.kind = "change" /\ task.stage = "network"
  BY DEF SessionInv, Fits, Typed, NetworkOfChange
<1>2. UNCHANGED <<signing, stored, active, network>>
  BY DEF NetworkOfChange, browserVars
<1>3. Unawaited(queue, signing) /\ Quiet(task)
  BY <1>1, IdleUnawaited DEF Quiet
<1>4. CASE Abort /\ queue' = queue
  BY <1>1, <1>2, <1>4, AbortInv
<1>5. CASE /\ page' = [page EXCEPT !.network = network]
           /\ task' = NoTask /\ queue' = queue
  <2>1. page' \in PageType /\ SameIdentity(page', page) /\ page'.rows = page.rows
    BY <1>1, <1>5 DEF PageType, SameIdentity
  <2>2. PageFits(task', page', stored) /\ SelfsFit(queue, task', page')
    BY <1>1, <1>3, <2>1 DEF Fits, PageFits, SelfsFit, SameIdentity, OwnRow
  <2>3. TaskFits(task', page', stored)
    BY <1>5, NoTaskType DEF TaskFits, Onboarded, Wizard
  <2>4. Fits(page', task', queue, signing, stored)
    BY <1>1, <1>3, <1>5, <2>1, <2>2, <2>3, NoTaskType, TaskChangeFits DEF Wizard
  <2>5. QED
    BY <1>1, <1>2, <1>5, <2>4 DEF SessionInv
<1>6. CASE /\ task.who # None
           /\ page' = [page EXCEPT !.network = network, !.address = task.who]
           /\ task' = [task EXCEPT !.stage = "terms"]
           /\ queue' = Append(queue, Ask("terms", task.who))
  <2>1. task.who \in Holders
    BY <1>1, <1>6 DEF TaskType, Account
  <2>2. page' \in PageType /\ page'.address = task.who
    BY <1>1, <1>6, <2>1 DEF PageType, Account
  <2>3. Fits(page', task', queue', signing, stored)
    BY <1>1, <1>3, <1>6, <2>1, <2>2, AskTermsFits
  <2>4. QED
    BY <1>1, <1>2, <2>3 DEF SessionInv
<1>7. QED
  BY <1>4, <1>5, <1>6 DEF NetworkOfChange

-----------------------------------------------------------------------------
(* The steps of the wizard and of a derivation.                            *)

\* The task moves to another stage of the wizard, with the keys it knows of.
LEMMA StageFits ==
  ASSUME NEW p, NEW t, NEW q, NEW sg, NEW st, Fits(p, t, q, sg, st), Unawaited(q, sg),
         t.stage \in Onboarded, NEW t2 \in TaskType, t2.stage \in Onboarded,
         t2.who = t.who, t2.keys = t.keys,
         t2.stage \in Wizard => t.stage \in Wizard,
         t2.stage \in {"derive", "deriving"} => t.keys = None
  PROVE  Fits(p, t2, q, sg, st)
<1>1. TaskFits(t2, p, st)
  BY NoTaskType DEF Fits, TaskFits, Onboarded, Wizard
<1>2. ~Quiet(t2)
  BY DEF Quiet, Onboarded, Wizard
<1>3. t2.stage \in Wizard => SelfsOf(q, t2.who)
  BY DEF Fits, Awaited
<1>4. p \in PageType
  BY DEF Fits, Typed
<1>5. QED
  BY <1>1, <1>2, <1>3, <1>4, TaskChangeFits DEF PageFits, SelfsFit

LEMMA TermsAnsweredInv ==
  ASSUME SessionInv, TermsAnswered
  PROVE  SessionInv'
<1> DEFINE q == Tail(queue)
<1>1. /\ Fits(page, task, q, signing, stored) /\ Unawaited(q, signing)
      /\ task.stage = "terms" /\ task.who \in Holders
      /\ page \in PageType /\ task \in TaskType
  BY ServedFits DEF TermsAnswered, TaskOps, StageOf
<1>2. /\ task' = [task EXCEPT !.stage = "keys", !.terms = task.who \notin accepted]
      /\ queue' = Append(q, Ask("keys", task.who))
      /\ UNCHANGED <<page, signing, stored, active, network>>
  BY DEF TermsAnswered, browserVars
<1>3. /\ task' \in TaskType /\ task'.stage = "keys" /\ task'.who = task.who
      /\ task'.keys = task.keys
  <2>1. (task.who \notin accepted) \in BOOLEAN
    OBVIOUS
  <2>2. QED
    BY <1>1, <1>2, <2>1 DEF TaskType, Onboarded
<1> HIDE DEF q
<1>4. Fits(page, task', q, signing, stored)
  BY <1>1, <1>3, StageFits DEF Onboarded, Wizard
<1> DEFINE r == Ask("keys", task.who)
<1>5. /\ r \in Request /\ r.op = "keys" /\ r.who = task'.who /\ r.live
      /\ "keys" \in TaskOps /\ StageOf("keys") = "keys"
  BY <1>1, <1>3, AskType DEF TaskOps, StageOf
<1> HIDE DEF r
<1>6. Fits(page, task', Append(q, r), signing, stored)
  BY <1>1, <1>3, <1>4, <1>5, RequestFits
<1>7. QED
  BY <1>2, <1>6 DEF SessionInv, r

LEMMA KeysAnsweredInv ==
  ASSUME SessionInv, KeysAnswered
  PROVE  SessionInv'
<1> DEFINE q == Tail(queue)
<1>1. /\ Fits(page, task, q, signing, stored) /\ Unawaited(q, signing) /\ SelfsOf(q, task.who)
      /\ task.stage = "keys" /\ task.who \in Holders
      /\ page \in PageType /\ task \in TaskType
  BY ServedFits DEF KeysAnswered, TaskOps, StageOf
<1>2. UNCHANGED <<signing, stored, active, network>>
  BY DEF KeysAnswered, browserVars
<1>3. PICK offer \in BOOLEAN :
        Proceed([task EXCEPT !.keys = UserKeys(task.who), !.storage = offer], q)
  BY DEF KeysAnswered
<1> DEFINE t == [task EXCEPT !.keys = UserKeys(task.who), !.storage = offer]
<1>4. UserKeys(task.who) \in Keys /\ UserKeys(task.who) = stored[task.who]
  BY <1>1 DEF UserKeys, Fits, Typed
<1>5. /\ t \in TaskType /\ t.stage = task.stage /\ t.who = task.who
      /\ t.keys = stored[task.who]
  BY <1>1, <1>4 DEF TaskType
<1> HIDE DEF q, t
<1>6. KeysKnown(t, q, signing, stored)
  BY <1>1, <1>5 DEF KeysKnown, Onboarded, Fresh
<1>7. Fits(page', task', queue', signing, stored)
  BY <1>1, <1>3, <1>5, <1>6, ProceedFits DEF t
<1>8. QED
  BY <1>2, <1>7 DEF SessionInv

LEMMA AcceptInv ==
  ASSUME SessionInv, Accept
  PROVE  SessionInv'
<1>1. /\ Fits(page, task, queue, signing, stored) /\ task \in TaskType
      /\ task.stage = "disclaimer" /\ task.stage \in Wizard
  BY DEF SessionInv, Fits, Typed, Accept, Wizard
<1>2. Unawaited(queue, signing)
  BY <1>1, IdleUnawaited
<1>3. task.who \in Holders
  BY <1>1 DEF Fits, TaskFits, Onboarded
<1>4. /\ task' = [task EXCEPT !.stage = "accepting"]
      /\ queue' = Append(queue, Ask("accept", task.who))
      /\ UNCHANGED <<page, signing, stored, active, network>>
  BY DEF Accept, browserVars
<1>5. /\ task' \in TaskType /\ task'.stage = "accepting" /\ task'.who = task.who
      /\ task'.keys = task.keys
  BY <1>1, <1>4 DEF TaskType, Onboarded, Wizard
<1>6. Fits(page, task', queue, signing, stored)
  BY <1>1, <1>2, <1>5, StageFits DEF Onboarded, Wizard
<1> DEFINE r == Ask("accept", task.who)
<1>7. /\ r \in Request /\ r.op = "accept" /\ r.who = task'.who /\ r.live
      /\ "accept" \in TaskOps /\ StageOf("accept") = "accepting"
  BY <1>3, <1>5, AskType DEF TaskOps, StageOf
<1> HIDE DEF r
<1>8. Fits(page, task', Append(queue, r), signing, stored)
  BY <1>2, <1>5, <1>6, <1>7, RequestFits
<1>9. QED
  BY <1>4, <1>8 DEF SessionInv, r

\* The wizard goes on from a stage, knowing what it knew.
LEMMA GoOnFits ==
  ASSUME NEW q, Fits(page, task, q, signing, stored), Unawaited(q, signing),
         task.stage \in Wizard, NEW t \in TaskType,
         t.stage = task.stage, t.who = task.who, t.keys = task.keys, Proceed(t, q)
  PROVE  Fits(page', task', queue', signing, stored)
<1>1. SelfsOf(q, t.who)
  BY DEF Fits, Awaited
<1>2. KeysKnown(t, q, signing, stored)
  BY <1>1 DEF Fits, TaskFits, KeysKnown, Onboarded
<1>3. QED
  BY <1>2, ProceedFits

LEMMA AcceptAnsweredInv ==
  ASSUME SessionInv, AcceptAnswered
  PROVE  SessionInv'
<1> DEFINE q == Tail(queue)
           t == [task EXCEPT !.terms = FALSE]
<1>1. /\ Fits(page, task, q, signing, stored) /\ Unawaited(q, signing)
      /\ task.stage \in Wizard /\ task \in TaskType
  BY ServedFits DEF AcceptAnswered, TaskOps, StageOf, Wizard
<1>2. t \in TaskType /\ t.stage = task.stage /\ t.who = task.who /\ t.keys = task.keys
  BY <1>1 DEF TaskType
<1>3. Proceed(t, q) /\ UNCHANGED <<signing, stored, active, network>>
  BY DEF AcceptAnswered, browserVars
<1> HIDE DEF q, t
<1>4. Fits(page', task', queue', signing, stored)
  BY <1>1, <1>2, <1>3, GoOnFits
<1>5. QED
  BY <1>3, <1>4 DEF SessionInv

LEMMA StorageStepDoneInv ==
  ASSUME SessionInv, StorageStepDone
  PROVE  SessionInv'
<1> DEFINE t == [task EXCEPT !.storage = FALSE]
<1>1. /\ Fits(page, task, queue, signing, stored) /\ task \in TaskType
      /\ task.stage = "storage" /\ task.stage \in Wizard
  BY DEF SessionInv, Fits, Typed, StorageStepDone, Wizard
<1>2. Unawaited(queue, signing)
  BY <1>1, IdleUnawaited
<1>3. t \in TaskType /\ t.stage = task.stage /\ t.who = task.who /\ t.keys = task.keys
  BY <1>1 DEF TaskType
<1>4. Proceed(t, queue) /\ UNCHANGED <<signing, stored, active, network>>
  BY DEF StorageStepDone, browserVars
<1> HIDE DEF t
<1>5. Fits(page', task', queue', signing, stored)
  BY <1>1, <1>2, <1>3, <1>4, GoOnFits
<1>6. QED
  BY <1>4, <1>5 DEF SessionInv

LEMMA DeriveInv ==
  ASSUME SessionInv, Derive
  PROVE  SessionInv'
<1>1. /\ Fits(page, task, queue, signing, stored) /\ task \in TaskType
      /\ task.stage = "derive" /\ task.stage \in Wizard
  BY DEF SessionInv, Fits, Typed, Derive, Wizard
<1>2. Unawaited(queue, signing)
  BY <1>1, IdleUnawaited
<1>3. task.who \in Holders /\ task.keys = None /\ Fresh(stored, task.who)
  BY <1>1 DEF Fits, TaskFits, Onboarded
<1> DEFINE s == [who |-> task.who, live |-> TRUE]
<1>4. /\ task' = [task EXCEPT !.stage = "deriving"] /\ signing' = signing \cup {s}
      /\ UNCHANGED <<page, queue, stored, active, network>>
  BY DEF Derive, browserVars
<1>5. /\ task' \in TaskType /\ task'.stage = "deriving" /\ task'.who = task.who
      /\ task'.keys = task.keys
  BY <1>1, <1>4 DEF TaskType, Onboarded, Wizard
<1>6. Fits(page, task', queue, signing, stored)
  BY <1>1, <1>2, <1>3, <1>5, StageFits DEF Onboarded, Wizard
<1>7. s \in Signing /\ s.who = task'.who
  BY <1>3, <1>5 DEF Signing
<1> HIDE DEF s
<1>8. SignaturesFit(signing', queue, task', stored)
  BY <1>2, <1>3, <1>4, <1>5, <1>6, <1>7 DEF Fits, SignaturesFit, Unawaited
<1>9. Fits(page, task', queue, signing', stored)
  BY <1>4, <1>6, <1>7, <1>8 DEF Fits, Typed
<1>10. QED
  BY <1>4, <1>9 DEF SessionInv

\* A signature is no longer awaited; any other is of a cancelled derivation.
LEMMA SignedFits ==
  ASSUME NEW p, NEW t, NEW q, NEW sg, NEW st, Fits(p, t, q, sg, st), NEW s \in sg
  PROVE  /\ Fits(p, t, q, sg \ {s}, st)
         /\ s.who \in Holders /\ s.live \in BOOLEAN /\ Fresh(st, s.who)
         /\ s.live => /\ Unawaited(q, sg \ {s}) /\ s.who = t.who /\ t.stage = "deriving"
<1>1. \A x \in sg : x = [who |-> x.who, live |-> x.live] /\ x.who \in Holders /\ x.live \in BOOLEAN
  BY DEF Fits, Typed, Signing
<1>2. \A x \in sg \ {s} : s.live => ~x.live
  <2> SUFFICES ASSUME NEW x \in sg \ {s}, s.live PROVE ~x.live
    OBVIOUS
  <2>1. x.live => x.who = t.who
    BY DEF Fits, SignaturesFit
  <2>2. s.who = t.who
    BY DEF Fits, SignaturesFit
  <2>3. x.live => x = s
    BY <1>1, <2>1, <2>2
  <2>4. QED
    BY <2>3
<1>3. SignaturesFit(sg \ {s}, q, t, st)
  BY DEF Fits, SignaturesFit
<1>4. QED
  BY <1>1, <1>2, <1>3 DEF Fits, Typed, SignaturesFit, Unawaited

LEMMA SignInv ==
  ASSUME SessionInv, NEW s \in signing, Sign(s)
  PROVE  SessionInv'
<1> DEFINE sg == signing \ {s}
           r == [Ask("save", s.who) EXCEPT !.pair = s.who, !.live = s.live]
<1>1. /\ signing' = sg /\ queue' = Append(queue, r)
      /\ UNCHANGED <<page, task, stored, active, network>>
  BY DEF Sign, browserVars
<1>2. /\ Fits(page, task, queue, sg, stored)
      /\ s.who \in Holders /\ s.live \in BOOLEAN /\ Fresh(stored, s.who)
      /\ s.live => Unawaited(queue, sg) /\ s.who = task.who /\ task.stage = "deriving"
  BY SignedFits DEF SessionInv
<1>3. /\ r \in Request /\ r.op = "save" /\ r.who = s.who /\ r.pair = s.who /\ r.live = s.live
  BY <1>2 DEF Ask, Request, TaskOps, Account, Keys, KeyPairs
<1>4. "save" \in TaskOps /\ StageOf("save") = "deriving"
  BY DEF TaskOps, StageOf
<1> HIDE DEF sg, r
<1>5. Fits(page, task, Append(queue, r), sg, stored)
  BY <1>2, <1>3, <1>4, RequestFits
<1>6. QED
  BY <1>1, <1>5 DEF SessionInv

LEMMA RefuseToSignInv ==
  ASSUME SessionInv, NEW s \in signing, RefuseToSign(s)
  PROVE  SessionInv'
<1> DEFINE sg == signing \ {s}
<1>1. /\ signing' = sg
      /\ UNCHANGED <<page, queue, stored, active, network>>
      /\ task' = IF s.live THEN [task EXCEPT !.stage = "derive"] ELSE task
  BY DEF RefuseToSign, browserVars
<1>2. /\ Fits(page, task, queue, sg, stored) /\ task \in TaskType
      /\ s.live => Unawaited(queue, sg) /\ task.stage = "deriving"
  BY SignedFits DEF SessionInv, Fits, Typed
<1> HIDE DEF sg
<1>3. CASE ~s.live
  BY <1>1, <1>2, <1>3 DEF SessionInv
<1>4. CASE s.live
  <2>1. /\ task' \in TaskType /\ task'.stage = "derive" /\ task'.who = task.who
        /\ task'.keys = task.keys
    BY <1>1, <1>2, <1>4 DEF TaskType, Onboarded, Wizard
  <2>2. task.keys = None
    BY <1>2, <1>4 DEF Fits, TaskFits
  <2>3. Fits(page, task', queue, sg, stored)
    BY <1>2, <1>4, <2>1, <2>2, StageFits DEF Onboarded, Wizard
  <2>4. QED
    BY <1>1, <2>3 DEF SessionInv
<1>5. QED
  BY <1>3, <1>4

LEMMA SaveAnsweredInv ==
  ASSUME SessionInv, SaveAnswered
  PROVE  SessionInv'
<1> DEFINE q == Tail(queue)
           a == task.who
           st == [stored EXCEPT ![a] = a]
           r == Ask("got", a)
<1>1. /\ Fits(page, task, q, signing, stored) /\ Unawaited(q, signing)
      /\ task.stage = "deriving" /\ a \in Holders /\ Head(queue).who = a
  BY ServedFits DEF SaveAnswered, TaskOps, StageOf
<1>2. Head(queue).pair = a /\ Fresh(stored, a)
  <2>1. /\ queue \in Seq(Request) /\ queue # <<>> /\ Head(queue).op = "save"
        /\ RequestsFit(queue, stored)
    BY DEF SessionInv, Fits, Typed, SaveAnswered, Served
  <2>2. 1 \in DOMAIN queue /\ Head(queue) = queue[1]
    BY <2>1, TailIndex
  <2>3. QED
    BY <1>1, <2>1, <2>2 DEF RequestsFit
<1>3. /\ stored' = st /\ queue' = Append(q, r)
      /\ UNCHANGED <<page, task, signing, active, network>>
  BY <1>1, <1>2 DEF SaveAnswered, SaveUserKeys
<1>4. st[a] = a
  BY <1>1 DEF Fits, Typed
<1>5. /\ r \in Request /\ r.op = "got" /\ r.who = a /\ r.live
      /\ "got" \in TaskOps /\ StageOf("got") = "deriving"
  BY <1>1, AskType DEF TaskOps, StageOf
<1> HIDE DEF q, r, st
<1>6. Fits(page, task, q, signing, st)
  BY <1>1, <1>2, SavedFits DEF st
<1>7. Fits(page, task, Append(q, r), signing, st)
  BY <1>1, <1>4, <1>5, <1>6, RequestFits
<1>8. QED
  BY <1>3, <1>7 DEF SessionInv

LEMMA DerivedAnsweredInv ==
  ASSUME SessionInv, DerivedAnswered
  PROVE  SessionInv'
<1> DEFINE q == Tail(queue)
           t == [task EXCEPT !.keys = UserKeys(Head(queue).who)]
<1>1. /\ Fits(page, task, q, signing, stored) /\ Unawaited(q, signing) /\ SelfsOf(q, task.who)
      /\ task.stage = "deriving" /\ task.who \in Holders /\ Head(queue).who = task.who
      /\ task \in TaskType
  BY ServedFits DEF DerivedAnswered, TaskOps, StageOf
<1>2. stored[task.who] = task.who
  <2>1. /\ queue \in Seq(Request) /\ queue # <<>> /\ Head(queue).op = "got"
        /\ RequestsFit(queue, stored)
    BY DEF SessionInv, Fits, Typed, DerivedAnswered, Served
  <2>2. 1 \in DOMAIN queue /\ Head(queue) = queue[1]
    BY <2>1, TailIndex
  <2>3. QED
    BY <1>1, <2>1, <2>2 DEF RequestsFit
<1>3. Finish(t, q) /\ UNCHANGED <<signing, stored, active, network>>
  BY DEF DerivedAnswered, browserVars
<1>4. /\ t \in TaskType /\ t.stage = task.stage /\ t.who = task.who
      /\ t.keys = stored[task.who] /\ t.keys # None
  BY <1>1, <1>2, HoldersAssumption DEF TaskType, UserKeys, Keys, KeyPairs
<1> HIDE DEF q, t
<1>5. KeysKnown(t, q, signing, stored)
  BY <1>1, <1>4 DEF KeysKnown, Onboarded, Wizard
<1>6. Fits(page', task', queue', signing, stored)
  BY <1>1, <1>3, <1>4, <1>5, FinishFits
<1>7. QED
  BY <1>3, <1>6 DEF SessionInv

\* The wizard is closed: everything asked for it is asked in vain.
LEMMA CloseInv ==
  ASSUME SessionInv, Close
  PROVE  SessionInv'
<1>1. /\ Fits(page, task, queue, signing, stored) /\ queue \in Seq(Request)
      /\ signing \subseteq Signing
      /\ task.stage \in {"disclaimer", "accepting", "storage", "derive", "deriving"}
  BY DEF SessionInv, Fits, Typed, Close, ModalShown
<1>2. UNCHANGED <<stored, active, network>> /\ Abort
  BY DEF Close, browserVars
<1>3. GivenUp(queue', queue)
  <2>1. \A i \in DOMAIN queue : queue[i] \in Request
    BY <1>1
  <2>2. queue' = [i \in DOMAIN queue |->
                    [queue[i] EXCEPT !.live = @ /\ queue[i].op \notin {"accept", "save", "got"}]]
    BY DEF Close
  <2>3. \A i \in DOMAIN queue :
          /\ queue'[i] \in Request
          /\ queue'[i].op = queue[i].op /\ queue'[i].who = queue[i].who
          /\ queue'[i].pair = queue[i].pair
          /\ queue'[i].live => queue[i].live
    BY <2>1, <2>2 DEF Request
  <2>4. DOMAIN queue' = 1 .. Len(queue) /\ DOMAIN queue = 1 .. Len(queue) /\ Len(queue) \in Nat
    BY <1>1, <2>2
  <2>5. queue' = [i \in 1 .. Len(queue) |-> queue'[i]]
    BY <2>2, <2>4
  <2>6. queue' \in Seq(Request)
    BY <2>3, <2>4, <2>5
  <2>7. QED
    BY <2>3, <2>4, <2>6 DEF GivenUp
<1>4. Fits(page, task, queue', signing, stored)
  BY <1>1, <1>3, GivenUpFits
<1>5. NoLiveTask(queue')
  <2> SUFFICES ASSUME NEW i \in DOMAIN queue', LiveTask(queue'[i]) PROVE FALSE
    BY DEF NoLiveTask
  <2>1. i \in DOMAIN queue /\ queue[i] \in Request
    BY <1>1, <1>3 DEF GivenUp
  <2>2. queue'[i].op \notin {"accept", "save", "got"}
    BY <2>1 DEF Close, LiveTask, Request
  <2>3. task.stage = StageOf(queue'[i].op) /\ queue'[i].op \in TaskOps
    BY <1>4 DEF Fits, Awaited, LiveTask
  <2>4. QED
    BY <1>1, <2>2, <2>3 DEF StageOf, TaskOps
<1>6. signing' \subseteq Signing /\ \A s \in signing' : ~s.live /\ \E x \in signing : s.who = x.who
  BY <1>1 DEF Close, Signing
<1>7. Fits(page, task, queue', signing', stored)
  <2>1. SignaturesFit(signing', queue', task, stored)
    BY <1>1, <1>6 DEF Fits, SignaturesFit
  <2>2. QED
    BY <1>4, <1>6, <2>1 DEF Fits, Typed
<1>8. Fits(page', task', queue', signing', stored)
  BY <1>2, <1>5, <1>6, <1>7, AbortFits DEF Unawaited
<1>9. QED
  BY <1>2, <1>8 DEF SessionInv

-----------------------------------------------------------------------------
(* The notes table, the address book and what the user does on the page.   *)

\* The keys of the page may change while it is of no account.
LEMMA TableChangeFits ==
  ASSUME NEW p, NEW t, NEW q, NEW sg, NEW st, Fits(p, t, q, sg, st),
         NEW p2 \in PageType, p2.connected = p.connected, p2.address = p.address,
         p.connected /\ Quiet(t) => /\ SameIdentity(p2, p)
                                    /\ \A r \in p2.rows : r = OwnRow(p)
  PROVE  Fits(p2, t, q, sg, st)
<1>1. Typed(p2, t, q, sg, st)
  BY DEF Fits, Typed
<1>2. SelfsFit(q, t, p2)
  BY DEF Fits, SelfsFit
<1>3. TaskFits(t, p2, st)
  BY DEF Fits, TaskFits
<1>4. PageFits(t, p2, st)
  BY DEF Fits, PageFits, SameIdentity, OwnRow
<1>5. QED
  BY <1>1, <1>2, <1>3, <1>4 DEF Fits

\* Rows are cleared or kept, the user's own row is shown, requests are posted.
LEMMA ShownFits ==
  ASSUME NEW q, Fits(page, task, q, signing, stored),
         NEW p2, SameIdentity(p2, page), p2.rows \subseteq page.rows,
         page' \in PageType, SameIdentity(page', p2), RowsOf(page', p2, p2.address),
         Asked(queue', q, p2)
  PROVE  Fits(page', task, queue', signing, stored)
<1>1. SameIdentity(page', page)
  BY DEF SameIdentity
<1>2. page.connected /\ Quiet(task) => \A r \in page'.rows : r = OwnRow(page)
  BY DEF Fits, PageFits, RowsOf, SameIdentity, OwnRow
<1>3. Fits(page', task, q, signing, stored)
  BY <1>1, <1>2, PageChangeFits
<1>4. Asked(queue', q, page')
  BY AskedSame
<1>5. QED
  BY <1>3, <1>4, AskedFits

LEMMA NotesAnsweredInv ==
  ASSUME SessionInv, NotesAnswered
  PROVE  SessionInv'
<1> DEFINE q == Tail(queue)
<1>1. /\ Fits(page, task, queue, signing, stored) /\ queue # <<>> /\ queue \in Seq(Request)
      /\ page \in PageType
  BY DEF SessionInv, Fits, Typed, NotesAnswered, Served
<1>2. Fits(page, task, q, signing, stored) /\ Head(queue).who \in Account
  <2>1. Head(queue) \in Request
    BY <1>1, TailIndex
  <2>2. QED
    BY <1>1, <2>1, TailFits DEF Request
<1>3. /\ page' = [page EXCEPT !.notes = Head(queue).who, !.refreshing = FALSE]
      /\ queue' = q /\ UNCHANGED <<task, signing, stored, active, network>>
  BY DEF NotesAnswered, browserVars
<1>4. page' \in PageType /\ SameIdentity(page', page) /\ page'.rows = page.rows
  BY <1>1, <1>2, <1>3 DEF PageType, SameIdentity
<1> HIDE DEF q
<1>5. Fits(page', task, q, signing, stored)
  BY <1>2, <1>4, PageChangeFits DEF Fits, PageFits
<1>6. QED
  BY <1>3, <1>5 DEF SessionInv

LEMMA ListAnsweredInv ==
  ASSUME SessionInv, ListAnswered
  PROVE  SessionInv'
<1> DEFINE q == Tail(queue)
           p1 == [page EXCEPT !.cached = TRUE]
           p2 == [page EXCEPT !.cached = TRUE, !.rows = {}]
<1>1. /\ Fits(page, task, queue, signing, stored) /\ queue # <<>> /\ page \in PageType
  BY DEF SessionInv, Fits, Typed, ListAnswered, Served
<1>2. Fits(page, task, q, signing, stored)
  BY <1>1, TailFits
<1>3. UNCHANGED <<task, signing, stored, active, network>>
  BY DEF ListAnswered, browserVars
<1>4. /\ p1 \in PageType /\ SameIdentity(p1, page) /\ p1.rows \subseteq page.rows
      /\ p2 \in PageType /\ SameIdentity(p2, page) /\ p2.rows \subseteq page.rows
  BY <1>1 DEF PageType, SameIdentity
<1>5. Continue(p1, q) \/ Continue(p2, q)
  BY DEF ListAnswered
<1> HIDE DEF q, p1, p2
<1>6. Fits(page', task, queue', signing, stored)
  BY <1>2, <1>4, <1>5, ContinueFacts, ShownFits
<1>7. QED
  BY <1>3, <1>6 DEF SessionInv

\* While the page is of an account only that account's keys are asked for.
LEMMA SelfAnsweredInv ==
  ASSUME SessionInv, SelfAnswered
  PROVE  SessionInv'
<1> DEFINE q == Tail(queue)
           who == Head(queue).who
           told == UserKeys(who)
           keys == IF told # None THEN told ELSE page.keys
           p1 == [page EXCEPT !.keys = keys]
<1>1. /\ Fits(page, task, queue, signing, stored) /\ queue # <<>> /\ queue \in Seq(Request)
      /\ page \in PageType /\ stored \in [Holders -> Keys]
      /\ LiveSelf(Head(queue)) /\ Head(queue).op = "self"
  BY DEF SessionInv, Fits, Typed, SelfAnswered, Served, LiveSelf
<1>2. 1 \in DOMAIN queue /\ Head(queue) = queue[1]
  BY <1>1, TailIndex
<1>3. /\ Fits(page, task, q, signing, stored) /\ who \in Holders
      /\ page.connected /\ Quiet(task) => who = page.address
  <2>1. Fits(page, task, q, signing, stored)
    BY <1>1, TailFits
  <2>2. who \in Holders
    BY <1>1, <1>2 DEF Fits, RequestsFit
  <2>3. page.connected /\ Quiet(task) => who = page.address
    BY <1>1, <1>2 DEF Fits, SelfsFit, SelfsOf
  <2>4. QED
    BY <2>1, <2>2, <2>3
<1>4. page' \in WithRow(p1, who) /\ queue' = q
      /\ UNCHANGED <<task, signing, stored, active, network>>
  <2>1. p1 = [page EXCEPT !.keys = IF told # None THEN told ELSE @]
    BY <1>1 DEF PageType
  <2>2. QED
    BY <2>1 DEF SelfAnswered, browserVars
<1>5. told \in Keys /\ told = stored[who]
  BY <1>1, <1>3 DEF UserKeys
<1>6. /\ p1 \in PageType /\ p1.connected = page.connected /\ p1.address = page.address
      /\ p1.recipient = page.recipient /\ p1.rows = page.rows /\ p1.keys = keys
  BY <1>1, <1>5 DEF PageType
<1>7. page.connected /\ Quiet(task) => keys = page.keys /\ page.keys # None
  BY <1>3, <1>5 DEF Fits, PageFits
<1>8. who \in Account
  BY <1>3 DEF Account
<1> HIDE DEF q, who, told, keys, p1
<1>9. page' \in PageType /\ SameIdentity(page', p1) /\ RowsOf(page', p1, who)
  BY <1>4, <1>6, <1>8, WithRowFacts
<1>10. page.connected /\ Quiet(task) => /\ SameIdentity(page', page)
                                        /\ \A r \in page'.rows : r = OwnRow(page)
  BY <1>3, <1>6, <1>7, <1>9 DEF Fits, PageFits, SameIdentity, RowsOf, OwnRow
<1>11. Fits(page', task, q, signing, stored)
  BY <1>3, <1>6, <1>9, <1>10, TableChangeFits DEF SameIdentity
<1>12. QED
  BY <1>4, <1>11 DEF SessionInv

\* What nobody awaits is served all the same.
LEMMA ServedInVainInv ==
  ASSUME SessionInv, ServedInVain
  PROVE  SessionInv'
<1> DEFINE r == Head(queue)
<1>1. /\ Fits(page, task, queue, signing, stored) /\ queue # <<>> /\ queue \in Seq(Request)
  BY DEF SessionInv, Fits, Typed, ServedInVain
<1>2. 1 \in DOMAIN queue /\ r = queue[1]
  BY <1>1, TailIndex
<1>3. Fits(page, task, Tail(queue), signing, stored)
  BY <1>1, TailFits
<1>4. queue' = Tail(queue) /\ UNCHANGED <<page, task, signing, active, network>>
  BY DEF ServedInVain, SaveUserKeys, browserVars
<1>5. CASE r.op = "save"
  <2>1. r.who \in Holders /\ r.pair = r.who /\ Fresh(stored, r.who)
    BY <1>1, <1>2, <1>5 DEF Fits, RequestsFit
  <2>2. stored' = [stored EXCEPT ![r.who] = r.who]
    BY <1>5, <2>1 DEF ServedInVain, SaveUserKeys
  <2> HIDE DEF r
  <2>3. Fits(page, task, Tail(queue), signing, [stored EXCEPT ![r.who] = r.who])
    BY <1>3, <2>1, SavedFits
  <2>4. QED
    BY <1>4, <2>2, <2>3 DEF SessionInv
<1>6. CASE r.op # "save"
  BY <1>3, <1>4, <1>6 DEF ServedInVain, browserVars, SessionInv
<1>7. QED
  BY <1>5, <1>6

\* A request is given up, and with it what awaits its answer.
LEMMA ExpireInv ==
  ASSUME SessionInv, NEW i \in DOMAIN queue, Expire(i)
  PROVE  SessionInv'
<1> DEFINE op == queue[i].op
<1>1. /\ Fits(page, task, queue, signing, stored) /\ queue \in Seq(Request)
      /\ page \in PageType /\ task \in TaskType
  BY DEF SessionInv, Fits, Typed
<1>2. /\ queue' = [queue EXCEPT ![i].live = FALSE] /\ queue[i].live
      /\ UNCHANGED <<signing, stored, active, network>>
  BY DEF Expire, browserVars
<1>3. \A j \in DOMAIN queue : queue[j] \in Request
  BY <1>1
<1>4. GivenUp(queue', queue) /\ ~queue'[i].live /\ i \in DOMAIN queue'
  <2>1. DOMAIN queue' = DOMAIN queue
    BY <1>2
  <2>2. \A j \in DOMAIN queue : j # i => queue'[j] = queue[j]
    BY <1>2
  <2>3. queue'[i] = [queue[i] EXCEPT !.live = FALSE]
    BY <1>2
  <2>4. [queue[i] EXCEPT !.live = FALSE] \in Request
    BY <1>3 DEF Request
  <2>5. queue' \in Seq(Request)
    BY <1>1, <1>2, <2>4
  <2>6. /\ queue'[i].op = queue[i].op /\ queue'[i].who = queue[i].who
        /\ queue'[i].pair = queue[i].pair /\ ~queue'[i].live
    BY <1>3, <2>3 DEF Request
  <2>7. QED
    BY <2>1, <2>2, <2>5, <2>6 DEF GivenUp
<1>5. Fits(page, task, queue', signing, stored)
  BY <1>1, <1>4, GivenUpFits
<1>6. ASSUME op \in TaskOps PROVE Unawaited(queue', signing) /\ task.stage = StageOf(op)
  <2>1. LiveTask(queue[i])
    BY <1>2, <1>6 DEF LiveTask
  <2>2. \A j \in DOMAIN queue' : LiveTask(queue'[j]) => j \in DOMAIN queue /\ LiveTask(queue[j])
    BY <1>4 DEF GivenUp, LiveTask
  <2>3. \A j \in DOMAIN queue' : LiveTask(queue'[j]) => j = i
    BY <1>1, <2>1, <2>2 DEF Fits, Awaited
  <2>4. NoLiveTask(queue')
    BY <1>4, <2>3 DEF NoLiveTask, LiveTask
  <2>5. \A s \in signing : ~s.live
    BY <1>1, <2>1 DEF Fits, SignaturesFit, NoLiveTask
  <2>6. task.stage = StageOf(op)
    BY <1>1, <2>1 DEF Fits, Awaited
  <2>7. QED
    BY <2>4, <2>5, <2>6 DEF Unawaited
<1>7. CASE op \in {"terms", "keys"} /\ Abort
  <2>1. Unawaited(queue', signing)
    BY <1>6, <1>7 DEF TaskOps
  <2>2. Fits(page', task', queue', signing, stored)
    BY <1>5, <1>7, <2>1, AbortFits
  <2>3. QED
    BY <1>2, <2>2 DEF SessionInv
<1>8. CASE /\ op \in {"accept", "save", "got"} /\ page' = page
           /\ task' = [task EXCEPT !.stage = IF op = "accept" THEN "disclaimer" ELSE "derive"]
  <2> DEFINE stage == IF op = "accept" THEN "disclaimer" ELSE "derive"
  <2>1. /\ Unawaited(queue', signing)
        /\ task.stage = IF op = "accept" THEN "accepting" ELSE "deriving"
    BY <1>6, <1>8 DEF TaskOps, StageOf
  <2>2. task.stage \in Wizard /\ stage \in Wizard
    BY <2>1 DEF Wizard
  <2>3. /\ task' \in TaskType /\ task'.stage = stage /\ task'.who = task.who
        /\ task'.keys = task.keys
    BY <1>1, <1>8, <2>2 DEF TaskType, Onboarded
  <2>4. stage \in {"derive", "deriving"} => task.keys = None
    BY <1>1, <2>1 DEF Fits, TaskFits
  <2> HIDE DEF stage
  <2>5. Fits(page, task', queue', signing, stored)
    BY <1>5, <2>1, <2>2, <2>3, <2>4, StageFits DEF Onboarded
  <2>6. QED
    BY <1>2, <1>8, <2>5 DEF SessionInv
<1>9. CASE op = "notes" /\ page' = [page EXCEPT !.refreshing = FALSE] /\ task' = task
  <2>1. page' \in PageType /\ SameIdentity(page', page) /\ page'.rows = page.rows
    BY <1>1, <1>9 DEF PageType, SameIdentity
  <2>2. Fits(page', task, queue', signing, stored)
    BY <1>5, <2>1, PageChangeFits DEF Fits, PageFits
  <2>3. QED
    BY <1>2, <1>9, <2>2 DEF SessionInv
<1>10. CASE op = "self" /\ page' \in WithRow(page, queue[i].who) /\ task' = task
  <2>1. queue[i].who \in Account
    BY <1>3 DEF Request
  <2>2. page' \in PageType /\ SameIdentity(page', page) /\ RowsOf(page', page, queue[i].who)
    BY <1>1, <1>10, <2>1, WithRowFacts
  <2>3. page.connected /\ Quiet(task) => queue[i].who = page.address
    BY <1>1, <1>2, <1>10 DEF Fits, SelfsFit, SelfsOf, LiveSelf
  <2>4. page.connected /\ Quiet(task) => \A r \in page'.rows : r = OwnRow(page)
    BY <1>1, <2>2, <2>3 DEF Fits, PageFits, RowsOf, OwnRow
  <2>5. Fits(page', task, queue', signing, stored)
    BY <1>5, <2>2, <2>4, PageChangeFits
  <2>6. QED
    BY <1>2, <1>10, <2>5 DEF SessionInv
<1>11. CASE UNCHANGED <<page, task>>
  BY <1>2, <1>5, <1>11 DEF SessionInv
<1>12. QED
  BY <1>7, <1>8, <1>9, <1>10, <1>11 DEF Expire

\* Steps of the page that touch neither the account nor the rows.
LEMMA DecorInv ==
  ASSUME SessionInv, page' \in PageType, SameIdentity(page', page), page'.rows = page.rows,
         UNCHANGED <<task, queue, signing, stored, active, network>>
  PROVE  SessionInv'
<1>1. Fits(page', task, queue, signing, stored)
  BY PageChangeFits DEF SessionInv, Fits, PageFits
<1>2. QED
  BY <1>1 DEF SessionInv

LEMMA ToggleDropdownInv ==
  ASSUME SessionInv, ToggleDropdown
  PROVE  SessionInv'
<1>1. page \in PageType
  BY DEF SessionInv, Fits, Typed
<1>2. page' \in PageType /\ SameIdentity(page', page) /\ page'.rows = page.rows
  <2>1. page' \in PageType
    BY <1>1, ZenonT(60) DEF ToggleDropdown, PageType
  <2>2. SameIdentity(page', page) /\ page'.rows = page.rows
    BY <1>1 DEF ToggleDropdown, PageType, SameIdentity
  <2>3. QED
    BY <2>1, <2>2
<1>3. UNCHANGED <<task, queue, signing, stored, active, network>>
  BY DEF ToggleDropdown, OnPage, browserVars
<1>4. QED
  BY <1>2, <1>3, DecorInv

LEMMA DisconnectInv ==
  ASSUME SessionInv, Disconnect
  PROVE  SessionInv'
<1>1. Fits(page, task, queue, signing, stored) /\ page \in PageType
  BY DEF SessionInv, Fits, Typed
<1>2. Disconnected(page) \in PageType /\ ~Disconnected(page).connected
  BY <1>1, DisconnectedType
<1>3. page' = [Disconnected(page) EXCEPT !.dropdown = FALSE]
      /\ UNCHANGED <<task, queue, signing, stored, active, network>>
  BY DEF Disconnect, OnPage, browserVars
<1>4. page' \in PageType /\ ~page'.connected
  <2> DEFINE p == Disconnected(page)
  <2> HIDE DEF p
  <2>1. p \in PageType /\ ~p.connected /\ page' = [p EXCEPT !.dropdown = FALSE]
    BY <1>2, <1>3 DEF p
  <2>2. QED
    BY <2>1 DEF PageType
<1>5. Fits(page', task, queue, signing, stored)
  BY <1>1, <1>4, DisconnectFits
<1>6. QED
  BY <1>3, <1>5 DEF SessionInv

LEMMA RegisterPublicKeyInv ==
  ASSUME SessionInv, RegisterPublicKey
  PROVE  SessionInv'
<1>1. page \in PageType
  BY DEF SessionInv, Fits, Typed
<1>2. PICK registering \in BOOLEAN :
        page' = [page EXCEPT !.dropdown = FALSE, !.registering = registering]
  BY DEF RegisterPublicKey
<1>3. page' \in PageType /\ SameIdentity(page', page) /\ page'.rows = page.rows
  BY <1>1, <1>2 DEF PageType, SameIdentity
<1>4. QED
  BY <1>3, DecorInv DEF RegisterPublicKey, OnPage, browserVars

LEMMA RenderedInv ==
  ASSUME SessionInv, NEW p \in PageType, SameIdentity(p, page), p.rows = page.rows,
         Render(p, queue) \/ LoadIfNeeded(p, queue, "filter"),
         UNCHANGED <<task, signing, stored, active, network>>
  PROVE  SessionInv'
<1>1. Fits(page, task, queue, signing, stored)
  BY DEF SessionInv
<1>2. CASE Render(p, queue)
  <2>1. /\ page' \in PageType /\ SameIdentity(page', p)
        /\ RowsOf(page', p, p.address) /\ Asked(queue', queue, p)
    BY <1>2, RenderFacts DEF RowsOf, OwnRow
  <2>2. Fits(page', task, queue', signing, stored)
    BY <1>1, <2>1, ShownFits
  <2>3. QED
    BY <2>2 DEF SessionInv
<1>3. CASE LoadIfNeeded(p, queue, "filter")
  <2>1. /\ page' \in PageType /\ SameIdentity(page', p)
        /\ RowsOf(page', p, p.address) /\ Asked(queue', queue, p)
    BY <1>3, LoadFacts
  <2>2. Fits(page', task, queue', signing, stored)
    BY <1>1, <2>1, ShownFits
  <2>3. QED
    BY <2>2 DEF SessionInv
<1>4. QED
  BY <1>2, <1>3

LEMMA RegisteredInv ==
  ASSUME SessionInv, Registered
  PROVE  SessionInv'
<1> DEFINE p == [page EXCEPT !.registering = FALSE, !.cached = FALSE]
<1>1. page \in PageType
  BY DEF SessionInv, Fits, Typed
<1>2. UNCHANGED <<task, signing, stored, active, network>>
  BY DEF Registered, browserVars
<1>3. p \in PageType /\ SameIdentity(p, page) /\ p.rows = page.rows
  BY <1>1 DEF PageType, SameIdentity
<1>4. CASE Render(p, queue)
  BY <1>2, <1>3, <1>4, RenderedInv
<1>5. CASE page' = [page EXCEPT !.registering = FALSE] /\ queue' = queue
  <2>1. page' \in PageType /\ SameIdentity(page', page) /\ page'.rows = page.rows
    BY <1>1, <1>5 DEF PageType, SameIdentity
  <2>2. QED
    BY <1>2, <1>5, <2>1, DecorInv
<1>6. QED
  BY <1>4, <1>5 DEF Registered

LEMMA UseBookInv ==
  ASSUME SessionInv, UseBook
  PROVE  SessionInv'
<1> DEFINE p == [page EXCEPT !.cached = FALSE]
<1>1. page \in PageType /\ SameIdentity(page, page)
  BY DEF SessionInv, Fits, Typed, SameIdentity
<1>2. UNCHANGED <<task, signing, stored, active, network>>
  BY DEF UseBook, OnPage, browserVars
<1>3. p \in PageType /\ SameIdentity(p, page) /\ p.rows = page.rows
  BY <1>1 DEF PageType, SameIdentity
<1>4. CASE Render(page, queue) \/ LoadIfNeeded(page, queue, "filter")
  BY <1>1, <1>2, <1>4, RenderedInv
<1>5. CASE Render(p, queue)
  BY <1>2, <1>3, <1>5, RenderedInv
<1>6. QED
  BY <1>4, <1>5 DEF UseBook

LEMMA NotesTickInv ==
  ASSUME SessionInv, NotesTick
  PROVE  SessionInv'
<1> DEFINE n == RefreshNotes(page, queue)
<1>1. Fits(page, task, queue, signing, stored) /\ page \in PageType
  BY DEF SessionInv, Fits, Typed
<1>2. page' = n.page /\ queue' = n.queue /\ UNCHANGED <<task, signing, stored, active, network>>
  BY DEF NotesTick, browserVars
<1>3. /\ n.page \in PageType /\ SameIdentity(n.page, page) /\ n.page.rows = page.rows
      /\ Asked(n.queue, queue, page)
  BY <1>1, RefreshFacts
<1> HIDE DEF n
<1>4. Fits(page, task, queue', signing, stored)
  BY <1>1, <1>2, <1>3, AskedFits
<1>5. Fits(page', task, queue', signing, stored)
  BY <1>2, <1>3, <1>4, PageChangeFits DEF Fits, PageFits
<1>6. QED
  BY <1>2, <1>5 DEF SessionInv

LEMMA PaymentInv ==
  ASSUME SessionInv, StartPayment \/ EndPayment
  PROVE  SessionInv'
<1>1. page \in PageType
  BY DEF SessionInv, Fits, Typed
<1>2. CASE StartPayment
  <2>1. page' \in PageType
    BY <1>1, <1>2 DEF StartPayment, PageType
  <2>2. SameIdentity(page', page) /\ page'.rows = page.rows
    BY <1>1, <1>2, ZenonT(60) DEF StartPayment, PageType, SameIdentity
  <2>3. UNCHANGED <<task, queue, signing, stored, active, network>>
    BY <1>2 DEF StartPayment, OnPage, browserVars
  <2>4. QED
    BY <2>1, <2>2, <2>3, DecorInv
<1>3. CASE EndPayment
  <2>1. page' \in PageType
    BY <1>1, <1>3, ZenonT(60) DEF EndPayment, PageType
  <2>2. SameIdentity(page', page) /\ page'.rows = page.rows
    BY <1>1, <1>3 DEF EndPayment, PageType, SameIdentity
  <2>3. UNCHANGED <<task, queue, signing, stored, active, network>>
    BY <1>3 DEF EndPayment, OnPage, browserVars
  <2>4. QED
    BY <2>1, <2>2, <2>3, DecorInv
<1>4. QED
  BY <1>2, <1>3

\* A page that starts anew: nothing is asked for or signed any more.
LEMMA BlankFits ==
  ASSUME NEW st \in [Holders -> Keys], NEW t \in {NoTask, Connecting}
  PROVE  Fits(Blank, t, <<>>, {}, st)
<1>1. Blank \in PageType /\ ~Blank.connected
  BY DEF Blank, PageType, Account, Keys
<1>2. /\ t \in TaskType /\ t.stage \in {"none", "access"} /\ (t.stage = "none" <=> t = NoTask)
      /\ t.stage = "access" => t.kind = "connect"
  BY NoTaskType, ConnectingType
<1>3. Typed(Blank, t, <<>>, {}, st)
  BY <1>1, <1>2 DEF Typed
<1>4. TaskFits(t, Blank, st)
  BY <1>1, <1>2 DEF TaskFits, Onboarded, Wizard
<1>5. Awaited(<<>>, t)
  BY <1>2 DEF Awaited, Wizard
<1>6. QED
  BY <1>1, <1>3, <1>4, <1>5 DEF Fits, RequestsFit, SelfsFit, SignaturesFit, PageFits

LEMMA ReloadInv ==
  ASSUME SessionInv, Reload
  PROVE  SessionInv'
<1>1. /\ page' = Blank /\ task' = Connecting /\ queue' = <<>> /\ signing' = {}
      /\ UNCHANGED <<stored, active, network>>
  BY DEF Reload, browserVars
<1>2. stored \in [Holders -> Keys]
  BY DEF SessionInv, Fits, Typed
<1>3. Fits(page', task', queue', signing', stored)
  BY <1>1, <1>2, BlankFits
<1>4. QED
  BY <1>1, <1>3 DEF SessionInv

LEMMA SessionStep ==
  ASSUME SessionInv, PageNext
  PROVE  SessionInv'
<1>1. CASE Onboarding
  <2>1. CASE Connect \/ AccessGranted \/ NetworkOfConnect \/ WasmLoaded \/ CallFails
    BY <2>1, ConnectInv, AccessGrantedInv, NetworkOfConnectInv, WasmLoadedInv, CallFailsInv
  <2>2. CASE WatcherReports \/ NetworkOfChange
    BY <2>2, WatcherReportsInv, NetworkOfChangeInv
  <2>3. CASE TermsAnswered \/ KeysAnswered \/ Accept \/ AcceptAnswered \/ StorageStepDone
    BY <2>3, TermsAnsweredInv, KeysAnsweredInv, AcceptInv, AcceptAnsweredInv, StorageStepDoneInv
  <2>4. ASSUME NEW s \in signing, Sign(s) \/ RefuseToSign(s) PROVE SessionInv'
    BY <2>4, SignInv, RefuseToSignInv
  <2>5. CASE Derive \/ SaveAnswered \/ DerivedAnswered \/ Close
    BY <2>5, DeriveInv, SaveAnsweredInv, DerivedAnsweredInv, CloseInv
  <2>6. QED
    BY <1>1, <2>1, <2>2, <2>3, <2>4, <2>5 DEF Onboarding
<1>2. CASE NotesAnswered \/ ListAnswered \/ SelfAnswered \/ ServedInVain
  BY <1>2, NotesAnsweredInv, ListAnsweredInv, SelfAnsweredInv, ServedInVainInv
<1>3. ASSUME NEW i \in DOMAIN queue, Expire(i) PROVE SessionInv'
  BY <1>3, ExpireInv
<1>4. CASE ToggleDropdown \/ Disconnect \/ RegisterPublicKey \/ Registered
  BY <1>4, ToggleDropdownInv, DisconnectInv, RegisterPublicKeyInv, RegisteredInv
<1>5. CASE UseBook \/ NotesTick \/ StartPayment \/ EndPayment \/ Reload
  BY <1>5, UseBookInv, NotesTickInv, PaymentInv, ReloadInv
<1>6. QED
  BY <1>1, <1>2, <1>3, <1>4, <1>5 DEF PageNext

-----------------------------------------------------------------------------
(* Both pages and Freighter.                                               *)

LEMMA FreighterInv ==
  ASSUME SessionInv, FreighterNext
  PROVE  SessionInv'
<1>1. UNCHANGED <<page, task, queue, signing, stored>>
  BY DEF FreighterNext, sessionVars, SwitchAccount, SwitchNetwork
<1>2. active' \in Holders /\ network' \in Networks
  BY DEF FreighterNext, SwitchAccount, SwitchNetwork, SessionInv
<1>3. QED
  BY <1>1, <1>2 DEF SessionInv

\* What the admin page does to the database, an empty main page does not feel.
LEMMA AdminDatabase ==
  ASSUME AdminInv, BrowserType, AdminNext
  PROVE  BrowserType'
<1>1. \A d \in deriving : d.pair \in Keys
  BY DEF AdminInv, AdminType, DerivationType
<1>2. ASSUME UNCHANGED browserVars PROVE BrowserType'
  BY <1>2 DEF browserVars, BrowserType
<1>3. ASSUME NEW d \in deriving, SaveUserKeys(d.who, d.pair) PROVE BrowserType'
  BY <1>1, <1>3 DEF SaveUserKeys, BrowserType
<1>4. \A d \in deriving :
        LookUp(d) \/ SignFirst(d) \/ SignSecond(d) \/ SaveDerived(d) \/ DerivationFails(d)
        => UNCHANGED browserVars \/ SaveUserKeys(d.who, d.pair)
  BY DEF LookUp, SignFirst, SignSecond, SaveDerived, DerivationFails
<1>5. CASE \E d \in deriving :
             LookUp(d) \/ SignFirst(d) \/ SignSecond(d) \/ SaveDerived(d) \/ DerivationFails(d)
  BY <1>2, <1>3, <1>4, <1>5
<1>6. CASE AdminConnect \/ DeriveKeys \/ LeafOfPrivateKey \/ ToggleAdminInsertOnly \/ RefreshState
  BY <1>2, <1>6
     DEF AdminConnect, DeriveKeys, LeafOfPrivateKey, ToggleAdminInsertOnly, WithClient, RefreshState
<1>7. CASE \/ \E a \in Holders : AdminConnected(a) \/ AdminConnectFails(a)
           \/ \E c \in Contracts : InsertLeaf(c)
           \/ \E call \in calls : ClientCreated(call) \/ SignAndSend(call) \/ CallRefused(call)
  BY <1>2, <1>7
     DEF AdminConnected, AdminConnectFails, InsertLeaf, WithClient, ClientCreated, SignAndSend,
         CallRefused
<1>8. QED
  BY <1>5, <1>6, <1>7 DEF AdminNext

LEMMA AdminSession ==
  ASSUME AdminInv, SessionInv, MainClosed, open = "admin", AdminNext, UNCHANGED sessionVars
  PROVE  SessionInv' /\ MainClosed'
<1>1. /\ page \in PageType /\ task \in TaskType /\ stored \in [Holders -> Keys]
      /\ BrowserType
  BY DEF SessionInv, Fits, Typed, BrowserType
<1>2. /\ stored' \in [Holders -> Keys] /\ active' \in Holders /\ network' \in Networks
  BY <1>1, AdminDatabase DEF BrowserType
<1>3. /\ ~page.connected /\ task.stage \in {"none", "access"} /\ queue = <<>> /\ signing = {}
      /\ UNCHANGED <<page, task, queue, signing>>
  BY DEF MainClosed, sessionVars
<1>4. TaskFits(task, page, stored')
  BY <1>3 DEF SessionInv, Fits, TaskFits, Onboarded, Wizard
<1>5. Fits(page, task, queue, signing, stored')
  BY <1>1, <1>2, <1>3, <1>4
     DEF SessionInv, Fits, Typed, RequestsFit, SignaturesFit, PageFits
<1>6. QED
  BY <1>2, <1>3, <1>5 DEF SessionInv, MainClosed

LEMMA PagesInit_Inv ==
  ASSUME PagesInit
  PROVE  PagesInv
<1>1. /\ active \in Holders /\ network \in Networks /\ stored \in [Holders -> Keys]
  BY DEF PagesInit, BrowserInit, Networks, Keys
<1>2. /\ page = Blank /\ task = Connecting /\ queue = <<>> /\ signing = {} /\ open \in Pages
  BY DEF PagesInit, SessionInit
<1>3. SessionInv
  BY <1>1, <1>2, BlankFits DEF SessionInv
<1>4. MainClosed
  BY <1>2, ConnectingType DEF MainClosed, Blank
<1>5. adm \in AdmType /\ adm.client = [c \in Contracts |-> None]
  BY DEF PagesInit, AdminInit, AdminBlank, AdmType, Account
<1>6. AdminInv
  BY <1>5 DEF PagesInit, AdminInit, AdminInv, AdminType, ClientsFit, PageSpeaksForOneAccount
<1>7. QED
  BY <1>2, <1>3, <1>4, <1>6 DEF PagesInv

LEMMA VisitInv ==
  ASSUME PagesInv, NEW p \in Pages, Visit(p)
  PROVE  PagesInv'
<1>1. /\ page' = Blank /\ signing' = {} /\ queue' = <<>> /\ deriving' = {} /\ calls' = {}
      /\ UNCHANGED <<stored, active, network, adminClicks>> /\ open' = p
      /\ task' \in {NoTask, Connecting}
  BY DEF Visit, Leave, browserVars
<1>2. stored \in [Holders -> Keys] /\ adminClicks \in Nat
  BY DEF PagesInv, SessionInv, Fits, Typed, AdminInv, AdminType
<1>3. SessionInv'
  BY <1>1, <1>2, BlankFits DEF PagesInv, SessionInv
<1>4. MainClosed'
  BY <1>1, NoTaskType, ConnectingType DEF MainClosed, Blank
<1>5. adm' \in AdmType /\ adm'.client = [c \in Contracts |-> None]
  BY DEF Visit, AdminBlank, AdmType, Account
<1>6. AdminInv'
  BY <1>1, <1>2, <1>5 DEF AdminInv, AdminType, ClientsFit, PageSpeaksForOneAccount
<1>7. QED
  BY <1>1, <1>3, <1>4, <1>6 DEF PagesInv

LEMMA PagesStep ==
  ASSUME PagesInv,
         [PagesNext]_<<browserVars, sessionVars, adminVars, open>>
  PROVE  PagesInv'
<1> USE DEF PagesInv
<1>1. ASSUME UNCHANGED adminVars PROVE AdminInv'
  BY <1>1 DEF adminVars, AdminInv, AdminType, ClientsFit, PageSpeaksForOneAccount
<1>2. CASE AtMain
  <2>1. SessionInv' /\ AdminInv' /\ open' = "main"
    BY <1>1, <1>2, SessionStep DEF AtMain
  <2>2. QED
    BY <2>1 DEF MainClosed, Pages
<1>3. CASE AtAdmin
  <2>1. BrowserType
    BY DEF SessionInv, Fits, Typed, BrowserType
  <2>2. AdminInv'
    BY <1>3, <2>1, AdminStep DEF AtAdmin
  <2>3. SessionInv' /\ MainClosed' /\ open' = open
    BY <1>3, AdminSession DEF AtAdmin
  <2>4. QED
    BY <2>2, <2>3
<1>4. CASE AtFreighter
  <2>1. AdminInv' /\ SessionInv' /\ open' = open
    BY <1>1, <1>4, FreighterInv DEF AtFreighter
  <2>2. UNCHANGED <<page, task, queue, signing>>
    BY <1>4 DEF AtFreighter, FreighterNext, sessionVars
  <2>3. QED
    BY <2>1, <2>2 DEF MainClosed
<1>5. ASSUME NEW p \in Pages, Visit(p) PROVE PagesInv'
  BY <1>5, VisitInv
<1>6. CASE UNCHANGED <<browserVars, sessionVars, adminVars, open>>
  <2>1. UNCHANGED <<page, task, queue, signing, stored, active, network>> /\ open' = open
    BY <1>6 DEF browserVars, sessionVars
  <2>2. SessionInv' /\ MainClosed'
    BY <2>1 DEF SessionInv, MainClosed
  <2>3. QED
    BY <1>1, <1>6, <2>1, <2>2
<1>7. QED
  BY <1>2, <1>3, <1>4, <1>5, <1>6 DEF PagesNext

LEMMA PagesInvariant == PagesSpec => []PagesInv
<1>1. PagesInit => PagesInv
  BY PagesInit_Inv
<1>2. PagesInv /\ [PagesNext]_<<browserVars, sessionVars, adminVars, open>> => PagesInv'
  BY PagesStep
<1>3. QED
  BY <1>1, <1>2, PTL DEF PagesSpec

(***************************************************************************)
(* Between two onboardings the page works with the stored keys of the      *)
(* connected account, whatever was asked for, signed, cancelled or given   *)
(* up by or for another account before, on this page or the admin page     *)
(* (app/js/ui/navigation.js).                                              *)
(***************************************************************************)
THEOREM PageIsOfOneAccount == PagesSpec => []SettledPageFits
<1>1. PagesInv => SettledPageFits
  BY NoTaskType DEF PagesInv, SessionInv, Fits, PageFits, Quiet, SettledPageFits, Settled
<1>2. QED
  BY <1>1, PagesInvariant, PTL

(***************************************************************************)
(* The address book's own rows show the connected account with its own     *)
(* keys, whatever was rendered for whom (app/js/ui/address-book.js).       *)
(***************************************************************************)
THEOREM OwnRowsAreOwn == PagesSpec => []BookShowsOwnKeys
<1>1. PagesInv => BookShowsOwnKeys
  BY NoTaskType
     DEF PagesInv, SessionInv, Fits, PageFits, Quiet, OwnRow, BookShowsOwnKeys, Settled
<1>2. QED
  BY <1>1, PagesInvariant, PTL

(***************************************************************************)
(* Every call of the admin page is made for the account that is to sign    *)
(* it, but for those the end of a connect() crossed (app/js/admin.js).     *)
(***************************************************************************)
THEOREM CallsAreOfTheConnected == PagesSpec => []PageSpeaksForOneAccount
<1>1. PagesInv => PageSpeaksForOneAccount
  BY DEF PagesInv, AdminInv
<1>2. QED
  BY <1>1, PagesInvariant, PTL

-----------------------------------------------------------------------------
(* The inductive invariant.                                                *)

SendType ==
  [at : {"none", "proving", "sending", "failed", "saved", "cut"}, row : Nat, mounted : BOOLEAN]

EmployerType ==
  /\ sends \in [Sends -> SendType]
  /\ saved \in Seq(Sends) /\ Len(saved) <= Keep
  /\ deposits \subseteq Sends \X Nat

In(s, batches) == \E i \in DOMAIN batches : batches[i] = s

\* The pool receives a send's rows while it runs; it ends saved or cut short,
\* and what was saved is there until Keep others are.
SendsAreKept ==
  /\ \A secret \in deposits : sends[secret[1]].at \in {"sending", "saved", "cut"}
  /\ \A s \in Sends : sends[s].at = "saved" => In(s, saved) \/ Len(saved) = Keep

\* What is on display is of the secret typed last, the hashes once they are in.
DisplayFits ==
  /\ effect \in Nat
  /\ matched \in {NoSecret, typed}
  /\ \A hash \in hashing :
       hash.run \in Nat /\ hash.run <= effect /\ (hash.run = effect => hash.secret = typed)
  /\ matched # NoSecret /\ nullifier # NoSecret /\ ~HashesLate => nullifier = typed

ActionType == [at : {"none", "pending", "refused", "answered", "cut"}, mounted : BOOLEAN]

RegulatorType ==
  /\ actions \in [Actions -> ActionType]
  /\ timeline \in Seq(Actions) /\ acted \subseteq Actions

EmployerInv == EmployerType /\ SendsAreKept
EmployeeInv == DisplayFits /\ ClaimsAreOfOneEmployee
RegulatorInv == RegulatorType /\ TimelineTellsActions

PayrollInv == EmployerInv /\ EmployeeInv /\ RegulatorInv

LEMMA PayrollStarts ==
  ASSUME PayrollInit
  PROVE  PayrollInv
<1>1. EmployerInv
  <2>1. sends \in [Sends -> SendType]
    BY DEF PayrollInit, SendType
  <2>2. saved \in Seq(Sends) /\ Len(saved) = 0
    BY DEF PayrollInit
  <2>3. deposits = {} /\ \A s \in Sends : sends[s].at = "none"
    BY DEF PayrollInit
  <2>4. \A s \in Sends : sends[s].at # "saved"
    BY <2>3
  <2>5. QED
    BY <2>1, <2>2, <2>3, <2>4, PayrollAssumption
       DEF EmployerInv, EmployerType, SendsAreKept
<1>2. EmployeeInv
  BY DEF PayrollInit, EmployeeInv, DisplayFits, ClaimsAreOfOneEmployee
<1>3. RegulatorInv
  <2>1. timeline \in Seq(Actions) /\ actions \in [Actions -> ActionType] /\ acted = {}
    BY DEF PayrollInit, ActionType
  <2>2. QED
    BY <2>1 DEF RegulatorInv, RegulatorType, TimelineTellsActions
<1>4. QED
  BY <1>1, <1>2, <1>3 DEF PayrollInv

-----------------------------------------------------------------------------
(* The employer.                                                           *)

\* One send moves on; it ends nowhere else than the code has it.
LEMMA SendMoves ==
  ASSUME EmployerInv, NEW s \in Sends, sends[s].at # "saved",
         NEW new \in SendType, new.at # "saved", sends' = [sends EXCEPT ![s] = new],
         saved' = saved,
         \/ /\ new.at \in {"sending", "cut"}
            /\ deposits' \subseteq Sends \X Nat
            /\ \A secret \in deposits' : secret \in deposits \/ secret[1] = s
         \/ deposits' = deposits /\ sends[s].at \notin {"sending", "cut"}
  PROVE  EmployerInv'
<1>1. sends \in [Sends -> SendType] /\ saved \in Seq(Sends) /\ Len(saved) <= Keep
  BY DEF EmployerInv, EmployerType
<1>2. /\ sends' \in [Sends -> SendType] /\ sends'[s] = new
      /\ \A r \in Sends : r # s => sends'[r] = sends[r]
  BY <1>1
<1>3. \A secret \in Sends \X Nat : secret[1] \in Sends
  OBVIOUS
<1>4. deposits' \subseteq Sends \X Nat
  BY DEF EmployerInv, EmployerType
<1>5. \A secret \in deposits' : sends'[secret[1]].at \in {"sending", "saved", "cut"}
  <2> SUFFICES ASSUME NEW secret \in deposits'
               PROVE  sends'[secret[1]].at \in {"sending", "saved", "cut"}
    OBVIOUS
  <2>1. secret[1] \in Sends
    BY <1>3, <1>4
  <2>2. CASE secret[1] = s
    <3>1. secret \in deposits => sends[s].at \in {"sending", "cut"}
      BY <2>2 DEF EmployerInv, SendsAreKept
    <3>2. QED
      BY <1>2, <2>2, <3>1
  <2>3. CASE secret[1] # s
    <3>1. secret \in deposits
      BY <2>3
    <3>2. QED
      BY <1>2, <2>1, <2>3, <3>1 DEF EmployerInv, SendsAreKept
  <2>4. QED
    BY <2>2, <2>3
<1>6. \A r \in Sends : sends'[r].at = "saved" => In(r, saved') \/ Len(saved') = Keep
  BY <1>2 DEF EmployerInv, SendsAreKept, In
<1>7. QED
  BY <1>1, <1>2, <1>4, <1>5, <1>6 DEF EmployerInv, EmployerType, SendsAreKept

\* The batch saved last is the first, and another is dropped only when Keep are there.
LEMMA SavedFirst ==
  ASSUME EmployerType, NEW s \in Sends,
         saved' = SubSeq(<<s>> \o saved, 1, IF Len(saved) < Keep THEN Len(saved) + 1 ELSE Keep)
  PROVE  /\ saved' \in Seq(Sends) /\ Len(saved') <= Keep /\ In(s, saved')
         /\ \A r \in Sends : In(r, saved) => In(r, saved') \/ Len(saved') = Keep
         /\ Len(saved) = Keep => Len(saved') = Keep
<1> DEFINE n == IF Len(saved) < Keep THEN Len(saved) + 1 ELSE Keep
           all == <<s>> \o saved
<1>1. saved \in Seq(Sends) /\ Len(saved) \in Nat /\ Len(saved) <= Keep /\ Keep \in Nat \ {0}
  BY PayrollAssumption DEF EmployerType
<1>2. /\ all \in Seq(Sends) /\ Len(all) = Len(saved) + 1 /\ all[1] = s
      /\ \A i \in 1 .. Len(saved) : all[i + 1] = saved[i]
  BY <1>1
<1>3. /\ n \in Nat /\ 1 <= n /\ n <= Len(all) /\ n <= Keep /\ (n = Len(all) \/ n = Keep)
      /\ Len(saved) = Keep => n = Keep
  BY <1>1, <1>2
<1> HIDE DEF n, all
<1>4. /\ saved' \in Seq(Sends) /\ Len(saved') = n
      /\ \A i \in 1 .. n : saved'[i] = all[i]
  <2>1. saved' = SubSeq(all, 1, n)
    BY DEF all, n
  <2>2. \A i \in 1 .. n : all[i] \in Sends
    <3>1. \A i \in 1 .. Len(all) : all[i] \in Sends
      BY <1>2
    <3>2. QED
      BY <1>2, <1>3, <3>1
  <2>3. /\ SubSeq(all, 1, n) \in Seq(Sends) /\ Len(SubSeq(all, 1, n)) = n - 1 + 1
        /\ \A i \in 1 .. n - 1 + 1 : SubSeq(all, 1, n)[i] = all[1 + i - 1]
    BY <1>3, <2>2, SubSeqProperties
  <2>4. n - 1 + 1 = n /\ \A i \in 1 .. n : 1 + i - 1 = i
    BY <1>3
  <2>5. QED
    BY <2>1, <2>3, <2>4
<1>5. In(s, saved')
  <2>1. 1 \in 1 .. n /\ 1 \in DOMAIN saved'
    BY <1>3, <1>4
  <2>2. QED
    BY <1>2, <1>4, <2>1 DEF In
<1>6. ASSUME NEW r \in Sends, In(r, saved), n # Keep PROVE In(r, saved')
  <2>1. PICK i \in 1 .. Len(saved) : saved[i] = r
    BY <1>1, <1>6 DEF In
  <2>2. i + 1 \in 1 .. n
    BY <1>1, <1>2, <1>3, <1>6
  <2>3. saved'[i + 1] = r
    BY <1>2, <1>4, <2>1, <2>2
  <2>4. i + 1 \in DOMAIN saved'
    BY <1>4, <2>2
  <2>5. QED
    BY <2>3, <2>4 DEF In
<1>7. QED
  BY <1>3, <1>4, <1>5, <1>6

LEMMA EmployerStep ==
  ASSUME EmployerInv, NEW s \in Sends,
         HandleSend(s) \/ ProvePayroll(s) \/ SubmitRow(s) \/ SavePayrollBatch(s)
  PROVE  EmployerInv'
<1>1. /\ sends \in [Sends -> SendType] /\ sends[s] \in SendType
      /\ deposits \subseteq Sends \X Nat
  BY DEF EmployerInv, EmployerType
<1>2. CASE HandleSend(s)
  <2> DEFINE new == [at |-> "proving", row |-> 1, mounted |-> TRUE]
  <2>1. new \in SendType /\ new.at = "proving"
    BY DEF SendType
  <2>2. sends[s].at = "none" /\ sends' = [sends EXCEPT ![s] = new]
        /\ UNCHANGED <<saved, deposits>>
    BY <1>2 DEF HandleSend
  <2> HIDE DEF new
  <2>3. QED
    BY <2>1, <2>2, SendMoves
<1>3. CASE ProvePayroll(s)
  <2>1. PICK end \in {"sending", "failed"} : sends' = [sends EXCEPT ![s].at = end]
    BY <1>3 DEF ProvePayroll
  <2> DEFINE new == [sends[s] EXCEPT !.at = end]
  <2>2. new \in SendType /\ new.at = end
    BY <1>1 DEF SendType
  <2>3. sends[s].at = "proving" /\ sends' = [sends EXCEPT ![s] = new]
        /\ UNCHANGED <<saved, deposits>>
    BY <1>3, <2>1 DEF ProvePayroll
  <2> HIDE DEF new
  <2>4. QED
    BY <2>2, <2>3, SendMoves
<1>4. CASE SubmitRow(s)
  <2>1. PICK received \in BOOLEAN, error \in BOOLEAN :
          /\ deposits' = deposits \union (IF received THEN {<<s, sends[s].row>>} ELSE {})
          /\ sends' = [sends EXCEPT ![s].row = @ + 1,
                                    ![s].at = IF error THEN OnError ELSE @]
    BY <1>4 DEF SubmitRow
  <2>2. sends[s].at = "sending" /\ sends[s].row <= Rows /\ saved' = saved
    BY <1>4 DEF SubmitRow
  <2> DEFINE new == [sends[s] EXCEPT !.row = @ + 1]
  <2>3. new \in SendType /\ new.at = "sending"
    BY <1>1, <2>2 DEF SendType
  <2>4. sends' = [sends EXCEPT ![s] = new]
    <3>1. (IF error THEN OnError ELSE sends[s].at) = "sending"
      BY <2>2 DEF OnError
    <3>2. QED
      BY <1>1, <2>1, <2>2, <3>1 DEF SendType, OnError
  <2>5. <<s, sends[s].row>> \in Sends \X Nat /\ <<s, sends[s].row>>[1] = s
    BY <1>1 DEF SendType
  <2>6. /\ deposits' \subseteq Sends \X Nat
        /\ \A secret \in deposits' : secret \in deposits \/ secret[1] = s
    BY <1>1, <2>1, <2>5
  <2> HIDE DEF new
  <2>7. QED
    BY <2>2, <2>3, <2>4, <2>6, SendMoves
<1>5. CASE SavePayrollBatch(s)
  <2>1. /\ sends[s].at = "sending" /\ sends' = [sends EXCEPT ![s].at = "saved"]
        /\ saved' = SubSeq(<<s>> \o saved, 1, IF Len(saved) < Keep THEN Len(saved) + 1 ELSE Keep)
        /\ deposits' = deposits
    BY <1>5 DEF SavePayrollBatch
  <2>2. /\ saved' \in Seq(Sends) /\ Len(saved') <= Keep /\ In(s, saved')
        /\ \A r \in Sends : In(r, saved) => In(r, saved') \/ Len(saved') = Keep
        /\ Len(saved) = Keep => Len(saved') = Keep
    BY <2>1, SavedFirst DEF EmployerInv
  <2>3. /\ sends' \in [Sends -> SendType] /\ sends'[s].at = "saved"
        /\ \A r \in Sends : r # s => sends'[r] = sends[r]
    BY <1>1, <2>1 DEF SendType
  <2>4. EmployerType'
    BY <1>1, <2>1, <2>2, <2>3 DEF EmployerType
  <2>5. \A secret \in deposits : sends'[secret[1]].at \in {"sending", "saved", "cut"}
    <3>1. \A secret \in deposits : secret[1] \in Sends
      BY <1>1
    <3>2. QED
      BY <2>3, <3>1 DEF EmployerInv, SendsAreKept
  <2>6. \A r \in Sends : sends'[r].at = "saved" => In(r, saved') \/ Len(saved') = Keep
    BY <2>2, <2>3 DEF EmployerInv, SendsAreKept
  <2>7. QED
    BY <2>1, <2>4, <2>5, <2>6 DEF EmployerInv, SendsAreKept
<1>6. QED
  BY <1>2, <1>3, <1>4, <1>5

\* Another view, or the page closed: a send goes on, or is cut short.
LEMMA SendsGoOn ==
  ASSUME EmployerInv, UNCHANGED <<saved, deposits>>,
         sends' \in [Sends -> SendType],
         \A s \in Sends :
           \/ sends'[s].at = sends[s].at
           \/ sends'[s].at = "cut" /\ sends[s].at # "saved"
  PROVE  EmployerInv'
<1>1. saved' = saved /\ deposits' = deposits
  OBVIOUS
<1>2. EmployerType'
  BY <1>1 DEF EmployerInv, EmployerType
<1>3. \A secret \in deposits : sends'[secret[1]].at \in {"sending", "saved", "cut"}
  <2>1. \A secret \in deposits : secret[1] \in Sends
    BY DEF EmployerInv, EmployerType
  <2>2. QED
    BY <2>1 DEF EmployerInv, SendsAreKept
<1>4. \A s \in Sends : sends'[s].at = "saved" => In(s, saved) \/ Len(saved) = Keep
  BY DEF EmployerInv, SendsAreKept
<1>5. QED
  BY <1>1, <1>2, <1>3, <1>4 DEF EmployerInv, SendsAreKept

-----------------------------------------------------------------------------
(* The employee.                                                           *)

\* A run of the effect leaves nothing of another secret to be claimed with.
LEMMA EffectFits ==
  ASSUME DisplayFits, RunEffect(typed')
  PROVE  DisplayFits'
<1>1. effect \in Nat /\ effect' = effect + 1 /\ effect' \in Nat
  BY DEF DisplayFits, RunEffect
<1>2. CASE Found(typed')
  <2> DEFINE new == [run |-> effect', secret |-> typed']
  <2>1. matched' = typed' /\ hashing' = hashing \union {new}
    BY <1>2 DEF RunEffect
  <2>2. new.run = effect' /\ new.secret = typed'
    OBVIOUS
  <2>3. \A hash \in hashing : hash.run \in Nat /\ hash.run <= effect
    BY DEF DisplayFits
  <2>4. \A hash \in hashing' :
          hash.run \in Nat /\ hash.run <= effect' /\ (hash.run = effect' => hash.secret = typed')
    BY <1>1, <2>1, <2>2, <2>3
  <2>5. HashesLate'
    BY <2>1, <2>2 DEF HashesLate
  <2>6. QED
    BY <1>1, <2>1, <2>4, <2>5 DEF DisplayFits
<1>3. CASE ~Found(typed')
  <2>1. matched' = NoSecret /\ hashing' = hashing
    BY <1>3 DEF RunEffect
  <2>2. \A hash \in hashing : hash.run \in Nat /\ hash.run <= effect
    BY DEF DisplayFits
  <2>3. \A hash \in hashing' :
          hash.run \in Nat /\ hash.run <= effect' /\ (hash.run = effect' => hash.secret = typed')
    BY <1>1, <2>1, <2>2
  <2>4. QED
    BY <1>1, <2>1, <2>3 DEF DisplayFits
<1>4. QED
  BY <1>2, <1>3

\* The hashes that come in are of the secret typed last, or are cancelled.
LEMMA HashFits ==
  ASSUME DisplayFits, NEW hash, HashDone(hash)
  PROVE  DisplayFits'
<1>1. /\ hash \in hashing /\ hashing' = hashing \ {hash}
      /\ typed' = typed /\ matched' = matched /\ effect' = effect
  BY DEF HashDone
<1>2. CASE hash.run # effect
  <2>1. nullifier' = nullifier /\ hashFailed' = hashFailed
    BY <1>2 DEF HashDone, Cancelled
  <2>2. HashesLate => HashesLate'
    BY <1>1, <1>2, <2>1 DEF HashesLate
  <2>3. QED
    BY <1>1, <2>1, <2>2 DEF DisplayFits
<1>3. CASE hash.run = effect
  <2>1. hash.secret = typed
    BY <1>1, <1>3 DEF DisplayFits
  <2>2. nullifier' = hash.secret \/ hashFailed' = TRUE
    BY <1>3 DEF HashDone, Cancelled
  <2>3. hashFailed' = TRUE => HashesLate'
    BY DEF HashesLate
  <2>4. QED
    BY <1>1, <2>1, <2>2, <2>3 DEF DisplayFits
<1>4. QED
  BY <1>2, <1>3

\* A claim is made with what is on display.
LEMMA ClaimFits ==
  ASSUME EmployeeInv, HandleWithdraw
  PROVE  EmployeeInv'
<1> DEFINE new ==
      [secret |-> typed, employee |-> matched, nullifier |-> nullifier, late |-> HashesLate]
<1>1. matched # NoSecret /\ nullifier # NoSecret /\ claims' = claims \union {new} /\ UNCHANGED display
  BY DEF HandleWithdraw
<1>2. matched = typed /\ (~HashesLate => nullifier = typed)
  BY <1>1 DEF EmployeeInv, DisplayFits
<1>3. new.employee = new.secret /\ (new.late \/ new.nullifier = new.secret)
  BY <1>2
<1>4. DisplayFits'
  BY <1>1 DEF EmployeeInv, DisplayFits, HashesLate, display
<1> HIDE DEF new
<1>5. ClaimsAreOfOneEmployee'
  BY <1>1, <1>3 DEF EmployeeInv, ClaimsAreOfOneEmployee
<1>6. QED
  BY <1>4, <1>5 DEF EmployeeInv

\* What leaves the display and the claims alone.
LEMMA DisplayKept ==
  ASSUME EmployeeInv, UNCHANGED <<display, claims>>
  PROVE  EmployeeInv'
BY DEF EmployeeInv, DisplayFits, HashesLate, ClaimsAreOfOneEmployee, display

LEMMA EmployeeStep ==
  ASSUME EmployeeInv,
         \/ \E secret \in Secrets \union {NoSecret} : Type(secret)
         \/ \E hash \in hashing : HashDone(hash)
         \/ HandleWithdraw
         \/ WithdrawEnds
         \/ Unmount
  PROVE  EmployeeInv'
<1>1. ASSUME DisplayFits', claims' = claims PROVE EmployeeInv'
  BY <1>1 DEF EmployeeInv, ClaimsAreOfOneEmployee
<1>2. ASSUME NEW secret \in Secrets \union {NoSecret}, Type(secret) PROVE EmployeeInv'
  <2>1. typed' = secret /\ RunEffect(typed') /\ claims' = claims
    BY <1>2 DEF Type
  <2>2. QED
    BY <1>1, <2>1, EffectFits DEF EmployeeInv
<1>3. ASSUME NEW hash \in hashing, HashDone(hash) PROVE EmployeeInv'
  <2>1. claims' = claims
    BY <1>3 DEF HashDone, claiming
  <2>2. QED
    BY <1>1, <1>3, <2>1, HashFits DEF EmployeeInv
<1>4. CASE WithdrawEnds
  <2>1. claims' = claims
    BY <1>4 DEF WithdrawEnds
  <2>2. CASE withdrawDone' = TRUE
    <3>1. typed' = typed /\ RunEffect(typed')
      BY <1>4, <2>2 DEF WithdrawEnds
    <3>2. QED
      BY <1>1, <2>1, <3>1, EffectFits DEF EmployeeInv
  <2>3. CASE withdrawDone' = FALSE
    <3>1. UNCHANGED display
      BY <1>4, <2>3 DEF WithdrawEnds
    <3>2. QED
      BY <2>1, <3>1, DisplayKept
  <2>4. QED
    BY <1>4, <2>2, <2>3 DEF WithdrawEnds
<1>5. CASE Unmount
  <2>1. /\ matched' = NoSecret /\ hashing' = {}
        /\ effect' = effect /\ claims' = claims
    BY <1>5 DEF Unmount
  <2>2. DisplayFits'
    BY <2>1 DEF EmployeeInv, DisplayFits
  <2>3. QED
    BY <1>1, <2>1, <2>2
<1>6. QED
  BY <1>2, <1>3, <1>4, <1>5, ClaimFits

-----------------------------------------------------------------------------
(* The regulator.                                                          *)

Told(a, told) == \E i \in DOMAIN told : told[i] = a

\* What the timeline and the cleared actions tell, they go on telling.
LEMMA RegulatorMoves ==
  ASSUME RegulatorType', \A a \in Actions :
           a \in acted' /\ actions'[a].at = "answered" =>
             a \in cleared' \/ Told(a, timeline') \/ ~actions'[a].mounted
  PROVE  RegulatorInv'
BY DEF RegulatorInv, RegulatorType, TimelineTellsActions, Told

LEMMA ActionMoves ==
  ASSUME RegulatorInv, NEW a \in Actions, NEW new \in ActionType, new.at # "answered",
         actions' = [actions EXCEPT ![a] = new], UNCHANGED <<acted, timeline, cleared>>
  PROVE  RegulatorInv'
<1>1. /\ actions' \in [Actions -> ActionType] /\ actions'[a] = new
      /\ \A b \in Actions : b # a => actions'[b] = actions[b]
  BY DEF RegulatorInv, RegulatorType
<1>2. RegulatorType'
  BY <1>1 DEF RegulatorInv, RegulatorType
<1>3. QED
  BY <1>1, <1>2, RegulatorMoves DEF RegulatorInv, TimelineTellsActions, Told

LEMMA AnswerTold ==
  ASSUME RegulatorInv, NEW a \in Actions, Answer(a)
  PROVE  RegulatorInv'
<1>1. actions \in [Actions -> ActionType] /\ timeline \in Seq(Actions) /\ acted \subseteq Actions
  BY DEF RegulatorInv, RegulatorType
<1>2. /\ actions' = [actions EXCEPT ![a].at = "answered"]
      /\ acted' = acted /\ cleared' = cleared
      /\ timeline' = IF actions[a].mounted THEN <<a>> \o timeline ELSE timeline
  BY DEF Answer, Noted
<1>3. /\ actions' \in [Actions -> ActionType] /\ actions'[a].mounted = actions[a].mounted
      /\ \A b \in Actions : b # a => actions'[b] = actions[b]
  BY <1>1, <1>2 DEF ActionType
<1>4. /\ timeline' \in Seq(Actions)
      /\ actions[a].mounted => Told(a, timeline')
      /\ \A b \in Actions : Told(b, timeline) => Told(b, timeline')
  <2>1. CASE actions[a].mounted
    <3>1. timeline' = <<a>> \o timeline
      BY <1>2, <2>1
    <3>2. /\ timeline' \in Seq(Actions) /\ Len(timeline') = Len(timeline) + 1
          /\ timeline'[1] = a /\ \A i \in 1 .. Len(timeline) : timeline'[i + 1] = timeline[i]
      BY <1>1, <3>1
    <3>3. DOMAIN timeline' = 1 .. Len(timeline) + 1 /\ DOMAIN timeline = 1 .. Len(timeline)
          /\ Len(timeline) \in Nat
      BY <1>1, <3>2
    <3>4. Told(a, timeline')
      BY <3>2, <3>3 DEF Told
    <3>5. ASSUME NEW b \in Actions, Told(b, timeline) PROVE Told(b, timeline')
      <4>1. PICK i \in 1 .. Len(timeline) : timeline[i] = b
        BY <3>3, <3>5 DEF Told
      <4>2. i + 1 \in DOMAIN timeline' /\ timeline'[i + 1] = b
        BY <3>2, <3>3, <4>1
      <4>3. QED
        BY <4>2 DEF Told
    <3>6. QED
      BY <3>2, <3>4, <3>5
  <2>2. CASE ~actions[a].mounted
    BY <1>1, <1>2, <2>2
  <2>3. QED
    BY <2>1, <2>2
<1>5. RegulatorType'
  BY <1>1, <1>2, <1>3, <1>4 DEF RegulatorType
<1>6. ASSUME NEW b \in Actions, b \in acted', actions'[b].at = "answered"
      PROVE  b \in cleared' \/ Told(b, timeline') \/ ~actions'[b].mounted
  <2>1. CASE b = a
    BY <1>3, <1>4, <2>1
  <2>2. CASE b # a
    BY <1>2, <1>3, <1>4, <1>6, <2>2 DEF RegulatorInv, TimelineTellsActions, Told
  <2>3. QED
    BY <2>1, <2>2
<1>7. QED
  BY <1>5, <1>6, RegulatorMoves

LEMMA RegulatorStep ==
  ASSUME RegulatorInv,
         \/ \E a \in Actions : Submit(a) \/ Refused(a) \/ Act(a) \/ Answer(a)
         \/ ClearEvents
  PROVE  RegulatorInv'
<1>1. actions \in [Actions -> ActionType] /\ timeline \in Seq(Actions) /\ acted \subseteq Actions
  BY DEF RegulatorInv, RegulatorType
<1>2. ASSUME NEW a \in Actions, Submit(a) PROVE RegulatorInv'
  <2> DEFINE new == [at |-> "pending", mounted |-> TRUE]
  <2>1. new \in ActionType /\ new.at # "answered"
    BY DEF ActionType
  <2>2. actions' = [actions EXCEPT ![a] = new] /\ UNCHANGED <<acted, timeline, cleared>>
    BY <1>2 DEF Submit
  <2> HIDE DEF new
  <2>3. QED
    BY <2>1, <2>2, ActionMoves
<1>3. ASSUME NEW a \in Actions, Refused(a) PROVE RegulatorInv'
  <2> DEFINE new == [actions[a] EXCEPT !.at = "refused"]
  <2>1. new \in ActionType /\ new.at # "answered"
    BY <1>1 DEF ActionType
  <2>2. actions' = [actions EXCEPT ![a] = new] /\ UNCHANGED <<acted, timeline, cleared>>
    BY <1>3 DEF Refused
  <2> HIDE DEF new
  <2>3. QED
    BY <2>1, <2>2, ActionMoves
<1>4. ASSUME NEW a \in Actions, Act(a) PROVE RegulatorInv'
  <2>1. /\ actions[a].at = "pending" /\ acted' = acted \union {a}
        /\ UNCHANGED <<actions, timeline, cleared>>
    BY <1>4 DEF Act
  <2>2. RegulatorType'
    BY <1>1, <2>1 DEF RegulatorType
  <2>3. QED
    BY <2>1, <2>2, RegulatorMoves DEF RegulatorInv, TimelineTellsActions, Told
<1>5. CASE ClearEvents
  <2>1. /\ cleared' = cleared \union {timeline[i] : i \in DOMAIN timeline} /\ timeline' = <<>>
        /\ UNCHANGED <<actions, acted>>
    BY <1>5 DEF ClearEvents
  <2>2. RegulatorType'
    BY <1>1, <2>1 DEF RegulatorType
  <2>3. QED
    BY <2>1, <2>2, RegulatorMoves DEF RegulatorInv, TimelineTellsActions, Told
<1>6. QED
  BY <1>2, <1>3, <1>4, <1>5, AnswerTold

\* Another view, or the page closed: an action goes on, or is cut short.
LEMMA ActionsGoOn ==
  ASSUME RegulatorInv, UNCHANGED <<acted, timeline, cleared>>,
         actions' \in [Actions -> ActionType],
         \A a \in Actions :
           actions'[a].at = "answered" =>
             actions[a].at = "answered" /\ (actions'[a].mounted => actions[a].mounted)
  PROVE  RegulatorInv'
<1>1. RegulatorType'
  BY DEF RegulatorInv, RegulatorType
<1>2. QED
  BY <1>1, RegulatorMoves DEF RegulatorInv, TimelineTellsActions, Told

-----------------------------------------------------------------------------
(* The page.                                                               *)

LEMMA SwitchStep ==
  ASSUME PayrollInv, NEW next, SwitchTo(next)
  PROVE  PayrollInv'
<1>1. EmployerInv'
  <2>1. sends' = [s \in Sends |-> [sends[s] EXCEPT !.mounted = FALSE]]
        /\ UNCHANGED <<saved, deposits>>
    BY DEF SwitchTo
  <2>2. sends \in [Sends -> SendType]
    BY DEF PayrollInv, EmployerInv, EmployerType
  <2>3. \A s \in Sends : [sends[s] EXCEPT !.mounted = FALSE] \in SendType
                         /\ [sends[s] EXCEPT !.mounted = FALSE].at = sends[s].at
    BY <2>2 DEF SendType
  <2>4. QED
    BY <2>1, <2>3, SendsGoOn DEF PayrollInv
<1>2. EmployeeInv'
  BY EmployeeStep DEF SwitchTo, PayrollInv
<1>3. RegulatorInv'
  <2>1. actions' = [a \in Actions |-> [actions[a] EXCEPT !.mounted = FALSE]]
        /\ UNCHANGED <<acted, timeline, cleared>>
    BY DEF SwitchTo
  <2>2. actions \in [Actions -> ActionType]
    BY DEF PayrollInv, RegulatorInv, RegulatorType
  <2>3. \A a \in Actions : /\ [actions[a] EXCEPT !.mounted = FALSE] \in ActionType
                           /\ [actions[a] EXCEPT !.mounted = FALSE].at = actions[a].at
                           /\ [actions[a] EXCEPT !.mounted = FALSE].mounted = FALSE
    BY <2>2 DEF ActionType
  <2>4. QED
    BY <2>1, <2>3, ActionsGoOn DEF PayrollInv
<1>4. QED
  BY <1>1, <1>2, <1>3 DEF PayrollInv

LEMMA CloseStep ==
  ASSUME PayrollInv, CloseTab
  PROVE  PayrollInv'
<1>1. EmployerInv'
  <2>1. /\ sends' = [s \in Sends |-> [sends[s] EXCEPT !.at = IF Running(s) THEN "cut" ELSE @]]
        /\ UNCHANGED <<saved, deposits>>
    BY DEF CloseTab
  <2>2. sends \in [Sends -> SendType]
    BY DEF PayrollInv, EmployerInv, EmployerType
  <2>3. ASSUME NEW s \in Sends
        PROVE  /\ sends'[s] \in SendType
               /\ \/ sends'[s].at = sends[s].at
                  \/ sends'[s].at = "cut" /\ sends[s].at # "saved"
    <3>1. CASE Running(s)
      <4>1. sends'[s] = [sends[s] EXCEPT !.at = "cut"]
        BY <2>1, <3>1
      <4>2. sends[s].at # "saved"
        BY <3>1 DEF Running
      <4>3. QED
        BY <2>2, <4>1, <4>2 DEF SendType
    <3>2. CASE ~Running(s)
      <4>1. sends'[s] = [sends[s] EXCEPT !.at = @]
        BY <2>1, <3>2
      <4>2. QED
        BY <2>2, <4>1 DEF SendType
    <3>3. QED
      BY <3>1, <3>2
  <2>4. sends' \in [Sends -> SendType]
    BY <2>1, <2>3
  <2>5. QED
    BY <2>1, <2>3, <2>4, SendsGoOn DEF PayrollInv
<1>2. EmployeeInv'
  BY EmployeeStep DEF CloseTab, PayrollInv
<1>3. RegulatorInv'
  <2>1. /\ actions' = [a \in Actions |->
             [actions[a] EXCEPT !.at = IF @ = "pending" THEN "cut" ELSE @]]
        /\ UNCHANGED <<acted, timeline, cleared>>
    BY DEF CloseTab
  <2>2. actions \in [Actions -> ActionType]
    BY DEF PayrollInv, RegulatorInv, RegulatorType
  <2>3. ASSUME NEW a \in Actions
        PROVE  /\ actions'[a] \in ActionType /\ actions'[a].mounted = actions[a].mounted
               /\ actions'[a].at = "answered" => actions[a].at = "answered"
    <3>1. actions'[a] = [actions[a] EXCEPT !.at = IF @ = "pending" THEN "cut" ELSE @]
      BY <2>1
    <3>2. QED
      BY <2>2, <3>1 DEF ActionType
  <2>4. actions' \in [Actions -> ActionType]
    BY <2>1, <2>3
  <2>5. QED
    BY <2>1, <2>3, <2>4, ActionsGoOn DEF PayrollInv
<1>4. QED
  BY <1>1, <1>2, <1>3 DEF PayrollInv

-----------------------------------------------------------------------------
(* Every step, and the theorems.                                           *)

LEMMA PayrollStep ==
  ASSUME PayrollInv, [PayrollNext]_payrollVars
  PROVE  PayrollInv'
<1>1. ASSUME UNCHANGED <<sends, saved, deposits>> PROVE EmployerInv'
  BY <1>1 DEF PayrollInv, EmployerInv, EmployerType, SendsAreKept
<1>2. ASSUME UNCHANGED regulator PROVE RegulatorInv'
  BY <1>2 DEF PayrollInv, RegulatorInv, RegulatorType, TimelineTellsActions, regulator
<1>3. CASE \E s \in Sends :
             HandleSend(s) \/ ProvePayroll(s) \/ SubmitRow(s) \/ SavePayrollBatch(s)
  <2>1. UNCHANGED <<display, claims>> /\ UNCHANGED regulator
    BY <1>3 DEF HandleSend, ProvePayroll, SubmitRow, SavePayrollBatch, claiming
  <2>2. QED
    BY <1>2, <1>3, <2>1, EmployerStep, DisplayKept DEF PayrollInv
<1>4. CASE \/ \E secret \in Secrets \union {NoSecret} : Type(secret)
           \/ \E hash \in hashing : HashDone(hash)
           \/ HandleWithdraw
           \/ WithdrawEnds
  <2>1. UNCHANGED <<sends, saved, deposits>> /\ UNCHANGED regulator
    BY <1>4 DEF Type, HashDone, HandleWithdraw, WithdrawEnds, employer
  <2>2. QED
    BY <1>1, <1>2, <1>4, <2>1, EmployeeStep DEF PayrollInv
<1>5. CASE \/ \E a \in Actions : Submit(a) \/ Refused(a) \/ Act(a) \/ Answer(a)
           \/ ClearEvents
  <2>1. UNCHANGED <<sends, saved, deposits>> /\ UNCHANGED <<display, claims>>
    BY <1>5 DEF Submit, Refused, Act, Answer, ClearEvents, employer, claiming
  <2>2. QED
    BY <1>1, <1>5, <2>1, RegulatorStep, DisplayKept DEF PayrollInv
<1>6. CASE \E next \in {"employer", "employee", "regulator"} : SwitchTo(next)
  BY <1>6, SwitchStep
<1>7. CASE CloseTab
  BY <1>7, CloseStep
<1>8. CASE UNCHANGED payrollVars
  <2>1. /\ UNCHANGED <<sends, saved, deposits>>
        /\ UNCHANGED <<display, claims>>
        /\ UNCHANGED regulator
    BY <1>8 DEF payrollVars, employer, claiming
  <2>2. QED
    BY <1>1, <1>2, <2>1, DisplayKept DEF PayrollInv
<1>9. QED
  BY <1>3, <1>4, <1>5, <1>6, <1>7, <1>8 DEF PayrollNext

LEMMA PayrollInvariant == PayrollSpec => []PayrollInv
BY PayrollStarts, PayrollStep, PTL DEF PayrollSpec

(***************************************************************************)
(* The batches the employer's browser keeps tell of every deposit the pool *)
(* has received: whatever rows failed, however the employer switched views *)
(* and closed the page, as long as the send was not cut short and Keep     *)
(* sends have not been saved after it.                                     *)
(***************************************************************************)
THEOREM DepositsStayClaimable == PayrollSpec => []SecretsAreKept
<1>1. ASSUME PayrollInv PROVE SecretsAreKept
  <2> SUFFICES ASSUME NEW secret \in deposits
               PROVE  \/ Found(secret)
                      \/ Running(secret[1]) \/ sends[secret[1]].at = "cut"
                      \/ Len(saved) = Keep /\ sends[secret[1]].at = "saved"
    BY DEF SecretsAreKept
  <2>1. secret[1] \in Sends /\ sends[secret[1]].at \in {"sending", "saved", "cut"}
    BY <1>1 DEF PayrollInv, EmployerInv, EmployerType, SendsAreKept
  <2>2. sends[secret[1]].at = "saved" => In(secret[1], saved) \/ Len(saved) = Keep
    BY <1>1, <2>1 DEF PayrollInv, EmployerInv, SendsAreKept
  <2>3. QED
    BY <2>1, <2>2 DEF Found, Running, In
<1>2. QED
  BY <1>1, PayrollInvariant, PTL

(***************************************************************************)
(* The employee's page claims with the address, the amount and the hashes  *)
(* of one secret, unless the hashes were late or failed.                   *)
(***************************************************************************)
THEOREM ClaimsDoNotMix == PayrollSpec => []ClaimsAreOfOneEmployee
<1>1. PayrollInv => ClaimsAreOfOneEmployee
  BY DEF PayrollInv, EmployeeInv
<1>2. QED
  BY <1>1, PayrollInvariant, PTL

(***************************************************************************)
(* The regulator's timeline has every action the list contracts took, also *)
(* one whose call ended in an error, while the view stays and until it is  *)
(* cleared.                                                                *)
(***************************************************************************)
THEOREM TimelineIsComplete == PayrollSpec => []TimelineTellsActions
<1>1. PayrollInv => TimelineTellsActions
  BY DEF PayrollInv, RegulatorInv
<1>2. QED
  BY <1>1, PayrollInvariant, PTL
=============================================================================
