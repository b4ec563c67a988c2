------------------------------- MODULE Session -------------------------------
(***************************************************************************)
(* A session of the client's main page (app/js/ui): connecting Freighter,  *)
(* the onboarding wizard, the watcher that follows the account selected in *)
(* Freighter, disconnecting, and the notes table and address book that are *)
(* filled by the storage worker meanwhile.                                 *)
(*                                                                         *)
(* Everything between two awaits is one step.  The storage worker answers  *)
(* requests in the order they were posted; the page gives up on a request  *)
(* after a time (client.rs), the worker serves it all the same.  Which     *)
(* tokens, hashes and texts are shown is left out, and so is what does not *)
(* depend on the account (the lists of events and of contract state).      *)
(***************************************************************************)
EXTENDS Browser

CONSTANTS
  MaxClicks,   \* bound on what the user does on the page, the wizard aside
  MaxLosses,   \* bound on the calls that fail or time out
  MaxWaiting   \* bound on the requests waiting when the user or a timer adds one

VARIABLES
  accepted,  \* disclaimer_acceptances
  prompted,  \* the flag in localStorage that durable storage was offered
  page,      \* App.state, the wallet's menu, notes table and address book
  task,      \* the running connect() or _handleWalletChange()
  signing,   \* derivations that wait for Freighter's two signatures
  queue,     \* requests posted to the storage worker
  clicks, losses

sessionVars == <<accepted, prompted, page, task, signing, queue, clicks, losses>>

\* network stands for the three network fields of App.state.wallet, keys for
\* both public keys, rows for the rows of the address book marked as the
\* user's own.
Blank ==
  [loaded |-> FALSE, connected |-> FALSE, address |-> None, network |-> None,
   keys |-> None, recipient |-> None, submit |-> FALSE, paying |-> FALSE,
   dropdown |-> FALSE, registering |-> FALSE, watching |-> FALSE, seen |-> <<>>,
   notes |-> None, refreshing |-> FALSE, polling |-> FALSE,
   cached |-> FALSE, rows |-> {}]

NoTask == [kind |-> "none", stage |-> "none", who |-> None,
           terms |-> FALSE, storage |-> FALSE, keys |-> None]
Connecting == [NoTask EXCEPT !.kind = "connect", !.stage = "access"]

\* The page connects by itself when it is loaded.
SessionInit ==
  /\ accepted = {} /\ prompted = FALSE
  /\ page = Blank /\ task = Connecting
  /\ signing = {} /\ queue = <<>>
  /\ clicks = 0 /\ losses = 0

\* A request to the worker; live while somebody awaits its answer.
Ask(op, who) == [op |-> op, who |-> who, pair |-> None, live |-> TRUE]

Click == clicks < MaxClicks /\ clicks' = clicks + 1
Lose == losses < MaxLosses /\ losses' = losses + 1

\* The wizard covers the page.
ModalShown == task.stage \in {"disclaimer", "accepting", "storage", "derive", "deriving"}

-----------------------------------------------------------------------------
(* What the handlers share.                                                *)

Disconnected(p) ==
  [p EXCEPT !.connected = FALSE, !.address = None, !.network = None, !.keys = None,
            !.submit = FALSE, !.watching = FALSE, !.polling = FALSE, !.notes = None]

\* connect() and _handleWalletChange() disconnect when anything goes wrong.
Abort == page' = Disconnected(page) /\ task' = NoTask

\* refreshOnce of the notes table.
RefreshNotes(p, q) ==
  IF p.refreshing \/ ~p.connected \/ p.address = None
  THEN [page |-> p, queue |-> q]
  ELSE [page |-> [p EXCEPT !.refreshing = TRUE], queue |-> Append(q, Ask("notes", p.address))]

\* The user's own row, with the keys at hand or those of the list.
WithRow(p, who) ==
  IF who = None \/ (p.keys = None /\ ~p.cached) THEN {p}
  ELSE IF p.keys # None
  THEN {[p EXCEPT !.rows = @ \cup {[who |-> who, keys |-> p.keys]}]}
  ELSE {p, [p EXCEPT !.rows = @ \cup {[who |-> who, keys |-> "listed"]}]}

\* render() once it has the list: the user's keys are fetched if need be.
Continue(p, q) ==
  IF p.address # None /\ p.keys = None /\ p.connected
  THEN page' = p /\ queue' = Append(q, Ask("self", p.address))
  ELSE page' \in WithRow(p, p.address) /\ queue' = q

\* render() of the address book, and filterTable(), which clears it later.
LoadIfNeeded(p, q, op) ==
  IF p.cached \/ ~p.connected THEN Continue([p EXCEPT !.rows = {}], q)
  ELSE /\ page' = p
       /\ queue' = IF p.loaded THEN Append(q, Ask(op, None)) ELSE q

\* Variant: the rows that are there stay.
RenderOver(p, q) == LoadIfNeeded(p, q, "book")

Render(p, q) == LoadIfNeeded([p EXCEPT !.rows = {}], q, "book")

\* Variant: keys that are there are kept.
KeysKept(p, t) == [p EXCEPT !.keys = IF @ = None THEN t.keys ELSE @]

\* The keys the page works with once the wizard is through.
KeysReady(p, t) == [p EXCEPT !.keys = t.keys]

(***************************************************************************)
(* The end of connect() and of _applyWalletIdentityChange(): the keys, the *)
(* submit buttons, and wallet:ready, on which the withdrawal's recipient   *)
(* is filled in, the notes table polls and the address book is rendered.   *)
(* connect() starts the watcher unless one is running.                     *)
(***************************************************************************)
Finish(t, q) ==
  LET fresh == t.kind = "connect" /\ ~page.watching
      ready == [KeysReady(page, t) EXCEPT
                  !.submit = TRUE, !.recipient = t.who, !.polling = TRUE, !.cached = FALSE,
                  !.watching = @ \/ fresh, !.seen = IF fresh THEN <<>> ELSE @]
      notes == RefreshNotes(ready, q)
  IN /\ task' = NoTask
     /\ Render(notes.page, notes.queue)

-----------------------------------------------------------------------------
(* connect().                                                              *)

Connect ==
  /\ ~page.connected /\ task = NoTask /\ Click
  /\ task' = Connecting
  /\ \E open \in {page.dropdown, FALSE} : page' = [page EXCEPT !.dropdown = open]
  /\ UNCHANGED <<browserVars, accepted, prompted, signing, queue, losses>>

\* connectWallet answers with the account selected at that moment.
AccessGranted ==
  /\ task.stage = "access"
  /\ task' = [task EXCEPT !.stage = "network", !.who = active]
  /\ UNCHANGED <<browserVars, accepted, prompted, page, signing, queue, clicks, losses>>

\* Only a network with a testnet URL is accepted.
NetworkOfConnect ==
  /\ task.kind = "connect" /\ task.stage = "network"
  /\ IF network = "testnet"
     THEN /\ page' = [page EXCEPT !.connected = TRUE, !.address = task.who, !.network = network]
          /\ task' = [task EXCEPT !.stage = "wasm"]
     ELSE Abort
  /\ UNCHANGED <<browserVars, accepted, prompted, signing, queue, clicks, losses>>

\* initializeWasm, which loads once, and the wizard's first request.
WasmLoaded ==
  /\ task.stage = "wasm"
  /\ page' = [page EXCEPT !.loaded = TRUE]
  /\ task' = [task EXCEPT !.stage = "terms"]
  /\ queue' = Append(queue, Ask("terms", task.who))
  /\ UNCHANGED <<browserVars, accepted, prompted, signing, clicks, losses>>

CallFails ==
  /\ \/ task.stage \in {"access", "network"}
     \/ task.stage = "wasm" /\ ~page.loaded
  /\ Lose /\ Abort
  /\ UNCHANGED <<browserVars, accepted, prompted, signing, queue, clicks>>

-----------------------------------------------------------------------------
(* The watcher and _handleWalletChange().                                  *)

\* The watcher reports what it has not reported yet.  A change is dropped
\* while connect() or an earlier change is under way.
WatcherReports ==
  /\ page.watching /\ page.seen # <<active, network>>
  /\ LET seen == [page EXCEPT !.seen = <<active, network>>]
         moved == active # page.address
     IN IF page.connected /\ task = NoTask /\ (moved \/ network # page.network)
        THEN /\ page' = [seen EXCEPT !.submit = FALSE]
             /\ task' = [NoTask EXCEPT !.kind = "change", !.stage = "network",
                                       !.who = IF moved THEN active ELSE None]
        ELSE page' = seen /\ UNCHANGED task
  /\ UNCHANGED <<browserVars, accepted, prompted, signing, queue, clicks, losses>>

\* A network without a URL keeps the URL the page has.
NetworkOfChange ==
  /\ task.kind = "change" /\ task.stage = "network"
  /\ IF network = "mainnet" \/ (network = "custom" /\ page.network = None)
     THEN Abort /\ UNCHANGED queue
     ELSE IF task.who = None
     THEN /\ page' = [page EXCEPT !.network = network]
          /\ task' = NoTask /\ UNCHANGED queue
     ELSE /\ page' = [page EXCEPT !.network = network, !.address = task.who]
          /\ task' = [task EXCEPT !.stage = "terms"]
          /\ queue' = Append(queue, Ask("terms", task.who))
  /\ UNCHANGED <<browserVars, accepted, prompted, signing, clicks, losses>>

-----------------------------------------------------------------------------
(* runOnboardingWizard() and the derivation of the keys.                   *)

\* The next step the account needs: terms, durable storage, keys.
Proceed(t, q) ==
  \/ /\ t.terms
     /\ task' = [t EXCEPT !.stage = "disclaimer"] /\ queue' = q /\ UNCHANGED <<page, prompted>>
  \/ /\ ~t.terms /\ t.storage
     /\ task' = [t EXCEPT !.stage = "storage"] /\ queue' = q
     /\ prompted' = TRUE /\ UNCHANGED page
  \/ /\ ~t.terms /\ ~t.storage /\ t.keys = None
     /\ task' = [t EXCEPT !.stage = "derive"] /\ queue' = q /\ UNCHANGED <<page, prompted>>
  \/ ~t.terms /\ ~t.storage /\ t.keys # None /\ Finish(t, q) /\ UNCHANGED prompted

\* The request at the head of the queue is answered to the one who awaits it.
Served(op) == queue # <<>> /\ Head(queue).live /\ Head(queue).op = op

TermsAnswered ==
  /\ Served("terms")
  /\ task' = [task EXCEPT !.stage = "keys", !.terms = task.who \notin accepted]
  /\ queue' = Append(Tail(queue), Ask("keys", task.who))
  /\ UNCHANGED <<browserVars, accepted, prompted, page, signing, clicks, losses>>

\* Durable storage is offered once, where the browser has it to offer.
KeysAnswered ==
  /\ Served("keys")
  /\ \E offer \in {FALSE, ~prompted} :
       Proceed([task EXCEPT !.keys = UserKeys(task.who), !.storage = offer], Tail(queue))
  /\ UNCHANGED <<browserVars, accepted, signing, clicks, losses>>

Accept ==
  /\ task.stage = "disclaimer"
  /\ task' = [task EXCEPT !.stage = "accepting"]
  /\ queue' = Append(queue, Ask("accept", task.who))
  /\ UNCHANGED <<browserVars, accepted, prompted, page, signing, clicks, losses>>

AcceptAnswered ==
  /\ Served("accept")
  /\ accepted' = accepted \cup {task.who}
  /\ Proceed([task EXCEPT !.terms = FALSE], Tail(queue))
  /\ UNCHANGED <<browserVars, signing, clicks, losses>>

\* "Not now", or the browser's answer to the request for durable storage.
StorageStepDone ==
  /\ task.stage = "storage"
  /\ Proceed([task EXCEPT !.storage = FALSE], queue)
  /\ UNCHANGED <<browserVars, accepted, signing, clicks, losses>>

\* deriveKeysFromWallet: two signatures of the wizard's account, save, read.
Derive ==
  /\ task.stage = "derive"
  /\ task' = [task EXCEPT !.stage = "deriving"]
  /\ signing' = signing \cup {[who |-> task.who, live |-> TRUE]}
  /\ UNCHANGED <<browserVars, accepted, prompted, page, queue, clicks, losses>>

Sign(s) ==
  /\ s \in signing
  /\ signing' = signing \ {s}
  /\ queue' = Append(queue, [Ask("save", s.who) EXCEPT !.pair = s.who, !.live = s.live])
  /\ UNCHANGED <<browserVars, accepted, prompted, page, task, clicks, losses>>

RefuseToSign(s) ==
  /\ s \in signing /\ Lose
  /\ signing' = signing \ {s}
  /\ task' = IF s.live THEN [task EXCEPT !.stage = "derive"] ELSE task
  /\ UNCHANGED <<browserVars, accepted, prompted, page, queue, clicks>>

SaveAnswered ==
  /\ Served("save")
  /\ SaveUserKeys(Head(queue).who, Head(queue).pair)
  /\ queue' = Append(Tail(queue), Ask("got", Head(queue).who))
  /\ UNCHANGED <<accepted, prompted, page, task, signing, clicks, losses>>

DerivedAnswered ==
  /\ Served("got")
  /\ Finish([task EXCEPT !.keys = UserKeys(Head(queue).who)], Tail(queue))
  /\ UNCHANGED <<browserVars, accepted, prompted, signing, clicks, losses>>

\* The wizard is closed, or the terms are declined: its promises reject, a
\* derivation under way goes on for nobody.
Close ==
  /\ ModalShown
  /\ Abort
  /\ signing' = {[s EXCEPT !.live = FALSE] : s \in signing}
  /\ queue' = [i \in DOMAIN queue |->
                 [queue[i] EXCEPT !.live = @ /\ queue[i].op \notin {"accept", "save", "got"}]]
  /\ UNCHANGED <<browserVars, accepted, prompted, clicks, losses>>

-----------------------------------------------------------------------------
(* The worker's other answers, and the requests nobody awaits any more.    *)

NotesAnswered ==
  /\ Served("notes")
  /\ page' = [page EXCEPT !.notes = Head(queue).who, !.refreshing = FALSE]
  /\ queue' = Tail(queue)
  /\ UNCHANGED <<browserVars, accepted, prompted, task, signing, clicks, losses>>

ListAnswered ==
  /\ \/ Served("book") /\ Continue([page EXCEPT !.cached = TRUE], Tail(queue))
     \/ Served("filter") /\ Continue([page EXCEPT !.cached = TRUE, !.rows = {}], Tail(queue))
  /\ UNCHANGED <<browserVars, accepted, prompted, task, signing, clicks, losses>>

\* _ensureLocalKeysLoaded takes over what it is told, whoever is connected.
SelfAnswered ==
  /\ Served("self")
  /\ LET told == UserKeys(Head(queue).who)
     IN page' \in WithRow([page EXCEPT !.keys = IF told # None THEN told ELSE @], Head(queue).who)
  /\ queue' = Tail(queue)
  /\ UNCHANGED <<browserVars, accepted, prompted, task, signing, clicks, losses>>

ServedInVain ==
  /\ queue # <<>> /\ ~Head(queue).live
  /\ LET r == Head(queue)
     IN /\ IF r.op = "save" THEN SaveUserKeys(r.who, r.pair) ELSE UNCHANGED browserVars
        /\ accepted' = IF r.op = "accept" THEN accepted \cup {r.who} ELSE accepted
  /\ queue' = Tail(queue)
  /\ UNCHANGED <<prompted, page, task, signing, clicks, losses>>

\* A request is given up, or answered with an error.
Expire(i) ==
  /\ i \in DOMAIN queue /\ queue[i].live /\ Lose
  /\ queue' = [queue EXCEPT ![i].live = FALSE]
  /\ LET op == queue[i].op
     IN \/ op \in {"terms", "keys"} /\ Abort
        \/ /\ op \in {"accept", "save", "got"}
           /\ task' = [task EXCEPT !.stage = IF op = "accept" THEN "disclaimer" ELSE "derive"]
           /\ UNCHANGED page
        \/ op = "notes" /\ page' = [page EXCEPT !.refreshing = FALSE] /\ UNCHANGED task
        \/ op = "self" /\ page' \in WithRow(page, queue[i].who) /\ UNCHANGED task
        \/ op \in {"book", "filter"} /\ UNCHANGED <<page, task>>
  /\ UNCHANGED <<browserVars, accepted, prompted, signing, clicks>>

-----------------------------------------------------------------------------
(* What the user does on the page.                                         *)

OnPage == ~ModalShown /\ Click /\ UNCHANGED <<browserVars, accepted, prompted, signing, losses>>

\* The menu opens on the wallet button, which is disabled during a task; once
\* open it stays usable.
ToggleDropdown ==
  /\ OnPage /\ page.connected /\ task = NoTask
  /\ page' = [page EXCEPT !.dropdown = ~@]
  /\ UNCHANGED <<task, queue>>

\* The rest of a running task goes on after disconnect().
Disconnect ==
  /\ OnPage /\ page.dropdown
  /\ page' = [Disconnected(page) EXCEPT !.dropdown = FALSE]
  /\ UNCHANGED <<task, queue>>

\* registerPublicKey takes the address and the keys of this moment.
RegisterPublicKey ==
  /\ OnPage /\ page.dropdown /\ ~page.registering
  /\ page' = [page EXCEPT !.dropdown = FALSE,
                          !.registering = page.connected /\ page.keys # None]
  /\ UNCHANGED <<task, queue>>

Registered ==
  /\ page.registering /\ Len(queue) < MaxWaiting
  /\ \/ Render([page EXCEPT !.registering = FALSE, !.cached = FALSE], queue)
     \/ page' = [page EXCEPT !.registering = FALSE] /\ UNCHANGED queue
  /\ UNCHANGED <<browserVars, accepted, prompted, task, signing, clicks, losses>>

\* The book is opened, refreshed or filtered.
UseBook ==
  /\ OnPage /\ Len(queue) < MaxWaiting
  /\ \/ Render(page, queue)
     \/ Render([page EXCEPT !.cached = FALSE], queue)
     \/ LoadIfNeeded(page, queue, "filter")
  /\ UNCHANGED task

\* The notes table's interval timer.
NotesTick ==
  /\ page.polling /\ Len(queue) < MaxWaiting /\ Click
  /\ LET notes == RefreshNotes(page, queue) IN page' = notes.page /\ queue' = notes.queue
  /\ UNCHANGED <<browserVars, accepted, prompted, task, signing, losses>>

\* A payment (module ClientFlow) disables its button and enables it at the end.
StartPayment ==
  /\ OnPage /\ page.submit /\ page.connected /\ ~page.paying
  /\ page' = [page EXCEPT !.paying = TRUE, !.submit = FALSE]
  /\ UNCHANGED <<task, queue>>

EndPayment ==
  /\ page.paying
  /\ page' = [page EXCEPT !.paying = FALSE, !.submit = TRUE]
  /\ UNCHANGED <<browserVars, accepted, prompted, task, signing, queue, clicks, losses>>

\* The page is reloaded, or closed and opened again.
Reload ==
  /\ Click
  /\ page' = Blank /\ task' = Connecting /\ signing' = {} /\ queue' = <<>>
  /\ UNCHANGED <<browserVars, accepted, prompted, losses>>

Onboarding ==
  \/ Connect \/ AccessGranted \/ NetworkOfConnect \/ WasmLoaded \/ CallFails
  \/ WatcherReports \/ NetworkOfChange
  \/ TermsAnswered \/ KeysAnswered \/ Accept \/ AcceptAnswered \/ StorageStepDone
  \/ Derive \/ (\E s \in signing : Sign(s) \/ RefuseToSign(s))
  \/ SaveAnswered \/ DerivedAnswered \/ Close

PageNext ==
  \/ Onboarding
  \/ NotesAnswered \/ ListAnswered \/ SelfAnswered \/ ServedInVain
  \/ (\E i \in DOMAIN queue : Expire(i))
  \/ ToggleDropdown \/ Disconnect \/ RegisterPublicKey \/ Registered
  \/ UseBook \/ NotesTick \/ StartPayment \/ EndPayment \/ Reload

FreighterNext ==
  /\ \/ \E a \in Holders : SwitchAccount(a)
     \/ \E n \in Networks : SwitchNetwork(n)
  /\ UNCHANGED sessionVars

SessionSpec ==
  /\ BrowserInit /\ SessionInit
  /\ [][PageNext \/ FreighterNext]_<<browserVars, sessionVars>>

-----------------------------------------------------------------------------
(* Correctness.                                                            *)

Settled == page.connected /\ task = NoTask

(***************************************************************************)
(* Between two onboardings what the page works with is of one account: the *)
(* keys are the stored ones of the connected account and the withdrawal's  *)
(* recipient is that account.  Neither an answer asked for by an earlier   *)
(* account, nor a task that goes on after disconnect(), nor a derivation   *)
(* the user has cancelled leaves anything else behind.  The notes table is *)
(* excepted: it shows what its last refresh was given.                     *)
(***************************************************************************)
SettledPageFits ==
  Settled => /\ page.keys = stored[page.address] /\ page.keys # None
             /\ page.recipient = page.address

(***************************************************************************)
(* The rows the address book marks as the user's own show the connected    *)
(* account with its own keys, whatever was rendered for whom while the     *)
(* account changed, and whatever answers for the book are still awaited.   *)
(***************************************************************************)
BookShowsOwnKeys ==
  Settled => \A r \in page.rows : r = [who |-> page.address, keys |-> page.keys]
=============================================================================
