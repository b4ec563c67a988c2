------------------------------- MODULE Indexer -------------------------------
(***************************************************************************)
(* The event indexer of the browser client                                 *)
(* (app/crates/core/stellar/src/indexer.rs): rounds of pages fetched from  *)
(* an RPC node, saved with a cursor for each contract, while the chain     *)
(* grows, calls fail, and the app is reloaded, possibly with other pools   *)
(* enabled.                                                                *)
(*                                                                         *)
(* An event is its position in the chain's log of events, and a cursor the *)
(* position it stands behind, whatever the contracts asked for: an RPC     *)
(* cursor is a point of the ledger.                                        *)
(***************************************************************************)
EXTENDS Integers, Sequences, FiniteSets

CONSTANTS
  Pools,            \* pools of the deployment file
  Asp,              \* its ASP membership contract
  DeploymentLedger, \* ledger each contract was deployed at
  Configs,          \* sets of pools that builds of the app enable
  FirstConfigs,     \* those of the build a browser meets first
  PageSize,         \* PAGE_SIZE
  MaxPagesPerRound, \* MAX_PAGES_PER_ROUND
  MaxLedger,        \* bound on the ledgers closed
  MaxEvents,        \* bound on the events emitted
  MaxEventsPerLedger, \* bound on the events of one ledger
  MaxReloads        \* bound on the reloads of the app

Contracts == Pools \cup {Asp}
None == -1

MinPoolLedger(pools) ==
  CHOOSE l \in {DeploymentLedger[p] : p \in pools} :
    \A p \in pools : l <= DeploymentLedger[p]

ASSUME ContractAssumption ==
  /\ Asp \notin Pools
  /\ DeploymentLedger \in [Contracts -> Nat \ {0}]
ASSUME ConfigAssumption ==
  /\ FirstConfigs \subseteq Configs
  /\ \A pools \in Configs : pools # {} /\ pools \subseteq Pools
\* Indexing starts at the oldest enabled pool: that is no limitation for the
\* pools, and the ASP contract must not have events before it.
ASSUME StartAssumption ==
  \A pools \in Configs :
    /\ MinPoolLedger(pools) \in Nat
    /\ \A c \in pools \cup {Asp} : MinPoolLedger(pools) <= DeploymentLedger[c]
ASSUME BoundAssumption ==
  /\ PageSize \in Nat \ {0} /\ MaxPagesPerRound \in Nat \ {0}
  /\ MaxLedger \in Nat /\ MaxEvents \in Nat
  /\ MaxEventsPerLedger \in Nat /\ MaxReloads \in Nat

VARIABLES
  chain,    \* the log of events, [contract, ledger]
  tip,      \* latest closed ledger
  enabled,  \* pools the running build enables
  raw,      \* raw_contract_events
  metadata, \* indexing_metadata: contract -> [cursor, lastLedger]
  step,     \* where the round is: between awaits of fetch_contract_events
  start,    \* start_ledger of the round
  cursor,   \* cursor of the round
  page,     \* the page fetched and not yet recorded
  pages,    \* pages recorded in the round
  reloads

chainVars == <<chain, tip>>
roundVars == <<step, start, cursor, page, pages>>
vars == <<chainVars, enabled, raw, metadata, roundVars, reloads>>

ContractIds == enabled \cup {Asp}
Events == 1 .. Len(chain)
NoPage == [cursor |-> 0, events |-> {}, latest |-> 0]

EndRound ==
  /\ step' = "idle" /\ start' = 0 /\ cursor' = None
  /\ page' = NoPage /\ pages' = 0

Init ==
  /\ enabled \in FirstConfigs
  /\ chain = <<>>
  /\ tip = MinPoolLedger(enabled)
  /\ raw = {}
  /\ metadata = [c \in {} |-> NoPage]
  /\ step = "idle" /\ start = 0 /\ cursor = None /\ page = NoPage /\ pages = 0
  /\ reloads = 0

-----------------------------------------------------------------------------
(* The chain, and what the RPC node answers.                               *)

LedgerContents == UNION {[1 .. n -> Contracts] : n \in 0 .. MaxEventsPerLedger}

\* A ledger closes with all its events at once.
CloseLedger ==
  /\ tip < MaxLedger
  /\ \E s \in LedgerContents :
       /\ Len(chain) + Len(s) <= MaxEvents
       /\ \A i \in DOMAIN s : DeploymentLedger[s[i]] <= tip + 1
       /\ chain' = chain \o [i \in DOMAIN s |-> [contract |-> s[i], ledger |-> tip + 1]]
  /\ tip' = tip + 1
  /\ UNCHANGED <<enabled, raw, metadata, roundVars, reloads>>

\* getEvents reads behind the cursor, or from the start ledger without one.
Pending(from) == {e \in Events : e > from /\ chain[e].contract \in ContractIds}

\* The position a page is read from: the cursor, or the end of the ledgers
\* before the start ledger.
Origins ==
  IF cursor # None THEN {cursor}
  ELSE {n \in 0 .. Len(chain) : \A e \in Events : e <= n <=> chain[e].ledger < start}

\* The node refuses a start ledger it has not got.
StartAvailable == cursor # None \/ start \in 1 .. tip

\* A full page ends with its last event, any other at the end of the log.
PageEnds(from) ==
  IF Cardinality(Pending(from)) < PageSize
  THEN {Len(chain)}
  ELSE {e \in Pending(from) : Cardinality({f \in Pending(from) : f <= e}) = PageSize}

PageEvents(from, end) == {e \in Pending(from) : e <= end}

-----------------------------------------------------------------------------
(* fetch_contract_events, one action between two awaits.                   *)

\* What the round knows of the active contracts (get_sync_metadata, filtered).
Active == DOMAIN metadata \cap ContractIds

StartLedger ==
  IF Active = {} THEN MinPoolLedger(enabled)
  ELSE CHOOSE l \in {metadata[c].lastLedger : c \in Active} :
         \A c \in Active : l <= metadata[c].lastLedger

Cursors == {metadata[c].cursor : c \in Active}

\* Variant: every round replays from the start ledger.
NoCursor == None

\* The cursor of the active contracts if they have one and the same.
SharedCursor == IF Cardinality(Cursors) = 1 THEN CHOOSE p \in Cursors : TRUE ELSE None

BeginRound ==
  /\ step = "idle"
  /\ step' = "fetch"
  /\ start' = StartLedger
  /\ cursor' = SharedCursor
  /\ UNCHANGED <<chainVars, enabled, raw, metadata, page, pages, reloads>>

FetchPage ==
  /\ step = "fetch"
  /\ StartAvailable
  /\ \E from \in Origins : \E end \in PageEnds(from) :
       page' = [cursor |-> end, events |-> PageEvents(from, end), latest |-> tip]
  /\ step' = "save_events"
  /\ UNCHANGED <<chainVars, enabled, raw, metadata, start, cursor, pages, reloads>>

\* Variant: the round goes on when the storage worker could not save.
SaveEventsUnchecked ==
  /\ step = "save_events"
  /\ raw' \in {raw, raw \cup page.events}
  /\ step' = "save_progress"
  /\ UNCHANGED <<chainVars, enabled, metadata, start, cursor, page, pages, reloads>>

\* save_events_batch: an event saved before is left alone.
SaveEvents ==
  /\ step = "save_events"
  /\ raw' = raw \cup page.events
  /\ step' = "save_progress"
  /\ UNCHANGED <<chainVars, enabled, metadata, start, cursor, page, pages, reloads>>

LastLedger(c) == IF c \in DOMAIN metadata THEN metadata[c].lastLedger ELSE 0

\* Variant: every page advances the fully indexed ledger.
IndexedOnEveryPage(c) == page.latest

\* Only an empty page advances last_fully_indexed_ledger.
IndexedLedger(c) == IF page.events = {} THEN page.latest ELSE LastLedger(c)

SaveProgress ==
  /\ step = "save_progress"
  /\ metadata' = [c \in DOMAIN metadata \cup ContractIds |->
                    IF c \in ContractIds
                    THEN [cursor |-> page.cursor, lastLedger |-> IndexedLedger(c)]
                    ELSE metadata[c]]
  /\ IF page.events = {} \/ pages + 1 = MaxPagesPerRound
     THEN EndRound
     ELSE /\ step' = "fetch" /\ cursor' = page.cursor /\ pages' = pages + 1
          /\ page' = NoPage /\ UNCHANGED start
  /\ UNCHANGED <<chainVars, enabled, raw, reloads>>

\* A call to the node or to the storage worker fails: the loop logs it and
\* starts another round 5 seconds later.
FailRound ==
  /\ step # "idle"
  /\ EndRound
  /\ UNCHANGED <<chainVars, enabled, raw, metadata, reloads>>

\* The page is closed or reloaded, with the same build or another one;
\* Indexer::init checks that the node has the ledgers it will need.
Reload ==
  /\ reloads < MaxReloads
  /\ reloads' = reloads + 1
  /\ enabled' \in {pools \in Configs : MinPoolLedger(pools) <= tip}
  /\ EndRound
  /\ UNCHANGED <<chainVars, raw, metadata>>

Next ==
  CloseLedger \/ BeginRound \/ FetchPage \/ SaveEvents \/ SaveProgress \/ FailRound \/ Reload

(***************************************************************************)
(* The loop starts a round every 5 seconds for ever (weak fairness).  A    *)
(* call may fail any number of times but not every time it is retried      *)
(* (strong fairness of the calls, an assumption on the node and storage).  *)
(***************************************************************************)
Fairness ==
  /\ WF_vars(BeginRound)
  /\ SF_vars(FetchPage) /\ SF_vars(SaveEvents) /\ SF_vars(SaveProgress)

Spec == Init /\ [][Next]_vars /\ Fairness

-----------------------------------------------------------------------------
(* Correctness.                                                            *)

Wanted == {e \in Events : chain[e].contract \in ContractIds}

(***************************************************************************)
(* "Fully caught up" is true: every event of an enabled contract up to its *)
(* last_fully_indexed_ledger is in raw_contract_events, whatever failed    *)
(* between the fetch of a page and the record of its cursor.               *)
(***************************************************************************)
CaughtUpIsComplete ==
  \A c \in Active, e \in Events :
    chain[e].contract = c /\ chain[e].ledger <= metadata[c].lastLedger => e \in raw

(***************************************************************************)
(* The processors read raw_contract_events in chain order and stop at its  *)
(* end, so events must arrive without holes: no step adds an event while   *)
(* an earlier one of the enabled contracts is missing.                     *)
(***************************************************************************)
OrderedFeed ==
  [][\A e \in raw' \ raw, f \in Wanted : f < e => f \in raw']_vars

(***************************************************************************)
(* However many calls fail and at whatever point the app is reloaded, with *)
(* whatever pools enabled, the indexer catches up with every ledger that   *)
(* closes, or its cursors diverge while a pool it never caught up with has *)
(* it replay from ledger 0, which no node serves.                          *)
(***************************************************************************)
ReplayFromZero == Cardinality(Cursors) > 1 /\ StartLedger = 0

CatchesUp ==
  \A l \in 1 .. MaxLedger :
    tip >= l ~> (\A c \in ContractIds : LastLedger(c) >= l) \/ ReplayFromZero
=============================================================================
