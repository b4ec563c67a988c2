---------------------------- MODULE IndexerProofs ----------------------------
(* Theorems about Indexer, for every value of its bounds and page sizes, as *)
(* long as all builds of the app enable the same pools.                     *)
EXTENDS Indexer, FiniteSetTheorems, SequenceTheorems, TLAPS

-----------------------------------------------------------------------------
(* The inductive invariant.                                                *)

Steps == {"idle", "fetch", "save_events", "save_progress"}

TypeInv ==
  /\ chain \in Seq([contract : Contracts, ledger : Nat])
  /\ tip \in Nat
  /\ enabled \in Configs
  /\ raw \subseteq Events
  /\ DOMAIN metadata \in {{}, ContractIds}
  /\ \A c \in DOMAIN metadata : /\ metadata[c].cursor \in 0 .. Len(chain)
                                /\ metadata[c].lastLedger \in 0 .. tip
  /\ step \in Steps
  /\ cursor \in {None} \cup 0 .. Len(chain)
  /\ page \in [cursor : 0 .. Len(chain), events : SUBSET Events, latest : 0 .. tip]

\* Events come from deployed contracts and closed ledgers.
ChainInv ==
  \A e \in Events : chain[e].ledger \in DeploymentLedger[chain[e].contract] .. tip

\* The wanted events up to a position, up to a ledger, have been saved.
Ingested(n) == \A e \in Wanted : e <= n => e \in raw
Complete(l) == \A e \in Wanted : chain[e].ledger <= l => e \in raw

MetadataInv ==
  /\ \A c \in DOMAIN metadata : /\ Ingested(metadata[c].cursor)
                                /\ Complete(metadata[c].lastLedger)
  /\ \A c, d \in DOMAIN metadata : metadata[c].cursor = metadata[d].cursor

RoundInv ==
  step # "idle" => IF cursor = None THEN start = MinPoolLedger(enabled) ELSE Ingested(cursor)

PageInv ==
  step \in {"save_events", "save_progress"} =>
    /\ \A e \in Wanted : e <= page.cursor => e \in raw \cup page.events
    /\ page.events \subseteq 1 .. page.cursor
    /\ page.events = {} => Complete(page.latest)
    /\ step = "save_progress" => page.events \subseteq raw

IInv == TypeInv /\ ChainInv /\ MetadataInv /\ RoundInv /\ PageInv

-----------------------------------------------------------------------------
(* Facts about the pieces of a step.                                       *)

\* The components of the events of a log.
LEMMA EventType ==
  ASSUME NEW log \in Seq([contract : Contracts, ledger : Nat]), NEW e \in 1 .. Len(log)
  PROVE  /\ log[e].contract \in Contracts /\ log[e].ledger \in Nat
         /\ DeploymentLedger[log[e].contract] \in Nat
<1>1. log[e] \in [contract : Contracts, ledger : Nat]
  BY ElementOfSeq
<1>2. log[e].contract \in Contracts /\ log[e].ledger \in Nat
  BY <1>1
<1>3. DeploymentLedger[log[e].contract] \in Nat
  BY <1>2, ContractAssumption
<1>4. QED
  BY <1>2, <1>3

\* What a new ledger does to the log: it grows by events of that ledger.
LEMMA LogGrows ==
  ASSUME TypeInv, CloseLedger
  PROVE  /\ chain' \in Seq([contract : Contracts, ledger : Nat])
         /\ Len(chain') \in Nat /\ Len(chain) <= Len(chain')
         /\ \A e \in Events : chain'[e] = chain[e]
         /\ \A e \in Events' \ Events :
              /\ chain'[e].ledger = tip + 1
              /\ DeploymentLedger[chain'[e].contract] <= tip + 1
<1>1. PICK s \in LedgerContents :
        /\ \A i \in DOMAIN s : DeploymentLedger[s[i]] <= tip + 1
        /\ chain' = chain \o [i \in DOMAIN s |-> [contract |-> s[i], ledger |-> tip + 1]]
  BY DEF CloseLedger
<1>2. PICK n \in Nat : s \in [1 .. n -> Contracts]
  <2>1. PICK n \in 0 .. MaxEventsPerLedger : s \in [1 .. n -> Contracts]
    BY <1>1 DEF LedgerContents
  <2>2. QED
    BY <2>1, BoundAssumption
<1> DEFINE new == [i \in DOMAIN s |-> [contract |-> s[i], ledger |-> tip + 1]]
<1>3. DOMAIN s = 1 .. n
  BY <1>2
<1>4. /\ new \in Seq([contract : Contracts, ledger : Nat])
      /\ Len(new) = n
  <2>1. new \in [1 .. n -> [contract : Contracts, ledger : Nat]]
    BY <1>2, <1>3 DEF TypeInv
  <2>2. QED
    BY <2>1
<1>5. chain \in Seq([contract : Contracts, ledger : Nat]) /\ chain' = chain \o new
  BY <1>1 DEF TypeInv
<1>6. \A i \in 1 .. n : /\ new[i].ledger = tip + 1
                        /\ new[i].contract = s[i]
                        /\ DeploymentLedger[s[i]] <= tip + 1
  BY <1>1, <1>3
<1> HIDE DEF new
<1>7. /\ Len(chain') = Len(chain) + n
      /\ chain' \in Seq([contract : Contracts, ledger : Nat])
      /\ \A e \in 1 .. Len(chain) : chain'[e] = chain[e]
      /\ \A e \in Len(chain) + 1 .. Len(chain) + n : chain'[e] = new[e - Len(chain)]
  <2> DEFINE Event == [contract : Contracts, ledger : Nat]
  <2>1. /\ chain' \in Seq(Event)
        /\ Len(chain') = Len(chain) + n
        /\ \A e \in 1 .. Len(chain) + n :
             chain'[e] = IF e <= Len(chain) THEN chain[e] ELSE new[e - Len(chain)]
    <3> HIDE DEF Event
    <3>1. chain \in Seq(Event) /\ new \in Seq(Event)
      BY <1>4, <1>5 DEF Event
    <3>2. /\ chain' \in Seq(Event)
          /\ Len(chain') = Len(chain) + Len(new)
          /\ \A e \in 1 .. Len(chain) + Len(new) :
               chain'[e] = IF e <= Len(chain) THEN chain[e] ELSE new[e - Len(chain)]
      <4> HIDE DEF new
      <4>1. QED
        BY <1>5, <3>1, ConcatProperties
    <3>3. QED
      BY <1>4, <3>2
  <2>2. Len(chain) \in Nat
    BY <1>5
  <2> HIDE DEF Event
  <2>3. ASSUME NEW e \in 1 .. Len(chain) PROVE chain'[e] = chain[e]
    BY <1>2, <2>1, <2>2
  <2>4. ASSUME NEW e \in Len(chain) + 1 .. Len(chain) + n PROVE chain'[e] = new[e - Len(chain)]
    <3>1. n \in Nat
      BY <1>2
    <3>2. e \in 1 .. Len(chain) + n /\ ~(e <= Len(chain))
      BY <2>2, <3>1
    <3>3. QED
      BY <2>1, <3>2
  <2>5. QED
    BY <2>1, <2>3, <2>4 DEF Event
<1>8. ASSUME NEW e \in Events' \ Events
      PROVE  /\ chain'[e].ledger = tip + 1
             /\ DeploymentLedger[chain'[e].contract] <= tip + 1
  <2>1. e \in Len(chain) + 1 .. Len(chain) + n /\ e - Len(chain) \in 1 .. n
    BY <1>5, <1>7 DEF Events
  <2>2. chain'[e] = new[e - Len(chain)]
    BY <1>7, <2>1
  <2>3. QED
    BY <1>6, <2>1, <2>2
<1>9. QED
  BY <1>5, <1>7, <1>8 DEF Events

\* The wanted events of the closed ledgers do not change when one closes.
LEMMA WantedGrows ==
  ASSUME TypeInv, ChainInv, CloseLedger
  PROVE  /\ Events \subseteq Events'
         /\ \A e \in Wanted' : \/ e \in Wanted /\ chain'[e] = chain[e]
                               \/ e > Len(chain) /\ chain'[e].ledger = tip + 1
<1>1. ContractIds' = ContractIds
  BY DEF CloseLedger, ContractIds
<1>2. QED
  <2>1. Len(chain) \in Nat
    BY DEF TypeInv
  <2>2. Events \subseteq Events'
    BY <2>1, LogGrows DEF Events
  <2>3. ASSUME NEW e \in Wanted', e \in Events
        PROVE  e \in Wanted /\ chain'[e] = chain[e]
    BY <1>1, <2>3, LogGrows DEF Wanted
  <2>4. ASSUME NEW e \in Wanted', e \notin Events
        PROVE  e > Len(chain) /\ chain'[e].ledger = tip + 1
    BY <2>1, <2>4, LogGrows DEF Wanted, Events
  <2>5. ASSUME NEW e \in Wanted'
        PROVE  \/ e \in Wanted /\ chain'[e] = chain[e]
               \/ e > Len(chain) /\ chain'[e].ledger = tip + 1
    BY <2>3, <2>4
  <2>6. QED
    BY <2>2, <2>5

\* Every wanted event is at or after the ledger indexing starts from.
LEMMA NothingBeforeStart ==
  ASSUME TypeInv, ChainInv, NEW e \in Wanted
  PROVE  ~ (chain[e].ledger < MinPoolLedger(enabled))
<1>1. chain[e].contract \in ContractIds /\ e \in 1 .. Len(chain) /\ e \in Events
  BY DEF Wanted, Events
<1>2. chain[e].ledger \in Nat /\ DeploymentLedger[chain[e].contract] \in Nat
  BY <1>1, EventType DEF TypeInv
<1>3. MinPoolLedger(enabled) <= DeploymentLedger[chain[e].contract]
  BY <1>1, StartAssumption DEF ContractIds, TypeInv
<1>4. DeploymentLedger[chain[e].contract] <= chain[e].ledger
  BY <1>1, <1>2 DEF ChainInv
<1> DEFINE m == MinPoolLedger(enabled)
           d == DeploymentLedger[chain[e].contract]
<1>5. m \in Nat
  BY StartAssumption DEF TypeInv
<1>6. QED
  BY <1>1, <1>2, <1>3, <1>4, <1>5

-----------------------------------------------------------------------------
(* The invariant holds initially, and every step preserves it.             *)

LEMMA InitIInv == Init => IInv
<1> SUFFICES ASSUME Init PROVE IInv
  OBVIOUS
<1>1. Events = {} /\ Wanted = {}
  BY DEF Init, Events, Wanted
<1>2. TypeInv
  BY <1>1, StartAssumption, ConfigAssumption DEF Init, TypeInv, NoPage, None, Steps, Events
<1>3. QED
  BY <1>1, <1>2 DEF Init, IInv, ChainInv, MetadataInv, RoundInv, PageInv

\* A ledger that closes adds events behind every cursor and beyond every
\* ledger the database knows of.
LEMMA CloseLedgerIInv ==
  ASSUME IInv, CloseLedger
  PROVE  IInv'
<1>1. TypeInv /\ ChainInv
  BY DEF IInv
<1>2. /\ UNCHANGED <<enabled, raw, metadata, step, start, cursor, page, pages>>
      /\ tip' = tip + 1 /\ tip \in Nat /\ ContractIds' = ContractIds
      /\ Len(chain) \in Nat /\ Len(chain') \in Nat /\ Len(chain) <= Len(chain')
  <2>1. UNCHANGED <<enabled, raw, metadata, step, start, cursor, page, pages>> /\ tip' = tip + 1
    BY DEF CloseLedger, roundVars
  <2>2. tip \in Nat /\ Len(chain) \in Nat
    BY <1>1 DEF TypeInv
  <2>3. Len(chain') \in Nat /\ Len(chain) <= Len(chain')
    BY <1>1, LogGrows
  <2>4. ContractIds' = ContractIds
    BY <2>1 DEF ContractIds
  <2>5. QED
    BY <2>1, <2>2, <2>3, <2>4
<1>3. TypeInv'
  <2>1. page' \in [cursor : 0 .. Len(chain'), events : SUBSET Events', latest : 0 .. tip']
    <3>1. page \in [cursor : 0 .. Len(chain), events : SUBSET Events, latest : 0 .. tip]
      BY <1>1 DEF TypeInv
    <3>2. /\ 0 .. Len(chain) \subseteq 0 .. Len(chain') /\ 0 .. tip \subseteq 0 .. tip'
          /\ Events \subseteq Events' /\ page' = page
      BY <1>1, <1>2, WantedGrows
    <3>3. QED
      BY <3>1, <3>2
  <2>2. \A c \in DOMAIN metadata' : /\ metadata'[c].cursor \in 0 .. Len(chain')
                                     /\ metadata'[c].lastLedger \in 0 .. tip'
    BY <1>1, <1>2 DEF TypeInv
  <2>3. cursor' \in {None} \cup 0 .. Len(chain')
    BY <1>1, <1>2 DEF TypeInv
  <2>4. raw' \subseteq Events'
    BY <1>1, <1>2, WantedGrows DEF TypeInv
  <2>5. chain' \in Seq([contract : Contracts, ledger : Nat])
    BY <1>1, LogGrows
  <2>6. QED
    BY <1>1, <1>2, <2>1, <2>2, <2>3, <2>4, <2>5 DEF TypeInv
<1>4. ChainInv'
  <2> SUFFICES ASSUME NEW e \in Events'
               PROVE  chain'[e].ledger \in DeploymentLedger[chain'[e].contract] .. tip'
    BY DEF ChainInv
  <2>1. CASE e \in Events
    <3>1. chain'[e] = chain[e]
      BY <1>1, <2>1, LogGrows
    <3>2. chain[e].ledger \in DeploymentLedger[chain[e].contract] .. tip
      BY <1>1, <2>1 DEF ChainInv
    <3>3. DeploymentLedger[chain[e].contract] \in Nat
      BY <1>1, <2>1, EventType DEF TypeInv, Events
    <3>4. QED
      BY <1>2, <3>1, <3>2, <3>3
  <2>2. CASE e \notin Events
    <3>1. chain'[e].ledger = tip + 1 /\ DeploymentLedger[chain'[e].contract] <= tip + 1
      BY <1>1, <2>2, LogGrows
    <3>2. DeploymentLedger[chain'[e].contract] \in Nat
      BY <1>1, LogGrows, EventType DEF Events
    <3>3. QED
      BY <1>2, <3>1, <3>2
  <2>3. QED
    BY <2>1, <2>2
<1>5. ASSUME NEW n \in 0 .. Len(chain), Ingested(n)
      PROVE  Ingested(n)'
  <2> SUFFICES ASSUME NEW e \in Wanted', e <= n PROVE e \in raw
    BY <1>2 DEF Ingested
  <2>1. e \in Wanted
    BY <1>1, <1>2, WantedGrows DEF Wanted, Events
  <2>2. QED
    BY <1>5, <2>1 DEF Ingested
<1>6. ASSUME NEW l \in 0 .. tip, Complete(l)
      PROVE  Complete(l)'
  <2> SUFFICES ASSUME NEW e \in Wanted', chain'[e].ledger <= l PROVE e \in raw
    BY <1>2 DEF Complete
  <2>1. e \in Wanted /\ chain'[e] = chain[e]
    BY <1>1, <1>2, WantedGrows
  <2>2. QED
    BY <1>6, <2>1 DEF Complete
<1>7. MetadataInv'
  <2>1. \A c \in DOMAIN metadata : Ingested(metadata[c].cursor)' /\ Complete(metadata[c].lastLedger)'
    BY <1>1, <1>2, <1>5, <1>6 DEF IInv, MetadataInv, TypeInv, Ingested, Complete
  <2>2. QED
    BY <1>2, <2>1 DEF IInv, MetadataInv, Ingested, Complete
<1>8. RoundInv'
  BY <1>1, <1>2, <1>5 DEF IInv, RoundInv, TypeInv, MinPoolLedger, Ingested
<1>9. PageInv'
  <2> SUFFICES ASSUME step \in {"save_events", "save_progress"}
               PROVE  /\ \A e \in Wanted' : e <= page.cursor => e \in raw \cup page.events
                      /\ page.events = {} => Complete(page.latest)'
    BY <1>2 DEF IInv, PageInv, Complete
  <2>1. ASSUME NEW e \in Wanted', e <= page.cursor
        PROVE  e \in raw \cup page.events
    <3>1. e \in Wanted
      BY <1>1, <1>2, <2>1, WantedGrows DEF TypeInv, Wanted, Events
    <3>2. QED
      BY <2>1, <3>1 DEF IInv, PageInv
  <2>2. ASSUME page.events = {}
        PROVE  Complete(page.latest)'
    <3>1. page.latest \in 0 .. tip /\ Complete(page.latest)
      BY <1>1, <2>2 DEF IInv, PageInv, TypeInv
    <3>2. QED
      BY <1>2, <1>6, <3>1 DEF Complete
  <2>3. QED
    BY <2>1, <2>2
<1>10. QED
  BY <1>3, <1>4, <1>7, <1>8, <1>9 DEF IInv

\* The steps of a round and a reload with the same pools leave alone what
\* was emitted and what is wanted of it.
SameWorld == UNCHANGED <<chain, tip, enabled>>

\* What such a step does not disturb: the type of what it leaves unchanged,
\* the facts about the log, and whatever was complete stays so as raw grows.
LEMMA SameWorldKeeps ==
  ASSUME IInv, SameWorld, raw \subseteq raw'
  PROVE  /\ Events' = Events /\ ContractIds' = ContractIds /\ Wanted' = Wanted
         /\ ChainInv'
         /\ \A n : Ingested(n) => Ingested(n)'
         /\ \A l : Complete(l) => Complete(l)'
<1>1. Events' = Events /\ ContractIds' = ContractIds
  BY DEF SameWorld, Events, ContractIds
<1>2. Wanted' = Wanted
  BY <1>1 DEF SameWorld, Wanted
<1>3. ChainInv'
  BY <1>1 DEF IInv, ChainInv, SameWorld
<1>4. ASSUME NEW n, Ingested(n) PROVE Ingested(n)'
  BY <1>2, <1>4 DEF Ingested, SameWorld
<1>5. ASSUME NEW l, Complete(l) PROVE Complete(l)'
  BY <1>2, <1>5 DEF Complete, SameWorld
<1>6. QED
  BY <1>1, <1>2, <1>3, <1>4, <1>5

\* A round begins at the cursor all the active contracts share, or from the
\* first ledger when the database knows none of them.
LEMMA BeginRoundIInv ==
  ASSUME IInv, BeginRound
  PROVE  IInv'
<1>1. TypeInv /\ MetadataInv
  BY DEF IInv
<1>2. /\ SameWorld /\ UNCHANGED <<raw, metadata, page>>
      /\ step' = "fetch" /\ start' = StartLedger /\ cursor' = SharedCursor
  BY DEF BeginRound, SameWorld, chainVars
<1>3. /\ Events' = Events /\ ContractIds' = ContractIds /\ ChainInv'
      /\ \A n : Ingested(n) => Ingested(n)'
      /\ \A l : Complete(l) => Complete(l)'
  BY <1>2, SameWorldKeeps
<1>4. IF cursor' = None
      THEN start' = MinPoolLedger(enabled)
      ELSE cursor' \in 0 .. Len(chain) /\ Ingested(cursor')
  <2>1. CASE Active = {}
    <3>1. Cardinality(Cursors) = 0
      BY <2>1, FS_EmptySet DEF Cursors
    <3>2. QED
      BY <1>2, <2>1, <3>1 DEF SharedCursor, StartLedger
  <2>2. CASE Active # {}
    <3>1. PICK c \in Active : TRUE
      BY <2>2
    <3>2. Cursors = {metadata[c].cursor}
      BY <1>1, <3>1 DEF Cursors, Active, MetadataInv
    <3>3. Cardinality(Cursors) = 1
      BY <3>2, FS_Singleton
    <3>4. cursor' = metadata[c].cursor
      BY <1>2, <3>2, <3>3 DEF SharedCursor
    <3>5. cursor' \in 0 .. Len(chain) /\ Ingested(cursor')
      BY <1>1, <3>1, <3>4 DEF Active, TypeInv, MetadataInv
    <3>6. QED
      BY <3>5 DEF None, TypeInv
  <2>3. QED
    BY <2>1, <2>2
<1>5. TypeInv'
  BY <1>1, <1>2, <1>3, <1>4 DEF TypeInv, Steps, SameWorld
<1>6. MetadataInv'
  BY <1>1, <1>2, <1>3 DEF MetadataInv
<1>7. RoundInv' /\ PageInv'
  BY <1>2, <1>3, <1>4 DEF RoundInv, PageInv, SameWorld, MinPoolLedger
<1>8. QED
  BY <1>3, <1>5, <1>6, <1>7 DEF IInv

\* A page leaves no hole between what was saved and its own end.
LEMMA FetchPageIInv ==
  ASSUME IInv, FetchPage
  PROVE  IInv'
<1>1. TypeInv /\ ChainInv /\ MetadataInv /\ RoundInv
  BY DEF IInv
<1>0. PICK from \in Origins : \E end \in PageEnds(from) :
        page' = [cursor |-> end, events |-> PageEvents(from, end), latest |-> tip]
  BY DEF FetchPage
<1>2. PICK end \in PageEnds(from) :
        page' = [cursor |-> end, events |-> PageEvents(from, end), latest |-> tip]
  BY <1>0
<1>3. /\ SameWorld /\ UNCHANGED <<raw, metadata, start, cursor>>
      /\ step = "fetch" /\ step' = "save_events"
  BY DEF FetchPage, SameWorld, chainVars
<1>4. /\ Events' = Events /\ ContractIds' = ContractIds /\ Wanted' = Wanted /\ ChainInv'
      /\ \A n : Ingested(n) => Ingested(n)'
      /\ \A l : Complete(l) => Complete(l)'
  BY <1>3, SameWorldKeeps
<1>5. Len(chain) \in Nat /\ tip \in Nat /\ Events = 1 .. Len(chain)
  BY <1>1 DEF TypeInv, Events
<1>6. end \in 0 .. Len(chain) /\ (end = Len(chain) \/ end \in PageEvents(from, end))
  <2>1. end = Len(chain) \/ end \in Pending(from)
    BY <1>2 DEF PageEnds
  <2>2. CASE end \in Pending(from)
    BY <1>5, <2>2 DEF Pending, PageEvents
  <2>3. QED
    BY <1>5, <2>1, <2>2
<1>7. PageEvents(from, end) \subseteq Events /\ PageEvents(from, end) \subseteq 1 .. end
  BY <1>5, <1>6 DEF PageEvents, Pending
<1>8. ASSUME NEW e \in Wanted, e <= from
      PROVE  e \in raw
  <2>1. CASE cursor = None
    <3>1. e \in Events /\ chain[e].ledger < start
      BY <1>8, <2>1 DEF Origins, Wanted
    <3>2. start = MinPoolLedger(enabled)
      BY <1>1, <1>3, <2>1 DEF RoundInv
    <3>3. QED
      BY <1>1, <3>1, <3>2, NothingBeforeStart
  <2>2. CASE cursor # None
    BY <1>1, <1>3, <1>8, <2>2 DEF Origins, RoundInv, Ingested
  <2>3. QED
    BY <2>1, <2>2
<1>9. ASSUME NEW e \in Wanted, e <= end
      PROVE  e \in raw \cup PageEvents(from, end)
  <2>1. from \in Int /\ e \in Int
    BY <1>1, <1>5 DEF Origins, TypeInv, Wanted
  <2>2. CASE e > from
    BY <1>9, <2>2 DEF Wanted, PageEvents, Pending
  <2>3. QED
    BY <1>8, <2>1, <2>2
<1>10. PageEvents(from, end) = {} => Complete(tip)
  BY <1>5, <1>6, <1>9 DEF Complete, Wanted
<1>11. TypeInv'
  BY <1>1, <1>2, <1>3, <1>4, <1>5, <1>6, <1>7 DEF TypeInv, Steps, SameWorld
<1>12. MetadataInv'
  BY <1>1, <1>3, <1>4 DEF MetadataInv
<1>13. RoundInv'
  BY <1>1, <1>3, <1>4 DEF RoundInv, SameWorld, MinPoolLedger
<1>14. PageInv'
  BY <1>2, <1>3, <1>4, <1>7, <1>9, <1>10 DEF PageInv
<1>15. QED
  BY <1>4, <1>11, <1>12, <1>13, <1>14 DEF IInv

\* Saving the page closes the gap up to its end.
LEMMA SaveEventsIInv ==
  ASSUME IInv, SaveEvents
  PROVE  IInv'
<1>1. TypeInv /\ MetadataInv /\ RoundInv /\ PageInv
  BY DEF IInv
<1>2. /\ SameWorld /\ UNCHANGED <<metadata, start, cursor, page>>
      /\ step = "save_events" /\ step' = "save_progress" /\ raw' = raw \cup page.events
  BY DEF SaveEvents, SameWorld, chainVars
<1>3. /\ Events' = Events /\ ContractIds' = ContractIds /\ Wanted' = Wanted /\ ChainInv'
      /\ \A n : Ingested(n) => Ingested(n)'
      /\ \A l : Complete(l) => Complete(l)'
  BY <1>2, SameWorldKeeps
<1>4. TypeInv'
  BY <1>1, <1>2, <1>3 DEF TypeInv, Steps, SameWorld
<1>5. MetadataInv'
  BY <1>1, <1>2, <1>3 DEF MetadataInv
<1>6. RoundInv'
  BY <1>1, <1>2, <1>3 DEF RoundInv, SameWorld, MinPoolLedger
<1>7. PageInv'
  BY <1>1, <1>2, <1>3 DEF PageInv
<1>8. QED
  BY <1>3, <1>4, <1>5, <1>6, <1>7 DEF IInv

\* The cursor and the fully indexed ledger are recorded behind the events.
LEMMA SaveProgressIInv ==
  ASSUME IInv, SaveProgress
  PROVE  IInv'
<1>1. TypeInv /\ ChainInv /\ MetadataInv /\ PageInv
  BY DEF IInv
<1>2. /\ SameWorld /\ UNCHANGED raw /\ step = "save_progress"
      /\ DOMAIN metadata' = DOMAIN metadata \cup ContractIds
      /\ \A c \in ContractIds :
           metadata'[c] = [cursor |-> page.cursor, lastLedger |-> IndexedLedger(c)]
  BY DEF SaveProgress, SameWorld, chainVars
<1>3. \/ step' = "idle" /\ cursor' = None /\ page' = NoPage
      \/ step' = "fetch" /\ cursor' = page.cursor /\ page' = NoPage
  BY DEF SaveProgress, EndRound
<1>4. /\ Events' = Events /\ ContractIds' = ContractIds /\ Wanted' = Wanted /\ ChainInv'
      /\ \A n : Ingested(n) => Ingested(n)'
      /\ \A l : Complete(l) => Complete(l)'
  BY <1>2, SameWorldKeeps
<1>5. DOMAIN metadata' = ContractIds
  BY <1>1, <1>2 DEF TypeInv
<1>6. page.cursor \in 0 .. Len(chain) /\ page.latest \in 0 .. tip /\ tip \in Nat
      /\ Len(chain) \in Nat
  BY <1>1 DEF TypeInv
<1>7. Ingested(page.cursor)
  BY <1>1, <1>2 DEF PageInv, Ingested
<1>8. Complete(0)
  <2> SUFFICES ASSUME NEW e \in Wanted, chain[e].ledger <= 0 PROVE FALSE
    BY DEF Complete
  <2>1. e \in Events /\ e \in 1 .. Len(chain)
    BY DEF Wanted, Events
  <2>2. chain[e].contract \in Contracts /\ chain[e].ledger \in Nat
    BY <1>1, <2>1, EventType DEF TypeInv
  <2>3. DeploymentLedger[chain[e].contract] \in Nat \ {0}
    BY <2>2, ContractAssumption
  <2>4. chain[e].ledger \in DeploymentLedger[chain[e].contract] .. tip
    BY <1>1, <2>1 DEF ChainInv
  <2>5. QED
    BY <2>2, <2>3, <2>4
<1>9. ASSUME NEW c \in ContractIds
      PROVE  IndexedLedger(c) \in 0 .. tip /\ Complete(IndexedLedger(c))
  <2>1. CASE page.events = {}
    BY <1>1, <1>2, <1>6, <2>1 DEF IndexedLedger, PageInv
  <2>2. CASE page.events # {} /\ c \in DOMAIN metadata
    BY <1>1, <2>2 DEF IndexedLedger, LastLedger, TypeInv, MetadataInv
  <2>3. CASE page.events # {} /\ c \notin DOMAIN metadata
    BY <1>6, <1>8, <2>3 DEF IndexedLedger, LastLedger
  <2>4. QED
    BY <2>1, <2>2, <2>3
<1>10. \A c \in DOMAIN metadata' : /\ metadata'[c].cursor = page.cursor
                                   /\ metadata'[c].lastLedger \in 0 .. tip
                                   /\ Complete(metadata'[c].lastLedger)
  BY <1>2, <1>5, <1>9
<1>11. TypeInv'
  <2>1. page' \in [cursor : 0 .. Len(chain'), events : SUBSET Events', latest : 0 .. tip']
    BY <1>2, <1>3, <1>6 DEF NoPage, SameWorld
  <2>2. cursor' \in {None} \cup 0 .. Len(chain') /\ step' \in Steps
    BY <1>2, <1>3, <1>6 DEF SameWorld, Steps
  <2>3. QED
    BY <1>1, <1>2, <1>4, <1>5, <1>6, <1>10, <2>1, <2>2 DEF TypeInv, SameWorld
<1>12. MetadataInv'
  BY <1>4, <1>7, <1>10 DEF MetadataInv
<1>13. RoundInv' /\ PageInv'
  BY <1>3, <1>4, <1>6, <1>7 DEF RoundInv, PageInv, None
<1>14. QED
  BY <1>4, <1>11, <1>12, <1>13 DEF IInv

\* A failed round and a reload with the same pools forget the round only.
LEMMA EndRoundIInv ==
  ASSUME IInv, SameWorld, UNCHANGED <<raw, metadata>>, EndRound
  PROVE  IInv'
<1>1. TypeInv /\ MetadataInv
  BY DEF IInv
<1>2. step' = "idle" /\ cursor' = None /\ page' = NoPage
  BY DEF EndRound
<1>3. /\ Events' = Events /\ ContractIds' = ContractIds /\ Wanted' = Wanted /\ ChainInv'
      /\ \A n : Ingested(n) => Ingested(n)'
      /\ \A l : Complete(l) => Complete(l)'
  BY SameWorldKeeps
<1>4. TypeInv'
  <2>1. page' \in [cursor : 0 .. Len(chain'), events : SUBSET Events', latest : 0 .. tip']
    BY <1>1, <1>2 DEF NoPage, SameWorld, TypeInv
  <2>2. QED
    BY <1>1, <1>2, <1>3, <2>1 DEF TypeInv, SameWorld, Steps
<1>5. MetadataInv'
  BY <1>1, <1>3 DEF MetadataInv
<1>6. RoundInv' /\ PageInv'
  BY <1>2 DEF RoundInv, PageInv
<1>7. QED
  BY <1>3, <1>4, <1>5, <1>6 DEF IInv

LEMMA StutterIInv ==
  ASSUME IInv, UNCHANGED vars
  PROVE  IInv'
<1>1. UNCHANGED <<chain, tip, enabled, raw, metadata, step, start, cursor, page>>
  BY DEF vars, chainVars, roundVars
<1>2. SameWorld /\ raw \subseteq raw'
  BY <1>1 DEF SameWorld
<1>3. /\ Events' = Events /\ ContractIds' = ContractIds /\ Wanted' = Wanted /\ ChainInv'
      /\ \A n : Ingested(n) => Ingested(n)'
      /\ \A l : Complete(l) => Complete(l)'
  BY <1>2, SameWorldKeeps
<1>4. TypeInv'
  BY <1>1, <1>3 DEF IInv, TypeInv
<1>5. MetadataInv' /\ RoundInv' /\ PageInv'
  BY <1>1, <1>3 DEF IInv, MetadataInv, RoundInv, PageInv, MinPoolLedger
<1>6. QED
  BY <1>3, <1>4, <1>5 DEF IInv

LEMMA NextIInv ==
  ASSUME IInv, [Next]_vars, \A a, b \in Configs : a = b
  PROVE  IInv'
<1>1. CASE CloseLedger
  BY <1>1, CloseLedgerIInv
<1>2. CASE BeginRound
  BY <1>2, BeginRoundIInv
<1>3. CASE FetchPage
  BY <1>3, FetchPageIInv
<1>4. CASE SaveEvents
  BY <1>4, SaveEventsIInv
<1>5. CASE SaveProgress
  BY <1>5, SaveProgressIInv
<1>6. CASE FailRound
  <2>1. SameWorld /\ UNCHANGED <<raw, metadata>> /\ EndRound
    BY <1>6 DEF FailRound, SameWorld, chainVars
  <2>2. QED
    BY <2>1, EndRoundIInv
<1>7. CASE Reload
  <2>1. enabled' = enabled
    BY <1>7 DEF Reload, IInv, TypeInv
  <2>2. SameWorld /\ UNCHANGED <<raw, metadata>> /\ EndRound
    BY <1>7, <2>1 DEF Reload, SameWorld, chainVars
  <2>3. QED
    BY <2>2, EndRoundIInv
<1>8. CASE UNCHANGED vars
  BY <1>8, StutterIInv
<1>9. QED
  BY <1>1, <1>2, <1>3, <1>4, <1>5, <1>6, <1>7, <1>8 DEF Next

-----------------------------------------------------------------------------
(* The theorems.                                                           *)

\* The inductive invariant holds of every behaviour, when every build of the
\* app enables the same pools.
THEOREM IndexerInvariant ==
  ASSUME \A a, b \in Configs : a = b
  PROVE  Spec => []IInv
<1>1. IInv /\ [Next]_vars => IInv'
  BY NextIInv
<1>2. QED
  BY <1>1, InitIInv, PTL DEF Spec

\* Whatever fails or is reloaded between the fetch of a page and the record
\* of its cursor, the database never claims to be fully caught up with a
\* ledger whose events it has not got.
THEOREM CaughtUpTheorem ==
  ASSUME \A a, b \in Configs : a = b
  PROVE  Spec => []CaughtUpIsComplete
<1>1. IInv => CaughtUpIsComplete
  BY DEF IInv, MetadataInv, CaughtUpIsComplete, Complete, Wanted, Active
<1>2. QED
  BY <1>1, IndexerInvariant, PTL

\* Events reach the processors in chain order and without holes.
THEOREM OrderedFeedTheorem ==
  ASSUME \A a, b \in Configs : a = b
  PROVE  Spec => OrderedFeed
<1>1. ASSUME IInv, [Next]_vars, NEW e \in raw' \ raw, NEW f \in Wanted, f < e
      PROVE  f \in raw'
  <2>1. SaveEvents
    <3>1. raw' # raw
      BY <1>1
    <3>2. QED
      BY <1>1, <3>1 DEF Next, vars, CloseLedger, BeginRound, FetchPage, SaveProgress,
                        FailRound, Reload
  <2>2. raw' = raw \cup page.events /\ step = "save_events"
    BY <2>1 DEF SaveEvents
  <2>3. e \in 1 .. page.cursor /\ page.cursor \in Int /\ f \in Int
    BY <1>1, <2>2 DEF IInv, PageInv, TypeInv, Wanted, Events
  <2>4. QED
    BY <1>1, <2>2, <2>3 DEF IInv, PageInv
<1>2. IInv /\ [Next]_vars => [\A e \in raw' \ raw, f \in Wanted : f < e => f \in raw']_vars
  BY <1>1
<1>3. QED
  BY <1>2, IndexerInvariant, PTL DEF Spec, OrderedFeed
=============================================================================
