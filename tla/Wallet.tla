------------------------------- MODULE Wallet -------------------------------
(***************************************************************************)
(* The local state of the browser client                                   *)
(* (app/crates/core/state, app/crates/platforms/web/src/workers/storage.rs) *)
(* The storage worker is one thread: it answers requests, and a processor  *)
(* turns raw events into tables and tables into the notes of the user's    *)
(* accounts, in small transactions between which the page may be closed or *)
(* the database fail; requests come in where the processor awaits.         *)
(*                                                                         *)
(* An event is its position in the chain's log.  The log is fixed at the   *)
(* start and ingested page by page in its order (Indexer!OrderedFeed); a   *)
(* table row is known by its event, its row id is its position.            *)
(***************************************************************************)
EXTENDS Integers, FiniteSets, Sequences

CONSTANTS
  Accounts,     \* accounts whose keys may be derived in this browser
  Pools,        \* pools, known by their contract ids
  Chains,       \* logs considered: [kind, pool, who, of, ledger, ok, first, bad]
  PageSize,     \* events saved by one request, at most
  FetchLimit,   \* FETCH_LIMIT
  AccountChunk, \* ACCOUNT_CHUNK
  MaxFaults     \* bound on the crashes and database failures

\* The tables in the order process_events fills them.
Kinds == <<"nullifier", "commitment", "key", "leaf">>

KindSet == {Kinds[i] : i \in DOMAIN Kinds}

\* A nullifier names in "of" the commitment it spends, or 0 for a dummy note;
\* a commitment and a leaf name in "who" the account they belong to, if any.
\* The contracts publish what they are given: an event is ok when its values
\* are field elements and its keys have the length of keys; "first" is the
\* first event of its kind with its value, for notes can have equal secrets
\* (and nullifiers, in two pools); "bad" are the accounts for which reading
\* the output gives an error, all if it is too short for an encrypted note,
\* one if it has an ill-formed note encrypted to that account.
ASSUME ChainAssumption ==
  \A log \in Chains :
    /\ Len(log) \in Nat /\ DOMAIN log = 1 .. Len(log)
    /\ \A e \in DOMAIN log :
         /\ log[e].kind \in KindSet
         /\ log[e].kind \in {"nullifier", "commitment"} => log[e].pool \in Pools
         /\ log[e].ledger \in Nat /\ (e > 1 => log[e - 1].ledger <= log[e].ledger)
         /\ log[e].kind = "nullifier" => log[e].of \in Nat
         /\ log[e].kind = "nullifier" /\ log[e].of # 0 =>
              /\ log[e].of < e /\ log[log[e].of].kind = "commitment"
              /\ log[log[e].of].pool = log[e].pool
              /\ \A d \in 1 .. e - 1 : log[d].kind = "nullifier" => log[d].of # log[e].of
         /\ log[e].first \in 1 .. e /\ log[log[e].first].first = log[e].first
         /\ log[log[e].first].kind = log[e].kind /\ log[log[e].first].ok = log[e].ok
         /\ log[e].kind \in {"key", "leaf"} => log[e].first = e
         /\ log[e].kind = "commitment" => log[e].who \notin log[e].bad
ASSUME PoolsAssumption == Pools \subseteq Nat /\ IsFiniteSet(Pools)
ASSUME LimitAssumption ==
  /\ FetchLimit \in Nat \ {0} /\ AccountChunk \in Nat \ {0}
  /\ PageSize \in Nat \ {0} /\ MaxFaults \in Nat

VARIABLES
  chain,     \* the log
  ingested,  \* raw_contract_events: the log up to here
  tables,    \* table -> its rows
  accounts,  \* accounts with keys, in the order of their ids
  scanMark,  \* account_commitment_scan: pool -> account -> last row scanned
  nullMark,  \* nullifier_scan_state: pool -> last row reconciled
  notes,     \* user_notes: commitment -> [account, nullifier (0: none)]
  kicked,    \* a message waits in the processor's channel
  phase,     \* what the processor does next
  batch,     \* events it has read
  todo,      \* pools left in scan_commitments or reconcile_nullifiers
  scan,      \* the transaction in which a pool is scanned
  didWork,   \* did_raw or did_notes of the iteration
  failed,    \* the last run ended with an error
  faults

db == <<tables, scanMark, nullMark, notes>>
processor == <<phase, batch, todo, scan, didWork, failed>>
vars == <<chain, ingested, accounts, db, kicked, processor, faults>>

Rows(kind) == DOMAIN tables[kind]
Stored(kind) == {tables[kind][r] : r \in Rows(kind)}

Largest(S) == CHOOSE n \in S : \A m \in S : m <= n
Lesser(m, n) == IF m < n THEN m ELSE n

\* ORDER BY ... LIMIT k, a set of one: the k least members of S, or all.
Firsts(k, S) ==
  {T \in SUBSET S : /\ Cardinality(T) = Lesser(k, Cardinality(S))
                    /\ \A n \in T, m \in S \ T : n < m}

\* The members of S from the largest to the least, a set of one.
Descending(S) ==
  {q \in [1 .. Cardinality(S) -> S] :
     /\ \A i, j \in 1 .. Cardinality(S) : i < j => q[j] < q[i]
     /\ \A e \in S : \E i \in 1 .. Cardinality(S) : q[i] = e}

\* parse_event gives an error.
Unparsable(e) == ~chain[e].ok

\* Events of a kind with the same value, which is UNIQUE in the kind's table.
Alike(d, e) == chain[d].kind = chain[e].kind /\ chain[d].first = chain[e].first

\* try_decrypt_and_derive_user_note gives the account an error.
Unreadable(e, a) == a \in chain[e].bad

\* Outside of a transaction.
NoScan == [pool |-> 0, quota |-> 0, mark |-> <<>>, notes |-> <<>>, next |-> 0, worked |-> FALSE]

Init ==
  /\ chain \in Chains
  /\ ingested = 0
  /\ tables = [kind \in KindSet |-> <<>>]
  /\ accounts = <<>>
  /\ scanMark = [p \in Pools |-> [a \in Accounts |-> 0]]
  /\ nullMark = [p \in Pools |-> 0]
  /\ notes = [e \in {} |-> [account |-> "", nullifier |-> 0]]
  /\ kicked = TRUE
  /\ phase = "idle" /\ batch = {} /\ todo = {} /\ scan = NoScan /\ didWork = FALSE
  /\ failed = FALSE /\ faults = 0

-----------------------------------------------------------------------------
(* Requests, answered while the processor awaits a message or a timeout.   *)

Awaiting == phase \in {"idle", "yield"}

\* Variant: the processor is told of new events only.
SaveEventsKickIfNew ==
  /\ Awaiting
  /\ \E n \in 0 .. Lesser(PageSize, Len(chain) - ingested) :
       ingested' = ingested + n /\ kicked' = (kicked \/ n > 0)
  /\ UNCHANGED <<chain, accounts, db, processor, faults>>

\* A page of the indexer, which may be empty.
SaveEvents ==
  /\ Awaiting
  /\ \E n \in 0 .. Lesser(PageSize, Len(chain) - ingested) : ingested' = ingested + n
  /\ kicked' = TRUE
  /\ UNCHANGED <<chain, accounts, db, processor, faults>>

\* Deriving the keys of an account again gives the same keys.
DeriveSaveUserKeys ==
  /\ Awaiting
  /\ \E a \in Accounts \ {accounts[i] : i \in DOMAIN accounts} : accounts' = Append(accounts, a)
  /\ kicked' = TRUE
  /\ UNCHANGED <<chain, ingested, db, processor, faults>>

-----------------------------------------------------------------------------
(* The processor: process_until_empty, an action for each transaction.     *)

Processed == UNION {Stored(kind) : kind \in KindSet}
Left == (1 .. ingested) \ Processed

\* Variant: the latest events first.
LatestUnprocessed ==
  {T \in SUBSET Left : /\ Cardinality(T) = Lesser(FetchLimit, Cardinality(Left))
                       /\ \A e \in T, d \in Left \ T : d < e}

Unprocessed == Firsts(FetchLimit, Left)

\* The pools a table has rows of.
PoolsIn(kind) == {p \in Pools : \E e \in Stored(kind) : chain[e].pool = p}

ScanPools == IF accounts = <<>> THEN {} ELSE PoolsIn("commitment")

\* The next iteration begins, with process_events.
ReadBatch ==
  /\ \/ phase = "idle" /\ kicked /\ kicked' = FALSE
     \/ phase = "yield" /\ UNCHANGED kicked
  /\ batch' \in Unprocessed
  /\ didWork' = (batch' # {})
  /\ IF batch' # {}
     THEN phase' = Kinds[1] /\ UNCHANGED todo
     ELSE phase' = "scan" /\ todo' = ScanPools
  /\ failed' = FALSE
  /\ UNCHANGED <<chain, ingested, accounts, db, scan, faults>>

\* The rows a batch adds to a table: ON CONFLICT DO NOTHING keeps of several
\* events with one value the row that is there or is inserted first.
NewRows(kind) ==
  {e \in batch : /\ chain[e].kind = kind /\ ~Unparsable(e)
                 /\ \A d \in Stored(kind) : ~Alike(d, e)
                 /\ \A d \in batch : Alike(d, e) => d <= e}

\* One table's share of the batch, in the reverse order of the log; an event
\* that cannot be parsed or gets no row is passed over and stays unprocessed.
SaveTable(i) ==
  /\ phase = Kinds[i]
  /\ \E new \in Descending(NewRows(Kinds[i])) : tables' = [tables EXCEPT ![Kinds[i]] = @ \o new]
  /\ IF i < Len(Kinds)
     THEN phase' = Kinds[i + 1] /\ UNCHANGED <<batch, todo>>
     ELSE phase' = "scan" /\ batch' = {} /\ todo' = ScanPools
  /\ UNCHANGED <<chain, ingested, accounts, scanMark, nullMark, notes, kicked, scan, didWork,
                 failed, faults>>

\* The next pool in the order of the contract ids.
IsNext(p) == p \in todo /\ \A q \in todo : p <= q

\* The quota of the pool whose turn it is.
Quota ==
  LET count == Cardinality(ScanPools)
      index == count - Cardinality(todo) + 1
  IN IF FetchLimit < count THEN 1
     ELSE (FetchLimit \div count) + (IF index <= FetchLimit % count THEN 1 ELSE 0)

\* A transaction for the next pool.
OpenPool(p) ==
  /\ phase = "scan" /\ IsNext(p)
  /\ phase' = "turns" /\ todo' = todo \ {p}
  /\ scan' = [pool |-> p, quota |-> Quota, mark |-> scanMark[p], notes |-> notes,
              next |-> 1, worked |-> FALSE]
  /\ UNCHANGED <<chain, ingested, accounts, db, kicked, batch, didWork, failed, faults>>

\* Variant: the scan leaves nullifiers to reconcile_nullifiers.
NoNullifier(e) == 0

\* The nullifier of a commitment, when its row is already there.
NullifierOf(e) ==
  IF \E n \in Stored("nullifier") : chain[n].of = e
  THEN CHOOSE n \in Stored("nullifier") : chain[n].of = e
  ELSE 0

\* Variant: the mark moves to the end of the table.
NewMarkAtEnd(taken) == Len(tables["commitment"])

NewMark(taken) == Largest(taken)

\* The pool's rows behind an account's mark.
Behind(a) ==
  {r \in Rows("commitment") :
     chain[tables["commitment"][r]].pool = scan.pool /\ r > scan.mark[a]}

\* The accounts take turns until the quota is used or nothing is left.
Done == scan.quota = 0 \/ \A i \in DOMAIN accounts : Behind(accounts[i]) = {}

\* Variant: the query has no order.
AnyChunk(a) ==
  {T \in SUBSET Behind(a) :
     Cardinality(T) = Lesser(Lesser(scan.quota, AccountChunk), Cardinality(Behind(a)))}

Chunk(a) == Firsts(Lesser(scan.quota, AccountChunk), Behind(a))
Unreadables(taken, a) == {r \in taken : Unreadable(tables["commitment"][r], a)}

\* An account's turn: a chunk of the rows behind its mark, and the notes among
\* them it can decrypt.
Turn(a) ==
  /\ phase = "turns" /\ ~Done /\ a = accounts[scan.next]
  /\ \E taken \in Chunk(a) :
       LET mine == {e \in {tables["commitment"][r] : r \in taken} : chain[e].who = a}
       IN /\ Unreadables(taken, a) = {}
          /\ scan' =
               [pool |-> scan.pool,
                quota |-> scan.quota - Cardinality(taken),
                mark |-> IF taken = {} THEN scan.mark
                         ELSE [scan.mark EXCEPT ![a] = NewMark(taken)],
                notes |-> [e \in DOMAIN scan.notes \union mine |->
                             IF e \in DOMAIN scan.notes THEN scan.notes[e]
                             ELSE [account |-> a, nullifier |-> NullifierOf(e)]],
                next |-> IF scan.next < Len(accounts) THEN scan.next + 1 ELSE 1,
                worked |-> scan.worked \/ taken # {}]
  /\ UNCHANGED <<chain, ingested, accounts, db, kicked, phase, batch, todo, didWork, failed, faults>>

\* The transaction is committed.
ClosePool ==
  /\ phase = "turns" /\ Done
  /\ phase' = "scan" /\ scan' = NoScan
  /\ scanMark' = [scanMark EXCEPT ![scan.pool] = scan.mark]
  /\ notes' = scan.notes
  /\ didWork' = (didWork \/ scan.worked)
  /\ UNCHANGED <<chain, ingested, accounts, tables, nullMark, kicked, batch, todo, failed, faults>>

Stop == phase' = "idle" /\ batch' = {} /\ todo' = {} /\ scan' = NoScan /\ didWork' = FALSE

\* An output that gives an error takes back the pool's scan and ends the run.
ScanFails(a) ==
  /\ phase = "turns" /\ ~Done /\ a = accounts[scan.next]
  /\ \E taken \in Chunk(a) : Unreadables(taken, a) # {}
  /\ Stop /\ failed' = TRUE
  /\ UNCHANGED <<chain, ingested, accounts, db, kicked, faults>>

EndScan ==
  /\ phase = "scan" /\ todo = {}
  /\ phase' = "reconcile" /\ todo' = PoolsIn("nullifier")
  /\ UNCHANGED <<chain, ingested, accounts, db, kicked, batch, scan, didWork, failed, faults>>

\* reconcile_nullifiers, one pool.
ReconcilePool(p) ==
  /\ phase = "reconcile" /\ IsNext(p) /\ todo' = todo \ {p}
  /\ \E taken \in Firsts(FetchLimit, {r \in Rows("nullifier") :
                     chain[tables["nullifier"][r]].pool = p /\ r > nullMark[p]}) :
       LET spends(e) == {n \in {tables["nullifier"][r] : r \in taken} : chain[n].of = e}
       IN /\ notes' = [e \in DOMAIN notes |->
                         IF notes[e].nullifier = 0 /\ spends(e) # {}
                         THEN [notes[e] EXCEPT !.nullifier = Largest(spends(e))]
                         ELSE notes[e]]
          /\ nullMark' = [nullMark EXCEPT ![p] = IF taken = {} THEN @ ELSE Largest(taken)]
          /\ didWork' = (didWork \/ taken # {})
  /\ UNCHANGED <<chain, ingested, accounts, tables, scanMark, kicked, phase, batch, scan, failed, faults>>

\* Another iteration after a timeout of 0, or the end of the run.
EndIteration ==
  /\ phase = "reconcile" /\ todo = {}
  /\ phase' = IF didWork THEN "yield" ELSE "idle"
  /\ didWork' = FALSE
  /\ UNCHANGED <<chain, ingested, accounts, db, kicked, batch, todo, scan, failed, faults>>

\* A transaction fails: the run ends, the error is logged.
Fail ==
  /\ ~Awaiting
  /\ faults < MaxFaults /\ faults' = faults + 1
  /\ Stop /\ failed' = TRUE
  /\ UNCHANGED <<chain, ingested, accounts, db, kicked>>

\* The page is closed and opened again: its first request is a Ping, which
\* kicks the processor.
Restart ==
  /\ faults < MaxFaults /\ faults' = faults + 1
  /\ Stop /\ failed' = FALSE /\ kicked' = TRUE
  /\ UNCHANGED <<chain, ingested, accounts, db>>

Next ==
  \/ SaveEvents \/ DeriveSaveUserKeys
  \/ ReadBatch \/ \E i \in DOMAIN Kinds : SaveTable(i)
  \/ \E p \in Pools : OpenPool(p) \/ ReconcilePool(p)
  \/ \E a \in Accounts : Turn(a) \/ ScanFails(a)
  \/ ClosePool \/ EndScan \/ EndIteration
  \/ Fail \/ Restart

(***************************************************************************)
(* The worker's event loop runs the processor's task (weak fairness of     *)
(* each of its steps), and the indexer saves a page, empty or not, every   *)
(* 5 seconds (weak fairness of SaveEvents).                                *)
(***************************************************************************)
Fairness ==
  /\ WF_vars(ReadBatch \/ (\E i \in DOMAIN Kinds : SaveTable(i))
             \/ (\E p \in Pools : OpenPool(p) \/ ReconcilePool(p))
             \/ (\E a \in Accounts : Turn(a) \/ ScanFails(a))
             \/ ClosePool \/ EndScan \/ EndIteration)
  /\ WF_vars(SaveEvents)

Spec == Init /\ [][Next]_vars /\ Fairness

-----------------------------------------------------------------------------
(* Questions the client asks of the tables.                                *)

\* Leaves are ordered by the index their event gives them, that of their
\* position among the leaf events of the log, and a leaf's row has the root
\* its event gives: a root is known by the leaves under it.
LeafEvents(n) == {e \in 1 .. n : chain[e].kind = "leaf"}
RootAt(ledger) == {e \in LeafEvents(Len(chain)) : chain[e].ledger <= ledger}

\* get_all_asp_membership_leaves_ordered.
LocalLeaves == Stored("leaf")

IndexOf(a) == {e \in LocalLeaves : chain[e].who = a}

\* It gives an error instead when the indices of the rows do not run from 0.
HasGap == \E e \in LocalLeaves : \E d \in LeafEvents(e) : d \notin LocalLeaves

\* Variant: the tree is not compared with the chain's.
CheckUnrooted(a, root, ledger) ==
  IF IndexOf(a) # {} THEN "user_index" ELSE "register"

\* check_asp_membership_precondition when the indexer is at the ledger of the
\* snapshot; in any other case it answers before it looks at the leaves.
CheckAspMembership(a, root, ledger) ==
  IF LocalLeaves = {} THEN "register"
  ELSE IF LeafEvents(Largest(LocalLeaves)) # root
       THEN IF chain[Largest(LocalLeaves)].ledger < ledger THEN "sync_required" ELSE "error"
       ELSE IF IndexOf(a) # {} THEN "user_index" ELSE "register"

\* The ledgers last_fully_indexed_ledger may be at (Indexer!CaughtUpIsComplete).
FullyIndexed ==
  {ledger \in 0 .. chain[Len(chain)].ledger + 1 :
     \A e \in DOMAIN chain : chain[e].ledger <= ledger => e <= ingested}

-----------------------------------------------------------------------------
(* Correctness.                                                            *)

Active == {accounts[i] : i \in DOMAIN accounts}

\* The notes of an account, and those of them it has not spent, on the log
\* as far as it was ingested.
NotesOf(a) == {e \in 1 .. ingested : chain[e].kind = "commitment" /\ chain[e].who = a}
Spent == {chain[n].of : n \in {n \in 1 .. ingested : chain[n].kind = "nullifier"}}
Shown(a) == {e \in DOMAIN notes : notes[e].account = a /\ notes[e].nullifier = 0}

(***************************************************************************)
(* A processor that has gone to sleep has left nothing undone: the balance *)
(* shown is that of the log, whatever was saved, derived or restarted      *)
(* while it worked and whatever chunks and quotas cut the work into.       *)
(***************************************************************************)
IdleMeansUpToDate ==
  phase = "idle" /\ ~kicked /\ ~failed =>
    \A a \in Active : Shown(a) = NotesOf(a) \ Spent

(***************************************************************************)
(* Nothing is lost behind a mark: every note an account's mark has passed  *)
(* is among its notes, however the accounts' chunks and the pools' quotas  *)
(* cut the table, whichever transaction was taken back and whichever       *)
(* account's keys came late.                                               *)
(***************************************************************************)
MarksAreScanned ==
  \A r \in Rows("commitment"), a \in Accounts :
    LET e == tables["commitment"][r]
    IN r <= scanMark[chain[e].pool][a] /\ chain[e].who = a => e \in DOMAIN notes

(***************************************************************************)
(* An output that is not an account's note does not stop its scan: a run   *)
(* ends with an error only when the database has failed.                   *)
(***************************************************************************)
OnlyFaultsEndARun == failed => faults > 0

(***************************************************************************)
(* A spent note does not stay unspent: when a note has no nullifier and    *)
(* the nullifier has a row, reconcile_nullifiers has not passed that row.  *)
(***************************************************************************)
SpendsAreSeen ==
  \A e \in DOMAIN notes, r \in Rows("nullifier") :
    notes[e].nullifier = 0 /\ chain[tables["nullifier"][r]].of = e => r > nullMark[chain[e].pool]

(***************************************************************************)
(* Merkle trees are rebuilt from the tables: at any moment, after any      *)
(* crash between the four transactions, what a table lacks of the log up   *)
(* to its latest row are the events that never get a row there, those that *)
(* cannot be parsed and those whose value has a row already.               *)
(***************************************************************************)
TablesArePrefixes ==
  \A i \in DOMAIN Kinds : \A e \in Stored(Kinds[i]) : \A d \in 1 .. e :
    chain[d].kind = Kinds[i] => \/ Unparsable(d)
                                \/ \E c \in Stored(Kinds[i]) : Alike(c, d)

(***************************************************************************)
(* A membership proof is built only from leaves that make the root of the  *)
(* snapshot, and a user of whom the leaves that can be parsed say so is    *)
(* told.                                                                   *)
(***************************************************************************)
MembershipAnswersHold ==
  Awaiting => \A ledger \in FullyIndexed, a \in Accounts :
    LET answer == CheckAspMembership(a, RootAt(ledger), ledger)
    IN /\ answer = "user_index" /\ ~HasGap => LocalLeaves = RootAt(ledger)
       /\ answer = "register" /\ LocalLeaves # {} =>
            \A e \in RootAt(ledger) : chain[e].who = a => Unparsable(e)

(***************************************************************************)
(* A user is told to register only when the chain has no leaf of his.      *)
(***************************************************************************)
RegisterOnlyStrangers ==
  Awaiting => \A ledger \in FullyIndexed, a \in Accounts :
    CheckAspMembership(a, RootAt(ledger), ledger) = "register" =>
      \A e \in RootAt(ledger) : chain[e].who # a

(***************************************************************************)
(* Every note that is ingested is found, and every spend of it, however    *)
(* often the page is closed or the database fails in between: provided     *)
(* that its event can be parsed and no other has its value, that no output *)
(* gives an error, and that the events that get no row do not fill a       *)
(* batch, for they are read again with each.                               *)
(***************************************************************************)
Single(e) == ~Unparsable(e) /\ \A d \in DOMAIN chain : Alike(d, e) => d = e

Digestible ==
  /\ \A e \in DOMAIN chain : chain[e].bad = {}
  /\ Cardinality({e \in DOMAIN chain : Unparsable(e) \/ chain[e].first # e}) < FetchLimit

SpendOf(e) == {n \in 1 .. ingested : chain[n].kind = "nullifier" /\ chain[n].of = e /\ Single(n)}

EverythingIsFound ==
  Digestible => \A a \in Accounts : \A e \in 1 .. Largest({Len(log) : log \in Chains}) :
    a \in Active /\ e \in NotesOf(a) /\ Single(e) ~>
      e \in DOMAIN notes /\ (SpendOf(e) # {} => notes[e].nullifier # 0)
=============================================================================
