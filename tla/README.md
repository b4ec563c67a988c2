# A TLA+ model of ShieldPay and its private payment pool

This directory models the repository's core: the privacy pool contract with
its commitment tree, the two association-set (ASP) contracts it consults, the
statement of the policy circuit, the browser client from chain events to a
user's notes and from a click to a transaction, the two pages it is used from, the
way of the circuits and keys to the browser, the hash all of them share, and the
payroll page.  TLC checks the models on small instances;
TLAPS proves the main results for every value of the constants.  Paths below are
relative to `src/stellar-private-payments/` unless they start with `contracts/`
or `frontend/` of the repository's root, in which case this is said.

## 1. The system

| Component | State it keeps | Operations | Talks to |
|---|---|---|---|
| Pool contract, `contracts/pool/src/pool.rs` | nullifiers, addresses of token, verifier and ASPs, admin, deposit limit | `transact`, `register` (an event only), admin updates | token (transfers), verifier, ASP contracts (roots read when `transact` runs) |
| Commitment tree, `contracts/pool/src/merkle_with_history.rs` | filled subtrees, next index, a ring of 90 roots | `init`, `insert_two_leaves`, `is_known_root` | called by the pool |
| Policy circuit, `circuits/src/policyTransaction.circom`, `merkleProof.circom`, `smt/` | none | a statement about a proof's inputs | its proofs go through the verifier contract |
| ASP membership, `contracts/asp-membership/src/lib.rs` | admin, admin-only flag, filled subtrees, root | `insert_leaf`, `update_admin`, `set_admin_insert_only` | events to the clients |
| ASP non-membership, `contracts/asp-non-membership/src/lib.rs` | admin, root, nodes of a sparse Merkle tree by hash | `insert_leaf`, `update_leaf`, `delete_leaf`, `find_key`, `verify_non_membership`, `update_admin` | read by the pool and by clients (simulated calls) |
| Groth16 verifier, `contracts/circom-groth16-verifier` | a verification key | `verify` | called by the pool |
| Event indexer, `app/crates/core/stellar/src/indexer.rs`, `rpc.rs` | cursors, in the database | a round of pages every 5 s | RPC node; storage worker, one awaited call per save |
| Database and processor, `app/crates/core/state`, `app/crates/platforms/web/src/workers/storage.rs` | raw events, derived tables, scan marks, notes, keys | requests of the main thread; a background processor woken by "kicks" | main thread (messages) |
| Client trees, `app/crates/core/prover/src/merkle.rs`, `sparse_merkle.rs` | none (rebuilt); the nodes of a sparse tree by hash | root and proofs from leaves; insert, update, find, proofs | storage worker; of the sparse tree, only tests |
| State fetcher and web client, `contract_state.rs`, `client.rs`, `app/js/stellar.js` | none but the flow in progress | snapshot of on-chain state; deposit, transfer, withdraw, transact; signing, submission, polling | RPC, both workers, the signer |
| Main page, `app/js/ui` (`navigation.js`, `onboarding-wizard.js`, `address-book.js`, `notes-table.js`) | the connected account and its public keys, the form's recipient, the submit buttons, notes and address book shown | connect, onboarding, following the account selected in Freighter, disconnect, register | Freighter; storage worker (queued requests with timeouts); forms of `transactions.js` |
| Admin page, `app/js/admin.js` | the connected account, two cached contract clients, derived keys in the forms | connect, derive keys, insert into the lists, insert-only switch | Freighter, the same database, ASP contracts |
| Prover library and worker, `app/crates/core/prover`, `workers/prover.rs` | the circuit files and keys once loaded | note encryption, transaction assembly, witness, proof and its verification | storage's answers; the site's files |
| Poseidon2, `poseidon2/`, `circuits/src/poseidon2/`, `contracts/soroban-utils/` | the state of a permutation | compression and hashes with a domain | client, circuits and contracts, which must agree |
| Circuits build, `circuits/build.rs`, `circuit-keys/` | the circomlib checkout, `OUT_DIR`, `target/circuits-artifacts`, `testdata` | compile, publish, generate keys | what it publishes goes to the ceremony, the app and the site |
| Ceremony and deployment, `tools/ceremony-cli`, `deployments/`, `app/crates/platforms/web/build.rs` | zkeys of each step, the exported key files, the deployed verifier, the served site | init, contribute, finalize, export; builds that embed the exports | prover worker, verifier contract |
| Payroll front end (repository root: `frontend/`) | batches in local storage; per view: running sends, effects and hashes, the regulator's timeline | employer, employee and regulator views | Freighter, Soroban RPC |
| Demo contracts (repository root: `contracts/`) | allow and block lists, a deposit counter | mocks | nothing |

`PROJECT.json` lists every component with its status.

What is hard here, and what makes each part right:

- **Pool.** Proofs are made long before they are submitted: roots age, other
  calls spend the same notes, ASP lists change, and calls are replayed.  A
  withdrawal is a negative amount in a finite field.  Right means: no note spent
  twice, the pool can pay every unspent note, a note moves only while its owner
  is admitted, exactly the recent roots are known.
- **Trees.** A contract keeps one node per level and never the tree; the client
  has only events; the circuit sees a path.  Right means that the three agree at
  every size, full tree included.
- **Non-membership tree.** Inserts and deletes rewrite paths in a store addressed
  by content, so removing an old path can remove what the new one needs.  Right
  means: the root depends on the contents alone, and the store has the tree.
- **Indexer.** The events of a page and its cursor are saved by two calls, each of
  which can fail or be cut off by a reload.  Right means: no holes, a true
  "fully indexed" ledger, progress in spite of failures.
- **Processor.** Four table transactions, a scan per pool and a reconciliation per
  pool, with requests in between and crashes anywhere; the same spend may be seen
  before or after its note.  Right means: the balance shown is that of the log.
- **A click.** A flow reads the chain three times and the database once, each at
  another moment, waits for an indexer that may be behind, proves, simulates and
  submits, while the chain, the lists and other flows move on; the transaction
  may be included after the flow has given up.  Right means: a witness that fits,
  nothing signed that the pool refuses unless the chain has moved, no value won or
  lost, and an end to every click.
- **The pages.** The user switches accounts in Freighter while the page connects,
  onboards, signs or waits for the worker, and the two pages share the stored keys.
  Right means: what a page shows, signs with and stores is of one account.
- **Keys and circuit files.** They travel through files only, written one by one
  by tools that may be cut short.  Right means: a proof the worker hands out is
  one the deployed verifier accepts.
- **The hash.** Three programs compute it from three layouts of the same numbers.
  Right means: the same states, round by round.
- **Payroll page.** Secrets exist in one browser only, and promises outlive the
  view that started them.  Right means: every deposit the pool took can be
  claimed, a claim is made for one employee, the timeline tells what happened.

## 2. Modules

    MerkleWithHistory <- Pool (INSTANCE PrivateLedger) <- MCPool
                             <- PoolProofs
                             <- ClientFlow <- MCClientFlow
                             ClientFlow, PoolProofs <- ClientFlowProofs
    MerkleTree <- PoolTree (INSTANCE MerkleWithHistory)  --+
               <- AspMembership                          --+-- INSTANCE in MCParts
    AspNonMembership (EXTENDS in MCParts), SparseMerkle  --+
    MCParts <- TreeProofs <- SparseProofs
    Indexer <- MCIndexer
            <- IndexerProofs
    Wallet  <- MCWallet
            <- WalletProofs
    Amounts   (INSTANCE in ClientFlow)
    Browser <- Session, AdminPage <- Pages
    Pages, Payroll <- PagesProofs
    CircuitsBuild, Release, Poseidon2 <- CircuitsProofs
    Poseidon2, CircuitsBuild, Release, Payroll, Pages <- MCTools

**MerkleWithHistory** is the tree the pool relies on: the sequence of leaves and
the ring of roots.  A root *is* the number of leaves under it, which is sound
because equal roots have equal leaves (collision resistance) and the tree only
grows.  `InsertTwoLeaves` is the whole function: tree full, index wrap, root
stored, indices advanced.

**Pool** is `transact` and `internal_transact` as one action, `Transact`, because
a Soroban call is atomic and every error makes the host discard it, the deposit
made first included: a rejected call is a stuttering step, so all checks are
guards.  `Proofs` is what a client may hold: a true statement about any root the
tree or the ASP contracts have ever had, with any external data, submitted any
number of times.  Notes stand for commitments; the nullifier of leaf `n` is `n`
(the circuit's nullifier is a function of key, commitment and leaf index, and is
injective in the leaf); a dummy input has a nullifier of its own.  The contract keeps
nullifiers as the 256 bits it is given, and the verifier reduces them to the field: a
key `<<n, k>>` of `spent` is the integer that exceeds the nullifier `n` by `k` moduli,
up to `MaxMultiple`, and one statement has a key for each `k` (disagreement 2).
`Canonical` says that all calls so far were given field elements, as every client of
this repository gives them.  Amounts keep
the field: `FieldSize`, `MaxExtAmount` and `MaxI128` are constants with the
inequalities of the code.  The admin operations of the pool and the list changes
of the ASP contracts are further actions.  An admin operation is authorised when
its caller is the admin.  The verifier is assumed to accept exactly the proofs of
true statements.

**PrivateLedger** is what the pool promises without any of that machinery: users
with private and public balances, and one action that moves amounts between them.
`Pool` has the refinement mapping: a user's private balance is the worth of the
user's unspent notes (`PrivateBalance`), the public one what the token holds.

**MerkleTree** has the hashing: `Path` is the level loop of `insert_two_leaves`
and `insert_leaf`, `Rows`, `PrefixRoot` and `PathElements` the client's
`MerklePrefixTree`, `CircuitRoot` the circuit's path check.  A hash is the pair
hashed.  **PoolTree** puts the pool's tree on it and is shown to implement
`MerkleWithHistory`; **AspMembership** is the membership contract, with the
`LeafAdded` events a client replays.

**AspNonMembership** has the node store: a hash is the tuple hashed, the store a
set of tuples.  The loops of the contract are recursive functions over levels
(`InsertClimb`, `DeleteClimb`, `UpdateClimb`) that return the nodes put and
removed, in the order of the code.  `Reference` is the tree computed from the
contents alone.  `ClientProof` is the client's conversion of `find_key`'s answer
(padding, truncation), `CircuitAccepts` the SMT circuit; `VerifyNonMembership`, the
contract's own check of `find_key`'s answer, must accept it for every absent key
(`ProofsDecideBlocking`; for the exception see section 5).  **SparseMerkle** is the
client's own tree of the same keys; what it inserts, updates and proves is
compared with the same `Reference`.

**MCParts** runs these four, one in each behaviour: they share no state, so their
product would show nothing more.  The assumptions of the modules it instantiates
are definitions there and `ASSUME`s in `MCParts`.

**Indexer** has one action between two awaits of `fetch_contract_events`:
`BeginRound` (metadata read, cursor chosen), `FetchPage`, `SaveEvents`,
`SaveProgress`; `FailRound` is any call that fails, `Reload` the page reloaded by
the same or another build, `CloseLedger` the chain.  Events are positions in the
log, cursors the position they stand behind.  `Configs` are the sets of pools that
builds enable, `FirstConfigs` those of the build a browser meets first.  `KnownSpec`
(in `MCIndexer`) lets builds disable and enable pools that already have a cursor:
cursors diverge and the next round replays from the least ledger.

**Wallet** is the storage worker.  The worker has one thread, so requests
(`SaveEvents`, `DeriveSaveUserKeys`) happen where the processor awaits a kick or
its zero timeout.  `ReadBatch` is the start of an iteration of
`process_until_empty`, `SaveTable(i)` one of the four table transactions (rows in
the reverse order of the log, as the code pops them), `OpenPool`, `Turn`
and `ClosePool` one pool's transaction of `scan_commitments_for_user_notes`, in
which the accounts take turns, a chunk each, until the quota is used or nothing is
left behind a mark, `ReconcilePool` one pool's of `reconcile_nullifiers`.  What a
scan has found is in `scan` until `ClosePool` commits it.  `Fail` is a transaction
that fails and ends the run, `Restart` the page closed at any point and opened
again with the `Ping` that kicks.  The log is ingested in order, which is what
`Indexer` is proved to provide (`OrderedFeed`).  The contracts publish what they are
given: a key of the wrong length, or a commitment, nullifier, leaf or root that is no
field element, cannot be parsed (`Unparsable`), and an event whose value has a row
already (`Alike`) adds none, for the column is UNIQUE and the insert says ON CONFLICT DO
NOTHING (`NewRows`).  Such an event is passed over, stays unprocessed and is read again
with every batch; its table has a gap there, which `get_pool_commitment_leaves_ordered`
and its counterpart for members answer with an error (`HasGap`).  An output too short to
be an encrypted note, or one with an ill-formed note for an account, makes
`try_decrypt_and_derive_user_note` fail for all accounts or for that one (`Unreadable`):
`ScanFails` takes back all the pool's turns and ends the run.  Pools are known by
numbers.  The channel of capacity 1 is a
flag: a kick that finds it full is dropped, and the one in it does the work.
`CheckAspMembership` is `check_asp_membership_precondition` for a snapshot at the
indexed ledger; at any other ledger the code answers before it reads a leaf.

**ClientFlow** extends `Pool` with one contract of each kind.  Its calls carry the
nullifiers of the clients, field elements (`Plain`, and `MaxMultiple = 0` in the run), and
its events all get a row.  A ledger holds at
most one change and `past[l]` is the chain at its close, so whatever a read
returned is known by a ledger number: `bulk` is the first read of the snapshot
(`contracts_data`), `root` the second with its drift check, `non` the
non-membership path, `db` the database when the worker answered.  The database is
four ledger numbers, as `Indexer` and `Wallet` leave it: raw events up to `saved`,
metadata up to `indexed`, tables up to `processed`, notes and spends up to `noted`.
A flow is a click (`ProveDeposit`, `ProveWithdraw`, `ProveTransfer`,
`ProveTransact`), the reads, `AskStorage` with its four kinds of answer, `Prove`,
`SignAndSend`, `Confirm`; `CallFails` is an error of any call.  `Land` is the
network's inclusion of what was sent, long after the flow ended perhaps.
`Scenarios` say what two flows ask and what others do on the chain meanwhile; the
order of everything is free.  A click is what one of the page's four forms lets
through (`DepositForm` to `TransactForm`), with the amounts the client can parse.

**Amounts** is the client's arithmetic: notes are `u128`, public amounts `i128`, the
circuit is given field elements.  Every operation is checked in the code, so an
operation without a result is a refusal; `Conserved` is the equation `flows::transact`
insists on.

**Browser** is what the two pages share: the account and network selected in
Freighter, which the user changes at any moment, and the keys stored for each
account.  A key pair is named by the account whose signatures it comes from, or is
"mixed".  **Session** is the main page, a step being what runs between two awaits:
`connect()` and `_handleWalletChange()` are one `task` with its stage, the storage
worker a queue of requests answered in order, of which some are given up on before
they are answered (`Expire`, `ServedInVain`); closing the wizard rejects its promise
and leaves a derivation under way without anybody waiting for it.  **AdminPage** is
the admin page, where nothing waits for what is under way: several `connect()`s, a
derivation with two signatures, and calls to both ASP contracts whose clients are
cached.  **Pages** lets the user go from one to the other.

**CircuitsBuild** is the build script for a circuit that ships keys, with an action
for each file written.  A file is known by the version of the sources it was made
from, a key by the number of its setup; a write may fail and the build be killed
between any two writes or in the middle of one, which leaves a `Torn` file.  An edit may
leave the circuit's own file alone: the pattern that looks for included files finds none
(section 5), so `newer`, which decides what is compiled, may then stay as it is.  **Release** follows a key on: the ceremony's zkeys, the
export into `deployments/`, the verifier and the app built on it, the circuit files
served beside the app, and the worker that fetches them, with the hashes
`web/build.rs` put into the app.  **Payroll** is the page: a send row by row that
runs on when its view is left, the employee's effect on the secret with its
asynchronous hashes, the regulator's calls and timeline, and the page closed at any
moment.  **Poseidon2** runs the permutation of the library, of the circuits and of
the contracts side by side, a round at a time, over a field and tables that are
constants.  **MCTools** runs these and `Pages`, one in each behaviour.

Definitions marked "Variant" are deliberately wrong forms of the definition after
them.  No action uses them; `PROJECT.json` names, for each property, the variant
that TLC must find violating it.

## 3. What is checked

| Run | Question | Bounds |
|---|---|---|
| `pool` | types; exact root window; `PolicyEnforced`; and, for calls given field elements, solvency, fresh nullifiers and that the pool implements `PrivateLedger` | ledger part: 8 leaves (four transactions), ring of 2, field of 13, amounts below 3, two users, one token, 3 dummies; policy part: 4 leaves, two kinds of notes, two membership contracts, admin changes, blocking and unblocking; keys part: three transactions, two kinds of notes, nullifiers up to one modulus too large |
| `parts` | contract, client and circuit agree on the pool's tree, refinement of `MerkleWithHistory`; events rebuild the member list and every member can prove it; canonical root, complete store, proofs decide blocking; the client's sparse tree agrees | depth 3 (8 leaves), ring of 3, two commitments; two members, admin changes; 4 keys of 3 bits sharing prefixes of length 0, 1 and 2, two values; a client collects 9 nodes before its last write |
| `indexer` | `CaughtUpIsComplete`, `OrderedFeed`, `CatchesUp` | two pools, one deployed later, and the ASP contract; 3 ledgers, 4 events, pages of 1, 2 pages a round, two reloads that disable and enable a pool, any number of failures |
| `wallet` | `IdleMeansUpToDate`, `SpendsAreSeen`, `TablesArePrefixes`, `MarksAreScanned`, `MembershipAnswersHold`, `EverythingIsFound` | ten logs of 3 to 5 events, three with an unparsable event (key, leaf, nullifier), two with a repeated value (in one pool and across two), two with an output that is unreadable for all or for one account; two pools, two accounts, pages and batches of 2, chunks of 1, two crashes or failures |
| `client_flow` | `WitnessesFit`, `SignedIsAccepted`, `BooksBalance`, `FlowsEnd` | fourteen scenarios of at most two clicks and three events of others; 8 leaves, ring of 2, `MaxI128` 4 (so `u128` ends at 9), amounts below 10, field of 41, two attempts at a snapshot |
| `tools` | `PublishedFilesFit`, `KeysOfOneSetup`, `ExportOfOneSetup`, `ProofsAreAccepted`, `SecretsAreKept`, `ClaimsAreOfOneEmployee`, `TimelineTellsActions`, `SettledPageFits`, `BookShowsOwnKeys`, `PageSpeaksForOneAccount`, `HashesAgree` | 2 edits, 3 builds, 2 mishaps; 2 circuits, 3 setups, 2 exports; 2 rows, 2 sends, 1 batch kept, 3 runs of the effect, 2 actions, 1 close; 2 accounts, 2 switches, 2 clicks, 1 lost call and 2 waiting requests on the main page, 4 clicks and 1 failure on the admin page, 3 clicks and switches over both; field of 7, rounds 2 + 2 + 2, widths 2 to 4, every input |
| `smt_update`, `pool_nullifiers`, `indexer_enable`, `wallet_register`, `wallet_unreadable`, `pages_keys` | disagreements found, section 6 | as the run they vary, `wallet_unreadable` without a fault; `pages_keys`: 2 accounts, 2 switches, 1 and 2 clicks |

The bounds let the interesting cases happen.  The ring of roots is smaller than
the number of roots, so it wraps and overwrites; a field of 13 with amounts below
3 is the smallest with `4 * MaxExtAmount < FieldSize`, and `MCOutputs` has the
field's minus one, so a balance that wraps would be found.  Trees are filled to
the last leaf.  The SMT's keys `0, 1, 2, 4` meet at every level, so branches
open, collapse and get promoted over more than one level.  The indexer's page
limit is reached, ledgers hold more events than a page, and a full page may end
exactly at the end of the log.  Most of the wallet's logs are as long as two batches or longer, so
a batch, a quota and a chunk are all cut in the middle of something, and spends
come in the batch of their note and in a later one.  `MaxStale` bounds the
garbage that deletes leave (section 5), `MaxReloads` and `MaxFaults` the reloads
and faults.

In `client_flow` the ring of two roots lets two transactions of others bring the
ring's index back to where it was, which is the one case the drift check of the
snapshot cannot see.  The integers are as narrow as keeps the code's order of limits:
`u128` is twice `i128` and one, the circuit's bound above it, the field four times the
bound; so a sum of two notes, a withdrawal of both and a change all meet their limit.
Its scenarios have each kind of click, withdrawals to oneself
and to another, payments to oneself and to another in one transaction, two flows
that share a note, a request that names one twice, two deposits whose first is included late, a deposit above the
maximum, sums at the limits of `i128` and `u128`, and lists that change to and fro under a flow.  In `tools` the page keeps
one batch where the code keeps eight (`Keep`), so the batch that falls off the end is
reached with two sends.  On the pages two switches suffice for an account to be left
and come back to, and two clicks for the user to disconnect and connect while a task
goes on; the wizard's clicks are not counted.  Four clicks on the admin page are two
connects and two calls, or a derivation between them.  Two mishaps let a build fail and the build that repairs it
fail as well.  A field of 7 is small enough to enumerate the inputs; its x^5 is a
permutation, and the theorem of section 4 covers every field.

Deadlock is not checked where the model really stops: a full tree takes no more
transactions, and the ASP models, the flows and the tools end at their bounds.  It is checked in
`indexer` and `wallet`, which run for ever.

`MCPool` has three parts: in "ledger" one user is admitted from the start and the other
first of all, then both pay until the tree is full; in "policy" the tree is half as
long and the admins act between any two payments; in "keys" the nullifiers of a call are
any multiple too large, and the third transaction follows two that consumed a token and
used at most one such key.  "ledger" states the full tree
before the enumeration of proofs, which removes no step, and the first two parts name the
inputs of a proof in one order only (`InputPairs`): neither the circuit nor the contract
tells them apart.  The dummies are symmetric;
no property of the run is about liveness.  The block list of `parts` runs under
`CarefulNext`: an update to
the value already stored is excluded, because it breaks the store
(`smt_update`).

### Fairness

Safety needs none, and `Pool`, the trees and the ASP contracts have no liveness:
nothing obliges anybody to call them.

- `Indexer`: weak fairness of `BeginRound`, since the loop in
  `platforms/web/src/lib.rs` starts a round every 5 s for ever; strong fairness of
  `FetchPage`, `SaveEvents` and `SaveProgress`, which is an assumption on the
  environment: the node and the database may fail any number of times, not every
  time.  That an empty page means nothing is left behind the cursor is another
  assumption on the node.
- `Wallet`: weak fairness of the processor, a task on the worker's event loop; and
  of `SaveEvents`, which the indexer sends for every page, empty ones included.
  The latter matters: after a failed transaction nothing else wakes the processor,
  and the variant that kicks for new events only fails `EverythingIsFound`.
- `ClientFlow`: weak fairness of the steps of a flow that has begun, since its
  futures are polled, `SignAndSend` included, which assumes that the user answers the
  signer's popup, with yes or no; of `SavePage` and `SaveProgress`, for the indexer's loop;
  and of `Process`, which every page wakes.  Not of a click, which nobody has to make, nor of
  `Land`: the network may drop a transaction.  `FlowsEnd` is therefore about the
  client: a "sync" answer, which is repeated every second without a limit, ends once
  indexer and processor have caught up with the snapshot, and the polling of a
  transaction never included ends after 30 s.
- `CircuitsBuild`, `Release`, `Payroll`, `Pages`, `Poseidon2`: none, their properties
  are of safety.

## 4. What is proved

`PoolProofs` (assumptions: the named `ASSUME`s of `MerkleWithHistory` and `Pool`):

| Theorem | Statement |
|---|---|
| `TypeCorrect` | `Spec => []TypeOK` |
| `RootWindow` | `Spec => []KnownRootsExact`: the known roots are those of the last `RootHistorySize` states |
| `NoDoubleSpend` | `Spec => []FreshNullifiers`: each call marks two new keys; under `Canonical` no two accepted proofs share an input |
| `PolicyHolds` | `Spec => PolicyEnforced` |
| `PoolIsSolvent` | `Spec => []Solvent`: under `Canonical` the tokens held cover the unspent notes |

`TypeOK` is inductive.  `KnownRootsExact` needs to know where in the ring each
root sits: the strengthening says that slot `i` holds the root of the last
insertion congruent to it, and an insertion overwrites exactly the oldest.
`FreshNullifiers` counts: each transaction adds two keys not in `spent`,
two because the circuit makes the nullifiers distinct, and two leaves; as long as calls
are given field elements, a key is its nullifier.  That condition is the weakest for which
the code gives the rest: `pool_nullifiers` is the counterexample without it, and
`RootWindow`, `TypeCorrect` and `PolicyHolds` do without it.  For `Solvent` the
invariant follows the tokens: a transaction replaces the tokens of the consumed
notes by those of the new ones, and the public amount moves the balance by the
difference; the argument that this difference is the integer one, not merely one
modulo the field, is where `4 * MaxExtAmount < FieldSize` is used: inputs,
outputs and the external amount are each too small for the sum to reach the field
size.  `PolicyEnforced` follows from the guard against the *current* roots and
from the circuit's check of the owner of each real input.

`IndexerProofs`, under the assumption that all builds enable the same pools:

| Theorem | Statement |
|---|---|
| `CaughtUpTheorem` | `Spec => []CaughtUpIsComplete` |
| `OrderedFeedTheorem` | `Spec => OrderedFeed` |

Neither property is inductive.  `IInv` adds that all known contracts have one
cursor and everything wanted before it is saved (`MetadataInv`); that a running
round has its cursor behind no hole, or none at all and the first ledger as its
start (`RoundInv`); that a fetched page and what is saved leave no hole before
the page's end, and an empty page proves completeness up to the tip it names
(`PageInv`); and that no event is older than its contract (`ChainInv`), which is
why starting at the oldest pool misses nothing.  The assumption on the builds is
needed: `indexer_enable` is the counterexample without it.

`PoolImplementsLedger` in `PoolProofs` is the refinement, step by step:

| Theorem | Statement |
|---|---|
| `PoolImplementsLedger` | `Spec => ImplementsLedger`: `PrivateLedger` under the mapping of `Pool`, in every step up to which calls were given field elements |

Each `Transact` is one transfer of the ledger: `TokensOfExchanged` says that the unspent
tokens of a user lose those of the inputs the user's key opens and gain those of the
outputs the user owns, the owner's check of the circuit that a debited user holds what
is taken, and the argument of `Solvent` that the public side is the integer difference.
Every other action of the pool leaves both balances alone.

`WalletProofs`, for every log, page, batch, quota and chunk (`ChainAssumption` says
what a log is: ledgers in order, a nullifier after the commitment it spends, no note
spent by two of them, which `NoDoubleSpend` provides for calls given field elements; of
events with one value all or none can be parsed):

| Theorem | Statement |
|---|---|
| `OnlyRowlessEventsAreMissing` | `Spec => []TablesArePrefixes` |
| `NothingIsLostBehindMarks` | `Spec => []MarksAreScanned` |
| `NoSpendIsMissed` | `Spec => []SpendsAreSeen` |
| `SleepsWhenDone` | `Spec => []IdleMeansUpToDate` |
| `MembershipIsOfTheSnapshot` | `Spec => []MembershipAnswersHold` |

`WalletInv` has five parts.  `DataInv`: what a table lacks of its kind up to its latest
row cannot be parsed or has its value in a row.  `NotesInv`: what lies behind an account's
mark was readable for it and, when the account's, is a note; a note has its nullifier as soon as that
one's row lies behind the pool's mark.  `TurnInv`: the same of the marks and notes a
scan has not committed, and a scan that has moved a mark knows that it did work.
`BatchInv`: what comes before an event of the batch is processed or in the batch, which
is what keeps `DataInv` over a table's transaction in the middle of a batch.
`WorkInv`: an iteration that has found nothing to do so far has left nothing behind it;
`process_until_empty` returns after such an iteration only, so a sleeping processor that
has neither a kick nor a failure has nothing to do.  The last needs all the others, and
`SleepsWhenDone` adds that notes without a spend among them are then the log's.

`CircuitsProofs`, for every number of edits, builds, mishaps, circuits, setups and
exports:

| Theorem | Statement |
|---|---|
| `CleanBuildsPublish` | `BuildSpec => []PublishedFilesFit` |
| `KeysAreOfOneSetup` | `BuildSpec => []KeysOfOneSetup` |
| `ExportsDoNotMix` | `ReleaseSpec => []ExportOfOneSetup` |
| `HandedOutIsAccepted` | `ReleaseSpec => []ProofsAreAccepted` |

`BuildInv` says, for each place a build may be at, what it has published and written so
far, and that compile and key generation count as cut short until their last file.
`ReleaseInv` follows the number of a complete export: what was built on the same one has
the same key (`BuiltOnExports`), although exports, removals and builds come in any
order, and a worker that handed out a proof has seen its circuit and key fit
(`ProofsVerified`).

`CircuitsProofs` also has the hash, for every field, number of rounds, table and input
(`FieldAssumption` gives their types):

| Theorem | Statement |
|---|---|
| `HashesAlwaysAgree` | `Spec => []HashesAgree` |

A round is a linear layer after s-boxes and constants; the three write each layer
differently (whole matrices, signals with precomputed sums, a diagonal whose
entries are one less): `ExternalLayer` and `InternalLayer` show that the sums are the
same numbers modulo the field, `FullRound` and `PartialRound` that the three take the
same constants at the same round.  The states are field elements throughout, which is what lets a reduction be left out.

`TreeProofs`, for every depth, number of leaves and length of the ring (the named
assumptions of `MerkleTree` and `MCParts`; the empty leaf is no commitment):

| Theorem | Statement |
|---|---|
| `ClientRootIsAlwaysCurrent` | `PartsSpec => []ClientRootIsCurrent` |
| `NotesAlwaysProvable` | `PartsSpec => []EveryNoteProvable` |
| `EventsAlwaysTellTheTree` | `PartsSpec => []EventsTellTheTree` |
| `MembersAlwaysProvable` | `PartsSpec => []EveryMemberProvable` |
| `TreeImplementsMerkleWithHistory` | `PartsSpec => ImplementsMerkleWithHistory` |

The library's induction theorems cannot be used, but a set of heights can be climbed:
the least height outside of it would have its predecessor inside (`Climb`).  So the
recursive functions exist (`ZeroesAre`, `FoldPathIs`, `RowsAre`), and the client's tree
has nodes, each made of two (`NodesAre`).  `NodesTellLeaves` is the heart: two nodes at
one place are equal exactly when the leaves under them are.  It gives that subtrees
beyond the last leaf are empty, that full ones survive an insertion, and that trees of
different size have different roots (`RootsAreDistinct`, where the empty leaf must be no
commitment).  `PathIsNodes` and `CircuitClimbs` walk the contract's update and the
circuit's check up the client's nodes.  What makes the properties inductive is
`FilledAre`: where the path of the next leaf turns right, the subtree the contract has
kept is the client's node on the left.  `PoolInvariant` adds that every root of the ring
is that of an earlier, even number of leaves, which is why what a root stands for does
not change.

`SparseProofs`, for every width of the keys, every set of keys and values and every
depth of the circuit; the contract's admin repeats no value (`CarefulNext`, see
disagreement 1), the client may:

| Theorem | Statement |
|---|---|
| `RootIsAlwaysCanonical` | `PartsSpec => []RootIsCanonical` |
| `StateAlwaysComplete` | `PartsSpec => []StateComplete` |
| `ProofsAlwaysDecideBlocking` | `PartsSpec => []ProofsDecideBlocking` |
| `ClientTreeAlwaysAgrees` | `PartsSpec => []ClientTreeAgrees` |

All four are about subtrees of the reference tree: `Sub(c, l, p)` is the one of the list
`c` at level `l` under the prefix `p`, empty, a leaf or two subtrees (`SubIs`), determined
by the keys under it (`SubSame`).  The inductive invariant says that the list is a map,
the root is `Sub(contents, 0, 0)` and the store is `Complete`: it has every subtree that
is not empty.  `ClientInvariant` says the same of the client's.  The rest is what an
operation does on the way of its key and beside it.  The way branches down to one level,
its `Turn`, where it finds nothing or a leaf (`TurnIs`, `EndIs`); the lookups follow it
(`LookupIs`, `FindIs`); off the way nothing changes (`OffWay`).  A climb over the
siblings of the new tree makes the new way (`ClimbsWay`), and `OpenedIs` and
`DeleteStart` say which siblings these are when a branch opens or collapses.  The store
is the hard half, for a removed node could be needed elsewhere.  Two trees share a node
only at the same place (`Positioned`), so the old way is gone from the new tree
(`WayIsGone`), and a node with a child that is not in a tree is not in it (`Fresh`): that
is why a removal in any of the three climbs, although a delete computes the old path
without the promoted sibling, takes nothing away.  `AbsentAccepted` and `PresentRefused`
are the circuit's side, stated of any list, so that contract and client share them;
`AbsentVerified` is the contract's, `verify_non_membership`.

`PagesProofs`, for every number of accounts, switches, clicks and losses; that no
address is the page's `null` is the one assumption:

| Theorem | Statement |
|---|---|
| `PageIsOfOneAccount` | `PagesSpec => []SettledPageFits` |
| `OwnRowsAreOwn` | `PagesSpec => []BookShowsOwnKeys` |
| `CallsAreOfTheConnected` | `PagesSpec => []PageSpeaksForOneAccount` |

`SessionInv` is about a page with a task under way: which fields may be of the account
before, which answers in the queue somebody waits for and for which account they were
asked (`RequestsFit`), what a signature under way is for.  Not one of these facts is
about the settled page, and each step of a task needs most of them.  `MainClosed` carries
them over a visit to the admin page, whose own invariant is that a cached client is the
connected account's unless a `connect()` ended while it was being created.

`PagesProofs` also has the payroll page, for every number of rows, sends, actions and closes:

| Theorem | Statement |
|---|---|
| `DepositsStayClaimable` | `PayrollSpec => []SecretsAreKept` |
| `ClaimsDoNotMix` | `PayrollSpec => []ClaimsAreOfOneEmployee` |
| `TimelineIsComplete` | `PayrollSpec => []TimelineTellsActions` |

The pool has rows of sends that run, are saved or were cut short only (`SendsAreKept`),
and a saved one leaves the list only when `Keep` others push it out.  For the claims,
the hashes that arrive are either of an earlier run of the effect, which is cancelled,
or of the secret typed last (`DisplayFits`).

`ClientFlowProofs`, on top of the pool's proofs, for every number of flows, any
requests, dummies, scenarios and snapshot limit:

| Theorem | Statement |
|---|---|
| `ClientEquationIsCircuitEquation` | if the checked sums have results, the client's equation in integers holds exactly when the circuit's holds in the field |
| `FlowIsTyped` | `FlowSpec => []FlowTypeOK` |
| `WitnessesAlwaysFit` | `FlowSpec => []WitnessesFit` |
| `SignedAlwaysAccepted` | `FlowSpec => []SignedIsAccepted` |
| `BooksAlwaysBalance` | `FlowSpec => []BooksBalance` |

The named assumptions of `ClientFlow` say what the chain and a form give: `u128` is
narrower than the circuit's range (`WidthAssumption`), there is a contract of each kind,
there are finitely many users, none of them called `"self"` (`PartiesAssumption`), the first notes are notes, dummies are drawn distinct, and a request has the fields of
its form with anything in them (`Request`): notes that do not exist, are another user's
or are named twice, amounts of any size.  None of the properties is inductive.
`FlowInv` has four parts.  `ChainInv` is the pool's type and solvency (`SolventInv`, its
steps cited from `PoolProofs`) and that the pool consults the two contracts.  `PastInv`:
the last entry of `past` is the chain now, and the tree only grew.  `SyncInv`: the order
of `noted`, `processed`, `saved` and the ledger.  `FlowsFit` says of each flow, by the
step it is at, what it has been told (`Told`: the tables at `db` and the snapshot have
one membership tree and, with notes, one tree of the pool, and the notes named are the
user's below its root), what the non-membership query said (`Unlisted`), and what the
prover has found (`Agreed`: the equation, distinct inputs, the user on no list).  These
are stated of a flow's record, a past and the leaves, so that one lemma, `StaysFit`,
carries them over everything others do: a longer past and more leaves leave them true.
They hold of what was sent as long as it is in flight, which is why a transaction that
lands late, after its flow has ended, still leaves the pool typed and solvent
(`LandStep`).  `AgreedIsProvable` turns them into the circuit's statement, with
`ClientEquationIsCircuitEquation` for the amounts (a split on the sign of the public
amount: nothing wraps around the modulus); `SignedAlwaysAccepted` needs solvency as
well, since the contract must hold what a withdrawal takes (`InputsCovered`).

`BooksAlwaysBalance` is about sums over sets that grow and shrink.  `SumUnfolds` shows that
the fold behind `SumFunction` is the recursion it looks like on every finite set (its
members are taken in an order `CHOOSE` fixes), `TotalIs` that the order does not matter, and
the lemmas after it what one element more or less does.  Induction goes over the subsets of
a finite set, by a smallest one outside of the set of those that are fine (`SubsetsIn`).  The
invariant, `Books`, is the equation itself with each sum taken over a function that later
leaves leave alone.  It is inductive next to `FlowInv`, which has that the notes of what is
in flight are leaves of its user's (`SentIs`), so that the worth of a request never changes
once it was sent (`SentStays`).  An accepted transaction is the one interesting step
(`LandWorth`): `NotesSpent`, `NotesAdded` and `TokensMoved` give what each user gains from
the contract's side, `GiftIs` and `GivenIs` what the request says of it, and the pool's
equation makes them equal.

The invariants were checked with TLC on the runs' instances before they were proved.
Where a proof needs a least or greatest member of a set (the last row of a chunk, the
newest leaf), it gets it from the library's well-founded order of the naturals.

Only model-checked are `CatchesUp`, `EverythingIsFound` and `FlowsEnd`: liveness is beyond
the prover.

## 5. Hazards without a property, and what the properties leave out

`PROJECT.json` lists the hazards with the properties that cover them.  Three are not
covered: a registration sent while an account change is handled, which publishes the
old account's keys for the new one (`Session` has the step and the code leaves the
window open, but no line of the repository says what it promises); ASP events older than the first pool (`StartAssumption` excludes them: the
deployment scripts deploy both together), and the leaves of a redeployed ASP
contract, whose rows collide with the old ones (`Wallet` has one ASP contract).

Some properties name a case they except, because the code does not handle it and no
line of the repository says that it should:

- `CatchesUp` excepts cursors that diverge while a pool has never been caught up
  with: the round then starts at ledger 0, which no node serves.
- `Solvent`, the second half of `FreshNullifiers` and `ImplementsLedger` are about calls
  given field elements (`Canonical`): disagreement 2 is what the code does otherwise.
- `EverythingIsFound` says nothing of a note whose event, or whose spend's, cannot be
  parsed or repeats a value: it has no row, or the other event has it.  It excepts logs
  with an unreadable output (disagreement 5), or with as many events without a row as a
  batch holds: both keep the processor from what comes after.  With a single such event
  `process_events` always has something to do, so the processor never sleeps again; and
  a gap in a table makes every later request for its tree an error.  `TablesArePrefixes`
  says that no other event is missing, `MembershipAnswersHold` excepts the leaves that
  cannot be parsed.
- `ProofsDecideBlocking` excepts, for `verify_non_membership`, an absent key whose path
  ends at a leaf of value 0: line 795 of the contract takes it for an empty subtree and
  refuses the valid proof, although the doc has it say whether the key is absent
  (line 747).
- `StateComplete` says that the store has the tree, not that it has nothing else:
  `delete_leaf` computes the old path without the promoted sibling (lines 559, 585) and
  leaves the real old nodes in it.
- `WitnessesFit` excepts a request that names a note twice, which two clicks on its Use
  button make: the circuit refuses it, and the flow ends with an error.
- `ClaimsAreOfOneEmployee` excepts a claim started while the hashes of the secret
  are pending or have failed: the view keeps the last ones (`late`).
- `SecretsAreKept` excepts sends cut short by closing the page, and batches pushed
  out by `Keep` later ones.  Local storage is assumed to accept the write.
- `TimelineTellsActions` excepts a view that was left before the answer.  It says
  nothing of actions the contract did not take: an error is noted like a success, as a
  demo entry.  Two tabs, which overwrite each other's timeline, are not modelled.
- `PublishedFilesFit` and `KeysOfOneSetup` except a last compile or key generation that
  was itself cut short, a torn file included, which the next build takes for up to date.
  The files may be of older sources than those on disk: an edit of an included file is
  never noticed, for the pattern at `circuits/build.rs:403` begins with `^` and is not
  multi-line, although the comment at lines 207-209 says that included files count.  The
  properties are about files that fit each other and do not depend on it.  A build killed between `git init` and `git remote add` leaves
  a checkout no later build can repair; an edit between parsing and the writing of the
  r1cs makes the r1cs newer than the edit, and the next build skips it.
- `Finalize` verifies nothing; `ProofsAreAccepted` holds all the same because the
  worker verifies every proof before it hands it out.
- `PageSpeaksForOneAccount` excepts calls that the end of a `connect()` crosses, and the
  later calls of a client whose creation it crossed: that client stays cached, with the
  old account, for the new one, and the network refuses its calls.
- `SettledPageFits` and `BookShowsOwnKeys` are about a page with no task under way.  The
  notes table may show the notes of the account before until its next refresh.
- In `Release` and `ClientFlow` a worker whose files failed to load answers no request;
  in the code the main thread's pings to it go on for ever.

## 6. Disagreements found

1. `smt_update`: `update_leaf` with the value already stored puts the new path and
   then removes it as the old one; the tree is gone from the store.
2. `pool_nullifiers`: the contract looks nullifiers up as the integers it is given, the
   verifier reduces them; a nullifier and the nullifier plus the modulus are two keys
   and one statement, so the check that prevents double-spending does not see the note.
3. `indexer_enable`: a newly enabled pool inherits the cursor of the others; its
   earlier events are never fetched, and it is then marked fully indexed.
4. `wallet_register`: while the first leaf events are saved but unprocessed, a
   registered user is told to register instead of to wait.
5. `wallet_unreadable`: an output that is too short, or an ill-formed note, gives an
   error where the comment in `notes.rs` has `Ok(None)`; the scan is taken back and the
   processor's run ends, at every attempt.
6. `pages_keys`: the admin page lets Freighter sign with whichever account is selected
   and stores the keys as the connected account's; the main page then uses them, and
   the account's own signatures do not derive them again.

## 7. Not modelled, and why

- Cryptography: hashes are injective, proofs are of true statements, who can decrypt
  a note is part of the log.  The pairing check of the verifier, note encryption and
  the arithmetisation of the circuits are out of TLC's reach.
- Tables of constants (about thirteen thousand lines): the round constants are one
  constant of `Poseidon2`.  Those of the circuits, the library's bn256 and the contracts
  are the same numbers, compared outside TLC; in the contracts' table of width 2 a row of
  a partial round lacks a second entry, which is never used.  The other fields and the
  widths above 4 are used by nothing.
- XDR and event decoding (only which events are refused), gas and storage rents, the witness calculator, logging.
- The demo contracts: nothing calls them, the front end addresses the contracts of
  `stellar-private-payments`.  Two declare a test module whose file is missing, so their
  tests do not build, and their pool is a mock that checks nothing.
- UI templates, previews and polled views of the chain, which only show what they read;
  CSV parsing, the editing of rows.
- Selective disclosure: a circuit whose proofs only its test makes.
- Of the database: the listing of recent activity.

## 8. Plan

Done: the pool, its trees and ASP contracts, the indexer, the wallet, the flows of
the client with their integers, the two pages, the tools around the keys, the payroll
page, the hash.

Left, in this order:

1. `Wallet` with several ASP contracts, for the hazard of section 5.
2. The polled views of the chain (`onchain-state.js`, `pool-events.js`), as readers of
   what `Indexer` and `Wallet` keep.
