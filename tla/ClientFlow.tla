----------------------------- MODULE ClientFlow -----------------------------
(***************************************************************************)
(* From a click on Deposit, Withdraw, Transfer or Transact to the ledger:  *)
(* the web client (app/crates/platforms/web/src/client.rs) reads the chain *)
(* three times, asks the storage worker for witness inputs, waits while    *)
(* the indexer is behind, proves, simulates, signs, submits and polls,     *)
(* while other transactions, the ASP contracts, the indexer and the event  *)
(* processor go on.                                                        *)
(*                                                                         *)
(* The chain is module Pool with one contract of each kind.  A ledger      *)
(* holds at most one change, and past[l] is the chain's state at the close *)
(* of ledger l: whatever a read has returned, and whatever the database    *)
(* holds, is known by the number of the ledger it shows.  The database is  *)
(* as the modules Indexer and Wallet leave it: tables that hold everything *)
(* up to a ledger, notes found and spends seen up to an earlier one.  Keys *)
(* are derived before the click.                                           *)
(***************************************************************************)
EXTENDS Pool, Functions

CONSTANTS
  Flows,      \* clicks, each worth one flow
  DummyOf,    \* flow -> the nullifiers of the dummies it may draw
  Scenarios,  \* [asks: flow -> request, outside: what others do, in order]
  FirstNotes, \* the two notes in the pool at the start
  FirstSpent, \* the two dummies of the deposit that made them
  MaxSnapshotAttempts \* MAX_SNAPSHOT_ATTEMPTS

VARIABLES
  scenario,   \* the one that takes place
  happened,   \* events of scenario.outside so far
  past,       \* ledger -> [next, members, blocked, spent]
  saved,      \* raw events are in the database up to this ledger
  indexed,    \* last_ledger of the sync metadata, 0: none
  processed,  \* the tables are up to this ledger
  noted,      \* the user's notes and their spends are up to this ledger
  flow,       \* flow -> [step, tries, bulk, root, non, db]
  flight      \* flow -> "none", "sent", "landed" or "rejected"

chainVars == <<vars, past>>
syncVars == <<saved, indexed, processed, noted>>
flowVars == <<flow, flight>>
allVars == <<chainVars, scenario, happened, syncVars, flowVars>>

\* The client's integers.
Width == INSTANCE Amounts

\* u128 is narrower than the circuit's range check.
ASSUME WidthAssumption == Width!MaxU128 < MaxExtAmount

ASSUME ContractsAssumption == MembershipAsps # {} /\ NonMembershipAsps # {}

\* "self" stands for the recipient keys a form leaves out.
ASSUME PartiesAssumption == IsFiniteSet(Users) /\ "self" \notin Addresses

ASSUME FirstAssumption ==
  /\ FirstNotes \in Note \X Note /\ FirstSpent \subseteq Dummies
  /\ MaxSnapshotAttempts \in Nat \ {0}

\* A dummy is drawn at random.
ASSUME DrawAssumption ==
  \A f \in Flows : DummyOf[f] \in Dummies \X Dummies /\ DummyOf[f][1] # DummyOf[f][2]

\* A request has the fields of its form, whatever is in them: notes that do not
\* exist, are others' or are named twice, amounts of any size.
Request(r) ==
  /\ r.user \in Users
  /\ r.kind \in {"deposit", "transact"} => r.amount \in Int
  /\ r.kind \in {"deposit", "transfer", "transact"} => r.amounts \in Int \X Int
  /\ r.kind \in {"withdraw", "transfer", "transact"} => r.notes \in Seq(Nat)
  /\ r.kind = "deposit" => r.notes = <<>>
  /\ r.kind \in {"withdraw", "transact"} => r.recipient \in Addresses
  /\ r.kind = "transfer" => r.recipient \in Users
  /\ r.kind = "transact" => r.payees \in (Users \cup {"self"}) \X (Users \cup {"self"})

ASSUME ScenarioAssumption ==
  \A s \in Scenarios :
    /\ Len(s.outside) \in Nat
    /\ \A i \in 1 .. Len(s.outside) :
         s.outside[i].who \in Users /\ s.outside[i].dummies \subseteq Dummies
    /\ \A f \in Flows : Request(s.asks[f])

TheMembership == CHOOSE a \in MembershipAsps : TRUE
TheNonMembership == CHOOSE a \in NonMembershipAsps : TRUE

ledger == Len(past)

Idle == [step |-> "idle", tries |-> 0, bulk |-> 0, root |-> 0, non |-> 0, db |-> 0]
Ended == {"done", "register", "failed"}

\* The pool after one deposit, the database empty.
FlowInit ==
  /\ leaves = [i \in 0 .. 1 |-> FirstNotes[i + 1]]
  /\ nextIndex = 2 /\ currentRootIndex = 1 % RootHistorySize
  /\ roots = [i \in {0, 1 % RootHistorySize} |-> IF i = 1 % RootHistorySize THEN 2 ELSE 0]
  /\ spent = FirstSpent \X {0}
  /\ balance = [a \in Addresses |->
       IF a = PoolAddr THEN FirstNotes[1].amount + FirstNotes[2].amount ELSE InitialBalance[a]]
  /\ admin = Deployer
  /\ aspMembership = TheMembership /\ aspNonMembership = TheNonMembership
  /\ members = [a \in MembershipAsps |-> InitialMembers]
  /\ blocked = [a \in NonMembershipAsps |-> {}]
  /\ pastBlocked = [a \in NonMembershipAsps |-> {{}}]
  /\ past = <<[next |-> 2, members |-> InitialMembers, blocked |-> {}, spent |-> FirstSpent]>>
  /\ scenario \in Scenarios /\ happened = 0
  /\ saved = 0 /\ indexed = 0 /\ processed = 0 /\ noted = 0
  /\ flow = [f \in Flows |-> Idle]
  /\ flight = [f \in Flows |-> "none"]

-----------------------------------------------------------------------------
(* The chain without the client.                                           *)

CloseLedger ==
  past' = Append(past, [next |-> nextIndex', members |-> members'[TheMembership],
                        blocked |-> blocked'[TheNonMembership], spent |-> Nullified'])

\* A transaction of somebody else's, which leaves two empty notes.  Like the
\* client's own, its nullifiers are field elements.
OthersTransact(e) ==
  /\ spent' = spent \cup (e.dummies \X {0})
  /\ InsertTwoLeaves([owner |-> e.who, amount |-> 0], [owner |-> e.who, amount |-> 0])
  /\ UNCHANGED <<balance, aspVars>>

\* What others do, or a ledger without a change.
Outside ==
  /\ happened < Len(scenario.outside) /\ happened' = happened + 1
  /\ LET e == scenario.outside[happened + 1]
     IN \/ e.kind = "transact" /\ OthersTransact(e)
        \/ e.kind = "admit" /\ AspInsertLeaf(TheMembership, e.who)
        \/ e.kind = "block" /\ AspBlock(TheNonMembership, e.who)
        \/ e.kind = "unblock" /\ AspUnblock(TheNonMembership, e.who)
        \/ e.kind = "nothing" /\ UNCHANGED vars
  /\ CloseLedger
  /\ UNCHANGED <<scenario, syncVars, flowVars>>

-----------------------------------------------------------------------------
(* The indexer and the processor.                                          *)

\* Events first, then the ledger they reach.
SavePage ==
  /\ saved < ledger /\ saved' \in saved + 1 .. ledger
  /\ UNCHANGED <<chainVars, scenario, happened, indexed, processed, noted, flowVars>>

\* Variant: the ledger saved is the chain's, not that of the page.
SaveProgressOfTip ==
  /\ indexed < saved /\ indexed' = ledger
  /\ UNCHANGED <<chainVars, scenario, happened, saved, processed, noted, flowVars>>

SaveProgress ==
  /\ indexed < saved /\ indexed' = saved
  /\ UNCHANGED <<chainVars, scenario, happened, saved, processed, noted, flowVars>>

\* An iteration of the processor, as far as its limits let it come.
Process ==
  /\ noted < saved
  /\ processed' \in processed .. saved /\ noted' \in noted .. processed'
  /\ processed' + noted' > processed + noted
  /\ UNCHANGED <<chainVars, scenario, happened, saved, indexed, flowVars>>

-----------------------------------------------------------------------------
(* The storage worker's answer to a Deposit, Withdraw, Transfer or         *)
(* Transact request, from the database (at the ledger processed) and the   *)
(* snapshot in the request.                                                *)

Asked(f) == scenario.asks[f]

\* The database before its first event.
Empty == [next |-> 0, members |-> <<>>, blocked |-> {}, spent |-> {}]
Local(l) == IF l = 0 THEN Empty ELSE past[l]

\* The ledger of the last leaf of the membership tree at ledger l.
LastLeafLedger(l) ==
  CHOOSE k \in 1 .. l :
    /\ past[k].members = past[l].members
    /\ k > 1 => past[k - 1].members # past[l].members

\* Variant: the last leaf has to be of the ledger of the snapshot.
AspMembershipIfRecent(user, bulk) ==
  LET here == Local(processed).members
  IN IF bulk > indexed THEN "sync"
     ELSE IF bulk < indexed THEN "failed"
     ELSE IF here = <<>> THEN "register"
     ELSE IF LastLeafLedger(processed) < bulk THEN "sync"
     ELSE IF here # past[bulk].members THEN "failed"
     ELSE IF user \in Elements(here) THEN "index" ELSE "register"

\* Variant: the root of the local leaves is not compared with the chain's.
AspMembershipUnrooted(user, bulk) ==
  LET here == Local(processed).members
  IN IF bulk > indexed THEN "sync"
     ELSE IF bulk < indexed THEN "failed"
     ELSE IF user \in Elements(here) THEN "index" ELSE "register"

\* check_asp_membership_precondition.
AspMembershipStatus(user, bulk) ==
  LET here == Local(processed).members
  IN IF bulk > indexed THEN "sync"
     ELSE IF bulk < indexed THEN "failed"
     ELSE IF here = <<>> THEN "register"
     ELSE IF here # past[bulk].members
          THEN IF LastLeafLedger(processed) < bulk THEN "sync" ELSE "failed"
     ELSE IF user \in Elements(here) THEN "index" ELSE "register"

\* get_unspent_user_note_by_commitment.
HasUnspent(user, n) ==
  /\ n < Local(noted).next /\ n \notin Local(noted).spent
  /\ leaves[n].owner = user

\* Variant: the root of the local tree is not compared with the chain's.
PoolInputsUnrooted(r, s) ==
  IF r.notes = <<>> THEN "ready"
  ELSE IF Local(processed).next # past[s.bulk].next THEN "sync"
  ELSE IF \A i \in DOMAIN r.notes : HasUnspent(r.user, r.notes[i]) THEN "ready"
  ELSE "failed"

\* build_pool_inputs: NextIndex is of the first read, the root of the second.
PoolInputsStatus(r, s) ==
  IF r.notes = <<>> THEN "ready"
  ELSE IF Local(processed).next # past[s.bulk].next THEN "sync"
  ELSE IF Local(processed).next # past[s.root].next THEN "failed"
  ELSE IF \A i \in DOMAIN r.notes : HasUnspent(r.user, r.notes[i]) THEN "ready"
  ELSE "failed"

InputAmounts(ins) ==
  [i \in 1 .. 2 |-> IF i \in DOMAIN ins THEN leaves[ins[i]].amount ELSE 0]

\* A withdrawal is what its notes are worth, if an i128 holds it.
Answer(r, s) ==
  LET status == AspMembershipStatus(r.user, s.bulk)
      inputs == PoolInputsStatus(r, s)
  IN IF status # "index" THEN status
     ELSE IF inputs = "ready" /\ r.kind = "withdraw" /\ ~Width!WithdrawalFits(InputAmounts(r.notes))
     THEN "failed" ELSE inputs

-----------------------------------------------------------------------------
(* What is proved: the parameters the worker derives from the request, and *)
(* the transaction the flows build from them.                              *)

Notes(owners, amounts) ==
  [i \in 1 .. 2 |-> [owner |-> owners[i], amount |-> amounts[i]]]

Worth(ins) == InputAmounts(ins)[1] + InputAmounts(ins)[2]

DepositParams(r) ==
  [notes |-> <<>>, outs |-> Notes(<<r.user, r.user>>, r.amounts),
   ext |-> [recipient |-> PoolAddr, amount |-> r.amount]]

\* Everything the notes are worth is withdrawn: there is no change.
WithdrawParams(r) ==
  [notes |-> r.notes, outs |-> Notes(<<r.user, r.user>>, <<0, 0>>),
   ext |-> [recipient |-> r.recipient, amount |-> -Worth(r.notes)]]

TransferParams(r) ==
  [notes |-> r.notes, outs |-> Notes(<<r.recipient, r.recipient>>, r.amounts),
   ext |-> [recipient |-> PoolAddr, amount |-> 0]]

\* Variant: an output without recipient keys goes to the other recipient.
OwnerOfOther(r, i) ==
  LET to == IF r.payees[i] = "self" THEN r.payees[3 - i] ELSE r.payees[i]
  IN IF to = "self" THEN r.user ELSE to

\* An output without recipient keys is the sender's own.
OwnerOf(r, i) == IF r.payees[i] = "self" THEN r.user ELSE r.payees[i]

TransactParams(r) ==
  [notes |-> r.notes, outs |-> Notes(<<OwnerOf(r, 1), OwnerOf(r, 2)>>, r.amounts),
   ext |-> [recipient |-> r.recipient, amount |-> r.amount]]

Params(r) ==
  CASE r.kind = "deposit" -> DepositParams(r)
    [] r.kind = "withdraw" -> WithdrawParams(r)
    [] r.kind = "transfer" -> TransferParams(r)
    [] r.kind = "transact" -> TransactParams(r)

\* What flows::transact insists on.
Balanced(p) ==
  Width!Conserved(InputAmounts(p.notes), p.ext.amount, <<p.outs[1].amount, p.outs[2].amount>>)

\* The inputs, padded with dummies.
PaddedInputs(f, notes) ==
  <<IF Len(notes) >= 1 THEN notes[1] ELSE DummyOf[f][1],
    IF Len(notes) >= 2 THEN notes[2] ELSE DummyOf[f][2]>>

\* The proof, for the roots of the snapshot: that of the membership tree is
\* computed from the local leaves.
ProofOf(f) ==
  LET r == Asked(f)
      p == Params(r)
      s == flow[f]
  IN [MakeProof(<<r.user, r.user>>, past[s.root].next, PaddedInputs(f, p.notes), p.outs,
                Local(s.db).members, past[s.bulk].blocked, p.ext)
        EXCEPT !.publicAmount = Width!FieldOf(p.ext.amount)]

\* The paths of the inputs are those of the local tree, the path of the
\* non-membership proof that of the list when it was read: the witness fits
\* when these are the trees of the roots.
PathsFit(f) ==
  LET s == flow[f]
  IN /\ Worth(Params(Asked(f)).notes) > 0 => Local(s.db).next = past[s.root].next
     /\ past[s.bulk].blocked # {} => past[s.non].blocked = past[s.bulk].blocked

WitnessFits(f) ==
  Balanced(Params(Asked(f))) /\ Provable(ProofOf(f)) /\ PathsFit(f)

-----------------------------------------------------------------------------
(* The steps of a flow.                                                    *)

Goes(f, step) == flow' = [flow EXCEPT ![f].step = step]
Ends(f, step) == flow' = [flow EXCEPT ![f] = [Idle EXCEPT !.step = step]]
Keeps == UNCHANGED <<chainVars, scenario, happened, syncVars, flight>>

\* What the page asks of each form, in integers of any size.
DepositForm(r) == r.amount > 0 /\ r.amount = r.amounts[1] + r.amounts[2]
WithdrawForm(r) == Len(r.notes) \in 1 .. 2
TransferForm(r) == Len(r.notes) \in 1 .. 2
TransactForm(r) == Len(r.notes) \in 0 .. 2

\* What the client can parse.
OutputsParse(r) == \A i \in 1 .. 2 : r.amounts[i] \in Width!NoteAmount
PublicParses(r) == r.amount \in Width!ExtAmount

ClickOn(kind, f, accepted) ==
  /\ flow[f].step = "idle" /\ Asked(f).kind = kind
  /\ IF accepted THEN Goes(f, "bulk") ELSE Ends(f, "failed")
  /\ Keeps

ProveDeposit(f) ==
  LET r == Asked(f) IN ClickOn("deposit", f, DepositForm(r) /\ PublicParses(r) /\ OutputsParse(r))

ProveWithdraw(f) ==
  ClickOn("withdraw", f, WithdrawForm(Asked(f)))

ProveTransfer(f) ==
  LET r == Asked(f) IN ClickOn("transfer", f, TransferForm(r) /\ OutputsParse(r))

ProveTransact(f) ==
  LET r == Asked(f)
  IN ClickOn("transact", f, TransactForm(r) /\ PublicParses(r) /\ OutputsParse(r))

\* contracts_data: everything but the root of the pool's tree...
ReadBulk(f) ==
  /\ flow[f].step = "bulk"
  /\ flow' = [flow EXCEPT ![f] = [@ EXCEPT !.step = "root", !.tries = flow[f].tries + 1, !.bulk = ledger]]
  /\ Keeps

\* ... then that root, at the index just read, and the index again.
ReadRoot(f) ==
  /\ flow[f].step = "root"
  /\ LET index(l) == (past[l].next \div 2) % RootHistorySize
     IN IF index(ledger) = index(flow[f].bulk)
        THEN flow' = [flow EXCEPT ![f] = [@ EXCEPT !.step = "non", !.tries = 0, !.root = ledger]]
        ELSE IF flow[f].tries < MaxSnapshotAttempts THEN Goes(f, "bulk") ELSE Ends(f, "failed")
  /\ Keeps

\* get_nonmembership_proof: no call for an empty list, an error for a user
\* who is on it now.
ReadNonMembership(f) ==
  /\ flow[f].step = "non"
  /\ IF past[flow[f].bulk].blocked # {} /\ Asked(f).user \in past[ledger].blocked
     THEN Ends(f, "failed")
     ELSE flow' = [flow EXCEPT ![f] = [@ EXCEPT !.step = "storage", !.non = ledger]]
  /\ Keeps

\* The worker's answer: parameters, an end, or another round a second later.
AskStorage(f) ==
  /\ flow[f].step = "storage"
  /\ LET answer == Answer(Asked(f), flow[f])
     IN \/ answer = "ready" /\ flow' = [flow EXCEPT ![f] = [@ EXCEPT !.step = "prove", !.db = processed]]
        \/ answer = "sync" /\ flow' = [flow EXCEPT ![f] = [Idle EXCEPT !.step = "bulk"]]
        \/ answer \in Ended /\ Ends(f, answer)
  /\ Keeps

\* The prover worker, which checks the proof it has made.
Prove(f) ==
  /\ flow[f].step = "prove"
  /\ IF WitnessFits(f) THEN Goes(f, "sign") ELSE Ends(f, "failed")
  /\ Keeps

Accepts(f) ==
  LET q == ProofOf(f)
      ext == q.extDataHash
      payer == IF ext.amount > 0 THEN Asked(f).user ELSE PoolAddr
  IN /\ IsKnownRoot(q.root) /\ Unspent(q.ins, Plain) /\ AspRootsCurrent(q) /\ Provable(q)
     /\ ExtHashMatches(q, ext) /\ PublicAmountMatches(q, ext) /\ DepositAllowed(ext)
     /\ balance[payer] >= (IF ext.amount > 0 THEN ext.amount ELSE -ext.amount)
     /\ nextIndex + 2 <= MaxLeaves

\* Simulation comes before the signature and the submission.
SignAndSend(f) ==
  /\ flow[f].step = "sign"
  /\ IF Accepts(f)
     THEN Goes(f, "confirm") /\ flight' = [flight EXCEPT ![f] = "sent"]
     ELSE Ends(f, "failed") /\ UNCHANGED flight
  /\ UNCHANGED <<chainVars, scenario, happened, syncVars>>

\* Polling ends with the transaction's, or after 30 s with its hash.
Confirm(f) ==
  /\ flow[f].step = "confirm"
  /\ Goes(f, IF flight[f] = "rejected" THEN "failed" ELSE "done")
  /\ Keeps

\* An RPC or worker call fails or times out, or the signature is refused.
CallFails(f) ==
  /\ flow[f].step \notin Ended \cup {"idle"}
  /\ IF flight[f] = "none" THEN Ends(f, "failed") ELSE Goes(f, "failed")
  /\ Keeps

\* The network includes what was sent, long after the flow ended perhaps.
Land(f) ==
  /\ flight[f] = "sent"
  /\ IF Accepts(f)
     THEN LET q == ProofOf(f)
          IN /\ MoveTokens(Asked(f).user, q.extDataHash)
             /\ InsertTwoLeaves(q.outs[1], q.outs[2])
             /\ spent' = spent \cup Keys(q.ins, Plain)
             /\ UNCHANGED aspVars
             /\ CloseLedger
             /\ flight' = [flight EXCEPT ![f] = "landed"]
     ELSE UNCHANGED chainVars /\ flight' = [flight EXCEPT ![f] = "rejected"]
  /\ UNCHANGED <<scenario, happened, syncVars, flow>>

FlowStep(f) ==
  \/ ReadBulk(f) \/ ReadRoot(f) \/ ReadNonMembership(f)
  \/ AskStorage(f) \/ Prove(f) \/ SignAndSend(f) \/ Confirm(f)

Click(f) == ProveDeposit(f) \/ ProveWithdraw(f) \/ ProveTransfer(f) \/ ProveTransact(f)

FlowNext ==
  \/ Outside \/ SavePage \/ SaveProgress \/ Process
  \/ \E f \in Flows : Click(f) \/ FlowStep(f) \/ CallFails(f) \/ Land(f)

(***************************************************************************)
(* The client's futures are polled, the indexer runs every five seconds    *)
(* and the processor after every page: weak fairness of their steps.       *)
(* Nobody has to click, and the network may never include a transaction.   *)
(***************************************************************************)
FlowFairness ==
  /\ \A f \in Flows : WF_allVars(FlowStep(f))
  /\ WF_allVars(SavePage) /\ WF_allVars(SaveProgress) /\ WF_allVars(Process)

FlowSpec == FlowInit /\ [][FlowNext]_allVars /\ FlowFairness

-----------------------------------------------------------------------------
(* Correctness.                                                            *)

FlowTypeOK ==
  /\ TypeOK
  /\ happened \in 0 .. Len(scenario.outside)
  /\ indexed \in 0 .. saved /\ noted \in 0 .. processed /\ processed \in 0 .. saved /\ saved \in 0 .. ledger
  /\ \A f \in Flows :
       /\ flow[f].step \in Ended \cup {"idle", "bulk", "root", "non", "storage", "prove",
                                     "sign", "confirm"}
       /\ flow[f].tries \in 0 .. MaxSnapshotAttempts
       /\ \A read \in {"bulk", "root", "non", "db"} : flow[f][read] \in 0 .. ledger
  /\ flight \in [Flows -> {"none", "sent", "landed", "rejected"}]

\* The chain when the click's last read of it was answered, and now, agree
\* on the list of blocked keys.
ListUnmoved(f) == past[flow[f].non].blocked = past[flow[f].bulk].blocked

\* Use, clicked twice, fills both inputs with the same note.
NotesApart(r) == \A i, j \in DOMAIN r.notes : r.notes[i] = r.notes[j] => i = j

(***************************************************************************)
(* What the storage worker hands to the prover fits together: three reads  *)
(* of the chain and the database, each of another moment, make a witness   *)
(* the circuit accepts.  The prover refuses a request whose amounts do not *)
(* balance or which names a note twice, and a list of blocked keys that    *)
(* changed between two reads.                                              *)
(***************************************************************************)
WitnessesFit ==
  \A f \in Flows :
    flow[f].step = "prove" /\ Balanced(Params(Asked(f))) /\ NotesApart(Asked(f))
      /\ ListUnmoved(f) => WitnessFits(f)

\* Nothing the proof depends on has changed, and the token moves can be made.
StillGood(f) ==
  LET q == ProofOf(f)
      ext == q.extDataHash
  IN /\ IsKnownRoot(q.root) /\ Unspent(q.ins, Plain)
     /\ past[ledger].members = past[flow[f].bulk].members
     /\ past[ledger].blocked = past[flow[f].bulk].blocked
     /\ ext.amount <= MaxDeposit /\ ext.amount <= balance[Asked(f).user]
     /\ nextIndex + 2 <= MaxLeaves

(***************************************************************************)
(* A transaction the user is asked to sign is one the pool accepts, unless *)
(* the chain has moved, the deposit is above the maximum or the user does  *)
(* not have it: the client's integers, padding, recipients and membership  *)
(* root are those the contract and the circuit compute.  The pool's own    *)
(* tokens never fall short of a withdrawal.                                *)
(***************************************************************************)
SignedIsAccepted ==
  \A f \in Flows : flow[f].step = "sign" /\ StillGood(f) => Accepts(f)

\* What a user has: tokens, and notes nobody has spent.
NotesOf(u) == {i \in (0 .. nextIndex - 1) \ Nullified : leaves[i].owner = u}

Wealth(u) == balance[u] + SumFunction([i \in NotesOf(u) |-> leaves[i].amount])

FirstWealth(u) ==
  InitialBalance[u]
    + SumFunction([i \in {j \in 1 .. 2 : FirstNotes[j].owner = u} |-> FirstNotes[i].amount])

\* What a request hands to somebody else.
Gift(r, to) ==
  CASE r.kind = "deposit" -> 0
    [] r.kind = "withdraw" -> IF r.recipient = to THEN Worth(r.notes) ELSE 0
    [] r.kind = "transfer" -> IF r.recipient = to THEN r.amounts[1] + r.amounts[2] ELSE 0
    [] r.kind = "transact" ->
         SumFunction([i \in {j \in 1 .. 2 : r.payees[j] = to} |-> r.amounts[i]])
           + (IF r.recipient = to /\ r.amount < 0 THEN -r.amount ELSE 0)

Given(r) == SumFunction([to \in Addresses \ {r.user} |-> Gift(r, to)])

Landed == {f \in Flows : flight[f] = "landed"}
LandedOf(u) == {f \in Landed : Asked(f).user = u}

(***************************************************************************)
(* A user's tokens and notes together change by what the requests that     *)
(* landed say and by nothing else: a click is worth one transaction at     *)
(* most, change comes back, a failed or repeated flow, a late inclusion    *)
(* and a note two flows spend cost nothing.                                *)
(***************************************************************************)
BooksBalance ==
  \A u \in Users :
    Wealth(u) = FirstWealth(u)
                  + SumFunction([f \in Landed \ LandedOf(u) |-> Gift(Asked(f), u)])
                  - SumFunction([f \in LandedOf(u) |-> Given(Asked(f))])

(***************************************************************************)
(* No click waits for ever: every flow ends, in a transaction, a request   *)
(* to register or an error, once the chain comes to rest; in particular    *)
(* each "sync" answer is followed by another when the indexer and the      *)
(* processor have caught up.                                               *)
(***************************************************************************)
FlowsEnd == \A f \in Flows : flow[f].step = "bulk" ~> flow[f].step \in Ended
=============================================================================
