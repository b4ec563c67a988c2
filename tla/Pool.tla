-------------------------------- MODULE Pool --------------------------------
(***************************************************************************)
(* The privacy pool contract (contracts/pool/src/pool.rs), with the token  *)
(* it holds, the roots of the two ASP contracts it consults and the        *)
(* statement of the policy circuit its verifier accepts.                   *)
(*                                                                         *)
(* Data abstraction.  A commitment is the note it hides, [owner, amount].  *)
(* A nullifier is injective in the leaf it spends, so the nullifier of     *)
(* leaf n is n; a dummy (zero amount, not in the tree) has a nullifier of  *)
(* its own in Dummies.  A nullifier is a field element to the circuit and  *)
(* the verifier, which reduces what it is given, and a U256 to the         *)
(* contract, which does not: the key <<n, k>> is the U256 that exceeds the *)
(* nullifier n by k moduli.  A hash of external data is the data.  A root  *)
(* of the membership tree is the sequence of leaves under it, a root of    *)
(* the non-membership tree the set of its keys.                            *)
(*                                                                         *)
(* Every error of the contract makes the host discard the call with all    *)
(* its effects, the deposit made first included: a rejected call is a      *)
(* stuttering step, so each action has the checks as its guard.            *)
(***************************************************************************)
EXTENDS MerkleWithHistory, Sequences, FiniteSets

CONSTANTS
  Users,             \* account addresses, each with one note key
  PoolAddr,          \* the contract's own address
  Dummies,           \* nullifiers of dummy inputs
  Outputs,           \* notes a client may create, [owner, amount]
  ExtData,           \* external data, [recipient, amount]
  FieldSize,         \* bn256_modulus
  MaxMultiple,       \* moduli a U256 can exceed a field element by, 5
  MaxExtAmount,      \* max_ext_amount, 2^248
  MaxI128,           \* largest i128
  MaxDeposit,        \* maximum_deposit_amount of the constructor
  InitialBalance,    \* tokens each user starts with
  Deployer,          \* admin argument of the constructor
  MembershipAsps,    \* deployed ASP membership contracts
  NonMembershipAsps, \* deployed ASP non-membership contracts
  AspCapacity,       \* leaves a membership tree can hold
  InitialMembers     \* leaves already in every membership tree

Addresses == Users \cup {PoolAddr}
Note == [owner : Users, amount : 0 .. MaxExtAmount - 1]

ASSUME AddressAssumption == PoolAddr \notin Users
ASSUME DummyAssumption == \A d \in Dummies : d \notin Nat
ASSUME AmountAssumption ==
  /\ FieldSize \in Nat /\ MaxMultiple \in Nat /\ MaxExtAmount \in Nat \ {0}
  /\ 4 * MaxExtAmount < FieldSize
  /\ MaxI128 \in Nat /\ MaxDeposit \in Nat
  /\ InitialBalance \in [Users -> Nat]
ASSUME OutputAssumption ==
  Outputs \subseteq [owner : Users, amount : 0 .. FieldSize - 1]
ASSUME DeployerAssumption == Deployer \in Users
ASSUME ExtDataAssumption == ExtData \subseteq [recipient : Addresses, amount : Int]
ASSUME AspAssumption ==
  AspCapacity \in Nat /\ InitialMembers \in Seq(Users)

VARIABLES
  spent,            \* DataKey::Nullifiers
  balance,          \* the token contract's balances
  admin,            \* DataKey::Admin
  aspMembership,    \* DataKey::ASPMembership
  aspNonMembership, \* DataKey::ASPNonMembership
  members,          \* root of each ASP membership contract
  blocked,          \* root of each ASP non-membership contract
  pastBlocked       \* history: the roots each of these has had so far

aspVars ==
  <<admin, aspMembership, aspNonMembership, members, blocked, pastBlocked>>
vars == <<merkleVars, spent, balance, aspVars>>

Init ==
  /\ MerkleInit
  /\ spent = {}
  /\ balance = [a \in Addresses |-> IF a = PoolAddr THEN 0 ELSE InitialBalance[a]]
  /\ admin = Deployer
  /\ aspMembership \in MembershipAsps
  /\ aspNonMembership \in NonMembershipAsps
  /\ members = [a \in MembershipAsps |-> InitialMembers]
  /\ blocked = [a \in NonMembershipAsps |-> {}]
  /\ pastBlocked = [a \in NonMembershipAsps |-> {{}}]

-----------------------------------------------------------------------------
(* The policy circuit (circuits/src/policyTransaction.circom).             *)

Elements(s) == {s[i] : i \in DOMAIN s}

InAmount(n) == IF n \in Dummies THEN 0 ELSE leaves[n].amount

\* Input n can be opened with owner's private key: a dummy is built with that
\* key, any other input is a note of the owner, under the root unless it is
\* worth nothing (the Merkle check is enabled by the amount).
Opens(owner, root, n) ==
  n \notin Dummies => /\ leaves[n].owner = owner
                      /\ leaves[n].amount = 0 \/ n < root

\* Variant: a withdrawal is given to the proof as its absolute value.
AbsoluteAmount(amount) == IF amount >= 0 THEN amount ELSE -amount

\* calculate_public_amount: a withdrawal is the negative in the field.
PublicAmount(amount) == IF amount >= 0 THEN amount ELSE FieldSize + amount

\* The public amount the equation sumIns + publicAmount === sumOuts forces.
BalancingAmount(ins, outs) ==
  (outs[1].amount + outs[2].amount - InAmount(ins[1]) - InAmount(ins[2]))
    % FieldSize

\* Variant: the outputs are not range-checked.
ProvableUnranged(q) ==
  /\ \A i \in 1 .. 2 : /\ Opens(q.owners[i], q.root, q.ins[i])
                      /\ q.owners[i] \in Elements(q.membershipRoot)
                      /\ q.owners[i] \notin q.nonMembershipRoot
  /\ q.ins[1] # q.ins[2]
  /\ q.publicAmount = BalancingAmount(q.ins, q.outs)

(***************************************************************************)
(* The statement the proof proves: each input is opened with a key of its  *)
(* own, whose owner is under the membership root and absent from the       *)
(* non-membership root; the nullifiers are distinct, the outputs in range, *)
(* and the amounts balance in the field.                                   *)
(***************************************************************************)
Provable(q) ==
  /\ \A i \in 1 .. 2 : /\ Opens(q.owners[i], q.root, q.ins[i])
                      /\ q.owners[i] \in Elements(q.membershipRoot)
                      /\ q.owners[i] \notin q.nonMembershipRoot
  /\ q.outs[1].amount < MaxExtAmount /\ q.outs[2].amount < MaxExtAmount
  /\ q.ins[1] # q.ins[2]
  /\ q.publicAmount = BalancingAmount(q.ins, q.outs)

Inputs == (0 .. nextIndex - 1) \cup Dummies

\* What a call's input_nullifiers may be for these inputs; a client of this
\* repository sends the field elements themselves.
Multiples == 0 .. MaxMultiple
Plain == <<0, 0>>
Keys(ins, ks) == {<<ins[i], ks[i]>> : i \in 1 .. 2}

\* The roots the tree has had, and those the ASP contracts have had since
\* the pool was deployed.
TreeRoots == {n \in 0 .. nextIndex : n % 2 = 0}

MembershipRoots ==
  UNION {{SubSeq(members[a], 1, k) : k \in Len(InitialMembers) .. Len(members[a])} :
           a \in MembershipAsps}
NonMembershipRoots == UNION {pastBlocked[a] : a \in NonMembershipAsps}

(***************************************************************************)
(* The proofs with these inputs a client can have in its hands: made       *)
(* against any state of the tree so far and any membership and             *)
(* non-membership root, current or stale, committed to any external data,  *)
(* and never submitted, submitted before, or built on notes spent since.   *)
(***************************************************************************)
MakeProof(owners, root, ins, outs, memberRoot, nonMemberRoot, ext) ==
  [owners |-> owners, root |-> root, ins |-> ins, outs |-> outs,
   membershipRoot |-> memberRoot, nonMembershipRoot |-> nonMemberRoot,
   publicAmount |-> BalancingAmount(ins, outs), extDataHash |-> ext]

Openers(root, n) == {u \in Users : Opens(u, root, n)}

Proofs(root, ins) ==
  {MakeProof(o, root, ins, outs, m, b, ext) :
     o \in Openers(root, ins[1]) \X Openers(root, ins[2]),
     outs \in Outputs \X Outputs, m \in MembershipRoots,
     b \in NonMembershipRoots, ext \in ExtData}

-----------------------------------------------------------------------------
(* The checks of transact and internal_transact.                           *)

\* Variant: only the first nullifier is looked up.
UnspentFirst(ins, ks) == <<ins[1], ks[1]>> \notin spent

Unspent(ins, ks) == \A x \in Keys(ins, ks) : x \notin spent

ExtHashMatches(q, ext) == q.extDataHash = ext

\* Variant: the amount is bounded, but not compared with the proof's.
PublicAmountBounded(q, ext) ==
  ext.amount < MaxExtAmount /\ -ext.amount < MaxExtAmount

PublicAmountMatches(q, ext) ==
  /\ ext.amount < MaxExtAmount /\ -ext.amount < MaxExtAmount
  /\ q.publicAmount = PublicAmount(ext.amount)

\* Variant: the non-membership root is not compared.
AspMembershipRootCurrent(q) == q.membershipRoot = members[aspMembership]

AspRootsCurrent(q) ==
  /\ q.membershipRoot = members[aspMembership]
  /\ q.nonMembershipRoot = blocked[aspNonMembership]

\* The token moves of a call: the deposit from the sender, the withdrawal to
\* the recipient.  An amount an i128 cannot hold is WrongExtAmount, and the
\* token refuses a transfer its payer cannot afford.
DepositAllowed(ext) == ext.amount > 0 => ext.amount <= MaxDeposit

Transfer(from, to, amount) ==
  /\ amount <= MaxI128
  /\ amount <= balance[from]
  /\ balance' = [a \in Addresses |->
                   balance[a] - (IF a = from THEN amount ELSE 0)
                              + (IF a = to THEN amount ELSE 0)]

MoveTokens(sender, ext) ==
  \/ ext.amount > 0 /\ Transfer(sender, PoolAddr, ext.amount)
  \/ ext.amount < 0 /\ Transfer(PoolAddr, ext.recipient, -ext.amount)
  \/ ext.amount = 0 /\ UNCHANGED balance

(***************************************************************************)
(* transact, called with a proof against root that consumes ins, whose     *)
(* nullifiers it is given ks moduli too large: deposit, all the checks,    *)
(* nullifiers marked, withdrawal, the two commitments inserted; all of it  *)
(* or none of it.  The verifier sees the nullifiers reduced, so that the   *)
(* statement it checks is the same whatever ks is.                         *)
(***************************************************************************)
Transact(root, ins, ks) ==
  /\ IsKnownRoot(root)
  /\ Unspent(ins, ks)
  /\ \E q \in Proofs(root, ins) :
       /\ AspRootsCurrent(q)
       /\ Provable(q)
       /\ \E sender \in Users, ext \in ExtData :
            /\ ExtHashMatches(q, ext)
            /\ PublicAmountMatches(q, ext)
            /\ DepositAllowed(ext)
            /\ MoveTokens(sender, ext)
       /\ InsertTwoLeaves(q.outs[1], q.outs[2])
  /\ spent' = spent \cup Keys(ins, ks)
  /\ UNCHANGED aspVars

-----------------------------------------------------------------------------
(* Administration of the pool, and the two ASP contracts.                  *)

UpdateAdmin(caller, newAdmin) ==
  /\ caller = admin
  /\ admin' = newAdmin
  /\ UNCHANGED <<merkleVars, spent, balance, aspMembership, aspNonMembership,
                 members, blocked, pastBlocked>>

UpdateAspMembership(caller, a) ==
  /\ caller = admin
  /\ aspMembership' = a
  /\ UNCHANGED <<merkleVars, spent, balance, admin, aspNonMembership,
                 members, blocked, pastBlocked>>

UpdateAspNonMembership(caller, a) ==
  /\ caller = admin
  /\ aspNonMembership' = a
  /\ UNCHANGED <<merkleVars, spent, balance, admin, aspMembership,
                 members, blocked, pastBlocked>>

\* insert_leaf of an ASP membership contract: u's leaf is appended.
AspInsertLeaf(a, u) ==
  /\ Len(members[a]) < AspCapacity
  /\ members' = [members EXCEPT ![a] = Append(@, u)]
  /\ UNCHANGED <<merkleVars, spent, balance, admin, aspMembership,
                 aspNonMembership, blocked, pastBlocked>>

\* insert_leaf and delete_leaf of an ASP non-membership contract.
SetBlocked(a, keys) ==
  /\ blocked' = [blocked EXCEPT ![a] = keys]
  /\ pastBlocked' = [pastBlocked EXCEPT ![a] = @ \cup {keys}]
  /\ UNCHANGED <<merkleVars, spent, balance, admin, aspMembership,
                 aspNonMembership, members>>

AspBlock(a, u) == u \notin blocked[a] /\ SetBlocked(a, blocked[a] \cup {u})
AspUnblock(a, u) == u \in blocked[a] /\ SetBlocked(a, blocked[a] \ {u})

SubmitProof ==
  \E root \in TreeRoots, ins \in Inputs \X Inputs, ks \in Multiples \X Multiples :
    Transact(root, ins, ks)

Administer ==
  \E u \in Users :
    \/ \E v \in Users : UpdateAdmin(u, v)
    \/ \E a \in MembershipAsps : UpdateAspMembership(u, a) \/ AspInsertLeaf(a, u)
    \/ \E a \in NonMembershipAsps :
         UpdateAspNonMembership(u, a) \/ AspBlock(a, u) \/ AspUnblock(a, u)

Next == SubmitProof \/ Administer

Spec == Init /\ [][Next]_vars

-----------------------------------------------------------------------------
(* Correctness.                                                            *)

TypeOK ==
  /\ nextIndex \in Nat
  /\ leaves \in [0 .. nextIndex - 1 -> Note]
  /\ currentRootIndex \in Slots
  /\ DOMAIN roots \in SUBSET Slots
  /\ \A i \in DOMAIN roots : roots[i] \in 0 .. nextIndex
  /\ spent \subseteq ((0 .. nextIndex - 1) \cup Dummies) \X Multiples
  /\ balance \in [Addresses -> Nat]
  /\ admin \in Users
  /\ aspMembership \in MembershipAsps
  /\ aspNonMembership \in NonMembershipAsps
  /\ members \in [MembershipAsps -> Seq(Users)]
  /\ blocked \in [NonMembershipAsps -> SUBSET Users]
  /\ pastBlocked \in [NonMembershipAsps -> SUBSET SUBSET Users]

\* The inputs consumed so far, and whether every call so far was given the
\* field elements themselves.
Nullified == {x[1] : x \in spent}
Canonical == \A x \in spent : x[2] = 0

\* The tokens the note at leaf i stands for, one element each; those of all
\* the notes nobody has spent, and those among them that are u's.
Tokens(i) == {i} \X (1 .. leaves[i].amount)

UnspentTokens == UNION {Tokens(i) : i \in (0 .. nextIndex - 1) \ Nullified}

TokensOf(u) == {x \in UnspentTokens : leaves[x[1]].owner = u}

(***************************************************************************)
(* As long as calls are given field elements the pool can pay every note   *)
(* nobody has spent: whatever the order in which deposits, transfers,      *)
(* withdrawals, stale proofs and proofs sent again reach transact, the     *)
(* tokens it holds cover the unspent notes.  (They may exceed them: a      *)
(* withdrawal may name the pool as recipient.)                             *)
(***************************************************************************)
Solvent == Canonical => Cardinality(UnspentTokens) <= balance[PoolAddr]

(***************************************************************************)
(* Every accepted transaction marks two keys nobody marked before and adds *)
(* two leaves.  As long as calls are given field elements this means that  *)
(* no two accepted proofs share an input, dummies included, and no proof   *)
(* is accepted twice, across any number of calls.                          *)
(***************************************************************************)
FreshNullifiers ==
  /\ IsFiniteSet(spent) /\ Cardinality(spent) = nextIndex
  /\ Canonical => Cardinality(Nullified) = nextIndex

(***************************************************************************)
(* No note worth anything is consumed twice, whatever the calls are given: *)
(* what the second validation step of internal_transact, "Nullifier checks *)
(* (prevent double-spending)", says.  The keys it looks up are not reduced.*)
(***************************************************************************)
NoNoteConsumedTwice ==
  \A x, y \in spent : InAmount(x[1]) > 0 /\ x[1] = y[1] => x = y

\* Who the ASP contracts the pool consults admit at this moment.
Admitted == Elements(members[aspMembership]) \ blocked[aspNonMembership]

(***************************************************************************)
(* A note is consumed only while its owner is admitted, under whatever key *)
(* it is: a proof made when its owner was admitted is worth nothing once   *)
(* the owner is blocked or the pool consults another ASP contract.         *)
(***************************************************************************)
PolicyEnforced ==
  [][\A x \in spent' \ spent : x[1] \notin Dummies => leaves[x[1]].owner \in Admitted]_vars

(***************************************************************************)
(* As long as calls are given field elements, the pool implements the      *)
(* private ledger: a user's private balance is the worth of the unspent    *)
(* notes the user owns.                                                    *)
(***************************************************************************)
PrivateBalance == [u \in Users |-> Cardinality(TokensOf(u))]

Ledger == INSTANCE PrivateLedger
            WITH private <- PrivateBalance, public <- balance,
                 MaxAmount <- MaxExtAmount - 1

ImplementsLedger ==
  /\ Ledger!Init
  /\ [][Canonical' => [Ledger!Next]_<<PrivateBalance, balance>>]_vars
=============================================================================
