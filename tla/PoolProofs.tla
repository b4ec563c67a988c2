------------------------------ MODULE PoolProofs ------------------------------
(* Theorems about Pool, for every value of its constants. *)
EXTENDS Pool, FiniteSetTheorems, TLAPS

-----------------------------------------------------------------------------
(* The remainder operator on the first two laps of the ring.               *)

LEMMA ModFirstLap ==
  ASSUME NEW n \in Nat \ {0}, NEW a \in 0 .. n - 1
  PROVE  a % n = a
OBVIOUS

LEMMA ModSecondLap ==
  ASSUME NEW n \in Nat \ {0}, NEW a \in n .. 2 * n - 1
  PROVE  a % n = a - n
OBVIOUS

LEMMA RingSuccessor ==
  ASSUME NEW n \in Nat \ {0}, NEW c \in 0 .. n - 1
  PROVE  (c + 1) % n = IF c + 1 = n THEN 0 ELSE c + 1
<1>1. CASE c + 1 = n
  <2>1. c + 1 \in n .. 2 * n - 1
    BY <1>1
  <2>2. QED
    BY <1>1, <2>1, ModSecondLap
<1>2. CASE c + 1 # n
  <2>1. c + 1 \in 0 .. n - 1
    BY <1>2
  <2>2. QED
    BY <1>2, <2>1, ModFirstLap
<1>3. QED
  BY <1>1, <1>2

LEMMA RingScan ==
  ASSUME NEW n \in Nat \ {0}, NEW c \in 0 .. n - 1, NEW i \in 0 .. n - 1
  PROVE  \E k \in 0 .. n - 1 : (c + k) % n = i
<1>1. CASE c <= i
  <2>1. i - c \in 0 .. n - 1 /\ c + (i - c) = i
    BY <1>1
  <2>2. QED
    BY <2>1, ModFirstLap
<1>2. CASE i < c
  <2>1. i - c + n \in 0 .. n - 1 /\ c + (i - c + n) = i + n /\ i + n \in n .. 2 * n - 1
    BY <1>2
  <2>2. (i + n) % n = i
    BY <2>1, ModSecondLap
  <2>3. QED
    BY <2>1, <2>2
<1>3. QED
  BY <1>1, <1>2

-----------------------------------------------------------------------------
(* Type correctness.                                                       *)

\* What an accepted transaction is: the facts the later proofs use of it.
LEMMA TransactFacts ==
  ASSUME NEW root, NEW in1, NEW in2, NEW ks, Transact(root, <<in1, in2>>, ks)
  PROVE  \E q \in Proofs(root, <<in1, in2>>) :
           /\ AspRootsCurrent(q) /\ Provable(q)
           /\ \E sender \in Users, ext \in ExtData :
                /\ ExtHashMatches(q, ext) /\ PublicAmountMatches(q, ext)
                /\ DepositAllowed(ext) /\ MoveTokens(sender, ext)
           /\ InsertTwoLeaves(q.outs[1], q.outs[2])
BY DEF Transact

LEMMA ProofFields ==
  ASSUME NEW root, NEW in1, NEW in2, NEW q \in Proofs(root, <<in1, in2>>)
  PROVE  /\ q.owners \in Users \X Users
         /\ q.root = root /\ q.ins = <<in1, in2>>
         /\ q.outs = <<q.outs[1], q.outs[2]>>
         /\ q.outs[1] \in Outputs /\ q.outs[2] \in Outputs
         /\ q.publicAmount = BalancingAmount(<<in1, in2>>, q.outs)
BY DEF Proofs, MakeProof, Openers

\* An output the circuit accepts is a note of the pool.
LEMMA OutputIsNote ==
  ASSUME NEW o \in Outputs, o.amount < MaxExtAmount
  PROVE  o \in Note
BY OutputAssumption, AmountAssumption DEF Note

LEMMA ExtDataFields ==
  ASSUME NEW ext \in ExtData
  PROVE  ext.recipient \in Addresses /\ ext.amount \in Int
BY ExtDataAssumption

LEMMA MoveTokensType ==
  ASSUME balance \in [Addresses -> Nat], NEW sender \in Users,
         NEW ext, ext.recipient \in Addresses, ext.amount \in Int,
         MoveTokens(sender, ext)
  PROVE  balance' \in [Addresses -> Nat]
<1>1. sender \in Addresses /\ PoolAddr \in Addresses /\ ext.recipient \in Addresses
      /\ ext.amount \in Int
  BY DEF Addresses
<1>2. ASSUME NEW f \in Addresses, NEW t \in Addresses, NEW n \in Int, n > 0, Transfer(f, t, n)
      PROVE  balance' \in [Addresses -> Nat]
  <2>1. ASSUME NEW a \in Addresses
        PROVE  balance[a] - (IF a = f THEN n ELSE 0) + (IF a = t THEN n ELSE 0) \in Nat
    BY <1>2 DEF Transfer
  <2>2. QED
    BY <1>2, <2>1 DEF Transfer
<1>3. QED
  BY <1>1, <1>2 DEF MoveTokens

LEMMA InsertType ==
  ASSUME TypeOK, NEW o1 \in Note, NEW o2 \in Note, InsertTwoLeaves(o1, o2)
  PROVE  /\ nextIndex' \in Nat
         /\ leaves' \in [0 .. nextIndex' - 1 -> Note]
         /\ currentRootIndex' \in Slots
         /\ DOMAIN roots' \in SUBSET Slots
         /\ \A i \in DOMAIN roots' : roots'[i] \in 0 .. nextIndex'
<1> USE HistoryAssumption
<1>1. nextIndex' = nextIndex + 2 /\ nextIndex \in Nat
  BY DEF TypeOK, InsertTwoLeaves
<1>2. leaves' \in [0 .. nextIndex + 1 -> Note]
  BY DEF TypeOK, InsertTwoLeaves
<1>3. NextRootIndex \in Slots
  BY DEF TypeOK, NextRootIndex, Slots
<1>4. QED
  BY <1>1, <1>2, <1>3 DEF TypeOK, InsertTwoLeaves

LEMMA TypeStart == Init => TypeOK
<1> SUFFICES ASSUME Init PROVE TypeOK
  OBVIOUS
<1>1. balance \in [Addresses -> Nat]
  BY AmountAssumption DEF Init, Addresses
<1>2. /\ nextIndex \in Nat /\ leaves \in [0 .. nextIndex - 1 -> Note]
      /\ currentRootIndex \in Slots /\ DOMAIN roots \in SUBSET Slots
      /\ \A i \in DOMAIN roots : roots[i] \in 0 .. nextIndex
  BY HistoryAssumption DEF Init, MerkleInit, Slots
<1>3. QED
  BY <1>1, <1>2, DeployerAssumption, AspAssumption DEF Init, TypeOK

LEMMA TypeStep == TypeOK /\ [Next]_vars => TypeOK'
<1> SUFFICES ASSUME TypeOK, [Next]_vars PROVE TypeOK'
  OBVIOUS
<1>1. CASE SubmitProof
  <2>1. PICK root \in TreeRoots, in1 \in Inputs, in2 \in Inputs,
             k1 \in Multiples, k2 \in Multiples : Transact(root, <<in1, in2>>, <<k1, k2>>)
    BY <1>1 DEF SubmitProof
  <2>2. PICK q \in Proofs(root, <<in1, in2>>) :
          /\ Provable(q)
          /\ \E sender \in Users, ext \in ExtData : MoveTokens(sender, ext)
          /\ InsertTwoLeaves(q.outs[1], q.outs[2])
    BY <2>1, TransactFacts
  <2>3. q.outs[1] \in Note /\ q.outs[2] \in Note
    BY <2>2, ProofFields, OutputIsNote DEF Provable
  <2>4. /\ nextIndex' \in Nat
        /\ leaves' \in [0 .. nextIndex' - 1 -> Note]
        /\ currentRootIndex' \in Slots
        /\ DOMAIN roots' \in SUBSET Slots
        /\ \A i \in DOMAIN roots' : roots'[i] \in 0 .. nextIndex'
    BY <2>2, <2>3, InsertType
  <2>5. balance' \in [Addresses -> Nat]
    BY <2>2, ExtDataFields, MoveTokensType DEF TypeOK
  <2>6. spent' \subseteq ((0 .. nextIndex' - 1) \cup Dummies) \X Multiples
    <3>1. spent' = spent \cup {<<in1, k1>>, <<in2, k2>>}
      BY <2>1 DEF Transact, Keys
    <3>2. nextIndex' = nextIndex + 2 /\ nextIndex \in Nat
      BY <2>2 DEF InsertTwoLeaves, TypeOK
    <3>3. Inputs \subseteq (0 .. nextIndex' - 1) \cup Dummies
      BY <3>2 DEF Inputs
    <3>4. spent \subseteq ((0 .. nextIndex' - 1) \cup Dummies) \X Multiples
      BY <3>2 DEF TypeOK
    <3>5. QED
      BY <3>1, <3>3, <3>4
  <2>7. UNCHANGED aspVars
    BY <2>1 DEF Transact
  <2>8. QED
    BY <2>4, <2>5, <2>6, <2>7 DEF TypeOK, aspVars
<1>2. CASE Administer
  <2> USE DEF TypeOK, merkleVars
  <2>1. ASSUME NEW u \in Users, NEW v \in Users, UpdateAdmin(u, v) PROVE TypeOK'
    BY <2>1 DEF UpdateAdmin
  <2>2. ASSUME NEW u \in Users, NEW a \in MembershipAsps, UpdateAspMembership(u, a)
        PROVE  TypeOK'
    BY <2>2 DEF UpdateAspMembership
  <2>3. ASSUME NEW u \in Users, NEW a \in MembershipAsps, AspInsertLeaf(a, u)
        PROVE  TypeOK'
    BY <2>3 DEF AspInsertLeaf
  <2>4. ASSUME NEW u \in Users, NEW a \in NonMembershipAsps, UpdateAspNonMembership(u, a)
        PROVE  TypeOK'
    BY <2>4 DEF UpdateAspNonMembership
  <2>5. ASSUME NEW u \in Users, NEW a \in NonMembershipAsps,
               AspBlock(a, u) \/ AspUnblock(a, u)
        PROVE  TypeOK'
    <3>1. PICK keys \in SUBSET Users : SetBlocked(a, keys)
      BY <2>5 DEF AspBlock, AspUnblock
    <3>2. QED
      BY <3>1 DEF SetBlocked
  <2>6. QED
    BY <1>2, <2>1, <2>2, <2>3, <2>4, <2>5 DEF Administer
<1>3. CASE UNCHANGED vars
  BY <1>3 DEF TypeOK, vars, merkleVars, aspVars
<1>4. QED
  BY <1>1, <1>2, <1>3 DEF Next

(***************************************************************************)
(* No sequence of calls takes the contract out of its types.  The part     *)
(* that is not immediate is that the accepted outputs are notes of the     *)
(* pool: the range check of the circuit is what makes them so.             *)
(***************************************************************************)
THEOREM TypeCorrect == Spec => []TypeOK
BY TypeStart, TypeStep, PTL DEF Spec

-----------------------------------------------------------------------------
(* The ring of roots.                                                      *)

\* How many insertions ago slot i was last written, if it was.
Age(i) == IF i <= currentRootIndex THEN currentRootIndex - i
          ELSE currentRootIndex - i + RootHistorySize

(***************************************************************************)
(* The strengthening that makes KnownRootsExact inductive: each slot holds *)
(* the root of Age(i) insertions ago, and the slots still unwritten are    *)
(* those older than the tree.                                              *)
(***************************************************************************)
RingInv ==
  /\ nextIndex % 2 = 0
  /\ DOMAIN roots = {i \in Slots : 2 * Age(i) <= nextIndex}
  /\ \A i \in DOMAIN roots : roots[i] = nextIndex - 2 * Age(i)

LEMMA NextSlot ==
  ASSUME TypeOK
  PROVE  /\ NextRootIndex \in Slots
         /\ NextRootIndex = IF currentRootIndex + 1 = RootHistorySize THEN 0
                            ELSE currentRootIndex + 1
<1>1. RootHistorySize \in Nat \ {0} /\ currentRootIndex \in 0 .. RootHistorySize - 1
  BY HistoryAssumption DEF TypeOK, Slots
<1>2. QED
  BY <1>1, RingSuccessor DEF NextRootIndex, Slots

\* The scan of is_known_root passes every slot of the ring.
LEMMA ScanCovers ==
  ASSUME TypeOK, NEW r \in Int
  PROVE  IsKnownRoot(r) <=> /\ r # ZeroRoot
                            /\ \E i \in DOMAIN roots : roots[i] = r
<1>1. RootHistorySize \in Nat \ {0} /\ currentRootIndex \in 0 .. RootHistorySize - 1
      /\ DOMAIN roots \in SUBSET (0 .. RootHistorySize - 1)
  BY HistoryAssumption DEF TypeOK, Slots
<1>2. \A i \in DOMAIN roots : \E k \in 0 .. RootHistorySize - 1 :
        (currentRootIndex + k) % RootHistorySize = i
  BY <1>1, RingScan
<1>3. QED
  BY <1>2 DEF IsKnownRoot

LEMMA AgeType ==
  ASSUME TypeOK, NEW i \in Slots
  PROVE  Age(i) \in 0 .. RootHistorySize - 1
BY HistoryAssumption DEF TypeOK, Slots, Age

\* An insertion makes every other slot one insertion older.
LEMMA Ageing ==
  ASSUME TypeOK, currentRootIndex' = NextRootIndex, NEW i \in Slots
  PROVE  Age(i)' = IF i = NextRootIndex THEN 0 ELSE Age(i) + 1
<1>1. RootHistorySize \in Nat \ {0} /\ currentRootIndex \in 0 .. RootHistorySize - 1
      /\ i \in 0 .. RootHistorySize - 1
  BY HistoryAssumption DEF TypeOK, Slots
<1>2. currentRootIndex' = IF currentRootIndex + 1 = RootHistorySize THEN 0
                          ELSE currentRootIndex + 1
  BY NextSlot
<1>3. QED
  BY <1>1, <1>2 DEF Age

LEMMA RingStep ==
  ASSUME TypeOK, RingInv, NEW o1, NEW o2, InsertTwoLeaves(o1, o2)
  PROVE  RingInv'
<1>1. /\ nextIndex \in Nat /\ nextIndex' = nextIndex + 2
      /\ currentRootIndex' = NextRootIndex
      /\ DOMAIN roots' = DOMAIN roots \cup {NextRootIndex}
      /\ \A i \in DOMAIN roots' :
           roots'[i] = IF i = NextRootIndex THEN nextIndex + 2 ELSE roots[i]
  BY DEF TypeOK, InsertTwoLeaves
<1>2. nextIndex' % 2 = 0
  BY <1>1 DEF RingInv
<1>3. \A i \in Slots : /\ Age(i) \in Nat
                       /\ Age(i)' = IF i = NextRootIndex THEN 0 ELSE Age(i) + 1
  BY <1>1, AgeType, Ageing
<1>4. \A i \in Slots : i \in DOMAIN roots' <=> 2 * Age(i)' <= nextIndex'
  <2> SUFFICES ASSUME NEW i \in Slots
               PROVE  i \in DOMAIN roots' <=> 2 * Age(i)' <= nextIndex'
    OBVIOUS
  <2>1. CASE i = NextRootIndex
    BY <1>1, <1>3, <2>1
  <2>2. CASE i # NextRootIndex
    <3>1. i \in DOMAIN roots' <=> 2 * Age(i) <= nextIndex
      BY <1>1, <2>2 DEF RingInv
    <3>2. QED
      BY <1>1, <1>3, <2>2, <3>1
  <2>3. QED
    BY <2>1, <2>2
<1>5. DOMAIN roots' = {i \in Slots : 2 * Age(i)' <= nextIndex'}
  <2>1. DOMAIN roots' \subseteq Slots
    BY <1>1, NextSlot DEF TypeOK
  <2>2. QED
    BY <1>4, <2>1
<1>6. ASSUME NEW i \in DOMAIN roots' PROVE roots'[i] = nextIndex' - 2 * Age(i)'
  <2>1. i \in Slots
    BY <1>5
  <2>2. CASE i = NextRootIndex
    BY <1>1, <1>3, <2>1, <2>2
  <2>3. CASE i # NextRootIndex
    <3>1. roots'[i] = nextIndex - 2 * Age(i)
      BY <1>1, <2>3 DEF RingInv
    <3>2. QED
      BY <1>1, <1>3, <2>1, <2>3, <3>1
  <2>4. QED
    BY <2>2, <2>3
<1>7. QED
  BY <1>2, <1>5, <1>6 DEF RingInv

LEMMA AdministerKeepsTree ==
  ASSUME Administer \/ UNCHANGED vars
  PROVE  UNCHANGED <<merkleVars, spent, balance>>
BY DEF Administer, UpdateAdmin, UpdateAspMembership, UpdateAspNonMembership,
       AspInsertLeaf, AspBlock, AspUnblock, SetBlocked, vars

\* Every age up to the size of the ring is the age of some slot.
LEMMA SlotOfAge ==
  ASSUME TypeOK, NEW age \in 0 .. RootHistorySize - 1
  PROVE  \E i \in Slots : Age(i) = age
<1>1. RootHistorySize \in Nat \ {0} /\ currentRootIndex \in 0 .. RootHistorySize - 1
  BY HistoryAssumption DEF TypeOK, Slots
<1>2. CASE age <= currentRootIndex
  <2>1. currentRootIndex - age \in Slots /\ Age(currentRootIndex - age) = age
    BY <1>1, <1>2 DEF Slots, Age
  <2>2. QED
    BY <2>1
<1>3. CASE age > currentRootIndex
  <2> DEFINE i == currentRootIndex - age + RootHistorySize
  <2>1. i \in Slots /\ Age(i) = age
    BY <1>1, <1>3 DEF Slots, Age
  <2>2. QED
    BY <2>1
<1>4. QED
  BY <1>1, <1>2, <1>3

LEMMA WindowOfRing ==
  ASSUME TypeOK, RingInv
  PROVE  KnownRootsExact
<1>1. RootHistorySize \in Nat \ {0} /\ nextIndex \in Nat /\ DOMAIN roots \subseteq Slots
  BY HistoryAssumption DEF TypeOK
<1> SUFFICES ASSUME NEW r \in 0 .. nextIndex
             PROVE  IsKnownRoot(r) <=> r % 2 = 0 /\ r > nextIndex - 2 * RootHistorySize
  BY DEF KnownRootsExact
<1>2. IsKnownRoot(r) <=> \E i \in DOMAIN roots : roots[i] = r
  BY <1>1, ScanCovers DEF ZeroRoot
<1>3. ASSUME NEW i \in DOMAIN roots, roots[i] = r
      PROVE  r % 2 = 0 /\ r > nextIndex - 2 * RootHistorySize
  <2>1. Age(i) \in 0 .. RootHistorySize - 1 /\ r = nextIndex - 2 * Age(i) /\ nextIndex % 2 = 0
    BY <1>1, <1>3, AgeType DEF RingInv
  <2>2. QED
    BY <1>1, <2>1
<1>4. ASSUME r % 2 = 0, r > nextIndex - 2 * RootHistorySize
      PROVE  \E i \in DOMAIN roots : roots[i] = r
  <2>1. PICK age \in 0 .. RootHistorySize - 1 : r = nextIndex - 2 * age
    <3>1. nextIndex % 2 = 0
      BY DEF RingInv
    <3>2. nextIndex - r = 2 * ((nextIndex - r) \div 2)
      BY <1>1, <1>4, <3>1
    <3>3. (nextIndex - r) \div 2 \in 0 .. RootHistorySize - 1
      BY <1>1, <1>4, <3>2
    <3>4. QED
      BY <1>1, <3>2, <3>3
  <2>2. PICK i \in Slots : Age(i) = age
    BY SlotOfAge
  <2>3. i \in DOMAIN roots /\ roots[i] = r
    BY <1>1, <2>1, <2>2 DEF RingInv
  <2>4. QED
    BY <2>3
<1>5. QED
  BY <1>2, <1>3, <1>4

(***************************************************************************)
(* For every size of the ring and every number of insertions, the roots    *)
(* is_known_root accepts are those of the last RootHistorySize states.     *)
(***************************************************************************)
THEOREM RootWindow == Spec => []KnownRootsExact
<1>1. Init => RingInv
  BY HistoryAssumption DEF Init, MerkleInit, RingInv, Slots, Age
<1>2. TypeOK /\ RingInv /\ [Next]_vars => RingInv'
  <2> SUFFICES ASSUME TypeOK, RingInv, [Next]_vars PROVE RingInv'
    OBVIOUS
  <2>1. CASE SubmitProof
    <3>1. PICK root \in TreeRoots, in1 \in Inputs, in2 \in Inputs,
               k1 \in Multiples, k2 \in Multiples : Transact(root, <<in1, in2>>, <<k1, k2>>)
      BY <2>1 DEF SubmitProof
    <3>2. QED
      BY <3>1, TransactFacts, RingStep
  <2>2. CASE Administer \/ UNCHANGED vars
    BY <2>2, AdministerKeepsTree DEF RingInv, merkleVars, Age
  <2>3. QED
    BY <2>1, <2>2 DEF Next
<1>3. TypeOK /\ RingInv => KnownRootsExact
  BY WindowOfRing
<1>4. QED
  BY <1>1, <1>2, <1>3, TypeCorrect, PTL DEF Spec

-----------------------------------------------------------------------------
(* Nullifiers.                                                             *)

LEMMA TwoKeys ==
  ASSUME NEW in1, NEW in2, NEW k1, NEW k2
  PROVE  Keys(<<in1, in2>>, <<k1, k2>>) = {<<in1, k1>>, <<in2, k2>>}
BY DEF Keys

\* The two keys of an accepted transaction are new, its inputs distinct.
LEMMA TwoNewNullifiers ==
  ASSUME NEW root, NEW in1, NEW in2, NEW k1, NEW k2, Transact(root, <<in1, in2>>, <<k1, k2>>)
  PROVE  /\ <<in1, k1>> \notin spent /\ <<in2, k2>> \notin spent /\ in1 # in2
         /\ spent' = spent \cup {<<in1, k1>>, <<in2, k2>>}
         /\ nextIndex' = nextIndex + 2
<1>1. PICK q \in Proofs(root, <<in1, in2>>) :
        Provable(q) /\ InsertTwoLeaves(q.outs[1], q.outs[2])
  BY TransactFacts
<1>2. in1 # in2
  BY <1>1, ProofFields DEF Provable
<1>3. /\ <<in1, k1>> \notin spent /\ <<in2, k2>> \notin spent
      /\ spent' = spent \cup {<<in1, k1>>, <<in2, k2>>}
  BY TwoKeys DEF Transact, Unspent
<1>4. QED
  BY <1>1, <1>2, <1>3 DEF InsertTwoLeaves

LEMMA NullifiedType ==
  ASSUME TypeOK
  PROVE  Nullified \subseteq (0 .. nextIndex - 1) \cup Dummies
BY DEF TypeOK, Nullified

\* An element of the map, when all of them are field elements.
LEMMA CanonicalKey ==
  ASSUME TypeOK, Canonical, NEW n
  PROVE  n \in Nullified <=> <<n, 0>> \in spent
<1>1. ASSUME n \in Nullified PROVE <<n, 0>> \in spent
  <2>1. PICK x \in spent : x[1] = n
    BY <1>1 DEF Nullified
  <2>2. x = <<n, 0>>
    BY <2>1 DEF TypeOK, Canonical
  <2>3. QED
    BY <2>1, <2>2
<1>2. ASSUME <<n, 0>> \in spent PROVE n \in Nullified
  BY <1>2 DEF Nullified
<1>3. QED
  BY <1>1, <1>2

\* Two keys added that are field elements: their inputs were not consumed.
LEMMA PlainKeys ==
  ASSUME TypeOK, NEW in1, NEW in2, NEW k1, NEW k2,
         <<in1, k1>> \notin spent, <<in2, k2>> \notin spent,
         spent' = spent \cup {<<in1, k1>>, <<in2, k2>>}, Canonical'
  PROVE  /\ Canonical
         /\ in1 \notin Nullified /\ in2 \notin Nullified
         /\ Nullified' = Nullified \cup {in1, in2}
<1>1. Canonical /\ k1 = 0 /\ k2 = 0
  BY DEF Canonical
<1>2. in1 \notin Nullified /\ in2 \notin Nullified
  BY <1>1, CanonicalKey
<1>3. \A n : n \in Nullified' <=> n \in Nullified \/ n = in1 \/ n = in2
  BY DEF Nullified
<1>4. QED
  BY <1>1, <1>2, <1>3

LEMMA PlainNullifiers ==
  ASSUME TypeOK, NEW root, NEW in1, NEW in2, NEW k1, NEW k2,
         Transact(root, <<in1, in2>>, <<k1, k2>>), Canonical'
  PROVE  /\ Canonical
         /\ in1 \notin Nullified /\ in2 \notin Nullified /\ in1 # in2
         /\ Nullified' = Nullified \cup {in1, in2}
<1>1. /\ <<in1, k1>> \notin spent /\ <<in2, k2>> \notin spent /\ in1 # in2
      /\ spent' = spent \cup {<<in1, k1>>, <<in2, k2>>}
  BY ONLY Transact(root, <<in1, in2>>, <<k1, k2>>), TwoNewNullifiers
<1>2. /\ Canonical /\ in1 \notin Nullified /\ in2 \notin Nullified
      /\ Nullified' = Nullified \cup {in1, in2}
  BY ONLY TypeOK, Canonical', <1>1, PlainKeys
<1>3. QED
  BY <1>1, <1>2

LEMMA TwoMore ==
  ASSUME NEW S, IsFiniteSet(S), NEW n \in Nat, Cardinality(S) = n,
         NEW x, NEW y, x \notin S, y \notin S, x # y
  PROVE  IsFiniteSet(S \cup {x, y}) /\ Cardinality(S \cup {x, y}) = n + 2
<1>1. IsFiniteSet(S \cup {x}) /\ Cardinality(S \cup {x}) = n + 1
  BY FS_AddElement
<1>2. y \notin S \cup {x} /\ S \cup {x, y} = (S \cup {x}) \cup {y}
  OBVIOUS
<1>3. /\ IsFiniteSet((S \cup {x}) \cup {y})
      /\ Cardinality((S \cup {x}) \cup {y}) = n + 1 + 1
  BY <1>1, <1>2, FS_AddElement
<1>4. QED
  BY <1>2, <1>3

\* FreshNullifiers, with the finiteness that gives a cardinality a meaning.
FreshInv ==
  /\ IsFiniteSet(spent) /\ Cardinality(spent) = nextIndex
  /\ Canonical => IsFiniteSet(Nullified) /\ Cardinality(Nullified) = nextIndex

(***************************************************************************)
(* No key is ever marked twice: at all times there are as many as leaves,  *)
(* two for each accepted call, whatever calls are given.  And as long as   *)
(* they are given field elements there are as many inputs consumed, so     *)
(* that no note and no dummy is consumed by two calls.                     *)
(***************************************************************************)
THEOREM NoDoubleSpend == Spec => []FreshNullifiers
<1>1. Init => FreshInv
  <2> SUFFICES ASSUME Init PROVE FreshInv
    OBVIOUS
  <2>1. spent = {} /\ Nullified = {} /\ nextIndex = 0
    BY DEF Init, MerkleInit, Nullified
  <2>2. QED
    BY <2>1, FS_EmptySet DEF FreshInv
<1>2. TypeOK /\ FreshInv /\ [Next]_vars => FreshInv'
  <2> SUFFICES ASSUME TypeOK, FreshInv, [Next]_vars PROVE FreshInv'
    OBVIOUS
  <2>1. CASE SubmitProof
    <3>1. PICK root \in TreeRoots, in1 \in Inputs, in2 \in Inputs,
               k1 \in Multiples, k2 \in Multiples : Transact(root, <<in1, in2>>, <<k1, k2>>)
      BY <2>1 DEF SubmitProof
    <3>2. /\ <<in1, k1>> \notin spent /\ <<in2, k2>> \notin spent /\ in1 # in2
          /\ spent' = spent \cup {<<in1, k1>>, <<in2, k2>>} /\ nextIndex' = nextIndex + 2
      BY <3>1, TwoNewNullifiers
    <3>3. nextIndex \in Nat
      BY DEF TypeOK
    <3>4. IsFiniteSet(spent') /\ Cardinality(spent') = nextIndex'
      <4>1. <<in1, k1>> # <<in2, k2>>
        BY <3>2
      <4>2. IsFiniteSet(spent) /\ Cardinality(spent) = nextIndex
        BY DEF FreshInv
      <4> DEFINE x == <<in1, k1>>
                 y == <<in2, k2>>
      <4>3. x \notin spent /\ y \notin spent /\ x # y /\ spent' = spent \cup {x, y}
        BY <3>2, <4>1
      <4> HIDE DEF x, y
      <4>4. IsFiniteSet(spent \cup {x, y}) /\ Cardinality(spent \cup {x, y}) = nextIndex + 2
        BY ONLY <3>3, <4>2, <4>3, TwoMore
      <4>5. QED
        BY <3>2, <4>3, <4>4
    <3>5. ASSUME Canonical' PROVE IsFiniteSet(Nullified') /\ Cardinality(Nullified') = nextIndex'
      <4>1. /\ Canonical /\ in1 \notin Nullified /\ in2 \notin Nullified /\ in1 # in2
            /\ Nullified' = Nullified \cup {in1, in2}
        BY <3>1, <3>5, PlainNullifiers
      <4>2. IsFiniteSet(Nullified) /\ Cardinality(Nullified) = nextIndex
        BY <4>1 DEF FreshInv
      <4>3. /\ IsFiniteSet(Nullified \cup {in1, in2})
            /\ Cardinality(Nullified \cup {in1, in2}) = nextIndex + 2
        BY ONLY <3>3, <4>1, <4>2, TwoMore
      <4>4. QED
        BY <3>2, <4>1, <4>3
    <3>6. QED
      BY <3>4, <3>5 DEF FreshInv
  <2>2. CASE Administer \/ UNCHANGED vars
    BY <2>2, AdministerKeepsTree DEF FreshInv, Canonical, Nullified, merkleVars
  <2>3. QED
    BY <2>1, <2>2 DEF Next
<1>3. FreshInv => FreshNullifiers
  BY DEF FreshInv, FreshNullifiers
<1>4. QED
  BY <1>1, <1>2, <1>3, TypeCorrect, PTL DEF Spec

-----------------------------------------------------------------------------
(* The policy.                                                             *)

LEMMA TransactFollowsPolicy ==
  ASSUME TypeOK, NEW root, NEW in1 \in Inputs, NEW in2 \in Inputs, NEW k1, NEW k2,
         Transact(root, <<in1, in2>>, <<k1, k2>>),
         NEW x \in spent' \ spent, x[1] \notin Dummies
  PROVE  leaves[x[1]].owner \in Admitted
<1>1. PICK q \in Proofs(root, <<in1, in2>>) : AspRootsCurrent(q) /\ Provable(q)
  BY TransactFacts
<1>2. q.root = root /\ q.ins[1] = in1 /\ q.ins[2] = in2
  BY ProofFields
<1>3. PICK i \in 1 .. 2 : x[1] = q.ins[i]
  <2>1. spent' = spent \cup {<<in1, k1>>, <<in2, k2>>}
    BY TwoKeys DEF Transact
  <2>2. x[1] = in1 \/ x[1] = in2
    BY <2>1
  <2>3. QED
    BY <1>2, <2>2
<1>4. leaves[x[1]].owner = q.owners[i]
  BY <1>1, <1>3 DEF Provable, Opens
<1>5. q.owners[i] \in Elements(members[aspMembership])
      /\ q.owners[i] \notin blocked[aspNonMembership]
  BY <1>1 DEF Provable, AspRootsCurrent
<1>6. QED
  BY <1>4, <1>5 DEF Admitted

(***************************************************************************)
(* Whatever ASP contracts the admin points the pool at, whatever they do   *)
(* in between and whatever keys calls are given, a note is consumed only   *)
(* while its owner is admitted.                                            *)
(***************************************************************************)
THEOREM PolicyHolds == Spec => PolicyEnforced
<1>1. TypeOK /\ [Next]_vars =>
        [\A x \in spent' \ spent : x[1] \notin Dummies => leaves[x[1]].owner \in Admitted]_vars
  <2> SUFFICES ASSUME TypeOK, [Next]_vars,
                      NEW x \in spent' \ spent, x[1] \notin Dummies
               PROVE  leaves[x[1]].owner \in Admitted
    OBVIOUS
  <2>1. CASE SubmitProof
    <3>1. PICK root \in TreeRoots, in1 \in Inputs, in2 \in Inputs,
               k1 \in Multiples, k2 \in Multiples : Transact(root, <<in1, in2>>, <<k1, k2>>)
      BY <2>1 DEF SubmitProof
    <3>2. QED
      BY <3>1, TransactFollowsPolicy
  <2>2. CASE Administer \/ UNCHANGED vars
    BY <2>2, AdministerKeepsTree
  <2>3. QED
    BY <2>1, <2>2 DEF Next
<1>2. QED
  BY <1>1, TypeCorrect, PTL DEF Spec, PolicyEnforced

-----------------------------------------------------------------------------
(* Solvency.                                                               *)

LEMMA ModLapBelow ==
  ASSUME NEW n \in Nat \ {0}, NEW a \in -n .. -1
  PROVE  a % n = a + n
OBVIOUS

\* The remainder of a small number, of either sign.
LEMMA RemainderIs ==
  ASSUME NEW x \in Int, x < 2 * MaxExtAmount, -x < 2 * MaxExtAmount
  PROVE  x % FieldSize = PublicAmount(x)
<1>1. FieldSize \in Nat \ {0} /\ MaxExtAmount \in Nat /\ 4 * MaxExtAmount < FieldSize
  BY AmountAssumption
<1>2. CASE x >= 0
  <2>1. x \in 0 .. FieldSize - 1
    BY <1>1, <1>2
  <2>2. QED
    BY <1>1, <1>2, <2>1, ModFirstLap DEF PublicAmount
<1>3. CASE x < 0
  <2>1. x \in -FieldSize .. -1
    BY <1>1, <1>3
  <2>2. x % FieldSize = x + FieldSize
    BY <1>1, <2>1, ModLapBelow
  <2>3. QED
    BY <1>1, <1>3, <2>2 DEF PublicAmount
<1>4. QED
  BY <1>2, <1>3

(***************************************************************************)
(* No wrap-around: with amounts below MaxExtAmount, the balance equation   *)
(* in the field is the balance equation in the integers.                   *)
(***************************************************************************)
LEMMA FieldBalance ==
  ASSUME NEW a \in 0 .. MaxExtAmount - 1, NEW b \in 0 .. MaxExtAmount - 1,
         NEW c \in 0 .. MaxExtAmount - 1, NEW d \in 0 .. MaxExtAmount - 1,
         NEW e \in Int, e < MaxExtAmount, -e < MaxExtAmount,
         (c + d - a - b) % FieldSize = PublicAmount(e)
  PROVE  c + d = a + b + e
<1> DEFINE x == c + d - a - b
<1>1. /\ FieldSize \in Nat \ {0} /\ MaxExtAmount \in Nat /\ 4 * MaxExtAmount < FieldSize
      /\ x \in Int /\ x < 2 * MaxExtAmount /\ -x < 2 * MaxExtAmount
  BY AmountAssumption
<1> HIDE DEF x
<1>2. x % FieldSize = PublicAmount(x)
  BY <1>1, RemainderIs
<1>3. PublicAmount(x) = PublicAmount(e) => x = e
  BY <1>1 DEF PublicAmount
<1>4. (c + d - a - b) % FieldSize = x % FieldSize
  BY DEF x
<1>5. x = e
  BY <1>1, <1>2, <1>3, <1>4
<1>6. QED
  BY <1>5 DEF x

LEMMA DisjointUnion ==
  ASSUME NEW S, NEW T, IsFiniteSet(S), IsFiniteSet(T), S \cap T = {}
  PROVE  /\ IsFiniteSet(S \cup T)
         /\ Cardinality(S \cup T) = Cardinality(S) + Cardinality(T)
<1>1. Cardinality(S) \in Nat /\ Cardinality(T) \in Nat
  BY FS_CardinalityType
<1>2. Cardinality(S \cap T) = 0
  BY FS_EmptySet
<1>3. /\ IsFiniteSet(S \cup T)
      /\ Cardinality(S \cup T) = Cardinality(S) + Cardinality(T) - Cardinality(S \cap T)
  BY FS_Union
<1>4. QED
  BY <1>1, <1>2, <1>3

LEMMA ExchangeCardinality ==
  ASSUME NEW U, NEW A, NEW B, NEW C, NEW D, NEW W, A \subseteq U, B \subseteq U,
         IsFiniteSet(U), IsFiniteSet(C), IsFiniteSet(D),
         A \cap B = {}, C \cap D = {}, U \cap (C \cup D) = {},
         W = (U \ (A \cup B)) \cup (C \cup D)
  PROVE  /\ IsFiniteSet(W)
         /\ Cardinality(W) = Cardinality(U) - Cardinality(A) - Cardinality(B)
                             + Cardinality(C) + Cardinality(D)
<1>1. IsFiniteSet(A) /\ IsFiniteSet(B)
  BY FS_Subset
<1>2. /\ Cardinality(U) \in Nat /\ Cardinality(A) \in Nat /\ Cardinality(B) \in Nat
      /\ Cardinality(C) \in Nat /\ Cardinality(D) \in Nat
  BY <1>1, FS_CardinalityType
<1>3. Cardinality(A \cup B) = Cardinality(A) + Cardinality(B)
  BY <1>1, DisjointUnion
<1>4. IsFiniteSet(C \cup D) /\ Cardinality(C \cup D) = Cardinality(C) + Cardinality(D)
  BY DisjointUnion
<1>5. /\ IsFiniteSet(U \ (A \cup B))
      /\ Cardinality(U \ (A \cup B)) = Cardinality(U) - Cardinality(A \cup B)
  <2> DEFINE X == A \cup B
  <2>1. U \cap X = X
    OBVIOUS
  <2> HIDE DEF X
  <2>2. IsFiniteSet(U \ X) /\ Cardinality(U \ X) = Cardinality(U) - Cardinality(U \cap X)
    BY FS_Difference
  <2>3. IsFiniteSet(U \ X) /\ Cardinality(U \ X) = Cardinality(U) - Cardinality(X)
    BY <2>1, <2>2
  <2>4. QED
    BY <2>3 DEF X
<1>6. (U \ (A \cup B)) \cap (C \cup D) = {}
  OBVIOUS
<1>7. /\ IsFiniteSet((U \ (A \cup B)) \cup (C \cup D))
      /\ Cardinality((U \ (A \cup B)) \cup (C \cup D))
           = Cardinality(U \ (A \cup B)) + Cardinality(C \cup D)
  BY <1>4, <1>5, <1>6, DisjointUnion
<1>8. QED
  BY <1>2, <1>3, <1>4, <1>5, <1>7

LEMMA TokenCount ==
  ASSUME NEW i, NEW n \in Nat
  PROVE  IsFiniteSet({i} \X (1 .. n)) /\ Cardinality({i} \X (1 .. n)) = n
<1>1. IsFiniteSet({i}) /\ Cardinality({i}) = 1
  BY FS_Singleton
<1>2. IsFiniteSet(1 .. n) /\ Cardinality(1 .. n) = n
  BY FS_Interval
<1>3. /\ IsFiniteSet({i} \X (1 .. n))
      /\ Cardinality({i} \X (1 .. n)) = Cardinality({i}) * Cardinality(1 .. n)
  BY <1>1, <1>2, FS_Product
<1>4. QED
  BY <1>1, <1>2, <1>3

\* The tokens an input stands for: none if it is a dummy.
InTokens(n) == IF n \in Dummies THEN {} ELSE Tokens(n)

LEMMA InTokenCount ==
  ASSUME TypeOK, NEW n \in Inputs
  PROVE  /\ InAmount(n) \in 0 .. MaxExtAmount - 1
         /\ IsFiniteSet(InTokens(n)) /\ Cardinality(InTokens(n)) = InAmount(n)
<1>1. CASE n \in Dummies
  BY <1>1, FS_EmptySet, AmountAssumption DEF InAmount, InTokens
<1>2. CASE n \notin Dummies
  <2>1. leaves[n] \in Note
    BY <1>2 DEF TypeOK, Inputs
  <2>2. leaves[n].amount \in Nat /\ leaves[n].amount \in 0 .. MaxExtAmount - 1
    BY <2>1, AmountAssumption DEF Note
  <2>3. QED
    BY <1>2, <2>2, TokenCount DEF InAmount, InTokens, Tokens
<1>3. QED
  BY <1>1, <1>2

LEMMA InTokensOf ==
  ASSUME TypeOK, NEW i \in 0 .. nextIndex - 1, NEW n \in Inputs, NEW x \in Tokens(i)
  PROVE  x \in InTokens(n) <=> i = n
<1>1. x[1] = i
  BY DEF Tokens
<1>2. CASE n \in Dummies
  <2>1. i \in Nat
    BY DEF TypeOK
  <2>2. QED
    BY <1>2, <2>1, DummyAssumption DEF InTokens
<1>3. CASE n \notin Dummies
  <2>1. \A y \in Tokens(n) : y[1] = n
    BY DEF Tokens
  <2>2. QED
    BY <1>1, <1>3, <2>1 DEF InTokens
<1>4. QED
  BY <1>2, <1>3

\* Marking two nullifiers and inserting two commitments exchanges the tokens
\* of the inputs for those of the outputs.
LEMMA TokensExchanged ==
  ASSUME TypeOK, NEW in1 \in Inputs, NEW in2 \in Inputs,
         in1 \notin Nullified, in2 \notin Nullified, in1 # in2,
         Nullified' = Nullified \cup {in1, in2},
         NEW o1 \in Note, NEW o2 \in Note, InsertTwoLeaves(o1, o2)
  PROVE  LET A == InTokens(in1)
             B == InTokens(in2)
             C == {nextIndex} \X (1 .. o1.amount)
             D == {nextIndex + 1} \X (1 .. o2.amount)
         IN  /\ UnspentTokens' = (UnspentTokens \ (A \cup B)) \cup (C \cup D)
             /\ A \subseteq UnspentTokens /\ B \subseteq UnspentTokens
             /\ A \cap B = {} /\ C \cap D = {} /\ UnspentTokens \cap (C \cup D) = {}
<1> DEFINE A == InTokens(in1)
           B == InTokens(in2)
           C == {nextIndex} \X (1 .. o1.amount)
           D == {nextIndex + 1} \X (1 .. o2.amount)
<1>1. /\ nextIndex \in Nat /\ nextIndex' = nextIndex + 2
      /\ leaves' = [i \in 0 .. nextIndex + 1 |->
                      IF i = nextIndex THEN o1
                      ELSE IF i = nextIndex + 1 THEN o2 ELSE leaves[i]]
      /\ Nullified \subseteq (0 .. nextIndex - 1) \cup Dummies
  BY NullifiedType DEF TypeOK, InsertTwoLeaves
<1>2. \A d \in Dummies : d \notin 0 .. nextIndex + 1
  BY <1>1, DummyAssumption
<1>3. \A n \in {in1, in2} : n \in Dummies \/ n \in (0 .. nextIndex - 1) \ Nullified
  BY DEF Inputs
<1>4. A \subseteq UnspentTokens /\ B \subseteq UnspentTokens /\ A \cap B = {}
  BY <1>3 DEF InTokens, Tokens, UnspentTokens
<1>5. C \cap D = {}
  BY <1>1
<1>6. UnspentTokens \cap (C \cup D) = {}
  BY <1>1 DEF UnspentTokens, Tokens
<1>7. \A i \in 0 .. nextIndex - 1 : Tokens(i)' = Tokens(i)
  BY <1>1 DEF Tokens
<1>8. leaves'[nextIndex] = o1 /\ leaves'[nextIndex + 1] = o2
  BY <1>1
<1>9. \A x : x \in UnspentTokens' <=> x \in (UnspentTokens \ (A \cup B)) \cup (C \cup D)
  <2> DEFINE T(i) == {i} \X (1 .. leaves'[i].amount)
  <2> TAKE x
  <2>1. x \in UnspentTokens' <=> \E i \in (0 .. nextIndex + 1) \ Nullified' : x \in T(i)
    BY <1>1 DEF UnspentTokens, Tokens
  <2>2. x \in UnspentTokens <=> \E i \in (0 .. nextIndex - 1) \ Nullified : x \in Tokens(i)
    BY DEF UnspentTokens
  <2>3. T(nextIndex) = C /\ T(nextIndex + 1) = D
    BY <1>8
  <2>4. \A i \in 0 .. nextIndex - 1 : T(i) = Tokens(i)
    BY <1>1 DEF Tokens
  <2>5. nextIndex \notin Nullified' /\ nextIndex + 1 \notin Nullified'
    BY <1>1, <1>2, <1>3
  <2>6. (0 .. nextIndex + 1) \ Nullified'
          = ((0 .. nextIndex - 1) \ Nullified') \cup {nextIndex, nextIndex + 1}
    BY <1>1, <2>5
  <2>7. x \in UnspentTokens' <=> \/ \E i \in (0 .. nextIndex - 1) \ Nullified' : x \in Tokens(i)
                                \/ x \in C \cup D
    <3> HIDE DEF T, C, D
    <3>1. x \in UnspentTokens' <=> \/ \E i \in (0 .. nextIndex - 1) \ Nullified' : x \in T(i)
                                  \/ x \in T(nextIndex) \/ x \in T(nextIndex + 1)
      BY <2>1, <2>6
    <3>2. QED
      BY <2>3, <2>4, <3>1
  <2>8. (0 .. nextIndex - 1) \ Nullified' = ((0 .. nextIndex - 1) \ Nullified) \ {in1, in2}
    OBVIOUS
  <2>9. \A i \in 0 .. nextIndex - 1 : x \in Tokens(i) => (x \in A <=> i = in1) /\ (x \in B <=> i = in2)
    BY InTokensOf
  <2>10. (\E i \in (0 .. nextIndex - 1) \ Nullified' : x \in Tokens(i))
           <=> x \in UnspentTokens \ (A \cup B)
    <3> HIDE DEF A, B
    <3>1. QED
      BY <2>2, <2>8, <2>9
  <2>11. QED
    BY <2>7, <2>10
<1>10. QED
  BY <1>4, <1>5, <1>6, <1>9

\* What MoveTokens does to the pool's own balance.
LEMMA PoolBalance ==
  ASSUME TypeOK, NEW sender \in Users,
         NEW ext, ext.recipient \in Addresses, ext.amount \in Int, MoveTokens(sender, ext)
  PROVE  balance'[PoolAddr] \in Nat /\ balance'[PoolAddr] >= balance[PoolAddr] + ext.amount
<1>1. /\ sender \in Addresses /\ PoolAddr \in Addresses /\ ext.recipient \in Addresses
      /\ sender # PoolAddr /\ ext.amount \in Int /\ balance[PoolAddr] \in Nat
  BY AddressAssumption DEF Addresses, TypeOK
<1>2. balance' \in [Addresses -> Nat]
  BY MoveTokensType DEF TypeOK
<1>3. CASE ext.amount > 0
  <2>1. Transfer(sender, PoolAddr, ext.amount)
    BY <1>1, <1>3 DEF MoveTokens
  <2>2. balance'[PoolAddr] = balance[PoolAddr] - 0 + ext.amount
    BY <1>1, <2>1 DEF Transfer
  <2>3. QED
    BY <1>1, <1>2, <2>2
<1>4. CASE ext.amount < 0
  <2>1. Transfer(PoolAddr, ext.recipient, -ext.amount)
    BY <1>1, <1>4 DEF MoveTokens
  <2>2. balance'[PoolAddr] = balance[PoolAddr] - (-ext.amount)
                             + (IF PoolAddr = ext.recipient THEN -ext.amount ELSE 0)
    BY <1>1, <2>1 DEF Transfer
  <2>3. QED
    BY <1>1, <1>2, <1>4, <2>2
<1>5. CASE ext.amount = 0
  BY <1>1, <1>2, <1>5 DEF MoveTokens
<1>6. QED
  BY <1>1, <1>3, <1>4, <1>5

\* Solvent, with the finiteness that gives the cardinality a meaning.
Covered == IsFiniteSet(UnspentTokens) /\ Cardinality(UnspentTokens) <= balance[PoolAddr]

SolventInv == Canonical => Covered

LEMMA UnspentCounted ==
  ASSUME TypeOK, IsFiniteSet(UnspentTokens), NEW in1 \in Inputs, NEW in2 \in Inputs,
         in1 \notin Nullified, in2 \notin Nullified, in1 # in2,
         Nullified' = Nullified \cup {in1, in2},
         NEW o1 \in Note, NEW o2 \in Note, InsertTwoLeaves(o1, o2)
  PROVE  /\ IsFiniteSet(UnspentTokens')
         /\ Cardinality(UnspentTokens')
              = Cardinality(UnspentTokens) - InAmount(in1) - InAmount(in2)
                + o1.amount + o2.amount
<1> DEFINE A == InTokens(in1)
           B == InTokens(in2)
           C == {nextIndex} \X (1 .. o1.amount)
           D == {nextIndex + 1} \X (1 .. o2.amount)
<1>1. o1.amount \in Nat /\ o2.amount \in Nat
  BY AmountAssumption DEF Note
<1>2. /\ UnspentTokens' = (UnspentTokens \ (A \cup B)) \cup (C \cup D)
      /\ A \subseteq UnspentTokens /\ B \subseteq UnspentTokens
      /\ A \cap B = {} /\ C \cap D = {} /\ UnspentTokens \cap (C \cup D) = {}
  BY TokensExchanged
<1>3. Cardinality(A) = InAmount(in1) /\ Cardinality(B) = InAmount(in2)
  BY InTokenCount
<1>4. /\ IsFiniteSet(C) /\ Cardinality(C) = o1.amount
      /\ IsFiniteSet(D) /\ Cardinality(D) = o2.amount
  BY <1>1, TokenCount
<1>5. /\ IsFiniteSet(UnspentTokens')
      /\ Cardinality(UnspentTokens')
           = Cardinality(UnspentTokens) - Cardinality(A) - Cardinality(B)
             + Cardinality(C) + Cardinality(D)
  <2> HIDE DEF A, B, C, D
  <2>1. QED
    BY <1>2, <1>4, ExchangeCardinality
<1>6. QED
  BY <1>3, <1>4, <1>5

LEMMA ExchangeKeepsSolvent ==
  ASSUME TypeOK, Covered, NEW in1 \in Inputs, NEW in2 \in Inputs,
         in1 \notin Nullified, in2 \notin Nullified, in1 # in2,
         Nullified' = Nullified \cup {in1, in2},
         NEW o1 \in Note, NEW o2 \in Note, InsertTwoLeaves(o1, o2),
         NEW sender \in Users, NEW ext, ext.recipient \in Addresses, ext.amount \in Int,
         MoveTokens(sender, ext),
         o1.amount + o2.amount = InAmount(in1) + InAmount(in2) + ext.amount
  PROVE  Covered'
<1>1. /\ IsFiniteSet(UnspentTokens')
      /\ Cardinality(UnspentTokens')
           = Cardinality(UnspentTokens) - InAmount(in1) - InAmount(in2) + o1.amount + o2.amount
  BY UnspentCounted DEF Covered
<1>2. balance'[PoolAddr] \in Nat /\ balance'[PoolAddr] >= balance[PoolAddr] + ext.amount
  BY PoolBalance
<1>3. Cardinality(UnspentTokens) \in Nat /\ Cardinality(UnspentTokens) <= balance[PoolAddr]
  BY FS_CardinalityType DEF Covered
<1>4. balance[PoolAddr] \in Nat
  BY DEF TypeOK, Addresses
<1>5. /\ InAmount(in1) \in Int /\ InAmount(in2) \in Int
      /\ o1.amount \in Int /\ o2.amount \in Int
  BY InTokenCount, AmountAssumption DEF Note
<1>6. Cardinality(UnspentTokens') <= balance'[PoolAddr]
  BY <1>1, <1>2, <1>3, <1>4, <1>5
<1>7. QED
  BY <1>1, <1>6 DEF Covered

LEMMA TransactKeepsSolvent ==
  ASSUME TypeOK, SolventInv, NEW root, NEW in1 \in Inputs, NEW in2 \in Inputs,
         NEW k1, NEW k2, Transact(root, <<in1, in2>>, <<k1, k2>>)
  PROVE  SolventInv'
<1> SUFFICES ASSUME Canonical' PROVE Covered'
  BY DEF SolventInv
<1>1. PICK q \in Proofs(root, <<in1, in2>>) :
        /\ Provable(q)
        /\ \E sender \in Users, ext \in ExtData :
             PublicAmountMatches(q, ext) /\ MoveTokens(sender, ext)
        /\ InsertTwoLeaves(q.outs[1], q.outs[2])
  BY TransactFacts
<1>2. PICK sender \in Users, ext \in ExtData :
        PublicAmountMatches(q, ext) /\ MoveTokens(sender, ext)
  BY <1>1
<1> DEFINE o1 == q.outs[1]
           o2 == q.outs[2]
<1>3. o1 \in Note /\ o2 \in Note
  BY <1>1, ProofFields, OutputIsNote DEF Provable
<1>4. /\ o1.amount \in 0 .. MaxExtAmount - 1 /\ o2.amount \in 0 .. MaxExtAmount - 1
      /\ InAmount(in1) \in 0 .. MaxExtAmount - 1 /\ InAmount(in2) \in 0 .. MaxExtAmount - 1
  BY <1>3, InTokenCount DEF Note
<1>5. /\ ext.recipient \in Addresses /\ ext.amount \in Int
      /\ ext.amount < MaxExtAmount /\ -ext.amount < MaxExtAmount
  BY <1>2, ExtDataFields DEF PublicAmountMatches
<1>6. (o1.amount + o2.amount - InAmount(in1) - InAmount(in2)) % FieldSize
        = PublicAmount(ext.amount)
  BY <1>1, <1>2, ProofFields DEF PublicAmountMatches, BalancingAmount
<1>7. o1.amount + o2.amount = InAmount(in1) + InAmount(in2) + ext.amount
  BY <1>4, <1>5, <1>6, FieldBalance
<1>8. /\ in1 \notin Nullified /\ in2 \notin Nullified /\ in1 # in2
      /\ Nullified' = Nullified \cup {in1, in2} /\ Covered
  BY PlainNullifiers DEF SolventInv
<1> HIDE DEF o1, o2
<1>9. InsertTwoLeaves(o1, o2)
  BY <1>1 DEF o1, o2
<1>10. QED
  BY <1>2, <1>3, <1>5, <1>7, <1>8, <1>9, ExchangeKeepsSolvent

LEMMA SolventStep == TypeOK /\ SolventInv /\ [Next]_vars => SolventInv'
<1> SUFFICES ASSUME TypeOK, SolventInv, [Next]_vars PROVE SolventInv'
  OBVIOUS
<1>1. CASE SubmitProof
  <2>1. PICK root \in TreeRoots, in1 \in Inputs, in2 \in Inputs,
             k1 \in Multiples, k2 \in Multiples : Transact(root, <<in1, in2>>, <<k1, k2>>)
    BY <1>1 DEF SubmitProof
  <2>2. QED
    BY <2>1, TransactKeepsSolvent
<1>2. CASE Administer \/ UNCHANGED vars
  BY <1>2, AdministerKeepsTree
     DEF SolventInv, Covered, Canonical, Nullified, UnspentTokens, Tokens, merkleVars
<1>3. QED
  BY <1>1, <1>2 DEF Next

LEMMA SolventInvariant == Spec => []SolventInv
<1>1. Init => SolventInv
  <2> SUFFICES ASSUME Init PROVE SolventInv
    OBVIOUS
  <2>1. UnspentTokens = {}
    BY DEF Init, MerkleInit, UnspentTokens
  <2>2. balance[PoolAddr] = 0
    BY DEF Init, Addresses
  <2>3. QED
    BY <2>1, <2>2, FS_EmptySet DEF SolventInv, Covered
<1>2. QED
  BY <1>1, SolventStep, TypeCorrect, PTL DEF Spec

(***************************************************************************)
(* As long as calls are given field elements, the tokens the pool holds    *)
(* cover the notes nobody has spent, for every number of users, notes and  *)
(* calls and every size of tree, ring and field in which four amounts do   *)
(* not wrap around.                                                        *)
(***************************************************************************)
THEOREM PoolIsSolvent == Spec => []Solvent
<1>1. SolventInv => Solvent
  BY DEF SolventInv, Covered, Solvent
<1>2. QED
  BY <1>1, SolventInvariant, PTL

-----------------------------------------------------------------------------
(* The private ledger.                                                     *)

\* The owner and worth of an input, as a debit of the ledger.
Debit(q, i) == [owner |-> q.owners[i], amount |-> InAmount(q.ins[i])]

\* u's share of the tokens of input n, opened with owner's key.
DebitTokens(owner, n, u) == IF owner = u THEN InTokens(n) ELSE {}

\* u's share of the tokens of a note inserted at leaf i.
CreditTokens(i, o, u) == IF o.owner = u THEN {i} \X (1 .. o.amount) ELSE {}

LEMMA CreditCount ==
  ASSUME NEW i, NEW o \in Note, NEW u
  PROVE  /\ IsFiniteSet(CreditTokens(i, o, u))
         /\ Cardinality(CreditTokens(i, o, u)) = Ledger!Part(o, u)
<1>1. o.amount \in Nat
  BY AmountAssumption DEF Note
<1>2. QED
  BY <1>1, TokenCount, FS_EmptySet DEF CreditTokens, Ledger!Part

LEMMA DebitCount ==
  ASSUME TypeOK, NEW n \in Inputs, NEW owner, NEW u
  PROVE  /\ IsFiniteSet(DebitTokens(owner, n, u))
         /\ Cardinality(DebitTokens(owner, n, u))
              = Ledger!Part([owner |-> owner, amount |-> InAmount(n)], u)
BY InTokenCount, FS_EmptySet DEF DebitTokens, Ledger!Part

\* An accepted transaction exchanges, for each user, the tokens of the inputs
\* the user's key opens for those of the outputs the user owns.
LEMMA TokensOfExchanged ==
  ASSUME TypeOK, NEW root, NEW in1 \in Inputs, NEW in2 \in Inputs,
         in1 \notin Nullified, in2 \notin Nullified, in1 # in2,
         Nullified' = Nullified \cup {in1, in2},
         NEW q \in Proofs(root, <<in1, in2>>), Provable(q),
         NEW o1 \in Note, NEW o2 \in Note, InsertTwoLeaves(o1, o2), NEW u
  PROVE  LET A == DebitTokens(q.owners[1], in1, u)
             B == DebitTokens(q.owners[2], in2, u)
             C == CreditTokens(nextIndex, o1, u)
             D == CreditTokens(nextIndex + 1, o2, u)
         IN  /\ TokensOf(u)' = (TokensOf(u) \ (A \cup B)) \cup (C \cup D)
             /\ A \subseteq TokensOf(u) /\ B \subseteq TokensOf(u)
             /\ A \cap B = {} /\ C \cap D = {} /\ TokensOf(u) \cap (C \cup D) = {}
<1> DEFINE A == InTokens(in1)
           B == InTokens(in2)
           C == {nextIndex} \X (1 .. o1.amount)
           D == {nextIndex + 1} \X (1 .. o2.amount)
           Au == DebitTokens(q.owners[1], in1, u)
           Bu == DebitTokens(q.owners[2], in2, u)
           Cu == CreditTokens(nextIndex, o1, u)
           Du == CreditTokens(nextIndex + 1, o2, u)
<1>1. /\ UnspentTokens' = (UnspentTokens \ (A \cup B)) \cup (C \cup D)
      /\ A \subseteq UnspentTokens /\ B \subseteq UnspentTokens
      /\ A \cap B = {} /\ C \cap D = {} /\ UnspentTokens \cap (C \cup D) = {}
  BY TokensExchanged
<1>2. /\ in1 \notin Dummies => leaves[in1].owner = q.owners[1]
      /\ in2 \notin Dummies => leaves[in2].owner = q.owners[2]
  BY ProofFields DEF Provable, Opens
<1>3. /\ \A x \in A : leaves[x[1]].owner = q.owners[1]
      /\ \A x \in B : leaves[x[1]].owner = q.owners[2]
  BY <1>2 DEF InTokens, Tokens
<1>4. /\ nextIndex \in Nat
      /\ leaves' = [i \in 0 .. nextIndex + 1 |->
                      IF i = nextIndex THEN o1
                      ELSE IF i = nextIndex + 1 THEN o2 ELSE leaves[i]]
  BY DEF TypeOK, InsertTwoLeaves
<1>5. /\ \A x \in UnspentTokens : leaves'[x[1]] = leaves[x[1]]
      /\ \A x \in C : leaves'[x[1]] = o1
      /\ \A x \in D : leaves'[x[1]] = o2
  <2>1. \A x \in UnspentTokens : x[1] \in 0 .. nextIndex - 1
    BY DEF UnspentTokens, Tokens
  <2>2. (\A x \in C : x[1] = nextIndex) /\ (\A x \in D : x[1] = nextIndex + 1)
    OBVIOUS
  <2>3. QED
    BY <1>4, <2>1, <2>2
<1>6. Au = {x \in A : leaves[x[1]].owner = u} /\ Bu = {x \in B : leaves[x[1]].owner = u}
  BY <1>3 DEF DebitTokens
<1>7. Cu = {x \in C : leaves'[x[1]].owner = u} /\ Du = {x \in D : leaves'[x[1]].owner = u}
  BY <1>5 DEF CreditTokens
<1>8. TokensOf(u)' = {x \in UnspentTokens' : leaves'[x[1]].owner = u}
  BY DEF TokensOf
<1>9. TokensOf(u) = {x \in UnspentTokens : leaves[x[1]].owner = u}
  BY DEF TokensOf
<1> HIDE DEF A, B, C, D, Au, Bu, Cu, Du
<1>10. TokensOf(u)' = (TokensOf(u) \ (Au \cup Bu)) \cup (Cu \cup Du)
  BY <1>1, <1>5, <1>6, <1>7, <1>8, <1>9
<1>11. /\ Au \subseteq TokensOf(u) /\ Bu \subseteq TokensOf(u)
       /\ Au \cap Bu = {} /\ Cu \cap Du = {} /\ TokensOf(u) \cap (Cu \cup Du) = {}
  BY <1>1, <1>6, <1>7, <1>9
<1>12. QED
  BY <1>10, <1>11 DEF Au, Bu, Cu, Du

\* The token moves of a call are the ledger's payment.
LEMMA MoveTokensPays ==
  ASSUME TypeOK, NEW sender \in Users, NEW ext \in ExtData, MoveTokens(sender, ext)
  PROVE  \/ \E s \in Users : /\ ext.amount >= 0 /\ ext.amount <= balance[s]
                             /\ Ledger!Pay(s, PoolAddr, ext.amount)
         \/ \E r \in Addresses : ext.amount < 0 /\ Ledger!Pay(PoolAddr, r, -ext.amount)
<1>1. /\ sender \in Addresses /\ PoolAddr \in Addresses /\ ext.recipient \in Addresses
      /\ ext.amount \in Int /\ balance \in [Addresses -> Nat]
  BY ExtDataAssumption DEF Addresses, TypeOK
<1>2. CASE ext.amount > 0
  <2>1. Transfer(sender, PoolAddr, ext.amount)
    BY <1>1, <1>2 DEF MoveTokens
  <2>2. QED
    BY <1>1, <1>2, <2>1 DEF Transfer, Ledger!Pay, Ledger!Addresses, Addresses
<1>3. CASE ext.amount < 0
  <2>1. Transfer(PoolAddr, ext.recipient, -ext.amount)
    BY <1>1, <1>3 DEF MoveTokens
  <2>2. QED
    BY <1>1, <1>3, <2>1 DEF Transfer, Ledger!Pay, Ledger!Addresses, Addresses
<1>4. CASE ext.amount = 0
  <2>1. balance' = balance
    BY <1>1, <1>4 DEF MoveTokens
  <2>2. balance = [a \in Addresses |-> balance[a] - (IF a = sender THEN 0 ELSE 0)
                                                 + (IF a = PoolAddr THEN 0 ELSE 0)]
    BY <1>1
  <2>3. Ledger!Pay(sender, PoolAddr, ext.amount)
    BY <1>4, <2>1, <2>2 DEF Ledger!Pay, Ledger!Addresses, Addresses
  <2>4. QED
    BY <1>1, <1>4, <2>3
<1>5. QED
  BY <1>1, <1>2, <1>3, <1>4

LEMMA TransactMoves ==
  ASSUME TypeOK, SolventInv, NEW root, NEW in1 \in Inputs, NEW in2 \in Inputs,
         NEW k1, NEW k2, Transact(root, <<in1, in2>>, <<k1, k2>>), Canonical'
  PROVE  Ledger!Next
<1>0. /\ in1 \notin Nullified /\ in2 \notin Nullified /\ in1 # in2
      /\ Nullified' = Nullified \cup {in1, in2} /\ Covered
  BY PlainNullifiers DEF SolventInv
<1>1. PICK q \in Proofs(root, <<in1, in2>>) :
        /\ Provable(q)
        /\ \E sender \in Users, ext \in ExtData :
             PublicAmountMatches(q, ext) /\ MoveTokens(sender, ext)
        /\ InsertTwoLeaves(q.outs[1], q.outs[2])
  BY TransactFacts
<1>2. PICK sender \in Users, ext \in ExtData :
        PublicAmountMatches(q, ext) /\ MoveTokens(sender, ext)
  BY <1>1
<1> DEFINE o1 == q.outs[1]
           o2 == q.outs[2]
           debit == <<Debit(q, 1), Debit(q, 2)>>
           credit == <<o1, o2>>
<1>3. o1 \in Note /\ o2 \in Note
  BY <1>1, ProofFields, OutputIsNote DEF Provable
<1>4. /\ InAmount(in1) \in 0 .. MaxExtAmount - 1
      /\ InAmount(in2) \in 0 .. MaxExtAmount - 1
  BY InTokenCount
<1>5. credit \in Ledger!Share \X Ledger!Share /\ debit \in Ledger!Share \X Ledger!Share
  BY <1>3, <1>4, ProofFields DEF Ledger!Share, Note, Debit
<1>6. /\ o1.amount \in 0 .. MaxExtAmount - 1 /\ o2.amount \in 0 .. MaxExtAmount - 1
      /\ ext.amount \in Int /\ ext.amount < MaxExtAmount /\ -ext.amount < MaxExtAmount
  BY <1>2, <1>3, ExtDataAssumption DEF Note, PublicAmountMatches
<1>7. Ledger!Worth(credit) - Ledger!Worth(debit) = ext.amount
  <2>1. (o1.amount + o2.amount - InAmount(in1) - InAmount(in2)) % FieldSize
          = PublicAmount(ext.amount)
    BY <1>1, <1>2, ProofFields DEF BalancingAmount, PublicAmountMatches
  <2>2. o1.amount + o2.amount = InAmount(in1) + InAmount(in2) + ext.amount
    BY <1>4, <1>6, <2>1, FieldBalance
  <2>3. /\ Ledger!Worth(credit) = o1.amount + o2.amount
        /\ Ledger!Worth(debit) = InAmount(in1) + InAmount(in2)
    BY ProofFields DEF Ledger!Worth, Debit
  <2>4. QED
    BY <1>4, <1>6, <2>2, <2>3
<1>8. ASSUME NEW u \in Users
      PROVE  /\ Ledger!WorthTo(debit, u) <= PrivateBalance[u]
             /\ PrivateBalance'[u] = PrivateBalance[u] - Ledger!WorthTo(debit, u)
                                                       + Ledger!WorthTo(credit, u)
  <2> DEFINE U == TokensOf(u)
             W == TokensOf(u)'
             A == DebitTokens(q.owners[1], in1, u)
             B == DebitTokens(q.owners[2], in2, u)
             C == CreditTokens(nextIndex, o1, u)
             D == CreditTokens(nextIndex + 1, o2, u)
  <2>1. /\ W = (U \ (A \cup B)) \cup (C \cup D)
        /\ A \subseteq U /\ B \subseteq U
        /\ A \cap B = {} /\ C \cap D = {} /\ U \cap (C \cup D) = {}
    BY <1>0, <1>1, <1>3, TokensOfExchanged
  <2>2. /\ IsFiniteSet(A) /\ Cardinality(A) = Ledger!Part(Debit(q, 1), u)
        /\ IsFiniteSet(B) /\ Cardinality(B) = Ledger!Part(Debit(q, 2), u)
    BY DebitCount, ProofFields DEF Debit
  <2>3. /\ IsFiniteSet(C) /\ Cardinality(C) = Ledger!Part(o1, u)
        /\ IsFiniteSet(D) /\ Cardinality(D) = Ledger!Part(o2, u)
    BY <1>3, CreditCount
  <2>4. IsFiniteSet(U)
    BY <1>0, FS_Subset DEF Covered, TokensOf
  <2>5. /\ Ledger!WorthTo(debit, u) = Ledger!Part(Debit(q, 1), u) + Ledger!Part(Debit(q, 2), u)
        /\ Ledger!WorthTo(credit, u) = Ledger!Part(o1, u) + Ledger!Part(o2, u)
    BY DEF Ledger!WorthTo
  <2>6. PrivateBalance[u] = Cardinality(U) /\ PrivateBalance'[u] = Cardinality(W)
    BY DEF PrivateBalance
  <2> HIDE DEF debit, credit, o1, o2, U, W, A, B, C, D
  <2>7. /\ Cardinality(U) \in Nat /\ Cardinality(A) \in Nat /\ Cardinality(B) \in Nat
        /\ Cardinality(C) \in Nat /\ Cardinality(D) \in Nat
    BY <2>2, <2>3, <2>4, FS_CardinalityType
  <2>8. Cardinality(W) = Cardinality(U) - Cardinality(A) - Cardinality(B)
                         + Cardinality(C) + Cardinality(D)
    BY <2>1, <2>3, <2>4, ExchangeCardinality
  <2>9. Cardinality(A) + Cardinality(B) <= Cardinality(U)
    <3>1. A \cup B \subseteq U
      BY <2>1
    <3>2. Cardinality(A \cup B) = Cardinality(A) + Cardinality(B)
      BY <2>1, <2>2, DisjointUnion
    <3>3. Cardinality(A \cup B) <= Cardinality(U)
      BY <2>4, <3>1, FS_Subset
    <3>4. QED
      BY <3>2, <3>3
  <2>10. QED
    BY <2>2, <2>3, <2>5, <2>6, <2>7, <2>8, <2>9
<1>9. PrivateBalance' = [u \in Users |-> PrivateBalance[u] - Ledger!WorthTo(debit, u)
                                                          + Ledger!WorthTo(credit, u)]
  <2>1. PrivateBalance' = [u \in Users |-> PrivateBalance'[u]]
    BY DEF PrivateBalance
  <2>2. QED
    BY <1>8, <2>1
<1>10. debit \in Ledger!Debits
  BY <1>5, <1>8 DEF Ledger!Debits
<1>11. \/ \E s \in Users : /\ ext.amount >= 0 /\ ext.amount <= balance[s]
                           /\ Ledger!Pay(s, PoolAddr, ext.amount)
       \/ \E r \in Addresses : ext.amount < 0 /\ Ledger!Pay(PoolAddr, r, -ext.amount)
  BY <1>2, MoveTokensPays
<1> HIDE DEF debit, credit
<1>12. Ledger!Move(debit, credit)
  BY <1>7, <1>9, <1>11 DEF Ledger!Move, Ledger!Addresses, Addresses
<1>13. QED
  BY <1>5, <1>10, <1>12 DEF Ledger!Next

(***************************************************************************)
(* As long as calls are given field elements, notes, nullifiers, stale     *)
(* roots and proofs are an implementation of private accounts: for every   *)
(* number of users and notes and every size of tree, ring and field in     *)
(* which four amounts do not wrap around, each accepted call debits the    *)
(* accounts whose keys open its inputs by no more than they hold, credits  *)
(* the owners of its outputs, and moves the difference of the two in       *)
(* public; nothing else moves anything.                                    *)
(***************************************************************************)
THEOREM PoolImplementsLedger == Spec => ImplementsLedger
<1>1. Init => Ledger!Init
  <2> SUFFICES ASSUME Init PROVE Ledger!Init
    OBVIOUS
  <2>1. \A u \in Users : TokensOf(u) = {}
    BY DEF Init, MerkleInit, UnspentTokens, TokensOf
  <2>2. PrivateBalance = [u \in Users |-> 0]
    BY <2>1, FS_EmptySet DEF PrivateBalance
  <2>3. QED
    BY <2>2 DEF Init, Ledger!Init, Ledger!Addresses, Addresses
<1>2. TypeOK /\ SolventInv /\ [Next]_vars
        => [Canonical' => [Ledger!Next]_<<PrivateBalance, balance>>]_vars
  <2> SUFFICES ASSUME TypeOK, SolventInv, [Next]_vars, Canonical'
               PROVE  Ledger!Next \/ UNCHANGED <<PrivateBalance, balance>>
    OBVIOUS
  <2>1. CASE SubmitProof
    <3>1. PICK root \in TreeRoots, in1 \in Inputs, in2 \in Inputs,
               k1 \in Multiples, k2 \in Multiples : Transact(root, <<in1, in2>>, <<k1, k2>>)
      BY <2>1 DEF SubmitProof
    <3>2. QED
      BY <3>1, TransactMoves
  <2>2. CASE Administer \/ UNCHANGED vars
    BY <2>2, AdministerKeepsTree
       DEF PrivateBalance, TokensOf, UnspentTokens, Tokens, Nullified, merkleVars
  <2>3. QED
    BY <2>1, <2>2 DEF Next
<1>3. QED
  BY <1>1, <1>2, TypeCorrect, SolventInvariant, PTL DEF Spec, ImplementsLedger
=============================================================================
