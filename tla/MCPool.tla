-------------------------------- MODULE MCPool --------------------------------
(* A small instance of Pool for TLC.  One user is a member of the first list *)
(* from the start.  In a behaviour of the ledger the other one is admitted   *)
(* at once and then both pay until the tree is full; in a behaviour of the  *)
(* policy, of half that length and with two kinds of notes, the admins act; *)
(* in one of the keys, of three transactions with two kinds of notes, the   *)
(* nullifiers of a call are of any size; the third follows two that have    *)
(* consumed a token and used at most one key that is no field element.      *)
EXTENDS Pool, TLC

CONSTANTS u1, u2, pool, d1, d2, d3

VARIABLE part  \* "ledger", "policy" or "keys"

\* Deposits and withdrawals of one token; a withdrawal may name the pool itself.
MCExtData == {[recipient |-> u1, amount |-> 0], [recipient |-> u1, amount |-> 1],
              [recipient |-> u2, amount |-> -1], [recipient |-> pool, amount |-> -1]}

\* Notes of nothing, of one token, and of the field's minus one.
MCOutputs == {[owner |-> u1, amount |-> 0], [owner |-> u1, amount |-> 1],
              [owner |-> u2, amount |-> 1], [owner |-> u1, amount |-> FieldSize - 1]}

MCInitialBalance == (u1 :> 2) @@ (u2 :> 0)

MCFirstMember == <<u1>>

\* Neither the circuit nor the contract tells the two inputs apart, so the
\* steps of the first two parts have them in one order, dummies last.
InputPairs ==
  {ins \in Inputs \X Inputs :
     ins[2] \in Dummies \/ (ins[1] \notin Dummies /\ ins[1] <= ins[2])}

\* A full tree takes no proof (InsertTwoLeaves): said first, it spares TLC the
\* enumeration of the proofs there.
LedgerNext ==
  IF members[aspMembership] = MCFirstMember
  THEN AspInsertLeaf(aspMembership, u2)
  ELSE /\ nextIndex + 2 <= MaxLeaves
       /\ \E root \in TreeRoots, ins \in InputPairs : Transact(root, ins, Plain)

PolicyNotes == {[owner |-> u1, amount |-> 0], [owner |-> u2, amount |-> 1]}

PolicyNext ==
  \/ /\ nextIndex + 2 <= 4
     /\ \E root \in TreeRoots, ins \in InputPairs :
          /\ Cardinality((Nullified \cup Elements(ins)) \cap Dummies) <= 2
          /\ Transact(root, ins, Plain)
     /\ \A i \in DOMAIN leaves' : leaves'[i] \in PolicyNotes
  \/ Administer

KeyNotes == {[owner |-> u1, amount |-> 0], [owner |-> u1, amount |-> 1]}

KeysNext ==
  /\ nextIndex = 4 => /\ \E n \in Nullified : InAmount(n) > 0
                      /\ Cardinality({x \in spent : x[2] > 0}) <= 1
  /\ nextIndex + 2 <= 6 /\ SubmitProof
  /\ \A i \in DOMAIN leaves' : leaves'[i] \in KeyNotes

\* The two lists are alike at the start, so either may be consulted first.
PoolInit == Init /\ aspMembership = 1 /\ part \in {"ledger", "policy", "keys"}

PoolNext ==
  /\ UNCHANGED part
  /\ \/ part = "ledger" /\ LedgerNext
     \/ part = "policy" /\ PolicyNext
     \/ part = "keys" /\ KeysNext

PoolSpec == PoolInit /\ [][PoolNext]_<<vars, part>>

DummySymmetry == Permutations(Dummies)
=============================================================================
