------------------------------- MODULE PoolTree -------------------------------
(***************************************************************************)
(* The pool's commitment tree as the contract stores it                    *)
(* (contracts/pool/src/merkle_with_history.rs): one filled subtree for     *)
(* each height and a ring of roots, never the leaves.  The leaves are in   *)
(* the NewCommitmentEvent of each insertion, from which the client builds  *)
(* its own tree.                                                           *)
(***************************************************************************)
EXTENDS MerkleTree

CONSTANTS
  Commitments,      \* leaves that may be inserted
  RootHistorySize   \* ROOT_HISTORY_SIZE

CommitmentAssumption == EmptyLeaf \notin Commitments
HistoryAssumption == RootHistorySize \in Nat \ {0}

VARIABLES
  filled,           \* MerkleDataKey::FilledSubtree
  nextIndex,        \* MerkleDataKey::NextIndex
  currentRootIndex, \* MerkleDataKey::CurrentRootIndex
  roots,            \* MerkleDataKey::Root
  commitments       \* the NewCommitmentEvents, in order of index

vars == <<filled, nextIndex, currentRootIndex, roots, commitments>>

Init ==
  /\ filled = Zeroes
  /\ nextIndex = 0
  /\ currentRootIndex = 0
  /\ roots = [i \in {0} |-> Zeroes[Levels]]
  /\ commitments = <<>>

\* The two leaves are hashed first, so the path starts at height one.
PairPath(leaf1, leaf2) == Path(1, filled, nextIndex, Hash(leaf1, leaf2))

InsertTwoLeaves(leaf1, leaf2) ==
  LET path == PairPath(leaf1, leaf2)
      slot == (currentRootIndex + 1) % RootHistorySize
  IN  /\ nextIndex % 2 = 0
      /\ nextIndex + 2 <= MaxLeaves
      /\ filled' = KeepLeft(1, filled, nextIndex, path)
      /\ roots' = [i \in DOMAIN roots \cup {slot} |->
                     IF i = slot THEN path[Levels] ELSE roots[i]]
      /\ currentRootIndex' = slot
      /\ nextIndex' = nextIndex + 2
      /\ commitments' = commitments \o <<leaf1, leaf2>>

Next == \E leaf1, leaf2 \in Commitments : InsertTwoLeaves(leaf1, leaf2)

Spec == Init /\ [][Next]_vars

-----------------------------------------------------------------------------

(***************************************************************************)
(* A client that replays the NewCommitmentEvents rebuilds the root the     *)
(* contract computed incrementally, so the root it proves against is one   *)
(* the contract knows, at every size of the tree.                          *)
(***************************************************************************)
ClientRootIsCurrent == PrefixRoot(commitments) = roots[currentRootIndex]

(***************************************************************************)
(* A spender's proof for any note, built by the client from the events,    *)
(* passes the circuit's Merkle check against the contract's current root.  *)
(***************************************************************************)
EveryNoteProvable ==
  \A i \in 0 .. nextIndex - 1 :
    CircuitRoot(commitments[i + 1], i, PathElements(commitments, i))
      = roots[currentRootIndex]

-----------------------------------------------------------------------------
(* Refinement: a root stands for the number of leaves under it.            *)

\* The size of the tree with that root, or a number no root stands for.
LeavesUnder(root) ==
  LET sizes == {k \in 0 .. nextIndex : k % 2 = 0 /\ PrefixRoot(SubSeq(commitments, 1, k)) = root}
  IN  IF sizes = {} THEN -1 ELSE CHOOSE k \in sizes : TRUE

Abstract ==
  INSTANCE MerkleWithHistory
    WITH leaves <- [i \in 0 .. nextIndex - 1 |-> commitments[i + 1]],
         roots <- [i \in DOMAIN roots |-> LeavesUnder(roots[i])]

(***************************************************************************)
(* The stored hashes implement the tree the pool's specification uses, in  *)
(* which a root is identified with the leaves under it: distinct trees     *)
(* have distinct roots, and each slot of the ring holds the root of the    *)
(* state it was written in.                                                *)
(***************************************************************************)
AbstractStep == \E leaf1, leaf2 \in Commitments : Abstract!InsertTwoLeaves(leaf1, leaf2)

ImplementsMerkleWithHistory == Abstract!MerkleInit /\ [][AbstractStep]_(Abstract!merkleVars)
=============================================================================
