-------------------------- MODULE MerkleWithHistory --------------------------
(***************************************************************************)
(* The pool's commitment tree with its ring of recent roots                *)
(* (contracts/pool/src/merkle_with_history.rs).                            *)
(*                                                                         *)
(* The contract stores hashes only.  Here the tree is its content: leaves  *)
(* maps each inserted index to its leaf.  The tree is append-only and the  *)
(* hash collision-free, so the root of the tree that holds the first n     *)
(* leaves is represented by n itself; module PoolTree computes the hashes  *)
(* level by level and shows that it implements this module.                *)
(***************************************************************************)
EXTENDS Integers

CONSTANTS
  Levels,           \* depth of the tree, 2^Levels leaves (init argument)
  RootHistorySize   \* slots of the ring, ROOT_HISTORY_SIZE (90 in the code)

ASSUME LevelsAssumption == Levels \in 1..32
ASSUME HistoryAssumption == RootHistorySize \in Nat \ {0}

VARIABLES
  leaves,           \* leaf inserted at each index below nextIndex
  nextIndex,        \* MerkleDataKey::NextIndex
  currentRootIndex, \* MerkleDataKey::CurrentRootIndex
  roots             \* MerkleDataKey::Root(i), for the slots written so far

merkleVars == <<leaves, nextIndex, currentRootIndex, roots>>

\* The U256 zero: no tree has it as its root, and is_known_root refuses it.
ZeroRoot == -1

MaxLeaves == 2 ^ Levels

Slots == 0 .. RootHistorySize - 1

MerkleInit ==
  /\ leaves = [i \in {} |-> i]
  /\ nextIndex = 0
  /\ currentRootIndex = 0
  /\ roots = [i \in {0} |-> 0]

(***************************************************************************)
(* is_known_root visits the slots one after the other from the current     *)
(* one, wrapping at the end of the ring, until it is back where it began.  *)
(***************************************************************************)
IsKnownRoot(r) ==
  /\ r # ZeroRoot
  /\ \E k \in 0 .. RootHistorySize - 1 :
       LET i == (currentRootIndex + k) % RootHistorySize
       IN  i \in DOMAIN roots /\ roots[i] = r

LastRoot == roots[currentRootIndex]

\* Variant: the ring wraps one slot late.
LateWrap == (currentRootIndex + 1) % (RootHistorySize + 1)

NextRootIndex == (currentRootIndex + 1) % RootHistorySize

(***************************************************************************)
(* insert_two_leaves.  An odd NextIndex and a full tree are errors: the    *)
(* host discards the whole call, which is no step of the specification.    *)
(***************************************************************************)
InsertTwoLeaves(leaf1, leaf2) ==
  /\ nextIndex % 2 = 0
  /\ nextIndex + 2 <= MaxLeaves
  /\ leaves' = [i \in 0 .. nextIndex + 1 |->
                  IF i = nextIndex THEN leaf1
                  ELSE IF i = nextIndex + 1 THEN leaf2
                  ELSE leaves[i]]
  /\ roots' = [i \in DOMAIN roots \cup {NextRootIndex} |->
                 IF i = NextRootIndex THEN nextIndex + 2 ELSE roots[i]]
  /\ currentRootIndex' = NextRootIndex
  /\ nextIndex' = nextIndex + 2

(***************************************************************************)
(* The roots a proof may still be made against are those of the last       *)
(* RootHistorySize states of the tree and no others: a root stays valid    *)
(* through RootHistorySize - 1 further insertions and expires with the     *)
(* next, whatever the position of the ring (wrap-around included).         *)
(***************************************************************************)
KnownRootsExact ==
  \A r \in 0 .. nextIndex :
    IsKnownRoot(r) <=> /\ r % 2 = 0
                       /\ r > nextIndex - 2 * RootHistorySize
=============================================================================
