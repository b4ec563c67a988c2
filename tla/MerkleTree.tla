------------------------------ MODULE MerkleTree ------------------------------
(***************************************************************************)
(* Hash trees of a fixed depth over an append-only row of leaves: the      *)
(* contracts' incremental update along one path, the client's tree of a    *)
(* whole prefix (prover/src/merkle.rs) and the circuit's path check        *)
(* (circuits/src/merkleProof.circom).  A hash is the pair it was made of,  *)
(* so two trees have the same root exactly when they hold the same leaves. *)
(***************************************************************************)
EXTENDS Integers, Sequences

CONSTANTS
  Levels,     \* depth of the tree
  EmptyLeaf   \* zero_leaf, the value of a missing leaf

ASSUME LevelsAssumption == Levels \in 1 .. 32

Hash(left, right) == <<left, right>>

\* get_zeroes: the empty subtree of each height.
Zeroes[lvl \in 0 .. Levels] ==
  IF lvl = 0 THEN EmptyLeaf ELSE Hash(Zeroes[lvl - 1], Zeroes[lvl - 1])

MaxLeaves == 2 ^ Levels

-----------------------------------------------------------------------------
(* The contracts: recompute one path, with the left siblings kept.         *)

\* The ancestor of leaf index at height lvl is a right child.
IsRight(index, lvl) == (index \div 2 ^ lvl) % 2 = 1

\* Variant: a right child is paired with the empty subtree too.
LonelyPath(from, filled, index, hash) ==
  LET node[lvl \in from .. Levels] ==
        IF lvl = from THEN hash
        ELSE IF IsRight(index, lvl - 1) THEN Hash(Zeroes[lvl - 1], node[lvl - 1])
        ELSE Hash(node[lvl - 1], Zeroes[lvl - 1])
  IN  node

(***************************************************************************)
(* The hashes on the path of leaf index from height from, where the node   *)
(* is hash, to the root: a right child is paired with the filled subtree   *)
(* on its left, a left child with the empty subtree on its right.          *)
(***************************************************************************)
Path(from, filled, index, hash) ==
  LET node[lvl \in from .. Levels] ==
        IF lvl = from THEN hash
        ELSE IF IsRight(index, lvl - 1) THEN Hash(filled[lvl - 1], node[lvl - 1])
        ELSE Hash(node[lvl - 1], Zeroes[lvl - 1])
  IN  node

\* Variant: every node of the path is kept, right children included.
KeepAll(from, filled, index, path) ==
  [lvl \in 0 .. Levels |-> IF lvl \in from .. Levels - 1 THEN path[lvl] ELSE filled[lvl]]

\* The filled subtrees after that update: a left child is kept for its sibling.
KeepLeft(from, filled, index, path) ==
  [lvl \in 0 .. Levels |->
     IF lvl \in from .. Levels - 1 /\ ~IsRight(index, lvl) THEN path[lvl] ELSE filled[lvl]]

-----------------------------------------------------------------------------
(* The client: MerklePrefixTree over the leaves its events told it.        *)

Get(row, i, lvl) == IF i \in DOMAIN row THEN row[i] ELSE Zeroes[lvl]

NextRow(row, lvl) ==
  LET padded == IF row = <<>> THEN <<Zeroes[lvl]>> ELSE row
  IN  [i \in 1 .. (Len(padded) + 1) \div 2 |->
         Hash(Get(padded, 2 * i - 1, lvl), Get(padded, 2 * i, lvl))]

\* The rows of nodes, one for each height (build_from_parts).
Rows(prefix) ==
  LET row[lvl \in 0 .. Levels] ==
        IF lvl = 0 THEN prefix ELSE NextRow(row[lvl - 1], lvl - 1)
  IN  row

PrefixRoot(prefix) == Rows(prefix)[Levels][1]

\* Variant: the sibling is taken to be on the right always.
RightSiblings(prefix, index) ==
  [lvl \in 0 .. Levels - 1 |-> Get(Rows(prefix)[lvl], index \div 2 ^ lvl + 2, lvl)]

\* proof: the sibling at each height of the leaf at index.
PathElements(prefix, index) ==
  [lvl \in 0 .. Levels - 1 |->
     LET own == index \div 2 ^ lvl
         sibling == IF own % 2 = 0 THEN own + 1 ELSE own - 1
     IN  Get(Rows(prefix)[lvl], sibling + 1, lvl)]

-----------------------------------------------------------------------------
(* The circuit: MerkleProof folds the path elements onto the leaf.         *)

CircuitRoot(leaf, index, elements) ==
  LET node[lvl \in 0 .. Levels] ==
        IF lvl = 0 THEN leaf
        ELSE IF IsRight(index, lvl - 1) THEN Hash(elements[lvl - 1], node[lvl - 1])
        ELSE Hash(node[lvl - 1], elements[lvl - 1])
  IN  node[Levels]
=============================================================================
