---------------------------- MODULE SparseMerkle ----------------------------
(***************************************************************************)
(* The client's own sparse Merkle tree (core/prover/src/sparse_merkle.rs), *)
(* with which a client rebuilds the tree of blocked keys and proves about  *)
(* it.  Hashes are the tuples hashed, as in AspNonMembership.  Nodes are   *)
(* only ever added: db keeps those of every earlier tree.                  *)
(***************************************************************************)
EXTENDS Integers, Sequences

CONSTANTS
  Keys, Values,
  KeyBits,  \* bits of a key, below the 256 levels find allows
  SmtDepth, Accounts, Deployer, MaxStale

VARIABLES
  db,      \* the hashes in SparseMerkleTree::db
  top,     \* SparseMerkleTree::root
  entries  \* the pairs put so far, by insert and update

treeVars == <<db, top, entries>>

\* The contract's tree over the same pairs: hashes, circuit and reference.
Contract ==
  INSTANCE AspNonMembership WITH
    root <- top, nodes <- db, contents <- entries, admin <- Deployer

Zero == Contract!Zero

New == db = {} /\ top = Zero /\ entries = [k \in {} |-> 0]

-----------------------------------------------------------------------------

\* find: down from the root, a sibling for each internal node passed.
Find(key) ==
  LET at[lvl \in 0 .. KeyBits] ==
        IF lvl = 0 THEN [hash |-> top, siblings |-> <<>>]
        ELSE LET above == at[lvl - 1]
                 bit == Contract!Bit(key, Len(above.siblings))
             IN  IF above.hash \in db /\ Contract!IsInternal(above.hash)
                 THEN [hash |-> above.hash[1 + bit],
                       siblings |-> Append(above.siblings, above.hash[2 - bit])]
                 ELSE above
      end == at[KeyBits]
  IN  [siblings |-> end.siblings, end |-> end.hash,
       stored |-> end.hash = Zero \/ (end.hash \in db /\ Contract!IsLeaf(end.hash)),
       found |-> end.hash # Zero /\ end.hash[2] = key]

\* Variant: the old leaf is pushed where the path ended, not where the keys part.
PushedAtOnce(key, find) ==
  IF find.end = Zero THEN find.siblings ELSE Append(find.siblings, find.end)

\* On a collision the siblings go on, empty, to the level where the keys part.
Extended(key, find) ==
  IF find.end = Zero THEN find.siblings
  ELSE LET shared == Contract!CommonPrefix(key, find.end[2], Len(find.siblings))
       IN  find.siblings \o [i \in 1 .. shared |-> Zero] \o <<find.end>>

\* The hashes from the new leaf, at Len(siblings), up to the new root, at 0.
Rebuilt(key, value, siblings) ==
  LET hash[lvl \in 0 .. Len(siblings)] ==
        IF lvl = Len(siblings) THEN Contract!Leaf(key, value)
        ELSE Contract!Join(key, lvl, siblings[lvl + 1], hash[lvl + 1])
  IN  hash

\* What insert and update share: the nodes of the new path are stored.
Put(key, value, siblings) ==
  LET hash == Rebuilt(key, value, siblings)
  IN  /\ top' = hash[0]
      /\ db' = db \cup {hash[lvl] : lvl \in DOMAIN hash}
      /\ entries' = [k \in DOMAIN entries \cup {key} |->
                       IF k = key THEN value ELSE entries[k]]

Insert(key, value) ==
  LET find == Find(key)
  IN  find.stored /\ ~find.found /\ Put(key, value, Extended(key, find))

Update(key, value) ==
  LET find == Find(key)
  IN  find.stored /\ find.found /\ Put(key, value, find.siblings)

\* get_proof: the siblings padded with zeros to the circuit's levels.
GetProof(key) ==
  LET find == Find(key) IN [siblings |-> Contract!Fit(find.siblings), end |-> find.end]

-----------------------------------------------------------------------------

(***************************************************************************)
(* Whatever the order in which a client learns of the blocked keys, its    *)
(* tree is the contract's: the root is the canonical one of the pairs, the *)
(* value of a key is found, and the proof of its absence is accepted by    *)
(* the circuit exactly when the key is absent and the proof fits.          *)
(***************************************************************************)
ClientTreeAgrees ==
  /\ top = Contract!ReferenceRoot
  /\ \A key \in Keys :
       LET find == Find(key)
       IN  /\ find.stored
           /\ find.found <=> key \in DOMAIN entries
           /\ find.found => find.end[3] = entries[key]
           /\ Len(find.siblings) < SmtDepth =>
                (Contract!CircuitAccepts(key, GetProof(key)) <=> ~find.found)
=============================================================================
