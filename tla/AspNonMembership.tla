--------------------------- MODULE AspNonMembership ---------------------------
(***************************************************************************)
(* The ASP non-membership contract (contracts/asp-non-membership/src/      *)
(* lib.rs): the sparse Merkle tree of blocked keys, kept on chain as a     *)
(* store of nodes addressed by their hash.                                 *)
(*                                                                         *)
(* A hash is the tuple hashed, <<1, key, value>> for a leaf and            *)
(* <<left, right>> for an internal node, so the store is the set of the    *)
(* nodes in it; the zero hash of an empty subtree is <<>>.                 *)
(***************************************************************************)
EXTENDS Integers, Sequences, FiniteSets, SequencesExt

CONSTANTS
  Keys,      \* keys that may be blocked
  Values,    \* values that may be stored with a key
  KeyBits,   \* bits of a key, 256 in split_bits
  SmtDepth,  \* smtLevels, the siblings the policy circuit takes
  Accounts,  \* addresses that may call
  Deployer,  \* admin argument of the constructor
  MaxStale   \* bound on the nodes left behind by deletes

ASSUME KeyAssumption == KeyBits \in Nat /\ Keys \subseteq 0 .. 2 ^ KeyBits - 1
ASSUME SmtAssumption == SmtDepth \in Nat /\ Values \subseteq Nat
ASSUME DeployerAssumption == Deployer \in Accounts

VARIABLES
  admin,    \* DataKey::Admin
  root,     \* DataKey::Root
  nodes,    \* the hashes h for which DataKey::Node(h) is stored
  contents  \* the key-value pairs the events published so far add up to

vars == <<admin, root, nodes, contents>>

Zero == <<>>
Leaf(key, value) == <<1, key, value>>
IsLeaf(node) == Len(node) = 3
IsInternal(node) == Len(node) = 2

\* split_bits: least significant bit first, one for each level.
Bit(key, lvl) == (key \div 2 ^ lvl) % 2

\* The parent, on key's path at level lvl, of node and its sibling.
Join(key, lvl, sibling, node) ==
  IF Bit(key, lvl) = 1 THEN <<sibling, node>> ELSE <<node, sibling>>

Init ==
  /\ admin = Deployer
  /\ root = Zero
  /\ nodes = {}
  /\ contents = [k \in {} |-> 0]

-----------------------------------------------------------------------------
(* find_key_internal.                                                      *)

\* The nodes on key's path: the last repeats once the path has ended.
PathOf(key) ==
  LET node[lvl \in 0 .. KeyBits] ==
        IF lvl = 0 THEN root
        ELSE LET above == node[lvl - 1]
             IN  IF above \in nodes /\ IsInternal(above)
                 THEN above[1 + Bit(key, lvl - 1)] ELSE above
  IN  node

Depth(key) ==
  LET path == PathOf(key)
      inside(lvl) == path[lvl] \in nodes /\ IsInternal(path[lvl])
  IN  CHOOSE d \in 0 .. KeyBits : ~inside(d) /\ \A l \in 0 .. d - 1 : inside(l)

Siblings(key) ==
  LET path == PathOf(key)
  IN  [i \in 1 .. Depth(key) |-> path[i - 1][2 - Bit(key, i - 1)]]

\* Where the path ends: the zero hash, or a leaf, key's own or another's.
EndOf(key) == PathOf(key)[Depth(key)]

\* Without it the lookup is KeyNotFound: a node of the path is not stored.
PathStored(key) == EndOf(key) = Zero \/ (EndOf(key) \in nodes /\ IsLeaf(EndOf(key)))

Found(key) == PathStored(key) /\ EndOf(key) # Zero /\ EndOf(key)[2] = key

Absent(key) == PathStored(key) /\ ~Found(key)

-----------------------------------------------------------------------------
(* insert_leaf.                                                            *)

\* Variant: the branch opens at once, whatever prefix the keys share.
NoCommonPrefix(key, other, depth) == 0

\* The levels below depth on which two keys still take the same side.
CommonPrefix(key, other, depth) ==
  LET first == CHOOSE l \in depth .. KeyBits - 1 :
                 /\ Bit(key, l) # Bit(other, l)
                 /\ \A m \in depth .. l - 1 : Bit(key, m) = Bit(other, m)
  IN  first - depth

\* On a collision the old leaf becomes the sibling where the keys part.
InsertSiblings(key) ==
  IF EndOf(key) = Zero THEN Siblings(key)
  ELSE LET common == CommonPrefix(key, EndOf(key)[2], Depth(key))
       IN  Siblings(key) \o [i \in 1 .. common |-> Zero] \o <<EndOf(key)>>

(***************************************************************************)
(* The loop of insert_leaf from the deepest sibling up.  climb[i] is the   *)
(* state once the levels from i on are done: rt is the new node, rtOld the *)
(* old node there, which is removed once the loop is in "mixed" mode.      *)
(***************************************************************************)
InsertClimb(key, value) ==
  LET old == Siblings(key)
      sibs == InsertSiblings(key)
      last == Len(sibs) - 1
      collision == EndOf(key) # Zero
      climb[i \in 0 .. Len(sibs)] ==
        IF i = Len(sibs)
        THEN [rt |-> Leaf(key, value), rtOld |-> EndOf(key),
              mixed |-> ~collision /\ old # <<>>,
              nodes |-> nodes \cup {Leaf(key, value)}]
        ELSE LET below == climb[i + 1]
                 isOldLeaf == collision /\ i = last
                 mixed == below.mixed \/ (~isOldLeaf /\ i < last /\ sibs[i + 1] # Zero)
                 removes == mixed /\ ~isOldLeaf
                 oldSibling == IF i < Len(old) THEN old[i + 1] ELSE Zero
                 rtOld == IF removes THEN Join(key, i, oldSibling, below.rtOld)
                          ELSE below.rtOld
                 rt == Join(key, i, sibs[i + 1], below.rt)
             IN  [rt |-> rt, rtOld |-> rtOld, mixed |-> mixed,
                  nodes |-> (below.nodes \ (IF removes THEN {rtOld} ELSE {})) \cup {rt}]
  IN  climb[0]

Insert(caller, key, value) ==
  /\ caller = admin
  /\ Absent(key)
  /\ LET done == InsertClimb(key, value)
     IN  root' = done.rt /\ nodes' = done.nodes
  /\ contents' = [k \in DOMAIN contents \cup {key} |->
                    IF k = key THEN value ELSE contents[k]]
  /\ UNCHANGED admin

-----------------------------------------------------------------------------
(* delete_leaf.                                                            *)

\* Variant: whatever is next to the deleted leaf is promoted.
AnySiblingPromoted(key) == Siblings(key) # <<>>

\* A leaf next to the deleted one takes the place of their parent.
Promoted(key) == Siblings(key) # <<>> /\ IsLeaf(Last(Siblings(key)))

DeleteClimb(key) ==
  LET sibs == IF Promoted(key) THEN Front(Siblings(key)) ELSE Siblings(key)
      climb[i \in 0 .. Len(sibs)] ==
        IF i = Len(sibs)
        THEN [rt |-> IF Promoted(key) THEN Last(Siblings(key)) ELSE Zero,
              rtOld |-> EndOf(key), mixed |-> FALSE, nodes |-> nodes \ {EndOf(key)}]
        ELSE LET below == climb[i + 1]
                 rtOld == Join(key, i, sibs[i + 1], below.rtOld)
                 mixed == below.mixed \/ sibs[i + 1] # Zero
                 rt == IF mixed THEN Join(key, i, sibs[i + 1], below.rt) ELSE below.rt
             IN  [rt |-> rt, rtOld |-> rtOld, mixed |-> mixed,
                  nodes |-> (below.nodes \ {rtOld}) \cup (IF mixed THEN {rt} ELSE {})]
  IN  climb[0]

Delete(caller, key) ==
  /\ caller = admin
  /\ Found(key)
  /\ Siblings(key) # <<>> => Last(Siblings(key)) \in nodes
  /\ LET done == DeleteClimb(key)
     IN  root' = done.rt /\ nodes' = done.nodes
  /\ contents' = [k \in DOMAIN contents \ {key} |-> contents[k]]
  /\ UNCHANGED admin

-----------------------------------------------------------------------------
(* update_leaf: at each level the new node is stored, then the old one     *)
(* removed.                                                                *)

UpdateClimb(key, value) ==
  LET sibs == Siblings(key)
      climb[i \in 0 .. Len(sibs)] ==
        LET below == IF i < Len(sibs) THEN climb[i + 1] ELSE [nodes |-> nodes]
            rt == IF i = Len(sibs) THEN Leaf(key, value) ELSE Join(key, i, sibs[i + 1], below.rt)
            rtOld == IF i = Len(sibs) THEN EndOf(key) ELSE Join(key, i, sibs[i + 1], below.rtOld)
        IN  [rt |-> rt, rtOld |-> rtOld, nodes |-> (below.nodes \cup {rt}) \ {rtOld}]
  IN  climb[0]

Update(caller, key, value) ==
  /\ caller = admin
  /\ Found(key)
  /\ LET done == UpdateClimb(key, value)
     IN  root' = done.rt /\ nodes' = done.nodes
  /\ contents' = [contents EXCEPT ![key] = value]
  /\ UNCHANGED admin

UpdateAdmin(caller, newAdmin) ==
  /\ caller = admin
  /\ admin' = newAdmin
  /\ UNCHANGED <<root, nodes, contents>>

Next ==
  \E caller \in Accounts :
    \/ \E key \in Keys, value \in Values : Insert(caller, key, value)
    \/ \E key \in Keys, value \in Values : Update(caller, key, value)
    \/ \E key \in Keys : Delete(caller, key)
    \/ \E newAdmin \in Accounts : UpdateAdmin(caller, newAdmin)

Spec == Init /\ [][Next]_vars

-----------------------------------------------------------------------------
(* The user's side: a proof from find_key (get_nonmembership_proof) and    *)
(* what the circuit accepts (circuits/src/smt/smtverifier.circom).         *)

Fit(siblings) ==
  [i \in 1 .. SmtDepth |-> IF i <= Len(siblings) THEN siblings[i] ELSE Zero]

ClientProof(key) == [siblings |-> Fit(Siblings(key)), end |-> EndOf(key)]

\* The siblings in use: those up to the last that is not zero.
UsedDepth(siblings) ==
  LET used == {i \in DOMAIN siblings : siblings[i] # Zero}
  IN  IF used = {} THEN 0 ELSE CHOOSE i \in used : \A j \in used : j <= i

RootFrom(key, siblings, end) ==
  LET node[i \in 0 .. Len(siblings)] ==
        IF i = Len(siblings) THEN end ELSE Join(key, i, siblings[i + 1], node[i + 1])
  IN  node[0]

\* Variant: a proof may end at the key's own leaf.
EndsAnywhere(key, proof) ==
  LET d == UsedDepth(proof.siblings)
  IN  /\ d < SmtDepth
      /\ RootFrom(key, SubSeq(proof.siblings, 1, d), proof.end) = root

\* The last sibling must be zero, so the circuit takes SmtDepth - 1 of them.
CircuitAccepts(key, proof) ==
  LET d == UsedDepth(proof.siblings)
  IN  /\ d < SmtDepth
      /\ proof.end # Zero => proof.end[2] # key
      /\ RootFrom(key, SubSeq(proof.siblings, 1, d), proof.end) = root

(***************************************************************************)
(* verify_non_membership: the proof must be what find_key returns, and the *)
(* root recomputed from it the stored one.                                 *)
(***************************************************************************)
VerifyNonMembership(key, siblings, end) ==
  LET collides == end # Zero /\ end[2] # key /\ end[3] # 0
  IN  /\ Absent(key)
      /\ siblings = Siblings(key) /\ end = EndOf(key)
      /\ RootFrom(key, siblings, IF collides THEN end ELSE Zero) = root

-----------------------------------------------------------------------------
(* The reference tree: what a sparse Merkle tree of these contents is, as  *)
(* a function of the contents alone.                                       *)

KeysUnder(prefix, lvl) == {k \in DOMAIN contents : k % 2 ^ lvl = prefix}

Reference ==
  LET row[height \in 0 .. KeyBits] ==
        LET lvl == KeyBits - height
        IN  [prefix \in 0 .. 2 ^ lvl - 1 |->
               LET under == KeysUnder(prefix, lvl)
               IN  CASE under = {} -> Zero
                     [] Cardinality(under) = 1 ->
                          LET k == CHOOSE k \in under : TRUE IN Leaf(k, contents[k])
                     [] OTHER -> <<row[height - 1][prefix],
                                   row[height - 1][prefix + 2 ^ lvl]>>]
  IN  row

ReferenceRoot == Reference[KeyBits][0]

\* Where the reference tree has a node: at the top and below each branching.
Positions ==
  {pos \in (0 .. KeyBits) \X (0 .. 2 ^ KeyBits - 1) :
     LET lvl == pos[1]
         prefix == pos[2]
     IN  /\ prefix < 2 ^ lvl
         /\ lvl = 0 \/ Cardinality(KeysUnder(prefix % 2 ^ (lvl - 1), lvl - 1)) >= 2}

ReferenceNodes ==
  LET tree == Reference IN {tree[KeyBits - pos[1]][pos[2]] : pos \in Positions} \ {Zero}

Stale == nodes \ ReferenceNodes

(***************************************************************************)
(* The same contract under an admin who never updates a key to the value   *)
(* it has: what the contract is good for if that one call is avoided.      *)
(***************************************************************************)
ChangesValue(key, value) == key \in DOMAIN contents /\ contents[key] # value

CarefulNext ==
  \/ \E caller \in Accounts :
       \/ \E key \in Keys, value \in Values :
            Insert(caller, key, value) \/ (ChangesValue(key, value) /\ Update(caller, key, value))
       \/ \E newAdmin \in Accounts : UpdateAdmin(caller, newAdmin)
  \/ /\ Cardinality(Stale) < MaxStale
     /\ \E caller \in Accounts, key \in Keys : Delete(caller, key)

CarefulSpec == Init /\ [][CarefulNext]_vars

-----------------------------------------------------------------------------
(* Correctness.                                                            *)

(***************************************************************************)
(* The root depends on the blocked keys alone, not on the order in which   *)
(* they were blocked, updated and unblocked: deletes collapse the branches *)
(* that inserts opened.  A root published after any history is the root a  *)
(* user or the circuit computes from the list.                             *)
(***************************************************************************)
RootIsCanonical == root = ReferenceRoot

(***************************************************************************)
(* Every node of the tree is in the store: "complete on-chain state for    *)
(* non-membership proofs" (lib.rs).  No removal of an old path takes a     *)
(* node away that the new tree still needs.                                *)
(***************************************************************************)
StateComplete == ReferenceNodes \subseteq nodes

(***************************************************************************)
(* Who is not blocked can prove it: a proof that fits the circuit's depth  *)
(* is accepted, and the contract's own verification accepts the answer of  *)
(* find_key for it, unless that ends at a leaf whose value is 0.  Who is   *)
(* blocked cannot: not with the path to the key, and not with the proof of *)
(* anyone else.                                                            *)
(***************************************************************************)
ProofsDecideBlocking ==
  \A key \in Keys :
    /\ key \notin DOMAIN contents =>
         /\ Absent(key)
         /\ Depth(key) < SmtDepth => CircuitAccepts(key, ClientProof(key))
         /\ EndOf(key) = Zero \/ EndOf(key)[3] # 0 =>
              VerifyNonMembership(key, Siblings(key), EndOf(key))
    /\ key \in DOMAIN contents =>
         /\ Found(key)
         /\ \A other \in Keys : ~CircuitAccepts(key, ClientProof(other))
=============================================================================
