---------------------------- MODULE AspMembership ----------------------------
(***************************************************************************)
(* The ASP membership contract (contracts/asp-membership/src/lib.rs): an   *)
(* append-only Merkle tree of member leaves with its current root alone,   *)
(* the right to insert, and the LeafAdded events its clients replay.       *)
(***************************************************************************)
EXTENDS MerkleTree

CONSTANTS
  Accounts,   \* addresses that may call
  Deployer,   \* admin argument of the constructor
  Members     \* leaf values that may be inserted

DeployerAssumption == Deployer \in Accounts

VARIABLES
  admin,           \* DataKey::Admin
  adminInsertOnly, \* DataKey::AdminInsertOnly
  filled,          \* DataKey::FilledSubtrees
  nextIndex,       \* DataKey::NextIndex
  root,            \* DataKey::Root
  events           \* LeafAddedEvents published

treeVars == <<filled, nextIndex, root, events>>
vars == <<admin, adminInsertOnly, treeVars>>

Init ==
  /\ admin = Deployer
  /\ adminInsertOnly = TRUE
  /\ filled = Zeroes
  /\ nextIndex = 0
  /\ root = Zeroes[Levels]
  /\ events = <<>>

UpdateAdmin(caller, newAdmin) ==
  /\ caller = admin
  /\ admin' = newAdmin
  /\ UNCHANGED <<adminInsertOnly, treeVars>>

SetAdminInsertOnly(caller, adminOnly) ==
  /\ caller = admin
  /\ adminInsertOnly' = adminOnly
  /\ UNCHANGED <<admin, treeVars>>

LeafPath(leaf) == Path(0, filled, nextIndex, leaf)

\* A full tree is MerkleTreeFull, and the host discards the call.
InsertLeaf(caller, leaf) ==
  LET path == LeafPath(leaf)
  IN  /\ adminInsertOnly => caller = admin
      /\ nextIndex < MaxLeaves
      /\ filled' = KeepLeft(0, filled, nextIndex, path)
      /\ root' = path[Levels]
      /\ events' = Append(events, [leaf |-> leaf, index |-> nextIndex,
                                   root |-> path[Levels]])
      /\ nextIndex' = nextIndex + 1
      /\ UNCHANGED <<admin, adminInsertOnly>>

Next ==
  \E caller \in Accounts :
    \/ \E newAdmin \in Accounts : UpdateAdmin(caller, newAdmin)
    \/ \E adminOnly \in BOOLEAN : SetAdminInsertOnly(caller, adminOnly)
    \/ \E leaf \in Members : InsertLeaf(caller, leaf)

Spec == Init /\ [][Next]_vars

-----------------------------------------------------------------------------

\* The leaves a client learns from the first n events.
Replay(n) == [i \in 1 .. n |-> events[i].leaf]

(***************************************************************************)
(* Each event carries the root of the leaves of the events up to it, its   *)
(* index is their number, and the contract's root is that of the last: a   *)
(* client that has all events has the contract's tree, and one that lags   *)
(* has the tree of some earlier moment and can tell which.                 *)
(***************************************************************************)
EventsTellTheTree ==
  /\ Len(events) = nextIndex
  /\ \A i \in 1 .. nextIndex :
       events[i].index = i - 1 /\ events[i].root = PrefixRoot(Replay(i))
  /\ root = PrefixRoot(Replay(nextIndex))

(***************************************************************************)
(* Every member can prove membership under the current root, with the path *)
(* the client builds from the events and the check the circuit makes.      *)
(***************************************************************************)
EveryMemberProvable ==
  \A i \in 0 .. nextIndex - 1 :
    CircuitRoot(events[i + 1].leaf, i, PathElements(Replay(nextIndex), i)) = root
=============================================================================
