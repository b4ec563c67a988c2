------------------------------- MODULE MCParts -------------------------------
(* The parts that stand alone, one of them in each behaviour: part says     *)
(* which.  They share no state, so a product of them would show no more.    *)
(* The tree of blocked keys is extended, the others are instantiated.       *)
EXTENDS AspNonMembership, MerkleTree

CONSTANTS
  Commitments, RootHistorySize, Members,
  MaxNodes  \* bound on the nodes a client has collected when it writes again

VARIABLES
  part,
  poolFilled, poolNext, rootIndex, roots, commitments,
  listAdmin, insertOnly, listFilled, listNext, listRoot, events,
  db, top, entries

smtVars == <<admin, root, nodes, contents>>
poolVars == <<poolFilled, poolNext, rootIndex, roots, commitments>>
listVars == <<listAdmin, insertOnly, listFilled, listNext, listRoot, events>>
clientVars == <<db, top, entries>>

PoolTree ==
  INSTANCE PoolTree WITH filled <- poolFilled, nextIndex <- poolNext,
                         currentRootIndex <- rootIndex

AspMembership ==
  INSTANCE AspMembership WITH admin <- listAdmin, adminInsertOnly <- insertOnly,
                              filled <- listFilled, nextIndex <- listNext, root <- listRoot

SparseMerkle == INSTANCE SparseMerkle

ASSUME PoolTreeAssumption == PoolTree!CommitmentAssumption /\ PoolTree!HistoryAssumption
ASSUME MembershipAssumption == AspMembership!DeployerAssumption

PartsInit ==
  /\ part \in {"pool", "list", "smt", "client"}
  /\ Init /\ PoolTree!Init /\ AspMembership!Init /\ SparseMerkle!New

-----------------------------------------------------------------------------
(* The pool's commitment tree.                                             *)

InPool == part = "pool" /\ UNCHANGED <<part, listVars, smtVars, clientVars>>

PoolInsert ==
  InPool /\ \E leaf1, leaf2 \in Commitments : PoolTree!InsertTwoLeaves(leaf1, leaf2)

ClientRootIsCurrent == part = "pool" => PoolTree!ClientRootIsCurrent
EveryNoteProvable == part = "pool" => PoolTree!EveryNoteProvable
ImplementsMerkleWithHistory == PoolTree!ImplementsMerkleWithHistory

-----------------------------------------------------------------------------
(* The list of members.                                                    *)

InList == part = "list" /\ UNCHANGED <<part, poolVars, smtVars, clientVars>>

ListUpdateAdmin ==
  InList /\ \E caller, newAdmin \in Accounts : AspMembership!UpdateAdmin(caller, newAdmin)
ListSetInsertOnly ==
  InList /\ \E caller \in Accounts, only \in BOOLEAN :
              AspMembership!SetAdminInsertOnly(caller, only)
ListInsertLeaf ==
  InList /\ \E caller \in Accounts, leaf \in Members : AspMembership!InsertLeaf(caller, leaf)

EventsTellTheTree == part = "list" => AspMembership!EventsTellTheTree
EveryMemberProvable == part = "list" => AspMembership!EveryMemberProvable

-----------------------------------------------------------------------------
(* The tree of blocked keys, under an admin who repeats no value.          *)

InSmt == part = "smt" /\ UNCHANGED <<part, poolVars, listVars, clientVars>>

SmtStep == InSmt /\ CarefulNext

-----------------------------------------------------------------------------
(* A client's tree of the same keys.                                       *)

InClient ==
  /\ part = "client" /\ Cardinality(db) <= MaxNodes
  /\ UNCHANGED <<part, poolVars, listVars, smtVars>>

ClientInsert ==
  InClient /\ \E key \in Keys, value \in Values : SparseMerkle!Insert(key, value)
ClientUpdate ==
  InClient /\ \E key \in Keys, value \in Values : SparseMerkle!Update(key, value)

ClientTreeAgrees == part = "client" => SparseMerkle!ClientTreeAgrees

-----------------------------------------------------------------------------

PartsNext ==
  \/ PoolInsert
  \/ ListUpdateAdmin \/ ListSetInsertOnly \/ ListInsertLeaf
  \/ SmtStep
  \/ ClientInsert \/ ClientUpdate

PartsSpec == PartsInit /\ [][PartsNext]_<<part, smtVars, poolVars, listVars, clientVars>>
=============================================================================
