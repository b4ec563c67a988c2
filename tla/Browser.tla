------------------------------- MODULE Browser -------------------------------
(***************************************************************************)
(* What the main page and the admin page share: the Freighter extension,   *)
(* in which the user switches accounts and networks at any moment, and the *)
(* keys in the client's database.  The database is opened by one page at a *)
(* time (workers/storage.rs takes an exclusive handle).                    *)
(*                                                                         *)
(* A privacy key pair is named by the account whose signatures it is       *)
(* derived from; "mixed" has its two signatures from different accounts.   *)
(***************************************************************************)
EXTENDS Naturals, Sequences

CONSTANTS
  Holders,      \* the accounts in the user's Freighter
  MaxSwitches   \* bound on the switches of account or network

None == "none"

\* An account's address is never the page's null.
ASSUME HoldersAssumption == None \notin Holders

KeyPairs == Holders \cup {"mixed"}

\* A custom network has no soroban URL in Freighter's answer.
Networks == {"testnet", "custom", "mainnet"}

VARIABLES
  active,    \* the account selected in Freighter
  network,   \* the network selected in Freighter
  switches,  \* how often the user switched
  stored     \* the latest keypairs row of each account, or None

browserVars == <<active, network, switches, stored>>

BrowserInit ==
  /\ active \in Holders
  /\ network = "testnet"
  /\ switches = 0
  /\ stored = [a \in Holders |-> None]

SwitchAccount(a) ==
  /\ switches < MaxSwitches /\ switches' = switches + 1
  /\ a # active /\ active' = a
  /\ UNCHANGED <<network, stored>>

SwitchNetwork(n) ==
  /\ switches < MaxSwitches /\ switches' = switches + 1
  /\ n # network /\ network' = n
  /\ UNCHANGED <<active, stored>>

\* DeriveSaveUserKeys inserts a row, UserKeys reads the latest.
SaveUserKeys(a, pair) ==
  /\ stored' = [stored EXCEPT ![a] = pair]
  /\ UNCHANGED <<active, network, switches>>

UserKeys(a) == stored[a]
=============================================================================
