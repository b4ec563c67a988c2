------------------------------ MODULE AdminPage ------------------------------
(***************************************************************************)
(* The admin page (app/js/admin.js): connecting Freighter, deriving keys   *)
(* for the forms, and the calls to the two ASP contracts.  Nothing on it   *)
(* waits for what is under way: only the button that derives keys is       *)
(* disabled meanwhile.                                                     *)
(*                                                                         *)
(* A call leaves the page when it is signed; what the contract makes of it *)
(* is in modules AspMembership and AspNonMembership.  The leaves in the    *)
(* forms, roots, and the network are left out: the page takes any network. *)
(***************************************************************************)
EXTENDS Browser

CONSTANTS MaxAdminClicks, MaxFailures

Contracts == {"membership", "nonMembership"}

VARIABLES
  adm,       \* the page's state
  deriving,  \* calls of deriveKeysFromWallet under way
  calls,     \* calls to the contracts that are not signed yet
  adminClicks, failures

adminVars == <<adm, deriving, calls, adminClicks, failures>>

\* connecting holds what connectWallet() told the connect()s under way; client
\* the account of each cached contract client; crossed the contracts whose
\* client was being created when a connect() ended; source the account that
\* the keys in the forms are said to be derived from; insertOnly the answer
\* that was shown last, toggle whether the button that switches it is enabled.
AdminBlank ==
  [address |-> None, connecting |-> {}, client |-> [c \in Contracts |-> None],
   crossed |-> {}, source |-> None,
   insertOnly |-> None, toggle |-> FALSE, refreshing |-> FALSE]

AdminInit ==
  /\ adm = [AdminBlank EXCEPT !.refreshing = TRUE] /\ deriving = {} /\ calls = {}
  /\ adminClicks = 0 /\ failures = 0

AdminClick == adminClicks < MaxAdminClicks /\ adminClicks' = adminClicks + 1
Fails == failures < MaxFailures /\ failures' = failures + 1

-----------------------------------------------------------------------------
(* connect().                                                              *)

\* connectWallet answers with the account selected at that moment.
AdminConnect ==
  /\ AdminClick
  /\ adm' = [adm EXCEPT !.connecting = @ \cup {active}]
  /\ UNCHANGED <<browserVars, deriving, calls, failures>>

\* Variant: the clients stay.
NotInvalidated(state) == state

Invalidated(state) ==
  [state EXCEPT !.client = [c \in Contracts |-> None], !.crossed = {}]

AdminConnected(a) ==
  /\ a \in adm.connecting
  /\ adm' = Invalidated([adm EXCEPT !.connecting = @ \ {a}, !.address = a,
                                  !.toggle = adm.insertOnly # None])
  /\ calls' = {[c EXCEPT !.crossed = TRUE] : c \in calls}
  /\ UNCHANGED <<browserVars, deriving, adminClicks, failures>>

AdminConnectFails(a) ==
  /\ a \in adm.connecting /\ Fails
  /\ adm' = [adm EXCEPT !.connecting = @ \ {a}]
  /\ UNCHANGED <<browserVars, deriving, calls, adminClicks>>

-----------------------------------------------------------------------------
(* Deriving keys.                                                          *)

Derivation(who, purpose) ==
  [id |-> adminClicks, who |-> who, for |-> purpose, stage |-> "lookup",
   pair |-> None]

DeriveKeys ==
  /\ AdminClick /\ adm.address # None
  /\ \A d \in deriving : d.for # "forms"
  /\ deriving' = deriving \cup {Derivation(adm.address, "forms")}
  /\ UNCHANGED <<browserVars, adm, calls, failures>>

\* computeMembershipLeaf, when the form has a private key and no public key.
\* What it derives is lost: the leaf is computed of the outer pubKey, null.
LeafOfPrivateKey ==
  /\ AdminClick /\ adm.source # None
  /\ deriving' = deriving \cup {Derivation(adm.source, "leaf")}
  /\ UNCHANGED <<browserVars, adm, calls, failures>>

\* state.derivedKeys and the forms; the account they are said to be derived
\* from is the one connected by now.
Derived(d) ==
  adm' = IF d.for = "forms" THEN [adm EXCEPT !.source = adm.address] ELSE adm

Advance(d, stage, pair) ==
  /\ deriving' = (deriving \ {d}) \cup {[d EXCEPT !.stage = stage, !.pair = pair]}
  /\ UNCHANGED <<adm, calls, adminClicks, failures>>

LookUp(d) ==
  /\ d.stage = "lookup"
  /\ LET pair == UserKeys(d.who)
     IN IF pair = None THEN Advance(d, "first", None)
        ELSE /\ Derived(d) /\ deriving' = deriving \ {d}
             /\ UNCHANGED <<calls, adminClicks, failures>>
  /\ UNCHANGED browserVars

\* No account is named, so Freighter signs with the one selected.
SignFirst(d) ==
  d.stage = "first" /\ Advance(d, "second", active) /\ UNCHANGED browserVars

SignSecond(d) ==
  /\ d.stage = "second"
  /\ Advance(d, "save", IF d.pair = active THEN active ELSE "mixed")
  /\ UNCHANGED browserVars

SaveDerived(d) ==
  d.stage = "save" /\ SaveUserKeys(d.who, d.pair) /\ Advance(d, "lookup", None)

\* A signature is refused, or the storage worker does not answer in time; it
\* may have saved the keys all the same.
DerivationFails(d) ==
  /\ Fails /\ deriving' = deriving \ {d}
  /\ \/ UNCHANGED browserVars
     \/ d.stage = "save" /\ SaveUserKeys(d.who, d.pair)
  /\ UNCHANGED <<adm, calls, adminClicks>>

-----------------------------------------------------------------------------
(* The calls: both insertions, and the switch of who may insert.           *)

Call(c, source, crossed) ==
  [id |-> adminClicks, contract |-> c, source |-> source,
   created |-> adm.client[c] # None, crossed |-> crossed]

\* getMembershipClient, getNonMembershipClient: the cached client, or a new
\* one for the connected account.
WithClient(c) ==
  /\ calls' = calls \cup {IF adm.client[c] # None
                          THEN Call(c, adm.client[c], c \in adm.crossed)
                          ELSE Call(c, adm.address, FALSE)}
  /\ UNCHANGED <<browserVars, adm, deriving, failures>>

InsertLeaf(c) == AdminClick /\ adm.address # None /\ WithClient(c)

\* The button is disabled while the switch's state is not shown.
ToggleAdminInsertOnly ==
  /\ AdminClick /\ adm.address # None /\ adm.toggle
  /\ WithClient("membership")

ClientCreated(call) ==
  /\ call \in calls /\ ~call.created
  /\ adm' = [adm EXCEPT !.client[call.contract] = call.source,
                        !.crossed = IF call.crossed THEN @ \cup {call.contract}
                                    ELSE @ \ {call.contract}]
  /\ calls' = (calls \ {call}) \cup {[call EXCEPT !.created = TRUE]}
  /\ UNCHANGED <<browserVars, deriving, adminClicks, failures>>

\* The signer reads the connected account when it is called, and the network
\* refuses a signature that is not of the call's account.  The state is
\* refreshed once a call is through.
SignAndSend(call) ==
  /\ call \in calls /\ call.created
  /\ calls' = calls \ {call}
  /\ adm' = [adm EXCEPT !.refreshing = @ \/ call.source = adm.address]
  /\ UNCHANGED <<browserVars, deriving, adminClicks, failures>>

CallRefused(call) ==
  /\ call \in calls /\ Fails
  /\ calls' = calls \ {call}
  /\ UNCHANGED <<browserVars, adm, deriving, adminClicks>>

\* Whoever else administers the list may have switched it.
RefreshState ==
  /\ \/ AdminClick
     \/ adm.refreshing /\ UNCHANGED adminClicks
  /\ \/ /\ \E value \in {"admin", "anyone"} :
             adm' = [adm EXCEPT !.insertOnly = value, !.toggle = adm.address # None,
                                !.refreshing = FALSE]
        /\ UNCHANGED failures
     \/ Fails /\ adm' = [adm EXCEPT !.toggle = FALSE, !.refreshing = FALSE]
  /\ UNCHANGED <<browserVars, deriving, calls>>

AdminNext ==
  \/ AdminConnect \/ (\E a \in Holders : AdminConnected(a) \/ AdminConnectFails(a))
  \/ DeriveKeys \/ LeafOfPrivateKey
  \/ \E d \in deriving :
       LookUp(d) \/ SignFirst(d) \/ SignSecond(d) \/ SaveDerived(d) \/ DerivationFails(d)
  \/ (\E c \in Contracts : InsertLeaf(c)) \/ ToggleAdminInsertOnly
  \/ (\E call \in calls : ClientCreated(call) \/ SignAndSend(call) \/ CallRefused(call))
  \/ RefreshState

-----------------------------------------------------------------------------
(***************************************************************************)
(* The page speaks for one account: every call is made for the account     *)
(* that is going to sign it.  The one exception is what the end of a       *)
(* connect() has crossed, the calls of a client whose creation it crossed  *)
(* included: that client stays, as if made for the new account.            *)
(***************************************************************************)
PageSpeaksForOneAccount ==
  \A call \in calls : call.source = adm.address \/ call.crossed
=============================================================================
