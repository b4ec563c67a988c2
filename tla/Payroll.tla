------------------------------- MODULE Payroll -------------------------------
(***************************************************************************)
(* The payroll page (frontend/): an employer deposits a batch row by row   *)
(* and keeps the secrets in the browser, an employee claims with a secret, *)
(* a regulator allows and blocks addresses and keeps a timeline.  One view *)
(* is mounted at a time.  What runs when it is left runs on, but its       *)
(* answers reach no view; and nothing is left of it when the page closes.  *)
(* What is displayed is left out where nothing depends on it.              *)
(*                                                                         *)
(* A secret is known by its send and row; a nullifier by its secret.       *)
(***************************************************************************)
EXTENDS Integers, FiniteSets, Sequences

CONSTANTS
  Rows,        \* rows of a batch
  Keep,        \* batches kept in local storage
  MaxSends,    \* bound on the batches sent
  MaxTyped,    \* bound on the runs of the employee's effect
  MaxActions,  \* bound on the regulator's actions
  MaxCloses    \* bound on the times the page is closed

ASSUME PayrollAssumption ==
  /\ Rows \in Nat \ {0} /\ Keep \in Nat \ {0}
  /\ MaxSends \in Nat /\ MaxActions \in Nat

Sends == 1 .. MaxSends
Actions == 1 .. MaxActions
Secrets == Sends \X (1 .. Rows)
NoSecret == <<0, 0>>

VARIABLES
  view, closes,
  \* the employer, and what is in the browser and on the chain
  sends,      \* send -> row it is at, and whether its view is mounted
  saved,      \* shieldpay:payroll:batches, newest first
  deposits,   \* the secrets whose commitment the pool has received
  \* the employee
  typed, matched, nullifier,
  effect,     \* number of the last run of the effect on the secret
  hashing,    \* runs of the effect whose hashes are being computed
  hashFailed,
  withdrawing, withdrawDone,
  claims,     \* withdrawals begun
  \* the regulator
  actions,    \* action -> where it is, and whether its view is mounted
  acted,      \* actions the list contracts have taken
  timeline, cleared

employer == <<sends, saved, deposits>>
display == <<typed, matched, nullifier, effect, hashing, hashFailed>>
claiming == <<withdrawing, withdrawDone, claims>>
regulator == <<actions, acted, timeline, cleared>>
payrollVars == <<view, closes, employer, display, claiming, regulator>>

PayrollInit ==
  /\ view = "employer" /\ closes = 0
  /\ sends = [s \in Sends |-> [at |-> "none", row |-> 0, mounted |-> FALSE]]
  /\ saved = <<>> /\ deposits = {}
  /\ typed = NoSecret /\ matched = NoSecret /\ nullifier = NoSecret
  /\ effect = 0 /\ hashing = {} /\ hashFailed = FALSE
  /\ withdrawing = FALSE /\ withdrawDone = FALSE /\ claims = {}
  /\ actions = [a \in Actions |-> [at |-> "none", mounted |-> FALSE]]
  /\ acted = {} /\ timeline = <<>> /\ cleared = {}

-----------------------------------------------------------------------------
(* The employer's view.                                                    *)

Running(s) == sends[s].at \in {"proving", "sending"}

\* handleSend: loading, a state of the mounted view, keeps a second one out.
HandleSend(s) ==
  /\ view = "employer"
  /\ sends[s].at = "none" /\ \A earlier \in 1 .. s - 1 : sends[earlier].at # "none"
  /\ ~\E running \in Sends : Running(running) /\ sends[running].mounted
  /\ sends' = [sends EXCEPT ![s] = [at |-> "proving", row |-> 1, mounted |-> TRUE]]
  /\ UNCHANGED <<view, closes, saved, deposits, display, claiming, regulator>>

\* generatePayrollProof, of every row before any is sent; a row without an
\* amount ends the send.
ProvePayroll(s) ==
  /\ sends[s].at = "proving"
  /\ \E end \in {"sending", "failed"} : sends' = [sends EXCEPT ![s].at = end]
  /\ UNCHANGED <<view, closes, saved, deposits, display, claiming, regulator>>

\* Variant: an error ends the send.
AfterError == "failed"

\* What an error of one row's deposit does to the send.
OnError == "sending"

\* submitToSoroban, a row.  A row is sent, left out, or ends in an error,
\* before or after the pool has received it.
SubmitRow(s) ==
  /\ sends[s].at = "sending" /\ sends[s].row <= Rows
  /\ \E received, error \in BOOLEAN :
       /\ deposits' = deposits \union (IF received THEN {<<s, sends[s].row>>} ELSE {})
       /\ sends' = [sends EXCEPT ![s].row = @ + 1,
                                 ![s].at = IF error THEN OnError ELSE @]
  /\ UNCHANGED <<view, closes, saved, display, claiming, regulator>>

\* savePayrollBatch, whatever view is mounted now.  The id of a batch is that of
\* a transaction or the time, so no earlier one gives way to it.
SavePayrollBatch(s) ==
  /\ sends[s].at = "sending" /\ sends[s].row > Rows
  /\ saved' = SubSeq(<<s>> \o saved, 1, IF Len(saved) < Keep THEN Len(saved) + 1 ELSE Keep)
  /\ sends' = [sends EXCEPT ![s].at = "saved"]
  /\ UNCHANGED <<view, closes, deposits, display, claiming, regulator>>

-----------------------------------------------------------------------------
(* The employee's view.                                                    *)

\* findEmployeeBySecret.
Found(secret) == \E i \in DOMAIN saved : saved[i] = secret[1]

\* The effect on a secret just interpreted: one that is not found clears all,
\* one that is starts the hashes and leaves the last ones in place.
RunEffect(secret) ==
  /\ effect < MaxTyped /\ effect' = effect + 1
  /\ IF Found(secret)
     THEN /\ matched' = secret
          /\ hashing' = hashing \union {[run |-> effect', secret |-> secret]}
          /\ UNCHANGED <<nullifier, hashFailed>>
     ELSE /\ matched' = NoSecret /\ nullifier' = NoSecret /\ hashFailed' = FALSE
          /\ UNCHANGED hashing

\* A secret is typed, picked or removed; this clears the last result.
Type(secret) ==
  /\ view = "employee" /\ secret # typed
  /\ typed' = secret /\ RunEffect(secret)
  /\ withdrawDone' = FALSE
  /\ UNCHANGED <<view, closes, employer, withdrawing, claims, regulator>>

\* Variant: the effect has no clean-up.
NeverCancelled(hash) == FALSE

\* The clean-up of the effect at its next run.
Cancelled(hash) == hash.run # effect

\* The hashes of a secret are computed, or fail.
HashDone(hash) ==
  /\ hash \in hashing /\ hashing' = hashing \ {hash}
  /\ IF Cancelled(hash) THEN UNCHANGED <<nullifier, hashFailed>>
     ELSE \/ nullifier' = hash.secret /\ hashFailed' = FALSE
          \/ hashFailed' = TRUE /\ UNCHANGED nullifier
  /\ UNCHANGED <<view, closes, employer, typed, matched, effect, claiming, regulator>>

\* The hashes on display may be those of another secret.
HashesLate == hashFailed \/ \E hash \in hashing : hash.run = effect

\* handleWithdraw, with the values of the last rendering.
HandleWithdraw ==
  /\ view = "employee" /\ matched # NoSecret
  /\ nullifier # NoSecret /\ ~withdrawing /\ ~withdrawDone
  /\ withdrawing' = TRUE
  /\ claims' = claims \union
       {[secret |-> typed, employee |-> matched, nullifier |-> nullifier, late |-> HashesLate]}
  /\ UNCHANGED <<view, closes, employer, display, withdrawDone, regulator>>

\* It ends, well or not; when well the picker is read again, which runs the
\* effect again if a secret is there.
WithdrawEnds ==
  /\ view = "employee" /\ withdrawing
  /\ withdrawing' = FALSE /\ withdrawDone' \in BOOLEAN
  /\ IF withdrawDone' THEN typed' = typed /\ RunEffect(typed) ELSE UNCHANGED display
  /\ UNCHANGED <<view, closes, employer, claims, regulator>>

-----------------------------------------------------------------------------
(* The regulator's view.                                                   *)

\* submit: pending, a state of the mounted view, keeps a second one out.
Submit(a) ==
  /\ view = "regulator"
  /\ actions[a].at = "none" /\ \A earlier \in 1 .. a - 1 : actions[earlier].at # "none"
  /\ ~\E running \in Actions : actions[running].at = "pending" /\ actions[running].mounted
  /\ actions' = [actions EXCEPT ![a] = [at |-> "pending", mounted |-> TRUE]]
  /\ UNCHANGED <<view, closes, employer, display, claiming, acted, timeline, cleared>>

\* A malformed address or no wallet: nothing was sent, nothing is noted.
Refused(a) ==
  /\ actions[a].at = "pending" /\ a \notin acted
  /\ actions' = [actions EXCEPT ![a].at = "refused"]
  /\ UNCHANGED <<view, closes, employer, display, claiming, acted, timeline, cleared>>

\* The list contract takes the action.
Act(a) ==
  /\ actions[a].at = "pending" /\ a \notin acted
  /\ acted' = acted \union {a}
  /\ UNCHANGED <<view, closes, employer, display, claiming, actions, timeline, cleared>>

\* Variant: an error is shown and nothing noted.
NotedOnSuccess(error) == ~error

\* submitASPAction answers with an error of the call as with its success.
Noted(error) == TRUE

\* The answer reaches the timeline if the view is still there.
Answer(a) ==
  /\ actions[a].at = "pending"
  /\ \E error \in BOOLEAN :
       /\ a \notin acted => error
       /\ timeline' = IF actions[a].mounted /\ Noted(error) THEN <<a>> \o timeline ELSE timeline
  /\ actions' = [actions EXCEPT ![a].at = "answered"]
  /\ UNCHANGED <<view, closes, employer, display, claiming, acted, cleared>>

ClearEvents ==
  /\ view = "regulator" /\ timeline # <<>>
  /\ cleared' = cleared \union {timeline[i] : i \in DOMAIN timeline} /\ timeline' = <<>>
  /\ UNCHANGED <<view, closes, employer, display, claiming, actions, acted>>

-----------------------------------------------------------------------------
(* The page.                                                               *)

\* The states of the employee's view, mounted afresh when it is next shown;
\* the clean-up of the effect leaves the hashes to nobody.
Unmount ==
  /\ typed' = NoSecret /\ matched' = NoSecret /\ nullifier' = NoSecret /\ hashFailed' = FALSE
  /\ hashing' = {}
  /\ withdrawing' = FALSE /\ withdrawDone' = FALSE
  /\ UNCHANGED <<effect, claims>>

\* Another view is shown: what runs goes on without one.
SwitchTo(next) ==
  /\ view # next /\ view' = next
  /\ sends' = [s \in Sends |-> [sends[s] EXCEPT !.mounted = FALSE]]
  /\ actions' = [a \in Actions |-> [actions[a] EXCEPT !.mounted = FALSE]]
  /\ Unmount
  /\ UNCHANGED <<closes, saved, deposits, acted, timeline, cleared>>

\* The page is closed and opened again; a transaction on its way arrives.
CloseTab ==
  /\ closes < MaxCloses /\ closes' = closes + 1
  /\ view' = "employer"
  /\ sends' = [s \in Sends |-> [sends[s] EXCEPT !.at = IF Running(s) THEN "cut" ELSE @]]
  /\ actions' = [a \in Actions |->
       [actions[a] EXCEPT !.at = IF @ = "pending" THEN "cut" ELSE @]]
  /\ Unmount
  /\ UNCHANGED <<saved, deposits, acted, timeline, cleared>>

PayrollNext ==
  \/ \E s \in Sends : HandleSend(s) \/ ProvePayroll(s) \/ SubmitRow(s) \/ SavePayrollBatch(s)
  \/ \E secret \in Secrets \union {NoSecret} : Type(secret)
  \/ \E hash \in hashing : HashDone(hash)
  \/ HandleWithdraw \/ WithdrawEnds
  \/ \E a \in Actions : Submit(a) \/ Refused(a) \/ Act(a) \/ Answer(a)
  \/ ClearEvents
  \/ \E next \in {"employer", "employee", "regulator"} : SwitchTo(next)
  \/ CloseTab

PayrollSpec == PayrollInit /\ [][PayrollNext]_payrollVars

-----------------------------------------------------------------------------
(* Correctness.                                                            *)

(***************************************************************************)
(* A deposit the pool has received can be claimed: its secret is among the *)
(* saved ones, however many rows failed and views were switched, unless    *)
(* its send still runs, was cut short by the page, or Keep sends have been *)
(* saved after it.                                                         *)
(***************************************************************************)
SecretsAreKept ==
  \A secret \in deposits :
    \/ Found(secret)
    \/ Running(secret[1]) \/ sends[secret[1]].at = "cut"
    \/ Len(saved) = Keep /\ sends[secret[1]].at = "saved"

(***************************************************************************)
(* A claim is made for one employee: the amount and the address are those  *)
(* of the secret, and so is the nullifier unless the hashes of the secret  *)
(* were late or failed, whatever was typed before.                         *)
(***************************************************************************)
ClaimsAreOfOneEmployee ==
  \A claim \in claims :
    /\ claim.employee = claim.secret
    /\ claim.late \/ claim.nullifier = claim.secret

(***************************************************************************)
(* An action the list contracts took is in the timeline, be it that its    *)
(* call ended in an error, unless the regulator left the view before the   *)
(* answer or has cleared the timeline since.                               *)
(***************************************************************************)
TimelineTellsActions ==
  \A a \in acted :
    actions[a].at = "answered" =>
      a \in cleared \/ (\E i \in DOMAIN timeline : timeline[i] = a) \/ ~actions[a].mounted
=============================================================================
