-------------------------------- MODULE Pages --------------------------------
(* The user goes from the main page to the admin page and back.  The page    *)
(* that is left is closed with all it had under way; the database, which one *)
(* page at a time can open, and the localStorage remain.                    *)
EXTENDS Session, AdminPage

VARIABLE open  \* the page that is open

Pages == {"main", "admin"}

PagesInit == BrowserInit /\ SessionInit /\ AdminInit /\ open \in Pages

AtMain == open = "main" /\ PageNext /\ UNCHANGED <<open, adminVars>>
AtAdmin == open = "admin" /\ AdminNext /\ UNCHANGED <<open, sessionVars>>

AtFreighter == FreighterNext /\ UNCHANGED <<open, adminVars>>

Leave ==
  /\ page' = Blank /\ signing' = {} /\ queue' = <<>>
  /\ deriving' = {} /\ calls' = {}
  /\ UNCHANGED <<browserVars, accepted, prompted, losses, adminClicks, failures>>

Visit(p) ==
  /\ open # p /\ open' = p
  /\ Click /\ Leave
  /\ task' = IF p = "main" THEN Connecting ELSE NoTask
  /\ adm' = [AdminBlank EXCEPT !.refreshing = p = "admin"]

PagesNext == AtMain \/ AtAdmin \/ AtFreighter \/ (\E p \in Pages : Visit(p))

PagesSpec ==
  PagesInit /\ [][PagesNext]_<<browserVars, sessionVars, adminVars, open>>

(***************************************************************************)
(* A settled main page works with keys that the connected account's own    *)
(* two signatures derive: keys that can be derived again where the         *)
(* database is lost, whichever page derived them first.                    *)
(***************************************************************************)
KeysAreRecoverable == Settled => page.keys = page.address
=============================================================================
