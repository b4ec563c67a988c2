------------------------------- MODULE MCTools -------------------------------
(* What surrounds the payments, one piece in each behaviour: part says      *)
(* which.  The circuits' build, the way of the keys to the browser, the     *)
(* payroll page (with two sends, with one send and an employee's input, or   *)
(* with the regulator's actions), the client's main page, its admin page, or *)
(* the way between them, and the hash.  They share no state.                *)
EXTENDS Poseidon2, CircuitsBuild, Release, Payroll, Pages

CONSTANT MaxVisiting  \* bound on the clicks and switches of a behaviour with both pages

VARIABLE part

pagesVars == <<browserVars, sessionVars, adminVars, open>>
toolsVars == <<part, buildVars, releaseVars, payrollVars, pagesVars, vars>>

\* Some numbers for the tables of the hash.
SomeConstants ==
  [w \in 2 .. 4 |-> [r \in 0 .. 2 * HalfFull + Partial - 1 |->
     [j \in 1 .. 4 |-> (r * r + 3 * j + r * j + w) % Modulus]]]
SomeDiagonal == [j \in 1 .. 4 |-> (j * j + 2) % Modulus]

\* The accounts are alike, so one of them is as good a start as another.
FirstHolder == CHOOSE a \in Holders : TRUE

ToolsInit ==
  /\ part \in {"build", "release", "sending", "claiming", "regulating",
              "main", "admin", "visits", "hash"}
  /\ BuildInit /\ ReleaseInit /\ PayrollInit /\ PagesInit /\ Init
  /\ part = "admin" => open = "admin"
  /\ part \notin {"admin", "visits"} => open = "main"
  /\ active = FirstHolder
  /\ part # "hash" => t = 2 /\ input = <<0, 0>>

-----------------------------------------------------------------------------

InBuild == part = "build" /\ UNCHANGED <<part, releaseVars, payrollVars, pagesVars, vars>>

BuildStep == InBuild /\ BuildNext

InRelease == part = "release" /\ UNCHANGED <<part, buildVars, payrollVars, pagesVars, vars>>

ReleaseStep == InRelease /\ ReleaseNext

InPayroll ==
  /\ part \in {"sending", "claiming", "regulating"}
  /\ UNCHANGED <<part, buildVars, releaseVars, pagesVars, vars>>

SendStep(s) ==
  /\ InPayroll /\ part # "regulating" /\ (part = "claiming" => s = 1)
  /\ \/ HandleSend(s) \/ ProvePayroll(s)
     \/ SubmitRow(s) \/ SavePayrollBatch(s)

RegulatorStep ==
  /\ InPayroll /\ part = "regulating"
  /\ \/ \E a \in Actions :
          Submit(a) \/ Refused(a) \/ Act(a) \/ Answer(a)
     \/ ClearEvents

EmployeeStep ==
  /\ InPayroll /\ part = "claiming"
  /\ \/ \E secret \in Secrets \union {NoSecret} : Type(secret)
     \/ \E hash \in hashing : HashDone(hash)
     \/ HandleWithdraw \/ WithdrawEnds

PageStep ==
  /\ InPayroll
  /\ \/ \E next \in {"employer", "employee", "regulator"} : SwitchTo(next)
     \/ CloseTab

InPages == UNCHANGED <<part, buildVars, releaseVars, payrollVars, vars>>

MainStep == InPages /\ part = "main" /\ AtMain

AdminStep == InPages /\ part = "admin" /\ AtAdmin

FreighterStep == InPages /\ part \in {"main", "admin"} /\ AtFreighter

VisitStep ==
  /\ InPages /\ part = "visits"
  /\ PagesNext
  /\ clicks' + adminClicks' + switches' <= MaxVisiting

HashStep ==
  /\ part = "hash" /\ UNCHANGED <<part, buildVars, releaseVars, payrollVars, pagesVars>>
  /\ Round

ToolsNext ==
  \/ BuildStep \/ ReleaseStep
  \/ (\E s \in Sends : SendStep(s))
  \/ RegulatorStep \/ EmployeeStep \/ PageStep
  \/ MainStep \/ AdminStep \/ FreighterStep \/ VisitStep
  \/ HashStep

ToolsSpec == ToolsInit /\ [][ToolsNext]_toolsVars
=============================================================================
