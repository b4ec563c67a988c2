---------------------------- MODULE MCClientFlow ----------------------------
(* A small instance of ClientFlow: two users, two clicks, and what others   *)
(* do meanwhile.  A ring of two roots lets two transactions bring its index *)
(* back to where it was.                                                    *)
EXTENDS ClientFlow, TLC

CONSTANTS u1, u2, pool, f1, f2, a1, a2, a3, a4, b1, b2, b3, b4, c1, c2

MCFirstNotes == <<[owner |-> u1, amount |-> 2], [owner |-> u1, amount |-> 1]>>
MCFirstSpent == {c1, c2}
MCInitialBalance == (u1 :> 3) @@ (u2 :> 4)
MCFirstMember == <<u1>>
MCDummyOf == (f1 :> <<a1, a2>>) @@ (f2 :> <<a3, a4>>)

Nothing == [kind |-> "none", user |-> u1, amounts |-> <<0, 0>>]
\* i128 ends at 4, u128 at 9, and a deposit at 3.
Deposit(u, n, m) == [kind |-> "deposit", user |-> u, notes |-> <<>>, amount |-> n + m,
                    amounts |-> <<n, m>>]
Withdraw(u, ns, to) == [kind |-> "withdraw", user |-> u, notes |-> ns, recipient |-> to]
Transfer2(u, ns, to, n, m) ==
  [kind |-> "transfer", user |-> u, notes |-> ns, recipient |-> to, amounts |-> <<n, m>>]
Mixed(u, ns, ext, to, amounts, payees) ==
  [kind |-> "transact", user |-> u, notes |-> ns, amount |-> ext, recipient |-> to,
   amounts |-> amounts, payees |-> payees]

Event(kind, u) == [kind |-> kind, who |-> u, dummies |-> {}]
Stranger(d, e) == [kind |-> "transact", who |-> u2, dummies |-> {d, e}]

Scenario(r1, r2, outside) == [asks |-> (f1 :> r1) @@ (f2 :> r2), outside |-> outside]

MCScenarios == {
  Scenario(Withdraw(u1, <<0, 1>>, u2), Nothing,
           <<Stranger(b1, b2), Stranger(b3, b4), Event("nothing", u1)>>),
  Scenario(Transfer2(u1, <<0>>, u2, 2, 0), Nothing,
           <<Event("block", u2), Event("admit", u2), Event("block", u1)>>),
  Scenario(Mixed(u1, <<1>>, 1, pool, <<1, 1>>, <<u2, "self">>), Nothing,
           <<Event("block", u1), Event("unblock", u1)>>),
  Scenario(Mixed(u1, <<1, 0>>, -2, u2, <<1, 0>>, <<"self", u2>>), Nothing,
           <<Event("admit", u2), Event("nothing", u1)>>),
  Scenario(Deposit(u2, 1, 1), Nothing, <<Event("nothing", u1), Event("admit", u2), Event("nothing", u1)>>),
  Scenario(Withdraw(u1, <<0>>, u1), Transfer2(u1, <<0, 1>>, u2, 1, 2), <<>>),
  Scenario(Deposit(u1, 2, 0), Mixed(u1, <<>>, 1, u1, <<1, 0>>, <<"self", "self">>), <<>>),
  Scenario(Deposit(u1, 1, 0), Withdraw(u1, <<1>>, u1), <<>>),
  Scenario(Withdraw(u1, <<1, 1>>, u1), Nothing, <<Event("nothing", u1)>>),
  Scenario(Deposit(u1, 0, 0), Transfer2(u1, <<0>>, u2, 1, 0), <<>>),
  Scenario(Deposit(u2, 2, 2), Withdraw(u1, <<>>, u1), <<Event("admit", u2)>>),
  Scenario(Deposit(u1, 3, 0), Withdraw(u1, <<0, 2>>, u1), <<>>),
  Scenario(Mixed(u1, <<0>>, -5, u1, <<0, 0>>, <<"self", "self">>),
           Mixed(u1, <<0, 1>>, 4, u1, <<9, 1>>, <<"self", "self">>), <<>>),
  Scenario(Deposit(u2, 3, 2), Transfer2(u1, <<0, 1>>, u2, 10, 0), <<>>)}
=============================================================================
