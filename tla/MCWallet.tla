------------------------------ MODULE MCWallet ------------------------------
(* Instances of Wallet: two accounts, two pools, a few logs of two ledgers  *)
(* in which spends follow closely, pools alternate and leaves come late.    *)
EXTENDS Wallet

CONSTANTS alice, bob, stranger

p1 == 1
p2 == 2

MCAccounts == {alice, bob}
MCPools == {p1, p2}

Event(k, p, a, e, l, i) ==
  [kind |-> k, pool |-> p, who |-> a, of |-> e, ledger |-> l, ok |-> TRUE, first |-> i, bad |-> {}]

\* Event number i of a log.
Note(i, p, a, l) == Event("commitment", p, a, 0, l, i)
Spend(i, p, e, l) == Event("nullifier", p, stranger, e, l, i)
Key(i, p, a, l) == Event("key", p, a, 0, l, i)
Leaf(i, a, l) == Event("leaf", stranger, a, 0, l, i)

Bad(event) == [event EXCEPT !.ok = FALSE]
Again(event, i) == [event EXCEPT !.first = i]
IllFor(event, A) == [event EXCEPT !.bad = A]

MCChains == {
  <<Note(1, p1, alice, 1), Spend(2, p1, 1, 1), Note(3, p1, bob, 1), Note(4, p1, alice, 2), Spend(5, p1, 3, 2)>>,
  <<Note(1, p1, bob, 1), Note(2, p2, alice, 1), Spend(3, p2, 2, 1), Note(4, p2, stranger, 2), Note(5, p1, alice, 2)>>,
  <<Leaf(1, alice, 1), Note(2, p1, alice, 1), Leaf(3, bob, 2), Spend(4, p1, 2, 2), Leaf(5, stranger, 3)>>,
  <<Key(1, p1, alice, 1), Leaf(2, stranger, 1), Bad(Leaf(3, bob, 1)), Leaf(4, alice, 2), Note(5, p2, alice, 2)>>,
  <<Bad(Key(1, p1, bob, 1)), Note(2, p1, alice, 1), Spend(3, p1, 2, 1), Note(4, p2, bob, 2)>>,
  <<Note(1, p1, alice, 1), Bad(Spend(2, p1, 1, 1)), Note(3, p2, bob, 1), Spend(4, p2, 3, 2)>>,
  <<Note(1, p1, alice, 1), Again(Note(2, p1, alice, 1), 1), Note(3, p1, bob, 2), Spend(4, p1, 1, 2)>>,
  <<Note(1, p1, bob, 1), Spend(2, p1, 1, 1), Again(Note(3, p2, bob, 1), 1), Again(Spend(4, p2, 3, 2), 2)>>,
  <<Note(1, p1, bob, 1), IllFor(Note(2, p1, stranger, 1), MCAccounts), Note(3, p2, alice, 2)>>,
  <<Note(1, p1, alice, 1), IllFor(Note(2, p2, stranger, 1), {bob}), Note(3, p2, alice, 2), Spend(4, p1, 1, 2)>>}
=============================================================================
