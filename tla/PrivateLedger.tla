---------------------------- MODULE PrivateLedger ----------------------------
(***************************************************************************)
(* What the pool promises, without notes, roots, nullifiers or proofs:     *)
(* every user has a private balance beside the public one, a transaction   *)
(* takes two amounts from private balances and a signed amount from the    *)
(* outside and hands the total out to two private balances, and value is   *)
(* neither made nor (but by naming the pool as recipient) lost.            *)
(***************************************************************************)
EXTENDS Integers

CONSTANTS Users, PoolAddr, InitialBalance,
          MaxAmount  \* the largest amount a transaction can debit or credit

VARIABLES private, public

Addresses == Users \cup {PoolAddr}

Init ==
  /\ private = [u \in Users |-> 0]
  /\ public = [a \in Addresses |-> IF a = PoolAddr THEN 0 ELSE InitialBalance[a]]

Share == [owner : Users, amount : 0 .. MaxAmount]

\* What a pair of shares is worth, and what it is worth to u.
Worth(pair) == pair[1].amount + pair[2].amount

Part(share, u) == IF share.owner = u THEN share.amount ELSE 0
WorthTo(pair, u) == Part(pair[1], u) + Part(pair[2], u)

\* Nobody spends more than the private balance.
Debits == {d \in Share \X Share : \A u \in Users : WorthTo(d, u) <= private[u]}

Pay(from, to, amount) ==
  public' = [a \in Addresses |-> public[a] - (IF a = from THEN amount ELSE 0)
                                           + (IF a = to THEN amount ELSE 0)]

(***************************************************************************)
(* debit is spent from the private balances and credit handed out; what    *)
(* credit exceeds debit by is deposited by a sender, what it falls short   *)
(* of is paid to a recipient.  A payment has no guard on the pool's        *)
(* balance: the pool always has the tokens.                                *)
(***************************************************************************)
Move(debit, credit) ==
  LET ext == Worth(credit) - Worth(debit)
  IN  /\ private' = [u \in Users |-> private[u] - WorthTo(debit, u) + WorthTo(credit, u)]
      /\ \/ \E sender \in Users :
              ext >= 0 /\ ext <= public[sender] /\ Pay(sender, PoolAddr, ext)
         \/ \E recipient \in Addresses : ext < 0 /\ Pay(PoolAddr, recipient, -ext)

Next == \E debit \in Debits, credit \in Share \X Share : Move(debit, credit)

Spec == Init /\ [][Next]_<<private, public>>
=============================================================================
