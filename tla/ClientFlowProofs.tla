--------------------------- MODULE ClientFlowProofs ---------------------------
(***************************************************************************)
(* Theorems about ClientFlow, for every value of its constants: any number *)
(* of clicks with any requests, any interleaving of others' transactions.  *)
(*                                                                         *)
(* What a flow has been told is stated of values (its record s, the past p *)
(* of the chain, the leaves lv), so that one lemma says that a longer past *)
(* and more leaves leave it true.                                          *)
(*                                                                         *)
(* The books are sums over finite sets, which the second half is about:    *)
(* first what a sum is, then what a request gives, then the invariant.     *)
(***************************************************************************)
EXTENDS ClientFlow, PoolProofs, WellFoundedInduction

-----------------------------------------------------------------------------
(* The client's integers.                                                  *)

LEMMA WidthFacts ==
  /\ MaxI128 \in Nat /\ Width!MaxU128 \in Nat /\ MaxI128 < Width!MaxU128
  /\ Width!MaxU128 < MaxExtAmount /\ MaxExtAmount \in Nat \ {0}
  /\ FieldSize \in Nat /\ 4 * MaxExtAmount < FieldSize
BY AmountAssumption, WidthAssumption DEF Width!MaxU128

\* The checked sums bound the public amount, on either side of zero.
LEMMA PublicBounds ==
  ASSUME NEW in \in Int, NEW out \in Int, NEW e \in Int, Width!SumsFit(in, e, out)
  PROVE  /\ in \in 0 .. Width!MaxU128 /\ out \in 0 .. Width!MaxU128
         /\ e <= Width!MaxU128 /\ -e <= Width!MaxU128
<1>1. /\ in \in 0 .. Width!MaxU128 /\ out \in 0 .. Width!MaxU128
      /\ in + Width!Received(e) \in 0 .. Width!MaxU128
      /\ out + Width!Paid(e) \in 0 .. Width!MaxU128
  BY DEF Width!SumsFit, Width!NoteAmount
<1>2. e <= Width!Received(e) /\ -e <= Width!Paid(e)
      /\ Width!Received(e) \in Int /\ Width!Paid(e) \in Int
  BY DEF Width!Received, Width!Paid
<1>3. QED
  BY <1>1, <1>2, WidthFacts

LEMMA EquationIs ==
  ASSUME NEW a \in Int, NEW b \in Int, NEW c \in Int, NEW d \in Int, NEW e \in Int
  PROVE  Width!Conserved(<<a, b>>, e, <<c, d>>)
           <=> Width!SumsFit(a + b, e, c + d) /\ c + d = a + b + e
<1>1. a + b + Width!Received(e) = c + d + Width!Paid(e) <=> c + d = a + b + e
  BY DEF Width!Received, Width!Paid
<1>2. QED
  BY <1>1 DEF Width!Conserved

(***************************************************************************)
(* The equation flows::transact checks in checked 128-bit integers is the  *)
(* one the circuit checks in the field: a request that passes has a        *)
(* witness, and one that is refused with nothing overflowing has none,     *)
(* since nothing wraps around the modulus.                                 *)
(***************************************************************************)
THEOREM ClientEquationIsCircuitEquation ==
  ASSUME NEW a \in Width!NoteAmount, NEW b \in Width!NoteAmount,
         NEW c \in Width!NoteAmount, NEW d \in Width!NoteAmount,
         NEW e \in Int, Width!SumsFit(a + b, e, c + d)
  PROVE  Width!Conserved(<<a, b>>, e, <<c, d>>)
           <=> Width!FieldOf(e) = (c + d - a - b) % FieldSize
<1>1. /\ a \in 0 .. MaxExtAmount - 1 /\ b \in 0 .. MaxExtAmount - 1
      /\ c \in 0 .. MaxExtAmount - 1 /\ d \in 0 .. MaxExtAmount - 1
      /\ a \in Int /\ b \in Int /\ c \in Int /\ d \in Int
  BY WidthFacts DEF Width!NoteAmount
<1>2. e < MaxExtAmount /\ -e < MaxExtAmount
  BY <1>1, PublicBounds, WidthFacts
<1>3. Width!FieldOf(e) = PublicAmount(e)
  BY DEF Width!FieldOf, PublicAmount
<1>4. Width!Conserved(<<a, b>>, e, <<c, d>>) <=> c + d = a + b + e
  BY <1>1, EquationIs
<1> DEFINE x == c + d - a - b
<1>5. x \in Int /\ x < 2 * MaxExtAmount /\ -x < 2 * MaxExtAmount
  BY <1>1, WidthFacts
<1>6. x = e <=> c + d = a + b + e
  BY <1>1
<1> HIDE DEF x
<1>7. x % FieldSize = PublicAmount(x)
  BY <1>5, RemainderIs
<1>8. PublicAmount(x) = PublicAmount(e) <=> x = e
  BY <1>2, <1>5, WidthFacts DEF PublicAmount
<1>9. QED
  BY <1>3, <1>4, <1>6, <1>7, <1>8 DEF x

-----------------------------------------------------------------------------
(* Requests, by what the page has let through.                             *)

\* A request whose form the page has accepted.
Formed(r) ==
  /\ Request(r) /\ r.kind \in {"deposit", "withdraw", "transfer", "transact"}
  /\ r.notes \in Seq(Nat) /\ Len(r.notes) \in 0 .. 2
  /\ r.kind # "withdraw" => OutputsParse(r)

\* What its notes are worth, what it creates and what it moves, in leaves lv.
InAmt(r, lv, i) == IF i \in DOMAIN r.notes THEN lv[r.notes[i]].amount ELSE 0
OutAmt(r, i) == IF r.kind = "withdraw" THEN 0 ELSE r.amounts[i]
Ext(r, lv) ==
  CASE r.kind = "withdraw" -> -(InAmt(r, lv, 1) + InAmt(r, lv, 2))
    [] r.kind = "transfer" -> 0
    [] OTHER -> r.amount

\* The inputs, for the dummies d.
In(r, d, i) == IF Len(r.notes) >= i THEN r.notes[i] ELSE d[i]

\* Its notes are the user's, among the leaves lv below n.
OwnNotes(r, lv, n) ==
  \A i \in DOMAIN r.notes : r.notes[i] \in 0 .. n - 1 /\ lv[r.notes[i]].owner = r.user

LEMMA InputsAre ==
  ASSUME NEW r, Formed(r)
  PROVE  /\ InputAmounts(r.notes) = <<InAmt(r, leaves, 1), InAmt(r, leaves, 2)>>
         /\ Worth(r.notes) = InAmt(r, leaves, 1) + InAmt(r, leaves, 2)
<1>1. InputAmounts(r.notes) = <<InAmt(r, leaves, 1), InAmt(r, leaves, 2)>>
  BY DEF InputAmounts, InAmt
<1>2. QED
  BY <1>1 DEF Worth

\* What the worker makes of the request.
LEMMA ParamsAre ==
  ASSUME NEW r, Formed(r)
  PROVE  LET p == Params(r)
         IN  /\ p.notes = r.notes
             /\ p.outs = <<p.outs[1], p.outs[2]>>
             /\ p.outs[1].amount = OutAmt(r, 1) /\ p.outs[2].amount = OutAmt(r, 2)
             /\ \A i \in 1 .. 2 : p.outs[i] = [owner |-> p.outs[i].owner, amount |-> p.outs[i].amount]
             /\ p.outs[1].owner \in Users /\ p.outs[2].owner \in Users
             /\ p.ext.recipient \in Addresses /\ p.ext.amount = Ext(r, leaves)
<1>1. r.kind \in {"deposit", "withdraw", "transfer", "transact"} /\ r.user \in Users
      /\ PoolAddr \in Addresses /\ Users \subseteq Addresses
  BY DEF Formed, Request, Addresses
<1>2. CASE r.kind = "deposit"
  <2>1. Params(r) = DepositParams(r) /\ r.notes = <<>>
    BY <1>2 DEF Params, Formed, Request
  <2>2. QED
    BY <1>1, <1>2, <2>1 DEF DepositParams, Notes, OutAmt, Ext
<1>3. CASE r.kind = "withdraw"
  <2>1. Params(r) = WithdrawParams(r) /\ r.recipient \in Addresses
    BY <1>3 DEF Params, Formed, Request
  <2>2. QED
    BY <1>1, <1>3, <2>1, InputsAre DEF WithdrawParams, Notes, OutAmt, Ext
<1>4. CASE r.kind = "transfer"
  <2>1. Params(r) = TransferParams(r) /\ r.recipient \in Users
    BY <1>4 DEF Params, Formed, Request
  <2>2. QED
    BY <1>1, <1>4, <2>1 DEF TransferParams, Notes, OutAmt, Ext
<1>5. CASE r.kind = "transact"
  <2>1. /\ Params(r) = TransactParams(r) /\ r.recipient \in Addresses
        /\ r.payees \in (Users \cup {"self"}) \X (Users \cup {"self"})
    BY <1>5 DEF Params, Formed, Request
  <2>2. OwnerOf(r, 1) \in Users /\ OwnerOf(r, 2) \in Users
    BY <1>1, <2>1 DEF OwnerOf
  <2>3. QED
    BY <1>1, <1>5, <2>1, <2>2 DEF TransactParams, Notes, OutAmt, Ext
<1>6. QED
  BY <1>1, <1>2, <1>3, <1>4, <1>5

LEMMA BalancedIs ==
  ASSUME NEW r, Formed(r)
  PROVE  Balanced(Params(r))
           <=> Width!Conserved(<<InAmt(r, leaves, 1), InAmt(r, leaves, 2)>>, Ext(r, leaves),
                               <<OutAmt(r, 1), OutAmt(r, 2)>>)
<1>1. /\ InputAmounts(Params(r).notes) = <<InAmt(r, leaves, 1), InAmt(r, leaves, 2)>>
      /\ Params(r).ext.amount = Ext(r, leaves)
      /\ Params(r).outs[1].amount = OutAmt(r, 1) /\ Params(r).outs[2].amount = OutAmt(r, 2)
  BY InputsAre, ParamsAre
<1>2. QED
  BY <1>1 DEF Balanced

LEMMA AmountsAre ==
  ASSUME TypeOK, NEW r, Formed(r), OwnNotes(r, leaves, nextIndex)
  PROVE  /\ InAmt(r, leaves, 1) \in 0 .. MaxExtAmount - 1
         /\ InAmt(r, leaves, 2) \in 0 .. MaxExtAmount - 1
         /\ OutAmt(r, 1) \in 0 .. Width!MaxU128 /\ OutAmt(r, 2) \in 0 .. Width!MaxU128
         /\ Ext(r, leaves) \in Int
<1>1. ASSUME NEW i \in 1 .. 2 PROVE InAmt(r, leaves, i) \in 0 .. MaxExtAmount - 1
  <2>1. CASE i \in DOMAIN r.notes
    <3>1. r.notes[i] \in 0 .. nextIndex - 1
      BY <2>1 DEF OwnNotes
    <3>2. leaves[r.notes[i]] \in Note
      BY <3>1 DEF TypeOK
    <3>3. QED
      BY <2>1, <3>2 DEF InAmt, Note
  <2>2. CASE i \notin DOMAIN r.notes
    BY <2>2, WidthFacts DEF InAmt
  <2>3. QED
    BY <2>1, <2>2
<1>2. OutAmt(r, 1) \in 0 .. Width!MaxU128 /\ OutAmt(r, 2) \in 0 .. Width!MaxU128
  BY WidthFacts DEF OutAmt, Formed, OutputsParse, Width!NoteAmount
<1>3. InAmt(r, leaves, 1) \in 0 .. MaxExtAmount - 1 /\ InAmt(r, leaves, 2) \in 0 .. MaxExtAmount - 1
  BY <1>1
<1>4. Ext(r, leaves) \in Int
  <2>1. CASE r.kind = "withdraw"
    <3>1. InAmt(r, leaves, 1) \in Int /\ InAmt(r, leaves, 2) \in Int
      BY <1>3, WidthFacts
    <3>2. QED
      BY <2>1, <3>1 DEF Ext
  <2>2. CASE r.kind = "transfer"
    BY <2>2 DEF Ext
  <2>3. CASE r.kind \in {"deposit", "transact"}
    BY <2>3 DEF Ext, Formed, Request
  <2>4. QED
    BY <2>1, <2>2, <2>3 DEF Formed
<1>5. QED
  BY <1>2, <1>3, <1>4

-----------------------------------------------------------------------------
(* What a flow has been told.                                              *)

At(p, l) == IF l = 0 THEN Empty ELSE p[l]

\* The answer of the storage worker: the membership tree and, with notes, the
\* pool's tree are those of the snapshot, and the notes are the user's.
Told(r, s, p, lv) ==
  /\ s.bulk \in 1 .. Len(p) /\ s.root \in 1 .. Len(p) /\ s.non \in 1 .. Len(p) /\ s.db \in 0 .. Len(p)
  /\ At(p, s.db).members = p[s.bulk].members
  /\ r.user \in Elements(p[s.bulk].members)
  /\ r.notes # <<>> => At(p, s.db).next = p[s.root].next
  /\ OwnNotes(r, lv, p[s.root].next)

\* The answer to the non-membership query.
Unlisted(r, s, p) == p[s.bulk].blocked # {} => r.user \notin p[s.non].blocked

\* What the prover has found besides, for the dummies d.
Agreed(r, s, p, lv, d) ==
  /\ Width!Conserved(<<InAmt(r, lv, 1), InAmt(r, lv, 2)>>, Ext(r, lv), <<OutAmt(r, 1), OutAmt(r, 2)>>)
  /\ In(r, d, 1) # In(r, d, 2)
  /\ r.user \notin p[s.bulk].blocked
  /\ p[s.bulk].blocked # {} => p[s.non].blocked = p[s.bulk].blocked

-----------------------------------------------------------------------------
(* The invariant.                                                          *)

Serving == {"bulk", "root", "non", "storage", "prove", "sign", "confirm"}
FlowRecord(l) ==
  [step : Ended \cup {"idle"} \cup Serving, tries : 0 .. MaxSnapshotAttempts,
   bulk : 0 .. l, root : 0 .. l, non : 0 .. l, db : 0 .. l]

\* Flow s of request r, whose transaction is in state fl.
Fits(r, s, fl, p, lv, d) ==
  /\ s \in FlowRecord(Len(p))
  /\ fl \in {"none", "sent", "landed", "rejected"}
  /\ fl # "none" => s.step \in Ended \cup {"confirm"}
  /\ s.step \in Serving \/ fl # "none" => Formed(r)
  /\ s.step \in {"idle", "bulk"} => s.tries < MaxSnapshotAttempts
  /\ s.step \in {"root", "non", "storage"} => s.bulk \in 1 .. Len(p)
  /\ s.step \in {"non", "storage"} => s.root \in 1 .. Len(p)
  /\ s.step = "storage" => s.non \in 1 .. Len(p)
  /\ s.step \in {"storage", "prove"} => Unlisted(r, s, p)
  /\ s.step \in {"prove", "sign", "confirm"} \/ fl # "none" => Told(r, s, p, lv)
  /\ s.step = "sign" => Agreed(r, s, p, lv, d)

FlowsFit ==
  /\ flow \in [Flows -> FlowRecord(Len(past))]
  /\ flight \in [Flows -> {"none", "sent", "landed", "rejected"}]
  /\ \A f \in Flows : Fits(Asked(f), flow[f], flight[f], past, leaves, DummyOf[f])

\* The keys of the map are field elements, the unspent notes covered.
SoundInv == Canonical /\ Covered

ChainInv ==
  /\ TypeOK /\ SoundInv
  /\ aspMembership = TheMembership /\ aspNonMembership = TheNonMembership

Moment == [next : Nat, members : Seq(Users), blocked : SUBSET Users, spent : SUBSET (Nat \cup Dummies)]

PastInv ==
  /\ past \in Seq(Moment) /\ Len(past) # 0
  /\ past[Len(past)] = [next |-> nextIndex, members |-> members[TheMembership],
                        blocked |-> blocked[TheNonMembership], spent |-> Nullified]
  /\ \A l \in 1 .. Len(past) : \A k \in 1 .. l : past[k].next <= past[l].next

SyncInv ==
  /\ scenario \in Scenarios /\ happened \in 0 .. Len(scenario.outside)
  /\ saved \in 0 .. Len(past) /\ indexed \in 0 .. saved
  /\ processed \in 0 .. saved /\ noted \in 0 .. processed

FlowInv == ChainInv /\ PastInv /\ SyncInv /\ FlowsFit

-----------------------------------------------------------------------------
(* The witness of a flow.                                                  *)

\* The inputs: notes that are not dummies, and dummies that are not notes.
LEMMA PaddedAre ==
  ASSUME NEW f \in Flows, NEW r, Formed(r)
  PROVE  /\ PaddedInputs(f, r.notes) = <<In(r, DummyOf[f], 1), In(r, DummyOf[f], 2)>>
         /\ DummyOf[f][1] \in Dummies /\ DummyOf[f][2] \in Dummies /\ DummyOf[f][1] # DummyOf[f][2]
         /\ \A i \in 1 .. 2 :
              \/ /\ i \in DOMAIN r.notes /\ r.notes[i] \in Nat /\ r.notes[i] \notin Dummies
                 /\ In(r, DummyOf[f], i) = r.notes[i]
              \/ i \notin DOMAIN r.notes /\ In(r, DummyOf[f], i) = DummyOf[f][i]
<1>1. DummyOf[f] \in Dummies \X Dummies /\ DummyOf[f][1] # DummyOf[f][2]
  BY DrawAssumption
<1>2. PaddedInputs(f, r.notes) = <<In(r, DummyOf[f], 1), In(r, DummyOf[f], 2)>>
  BY DEF PaddedInputs, In
<1>3. ASSUME NEW i \in 1 .. 2
      PROVE  \/ /\ i \in DOMAIN r.notes /\ r.notes[i] \in Nat /\ r.notes[i] \notin Dummies
                /\ In(r, DummyOf[f], i) = r.notes[i]
             \/ i \notin DOMAIN r.notes /\ In(r, DummyOf[f], i) = DummyOf[f][i]
  <2>1. r.notes \in Seq(Nat) /\ Len(r.notes) \in 0 .. 2
    BY DEF Formed
  <2>2. i \in DOMAIN r.notes <=> Len(r.notes) >= i
    BY <2>1
  <2>3. i \in DOMAIN r.notes => r.notes[i] \in Nat
    BY <2>1
  <2>4. QED
    BY <2>2, <2>3, DummyAssumption DEF In
<1>4. QED
  BY <1>1, <1>2, <1>3

\* The public facts of the proof a flow makes.
LEMMA ProofIs ==
  ASSUME NEW f \in Flows, Formed(Asked(f))
  PROVE  LET r == Asked(f)
             q == ProofOf(f)
         IN  /\ q.owners = <<r.user, r.user>>
             /\ q.root = past[flow[f].root].next
             /\ q.ins = <<In(r, DummyOf[f], 1), In(r, DummyOf[f], 2)>>
             /\ q.outs = Params(r).outs
             /\ q.membershipRoot = Local(flow[f].db).members
             /\ q.nonMembershipRoot = past[flow[f].bulk].blocked
             /\ q.publicAmount = Width!FieldOf(Ext(r, leaves))
             /\ q.extDataHash = Params(r).ext
<1> DEFINE r == Asked(f)
           p == Params(r)
           s == flow[f]
           made == MakeProof(<<r.user, r.user>>, past[s.root].next, PaddedInputs(f, p.notes), p.outs,
                             Local(s.db).members, past[s.bulk].blocked, p.ext)
<1>1. ProofOf(f) = [made EXCEPT !.publicAmount = Width!FieldOf(p.ext.amount)]
  BY DEF ProofOf
<1>2. p.notes = r.notes /\ p.ext.amount = Ext(r, leaves)
  BY ParamsAre
<1>3. PaddedInputs(f, p.notes) = <<In(r, DummyOf[f], 1), In(r, DummyOf[f], 2)>>
  BY <1>2, PaddedAre
<1> HIDE DEF r, p, s
<1>4. QED
  BY <1>1, <1>2, <1>3 DEF MakeProof, r, p, s

\* The amounts of the padded inputs are those of the notes.
LEMMA PaddedAmounts ==
  ASSUME NEW f \in Flows, NEW r, Formed(r), NEW i \in 1 .. 2
  PROVE  InAmount(In(r, DummyOf[f], i)) = InAmt(r, leaves, i)
<1>1. CASE i \in DOMAIN r.notes
  <2>1. In(r, DummyOf[f], i) = r.notes[i] /\ r.notes[i] \notin Dummies
    BY <1>1, PaddedAre
  <2>2. QED
    BY <1>1, <2>1 DEF InAmount, InAmt
<1>2. CASE i \notin DOMAIN r.notes
  <2>1. In(r, DummyOf[f], i) \in Dummies
    BY <1>2, PaddedAre
  <2>2. QED
    BY <1>2, <2>1 DEF InAmount, InAmt
<1>3. QED
  BY <1>1, <1>2

\* What the client checks in its integers is what the circuit is given.
LEMMA EquationsAgree ==
  ASSUME TypeOK, NEW f \in Flows, Formed(Asked(f)), OwnNotes(Asked(f), leaves, nextIndex),
         Width!Conserved(<<InAmt(Asked(f), leaves, 1), InAmt(Asked(f), leaves, 2)>>,
                         Ext(Asked(f), leaves), <<OutAmt(Asked(f), 1), OutAmt(Asked(f), 2)>>)
  PROVE  LET q == ProofOf(f)
             e == Ext(Asked(f), leaves)
         IN  /\ q.publicAmount = BalancingAmount(q.ins, q.outs)
             /\ q.publicAmount = PublicAmount(e)
             /\ e \in Int /\ e < MaxExtAmount /\ -e < MaxExtAmount
             /\ OutAmt(Asked(f), 1) + OutAmt(Asked(f), 2)
                  = InAmt(Asked(f), leaves, 1) + InAmt(Asked(f), leaves, 2) + e
<1> DEFINE r == Asked(f)
           a == InAmt(r, leaves, 1)
           b == InAmt(r, leaves, 2)
           c == OutAmt(r, 1)
           d == OutAmt(r, 2)
           e == Ext(r, leaves)
<1>1. /\ a \in 0 .. MaxExtAmount - 1 /\ b \in 0 .. MaxExtAmount - 1 /\ e \in Int
      /\ c \in 0 .. Width!MaxU128 /\ d \in 0 .. Width!MaxU128
  BY AmountsAre
<1>2. ProofOf(f).publicAmount = Width!FieldOf(e)
  BY ProofIs
<1>3. BalancingAmount(ProofOf(f).ins, ProofOf(f).outs) = (c + d - a - b) % FieldSize
  <2>1. /\ ProofOf(f).outs[1].amount = c /\ ProofOf(f).outs[2].amount = d
        /\ ProofOf(f).ins[1] = In(r, DummyOf[f], 1) /\ ProofOf(f).ins[2] = In(r, DummyOf[f], 2)
    <3>1. /\ ProofOf(f).outs = Params(r).outs
          /\ ProofOf(f).ins = <<In(r, DummyOf[f], 1), In(r, DummyOf[f], 2)>>
      BY ProofIs
    <3>2. Params(r).outs[1].amount = c /\ Params(r).outs[2].amount = d
      BY ParamsAre
    <3>3. QED
      BY <3>1, <3>2
  <2>2. InAmount(ProofOf(f).ins[1]) = a /\ InAmount(ProofOf(f).ins[2]) = b
    BY <2>1, PaddedAmounts
  <2>3. QED
    BY <2>1, <2>2 DEF BalancingAmount
<1>4. Width!Conserved(<<a, b>>, e, <<c, d>>)
  OBVIOUS
<1> HIDE DEF a, b, c, d, e
<1>5. a \in Int /\ b \in Int /\ c \in Int /\ d \in Int
  BY <1>1, WidthFacts
<1>6. Width!SumsFit(a + b, e, c + d) /\ c + d = a + b + e
  BY <1>1, <1>4, <1>5, EquationIs
<1>7. a + b \in 0 .. Width!MaxU128 /\ e <= Width!MaxU128 /\ -e <= Width!MaxU128
  BY <1>1, <1>5, <1>6, PublicBounds
<1>8. /\ a \in Width!NoteAmount /\ b \in Width!NoteAmount
      /\ c \in Width!NoteAmount /\ d \in Width!NoteAmount
  <2> USE DEF Width!NoteAmount
  <2>1. c \in Width!NoteAmount /\ d \in Width!NoteAmount
    BY <1>1
  <2>2. a <= Width!MaxU128 /\ b <= Width!MaxU128 /\ 0 <= a /\ 0 <= b
    BY <1>1, <1>5, <1>7, WidthFacts
  <2>3. QED
    BY <1>5, <2>1, <2>2, WidthFacts
<1>9. Width!FieldOf(e) = (c + d - a - b) % FieldSize
  BY <1>1, <1>4, <1>6, <1>8, ClientEquationIsCircuitEquation
<1>10. Width!FieldOf(e) = PublicAmount(e)
  BY DEF Width!FieldOf, PublicAmount
<1>11. e < MaxExtAmount /\ -e < MaxExtAmount
  BY <1>1, <1>7, WidthFacts
<1>12. QED
  BY <1>1, <1>2, <1>3, <1>6, <1>9, <1>10, <1>11 DEF a, b, c, d, e

\* The circuit's statement, from what the flow has been told and has checked.
LEMMA AgreedIsProvable ==
  ASSUME TypeOK, NEW f \in Flows, Formed(Asked(f)),
         Told(Asked(f), flow[f], past, leaves), past[flow[f].root].next \in 0 .. nextIndex,
         Agreed(Asked(f), flow[f], past, leaves, DummyOf[f])
  PROVE  Provable(ProofOf(f)) /\ Balanced(Params(Asked(f))) /\ PathsFit(f)
<1> DEFINE r == Asked(f)
           s == flow[f]
           d == DummyOf[f]
           q == ProofOf(f)
<1>1. OwnNotes(r, leaves, nextIndex)
  <2>1. 0 .. past[s.root].next - 1 \subseteq 0 .. nextIndex - 1
    BY DEF TypeOK
  <2>2. QED
    BY <2>1 DEF Told, OwnNotes
<1>2. /\ q.owners = <<r.user, r.user>> /\ q.root = past[s.root].next
      /\ q.ins = <<In(r, d, 1), In(r, d, 2)>> /\ q.outs = Params(r).outs
      /\ q.membershipRoot = Local(s.db).members /\ q.nonMembershipRoot = past[s.bulk].blocked
  BY ProofIs
<1>3. Local(s.db) = At(past, s.db)
  BY DEF Local, At
<1>4. r.user \in Elements(q.membershipRoot) /\ r.user \notin q.nonMembershipRoot
  BY <1>2, <1>3 DEF Told, Agreed
<1>5. ASSUME NEW i \in 1 .. 2 PROVE Opens(r.user, q.root, q.ins[i])
  <2>1. q.ins[i] = In(r, d, i)
    BY <1>2
  <2>2. CASE i \in DOMAIN r.notes
    <3>1. In(r, d, i) = r.notes[i]
      BY <2>2, PaddedAre
    <3>2. r.notes[i] \in 0 .. past[s.root].next - 1 /\ leaves[r.notes[i]].owner = r.user
      BY <2>2 DEF Told, OwnNotes
    <3>3. r.notes[i] < past[s.root].next
      BY <3>2
    <3>4. QED
      BY <1>2, <2>1, <3>1, <3>2, <3>3 DEF Opens
  <2>3. CASE i \notin DOMAIN r.notes
    <3>1. In(r, d, i) \in Dummies
      BY <2>3, PaddedAre
    <3>2. QED
      BY <2>1, <3>1 DEF Opens
  <2>4. QED
    BY <2>2, <2>3
<1>6. q.outs[1].amount < MaxExtAmount /\ q.outs[2].amount < MaxExtAmount
  <2>1. q.outs[1].amount = OutAmt(r, 1) /\ q.outs[2].amount = OutAmt(r, 2)
    BY <1>2, ParamsAre
  <2>2. OutAmt(r, 1) \in 0 .. Width!MaxU128 /\ OutAmt(r, 2) \in 0 .. Width!MaxU128
    BY <1>1, AmountsAre
  <2>3. QED
    BY <2>1, <2>2, WidthFacts
<1>7. q.ins[1] # q.ins[2]
  BY <1>2 DEF Agreed
<1>8. q.publicAmount = BalancingAmount(q.ins, q.outs)
  BY <1>1, EquationsAgree DEF Agreed
<1>9. Provable(q)
  <2>1. \A i \in 1 .. 2 : q.owners[i] = r.user
    BY <1>2
  <2> HIDE DEF q, r
  <2>2. QED
    BY <1>4, <1>5, <1>6, <1>7, <1>8, <2>1 DEF Provable
<1>10. Balanced(Params(r))
  BY BalancedIs DEF Agreed
<1>11. PathsFit(f)
  <2>1. Worth(Params(r).notes) > 0 => r.notes # <<>>
    <3>1. Params(r).notes = r.notes
      BY ParamsAre
    <3>2. r.notes = <<>> => InAmt(r, leaves, 1) = 0 /\ InAmt(r, leaves, 2) = 0
      BY DEF InAmt
    <3>3. QED
      BY <3>1, <3>2, InputsAre
  <2>2. QED
    BY <1>3, <2>1 DEF PathsFit, Told, Agreed
<1>12. QED
  BY <1>9, <1>10, <1>11

\* And back: what the prover accepts is agreed.
LEMMA WitnessIsAgreed ==
  ASSUME NEW f \in Flows, Formed(Asked(f)), WitnessFits(f)
  PROVE  Agreed(Asked(f), flow[f], past, leaves, DummyOf[f])
<1> DEFINE r == Asked(f)
           q == ProofOf(f)
<1>1. Balanced(Params(r)) /\ Provable(q) /\ PathsFit(f)
  BY DEF WitnessFits
<1>2. /\ q.owners = <<r.user, r.user>> /\ q.ins = <<In(r, DummyOf[f], 1), In(r, DummyOf[f], 2)>>
      /\ q.nonMembershipRoot = past[flow[f].bulk].blocked
  BY ProofIs
<1>3. q.ins[1] # q.ins[2] /\ q.owners[1] \notin q.nonMembershipRoot
  BY <1>1 DEF Provable
<1>4. Width!Conserved(<<InAmt(r, leaves, 1), InAmt(r, leaves, 2)>>, Ext(r, leaves),
                      <<OutAmt(r, 1), OutAmt(r, 2)>>)
  BY <1>1, BalancedIs
<1>5. past[flow[f].bulk].blocked # {} => past[flow[f].non].blocked = past[flow[f].bulk].blocked
  BY <1>1 DEF PathsFit
<1> HIDE DEF q
<1>6. In(r, DummyOf[f], 1) # In(r, DummyOf[f], 2) /\ r.user \notin past[flow[f].bulk].blocked
  BY <1>2, <1>3
<1>7. QED
  BY <1>4, <1>5, <1>6 DEF Agreed

-----------------------------------------------------------------------------
(* A longer past and more leaves change nothing of what a flow knows.      *)

LEMMA StaysTold ==
  ASSUME NEW p, NEW q, NEW n \in Nat, NEW lv, NEW lw, NEW r, NEW s,
         Len(p) \in Nat, Len(q) \in Nat, Len(p) <= Len(q),
         \A l \in 1 .. Len(p) : q[l] = p[l] /\ p[l].next \in 0 .. n,
         \A i \in 0 .. n - 1 : lw[i] = lv[i],
         Told(r, s, p, lv)
  PROVE  Told(r, s, q, lw)
<1>1. /\ s.bulk \in 1 .. Len(q) /\ s.root \in 1 .. Len(q) /\ s.non \in 1 .. Len(q)
      /\ s.db \in 0 .. Len(q)
  BY DEF Told
<1>2. q[s.bulk] = p[s.bulk] /\ q[s.root] = p[s.root] /\ p[s.root].next \in 0 .. n
  BY DEF Told
<1>3. At(q, s.db) = At(p, s.db)
  <2>1. s.db # 0 => s.db \in 1 .. Len(p)
    BY DEF Told
  <2>2. QED
    BY <2>1 DEF At
<1>4. OwnNotes(r, lw, q[s.root].next)
  <2>1. OwnNotes(r, lv, p[s.root].next)
    BY DEF Told
  <2>2. ASSUME NEW i \in DOMAIN r.notes
        PROVE  r.notes[i] \in 0 .. p[s.root].next - 1 /\ lw[r.notes[i]] = lv[r.notes[i]]
    <3>1. r.notes[i] \in 0 .. p[s.root].next - 1
      BY <2>1 DEF OwnNotes
    <3>2. r.notes[i] \in 0 .. n - 1
      BY <1>2, <3>1
    <3>3. QED
      BY <3>1, <3>2
  <2>3. QED
    BY <1>2, <2>1, <2>2 DEF OwnNotes
<1>5. QED
  BY <1>1, <1>2, <1>3, <1>4 DEF Told

LEMMA StaysAgreed ==
  ASSUME NEW p, NEW q, NEW n \in Nat, NEW lv, NEW lw, NEW r, NEW s, NEW d,
         Len(p) \in Nat, Len(q) \in Nat, Len(p) <= Len(q),
         \A l \in 1 .. Len(p) : q[l] = p[l] /\ p[l].next \in 0 .. n,
         \A i \in 0 .. n - 1 : lw[i] = lv[i],
         Told(r, s, p, lv), Agreed(r, s, p, lv, d)
  PROVE  Agreed(r, s, q, lw, d)
<1>1. q[s.bulk] = p[s.bulk] /\ q[s.non] = p[s.non] /\ p[s.root].next \in 0 .. n
  BY DEF Told
<1>2. ASSUME NEW i \in DOMAIN r.notes PROVE lw[r.notes[i]] = lv[r.notes[i]]
  <2>1. r.notes[i] \in 0 .. p[s.root].next - 1
    BY DEF Told, OwnNotes
  <2>2. r.notes[i] \in 0 .. n - 1
    BY <1>1, <2>1
  <2>3. QED
    BY <2>2
<1>3. InAmt(r, lw, 1) = InAmt(r, lv, 1) /\ InAmt(r, lw, 2) = InAmt(r, lv, 2)
  BY <1>2 DEF InAmt
<1>4. Ext(r, lw) = Ext(r, lv)
  BY <1>3 DEF Ext
<1>5. QED
  BY <1>1, <1>3, <1>4 DEF Agreed

LEMMA StaysFit ==
  ASSUME NEW p, NEW q, NEW n \in Nat, NEW lv, NEW lw, NEW r, NEW s, NEW d, NEW fl, NEW gl,
         Len(p) \in Nat, Len(q) \in Nat, Len(p) <= Len(q),
         \A l \in 1 .. Len(p) : q[l] = p[l] /\ p[l].next \in 0 .. n,
         \A i \in 0 .. n - 1 : lw[i] = lv[i],
         Fits(r, s, fl, p, lv, d),
         gl \in {"none", "sent", "landed", "rejected"}, gl = "none" <=> fl = "none"
  PROVE  Fits(r, s, gl, q, lw, d)
<1>1. 0 .. Len(p) \subseteq 0 .. Len(q) /\ 1 .. Len(p) \subseteq 1 .. Len(q)
  OBVIOUS
<1>2. s \in FlowRecord(Len(q))
  BY <1>1 DEF Fits, FlowRecord
<1>3. s.step \in {"storage", "prove"} => Unlisted(r, s, q)
  <2>1. s.step \in {"storage", "prove"} => s.bulk \in 1 .. Len(p) /\ s.non \in 1 .. Len(p)
    BY DEF Fits, Told
  <2>2. QED
    BY <2>1 DEF Fits, Unlisted
<1>4. s.step \in {"prove", "sign", "confirm"} \/ fl # "none" => Told(r, s, q, lw)
  BY StaysTold DEF Fits
<1>5. s.step = "sign" => Agreed(r, s, q, lw, d)
  BY StaysAgreed DEF Fits
<1>6. QED
  BY <1>1, <1>2, <1>3, <1>4, <1>5 DEF Fits

-----------------------------------------------------------------------------
(* The steps of one flow, by value.                                        *)

LEMMA SameReads ==
  ASSUME NEW r, NEW s, NEW t, NEW p, NEW lv, NEW d,
         t.bulk = s.bulk, t.root = s.root, t.non = s.non, t.db = s.db
  PROVE  /\ Told(r, t, p, lv) <=> Told(r, s, p, lv)
         /\ Unlisted(r, t, p) <=> Unlisted(r, s, p)
         /\ Agreed(r, t, p, lv, d) <=> Agreed(r, s, p, lv, d)
BY DEF Told, Unlisted, Agreed

\* Another step, the reads as they were.
LEMMA StepIs ==
  ASSUME NEW l \in Nat, NEW s \in FlowRecord(l), NEW step \in Ended \cup {"idle"} \cup Serving
  PROVE  LET t == [s EXCEPT !.step = step]
         IN  /\ t \in FlowRecord(l) /\ t.step = step /\ t.tries = s.tries
             /\ t.bulk = s.bulk /\ t.root = s.root /\ t.non = s.non /\ t.db = s.db
BY DEF FlowRecord

LEMMA IdleIs ==
  ASSUME NEW l \in Nat, NEW step \in Ended \cup {"idle"} \cup Serving
  PROVE  LET t == [Idle EXCEPT !.step = step]
         IN t \in FlowRecord(l) /\ t.step = step /\ t.tries = 0
BY FirstAssumption DEF Idle, FlowRecord

LEMMA StepsDiffer ==
  /\ Ended \cap Serving = {} /\ "idle" \notin Ended \cup Serving
  /\ {"bulk", "root", "non", "storage", "prove", "sign", "confirm"} \subseteq Serving
  /\ {"done", "register", "failed"} \subseteq Ended
BY DEF Ended, Serving

\* A flow that has sent nothing may end.
LEMMA EndsFits ==
  ASSUME NEW r, NEW s, NEW p, NEW lv, NEW d, NEW step \in Ended, Len(p) \in Nat
  PROVE  Fits(r, [Idle EXCEPT !.step = step], "none", p, lv, d)
<1> DEFINE t == [Idle EXCEPT !.step = step]
<1>1. t \in FlowRecord(Len(p)) /\ t.step = step
  BY IdleIs
<1>2. step \notin Serving \cup {"idle", "bulk", "root", "non", "storage", "prove", "sign", "confirm"}
  BY DEF Ended, Serving
<1> HIDE DEF t
<1>3. QED
  BY <1>1, <1>2 DEF Fits, t

\* It may start again.
LEMMA StartsFits ==
  ASSUME NEW r, NEW p, NEW lv, NEW d, Len(p) \in Nat, Formed(r)
  PROVE  Fits(r, [Idle EXCEPT !.step = "bulk"], "none", p, lv, d)
<1> DEFINE t == [Idle EXCEPT !.step = "bulk"]
<1>1. t \in FlowRecord(Len(p)) /\ t.step = "bulk" /\ t.tries = 0
  BY IdleIs, StepsDiffer
<1>2. 0 < MaxSnapshotAttempts
  BY FirstAssumption
<1> HIDE DEF t
<1>3. QED
  BY <1>1, <1>2 DEF Fits, t

\* A flow that has told its transaction's end, or lost sight of it.
LEMMA LeavesFits ==
  ASSUME NEW r, NEW s, NEW p, NEW lv, NEW d, NEW fl, Len(p) \in Nat,
         Fits(r, s, fl, p, lv, d), s.step \in Serving, NEW step \in Ended
  PROVE  Fits(r, [s EXCEPT !.step = step], fl, p, lv, d)
<1> DEFINE t == [s EXCEPT !.step = step]
<1>1. /\ t \in FlowRecord(Len(p)) /\ t.step = step
      /\ t.bulk = s.bulk /\ t.root = s.root /\ t.non = s.non /\ t.db = s.db
  BY StepIs DEF Fits
<1>2. step \notin Serving \cup {"idle", "bulk", "root", "non", "storage", "prove", "sign", "confirm"}
  BY DEF Ended, Serving
<1> HIDE DEF t
<1>3. Told(r, t, p, lv) <=> Told(r, s, p, lv)
  BY <1>1, SameReads
<1>4. QED
  BY <1>1, <1>2, <1>3 DEF Fits, t

LEMMA ClickFits ==
  ASSUME NEW r, NEW s, NEW p, NEW lv, NEW d, Len(p) \in Nat,
         Fits(r, s, "none", p, lv, d), s.step = "idle", Formed(r)
  PROVE  Fits(r, [s EXCEPT !.step = "bulk"], "none", p, lv, d)
<1> DEFINE t == [s EXCEPT !.step = "bulk"]
<1>1. t \in FlowRecord(Len(p)) /\ t.step = "bulk" /\ t.tries = s.tries
  BY StepIs, StepsDiffer DEF Fits
<1>2. s.tries < MaxSnapshotAttempts
  BY DEF Fits
<1> HIDE DEF t
<1>3. QED
  BY <1>1, <1>2 DEF Fits, t

LEMMA ReadBulkFits ==
  ASSUME NEW r, NEW s, NEW p, NEW lv, NEW d, Len(p) \in Nat \ {0},
         Fits(r, s, "none", p, lv, d), s.step = "bulk"
  PROVE  Fits(r, [s EXCEPT !.step = "root", !.tries = s.tries + 1, !.bulk = Len(p)], "none", p, lv, d)
<1> DEFINE step == "root"
           n == Len(p)
           k == s.tries + 1
           t == [s EXCEPT !.step = step, !.tries = k, !.bulk = n]
<1>1. s \in FlowRecord(Len(p)) /\ s.tries < MaxSnapshotAttempts /\ Formed(r)
  BY DEF Fits, Serving
<1>2. k \in 0 .. MaxSnapshotAttempts
  BY <1>1, FirstAssumption DEF FlowRecord
<1>3. n \in 0 .. Len(p) /\ step \in Ended \cup {"idle"} \cup Serving /\ n \in 1 .. Len(p)
  BY StepsDiffer
<1> HIDE DEF step, n, k
<1>4. t \in FlowRecord(Len(p)) /\ t.step = step /\ t.bulk = n
  BY <1>1, <1>2, <1>3 DEF FlowRecord
<1> HIDE DEF t
<1>5. t.step = "root"
  BY <1>4 DEF step
<1>6. Fits(r, t, "none", p, lv, d)
  BY <1>1, <1>3, <1>4, <1>5 DEF Fits
<1>7. QED
  BY <1>6 DEF t, step, n, k

LEMMA ReadRootFits ==
  ASSUME NEW r, NEW s, NEW p, NEW lv, NEW d, Len(p) \in Nat \ {0},
         Fits(r, s, "none", p, lv, d), s.step = "root"
  PROVE  Fits(r, [s EXCEPT !.step = "non", !.tries = 0, !.root = Len(p)], "none", p, lv, d)
<1> DEFINE step == "non"
           n == Len(p)
           k == 0
           t == [s EXCEPT !.step = step, !.tries = k, !.root = n]
<1>1. s \in FlowRecord(Len(p)) /\ s.bulk \in 1 .. Len(p) /\ Formed(r)
  BY DEF Fits, Serving
<1>2. k \in 0 .. MaxSnapshotAttempts
  BY FirstAssumption
<1>3. n \in 0 .. Len(p) /\ step \in Ended \cup {"idle"} \cup Serving /\ n \in 1 .. Len(p)
  BY StepsDiffer
<1> HIDE DEF step, n, k
<1>4. t \in FlowRecord(Len(p)) /\ t.step = step /\ t.bulk = s.bulk /\ t.root = n
  BY <1>1, <1>2, <1>3 DEF FlowRecord
<1> HIDE DEF t
<1>5. t.step = "non"
  BY <1>4 DEF step
<1>6. Fits(r, t, "none", p, lv, d)
  BY <1>1, <1>3, <1>4, <1>5 DEF Fits
<1>7. QED
  BY <1>6 DEF t, step, n, k

LEMMA RetryFits ==
  ASSUME NEW r, NEW s, NEW p, NEW lv, NEW d, Len(p) \in Nat,
         Fits(r, s, "none", p, lv, d), s.step = "root", s.tries < MaxSnapshotAttempts
  PROVE  Fits(r, [s EXCEPT !.step = "bulk"], "none", p, lv, d)
<1> DEFINE t == [s EXCEPT !.step = "bulk"]
<1>1. s \in FlowRecord(Len(p)) /\ Formed(r)
  BY DEF Fits, Serving
<1>2. t \in FlowRecord(Len(p)) /\ t.step = "bulk" /\ t.tries = s.tries
  BY <1>1, StepIs, StepsDiffer
<1> HIDE DEF t
<1>3. QED
  BY <1>1, <1>2 DEF Fits, t

LEMMA ReadNonMembershipFits ==
  ASSUME NEW r, NEW s, NEW p, NEW lv, NEW d, Len(p) \in Nat \ {0},
         Fits(r, s, "none", p, lv, d), s.step = "non",
         ~(p[s.bulk].blocked # {} /\ r.user \in p[Len(p)].blocked)
  PROVE  Fits(r, [s EXCEPT !.step = "storage", !.non = Len(p)], "none", p, lv, d)
<1> DEFINE step == "storage"
           n == Len(p)
           t == [s EXCEPT !.step = step, !.non = n]
<1>1. s \in FlowRecord(Len(p)) /\ s.bulk \in 1 .. Len(p) /\ s.root \in 1 .. Len(p) /\ Formed(r)
  BY DEF Fits, Serving
<1>2. n \in 0 .. Len(p) /\ step \in Ended \cup {"idle"} \cup Serving /\ n \in 1 .. Len(p)
  BY StepsDiffer
<1>3. ~(p[s.bulk].blocked # {} /\ r.user \in p[n].blocked)
  OBVIOUS
<1> HIDE DEF step, n
<1>4. t \in FlowRecord(Len(p)) /\ t.step = step /\ t.bulk = s.bulk /\ t.root = s.root /\ t.non = n
  BY <1>1, <1>2 DEF FlowRecord
<1> HIDE DEF t
<1>5. t.step = "storage"
  BY <1>4 DEF step
<1>6. Unlisted(r, t, p)
  BY <1>3, <1>4 DEF Unlisted
<1>7. Fits(r, t, "none", p, lv, d)
  BY <1>1, <1>2, <1>4, <1>5, <1>6 DEF Fits
<1>8. QED
  BY <1>7 DEF t, step, n

LEMMA ReadyFits ==
  ASSUME NEW r, NEW s, NEW p, NEW lv, NEW d, NEW db \in 0 .. Len(p), Len(p) \in Nat \ {0},
         Fits(r, s, "none", p, lv, d), s.step = "storage",
         At(p, db).members = p[s.bulk].members, r.user \in Elements(p[s.bulk].members),
         r.notes # <<>> => At(p, db).next = p[s.root].next,
         OwnNotes(r, lv, p[s.root].next)
  PROVE  Fits(r, [s EXCEPT !.step = "prove", !.db = db], "none", p, lv, d)
<1> DEFINE step == "prove"
           t == [s EXCEPT !.step = step, !.db = db]
<1>1. /\ s \in FlowRecord(Len(p)) /\ Formed(r) /\ Unlisted(r, s, p)
      /\ s.bulk \in 1 .. Len(p) /\ s.root \in 1 .. Len(p) /\ s.non \in 1 .. Len(p)
  BY DEF Fits, Serving
<1>2. step \in Ended \cup {"idle"} \cup Serving
  BY StepsDiffer
<1> HIDE DEF step
<1>3. /\ t \in FlowRecord(Len(p)) /\ t.step = step
      /\ t.bulk = s.bulk /\ t.root = s.root /\ t.non = s.non /\ t.db = db
  BY <1>1, <1>2 DEF FlowRecord
<1> HIDE DEF t
<1>4. t.step = "prove"
  BY <1>3 DEF step
<1>5. Unlisted(r, t, p)
  BY <1>1, <1>3 DEF Unlisted
<1>6. Told(r, t, p, lv)
  BY <1>1, <1>3 DEF Told
<1>7. Fits(r, t, "none", p, lv, d)
  BY <1>1, <1>3, <1>4, <1>5, <1>6 DEF Fits
<1>8. QED
  BY <1>7 DEF t, step

LEMMA ProveFits ==
  ASSUME NEW r, NEW s, NEW p, NEW lv, NEW d, Len(p) \in Nat,
         Fits(r, s, "none", p, lv, d), s.step = "prove", Agreed(r, s, p, lv, d)
  PROVE  Fits(r, [s EXCEPT !.step = "sign"], "none", p, lv, d)
<1> DEFINE t == [s EXCEPT !.step = "sign"]
<1>1. /\ t \in FlowRecord(Len(p)) /\ t.step = "sign"
      /\ t.bulk = s.bulk /\ t.root = s.root /\ t.non = s.non /\ t.db = s.db
  BY StepIs, StepsDiffer DEF Fits
<1>2. Formed(r) /\ Told(r, s, p, lv)
  BY DEF Fits, Serving
<1> HIDE DEF t
<1>3. Told(r, t, p, lv) /\ Agreed(r, t, p, lv, d)
  BY <1>1, <1>2, SameReads
<1>4. QED
  BY <1>1, <1>2, <1>3 DEF Fits, t

LEMMA SendFits ==
  ASSUME NEW r, NEW s, NEW p, NEW lv, NEW d, Len(p) \in Nat,
         Fits(r, s, "none", p, lv, d), s.step = "sign"
  PROVE  Fits(r, [s EXCEPT !.step = "confirm"], "sent", p, lv, d)
<1> DEFINE t == [s EXCEPT !.step = "confirm"]
<1>1. /\ t \in FlowRecord(Len(p)) /\ t.step = "confirm"
      /\ t.bulk = s.bulk /\ t.root = s.root /\ t.non = s.non /\ t.db = s.db
  BY StepIs, StepsDiffer DEF Fits
<1>2. Formed(r) /\ Told(r, s, p, lv)
  BY DEF Fits, Serving
<1> HIDE DEF t
<1>3. Told(r, t, p, lv)
  BY <1>1, <1>2, SameReads
<1>4. QED
  BY <1>1, <1>2, <1>3 DEF Fits, t

-----------------------------------------------------------------------------
(* The start.                                                              *)

LEMMA TheContracts ==
  TheMembership \in MembershipAsps /\ TheNonMembership \in NonMembershipAsps
BY ContractsAssumption DEF TheMembership, TheNonMembership

LEMMA FirstAre ==
  /\ FirstNotes[1] \in Note /\ FirstNotes[2] \in Note
  /\ FirstNotes[1].amount \in Nat /\ FirstNotes[2].amount \in Nat
BY FirstAssumption, WidthFacts DEF Note

LEMMA FlowTypeStart == FlowInit => TypeOK
<1> SUFFICES ASSUME FlowInit PROVE TypeOK
  OBVIOUS
<1>1. nextIndex \in Nat /\ leaves \in [0 .. nextIndex - 1 -> Note]
  <2>1. nextIndex = 2 /\ leaves = [i \in 0 .. 1 |-> FirstNotes[i + 1]]
    BY DEF FlowInit
  <2>2. \A i \in 0 .. 1 : FirstNotes[i + 1] \in Note
    BY FirstAre
  <2>3. QED
    BY <2>1, <2>2
<1>2. 1 % RootHistorySize \in Slots /\ 0 \in Slots
  BY HistoryAssumption DEF Slots
<1>3. /\ currentRootIndex \in Slots /\ DOMAIN roots \in SUBSET Slots
      /\ \A i \in DOMAIN roots : roots[i] \in 0 .. nextIndex
  <2>1. /\ currentRootIndex = 1 % RootHistorySize /\ nextIndex = 2
        /\ roots = [i \in {0, 1 % RootHistorySize} |-> IF i = 1 % RootHistorySize THEN 2 ELSE 0]
    BY DEF FlowInit
  <2> DEFINE one == 1 % RootHistorySize
  <2> HIDE DEF one
  <2>2. QED
    BY <1>2, <2>1 DEF one
<1>4. spent \subseteq ((0 .. nextIndex - 1) \cup Dummies) \X Multiples
  <2>1. 0 \in Multiples
    BY AmountAssumption DEF Multiples
  <2>2. QED
    BY <2>1, FirstAssumption DEF FlowInit
<1>5. balance \in [Addresses -> Nat]
  <2>1. FirstNotes[1].amount + FirstNotes[2].amount \in Nat
    BY FirstAre
  <2>2. QED
    BY <2>1, AmountAssumption DEF FlowInit, Addresses
<1>6. /\ admin \in Users /\ aspMembership \in MembershipAsps /\ aspNonMembership \in NonMembershipAsps
      /\ members \in [MembershipAsps -> Seq(Users)]
      /\ blocked \in [NonMembershipAsps -> SUBSET Users]
      /\ pastBlocked \in [NonMembershipAsps -> SUBSET SUBSET Users]
  BY TheContracts, DeployerAssumption, AspAssumption DEF FlowInit
<1>7. QED
  BY <1>1, <1>3, <1>4, <1>5, <1>6 DEF TypeOK

\* The map at the start, and after calls given field elements.
LEMMA FirstKeys ==
  ASSUME FlowInit
  PROVE  Canonical /\ Nullified = FirstSpent
<1>1. spent = FirstSpent \X {0}
  BY DEF FlowInit
<1>2. Canonical
  BY <1>1 DEF Canonical
<1>3. ASSUME NEW n
      PROVE  n \in Nullified <=> n \in FirstSpent
  <2>1. n \in FirstSpent <=> <<n, 0>> \in spent
    BY <1>1
  <2>2. n \in Nullified => <<n, 0>> \in spent
    <3>1. ASSUME n \in Nullified PROVE <<n, 0>> \in spent
      <4>1. PICK x \in spent : x[1] = n
        BY <3>1 DEF Nullified
      <4>2. x = <<n, 0>>
        BY <1>1, <4>1
      <4>3. QED
        BY <4>1, <4>2
    <3>2. QED
      BY <3>1
  <2>3. <<n, 0>> \in spent => n \in Nullified
    BY DEF Nullified
  <2>4. QED
    BY <2>1, <2>2, <2>3
<1>4. QED
  BY <1>2, <1>3

LEMMA MoreKeys ==
  ASSUME Canonical, NEW D, spent' = spent \cup (D \X {0})
  PROVE  Canonical' /\ Nullified' = Nullified \cup D
<1>1. Canonical'
  BY DEF Canonical
<1>2. ASSUME NEW n
      PROVE  n \in Nullified' <=> n \in Nullified \/ n \in D
  <2>1. ASSUME n \in Nullified' PROVE n \in Nullified \/ n \in D
    <3>1. PICK x \in spent' : x[1] = n
      BY <2>1 DEF Nullified
    <3>2. CASE x \in spent
      BY <3>1, <3>2 DEF Nullified
    <3>3. CASE x \in D \X {0}
      BY <3>1, <3>3
    <3>4. QED
      BY <3>1, <3>2, <3>3
  <2>2. ASSUME n \in Nullified PROVE n \in Nullified'
    <3>1. PICK x \in spent : x[1] = n
      BY <2>2 DEF Nullified
    <3>2. x \in spent'
      BY <3>1
    <3>3. QED
      BY <3>1, <3>2 DEF Nullified
  <2>3. ASSUME n \in D PROVE n \in Nullified'
    <3>1. <<n, 0>> \in spent' /\ <<n, 0>>[1] = n
      BY <2>3
    <3>2. QED
      BY <3>1 DEF Nullified
  <2>4. QED
    BY <2>1, <2>2, <2>3
<1>3. QED
  BY <1>1, <1>2

LEMMA PlainPair ==
  ASSUME NEW a, NEW b
  PROVE  Keys(<<a, b>>, Plain) = {a, b} \X {0}
<1>1. Keys(<<a, b>>, Plain) = {<<a, 0>>, <<b, 0>>}
  BY DEF Keys, Plain
<1>2. QED
  BY <1>1

\* Unspent, for field elements.
LEMMA PlainUnspent ==
  ASSUME TypeOK, Canonical, NEW a, NEW b
  PROVE  Unspent(<<a, b>>, Plain) <=> a \notin Nullified /\ b \notin Nullified
<1>1. Unspent(<<a, b>>, Plain) <=> <<a, 0>> \notin spent /\ <<b, 0>> \notin spent
  BY PlainPair DEF Unspent
<1>2. (a \in Nullified <=> <<a, 0>> \in spent) /\ (b \in Nullified <=> <<b, 0>> \in spent)
  BY CanonicalKey
<1>3. QED
  BY <1>1, <1>2

\* Steps that touch neither tree, keys nor tokens.
LEMMA SoundStep ==
  ASSUME TypeOK, SoundInv, Administer \/ UNCHANGED vars
  PROVE  TypeOK' /\ SoundInv'
<1>1. TypeOK'
  BY TypeStep DEF Next
<1>2. UNCHANGED <<merkleVars, spent, balance>>
  BY AdministerKeepsTree
<1>3. SoundInv'
  BY <1>2 DEF SoundInv, Covered, Canonical, Nullified, UnspentTokens, Tokens, merkleVars
<1>4. QED
  BY <1>1, <1>3

LEMMA FlowSolventStart == FlowInit => SoundInv
<1> SUFFICES ASSUME FlowInit PROVE SoundInv
  OBVIOUS
<1> DEFINE a == FirstNotes[1].amount
           b == FirstNotes[2].amount
           A == {0} \X (1 .. a)
           B == {1} \X (1 .. b)
<1>1. a \in Nat /\ b \in Nat
  BY FirstAre
<1>2. UnspentTokens = A \cup B
  <2>1. nextIndex = 2 /\ leaves[0].amount = a /\ leaves[1].amount = b
    BY DEF FlowInit
  <2>2. (0 .. nextIndex - 1) \ Nullified = {0, 1}
    <3>1. 0 \notin Nullified /\ 1 \notin Nullified
      BY FirstKeys, FirstAssumption, DummyAssumption
    <3>2. QED
      BY <2>1, <3>1
  <2>3. Tokens(0) = A /\ Tokens(1) = B
    BY <2>1 DEF Tokens
  <2> HIDE DEF A, B
  <2>4. QED
    BY <2>2, <2>3 DEF UnspentTokens
<1>3. /\ IsFiniteSet(A) /\ Cardinality(A) = a /\ IsFiniteSet(B) /\ Cardinality(B) = b
  BY <1>1, TokenCount
<1>4. A \cap B = {}
  OBVIOUS
<1>5. IsFiniteSet(A \cup B) /\ Cardinality(A \cup B) = a + b
  <2> HIDE DEF A, B
  <2>1. QED
    BY <1>3, <1>4, DisjointUnion
<1>6. balance[PoolAddr] = a + b
  BY DEF FlowInit, Addresses
<1> HIDE DEF A, B, a, b
<1>7. QED
  BY <1>1, <1>2, <1>5, <1>6, FirstKeys DEF SoundInv, Covered

LEMMA FlowStart == FlowInit => FlowInv
<1> SUFFICES ASSUME FlowInit PROVE FlowInv
  OBVIOUS
<1> DEFINE first == [next |-> 2, members |-> InitialMembers, blocked |-> {}, spent |-> FirstSpent]
<1>1. past = <<first>> /\ first \in Moment
  BY FirstAssumption, AspAssumption DEF FlowInit, Moment
<1>2. past \in Seq(Moment) /\ Len(past) = 1 /\ past[1] = first
  <2> HIDE DEF first
  <2>1. QED
    BY <1>1
<1>3. ChainInv
  BY FlowTypeStart, FlowSolventStart DEF ChainInv, FlowInit
<1>4. PastInv
  <2>1. first = [next |-> nextIndex, members |-> members[TheMembership],
                 blocked |-> blocked[TheNonMembership], spent |-> Nullified]
    BY TheContracts, FirstKeys DEF FlowInit
  <2>2. first.next = 2
    OBVIOUS
  <2> HIDE DEF first
  <2>3. QED
    BY <1>2, <2>1, <2>2 DEF PastInv
<1>5. SyncInv
  <2>1. scenario \in Scenarios /\ Len(scenario.outside) \in Nat
    BY ScenarioAssumption DEF FlowInit
  <2>2. QED
    BY <1>2, <2>1 DEF FlowInit, SyncInv
<1>6. FlowsFit
  <2>1. Idle \in FlowRecord(1) /\ Idle.step = "idle" /\ Idle.tries = 0
    BY FirstAssumption DEF Idle, FlowRecord
  <2>2. flow = [f \in Flows |-> Idle] /\ flight = [f \in Flows |-> "none"]
    BY DEF FlowInit
  <2>3. "idle" \notin Serving /\ 0 < MaxSnapshotAttempts
    BY FirstAssumption DEF Serving
  <2>4. ASSUME NEW f \in Flows PROVE Fits(Asked(f), Idle, "none", past, leaves, DummyOf[f])
    BY <1>2, <2>1, <2>3 DEF Fits
  <2>5. QED
    BY <1>2, <2>1, <2>2, <2>4 DEF FlowsFit
<1>7. QED
  BY <1>3, <1>4, <1>5, <1>6 DEF FlowInv

-----------------------------------------------------------------------------
(* Steps of the chain.                                                     *)

\* What is known of the past: it is that of the chain now.
LEMMA PastFacts ==
  ASSUME TypeOK, PastInv
  PROVE  /\ Len(past) \in Nat \ {0} /\ nextIndex \in Nat
         /\ \A l \in 1 .. Len(past) : past[l] \in Moment /\ past[l].next \in 0 .. nextIndex
<1>1. Len(past) \in Nat \ {0} /\ nextIndex \in Nat
  BY DEF PastInv, TypeOK
<1>2. past[Len(past)].next = nextIndex
  BY DEF PastInv
<1>3. ASSUME NEW l \in 1 .. Len(past) PROVE past[l] \in Moment /\ past[l].next \in 0 .. nextIndex
  <2>1. past[l] \in Moment
    BY DEF PastInv
  <2>2. past[l].next \in Nat
    BY <2>1 DEF Moment
  <2>3. past[l].next <= past[Len(past)].next
    BY <1>1 DEF PastInv
  <2>4. QED
    BY <1>1, <1>2, <2>1, <2>2, <2>3
<1>4. QED
  BY <1>1, <1>3

LEMMA SpentAbove ==
  ASSUME NEW S, NEW n \in Nat, S \subseteq (0 .. n - 1) \cup Dummies
  PROVE  /\ S \subseteq Nat \cup Dummies
         /\ \A m \in Nat : n <= m => S \subseteq (0 .. m - 1) \cup Dummies
<1>1. ASSUME NEW x \in S PROVE x \in Dummies \/ x \in 0 .. n - 1
  OBVIOUS
<1>2. \A x \in 0 .. n - 1 : x \in Nat /\ \A m \in Nat : n <= m => x \in 0 .. m - 1
  OBVIOUS
<1>3. QED
  BY <1>1, <1>2

LEMMA PastGrows ==
  ASSUME TypeOK, PastInv, TypeOK', CloseLedger, nextIndex <= nextIndex'
  PROVE  /\ PastInv' /\ Len(past') = Len(past) + 1
         /\ \A l \in 1 .. Len(past) : past'[l] = past[l]
<1> DEFINE now == [next |-> nextIndex', members |-> members'[TheMembership],
                   blocked |-> blocked'[TheNonMembership], spent |-> Nullified']
<1>1. now \in Moment
  <2>1. /\ nextIndex' \in Nat /\ members'[TheMembership] \in Seq(Users)
        /\ blocked'[TheNonMembership] \in SUBSET Users
    BY TheContracts DEF TypeOK
  <2>2. Nullified' \in SUBSET (Nat \cup Dummies)
    <3>1. nextIndex' \in Nat /\ Nullified' \subseteq (0 .. nextIndex' - 1) \cup Dummies
      BY DEF TypeOK, Nullified
    <3>2. QED
      BY <3>1, SpentAbove
  <2>3. QED
    BY <2>1, <2>2 DEF Moment
<1>2. past' = Append(past, now) /\ past \in Seq(Moment) /\ Len(past) \in Nat \ {0}
  BY PastFacts DEF CloseLedger, PastInv
<1>3. now.next = nextIndex'
  OBVIOUS
<1> HIDE DEF now
<1>4. /\ past' \in Seq(Moment) /\ Len(past') = Len(past) + 1
      /\ \A l \in 1 .. Len(past) : past'[l] = past[l]
      /\ past'[Len(past) + 1] = now
  BY <1>1, <1>2
<1>5. ASSUME NEW l \in 1 .. Len(past'), NEW k \in 1 .. l PROVE past'[k].next <= past'[l].next
  <2>1. CASE l \in 1 .. Len(past)
    <3>1. k \in 1 .. Len(past)
      BY <1>2, <2>1
    <3>2. past'[k] = past[k] /\ past'[l] = past[l]
      BY <1>4, <2>1, <3>1
    <3>3. past[k].next <= past[l].next
      BY <2>1 DEF PastInv
    <3>4. QED
      BY <3>2, <3>3
  <2>2. CASE l = Len(past) + 1
    <3>1. past'[l].next = nextIndex'
      BY <1>3, <1>4, <2>2
    <3>2. CASE k = Len(past) + 1
      BY <1>3, <1>4, <2>2, <3>1, <3>2 DEF TypeOK
    <3>3. CASE k \in 1 .. Len(past)
      <4>1. past'[k].next \in 0 .. nextIndex
        BY <1>4, <3>3, PastFacts
      <4>2. nextIndex' \in Nat /\ nextIndex \in Nat
        BY DEF TypeOK
      <4>3. QED
        BY <3>1, <4>1, <4>2
    <3>4. QED
      BY <1>2, <2>2, <3>2, <3>3
  <2>3. QED
    BY <1>2, <1>4, <2>1, <2>2
<1>6. PastInv'
  <2>1. Len(past') # 0 /\ past'[Len(past')] = now
    BY <1>2, <1>4
  <2>2. QED
    BY <1>4, <1>5, <2>1 DEF PastInv, now
<1>7. QED
  BY <1>4, <1>6

\* Flows that go on where they were, on a longer chain.
LEMMA FlowsStay ==
  ASSUME TypeOK, PastInv, FlowsFit, UNCHANGED <<scenario, flow>>,
         Len(past') \in Nat, Len(past) <= Len(past'), \A l \in 1 .. Len(past) : past'[l] = past[l],
         \A i \in 0 .. nextIndex - 1 : leaves'[i] = leaves[i],
         flight' \in [Flows -> {"none", "sent", "landed", "rejected"}],
         \A f \in Flows : flight'[f] = "none" <=> flight[f] = "none"
  PROVE  FlowsFit'
<1>1. /\ Len(past) \in Nat /\ nextIndex \in Nat
      /\ \A l \in 1 .. Len(past) : past'[l] = past[l] /\ past[l].next \in 0 .. nextIndex
  BY PastFacts
<1>2. ASSUME NEW f \in Flows
      PROVE  Fits(scenario.asks[f], flow[f], flight'[f], past', leaves', DummyOf[f])
  <2>1. Fits(scenario.asks[f], flow[f], flight[f], past, leaves, DummyOf[f])
    BY DEF FlowsFit, Asked
  <2>2. flight'[f] \in {"none", "sent", "landed", "rejected"}
    OBVIOUS
  <2>3. QED
    BY <1>1, <2>1, <2>2, StaysFit
<1>3. flow' \in [Flows -> FlowRecord(Len(past'))]
  <2>1. FlowRecord(Len(past)) \subseteq FlowRecord(Len(past'))
    <3>1. 0 .. Len(past) \subseteq 0 .. Len(past')
      BY <1>1
    <3>2. QED
      BY <3>1 DEF FlowRecord
  <2>2. QED
    BY <2>1 DEF FlowsFit
<1>4. QED
  BY <1>2, <1>3 DEF FlowsFit, Asked

LEMMA SyncStays ==
  ASSUME SyncInv, UNCHANGED <<scenario, syncVars>>, Len(past) \in Nat, Len(past') \in Nat,
         Len(past) <= Len(past'), happened' \in 0 .. Len(scenario.outside)
  PROVE  SyncInv'
<1>1. /\ saved' = saved /\ indexed' = indexed /\ processed' = processed /\ noted' = noted
      /\ scenario' = scenario
  BY DEF syncVars
<1>2. saved \in 0 .. Len(past')
  BY DEF SyncInv
<1>3. QED
  BY <1>1, <1>2 DEF SyncInv

LEMMA LeavesGrow ==
  ASSUME TypeOK, NEW o1, NEW o2, InsertTwoLeaves(o1, o2)
  PROVE  /\ nextIndex <= nextIndex' /\ nextIndex' = nextIndex + 2
         /\ \A i \in 0 .. nextIndex - 1 : leaves'[i] = leaves[i]
BY DEF TypeOK, InsertTwoLeaves

\* A change of the chain that a ledger closes.
LEMMA ChainStep ==
  ASSUME FlowInv, TypeOK', SoundInv', CloseLedger, nextIndex <= nextIndex',
         \A i \in 0 .. nextIndex - 1 : leaves'[i] = leaves[i],
         UNCHANGED <<aspMembership, aspNonMembership, scenario, syncVars, flow>>,
         happened' \in 0 .. Len(scenario.outside),
         flight' \in [Flows -> {"none", "sent", "landed", "rejected"}],
         \A f \in Flows : flight'[f] = "none" <=> flight[f] = "none"
  PROVE  FlowInv'
<1>1. TypeOK /\ PastInv /\ FlowsFit /\ SyncInv
  BY DEF FlowInv, ChainInv
<1>2. PastInv' /\ Len(past') = Len(past) + 1 /\ \A l \in 1 .. Len(past) : past'[l] = past[l]
  BY <1>1, PastGrows
<1>3. Len(past) \in Nat /\ Len(past') \in Nat /\ Len(past) <= Len(past')
  BY <1>1, <1>2, PastFacts
<1>4. FlowsFit'
  BY <1>1, <1>2, <1>3, FlowsStay
<1>5. SyncInv'
  BY <1>1, <1>3, SyncStays
<1>6. ChainInv'
  <2>1. aspMembership' = aspMembership /\ aspNonMembership' = aspNonMembership
    OBVIOUS
  <2>2. aspMembership = TheMembership /\ aspNonMembership = TheNonMembership
    BY DEF FlowInv, ChainInv
  <2>3. QED
    BY <2>1, <2>2 DEF ChainInv
<1>7. QED
  BY <1>2, <1>4, <1>5, <1>6 DEF FlowInv

\* A transaction that leaves two empty notes leaves the tokens as they are.
LEMMA OthersStep ==
  ASSUME ChainInv, NEW who \in Users, NEW dummies, dummies \subseteq Dummies,
         OthersTransact([who |-> who, dummies |-> dummies])
  PROVE  /\ TypeOK' /\ SoundInv' /\ nextIndex <= nextIndex'
         /\ \A i \in 0 .. nextIndex - 1 : leaves'[i] = leaves[i]
         /\ UNCHANGED <<aspMembership, aspNonMembership>>
<1> DEFINE o == [owner |-> who, amount |-> 0]
<1>1. o \in Note
  BY WidthFacts DEF Note
<1>2. /\ TypeOK /\ InsertTwoLeaves(o, o) /\ spent' = spent \cup (dummies \X {0})
      /\ Canonical' /\ Nullified' = Nullified \cup dummies
      /\ UNCHANGED <<balance, aspVars>>
  <2>1. /\ TypeOK /\ Canonical /\ spent' = spent \cup (dummies \X {0})
        /\ InsertTwoLeaves(o, o) /\ UNCHANGED <<balance, aspVars>>
    BY DEF ChainInv, SoundInv, OthersTransact
  <2>2. QED
    BY <2>1, MoreKeys
<1>3. nextIndex' = nextIndex + 2 /\ nextIndex \in Nat
      /\ \A i \in 0 .. nextIndex - 1 : leaves'[i] = leaves[i]
  BY <1>1, <1>2, LeavesGrow DEF TypeOK
<1>4. spent' \subseteq ((0 .. nextIndex' - 1) \cup Dummies) \X Multiples
  <2>1. spent \subseteq ((0 .. nextIndex - 1) \cup Dummies) \X Multiples
    BY <1>2 DEF TypeOK
  <2>2. 0 .. nextIndex - 1 \subseteq 0 .. nextIndex' - 1
    BY <1>3
  <2>3. 0 \in Multiples
    BY AmountAssumption DEF Multiples
  <2>4. QED
    BY <1>2, <2>1, <2>2, <2>3
<1>5. TypeOK'
  BY <1>1, <1>2, <1>4, InsertType DEF TypeOK, aspVars
<1>6. UnspentTokens' = UnspentTokens
  <2>1. leaves'[nextIndex].amount = 0 /\ leaves'[nextIndex + 1].amount = 0
    <3>1. leaves' = [i \in 0 .. nextIndex + 1 |->
                       IF i = nextIndex THEN o ELSE IF i = nextIndex + 1 THEN o ELSE leaves[i]]
      BY <1>2 DEF InsertTwoLeaves
    <3>2. leaves'[nextIndex] = o /\ leaves'[nextIndex + 1] = o
      BY <1>3, <3>1
    <3>3. QED
      BY <3>2
  <2>2. \A i \in 0 .. nextIndex - 1 : i \in Nullified' <=> i \in Nullified
    BY <1>2, <1>3, DummyAssumption
  <2> DEFINE T(i) == {i} \X (1 .. leaves'[i].amount)
  <2>3. UnspentTokens' = UNION {T(i) : i \in (0 .. nextIndex + 1) \ Nullified'}
    BY <1>3 DEF UnspentTokens, Tokens
  <2>4. UnspentTokens = UNION {Tokens(i) : i \in (0 .. nextIndex - 1) \ Nullified}
    BY DEF UnspentTokens
  <2>5. T(nextIndex) = {} /\ T(nextIndex + 1) = {}
    BY <2>1
  <2>6. \A i \in 0 .. nextIndex - 1 : T(i) = Tokens(i)
    BY <1>3 DEF Tokens
  <2>7. \A i \in 0 .. nextIndex + 1 : i \in 0 .. nextIndex - 1 \/ i = nextIndex \/ i = nextIndex + 1
    BY <1>3
  <2>8. 0 .. nextIndex - 1 \subseteq 0 .. nextIndex + 1
    BY <1>3
  <2> HIDE DEF T
  <2>9. ASSUME NEW x PROVE x \in UnspentTokens' <=> x \in UnspentTokens
    <3>1. x \in UnspentTokens' <=> \E i \in (0 .. nextIndex + 1) \ Nullified' : x \in T(i)
      BY <2>3
    <3>2. x \in UnspentTokens <=> \E i \in (0 .. nextIndex - 1) \ Nullified : x \in Tokens(i)
      BY <2>4
    <3>3. QED
      BY <2>2, <2>5, <2>6, <2>7, <2>8, <3>1, <3>2
  <2>10. QED
    BY <2>9
<1>7. balance' = balance /\ UNCHANGED <<aspMembership, aspNonMembership>>
  BY <1>2 DEF aspVars
<1>8. SoundInv'
  <2>1. SoundInv
    BY DEF ChainInv
  <2>2. QED
    BY <1>2, <1>6, <1>7, <2>1 DEF SoundInv, Covered
<1>9. QED
  BY <1>3, <1>5, <1>7, <1>8

LEMMA OutsideStep ==
  ASSUME FlowInv, Outside
  PROVE  FlowInv'
<1> DEFINE e == scenario.outside[happened + 1]
<1>1. ChainInv /\ TypeOK /\ SoundInv /\ SyncInv
  BY DEF FlowInv, ChainInv
<1>2. /\ happened \in Nat /\ Len(scenario.outside) \in Nat
      /\ happened + 1 \in 1 .. Len(scenario.outside)
      /\ happened' = happened + 1 /\ CloseLedger /\ UNCHANGED <<scenario, syncVars, flow, flight>>
  BY <1>1, ScenarioAssumption DEF SyncInv, Outside, flowVars
<1>3. e.who \in Users /\ e.dummies \subseteq Dummies
  BY <1>1, <1>2, ScenarioAssumption DEF SyncInv
<1>4. /\ TypeOK' /\ SoundInv' /\ nextIndex <= nextIndex'
      /\ \A i \in 0 .. nextIndex - 1 : leaves'[i] = leaves[i]
      /\ UNCHANGED <<aspMembership, aspNonMembership>>
  <2>1. CASE OthersTransact(e)
    <3>1. OthersTransact([who |-> e.who, dummies |-> e.dummies])
      BY <2>1 DEF OthersTransact
    <3>2. QED
      BY <1>1, <1>3, <3>1, OthersStep
  <2>2. CASE \/ AspInsertLeaf(TheMembership, e.who) \/ AspBlock(TheNonMembership, e.who)
             \/ AspUnblock(TheNonMembership, e.who) \/ UNCHANGED vars
    <3> HIDE DEF e
    <3>1. Administer \/ UNCHANGED vars
      BY <1>3, <2>2, TheContracts DEF Administer
    <3>2. UNCHANGED <<leaves, nextIndex, aspMembership, aspNonMembership>>
      BY <2>2 DEF AspInsertLeaf, AspBlock, AspUnblock, SetBlocked, merkleVars, vars, aspVars
    <3>3. nextIndex \in Nat
      BY <1>1 DEF TypeOK
    <3>4. QED
      BY <1>1, <3>1, <3>2, <3>3, SoundStep
  <2>3. QED
    BY <2>1, <2>2 DEF Outside
<1>5. happened' \in 0 .. Len(scenario.outside)
  BY <1>2
<1>6. flight' \in [Flows -> {"none", "sent", "landed", "rejected"}]
  BY <1>2 DEF FlowInv, FlowsFit
<1>7. \A f \in Flows : flight'[f] = "none" <=> flight[f] = "none"
  BY <1>2
<1>8. QED
  BY <1>2, <1>4, <1>5, <1>6, <1>7, ChainStep

LEMMA SyncStep ==
  ASSUME FlowInv, SavePage \/ SaveProgress \/ Process
  PROVE  FlowInv'
<1>1. /\ UNCHANGED <<vars, past, scenario, happened, flow, flight>>
      /\ Len(past) \in Nat /\ SyncInv
  BY PastFacts DEF SavePage, SaveProgress, Process, chainVars, flowVars, FlowInv, ChainInv
<1>2. SyncInv'
  <2>1. CASE SavePage
    BY <1>1, <2>1 DEF SavePage, SyncInv, ledger
  <2>2. CASE SaveProgress
    BY <1>1, <2>2 DEF SaveProgress, SyncInv
  <2>3. CASE Process
    BY <1>1, <2>3 DEF Process, SyncInv
  <2>4. QED
    BY <2>1, <2>2, <2>3
<1>3. ChainInv'
  <2>1. ChainInv /\ TypeOK /\ SoundInv
    BY DEF FlowInv, ChainInv
  <2>2. TypeOK' /\ SoundInv'
    BY <1>1, <2>1, SoundStep
  <2>3. aspMembership' = aspMembership /\ aspNonMembership' = aspNonMembership
    BY <1>1 DEF vars, aspVars
  <2>4. QED
    BY <2>1, <2>2, <2>3 DEF ChainInv
<1>4. PastInv' /\ FlowsFit'
  <2>1. UNCHANGED <<nextIndex, leaves, members, blocked, Nullified, past, scenario, flow, flight>>
    BY <1>1 DEF vars, aspVars, merkleVars, Nullified
  <2>2. PastInv /\ FlowsFit
    BY DEF FlowInv
  <2>3. PastInv'
    BY <2>1, <2>2 DEF PastInv
  <2>4. FlowsFit'
    BY <2>1, <2>2 DEF FlowsFit, Asked
  <2>5. QED
    BY <2>3, <2>4
<1>5. QED
  BY <1>2, <1>3, <1>4 DEF FlowInv

-----------------------------------------------------------------------------
(* Steps of a flow.                                                        *)

LEMMA QuietStep ==
  ASSUME FlowInv, UNCHANGED <<vars, past, scenario, happened, syncVars>>, FlowsFit'
  PROVE  FlowInv'
<1>1. ChainInv /\ TypeOK /\ SoundInv /\ PastInv /\ SyncInv
  BY DEF FlowInv, ChainInv
<1>2. TypeOK' /\ SoundInv'
  BY <1>1, SoundStep
<1>3. ChainInv'
  <2>1. aspMembership' = aspMembership /\ aspNonMembership' = aspNonMembership
    BY DEF vars, aspVars
  <2>2. QED
    BY <1>1, <1>2, <2>1 DEF ChainInv
<1>4. PastInv'
  <2>1. UNCHANGED <<nextIndex, members, blocked, Nullified, past>>
    BY DEF vars, aspVars, merkleVars, Nullified
  <2>2. QED
    BY <1>1, <2>1 DEF PastInv
<1>5. SyncInv'
  BY <1>1 DEF SyncInv, syncVars
<1>6. QED
  BY <1>3, <1>4, <1>5 DEF FlowInv

LEMMA OneFlow ==
  ASSUME FlowInv, NEW f \in Flows, NEW s, NEW fl,
         UNCHANGED <<vars, past, scenario, happened, syncVars>>,
         flow' = [flow EXCEPT ![f] = s], flight' = [flight EXCEPT ![f] = fl],
         Fits(Asked(f), s, fl, past, leaves, DummyOf[f])
  PROVE  FlowInv'
<1>1. FlowsFit
  BY DEF FlowInv
<1>2. s \in FlowRecord(Len(past)) /\ fl \in {"none", "sent", "landed", "rejected"}
  BY DEF Fits
<1>3. UNCHANGED <<past, leaves, scenario>>
  BY DEF vars, merkleVars
<1>4. /\ flow' \in [Flows -> FlowRecord(Len(past))]
      /\ flight' \in [Flows -> {"none", "sent", "landed", "rejected"}]
  BY <1>1, <1>2 DEF FlowsFit
<1>5. ASSUME NEW g \in Flows
      PROVE  Fits(scenario.asks[g], flow'[g], flight'[g], past, leaves, DummyOf[g])
  <2>1. CASE g = f
    <3>1. flow'[g] = s /\ flight'[g] = fl
      BY <1>1, <2>1 DEF FlowsFit
    <3>2. QED
      BY <2>1, <3>1 DEF Asked
  <2>2. CASE g # f
    <3>1. flow'[g] = flow[g] /\ flight'[g] = flight[g]
      BY <1>1, <2>2 DEF FlowsFit
    <3>2. Fits(scenario.asks[g], flow[g], flight[g], past, leaves, DummyOf[g])
      BY <1>1 DEF FlowsFit, Asked
    <3>3. QED
      BY <3>1, <3>2
  <2>3. QED
    BY <2>1, <2>2
<1>6. FlowsFit'
  BY <1>3, <1>4, <1>5 DEF FlowsFit, Asked
<1>7. QED
  BY <1>6, QuietStep

\* The same for a flow that sends nothing.
LEMMA OneUnsent ==
  ASSUME FlowInv, NEW f \in Flows, NEW s, Keeps, flight[f] = "none",
         flow' = [flow EXCEPT ![f] = s],
         Fits(Asked(f), s, "none", past, leaves, DummyOf[f])
  PROVE  FlowInv'
<1>1. UNCHANGED <<vars, past, scenario, happened, syncVars, flight>>
  BY DEF Keeps, chainVars
<1>2. flight' = [flight EXCEPT ![f] = "none"]
  BY <1>1 DEF FlowInv, FlowsFit
<1>3. QED
  BY <1>1, <1>2, OneFlow

\* What the invariant says of one flow.
LEMMA FlowFacts ==
  ASSUME FlowInv, NEW f \in Flows
  PROVE  /\ Fits(Asked(f), flow[f], flight[f], past, leaves, DummyOf[f])
         /\ flow[f].step \notin Ended \cup {"confirm"} => flight[f] = "none"
         /\ Len(past) \in Nat \ {0} /\ TypeOK
<1>1. Fits(Asked(f), flow[f], flight[f], past, leaves, DummyOf[f])
  BY DEF FlowInv, FlowsFit
<1>2. Len(past) \in Nat \ {0} /\ TypeOK
  BY PastFacts DEF FlowInv, ChainInv
<1>3. QED
  BY <1>1, <1>2 DEF Fits

LEMMA GoesTo ==
  ASSUME FlowInv, NEW f \in Flows, NEW step, Goes(f, step)
  PROVE  flow' = [flow EXCEPT ![f] = [flow[f] EXCEPT !.step = step]]
BY DEF Goes, FlowInv, FlowsFit

LEMMA EndsStep ==
  ASSUME FlowInv, NEW f \in Flows, NEW step \in Ended, Ends(f, step), Keeps, flight[f] = "none"
  PROVE  FlowInv'
<1>1. Fits(Asked(f), [Idle EXCEPT !.step = step], "none", past, leaves, DummyOf[f])
  BY FlowFacts, EndsFits
<1>2. QED
  BY <1>1, OneUnsent DEF Ends

LEMMA RequestIs ==
  ASSUME FlowInv, NEW f \in Flows
  PROVE  Request(Asked(f))
<1>1. scenario \in Scenarios
  BY DEF FlowInv, SyncInv
<1>2. QED
  BY <1>1, ScenarioAssumption DEF Asked

LEMMA ClickOnStep ==
  ASSUME FlowInv, NEW f \in Flows, NEW kind, NEW accepted \in BOOLEAN, ClickOn(kind, f, accepted),
         accepted => Formed(Asked(f))
  PROVE  FlowInv'
<1>1. flow[f].step = "idle" /\ Keeps
  BY DEF ClickOn
<1>2. flight[f] = "none" /\ Fits(Asked(f), flow[f], "none", past, leaves, DummyOf[f])
      /\ Len(past) \in Nat
  <2>1. "idle" \notin Ended \cup {"confirm"}
    BY DEF Ended
  <2>2. QED
    BY <1>1, <2>1, FlowFacts
<1>3. CASE accepted
  <2>1. Fits(Asked(f), [flow[f] EXCEPT !.step = "bulk"], "none", past, leaves, DummyOf[f])
    BY <1>1, <1>2, <1>3, ClickFits
  <2>2. flow' = [flow EXCEPT ![f] = [flow[f] EXCEPT !.step = "bulk"]]
    BY <1>3, GoesTo DEF ClickOn
  <2>3. QED
    BY <1>1, <1>2, <2>1, <2>2, OneUnsent
<1>4. CASE ~accepted
  BY <1>1, <1>2, <1>4, EndsStep, StepsDiffer DEF ClickOn
<1>5. QED
  BY <1>3, <1>4

LEMMA ClickStep ==
  ASSUME FlowInv, NEW f \in Flows, Click(f)
  PROVE  FlowInv'
<1> DEFINE r == Asked(f)
<1>1. Request(r)
  BY RequestIs
<1>2. CASE ProveDeposit(f)
  <2> DEFINE ok == DepositForm(r) /\ PublicParses(r) /\ OutputsParse(r)
  <2>1. ClickOn("deposit", f, ok) /\ r.kind = "deposit"
    BY <1>2 DEF ProveDeposit, ClickOn
  <2>2. r.notes \in Seq(Nat) /\ Len(r.notes) \in 0 .. 2
    <3>1. r.notes = <<>>
      BY <1>1, <2>1 DEF Request
    <3>2. <<>> \in Seq(Nat) /\ Len(<<>>) \in 0 .. 2
      OBVIOUS
    <3>3. QED
      BY <3>1, <3>2
  <2>3. ok => Formed(r)
    BY <1>1, <2>1, <2>2 DEF Formed
  <2>4. ok \in BOOLEAN
    OBVIOUS
  <2> HIDE DEF ok
  <2>5. QED
    BY <2>1, <2>3, <2>4, ClickOnStep
<1>3. CASE ProveWithdraw(f)
  <2> DEFINE ok == WithdrawForm(r)
  <2>1. ClickOn("withdraw", f, ok) /\ r.kind = "withdraw"
    BY <1>3 DEF ProveWithdraw, ClickOn
  <2>2. r.notes \in Seq(Nat)
    BY <1>1, <2>1 DEF Request
  <2>3. ok => Formed(r)
    BY <1>1, <2>1, <2>2 DEF Formed, WithdrawForm
  <2>4. ok \in BOOLEAN
    BY DEF WithdrawForm
  <2> HIDE DEF ok
  <2>5. QED
    BY <2>1, <2>3, <2>4, ClickOnStep
<1>4. CASE ProveTransfer(f)
  <2> DEFINE ok == TransferForm(r) /\ OutputsParse(r)
  <2>1. ClickOn("transfer", f, ok) /\ r.kind = "transfer"
    BY <1>4 DEF ProveTransfer, ClickOn
  <2>2. r.notes \in Seq(Nat)
    BY <1>1, <2>1 DEF Request
  <2>3. ok => Formed(r)
    BY <1>1, <2>1, <2>2 DEF Formed, TransferForm
  <2>4. ok \in BOOLEAN
    OBVIOUS
  <2> HIDE DEF ok
  <2>5. QED
    BY <2>1, <2>3, <2>4, ClickOnStep
<1>5. CASE ProveTransact(f)
  <2> DEFINE ok == TransactForm(r) /\ PublicParses(r) /\ OutputsParse(r)
  <2>1. ClickOn("transact", f, ok) /\ r.kind = "transact"
    BY <1>5 DEF ProveTransact, ClickOn
  <2>2. r.notes \in Seq(Nat)
    BY <1>1, <2>1 DEF Request
  <2>3. ok => Formed(r)
    BY <1>1, <2>1, <2>2 DEF Formed, TransactForm
  <2>4. ok \in BOOLEAN
    OBVIOUS
  <2> HIDE DEF ok
  <2>5. QED
    BY <2>1, <2>3, <2>4, ClickOnStep
<1>6. QED
  BY <1>2, <1>3, <1>4, <1>5 DEF Click

LEMMA ReadBulkStep ==
  ASSUME FlowInv, NEW f \in Flows, ReadBulk(f)
  PROVE  FlowInv'
<1> DEFINE t == [flow[f] EXCEPT !.step = "root", !.tries = flow[f].tries + 1, !.bulk = Len(past)]
<1>1. flow[f].step = "bulk" /\ Keeps
  BY DEF ReadBulk
<1>2. /\ Fits(Asked(f), flow[f], "none", past, leaves, DummyOf[f]) /\ flight[f] = "none"
      /\ Len(past) \in Nat \ {0}
  BY <1>1, FlowFacts DEF Ended
<1>3. flow' = [flow EXCEPT ![f] = t]
  BY DEF ReadBulk, ledger, FlowInv, FlowsFit
<1>4. Fits(Asked(f), t, "none", past, leaves, DummyOf[f])
  BY <1>1, <1>2, ReadBulkFits
<1> HIDE DEF t
<1>5. QED
  BY <1>1, <1>2, <1>3, <1>4, OneUnsent

LEMMA ReadRootStep ==
  ASSUME FlowInv, NEW f \in Flows, ReadRoot(f)
  PROVE  FlowInv'
<1> DEFINE t == [flow[f] EXCEPT !.step = "non", !.tries = 0, !.root = Len(past)]
<1>1. flow[f].step = "root" /\ Keeps
  BY DEF ReadRoot
<1>2. /\ Fits(Asked(f), flow[f], "none", past, leaves, DummyOf[f]) /\ flight[f] = "none"
      /\ Len(past) \in Nat \ {0}
  BY <1>1, FlowFacts DEF Ended
<1>3. \/ flow' = [flow EXCEPT ![f] = t]
      \/ flow[f].tries < MaxSnapshotAttempts /\ Goes(f, "bulk")
      \/ Ends(f, "failed")
  BY DEF ReadRoot, ledger, FlowInv, FlowsFit
<1>4. CASE flow' = [flow EXCEPT ![f] = t]
  <2>1. Fits(Asked(f), t, "none", past, leaves, DummyOf[f])
    BY <1>1, <1>2, ReadRootFits
  <2> HIDE DEF t
  <2>2. QED
    BY <1>1, <1>2, <1>4, <2>1, OneUnsent
<1>5. CASE flow[f].tries < MaxSnapshotAttempts /\ Goes(f, "bulk")
  <2>1. Fits(Asked(f), [flow[f] EXCEPT !.step = "bulk"], "none", past, leaves, DummyOf[f])
    BY <1>1, <1>2, <1>5, RetryFits
  <2>2. flow' = [flow EXCEPT ![f] = [flow[f] EXCEPT !.step = "bulk"]]
    BY <1>5, GoesTo
  <2>3. QED
    BY <1>1, <1>2, <2>1, <2>2, OneUnsent
<1>6. CASE Ends(f, "failed")
  BY <1>1, <1>2, <1>6, EndsStep, StepsDiffer
<1>7. QED
  BY <1>3, <1>4, <1>5, <1>6

LEMMA ReadNonMembershipStep ==
  ASSUME FlowInv, NEW f \in Flows, ReadNonMembership(f)
  PROVE  FlowInv'
<1> DEFINE t == [flow[f] EXCEPT !.step = "storage", !.non = Len(past)]
           listed == past[flow[f].bulk].blocked # {} /\ Asked(f).user \in past[Len(past)].blocked
<1>1. flow[f].step = "non" /\ Keeps
  BY DEF ReadNonMembership
<1>2. /\ Fits(Asked(f), flow[f], "none", past, leaves, DummyOf[f]) /\ flight[f] = "none"
      /\ Len(past) \in Nat \ {0}
  BY <1>1, FlowFacts DEF Ended
<1>3. IF listed THEN Ends(f, "failed")
      ELSE flow' = [flow EXCEPT ![f] = [@ EXCEPT !.step = "storage", !.non = Len(past)]]
  BY DEF ReadNonMembership, ledger
<1>4. CASE listed
  <2>1. Ends(f, "failed")
    BY <1>3, <1>4
  <2>2. QED
    BY <1>1, <1>2, <2>1, EndsStep, StepsDiffer
<1>5. CASE ~listed
  <2>1. Fits(Asked(f), t, "none", past, leaves, DummyOf[f])
    BY <1>1, <1>2, <1>5, ReadNonMembershipFits
  <2>2. flow' = [flow EXCEPT ![f] = t]
    BY <1>3, <1>5
  <2> HIDE DEF t, listed
  <2>3. QED
    BY <1>1, <1>2, <2>1, <2>2, OneUnsent
<1>6. QED
  BY <1>4, <1>5

\* What the worker has compared when it hands over the parameters.
LEMMA ReadyMeans ==
  ASSUME NEW r, NEW s, Answer(r, s) = "ready"
  PROVE  LET here == At(past, processed)
         IN  /\ here.members = past[s.bulk].members /\ r.user \in Elements(past[s.bulk].members)
             /\ r.notes # <<>> => /\ here.next = past[s.root].next
                                  /\ \A i \in DOMAIN r.notes : HasUnspent(r.user, r.notes[i])
<1>1. Local(processed) = At(past, processed)
  BY DEF Local, At
<1>2. AspMembershipStatus(r.user, s.bulk) = "index" /\ PoolInputsStatus(r, s) = "ready"
  <2>1. AspMembershipStatus(r.user, s.bulk) \in {"sync", "failed", "register", "index"}
    BY DEF AspMembershipStatus
  <2>2. PoolInputsStatus(r, s) \in {"ready", "sync", "failed"}
    BY DEF PoolInputsStatus
  <2>3. AspMembershipStatus(r.user, s.bulk) = "index"
    BY <2>1 DEF Answer
  <2>4. PoolInputsStatus(r, s) = "ready"
    BY <2>3, <2>2 DEF Answer
  <2>5. QED
    BY <2>3, <2>4
<1>3. Local(processed).members = past[s.bulk].members /\ r.user \in Elements(Local(processed).members)
  BY <1>2 DEF AspMembershipStatus
<1>4. r.notes # <<>> => /\ Local(processed).next = past[s.root].next
                        /\ \A i \in DOMAIN r.notes : HasUnspent(r.user, r.notes[i])
  BY <1>2 DEF PoolInputsStatus
<1>5. QED
  BY <1>1, <1>3, <1>4

LEMMA AskStorageStep ==
  ASSUME FlowInv, NEW f \in Flows, AskStorage(f)
  PROVE  FlowInv'
<1> DEFINE r == Asked(f)
           s == flow[f]
           t == [s EXCEPT !.step = "prove", !.db = processed]
           answer == Answer(r, s)
<1>1. s.step = "storage" /\ Keeps
  BY DEF AskStorage
<1>2. /\ Fits(r, s, "none", past, leaves, DummyOf[f]) /\ flight[f] = "none"
      /\ Len(past) \in Nat \ {0} /\ TypeOK
  BY <1>1, FlowFacts DEF Ended
<1>3. Formed(r) /\ s.bulk \in 1 .. Len(past) /\ s.root \in 1 .. Len(past)
  BY <1>1, <1>2, StepsDiffer DEF Fits
<1>4. \/ answer = "ready" /\ flow' = [flow EXCEPT ![f] = [@ EXCEPT !.step = "prove", !.db = processed]]
      \/ answer = "sync" /\ flow' = [flow EXCEPT ![f] = [Idle EXCEPT !.step = "bulk"]]
      \/ answer \in Ended /\ Ends(f, answer)
  BY DEF AskStorage
<1>5. CASE answer = "ready" /\ flow' = [flow EXCEPT ![f] = [@ EXCEPT !.step = "prove", !.db = processed]]
  <2> DEFINE here == At(past, processed)
  <2>1. /\ here.members = past[s.bulk].members /\ r.user \in Elements(past[s.bulk].members)
        /\ r.notes # <<>> => /\ here.next = past[s.root].next
                             /\ \A i \in DOMAIN r.notes : HasUnspent(r.user, r.notes[i])
    BY <1>5, ReadyMeans
  <2>2. processed \in 0 .. Len(past) /\ noted \in 0 .. processed
    BY <1>2 DEF FlowInv, SyncInv
  <2>3. At(past, noted).next <= here.next /\ At(past, noted).next \in Nat /\ here.next \in Nat
    <3>1. Empty.next = 0
      BY DEF Empty
    <3>2. \A l \in 1 .. Len(past) : past[l].next \in Nat /\ \A k \in 1 .. l : past[k].next <= past[l].next
      BY <1>2, PastFacts DEF FlowInv, PastInv
    <3>3. CASE noted = 0
      BY <1>2, <2>2, <3>1, <3>2, <3>3 DEF At
    <3>4. CASE noted # 0
      <4>1. processed \in 1 .. Len(past) /\ noted \in 1 .. processed /\ noted \in 1 .. Len(past)
        BY <1>2, <2>2, <3>4
      <4>2. QED
        BY <3>2, <4>1 DEF At
    <3>5. QED
      BY <3>3, <3>4
  <2>4. OwnNotes(r, leaves, past[s.root].next)
    <3>1. ASSUME NEW i \in DOMAIN r.notes
          PROVE  r.notes[i] \in 0 .. past[s.root].next - 1 /\ leaves[r.notes[i]].owner = r.user
      <4>1. r.notes \in Seq(Nat) /\ r.notes # <<>> /\ r.notes[i] \in Nat
        BY <1>3 DEF Formed
      <4>2. HasUnspent(r.user, r.notes[i]) /\ here.next = past[s.root].next
        BY <2>1, <4>1
      <4>3. Local(noted) = At(past, noted)
        BY DEF Local, At
      <4>4. r.notes[i] < At(past, noted).next /\ leaves[r.notes[i]].owner = r.user
        BY <4>2, <4>3 DEF HasUnspent
      <4> DEFINE n == r.notes[i]
                 bound == At(past, noted).next
                 root == past[s.root].next
      <4>5. n \in Nat /\ bound \in Nat /\ root \in Nat /\ n < bound /\ bound <= root
        BY <2>3, <4>1, <4>2, <4>4
      <4> HIDE DEF n, bound, root
      <4>6. n \in 0 .. root - 1
        BY <4>5
      <4>7. QED
        BY <4>4, <4>6 DEF n, root
    <3>2. QED
      BY <3>1 DEF OwnNotes
  <2>5. Fits(r, t, "none", past, leaves, DummyOf[f])
    BY <1>1, <1>2, <2>1, <2>2, <2>4, ReadyFits
  <2>6. flow' = [flow EXCEPT ![f] = t]
    BY <1>5
  <2> HIDE DEF t
  <2>7. QED
    BY <1>1, <1>2, <2>5, <2>6, OneUnsent
<1>6. CASE answer = "sync" /\ flow' = [flow EXCEPT ![f] = [Idle EXCEPT !.step = "bulk"]]
  <2>1. Fits(r, [Idle EXCEPT !.step = "bulk"], "none", past, leaves, DummyOf[f])
    BY <1>2, <1>3, StartsFits
  <2>2. QED
    BY <1>1, <1>2, <1>6, <2>1, OneUnsent
<1>7. CASE answer \in Ended /\ Ends(f, answer)
  BY <1>1, <1>2, <1>7, EndsStep
<1> HIDE DEF answer, t
<1>8. QED
  BY <1>4, <1>5, <1>6, <1>7

LEMMA ProveStep ==
  ASSUME FlowInv, NEW f \in Flows, Prove(f)
  PROVE  FlowInv'
<1>1. flow[f].step = "prove" /\ Keeps
  BY DEF Prove
<1>2. /\ Fits(Asked(f), flow[f], "none", past, leaves, DummyOf[f]) /\ flight[f] = "none"
      /\ Len(past) \in Nat
  BY <1>1, FlowFacts DEF Ended
<1>3. CASE WitnessFits(f)
  <2>1. Formed(Asked(f))
    BY <1>1, <1>2, StepsDiffer DEF Fits
  <2>2. Agreed(Asked(f), flow[f], past, leaves, DummyOf[f])
    BY <1>3, <2>1, WitnessIsAgreed
  <2>3. Fits(Asked(f), [flow[f] EXCEPT !.step = "sign"], "none", past, leaves, DummyOf[f])
    BY <1>1, <1>2, <2>2, ProveFits
  <2>4. flow' = [flow EXCEPT ![f] = [flow[f] EXCEPT !.step = "sign"]]
    BY <1>3, GoesTo DEF Prove
  <2>5. QED
    BY <1>1, <1>2, <2>3, <2>4, OneUnsent
<1>4. CASE ~WitnessFits(f)
  BY <1>1, <1>2, <1>4, EndsStep, StepsDiffer DEF Prove
<1>5. QED
  BY <1>3, <1>4

LEMMA SignAndSendStep ==
  ASSUME FlowInv, NEW f \in Flows, SignAndSend(f)
  PROVE  FlowInv'
<1>1. /\ flow[f].step = "sign"
      /\ UNCHANGED <<vars, past, scenario, happened, syncVars>>
  BY DEF SignAndSend, chainVars
<1>2. /\ Fits(Asked(f), flow[f], "none", past, leaves, DummyOf[f]) /\ flight[f] = "none"
      /\ Len(past) \in Nat
  BY <1>1, FlowFacts DEF Ended
<1>3. CASE Accepts(f)
  <2>1. Fits(Asked(f), [flow[f] EXCEPT !.step = "confirm"], "sent", past, leaves, DummyOf[f])
    BY <1>1, <1>2, SendFits
  <2>2. /\ flow' = [flow EXCEPT ![f] = [flow[f] EXCEPT !.step = "confirm"]]
        /\ flight' = [flight EXCEPT ![f] = "sent"]
    BY <1>3, GoesTo DEF SignAndSend
  <2>3. QED
    BY <1>1, <2>1, <2>2, OneFlow
<1>4. CASE ~Accepts(f)
  <2>1. Ends(f, "failed") /\ Keeps
    BY <1>1, <1>4 DEF SignAndSend, Keeps, chainVars
  <2>2. QED
    BY <1>2, <2>1, EndsStep, StepsDiffer
<1>5. QED
  BY <1>3, <1>4

\* A flow that leaves its transaction to itself.
LEMMA LeavesStep ==
  ASSUME FlowInv, NEW f \in Flows, NEW step \in Ended, Goes(f, step), Keeps,
         flow[f].step \in Serving
  PROVE  FlowInv'
<1>1. Fits(Asked(f), flow[f], flight[f], past, leaves, DummyOf[f]) /\ Len(past) \in Nat
  BY FlowFacts
<1>2. Fits(Asked(f), [flow[f] EXCEPT !.step = step], flight[f], past, leaves, DummyOf[f])
  BY <1>1, LeavesFits
<1>3. flow' = [flow EXCEPT ![f] = [flow[f] EXCEPT !.step = step]]
  BY GoesTo
<1>4. /\ UNCHANGED <<vars, past, scenario, happened, syncVars>>
      /\ flight' = [flight EXCEPT ![f] = flight[f]]
  BY DEF Keeps, chainVars, FlowInv, FlowsFit
<1>5. QED
  BY <1>2, <1>3, <1>4, OneFlow

LEMMA ConfirmStep ==
  ASSUME FlowInv, NEW f \in Flows, Confirm(f)
  PROVE  FlowInv'
<1> DEFINE step == IF flight[f] = "rejected" THEN "failed" ELSE "done"
<1>1. flow[f].step \in Serving /\ Keeps /\ Goes(f, step)
  BY StepsDiffer DEF Confirm
<1>2. step \in Ended
  BY StepsDiffer
<1> HIDE DEF step
<1>3. QED
  BY <1>1, <1>2, LeavesStep

LEMMA CallFailsStep ==
  ASSUME FlowInv, NEW f \in Flows, CallFails(f)
  PROVE  FlowInv'
<1>1. Keeps /\ flow[f].step \in Serving
  <2>1. flow[f].step \in Ended \cup {"idle"} \cup Serving
    BY FlowFacts DEF Fits, FlowRecord
  <2>2. QED
    BY <2>1 DEF CallFails
<1>2. CASE flight[f] = "none"
  BY <1>1, <1>2, EndsStep, StepsDiffer DEF CallFails
<1>3. CASE flight[f] # "none"
  BY <1>1, <1>3, LeavesStep, StepsDiffer DEF CallFails
<1>4. QED
  BY <1>2, <1>3

-----------------------------------------------------------------------------
(* A transaction that lands.                                               *)

LEMMA InputsAreLeaves ==
  ASSUME TypeOK, NEW f \in Flows, NEW r, Formed(r), OwnNotes(r, leaves, nextIndex), NEW i \in 1 .. 2
  PROVE  In(r, DummyOf[f], i) \in Inputs
<1>1. CASE i \in DOMAIN r.notes
  <2>1. In(r, DummyOf[f], i) = r.notes[i]
    BY <1>1, PaddedAre
  <2>2. QED
    BY <1>1, <2>1 DEF OwnNotes, Inputs
<1>2. CASE i \notin DOMAIN r.notes
  <2>1. In(r, DummyOf[f], i) \in Dummies
    BY <1>2, PaddedAre
  <2>2. QED
    BY <2>1 DEF Inputs
<1>3. QED
  BY <1>1, <1>2

\* What a transaction the contract accepts is.
LEMMA AcceptedIs ==
  ASSUME TypeOK, Canonical, NEW f \in Flows, Formed(Asked(f)),
         OwnNotes(Asked(f), leaves, nextIndex), Accepts(f)
  PROVE  LET q == ProofOf(f)
         IN  /\ q.ins[1] \in Inputs /\ q.ins[2] \in Inputs /\ q.ins[1] # q.ins[2]
             /\ q.ins[1] \notin Nullified /\ q.ins[2] \notin Nullified
             /\ q.outs[1] \in Note /\ q.outs[2] \in Note
             /\ q.extDataHash.recipient \in Addresses /\ q.extDataHash.amount \in Int
             /\ q.outs[1].amount + q.outs[2].amount
                  = InAmount(q.ins[1]) + InAmount(q.ins[2]) + q.extDataHash.amount
<1> DEFINE r == Asked(f)
           q == ProofOf(f)
           p == Params(r)
<1>1. /\ q.ins = <<In(r, DummyOf[f], 1), In(r, DummyOf[f], 2)>> /\ q.outs = p.outs
      /\ q.extDataHash = p.ext
  BY ProofIs
<1>2. /\ p.outs[1].amount = OutAmt(r, 1) /\ p.outs[2].amount = OutAmt(r, 2)
      /\ \A i \in 1 .. 2 : p.outs[i] = [owner |-> p.outs[i].owner, amount |-> p.outs[i].amount]
      /\ p.outs[1].owner \in Users /\ p.outs[2].owner \in Users
      /\ p.ext.recipient \in Addresses /\ p.ext.amount = Ext(r, leaves)
  BY ParamsAre
<1>3. /\ OutAmt(r, 1) \in 0 .. MaxExtAmount - 1 /\ OutAmt(r, 2) \in 0 .. MaxExtAmount - 1
      /\ Ext(r, leaves) \in Int
  BY AmountsAre, WidthFacts
<1>4. Unspent(q.ins, Plain) /\ Provable(q) /\ PublicAmountMatches(q, q.extDataHash)
  BY DEF Accepts
<1>5. q.ins[1] \in Inputs /\ q.ins[2] \in Inputs
  BY <1>1, InputsAreLeaves
<1>6. q.ins[1] # q.ins[2] /\ q.publicAmount = BalancingAmount(q.ins, q.outs)
  BY <1>4 DEF Provable
<1>7. q.ins[1] \notin Nullified /\ q.ins[2] \notin Nullified
  <2> DEFINE a == In(r, DummyOf[f], 1)
             b == In(r, DummyOf[f], 2)
  <2>1. q.ins = <<a, b>> /\ Unspent(q.ins, Plain)
    BY <1>1, <1>4
  <2> HIDE DEF a, b, q
  <2>2. Unspent(<<a, b>>, Plain)
    BY <2>1
  <2>3. a \notin Nullified /\ b \notin Nullified
    BY <2>2, PlainUnspent
  <2>4. QED
    BY <2>1, <2>3
<1>8. /\ q.extDataHash.amount < MaxExtAmount /\ -q.extDataHash.amount < MaxExtAmount
      /\ q.publicAmount = PublicAmount(q.extDataHash.amount)
  BY <1>4 DEF PublicAmountMatches
<1> HIDE DEF p, q
<1>9. q.outs[1] \in Note /\ q.outs[2] \in Note
  <2>1. \A i \in 1 .. 2 : p.outs[i].owner \in Users /\ p.outs[i].amount \in 0 .. MaxExtAmount - 1
    BY <1>2, <1>3
  <2>2. p.outs[1] \in Note /\ p.outs[2] \in Note
    BY <1>2, <2>1 DEF Note
  <2>3. QED
    BY <1>1, <2>2
<1>10. q.extDataHash.recipient \in Addresses /\ q.extDataHash.amount \in Int
  BY <1>1, <1>2, <1>3
<1>11. /\ q.outs[1].amount \in 0 .. MaxExtAmount - 1 /\ q.outs[2].amount \in 0 .. MaxExtAmount - 1
  BY <1>1, <1>2, <1>3
<1>12. InAmount(q.ins[1]) \in 0 .. MaxExtAmount - 1 /\ InAmount(q.ins[2]) \in 0 .. MaxExtAmount - 1
  BY <1>5, InTokenCount
<1>13. (q.outs[1].amount + q.outs[2].amount - InAmount(q.ins[1]) - InAmount(q.ins[2])) % FieldSize
         = PublicAmount(q.extDataHash.amount)
  BY <1>6, <1>8 DEF BalancingAmount
<1>14. q.outs[1].amount + q.outs[2].amount
         = InAmount(q.ins[1]) + InAmount(q.ins[2]) + q.extDataHash.amount
  BY <1>8, <1>10, <1>11, <1>12, <1>13, FieldBalance
<1>15. QED
  BY <1>5, <1>6, <1>7, <1>9, <1>10, <1>14 DEF q

\* A flow's notes are leaves of the tree as it is now.
LEMMA NotesAreLeaves ==
  ASSUME TypeOK, PastInv, NEW r, NEW s, Told(r, s, past, leaves)
  PROVE  OwnNotes(r, leaves, nextIndex) /\ past[s.root].next \in 0 .. nextIndex
<1>1. past[s.root].next \in 0 .. nextIndex
  BY PastFacts DEF Told
<1>2. \A x \in 0 .. past[s.root].next - 1 : x \in 0 .. nextIndex - 1
  BY <1>1 DEF TypeOK
<1>3. QED
  BY <1>1, <1>2 DEF Told, OwnNotes

LEMMA LandStep ==
  ASSUME FlowInv, NEW f \in Flows, Land(f)
  PROVE  FlowInv'
<1> DEFINE r == Asked(f)
           q == ProofOf(f)
<1>1. flight[f] = "sent" /\ UNCHANGED <<scenario, happened, syncVars, flow>>
  BY DEF Land
<1>2. TypeOK /\ SoundInv /\ Canonical /\ Covered /\ PastInv /\ FlowsFit /\ SyncInv
  BY DEF FlowInv, ChainInv, SoundInv
<1>3. Formed(r) /\ Told(r, flow[f], past, leaves)
  BY <1>1, FlowFacts DEF Fits
<1>4. OwnNotes(r, leaves, nextIndex)
  BY <1>2, <1>3, NotesAreLeaves
<1>5. ASSUME NEW fl \in {"landed", "rejected"}, flight' = [flight EXCEPT ![f] = fl]
      PROVE  /\ flight' \in [Flows -> {"none", "sent", "landed", "rejected"}]
             /\ \A g \in Flows : flight'[g] = "none" <=> flight[g] = "none"
  BY <1>1, <1>2, <1>5 DEF FlowsFit
<1>6. CASE Accepts(f)
  <2>1. /\ MoveTokens(r.user, q.extDataHash) /\ InsertTwoLeaves(q.outs[1], q.outs[2])
        /\ spent' = spent \cup Keys(q.ins, Plain) /\ UNCHANGED aspVars
        /\ CloseLedger /\ flight' = [flight EXCEPT ![f] = "landed"]
    BY <1>6 DEF Land
  <2>2. /\ q.ins[1] \in Inputs /\ q.ins[2] \in Inputs /\ q.ins[1] # q.ins[2]
        /\ q.ins[1] \notin Nullified /\ q.ins[2] \notin Nullified
        /\ q.outs[1] \in Note /\ q.outs[2] \in Note
        /\ q.extDataHash.recipient \in Addresses /\ q.extDataHash.amount \in Int
        /\ q.outs[1].amount + q.outs[2].amount
             = InAmount(q.ins[1]) + InAmount(q.ins[2]) + q.extDataHash.amount
    BY <1>2, <1>3, <1>4, <1>6, AcceptedIs
  <2>3. r.user \in Users
    BY <1>3 DEF Formed, Request
  <2>10. q.ins = <<q.ins[1], q.ins[2]>>
    BY <1>3, ProofIs
  <2> HIDE DEF q, r
  <2>11. /\ Keys(q.ins, Plain) = {q.ins[1], q.ins[2]} \X {0}
         /\ spent' = spent \cup ({q.ins[1], q.ins[2]} \X {0})
    <3>1. Keys(<<q.ins[1], q.ins[2]>>, Plain) = {q.ins[1], q.ins[2]} \X {0}
      BY PlainPair
    <3>2. QED
      BY <2>1, <2>10, <3>1
  <2>12. Canonical' /\ Nullified' = Nullified \cup {q.ins[1], q.ins[2]}
    BY <1>2, <2>11, MoreKeys
  <2>4. SoundInv'
    <3>1. Covered'
      BY <1>2, <2>1, <2>2, <2>3, <2>12, ExchangeKeepsSolvent
    <3>2. QED
      BY <2>12, <3>1 DEF SoundInv
  <2>5. /\ nextIndex <= nextIndex' /\ nextIndex' = nextIndex + 2
        /\ \A i \in 0 .. nextIndex - 1 : leaves'[i] = leaves[i]
    BY <1>2, <2>1, LeavesGrow
  <2>6. TypeOK'
    <3>1. balance' \in [Addresses -> Nat]
      BY <1>2, <2>1, <2>2, <2>3, MoveTokensType DEF TypeOK
    <3>2. spent' \subseteq ((0 .. nextIndex' - 1) \cup Dummies) \X Multiples
      <4>1. nextIndex \in Nat /\ spent \subseteq ((0 .. nextIndex - 1) \cup Dummies) \X Multiples
        BY <1>2 DEF TypeOK
      <4>2. (0 .. nextIndex - 1) \cup Dummies \subseteq (0 .. nextIndex' - 1) \cup Dummies
        BY <2>5, <4>1
      <4>3. 0 \in Multiples /\ q.ins[1] \in (0 .. nextIndex - 1) \cup Dummies
            /\ q.ins[2] \in (0 .. nextIndex - 1) \cup Dummies
        BY <2>2, AmountAssumption DEF Multiples, Inputs
      <4>4. QED
        BY <2>11, <4>1, <4>2, <4>3
    <3>3. UNCHANGED <<admin, aspMembership, aspNonMembership, members, blocked, pastBlocked>>
      BY <2>1 DEF aspVars
    <3>4. QED
      BY <1>2, <2>1, <2>2, <3>1, <3>2, <3>3, InsertType DEF TypeOK
  <2>7. UNCHANGED <<aspMembership, aspNonMembership>>
    BY <2>1 DEF aspVars
  <2>8. happened' \in 0 .. Len(scenario.outside)
    BY <1>1, <1>2 DEF SyncInv
  <2>9. QED
    BY <1>1, <1>5, <2>1, <2>4, <2>5, <2>6, <2>7, <2>8, ChainStep
<1>7. CASE ~Accepts(f)
  <2>1. UNCHANGED <<vars, past>> /\ flight' = [flight EXCEPT ![f] = "rejected"]
    BY <1>7 DEF Land, chainVars
  <2>2. UNCHANGED <<leaves, nextIndex>>
    BY <2>1 DEF vars, merkleVars
  <2>3. Len(past) \in Nat
    BY <1>2, PastFacts
  <2>4. FlowsFit'
    BY <1>1, <1>2, <1>5, <2>1, <2>2, <2>3, FlowsStay
  <2>5. QED
    BY <1>1, <2>1, <2>4, QuietStep
<1>8. QED
  BY <1>6, <1>7

LEMMA FlowStepInv == FlowInv /\ [FlowNext]_allVars => FlowInv'
<1> SUFFICES ASSUME FlowInv, [FlowNext]_allVars PROVE FlowInv'
  OBVIOUS
<1>1. CASE Outside
  BY <1>1, OutsideStep
<1>2. CASE SavePage \/ SaveProgress \/ Process
  BY <1>2, SyncStep
<1>3. ASSUME NEW f \in Flows, Click(f) \/ FlowStep(f) \/ CallFails(f) \/ Land(f) PROVE FlowInv'
  <2>1. CASE FlowStep(f)
    BY <2>1, ReadBulkStep, ReadRootStep, ReadNonMembershipStep, AskStorageStep, ProveStep,
       SignAndSendStep, ConfirmStep DEF FlowStep
  <2>2. QED
    BY <1>3, <2>1, ClickStep, CallFailsStep, LandStep
<1>4. CASE UNCHANGED allVars
  <2>1. UNCHANGED <<vars, past, scenario, happened, syncVars, flow, flight>>
    BY <1>4 DEF allVars, chainVars, flowVars
  <2>2. FlowsFit'
    <3>1. UNCHANGED <<leaves, past, scenario, flow, flight>>
      BY <2>1 DEF vars, merkleVars
    <3>2. QED
      BY <3>1 DEF FlowsFit, Asked, FlowInv
  <2>3. QED
    BY <2>1, <2>2, QuietStep
<1>5. QED
  BY <1>1, <1>2, <1>3, <1>4 DEF FlowNext

LEMMA FlowInvariant == FlowSpec => []FlowInv
BY FlowStart, FlowStepInv, PTL DEF FlowSpec

(***************************************************************************)
(* The flows, the database's three ledgers and the pool stay in their      *)
(* types: no read is of a ledger to come, what is processed never gets     *)
(* ahead of what is saved, notes are found in tables that hold them, and a *)
(* flow that keeps meeting a moved tree gives up after the last attempt.   *)
(***************************************************************************)
THEOREM FlowIsTyped == FlowSpec => []FlowTypeOK
<1>1. FlowInv => FlowTypeOK
  <2> SUFFICES ASSUME FlowInv PROVE FlowTypeOK
    OBVIOUS
  <2>1. TypeOK /\ SyncInv /\ FlowsFit
    BY DEF FlowInv, ChainInv
  <2>2. ASSUME NEW f \in Flows
        PROVE  /\ flow[f].step \in Ended \cup {"idle", "bulk", "root", "non", "storage", "prove",
                                              "sign", "confirm"}
               /\ flow[f].tries \in 0 .. MaxSnapshotAttempts
               /\ \A read \in {"bulk", "root", "non", "db"} : flow[f][read] \in 0 .. ledger
    <3>1. flow[f] \in FlowRecord(Len(past))
      BY <2>1 DEF FlowsFit
    <3>2. /\ flow[f].step \in Ended \cup {"idle"} \cup Serving /\ flow[f].tries \in 0 .. MaxSnapshotAttempts
          /\ flow[f].bulk \in 0 .. ledger /\ flow[f].root \in 0 .. ledger
          /\ flow[f].non \in 0 .. ledger /\ flow[f].db \in 0 .. ledger
      BY <3>1 DEF FlowRecord, ledger
    <3>3. QED
      BY <3>2 DEF Serving
  <2>3. QED
    BY <2>1, <2>2 DEF FlowTypeOK, FlowsFit, SyncInv, ledger
<1>2. QED
  BY <1>1, FlowInvariant, PTL

-----------------------------------------------------------------------------
(* What the worker hands to the prover.                                    *)

LEMMA InputsDiffer ==
  ASSUME NEW f \in Flows, NEW r, Formed(r), NotesApart(r)
  PROVE  In(r, DummyOf[f], 1) # In(r, DummyOf[f], 2)
<1> DEFINE d == DummyOf[f]
<1>1. /\ \/ 1 \in DOMAIN r.notes /\ r.notes[1] \notin Dummies /\ In(r, d, 1) = r.notes[1]
         \/ 1 \notin DOMAIN r.notes /\ In(r, d, 1) = d[1]
      /\ \/ 2 \in DOMAIN r.notes /\ r.notes[2] \notin Dummies /\ In(r, d, 2) = r.notes[2]
         \/ 2 \notin DOMAIN r.notes /\ In(r, d, 2) = d[2]
      /\ d[1] \in Dummies /\ d[2] \in Dummies /\ d[1] # d[2]
  BY PaddedAre
<1>2. 1 \in DOMAIN r.notes /\ 2 \in DOMAIN r.notes => r.notes[1] # r.notes[2]
  BY DEF NotesApart
<1> HIDE DEF d
<1>3. QED
  BY <1>1, <1>2 DEF d

(***************************************************************************)
(* Whatever the clicks, the others' transactions, the changes of the ASP   *)
(* lists and the pace of the indexer and the processor, the reads of three *)
(* moments and the database of a fourth make one witness: for any number   *)
(* of flows, any requests and any snapshot limit.                          *)
(***************************************************************************)
THEOREM WitnessesAlwaysFit == FlowSpec => []WitnessesFit
<1>1. FlowInv => WitnessesFit
  <2> SUFFICES ASSUME FlowInv, NEW f \in Flows, flow[f].step = "prove",
                      Balanced(Params(Asked(f))), NotesApart(Asked(f)), ListUnmoved(f)
               PROVE  WitnessFits(f)
    BY DEF WitnessesFit
  <2> DEFINE r == Asked(f)
             s == flow[f]
  <2>1. /\ TypeOK /\ PastInv /\ Fits(r, s, flight[f], past, leaves, DummyOf[f])
    BY FlowFacts DEF FlowInv
  <2>2. Formed(r) /\ Told(r, s, past, leaves) /\ Unlisted(r, s, past)
    BY <2>1, StepsDiffer DEF Fits
  <2>3. past[s.root].next \in 0 .. nextIndex
    BY <2>1, <2>2, NotesAreLeaves
  <2>4. Agreed(r, s, past, leaves, DummyOf[f])
    <3>1. Width!Conserved(<<InAmt(r, leaves, 1), InAmt(r, leaves, 2)>>, Ext(r, leaves),
                          <<OutAmt(r, 1), OutAmt(r, 2)>>)
      BY <2>2, BalancedIs
    <3>2. In(r, DummyOf[f], 1) # In(r, DummyOf[f], 2)
      BY <2>2, InputsDiffer
    <3>3. r.user \notin past[s.bulk].blocked
      BY <2>2 DEF Unlisted, ListUnmoved
    <3>4. past[s.non].blocked = past[s.bulk].blocked
      BY DEF ListUnmoved
    <3>5. QED
      BY <3>1, <3>2, <3>3, <3>4 DEF Agreed
  <2>5. QED
    BY <2>1, <2>2, <2>3, <2>4, AgreedIsProvable DEF WitnessFits
<1>2. QED
  BY <1>1, FlowInvariant, PTL

-----------------------------------------------------------------------------
(* What the user signs.                                                    *)

\* Two notes nobody has spent are covered by the pool's tokens.
LEMMA InputsCovered ==
  ASSUME TypeOK, SoundInv, NEW in1 \in Inputs, NEW in2 \in Inputs,
         in1 \notin Nullified, in2 \notin Nullified, in1 # in2
  PROVE  InAmount(in1) + InAmount(in2) <= balance[PoolAddr]
<1> DEFINE A == InTokens(in1)
           B == InTokens(in2)
<1>1. /\ IsFiniteSet(A) /\ Cardinality(A) = InAmount(in1)
      /\ IsFiniteSet(B) /\ Cardinality(B) = InAmount(in2)
  BY InTokenCount
<1>2. A \subseteq UnspentTokens /\ B \subseteq UnspentTokens /\ A \cap B = {}
  <2>1. \A n \in {in1, in2} : n \in Dummies \/ n \in (0 .. nextIndex - 1) \ Nullified
    BY DEF Inputs
  <2>2. QED
    BY <2>1 DEF InTokens, Tokens, UnspentTokens
<1>3. IsFiniteSet(UnspentTokens) /\ Cardinality(UnspentTokens) <= balance[PoolAddr]
  BY DEF SoundInv, Covered
<1>4. balance[PoolAddr] \in Nat
  BY DEF TypeOK, Addresses
<1> HIDE DEF A, B
<1>5. Cardinality(A \cup B) = Cardinality(A) + Cardinality(B)
  BY <1>1, <1>2, DisjointUnion
<1>6. A \cup B \subseteq UnspentTokens
  BY <1>2
<1>7. Cardinality(A \cup B) <= Cardinality(UnspentTokens)
  BY <1>3, <1>6, FS_Subset
<1>8. Cardinality(A \cup B) \in Nat /\ Cardinality(UnspentTokens) \in Nat
  BY <1>1, <1>2, <1>3, DisjointUnion, FS_CardinalityType
<1>9. QED
  BY <1>1, <1>3, <1>4, <1>5, <1>7, <1>8

(***************************************************************************)
(* What the user is asked to sign, the pool accepts, unless the chain has  *)
(* moved: for every width of the client's and the circuit's integers with  *)
(* u128 below the circuit's range, every request, every dummy drawn and    *)
(* every interleaving.  That the pool can pay is its solvency.             *)
(***************************************************************************)
THEOREM SignedAlwaysAccepted == FlowSpec => []SignedIsAccepted
<1>1. FlowInv => SignedIsAccepted
  <2> SUFFICES ASSUME FlowInv, NEW f \in Flows, flow[f].step = "sign", StillGood(f)
               PROVE  Accepts(f)
    BY DEF SignedIsAccepted
  <2> DEFINE r == Asked(f)
             s == flow[f]
             q == ProofOf(f)
             ext == q.extDataHash
  <2>1. /\ TypeOK /\ SoundInv /\ PastInv /\ Fits(r, s, flight[f], past, leaves, DummyOf[f])
    BY FlowFacts DEF FlowInv, ChainInv
  <2>2. Formed(r) /\ Told(r, s, past, leaves) /\ Agreed(r, s, past, leaves, DummyOf[f])
    BY <2>1, StepsDiffer DEF Fits
  <2>3. OwnNotes(r, leaves, nextIndex) /\ past[s.root].next \in 0 .. nextIndex
    BY <2>1, <2>2, NotesAreLeaves
  <2>4. Provable(q)
    BY <2>1, <2>2, <2>3, AgreedIsProvable
  <2>5. /\ q.ins = <<In(r, DummyOf[f], 1), In(r, DummyOf[f], 2)>>
        /\ q.membershipRoot = Local(s.db).members
        /\ q.nonMembershipRoot = past[s.bulk].blocked /\ ext = Params(r).ext
    BY <2>2, ProofIs
  <2>6. ext.amount = Ext(r, leaves)
    BY <2>2, <2>5, ParamsAre
  <2>7. /\ IsKnownRoot(q.root) /\ Unspent(q.ins, Plain)
        /\ past[ledger].members = past[s.bulk].members /\ past[ledger].blocked = past[s.bulk].blocked
        /\ ext.amount <= MaxDeposit /\ ext.amount <= balance[r.user]
        /\ nextIndex + 2 <= MaxLeaves
    BY DEF StillGood
  <2>8. AspRootsCurrent(q)
    <3>1. /\ past[ledger].members = members[TheMembership]
          /\ past[ledger].blocked = blocked[TheNonMembership]
      BY <2>1 DEF PastInv, ledger
    <3>2. aspMembership = TheMembership /\ aspNonMembership = TheNonMembership
      BY DEF FlowInv, ChainInv
    <3>3. Local(s.db).members = past[s.bulk].members
      BY <2>2 DEF Told, At, Local
    <3>4. QED
      BY <2>5, <2>7, <3>1, <3>2, <3>3 DEF AspRootsCurrent
  <2>9. /\ q.publicAmount = PublicAmount(ext.amount) /\ ext.amount \in Int
        /\ ext.amount < MaxExtAmount /\ -ext.amount < MaxExtAmount
        /\ OutAmt(r, 1) + OutAmt(r, 2)
             = InAmt(r, leaves, 1) + InAmt(r, leaves, 2) + ext.amount
    BY <2>1, <2>2, <2>3, <2>6, EquationsAgree DEF Agreed
  <2>10. PublicAmountMatches(q, ext)
    BY <2>9 DEF PublicAmountMatches
  <2>11. -ext.amount <= balance[PoolAddr]
    <3>1. q.ins[1] \in Inputs /\ q.ins[2] \in Inputs
      BY <2>1, <2>2, <2>3, <2>5, InputsAreLeaves
    <3>2. q.ins[1] # q.ins[2] /\ q.ins[1] \notin Nullified /\ q.ins[2] \notin Nullified
      <4>1. q.ins[1] # q.ins[2]
        BY <2>4 DEF Provable
      <4> DEFINE a == In(r, DummyOf[f], 1)
                 b == In(r, DummyOf[f], 2)
      <4>2. q.ins = <<a, b>> /\ Unspent(q.ins, Plain) /\ Canonical
        BY <2>1, <2>5, <2>7 DEF SoundInv
      <4> HIDE DEF a, b, q
      <4>3. Unspent(<<a, b>>, Plain)
        BY <4>2
      <4>4. a \notin Nullified /\ b \notin Nullified
        BY <2>1, <4>2, <4>3, PlainUnspent
      <4>5. QED
        BY <4>1, <4>2, <4>4
    <3>3. InAmount(q.ins[1]) = InAmt(r, leaves, 1) /\ InAmount(q.ins[2]) = InAmt(r, leaves, 2)
      BY <2>2, <2>5, PaddedAmounts
    <3>4. InAmt(r, leaves, 1) + InAmt(r, leaves, 2) <= balance[PoolAddr]
      <4> HIDE DEF q, r
      <4>1. QED
        BY <2>1, <3>1, <3>2, <3>3, InputsCovered
    <3>5. /\ OutAmt(r, 1) \in Nat /\ OutAmt(r, 2) \in Nat
          /\ InAmt(r, leaves, 1) \in Int /\ InAmt(r, leaves, 2) \in Int
      BY <2>1, <2>2, <2>3, AmountsAre, WidthFacts
    <3>6. balance[PoolAddr] \in Nat
      BY <2>1 DEF TypeOK, Addresses
    <3> HIDE DEF q, r, ext
    <3>7. QED
      BY <2>9, <3>4, <3>5, <3>6
  <2>12. ExtHashMatches(q, ext) /\ DepositAllowed(ext)
    BY <2>7 DEF ExtHashMatches, DepositAllowed
  <2>13. LET payer == IF ext.amount > 0 THEN r.user ELSE PoolAddr
         IN  balance[payer] >= (IF ext.amount > 0 THEN ext.amount ELSE -ext.amount)
    <3>1. r.user \in Addresses /\ PoolAddr \in Addresses
      BY <2>2 DEF Formed, Request, Addresses
    <3>2. balance[r.user] \in Nat /\ balance[PoolAddr] \in Nat
      BY <2>1, <3>1 DEF TypeOK
    <3> HIDE DEF q, r, ext
    <3>3. QED
      BY <2>7, <2>9, <2>11, <3>2
  <2>14. QED
    BY <2>4, <2>7, <2>8, <2>10, <2>12, <2>13 DEF Accepts
<1>2. QED
  BY <1>1, FlowInvariant, PTL

-----------------------------------------------------------------------------
(* Sums over finite sets.                                                  *)

LEMMA HasLeast ==
  ASSUME NEW S, S \subseteq Nat, S # {}
  PROVE  \E n \in S : \A m \in S : n <= m
<1>1. PICK n \in S : \A m \in S : ~ (<<m, n>> \in OpToRel(<, Nat))
  BY NatLessThanWellFounded, WFMin
<1>2. ASSUME NEW m \in S PROVE n <= m
  <2>1. ~ (<<m, n>> \in OpToRel(<, Nat))
    BY <1>1
  <2>2. m \in Nat /\ n \in Nat
    OBVIOUS
  <2>3. ~(m < n)
    BY <2>1, <2>2 DEF OpToRel
  <2>4. QED
    BY <2>2, <2>3
<1>3. QED
  BY <1>2

\* Induction over the subsets of a finite set, for a set of them.
LEMMA SubsetsIn ==
  ASSUME NEW U, IsFiniteSet(U), NEW Q, {} \in Q,
         \A T \in SUBSET U : T # {} /\ (\A x \in T : T \ {x} \in Q) => T \in Q
  PROVE  \A T \in SUBSET U : T \in Q
<1> DEFINE Out == (SUBSET U) \ Q
           sizes == {Cardinality(T) : T \in Out}
<1>1. \A T \in SUBSET U : IsFiniteSet(T) /\ Cardinality(T) \in Nat
  BY FS_Subset, FS_CardinalityType
<1>2. SUFFICES ASSUME Out # {} PROVE FALSE
  OBVIOUS
<1>3. PICK T \in Out : \A V \in Out : Cardinality(T) <= Cardinality(V)
  <2>1. sizes \subseteq Nat /\ sizes # {}
    BY <1>1, <1>2
  <2>2. PICK n \in sizes : \A m \in sizes : n <= m
    BY <2>1, HasLeast
  <2>3. QED
    BY <2>2
<1>4. T \in SUBSET U /\ T \notin Q /\ T # {}
  BY <1>3
<1>5. ASSUME NEW x \in T PROVE T \ {x} \in Q
  <2>1. Cardinality(T \ {x}) = Cardinality(T) - 1 /\ Cardinality(T) \in Nat
    BY <1>1, FS_RemoveElement
  <2>2. ~(Cardinality(T) <= Cardinality(T \ {x}))
    BY <2>1
  <2>3. QED
    BY <1>3, <2>2
<1>6. QED
  BY <1>4, <1>5

\* The recursion that sums F over the subsets of T.
Pick(S) == CHOOSE x \in S : TRUE
Sums(z, F, T) == z = [s \in SUBSET T |-> IF s = {} THEN 0 ELSE F[Pick(s)] + z[s \ {Pick(s)}]]

LEMMA SumIs ==
  ASSUME NEW F, NEW S
  PROVE  SumFunctionOnSet(F, S) = (CHOOSE z : Sums(z, F, S))[S]
BY DEF SumFunctionOnSet, FoldFunctionOnSet, MapThenFoldSet, Sums, Pick

LEMMA SumUnfolds ==
  ASSUME NEW F, NEW U, IsFiniteSet(U)
  PROVE  \A T \in SUBSET U :
           SumFunctionOnSet(F, T)
             = IF T = {} THEN 0 ELSE F[Pick(T)] + SumFunctionOnSet(F, T \ {Pick(T)})
<1> DEFINE W(T) == SumFunctionOnSet(F, T)
           Unfold(T) == W(T) = IF T = {} THEN 0 ELSE F[Pick(T)] + W(T \ {Pick(T)})
           Q == {T \in SUBSET U : \A s \in SUBSET T : Unfold(s)}
<1>1. \A T : T # {} => Pick(T) \in T
  BY DEF Pick
<1>2. ASSUME NEW T, NEW z, Sums(z, F, T)
      PROVE  \A s \in SUBSET T : z[s] = IF s = {} THEN 0 ELSE F[Pick(s)] + z[s \ {Pick(s)}]
  BY <1>2 DEF Sums
<1>3. ASSUME NEW T, \E z : Sums(z, F, T)
      PROVE  \E z : Sums(z, F, T) /\ W(T) = z[T]
  BY <1>3, SumIs
<1>4. Unfold({})
  <2>1. Sums([s \in SUBSET {} |-> 0], F, {})
    BY DEF Sums
  <2>2. PICK z : Sums(z, F, {}) /\ W({}) = z[{}]
    BY <1>3, <2>1
  <2> HIDE DEF W
  <2>3. QED
    BY <1>2, <2>2
<1>5. ASSUME NEW T \in SUBSET U, T # {}, \A x \in T : T \ {x} \in Q PROVE T \in Q
  <2> DEFINE p == Pick(T)
             z1 == [s \in SUBSET T |-> IF s = T THEN F[p] + W(T \ {p}) ELSE W(s)]
  <2>0. p \in T
    BY <1>1, <1>5
  <2>1. ASSUME NEW s \in SUBSET T, s # T PROVE Unfold(s)
    <3>1. PICK x \in T : x \notin s
      BY <2>1
    <3>2. s \in SUBSET (T \ {x})
      BY <3>1
    <3> HIDE DEF Unfold
    <3>3. QED
      BY <1>5, <3>1, <3>2
  <2>2. Sums(z1, F, T)
    <3> HIDE DEF W
    <3>1. ASSUME NEW s \in SUBSET T
          PROVE  z1[s] = IF s = {} THEN 0 ELSE F[Pick(s)] + z1[s \ {Pick(s)}]
      <4>1. CASE s = T
        <5>1. z1[T] = F[p] + W(T \ {p}) /\ z1[T \ {p}] = W(T \ {p})
          BY <2>0
        <5>2. QED
          BY <1>5, <4>1, <5>1
      <4>2. CASE s # T
        <5>1. z1[s] = W(s) /\ Unfold(s)
          BY <2>1, <4>2
        <5>2. CASE s = {}
          BY <5>1, <5>2
        <5>3. CASE s # {}
          <6>1. s \ {Pick(s)} \in SUBSET T /\ s \ {Pick(s)} # T
            BY <1>1, <5>3
          <6>2. z1[s \ {Pick(s)}] = W(s \ {Pick(s)})
            BY <6>1
          <6>3. QED
            BY <5>1, <5>3, <6>2
        <5>4. QED
          BY <5>2, <5>3
      <4>3. QED
        BY <4>1, <4>2
    <3>2. z1 = [s \in SUBSET T |-> z1[s]]
      OBVIOUS
    <3>3. [s \in SUBSET T |-> z1[s]]
            = [s \in SUBSET T |-> IF s = {} THEN 0 ELSE F[Pick(s)] + z1[s \ {Pick(s)}]]
      BY <3>1
    <3> HIDE DEF z1
    <3>4. QED
      BY <3>2, <3>3 DEF Sums
  <2>3. PICK z : Sums(z, F, T) /\ W(T) = z[T]
    <3> HIDE DEF W, z1
    <3>1. \E z : Sums(z, F, T)
      BY <2>2
    <3>2. QED
      BY <1>3, <3>1
  <2>4. \A s \in SUBSET T : z[s] = IF s = {} THEN 0 ELSE F[Pick(s)] + z[s \ {Pick(s)}]
    BY <1>2, <2>3
  <2> HIDE DEF W
  <2>5. \A s \in SUBSET (T \ {p}) : z[s] = W(s)
    <3> DEFINE V == T \ {p}
               R == {s \in SUBSET V : z[s] = W(s)}
    <3>1. V \subseteq T /\ p \notin V /\ p \in T /\ IsFiniteSet(V)
      <4>1. V \subseteq U
        OBVIOUS
      <4>2. IsFiniteSet(V)
        BY <4>1, FS_Subset
      <4>3. QED
        BY <2>0, <4>2
    <3> HIDE DEF V, p
    <3>2. {} \in R
      BY <1>4, <2>4
    <3>3. ASSUME NEW s \in SUBSET V, s # {}, \A x \in s : s \ {x} \in R PROVE s \in R
      <4>1. Pick(s) \in s /\ s \in SUBSET T /\ s # T
        BY <1>1, <3>1, <3>3
      <4>2. z[s \ {Pick(s)}] = W(s \ {Pick(s)})
        BY <3>3, <4>1
      <4>3. Unfold(s)
        BY <2>1, <4>1
      <4>4. z[s] = F[Pick(s)] + z[s \ {Pick(s)}]
        BY <2>4, <3>3, <4>1
      <4>5. QED
        BY <3>3, <4>2, <4>3, <4>4
    <3> HIDE DEF R
    <3>4. \A s \in SUBSET V : s \in R
      BY <3>1, <3>2, <3>3, SubsetsIn
    <3>5. \A s \in SUBSET V : z[s] = W(s)
      BY <3>4 DEF R
    <3>6. QED
      BY <3>5 DEF V
  <2>6. Unfold(T)
    <3>1. z[T \ {p}] = W(T \ {p})
      BY <2>5
    <3>2. z[T] = F[p] + z[T \ {p}]
      BY <1>5, <2>4
    <3>3. QED
      BY <1>5, <2>3, <3>1, <3>2
  <2>7. \A s \in SUBSET T : Unfold(s)
    <3> HIDE DEF Unfold
    <3>1. QED
      BY <2>1, <2>6
  <2> HIDE DEF Unfold
  <2>8. QED
    BY <2>7
<1>6. {} \in Q
  <2>1. \A s \in SUBSET {} : s = {}
    OBVIOUS
  <2> HIDE DEF Unfold
  <2>2. QED
    BY <1>4, <2>1
<1> HIDE DEF Q
<1>7. \A T \in SUBSET U : T \in Q
  BY <1>5, <1>6, SubsetsIn
<1> HIDE DEF Unfold
<1>8. \A T \in SUBSET U : Unfold(T)
  BY <1>7 DEF Q
<1>9. QED
  BY <1>8 DEF Unfold, W

Total(F, S) == SumFunctionOnSet(F, S)

\* The sum of integers, whatever the order in which they are taken.
LEMMA TotalIs ==
  ASSUME NEW S, IsFiniteSet(S), NEW F, \A x \in S : F[x] \in Int
  PROVE  /\ Total(F, {}) = 0 /\ Total(F, S) \in Int
         /\ \A x \in S : Total(F, S) = F[x] + Total(F, S \ {x})
<1>1. /\ Total(F, {}) = 0
      /\ \A T \in SUBSET S : T # {} =>
           Pick(T) \in T /\ Total(F, T) = F[Pick(T)] + Total(F, T \ {Pick(T)})
  <2>1. \A T \in SUBSET S :
          Total(F, T) = IF T = {} THEN 0 ELSE F[Pick(T)] + Total(F, T \ {Pick(T)})
    BY SumUnfolds DEF Total
  <2>2. \A T : T # {} => Pick(T) \in T
    BY DEF Pick
  <2>3. QED
    BY <2>1, <2>2
<1>2. \A T \in SUBSET S : Total(F, T) \in Int
  <2> DEFINE Q == {T \in SUBSET S : Total(F, T) \in Int}
  <2>1. {} \in Q
    BY <1>1
  <2>2. ASSUME NEW T \in SUBSET S, T # {}, \A x \in T : T \ {x} \in Q PROVE T \in Q
    <3> DEFINE p == Pick(T)
    <3>1. p \in T /\ Total(F, T) = F[p] + Total(F, T \ {p})
      BY <1>1, <2>2
    <3> HIDE DEF p
    <3>2. F[p] \in Int /\ Total(F, T \ {p}) \in Int
      BY <2>2, <3>1
    <3>3. QED
      BY <3>1, <3>2
  <2> HIDE DEF Q
  <2>3. \A T \in SUBSET S : T \in Q
    BY <2>1, <2>2, SubsetsIn
  <2>4. QED
    BY <2>3 DEF Q
<1>3. \A T \in SUBSET S : \A x \in T : Total(F, T) = F[x] + Total(F, T \ {x})
  <2> DEFINE Q == {T \in SUBSET S : \A x \in T : Total(F, T) = F[x] + Total(F, T \ {x})}
  <2>1. {} \in Q
    OBVIOUS
  <2>2. ASSUME NEW T \in SUBSET S, T # {}, \A x \in T : T \ {x} \in Q PROVE T \in Q
    <3> DEFINE p == Pick(T)
    <3>1. p \in T /\ Total(F, T) = F[p] + Total(F, T \ {p})
      BY <1>1, <2>2
    <3> HIDE DEF p
    <3>2. ASSUME NEW x \in T PROVE Total(F, T) = F[x] + Total(F, T \ {x})
      <4>1. CASE x = p
        BY <3>1, <4>1
      <4>2. CASE x # p
        <5> DEFINE rest == (T \ {p}) \ {x}
        <5>1. x \in T \ {p} /\ p \in T \ {x} /\ rest = (T \ {x}) \ {p} /\ rest \in SUBSET S
          BY <3>1, <4>2
        <5>2. Total(F, T \ {p}) = F[x] + Total(F, rest)
          BY <2>2, <3>1, <5>1
        <5>3. Total(F, T \ {x}) = F[p] + Total(F, rest)
          BY <2>2, <5>1
        <5>4. F[x] \in Int /\ F[p] \in Int /\ Total(F, rest) \in Int
          BY <1>2, <3>1, <5>1
        <5> HIDE DEF rest
        <5>5. QED
          BY <3>1, <5>2, <5>3, <5>4
      <4>3. QED
        BY <4>1, <4>2
    <3>3. QED
      BY <3>2
  <2> HIDE DEF Q
  <2>3. \A T \in SUBSET S : T \in Q
    BY <2>1, <2>2, SubsetsIn
  <2>4. QED
    BY <2>3 DEF Q
<1>4. QED
  BY <1>1, <1>2, <1>3

\* Only what is summed matters.
LEMMA TotalSame ==
  ASSUME NEW S, IsFiniteSet(S), NEW F, NEW G, \A x \in S : F[x] \in Int /\ G[x] = F[x]
  PROVE  Total(G, S) = Total(F, S)
<1> DEFINE Q == {T \in SUBSET S : Total(G, T) = Total(F, T)}
<1>1. \A T \in SUBSET S : IsFiniteSet(T)
  BY FS_Subset
<1>2. ASSUME NEW T \in SUBSET S
      PROVE  /\ Total(F, {}) = 0 /\ Total(G, {}) = 0
             /\ \A x \in T : /\ Total(F, T) = F[x] + Total(F, T \ {x})
                             /\ Total(G, T) = G[x] + Total(G, T \ {x})
  <2>1. IsFiniteSet(T) /\ \A x \in T : F[x] \in Int /\ G[x] \in Int
    BY <1>1
  <2>2. QED
    BY <2>1, TotalIs
<1>3. {} \in Q
  BY <1>2
<1>4. ASSUME NEW T \in SUBSET S, T # {}, \A x \in T : T \ {x} \in Q PROVE T \in Q
  <2>1. PICK x \in T : TRUE
    BY <1>4
  <2>2. Total(G, T \ {x}) = Total(F, T \ {x})
    BY <1>4
  <2>3. QED
    BY <1>2, <2>2
<1> HIDE DEF Q
<1>5. \A T \in SUBSET S : T \in Q
  BY <1>3, <1>4, SubsetsIn
<1>6. S \in Q
  BY <1>5
<1>7. QED
  BY <1>6 DEF Q

\* Sums of two are added.
LEMMA TotalPlus ==
  ASSUME NEW S, IsFiniteSet(S), NEW F, NEW G, NEW H,
         \A x \in S : F[x] \in Int /\ G[x] \in Int /\ H[x] = F[x] + G[x]
  PROVE  Total(H, S) = Total(F, S) + Total(G, S)
<1> DEFINE Q == {T \in SUBSET S : Total(H, T) = Total(F, T) + Total(G, T)}
<1>1. \A T \in SUBSET S : IsFiniteSet(T)
  BY FS_Subset
<1>2. ASSUME NEW T \in SUBSET S
      PROVE  /\ Total(F, {}) = 0 /\ Total(G, {}) = 0 /\ Total(H, {}) = 0
             /\ Total(F, T) \in Int /\ Total(G, T) \in Int
             /\ \A x \in T : /\ Total(F, T) = F[x] + Total(F, T \ {x})
                             /\ Total(G, T) = G[x] + Total(G, T \ {x})
                             /\ Total(H, T) = H[x] + Total(H, T \ {x})
  <2>1. IsFiniteSet(T) /\ \A x \in T : F[x] \in Int /\ G[x] \in Int /\ H[x] \in Int
    BY <1>1
  <2>2. QED
    BY <2>1, TotalIs
<1>3. {} \in Q
  BY <1>2
<1>4. ASSUME NEW T \in SUBSET S, T # {}, \A x \in T : T \ {x} \in Q PROVE T \in Q
  <2>1. PICK x \in T : TRUE
    BY <1>4
  <2>2. Total(H, T \ {x}) = Total(F, T \ {x}) + Total(G, T \ {x})
    BY <1>4
  <2>3. /\ Total(F, T) = F[x] + Total(F, T \ {x}) /\ Total(G, T) = G[x] + Total(G, T \ {x})
        /\ Total(H, T) = H[x] + Total(H, T \ {x})
    BY <1>2
  <2>4. /\ F[x] \in Int /\ G[x] \in Int /\ H[x] = F[x] + G[x]
        /\ Total(F, T \ {x}) \in Int /\ Total(G, T \ {x}) \in Int
    <3>1. T \ {x} \in SUBSET S
      OBVIOUS
    <3>2. QED
      BY <1>2, <3>1
  <2>5. Total(H, T) = Total(F, T) + Total(G, T)
    BY <2>2, <2>3, <2>4
  <2>6. QED
    BY <2>5
<1> HIDE DEF Q
<1>5. \A T \in SUBSET S : T \in Q
  BY <1>3, <1>4, SubsetsIn
<1>6. S \in Q
  BY <1>5
<1>7. QED
  BY <1>6 DEF Q

\* One element less or more.
LEMMA TotalWithout ==
  ASSUME NEW S, IsFiniteSet(S), NEW F, \A x \in S : F[x] \in Int, NEW a
  PROVE  /\ IsFiniteSet(S \ {a}) /\ Total(F, S \ {a}) \in Int
         /\ Total(F, S) = Total(F, S \ {a}) + (IF a \in S THEN F[a] ELSE 0)
<1>1. IsFiniteSet(S \ {a})
  <2>1. S \ {a} \subseteq S
    OBVIOUS
  <2>2. QED
    BY <2>1, FS_Subset
<1>2. Total(F, S) \in Int /\ Total(F, S \ {a}) \in Int
  BY <1>1, TotalIs
<1>3. CASE a \in S
  <2>1. Total(F, S) = F[a] + Total(F, S \ {a}) /\ F[a] \in Int
    BY <1>3, TotalIs
  <2>2. QED
    BY <1>1, <1>2, <1>3, <2>1
<1>4. CASE a \notin S
  <2>1. S \ {a} = S
    BY <1>4
  <2>2. QED
    BY <1>1, <1>2, <1>4, <2>1
<1>5. QED
  BY <1>3, <1>4

LEMMA TotalWith ==
  ASSUME NEW S, IsFiniteSet(S), NEW F, \A x \in S : F[x] \in Int,
         NEW a, a \notin S, F[a] \in Int
  PROVE  /\ IsFiniteSet(S \cup {a}) /\ Total(F, S \cup {a}) \in Int
         /\ Total(F, S \cup {a}) = Total(F, S) + F[a]
<1> DEFINE T == S \cup {a}
<1>1. IsFiniteSet(T) /\ a \in T /\ T \ {a} = S /\ \A x \in T : F[x] \in Int
  BY FS_AddElement
<1> HIDE DEF T
<1>2. Total(F, S) \in Int
  BY TotalIs
<1>3. Total(F, T) \in Int /\ Total(F, T) = F[a] + Total(F, T \ {a})
  BY <1>1, TotalIs
<1>4. Total(F, T) = Total(F, S) + F[a]
  <2>1. Total(F, T \ {a}) = Total(F, S)
    BY <1>1, Zenon
  <2>2. QED
    BY <1>2, <1>3, <2>1
<1>5. QED
  BY <1>1, <1>3, <1>4 DEF T

\* What is zero everywhere, or everywhere but at one place.
LEMMA TotalZero ==
  ASSUME NEW S, IsFiniteSet(S), NEW F, \A x \in S : F[x] = 0
  PROVE  Total(F, S) = 0
<1>1. \A x \in S : F[x] \in Int /\ F[x] = F[x] + F[x]
  OBVIOUS
<1> DEFINE t == Total(F, S)
<1>2. t = t + t
  BY <1>1, TotalPlus
<1>3. t \in Int
  BY <1>1, TotalIs
<1> HIDE DEF t
<1>4. t = 0
  BY <1>2, <1>3
<1>5. QED
  BY <1>4 DEF t

LEMMA TotalAt ==
  ASSUME NEW S, IsFiniteSet(S), NEW F, NEW a, NEW v \in Int,
         \A x \in S : F[x] = IF x = a THEN v ELSE 0
  PROVE  Total(F, S) = IF a \in S THEN v ELSE 0
<1>1. \A x \in S : F[x] \in Int
  OBVIOUS
<1>2. IsFiniteSet(S \ {a}) /\ Total(F, S) = Total(F, S \ {a}) + (IF a \in S THEN F[a] ELSE 0)
  BY <1>1, TotalWithout
<1>3. \A x \in S \ {a} : F[x] = 0
  OBVIOUS
<1>4. Total(F, S \ {a}) = 0
  BY <1>2, <1>3, TotalZero
<1>5. QED
  BY <1>2, <1>4

\* What is summed over two elements, or those of them that are there.
LEMMA TotalTwo ==
  ASSUME NEW a, NEW b, a # b, NEW S, S \subseteq {a, b}, NEW F, \A x \in S : F[x] \in Int
  PROVE  /\ IsFiniteSet(S)
         /\ Total(F, S) = (IF a \in S THEN F[a] ELSE 0) + (IF b \in S THEN F[b] ELSE 0)
<1>1. IsFiniteSet(S)
  <2>1. IsFiniteSet({a, b})
    <3>1. IsFiniteSet({a}) /\ {a, b} = {a} \cup {b}
      BY FS_Singleton
    <3>2. QED
      BY <3>1, FS_AddElement
  <2>2. QED
    BY <2>1, FS_Subset
<1> DEFINE T == S \ {a}
<1>2. /\ IsFiniteSet(T) /\ Total(F, T) \in Int
      /\ Total(F, S) = Total(F, T) + (IF a \in S THEN F[a] ELSE 0)
  BY <1>1, TotalWithout
<1>3. \A x \in T : F[x] \in Int
  OBVIOUS
<1>4. b \in T <=> b \in S
  OBVIOUS
<1>5. T \ {b} = {}
  OBVIOUS
<1> HIDE DEF T
<1>6. /\ Total(F, T) = Total(F, T \ {b}) + (IF b \in T THEN F[b] ELSE 0)
  BY <1>2, <1>3, TotalWithout
<1>7. Total(F, {}) = 0
  BY <1>2, <1>3, TotalIs
<1>8. (IF a \in S THEN F[a] ELSE 0) \in Int /\ (IF b \in S THEN F[b] ELSE 0) \in Int
  OBVIOUS
<1> DEFINE v == IF a \in S THEN F[a] ELSE 0
           w == IF b \in S THEN F[b] ELSE 0
<1>9. v \in Int /\ w \in Int /\ Total(F, T) = 0 + w /\ Total(F, S) = Total(F, T) + v
  BY <1>2, <1>4, <1>5, <1>6, <1>7, <1>8
<1> HIDE DEF v, w
<1>10. Total(F, S) = v + w
  BY <1>9
<1>11. QED
  BY <1>1, <1>10 DEF v, w

-----------------------------------------------------------------------------
(* The books.  What a request gives, its notes being worth w.              *)

GiftOf(r, w, to) ==
  CASE r.kind = "deposit" -> 0
    [] r.kind = "withdraw" -> IF r.recipient = to THEN w ELSE 0
    [] r.kind = "transfer" -> IF r.recipient = to THEN r.amounts[1] + r.amounts[2] ELSE 0
    [] r.kind = "transact" ->
         SumFunction([i \in {j \in 1 .. 2 : r.payees[j] = to} |-> r.amounts[i]])
           + (IF r.recipient = to /\ r.amount < 0 THEN -r.amount ELSE 0)

GivenOf(r, w) == SumFunction([to \in Addresses \ {r.user} |-> GiftOf(r, w, to)])

LEMMA SumIsTotal ==
  ASSUME NEW F, NEW S, DOMAIN F = S
  PROVE  SumFunction(F) = Total(F, S)
BY DEF SumFunction, Total

\* What a payee gets of the two outputs of a mixed transaction.
LEMMA PaidIs ==
  ASSUME NEW r, r.amounts \in Int \X Int, NEW to
  PROVE  SumFunction([i \in {j \in 1 .. 2 : r.payees[j] = to} |-> r.amounts[i]])
           = (IF r.payees[1] = to THEN r.amounts[1] ELSE 0)
               + (IF r.payees[2] = to THEN r.amounts[2] ELSE 0)
<1> DEFINE S == {j \in 1 .. 2 : r.payees[j] = to}
           F == [i \in S |-> r.amounts[i]]
<1>1. S \subseteq {1, 2} /\ (1 \in S <=> r.payees[1] = to) /\ (2 \in S <=> r.payees[2] = to)
  OBVIOUS
<1>2. r.amounts[1] \in Int /\ r.amounts[2] \in Int
  OBVIOUS
<1>3. DOMAIN F = S /\ \A i \in S : F[i] = r.amounts[i] /\ F[i] \in Int
  BY <1>1, <1>2
<1>4. SumFunction(F) = Total(F, S)
  BY <1>3, SumIsTotal
<1> HIDE DEF S, F
<1>5. Total(F, S) = (IF 1 \in S THEN F[1] ELSE 0) + (IF 2 \in S THEN F[2] ELSE 0)
  <2>1. 1 # 2 /\ S \subseteq {1, 2} /\ \A i \in S : F[i] \in Int
    BY <1>1, <1>3
  <2>2. \A a, b : a # b /\ S \subseteq {a, b}
                 => Total(F, S) = (IF a \in S THEN F[a] ELSE 0) + (IF b \in S THEN F[b] ELSE 0)
    BY <2>1, TotalTwo
  <2>3. QED
    BY <2>1, <2>2
<1>6. SumFunction(F) = (IF r.payees[1] = to THEN r.amounts[1] ELSE 0)
                         + (IF r.payees[2] = to THEN r.amounts[2] ELSE 0)
  BY <1>1, <1>3, <1>4, <1>5
<1>7. QED
  BY <1>6 DEF F, S

LEMMA PartiesAre ==
  /\ IsFiniteSet(Users) /\ IsFiniteSet(Addresses) /\ Users \subseteq Addresses /\ PoolAddr \in Addresses
  /\ \A u \in Addresses : u # "self"
<1>1. IsFiniteSet(Users \cup {PoolAddr})
  BY PartiesAssumption, FS_AddElement
<1>2. QED
  BY <1>1, PartiesAssumption DEF Addresses

\* The amounts a request names.
LEMMA GiftType ==
  ASSUME NEW r, Formed(r), NEW w \in Int, NEW to
  PROVE  GiftOf(r, w, to) \in Int
<1>1. r.kind \in {"deposit", "withdraw", "transfer", "transact"}
  BY DEF Formed
<1>2. CASE r.kind \in {"deposit", "withdraw"}
  BY <1>2 DEF GiftOf
<1>3. CASE r.kind = "transfer"
  <2>1. r.amounts[1] \in Int /\ r.amounts[2] \in Int
    BY <1>3 DEF Formed, Request
  <2>2. QED
    BY <1>3, <2>1 DEF GiftOf
<1>4. CASE r.kind = "transact"
  <2>1. r.amounts \in Int \X Int /\ r.amounts[1] \in Int /\ r.amounts[2] \in Int /\ r.amount \in Int
    BY <1>4 DEF Formed, Request
  <2> DEFINE s == SumFunction([i \in {j \in 1 .. 2 : r.payees[j] = to} |-> r.amounts[i]])
             p == IF r.recipient = to /\ r.amount < 0 THEN -r.amount ELSE 0
  <2>2. s = (IF r.payees[1] = to THEN r.amounts[1] ELSE 0)
              + (IF r.payees[2] = to THEN r.amounts[2] ELSE 0)
    BY <2>1, PaidIs
  <2>3. p \in Int
    BY <2>1
  <2>4. GiftOf(r, w, to) = s + p
    BY <1>4 DEF GiftOf
  <2> HIDE DEF s, p
  <2>5. s \in Int
    BY <2>1, <2>2
  <2>6. QED
    BY <2>3, <2>4, <2>5
<1>5. QED
  BY <1>1, <1>2, <1>3, <1>4

LEMMA GivenType ==
  ASSUME NEW r, Formed(r), NEW w \in Int
  PROVE  GivenOf(r, w) \in Int
<1> DEFINE S == Addresses \ {r.user}
           F == [to \in S |-> GiftOf(r, w, to)]
<1>1. \A to \in S : F[to] \in Int
  BY GiftType
<1>2. IsFiniteSet(S)
  <2>1. S \subseteq Addresses
    OBVIOUS
  <2>2. QED
    BY <2>1, PartiesAre, FS_Subset
<1>3. DOMAIN F = S /\ GivenOf(r, w) = SumFunction(F)
  BY DEF GivenOf
<1> HIDE DEF F, S
<1>4. SumFunction(F) = Total(F, S)
  BY <1>3, SumIsTotal
<1>5. Total(F, S) \in Int
  BY <1>1, <1>2, TotalIs
<1>6. QED
  BY <1>3, <1>4, <1>5

\* What the parameters p of a transaction give to an address.
OutTo(p, i, to) == IF p.outs[i].owner = to THEN p.outs[i].amount ELSE 0
PaidTo(p, to) == IF p.ext.recipient = to /\ p.ext.amount < 0 THEN -p.ext.amount ELSE 0
Pays(p, to) == OutTo(p, 1, to) + OutTo(p, 2, to) + PaidTo(p, to)

\* The request of a transaction that balances says what its parameters do.
LEMMA GiftIs ==
  ASSUME NEW r, Formed(r), NEW w \in Nat, Worth(r.notes) = w, NEW to \in Addresses, to # r.user,
         OutAmt(r, 1) \in Nat, OutAmt(r, 2) \in Nat,
         OutAmt(r, 1) + OutAmt(r, 2) = w + Ext(r, leaves)
  PROVE  GiftOf(r, w, to) = Pays(Params(r), to)
<1> DEFINE p == Params(r)
<1>1. /\ r.kind \in {"deposit", "withdraw", "transfer", "transact"} /\ to # "self" /\ to \in Addresses
      /\ p.outs[1].amount = OutAmt(r, 1) /\ p.outs[2].amount = OutAmt(r, 2)
  BY PartiesAre, ParamsAre DEF Formed
<1>2. CASE r.kind = "deposit"
  <2>1. p = DepositParams(r) /\ r.notes = <<>>
    BY <1>2 DEF Params, Formed, Request
  <2>2. Worth(<<>>) = 0
    BY DEF Worth, InputAmounts
  <2>3. /\ p.outs[1].owner = r.user /\ p.outs[2].owner = r.user /\ p.ext.amount = r.amount
    BY <2>1 DEF DepositParams, Notes
  <2>4. r.amount \in Int /\ Ext(r, leaves) = r.amount
    BY <1>2 DEF Formed, Request, Ext
  <2>5. ~(p.ext.amount < 0)
    BY <2>1, <2>2, <2>3, <2>4
  <2> HIDE DEF p
  <2>6. OutTo(p, 1, to) = 0 /\ OutTo(p, 2, to) = 0 /\ PaidTo(p, to) = 0
    BY <2>3, <2>5 DEF OutTo, PaidTo
  <2>7. GiftOf(r, w, to) = 0
    BY <1>2 DEF GiftOf
  <2>8. QED
    BY <2>6, <2>7 DEF Pays, p
<1>3. CASE r.kind = "withdraw"
  <2>1. p = WithdrawParams(r)
    BY <1>3 DEF Params
  <2>2. /\ p.outs[1].amount = 0 /\ p.outs[2].amount = 0
        /\ p.ext.recipient = r.recipient /\ p.ext.amount = -w
    BY <2>1 DEF WithdrawParams, Notes
  <2>3. GiftOf(r, w, to) = IF r.recipient = to THEN w ELSE 0
    BY <1>3 DEF GiftOf
  <2> HIDE DEF p
  <2>4. OutTo(p, 1, to) = 0 /\ OutTo(p, 2, to) = 0
        /\ PaidTo(p, to) = IF r.recipient = to THEN w ELSE 0
    BY <2>2 DEF OutTo, PaidTo
  <2>5. QED
    BY <2>3, <2>4 DEF Pays, p
<1>4. CASE r.kind = "transfer"
  <2>1. p = TransferParams(r)
    BY <1>4 DEF Params
  <2>2. /\ p.outs[1].owner = r.recipient /\ p.outs[2].owner = r.recipient /\ p.ext.amount = 0
        /\ p.outs[1].amount = r.amounts[1] /\ p.outs[2].amount = r.amounts[2]
    BY <2>1 DEF TransferParams, Notes
  <2>3. GiftOf(r, w, to) = IF r.recipient = to THEN r.amounts[1] + r.amounts[2] ELSE 0
    BY <1>4 DEF GiftOf
  <2>4. r.amounts[1] \in Nat /\ r.amounts[2] \in Nat
    BY <1>1, <2>2
  <2> HIDE DEF p
  <2>5. /\ OutTo(p, 1, to) = (IF r.recipient = to THEN r.amounts[1] ELSE 0)
        /\ OutTo(p, 2, to) = (IF r.recipient = to THEN r.amounts[2] ELSE 0)
        /\ PaidTo(p, to) = 0
    BY <2>2 DEF OutTo, PaidTo
  <2>6. QED
    BY <2>3, <2>4, <2>5 DEF Pays, p
<1>5. CASE r.kind = "transact"
  <2>1. p = TransactParams(r)
    BY <1>5 DEF Params
  <2>2. /\ p.outs[1].owner = OwnerOf(r, 1) /\ p.outs[2].owner = OwnerOf(r, 2)
        /\ p.outs[1].amount = r.amounts[1] /\ p.outs[2].amount = r.amounts[2]
        /\ p.ext.recipient = r.recipient /\ p.ext.amount = r.amount
    BY <2>1 DEF TransactParams, Notes
  <2>3. r.amounts \in Int \X Int /\ r.amount \in Int
    BY <1>5 DEF Formed, Request
  <2>4. \A i \in 1 .. 2 : OwnerOf(r, i) = to <=> r.payees[i] = to
    BY <1>1 DEF OwnerOf
  <2> DEFINE s == SumFunction([i \in {j \in 1 .. 2 : r.payees[j] = to} |-> r.amounts[i]])
  <2>5. GiftOf(r, w, to) = s + (IF r.recipient = to /\ r.amount < 0 THEN -r.amount ELSE 0)
    BY <1>5 DEF GiftOf
  <2>6. s = (IF r.payees[1] = to THEN r.amounts[1] ELSE 0)
              + (IF r.payees[2] = to THEN r.amounts[2] ELSE 0)
    BY <2>3, PaidIs
  <2> HIDE DEF p, s
  <2>7. s = OutTo(p, 1, to) + OutTo(p, 2, to)
    BY <2>2, <2>4, <2>6 DEF OutTo
  <2>8. (IF r.recipient = to /\ r.amount < 0 THEN -r.amount ELSE 0) = PaidTo(p, to)
    BY <2>2 DEF PaidTo
  <2>9. QED
    BY <2>5, <2>7, <2>8 DEF Pays, p
<1>6. QED
  BY <1>1, <1>2, <1>3, <1>4, <1>5

\* What everybody else is given, together.
LEMMA GivenIs ==
  ASSUME NEW r, Formed(r), NEW w \in Nat, Worth(r.notes) = w, Ext(r, leaves) \in Int,
         OutAmt(r, 1) \in Nat, OutAmt(r, 2) \in Nat,
         OutAmt(r, 1) + OutAmt(r, 2) = w + Ext(r, leaves)
  PROVE  LET p == Params(r)
         IN  GivenOf(r, w) = (p.outs[1].amount - OutTo(p, 1, r.user))
                               + (p.outs[2].amount - OutTo(p, 2, r.user))
                               + ((IF p.ext.amount < 0 THEN -p.ext.amount ELSE 0) - PaidTo(p, r.user))
<1> DEFINE p == Params(r)
           D == Addresses \ {r.user}
           v == IF p.ext.amount < 0 THEN -p.ext.amount ELSE 0
           F == [to \in D |-> GiftOf(r, w, to)]
           A == [to \in D |-> OutTo(p, 1, to)]
           B == [to \in D |-> OutTo(p, 2, to)]
           C == [to \in D |-> PaidTo(p, to)]
           AB == [to \in D |-> OutTo(p, 1, to) + OutTo(p, 2, to)]
<1>1. /\ p.outs[1].amount = OutAmt(r, 1) /\ p.outs[2].amount = OutAmt(r, 2)
      /\ p.outs[1].owner \in Users /\ p.outs[2].owner \in Users
      /\ p.ext.recipient \in Addresses /\ p.ext.amount = Ext(r, leaves)
  BY ParamsAre
<1>2. \A to \in D : GiftOf(r, w, to) = OutTo(p, 1, to) + OutTo(p, 2, to) + PaidTo(p, to)
  <2>1. ASSUME NEW to \in D PROVE GiftOf(r, w, to) = Pays(p, to)
    BY GiftIs
  <2> HIDE DEF p, D
  <2>2. QED
    BY <2>1 DEF Pays
<1>3. IsFiniteSet(D)
  <2>1. D \subseteq Addresses
    OBVIOUS
  <2>2. QED
    BY <2>1, PartiesAre, FS_Subset
<1>4. GivenOf(r, w) = SumFunction(F)
  BY DEF GivenOf
<1>5. \A to \in Addresses : to \in D <=> to # r.user
  OBVIOUS
<1> HIDE DEF p, D
<1>6. v \in Int /\ p.outs[1].amount \in Int /\ p.outs[2].amount \in Int
  BY <1>1
<1>7. \A to \in D : /\ A[to] = IF to = p.outs[1].owner THEN p.outs[1].amount ELSE 0
                    /\ B[to] = IF to = p.outs[2].owner THEN p.outs[2].amount ELSE 0
                    /\ C[to] = IF to = p.ext.recipient THEN v ELSE 0
  BY DEF OutTo, PaidTo
<1>8. \A to \in D : AB[to] = A[to] + B[to] /\ F[to] = AB[to] + C[to]
  BY <1>2
<1>9. SumFunction(F) = Total(F, D)
  <2>1. DOMAIN F = D
    OBVIOUS
  <2>2. QED
    BY <2>1, SumIsTotal
<1> HIDE DEF v, F, A, B, C, AB
<1>10. \A to \in D : A[to] \in Int /\ B[to] \in Int /\ C[to] \in Int /\ AB[to] \in Int
  <2>1. \A to \in D : A[to] \in Int /\ B[to] \in Int /\ C[to] \in Int
    BY <1>6, <1>7
  <2>2. QED
    BY <1>8, <2>1
<1>11. ASSUME NEW G, NEW a, NEW n \in Int, \A to \in D : G[to] = IF to = a THEN n ELSE 0
       PROVE  Total(G, D) = IF a \in D THEN n ELSE 0
  BY <1>3, <1>11, TotalAt
<1>12. Total(A, D) = IF p.outs[1].owner \in D THEN p.outs[1].amount ELSE 0
  <2> DEFINE o == p.outs[1].owner
             n == p.outs[1].amount
  <2>1. n \in Int /\ \A to \in D : A[to] = IF to = o THEN n ELSE 0
    BY <1>6, <1>7
  <2> HIDE DEF o, n
  <2>2. Total(A, D) = IF o \in D THEN n ELSE 0
    BY <1>11, <2>1
  <2>3. QED
    BY <2>2 DEF o, n
<1>13. Total(B, D) = IF p.outs[2].owner \in D THEN p.outs[2].amount ELSE 0
  <2> DEFINE o == p.outs[2].owner
             n == p.outs[2].amount
  <2>1. n \in Int /\ \A to \in D : B[to] = IF to = o THEN n ELSE 0
    BY <1>6, <1>7
  <2> HIDE DEF o, n
  <2>2. Total(B, D) = IF o \in D THEN n ELSE 0
    BY <1>11, <2>1
  <2>3. QED
    BY <2>2 DEF o, n
<1>14. Total(C, D) = IF p.ext.recipient \in D THEN v ELSE 0
  <2> DEFINE o == p.ext.recipient
             n == v
  <2>1. n \in Int /\ \A to \in D : C[to] = IF to = o THEN n ELSE 0
    BY <1>6, <1>7
  <2> HIDE DEF o, n
  <2>2. Total(C, D) = IF o \in D THEN n ELSE 0
    BY <1>11, <2>1
  <2>3. QED
    BY <2>2 DEF o, n
<1>15. Total(AB, D) = Total(A, D) + Total(B, D)
  BY <1>3, <1>8, <1>10, TotalPlus
<1>16. Total(F, D) = Total(AB, D) + Total(C, D)
  BY <1>3, <1>8, <1>10, TotalPlus
<1>17. /\ Total(A, D) = p.outs[1].amount - OutTo(p, 1, r.user)
       /\ Total(B, D) = p.outs[2].amount - OutTo(p, 2, r.user)
  BY <1>1, <1>5, <1>6, <1>12, <1>13, PartiesAre DEF OutTo
<1>18. Total(C, D) = v - PaidTo(p, r.user)
  BY <1>1, <1>5, <1>6, <1>14 DEF PaidTo, v
<1>19. GivenOf(r, w) = Total(A, D) + Total(B, D) + Total(C, D)
  BY <1>4, <1>9, <1>15, <1>16
<1>20. QED
  BY <1>17, <1>18, <1>19 DEF p, v

\* What the leaves are worth.
Worths == [i \in Nat |-> leaves[i].amount]

LEMMA WorthsAre ==
  ASSUME TypeOK
  PROVE  /\ \A i \in 0 .. nextIndex - 1 : Worths[i] = leaves[i].amount /\ Worths[i] \in Int
         /\ \A S \in SUBSET (0 .. nextIndex - 1) : IsFiniteSet(S) /\ \A i \in S : Worths[i] \in Int
<1>1. nextIndex \in Nat
  BY DEF TypeOK
<1>2. ASSUME NEW i \in 0 .. nextIndex - 1 PROVE Worths[i] = leaves[i].amount /\ Worths[i] \in Int
  <2>1. leaves[i] \in Note /\ i \in Nat
    BY <1>1 DEF TypeOK
  <2>2. leaves[i].amount \in Int
    BY <2>1, WidthFacts DEF Note
  <2>3. QED
    BY <2>1, <2>2 DEF Worths
<1>3. \A S \in SUBSET (0 .. nextIndex - 1) : IsFiniteSet(S)
  <2>1. IsFiniteSet(0 .. nextIndex - 1)
    BY <1>1, FS_Interval
  <2>2. QED
    BY <2>1, FS_Subset
<1>4. QED
  BY <1>2, <1>3

LEMMA WealthIs ==
  ASSUME TypeOK, NEW u
  PROVE  Wealth(u) = balance[u] + Total(Worths, NotesOf(u)) /\ Total(Worths, NotesOf(u)) \in Int
<1> DEFINE S == NotesOf(u)
           F == [i \in S |-> leaves[i].amount]
<1>1. S \in SUBSET (0 .. nextIndex - 1)
  BY DEF NotesOf
<1>2. Wealth(u) = balance[u] + SumFunction(F) /\ DOMAIN F = S
  BY DEF Wealth
<1>3. \A i \in S : F[i] = leaves[i].amount
  OBVIOUS
<1> HIDE DEF S, F
<1>4. IsFiniteSet(S) /\ \A i \in S : Worths[i] \in Int /\ F[i] = Worths[i]
  BY <1>1, <1>3, WorthsAre
<1>5. Total(F, S) = Total(Worths, S) /\ Total(Worths, S) \in Int
  BY <1>4, TotalSame, TotalIs
<1>6. SumFunction(F) = Total(F, S)
  BY <1>2, SumIsTotal
<1>7. QED
  BY <1>2, <1>5, <1>6 DEF S

\* Two leaves more: those of u are worth that much more.
LEMMA NotesAdded ==
  ASSUME TypeOK, NEW o1 \in Note, NEW o2 \in Note, InsertTwoLeaves(o1, o2), NEW u,
         NEW S \in SUBSET (0 .. nextIndex - 1),
         \A i : i \in NotesOf(u)' <=>
                  i \in S \/ (i = nextIndex /\ o1.owner = u) \/ (i = nextIndex + 1 /\ o2.owner = u)
  PROVE  /\ Total(Worths, S) \in Int
         /\ Total(Worths, NotesOf(u))'
              = Total(Worths, S) + (IF o1.owner = u THEN o1.amount ELSE 0)
                                 + (IF o2.owner = u THEN o2.amount ELSE 0)
<1> DEFINE F == Worths'
           n == nextIndex
           T == IF o1.owner = u THEN S \cup {n} ELSE S
           V == IF o2.owner = u THEN T \cup {n + 1} ELSE T
<1>1. n \in Nat /\ o1.amount \in Int /\ o2.amount \in Int
  BY WidthFacts DEF TypeOK, Note
<1>2. leaves' = [i \in 0 .. n + 1 |-> IF i = n THEN o1 ELSE IF i = n + 1 THEN o2 ELSE leaves[i]]
  BY DEF InsertTwoLeaves
<1>3. F = [i \in Nat |-> leaves'[i].amount]
  BY DEF Worths
<1>4. NotesOf(u)' = V
  OBVIOUS
<1>5. IsFiniteSet(S) /\ Total(Worths, S) \in Int /\ \A i \in S : Worths[i] \in Int /\ i \in 0 .. n - 1
  <2>1. IsFiniteSet(S) /\ \A i \in S : Worths[i] \in Int
    BY WorthsAre
  <2>2. QED
    BY <2>1, TotalIs
<1>6. F[n] = o1.amount /\ F[n + 1] = o2.amount
  BY <1>1, <1>2, <1>3
<1>7. \A i \in S : F[i] = Worths[i] /\ F[i] \in Int
  <2>1. ASSUME NEW i \in S PROVE F[i] = Worths[i]
    <3>1. i \in 0 .. n - 1 /\ i \in Nat /\ i # n /\ i # n + 1 /\ i \in 0 .. n + 1
      BY <1>1, <1>5
    <3>2. leaves'[i] = leaves[i]
      BY <1>2, <3>1
    <3>3. QED
      BY <1>3, <3>1, <3>2 DEF Worths
  <2>2. QED
    BY <1>5, <2>1
<1>8. n \notin S /\ n + 1 \notin T
  BY <1>1, <1>5
<1>9. \A i \in T : F[i] \in Int
  BY <1>1, <1>6, <1>7
<1> HIDE DEF F, V, n
<1>10. Total(F, S) = Total(Worths, S)
  BY <1>5, <1>7, TotalSame
<1>11. IsFiniteSet(T) /\ Total(F, T) = Total(F, S) + (IF o1.owner = u THEN o1.amount ELSE 0)
  <2>1. Total(F, S) \in Int
    BY <1>5, <1>10
  <2>2. CASE o1.owner = u
    <3>1. F[n] \in Int /\ n \notin S /\ IsFiniteSet(S) /\ \A i \in S : F[i] \in Int
      BY <1>1, <1>5, <1>6, <1>7, <1>8
    <3>2. IsFiniteSet(S \cup {n}) /\ Total(F, S \cup {n}) = Total(F, S) + F[n]
      BY ONLY <3>1, TotalWith
    <3>3. T = S \cup {n}
      BY <2>2
    <3> HIDE DEF T
    <3>4. QED
      BY <1>6, <2>2, <3>2, <3>3
  <2>3. CASE o1.owner # u
    <3>1. T = S
      BY <2>3
    <3> HIDE DEF T
    <3>2. QED
      BY <1>5, <2>1, <2>3, <3>1
  <2>4. QED
    BY <2>2, <2>3
<1> HIDE DEF T
<1>12. Total(F, V) = Total(F, T) + (IF o2.owner = u THEN o2.amount ELSE 0)
  <2>1. Total(F, T) \in Int
    BY <1>9, <1>11, TotalIs
  <2>2. CASE o2.owner = u
    <3>1. V = T \cup {n + 1} /\ F[n + 1] \in Int
      BY <1>1, <1>6, <2>2 DEF V
    <3>2. QED
      BY <1>6, <1>8, <1>9, <1>11, <2>2, <3>1, TotalWith
  <2>3. CASE o2.owner # u
    <3>1. V = T
      BY <2>3 DEF V
    <3>2. QED
      BY <2>1, <2>3, <3>1
  <2>4. QED
    BY <2>2, <2>3
<1>13. Total(Worths, NotesOf(u))' = Total(F, V)
  BY <1>4 DEF F
<1>14. QED
  BY <1>5, <1>10, <1>11, <1>12, <1>13

\* Two inputs less: those that are notes are the owner's.
LEMMA NotesSpent ==
  ASSUME TypeOK, NEW a, NEW in1 \in Inputs, NEW in2 \in Inputs, in1 # in2,
         in1 \notin Nullified, in2 \notin Nullified,
         in1 \in Dummies \/ leaves[in1].owner = a, in2 \in Dummies \/ leaves[in2].owner = a, NEW u
  PROVE  Total(Worths, (NotesOf(u) \ {in1}) \ {in2})
           = Total(Worths, NotesOf(u)) - (IF u = a THEN InAmount(in1) + InAmount(in2) ELSE 0)
<1> DEFINE S == NotesOf(u)
           T == S \ {in1}
<1>1. S \in SUBSET (0 .. nextIndex - 1) /\ nextIndex \in Nat
  BY DEF NotesOf, TypeOK
<1>2. IsFiniteSet(S) /\ \A i \in S : Worths[i] \in Int /\ Worths[i] = leaves[i].amount
  BY <1>1, WorthsAre
<1>3. ASSUME NEW n \in Inputs, n \notin Nullified, n \in Dummies \/ leaves[n].owner = a
      PROVE  (IF n \in S THEN Worths[n] ELSE 0) = IF u = a THEN InAmount(n) ELSE 0
  <2>1. CASE n \in Dummies
    <3>1. n \notin S /\ InAmount(n) = 0
      BY <1>1, <2>1, DummyAssumption DEF InAmount
    <3>2. QED
      BY <3>1
  <2>2. CASE n \notin Dummies
    <3>1. n \in 0 .. nextIndex - 1 /\ leaves[n].owner = a /\ InAmount(n) = leaves[n].amount
      BY <1>3, <2>2 DEF Inputs, InAmount
    <3>2. n \in S <=> u = a
      BY <1>3, <3>1 DEF NotesOf
    <3>3. QED
      BY <1>2, <3>1, <3>2
  <2>3. QED
    BY <2>1, <2>2
<1>4. InAmount(in1) \in Int /\ InAmount(in2) \in Int
  <2>1. /\ InAmount(in1) \in 0 .. MaxExtAmount - 1 /\ InAmount(in2) \in 0 .. MaxExtAmount - 1
    BY InTokenCount
  <2>2. QED
    BY <2>1
<1> HIDE DEF S
<1>5. /\ IsFiniteSet(T) /\ Total(Worths, T) \in Int
      /\ Total(Worths, S) = Total(Worths, T) + (IF in1 \in S THEN Worths[in1] ELSE 0)
  BY <1>2, TotalWithout
<1>6. in2 \in T <=> in2 \in S
  OBVIOUS
<1>7. \A i \in T : Worths[i] \in Int
  BY <1>2
<1> HIDE DEF T
<1>8. /\ Total(Worths, T \ {in2}) \in Int
      /\ Total(Worths, T) = Total(Worths, T \ {in2}) + (IF in2 \in T THEN Worths[in2] ELSE 0)
  BY <1>5, <1>7, TotalWithout
<1>9. /\ Total(Worths, S) = Total(Worths, T) + (IF u = a THEN InAmount(in1) ELSE 0)
      /\ Total(Worths, T) = Total(Worths, T \ {in2}) + (IF u = a THEN InAmount(in2) ELSE 0)
  BY <1>3, <1>5, <1>6, <1>8
<1>10. Total(Worths, T \ {in2})
         = Total(Worths, S) - (IF u = a THEN InAmount(in1) + InAmount(in2) ELSE 0)
  BY <1>4, <1>5, <1>8, <1>9
<1>11. QED
  BY <1>10 DEF S, T

\* The tokens of a user.
LEMMA TokensMoved ==
  ASSUME balance \in [Addresses -> Nat], NEW sender \in Users,
         NEW ext, ext.recipient \in Addresses, ext.amount \in Int, MoveTokens(sender, ext),
         NEW u \in Users
  PROVE  balance'[u] = balance[u] - (IF u = sender /\ ext.amount > 0 THEN ext.amount ELSE 0)
                                  + (IF ext.recipient = u /\ ext.amount < 0 THEN -ext.amount ELSE 0)
<1>1. u \in Addresses /\ u # PoolAddr /\ balance[u] \in Nat
  BY AddressAssumption DEF Addresses
<1>2. ext.amount > 0 \/ ext.amount < 0 \/ ext.amount = 0
  OBVIOUS
<1>3. CASE ext.amount > 0
  <2>1. Transfer(sender, PoolAddr, ext.amount)
    BY <1>3 DEF MoveTokens
  <2>2. balance'[u] = balance[u] - (IF u = sender THEN ext.amount ELSE 0) + (IF u = PoolAddr THEN ext.amount ELSE 0)
    BY <1>1, <2>1 DEF Transfer
  <2>3. QED
    BY <1>1, <1>3, <2>2
<1>4. CASE ext.amount < 0
  <2>1. Transfer(PoolAddr, ext.recipient, -ext.amount)
    BY <1>4 DEF MoveTokens
  <2>2. balance'[u] = balance[u] - (IF u = PoolAddr THEN -ext.amount ELSE 0)
                                 + (IF u = ext.recipient THEN -ext.amount ELSE 0)
    BY <1>1, <2>1 DEF Transfer
  <2>3. QED
    BY <1>1, <1>4, <2>2
<1>5. CASE ext.amount = 0
  <2>1. balance' = balance
    BY <1>5 DEF MoveTokens
  <2>2. QED
    BY <1>1, <1>5, <2>1
<1>6. QED
  BY <1>2, <1>3, <1>4, <1>5

\* What the flows' requests give to u, and what they give away.
Gifts(u) == [f \in Flows |-> GiftOf(Asked(f), Worth(Asked(f).notes), u)]
Givens == [f \in Flows |-> GivenOf(Asked(f), Worth(Asked(f).notes))]

Others(u) == Landed \ LandedOf(u)

Books ==
  /\ IsFiniteSet(Landed)
  /\ \A u \in Users :
       balance[u] + Total(Worths, NotesOf(u))
         = FirstWealth(u) + Total(Gifts(u), Others(u)) - Total(Givens, LandedOf(u))

\* A flow that has sent its transaction.
LEMMA SentIs ==
  ASSUME FlowInv, NEW f \in Flows, flight[f] # "none"
  PROVE  LET r == Asked(f)
         IN  /\ Formed(r) /\ OwnNotes(r, leaves, nextIndex) /\ Worth(r.notes) \in Nat
             /\ Worth(r.notes) = InAmt(r, leaves, 1) + InAmt(r, leaves, 2)
             /\ OutAmt(r, 1) \in Nat /\ OutAmt(r, 2) \in Nat /\ Ext(r, leaves) \in Int
             /\ Givens[f] \in Int /\ \A u : Gifts(u)[f] \in Int
<1> DEFINE r == Asked(f)
           w == Worth(r.notes)
<1>1. Fits(r, flow[f], flight[f], past, leaves, DummyOf[f]) /\ TypeOK /\ PastInv
  BY FlowFacts DEF FlowInv
<1>2. Formed(r) /\ Told(r, flow[f], past, leaves)
  BY <1>1 DEF Fits
<1>3. OwnNotes(r, leaves, nextIndex)
  BY <1>1, <1>2, NotesAreLeaves
<1>4. /\ InAmt(r, leaves, 1) \in 0 .. MaxExtAmount - 1 /\ InAmt(r, leaves, 2) \in 0 .. MaxExtAmount - 1
      /\ OutAmt(r, 1) \in 0 .. Width!MaxU128 /\ OutAmt(r, 2) \in 0 .. Width!MaxU128
      /\ Ext(r, leaves) \in Int
  BY <1>1, <1>2, <1>3, AmountsAre
<1>5. w = InAmt(r, leaves, 1) + InAmt(r, leaves, 2)
  BY <1>2, InputsAre
<1>6. InAmt(r, leaves, 1) \in Nat /\ InAmt(r, leaves, 2) \in Nat
      /\ OutAmt(r, 1) \in Nat /\ OutAmt(r, 2) \in Nat
  BY <1>4, WidthFacts
<1>7. w \in Nat /\ w \in Int
  BY <1>5, <1>6
<1>8. Givens[f] = GivenOf(r, w) /\ \A u : Gifts(u)[f] = GiftOf(r, w, u)
  BY DEF Givens, Gifts
<1>9. GivenOf(r, w) \in Int /\ \A u : GiftOf(r, w, u) \in Int
  BY <1>2, <1>7, GivenType, GiftType
<1>10. Givens[f] \in Int /\ \A u : Gifts(u)[f] \in Int
  BY <1>8, <1>9
<1> HIDE DEF r, w
<1>11. QED
  BY <1>2, <1>3, <1>4, <1>5, <1>6, <1>7, <1>10 DEF r, w

\* What it gives does not depend on what is appended to the tree.
LEMMA SentStays ==
  ASSUME FlowInv, NEW f \in Flows, flight[f] # "none", UNCHANGED scenario,
         \A i \in 0 .. nextIndex - 1 : leaves'[i] = leaves[i]
  PROVE  Givens'[f] = Givens[f] /\ \A u : Gifts(u)'[f] = Gifts(u)[f]
<1> DEFINE r == Asked(f)
<1>1. OwnNotes(r, leaves, nextIndex)
  BY SentIs
<1>2. Asked(f)' = r
  BY DEF Asked
<1>3. Worth(Asked(f).notes)' = Worth(r.notes)
  <2>1. ASSUME NEW i \in DOMAIN r.notes PROVE leaves'[r.notes[i]] = leaves[r.notes[i]]
    BY <1>1 DEF OwnNotes
  <2> HIDE DEF r
  <2>2. InputAmounts(Asked(f).notes)' = InputAmounts(r.notes)
    BY <1>2, <2>1 DEF InputAmounts
  <2>3. QED
    BY <2>2 DEF Worth
<1>4. Givens'[f] = GivenOf(Asked(f)', Worth(Asked(f).notes)')
  BY DEF Givens
<1>5. \A u : Gifts(u)'[f] = GiftOf(Asked(f)', Worth(Asked(f).notes)', u)
  BY DEF Gifts
<1>6. Givens[f] = GivenOf(r, Worth(r.notes)) /\ \A u : Gifts(u)[f] = GiftOf(r, Worth(r.notes), u)
  BY DEF Givens, Gifts
<1> HIDE DEF r
<1>7. QED
  BY <1>2, <1>3, <1>4, <1>5, <1>6

\* Sums over flows that have landed.
LEMMA LandedTotals ==
  ASSUME FlowInv, IsFiniteSet(Landed), UNCHANGED scenario,
         \A i \in 0 .. nextIndex - 1 : leaves'[i] = leaves[i],
         NEW S \in SUBSET Landed, NEW u
  PROVE  /\ Total(Gifts(u)', S) = Total(Gifts(u), S) /\ Total(Givens', S) = Total(Givens, S)
         /\ Total(Gifts(u), S) \in Int /\ Total(Givens, S) \in Int /\ IsFiniteSet(S)
         /\ \A g \in S : /\ Gifts(u)'[g] = Gifts(u)[g] /\ Gifts(u)[g] \in Int
                         /\ Givens'[g] = Givens[g] /\ Givens[g] \in Int
<1>1. IsFiniteSet(S)
  BY FS_Subset
<1>2. ASSUME NEW g \in S
      PROVE  /\ Gifts(u)'[g] = Gifts(u)[g] /\ Gifts(u)[g] \in Int
             /\ Givens'[g] = Givens[g] /\ Givens[g] \in Int
  <2>1. g \in Flows /\ flight[g] # "none"
    BY DEF Landed
  <2>2. QED
    BY <2>1, SentIs, SentStays
<1> DEFINE A == Gifts(u)
           B == Gifts(u)'
           C == Givens
           D == Givens'
<1>3. \A g \in S : B[g] = A[g] /\ A[g] \in Int /\ D[g] = C[g] /\ C[g] \in Int
  BY <1>2
<1> HIDE DEF A, B, C, D
<1>4. /\ Total(B, S) = Total(A, S) /\ Total(D, S) = Total(C, S)
      /\ Total(A, S) \in Int /\ Total(C, S) \in Int
  BY <1>1, <1>3, TotalSame, TotalIs
<1>5. QED
  BY <1>1, <1>2, <1>4 DEF A, B, C, D

\* Nothing lands, and nobody's notes and tokens together are worth more or less.
LEMMA BooksStay ==
  ASSUME FlowInv, Books, UNCHANGED scenario, Landed' = Landed,
         \A i \in 0 .. nextIndex - 1 : leaves'[i] = leaves[i],
         \A u \in Users : balance'[u] + Total(Worths, NotesOf(u))' = balance[u] + Total(Worths, NotesOf(u))
  PROVE  Books'
<1>1. IsFiniteSet(Landed) /\ IsFiniteSet(Landed')
  BY DEF Books
<1>2. ASSUME NEW u \in Users
      PROVE  (balance[u] + Total(Worths, NotesOf(u))
                = FirstWealth(u) + Total(Gifts(u), Others(u)) - Total(Givens, LandedOf(u)))'
  <2>1. LandedOf(u)' = LandedOf(u)
    BY DEF LandedOf, Asked
  <2>2. Others(u)' = Others(u)
    BY <2>1 DEF Others
  <2>3. Others(u) \in SUBSET Landed /\ LandedOf(u) \in SUBSET Landed
    BY DEF Others, LandedOf
  <2>4. /\ Total(Gifts(u)', Others(u)) = Total(Gifts(u), Others(u))
        /\ Total(Givens', LandedOf(u)) = Total(Givens, LandedOf(u))
    BY <1>1, <2>3, LandedTotals
  <2>5. FirstWealth(u)' = FirstWealth(u)
    BY DEF FirstWealth
  <2>6. balance[u] + Total(Worths, NotesOf(u))
          = FirstWealth(u) + Total(Gifts(u), Others(u)) - Total(Givens, LandedOf(u))
    BY DEF Books
  <2>7. Total(Gifts(u), Others(u))' = Total(Gifts(u)', Others(u))
        /\ Total(Givens, LandedOf(u))' = Total(Givens', LandedOf(u))
    BY <2>1, <2>2, Zenon
  <2>8. QED
    BY <2>4, <2>5, <2>6, <2>7
<1>3. QED
  BY <1>1, <1>2 DEF Books

LEMMA FirstWealthIs ==
  ASSUME NEW u \in Users
  PROVE  /\ FirstWealth(u) \in Int
         /\ FirstWealth(u) = InitialBalance[u]
              + ((IF FirstNotes[1].owner = u THEN FirstNotes[1].amount ELSE 0)
                   + (IF FirstNotes[2].owner = u THEN FirstNotes[2].amount ELSE 0))
<1> DEFINE S == {j \in 1 .. 2 : FirstNotes[j].owner = u}
           F == [i \in S |-> FirstNotes[i].amount]
<1>1. FirstNotes[1].amount \in Int /\ FirstNotes[2].amount \in Int /\ InitialBalance[u] \in Nat
  BY FirstAssumption, WidthFacts, AmountAssumption DEF Note
<1>2. S \subseteq {1, 2} /\ (1 \in S <=> FirstNotes[1].owner = u) /\ (2 \in S <=> FirstNotes[2].owner = u)
  OBVIOUS
<1>3. DOMAIN F = S /\ \A i \in S : F[i] = FirstNotes[i].amount /\ F[i] \in Int
  BY <1>1, <1>2
<1>4. FirstWealth(u) = InitialBalance[u] + SumFunction(F)
  BY DEF FirstWealth
<1> HIDE DEF S, F
<1>5. SumFunction(F) = Total(F, S)
  BY <1>3, SumIsTotal
<1>6. \A a, b : a # b /\ S \subseteq {a, b}
               => Total(F, S) = (IF a \in S THEN F[a] ELSE 0) + (IF b \in S THEN F[b] ELSE 0)
  BY <1>3, TotalTwo
<1>7. Total(F, S) = (IF 1 \in S THEN F[1] ELSE 0) + (IF 2 \in S THEN F[2] ELSE 0)
  BY <1>2, <1>6
<1>8. QED
  BY <1>1, <1>2, <1>3, <1>4, <1>5, <1>7

\* The two notes of the start.
LEMMA BooksStart == FlowInit => Books
<1> SUFFICES ASSUME FlowInit PROVE Books
  OBVIOUS
<1>1. FirstNotes[1] \in Note /\ FirstNotes[2] \in Note
      /\ FirstNotes[1].amount \in Int /\ FirstNotes[2].amount \in Int
  BY FirstAssumption, WidthFacts DEF Note
<1>2. Landed = {}
  BY DEF FlowInit, Landed
<1>3. IsFiniteSet(Landed)
  BY <1>2, FS_EmptySet
<1>4. ASSUME NEW u \in Users
      PROVE  balance[u] + Total(Worths, NotesOf(u))
               = FirstWealth(u) + Total(Gifts(u), Others(u)) - Total(Givens, LandedOf(u))
  <2> DEFINE w1 == IF FirstNotes[1].owner = u THEN FirstNotes[1].amount ELSE 0
             w2 == IF FirstNotes[2].owner = u THEN FirstNotes[2].amount ELSE 0
  <2>1. balance[u] = InitialBalance[u]
    BY AddressAssumption DEF FlowInit, Addresses
  <2>2. Total(Worths, NotesOf(u)) = w1 + w2
    <3> DEFINE S == NotesOf(u)
    <3>1. leaves[0] = FirstNotes[1] /\ leaves[1] = FirstNotes[2] /\ nextIndex = 2
      BY DEF FlowInit
    <3>2. 0 \notin Nullified /\ 1 \notin Nullified
      BY FirstKeys, FirstAssumption, DummyAssumption
    <3>3. /\ S \subseteq {0, 1}
          /\ 0 \in S <=> FirstNotes[1].owner = u
          /\ 1 \in S <=> FirstNotes[2].owner = u
      BY <3>1, <3>2 DEF NotesOf
    <3>4. Worths[0] = FirstNotes[1].amount /\ Worths[1] = FirstNotes[2].amount
      BY <3>1 DEF Worths
    <3> HIDE DEF S
    <3>5. \A i \in S : Worths[i] \in Int
      BY <1>1, <3>3, <3>4
    <3>6. \A a, b : a # b /\ S \subseteq {a, b}
                   => Total(Worths, S) = (IF a \in S THEN Worths[a] ELSE 0) + (IF b \in S THEN Worths[b] ELSE 0)
      BY <3>5, TotalTwo
    <3>7. Total(Worths, S) = (IF 0 \in S THEN Worths[0] ELSE 0) + (IF 1 \in S THEN Worths[1] ELSE 0)
      BY <3>3, <3>6
    <3>8. QED
      BY <3>3, <3>4, <3>7 DEF S
  <2>3. FirstWealth(u) = InitialBalance[u] + (w1 + w2)
    BY FirstWealthIs
  <2>4. Others(u) = {} /\ LandedOf(u) = {}
    BY <1>2 DEF Others, LandedOf
  <2>5. Total(Gifts(u), {}) = 0 /\ Total(Givens, {}) = 0
    BY FS_EmptySet, TotalIs
  <2>6. InitialBalance[u] \in Nat /\ w1 \in Int /\ w2 \in Int
    BY <1>1, AmountAssumption
  <2> HIDE DEF w1, w2
  <2>7. QED
    BY <2>1, <2>2, <2>3, <2>4, <2>5, <2>6
<1>5. QED
  BY <1>3, <1>4 DEF Books

\* Two empty notes of somebody else's.
LEMMA OthersBooks ==
  ASSUME TypeOK, Canonical, NEW e, e.who \in Users, e.dummies \subseteq Dummies,
         OthersTransact(e), NEW u \in Users
  PROVE  balance'[u] + Total(Worths, NotesOf(u))' = balance[u] + Total(Worths, NotesOf(u))
<1> DEFINE o == [owner |-> e.who, amount |-> 0]
           S == NotesOf(u)
<1>1. o \in Note /\ o.amount = 0
  BY WidthFacts DEF Note
<1>2. InsertTwoLeaves(o, o) /\ Nullified' = Nullified \cup e.dummies /\ balance' = balance
  <2>1. InsertTwoLeaves(o, o) /\ spent' = spent \cup (e.dummies \X {0}) /\ balance' = balance
    BY DEF OthersTransact
  <2>2. QED
    BY <2>1, MoreKeys
<1>3. S \subseteq 0 .. nextIndex - 1 /\ nextIndex \in Nat /\ S \in SUBSET (0 .. nextIndex - 1)
  BY DEF NotesOf, TypeOK
<1> HIDE DEF o
<1>4. ASSUME NEW i
      PROVE  i \in NotesOf(u)' <=>
               i \in S \/ (i = nextIndex /\ o.owner = u) \/ (i = nextIndex + 1 /\ o.owner = u)
  <2>1. i \in NotesOf(u)' <=> i \in 0 .. nextIndex' - 1 /\ i \notin Nullified' /\ leaves'[i].owner = u
    BY DEF NotesOf
  <2>2. /\ nextIndex' = nextIndex + 2
        /\ leaves' = [k \in 0 .. nextIndex + 1 |->
                        IF k = nextIndex THEN o ELSE IF k = nextIndex + 1 THEN o ELSE leaves[k]]
    BY <1>2 DEF InsertTwoLeaves
  <2>3. i \in 0 .. nextIndex' - 1
          <=> i \in 0 .. nextIndex - 1 \/ i = nextIndex \/ i = nextIndex + 1
    BY <1>3, <2>2
  <2>4. i \in 0 .. nextIndex + 1 => (i \notin Nullified' <=> i \notin Nullified)
    BY <1>2, DummyAssumption
  <2>5. Nullified \subseteq (0 .. nextIndex - 1) \cup Dummies
    BY NullifiedType
  <2>6. i \in S <=> i \in 0 .. nextIndex - 1 /\ i \notin Nullified /\ leaves[i].owner = u
    BY DEF NotesOf
  <2>7. CASE i \in 0 .. nextIndex - 1
    BY <1>3, <2>1, <2>2, <2>3, <2>4, <2>6, <2>7
  <2>8. CASE i = nextIndex \/ i = nextIndex + 1
    <3>1. i \in 0 .. nextIndex + 1 /\ i \notin 0 .. nextIndex - 1 /\ i \in Nat /\ leaves'[i] = o
      BY <1>3, <2>2, <2>8
    <3>2. i \notin Nullified'
      BY <2>4, <2>5, <3>1, DummyAssumption
    <3>3. QED
      BY <2>1, <2>3, <2>6, <2>8, <3>1, <3>2
  <2>9. CASE i \notin 0 .. nextIndex - 1 /\ i # nextIndex /\ i # nextIndex + 1
    BY <2>1, <2>3, <2>6, <2>9
  <2>10. QED
    BY <2>7, <2>8, <2>9
<1>5. /\ Total(Worths, S) \in Int
      /\ Total(Worths, NotesOf(u))'
           = Total(Worths, S) + (IF o.owner = u THEN o.amount ELSE 0) + (IF o.owner = u THEN o.amount ELSE 0)
  <2> HIDE DEF S
  <2>1. QED
    BY <1>1, <1>2, <1>3, <1>4, NotesAdded
<1>6. Total(Worths, NotesOf(u))' = Total(Worths, S)
  <2> HIDE DEF S
  <2>1. QED
    BY <1>1, <1>5 DEF o
<1>7. QED
  BY <1>2, <1>6 DEF S

\* A transaction that is accepted: its inputs are spent, its outputs added and
\* the tokens moved, and all this comes to what its request says.
LEMMA LandWorth ==
  ASSUME FlowInv, NEW f \in Flows, Land(f), Accepts(f), NEW u \in Users
  PROVE  /\ Gifts(u)[f] \in Int /\ Givens[f] \in Int
         /\ balance'[u] + Total(Worths, NotesOf(u))'
              = balance[u] + Total(Worths, NotesOf(u))
                  + (IF u = Asked(f).user THEN -Givens[f] ELSE Gifts(u)[f])
<1> DEFINE r == Asked(f)
           q == ProofOf(f)
           p == Params(r)
           a == r.user
           ext == p.ext
           w == Worth(r.notes)
           in1 == q.ins[1]
           in2 == q.ins[2]
           o1 == p.outs[1]
           o2 == p.outs[2]
           S == NotesOf(u)
           T == (S \ {in1}) \ {in2}
<1>1. flight[f] = "sent" /\ TypeOK /\ Canonical
  BY DEF Land, FlowInv, ChainInv, SoundInv
<1>2. /\ Formed(r) /\ OwnNotes(r, leaves, nextIndex) /\ w \in Nat
      /\ w = InAmt(r, leaves, 1) + InAmt(r, leaves, 2)
      /\ OutAmt(r, 1) \in Nat /\ OutAmt(r, 2) \in Nat /\ Ext(r, leaves) \in Int
      /\ Givens[f] \in Int /\ Gifts(u)[f] \in Int
  BY <1>1, SentIs
<1>3. a \in Users
  BY <1>2 DEF Formed, Request
<1>4. /\ MoveTokens(a, q.extDataHash) /\ InsertTwoLeaves(q.outs[1], q.outs[2])
      /\ Nullified' = Nullified \cup {in1, in2}
  <2>1. /\ MoveTokens(a, q.extDataHash) /\ InsertTwoLeaves(q.outs[1], q.outs[2])
        /\ spent' = spent \cup Keys(q.ins, Plain)
    BY DEF Land
  <2>2. q.ins = <<in1, in2>>
    BY <1>2, ProofIs
  <2> HIDE DEF in1, in2, q, a
  <2>3. Keys(<<in1, in2>>, Plain) = {in1, in2} \X {0}
    BY PlainPair
  <2>4. spent' = spent \cup ({in1, in2} \X {0})
    BY <2>1, <2>2, <2>3
  <2>5. Nullified' = Nullified \cup {in1, in2}
    BY <1>1, <2>4, MoreKeys
  <2>6. QED
    BY <2>1, <2>5
<1>5. /\ q.ins = <<In(r, DummyOf[f], 1), In(r, DummyOf[f], 2)>> /\ q.outs = p.outs /\ q.extDataHash = ext
  BY <1>2, ProofIs
<1>6. /\ in1 \in Inputs /\ in2 \in Inputs /\ in1 # in2 /\ in1 \notin Nullified /\ in2 \notin Nullified
      /\ o1 \in Note /\ o2 \in Note /\ ext.recipient \in Addresses /\ ext.amount \in Int
      /\ o1.amount + o2.amount = InAmount(in1) + InAmount(in2) + ext.amount
  <2>1. /\ q.ins[1] \in Inputs /\ q.ins[2] \in Inputs /\ q.ins[1] # q.ins[2]
        /\ q.ins[1] \notin Nullified /\ q.ins[2] \notin Nullified
        /\ q.outs[1] \in Note /\ q.outs[2] \in Note
        /\ q.extDataHash.recipient \in Addresses /\ q.extDataHash.amount \in Int
        /\ q.outs[1].amount + q.outs[2].amount
             = InAmount(q.ins[1]) + InAmount(q.ins[2]) + q.extDataHash.amount
    BY <1>1, <1>2, AcceptedIs
  <2> HIDE DEF q, p
  <2>2. QED
    BY <1>5, <2>1
<1>7. InAmount(in1) = InAmt(r, leaves, 1) /\ InAmount(in2) = InAmt(r, leaves, 2)
  <2>1. InAmount(In(r, DummyOf[f], 1)) = InAmt(r, leaves, 1) /\ InAmount(In(r, DummyOf[f], 2)) = InAmt(r, leaves, 2)
    BY <1>2, PaddedAmounts
  <2> HIDE DEF q, r
  <2>2. QED
    BY <1>5, <2>1
<1>8. (in1 \in Dummies \/ leaves[in1].owner = a) /\ (in2 \in Dummies \/ leaves[in2].owner = a)
  <2>1. ASSUME NEW i \in 1 .. 2
        PROVE  In(r, DummyOf[f], i) \in Dummies \/ leaves[In(r, DummyOf[f], i)].owner = a
    <3>1. \/ i \in DOMAIN r.notes /\ In(r, DummyOf[f], i) = r.notes[i]
          \/ In(r, DummyOf[f], i) = DummyOf[f][i] /\ DummyOf[f][i] \in Dummies
      BY <1>2, PaddedAre
    <3>2. \A k \in DOMAIN r.notes : leaves[r.notes[k]].owner = a
      BY <1>2 DEF OwnNotes
    <3>3. QED
      BY <3>1, <3>2
  <2>2. q.ins[1] = In(r, DummyOf[f], 1) /\ q.ins[2] = In(r, DummyOf[f], 2)
    <3> HIDE DEF q, r
    <3>1. QED
      BY <1>5
  <2> HIDE DEF q, r
  <2>3. QED
    BY <2>1, <2>2
<1>9. /\ o1.amount = OutAmt(r, 1) /\ o2.amount = OutAmt(r, 2) /\ ext.amount = Ext(r, leaves)
  BY <1>2, ParamsAre
<1>10. OutAmt(r, 1) + OutAmt(r, 2) = w + Ext(r, leaves)
  <2> HIDE DEF w, o1, o2, ext, in1, in2, r
  <2>1. QED
    BY <1>2, <1>6, <1>7, <1>9
<1>11. u = a => Givens[f] = (o1.amount - OutTo(p, 1, a)) + (o2.amount - OutTo(p, 2, a))
                              + ((IF ext.amount < 0 THEN -ext.amount ELSE 0) - PaidTo(p, a))
  <2>1. GivenOf(r, w) = (o1.amount - OutTo(p, 1, a)) + (o2.amount - OutTo(p, 2, a))
                          + ((IF ext.amount < 0 THEN -ext.amount ELSE 0) - PaidTo(p, a))
    BY <1>2, <1>10, GivenIs
  <2>2. Givens[f] = GivenOf(r, w)
    BY DEF Givens
  <2> HIDE DEF w, o1, o2, ext, p, a, r
  <2>3. QED
    BY <2>1, <2>2
<1>12. u # a => Gifts(u)[f] = Pays(p, u)
  <2>1. u \in Addresses
    BY DEF Addresses
  <2>2. u # a => GiftOf(r, w, u) = Pays(p, u)
    BY <1>2, <1>10, <2>1, GiftIs
  <2>3. Gifts(u)[f] = GiftOf(r, w, u)
    BY DEF Gifts
  <2> HIDE DEF w, p, a, r
  <2>4. QED
    BY <2>2, <2>3
<1>13. S \in SUBSET (0 .. nextIndex - 1) /\ nextIndex \in Nat /\ T \in SUBSET (0 .. nextIndex - 1)
  BY <1>1 DEF NotesOf, TypeOK
<1>14. Total(Worths, T) = Total(Worths, S) - (IF u = a THEN InAmount(in1) + InAmount(in2) ELSE 0)
  <2> HIDE DEF in1, in2, a
  <2>1. T = (NotesOf(u) \ {in1}) \ {in2}
    BY Zenon
  <2>2. /\ TypeOK /\ in1 \in Inputs /\ in2 \in Inputs /\ in1 # in2 /\ in1 \notin Nullified /\ in2 \notin Nullified
        /\ in1 \in Dummies \/ leaves[in1].owner = a
        /\ in2 \in Dummies \/ leaves[in2].owner = a
    BY <1>1, <1>6, <1>8
  <2> HIDE DEF T, S
  <2>3. Total(Worths, (NotesOf(u) \ {in1}) \ {in2})
          = Total(Worths, NotesOf(u)) - (IF u = a THEN InAmount(in1) + InAmount(in2) ELSE 0)
    BY ONLY <2>2, NotesSpent
  <2>4. Total(Worths, T) = Total(Worths, (NotesOf(u) \ {in1}) \ {in2})
    BY ONLY <2>1
  <2>5. S = NotesOf(u)
    BY DEF S
  <2>6. QED
    BY ONLY <2>3, <2>4, <2>5
<1>15. ASSUME NEW i
       PROVE  i \in NotesOf(u)' <=>
                i \in T \/ (i = nextIndex /\ o1.owner = u) \/ (i = nextIndex + 1 /\ o2.owner = u)
  <2> HIDE DEF in1, in2, o1, o2, a, ext
  <2>1. i \in NotesOf(u)' <=> i \in 0 .. nextIndex' - 1 /\ i \notin Nullified' /\ leaves'[i].owner = u
    BY DEF NotesOf
  <2>2. /\ nextIndex' = nextIndex + 2
        /\ leaves' = [k \in 0 .. nextIndex + 1 |->
                        IF k = nextIndex THEN o1 ELSE IF k = nextIndex + 1 THEN o2 ELSE leaves[k]]
    BY <1>4, <1>5 DEF InsertTwoLeaves, o1, o2
  <2>3. i \in 0 .. nextIndex' - 1
          <=> i \in 0 .. nextIndex - 1 \/ i = nextIndex \/ i = nextIndex + 1
    BY <1>13, <2>2
  <2>4. i \in T <=> i \in 0 .. nextIndex - 1 /\ i \notin Nullified /\ i # in1 /\ i # in2 /\ leaves[i].owner = u
    BY DEF NotesOf
  <2>5. i \in Nullified' <=> i \in Nullified \/ i = in1 \/ i = in2
    BY <1>4
  <2>6. /\ Nullified \subseteq (0 .. nextIndex - 1) \cup Dummies
        /\ in1 \in (0 .. nextIndex - 1) \cup Dummies /\ in2 \in (0 .. nextIndex - 1) \cup Dummies
    BY <1>1, <1>6, NullifiedType DEF Inputs
  <2> HIDE DEF S, T
  <2>7. CASE i \in 0 .. nextIndex - 1
    <3>1. leaves'[i] = leaves[i] /\ i # nextIndex /\ i # nextIndex + 1
      BY <1>13, <2>2, <2>7
    <3>2. QED
      BY <2>1, <2>3, <2>4, <2>5, <2>7, <3>1
  <2>8. CASE i = nextIndex \/ i = nextIndex + 1
    <3>1. /\ i \notin 0 .. nextIndex - 1 /\ i \in Nat
          /\ i = nextIndex => leaves'[i] = o1
          /\ i = nextIndex + 1 => leaves'[i] = o2
          /\ i = nextIndex <=> i # nextIndex + 1
      BY <1>13, <2>2, <2>8
    <3>2. i \notin Nullified'
      BY <2>5, <2>6, <3>1, DummyAssumption
    <3>3. QED
      BY <2>1, <2>3, <2>4, <2>8, <3>1, <3>2
  <2>9. CASE i \notin 0 .. nextIndex - 1 /\ i # nextIndex /\ i # nextIndex + 1
    BY <2>1, <2>3, <2>4, <2>9
  <2>10. QED
    BY <2>7, <2>8, <2>9
<1>16. /\ Total(Worths, T) \in Int
       /\ Total(Worths, NotesOf(u))'
            = Total(Worths, T) + (IF o1.owner = u THEN o1.amount ELSE 0) + (IF o2.owner = u THEN o2.amount ELSE 0)
  <2>1. InsertTwoLeaves(o1, o2)
    BY <1>4, <1>5
  <2> HIDE DEF T, o1, o2
  <2>2. QED
    BY <1>1, <1>6, <1>13, <1>15, <2>1, NotesAdded
<1>17. balance'[u] = balance[u] - (IF u = a /\ ext.amount > 0 THEN ext.amount ELSE 0)
                                + (IF ext.recipient = u /\ ext.amount < 0 THEN -ext.amount ELSE 0)
  <2>1. balance \in [Addresses -> Nat] /\ MoveTokens(a, ext)
    BY <1>1, <1>4, <1>5 DEF TypeOK
  <2> HIDE DEF a, ext
  <2>2. QED
    BY <1>3, <1>6, <2>1, TokensMoved
<1>18. /\ OutTo(p, 1, u) = (IF o1.owner = u THEN o1.amount ELSE 0)
       /\ OutTo(p, 2, u) = (IF o2.owner = u THEN o2.amount ELSE 0)
       /\ PaidTo(p, u) = (IF ext.recipient = u /\ ext.amount < 0 THEN -ext.amount ELSE 0)
       /\ Pays(p, u) = OutTo(p, 1, u) + OutTo(p, 2, u) + PaidTo(p, u)
  <2> HIDE DEF p
  <2>1. QED
    BY DEF OutTo, PaidTo, Pays
<1>19. balance[u] \in Nat /\ Total(Worths, S) \in Int
  <2>1. u \in Addresses
    BY DEF Addresses
  <2>2. QED
    BY <1>1, <2>1, WealthIs DEF TypeOK
<1>20. /\ InAmount(in1) \in Int /\ InAmount(in2) \in Int /\ o1.amount \in Int /\ o2.amount \in Int
  <2>1. InAmount(in1) \in 0 .. MaxExtAmount - 1 /\ InAmount(in2) \in 0 .. MaxExtAmount - 1
    <3> HIDE DEF in1, in2
    <3>1. QED
      BY <1>1, <1>6, InTokenCount
  <2>2. QED
    BY <1>2, <1>9, <2>1
<1> DEFINE v1 == OutTo(p, 1, u)
           v2 == OutTo(p, 2, u)
           v3 == PaidTo(p, u)
           bal == balance'[u]
           tot == Total(Worths, NotesOf(u))'
           tot0 == Total(Worths, S)
           tot1 == Total(Worths, T)
           i1 == InAmount(in1)
           i2 == InAmount(in2)
           e == ext.amount
           x1 == o1.amount
           x2 == o2.amount
           give == Givens[f]
           gift == Gifts(u)[f]
           b == balance[u]
<1>21. v1 \in Int /\ v2 \in Int /\ v3 \in Int
  <2> HIDE DEF o1, o2, ext
  <2>1. QED
    BY <1>6, <1>18, <1>20
<1>22. /\ bal = b - (IF u = a /\ e > 0 THEN e ELSE 0) + v3 /\ tot = tot1 + v1 + v2
       /\ tot1 = tot0 - (IF u = a THEN i1 + i2 ELSE 0)
       /\ u = a => give = (x1 - v1) + (x2 - v2) + ((IF e < 0 THEN -e ELSE 0) - v3)
       /\ u # a => gift = v1 + v2 + v3
       /\ x1 + x2 = i1 + i2 + e
       /\ {b, e, i1, i2, x1, x2, v1, v2, v3, tot0, give, gift} \subseteq Int
  <2>1. bal = b - (IF u = a /\ e > 0 THEN e ELSE 0) + v3
    <3> HIDE DEF p, a
    <3>1. QED
      BY <1>17, <1>18
  <2>2. tot = tot1 + v1 + v2
    <3> HIDE DEF T, p
    <3>1. QED
      BY <1>16, <1>18
  <2>3. u # a => gift = v1 + v2 + v3
    <3> HIDE DEF p, a
    <3>1. QED
      BY <1>12, <1>18
  <2>4. u = a => give = (x1 - v1) + (x2 - v2) + ((IF e < 0 THEN -e ELSE 0) - v3)
    <3> HIDE DEF p, a
    <3>1. QED
      BY <1>11
  <2>5. e \in Int /\ b \in Int /\ give \in Int /\ gift \in Int
    BY <1>2, <1>6, <1>19
  <2>6. x1 + x2 = i1 + i2 + e /\ tot1 = tot0 - (IF u = a THEN i1 + i2 ELSE 0)
    BY <1>6, <1>14
  <2> HIDE DEF v1, v2, v3, bal, tot, tot0, tot1, i1, i2, e, x1, x2, give, gift, b, a
  <2>7. i1 \in Int /\ i2 \in Int /\ x1 \in Int /\ x2 \in Int /\ tot0 \in Int
    BY <1>19, <1>20 DEF i1, i2, x1, x2, tot0
  <2>8. QED
    BY <1>21, <2>1, <2>2, <2>3, <2>4, <2>5, <2>6, <2>7
<1> HIDE DEF v1, v2, v3, bal, tot, tot0, tot1, i1, i2, e, x1, x2, give, gift, b, a
<1>23. bal + tot = b + tot0 + (IF u = a THEN -give ELSE gift)
  <2>1. CASE u = a
    BY <1>22, <2>1
  <2>2. CASE u # a
    BY <1>22, <2>2
  <2>3. QED
    BY <2>1, <2>2
<1>24. QED
  BY <1>2, <1>23 DEF bal, tot, tot0, give, gift, b, a, S

\* A transaction more has landed.
LEMMA LandTotals ==
  ASSUME FlowInv, Books, UNCHANGED scenario, \A i \in 0 .. nextIndex - 1 : leaves'[i] = leaves[i],
         NEW f \in Flows, flight[f] = "sent", flight' = [flight EXCEPT ![f] = "landed"], NEW u \in Users
  PROVE  /\ Total(Gifts(u), Others(u)) \in Int /\ Total(Givens, LandedOf(u)) \in Int
         /\ Total(Gifts(u), Others(u))'
              = Total(Gifts(u), Others(u)) + (IF u = Asked(f).user THEN 0 ELSE Gifts(u)[f])
         /\ Total(Givens, LandedOf(u))'
              = Total(Givens, LandedOf(u)) + (IF u = Asked(f).user THEN Givens[f] ELSE 0)
<1> DEFINE A == Gifts(u)
           B == Gifts(u)'
           C == Givens
           D == Givens'
           S == Others(u)
           T == LandedOf(u)
<1>1. IsFiniteSet(Landed) /\ S \in SUBSET Landed /\ T \in SUBSET Landed
  BY DEF Books, Others, LandedOf
<1>2. flight \in [Flows -> {"none", "sent", "landed", "rejected"}]
  BY DEF FlowInv, FlowsFit
<1>3. f \notin Landed /\ \A g : g \in Landed' <=> g \in Landed \/ g = f
  BY <1>2 DEF Landed
<1>4. /\ IsFiniteSet(S) /\ \A g \in S : B[g] = A[g] /\ A[g] \in Int
      /\ Total(B, S) = Total(A, S) /\ Total(A, S) \in Int
  BY <1>1, LandedTotals
<1>5. /\ IsFiniteSet(T) /\ \A g \in T : D[g] = C[g] /\ C[g] \in Int
      /\ Total(D, T) = Total(C, T) /\ Total(C, T) \in Int
  BY <1>1, LandedTotals
<1>6. B[f] = A[f] /\ A[f] \in Int /\ D[f] = C[f] /\ C[f] \in Int
  <2>1. flight[f] # "none"
    OBVIOUS
  <2>2. QED
    BY <2>1, SentIs, SentStays
<1>7. \A g : g \in LandedOf(u)' <=> g \in T \/ (g = f /\ u = Asked(f).user)
  BY <1>3 DEF LandedOf, Asked
<1>8. ASSUME NEW g PROVE g \in Others(u)' <=> g \in S \/ (g = f /\ u # Asked(f).user)
  <2>1. g \in Others(u)' <=> g \in Landed' /\ g \notin LandedOf(u)'
    BY DEF Others
  <2>2. g \in S <=> g \in Landed /\ g \notin T
    BY DEF Others
  <2>3. f \notin Landed /\ f \notin T /\ (g \in Landed' <=> g \in Landed \/ g = f)
    BY <1>1, <1>3
  <2>4. g \in LandedOf(u)' <=> g \in T \/ (g = f /\ u = Asked(f).user)
    BY <1>7
  <2> HIDE DEF S, T
  <2>5. QED
    BY <2>1, <2>2, <2>3, <2>4
<1>9. f \notin S /\ f \notin T
  BY <1>1, <1>3
<1>10. Total(Gifts(u), Others(u))' = Total(B, Others(u)') /\ Total(Givens, LandedOf(u))' = Total(D, LandedOf(u)')
  OBVIOUS
<1> HIDE DEF A, B, C, D, S, T
<1>11. CASE u = Asked(f).user
  <2>1. Others(u)' = S /\ LandedOf(u)' = T \cup {f}
    BY <1>7, <1>8, <1>11
  <2>2. Total(D, T \cup {f}) = Total(D, T) + D[f]
    <3>1. IsFiniteSet(T) /\ (\A g \in T : D[g] \in Int) /\ f \notin T /\ D[f] \in Int
      BY <1>5, <1>6, <1>9
    <3>2. QED
      BY ONLY <3>1, TotalWith
  <2>3. Total(Gifts(u), Others(u))' = Total(B, S) /\ Total(Givens, LandedOf(u))' = Total(D, T \cup {f})
    BY <1>10, <2>1, Zenon
  <2>4. /\ Total(Gifts(u), Others(u))' = Total(A, S) + 0 /\ Total(Givens, LandedOf(u))' = Total(C, T) + C[f]
    BY <1>4, <1>5, <1>6, <2>2, <2>3
  <2>5. QED
    BY <1>4, <1>5, <1>11, <2>4 DEF A, C, S, T
<1>12. CASE u # Asked(f).user
  <2>1. Others(u)' = S \cup {f} /\ LandedOf(u)' = T
    BY <1>7, <1>8, <1>12
  <2>2. Total(B, S \cup {f}) = Total(B, S) + B[f]
    <3>1. IsFiniteSet(S) /\ (\A g \in S : B[g] \in Int) /\ f \notin S /\ B[f] \in Int
      BY <1>4, <1>6, <1>9
    <3>2. QED
      BY ONLY <3>1, TotalWith
  <2>3. Total(Gifts(u), Others(u))' = Total(B, S \cup {f}) /\ Total(Givens, LandedOf(u))' = Total(D, T)
    BY <1>10, <2>1, Zenon
  <2>4. /\ Total(Gifts(u), Others(u))' = Total(A, S) + A[f] /\ Total(Givens, LandedOf(u))' = Total(C, T) + 0
    BY <1>4, <1>5, <1>6, <2>2, <2>3
  <2>5. QED
    BY <1>4, <1>5, <1>12, <2>4 DEF A, C, S, T
<1>13. QED
  BY <1>11, <1>12

LEMMA LandBooks ==
  ASSUME FlowInv, Books, NEW f \in Flows, Land(f)
  PROVE  Books'
<1>1. TypeOK /\ flight[f] = "sent" /\ scenario' = scenario
  BY DEF Land, FlowInv, ChainInv
<1>2. CASE ~Accepts(f)
  <2>1. UNCHANGED <<leaves, nextIndex, Nullified, balance>> /\ flight' = [flight EXCEPT ![f] = "rejected"]
    BY <1>2 DEF Land, chainVars, vars, merkleVars, Nullified
  <2>2. Landed' = Landed
    <3>1. flight \in [Flows -> {"none", "sent", "landed", "rejected"}]
      BY DEF FlowInv, FlowsFit
    <3>2. QED
      BY <1>1, <2>1, <3>1 DEF Landed
  <2>3. ASSUME NEW u \in Users
        PROVE  balance'[u] + Total(Worths, NotesOf(u))' = balance[u] + Total(Worths, NotesOf(u))
    BY <2>1 DEF NotesOf, Worths
  <2>4. QED
    BY <1>1, <2>1, <2>2, <2>3, BooksStay
<1>3. CASE Accepts(f)
  <2>1. flight' = [flight EXCEPT ![f] = "landed"] /\ \A i \in 0 .. nextIndex - 1 : leaves'[i] = leaves[i]
    <3>1. InsertTwoLeaves(ProofOf(f).outs[1], ProofOf(f).outs[2]) /\ flight' = [flight EXCEPT ![f] = "landed"]
      BY <1>3 DEF Land
    <3>2. QED
      BY <1>1, <3>1, LeavesGrow
  <2>2. ASSUME NEW u \in Users
        PROVE  (balance[u] + Total(Worths, NotesOf(u))
                  = FirstWealth(u) + Total(Gifts(u), Others(u)) - Total(Givens, LandedOf(u)))'
    <3>1. balance[u] + Total(Worths, NotesOf(u))
            = FirstWealth(u) + Total(Gifts(u), Others(u)) - Total(Givens, LandedOf(u))
      BY DEF Books
    <3>2. /\ Gifts(u)[f] \in Int /\ Givens[f] \in Int
          /\ balance'[u] + Total(Worths, NotesOf(u))'
               = balance[u] + Total(Worths, NotesOf(u))
                   + (IF u = Asked(f).user THEN -Givens[f] ELSE Gifts(u)[f])
      BY <1>3, LandWorth
    <3>3. /\ Total(Gifts(u), Others(u)) \in Int /\ Total(Givens, LandedOf(u)) \in Int
          /\ Total(Gifts(u), Others(u))'
               = Total(Gifts(u), Others(u)) + (IF u = Asked(f).user THEN 0 ELSE Gifts(u)[f])
          /\ Total(Givens, LandedOf(u))'
               = Total(Givens, LandedOf(u)) + (IF u = Asked(f).user THEN Givens[f] ELSE 0)
      BY <1>1, <2>1, LandTotals
    <3>4. FirstWealth(u)' = FirstWealth(u)
      BY DEF FirstWealth
    <3>5. FirstWealth(u) \in Int
      BY FirstWealthIs
    <3>6. balance'[u] + Total(Worths, NotesOf(u))'
            = FirstWealth(u)' + Total(Gifts(u), Others(u))' - Total(Givens, LandedOf(u))'
      <4> DEFINE b == balance'[u] + Total(Worths, NotesOf(u))'
                 b0 == balance[u] + Total(Worths, NotesOf(u))
                 first == FirstWealth(u)
                 gifts == Total(Gifts(u), Others(u))
                 givens == Total(Givens, LandedOf(u))
                 gift == Gifts(u)[f]
                 give == Givens[f]
                 gifts1 == Total(Gifts(u), Others(u))'
                 givens1 == Total(Givens, LandedOf(u))'
      <4>1. /\ b0 = first + gifts - givens
            /\ b = b0 + (IF u = Asked(f).user THEN -give ELSE gift)
            /\ gifts1 = gifts + (IF u = Asked(f).user THEN 0 ELSE gift)
            /\ givens1 = givens + (IF u = Asked(f).user THEN give ELSE 0)
            /\ first \in Int /\ gifts \in Int /\ givens \in Int /\ gift \in Int /\ give \in Int
        BY <3>1, <3>2, <3>3, <3>5
      <4> HIDE DEF b, b0, first, gifts, givens, gift, give, gifts1, givens1
      <4>2. b = first + gifts1 - givens1
        BY <4>1
      <4>3. QED
        BY <3>4, <4>2 DEF b, first, gifts1, givens1
    <3>7. QED
      BY <3>6
  <2>3. IsFiniteSet(Landed')
    <3>1. IsFiniteSet(Landed) /\ Landed' = Landed \cup {f}
      <4>1. flight \in [Flows -> {"none", "sent", "landed", "rejected"}]
        BY DEF FlowInv, FlowsFit
      <4>2. QED
        BY <2>1, <4>1 DEF Books, Landed
    <3>2. IsFiniteSet(Landed \cup {f})
      BY <3>1, FS_AddElement
    <3>3. QED
      BY <3>1, <3>2, Zenon
  <2>4. QED
    BY <2>2, <2>3 DEF Books
<1>4. QED
  BY <1>2, <1>3

\* Nothing on the chain that is anybody's changes, and nothing lands.
LEMMA QuietBooks ==
  ASSUME FlowInv, Books, UNCHANGED <<leaves, nextIndex, Nullified, balance, scenario>>, Landed' = Landed
  PROVE  Books'
<1>1. ASSUME NEW u \in Users
      PROVE  balance'[u] + Total(Worths, NotesOf(u))' = balance[u] + Total(Worths, NotesOf(u))
  BY DEF NotesOf, Worths
<1>2. QED
  BY <1>1, BooksStay

LEMMA OutsideBooks ==
  ASSUME FlowInv, Books, Outside
  PROVE  Books'
<1> DEFINE e == scenario.outside[happened + 1]
<1>1. TypeOK /\ SyncInv /\ SoundInv
  BY DEF FlowInv, ChainInv
<1>2. /\ happened + 1 \in 1 .. Len(scenario.outside) /\ UNCHANGED <<scenario, flight>>
  BY <1>1, ScenarioAssumption DEF SyncInv, Outside, flowVars
<1>3. e.who \in Users /\ e.dummies \subseteq Dummies
  BY <1>1, <1>2, ScenarioAssumption DEF SyncInv
<1>4. Landed' = Landed
  BY <1>2 DEF Landed
<1>5. CASE OthersTransact(e)
  <2>1. \A i \in 0 .. nextIndex - 1 : leaves'[i] = leaves[i]
    <3>1. InsertTwoLeaves([owner |-> e.who, amount |-> 0], [owner |-> e.who, amount |-> 0])
      BY <1>5 DEF OthersTransact
    <3>2. QED
      BY <1>1, <3>1, LeavesGrow
  <2>2. ASSUME NEW u \in Users
        PROVE  balance'[u] + Total(Worths, NotesOf(u))' = balance[u] + Total(Worths, NotesOf(u))
    <3> HIDE DEF e
    <3>1. QED
      BY <1>1, <1>3, <1>5, OthersBooks DEF SoundInv
  <2>3. QED
    BY <1>2, <1>4, <2>1, <2>2, BooksStay
<1>6. CASE \/ AspInsertLeaf(TheMembership, e.who) \/ AspBlock(TheNonMembership, e.who)
           \/ AspUnblock(TheNonMembership, e.who) \/ UNCHANGED vars
  <2>1. UNCHANGED <<leaves, nextIndex, Nullified, balance>>
    BY <1>6 DEF AspInsertLeaf, AspBlock, AspUnblock, SetBlocked, merkleVars, vars, Nullified
  <2>2. QED
    BY <1>2, <1>4, <2>1, QuietBooks
<1>7. QED
  BY <1>5, <1>6 DEF Outside

LEMMA BooksStep == FlowInv /\ Books /\ [FlowNext]_allVars => Books'
<1> SUFFICES ASSUME FlowInv, Books, [FlowNext]_allVars PROVE Books'
  OBVIOUS
<1>1. ASSUME UNCHANGED <<chainVars, scenario>>, Landed' = Landed PROVE Books'
  <2>1. UNCHANGED <<leaves, nextIndex, Nullified, balance, scenario>>
    BY <1>1 DEF chainVars, vars, merkleVars, Nullified
  <2>2. QED
    BY <1>1, <2>1, QuietBooks
<1>2. ASSUME UNCHANGED <<chainVars, scenario, flight>> PROVE Books'
  <2>1. Landed' = Landed
    BY <1>2 DEF Landed
  <2>2. QED
    BY <1>1, <1>2, <2>1
<1>3. CASE Outside
  BY <1>3, OutsideBooks
<1>4. CASE SavePage \/ SaveProgress \/ Process \/ UNCHANGED allVars
  BY <1>2, <1>4 DEF SavePage, SaveProgress, Process, allVars, flowVars
<1>5. ASSUME NEW f \in Flows, Click(f) \/ FlowStep(f) \/ CallFails(f) \/ Land(f) PROVE Books'
  <2>1. CASE Click(f) \/ CallFails(f) \/ ReadBulk(f) \/ ReadRoot(f) \/ ReadNonMembership(f)
             \/ AskStorage(f) \/ Prove(f) \/ Confirm(f)
    <3>1. Keeps
      BY <2>1 DEF Click, ProveDeposit, ProveWithdraw, ProveTransfer, ProveTransact, ClickOn, CallFails,
         ReadBulk, ReadRoot, ReadNonMembership, AskStorage, Prove, Confirm
    <3>2. QED
      BY <1>2, <3>1 DEF Keeps
  <2>2. CASE SignAndSend(f)
    <3>1. /\ UNCHANGED <<chainVars, scenario>> /\ flow[f].step = "sign"
          /\ flight' = [flight EXCEPT ![f] = "sent"] \/ UNCHANGED flight
      BY <2>2 DEF SignAndSend
    <3>2. flight[f] = "none"
      BY <3>1, FlowFacts DEF Ended
    <3>3. flight \in [Flows -> {"none", "sent", "landed", "rejected"}]
      BY DEF FlowInv, FlowsFit
    <3>4. Landed' = Landed
      BY <3>1, <3>2, <3>3 DEF Landed
    <3>5. QED
      BY <1>1, <3>1, <3>4
  <2>3. CASE Land(f)
    BY <2>3, LandBooks
  <2>4. QED
    BY <1>5, <2>1, <2>2, <2>3 DEF FlowStep
<1>6. QED
  BY <1>3, <1>4, <1>5 DEF FlowNext

LEMMA BooksTell == FlowInv /\ Books => BooksBalance
<1> SUFFICES ASSUME FlowInv, Books, NEW u \in Users
             PROVE  Wealth(u) = FirstWealth(u)
                                  + SumFunction([f \in Landed \ LandedOf(u) |-> Gift(Asked(f), u)])
                                  - SumFunction([f \in LandedOf(u) |-> Given(Asked(f))])
  BY DEF BooksBalance
<1> DEFINE S == Landed \ LandedOf(u)
           T == LandedOf(u)
           G == [f \in S |-> Gift(Asked(f), u)]
           H == [f \in T |-> Given(Asked(f))]
           A == Gifts(u)
           C == Givens
<1>1. TypeOK /\ IsFiniteSet(Landed) /\ Landed \subseteq Flows
  BY DEF FlowInv, ChainInv, Books, Landed
<1>2. balance[u] + Total(Worths, NotesOf(u))
        = FirstWealth(u) + Total(Gifts(u), Others(u)) - Total(Givens, LandedOf(u))
  BY DEF Books
<1>3. Wealth(u) = balance[u] + Total(Worths, NotesOf(u))
  BY <1>1, WealthIs
<1>4. IsFiniteSet(S) /\ IsFiniteSet(T)
  <2>1. S \subseteq Landed /\ T \subseteq Landed
    BY DEF LandedOf
  <2>2. QED
    BY <1>1, <2>1, FS_Subset
<1>5. ASSUME NEW f \in Landed PROVE A[f] \in Int /\ C[f] \in Int
  <2>1. f \in Flows /\ flight[f] # "none"
    BY DEF Landed
  <2>2. QED
    BY <2>1, SentIs
<1>6. \A f \in Flows : Gift(Asked(f), u) = A[f]
  <2>1. ASSUME NEW f \in Flows PROVE Gift(Asked(f), u) = A[f]
    <3>1. Gift(Asked(f), u) = GiftOf(Asked(f), Worth(Asked(f).notes), u)
      BY Zenon DEF Gift, GiftOf
    <3>2. A[f] = GiftOf(Asked(f), Worth(Asked(f).notes), u)
      BY DEF Gifts
    <3>3. QED
      BY <3>1, <3>2, Zenon
  <2>2. QED
    BY <2>1
<1>7. \A f \in Flows : Given(Asked(f)) = C[f]
  BY DEF Given, GivenOf, Givens, Gift, GiftOf
<1>8. \A f \in S : f \in Landed /\ f \in Flows /\ G[f] = Gift(Asked(f), u)
  BY <1>1
<1>9. \A f \in T : f \in Landed /\ f \in Flows /\ H[f] = Given(Asked(f))
  BY <1>1 DEF LandedOf
<1>10. DOMAIN G = S /\ DOMAIN H = T
  OBVIOUS
<1>11. Others(u) = S
  BY DEF Others
<1> HIDE DEF S, T, G, H, A, C
<1>12. SumFunction(G) = Total(A, S)
  <2>1. \A f \in S : A[f] \in Int /\ G[f] = A[f]
    BY <1>5, <1>6, <1>8
  <2>2. Total(G, S) = Total(A, S)
    BY ONLY <1>4, <2>1, TotalSame
  <2>3. QED
    BY <1>10, <2>2, SumIsTotal
<1>13. SumFunction(H) = Total(C, T)
  <2>1. \A f \in T : C[f] \in Int /\ H[f] = C[f]
    BY <1>5, <1>7, <1>9
  <2>2. Total(H, T) = Total(C, T)
    BY ONLY <1>4, <2>1, TotalSame
  <2>3. QED
    BY <1>10, <2>2, SumIsTotal
<1>14. Total(Gifts(u), Others(u)) = Total(A, S) /\ Total(Givens, LandedOf(u)) = Total(C, T)
  BY <1>11, Zenon DEF A, C, T
<1>15. Wealth(u) = FirstWealth(u) + SumFunction(G) - SumFunction(H)
  BY <1>2, <1>3, <1>12, <1>13, <1>14
<1>16. QED
  BY <1>15 DEF G, H, S, T

(***************************************************************************)
(* A user's tokens and notes together change by what the requests that     *)
(* landed say and by nothing else: for any number of users and flows, any  *)
(* requests, any interleaving of what they do with what the network, the   *)
(* others and the ASP contracts do.  The inductive invariant is the same   *)
(* equation with the sums taken over functions that later leaves leave     *)
(* alone, next to FlowInv: the inputs of what lands are its user's notes.  *)
(***************************************************************************)
THEOREM BooksAlwaysBalance == FlowSpec => []BooksBalance
<1>1. FlowInit => Books
  BY BooksStart
<1>2. FlowInv /\ Books /\ [FlowNext]_allVars => Books'
  BY BooksStep
<1>3. FlowInv /\ Books => BooksBalance
  BY BooksTell
<1>4. QED
  BY <1>1, <1>2, <1>3, FlowInvariant, PTL DEF FlowSpec
=============================================================================
