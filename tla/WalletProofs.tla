---------------------------- MODULE WalletProofs ----------------------------
(* Theorems about Wallet, for every log, page, chunk and limit. *)
EXTENDS Wallet, FiniteSetTheorems, SequenceTheorems, WellFoundedInduction, TLAPS

-----------------------------------------------------------------------------
(* Sets of rows and events.                                                *)

LEMMA HasLeast ==
  ASSUME NEW S, S \subseteq Nat, S # {}
  PROVE  \E n \in S : \A m \in S : n <= m
<1>1. PICK n \in S : \A m \in S : ~ (<<m, n>> \in OpToRel(<, Nat))
  BY NatLessThanWellFounded, WFMin
<1>2. ASSUME NEW m \in S PROVE n <= m
  <2>1. ~ (<<m, n>> \in OpToRel(<, Nat))
    BY <1>1
  <2>2. m \in Nat /\ n \in Nat
    OBVIOUS
  <2>3. ~(m < n)
    BY <2>1, <2>2 DEF OpToRel
  <2>4. QED
    BY <2>2, <2>3
<1>3. QED
  BY <1>2

LEMMA LargestIs ==
  ASSUME NEW N \in Nat, NEW S, S \subseteq 1 .. N, S # {}
  PROVE  Largest(S) \in S /\ \A m \in S : m <= Largest(S)
<1> DEFINE T == {N - s : s \in S}
<1>1. \A s \in S : s \in Nat /\ N - s \in Nat
  OBVIOUS
<1>2. T \subseteq Nat /\ T # {}
  BY <1>1
<1>3. PICK t \in T : \A u \in T : t <= u
  BY <1>2, HasLeast
<1>4. PICK s \in S : t = N - s
  OBVIOUS
<1>5. ASSUME NEW m \in S PROVE m <= s
  <2>1. N - m \in T
    OBVIOUS
  <2>2. N - s <= N - m
    BY <1>3, <1>4, <2>1
  <2>3. QED
    BY <1>1, <2>2
<1>6. QED
  BY <1>5 DEF Largest

\* The first k of some rows: none is passed over, and some if there are any.
LEMMA FirstsAre ==
  ASSUME NEW N \in Nat, NEW S, S \subseteq 1 .. N,
         NEW k \in Nat \ {0}, NEW T \in Firsts(k, S)
  PROVE  /\ T \subseteq S /\ IsFiniteSet(T) /\ Cardinality(T) \in Nat /\ Cardinality(T) <= k
         /\ T = {} => S = {}
         /\ \A n \in T, m \in S : m < n => m \in T
<1>1. T \subseteq S /\ Cardinality(T) = Lesser(k, Cardinality(S)) /\ \A n \in T, m \in S \ T : n < m
  BY DEF Firsts
<1>2. IsFiniteSet(1 .. N)
  BY FS_Interval
<1>3. IsFiniteSet(S) /\ Cardinality(S) \in Nat /\ IsFiniteSet(T) /\ Cardinality(T) \in Nat
  BY <1>1, <1>2, FS_Subset, FS_CardinalityType
<1>4. Cardinality(T) <= k
  BY <1>1, <1>3 DEF Lesser
<1>5. T = {} => S = {}
  <2>1. T = {} => Cardinality(T) = 0
    BY FS_EmptySet
  <2>2. Cardinality(S) = 0 => S = {}
    BY <1>3, FS_EmptySet
  <2>3. QED
    BY <1>1, <1>3, <2>1, <2>2 DEF Lesser
<1>6. \A n \in T, m \in S : m < n => m \in T
  BY <1>1
<1>7. QED
  BY <1>1, <1>3, <1>4, <1>5, <1>6

\* A table to which the members of S are added.
Grown(old, all, S) ==
  /\ all \in Seq(Nat)
  /\ Len(old) \in Nat /\ DOMAIN old = 1 .. Len(old)
  /\ Len(all) \in Nat /\ DOMAIN all = 1 .. Len(all) /\ Len(old) <= Len(all)
  /\ \A r \in 1 .. Len(old) : all[r] = old[r]
  /\ \A r \in 1 .. Len(all) : r > Len(old) => all[r] \in S
  /\ \A e \in S : \E r \in 1 .. Len(all) : all[r] = e

LEMMA TableGrows ==
  ASSUME NEW N \in Nat, NEW S, S \subseteq 1 .. N, NEW new \in Descending(S),
         NEW old \in Seq(Nat)
  PROVE  Grown(old, old \o new, S)
<1> DEFINE all == old \o new
<1>0. all = old \o new
  OBVIOUS
<1> HIDE DEF all
<1> DEFINE n == Cardinality(S)
<1>1. n \in Nat /\ S \subseteq Nat
  <2>1. IsFiniteSet(1 .. N)
    BY FS_Interval
  <2>2. IsFiniteSet(S)
    BY <2>1, FS_Subset
  <2>3. S \subseteq Nat
    OBVIOUS
  <2>4. QED
    BY <2>2, <2>3, FS_CardinalityType
<1>2. new \in [1 .. n -> S] /\ \A e \in S : \E i \in 1 .. n : new[i] = e
  BY DEF Descending
<1> HIDE DEF n
<1>3. new \in [1 .. n -> Nat]
  BY <1>1, <1>2
<1>4. new \in Seq(Nat)
  BY <1>1, <1>3, SeqDef
<1>5. Len(new) = n
  BY <1>1, <1>3, <1>4
<1>6. Len(old) \in Nat /\ DOMAIN old = 1 .. Len(old)
  OBVIOUS
<1>7. all \in Seq(Nat) /\ Len(all) = Len(old) + n
  BY <1>0, <1>4, <1>5, ConcatProperties
<1>8. \A i \in 1 .. Len(old) + n :
        all[i] = IF i <= Len(old) THEN old[i] ELSE new[i - Len(old)]
  BY <1>0, <1>4, <1>5, ConcatProperties
<1>9. Len(all) \in Nat /\ DOMAIN all = 1 .. Len(all) /\ Len(old) <= Len(all)
  BY <1>1, <1>6, <1>7
<1>10. \A r \in 1 .. Len(old) : all[r] = old[r]
  BY <1>1, <1>6, <1>8
<1>11. \A r \in 1 .. Len(all) : r > Len(old) => all[r] \in S
  <2> SUFFICES ASSUME NEW r \in 1 .. Len(all), r > Len(old)
               PROVE  all[r] \in S
    OBVIOUS
  <2>1. r - Len(old) \in 1 .. n /\ ~(r <= Len(old)) /\ r \in 1 .. Len(old) + n
    BY <1>1, <1>6, <1>7
  <2>2. QED
    BY <1>2, <1>8, <2>1
<1>12. ASSUME NEW e \in S PROVE \E r \in 1 .. Len(all) : all[r] = e
  <2>1. PICK i \in 1 .. n : new[i] = e
    BY <1>2
  <2> DEFINE k == Len(old) + i
  <2>2. k \in 1 .. Len(old) + n /\ ~(k <= Len(old)) /\ k - Len(old) = i
    BY <1>1, <1>6
  <2> HIDE DEF k
  <2>3. all[k] = e
    BY <1>8, <2>1, <2>2
  <2>4. QED
    BY <1>7, <2>2, <2>3
<1>13. Grown(old, all, S)
  BY <1>6, <1>7, <1>9, <1>10, <1>11, <1>12 DEF Grown
<1>14. QED
  BY <1>0, <1>13

-----------------------------------------------------------------------------
(* The inductive invariant.                                                *)

DataInv ==
  /\ chain \in Chains /\ ingested \in 0 .. Len(chain)
  /\ accounts \in Seq(Accounts)
  /\ tables \in [KindSet -> Seq(Nat)]
  /\ \A kind \in KindSet : \A e \in Stored(kind) :
       e \in 1 .. ingested /\ chain[e].kind = kind /\ ~Unparsable(e)
  /\ \A kind \in KindSet : \A e \in Stored(kind) : \A d \in 1 .. e :
       chain[d].kind = kind => Unparsable(d) \/ \E c \in Stored(kind) : Alike(c, d)

\* Notes of the accounts, each with its nullifier once that has been passed.
NotesFit(ns) ==
  /\ ns \in [DOMAIN ns -> [account : Accounts, nullifier : Nat]]
  /\ \A e \in DOMAIN ns :
       /\ e \in 1 .. ingested /\ chain[e].kind = "commitment" /\ chain[e].who = ns[e].account
       /\ ns[e].nullifier # 0 =>
            ns[e].nullifier \in Stored("nullifier") /\ chain[ns[e].nullifier].of = e
       /\ ns[e].nullifier = 0 =>
            \A r \in Rows("nullifier") :
              chain[tables["nullifier"][r]].of = e => r > nullMark[chain[e].pool]

\* What a pool's marks have passed is kept where it was a note.
MarkFits(p, mark, ns) ==
  /\ mark \in [Accounts -> Nat]
  /\ \A a \in Accounts : mark[a] <= Len(tables["commitment"])
  /\ \A r \in Rows("commitment"), a \in Accounts :
       chain[tables["commitment"][r]].pool = p /\ r <= mark[a] /\ chain[tables["commitment"][r]].who = a =>
         tables["commitment"][r] \in DOMAIN ns

NotesInv ==
  /\ NotesFit(notes)
  /\ nullMark \in [Pools -> Nat] /\ \A p \in Pools : nullMark[p] <= Len(tables["nullifier"])
  /\ scanMark \in [Pools -> [Accounts -> Nat]]
  /\ \A p \in Pools : MarkFits(p, scanMark[p], notes)

\* The transaction that scans a pool.
TurnInv ==
  phase = "turns" =>
    /\ scan.pool \in Pools /\ scan.quota \in Nat
    /\ NotesFit(scan.notes) /\ MarkFits(scan.pool, scan.mark, scan.notes)
    /\ DOMAIN notes \subseteq DOMAIN scan.notes
    /\ scan.worked \/ (scan.quota # 0 /\ scan.mark = scanMark[scan.pool])

\* Nothing unprocessed is passed over by a batch.
BatchInv ==
  /\ phase \in {"idle", "yield", "scan", "turns", "reconcile"} \union KindSet
  /\ todo \subseteq Pools /\ batch \subseteq 1 .. ingested
  /\ phase \in KindSet => \A e \in batch : \A d \in 1 .. e : d \in Processed \/ d \in batch
  /\ phase \in {"scan", "turns"} => todo \subseteq ScanPools

\* Work that is left: events, commitments and nullifiers.
AllStored == \A e \in 1 .. ingested : e \in Processed
ScannedBut(left) ==
  \A r \in Rows("commitment"), i \in DOMAIN accounts :
    LET p == chain[tables["commitment"][r]].pool
    IN p \in left \/ r <= scanMark[p][accounts[i]]
ReconciledBut(left) ==
  \A r \in Rows("nullifier") :
    LET p == chain[tables["nullifier"][r]].pool IN p \in left \/ r <= nullMark[p]

\* An iteration that has found nothing to do so far leaves nothing behind it,
\* and the processor goes to sleep after such an iteration only.
WorkInv ==
  /\ phase \in KindSet => didWork
  /\ phase \in {"scan", "turns", "reconcile"} => didWork \/ AllStored
  /\ phase = "scan" => didWork \/ ScannedBut(todo)
  /\ phase = "turns" => didWork \/ ScannedBut(todo \union {scan.pool})
  /\ phase = "reconcile" => didWork \/ (ScannedBut({}) /\ ReconciledBut(todo))
  /\ phase = "idle" => kicked \/ failed \/ (AllStored /\ ScannedBut({}) /\ ReconciledBut({}))

WalletInv == DataInv /\ NotesInv /\ TurnInv /\ BatchInv /\ WorkInv

LEMMA KindsAre ==
  /\ KindSet = {"nullifier", "commitment", "key", "leaf"}
  /\ DOMAIN Kinds = 1 .. 4 /\ Len(Kinds) = 4
  /\ Kinds[1] = "nullifier" /\ Kinds[2] = "commitment" /\ Kinds[3] = "key" /\ Kinds[4] = "leaf"
<1>1. DOMAIN Kinds = 1 .. 4 /\ Len(Kinds) = 4
  BY DEF Kinds
<1>2. Kinds[1] = "nullifier" /\ Kinds[2] = "commitment" /\ Kinds[3] = "key" /\ Kinds[4] = "leaf"
  BY DEF Kinds
<1>3. 1 .. 4 = {1, 2, 3, 4}
  OBVIOUS
<1>4. QED
  BY <1>1, <1>2, <1>3 DEF KindSet

\* The log and the tables' events.
LEMMA DataFacts ==
  ASSUME DataInv
  PROVE  /\ Len(chain) \in Nat /\ ingested \in Nat /\ ingested <= Len(chain)
         /\ \A kind \in KindSet :
              /\ tables[kind] \in Seq(Nat) /\ Len(tables[kind]) \in Nat
              /\ Rows(kind) = 1 .. Len(tables[kind])
              /\ \A r \in Rows(kind) :
                   /\ tables[kind][r] \in Stored(kind) /\ tables[kind][r] \in 1 .. ingested
                   /\ chain[tables[kind][r]].kind = kind
         /\ \A e \in 1 .. ingested :
              /\ chain[e].kind \in KindSet
              /\ chain[e].kind \in {"nullifier", "commitment"} => chain[e].pool \in Pools
              /\ chain[e].kind = "nullifier" => chain[e].of \in Nat
              /\ chain[e].kind = "nullifier" /\ chain[e].of # 0 =>
                   chain[e].of \in 1 .. ingested /\ chain[chain[e].of].pool = chain[e].pool
<1>1. chain \in Chains /\ ingested \in 0 .. Len(chain)
  BY DEF DataInv
<1>2. Len(chain) \in Nat /\ DOMAIN chain = 1 .. Len(chain)
  BY <1>1, ChainAssumption
<1>3. ingested \in Nat /\ ingested <= Len(chain)
  BY <1>1, <1>2
<1>4. ASSUME NEW kind \in KindSet
      PROVE  /\ tables[kind] \in Seq(Nat) /\ Len(tables[kind]) \in Nat
             /\ Rows(kind) = 1 .. Len(tables[kind])
             /\ \A r \in Rows(kind) :
                  /\ tables[kind][r] \in Stored(kind) /\ tables[kind][r] \in 1 .. ingested
                  /\ chain[tables[kind][r]].kind = kind
  <2>1. tables[kind] \in Seq(Nat)
    BY DEF DataInv
  <2>2. Len(tables[kind]) \in Nat /\ Rows(kind) = 1 .. Len(tables[kind])
    BY <2>1 DEF Rows
  <2>3. \A r \in Rows(kind) : tables[kind][r] \in Stored(kind)
    BY DEF Stored
  <2>4. QED
    BY <2>1, <2>2, <2>3 DEF DataInv
<1>5. ASSUME NEW e \in 1 .. ingested
      PROVE  /\ chain[e].kind \in KindSet
             /\ chain[e].kind \in {"nullifier", "commitment"} => chain[e].pool \in Pools
             /\ chain[e].kind = "nullifier" => chain[e].of \in Nat
             /\ chain[e].kind = "nullifier" /\ chain[e].of # 0 =>
                  chain[e].of \in 1 .. ingested /\ chain[chain[e].of].pool = chain[e].pool
  <2>1. e \in DOMAIN chain
    BY <1>2, <1>3
  <2>2. /\ chain[e].kind \in KindSet
        /\ chain[e].kind \in {"nullifier", "commitment"} => chain[e].pool \in Pools
        /\ chain[e].kind = "nullifier" => chain[e].of \in Nat
        /\ chain[e].kind = "nullifier" /\ chain[e].of # 0 =>
             chain[e].of < e /\ chain[chain[e].of].pool = chain[e].pool
    BY <1>1, <2>1, ChainAssumption
  <2>3. chain[e].of \in Nat /\ chain[e].of # 0 /\ chain[e].of < e => chain[e].of \in 1 .. ingested
    BY <1>3
  <2>4. QED
    BY <2>2, <2>3
<1>6. QED
  BY <1>2, <1>3, <1>4, <1>5

LEMMA WalletInit ==
  ASSUME Init
  PROVE  WalletInv
<1>1. /\ chain \in Chains /\ ingested = 0 /\ accounts = <<>> /\ notes = [e \in {} |-> [account |-> "", nullifier |-> 0]]
      /\ tables = [kind \in KindSet |-> <<>>]
      /\ scanMark = [p \in Pools |-> [a \in Accounts |-> 0]] /\ nullMark = [p \in Pools |-> 0]
      /\ phase = "idle" /\ batch = {} /\ todo = {} /\ kicked = TRUE
  BY DEF Init
<1>2. Len(chain) \in Nat
  BY <1>1, ChainAssumption
<1>3. \A kind \in KindSet : tables[kind] = <<>> /\ Rows(kind) = {} /\ Stored(kind) = {}
  BY <1>1 DEF Rows, Stored
<1>4. <<>> \in Seq(Nat) /\ Len(<<>>) = 0 /\ <<>> \in Seq(Accounts)
  OBVIOUS
<1>5. DataInv
  <2>1. tables \in [KindSet -> Seq(Nat)]
    BY <1>1, <1>4
  <2>2. QED
    BY <1>1, <1>2, <1>3, <1>4, <2>1 DEF DataInv
<1>6. NotesInv
  <2>1. DOMAIN notes = {} /\ notes \in [DOMAIN notes -> [account : Accounts, nullifier : Nat]]
    BY <1>1
  <2>2. NotesFit(notes)
    BY <2>1 DEF NotesFit
  <2>3. Len(tables["commitment"]) = 0 /\ Len(tables["nullifier"]) = 0 /\ Rows("commitment") = {}
    BY <1>3, <1>4, KindsAre
  <2>4. \A p \in Pools : MarkFits(p, scanMark[p], notes)
    BY <1>1, <2>3 DEF MarkFits
  <2>5. QED
    BY <1>1, <2>2, <2>3, <2>4 DEF NotesInv
<1>7. TurnInv
  BY <1>1 DEF TurnInv
<1>8. BatchInv
  BY <1>1, KindsAre DEF BatchInv
<1>9. WorkInv
  BY <1>1, KindsAre DEF WorkInv
<1>10. QED
  BY <1>5, <1>6, <1>7, <1>8, <1>9 DEF WalletInv

-----------------------------------------------------------------------------
(* What leaves the tables alone.                                           *)

LEMMA DataKept ==
  ASSUME DataInv, UNCHANGED <<chain, ingested, tables>>, accounts' \in Seq(Accounts)
  PROVE  DataInv'
<1>1. /\ \A kind : Stored(kind)' = Stored(kind)
      /\ chain' = chain /\ ingested' = ingested /\ tables' = tables
  BY DEF Stored, Rows
<1>2. \A d, e : (Unparsable(e)' <=> Unparsable(e)) /\ (Alike(d, e)' <=> Alike(d, e))
  BY <1>1 DEF Unparsable, Alike
<1>3. QED
  BY <1>1, <1>2 DEF DataInv

LEMMA NotesKept ==
  ASSUME NotesInv, UNCHANGED <<chain, ingested, db>>
  PROVE  NotesInv'
BY DEF NotesInv, NotesFit, MarkFits, Stored, Rows, db

-----------------------------------------------------------------------------
(* Requests.                                                               *)

LEMMA SaveEventsStep ==
  ASSUME WalletInv, SaveEvents
  PROVE  WalletInv'
<1>1. /\ chain' = chain /\ accounts' = accounts /\ tables' = tables /\ notes' = notes
      /\ scanMark' = scanMark /\ nullMark' = nullMark
      /\ phase' = phase /\ batch' = batch /\ todo' = todo /\ kicked' = TRUE
      /\ phase \in {"idle", "yield"}
  BY DEF SaveEvents, Awaiting, db, processor
<1>2. ingested \in Nat /\ ingested' \in Nat /\ ingested <= ingested' /\ ingested' <= Len(chain)
      /\ Len(chain) \in Nat
  <2>1. Len(chain) \in Nat /\ ingested \in Nat /\ ingested <= Len(chain)
    BY DataFacts DEF WalletInv
  <2>2. PICK n \in 0 .. Lesser(PageSize, Len(chain) - ingested) : ingested' = ingested + n
    BY DEF SaveEvents
  <2>3. n \in Nat /\ n <= Len(chain) - ingested
    BY <2>1, <2>2, LimitAssumption DEF Lesser
  <2>4. QED
    BY <2>1, <2>2, <2>3
<1>3. \A e \in 1 .. ingested : e \in 1 .. ingested'
  BY <1>2
<1>4. DataInv'
  <2>1. chain' \in Chains /\ ingested' \in 0 .. Len(chain') /\ accounts' \in Seq(Accounts)
        /\ tables' \in [KindSet -> Seq(Nat)]
    BY <1>1, <1>2 DEF WalletInv, DataInv
  <2>2. \A kind \in KindSet : \A e \in Stored(kind) :
          e \in 1 .. ingested' /\ chain[e].kind = kind /\ ~Unparsable(e)
    BY <1>3 DEF WalletInv, DataInv
  <2>3. \A kind \in KindSet : \A e \in Stored(kind) : \A d \in 1 .. e :
          chain[d].kind = kind => Unparsable(d) \/ \E c \in Stored(kind) : Alike(c, d)
    BY DEF WalletInv, DataInv
  <2>4. \A kind \in KindSet : Stored(kind)' = Stored(kind)
    BY <1>1 DEF Stored, Rows
  <2>5. \A d, e : (Unparsable(e)' <=> Unparsable(e)) /\ (Alike(d, e)' <=> Alike(d, e))
    BY <1>1 DEF Unparsable, Alike
  <2>6. \A kind \in KindSet : \A e \in Stored(kind)' :
          e \in 1 .. ingested' /\ chain'[e].kind = kind /\ ~Unparsable(e)'
    BY <1>1, <1>2, <2>2, <2>4, <2>5
  <2>7. \A kind \in KindSet : \A e \in Stored(kind)' : \A d \in 1 .. e :
          chain'[d].kind = kind => Unparsable(d)' \/ \E c \in Stored(kind)' : Alike(c, d)'
    BY <1>1, <1>2, <2>2, <2>3, <2>4, <2>5
  <2>8. QED
    BY <2>1, <2>6, <2>7 DEF DataInv
<1>5. NotesInv'
  <2>1. NotesFit(notes)'
    BY <1>1, <1>3 DEF WalletInv, NotesInv, NotesFit, Stored, Rows
  <2>2. QED
    BY <1>1, <2>1 DEF WalletInv, NotesInv, MarkFits, Rows
<1>6. TurnInv'
  BY <1>1 DEF TurnInv
<1>7. BatchInv'
  BY <1>1, <1>3, KindsAre DEF WalletInv, BatchInv
<1>8. WorkInv'
  BY <1>1, KindsAre DEF WorkInv
<1>9. QED
  BY <1>4, <1>5, <1>6, <1>7, <1>8 DEF WalletInv

LEMMA DeriveStep ==
  ASSUME WalletInv, DeriveSaveUserKeys
  PROVE  WalletInv'
<1>1. /\ UNCHANGED <<chain, ingested, db>> /\ tables' = tables
      /\ phase' = phase /\ batch' = batch /\ todo' = todo /\ kicked' = TRUE
      /\ phase \in {"idle", "yield"}
  BY DEF DeriveSaveUserKeys, Awaiting, db, processor
<1>2. accounts' \in Seq(Accounts)
  <2>1. accounts \in Seq(Accounts)
    BY DEF WalletInv, DataInv
  <2>2. QED
    BY <2>1 DEF DeriveSaveUserKeys
<1>3. DataInv' /\ NotesInv'
  BY <1>1, <1>2, DataKept, NotesKept DEF WalletInv
<1>4. TurnInv'
  BY <1>1 DEF TurnInv
<1>5. BatchInv'
  BY <1>1, KindsAre DEF WalletInv, BatchInv
<1>6. WorkInv'
  BY <1>1, KindsAre DEF WorkInv
<1>7. QED
  BY <1>3, <1>4, <1>5, <1>6 DEF WalletInv

-----------------------------------------------------------------------------
(* Events to tables.                                                       *)

LEMMA RowPools ==
  ASSUME DataInv
  PROVE  /\ \A r \in Rows("commitment") : chain[tables["commitment"][r]].pool \in PoolsIn("commitment")
         /\ \A r \in Rows("nullifier") : chain[tables["nullifier"][r]].pool \in PoolsIn("nullifier")
         /\ ScanPools \subseteq Pools /\ PoolsIn("nullifier") \subseteq Pools
<1>1. \A kind \in {"nullifier", "commitment"} : \A r \in Rows(kind) :
        /\ chain[tables[kind][r]].pool \in Pools
        /\ tables[kind][r] \in Stored(kind)
  BY DataFacts, KindsAre
<1>2. QED
  BY <1>1 DEF PoolsIn, ScanPools

\* At the start of the scan nothing is behind it.
LEMMA ScanStarts ==
  ASSUME DataInv
  PROVE  ScannedBut(ScanPools)
<1>1. CASE accounts = <<>>
  <2>1. DOMAIN accounts = {}
    BY <1>1
  <2>2. QED
    BY <2>1 DEF ScannedBut
<1>2. CASE accounts # <<>>
  BY <1>2, RowPools DEF ScannedBut, ScanPools
<1>3. QED
  BY <1>1, <1>2

LEMMA BatchFits ==
  ASSUME DataInv, NEW events \in Unprocessed
  PROVE  /\ events \subseteq 1 .. ingested
         /\ \A e \in events : \A d \in 1 .. e : d \in Processed \/ d \in events
         /\ events = {} => AllStored
<1>1. ingested \in Nat /\ Left \subseteq 1 .. ingested
  BY DataFacts DEF Left
<1>2. /\ events \subseteq Left
      /\ events = {} => Left = {}
      /\ \A e \in events, d \in Left : d < e => d \in events
  BY <1>1, FirstsAre, LimitAssumption DEF Unprocessed
<1>3. ASSUME NEW e \in events, NEW d \in 1 .. e PROVE d \in Processed \/ d \in events
  <2>1. d \in 1 .. ingested /\ (d < e \/ d = e)
    BY <1>1, <1>2
  <2>2. QED
    BY <1>2, <2>1 DEF Left
<1>4. QED
  BY <1>1, <1>2, <1>3 DEF Left, AllStored

LEMMA ReadBatchStep ==
  ASSUME WalletInv, ReadBatch
  PROVE  WalletInv'
<1>1. /\ UNCHANGED <<chain, ingested, db>> /\ accounts' = accounts /\ scan' = scan
      /\ tables' = tables /\ scanMark' = scanMark /\ nullMark' = nullMark /\ notes' = notes
      /\ batch' \in Unprocessed /\ didWork' = (batch' # {})
      /\ phase' = IF batch' # {} THEN Kinds[1] ELSE "scan"
      /\ todo' = IF batch' # {} THEN todo ELSE ScanPools
  BY DEF ReadBatch, db
<1>2. accounts \in Seq(Accounts)
  BY DEF WalletInv, DataInv
<1>3. DataInv' /\ NotesInv'
  BY <1>1, <1>2, DataKept, NotesKept DEF WalletInv
<1>4. TurnInv'
  BY <1>1, KindsAre DEF TurnInv
<1>5. /\ batch' \subseteq 1 .. ingested
      /\ \A e \in batch' : \A d \in 1 .. e : d \in Processed \/ d \in batch'
      /\ batch' = {} => AllStored
  BY <1>1, BatchFits DEF WalletInv
<1>6. Processed' = Processed
  BY <1>1 DEF Processed, Stored, Rows
<1>7. BatchInv'
  <2>1. ScanPools' = ScanPools
    BY <1>1 DEF ScanPools, PoolsIn, Stored, Rows
  <2>2. QED
    BY <1>1, <1>5, <1>6, <2>1, KindsAre, RowPools DEF WalletInv, BatchInv
<1>8. WorkInv'
  <2>1. CASE batch' # {}
    BY <1>1, <2>1, KindsAre DEF WorkInv
  <2>2. CASE batch' = {}
    <3>1. AllStored'
      BY <1>1, <1>5, <1>6, <2>2 DEF AllStored
    <3>2. ScannedBut(ScanPools)
      BY ScanStarts DEF WalletInv
    <3>3. ScannedBut(todo)'
      BY <1>1, <2>2, <3>2 DEF ScannedBut, Rows
    <3>4. phase' = "scan"
      BY <1>1, <2>2
    <3>5. QED
      BY <3>1, <3>3, <3>4, KindsAre DEF WorkInv
  <2>3. QED
    BY <2>1, <2>2
<1>9. QED
  BY <1>3, <1>4, <1>7, <1>8 DEF WalletInv

\* Of the batch's events with one value the latest gets the row, if there is
\* none yet.
LEMMA LatestGetsRow ==
  ASSUME DataInv, BatchInv, NEW e \in batch, ~Unparsable(e)
  PROVE  \/ \E c \in Stored(chain[e].kind) : Alike(c, e)
         \/ \E c \in NewRows(chain[e].kind) : Alike(c, e)
<1> DEFINE B == {b \in batch : Alike(b, e)}
<1>1. ingested \in Nat /\ batch \subseteq 1 .. ingested /\ 1 .. ingested \subseteq DOMAIN chain
  <2>1. Len(chain) \in Nat /\ DOMAIN chain = 1 .. Len(chain)
    BY ChainAssumption DEF DataInv
  <2>2. ingested \in Nat /\ ingested <= Len(chain)
    BY DataFacts
  <2>3. QED
    BY <2>1, <2>2 DEF BatchInv
<1>2. e \in B
  BY DEF Alike
<1>3. B \subseteq 1 .. ingested /\ B # {} /\ \A b \in batch : Alike(b, e) => b \in B
  BY <1>1, <1>2
<1>4. \A b \in B : b \in batch /\ Alike(b, e)
  OBVIOUS
<1> HIDE DEF B
<1>5. Largest(B) \in B /\ \A b \in B : b <= Largest(B)
  BY <1>1, <1>3, LargestIs
<1> DEFINE m == Largest(B)
<1> HIDE DEF m
<1>6. m \in batch /\ Alike(m, e) /\ \A b \in B : b <= m
  BY <1>4, <1>5 DEF m
<1>7. chain[m].ok = chain[e].ok
  <2>1. chain[m].ok = chain[chain[m].first].ok /\ chain[e].ok = chain[chain[e].first].ok
    BY <1>1, <1>6, ChainAssumption DEF DataInv
  <2>2. QED
    BY <1>6, <2>1 DEF Alike
<1>8. chain[m].kind = chain[e].kind /\ ~Unparsable(m)
  BY <1>6, <1>7 DEF Alike, Unparsable
<1>9. \A b \in batch : Alike(b, m) => b <= m
  BY <1>3, <1>6 DEF Alike
<1>10. (\A d \in Stored(chain[e].kind) : ~Alike(d, m)) => m \in NewRows(chain[e].kind)
  BY <1>6, <1>8, <1>9 DEF NewRows
<1>11. \A d : Alike(d, m) => Alike(d, e)
  BY <1>6 DEF Alike
<1>12. QED
  BY <1>6, <1>10, <1>11

\* A table with some of the batch's events behind the rows it had.
LEMMA SaveTableRows ==
  ASSUME DataInv, BatchInv, NEW i \in DOMAIN Kinds, SaveTable(i)
  PROVE  /\ tables' \in [KindSet -> Seq(Nat)]
         /\ \A kind \in KindSet :
              /\ Len(tables[kind]) <= Len(tables'[kind])
              /\ \A r \in Rows(kind) : r \in Rows(kind)' /\ tables'[kind][r] = tables[kind][r]
              /\ \A r \in Rows(kind)' :
                   \/ r \in Rows(kind)
                   \/ /\ r > Len(tables[kind]) /\ r \in Nat /\ kind = Kinds[i]
                      /\ tables'[kind][r] \in batch
                      /\ chain[tables'[kind][r]].kind = kind /\ ~Unparsable(tables'[kind][r])
         /\ \A e \in batch : chain[e].kind = Kinds[i] /\ ~Unparsable(e) =>
              \E c \in Stored(Kinds[i])' : Alike(c, e)
<1> DEFINE K == Kinds[i]
           S == NewRows(Kinds[i])
<1>1. PICK new \in Descending(S) : tables' = [tables EXCEPT ![K] = @ \o new]
  BY DEF SaveTable
<1>2. K \in KindSet
  BY DEF KindSet
<1>3. ingested \in Nat /\ S \subseteq 1 .. ingested
  BY DataFacts DEF BatchInv, NewRows
<1>4. tables \in [KindSet -> Seq(Nat)]
  BY DEF DataInv
<1>5. \A e \in S : e \in batch /\ chain[e].kind = K /\ ~Unparsable(e)
  BY DEF NewRows
<1>6. ASSUME NEW e \in batch, chain[e].kind = K, ~Unparsable(e)
      PROVE  \/ \E c \in Stored(K) : Alike(c, e)
             \/ \E c \in S : Alike(c, e)
  BY <1>6, LatestGetsRow DEF NewRows
<1>7. Kinds[i] = K
  OBVIOUS
<1> HIDE DEF K, S
<1> DEFINE all == tables[K] \o new
<1>8. tables[K] \in Seq(Nat)
  BY <1>2, <1>4
<1>9. /\ all \in Seq(Nat)
      /\ Len(tables[K]) \in Nat /\ DOMAIN tables[K] = 1 .. Len(tables[K])
      /\ Len(all) \in Nat /\ DOMAIN all = 1 .. Len(all) /\ Len(tables[K]) <= Len(all)
      /\ \A r \in 1 .. Len(tables[K]) : all[r] = tables[K][r]
      /\ \A r \in 1 .. Len(all) : r > Len(tables[K]) => all[r] \in S
      /\ \A e \in S : \E r \in 1 .. Len(all) : all[r] = e
  <2>1. Grown(tables[K], all, S)
    BY <1>3, <1>8, TableGrows
  <2>2. QED
    BY <2>1 DEF Grown
<1>10. tables' = [tables EXCEPT ![K] = all]
  BY <1>1
<1> HIDE DEF all
<1>11. /\ tables' \in [KindSet -> Seq(Nat)] /\ tables'[K] = all
       /\ \A kind \in KindSet : kind # K => tables'[kind] = tables[kind]
  BY <1>2, <1>4, <1>9, <1>10
<1>12. ASSUME NEW kind \in KindSet
       PROVE  /\ Len(tables[kind]) <= Len(tables'[kind])
              /\ \A r \in Rows(kind) : r \in Rows(kind)' /\ tables'[kind][r] = tables[kind][r]
              /\ \A r \in Rows(kind)' :
                   \/ r \in Rows(kind)
                   \/ /\ r > Len(tables[kind]) /\ r \in Nat /\ kind = K
                      /\ tables'[kind][r] \in batch
                      /\ chain[tables'[kind][r]].kind = kind /\ ~Unparsable(tables'[kind][r])
  <2>1. CASE kind # K
    <3>1. tables'[kind] = tables[kind] /\ Len(tables[kind]) \in Nat
      BY <1>4, <1>11, <2>1
    <3>2. QED
      BY <3>1 DEF Rows
  <2>2. CASE kind = K
    <3>1. Rows(kind) = 1 .. Len(tables[K]) /\ Rows(kind)' = 1 .. Len(all)
      BY <1>9, <1>11, <2>2 DEF Rows
    <3>2. \A r \in Rows(kind) : r \in Rows(kind)' /\ tables'[kind][r] = tables[kind][r]
      BY <1>9, <1>11, <2>2, <3>1
    <3>3. ASSUME NEW r \in Rows(kind)', r \notin Rows(kind)
          PROVE  /\ r > Len(tables[kind]) /\ r \in Nat /\ kind = K
                 /\ tables'[kind][r] \in S
      BY <1>9, <1>11, <2>2, <3>1, <3>3
    <3>4. QED
      BY <1>5, <1>9, <1>11, <2>2, <3>2, <3>3
  <2>3. QED
    BY <2>1, <2>2
<1>13. ASSUME NEW e \in batch, chain[e].kind = K, ~Unparsable(e)
       PROVE  \E c \in Stored(K)' : Alike(c, e)
  <2>1. CASE \E c \in Stored(K) : Alike(c, e)
    <3>1. PICK r \in Rows(K) : Alike(tables[K][r], e)
      BY <2>1 DEF Stored
    <3>2. r \in Rows(K)' /\ tables'[K][r] = tables[K][r]
      BY <1>2, <1>12, <3>1
    <3>3. tables'[K][r] \in Stored(K)'
      BY <3>2 DEF Stored
    <3>4. QED
      BY <3>1, <3>2, <3>3
  <2>2. CASE \E c \in S : Alike(c, e)
    <3>1. PICK c \in S : Alike(c, e)
      BY <2>2
    <3>2. PICK r \in 1 .. Len(all) : all[r] = c
      BY <1>9, <3>1
    <3>3. r \in DOMAIN tables'[K] /\ tables'[K][r] = c
      BY <1>9, <1>11, <3>2
    <3>4. c \in Stored(K)'
      BY <3>3 DEF Stored, Rows
    <3>5. QED
      BY <3>1, <3>4
  <2>3. QED
    BY <1>6, <1>13, <2>1, <2>2
<1>14. QED
  BY <1>7, <1>11, <1>12, <1>13

LEMMA SaveTableStep ==
  ASSUME WalletInv, NEW i \in DOMAIN Kinds, SaveTable(i)
  PROVE  WalletInv'
<1>1. /\ UNCHANGED <<chain, ingested, accounts, scanMark, nullMark, notes, scan>>
      /\ didWork' = didWork
      /\ phase = Kinds[i] /\ phase' = IF i < 4 THEN Kinds[i + 1] ELSE "scan"
      /\ batch' = IF i < 4 THEN batch ELSE {}
      /\ todo' = IF i < 4 THEN todo ELSE ScanPools
  BY KindsAre DEF SaveTable
<1>2. Kinds[i] \in KindSet /\ i \in 1 .. 4 /\ (i < 4 => Kinds[i + 1] \in KindSet)
  <2>1. i \in 1 .. 4 /\ (i < 4 => i + 1 \in 1 .. 4)
    BY KindsAre
  <2>2. QED
    BY <2>1, KindsAre DEF KindSet
<1>3. /\ tables' \in [KindSet -> Seq(Nat)]
      /\ \A kind \in KindSet :
           /\ Len(tables[kind]) <= Len(tables'[kind])
           /\ \A r \in Rows(kind) : r \in Rows(kind)' /\ tables'[kind][r] = tables[kind][r]
           /\ \A r \in Rows(kind)' :
                \/ r \in Rows(kind)
                \/ /\ r > Len(tables[kind]) /\ r \in Nat /\ kind = Kinds[i]
                   /\ tables'[kind][r] \in batch
                   /\ chain[tables'[kind][r]].kind = kind /\ ~Unparsable(tables'[kind][r])
      /\ \A e \in batch : chain[e].kind = Kinds[i] /\ ~Unparsable(e) =>
           \E c \in Stored(Kinds[i])' : Alike(c, e)
  BY SaveTableRows DEF WalletInv
<1>4. \A kind \in KindSet : \A e \in Stored(kind) : e \in Stored(kind)'
  BY <1>3 DEF Stored
<1>5. ASSUME NEW kind \in KindSet, NEW e \in Stored(kind)'
      PROVE  \/ e \in Stored(kind)
             \/ kind = Kinds[i] /\ e \in batch /\ chain[e].kind = kind /\ ~Unparsable(e)
  <2>1. PICK r \in Rows(kind)' : e = tables'[kind][r]
    BY DEF Stored
  <2>2. CASE r \in Rows(kind)
    <3>1. e = tables[kind][r]
      BY <1>3, <2>1, <2>2
    <3>2. QED
      BY <2>2, <3>1 DEF Stored
  <2>3. CASE r \notin Rows(kind)
    BY <1>3, <2>1, <2>3
  <2>4. QED
    BY <2>2, <2>3
<1>6. batch \subseteq 1 .. ingested
      /\ \A e \in batch : \A d \in 1 .. e : d \in Processed \/ d \in batch
  BY <1>1, <1>2 DEF WalletInv, BatchInv
<1>7. DataInv'
  <2>1. chain' \in Chains /\ ingested' \in 0 .. Len(chain') /\ accounts' \in Seq(Accounts)
    BY <1>1 DEF WalletInv, DataInv
  <2>2. \A kind \in KindSet : \A e \in Stored(kind)' :
          e \in 1 .. ingested /\ chain[e].kind = kind /\ ~Unparsable(e)
    BY <1>5, <1>6 DEF WalletInv, DataInv
  <2>3. ASSUME NEW kind \in KindSet, NEW e \in Stored(kind)', NEW d \in 1 .. e,
               chain[d].kind = kind, ~Unparsable(d)
        PROVE  \E c \in Stored(kind)' : Alike(c, d)
    <3>1. CASE e \in Stored(kind)
      <4>1. \E c \in Stored(kind) : Alike(c, d)
        BY <2>3, <3>1 DEF WalletInv, DataInv
      <4>2. QED
        BY <1>4, <4>1
    <3>2. CASE e \notin Stored(kind)
      <4>1. kind = Kinds[i] /\ e \in batch
        BY <1>5, <3>2
      <4>2. CASE d \in batch
        BY <1>3, <2>3, <4>1, <4>2
      <4>3. CASE d \in Processed
        <5>1. PICK other \in KindSet : d \in Stored(other)
          BY <4>3 DEF Processed
        <5>2. other = kind
          BY <2>3, <5>1 DEF WalletInv, DataInv
        <5>3. Alike(d, d)
          BY DEF Alike
        <5>4. QED
          BY <1>4, <5>1, <5>2, <5>3
      <4>4. QED
        BY <1>6, <4>1, <4>2, <4>3
    <3>3. QED
      BY <3>1, <3>2
  <2>4. chain' = chain /\ ingested' = ingested
    BY <1>1
  <2>5. \A d, e : (Unparsable(e)' <=> Unparsable(e)) /\ (Alike(d, e)' <=> Alike(d, e))
    BY <2>4 DEF Unparsable, Alike
  <2>6. QED
    BY <1>3, <2>1, <2>2, <2>3, <2>4, <2>5 DEF DataInv
<1>8. NotesInv'
  <2>1. \A p \in Pools : nullMark[p] \in Nat /\ nullMark[p] <= Len(tables["nullifier"])
    BY DEF WalletInv, NotesInv
  <2>2. "nullifier" \in KindSet /\ "commitment" \in KindSet
    BY KindsAre
  <2>3. /\ Len(tables["nullifier"]) \in Nat /\ Len(tables'["nullifier"]) \in Nat
        /\ Len(tables["commitment"]) \in Nat /\ Len(tables'["commitment"]) \in Nat
    BY <1>3, <2>2 DEF WalletInv, DataInv
  <2>4. NotesFit(notes)'
    <3>1. notes \in [DOMAIN notes -> [account : Accounts, nullifier : Nat]]
      BY DEF WalletInv, NotesInv, NotesFit
    <3>2. ASSUME NEW e \in DOMAIN notes
          PROVE  /\ e \in 1 .. ingested /\ chain[e].kind = "commitment"
                 /\ chain[e].who = notes[e].account
                 /\ notes[e].nullifier # 0 =>
                      notes[e].nullifier \in Stored("nullifier")' /\ chain[notes[e].nullifier].of = e
                 /\ notes[e].nullifier = 0 =>
                      \A r \in Rows("nullifier")' :
                        chain[tables'["nullifier"][r]].of = e => r > nullMark[chain[e].pool]
      <4>1. e \in 1 .. ingested /\ chain[e].kind = "commitment" /\ chain[e].who = notes[e].account
        BY DEF WalletInv, NotesInv, NotesFit
      <4>2. chain[e].pool \in Pools
        BY <4>1, DataFacts DEF WalletInv
      <4>3. notes[e].nullifier # 0 =>
              notes[e].nullifier \in Stored("nullifier")' /\ chain[notes[e].nullifier].of = e
        BY <1>4, <2>2 DEF WalletInv, NotesInv, NotesFit
      <4>4. ASSUME notes[e].nullifier = 0, NEW r \in Rows("nullifier")',
                   chain[tables'["nullifier"][r]].of = e
            PROVE  r > nullMark[chain[e].pool]
        <5>1. CASE r \in Rows("nullifier")
          <6>1. chain[tables["nullifier"][r]].of = e
            BY <1>3, <2>2, <4>4, <5>1
          <6>2. QED
            BY <4>4, <5>1, <6>1 DEF WalletInv, NotesInv, NotesFit
        <5>2. CASE r \notin Rows("nullifier")
          <6>1. r > Len(tables["nullifier"]) /\ r \in Nat
            BY <1>3, <2>2, <5>2
          <6>2. QED
            BY <2>1, <2>3, <4>2, <6>1
        <5>3. QED
          BY <5>1, <5>2
      <4>5. QED
        BY <4>1, <4>3, <4>4
    <3>3. QED
      BY <1>1, <3>1, <3>2 DEF NotesFit
  <2>5. ASSUME NEW p \in Pools PROVE MarkFits(p, scanMark[p], notes)'
    <3>1. scanMark[p] \in [Accounts -> Nat]
          /\ \A a \in Accounts : scanMark[p][a] <= Len(tables["commitment"])
      BY DEF WalletInv, NotesInv, MarkFits
    <3>2. \A a \in Accounts : scanMark[p][a] <= Len(tables'["commitment"])
      BY <1>3, <2>2, <2>3, <3>1
    <3>3. ASSUME NEW r \in Rows("commitment")', NEW a \in Accounts,
                 chain[tables'["commitment"][r]].pool = p, r <= scanMark[p][a],
                 chain[tables'["commitment"][r]].who = a
          PROVE  tables'["commitment"][r] \in DOMAIN notes
      <4>1. r \in Rows("commitment")
        <5>1. SUFFICES ASSUME r \notin Rows("commitment") PROVE FALSE
          OBVIOUS
        <5>2. r > Len(tables["commitment"]) /\ r \in Nat
          BY <1>3, <2>2, <5>1
        <5>3. QED
          BY <2>3, <3>1, <3>3, <5>2
      <4>2. tables'["commitment"][r] = tables["commitment"][r]
        BY <1>3, <2>2, <4>1
      <4>3. QED
        BY <3>3, <4>1, <4>2 DEF WalletInv, NotesInv, MarkFits
    <3>4. QED
      BY <1>1, <3>1, <3>2, <3>3 DEF MarkFits
  <2>6. nullMark' \in [Pools -> Nat] /\ scanMark' \in [Pools -> [Accounts -> Nat]]
    BY <1>1 DEF WalletInv, NotesInv
  <2>7. \A p \in Pools : nullMark'[p] <= Len(tables'["nullifier"])
    BY <1>1, <1>3, <2>1, <2>2, <2>3
  <2>8. \A p \in Pools : MarkFits(p, scanMark[p], notes)'
    BY <2>5
  <2>9. QED
    BY <2>4, <2>6, <2>7, <2>8 DEF NotesInv
<1>9. TurnInv'
  BY <1>1, <1>2, KindsAre DEF TurnInv
<1>10. BatchInv'
  <2>1. \A d \in Processed : d \in Processed'
    BY <1>4 DEF Processed
  <2>2. todo' \subseteq Pools
    BY <1>1, RowPools DEF WalletInv, BatchInv
  <2>3. CASE i < 4
    BY <1>1, <1>2, <1>6, <2>1, <2>2, <2>3, KindsAre DEF BatchInv
  <2>4. CASE ~(i < 4)
    <3>1. Kinds[i] # "commitment"
      BY <1>2, <2>4, KindsAre
    <3>2. Stored("commitment")' = Stored("commitment")
      <4>1. "commitment" \in KindSet
        BY KindsAre
      <4>2. \A e \in Stored("commitment")' : e \in Stored("commitment")
        BY <1>5, <3>1, <4>1
      <4>3. \A e \in Stored("commitment") : e \in Stored("commitment")'
        BY <1>4, <4>1
      <4>4. QED
        BY <4>2, <4>3
    <3>3. ScanPools' = ScanPools
      BY <1>1, <3>2 DEF ScanPools, PoolsIn
    <3>4. phase' = "scan" /\ batch' = {} /\ todo' = ScanPools
      BY <1>1, <2>4
    <3>5. QED
      BY <2>2, <3>3, <3>4, KindsAre DEF BatchInv
  <2>5. QED
    BY <2>3, <2>4
<1>11. WorkInv'
  <2>1. didWork'
    BY <1>1, <1>2 DEF WalletInv, WorkInv
  <2>2. phase' \in KindSet \union {"scan"}
    BY <1>1, <1>2
  <2>3. QED
    BY <2>1, <2>2, KindsAre DEF WorkInv
<1>12. QED
  BY <1>7, <1>8, <1>9, <1>10, <1>11 DEF WalletInv

-----------------------------------------------------------------------------
(* Tables to notes.                                                        *)

LEMMA QuotaIsPositive ==
  ASSUME DataInv, NEW p \in Pools, todo \subseteq ScanPools, p \in todo
  PROVE  Quota \in Nat \ {0}
<1> DEFINE count == Cardinality(ScanPools)
           index == count - Cardinality(todo) + 1
           share == FetchLimit \div count
           rest == FetchLimit % count
<1>1. IsFiniteSet(ScanPools)
  BY RowPools, PoolsAssumption, FS_Subset
<1>2. count \in Nat /\ count # 0
  BY <1>1, FS_CardinalityType, FS_EmptySet
<1>3. FetchLimit \in Nat \ {0}
  BY LimitAssumption
<1>4. Quota = IF FetchLimit < count THEN 1 ELSE share + (IF index <= rest THEN 1 ELSE 0)
  BY DEF Quota
<1> HIDE DEF count, index
<1>5. share \in Nat
  BY <1>2, <1>3
<1>6. ~(FetchLimit < count) => share # 0
  BY <1>2, <1>3
<1> HIDE DEF share, rest
<1>7. QED
  BY <1>4, <1>5, <1>6

\* Notes and marks do not depend on what the processor does next.
LEMMA FitsKept ==
  ASSUME UNCHANGED <<chain, ingested, tables, nullMark>>,
         NEW p, NEW mark, NEW ns
  PROVE  /\ NotesFit(ns) => NotesFit(ns)'
         /\ MarkFits(p, mark, ns) => MarkFits(p, mark, ns)'
BY DEF NotesFit, MarkFits, Stored, Rows

LEMMA OpenPoolStep ==
  ASSUME WalletInv, NEW p \in Pools, OpenPool(p)
  PROVE  WalletInv'
<1>1. /\ UNCHANGED <<chain, ingested, db>> /\ accounts' = accounts
      /\ tables' = tables /\ scanMark' = scanMark /\ nullMark' = nullMark /\ notes' = notes
      /\ batch' = batch /\ didWork' = didWork
      /\ phase = "scan" /\ phase' = "turns" /\ p \in todo /\ todo' = todo \ {p}
      /\ scan' = [pool |-> p, quota |-> Quota, mark |-> scanMark[p], notes |-> notes,
                  next |-> 1, worked |-> FALSE]
  BY DEF OpenPool, IsNext, db
<1>2. accounts \in Seq(Accounts)
  BY DEF WalletInv, DataInv
<1>3. DataInv' /\ NotesInv'
  BY <1>1, <1>2, DataKept, NotesKept DEF WalletInv
<1>4. Quota \in Nat /\ Quota # 0
  BY <1>1, QuotaIsPositive DEF WalletInv, BatchInv
<1>5. /\ scan'.pool = p /\ scan'.quota = Quota /\ scan'.mark = scanMark[p] /\ scan'.notes = notes
  BY <1>1
<1>6. TurnInv'
  <2>1. NotesFit(notes) /\ MarkFits(p, scanMark[p], notes)
    BY DEF WalletInv, NotesInv
  <2>2. NotesFit(scan'.notes) /\ MarkFits(p, scan'.mark, scan'.notes)
    BY <1>5, <2>1
  <2>3. NotesFit(scan.notes)' /\ MarkFits(scan.pool, scan.mark, scan.notes)'
    BY <1>1, <1>5, <2>2 DEF NotesFit, MarkFits, Stored, Rows
  <2>4. DOMAIN notes' \subseteq DOMAIN scan'.notes /\ scan'.mark = scanMark'[scan'.pool]
    BY <1>1, <1>5
  <2>5. QED
    BY <1>4, <1>5, <2>3, <2>4 DEF TurnInv
<1>7. BatchInv'
  <2>1. ScanPools' = ScanPools
    BY <1>1 DEF ScanPools, PoolsIn, Stored, Rows
  <2>2. QED
    BY <1>1, <2>1, KindsAre DEF WalletInv, BatchInv
<1>8. WorkInv'
  <2>1. phase' \notin KindSet /\ phase' = "turns"
    BY <1>1, KindsAre
  <2>2. didWork \/ (AllStored /\ ScannedBut(todo))
    BY <1>1 DEF WalletInv, WorkInv
  <2>3. AllStored => AllStored'
    BY <1>1 DEF AllStored, Processed, Stored, Rows
  <2>4. ScannedBut(todo) => ScannedBut(todo \union {scan.pool})'
    BY <1>1, <1>5 DEF ScannedBut, Rows
  <2>5. QED
    BY <1>1, <2>1, <2>2, <2>3, <2>4 DEF WorkInv
<1>9. QED
  BY <1>3, <1>6, <1>7, <1>8 DEF WalletInv

LEMMA NullifierIs ==
  ASSUME DataInv, NEW e
  PROVE  /\ NullifierOf(e) \in Nat
         /\ NullifierOf(e) # 0 =>
              NullifierOf(e) \in Stored("nullifier") /\ chain[NullifierOf(e)].of = e
         /\ NullifierOf(e) = 0 =>
              \A r \in Rows("nullifier") : chain[tables["nullifier"][r]].of # e
<1>1. ASSUME NEW n \in Stored("nullifier") PROVE n \in Nat /\ n # 0
  <2>1. ingested \in Nat
    BY DataFacts
  <2>2. n \in 1 .. ingested
    BY KindsAre DEF DataInv
  <2>3. QED
    BY <2>1, <2>2
<1>2. CASE \E n \in Stored("nullifier") : chain[n].of = e
  <2>1. NullifierOf(e) = CHOOSE n \in Stored("nullifier") : chain[n].of = e
    BY <1>2 DEF NullifierOf
  <2>2. NullifierOf(e) \in Stored("nullifier") /\ chain[NullifierOf(e)].of = e
    BY <1>2, <2>1
  <2>3. QED
    BY <1>1, <2>2
<1>3. CASE ~\E n \in Stored("nullifier") : chain[n].of = e
  <2>1. NullifierOf(e) = 0
    BY <1>3 DEF NullifierOf
  <2>2. QED
    BY <1>3, <2>1 DEF Stored
<1>4. QED
  BY <1>2, <1>3

\* What an account's turn takes: rows behind its mark, none passed over.
LEMMA ChunkIs ==
  ASSUME WalletInv, phase = "turns", ~Done, NEW a \in Accounts, NEW taken \in Chunk(a)
  PROVE  /\ taken \subseteq Behind(a) /\ Cardinality(taken) \in Nat
         /\ Cardinality(taken) <= scan.quota
         /\ taken # {} =>
              /\ NewMark(taken) \in Behind(a)
              /\ \A r \in Behind(a) : r <= NewMark(taken) => r \in taken
<1>1. scan.quota \in Nat \ {0}
  BY DEF WalletInv, TurnInv, Done
<1>2. AccountChunk \in Nat \ {0}
  BY LimitAssumption
<1> DEFINE k == Lesser(scan.quota, AccountChunk)
           N == Len(tables["commitment"])
<1>3. k \in Nat \ {0} /\ k <= scan.quota
  BY <1>1, <1>2 DEF Lesser
<1>4. N \in Nat /\ Rows("commitment") = 1 .. N
  BY DataFacts, KindsAre DEF WalletInv
<1>5. Behind(a) \subseteq 1 .. N
  BY <1>4 DEF Behind
<1>6. taken \in Firsts(k, Behind(a))
  BY DEF Chunk
<1> HIDE DEF k, N
<1>7. /\ taken \subseteq Behind(a) /\ Cardinality(taken) \in Nat /\ Cardinality(taken) <= k
      /\ \A n \in taken, m \in Behind(a) : m < n => m \in taken
  BY <1>3, <1>4, <1>5, <1>6, FirstsAre
<1>8. ASSUME taken # {}
      PROVE  /\ NewMark(taken) \in Behind(a)
             /\ \A r \in Behind(a) : r <= NewMark(taken) => r \in taken
  <2>1. Largest(taken) \in taken
    BY <1>4, <1>5, <1>7, <1>8, LargestIs
  <2>2. ASSUME NEW r \in Behind(a), r <= Largest(taken) PROVE r \in taken
    <3>1. r \in 1 .. N /\ Largest(taken) \in 1 .. N
      BY <1>5, <1>7, <2>1
    <3>2. r < Largest(taken) \/ r = Largest(taken)
      BY <1>4, <2>2, <3>1
    <3>3. QED
      BY <1>7, <2>1, <3>2
  <2>3. QED
    BY <1>7, <2>1, <2>2 DEF NewMark
<1>9. Cardinality(taken) <= scan.quota
  BY <1>1, <1>3, <1>7
<1>10. QED
  BY <1>7, <1>8, <1>9

LEMMA TurnStep ==
  ASSUME WalletInv, NEW a \in Accounts, Turn(a)
  PROVE  WalletInv'
<1> DEFINE C == tables["commitment"]
           mine(rows) == {e \in {C[r] : r \in rows} : chain[e].who = a}
           with(rows) == [e \in DOMAIN scan.notes \union mine(rows) |->
                            IF e \in DOMAIN scan.notes THEN scan.notes[e]
                            ELSE [account |-> a, nullifier |-> NullifierOf(e)]]
           mark(rows) == IF rows = {} THEN scan.mark
                         ELSE [scan.mark EXCEPT ![a] = NewMark(rows)]
<1>1. /\ UNCHANGED <<chain, ingested, accounts, db>> /\ tables' = tables
      /\ scanMark' = scanMark /\ nullMark' = nullMark /\ notes' = notes
      /\ phase = "turns" /\ phase' = "turns" /\ ~Done
      /\ batch' = batch /\ todo' = todo /\ didWork' = didWork
  BY DEF Turn, db
<1>2. PICK taken \in Chunk(a) :
        /\ scan'.pool = scan.pool /\ scan'.quota = scan.quota - Cardinality(taken)
        /\ scan'.mark = mark(taken) /\ scan'.notes = with(taken)
        /\ scan'.worked = (scan.worked \/ taken # {})
  BY DEF Turn
<1>3. /\ scan.pool \in Pools /\ scan.quota \in Nat
      /\ NotesFit(scan.notes) /\ MarkFits(scan.pool, scan.mark, scan.notes)
      /\ DOMAIN notes \subseteq DOMAIN scan.notes
      /\ scan.worked \/ (scan.quota # 0 /\ scan.mark = scanMark[scan.pool])
  BY <1>1 DEF WalletInv, TurnInv
<1>4. /\ taken \subseteq Behind(a) /\ Cardinality(taken) \in Nat
      /\ Cardinality(taken) <= scan.quota
      /\ taken # {} =>
           /\ NewMark(taken) \in Behind(a)
           /\ \A r \in Behind(a) : r <= NewMark(taken) => r \in taken
  BY <1>1, ChunkIs
<1>5. "commitment" \in KindSet /\ "nullifier" \in KindSet
  BY KindsAre
<1>6. /\ Len(C) \in Nat /\ Rows("commitment") = 1 .. Len(C)
      /\ \A r \in Rows("commitment") :
           C[r] \in Stored("commitment") /\ C[r] \in 1 .. ingested /\ chain[C[r]].kind = "commitment"
  BY <1>5, DataFacts DEF WalletInv
<1>7. \A r \in Behind(a) :
        r \in Rows("commitment") /\ chain[C[r]].pool = scan.pool /\ r > scan.mark[a]
  BY DEF Behind
<1> DEFINE ns == with(taken)
<1>9. /\ DOMAIN ns = DOMAIN scan.notes \union mine(taken)
      /\ \A e \in DOMAIN scan.notes : ns[e] = scan.notes[e]
      /\ \A e \in mine(taken) :
           e \notin DOMAIN scan.notes => ns[e] = [account |-> a, nullifier |-> NullifierOf(e)]
  OBVIOUS
<1>10. \A e \in mine(taken) : \E r \in taken : e = C[r] /\ chain[e].who = a
  OBVIOUS
<1>11. \A r \in taken : chain[C[r]].who = a => C[r] \in mine(taken)
  OBVIOUS
<1> HIDE DEF ns, mine, with
<1>12. NotesFit(ns)
  <2>1. ASSUME NEW e \in DOMAIN ns
        PROVE  /\ ns[e] \in [account : Accounts, nullifier : Nat]
               /\ e \in 1 .. ingested /\ chain[e].kind = "commitment"
               /\ chain[e].who = ns[e].account
               /\ ns[e].nullifier # 0 =>
                    ns[e].nullifier \in Stored("nullifier") /\ chain[ns[e].nullifier].of = e
               /\ ns[e].nullifier = 0 =>
                    \A r \in Rows("nullifier") :
                      chain[tables["nullifier"][r]].of = e => r > nullMark[chain[e].pool]
    <3>1. CASE e \in DOMAIN scan.notes
      BY <1>3, <1>9, <3>1 DEF NotesFit
    <3>2. CASE e \notin DOMAIN scan.notes
      <4>1. e \in mine(taken)
        BY <1>9, <3>2
      <4>2. PICK r \in taken : e = C[r] /\ chain[e].who = a
        BY <1>10, <4>1
      <4>3. e \in 1 .. ingested /\ chain[e].kind = "commitment"
        BY <1>4, <1>6, <1>7, <4>2
      <4>4. ns[e].account = a /\ ns[e].nullifier = NullifierOf(e)
            /\ ns[e] = [account |-> a, nullifier |-> NullifierOf(e)]
        BY <1>9, <3>2, <4>1
      <4>5. /\ NullifierOf(e) \in Nat
            /\ NullifierOf(e) # 0 =>
                 NullifierOf(e) \in Stored("nullifier") /\ chain[NullifierOf(e)].of = e
            /\ NullifierOf(e) = 0 =>
                 \A q \in Rows("nullifier") : chain[tables["nullifier"][q]].of # e
        BY NullifierIs DEF WalletInv
      <4>6. QED
        BY <4>2, <4>3, <4>4, <4>5
    <3>3. QED
      BY <3>1, <3>2
  <2>2. ns \in [DOMAIN ns -> [account : Accounts, nullifier : Nat]]
    <3>1. ns = [e \in DOMAIN ns |-> ns[e]]
      BY DEF ns, with
    <3>2. QED
      BY <2>1, <3>1
  <2>3. QED
    BY <2>1, <2>2 DEF NotesFit
<1> DEFINE mk == mark(taken)
<1>13. MarkFits(scan.pool, mk, ns)
  <2>1. scan.mark \in [Accounts -> Nat] /\ \A b \in Accounts : scan.mark[b] <= Len(C)
    BY <1>3 DEF MarkFits
  <2>2. \A r \in Rows("commitment"), b \in Accounts :
          chain[C[r]].pool = scan.pool /\ r <= scan.mark[b] /\ chain[C[r]].who = b =>
            C[r] \in DOMAIN ns
    BY <1>3, <1>9 DEF MarkFits
  <2>3. CASE taken = {}
    <3>1. mk = scan.mark
      BY <2>3
    <3>2. QED
      BY <2>1, <2>2, <3>1 DEF MarkFits
  <2>4. CASE taken # {}
    <3>1. NewMark(taken) \in 1 .. Len(C)
      BY <1>4, <1>6, <1>7, <2>4
    <3>2. /\ mk \in [Accounts -> Nat] /\ mk[a] = NewMark(taken)
          /\ \A b \in Accounts : b # a => mk[b] = scan.mark[b]
      BY <1>6, <2>1, <2>4, <3>1
    <3>3. \A b \in Accounts : mk[b] <= Len(C)
      BY <1>6, <2>1, <3>1, <3>2
    <3>4. ASSUME NEW r \in Rows("commitment"), NEW b \in Accounts,
                 chain[C[r]].pool = scan.pool, r <= mk[b], chain[C[r]].who = b
          PROVE  C[r] \in DOMAIN ns
      <4>1. CASE b # a \/ r <= scan.mark[b]
        BY <2>2, <3>2, <3>4, <4>1
      <4>2. CASE b = a /\ ~(r <= scan.mark[b])
        <5>1. r > scan.mark[a]
          BY <1>6, <2>1, <4>2
        <5>2. r \in Behind(a)
          BY <3>4, <5>1 DEF Behind
        <5>3. r \in taken
          BY <1>4, <2>4, <3>2, <3>4, <4>2, <5>2
        <5>4. QED
          BY <1>9, <1>11, <3>4, <4>2, <5>3
      <4>3. QED
        BY <4>1, <4>2
    <3>5. QED
      BY <3>2, <3>3, <3>4 DEF MarkFits
  <2>5. QED
    BY <2>3, <2>4
<1>14. TurnInv'
  <2>1. scan'.notes = ns /\ scan'.mark = mk
    BY <1>2 DEF ns
  <2>2. NotesFit(scan'.notes) /\ MarkFits(scan'.pool, scan'.mark, scan'.notes)
    BY <1>2, <1>12, <1>13, <2>1
  <2>3. NotesFit(scan.notes)' /\ MarkFits(scan.pool, scan.mark, scan.notes)'
    BY <1>1, <2>2 DEF NotesFit, MarkFits, Stored, Rows
  <2>4. scan'.pool \in Pools /\ scan'.quota \in Nat
    BY <1>2, <1>3, <1>4
  <2>5. DOMAIN notes' \subseteq DOMAIN scan'.notes
    BY <1>1, <1>3, <1>9, <2>1
  <2>6. scan'.worked \/ (scan'.quota # 0 /\ scan'.mark = scanMark'[scan'.pool])
    <3>1. CASE taken # {}
      BY <1>2, <3>1
    <3>2. CASE taken = {}
      <4>1. Cardinality(taken) = 0
        BY <3>2, FS_EmptySet
      <4>2. scan'.quota = scan.quota
        BY <1>2, <1>3, <4>1
      <4>3. scan'.mark = scan.mark
        BY <1>2, <3>2
      <4>4. scan.worked => scan'.worked
        BY <1>2
      <4>5. QED
        BY <1>1, <1>2, <1>3, <4>2, <4>3, <4>4
    <3>3. QED
      BY <3>1, <3>2
  <2>7. QED
    BY <2>3, <2>4, <2>5, <2>6 DEF TurnInv
<1>15. DataInv' /\ NotesInv'
  <2>1. accounts' \in Seq(Accounts)
    BY <1>1 DEF WalletInv, DataInv
  <2>2. QED
    BY <1>1, <2>1, DataKept, NotesKept DEF WalletInv
<1>16. BatchInv'
  <2>1. ScanPools' = ScanPools
    BY <1>1 DEF ScanPools, PoolsIn, Stored, Rows
  <2>2. QED
    BY <1>1, <2>1, KindsAre DEF WalletInv, BatchInv
<1>17. WorkInv'
  <2>1. phase' \notin KindSet
    BY <1>1, KindsAre
  <2>2. didWork \/ (AllStored /\ ScannedBut(todo \union {scan.pool}))
    BY <1>1 DEF WalletInv, WorkInv
  <2>3. AllStored => AllStored'
    BY <1>1 DEF AllStored, Processed, Stored, Rows
  <2>4. ScannedBut(todo \union {scan.pool}) => ScannedBut(todo \union {scan.pool})'
    BY <1>1, <1>2 DEF ScannedBut, Rows
  <2>5. QED
    BY <1>1, <2>1, <2>2, <2>3, <2>4 DEF WorkInv
<1>18. QED
  BY <1>14, <1>15, <1>16, <1>17 DEF WalletInv

LEMMA ClosePoolStep ==
  ASSUME WalletInv, ClosePool
  PROVE  WalletInv'
<1>1. /\ chain' = chain /\ ingested' = ingested /\ tables' = tables /\ accounts' = accounts
      /\ nullMark' = nullMark /\ notes' = scan.notes
      /\ scanMark' = [scanMark EXCEPT ![scan.pool] = scan.mark]
      /\ phase = "turns" /\ phase' = "scan" /\ Done
      /\ batch' = batch /\ todo' = todo /\ (didWork' <=> didWork \/ scan.worked)
  BY DEF ClosePool
<1>2. /\ scan.pool \in Pools
      /\ NotesFit(scan.notes) /\ MarkFits(scan.pool, scan.mark, scan.notes)
      /\ DOMAIN notes \subseteq DOMAIN scan.notes
      /\ scan.worked \/ (scan.quota # 0 /\ scan.mark = scanMark[scan.pool])
  BY <1>1 DEF WalletInv, TurnInv
<1>3. /\ scanMark \in [Pools -> [Accounts -> Nat]] /\ nullMark \in [Pools -> Nat]
      /\ \A p \in Pools : nullMark[p] <= Len(tables["nullifier"])
      /\ \A p \in Pools : MarkFits(p, scanMark[p], notes)
  BY DEF WalletInv, NotesInv
<1>4. scan.mark \in [Accounts -> Nat]
  BY <1>2 DEF MarkFits
<1>5. accounts \in Seq(Accounts)
  BY DEF WalletInv, DataInv
<1>6. DataInv'
  BY <1>1, <1>5, DataKept DEF WalletInv
<1>7. /\ scanMark' \in [Pools -> [Accounts -> Nat]] /\ scanMark'[scan.pool] = scan.mark
      /\ \A p \in Pools : p # scan.pool => scanMark'[p] = scanMark[p]
  BY <1>1, <1>2, <1>3, <1>4
<1>8. NotesInv'
  <2>1. NotesFit(notes)'
    BY <1>1, <1>2 DEF NotesFit, Stored, Rows
  <2>2. ASSUME NEW p \in Pools PROVE MarkFits(p, scanMark'[p], scan.notes)
    <3>1. CASE p = scan.pool
      BY <1>2, <1>7, <3>1
    <3>2. CASE p # scan.pool
      BY <1>2, <1>3, <1>7, <3>2 DEF MarkFits
    <3>3. QED
      BY <3>1, <3>2
  <2>3. \A p \in Pools : MarkFits(p, scanMark[p], notes)'
    BY <1>1, <2>2 DEF MarkFits, Rows
  <2>4. QED
    BY <1>1, <1>3, <1>7, <2>1, <2>3 DEF NotesInv
<1>9. TurnInv'
  BY <1>1 DEF TurnInv
<1>10. BatchInv'
  <2>1. ScanPools' = ScanPools
    BY <1>1 DEF ScanPools, PoolsIn, Stored, Rows
  <2>2. QED
    BY <1>1, <2>1, KindsAre DEF WalletInv, BatchInv
<1>11. WorkInv'
  <2>1. phase' = "scan" /\ phase' \notin KindSet
    BY <1>1, KindsAre
  <2>2. CASE didWork \/ scan.worked
    BY <1>1, <2>1, <2>2 DEF WorkInv
  <2>3. CASE ~(didWork \/ scan.worked)
    <3>1. AllStored /\ ScannedBut(todo \union {scan.pool})
      BY <1>1, <2>3 DEF WalletInv, WorkInv
    <3>2. scan.quota # 0 /\ scan.mark = scanMark[scan.pool]
      BY <1>2, <2>3
    <3>3. \A i \in DOMAIN accounts : Behind(accounts[i]) = {}
      BY <1>1, <3>2 DEF Done
    <3>4. scanMark' = scanMark
      BY <1>1, <1>2, <1>3, <3>2
    <3>5. ScannedBut(todo)
      <4> SUFFICES ASSUME NEW r \in Rows("commitment"), NEW i \in DOMAIN accounts
                   PROVE  LET p == chain[tables["commitment"][r]].pool
                          IN p \in todo \/ r <= scanMark[p][accounts[i]]
        BY DEF ScannedBut
      <4> DEFINE p == chain[tables["commitment"][r]].pool
      <4>1. p \in todo \union {scan.pool} \/ r <= scanMark[p][accounts[i]]
        BY <3>1 DEF ScannedBut
      <4>2. CASE p = scan.pool
        <5>1. accounts[i] \in Accounts
          BY <1>5
        <5>2. ~(r > scan.mark[accounts[i]])
          BY <3>3, <4>2 DEF Behind
        <5>3. r \in Nat /\ scan.mark[accounts[i]] \in Nat
          <6>1. Len(tables["commitment"]) \in Nat /\ r \in 1 .. Len(tables["commitment"])
            BY DataFacts, KindsAre DEF WalletInv
          <6>2. QED
            BY <1>4, <5>1, <6>1
        <5>4. QED
          BY <3>2, <4>2, <5>2, <5>3
      <4>3. QED
        BY <4>1, <4>2
    <3>6. AllStored' /\ ScannedBut(todo)'
      BY <1>1, <3>1, <3>4, <3>5 DEF AllStored, Processed, ScannedBut, Stored, Rows
    <3>7. QED
      BY <2>1, <3>6 DEF WorkInv
  <2>4. QED
    BY <2>2, <2>3
<1>12. QED
  BY <1>6, <1>8, <1>9, <1>10, <1>11 DEF WalletInv

\* What ends a run in the middle leaves what was committed before it.
LEMMA StopStep ==
  ASSUME WalletInv, Stop, UNCHANGED <<chain, ingested, accounts, db>>, kicked' \/ failed'
  PROVE  WalletInv'
<1>1. /\ phase' = "idle" /\ batch' = {} /\ todo' = {}
      /\ UNCHANGED <<chain, ingested, db>> /\ accounts' = accounts /\ tables' = tables
  BY DEF Stop, db
<1>2. accounts' \in Seq(Accounts)
  BY <1>1 DEF WalletInv, DataInv
<1>3. DataInv' /\ NotesInv'
  BY <1>1, <1>2, DataKept, NotesKept DEF WalletInv
<1>4. TurnInv'
  BY <1>1 DEF TurnInv
<1>5. BatchInv'
  BY <1>1, KindsAre DEF BatchInv
<1>6. WorkInv'
  BY <1>1, KindsAre DEF WorkInv
<1>7. QED
  BY <1>3, <1>4, <1>5, <1>6 DEF WalletInv

LEMMA EndScanStep ==
  ASSUME WalletInv, EndScan
  PROVE  WalletInv'
<1>1. /\ UNCHANGED <<chain, ingested, db>> /\ accounts' = accounts
      /\ tables' = tables /\ scanMark' = scanMark /\ nullMark' = nullMark /\ notes' = notes
      /\ phase = "scan" /\ phase' = "reconcile" /\ todo = {} /\ todo' = PoolsIn("nullifier")
      /\ batch' = batch /\ didWork' = didWork
  BY DEF EndScan, db
<1>2. accounts' \in Seq(Accounts)
  BY <1>1 DEF WalletInv, DataInv
<1>3. DataInv' /\ NotesInv'
  BY <1>1, <1>2, DataKept, NotesKept DEF WalletInv
<1>4. TurnInv'
  BY <1>1 DEF TurnInv
<1>5. BatchInv'
  BY <1>1, RowPools, KindsAre DEF WalletInv, BatchInv
<1>6. WorkInv'
  <2>1. phase' = "reconcile" /\ phase' \notin KindSet
    BY <1>1, KindsAre
  <2>2. didWork \/ (AllStored /\ ScannedBut({}))
    BY <1>1 DEF WalletInv, WorkInv
  <2>3. ReconciledBut(PoolsIn("nullifier"))
    BY RowPools DEF WalletInv, ReconciledBut
  <2>4. ReconciledBut(todo)'
    BY <1>1, <2>3 DEF ReconciledBut, Rows
  <2>5. (AllStored => AllStored') /\ (ScannedBut({}) => ScannedBut({})')
    BY <1>1 DEF AllStored, Processed, ScannedBut, Stored, Rows
  <2>6. QED
    BY <1>1, <2>1, <2>2, <2>4, <2>5 DEF WorkInv
<1>7. QED
  BY <1>3, <1>4, <1>5, <1>6 DEF WalletInv

LEMMA EndIterationStep ==
  ASSUME WalletInv, EndIteration
  PROVE  WalletInv'
<1>1. /\ UNCHANGED <<chain, ingested, db>> /\ accounts' = accounts
      /\ tables' = tables /\ scanMark' = scanMark /\ nullMark' = nullMark /\ notes' = notes
      /\ phase = "reconcile" /\ phase' = IF didWork THEN "yield" ELSE "idle"
      /\ todo = {} /\ todo' = todo /\ batch' = batch
  BY DEF EndIteration, db
<1>2. accounts' \in Seq(Accounts)
  BY <1>1 DEF WalletInv, DataInv
<1>3. DataInv' /\ NotesInv'
  BY <1>1, <1>2, DataKept, NotesKept DEF WalletInv
<1>4. TurnInv'
  BY <1>1 DEF TurnInv
<1>5. BatchInv'
  BY <1>1, KindsAre DEF WalletInv, BatchInv
<1>6. WorkInv'
  <2>1. CASE didWork
    BY <1>1, <2>1, KindsAre DEF WorkInv
  <2>2. CASE ~didWork
    <3>1. AllStored /\ ScannedBut({}) /\ ReconciledBut({})
      BY <1>1, <2>2 DEF WalletInv, WorkInv
    <3>2. AllStored' /\ ScannedBut({})' /\ ReconciledBut({})'
      BY <1>1, <3>1 DEF AllStored, Processed, ScannedBut, ReconciledBut, Stored, Rows
    <3>3. phase' = "idle"
      BY <1>1, <2>2
    <3>4. QED
      BY <3>2, <3>3, KindsAre DEF WorkInv
  <2>3. QED
    BY <2>1, <2>2
<1>7. QED
  BY <1>3, <1>4, <1>5, <1>6 DEF WalletInv

LEMMA ReconcilePoolStep ==
  ASSUME WalletInv, NEW p \in Pools, ReconcilePool(p)
  PROVE  WalletInv'
<1> DEFINE C == tables["nullifier"]
           behind == {r \in Rows("nullifier") : chain[C[r]].pool = p /\ r > nullMark[p]}
           spends(rows, e) == {n \in {C[r] : r \in rows} : chain[n].of = e}
           next(rows, e) == IF notes[e].nullifier = 0 /\ spends(rows, e) # {}
                            THEN [notes[e] EXCEPT !.nullifier = Largest(spends(rows, e))]
                            ELSE notes[e]
<1>1. /\ chain' = chain /\ ingested' = ingested /\ tables' = tables /\ accounts' = accounts
      /\ scanMark' = scanMark
      /\ phase = "reconcile" /\ phase' = phase
      /\ p \in todo /\ todo' = todo \ {p} /\ batch' = batch
  BY DEF ReconcilePool, IsNext
<1>2. PICK taken \in Firsts(FetchLimit, behind) :
        /\ notes' = [e \in DOMAIN notes |-> next(taken, e)]
        /\ nullMark' = [nullMark EXCEPT ![p] = IF taken = {} THEN @ ELSE Largest(taken)]
        /\ didWork' <=> (didWork \/ taken # {})
  BY DEF ReconcilePool
<1>3. "nullifier" \in KindSet /\ "commitment" \in KindSet
  BY KindsAre
<1>4. /\ Len(C) \in Nat /\ Rows("nullifier") = 1 .. Len(C) /\ ingested \in Nat
      /\ \A r \in Rows("nullifier") :
           C[r] \in Stored("nullifier") /\ C[r] \in 1 .. ingested /\ chain[C[r]].kind = "nullifier"
  BY <1>3, DataFacts DEF WalletInv
<1>5. /\ NotesFit(notes) /\ nullMark \in [Pools -> Nat]
      /\ \A q \in Pools : nullMark[q] <= Len(C)
      /\ scanMark \in [Pools -> [Accounts -> Nat]]
      /\ \A q \in Pools : MarkFits(q, scanMark[q], notes)
  BY DEF WalletInv, NotesInv
<1>6. behind \subseteq 1 .. Len(C)
  BY <1>4
<1>7. \A r \in Rows("nullifier") : chain[C[r]].pool = p /\ r > nullMark[p] => r \in behind
  OBVIOUS
<1>8. \A r \in behind : r \in Rows("nullifier")
  OBVIOUS
<1>9. \A r \in taken, e \in DOMAIN notes : chain[C[r]].of = e => C[r] \in spends(taken, e)
  OBVIOUS
<1>10. \A e \in DOMAIN notes : \A n \in spends(taken, e) : \E r \in taken : n = C[r] /\ chain[n].of = e
  OBVIOUS
<1>11. \A e \in DOMAIN notes :
         /\ notes[e].nullifier = 0 /\ spends(taken, e) # {} =>
              next(taken, e) = [notes[e] EXCEPT !.nullifier = Largest(spends(taken, e))]
         /\ ~(notes[e].nullifier = 0 /\ spends(taken, e) # {}) => next(taken, e) = notes[e]
  OBVIOUS
<1>12. DOMAIN notes' = DOMAIN notes /\ \A e \in DOMAIN notes : notes'[e] = next(taken, e)
  BY <1>2
<1> HIDE DEF behind, spends, next
<1>13. /\ taken \subseteq behind
       /\ taken = {} => behind = {}
       /\ \A n \in taken, m \in behind : m < n => m \in taken
  BY <1>2, <1>4, <1>6, FirstsAre, LimitAssumption
<1>14. taken # {} => Largest(taken) \in 1 .. Len(C) /\ Largest(taken) \in taken
  BY <1>4, <1>6, <1>13, LargestIs
<1>15. /\ nullMark' \in [Pools -> Nat]
       /\ \A q \in Pools : q # p => nullMark'[q] = nullMark[q]
       /\ taken = {} => nullMark'[p] = nullMark[p]
       /\ taken # {} => nullMark'[p] = Largest(taken)
  BY <1>2, <1>4, <1>5, <1>14
\* A row of the pool that was not reconciled is behind the new mark.
<1>16. ASSUME NEW r \in Rows("nullifier"), chain[C[r]].pool = p, r > nullMark[p], r \notin taken
       PROVE  r > nullMark'[p]
  <2>1. r \in behind /\ r \in 1 .. Len(C)
    BY <1>4, <1>7, <1>16
  <2>2. CASE taken = {}
    BY <1>15, <1>16, <2>2
  <2>3. CASE taken # {}
    <3>1. ~(r < Largest(taken)) /\ r # Largest(taken)
      BY <1>13, <1>14, <1>16, <2>1, <2>3
    <3>2. QED
      BY <1>4, <1>14, <1>15, <2>1, <2>3, <3>1
  <2>4. QED
    BY <2>2, <2>3
<1>17. NotesFit(notes)'
  <2>1. ASSUME NEW e \in DOMAIN notes
        PROVE  /\ notes'[e] \in [account : Accounts, nullifier : Nat]
               /\ e \in 1 .. ingested /\ chain[e].kind = "commitment"
               /\ chain[e].who = notes'[e].account
               /\ notes'[e].nullifier # 0 =>
                    notes'[e].nullifier \in Stored("nullifier")
                    /\ chain[notes'[e].nullifier].of = e
               /\ notes'[e].nullifier = 0 =>
                    \A r \in Rows("nullifier") : chain[C[r]].of = e => r > nullMark'[chain[e].pool]
    <3>1. /\ notes[e] \in [account : Accounts, nullifier : Nat]
          /\ e \in 1 .. ingested /\ chain[e].kind = "commitment" /\ chain[e].who = notes[e].account
          /\ notes[e].nullifier # 0 =>
               notes[e].nullifier \in Stored("nullifier") /\ chain[notes[e].nullifier].of = e
          /\ notes[e].nullifier = 0 =>
               \A r \in Rows("nullifier") : chain[C[r]].of = e => r > nullMark[chain[e].pool]
      BY <1>5 DEF NotesFit
    <3>2. CASE notes[e].nullifier = 0 /\ spends(taken, e) # {}
      <4> DEFINE n == Largest(spends(taken, e))
      <4>1. spends(taken, e) \subseteq 1 .. ingested
        BY <1>4, <1>8, <1>10, <1>13
      <4>2. n \in spends(taken, e)
        BY <1>4, <3>2, <4>1, LargestIs
      <4>3. PICK r \in taken : n = C[r] /\ chain[n].of = e
        BY <1>10, <4>2
      <4>4. n \in Stored("nullifier") /\ n \in Nat /\ n # 0
        BY <1>4, <1>8, <1>13, <4>3
      <4>5. notes'[e] = [notes[e] EXCEPT !.nullifier = n]
        BY <1>11, <1>12, <3>2
      <4> HIDE DEF n
      <4>6. /\ notes'[e] \in [account : Accounts, nullifier : Nat]
            /\ notes'[e].account = notes[e].account /\ notes'[e].nullifier = n
        BY <3>1, <4>4, <4>5
      <4>7. QED
        BY <3>1, <4>3, <4>4, <4>6
    <3>3. CASE notes[e].nullifier # 0
      <4>1. notes'[e] = notes[e]
        BY <1>11, <1>12, <3>3
      <4>2. QED
        BY <3>1, <3>3, <4>1
    <3>4. CASE notes[e].nullifier = 0 /\ spends(taken, e) = {}
      <4>1. notes'[e] = notes[e]
        BY <1>11, <1>12, <3>4
      <4>2. ASSUME NEW r \in Rows("nullifier"), chain[C[r]].of = e
            PROVE  r > nullMark'[chain[e].pool]
        <5>1. r > nullMark[chain[e].pool]
          BY <3>1, <3>4, <4>2
        <5>2. C[r] \in 1 .. ingested /\ chain[C[r]].kind = "nullifier" /\ e # 0
          BY <1>4, <3>1
        <5>3. chain[e].pool = chain[C[r]].pool
          BY <4>2, <5>2, DataFacts DEF WalletInv
        <5>4. chain[e].pool \in Pools
          BY <3>1, DataFacts DEF WalletInv
        <5>5. r \notin taken
          BY <1>9, <3>4, <4>2
        <5>6. CASE chain[e].pool = p
          BY <1>16, <5>1, <5>3, <5>5, <5>6
        <5>7. CASE chain[e].pool # p
          BY <1>15, <5>1, <5>4, <5>7
        <5>8. QED
          BY <5>6, <5>7
      <4>3. QED
        BY <3>1, <3>4, <4>1, <4>2
    <3>5. QED
      BY <3>2, <3>3, <3>4
  <2>2. notes' \in [DOMAIN notes -> [account : Accounts, nullifier : Nat]]
    <3>1. \A e \in DOMAIN notes : next(taken, e) \in [account : Accounts, nullifier : Nat]
      BY <1>12, <2>1
    <3>2. notes' = [e \in DOMAIN notes |-> next(taken, e)]
      BY <1>2
    <3>3. QED
      BY <3>1, <3>2
  <2>3. QED
    BY <1>1, <1>12, <2>1, <2>2 DEF NotesFit, Stored, Rows
<1>18. NotesInv'
  <2>1. ASSUME NEW q \in Pools PROVE nullMark'[q] <= Len(C)
    <3>1. nullMark[q] <= Len(C)
      BY <1>5
    <3>2. CASE q # p \/ taken = {}
      BY <1>15, <3>1, <3>2
    <3>3. CASE q = p /\ taken # {}
      <4>1. nullMark'[q] = Largest(taken) /\ Largest(taken) \in 1 .. Len(C)
        BY <1>14, <1>15, <3>3
      <4>2. QED
        BY <1>4, <4>1
    <3>4. QED
      BY <3>2, <3>3
  <2>2. ASSUME NEW q \in Pools PROVE MarkFits(q, scanMark[q], notes)'
    BY <1>1, <1>5, <1>12 DEF MarkFits, Rows
  <2>3. \A q \in Pools : MarkFits(q, scanMark[q], notes)'
    BY <2>2
  <2>4. QED
    BY <1>1, <1>5, <1>15, <1>17, <2>1, <2>3 DEF NotesInv
<1>19. DataInv'
  <2>1. accounts' \in Seq(Accounts)
    BY <1>1 DEF WalletInv, DataInv
  <2>2. QED
    BY <1>1, <2>1, DataKept DEF WalletInv
<1>20. TurnInv'
  BY <1>1 DEF TurnInv
<1>21. BatchInv'
  BY <1>1, KindsAre DEF WalletInv, BatchInv
<1>22. WorkInv'
  <2>1. phase' = "reconcile" /\ phase' \notin KindSet
    BY <1>1, KindsAre
  <2>2. CASE didWork \/ taken # {}
    BY <1>2, <2>1, <2>2 DEF WorkInv
  <2>3. CASE ~didWork /\ taken = {}
    <3>1. AllStored /\ ScannedBut({}) /\ ReconciledBut(todo)
      BY <1>1, <2>3 DEF WalletInv, WorkInv
    <3>2. AllStored' /\ ScannedBut({})'
      BY <1>1, <3>1 DEF AllStored, Processed, ScannedBut, Stored, Rows
    <3>3. nullMark' = nullMark
      BY <1>2, <1>5, <2>3
    <3>4. ASSUME NEW r \in Rows("nullifier"), chain[C[r]].pool \notin todo \ {p}
          PROVE  r <= nullMark[chain[C[r]].pool]
      <4>1. CASE chain[C[r]].pool = p
        <5>1. ~(r > nullMark[p])
          BY <1>7, <1>13, <2>3, <4>1
        <5>2. r \in Nat /\ nullMark[p] \in Nat
          BY <1>4, <1>5
        <5>3. QED
          BY <4>1, <5>1, <5>2
      <4>2. CASE chain[C[r]].pool # p
        BY <3>1, <3>4, <4>2 DEF ReconciledBut
      <4>3. QED
        BY <4>1, <4>2
    <3>5. ReconciledBut(todo \ {p})
      BY <3>4 DEF ReconciledBut
    <3>6. ReconciledBut(todo)'
      BY <1>1, <3>3, <3>5 DEF ReconciledBut, Rows
    <3>7. QED
      BY <2>1, <3>2, <3>6 DEF WorkInv
  <2>4. QED
    BY <2>2, <2>3
<1>23. QED
  BY <1>18, <1>19, <1>20, <1>21, <1>22 DEF WalletInv

-----------------------------------------------------------------------------
(* Every step.                                                             *)

LEMMA WalletStep ==
  ASSUME WalletInv, [Next]_vars
  PROVE  WalletInv'
<1>1. CASE Next
  <2>1. CASE SaveEvents
    BY <2>1, SaveEventsStep
  <2>2. CASE DeriveSaveUserKeys
    BY <2>2, DeriveStep
  <2>3. CASE ReadBatch
    BY <2>3, ReadBatchStep
  <2>4. CASE \E i \in DOMAIN Kinds : SaveTable(i)
    BY <2>4, SaveTableStep
  <2>5. CASE \E p \in Pools : OpenPool(p) \/ ReconcilePool(p)
    BY <2>5, OpenPoolStep, ReconcilePoolStep
  <2>6. CASE \E a \in Accounts : Turn(a) \/ ScanFails(a)
    <3>1. PICK a \in Accounts : Turn(a) \/ ScanFails(a)
      BY <2>6
    <3>2. CASE Turn(a)
      BY <3>2, TurnStep
    <3>3. CASE ScanFails(a)
      <4>1. Stop /\ UNCHANGED <<chain, ingested, accounts, db>> /\ failed'
        BY <3>3 DEF ScanFails
      <4>2. QED
        BY <4>1, StopStep
    <3>4. QED
      BY <3>1, <3>2, <3>3
  <2>7. CASE ClosePool
    BY <2>7, ClosePoolStep
  <2>8. CASE EndScan
    BY <2>8, EndScanStep
  <2>9. CASE EndIteration
    BY <2>9, EndIterationStep
  <2>10. CASE Fail
    <3>1. Stop /\ UNCHANGED <<chain, ingested, accounts, db>> /\ failed'
      BY <2>10 DEF Fail
    <3>2. QED
      BY <3>1, StopStep
  <2>11. CASE Restart
    <3>1. Stop /\ UNCHANGED <<chain, ingested, accounts, db>> /\ kicked'
      BY <2>11 DEF Restart
    <3>2. QED
      BY <3>1, StopStep
  <2>12. QED
    BY <1>1, <2>1, <2>2, <2>3, <2>4, <2>5, <2>6, <2>7, <2>8, <2>9, <2>10, <2>11 DEF Next
<1>2. CASE UNCHANGED vars
  <2>1. UNCHANGED <<chain, ingested, accounts, db, kicked, processor>> /\ tables' = tables
        /\ scanMark' = scanMark /\ nullMark' = nullMark /\ notes' = notes
        /\ phase' = phase /\ batch' = batch /\ todo' = todo /\ scan' = scan
        /\ didWork' = didWork /\ failed' = failed
    BY <1>2 DEF vars, db, processor
  <2>2. accounts' \in Seq(Accounts)
    BY <2>1 DEF WalletInv, DataInv
  <2>3. DataInv' /\ NotesInv'
    BY <2>1, <2>2, DataKept, NotesKept DEF WalletInv
  <2>4. TurnInv'
    BY <2>1 DEF WalletInv, TurnInv, NotesFit, MarkFits, Stored, Rows
  <2>5. BatchInv'
    BY <2>1 DEF WalletInv, BatchInv, Processed, ScanPools, PoolsIn, Stored, Rows
  <2>6. WorkInv'
    <3>1. AllStored' = AllStored
      BY <2>1 DEF AllStored, Processed, Stored, Rows
    <3>2. /\ ScannedBut(todo)' = ScannedBut(todo) /\ ScannedBut({})' = ScannedBut({})
          /\ ScannedBut(todo \union {scan.pool})' = ScannedBut(todo \union {scan.pool})
      BY <2>1 DEF ScannedBut, Rows
    <3>3. ReconciledBut(todo)' = ReconciledBut(todo) /\ ReconciledBut({})' = ReconciledBut({})
      BY <2>1 DEF ReconciledBut, Rows
    <3>4. QED
      BY <2>1, <3>1, <3>2, <3>3 DEF WalletInv, WorkInv
  <2>7. QED
    BY <2>3, <2>4, <2>5, <2>6 DEF WalletInv
<1>3. QED
  BY <1>1, <1>2

LEMMA WalletInvariant == Spec => []WalletInv
<1>1. Init => WalletInv
  BY WalletInit
<1>2. WalletInv /\ [Next]_vars => WalletInv'
  BY WalletStep
<1>3. QED
  BY <1>1, <1>2, PTL DEF Spec

-----------------------------------------------------------------------------
(* What it shows.                                                          *)

\* What a table lacks of the log up to its latest row never gets a row there:
\* it cannot be parsed or its value has one, whatever batches, crashes and
\* failures cut process_events into, and in whichever order they save events.
THEOREM OnlyRowlessEventsAreMissing == Spec => []TablesArePrefixes
<1>1. ASSUME WalletInv PROVE TablesArePrefixes
  <2>1. \A i \in DOMAIN Kinds : Kinds[i] \in KindSet
    BY DEF KindSet
  <2>2. QED
    BY <1>1, <2>1 DEF WalletInv, DataInv, TablesArePrefixes
<1>2. QED
  BY <1>1, WalletInvariant, PTL

\* No mark passes an output of the account's own that is not among the notes:
\* whichever turn fails, with whatever quota.
THEOREM NothingIsLostBehindMarks == Spec => []MarksAreScanned
<1>1. ASSUME WalletInv PROVE MarksAreScanned
  <2> SUFFICES ASSUME NEW r \in Rows("commitment"), NEW a \in Accounts,
                      r <= scanMark[chain[tables["commitment"][r]].pool][a],
                      chain[tables["commitment"][r]].who = a
               PROVE  tables["commitment"][r] \in DOMAIN notes
    BY DEF MarksAreScanned
  <2> DEFINE p == chain[tables["commitment"][r]].pool
  <2>1. p \in Pools
    BY <1>1, RowPools DEF WalletInv, PoolsIn
  <2>2. MarkFits(p, scanMark[p], notes)
    BY <1>1, <2>1 DEF WalletInv, NotesInv
  <2>3. QED
    BY <2>2 DEF MarkFits
<1>2. QED
  BY <1>1, WalletInvariant, PTL

\* A note whose spending has a row is unspent only until that row is
\* reconciled, in whichever order commitments and nullifiers were scanned.
THEOREM NoSpendIsMissed == Spec => []SpendsAreSeen
<1>1. WalletInv => SpendsAreSeen
  BY DEF WalletInv, NotesInv, NotesFit, SpendsAreSeen
<1>2. QED
  BY <1>1, WalletInvariant, PTL

\* Where a note's commitment or nullifier is in the log, there is its row.
LEMMA RowOf ==
  ASSUME WalletInv, AllStored, NEW e \in 1 .. ingested
  PROVE  \E r \in Rows(chain[e].kind) : tables[chain[e].kind][r] = e
<1>1. PICK kind \in KindSet : e \in Stored(kind)
  BY DEF AllStored, Processed
<1>2. chain[e].kind = kind
  BY <1>1 DEF WalletInv, DataInv
<1>3. QED
  BY <1>1, <1>2 DEF Stored

\* When the processor sleeps, an account's unspent notes are those of the log
\* as far as it was ingested.
THEOREM SleepsWhenDone == Spec => []IdleMeansUpToDate
<1>1. ASSUME WalletInv, phase = "idle", ~kicked, ~failed, NEW a \in Active
      PROVE  Shown(a) = NotesOf(a) \ Spent
  <2>1. AllStored /\ ScannedBut({}) /\ ReconciledBut({})
    BY <1>1 DEF WalletInv, WorkInv
  <2>2. NotesFit(notes) /\ \A p \in Pools : MarkFits(p, scanMark[p], notes)
    BY <1>1 DEF WalletInv, NotesInv
  <2>3. PICK i \in DOMAIN accounts : a = accounts[i]
    BY DEF Active
  <2>4. a \in Accounts
    <3>1. accounts \in Seq(Accounts)
      BY <1>1 DEF WalletInv, DataInv
    <3>2. QED
      BY <2>3, <3>1
  <2>5. ASSUME NEW e \in Shown(a) PROVE e \in NotesOf(a) \ Spent
    <3>1. /\ e \in DOMAIN notes /\ notes[e].nullifier = 0
          /\ e \in 1 .. ingested /\ chain[e].kind = "commitment" /\ chain[e].who = a
      BY <2>2 DEF Shown, NotesFit
    <3>2. e \in NotesOf(a)
      BY <3>1 DEF NotesOf
    <3>3. ASSUME NEW n \in 1 .. ingested, chain[n].kind = "nullifier", chain[n].of = e PROVE FALSE
      <4>1. PICK r \in Rows("nullifier") : tables["nullifier"][r] = n
        BY <1>1, <2>1, <3>3, RowOf
      <4>2. r > nullMark[chain[e].pool]
        BY <2>2, <3>1, <3>3, <4>1 DEF NotesFit
      <4>3. r <= nullMark[chain[n].pool]
        BY <2>1, <4>1 DEF ReconciledBut
      <4>4. chain[e].pool = chain[n].pool /\ chain[e].pool \in Pools
        BY <1>1, <3>1, <3>3, DataFacts DEF WalletInv
      <4>5. r \in Nat /\ nullMark[chain[e].pool] \in Nat
        <5>1. Rows("nullifier") = 1 .. Len(tables["nullifier"]) /\ Len(tables["nullifier"]) \in Nat
          BY <1>1, KindsAre, DataFacts DEF WalletInv
        <5>2. nullMark \in [Pools -> Nat]
          BY <1>1 DEF WalletInv, NotesInv
        <5>3. QED
          BY <4>4, <5>1, <5>2
      <4>6. QED
        BY <4>2, <4>3, <4>4, <4>5
    <3>4. e \notin Spent
      BY <3>3 DEF Spent
    <3>5. QED
      BY <3>2, <3>4
  <2>6. ASSUME NEW e \in NotesOf(a), e \notin Spent PROVE e \in Shown(a)
    <3>1. e \in 1 .. ingested /\ chain[e].kind = "commitment" /\ chain[e].who = a
      BY DEF NotesOf
    <3>2. PICK r \in Rows("commitment") : tables["commitment"][r] = e
      BY <1>1, <2>1, <3>1, RowOf
    <3>3. chain[e].pool \in Pools
      BY <1>1, <3>1, DataFacts DEF WalletInv
    <3>4. r <= scanMark[chain[e].pool][a]
      BY <2>1, <2>3, <3>2 DEF ScannedBut
    <3>5. e \in DOMAIN notes
      BY <2>2, <2>4, <3>1, <3>2, <3>3, <3>4 DEF MarkFits
    <3>6. notes[e].account = a
      BY <2>2, <3>1, <3>5 DEF NotesFit
    <3>7. ASSUME notes[e].nullifier # 0 PROVE FALSE
      <4>1. notes[e].nullifier \in Stored("nullifier") /\ chain[notes[e].nullifier].of = e
        BY <2>2, <3>5, <3>7 DEF NotesFit
      <4>2. notes[e].nullifier \in 1 .. ingested /\ chain[notes[e].nullifier].kind = "nullifier"
        BY <1>1, <4>1, KindsAre DEF WalletInv, DataInv
      <4>3. QED
        BY <2>6, <4>1, <4>2 DEF Spent
    <3>8. QED
      BY <3>5, <3>6, <3>7 DEF Shown
  <2>7. QED
    BY <2>5, <2>6
<1>2. WalletInv => IdleMeansUpToDate
  BY <1>1 DEF IdleMeansUpToDate
<1>3. QED
  BY <1>2, WalletInvariant, PTL

\* A membership proof is built from leaves that make the snapshot's root, and
\* a user with a leaf under it that can be parsed is told so once a leaf is
\* processed.
THEOREM MembershipIsOfTheSnapshot == Spec => []MembershipAnswersHold
<1>1. ASSUME WalletInv, LocalLeaves # {}
      PROVE  /\ LocalLeaves \subseteq LeafEvents(Largest(LocalLeaves))
             /\ \A d \in LeafEvents(Largest(LocalLeaves)) : Unparsable(d) \/ d \in LocalLeaves
             /\ ~HasGap => LocalLeaves = LeafEvents(Largest(LocalLeaves))
  <2>1. "leaf" \in KindSet
    BY KindsAre
  <2>2. /\ ingested \in Nat /\ ingested <= Len(chain) /\ Len(chain) \in Nat
        /\ DOMAIN chain = 1 .. Len(chain) /\ chain \in Chains
    BY <1>1, DataFacts, ChainAssumption DEF WalletInv, DataInv
  <2>3. \A e \in LocalLeaves : e \in 1 .. ingested /\ chain[e].kind = "leaf"
    BY <1>1, <2>1 DEF WalletInv, DataInv, LocalLeaves
  <2>4. LocalLeaves \subseteq 1 .. ingested
    BY <2>3
  <2> DEFINE l == Largest(LocalLeaves)
  <2>5. l \in LocalLeaves /\ \A m \in LocalLeaves : m <= l
    BY <1>1, <2>2, <2>4, LargestIs
  <2> HIDE DEF l
  <2>6. LocalLeaves \subseteq LeafEvents(l)
    BY <2>2, <2>3, <2>5 DEF LeafEvents
  <2>7. ASSUME NEW d \in LeafEvents(l), ~Unparsable(d) PROVE d \in LocalLeaves
    <3>1. d \in 1 .. l /\ chain[d].kind = "leaf"
      BY <2>7 DEF LeafEvents
    <3>2. l \in Stored("leaf")
      BY <2>5 DEF LocalLeaves
    <3>3. PICK c \in Stored("leaf") : Alike(c, d)
      BY <1>1, <2>1, <2>7, <3>1, <3>2 DEF WalletInv, DataInv
    <3>4. c \in DOMAIN chain /\ d \in DOMAIN chain /\ chain[c].kind = "leaf"
      BY <2>2, <2>3, <2>5, <3>1, <3>3 DEF LocalLeaves
    <3>5. chain[c].first = c /\ chain[d].first = d
      BY <2>2, <3>1, <3>4, ChainAssumption
    <3>6. QED
      BY <3>3, <3>5 DEF Alike, LocalLeaves
  <2>8. ~HasGap => \A d \in LeafEvents(l) : d \in LocalLeaves
    BY <2>5 DEF HasGap
  <2>9. QED
    BY <2>6, <2>7, <2>8 DEF l
<1>2. ASSUME WalletInv, NEW ledger, NEW a, ~HasGap,
             CheckAspMembership(a, RootAt(ledger), ledger) = "user_index"
      PROVE  LocalLeaves = RootAt(ledger)
  <2>1. LocalLeaves # {} /\ LeafEvents(Largest(LocalLeaves)) = RootAt(ledger)
    BY <1>2 DEF CheckAspMembership
  <2>2. QED
    BY <1>1, <1>2, <2>1
<1>3. ASSUME WalletInv, NEW ledger, NEW a, LocalLeaves # {},
             CheckAspMembership(a, RootAt(ledger), ledger) = "register"
      PROVE  \A e \in RootAt(ledger) : chain[e].who = a => Unparsable(e)
  <2>1. LeafEvents(Largest(LocalLeaves)) = RootAt(ledger) /\ IndexOf(a) = {}
    BY <1>3 DEF CheckAspMembership
  <2>2. \A e \in RootAt(ledger) : Unparsable(e) \/ e \in LocalLeaves
    BY <1>1, <1>3, <2>1
  <2>3. QED
    BY <2>1, <2>2 DEF IndexOf
<1>4. WalletInv => MembershipAnswersHold
  BY <1>2, <1>3 DEF MembershipAnswersHold
<1>5. QED
  BY <1>4, WalletInvariant, PTL
=============================================================================
