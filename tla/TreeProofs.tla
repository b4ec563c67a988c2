------------------------------ MODULE TreeProofs ------------------------------
(***************************************************************************)
(* Theorems about the hash trees of MCParts, at every depth and size: the  *)
(* pool's tree and the membership list's, the client's tree and the        *)
(* circuit's path.                                                         *)
(*                                                                         *)
(* All of them are compared with the nodes of the client's tree, of which  *)
(* a lemma each says how a node is made of two, what lies beyond the last  *)
(* leaf and what more leaves leave alone.                                  *)
(***************************************************************************)
EXTENDS MCParts, FiniteSetTheorems, WellFoundedInduction, TLAPS

-----------------------------------------------------------------------------
(* Climbing an interval.                                                   *)

LEMMA HasLeast ==
  ASSUME NEW S, S \subseteq Nat, S # {}
  PROVE  \E n \in S : \A m \in S : n <= m
<1>1. PICK n \in S : \A m \in S : ~ (<<m, n>> \in OpToRel(<, Nat))
  BY NatLessThanWellFounded, WFMin
<1>2. ASSUME NEW m \in S PROVE n <= m
  <2>1. ~ (<<m, n>> \in OpToRel(<, Nat))
    BY <1>1
  <2>2. m \in Nat /\ n \in Nat
    OBVIOUS
  <2>3. ~(m < n)
    BY <2>1, <2>2 DEF OpToRel
  <2>4. QED
    BY <2>2, <2>3
<1>3. QED
  BY <1>2

\* Induction, for a set of heights.
LEMMA Climb ==
  ASSUME NEW a \in Nat, NEW b \in Nat, NEW S, a \in S,
         \A l \in a .. b - 1 : l \in S => l + 1 \in S
  PROVE  \A l \in a .. b : l \in S
<1> DEFINE T == (a .. b) \ S
<1>1. SUFFICES ASSUME T # {} PROVE FALSE
  OBVIOUS
<1>2. PICK n \in T : \A m \in T : n <= m
  <2>1. T \subseteq Nat
    OBVIOUS
  <2>2. QED
    BY <1>1, <2>1, HasLeast
<1>3. n \in a .. b /\ n # a /\ n \notin S
  OBVIOUS
<1>4. n - 1 \in a .. b - 1 /\ (n - 1) + 1 = n /\ n - 1 \in a .. b /\ ~(n <= n - 1)
  BY <1>3
<1>5. n - 1 \in S
  BY <1>2, <1>4
<1>6. QED
  BY <1>3, <1>4, <1>5

-----------------------------------------------------------------------------
(* Powers of two and halving.                                              *)

\* The subsets of one element more are twice as many.
LEMMA PowerIs ==
  ASSUME NEW n \in Nat
  PROVE  2 ^ n \in Nat \ {0} /\ 2 ^ (n + 1) = 2 * 2 ^ n
<1> DEFINE S == SUBSET (1 .. n)
           T == SUBSET (1 .. (n + 1))
           U == S \X {0, 1}
           f == [u \in U |-> u[1] \cup (IF u[2] = 1 THEN {n + 1} ELSE {})]
<1>1. IsFiniteSet(1 .. n) /\ Cardinality(1 .. n) = n
      /\ IsFiniteSet(1 .. (n + 1)) /\ Cardinality(1 .. (n + 1)) = n + 1
  BY FS_Interval
<1>2. IsFiniteSet(S) /\ Cardinality(S) = 2 ^ n /\ IsFiniteSet(T) /\ Cardinality(T) = 2 ^ (n + 1)
  BY <1>1, FS_SUBSET
<1>3. 2 ^ n \in Nat \ {0}
  <2>1. Cardinality(S) \in Nat /\ (Cardinality(S) = 0 <=> S = {})
    BY <1>2, FS_CardinalityType, FS_EmptySet
  <2>2. S # {}
    OBVIOUS
  <2>3. QED
    BY <1>2, <2>1, <2>2
<1>4. IsFiniteSet(U) /\ Cardinality(U) = 2 * 2 ^ n
  <2>1. IsFiniteSet({0, 1}) /\ Cardinality({0, 1}) = 2
    <3>1. IsFiniteSet({0}) /\ Cardinality({0}) = 1
      BY FS_Singleton
    <3>2. {0, 1} = {0} \cup {1} /\ 1 \notin {0}
      OBVIOUS
    <3>3. QED
      BY <3>1, <3>2, FS_AddElement
  <2>2. IsFiniteSet(U) /\ Cardinality(U) = Cardinality(S) * Cardinality({0, 1})
    BY <1>2, <2>1, FS_Product
  <2>3. QED
    BY <1>2, <1>3, <2>1, <2>2
<1>5. f \in Bijection(U, T)
  <2>1. \A x \in 1 .. n : x \in 1 .. (n + 1) /\ x # n + 1
    OBVIOUS
  <2>2. n + 1 \in 1 .. (n + 1) /\ \A x \in 1 .. (n + 1) : x \in 1 .. n \/ x = n + 1
    OBVIOUS
  <2>3. f \in [U -> T]
    BY <2>1, <2>2
  <2>4. ASSUME NEW u \in U, NEW v \in U, f[u] = f[v] PROVE u = v
    <3>1. u[1] \subseteq 1 .. n /\ v[1] \subseteq 1 .. n /\ u[2] \in {0, 1} /\ v[2] \in {0, 1}
          /\ u = <<u[1], u[2]>> /\ v = <<v[1], v[2]>>
      OBVIOUS
    <3>2. n + 1 \notin u[1] /\ n + 1 \notin v[1]
      BY <2>1, <3>1
    <3>3. u[2] = v[2]
      BY <2>4, <3>1, <3>2
    <3>4. u[1] = v[1]
      BY <2>4, <3>2, <3>3
    <3>5. QED
      BY <3>1, <3>3, <3>4
  <2>5. ASSUME NEW t \in T PROVE \E u \in U : f[u] = t
    <3> DEFINE u == <<t \ {n + 1}, IF n + 1 \in t THEN 1 ELSE 0>>
    <3>1. u \in U
      BY <2>2
    <3>2. f[u] = t
      BY <3>1
    <3>3. QED
      BY <3>1, <3>2
  <2> HIDE DEF f, U, T
  <2>6. QED
    BY <2>3, <2>4, <2>5 DEF Bijection, Injection, Surjection, IsInjective
<1>6. Cardinality(T) = Cardinality(U)
  <2> HIDE DEF f, U, T
  <2>1. ExistsBijection(U, T)
    BY <1>5 DEF ExistsBijection
  <2>2. QED
    BY <1>4, <2>1, FS_Bijection
<1>7. QED
  BY <1>2, <1>3, <1>4, <1>6

LEMMA DivIs ==
  ASSUME NEW n \in Nat, NEW d \in Nat \ {0}, NEW q \in Nat, NEW r \in 0 .. d - 1, n = d * q + r
  PROVE  n \div d = q /\ n % d = r
OBVIOUS

LEMMA DivHas ==
  ASSUME NEW n \in Nat, NEW d \in Nat \ {0}
  PROVE  n \div d \in Nat /\ n % d \in 0 .. d - 1 /\ n = d * (n \div d) + (n % d)
OBVIOUS

\* An ancestor, and the next one.
LEMMA Halving ==
  ASSUME NEW i \in Nat, NEW l \in Nat
  PROVE  /\ i \div 2 ^ 0 = i /\ i \div 2 ^ l \in Nat
         /\ i \div 2 ^ (l + 1) = (i \div 2 ^ l) \div 2
<1> DEFINE d == 2 ^ l
           q == i \div d
           r == i % d
           h == q \div 2
           b == q % 2
<1>1. d \in Nat \ {0} /\ 2 ^ (l + 1) = 2 * d
  BY PowerIs
<1> HIDE DEF d
<1>2. q \in Nat /\ r \in 0 .. d - 1 /\ i = d * q + r
  BY <1>1, DivHas
<1> HIDE DEF q, r
<1>3. h \in Nat /\ b \in 0 .. 1 /\ q = 2 * h + b
  BY <1>2
<1> HIDE DEF h, b
<1>4. d * b + r \in 0 .. 2 * d - 1
  <2>1. CASE b = 0
    BY <1>1, <1>2, <2>1
  <2>2. CASE b = 1
    BY <1>1, <1>2, <2>2
  <2>3. QED
    BY <1>3, <2>1, <2>2
<1>5. i = (2 * d) * h + (d * b + r)
  BY <1>1, <1>2, <1>3
<1>6. i \div (2 * d) = h
  <2>1. 2 * d \in Nat \ {0}
    BY <1>1
  <2> DEFINE e == 2 * d
             s == d * b + r
  <2>2. e \in Nat \ {0} /\ s \in 0 .. e - 1 /\ i = e * h + s
    BY <1>4, <1>5, <2>1
  <2> HIDE DEF e, s
  <2>3. i \div e = h
    BY <1>3, <2>2, DivIs
  <2>4. QED
    BY <2>3 DEF e
<1>7. i \div 2 ^ 0 = i
  OBVIOUS
<1>8. QED
  BY <1>1, <1>2, <1>6, <1>7 DEF d, q, h

-----------------------------------------------------------------------------
(* The recursive functions of the model exist, and so satisfy the          *)
(* equations they are defined by.                                          *)

LEMMA ZeroesAre ==
  /\ Zeroes[0] = EmptyLeaf
  /\ \A l \in 0 .. Levels - 1 : Zeroes[l + 1] = <<Zeroes[l], Zeroes[l]>>
<1> DEFINE Is(z, m) == z = [l \in 0 .. m |-> IF l = 0 THEN EmptyLeaf ELSE <<z[l - 1], z[l - 1]>>]
           S == {m \in 0 .. Levels : \E z : Is(z, m)}
<1>0. Levels \in Nat /\ Levels >= 1
  BY LevelsAssumption
<1>1. \A m \in 0 .. Levels : m \in S
  <2>1. 0 \in S
    <3>1. Is([l \in 0 .. 0 |-> EmptyLeaf], 0)
      OBVIOUS
    <3> HIDE DEF Is
    <3>2. QED
      BY <1>0, <3>1
  <2>2. ASSUME NEW m \in 0 .. Levels - 1, m \in S PROVE m + 1 \in S
    <3>1. PICK z : Is(z, m)
      BY <2>2
    <3> DEFINE y == [l \in 0 .. m + 1 |-> IF l = m + 1 THEN <<z[m], z[m]>> ELSE z[l]]
    <3>2. ASSUME NEW l \in 0 .. m + 1
          PROVE  y[l] = IF l = 0 THEN EmptyLeaf ELSE <<y[l - 1], y[l - 1]>>
      <4>1. CASE l = m + 1
        <5>1. y[l] = <<z[m], z[m]>> /\ y[m] = z[m] /\ l - 1 = m /\ l # 0
          BY <1>0, <4>1
        <5> HIDE DEF y
        <5>2. QED
          BY <5>1
      <4>2. CASE l # m + 1 /\ l # 0
        <5>1. y[l] = z[l] /\ y[l - 1] = z[l - 1] /\ l \in 0 .. m
          BY <1>0, <4>2
        <5>2. z[l] = <<z[l - 1], z[l - 1]>>
          BY <3>1, <4>2, <5>1
        <5> HIDE DEF y
        <5>3. QED
          BY <4>2, <5>1, <5>2
      <4>3. CASE l = 0
        BY <1>0, <3>1, <4>3
      <4>4. QED
        BY <1>0, <4>1, <4>2, <4>3
    <3>3. y = [l \in 0 .. m + 1 |-> IF l = 0 THEN EmptyLeaf ELSE <<y[l - 1], y[l - 1]>>]
      <4>1. y = [l \in 0 .. m + 1 |-> y[l]]
        OBVIOUS
      <4> HIDE DEF y
      <4>2. QED
        BY <3>2, <4>1
    <3>4. Is(y, m + 1)
      BY <3>3
    <3>5. m + 1 \in 0 .. Levels
      BY <1>0
    <3> HIDE DEF Is, y
    <3>6. QED
      BY <3>4, <3>5
  <2> HIDE DEF S
  <2>3. QED
    BY <1>0, <2>1, <2>2, Climb
<1>2. \E z : Is(z, Levels)
  <2> HIDE DEF Is
  <2>1. QED
    BY <1>0, <1>1
<1>3. Zeroes = CHOOSE z : Is(z, Levels)
  BY DEF Zeroes, Hash
<1>4. Is(Zeroes, Levels)
  <2> HIDE DEF Is
  <2>1. QED
    BY <1>2, <1>3
<1>5. Zeroes[0] = EmptyLeaf
  BY <1>0, <1>4
<1>6. ASSUME NEW l \in 0 .. Levels - 1 PROVE Zeroes[l + 1] = <<Zeroes[l], Zeroes[l]>>
  <2>1. l + 1 \in 0 .. Levels /\ l + 1 # 0 /\ (l + 1) - 1 = l
    BY <1>0
  <2>2. QED
    BY <1>4, <2>1
<1>7. QED
  BY <1>5, <1>6

\* A path: left has the siblings of right children, right those of left ones.
FoldPath(from, left, right, index, hash) ==
  LET node[lvl \in from .. Levels] ==
        IF lvl = from THEN hash
        ELSE IF IsRight(index, lvl - 1) THEN Hash(left[lvl - 1], node[lvl - 1])
        ELSE Hash(node[lvl - 1], right[lvl - 1])
  IN  node

LEMMA FoldPathIs ==
  ASSUME NEW from \in 0 .. Levels, NEW left, NEW right, NEW index, NEW hash
  PROVE  LET node == FoldPath(from, left, right, index, hash)
         IN  /\ node[from] = hash
             /\ \A l \in from .. Levels - 1 :
                  node[l + 1] = IF IsRight(index, l) THEN <<left[l], node[l]>>
                                ELSE <<node[l], right[l]>>
<1> DEFINE Next1(z, l) == IF IsRight(index, l) THEN <<left[l], z[l]>> ELSE <<z[l], right[l]>>
           Is(z, m) == z = [l \in from .. m |-> IF l = from THEN hash ELSE Next1(z, l - 1)]
           S == {m \in from .. Levels : \E z : Is(z, m)}
           node == FoldPath(from, left, right, index, hash)
<1>0. Levels \in Nat /\ from \in Nat /\ from <= Levels
  BY LevelsAssumption
<1>1. \A m \in from .. Levels : m \in S
  <2>1. from \in S
    <3>1. Is([l \in from .. from |-> hash], from)
      BY <1>0
    <3> HIDE DEF Is
    <3>2. QED
      BY <1>0, <3>1
  <2>2. ASSUME NEW m \in from .. Levels - 1, m \in S PROVE m + 1 \in S
    <3>1. PICK z : Is(z, m)
      BY <2>2
    <3> DEFINE y == [l \in from .. m + 1 |-> IF l = m + 1 THEN Next1(z, m) ELSE z[l]]
    <3>2. ASSUME NEW l \in from .. m + 1
          PROVE  y[l] = IF l = from THEN hash ELSE Next1(y, l - 1)
      <4>1. CASE l = m + 1
        <5>1. y[l] = Next1(z, m) /\ y[m] = z[m] /\ l - 1 = m /\ l # from
          BY <1>0, <4>1
        <5>2. Next1(y, m) = Next1(z, m)
          <6> HIDE DEF y
          <6>1. QED
            BY <5>1
        <5> HIDE DEF y, Next1
        <5>3. QED
          BY <5>1, <5>2
      <4>2. CASE l # m + 1 /\ l # from
        <5>1. y[l] = z[l] /\ y[l - 1] = z[l - 1] /\ l \in from .. m
          BY <1>0, <4>2
        <5>2. Next1(y, l - 1) = Next1(z, l - 1)
          <6> HIDE DEF y
          <6>1. QED
            BY <5>1
        <5>3. z[l] = Next1(z, l - 1)
          <6> HIDE DEF Next1
          <6>1. QED
            BY <3>1, <4>2, <5>1
        <5> HIDE DEF y, Next1
        <5>4. QED
          BY <4>2, <5>1, <5>2, <5>3
      <4>3. CASE l = from
        BY <1>0, <3>1, <4>3
      <4>4. QED
        BY <1>0, <4>1, <4>2, <4>3
    <3>3. y = [l \in from .. m + 1 |-> IF l = from THEN hash ELSE Next1(y, l - 1)]
      <4>1. y = [l \in from .. m + 1 |-> y[l]]
        OBVIOUS
      <4> HIDE DEF y, Next1
      <4>2. QED
        BY <3>2, <4>1
    <3>4. Is(y, m + 1)
      BY <3>3
    <3>5. m + 1 \in from .. Levels
      BY <1>0
    <3> HIDE DEF Is, y
    <3>6. QED
      BY <3>4, <3>5
  <2> HIDE DEF S
  <2>3. QED
    BY <1>0, <2>1, <2>2, Climb
<1>2. \E z : Is(z, Levels)
  <2> HIDE DEF Is
  <2>1. QED
    BY <1>0, <1>1
<1>3. node = CHOOSE z : Is(z, Levels)
  BY DEF FoldPath, Hash
<1>4. Is(node, Levels)
  <2> HIDE DEF Is, node
  <2>1. QED
    BY <1>2, <1>3
<1> HIDE DEF node
<1>5. node[from] = hash
  BY <1>0, <1>4
<1>6. ASSUME NEW l \in from .. Levels - 1 PROVE node[l + 1] = Next1(node, l)
  <2>1. l + 1 \in from .. Levels /\ l + 1 # from /\ (l + 1) - 1 = l
    BY <1>0
  <2> HIDE DEF Next1
  <2>2. QED
    BY <1>4, <2>1
<1>7. QED
  BY <1>5, <1>6 DEF node

LEMMA RowsAre ==
  ASSUME NEW p
  PROVE  /\ Rows(p)[0] = p
         /\ \A l \in 0 .. Levels - 1 : Rows(p)[l + 1] = NextRow(Rows(p)[l], l)
<1> DEFINE Is(z, m) == z = [l \in 0 .. m |-> IF l = 0 THEN p ELSE NextRow(z[l - 1], l - 1)]
           S == {m \in 0 .. Levels : \E z : Is(z, m)}
<1>0. Levels \in Nat /\ Levels >= 1
  BY LevelsAssumption
<1>1. \A m \in 0 .. Levels : m \in S
  <2>1. 0 \in S
    <3>1. Is([l \in 0 .. 0 |-> p], 0)
      OBVIOUS
    <3> HIDE DEF Is
    <3>2. QED
      BY <1>0, <3>1
  <2>2. ASSUME NEW m \in 0 .. Levels - 1, m \in S PROVE m + 1 \in S
    <3>1. PICK z : Is(z, m)
      BY <2>2
    <3> DEFINE y == [l \in 0 .. m + 1 |-> IF l = m + 1 THEN NextRow(z[m], m) ELSE z[l]]
    <3>2. ASSUME NEW l \in 0 .. m + 1
          PROVE  y[l] = IF l = 0 THEN p ELSE NextRow(y[l - 1], l - 1)
      <4>1. CASE l = m + 1
        <5>1. y[l] = NextRow(z[m], m) /\ y[m] = z[m] /\ l - 1 = m /\ l # 0
          BY <1>0, <4>1
        <5> HIDE DEF y
        <5>2. QED
          BY <5>1
      <4>2. CASE l # m + 1 /\ l # 0
        <5>1. y[l] = z[l] /\ y[l - 1] = z[l - 1] /\ l \in 0 .. m
          BY <1>0, <4>2
        <5>2. z[l] = NextRow(z[l - 1], l - 1)
          BY <3>1, <4>2, <5>1
        <5> HIDE DEF y
        <5>3. QED
          BY <4>2, <5>1, <5>2
      <4>3. CASE l = 0
        BY <1>0, <3>1, <4>3
      <4>4. QED
        BY <1>0, <4>1, <4>2, <4>3
    <3>3. y = [l \in 0 .. m + 1 |-> IF l = 0 THEN p ELSE NextRow(y[l - 1], l - 1)]
      <4>1. y = [l \in 0 .. m + 1 |-> y[l]]
        OBVIOUS
      <4> HIDE DEF y
      <4>2. QED
        BY <3>2, <4>1
    <3>4. Is(y, m + 1)
      BY <3>3
    <3>5. m + 1 \in 0 .. Levels
      BY <1>0
    <3> HIDE DEF Is, y
    <3>6. QED
      BY <3>4, <3>5
  <2> HIDE DEF S
  <2>3. QED
    BY <1>0, <2>1, <2>2, Climb
<1>2. \E z : Is(z, Levels)
  <2> HIDE DEF Is
  <2>1. QED
    BY <1>0, <1>1
<1>3. Rows(p) = CHOOSE z : Is(z, Levels)
  BY DEF Rows
<1>4. Is(Rows(p), Levels)
  <2> HIDE DEF Is
  <2>1. QED
    BY <1>2, <1>3
<1>5. QED
  BY <1>0, <1>4

-----------------------------------------------------------------------------
(* The nodes of the client's tree: how each is made of two, and which      *)
(* leaves it tells.                                                        *)

\* Node j of height lvl in the tree of a prefix.
NodeAt(prefix, lvl, j) == Get(Rows(prefix)[lvl], j + 1, lvl)

\* A row of nodes.
RowOf(row, n) == row = [i \in 1 .. n |-> row[i]] /\ Len(row) = n /\ DOMAIN row = 1 .. n

LEMMA SequenceIsRow ==
  ASSUME NEW S, NEW p \in Seq(S)
  PROVE  RowOf(p, Len(p)) /\ Len(p) \in Nat
BY DEF RowOf

LEMMA FunctionIsRow ==
  ASSUME NEW n \in Nat, NEW row, row = [i \in 1 .. n |-> row[i]]
  PROVE  RowOf(row, n)
<1> DEFINE S == {row[i] : i \in 1 .. n}
<1>1. row \in [1 .. n -> S]
  <2>1. \A i \in 1 .. n : row[i] \in S
    OBVIOUS
  <2> HIDE DEF S
  <2>2. QED
    BY <2>1
<1> HIDE DEF S
<1>2. row \in Seq(S)
  BY <1>1
<1>3. Len(row) \in Nat /\ DOMAIN row = 1 .. Len(row) /\ DOMAIN row = 1 .. n
  BY <1>1, <1>2
<1>4. Len(row) = n
  BY <1>3
<1>5. QED
  BY <1>3, <1>4 DEF RowOf

\* The row above: node i is made of nodes 2 * i - 1 and 2 * i.
LEMMA NextRowIs ==
  ASSUME NEW row, NEW n \in Nat, RowOf(row, n), NEW l \in 0 .. Levels - 1
  PROVE  /\ \E k \in Nat \ {0} : RowOf(NextRow(row, l), k)
         /\ \A j \in Nat : Get(NextRow(row, l), j + 1, l + 1)
                             = <<Get(row, 2 * j + 1, l), Get(row, 2 * j + 2, l)>>
<1> DEFINE padded == IF row = <<>> THEN <<Zeroes[l]>> ELSE row
           m == IF n = 0 THEN 1 ELSE n
           k == (m + 1) \div 2
           up == NextRow(row, l)
<1>0. Levels \in Nat /\ l \in Nat /\ l + 1 \in 0 .. Levels
  BY LevelsAssumption
<1>1. m \in Nat \ {0} /\ RowOf(padded, m)
  <2>1. CASE n = 0
    <3>1. row = <<>>
      BY <2>1 DEF RowOf
    <3>2. padded = <<Zeroes[l]>> /\ m = 1
      BY <2>1, <3>1
    <3>3. Len(<<Zeroes[l]>>) = 1 /\ DOMAIN <<Zeroes[l]>> = 1 .. 1
          /\ <<Zeroes[l]>> = [i \in 1 .. 1 |-> <<Zeroes[l]>>[i]]
      OBVIOUS
    <3> HIDE DEF padded, m
    <3>4. QED
      BY <3>2, <3>3 DEF RowOf
  <2>2. CASE n # 0
    <3>1. row # <<>>
      <4>1. Len(<<>>) = 0
        OBVIOUS
      <4>2. QED
        BY <2>2, <4>1 DEF RowOf
    <3>2. QED
      BY <2>2, <3>1
  <2>3. QED
    BY <2>1, <2>2
<1>2. \A i \in Nat : Get(padded, i, l) = Get(row, i, l)
  <2>1. CASE row = <<>>
    <3>1. DOMAIN row = {} /\ DOMAIN padded = 1 .. 1 /\ padded[1] = Zeroes[l]
      BY <2>1
    <3> HIDE DEF padded
    <3>2. QED
      BY <3>1 DEF Get
  <2>2. CASE row # <<>>
    BY <2>2
  <2>3. QED
    BY <2>1, <2>2
<1>3. up = [i \in 1 .. (Len(padded) + 1) \div 2 |->
              <<Get(padded, 2 * i - 1, l), Get(padded, 2 * i, l)>>]
  BY DEF NextRow, Hash
<1> HIDE DEF padded, m
<1>4. Len(padded) = m /\ DOMAIN padded = 1 .. m
  BY <1>1 DEF RowOf
<1>5. k \in Nat \ {0} /\ 2 * k >= m
  BY <1>1
<1>6. up = [i \in 1 .. k |-> <<Get(padded, 2 * i - 1, l), Get(padded, 2 * i, l)>>]
  BY <1>3, <1>4
<1> HIDE DEF k, up
<1>7. RowOf(up, k)
  <2>1. up = [i \in 1 .. k |-> up[i]]
    BY <1>6
  <2>2. QED
    BY <1>5, <2>1, FunctionIsRow
<1>8. ASSUME NEW j \in Nat
      PROVE  Get(up, j + 1, l + 1) = <<Get(row, 2 * j + 1, l), Get(row, 2 * j + 2, l)>>
  <2>1. CASE j + 1 <= k
    <3>1. j + 1 \in 1 .. k /\ 2 * (j + 1) - 1 = 2 * j + 1 /\ 2 * (j + 1) = 2 * j + 2
      BY <1>5, <2>1
    <3>2. Get(up, j + 1, l + 1) = up[j + 1]
      BY <1>7, <3>1 DEF Get, RowOf
    <3>3. up[j + 1] = <<Get(padded, 2 * j + 1, l), Get(padded, 2 * j + 2, l)>>
      BY <1>6, <3>1
    <3>4. 2 * j + 1 \in Nat /\ 2 * j + 2 \in Nat
      OBVIOUS
    <3>5. QED
      BY <1>2, <3>2, <3>3, <3>4
  <2>2. CASE j + 1 > k
    <3>1. j + 1 \notin 1 .. k /\ 2 * j + 1 \notin 1 .. m /\ 2 * j + 2 \notin 1 .. m
      BY <1>1, <1>5, <2>2
    <3>2. Get(up, j + 1, l + 1) = Zeroes[l + 1]
      BY <1>7, <3>1 DEF Get, RowOf
    <3>3. Get(padded, 2 * j + 1, l) = Zeroes[l] /\ Get(padded, 2 * j + 2, l) = Zeroes[l]
      BY <1>4, <3>1 DEF Get
    <3>4. 2 * j + 1 \in Nat /\ 2 * j + 2 \in Nat
      OBVIOUS
    <3>5. Zeroes[l + 1] = <<Zeroes[l], Zeroes[l]>>
      BY ZeroesAre
    <3>6. QED
      BY <1>2, <3>2, <3>3, <3>4, <3>5
  <2>3. j + 1 <= k \/ j + 1 > k
    BY <1>5
  <2>4. QED
    BY <2>1, <2>2, <2>3
<1>9. QED
  BY <1>5, <1>7, <1>8 DEF up

\* The leaves, the nodes over them, and the root.
LEMMA NodesAre ==
  ASSUME NEW S, NEW p \in Seq(S)
  PROVE  /\ \A j \in Nat : NodeAt(p, 0, j) = IF j < Len(p) THEN p[j + 1] ELSE EmptyLeaf
         /\ \A l \in 0 .. Levels - 1 : \A j \in Nat :
              NodeAt(p, l + 1, j) = <<NodeAt(p, l, 2 * j), NodeAt(p, l, 2 * j + 1)>>
         /\ PrefixRoot(p) = NodeAt(p, Levels, 0)
<1> DEFINE row(l) == Rows(p)[l]
           T == {l \in 0 .. Levels : \E n \in Nat : RowOf(row(l), n)}
<1>0. Levels \in Nat /\ Levels >= 1 /\ Levels - 1 \in 0 .. Levels - 1 /\ (Levels - 1) + 1 = Levels
  BY LevelsAssumption
<1>1. row(0) = p /\ \A l \in 0 .. Levels - 1 : row(l + 1) = NextRow(row(l), l)
  BY RowsAre
<1> HIDE DEF row
<1>2. \A l \in 0 .. Levels : l \in T
  <2>1. 0 \in T
    BY <1>0, <1>1, SequenceIsRow
  <2>2. ASSUME NEW l \in 0 .. Levels - 1, l \in T PROVE l + 1 \in T
    <3>1. PICK n \in Nat : RowOf(row(l), n)
      BY <2>2
    <3>2. PICK k \in Nat \ {0} : RowOf(NextRow(row(l), l), k)
      BY <3>1, NextRowIs
    <3>3. l + 1 \in 0 .. Levels
      BY <1>0
    <3>4. QED
      BY <1>1, <3>2, <3>3
  <2> HIDE DEF T
  <2>3. QED
    BY <1>0, <2>1, <2>2, Climb
<1>3. ASSUME NEW j \in Nat
      PROVE  NodeAt(p, 0, j) = IF j < Len(p) THEN p[j + 1] ELSE EmptyLeaf
  <2>1. NodeAt(p, 0, j) = Get(p, j + 1, 0) /\ Zeroes[0] = EmptyLeaf
    BY <1>1, ZeroesAre DEF NodeAt, row
  <2>2. DOMAIN p = 1 .. Len(p) /\ Len(p) \in Nat
    OBVIOUS
  <2>3. j + 1 \in 1 .. Len(p) <=> j < Len(p)
    BY <2>2
  <2>4. QED
    BY <2>1, <2>2, <2>3 DEF Get
<1>4. ASSUME NEW l \in 0 .. Levels - 1, NEW j \in Nat
      PROVE  NodeAt(p, l + 1, j) = <<NodeAt(p, l, 2 * j), NodeAt(p, l, 2 * j + 1)>>
  <2>1. l \in 0 .. Levels
    BY <1>0
  <2>2. PICK n \in Nat : RowOf(row(l), n)
    BY <1>2, <2>1
  <2>3. Get(NextRow(row(l), l), j + 1, l + 1)
          = <<Get(row(l), 2 * j + 1, l), Get(row(l), 2 * j + 2, l)>>
    BY <2>2, NextRowIs
  <2>4. (2 * j + 1) + 1 = 2 * j + 2
    OBVIOUS
  <2>5. QED
    BY <1>1, <2>3, <2>4 DEF NodeAt, row
<1>5. PrefixRoot(p) = NodeAt(p, Levels, 0)
  <2>1. PICK n \in Nat : RowOf(row(Levels - 1), n)
    BY <1>0, <1>2
  <2>2. PICK k \in Nat \ {0} : RowOf(NextRow(row(Levels - 1), Levels - 1), k)
    BY <1>0, <2>1, NextRowIs
  <2>3. RowOf(row(Levels), k)
    BY <1>0, <1>1, <2>2
  <2>4. 0 + 1 \in DOMAIN row(Levels) /\ 0 + 1 = 1
    BY <2>3 DEF RowOf
  <2>5. QED
    BY <2>4 DEF PrefixRoot, NodeAt, Get, row
<1>6. QED
  BY <1>3, <1>4, <1>5

\* The leaf of index i, and whether two prefixes have the same under node j.
LeafAt(prefix, i) == NodeAt(prefix, 0, i)

SameUnder(p, q, lvl, j) ==
  \A i \in Nat : j * 2 ^ lvl <= i /\ i < (j + 1) * 2 ^ lvl => LeafAt(p, i) = LeafAt(q, i)

\* A node tells the leaves under it, and nothing else.
LEMMA NodesTellLeaves ==
  ASSUME NEW S, NEW T, NEW p \in Seq(S), NEW q \in Seq(T)
  PROVE  \A l \in 0 .. Levels : \A j \in Nat :
           NodeAt(p, l, j) = NodeAt(q, l, j) <=> SameUnder(p, q, l, j)
<1> DEFINE H == {l \in 0 .. Levels : \A j \in Nat :
                   NodeAt(p, l, j) = NodeAt(q, l, j) <=> SameUnder(p, q, l, j)}
<1>0. Levels \in Nat /\ Levels >= 1
  BY LevelsAssumption
<1>1. 0 \in H
  <2>1. ASSUME NEW j \in Nat
        PROVE  NodeAt(p, 0, j) = NodeAt(q, 0, j) <=> SameUnder(p, q, 0, j)
    <3>1. 2 ^ 0 = 1 /\ j * 1 = j /\ (j + 1) * 1 = j + 1
      OBVIOUS
    <3>2. \A i \in Nat : j <= i /\ i < j + 1 <=> i = j
      OBVIOUS
    <3>3. QED
      BY <3>1, <3>2 DEF SameUnder, LeafAt
  <2>2. QED
    BY <1>0, <2>1
<1>2. ASSUME NEW l \in 0 .. Levels - 1, l \in H PROVE l + 1 \in H
  <2>1. ASSUME NEW j \in Nat
        PROVE  NodeAt(p, l + 1, j) = NodeAt(q, l + 1, j) <=> SameUnder(p, q, l + 1, j)
    <3> DEFINE d == 2 ^ l
               a == (2 * j) * d
               b == (2 * j + 1) * d
               c == (2 * j + 2) * d
    <3>1. d \in Nat \ {0} /\ 2 ^ (l + 1) = 2 * d
      BY PowerIs
    <3>2. j * 2 ^ (l + 1) = a /\ (j + 1) * 2 ^ (l + 1) = c
      <4> HIDE DEF d
      <4>1. j * (2 * d) = (2 * j) * d /\ (j + 1) * (2 * d) = (2 * j + 2) * d
        BY <3>1
      <4>2. QED
        BY <3>1, <4>1
    <3>3. a \in Nat /\ b \in Nat /\ c \in Nat /\ a <= b /\ b <= c
      <4> HIDE DEF d
      <4>1. b = a + d /\ c = b + d /\ a \in Nat
        BY <3>1
      <4> HIDE DEF a, b, c
      <4>2. QED
        BY <3>1, <4>1
    <3>4. 2 * j \in Nat /\ 2 * j + 1 \in Nat /\ (2 * j + 1) + 1 = 2 * j + 2
      OBVIOUS
    <3>5. NodeAt(p, l + 1, j) = NodeAt(q, l + 1, j)
          <=> /\ NodeAt(p, l, 2 * j) = NodeAt(q, l, 2 * j)
              /\ NodeAt(p, l, 2 * j + 1) = NodeAt(q, l, 2 * j + 1)
      <4>1. NodeAt(p, l + 1, j) = <<NodeAt(p, l, 2 * j), NodeAt(p, l, 2 * j + 1)>>
        BY NodesAre
      <4>2. NodeAt(q, l + 1, j) = <<NodeAt(q, l, 2 * j), NodeAt(q, l, 2 * j + 1)>>
        BY NodesAre
      <4> DEFINE pl == NodeAt(p, l, 2 * j)
                 pr == NodeAt(p, l, 2 * j + 1)
                 ql == NodeAt(q, l, 2 * j)
                 qr == NodeAt(q, l, 2 * j + 1)
      <4> HIDE DEF pl, pr, ql, qr
      <4>3. <<pl, pr>> = <<ql, qr>> <=> pl = ql /\ pr = qr
        OBVIOUS
      <4>4. QED
        BY <4>1, <4>2, <4>3 DEF pl, pr, ql, qr
    <3>6. /\ NodeAt(p, l, 2 * j) = NodeAt(q, l, 2 * j) <=> SameUnder(p, q, l, 2 * j)
          /\ NodeAt(p, l, 2 * j + 1) = NodeAt(q, l, 2 * j + 1)
               <=> SameUnder(p, q, l, 2 * j + 1)
      BY <1>2, <3>4
    <3>7. SameUnder(p, q, l, 2 * j)
          <=> \A i \in Nat : a <= i /\ i < b => LeafAt(p, i) = LeafAt(q, i)
      BY DEF SameUnder
    <3>8. SameUnder(p, q, l, 2 * j + 1)
          <=> \A i \in Nat : b <= i /\ i < c => LeafAt(p, i) = LeafAt(q, i)
      BY <3>4 DEF SameUnder
    <3>9. SameUnder(p, q, l + 1, j)
          <=> \A i \in Nat : a <= i /\ i < c => LeafAt(p, i) = LeafAt(q, i)
      BY <3>2 DEF SameUnder
    <3> HIDE DEF a, b, c
    <3>10. \A i \in Nat : (a <= i /\ i < c) <=> (a <= i /\ i < b) \/ (b <= i /\ i < c)
      BY <3>3
    <3>11. QED
      BY <3>5, <3>6, <3>7, <3>8, <3>9, <3>10
  <2>2. l + 1 \in 0 .. Levels
    BY <1>0
  <2>3. QED
    BY <2>1, <2>2
<1> HIDE DEF H
<1>3. \A l \in 0 .. Levels : l \in H
  BY <1>0, <1>1, <1>2, Climb
<1>4. QED
  BY <1>3 DEF H

\* The tree of no leaves is that of empty subtrees.
LEMMA EmptyNodes ==
  \A l \in 0 .. Levels : \A j \in Nat : NodeAt(<<>>, l, j) = Zeroes[l]
<1> DEFINE H == {l \in 0 .. Levels : \A j \in Nat : NodeAt(<<>>, l, j) = Zeroes[l]}
<1>0. Levels \in Nat /\ Levels >= 1 /\ <<>> \in Seq({}) /\ Len(<<>>) = 0
  BY LevelsAssumption
<1>1. 0 \in H
  <2>1. ASSUME NEW j \in Nat PROVE NodeAt(<<>>, 0, j) = Zeroes[0]
    <3>1. ~(j < Len(<<>>))
      BY <1>0
    <3>2. NodeAt(<<>>, 0, j) = EmptyLeaf
      BY <1>0, <3>1, NodesAre
    <3>3. QED
      BY <3>2, ZeroesAre
  <2>2. QED
    BY <1>0, <2>1
<1>2. ASSUME NEW l \in 0 .. Levels - 1, l \in H PROVE l + 1 \in H
  <2>1. l + 1 \in 0 .. Levels
    BY <1>0
  <2>2. ASSUME NEW j \in Nat PROVE NodeAt(<<>>, l + 1, j) = Zeroes[l + 1]
    <3>1. 2 * j \in Nat /\ 2 * j + 1 \in Nat
      OBVIOUS
    <3>2. NodeAt(<<>>, l + 1, j) = <<NodeAt(<<>>, l, 2 * j), NodeAt(<<>>, l, 2 * j + 1)>>
      BY <1>0, NodesAre
    <3>3. NodeAt(<<>>, l, 2 * j) = Zeroes[l] /\ NodeAt(<<>>, l, 2 * j + 1) = Zeroes[l]
      BY <1>2, <3>1
    <3>4. QED
      BY <3>2, <3>3, ZeroesAre
  <2>3. QED
    BY <2>1, <2>2
<1> HIDE DEF H
<1>3. \A l \in 0 .. Levels : l \in H
  BY <1>0, <1>1, <1>2, Climb
<1>4. QED
  BY <1>3 DEF H

\* Beyond the last leaf there are empty subtrees.
LEMMA BeyondIsEmpty ==
  ASSUME NEW S, NEW p \in Seq(S), NEW l \in 0 .. Levels, NEW j \in Nat, j * 2 ^ l >= Len(p)
  PROVE  NodeAt(p, l, j) = Zeroes[l]
<1> DEFINE q == <<>>
<1>1. q \in Seq({}) /\ Len(q) = 0 /\ Len(p) \in Nat
  OBVIOUS
<1>2. NodeAt(q, l, j) = Zeroes[l]
  BY EmptyNodes
<1> HIDE DEF q
<1>3. j * 2 ^ l \in Nat
  <2> DEFINE d == 2 ^ l
  <2>1. d \in Nat
    BY PowerIs, LevelsAssumption
  <2> HIDE DEF d
  <2>2. j * d \in Nat
    BY <2>1
  <2>3. QED
    BY <2>2 DEF d
<1>4. ASSUME NEW i \in Nat, j * 2 ^ l <= i PROVE LeafAt(p, i) = LeafAt(q, i)
  <2>1. ~(i < Len(p)) /\ ~(i < Len(q))
    BY <1>1, <1>3, <1>4
  <2>2. LeafAt(p, i) = EmptyLeaf
    BY <2>1, NodesAre DEF LeafAt
  <2>3. LeafAt(q, i) = EmptyLeaf
    BY <1>1, <2>1, NodesAre DEF LeafAt
  <2>4. QED
    BY <2>2, <2>3
<1>5. SameUnder(p, q, l, j)
  BY <1>4 DEF SameUnder
<1>6. NodeAt(p, l, j) = NodeAt(q, l, j)
  <2>1. \A m \in 0 .. Levels : \A h \in Nat :
          NodeAt(p, m, h) = NodeAt(q, m, h) <=> SameUnder(p, q, m, h)
    BY <1>1, NodesTellLeaves
  <2>2. QED
    BY <1>5, <2>1
<1>7. QED
  BY <1>2, <1>6

\* A subtree that is full keeps its node when leaves are added.
LEMMA FullIsKept ==
  ASSUME NEW S, NEW p \in Seq(S), NEW q \in Seq(S), Len(p) <= Len(q),
         \A i \in 1 .. Len(p) : q[i] = p[i],
         NEW l \in 0 .. Levels, NEW j \in Nat, (j + 1) * 2 ^ l <= Len(p)
  PROVE  NodeAt(q, l, j) = NodeAt(p, l, j)
<1> DEFINE e == (j + 1) * 2 ^ l
<1>1. e \in Nat
  <2> DEFINE d == 2 ^ l
  <2>1. d \in Nat
    BY PowerIs, LevelsAssumption
  <2> HIDE DEF d
  <2>2. (j + 1) * d \in Nat
    BY <2>1
  <2>3. QED
    BY <2>2 DEF d
<1>2. e <= Len(p)
  OBVIOUS
<1>3. ASSUME NEW i \in Nat, i < e PROVE LeafAt(q, i) = LeafAt(p, i)
  <2> HIDE DEF e
  <2>1. Len(p) \in Nat /\ Len(q) \in Nat
    OBVIOUS
  <2>2. i < Len(p) /\ i < Len(q) /\ i + 1 \in 1 .. Len(p)
    BY <1>1, <1>2, <1>3, <2>1
  <2>3. LeafAt(p, i) = p[i + 1]
    BY <2>2, NodesAre DEF LeafAt
  <2>4. LeafAt(q, i) = q[i + 1]
    BY <2>2, NodesAre DEF LeafAt
  <2>5. QED
    BY <2>2, <2>3, <2>4
<1>4. SameUnder(q, p, l, j)
  BY <1>3 DEF SameUnder
<1>5. QED
  BY <1>4, NodesTellLeaves

\* One leaf more, or two more of an even number of them, at a height above them.
LEMMA SizesNear ==
  ASSUME NEW n \in Nat, NEW w \in {1, 2}, NEW l \in Nat, w = 2 => n % 2 = 0 /\ l # 0
  PROVE  /\ n \div 2 ^ l \in Nat
         /\ (n \div 2 ^ l) * 2 ^ l <= n /\ n + w <= (n \div 2 ^ l + 1) * 2 ^ l
         /\ (n + w) \div 2 ^ l \in {n \div 2 ^ l, n \div 2 ^ l + 1}
<1> DEFINE d == 2 ^ l
           a == n \div d
           r == n % d
<1>1. d \in Nat \ {0}
  BY PowerIs
<1>2. w = 2 => \E e \in Nat : d = 2 * e
  <2>1. ASSUME w = 2 PROVE \E e \in Nat : d = 2 * e
    <3> DEFINE e == 2 ^ (l - 1)
    <3>1. l - 1 \in Nat /\ (l - 1) + 1 = l
      BY <2>1
    <3>2. e \in Nat /\ 2 ^ ((l - 1) + 1) = 2 * e
      BY <3>1, PowerIs
    <3>3. d = 2 * e
      BY <3>1, <3>2
    <3> HIDE DEF d, e
    <3>4. QED
      BY <3>2, <3>3
  <2>2. QED
    BY <2>1
<1> HIDE DEF d
<1>3. a \in Nat /\ r \in 0 .. d - 1 /\ n = d * a + r
  BY <1>1, DivHas
<1> HIDE DEF a, r
<1>4. r + w <= d
  <2>1. CASE w = 1
    BY <1>1, <1>3, <2>1
  <2>2. CASE w = 2
    <3>1. PICK e \in Nat : d = 2 * e
      BY <1>2, <2>2
    <3>2. PICK m \in Nat : n = 2 * m
      <4>1. n = 2 * (n \div 2)
        BY <2>2
      <4>2. QED
        BY <4>1
    <3>3. r = 2 * (m - e * a)
      <4>1. d * a = 2 * (e * a)
        BY <1>3, <3>1
      <4>2. e * a \in Nat
        BY <1>3
      <4>3. QED
        BY <1>1, <1>3, <3>2, <4>1, <4>2
    <3> DEFINE k == m - e * a
    <3>4. k \in Int
      BY <1>3
    <3>5. r = 2 * k
      BY <3>3
    <3> HIDE DEF k
    <3>6. QED
      BY <1>1, <1>3, <2>2, <3>1, <3>4, <3>5
  <2>3. QED
    BY <2>1, <2>2
<1>5. a * d <= n /\ n + w <= (a + 1) * d
  <2>1. (a + 1) * d = d * a + d /\ a * d = d * a /\ d * a \in Nat
    BY <1>1, <1>3
  <2>2. QED
    BY <1>1, <1>3, <1>4, <2>1
<1>6. (n + w) \div d \in {a, a + 1}
  <2>1. CASE r + w < d
    <3>1. n + w = d * a + (r + w) /\ r + w \in 0 .. d - 1 /\ n + w \in Nat
      <4>1. d * a \in Nat
        BY <1>1, <1>3
      <4>2. QED
        BY <1>1, <1>3, <2>1, <4>1
    <3>2. (n + w) \div d = a
      BY <1>1, <1>3, <3>1, DivIs
    <3>3. QED
      BY <3>2
  <2>2. CASE r + w = d
    <3>1. n + w = d * (a + 1) + 0 /\ 0 \in 0 .. d - 1 /\ n + w \in Nat /\ a + 1 \in Nat
      <4>1. d * (a + 1) = d * a + d /\ d * a \in Nat
        BY <1>1, <1>3
      <4>2. QED
        BY <1>1, <1>3, <2>2, <4>1
    <3>2. (n + w) \div d = a + 1
      BY <1>1, <3>1, DivIs
    <3>3. QED
      BY <3>2
  <2>3. QED
    BY <1>1, <1>3, <1>4, <2>1, <2>2
<1>7. QED
  BY <1>3, <1>5, <1>6 DEF d, a

-----------------------------------------------------------------------------
(* The contracts' update and the circuit's check, on the nodes.            *)

\* The filled subtrees that the next path needs are nodes of the tree.
FilledAre(prefix, filled) ==
  \A l \in 0 .. Levels - 1 :
    IsRight(Len(prefix), l) => filled[l] = NodeAt(prefix, l, Len(prefix) \div 2 ^ l - 1)

\* One pair of leaves or one leaf goes in at the end of p.
Grows(p, q, from) ==
  /\ from \in {0, 1}
  /\ Len(q) = Len(p) + (IF from = 0 THEN 1 ELSE 2)
  /\ from = 1 => Len(p) % 2 = 0
  /\ \A i \in 1 .. Len(p) : q[i] = p[i]

\* The path of an insertion is made of nodes of the tree with the new leaves.
LEMMA PathIsNodes ==
  ASSUME NEW S, NEW p \in Seq(S), NEW q \in Seq(S), NEW from, Grows(p, q, from),
         NEW filled, FilledAre(p, filled),
         NEW hash, hash = NodeAt(q, from, Len(p) \div 2 ^ from)
  PROVE  \A l \in from .. Levels :
           Path(from, filled, Len(p), hash)[l] = NodeAt(q, l, Len(p) \div 2 ^ l)
<1> DEFINE n == Len(p)
           w == IF from = 0 THEN 1 ELSE 2
           path == Path(from, filled, n, hash)
           H == {l \in from .. Levels : path[l] = NodeAt(q, l, n \div 2 ^ l)}
<1>0. Levels \in Nat /\ Levels >= 1 /\ from \in 0 .. Levels /\ from \in Nat /\ from <= Levels
  BY LevelsAssumption DEF Grows
<1>1. n \in Nat /\ w \in {1, 2} /\ Len(q) = n + w /\ \A i \in 1 .. n : q[i] = p[i]
  BY DEF Grows
<1>2. w = 2 => n % 2 = 0 /\ from # 0
  BY DEF Grows
<1>3. path = FoldPath(from, filled, Zeroes, n, hash)
  BY DEF Path, FoldPath
<1> HIDE DEF w, path
<1>4. path[from] = hash
  BY <1>0, <1>3, FoldPathIs
<1>5. \A l \in from .. Levels - 1 :
        path[l + 1] = IF IsRight(n, l) THEN <<filled[l], path[l]>> ELSE <<path[l], Zeroes[l]>>
  BY <1>0, <1>3, FoldPathIs
<1>6. from \in H
  BY <1>0, <1>4
<1>7. ASSUME NEW l \in from .. Levels - 1, l \in H PROVE l + 1 \in H
  <2> DEFINE a == n \div 2 ^ l
  <2>1. l \in Nat /\ l \in 0 .. Levels - 1 /\ l \in 0 .. Levels /\ l + 1 \in from .. Levels
        /\ (w = 2 => n % 2 = 0 /\ l # 0)
    BY <1>0, <1>2
  <2>2. a \in Nat /\ a * 2 ^ l <= n /\ n + w <= (a + 1) * 2 ^ l
    BY <1>1, <2>1, SizesNear
  <2>3. n \div 2 ^ (l + 1) = a \div 2
    BY <1>1, <2>1, Halving
  <2>4. path[l] = NodeAt(q, l, a)
    BY <1>7
  <2>5. IsRight(n, l) <=> a % 2 = 1
    BY DEF IsRight
  <2> HIDE DEF a
  <2>6. a \div 2 \in Nat
    BY <2>2
  <2>7. NodeAt(q, l + 1, a \div 2)
          = <<NodeAt(q, l, 2 * (a \div 2)), NodeAt(q, l, 2 * (a \div 2) + 1)>>
    BY <2>1, <2>6, NodesAre
  <2>8. CASE a % 2 = 1
    <3>1. 2 * (a \div 2) = a - 1 /\ 2 * (a \div 2) + 1 = a /\ a - 1 \in Nat /\ (a - 1) + 1 = a
      BY <2>2, <2>8
    <3>2. filled[l] = NodeAt(p, l, a - 1)
      BY <2>1, <2>5, <2>8 DEF FilledAre, a
    <3>3. NodeAt(q, l, a - 1) = NodeAt(p, l, a - 1)
      <4>1. ((a - 1) + 1) * 2 ^ l <= n
        BY <2>2, <3>1
      <4>2. Len(p) <= Len(q)
        BY <1>1
      <4>3. QED
        BY <1>1, <2>1, <3>1, <4>1, <4>2, FullIsKept
    <3>4. path[l + 1] = <<filled[l], path[l]>>
      BY <1>5, <2>5, <2>8
    <3>5. path[l + 1] = NodeAt(q, l + 1, a \div 2)
      BY <2>4, <2>7, <3>1, <3>2, <3>3, <3>4
    <3>6. QED
      BY <2>1, <2>3, <3>5
  <2>9. CASE a % 2 # 1
    <3>1. 2 * (a \div 2) = a
      BY <2>2, <2>9
    <3>2. NodeAt(q, l, a + 1) = Zeroes[l]
      <4>1. a + 1 \in Nat /\ (a + 1) * 2 ^ l >= Len(q)
        BY <1>1, <2>2
      <4>2. QED
        BY <2>1, <4>1, BeyondIsEmpty
    <3>3. path[l + 1] = <<path[l], Zeroes[l]>>
      BY <1>5, <2>5, <2>9
    <3>4. path[l + 1] = NodeAt(q, l + 1, a \div 2)
      BY <2>4, <2>7, <3>1, <3>2, <3>3
    <3>5. QED
      BY <2>1, <2>3, <3>4
  <2>10. QED
    BY <2>8, <2>9
<1> HIDE DEF H
<1>8. \A l \in from .. Levels : l \in H
  BY <1>0, <1>6, <1>7, Climb
<1>9. QED
  BY <1>8 DEF H, path

\* A tree that is not larger than its depth allows has its root as ancestor.
LEMMA TopIsRoot ==
  ASSUME NEW i \in Nat, i < MaxLeaves
  PROVE  i \div 2 ^ Levels = 0
<1>1. 2 ^ Levels \in Nat \ {0}
  BY PowerIs, LevelsAssumption
<1>2. i < 2 ^ Levels
  BY DEF MaxLeaves
<1> DEFINE d == 2 ^ Levels
<1> HIDE DEF d
<1>3. i = d * 0 + i /\ i \in 0 .. d - 1 /\ d \in Nat \ {0}
  BY <1>1, <1>2 DEF d
<1>4. i \div d = 0
  BY <1>3, DivIs
<1>5. QED
  BY <1>4 DEF d

\* The root the contract computes is the client's, and what it keeps is
\* what the next insertion needs.
LEMMA InsertKeepsTree ==
  ASSUME NEW S, NEW p \in Seq(S), NEW q \in Seq(S), NEW from, Grows(p, q, from),
         Len(q) <= MaxLeaves, NEW filled, FilledAre(p, filled),
         NEW hash, hash = NodeAt(q, from, Len(p) \div 2 ^ from),
         NEW path, path = Path(from, filled, Len(p), hash)
  PROVE  /\ path[Levels] = PrefixRoot(q)
         /\ FilledAre(q, KeepLeft(from, filled, Len(p), path))
<1> DEFINE n == Len(p)
           w == IF from = 0 THEN 1 ELSE 2
           kept == KeepLeft(from, filled, n, path)
<1>0. Levels \in Nat /\ Levels >= 1 /\ from \in {0, 1} /\ from \in Nat /\ from <= Levels
  BY LevelsAssumption DEF Grows
<1>1. n \in Nat /\ w \in {1, 2} /\ Len(q) = n + w /\ \A i \in 1 .. n : q[i] = p[i]
  BY DEF Grows
<1>2. w = 2 => n % 2 = 0 /\ from # 0
  BY DEF Grows
<1>3. \A l \in from .. Levels : path[l] = NodeAt(q, l, n \div 2 ^ l)
  BY PathIsNodes
<1> HIDE DEF w
<1>4. path[Levels] = PrefixRoot(q)
  <2>1. n < MaxLeaves
    <3>1. MaxLeaves \in Nat
      BY PowerIs, <1>0 DEF MaxLeaves
    <3>2. QED
      BY <1>1, <3>1
  <2>2. n \div 2 ^ Levels = 0
    BY <1>1, <2>1, TopIsRoot
  <2>3. path[Levels] = NodeAt(q, Levels, 0)
    BY <1>0, <1>3, <2>2
  <2>4. QED
    BY <2>3, NodesAre
<1>5. ASSUME NEW l \in 0 .. Levels - 1, IsRight(Len(q), l)
      PROVE  kept[l] = NodeAt(q, l, Len(q) \div 2 ^ l - 1)
  <2> DEFINE a == n \div 2 ^ l
             b == (n + w) \div 2 ^ l
  <2>1. l \in from .. Levels - 1
    <3>1. CASE l < from
      <4>1. l = 0 /\ from = 1 /\ w = 2
        BY <1>0, <3>1 DEF w
      <4>2. (n + 2) % 2 = 0
        BY <1>1, <1>2, <4>1
      <4>3. Len(q) \div 2 ^ 0 = Len(q)
        BY <1>1, Halving
      <4>4. ~IsRight(Len(q), 0)
        BY <1>1, <4>1, <4>2, <4>3 DEF IsRight
      <4>5. QED
        BY <1>5, <4>1, <4>4
    <3>2. QED
      BY <1>0, <3>1
  <2>2. l \in Nat /\ l \in 0 .. Levels /\ l \in from .. Levels /\ (w = 2 => n % 2 = 0 /\ l # 0)
    BY <1>0, <1>2, <2>1
  <2>3. a \in Nat /\ a * 2 ^ l <= n /\ b \in {a, a + 1}
    BY <1>1, <2>2, SizesNear
  <2>4. b % 2 = 1 /\ Len(q) \div 2 ^ l = b
    BY <1>1, <1>5 DEF IsRight
  <2>5. IsRight(n, l) <=> a % 2 = 1
    BY DEF IsRight
  <2>6. kept[l] = IF IsRight(n, l) THEN filled[l] ELSE path[l]
    BY <2>1, <2>2 DEF KeepLeft
  <2>7. path[l] = NodeAt(q, l, a)
    BY <1>3, <2>2
  <2>8. IsRight(n, l) => filled[l] = NodeAt(p, l, a - 1)
    BY DEF FilledAre
  <2> HIDE DEF a, b, kept
  <2>9. CASE a % 2 = 1
    <3>1. b = a /\ a - 1 \in Nat /\ (a - 1) + 1 = a
      BY <2>3, <2>4, <2>9
    <3>2. NodeAt(q, l, a - 1) = NodeAt(p, l, a - 1)
      <4>1. ((a - 1) + 1) * 2 ^ l <= n
        BY <2>3, <3>1
      <4>2. Len(p) <= Len(q)
        BY <1>1
      <4>3. QED
        BY <1>1, <2>2, <3>1, <4>1, <4>2, FullIsKept
    <3>3. QED
      BY <2>4, <2>5, <2>6, <2>8, <2>9, <3>1, <3>2
  <2>10. CASE a % 2 # 1
    <3>1. b = a + 1 /\ b - 1 = a
      BY <2>3, <2>4, <2>10
    <3>2. QED
      BY <2>4, <2>5, <2>6, <2>7, <2>10, <3>1
  <2>11. QED
    BY <2>9, <2>10
<1>6. FilledAre(q, kept)
  BY <1>5 DEF FilledAre
<1>7. QED
  BY <1>4, <1>6

\* So for one leaf, and for two.
LEMMA InsertOne ==
  ASSUME NEW S, NEW p \in Seq(S), NEW q \in Seq(S), Grows(p, q, 0), Len(q) <= MaxLeaves,
         NEW filled, FilledAre(p, filled), NEW hash, hash = NodeAt(q, 0, Len(p)),
         NEW path, path = Path(0, filled, Len(p), hash)
  PROVE  path[Levels] = PrefixRoot(q) /\ FilledAre(q, KeepLeft(0, filled, Len(p), path))
<1> DEFINE from == 0
<1>1. Grows(p, q, from) /\ path = Path(from, filled, Len(p), hash)
  OBVIOUS
<1>2. hash = NodeAt(q, from, Len(p) \div 2 ^ from)
  BY Halving
<1> SUFFICES path[Levels] = PrefixRoot(q) /\ FilledAre(q, KeepLeft(from, filled, Len(p), path))
  OBVIOUS
<1> HIDE DEF from
<1>3. QED
  BY <1>1, <1>2, InsertKeepsTree

LEMMA InsertTwo ==
  ASSUME NEW S, NEW p \in Seq(S), NEW q \in Seq(S), Grows(p, q, 1), Len(q) <= MaxLeaves,
         NEW filled, FilledAre(p, filled), NEW hash, hash = NodeAt(q, 1, Len(p) \div 2),
         NEW path, path = Path(1, filled, Len(p), hash)
  PROVE  path[Levels] = PrefixRoot(q) /\ FilledAre(q, KeepLeft(1, filled, Len(p), path))
<1> DEFINE from == 1
<1>1. Grows(p, q, from) /\ path = Path(from, filled, Len(p), hash)
  OBVIOUS
<1>2. hash = NodeAt(q, from, Len(p) \div 2 ^ from)
  <2>1. 2 ^ 1 = 2
    OBVIOUS
  <2>2. QED
    BY <2>1
<1> SUFFICES path[Levels] = PrefixRoot(q) /\ FilledAre(q, KeepLeft(from, filled, Len(p), path))
  OBVIOUS
<1> HIDE DEF from
<1>3. QED
  BY <1>1, <1>2, InsertKeepsTree

\* The circuit climbs the same nodes with the client's path elements.
LEMMA CircuitClimbs ==
  ASSUME NEW S, NEW p \in Seq(S), NEW i \in Nat, i < Len(p), Len(p) <= MaxLeaves
  PROVE  CircuitRoot(p[i + 1], i, PathElements(p, i)) = PrefixRoot(p)
<1> DEFINE e == PathElements(p, i)
           node == FoldPath(0, e, e, i, p[i + 1])
           H == {l \in 0 .. Levels : node[l] = NodeAt(p, l, i \div 2 ^ l)}
<1>0. Levels \in Nat /\ Levels >= 1 /\ 0 \in 0 .. Levels
  BY LevelsAssumption
<1>1. CircuitRoot(p[i + 1], i, e) = node[Levels]
  BY DEF CircuitRoot, FoldPath
<1>2. \A l \in 0 .. Levels - 1 :
        LET own == i \div 2 ^ l
            sibling == IF own % 2 = 0 THEN own + 1 ELSE own - 1
        IN  e[l] = NodeAt(p, l, sibling)
  BY DEF PathElements, NodeAt
<1> HIDE DEF e, node
<1>3. node[0] = p[i + 1]
  BY <1>0, FoldPathIs DEF node
<1>4. \A l \in 0 .. Levels - 1 :
        node[l + 1] = IF IsRight(i, l) THEN <<e[l], node[l]>> ELSE <<node[l], e[l]>>
  BY <1>0, FoldPathIs DEF node
<1>5. 0 \in H
  <2>1. i \div 2 ^ 0 = i
    BY Halving
  <2>2. NodeAt(p, 0, i) = p[i + 1]
    BY NodesAre
  <2>3. QED
    BY <1>0, <1>3, <2>1, <2>2
<1>6. ASSUME NEW l \in 0 .. Levels - 1, l \in H PROVE l + 1 \in H
  <2> DEFINE a == i \div 2 ^ l
  <2>1. l \in Nat /\ l + 1 \in 0 .. Levels
    BY <1>0
  <2>2. a \in Nat /\ i \div 2 ^ (l + 1) = a \div 2
    BY <2>1, Halving
  <2>3. node[l] = NodeAt(p, l, a)
    BY <1>6
  <2>4. IsRight(i, l) <=> a % 2 = 1
    BY DEF IsRight
  <2>5. e[l] = NodeAt(p, l, IF a % 2 = 0 THEN a + 1 ELSE a - 1)
    BY <1>2
  <2> HIDE DEF a
  <2>6. a \div 2 \in Nat
    BY <2>2
  <2>7. NodeAt(p, l + 1, a \div 2)
          = <<NodeAt(p, l, 2 * (a \div 2)), NodeAt(p, l, 2 * (a \div 2) + 1)>>
    BY <2>6, NodesAre
  <2>8. CASE a % 2 = 1
    <3>1. 2 * (a \div 2) = a - 1 /\ 2 * (a \div 2) + 1 = a /\ a % 2 # 0
      BY <2>2, <2>8
    <3>2. node[l + 1] = NodeAt(p, l + 1, a \div 2)
      BY <1>4, <2>3, <2>4, <2>5, <2>7, <2>8, <3>1
    <3>3. QED
      BY <2>1, <2>2, <3>2
  <2>9. CASE a % 2 # 1
    <3>1. 2 * (a \div 2) = a /\ a % 2 = 0
      BY <2>2, <2>9
    <3>2. node[l + 1] = NodeAt(p, l + 1, a \div 2)
      BY <1>4, <2>3, <2>4, <2>5, <2>7, <2>9, <3>1
    <3>3. QED
      BY <2>1, <2>2, <3>2
  <2>10. QED
    BY <2>8, <2>9
<1> HIDE DEF H
<1>7. \A l \in 0 .. Levels : l \in H
  BY <1>0, <1>5, <1>6, Climb
<1>8. node[Levels] = NodeAt(p, Levels, 0)
  <2>1. i < MaxLeaves
    <3>1. MaxLeaves \in Nat
      BY PowerIs, <1>0 DEF MaxLeaves
    <3>2. QED
      BY <3>1
  <2>2. i \div 2 ^ Levels = 0
    BY <2>1, TopIsRoot
  <2>3. QED
    BY <1>0, <1>7, <2>2 DEF H
<1>9. QED
  BY <1>1, <1>8, NodesAre DEF e

-----------------------------------------------------------------------------
(* The trees of the two contracts are this tree.                           *)

LEMMA PoolTreeIsTree ==
  /\ PoolTree!Zeroes = Zeroes /\ PoolTree!MaxLeaves = MaxLeaves
  /\ \A from, filled, index, hash :
       PoolTree!Path(from, filled, index, hash) = Path(from, filled, index, hash)
  /\ \A from, filled, index, path :
       PoolTree!KeepLeft(from, filled, index, path) = KeepLeft(from, filled, index, path)
  /\ \A p : PoolTree!PrefixRoot(p) = PrefixRoot(p)
  /\ \A p, i : PoolTree!PathElements(p, i) = PathElements(p, i)
  /\ \A leaf, i, e : PoolTree!CircuitRoot(leaf, i, e) = CircuitRoot(leaf, i, e)
<1>1. PoolTree!Zeroes = Zeroes
  BY DEF Zeroes, PoolTree!Zeroes, Hash, PoolTree!Hash
<1>2. PoolTree!MaxLeaves = MaxLeaves
  BY DEF MaxLeaves, PoolTree!MaxLeaves
<1>3. ASSUME NEW from, NEW filled, NEW index, NEW hash
      PROVE  PoolTree!Path(from, filled, index, hash) = Path(from, filled, index, hash)
  BY <1>1 DEF Path, PoolTree!Path, IsRight, PoolTree!IsRight, Hash, PoolTree!Hash
<1>4. ASSUME NEW from, NEW filled, NEW index, NEW path
      PROVE  PoolTree!KeepLeft(from, filled, index, path) = KeepLeft(from, filled, index, path)
  BY DEF KeepLeft, PoolTree!KeepLeft, IsRight, PoolTree!IsRight
<1>5. ASSUME NEW p PROVE PoolTree!Rows(p) = Rows(p)
  BY <1>1 DEF Rows, PoolTree!Rows, Hash, PoolTree!Hash, NextRow, PoolTree!NextRow, Get, PoolTree!Get
<1>6. ASSUME NEW p PROVE PoolTree!PrefixRoot(p) = PrefixRoot(p)
  BY <1>5 DEF PrefixRoot, PoolTree!PrefixRoot
<1>7. ASSUME NEW p, NEW i PROVE PoolTree!PathElements(p, i) = PathElements(p, i)
  BY <1>1, <1>5 DEF PathElements, PoolTree!PathElements, Get, PoolTree!Get
<1>8. ASSUME NEW leaf, NEW i, NEW e
      PROVE  PoolTree!CircuitRoot(leaf, i, e) = CircuitRoot(leaf, i, e)
  BY DEF CircuitRoot, PoolTree!CircuitRoot, IsRight, PoolTree!IsRight, Hash, PoolTree!Hash
<1>9. QED
  BY <1>1, <1>2, <1>3, <1>4, <1>6, <1>7, <1>8

LEMMA MemberTreeIsTree ==
  /\ AspMembership!Zeroes = Zeroes /\ AspMembership!MaxLeaves = MaxLeaves
  /\ \A from, filled, index, hash :
       AspMembership!Path(from, filled, index, hash) = Path(from, filled, index, hash)
  /\ \A from, filled, index, path :
       AspMembership!KeepLeft(from, filled, index, path) = KeepLeft(from, filled, index, path)
  /\ \A p : AspMembership!PrefixRoot(p) = PrefixRoot(p)
  /\ \A p, i : AspMembership!PathElements(p, i) = PathElements(p, i)
  /\ \A leaf, i, e : AspMembership!CircuitRoot(leaf, i, e) = CircuitRoot(leaf, i, e)
<1>1. AspMembership!Zeroes = Zeroes
  BY DEF Zeroes, AspMembership!Zeroes, Hash, AspMembership!Hash
<1>2. AspMembership!MaxLeaves = MaxLeaves
  BY DEF MaxLeaves, AspMembership!MaxLeaves
<1>3. ASSUME NEW from, NEW filled, NEW index, NEW hash
      PROVE  AspMembership!Path(from, filled, index, hash) = Path(from, filled, index, hash)
  BY <1>1 DEF Path, AspMembership!Path, IsRight, AspMembership!IsRight, Hash, AspMembership!Hash
<1>4. ASSUME NEW from, NEW filled, NEW index, NEW path
      PROVE  AspMembership!KeepLeft(from, filled, index, path)
               = KeepLeft(from, filled, index, path)
  BY DEF KeepLeft, AspMembership!KeepLeft, IsRight, AspMembership!IsRight
<1>5. ASSUME NEW p PROVE AspMembership!Rows(p) = Rows(p)
  BY <1>1 DEF Rows, AspMembership!Rows, Hash, AspMembership!Hash, NextRow, AspMembership!NextRow,
              Get, AspMembership!Get
<1>6. ASSUME NEW p PROVE AspMembership!PrefixRoot(p) = PrefixRoot(p)
  BY <1>5 DEF PrefixRoot, AspMembership!PrefixRoot
<1>7. ASSUME NEW p, NEW i PROVE AspMembership!PathElements(p, i) = PathElements(p, i)
  BY <1>1, <1>5 DEF PathElements, AspMembership!PathElements, Get, AspMembership!Get
<1>8. ASSUME NEW leaf, NEW i, NEW e
      PROVE  AspMembership!CircuitRoot(leaf, i, e) = CircuitRoot(leaf, i, e)
  BY DEF CircuitRoot, AspMembership!CircuitRoot, IsRight, AspMembership!IsRight, Hash,
         AspMembership!Hash
<1>9. QED
  BY <1>1, <1>2, <1>3, <1>4, <1>6, <1>7, <1>8

\* No leaves: nothing is kept, and the root is the empty one.
LEMMA EmptyTree ==
  PrefixRoot(<<>>) = Zeroes[Levels] /\ FilledAre(<<>>, Zeroes)
<1>1. Levels \in 0 .. Levels /\ <<>> \in Seq({}) /\ Len(<<>>) = 0
  BY LevelsAssumption
<1>2. PrefixRoot(<<>>) = Zeroes[Levels]
  BY <1>1, NodesAre, EmptyNodes
<1>3. ASSUME NEW l \in 0 .. Levels - 1 PROVE ~IsRight(0, l)
  <2> DEFINE d == 2 ^ l
  <2>1. d \in Nat \ {0}
    BY PowerIs, LevelsAssumption
  <2> HIDE DEF d
  <2>2. 0 \div d = 0
    BY <2>1, DivIs
  <2>3. (0 \div d) % 2 # 1
    BY <2>2
  <2>4. QED
    BY <2>3 DEF IsRight, d
<1>4. QED
  BY <1>1, <1>2, <1>3 DEF FilledAre

-----------------------------------------------------------------------------
(* The list of members.                                                    *)

LeavesOf(told, n) == [i \in 1 .. n |-> told[i].leaf]

(***************************************************************************)
(* Inductive for the list: what the events tell, and that the subtrees     *)
(* the contract keeps are those the next insertion pairs its path with,    *)
(* without which the next root would be some other tree's.                 *)
(***************************************************************************)
ListInvariant ==
  /\ listNext \in Nat /\ listNext <= MaxLeaves
  /\ (\E U : events \in Seq(U)) /\ Len(events) = listNext
  /\ \A i \in 1 .. listNext :
       /\ events[i].leaf \in Members /\ events[i].index = i - 1
       /\ events[i].root = PrefixRoot(LeavesOf(events, i))
  /\ listRoot = PrefixRoot(LeavesOf(events, listNext))
  /\ FilledAre(LeavesOf(events, listNext), listFilled)

LEMMA LeavesAre ==
  ASSUME NEW told, NEW n \in Nat, \A i \in 1 .. n : told[i].leaf \in Members
  PROVE  /\ LeavesOf(told, n) \in Seq(Members) /\ Len(LeavesOf(told, n)) = n
         /\ \A i \in 1 .. n : LeavesOf(told, n)[i] = told[i].leaf
<1> DEFINE p == LeavesOf(told, n)
<1>1. p \in [1 .. n -> Members]
  BY DEF LeavesOf
<1>2. \A i \in 1 .. n : p[i] = told[i].leaf
  BY DEF LeavesOf
<1>3. p = [i \in 1 .. n |-> p[i]]
  BY <1>1
<1> HIDE DEF p
<1>4. p \in Seq(Members)
  BY <1>1
<1>5. Len(p) = n
  BY <1>3, FunctionIsRow DEF RowOf
<1>6. QED
  BY <1>2, <1>4, <1>5 DEF p

LEMMA ListInit == PartsInit => ListInvariant
<1> SUFFICES ASSUME PartsInit PROVE ListInvariant
  OBVIOUS
<1>1. /\ listFilled = Zeroes /\ listNext = 0 /\ listRoot = Zeroes[Levels] /\ events = <<>>
  BY MemberTreeIsTree DEF PartsInit, AspMembership!Init
<1>2. LeavesOf(events, listNext) = <<>>
  BY <1>1 DEF LeavesOf
<1>3. MaxLeaves \in Nat
  BY PowerIs, LevelsAssumption DEF MaxLeaves
<1>4. <<>> \in Seq({}) /\ Len(<<>>) = 0
  OBVIOUS
<1>5. QED
  BY <1>1, <1>2, <1>3, <1>4, EmptyTree DEF ListInvariant

LEMMA ListStep ==
  ASSUME ListInvariant, [PartsNext]_<<part, smtVars, poolVars, listVars, clientVars>>
  PROVE  ListInvariant'
<1>1. CASE UNCHANGED listVars
  <2>1. listNext' = listNext /\ events' = events /\ listRoot' = listRoot /\ listFilled' = listFilled
    BY <1>1 DEF listVars
  <2>2. QED
    BY <2>1 DEF ListInvariant
<1>2. CASE ListInsertLeaf
  <2>1. PICK caller \in Accounts, leaf \in Members : AspMembership!InsertLeaf(caller, leaf)
    BY <1>2 DEF ListInsertLeaf
  <2> DEFINE n == listNext
             p == LeavesOf(events, n)
             q == LeavesOf(events', n + 1)
             path == Path(0, listFilled, n, leaf)
             event == [leaf |-> leaf, index |-> n, root |-> path[Levels]]
  <2>2. /\ n < MaxLeaves /\ listNext' = n + 1
        /\ listFilled' = KeepLeft(0, listFilled, n, path) /\ listRoot' = path[Levels]
        /\ events' = Append(events, event)
    <3>1. AspMembership!LeafPath(leaf) = path
      BY MemberTreeIsTree DEF AspMembership!LeafPath
    <3>2. QED
      BY <2>1, <3>1, MemberTreeIsTree DEF AspMembership!InsertLeaf
  <2>3. n \in Nat /\ MaxLeaves \in Nat
    <3>1. MaxLeaves \in Nat
      BY PowerIs, LevelsAssumption DEF MaxLeaves
    <3>2. QED
      BY <3>1 DEF ListInvariant
  <2> DEFINE told == events'
  <2>4. /\ \E U : told \in Seq(U)
        /\ Len(told) = n + 1 /\ told[n + 1] = event /\ \A i \in 1 .. n : told[i] = events[i]
    <3>1. PICK U : events \in Seq(U)
      BY DEF ListInvariant
    <3>2. Len(events) = n
      BY DEF ListInvariant
    <3> DEFINE V == U \cup {event}
    <3>3. events \in Seq(V) /\ event \in V
      BY <3>1
    <3> HIDE DEF V, event, n
    <3>4. Append(events, event) \in Seq(V)
      BY <3>3
    <3>5. /\ Len(Append(events, event)) = Len(events) + 1
          /\ Append(events, event)[Len(events) + 1] = event
          /\ \A i \in 1 .. Len(events) : Append(events, event)[i] = events[i]
      BY <3>3
    <3>6. QED
      BY <2>2, <3>2, <3>4, <3>5
  <2>5. event.leaf = leaf /\ event.index = n /\ event.root = path[Levels]
    OBVIOUS
  <2> HIDE DEF event, told
  <2>6. \A i \in 1 .. n : events[i].leaf \in Members
    BY DEF ListInvariant
  <2>7. \A i \in 1 .. n + 1 : told[i].leaf \in Members
    BY <2>3, <2>4, <2>5, <2>6
  <2>8. p \in Seq(Members) /\ Len(p) = n /\ \A i \in 1 .. n : p[i] = events[i].leaf
    BY <2>3, <2>6, LeavesAre
  <2>9. q \in Seq(Members) /\ Len(q) = n + 1 /\ \A i \in 1 .. n + 1 : q[i] = told[i].leaf
    <3>1. n + 1 \in Nat
      BY <2>3
    <3>2. QED
      BY <2>7, <3>1, LeavesAre DEF told
  <2>10. FilledAre(p, listFilled)
    BY DEF ListInvariant
  <2> HIDE DEF p, q
  <2>11. Grows(p, q, 0)
    BY <2>3, <2>4, <2>8, <2>9 DEF Grows
  <2>12. leaf = NodeAt(q, 0, n)
    <3>1. n + 1 \in 1 .. n + 1 /\ n < n + 1
      BY <2>3
    <3>2. NodeAt(q, 0, n) = q[n + 1]
      BY <2>3, <2>9, <3>1, NodesAre
    <3>3. q[n + 1] = leaf
      BY <2>4, <2>5, <2>9, <3>1
    <3>4. QED
      BY <3>2, <3>3
  <2>13. path[Levels] = PrefixRoot(q) /\ FilledAre(q, KeepLeft(0, listFilled, n, path))
    <3>1. Len(q) <= MaxLeaves
      BY <2>2, <2>3, <2>9
    <3>2. leaf = NodeAt(q, 0, Len(p))
      BY <2>8, <2>12
    <3>3. path = Path(0, listFilled, Len(p), leaf)
      BY <2>8
    <3> HIDE DEF path
    <3>4. path[Levels] = PrefixRoot(q) /\ FilledAre(q, KeepLeft(0, listFilled, Len(p), path))
      BY <2>8, <2>9, <2>10, <2>11, <3>1, <3>2, <3>3, InsertOne
    <3>5. QED
      BY <2>8, <3>4
  <2> HIDE DEF path
  <2>14. ASSUME NEW i \in 1 .. n + 1
         PROVE  /\ told[i].leaf \in Members /\ told[i].index = i - 1
                /\ told[i].root = PrefixRoot(LeavesOf(told, i))
    <3>1. CASE i = n + 1
      <4>1. told[i].index = i - 1
        BY <2>3, <2>4, <2>5, <3>1
      <4>2. told[i].root = path[Levels]
        BY <2>4, <2>5, <3>1
      <4>3. LeavesOf(told, i) = q
        BY <3>1 DEF told, q
      <4>4. QED
        BY <2>7, <2>13, <4>1, <4>2, <4>3
    <3>2. CASE i # n + 1
      <4>1. i \in 1 .. n
        BY <2>3, <3>2
      <4>2. told[i] = events[i]
        BY <2>4, <4>1
      <4>3. LeavesOf(told, i) = LeavesOf(events, i)
        <5>1. \A j \in 1 .. i : told[j] = events[j]
          BY <2>3, <2>4, <4>1
        <5>2. QED
          BY <5>1 DEF LeavesOf
      <4>4. events[i].index = i - 1 /\ events[i].root = PrefixRoot(LeavesOf(events, i))
        BY <4>1 DEF ListInvariant
      <4>5. QED
        BY <2>7, <4>2, <4>3, <4>4
    <3>3. QED
      BY <3>1, <3>2
  <2>15. listRoot' = PrefixRoot(q) /\ FilledAre(q, listFilled')
    BY <2>2, <2>13
  <2>16. listNext' \in Nat /\ listNext' <= MaxLeaves
    BY <2>2, <2>3
  <2>17. QED
    BY <2>2, <2>4, <2>14, <2>15, <2>16 DEF ListInvariant, told, q
<1>3. CASE ListUpdateAdmin \/ ListSetInsertOnly
  <2>1. listNext' = listNext /\ events' = events /\ listRoot' = listRoot /\ listFilled' = listFilled
    BY <1>3 DEF ListUpdateAdmin, ListSetInsertOnly, AspMembership!UpdateAdmin,
                AspMembership!SetAdminInsertOnly, AspMembership!treeVars
  <2>2. QED
    BY <2>1 DEF ListInvariant
<1>4. CASE PoolInsert \/ SmtStep \/ ClientInsert \/ ClientUpdate
  BY <1>1, <1>4 DEF PoolInsert, InPool, SmtStep, InSmt, ClientInsert, ClientUpdate, InClient
<1>5. QED
  BY <1>1, <1>2, <1>3, <1>4 DEF PartsNext

LEMMA ListAlways == PartsSpec => []ListInvariant
<1>1. PartsInit => ListInvariant
  BY ListInit
<1>2. ListInvariant /\ [PartsNext]_<<part, smtVars, poolVars, listVars, clientVars>>
      => ListInvariant'
  BY ListStep
<1>3. QED
  BY <1>1, <1>2, PTL DEF PartsSpec

(***************************************************************************)
(* The LeafAdded events tell the contract's tree, whatever its depth and   *)
(* however many members there are: their indexes, the root at each of them *)
(* and the current root (insert_leaf of contracts/asp-membership).         *)
(***************************************************************************)
THEOREM EventsAlwaysTellTheTree == PartsSpec => []EventsTellTheTree
<1>1. ListInvariant => EventsTellTheTree
  <2> SUFFICES ASSUME ListInvariant PROVE EventsTellTheTree
    OBVIOUS
  <2>1. \A n : AspMembership!Replay(n) = LeavesOf(events, n)
    BY DEF AspMembership!Replay, LeavesOf
  <2>2. AspMembership!EventsTellTheTree
    BY <2>1, MemberTreeIsTree DEF ListInvariant, AspMembership!EventsTellTheTree
  <2>3. QED
    BY <2>2 DEF EventsTellTheTree
<1>2. QED
  BY <1>1, ListAlways, PTL

(***************************************************************************)
(* The path a client builds from the events for any member passes the      *)
(* circuit's check under the root the contract has, at every depth and     *)
(* size (prover/src/merkle.rs, circuits/src/merkleProof.circom).           *)
(***************************************************************************)
THEOREM MembersAlwaysProvable == PartsSpec => []EveryMemberProvable
<1>1. ListInvariant => EveryMemberProvable
  <2> SUFFICES ASSUME ListInvariant PROVE EveryMemberProvable
    OBVIOUS
  <2> DEFINE p == LeavesOf(events, listNext)
  <2>1. listNext \in Nat /\ listNext <= MaxLeaves
        /\ \A i \in 1 .. listNext : events[i].leaf \in Members
    BY DEF ListInvariant
  <2>2. p \in Seq(Members) /\ Len(p) = listNext /\ \A i \in 1 .. listNext : p[i] = events[i].leaf
    BY <2>1, LeavesAre
  <2>3. listRoot = PrefixRoot(p) /\ AspMembership!Replay(listNext) = p
    BY DEF ListInvariant, AspMembership!Replay, LeavesOf
  <2> HIDE DEF p
  <2>4. ASSUME NEW i \in 0 .. listNext - 1
        PROVE  CircuitRoot(events[i + 1].leaf, i, PathElements(p, i)) = listRoot
    <3>1. i \in Nat /\ i < Len(p) /\ i + 1 \in 1 .. listNext
      BY <2>1, <2>2
    <3>2. Len(p) <= MaxLeaves
      BY <2>1, <2>2
    <3>3. CircuitRoot(p[i + 1], i, PathElements(p, i)) = PrefixRoot(p)
      BY <2>2, <3>1, <3>2, CircuitClimbs
    <3>4. QED
      BY <2>2, <2>3, <3>1, <3>3
  <2>5. AspMembership!EveryMemberProvable
    BY <2>3, <2>4, MemberTreeIsTree DEF AspMembership!EveryMemberProvable
  <2>6. QED
    BY <2>5 DEF EveryMemberProvable
<1>2. QED
  BY <1>1, ListAlways, PTL

-----------------------------------------------------------------------------
(* The pool's tree.                                                        *)

\* The root of the tree the first k of some leaves make.
RootOf(leaves, k) == PrefixRoot(SubSeq(leaves, 1, k))

\* The root r is that of an even number of the first n leaves.
IsRootOf(r, leaves, n) == \E k \in 0 .. n : k % 2 = 0 /\ r = RootOf(leaves, k)

(***************************************************************************)
(* Inductive for the pool: the current root is the client's, every root    *)
(* of the ring is that of an earlier tree, and the subtrees the contract   *)
(* keeps are those the next insertion pairs its path with.                 *)
(***************************************************************************)
PoolInvariant ==
  /\ commitments \in Seq(Commitments) /\ Len(commitments) = poolNext
  /\ poolNext \in Nat /\ poolNext % 2 = 0 /\ poolNext <= MaxLeaves
  /\ FilledAre(commitments, poolFilled)
  /\ rootIndex \in DOMAIN roots /\ roots[rootIndex] = PrefixRoot(commitments)
  /\ \A i \in DOMAIN roots : IsRootOf(roots[i], commitments, poolNext)

LEMMA PoolInit == PartsInit => PoolInvariant
<1> SUFFICES ASSUME PartsInit PROVE PoolInvariant
  OBVIOUS
<1>1. /\ poolFilled = Zeroes /\ poolNext = 0 /\ rootIndex = 0
      /\ roots = [i \in {0} |-> Zeroes[Levels]] /\ commitments = <<>>
  BY PoolTreeIsTree DEF PartsInit, PoolTree!Init
<1>2. MaxLeaves \in Nat
  BY PowerIs, LevelsAssumption DEF MaxLeaves
<1>3. commitments \in Seq(Commitments) /\ Len(commitments) = 0 /\ SubSeq(commitments, 1, 0) = <<>>
  BY <1>1
<1>4. DOMAIN roots = {0} /\ roots[0] = Zeroes[Levels]
  BY <1>1
<1>5. IsRootOf(Zeroes[Levels], commitments, 0)
  <2>1. 0 \in 0 .. 0 /\ 0 % 2 = 0
    OBVIOUS
  <2>2. Zeroes[Levels] = RootOf(commitments, 0)
    BY <1>3, EmptyTree DEF RootOf
  <2>3. QED
    BY <2>1, <2>2 DEF IsRootOf
<1>6. QED
  BY <1>1, <1>2, <1>3, <1>4, <1>5, EmptyTree DEF PoolInvariant

\* An insertion keeps the earlier trees and appends one.
LEMMA PrefixesAreKept ==
  ASSUME NEW S, NEW p \in Seq(S), NEW a \in S, NEW b \in S
  PROVE  LET q == p \o <<a, b>>
         IN  /\ q \in Seq(S) /\ Len(q) = Len(p) + 2
             /\ \A i \in 1 .. Len(p) : q[i] = p[i]
             /\ q[Len(p) + 1] = a /\ q[Len(p) + 2] = b
             /\ \A k \in 0 .. Len(p) : SubSeq(q, 1, k) = SubSeq(p, 1, k)
             /\ SubSeq(q, 1, Len(q)) = q
<1> DEFINE q == p \o <<a, b>>
<1>1. <<a, b>> \in Seq(S) /\ Len(<<a, b>>) = 2
  OBVIOUS
<1>2. /\ q \in Seq(S) /\ Len(q) = Len(p) + 2
      /\ \A i \in 1 .. Len(p) : q[i] = p[i]
      /\ q[Len(p) + 1] = a /\ q[Len(p) + 2] = b
  BY <1>1
<1> HIDE DEF q
<1>3. ASSUME NEW k \in 0 .. Len(p) PROVE SubSeq(q, 1, k) = SubSeq(p, 1, k)
  <2>1. SubSeq(q, 1, k) = [i \in 1 .. k |-> q[i]] /\ SubSeq(p, 1, k) = [i \in 1 .. k |-> p[i]]
    BY <1>2
  <2>2. \A i \in 1 .. k : q[i] = p[i]
    BY <1>2
  <2>3. QED
    BY <2>1, <2>2
<1>4. SubSeq(q, 1, Len(q)) = q
  BY <1>2
<1>5. QED
  BY <1>2, <1>3, <1>4 DEF q

\* What an insertion does to the stored tree and to the client's.
LEMMA PoolInsertIs ==
  ASSUME PoolInvariant, NEW leaf1 \in Commitments, NEW leaf2 \in Commitments,
         PoolTree!InsertTwoLeaves(leaf1, leaf2)
  PROVE  LET slot == (rootIndex + 1) % RootHistorySize
         IN  /\ poolNext' = poolNext + 2 /\ poolNext + 2 <= MaxLeaves
             /\ commitments' = commitments \o <<leaf1, leaf2>>
             /\ FilledAre(commitments', poolFilled')
             /\ rootIndex' = slot
             /\ roots' = [i \in DOMAIN roots \cup {slot} |->
                            IF i = slot THEN PrefixRoot(commitments') ELSE roots[i]]
<1> DEFINE slot == (rootIndex + 1) % RootHistorySize
           p == commitments
           q == commitments \o <<leaf1, leaf2>>
           n == poolNext
           hash == <<leaf1, leaf2>>
           path == Path(1, poolFilled, n, hash)
<1>1. /\ n + 2 <= MaxLeaves /\ poolNext' = n + 2 /\ commitments' = q /\ rootIndex' = slot
      /\ poolFilled' = KeepLeft(1, poolFilled, n, path)
      /\ roots' = [i \in DOMAIN roots \cup {slot} |-> IF i = slot THEN path[Levels] ELSE roots[i]]
  <2>1. PoolTree!PairPath(leaf1, leaf2) = path
    BY PoolTreeIsTree DEF PoolTree!PairPath, PoolTree!Hash
  <2>2. QED
    BY <2>1, PoolTreeIsTree DEF PoolTree!InsertTwoLeaves
<1>2. p \in Seq(Commitments) /\ Len(p) = n /\ n \in Nat /\ n % 2 = 0 /\ FilledAre(p, poolFilled)
  BY DEF PoolInvariant
<1>3. /\ q \in Seq(Commitments) /\ Len(q) = n + 2 /\ \A i \in 1 .. n : q[i] = p[i]
      /\ q[n + 1] = leaf1 /\ q[n + 2] = leaf2
  BY <1>2, PrefixesAreKept
<1> HIDE DEF q
<1>4. Grows(p, q, 1)
  BY <1>2, <1>3 DEF Grows
<1>5. hash = NodeAt(q, 1, n \div 2)
  <2>1. n \div 2 \in Nat /\ 2 * (n \div 2) = n /\ n < n + 2 /\ n + 1 < n + 2
    BY <1>2
  <2>2. NodeAt(q, 0, n) = leaf1 /\ NodeAt(q, 0, n + 1) = leaf2
    <3>1. NodeAt(q, 0, n) = q[n + 1]
      BY <1>2, <1>3, <2>1, NodesAre
    <3>2. n + 1 \in Nat /\ (n + 1) + 1 = n + 2
      BY <1>2
    <3>3. NodeAt(q, 0, n + 1) = q[n + 2]
      BY <1>3, <2>1, <3>2, NodesAre
    <3>4. QED
      BY <1>3, <3>1, <3>3
  <2>3. 0 \in 0 .. Levels - 1 /\ 0 + 1 = 1
    BY LevelsAssumption
  <2>4. NodeAt(q, 0 + 1, n \div 2)
          = <<NodeAt(q, 0, 2 * (n \div 2)), NodeAt(q, 0, 2 * (n \div 2) + 1)>>
    BY <1>3, <2>1, <2>3, NodesAre
  <2>5. QED
    BY <2>1, <2>2, <2>3, <2>4
<1> HIDE DEF hash
<1>6. path[Levels] = PrefixRoot(q) /\ FilledAre(q, KeepLeft(1, poolFilled, n, path))
  <2>1. path = Path(1, poolFilled, Len(p), hash) /\ hash = NodeAt(q, 1, Len(p) \div 2)
    BY <1>2, <1>5
  <2>2. Len(q) <= MaxLeaves
    BY <1>1, <1>3
  <2> HIDE DEF path
  <2>3. path[Levels] = PrefixRoot(q) /\ FilledAre(q, KeepLeft(1, poolFilled, Len(p), path))
    BY <1>2, <1>3, <1>4, <2>1, <2>2, InsertTwo
  <2>4. QED
    BY <1>2, <2>3
<1> HIDE DEF path
<1>7. QED
  BY <1>1, <1>6 DEF q

LEMMA PoolStep ==
  ASSUME PoolInvariant, [PartsNext]_<<part, smtVars, poolVars, listVars, clientVars>>
  PROVE  PoolInvariant'
<1>1. CASE UNCHANGED poolVars
  <2>1. /\ poolFilled' = poolFilled /\ poolNext' = poolNext /\ rootIndex' = rootIndex
        /\ roots' = roots /\ commitments' = commitments
    BY <1>1 DEF poolVars
  <2>2. QED
    BY <2>1 DEF PoolInvariant
<1>2. CASE PoolInsert
  <2>1. PICK leaf1 \in Commitments, leaf2 \in Commitments :
          PoolTree!InsertTwoLeaves(leaf1, leaf2)
    BY <1>2 DEF PoolInsert
  <2> DEFINE slot == (rootIndex + 1) % RootHistorySize
             n == poolNext
             p == commitments
             q == commitments'
  <2>2. /\ poolNext' = n + 2 /\ n + 2 <= MaxLeaves /\ q = p \o <<leaf1, leaf2>>
        /\ FilledAre(q, poolFilled') /\ rootIndex' = slot
        /\ roots' = [i \in DOMAIN roots \cup {slot} |->
                       IF i = slot THEN PrefixRoot(q) ELSE roots[i]]
    BY <2>1, PoolInsertIs
  <2>3. p \in Seq(Commitments) /\ Len(p) = n /\ n \in Nat /\ n % 2 = 0
    BY DEF PoolInvariant
  <2>4. /\ q \in Seq(Commitments) /\ Len(q) = n + 2
        /\ \A k \in 0 .. n : SubSeq(q, 1, k) = SubSeq(p, 1, k)
        /\ SubSeq(q, 1, n + 2) = q
    BY <2>2, <2>3, PrefixesAreKept
  <2> HIDE DEF slot, q
  <2>5. n + 2 \in Nat /\ (n + 2) % 2 = 0
    BY <2>3
  <2>6. slot \in DOMAIN roots' /\ roots'[slot] = PrefixRoot(q)
    BY <2>2
  <2>7. ASSUME NEW i \in DOMAIN roots' PROVE IsRootOf(roots'[i], q, n + 2)
    <3>1. CASE i = slot
      <4>1. n + 2 \in 0 .. n + 2
        BY <2>5
      <4>2. roots'[i] = RootOf(q, n + 2)
        BY <2>4, <2>6, <3>1 DEF RootOf
      <4>3. QED
        BY <2>5, <4>1, <4>2 DEF IsRootOf
    <3>2. CASE i # slot
      <4>1. i \in DOMAIN roots /\ roots'[i] = roots[i]
        BY <2>2, <3>2
      <4>2. PICK k \in 0 .. n : k % 2 = 0 /\ roots[i] = RootOf(p, k)
        BY <4>1 DEF PoolInvariant, IsRootOf
      <4>3. RootOf(p, k) = RootOf(q, k)
        BY <2>4 DEF RootOf
      <4>4. k \in 0 .. n + 2
        BY <2>3
      <4>5. QED
        BY <4>1, <4>2, <4>3, <4>4 DEF IsRootOf
    <3>3. QED
      BY <3>1, <3>2
  <2>8. QED
    BY <2>2, <2>4, <2>5, <2>6, <2>7 DEF PoolInvariant, q
<1>3. CASE ListUpdateAdmin \/ ListSetInsertOnly \/ ListInsertLeaf \/ SmtStep
           \/ ClientInsert \/ ClientUpdate
  BY <1>1, <1>3 DEF ListUpdateAdmin, ListSetInsertOnly, ListInsertLeaf, InList, SmtStep, InSmt,
                    ClientInsert, ClientUpdate, InClient
<1>4. QED
  BY <1>1, <1>2, <1>3 DEF PartsNext

LEMMA PoolAlways == PartsSpec => []PoolInvariant
<1>1. PartsInit => PoolInvariant
  BY PoolInit
<1>2. PoolInvariant /\ [PartsNext]_<<part, smtVars, poolVars, listVars, clientVars>>
      => PoolInvariant'
  BY PoolStep
<1>3. QED
  BY <1>1, <1>2, PTL DEF PartsSpec

(***************************************************************************)
(* The root a client rebuilds from the NewCommitmentEvents is the one the  *)
(* contract computed from the few subtrees it keeps, at every depth and    *)
(* size of the tree (insert_two_leaves, build_from_parts).                 *)
(***************************************************************************)
THEOREM ClientRootIsAlwaysCurrent == PartsSpec => []ClientRootIsCurrent
<1>1. PoolInvariant => ClientRootIsCurrent
  BY PoolTreeIsTree DEF PoolInvariant, ClientRootIsCurrent, PoolTree!ClientRootIsCurrent
<1>2. QED
  BY <1>1, PoolAlways, PTL

(***************************************************************************)
(* Whatever was inserted, the path a client builds for any note passes the *)
(* circuit's Merkle check under the contract's current root.               *)
(***************************************************************************)
THEOREM NotesAlwaysProvable == PartsSpec => []EveryNoteProvable
<1>1. PoolInvariant => EveryNoteProvable
  <2> SUFFICES ASSUME PoolInvariant PROVE EveryNoteProvable
    OBVIOUS
  <2> DEFINE p == commitments
  <2>1. /\ p \in Seq(Commitments) /\ Len(p) = poolNext /\ poolNext \in Nat
        /\ poolNext <= MaxLeaves /\ roots[rootIndex] = PrefixRoot(p)
    BY DEF PoolInvariant
  <2>2. ASSUME NEW i \in 0 .. poolNext - 1
        PROVE  CircuitRoot(p[i + 1], i, PathElements(p, i)) = roots[rootIndex]
    <3>1. i \in Nat /\ i < Len(p) /\ Len(p) <= MaxLeaves
      BY <2>1
    <3>2. QED
      BY <2>1, <3>1, CircuitClimbs
  <2>3. PoolTree!EveryNoteProvable
    BY <2>2, PoolTreeIsTree DEF PoolTree!EveryNoteProvable
  <2>4. QED
    BY <2>3 DEF EveryNoteProvable
<1>2. QED
  BY <1>1, PoolAlways, PTL

-----------------------------------------------------------------------------
(* The stored tree implements the tree of its leaves.                      *)

\* Different numbers of leaves have different roots.
LEMMA RootsAreDistinct ==
  ASSUME NEW p \in Seq(Commitments), Len(p) <= MaxLeaves,
         NEW k \in 0 .. Len(p), NEW m \in 0 .. Len(p), RootOf(p, k) = RootOf(p, m)
  PROVE  k = m
<1>1. ASSUME NEW a \in 0 .. Len(p), NEW b \in 0 .. Len(p), a < b, RootOf(p, a) = RootOf(p, b)
      PROVE  FALSE
  <2> DEFINE s == SubSeq(p, 1, a)
             t == SubSeq(p, 1, b)
  <2>1. /\ s \in Seq(Commitments) /\ Len(s) = a
        /\ t \in Seq(Commitments) /\ Len(t) = b /\ t[a + 1] = p[a + 1]
    BY <1>1
  <2>2. p[a + 1] \in Commitments
    BY <1>1
  <2>3. NodeAt(s, Levels, 0) = NodeAt(t, Levels, 0)
    <3>1. PrefixRoot(s) = PrefixRoot(t)
      BY <1>1 DEF RootOf
    <3> HIDE DEF s, t
    <3>2. PrefixRoot(s) = NodeAt(s, Levels, 0) /\ PrefixRoot(t) = NodeAt(t, Levels, 0)
      BY <2>1, NodesAre
    <3>3. QED
      BY <3>1, <3>2
  <2> HIDE DEF s, t
  <2>4. SameUnder(s, t, Levels, 0)
    <3>1. Levels \in 0 .. Levels
      BY LevelsAssumption
    <3>2. QED
      BY <2>1, <2>3, <3>1, NodesTellLeaves
  <2>5. a \in Nat /\ 0 * 2 ^ Levels <= a /\ a < (0 + 1) * 2 ^ Levels
    <3> DEFINE d == 2 ^ Levels
    <3>1. d \in Nat
      BY PowerIs, LevelsAssumption
    <3>2. Len(p) <= d
      BY DEF MaxLeaves
    <3> HIDE DEF d
    <3>3. a \in Nat /\ 0 * d <= a /\ a < (0 + 1) * d
      BY <1>1, <3>1, <3>2
    <3>4. QED
      BY <3>3 DEF d
  <2>6. LeafAt(s, a) = LeafAt(t, a)
    BY <2>4, <2>5 DEF SameUnder
  <2>7. LeafAt(s, a) = EmptyLeaf
    BY <2>1, <2>5, NodesAre DEF LeafAt
  <2>8. LeafAt(t, a) = p[a + 1]
    BY <1>1, <2>1, <2>5, NodesAre DEF LeafAt
  <2>9. QED
    BY <2>2, <2>6, <2>7, <2>8, PoolTreeAssumption DEF PoolTree!CommitmentAssumption
<1>2. k < m \/ m < k \/ k = m
  OBVIOUS
<1>3. QED
  BY <1>1, <1>2

SizeOf(r, leaves, n) ==
  LET sizes == {k \in 0 .. n : k % 2 = 0 /\ RootOf(leaves, k) = r}
  IN  IF sizes = {} THEN -1 ELSE CHOOSE k \in sizes : TRUE

\* A root stands for one number of leaves.
LEMMA SizeIs ==
  ASSUME NEW p \in Seq(Commitments), NEW n \in Nat, Len(p) = n, n <= MaxLeaves,
         NEW k \in 0 .. n, k % 2 = 0
  PROVE  SizeOf(RootOf(p, k), p, n) = k
<1> DEFINE sizes == {m \in 0 .. n : m % 2 = 0 /\ RootOf(p, m) = RootOf(p, k)}
<1>1. k \in sizes
  OBVIOUS
<1>2. ASSUME NEW m \in sizes PROVE m = k
  <2>1. m \in 0 .. Len(p) /\ k \in 0 .. Len(p) /\ RootOf(p, m) = RootOf(p, k)
    OBVIOUS
  <2>2. QED
    BY <2>1, RootsAreDistinct
<1>3. SizeOf(RootOf(p, k), p, n) = IF sizes = {} THEN -1 ELSE CHOOSE m \in sizes : TRUE
  BY DEF SizeOf
<1> HIDE DEF sizes
<1>4. (CHOOSE m \in sizes : TRUE) \in sizes /\ sizes # {}
  BY <1>1
<1>5. QED
  BY <1>2, <1>3, <1>4

\* The refinement mapping, on the state and on the next one.
LEMMA LeavesUnderIs ==
  /\ \A r : PoolTree!LeavesUnder(r) = SizeOf(r, commitments, poolNext)
  /\ \A r : PoolTree!LeavesUnder(r)' = SizeOf(r, commitments', poolNext')
<1>1. \A p, k : PoolTree!PrefixRoot(SubSeq(p, 1, k)) = RootOf(p, k)
  BY PoolTreeIsTree DEF RootOf
<1>2. ASSUME NEW r PROVE PoolTree!LeavesUnder(r) = SizeOf(r, commitments, poolNext)
  <2> DEFINE A == {k \in 0 .. poolNext : k % 2 = 0 /\ PoolTree!PrefixRoot(SubSeq(commitments, 1, k)) = r}
             B == {k \in 0 .. poolNext : k % 2 = 0 /\ RootOf(commitments, k) = r}
  <2>1. A = B
    BY <1>1
  <2>2. PoolTree!LeavesUnder(r) = IF A = {} THEN -1 ELSE CHOOSE k \in A : TRUE
    BY DEF PoolTree!LeavesUnder
  <2>3. SizeOf(r, commitments, poolNext) = IF B = {} THEN -1 ELSE CHOOSE k \in B : TRUE
    BY DEF SizeOf
  <2> HIDE DEF A, B
  <2>4. QED
    BY <2>1, <2>2, <2>3
<1>3. ASSUME NEW r PROVE PoolTree!LeavesUnder(r)' = SizeOf(r, commitments', poolNext')
  <2> DEFINE A == {k \in 0 .. poolNext' : k % 2 = 0 /\ PoolTree!PrefixRoot(SubSeq(commitments', 1, k)) = r}
             B == {k \in 0 .. poolNext' : k % 2 = 0 /\ RootOf(commitments', k) = r}
  <2>1. A = B
    BY <1>1
  <2>2. PoolTree!LeavesUnder(r)' = IF A = {} THEN -1 ELSE CHOOSE k \in A : TRUE
    BY DEF PoolTree!LeavesUnder
  <2>3. SizeOf(r, commitments', poolNext') = IF B = {} THEN -1 ELSE CHOOSE k \in B : TRUE
    BY DEF SizeOf
  <2> HIDE DEF A, B
  <2>4. QED
    BY <2>1, <2>2, <2>3
<1>4. QED
  BY <1>2, <1>3

\* What the mapping makes of the ring.
RingOf(ring, leaves, n) == [i \in DOMAIN ring |-> SizeOf(ring[i], leaves, n)]

LEMMA AbstractInit ==
  ASSUME PartsInit
  PROVE  PoolTree!Abstract!MerkleInit
<1>1. /\ poolNext = 0 /\ rootIndex = 0 /\ commitments = <<>>
      /\ roots = [i \in {0} |-> Zeroes[Levels]]
  BY PoolTreeIsTree DEF PartsInit, PoolTree!Init
<1>2. [i \in 0 .. poolNext - 1 |-> commitments[i + 1]] = [i \in {} |-> i]
  BY <1>1
<1>3. PoolTree!LeavesUnder(Zeroes[Levels]) = 0
  <2>1. SubSeq(<<>>, 1, 0) = <<>> /\ <<>> \in Seq(Commitments) /\ Len(<<>>) = 0
    OBVIOUS
  <2>2. RootOf(<<>>, 0) = Zeroes[Levels]
    BY <2>1, EmptyTree DEF RootOf
  <2>3. MaxLeaves \in Nat
    BY PowerIs, LevelsAssumption DEF MaxLeaves
  <2>4. SizeOf(RootOf(<<>>, 0), <<>>, 0) = 0
    <3> DEFINE p == <<>>
               n == 0
    <3>1. p \in Seq(Commitments) /\ n \in Nat /\ Len(p) = n /\ n <= MaxLeaves
          /\ n \in 0 .. n /\ n % 2 = 0
      BY <2>1, <2>3
    <3> HIDE DEF p, n
    <3>2. SizeOf(RootOf(p, n), p, n) = n
      BY <3>1, SizeIs
    <3>3. QED
      BY <3>2 DEF p, n
  <2>5. QED
    BY <1>1, <2>2, <2>4, LeavesUnderIs
<1>4. [i \in DOMAIN roots |-> PoolTree!LeavesUnder(roots[i])] = [i \in {0} |-> 0]
  BY <1>1, <1>3
<1>5. QED
  BY <1>1, <1>2, <1>4 DEF PoolTree!Abstract!MerkleInit

LEMMA AbstractInsert ==
  ASSUME PoolInvariant, NEW leaf1 \in Commitments, NEW leaf2 \in Commitments,
         PoolTree!InsertTwoLeaves(leaf1, leaf2)
  PROVE  PoolTree!Abstract!InsertTwoLeaves(leaf1, leaf2)
<1> DEFINE slot == (rootIndex + 1) % RootHistorySize
           n == poolNext
           p == commitments
           q == commitments'
<1>1. /\ poolNext' = n + 2 /\ n + 2 <= MaxLeaves /\ q = p \o <<leaf1, leaf2>>
      /\ rootIndex' = slot
      /\ roots' = [i \in DOMAIN roots \cup {slot} |-> IF i = slot THEN PrefixRoot(q) ELSE roots[i]]
  BY PoolInsertIs
<1>2. p \in Seq(Commitments) /\ Len(p) = n /\ n \in Nat /\ n % 2 = 0
  BY DEF PoolInvariant
<1>3. /\ q \in Seq(Commitments) /\ Len(q) = n + 2
      /\ \A i \in 1 .. n : q[i] = p[i]
      /\ q[n + 1] = leaf1 /\ q[n + 2] = leaf2
      /\ \A k \in 0 .. n : SubSeq(q, 1, k) = SubSeq(p, 1, k)
      /\ SubSeq(q, 1, n + 2) = q
  BY <1>1, <1>2, PrefixesAreKept
<1>4. n + 2 \in Nat /\ (n + 2) % 2 = 0 /\ n + 2 \in 0 .. n + 2 /\ n <= MaxLeaves
  <2>1. MaxLeaves \in Nat
    BY PowerIs, LevelsAssumption DEF MaxLeaves
  <2>2. QED
    BY <1>1, <1>2, <2>1
<1> HIDE DEF slot, q
<1> DEFINE told(c, m) == [i \in 0 .. m - 1 |-> c[i + 1]]
<1>5. told(q, n + 2) = [i \in 0 .. n + 1 |-> IF i = n THEN leaf1
                                            ELSE IF i = n + 1 THEN leaf2 ELSE told(p, n)[i]]
  <2>1. ASSUME NEW i \in 0 .. n + 1
        PROVE  q[i + 1] = IF i = n THEN leaf1 ELSE IF i = n + 1 THEN leaf2 ELSE told(p, n)[i]
    <3>1. CASE i = n
      BY <1>3, <3>1
    <3>2. CASE i = n + 1
      <4>1. i + 1 = n + 2 /\ i # n
        BY <1>2, <3>2
      <4>2. QED
        BY <1>3, <3>2, <4>1
    <3>3. CASE i \notin {n, n + 1}
      <4>1. i \in 0 .. n - 1 /\ i + 1 \in 1 .. n
        BY <1>2, <3>3
      <4>2. QED
        BY <1>3, <3>3, <4>1
    <3>4. QED
      BY <3>1, <3>2, <3>3
  <2>2. (n + 2) - 1 = n + 1
    BY <1>2
  <2>3. QED
    BY <2>1, <2>2
<1>6. SizeOf(PrefixRoot(q), q, n + 2) = n + 2
  <2> DEFINE m == n + 2
  <2>1. m \in Nat /\ Len(q) = m /\ m <= MaxLeaves /\ m \in 0 .. m /\ m % 2 = 0
        /\ PrefixRoot(q) = RootOf(q, m)
    BY <1>1, <1>3, <1>4 DEF RootOf
  <2> HIDE DEF m
  <2>2. SizeOf(RootOf(q, m), q, m) = m
    BY <1>3, <2>1, SizeIs
  <2>3. QED
    BY <2>1, <2>2 DEF m
<1>7. ASSUME NEW i \in DOMAIN roots PROVE SizeOf(roots[i], q, n + 2) = SizeOf(roots[i], p, n)
  <2>1. PICK k \in 0 .. n : k % 2 = 0 /\ roots[i] = RootOf(p, k)
    BY DEF PoolInvariant, IsRootOf
  <2>2. roots[i] = RootOf(q, k)
    BY <1>3, <2>1 DEF RootOf
  <2>3. SizeOf(RootOf(p, k), p, n) = k
    BY <1>2, <1>4, <2>1, SizeIs
  <2> DEFINE m == n + 2
  <2>4. m \in Nat /\ Len(q) = m /\ m <= MaxLeaves /\ k \in 0 .. m
    BY <1>1, <1>2, <1>3
  <2> HIDE DEF m
  <2>5. SizeOf(RootOf(q, k), q, m) = k
    BY <1>3, <2>1, <2>4, SizeIs
  <2>6. QED
    BY <2>1, <2>2, <2>3, <2>5 DEF m
<1>8. RingOf(roots', q, n + 2)
        = [i \in DOMAIN RingOf(roots, p, n) \cup {slot} |->
             IF i = slot THEN n + 2 ELSE RingOf(roots, p, n)[i]]
  <2>1. DOMAIN RingOf(roots, p, n) = DOMAIN roots /\ DOMAIN roots' = DOMAIN roots \cup {slot}
        /\ \A i \in DOMAIN roots : RingOf(roots, p, n)[i] = SizeOf(roots[i], p, n)
    BY <1>1 DEF RingOf
  <2>2. ASSUME NEW i \in DOMAIN roots \cup {slot}
        PROVE  SizeOf(roots'[i], q, n + 2) = IF i = slot THEN n + 2 ELSE RingOf(roots, p, n)[i]
    <3>1. CASE i = slot
      <4>1. roots'[i] = PrefixRoot(q)
        BY <1>1, <3>1
      <4>2. QED
        BY <1>6, <3>1, <4>1
    <3>2. CASE i # slot
      <4>1. roots'[i] = roots[i] /\ i \in DOMAIN roots
        BY <1>1, <3>2
      <4>2. QED
        BY <1>7, <2>1, <3>2, <4>1
    <3>3. QED
      BY <3>1, <3>2
  <2>3. RingOf(roots', q, n + 2) = [i \in DOMAIN roots \cup {slot} |-> SizeOf(roots'[i], q, n + 2)]
    BY <2>1 DEF RingOf
  <2>4. QED
    BY <2>1, <2>2, <2>3
<1>9. [i \in DOMAIN roots |-> PoolTree!LeavesUnder(roots[i])] = RingOf(roots, p, n)
  BY LeavesUnderIs DEF RingOf
<1>10. [i \in DOMAIN roots |-> PoolTree!LeavesUnder(roots[i])]' = RingOf(roots', q, n + 2)
  BY <1>1, LeavesUnderIs DEF RingOf, q
<1>11. [i \in 0 .. poolNext - 1 |-> commitments[i + 1]]' = told(q, n + 2)
  BY <1>1 DEF q
<1> HIDE DEF told
<1>12. QED
  BY <1>1, <1>2, <1>5, <1>8, <1>9, <1>10, <1>11
     DEF PoolTree!Abstract!InsertTwoLeaves, PoolTree!Abstract!NextRootIndex,
         PoolTree!Abstract!MaxLeaves, MaxLeaves, slot, told

(***************************************************************************)
(* The contract's tree of hashes (merkle_with_history.rs) implements the   *)
(* tree of leaves the pool is specified with, at every depth, size and     *)
(* length of the ring: a root tells how many leaves are under it, later    *)
(* insertions do not change what an earlier root tells, and each slot of   *)
(* the ring holds the root of the state it was written in.                 *)
(***************************************************************************)
THEOREM TreeImplementsMerkleWithHistory == PartsSpec => ImplementsMerkleWithHistory
<1>1. PartsInit => PoolTree!Abstract!MerkleInit
  BY AbstractInit
<1>2. ASSUME PoolInvariant, [PartsNext]_<<part, smtVars, poolVars, listVars, clientVars>>
      PROVE  [PoolTree!AbstractStep]_(PoolTree!Abstract!merkleVars)
  <2>1. CASE UNCHANGED poolVars
    <3>1. poolNext' = poolNext /\ rootIndex' = rootIndex /\ roots' = roots
          /\ commitments' = commitments
      BY <2>1 DEF poolVars
    <3>2. [i \in DOMAIN roots |-> PoolTree!LeavesUnder(roots[i])]'
            = [i \in DOMAIN roots |-> PoolTree!LeavesUnder(roots[i])]
      BY <3>1, LeavesUnderIs
    <3>3. UNCHANGED PoolTree!Abstract!merkleVars
      BY <3>1, <3>2 DEF PoolTree!Abstract!merkleVars
    <3>4. QED
      BY <3>3
  <2>2. CASE PoolInsert
    <3>1. PICK leaf1 \in Commitments, leaf2 \in Commitments :
            PoolTree!InsertTwoLeaves(leaf1, leaf2)
      BY <2>2 DEF PoolInsert
    <3>2. PoolTree!Abstract!InsertTwoLeaves(leaf1, leaf2)
      BY <1>2, <3>1, AbstractInsert
    <3>3. QED
      BY <3>2 DEF PoolTree!AbstractStep
  <2>3. CASE ListUpdateAdmin \/ ListSetInsertOnly \/ ListInsertLeaf \/ SmtStep
             \/ ClientInsert \/ ClientUpdate
    BY <2>1, <2>3 DEF ListUpdateAdmin, ListSetInsertOnly, ListInsertLeaf, InList, SmtStep, InSmt,
                      ClientInsert, ClientUpdate, InClient
  <2>4. QED
    BY <1>2, <2>1, <2>2, <2>3 DEF PartsNext
<1>3. QED
  BY <1>1, <1>2, PoolAlways, PTL
     DEF PartsSpec, ImplementsMerkleWithHistory, PoolTree!ImplementsMerkleWithHistory
=============================================================================
