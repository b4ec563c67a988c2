----------------------------- MODULE SparseProofs -----------------------------
(***************************************************************************)
(* Theorems about the sparse trees of MCParts, the contract's and the      *)
(* client's, for every width of the keys and every set of values.          *)
(*                                                                         *)
(* Both are compared with the subtrees of the reference tree.  First what  *)
(* such a subtree is, then the way of a key down the tree, then what each  *)
(* operation makes of the subtrees on that way and of the others.          *)
(***************************************************************************)
EXTENDS TreeProofs, SequenceTheorems

-----------------------------------------------------------------------------
(* Keys and their bits.                                                    *)

LEMMA KeysAre == KeyBits \in Nat /\ \A k \in Keys : k \in Nat /\ k < 2 ^ KeyBits
<1>1. 2 ^ KeyBits \in Nat
  BY KeyAssumption, PowerIs
<1>2. QED
  BY <1>1, KeyAssumption

\* One bit more of a key.
LEMMA BitsAre ==
  ASSUME NEW k \in Nat, NEW l \in Nat
  PROVE  /\ 2 ^ l \in Nat \ {0} /\ 2 ^ (l + 1) = 2 * 2 ^ l
         /\ Bit(k, l) \in {0, 1} /\ k % 2 ^ l \in 0 .. 2 ^ l - 1
         /\ k % 2 ^ (l + 1) = (k % 2 ^ l) + Bit(k, l) * 2 ^ l
         /\ k % 2 ^ 0 = 0
<1> DEFINE d == 2 ^ l
           q == k \div d
           r == k % d
           h == q \div 2
           b == q % 2
<1>1. d \in Nat \ {0} /\ 2 ^ (l + 1) = 2 * d
  BY PowerIs
<1> HIDE DEF d
<1>2. q \in Nat /\ r \in 0 .. d - 1 /\ k = d * q + r
  BY <1>1, DivHas
<1> HIDE DEF q, r
<1>3. h \in Nat /\ b \in 0 .. 1 /\ q = 2 * h + b
  BY <1>2
<1> HIDE DEF h, b
<1> DEFINE e == 2 * d
           s == d * b + r
<1>4. s \in 0 .. e - 1 /\ e \in Nat \ {0} /\ s = r + b * d
  <2>1. CASE b = 0
    BY <1>1, <1>2, <2>1
  <2>2. CASE b = 1
    BY <1>1, <1>2, <2>2
  <2>3. QED
    BY <1>3, <2>1, <2>2
<1>5. k = e * h + s
  BY <1>1, <1>2, <1>3
<1> HIDE DEF e, s
<1>6. k % e = s
  BY <1>3, <1>4, <1>5, DivIs
<1>7. k % 2 ^ (l + 1) = r + b * d
  BY <1>1, <1>4, <1>6 DEF e
<1>8. k % 2 ^ 0 = 0
  <2>1. 2 ^ 0 = 1
    OBVIOUS
  <2>2. k = 1 * k + 0 /\ 0 \in 0 .. 1 - 1
    OBVIOUS
  <2>3. k % 1 = 0
    BY <2>2
  <2>4. QED
    BY <2>1, <2>3
<1>9. b \in {0, 1}
  BY <1>3
<1>10. QED
  BY <1>1, <1>2, <1>7, <1>8, <1>9 DEF Bit, d, q, r, b

\* All bits of a key make it.
LEMMA AllBits ==
  ASSUME NEW k \in Keys
  PROVE  k % 2 ^ KeyBits = k
<1> DEFINE d == 2 ^ KeyBits
<1>1. d \in Nat \ {0} /\ k \in Nat /\ k < d
  BY KeysAre, PowerIs
<1> HIDE DEF d
<1>2. k = d * 0 + k /\ k \in 0 .. d - 1
  BY <1>1
<1>3. k % d = k
  BY <1>1, <1>2, DivIs
<1>4. QED
  BY <1>3 DEF d

-----------------------------------------------------------------------------
(* The keys under a place of the tree.                                     *)

\* What the list may be.
Maps == UNION {[D -> Values] : D \in SUBSET Keys}

Under(c, l, p) == {k \in DOMAIN c : k % 2 ^ l = p}

Places(l) == 0 .. 2 ^ l - 1

Single(S) == \E k \in S : S = {k}
Many(S) == \E a, b \in S : a # b

LEMMA MapsAre ==
  ASSUME NEW c \in Maps
  PROVE  DOMAIN c \subseteq Keys /\ \A k \in DOMAIN c : c[k] \in Values
BY DEF Maps

\* Half of the keys under a place are under its left child, half under the right.
LEMMA UnderSplits ==
  ASSUME NEW c \in Maps, NEW l \in Nat, NEW p \in Places(l)
  PROVE  /\ p \in Places(l + 1) /\ p + 2 ^ l \in Places(l + 1)
         /\ \A k \in DOMAIN c :
              /\ k \in Under(c, l + 1, p) <=> k \in Under(c, l, p) /\ Bit(k, l) = 0
              /\ k \in Under(c, l + 1, p + 2 ^ l) <=> k \in Under(c, l, p) /\ Bit(k, l) = 1
         /\ Under(c, l, p) = Under(c, l + 1, p) \cup Under(c, l + 1, p + 2 ^ l)
<1> DEFINE d == 2 ^ l
<1>1. d \in Nat \ {0} /\ 2 ^ (l + 1) = 2 * d
  BY PowerIs
<1>2. p \in 0 .. d - 1
  BY DEF Places
<1>3. p \in Places(l + 1) /\ p + d \in Places(l + 1)
  <2> HIDE DEF d
  <2>1. p \in 0 .. 2 * d - 1 /\ p + d \in 0 .. 2 * d - 1
    BY <1>1, <1>2
  <2>2. QED
    BY <1>1, <2>1 DEF Places
<1>4. ASSUME NEW k \in DOMAIN c
      PROVE  /\ k % 2 ^ (l + 1) = p <=> k % d = p /\ Bit(k, l) = 0
             /\ k % 2 ^ (l + 1) = p + d <=> k % d = p /\ Bit(k, l) = 1
  <2>1. k \in Nat
    BY KeysAre, MapsAre
  <2> DEFINE r == k % d
             b == Bit(k, l)
  <2>2. b \in {0, 1} /\ r \in 0 .. d - 1 /\ k % 2 ^ (l + 1) = r + b * d
    BY <2>1, BitsAre
  <2> HIDE DEF d, r, b
  <2>3. CASE b = 0
    BY <1>1, <1>2, <2>2, <2>3 DEF r, b
  <2>4. CASE b = 1
    BY <1>1, <1>2, <2>2, <2>4 DEF r, b
  <2>5. QED
    BY <2>2, <2>3, <2>4
<1>5. \A k \in DOMAIN c : Bit(k, l) \in {0, 1}
  BY KeysAre, MapsAre, BitsAre
<1> HIDE DEF d
<1>6. \A k \in DOMAIN c :
        /\ k \in Under(c, l + 1, p) <=> k \in Under(c, l, p) /\ Bit(k, l) = 0
        /\ k \in Under(c, l + 1, p + d) <=> k \in Under(c, l, p) /\ Bit(k, l) = 1
  BY <1>4 DEF Under, d
<1>7. Under(c, l, p) = Under(c, l + 1, p) \cup Under(c, l + 1, p + d)
  <2>1. Under(c, l, p) \subseteq DOMAIN c /\ Under(c, l + 1, p) \subseteq DOMAIN c
        /\ Under(c, l + 1, p + d) \subseteq DOMAIN c
    BY DEF Under
  <2>2. QED
    BY <1>5, <1>6, <2>1
<1>8. QED
  BY <1>3, <1>6, <1>7 DEF d

\* All keys are under the root, and one at most at the bottom.
LEMMA UnderEnds ==
  ASSUME NEW c \in Maps
  PROVE  /\ 0 \in Places(0) /\ Under(c, 0, 0) = DOMAIN c
         /\ \A p : ~Many(Under(c, KeyBits, p))
<1>1. 0 \in Places(0) /\ Places(0) = {0}
  BY DEF Places
<1>2. \A k \in DOMAIN c : k % 2 ^ 0 = 0 /\ k % 2 ^ KeyBits = k
  <2>1. ASSUME NEW k \in DOMAIN c PROVE k % 2 ^ 0 = 0 /\ k % 2 ^ KeyBits = k
    <3>1. k \in Keys /\ k \in Nat /\ 0 \in Nat
      BY KeysAre, MapsAre
    <3>2. QED
      BY <3>1, BitsAre, AllBits
  <2>2. QED
    BY <2>1
<1>3. Under(c, 0, 0) = DOMAIN c
  BY <1>2 DEF Under
<1>4. ASSUME NEW p, NEW a \in Under(c, KeyBits, p), NEW b \in Under(c, KeyBits, p) PROVE a = b
  BY <1>2 DEF Under
<1>5. QED
  BY <1>1, <1>3, <1>4 DEF Many

\* There are none, one or many, and the model counts them.
LEMMA UnderCounts ==
  ASSUME NEW c \in Maps, NEW l, NEW p
  PROVE  LET S == Under(c, l, p)
         IN  /\ S = {} \/ Single(S) \/ Many(S)
             /\ S = {} => ~Single(S) /\ ~Many(S)
             /\ ~(Single(S) /\ Many(S))
             /\ Cardinality(S) = 1 <=> Single(S)
             /\ Cardinality(S) >= 2 <=> Many(S)
             /\ IsFiniteSet(S) /\ Cardinality(S) \in Nat
<1> DEFINE S == Under(c, l, p)
<1>1. IsFiniteSet(S)
  <2>1. 2 ^ KeyBits \in Nat
    BY KeysAre, PowerIs
  <2>2. IsFiniteSet(0 .. 2 ^ KeyBits - 1)
    BY <2>1, FS_Interval
  <2>3. S \subseteq 0 .. 2 ^ KeyBits - 1
    BY MapsAre, KeyAssumption DEF Under
  <2>4. QED
    BY <2>2, <2>3, FS_Subset
<1> HIDE DEF S
<1>2. S = {} \/ Single(S) \/ Many(S)
  BY DEF Single, Many
<1>3. (S = {} => ~Single(S) /\ ~Many(S)) /\ ~(Single(S) /\ Many(S))
  BY DEF Single, Many
<1>4. Cardinality(S) \in Nat /\ (Cardinality(S) = 0 <=> S = {})
  BY <1>1, FS_CardinalityType, FS_EmptySet
<1>5. Cardinality(S) = 1 <=> Single(S)
  BY <1>1, FS_Singleton DEF Single
<1>6. Cardinality(S) >= 2 <=> Many(S)
  BY <1>2, <1>3, <1>4, <1>5
<1>7. QED
  BY <1>1, <1>2, <1>3, <1>4, <1>5, <1>6 DEF S

-----------------------------------------------------------------------------
(* The subtrees of the reference tree.                                     *)

\* A row of the reference tree, made of the one below it.
RowOver(c, below, height) ==
  LET lvl == KeyBits - height
  IN  [prefix \in 0 .. 2 ^ lvl - 1 |->
         LET under == Under(c, lvl, prefix)
         IN CASE under = {} -> Zero
              [] Cardinality(under) = 1 -> LET k == CHOOSE k \in under : TRUE IN Leaf(k, c[k])
              [] OTHER -> <<below[prefix], below[prefix + 2 ^ lvl]>>]

\* The reference tree of any list.
ReferenceOf(c) ==
  LET row[height \in 0 .. KeyBits] == RowOver(c, row[height - 1], height) IN row

Sub(c, l, p) == ReferenceOf(c)[KeyBits - l][p]

LEMMA ReferenceIs ==
  ASSUME NEW c \in Maps
  PROVE  \A h \in 0 .. KeyBits : ReferenceOf(c)[h] = RowOver(c, ReferenceOf(c)[h - 1], h)
<1> DEFINE Is(z, m) == z = [h \in 0 .. m |-> RowOver(c, z[h - 1], h)]
           S == {m \in 0 .. KeyBits : \E z : Is(z, m)}
<1>0. KeyBits \in Nat
  BY KeysAre
<1>1. ASSUME NEW x, NEW y PROVE RowOver(c, x, 0) = RowOver(c, y, 0)
  <2>1. KeyBits - 0 = KeyBits
    BY <1>0
  <2>2. ASSUME NEW p PROVE Under(c, KeyBits, p) = {} \/ Cardinality(Under(c, KeyBits, p)) = 1
    BY UnderCounts, UnderEnds
  <2>3. QED
    BY <2>1, <2>2 DEF RowOver
<1>2. \A m \in 0 .. KeyBits : m \in S
  <2>1. 0 \in S
    <3> DEFINE z == [h \in 0 .. 0 |-> RowOver(c, 0, 0)]
    <3>1. z = [h \in 0 .. 0 |-> RowOver(c, z[h - 1], h)]
      <4>1. \A h \in 0 .. 0 : RowOver(c, 0, 0) = RowOver(c, z[h - 1], h)
        <5> HIDE DEF z
        <5>1. \A h \in 0 .. 0 : h = 0
          OBVIOUS
        <5>2. QED
          BY <1>1, <5>1
      <4>2. QED
        BY <4>1
    <3> HIDE DEF z
    <3>2. Is(z, 0)
      BY <3>1
    <3> HIDE DEF Is
    <3>3. QED
      BY <1>0, <3>2
  <2>2. ASSUME NEW m \in 0 .. KeyBits - 1, m \in S PROVE m + 1 \in S
    <3>1. PICK z : Is(z, m)
      BY <2>2
    <3> DEFINE y == [h \in 0 .. m + 1 |-> IF h = m + 1 THEN RowOver(c, z[m], m + 1) ELSE z[h]]
    <3>2. ASSUME NEW h \in 0 .. m + 1 PROVE y[h] = RowOver(c, y[h - 1], h)
      <4>1. CASE h = m + 1
        <5>1. y[h] = RowOver(c, z[m], m + 1) /\ y[m] = z[m] /\ h - 1 = m
          BY <1>0, <4>1
        <5> HIDE DEF y
        <5>2. QED
          BY <4>1, <5>1
      <4>2. CASE h # m + 1 /\ h # 0
        <5>1. y[h] = z[h] /\ y[h - 1] = z[h - 1] /\ h \in 0 .. m
          BY <1>0, <4>2
        <5>2. z[h] = RowOver(c, z[h - 1], h)
          BY <3>1, <5>1
        <5> HIDE DEF y
        <5>3. QED
          BY <5>1, <5>2
      <4>3. CASE h = 0
        <5>1. y[h] = z[h] /\ h \in 0 .. m
          BY <1>0, <4>3
        <5>2. z[h] = RowOver(c, z[h - 1], h)
          BY <3>1, <5>1
        <5> HIDE DEF y
        <5>3. QED
          BY <1>1, <4>3, <5>1, <5>2
      <4>4. QED
        BY <1>0, <4>1, <4>2, <4>3
    <3>3. y = [h \in 0 .. m + 1 |-> RowOver(c, y[h - 1], h)]
      <4>1. y = [h \in 0 .. m + 1 |-> y[h]]
        OBVIOUS
      <4> HIDE DEF y
      <4>2. QED
        BY <3>2, <4>1
    <3>4. Is(y, m + 1)
      BY <3>3
    <3>5. m + 1 \in 0 .. KeyBits
      BY <1>0
    <3> HIDE DEF Is, y
    <3>6. QED
      BY <3>4, <3>5
  <2> HIDE DEF S
  <2>3. QED
    BY <1>0, <2>1, <2>2, Climb
<1>3. \E z : Is(z, KeyBits)
  <2> HIDE DEF Is
  <2>1. QED
    BY <1>0, <1>2
<1>4. ReferenceOf(c) = CHOOSE z : Is(z, KeyBits)
  BY DEF ReferenceOf
<1>5. Is(ReferenceOf(c), KeyBits)
  <2> HIDE DEF Is
  <2>1. QED
    BY <1>3, <1>4
<1>6. QED
  BY <1>5

\* A subtree: empty, a leaf, or two subtrees.
LEMMA SubIs ==
  ASSUME NEW c \in Maps, NEW l \in 0 .. KeyBits, NEW p \in Places(l)
  PROVE  /\ Under(c, l, p) = {} => Sub(c, l, p) = Zero
         /\ \A k : Under(c, l, p) = {k} => Sub(c, l, p) = Leaf(k, c[k])
         /\ Many(Under(c, l, p)) =>
              l < KeyBits /\ Sub(c, l, p) = <<Sub(c, l + 1, p), Sub(c, l + 1, p + 2 ^ l)>>
<1> DEFINE h == KeyBits - l
           under == Under(c, l, p)
           below == ReferenceOf(c)[h - 1]
<1>1. KeyBits \in Nat /\ l \in Nat /\ h \in 0 .. KeyBits /\ KeyBits - h = l
  BY KeysAre
<1>2. ReferenceOf(c)[h] = RowOver(c, below, h)
  BY <1>1, ReferenceIs
<1>3. Sub(c, l, p) = CASE under = {} -> Zero
                       [] Cardinality(under) = 1 ->
                            LET k == CHOOSE k \in under : TRUE IN Leaf(k, c[k])
                       [] OTHER -> <<below[p], below[p + 2 ^ l]>>
  <2>1. p \in 0 .. 2 ^ l - 1
    BY DEF Places
  <2> HIDE DEF h
  <2>2. RowOver(c, below, h)[p]
          = CASE under = {} -> Zero
              [] Cardinality(under) = 1 -> LET k == CHOOSE k \in under : TRUE IN Leaf(k, c[k])
              [] OTHER -> <<below[p], below[p + 2 ^ l]>>
    BY <1>1, <2>1 DEF RowOver
  <2>3. QED
    BY <1>2, <2>2 DEF Sub, h
<1>4. h - 1 = KeyBits - (l + 1)
  BY <1>1
<1>5. below[p] = Sub(c, l + 1, p) /\ below[p + 2 ^ l] = Sub(c, l + 1, p + 2 ^ l)
  BY <1>4 DEF Sub
<1> HIDE DEF below
<1>6. /\ under = {} \/ Single(under) \/ Many(under)
      /\ under = {} => ~Single(under) /\ ~Many(under)
      /\ ~(Single(under) /\ Many(under))
      /\ Cardinality(under) = 1 <=> Single(under)
  BY UnderCounts
<1>7. Many(under) => l < KeyBits
  <2>1. l # KeyBits \/ ~Many(under)
    BY UnderEnds
  <2>2. QED
    BY <1>1, <2>1
<1> HIDE DEF under
<1>8. under = {} => Sub(c, l, p) = Zero
  BY <1>3, <1>6
<1>9. ASSUME NEW k, under = {k} PROVE Sub(c, l, p) = Leaf(k, c[k])
  <2>1. under # {} /\ Cardinality(under) = 1 /\ (CHOOSE i \in under : TRUE) = k
    BY <1>6, <1>9 DEF Single
  <2>2. QED
    BY <1>3, <2>1
<1>10. Many(under) => Sub(c, l, p) = <<Sub(c, l + 1, p), Sub(c, l + 1, p + 2 ^ l)>>
  BY <1>3, <1>5, <1>6
<1>11. QED
  BY <1>7, <1>8, <1>9, <1>10 DEF under

LEMMA ReferenceIsOf == Reference = ReferenceOf(contents)
BY DEF Reference, ReferenceOf, RowOver, KeysUnder, Under

\* The three kinds of subtree are told apart.
LEMMA SubKinds ==
  ASSUME NEW c \in Maps, NEW l \in 0 .. KeyBits, NEW p \in Places(l)
  PROVE  /\ Sub(c, l, p) = Zero <=> Under(c, l, p) = {}
         /\ IsLeaf(Sub(c, l, p)) <=> Single(Under(c, l, p))
         /\ IsInternal(Sub(c, l, p)) <=> Many(Under(c, l, p))
<1> DEFINE S == Under(c, l, p)
           x == Sub(c, l, p)
<1>1. /\ S = {} \/ Single(S) \/ Many(S)
      /\ S = {} => ~Single(S) /\ ~Many(S)
      /\ ~(Single(S) /\ Many(S))
  BY UnderCounts
<1>2. Len(Zero) = 0 /\ \A a, b : Len(<<a, b>>) = 2 /\ Len(Leaf(a, b)) = 3
  BY DEF Zero, Leaf
<1>3. S = {} => x = Zero
  BY SubIs
<1>4. Single(S) => Len(x) = 3
  <2>1. ASSUME NEW k, S = {k} PROVE Len(x) = 3
    <3>1. x = Leaf(k, c[k])
      BY <2>1, SubIs
    <3>2. QED
      BY <1>2, <3>1
  <2>2. QED
    BY <2>1 DEF Single
<1>5. Many(S) => Len(x) = 2
  BY <1>2, SubIs
<1> HIDE DEF S, x
<1>6. S = {} \/ Single(S) \/ Many(S)
  BY <1>1
<1>7. S = {} => x = Zero /\ ~IsLeaf(x) /\ ~IsInternal(x)
  <2>1. Len(Zero) = 0
    BY <1>2
  <2>2. ~IsLeaf(Zero) /\ ~IsInternal(Zero)
    BY <2>1 DEF IsLeaf, IsInternal
  <2>3. QED
    BY <1>3, <2>2
<1>8. Single(S) => x # Zero /\ IsLeaf(x) /\ ~IsInternal(x)
  <2>1. ASSUME Len(x) = 3 PROVE IsLeaf(x) /\ ~IsInternal(x)
    BY <2>1 DEF IsLeaf, IsInternal
  <2>2. ASSUME Len(x) = 3 PROVE x # Zero
    <3>1. SUFFICES ASSUME x = Zero PROVE FALSE
      OBVIOUS
    <3>2. Len(Zero) = 3
      BY <2>2, <3>1, Zenon
    <3>3. Len(Zero) = 0
      BY <1>2
    <3>4. QED
      BY <3>2, <3>3
  <2>3. QED
    BY <1>4, <2>1, <2>2
<1>9. Many(S) => x # Zero /\ ~IsLeaf(x) /\ IsInternal(x)
  <2>1. ASSUME Len(x) = 2 PROVE ~IsLeaf(x) /\ IsInternal(x)
    BY <2>1 DEF IsLeaf, IsInternal
  <2>2. ASSUME Len(x) = 2 PROVE x # Zero
    <3>1. SUFFICES ASSUME x = Zero PROVE FALSE
      OBVIOUS
    <3>2. Len(Zero) = 2
      BY <2>2, <3>1, Zenon
    <3>3. Len(Zero) = 0
      BY <1>2
    <3>4. QED
      BY <3>2, <3>3
  <2>3. QED
    BY <1>5, <2>1, <2>2
<1>10. /\ x = Zero <=> S = {}
       /\ IsLeaf(x) <=> Single(S)
       /\ IsInternal(x) <=> Many(S)
  <2>1. CASE S = {}
    BY <1>1, <1>7, <2>1
  <2>2. CASE Single(S)
    BY <1>1, <1>8, <2>2
  <2>3. CASE Many(S)
    BY <1>1, <1>9, <2>3
  <2>4. QED
    BY <1>6, <2>1, <2>2, <2>3
<1>11. QED
  BY <1>10 DEF S, x

\* Numbers that agree on m bits agree on fewer.
LEMMA SameLowBits ==
  ASSUME NEW a \in Nat, NEW b \in Nat, NEW m \in Nat, a % 2 ^ m = b % 2 ^ m
  PROVE  /\ \A j \in 0 .. m : a % 2 ^ j = b % 2 ^ j
         /\ \A j \in 0 .. m - 1 : Bit(a, j) = Bit(b, j)
<1> DEFINE S == {i \in 0 .. m : a % 2 ^ (m - i) = b % 2 ^ (m - i)}
<1>1. ASSUME NEW j \in Nat, a % 2 ^ (j + 1) = b % 2 ^ (j + 1)
      PROVE  a % 2 ^ j = b % 2 ^ j /\ Bit(a, j) = Bit(b, j)
  <2> DEFINE d == 2 ^ j
             r == a % d
             s == b % d
             x == Bit(a, j)
             y == Bit(b, j)
  <2>1. d \in Nat \ {0} /\ x \in {0, 1} /\ y \in {0, 1} /\ r \in 0 .. d - 1 /\ s \in 0 .. d - 1
        /\ a % 2 ^ (j + 1) = r + x * d /\ b % 2 ^ (j + 1) = s + y * d
    BY BitsAre
  <2>2. r + x * d = s + y * d
    BY <1>1, <2>1
  <2> HIDE DEF d, r, s, x, y
  <2>3. r = s /\ x = y
    BY <2>1, <2>2
  <2>4. QED
    BY <2>3 DEF d, r, s, x, y
<1>2. 0 \in S
  <2>1. m - 0 = m
    OBVIOUS
  <2>2. QED
    BY <2>1
<1>3. ASSUME NEW i \in 0 .. m - 1, i \in S PROVE i + 1 \in S
  <2>1. m - (i + 1) \in Nat /\ (m - (i + 1)) + 1 = m - i /\ i + 1 \in 0 .. m
    OBVIOUS
  <2> DEFINE j == m - (i + 1)
  <2> HIDE DEF j
  <2>2. a % 2 ^ (j + 1) = b % 2 ^ (j + 1)
    BY <1>3, <2>1 DEF j
  <2>3. a % 2 ^ j = b % 2 ^ j
    BY <1>1, <2>1, <2>2 DEF j
  <2>4. QED
    BY <2>1, <2>3 DEF j
<1> HIDE DEF S
<1>4. \A i \in 0 .. m : i \in S
  BY <1>2, <1>3, Climb
<1>5. \A j \in 0 .. m : a % 2 ^ j = b % 2 ^ j
  <2>1. ASSUME NEW j \in 0 .. m PROVE a % 2 ^ j = b % 2 ^ j
    <3>1. m - j \in 0 .. m /\ m - (m - j) = j
      OBVIOUS
    <3>2. m - j \in S
      BY <1>4, <3>1
    <3>3. QED
      BY <3>1, <3>2 DEF S
  <2>2. QED
    BY <2>1
<1>6. \A j \in 0 .. m - 1 : Bit(a, j) = Bit(b, j)
  <2>1. ASSUME NEW j \in 0 .. m - 1 PROVE Bit(a, j) = Bit(b, j)
    <3>1. j \in Nat /\ j + 1 \in 0 .. m
      OBVIOUS
    <3>2. QED
      BY <1>1, <1>5, <3>1
  <2>2. QED
    BY <2>1
<1>7. QED
  BY <1>5, <1>6

\* A subtree tells the keys under it and their values, and nothing else.
LEMMA SubSame ==
  ASSUME NEW c \in Maps, NEW e \in Maps
  PROVE  \A l \in 0 .. KeyBits : \A p \in Places(l) :
           Under(c, l, p) = Under(e, l, p) /\ (\A k \in Under(c, l, p) : c[k] = e[k])
             => Sub(c, l, p) = Sub(e, l, p)
<1> DEFINE Same(l, p) == Under(c, l, p) = Under(e, l, p) /\ \A k \in Under(c, l, p) : c[k] = e[k]
           Good(l) == \A p \in Places(l) : Same(l, p) => Sub(c, l, p) = Sub(e, l, p)
           S == {h \in 0 .. KeyBits : Good(KeyBits - h)}
<1>0. KeyBits \in Nat
  BY KeysAre
<1>1. ASSUME NEW l \in 0 .. KeyBits, NEW p \in Places(l), Same(l, p), ~Many(Under(c, l, p))
      PROVE  Sub(c, l, p) = Sub(e, l, p)
  <2>1. CASE Under(c, l, p) = {}
    BY <1>1, <2>1, SubIs
  <2>2. CASE Single(Under(c, l, p))
    <3>1. PICK k \in Under(c, l, p) : Under(c, l, p) = {k}
      BY <2>2 DEF Single
    <3>2. Sub(c, l, p) = Leaf(k, c[k])
      BY <3>1, SubIs
    <3>3. Under(e, l, p) = {k} /\ c[k] = e[k]
      BY <1>1, <3>1
    <3>4. Sub(e, l, p) = Leaf(k, e[k])
      BY <3>3, SubIs
    <3>5. QED
      BY <3>2, <3>3, <3>4
  <2>3. QED
    BY <1>1, <2>1, <2>2, UnderCounts
<1>2. 0 \in S
  <2>1. KeyBits - 0 = KeyBits /\ KeyBits \in 0 .. KeyBits
    BY <1>0
  <2>2. Good(KeyBits)
    <3> HIDE DEF Same
    <3>1. QED
      BY <1>1, <2>1, UnderEnds
  <2> HIDE DEF Good
  <2>3. QED
    BY <1>0, <2>1, <2>2
<1>3. ASSUME NEW h \in 0 .. KeyBits - 1, h \in S PROVE h + 1 \in S
  <2> DEFINE l == KeyBits - (h + 1)
  <2>1. l \in 0 .. KeyBits /\ l \in Nat /\ l < KeyBits /\ l + 1 = KeyBits - h
        /\ h + 1 \in 0 .. KeyBits /\ l + 1 \in 0 .. KeyBits
    BY <1>0
  <2> HIDE DEF l
  <2>2. Good(l + 1)
    BY <1>3, <2>1
  <2>3. ASSUME NEW p \in Places(l), Same(l, p), Many(Under(c, l, p))
        PROVE  Sub(c, l, p) = Sub(e, l, p)
    <3> DEFINE o == p + 2 ^ l
    <3>1. p \in Places(l + 1) /\ o \in Places(l + 1)
      BY <2>1, UnderSplits
    <3>2. \A k \in DOMAIN c :
            /\ k \in Under(c, l + 1, p) <=> k \in Under(c, l, p) /\ Bit(k, l) = 0
            /\ k \in Under(c, l + 1, o) <=> k \in Under(c, l, p) /\ Bit(k, l) = 1
      BY <2>1, UnderSplits
    <3>3. \A k \in DOMAIN e :
            /\ k \in Under(e, l + 1, p) <=> k \in Under(e, l, p) /\ Bit(k, l) = 0
            /\ k \in Under(e, l + 1, o) <=> k \in Under(e, l, p) /\ Bit(k, l) = 1
      BY <2>1, UnderSplits
    <3> HIDE DEF o
    <3>4. \A q : Under(c, l + 1, q) \subseteq DOMAIN c /\ Under(e, l + 1, q) \subseteq DOMAIN e
                 /\ Under(c, l, q) \subseteq DOMAIN c /\ Under(e, l, q) \subseteq DOMAIN e
      BY DEF Under
    <3>5. Same(l + 1, p) /\ Same(l + 1, o)
      <4>1. Under(c, l, p) = Under(e, l, p) /\ \A k \in Under(c, l, p) : c[k] = e[k]
        BY <2>3
      <4>2. Under(c, l + 1, p) = Under(e, l + 1, p) /\ Under(c, l + 1, o) = Under(e, l + 1, o)
        BY <3>2, <3>3, <3>4, <4>1
      <4>3. Under(c, l + 1, p) \subseteq Under(c, l, p) /\ Under(c, l + 1, o) \subseteq Under(c, l, p)
        BY <3>2, <3>4
      <4>4. QED
        BY <4>1, <4>2, <4>3
    <3>6. Sub(c, l + 1, p) = Sub(e, l + 1, p) /\ Sub(c, l + 1, o) = Sub(e, l + 1, o)
      BY <2>2, <3>1, <3>5
    <3>7. Sub(c, l, p) = <<Sub(c, l + 1, p), Sub(c, l + 1, o)>>
      BY <2>1, <2>3, SubIs DEF o
    <3>8. Many(Under(e, l, p))
      BY <2>3
    <3>9. Sub(e, l, p) = <<Sub(e, l + 1, p), Sub(e, l + 1, o)>>
      BY <2>1, <3>8, SubIs DEF o
    <3>10. QED
      BY <3>6, <3>7, <3>9
  <2>4. Good(l)
    <3> HIDE DEF Same
    <3>1. QED
      BY <1>1, <2>1, <2>3
  <2> HIDE DEF Good
  <2>5. QED
    BY <2>1, <2>4 DEF l
<1> HIDE DEF S
<1>4. \A h \in 0 .. KeyBits : h \in S
  BY <1>0, <1>2, <1>3, Climb
<1>5. ASSUME NEW l \in 0 .. KeyBits PROVE Good(l)
  <2>1. KeyBits - l \in 0 .. KeyBits /\ KeyBits - (KeyBits - l) = l
    BY <1>0
  <2>2. KeyBits - l \in S
    BY <1>4, <2>1
  <2> HIDE DEF Good
  <2>3. QED
    BY <2>1, <2>2 DEF S
<1>6. QED
  BY <1>5

-----------------------------------------------------------------------------
(* The way of a key down the tree.                                         *)

OnWay(c, k, l) == Under(c, l, k % 2 ^ l)

Way(c, k, l) == Sub(c, l, k % 2 ^ l)

\* The place next to k's, below level l, and the subtree there.
Beside(k, l) == IF Bit(k, l) = 1 THEN k % 2 ^ l ELSE (k % 2 ^ l) + 2 ^ l

Aside(c, k, l) == Sub(c, l + 1, Beside(k, l))

\* The two places below a place of k's.
LEMMA WayDown ==
  ASSUME NEW k \in Keys, NEW l \in Nat
  PROVE  /\ k % 2 ^ l \in Places(l) /\ Beside(k, l) \in Places(l + 1)
         /\ Bit(k, l) \in {0, 1}
         /\ k % 2 ^ (l + 1) = IF Bit(k, l) = 1 THEN (k % 2 ^ l) + 2 ^ l ELSE k % 2 ^ l
         /\ Beside(k, l) # k % 2 ^ (l + 1)
         /\ k % 2 ^ 0 = 0
<1> DEFINE d == 2 ^ l
           r == k % d
           b == Bit(k, l)
           s == Beside(k, l)
<1>1. k \in Nat
  BY KeysAre
<1>2. d \in Nat \ {0} /\ 2 ^ (l + 1) = 2 * d /\ b \in {0, 1} /\ r \in 0 .. d - 1
      /\ k % 2 ^ (l + 1) = r + b * d /\ k % 2 ^ 0 = 0
  BY <1>1, BitsAre
<1>3. s = IF b = 1 THEN r ELSE r + d
  BY DEF Beside
<1> HIDE DEF d, r, b, s
<1>4. s \in 0 .. 2 * d - 1 /\ s # r + b * d /\ r + b * d = IF b = 1 THEN r + d ELSE r
  BY <1>2, <1>3
<1>5. r \in Places(l)
  BY <1>2 DEF Places, d
<1>6. s \in Places(l + 1)
  BY <1>2, <1>4 DEF Places
<1>7. QED
  BY <1>2, <1>4, <1>5, <1>6 DEF d, r, b, s

\* The keys below a place of k's.
LEMMA WayUnder ==
  ASSUME NEW c \in Maps, NEW k \in Keys, NEW l \in Nat
  PROVE  /\ \A a \in DOMAIN c :
              /\ a \in OnWay(c, k, l + 1) <=> a \in OnWay(c, k, l) /\ Bit(a, l) = Bit(k, l)
              /\ a \in Under(c, l + 1, Beside(k, l))
                   <=> a \in OnWay(c, k, l) /\ Bit(a, l) # Bit(k, l)
         /\ OnWay(c, k, l) = OnWay(c, k, l + 1) \cup Under(c, l + 1, Beside(k, l))
         /\ OnWay(c, k, 0) = DOMAIN c
         /\ k \in DOMAIN c <=> k \in OnWay(c, k, l)
<1> DEFINE p == k % 2 ^ l
<1>1. p \in Places(l) /\ Bit(k, l) \in {0, 1}
      /\ Beside(k, l) = (IF Bit(k, l) = 1 THEN p ELSE p + 2 ^ l)
      /\ k % 2 ^ (l + 1) = (IF Bit(k, l) = 1 THEN p + 2 ^ l ELSE p) /\ k % 2 ^ 0 = 0
  BY WayDown DEF Beside
<1>2. \A a \in DOMAIN c : Bit(a, l) \in {0, 1}
  BY KeysAre, MapsAre, BitsAre
<1>3. \A a \in DOMAIN c :
        /\ a \in Under(c, l + 1, p) <=> a \in Under(c, l, p) /\ Bit(a, l) = 0
        /\ a \in Under(c, l + 1, p + 2 ^ l) <=> a \in Under(c, l, p) /\ Bit(a, l) = 1
  BY <1>1, UnderSplits
<1>4. Under(c, l, p) = Under(c, l + 1, p) \cup Under(c, l + 1, p + 2 ^ l)
  BY <1>1, UnderSplits
<1>5. OnWay(c, k, 0) = DOMAIN c
  <2> DEFINE z == k % 2 ^ 0
  <2>1. z = 0
    BY <1>1
  <2>2. OnWay(c, k, 0) = Under(c, 0, z)
    BY DEF OnWay
  <2> HIDE DEF z
  <2>3. QED
    BY <2>1, <2>2, UnderEnds
<1>6. k \in DOMAIN c <=> k \in OnWay(c, k, l)
  BY DEF OnWay, Under
<1>7. OnWay(c, k, l) = Under(c, l, p)
  BY DEF OnWay
<1> HIDE DEF p
<1>8. CASE Bit(k, l) = 1
  <2>1. OnWay(c, k, l + 1) = Under(c, l + 1, p + 2 ^ l) /\ Beside(k, l) = p
    BY <1>1, <1>8 DEF OnWay
  <2>2. QED
    BY <1>2, <1>3, <1>4, <1>5, <1>6, <1>7, <1>8, <2>1
<1>9. CASE Bit(k, l) = 0
  <2>1. OnWay(c, k, l + 1) = Under(c, l + 1, p) /\ Beside(k, l) = p + 2 ^ l
    BY <1>1, <1>9 DEF OnWay
  <2>2. QED
    BY <1>2, <1>3, <1>4, <1>5, <1>6, <1>7, <1>9, <2>1
<1>10. QED
  BY <1>1, <1>8, <1>9

\* Above many keys the tree is what the code joins.
LEMMA WayJoin ==
  ASSUME NEW c \in Maps, NEW k \in Keys, NEW l \in 0 .. KeyBits, Many(OnWay(c, k, l))
  PROVE  /\ l < KeyBits
         /\ Way(c, k, l) = Join(k, l, Aside(c, k, l), Way(c, k, l + 1))
         /\ Way(c, k, l)[1 + Bit(k, l)] = Way(c, k, l + 1)
         /\ Way(c, k, l)[2 - Bit(k, l)] = Aside(c, k, l)
<1> DEFINE p == k % 2 ^ l
           o == p + 2 ^ l
           below == Sub(c, l + 1, p)
           next == Sub(c, l + 1, o)
<1>1. l \in Nat /\ KeyBits \in Nat
  BY KeysAre
<1>2. p \in Places(l) /\ Bit(k, l) \in {0, 1} /\ Beside(k, l) = (IF Bit(k, l) = 1 THEN p ELSE o)
      /\ k % 2 ^ (l + 1) = IF Bit(k, l) = 1 THEN o ELSE p
  BY <1>1, WayDown DEF Beside
<1>3. l < KeyBits /\ Way(c, k, l) = <<below, next>>
  BY <1>2, SubIs DEF OnWay, Way
<1>4. Aside(c, k, l) = (IF Bit(k, l) = 1 THEN below ELSE next)
      /\ Way(c, k, l + 1) = IF Bit(k, l) = 1 THEN next ELSE below
  BY <1>2 DEF Aside, Way
<1> HIDE DEF below, next, p, o
<1>5. CASE Bit(k, l) = 1
  BY <1>3, <1>4, <1>5 DEF Join
<1>6. CASE Bit(k, l) = 0
  BY <1>3, <1>4, <1>6 DEF Join
<1>7. QED
  BY <1>2, <1>5, <1>6

\* There are fewer keys the further down.
LEMMA WayNarrows ==
  ASSUME NEW c \in Maps, NEW k \in Keys, NEW j \in Nat
  PROVE  \A l \in j .. KeyBits : OnWay(c, k, l) \subseteq OnWay(c, k, j)
<1> DEFINE S == {l \in j .. KeyBits : OnWay(c, k, l) \subseteq OnWay(c, k, j)}
<1>0. KeyBits \in Nat
  BY KeysAre
<1>1. CASE j <= KeyBits
  <2>1. j \in S
    BY <1>0, <1>1
  <2>2. ASSUME NEW l \in j .. KeyBits - 1, l \in S PROVE l + 1 \in S
    <3>1. l \in Nat /\ l + 1 \in j .. KeyBits
      BY <1>0
    <3>2. OnWay(c, k, l + 1) \subseteq OnWay(c, k, l)
      BY <3>1, WayUnder
    <3>3. QED
      BY <2>2, <3>1, <3>2
  <2> HIDE DEF S
  <2>3. \A l \in j .. KeyBits : l \in S
    BY <1>0, <2>1, <2>2, Climb
  <2>4. QED
    BY <2>3 DEF S
<1>2. CASE ~(j <= KeyBits)
  BY <1>0, <1>2
<1>3. QED
  BY <1>1, <1>2

-----------------------------------------------------------------------------
(* What is in a tree, and where.                                           *)

InTree(c, x) == \E l \in 0 .. KeyBits : \E p \in Places(l) : x = Sub(c, l, p)

\* A node with a child that is not in the tree is not in it.
LEMMA Fresh ==
  ASSUME NEW c \in Maps, NEW k, NEW i, NEW s, NEW y, ~InTree(c, y)
  PROVE  ~InTree(c, Join(k, i, s, y))
<1> DEFINE x == Join(k, i, s, y)
<1>1. SUFFICES ASSUME InTree(c, x) PROVE FALSE
  OBVIOUS
<1>2. x = <<s, y>> \/ x = <<y, s>>
  BY DEF Join
<1> HIDE DEF x
<1>3. IsInternal(x)
  BY <1>2 DEF IsInternal
<1>4. PICK l \in 0 .. KeyBits : \E p \in Places(l) : x = Sub(c, l, p)
  BY <1>1 DEF InTree
<1>5. PICK p \in Places(l) : x = Sub(c, l, p)
  BY <1>4
<1>6. Many(Under(c, l, p))
  BY <1>3, <1>5, SubKinds
<1> DEFINE a == Sub(c, l + 1, p)
           b == Sub(c, l + 1, p + 2 ^ l)
<1>7. l < KeyBits /\ x = <<a, b>>
  BY <1>5, <1>6, SubIs
<1>8. InTree(c, a) /\ InTree(c, b)
  <2>1. l \in Nat /\ l + 1 \in 0 .. KeyBits
    BY <1>7, KeysAre
  <2>2. p \in Places(l + 1) /\ p + 2 ^ l \in Places(l + 1)
    BY <2>1, UnderSplits
  <2>3. QED
    BY <2>1, <2>2 DEF InTree
<1> HIDE DEF a, b
<1>9. y = a \/ y = b
  BY <1>2, <1>7
<1>10. QED
  BY <1>8, <1>9

\* The leaves in a tree are those of its list.
LEMMA LeafIn ==
  ASSUME NEW c \in Maps, NEW k, NEW v, InTree(c, Leaf(k, v))
  PROVE  k \in DOMAIN c /\ c[k] = v
<1>1. PICK l \in 0 .. KeyBits : \E p \in Places(l) : Leaf(k, v) = Sub(c, l, p)
  BY DEF InTree
<1>2. PICK p \in Places(l) : Leaf(k, v) = Sub(c, l, p)
  BY <1>1
<1>3. IsLeaf(Leaf(k, v))
  BY DEF IsLeaf, Leaf
<1>4. Single(Under(c, l, p))
  BY <1>2, <1>3, SubKinds
<1>5. PICK a \in Under(c, l, p) : Under(c, l, p) = {a}
  BY <1>4 DEF Single
<1>6. Leaf(k, v) = Leaf(a, c[a])
  BY <1>2, <1>5, SubIs
<1>7. k = a /\ v = c[a]
  BY <1>6 DEF Leaf
<1>8. QED
  BY <1>5, <1>7 DEF Under

LEMMA WayIn ==
  ASSUME NEW c \in Maps, NEW k \in Keys, NEW l \in 0 .. KeyBits
  PROVE  InTree(c, Way(c, k, l))
<1>1. l \in Nat
  BY KeysAre
<1>2. k % 2 ^ l \in Places(l)
  BY <1>1, WayDown
<1>3. QED
  BY <1>2 DEF InTree, Way

\* A leaf on the way down is the leaf of a key of the list.
LEMMA WayLeaf ==
  ASSUME NEW c \in Maps, NEW k \in Keys, NEW l \in 0 .. KeyBits, NEW a, OnWay(c, k, l) = {a}
  PROVE  Way(c, k, l) = Leaf(a, c[a])
<1>1. l \in Nat
  BY KeysAre
<1>2. k % 2 ^ l \in Places(l)
  BY <1>1, WayDown
<1>3. QED
  BY <1>2, SubIs DEF OnWay, Way

LEMMA WayKinds ==
  ASSUME NEW c \in Maps, NEW k \in Keys, NEW l \in 0 .. KeyBits
  PROVE  /\ Way(c, k, l) = Zero <=> OnWay(c, k, l) = {}
         /\ IsLeaf(Way(c, k, l)) <=> Single(OnWay(c, k, l))
         /\ IsInternal(Way(c, k, l)) <=> Many(OnWay(c, k, l))
<1>1. l \in Nat
  BY KeysAre
<1>2. k % 2 ^ l \in Places(l)
  BY <1>1, WayDown
<1>3. QED
  BY <1>2, SubKinds DEF OnWay, Way

\* Two trees share a node only at the same place of both.
LEMMA Positioned ==
  ASSUME NEW c \in Maps, NEW e \in Maps
  PROVE  \A l, m \in 0 .. KeyBits : \A p \in Places(l) : \A q \in Places(m) :
           Many(Under(c, l, p)) /\ Sub(c, l, p) = Sub(e, m, q) => l = m /\ p = q
<1> DEFINE Good(l) == \A m \in 0 .. KeyBits : \A p \in Places(l) : \A q \in Places(m) :
                        Many(Under(c, l, p)) /\ Sub(c, l, p) = Sub(e, m, q) => l = m /\ p = q
           S == {h \in 0 .. KeyBits : Good(KeyBits - h)}
<1>0. KeyBits \in Nat
  BY KeysAre
<1>1. 0 \in S
  <2>1. KeyBits - 0 = KeyBits
    BY <1>0
  <2>2. Good(KeyBits)
    BY UnderEnds
  <2> HIDE DEF Good
  <2>3. QED
    BY <1>0, <2>1, <2>2
<1>2. ASSUME NEW h \in 0 .. KeyBits - 1, h \in S PROVE h + 1 \in S
  <2> DEFINE l == KeyBits - (h + 1)
  <2>1. l \in 0 .. KeyBits /\ l \in Nat /\ l < KeyBits /\ l + 1 = KeyBits - h
        /\ h + 1 \in 0 .. KeyBits /\ l + 1 \in 0 .. KeyBits
    BY <1>0
  <2> HIDE DEF l
  <2>2. Good(l + 1)
    BY <1>2, <2>1
  <2>3. ASSUME NEW m \in 0 .. KeyBits, NEW p \in Places(l), NEW q \in Places(m),
               Many(Under(c, l, p)), Sub(c, l, p) = Sub(e, m, q)
        PROVE  l = m /\ p = q
    <3> DEFINE o == p + 2 ^ l
               r == q + 2 ^ m
    <3>1. m \in Nat
      BY <1>0
    <3>2. Many(Under(e, m, q))
      BY <2>1, <2>3, SubKinds
    <3>3. m < KeyBits /\ Sub(c, l, p) = <<Sub(c, l + 1, p), Sub(c, l + 1, o)>>
          /\ Sub(e, m, q) = <<Sub(e, m + 1, q), Sub(e, m + 1, r)>>
      BY <2>1, <2>3, <3>2, SubIs
    <3>4. Sub(c, l + 1, p) = Sub(e, m + 1, q) /\ Sub(c, l + 1, o) = Sub(e, m + 1, r)
      <4> DEFINE x1 == Sub(c, l + 1, p)
                 x2 == Sub(c, l + 1, o)
                 y1 == Sub(e, m + 1, q)
                 y2 == Sub(e, m + 1, r)
      <4>1. <<x1, x2>> = <<y1, y2>>
        BY <2>3, <3>3
      <4> HIDE DEF x1, x2, y1, y2
      <4>2. x1 = y1 /\ x2 = y2
        BY <4>1
      <4>3. QED
        BY <4>2 DEF x1, x2, y1, y2
    <3>5. m + 1 \in 0 .. KeyBits /\ (l + 1 = m + 1 => l = m)
      BY <1>0, <2>1, <3>1, <3>3
    <3>6. /\ p \in Places(l + 1) /\ o \in Places(l + 1)
          /\ \A k \in DOMAIN c :
               /\ k \in Under(c, l + 1, p) <=> k \in Under(c, l, p) /\ Bit(k, l) = 0
               /\ k \in Under(c, l + 1, o) <=> k \in Under(c, l, p) /\ Bit(k, l) = 1
          /\ Under(c, l, p) = Under(c, l + 1, p) \cup Under(c, l + 1, o)
      BY <2>1, UnderSplits
    <3>7. /\ q \in Places(m + 1) /\ r \in Places(m + 1)
          /\ \A k \in DOMAIN e :
               /\ k \in Under(e, m + 1, q) <=> k \in Under(e, m, q) /\ Bit(k, m) = 0
               /\ k \in Under(e, m + 1, r) <=> k \in Under(e, m, q) /\ Bit(k, m) = 1
      BY <3>1, UnderSplits
    <3>8. CASE Many(Under(c, l + 1, p))
      <4>1. l + 1 = m + 1 /\ p = q
        BY <2>2, <3>4, <3>5, <3>6, <3>7, <3>8
      <4>2. QED
        BY <3>5, <4>1
    <3>9. CASE Many(Under(c, l + 1, o))
      <4>1. l + 1 = m + 1 /\ o = r
        BY <2>2, <3>4, <3>5, <3>6, <3>7, <3>9
      <4>2. l = m
        BY <3>5, <4>1
      <4> DEFINE d == 2 ^ l
      <4>3. p + d = q + d /\ p \in 0 .. d - 1 /\ q \in 0 .. d - 1 /\ d \in Nat
        BY <2>1, <4>1, <4>2, PowerIs DEF Places
      <4> HIDE DEF d
      <4>4. p = q
        BY <4>3
      <4>5. QED
        BY <4>2, <4>4
    <3> HIDE DEF o, r
    <3>10. CASE ~Many(Under(c, l + 1, p)) /\ ~Many(Under(c, l + 1, o))
      <4>1. PICK a, b \in Under(c, l, p) : a # b
        BY <2>3 DEF Many
      <4>2. Single(Under(c, l + 1, p)) /\ Single(Under(c, l + 1, o))
        <5>1. Under(c, l + 1, p) # {} /\ Under(c, l + 1, o) # {}
          BY <3>6, <3>10, <4>1 DEF Many
        <5>2. QED
          BY <3>10, <5>1, UnderCounts
      <4>3. Single(Under(e, m + 1, q)) /\ Single(Under(e, m + 1, r))
        BY <2>1, <3>4, <3>5, <3>6, <3>7, <4>2, SubKinds
      <4>4. PICK k : Under(c, l + 1, p) = {k}
        BY <4>2 DEF Single
      <4>5. PICK n : Under(c, l + 1, o) = {n}
        BY <4>2 DEF Single
      <4>6. PICK i : Under(e, m + 1, q) = {i}
        BY <4>3 DEF Single
      <4>7. PICK j : Under(e, m + 1, r) = {j}
        BY <4>3 DEF Single
      <4>8. k = i /\ n = j
        <5>1. Sub(c, l + 1, p) = Leaf(k, c[k]) /\ Sub(c, l + 1, o) = Leaf(n, c[n])
          BY <2>1, <3>6, <4>4, <4>5, SubIs
        <5>2. Sub(e, m + 1, q) = Leaf(i, e[i]) /\ Sub(e, m + 1, r) = Leaf(j, e[j])
          BY <3>5, <3>7, <4>6, <4>7, SubIs
        <5>3. Leaf(k, c[k]) = Leaf(i, e[i]) /\ Leaf(n, c[n]) = Leaf(j, e[j])
          BY <3>4, <5>1, <5>2
        <5>4. QED
          BY <5>3 DEF Leaf
      <4>9. /\ k \in DOMAIN c /\ n \in DOMAIN c /\ k % 2 ^ l = p /\ n % 2 ^ l = p
            /\ Bit(k, l) = 0 /\ Bit(n, l) = 1
        <5>1. k \in DOMAIN c /\ n \in DOMAIN c
          BY <4>4, <4>5 DEF Under
        <5>2. k \in Under(c, l, p) /\ n \in Under(c, l, p) /\ Bit(k, l) = 0 /\ Bit(n, l) = 1
          BY <3>6, <4>4, <4>5, <5>1
        <5>3. QED
          BY <5>1, <5>2 DEF Under
      <4>10. /\ k % 2 ^ m = q /\ n % 2 ^ m = q /\ Bit(k, m) = 0 /\ Bit(n, m) = 1
        <5>1. k \in DOMAIN e /\ n \in DOMAIN e
          BY <4>6, <4>7, <4>8 DEF Under
        <5>2. k \in Under(e, m, q) /\ n \in Under(e, m, q) /\ Bit(k, m) = 0 /\ Bit(n, m) = 1
          BY <3>7, <4>6, <4>7, <4>8, <5>1
        <5>3. QED
          BY <5>2 DEF Under
      <4>11. k \in Nat /\ n \in Nat
        BY <4>9, KeysAre, MapsAre
      <4>12. ~(l < m)
        <5>1. ASSUME l < m PROVE FALSE
          <6>1. l \in 0 .. m - 1
            BY <2>1, <3>1, <5>1
          <6>2. k % 2 ^ m = n % 2 ^ m
            BY <4>10
          <6>3. Bit(k, l) = Bit(n, l)
            BY <3>1, <4>11, <6>1, <6>2, SameLowBits
          <6>4. QED
            BY <4>9, <6>3
        <5>2. QED
          BY <5>1
      <4>13. ~(m < l)
        <5>1. ASSUME m < l PROVE FALSE
          <6>1. m \in 0 .. l - 1
            BY <2>1, <3>1, <5>1
          <6>2. k % 2 ^ l = n % 2 ^ l
            BY <4>9
          <6>3. Bit(k, m) = Bit(n, m)
            BY <2>1, <4>11, <6>1, <6>2, SameLowBits
          <6>4. QED
            BY <4>10, <6>3
        <5>2. QED
          BY <5>1
      <4>14. l = m
        BY <2>1, <3>1, <4>12, <4>13
      <4>15. QED
        BY <4>9, <4>10, <4>14
    <3>11. QED
      BY <3>8, <3>9, <3>10
  <2>4. Good(l)
    BY <2>3
  <2> HIDE DEF Good
  <2>5. QED
    BY <2>1, <2>4 DEF l
<1> HIDE DEF S
<1>3. \A h \in 0 .. KeyBits : h \in S
  BY <1>0, <1>1, <1>2, Climb
<1>4. ASSUME NEW l \in 0 .. KeyBits PROVE Good(l)
  <2>1. KeyBits - l \in 0 .. KeyBits /\ KeyBits - (KeyBits - l) = l
    BY <1>0
  <2>2. KeyBits - l \in S
    BY <1>3, <2>1
  <2> HIDE DEF Good
  <2>3. QED
    BY <2>1, <2>2 DEF S
<1>5. QED
  BY <1>4

-----------------------------------------------------------------------------
(* Where a way ends.                                                       *)

Ends(c, k, d) == ~Many(OnWay(c, k, d)) /\ \A l \in 0 .. d - 1 : Many(OnWay(c, k, l))

Turn(c, k) == CHOOSE d \in 0 .. KeyBits : Ends(c, k, d)

LEMMA TurnIs ==
  ASSUME NEW c \in Maps, NEW k \in Keys
  PROVE  /\ Turn(c, k) \in 0 .. KeyBits
         /\ \A l \in 0 .. KeyBits : Many(OnWay(c, k, l)) <=> l < Turn(c, k)
         /\ \A d \in 0 .. KeyBits : Ends(c, k, d) => d = Turn(c, k)
<1> DEFINE S == {l \in 0 .. KeyBits : ~Many(OnWay(c, k, l))}
           t == Turn(c, k)
<1>0. KeyBits \in Nat
  BY KeysAre
<1>1. S # {} /\ S \subseteq Nat
  <2>1. KeyBits \in S
    BY <1>0, UnderEnds DEF OnWay
  <2>2. QED
    BY <2>1
<1>2. PICK n \in S : \A m \in S : n <= m
  BY <1>1, HasLeast
<1>3. n \in 0 .. KeyBits /\ Ends(c, k, n)
  <2>1. n \in 0 .. KeyBits /\ ~Many(OnWay(c, k, n))
    BY <1>2
  <2>2. ASSUME NEW l \in 0 .. n - 1 PROVE Many(OnWay(c, k, l))
    <3>1. l \in 0 .. KeyBits /\ ~(n <= l)
      BY <1>0, <2>1
    <3>2. l \notin S
      BY <1>2, <3>1
    <3>3. QED
      BY <3>1, <3>2
  <2>3. QED
    BY <2>1, <2>2 DEF Ends
<1>4. t \in 0 .. KeyBits /\ Ends(c, k, t)
  <2> HIDE DEF S
  <2>1. QED
    BY <1>3 DEF Turn
<1> HIDE DEF t, S
<1>5. ASSUME NEW l \in 0 .. KeyBits PROVE Many(OnWay(c, k, l)) <=> l < t
  <2>1. CASE l < t
    <3>1. l \in 0 .. t - 1
      BY <1>4, <2>1
    <3>2. QED
      BY <1>4, <2>1, <3>1 DEF Ends
  <2>2. CASE ~(l < t)
    <3>1. t \in Nat /\ l \in t .. KeyBits
      BY <1>0, <1>4, <2>2
    <3>2. OnWay(c, k, l) \subseteq OnWay(c, k, t)
      BY <3>1, WayNarrows
    <3>3. ~Many(OnWay(c, k, l))
      BY <1>4, <3>2 DEF Ends, Many
    <3>4. QED
      BY <2>2, <3>3
  <2>3. QED
    BY <2>1, <2>2
<1>6. ASSUME NEW d \in 0 .. KeyBits, Ends(c, k, d) PROVE d = t
  <2>1. ~(d < t)
    BY <1>5, <1>6 DEF Ends
  <2>2. ~(t < d)
    <3>1. ASSUME t < d PROVE FALSE
      <4>1. t \in 0 .. d - 1
        BY <1>0, <1>4, <3>1
      <4>2. QED
        BY <1>4, <1>6, <4>1 DEF Ends
    <3>2. QED
      BY <3>1
  <2>3. QED
    BY <1>0, <1>4, <2>1, <2>2
<1>7. QED
  BY <1>4, <1>5, <1>6 DEF t

\* What is found there: nothing, the key's leaf, or the leaf of another key.
LEMMA EndIs ==
  ASSUME NEW c \in Maps, NEW k \in Keys
  PROVE  LET end == Way(c, k, Turn(c, k))
         IN  /\ end = Zero \/ \E a \in DOMAIN c : /\ end = Leaf(a, c[a])
                                                  /\ OnWay(c, k, Turn(c, k)) = {a}
             /\ end = Zero => OnWay(c, k, Turn(c, k)) = {}
             /\ k \in DOMAIN c => end = Leaf(k, c[k])
             /\ k \in DOMAIN c <=> end # Zero /\ end[2] = k
<1> DEFINE t == Turn(c, k)
           end == Way(c, k, t)
           S == OnWay(c, k, t)
<1>1. t \in 0 .. KeyBits /\ t \in Nat
  BY TurnIs, KeysAre
<1>2. ~Many(S)
  BY <1>1, TurnIs
<1>3. S = {} \/ Single(S)
  BY <1>2, UnderCounts DEF OnWay
<1>4. end = Zero <=> S = {}
  BY <1>1, WayKinds
<1>5. \A a : S = {a} => end = Leaf(a, c[a])
  BY <1>1, WayLeaf
<1>6. S \subseteq DOMAIN c /\ (k \in DOMAIN c <=> k \in S)
  BY <1>1, WayUnder DEF OnWay, Under
<1> HIDE DEF t, end, S
<1>7. \A a, v : Leaf(a, v)[2] = a
  BY DEF Leaf
<1>8. end = Zero \/ \E a \in DOMAIN c : end = Leaf(a, c[a]) /\ S = {a}
  BY <1>3, <1>4, <1>5, <1>6 DEF Single
<1>9. k \in DOMAIN c => end = Leaf(k, c[k])
  BY <1>3, <1>5, <1>6 DEF Single
<1>10. k \in DOMAIN c <=> end # Zero /\ end[2] = k
  BY <1>4, <1>6, <1>7, <1>8, <1>9
<1>11. QED
  BY <1>4, <1>8, <1>9, <1>10 DEF t, end, S

\* The last sibling above the end is not empty.
LEMMA LastAside ==
  ASSUME NEW c \in Maps, NEW k \in Keys, Turn(c, k) > 0
  PROVE  /\ Turn(c, k) - 1 \in 0 .. KeyBits - 1
         /\ Aside(c, k, Turn(c, k) - 1) # Zero
         /\ OnWay(c, k, Turn(c, k)) = {} => Many(Under(c, Turn(c, k), Beside(k, Turn(c, k) - 1)))
<1> DEFINE l == Turn(c, k) - 1
           U == Under(c, l + 1, Beside(k, l))
<1>1. l \in 0 .. KeyBits - 1 /\ l \in Nat /\ l \in 0 .. KeyBits /\ l + 1 = Turn(c, k)
      /\ l < Turn(c, k) /\ l + 1 \in 0 .. KeyBits
  BY TurnIs, KeysAre
<1>2. Many(OnWay(c, k, l)) /\ ~Many(OnWay(c, k, l + 1))
  BY <1>1, TurnIs
<1>3. OnWay(c, k, l) = OnWay(c, k, l + 1) \cup U
  BY <1>1, WayUnder
<1>4. Beside(k, l) \in Places(l + 1)
  BY <1>1, WayDown
<1> HIDE DEF l
<1>5. Aside(c, k, l) = Zero <=> U = {}
  BY <1>1, <1>4, SubKinds DEF Aside
<1>6. U # {} /\ (OnWay(c, k, l + 1) = {} => Many(U))
  <2> HIDE DEF U
  <2>1. QED
    BY <1>2, <1>3 DEF Many
<1>7. QED
  BY <1>1, <1>5, <1>6 DEF l

-----------------------------------------------------------------------------
(* What a store must hold, and what keeps it.                              *)

Complete(c, N) ==
  \A l \in 0 .. KeyBits : \A p \in Places(l) : Sub(c, l, p) = Zero \/ Sub(c, l, p) \in N

\* Two lists that differ at one key at most.
Apart(c, e, key) ==
  \A k \in Keys \ {key} : (k \in DOMAIN c <=> k \in DOMAIN e) /\ (k \in DOMAIN c => c[k] = e[k])

LEMMA OffWay ==
  ASSUME NEW c \in Maps, NEW e \in Maps, NEW key \in Keys, Apart(c, e, key),
         NEW l \in 0 .. KeyBits, NEW p \in Places(l), p # key % 2 ^ l
  PROVE  Sub(c, l, p) = Sub(e, l, p)
<1>1. DOMAIN c \subseteq Keys /\ DOMAIN e \subseteq Keys
  BY MapsAre
<1>2. Under(c, l, p) = Under(e, l, p)
  BY <1>1 DEF Under, Apart
<1>3. \A k \in Under(c, l, p) : c[k] = e[k]
  BY <1>1 DEF Under, Apart
<1>4. QED
  BY <1>2, <1>3, SubSame

LEMMA AsideKept ==
  ASSUME NEW c \in Maps, NEW e \in Maps, NEW key \in Keys, Apart(c, e, key),
         NEW l \in 0 .. KeyBits - 1
  PROVE  Aside(c, key, l) = Aside(e, key, l)
<1>1. l \in Nat /\ l + 1 \in 0 .. KeyBits
  BY KeysAre
<1>2. Beside(key, l) \in Places(l + 1) /\ Beside(key, l) # key % 2 ^ (l + 1)
  BY <1>1, WayDown
<1>3. QED
  BY <1>1, <1>2, OffWay DEF Aside

LEMMA BelowTurn ==
  ASSUME NEW c \in Maps, NEW k \in Keys, NEW l \in 0 .. KeyBits, ~(l < Turn(c, k))
  PROVE  Way(c, k, l) = Zero \/ Way(c, k, l) = Way(c, k, Turn(c, k))
<1> DEFINE t == Turn(c, k)
<1>1. t \in 0 .. KeyBits /\ t \in Nat /\ l \in t .. KeyBits
  BY TurnIs, KeysAre
<1>2. OnWay(c, k, l) \subseteq OnWay(c, k, t)
  BY <1>1, WayNarrows
<1>3. Way(c, k, l) = Zero <=> OnWay(c, k, l) = {}
  BY WayKinds
<1>4. OnWay(c, k, t) = {} \/ Single(OnWay(c, k, t))
  <2>1. ~Many(OnWay(c, k, t))
    BY <1>1, TurnIs
  <2>2. QED
    BY <2>1, UnderCounts DEF OnWay
<1>5. CASE OnWay(c, k, l) # {}
  <2>1. PICK a : OnWay(c, k, t) = {a}
    BY <1>2, <1>4, <1>5 DEF Single
  <2>2. OnWay(c, k, l) = {a}
    BY <1>2, <1>5, <2>1
  <2>3. Way(c, k, l) = Leaf(a, c[a]) /\ Way(c, k, t) = Leaf(a, c[a])
    BY <1>1, <2>1, <2>2, WayLeaf
  <2>4. QED
    BY <2>3
<1>6. QED
  BY <1>3, <1>5

\* A store stays complete if it keeps what the new tree has of the old one and
\* gets the way of the key that changed.
LEMMA KeepsComplete ==
  ASSUME NEW c \in Maps, NEW e \in Maps, NEW key \in Keys, NEW N, NEW M,
         Apart(c, e, key), Complete(c, N),
         \A x \in N : InTree(e, x) => x \in M,
         \A l \in 0 .. Turn(e, key) : Way(e, key, l) = Zero \/ Way(e, key, l) \in M
  PROVE  Complete(e, M)
<1>0. KeyBits \in Nat /\ Turn(e, key) \in 0 .. KeyBits
  BY KeysAre, TurnIs
<1>1. ASSUME NEW l \in 0 .. KeyBits, NEW p \in Places(l)
      PROVE  Sub(e, l, p) = Zero \/ Sub(e, l, p) \in M
  <2>1. CASE p # key % 2 ^ l
    <3>1. Sub(e, l, p) = Sub(c, l, p)
      BY <2>1, OffWay
    <3>2. Sub(c, l, p) = Zero \/ Sub(c, l, p) \in N
      BY DEF Complete
    <3>3. InTree(e, Sub(e, l, p))
      BY DEF InTree
    <3>4. QED
      BY <3>1, <3>2, <3>3
  <2>2. CASE p = key % 2 ^ l
    <3>1. Sub(e, l, p) = Way(e, key, l)
      BY <2>2 DEF Way
    <3>2. CASE l < Turn(e, key)
      <4>1. l \in 0 .. Turn(e, key)
        BY <1>0, <3>2
      <4>2. QED
        BY <3>1, <4>1
    <3>3. CASE ~(l < Turn(e, key))
      <4>1. Turn(e, key) \in 0 .. Turn(e, key)
        BY <1>0
      <4>2. QED
        BY <3>1, <3>3, <4>1, BelowTurn
    <3>4. QED
      BY <3>2, <3>3
  <2>3. QED
    BY <2>1, <2>2
<1>2. QED
  BY <1>1 DEF Complete

-----------------------------------------------------------------------------
(* find_key_internal.                                                      *)

\* The nodes passed and their siblings, as long as the way goes on.
Asides(c, k) == [i \in 1 .. Turn(c, k) |-> Aside(c, k, i - 1)]

LEMMA PathIs ==
  ASSUME contents \in Maps, root = Sub(contents, 0, 0), Complete(contents, nodes),
         NEW key \in Keys
  PROVE  \A l \in 0 .. Turn(contents, key) : PathOf(key)[l] = Way(contents, key, l)
<1> DEFINE t == Turn(contents, key)
           W(l) == Way(contents, key, l)
           Descend(above, lvl) == IF above \in nodes /\ IsInternal(above)
                               THEN above[1 + Bit(key, lvl)] ELSE above
           Is(z) == z = [lvl \in 0 .. KeyBits |->
                           IF lvl = 0 THEN root ELSE Descend(z[lvl - 1], lvl - 1)]
           z0 == [lvl \in 0 .. KeyBits |-> IF lvl <= t THEN W(lvl) ELSE W(t)]
<1>1. KeyBits \in Nat /\ t \in 0 .. KeyBits /\ t \in Nat
  BY KeysAre, TurnIs
<1>2. W(0) = root
  <2>1. key % 2 ^ 0 = 0
    BY WayDown
  <2> DEFINE z == key % 2 ^ 0
  <2>2. Way(contents, key, 0) = Sub(contents, 0, z)
    BY DEF Way
  <2>3. z = 0
    BY <2>1
  <2> HIDE DEF z
  <2>4. QED
    BY <2>2, <2>3
<1>3. ASSUME NEW l \in 0 .. t - 1 PROVE Descend(W(l), l) = W(l + 1)
  <2>1. l \in 0 .. KeyBits /\ l \in Nat /\ l < t
    BY <1>1
  <2>2. Many(OnWay(contents, key, l))
    BY <2>1, TurnIs
  <2>3. IsInternal(W(l)) /\ W(l) # Zero
    BY <2>1, <2>2, WayKinds DEF IsInternal, Zero
  <2>4. key % 2 ^ l \in Places(l)
    BY <2>1, WayDown
  <2>5. W(l) \in nodes
    BY <2>1, <2>3, <2>4 DEF Complete, Way
  <2>6. W(l)[1 + Bit(key, l)] = W(l + 1)
    BY <2>1, <2>2, WayJoin
  <2>7. QED
    BY <2>3, <2>5, <2>6
<1>4. \A lvl : Descend(W(t), lvl) = W(t)
  <2>1. ~IsInternal(W(t))
    BY <1>1, TurnIs, WayKinds
  <2>2. QED
    BY <2>1
<1>5. PathOf(key) = CHOOSE z : Is(z)
  BY DEF PathOf
<1> HIDE DEF t, W, Descend
<1>6. Is(z0)
  <2>1. ASSUME NEW lvl \in 0 .. KeyBits
        PROVE  z0[lvl] = IF lvl = 0 THEN root ELSE Descend(z0[lvl - 1], lvl - 1)
    <3>1. CASE lvl = 0
      BY <1>1, <1>2, <3>1
    <3>2. CASE lvl # 0 /\ lvl <= t
      <4>1. lvl - 1 \in 0 .. t - 1 /\ lvl - 1 \in 0 .. KeyBits /\ (lvl - 1) + 1 = lvl /\ lvl - 1 <= t
        BY <1>1, <3>2
      <4>2. z0[lvl] = W(lvl) /\ z0[lvl - 1] = W(lvl - 1)
        BY <3>2, <4>1
      <4>3. Descend(W(lvl - 1), lvl - 1) = W(lvl)
        BY <1>3, <4>1
      <4> HIDE DEF z0
      <4>4. QED
        BY <3>2, <4>2, <4>3
    <3>3. CASE ~(lvl <= t)
      <4>1. lvl - 1 \in 0 .. KeyBits /\ lvl # 0 /\ (lvl - 1 <= t => lvl - 1 = t)
        BY <1>1, <3>3
      <4>2. z0[lvl] = W(t) /\ z0[lvl - 1] = W(t)
        BY <3>3, <4>1
      <4> HIDE DEF z0
      <4>3. QED
        BY <1>4, <4>1, <4>2
    <3>4. QED
      BY <3>1, <3>2, <3>3
  <2>2. z0 = [lvl \in 0 .. KeyBits |-> z0[lvl]]
    OBVIOUS
  <2> HIDE DEF z0
  <2>3. QED
    BY <2>1, <2>2
<1>7. Is(PathOf(key))
  <2> HIDE DEF Is, z0
  <2>1. QED
    BY <1>5, <1>6
<1> DEFINE S == {l \in 0 .. t : PathOf(key)[l] = W(l)}
<1>8. 0 \in S
  BY <1>1, <1>2, <1>7
<1>9. ASSUME NEW l \in 0 .. t - 1, l \in S PROVE l + 1 \in S
  <2>1. l + 1 \in 0 .. KeyBits /\ l + 1 # 0 /\ (l + 1) - 1 = l /\ l + 1 \in 0 .. t
    BY <1>1
  <2>2. PathOf(key)[l + 1] = Descend(PathOf(key)[l], l)
    BY <1>7, <2>1
  <2>3. PathOf(key)[l] = W(l)
    BY <1>9
  <2>4. QED
    BY <1>3, <2>1, <2>2, <2>3
<1> HIDE DEF S
<1>10. \A l \in 0 .. t : l \in S
  BY <1>1, <1>8, <1>9, Climb
<1>11. QED
  BY <1>10 DEF S, t, W

LEMMA LookupIs ==
  ASSUME contents \in Maps, root = Sub(contents, 0, 0), Complete(contents, nodes),
         NEW key \in Keys
  PROVE  /\ Depth(key) = Turn(contents, key)
         /\ Siblings(key) = Asides(contents, key)
         /\ EndOf(key) = Way(contents, key, Turn(contents, key))
         /\ PathStored(key)
         /\ Found(key) <=> key \in DOMAIN contents
         /\ Absent(key) <=> key \notin DOMAIN contents
<1> DEFINE t == Turn(contents, key)
           path == PathOf(key)
           inside(l) == path[l] \in nodes /\ IsInternal(path[l])
<1>1. KeyBits \in Nat /\ t \in 0 .. KeyBits /\ t \in Nat /\ t \in 0 .. t
  BY KeysAre, TurnIs
<1>2. \A l \in 0 .. t : path[l] = Way(contents, key, l)
  BY PathIs
<1>3. \A l \in 0 .. KeyBits : Way(contents, key, l) = Zero \/ Way(contents, key, l) \in nodes
  <2>1. ASSUME NEW l \in 0 .. KeyBits PROVE key % 2 ^ l \in Places(l)
    <3>1. l \in Nat
      BY KeysAre
    <3>2. QED
      BY <3>1, WayDown
  <2>2. QED
    BY <2>1 DEF Complete, Way
<1>4. \A l \in 0 .. t : inside(l) <=> l < t
  <2>1. ASSUME NEW l \in 0 .. t PROVE inside(l) <=> l < t
    <3>1. l \in 0 .. KeyBits
      BY <1>1
    <3>2. path[l] = Way(contents, key, l) /\ (path[l] = Zero \/ path[l] \in nodes)
      BY <1>2, <1>3, <3>1
    <3>3. IsInternal(path[l]) <=> l < t
      BY <3>1, <3>2, TurnIs, WayKinds
    <3>4. ~IsInternal(Zero)
      BY DEF IsInternal, Zero
    <3>5. QED
      BY <3>2, <3>3, <3>4
  <2>2. QED
    BY <2>1
<1> HIDE DEF t
<1>5. Depth(key) = t
  <2> DEFINE Deep(d) == ~inside(d) /\ \A l \in 0 .. d - 1 : inside(l)
  <2>1. Depth(key) = CHOOSE d \in 0 .. KeyBits : Deep(d)
    BY DEF Depth
  <2> HIDE DEF path
  <2>2. Deep(t)
    BY <1>1, <1>4
  <2>3. ASSUME NEW d \in 0 .. KeyBits, Deep(d) PROVE d = t
    <3>1. ~(t < d)
      <4>1. ASSUME t < d PROVE FALSE
        <5>1. t \in 0 .. d - 1
          BY <1>1, <4>1
        <5>2. inside(t)
          BY <2>3, <5>1
        <5>3. QED
          BY <1>1, <1>4, <5>2
      <4>2. QED
        BY <4>1
    <3>2. ~(d < t)
      <4>1. ASSUME d < t PROVE FALSE
        <5>1. d \in 0 .. t
          BY <1>1, <4>1
        <5>2. QED
          BY <1>4, <2>3, <4>1, <5>1
      <4>2. QED
        BY <4>1
    <3>3. QED
      BY <1>1, <3>1, <3>2
  <2> HIDE DEF Deep
  <2>4. QED
    BY <1>1, <2>1, <2>2, <2>3
<1>6. EndOf(key) = Way(contents, key, t)
  BY <1>1, <1>2, <1>5 DEF EndOf
<1>7. Siblings(key) = Asides(contents, key)
  <2>1. Siblings(key) = [i \in 1 .. t |-> path[i - 1][2 - Bit(key, i - 1)]]
    BY <1>5 DEF Siblings
  <2>2. Asides(contents, key) = [i \in 1 .. t |-> Aside(contents, key, i - 1)]
    BY DEF Asides, t
  <2>3. ASSUME NEW i \in 1 .. t
        PROVE  path[i - 1][2 - Bit(key, i - 1)] = Aside(contents, key, i - 1)
    <3>1. i - 1 \in 0 .. KeyBits /\ i - 1 \in 0 .. t /\ i - 1 < t
      BY <1>1
    <3>2. Many(OnWay(contents, key, i - 1))
      BY <3>1, TurnIs DEF t
    <3>3. Way(contents, key, i - 1)[2 - Bit(key, i - 1)] = Aside(contents, key, i - 1)
      BY <3>1, <3>2, WayJoin
    <3>4. QED
      BY <1>2, <3>1, <3>3
  <2> HIDE DEF path
  <2>4. QED
    BY <2>1, <2>2, <2>3
<1> DEFINE end == EndOf(key)
<1>8. /\ end = Zero \/ \E a \in DOMAIN contents : end = Leaf(a, contents[a])
      /\ key \in DOMAIN contents <=> end # Zero /\ end[2] = key
  BY <1>6, EndIs DEF t
<1>9. end = Zero \/ end \in nodes
  BY <1>1, <1>3, <1>6
<1>10. \A a, v : IsLeaf(Leaf(a, v))
  BY DEF IsLeaf, Leaf
<1> HIDE DEF end
<1>11. PathStored(key)
  BY <1>8, <1>9, <1>10 DEF PathStored, end
<1>12. Found(key) <=> key \in DOMAIN contents
  BY <1>8, <1>11 DEF Found, end
<1>13. QED
  BY <1>5, <1>6, <1>7, <1>11, <1>12 DEF t, Absent

-----------------------------------------------------------------------------
(* The root recomputed from siblings.                                      *)

LEMMA RootFromIs ==
  ASSUME NEW key, NEW sibs, NEW end, Len(sibs) \in Nat
  PROVE  \E f : /\ \A i \in 0 .. Len(sibs) :
                     f[i] = IF i = Len(sibs) THEN end ELSE Join(key, i, sibs[i + 1], f[i + 1])
                /\ RootFrom(key, sibs, end) = f[0]
<1> DEFINE n == Len(sibs)
           Level(z, i) == IF i = n THEN end ELSE Join(key, i, sibs[i + 1], z[i + 1])
<1> DEFINE Is(z, j) == z = [i \in n - j .. n |-> Level(z, i)]
           S == {j \in 0 .. n : \E z : Is(z, j)}
<1>1. ASSUME NEW z, NEW y, NEW i, i # n => z[i + 1] = y[i + 1]
      PROVE  Level(z, i) = Level(y, i)
  BY <1>1
<1>2. n \in Nat
  OBVIOUS
<1>3. RootFrom(key, sibs, end) = (CHOOSE z : z = [i \in 0 .. n |-> Level(z, i)])[0]
  BY DEF RootFrom
<1> HIDE DEF n, Level
<1>4. 0 \in S
  <2> DEFINE z == [i \in n .. n |-> Level(0, i)]
  <2>1. \A i \in n .. n : i = n
    BY <1>2
  <2>2. z = [i \in n .. n |-> Level(z, i)]
    <3>1. ASSUME NEW i \in n .. n PROVE Level(0, i) = Level(z, i)
      <4> HIDE DEF z
      <4>1. QED
        BY <1>1, <2>1
    <3>2. QED
      BY <3>1
  <2> HIDE DEF z
  <2>3. n - 0 = n
    BY <1>2
  <2>4. Is(z, 0)
    BY <2>2, <2>3
  <2> HIDE DEF Is
  <2>5. QED
    BY <1>2, <2>4
<1>5. ASSUME NEW j \in 0 .. n - 1, j \in S PROVE j + 1 \in S
  <2> DEFINE m == n - (j + 1)
  <2>1. PICK z : Is(z, j)
    BY <1>5
  <2>2. m \in Nat /\ m # n /\ m + 1 = n - j /\ j + 1 \in 0 .. n
        /\ \A i \in m .. n : i = m \/ (i \in m + 1 .. n /\ i # m /\ (i # n => i + 1 \in m + 1 .. n /\ i + 1 # m))
    BY <1>2
  <2>3. m + 1 \in m .. n /\ m + 1 # m /\ m \in m .. n
    BY <1>2
  <2> HIDE DEF m
  <2> DEFINE y == [i \in m .. n |-> IF i = m THEN Level(z, i) ELSE z[i]]
  <2>4. ASSUME NEW i \in m .. n PROVE y[i] = Level(y, i)
    <3>1. CASE i = m
      <4>1. y[i] = Level(z, i) /\ y[i + 1] = z[i + 1]
        BY <2>3, <3>1
      <4> HIDE DEF y
      <4>2. Level(z, i) = Level(y, i)
        BY <1>1, <4>1
      <4>3. QED
        BY <4>1, <4>2
    <3>2. CASE i # m
      <4>1. i \in m + 1 .. n /\ (i # n => i + 1 \in m + 1 .. n /\ i + 1 # m)
        BY <2>2, <3>2
      <4>2. \A k \in m + 1 .. n : k \in m .. n
        BY <2>2
      <4>3. y[i] = z[i] /\ (i # n => y[i + 1] = z[i + 1])
        BY <3>2, <4>1, <4>2
      <4>4. z[i] = Level(z, i)
        BY <2>1, <2>2, <4>1
      <4> HIDE DEF y
      <4>5. Level(z, i) = Level(y, i)
        BY <1>1, <4>3
      <4>6. QED
        BY <4>3, <4>4, <4>5
    <3>3. QED
      BY <3>1, <3>2
  <2>5. y = [i \in m .. n |-> Level(y, i)]
    <3>1. y = [i \in m .. n |-> y[i]]
      OBVIOUS
    <3> HIDE DEF y
    <3>2. QED
      BY <2>4, <3>1
  <2> HIDE DEF y
  <2>6. Is(y, j + 1)
    BY <2>5 DEF m
  <2> HIDE DEF Is
  <2>7. QED
    BY <2>2, <2>6
<1> HIDE DEF S
<1>6. n \in S
  <2>1. \A j \in 0 .. n : j \in S
    BY <1>2, <1>4, <1>5, Climb
  <2>2. QED
    BY <1>2, <2>1
<1>7. PICK z : Is(z, n)
  BY <1>6 DEF S
<1>8. n - n = 0
  BY <1>2
<1> DEFINE f == CHOOSE y : y = [i \in 0 .. n |-> Level(y, i)]
<1>9. f = [i \in 0 .. n |-> Level(f, i)]
  <2>1. z = [i \in 0 .. n |-> Level(z, i)]
    BY <1>7, <1>8
  <2>2. QED
    BY <2>1
<1>10. RootFrom(key, sibs, end) = f[0]
  BY <1>3
<1> HIDE DEF f
<1>11. \A i \in 0 .. n : f[i] = Level(f, i)
  BY <1>9
<1>12. QED
  BY <1>10, <1>11 DEF n, Level

\* A climb over the siblings of a tree goes up its way.
LEMMA ClimbsWay ==
  ASSUME NEW c \in Maps, NEW key \in Keys, NEW d \in 0 .. KeyBits, NEW r,
         r[d] = Way(c, key, d),
         \A i \in 0 .. d - 1 : /\ Many(OnWay(c, key, i))
                               /\ r[i] = Join(key, i, Aside(c, key, i), r[i + 1])
  PROVE  \A i \in 0 .. d : r[i] = Way(c, key, i)
<1> DEFINE S == {j \in 0 .. d : r[d - j] = Way(c, key, d - j)}
<1>0. KeyBits \in Nat /\ d \in Nat
  BY KeysAre
<1>1. 0 \in S
  <2>1. d - 0 = d
    BY <1>0
  <2>2. QED
    BY <1>0, <2>1
<1>2. ASSUME NEW j \in 0 .. d - 1, j \in S PROVE j + 1 \in S
  <2> DEFINE i == d - (j + 1)
  <2>1. i \in 0 .. d - 1 /\ i \in 0 .. KeyBits /\ i + 1 = d - j /\ j + 1 \in 0 .. d
    BY <1>0
  <2> HIDE DEF i
  <2>2. r[i] = Join(key, i, Aside(c, key, i), Way(c, key, i + 1))
    BY <1>2, <2>1
  <2>3. r[i] = Way(c, key, i)
    BY <2>1, <2>2, WayJoin
  <2>4. QED
    BY <2>1, <2>3 DEF i
<1> HIDE DEF S
<1>3. \A j \in 0 .. d : j \in S
  BY <1>0, <1>1, <1>2, Climb
<1>4. ASSUME NEW i \in 0 .. d PROVE r[i] = Way(c, key, i)
  <2>1. d - i \in 0 .. d /\ d - (d - i) = i
    BY <1>0
  <2>2. d - i \in S
    BY <1>3, <2>1
  <2>3. QED
    BY <2>1, <2>2 DEF S
<1>5. QED
  BY <1>4

\* A store that climbs with the new nodes, and loses none of the new tree.
LEMMA StoreClimbs ==
  ASSUME NEW c \in Maps, NEW e \in Maps, NEW key \in Keys, NEW N0, NEW N, NEW n \in Nat,
         Apart(c, e, key), Complete(c, N0), Turn(e, key) <= n,
         \A x \in N0 : InTree(e, x) => x \in N[n],
         \A i \in 0 .. n - 1 : \A x \in N[i + 1] : InTree(e, x) => x \in N[i],
         \A i \in 0 .. Turn(e, key) : Way(e, key, i) = Zero \/ Way(e, key, i) \in N[i]
  PROVE  Complete(e, N[0])
<1> DEFINE S == {i \in 0 .. n : \A x \in N[i] : InTree(e, x) => x \in N[0]}
<1>0. Turn(e, key) \in 0 .. KeyBits /\ KeyBits \in Nat
  BY TurnIs, KeysAre
<1>1. 0 \in S
  OBVIOUS
<1>2. ASSUME NEW i \in 0 .. n - 1, i \in S PROVE i + 1 \in S
  <2>1. i + 1 \in 0 .. n
    OBVIOUS
  <2>2. QED
    BY <1>2, <2>1
<1>3. \A i \in 0 .. n : i \in S
  <2> HIDE DEF S
  <2>1. QED
    BY <1>1, <1>2, Climb
<1>4. \A i \in 0 .. n : \A x \in N[i] : InTree(e, x) => x \in N[0]
  BY <1>3
<1>5. \A x \in N0 : InTree(e, x) => x \in N[0]
  <2>1. n \in 0 .. n
    OBVIOUS
  <2>2. QED
    BY <1>4, <2>1
<1>6. ASSUME NEW i \in 0 .. Turn(e, key) PROVE Way(e, key, i) = Zero \/ Way(e, key, i) \in N[0]
  <2>1. i \in 0 .. KeyBits /\ i \in 0 .. n
    BY <1>0
  <2>2. InTree(e, Way(e, key, i))
    BY <2>1, WayIn
  <2>3. QED
    BY <1>4, <2>1, <2>2
<1>7. QED
  BY <1>5, <1>6, KeepsComplete

\* The old path of a key is not in a tree without its leaf.
LEMMA OldIsFresh ==
  ASSUME NEW e \in Maps, NEW key, NEW sibs, NEW n \in Nat, NEW o, ~InTree(e, o[n]),
         \A i \in 0 .. n - 1 : o[i] = Join(key, i, sibs[i + 1], o[i + 1])
  PROVE  \A i \in 0 .. n : ~InTree(e, o[i])
<1> DEFINE S == {j \in 0 .. n : ~InTree(e, o[n - j])}
<1>1. 0 \in S
  <2>1. n - 0 = n
    OBVIOUS
  <2>2. QED
    BY <2>1
<1>2. ASSUME NEW j \in 0 .. n - 1, j \in S PROVE j + 1 \in S
  <2> DEFINE i == n - (j + 1)
  <2>1. i \in 0 .. n - 1 /\ i + 1 = n - j /\ j + 1 \in 0 .. n
    OBVIOUS
  <2> HIDE DEF i
  <2>2. ~InTree(e, o[i + 1])
    BY <1>2, <2>1
  <2>3. ~InTree(e, o[i])
    BY <2>1, <2>2, Fresh
  <2>4. QED
    BY <2>1, <2>3 DEF i
<1> HIDE DEF S
<1>3. \A j \in 0 .. n : j \in S
  BY <1>1, <1>2, Climb
<1>4. ASSUME NEW i \in 0 .. n PROVE ~InTree(e, o[i])
  <2>1. n - i \in 0 .. n /\ n - (n - i) = i
    OBVIOUS
  <2>2. n - i \in S
    BY <1>3, <2>1
  <2>3. QED
    BY <2>1, <2>2 DEF S
<1>5. QED
  BY <1>4

LEMMA AsidesAre ==
  ASSUME NEW c \in Maps, NEW k \in Keys
  PROVE  /\ Len(Asides(c, k)) = Turn(c, k) /\ DOMAIN Asides(c, k) = 1 .. Turn(c, k)
         /\ Asides(c, k) = <<>> <=> Turn(c, k) = 0
         /\ \A i \in 0 .. Turn(c, k) - 1 : Asides(c, k)[i + 1] = Aside(c, k, i)
<1> DEFINE t == Turn(c, k)
<1>1. t \in Nat
  BY TurnIs, KeysAre
<1> HIDE DEF t
<1>2. Asides(c, k) = [i \in 1 .. t |-> Aside(c, k, i - 1)]
  BY DEF Asides, t
<1> DEFINE s == Asides(c, k)
<1>3. DOMAIN s = 1 .. t
  BY <1>2
<1>4. ASSUME NEW i \in 0 .. t - 1 PROVE s[i + 1] = Aside(c, k, i)
  <2>1. i + 1 \in 1 .. t /\ (i + 1) - 1 = i
    BY <1>1
  <2>2. QED
    BY <1>2, <2>1
<1> DEFINE V == {s[i] : i \in 1 .. t}
<1>5. s \in [1 .. t -> V]
  BY <1>2
<1> HIDE DEF s
<1>6. s \in Seq(V) /\ Len(s) = t
  <2> HIDE DEF V
  <2>1. s \in Seq(V)
    BY <1>1, <1>5
  <2>2. QED
    BY <1>1, <1>3, <2>1
<1>7. s = <<>> <=> t = 0
  <2> HIDE DEF V
  <2>1. QED
    BY <1>6
<1>8. QED
  BY <1>3, <1>4, <1>6, <1>7 DEF s, t

-----------------------------------------------------------------------------
(* update_leaf.                                                            *)

Updates(key, value, n, f) ==
  /\ UpdateClimb(key, value) = f[0]
  /\ f[n].rt = Leaf(key, value) /\ f[n].rtOld = EndOf(key)
  /\ f[n].nodes = (nodes \cup {f[n].rt}) \ {f[n].rtOld}
  /\ \A i \in 0 .. n - 1 :
       /\ f[i].rt = Join(key, i, Siblings(key)[i + 1], f[i + 1].rt)
       /\ f[i].rtOld = Join(key, i, Siblings(key)[i + 1], f[i + 1].rtOld)
       /\ f[i].nodes = (f[i + 1].nodes \cup {f[i].rt}) \ {f[i].rtOld}

LEMMA UpdateClimbIs ==
  ASSUME NEW key, NEW value, Len(Siblings(key)) \in Nat
  PROVE  \E f : Updates(key, value, Len(Siblings(key)), f)
<1> DEFINE n == Len(Siblings(key))
           Level(z, i) ==
             LET below == IF i < n THEN z[i + 1] ELSE [nodes |-> nodes]
                 rt == IF i = n THEN Leaf(key, value)
                       ELSE Join(key, i, Siblings(key)[i + 1], below.rt)
                 rtOld == IF i = n THEN EndOf(key)
                          ELSE Join(key, i, Siblings(key)[i + 1], below.rtOld)
             IN  [rt |-> rt, rtOld |-> rtOld, nodes |-> (below.nodes \cup {rt}) \ {rtOld}]
<1> DEFINE Is(z, j) == z = [i \in n - j .. n |-> Level(z, i)]
           S == {j \in 0 .. n : \E z : Is(z, j)}
<1>1. ASSUME NEW z, NEW y, NEW i, i # n => z[i + 1] = y[i + 1]
      PROVE  Level(z, i) = Level(y, i)
  <2>1. n \in Nat
    OBVIOUS
  <2>2. i < n => i # n
    BY <2>1
  <2>3. QED
    BY <1>1, <2>2
<1>2. n \in Nat
  OBVIOUS
<1>3. UpdateClimb(key, value) = (CHOOSE z : z = [i \in 0 .. n |-> Level(z, i)])[0]
  BY DEF UpdateClimb
<1> HIDE DEF n, Level
<1>4. 0 \in S
  <2> DEFINE z == [i \in n .. n |-> Level(0, i)]
  <2>1. \A i \in n .. n : i = n
    BY <1>2
  <2>2. z = [i \in n .. n |-> Level(z, i)]
    <3>1. ASSUME NEW i \in n .. n PROVE Level(0, i) = Level(z, i)
      <4> HIDE DEF z
      <4>1. QED
        BY <1>1, <2>1
    <3>2. QED
      BY <3>1
  <2> HIDE DEF z
  <2>3. n - 0 = n
    BY <1>2
  <2>4. Is(z, 0)
    BY <2>2, <2>3
  <2> HIDE DEF Is
  <2>5. QED
    BY <1>2, <2>4
<1>5. ASSUME NEW j \in 0 .. n - 1, j \in S PROVE j + 1 \in S
  <2> DEFINE m == n - (j + 1)
  <2>1. PICK z : Is(z, j)
    BY <1>5
  <2>2. m \in Nat /\ m # n /\ m + 1 = n - j /\ j + 1 \in 0 .. n
        /\ \A i \in m .. n : i = m \/ (i \in m + 1 .. n /\ i # m /\ (i # n => i + 1 \in m + 1 .. n /\ i + 1 # m))
    BY <1>2
  <2>3. m + 1 \in m .. n /\ m + 1 # m /\ m \in m .. n
    BY <1>2
  <2> HIDE DEF m
  <2> DEFINE y == [i \in m .. n |-> IF i = m THEN Level(z, i) ELSE z[i]]
  <2>4. ASSUME NEW i \in m .. n PROVE y[i] = Level(y, i)
    <3>1. CASE i = m
      <4>1. y[i] = Level(z, i) /\ y[i + 1] = z[i + 1]
        BY <2>3, <3>1
      <4> HIDE DEF y
      <4>2. Level(z, i) = Level(y, i)
        BY <1>1, <4>1
      <4>3. QED
        BY <4>1, <4>2
    <3>2. CASE i # m
      <4>1. i \in m + 1 .. n /\ (i # n => i + 1 \in m + 1 .. n /\ i + 1 # m)
        BY <2>2, <3>2
      <4>2. \A k \in m + 1 .. n : k \in m .. n
        BY <2>2
      <4>3. y[i] = z[i] /\ (i # n => y[i + 1] = z[i + 1])
        BY <3>2, <4>1, <4>2
      <4>4. z[i] = Level(z, i)
        BY <2>1, <2>2, <4>1
      <4> HIDE DEF y
      <4>5. Level(z, i) = Level(y, i)
        BY <1>1, <4>3
      <4>6. QED
        BY <4>3, <4>4, <4>5
    <3>3. QED
      BY <3>1, <3>2
  <2>5. y = [i \in m .. n |-> Level(y, i)]
    <3>1. y = [i \in m .. n |-> y[i]]
      OBVIOUS
    <3> HIDE DEF y
    <3>2. QED
      BY <2>4, <3>1
  <2> HIDE DEF y
  <2>6. Is(y, j + 1)
    BY <2>5 DEF m
  <2> HIDE DEF Is
  <2>7. QED
    BY <2>2, <2>6
<1> HIDE DEF S
<1>6. n \in S
  <2>1. \A j \in 0 .. n : j \in S
    BY <1>2, <1>4, <1>5, Climb
  <2>2. QED
    BY <1>2, <2>1
<1>7. PICK z : Is(z, n)
  BY <1>6 DEF S
<1>8. n - n = 0
  BY <1>2
<1> DEFINE f == CHOOSE y : y = [i \in 0 .. n |-> Level(y, i)]
<1>9. f = [i \in 0 .. n |-> Level(f, i)]
  <2>1. z = [i \in 0 .. n |-> Level(z, i)]
    BY <1>7, <1>8
  <2>2. QED
    BY <2>1
<1>10. UpdateClimb(key, value) = f[0]
  BY <1>3
<1> HIDE DEF f
<1>11. \A i \in 0 .. n : f[i] = Level(f, i)
  BY <1>9
<1>12. n \in 0 .. n /\ ~(n < n) /\ \A i \in 0 .. n - 1 : i \in 0 .. n /\ i < n /\ i # n
  BY <1>2
<1>13. f[n] = [rt |-> Leaf(key, value), rtOld |-> EndOf(key),
               nodes |-> (nodes \cup {Leaf(key, value)}) \ {EndOf(key)}]
  <2>1. f[n] = Level(f, n)
    BY <1>11, <1>12
  <2>2. QED
    BY <1>12, <2>1 DEF Level
<1>14. ASSUME NEW i \in 0 .. n - 1
       PROVE  LET s == Siblings(key)[i + 1]
                  x == Join(key, i, s, f[i + 1].rt)
                  y == Join(key, i, s, f[i + 1].rtOld)
              IN  f[i] = [rt |-> x, rtOld |-> y, nodes |-> (f[i + 1].nodes \cup {x}) \ {y}]
  <2>1. f[i] = Level(f, i)
    BY <1>11, <1>12
  <2>2. QED
    BY <1>12, <2>1 DEF Level
<1>15. \A i \in 0 .. n - 1 :
         /\ f[i].rt = Join(key, i, Siblings(key)[i + 1], f[i + 1].rt)
         /\ f[i].rtOld = Join(key, i, Siblings(key)[i + 1], f[i + 1].rtOld)
         /\ f[i].nodes = (f[i + 1].nodes \cup {f[i].rt}) \ {f[i].rtOld}
  <2>1. ASSUME NEW i \in 0 .. n - 1
        PROVE  /\ f[i].rt = Join(key, i, Siblings(key)[i + 1], f[i + 1].rt)
               /\ f[i].rtOld = Join(key, i, Siblings(key)[i + 1], f[i + 1].rtOld)
               /\ f[i].nodes = (f[i + 1].nodes \cup {f[i].rt}) \ {f[i].rtOld}
    <3> DEFINE x == Join(key, i, Siblings(key)[i + 1], f[i + 1].rt)
               y == Join(key, i, Siblings(key)[i + 1], f[i + 1].rtOld)
               w == (f[i + 1].nodes \cup {x}) \ {y}
    <3>1. f[i] = [rt |-> x, rtOld |-> y, nodes |-> w]
      BY <1>14
    <3> HIDE DEF w
    <3>2. f[i].nodes = w
      BY <3>1
    <3> HIDE DEF x, y
    <3>3. f[i].rt = x /\ f[i].rtOld = y
      BY <3>1
    <3>4. QED
      BY <3>2, <3>3 DEF x, y, w
  <2>2. QED
    BY <2>1
<1>16. f[n].rt = Leaf(key, value) /\ f[n].rtOld = EndOf(key)
       /\ f[n].nodes = (nodes \cup {f[n].rt}) \ {f[n].rtOld}
  BY <1>13
<1>17. QED
  BY <1>10, <1>15, <1>16 DEF n, Updates

LEMMA UpdateIs ==
  ASSUME contents \in Maps, root = Sub(contents, 0, 0), Complete(contents, nodes),
         NEW key \in DOMAIN contents, NEW value \in Values, contents[key] # value
  PROVE  LET e == [contents EXCEPT ![key] = value]
             done == UpdateClimb(key, value)
         IN  e \in Maps /\ done.rt = Way(e, key, 0) /\ Complete(e, done.nodes)
<1> DEFINE c == contents
           e == [contents EXCEPT ![key] = value]
           n == Turn(contents, key)
           s == Siblings(key)
<1>1. key \in Keys /\ KeyBits \in Nat
  BY KeysAre, MapsAre
<1>2. DOMAIN e = DOMAIN c /\ e[key] = value /\ \A k \in DOMAIN c \ {key} : e[k] = c[k]
  OBVIOUS
<1>3. e \in Maps
  <2>1. e \in [DOMAIN c -> Values] /\ DOMAIN c \in SUBSET Keys
    BY <1>2, MapsAre
  <2> HIDE DEF e
  <2>2. QED
    BY <2>1 DEF Maps
<1> HIDE DEF e
<1>4. Apart(c, e, key)
  BY <1>2 DEF Apart
<1>5. \A l : OnWay(e, key, l) = OnWay(c, key, l)
  BY <1>2 DEF OnWay, Under
<1>6. n \in 0 .. KeyBits /\ n \in Nat
      /\ \A l \in 0 .. KeyBits : Many(OnWay(c, key, l)) <=> l < n
  BY <1>1, TurnIs
<1>7. Turn(e, key) = n
  <2>1. Ends(c, key, n) => Ends(e, key, n)
    BY <1>5 DEF Ends
  <2>2. Ends(c, key, n)
    <3>1. \A l \in 0 .. n - 1 : l \in 0 .. KeyBits /\ l < n
      BY <1>1, <1>6
    <3>2. ~Many(OnWay(c, key, n))
      BY <1>6
    <3>3. QED
      BY <1>6, <3>1, <3>2 DEF Ends
  <2>3. QED
    BY <1>1, <1>3, <1>6, <2>1, <2>2, TurnIs
<1>8. s = Asides(c, key) /\ EndOf(key) = Leaf(key, c[key])
  BY <1>1, LookupIs, EndIs
<1>9. Len(s) = n /\ \A i \in 0 .. n - 1 : s[i + 1] = Aside(c, key, i)
  BY <1>1, <1>8, AsidesAre
<1> HIDE DEF n
<1>18. \E f : Updates(key, value, n, f)
  BY <1>6, <1>9, UpdateClimbIs
<1>19. PICK f : Updates(key, value, n, f)
  BY <1>18
<1>10. /\ UpdateClimb(key, value) = f[0]
       /\ f[n].rt = Leaf(key, value) /\ f[n].rtOld = EndOf(key)
       /\ f[n].nodes = (nodes \cup {f[n].rt}) \ {f[n].rtOld}
       /\ \A i \in 0 .. n - 1 :
            /\ f[i].rt = Join(key, i, s[i + 1], f[i + 1].rt)
            /\ f[i].rtOld = Join(key, i, s[i + 1], f[i + 1].rtOld)
            /\ f[i].nodes = (f[i + 1].nodes \cup {f[i].rt}) \ {f[i].rtOld}
  BY <1>19 DEF Updates
<1> HIDE DEF s
<1> DEFINE r == [i \in 0 .. n |-> f[i].rt]
           o == [i \in 0 .. n |-> f[i].rtOld]
           N == [i \in 0 .. n |-> f[i].nodes]
<1>11. n \in 0 .. n /\ 0 \in 0 .. n
       /\ \A i \in 0 .. n - 1 : i \in 0 .. n /\ i + 1 \in 0 .. n /\ i \in 0 .. KeyBits - 1
                               /\ i \in 0 .. KeyBits /\ i < n
  BY <1>1, <1>6
<1>12. /\ r[n] = Leaf(key, value) /\ o[n] = Leaf(key, c[key]) /\ N[n] = (nodes \cup {r[n]}) \ {o[n]}
       /\ \A i \in 0 .. n - 1 : /\ r[i] = Join(key, i, s[i + 1], r[i + 1])
                                /\ o[i] = Join(key, i, s[i + 1], o[i + 1])
                                /\ N[i] = (N[i + 1] \cup {r[i]}) \ {o[i]}
       /\ r[0] = f[0].rt /\ N[0] = f[0].nodes
  BY <1>8, <1>10, <1>11
<1> HIDE DEF r, o, N
<1>13. \A i \in 0 .. n : r[i] = Way(e, key, i)
  <2>1. r[n] = Way(e, key, n)
    BY <1>1, <1>2, <1>3, <1>7, <1>12, EndIs
  <2>2. ASSUME NEW i \in 0 .. n - 1
        PROVE  /\ Many(OnWay(e, key, i))
               /\ r[i] = Join(key, i, Aside(e, key, i), r[i + 1])
    <3>1. Aside(c, key, i) = Aside(e, key, i)
      BY <1>1, <1>3, <1>4, <1>11, AsideKept
    <3>2. QED
      BY <1>5, <1>6, <1>9, <1>11, <1>12, <3>1
  <2>3. QED
    BY <1>1, <1>3, <1>6, <2>1, <2>2, ClimbsWay
<1>14. \A i \in 0 .. n : ~InTree(e, o[i])
  <2>1. ~InTree(e, o[n])
    BY <1>2, <1>3, <1>12, LeafIn
  <2>2. \A i \in 0 .. n - 1 : o[i] = Join(key, i, s[i + 1], o[i + 1])
    BY <1>12
  <2>3. QED
    BY <1>3, <1>6, <2>1, <2>2, OldIsFresh
<1>15. Complete(e, N[0])
  <2>1. \A x \in nodes : InTree(e, x) => x \in N[n]
    BY <1>11, <1>12, <1>14
  <2>2. \A i \in 0 .. n - 1 : \A x \in N[i + 1] : InTree(e, x) => x \in N[i]
    BY <1>11, <1>12, <1>14
  <2>3. ASSUME NEW i \in 0 .. n PROVE Way(e, key, i) \in N[i]
    <3>1. i \in 0 .. KeyBits /\ (i = n \/ i \in 0 .. n - 1)
      BY <1>1, <1>6
    <3>2. InTree(e, r[i])
      BY <1>1, <1>3, <1>13, <3>1, WayIn
    <3>3. r[i] \in N[i]
      BY <1>12, <1>14, <3>1, <3>2
    <3>4. QED
      BY <1>13, <3>3
  <2>4. n <= n
    BY <1>6
  <2>5. QED
    BY <1>1, <1>3, <1>4, <1>6, <1>7, <2>1, <2>2, <2>3, <2>4, StoreClimbs
<1>16. QED
  BY <1>3, <1>10, <1>11, <1>12, <1>13, <1>15 DEF e

-----------------------------------------------------------------------------
(* delete_leaf.                                                            *)

Kept(key) == IF Promoted(key) THEN Front(Siblings(key)) ELSE Siblings(key)

Deletes(key, n, f) ==
  /\ DeleteClimb(key) = f[0]
  /\ f[n].rt = IF Promoted(key) THEN Last(Siblings(key)) ELSE Zero
  /\ f[n].rtOld = EndOf(key) /\ ~f[n].mixed /\ f[n].nodes = nodes \ {EndOf(key)}
  /\ \A i \in 0 .. n - 1 :
       /\ f[i].rtOld = Join(key, i, Kept(key)[i + 1], f[i + 1].rtOld)
       /\ f[i].mixed <=> f[i + 1].mixed \/ Kept(key)[i + 1] # Zero
       /\ f[i].mixed => /\ f[i].rt = Join(key, i, Kept(key)[i + 1], f[i + 1].rt)
                        /\ f[i].nodes = (f[i + 1].nodes \ {f[i].rtOld}) \cup {f[i].rt}
       /\ ~f[i].mixed => /\ f[i].rt = f[i + 1].rt
                         /\ f[i].nodes = f[i + 1].nodes \ {f[i].rtOld}

LEMMA DeleteClimbIs ==
  ASSUME NEW key, Len(Kept(key)) \in Nat
  PROVE  \E f : Deletes(key, Len(Kept(key)), f)
<1> DEFINE sibs == Kept(key)
           n == Len(sibs)
           Level(z, i) ==
             IF i = n
             THEN [rt |-> IF Promoted(key) THEN Last(Siblings(key)) ELSE Zero,
                   rtOld |-> EndOf(key), mixed |-> FALSE, nodes |-> nodes \ {EndOf(key)}]
             ELSE LET below == z[i + 1]
                      rtOld == Join(key, i, sibs[i + 1], below.rtOld)
                      mixed == below.mixed \/ sibs[i + 1] # Zero
                      rt == IF mixed THEN Join(key, i, sibs[i + 1], below.rt) ELSE below.rt
                  IN  [rt |-> rt, rtOld |-> rtOld, mixed |-> mixed,
                       nodes |-> (below.nodes \ {rtOld}) \cup (IF mixed THEN {rt} ELSE {})]
<1> DEFINE Is(z, j) == z = [i \in n - j .. n |-> Level(z, i)]
           S == {j \in 0 .. n : \E z : Is(z, j)}
<1>1. ASSUME NEW z, NEW y, NEW i, i # n => z[i + 1] = y[i + 1]
      PROVE  Level(z, i) = Level(y, i)
  BY <1>1
<1>2. n \in Nat
  OBVIOUS
<1>3. DeleteClimb(key) = (CHOOSE z : z = [i \in 0 .. n |-> Level(z, i)])[0]
  BY DEF DeleteClimb, Kept
<1> HIDE DEF n, Level
<1>4. 0 \in S
  <2> DEFINE z == [i \in n .. n |-> Level(0, i)]
  <2>1. \A i \in n .. n : i = n
    BY <1>2
  <2>2. z = [i \in n .. n |-> Level(z, i)]
    <3>1. ASSUME NEW i \in n .. n PROVE Level(0, i) = Level(z, i)
      <4> HIDE DEF z
      <4>1. QED
        BY <1>1, <2>1
    <3>2. QED
      BY <3>1
  <2> HIDE DEF z
  <2>3. n - 0 = n
    BY <1>2
  <2>4. Is(z, 0)
    BY <2>2, <2>3
  <2> HIDE DEF Is
  <2>5. QED
    BY <1>2, <2>4
<1>5. ASSUME NEW j \in 0 .. n - 1, j \in S PROVE j + 1 \in S
  <2> DEFINE m == n - (j + 1)
  <2>1. PICK z : Is(z, j)
    BY <1>5
  <2>2. m \in Nat /\ m # n /\ m + 1 = n - j /\ j + 1 \in 0 .. n
        /\ \A i \in m .. n : i = m \/ (i \in m + 1 .. n /\ i # m /\ (i # n => i + 1 \in m + 1 .. n /\ i + 1 # m))
    BY <1>2
  <2>3. m + 1 \in m .. n /\ m + 1 # m /\ m \in m .. n
    BY <1>2
  <2> HIDE DEF m
  <2> DEFINE y == [i \in m .. n |-> IF i = m THEN Level(z, i) ELSE z[i]]
  <2>4. ASSUME NEW i \in m .. n PROVE y[i] = Level(y, i)
    <3>1. CASE i = m
      <4>1. y[i] = Level(z, i) /\ y[i + 1] = z[i + 1]
        BY <2>3, <3>1
      <4> HIDE DEF y
      <4>2. Level(z, i) = Level(y, i)
        BY <1>1, <4>1
      <4>3. QED
        BY <4>1, <4>2
    <3>2. CASE i # m
      <4>1. i \in m + 1 .. n /\ (i # n => i + 1 \in m + 1 .. n /\ i + 1 # m)
        BY <2>2, <3>2
      <4>2. \A k \in m + 1 .. n : k \in m .. n
        BY <2>2
      <4>3. y[i] = z[i] /\ (i # n => y[i + 1] = z[i + 1])
        BY <3>2, <4>1, <4>2
      <4>4. z[i] = Level(z, i)
        BY <2>1, <2>2, <4>1
      <4> HIDE DEF y
      <4>5. Level(z, i) = Level(y, i)
        BY <1>1, <4>3
      <4>6. QED
        BY <4>3, <4>4, <4>5
    <3>3. QED
      BY <3>1, <3>2
  <2>5. y = [i \in m .. n |-> Level(y, i)]
    <3>1. y = [i \in m .. n |-> y[i]]
      OBVIOUS
    <3> HIDE DEF y
    <3>2. QED
      BY <2>4, <3>1
  <2> HIDE DEF y
  <2>6. Is(y, j + 1)
    BY <2>5 DEF m
  <2> HIDE DEF Is
  <2>7. QED
    BY <2>2, <2>6
<1> HIDE DEF S
<1>6. n \in S
  <2>1. \A j \in 0 .. n : j \in S
    BY <1>2, <1>4, <1>5, Climb
  <2>2. QED
    BY <1>2, <2>1
<1>7. PICK z : Is(z, n)
  BY <1>6 DEF S
<1>8. n - n = 0
  BY <1>2
<1> DEFINE f == CHOOSE y : y = [i \in 0 .. n |-> Level(y, i)]
<1>9. f = [i \in 0 .. n |-> Level(f, i)]
  <2>1. z = [i \in 0 .. n |-> Level(z, i)]
    BY <1>7, <1>8
  <2>2. QED
    BY <2>1
<1>10. DeleteClimb(key) = f[0]
  BY <1>3
<1> HIDE DEF f
<1>11. \A i \in 0 .. n : f[i] = Level(f, i)
  BY <1>9
<1>12. n \in 0 .. n /\ \A i \in 0 .. n - 1 : i \in 0 .. n /\ i # n
  BY <1>2
<1>13. f[n] = [rt |-> IF Promoted(key) THEN Last(Siblings(key)) ELSE Zero,
               rtOld |-> EndOf(key), mixed |-> FALSE, nodes |-> nodes \ {EndOf(key)}]
  <2>1. f[n] = Level(f, n)
    BY <1>11, <1>12
  <2>2. QED
    BY <2>1 DEF Level
<1>14. ASSUME NEW i \in 0 .. n - 1
       PROVE  /\ f[i].rtOld = Join(key, i, sibs[i + 1], f[i + 1].rtOld)
              /\ f[i].mixed <=> f[i + 1].mixed \/ sibs[i + 1] # Zero
              /\ f[i].mixed => /\ f[i].rt = Join(key, i, sibs[i + 1], f[i + 1].rt)
                               /\ f[i].nodes = (f[i + 1].nodes \ {f[i].rtOld}) \cup {f[i].rt}
              /\ ~f[i].mixed => /\ f[i].rt = f[i + 1].rt
                                /\ f[i].nodes = f[i + 1].nodes \ {f[i].rtOld}
  <2> DEFINE old == Join(key, i, sibs[i + 1], f[i + 1].rtOld)
             new == Join(key, i, sibs[i + 1], f[i + 1].rt)
             mixed == f[i + 1].mixed \/ sibs[i + 1] # Zero
             rt == IF mixed THEN new ELSE f[i + 1].rt
             store == (f[i + 1].nodes \ {old}) \cup (IF mixed THEN {rt} ELSE {})
  <2>1. f[i] = Level(f, i)
    BY <1>11, <1>12
  <2>2. f[i] = [rt |-> rt, rtOld |-> old, mixed |-> mixed, nodes |-> store]
    BY <1>12, <2>1 DEF Level
  <2>3. mixed => rt = new /\ store = (f[i + 1].nodes \ {old}) \cup {rt}
    OBVIOUS
  <2>4. ~mixed => rt = f[i + 1].rt /\ store = f[i + 1].nodes \ {old}
    OBVIOUS
  <2>5. mixed <=> f[i + 1].mixed \/ sibs[i + 1] # Zero
    OBVIOUS
  <2> HIDE DEF store
  <2>6. f[i].nodes = store
    BY <2>2
  <2> HIDE DEF rt
  <2>7. f[i].rt = rt
    BY <2>2
  <2> HIDE DEF mixed
  <2>8. f[i].mixed = mixed
    BY <2>2
  <2>9. f[i].rtOld = old
    BY <2>2
  <2>10. f[i].mixed <=> mixed
    BY <2>8
  <2> HIDE DEF old, new
  <2>11. f[i].mixed => f[i].rt = new /\ f[i].nodes = (f[i + 1].nodes \ {f[i].rtOld}) \cup {f[i].rt}
    BY <2>3, <2>6, <2>7, <2>9, <2>10
  <2>12. ~f[i].mixed => f[i].rt = f[i + 1].rt /\ f[i].nodes = f[i + 1].nodes \ {f[i].rtOld}
    BY <2>4, <2>6, <2>7, <2>9, <2>10
  <2>13. QED
    BY <2>5, <2>9, <2>10, <2>11, <2>12 DEF old, new
<1>15. /\ f[n].rt = IF Promoted(key) THEN Last(Siblings(key)) ELSE Zero
       /\ f[n].rtOld = EndOf(key) /\ ~f[n].mixed /\ f[n].nodes = nodes \ {EndOf(key)}
  BY <1>13
<1> HIDE DEF sibs
<1>16. \A i \in 0 .. n - 1 :
         /\ f[i].rtOld = Join(key, i, sibs[i + 1], f[i + 1].rtOld)
         /\ f[i].mixed <=> f[i + 1].mixed \/ sibs[i + 1] # Zero
         /\ f[i].mixed => /\ f[i].rt = Join(key, i, sibs[i + 1], f[i + 1].rt)
                          /\ f[i].nodes = (f[i + 1].nodes \ {f[i].rtOld}) \cup {f[i].rt}
         /\ ~f[i].mixed => /\ f[i].rt = f[i + 1].rt
                           /\ f[i].nodes = f[i + 1].nodes \ {f[i].rtOld}
  BY <1>14
<1>17. Deletes(key, n, f)
  BY <1>10, <1>15, <1>16 DEF Deletes, sibs
<1>18. QED
  BY <1>17 DEF n, sibs

Without(c, key) == [k \in DOMAIN c \ {key} |-> c[k]]

LEMMA WithoutIs ==
  ASSUME NEW c \in Maps, NEW key \in Keys
  PROVE  /\ Without(c, key) \in Maps /\ key \notin DOMAIN Without(c, key)
         /\ Apart(c, Without(c, key), key)
         /\ \A l, p : Under(Without(c, key), l, p) = Under(c, l, p) \ {key}
<1> DEFINE e == Without(c, key)
           D == DOMAIN c \ {key}
<1>1. DOMAIN e = D /\ \A k \in D : e[k] = c[k]
  BY DEF Without
<1>2. D \in SUBSET Keys /\ e \in [D -> Values]
  BY MapsAre DEF Without
<1> HIDE DEF e
<1>3. e \in Maps
  <2> HIDE DEF D
  <2>1. QED
    BY <1>2 DEF Maps
<1>4. Apart(c, e, key)
  BY <1>1 DEF Apart
<1>5. \A l, p : Under(e, l, p) = Under(c, l, p) \ {key}
  BY <1>1 DEF Under
<1>6. QED
  BY <1>1, <1>3, <1>4, <1>5 DEF e

\* Where the climb of a delete starts: at the leaf that takes the parent's
\* place, or at the empty place of the deleted one.
LEMMA DeleteStart ==
  ASSUME contents \in Maps, root = Sub(contents, 0, 0), Complete(contents, nodes),
         NEW key \in DOMAIN contents
  PROVE  LET e == Without(contents, key)
             n == Len(Kept(key))
             base == IF Promoted(key) THEN Last(Siblings(key)) ELSE Zero
         IN  /\ n \in 0 .. KeyBits
             /\ base = Way(e, key, n) /\ (base = Zero \/ base \in nodes)
             /\ ~Many(OnWay(e, key, n))
             /\ OnWay(e, key, n) = {} /\ n > 0 => Many(Under(e, n, Beside(key, n - 1)))
             /\ \A i \in 0 .. n - 1 : Kept(key)[i + 1] = Aside(e, key, i)
<1> DEFINE c == contents
           e == Without(contents, key)
           t == Turn(contents, key)
           s == Siblings(key)
<1>1. key \in Keys /\ KeyBits \in Nat
  BY KeysAre, MapsAre
<1>2. /\ e \in Maps /\ key \notin DOMAIN e /\ Apart(c, e, key)
      /\ \A l, p : Under(e, l, p) = Under(c, l, p) \ {key}
  BY <1>1, WithoutIs
<1>3. t \in 0 .. KeyBits /\ t \in Nat
  BY <1>1, TurnIs
<1>4. OnWay(c, key, t) = {key}
  <2>1. PICK a \in DOMAIN c : Way(c, key, t) = Leaf(a, c[a]) /\ OnWay(c, key, t) = {a}
    <3>1. Way(c, key, t) # Zero
      BY <1>1, EndIs
    <3>2. QED
      BY <1>1, <3>1, EndIs
  <2>2. key \in OnWay(c, key, t)
    BY <1>1, <1>3, WayUnder
  <2>3. QED
    BY <2>1, <2>2
<1>5. s = Asides(c, key)
  BY <1>1, LookupIs
<1>6. Len(s) = t /\ (s = <<>> <=> t = 0) /\ \A i \in 0 .. t - 1 : s[i + 1] = Aside(c, key, i)
  BY <1>1, <1>5, AsidesAre
<1>7. \A l : OnWay(e, key, l) = OnWay(c, key, l) \ {key}
  BY <1>2 DEF OnWay
<1>8. \A i \in 0 .. t - 1 : s[i + 1] = Aside(e, key, i)
  <2>1. ASSUME NEW i \in 0 .. t - 1 PROVE s[i + 1] = Aside(e, key, i)
    <3>1. i \in 0 .. KeyBits - 1
      BY <1>1, <1>3
    <3>2. Aside(c, key, i) = Aside(e, key, i)
      BY <1>1, <1>2, <3>1, AsideKept
    <3>3. QED
      BY <1>6, <3>2
  <2>2. QED
    BY <2>1
<1> HIDE DEF t, e
<1>9. CASE ~Promoted(key)
  <2> DEFINE u == t - 1
             A == Under(c, t, Beside(key, u))
  <2>1. Kept(key) = s
    BY <1>9 DEF Kept
  <2>2. OnWay(e, key, t) = {}
    BY <1>4, <1>7
  <2>3. Way(e, key, t) = Zero
    BY <1>1, <1>2, <1>3, <2>2, WayKinds
  <2>4. ~Many({})
    BY DEF Many
  <2>5. ASSUME t > 0 PROVE Many(Under(e, t, Beside(key, u)))
    <3>1. u \in 0 .. KeyBits - 1 /\ u \in Nat /\ u + 1 = t /\ u \in 0 .. t - 1
      BY <1>1, <1>3, <2>5
    <3>2. Aside(c, key, u) # Zero
      BY <1>1, <2>5, LastAside DEF t
    <3>3. s[t] = Aside(c, key, u) /\ s # <<>>
      BY <1>6, <2>5, <3>1
    <3>4. ~IsLeaf(Aside(c, key, u))
      BY <1>6, <1>9, <3>3 DEF Promoted, Last
    <3>5. Beside(key, u) \in Places(t)
      BY <1>1, <3>1, WayDown
    <3> HIDE DEF u
    <3>6. Many(A)
      <4>1. Aside(c, key, u) = Sub(c, t, Beside(key, u))
        BY <3>1 DEF Aside
      <4>2. A # {} /\ ~Single(A)
        BY <1>3, <3>2, <3>4, <3>5, <4>1, SubKinds
      <4>3. QED
        BY <4>2, UnderCounts
    <3>7. key \notin A
      <4>1. key \in A <=> key \in OnWay(c, key, u) /\ Bit(key, u) # Bit(key, u)
        BY <1>1, <3>1, WayUnder
      <4>2. QED
        BY <4>1
    <3>8. Under(e, t, Beside(key, u)) = A
      <4>1. Under(e, t, Beside(key, u)) = A \ {key}
        BY <1>2
      <4> HIDE DEF A
      <4>2. QED
        BY <3>7, <4>1
    <3>9. QED
      BY <3>6, <3>8
  <2> HIDE DEF u, A
  <2>6. t > 0 => Many(Under(e, t, Beside(key, u)))
    BY <2>5
  <2> HIDE DEF s
  <2> DEFINE base == IF Promoted(key) THEN Last(Siblings(key)) ELSE Zero
  <2>7. base = Zero
    BY <1>9
  <2> HIDE DEF base
  <2>8. QED
    BY <1>3, <1>6, <1>8, <2>1, <2>2, <2>3, <2>4, <2>6, <2>7 DEF u, e, base
<1>10. CASE Promoted(key)
  <2> DEFINE u == t - 1
             A == Under(c, t, Beside(key, u))
  <2>1. s # <<>> /\ IsLeaf(Last(s)) /\ Kept(key) = Front(s)
    BY <1>10 DEF Promoted, Kept
  <2>2. t > 0 /\ u \in 0 .. KeyBits - 1 /\ u \in Nat /\ u + 1 = t /\ u \in 0 .. t - 1 /\ u \in 0 .. KeyBits
    BY <1>1, <1>3, <1>6, <2>1
  <2>3. Last(s) = Aside(c, key, u) /\ Last(s) = Aside(e, key, u)
    BY <1>6, <1>8, <2>2 DEF Last
  <2>4. Len(Front(s)) = u /\ \A i \in 0 .. u - 1 : Front(s)[i + 1] = s[i + 1]
    <3> DEFINE V == {Aside(c, key, i - 1) : i \in 1 .. t}
    <3>1. s = [i \in 1 .. t |-> Aside(c, key, i - 1)]
      BY <1>5 DEF Asides, t
    <3>2. s \in [1 .. t -> V]
      BY <3>1
    <3> HIDE DEF V, s
    <3>3. s \in Seq(V)
      BY <1>3, <3>2
    <3>4. Front(s) = SubSeq(s, 1, u)
      BY <1>6 DEF Front
    <3>5. \A i \in 0 .. u - 1 : i + 1 \in 1 .. u
      BY <2>2
    <3> HIDE DEF u
    <3>6. Len(SubSeq(s, 1, u)) = u /\ \A j \in 1 .. u : SubSeq(s, 1, u)[j] = s[j]
      BY <1>3, <1>6, <2>2, <3>3
    <3>7. QED
      BY <3>4, <3>5, <3>6
  <2>5. Beside(key, u) \in Places(t)
    BY <1>1, <2>2, WayDown
  <2>6. Aside(c, key, u) = Sub(c, t, Beside(key, u))
    BY <2>2 DEF Aside
  <2>7. PICK b : A = {b}
    <3>1. IsLeaf(Sub(c, t, Beside(key, u)))
      BY <2>1, <2>3, <2>6
    <3>2. Single(A)
      BY <1>3, <2>5, <3>1, SubKinds
    <3> HIDE DEF A
    <3>3. QED
      BY <3>2 DEF Single
  <2>8. Last(s) = Leaf(b, c[b])
    BY <1>3, <2>3, <2>5, <2>6, <2>7, SubIs
  <2>9. OnWay(c, key, u) = OnWay(c, key, u + 1) \cup Under(c, u + 1, Beside(key, u))
    BY <1>1, <2>2, WayUnder
  <2>10. b # key /\ b \in DOMAIN c
    <3>1. b \in DOMAIN c
      BY <2>7 DEF Under
    <3>2. b \in Under(c, u + 1, Beside(key, u)) <=> b \in OnWay(c, key, u) /\ Bit(b, u) # Bit(key, u)
      BY <1>1, <2>2, <3>1, WayUnder
    <3>3. b \in Under(c, u + 1, Beside(key, u))
      BY <2>2, <2>7
    <3>4. QED
      BY <3>1, <3>2, <3>3
  <2>11. OnWay(e, key, u) = {b}
    <3>1. OnWay(c, key, u) = {key} \cup {b}
      BY <1>4, <2>2, <2>7, <2>9
    <3>2. QED
      BY <1>7, <2>10, <3>1
  <2>12. e[b] = c[b]
    BY <1>1, <1>2, <2>10, MapsAre DEF Apart
  <2>13. Way(e, key, u) = Last(s)
    <3>1. Way(e, key, u) = Leaf(b, e[b])
      BY <1>1, <1>2, <2>2, <2>11, WayLeaf
    <3>2. QED
      BY <2>8, <2>12, <3>1
  <2>14. Last(s) \in nodes \/ Last(s) = Zero
    BY <1>3, <2>3, <2>5, <2>6 DEF Complete
  <2>15. ~Many({b}) /\ {b} # {}
    BY DEF Many
  <2> HIDE DEF u, A
  <2>16. \A i \in 0 .. u - 1 : Front(s)[i + 1] = Aside(e, key, i)
    <3>1. \A i \in 0 .. u - 1 : i \in 0 .. t - 1
      BY <1>3, <2>2
    <3>2. QED
      BY <1>8, <2>4, <3>1
  <2> DEFINE base == IF Promoted(key) THEN Last(s) ELSE Zero
  <2>17. base = Last(s)
    BY <1>10
  <2> HIDE DEF base, s
  <2>18. QED
    BY <2>1, <2>2, <2>4, <2>11, <2>13, <2>14, <2>15, <2>16, <2>17 DEF e, base, s
<1>11. QED
  BY <1>9, <1>10

LEMMA DeleteIs ==
  ASSUME contents \in Maps, root = Sub(contents, 0, 0), Complete(contents, nodes),
         NEW key \in DOMAIN contents
  PROVE  LET e == Without(contents, key)
             done == DeleteClimb(key)
         IN  done.rt = Way(e, key, 0) /\ Complete(e, done.nodes)
<1> DEFINE c == contents
           e == Without(contents, key)
           n == Len(Kept(key))
           s == Kept(key)
           base == IF Promoted(key) THEN Last(Siblings(key)) ELSE Zero
           A(i) == Under(e, i + 1, Beside(key, i))
<1>1. key \in Keys /\ KeyBits \in Nat
  BY KeysAre, MapsAre
<1>2. e \in Maps /\ key \notin DOMAIN e /\ Apart(c, e, key)
  BY <1>1, WithoutIs
<1>3. /\ n \in 0 .. KeyBits
      /\ base = Way(e, key, n) /\ (base = Zero \/ base \in nodes)
      /\ ~Many(OnWay(e, key, n))
      /\ OnWay(e, key, n) = {} /\ n > 0 => Many(Under(e, n, Beside(key, n - 1)))
      /\ \A i \in 0 .. n - 1 : s[i + 1] = Aside(e, key, i)
  BY DeleteStart
<1>4. n \in Nat /\ n \in 0 .. n /\ 0 \in 0 .. n
      /\ \A i \in 0 .. n - 1 : i \in Nat /\ i \in 0 .. KeyBits /\ i + 1 \in 0 .. KeyBits
                               /\ i \in 0 .. n /\ i + 1 \in 0 .. n
  BY <1>1, <1>3
<1>5. \E f : Deletes(key, n, f)
  BY <1>4, DeleteClimbIs
<1>6. EndOf(key) = Leaf(key, c[key])
  BY <1>1, LookupIs, EndIs
<1>7. ~InTree(e, EndOf(key))
  BY <1>2, <1>6, LeafIn
<1> HIDE DEF e, n
<1>8. PICK f : Deletes(key, n, f)
  BY <1>5
<1>9. /\ DeleteClimb(key) = f[0] /\ f[n].rt = base
      /\ f[n].rtOld = EndOf(key) /\ ~f[n].mixed /\ f[n].nodes = nodes \ {EndOf(key)}
      /\ \A i \in 0 .. n - 1 : f[i].rtOld = Join(key, i, s[i + 1], f[i + 1].rtOld)
  BY <1>8 DEF Deletes
<1>10. \A i \in 0 .. n - 1 :
         /\ f[i].mixed <=> f[i + 1].mixed \/ s[i + 1] # Zero
         /\ f[i].mixed => /\ f[i].rt = Join(key, i, s[i + 1], f[i + 1].rt)
                          /\ f[i].nodes = (f[i + 1].nodes \ {f[i].rtOld}) \cup {f[i].rt}
         /\ ~f[i].mixed => /\ f[i].rt = f[i + 1].rt
                           /\ f[i].nodes = f[i + 1].nodes \ {f[i].rtOld}
  BY <1>8 DEF Deletes
<1> HIDE DEF base, s
<1>11. \A i \in 0 .. n : ~InTree(e, f[i].rtOld)
  <2> DEFINE o == [i \in 0 .. n |-> f[i].rtOld]
  <2>1. o[n] = EndOf(key) /\ \A i \in 0 .. n : o[i] = f[i].rtOld
    BY <1>4, <1>9
  <2> HIDE DEF o
  <2>2. \A i \in 0 .. n - 1 : o[i] = Join(key, i, s[i + 1], o[i + 1])
    BY <1>4, <1>9, <2>1
  <2>3. ~InTree(e, o[n])
    BY <1>7, <2>1
  <2>4. \A i \in 0 .. n : ~InTree(e, o[i])
    BY <1>2, <1>4, <2>2, <2>3, OldIsFresh
  <2>5. QED
    BY <2>1, <2>4
<1> DEFINE Mixes(i) == f[i].mixed
           Good(i) == /\ f[i].rt = Way(e, key, i)
                      /\ Mixes(i) => Many(OnWay(e, key, i))
                      /\ ~Mixes(i) => ~Many(OnWay(e, key, i))
                      /\ ~Mixes(i) /\ OnWay(e, key, i) = {} => i = n
                      /\ f[i].rt = Zero \/ f[i].rt \in f[i].nodes
           S == {j \in 0 .. n : Good(n - j)}
<1>12. Good(n)
  <2>1. f[n].rt = Way(e, key, n) /\ ~Mixes(n) /\ ~Many(OnWay(e, key, n))
    BY <1>3, <1>9
  <2>2. base = Zero \/ base \in f[n].nodes
    <3>1. InTree(e, base)
      BY <1>1, <1>2, <1>3, WayIn
    <3>2. QED
      BY <1>3, <1>7, <1>9, <3>1
  <2>3. QED
    BY <1>9, <2>1, <2>2
<1>13. ASSUME NEW i \in 0 .. n - 1, Good(i + 1) PROVE Good(i)
  <2>1. i \in Nat /\ i \in 0 .. KeyBits /\ i + 1 \in 0 .. KeyBits /\ i \in 0 .. n /\ i + 1 \in 0 .. n
    BY <1>4
  <2>2. OnWay(e, key, i) = OnWay(e, key, i + 1) \cup A(i)
    BY <1>1, <1>2, <2>1, WayUnder
  <2>3. OnWay(e, key, i + 1) \cap A(i) = {}
    <3>1. \A a \in DOMAIN e :
            /\ a \in OnWay(e, key, i + 1) <=> a \in OnWay(e, key, i) /\ Bit(a, i) = Bit(key, i)
            /\ a \in A(i) <=> a \in OnWay(e, key, i) /\ Bit(a, i) # Bit(key, i)
      BY <1>1, <1>2, <2>1, WayUnder
    <3>2. A(i) \subseteq DOMAIN e
      BY DEF Under
    <3> HIDE DEF A
    <3>3. QED
      BY <3>1, <3>2
  <2>4. s[i + 1] = Aside(e, key, i) /\ (Aside(e, key, i) = Zero <=> A(i) = {})
    <3>1. Beside(key, i) \in Places(i + 1)
      BY <1>1, <2>1, WayDown
    <3>2. QED
      BY <1>2, <1>3, <2>1, <3>1, SubKinds DEF Aside
  <2>5. i + 1 = n /\ OnWay(e, key, i + 1) = {} => Many(A(i))
    <3>1. i + 1 = n => n > 0 /\ n - 1 = i
      BY <1>4, <2>1
    <3>2. QED
      BY <1>3, <3>1
  <2>6. f[i].mixed <=> f[i + 1].mixed \/ A(i) # {}
    BY <1>10, <2>4
  <2> HIDE DEF A
  <2>7. f[i].mixed => Many(OnWay(e, key, i))
    <3>1. CASE f[i + 1].mixed
      BY <1>13, <2>2, <3>1 DEF Many
    <3>2. CASE ~f[i + 1].mixed /\ A(i) # {}
      <4>1. OnWay(e, key, i + 1) = {} => i + 1 = n
        BY <1>13, <3>2
      <4>2. QED
        BY <2>2, <2>3, <2>5, <3>2, <4>1 DEF Many
    <3>3. QED
      BY <2>6, <3>1, <3>2
  <2>8. ~f[i].mixed => /\ OnWay(e, key, i) = OnWay(e, key, i + 1)
                       /\ ~Many(OnWay(e, key, i + 1)) /\ OnWay(e, key, i + 1) # {}
    <3>1. ASSUME ~f[i].mixed
          PROVE  /\ OnWay(e, key, i) = OnWay(e, key, i + 1)
                 /\ ~Many(OnWay(e, key, i + 1)) /\ OnWay(e, key, i + 1) # {}
      <4>1. ~f[i + 1].mixed /\ A(i) = {}
        BY <2>6, <3>1
      <4>2. ~Many({})
        BY DEF Many
      <4>3. ~Many(OnWay(e, key, i + 1)) /\ (OnWay(e, key, i + 1) = {} => i + 1 = n)
        BY <1>13, <4>1
      <4>4. QED
        BY <2>2, <2>5, <4>1, <4>2, <4>3
    <3>2. QED
      BY <3>1
  <2>9. CASE f[i].mixed
    <3>1. f[i].rt = Join(key, i, Aside(e, key, i), Way(e, key, i + 1))
      BY <1>10, <1>13, <2>4, <2>9
    <3>2. f[i].rt = Way(e, key, i)
      BY <1>1, <1>2, <2>1, <2>7, <2>9, <3>1, WayJoin
    <3>3. f[i].rt \in f[i].nodes
      BY <1>10, <2>9
    <3>4. QED
      BY <2>7, <2>9, <3>2, <3>3
  <2>10. CASE ~f[i].mixed
    <3>1. PICK a : OnWay(e, key, i + 1) = {a}
      <4>1. Single(OnWay(e, key, i + 1))
        BY <1>2, <2>8, <2>10, UnderCounts DEF OnWay
      <4>2. QED
        BY <4>1 DEF Single
    <3>2. Way(e, key, i + 1) = Leaf(a, e[a]) /\ Way(e, key, i) = Leaf(a, e[a])
      BY <1>1, <1>2, <2>1, <2>8, <2>10, <3>1, WayLeaf
    <3>3. f[i].rt = Way(e, key, i)
      BY <1>10, <1>13, <2>10, <3>2
    <3>4. f[i].rt = Zero \/ f[i].rt \in f[i].nodes
      <4>1. InTree(e, f[i].rt)
        BY <1>1, <1>2, <2>1, <3>3, WayIn
      <4>2. f[i].rt = f[i + 1].rt /\ f[i].nodes = f[i + 1].nodes \ {f[i].rtOld}
        BY <1>10, <2>10
      <4>3. f[i].rt # f[i].rtOld
        BY <1>11, <2>1, <4>1
      <4>4. f[i + 1].rt = Zero \/ f[i + 1].rt \in f[i + 1].nodes
        BY <1>13
      <4>5. QED
        BY <4>2, <4>3, <4>4
    <3>5. QED
      BY <2>8, <2>10, <3>3, <3>4
  <2>11. QED
    BY <2>9, <2>10
<1> HIDE DEF Good
<1>14. \A i \in 0 .. n : Good(i)
  <2>1. 0 \in S
    <3>1. n - 0 = n
      BY <1>4
    <3>2. QED
      BY <1>4, <1>12, <3>1
  <2>2. ASSUME NEW j \in 0 .. n - 1, j \in S PROVE j + 1 \in S
    <3> DEFINE i == n - (j + 1)
    <3>1. i \in 0 .. n - 1 /\ i + 1 = n - j /\ j + 1 \in 0 .. n
      BY <1>4
    <3> HIDE DEF i
    <3>2. Good(i)
      BY <1>13, <2>2, <3>1
    <3>3. QED
      BY <3>1, <3>2 DEF i
  <2> HIDE DEF S
  <2>3. \A j \in 0 .. n : j \in S
    BY <1>4, <2>1, <2>2, Climb
  <2>4. ASSUME NEW i \in 0 .. n PROVE Good(i)
    <3>1. n - i \in 0 .. n /\ n - (n - i) = i
      BY <1>4
    <3>2. n - i \in S
      BY <2>3, <3>1
    <3>3. QED
      BY <3>1, <3>2 DEF S
  <2>5. QED
    BY <2>4
<1>15. f[0].rt = Way(e, key, 0)
  BY <1>4, <1>14 DEF Good
<1>16. Turn(e, key) \in 0 .. KeyBits /\ Turn(e, key) <= n
  <2>1. ~(n < Turn(e, key)) /\ Turn(e, key) \in 0 .. KeyBits
    BY <1>1, <1>2, <1>3, TurnIs
  <2>2. QED
    BY <1>1, <1>4, <2>1
<1> DEFINE N == [i \in 0 .. n |-> f[i].nodes]
<1>17. Complete(e, N[0])
  <2>1. \A i \in 0 .. n : N[i] = f[i].nodes
    OBVIOUS
  <2> HIDE DEF N
  <2>2. \A x \in nodes : InTree(e, x) => x \in N[n]
    BY <1>4, <1>7, <1>9, <2>1
  <2>3. \A i \in 0 .. n - 1 : \A x \in N[i + 1] : InTree(e, x) => x \in N[i]
    BY <1>4, <1>10, <1>11, <2>1
  <2>4. \A i \in 0 .. Turn(e, key) : Way(e, key, i) = Zero \/ Way(e, key, i) \in N[i]
    <3>1. \A i \in 0 .. Turn(e, key) : i \in 0 .. n
      BY <1>1, <1>4, <1>16
    <3>2. QED
      BY <1>14, <2>1, <3>1 DEF Good
  <2>5. QED
    BY <1>1, <1>2, <1>4, <1>16, <2>2, <2>3, <2>4, StoreClimbs
<1>18. N[0] = f[0].nodes
  BY <1>4
<1> HIDE DEF N
<1>19. QED
  BY <1>9, <1>15, <1>17, <1>18 DEF e

-----------------------------------------------------------------------------
(* insert_leaf.                                                            *)

\* The level where two keys part.
LEMMA CommonIs ==
  ASSUME NEW key \in Keys, NEW other \in Keys, key # other,
         NEW t \in 0 .. KeyBits, key % 2 ^ t = other % 2 ^ t
  PROVE  LET g == CommonPrefix(key, other, t)
         IN  /\ g \in Nat /\ t + g \in t .. KeyBits - 1
             /\ Bit(key, t + g) # Bit(other, t + g)
             /\ \A m \in t .. t + g : key % 2 ^ m = other % 2 ^ m
<1> DEFINE S == {l \in t .. KeyBits : key % 2 ^ l # other % 2 ^ l}
           Part(l) == /\ Bit(key, l) # Bit(other, l)
                      /\ \A m \in t .. l - 1 : Bit(key, m) = Bit(other, m)
           first == CHOOSE l \in t .. KeyBits - 1 : Part(l)
<1>1. KeyBits \in Nat /\ key \in Nat /\ other \in Nat /\ t \in Nat
  BY KeysAre
<1>2. ASSUME NEW m \in Nat
      PROVE  key % 2 ^ (m + 1) = other % 2 ^ (m + 1)
               <=> key % 2 ^ m = other % 2 ^ m /\ Bit(key, m) = Bit(other, m)
  <2> DEFINE d == 2 ^ m
             r == key % d
             s == other % d
             x == Bit(key, m)
             y == Bit(other, m)
  <2>1. d \in Nat \ {0} /\ x \in {0, 1} /\ y \in {0, 1} /\ r \in 0 .. d - 1 /\ s \in 0 .. d - 1
        /\ key % 2 ^ (m + 1) = r + x * d /\ other % 2 ^ (m + 1) = s + y * d
    BY <1>1, BitsAre
  <2> HIDE DEF d, r, s, x, y
  <2>2. r + x * d = s + y * d <=> r = s /\ x = y
    BY <2>1
  <2>3. QED
    BY <2>1, <2>2 DEF d, r, s, x, y
<1>3. S # {} /\ S \subseteq Nat
  <2>1. KeyBits \in S
    BY <1>1, AllBits
  <2>2. QED
    BY <1>1, <2>1
<1>4. PICK n \in S : \A m \in S : n <= m
  BY <1>3, HasLeast
<1>5. n \in t .. KeyBits /\ n # t /\ key % 2 ^ n # other % 2 ^ n
  BY <1>4
<1> DEFINE l == n - 1
<1>6. l \in t .. KeyBits - 1 /\ l \in t .. KeyBits /\ l \in Nat /\ l + 1 = n /\ ~(n <= l)
  BY <1>1, <1>5
<1>7. key % 2 ^ l = other % 2 ^ l
  BY <1>4, <1>6
<1> HIDE DEF l, S
<1>8. Bit(key, l) # Bit(other, l)
  BY <1>2, <1>5, <1>6, <1>7
<1>9. \A m \in 0 .. l - 1 : Bit(key, m) = Bit(other, m)
  BY <1>1, <1>6, <1>7, SameLowBits
<1>10. Part(l)
  <2>1. \A m \in t .. l - 1 : m \in 0 .. l - 1
    BY <1>1, <1>6
  <2>2. QED
    BY <1>8, <1>9, <2>1
<1>11. first \in t .. KeyBits - 1 /\ Part(first)
  <2> HIDE DEF Part
  <2>1. QED
    BY <1>6, <1>10
<1>12. CommonPrefix(key, other, t) = first - t
  BY DEF CommonPrefix
<1> HIDE DEF first
<1> DEFINE T == {m \in t .. first : key % 2 ^ m = other % 2 ^ m}
<1>13. first \in Nat /\ first - t \in Nat /\ t + (first - t) = first /\ t \in t .. first
  BY <1>1, <1>11
<1>14. ASSUME NEW m \in t .. first - 1, m \in T PROVE m + 1 \in T
  <2>1. m \in Nat /\ m + 1 \in t .. first
    BY <1>1, <1>13
  <2>2. Bit(key, m) = Bit(other, m)
    BY <1>11
  <2>3. QED
    BY <1>2, <1>14, <2>1, <2>2
<1>15. t \in T
  BY <1>13
<1> HIDE DEF T
<1>16. \A m \in t .. first : m \in T
  BY <1>1, <1>13, <1>14, <1>15, Climb
<1>17. \A m \in t .. first : key % 2 ^ m = other % 2 ^ m
  BY <1>16 DEF T
<1> HIDE DEF Part
<1>18. Bit(key, first) # Bit(other, first)
  BY <1>11 DEF Part
<1>19. QED
  BY <1>11, <1>12, <1>13, <1>17, <1>18

\* The way to a new key is new.
LEMMA WayIsNew ==
  ASSUME NEW c \in Maps, NEW e \in Maps, NEW key \in DOMAIN e, key \notin DOMAIN c
  PROVE  \A i \in 0 .. Turn(e, key) : ~InTree(c, Way(e, key, i))
<1> DEFINE n == Turn(e, key)
           o == [i \in 0 .. n |-> Way(e, key, i)]
           s == Asides(e, key)
<1>1. key \in Keys /\ n \in 0 .. KeyBits /\ n \in Nat /\ KeyBits \in Nat
  BY MapsAre, TurnIs, KeysAre
<1>2. ~InTree(c, Way(e, key, n))
  <2>1. Way(e, key, n) = Leaf(key, e[key])
    BY <1>1, EndIs
  <2>2. QED
    BY <2>1, LeafIn
<1>3. \A i \in 0 .. n - 1 : Way(e, key, i) = Join(key, i, s[i + 1], Way(e, key, i + 1))
  <2>1. ASSUME NEW i \in 0 .. n - 1
        PROVE  Way(e, key, i) = Join(key, i, s[i + 1], Way(e, key, i + 1))
    <3>1. i \in 0 .. KeyBits /\ i < n
      BY <1>1
    <3>2. Many(OnWay(e, key, i))
      BY <1>1, <3>1, TurnIs
    <3>3. s[i + 1] = Aside(e, key, i)
      BY <1>1, AsidesAre
    <3>4. QED
      BY <1>1, <3>1, <3>2, <3>3, WayJoin
  <2>2. QED
    BY <2>1
<1> HIDE DEF n, s
<1>4. n \in 0 .. n /\ \A i \in 0 .. n - 1 : i \in 0 .. n /\ i + 1 \in 0 .. n
  BY <1>1
<1>5. \A i \in 0 .. n : o[i] = Way(e, key, i)
  OBVIOUS
<1> HIDE DEF o
<1>6. ~InTree(c, o[n])
  BY <1>2, <1>4, <1>5
<1>7. \A i \in 0 .. n - 1 : o[i] = Join(key, i, s[i + 1], o[i + 1])
  BY <1>3, <1>4, <1>5
<1>8. \A i \in 0 .. n : ~InTree(c, o[i])
  BY <1>1, <1>6, <1>7, OldIsFresh
<1>9. QED
  BY <1>5, <1>8 DEF n

\* The branchings on the way to a new key are gone.
LEMMA WayIsGone ==
  ASSUME NEW c \in Maps, NEW e \in Maps, NEW key \in DOMAIN e, key \notin DOMAIN c,
         NEW i \in 0 .. KeyBits, Many(OnWay(c, key, i)), Many(OnWay(e, key, i))
  PROVE  ~InTree(e, Way(c, key, i))
<1>1. key \in Keys /\ i \in Nat /\ KeyBits \in Nat
  BY MapsAre, KeysAre
<1>2. SUFFICES ASSUME InTree(e, Way(c, key, i)) PROVE FALSE
  OBVIOUS
<1>3. PICK l \in 0 .. KeyBits : \E p \in Places(l) : Way(c, key, i) = Sub(e, l, p)
  BY <1>2 DEF InTree
<1>4. PICK p \in Places(l) : Way(c, key, i) = Sub(e, l, p)
  BY <1>3
<1> DEFINE q == key % 2 ^ i
<1>5. q \in Places(i)
  BY <1>1, WayDown
<1>6. Many(Under(c, i, q)) /\ Sub(c, i, q) = Sub(e, l, p)
  BY <1>4 DEF OnWay, Way
<1> HIDE DEF q
<1>7. i = l /\ q = p
  BY <1>5, <1>6, Positioned
<1>8. Way(c, key, i) = Way(e, key, i)
  BY <1>4, <1>7 DEF Way, q
<1>9. i \in 0 .. Turn(e, key)
  <2>1. i < Turn(e, key) /\ Turn(e, key) \in 0 .. KeyBits
    BY <1>1, TurnIs
  <2>2. QED
    BY <1>1, <2>1
<1>10. ~InTree(c, Way(e, key, i))
  BY <1>9, WayIsNew
<1>11. InTree(c, Way(c, key, i))
  BY <1>1, WayIn
<1>12. QED
  BY <1>8, <1>10, <1>11

With(c, key, value) == [k \in DOMAIN c \cup {key} |-> IF k = key THEN value ELSE c[k]]

LEMMA WithIs ==
  ASSUME NEW c \in Maps, NEW key \in Keys, NEW value \in Values
  PROVE  LET e == With(c, key, value)
         IN  /\ e \in Maps /\ key \in DOMAIN e /\ e[key] = value /\ Apart(c, e, key)
             /\ DOMAIN e = DOMAIN c \cup {key} /\ \A k \in DOMAIN c \ {key} : e[k] = c[k]
             /\ \A l : OnWay(e, key, l) = OnWay(c, key, l) \cup {key}
             /\ \A l : Many(OnWay(c, key, l)) => Many(OnWay(e, key, l))
<1> DEFINE e == With(c, key, value)
           D == DOMAIN c \cup {key}
<1>1. DOMAIN e = D /\ e[key] = value /\ \A k \in DOMAIN c \ {key} : e[k] = c[k]
  BY DEF With
<1>2. D \in SUBSET Keys /\ e \in [D -> Values]
  BY MapsAre DEF With
<1> HIDE DEF e
<1>3. e \in Maps
  <2> HIDE DEF D
  <2>1. QED
    BY <1>2 DEF Maps
<1>4. Apart(c, e, key)
  BY <1>1 DEF Apart
<1>5. \A l : OnWay(e, key, l) = OnWay(c, key, l) \cup {key}
  BY <1>1 DEF OnWay, Under
<1>6. \A l : Many(OnWay(c, key, l)) => Many(OnWay(e, key, l))
  BY <1>5 DEF Many
<1>7. QED
  BY <1>1, <1>3, <1>4, <1>5, <1>6 DEF e

\* A path extended by empty siblings and the old leaf.
LEMMA ExtendedIs ==
  ASSUME NEW S, NEW s \in Seq(S), NEW g \in Nat, NEW z, NEW x
  PROVE  LET q == s \o [i \in 1 .. g |-> z] \o <<x>>
             t == Len(s)
         IN  /\ Len(q) = t + g + 1
             /\ \A i \in 0 .. t - 1 : q[i + 1] = s[i + 1]
             /\ \A i \in t .. t + g - 1 : q[i + 1] = z
             /\ q[t + g + 1] = x
<1> DEFINE T == S \cup {z, x}
           w == [i \in 1 .. g |-> z]
           t == Len(s)
           u == s \o w
           y == <<x>>
           q == u \o y
<1>1. s \in Seq(T) /\ t \in Nat
  <2>1. S \subseteq T
    OBVIOUS
  <2> HIDE DEF T
  <2>2. QED
    BY <2>1
<1>2. w \in Seq(T) /\ Len(w) = g /\ \A i \in 1 .. g : w[i] = z
  <2>1. w \in [1 .. g -> T]
    OBVIOUS
  <2>2. \A i \in 1 .. g : w[i] = z
    OBVIOUS
  <2> HIDE DEF T, w
  <2>3. QED
    BY <2>1, <2>2
<1>3. y \in Seq(T) /\ Len(y) = 1 /\ y[1] = x
  <2>1. x \in T
    OBVIOUS
  <2> HIDE DEF T
  <2>2. QED
    BY <2>1
<1> HIDE DEF T, w, t, y
<1>4. u \in Seq(T) /\ Len(u) = t + g /\ (\A i \in 1 .. t : u[i] = s[i])
      /\ \A i \in 1 .. g : u[t + i] = w[i]
  BY <1>1, <1>2 DEF t
<1> HIDE DEF u
<1>5. Len(q) = (t + g) + 1 /\ (\A i \in 1 .. t + g : q[i] = u[i]) /\ q[(t + g) + 1] = y[1]
  <2> DEFINE m == t + g
  <2>1. m \in Nat /\ Len(u) = m
    BY <1>1, <1>4
  <2> HIDE DEF m
  <2>2. /\ Len(q) = Len(u) + Len(y)
        /\ \A i \in 1 .. Len(u) + Len(y) : q[i] = IF i <= Len(u) THEN u[i] ELSE y[i - Len(u)]
    BY <1>3, <1>4, ConcatProperties
  <2> HIDE DEF q
  <2>3. Len(q) = m + 1
    BY <1>3, <2>1, <2>2
  <2>4. \A i \in 1 .. m : q[i] = u[i]
    <3>1. \A i \in 1 .. m : i \in 1 .. m + 1 /\ i <= m
      BY <2>1
    <3>2. QED
      BY <1>3, <2>1, <2>2, <3>1
  <2>5. q[m + 1] = y[1]
    <3>1. m + 1 \in 1 .. m + 1 /\ ~(m + 1 <= m) /\ (m + 1) - m = 1
      BY <2>1
    <3>2. QED
      BY <1>3, <2>1, <2>2, <3>1
  <2>6. QED
    BY <2>3, <2>4, <2>5 DEF m
<1> HIDE DEF q
<1>6. \A i \in 0 .. t - 1 : q[i + 1] = s[i + 1]
  <2>1. \A i \in 0 .. t - 1 : i + 1 \in 1 .. t /\ i + 1 \in 1 .. t + g
    BY <1>1
  <2>2. QED
    BY <1>4, <1>5, <2>1
<1>7. \A i \in t .. t + g - 1 : q[i + 1] = z
  <2>1. ASSUME NEW i \in t .. t + g - 1 PROVE q[i + 1] = z
    <3>1. (i + 1) - t \in 1 .. g /\ t + ((i + 1) - t) = i + 1 /\ i + 1 \in 1 .. t + g
      BY <1>1
    <3>2. u[i + 1] = w[(i + 1) - t]
      BY <1>4, <3>1
    <3>3. QED
      BY <1>2, <1>5, <3>1, <3>2
  <2>2. QED
    BY <2>1
<1>8. q[t + g + 1] = x
  BY <1>3, <1>5
<1>9. Len(q) = t + g + 1
  BY <1>5
<1>10. QED
  BY <1>6, <1>7, <1>8, <1>9 DEF q, u, w, y, t

\* The siblings an insert climbs over are those of the new tree.
Opened(c, key) ==
  LET t == Turn(c, key)
      end == Way(c, key, t)
  IN  IF end = Zero THEN Asides(c, key)
      ELSE Asides(c, key) \o [i \in 1 .. CommonPrefix(key, end[2], t) |-> Zero] \o <<end>>

LEMMA OpenedIs ==
  ASSUME NEW c \in Maps, NEW key \in Keys \ DOMAIN c, NEW value \in Values,
         NEW q, q = Opened(c, key)
  PROVE  LET e == With(c, key, value)
             t == Turn(c, key)
             n == Len(q)
         IN  /\ n \in 0 .. KeyBits /\ n = Turn(e, key)
             /\ Way(c, key, t) = Zero => n = t
             /\ Way(c, key, t) # Zero => n > t
             /\ \A i \in 0 .. n - 1 : /\ q[i + 1] = Aside(e, key, i)
                                      /\ Many(OnWay(e, key, i))
             /\ \A i \in t .. n - 2 : q[i + 1] = Zero
             /\ \A i \in 0 .. t - 1 : q[i + 1] = Aside(c, key, i)
<1> DEFINE e == With(c, key, value)
           t == Turn(c, key)
           s == Asides(c, key)
           end == Way(c, key, t)
           n == Len(q)
<1>1. KeyBits \in Nat /\ t \in 0 .. KeyBits /\ t \in Nat
  BY KeysAre, TurnIs
<1>2. /\ e \in Maps /\ key \in DOMAIN e /\ Apart(c, e, key)
      /\ \A l : OnWay(e, key, l) = OnWay(c, key, l) \cup {key}
      /\ \A l : Many(OnWay(c, key, l)) => Many(OnWay(e, key, l))
  <2>1. e \in Maps /\ key \in DOMAIN e /\ Apart(c, e, key)
    BY WithIs
  <2>2. \A l : OnWay(e, key, l) = OnWay(c, key, l) \cup {key}
    BY DEF With, OnWay, Under
  <2>3. \A l : Many(OnWay(c, key, l)) => Many(OnWay(e, key, l))
    BY <2>2 DEF Many
  <2>4. QED
    BY <2>1, <2>2, <2>3
<1>3. Len(s) = t /\ \A i \in 0 .. t - 1 : s[i + 1] = Aside(c, key, i)
  BY AsidesAre
<1>4. \A i \in 0 .. t - 1 : /\ Aside(c, key, i) = Aside(e, key, i)
                            /\ Many(OnWay(e, key, i))
  <2>1. ASSUME NEW i \in 0 .. t - 1
        PROVE  Aside(c, key, i) = Aside(e, key, i) /\ Many(OnWay(e, key, i))
    <3>1. i \in 0 .. KeyBits - 1 /\ i \in 0 .. KeyBits /\ i < t
      BY <1>1
    <3>2. Many(OnWay(c, key, i))
      BY <3>1, TurnIs
    <3>3. QED
      BY <1>2, <3>1, <3>2, AsideKept
  <2>2. QED
    BY <2>1
<1>5. ~Many({key})
  BY DEF Many
<1>6. /\ end = Zero \/ \E a \in DOMAIN c : end = Leaf(a, c[a]) /\ OnWay(c, key, t) = {a}
      /\ end = Zero => OnWay(c, key, t) = {}
  BY EndIs
<1>7. ASSUME NEW m \in 0 .. KeyBits, OnWay(e, key, m) = {key}, \A i \in 0 .. m - 1 : Many(OnWay(e, key, i))
      PROVE  m = Turn(e, key)
  <2>1. Ends(e, key, m)
    BY <1>5, <1>7 DEF Ends
  <2>2. QED
    BY <1>2, <2>1, TurnIs
<1>8. q = IF end = Zero THEN s
          ELSE s \o [i \in 1 .. CommonPrefix(key, end[2], t) |-> Zero] \o <<end>>
  BY DEF Opened
<1> HIDE DEF e, t, s, end
<1>9. CASE end = Zero
  <2>1. q = s /\ n = t
    BY <1>3, <1>8, <1>9
  <2>2. OnWay(e, key, t) = {key}
    BY <1>2, <1>6, <1>9
  <2>3. t = Turn(e, key)
    BY <1>1, <1>4, <1>7, <2>2
  <2>4. \A i \in 0 .. n - 1 : q[i + 1] = Aside(e, key, i) /\ Many(OnWay(e, key, i))
    BY <1>3, <1>4, <2>1
  <2>5. \A i \in t .. t - 2 : q[i + 1] = Zero
    BY <1>1
  <2>6. \A i \in 0 .. t - 1 : q[i + 1] = Aside(c, key, i)
    BY <1>3, <2>1
  <2> HIDE DEF n
  <2>7. QED
    BY <1>1, <1>9, <2>1, <2>3, <2>4, <2>5, <2>6 DEF n, e, t, end
<1>10. CASE end # Zero
  <2>1. PICK a \in DOMAIN c : end = Leaf(a, c[a]) /\ OnWay(c, key, t) = {a}
    BY <1>6, <1>10
  <2> DEFINE g == CommonPrefix(key, a, t)
             l == t + g
  <2>2. end[2] = a
    BY <2>1 DEF Leaf
  <2>3. a \in Keys /\ a # key
    BY MapsAre
  <2>4. key % 2 ^ t = a % 2 ^ t
    <3>1. a \in OnWay(c, key, t)
      BY <2>1
    <3>2. QED
      BY <3>1 DEF OnWay, Under
  <2>5. /\ g \in Nat /\ l \in t .. KeyBits - 1
        /\ Bit(key, l) # Bit(a, l)
        /\ \A m \in t .. l : key % 2 ^ m = a % 2 ^ m
    BY <1>1, <2>3, <2>4, CommonIs
  <2>6. q = s \o [i \in 1 .. g |-> Zero] \o <<end>>
    BY <1>8, <1>10, <2>2
  <2>7. \E S : s \in Seq(S)
    <3> DEFINE S == {Aside(c, key, i - 1) : i \in 1 .. t}
    <3>1. s \in [1 .. t -> S]
      BY DEF Asides, s, t
    <3> HIDE DEF S
    <3>2. s \in Seq(S)
      BY <1>1, <3>1
    <3>3. QED
      BY <3>2
  <2> HIDE DEF g
  <2>8. /\ n = l + 1
        /\ \A i \in 0 .. t - 1 : q[i + 1] = s[i + 1]
        /\ \A i \in t .. l - 1 : q[i + 1] = Zero
        /\ q[l + 1] = end
    <3>1. PICK S : s \in Seq(S)
      BY <2>7
    <3> DEFINE x == s \o [i \in 1 .. g |-> Zero] \o <<end>>
    <3>2. /\ Len(x) = Len(s) + g + 1
          /\ \A i \in 0 .. Len(s) - 1 : x[i + 1] = s[i + 1]
          /\ \A i \in Len(s) .. Len(s) + g - 1 : x[i + 1] = Zero
          /\ x[Len(s) + g + 1] = end
      BY <2>5, <3>1, ExtendedIs
    <3>3. x = q
      BY <2>6
    <3> HIDE DEF x
    <3> DEFINE m == Len(s)
    <3>4. m = t
      BY <1>3
    <3>5. /\ Len(q) = m + g + 1
          /\ \A i \in 0 .. m - 1 : q[i + 1] = s[i + 1]
          /\ \A i \in m .. m + g - 1 : q[i + 1] = Zero
          /\ q[m + g + 1] = end
      BY <3>2, <3>3
    <3> HIDE DEF m
    <3>6. \A i \in 0 .. t - 1 : q[i + 1] = s[i + 1]
      BY <3>4, <3>5
    <3>7. \A i \in t .. t + g - 1 : q[i + 1] = Zero
      BY <3>4, <3>5
    <3>8. Len(q) = t + g + 1 /\ q[t + g + 1] = end
      BY <3>4, <3>5
    <3>9. t + g - 1 = l - 1 /\ t + g + 1 = l + 1
      BY <1>1, <2>5
    <3> HIDE DEF l
    <3>10. QED
      BY <3>6, <3>7, <3>8, <3>9
  <2> HIDE DEF l, n
  <2>9. l \in Nat /\ l \in 0 .. KeyBits /\ n \in 0 .. KeyBits /\ n \in Nat /\ l \in t .. l
        /\ l \in 0 .. KeyBits - 1 /\ n > t
    BY <1>1, <2>5, <2>8
  <2>10. \A m \in t .. l : OnWay(c, key, m) = {a} /\ Many(OnWay(e, key, m))
    <3>1. ASSUME NEW m \in t .. l PROVE OnWay(c, key, m) = {a} /\ Many(OnWay(e, key, m))
      <4>1. m \in t .. KeyBits /\ key % 2 ^ m = a % 2 ^ m
        BY <1>1, <2>5, <2>9
      <4>2. OnWay(c, key, m) \subseteq {a}
        BY <1>1, <2>1, <4>1, WayNarrows
      <4>3. a \in OnWay(c, key, m)
        BY <4>1 DEF OnWay, Under
      <4>4. OnWay(c, key, m) = {a}
        BY <4>2, <4>3
      <4>5. Many(OnWay(e, key, m))
        BY <1>2, <2>3, <4>4 DEF Many
      <4>6. QED
        BY <4>4, <4>5
    <3>2. QED
      BY <3>1
  <2>11. \A b \in DOMAIN c :
           /\ b \in OnWay(c, key, l + 1) <=> b \in OnWay(c, key, l) /\ Bit(b, l) = Bit(key, l)
           /\ b \in Under(c, l + 1, Beside(key, l)) <=> b \in OnWay(c, key, l) /\ Bit(b, l) # Bit(key, l)
    BY <2>9, WayUnder
  <2>12. \A m, p : Under(c, m, p) \subseteq DOMAIN c /\ OnWay(c, key, m) \subseteq DOMAIN c
    BY DEF Under, OnWay
  <2>13. OnWay(c, key, l) = {a}
    BY <2>9, <2>10
  <2>14. OnWay(c, key, l + 1) = {} /\ Under(c, l + 1, Beside(key, l)) = {a}
    BY <2>5, <2>11, <2>12, <2>13
  <2>15. OnWay(e, key, n) = {key}
    BY <1>2, <2>8, <2>14
  <2>16. Aside(c, key, l) = end
    <3>1. l + 1 \in 0 .. KeyBits
      BY <2>8, <2>9
    <3>2. Beside(key, l) \in Places(l + 1)
      BY <2>9, WayDown
    <3>3. Sub(c, l + 1, Beside(key, l)) = Leaf(a, c[a])
      BY <2>14, <3>1, <3>2, SubIs
    <3>4. QED
      BY <2>1, <3>3 DEF Aside
  <2>17. \A i \in t .. l - 1 : Aside(c, key, i) = Zero
    <3>1. ASSUME NEW i \in t .. l - 1 PROVE Aside(c, key, i) = Zero
      <4>1. i \in Nat /\ i \in t .. l /\ i + 1 \in t .. l /\ i + 1 \in 0 .. KeyBits
        BY <1>1, <2>9
      <4>2. OnWay(c, key, i) = {a} /\ OnWay(c, key, i + 1) = {a}
        BY <2>10, <4>1
      <4>3. \A b \in DOMAIN c :
              /\ b \in OnWay(c, key, i + 1) <=> b \in OnWay(c, key, i) /\ Bit(b, i) = Bit(key, i)
              /\ b \in Under(c, i + 1, Beside(key, i)) <=> b \in OnWay(c, key, i) /\ Bit(b, i) # Bit(key, i)
        BY <4>1, WayUnder
      <4>4. Under(c, i + 1, Beside(key, i)) = {}
        BY <2>12, <4>2, <4>3
      <4>5. Beside(key, i) \in Places(i + 1)
        BY <4>1, WayDown
      <4>6. QED
        BY <4>1, <4>4, <4>5, SubIs DEF Aside
    <3>2. QED
      BY <3>1
  <2>18. ASSUME NEW i \in 0 .. n - 1 PROVE q[i + 1] = Aside(e, key, i) /\ Many(OnWay(e, key, i))
    <3>1. CASE i \in 0 .. t - 1
      BY <1>3, <1>4, <2>8, <3>1
    <3>2. CASE i \notin 0 .. t - 1
      <4>1. i \in t .. l /\ i \in 0 .. KeyBits - 1 /\ (i = l \/ i \in t .. l - 1)
        BY <1>1, <2>8, <2>9, <3>2
      <4>2. q[i + 1] = Aside(c, key, i)
        BY <2>8, <2>16, <2>17, <4>1
      <4>3. Aside(c, key, i) = Aside(e, key, i)
        BY <1>2, <4>1, AsideKept
      <4>4. QED
        BY <2>10, <4>1, <4>2, <4>3
    <3>3. QED
      BY <3>1, <3>2
  <2>19. n = Turn(e, key)
    BY <1>7, <2>9, <2>15, <2>18
  <2>20. \A i \in t .. n - 2 : q[i + 1] = Zero
    <3>1. \A i \in t .. n - 2 : i \in t .. l - 1
      BY <1>1, <2>8, <2>9
    <3>2. QED
      BY <2>8, <3>1
  <2>21. \A i \in 0 .. t - 1 : q[i + 1] = Aside(c, key, i)
    BY <1>3, <2>8
  <2>22. QED
    BY <1>10, <2>9, <2>18, <2>19, <2>20, <2>21 DEF n, e, t, end
<1>11. QED
  BY <1>9, <1>10

Inserts(key, value, n, f) ==
  LET old == Siblings(key)
      sibs == InsertSiblings(key)
      collision == EndOf(key) # Zero
  IN  /\ InsertClimb(key, value) = f[0]
      /\ f[n].rt = Leaf(key, value) /\ f[n].rtOld = EndOf(key)
      /\ f[n].mixed <=> ~collision /\ old # <<>>
      /\ f[n].nodes = nodes \cup {Leaf(key, value)}
      /\ \A i \in 0 .. n - 1 :
           /\ f[i].rt = Join(key, i, sibs[i + 1], f[i + 1].rt)
           /\ f[i].mixed <=> f[i + 1].mixed \/ (~(collision /\ i = n - 1) /\ i < n - 1 /\ sibs[i + 1] # Zero)
           /\ f[i].mixed /\ ~(collision /\ i = n - 1) =>
                /\ f[i].rtOld = Join(key, i, IF i < Len(old) THEN old[i + 1] ELSE Zero, f[i + 1].rtOld)
                /\ f[i].nodes = (f[i + 1].nodes \ {f[i].rtOld}) \cup {f[i].rt}
           /\ ~(f[i].mixed /\ ~(collision /\ i = n - 1)) =>
                /\ f[i].rtOld = f[i + 1].rtOld
                /\ f[i].nodes = f[i + 1].nodes \cup {f[i].rt}

LEMMA InsertClimbIs ==
  ASSUME NEW key, NEW value, Len(InsertSiblings(key)) \in Nat
  PROVE  \E f : Inserts(key, value, Len(InsertSiblings(key)), f)
<1> DEFINE old == Siblings(key)
           sibs == InsertSiblings(key)
           n == Len(sibs)
           last == n - 1
           collision == EndOf(key) # Zero
           Level(z, i) ==
             IF i = n
             THEN [rt |-> Leaf(key, value), rtOld |-> EndOf(key),
                   mixed |-> ~collision /\ old # <<>>,
                   nodes |-> nodes \cup {Leaf(key, value)}]
             ELSE LET below == z[i + 1]
                      isOldLeaf == collision /\ i = last
                      mixed == below.mixed \/ (~isOldLeaf /\ i < last /\ sibs[i + 1] # Zero)
                      removes == mixed /\ ~isOldLeaf
                      oldSibling == IF i < Len(old) THEN old[i + 1] ELSE Zero
                      rtOld == IF removes THEN Join(key, i, oldSibling, below.rtOld)
                               ELSE below.rtOld
                      rt == Join(key, i, sibs[i + 1], below.rt)
                  IN  [rt |-> rt, rtOld |-> rtOld, mixed |-> mixed,
                       nodes |-> (below.nodes \ (IF removes THEN {rtOld} ELSE {})) \cup {rt}]
<1> DEFINE Is(z, j) == z = [i \in n - j .. n |-> Level(z, i)]
           S == {j \in 0 .. n : \E z : Is(z, j)}
<1>1. ASSUME NEW z, NEW y, NEW i, i # n => z[i + 1] = y[i + 1]
      PROVE  Level(z, i) = Level(y, i)
  BY <1>1
<1>2. n \in Nat
  OBVIOUS
<1>3. InsertClimb(key, value) = (CHOOSE z : z = [i \in 0 .. n |-> Level(z, i)])[0]
  BY DEF InsertClimb
<1> HIDE DEF n, Level
<1>4. 0 \in S
  <2> DEFINE z == [i \in n .. n |-> Level(0, i)]
  <2>1. \A i \in n .. n : i = n
    BY <1>2
  <2>2. z = [i \in n .. n |-> Level(z, i)]
    <3>1. ASSUME NEW i \in n .. n PROVE Level(0, i) = Level(z, i)
      <4> HIDE DEF z
      <4>1. QED
        BY <1>1, <2>1
    <3>2. QED
      BY <3>1
  <2> HIDE DEF z
  <2>3. n - 0 = n
    BY <1>2
  <2>4. Is(z, 0)
    BY <2>2, <2>3
  <2> HIDE DEF Is
  <2>5. QED
    BY <1>2, <2>4
<1>5. ASSUME NEW j \in 0 .. n - 1, j \in S PROVE j + 1 \in S
  <2> DEFINE m == n - (j + 1)
  <2>1. PICK z : Is(z, j)
    BY <1>5
  <2>2. m \in Nat /\ m # n /\ m + 1 = n - j /\ j + 1 \in 0 .. n
        /\ \A i \in m .. n : i = m \/ (i \in m + 1 .. n /\ i # m /\ (i # n => i + 1 \in m + 1 .. n /\ i + 1 # m))
    BY <1>2
  <2>3. m + 1 \in m .. n /\ m + 1 # m /\ m \in m .. n
    BY <1>2
  <2> HIDE DEF m
  <2> DEFINE y == [i \in m .. n |-> IF i = m THEN Level(z, i) ELSE z[i]]
  <2>4. ASSUME NEW i \in m .. n PROVE y[i] = Level(y, i)
    <3>1. CASE i = m
      <4>1. y[i] = Level(z, i) /\ y[i + 1] = z[i + 1]
        BY <2>3, <3>1
      <4> HIDE DEF y
      <4>2. Level(z, i) = Level(y, i)
        BY <1>1, <4>1
      <4>3. QED
        BY <4>1, <4>2
    <3>2. CASE i # m
      <4>1. i \in m + 1 .. n /\ (i # n => i + 1 \in m + 1 .. n /\ i + 1 # m)
        BY <2>2, <3>2
      <4>2. \A k \in m + 1 .. n : k \in m .. n
        BY <2>2
      <4>3. y[i] = z[i] /\ (i # n => y[i + 1] = z[i + 1])
        BY <3>2, <4>1, <4>2
      <4>4. z[i] = Level(z, i)
        BY <2>1, <2>2, <4>1
      <4> HIDE DEF y
      <4>5. Level(z, i) = Level(y, i)
        BY <1>1, <4>3
      <4>6. QED
        BY <4>3, <4>4, <4>5
    <3>3. QED
      BY <3>1, <3>2
  <2>5. y = [i \in m .. n |-> Level(y, i)]
    <3>1. y = [i \in m .. n |-> y[i]]
      OBVIOUS
    <3> HIDE DEF y
    <3>2. QED
      BY <2>4, <3>1
  <2> HIDE DEF y
  <2>6. Is(y, j + 1)
    BY <2>5 DEF m
  <2> HIDE DEF Is
  <2>7. QED
    BY <2>2, <2>6
<1> HIDE DEF S
<1>6. n \in S
  <2>1. \A j \in 0 .. n : j \in S
    BY <1>2, <1>4, <1>5, Climb
  <2>2. QED
    BY <1>2, <2>1
<1>7. PICK z : Is(z, n)
  BY <1>6 DEF S
<1>8. n - n = 0
  BY <1>2
<1> DEFINE f == CHOOSE y : y = [i \in 0 .. n |-> Level(y, i)]
<1>9. f = [i \in 0 .. n |-> Level(f, i)]
  <2>1. z = [i \in 0 .. n |-> Level(z, i)]
    BY <1>7, <1>8
  <2>2. QED
    BY <2>1
<1>10. InsertClimb(key, value) = f[0]
  BY <1>3
<1> HIDE DEF f
<1>11. \A i \in 0 .. n : f[i] = Level(f, i)
  BY <1>9
<1>12. n \in 0 .. n /\ \A i \in 0 .. n - 1 : i \in 0 .. n /\ i # n
  BY <1>2
<1>13. f[n] = [rt |-> Leaf(key, value), rtOld |-> EndOf(key), mixed |-> ~collision /\ old # <<>>,
               nodes |-> nodes \cup {Leaf(key, value)}]
  <2>1. f[n] = Level(f, n)
    BY <1>11, <1>12
  <2>2. QED
    BY <2>1 DEF Level
<1> DEFINE Step(i) ==
             /\ f[i].rt = Join(key, i, sibs[i + 1], f[i + 1].rt)
             /\ f[i].mixed <=> f[i + 1].mixed \/ (~(collision /\ i = n - 1) /\ i < n - 1 /\ sibs[i + 1] # Zero)
             /\ f[i].mixed /\ ~(collision /\ i = n - 1) =>
                  /\ f[i].rtOld = Join(key, i, IF i < Len(old) THEN old[i + 1] ELSE Zero, f[i + 1].rtOld)
                  /\ f[i].nodes = (f[i + 1].nodes \ {f[i].rtOld}) \cup {f[i].rt}
             /\ ~(f[i].mixed /\ ~(collision /\ i = n - 1)) =>
                  /\ f[i].rtOld = f[i + 1].rtOld
                  /\ f[i].nodes = f[i + 1].nodes \cup {f[i].rt}
<1>14. ASSUME NEW i \in 0 .. n - 1 PROVE Step(i)
  <2> DEFINE below == f[i + 1]
             isOldLeaf == collision /\ i = last
             mixed == below.mixed \/ (~isOldLeaf /\ i < last /\ sibs[i + 1] # Zero)
             removes == mixed /\ ~isOldLeaf
             oldSibling == IF i < Len(old) THEN old[i + 1] ELSE Zero
             gone == Join(key, i, oldSibling, below.rtOld)
             rtOld == IF removes THEN gone ELSE below.rtOld
             rt == Join(key, i, sibs[i + 1], below.rt)
             store == (below.nodes \ (IF removes THEN {rtOld} ELSE {})) \cup {rt}
  <2>1. f[i] = Level(f, i)
    BY <1>11, <1>12
  <2>2. f[i] = [rt |-> rt, rtOld |-> rtOld, mixed |-> mixed, nodes |-> store]
    BY <1>12, <2>1 DEF Level
  <2>3. mixed <=> below.mixed \/ (~isOldLeaf /\ i < last /\ sibs[i + 1] # Zero)
    OBVIOUS
  <2>4. removes <=> mixed /\ ~isOldLeaf
    OBVIOUS
  <2> HIDE DEF removes, mixed, rt, gone
  <2>5. removes => rtOld = gone /\ store = (below.nodes \ {rtOld}) \cup {rt}
    OBVIOUS
  <2>6. ~removes => rtOld = below.rtOld /\ store = below.nodes \cup {rt}
    OBVIOUS
  <2> HIDE DEF rtOld, store
  <2>7. f[i].nodes = store /\ f[i].rtOld = rtOld /\ f[i].rt = rt /\ f[i].mixed = mixed
    BY <2>2
  <2>8. f[i].mixed <=> mixed
    BY <2>7
  <2> HIDE DEF isOldLeaf, below
  <2>9. f[i].mixed /\ ~isOldLeaf =>
          f[i].rtOld = gone /\ f[i].nodes = (below.nodes \ {f[i].rtOld}) \cup {f[i].rt}
    BY <2>4, <2>5, <2>7, <2>8
  <2>10. ~(f[i].mixed /\ ~isOldLeaf) =>
          f[i].rtOld = below.rtOld /\ f[i].nodes = below.nodes \cup {f[i].rt}
    BY <2>4, <2>6, <2>7, <2>8
  <2>11. f[i].rt = rt
    BY <2>7
  <2>12. f[i].mixed <=> below.mixed \/ (~isOldLeaf /\ i < last /\ sibs[i + 1] # Zero)
    BY <2>3, <2>8
  <2>13. QED
    BY <2>9, <2>10, <2>11, <2>12 DEF isOldLeaf, below, gone, rt
<1>15. f[n].mixed <=> ~collision /\ old # <<>>
  <2> DEFINE mixed == ~collision /\ old # <<>>
  <2>1. mixed <=> ~collision /\ old # <<>>
    OBVIOUS
  <2> HIDE DEF mixed
  <2>2. f[n].mixed = mixed
    BY <1>13 DEF mixed
  <2>3. QED
    BY <2>1, <2>2
<1>16. f[n].rt = Leaf(key, value) /\ f[n].rtOld = EndOf(key) /\ f[n].nodes = nodes \cup {Leaf(key, value)}
  BY <1>13
<1> HIDE DEF Step
<1>17. \A i \in 0 .. n - 1 : Step(i)
  BY <1>14
<1>18. Inserts(key, value, n, f)
  BY <1>10, <1>15, <1>16, <1>17 DEF Inserts, Step
<1>19. QED
  BY <1>18 DEF n

LEMMA InsertIs ==
  ASSUME contents \in Maps, root = Sub(contents, 0, 0), Complete(contents, nodes),
         NEW key \in Keys \ DOMAIN contents, NEW value \in Values
  PROVE  LET e == With(contents, key, value)
             done == InsertClimb(key, value)
         IN  done.rt = Way(e, key, 0) /\ Complete(e, done.nodes)
<1> DEFINE c == contents
           e == With(contents, key, value)
           t == Turn(contents, key)
           end == Way(contents, key, t)
           q == InsertSiblings(key)
           n == Len(q)
           W(i) == Way(contents, key, i)
<1>1. KeyBits \in Nat /\ t \in 0 .. KeyBits /\ t \in Nat /\ key \in Keys
  BY KeysAre, TurnIs
<1>2. /\ e \in Maps /\ key \in DOMAIN e /\ e[key] = value /\ Apart(c, e, key)
  <2>1. e[key] = value
    BY DEF With
  <2>2. e \in Maps /\ key \in DOMAIN e /\ Apart(c, e, key)
    BY <1>1, WithIs
  <2>3. QED
    BY <2>1, <2>2
<1>3. EndOf(key) = end /\ Siblings(key) = Asides(c, key) /\ Depth(key) = t
  BY <1>1, LookupIs
<1>4. q = Opened(c, key)
  BY <1>3 DEF InsertSiblings, Opened
<1>5. /\ n \in 0 .. KeyBits /\ n = Turn(e, key)
      /\ end = Zero => n = t
      /\ end # Zero => n > t
      /\ \A i \in 0 .. n - 1 : q[i + 1] = Aside(e, key, i) /\ Many(OnWay(e, key, i))
      /\ \A i \in t .. n - 2 : q[i + 1] = Zero
      /\ \A i \in 0 .. t - 1 : q[i + 1] = Aside(c, key, i)
  <2> HIDE DEF q
  <2>1. QED
    BY <1>4, OpenedIs
<1>6. /\ Len(Siblings(key)) = t /\ (Siblings(key) = <<>> <=> t = 0)
      /\ \A i \in 0 .. t - 1 : Siblings(key)[i + 1] = Aside(c, key, i)
  BY <1>1, <1>3, AsidesAre
<1>7. n \in Nat /\ n \in 0 .. n /\ 0 \in 0 .. n
      /\ \A i \in 0 .. n - 1 : i \in Nat /\ i \in 0 .. KeyBits /\ i \in 0 .. n /\ i + 1 \in 0 .. n
  BY <1>1, <1>5
<1>8. \E f : Inserts(key, value, n, f)
  BY <1>7, InsertClimbIs
<1> HIDE DEF n, q, t, e, end
<1>9. PICK f : Inserts(key, value, n, f)
  BY <1>8
<1> DEFINE Collides(i) == end # Zero /\ i = n - 1
           Removes(i) == f[i].mixed /\ ~Collides(i)
<1>10. /\ InsertClimb(key, value) = f[0]
       /\ f[n].rt = Leaf(key, value) /\ f[n].rtOld = end
       /\ f[n].mixed <=> end = Zero /\ t # 0
       /\ f[n].nodes = nodes \cup {Leaf(key, value)}
  BY <1>3, <1>6, <1>9 DEF Inserts
<1>11. \A i \in 0 .. n - 1 :
         /\ f[i].rt = Join(key, i, q[i + 1], f[i + 1].rt)
         /\ f[i].mixed <=> f[i + 1].mixed \/ (~Collides(i) /\ i < n - 1 /\ q[i + 1] # Zero)
  BY <1>3, <1>9 DEF Inserts, q
<1>12. \A i \in 0 .. n - 1 :
         /\ Removes(i) =>
              /\ f[i].rtOld = Join(key, i, IF i < t THEN Siblings(key)[i + 1] ELSE Zero, f[i + 1].rtOld)
              /\ f[i].nodes = (f[i + 1].nodes \ {f[i].rtOld}) \cup {f[i].rt}
         /\ ~Removes(i) => f[i].rtOld = f[i + 1].rtOld /\ f[i].nodes = f[i + 1].nodes \cup {f[i].rt}
  BY <1>3, <1>6, <1>9 DEF Inserts
<1>13. \A i \in 0 .. n : f[i].rt = Way(e, key, i)
  <2> DEFINE r == [i \in 0 .. n |-> f[i].rt]
  <2>1. \A i \in 0 .. n : r[i] = f[i].rt
    OBVIOUS
  <2> HIDE DEF r
  <2>2. r[n] = Way(e, key, n)
    <3>1. Way(e, key, Turn(e, key)) = Leaf(key, e[key])
      BY <1>1, <1>2, EndIs
    <3>2. QED
      BY <1>2, <1>5, <1>7, <1>10, <2>1, <3>1
  <2>3. \A i \in 0 .. n - 1 : /\ Many(OnWay(e, key, i))
                              /\ r[i] = Join(key, i, Aside(e, key, i), r[i + 1])
    BY <1>5, <1>7, <1>11, <2>1
  <2>4. \A i \in 0 .. n : r[i] = Way(e, key, i)
    BY <1>1, <1>2, <1>5, <2>2, <2>3, ClimbsWay
  <2>5. QED
    BY <2>1, <2>4
<1> DEFINE Good(i) == IF i < t THEN f[i].mixed /\ f[i].rtOld = W(i)
                      ELSE /\ f[i].rtOld = W(t)
                           /\ f[i].mixed => n = t
                           /\ i = t /\ n = t /\ t # 0 => f[i].mixed
           S == {j \in 0 .. n : Good(n - j)}
<1>14. Good(n)
  <2>1. ~(n < t) /\ (end = Zero => n = t) /\ (n = t => end = Zero)
    BY <1>1, <1>5, <1>7
  <2>2. end = W(t)
    BY DEF end
  <2>3. QED
    BY <1>10, <2>1, <2>2
<1>15. ASSUME NEW i \in 0 .. n - 1, Good(i + 1)
       PROVE  Good(i) /\ (Removes(i) => i < t)
  <2>1. i \in Nat /\ i \in 0 .. KeyBits /\ i + 1 \in Nat /\ i < n
    BY <1>7
  <2>2. CASE ~(i < t)
    <3>1. ~(i + 1 < t) /\ n # t /\ i # n
      BY <1>1, <1>7, <2>1, <2>2
    <3>2. ~f[i + 1].mixed /\ f[i + 1].rtOld = W(t)
      BY <1>15, <3>1
    <3>3. ASSUME i < n - 1 PROVE q[i + 1] = Zero
      <4>1. i \in t .. n - 2
        BY <1>1, <1>7, <2>1, <2>2, <3>3
      <4>2. QED
        BY <1>5, <4>1
    <3>4. ~f[i].mixed
      BY <1>11, <3>2, <3>3
    <3>5. f[i].rtOld = W(t)
      BY <1>12, <3>2, <3>4
    <3>6. QED
      BY <2>2, <3>1, <3>4, <3>5
  <2>3. CASE i < t
    <3>1. i \in 0 .. t - 1 /\ (i + 1 < t \/ i + 1 = t) /\ ~(n < t)
      BY <1>1, <1>5, <1>7, <2>1, <2>3
    <3>2. f[i + 1].rtOld = W(i + 1)
      BY <1>15, <3>1
    <3>3. ~Collides(i)
      BY <1>1, <1>5, <1>7, <2>1, <2>3
    <3>4. f[i].mixed
      <4>1. CASE i + 1 < t
        BY <1>11, <1>15, <4>1
      <4>2. CASE i + 1 = t /\ n = t
        <5>1. t # 0 /\ ~(i + 1 < t)
          BY <1>1, <2>1, <4>2
        <5>2. QED
          BY <1>11, <1>15, <4>2, <5>1
      <4>3. CASE i + 1 = t /\ n # t
        <5>1. i < n - 1 /\ i = t - 1 /\ t > 0
          BY <1>1, <1>5, <1>7, <2>1, <3>1, <4>3
        <5>2. Aside(c, key, t - 1) # Zero
          BY <1>1, <5>1, LastAside DEF t
        <5>3. q[i + 1] # Zero
          BY <1>5, <3>1, <5>1, <5>2
        <5>4. QED
          BY <1>11, <3>3, <5>1, <5>3
      <4>4. QED
        BY <3>1, <4>1, <4>2, <4>3
    <3>5. f[i].rtOld = Join(key, i, Aside(c, key, i), W(i + 1))
      BY <1>6, <1>12, <2>3, <3>1, <3>2, <3>3, <3>4
    <3>6. Many(OnWay(c, key, i))
      BY <1>1, <2>1, <2>3, TurnIs DEF t
    <3>7. W(i) = Join(key, i, Aside(c, key, i), W(i + 1))
      BY <1>1, <2>1, <3>6, WayJoin
    <3>8. QED
      BY <2>3, <3>4, <3>5, <3>7
  <2>4. QED
    BY <2>2, <2>3
<1> HIDE DEF Good
<1>16. \A i \in 0 .. n : Good(i)
  <2>1. 0 \in S
    <3>1. n - 0 = n
      BY <1>7
    <3>2. QED
      BY <1>7, <1>14, <3>1
  <2>2. ASSUME NEW j \in 0 .. n - 1, j \in S PROVE j + 1 \in S
    <3> DEFINE i == n - (j + 1)
    <3>1. i \in 0 .. n - 1 /\ i + 1 = n - j /\ j + 1 \in 0 .. n
      BY <1>7
    <3> HIDE DEF i
    <3>2. Good(i)
      BY <1>15, <2>2, <3>1
    <3>3. QED
      BY <3>1, <3>2 DEF i
  <2> HIDE DEF S
  <2>3. \A j \in 0 .. n : j \in S
    BY <1>7, <2>1, <2>2, Climb
  <2>4. ASSUME NEW i \in 0 .. n PROVE Good(i)
    <3>1. n - i \in 0 .. n /\ n - (n - i) = i
      BY <1>7
    <3>2. n - i \in S
      BY <2>3, <3>1
    <3>3. QED
      BY <3>1, <3>2 DEF S
  <2>5. QED
    BY <2>4
<1>17. ASSUME NEW i \in 0 .. n - 1, Removes(i) PROVE ~InTree(e, f[i].rtOld)
  <2>1. Good(i) /\ Good(i + 1) /\ i \in 0 .. KeyBits
    BY <1>7, <1>16
  <2>2. i < t
    BY <1>15, <1>17, <2>1
  <2>3. f[i].rtOld = W(i)
    BY <2>1, <2>2 DEF Good
  <2>4. Many(OnWay(c, key, i)) /\ Many(OnWay(e, key, i))
    BY <1>1, <1>5, <2>1, <2>2, TurnIs DEF t
  <2>5. QED
    BY <1>2, <2>1, <2>3, <2>4, WayIsGone
<1> DEFINE N == [i \in 0 .. n |-> f[i].nodes]
<1>18. Complete(e, N[0])
  <2>1. \A i \in 0 .. n : N[i] = f[i].nodes
    OBVIOUS
  <2> HIDE DEF N, Collides
  <2>2. \A i \in 0 .. n - 1 : /\ f[i].rt \in f[i].nodes
                              /\ f[i].nodes = (f[i + 1].nodes \ {f[i].rtOld}) \cup {f[i].rt}
                                 \/ f[i].nodes = f[i + 1].nodes \cup {f[i].rt}
    BY <1>12
  <2>3. \A x \in nodes : InTree(e, x) => x \in N[n]
    BY <1>7, <1>10, <2>1
  <2>4. \A i \in 0 .. n - 1 : \A x \in N[i + 1] : InTree(e, x) => x \in N[i]
    <3>1. ASSUME NEW i \in 0 .. n - 1, NEW x \in N[i + 1], InTree(e, x) PROVE x \in N[i]
      <4>1. N[i] = f[i].nodes /\ N[i + 1] = f[i + 1].nodes
        BY <1>7, <2>1
      <4>2. CASE Removes(i)
        BY <1>12, <1>17, <3>1, <4>1, <4>2
      <4>3. CASE ~Removes(i)
        BY <1>12, <3>1, <4>1, <4>3
      <4>4. QED
        BY <4>2, <4>3
    <3>2. QED
      BY <3>1
  <2>5. ASSUME NEW i \in 0 .. Turn(e, key) PROVE Way(e, key, i) \in N[i]
    <3>1. i \in 0 .. n /\ (i = n \/ i \in 0 .. n - 1)
      BY <1>5, <1>7
    <3>2. f[i].rt \in f[i].nodes
      BY <1>10, <2>2, <3>1
    <3>3. QED
      BY <1>13, <2>1, <3>1, <3>2
  <2>6. Turn(e, key) <= n
    BY <1>5, <1>7
  <2>7. QED
    BY <1>1, <1>2, <1>7, <2>3, <2>4, <2>5, <2>6, StoreClimbs
<1>19. N[0] = f[0].nodes
  BY <1>7
<1> HIDE DEF N
<1>20. f[0].rt = Way(e, key, 0)
  BY <1>7, <1>13
<1>21. QED
  BY <1>10, <1>18, <1>19, <1>20 DEF e

-----------------------------------------------------------------------------
(* What the circuit accepts.                                               *)

LEMMA WayTop ==
  ASSUME NEW c, NEW k \in Keys
  PROVE  Way(c, k, 0) = Sub(c, 0, 0)
<1> DEFINE z == k % 2 ^ 0
<1>1. z = 0
  BY WayDown
<1>2. Way(c, k, 0) = Sub(c, 0, z)
  BY DEF Way
<1> HIDE DEF z
<1>3. QED
  BY <1>1, <1>2

ProofOf(c, key) == [siblings |-> Fit(Asides(c, key)), end |-> Way(c, key, Turn(c, key))]

\* CircuitAccepts, for any root.
Accepts(key, proof, r) ==
  LET d == UsedDepth(proof.siblings)
  IN  /\ d < SmtDepth
      /\ proof.end # Zero => proof.end[2] # key
      /\ RootFrom(key, SubSeq(proof.siblings, 1, d), proof.end) = r

\* The siblings in use end with the last that is not zero.
LEMMA UsedIs ==
  ASSUME NEW s, DOMAIN s = 1 .. SmtDepth
  PROVE  /\ UsedDepth(s) \in 0 .. SmtDepth
         /\ UsedDepth(s) # 0 => s[UsedDepth(s)] # Zero
         /\ \A j \in 1 .. SmtDepth : s[j] # Zero => j <= UsedDepth(s)
<1> DEFINE used == {i \in DOMAIN s : s[i] # Zero}
           Greatest(i) == \A j \in used : j <= i
           T == {SmtDepth - i : i \in used}
<1>1. SmtDepth \in Nat
  BY SmtAssumption
<1>2. UsedDepth(s) = IF used = {} THEN 0 ELSE CHOOSE i \in used : Greatest(i)
  BY DEF UsedDepth
<1>3. \A i \in used : i \in 1 .. SmtDepth /\ s[i] # Zero
  OBVIOUS
<1>4. \A j \in 1 .. SmtDepth : s[j] # Zero => j \in used
  OBVIOUS
<1> HIDE DEF used
<1>5. CASE used = {}
  <2>1. UsedDepth(s) = 0
    BY <1>2, <1>5
  <2>2. QED
    BY <1>1, <1>4, <1>5, <2>1
<1>6. CASE used # {}
  <2>1. T # {} /\ T \subseteq Nat
    BY <1>1, <1>3, <1>6
  <2>2. PICK n \in T : \A m \in T : n <= m
    BY <2>1, HasLeast
  <2>3. PICK i \in used : n = SmtDepth - i
    BY <2>2
  <2>4. Greatest(i)
    <3>1. ASSUME NEW j \in used PROVE j <= i
      <4>1. n <= SmtDepth - j
        BY <2>2
      <4>2. QED
        BY <1>1, <1>3, <2>3, <4>1
    <3>2. QED
      BY <3>1
  <2> DEFINE g == CHOOSE x \in used : Greatest(x)
  <2>5. g \in used /\ Greatest(g)
    <3> HIDE DEF Greatest
    <3>1. QED
      BY <2>4
  <2>6. UsedDepth(s) = g
    BY <1>2, <1>6
  <2> HIDE DEF g
  <2>7. g \in 1 .. SmtDepth /\ s[g] # Zero
    BY <1>3, <2>5
  <2>8. \A j \in 1 .. SmtDepth : s[j] # Zero => j <= g
    BY <1>4, <2>5
  <2>9. g \in 0 .. SmtDepth
    BY <1>1, <2>7
  <2>10. QED
    BY <2>6, <2>7, <2>8, <2>9
<1>7. QED
  BY <1>5, <1>6

\* The siblings of a proof that the circuit uses.
LEMMA ProofIs ==
  ASSUME NEW c \in Maps, NEW key \in Keys
  PROVE  LET s == ProofOf(c, key).siblings
             d == UsedDepth(s)
             t == Turn(c, key)
         IN  /\ d \in 0 .. SmtDepth
             /\ t <= SmtDepth => d = t
             /\ Len(SubSeq(s, 1, d)) = d
             /\ \A i \in 0 .. d - 1 : i < t => SubSeq(s, 1, d)[i + 1] = Aside(c, key, i)
<1> DEFINE s == ProofOf(c, key).siblings
           d == UsedDepth(s)
           t == Turn(c, key)
           a == Asides(c, key)
           V == {s[i] : i \in 1 .. SmtDepth}
<1>1. SmtDepth \in Nat /\ KeyBits \in Nat /\ t \in 0 .. KeyBits /\ t \in Nat
  BY SmtAssumption, KeysAre, TurnIs
<1>2. Len(a) = t /\ \A i \in 0 .. t - 1 : a[i + 1] = Aside(c, key, i)
  BY AsidesAre
<1>3. s = [i \in 1 .. SmtDepth |-> IF i <= t THEN a[i] ELSE Zero]
  <2>1. s = Fit(a)
    BY DEF ProofOf
  <2> HIDE DEF s, a, t
  <2>2. QED
    BY <1>2, <2>1 DEF Fit
<1>4. DOMAIN s = 1 .. SmtDepth
  BY <1>3
<1>5. \A i \in 1 .. SmtDepth : s[i] = IF i <= t THEN a[i] ELSE Zero
  BY <1>3
<1>6. t > 0 => t - 1 \in 0 .. t - 1 /\ (t - 1) + 1 = t /\ Aside(c, key, t - 1) # Zero
  BY <1>1, LastAside
<1> HIDE DEF s, a, t
<1>7. /\ d \in 0 .. SmtDepth
      /\ d # 0 => s[d] # Zero
      /\ \A j \in 1 .. SmtDepth : s[j] # Zero => j <= d
  BY <1>4, UsedIs
<1>8. s \in [1 .. SmtDepth -> V]
  BY <1>3, <1>5
<1> HIDE DEF V, d
<1>9. Len(SubSeq(s, 1, d)) = d /\ \A j \in 1 .. d : SubSeq(s, 1, d)[j] = s[j]
  <2>1. s \in Seq(V) /\ Len(s) = SmtDepth
    BY <1>1, <1>8
  <2>2. d \in Nat /\ d <= SmtDepth
    BY <1>1, <1>7
  <2>3. QED
    BY <2>1, <2>2
<1>10. ASSUME t <= SmtDepth PROVE d = t
  <2>1. t > 0 => t <= d
    <3>1. ASSUME t > 0 PROVE t <= d
      <4>1. t \in 1 .. SmtDepth /\ t <= t
        BY <1>1, <1>10, <3>1
      <4>2. s[t] = a[t] /\ a[t] = Aside(c, key, t - 1)
        BY <1>2, <1>5, <1>6, <3>1, <4>1
      <4>3. QED
        BY <1>6, <1>7, <3>1, <4>1, <4>2
    <3>2. QED
      BY <3>1
  <2>2. d # 0 => d <= t
    <3>1. d # 0 => d \in 1 .. SmtDepth
      BY <1>1, <1>7
    <3>2. QED
      BY <1>5, <1>7, <3>1
  <2>3. QED
    BY <1>1, <1>7, <2>1, <2>2
<1>11. ASSUME NEW i \in 0 .. d - 1, i < t PROVE SubSeq(s, 1, d)[i + 1] = Aside(c, key, i)
  <2>1. i + 1 \in 1 .. d /\ i + 1 \in 1 .. SmtDepth /\ i + 1 <= t /\ i \in 0 .. t - 1
    BY <1>1, <1>7, <1>11
  <2>2. QED
    BY <1>2, <1>5, <1>9, <2>1
<1>12. QED
  BY <1>7, <1>9, <1>10, <1>11 DEF s, t, d

LEMMA AbsentAccepted ==
  ASSUME NEW c \in Maps, NEW key \in Keys \ DOMAIN c, Turn(c, key) < SmtDepth
  PROVE  Accepts(key, ProofOf(c, key), Way(c, key, 0))
<1> DEFINE proof == ProofOf(c, key)
           s == proof.siblings
           d == UsedDepth(s)
           t == Turn(c, key)
           q == SubSeq(s, 1, d)
<1>1. KeyBits \in Nat /\ t \in 0 .. KeyBits /\ t \in Nat /\ SmtDepth \in Nat /\ key \in Keys
  BY SmtAssumption, KeysAre, TurnIs
<1>2. /\ d \in 0 .. SmtDepth
      /\ t <= SmtDepth => d = t
      /\ Len(q) = d
      /\ \A i \in 0 .. d - 1 : i < t => q[i + 1] = Aside(c, key, i)
  BY <1>1, ProofIs
<1>3. proof.end = Way(c, key, t)
  BY DEF ProofOf
<1>4. proof.end # Zero => proof.end[2] # key
  BY <1>1, <1>3, EndIs
<1> HIDE DEF proof, s, d, t, q
<1>5. d = t /\ d < SmtDepth
  BY <1>1, <1>2 DEF t
<1> DEFINE m == Len(q)
<1>6. PICK f : /\ \A i \in 0 .. m : f[i] = IF i = m THEN proof.end ELSE Join(key, i, q[i + 1], f[i + 1])
               /\ RootFrom(key, q, proof.end) = f[0]
  <2>1. m \in Nat
    BY <1>1, <1>2, <1>5
  <2>2. QED
    BY <2>1, RootFromIs
<1>7. m = t
  BY <1>2, <1>5
<1> HIDE DEF m
<1>8. f[t] = Way(c, key, t)
  BY <1>1, <1>3, <1>6, <1>7
<1>9. ASSUME NEW i \in 0 .. t - 1
      PROVE  Many(OnWay(c, key, i)) /\ f[i] = Join(key, i, Aside(c, key, i), f[i + 1])
  <2>1. i \in 0 .. KeyBits /\ i < t /\ i \in 0 .. m /\ i # m /\ i \in 0 .. d - 1
    BY <1>1, <1>5, <1>7
  <2>2. Many(OnWay(c, key, i))
    BY <1>1, <2>1, TurnIs DEF t
  <2>3. q[i + 1] = Aside(c, key, i)
    BY <1>2, <2>1
  <2>4. QED
    BY <1>6, <2>1, <2>2, <2>3
<1>10. \A i \in 0 .. t : f[i] = Way(c, key, i)
  BY <1>1, <1>8, <1>9, ClimbsWay
<1>11. f[0] = Way(c, key, 0)
  BY <1>1, <1>10
<1>12. QED
  BY <1>4, <1>5, <1>6, <1>11 DEF Accepts, proof, s, d, q

\* The way of a key, computed from its end and its siblings.
LEMMA AbsentVerified ==
  ASSUME NEW c \in Maps, NEW key \in Keys
  PROVE  RootFrom(key, Asides(c, key), Way(c, key, Turn(c, key))) = Way(c, key, 0)
<1> DEFINE s == Asides(c, key)
           t == Turn(c, key)
           end == Way(c, key, t)
<1>1. KeyBits \in Nat /\ t \in 0 .. KeyBits /\ t \in Nat
  BY KeysAre, TurnIs
<1>2. Len(s) = t /\ \A i \in 0 .. t - 1 : s[i + 1] = Aside(c, key, i)
  BY <1>1 DEF Asides
<1>3. \A i \in 0 .. t - 1 : Many(OnWay(c, key, i))
  BY <1>1, TurnIs
<1> HIDE DEF s, t, end
<1>4. Len(s) \in Nat
  BY <1>1, <1>2
<1>5. PICK f : /\ \A i \in 0 .. Len(s) : f[i] = IF i = Len(s) THEN end ELSE Join(key, i, s[i + 1], f[i + 1])
               /\ RootFrom(key, s, end) = f[0]
  BY <1>4, RootFromIs
<1>6. f[t] = Way(c, key, t)
  BY <1>1, <1>2, <1>5 DEF end
<1>7. ASSUME NEW i \in 0 .. t - 1
      PROVE  Many(OnWay(c, key, i)) /\ f[i] = Join(key, i, Aside(c, key, i), f[i + 1])
  <2>1. i \in 0 .. Len(s) /\ i # Len(s)
    BY <1>1, <1>2
  <2>2. QED
    BY <1>2, <1>3, <1>5, <2>1
<1>8. \A i \in 0 .. t : f[i] = Way(c, key, i)
  BY <1>1, <1>6, <1>7, ClimbsWay
<1>9. f[0] = Way(c, key, 0)
  BY <1>1, <1>8
<1>10. QED
  BY <1>5, <1>9 DEF s, t, end

LEMMA PresentRefused ==
  ASSUME NEW c \in Maps, NEW key \in DOMAIN c, NEW other \in Keys
  PROVE  ~Accepts(key, ProofOf(c, other), Way(c, key, 0))
<1> DEFINE proof == ProofOf(c, other)
           s == proof.siblings
           d == UsedDepth(s)
           q == SubSeq(s, 1, d)
           end == proof.end
<1>1. KeyBits \in Nat /\ SmtDepth \in Nat /\ key \in Keys
  BY SmtAssumption, KeysAre, MapsAre
<1>2. SUFFICES ASSUME Accepts(key, proof, Way(c, key, 0)) PROVE FALSE
  OBVIOUS
<1>3. (end # Zero => end[2] # key) /\ RootFrom(key, q, end) = Way(c, key, 0)
  BY <1>2 DEF Accepts
<1>4. d \in 0 .. SmtDepth /\ Len(q) = d
  BY ProofIs
<1>5. end = Way(c, other, Turn(c, other))
  BY DEF ProofOf
<1>6. ~IsInternal(end)
  <2>1. end = Zero \/ \E a \in DOMAIN c : end = Leaf(a, c[a])
    BY <1>5, EndIs
  <2> HIDE DEF end
  <2>2. QED
    BY <2>1 DEF IsInternal, Zero, Leaf
<1> HIDE DEF proof, s, d, q, end
<1>7. d \in Nat
  BY <1>1, <1>4
<1> DEFINE m == Len(q)
<1>8. \E f : /\ \A i \in 0 .. m : f[i] = IF i = m THEN end ELSE Join(key, i, q[i + 1], f[i + 1])
             /\ RootFrom(key, q, end) = f[0]
  <2>1. m \in Nat
    BY <1>4, <1>7
  <2>2. QED
    BY <2>1, RootFromIs
<1>9. m = d
  BY <1>4
<1> HIDE DEF m
<1>10. PICK f : /\ \A i \in 0 .. m : f[i] = IF i = m THEN end ELSE Join(key, i, q[i + 1], f[i + 1])
                /\ RootFrom(key, q, end) = f[0]
  BY <1>8
<1>11. f[0] = Way(c, key, 0) /\ f[d] = end
       /\ \A i \in 0 .. d - 1 : f[i] = Join(key, i, q[i + 1], f[i + 1])
  <2>1. d \in 0 .. d /\ \A i \in 0 .. d - 1 : i \in 0 .. d /\ i # d
    BY <1>7
  <2>2. QED
    BY <1>3, <1>9, <1>10, <2>1
<1> DEFINE S == {i \in 0 .. d : i \in 0 .. KeyBits /\ f[i] = Way(c, key, i)}
<1>12. 0 \in S
  BY <1>1, <1>7, <1>11
<1>13. ASSUME NEW i \in 0 .. d - 1, i \in S PROVE i + 1 \in S
  <2>1. i \in 0 .. KeyBits /\ f[i] = Way(c, key, i) /\ i \in Nat
    BY <1>7, <1>13
  <2>2. f[i] = Join(key, i, q[i + 1], f[i + 1])
    BY <1>11
  <2>3. IsInternal(f[i])
    BY <2>2 DEF IsInternal, Join
  <2>4. Many(OnWay(c, key, i))
    BY <1>1, <2>1, <2>3, WayKinds
  <2>5. i < KeyBits /\ Way(c, key, i)[1 + Bit(key, i)] = Way(c, key, i + 1)
    BY <1>1, <2>1, <2>4, WayJoin
  <2>6. Bit(key, i) \in {0, 1}
    BY <1>1, <2>1, WayDown
  <2>7. Join(key, i, q[i + 1], f[i + 1])[1 + Bit(key, i)] = f[i + 1]
    <3>1. CASE Bit(key, i) = 1
      BY <3>1 DEF Join
    <3>2. CASE Bit(key, i) = 0
      BY <3>2 DEF Join
    <3>3. QED
      BY <2>6, <3>1, <3>2
  <2>8. f[i + 1] = Way(c, key, i + 1)
    BY <2>1, <2>2, <2>5, <2>7
  <2>9. i + 1 \in 0 .. d /\ i + 1 \in 0 .. KeyBits
    BY <1>1, <1>7, <2>1, <2>5
  <2>10. QED
    BY <2>8, <2>9
<1> HIDE DEF S
<1>14. \A i \in 0 .. d : i \in S
  BY <1>7, <1>12, <1>13, Climb
<1>15. d \in 0 .. KeyBits /\ end = Way(c, key, d)
  <2>1. d \in S
    BY <1>7, <1>14
  <2>2. QED
    BY <1>11, <2>1 DEF S
<1>16. ~Many(OnWay(c, key, d)) /\ key \in OnWay(c, key, d)
  BY <1>1, <1>6, <1>7, <1>15, WayKinds, WayUnder
<1>17. OnWay(c, key, d) = {key}
  <2>1. \A a \in OnWay(c, key, d) : a = key
    BY <1>16 DEF Many
  <2>2. QED
    BY <1>16, <2>1
<1>18. end = Leaf(key, c[key])
  BY <1>1, <1>15, <1>17, WayLeaf
<1>19. end # Zero /\ end[2] = key
  BY <1>18 DEF Leaf, Zero
<1>20. QED
  BY <1>3, <1>19

-----------------------------------------------------------------------------
(* The contract's tree.                                                    *)

SmtInvariant == contents \in Maps /\ root = Sub(contents, 0, 0) /\ Complete(contents, nodes)

\* The empty tree.
LEMMA EmptySparse ==
  ASSUME NEW c, c = [k \in {} |-> 0]
  PROVE  c \in Maps /\ Sub(c, 0, 0) = Zero /\ \A N : Complete(c, N)
<1>1. DOMAIN c = {} /\ c \in [{} -> Values]
  OBVIOUS
<1>2. c \in Maps
  BY <1>1 DEF Maps
<1>3. \A l, p : Under(c, l, p) = {}
  BY <1>1 DEF Under
<1>4. \A l \in 0 .. KeyBits : \A p \in Places(l) : Sub(c, l, p) = Zero
  BY <1>2, <1>3, SubIs
<1>5. 0 \in 0 .. KeyBits /\ 0 \in Places(0)
  BY <1>2, KeysAre, UnderEnds
<1>6. QED
  BY <1>2, <1>4, <1>5 DEF Complete

LEMMA SmtInit == PartsInit => SmtInvariant
<1> SUFFICES ASSUME PartsInit PROVE SmtInvariant
  OBVIOUS
<1>1. root = Zero /\ nodes = {} /\ contents = [k \in {} |-> 0]
  BY DEF PartsInit, Init
<1>2. contents \in Maps /\ Sub(contents, 0, 0) = Zero /\ Complete(contents, nodes)
  BY <1>1, EmptySparse
<1>3. QED
  BY <1>1, <1>2 DEF SmtInvariant

LEMMA SmtStepKeeps ==
  SmtInvariant /\ [PartsNext]_<<part, smtVars, poolVars, listVars, clientVars>> => SmtInvariant'
<1> SUFFICES ASSUME SmtInvariant, [PartsNext]_<<part, smtVars, poolVars, listVars, clientVars>>
             PROVE  SmtInvariant'
  OBVIOUS
<1>1. contents \in Maps /\ root = Sub(contents, 0, 0) /\ Complete(contents, nodes)
  BY DEF SmtInvariant
<1>2. SUFFICES contents' \in Maps /\ root' = Sub(contents', 0, 0) /\ Complete(contents', nodes')
  BY DEF SmtInvariant, Complete, Sub, ReferenceOf, RowOver, Under, Places, Zero, Leaf, Maps
<1>3. CASE UNCHANGED <<root, nodes, contents>>
  BY <1>1, <1>3
<1>4. ASSUME NEW key \in Keys, NEW value \in Values, NEW caller \in Accounts, Insert(caller, key, value)
      PROVE  contents' \in Maps /\ root' = Sub(contents', 0, 0) /\ Complete(contents', nodes')
  <2>1. Absent(key) /\ root' = InsertClimb(key, value).rt /\ nodes' = InsertClimb(key, value).nodes
        /\ contents' = With(contents, key, value)
    BY <1>4 DEF Insert, With
  <2>2. key \notin DOMAIN contents
    BY <1>1, <2>1, LookupIs
  <2>3. /\ With(contents, key, value) \in Maps
        /\ InsertClimb(key, value).rt = Way(With(contents, key, value), key, 0)
        /\ Complete(With(contents, key, value), InsertClimb(key, value).nodes)
    BY <1>1, <2>2, InsertIs, WithIs
  <2>4. QED
    BY <2>1, <2>3, WayTop
<1>5. ASSUME NEW key \in Keys, NEW value \in Values, NEW caller \in Accounts,
             ChangesValue(key, value), Update(caller, key, value)
      PROVE  contents' \in Maps /\ root' = Sub(contents', 0, 0) /\ Complete(contents', nodes')
  <2> DEFINE e == [contents EXCEPT ![key] = value]
  <2>1. root' = UpdateClimb(key, value).rt /\ nodes' = UpdateClimb(key, value).nodes /\ contents' = e
    BY <1>5 DEF Update
  <2>2. key \in DOMAIN contents /\ contents[key] # value
    BY <1>5 DEF ChangesValue
  <2>3. /\ e \in Maps /\ UpdateClimb(key, value).rt = Way(e, key, 0)
        /\ Complete(e, UpdateClimb(key, value).nodes)
    BY <1>1, <2>2, UpdateIs
  <2> HIDE DEF e
  <2>4. QED
    BY <2>1, <2>3, WayTop
<1>6. ASSUME NEW key \in Keys, NEW caller \in Accounts, Delete(caller, key)
      PROVE  contents' \in Maps /\ root' = Sub(contents', 0, 0) /\ Complete(contents', nodes')
  <2>1. Found(key) /\ root' = DeleteClimb(key).rt /\ nodes' = DeleteClimb(key).nodes
        /\ contents' = Without(contents, key)
    BY <1>6 DEF Delete, Without
  <2>2. key \in DOMAIN contents
    BY <1>1, <2>1, LookupIs
  <2>3. /\ Without(contents, key) \in Maps
        /\ DeleteClimb(key).rt = Way(Without(contents, key), key, 0)
        /\ Complete(Without(contents, key), DeleteClimb(key).nodes)
    BY <1>1, <2>2, DeleteIs, WithoutIs
  <2>4. QED
    BY <2>1, <2>3, WayTop
<1>7. CASE SmtStep
  <2>1. PICK caller \in Accounts :
          \/ \E key \in Keys, value \in Values :
               Insert(caller, key, value) \/ (ChangesValue(key, value) /\ Update(caller, key, value))
          \/ \E newAdmin \in Accounts : UpdateAdmin(caller, newAdmin)
          \/ \E key \in Keys : Delete(caller, key)
    BY <1>7 DEF SmtStep, CarefulNext
  <2>2. CASE \E newAdmin \in Accounts : UpdateAdmin(caller, newAdmin)
    BY <1>3, <2>2 DEF UpdateAdmin
  <2>3. QED
    BY <1>4, <1>5, <1>6, <2>1, <2>2
<1>8. CASE PoolInsert \/ ListUpdateAdmin \/ ListSetInsertOnly \/ ListInsertLeaf
           \/ ClientInsert \/ ClientUpdate \/ UNCHANGED <<part, smtVars, poolVars, listVars, clientVars>>
  <2>1. UNCHANGED smtVars
    BY <1>8 DEF PoolInsert, InPool, ListUpdateAdmin, ListSetInsertOnly, ListInsertLeaf, InList,
               ClientInsert, ClientUpdate, InClient
  <2>2. QED
    BY <1>3, <2>1 DEF smtVars
<1>9. QED
  BY <1>7, <1>8 DEF PartsNext

LEMMA SmtAlways == PartsSpec => []SmtInvariant
<1>1. QED
  BY SmtInit, SmtStepKeeps, PTL DEF PartsSpec

(***************************************************************************)
(* Whatever keys are blocked, updated and unblocked, and in whatever       *)
(* order, the root in storage is the root of the sparse Merkle tree of the *)
(* list alone (insert_leaf, update_leaf, delete_leaf), at any width of the *)
(* keys.                                                                   *)
(***************************************************************************)
THEOREM RootIsAlwaysCanonical == PartsSpec => []RootIsCanonical
<1>1. SmtInvariant => RootIsCanonical
  <2>1. ASSUME SmtInvariant PROVE root = ReferenceRoot
    <3>1. KeyBits - 0 = KeyBits
      BY KeysAre
    <3>2. root = ReferenceOf(contents)[KeyBits - 0][0]
      BY <2>1 DEF SmtInvariant, Sub
    <3>3. ReferenceRoot = ReferenceOf(contents)[KeyBits][0]
      BY ReferenceIsOf DEF ReferenceRoot
    <3>4. QED
      BY <3>1, <3>2, <3>3
  <2>2. QED
    BY <2>1 DEF RootIsCanonical
<1>2. QED
  BY <1>1, SmtAlways, PTL

(***************************************************************************)
(* Every node of the tree of the list is in storage: no insert, update or  *)
(* delete removes, with the old path, a node the new tree needs.           *)
(***************************************************************************)
THEOREM StateAlwaysComplete == PartsSpec => []StateComplete
<1>1. SmtInvariant => StateComplete
  <2>1. ASSUME SmtInvariant, NEW x \in ReferenceNodes PROVE x \in nodes
    <3>1. x # Zero /\ \E pos \in Positions : x = ReferenceOf(contents)[KeyBits - pos[1]][pos[2]]
      BY <2>1, ReferenceIsOf DEF ReferenceNodes
    <3>2. PICK pos \in Positions : x = ReferenceOf(contents)[KeyBits - pos[1]][pos[2]]
      BY <3>1
    <3> DEFINE l == pos[1]
               p == pos[2]
               d == 2 ^ l
    <3>3. l \in 0 .. KeyBits /\ p \in 0 .. 2 ^ KeyBits - 1 /\ p < d
      BY DEF Positions
    <3>4. l \in Nat /\ d \in Nat
      BY <3>3, KeysAre, PowerIs
    <3>5. p \in Places(l)
      <4> DEFINE w == 2 ^ KeyBits
      <4>1. w \in Nat
        BY KeysAre, PowerIs
      <4> HIDE DEF w, d, p
      <4>2. p \in 0 .. d - 1
        BY <3>3, <3>4, <4>1 DEF w
      <4>3. QED
        BY <4>2 DEF Places, d
    <3>6. x = Sub(contents, l, p)
      BY <3>2 DEF Sub
    <3> HIDE DEF l, p
    <3>7. QED
      BY <2>1, <3>1, <3>3, <3>5, <3>6 DEF SmtInvariant, Complete
  <2>2. QED
    BY <2>1 DEF StateComplete
<1>2. QED
  BY <1>1, SmtAlways, PTL

(***************************************************************************)
(* Who is not blocked can always prove it with what find_key returns: to   *)
(* the circuit as long as the path fits it, and to verify_non_membership   *)
(* as long as the path does not end at a leaf of value 0; who is blocked   *)
(* never can, neither with the own path nor with that of anyone else.      *)
(***************************************************************************)
THEOREM ProofsAlwaysDecideBlocking == PartsSpec => []ProofsDecideBlocking
<1>1. ASSUME SmtInvariant, NEW key \in Keys
      PROVE  /\ key \notin DOMAIN contents =>
                  /\ Absent(key)
                  /\ Depth(key) < SmtDepth => CircuitAccepts(key, ClientProof(key))
                  /\ EndOf(key) = Zero \/ EndOf(key)[3] # 0 =>
                       VerifyNonMembership(key, Siblings(key), EndOf(key))
             /\ key \in DOMAIN contents =>
                  /\ Found(key)
                  /\ \A other \in Keys : ~CircuitAccepts(key, ClientProof(other))
  <2>1. contents \in Maps /\ root = Sub(contents, 0, 0) /\ Complete(contents, nodes)
    BY <1>1 DEF SmtInvariant
  <2>2. \A k \in Keys : ClientProof(k) = ProofOf(contents, k)
    BY <2>1, LookupIs DEF ClientProof, ProofOf
  <2>3. \A proof : CircuitAccepts(key, proof) <=> Accepts(key, proof, root)
    BY DEF CircuitAccepts, Accepts
  <2>4. root = Way(contents, key, 0)
    BY <2>1, WayTop
  <2>5. Depth(key) = Turn(contents, key) /\ (Found(key) <=> key \in DOMAIN contents)
        /\ (Absent(key) <=> key \notin DOMAIN contents)
    BY <2>1, LookupIs
  <2>6. key \notin DOMAIN contents /\ Depth(key) < SmtDepth => CircuitAccepts(key, ClientProof(key))
    BY <2>1, <2>2, <2>3, <2>4, <2>5, AbsentAccepted
  <2>7. ASSUME key \in DOMAIN contents, NEW other \in Keys PROVE ~CircuitAccepts(key, ClientProof(other))
    BY <2>1, <2>2, <2>3, <2>4, <2>7, PresentRefused
  <2>8. ASSUME key \notin DOMAIN contents, EndOf(key) = Zero \/ EndOf(key)[3] # 0
        PROVE  VerifyNonMembership(key, Siblings(key), EndOf(key))
    <3>1. /\ Siblings(key) = Asides(contents, key)
          /\ EndOf(key) = Way(contents, key, Turn(contents, key))
      BY <2>1, LookupIs
    <3>2. RootFrom(key, Siblings(key), EndOf(key)) = root
      BY <2>1, <2>4, <3>1, AbsentVerified
    <3>3. EndOf(key) # Zero => EndOf(key)[2] # key
      BY <2>1, <2>8, <3>1, EndIs
    <3>4. QED
      BY <2>5, <2>8, <3>2, <3>3 DEF VerifyNonMembership
  <2>9. QED
    BY <2>5, <2>6, <2>7, <2>8
<1>2. SmtInvariant => ProofsDecideBlocking
  BY <1>1 DEF ProofsDecideBlocking
<1>3. QED
  BY <1>2, SmtAlways, PTL

-----------------------------------------------------------------------------
(* The client's tree: its operators are the contract's.                    *)

LEMMA ClientHashes ==
  /\ SparseMerkle!Zero = Zero /\ SparseMerkle!Contract!Zero = Zero
  /\ \A k, v : SparseMerkle!Contract!Leaf(k, v) = Leaf(k, v)
  /\ \A x : /\ SparseMerkle!Contract!IsLeaf(x) <=> IsLeaf(x)
            /\ SparseMerkle!Contract!IsInternal(x) <=> IsInternal(x)
  /\ \A k, l : SparseMerkle!Contract!Bit(k, l) = Bit(k, l)
  /\ \A k, l, s, x : SparseMerkle!Contract!Join(k, l, s, x) = Join(k, l, s, x)
  /\ \A k, o, l : SparseMerkle!Contract!CommonPrefix(k, o, l) = CommonPrefix(k, o, l)
  /\ \A s : SparseMerkle!Contract!Fit(s) = Fit(s)
  BY DEF SparseMerkle!Zero, SparseMerkle!Contract!Zero, Zero, SparseMerkle!Contract!Leaf, Leaf,
    SparseMerkle!Contract!IsLeaf, IsLeaf, SparseMerkle!Contract!IsInternal, IsInternal,
    SparseMerkle!Contract!Bit, Bit, SparseMerkle!Contract!Join, Join,
    SparseMerkle!Contract!CommonPrefix, CommonPrefix, SparseMerkle!Contract!Fit, Fit

LEMMA ClientReference == SparseMerkle!Contract!ReferenceRoot = Sub(entries, 0, 0)
<1>1. \A l, p : SparseMerkle!Contract!KeysUnder(p, l) = Under(entries, l, p)
  BY DEF SparseMerkle!Contract!KeysUnder, Under
<1>2. SparseMerkle!Contract!Reference = ReferenceOf(entries)
  BY DEF SparseMerkle!Contract!Reference, ReferenceOf, RowOver, SparseMerkle!Contract!KeysUnder, Under,
    SparseMerkle!Contract!Zero, Zero, SparseMerkle!Contract!Leaf, Leaf
<1>3. KeyBits - 0 = KeyBits
  BY KeysAre
<1>4. QED
  BY <1>2, <1>3 DEF SparseMerkle!Contract!ReferenceRoot, Sub

LEMMA ClientAccepts ==
  \A key, proof : SparseMerkle!Contract!CircuitAccepts(key, proof) <=> Accepts(key, proof, top)
<1>1. \A s : SparseMerkle!Contract!UsedDepth(s) = UsedDepth(s)
  BY DEF SparseMerkle!Contract!UsedDepth, UsedDepth, SparseMerkle!Contract!Zero, Zero
<1>2. \A k, s, x : SparseMerkle!Contract!RootFrom(k, s, x) = RootFrom(k, s, x)
  BY DEF SparseMerkle!Contract!RootFrom, RootFrom, SparseMerkle!Contract!Join, Join,
    SparseMerkle!Contract!Bit, Bit
<1>3. QED
  BY <1>1, <1>2 DEF SparseMerkle!Contract!CircuitAccepts, Accepts, SparseMerkle!Contract!Zero, Zero

-----------------------------------------------------------------------------
(* find.                                                                   *)

\* The siblings passed down to a level.
FirstAsides(c, k, n) == [i \in 1 .. n |-> Aside(c, k, i - 1)]

LEMMA FirstAsidesAre ==
  ASSUME NEW c, NEW k, NEW n \in Nat
  PROVE  /\ Len(FirstAsides(c, k, n)) = n
         /\ FirstAsides(c, k, n + 1) = Append(FirstAsides(c, k, n), Aside(c, k, n))
<1> DEFINE s == FirstAsides(c, k, n)
           q == FirstAsides(c, k, n + 1)
           a(i) == Aside(c, k, i - 1)
           S == {a(i) : i \in 1 .. n + 1}
<1>1. s = [i \in 1 .. n |-> a(i)] /\ q = [i \in 1 .. n + 1 |-> a(i)]
  BY DEF FirstAsides
<1>2. a(n + 1) = Aside(c, k, n)
  <2>1. (n + 1) - 1 = n
    OBVIOUS
  <2>2. QED
    BY <2>1
<1> HIDE DEF s, q, a
<1>3. s \in Seq(S) /\ Len(s) = n
  <2>1. \A i \in 1 .. n : a(i) \in S
    OBVIOUS
  <2> HIDE DEF S
  <2>2. QED
    BY <1>1, <2>1
<1>4. q = Append(s, a(n + 1))
  <2>1. a(n + 1) \in S /\ \A i \in 1 .. n + 1 : a(i) \in S
    OBVIOUS
  <2> HIDE DEF S
  <2>2. q \in Seq(S) /\ Len(q) = n + 1
    BY <1>1, <2>1
  <2>3. Append(s, a(n + 1)) \in Seq(S) /\ Len(Append(s, a(n + 1))) = n + 1
    BY <1>3, <2>1
  <2>4. ASSUME NEW i \in 1 .. n + 1 PROVE q[i] = Append(s, a(n + 1))[i]
    <3>1. q[i] = a(i)
      BY <1>1
    <3>2. CASE i = n + 1
      BY <1>3, <2>1, <3>1, <3>2
    <3>3. CASE i # n + 1
      <4>1. i \in 1 .. n
        BY <3>3
      <4>2. s[i] = a(i)
        BY <1>1, <4>1
      <4>3. QED
        BY <1>3, <2>1, <3>1, <4>1, <4>2
    <3>4. QED
      BY <3>2, <3>3
  <2> HIDE DEF a
  <2>5. QED
    BY <2>2, <2>3, <2>4, SeqEqual
<1>5. QED
  BY <1>2, <1>3, <1>4 DEF s, q

ClientInvariant ==
  entries \in Maps /\ top = Sub(entries, 0, 0) /\ Complete(entries, db)

LEMMA FindIs ==
  ASSUME ClientInvariant, NEW key \in Keys
  PROVE  LET find == SparseMerkle!Find(key)
         IN  /\ find.siblings = Asides(entries, key)
             /\ find.end = Way(entries, key, Turn(entries, key))
             /\ find.stored
             /\ find.found <=> key \in DOMAIN entries
<1> DEFINE t == Turn(entries, key)
           W(l) == Way(entries, key, l)
           State(l) == [hash |-> W(l), siblings |-> FirstAsides(entries, key, l)]
           Descend(above) ==
             LET bit == Bit(key, Len(above.siblings))
             IN  IF above.hash \in db /\ IsInternal(above.hash)
                 THEN [hash |-> above.hash[1 + bit],
                       siblings |-> Append(above.siblings, above.hash[2 - bit])]
                 ELSE above
           first == [hash |-> top, siblings |-> <<>>]
           Is(z) == z = [lvl \in 0 .. KeyBits |-> IF lvl = 0 THEN first ELSE Descend(z[lvl - 1])]
           at == CHOOSE z : Is(z)
           end == at[KeyBits]
           z0 == [lvl \in 0 .. KeyBits |-> IF lvl <= t THEN State(lvl) ELSE State(t)]
<1>0. entries \in Maps /\ top = Sub(entries, 0, 0) /\ Complete(entries, db)
  BY DEF ClientInvariant
<1>1. KeyBits \in Nat /\ t \in 0 .. KeyBits /\ t \in Nat
  BY <1>0, KeysAre, TurnIs
<1>2. SparseMerkle!Find(key) =
        [siblings |-> end.siblings, end |-> end.hash,
         stored |-> end.hash = Zero \/ (end.hash \in db /\ IsLeaf(end.hash)),
         found |-> end.hash # Zero /\ end.hash[2] = key]
  BY DEF SparseMerkle!Find, SparseMerkle!Contract!Bit, Bit, SparseMerkle!Zero, SparseMerkle!Contract!Zero,
    Zero, SparseMerkle!Contract!IsInternal, IsInternal, SparseMerkle!Contract!IsLeaf, IsLeaf
<1>3. State(0) = first
  <2>1. W(0) = top
    BY <1>0, WayTop
  <2>2. FirstAsides(entries, key, 0) = <<>>
    <3>1. 1 .. 0 = {}
      OBVIOUS
    <3>2. QED
      BY <3>1 DEF FirstAsides
  <2>3. QED
    BY <2>1, <2>2
<1>4. ASSUME NEW l \in 0 .. t - 1 PROVE Descend(State(l)) = State(l + 1)
  <2>1. l \in 0 .. KeyBits /\ l \in Nat /\ l < t
    BY <1>1
  <2>2. Many(OnWay(entries, key, l))
    BY <1>0, <2>1, TurnIs
  <2>3. IsInternal(W(l)) /\ W(l) # Zero
    BY <1>0, <2>1, <2>2, WayKinds DEF IsInternal, Zero
  <2>4. key % 2 ^ l \in Places(l)
    BY <2>1, WayDown
  <2>5. W(l) \in db
    BY <1>0, <2>1, <2>3, <2>4 DEF Complete, Way
  <2>6. W(l)[1 + Bit(key, l)] = W(l + 1) /\ W(l)[2 - Bit(key, l)] = Aside(entries, key, l)
    BY <1>0, <2>1, <2>2, WayJoin
  <2>7. /\ Len(FirstAsides(entries, key, l)) = l
        /\ FirstAsides(entries, key, l + 1)
             = Append(FirstAsides(entries, key, l), Aside(entries, key, l))
    BY <2>1, FirstAsidesAre
  <2> HIDE DEF W
  <2>8. State(l).hash = W(l) /\ State(l).siblings = FirstAsides(entries, key, l)
    OBVIOUS
  <2>9. State(l + 1) = [hash |-> W(l + 1), siblings |-> FirstAsides(entries, key, l + 1)]
    OBVIOUS
  <2> HIDE DEF State
  <2>10. QED
    BY <2>3, <2>5, <2>6, <2>7, <2>8, <2>9
<1>5. Descend(State(t)) = State(t)
  <2>1. ~IsInternal(W(t))
    BY <1>0, <1>1, TurnIs, WayKinds
  <2> HIDE DEF W
  <2>2. State(t).hash = W(t)
    OBVIOUS
  <2>3. QED
    BY <2>1, <2>2
<1> HIDE DEF t, State, Descend, first
<1>6. Is(z0)
  <2>1. ASSUME NEW lvl \in 0 .. KeyBits
        PROVE  z0[lvl] = IF lvl = 0 THEN first ELSE Descend(z0[lvl - 1])
    <3>1. CASE lvl = 0
      BY <1>1, <1>3, <3>1
    <3>2. CASE lvl # 0 /\ lvl <= t
      <4>1. lvl - 1 \in 0 .. t - 1 /\ lvl - 1 \in 0 .. KeyBits /\ (lvl - 1) + 1 = lvl /\ lvl - 1 <= t
        BY <1>1, <3>2
      <4>2. z0[lvl] = State(lvl) /\ z0[lvl - 1] = State(lvl - 1)
        BY <3>2, <4>1
      <4>3. Descend(State(lvl - 1)) = State(lvl)
        BY <1>4, <4>1
      <4> HIDE DEF z0
      <4>4. QED
        BY <3>2, <4>2, <4>3
    <3>3. CASE ~(lvl <= t)
      <4>1. lvl - 1 \in 0 .. KeyBits /\ lvl # 0 /\ (lvl - 1 <= t => lvl - 1 = t)
        BY <1>1, <3>3
      <4>2. z0[lvl] = State(t) /\ z0[lvl - 1] = State(t)
        BY <3>3, <4>1
      <4> HIDE DEF z0
      <4>3. QED
        BY <1>5, <4>1, <4>2
    <3>4. QED
      BY <3>1, <3>2, <3>3
  <2>2. z0 = [lvl \in 0 .. KeyBits |-> z0[lvl]]
    OBVIOUS
  <2> HIDE DEF z0
  <2>3. QED
    BY <2>1, <2>2
<1>7. Is(at)
  <2> HIDE DEF Is, z0
  <2>1. QED
    BY <1>6
<1> HIDE DEF at
<1> DEFINE S == {l \in 0 .. KeyBits : at[l] = z0[l]}
<1>8. 0 \in S
  <2>1. at[0] = first
    BY <1>1, <1>7
  <2>2. z0[0] = first
    <3> HIDE DEF z0
    <3>1. QED
      BY <1>1, <1>6
  <2>3. QED
    BY <1>1, <2>1, <2>2
<1>9. ASSUME NEW l \in 0 .. KeyBits - 1, l \in S PROVE l + 1 \in S
  <2>1. l + 1 \in 0 .. KeyBits /\ l + 1 # 0 /\ (l + 1) - 1 = l
    BY <1>1
  <2>2. at[l + 1] = Descend(at[l])
    BY <1>7, <2>1
  <2> HIDE DEF z0
  <2>3. z0[l + 1] = Descend(z0[l])
    BY <1>6, <2>1
  <2>4. at[l] = z0[l]
    BY <1>9
  <2>5. QED
    BY <2>1, <2>2, <2>3, <2>4
<1> HIDE DEF S
<1>10. end = State(t)
  <2>1. \A l \in 0 .. KeyBits : l \in S
    BY <1>1, <1>8, <1>9, Climb
  <2>2. KeyBits \in 0 .. KeyBits
    BY <1>1
  <2>3. at[KeyBits] = z0[KeyBits]
    BY <2>1, <2>2 DEF S
  <2>4. z0[KeyBits] = State(t)
    BY <1>1, <2>2
  <2>5. QED
    BY <2>3, <2>4
<1> HIDE DEF end, W
<1>11. end.hash = W(t) /\ end.siblings = FirstAsides(entries, key, t)
  BY <1>10 DEF State
<1>12. FirstAsides(entries, key, t) = Asides(entries, key)
  BY DEF FirstAsides, Asides, t
<1>13. /\ W(t) = Zero \/ \E a \in DOMAIN entries : W(t) = Leaf(a, entries[a])
       /\ key \in DOMAIN entries <=> W(t) # Zero /\ W(t)[2] = key
  BY <1>0, EndIs DEF t, W
<1>14. W(t) = Zero \/ (W(t) \in db /\ IsLeaf(W(t)))
  <2>1. key % 2 ^ t \in Places(t)
    BY <1>1, WayDown
  <2>2. W(t) = Zero \/ W(t) \in db
    BY <1>0, <1>1, <2>1 DEF Complete, Way, W
  <2>3. \A a, v : IsLeaf(Leaf(a, v))
    BY DEF IsLeaf, Leaf
  <2>4. QED
    BY <1>13, <2>2, <2>3
<1> DEFINE find == SparseMerkle!Find(key)
<1>15. /\ find.siblings = end.siblings /\ find.end = end.hash
       /\ find.stored = (end.hash = Zero \/ (end.hash \in db /\ IsLeaf(end.hash)))
       /\ find.found = (end.hash # Zero /\ end.hash[2] = key)
  BY <1>2
<1> HIDE DEF find
<1>16. find.siblings = Asides(entries, key) /\ find.end = W(t)
  BY <1>11, <1>12, <1>15
<1>17. find.stored
  BY <1>11, <1>14, <1>15
<1>18. find.found <=> key \in DOMAIN entries
  BY <1>11, <1>13, <1>15
<1>19. QED
  BY <1>16, <1>17, <1>18 DEF find, W, t

-----------------------------------------------------------------------------
(* insert and update.                                                      *)

LEMMA RebuiltIs ==
  ASSUME NEW key, NEW value, NEW sibs, Len(sibs) \in Nat
  PROVE  LET hash == SparseMerkle!Rebuilt(key, value, sibs)
             n == Len(sibs)
         IN  /\ DOMAIN hash = 0 .. n
             /\ \A i \in 0 .. n :
                  hash[i] = IF i = n THEN Leaf(key, value)
                            ELSE Join(key, i, sibs[i + 1], hash[i + 1])
<1> DEFINE n == Len(sibs)
           Level(z, i) == IF i = n THEN Leaf(key, value) ELSE Join(key, i, sibs[i + 1], z[i + 1])
<1> DEFINE Is(z, j) == z = [i \in n - j .. n |-> Level(z, i)]
           S == {j \in 0 .. n : \E z : Is(z, j)}
<1>1. ASSUME NEW z, NEW y, NEW i, i # n => z[i + 1] = y[i + 1]
      PROVE  Level(z, i) = Level(y, i)
  BY <1>1
<1>2. n \in Nat
  OBVIOUS
<1>3. SparseMerkle!Rebuilt(key, value, sibs) = CHOOSE z : z = [i \in 0 .. n |-> Level(z, i)]
  BY DEF SparseMerkle!Rebuilt, SparseMerkle!Contract!Leaf, Leaf,
    SparseMerkle!Contract!Join, Join, SparseMerkle!Contract!Bit, Bit
<1> HIDE DEF n, Level
<1>4. 0 \in S
  <2> DEFINE z == [i \in n .. n |-> Level(0, i)]
  <2>1. \A i \in n .. n : i = n
    BY <1>2
  <2>2. z = [i \in n .. n |-> Level(z, i)]
    <3>1. ASSUME NEW i \in n .. n PROVE Level(0, i) = Level(z, i)
      <4> HIDE DEF z
      <4>1. QED
        BY <1>1, <2>1
    <3>2. QED
      BY <3>1
  <2> HIDE DEF z
  <2>3. n - 0 = n
    BY <1>2
  <2>4. Is(z, 0)
    BY <2>2, <2>3
  <2> HIDE DEF Is
  <2>5. QED
    BY <1>2, <2>4
<1>5. ASSUME NEW j \in 0 .. n - 1, j \in S PROVE j + 1 \in S
  <2> DEFINE m == n - (j + 1)
  <2>1. PICK z : Is(z, j)
    BY <1>5
  <2>2. m \in Nat /\ m # n /\ m + 1 = n - j /\ j + 1 \in 0 .. n
        /\ \A i \in m .. n : i = m \/ (i \in m + 1 .. n /\ i # m /\ (i # n => i + 1 \in m + 1 .. n /\ i + 1 # m))
    BY <1>2
  <2>3. m + 1 \in m .. n /\ m + 1 # m /\ m \in m .. n
    BY <1>2
  <2> HIDE DEF m
  <2> DEFINE y == [i \in m .. n |-> IF i = m THEN Level(z, i) ELSE z[i]]
  <2>4. ASSUME NEW i \in m .. n PROVE y[i] = Level(y, i)
    <3>1. CASE i = m
      <4>1. y[i] = Level(z, i) /\ y[i + 1] = z[i + 1]
        BY <2>3, <3>1
      <4> HIDE DEF y
      <4>2. Level(z, i) = Level(y, i)
        BY <1>1, <4>1
      <4>3. QED
        BY <4>1, <4>2
    <3>2. CASE i # m
      <4>1. i \in m + 1 .. n /\ (i # n => i + 1 \in m + 1 .. n /\ i + 1 # m)
        BY <2>2, <3>2
      <4>2. \A k \in m + 1 .. n : k \in m .. n
        BY <2>2
      <4>3. y[i] = z[i] /\ (i # n => y[i + 1] = z[i + 1])
        BY <3>2, <4>1, <4>2
      <4>4. z[i] = Level(z, i)
        BY <2>1, <2>2, <4>1
      <4> HIDE DEF y
      <4>5. Level(z, i) = Level(y, i)
        BY <1>1, <4>3
      <4>6. QED
        BY <4>3, <4>4, <4>5
    <3>3. QED
      BY <3>1, <3>2
  <2>5. y = [i \in m .. n |-> Level(y, i)]
    <3>1. y = [i \in m .. n |-> y[i]]
      OBVIOUS
    <3> HIDE DEF y
    <3>2. QED
      BY <2>4, <3>1
  <2> HIDE DEF y
  <2>6. Is(y, j + 1)
    BY <2>5 DEF m
  <2> HIDE DEF Is
  <2>7. QED
    BY <2>2, <2>6
<1> HIDE DEF S
<1>6. n \in S
  <2>1. \A j \in 0 .. n : j \in S
    BY <1>2, <1>4, <1>5, Climb
  <2>2. QED
    BY <1>2, <2>1
<1>7. PICK z : Is(z, n)
  BY <1>6 DEF S
<1>8. n - n = 0
  BY <1>2
<1> DEFINE f == CHOOSE y : y = [i \in 0 .. n |-> Level(y, i)]
<1>9. f = [i \in 0 .. n |-> Level(f, i)]
  <2>1. z = [i \in 0 .. n |-> Level(z, i)]
    BY <1>7, <1>8
  <2>2. QED
    BY <2>1
<1>10. SparseMerkle!Rebuilt(key, value, sibs) = f
  BY <1>3
<1> HIDE DEF f
<1>11. DOMAIN f = 0 .. n /\ \A i \in 0 .. n : f[i] = Level(f, i)
  BY <1>9
<1>12. QED
  BY <1>10, <1>11 DEF n, Level

\* A put over the siblings of the new tree makes the new tree.
LEMMA PutIs ==
  ASSUME ClientInvariant, NEW key \in Keys, NEW value \in Values, NEW sibs,
         Len(sibs) \in 0 .. KeyBits, Len(sibs) = Turn(With(entries, key, value), key),
         \A i \in 0 .. Len(sibs) - 1 : sibs[i + 1] = Aside(With(entries, key, value), key, i),
         SparseMerkle!Put(key, value, sibs)
  PROVE  /\ entries' = With(entries, key, value)
         /\ entries' \in Maps /\ top' = Sub(entries', 0, 0) /\ Complete(entries', db')
<1> DEFINE e == With(entries, key, value)
           n == Len(sibs)
           hash == SparseMerkle!Rebuilt(key, value, sibs)
<1>1. entries \in Maps /\ Complete(entries, db)
  BY DEF ClientInvariant
<1>2. KeyBits \in Nat /\ n \in Nat /\ n \in 0 .. KeyBits /\ n = Turn(e, key)
      /\ \A i \in 0 .. n : i \in 0 .. KeyBits
  BY KeysAre
<1>3. /\ DOMAIN hash = 0 .. n
      /\ \A i \in 0 .. n : hash[i] = IF i = n THEN Leaf(key, value)
                                     ELSE Join(key, i, sibs[i + 1], hash[i + 1])
  BY <1>2, RebuiltIs
<1>4. e \in Maps /\ key \in DOMAIN e /\ Apart(entries, e, key)
  BY <1>1, WithIs
<1>5. e[key] = value
  BY DEF With
<1>6. top' = hash[0] /\ db' = db \cup {hash[i] : i \in 0 .. n} /\ entries' = e
  BY <1>3 DEF SparseMerkle!Put, With
<1>7. \A i \in 0 .. n - 1 : sibs[i + 1] = Aside(e, key, i)
  OBVIOUS
<1> HIDE DEF e, n, hash
<1>8. \A i \in 0 .. n : hash[i] = Way(e, key, i)
  <2>1. hash[n] = Way(e, key, n)
    <3>1. Way(e, key, Turn(e, key)) = Leaf(key, e[key])
      BY <1>4, EndIs
    <3>2. n \in 0 .. n
      BY <1>2
    <3>3. hash[n] = Leaf(key, value)
      BY <1>3, <3>2
    <3>4. QED
      BY <1>2, <1>5, <3>1, <3>3
  <2>2. ASSUME NEW i \in 0 .. n - 1
        PROVE  Many(OnWay(e, key, i)) /\ hash[i] = Join(key, i, Aside(e, key, i), hash[i + 1])
    <3>1. i \in 0 .. n /\ i # n /\ i < n /\ i \in 0 .. KeyBits
      BY <1>2
    <3>2. Many(OnWay(e, key, i))
      BY <1>2, <1>4, <3>1, TurnIs
    <3>3. hash[i] = Join(key, i, sibs[i + 1], hash[i + 1])
      BY <1>3, <3>1
    <3>4. QED
      BY <1>7, <3>2, <3>3
  <2>3. QED
    BY <1>2, <1>4, <2>1, <2>2, ClimbsWay
<1>9. Complete(e, db')
  <2>1. \A x \in db : x \in db'
    BY <1>6
  <2>2. \A i \in 0 .. Turn(e, key) : Way(e, key, i) \in db'
    BY <1>2, <1>6, <1>8
  <2>3. QED
    BY <1>1, <1>4, <2>1, <2>2, KeepsComplete
<1>10. top' = Sub(e, 0, 0)
  <2>1. 0 \in 0 .. n
    BY <1>2
  <2>2. QED
    BY <1>6, <1>8, <2>1, WayTop
<1>11. QED
  BY <1>4, <1>6, <1>9, <1>10 DEF e

\* The siblings of a key are those it has once its value has changed.
LEMMA SameAsides ==
  ASSUME NEW c \in Maps, NEW key \in DOMAIN c, NEW value \in Values
  PROVE  LET e == With(c, key, value)
         IN  /\ Turn(e, key) = Turn(c, key)
             /\ \A i \in 0 .. Turn(c, key) - 1 : Asides(c, key)[i + 1] = Aside(e, key, i)
<1> DEFINE e == With(c, key, value)
           t == Turn(c, key)
<1>1. key \in Keys
  BY MapsAre
<1>2. e \in Maps /\ Apart(c, e, key)
  BY <1>1, WithIs
<1>3. DOMAIN e = DOMAIN c
  BY DEF With
<1>4. KeyBits \in Nat /\ t \in 0 .. KeyBits
  BY <1>1, KeysAre, TurnIs
<1>5. \A l : OnWay(e, key, l) = OnWay(c, key, l)
  BY <1>3 DEF OnWay, Under
<1>6. Turn(e, key) = t
  BY <1>5 DEF Turn, Ends
<1>7. ASSUME NEW i \in 0 .. t - 1 PROVE Asides(c, key)[i + 1] = Aside(e, key, i)
  <2>1. i \in 0 .. KeyBits - 1
    BY <1>4
  <2> HIDE DEF e
  <2>2. Aside(c, key, i) = Aside(e, key, i)
    BY <1>1, <1>2, <2>1, AsideKept
  <2>3. Asides(c, key)[i + 1] = Aside(c, key, i)
    BY <1>1, AsidesAre
  <2>4. QED
    BY <2>2, <2>3
<1>8. QED
  BY <1>6, <1>7

LEMMA ClientInit == PartsInit => ClientInvariant
<1> SUFFICES ASSUME PartsInit PROVE ClientInvariant
  OBVIOUS
<1>1. top = Zero /\ db = {} /\ entries = [k \in {} |-> 0]
  BY ClientHashes DEF PartsInit, SparseMerkle!New
<1>2. entries \in Maps /\ Sub(entries, 0, 0) = Zero /\ Complete(entries, db)
  BY <1>1, EmptySparse
<1>3. QED
  BY <1>1, <1>2 DEF ClientInvariant

LEMMA ClientStepKeeps ==
  ClientInvariant /\ [PartsNext]_<<part, smtVars, poolVars, listVars, clientVars>> => ClientInvariant'
<1> SUFFICES ASSUME ClientInvariant, [PartsNext]_<<part, smtVars, poolVars, listVars, clientVars>>
             PROVE  ClientInvariant'
  OBVIOUS
<1>1. entries \in Maps /\ top = Sub(entries, 0, 0) /\ Complete(entries, db)
  BY DEF ClientInvariant
<1>2. SUFFICES entries' \in Maps /\ top' = Sub(entries', 0, 0) /\ Complete(entries', db')
  BY DEF ClientInvariant, Complete, Sub, ReferenceOf, RowOver, Under, Places, Zero, Leaf, Maps
<1>3. CASE UNCHANGED clientVars
  BY <1>1, <1>3 DEF clientVars
<1>4. ASSUME NEW key \in Keys, NEW value \in Values, SparseMerkle!Insert(key, value)
      PROVE  entries' \in Maps /\ top' = Sub(entries', 0, 0) /\ Complete(entries', db')
  <2> DEFINE find == SparseMerkle!Find(key)
             sibs == SparseMerkle!Extended(key, find)
             t == Turn(entries, key)
  <2>1. ~find.found /\ SparseMerkle!Put(key, value, sibs)
    BY <1>4 DEF SparseMerkle!Insert
  <2>2. /\ find.siblings = Asides(entries, key) /\ find.end = Way(entries, key, t)
        /\ find.found <=> key \in DOMAIN entries
    BY FindIs
  <2>3. key \in Keys \ DOMAIN entries
    BY <2>1, <2>2
  <2>4. Len(Asides(entries, key)) = t
    BY <1>1, AsidesAre
  <2> HIDE DEF find
  <2>5. sibs = Opened(entries, key)
    BY <2>2, <2>4, ClientHashes DEF SparseMerkle!Extended, Opened
  <2> HIDE DEF sibs, t
  <2>6. /\ Len(sibs) \in 0 .. KeyBits /\ Len(sibs) = Turn(With(entries, key, value), key)
        /\ \A i \in 0 .. Len(sibs) - 1 : sibs[i + 1] = Aside(With(entries, key, value), key, i)
    BY <1>1, <2>3, <2>5, OpenedIs
  <2>7. QED
    BY <2>1, <2>6, PutIs
<1>5. ASSUME NEW key \in Keys, NEW value \in Values, SparseMerkle!Update(key, value)
      PROVE  entries' \in Maps /\ top' = Sub(entries', 0, 0) /\ Complete(entries', db')
  <2> DEFINE find == SparseMerkle!Find(key)
             sibs == Asides(entries, key)
  <2>1. find.found /\ SparseMerkle!Put(key, value, find.siblings)
    BY <1>5 DEF SparseMerkle!Update
  <2>2. find.siblings = sibs /\ (find.found <=> key \in DOMAIN entries)
    BY FindIs
  <2>3. Len(sibs) = Turn(entries, key) /\ Turn(entries, key) \in 0 .. KeyBits
    BY <1>1, AsidesAre, TurnIs
  <2>4. /\ Turn(With(entries, key, value), key) = Turn(entries, key)
        /\ \A i \in 0 .. Turn(entries, key) - 1 : sibs[i + 1] = Aside(With(entries, key, value), key, i)
    BY <1>1, <2>1, <2>2, SameAsides
  <2> HIDE DEF find, sibs
  <2>5. QED
    BY <2>1, <2>2, <2>3, <2>4, PutIs
<1>6. CASE ClientInsert
  BY <1>4, <1>6 DEF ClientInsert
<1>7. CASE ClientUpdate
  BY <1>5, <1>7 DEF ClientUpdate
<1>8. CASE PoolInsert \/ ListUpdateAdmin \/ ListSetInsertOnly \/ ListInsertLeaf \/ SmtStep
           \/ UNCHANGED <<part, smtVars, poolVars, listVars, clientVars>>
  <2>1. UNCHANGED clientVars
    BY <1>8 DEF PoolInsert, InPool, ListUpdateAdmin, ListSetInsertOnly, ListInsertLeaf, InList,
               SmtStep, InSmt
  <2>2. QED
    BY <1>3, <2>1
<1>9. QED
  BY <1>6, <1>7, <1>8 DEF PartsNext

LEMMA ClientAlways == PartsSpec => []ClientInvariant
<1>1. QED
  BY ClientInit, ClientStepKeeps, PTL DEF PartsSpec

(***************************************************************************)
(* A client that inserts and updates the blocked keys in any order, and    *)
(* keeps the nodes of every earlier tree, has the root of the contract's   *)
(* tree over the same pairs, finds the value of every key in it and no     *)
(* other, and gets from get_proof what the circuit accepts exactly for the *)
(* keys that are absent, wherever the path fits the circuit.               *)
(***************************************************************************)
THEOREM ClientTreeAlwaysAgrees == PartsSpec => []ClientTreeAgrees
<1>1. ASSUME ClientInvariant, NEW key \in Keys
      PROVE  LET find == SparseMerkle!Find(key)
             IN  /\ find.stored
                 /\ find.found <=> key \in DOMAIN entries
                 /\ find.found => find.end[3] = entries[key]
                 /\ Len(find.siblings) < SmtDepth =>
                      (SparseMerkle!Contract!CircuitAccepts(key, SparseMerkle!GetProof(key))
                         <=> ~find.found)
  <2> DEFINE find == SparseMerkle!Find(key)
             t == Turn(entries, key)
             proof == SparseMerkle!GetProof(key)
  <2>1. entries \in Maps /\ top = Sub(entries, 0, 0) /\ Complete(entries, db)
    BY <1>1 DEF ClientInvariant
  <2>2. /\ find.siblings = Asides(entries, key) /\ find.end = Way(entries, key, t)
        /\ find.stored
        /\ find.found <=> key \in DOMAIN entries
    BY <1>1, FindIs
  <2>3. Len(Asides(entries, key)) = t
    BY <2>1, AsidesAre
  <2>4. proof = ProofOf(entries, key)
    BY <2>2, ClientHashes DEF SparseMerkle!GetProof, ProofOf
  <2>5. SparseMerkle!Contract!CircuitAccepts(key, proof) <=> Accepts(key, ProofOf(entries, key), top)
    BY <2>4, ClientAccepts
  <2>6. top = Way(entries, key, 0)
    BY <2>1, WayTop
  <2> HIDE DEF find, proof
  <2>7. ASSUME find.found PROVE find.end[3] = entries[key]
    <3>1. Way(entries, key, t) = Leaf(key, entries[key])
      BY <2>1, <2>2, <2>7, EndIs
    <3>2. Leaf(key, entries[key])[3] = entries[key]
      BY DEF Leaf
    <3>3. QED
      BY <2>2, <3>1, <3>2
  <2>8. ASSUME find.found PROVE ~SparseMerkle!Contract!CircuitAccepts(key, proof)
    BY <2>1, <2>2, <2>5, <2>6, <2>8, PresentRefused
  <2>9. ASSUME ~find.found, Len(find.siblings) < SmtDepth
        PROVE  SparseMerkle!Contract!CircuitAccepts(key, proof)
    <3>1. t < SmtDepth /\ key \in Keys \ DOMAIN entries
      BY <2>2, <2>3, <2>9
    <3>2. Accepts(key, ProofOf(entries, key), top)
      BY <2>1, <2>6, <3>1, AbsentAccepted
    <3>3. QED
      BY <2>5, <3>2
  <2>10. QED
    BY <2>2, <2>7, <2>8, <2>9 DEF find, proof
<1>2. ClientInvariant => ClientTreeAgrees
  <2>1. ASSUME ClientInvariant PROVE top = SparseMerkle!Contract!ReferenceRoot
    BY <2>1, ClientReference DEF ClientInvariant
  <2>2. ASSUME ClientInvariant PROVE SparseMerkle!ClientTreeAgrees
    BY <1>1, <2>1, <2>2 DEF SparseMerkle!ClientTreeAgrees
  <2>3. QED
    BY <2>2 DEF ClientTreeAgrees
<1>3. QED
  BY <1>2, ClientAlways, PTL
=============================================================================
