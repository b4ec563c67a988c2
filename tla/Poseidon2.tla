------------------------------ MODULE Poseidon2 ------------------------------
(***************************************************************************)
(* The hash of the system, written three times: over whole states in the   *)
(* library the client uses (poseidon2/), as signals in the circuits        *)
(* (poseidon2_perm.circom), and as a call of the host in the contracts     *)
(* (soroban-utils).  A root or a nullifier one of them computes is checked *)
(* by the others.  The three run side by side here, a round at a time.     *)
(*                                                                         *)
(* The table of round constants and the diagonal of width 4 are numbers    *)
(* like any other; circuits and contracts hold the same ones in a layout   *)
(* of their own.  Widths above 4 are not used by the system.               *)
(***************************************************************************)
EXTENDS Integers, Sequences

CONSTANTS
  Modulus,         \* of the field
  HalfFull,        \* rounds_f_div_2
  Partial,         \* rounds_p
  RoundConstants,  \* width -> round -> place -> number
  Diagonal4        \* mat_internal_diag_m_1 of width 4

Rounds == 2 * HalfFull + Partial
Widths == 2 .. 4

ASSUME FieldAssumption ==
  /\ Modulus \in Nat \ {0} /\ HalfFull \in Nat /\ Partial \in Nat
  /\ RoundConstants \in [Widths -> [0 .. Rounds - 1 -> [1 .. 4 -> Int]]]
  /\ Diagonal4 \in [1 .. 4 -> Int]

VARIABLES
  t,              \* the width
  input,
  round,
  current_state,  \* the library's
  aux,            \* the circuit's
  host            \* the host's

vars == <<t, input, round, current_state, aux, host>>

Field == 0 .. Modulus - 1
Fe(x) == x % Modulus

\* The sum of a state of width w.
Total(w, s) ==
  CASE w = 2 -> s[1] + s[2]
    [] w = 3 -> s[1] + s[2] + s[3]
    [] w = 4 -> s[1] + s[2] + s[3] + s[4]

-----------------------------------------------------------------------------
(* The library.                                                            *)

\* sbox_p with d = 5.
SboxP(x) == LET square == Fe(x * x) IN Fe(Fe(square * square) * x)

Sbox(w, s) == [j \in 1 .. w |-> SboxP(s[j])]

AddRc(w, s, rc) == [j \in 1 .. w |-> Fe(s[j] + rc[j])]

MatmulM4(s) ==
  LET t0 == s[1] + s[2]
      t1 == s[3] + s[4]
      t2 == 2 * s[2] + t1
      t3 == 2 * s[4] + t0
      t4 == 4 * t1 + t3
      t5 == 4 * t0 + t2
  IN  [j \in 1 .. 4 |-> Fe(CASE j = 1 -> t3 + t5 [] j = 2 -> t5 [] j = 3 -> t2 + t4 [] j = 4 -> t4)]

MatmulExternal(w, s) ==
  IF w = 4 THEN MatmulM4(s) ELSE [j \in 1 .. w |-> Fe(s[j] + Total(w, s))]

\* Variant: the last element is not doubled.
PlainInternal(w, s) ==
  IF w = 4 THEN [j \in 1 .. 4 |-> Fe(s[j] * Diagonal4[j] + Total(w, s))]
  ELSE [j \in 1 .. w |-> Fe(s[j] + Total(w, s))]

\* Widths 2 and 3 double the last element instead of using the diagonal.
MatmulInternal(w, s) ==
  IF w = 4 THEN [j \in 1 .. 4 |-> Fe(s[j] * Diagonal4[j] + Total(w, s))]
  ELSE [j \in 1 .. w |-> Fe((IF j = w THEN 2 * s[j] ELSE s[j]) + Total(w, s))]

InPartial(r) == r \in HalfFull .. HalfFull + Partial - 1

\* permutation, a pass of one of its three loops.
LibraryRound(w, s, r) ==
  LET rc == RoundConstants[w][r]
  IN  IF InPartial(r)
      THEN MatmulInternal(w, [s EXCEPT ![1] = SboxP(Fe(s[1] + rc[1]))])
      ELSE MatmulExternal(w, Sbox(w, AddRc(w, s, rc)))

-----------------------------------------------------------------------------
(* The circuits.                                                           *)

\* POSEIDON_FULL_ROUNDS leaves the partial rounds out, POSEIDON_PARTIAL_ROUNDS
\* has their first column.
FullRounds(w, i) == RoundConstants[w][IF i < HalfFull THEN i ELSE i + Partial]
PartialRounds(w, i) == RoundConstants[w][HalfFull + i][1]

Diagonal(w, j) ==
  CASE w = 2 -> IF j = 2 THEN 2 ELSE 1
    [] w = 3 -> IF j = 3 THEN 2 ELSE 1
    [] w = 4 -> Diagonal4[j]

LinearLayer(w, inp) ==
  IF w = 4 THEN MatmulM4(inp) ELSE [j \in 1 .. w |-> Fe(Total(w, inp) + inp[j])]

ExternalRound(w, inp, i) ==
  LinearLayer(w, [j \in 1 .. w |-> SboxP(Fe(inp[j] + FullRounds(w, i)[j]))])

InternalRound(w, inp, i) ==
  LET sb == SboxP(Fe(inp[1] + PartialRounds(w, i)))
      x == [j \in 1 .. w |-> IF j = 1 THEN sb ELSE inp[j]]
  IN  [j \in 1 .. w |-> Fe(Total(w, x) + x[j] * Diagonal(w, j))]

\* Permutation wires the rounds in this order.
CircuitRound(w, inp, k) ==
  IF k < HalfFull THEN ExternalRound(w, inp, k)
  ELSE IF k < HalfFull + Partial THEN InternalRound(w, inp, k - HalfFull)
  ELSE ExternalRound(w, inp, k - Partial)

-----------------------------------------------------------------------------
(* The contracts, for widths 2 and 3.                                      *)

\* What poseidon2_compress and poseidon2_hash2 hand to the host.
ContractDiagonal(w, j) == IF w = 2 THEN j ELSE IF j = 3 THEN 2 ELSE 1

\* The host's poseidon2_permutation.
HostRound(w, s, r) ==
  LET rc == RoundConstants[w][r]
      x == [s EXCEPT ![1] = SboxP(Fe(s[1] + rc[1]))]
  IN  IF InPartial(r)
      THEN [j \in 1 .. w |-> Fe(x[j] * ContractDiagonal(w, j) + Total(w, x))]
      ELSE MatmulExternal(w, Sbox(w, AddRc(w, s, rc)))

-----------------------------------------------------------------------------
(* The three, a round at a time.                                           *)

Init ==
  /\ t \in Widths /\ input \in [1 .. t -> Field]
  /\ round = 0
  /\ current_state = MatmulExternal(t, input)
  /\ aux = LinearLayer(t, input)
  /\ host = MatmulExternal(t, input)

Round ==
  /\ round < Rounds /\ round' = round + 1
  /\ current_state' = LibraryRound(t, current_state, round)
  /\ aux' = CircuitRound(t, aux, round)
  /\ host' = IF t < 4 THEN HostRound(t, host, round) ELSE host
  /\ UNCHANGED <<t, input>>

Spec == Init /\ [][Round]_vars

-----------------------------------------------------------------------------
(* What is made of the permutation.                                        *)

\* Width 2 is for compressions, the others for hashes of all but the last
\* place, which is the domain.
Feed == IF t = 2 THEN input[1] ELSE 0

Hash == Fe(current_state[1] + Feed)
CircuitHash == Fe(aux[1] + Feed)

\* The sum is reduced only if it has left the field.
ContractHash ==
  IF t = 2 /\ host[1] + Feed < Modulus THEN host[1] + Feed ELSE Fe(host[1] + Feed)

(***************************************************************************)
(* The library, the circuits and the contracts go through the same states, *)
(* round by round.                                                         *)
(***************************************************************************)
RoundsAgree ==
  /\ aux = current_state
  /\ t < 4 => host = current_state

(***************************************************************************)
(* Client, circuits and contracts end with the same hash: the compression  *)
(* of two elements, the hash of two with a domain and, for client and      *)
(* circuits alone, of three with a domain.                                 *)
(***************************************************************************)
HashesAgree ==
  /\ RoundsAgree
  /\ round = Rounds =>
       /\ CircuitHash = Hash
       /\ t < 4 => ContractHash = Hash
=============================================================================
