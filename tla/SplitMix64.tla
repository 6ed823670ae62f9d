----------------------------- MODULE SplitMix64 -----------------------------
(***************************************************************************)
(* The pseudo-random generator (random.hpp): a counter that advances by an *)
(* odd number, a mixing of its value by shifts, exclusive ors and products,*)
(* and draws below a bound by masking and rejection.                       *)
(*                                                                         *)
(* Words have WordBits bits; the program has 64.  A word is a number, and  *)
(* Ones gives the places of its one bits: bitwise operators are the set    *)
(* operators on these.                                                     *)
(***************************************************************************)
EXTENDS Integers, Sequences, FiniteSetsExt

CONSTANTS
    WordBits,    \* std::uint64_t has this many
    Gamma,       \* 0x9E3779B97F4A7C15
    Shifts,      \* <<30, 27, 31>>
    Factors,     \* <<0xBF58476D1CE4E5B9, 0x94D049BB133111EB>>
    Smears       \* <<1, 2, 4, 8, 16, 32>>, the shifts of next_below

Words == 0 .. 2^WordBits - 1

ASSUME SplitMix64Assumption ==
    /\ WordBits \in Nat \ {0}
    /\ Gamma \in Words /\ Gamma % 2 = 1
    /\ Shifts \in [1 .. 3 -> 1 .. WordBits]
    /\ Factors \in [1 .. 2 -> {f \in Words : f % 2 = 1}]
    /\ Smears \in Seq(Nat)
    /\ \A i \in 1 .. Len(Smears) : Smears[i] = 2^(i - 1)
    /\ WordBits <= 2^Len(Smears)

-----------------------------------------------------------------------------
Ones[w \in Words] == {k \in 0 .. WordBits - 1 : (w \div 2^k) % 2 = 1}

WordOf(places) == MapThenSumSet(LAMBDA k : 2^k, places)

Xor(v, w) == WordOf(SymDiff(Ones[v], Ones[w]))

Or(v, w) == WordOf(Ones[v] \cup Ones[w])

And(v, w) == WordOf(Ones[v] \cap Ones[w])

-----------------------------------------------------------------------------
Bug_CounterStays(state) == state

\* next(): the counter advances, and its value is mixed.
Advance(state) == (state + Gamma) % 2^WordBits

Folded(z, shift) == Xor(z, z \div 2^shift)

Mixed(z, i) == (Folded(z, Shifts[i]) * Factors[i]) % 2^WordBits

Output(state) == Folded(Mixed(Mixed(state, 1), 2), Shifts[3])

\* mask |= mask >> shift
Smear(mask, shift) == Or(mask, mask \div 2^shift)

\* The mask of next_below: bound - 1 after each of its smears in turn.
Bug_MaskWithoutFirstSmear(bound) ==
    LET mask[i \in 0 .. Len(Smears)] ==
            IF i <= 1 THEN bound - 1 ELSE Smear(mask[i - 1], Smears[i])
    IN  mask[Len(Smears)]

Mask(bound) ==
    LET mask[i \in 0 .. Len(Smears)] ==
            IF i = 0 THEN bound - 1 ELSE Smear(mask[i - 1], Smears[i])
    IN  mask[Len(Smears)]

\* One turn of the loop of next_below: it returns a candidate below the bound
\* and draws again after any other.
Candidate(state, bound) == And(Output(state), Mask(bound))
=============================================================================
