------------------------------ MODULE Weights ------------------------------
(***************************************************************************)
(* The arithmetic of arc weights and route costs: `using Weight = double`. *)
(*                                                                         *)
(* A double that a built graph or a search can hold is a non-negative      *)
(* number or +infinity.  Cost is the finite-precision scale of those       *)
(* values, embedded in the naturals with Infinity on top, and Plus is the  *)
(* rounding addition of the machine.  PlusAssumption lists only what IEEE  *)
(* addition of non-negative doubles guarantees, whatever the rounding:     *)
(* theorems that use nothing else hold of the compiled program, and those  *)
(* that need real-number addition say so with ExactArithmetic.             *)
(***************************************************************************)
EXTENDS Integers

CONSTANTS Cost,        \* the non-negative doubles, +infinity included
          Infinity,    \* std::numeric_limits<double>::infinity()
          Plus(_, _)   \* the + of two doubles, rounded and overflowing

ASSUME CostAssumption ==
    /\ Cost \subseteq Nat
    /\ 0 \in Cost
    /\ Infinity \in Cost
    /\ Infinity # 0
    /\ \A c \in Cost : c <= Infinity

ASSUME PlusAssumption ==
    /\ \A a, b \in Cost : Plus(a, b) \in Cost
    /\ \A a, b \in Cost : Plus(a, b) = Plus(b, a)
    /\ \A a \in Cost : Plus(a, 0) = a
    /\ \A a, b \in Cost : a <= Plus(a, b)
    /\ \A a, b, c \in Cost : a <= b => Plus(a, c) <= Plus(b, c)

\* What std::isfinite and the sign test of add_arc leave of the doubles.
Weight == {c \in Cost : c < Infinity}

\* Addition without rounding: only the overflow to +infinity remains.
ExactArithmetic ==
    \A a, b \in Cost :
        Plus(a, b) = IF a + b < Infinity THEN a + b ELSE Infinity
=============================================================================
