------------------------------ MODULE Doubles -------------------------------
(***************************************************************************)
(* Small stand-ins for the doubles, used to give the arithmetic constants  *)
(* of the specifications a value.  A scale is a finite set of naturals     *)
(* whose largest member plays +infinity.  Nearest is IEEE round-to-nearest,*)
(* ties-to-even on such a scale: on a binary scale a number has an even    *)
(* significand exactly when an even number of members lies below it, and   *)
(* the overflow threshold is the midpoint below +infinity.                 *)
(***************************************************************************)
EXTENDS Integers, FiniteSets

Largest(scale) == CHOOSE c \in scale : \A d \in scale : d <= c

Even(scale, c) == Cardinality({d \in scale : d < c}) % 2 = 0

Gap(a, b) == IF a < b THEN b - a ELSE a - b

Nearest(scale, n) ==
    IF n >= Largest(scale) THEN Largest(scale)
    ELSE CHOOSE c \in scale : \A d \in scale \ {c} :
            \/ Gap(c, n) < Gap(d, n)
            \/ Gap(c, n) = Gap(d, n) /\ Even(scale, c)

\* Two significant bits: 0 1 2 3, then steps of 2, of 4, of 8.
TwoBits == {0, 1, 2, 3, 4, 6, 8, 12, 16}
=============================================================================
