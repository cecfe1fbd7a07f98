-------------------------------- MODULE Quality --------------------------------
(***************************************************************************)
(* estimateQualitySinglePass of pkg/quality/adaptive.go, with fractions in *)
(* units of 1/One instead of float64.                                      *)
(***************************************************************************)
EXTENDS Integers

CONSTANT IntMax  \* the largest int: 2^63 - 1

One == 32768

(* targetSizeKB * 1024 wraps around. *)
TargetBytes(target) ==
  LET n == IntMax + 1
  IN ((target * 1024 + n) % (2 * n)) - n

(* The next three binary digits of a long division by b: of the quotient   *)
(* d.q and the remainder d.r.                                              *)
Digits(d, b) == [q |-> 8 * d.q + (8 * d.r) \div b, r |-> (8 * d.r) % b]

(* a / b in units of 1/One, rounded down, for a below b. *)
Fixed(a, b) ==
  Digits(Digits(Digits(Digits(Digits([q |-> 0, r |-> a], b), b), b), b), b).q

(* targetBytes / (pixels * 0.18): its whole part, and the rest in units of *)
(* 1/One.                                                                  *)
SizeRatio(pixels, target) ==
  LET n == (TargetBytes(target) * 50) \div 9
  IN [whole |-> n \div pixels, part |-> Fixed(n % pixels, pixels)]

(* A step of Newton's method for the square root of x. *)
Newton(x, z) == (z + (x * One) \div z) \div 2

(* Mutant: one step less. *)
SqrtThreeSteps(x) ==
  IF x = 0 THEN 0 ELSE Newton(x, Newton(x, Newton(x, One)))

(* Four steps from 1, for a ratio below 1. *)
Sqrt(x) ==
  IF x = 0 THEN 0 ELSE Newton(x, Newton(x, Newton(x, Newton(x, One))))

(* 100 * sqrt(ratio) without its fraction: a ratio below 0 has the root 0, *)
(* and one of 1 or more is returned as it is, however large.               *)
Percent(ratio) ==
  IF ratio.whole < 0 THEN 0
  ELSE IF ratio.whole = 0 THEN (100 * Sqrt(ratio.part)) \div One
  ELSE 100 * ratio.whole + (100 * ratio.part) \div One

Tuned(pixels, percent) ==
  IF pixels > 20000000 THEN percent - 5
  ELSE IF pixels < 3000000 THEN percent + 5
  ELSE percent

(* int() of a float64 that is not negative by more than 5.  Go leaves open *)
(* what becomes of one above the largest int: amd64 gives the least int,   *)
(* arm64 the largest.                                                      *)
ToInt(n) == IF n <= IntMax THEN {n} ELSE {-IntMax - 1, IntMax}

Clamp(n, low, high) == IF n < low THEN low ELSE IF n > high THEN high ELSE n

(* The possible qualities: more than one only where int() overflows. *)
FindOptimalQuality(pixels, target) ==
  {Clamp(n, 10, 100) : n \in ToInt(Tuned(pixels, Percent(SizeRatio(pixels, target))))}
=============================================================================
