---------------------------- MODULE CheckedArith ----------------------------
(***************************************************************************)
(* geometry/checked_arith.hpp: two's complement arithmetic that reports    *)
(* overflow instead of running into it.  A checked operation gives the set *)
(* of its results: {value}, or {} where the code returns false and leaves  *)
(* its out parameter alone.  Every comparison is the code's own, so that   *)
(* the bounds it computes (max - b, min / a, ...) are what is checked.     *)
(***************************************************************************)
EXTENDS Integers

CONSTANT MaxInt             \* INT64_MAX; the checks use a narrow word

ASSUME MaxIntAssumption == MaxInt \in Nat \ {0}

MinInt == -MaxInt - 1

Word == MinInt .. MaxInt

\* C++ division: towards zero, where \div rounds down.
TruncDiv(a, b) ==
    IF (a >= 0) = (b >= 0)
    THEN (IF a >= 0 THEN a ELSE -a) \div (IF b >= 0 THEN b ELSE -b)
    ELSE -((IF a >= 0 THEN a ELSE -a) \div (IF b >= 0 THEN b ELSE -b))

CheckedAdd(a, b) ==
    IF (b > 0 /\ a > MaxInt - b) \/ (b < 0 /\ a < MinInt - b) THEN {} ELSE {a + b}

CheckedSub(a, b) ==
    IF (b < 0 /\ a > MaxInt + b) \/ (b > 0 /\ a < MinInt + b) THEN {} ELSE {a - b}

MulStrict(a, b) ==          \* mutant: the bound itself is refused
    CASE a > 0 /\ b > 0   -> a >= TruncDiv(MaxInt, b)
      [] a > 0 /\ b <= 0  -> b <= TruncDiv(MinInt, a)
      [] a <= 0 /\ b > 0  -> a <= TruncDiv(MinInt, b)
      [] OTHER            -> a <= TruncDiv(MaxInt, b)

MulOverflows(a, b) ==
    CASE a > 0 /\ b > 0   -> a > TruncDiv(MaxInt, b)
      [] a > 0 /\ b <= 0  -> b < TruncDiv(MinInt, a)
      [] a <= 0 /\ b > 0  -> a < TruncDiv(MinInt, b)
      [] OTHER            -> a < TruncDiv(MaxInt, b)

CheckedMul(a, b) ==
    CASE a = 0 \/ b = 0                             -> {0}
      [] a = -1 /\ b # 0                            -> IF b = MinInt THEN {} ELSE {-b}
      [] b = -1 /\ a \notin {0, -1}                 -> IF a = MinInt THEN {} ELSE {-a}
      [] a \notin {0, -1} /\ b \notin {0, -1}       -> IF MulOverflows(a, b) THEN {} ELSE {a * b}
=============================================================================
