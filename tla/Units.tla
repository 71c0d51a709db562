------------------------------- MODULE Units --------------------------------
(***************************************************************************)
(* kicad/units.cpp: millimetres, degrees and ratios as decimal text, and   *)
(* their fixed point values scaled by SCALE_PER_UNIT.  A text is its sign  *)
(* and its two digit strings, [sign, whole, fraction]; parsing gives {} on *)
(* the ImportErrors (no digit at all, overflow).                           *)
(***************************************************************************)
EXTENDS CheckedArith, Sequences

CONSTANT FractionDigits     \* FRACTION_DIGITS, 6 in the code

ASSUME FractionDigitsAssumption == FractionDigits \in Nat \ {0}

Pow10[n \in Nat] == IF n = 0 THEN 1 ELSE 10 * Pow10[n - 1]

SCALE_PER_UNIT == Pow10[FractionDigits]

\* One unit has a fixed point value.
ASSUME ScaleAssumption == SCALE_PER_UNIT <= MaxInt

Digit == 0 .. 9

\* accumulate_digits: most significant digit first, overflow at any step.
AccumulateDigits(digits) ==
    LET upTo[n \in 0 .. Len(digits)] ==
            IF n = 0 THEN {0}
            ELSE UNION {CheckedAdd(s, digits[n]) : s \in UNION {CheckedMul(o, 10) : o \in upTo[n - 1]}}
    IN  upTo[Len(digits)]

FirstDigits(fraction) ==
    [i \in 1 .. FractionDigits |-> IF i <= Len(fraction) THEN fraction[i] ELSE 0]

FractionTruncated(fraction) ==      \* mutant: the digit after the last one kept is dropped
    AccumulateDigits(FirstDigits(fraction))

\* The first FractionDigits digits, padded; the next digit rounds, the rest is ignored.
FractionPart(fraction) ==
    LET up == Len(fraction) > FractionDigits /\ fraction[FractionDigits + 1] >= 5
    IN  {f + (IF up THEN 1 ELSE 0) : f \in AccumulateDigits(FirstDigits(fraction))}

ParseDecimal(text) ==
    IF text.whole = <<>> /\ text.fraction = <<>>
    THEN {}
    ELSE LET scaled == UNION {CheckedMul(i, SCALE_PER_UNIT) : i \in AccumulateDigits(text.whole)}
             sums   == UNION {CheckedAdd(s, f) : s \in scaled, f \in FractionPart(text.fraction)}
         IN  {IF text.sign = "-" THEN -m ELSE m : m \in sums}

\* The k lowest digits of n, and all of them (std::to_string).
LowDigits(n, k) == [i \in 1 .. k |-> (n \div Pow10[k - i]) % 10]

DigitsOf(n) ==
    LowDigits(n, CHOOSE k \in 1 .. n + 1 : n < Pow10[k] /\ (k = 1 \/ Pow10[k - 1] <= n))

FormatUnpadded(value) ==            \* mutant: the fraction without its leading zeros
    LET magnitude == IF value < 0 THEN -value ELSE value
    IN  [sign     |-> IF value < 0 THEN "-" ELSE "",
         whole    |-> DigitsOf(magnitude \div SCALE_PER_UNIT),
         fraction |-> DigitsOf(magnitude % SCALE_PER_UNIT)]

\* The magnitude is unsigned, so that the least value has one; trailing zeros
\* of the fraction are trimmed.
FormatDecimal(value) ==
    LET magnitude == IF value < 0 THEN -value ELSE value
        digits    == LowDigits(magnitude % SCALE_PER_UNIT, FractionDigits)
        kept      == {i \in 0 .. FractionDigits : \A j \in i + 1 .. FractionDigits : digits[j] = 0}
    IN  [sign     |-> IF value < 0 THEN "-" ELSE "",
         whole    |-> DigitsOf(magnitude \div SCALE_PER_UNIT),
         fraction |-> SubSeq(digits, 1, CHOOSE i \in kept : \A k \in kept : i <= k)]
=============================================================================
