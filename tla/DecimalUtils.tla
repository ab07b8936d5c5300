----------------------------- MODULE DecimalUtils -----------------------------
(***************************************************************************)
(* The library libraries/DecimalUtils.sol: a number printed with a decimal *)
(* point.  A number is the sequence of its decimal digits, as              *)
(* Strings.toString prints it; a byte is a one-character string, and a     *)
(* byte that was never written is NUL.  `decimal` is at most 253, so that  *)
(* the lengths, uint8 in the code, do not wrap (the code passes 18).       *)
(***************************************************************************)
EXTENDS Integers, Sequences, FiniteSets

NUL == "NUL"
Digits == {"0", "1", "2", "3", "4", "5", "6", "7", "8", "9"}

resultLength(digits, decimal) == IF Len(digits) > decimal THEN Len(digits) + 1 ELSE decimal + 2

\* Mutation: the point one index too far to the left.
PointOneEarly(digits, decimal) == resultLength(digits, decimal) - decimal - 2

\* The index of result that the decimal point gets, if it gets one.
pointIndex(digits, decimal) == resultLength(digits, decimal) - decimal - 1

\* An index left of every digit, to be filled with a zero.
LeftOfDigits(digits, decimal, i) ==
    Len(digits) <= decimal /\ i < resultLength(digits, decimal) - Len(digits)

\* The digit that index i of result is copied from: shifted to the right of the
\* point, in place to the left of it.
DigitAt(digits, decimal, i) ==
    LET delta == IF i < pointIndex(digits, decimal) THEN 0
                 ELSE IF Len(digits) > decimal THEN 1
                 ELSE resultLength(digits, decimal) - Len(digits)
    IN  digits[i - delta + 1]

\* Mutation: the flag starts true.
FlagStartsTrue(digits, decimal, i) == TRUE

\* foundNonZeroDecimal, when the scan from the last index reaches index i.
foundNonZeroDecimal(digits, decimal, i) ==
    \E k \in (i + 1)..(resultLength(digits, decimal) - 1) :
        /\ k > pointIndex(digits, decimal)
        /\ ~LeftOfDigits(digits, decimal, k)
        /\ DigitAt(digits, decimal, k) # "0"

\* The byte that the loop leaves at index i of result: trailing zeros of the fraction
\* are not written, nor is a point with no fraction after it.
ByteAt(digits, decimal, i) ==
    LET found == foundNonZeroDecimal(digits, decimal, i) IN
    CASE i = pointIndex(digits, decimal) -> IF found THEN "." ELSE NUL
      [] i # pointIndex(digits, decimal) /\ LeftOfDigits(digits, decimal, i) -> "0"
      [] OTHER -> IF \/ found
                     \/ i < pointIndex(digits, decimal)
                     \/ DigitAt(digits, decimal, i) # "0"
                  THEN DigitAt(digits, decimal, i) ELSE NUL

\* compactResult: the first actualResultLen bytes of result, where actualResultLen
\* counts the bytes that were written, wherever they are.
uintToDecimalString(digits, decimal) ==
    LET length == resultLength(digits, decimal)
        actualResultLen == Cardinality({i \in 0..(length - 1) : ByteAt(digits, decimal, i) # NUL})
    IN  [i \in 1..actualResultLen |-> ByteAt(digits, decimal, i - 1)]
===============================================================================
