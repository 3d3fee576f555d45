------------------------------- MODULE IntRange -------------------------------
(* Value ranges of ints (codegen/ranges.rs): the bounds a comparison implies,   *)
(* and the range of a result, or NoRange where a result may not fit.            *)
EXTENDS Integers, FiniteSetsExt

CONSTANTS
  Low, High,   \* the least and the greatest int
  NoRange      \* nothing is known

ASSUME WordAssumption ==
  /\ High \in Nat \ {0} /\ Low = -High - 1
  /\ NoRange \notin [lo : Int, hi : Int]

Word         == Low .. High
IntRange     == [lo : Word, hi : Word]
Within(v, r) == r.lo <= v /\ v <= r.hi

Point(v) == [lo |-> v, hi |-> v]

\* Mutant: the upper bound may leave the word.
FromWideBelow(lo, hi) == IF lo < Low THEN NoRange ELSE [lo |-> lo, hi |-> hi]
\* from_i128: bounds that do not fit the word are no range.
FromWide(lo, hi) == IF lo < Low \/ hi > High THEN NoRange ELSE [lo |-> lo, hi |-> hi]

\* Both facts hold; empty where they contradict each other.
Intersect(a, b) == [lo |-> IF a.lo >= b.lo THEN a.lo ELSE b.lo,
                    hi |-> IF a.hi <= b.hi THEN a.hi ELSE b.hi]

CheckedAdd(a, b) == FromWide(a.lo + b.lo, a.hi + b.hi)
CheckedSub(a, b) == FromWide(a.lo - b.hi, a.hi - b.lo)
CheckedNeg(a)    == FromWide(-a.hi, -a.lo)
Corners(a, b)    == {a.lo * b.lo, a.lo * b.hi, a.hi * b.lo, a.hi * b.hi}
CheckedMul(a, b) == FromWide(Min(Corners(a, b)), Max(Corners(a, b)))

\* The ints up to k, or from k on; no fact for a k beyond the ints.
UpTo(k) == IF k \in Word THEN [lo |-> Low, hi |-> k] ELSE NoRange
From(k) == IF k \in Word THEN [lo |-> k, hi |-> High] ELSE NoRange

Relation == {"lt", "le", "gt", "ge", "eq", "ne"}
Holds(rel, v, k) ==
  CASE rel = "lt" -> v < k [] rel = "le" -> v <= k [] rel = "gt" -> v > k
    [] rel = "ge" -> v >= k [] rel = "eq" -> v = k [] rel = "ne" -> v # k

\* flip: the same comparison with its sides exchanged.
Flip(rel) ==
  CASE rel = "lt" -> "gt" [] rel = "le" -> "ge" [] rel = "gt" -> "lt"
    [] rel = "ge" -> "le" [] OTHER -> rel

\* cond_facts: what `v rel k` says of v on the path where it is true, and on the
\* one where it is false.
Negated(rel) ==
  CASE rel = "lt" -> "ge" [] rel = "le" -> "gt" [] rel = "gt" -> "le"
    [] rel = "ge" -> "lt" [] rel = "eq" -> "ne" [] rel = "ne" -> "eq"
WhenTrue(rel, k) ==
  CASE rel = "lt" -> UpTo(k - 1) [] rel = "le" -> UpTo(k)
    [] rel = "gt" -> From(k + 1) [] rel = "ge" -> From(k)
    [] rel = "eq" -> Point(k)    [] rel = "ne" -> NoRange
CondRange(rel, k, polarity) == WhenTrue(IF polarity THEN rel ELSE Negated(rel), k)
=============================================================================
