-------------------------- MODULE RangeGuards_proof ---------------------------
(* What the ranges of codegen/ranges.rs promise, for ints of any width, that the *)
(* guards left out for them are not missed, and that names are emitted as the    *)
(* variables they mean.                                                          *)
EXTENDS RangeGuards, SequenceTheorems, FiniteSetTheorems, TLAPS

\* A condition that is false holds negated.
LEMMA NegatedHolds ==
  ASSUME NEW rel \in Relation, NEW v \in Int, NEW k \in Int
  PROVE  Negated(rel) \in Relation /\ (Holds(Negated(rel), v, k) <=> ~Holds(rel, v, k))
<1>1. CASE rel = "lt"  BY <1>1 DEF Relation, Holds, Negated
<1>2. CASE rel = "le"  BY <1>2 DEF Relation, Holds, Negated
<1>3. CASE rel = "gt"  BY <1>3 DEF Relation, Holds, Negated
<1>4. CASE rel = "ge"  BY <1>4 DEF Relation, Holds, Negated
<1>5. CASE rel = "eq"  BY <1>5 DEF Relation, Holds, Negated
<1>6. CASE rel = "ne"  BY <1>6 DEF Relation, Holds, Negated
<1> QED  BY <1>1, <1>2, <1>3, <1>4, <1>5, <1>6 DEF Relation


\* What holds against a constant bounds the variable, as the then branch takes it.
LEMMA TrueBounds ==
  ASSUME NEW rel \in Relation, NEW v \in Word, NEW k \in Word,
         Holds(rel, v, k), WhenTrue(rel, k) # NoRange
  PROVE  Within(v, WhenTrue(rel, k))
<1> USE WordAssumption DEF Word, UpTo, From, Point, Within
<1>1. CASE rel = "lt"  BY <1>1 DEF Holds, WhenTrue
<1>2. CASE rel = "le"  BY <1>2 DEF Holds, WhenTrue
<1>3. CASE rel = "gt"  BY <1>3 DEF Holds, WhenTrue
<1>4. CASE rel = "ge"  BY <1>4 DEF Holds, WhenTrue
<1>5. CASE rel = "eq"  BY <1>5 DEF Holds, WhenTrue
<1>6. CASE rel = "ne"  BY <1>6 DEF Holds, WhenTrue
<1> QED  BY <1>1, <1>2, <1>3, <1>4, <1>5, <1>6 DEF Relation

\* A comparison that holds, or fails, on a path bounds the variable as
\* cond_facts says, for every constant it compares with.
THEOREM CondRangeSound ==
  ASSUME NEW rel \in Relation, NEW v \in Word, NEW k \in Word, NEW p \in BOOLEAN,
         Holds(rel, v, k) <=> p, CondRange(rel, k, p) # NoRange
  PROVE  Within(v, CondRange(rel, k, p))
<1>1. CASE p   BY <1>1, TrueBounds DEF CondRange
<1>2. CASE ~p
  <2>1. Negated(rel) \in Relation /\ Holds(Negated(rel), v, k)
    BY <1>2, NegatedHolds, WordAssumption DEF Word
  <2> QED  BY <1>2, <2>1, TrueBounds DEF CondRange
<1> QED  BY <1>1, <1>2

\* flip turns a comparison around without changing what it says.
THEOREM FlipSound ==
  ASSUME NEW rel \in Relation, NEW v \in Word, NEW k \in Word
  PROVE  Flip(rel) \in Relation /\ (Holds(Flip(rel), v, k) <=> Holds(rel, k, v))
<1> USE WordAssumption DEF Word, Flip, Holds
<1>1. CASE rel = "lt"  BY <1>1 DEF Relation
<1>2. CASE rel = "le"  BY <1>2 DEF Relation
<1>3. CASE rel = "gt"  BY <1>3 DEF Relation
<1>4. CASE rel = "ge"  BY <1>4 DEF Relation
<1>5. CASE rel \in {"eq", "ne"}  BY <1>5 DEF Relation
<1> QED  BY <1>1, <1>2, <1>3, <1>4, <1>5 DEF Relation

\* intersect keeps every value that both facts allow.
LEMMA IntersectSound ==
  ASSUME NEW a \in IntRange, NEW b \in IntRange, NEW v \in Word,
         Within(v, a), Within(v, b)
  PROVE  Intersect(a, b) \in IntRange /\ Within(v, Intersect(a, b))
  BY WordAssumption DEF IntRange, Within, Intersect, Word

\* Bounds that fit the word hold only values of the word.
LEMMA WideSound ==
  ASSUME NEW lo \in Int, NEW hi \in Int, NEW x \in Int, lo <= x, x <= hi,
         FromWide(lo, hi) # NoRange
  PROVE  x \in Word /\ Within(x, FromWide(lo, hi))
  BY WordAssumption DEF FromWide, Within, Word

\* checked_add: with a range for the sum, the sum fits and lies in the range.
THEOREM AddSound ==
  ASSUME NEW a \in IntRange, NEW b \in IntRange, NEW v \in Word, NEW w \in Word,
         Within(v, a), Within(w, b), CheckedAdd(a, b) # NoRange
  PROVE  v + w \in Word /\ Within(v + w, CheckedAdd(a, b))
<1>1. /\ a.lo + b.lo \in Int /\ a.hi + b.hi \in Int /\ v + w \in Int
      /\ a.lo + b.lo <= v + w /\ v + w <= a.hi + b.hi
  BY WordAssumption DEF IntRange, Within, Word
<1> QED  BY <1>1, WideSound DEF CheckedAdd

\* checked_sub: with a range for the difference, the difference fits.
THEOREM SubSound ==
  ASSUME NEW a \in IntRange, NEW b \in IntRange, NEW v \in Word, NEW w \in Word,
         Within(v, a), Within(w, b), CheckedSub(a, b) # NoRange
  PROVE  v - w \in Word /\ Within(v - w, CheckedSub(a, b))
<1>1. /\ a.lo - b.hi \in Int /\ a.hi - b.lo \in Int /\ v - w \in Int
      /\ a.lo - b.hi <= v - w /\ v - w <= a.hi - b.lo
  BY WordAssumption DEF IntRange, Within, Word
<1> QED  BY <1>1, WideSound DEF CheckedSub

\* checked_neg: with a range for the negation, the negation fits.
THEOREM NegSound ==
  ASSUME NEW a \in IntRange, NEW v \in Word, Within(v, a), CheckedNeg(a) # NoRange
  PROVE  -v \in Word /\ Within(-v, CheckedNeg(a))
<1>1. -a.hi \in Int /\ -a.lo \in Int /\ -v \in Int /\ -a.hi <= -v /\ -v <= -a.lo
  BY WordAssumption DEF IntRange, Within, Word
<1> QED  BY <1>1, WideSound DEF CheckedNeg

\* A product with one factor between two others lies between their products.
LEMMA Between ==
  ASSUME NEW l \in Int, NEW x \in Int, NEW h \in Int, NEW w \in Int, l <= x, x <= h
  PROVE  \/ l * w <= x * w /\ x * w <= h * w
         \/ h * w <= x * w /\ x * w <= l * w
<1>1. CASE w >= 0
  <2>1. (x - l) * w >= 0 /\ (h - x) * w >= 0  BY <1>1
  <2>2. (x - l) * w = x * w - l * w /\ (h - x) * w = h * w - x * w  OBVIOUS
  <2> QED  BY <2>1, <2>2
<1>2. CASE w < 0
  <2>1. (x - l) * w <= 0 /\ (h - x) * w <= 0  BY <1>2
  <2>2. (x - l) * w = x * w - l * w /\ (h - x) * w = h * w - x * w  OBVIOUS
  <2> QED  BY <2>1, <2>2
<1> QED  BY <1>1, <1>2

\* The least and the greatest of four products.
LEMMA FourMinMax ==
  ASSUME NEW p \in Int, NEW q \in Int, NEW r \in Int, NEW s \in Int,
         NEW S, S = {p, q, r, s}
  PROVE  /\ Min(S) \in S /\ \A c \in S : Min(S) <= c
         /\ Max(S) \in S /\ \A c \in S : c <= Max(S)
<1>1. \E m \in S : \A c \in S : m <= c  OBVIOUS
<1>2. \E m \in S : \A c \in S : m >= c  OBVIOUS
<1>3. Min(S) \in S /\ \A c \in S : Min(S) <= c  BY <1>1, Zenon DEF Min
<1>4. Max(S) \in S /\ \A c \in S : Max(S) >= c  BY <1>2, Zenon DEF Max
<1>5. \A c \in S : c \in Int  OBVIOUS
<1> QED  BY <1>3, <1>4, <1>5

\* checked_mul: the four products of the bounds enclose every product, so with
\* a range for it the product fits.
THEOREM MulSound ==
  ASSUME NEW a \in IntRange, NEW b \in IntRange, NEW v \in Word, NEW w \in Word,
         Within(v, a), Within(w, b), CheckedMul(a, b) # NoRange
  PROVE  v * w \in Word /\ Within(v * w, CheckedMul(a, b))
<1> DEFINE C == Corners(a, b)
<1>1. /\ a.lo \in Int /\ a.hi \in Int /\ b.lo \in Int /\ b.hi \in Int /\ v \in Int /\ w \in Int
      /\ a.lo <= v /\ v <= a.hi /\ b.lo <= w /\ w <= b.hi
  BY WordAssumption DEF IntRange, Within, Word
<1>2. /\ a.lo * b.lo \in Int /\ a.lo * b.hi \in Int /\ a.hi * b.lo \in Int /\ a.hi * b.hi \in Int
      /\ v * w \in Int /\ a.lo * w \in Int /\ a.hi * w \in Int
  BY <1>1
<1>3. \/ a.lo * w <= v * w /\ v * w <= a.hi * w
      \/ a.hi * w <= v * w /\ v * w <= a.lo * w
  BY <1>1, Between
<1>4. \A e \in {a.lo, a.hi} :
        \/ e * b.lo <= e * w /\ e * w <= e * b.hi
        \/ e * b.hi <= e * w /\ e * w <= e * b.lo
  <2> TAKE e \in {a.lo, a.hi}
  <2>1. e \in Int  BY <1>1
  <2>2. b.lo * e = e * b.lo /\ w * e = e * w /\ b.hi * e = e * b.hi  BY <1>1, <2>1
  <2> QED  BY <1>1, <2>1, <2>2, Between
<1>5. /\ Min(C) \in C /\ \A c \in C : Min(C) <= c
      /\ Max(C) \in C /\ \A c \in C : c <= Max(C)
  BY <1>2, FourMinMax DEF Corners
<1>6. Min(C) \in Int /\ Max(C) \in Int  BY <1>2, <1>5 DEF Corners
<1>7. /\ \A c \in {a.lo * b.lo, a.lo * b.hi, a.hi * b.lo, a.hi * b.hi} : Min(C) <= c /\ c <= Max(C)
  BY <1>5 DEF Corners
<1>8. /\ Min(C) <= a.lo * w /\ a.lo * w <= Max(C)
      /\ Min(C) <= a.hi * w /\ a.hi * w <= Max(C)
  <2> HIDE DEF C
  <2> QED  BY <1>2, <1>4, <1>6, <1>7
<1>9. Min(C) <= v * w /\ v * w <= Max(C)
  <2> HIDE DEF C
  <2> QED  BY <1>2, <1>3, <1>6, <1>8
<1> QED  BY <1>2, <1>6, <1>9, WideSound DEF CheckedMul

-----------------------------------------------------------------------------

\* A quotient is no larger than the dividend, and less if it is divided by more
\* than one.
LEMMA DivBounds ==
  ASSUME NEW m \in Nat, NEW d \in Nat \ {0}
  PROVE  m \div d \in Nat /\ m \div d <= m /\ (d # 1 /\ m # 0 => m \div d < m)
<1> DEFINE q == m \div d
<1>1. q \in Int /\ q * d <= m /\ m < (q + 1) * d  OBVIOUS
<1>2. q >= 0  BY <1>1
<1> QED  BY <1>1, <1>2

\* The division of two ints leaves the ints only for the least one by -1.
LEMMA QuotientFits ==
  ASSUME NEW a \in Word, NEW b \in Word \ {0}, a # Low \/ b # -1
  PROVE  Quotient(a, b) \in Word
<1> DEFINE m == IF a < 0 THEN -a ELSE a
           d == IF b < 0 THEN -b ELSE b
<1>1. m \in Nat /\ d \in Nat \ {0} /\ m <= High + 1 /\ High \in Nat
  BY WordAssumption DEF Word
<1>2. m \div d \in Nat /\ m \div d <= m /\ (d # 1 /\ m # 0 => m \div d < m)  BY <1>1, DivBounds
<1>3. (a < 0) = (b < 0) => m \div d <= High
  <2>1. CASE d # 1  BY <1>1, <1>2, <2>1
  <2>2. CASE a >= 0
    <3>1. m <= High  BY <2>2, WordAssumption DEF Word
    <3> QED  BY <1>1, <1>2, <3>1
  <2>3. CASE a < 0 /\ d = 1
    <3>1. (a < 0) = (b < 0) => b = -1  BY <2>3 DEF Word
    <3>2. (a < 0) = (b < 0) => m <= High  BY <2>3, <3>1, WordAssumption DEF Word
    <3> QED  BY <1>1, <1>2, <3>2
  <2> QED  BY <2>1, <2>2, <2>3, WordAssumption DEF Word
<1>4. Quotient(a, b) = IF (a < 0) = (b < 0) THEN m \div d ELSE -(m \div d)  BY DEF Quotient
<1> HIDE DEF m, d
<1> QED  BY <1>1, <1>2, <1>3, <1>4, WordAssumption DEF Word

Exactly(f, v, w) ==
  CASE f = "add" -> v + w [] f = "sub" -> v - w [] f = "mul" -> v * w [] f = "div" -> Quotient(v, w)

\* Where the facts hold of the operands, an operation that is emitted without its
\* guard has its exact result among the ints.
LEMMA ElisionSound ==
  ASSUME NEW F \in [Name -> Fact], NEW t, t.f \in Arith,
         t.a \in Name \cup Word, t.b \in Name \cup Word,
         NEW v \in Word, NEW w \in Word,
         t.a \notin Name => v = t.a, t.b \notin Name => w = t.b,
         RangeOf(F, t.a) # NoRange => Within(v, RangeOf(F, t.a)),
         RangeOf(F, t.b) # NoRange => Within(w, RangeOf(F, t.b)),
         Unguarded(t, F), t.f = "div" => w # 0
  PROVE  Exactly(t.f, v, w) \in Word
<1> DEFINE r == RangeOf(F, t.a)
           s == RangeOf(F, t.b)
<1>1. r \in Fact /\ s \in Fact
  BY WordAssumption DEF RangeOf, Fact, Point, IntRange, Word
<1>2. Word \subseteq Int /\ 0 \in Word /\ 1 \in Word  BY WordAssumption DEF Word
<1>3. CASE t.f # "div" /\ Fitting(t.f, r, s)
  <2> HIDE DEF r, s
  <2>1. r \in IntRange /\ s \in IntRange /\ Within(v, r) /\ Within(w, s)
    BY <1>1, <1>3 DEF Fitting, Fact, r, s
  <2>2. CASE t.f = "add"  BY <1>3, <2>1, <2>2, AddSound DEF Fitting, Exactly
  <2>3. CASE t.f = "sub"  BY <1>3, <2>1, <2>3, SubSound DEF Fitting, Exactly
  <2>4. CASE t.f = "mul"  BY <1>3, <2>1, <2>4, MulSound DEF Fitting, Exactly
  <2> QED  BY <1>3, <2>2, <2>3, <2>4 DEF Arith
<1>4. CASE t.f # "div" /\ Exact(t.f, t.a, t.b)
  <2>1. CASE t.f = "add"  BY <1>2, <1>4, <2>1, TextAssumption DEF Exact, Exactly
  <2>2. CASE t.f = "sub"  BY <1>2, <1>4, <2>2, TextAssumption DEF Exact, Exactly
  <2>3. CASE t.f = "mul"
    <3>1. v \in {0, 1} \/ w \in {0, 1}  BY <1>2, <1>4, <2>3, TextAssumption DEF Exact
    <3>2. v * w \in {0, v, w}  BY <1>2, <3>1
    <3> QED  BY <1>2, <2>3, <3>2 DEF Exactly
  <2> QED  BY <1>4, <2>1, <2>2, <2>3 DEF Arith
<1>5. CASE t.f = "div"
  <2>1. v # Low \/ w # -1
    <3>1. SafeDivision(t.a, t.b, r)  BY <1>5 DEF Unguarded
    <3>2. CASE t.b \notin Name \cup {0, -1}  BY <3>2
    <3>3. CASE r # NoRange /\ r.lo > Low
      <4>1. r \in IntRange /\ Within(v, r)  BY <1>1, <3>3 DEF Fact
      <4> QED  BY <3>3, <4>1, WordAssumption DEF Within, IntRange, Word
    <3> QED  BY <3>1, <3>2, <3>3 DEF SafeDivision
  <2> QED  BY <1>5, <2>1, QuotientFits DEF Exactly
<1> QED  BY <1>3, <1>4, <1>5 DEF Unguarded

\* As long as the facts hold, no operation emitted without its guard overflows,
\* whatever the body, the input and the width of the ints.
THEOREM GuardsFollowFacts == FactsHold => GuardsKept
<1> SUFFICES ASSUME TypeOK, FactsHold, stage = "run", node \in Positions({"set"}),
                    Unguarded(prog[node], code[node].facts), ~DividesByZero(prog[node])
             PROVE  Result(prog[node]) \in Word
  BY DEF GuardsKept, FactsHold
<1> DEFINE t == prog[node]
           F == code[node].facts
<1>1. t.op = "set" /\ t \in Text  BY DEF TypeOK, Positions
<1>2. t.f \in Arith /\ t.a \in Name \cup Word /\ t.b \in Name \cup Word  BY <1>1, TextAssumption
<1>3. F \in [Name -> Fact] /\ \A n \in Name : Var(n) \in Variable
  BY DEF TypeOK, Var, Variable
<1>4. \A a \in Name \cup Word :
        /\ Value(a) \in Word
        /\ a \notin Name => Value(a) = a
        /\ RangeOf(F, a) # NoRange => Within(Value(a), RangeOf(F, a))
  <2> TAKE a \in Name \cup Word
  <2>1. CASE a \in Name  BY <1>3, <2>1 DEF Value, TypeOK, FactsHold, RangeOf
  <2>2. CASE a \notin Name
    BY <2>2, WordAssumption DEF Value, RangeOf, Point, Within, Word
  <2> QED  BY <2>1, <2>2
<1>5. t.f = "div" => Value(t.b) # 0  BY DEF DividesByZero
<1>6. Exactly(t.f, Value(t.a), Value(t.b)) \in Word
  <2> HIDE DEF t, F
  <2>1. Unguarded(t, F)  BY DEF t, F
  <2> QED  BY <1>2, <1>3, <1>4, <1>5, <2>1, ElisionSound
<1> QED  BY <1>2, <1>6 DEF Result, Exactly, Arith

-----------------------------------------------------------------------------
(* Scopes: the variable a name means, from the text up to a token *)

\* The nesting before token i, the token's own, and the nesting its declaration holds at.
DepthAt(p, i) == Cardinality({j \in 1 .. i - 1 : p[j].op \in Opens})
                 - Cardinality({j \in 1 .. i - 1 : p[j].op \in Closes})
LevelAt(p, i) == IF p[i].op \in Splits \cup Closes THEN DepthAt(p, i) - 1 ELSE DepthAt(p, i)
ScopeAt(p, i) == IF p[i].op = "for" THEN LevelAt(p, i) + 1 ELSE LevelAt(p, i)

\* The declarations of a name in force ahead of token i; the one it means.
InForce(p, n, i) ==
  {d \in 1 .. i - 1 : /\ p[d].op \in {"decl", "for"} /\ p[d].n = n
                      /\ \A j \in d + 1 .. i - 1 : LevelAt(p, j) >= ScopeAt(p, d)}
Meant(p, n, i) == IF InForce(p, n, i) = {} THEN 0 ELSE Last(InForce(p, n, i))

\* Construct a is open at token i; token i goes on with, or ends, construct a.
OpenTo(p, a, i) == a \in 1 .. i - 1 /\ p[a].op \in Opens /\ \A j \in a + 1 .. i : DepthAt(p, j) > DepthAt(p, a)
Partner(p, a, i) ==
  /\ OpenTo(p, a, i) /\ DepthAt(p, a) = DepthAt(p, i) - 1
  /\ p[i].op \in Closes => p[i].op = Closer[p[a].op]
  /\ p[i].op \in Splits => p[a].op = "if"

\* The slots name the variables in force at token i.
RightAt(p, S, i) == DOMAIN S = Name /\ \A n \in Name : S[n] = Meant(p, n, i)

\* One more position adds at most itself to the positions of a kind.
LEMMA OneMore ==
  ASSUME NEW S, NEW i \in Nat \ {0}
  PROVE  /\ Cardinality({j \in 1 .. i - 1 : j \in S}) \in Nat
         /\ Cardinality({j \in 1 .. i : j \in S})
              = Cardinality({j \in 1 .. i - 1 : j \in S}) + IF i \in S THEN 1 ELSE 0
<1> DEFINE B == {j \in 1 .. i - 1 : j \in S}
<1>1. IsFiniteSet(B)
  <2>1. IsFiniteSet(1 .. i - 1)  BY FS_Interval
  <2> QED  BY <2>1, FS_Subset
<1>2. Cardinality(B) \in Nat  BY <1>1, FS_CardinalityType
<1>3. i \notin B  OBVIOUS
<1>4. {j \in 1 .. i : j \in S} = IF i \in S THEN B \cup {i} ELSE B  OBVIOUS
<1>5. Cardinality(B \cup {i}) = Cardinality(B) + 1  BY <1>1, <1>3, FS_AddElement
<1> HIDE DEF B
<1>6. Cardinality({j \in 1 .. i : j \in S}) = Cardinality(B) + IF i \in S THEN 1 ELSE 0
  BY <1>2, <1>4, <1>5
<1> QED  BY <1>2, <1>6 DEF B

\* Each token changes the nesting by what it opens or closes.
LEMMA NestStep ==
  ASSUME NEW p, NEW i \in Nat \ {0}
  PROVE  /\ DepthAt(p, i) \in Int /\ LevelAt(p, i) \in Int /\ ScopeAt(p, i) \in Int
         /\ DepthAt(p, i + 1) = DepthAt(p, i) + (IF p[i].op \in Opens THEN 1
                                                 ELSE IF p[i].op \in Closes THEN -1 ELSE 0)
<1> DEFINE O == {j \in Nat : p[j].op \in Opens}
           C == {j \in Nat : p[j].op \in Closes}
<1>1. \A k \in {i - 1, i} : /\ {j \in 1 .. k : p[j].op \in Opens} = {j \in 1 .. k : j \in O}
                            /\ {j \in 1 .. k : p[j].op \in Closes} = {j \in 1 .. k : j \in C}
  OBVIOUS
<1>2. (i \in O <=> p[i].op \in Opens) /\ (i \in C <=> p[i].op \in Closes)  OBVIOUS
<1>3. (i + 1) - 1 = i  OBVIOUS
<1>4. Opens \cap Closes = {}  BY DEF Opens, Closes
<1> HIDE DEF O, C
<1>5. /\ Cardinality({j \in 1 .. i - 1 : p[j].op \in Opens}) \in Nat
      /\ Cardinality({j \in 1 .. i : p[j].op \in Opens})
           = Cardinality({j \in 1 .. i - 1 : p[j].op \in Opens}) + IF i \in O THEN 1 ELSE 0
  BY <1>1, OneMore
<1>6. /\ Cardinality({j \in 1 .. i - 1 : p[j].op \in Closes}) \in Nat
      /\ Cardinality({j \in 1 .. i : p[j].op \in Closes})
           = Cardinality({j \in 1 .. i - 1 : p[j].op \in Closes}) + IF i \in C THEN 1 ELSE 0
  BY <1>1, OneMore
<1>7. DepthAt(p, i) \in Int  BY <1>5, <1>6 DEF DepthAt
<1>8. DepthAt(p, i + 1) = DepthAt(p, i) + (IF p[i].op \in Opens THEN 1
                                           ELSE IF p[i].op \in Closes THEN -1 ELSE 0)
  BY <1>2, <1>3, <1>4, <1>5, <1>6 DEF DepthAt
<1> QED  BY <1>7, <1>8 DEF LevelAt, ScopeAt

\* A token is no deeper than what follows it, and at most one level above its place.
LEMMA LevelBounds ==
  ASSUME NEW p, NEW i \in Nat \ {0}
  PROVE  /\ LevelAt(p, i) <= DepthAt(p, i) /\ DepthAt(p, i) <= LevelAt(p, i) + 1
         /\ LevelAt(p, i) <= DepthAt(p, i + 1)
         /\ p[i].op \notin Splits \cup Closes => LevelAt(p, i) = DepthAt(p, i)
         /\ p[i].op \in Splits \cup Closes => LevelAt(p, i) = DepthAt(p, i) - 1
  BY NestStep DEF LevelAt, Opens, Splits, Closes

\* A declaration holds at its own nesting, a loop variable one level further in.
LEMMA ScopeBounds ==
  ASSUME NEW p, NEW d \in Nat \ {0}, p[d].op \in {"decl", "for"}
  PROVE  /\ ScopeAt(p, d) = DepthAt(p, d + 1) /\ ScopeAt(p, d) >= DepthAt(p, d)
         /\ p[d].op = "for" => ScopeAt(p, d) = DepthAt(p, d) + 1
         /\ p[d].op \notin Splits \cup Closes
  BY NestStep DEF LevelAt, ScopeAt, Opens, Splits, Closes

\* Texts that agree on their first m tokens nest and declare alike up to there.
LEMMA SameText ==
  ASSUME NEW p, NEW q, NEW m \in Nat, \A j \in 1 .. m : q[j] = p[j]
  PROVE  /\ \A i \in 1 .. m + 1 : DepthAt(q, i) = DepthAt(p, i)
         /\ \A a, i : i \in 1 .. m + 1 => (OpenTo(q, a, i) <=> OpenTo(p, a, i))
         /\ \A a : \A i \in 1 .. m : Partner(q, a, i) <=> Partner(p, a, i)
<1>1. \A i \in 1 .. m + 1 : DepthAt(q, i) = DepthAt(p, i)
  <2> TAKE i \in 1 .. m + 1
  <2>1. /\ {j \in 1 .. i - 1 : q[j].op \in Opens} = {j \in 1 .. i - 1 : p[j].op \in Opens}
        /\ {j \in 1 .. i - 1 : q[j].op \in Closes} = {j \in 1 .. i - 1 : p[j].op \in Closes}
    OBVIOUS
  <2> QED  BY <2>1 DEF DepthAt
<1>2. ASSUME NEW a, NEW i \in 1 .. m + 1 PROVE OpenTo(q, a, i) <=> OpenTo(p, a, i)
  <2>1. a \in 1 .. i - 1 => a \in 1 .. m /\ a \in 1 .. m + 1 /\ a + 1 .. i \subseteq 1 .. m + 1
    OBVIOUS
  <2> QED  BY <1>1, <2>1 DEF OpenTo
<1>3. ASSUME NEW a, NEW i \in 1 .. m PROVE Partner(q, a, i) <=> Partner(p, a, i)
  <2>1. i \in 1 .. m + 1  OBVIOUS
  <2>2. OpenTo(p, a, i) => a \in 1 .. m /\ a \in 1 .. m + 1  BY DEF OpenTo
  <2> QED  BY <1>1, <1>2, <2>1, <2>2 DEF Partner
<1> QED  BY <1>1, <1>2, <1>3

\* What is declared at a nesting is in force no further out.
LEMMA InForceNested ==
  ASSUME NEW p, NEW n, NEW i \in Nat \ {0}, NEW d \in InForce(p, n, i)
  PROVE  d \in 1 .. i - 1 /\ DepthAt(p, i) >= ScopeAt(p, d)
<1>1. d \in 1 .. i - 1 /\ d \in Nat \ {0} /\ p[d].op \in {"decl", "for"}  BY DEF InForce
<1>2. ScopeAt(p, d) \in Int /\ DepthAt(p, i) \in Int  BY <1>1, NestStep
<1>3. CASE i = d + 1  BY <1>1, <1>2, <1>3, ScopeBounds
<1>4. CASE i # d + 1
  <2>1. i - 1 \in d + 1 .. i - 1 /\ i - 1 \in Nat \ {0} /\ (i - 1) + 1 = i  BY <1>1, <1>4
  <2>2. LevelAt(p, i - 1) >= ScopeAt(p, d)  BY <2>1 DEF InForce
  <2>3. LevelAt(p, i - 1) \in Int /\ LevelAt(p, i - 1) <= DepthAt(p, i)  BY <2>1, NestStep, LevelBounds
  <2> QED  BY <1>1, <1>2, <2>2, <2>3
<1> QED  BY <1>3, <1>4

\* A token that neither leaves an arm nor declares the name changes nothing; a
\* declaration adds itself.
LEMMA InForceStep ==
  ASSUME NEW p, NEW n, NEW i \in Nat \ {0}, p[i].op \notin Splits \cup Closes
  PROVE  InForce(p, n, i + 1) = IF p[i].op \in {"decl", "for"} /\ p[i].n = n
                                THEN InForce(p, n, i) \cup {i} ELSE InForce(p, n, i)
<1>1. (i + 1) - 1 = i  OBVIOUS
<1>2. LevelAt(p, i) = DepthAt(p, i)  BY LevelBounds
<1>3. ASSUME NEW d \in InForce(p, n, i) PROVE d \in InForce(p, n, i + 1)
  <2>1. d \in 1 .. i - 1 /\ LevelAt(p, i) >= ScopeAt(p, d)  BY <1>2, InForceNested
  <2>2. \A j \in d + 1 .. i : j \in d + 1 .. i - 1 \/ j = i  BY <2>1
  <2>3. d \in 1 .. i  BY <2>1
  <2> QED  BY <1>1, <2>1, <2>2, <2>3 DEF InForce
<1>4. ASSUME NEW d \in InForce(p, n, i + 1), d # i PROVE d \in InForce(p, n, i)
  <2>1. d \in 1 .. i  BY <1>1 DEF InForce
  <2>2. d \in 1 .. i - 1 /\ d + 1 .. i - 1 \subseteq d + 1 .. i  BY <1>4, <2>1
  <2> QED  BY <1>1, <2>2 DEF InForce
<1>5. i \in InForce(p, n, i + 1) <=> p[i].op \in {"decl", "for"} /\ p[i].n = n
  <2>1. i \in 1 .. i /\ i + 1 .. i = {}  OBVIOUS
  <2> QED  BY <1>1, <2>1 DEF InForce
<1> DEFINE A == InForce(p, n, i + 1)
           B == InForce(p, n, i)
           declares == p[i].op \in {"decl", "for"} /\ p[i].n = n
<1>6. (\A d \in B : d \in A) /\ (\A d \in A : d # i => d \in B) /\ (i \in A <=> declares)
  BY <1>3, <1>4, <1>5
<1> HIDE DEF A, B, declares
<1>7. A = IF declares THEN B \cup {i} ELSE B
  <2>1. CASE declares
    <3>1. A = B \cup {i}  BY <1>6, <2>1
    <3> QED  BY <2>1, <3>1
  <2>2. CASE ~declares
    <3>1. A = B  BY <1>6, <2>2
    <3> QED  BY <2>2, <3>1
  <2> QED  BY <2>1, <2>2
<1> QED  BY <1>7 DEF A, B, declares

\* Where an arm ends, what was in force ahead of its construct is in force again.
LEMMA InForceAfterArm ==
  ASSUME NEW p, NEW n, NEW i \in Nat \ {0}, NEW a, Partner(p, a, i), p[i].op \in Splits \cup Closes
  PROVE  InForce(p, n, i + 1) = InForce(p, n, a)
<1>1. /\ a \in 1 .. i - 1 /\ p[a].op \in Opens /\ DepthAt(p, a) = DepthAt(p, i) - 1
      /\ \A j \in a + 1 .. i : DepthAt(p, j) > DepthAt(p, a)
  BY DEF Partner, OpenTo
<1>2. /\ LevelAt(p, i) = DepthAt(p, a) /\ (i + 1) - 1 = i
      /\ DepthAt(p, a) \in Int /\ LevelAt(p, a) = DepthAt(p, a) /\ a \in Nat \ {0}
  <2>1. a \in Nat \ {0} /\ p[a].op \notin Splits \cup Closes  BY <1>1 DEF Opens, Splits, Closes
  <2>2. DepthAt(p, i) \in Int /\ DepthAt(p, a) \in Int  BY <2>1, NestStep
  <2>3. LevelAt(p, i) = DepthAt(p, i) - 1 /\ LevelAt(p, a) = DepthAt(p, a)  BY <2>1, LevelBounds
  <2> QED  BY <1>1, <2>1, <2>2, <2>3
<1>3. \A j \in a .. i : LevelAt(p, j) \in Int /\ LevelAt(p, j) >= DepthAt(p, a)
  <2> TAKE j \in a .. i
  <2>1. j \in Nat \ {0} /\ (j = a \/ j \in a + 1 .. i)  BY <1>1
  <2>2. LevelAt(p, j) \in Int /\ DepthAt(p, j) \in Int /\ DepthAt(p, j) <= LevelAt(p, j) + 1
    BY <2>1, NestStep, LevelBounds
  <2> QED  BY <1>1, <1>2, <2>1, <2>2
<1>4. ASSUME NEW d \in InForce(p, n, a) PROVE d \in InForce(p, n, i + 1)
  <2>1. d \in 1 .. a - 1 /\ DepthAt(p, a) >= ScopeAt(p, d)  BY <1>2, InForceNested
  <2>2. d \in 1 .. i /\ ScopeAt(p, d) \in Int
    <3>1. d \in 1 .. i /\ d \in Nat \ {0}  BY <1>1, <2>1
    <3> QED  BY <3>1, NestStep
  <2>3. ASSUME NEW j \in d + 1 .. i PROVE LevelAt(p, j) >= ScopeAt(p, d)
    <3>1. j \in d + 1 .. a - 1 \/ j \in a .. i  BY <1>1, <2>1
    <3>2. CASE j \in d + 1 .. a - 1  BY <3>2 DEF InForce
    <3>3. CASE j \in a .. i  BY <1>2, <1>3, <2>1, <2>2, <3>3
    <3> QED  BY <3>1, <3>2, <3>3
  <2> QED  BY <1>2, <2>2, <2>3 DEF InForce
<1>5. ASSUME NEW d \in InForce(p, n, i + 1) PROVE d \in InForce(p, n, a)
  <2>1. /\ d \in 1 .. i /\ p[d].op \in {"decl", "for"} /\ p[d].n = n
        /\ \A j \in d + 1 .. i : LevelAt(p, j) >= ScopeAt(p, d)
    BY <1>2 DEF InForce
  <2>2. /\ ScopeAt(p, d) \in Int /\ DepthAt(p, d) \in Int /\ ScopeAt(p, d) >= DepthAt(p, d)
        /\ p[d].op \notin Splits \cup Closes
        /\ p[d].op = "for" => ScopeAt(p, d) = DepthAt(p, d) + 1
    BY <2>1, NestStep, ScopeBounds
  <2>3. d < i /\ ScopeAt(p, d) <= DepthAt(p, a)
    <3>1. d # i  BY <2>2
    <3>2. i \in d + 1 .. i  BY <2>1, <3>1
    <3> QED  BY <1>2, <2>1, <3>1, <3>2
  <2>4. d < a
    <3>1. d # a  BY <1>1, <1>2, <2>1, <2>2, <2>3 DEF Opens
    <3>2. ~(d > a)
      <4>1. d > a => d \in a + 1 .. i  BY <1>1, <2>1
      <4> QED  BY <1>1, <1>2, <2>2, <2>3, <4>1
    <3> QED  BY <1>1, <2>1, <3>1, <3>2
  <2>5. d \in 1 .. a - 1 /\ d + 1 .. a - 1 \subseteq d + 1 .. i  BY <1>1, <2>1, <2>4
  <2> QED  BY <2>1, <2>5 DEF InForce
<1> QED  BY <1>4, <1>5

\* The last of a set of positions, and the first.
LEMMA LastIs ==
  ASSUME NEW S \in SUBSET Int, NEW m \in S
  PROVE  /\ (\A j \in S : m >= j) => Last(S) = m
         /\ (\A j \in S : m <= j) => First(S) = m
<1>1. ASSUME \A j \in S : m >= j PROVE Last(S) = m
  <2>1. Last(S) \in S /\ \A j \in S : Last(S) >= j  BY <1>1, Zenon DEF Last
  <2>2. Last(S) >= m /\ m >= Last(S) /\ Last(S) \in Int /\ m \in Int  BY <1>1, <2>1
  <2> QED  BY <2>2
<1>2. ASSUME \A j \in S : m <= j PROVE First(S) = m
  <2>1. First(S) \in S /\ \A j \in S : First(S) <= j  BY <1>2, Zenon DEF First
  <2>2. First(S) <= m /\ m <= First(S) /\ First(S) \in Int /\ m \in Int  BY <1>2, <2>1
  <2> QED  BY <2>2
<1> QED  BY <1>1, <1>2

\* What a name means at token i itself: the condition of an elif is evaluated
\* outside the arms.
MeansAt(p, n, i) == IF p[i].op \in Splits \cup Closes THEN Meant(p, n, i + 1) ELSE Meant(p, n, i)

\* The nesting of the model is the one above.
LEMMA LevelIs ==
  ASSUME NEW S, prog \in Seq(S)
  PROVE  \A i \in DOMAIN prog : Level(i) = LevelAt(prog, i)
                                /\ ScopeLevel(i) = ScopeAt(prog, i)
<1> SUFFICES ASSUME NEW i \in DOMAIN prog
             PROVE  Level(i) = LevelAt(prog, i) /\ ScopeLevel(i) = ScopeAt(prog, i)
  OBVIOUS
<1>1. Len(prog) \in Nat /\ DOMAIN prog = 1 .. Len(prog)  BY LenProperties
<1>2. /\ {j \in Positions(Opens) : j < i} = {j \in 1 .. i - 1 : prog[j].op \in Opens}
      /\ {j \in Positions(Closes) : j < i} = {j \in 1 .. i - 1 : prog[j].op \in Closes}
  BY <1>1 DEF Positions
<1>3. Depth(i) = DepthAt(prog, i)  BY <1>2 DEF Depth, DepthAt
<1>4. i \in Positions(Splits \cup Closes) <=> prog[i].op \in Splits \cup Closes  BY DEF Positions
<1>5. Level(i) = LevelAt(prog, i)  BY <1>3, <1>4 DEF Level, LevelAt
<1> QED  BY <1>5 DEF ScopeLevel, ScopeAt

\* A name at token i means what the text up to there says.
LEMMA MeansIs ==
  ASSUME NEW S, prog \in Seq(S), NEW n, NEW i \in DOMAIN prog
  PROVE  Means(n, i) = MeansAt(prog, n, i)
<1>1. Len(prog) \in Nat /\ DOMAIN prog = 1 .. Len(prog) /\ i \in Nat \ {0} /\ (i + 1) - 1 = i
  BY LenProperties
<1>2. Visible(n, i) = {d \in 1 .. i - 1 : /\ prog[d].op \in {"decl", "for"} /\ prog[d].n = n
                                         /\ \A j \in d + 1 .. i : LevelAt(prog, j) >= ScopeAt(prog, d)}
  <2>1. \A d \in 1 .. i - 1 : d \in DOMAIN prog /\ d + 1 .. i \subseteq DOMAIN prog  BY <1>1
  <2>2. \A d \in 1 .. i - 1 : ScopeLevel(d) = ScopeAt(prog, d)
                              /\ \A j \in d + 1 .. i : Level(j) = LevelAt(prog, j)
    BY <2>1, LevelIs
  <2>3. \A d : d \in Positions({"decl", "for"}) /\ d < i
               <=> d \in 1 .. i - 1 /\ prog[d].op \in {"decl", "for"}
    BY <1>1 DEF Positions
  <2>4. Visible(n, i) = {d \in Positions({"decl", "for"}) :
                           d < i /\ prog[d].n = n /\ \A j \in d + 1 .. i : Level(j) >= ScopeLevel(d)}
    BY DEF Visible
  <2> QED  BY <2>2, <2>3, <2>4
<1>3. CASE prog[i].op \in Splits \cup Closes
  <2>1. i \notin InForce(prog, n, i + 1)  BY <1>3 DEF InForce, Splits, Closes
  <2>2. \A d \in 1 .. i : d # i <=> d \in 1 .. i - 1  BY <1>1
  <2>3. 1 .. i - 1 \subseteq 1 .. i  BY <1>1
  <2>4. Visible(n, i) = InForce(prog, n, i + 1)  BY <1>1, <1>2, <2>1, <2>2, <2>3 DEF InForce
  <2> QED  BY <1>3, <2>4 DEF Means, MeansAt, Meant
<1>4. CASE prog[i].op \notin Splits \cup Closes
  <2>1. ASSUME NEW d \in InForce(prog, n, i) PROVE d \in Visible(n, i)
    <3>1. d \in 1 .. i - 1 /\ DepthAt(prog, i) >= ScopeAt(prog, d)  BY <1>1, InForceNested
    <3>2. LevelAt(prog, i) = DepthAt(prog, i)  BY <1>1, <1>4, LevelBounds
    <3>3. \A j \in d + 1 .. i : j = i \/ j \in d + 1 .. i - 1  BY <1>1, <3>1
    <3> QED  BY <1>2, <3>1, <3>2, <3>3 DEF InForce
  <2>2. ASSUME NEW d \in Visible(n, i) PROVE d \in InForce(prog, n, i)
    <3>1. d \in 1 .. i - 1 /\ d + 1 .. i - 1 \subseteq d + 1 .. i  BY <1>1, <1>2
    <3> QED  BY <1>2, <3>1 DEF InForce
  <2>3. Visible(n, i) = InForce(prog, n, i)  BY <2>1, <2>2
  <2> QED  BY <1>4, <2>3 DEF Means, MeansAt, Meant
<1> QED  BY <1>3, <1>4

\* Inside a construct no token closes at its level.
LEMMA InsideDeeper ==
  ASSUME NEW p, NEW i \in Nat \ {0}, NEW a, Partner(p, a, i), p[i].op \in Closes
  PROVE  /\ a \in 1 .. i - 1 /\ LevelAt(p, i) = DepthAt(p, a) /\ LevelAt(p, a) = DepthAt(p, a)
         /\ \A j \in a + 1 .. i - 1 : p[j].op \in Opens \cup Closes => LevelAt(p, j) # DepthAt(p, a)
<1>1. /\ a \in 1 .. i - 1 /\ p[a].op \in Opens /\ DepthAt(p, a) = DepthAt(p, i) - 1
      /\ \A j \in a + 1 .. i : DepthAt(p, j) > DepthAt(p, a)
  BY DEF Partner, OpenTo
<1>2. a \in Nat \ {0} /\ p[a].op \notin Splits \cup Closes /\ p[i].op \in Splits \cup Closes
  BY <1>1 DEF Opens, Splits, Closes
<1>3. LevelAt(p, i) = DepthAt(p, a) /\ LevelAt(p, a) = DepthAt(p, a) /\ DepthAt(p, a) \in Int
  <2>1. LevelAt(p, i) = DepthAt(p, i) - 1 /\ LevelAt(p, a) = DepthAt(p, a)  BY <1>2, LevelBounds
  <2>2. DepthAt(p, a) \in Int /\ DepthAt(p, i) \in Int  BY <1>2, NestStep
  <2> QED  BY <1>1, <2>1, <2>2
<1>4. ASSUME NEW j \in a + 1 .. i - 1, p[j].op \in Opens \cup Closes PROVE LevelAt(p, j) # DepthAt(p, a)
  <2>1. j \in Nat \ {0} /\ j \in a + 1 .. i /\ j + 1 \in a + 1 .. i  BY <1>1
  <2>2. /\ DepthAt(p, j) > DepthAt(p, a) /\ DepthAt(p, j + 1) > DepthAt(p, a)
        /\ DepthAt(p, j) \in Int /\ DepthAt(p, j + 1) \in Int
    <3>1. j + 1 \in Nat \ {0}  BY <2>1
    <3> QED  BY <1>1, <2>1, <3>1, NestStep
  <2>3. CASE p[j].op \in Opens
    <3>1. p[j].op \notin Splits \cup Closes  BY <2>3 DEF Opens, Splits, Closes
    <3>2. LevelAt(p, j) = DepthAt(p, j)  BY <2>1, <3>1, LevelBounds
    <3> QED  BY <1>3, <2>2, <3>2
  <2>4. CASE p[j].op \in Closes
    <3>1. p[j].op \notin Opens  BY <2>4 DEF Opens, Closes
    <3>2. DepthAt(p, j + 1) = DepthAt(p, j) - 1  BY <2>1, <2>2, <2>4, <3>1, NestStep
    <3>3. LevelAt(p, j) = DepthAt(p, j) - 1  BY <2>1, <2>4, LevelBounds
    <3> QED  BY <1>3, <2>2, <3>2, <3>3
  <2> QED  BY <1>4, <2>3, <2>4
<1> QED  BY <1>1, <1>3, <1>4

\* A closing token and its construct find each other.
LEMMA EndsFound ==
  ASSUME NEW S, prog \in Seq(S), NEW i \in DOMAIN prog, NEW a, Partner(prog, a, i), prog[i].op \in Closes
  PROVE  a \in DOMAIN prog /\ OpenOf(i) = a /\ EndOf(a) = i
<1>1. Len(prog) \in Nat /\ DOMAIN prog = 1 .. Len(prog) /\ i \in Nat \ {0}  BY LenProperties
<1>2. /\ a \in 1 .. i - 1 /\ LevelAt(prog, i) = DepthAt(prog, a) /\ LevelAt(prog, a) = DepthAt(prog, a)
      /\ \A j \in a + 1 .. i - 1 : prog[j].op \in Opens \cup Closes => LevelAt(prog, j) # DepthAt(prog, a)
  BY <1>1, InsideDeeper
<1>3. a \in DOMAIN prog /\ prog[a].op \in Opens  BY <1>1, <1>2 DEF Partner, OpenTo
<1> DEFINE O == {j \in Positions(Opens) : j < i /\ Level(j) = Level(i)}
           C == {j \in Positions(Closes) : j > a /\ Level(j) = Level(a)}
<1>4. a \in O /\ i \in C
  <2>1. Level(a) = LevelAt(prog, a) /\ Level(i) = LevelAt(prog, i)  BY <1>3, LevelIs
  <2> QED  BY <1>1, <1>2, <1>3, <2>1 DEF Positions
<1>5. O \in SUBSET Int /\ C \in SUBSET Int  BY <1>1 DEF Positions
<1>6. \A j \in O : a >= j
  <2> SUFFICES ASSUME NEW j \in O, j > a PROVE FALSE  BY <1>1, <1>2, <1>5
  <2>1. j \in DOMAIN prog /\ prog[j].op \in Opens /\ j < i /\ Level(j) = Level(i)  BY DEF Positions
  <2>2. j \in a + 1 .. i - 1  BY <1>1, <1>2, <2>1
  <2>3. LevelAt(prog, j) = LevelAt(prog, i)  BY <2>1, LevelIs
  <2> QED  BY <1>2, <2>1, <2>2, <2>3
<1>7. \A j \in C : i <= j
  <2> SUFFICES ASSUME NEW j \in C, j < i PROVE FALSE  BY <1>1, <1>2, <1>5
  <2>1. j \in DOMAIN prog /\ prog[j].op \in Closes /\ j > a /\ Level(j) = Level(a)  BY DEF Positions
  <2>2. j \in a + 1 .. i - 1  BY <1>1, <1>2, <2>1
  <2>3. LevelAt(prog, j) = LevelAt(prog, a)  BY <1>3, <2>1, LevelIs
  <2> QED  BY <1>2, <2>1, <2>2, <2>3
<1>8. Last(O) = a /\ First(C) = i
  <2> HIDE DEF O, C
  <2> QED  BY <1>4, <1>5, <1>6, <1>7, LastIs
<1> QED  BY <1>3, <1>8 DEF OpenOf, EndOf

\* In a for whose body declares nothing of its own, the loop variable is all that
\* is in force at the end and was not ahead of it.
LEMMA InForceAfterFor ==
  ASSUME NEW p, NEW n, NEW i \in Nat \ {0}, NEW a, Partner(p, a, i), p[i].op \in Closes,
         p[a].op = "for", p[a].n # n,
         \A j \in a + 1 .. i - 1 : p[j].op = "decl" => DepthAt(p, j) # DepthAt(p, a) + 1
  PROVE  InForce(p, n, i) = InForce(p, n, a)
<1>1. /\ a \in 1 .. i - 1 /\ DepthAt(p, a) = DepthAt(p, i) - 1
      /\ \A j \in a + 1 .. i : DepthAt(p, j) > DepthAt(p, a)
  BY DEF Partner, OpenTo
<1>2. /\ a \in Nat \ {0} /\ DepthAt(p, a) \in Int /\ DepthAt(p, i) \in Int
      /\ LevelAt(p, a) = DepthAt(p, a)
  <2>1. a \in Nat \ {0} /\ p[a].op \notin Splits \cup Closes  BY <1>1 DEF Splits, Closes
  <2> QED  BY <2>1, NestStep, LevelBounds
<1>3. ASSUME NEW d \in InForce(p, n, a) PROVE d \in InForce(p, n, i)
  <2>1. d \in 1 .. a - 1 /\ DepthAt(p, a) >= ScopeAt(p, d)  BY <1>2, InForceNested
  <2>2. d \in 1 .. i - 1 /\ d \in Nat \ {0}  BY <1>1, <2>1
  <2>3. ScopeAt(p, d) \in Int  BY <2>2, NestStep
  <2>4. ASSUME NEW j \in d + 1 .. i - 1 PROVE LevelAt(p, j) >= ScopeAt(p, d)
    <3>1. j \in d + 1 .. a - 1 \/ j = a \/ j \in a + 1 .. i  BY <1>1, <2>1
    <3>2. CASE j \in d + 1 .. a - 1  BY <3>2 DEF InForce
    <3>3. CASE j = a  BY <1>2, <2>1, <3>3
    <3>4. CASE j \in a + 1 .. i
      <4>1. j \in Nat \ {0}  BY <2>1
      <4>2. LevelAt(p, j) \in Int /\ DepthAt(p, j) \in Int /\ DepthAt(p, j) <= LevelAt(p, j) + 1
        BY <4>1, NestStep, LevelBounds
      <4>3. DepthAt(p, j) > DepthAt(p, a)  BY <1>1, <3>4
      <4> QED  BY <1>2, <2>1, <2>3, <4>2, <4>3
    <3> QED  BY <3>1, <3>2, <3>3, <3>4
  <2> QED  BY <2>2, <2>4 DEF InForce
<1>4. ASSUME NEW d \in InForce(p, n, i) PROVE d \in InForce(p, n, a)
  <2>1. /\ d \in 1 .. i - 1 /\ p[d].op \in {"decl", "for"} /\ p[d].n = n
        /\ \A j \in d + 1 .. i - 1 : LevelAt(p, j) >= ScopeAt(p, d)
        /\ DepthAt(p, i) >= ScopeAt(p, d)
    BY InForceNested DEF InForce
  <2>2. d \in Nat \ {0}  BY <2>1
  <2>3. /\ ScopeAt(p, d) \in Int /\ DepthAt(p, d) \in Int /\ ScopeAt(p, d) >= DepthAt(p, d)
        /\ p[d].op = "for" => ScopeAt(p, d) = DepthAt(p, d) + 1
    BY <2>1, <2>2, NestStep, ScopeBounds
  <2>4. d # a  BY <2>1
  <2>5. ~(d > a)
    <3> SUFFICES ASSUME d > a PROVE FALSE  OBVIOUS
    <3>1. d \in a + 1 .. i - 1 /\ d \in a + 1 .. i  BY <1>1, <2>1
    <3>2. DepthAt(p, d) > DepthAt(p, a)  BY <1>1, <3>1
    <3>3. DepthAt(p, d) = DepthAt(p, a) + 1 /\ ScopeAt(p, d) = DepthAt(p, d)
      BY <1>1, <1>2, <2>1, <2>3, <3>2
    <3>4. p[d].op = "decl"  BY <2>1, <2>3, <3>3
    <3> QED  BY <3>1, <3>3, <3>4
  <2>6. d \in 1 .. a - 1 /\ d + 1 .. a - 1 \subseteq d + 1 .. i - 1
    BY <1>1, <2>1, <2>4, <2>5
  <2> QED  BY <2>1, <2>6 DEF InForce
<1> QED  BY <1>3, <1>4

\* What a declaration and a loop header do to the slots is what they declare.
LEMMA RightStep ==
  ASSUME NEW p, NEW i \in Nat \ {0}, NEW S, RightAt(p, S, i), p[i].op \notin Splits \cup Closes
  PROVE  /\ p[i].op \in {"decl", "for"} => RightAt(p, [S EXCEPT ![p[i].n] = i], i + 1)
         /\ p[i].op \notin {"decl", "for"} => RightAt(p, S, i + 1)
<1>1. CASE p[i].op \notin {"decl", "for"}
  <2>1. \A n : InForce(p, n, i + 1) = InForce(p, n, i)  BY <1>1, InForceStep
  <2>2. \A n : Meant(p, n, i + 1) = Meant(p, n, i)  BY <2>1 DEF Meant
  <2> QED  BY <1>1, <2>2 DEF RightAt
<1>2. CASE p[i].op \in {"decl", "for"}
  <2> DEFINE T == [S EXCEPT ![p[i].n] = i]
  <2>1. DOMAIN T = Name /\ \A n \in Name : T[n] = IF n = p[i].n THEN i ELSE S[n]
    BY DEF RightAt
  <2>2. ASSUME NEW n \in Name, n # p[i].n PROVE T[n] = Meant(p, n, i + 1)
    <3>1. InForce(p, n, i + 1) = InForce(p, n, i)  BY <2>2, InForceStep
    <3>2. Meant(p, n, i + 1) = Meant(p, n, i)  BY <3>1 DEF Meant
    <3> HIDE DEF T
    <3> QED  BY <2>1, <2>2, <3>2 DEF RightAt
  <2>3. ASSUME NEW n \in Name, n = p[i].n PROVE T[n] = Meant(p, n, i + 1)
    <3> DEFINE I == InForce(p, n, i + 1)
    <3>1. I = InForce(p, n, i) \cup {i}  BY <1>2, <2>3, InForceStep
    <3>2. \A d \in InForce(p, n, i) : d \in 1 .. i - 1  BY InForceNested
    <3> HIDE DEF I
    <3>3. I \in SUBSET Int /\ i \in I /\ \A j \in I : i >= j  BY <3>1, <3>2
    <3>4. Last(I) = i /\ I # {}  BY <3>3, LastIs
    <3>5. Meant(p, n, i + 1) = i  BY <3>4 DEF Meant, I
    <3> HIDE DEF T
    <3> QED  BY <2>1, <2>3, <3>5
  <2>4. RightAt(p, T, i + 1)
    <3> HIDE DEF T
    <3> QED  BY <2>1, <2>2, <2>3 DEF RightAt
  <2> QED  BY <1>2, <2>4
<1> QED  BY <1>1, <1>2

\* The slots saved ahead of a construct are right where one of its arms ends.
LEMMA RightAfterArm ==
  ASSUME NEW p, NEW i \in Nat \ {0}, NEW a, Partner(p, a, i), p[i].op \in Splits \cup Closes,
         NEW S, RightAt(p, S, a)
  PROVE  RightAt(p, S, i + 1)
<1>1. \A n : InForce(p, n, i + 1) = InForce(p, n, a)  BY InForceAfterArm
<1>2. \A n : Meant(p, n, i + 1) = Meant(p, n, a)  BY <1>1 DEF Meant
<1> QED  BY <1>2 DEF RightAt

\* ForExit gives the loop variable's slot back: enough if the body declares
\* nothing at its own level and control reaches its end.
LEMMA RightAfterFor ==
  ASSUME NEW p, NEW i \in Nat \ {0}, NEW a, Partner(p, a, i), p[i].op \in Closes, p[a].op = "for",
         \A j \in a + 1 .. i - 1 : p[j].op = "decl" => DepthAt(p, j) # DepthAt(p, a) + 1,
         NEW S, RightAt(p, S, a), NEW T, RightAt(p, T, i)
  PROVE  RightAt(p, [T EXCEPT ![p[a].n] = S[p[a].n]], i + 1)
<1> DEFINE U == [T EXCEPT ![p[a].n] = S[p[a].n]]
<1>1. DOMAIN U = Name /\ \A n \in Name : U[n] = IF n = p[a].n THEN S[n] ELSE T[n]  BY DEF RightAt
<1>2. \A n : InForce(p, n, i + 1) = InForce(p, n, a)  BY InForceAfterArm
<1>3. \A n : Meant(p, n, i + 1) = Meant(p, n, a)  BY <1>2 DEF Meant
<1>4. ASSUME NEW n \in Name, n # p[a].n PROVE Meant(p, n, i) = Meant(p, n, a)
  <2>1. InForce(p, n, i) = InForce(p, n, a)  BY <1>4, InForceAfterFor
  <2> QED  BY <2>1 DEF Meant
<1>5. ASSUME NEW n \in Name PROVE U[n] = Meant(p, n, i + 1)
  <2> HIDE DEF U
  <2>1. CASE n = p[a].n  BY <1>1, <1>3, <2>1 DEF RightAt
  <2>2. CASE n # p[a].n  BY <1>1, <1>3, <1>4, <2>2 DEF RightAt
  <2> QED  BY <2>1, <2>2
<1> HIDE DEF U
<1>6. RightAt(p, U, i + 1)  BY <1>1, <1>5 DEF RightAt
<1> QED  BY <1>6 DEF U

-----------------------------------------------------------------------------
(* Names are emitted as the variables they mean *)

\* A text as it is written: uses name bindings, an endif without a join block is
\* followed by no statement, every arm and end has its construct.
WellWritten(p, dd) ==
  /\ \A i \in 1 .. Len(p) : Used(p[i]) \subseteq Name
  /\ \A i \in 1 .. Len(p) : i \in dd /\ i + 1 <= Len(p) => p[i + 1].op \in Splits \cup Closes
  /\ \A i \in 1 .. Len(p) : p[i].op \in Splits \cup Closes => \E a \in 1 .. i - 1 : Partner(p, a, i) /\ DepthAt(p, a) >= 0
\* The open constructs of a text are those of the stack F.
Opened(p, F) ==
  /\ DepthAt(p, Len(p) + 1) = Len(F)
  /\ \A k \in 1 .. Len(F) : \E a \in 1 .. Len(p) :
       p[a].op = F[k].op /\ DepthAt(p, a) = Len(F) - k /\ OpenTo(p, a, Len(p) + 1)

\* Control reaches the end of every for body, and the body declares nothing at its
\* own level.
Tidy(p, dd) ==
  \A i \in 1 .. Len(p), a \in 1 .. Len(p) :
    p[i].op \in Closes /\ p[a].op = "for" /\ Partner(p, a, i) =>
      /\ i - 1 \notin dd
      /\ \A j \in a + 1 .. i - 1 : p[j].op = "decl" => DepthAt(p, j) # DepthAt(p, a) + 1

\* Ahead of token i the marks hold the slots of the open constructs, and the slots
\* are right unless the block before was never reached.
Marked(p, m, i) ==
  /\ DepthAt(p, i) = Len(m)
  /\ \A k \in 1 .. Len(m) : \E a \in 1 .. i - 1 :
       OpenTo(p, a, i) /\ DepthAt(p, a) = Len(m) - k /\ RightAt(p, m[k].slots, a)
AtToken(p, dd, m, s, i) == Marked(p, m, i) /\ (RightAt(p, s, i) \/ i - 1 \in dd)
Resolved(p, c) ==
  \A i \in 1 .. Len(c) : i # Len(p) + 1 => \A n \in Used(p[i]) : c[i].slots[n] = MeansAt(p, n, i)

\* The last mark belongs to the construct that an arm or an end is of.
LEMMA TopMark ==
  ASSUME NEW p, NEW i \in Nat \ {0}, NEW M, NEW m \in Seq(M), Marked(p, m, i),
         NEW a, Partner(p, a, i), DepthAt(p, a) >= 0
  PROVE  m # <<>> /\ Len(m) \in Nat \ {0} /\ RightAt(p, m[1].slots, a)
<1>1. /\ a \in 1 .. i - 1 /\ a \in Nat \ {0} /\ DepthAt(p, a) = DepthAt(p, i) - 1
      /\ \A j \in a + 1 .. i : DepthAt(p, j) > DepthAt(p, a)
  BY DEF Partner, OpenTo
<1>2. Len(m) \in Nat /\ DepthAt(p, i) = Len(m) /\ DepthAt(p, a) \in Int
  BY <1>1, LenProperties, NestStep DEF Marked
<1>3. Len(m) \in Nat \ {0} /\ 1 \in 1 .. Len(m)  BY <1>1, <1>2
<1>4. PICK b \in 1 .. i - 1 : OpenTo(p, b, i) /\ DepthAt(p, b) = Len(m) - 1 /\ RightAt(p, m[1].slots, b)
  BY <1>3 DEF Marked
<1>5. DepthAt(p, b) = DepthAt(p, a) /\ \A j \in b + 1 .. i : DepthAt(p, j) > DepthAt(p, b)
  BY <1>1, <1>2, <1>4 DEF OpenTo
<1>6. a = b
  <2>1. ~(a < b)
    <3>1. a < b => b \in a + 1 .. i  BY <1>1
    <3> QED  BY <1>1, <1>2, <1>5, <3>1
  <2>2. ~(b < a)
    <3>1. b < a => a \in b + 1 .. i  BY <1>1
    <3> QED  BY <1>1, <1>2, <1>5, <3>1
  <2> QED  BY <1>1, <2>1, <2>2
<1>7. m # <<>>  BY <1>3
<1> QED  BY <1>3, <1>4, <1>6, <1>7

\* A mark pushed at the head of a stack of marks; and the head taken away.
LEMMA Pushed ==
  ASSUME NEW M, NEW m \in Seq(M), NEW x
  PROVE  /\ <<x>> \o m \in Seq(M \cup {x}) /\ Len(<<x>> \o m) = Len(m) + 1 /\ Len(m) \in Nat
         /\ (<<x>> \o m)[1] = x
         /\ \A k \in 2 .. Len(m) + 1 : (<<x>> \o m)[k] = m[k - 1]
<1> DEFINE N == M \cup {x}
<1>1. m \in Seq(N) /\ <<x>> \in Seq(N) /\ Len(<<x>>) = 1 /\ <<x>>[1] = x
  <2>1. m \in Seq(N)  BY SeqMonotonic
  <2> QED  BY <2>1
<1>2. Len(m) \in Nat  BY LenProperties
<1>3. /\ <<x>> \o m \in Seq(N) /\ Len(<<x>> \o m) = 1 + Len(m)
      /\ \A i \in 1 .. 1 + Len(m) : (<<x>> \o m)[i] = IF i <= 1 THEN <<x>>[i] ELSE m[i - 1]
  <2> HIDE DEF N
  <2> QED  BY <1>1, ConcatProperties
<1> QED  BY <1>1, <1>2, <1>3

\* The token that follows finds the marks as this one leaves them.
LEMMA MarkedStep ==
  ASSUME NEW p, NEW i \in Nat \ {0}, NEW M, NEW m \in Seq(M), Marked(p, m, i)
  PROVE  /\ p[i].op \notin Opens \cup Closes => Marked(p, m, i + 1)
         /\ \A x : p[i].op \in Opens /\ RightAt(p, x.slots, i) => Marked(p, <<x>> \o m, i + 1)
         /\ p[i].op \in Closes /\ m # <<>> => Marked(p, Tail(m), i + 1)
<1>1. /\ Len(m) \in Nat /\ DepthAt(p, i) = Len(m) /\ i + 1 \in Nat \ {0} /\ (i + 1) - 1 = i
      /\ DepthAt(p, i + 1) = DepthAt(p, i) + (IF p[i].op \in Opens THEN 1
                                              ELSE IF p[i].op \in Closes THEN -1 ELSE 0)
  BY LenProperties, NestStep DEF Marked
<1>2. ASSUME NEW k \in 1 .. Len(m), DepthAt(p, i + 1) > Len(m) - k
      PROVE  \E a \in 1 .. i : OpenTo(p, a, i + 1) /\ DepthAt(p, a) = Len(m) - k /\ RightAt(p, m[k].slots, a)
  <2>1. PICK a \in 1 .. i - 1 : OpenTo(p, a, i) /\ DepthAt(p, a) = Len(m) - k /\ RightAt(p, m[k].slots, a)
    BY DEF Marked
  <2>2. \A j \in a + 1 .. i + 1 : j = i + 1 \/ j \in a + 1 .. i  OBVIOUS
  <2>3. a \in 1 .. i  OBVIOUS
  <2>4. OpenTo(p, a, i + 1)  BY <1>1, <1>2, <2>1, <2>2, <2>3 DEF OpenTo
  <2> QED  BY <2>1, <2>3, <2>4
<1>3. CASE p[i].op \notin Opens \cup Closes
  <2>1. \A k \in 1 .. Len(m) : DepthAt(p, i + 1) > Len(m) - k  BY <1>1, <1>3
  <2>2. DepthAt(p, i + 1) = Len(m)  BY <1>1, <1>3
  <2>3. Marked(p, m, i + 1)  BY <1>1, <1>2, <2>1, <2>2 DEF Marked
  <2> QED  BY <1>3, <2>3
<1>4. ASSUME NEW x, p[i].op \in Opens, RightAt(p, x.slots, i) PROVE Marked(p, <<x>> \o m, i + 1)
  <2> DEFINE mm == <<x>> \o m
  <2>1. Len(mm) = Len(m) + 1 /\ mm[1] = x /\ \A k \in 2 .. Len(m) + 1 : mm[k] = m[k - 1]  BY Pushed
  <2> HIDE DEF mm
  <2>2. DepthAt(p, i + 1) = Len(mm)  BY <1>1, <1>4, <2>1
  <2>3. i \in 1 .. i /\ OpenTo(p, i, i + 1)
    <3>1. \A j \in i + 1 .. i + 1 : j = i + 1  OBVIOUS
    <3>2. DepthAt(p, i + 1) > DepthAt(p, i)  BY <1>1, <1>4
    <3>3. i \in 1 .. i  OBVIOUS
    <3> QED  BY <1>1, <1>4, <3>1, <3>2, <3>3 DEF OpenTo
  <2>4. ASSUME NEW k \in 1 .. Len(mm)
        PROVE  \E a \in 1 .. i : OpenTo(p, a, i + 1) /\ DepthAt(p, a) = Len(mm) - k /\ RightAt(p, mm[k].slots, a)
    <3>1. CASE k = 1
      <4>1. DepthAt(p, i) = Len(mm) - k  BY <1>1, <2>1, <3>1
      <4> QED  BY <1>4, <2>1, <2>3, <3>1, <4>1
    <3>2. CASE k # 1
      <4>1. /\ k \in 2 .. Len(m) + 1 /\ k - 1 \in 1 .. Len(m) /\ mm[k] = m[k - 1]
            /\ Len(m) - (k - 1) = Len(mm) - k /\ DepthAt(p, i + 1) > Len(m) - (k - 1)
        <5>1. k \in 2 .. Len(m) + 1 /\ k - 1 \in 1 .. Len(m)  BY <1>1, <2>1, <3>2
        <5> QED  BY <1>1, <1>4, <2>1, <5>1
      <4> QED  BY <1>2, <4>1
    <3> QED  BY <3>1, <3>2
  <2>5. Marked(p, mm, i + 1)  BY <1>1, <2>2, <2>4 DEF Marked
  <2> QED  BY <2>5 DEF mm
<1>5. CASE p[i].op \in Closes /\ m # <<>>
  <2> DEFINE t == Tail(m)
  <2>1. Len(t) = Len(m) - 1 /\ \A k \in 1 .. Len(t) : t[k] = m[k + 1]  BY <1>5, HeadTailProperties
  <2> HIDE DEF t
  <2>2. DepthAt(p, i + 1) = Len(t)
    <3>1. p[i].op \notin Opens  BY <1>5 DEF Opens, Closes
    <3> QED  BY <1>1, <1>5, <2>1, <3>1
  <2>3. ASSUME NEW k \in 1 .. Len(t)
        PROVE  \E a \in 1 .. i : OpenTo(p, a, i + 1) /\ DepthAt(p, a) = Len(t) - k /\ RightAt(p, t[k].slots, a)
    <3>1. /\ k + 1 \in 1 .. Len(m) /\ t[k] = m[k + 1]
          /\ Len(m) - (k + 1) = Len(t) - k /\ DepthAt(p, i + 1) > Len(m) - (k + 1)
      BY <1>1, <2>1, <2>2
    <3> QED  BY <1>2, <3>1
  <2>4. Marked(p, t, i + 1)  BY <1>1, <2>2, <2>3 DEF Marked
  <2>5. p[i].op \notin Opens  BY <1>5 DEF Opens, Closes
  <2> QED  BY <1>5, <2>4, <2>5 DEF t
<1>6. CASE p[i].op \in Closes /\ m = <<>>
  <2>1. p[i].op \notin Opens  BY <1>6 DEF Opens, Closes
  <2> QED  BY <1>6, <2>1
<1>7. CASE p[i].op \in Opens
  <2>1. p[i].op \notin Closes  BY <1>7 DEF Opens, Closes
  <2> QED  BY <1>4, <1>7, <2>1
<1> QED  BY <1>3, <1>5, <1>6, <1>7

\* Writing a token keeps the text well written.
LEMMA WriteText ==
  ASSUME NEW T, NEW p \in Seq(T), NEW t, NEW dd \in SUBSET (1 .. Len(p)), WellWritten(p, dd),
         Used(t) \subseteq Name, Len(p) \in dd => t.op \in Splits \cup Closes,
         t.op \in Splits \cup Closes =>
           \E a \in 1 .. Len(p) : Partner(Append(p, t), a, Len(p) + 1) /\ DepthAt(Append(p, t), a) >= 0,
         NEW d2, d2 = dd \/ d2 = dd \cup {Len(p) + 1}
  PROVE  WellWritten(Append(p, t), d2) /\ d2 \subseteq 1 .. Len(Append(p, t))
<1> DEFINE q == Append(p, t)
           m == Len(p)
<1>1. m \in Nat /\ Len(q) = m + 1 /\ q[m + 1] = t /\ \A j \in 1 .. m : q[j] = p[j]
  <2>1. p \in Seq(T \cup {t})  BY SeqMonotonic
  <2> QED  BY <2>1, AppendProperties, LenProperties
<1> HIDE DEF q
<1>2. /\ \A i \in 1 .. m + 1 : DepthAt(q, i) = DepthAt(p, i)
      /\ \A a : \A i \in 1 .. m : Partner(q, a, i) <=> Partner(p, a, i)
  BY <1>1, SameText
<1> HIDE DEF m
<1>3. \A i \in 1 .. m + 1 : i = m + 1 \/ i \in 1 .. m  BY <1>1
<1>4. ASSUME NEW i \in 1 .. m + 1 PROVE Used(q[i]) \subseteq Name
  <2>1. \A k \in 1 .. m : Used(p[k]) \subseteq Name  BY DEF WellWritten, m
  <2>2. CASE i = m + 1  BY <1>1, <2>2
  <2>3. CASE i \in 1 .. m
    <3>1. q[i] = p[i]  BY <1>1, <2>3
    <3> QED  BY <2>1, <2>3, <3>1
  <2> QED  BY <1>3, <2>2, <2>3
<1>5. ASSUME NEW i \in 1 .. m + 1, i \in d2, i + 1 <= m + 1 PROVE q[i + 1].op \in Splits \cup Closes
  <2>1. i \in 1 .. m /\ i \in dd  BY <1>1, <1>5 DEF m
  <2>2. CASE i = m  BY <1>1, <2>1, <2>2 DEF m
  <2>3. CASE i # m
    <3>1. i + 1 \in 1 .. m /\ i + 1 <= m  BY <1>1, <2>1, <2>3
    <3> QED  BY <1>1, <2>1, <3>1 DEF WellWritten, m
  <2> QED  BY <2>2, <2>3
<1>6. ASSUME NEW i \in 1 .. m + 1, q[i].op \in Splits \cup Closes
      PROVE  \E a \in 1 .. i - 1 : Partner(q, a, i) /\ DepthAt(q, a) >= 0
  <2>1. CASE i = m + 1
    <3>1. 1 .. i - 1 = 1 .. m  BY <1>1, <2>1
    <3> QED  BY <1>1, <1>6, <2>1, <3>1 DEF q, m
  <2>2. CASE i \in 1 .. m
    <3>1. PICK a \in 1 .. i - 1 : Partner(p, a, i) /\ DepthAt(p, a) >= 0
      BY <1>1, <1>6, <2>2 DEF WellWritten, m
    <3>2. a \in 1 .. m + 1  BY <1>1, <2>2
    <3> QED  BY <1>2, <2>2, <3>1, <3>2
  <2> QED  BY <1>3, <2>1, <2>2
<1>7. WellWritten(q, d2)  BY <1>1, <1>4, <1>5, <1>6 DEF WellWritten
<1>8. d2 \subseteq 1 .. m + 1
  <2>1. dd \subseteq 1 .. m  BY DEF m
  <2>2. 1 .. m \subseteq 1 .. m + 1 /\ m + 1 \in 1 .. m + 1  BY <1>1
  <2> QED  BY <2>1, <2>2 DEF m
<1> QED  BY <1>1, <1>7, <1>8 DEF q

\* Writing a token keeps the stack of open constructs that of the text.
LEMMA WriteOpened ==
  ASSUME NEW T, NEW p \in Seq(T), NEW t, NEW F, NEW G, Len(F) \in Nat, Len(G) \in Nat, Opened(p, F),
         Len(G) - Len(F) = IF t.op \in Opens THEN 1 ELSE IF t.op \in Closes THEN -1 ELSE 0,
         \A k \in 1 .. Len(G) :
           \/ k - (Len(G) - Len(F)) \in 1 .. Len(F) /\ G[k].op = F[k - (Len(G) - Len(F))].op
           \/ k = 1 /\ t.op \in Opens /\ G[1].op = t.op
  PROVE  Opened(Append(p, t), G)
<1> DEFINE q == Append(p, t)
           m == Len(p)
           e == Len(G) - Len(F)
<1>1. m \in Nat /\ Len(q) = m + 1 /\ q[m + 1] = t /\ \A j \in 1 .. m : q[j] = p[j]
  <2>1. p \in Seq(T \cup {t})  BY SeqMonotonic
  <2> QED  BY <2>1, AppendProperties, LenProperties
<1> HIDE DEF q
<1>2. /\ \A i \in 1 .. m + 1 : DepthAt(q, i) = DepthAt(p, i)
      /\ \A a, i : i \in 1 .. m + 1 => (OpenTo(q, a, i) <=> OpenTo(p, a, i))
  BY <1>1, SameText
<1>3. DepthAt(p, m + 1) = Len(F)  BY DEF Opened
<1>4. ASSUME NEW k \in 1 .. Len(F)
      PROVE  \E a \in 1 .. m : p[a].op = F[k].op /\ DepthAt(p, a) = Len(F) - k /\ OpenTo(p, a, m + 1)
  BY DEF Opened
<1> HIDE DEF m
<1>5. DepthAt(q, m + 2) = Len(G) /\ DepthAt(q, m + 1) = Len(F)
  <2>1. m + 1 \in Nat \ {0} /\ m + 1 \in 1 .. m + 1 /\ (m + 1) + 1 = m + 2  BY <1>1
  <2>2. DepthAt(q, m + 1) = Len(F)  BY <1>2, <1>3, <2>1
  <2>3. DepthAt(q, (m + 1) + 1) = DepthAt(q, m + 1) + (IF q[m + 1].op \in Opens THEN 1
                                                    ELSE IF q[m + 1].op \in Closes THEN -1 ELSE 0)
    BY <2>1, NestStep
  <2>4. DepthAt(q, m + 2) = Len(F) + (Len(G) - Len(F))  BY <1>1, <2>1, <2>2, <2>3
  <2> QED  BY <2>2, <2>4
<1> HIDE DEF e
<1>6. ASSUME NEW k \in 1 .. Len(G)
      PROVE  \E a \in 1 .. m + 1 : q[a].op = G[k].op /\ DepthAt(q, a) = Len(G) - k /\ OpenTo(q, a, m + 2)
  <2>1. CASE k - e \in 1 .. Len(F) /\ G[k].op = F[k - e].op
    <3>1. PICK a \in 1 .. m : p[a].op = F[k - e].op /\ DepthAt(p, a) = Len(F) - (k - e) /\ OpenTo(p, a, m + 1)
      BY <1>4, <2>1
    <3>2. Len(F) - (k - e) = Len(G) - k /\ Len(G) > Len(G) - k  BY DEF e
    <3>3. a \in 1 .. m + 1 /\ m + 1 \in 1 .. m + 1 /\ q[a] = p[a]  BY <1>1
    <3>4. DepthAt(q, a) = Len(G) - k /\ OpenTo(q, a, m + 1)  BY <1>2, <3>1, <3>2, <3>3
    <3>5. \A j \in a + 1 .. m + 2 : j = m + 2 \/ j \in a + 1 .. m + 1  BY <1>1, <3>3
    <3>6. (m + 2) - 1 = m + 1  BY <1>1
    <3>7. OpenTo(q, a, m + 2)  BY <1>5, <3>2, <3>3, <3>4, <3>5, <3>6 DEF OpenTo
    <3> QED  BY <2>1, <3>1, <3>3, <3>4, <3>7
  <2>2. CASE k = 1 /\ t.op \in Opens /\ G[1].op = t.op
    <3>1. Len(G) = Len(F) + 1  BY <2>2
    <3>2. m + 1 \in 1 .. m + 1 /\ (m + 2) - 1 = m + 1 /\ (m + 1) + 1 = m + 2  BY <1>1
    <3>3. \A j \in (m + 1) + 1 .. m + 2 : j = m + 2  BY <1>1
    <3>4. DepthAt(q, m + 1) = Len(G) - k /\ DepthAt(q, m + 2) > DepthAt(q, m + 1)  BY <1>5, <2>2, <3>1
    <3>5. OpenTo(q, m + 1, m + 2)  BY <1>1, <2>2, <3>2, <3>3, <3>4 DEF OpenTo
    <3> QED  BY <1>1, <2>2, <3>2, <3>4, <3>5
  <2> QED  BY <2>1, <2>2 DEF e
<1>7. (m + 1) + 1 = m + 2  BY <1>1
<1>8. Opened(q, G)  BY <1>1, <1>5, <1>6, <1>7 DEF Opened
<1> QED  BY <1>8 DEF q

\* An arm or an end written is of the construct at the head of the stack.
LEMMA WritePartner ==
  ASSUME NEW T, NEW p \in Seq(T), NEW t, NEW F, Len(F) \in Nat \ {0}, Opened(p, F),
         F[1].op \in Opens, t.op \in Closes => t.op = Closer[F[1].op], t.op \in Splits => F[1].op = "if"
  PROVE  \E a \in 1 .. Len(p) : Partner(Append(p, t), a, Len(p) + 1) /\ DepthAt(Append(p, t), a) >= 0
<1> DEFINE q == Append(p, t)
           m == Len(p)
<1>1. m \in Nat /\ Len(q) = m + 1 /\ q[m + 1] = t /\ \A j \in 1 .. m : q[j] = p[j]
  <2>1. p \in Seq(T \cup {t})  BY SeqMonotonic
  <2> QED  BY <2>1, AppendProperties, LenProperties
<1> HIDE DEF q
<1>2. /\ \A i \in 1 .. m + 1 : DepthAt(q, i) = DepthAt(p, i)
      /\ \A a, i : i \in 1 .. m + 1 => (OpenTo(q, a, i) <=> OpenTo(p, a, i))
  BY <1>1, SameText
<1>3. 1 \in 1 .. Len(F)  OBVIOUS
<1>4. PICK a \in 1 .. m : p[a].op = F[1].op /\ DepthAt(p, a) = Len(F) - 1 /\ OpenTo(p, a, m + 1)
  BY <1>3 DEF Opened
<1>5. DepthAt(p, m + 1) = Len(F)  BY DEF Opened
<1> HIDE DEF m
<1>6. a \in 1 .. m + 1 /\ m + 1 \in 1 .. m + 1 /\ q[a] = p[a]  BY <1>1
<1>7. DepthAt(q, a) = Len(F) - 1 /\ DepthAt(q, m + 1) = Len(F) /\ OpenTo(q, a, m + 1)
  BY <1>2, <1>4, <1>5, <1>6
<1>8. Partner(q, a, m + 1)  BY <1>1, <1>4, <1>6, <1>7 DEF Partner
<1> QED  BY <1>7, <1>8 DEF q, m

\* The head of a sequence replaced, and taken away.
LEMMA Replaced ==
  ASSUME NEW S, NEW s \in Seq(S), s # <<>>, NEW x \in S
  PROVE  /\ <<x>> \o Tail(s) \in Seq(S) /\ Len(<<x>> \o Tail(s)) = Len(s) /\ Len(s) \in Nat \ {0}
         /\ (<<x>> \o Tail(s))[1] = x /\ Head(s) = s[1] /\ s[1] \in S
         /\ \A k \in 2 .. Len(s) : (<<x>> \o Tail(s))[k] = s[k]
         /\ Tail(s) \in Seq(S) /\ Len(Tail(s)) = Len(s) - 1
         /\ \A k \in 1 .. Len(s) - 1 : Tail(s)[k] = s[k + 1]
<1>1. Len(s) \in Nat \ {0} /\ Head(s) = s[1] /\ s[1] \in S  BY EmptySeq
<1>2. Tail(s) \in Seq(S) /\ Len(Tail(s)) = Len(s) - 1 /\ \A k \in 1 .. Len(s) - 1 : Tail(s)[k] = s[k + 1]
  BY HeadTailProperties
<1> DEFINE u == Tail(s)
<1> HIDE DEF u
<1>3. u \in Seq(S) /\ Len(u) = Len(s) - 1 /\ \A k \in 1 .. Len(s) - 1 : u[k] = s[k + 1]  BY <1>2 DEF u
<1>4. /\ <<x>> \o u \in Seq(S \cup {x}) /\ Len(<<x>> \o u) = Len(u) + 1
      /\ (<<x>> \o u)[1] = x
      /\ \A k \in 2 .. Len(u) + 1 : (<<x>> \o u)[k] = u[k - 1]
  BY <1>3, Pushed
<1>5. S \cup {x} = S  OBVIOUS
<1>6. \A k \in 2 .. Len(s) : (<<x>> \o u)[k] = s[k]
  <2> TAKE k \in 2 .. Len(s)
  <2>1. k \in 2 .. Len(u) + 1 /\ k - 1 \in 1 .. Len(s) - 1 /\ (k - 1) + 1 = k  BY <1>1, <1>3
  <2> QED  BY <1>3, <1>4, <2>1
<1>7. <<x>> \o u \in Seq(S) /\ Len(<<x>> \o u) = Len(s)  BY <1>1, <1>3, <1>4, <1>5
<1> QED  BY <1>1, <1>2, <1>4, <1>6, <1>7 DEF u

-----------------------------------------------------------------------------
(* The inductive invariant *)

Token    == Text \cup {[op |-> o] : o \in Closes}
DeclName == {t.n : t \in Text}
Frames   == [op : Opens, names : SUBSET DeclName, var : SUBSET DeclName, hasElse : BOOLEAN, falls : BOOLEAN]

\* The text, the slots while it is written, and what was emitted of it.
TextInv ==
  /\ prog \in Seq(Token) /\ stack \in Seq(Frames) /\ live \in BOOLEAN /\ dead \subseteq 1 .. Len(prog)
  /\ WellWritten(prog, dead)
Writes ==
  stage = "write" =>
    /\ Opened(prog, stack) /\ (Len(prog) \in dead => ~live)
    /\ code = <<>> /\ marks = <<>> /\ slots = [n \in Name |-> 0]
EmitInv ==
  /\ \E S : code \in Seq(S)
  /\ Len(code) <= Len(prog) + 1 /\ (stage = "emit" => Len(code) <= Len(prog))
  /\ Tidy(prog, dead) => /\ Resolved(prog, code) /\ \E S : marks \in Seq(S)
                         /\ stage = "emit" => AtToken(prog, dead, marks, slots, Len(code) + 1)
Scoped == TextInv /\ Writes /\ EmitInv

\* Nothing is emitted while the body is written.
LEMMA NothingEmitted == stage = "write" /\ TextInv /\ Writes => EmitInv
<1> SUFFICES ASSUME stage = "write", TextInv, Writes PROVE EmitInv  OBVIOUS
<1>1. code = <<>> /\ marks = <<>>  BY DEF Writes
<1>2. code \in Seq({}) /\ marks \in Seq({}) /\ Len(code) = 0  BY <1>1, EmptySeq
<1>3. Resolved(prog, code)
  <2>1. 1 .. Len(code) = {}  BY <1>2
  <2> QED  BY <2>1 DEF Resolved
<1>4. Len(prog) \in Nat  BY LenProperties DEF TextInv
<1> QED  BY <1>2, <1>3, <1>4 DEF EmitInv

\* The invariant holds before anything is written.
LEMMA InitScoped == Init => Scoped
<1> SUFFICES ASSUME Init PROVE Scoped  OBVIOUS
<1> USE DEF Init
<1>1. prog \in Seq(Token) /\ stack \in Seq(Frames) /\ Len(prog) = 0 /\ Len(stack) = 0  BY EmptySeq
<1>2. 1 .. Len(prog) = {} /\ 1 .. Len(stack) = {} /\ Len(prog) + 1 = 1  BY <1>1
<1>3. WellWritten(prog, dead)  BY <1>2 DEF WellWritten
<1>4. DepthAt(prog, 1) = 0
  <2>1. 1 .. 1 - 1 = {}  OBVIOUS
  <2>2. {j \in 1 .. 1 - 1 : prog[j].op \in Opens} = {} /\ {j \in 1 .. 1 - 1 : prog[j].op \in Closes} = {}
    BY <2>1
  <2> QED  BY <2>2, FS_EmptySet DEF DepthAt
<1>5. Opened(prog, stack)  BY <1>1, <1>2, <1>4 DEF Opened
<1>6. TextInv /\ Writes  BY <1>1, <1>3, <1>5 DEF TextInv, Writes
<1> QED  BY <1>6, NothingEmitted DEF Scoped

\* What every step of writing has in common.
LEMMA WriteKeeps ==
  ASSUME TextInv, Writes, stage = "write", NEW t \in Token, prog' = Append(prog, t),
         UNCHANGED <<stage, emitted, node, env>>, stack' \in Seq(Frames), live' \in BOOLEAN,
         Used(t) \subseteq Name, t.op \notin Splits \cup Closes => live,
         t.op \in Splits \cup Closes =>
           /\ stack # <<>>
           /\ t.op \in Closes => t.op = Closer[stack[1].op]
           /\ t.op \in Splits => stack[1].op = "if",
         dead' = dead \/ (dead' = dead \cup {Len(prog) + 1} /\ ~live'),
         Len(stack') - Len(stack) = IF t.op \in Opens THEN 1 ELSE IF t.op \in Closes THEN -1 ELSE 0,
         \A k \in 1 .. Len(stack') :
           \/ k - (Len(stack') - Len(stack)) \in 1 .. Len(stack) /\ stack'[k].op = stack[k - (Len(stack') - Len(stack))].op
           \/ k = 1 /\ t.op \in Opens /\ stack'[1].op = t.op
  PROVE  Scoped'
<1>1. /\ prog \in Seq(Token) /\ stack \in Seq(Frames) /\ dead \in SUBSET (1 .. Len(prog))
      /\ WellWritten(prog, dead) /\ Opened(prog, stack) /\ (Len(prog) \in dead => ~live)
  BY DEF TextInv, Writes
<1>2. Len(stack) \in Nat /\ Len(stack') \in Nat /\ Len(prog) \in Nat  BY <1>1, LenProperties
<1>3. prog' \in Seq(Token) /\ Len(prog') = Len(prog) + 1  BY <1>1, AppendProperties
<1>4. t.op \in Splits \cup Closes =>
        \E a \in 1 .. Len(prog) : Partner(prog', a, Len(prog) + 1) /\ DepthAt(prog', a) >= 0
  <2> HAVE t.op \in Splits \cup Closes
  <2>1. Len(stack) \in Nat \ {0} /\ stack[1].op \in Opens
    <3>1. Len(stack) \in Nat \ {0}  BY <1>1, EmptySeq
    <3>2. stack[1] \in Frames  BY <1>1, <3>1, ElementOfSeq
    <3> QED  BY <3>1, <3>2 DEF Frames
  <2> QED  BY <1>1, <2>1, WritePartner
<1>5. WellWritten(prog', dead') /\ dead' \subseteq 1 .. Len(prog')
  <2>1. Len(prog) \in dead => t.op \in Splits \cup Closes  BY <1>1
  <2> QED  BY <1>1, <1>4, <2>1, WriteText
<1>6. Opened(prog', stack')  BY <1>1, <1>2, WriteOpened
<1>7. Len(prog') \in dead' => ~live'  BY <1>1, <1>2, <1>3
<1>8. TextInv'  BY <1>3, <1>5 DEF TextInv
<1>9. Writes'  BY <1>6, <1>7 DEF Writes, emitted
<1>10. stage' = "write" /\ TextInv' /\ Writes' => EmitInv'
  <2>1. (stage = "write" /\ TextInv /\ Writes => EmitInv)'  BY NothingEmitted, PTL
  <2> QED  BY <2>1
<1> QED  BY <1>8, <1>9, <1>10 DEF Scoped

\* A statement, a declaration or a jump is written.
LEMMA WriteTokenScoped ==
  ASSUME TextInv, Writes, NEW t \in Text, WritePlain(t) \/ WriteJump(t)
  PROVE  Scoped'
<1>1. /\ stage = "write" /\ UNCHANGED <<stage, emitted, node, env>>
      /\ t.op \in Plain \cup Jumps /\ live /\ prog' = Append(prog, t) /\ t \in Token
  BY DEF WritePlain, WriteJump, Writing, Put, Token
<1>2. t.op \notin Opens \cup Splits \cup Closes
  BY <1>1 DEF Plain, Jumps, Opens, Splits, Closes
<1>3. Used(t) \subseteq Name
  <2>1. CASE WritePlain(t)  BY <2>1 DEF WritePlain, InScope
  <2>2. CASE WriteJump(t)  BY <2>2 DEF WriteJump, Writing, Used, Jumps
  <2> QED  BY <2>1, <2>2
<1>4. stack \in Seq(Frames) /\ live \in BOOLEAN /\ live' \in BOOLEAN /\ dead' = dead
  BY DEF TextInv, WritePlain, WriteJump
<1>5. /\ stack' \in Seq(Frames) /\ Len(stack') = Len(stack) /\ Len(stack) \in Nat
      /\ \A k \in 1 .. Len(stack) : stack'[k].op = stack[k].op
  <2>1. CASE stack' = stack  BY <1>4, <2>1, LenProperties
  <2>2. CASE stack' # stack
    <3> DEFINE x == [Head(stack) EXCEPT !.names = @ \cup {t.n}]
    <3>1. WritePlain(t) /\ t.op = "decl" /\ stack' = <<x>> \o Tail(stack) /\ stack # <<>>
      BY <2>2 DEF WritePlain, WriteJump, MayAppear
    <3>2. Head(stack) \in Frames /\ Head(stack) = stack[1]  BY <1>4, <3>1, EmptySeq
    <3>3. x \in Frames /\ x.op = stack[1].op
      <4>1. t.n \in DeclName  BY DEF DeclName
      <4> QED  BY <3>2, <4>1 DEF Frames
    <3> HIDE DEF x
    <3>4. /\ stack' \in Seq(Frames) /\ Len(stack') = Len(stack) /\ Len(stack) \in Nat /\ stack'[1] = x
          /\ \A k \in 2 .. Len(stack) : stack'[k] = stack[k]
      BY <1>4, <3>1, <3>3, Replaced
    <3>5. \A k \in 1 .. Len(stack) : k = 1 \/ k \in 2 .. Len(stack)  BY <3>4
    <3> QED  BY <3>3, <3>4, <3>5
  <2> QED  BY <2>1, <2>2
<1>6. \A k \in 1 .. Len(stack') :
        k - (Len(stack') - Len(stack)) \in 1 .. Len(stack)
        /\ stack'[k].op = stack[k - (Len(stack') - Len(stack))].op
  <2>1. \A k \in 1 .. Len(stack') : k - (Len(stack') - Len(stack)) = k  BY <1>5
  <2> QED  BY <1>5, <2>1
<1>7. Len(stack') - Len(stack) = 0  BY <1>5
<1> QED  BY <1>1, <1>2, <1>3, <1>4, <1>5, <1>6, <1>7, WriteKeeps

\* A construct is opened: its frame is pushed.
LEMMA WriteOpenScoped ==
  ASSUME TextInv, Writes, NEW t \in Text, WriteOpen(t)
  PROVE  Scoped'
<1>1. /\ stage = "write" /\ UNCHANGED <<stage, emitted, node, env>>
      /\ t.op \in Opens /\ live /\ prog' = Append(prog, t) /\ t \in Token
      /\ Used(t) \subseteq Name /\ live' = live /\ dead' = dead /\ stack' = <<Frame(t)>> \o stack
  BY DEF WriteOpen, Writing, InScope, Token
<1>2. t.op \notin Splits \cup Closes  BY <1>1 DEF Opens, Splits, Closes
<1>3. stack \in Seq(Frames) /\ live' \in BOOLEAN  BY <1>1 DEF TextInv
<1> DEFINE x == Frame(t)
<1>4. x \in Frames /\ x.op = t.op
  <2>1. t.n \in DeclName  BY DEF DeclName
  <2> QED  BY <1>1, <2>1 DEF Frame, Frames
<1> HIDE DEF x
<1>5. /\ stack' \in Seq(Frames \cup {x}) /\ Len(stack') = Len(stack) + 1 /\ Len(stack) \in Nat
      /\ stack'[1] = x /\ \A k \in 2 .. Len(stack) + 1 : stack'[k] = stack[k - 1]
  BY <1>1, <1>3, Pushed DEF x
<1>6. Frames \cup {x} = Frames  BY <1>4
<1>7. \A k \in 1 .. Len(stack') :
        \/ k - (Len(stack') - Len(stack)) \in 1 .. Len(stack)
           /\ stack'[k].op = stack[k - (Len(stack') - Len(stack))].op
        \/ k = 1 /\ t.op \in Opens /\ stack'[1].op = t.op
  <2> TAKE k \in 1 .. Len(stack')
  <2>1. CASE k = 1  BY <1>1, <1>4, <1>5, <2>1
  <2>2. CASE k # 1
    <3>1. k - (Len(stack') - Len(stack)) = k - 1 /\ k - 1 \in 1 .. Len(stack) /\ k \in 2 .. Len(stack) + 1
      BY <1>5, <2>2
    <3> QED  BY <1>5, <3>1
  <2> QED  BY <2>1, <2>2
<1>8. Len(stack') - Len(stack) = 1  BY <1>5
<1>9. stack' \in Seq(Frames)  BY <1>5, <1>6
<1> QED  BY <1>1, <1>2, <1>3, <1>7, <1>8, <1>9, WriteKeeps

\* An arm of the innermost if is ended and another begun.
LEMMA WriteSplitScoped ==
  ASSUME TextInv, Writes, NEW t \in Text, WriteSplit(t)
  PROVE  Scoped'
<1> DEFINE x == [Head(stack) EXCEPT !.names = {}, !.hasElse = t.op = "else", !.falls = @ \/ live]
<1>1. /\ stage = "write" /\ UNCHANGED <<stage, emitted, node, env>>
      /\ t.op \in Splits /\ prog' = Append(prog, t) /\ t \in Token
      /\ Used(t) \subseteq Name /\ live' = TRUE /\ dead' = dead /\ stack # <<>> /\ Head(stack).op = "if"
      /\ stack' = <<x>> \o Tail(stack)
  BY DEF WriteSplit, Writing, Put, InScope, Token
<1>2. t.op \notin Opens \cup Closes  BY <1>1 DEF Opens, Splits, Closes
<1>3. stack \in Seq(Frames) /\ live \in BOOLEAN  BY DEF TextInv
<1>4. Head(stack) \in Frames /\ Head(stack) = stack[1]  BY <1>1, <1>3, EmptySeq
<1>5. x \in Frames /\ x.op = stack[1].op  BY <1>3, <1>4 DEF Frames
<1> HIDE DEF x
<1>6. /\ stack' \in Seq(Frames) /\ Len(stack') = Len(stack) /\ Len(stack) \in Nat /\ stack'[1] = x
      /\ \A k \in 2 .. Len(stack) : stack'[k] = stack[k]
  BY <1>1, <1>3, <1>5, Replaced
<1>7. \A k \in 1 .. Len(stack') :
        k - (Len(stack') - Len(stack)) \in 1 .. Len(stack)
        /\ stack'[k].op = stack[k - (Len(stack') - Len(stack))].op
  <2> TAKE k \in 1 .. Len(stack')
  <2>1. k - (Len(stack') - Len(stack)) = k /\ k \in 1 .. Len(stack) /\ (k = 1 \/ k \in 2 .. Len(stack))  BY <1>6
  <2> QED  BY <1>5, <1>6, <2>1
<1>8. Len(stack') - Len(stack) = 0  BY <1>6
<1> QED  BY <1>1, <1>2, <1>4, <1>6, <1>7, <1>8, WriteKeeps

\* The innermost construct is ended; an if that no arm falls out of is dead.
LEMMA WriteCloseScoped ==
  ASSUME TextInv, Writes, WriteClose
  PROVE  Scoped'
<1> DEFINE f == Head(stack)
           joined == f.op # "if" \/ f.falls \/ live \/ ~f.hasElse
           t == [op |-> Closer[f.op]]
<1>1. /\ stage = "write" /\ UNCHANGED <<stage, emitted, node, env>> /\ stack # <<>>
      /\ prog' = Append(prog, t) /\ live' = joined
      /\ dead' = IF joined THEN dead ELSE dead \cup {Len(prog')}
      /\ stack' = Tail(stack)
  BY DEF WriteClose
<1>2. stack \in Seq(Frames) /\ live \in BOOLEAN /\ prog \in Seq(Token)  BY DEF TextInv
<1>3. f \in Frames /\ f = stack[1]  BY <1>1, <1>2, EmptySeq
<1>4. f.op \in Opens /\ joined \in BOOLEAN  BY <1>2, <1>3 DEF Frames
<1>5. t.op = Closer[f.op] /\ t.op \in Closes /\ t \in Token
  <2>1. Closer[f.op] \in Closes  BY <1>4 DEF Closer, Opens, Closes
  <2> QED  BY <2>1 DEF Token
<1>6. t.op \notin Opens \cup Splits /\ Used(t) = {}
  <2>1. t.op \in {"endif", "endwhile", "endfor"}  BY <1>5 DEF Closes
  <2> HIDE DEF t
  <2> QED  BY <2>1 DEF Used, Opens, Splits
<1> HIDE DEF t, joined
<1>7. dead' = dead \/ (dead' = dead \cup {Len(prog) + 1} /\ ~live')
  <2>1. Len(prog') = Len(prog) + 1  BY <1>1, <1>2, <1>5, AppendProperties
  <2> QED  BY <1>1, <2>1
<1>8. /\ stack' \in Seq(Frames) /\ Len(stack') = Len(stack) - 1 /\ Len(stack) \in Nat
      /\ \A k \in 1 .. Len(stack) - 1 : stack'[k] = stack[k + 1]
  BY <1>1, <1>2, <1>3, Replaced
<1>9. \A k \in 1 .. Len(stack') :
        k - (Len(stack') - Len(stack)) \in 1 .. Len(stack)
        /\ stack'[k].op = stack[k - (Len(stack') - Len(stack))].op
  <2> TAKE k \in 1 .. Len(stack')
  <2>1. k - (Len(stack') - Len(stack)) = k + 1 /\ k + 1 \in 1 .. Len(stack) /\ k \in 1 .. Len(stack) - 1  BY <1>8
  <2> QED  BY <1>8, <2>1
<1>10. Len(stack') - Len(stack) = -1  BY <1>8
<1>11. live' \in BOOLEAN  BY <1>1, <1>4
<1>12. Used(t) \subseteq Name  BY <1>6
<1> QED  BY <1>1, <1>3, <1>5, <1>6, <1>7, <1>8, <1>9, <1>10, <1>11, <1>12, WriteKeeps

\* The body is complete: emission starts with the variables declared ahead of it.
LEMMA WriteEndScoped ==
  ASSUME TextInv, Writes, WriteEnd
  PROVE  Scoped'
<1>1. /\ stage = "write" /\ stage' = "emit" /\ stack = <<>> /\ prog' = prog /\ stack' = stack
      /\ live' = live /\ dead' = dead /\ code' = code /\ marks' = marks /\ slots' = slots
  BY DEF WriteEnd, written, emitted
<1>2. code = <<>> /\ marks = <<>> /\ slots = [n \in Name |-> 0]  BY <1>1 DEF Writes
<1>3. Len(code) + 1 = 1 /\ Len(marks) = 0 /\ 1 .. 0 = {} /\ 1 .. 1 - 1 = {} /\ marks \in Seq({}) /\ code \in Seq({})
  BY <1>2, EmptySeq
<1>4. DepthAt(prog, 1) = 0
  <2>1. {j \in 1 .. 1 - 1 : prog[j].op \in Opens} = {} /\ {j \in 1 .. 1 - 1 : prog[j].op \in Closes} = {}
    BY <1>3
  <2> QED  BY <2>1, FS_EmptySet DEF DepthAt
<1>5. RightAt(prog, slots, 1)
  <2>1. \A n : InForce(prog, n, 1) = {}  BY <1>3 DEF InForce
  <2>2. \A n : Meant(prog, n, 1) = 0  BY <2>1 DEF Meant
  <2> QED  BY <1>2, <2>2 DEF RightAt
<1>6. Marked(prog, marks, 1)  BY <1>3, <1>4 DEF Marked
<1>7. Resolved(prog, code)
  <2>1. 1 .. Len(code) = {}  BY <1>2
  <2> QED  BY <2>1 DEF Resolved
<1>8. TextInv'  BY <1>1 DEF TextInv
<1>9. EmitInv'
  <2>1. AtToken(prog, dead, marks, slots, Len(code) + 1)  BY <1>3, <1>5, <1>6 DEF AtToken
  <2>2. Len(prog) \in Nat /\ Len(code) = 0  BY <1>2, LenProperties DEF TextInv
  <2> QED  BY <1>1, <1>3, <1>7, <2>1, <2>2 DEF EmitInv
<1>10. Writes'  BY <1>1 DEF Writes
<1> QED  BY <1>8, <1>9, <1>10 DEF Scoped

-----------------------------------------------------------------------------
(* Emission keeps it *)

\* What is known ahead of the token to emit.
LEMMA Ahead ==
  ASSUME TextInv, EmitInv, NEW ops, Emitting(ops), Tidy(prog, dead)
  PROVE  /\ Here \in 1 .. Len(prog) /\ Here \in Nat \ {0} /\ (Here + 1) - 1 = Here /\ Len(prog) \in Nat
         /\ prog[Here].op \in ops /\ Used(prog[Here]) \subseteq Name
         /\ Marked(prog, marks, Here)
         /\ prog[Here].op \notin Splits \cup Closes => RightAt(prog, slots, Here)
         /\ prog[Here].op \in Splits \cup Closes =>
              \E a \in 1 .. Here - 1 : /\ Partner(prog, a, Here) /\ marks # <<>> /\ Head(marks) = marks[1]
                                       /\ RightAt(prog, marks[1].slots, a)
                                       /\ RightAt(prog, marks[1].slots, Here + 1)
<1> DEFINE i == Here
<1>1. /\ prog \in Seq(Token) /\ dead \subseteq 1 .. Len(prog) /\ WellWritten(prog, dead)
      /\ AtToken(prog, dead, marks, slots, i) /\ stage = "emit" /\ i \in Positions(ops)
  BY DEF TextInv, EmitInv, Emitting, Here
<1>2. Len(prog) \in Nat /\ DOMAIN prog = 1 .. Len(prog)  BY <1>1, LenProperties
<1> HIDE DEF i
<1>3. i \in 1 .. Len(prog) /\ prog[i].op \in ops  BY <1>1, <1>2 DEF Positions
<1>4. i \in Nat \ {0} /\ (i + 1) - 1 = i  BY <1>2, <1>3
<1>5. Used(prog[i]) \subseteq Name
  <2>1. \A k \in 1 .. Len(prog) : Used(prog[k]) \subseteq Name  BY <1>1 DEF WellWritten
  <2> QED  BY <1>3, <2>1
<1>6. Marked(prog, marks, i)  BY <1>1 DEF AtToken
<1>7. prog[i].op \notin Splits \cup Closes => RightAt(prog, slots, i)
  <2> SUFFICES ASSUME prog[i].op \notin Splits \cup Closes, i - 1 \in dead PROVE FALSE
    BY <1>1 DEF AtToken
  <2>1. i - 1 \in 1 .. Len(prog)  BY <1>1
  <2>2. (i - 1) + 1 = i /\ i <= Len(prog)  BY <1>2, <1>3
  <2>3. \A k \in 1 .. Len(prog) : k \in dead /\ k + 1 <= Len(prog) => prog[k + 1].op \in Splits \cup Closes
    BY <1>1 DEF WellWritten
  <2>4. prog[(i - 1) + 1].op \in Splits \cup Closes  BY <2>1, <2>2, <2>3
  <2> QED  BY <2>2, <2>4
<1>8. ASSUME prog[i].op \in Splits \cup Closes
      PROVE  \E a \in 1 .. i - 1 : /\ Partner(prog, a, i) /\ marks # <<>> /\ Head(marks) = marks[1]
                                   /\ RightAt(prog, marks[1].slots, a)
                                   /\ RightAt(prog, marks[1].slots, i + 1)
  <2>1. PICK a \in 1 .. i - 1 : Partner(prog, a, i) /\ DepthAt(prog, a) >= 0
    BY <1>1, <1>3, <1>8 DEF WellWritten
  <2>2. PICK M : marks \in Seq(M)  BY DEF EmitInv
  <2>3. marks # <<>> /\ RightAt(prog, marks[1].slots, a)  BY <1>4, <1>6, <2>1, <2>2, TopMark
  <2>4. RightAt(prog, marks[1].slots, i + 1)  BY <1>4, <1>8, <2>1, <2>3, RightAfterArm
  <2>5. Head(marks) = marks[1]  BY <2>2, <2>3
  <2> QED  BY <2>1, <2>3, <2>4, <2>5
<1> QED  BY <1>2, <1>3, <1>4, <1>5, <1>6, <1>7, <1>8 DEF i

\* What every step of emission has in common.
LEMMA EmitKeeps ==
  ASSUME TextInv, Writes, EmitInv, NEW ops, Emitting(ops), NEW F, NEW S, EmittedWith(F, S),
         Tidy(prog, dead) => /\ \E T : marks' \in Seq(T)
                             /\ \A n \in Used(prog[Here]) : S[n] = MeansAt(prog, n, Here)
                             /\ Marked(prog, marks', Here + 1)
                             /\ RightAt(prog, slots', Here + 1) \/ Here \in dead
  PROVE  Scoped'
<1>1. /\ stage = "emit" /\ stage' = stage /\ prog' = prog /\ stack' = stack /\ live' = live /\ dead' = dead
      /\ code' = Append(code, [facts |-> F, slots |-> S])
  BY DEF Emitting, EmittedWith, written
<1>2. TextInv' /\ Writes'  BY <1>1 DEF TextInv, Writes
<1>3. PICK C : code \in Seq(C)  BY DEF EmitInv
<1> DEFINE x == [facts |-> F, slots |-> S]
<1>4. x.slots = S  OBVIOUS
<1> HIDE DEF x
<1>5. /\ code' \in Seq(C \cup {x}) /\ Len(code') = Len(code) + 1 /\ Len(code) \in Nat
      /\ code'[Len(code) + 1] = x /\ \A k \in 1 .. Len(code) : code'[k] = code[k]
  <2>1. code \in Seq(C \cup {x})  BY <1>3, SeqMonotonic
  <2> QED  BY <1>1, <2>1, AppendProperties, LenProperties DEF x
<1>6. ASSUME Tidy(prog, dead) PROVE Resolved(prog, code')
  <2>1. Resolved(prog, code)  BY <1>6 DEF EmitInv
  <2> SUFFICES ASSUME NEW k \in 1 .. Len(code'), k # Len(prog) + 1, NEW n \in Used(prog[k])
               PROVE  code'[k].slots[n] = MeansAt(prog, n, k)
    BY DEF Resolved
  <2>2. CASE k \in 1 .. Len(code)  BY <1>5, <2>1, <2>2 DEF Resolved
  <2>3. CASE k = Here
    <3>1. code'[k] = x  BY <1>5, <2>3 DEF Here
    <3> QED  BY <1>4, <1>6, <2>3, <3>1
  <2> QED  BY <1>5, <2>2, <2>3 DEF Here
<1>7. ASSUME Tidy(prog, dead) PROVE AtToken(prog, dead, marks', slots', Len(code') + 1)
  <2>1. Len(code') + 1 = Here + 1 /\ (Here + 1) - 1 = Here  BY <1>5 DEF Here
  <2> QED  BY <1>7, <2>1 DEF AtToken
<1>8. Len(code') <= Len(prog) /\ Len(prog) \in Nat
  <2>1. Here \in DOMAIN prog  BY DEF Emitting, Positions
  <2>2. DOMAIN prog = 1 .. Len(prog) /\ Len(prog) \in Nat  BY LenProperties DEF TextInv
  <2> QED  BY <1>5, <2>1, <2>2 DEF Here
<1>9. EmitInv'
  <2>1. Len(code') <= Len(prog) + 1  BY <1>5, <1>8
  <2> QED  BY <1>1, <1>5, <1>6, <1>7, <1>8, <2>1 DEF EmitInv
<1> QED  BY <1>2, <1>9 DEF Scoped

\* The marks of a step that opens, and of one that ends, a construct.
LEMMA MarksKept ==
  ASSUME EmitInv, Tidy(prog, dead)
  PROVE  /\ \E T : marks \in Seq(T)
         /\ \A x : \E T : <<x>> \o marks \in Seq(T)
         /\ marks # <<>> => \E T : Tail(marks) \in Seq(T)
<1>1. PICK M : marks \in Seq(M)  BY DEF EmitInv
<1>2. \A x : <<x>> \o marks \in Seq(M \cup {x})  BY <1>1, Pushed
<1>3. marks # <<>> => Tail(marks) \in Seq(M)  BY <1>1, HeadTailProperties
<1> QED  BY <1>1, <1>2, <1>3

\* A token that neither opens nor ends an arm: statements, declarations, jumps.
LEMMA EmitPlainScoped ==
  ASSUME TextInv, Writes, EmitInv, EmitWrite \/ EmitDecl \/ EmitJump
  PROVE  Scoped'
<1> DEFINE i == Here
           ops == {"set", "inout", "decl"} \cup Jumps
<1>1. Emitting(ops) /\ EmittedWith(facts, slots) /\ marks' = marks
  BY DEF EmitWrite, EmitDecl, EmitJump, Emitting, Positions
<1>2. slots' = IF prog[i].op = "decl" THEN [slots EXCEPT ![prog[i].n] = i] ELSE slots
  BY DEF EmitWrite, EmitDecl, EmitJump, Emitting, Positions, Jumps
<1>3. ops \cap (Opens \cup Splits \cup Closes) = {} /\ "for" \notin ops
  BY DEF Jumps, Opens, Splits, Closes
<1> HIDE DEF ops
<1>4. ASSUME Tidy(prog, dead)
      PROVE  /\ \A n \in Used(prog[Here]) : slots[n] = MeansAt(prog, n, Here)
             /\ Marked(prog, marks', Here + 1)
             /\ RightAt(prog, slots', Here + 1)
  <2>1. /\ i \in Nat \ {0} /\ prog[i].op \in ops /\ Used(prog[i]) \subseteq Name /\ Marked(prog, marks, i)
        /\ prog[i].op \notin Splits \cup Closes => RightAt(prog, slots, i)
    BY <1>1, <1>4, Ahead
  <2> HIDE DEF i
  <2>2. RightAt(prog, slots, i) /\ prog[i].op \notin Opens \cup Splits \cup Closes /\ prog[i].op # "for"
    BY <1>3, <2>1
  <2>3. \A n \in Used(prog[i]) : slots[n] = MeansAt(prog, n, i)  BY <2>1, <2>2 DEF RightAt, MeansAt
  <2>4. PICK M : marks \in Seq(M)  BY <1>4, MarksKept
  <2>5. Marked(prog, marks', i + 1)  BY <1>1, <2>1, <2>2, <2>4, MarkedStep
  <2>6. RightAt(prog, slots', i + 1)  BY <1>2, <2>1, <2>2, RightStep
  <2> QED  BY <2>3, <2>5, <2>6 DEF i
<1>5. Tidy(prog, dead) => \E T : marks' \in Seq(T)  BY <1>1, MarksKept
<1> QED  BY <1>1, <1>4, <1>5, EmitKeeps

\* A mark keeps the slots it is taken with.
LEMMA MarkSlots == \A F, S, L : Mark(F, S, L).slots = S
  BY DEF Mark

\* A token that opens a construct.
LEMMA EmitOpenScoped ==
  ASSUME TextInv, Writes, EmitInv, EmitIf \/ EmitWhile \/ EmitFor
  PROVE  Scoped'
<1> DEFINE i == Here
<1>1. /\ Emitting(Opens) /\ prog[i].op \in Opens
      /\ \E x : marks' = <<x>> \o marks /\ x.slots = slots
      /\ slots' = IF prog[i].op = "for" THEN [slots EXCEPT ![prog[i].n] = i] ELSE slots
      /\ \E F : EmittedWith(F, slots')
  <2>1. CASE EmitIf
    <3>1. /\ Emitting({"if"}) /\ EmittedWith(facts, slots) /\ slots' = slots
          /\ \E x : marks' = <<x>> \o marks /\ x.slots = slots
      <4>1. /\ Emitting({"if"}) /\ EmittedWith(facts, slots) /\ slots' = slots
            /\ marks' = <<Mark(CondFacts(facts, prog[Here].cond), slots, log')>> \o marks
        BY <2>1 DEF EmitIf
      <4> QED  BY <4>1, MarkSlots
    <3> QED  BY <3>1 DEF Emitting, Positions, Opens
  <2>2. CASE EmitWhile
    <3>1. /\ Emitting({"while"}) /\ (\E F : EmittedWith(F, slots)) /\ slots' = slots
          /\ \E x : marks' = <<x>> \o marks /\ x.slots = slots
      <4>1. /\ Emitting({"while"}) /\ EmittedWith(KilledAll(facts, LoopWrites(Here)), slots) /\ slots' = slots
            /\ marks' = <<Mark(CondFacts(KilledAll(facts, LoopWrites(Here)), prog[Here].cond), slots, log')>> \o marks
        BY <2>2 DEF EmitWhile
      <4> QED  BY <4>1, MarkSlots
    <3> QED  BY <3>1 DEF Emitting, Positions, Opens
  <2>3. CASE EmitFor
    <3>1. /\ Emitting({"for"}) /\ (\E F : EmittedWith(F, slots')) /\ slots' = [slots EXCEPT ![prog[i].n] = i]
          /\ \E x : marks' = <<x>> \o marks /\ x.slots = slots
      <4>1. /\ Emitting({"for"}) /\ EmittedWith(facts', slots') /\ slots' = [slots EXCEPT ![prog[i].n] = i]
            /\ marks' = <<Mark(facts, slots, log)>> \o marks
        BY <2>3 DEF EmitFor
      <4> QED  BY <4>1, MarkSlots
    <3> QED  BY <3>1 DEF Emitting, Positions, Opens
  <2> QED  BY <2>1, <2>2, <2>3
<1>2. PICK x : marks' = <<x>> \o marks /\ x.slots = slots  BY <1>1
<1>3. PICK F : EmittedWith(F, slots')  BY <1>1
<1>4. prog[i].op \notin Splits \cup Closes  BY <1>1 DEF Opens, Splits, Closes
<1>5. ASSUME Tidy(prog, dead)
      PROVE  /\ \A n \in Used(prog[Here]) : slots'[n] = MeansAt(prog, n, Here)
             /\ Marked(prog, marks', Here + 1)
             /\ RightAt(prog, slots', Here + 1)
  <2>1. /\ i \in Nat \ {0} /\ Used(prog[i]) \subseteq Name /\ Marked(prog, marks, i)
        /\ RightAt(prog, slots, i)
    BY <1>1, <1>4, <1>5, Ahead
  <2> HIDE DEF i
  <2>2. \A n \in Used(prog[i]) : slots'[n] = MeansAt(prog, n, i)
    <3>1. CASE prog[i].op = "for"
      <4>1. Used(prog[i]) = {}  BY <3>1 DEF Used
      <4> QED  BY <4>1
    <3>2. CASE prog[i].op # "for"
      <4>1. slots' = slots  BY <1>1, <3>2
      <4> QED  BY <1>4, <2>1, <4>1 DEF RightAt, MeansAt
    <3> QED  BY <3>1, <3>2
  <2>3. PICK M : marks \in Seq(M)  BY <1>5, MarksKept
  <2>4. Marked(prog, marks', i + 1)  BY <1>1, <1>2, <2>1, <2>3, MarkedStep
  <2>5. RightAt(prog, slots', i + 1)
    <3>1. prog[i].op # "for" => prog[i].op \notin {"decl", "for"}  BY <1>1 DEF Opens
    <3> QED  BY <1>1, <1>4, <2>1, <3>1, RightStep
  <2> QED  BY <2>2, <2>4, <2>5 DEF i
<1>6. Tidy(prog, dead) => \E T : marks' \in Seq(T)  BY <1>2, MarksKept
<1> QED  BY <1>1, <1>3, <1>5, <1>6, EmitKeeps

\* An elif or an else starts from the slots saved ahead of the if.
LEMMA EmitSplitScoped ==
  ASSUME TextInv, Writes, EmitInv, EmitElif \/ EmitElse
  PROVE  Scoped'
<1> DEFINE i == Here
           S == Head(marks).slots
<1>1. /\ Emitting(Splits) /\ prog[i].op \in Splits
      /\ slots' = S /\ marks' = marks /\ \E F : EmittedWith(F, S)
  <2>1. CASE EmitElif
    <3>1. Emitting({"elif"}) /\ slots' = S /\ marks' = marks /\ \E F : EmittedWith(F, S)
      BY <2>1 DEF EmitElif
    <3> QED  BY <3>1 DEF Emitting, Positions, Splits
  <2>2. CASE EmitElse
    <3>1. Emitting({"else"}) /\ slots' = S /\ marks' = marks /\ EmittedWith(facts', slots')
      BY <2>2 DEF EmitElse
    <3> QED  BY <3>1 DEF Emitting, Positions, Splits
  <2> QED  BY <2>1, <2>2
<1>2. PICK F : EmittedWith(F, S)  BY <1>1
<1>3. prog[i].op \notin Opens \cup Closes  BY <1>1 DEF Opens, Splits, Closes
<1>4. ASSUME Tidy(prog, dead)
      PROVE  /\ \E T : marks' \in Seq(T)
             /\ \A n \in Used(prog[Here]) : S[n] = MeansAt(prog, n, Here)
             /\ Marked(prog, marks', Here + 1)
             /\ RightAt(prog, slots', Here + 1)
  <2>1. /\ i \in Nat \ {0} /\ Used(prog[i]) \subseteq Name /\ Marked(prog, marks, i)
        /\ Head(marks) = marks[1] /\ RightAt(prog, marks[1].slots, i + 1)
    BY <1>1, <1>4, Ahead
  <2> HIDE DEF i
  <2>2. RightAt(prog, S, i + 1)  BY <2>1
  <2> HIDE DEF S
  <2>3. \A n \in Used(prog[i]) : S[n] = MeansAt(prog, n, i)  BY <1>1, <2>1, <2>2 DEF RightAt, MeansAt
  <2>4. PICK M : marks \in Seq(M)  BY <1>4, MarksKept
  <2>5. Marked(prog, marks', i + 1)  BY <1>1, <1>3, <2>1, <2>4, MarkedStep
  <2> QED  BY <1>1, <2>2, <2>3, <2>4, <2>5 DEF i
<1> QED  BY <1>1, <1>2, <1>4, EmitKeeps

\* The end of an if, with and without a join block, of a while and of a for.
LEMMA EmitCloseScoped ==
  ASSUME TextInv, Writes, EmitInv, EmitJoin \/ EmitNoJoin \/ EmitWhileExit \/ EmitForExit
  PROVE  Scoped'
<1> DEFINE i == Here
<1>1. /\ Emitting(Closes) /\ prog[i].op \in Closes
      /\ marks' = Tail(marks) /\ \E F, S : EmittedWith(F, S)
      /\ \/ slots' = Head(marks).slots
         \/ i \in dead
         \/ /\ EmitForExit /\ prog[i].op = "endfor"
            /\ slots' = [slots EXCEPT ![prog[OpenOf(i)].n] = Head(marks).slots[prog[OpenOf(i)].n]]
  <2>1. CASE EmitJoin
    <3>1. Emitting({"endif"}) /\ marks' = Tail(marks) /\ EmittedWith(facts', slots') /\ slots' = Head(marks).slots
      BY <2>1 DEF EmitJoin
    <3> QED  BY <3>1 DEF Emitting, Positions, Closes
  <2>2. CASE EmitNoJoin
    <3>1. Emitting({"endif"}) /\ marks' = Tail(marks) /\ EmittedWith(facts, slots) /\ i \in dead
      BY <2>2 DEF EmitNoJoin
    <3> QED  BY <3>1 DEF Emitting, Positions, Closes
  <2>3. CASE EmitWhileExit
    <3>1. Emitting({"endwhile"}) /\ marks' = Tail(marks) /\ EmittedWith(facts, slots) /\ slots' = Head(marks).slots
      BY <2>3 DEF EmitWhileExit
    <3> QED  BY <3>1 DEF Emitting, Positions, Closes
  <2>4. CASE EmitForExit
    <3>1. /\ Emitting({"endfor"}) /\ marks' = Tail(marks) /\ EmittedWith(facts, slots)
          /\ slots' = [slots EXCEPT ![prog[OpenOf(i)].n] = Head(marks).slots[prog[OpenOf(i)].n]]
      BY <2>4 DEF EmitForExit
    <3> QED  BY <2>4, <3>1 DEF Emitting, Positions, Closes
  <2> QED  BY <2>1, <2>2, <2>3, <2>4
<1>2. PICK F, S : EmittedWith(F, S)  BY <1>1
<1>3. Used(prog[i]) = {} /\ prog[i].op \notin Opens
  <2> HIDE DEF i
  <2> QED  BY <1>1 DEF Used, Opens, Closes
<1>4. ASSUME Tidy(prog, dead)
      PROVE  /\ \E T : marks' \in Seq(T)
             /\ \A n \in Used(prog[Here]) : S[n] = MeansAt(prog, n, Here)
             /\ Marked(prog, marks', Here + 1)
             /\ RightAt(prog, slots', Here + 1) \/ Here \in dead
  <2>1. /\ i \in 1 .. Len(prog) /\ i \in Nat \ {0} /\ Len(prog) \in Nat /\ Marked(prog, marks, i)
        /\ \E a \in 1 .. i - 1 : /\ Partner(prog, a, i) /\ marks # <<>> /\ Head(marks) = marks[1]
                                 /\ RightAt(prog, marks[1].slots, a)
                                 /\ RightAt(prog, marks[1].slots, i + 1)
    BY <1>1, <1>4, Ahead
  <2>2. PICK a \in 1 .. i - 1 : /\ Partner(prog, a, i) /\ marks # <<>> /\ Head(marks) = marks[1]
                                /\ RightAt(prog, marks[1].slots, a)
                                /\ RightAt(prog, marks[1].slots, i + 1)
    BY <2>1
  <2>3. RightAt(prog, slots, i) \/ i - 1 \in dead  BY <1>1, <1>4 DEF EmitInv, AtToken, Emitting, Here
  <2> HIDE DEF i
  <2>4. PICK M : marks \in Seq(M)  BY <1>4, MarksKept
  <2>5. Marked(prog, marks', i + 1) /\ marks' \in Seq(M)
    BY <1>1, <1>3, <2>1, <2>2, <2>4, MarkedStep, HeadTailProperties
  <2>6. RightAt(prog, slots', i + 1) \/ i \in dead
    <3> SUFFICES ASSUME prog[i].op = "endfor",
                        slots' = [slots EXCEPT ![prog[OpenOf(i)].n] = Head(marks).slots[prog[OpenOf(i)].n]]
                 PROVE  RightAt(prog, slots', i + 1)
      BY <1>1, <2>2
    <3>1. prog \in Seq(Token) /\ DOMAIN prog = 1 .. Len(prog)  BY LenProperties DEF TextInv
    <3>2. a \in DOMAIN prog /\ OpenOf(i) = a  BY <1>1, <2>1, <2>2, <3>1, EndsFound
    <3>3. prog[a].op = "for"
      <4>1. Closer[prog[a].op] = "endfor" /\ prog[a].op \in Opens  BY <1>1, <2>2 DEF Partner, OpenTo
      <4> QED  BY <4>1 DEF Closer, Opens
    <3>4. /\ i - 1 \notin dead
          /\ \A j \in a + 1 .. i - 1 : prog[j].op = "decl" => DepthAt(prog, j) # DepthAt(prog, a) + 1
      BY <1>1, <1>4, <2>1, <2>2, <3>1, <3>2, <3>3 DEF Tidy
    <3>5. RightAt(prog, slots, i)  BY <2>3, <3>4
    <3> DEFINE S0 == marks[1].slots
    <3>6. slots' = [slots EXCEPT ![prog[a].n] = S0[prog[a].n]]  BY <2>2, <3>2
    <3> HIDE DEF S0
    <3>7. RightAt(prog, S0, a)  BY <2>2 DEF S0
    <3>8. RightAt(prog, [slots EXCEPT ![prog[a].n] = S0[prog[a].n]], i + 1)
      BY <1>1, <2>1, <2>2, <3>3, <3>4, <3>5, <3>7, RightAfterFor
    <3> QED  BY <3>6, <3>8
  <2>7. \A n \in Used(prog[i]) : S[n] = MeansAt(prog, n, i)  BY <1>3
  <2> QED  BY <2>5, <2>6, <2>7 DEF i
<1> QED  BY <1>1, <1>2, <1>4, EmitKeeps

\* After the last token the program starts: what was emitted stays.
LEMMA EmitEndScoped ==
  ASSUME TextInv, Writes, EmitInv, EmitEnd
  PROVE  Scoped'
<1>1. /\ stage = "emit" /\ stage' = "run" /\ Here = Len(prog) + 1 /\ prog' = prog /\ stack' = stack
      /\ live' = live /\ dead' = dead /\ marks' = marks
      /\ code' = Append(code, [facts |-> facts, slots |-> slots])
  BY DEF EmitEnd, EmittedWith, written
<1>2. TextInv' /\ Writes'  BY <1>1 DEF TextInv, Writes
<1>3. PICK C : code \in Seq(C)  BY DEF EmitInv
<1> DEFINE x == [facts |-> facts, slots |-> slots]
<1> HIDE DEF x
<1>4. /\ code' \in Seq(C \cup {x}) /\ Len(code') = Len(code) + 1 /\ Len(code) \in Nat
      /\ \A k \in 1 .. Len(code) : code'[k] = code[k]
  <2>1. code \in Seq(C \cup {x})  BY <1>3, SeqMonotonic
  <2> QED  BY <1>1, <2>1, AppendProperties, LenProperties DEF x
<1>5. ASSUME Tidy(prog, dead) PROVE Resolved(prog, code')
  <2>1. Resolved(prog, code)  BY <1>5 DEF EmitInv
  <2>2. \A k \in 1 .. Len(code') : k # Len(prog) + 1 => k \in 1 .. Len(code)  BY <1>1, <1>4 DEF Here
  <2> QED  BY <1>4, <2>1, <2>2 DEF Resolved
<1>6. Len(code') <= Len(prog) + 1
  <2>1. Len(prog) \in Nat  BY LenProperties DEF TextInv
  <2> QED  BY <1>1, <1>4, <2>1 DEF Here
<1>7. EmitInv'  BY <1>1, <1>4, <1>5, <1>6 DEF EmitInv
<1> QED  BY <1>2, <1>7 DEF Scoped

\* The program runs without a change to what was emitted.
LEMMA RunScoped ==
  ASSUME Scoped, stage # "write", stage # "emit" \/ stage' = stage, stage' \notin {"write", "emit"} \/ stage' = stage,
         UNCHANGED <<written, emitted>>
  PROVE  Scoped'
<1>1. /\ prog' = prog /\ stack' = stack /\ live' = live /\ dead' = dead
      /\ slots' = slots /\ marks' = marks /\ code' = code
  BY DEF written, emitted
<1>2. TextInv' /\ Writes'  BY <1>1 DEF Scoped, TextInv, Writes
<1>3. EmitInv'  BY <1>1 DEF Scoped, EmitInv
<1> QED  BY <1>2, <1>3 DEF Scoped

\* Every step of the model keeps the invariant.
LEMMA NextScoped == Scoped /\ [Next]_vars => Scoped'
<1> SUFFICES ASSUME Scoped, [Next]_vars PROVE Scoped'  OBVIOUS
<1>1. TextInv /\ Writes /\ EmitInv  BY DEF Scoped
<1>2. ASSUME NEW t \in Text, WritePlain(t) \/ WriteJump(t) \/ WriteOpen(t) \/ WriteSplit(t) PROVE Scoped'
  BY <1>1, <1>2, WriteTokenScoped, WriteOpenScoped, WriteSplitScoped
<1>3. CASE WriteClose  BY <1>1, <1>3, WriteCloseScoped
<1>4. CASE WriteEnd  BY <1>1, <1>4, WriteEndScoped
<1>5. CASE EmitWrite \/ EmitDecl \/ EmitJump  BY <1>1, <1>5, EmitPlainScoped
<1>6. CASE EmitIf \/ EmitWhile \/ EmitFor  BY <1>1, <1>6, EmitOpenScoped
<1>7. CASE EmitElif \/ EmitElse  BY <1>1, <1>7, EmitSplitScoped
<1>8. CASE EmitJoin \/ EmitNoJoin \/ EmitWhileExit \/ EmitForExit  BY <1>1, <1>8, EmitCloseScoped
<1>9. CASE EmitEnd  BY <1>1, <1>9, EmitEndScoped
<1>10. CASE RunSet \/ RunInout \/ RunDecl \/ RunCond \/ RunFor \/ RunMark \/ RunJump \/ RunEnd
  <2>1. UNCHANGED <<written, emitted>> /\ stage = "run"
    BY <1>10 DEF RunSet, RunInout, RunDecl, RunCond, RunFor, RunMark, RunJump, RunEnd, Running
  <2>2. stage' \in {"run", "ended"}
    <3>1. CASE RunSet  BY <2>1, <3>1 DEF RunSet, Goto, Stop
    <3>2. CASE RunInout \/ RunDecl  BY <2>1, <3>2 DEF RunInout, RunDecl, Goto
    <3>3. CASE RunCond  BY <2>1, <3>3 DEF RunCond, Goto
    <3>4. CASE RunFor \/ RunMark  BY <2>1, <3>4 DEF RunFor, RunMark, Goto
    <3>5. CASE RunJump
      <4>1. prog[node].op \in {"break", "continue", "return"}  BY <3>5 DEF RunJump, Running, Positions, Jumps
      <4> QED  BY <2>1, <3>5, <4>1 DEF RunJump, Goto, Stop
    <3>6. CASE RunEnd  BY <3>6 DEF RunEnd, Stop
    <3> QED  BY <1>10, <3>1, <3>2, <3>3, <3>4, <3>5, <3>6
  <2> QED  BY <2>1, <2>2, RunScoped
<1>11. CASE UNCHANGED vars
  <2>1. /\ prog' = prog /\ stack' = stack /\ live' = live /\ dead' = dead /\ stage' = stage
        /\ slots' = slots /\ marks' = marks /\ code' = code
    BY <1>11 DEF vars, written, emitted
  <2>2. TextInv' /\ Writes'  BY <1>1, <2>1 DEF TextInv, Writes
  <2>3. EmitInv'  BY <1>1, <2>1 DEF EmitInv
  <2> QED  BY <2>2, <2>3 DEF Scoped
<1>12. CASE Ended  BY <1>11, <1>12 DEF Ended
<1> QED
  BY <1>2, <1>3, <1>4, <1>5, <1>6, <1>7, <1>8, <1>9, <1>10, <1>11, <1>12 DEF Next

\* Every for body runs on to its end, and nothing is declared directly in it.
TidyFors ==
  \A d \in Positions({"for"}) :
    /\ EndOf(d) - 1 \notin dead
    /\ \A j \in Positions({"decl"}) : d < j /\ j < EndOf(d) => Level(j) # Level(d) + 1

\* What TidyFors says in terms of the text.
LEMMA TidyIs == TextInv /\ TidyFors => Tidy(prog, dead)
<1> SUFFICES ASSUME TextInv, TidyFors,
                    NEW i \in 1 .. Len(prog), NEW a \in 1 .. Len(prog),
                    prog[i].op \in Closes, prog[a].op = "for", Partner(prog, a, i)
             PROVE  /\ i - 1 \notin dead
                    /\ \A j \in a + 1 .. i - 1 : prog[j].op = "decl" => DepthAt(prog, j) # DepthAt(prog, a) + 1
  BY DEF Tidy
<1>1. prog \in Seq(Token) /\ DOMAIN prog = 1 .. Len(prog) /\ Len(prog) \in Nat  BY LenProperties DEF TextInv
<1>2. EndOf(a) = i  BY <1>1, EndsFound
<1>3. a \in Positions({"for"})  BY <1>1 DEF Positions
<1>4. i - 1 \notin dead  BY <1>2, <1>3 DEF TidyFors
<1>5. ASSUME NEW j \in a + 1 .. i - 1, prog[j].op = "decl" PROVE DepthAt(prog, j) # DepthAt(prog, a) + 1
  <2>1. j \in 1 .. Len(prog) /\ j \in Nat \ {0} /\ a \in Nat \ {0} /\ a < j /\ j < i  BY <1>1
  <2>2. j \in Positions({"decl"})  BY <1>1, <1>5, <2>1 DEF Positions
  <2>3. Level(j) # Level(a) + 1  BY <1>2, <1>3, <2>1, <2>2 DEF TidyFors
  <2>4. Level(j) = LevelAt(prog, j) /\ Level(a) = LevelAt(prog, a)  BY <1>1, <2>1, LevelIs
  <2>5. LevelAt(prog, j) = DepthAt(prog, j) /\ LevelAt(prog, a) = DepthAt(prog, a)
    <3>1. "decl" \notin Splits \cup Closes /\ "for" \notin Splits \cup Closes  BY DEF Splits, Closes
    <3> QED  BY <1>5, <2>1, <3>1, LevelBounds
  <2> QED  BY <2>3, <2>4, <2>5
<1> QED  BY <1>4, <1>5

\* Whatever scopes a body opens, leaves and jumps out of, every name is emitted as
\* the variable that its scope says it is.  A for whose end is not reached, or that
\* declares names of its own, is the exception the code makes: ForExit gives back
\* the slot of the loop variable only.
THEOREM ScopesFollowText == Spec => [](TidyFors => NamesResolved)
<1>1. Scoped => (TidyFors => NamesResolved)
  <2> SUFFICES ASSUME Scoped, TidyFors, NEW i \in DOMAIN code \ {Len(prog) + 1}, NEW n \in Used(prog[i])
               PROVE  code[i].slots[n] = Means(n, i)
    BY DEF NamesResolved
  <2>1. Tidy(prog, dead)  BY TidyIs DEF Scoped
  <2>2. PICK C : code \in Seq(C)  BY DEF Scoped, EmitInv
  <2>3. Resolved(prog, code)  BY <2>1 DEF Scoped, EmitInv
  <2>4. i \in 1 .. Len(code) /\ i # Len(prog) + 1  BY <2>2, LenProperties
  <2>5. code[i].slots[n] = MeansAt(prog, n, i)  BY <2>3, <2>4 DEF Resolved
  <2>6. i \in DOMAIN prog /\ prog \in Seq(Token)
    <3>1. prog \in Seq(Token) /\ DOMAIN prog = 1 .. Len(prog) /\ Len(prog) \in Nat
      BY LenProperties DEF Scoped, TextInv
    <3>2. Len(code) <= Len(prog) + 1 /\ Len(code) \in Nat  BY <2>2, LenProperties DEF Scoped, EmitInv
    <3> QED  BY <2>4, <3>1, <3>2
  <2> QED  BY <2>5, <2>6, MeansIs
<1> QED  BY <1>1, InitScoped, NextScoped, PTL DEF Spec
=============================================================================
