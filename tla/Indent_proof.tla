----------------------------- MODULE Indent_proof -----------------------------
(***************************************************************************)
(* Proofs about Indent, for any words, any bound on the tabs and any file: *)
(* the markers put every token in the blocks its line hangs in, a file is  *)
(* refused only for a line that has no place, and no token is lost.        *)
(***************************************************************************)
EXTENDS Indent, Integers, SequenceTheorems, FiniteSetTheorems, TLAPS

-----------------------------------------------------------------------------
(* The sequence that goes out *)

\* What goes out: places of tokens, and markers.
Sent == Nat \cup {INDENT, DEDENT}

\* The markers are two, and no places; white space is neither.
LEMMA Marks ==
  /\ INDENT # DEDENT /\ Spaces # INDENT /\ Spaces # DEDENT
  /\ INDENT \notin Nat /\ DEDENT \notin Nat /\ Spaces \notin Nat
  /\ Spaces \notin Word /\ Word \cap Nat = {} /\ MaxTabs \in Nat
<1>1. \A x, y : Cardinality({x, y}) <= 2
  <2> SUFFICES ASSUME NEW x, NEW y PROVE Cardinality({x, y}) <= 2
    OBVIOUS
  <2>1. IsFiniteSet({x}) /\ Cardinality({x}) = 1  BY FS_Singleton
  <2>2. Cardinality({x} \cup {y}) = IF y \in {x} THEN 1 ELSE 1 + 1  BY <2>1, FS_AddElement
  <2>3. {x, y} = {x} \cup {y}  OBVIOUS
  <2>4. CASE y \in {x}  BY <2>2, <2>3, <2>4
  <2>5. CASE y \notin {x}  BY <2>2, <2>3, <2>5
  <2> QED  BY <2>4, <2>5
<1>2. INDENT # DEDENT
  <2> SUFFICES ASSUME INDENT = DEDENT PROVE FALSE
    OBVIOUS
  <2>1. {Spaces, INDENT, DEDENT} = {Spaces, INDENT}  OBVIOUS
  <2>2. Cardinality({Spaces, INDENT}) <= 2  BY <1>1
  <2>3. Cardinality({Spaces, INDENT}) = 3  BY <2>1, IndentAssumption
  <2> QED  BY <2>2, <2>3
<1>3. Spaces # INDENT
  <2> SUFFICES ASSUME Spaces = INDENT PROVE FALSE
    OBVIOUS
  <2>1. {Spaces, INDENT, DEDENT} = {INDENT, DEDENT}  OBVIOUS
  <2>2. Cardinality({INDENT, DEDENT}) <= 2  BY <1>1
  <2>3. Cardinality({INDENT, DEDENT}) = 3  BY <2>1, IndentAssumption
  <2> QED  BY <2>2, <2>3
<1>4. Spaces # DEDENT
  <2> SUFFICES ASSUME Spaces = DEDENT PROVE FALSE
    OBVIOUS
  <2>1. {Spaces, INDENT, DEDENT} = {Spaces, INDENT}  OBVIOUS
  <2>2. Cardinality({Spaces, INDENT}) <= 2  BY <1>1
  <2>3. Cardinality({Spaces, INDENT}) = 3  BY <2>1, IndentAssumption
  <2> QED  BY <2>2, <2>3
<1> QED  BY <1>2, <1>3, <1>4, IndentAssumption

\* One more token counts for its kind alone.
LEMMA CountOne ==
  ASSUME NEW s \in Seq(Sent), NEW x \in Sent, NEW mark
  PROVE  /\ Count(s, mark) \in Nat
         /\ Count(Append(s, x), mark) = Count(s, mark) + IF x = mark THEN 1 ELSE 0
<1> DEFINE t == Append(s, x)
           B == {i \in 1 .. Len(s) : s[i] = mark}
           C == {i \in 1 .. Len(t) : t[i] = mark}
           n == Len(s) + 1
<1>1. /\ Len(s) \in Nat /\ Len(t) = n /\ t[n] = x
      /\ \A i \in 1 .. Len(s) : t[i] = s[i]
  BY AppendProperties, LenProperties
<1>2. IsFiniteSet(B)
  <2>1. IsFiniteSet(1 .. Len(s))  BY <1>1, FS_Interval
  <2> QED  BY <2>1, FS_Subset
<1>3. Cardinality(B) \in Nat  BY <1>2, FS_CardinalityType
<1>4. n \notin B  BY <1>1
<1>5. Cardinality(B \cup {n}) = Cardinality(B) + 1  BY <1>2, <1>4, FS_AddElement
<1>6. x = mark => C = B \cup {n}  BY <1>1
<1>7. x # mark => C = B  BY <1>1
<1>8. Count(s, mark) = Cardinality(B) /\ Count(t, mark) = Cardinality(C)  BY DEF Count
<1> HIDE DEF B, C
<1>9. CASE x = mark  BY <1>3, <1>5, <1>6, <1>8, <1>9
<1>10. CASE x # mark  BY <1>3, <1>7, <1>8, <1>10
<1> QED  BY <1>9, <1>10

\* A marker goes one block in or out; a token stays where it is.
LEMMA DepthOne ==
  ASSUME NEW s \in Seq(Sent), NEW x \in Sent
  PROVE  /\ Depth(s) \in Int
         /\ x \in Nat => Depth(Append(s, x)) = Depth(s)
         /\ x = INDENT => Depth(Append(s, x)) = Depth(s) + 1
         /\ x = DEDENT => Depth(Append(s, x)) = Depth(s) - 1
<1>1. /\ Count(s, INDENT) \in Nat /\ Count(s, DEDENT) \in Nat
      /\ Count(Append(s, x), INDENT) = Count(s, INDENT) + IF x = INDENT THEN 1 ELSE 0
      /\ Count(Append(s, x), DEDENT) = Count(s, DEDENT) + IF x = DEDENT THEN 1 ELSE 0
  BY CountOne
<1>2. CASE x \in Nat  BY <1>1, <1>2, Marks DEF Depth
<1>3. CASE x = INDENT  BY <1>1, <1>3, Marks DEF Depth
<1>4. CASE x = DEDENT  BY <1>1, <1>4, Marks DEF Depth
<1> QED  BY <1>1, <1>2, <1>3, <1>4 DEF Sent, Depth

\* Nothing sent is at depth 0.
LEMMA DepthNone == Depth(<<>>) = 0
<1>1. \A mark : {i \in 1 .. Len(<<>>) : <<>>[i] = mark} = {}
  <2>1. Len(<<>>) = 0  BY EmptySeq
  <2> QED  BY <2>1
<1>2. \A mark : Count(<<>>, mark) = 0  BY <1>1, FS_EmptySet DEF Count
<1> QED  BY <1>2 DEF Depth

\* Every place sent is a token before place n, each is there, in order.
SentInOrder(s, n) ==
  /\ \A k \in 1 .. n - 1 : \E i \in 1 .. Len(s) : s[i] = k
  /\ \A i \in 1 .. Len(s) : s[i] \in Nat => s[i] \in 1 .. n - 1
  /\ \A i, j \in 1 .. Len(s) : i < j /\ s[i] \in Nat /\ s[j] \in Nat => s[i] < s[j]

\* Every word sent is as deep as there are blocks around it.
RightlyDeep(s) ==
  \A i \in 1 .. Len(s) :
    s[i] \in Words => Depth(SubSeq(s, 1, i)) = Cardinality(Around(s[i]))

\* A marker disturbs no token.
LEMMA SendMark ==
  ASSUME NEW s \in Seq(Sent), NEW m \in {INDENT, DEDENT}, NEW n \in Nat \ {0}, SentInOrder(s, n)
  PROVE  SentInOrder(Append(s, m), n)
<1> DEFINE t == Append(s, m)
<1>1. /\ Len(s) \in Nat /\ Len(t) = Len(s) + 1 /\ t[Len(s) + 1] = m
      /\ \A i \in 1 .. Len(s) : t[i] = s[i]
  BY AppendProperties, LenProperties DEF Sent
<1>2. m \notin Nat  BY Marks
<1>3. ASSUME NEW i \in 1 .. Len(t), t[i] \in Nat PROVE i \in 1 .. Len(s) /\ t[i] = s[i]
  BY <1>1, <1>2, <1>3
<1> HIDE DEF t
<1>4. \A k \in 1 .. n - 1 : \E i \in 1 .. Len(t) : t[i] = k
  <2> SUFFICES ASSUME NEW k \in 1 .. n - 1 PROVE \E i \in 1 .. Len(t) : t[i] = k
    OBVIOUS
  <2>1. PICK i \in 1 .. Len(s) : s[i] = k  BY DEF SentInOrder
  <2> QED  BY <2>1, <1>1
<1>5. \A i \in 1 .. Len(t) : t[i] \in Nat => t[i] \in 1 .. n - 1  BY <1>3 DEF SentInOrder
<1>6. \A i, j \in 1 .. Len(t) : i < j /\ t[i] \in Nat /\ t[j] \in Nat => t[i] < t[j]
  BY <1>3 DEF SentInOrder
<1> QED  BY <1>4, <1>5, <1>6 DEF SentInOrder, t

\* The token at n follows those before it.
LEMMA SendToken ==
  ASSUME NEW s \in Seq(Sent), NEW n \in Nat \ {0}, SentInOrder(s, n)
  PROVE  SentInOrder(Append(s, n), n + 1)
<1> DEFINE t == Append(s, n)
<1>1. /\ Len(s) \in Nat /\ Len(t) = Len(s) + 1 /\ t[Len(s) + 1] = n
      /\ \A i \in 1 .. Len(s) : t[i] = s[i]
  BY AppendProperties, LenProperties DEF Sent
<1>2. (n + 1) - 1 = n  OBVIOUS
<1> HIDE DEF t
<1>3. \A k \in 1 .. n : \E i \in 1 .. Len(t) : t[i] = k
  <2> SUFFICES ASSUME NEW k \in 1 .. n PROVE \E i \in 1 .. Len(t) : t[i] = k
    OBVIOUS
  <2>1. CASE k = n  BY <2>1, <1>1
  <2>2. CASE k # n
    <3>1. k \in 1 .. n - 1  BY <2>2
    <3>2. PICK i \in 1 .. Len(s) : s[i] = k  BY <3>1 DEF SentInOrder
    <3> QED  BY <3>2, <1>1
  <2> QED  BY <2>1, <2>2
<1>4. \A i \in 1 .. Len(t) : t[i] \in Nat => t[i] \in 1 .. n
  <2> SUFFICES ASSUME NEW i \in 1 .. Len(t), t[i] \in Nat PROVE t[i] \in 1 .. n
    OBVIOUS
  <2>1. CASE i = Len(s) + 1  BY <2>1, <1>1
  <2>2. CASE i # Len(s) + 1
    <3>1. i \in 1 .. Len(s)  BY <2>2, <1>1
    <3>2. s[i] \in 1 .. n - 1  BY <3>1, <1>1 DEF SentInOrder
    <3> QED  BY <3>1, <3>2, <1>1
  <2> QED  BY <2>1, <2>2
<1>5. ASSUME NEW i \in 1 .. Len(t), NEW j \in 1 .. Len(t), i < j, t[i] \in Nat, t[j] \in Nat
      PROVE  t[i] < t[j]
  <2>1. i \in 1 .. Len(s) /\ t[i] = s[i]  BY <1>5, <1>1
  <2>2. s[i] \in 1 .. n - 1  BY <2>1, <1>5 DEF SentInOrder
  <2>3. CASE j = Len(s) + 1  BY <2>1, <2>2, <2>3, <1>1
  <2>4. CASE j # Len(s) + 1
    <3>1. j \in 1 .. Len(s) /\ t[j] = s[j]  BY <2>4, <1>1
    <3> QED  BY <2>1, <3>1, <1>5 DEF SentInOrder
  <2> QED  BY <2>3, <2>4
<1> QED  BY <1>2, <1>3, <1>4, <1>5 DEF SentInOrder, t

\* What was sent stays as deep as it was.
LEMMA SendDeep ==
  ASSUME NEW s \in Seq(Sent), NEW x \in Sent, RightlyDeep(s),
         x \in Words => Depth(Append(s, x)) = Cardinality(Around(x))
  PROVE  RightlyDeep(Append(s, x))
<1> DEFINE t == Append(s, x)
<1>1. /\ Len(s) \in Nat /\ Len(t) = Len(s) + 1 /\ t[Len(s) + 1] = x
      /\ t \in Seq(Sent)
      /\ \A i \in 1 .. Len(s) : t[i] = s[i]
  BY AppendProperties, LenProperties
<1>2. SubSeq(t, 1, Len(t)) = t  BY <1>1, SubSeqFull
<1>3. ASSUME NEW i \in 1 .. Len(s) PROVE SubSeq(t, 1, i) = SubSeq(s, 1, i)
  <2>1. <<x>> \in Seq(Sent)  OBVIOUS
  <2>2. t = s \o <<x>>  BY AppendIsConcat
  <2>3. 1 \in 1 .. Len(s)  BY <1>1
  <2> QED  BY <2>1, <2>2, <2>3, SubSeqOfConcat1
<1> HIDE DEF t
<1>4. ASSUME NEW i \in 1 .. Len(t), t[i] \in Words
      PROVE  Depth(SubSeq(t, 1, i)) = Cardinality(Around(t[i]))
  <2>1. CASE i = Len(t)
    <3>1. t[i] = x  BY <2>1, <1>1
    <3> QED  BY <2>1, <3>1, <1>2, <1>4 DEF t
  <2>2. CASE i # Len(t)
    <3>1. i \in 1 .. Len(s)  BY <2>2, <1>1
    <3> QED  BY <3>1, <1>1, <1>3, <1>4 DEF RightlyDeep
  <2> QED  BY <2>1, <2>2
<1> QED  BY <1>4 DEF RightlyDeep, t

-----------------------------------------------------------------------------
(* Lines and levels *)

File == tokens \in Seq(Word \cup Newline)

\* A token is a word or a newline, never both.
LEMMA WordOrNewline ==
  ASSUME File, NEW k \in 1 .. Len(tokens)
  PROVE  /\ Len(tokens) \in Nat
         /\ tokens[k] \in Word <=> tokens[k] \notin Newline
         /\ tokens[k] \in Newline => tokens[k] = Spaces \/ tokens[k] \in 0 .. MaxTabs
         /\ k \in Words <=> tokens[k] \in Word
<1>1. tokens[k] \in Word \cup Newline /\ Len(tokens) \in Nat
  BY ElementOfSeq, LenProperties DEF File
<1>2. Word \cap Newline = {}  BY Marks DEF Newline
<1> QED  BY <1>1, <1>2 DEF Words, Newline

\* A newline brings its tabs; a word has those of the token before it.
LEMMA TabsAt ==
  ASSUME File, NEW k \in 1 .. Len(tokens)
  PROVE  /\ tokens[k] \in Newline => Tabs(k) = tokens[k]
         /\ tokens[k] \in Word => Tabs(k) = Tabs(k - 1)
<1>1. ASSUME tokens[k] \in Newline PROVE Tabs(k) = tokens[k]
  <2>1. k \in LineOf(k) /\ LineOf(k) \subseteq 1 .. k  BY <1>1 DEF LineOf
  <2>2. \A j \in LineOf(k) : j <= k  BY <2>1
  <2> DEFINE i == CHOOSE i \in LineOf(k) : \A j \in LineOf(k) : j <= i
  <2>3. i \in LineOf(k) /\ \A j \in LineOf(k) : j <= i  BY <2>1, <2>2
  <2>4. Tabs(k) = tokens[i]  BY <2>1 DEF Tabs
  <2> HIDE DEF i
  <2>5. i = k  BY <2>1, <2>3
  <2> QED  BY <2>4, <2>5
<1>2. ASSUME tokens[k] \in Word PROVE Tabs(k) = Tabs(k - 1)
  <2>1. tokens[k] \notin Newline  BY <1>2, WordOrNewline
  <2>2. LineOf(k) = LineOf(k - 1)  BY <2>1 DEF LineOf
  <2> QED  BY <2>2 DEF Tabs
<1> QED  BY <1>1, <1>2

\* Before the first token there are no tabs.
LEMMA TabsFirst == Tabs(0) = 0
<1>1. LineOf(0) = {}  BY DEF LineOf
<1> QED  BY <1>1 DEF Tabs

\* The levels open after token k: the base, and those of the lines that nothing
\* as shallow has come after.
LevelsAt(k) ==
  {v \in 0 .. MaxTabs :
     v = 0 \/ \E j \in Words : /\ j <= k /\ Tabs(j) = v
                             /\ \A i \in Words : j < i /\ i <= k => Tabs(i) > v}

\* No line up to token k has blanks before it.
TabbedTo(k) == \A i \in Words : i <= k => Tabs(i) \in 0 .. MaxTabs

\* A newline leaves the levels as they are.
LEMMA LevelsKept ==
  ASSUME NEW k \in Nat, k \notin Words
  PROVE  LevelsAt(k) = LevelsAt(k - 1)
<1>1. \A i \in Words : i \in Nat /\ (i <= k <=> i <= k - 1)  BY DEF Words
<1> QED  BY <1>1 DEF LevelsAt

\* A word closes the levels that are not around it, and is at the last one.
LEMMA LevelsStep ==
  ASSUME NEW k \in Words, TabbedTo(k)
  PROVE  /\ Around(k) = {u \in LevelsAt(k - 1) : u < Tabs(k)}
         /\ LevelsAt(k) = Around(k) \cup {Tabs(k)}
<1>1. k \in Nat /\ Words \subseteq Nat /\ Tabs(k) \in 0 .. MaxTabs /\ MaxTabs \in Nat
  BY Marks DEF Words, TabbedTo
<1>2. \A i \in Words : i <= k <=> i <= k - 1 \/ i = k  BY <1>1
<1>3. \A i \in Words : i < k <=> i <= k - 1  BY <1>1
<1>4. Around(k) = {u \in LevelsAt(k - 1) : u < Tabs(k)}
  <2>1. ASSUME NEW v \in Around(k) PROVE v \in LevelsAt(k - 1) /\ v < Tabs(k)
    <3>1. v \in 0 .. MaxTabs /\ v < Tabs(k)  BY <1>1 DEF Around
    <3>2. CASE v = 0  BY <3>1, <3>2 DEF LevelsAt
    <3>3. CASE v # 0
      <4>1. PICK j \in Words : /\ j < k /\ Tabs(j) = v
                               /\ \A i \in Words : j < i /\ i <= k => Tabs(i) > v
        BY <3>3 DEF Around
      <4> QED  BY <3>1, <4>1, <1>2, <1>3 DEF LevelsAt
    <3> QED  BY <3>2, <3>3
  <2>2. ASSUME NEW v \in LevelsAt(k - 1), v < Tabs(k) PROVE v \in Around(k)
    <3>1. v \in 0 .. Tabs(k) - 1  BY <1>1, <2>2 DEF LevelsAt
    <3>2. CASE v = 0  BY <3>1, <3>2 DEF Around
    <3>3. CASE v # 0
      <4>1. PICK j \in Words : /\ j <= k - 1 /\ Tabs(j) = v
                               /\ \A i \in Words : j < i /\ i <= k - 1 => Tabs(i) > v
        BY <3>3 DEF LevelsAt
      <4>2. ASSUME NEW i \in Words, j < i, i <= k PROVE Tabs(i) > v
        <5>1. CASE i = k  BY <5>1, <2>2, <1>1, <3>1
        <5>2. CASE i # k  BY <5>2, <4>1, <4>2, <1>2
        <5> QED  BY <5>1, <5>2
      <4> QED  BY <3>1, <4>1, <4>2, <1>3 DEF Around
    <3> QED  BY <3>2, <3>3
  <2> QED  BY <2>1, <2>2
<1>5. LevelsAt(k) = Around(k) \cup {Tabs(k)}
  <2>1. ASSUME NEW v \in LevelsAt(k) PROVE v \in Around(k) \cup {Tabs(k)}
    <3>0. v \in 0 .. MaxTabs  BY DEF LevelsAt
    <3>1. CASE v = Tabs(k)  BY <3>1
    <3>2. CASE v # Tabs(k) /\ v = 0
      <4>1. v \in 0 .. Tabs(k) - 1  BY <3>2, <1>1
      <4> QED  BY <4>1, <3>2 DEF Around
    <3>3. CASE v # Tabs(k) /\ v # 0
      <4>1. PICK j \in Words : /\ j <= k /\ Tabs(j) = v
                               /\ \A i \in Words : j < i /\ i <= k => Tabs(i) > v
        BY <3>3 DEF LevelsAt
      <4>2. j # k  BY <4>1, <3>3
      <4>3. j < k  BY <4>1, <4>2, <1>1
      <4>4. Tabs(k) > v  BY <4>1, <4>3, <1>1
      <4>5. v \in 0 .. Tabs(k) - 1  BY <4>4, <3>0, <1>1
      <4> QED  BY <4>1, <4>3, <4>5 DEF Around
    <3> QED  BY <3>1, <3>2, <3>3
  <2>2. Around(k) \subseteq LevelsAt(k)
    <3> SUFFICES ASSUME NEW v \in Around(k) PROVE v \in LevelsAt(k)
      OBVIOUS
    <3>1. v \in 0 .. MaxTabs  BY <1>1 DEF Around
    <3>2. CASE v = 0  BY <3>1, <3>2 DEF LevelsAt
    <3>3. CASE v # 0
      <4>1. PICK j \in Words : /\ j < k /\ Tabs(j) = v
                               /\ \A i \in Words : j < i /\ i <= k => Tabs(i) > v
        BY <3>3 DEF Around
      <4> QED  BY <3>1, <4>1, <1>1 DEF LevelsAt
    <3> QED  BY <3>2, <3>3
  <2>3. Tabs(k) \in LevelsAt(k)
    <3>1. ~ \E i \in Words : k < i /\ i <= k  BY <1>1
    <3>2. k <= k  BY <1>1
    <3> QED  BY <1>1, <3>1, <3>2 DEF LevelsAt
  <2> QED  BY <2>1, <2>2, <2>3
<1> QED  BY <1>4, <1>5

\* j is the last word before place k.
LastBefore(j, k) == j < k /\ \A i \in Words : i < k => i <= j

\* The levels are those of the last word, and of the lines around it.
LEMMA LevelsOfLast ==
  ASSUME NEW j \in Words, NEW k \in Nat, LastBefore(j, k), TabbedTo(k - 1)
  PROVE  /\ LevelsAt(k - 1) = Around(j) \cup {Tabs(j)}
         /\ Tabs(j) \in 0 .. MaxTabs
         /\ \A u \in Around(j) : u \in Nat /\ u < Tabs(j)
<1>1. Words \subseteq Nat /\ j \in Nat  BY DEF Words
<1>2. j <= k - 1  BY <1>1 DEF LastBefore
<1>3. \A i \in Words : i <= k - 1 <=> i <= j
  <2> TAKE i \in Words
  <2>1. i \in Nat  BY <1>1
  <2>2. i < k => i <= j  BY DEF LastBefore
  <2> QED  BY <1>1, <1>2, <2>1, <2>2
<1>4. LevelsAt(k - 1) = LevelsAt(j)  BY <1>3 DEF LevelsAt
<1>5. TabbedTo(j)  BY <1>3 DEF TabbedTo
<1>6. LevelsAt(j) = Around(j) \cup {Tabs(j)}  BY <1>5, LevelsStep
<1>7. Tabs(j) \in 0 .. MaxTabs  BY <1>1, <1>5 DEF TabbedTo
<1>8. \A u \in Around(j) : u \in Nat /\ u < Tabs(j)  BY <1>7, Marks DEF Around
<1> QED  BY <1>4, <1>6, <1>7, <1>8

\* Before the first word the base alone is open.
LEMMA LevelsOfNone ==
  ASSUME NEW k \in Nat, \A i \in Words : ~(i < k)
  PROVE  LevelsAt(k - 1) = {0}
<1>1. Words \subseteq Nat /\ MaxTabs \in Nat  BY Marks DEF Words
<1>2. \A i \in Words : ~(i <= k - 1)  BY <1>1
<1> QED  BY <1>1, <1>2 DEF LevelsAt

\* A line at an open level, or deeper than all of them, has its place.
LEMMA PlacedWhen ==
  ASSUME NEW k \in Words, TabbedTo(k),
         Tabs(k) \in LevelsAt(k - 1) \/ \A u \in LevelsAt(k - 1) : u <= Tabs(k)
  PROVE  Placed(k)
<1>1. Words \subseteq Nat /\ k \in Nat /\ MaxTabs \in Nat  BY Marks DEF Words
<1>2. TabbedTo(k - 1)  BY <1>1 DEF TabbedTo
<1>3. Tabs(k) \in 0 .. MaxTabs  BY <1>1 DEF TabbedTo
<1> SUFFICES ASSUME NEW j \in Words, j < k, \A i \in Words : j < i => k <= i
             PROVE  Tabs(k) >= Tabs(j) \/ Tabs(k) \in Around(j)
  BY DEF Placed
<1>4. LastBefore(j, k)
  <2> SUFFICES ASSUME NEW i \in Words, i < k PROVE i <= j
    BY DEF LastBefore
  <2>1. i \in Nat /\ j \in Nat  BY <1>1
  <2>2. j < i => k <= i  OBVIOUS
  <2> QED  BY <1>1, <2>1, <2>2
<1>5. /\ LevelsAt(k - 1) = Around(j) \cup {Tabs(j)}
      /\ Tabs(j) \in 0 .. MaxTabs
  BY <1>1, <1>2, <1>4, LevelsOfLast
<1>6. CASE Tabs(k) \in LevelsAt(k - 1)
  <2>1. CASE Tabs(k) \in Around(j)  BY <2>1
  <2>2. CASE Tabs(k) = Tabs(j)  BY <2>2, <1>3
  <2> QED  BY <1>5, <1>6, <2>1, <2>2
<1>7. CASE \A u \in LevelsAt(k - 1) : u <= Tabs(k)
  <2>1. Tabs(j) <= Tabs(k)  BY <1>5, <1>7
  <2> QED  BY <2>1, <1>3, <1>5
<1> QED  BY <1>6, <1>7

\* A line that goes back to a level not open has none.
LEMMA MisplacedWhen ==
  ASSUME NEW k \in Words, TabbedTo(k),
         (\E i \in Words : i < k) => \E j \in Words : LastBefore(j, k),
         Tabs(k) \notin LevelsAt(k - 1), NEW w \in LevelsAt(k - 1), w > Tabs(k)
  PROVE  ~Placed(k)
<1>1. Words \subseteq Nat /\ k \in Nat /\ MaxTabs \in Nat  BY Marks DEF Words
<1>2. TabbedTo(k - 1)  BY <1>1 DEF TabbedTo
<1>3. Tabs(k) \in 0 .. MaxTabs  BY <1>1 DEF TabbedTo
<1>4. \E i \in Words : i < k
  <2> SUFFICES ASSUME \A i \in Words : ~(i < k) PROVE FALSE
    OBVIOUS
  <2>1. LevelsAt(k - 1) = {0}  BY <1>1, LevelsOfNone
  <2> QED  BY <2>1, <1>3
<1>5. PICK j \in Words : LastBefore(j, k)  BY <1>4
<1>6. /\ LevelsAt(k - 1) = Around(j) \cup {Tabs(j)}
      /\ Tabs(j) \in 0 .. MaxTabs
      /\ \A u \in Around(j) : u \in Nat /\ u < Tabs(j)
  BY <1>1, <1>2, <1>5, LevelsOfLast
<1>7. w <= Tabs(j)  BY <1>6
<1>8. w \in Nat  BY <1>6
<1>9. ~(Tabs(k) >= Tabs(j))  BY <1>3, <1>6, <1>7, <1>8
<1>10. Tabs(k) \notin Around(j)  BY <1>6
<1>11. j < k  BY <1>5 DEF LastBefore
<1>12. \A i \in Words : j < i => k <= i
  <2> TAKE i \in Words
  <2>1. i \in Nat /\ j \in Nat  BY <1>1
  <2>2. i < k => i <= j  BY <1>5 DEF LastBefore
  <2> QED  BY <2>1, <2>2, <1>1
<1> QED  BY <1>9, <1>10, <1>11, <1>12 DEF Placed

-----------------------------------------------------------------------------
(* The stack *)

Levels == 0 .. MaxTabs
Open(s) == {s[i] : i \in 1 .. Len(s)}

\* The base is the first level, and every other is deeper than the one under it.
Rising(s) == s[1] = 0 /\ \A i, j \in 1 .. Len(s) : i < j => s[i] < s[j]

\* A sequence has as many places as it is long.
LEMMA PlacesCount ==
  ASSUME NEW n \in Nat
  PROVE  IsFiniteSet(1 .. n) /\ Cardinality(1 .. n) = n
<1>1. IsFiniteSet(1 .. n)  BY FS_Interval
<1>2. Cardinality(1 .. n) = IF 1 > n THEN 0 ELSE n - 1 + 1
  <2>1. 1 \in Int /\ n \in Int  OBVIOUS
  <2> QED  BY <2>1, FS_Interval, Zenon
<1> QED  BY <1>1, <1>2

\* The last level is the deepest, and there are as many as the stack is long.
LEMMA StackFacts ==
  ASSUME NEW s \in Seq(Levels), Rising(s), Len(s) > 0
  PROVE  /\ Len(s) \in Nat /\ s[Len(s)] \in Open(s) /\ Open(s) \subseteq Levels
         /\ \A u \in Open(s) : u <= s[Len(s)]
         /\ Cardinality(Open(s)) = Len(s)
         /\ s[Len(s)] > 0 => Len(s) > 1
<1>1. /\ Len(s) \in Nat /\ s \in [1 .. Len(s) -> Levels]
      /\ \A i \in 1 .. Len(s) : s[i] \in Levels
  BY LenProperties
<1>2. s[Len(s)] \in Open(s) /\ Open(s) \subseteq Levels  BY <1>1 DEF Open
<1>3. \A u \in Open(s) : u <= s[Len(s)]
  <2> SUFFICES ASSUME NEW i \in 1 .. Len(s) PROVE s[i] <= s[Len(s)]
    BY DEF Open
  <2>1. CASE i = Len(s)  BY <2>1, <1>1, Marks DEF Levels
  <2>2. CASE i # Len(s)
    <3>1. s[i] < s[Len(s)]  BY <2>2, <1>1 DEF Rising
    <3> QED  BY <3>1, <1>1, Marks DEF Levels
  <2> QED  BY <2>1, <2>2
<1>4. Cardinality(Open(s)) = Len(s)
  <2>1. IsFiniteSet(1 .. Len(s)) /\ Cardinality(1 .. Len(s)) = Len(s)  BY <1>1, PlacesCount
  <2>2. s \in Surjection(1 .. Len(s), Open(s))  BY <1>1 DEF Surjection, Open
  <2>3. s \in Injection(1 .. Len(s), Open(s))
    <3>1. \A i, j \in 1 .. Len(s) : s[i] = s[j] => i = j
      <4> SUFFICES ASSUME NEW i \in 1 .. Len(s), NEW j \in 1 .. Len(s), s[i] = s[j], i # j
                   PROVE  FALSE
        OBVIOUS
      <4>1. i < j \/ j < i  BY <1>1
      <4>2. s[i] < s[j] \/ s[j] < s[i]  BY <4>1 DEF Rising
      <4> QED  BY <4>2, <1>1, Marks DEF Levels
    <3>2. s \in [1 .. Len(s) -> Open(s)]  BY <1>1 DEF Open
    <3> QED  BY <3>1, <3>2 DEF Injection, IsInjective
  <2> QED  BY <2>1, <2>2, <2>3, FS_Surjection
<1>5. s[Len(s)] > 0 => Len(s) > 1  BY <1>1 DEF Rising
<1> QED  BY <1>1, <1>2, <1>3, <1>4, <1>5

\* A deeper level goes on top.
LEMMA PushLevel ==
  ASSUME NEW s \in Seq(Levels), Rising(s), Len(s) > 0, NEW v \in Levels, v > s[Len(s)]
  PROVE  /\ Append(s, v) \in Seq(Levels) /\ Rising(Append(s, v))
         /\ Len(Append(s, v)) = Len(s) + 1
         /\ Open(Append(s, v)) = Open(s) \cup {v}
<1> DEFINE t == Append(s, v)
<1>1. /\ Len(s) \in Nat /\ t \in Seq(Levels) /\ Len(t) = Len(s) + 1 /\ t[Len(s) + 1] = v
      /\ \A i \in 1 .. Len(s) : t[i] = s[i] /\ s[i] \in Levels
  BY AppendProperties, LenProperties
<1>2. \A u \in Open(s) : u <= s[Len(s)]  BY StackFacts
<1> HIDE DEF t
<1>3. t[1] = 0  BY <1>1 DEF Rising
<1>4. ASSUME NEW i \in 1 .. Len(t), NEW j \in 1 .. Len(t), i < j PROVE t[i] < t[j]
  <2>1. i \in 1 .. Len(s) /\ t[i] = s[i]  BY <1>1, <1>4
  <2>2. CASE j = Len(s) + 1
    <3>1. s[i] <= s[Len(s)]  BY <2>1, <1>2 DEF Open
    <3> QED  BY <2>1, <2>2, <3>1, <1>1, Marks DEF Levels
  <2>3. CASE j # Len(s) + 1
    <3>1. j \in 1 .. Len(s) /\ t[j] = s[j]  BY <2>3, <1>1
    <3> QED  BY <2>1, <3>1, <1>4 DEF Rising
  <2> QED  BY <2>2, <2>3
<1>5. Open(t) = Open(s) \cup {v}
  <2>1. ASSUME NEW u \in Open(t) PROVE u \in Open(s) \cup {v}
    <3>1. PICK i \in 1 .. Len(t) : u = t[i]  BY DEF Open
    <3>2. CASE i = Len(s) + 1  BY <3>1, <3>2, <1>1
    <3>3. CASE i # Len(s) + 1
      <4>1. i \in 1 .. Len(s)  BY <3>3, <1>1
      <4> QED  BY <4>1, <3>1, <1>1 DEF Open
    <3> QED  BY <3>2, <3>3
  <2>2. Open(s) \subseteq Open(t)  BY <1>1 DEF Open
  <2>3. v \in Open(t)
    <3>1. Len(s) + 1 \in 1 .. Len(t)  BY <1>1
    <3> QED  BY <3>1, <1>1 DEF Open
  <2> QED  BY <2>1, <2>2, <2>3
<1> QED  BY <1>1, <1>3, <1>4, <1>5 DEF Rising, t

\* The last level alone comes off.
LEMMA PopLevel ==
  ASSUME NEW s \in Seq(Levels), Rising(s), Len(s) > 1
  PROVE  LET t == SubSeq(s, 1, Len(s) - 1) IN
         /\ t \in Seq(Levels) /\ Rising(t) /\ Len(t) = Len(s) - 1
         /\ Open(t) = Open(s) \ {s[Len(s)]}
<1> DEFINE t == SubSeq(s, 1, Len(s) - 1)
<1>1. Len(s) \in Nat /\ \A i \in 1 .. Len(s) : s[i] \in Levels  BY LenProperties
<1>2. /\ t \in Seq(Levels) /\ Len(t) = Len(s) - 1
      /\ \A i \in 1 .. Len(s) - 1 : t[i] = s[i]
  <2>1. \A i \in 1 .. Len(s) - 1 : s[i] \in Levels  BY <1>1
  <2>2. /\ t \in Seq(Levels)
        /\ Len(t) = IF 1 <= Len(s) - 1 THEN (Len(s) - 1) - 1 + 1 ELSE 0
        /\ \A i \in 1 .. (Len(s) - 1) - 1 + 1 : t[i] = s[1 + i - 1]
    BY <2>1, <1>1, SubSeqProperties
  <2>3. Len(t) = Len(s) - 1  BY <1>1, <2>2
  <2>4. \A i \in 1 .. Len(s) - 1 : t[i] = s[i]  BY <1>1, <2>2
  <2> QED  BY <2>2, <2>3, <2>4
<1> HIDE DEF t
<1>3. Rising(t)  BY <1>1, <1>2 DEF Rising
<1>4. Open(t) = Open(s) \ {s[Len(s)]}
  <2>1. ASSUME NEW u \in Open(t) PROVE u \in Open(s) /\ u # s[Len(s)]
    <3>1. PICK i \in 1 .. Len(t) : u = t[i]  BY DEF Open
    <3>2. i \in 1 .. Len(s) - 1 /\ i \in 1 .. Len(s) /\ u = s[i] /\ i < Len(s)
      BY <3>1, <1>1, <1>2
    <3>3. s[i] < s[Len(s)] /\ s[i] \in Levels /\ s[Len(s)] \in Levels  BY <3>2, <1>1 DEF Rising
    <3>4. s[i] # s[Len(s)]  BY <3>3, Marks DEF Levels
    <3> QED  BY <3>2, <3>4 DEF Open
  <2>2. ASSUME NEW u \in Open(s), u # s[Len(s)] PROVE u \in Open(t)
    <3>1. PICK i \in 1 .. Len(s) : u = s[i]  BY DEF Open
    <3>2. i \in 1 .. Len(t)  BY <3>1, <2>2, <1>1, <1>2
    <3> QED  BY <3>1, <3>2, <1>2 DEF Open
  <2> QED  BY <2>1, <2>2
<1> QED  BY <1>2, <1>3, <1>4 DEF t

-----------------------------------------------------------------------------
(* The invariant *)

\* The last token whose line the stack stands for: the word ahead, or the token
\* before a newline.
Here == IF next <= Len(tokens) /\ tokens[next] \in Word THEN next ELSE next - 1

TypeOK ==
  /\ File /\ next \in 1 .. Len(tokens) + 1
  /\ stack \in Seq(Levels) /\ Len(stack) > 0
  /\ popping \in BOOLEAN
  /\ out \in Seq(Sent)
  /\ status \in {"write", "run", "ok", "error"}

\* What went out, and that the blocks open in it are the levels of the stack.
SentRight ==
  /\ SentInOrder(out, next) /\ RightlyDeep(out)
  /\ Depth(out) = Len(stack) - 1
  /\ Rising(stack)
  /\ (\E k \in Words : k < next) => \E k \in Words : LastBefore(k, next)

Unstarted == next = 1 /\ stack = <<0>> /\ ~popping /\ out = <<>>

\* The lines read so far have their place.
ReadRight == TabbedTo(Here) /\ \A k \in Words : k <= Here => Placed(k)

\* The stack holds the levels open here; while levels are popped, those of them
\* that the line does not close, and perhaps some it does.
StackRight ==
  /\ popping => /\ next < Len(tokens) /\ tokens[next] \in Nat /\ tokens[next + 1] \in Word
                /\ Open(stack) \subseteq LevelsAt(next - 1)
                /\ \A u \in LevelsAt(next - 1) : u \in Open(stack) \/ u > tokens[next]
                /\ \E u \in LevelsAt(next - 1) : u > tokens[next]
  /\ next <= Len(tokens) /\ ~popping => Open(stack) = LevelsAt(Here)

Ended ==
  /\ status = "error" => /\ next < Len(tokens) /\ tokens[next + 1] \in Word
                         /\ Tabs(next + 1) = Spaces \/ ~Placed(next + 1)
  /\ status = "ok" => next = Len(tokens) + 1 /\ Len(stack) = 1

IInv ==
  /\ TypeOK /\ SentRight
  /\ status = "write" => Unstarted
  /\ status # "write" => ReadRight /\ StackRight /\ Ended

\* What depends on the tokens alone stays while they do.
LEMMA SameTokens ==
  ASSUME tokens' = tokens
  PROVE  /\ File' <=> File
         /\ Words' = Words
         /\ \A k : Tabs(k)' = Tabs(k) /\ LevelsAt(k)' = LevelsAt(k) /\ Around(k)' = Around(k)
         /\ \A k : (TabbedTo(k)' <=> TabbedTo(k)) /\ (Placed(k)' <=> Placed(k))
         /\ \A s : RightlyDeep(s)' <=> RightlyDeep(s)
         /\ \A j, k : LastBefore(j, k)' <=> LastBefore(j, k)
<1>1. Words' = Words  BY DEF Words
<1>2. \A k : Tabs(k)' = Tabs(k)  BY DEF Tabs, LineOf, Newline
<1>3. \A k : LevelsAt(k)' = LevelsAt(k)  BY <1>1, <1>2 DEF LevelsAt
<1>4. \A k : Around(k)' = Around(k)  BY <1>1, <1>2 DEF Around
<1>5. \A k : TabbedTo(k)' <=> TabbedTo(k)  BY <1>1, <1>2 DEF TabbedTo
<1>6. \A k : Placed(k)' <=> Placed(k)  BY <1>1, <1>2, <1>4 DEF Placed
<1>7. \A s : RightlyDeep(s)' <=> RightlyDeep(s)  BY <1>1, <1>4 DEF RightlyDeep
<1>8. \A j, k : LastBefore(j, k)' <=> LastBefore(j, k)  BY <1>1 DEF LastBefore
<1>9. File' <=> File  BY DEF File, Newline
<1> QED  BY <1>1, <1>2, <1>3, <1>4, <1>5, <1>6, <1>7, <1>8, <1>9

\* What went out is right when it is for the tokens there were.
LEMMA SentRightAfter ==
  ASSUME tokens' = tokens, SentInOrder(out', next'), RightlyDeep(out'),
         Depth(out') = Len(stack') - 1, Rising(stack'),
         (\E k \in Words : k < next') => \E k \in Words : LastBefore(k, next')
  PROVE  SentRight'
<1>1. SentInOrder(out, next)'  BY DEF SentInOrder
<1>2. RightlyDeep(out)'
  <2>1. Words' = Words /\ \A k : Around(k)' = Around(k)  BY SameTokens
  <2> QED  BY <2>1 DEF RightlyDeep, Depth, Count
<1>3. (Depth(out) = Len(stack) - 1)'  BY DEF Depth, Count
<1>4. Rising(stack)'  BY DEF Rising
<1>5. ((\E k \in Words : k < next) => \E k \in Words : LastBefore(k, next))'
  BY DEF LastBefore, Words
<1> QED  BY <1>1, <1>2, <1>3, <1>4, <1>5 DEF SentRight

\* Passing a word, or the newline of a line, keeps the last word known.
LEMMA LastKept ==
  ASSUME next \in Nat,
         (\E k \in Words : k < next) => \E k \in Words : LastBefore(k, next)
  PROVE  (\E k \in Words : k < next + 1) => \E k \in Words : LastBefore(k, next + 1)
<1>1. Words \subseteq Nat  BY DEF Words
<1>2. CASE next \in Words
  <2>1. LastBefore(next, next + 1)
    <3>1. \A i \in Words : i < next + 1 => i <= next  BY <1>1
    <3> QED  BY <3>1 DEF LastBefore
  <2> QED  BY <2>1, <1>2
<1>3. CASE next \notin Words
  <2>1. \A i \in Words : i < next + 1 <=> i < next
    <3> TAKE i \in Words
    <3>1. i \in Nat /\ i # next  BY <1>1, <1>3
    <3> QED  BY <3>1
  <2> SUFFICES ASSUME \E k \in Words : k < next + 1
               PROVE  \E k \in Words : LastBefore(k, next + 1)
    OBVIOUS
  <2>2. PICK k \in Words : LastBefore(k, next)  BY <2>1
  <2>3. LastBefore(k, next + 1)  BY <2>1, <2>2 DEF LastBefore
  <2> QED  BY <2>3
<1> QED  BY <1>2, <1>3

\* At a line, with tabs before it: the levels its word finds.
LEMMA LineFacts ==
  ASSUME IInv, AtLine
  PROVE  /\ next \in 1 .. Len(tokens) /\ next + 1 \in 1 .. Len(tokens) /\ Len(tokens) \in Nat
         /\ next \notin Words /\ next + 1 \in Words /\ Here = next - 1
         /\ Tabs(next + 1) = tokens[next]
         /\ LevelsAt(next) = LevelsAt(next - 1)
         /\ tokens[next] # Spaces => tokens[next] \in Levels /\ TabbedTo(next + 1)
         /\ ~(tokens[next] \in Nat) => tokens[next] = Spaces
         /\ (\E i \in Words : i < next + 1) => \E j \in Words : LastBefore(j, next + 1)
         /\ ReadRight /\ StackRight
<1>1. /\ File /\ next \in 1 .. Len(tokens) + 1 /\ Len(tokens) \in Nat
      /\ tokens[next] \in Newline /\ next < Len(tokens) /\ tokens[next + 1] \in Word
      /\ status = "run"
  <2>1. Len(tokens) \in Nat  BY LenProperties DEF IInv, TypeOK, File
  <2> QED  BY <2>1 DEF IInv, TypeOK, AtLine, More
<1>2. next \in 1 .. Len(tokens) /\ next + 1 \in 1 .. Len(tokens)  BY <1>1
<1>3. next \notin Words /\ next + 1 \in Words /\ tokens[next] \notin Word
  BY <1>1, <1>2, WordOrNewline
<1>4. Here = next - 1  BY <1>3 DEF Here
<1>5. Tabs(next + 1) = tokens[next]
  <2>1. Tabs(next) = tokens[next]  BY <1>1, <1>2, TabsAt
  <2>2. Tabs(next + 1) = Tabs((next + 1) - 1)  BY <1>1, <1>2, TabsAt
  <2>3. (next + 1) - 1 = next  BY <1>2
  <2> QED  BY <2>1, <2>2, <2>3
<1>6. LevelsAt(next) = LevelsAt(next - 1)  BY <1>2, <1>3, LevelsKept
<1>7. ReadRight /\ StackRight  BY <1>1 DEF IInv
<1>8. tokens[next] = Spaces \/ tokens[next] \in Levels  BY <1>1, <1>2, WordOrNewline DEF Levels
<1>9. ASSUME tokens[next] # Spaces PROVE tokens[next] \in Levels /\ TabbedTo(next + 1)
  <2>1. tokens[next] \in Levels  BY <1>8, <1>9
  <2>2. TabbedTo(next - 1)  BY <1>4, <1>7 DEF ReadRight
  <2>3. ASSUME NEW i \in Words, i <= next + 1 PROVE Tabs(i) \in 0 .. MaxTabs
    <3>1. i \in Nat /\ i # next  BY <1>3 DEF Words
    <3>2. CASE i = next + 1  BY <3>2, <1>5, <2>1 DEF Levels
    <3>3. CASE i # next + 1
      <4>1. i <= next - 1  BY <3>1, <3>3, <2>3, <1>2
      <4> QED  BY <4>1, <2>2 DEF TabbedTo
    <3> QED  BY <3>2, <3>3
  <2> QED  BY <2>1, <2>3 DEF TabbedTo
<1>10. ~(tokens[next] \in Nat) => tokens[next] = Spaces  BY <1>8, Marks DEF Levels
<1>11. (\E i \in Words : i < next + 1) => \E j \in Words : LastBefore(j, next + 1)
  <2>1. next \in Nat  BY <1>2
  <2> QED  BY <2>1, LastKept DEF IInv, SentRight
<1> QED  BY <1>1, <1>2, <1>3, <1>4, <1>5, <1>6, <1>7, <1>9, <1>10, <1>11

\* At a line whose newline passes, the stack that stands for it is right.
LEMMA LinePasses ==
  ASSUME IInv, AtLine, tokens[next] # Spaces, tokens' = tokens, next' = next + 1,
         popping' = FALSE, status' = "run",
         Placed(next + 1), Open(stack') = LevelsAt(next + 1)
  PROVE  (ReadRight /\ StackRight /\ Ended)'
<1>1. /\ next \in 1 .. Len(tokens) /\ next + 1 \in 1 .. Len(tokens) /\ Len(tokens) \in Nat
      /\ next \notin Words /\ next + 1 \in Words /\ Here = next - 1
      /\ TabbedTo(next + 1) /\ ReadRight
  BY LineFacts
<1>2. tokens[next + 1] \in Word  BY DEF AtLine
<1>3. Here' = next + 1  BY <1>1, <1>2 DEF Here
<1>4. ASSUME NEW k \in Words, k <= next + 1 PROVE Placed(k)
  <2>1. k \in Nat /\ k # next  BY <1>1 DEF Words
  <2>2. k = next + 1 \/ k <= next - 1  BY <2>1, <1>1, <1>4
  <2> QED  BY <2>2, <1>1 DEF ReadRight
<1>5. ReadRight'
  <2>1. /\ Words' = Words
        /\ \A k : (TabbedTo(k)' <=> TabbedTo(k)) /\ (Placed(k)' <=> Placed(k))
    BY SameTokens
  <2>2. TabbedTo(Here)' <=> TabbedTo(next + 1)  BY <1>3 DEF TabbedTo, Words, Tabs, LineOf, Newline
  <2> QED  BY <2>1, <2>2, <1>1, <1>3, <1>4 DEF ReadRight
<1>6. StackRight'
  <2>1. LevelsAt(Here)' = LevelsAt(next + 1)
    BY <1>3 DEF LevelsAt, Words, Tabs, LineOf, Newline
  <2>2. Open(stack)' = Open(stack')  BY DEF Open
  <2> QED  BY <2>1, <2>2 DEF StackRight
<1>7. Ended'  BY DEF Ended
<1> QED  BY <1>5, <1>6, <1>7

-----------------------------------------------------------------------------
(* The steps *)

\* Before anything is read nothing is sent, and only the ground level is open.
LEMMA InitOK == Init => IInv
<1> SUFFICES ASSUME Init PROVE IInv
  OBVIOUS
<1> USE DEF Init
<1>1. <<0>> \in Seq(Levels) /\ Len(<<0>>) = 1 /\ <<0>>[1] = 0
  <2>1. 0 \in Levels  BY Marks DEF Levels
  <2> QED  BY <2>1
<1>2. tokens = <<>> /\ Len(tokens) = 0 /\ File /\ Words = {}
  BY EmptySeq DEF File, Words
<1>3. TypeOK
  <2>1. out \in Seq(Sent)  BY EmptySeq
  <2>2. next \in 1 .. Len(tokens) + 1  BY <1>2
  <2>3. stack \in Seq(Levels) /\ Len(stack) > 0  BY <1>1
  <2> QED  BY <1>2, <2>1, <2>2, <2>3 DEF TypeOK
<1>4. SentRight
  <2>1. Len(<<>>) = 0  BY EmptySeq
  <2>2. SentInOrder(<<>>, 1) /\ RightlyDeep(<<>>)  BY <2>1 DEF SentInOrder, RightlyDeep
  <2>3. Depth(out) = Len(stack) - 1  BY <1>1, DepthNone
  <2>4. Rising(stack)  BY <1>1 DEF Rising
  <2> QED  BY <1>2, <2>2, <2>3, <2>4 DEF SentRight
<1> QED  BY <1>3, <1>4 DEF IInv, Unstarted

\* The file grows only before the pass starts.
LEMMA WriteOK ==
  ASSUME IInv, NEW some \in Seq(Word \cup Newline), Write(some)
  PROVE  IInv'
<1> USE DEF Write
<1>0. Unstarted /\ TypeOK /\ SentRight  BY DEF IInv
<1>1. tokens' \in Seq(Word \cup Newline)  BY ConcatProperties DEF IInv, TypeOK, File
<1>2. File' /\ Len(tokens') \in Nat
  <2>1. File'  BY <1>1 DEF File, Newline
  <2> QED  BY <2>1, <1>1, LenProperties
<1>3. TypeOK'  BY <1>0, <1>2 DEF TypeOK, Unstarted
<1>4. SentRight'
  <2>1. Len(<<>>) = 0  BY EmptySeq
  <2>2. SentInOrder(out, next)' /\ RightlyDeep(out)'
    BY <2>1, <1>0 DEF SentInOrder, RightlyDeep, Unstarted
  <2>3. \A k \in Words' : ~(k < next')  BY <1>0 DEF Words, Unstarted
  <2>4. (Depth(out) = Len(stack) - 1)' /\ Rising(stack)'
    BY <1>0 DEF SentRight, Depth, Count, Rising
  <2> QED  BY <2>2, <2>3, <2>4 DEF SentRight
<1> QED  BY <1>0, <1>3, <1>4 DEF IInv, Unstarted

\* The pass starts at the first token, with nothing sent.
LEMMA StartOK ==
  ASSUME IInv, Start
  PROVE  IInv'
<1> USE DEF Start
<1>0. Unstarted /\ TypeOK /\ SentRight /\ Len(tokens) \in Nat
  BY LenProperties DEF IInv, TypeOK, File
<1>1. TypeOK'  BY <1>0 DEF TypeOK, File, Newline
<1>2. SentRight'
  <2>1. /\ SentInOrder(out', next') /\ RightlyDeep(out')
        /\ Depth(out') = Len(stack') - 1 /\ Rising(stack')
    BY <1>0 DEF SentRight
  <2>2. (\E k \in Words : k < next') => \E k \in Words : LastBefore(k, next')
    BY <1>0 DEF SentRight
  <2> QED  BY <2>1, <2>2, SentRightAfter
<1>3. Words \subseteq Nat \ {0} /\ Words' = Words  BY DEF Words
<1>4. LevelsAt(0) = {0}
  <2>1. \A i \in Words : ~(i < 1)  BY <1>3
  <2>2. LevelsAt(1 - 1) = {0}  BY <2>1, LevelsOfNone
  <2> QED  BY <2>2
<1>5. TabbedTo(Here) /\ LevelsAt(Here) = {0} /\ (\A k \in Words : k <= Here => Placed(k))
  <2>1. CASE 1 <= Len(tokens) /\ tokens[1] \in Word
    <3>1. Here = 1 /\ 1 \in Words  BY <2>1, <1>0 DEF Here, Unstarted, Words
    <3>2. Tabs(1) = 0
      <4>1. 1 \in 1 .. Len(tokens) /\ File  BY <2>1, <1>0 DEF TypeOK
      <4>2. Tabs(1) = Tabs(1 - 1)  BY <4>1, <2>1, TabsAt
      <4> QED  BY <4>2, TabsFirst
    <3>3. TabbedTo(1)
      <4>1. \A i \in Words : i <= 1 => i = 1  BY <1>3
      <4> QED  BY <4>1, <3>2, Marks DEF TabbedTo
    <3>4. LevelsAt(1) = {0}
      <4>1. /\ Around(1) = {u \in LevelsAt(1 - 1) : u < Tabs(1)}
            /\ LevelsAt(1) = Around(1) \cup {Tabs(1)}
        BY <3>1, <3>3, LevelsStep
      <4>2. Around(1) = {}  BY <4>1, <3>2, <1>4
      <4> QED  BY <4>1, <4>2, <3>2
    <3>5. \A k \in Words : k <= 1 => Placed(k)
      <4>1. \A k \in Words : k <= 1 => ~ \E j \in Words : j < k  BY <1>3
      <4> QED  BY <4>1 DEF Placed
    <3> QED  BY <3>1, <3>3, <3>4, <3>5
  <2>2. CASE ~(1 <= Len(tokens) /\ tokens[1] \in Word)
    <3>1. Here = 0  BY <2>2, <1>0 DEF Here, Unstarted
    <3>2. \A i \in Words : ~(i <= 0)  BY <1>3
    <3> QED  BY <3>1, <3>2, <1>4 DEF TabbedTo
  <2> QED  BY <2>1, <2>2
<1>6. Here' = Here  BY DEF Here
<1>7. ReadRight'
  <2>1. TabbedTo(Here)' <=> TabbedTo(Here)  BY <1>6 DEF TabbedTo, Words, Tabs, LineOf, Newline
  <2> QED  BY <2>1, <1>3, <1>5, <1>6, SameTokens DEF ReadRight
<1>8. StackRight'
  <2>1. LevelsAt(Here)' = LevelsAt(Here)  BY <1>6 DEF LevelsAt, Words, Tabs, LineOf, Newline
  <2>2. Open(stack)' = {0}  BY <1>0 DEF Open, Unstarted
  <2> QED  BY <2>1, <2>2, <1>0, <1>5 DEF StackRight, Unstarted
<1> QED  BY <1>1, <1>2, <1>7, <1>8 DEF IInv, Ended

\* The stack is as long as there are levels open.
LEMMA StackDepth ==
  ASSUME IInv
  PROVE  /\ Len(stack) \in Nat /\ Top \in Open(stack) /\ Open(stack) \subseteq Levels
         /\ \A u \in Open(stack) : u <= Top
         /\ Cardinality(Open(stack)) = Len(stack)
         /\ Top > 0 => Len(stack) > 1
         /\ Top \in Nat
  BY StackFacts, Marks DEF IInv, TypeOK, SentRight, Top, Levels

\* A token that passes without a mark: what went out is right after it.
LEMMA PassPlain ==
  ASSUME IInv, More, Pass(<<>>), UNCHANGED <<tokens, stack, status>>,
         next \in Words => Cardinality(Around(next)) = Len(stack) - 1
  PROVE  TypeOK' /\ SentRight'
<1>0. /\ TypeOK /\ SentRight /\ Len(tokens) \in Nat /\ next \in 1 .. Len(tokens)
  BY LenProperties DEF IInv, TypeOK, File, More
<1>1. out' = Append(out, next)
  <2>1. out \o <<>> = out  BY <1>0, ConcatEmptySeq DEF TypeOK
  <2> QED  BY <2>1 DEF Pass
<1>2. next' = next + 1 /\ popping' = FALSE  BY DEF Pass
<1>3. next \in Sent /\ next \in Nat \ {0} /\ out \in Seq(Sent)  BY <1>0 DEF Sent, TypeOK
<1>4. TypeOK'
  <2>1. out' \in Seq(Sent)  BY <1>1, <1>3, AppendProperties
  <2>2. next' \in 1 .. Len(tokens) + 1  BY <1>0, <1>2
  <2>3. File'  BY <1>0, SameTokens DEF TypeOK
  <2> QED  BY <1>0, <1>2, <2>1, <2>2, <2>3 DEF TypeOK
<1>5. SentInOrder(out', next')  BY <1>0, <1>1, <1>2, <1>3, SendToken DEF SentRight
<1>6. Depth(out') = Len(stack) - 1  BY <1>0, <1>1, <1>3, DepthOne DEF SentRight
<1>7. RightlyDeep(out')
  <2>1. next \in Words => Depth(Append(out, next)) = Cardinality(Around(next))  BY <1>1, <1>6
  <2> QED  BY <2>1, <1>0, <1>1, <1>3, SendDeep DEF SentRight
<1>8. SentRight'
  <2>1. (\E k \in Words : k < next + 1) => \E k \in Words : LastBefore(k, next + 1)
    BY <1>0, LastKept DEF SentRight
  <2>2. Depth(out') = Len(stack') - 1 /\ Rising(stack')  BY <1>0, <1>6 DEF SentRight
  <2> QED  BY <2>1, <2>2, <1>2, <1>5, <1>7, SentRightAfter
<1> QED  BY <1>4, <1>8

\* A word within a line is passed on, as deep as the line it is on.
LEMMA OtherOK ==
  ASSUME IInv, Other
  PROVE  IInv'
<1>0. /\ TypeOK /\ SentRight /\ ReadRight /\ StackRight /\ File /\ Len(tokens) \in Nat
      /\ next \in 1 .. Len(tokens) /\ tokens[next] \in Word /\ next \in Words
      /\ status = "run" /\ More /\ Pass(<<>>) /\ UNCHANGED <<tokens, stack, status>>
  BY LenProperties, WordOrNewline DEF IInv, TypeOK, File, More, Other, Words
<1>1. Here = next /\ ~popping
  <2>1. tokens[next] \notin Nat  BY <1>0, Marks
  <2> QED  BY <2>1, <1>0 DEF Here, StackRight
<1>2. /\ TabbedTo(next) /\ Open(stack) = LevelsAt(next)
      /\ \A k \in Words : k <= next => Placed(k)
  BY <1>0, <1>1 DEF ReadRight, StackRight
<1>3. /\ Around(next) = {u \in LevelsAt(next - 1) : u < Tabs(next)}
      /\ LevelsAt(next) = Around(next) \cup {Tabs(next)}
  BY <1>0, <1>2, LevelsStep
<1>4. Tabs(next) \in Levels  BY <1>0, <1>2 DEF TabbedTo, Levels
<1>5. Cardinality(Around(next)) = Len(stack) - 1
  <2>1. Around(next) \subseteq 0 .. Tabs(next) - 1  BY DEF Around
  <2>2. IsFiniteSet(Around(next))
    <3>1. IsFiniteSet(0 .. Tabs(next) - 1)  BY <1>4, FS_Interval, Marks DEF Levels
    <3> QED  BY <2>1, <3>1, FS_Subset
  <2>3. Tabs(next) \notin Around(next)  BY <2>1, <1>4, Marks DEF Levels
  <2>4. Cardinality(LevelsAt(next)) = Cardinality(Around(next)) + 1
    BY <1>3, <2>2, <2>3, FS_AddElement
  <2>5. Cardinality(Around(next)) \in Nat  BY <2>2, FS_CardinalityType
  <2>6. Cardinality(LevelsAt(next)) = Len(stack) /\ Len(stack) \in Nat  BY <1>2, StackDepth
  <2> QED  BY <2>4, <2>5, <2>6
<1>6. TypeOK' /\ SentRight'  BY <1>0, <1>5, PassPlain
<1>7. next' = next + 1 /\ popping' = FALSE /\ next \in Nat  BY <1>0 DEF Pass
<1>8. Words' = Words /\ Words \subseteq Nat  BY <1>0, SameTokens DEF Words
<1>9. CASE next + 1 \in Words
  <2>1. next + 1 \in 1 .. Len(tokens) /\ tokens[next + 1] \in Word  BY <1>9 DEF Words
  <2>2. Here' = next + 1  BY <2>1, <1>0, <1>7 DEF Here
  <2>3. Tabs(next + 1) = Tabs(next)
    <3>1. Tabs(next + 1) = Tabs((next + 1) - 1)  BY <2>1, <1>0, TabsAt
    <3>2. (next + 1) - 1 = next  BY <1>7
    <3> QED  BY <3>1, <3>2
  <2>4. \A i \in Words : i <= next + 1 => i <= next \/ i = next + 1  BY <1>7, <1>8
  <2>5. TabbedTo(next + 1)  BY <2>3, <2>4, <1>2, <1>4 DEF TabbedTo, Levels
  <2>6. LevelsAt(next + 1) = LevelsAt(next) /\ Placed(next + 1)
    <3>1. (next + 1) - 1 = next  BY <1>7
    <3>2. /\ Around(next + 1) = {u \in LevelsAt((next + 1) - 1) : u < Tabs(next + 1)}
          /\ LevelsAt(next + 1) = Around(next + 1) \cup {Tabs(next + 1)}
      BY <1>9, <2>5, LevelsStep
    <3>3. \A u \in Around(next) : u < Tabs(next)  BY <1>3
    <3>4. ~(Tabs(next) < Tabs(next))  BY <1>4, Marks DEF Levels
    <3>5. Around(next + 1) = Around(next)  BY <3>1, <3>2, <3>3, <3>4, <2>3, <1>3
    <3>6. Tabs(next + 1) \in LevelsAt((next + 1) - 1)  BY <3>1, <2>3, <1>3
    <3>7. Placed(next + 1)  BY <3>6, <1>9, <2>5, PlacedWhen
    <3> QED  BY <3>2, <3>5, <3>7, <2>3, <1>3
  <2>7. ReadRight'
    <3>1. TabbedTo(Here)' <=> TabbedTo(next + 1)
      BY <2>2, <1>0 DEF TabbedTo, Words, Tabs, LineOf, Newline
    <3>2. \A k \in Words : k <= next + 1 => Placed(k)  BY <2>4, <2>6, <1>2
    <3> QED  BY <3>1, <3>2, <2>2, <2>5, <1>0, <1>8, SameTokens DEF ReadRight
  <2>8. StackRight'
    <3>1. LevelsAt(Here)' = LevelsAt(next + 1)
      BY <2>2, <1>0 DEF LevelsAt, Words, Tabs, LineOf, Newline
    <3>2. Open(stack)' = Open(stack)  BY <1>0 DEF Open
    <3> QED  BY <3>1, <3>2, <2>6, <1>2, <1>7 DEF StackRight
  <2> QED  BY <1>0, <1>6, <2>7, <2>8 DEF IInv, Ended
<1>10. CASE next + 1 \notin Words
  <2>1. Here' = next  BY <1>0, <1>7, <1>10 DEF Here, Words
  <2>2. ReadRight'
    <3>1. TabbedTo(Here)' <=> TabbedTo(next)
      BY <2>1, <1>0 DEF TabbedTo, Words, Tabs, LineOf, Newline
    <3> QED  BY <3>1, <2>1, <1>0, <1>2, <1>8, SameTokens DEF ReadRight
  <2>3. StackRight'
    <3>1. LevelsAt(Here)' = LevelsAt(next)
      BY <2>1, <1>0 DEF LevelsAt, Words, Tabs, LineOf, Newline
    <3>2. Open(stack)' = Open(stack)  BY <1>0 DEF Open
    <3> QED  BY <3>1, <3>2, <1>2, <1>7 DEF StackRight
  <2> QED  BY <1>0, <1>6, <2>2, <2>3 DEF IInv, Ended
<1> QED  BY <1>9, <1>10

\* A line with nothing on it opens and closes no block.
LEMMA BlankOK ==
  ASSUME IInv, Blank
  PROVE  IInv'
<1>0. /\ TypeOK /\ SentRight /\ ReadRight /\ StackRight /\ File /\ Len(tokens) \in Nat
      /\ next \in 1 .. Len(tokens) /\ next \notin Words /\ tokens[next] \notin Word
      /\ status = "run" /\ More /\ Pass(<<>>) /\ UNCHANGED <<tokens, stack, status>>
  <2>1. /\ next \in 1 .. Len(tokens) /\ Len(tokens) \in Nat /\ File
        /\ tokens[next] \in Newline /\ status = "run"
    BY LenProperties DEF IInv, TypeOK, File, More, Blank
  <2> QED  BY <2>1, WordOrNewline DEF IInv, Blank
<1>1. next + 1 \notin Words /\ ~popping
  <2>1. ~(next < Len(tokens) /\ tokens[next + 1] \in Word)  BY DEF Blank, AtLine
  <2> QED  BY <2>1, <1>0 DEF Words, StackRight
<1>2. Here = next - 1  BY <1>0 DEF Here
<1>3. next' = next + 1 /\ popping' = FALSE  BY <1>0 DEF Pass
<1>4. Here' = next  BY <1>0, <1>1, <1>3 DEF Here, Words
<1>5. TypeOK' /\ SentRight'  BY <1>0, PassPlain
<1>6. Words \subseteq Nat /\ \A i \in Words : i <= next => i <= next - 1
  BY <1>0 DEF Words
<1>7. LevelsAt(next) = LevelsAt(next - 1)  BY <1>0, LevelsKept
<1>8. TabbedTo(next) /\ \A k \in Words : k <= next => Placed(k)
  BY <1>0, <1>2, <1>6 DEF ReadRight, TabbedTo
<1>9. ReadRight'
  <2>1. TabbedTo(Here)' <=> TabbedTo(next)
    BY <1>4, <1>0 DEF TabbedTo, Words, Tabs, LineOf, Newline
  <2> QED  BY <2>1, <1>0, <1>4, <1>8, SameTokens DEF ReadRight
<1>10. StackRight'
  <2>1. LevelsAt(Here)' = LevelsAt(next)
    BY <1>4, <1>0 DEF LevelsAt, Words, Tabs, LineOf, Newline
  <2>2. Open(stack)' = Open(stack)  BY <1>0 DEF Open
  <2> QED  BY <2>1, <2>2, <1>0, <1>1, <1>2, <1>3, <1>7 DEF StackRight
<1> QED  BY <1>0, <1>5, <1>9, <1>10 DEF IInv, Ended

\* A line that is refused is left as it was read.
LEMMA RefusalKeeps ==
  ASSUME UNCHANGED <<tokens, next, stack, popping>>, ReadRight, StackRight
  PROVE  ReadRight' /\ StackRight'
<1>1. Here' = Here  BY DEF Here
<1>2. ReadRight'
  <2>1. TabbedTo(Here)' <=> TabbedTo(Here)
    BY <1>1 DEF TabbedTo, Words, Tabs, LineOf, Newline
  <2>2. Words' = Words /\ \A k : Placed(k)' <=> Placed(k)  BY SameTokens
  <2> QED  BY <2>1, <2>2, <1>1 DEF ReadRight
<1>3. StackRight'
  <2>1. LevelsAt(Here)' = LevelsAt(Here)
    BY <1>1 DEF LevelsAt, Words, Tabs, LineOf, Newline
  <2>2. LevelsAt(next - 1)' = LevelsAt(next - 1)
    BY DEF LevelsAt, Words, Tabs, LineOf, Newline
  <2>3. Open(stack)' = Open(stack)  BY DEF Open
  <2> QED  BY <2>1, <2>2, <2>3 DEF StackRight
<1> QED  BY <1>2, <1>3

\* A line with blanks in its indentation ends the pass.
LEMMA MisindentedOK ==
  ASSUME IInv, Misindented
  PROVE  IInv'
<1>0. /\ TypeOK /\ SentRight /\ ReadRight /\ StackRight
      /\ UNCHANGED <<tokens, next, stack, popping, out>> /\ status' = "error"
      /\ next < Len(tokens) /\ tokens[next + 1] \in Word
  BY DEF IInv, Misindented, AtLine, More
<1>1. Tabs(next + 1) = Spaces  BY LineFacts DEF Misindented
<1>2. TypeOK'  BY <1>0 DEF TypeOK, File, Newline
<1>3. SentRight'  BY <1>0, SentRightAfter DEF SentRight
<1>4. ReadRight' /\ StackRight'  BY <1>0, RefusalKeeps
<1>5. Tabs(next + 1)' = Spaces  BY <1>0, <1>1 DEF Tabs, LineOf, Newline
<1> QED  BY <1>0, <1>2, <1>3, <1>4, <1>5 DEF IInv, Ended

\* While levels are popped, and before: the stack has every open level the line
\* does not close.
LEMMA StackAtLine ==
  ASSUME IInv, AtLine, tokens[next] \in Nat
  PROVE  /\ Open(stack) \subseteq LevelsAt(next - 1)
         /\ \A u \in LevelsAt(next - 1) : u \in Open(stack) \/ u > tokens[next]
         /\ LevelsAt(next - 1) \subseteq Levels
         /\ Around(next + 1) = {u \in LevelsAt(next - 1) : u < tokens[next]}
         /\ LevelsAt(next + 1) = Around(next + 1) \cup {tokens[next]}
         /\ next + 1 \in Words /\ TabbedTo(next + 1) /\ Tabs(next + 1) = tokens[next]
         /\ LevelsAt((next + 1) - 1) = LevelsAt(next - 1)
         /\ tokens[next] # Spaces
<1>1. tokens[next] # Spaces  BY Marks
<1>2. /\ next \in 1 .. Len(tokens) /\ next + 1 \in Words /\ Here = next - 1
      /\ Tabs(next + 1) = tokens[next] /\ LevelsAt(next) = LevelsAt(next - 1)
      /\ TabbedTo(next + 1) /\ StackRight
  BY <1>1, LineFacts
<1>3. /\ Open(stack) \subseteq LevelsAt(next - 1)
      /\ \A u \in LevelsAt(next - 1) : u \in Open(stack) \/ u > tokens[next]
  <2>1. popping \in BOOLEAN  BY DEF IInv, TypeOK
  <2>2. CASE popping  BY <2>2, <1>2 DEF StackRight
  <2>3. CASE ~popping  BY <2>3, <1>2 DEF StackRight
  <2> QED  BY <2>2, <2>3
<1>4. (next + 1) - 1 = next  BY <1>2
<1>5. /\ Around(next + 1) = {u \in LevelsAt((next + 1) - 1) : u < Tabs(next + 1)}
      /\ LevelsAt(next + 1) = Around(next + 1) \cup {Tabs(next + 1)}
  BY <1>2, LevelsStep
<1>6. LevelsAt(next - 1) \subseteq Levels  BY DEF LevelsAt, Levels
<1> QED  BY <1>1, <1>2, <1>3, <1>4, <1>5, <1>6

\* A line at the level of the innermost block is in it.
LEMMA SameOK ==
  ASSUME IInv, Same
  PROVE  IInv'
<1>0. /\ AtLine /\ tokens[next] = Top /\ Pass(<<>>) /\ UNCHANGED <<tokens, stack, status>>
      /\ status = "run" /\ More
  BY DEF Same, AtLine, More
<1>1. /\ Top \in Open(stack) /\ Top \in Nat /\ (\A u \in Open(stack) : u <= Top)
      /\ Open(stack) \subseteq Levels
  BY StackDepth
<1>2. tokens[next] \in Nat  BY <1>0, <1>1
<1>3. next \notin Words  BY <1>0, LineFacts
<1>4. TypeOK' /\ SentRight'  BY <1>0, <1>3, PassPlain
<1>5. LevelsAt(next + 1) = Open(stack)
  <2>1. /\ LevelsAt(next + 1) = {u \in LevelsAt(next - 1) : u < Top} \cup {Top}
        /\ Open(stack) \subseteq LevelsAt(next - 1)
        /\ \A u \in LevelsAt(next - 1) : u \in Open(stack) \/ u > Top
        /\ LevelsAt(next - 1) \subseteq Levels
    BY <1>0, <1>2, StackAtLine
  <2>2. \A u \in LevelsAt(next - 1) : u < Top => ~(u > Top)  BY <1>1, <2>1, Marks DEF Levels
  <2>3. \A u \in Open(stack) : u < Top \/ u = Top  BY <1>1, Marks DEF Levels
  <2> QED  BY <2>1, <2>2, <2>3, <1>1
<1>6. Placed(next + 1)
  <2>1. Tabs(next + 1) \in LevelsAt((next + 1) - 1)  BY <1>0, <1>1, <1>2, StackAtLine
  <2> QED  BY <2>1, <1>0, <1>2, StackAtLine, PlacedWhen
<1>7. Open(stack') = LevelsAt(next + 1)  BY <1>0, <1>5 DEF Open
<1>8. tokens[next] # Spaces  BY <1>0, <1>2, StackAtLine
<1>9. (ReadRight /\ StackRight /\ Ended)'
  BY <1>0, <1>6, <1>7, <1>8, LinePasses DEF Pass
<1> QED  BY <1>0, <1>4, <1>9 DEF IInv

\* A deeper line opens one block, around what follows and nothing before.
LEMMA DeeperOK ==
  ASSUME IInv, Deeper
  PROVE  IInv'
<1>0. /\ AtLine /\ ~popping /\ tokens[next] \in Nat /\ tokens[next] > Top /\ Pass(<<INDENT>>)
      /\ stack' = Append(stack, tokens[next]) /\ UNCHANGED <<tokens, status>>
      /\ status = "run" /\ TypeOK /\ SentRight
  BY DEF Deeper, AtLine, More, IInv
<1>1. /\ (\A u \in Open(stack) : u <= Top) /\ Open(stack) \subseteq Levels /\ Top \in Nat
      /\ Len(stack) \in Nat
  BY StackDepth
<1>2. /\ next \in 1 .. Len(tokens) /\ next \notin Words /\ tokens[next] # Spaces
      /\ tokens[next] \in Levels /\ StackRight /\ Here = next - 1 /\ Len(tokens) \in Nat
  BY <1>0, LineFacts, StackAtLine
<1>3. /\ stack' \in Seq(Levels) /\ Rising(stack') /\ Len(stack') = Len(stack) + 1
      /\ Open(stack') = Open(stack) \cup {tokens[next]}
  BY <1>0, <1>2, PushLevel DEF TypeOK, SentRight, Top
<1>4. Open(stack) = LevelsAt(next - 1)  BY <1>0, <1>2 DEF StackRight
<1>5. \A u \in LevelsAt(next - 1) : u < tokens[next] /\ u <= tokens[next]
  BY <1>0, <1>1, <1>4, Marks DEF Levels
<1>6. Open(stack') = LevelsAt(next + 1)
  <2>1. LevelsAt(next + 1) = {u \in LevelsAt(next - 1) : u < tokens[next]} \cup {tokens[next]}
    BY <1>0, StackAtLine
  <2> QED  BY <2>1, <1>3, <1>4, <1>5
<1>7. Placed(next + 1)
  <2>1. \A u \in LevelsAt((next + 1) - 1) : u <= Tabs(next + 1)  BY <1>0, <1>5, StackAtLine
  <2> QED  BY <2>1, <1>0, StackAtLine, PlacedWhen
<1>8. (ReadRight /\ StackRight /\ Ended)'
  BY <1>0, <1>2, <1>6, <1>7, LinePasses DEF Pass
<1>9. out' = Append(Append(out, INDENT), next) /\ next' = next + 1 /\ popping' = FALSE
  <2>1. out \o <<INDENT>> = Append(out, INDENT)  BY <1>0, AppendIsConcat DEF TypeOK, Sent
  <2> QED  BY <2>1, <1>0 DEF Pass
<1> DEFINE mid == Append(out, INDENT)
<1>10. /\ out \in Seq(Sent) /\ INDENT \in Sent /\ next \in Sent /\ next \in Nat \ {0}
       /\ INDENT \notin Words
  BY <1>0, <1>2, Marks DEF TypeOK, Sent, Words
<1>11. mid \in Seq(Sent)  BY <1>10, AppendProperties
<1>12. SentInOrder(mid, next)  BY <1>0, <1>10, SendMark DEF SentRight
<1>13. Depth(mid) = Len(stack)
  <2>1. Depth(mid) = Depth(out) + 1  BY <1>10, DepthOne
  <2> QED  BY <2>1, <1>0, <1>1 DEF SentRight
<1>14. RightlyDeep(mid)  BY <1>0, <1>10, SendDeep DEF SentRight
<1>15. out' = Append(mid, next)  BY <1>9
<1> HIDE DEF mid
<1>16. out' \in Seq(Sent)  BY <1>10, <1>11, <1>15, AppendProperties
<1>17. SentInOrder(out', next')  BY <1>9, <1>10, <1>11, <1>12, <1>15, SendToken
<1>18. Depth(out') = Len(stack') - 1
  <2>1. Depth(out') = Depth(mid)  BY <1>10, <1>11, <1>15, DepthOne
  <2> QED  BY <2>1, <1>1, <1>3, <1>13
<1>19. RightlyDeep(out')  BY <1>2, <1>10, <1>11, <1>14, <1>15, SendDeep
<1>20. SentRight'
  <2>1. (\E k \in Words : k < next + 1) => \E k \in Words : LastBefore(k, next + 1)
    BY <1>0, <1>10, LastKept DEF SentRight
  <2> QED  BY <2>1, <1>0, <1>3, <1>9, <1>17, <1>18, <1>19, SentRightAfter
<1>21. TypeOK'
  <2>1. next' \in 1 .. Len(tokens) + 1  BY <1>2, <1>9
  <2>2. File'  BY <1>0, SameTokens DEF TypeOK
  <2>3. Len(stack') > 0  BY <1>1, <1>3
  <2> QED  BY <2>1, <2>2, <2>3, <1>0, <1>3, <1>9, <1>16 DEF TypeOK
<1> QED  BY <1>0, <1>8, <1>20, <1>21 DEF IInv

\* Popping a level keeps what went out right.
LEMMA PopSent ==
  ASSUME IInv, Len(stack) > 1, Pop, UNCHANGED <<tokens, next>>
  PROVE  /\ SentRight' /\ File' /\ out' \in Seq(Sent)
         /\ stack' \in Seq(Levels) /\ Len(stack') > 0
         /\ Open(stack') = Open(stack) \ {Top}
<1>0. /\ TypeOK /\ SentRight /\ out' = Append(out, DEDENT)
      /\ stack' = SubSeq(stack, 1, Len(stack) - 1) /\ Len(stack) \in Nat
  BY LenProperties DEF IInv, Pop, TypeOK
<1>1. /\ stack' \in Seq(Levels) /\ Rising(stack') /\ Len(stack') = Len(stack) - 1
      /\ Open(stack') = Open(stack) \ {Top}
  BY <1>0, PopLevel DEF TypeOK, SentRight, Top
<1>2. /\ out \in Seq(Sent) /\ DEDENT \in Sent /\ next \in Nat \ {0} /\ DEDENT \notin Words
  BY <1>0, Marks DEF TypeOK, Sent, Words
<1>3. out' \in Seq(Sent)  BY <1>0, <1>2, AppendProperties
<1>4. SentInOrder(out', next')  BY <1>0, <1>2, SendMark DEF SentRight
<1>5. Depth(out') = Len(stack') - 1
  <2>1. Depth(out') = Depth(out) - 1  BY <1>0, <1>2, DepthOne
  <2> QED  BY <2>1, <1>0, <1>1 DEF SentRight
<1>6. RightlyDeep(out')  BY <1>0, <1>2, SendDeep DEF SentRight
<1>7. SentRight'
  <2>1. (\E k \in Words : k < next') => \E k \in Words : LastBefore(k, next')
    BY <1>0 DEF SentRight
  <2> QED  BY <2>1, <1>1, <1>4, <1>5, <1>6, SentRightAfter
<1>8. File'  BY <1>0, SameTokens DEF TypeOK
<1> QED  BY <1>0, <1>1, <1>3, <1>7, <1>8

\* A shallower line closes the innermost block, and is looked at again.
LEMMA ShallowerOK ==
  ASSUME IInv, Shallower
  PROVE  IInv'
<1>0. /\ AtLine /\ tokens[next] \in Nat /\ tokens[next] < Top /\ Pop /\ popping' = TRUE
      /\ UNCHANGED <<tokens, next, status>> /\ status = "run"
      /\ next < Len(tokens) /\ tokens[next + 1] \in Word /\ TypeOK
  BY DEF Shallower, AtLine, More, IInv
<1>1. /\ Top \in Open(stack) /\ Top \in Nat /\ (\A u \in Open(stack) : u <= Top)
      /\ (Top > 0 => Len(stack) > 1)
  BY StackDepth
<1>2. Len(stack) > 1  BY <1>0, <1>1
<1>3. /\ SentRight' /\ File' /\ out' \in Seq(Sent) /\ stack' \in Seq(Levels) /\ Len(stack') > 0
      /\ Open(stack') = Open(stack) \ {Top}
  BY <1>0, <1>2, PopSent
<1>4. TypeOK'  BY <1>0, <1>3 DEF TypeOK
<1>5. /\ Open(stack) \subseteq LevelsAt(next - 1)
      /\ \A u \in LevelsAt(next - 1) : u \in Open(stack) \/ u > tokens[next]
  BY <1>0, StackAtLine
<1>6. ReadRight /\ StackRight  BY <1>0, LineFacts
<1>7. ReadRight'
  <2>1. Here' = Here  BY <1>0 DEF Here
  <2>2. TabbedTo(Here)' <=> TabbedTo(Here)
    BY <2>1, <1>0 DEF TabbedTo, Words, Tabs, LineOf, Newline
  <2>3. Words' = Words /\ \A k : Placed(k)' <=> Placed(k)  BY <1>0, SameTokens
  <2> QED  BY <2>1, <2>2, <2>3, <1>6 DEF ReadRight
<1>8. StackRight'
  <2>1. LevelsAt(next - 1)' = LevelsAt(next - 1)
    BY <1>0 DEF LevelsAt, Words, Tabs, LineOf, Newline
  <2>2. Open(stack)' = Open(stack')  BY DEF Open
  <2>3. Open(stack') \subseteq LevelsAt(next - 1)  BY <1>3, <1>5
  <2>4. \A u \in LevelsAt(next - 1) : u \in Open(stack') \/ u > tokens[next]
    BY <1>0, <1>3, <1>5
  <2>5. \E u \in LevelsAt(next - 1) : u > tokens[next]
    <3>1. Top \in LevelsAt(next - 1) /\ Top > tokens[next]  BY <1>0, <1>1, <1>5
    <3> QED  BY <3>1
  <2> QED  BY <2>1, <2>2, <2>3, <2>4, <2>5, <1>0 DEF StackRight
<1> QED  BY <1>0, <1>3, <1>4, <1>7, <1>8 DEF IInv, Ended

\* A line that ends at a level no open block has ends the pass: its own blocks are cut short.
LEMMA NoSuchLevelOK ==
  ASSUME IInv, NoSuchLevel
  PROVE  IInv'
<1>0. /\ TypeOK /\ SentRight /\ ReadRight /\ StackRight /\ AtLine /\ popping
      /\ UNCHANGED <<tokens, next, stack, popping, out>> /\ status' = "error"
      /\ next < Len(tokens) /\ tokens[next + 1] \in Word
      /\ tokens[next] \in Nat /\ tokens[next] > Top
  BY DEF IInv, NoSuchLevel, AtLine, More
<1>1. /\ Top \in Nat /\ \A u \in Open(stack) : u <= Top /\ u \in Nat
  BY StackDepth, Marks DEF Levels
<1>2. /\ \A u \in LevelsAt(next - 1) : u \in Open(stack) \/ u > tokens[next]
      /\ next + 1 \in Words /\ TabbedTo(next + 1) /\ Tabs(next + 1) = tokens[next]
      /\ LevelsAt((next + 1) - 1) = LevelsAt(next - 1)
  BY <1>0, StackAtLine
<1>3. tokens[next] \notin LevelsAt(next - 1)
  <2> SUFFICES ASSUME tokens[next] \in LevelsAt(next - 1) PROVE FALSE
    OBVIOUS
  <2>1. ~(tokens[next] > tokens[next])  BY <1>0
  <2>2. tokens[next] <= Top  BY <2>1, <1>1, <1>2
  <2> QED  BY <2>2, <1>0, <1>1
<1>4. PICK w \in LevelsAt(next - 1) : w > tokens[next]  BY <1>0 DEF StackRight
<1>5. (\E i \in Words : i < next + 1) => \E j \in Words : LastBefore(j, next + 1)
  BY <1>0, LineFacts
<1>6. ~Placed(next + 1)
  <2>1. /\ Tabs(next + 1) \notin LevelsAt((next + 1) - 1)
        /\ w \in LevelsAt((next + 1) - 1) /\ w > Tabs(next + 1)
    BY <1>2, <1>3, <1>4
  <2> QED  BY <2>1, <1>2, <1>5, MisplacedWhen
<1>7. TypeOK'  BY <1>0 DEF TypeOK, File, Newline
<1>8. SentRight'  BY <1>0, SentRightAfter DEF SentRight
<1>9. ReadRight' /\ StackRight'  BY <1>0, RefusalKeeps
<1>10. ~Placed(next + 1)'
  <2>1. Placed(next + 1)' <=> Placed(next + 1)
    BY <1>0 DEF Placed, Around, Words, Tabs, LineOf, Newline
  <2> QED  BY <2>1, <1>6
<1> QED  BY <1>0, <1>7, <1>8, <1>9, <1>10 DEF IInv, Ended

\* At the end of the file every block still open is closed.
LEMMA CloseOK ==
  ASSUME IInv, Close
  PROVE  IInv'
<1>0. /\ TypeOK /\ SentRight /\ ReadRight /\ StackRight /\ Len(tokens) \in Nat
      /\ next = Len(tokens) + 1 /\ ~popping
      /\ UNCHANGED <<tokens, next, popping>> /\ status = "run"
  <2>1. /\ TypeOK /\ SentRight /\ ReadRight /\ StackRight /\ Len(tokens) \in Nat
        /\ next \in 1 .. Len(tokens) + 1 /\ next > Len(tokens)
        /\ UNCHANGED <<tokens, next, popping>> /\ status = "run"
    BY LenProperties DEF IInv, TypeOK, File, Close
  <2>2. next = Len(tokens) + 1  BY <2>1
  <2>3. ~popping  BY <2>1 DEF StackRight
  <2> QED  BY <2>1, <2>2, <2>3
<1>1. ReadRight'
  <2>1. Here' = Here  BY <1>0 DEF Here
  <2>2. TabbedTo(Here)' <=> TabbedTo(Here)
    BY <2>1, <1>0 DEF TabbedTo, Words, Tabs, LineOf, Newline
  <2>3. Words' = Words /\ \A k : Placed(k)' <=> Placed(k)  BY <1>0, SameTokens
  <2> QED  BY <2>1, <2>2, <2>3, <1>0 DEF ReadRight
<1>2. StackRight'  BY <1>0 DEF StackRight
<1>3. CASE Len(stack) > 1 /\ Pop /\ UNCHANGED status
  <2>1. /\ SentRight' /\ File' /\ out' \in Seq(Sent)
        /\ stack' \in Seq(Levels) /\ Len(stack') > 0
    BY <1>0, <1>3, PopSent
  <2>2. TypeOK'  BY <2>1, <1>0, <1>3 DEF TypeOK
  <2> QED  BY <2>1, <2>2, <1>0, <1>1, <1>2, <1>3 DEF IInv, Ended
<1>4. CASE Len(stack) = 1 /\ status' = "ok" /\ UNCHANGED <<stack, out>>
  <2>1. TypeOK'  BY <1>0, <1>4 DEF TypeOK, File, Newline
  <2>2. SentRight'  BY <1>0, <1>4, SentRightAfter DEF SentRight
  <2> QED  BY <2>1, <2>2, <1>0, <1>1, <1>2, <1>4 DEF IInv, Ended
<1> QED  BY <1>3, <1>4 DEF Close

\* Every step of the pass keeps the invariant.
LEMMA NextOK == IInv /\ [IndentNext]_indentVars => IInv'
<1> SUFFICES ASSUME IInv, [IndentNext]_indentVars PROVE IInv'
  OBVIOUS
<1>1. CASE Start  BY <1>1, StartOK
<1>2. CASE Other  BY <1>2, OtherOK
<1>3. CASE Blank  BY <1>3, BlankOK
<1>4. CASE Misindented  BY <1>4, MisindentedOK
<1>5. CASE Same  BY <1>5, SameOK
<1>6. CASE Deeper  BY <1>6, DeeperOK
<1>7. CASE Shallower  BY <1>7, ShallowerOK
<1>8. CASE NoSuchLevel  BY <1>8, NoSuchLevelOK
<1>9. CASE Close  BY <1>9, CloseOK
<1>10. CASE \E some \in Seq(Word \cup Newline) : Write(some)  BY <1>10, WriteOK
<1>11. CASE UNCHANGED indentVars
  <2>1. /\ TypeOK /\ SentRight /\ UNCHANGED <<tokens, next, stack, popping, out, status>>
    BY <1>11 DEF IInv, indentVars
  <2>2. TypeOK'  BY <2>1 DEF TypeOK, File, Newline
  <2>3. SentRight'  BY <2>1, SentRightAfter DEF SentRight
  <2>4. CASE status = "write"  BY <2>1, <2>2, <2>3, <2>4 DEF IInv, Unstarted
  <2>5. CASE status # "write"
    <3>1. ReadRight' /\ StackRight'  BY <2>1, <2>5, RefusalKeeps DEF IInv
    <3>2. Ended'
      <4>1. /\ Tabs(next + 1)' = Tabs(next + 1)
            /\ Placed(next + 1)' <=> Placed(next + 1)
        BY <2>1 DEF Placed, Around, Words, Tabs, LineOf, Newline
      <4>2. Ended  BY <2>5 DEF IInv
      <4> QED  BY <4>1, <4>2, <2>1 DEF Ended
    <3> QED  BY <2>1, <2>2, <2>3, <2>5, <3>1, <3>2 DEF IInv
  <2> QED  BY <2>4, <2>5
<1> QED
  BY <1>1, <1>2, <1>3, <1>4, <1>5, <1>6, <1>7, <1>8, <1>9, <1>10, <1>11 DEF IndentNext, Mark

-----------------------------------------------------------------------------
(* What the invariant says of the answer *)

\* Before the end and after it, what went out is as deep as it should be.
LEMMA AnswerRight == IInv => BlocksAsIndented
<1> SUFFICES ASSUME IInv PROVE BlocksAsIndented
  OBVIOUS
<1>1. TypeOK /\ SentRight /\ Len(tokens) \in Nat  BY LenProperties DEF IInv, TypeOK, File
<1>2. InItsBlocks
  <2>1. \A i \in 1 .. Len(out) : out[i] \in Words => DepthAt(i) = Cardinality(Around(out[i]))
    BY <1>1 DEF SentRight, RightlyDeep, DepthAt
  <2>2. status = "ok" => Depth(out) = 0  BY <1>1 DEF IInv, Ended, SentRight
  <2> QED  BY <2>1, <2>2 DEF InItsBlocks
<1>3. status = "error" => Tabs(next + 1) = Spaces \/ ~Placed(next + 1)  BY DEF IInv, Ended
<1>4. ASSUME status = "ok" PROVE InOrder /\ \A k \in Words : Tabs(k) # Spaces /\ Placed(k)
  <2>1. next = Len(tokens) + 1 /\ ReadRight  BY <1>4 DEF IInv, Ended
  <2>2. Here = Len(tokens) /\ next - 1 = Len(tokens)  BY <2>1, <1>1 DEF Here
  <2>3. InOrder  BY <2>2, <1>1 DEF InOrder, SentRight, SentInOrder
  <2>4. \A k \in Words : k <= Here  BY <2>2 DEF Words
  <2>5. \A k \in Words : Tabs(k) \in 0 .. MaxTabs /\ Placed(k)
    BY <2>1, <2>4 DEF ReadRight, TabbedTo
  <2> QED  BY <2>3, <2>5, Marks
<1> QED  BY <1>2, <1>3, <1>4 DEF BlocksAsIndented, RefusedForReason

\* For any file: of a file that is accepted the markers put every token in
\* exactly the blocks its line hangs in, close them all, and lose and move no
\* token; a file is refused just for a line with blanks before it or one that
\* goes back to a level nothing around it has.
THEOREM EveryFileIndented == IndentSpec => []BlocksAsIndented
<1>1. Init => IInv  BY InitOK
<1>2. IInv /\ [IndentNext]_indentVars => IInv'  BY NextOK
<1>3. IInv => BlocksAsIndented  BY AnswerRight
<1> QED  BY <1>1, <1>2, <1>3, PTL DEF IndentSpec
=============================================================================
