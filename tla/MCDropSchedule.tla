--------------------------- MODULE MCDropSchedule ---------------------------
(* Token sets for model checking DropSchedule. *)
EXTENDS CleanupValidation
CONSTANTS
  MaxLoops,  \* bound: tokens in a body of loops
  MaxLine    \* bound: tokens in a straight-line body

Decl(n)       == [op |-> "decl", n |-> n, src |-> Fresh]
Assign(n)     == [op |-> "assign", n |-> n, src |-> Fresh]
Call(n, mode) == [op |-> "call", args |-> <<[n |-> n, mode |-> mode]>>]
Return(src)   == [op |-> "return", src |-> src]
Brackets(ops) == [op : ops]

\* A statement that touches no binding: every arm can hold one.
Skip     == [op |-> "call", args |-> <<>>]

Ifs        == Brackets({"if", "elif", "else", "endif"})
Loops      == Brackets({"while", "endwhile"})
Jumps      == Brackets({"break", "continue"})
Locals     == {Decl(n) : n \in Inner}
Writing(N) == {Assign(n) : n \in N}
Reading(N) == {Call(n, "Borrow") : n \in N}
Moving(N)  == {Call(n, "Move") : n \in N}
Returns    == {Return(n) : n \in Inner \cup {Fresh}}
Plain(N)   == Locals \cup Reading(N) \cup Moving(N \ InoutParam) \cup {Skip}

\* Branches, loops, jumps and returns around locals that keep their first value.
FlatText == Ifs \cup Loops \cup Jumps \cup Returns \cup Plain(Inner)
\* Loops in loops, around locals and an owned parameter.
LoopText == Loops \cup Plain(Inner \cup MoveParam)
\* Straight-line code that assigns locals and an inout parameter.
LineText == Writing(Inner \cup InoutParam) \cup Returns \cup Plain(Inner \cup InoutParam)

\* One construct that assigns a local and reads it.
MixText  == Ifs \cup Loops \cup Writing(Inner) \cup Locals \cup Reading(Inner)

\* What the known double releases start from is kept apart: two constructs that
\* assign, an if that assigns and reads, and a loop that assigns and reads with
\* another read behind it.
KeptApart ==
  LET puts  == UNION {{i \in Writes(n) : prog[i].op = "assign"} : n \in Inner}
      reads == UNION {ReadsOf(n) : n \in Inner}
      Around(op) == {b \in DOMAIN prog : prog[b].op = op /\ \E i \in puts : Contains(b, i)}
  IN  /\ Cardinality(Around("if") \cup Around("while")) <= 1
      /\ \A b \in Around("if"), i \in reads : ~Contains(b, i)
      /\ \A b \in Around("while"), i, j \in reads : Contains(b, i) /\ i < j => Contains(b, j)

\* The bodies of a run over all four: those with a return start by moving the
\* owned parameter.
AllText == FlatText \cup LoopText \cup LineText \cup MixText
WrittenIn(text, max) ==
  /\ Len(prog') + Len(stack') <= max
  /\ \A i \in DOMAIN prog' : i > 1 => prog'[i] \in text
FirstIn(text)  == prog' # <<>> => prog'[1] \in text
StartsWithMove == FirstIn(Moving(MoveParam))
Bodies ==
  \/ FirstIn(LoopText) /\ WrittenIn(LoopText, MaxLoops)
  \/ StartsWithMove /\ Len(stack') <= 1 /\ WrittenIn(FlatText, MaxLen)
  \/ StartsWithMove /\ WrittenIn(LineText, MaxLine)
  \/ FirstIn(Locals) /\ Len(stack') <= 1 /\ WrittenIn(MixText, MaxLen) /\ KeptApart'
=============================================================================
