---------------------------- MODULE MCRangeGuards ----------------------------
(* Token sets for model checking RangeGuards. *)
EXTENDS RangeGuards

CONSTANTS x, i
Least == -2

Set(n, a, f, b)  == [op |-> "set", n |-> n, a |-> a, f |-> f, b |-> b]
Cmp(n, rel, k)   == [n |-> n, rel |-> rel, k |-> k, swapped |-> FALSE]
CmpTo(k, rel, n) == [n |-> n, rel |-> rel, k |-> k, swapped |-> TRUE]
Reload(n)        == [n |-> n, rel |-> "inout", k |-> 0, swapped |-> FALSE]
Ask(ops, C)      == {[op |-> o, cond |-> c] : o \in ops, c \in C}
Marks(ops)       == [op : ops]
For(n)           == [op |-> "for", n |-> n]
Decl(n)          == [op |-> "decl", n |-> n]
Inout(n)         == [op |-> "inout", n |-> n]

RangeText ==
  Ask({"if", "elif", "while"}, {Cmp(x, "lt", 1)})
  \cup Ask({"while", "elif"}, {Reload(x)})
  \cup Ask({"if"}, {CmpTo(-1, "le", x)}) \cup Ask({"elif"}, {CmpTo(1, "lt", x)})
  \cup Marks({"else"} \cup Jumps)
  \cup {For(i), Decl(x), Inout(x)}
  \cup {Set(x, x, "add", 1), Set(x, x, "sub", i), Set(x, x, "mul", x), Set(x, x, "div", -1)}

\* An if in a for, the one arm of which leaves the loop.
LoopJumps == Ask({"if"}, {Cmp(x, "lt", 1)}) \cup Marks(Jumps) \cup {For(i), Set(x, x, "sub", 1)}

\* The body of a for is emitted into the tables of the code around it, which only
\* get the loop variable back.  The runs take the loops whose body leaves no more
\* behind: it declares nothing but inside a construct of its own, and of each if
\* in it some written arm goes on.
Direct(d, ops) == {j \in Positions(ops) : d < j /\ j < EndOf(d) /\ Level(j) = Level(d) + 1}
ScopedFor(d)   == Direct(d, {"decl"}) = {}
JoinedFor(d)   == \A b \in Direct(d, {"if"}) : EndOf(b) \notin dead /\ (HasElse(b) \/ ~AllJump(b))
\* A body without arithmetic is left out, and one of more than three statements.
Statements == Cardinality(Positions(Plain))
WholeBodies(Fit(_)) ==
  /\ Statements <= 3
  /\ stage = "write" /\ stage' = "emit" =>
       Positions({"set"}) # {} /\ \A d \in Positions({"for"}) : Fit(d)
ScopedFors == WholeBodies(ScopedFor)
CalmFors   == ScopedFors /\ WholeBodies(JoinedFor)
=============================================================================
