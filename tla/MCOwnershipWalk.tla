--------------------------- MODULE MCOwnershipWalk ---------------------------
(* Token sets for model checking OwnershipWalk. *)
EXTENDS OwnershipWalk
CONSTANT MaxCalls   \* bound: tokens in a body with calls of every kind

Decl(n, src)    == [op |-> "decl", n |-> n, src |-> src]
Assign(n, src)  == [op |-> "assign", n |-> n, src |-> src]
Call(n, mode)   == [op |-> "call", args |-> <<[n |-> n, mode |-> mode]>>]
Call2(n, m, k, l) ==
  [op |-> "call", args |-> <<[n |-> n, mode |-> m], [n |-> k, mode |-> l]>>]
Return(src)     == [op |-> "return", src |-> src]
Brackets(ops)   == [op : ops]

Branches == Brackets({"if", "elif", "else", "endif"})
Loops    == Brackets({"while", "endwhile"})
Jumps    == Brackets({"break", "continue"})

\* No two bindings ever share a value: initializers are new values only.
FreshText ==
  Branches \cup Loops \cup {Return(Fresh)}
  \cup {Assign(n, Fresh) : n \in Outer}
  \cup {Call(n, m) : n \in Outer, m \in {"Borrow", "Move"}}

\* break and continue out of the arms of an if.
JumpText == FreshText \cup Jumps

\* Parameters of every mode, calls of one and of two arguments (Rule 7), a local
\* declared from another one, a value assigned to itself.
Writable  == Outer \cup InoutParam
ParamText ==
  Branches \cup {Return(n) : n \in Outer \cup Param}
  \cup {Decl(d, n) : d \in Inner, n \in Outer}
  \cup {Assign(n, n) : n \in Outer} \cup {Assign(n, Fresh) : n \in Writable}
  \cup {Call(n, m) : n \in Name, m \in {"Borrow", "Move"}}
  \cup {Call2(n, "Inout", k, m) : n \in InoutParam, k \in Writable, m \in Mode}
  \cup {Call2(n, m, k, "Move") : n \in Outer, k \in Outer \cup MoveParam, m \in {"Borrow", "Move"}}

\* The bodies of a run over both: any over one local, short ones over parameters.
AllText   == JumpText \cup ParamText
Over(S)   == \A i \in DOMAIN prog : prog[i] \in S
Size(tok) ==
  Len(prog) + 1 + Len(stack)
  + (CASE tok.op = "if" -> 2 [] tok.op \in Siblings -> 1
       [] tok.op = "endif" -> -1 [] OTHER -> 0)
Tokens ==
  IF pc <= Len(prog) THEN {prog[pc]}
  ELSE (IF Over(JumpText) THEN JumpText ELSE {})
       \cup (IF Over(ParamText)
             THEN {tok \in ParamText : Size(tok) <= MaxCalls /\ (tok.op = "if" => stack = <<>>)}
             ELSE {})
Written(op) == {tok \in AllText : tok.op = op}

\* What has a disjunct of its own is cut off by BodiesInBounds where it is late.
BodiesWalk ==
  \/ phase = "walk" /\ \E tok \in Tokens : WalkToken(tok)
  \/ WalkEnd
Separately ==
  \/ \E tok \in Written("decl") : WalkDecl(tok)
  \/ \E tok \in Written("assign") : WalkSelfAssign(tok)
  \/ \E tok \in Jumps : WalkJump(tok)
  \/ \E tok \in Written("endwhile") : Propagate(tok) \/ CheckedLoop(tok)
BodiesNext == Separately \/ BodiesWalk \/ Run \/ Finished
BodiesSpec == Init /\ [][BodiesNext]_vars /\ WF_vars(BodiesWalk)

\* What a move on a jumping arm leads to is the subject of another run: bodies
\* with jumps are walked here, and not executed.
BodiesInBounds ==
  \/ Over(JumpText) /\ (phase = "walk" \/ Over(FreshText))
  \/ Over(ParamText) /\ Len(stack) <= 1 /\ Len(prog) + Len(stack) <= MaxCalls
=============================================================================
