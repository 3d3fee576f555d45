------------------------------ MODULE MCArena ------------------------------
(* Both forms over all their instructions, three or four of them; and typed   *)
(* bodies of the statements that branch and jump, longer.                     *)
EXTENDS TirShape

Lit(kind, value) == [kind |-> kind, value |-> value]
Patterns ==
    {[kind |-> 0], [kind |-> 1, lit |-> Lit(0, -2)], [kind |-> 1, lit |-> Lit(1, 0)],
     [kind |-> 3, positional |-> FALSE,
      fields |-> <<[selector |-> 1, kind |-> 2, lit |-> Lit(0, 3)],
                   [selector |-> 0, kind |-> 0],
                   [selector |-> 2, kind |-> 1, name |-> 0]>>],
     [kind |-> 2, enum |-> None, variant |-> 1, args |-> <<>>],
     [kind |-> 2, enum |-> 0, variant |-> 1,
      args |-> <<[by_position |-> FALSE, args |-> <<<<0, None>>, <<None, 0>>>>]>>]}

Bind(field, ty) == [field_index |-> field, name |-> 0, ty |-> ty]
Heads ==
    {[discriminant |-> [kind |-> 4], bindings |-> <<>>, guards |-> <<>>],
     [discriminant |-> [kind |-> 1, value |-> -2], bindings |-> <<Bind(0, StrTy)>>,
      guards |-> <<>>],
     [discriminant |-> [kind |-> 0, value |-> 1],
      bindings |-> <<Bind(1, IntTy), Bind(0, StrTy)>>,
      guards |-> <<[field_index |-> 2, lit |-> Lit(0, -1)],
                   [field_index |-> 1, lit |-> Lit(2, 1)]>>]}

Jumps == {"Break", "Continue", "ReturnVoid", "Unreachable"}
Both == Jumps \cup
    {"Leaf", "Neg", "Return", "ExprStmt", "Binary", "Slice", "FieldAccess", "Call",
     "VarDecl", "CompoundAssign", "WhileLoop", "ForRange", "IfStmt", "StructLit",
     "EnumLit", "FieldAssign", "CompoundFieldAssign", "Destructure", "Match"}
Untyped == Both \cup {"AssignOrDecl", "MethodCall", "ErrorConstruct", "Catch"}
Typed == Both \cup {"Assign"}

Scope(ir, ops, max, names, types) ==
    [ir |-> ir, ops |-> ops, max |-> max, names |-> names, types |-> types,
     patterns |-> Patterns, heads |-> Heads]
WithPatterns == {"Leaf", "Break", "ExprStmt", "Match", "Catch", "Destructure"}
Branching == {"Leaf", "Break", "ReturnVoid", "ExprStmt", "IfStmt", "Match", "WhileLoop"}
Unbound == {h \in Heads : h.bindings = <<>>}

S1 == {Scope("uir", Untyped, 3, {0}, {IntTy})}
S2 == {Scope("tir", Typed, 3, {0}, {IntTy, NeverTy})}
S3 == {Scope("uir", WithPatterns, 5, {0}, {IntTy})}
S4 == {Scope("tir", WithPatterns, 7, {0}, {IntTy})}
S5 == {[Scope("tir", Branching, 7, {0}, {IntTy}) EXCEPT !.heads = Unbound]}
AllScopes == S1 \cup S2 \cup S3 \cup S4 \cup S5
=============================================================================
