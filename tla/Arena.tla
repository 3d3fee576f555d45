------------------------------- MODULE Arena -------------------------------
(* The two intermediate forms as their builders grow them: instructions in    *)
(* one list, the payloads of the variable-size ones in a shared arena of      *)
(* words.  `scope` says which form this is.  An instruction is named by its      *)
(* index, so an operand is always an earlier one; both forms are lowered from *)
(* a tree in post-order, so what an instruction takes is the end of the list  *)
(* of instructions nothing has taken yet (`stack`).                           *)
(* Two histories: `given`, what each instruction's builder was called with,   *)
(* and `took`, the instructions it took from the stack, in evaluation order.  *)
EXTENDS ExtraWords, FiniteSets

CONSTANTS
    Scopes,      \* what an instance builds: a set of records with fields
                 \*   ir (which form), ops (the instructions), max (how many),
                 \*   names (interned strings; 0 is one), types (of a call),
                 \*   patterns (of UIR match arms),
                 \*   heads (discriminant, bindings and guards of TIR match arms)
    Members      \* what names a field in a literal: an index or an interned name

U == INSTANCE UirWires
T == INSTANCE TirWires

IntTy == 0
NeverTy == 1
StrTy == 2
is_copy(ty) == ty # StrTy

VARIABLES scope, insts, extra, given, took, stack, bodies
vars == <<scope, insts, extra, given, took, stack, bodies>>

Refs == 1..Len(insts)
StmtTags == {"Return", "ReturnVoid", "ExprStmt", "Unreachable", "Break", "Continue",
             "VarDecl", "Assign", "AssignOrDecl", "CompoundAssign", "FieldAssign",
             "CompoundFieldAssign", "Destructure", "IfStmt", "WhileLoop", "ForRange"}
IsStmt(r) == insts[r].tag \in StmtTags
Exprs(s) == \A i \in DOMAIN s : ~IsStmt(s[i])
Stmts(s) == \A i \in DOMAIN s : IsStmt(s[i])

Init ==
    /\ scope \in Scopes
    /\ insts = <<>> /\ extra = <<>> /\ given = <<>> /\ took = <<>>
    /\ stack = <<>> /\ bodies = <<>>

Taken(n) == SubSeq(stack, Len(stack) - n + 1, Len(stack))

\* An instruction with its payload's range; `ops` is what it carries inline.
Inst(tag, ty, ops, wire) ==
    [tag |-> tag, ty |-> ty, ops |-> ops,
     range |-> [offset |-> Len(extra), len |-> wire.len]]

(* push: the instruction takes the last `n` of the stack and joins it.        *)
Push(n, ty, ops, wire, d) ==
    /\ d.tag \in scope.ops /\ bodies = <<>>
    /\ Len(insts) < scope.max /\ Len(extra) + Len(wire.words) <= MaxWord
    /\ insts' = Append(insts, Inst(d.tag, ty, ops, wire))
    /\ extra' = extra \o wire.words
    /\ given' = Append(given, d)
    /\ took' = Append(took, Taken(n))
    /\ stack' = Append(SubSeq(stack, 1, Len(stack) - n), Len(insts) + 1)
    /\ UNCHANGED <<scope, bodies>>

Inline(n, tag, ty, ops) == Push(n, ty, ops, Wire(<<>>, 0), [tag |-> tag, ops |-> ops])
Payload(n, ty, wire, d) == Push(n, ty, <<>>, wire, d)

PayloadOf(r) == Words(extra, insts[r].range.offset, insts[r].range.len)

(***************************************************************************)
(* Instructions whose operands are inline.                                  *)
(***************************************************************************)
leaf == \E name \in scope.names : Inline(0, "Leaf", name, <<name>>)

jump == \E tag \in {"Break", "Continue", "ReturnVoid", "Unreachable"} :
            Inline(0, tag, NeverTy, <<>>)

unary ==
    /\ stack # <<>> /\ Exprs(Taken(1))
    /\ \E tag \in {"Neg", "Return", "ExprStmt"} : Inline(1, tag, IntTy, Taken(1))

binary == /\ Len(stack) >= 2 /\ Exprs(Taken(2))
          /\ Inline(2, "Binary", IntTy, Taken(2))

\* base[start:end]; a bound may be left out.
slice ==
    \E n \in 1..Len(stack) : LET s == Taken(n) IN
        /\ n <= 3 /\ Exprs(s)
        /\ \E ops \in CASE n = 1 -> {<<s[1], None, None>>}
                        [] n = 2 -> {<<s[1], s[2], None>>, <<s[1], None, s[2]>>}
                        [] OTHER -> {s} : Inline(n, "Slice", StrTy, ops)

field_access ==
    /\ stack # <<>> /\ Exprs(Taken(1))
    /\ \E field \in Members : Inline(1, "FieldAccess", IntTy, <<Taken(1)[1], field>>)

(***************************************************************************)
(* Instructions with a payload, both forms.                                 *)
(***************************************************************************)
Modes == {0, 1, 2}      \* ParamMode: Borrow, Move, Inout

call ==
    \E n \in 0..Len(stack), name \in scope.names, ty \in scope.types :
        LET s == Taken(n)
            d == [tag |-> "Call", name |-> name, args |-> s]
        IN  /\ n <= 2 /\ Exprs(s)
            /\ \/ scope.ir = "uir" /\ ty = IntTy /\ Payload(n, IntTy, U!call_encode(d), d)
               \/ /\ scope.ir = "tir"
                  /\ \E modes \in [1..n -> Modes] :
                        LET dm == d @@ [modes |-> modes]
                        IN  Payload(n, ty, T!call_encode(dm), dm)

\* UIR only: a call of a function of the receiver's type once typed.
method_call ==
    \E n \in 1..Len(stack), name \in scope.names :
        LET s == Taken(n)
            d == [tag |-> "MethodCall", receiver |-> s[1], name |-> name, args |-> Tail(s)]
        IN  scope.ir = "uir" /\ n <= 3 /\ Exprs(s) /\ Payload(n, IntTy, U!method_call_encode(d), d)

var_decl ==
    \E name \in scope.names, mutable \in BOOLEAN :
        /\ stack # <<>> /\ Exprs(Taken(1))
        /\ LET d == [tag |-> "VarDecl", name |-> name, mutable |-> mutable,
                     initializer |-> Taken(1)[1]]
           IN  \/ /\ scope.ir = "uir"
                  /\ \E ty \in scope.types \cup {None} :
                        LET dt == d @@ [ty |-> ty]
                        IN  Payload(1, IntTy, U!var_decl_encode(dt), dt)
               \/ scope.ir = "tir" /\ Payload(1, IntTy, T!var_decl_encode(d), d)

\* assign_or_decl in UIR, assign in TIR.
assign ==
    \E name \in scope.names :
        /\ stack # <<>> /\ Exprs(Taken(1))
        /\ \/ LET d == [tag |-> "AssignOrDecl", name |-> name, value |-> Taken(1)[1]]
              IN  scope.ir = "uir" /\ Payload(1, IntTy, U!assign_or_decl_encode(d), d)
           \/ LET d == [tag |-> "Assign", name |-> name, value |-> Taken(1)[1]]
              IN  scope.ir = "tir" /\ Payload(1, IntTy, T!assign_encode(d), d)

CompoundOps == {0, 4}   \* Add is 0, Mod is 4

compound_assign ==
    \E name \in scope.names, op \in CompoundOps :
        /\ stack # <<>> /\ Exprs(Taken(1))
        /\ LET d == [tag |-> "CompoundAssign", name |-> name, op |-> op,
                     value |-> Taken(1)[1]]
           IN  Payload(1, IntTy, IF scope.ir = "uir" THEN U!compound_assign_encode(d)
                                 ELSE T!compound_assign_encode(d), d)

while_loop ==
    \E n \in 1..Len(stack) : LET s == Taken(n) IN
        /\ Exprs(<<s[1]>>) /\ Stmts(Tail(s))
        /\ LET d == [tag |-> "WhileLoop", cond |-> s[1], body |-> Tail(s)]
           IN  Payload(n, IntTy, IF scope.ir = "uir" THEN U!while_loop_encode(d)
                                 ELSE T!while_loop_encode(d), d)

for_range ==
    \E n \in 2..Len(stack), name \in scope.names : LET s == Taken(n) IN
        /\ Exprs(SubSeq(s, 1, 2)) /\ Stmts(SubSeq(s, 3, n))
        /\ LET d == [tag |-> "ForRange", var |-> name, start |-> s[1], end |-> s[2],
                     body |-> SubSeq(s, 3, n)]
           IN  Payload(n, IntTy, IF scope.ir = "uir" THEN U!for_range_encode(d)
                                 ELSE T!for_range_encode(d), d)

\* The branches in `s`: every expression is a condition, and the statements
\* behind the last one are its body, or its body and an else from `cut` on.
Branches(s, cut) ==
    LET conds == SelectSeq([i \in DOMAIN s |-> i], LAMBDA i : ~IsStmt(s[i]))
        after(k) == IF k < Len(conds) THEN conds[k + 1] ELSE cut
        body(k) == SubSeq(s, conds[k] + 1, after(k) - 1)
    IN  [tag |-> "IfStmt", cond |-> s[1], then |-> body(1),
         elifs |-> [k \in 1..(Len(conds) - 1) |-> [cond |-> s[conds[k + 1]],
                                                    body |-> body(k + 1)]]]

if_stmt ==
    \E n \in 1..Len(stack) : LET s == Taken(n) IN
        /\ Exprs(<<s[1]>>)
        /\ \E cut \in 2..(n + 1), has_else \in BOOLEAN :
            /\ \A i \in cut..n : IsStmt(s[i])
            /\ has_else \/ cut = n + 1
            /\ LET d == Branches(s, cut)
                        @@ [else |-> IF has_else THEN <<SubSeq(s, cut, n)>> ELSE <<>>]
               IN  Payload(n, IntTy, IF scope.ir = "uir" THEN U!if_stmt_encode(d)
                                     ELSE T!if_stmt_encode(d), d)

\* Members paired with values: interned names in UIR, ascending indices in TIR.
Fields(s) ==
    IF scope.ir = "tir" THEN {[i \in DOMAIN s |-> <<i - 1, s[i]>>]}
    ELSE {[i \in DOMAIN s |-> <<f[i], s[i]>>] : f \in [DOMAIN s -> Members]}

struct_lit ==
    \E n \in 0..Len(stack) : LET s == Taken(n) IN
        /\ n <= 2 /\ Exprs(s)
        /\ \E fields \in Fields(s) :
            \/ \E name \in scope.names \cup {None} :
                  LET d == [tag |-> "StructLit", name |-> name, fields |-> fields]
                  IN  scope.ir = "uir" /\ Payload(n, IntTy, U!struct_lit_encode(d), d)
            \/ LET d == [tag |-> "StructLit", ty |-> StrTy, fields |-> fields]
               IN  scope.ir = "tir" /\ n > 0 /\ Payload(n, StrTy, T!struct_lit_encode(d), d)

\* A field astgen did not recognise is ORPHANED_FIELD, u32::MAX.
EnumArgs(s) == {[i \in DOMAIN s |-> <<f[i], s[i]>>] : f \in [DOMAIN s -> {0, MaxWord}]}

enum_lit ==
    \E n \in 0..Len(stack), positional \in BOOLEAN : LET s == Taken(n) IN
        /\ n <= 2 /\ Exprs(s)
        /\ \E args \in EnumArgs(s) :
            LET d == [tag |-> "EnumLit", ty |-> StrTy, variant |-> 1,
                      positional |-> positional, args |-> args]
            IN  Payload(n, StrTy, enum_lit_encode(d), d)

error_construct ==
    \E n \in 0..Len(stack), root \in scope.names \cup {None}, positional \in BOOLEAN :
        LET s == Taken(n) IN
        /\ scope.ir = "uir" /\ n <= 1 /\ Exprs(s)
        /\ \E args \in EnumArgs(s), member \in {None, root} :
            LET d == [tag |-> "ErrorConstruct", name |-> 0, root |-> root,
                      member |-> member, ty |-> StrTy, positional |-> positional,
                      args |-> args]
            IN  Push(n, StrTy, <<0>>, U!error_construct_encode(d), d)

field_assign ==
    /\ Len(stack) >= 2 /\ Exprs(Taken(2))
    /\ LET s == Taken(2)
           d == [tag |-> "FieldAssign", target |-> s[1], value |-> s[2]]
       IN  Payload(2, IntTy, IF scope.ir = "uir" THEN U!field_assign_encode(d)
                             ELSE T!field_assign_encode(d), d)

compound_field_assign ==
    /\ Len(stack) >= 2 /\ Exprs(Taken(2))
    /\ \E op \in CompoundOps :
        LET s == Taken(2)
            d == [tag |-> "CompoundFieldAssign", target |-> s[1], op |-> op, value |-> s[2]]
        IN  Payload(2, IntTy, IF scope.ir = "uir" THEN U!compound_field_assign_encode(d)
                              ELSE T!compound_field_assign_encode(d), d)

(***************************************************************************)
(* Patterns.  TIR puts one FieldAccess, never evaluated, in front of the    *)
(* instruction for each binding that owns what it binds.                    *)
(***************************************************************************)
Token(value, field_index, ty) ==
    [tag |-> "FieldAccess", ty |-> ty, ops |-> <<value, field_index>>,
     range |-> [offset |-> Len(extra), len |-> 0]]

PushWithTokens(n, ty, tokens, wire, d) ==
    /\ d.tag \in scope.ops /\ bodies = <<>>
    /\ Len(insts) + Len(tokens) < scope.max
    /\ Len(extra) + Len(wire.words) <= MaxWord
    /\ insts' = insts \o tokens \o <<Inst(d.tag, ty, <<>>, wire)>>
    /\ extra' = extra \o wire.words
    /\ given' = given \o [i \in DOMAIN tokens |-> [tag |-> "FieldAccess",
                                                   ops |-> tokens[i].ops]] \o <<d>>
    /\ took' = took \o [i \in DOMAIN tokens |-> <<>>] \o <<Taken(n)>>
    /\ stack' = Append(SubSeq(stack, 1, Len(stack) - n), Len(insts) + Len(tokens) + 1)
    /\ UNCHANGED <<scope, bodies>>

\* A plan of up to two fields; None is a wildcard.
Plans == {<<<<1, a>>>> : a \in scope.names \cup {None}}
         \cup {<<<<1, a>>, <<0, b>>>> : a, b \in scope.names \cup {None}}

uir_destructure ==
    /\ scope.ir = "uir" /\ stack # <<>> /\ Exprs(Taken(1))
    /\ \E by_position \in BOOLEAN, plan \in Plans :
        LET value == Taken(1)[1]
            d == [tag |-> "Destructure", value |-> value, by_position |-> by_position,
                  plan |-> plan]
        IN  Push(1, IntTy, <<value, Flag(by_position)>>, U!destructure_encode(d), d)

tir_destructure ==
    /\ scope.ir = "tir" /\ stack # <<>> /\ Exprs(Taken(1))
    /\ \E plan \in Plans, ty \in {IntTy, StrTy} :
        LET rhs == Taken(1)[1]
            fields == [i \in DOMAIN plan |-> [field_index |-> plan[i][1],
                                              bind |-> plan[i][2], ty |-> ty]]
            bound == SelectSeq(fields, LAMBDA f : f.bind # None)
            d == [tag |-> "Destructure", rhs |-> rhs, fields |-> fields]
        IN  PushWithTokens(1, insts[rhs].ty,
                           [i \in DOMAIN bound |-> Token(rhs, bound[i].field_index, ty)],
                           T!destructure_encode(d), d)

Span(i) == <<i, i + 1>>

\* What stands behind the scrutinee, one arm each, or one arm of them all.
ArmBodies(s) ==
    {[i \in DOMAIN s |-> IF IsStmt(s[i]) THEN [kind |-> "Stmts", stmts |-> <<s[i]>>]
                         ELSE [kind |-> "Expr", expr |-> s[i]]]}
    \cup {<<[kind |-> "Stmts", stmts |-> s]>> : t \in {x \in {s} : Len(x) > 1 /\ Stmts(x)}}

UirArms(b) ==
    {[i \in DOMAIN b |-> [span |-> Span(i), pattern |-> p[i], body |-> b[i]]] :
        p \in [DOMAIN b -> scope.patterns]}

uir_match ==
    \E n \in 2..Len(stack) : LET s == Taken(n) IN
        /\ scope.ir = "uir" /\ Exprs(<<s[1]>>)
        /\ \E b \in ArmBodies(Tail(s)) : \E arms \in UirArms(b) :
            LET d == [tag |-> "Match", scrutinee |-> s[1], arms |-> arms]
            IN  Push(n, IntTy, <<s[1]>>, U!encode_match_arms(arms), d)

catch ==
    \E n \in 2..Len(stack) : LET s == Taken(n) IN
        /\ scope.ir = "uir" /\ Exprs(<<s[1]>>)
        /\ \E b \in ArmBodies(Tail(s)), binding \in scope.names \cup {None} :
           \E arms \in UirArms(b) :
            LET d == [tag |-> "Catch", scrutinee |-> s[1], binding |-> binding,
                      arms |-> arms]
            IN  Push(n, IntTy, <<s[1]>>, U!catch_encode(d), d)

(* Definite termination, asked of a builder while it lowers (is an arm's body *)
(* never at the join: `jumps` counts) and of a finished body (is a return     *)
(* missing: it does not).                                                     *)
IsNever(r) == insts[r].ty = NeverTy

RECURSIVE stmt_terminates(_, _)
block_terminates(stmts, jumps) == \E i \in DOMAIN stmts : stmt_terminates(stmts[i], jumps)

\* Mutant: only the then and else blocks are looked at.
EndsTerminate(view, jumps) ==
    /\ view.else # <<>>
    /\ block_terminates(view.then, jumps) /\ block_terminates(view.else[1], jumps)

\* A cascade terminates if it has an else and every body does.
CascadeTerminates(view, jumps) ==
    /\ view.else # <<>>
    /\ \A body \in {view.then, view.else[1]} \cup {view.elifs[k].body : k \in DOMAIN view.elifs} :
            block_terminates(body, jumps)

stmt_terminates(r, jumps) ==
    LET tag == insts[r].tag
    IN  CASE tag \in {"Return", "ReturnVoid", "Unreachable"} -> TRUE
          [] tag \in {"Break", "Continue"} -> jumps
          [] tag = "ExprStmt" -> IsNever(insts[r].ops[1])
          [] tag = "VarDecl" -> IsNever(T!var_decl_decode(PayloadOf(r)).initializer)
          [] tag = "Assign" -> IsNever(T!assign_decode(PayloadOf(r)).value)
          [] tag = "CompoundAssign" -> IsNever(T!compound_assign_decode(PayloadOf(r)).value)
          [] tag = "IfStmt" -> CascadeTerminates(T!if_stmt_decode(PayloadOf(r)), jumps)
          [] OTHER -> FALSE

ArmIsNever(body) ==
    IF body.kind = "Expr" THEN IsNever(body.expr) ELSE block_terminates(body.stmts, TRUE)

ByMove(arms) ==
    FlattenSeq([i \in DOMAIN arms |->
                   SelectSeq(arms[i].bindings, LAMBDA b : ~is_copy(b.ty))])

tir_match ==
    \E n \in 2..Len(stack) : LET s == Taken(n) IN
        /\ scope.ir = "tir" /\ Exprs(<<s[1]>>)
        /\ \E b \in ArmBodies(Tail(s)) : \E h \in [DOMAIN b -> scope.heads] :
            LET arms == [i \in DOMAIN b |-> h[i] @@ [span |-> Span(i), body |-> b[i]]]
                d == [tag |-> "Match", scrutinee |-> s[1], arms |-> arms]
                owned == ByMove(arms)
            IN  PushWithTokens(n, IF \A i \in DOMAIN b : ArmIsNever(b[i])
                                  THEN NeverTy ELSE IntTy, [i \in DOMAIN owned |->
                                   Token(s[1], owned[i].field_index, owned[i].ty)],
                               T!match_encode(d), d)

\* add_function (UIR) and finish (TIR): the body's statements follow in `extra`.
finish ==
    /\ bodies = <<>> /\ stack # <<>> /\ Stmts(stack)
    /\ Len(extra) + Len(stack) <= MaxWord
    /\ bodies' = <<[stmts |-> stack, offset |-> Len(extra), len |-> Len(stack)]>>
    /\ extra' = extra \o stack
    /\ stack' = <<>>
    /\ UNCHANGED <<scope, insts, given, took>>

Next ==
    \/ leaf \/ jump \/ unary \/ binary \/ slice \/ field_access
    \/ call \/ method_call \/ var_decl \/ assign \/ compound_assign \/ while_loop \/ for_range
    \/ if_stmt \/ struct_lit \/ enum_lit \/ error_construct \/ field_assign
    \/ compound_field_assign \/ uir_destructure \/ tir_destructure
    \/ uir_match \/ catch \/ tir_match \/ finish

Spec == Init /\ [][Next]_vars

(***************************************************************************)
(* Reading back.                                                            *)
(***************************************************************************)
InlineView(r) == [tag |-> insts[r].tag, ops |-> insts[r].ops]

uir_view(r) ==
    LET tag == insts[r].tag
        w == PayloadOf(r)
        ops == insts[r].ops
    IN  CASE tag = "Call" -> U!call_decode(w)
          [] tag = "MethodCall" -> U!method_call_decode(w)
          [] tag = "VarDecl" -> U!var_decl_decode(w)
          [] tag = "AssignOrDecl" -> U!assign_or_decl_decode(w)
          [] tag = "CompoundAssign" -> U!compound_assign_decode(w)
          [] tag = "FieldAssign" -> U!field_assign_decode(w)
          [] tag = "CompoundFieldAssign" -> U!compound_field_assign_decode(w)
          [] tag = "WhileLoop" -> U!while_loop_decode(w)
          [] tag = "ForRange" -> U!for_range_decode(w)
          [] tag = "StructLit" -> U!struct_lit_decode(w)
          [] tag = "EnumLit" -> enum_lit_decode(w)
          [] tag = "ErrorConstruct" -> U!error_construct_decode(ops[1], w)
          [] tag = "IfStmt" -> U!if_stmt_decode(w)
          [] tag = "Destructure" -> U!destructure_decode(w, ops[1], ops[2] = 1)
          [] tag = "Match" -> [tag |-> tag, scrutinee |-> ops[1],
                               arms |-> U!decode_match_arms(w)]
          [] tag = "Catch" -> U!catch_decode(ops[1], w)
          [] OTHER -> InlineView(r)

tir_view(r) ==
    LET tag == insts[r].tag
        w == PayloadOf(r)
    IN  CASE tag = "Call" -> T!call_decode(w)
          [] tag = "VarDecl" -> T!var_decl_decode(w)
          [] tag = "Assign" -> T!assign_decode(w)
          [] tag = "CompoundAssign" -> T!compound_assign_decode(w)
          [] tag = "FieldAssign" -> T!field_assign_decode(w)
          [] tag = "CompoundFieldAssign" -> T!compound_field_assign_decode(w)
          [] tag = "IfStmt" -> T!if_stmt_decode(w)
          [] tag = "WhileLoop" -> T!while_loop_decode(w)
          [] tag = "ForRange" -> T!for_range_decode(w)
          [] tag = "StructLit" -> T!struct_lit_decode(w)
          [] tag = "EnumLit" -> enum_lit_decode(w)
          [] tag = "Destructure" -> T!destructure_decode(w)
          [] tag = "Match" -> T!match_decode(w)
          [] OTHER -> InlineView(r)

body_stmts == Words(extra, bodies[1].offset, bodies[1].len)

(* Whatever is built after an instruction, its view gives back what its       *)
(* builder was given: payloads never run into each other, no sentinel (0 for  *)
(* a wildcard, u32::MAX for a missing name or type) can be taken for a value, *)
(* and every decoder stops where its encoder did.                             *)
ViewsRoundTrip ==
    /\ \A r \in Refs : (IF scope.ir = "uir" THEN uir_view(r) ELSE tir_view(r)) = given[r]
    /\ bodies # <<>> => body_stmts = bodies[1].stmts
=============================================================================
