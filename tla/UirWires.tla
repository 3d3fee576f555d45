------------------------------ MODULE UirWires ------------------------------
(* The untyped form's payloads: what UirBuilder appends to `extra` for each   *)
(* instruction, and what its view reads back (core/src/uir).  A payload is a  *)
(* record; lists are sequences, an Option<list> a sequence of at most one.    *)
EXTENDS ExtraWords

call_encode(d) == Wire(<<d.name>> \o Counted(d.args), 2 + Len(d.args))
call_decode(w) == [tag |-> "Call", name |-> W(w, 0), args |-> CountedAt(w, 1)]

var_decl_encode(d) ==
    Wire(<<d.name, Flag(d.mutable), OrMax(d.ty), d.initializer>>, 4)
var_decl_decode(w) ==
    [tag |-> "VarDecl", name |-> W(w, 0), mutable |-> W(w, 1) % 2 = 1,
     ty |-> UnlessMax(W(w, 2)), initializer |-> W(w, 3)]

assign_or_decl_encode(d) == Wire(<<d.name, d.value>>, 2)
assign_or_decl_decode(w) == [tag |-> "AssignOrDecl", name |-> W(w, 0), value |-> W(w, 1)]

compound_assign_encode(d) == Wire(<<d.name, d.op, d.value>>, 3)
compound_assign_decode(w) ==
    [tag |-> "CompoundAssign", name |-> W(w, 0), op |-> W(w, 1), value |-> W(w, 2)]

method_call_encode(d) ==
    Wire(<<d.receiver, d.name>> \o Counted(d.args), 3 + Len(d.args))
method_call_decode(w) ==
    [tag |-> "MethodCall", receiver |-> W(w, 0), name |-> W(w, 1), args |-> CountedAt(w, 2)]

while_loop_encode(d) == Wire(<<d.cond>> \o Counted(d.body), 2 + Len(d.body))
while_loop_decode(w) == [tag |-> "WhileLoop", cond |-> W(w, 0), body |-> WordsFrom(w, 2)]

for_range_encode(d) ==
    Wire(<<d.var, d.start, d.end>> \o Counted(d.body), 4 + Len(d.body))
for_range_decode(w) ==
    [tag |-> "ForRange", var |-> W(w, 0), start |-> W(w, 1), end |-> W(w, 2),
     body |-> WordsFrom(w, 4)]

struct_lit_encode(d) ==
    Wire(<<OrMax(d.name), Len(d.fields)>> \o FlattenSeq(d.fields), 2 + 2 * Len(d.fields))
struct_lit_decode(w) ==
    [tag |-> "StructLit", name |-> UnlessMax(W(w, 0)),
     fields |-> Chunks(Words(w, 2, 2 * W(w, 1)), 2)]

field_assign_encode(d) == Wire(<<d.target, d.value>>, 2)
field_assign_decode(w) == [tag |-> "FieldAssign", target |-> W(w, 0), value |-> W(w, 1)]

compound_field_assign_encode(d) == Wire(<<d.target, d.op, d.value>>, 3)
compound_field_assign_decode(w) ==
    [tag |-> "CompoundFieldAssign", target |-> W(w, 0), op |-> W(w, 1), value |-> W(w, 2)]

ElifWords(elif) == <<elif.cond>> \o Counted(elif.body)
if_stmt_encode(d) ==
    LET words == <<d.cond>> \o Counted(d.then) \o <<Len(d.elifs)>>
                 \o FlattenSeq([i \in DOMAIN d.elifs |-> ElifWords(d.elifs[i])])
                 \o (IF d.else = <<>> THEN <<0>> ELSE <<1>> \o Counted(d.else[1]))
    IN  Wire(words, Len(words))

\* Where the k-th elif starts, given where the first does.
ElifAt(w, first) ==
    [k \in 0..W(w, first - 1) |->
        FoldLeft(LAMBDA at, i : at + 2 + W(w, at + 1), first, [i \in 1..k |-> i])]

if_stmt_decode(w) ==
    LET elif_count == W(w, 2 + W(w, 1))
        at == ElifAt(w, 3 + W(w, 1))
    IN  [tag |-> "IfStmt", cond |-> W(w, 0), then |-> CountedAt(w, 1),
         elifs |-> [k \in 1..elif_count |->
                        [cond |-> W(w, at[k - 1]), body |-> CountedAt(w, at[k - 1] + 1)]],
         else |-> IF W(w, at[elif_count]) = 0 THEN <<>>
                  ELSE <<CountedAt(w, at[elif_count] + 1)>>]

(* An error's construction puts the family names in front of the payload an   *)
(* enum literal has; the error's own name is inline.                          *)
error_construct_encode(d) ==
    LET payload == enum_lit_encode([ty |-> d.ty, variant |-> 0, args |-> d.args,
                                    positional |-> d.positional])
    IN  Wire(<<OrMax(d.root), OrMax(d.member)>> \o payload.words, payload.len + 2)
error_construct_decode(name, w) ==
    LET payload == enum_lit_decode(WordsFrom(w, 2))
    IN  [tag |-> "ErrorConstruct", name |-> name, root |-> UnlessMax(W(w, 0)),
         member |-> UnlessMax(W(w, 1)), ty |-> payload.ty,
         positional |-> payload.positional, args |-> payload.args]

destructure_encode(d) ==
    Wire(<<Len(d.plan)>> \o FlattenSeq([i \in DOMAIN d.plan |->
                                           <<d.plan[i][1], encode_bind(d.plan[i][2])>>]),
         1 + 2 * Len(d.plan))
destructure_decode(w, value, by_position) ==
    [tag |-> "Destructure", value |-> value, by_position |-> by_position,
     plan |-> [i \in 1..W(w, 0) |-> <<W(w, 2 * i - 1), decode_bind(W(w, 2 * i))>>]]

(***************************************************************************)
(* match and catch: arms back to back, each behind its own length.          *)
(***************************************************************************)
PatWildcard == 0
PatLiteral == 1
PatVariant == 2
PatAnon == 3

FieldWildcard == 0
FieldBind == 1
FieldLiteral == 2

FieldWords(f) ==
    <<f.selector, f.kind>> \o CASE f.kind = FieldWildcard -> <<>>
                                [] f.kind = FieldBind -> <<f.name>>
                                [] f.kind = FieldLiteral -> encode_lit_value(f.lit)

\* V_FLAGS: bit 0 is HAS_ARGS, bit 1 BY_POSITION.
VariantArgWords(p) ==
    IF p.args = <<>> THEN <<0>>
    ELSE LET args == p.args[1].args
         IN  <<1 + 2 * Flag(p.args[1].by_position), Len(args)>>
             \o FlattenSeq([i \in DOMAIN args |->
                               <<encode_bind(args[i][1]), encode_bind(args[i][2])>>])

encode_match_pattern(p) ==
    <<p.kind>> \o
    CASE p.kind = PatWildcard -> <<>>
      [] p.kind = PatLiteral -> encode_lit_value(p.lit)
      [] p.kind = PatAnon ->
            <<Flag(p.positional), Len(p.fields)>>
            \o FlattenSeq([i \in DOMAIN p.fields |-> FieldWords(p.fields[i])])
      [] p.kind = PatVariant -> <<encode_bind(p.enum), p.variant>> \o VariantArgWords(p)

encode_match_body(b) ==
    IF b.kind = "Expr" THEN <<0, b.expr>> ELSE <<1>> \o Counted(b.stmts)

\* One arm; `arm_len` is patched in once the rest is written.
encode_match_arm(arm) ==
    LET rest == arm.span \o encode_match_pattern(arm.pattern) \o encode_match_body(arm.body)
    IN  <<Len(rest)>> \o rest

encode_match_arms(arms) ==
    LET words == <<Len(arms)>>
                 \o FlattenSeq([i \in DOMAIN arms |-> encode_match_arm(arms[i])])
    IN  Wire(words, Len(words))

RECURSIVE decode_anon_fields(_, _, _)
\* `n` fields from word `at` on, and the word after them.
decode_anon_fields(w, at, n) ==
    IF n = 0 THEN [fields |-> <<>>, end |-> at]
    ELSE LET kind == W(w, at + 1)
             field == CASE kind = FieldWildcard -> [selector |-> W(w, at), kind |-> kind]
                        [] kind = FieldBind ->
                              [selector |-> W(w, at), kind |-> kind, name |-> W(w, at + 2)]
                        [] kind = FieldLiteral ->
                              [selector |-> W(w, at), kind |-> kind,
                               lit |-> decode_lit_at(w, at + 2)]
             width == CASE kind = FieldWildcard -> 2
                        [] kind = FieldBind -> 3
                        [] kind = FieldLiteral -> 2 + LitWidth(W(w, at + 2))
             rest == decode_anon_fields(w, at + width, n - 1)
         IN  [fields |-> <<field>> \o rest.fields, end |-> rest.end]

\* A variant pattern's arguments, and the word after them.
decode_variant_args(w, at) ==
    IF W(w, at) % 2 = 0 THEN [args |-> <<>>, end |-> at + 1]
    ELSE LET argc == W(w, at + 1)
             pairs == Chunks(Words(w, at + 2, 2 * argc), 2)
         IN  [args |-> <<[by_position |-> (W(w, at) \div 2) % 2 = 1,
                          args |-> [i \in DOMAIN pairs |-> <<decode_bind(pairs[i][1]),
                                                             decode_bind(pairs[i][2])>>]]>>,
              end |-> at + 2 + 2 * argc]

\* The pattern whose kind is word 3 of the arm, and the word after it.
decode_match_pattern(w) ==
    LET kind == W(w, 3)
    IN  CASE kind = PatWildcard -> [pattern |-> [kind |-> kind], end |-> 4]
          [] kind = PatLiteral ->
                [pattern |-> [kind |-> kind, lit |-> decode_lit_at(w, 4)],
                 end |-> 4 + LitWidth(W(w, 4))]
          [] kind = PatAnon ->
                LET read == decode_anon_fields(w, 6, W(w, 5))
                IN  [pattern |-> [kind |-> kind, positional |-> W(w, 4) % 2 = 1,
                                  fields |-> read.fields],
                     end |-> read.end]
          [] kind = PatVariant ->
                LET read == decode_variant_args(w, 6)
                IN  [pattern |-> [kind |-> kind, enum |-> decode_bind(W(w, 4)),
                                  variant |-> W(w, 5), args |-> read.args],
                     end |-> read.end]

decode_body(w, at) ==
    IF W(w, at) = 0 THEN [kind |-> "Expr", expr |-> W(w, at + 1)]
    ELSE [kind |-> "Stmts", stmts |-> CountedAt(w, at + 1)]

decode_match_arm(w) ==
    LET read == decode_match_pattern(w)
    IN  [span |-> Words(w, 1, 2), pattern |-> read.pattern, body |-> decode_body(w, read.end)]

RECURSIVE ArmsFrom(_, _, _)
ArmsFrom(w, at, n) ==
    IF n = 0 THEN <<>>
    ELSE <<decode_match_arm(Words(w, at, 1 + W(w, at)))>>
         \o ArmsFrom(w, at + 1 + W(w, at), n - 1)

decode_match_arms(w) == ArmsFrom(w, 1, W(w, 0))

catch_encode(d) ==
    LET arms == encode_match_arms(d.arms)
    IN  Wire(<<encode_bind(d.binding)>> \o arms.words, arms.len + 1)
catch_decode(scrutinee, w) ==
    [tag |-> "Catch", scrutinee |-> scrutinee, binding |-> decode_bind(W(w, 0)),
     arms |-> decode_match_arms(WordsFrom(w, 1))]
=============================================================================
