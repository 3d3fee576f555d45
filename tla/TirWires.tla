------------------------------ MODULE TirWires ------------------------------
(* The typed form's payloads: what TirBuilder appends to `extra` for each     *)
(* instruction, and what its view reads back (core/src/tir).  The types of    *)
(* the instructions are not on the wire, they are in the instruction.         *)
EXTENDS ExtraWords

call_encode(d) == Wire(<<d.name>> \o Counted(d.args) \o d.modes, 2 + 2 * Len(d.args))
call_decode(w) ==
    [tag |-> "Call", name |-> W(w, 0), args |-> CountedAt(w, 1),
     modes |-> Words(w, 2 + W(w, 1), W(w, 1))]

var_decl_encode(d) == Wire(<<d.name, Flag(d.mutable), d.initializer>>, 3)
var_decl_decode(w) ==
    [tag |-> "VarDecl", name |-> W(w, 0), mutable |-> W(w, 1) % 2 = 1,
     initializer |-> W(w, 2)]

assign_encode(d) == Wire(<<d.name, d.value>>, 2)
assign_decode(w) == [tag |-> "Assign", name |-> W(w, 0), value |-> W(w, 1)]

compound_assign_encode(d) == Wire(<<d.name, d.op, d.value>>, 3)
compound_assign_decode(w) ==
    [tag |-> "CompoundAssign", name |-> W(w, 0), op |-> W(w, 1), value |-> W(w, 2)]

while_loop_encode(d) == Wire(<<d.cond>> \o Counted(d.body), 2 + Len(d.body))
while_loop_decode(w) == [tag |-> "WhileLoop", cond |-> W(w, 0), body |-> WordsFrom(w, 2)]

for_range_encode(d) ==
    Wire(<<d.var, d.start, d.end>> \o Counted(d.body), 4 + Len(d.body))
for_range_decode(w) ==
    [tag |-> "ForRange", var |-> W(w, 0), start |-> W(w, 1), end |-> W(w, 2),
     body |-> WordsFrom(w, 4)]

struct_lit_encode(d) ==
    Wire(<<d.ty, Len(d.fields)>> \o FlattenSeq(d.fields), 2 + 2 * Len(d.fields))
struct_lit_decode(w) ==
    [tag |-> "StructLit", ty |-> W(w, 0), fields |-> Chunks(Words(w, 2, 2 * W(w, 1)), 2)]

field_assign_encode(d) == Wire(<<d.target, d.value>>, 2)
field_assign_decode(w) == [tag |-> "FieldAssign", target |-> W(w, 0), value |-> W(w, 1)]

compound_field_assign_encode(d) == Wire(<<d.target, d.op, d.value>>, 3)
compound_field_assign_decode(w) ==
    [tag |-> "CompoundFieldAssign", target |-> W(w, 0), op |-> W(w, 1), value |-> W(w, 2)]

if_stmt_encode(d) ==
    LET words == <<d.cond>> \o Counted(d.then) \o <<Len(d.elifs)>>
                 \o FlattenSeq([i \in DOMAIN d.elifs |->
                                   <<d.elifs[i].cond>> \o Counted(d.elifs[i].body)])
                 \o (IF d.else = <<>> THEN <<0>> ELSE <<1>> \o Counted(d.else[1]))
    IN  Wire(words, Len(words))

RECURSIVE SkipElifs(_, _, _)
\* The word after `n` elifs from word `at` on: a condition, then skip_ref_list.
SkipElifs(w, at, n) ==
    IF n = 0 THEN at ELSE SkipElifs(w, at + 2 + W(w, at + 1), n - 1)

if_stmt_decode(w) ==
    LET elif_count == W(w, 2 + W(w, 1))
        first == 3 + W(w, 1)
        marker == SkipElifs(w, first, elif_count)
    IN  [tag |-> "IfStmt", cond |-> W(w, 0), then |-> CountedAt(w, 1),
         elifs |-> [k \in 1..elif_count |->
                        LET at == SkipElifs(w, first, k - 1)
                        IN  [cond |-> W(w, at), body |-> CountedAt(w, at + 1)]],
         else |-> IF W(w, marker) = 0 THEN <<>> ELSE <<CountedAt(w, marker + 1)>>]

destructure_encode(d) ==
    Wire(<<d.rhs, Len(d.fields)>>
         \o FlattenSeq([i \in DOMAIN d.fields |->
                           <<d.fields[i].field_index, encode_bind(d.fields[i].bind),
                             d.fields[i].ty>>]),
         2 + 3 * Len(d.fields))
destructure_decode(w) ==
    [tag |-> "Destructure", rhs |-> W(w, 0),
     fields |-> [i \in 1..W(w, 1) |->
                    [field_index |-> W(w, 3 * i - 1), bind |-> decode_bind(W(w, 3 * i)),
                     ty |-> W(w, 3 * i + 1)]]]

(***************************************************************************)
(* match: the scrutinee, then arms back to back, each behind its length.    *)
(***************************************************************************)
DiscVariant == 0
DiscInt == 1
DiscStr == 2
DiscBool == 3
DiscWildcard == 4

DiscriminantWords(disc) ==
    <<disc.kind>> \o
    CASE disc.kind = DiscWildcard -> <<>>
      [] disc.kind = DiscInt ->
            <<Bits(disc.value) % WordSize, Bits(disc.value) \div WordSize>>
      [] OTHER -> <<disc.value>>

DiscWidth(kind) == CASE kind = DiscWildcard -> 1
                     [] kind = DiscInt -> 3
                     [] OTHER -> 2

BindingWords(bindings) ==
    <<Len(bindings)>>
    \o FlattenSeq([i \in DOMAIN bindings |->
                      <<bindings[i].field_index, bindings[i].name, bindings[i].ty>>])

GuardWords(guards) ==
    <<Len(guards)>>
    \o FlattenSeq([i \in DOMAIN guards |->
                      <<guards[i].field_index>> \o encode_lit_value(guards[i].lit)])

BodyWords(b) == IF b.kind = "Expr" THEN <<0, b.expr>> ELSE <<1>> \o Counted(b.stmts)

\* One arm; `arm_len` is patched in once the rest is written.
ArmWords(arm) ==
    LET rest == arm.span \o DiscriminantWords(arm.discriminant)
                \o BindingWords(arm.bindings) \o GuardWords(arm.guards)
                \o BodyWords(arm.body)
    IN  <<Len(rest)>> \o rest

match_encode(d) ==
    LET words == <<d.scrutinee, Len(d.arms)>>
                 \o FlattenSeq([i \in DOMAIN d.arms |-> ArmWords(d.arms[i])])
    IN  Wire(words, Len(words))

decode_discriminant(w) ==
    CASE W(w, 3) = DiscWildcard -> [kind |-> DiscWildcard]
      [] W(w, 3) = DiscInt ->
            [kind |-> DiscInt, value |-> Signed(W(w, 5) * WordSize + W(w, 4))]
      [] OTHER -> [kind |-> W(w, 3), value |-> W(w, 4)]

BindingsAt(w, at) ==
    [i \in 1..W(w, at) |->
        [field_index |-> W(w, at + 3 * i - 2), name |-> W(w, at + 3 * i - 1),
         ty |-> W(w, at + 3 * i)]]

RECURSIVE GuardsFrom(_, _, _)
\* `n` guards from word `at` on, and the word after them.
GuardsFrom(w, at, n) ==
    IF n = 0 THEN [guards |-> <<>>, end |-> at]
    ELSE LET rest == GuardsFrom(w, at + 1 + LitWidth(W(w, at + 1)), n - 1)
         IN  [guards |-> <<[field_index |-> W(w, at), lit |-> decode_lit_at(w, at + 1)]>>
                         \o rest.guards,
              end |-> rest.end]

BodyAt(w, at) ==
    IF W(w, at) = 0 THEN [kind |-> "Expr", expr |-> W(w, at + 1)]
    ELSE [kind |-> "Stmts", stmts |-> CountedAt(w, at + 1)]

decode_match_arm(w) ==
    LET binds == 3 + DiscWidth(W(w, 3))
        count == binds + 1 + 3 * W(w, binds)
        read == GuardsFrom(w, count + 1, W(w, count))
    IN  [span |-> Words(w, 1, 2), discriminant |-> decode_discriminant(w),
         bindings |-> BindingsAt(w, binds), guards |-> read.guards,
         body |-> BodyAt(w, read.end)]

RECURSIVE ArmsFrom(_, _, _)
ArmsFrom(w, at, n) ==
    IF n = 0 THEN <<>>
    ELSE <<decode_match_arm(Words(w, at, 1 + W(w, at)))>>
         \o ArmsFrom(w, at + 1 + W(w, at), n - 1)

match_decode(w) ==
    [tag |-> "Match", scrutinee |-> W(w, 0), arms |-> ArmsFrom(w, 2, W(w, 1))]
=============================================================================
