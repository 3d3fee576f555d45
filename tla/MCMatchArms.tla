----------------------------- MODULE MCMatchArms -----------------------------
(* Scrutinees and arms for model checking MatchArms. *)
EXTENDS MatchArms

CONSTANTS a, b

Lit(t, v)        == [ty |-> t, val |-> v]
Field(n, t, S)   == [name |-> n, ty |-> t, holds |-> {Lit(t, v) : v \in S}]
Var(n, form, fs) == [name |-> n, form |-> form, fields |-> fs]
Type(k, n, vs)   == [kind |-> k, name |-> n, variants |-> vs]
Scalar(t, S)     == Type(t, t, <<Var(None, "tuple", <<Field(None, t, S)>>)>>)

Pat(k, l, of, n, form, args) ==
  [kind |-> k, literal |-> l, of |-> of, name |-> n, form |-> form, args |-> args]
Wild             == Pat("wild", None, None, None, "none", <<>>)
Literally(t, v)  == Pat("literal", Lit(t, v), None, None, "none", <<>>)
Unit(of, n)      == Pat("variant", None, of, n, "none", <<>>)
To(f, to)        == [field |-> f, to |-> to]
Paren(S)         == [i \in DOMAIN S |-> To(None, S[i])]
With(n, form, args)  == Pat("variant", None, None, n, form, args)
Shaped(form, args)   == Pat("struct", None, None, None, form, args)

Yields(form, t) == [form |-> form, ty |-> t]
Arm(p, y)       == [pattern |-> p, body |-> y]
Plain(P)        == {Arm(p, Yields("expr", "int")) : p \in P}
\* Every way an arm can end.
Ends == {Yields("expr", t) : t \in {"str", "view", "void", "never"}}
        \cup {Yields("block", t) : t \in {"void", "never"}}
Ending(P) == {Arm(p, y) : p \in P, y \in Ends}

\* An enum, with patterns for its variants in any order of the fields, and broken ones.
Enum == Type("enum", "E", <<
  Var("A", "named", <<Field("f", "int", {0}), Field("g", "str", {2}), Field("h", "str", {3})>>),
  Var("B", "tuple", <<Field("0", "str", {4})>>),
  Var("C", "unit", <<>>)>>)
EnumPatterns == {Wild, Unit(None, "C"), Unit("E", "C"), With("B", "paren", Paren(<<a>>)),
  With("A", "brace", <<To("h", a), To("f", b), To("g", Skip)>>),
  With("A", "paren", Paren(<<Skip, b, a>>))}
BrokenVariants == {Unit("F", "C"), Unit(None, "B"), Unit(None, "D"), Literally("int", 0),
  With("C", "paren", <<>>), With("B", "brace", <<To("0", a)>>), With("A", "paren", Paren(<<a, a, Skip>>)),
  With("A", "brace", <<To("f", a), To("f", b), To("g", Skip)>>)}

Struct == Type("struct", None, <<
  Var(None, "named", <<Field("f", "int", {0, 1}), Field("g", "int", {0, 1}), Field("h", "str", {2})>>)>>)
StructPatterns == {Wild, Shaped("paren", Paren(<<Lit("int", 0), a, Skip>>)),
  Shaped("brace", <<To("g", Lit("int", 1)), To("f", Lit("int", 0)), To("h", b)>>),
  Shaped("brace", <<To("h", a), To("g", Lit("int", 0)), To("f", b)>>),
  Shaped("paren", Paren(<<b, Skip, a>>))}
BrokenShapes == {Shaped("paren", Paren(<<a>>)), Unit(None, "A"),
  Shaped("paren", Paren(<<Lit("str", 2), a, Skip>>))}

BoolPatterns == {Wild, Literally("bool", 1), Literally("bool", 0), Literally("int", 0)}
IntPatterns  == {Wild, Literally("int", 0), Literally("int", 1), Shaped("paren", <<>>)}

Match(ty, S, borrowed) == [ty |-> ty, arms |-> S, borrowed |-> borrowed]
Examples ==
  {Match(Enum, Plain(EnumPatterns \cup BrokenVariants), y) : y \in BOOLEAN}
  \cup {Match(Struct, Plain(StructPatterns \cup BrokenShapes), y) : y \in BOOLEAN}
  \cup {Match(Scalar("bool", {0, 1}), Plain(BoolPatterns) \cup Ending({Wild, Literally("bool", 1)}), FALSE),
        Match(Scalar("int", {0, 1, 2}), Plain(IntPatterns), FALSE),
        Match(Type("other", None, <<>>), Plain({Wild}), FALSE)}
=============================================================================
