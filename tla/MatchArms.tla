------------------------------- MODULE MatchArms -------------------------------
(* A match expression: how semantic analysis resolves, covers and types its arms *)
(* (sema/match_.rs), how the generated code finds the arm for a value, binds its *)
(* payload and gets the result to the join (codegen/match_.rs).                   *)
EXTENDS Integers, Sequences, FiniteSets

CONSTANTS
  Matches,  \* the scrutinees, each with the arms a match on it is written with
  Binder,   \* names a pattern binds
  Skip,     \* the target `_`
  None,     \* no qualifier, no field name
  MaxArms   \* bound: arms of a match

\* An enum has no two variants of a name, a scalar is one field, a struct one
\* variant, and every type has a value; a literal is of a scalar type, and only
\* the patterns of variants and shapes have arguments, a list of them.
Scalars == {"int", "bool", "str"}
ASSUME MatchesAssumption ==
  \A m \in Matches :
    /\ m.ty.kind \in Scalars \cup {"enum", "struct", "other"}
    /\ \A k, l \in DOMAIN m.ty.variants :
         m.ty.kind = "enum" /\ m.ty.variants[k].name = m.ty.variants[l].name => k = l
    /\ m.ty.kind \in Scalars \cup {"struct"} => DOMAIN m.ty.variants = {1}
    /\ m.ty.kind \in Scalars => DOMAIN m.ty.variants[1].fields = {1}
    /\ \A k \in DOMAIN m.ty.variants : \A i \in DOMAIN m.ty.variants[k].fields :
         m.ty.variants[k].fields[i].holds # {}
    /\ \A a \in m.arms :
         /\ a.pattern.kind \in {"wild", "literal", "variant", "struct"}
         /\ a.pattern.kind = "literal" => a.pattern.literal.ty \in Scalars
         /\ a.pattern.kind \in {"wild", "literal"} => a.pattern.args = <<>>
         /\ DOMAIN a.pattern.args \subseteq Nat /\ IsFiniteSet(DOMAIN a.pattern.args)

VARIABLES
  stage,    \* "resolve", "cover", "type", "route", "test", "enter", "body", "join", "left",
            \* "refused" or "trap"
  on,       \* the scrutinee: its type and whether it is borrowed
  arms,     \* the arms as written
  analysis, \* MatchAnalysis.arms: discriminant, bindings, guards and had_error of each
  at,       \* the arm, or the test, the current stage is at
  wild,     \* has_wildcard
  seen,     \* Coverage: the discriminants marked so far
  warned,   \* the arms W0005 is about
  diags,    \* the codes of the errors emitted
  typed,    \* arms_out: the class of each arm typed
  tokens,   \* owner_tokens: a FieldAccess per binding by move, in the order emitted
  result,   \* match_ty
  cases,    \* case_arm: the arm each variant is routed to, 0 for none
  default,  \* the arm of the first wildcard, 0 for none
  tests,    \* the literal arms that are compared, in order
  value,    \* the scrutinee's value
  bound,    \* what the names of the arm entered got, and by which token
  slot      \* the type of what is in the result slot

written  == <<on, arms>>
sema     == <<analysis, wild, seen, warned, diags>>
typing   == <<typed, tokens, result>>
routing  == <<cases, default, tests>>
running  == <<value, bound, slot>>
vars     == <<stage, written, at, sema, typing, routing, running>>

\* is_copy.
Copied(ty) == ty \in {"int", "bool"}

-----------------------------------------------------------------------------
(* Types, values, and what a pattern means *)

\* An enum or an error set has variants; an anonymous struct is one variant, and
\* an int, a bool or a str one field of its own type.
Shape(k) == on.ty.variants[k]
Slots(k) ==
  LET fields == Shape(k).fields
  IN  {s \in [DOMAIN fields -> UNION {fields[i].holds : i \in DOMAIN fields}] :
         \A i \in DOMAIN fields : s[i] \in fields[i].holds}
Values == UNION {{[variant |-> k, slots |-> s] : s \in Slots(k)} : k \in DOMAIN on.ty.variants}

\* The field that argument i of a pattern is about.
Selects(fields, form, args, i) ==
  IF form = "paren" THEN i ELSE CHOOSE k \in DOMAIN fields : fields[k].name = args[i].field
Matched(p, v) ==
  CASE p.kind = "wild"    -> TRUE
    [] p.kind = "literal" -> v.slots[1] = p.literal
    [] p.kind = "variant" -> Shape(v.variant).name = p.name
    [] p.kind = "struct"  ->
         \A i \in DOMAIN p.args : p.args[i].to \notin Binder \cup {Skip} =>
           v.slots[Selects(Shape(1).fields, p.form, p.args, i)] = p.args[i].to

-----------------------------------------------------------------------------
(* Resolution *)

Wildcard   == [is |-> "wild"]
Placeless  == [is |-> "none"]
Variant(k) == [is |-> "variant", variant |-> k]
Literal(l) == [is |-> "literal", literal |-> l]

Broken == [disc |-> Placeless, binds |-> <<>>, guards |-> {}, broken |-> TRUE]
Found(d, binds, guards) == [disc |-> d, binds |-> binds, guards |-> guards, broken |-> FALSE]

\* The arguments of a pattern against the fields of a shape: in parentheses one
\* for each, in braces each field just once.
Covers(fields, form, args) ==
  CASE form = "none"  -> fields = <<>>
    [] form = "paren" -> Len(args) = Len(fields)
    [] form = "brace" -> /\ Len(args) = Len(fields)
                         /\ {args[i].field : i \in DOMAIN args} = {fields[k].name : k \in DOMAIN fields}
PayloadFits(shape, form, args) ==
  /\ (shape.form = "unit") <=> (form = "none")
  /\ shape.form = "tuple" => form = "paren"
  /\ Covers(shape.fields, form, args)

\* MatchBinding: the canonical index of the field, the name, the type, for each
\* argument that binds, by its place.
Bindings(fields, form, args) ==
  LET field(i) == Selects(fields, form, args, i)
  IN  [i \in {k \in DOMAIN args : args[k].to \in Binder} |->
         [field |-> field(i), name |-> args[i].to, ty |-> fields[field(i)].ty]]
\* The literals an argument must equal: a conjunction, in no order.
Guards(fields, form, args) ==
  {[field |-> Selects(fields, form, args, i), literal |-> args[i].to] :
     i \in {k \in DOMAIN args : args[k].to \notin Binder \cup {Skip}}}

ResolveLiteral(p) ==
  IF p.literal.ty = on.ty.kind THEN Found(Literal(p.literal), <<>>, {}) ELSE Broken

Named(name) == {k \in DOMAIN on.ty.variants : Shape(k).name = name}
ResolveVariant(p) ==
  IF \/ on.ty.kind # "enum" \/ p.of \notin {None, on.ty.name} \/ Named(p.name) = {}
     \/ \A k \in Named(p.name) : ~PayloadFits(Shape(k), p.form, p.args)
  THEN Broken
  ELSE LET k == CHOOSE k \in Named(p.name) : TRUE
       IN  Found(Variant(k), Bindings(Shape(k).fields, p.form, p.args), {})

\* Shape patterns carry no discriminant.
ResolveAnon(p) ==
  IF on.ty.kind # "struct" \/ ~Covers(Shape(1).fields, p.form, p.args) THEN Broken
  ELSE LET fields == Shape(1).fields
           guards == Guards(fields, p.form, p.args)
       IN  IF \E g \in guards : g.literal.ty # fields[g.field].ty
           THEN Broken
           ELSE Found(Placeless, Bindings(fields, p.form, p.args), guards)

Matchable == on.ty.kind # "other"
ResolveArm(p) ==
  CASE ~Matchable          -> Broken
    [] p.kind = "wild"     -> Found(Wildcard, <<>>, {})
    [] p.kind = "literal"  -> ResolveLiteral(p)
    [] p.kind = "variant"  -> ResolveVariant(p)
    [] p.kind = "struct"   -> ResolveAnon(p)

Resolve(arm) ==
  /\ stage = "resolve" /\ Len(arms) < MaxArms
  /\ arms' = Append(arms, arm)
  /\ analysis' = Append(analysis, ResolveArm(arm.pattern))
  /\ UNCHANGED <<stage, on, at, wild, seen, warned, diags, typing, routing, running>>

ResolveEnd ==
  /\ stage = "resolve" /\ arms # <<>>
  /\ stage' = "cover" /\ at' = 1
  /\ diags' = IF ~Matchable \/ \E i \in DOMAIN analysis : analysis[i].broken THEN {"pattern"} ELSE {}
  /\ UNCHANGED <<written, analysis, wild, seen, warned, typing, routing, running>>

-----------------------------------------------------------------------------
(* Coverage *)

Walking(s, S) == stage = s /\ at \in DOMAIN S /\ at' = at + 1 /\ UNCHANGED stage
Skipped       == analysis[at].broken

\* Mutant: only enums can be covered without a wildcard.
FullEnumOnly ==
  on.ty.kind = "enum" /\ {Variant(k) : k \in DOMAIN on.ty.variants} \subseteq seen
\* Coverage::is_full.
Full ==
  CASE on.ty.kind = "enum" -> {Variant(k) : k \in DOMAIN on.ty.variants} \subseteq seen
    [] on.ty.kind = "bool" -> {Literal(l) : l \in Shape(1).fields[1].holds} \subseteq seen
    [] OTHER               -> FALSE

CoverArm ==
  /\ Walking("cover", arms)
  /\ LET d == analysis[at].disc
         counts == ~Skipped /\ ~wild
     IN  /\ wild' = (wild \/ (counts /\ d = Wildcard))
         /\ seen' = IF counts /\ d \notin {Wildcard, Placeless} THEN seen \cup {d} ELSE seen
         /\ warned' = IF ~Skipped /\ (wild \/ d \in seen) THEN warned \cup {at} ELSE warned
  /\ UNCHANGED <<written, analysis, diags, typing, routing, running>>

\* check_exhaustiveness reports only when no pattern was broken.
CoverEnd ==
  /\ stage = "cover" /\ at = Len(arms) + 1
  /\ stage' = "type" /\ at' = 1
  /\ diags' = IF wild \/ Full \/ diags # {} THEN diags ELSE {"exhaustive"}
  /\ UNCHANGED <<written, analysis, wild, seen, warned, typing, routing, running>>

-----------------------------------------------------------------------------
(* Typing of the arms and of their join *)

Moves(b)  == ~Copied(b.ty)
Class(body) ==
  IF body.ty = "never" THEN "diverges"
  ELSE IF body.form = "block" THEN "falls"
  ELSE IF body.ty = "void" THEN "void" ELSE "value"

\* seed_arm_bindings.
Twice(binds)   == \E k, m \in DOMAIN binds : k # m /\ binds[k].name = binds[m].name
Refused(binds) == on.borrowed /\ \E k \in DOMAIN binds :
                    Moves(binds[k]) /\ \A m \in DOMAIN binds : m < k => binds[m].name # binds[k].name
MovingOf(i)    == {k \in DOMAIN analysis[i].binds : Moves(analysis[i].binds[k])}
Rank(S, k)     == 1 + Cardinality({m \in S : m < k})
TokensOf(i)    ==
  [r \in 1 .. Cardinality(MovingOf(i)) |->
     LET k == CHOOSE k \in MovingOf(i) : Rank(MovingOf(i), k) = r
     IN  [arm |-> i, field |-> analysis[i].binds[k].field]]

TypeArm ==
  /\ Walking("type", arms)
  /\ LET binds == analysis[at].binds
     IN  IF Skipped THEN UNCHANGED <<typed, tokens, diags>>
         ELSE /\ typed'  = Append(typed, [ty |-> arms[at].body.ty, class |-> Class(arms[at].body)])
              /\ tokens' = tokens \o TokensOf(at)
              /\ diags'  = diags \cup (IF Twice(binds) THEN {"name"} ELSE {})
                                 \cup (IF Refused(binds) THEN {"borrowed"} ELSE {})
  /\ UNCHANGED <<written, analysis, wild, seen, warned, result, routing, running>>

\* finish_typed_match: the first value is the candidate, which every other value
\* must agree with.
ValueArms == {i \in DOMAIN typed : typed[i].class = "value"}
Candidate == typed[CHOOSE i \in ValueArms : \A j \in ValueArms : i <= j].ty
Mismatch  == \E t \in {typed[i] : i \in DOMAIN typed} :
               t.class = "void" \/ (t.class = "value" /\ t.ty # Candidate)
\* Mutant: an arm that yields nothing agrees with any value.
JoinErrorsLax ==
  IF ValueArms = {} THEN {}
  ELSE (IF \E i \in ValueArms : typed[i].ty # Candidate THEN {"type"} ELSE {})
       \cup (IF \E i \in DOMAIN typed : typed[i].class = "falls" THEN {"no_value"} ELSE {})
JoinErrors ==
  IF ValueArms = {} THEN {}
  ELSE (IF Mismatch THEN {"type"} ELSE {})
       \cup (IF \E i \in DOMAIN typed : typed[i].class = "falls" THEN {"no_value"} ELSE {})
       \cup (IF ~Mismatch /\ Candidate = "view" THEN {"view"} ELSE {})
MatchTy ==
  IF ValueArms # {} THEN Candidate
  ELSE IF typed # <<>> /\ \A i \in DOMAIN typed : typed[i].class = "diverges" THEN "never" ELSE "void"

\* A program with an error is not emitted.
TypeEnd ==
  /\ stage = "type" /\ at = Len(arms) + 1
  /\ diags' = diags \cup JoinErrors
  /\ stage' = IF diags' = {} THEN "route" ELSE "refused"
  /\ result' = MatchTy /\ at' = 1
  /\ UNCHANGED <<written, analysis, wild, seen, warned, typed, tokens, routing, running>>

-----------------------------------------------------------------------------
(* Routing *)

Disc == analysis[at].disc
Routing(kinds) == on.ty.kind \in kinds /\ Walking("route", arms) /\ UNCHANGED <<written, sema, typing, running>>

\* route_enum_dispatch: the first arm that covers a variant gets it; a wildcard
\* gets what no earlier arm has.
\* Mutant: a later arm for the variant takes it over.
RouteVariantLast ==
  /\ Routing({"enum"}) /\ Disc # Wildcard
  /\ cases' = [cases EXCEPT ![Disc.variant] = at]
  /\ UNCHANGED <<default, tests>>
RouteVariant ==
  /\ Routing({"enum"}) /\ Disc # Wildcard
  /\ cases' = [cases EXCEPT ![Disc.variant] = IF @ = 0 THEN at ELSE @]
  /\ UNCHANGED <<default, tests>>
RouteWildcard ==
  /\ Routing({"enum"}) /\ Disc = Wildcard
  /\ default' = IF default = 0 THEN at ELSE default
  /\ cases' = [k \in DOMAIN cases |-> IF cases[k] = 0 THEN at ELSE cases[k]]
  /\ UNCHANGED tests

\* route_literal_dispatch: a literal behind a wildcard or compared already has no
\* test.
RouteLiteral ==
  /\ Routing(Scalars)
  /\ IF Disc = Wildcard
     THEN default' = (IF default = 0 THEN at ELSE default) /\ UNCHANGED tests
     ELSE /\ tests' = IF default # 0 \/ \E k \in DOMAIN tests : analysis[tests[k]].disc = Disc
                      THEN tests ELSE Append(tests, at)
          /\ UNCHANGED default
  /\ UNCHANGED cases

\* route_anon_dispatch: every arm is a receiver of what the arm before it refused.
RouteAnon ==
  /\ Routing({"struct"})
  /\ tests' = Append(tests, at)
  /\ UNCHANGED <<cases, default>>

\* The match is reached with any value of its type.
Dispatch ==
  /\ stage = "route" /\ at = Len(arms) + 1
  /\ stage' = "test" /\ at' = 1
  /\ value' \in Values
  /\ UNCHANGED <<written, sema, typing, routing, bound, slot>>

-----------------------------------------------------------------------------
(* The program runs *)

Testing(kinds) == stage = "test" /\ on.ty.kind \in kinds /\ UNCHANGED <<written, sema, typing, routing, running>>
\* To an arm, or to the trap of a tag that no arm has.
Enter(i) == IF i = 0 THEN stage' = "trap" /\ UNCHANGED at ELSE stage' = "enter" /\ at' = i

Switch == Testing({"enum"}) /\ Enter(cases[value.variant])

\* emit_guard_chain, emit_literal_compare.
Passes(i) ==
  IF on.ty.kind = "struct"
  THEN \A g \in analysis[i].guards : value.slots[g.field] = g.literal
  ELSE analysis[i].disc = Literal(value.slots[1])
Test ==
  /\ Testing(Scalars \cup {"struct"})
  /\ IF at > Len(tests) THEN Enter(default)
     ELSE IF Passes(tests[at]) THEN Enter(tests[at])
     ELSE at' = at + 1 /\ UNCHANGED stage

\* match_arm_prologue: the binding's field by its index, its token by counting the
\* bindings that move, those of the arms before this one first.
\* Mutant: the bindings of an arm are counted from its first.
CursorFromZero(i, k) == Rank(MovingOf(i), k)
Earlier(i)   == UNION {{j} \X MovingOf(j) : j \in 1 .. i - 1}
Cursor(i, k) == Cardinality(Earlier(i)) + Rank(MovingOf(i), k)
Bind ==
  /\ stage = "enter" /\ stage' = "body"
  /\ LET binds == analysis[at].binds
     IN  bound' = [k \in DOMAIN binds |->
                     [name |-> binds[k].name, gets |-> value.slots[binds[k].field],
                      token |-> IF Moves(binds[k]) THEN tokens[Cursor(at, k)] ELSE None]]
  /\ UNCHANGED <<written, at, sema, typing, routing, value, slot>>

\* match_arm_fallthrough; an arm that diverges has no edge to the join.
Leave ==
  /\ stage = "body"
  /\ stage' = IF typed[at].class = "diverges" THEN "left" ELSE "join"
  /\ slot'  = IF typed[at].class = "value" THEN typed[at].ty ELSE slot
  /\ UNCHANGED <<written, at, sema, typing, routing, value, bound>>

Done == stage \in {"refused", "trap", "left", "join"} /\ UNCHANGED vars

Init ==
  /\ stage = "resolve" /\ arms = <<>> /\ analysis = <<>> /\ at = 0
  /\ \E m \in Matches : on = [ty |-> m.ty, borrowed |-> m.borrowed]
  /\ wild = FALSE /\ seen = {} /\ warned = {} /\ diags = {}
  /\ typed = <<>> /\ tokens = <<>> /\ result = "none"
  /\ cases = [k \in DOMAIN on.ty.variants |-> 0] /\ default = 0 /\ tests = <<>>
  /\ value = None /\ bound = <<>> /\ slot = "none"

Next ==
  \/ \E m \in Matches : on = [ty |-> m.ty, borrowed |-> m.borrowed] /\ \E a \in m.arms : Resolve(a)
  \/ ResolveEnd \/ CoverArm \/ CoverEnd \/ TypeArm \/ TypeEnd
  \/ RouteVariant \/ RouteWildcard \/ RouteLiteral \/ RouteAnon \/ Dispatch
  \/ Switch \/ Test \/ Bind \/ Leave \/ Done

Spec == Init /\ [][Next]_vars

-----------------------------------------------------------------------------
(* Properties *)

\* The arm that runs is the first one written whose pattern the value matches,
\* there always is one (specification, exhaustiveness), and coverage, which is
\* decided elsewhere, has not warned that this arm is unreachable (W0005).
FirstMatchRuns ==
  stage \in {"trap", "enter", "body"} =>
    LET fits == {i \in DOMAIN arms : Matched(arms[i].pattern, value)}
    IN  stage # "trap" /\ at \in fits \ warned /\ \A i \in fits : at <= i

\* A name bound by a pattern is the field the pattern names, and is owned through
\* the token that was emitted for this binding.
BindsNamedFields ==
  stage = "body" =>
    LET p == arms[at].pattern
        S == {i \in DOMAIN p.args : p.args[i].to \in Binder}
        field(i) == Selects(Shape(value.variant).fields, p.form, p.args, i)
    IN  bound = [i \in S |->
          [name |-> p.args[i].to, gets |-> value.slots[field(i)],
           token |-> IF Copied(Shape(value.variant).fields[field(i)].ty) THEN None
                     ELSE [arm |-> at, field |-> field(i)]]]

\* Where the arms meet, the slot holds a value of the type the match has.
JoinHasResult ==
  stage = "join" => result # "never" /\ (result # "void" => slot = result)

\* A match refused only for not being exhaustive has a value that no arm matches;
\* the ints, the strings and the shapes always want a wildcard.
RefusedForReason ==
  stage = "refused" /\ diags = {"exhaustive"} /\ on.ty.kind \in {"enum", "bool"} =>
    \E v \in Values : \A i \in DOMAIN arms : ~Matched(arms[i].pattern, v)
=============================================================================
