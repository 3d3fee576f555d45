---------------------------- MODULE MatchArms_proof ----------------------------
(***************************************************************************)
(* Proofs about MatchArms, for every type that can be matched on, any arms *)
(* and any value: the arm that runs is the first one written that the      *)
(* value matches, its names get the fields its pattern names, each through *)
(* its own token, the join gets a value of the type of the match, and a    *)
(* match is refused for not being exhaustive only when it is not.          *)
(***************************************************************************)
EXTENDS MatchArms, SequenceTheorems, FiniteSetTheorems, TLAPS

-----------------------------------------------------------------------------
(* Resolution keeps the meaning of a pattern *)

Scrutinees == {[ty |-> m.ty, borrowed |-> m.borrowed] : m \in Matches}
Arms       == UNION {m.arms : m \in Matches}

\* What MatchesAssumption says of the type at hand and of a pattern.
ScrutineeOK ==
  /\ on.ty.kind \in Scalars \cup {"enum", "struct", "other"}
  /\ \A k, l \in DOMAIN on.ty.variants :
       on.ty.kind = "enum" /\ Shape(k).name = Shape(l).name => k = l
  /\ on.ty.kind \in Scalars \cup {"struct"} => DOMAIN on.ty.variants = {1}
  /\ on.ty.kind \in Scalars => DOMAIN Shape(1).fields = {1}
  /\ \A k \in DOMAIN on.ty.variants : \A i \in DOMAIN Shape(k).fields : Shape(k).fields[i].holds # {}
PatternOK(p) ==
  /\ p.kind \in {"wild", "literal", "variant", "struct"}
  /\ p.kind = "literal" => p.literal.ty \in Scalars

\* The assumption, by its parts.
LEMMA Assumed ==
  /\ on \in Scrutinees => ScrutineeOK
  /\ \A arm \in Arms : PatternOK(arm.pattern)
  BY MatchesAssumption DEF Scrutinees, Arms, ScrutineeOK, PatternOK, Shape

\* What an arm that was resolved accepts, as the generated code will ask.
Accepts(a, v) ==
  \/ a.disc = Wildcard
  \/ on.ty.kind = "enum" /\ a.disc = Variant(v.variant)
  \/ on.ty.kind \in Scalars /\ a.disc = Literal(v.slots[1])
  \/ on.ty.kind = "struct" /\ \A g \in a.guards : v.slots[g.field] = g.literal

\* The discriminants of the arms of a type.
DiscOK(a) ==
  \/ a.disc = Wildcard /\ a.guards = {}
  \/ on.ty.kind = "enum" /\ \E k \in DOMAIN on.ty.variants : a.disc = Variant(k)
  \/ on.ty.kind \in Scalars /\ \E l : a.disc = Literal(l)
  \/ on.ty.kind = "struct" /\ a.disc = Placeless

\* A wildcard.
LEMMA ResolveWild ==
  ASSUME NEW p, p.kind = "wild", ~ResolveArm(p).broken, NEW v
  PROVE  DiscOK(ResolveArm(p)) /\ (Matched(p, v) <=> Accepts(ResolveArm(p), v))
  BY DEF ResolveArm, Found, Broken, Wildcard, DiscOK, Accepts, Matched

\* A literal of the type of the scrutinee.
LEMMA ResolveLit ==
  ASSUME NEW p, p.kind = "literal", PatternOK(p), ~ResolveArm(p).broken, NEW v
  PROVE  DiscOK(ResolveArm(p)) /\ (Matched(p, v) <=> Accepts(ResolveArm(p), v))
  <1>1. ResolveArm(p) = Found(Literal(p.literal), <<>>, {}) /\ on.ty.kind \in Scalars
    BY DEF ResolveArm, ResolveLiteral, Broken, PatternOK
  <1>2. Literal(p.literal) # Wildcard
    BY DEF Literal, Wildcard
  <1>3. Literal(p.literal) = Literal(v.slots[1]) <=> p.literal = v.slots[1]
    BY DEF Literal
  <1>4. Matched(p, v) <=> v.slots[1] = p.literal
    BY DEF Matched
  <1> QED BY <1>1, <1>2, <1>3, <1>4 DEF Accepts, DiscOK, Found, Scalars

\* A variant: its name is the name of one variant only.
LEMMA ResolveVar ==
  ASSUME ScrutineeOK, NEW p, p.kind = "variant", ~ResolveArm(p).broken,
         NEW v, v.variant \in DOMAIN on.ty.variants
  PROVE  DiscOK(ResolveArm(p)) /\ (Matched(p, v) <=> Accepts(ResolveArm(p), v))
  <1> DEFINE k == CHOOSE k \in Named(p.name) : TRUE
  <1>1. /\ ResolveArm(p) = Found(Variant(k), Bindings(Shape(k).fields, p.form, p.args), {})
        /\ on.ty.kind = "enum" /\ Named(p.name) # {}
    BY DEF ResolveArm, ResolveVariant, Broken
  <1>2. k \in DOMAIN on.ty.variants /\ Shape(k).name = p.name
    BY <1>1 DEF Named
  <1> HIDE DEF k
  <1>3. Variant(k) # Wildcard /\ (Variant(k) = Variant(v.variant) <=> k = v.variant)
    BY DEF Variant, Wildcard
  <1>4. Matched(p, v) <=> Shape(v.variant).name = p.name
    BY DEF Matched
  <1>5. ResolveArm(p).disc = Variant(k)
    BY <1>1 DEF Found
  <1> QED BY <1>1, <1>2, <1>3, <1>4, <1>5 DEF Accepts, DiscOK, ScrutineeOK, Scalars

\* A shape: the guards are its literals, at the fields they are about.
LEMMA ResolveShape ==
  ASSUME NEW p, p.kind = "struct", ~ResolveArm(p).broken, NEW v
  PROVE  DiscOK(ResolveArm(p)) /\ (Matched(p, v) <=> Accepts(ResolveArm(p), v))
  <1> DEFINE fields == Shape(1).fields
             a == ResolveArm(p)
  <1>1. /\ on.ty.kind = "struct"
        /\ a = Found(Placeless, Bindings(fields, p.form, p.args), Guards(fields, p.form, p.args))
    BY DEF ResolveArm, ResolveAnon, Broken
  <1>2. a.disc = Placeless /\ a.guards = Guards(fields, p.form, p.args)
    BY <1>1 DEF Found
  <1>3. Placeless # Wildcard
    BY DEF Placeless, Wildcard
  <1> DEFINE literals == \A i \in DOMAIN p.args : p.args[i].to \notin Binder \cup {Skip} =>
                           v.slots[Selects(fields, p.form, p.args, i)] = p.args[i].to
             guards == \A g \in a.guards : v.slots[g.field] = g.literal
             guard(i) == [field |-> Selects(fields, p.form, p.args, i), literal |-> p.args[i].to]
             I == {i \in DOMAIN p.args : p.args[i].to \notin Binder \cup {Skip}}
  <1>4. Matched(p, v) <=> literals
    BY DEF Matched
  <1>5. guards <=> literals
    <2>1. a.guards = {guard(i) : i \in I}
      BY <1>2 DEF Guards
    <2>2. \A i : /\ guard(i).field = Selects(fields, p.form, p.args, i)
                 /\ guard(i).literal = p.args[i].to
      OBVIOUS
    <2> HIDE DEF guard
    <2>3. guards <=> \A i \in I : v.slots[guard(i).field] = guard(i).literal
      BY <2>1
    <2> QED BY <2>2, <2>3
  <1>6. DiscOK(a)
    BY <1>1, <1>2 DEF DiscOK
  <1>7. Accepts(a, v) <=> guards
    BY <1>1, <1>2, <1>3 DEF Accepts, Scalars
  <1> HIDE DEF literals, guards
  <1> QED BY <1>4, <1>5, <1>6, <1>7

\* An arm that is not broken accepts what its pattern matches.
LEMMA ResolvedMeaning ==
  ASSUME ScrutineeOK, NEW p, PatternOK(p), ~ResolveArm(p).broken,
         NEW v, v.variant \in DOMAIN on.ty.variants
  PROVE  DiscOK(ResolveArm(p)) /\ (Matched(p, v) <=> Accepts(ResolveArm(p), v))
  BY ResolveWild, ResolveLit, ResolveVar, ResolveShape DEF PatternOK
-----------------------------------------------------------------------------
(* The inductive invariant *)

Unemitted  == {"resolve", "cover", "type", "refused"}              \* not emitted
After  == {"route", "test", "enter", "body", "join", "left", "trap"}
Analyses == {ResolveArm(arm.pattern) : arm \in Arms}
Types    == {[ty |-> arm.body.ty, class |-> Class(arm.body)] : arm \in Arms}

\* The arms are analysed as they are written.
Shapes ==
  /\ stage \in Unemitted \cup After /\ on \in Scrutinees
  /\ arms \in Seq(Arms) /\ analysis \in Seq(Analyses) /\ Len(analysis) = Len(arms)
  /\ \A i \in 1 .. Len(arms) : analysis[i] = ResolveArm(arms[i].pattern)
  /\ at \in Nat
  /\ stage \in {"cover", "type", "route"} => at \in 1 .. Len(arms) + 1
  /\ stage = "test" => at # 0

Whole(i)   == ~analysis[i].broken
Catches(i) == Whole(i) /\ analysis[i].disc = Wildcard
Marks(i)   == Whole(i) /\ analysis[i].disc \notin {Wildcard, Placeless}

\* What coverage has marked: the discriminants of the arms up to the first
\* wildcard; it warns about arms behind a wildcard or a mark of their own.
Covered == CASE stage = "resolve" -> 0 [] stage = "cover" -> at - 1 [] OTHER -> Len(arms)
CoverageSoFar ==
  /\ wild <=> \E i \in 1 .. Covered : Catches(i)
  /\ \A d \in seen : \E i \in 1 .. Covered : Marks(i) /\ analysis[i].disc = d
  /\ ~wild => \A i \in 1 .. Covered : Marks(i) => analysis[i].disc \in seen
  /\ \A i \in warned : /\ i \in 1 .. Covered
                       /\ \E j \in 1 .. i - 1 : Catches(j) \/ (Marks(j) /\ analysis[j].disc = analysis[i].disc)

\* What has been reported.
DiagsSoFar ==
  /\ stage = "resolve" => diags = {}
  /\ stage = "cover" => diags \subseteq {"pattern"}
  /\ stage # "resolve" /\ (~Matchable \/ \E i \in 1 .. Len(arms) : ~Whole(i)) => "pattern" \in diags
  /\ stage \notin {"resolve", "cover"} => wild \/ Full \/ "pattern" \in diags \/ "exhaustive" \in diags
  /\ "exhaustive" \in diags => "pattern" \notin diags /\ ~wild /\ ~Full

\* Without a broken pattern the arms are typed one by one.
TypedArms == CASE stage \in {"resolve", "cover"} -> 0 [] stage = "type" -> at - 1 [] OTHER -> Len(arms)
TypesSoFar ==
  /\ typed \in Seq(Types)
  /\ "pattern" \notin diags => Len(typed) = TypedArms

\* A match that is emitted had no error.
Accepted == stage \in After => diags = {} /\ JoinErrors = {} /\ result = MatchTy

MatchParts == Shapes /\ CoverageSoFar /\ DiagsSoFar /\ TypesSoFar /\ Accepted

-----------------------------------------------------------------------------
(* Analysis and coverage *)

\* What a pattern resolves to depends on the scrutinee only, which stays.
LEMMA SameResolution ==
  ASSUME UNCHANGED on
  PROVE  Analyses' = Analyses /\ \A p : ResolveArm(p)' = ResolveArm(p)
  <1>1. \A p : ResolveArm(p)' = ResolveArm(p)
    BY DEF ResolveArm, Matchable, ResolveLiteral, ResolveVariant, ResolveAnon, Named, Shape
  <1> QED BY <1>1 DEF Analyses

\* An arm is read.
LEMMA ResolveKeeps ==
  ASSUME MatchParts, NEW m \in Matches, NEW arm \in m.arms, Resolve(arm)
  PROVE  MatchParts'
  <1> USE DEF MatchParts, Resolve, written, sema, typing, routing, running
  <1>1. arm \in Arms
    BY DEF Arms
  <1>2. Shapes'
    <2>1. ResolveArm(arm.pattern) \in Analyses
      BY <1>1 DEF Analyses
    <2>2. arms' \in Seq(Arms) /\ analysis' \in Seq(Analyses) /\ Len(analysis') = Len(arms')
      BY <1>1, <2>1 DEF Shapes
    <2>3. ASSUME NEW i \in 1 .. Len(arms') PROVE analysis'[i] = ResolveArm(arms'[i].pattern)
      BY <1>1, <2>1, <2>3 DEF Shapes
    <2> QED BY <2>2, <2>3, SameResolution DEF Shapes
  <1>3. CoverageSoFar' /\ DiagsSoFar' /\ TypesSoFar' /\ Accepted'
    BY DEF CoverageSoFar, Covered, DiagsSoFar, TypesSoFar, TypedArms, Accepted, After
  <1> QED BY <1>2, <1>3

\* The arms are all there.
LEMMA ResolveEndKeeps ==
  ASSUME MatchParts, ResolveEnd
  PROVE  MatchParts'
  <1> USE DEF MatchParts, ResolveEnd, written, sema, typing, routing, running
  <1>1. Shapes'
    BY SameResolution DEF Shapes, Unemitted
  <1>2. CoverageSoFar'
    BY DEF CoverageSoFar, Covered
  <1>3. DiagsSoFar'
    BY DEF DiagsSoFar, Whole, Matchable, Shapes
  <1>4. TypesSoFar' /\ Accepted'
    BY DEF TypesSoFar, TypedArms, Accepted, After, DiagsSoFar
  <1> QED BY <1>1, <1>2, <1>3, <1>4

\* Coverage looks at an arm.
LEMMA CoverArmKeeps ==
  ASSUME MatchParts, CoverArm
  PROVE  MatchParts'
  <1> USE DEF MatchParts, CoverArm, Walking, written, sema, typing, routing, running
  <1>0. stage = "cover" /\ at \in 1 .. Len(arms) /\ Covered = at - 1 /\ Covered' = at
        /\ Len(arms) \in Nat
    BY DEF Covered, Shapes
  <1>1. Shapes'
    BY <1>0, SameResolution DEF Shapes, Unemitted
  <1>2. \A i : (Catches(i) <=> Catches(i)') /\ (Marks(i) <=> Marks(i)')
    BY DEF Catches, Marks, Whole, Wildcard, Placeless
  <1>3. (wild <=> \E i \in 1 .. at - 1 : Catches(i)) /\ wild' = (wild \/ (~wild /\ Catches(at)))
    BY <1>0 DEF CoverageSoFar, Catches, Whole, Skipped
  <1>4. wild' <=> \E i \in 1 .. at : Catches(i)
    <2>1. (\E i \in 1 .. at : Catches(i)) <=> (\E i \in 1 .. at - 1 : Catches(i)) \/ Catches(at)
      BY <1>0
    <2> QED BY <1>3, <2>1, Zenon
  <1>5. seen' = IF ~wild /\ Marks(at) THEN seen \cup {analysis[at].disc} ELSE seen
    BY <1>0 DEF Marks, Whole, Skipped
  <1>6. /\ \A d \in seen' : \E i \in 1 .. at : Marks(i) /\ analysis[i].disc = d
        /\ ~wild' => \A i \in 1 .. at : Marks(i) => analysis[i].disc \in seen'
    <2>1. /\ \A d \in seen : \E i \in 1 .. at - 1 : Marks(i) /\ analysis[i].disc = d
          /\ ~wild => \A i \in 1 .. at - 1 : Marks(i) => analysis[i].disc \in seen
      BY <1>0 DEF CoverageSoFar
    <2>2. at \in 1 .. at /\ (\A i \in 1 .. at : i \in 1 .. at - 1 \/ i = at) /\ 1 .. at - 1 \subseteq 1 .. at
      BY <1>0
    <2> QED BY <1>3, <1>5, <2>1, <2>2
  <1>7. \A i \in warned' : /\ i \in 1 .. at
                           /\ \E j \in 1 .. i - 1 : Catches(j) \/ (Marks(j) /\ analysis[j].disc = analysis[i].disc)
    <2>1. ASSUME NEW i \in warned PROVE i \in 1 .. at - 1
                 /\ \E j \in 1 .. i - 1 : Catches(j) \/ (Marks(j) /\ analysis[j].disc = analysis[i].disc)
      <3>1. i \in 1 .. Covered
            /\ \E j \in 1 .. i - 1 : Catches(j) \/ (Marks(j) /\ analysis[j].disc = analysis[i].disc)
        BY <2>1 DEF CoverageSoFar
      <3> QED BY <1>0, <3>1
    <2>2. ASSUME at \in warned' \ warned
          PROVE  \E j \in 1 .. at - 1 : Catches(j) \/ (Marks(j) /\ analysis[j].disc = analysis[at].disc)
      BY <1>0, <1>3, <2>2 DEF CoverageSoFar
    <2>3. warned' \subseteq warned \cup {at}
      OBVIOUS
    <2> QED BY <1>0, <2>1, <2>2, <2>3
  <1>8. CoverageSoFar'
    BY <1>0, <1>2, <1>4, <1>6, <1>7 DEF CoverageSoFar
  <1>9. DiagsSoFar' /\ TypesSoFar' /\ Accepted'
    BY <1>0 DEF DiagsSoFar, TypesSoFar, TypedArms, Accepted, After, Whole, Matchable
  <1> QED BY <1>1, <1>8, <1>9

\* A match that is not covered is reported, unless a pattern was.
LEMMA CoverEndKeeps ==
  ASSUME MatchParts, CoverEnd
  PROVE  MatchParts'
  <1> USE DEF MatchParts, CoverEnd, written, sema, typing, routing, running
  <1>1. Shapes'
    BY SameResolution DEF Shapes, Unemitted
  <1>2. CoverageSoFar'
    BY DEF CoverageSoFar, Covered, Catches, Marks, Whole, Shapes, Wildcard, Placeless
  <1>3. DiagsSoFar'
    BY DEF DiagsSoFar, Whole, Matchable, Shapes, Full, Shape, Variant, Literal
  <1>4. TypesSoFar' /\ Accepted'
    BY DEF TypesSoFar, TypedArms, Accepted, After, DiagsSoFar
  <1> QED BY <1>1, <1>2, <1>3, <1>4
-----------------------------------------------------------------------------
(* Typing *)

\* An arm is typed, or skipped when its pattern was broken.
LEMMA TypeArmKeeps ==
  ASSUME MatchParts, TypeArm
  PROVE  MatchParts'
  <1> USE DEF MatchParts, TypeArm, Walking, written, routing, running
  <1>0. stage = "type" /\ stage' = "type" /\ at \in 1 .. Len(arms) /\ Len(arms) \in Nat
        /\ TypedArms = at - 1 /\ TypedArms' = at
    BY DEF TypedArms, Shapes
  <1>1. Shapes'
    BY <1>0, SameResolution DEF Shapes, Unemitted
  <1>2. CoverageSoFar'
    BY <1>0 DEF CoverageSoFar, Covered, Catches, Marks, Whole, Wildcard, Placeless
  <1>3. \A c \in {"pattern", "exhaustive"} : c \in diags' <=> c \in diags
    BY DEF Skipped
  <1>4. DiagsSoFar'
    BY <1>0, <1>3 DEF DiagsSoFar, Whole, Matchable, Full, Shape, Variant, Literal
  <1>5. TypesSoFar'
    <2>1. CASE Skipped
      <3>1. "pattern" \in diags
        BY <1>0, <2>1 DEF Skipped, DiagsSoFar, Whole
      <3> QED BY <1>0, <1>3, <2>1, <3>1, SameResolution DEF TypesSoFar
    <2>2. CASE ~Skipped
      <3>1. typed' = Append(typed, [ty |-> arms[at].body.ty, class |-> Class(arms[at].body)])
        BY <2>2
      <3>2. arms[at] \in Arms
        BY <1>0 DEF Shapes
      <3>3. [ty |-> arms[at].body.ty, class |-> Class(arms[at].body)] \in Types
        BY <3>2 DEF Types
      <3> QED BY <1>0, <1>3, <3>1, <3>3 DEF TypesSoFar
    <2> QED BY <2>1, <2>2
  <1>6. Accepted'
    BY <1>0 DEF Accepted, After
  <1> QED BY <1>1, <1>2, <1>4, <1>5, <1>6

\* The match has its type, and is emitted if nothing was reported.
LEMMA TypeEndKeeps ==
  ASSUME MatchParts, TypeEnd
  PROVE  MatchParts'
  <1> USE DEF MatchParts, TypeEnd, written, routing, running
  <1>0. stage = "type" /\ stage' \in {"route", "refused"} /\ at = Len(arms) + 1 /\ at' = 1 /\ Len(arms) \in Nat
    BY DEF Shapes
  <1>1. Shapes'
    BY <1>0, SameResolution DEF Shapes, Unemitted, After
  <1>2. CoverageSoFar'
    BY <1>0 DEF CoverageSoFar, Covered, Catches, Marks, Whole, Wildcard, Placeless
  <1>3. \A c \in {"pattern", "exhaustive"} : c \in diags' <=> c \in diags
    BY DEF JoinErrors
  <1>4. DiagsSoFar'
    BY <1>0, <1>3 DEF DiagsSoFar, Whole, Matchable, Full, Shape, Variant, Literal
  <1>5. TypesSoFar'
    BY <1>0, <1>3 DEF TypesSoFar, TypedArms
  <1>6. JoinErrors' = JoinErrors /\ MatchTy' = MatchTy
    BY DEF JoinErrors, MatchTy, Mismatch, ValueArms, Candidate
  <1>7. Accepted'
    BY <1>6 DEF Accepted, After
  <1> QED BY <1>1, <1>2, <1>4, <1>5, <1>7

\* Once emitted, the analysis of a match stays as it is.
LEMMA EmittedKeeps ==
  ASSUME MatchParts, stage \in After, stage' \in After, UNCHANGED <<written, sema, typing>>,
         at' \in Nat, stage' = "route" => at' \in 1 .. Len(arms) + 1, stage' = "test" => at' # 0
  PROVE  MatchParts'
  <1> USE DEF MatchParts, written, sema, typing
  <1>0. stage \notin {"resolve", "cover", "type"} /\ stage' \notin {"resolve", "cover", "type"}
    BY DEF After
  <1>1. Shapes'
    BY <1>0, SameResolution DEF Shapes
  <1>2. CoverageSoFar'
    BY <1>0 DEF CoverageSoFar, Covered, Catches, Marks, Whole, Wildcard, Placeless
  <1>4. DiagsSoFar'
    BY <1>0 DEF DiagsSoFar, Whole, Matchable, Full, Shape, Variant, Literal
  <1>5. TypesSoFar'
    BY <1>0, SameResolution DEF TypesSoFar, TypedArms
  <1>6. JoinErrors' = JoinErrors /\ MatchTy' = MatchTy
    BY DEF JoinErrors, MatchTy, Mismatch, ValueArms, Candidate
  <1>7. Accepted'
    BY <1>6 DEF Accepted, After
  <1> QED BY <1>1, <1>2, <1>4, <1>5, <1>7
-----------------------------------------------------------------------------
(* Routing *)

\* How many arms have been routed, and what routing has made of them: an enum has
\* the first arm for each variant, a scalar the first wildcard and one test for
\* each literal before it, a shape all of its arms.
Routed == CASE stage \in Unemitted -> 0 [] stage = "route" -> at - 1 [] OTHER -> Len(arms)
Takes(i, k) == analysis[i].disc \in {Wildcard, Variant(k)}
EnumRouted ==
  on.ty.kind = "enum" =>
    /\ DOMAIN cases = DOMAIN on.ty.variants
    /\ \A k \in DOMAIN on.ty.variants :
         /\ cases[k] \in 0 .. Routed
         /\ cases[k] # 0 => Takes(cases[k], k)
         /\ \A i \in 1 .. Routed : Takes(i, k) => cases[k] # 0 /\ cases[k] <= i
DefaultRouted ==
  /\ default \in 0 .. Routed
  /\ default # 0 => analysis[default].disc = Wildcard
  /\ \A i \in 1 .. Routed : analysis[i].disc = Wildcard => default # 0 /\ default <= i
TestsRouted ==
  /\ tests \in Seq(Nat)
  /\ \A k \in 1 .. Len(tests) : /\ tests[k] \in 1 .. Routed /\ analysis[tests[k]].disc # Wildcard
                                /\ default # 0 => tests[k] < default
  /\ \A k, l \in 1 .. Len(tests) : analysis[tests[k]].disc = analysis[tests[l]].disc => k = l
  /\ \A i \in 1 .. Routed :
       \/ analysis[i].disc = Wildcard
       \/ default # 0 /\ default < i
       \/ \E k \in 1 .. Len(tests) : tests[k] <= i /\ analysis[tests[k]].disc = analysis[i].disc
ScalarRouted == on.ty.kind \in Scalars => DefaultRouted /\ TestsRouted
ShapeRouted  ==
  on.ty.kind = "struct" =>
    default = 0 /\ tests \in Seq(Nat) /\ Len(tests) = Routed /\ \A k \in 1 .. Routed : tests[k] = k
RoutingRight == EnumRouted /\ ScalarRouted /\ ShapeRouted

\* A match that is emitted has no broken pattern.
LEMMA EmittedWhole ==
  ASSUME MatchParts, stage \in After
  PROVE  Matchable /\ \A i \in 1 .. Len(arms) : Whole(i)
  BY DEF MatchParts, Accepted, DiagsSoFar, After

\* The discriminants of an arm that was resolved, whatever the value.
LEMMA ResolvedDisc ==
  ASSUME ScrutineeOK, NEW p, PatternOK(p), ~ResolveArm(p).broken
  PROVE  DiscOK(ResolveArm(p))
  <1>1. CASE p.kind = "variant"
    <2>1. Named(p.name) # {} /\ Named(p.name) \subseteq DOMAIN on.ty.variants
      BY <1>1 DEF ResolveArm, ResolveVariant, Broken, Named
    <2>2. PICK k \in DOMAIN on.ty.variants : TRUE
      BY <2>1
    <2>3. [variant |-> k].variant \in DOMAIN on.ty.variants
      BY <2>2
    <2> QED BY <1>1, <2>3, ResolveVar
  <1> QED BY <1>1, ResolveWild, ResolveLit, ResolveShape DEF PatternOK

\* So has every arm of a match that is emitted.
LEMMA EmittedDisc ==
  ASSUME MatchParts, stage \in After, NEW i \in 1 .. Len(arms)
  PROVE  DiscOK(analysis[i])
  <1>1. arms[i].pattern \in {arm.pattern : arm \in Arms} /\ analysis[i] = ResolveArm(arms[i].pattern)
        /\ on \in Scrutinees
    BY DEF MatchParts, Shapes
  <1>2. Whole(i)
    BY EmittedWhole
  <1> QED BY <1>1, <1>2, Assumed, ResolvedDisc DEF Whole

\* Until routing begins there is nothing to be right or wrong about.
LEMMA BeforeRouting ==
  ASSUME RoutingRight, stage \in Unemitted, UNCHANGED <<routing, on>>,
         stage' \in Unemitted \/ (stage' = "route" /\ at' = 1)
  PROVE  RoutingRight'
  <1> USE DEF routing
  <1>1. Routed = 0 /\ Routed' = 0
    BY DEF Routed, Unemitted
  <1>2. EnumRouted'
    BY <1>1 DEF RoutingRight, EnumRouted
  <1>3. on.ty.kind \in Scalars => default = 0 /\ tests = <<>>
    BY <1>1 DEF RoutingRight, ScalarRouted, DefaultRouted, TestsRouted
  <1>4. ScalarRouted'
    <2>1. SUFFICES ASSUME on.ty.kind \in Scalars PROVE DefaultRouted' /\ TestsRouted'
      BY DEF ScalarRouted
    <2>2. default' = 0 /\ tests' = <<>>
      BY <1>3, <2>1
    <2>3. DefaultRouted'
      BY <1>1, <2>2 DEF DefaultRouted
    <2>4. TestsRouted'
      BY <1>1, <2>2 DEF TestsRouted
    <2> QED BY <2>3, <2>4
  <1>5. ShapeRouted'
    BY <1>1 DEF RoutingRight, ShapeRouted
  <1> QED BY <1>2, <1>4, <1>5 DEF RoutingRight

\* When routing is done, it is right about all the arms, and stays.
LEMMA AfterRouting ==
  ASSUME MatchParts, RoutingRight, stage \in After, stage' \in After \ {"route"},
         stage = "route" => at = Len(arms) + 1, UNCHANGED <<written, sema, routing>>
  PROVE  RoutingRight'
  <1> USE DEF routing, written, sema
  <1>1. Routed' = Routed
    BY DEF Routed, Unemitted, After, MatchParts, Shapes
  <1> QED BY <1>1 DEF RoutingRight, EnumRouted, Takes, ScalarRouted, DefaultRouted, TestsRouted, ShapeRouted

\* What a routing step is.
LEMMA RouteStep ==
  ASSUME MatchParts, NEW kinds, Routing(kinds)
  PROVE  /\ MatchParts' /\ stage = "route" /\ stage' = "route"
         /\ UNCHANGED <<on, analysis>> /\ on.ty.kind \in kinds
         /\ at \in 1 .. Len(arms) /\ Routed = at - 1 /\ Routed' = at
         /\ \A i \in 1 .. at : i \in 1 .. at - 1 \/ i = at
  <1> USE DEF Routing, Walking, written, sema
  <1>1. stage = "route" /\ stage' = "route" /\ at \in 1 .. Len(arms) /\ at' = at + 1 /\ Len(arms) \in Nat
    BY DEF MatchParts, Shapes
  <1>2. MatchParts'
    BY <1>1, EmittedKeeps DEF After
  <1> QED BY <1>1, <1>2 DEF Routed, Unemitted
\* An arm for a variant takes it if no arm has.
LEMMA RouteVariantKeeps ==
  ASSUME MatchParts, RoutingRight, RouteVariant
  PROVE  RoutingRight'
  <1> DEFINE k == analysis[at].disc.variant
  <1>1. Routing({"enum"}) /\ analysis[at].disc # Wildcard
        /\ cases' = [cases EXCEPT ![k] = IF cases[k] = 0 THEN at ELSE cases[k]]
    BY DEF RouteVariant, Disc
  <1>2. /\ stage = "route" /\ UNCHANGED <<on, analysis>> /\ on.ty.kind = "enum"
        /\ at \in 1 .. Len(arms) /\ Routed = at - 1 /\ Routed' = at
        /\ \A i \in 1 .. at : i \in 1 .. at - 1 \/ i = at
    BY <1>1, RouteStep
  <1>3. k \in DOMAIN on.ty.variants /\ analysis[at].disc = Variant(k)
    <2>1. DiscOK(analysis[at])
      BY <1>2, EmittedDisc DEF After
    <2>2. PICK l \in DOMAIN on.ty.variants : analysis[at].disc = Variant(l)
      BY <1>1, <1>2, <2>1 DEF DiscOK, Scalars
    <2> QED BY <2>2 DEF Variant
  <1>4. \A l : Takes(at, l) <=> l = k
    BY <1>1, <1>3 DEF Takes, Variant
  <1> HIDE DEF k
  <1>5. EnumRouted
    BY DEF RoutingRight
  <1>6. DOMAIN cases' = DOMAIN cases /\ \A l \in DOMAIN cases : cases'[l] = IF l = k /\ cases[l] = 0 THEN at ELSE cases[l]
    BY <1>1
  <1>7. \A i, l : Takes(i, l)' <=> Takes(i, l)
    BY <1>2 DEF Takes
  <1>8. ASSUME NEW l \in DOMAIN on.ty.variants
        PROVE  /\ cases'[l] \in 0 .. at
               /\ cases'[l] # 0 => Takes(cases'[l], l)
               /\ \A i \in 1 .. at : Takes(i, l) => cases'[l] # 0 /\ cases'[l] <= i
    BY <1>2, <1>4, <1>5, <1>6, <1>8 DEF EnumRouted
  <1> QED BY <1>2, <1>5, <1>6, <1>7, <1>8 DEF RoutingRight, EnumRouted, ScalarRouted, ShapeRouted, Scalars

\* A wildcard takes the variants that are left.
LEMMA RouteWildcardKeeps ==
  ASSUME MatchParts, RoutingRight, RouteWildcard
  PROVE  RoutingRight'
  <1>1. Routing({"enum"}) /\ analysis[at].disc = Wildcard
        /\ cases' = [l \in DOMAIN cases |-> IF cases[l] = 0 THEN at ELSE cases[l]]
    BY DEF RouteWildcard, Disc
  <1>2. /\ stage = "route" /\ UNCHANGED <<on, analysis>> /\ on.ty.kind = "enum"
        /\ at \in 1 .. Len(arms) /\ Routed = at - 1 /\ Routed' = at
        /\ \A i \in 1 .. at : i \in 1 .. at - 1 \/ i = at
    BY <1>1, RouteStep
  <1>3. \A l : Takes(at, l)
    BY <1>1 DEF Takes
  <1>4. EnumRouted
    BY DEF RoutingRight
  <1>5. \A i, l : Takes(i, l)' <=> Takes(i, l)
    BY <1>2 DEF Takes
  <1>6. ASSUME NEW l \in DOMAIN on.ty.variants
        PROVE  /\ cases'[l] \in 0 .. at
               /\ cases'[l] # 0 => Takes(cases'[l], l)
               /\ \A i \in 1 .. at : Takes(i, l) => cases'[l] # 0 /\ cases'[l] <= i
    BY <1>1, <1>2, <1>3, <1>4, <1>6 DEF EnumRouted
  <1> QED BY <1>1, <1>2, <1>4, <1>5, <1>6 DEF RoutingRight, EnumRouted, ScalarRouted, ShapeRouted, Scalars

\* Every arm of a match on a shape is tried.
LEMMA RouteAnonKeeps ==
  ASSUME MatchParts, RoutingRight, RouteAnon
  PROVE  RoutingRight'
  <1>1. Routing({"struct"}) /\ tests' = Append(tests, at) /\ UNCHANGED <<cases, default>>
    BY DEF RouteAnon
  <1>2. /\ stage = "route" /\ UNCHANGED <<on, analysis>> /\ on.ty.kind = "struct"
        /\ at \in 1 .. Len(arms) /\ Routed = at - 1 /\ Routed' = at
        /\ \A i \in 1 .. at : i \in 1 .. at - 1 \/ i = at
    BY <1>1, RouteStep
  <1>3. ShapeRouted'
    BY <1>1, <1>2 DEF RoutingRight, ShapeRouted
  <1> QED BY <1>2, <1>3 DEF RoutingRight, EnumRouted, ScalarRouted, Scalars

\* A literal is tested once, and only before the first wildcard.
LEMMA RouteLiteralKeeps ==
  ASSUME MatchParts, RoutingRight, RouteLiteral
  PROVE  RoutingRight'
  <1>1. Routing(Scalars) /\ UNCHANGED cases
    BY DEF RouteLiteral
  <1>2. /\ stage = "route" /\ UNCHANGED <<on, analysis>> /\ on.ty.kind \in Scalars
        /\ at \in 1 .. Len(arms) /\ Routed = at - 1 /\ Routed' = at
        /\ \A i \in 1 .. at : i \in 1 .. at - 1 \/ i = at
    BY <1>1, RouteStep
  <1>3. DefaultRouted /\ TestsRouted
    BY <1>2 DEF RoutingRight, ScalarRouted
  <1>4. CASE analysis[at].disc = Wildcard
    <2>1. default' = (IF default = 0 THEN at ELSE default) /\ tests' = tests
      BY <1>4 DEF RouteLiteral, Disc
    <2>2. DefaultRouted'
      BY <1>2, <1>3, <1>4, <2>1 DEF DefaultRouted
    <2>3. TestsRouted'
      BY <1>2, <1>3, <1>4, <2>1 DEF TestsRouted, DefaultRouted
    <2> QED BY <1>2, <2>2, <2>3 DEF RoutingRight, EnumRouted, ScalarRouted, ShapeRouted, Scalars
  <1>5. CASE analysis[at].disc # Wildcard
    <2> DEFINE known == default # 0 \/ \E k \in 1 .. Len(tests) : analysis[tests[k]].disc = analysis[at].disc
    <2>1. default' = default /\ tests' = IF known THEN tests ELSE Append(tests, at)
      BY <1>3, <1>5 DEF RouteLiteral, Disc, TestsRouted
    <2>2. DefaultRouted'
      BY <1>2, <1>3, <1>5, <2>1 DEF DefaultRouted
    <2>3. ASSUME known PROVE TestsRouted'
      <3>1. tests' = tests
        BY <2>1, <2>3
      <3>2. \A k \in 1 .. Len(tests) : tests[k] \in 1 .. at - 1
        BY <1>2, <1>3 DEF TestsRouted
      <3>3. (default # 0 /\ default < at) \/ \E k \in 1 .. Len(tests) : tests[k] <= at /\ analysis[tests[k]].disc = analysis[at].disc
        BY <1>2, <1>3, <2>3, <3>2 DEF DefaultRouted
      <3> HIDE DEF known
      <3>4. \A k \in 1 .. Len(tests) : /\ tests[k] \in 1 .. at /\ analysis[tests[k]].disc # Wildcard
                                       /\ default # 0 => tests[k] < default
        BY <1>2, <1>3, <3>2 DEF TestsRouted
      <3>5. \A i \in 1 .. at :
              \/ analysis[i].disc = Wildcard
              \/ default # 0 /\ default < i
              \/ \E k \in 1 .. Len(tests) : tests[k] <= i /\ analysis[tests[k]].disc = analysis[i].disc
        BY <1>2, <1>3, <3>3 DEF TestsRouted
      <3>6. \A k, l \in 1 .. Len(tests) : analysis[tests[k]].disc = analysis[tests[l]].disc => k = l
        BY <1>3 DEF TestsRouted
      <3>7. default' = default /\ analysis' = analysis /\ Routed' = at /\ tests' \in Seq(Nat)
        BY <1>2, <1>3, <2>1, <3>1 DEF TestsRouted
      <3> QED BY <3>1, <3>4, <3>5, <3>6, <3>7 DEF TestsRouted
    <2>4. ASSUME ~known PROVE TestsRouted'
      <3>1. default = 0 /\ tests' = Append(tests, at)
            /\ \A k \in 1 .. Len(tests) : analysis[tests[k]].disc # analysis[at].disc
        BY <2>1, <2>4
      <3>2. /\ tests' \in Seq(Nat) /\ Len(tests) \in Nat /\ Len(tests') = Len(tests) + 1 /\ tests'[Len(tests')] = at
            /\ \A k \in 1 .. Len(tests) : tests'[k] = tests[k]
        BY <1>2, <1>3, <3>1 DEF TestsRouted
      <3>3. \A k \in 1 .. Len(tests') : k \in 1 .. Len(tests) \/ k = Len(tests')
        BY <3>2
      <3>4. \A k \in 1 .. Len(tests) : tests[k] \in 1 .. at - 1 /\ analysis[tests[k]].disc # Wildcard
        BY <1>2, <1>3 DEF TestsRouted
      <3> HIDE DEF known
      <3>5. \A k \in 1 .. Len(tests') : tests'[k] \in 1 .. at /\ analysis[tests'[k]].disc # Wildcard
        BY <1>2, <1>5, <3>2, <3>3, <3>4
      <3>6. \A k, l \in 1 .. Len(tests') : analysis[tests'[k]].disc = analysis[tests'[l]].disc => k = l
        <4>1. \A k, l \in 1 .. Len(tests) : analysis[tests[k]].disc = analysis[tests[l]].disc => k = l
          BY <1>3 DEF TestsRouted
        <4> QED BY <3>1, <3>2, <3>3, <4>1
      <3>7. \A i \in 1 .. at : analysis[i].disc = Wildcard
              \/ \E k \in 1 .. Len(tests') : tests'[k] <= i /\ analysis[tests'[k]].disc = analysis[i].disc
        <4>1. \A i \in 1 .. at - 1 : analysis[i].disc = Wildcard
                \/ \E k \in 1 .. Len(tests) : tests[k] <= i /\ analysis[tests[k]].disc = analysis[i].disc
          BY <1>2, <1>3, <3>1 DEF TestsRouted
        <4>2. 1 .. Len(tests) \subseteq 1 .. Len(tests') /\ Len(tests') \in 1 .. Len(tests') /\ at <= at
          BY <1>2, <3>2
        <4> QED BY <1>2, <3>2, <4>1, <4>2
      <3>8. default' = 0 /\ analysis' = analysis /\ Routed' = at /\ tests' \in Seq(Nat)
        BY <1>2, <2>1, <3>1, <3>2
      <3> QED BY <3>5, <3>6, <3>7, <3>8 DEF TestsRouted
    <2> HIDE DEF known
    <2>5. TestsRouted'
      BY <2>3, <2>4
    <2> QED BY <1>2, <2>2, <2>5 DEF RoutingRight, EnumRouted, ScalarRouted, ShapeRouted, Scalars
  <1> QED BY <1>4, <1>5
-----------------------------------------------------------------------------
(* The arm that runs *)

\* The arm accepts the value and no arm before it does.
First(i) ==
  /\ i \in 1 .. Len(arms) /\ Accepts(analysis[i], value)
  /\ \A j \in 1 .. i - 1 : ~Accepts(analysis[j], value)
Running ==
  /\ stage \in {"test", "enter", "body"} => value \in Values
  /\ stage = "test" /\ on.ty.kind \in Scalars \cup {"struct"} =>
       at \in 1 .. Len(tests) + 1 /\ \A k \in 1 .. at - 1 : ~Passes(tests[k])
  /\ stage \in {"enter", "body"} => First(at)
  /\ stage # "trap"
  /\ JoinHasResult
MatchInvariant == MatchParts /\ RoutingRight /\ Running

\* A value has a variant, and a scalar a slot.
LEMMA ValueShape ==
  ASSUME ScrutineeOK, NEW v \in Values
  PROVE  /\ v.variant \in DOMAIN on.ty.variants
         /\ on.ty.kind \in Scalars => v.slots[1] \in Shape(1).fields[1].holds
  <1>1. PICK k \in DOMAIN on.ty.variants : v \in {[variant |-> k, slots |-> s] : s \in Slots(k)}
    BY DEF Values
  <1>2. v.variant = k /\ v.slots \in Slots(k)
    BY <1>1
  <1>3. \A i \in DOMAIN Shape(k).fields : v.slots[i] \in Shape(k).fields[i].holds
    BY <1>2 DEF Slots
  <1>4. on.ty.kind \in Scalars => k = 1 /\ 1 \in DOMAIN Shape(1).fields
    BY DEF ScrutineeOK
  <1> QED BY <1>2, <1>3, <1>4

\* The first arm that accepts the value is the first whose pattern matches, and
\* coverage has not warned about it.
LEMMA FirstMatches ==
  ASSUME MatchParts, stage \in After, value \in Values, NEW i, First(i)
  PROVE  LET fits == {j \in DOMAIN arms : Matched(arms[j].pattern, value)}
         IN  i \in fits \ warned /\ \A j \in fits : i <= j
  <1>1. DOMAIN arms = 1 .. Len(arms) /\ i \in 1 .. Len(arms) /\ Len(arms) \in Nat
    BY DEF First, MatchParts, Shapes
  <1>2. ScrutineeOK
    BY Assumed DEF MatchParts, Shapes
  <1>3. \A j \in 1 .. Len(arms) : Matched(arms[j].pattern, value) <=> Accepts(analysis[j], value)
    <2>1. TAKE j \in 1 .. Len(arms)
    <2>2. arms[j] \in Arms /\ analysis[j] = ResolveArm(arms[j].pattern) /\ ~ResolveArm(arms[j].pattern).broken
      BY EmittedWhole DEF MatchParts, Shapes, Whole
    <2> QED BY <1>2, <2>2, Assumed, ResolvedMeaning, ValueShape
  <1>4. i \notin warned
    <2>1. SUFFICES ASSUME i \in warned PROVE FALSE
      OBVIOUS
    <2>2. PICK j \in 1 .. i - 1 : Catches(j) \/ (Marks(j) /\ analysis[j].disc = analysis[i].disc)
      BY <2>1 DEF MatchParts, CoverageSoFar
    <2>3. ~Accepts(analysis[j], value) /\ Accepts(analysis[i], value)
      BY <2>2 DEF First
    <2>4. Marks(j) /\ analysis[j].disc = analysis[i].disc
      BY <2>2, <2>3 DEF Catches, Accepts
    <2>5. DiscOK(analysis[i]) /\ analysis[i].disc \notin {Wildcard, Placeless}
      BY <1>1, <2>4, EmittedDisc DEF Marks
    <2>6. on.ty.kind # "struct"
      BY <2>5 DEF DiscOK, Scalars
    <2> QED BY <2>3, <2>4, <2>5, <2>6 DEF Accepts
  <1>5. \A j \in 1 .. Len(arms) : Accepts(analysis[j], value) => i <= j
    <2>1. \A j \in 1 .. Len(arms) : i <= j \/ j \in 1 .. i - 1
      BY <1>1
    <2> QED BY <2>1 DEF First
  <1> QED BY <1>1, <1>3, <1>4, <1>5 DEF First

\* An enum gets to the arm of its variant.
LEMMA SwitchFirst ==
  ASSUME MatchInvariant, Switch
  PROVE  stage' = "enter" /\ First(at')
  <1>1. stage = "test" /\ on.ty.kind = "enum" /\ value \in Values /\ Enter(cases[value.variant])
        /\ stage \in After /\ ScrutineeOK
    BY Assumed DEF Switch, Testing, MatchInvariant, Running, After, MatchParts, Shapes
  <1> DEFINE k == value.variant
  <1>2. k \in DOMAIN on.ty.variants
    BY <1>1, ValueShape
  <1>3. /\ cases[k] \in 0 .. Len(arms)
        /\ cases[k] # 0 => Takes(cases[k], k)
        /\ \A i \in 1 .. Len(arms) : Takes(i, k) => cases[k] # 0 /\ cases[k] <= i
    BY <1>1, <1>2 DEF MatchInvariant, RoutingRight, EnumRouted, Routed, Unemitted
  <1>4. \A i : Accepts(analysis[i], value) <=> Takes(i, k)
    BY <1>1 DEF Accepts, Takes, Scalars
  <1>5. cases[k] # 0
    <2>1. wild \/ Full
      BY <1>1 DEF MatchInvariant, MatchParts, Accepted, DiagsSoFar, After
    <2>2. \E i \in 1 .. Len(arms) : Takes(i, k)
      <3>1. CASE wild
        BY <1>1, <3>1 DEF MatchInvariant, MatchParts, CoverageSoFar, Covered, Catches, Takes
      <3>2. CASE Full
        <4>1. Variant(k) \in seen
          BY <1>1, <1>2, <3>2 DEF Full
        <4> QED BY <1>1, <4>1 DEF MatchInvariant, MatchParts, CoverageSoFar, Covered, Takes
      <3> QED BY <2>1, <3>1, <3>2
    <2> QED BY <1>3, <2>2
  <1>6. stage' = "enter" /\ at' = cases[k]
    BY <1>1, <1>5 DEF Enter
  <1> HIDE DEF k
  <1>7. /\ cases[k] \in 1 .. Len(arms) /\ Takes(cases[k], k)
        /\ \A j \in 1 .. cases[k] - 1 : j \in 1 .. Len(arms) /\ ~(cases[k] <= j)
    BY <1>3, <1>5 DEF MatchInvariant, MatchParts, Shapes
  <1> QED BY <1>3, <1>4, <1>6, <1>7 DEF First

\* A test of a scalar that passes is of the first arm for the value.
LEMMA LiteralFirst ==
  ASSUME MatchInvariant, stage = "test", on.ty.kind \in Scalars, at \in 1 .. Len(tests), Passes(tests[at])
  PROVE  First(tests[at])
  <1> DEFINE l == Literal(value.slots[1])
             t == tests[at]
  <1>1. TestsRouted /\ DefaultRouted /\ Routed = Len(arms) /\ Len(arms) \in Nat
    BY DEF MatchInvariant, RoutingRight, ScalarRouted, Routed, Unemitted, MatchParts, Shapes
  <1>2. t \in 1 .. Len(arms) /\ analysis[t].disc # Wildcard /\ (default # 0 => t < default)
    BY <1>1 DEF TestsRouted
  <1>3. \A i : Passes(i) <=> analysis[i].disc = l
    BY DEF Passes, Scalars
  <1>4. \A i : Accepts(analysis[i], value) <=> analysis[i].disc \in {Wildcard, l}
    BY DEF Accepts, Scalars
  <1> HIDE DEF l
  <1>5. ASSUME NEW j \in 1 .. t - 1 PROVE analysis[j].disc \notin {Wildcard, l}
    <2>1. j \in 1 .. Len(arms) /\ j < t
      BY <1>2
    <2>2. analysis[j].disc # Wildcard /\ ~(default # 0 /\ default < j)
      BY <1>1, <1>2, <2>1 DEF DefaultRouted
    <2>3. PICK k \in 1 .. Len(tests) : tests[k] <= j /\ analysis[tests[k]].disc = analysis[j].disc
      BY <1>1, <2>1, <2>2 DEF TestsRouted
    <2>4. analysis[j].disc = l => k = at
      BY <1>1, <1>3, <2>3 DEF TestsRouted
    <2> QED BY <1>2, <2>1, <2>2, <2>3, <2>4
  <1> QED BY <1>2, <1>3, <1>4, <1>5 DEF First
\* When no test passes there is a wildcard, and it is the first arm for the value.
LEMMA DefaultFirst ==
  ASSUME MatchInvariant, stage = "test", on.ty.kind \in Scalars, \A k \in 1 .. Len(tests) : ~Passes(tests[k])
  PROVE  default # 0 /\ First(default)
  <1> DEFINE l == Literal(value.slots[1])
  <1>1. TestsRouted /\ DefaultRouted /\ Routed = Len(arms) /\ Len(arms) \in Nat
    BY DEF MatchInvariant, RoutingRight, ScalarRouted, Routed, Unemitted, MatchParts, Shapes
  <1>2. ScrutineeOK /\ value \in Values /\ diags = {} /\ (wild \/ Full) /\ Covered = Len(arms)
    BY Assumed DEF MatchInvariant, Running, MatchParts, Shapes, Accepted, DiagsSoFar, After, Covered
  <1>3. \A i : Passes(i) <=> analysis[i].disc = l
    BY DEF Passes, Scalars
  <1>4. \A i : Accepts(analysis[i], value) <=> analysis[i].disc \in {Wildcard, l}
    BY DEF Accepts, Scalars
  <1>5. Full => l \in seen
    BY <1>2, ValueShape DEF Full, Scalars
  <1>6. l # Wildcard
    BY DEF Literal, Wildcard
  <1> HIDE DEF l
  <1>7. \A i \in 1 .. Len(arms) : analysis[i].disc = l => default # 0 /\ default < i
    BY <1>1, <1>3, <1>6 DEF TestsRouted
  <1>8. default # 0
    <2>1. CASE wild
      BY <1>1, <1>2, <2>1 DEF MatchInvariant, MatchParts, CoverageSoFar, Catches, DefaultRouted
    <2>2. CASE Full
      <3>1. \E i \in 1 .. Len(arms) : analysis[i].disc = l
        BY <1>2, <1>5, <2>2 DEF MatchInvariant, MatchParts, CoverageSoFar
      <3> QED BY <1>7, <3>1
    <2> QED BY <1>2, <2>1, <2>2
  <1>9. default \in 1 .. Len(arms) /\ analysis[default].disc = Wildcard
    BY <1>1, <1>8 DEF DefaultRouted
  <1>10. ASSUME NEW j \in 1 .. default - 1 PROVE analysis[j].disc \notin {Wildcard, l}
    <2>1. j \in 1 .. Len(arms) /\ ~(default <= j) /\ ~(default < j)
      BY <1>9
    <2> QED BY <1>1, <1>7, <2>1 DEF DefaultRouted
  <1> QED BY <1>4, <1>8, <1>9, <1>10 DEF First

\* What the guards of an arm of a shape ask is what the arm accepts.
LEMMA ShapeAccepts ==
  ASSUME MatchParts, stage \in After, on.ty.kind = "struct", NEW i \in 1 .. Len(arms)
  PROVE  Accepts(analysis[i], value) <=> Passes(i)
  <1>1. analysis[i].disc = Wildcard => analysis[i].guards = {}
    BY EmittedDisc DEF DiscOK, Scalars, Wildcard, Placeless
  <1> QED BY <1>1 DEF Accepts, Passes, Scalars

\* A value of a scalar or a shape gets to its arm, or to the next test.
LEMMA TestKeeps ==
  ASSUME MatchInvariant, Test
  PROVE  \/ stage' = "enter" /\ First(at')
         \/ stage' = "test" /\ at' \in 1 .. Len(tests) + 1 /\ \A k \in 1 .. at' - 1 : ~Passes(tests[k])
  <1>1. /\ stage = "test" /\ stage \in After /\ on.ty.kind \in Scalars \cup {"struct"}
        /\ at \in 1 .. Len(tests) + 1 /\ \A k \in 1 .. at - 1 : ~Passes(tests[k])
    BY DEF Test, Testing, MatchInvariant, Running, After
  <1>2. on.ty.kind \in Scalars => tests \in Seq(Nat)
    BY DEF MatchInvariant, RoutingRight, ScalarRouted, TestsRouted
  <1>3. on.ty.kind = "struct" =>
          default = 0 /\ tests \in Seq(Nat) /\ Len(tests) = Len(arms) /\ \A k \in 1 .. Len(arms) : tests[k] = k
    BY <1>1 DEF MatchInvariant, RoutingRight, ShapeRouted, Routed, Unemitted
  <1>4. Len(tests) \in Nat
    BY <1>1, <1>2, <1>3
  <1>5. CASE at <= Len(tests) /\ ~Passes(tests[at])
    <2>1. stage' = "test" /\ at' = at + 1
      BY <1>1, <1>4, <1>5 DEF Test
    <2>2. \A k \in 1 .. at : k \in 1 .. at - 1 \/ k = at
      BY <1>1, <1>4
    <2> QED BY <1>1, <1>4, <1>5, <2>1, <2>2
  <1>6. CASE at <= Len(tests) /\ Passes(tests[at])
    <2>1. Enter(tests[at]) /\ at \in 1 .. Len(tests)
      BY <1>1, <1>4, <1>6 DEF Test
    <2>2. First(tests[at]) /\ tests[at] # 0
      <3>1. CASE on.ty.kind \in Scalars
        BY <1>1, <1>6, <2>1, <3>1, LiteralFirst DEF First
      <3>2. CASE on.ty.kind = "struct"
        <4>1. tests[at] = at /\ at \in 1 .. Len(arms) /\ \A j \in 1 .. at - 1 : j \in 1 .. Len(arms) /\ tests[j] = j
          BY <1>3, <2>1, <3>2
        <4> QED BY <1>1, <1>6, <3>2, <4>1, ShapeAccepts DEF First, MatchInvariant
      <3> QED BY <1>1, <3>1, <3>2
    <2> QED BY <2>1, <2>2 DEF Enter
  <1>7. CASE at > Len(tests)
    <2>1. Enter(default)
      BY <1>1, <1>7 DEF Test
    <2>2. \A k \in 1 .. Len(tests) : ~Passes(tests[k])
      BY <1>1, <1>4, <1>7
    <2>3. CASE on.ty.kind \in Scalars
      BY <1>1, <2>1, <2>2, <2>3, DefaultFirst DEF Enter
    <2>4. CASE on.ty.kind = "struct"
      <3>1. \A i \in 1 .. Len(arms) : ~Accepts(analysis[i], value)
        BY <1>1, <1>3, <2>2, <2>4, ShapeAccepts DEF MatchInvariant
      <3>2. wild \/ Full
        BY <1>1 DEF MatchInvariant, MatchParts, Accepted, DiagsSoFar
      <3>3. ~Full
        BY <2>4 DEF Full
      <3>4. \E i \in 1 .. Len(arms) : Catches(i)
        BY <1>1, <3>2, <3>3 DEF MatchInvariant, MatchParts, CoverageSoFar, Covered
      <3> QED BY <3>1, <3>4 DEF Catches, Accepts
    <2> QED BY <1>1, <2>3, <2>4
  <1> QED BY <1>1, <1>4, <1>5, <1>6, <1>7
\* What leaves an arm for the join has the type of the match.
LEMMA LeaveKeeps ==
  ASSUME MatchInvariant, Leave
  PROVE  JoinHasResult'
  <1> USE DEF sema, typing
  <1>1. /\ stage = "body" /\ at \in DOMAIN typed /\ typed[at] \in Types
        /\ JoinErrors = {} /\ result = MatchTy /\ result' = result
    <2>1. stage = "body" /\ at \in 1 .. Len(arms) /\ result' = result
      BY DEF Leave, MatchInvariant, Running, First
    <2>2. diags = {} /\ JoinErrors = {} /\ result = MatchTy
      BY <2>1 DEF MatchInvariant, MatchParts, Accepted, After
    <2>3. typed \in Seq(Types) /\ Len(typed) = Len(arms)
      BY <2>1, <2>2 DEF MatchInvariant, MatchParts, TypesSoFar, TypedArms
    <2> QED BY <2>1, <2>2, <2>3
  <1>2. /\ typed[at].class \in {"value", "void", "falls", "diverges"}
        /\ typed[at].class = "value" => typed[at].ty # "never"
    BY <1>1 DEF Types, Class
  <1>3. /\ stage' = IF typed[at].class = "diverges" THEN "left" ELSE "join"
        /\ slot' = IF typed[at].class = "value" THEN typed[at].ty ELSE slot
    BY DEF Leave
  <1>4. CASE typed[at].class = "diverges"
    BY <1>3, <1>4 DEF JoinHasResult
  <1>5. CASE typed[at].class # "diverges" /\ ValueArms = {}
    BY <1>1, <1>5 DEF MatchTy, JoinHasResult
  <1>6. CASE typed[at].class # "diverges" /\ ValueArms # {}
    <2>1. ~Mismatch /\ typed[at].class # "falls"
      BY <1>1, <1>6 DEF JoinErrors
    <2>2. typed[at].class = "value" /\ typed[at].ty = Candidate
      BY <1>1, <1>2, <1>6, <2>1 DEF Mismatch
    <2>3. result = Candidate
      BY <1>1, <1>6 DEF MatchTy
    <2> QED BY <1>1, <1>2, <1>3, <2>2, <2>3 DEF JoinHasResult
  <1> QED BY <1>4, <1>5, <1>6

\* The first state.
LEMMA InitMatch == Init => MatchInvariant
  <1> SUFFICES ASSUME Init PROVE MatchInvariant
    OBVIOUS
  <1>1. MatchParts
    BY DEF Init, MatchParts, Shapes, Scrutinees, Unemitted, CoverageSoFar, Covered, DiagsSoFar, TypesSoFar,
           TypedArms, Accepted, After
  <1>2. Routed = 0
    BY DEF Init, Routed, Unemitted
  <1>3. EnumRouted /\ ShapeRouted
    BY <1>2 DEF Init, EnumRouted, ShapeRouted
  <1>4. ScalarRouted
    BY <1>2 DEF Init, ScalarRouted, DefaultRouted, TestsRouted
  <1>5. Running
    BY DEF Init, Running, JoinHasResult
  <1> QED BY <1>1, <1>3, <1>4, <1>5 DEF MatchInvariant, RoutingRight

\* Every step keeps the invariant.
LEMMA StepKeepsMatch == MatchInvariant /\ [Next]_vars => MatchInvariant'
  <1> SUFFICES ASSUME MatchInvariant, [Next]_vars PROVE MatchInvariant'
    OBVIOUS
  <1> USE DEF written, sema, typing, routing, running
  <1>0. MatchParts /\ RoutingRight /\ Running
    BY DEF MatchInvariant
  <1>1. ASSUME NEW m \in Matches, NEW a \in m.arms, Resolve(a) PROVE MatchInvariant'
    <2>1. stage = "resolve" /\ stage' = "resolve" /\ UNCHANGED <<on, routing>>
      BY <1>1 DEF Resolve
    <2> QED BY <1>0, <1>1, <2>1, ResolveKeeps, BeforeRouting DEF Unemitted, Running, JoinHasResult, MatchInvariant
  <1>2. CASE ResolveEnd
    <2>1. stage = "resolve" /\ stage' = "cover" /\ UNCHANGED <<on, routing>>
      BY <1>2 DEF ResolveEnd
    <2> QED BY <1>0, <1>2, <2>1, ResolveEndKeeps, BeforeRouting DEF Unemitted, Running, JoinHasResult, MatchInvariant
  <1>3. CASE CoverArm
    <2>1. stage = "cover" /\ stage' = "cover" /\ UNCHANGED <<on, routing>>
      BY <1>3 DEF CoverArm, Walking
    <2> QED BY <1>0, <1>3, <2>1, CoverArmKeeps, BeforeRouting DEF Unemitted, Running, JoinHasResult, MatchInvariant
  <1>4. CASE CoverEnd
    <2>1. stage = "cover" /\ stage' = "type" /\ UNCHANGED <<on, routing>>
      BY <1>4 DEF CoverEnd
    <2> QED BY <1>0, <1>4, <2>1, CoverEndKeeps, BeforeRouting DEF Unemitted, Running, JoinHasResult, MatchInvariant
  <1>5. CASE TypeArm
    <2>1. stage = "type" /\ stage' = "type" /\ UNCHANGED <<on, routing>>
      BY <1>5 DEF TypeArm, Walking
    <2> QED BY <1>0, <1>5, <2>1, TypeArmKeeps, BeforeRouting DEF Unemitted, Running, JoinHasResult, MatchInvariant
  <1>6. CASE TypeEnd
    <2>1. stage = "type" /\ stage' \in {"route", "refused"} /\ at' = 1 /\ UNCHANGED <<on, routing>>
      BY <1>6 DEF TypeEnd
    <2> QED BY <1>0, <1>6, <2>1, TypeEndKeeps, BeforeRouting DEF Unemitted, Running, JoinHasResult, MatchInvariant
  <1>7. CASE RouteVariant \/ RouteWildcard \/ RouteLiteral \/ RouteAnon
    <2>1. \E kinds : Routing(kinds)
      BY <1>7 DEF RouteVariant, RouteWildcard, RouteLiteral, RouteAnon
    <2>2. MatchParts' /\ stage' = "route"
      BY <1>0, <2>1, RouteStep
    <2>3. RoutingRight'
      BY <1>0, <1>7, RouteVariantKeeps, RouteWildcardKeeps, RouteLiteralKeeps, RouteAnonKeeps
    <2> QED BY <2>2, <2>3 DEF Running, JoinHasResult, MatchInvariant
  <1>8. CASE Dispatch
    <2>1. /\ stage = "route" /\ stage' = "test" /\ at = Len(arms) + 1 /\ at' = 1 /\ value' \in Values
          /\ UNCHANGED <<written, sema, typing, routing>>
      BY <1>8 DEF Dispatch
    <2>2. MatchParts' /\ RoutingRight'
      BY <1>0, <2>1, EmittedKeeps, AfterRouting DEF After
    <2>3. on.ty.kind \in Scalars \cup {"struct"} => tests \in Seq(Nat)
      BY <1>0 DEF RoutingRight, ScalarRouted, TestsRouted, ShapeRouted
    <2>4. Values' = Values
      BY <2>1 DEF Values, Slots, Shape
    <2> QED BY <2>1, <2>2, <2>3, <2>4 DEF Running, JoinHasResult, MatchInvariant
  <1>9. CASE Switch \/ Test
    <2>1. stage = "test" /\ UNCHANGED <<written, sema, typing, routing, running>>
      BY <1>9 DEF Switch, Test, Testing
    <2>2. \/ stage' = "enter" /\ First(at')
          \/ /\ stage' = "test" /\ on.ty.kind # "enum" /\ at' \in 1 .. Len(tests) + 1
             /\ \A k \in 1 .. at' - 1 : ~Passes(tests[k])
      BY <1>9, SwitchFirst, TestKeeps DEF Test, Testing, Scalars
    <2>3. at' \in Nat /\ at' # 0
      <3>1. on.ty.kind \in Scalars \cup {"enum", "struct"}
        BY <1>9 DEF Switch, Test, Testing
      <3>2. on.ty.kind # "enum" => tests \in Seq(Nat)
        BY <1>0, <3>1 DEF RoutingRight, ScalarRouted, TestsRouted, ShapeRouted
      <3>3. Len(arms) \in Nat /\ arms' = arms
        BY <1>0, <2>1 DEF MatchParts, Shapes
      <3> QED BY <2>2, <3>2, <3>3 DEF First
    <2>4. MatchParts' /\ RoutingRight'
      BY <1>0, <2>1, <2>2, <2>3, EmittedKeeps, AfterRouting DEF After
    <2>5. /\ Values' = Values /\ \A k : Passes(k)' <=> Passes(k)
          /\ \A i : Accepts(analysis[i], value)' <=> Accepts(analysis[i], value)
      BY <2>1 DEF Values, Slots, Shape, Passes, Accepts, Literal, Wildcard, Variant
    <2>6. stage' = "enter" => First(at)'
      BY <2>1, <2>2, <2>5 DEF First
    <2> QED BY <1>0, <2>1, <2>2, <2>4, <2>5, <2>6 DEF Running, JoinHasResult, MatchInvariant
  <1>10. CASE Bind \/ Leave
    <2>1. /\ stage \in {"enter", "body"} /\ stage' \in {"body", "join", "left"} /\ (Bind => stage' = "body")
          /\ (Leave => stage' # "body") /\ UNCHANGED <<at, value, written, sema, typing, routing>>
      BY <1>10 DEF Bind, Leave
    <2>2. MatchParts' /\ RoutingRight'
      BY <1>0, <2>1, EmittedKeeps, AfterRouting DEF After, MatchParts, Shapes
    <2>3. Values' = Values /\ \A i : Accepts(analysis[i], value)' <=> Accepts(analysis[i], value)
      BY <2>1 DEF Values, Slots, Shape, Accepts, Literal, Wildcard, Variant
    <2>4. First(at) => First(at)'
      BY <2>1, <2>3 DEF First
    <2>5. stage' = "join" => JoinHasResult'
      BY <1>10, <2>1, LeaveKeeps
    <2>6. JoinHasResult'
      BY <2>5 DEF JoinHasResult
    <2>7. stage' = "body" => First(at)' /\ value' \in Values'
      BY <1>0, <1>10, <2>1, <2>3, <2>4 DEF Running
    <2>8. stage' \notin {"test", "enter", "trap"}
      BY <2>1
    <2>9. Running'
      BY <2>6, <2>7, <2>8 DEF Running
    <2> QED BY <2>2, <2>9 DEF MatchInvariant
  <1>11. CASE UNCHANGED vars
    <2>1. MatchParts'
      <3>1. Shapes'
        BY <1>0, <1>11, SameResolution DEF vars, MatchParts, Shapes
      <3>2. CoverageSoFar'
        BY <1>0, <1>11 DEF vars, MatchParts, CoverageSoFar, Covered, Catches, Marks, Whole, Wildcard, Placeless
      <3>3. DiagsSoFar'
        BY <1>0, <1>11 DEF vars, MatchParts, DiagsSoFar, Whole, Matchable, Full, Shape, Variant, Literal
      <3>4. TypesSoFar'
        BY <1>0, <1>11 DEF vars, MatchParts, TypesSoFar, TypedArms
      <3>5. JoinErrors' = JoinErrors /\ MatchTy' = MatchTy
        BY <1>11 DEF vars, JoinErrors, MatchTy, Mismatch, ValueArms, Candidate
      <3>6. Accepted'
        BY <1>0, <1>11, <3>5 DEF vars, MatchParts, Accepted
      <3> QED BY <3>1, <3>2, <3>3, <3>4, <3>6 DEF MatchParts
    <2>2. RoutingRight'
      BY <1>0, <1>11
         DEF vars, RoutingRight, EnumRouted, Takes, ScalarRouted, DefaultRouted, TestsRouted, ShapeRouted, Routed,
             Wildcard, Variant
    <2>3. Running'
      BY <1>0, <1>11
         DEF vars, Running, First, Accepts, Passes, Values, Slots, Shape, JoinHasResult, Wildcard, Variant, Literal
    <2> QED BY <2>1, <2>2, <2>3 DEF MatchInvariant
  <1> QED BY <1>1, <1>2, <1>3, <1>4, <1>5, <1>6, <1>7, <1>8, <1>9, <1>10, <1>11 DEF Next, Done

-----------------------------------------------------------------------------
(* The theorems *)

\* The invariant holds for any scrutinees and arms.
LEMMA MatchInvariantHolds == Spec => []MatchInvariant
  BY InitMatch, StepKeepsMatch, PTL DEF Spec

\* The arm that runs is the first one written whose pattern the value matches;
\* there always is one, and no warning was given about it.
THEOREM FirstArmRuns == Spec => []FirstMatchRuns
  <1>1. MatchInvariant => FirstMatchRuns
    BY FirstMatches DEF MatchInvariant, Running, FirstMatchRuns, After
  <1> QED BY <1>1, MatchInvariantHolds, PTL

\* The slot at the join holds a value of the type of the match.
THEOREM ResultAtJoin == Spec => []JoinHasResult
  <1>1. MatchInvariant => JoinHasResult
    BY DEF MatchInvariant, Running
  <1> QED BY <1>1, MatchInvariantHolds, PTL

\* A match on an enum or a bool that is refused for not being exhaustive has a
\* value no arm matches.
THEOREM RefusalsRight == Spec => []RefusedForReason
  <1>1. MatchInvariant => RefusedForReason
    <2>1. SUFFICES ASSUME MatchInvariant, stage = "refused", diags = {"exhaustive"}, on.ty.kind \in {"enum", "bool"}
                   PROVE  \E v \in Values : \A i \in DOMAIN arms : ~Matched(arms[i].pattern, v)
      BY DEF RefusedForReason
    <2>2. ScrutineeOK /\ MatchParts /\ Covered = Len(arms) /\ DOMAIN arms = 1 .. Len(arms)
      BY <2>1, Assumed DEF MatchInvariant, MatchParts, Shapes, Covered
    <2>3. /\ ~wild /\ ~Full /\ \A i \in 1 .. Len(arms) : Whole(i) /\ ~Catches(i)
          /\ \A i \in 1 .. Len(arms) : Marks(i) => analysis[i].disc \in seen
      BY <2>1, <2>2 DEF MatchParts, DiagsSoFar, CoverageSoFar
    <2>4. PICK v \in Values : /\ on.ty.kind = "enum" => Variant(v.variant) \notin seen
                              /\ on.ty.kind = "bool" => Literal(v.slots[1]) \notin seen
      <3>1. PICK k \in DOMAIN on.ty.variants : on.ty.kind = "enum" => Variant(k) \notin seen
        BY <2>1, <2>2, <2>3 DEF Full, ScrutineeOK, Scalars
      <3>2. on.ty.kind = "bool" => k = 1 /\ \E l \in Shape(1).fields[1].holds : Literal(l) \notin seen
        BY <2>2, <2>3 DEF Full, ScrutineeOK, Scalars
      <3> DEFINE fields == Shape(k).fields
                 hole(i) == CHOOSE l \in fields[i].holds : on.ty.kind = "bool" /\ i = 1 => Literal(l) \notin seen
                 s == [i \in DOMAIN fields |-> hole(i)]
      <3>3. \A i \in DOMAIN fields : hole(i) \in fields[i].holds /\ (on.ty.kind = "bool" /\ i = 1 => Literal(hole(i)) \notin seen)
        BY <2>2, <3>2 DEF ScrutineeOK
      <3> HIDE DEF hole
      <3>4. s \in Slots(k)
        BY <3>3 DEF Slots
      <3>5. on.ty.kind = "bool" => 1 \in DOMAIN fields
        BY <2>2, <3>2 DEF ScrutineeOK, Scalars
      <3>6. [variant |-> k, slots |-> s] \in Values
        BY <3>4 DEF Values
      <3> QED BY <3>1, <3>3, <3>5, <3>6
    <2>5. ASSUME NEW i \in 1 .. Len(arms) PROVE ~Matched(arms[i].pattern, v)
      <3>1. arms[i] \in Arms /\ analysis[i] = ResolveArm(arms[i].pattern) /\ ~analysis[i].broken
        BY <2>2, <2>3 DEF MatchParts, Shapes, Whole
      <3>2. DiscOK(analysis[i]) /\ (Matched(arms[i].pattern, v) <=> Accepts(analysis[i], v))
        BY <2>2, <3>1, Assumed, ResolvedMeaning, ValueShape
      <3>3. analysis[i].disc # Wildcard /\ (analysis[i].disc # Placeless => analysis[i].disc \in seen)
        BY <2>3, <3>1 DEF Catches, Marks, Whole
      <3>4. Variant(v.variant) # Placeless /\ Literal(v.slots[1]) # Placeless
        BY DEF Variant, Literal, Placeless
      <3> QED BY <2>1, <2>4, <3>2, <3>3, <3>4 DEF Accepts, Scalars
    <2> QED BY <2>2, <2>5
  <1> QED BY <1>1, MatchInvariantHolds, PTL

-----------------------------------------------------------------------------
(* Bindings and the tokens they are owned through *)

\* The arguments of a pattern are a list; only variants and shapes have some.
ArgsOK(p) ==
  /\ p.kind \in {"wild", "literal"} => p.args = <<>>
  /\ DOMAIN p.args \subseteq Nat /\ IsFiniteSet(DOMAIN p.args)
\* Every arm that can be written has such a pattern.
LEMMA ArgsAssumed == \A arm \in Arms : ArgsOK(arm.pattern)
  BY MatchesAssumption DEF Arms, ArgsOK

\* A pattern binds some of its arguments, whatever it resolves to.
LEMMA BindsSome ==
  ASSUME NEW p, PatternOK(p)
  PROVE  DOMAIN ResolveArm(p).binds \subseteq DOMAIN p.args
  <1> DEFINE B == ResolveArm(p).binds
  <1>1. DOMAIN <<>> = {}
    OBVIOUS
  <1>2. \A fields : DOMAIN Bindings(fields, p.form, p.args) \subseteq DOMAIN p.args
    BY DEF Bindings
  <1>3. Broken.binds = <<>> /\ \A d, b, g : Found(d, b, g).binds = b
    BY DEF Broken, Found
  <1>4. ResolveLiteral(p).binds = <<>>
    BY <1>3 DEF ResolveLiteral
  <1>5. DOMAIN ResolveVariant(p).binds \subseteq DOMAIN p.args
    BY <1>1, <1>2, <1>3 DEF ResolveVariant
  <1>6. DOMAIN ResolveAnon(p).binds \subseteq DOMAIN p.args
    BY <1>1, <1>2, <1>3 DEF ResolveAnon
  <1> QED BY <1>1, <1>3, <1>4, <1>5, <1>6 DEF ResolveArm, PatternOK

\* What an accepted value is bound through: the fields of its own variant.
LEMMA BindsMeaning ==
  ASSUME ScrutineeOK, NEW p, PatternOK(p), ArgsOK(p), ~ResolveArm(p).broken,
         NEW v, v.variant \in DOMAIN on.ty.variants, Accepts(ResolveArm(p), v)
  PROVE  ResolveArm(p).binds = Bindings(Shape(v.variant).fields, p.form, p.args)
  <1>1. ASSUME p.kind \in {"wild", "literal"}
        PROVE  \A fields : Bindings(fields, p.form, p.args) = <<>>
    <2>1. \A fields : DOMAIN Bindings(fields, p.form, p.args) \subseteq DOMAIN <<>>
      BY <1>1 DEF Bindings, ArgsOK
    <2>2. \A fields : Bindings(fields, p.form, p.args) = [i \in {} |-> {}]
      BY <2>1 DEF Bindings
    <2>3. <<>> = [i \in {} |-> {}]
      OBVIOUS
    <2> QED BY <2>2, <2>3
  <1>2. Broken.binds = <<>> /\ \A d, b, g : Found(d, b, g).binds = b /\ Found(d, b, g).disc = d
    BY DEF Broken, Found
  <1>3. CASE p.kind = "wild"
    BY <1>1, <1>2, <1>3 DEF ResolveArm, Broken
  <1>4. CASE p.kind = "literal"
    BY <1>1, <1>2, <1>4 DEF ResolveArm, ResolveLiteral
  <1>5. CASE p.kind = "variant"
    <2> DEFINE k == CHOOSE k \in Named(p.name) : TRUE
    <2>1. /\ ResolveArm(p) = Found(Variant(k), Bindings(Shape(k).fields, p.form, p.args), {})
          /\ on.ty.kind = "enum"
      BY <1>5 DEF ResolveArm, ResolveVariant, Broken
    <2> HIDE DEF k
    <2>2. Variant(k) # Wildcard /\ (Variant(k) = Variant(v.variant) => k = v.variant)
      BY DEF Variant, Wildcard
    <2>3. k = v.variant
      BY <1>2, <2>1, <2>2 DEF Accepts, Scalars
    <2> QED BY <1>2, <2>1, <2>3
  <1>6. CASE p.kind = "struct"
    <2>1. /\ ResolveArm(p).binds = Bindings(Shape(1).fields, p.form, p.args)
          /\ on.ty.kind = "struct"
      BY <1>2, <1>6 DEF ResolveArm, ResolveAnon, Broken
    <2>2. v.variant = 1
      BY <2>1 DEF ScrutineeOK
    <2> QED BY <2>1, <2>2
  <1> QED BY <1>3, <1>4, <1>5, <1>6 DEF PatternOK

\* Places of a finite set are ranked from 1, each by its own rank.
LEMMA Ranked ==
  ASSUME NEW S, S \subseteq Nat, IsFiniteSet(S), NEW k \in S
  PROVE  /\ Cardinality(S) \in Nat
         /\ Rank(S, k) \in 1 .. Cardinality(S)
         /\ \A l \in S : Rank(S, l) = Rank(S, k) => l = k
         /\ \A r \in 1 .. Cardinality(S) : \E l \in S : Rank(S, l) = r
  <1> DEFINE below(l) == {m \in S : m < l}
             n == Cardinality(S)
             rank == [l \in S |-> Rank(S, l)]
  <1>1. Cardinality(S) \in Nat
    BY FS_CardinalityType
  <1>2. ASSUME NEW l \in S PROVE IsFiniteSet(below(l)) /\ Cardinality(below(l)) \in Nat
    <2>1. IsFiniteSet(below(l))
      BY FS_Subset
    <2> QED BY <2>1, FS_CardinalityType
  <1>3. ASSUME NEW l \in S, NEW T, IsFiniteSet(T), below(l) \cup {l} \subseteq T
        PROVE  Cardinality(below(l)) + 1 <= Cardinality(T)
    <2>1. l \notin below(l)
      OBVIOUS
    <2>2. Cardinality(below(l) \cup {l}) = Cardinality(below(l)) + 1
      BY <1>2, <2>1, FS_AddElement
    <2>3. Cardinality(below(l) \cup {l}) <= Cardinality(T)
      BY <1>3, FS_Subset
    <2> QED BY <2>2, <2>3
  <1>4. ASSUME NEW l \in S PROVE Rank(S, l) \in 1 .. Cardinality(S)
    <2>1. Cardinality(below(l)) + 1 <= Cardinality(S)
      BY <1>3
    <2>2. Rank(S, l) = 1 + Cardinality(below(l))
      BY DEF Rank
    <2>3. Cardinality(below(l)) \in Nat
      BY <1>2
    <2> HIDE DEF below
    <2> QED BY <1>1, <2>1, <2>2, <2>3
  <1>5. ASSUME NEW l \in S, NEW m \in S, l < m PROVE Rank(S, l) < Rank(S, m)
    <2>1. below(l) \cup {l} \subseteq below(m)
      <3>1. l \in Nat /\ m \in Nat /\ \A q \in S : q \in Nat
        OBVIOUS
      <3>2. \A q \in S : q < l => q < m
        BY <1>5, <3>1
      <3> QED BY <1>5, <3>2
    <2>2. Cardinality(below(l)) + 1 <= Cardinality(below(m))
      BY <1>2, <1>3, <2>1
    <2>3. Rank(S, l) = 1 + Cardinality(below(l)) /\ Rank(S, m) = 1 + Cardinality(below(m))
      BY DEF Rank
    <2>4. Cardinality(below(l)) \in Nat /\ Cardinality(below(m)) \in Nat
      BY <1>2
    <2> HIDE DEF below
    <2> QED BY <2>2, <2>3, <2>4
  <1>6. ASSUME NEW l \in S, NEW m \in S, Rank(S, l) = Rank(S, m) PROVE l = m
    <2>1. Rank(S, m) \in Nat /\ l \in Nat /\ m \in Nat
      BY <1>1, <1>4
    <2>2. l < m => Rank(S, l) < Rank(S, m)
      BY <1>5
    <2>3. m < l => Rank(S, m) < Rank(S, l)
      BY <1>5
    <2> QED BY <1>6, <2>1, <2>2, <2>3
  <1>7. \A r \in 1 .. n : \E l \in S : rank[l] = r
    <2>1. 1 \in Int /\ n \in Int
      BY <1>1
    <2>2. IsFiniteSet(1 .. n) /\ Cardinality(1 .. n) = IF 1 > n THEN 0 ELSE n - 1 + 1
      BY <2>1, FS_Interval, Zenon
    <2>3. Cardinality(1 .. n) = Cardinality(S)
      BY <1>1, <2>2
    <2>4. rank \in Injection(S, 1 .. n)
      BY <1>4, <1>6 DEF Injection, IsInjective
    <2> HIDE DEF n, rank
    <2>5. rank \in Surjection(S, 1 .. n)
      BY <2>2, <2>3, <2>4, FS_Injection
    <2> QED BY <2>5 DEF Surjection
  <1> QED BY <1>1, <1>4, <1>6, <1>7

\* The bindings that move of one more arm come after those before it.
LEMMA EarlierStep ==
  ASSUME NEW i \in Nat \ {0}, IsFiniteSet(Earlier(i)), IsFiniteSet(MovingOf(i))
  PROVE  /\ IsFiniteSet(Earlier(i + 1)) /\ Cardinality(Earlier(i)) \in Nat
         /\ Cardinality(Earlier(i + 1)) = Cardinality(Earlier(i)) + Cardinality(MovingOf(i))
  <1> DEFINE own(j) == {j} \X MovingOf(j)
  <1>1. \A j : \A q \in own(j) : q[1] = j
    OBVIOUS
  <1>2. IsFiniteSet(own(i)) /\ Cardinality(own(i)) = Cardinality(MovingOf(i))
    <2>1. IsFiniteSet({i}) /\ Cardinality({i}) = 1
      BY FS_Singleton
    <2>2. IsFiniteSet(own(i)) /\ Cardinality(own(i)) = Cardinality({i}) * Cardinality(MovingOf(i))
      BY <2>1, FS_Product
    <2>3. Cardinality(MovingOf(i)) \in Nat
      BY FS_CardinalityType
    <2> QED BY <2>1, <2>2, <2>3
  <1>3. \A n \in Nat : Earlier(n) = UNION {own(j) : j \in 1 .. n - 1}
    BY DEF Earlier
  <1> HIDE DEF own
  <1>4. Earlier(i + 1) = Earlier(i) \cup own(i)
    <2>1. (i + 1) - 1 = i
      OBVIOUS
    <2>2. Earlier(i + 1) = UNION {own(j) : j \in 1 .. i}
      BY <1>3, <2>1
    <2>3. 1 .. i = (1 .. i - 1) \cup {i}
      OBVIOUS
    <2> QED BY <1>3, <2>2, <2>3
  <1>5. Earlier(i) \cap own(i) = {}
    <2>1. \A j \in 1 .. i - 1 : j # i
      OBVIOUS
    <2> QED BY <1>1, <1>3, <2>1
  <1>6. Cardinality(Earlier(i)) \in Nat /\ Cardinality(own(i)) \in Nat
    BY <1>2, FS_CardinalityType
  <1>7. IsFiniteSet(Earlier(i) \cup own(i))
    BY <1>2, FS_Union
  <1>8. Cardinality(Earlier(i) \cup own(i))
          = Cardinality(Earlier(i)) + Cardinality(own(i)) - Cardinality({})
    BY <1>2, <1>5, FS_Union
  <1>9. Cardinality({}) = 0
    BY FS_EmptySet
  <1>10. Cardinality(Earlier(i) \cup own(i)) = Cardinality(Earlier(i)) + Cardinality(own(i))
    BY <1>6, <1>8, <1>9
  <1>11. Cardinality(Earlier(i + 1)) = Cardinality(Earlier(i)) + Cardinality(MovingOf(i))
    BY <1>2, <1>4, <1>10
  <1> QED BY <1>4, <1>6, <1>7, <1>11

\* The bindings of an arm that was resolved are arguments of its pattern.
LEMMA MovingFinite ==
  ASSUME MatchParts, NEW i \in 1 .. Len(arms)
  PROVE  MovingOf(i) \subseteq Nat /\ IsFiniteSet(MovingOf(i))
  <1> DEFINE p == arms[i].pattern
  <1>1. arms[i] \in Arms /\ analysis[i] = ResolveArm(p)
    BY DEF MatchParts, Shapes
  <1>2. PatternOK(p) /\ ArgsOK(p)
    BY <1>1, Assumed, ArgsAssumed
  <1>3. DOMAIN analysis[i].binds \subseteq DOMAIN p.args
    BY <1>1, <1>2, BindsSome
  <1>4. MovingOf(i) \subseteq DOMAIN p.args
    BY <1>3 DEF MovingOf
  <1>5. DOMAIN p.args \subseteq Nat /\ IsFiniteSet(DOMAIN p.args)
    BY <1>2 DEF ArgsOK
  <1> HIDE DEF p
  <1> QED BY <1>4, <1>5, FS_Subset

\* The tokens emitted so far, and where each binding that moves finds its own.
FieldsBound == {ResolveArm(arm.pattern).binds[k].field : arm \in Arms, k \in Nat}
Tokens      == [arm : Nat, field : FieldsBound]
Owning(i, k) == [arm |-> i, field |-> analysis[i].binds[k].field]
TokensSoFar ==
  /\ tokens \in Seq(Tokens)
  /\ stage \in {"resolve", "cover"} => tokens = <<>>
  /\ IsFiniteSet(Earlier(TypedArms + 1)) /\ Len(tokens) = Cardinality(Earlier(TypedArms + 1))
  /\ \A i \in 1 .. TypedArms : \A k \in MovingOf(i) :
       Cursor(i, k) \in 1 .. Len(tokens) /\ tokens[Cursor(i, k)] = Owning(i, k)

\* Before the first arm is typed there is none.
LEMMA NoTokens == tokens = <<>> /\ TypedArms = 0 /\ stage \in {"resolve", "cover"} => TokensSoFar
  <1> SUFFICES ASSUME tokens = <<>>, TypedArms = 0, stage \in {"resolve", "cover"}
               PROVE  TokensSoFar
    OBVIOUS
  <1>1. Earlier(0 + 1) = {}
    BY DEF Earlier
  <1>2. IsFiniteSet({}) /\ Cardinality({}) = 0
    BY FS_EmptySet
  <1>3. Len(<<>>) = 0 /\ <<>> \in Seq(Tokens)
    BY EmptySeq
  <1> QED BY <1>1, <1>2, <1>3 DEF TokensSoFar

\* Nor after a step that types none.
LEMMA NoTokensNext ==
  (tokens = <<>> /\ TypedArms = 0 /\ stage \in {"resolve", "cover"})' => TokensSoFar'
  BY NoTokens, PTL

\* The tokens of an arm, in the order of its bindings that move.
LEMMA TokensOfArm ==
  ASSUME MatchParts, NEW i \in 1 .. Len(arms)
  PROVE  /\ TokensOf(i) \in Seq(Tokens) /\ Len(TokensOf(i)) = Cardinality(MovingOf(i))
         /\ \A k \in MovingOf(i) : /\ Rank(MovingOf(i), k) \in 1 .. Cardinality(MovingOf(i))
                                   /\ TokensOf(i)[Rank(MovingOf(i), k)] = Owning(i, k)
  <1> DEFINE M == MovingOf(i)
             n == Cardinality(M)
             kth(r) == CHOOSE k \in M : Rank(M, k) = r
  <1>1. M \subseteq Nat /\ IsFiniteSet(M)
    BY MovingFinite
  <1>2. n \in Nat
    BY <1>1, FS_CardinalityType
  <1>3. ASSUME NEW k \in M PROVE Rank(M, k) \in 1 .. n /\ kth(Rank(M, k)) = k
    BY <1>1, Ranked
  <1>4. TokensOf(i) = [r \in 1 .. n |-> Owning(i, kth(r))]
    BY DEF TokensOf, Owning
  <1>5. ASSUME NEW k \in M PROVE TokensOf(i)[Rank(M, k)] = Owning(i, k)
    BY <1>3, <1>4
  <1>6. ASSUME NEW k \in M PROVE Owning(i, k) \in Tokens
    <2>1. analysis[i] = ResolveArm(arms[i].pattern) /\ arms[i] \in Arms /\ i \in Nat
      BY DEF MatchParts, Shapes
    <2>2. k \in Nat
      BY <1>1
    <2>3. analysis[i].binds[k].field \in FieldsBound
      BY <2>1, <2>2 DEF FieldsBound
    <2> QED BY <2>1, <2>3 DEF Tokens, Owning
  <1>7. ASSUME NEW r \in 1 .. n PROVE kth(r) \in M
    <2>1. CASE M = {}
      BY <2>1, <1>2, FS_EmptySet
    <2>2. CASE M # {}
      <3>1. \E k \in M : Rank(M, k) = r
        BY <2>2, <1>1, Ranked
      <3> QED BY <3>1
    <2> QED BY <2>1, <2>2
  <1> HIDE DEF M, n, kth
  <1>8. TokensOf(i) \in Seq(Tokens) /\ Len(TokensOf(i)) = n
    BY <1>2, <1>4, <1>6, <1>7
  <1> QED BY <1>3, <1>5, <1>8 DEF M, n

\* An arm is typed: its tokens come last.
LEMMA TypeArmTokens ==
  ASSUME MatchParts, TokensSoFar, TypeArm
  PROVE  TokensSoFar'
  <1>0. /\ stage = "type" /\ stage' = "type" /\ at \in 1 .. Len(arms) /\ Len(arms) \in Nat
        /\ TypedArms = at - 1 /\ TypedArms' = at /\ analysis' = analysis
    BY DEF MatchParts, TypeArm, Walking, TypedArms, Shapes
  <1>1. /\ TokensOf(at) \in Seq(Tokens) /\ Len(TokensOf(at)) = Cardinality(MovingOf(at))
        /\ \A k \in MovingOf(at) :
             /\ Rank(MovingOf(at), k) \in 1 .. Cardinality(MovingOf(at))
             /\ TokensOf(at)[Rank(MovingOf(at), k)] = Owning(at, k)
    BY <1>0, TokensOfArm
  <1>2. tokens' = tokens \o TokensOf(at)
    <2>1. CASE ~Skipped
      BY <2>1 DEF TypeArm
    <2>2. CASE Skipped
      <3>1. analysis[at] = ResolveArm(arms[at].pattern)
        BY <1>0 DEF MatchParts, Shapes
      <3>2. analysis[at].binds = <<>>
        <4>1. arms[at] \in Arms
          BY <1>0 DEF MatchParts, Shapes
        <4>2. PatternOK(arms[at].pattern)
          BY <4>1, Assumed
        <4>3. \A d, b, g : Found(d, b, g).broken = FALSE
          BY DEF Found
        <4>4. ResolveArm(arms[at].pattern) = Broken
          BY <2>2, <3>1, <4>2, <4>3
             DEF Skipped, ResolveArm, ResolveLiteral, ResolveVariant, ResolveAnon, PatternOK
        <4> QED BY <3>1, <4>4 DEF Broken
      <3>3. MovingOf(at) = {}
        BY <3>2 DEF MovingOf
      <3>4. TokensOf(at) = <<>>
        <4>1. Len(TokensOf(at)) = 0
          BY <1>1, <3>3, FS_EmptySet
        <4> QED BY <1>1, <4>1, EmptySeq
      <3>5. tokens' = tokens
        BY <2>2 DEF TypeArm, typing
      <3> QED BY <3>4, <3>5, ConcatEmptySeq DEF TokensSoFar
    <2> QED BY <2>1, <2>2
  <1>3. /\ tokens \in Seq(Tokens) /\ IsFiniteSet(Earlier(at)) /\ Len(tokens) = Cardinality(Earlier(at))
        /\ \A i \in 1 .. at - 1 : \A k \in MovingOf(i) :
             Cursor(i, k) \in 1 .. Len(tokens) /\ tokens[Cursor(i, k)] = Owning(i, k)
    <2>1. (at - 1) + 1 = at
      BY <1>0
    <2> QED BY <1>0, <2>1 DEF TokensSoFar
  <1>4. /\ IsFiniteSet(Earlier(at + 1)) /\ Cardinality(Earlier(at)) \in Nat
        /\ Cardinality(Earlier(at + 1)) = Cardinality(Earlier(at)) + Cardinality(MovingOf(at))
    <2>1. IsFiniteSet(MovingOf(at))
      BY <1>0, MovingFinite
    <2> QED BY <1>0, <1>3, <2>1, EarlierStep
  <1>5. /\ tokens' \in Seq(Tokens) /\ Len(tokens') = Len(tokens) + Len(TokensOf(at))
        /\ \A i \in 1 .. Len(tokens) + Len(TokensOf(at)) :
             tokens'[i] = IF i <= Len(tokens) THEN tokens[i] ELSE TokensOf(at)[i - Len(tokens)]
        /\ Len(tokens) \in Nat /\ Len(TokensOf(at)) \in Nat
    BY <1>1, <1>2, <1>3, ConcatProperties, LenProperties
  <1>6. ASSUME NEW i \in 1 .. at, NEW k \in MovingOf(i)
        PROVE  Cursor(i, k) \in 1 .. Len(tokens') /\ tokens'[Cursor(i, k)] = Owning(i, k)
    <2>1. CASE i = at
      <3> DEFINE r == Rank(MovingOf(at), k)
      <3>1. r \in 1 .. Len(TokensOf(at)) /\ TokensOf(at)[r] = Owning(at, k)
        BY <1>1, <1>6, <2>1
      <3>2. Cursor(at, k) = Len(tokens) + r
        BY <1>3 DEF Cursor
      <3> HIDE DEF r
      <3>3. Cursor(at, k) \in 1 .. Len(tokens) + Len(TokensOf(at)) /\ ~(Cursor(at, k) <= Len(tokens))
            /\ Cursor(at, k) - Len(tokens) = r
        BY <1>5, <3>1, <3>2
      <3> QED BY <1>5, <2>1, <3>1, <3>3
    <2>2. CASE i # at
      <3>1. i \in 1 .. at - 1
        BY <1>0, <2>2
      <3>2. Cursor(i, k) \in 1 .. Len(tokens) /\ tokens[Cursor(i, k)] = Owning(i, k)
        BY <1>3, <1>6, <3>1
      <3>3. Cursor(i, k) \in 1 .. Len(tokens) + Len(TokensOf(at)) /\ Cursor(i, k) <= Len(tokens)
        BY <1>5, <3>2
      <3> QED BY <1>5, <3>2, <3>3
    <2> QED BY <2>1, <2>2
  <1>7. /\ \A i : MovingOf(i)' = MovingOf(i)
        /\ \A i, k : Owning(i, k)' = Owning(i, k) /\ Cursor(i, k)' = Cursor(i, k)
        /\ Earlier(TypedArms + 1)' = Earlier(at + 1) /\ Tokens' = Tokens
    <2>1. \A i : MovingOf(i)' = MovingOf(i)
      BY <1>0 DEF MovingOf, Moves, Copied
    <2>2. Earlier(TypedArms + 1)' = Earlier(at + 1)
      BY <1>0, <2>1 DEF Earlier
    <2>3. \A i, k : Owning(i, k)' = Owning(i, k) /\ Cursor(i, k)' = Cursor(i, k)
      BY <1>0, <2>1 DEF Owning, Cursor, Earlier, Rank
    <2>4. Tokens' = Tokens
      <3>1. UNCHANGED on
        BY DEF TypeArm, written
      <3>2. \A p : ResolveArm(p)' = ResolveArm(p)
        BY <3>1, SameResolution
      <3>3. FieldsBound' = FieldsBound
        BY <3>2 DEF FieldsBound, Arms
      <3> QED BY <3>3 DEF Tokens
    <2> QED BY <2>1, <2>2, <2>3, <2>4
  <1> QED BY <1>0, <1>1, <1>3, <1>4, <1>5, <1>6, <1>7 DEF TokensSoFar

\* No other step adds a token or changes what the arms bind.
LEMMA TokensKept ==
  ASSUME TokensSoFar, UNCHANGED <<on, analysis, tokens, TypedArms>>,
         stage' \in {"resolve", "cover"} => stage \in {"resolve", "cover"}
  PROVE  TokensSoFar'
  <1>1. \A i : MovingOf(i)' = MovingOf(i)
    BY DEF MovingOf, Moves, Copied
  <1>2. Earlier(TypedArms + 1)' = Earlier(TypedArms + 1)
    BY <1>1 DEF Earlier
  <1>3. \A i, k : Owning(i, k)' = Owning(i, k) /\ Cursor(i, k)' = Cursor(i, k)
    BY <1>1 DEF Owning, Cursor, Earlier, Rank
  <1>4. Tokens' = Tokens
    <2>1. \A p : ResolveArm(p)' = ResolveArm(p)
      BY SameResolution
    <2>2. FieldsBound' = FieldsBound
      BY <2>1 DEF FieldsBound, Arms
    <2> QED BY <2>2 DEF Tokens
  <1> QED BY <1>1, <1>2, <1>3, <1>4 DEF TokensSoFar

\* The names of the arm entered get their fields, each through its own token.
LEMMA BindNames ==
  ASSUME MatchInvariant, TokensSoFar, Bind
  PROVE  BindsNamedFields'
  <1> USE DEF written, sema, typing, routing
  <1>0. /\ stage = "enter" /\ MatchParts /\ First(at) /\ value \in Values
        /\ UNCHANGED <<arms, on, at, value>> /\ TypedArms = Len(arms)
    BY DEF Bind, MatchInvariant, Running, TypedArms
  <1> DEFINE p == arms[at].pattern
             fields == Shape(value.variant).fields
             S == {i \in DOMAIN p.args : p.args[i].to \in Binder}
             field(i) == Selects(fields, p.form, p.args, i)
             own(i) == [name |-> p.args[i].to, gets |-> value.slots[field(i)],
                        token |-> IF Copied(fields[field(i)].ty) THEN None
                                  ELSE [arm |-> at, field |-> field(i)]]
             binds == analysis[at].binds
             got(k) == [name |-> binds[k].name, gets |-> value.slots[binds[k].field],
                        token |-> IF Moves(binds[k]) THEN tokens[Cursor(at, k)] ELSE None]
  <1>1. /\ at \in 1 .. Len(arms) /\ Accepts(analysis[at], value)
        /\ arms[at] \in Arms /\ analysis[at] = ResolveArm(p) /\ on \in Scrutinees
    BY <1>0 DEF First, MatchParts, Shapes
  <1>2. ScrutineeOK /\ PatternOK(p) /\ ArgsOK(p)
    BY <1>1, Assumed, ArgsAssumed
  <1>3. ~ResolveArm(p).broken
    BY <1>0, <1>1, EmittedWhole DEF After, Whole
  <1>4. value.variant \in DOMAIN on.ty.variants
    BY <1>0, <1>2, ValueShape
  <1>5. binds = Bindings(fields, p.form, p.args)
    BY <1>1, <1>2, <1>3, <1>4, BindsMeaning
  <1>6. /\ DOMAIN binds = S
        /\ \A i \in S : binds[i] = [field |-> field(i), name |-> p.args[i].to, ty |-> fields[field(i)].ty]
    BY <1>5 DEF Bindings
  <1>7. \A i \in MovingOf(at) : tokens[Cursor(at, i)] = [arm |-> at, field |-> binds[i].field]
    BY <1>0, <1>1 DEF TokensSoFar, Owning
  <1>8. ASSUME NEW i \in S PROVE got(i) = own(i)
    <2>0. binds[i] = [field |-> field(i), name |-> p.args[i].to, ty |-> fields[field(i)].ty]
      BY <1>6
    <2>1. binds[i].field = field(i) /\ binds[i].name = p.args[i].to /\ binds[i].ty = fields[field(i)].ty
      <3> HIDE DEF binds, field, fields
      <3> QED BY <2>0
    <2>2. Moves(binds[i]) <=> ~Copied(fields[field(i)].ty)
      BY <2>1 DEF Moves
    <2>3. Moves(binds[i]) => i \in MovingOf(at)
      BY <1>6 DEF MovingOf
    <2>4. Moves(binds[i]) => tokens[Cursor(at, i)] = [arm |-> at, field |-> field(i)]
      BY <1>7, <2>1, <2>3
    <2> HIDE DEF field, binds
    <2> QED BY <2>1, <2>2, <2>4
  <1>9. bound' = [k \in DOMAIN binds |-> got(k)]
    BY DEF Bind
  <1> HIDE DEF got, own
  <1>10. bound' = [i \in S |-> own(i)]
    BY <1>6, <1>8, <1>9
  <1>11. BindsNamedFields' <=> (stage' = "body" => bound' = [i \in S |-> own(i)])
    BY <1>0 DEF BindsNamedFields, own, Shape, Selects, Copied
  <1> QED BY <1>10, <1>11

\* Every step keeps the tokens in order, and the names bound.
LEMMA StepKeepsTokens ==
  MatchInvariant /\ TokensSoFar /\ BindsNamedFields /\ [Next]_vars => TokensSoFar' /\ BindsNamedFields'
  <1> SUFFICES ASSUME MatchInvariant, TokensSoFar, BindsNamedFields, [Next]_vars
               PROVE  TokensSoFar' /\ BindsNamedFields'
    OBVIOUS
  <1> USE DEF written, sema, typing, routing, running
  <1>0. MatchParts /\ Len(arms) \in Nat
    BY DEF MatchInvariant, MatchParts, Shapes
  <1>1. ASSUME NEW m \in Matches, NEW a \in m.arms, Resolve(a) PROVE TokensSoFar' /\ BindsNamedFields'
    <2>1. stage = "resolve" /\ stage' = "resolve" /\ tokens' = tokens /\ TypedArms' = 0 /\ tokens = <<>>
      BY <1>1 DEF Resolve, TypedArms, TokensSoFar
    <2>2. (tokens = <<>> /\ TypedArms = 0 /\ stage \in {"resolve", "cover"})'
      BY <2>1
    <2>3. TokensSoFar'
      BY <2>1, <2>2, NoTokensNext
    <2> QED BY <2>1, <2>3 DEF BindsNamedFields
  <1>2. CASE ResolveEnd \/ CoverArm \/ CoverEnd \/ TypeEnd
    <2>1. UNCHANGED <<on, analysis, tokens, TypedArms>>
      BY <1>0, <1>2 DEF ResolveEnd, CoverArm, CoverEnd, TypeEnd, Walking, TypedArms
    <2>2. /\ stage' \in {"resolve", "cover"} => stage \in {"resolve", "cover"}
          /\ stage' # "body"
      BY <1>2 DEF ResolveEnd, CoverArm, CoverEnd, TypeEnd, Walking
    <2> QED BY <2>1, <2>2, TokensKept DEF BindsNamedFields
  <1>3. CASE TypeArm
    BY <1>0, <1>3, TypeArmTokens DEF TypeArm, Walking, BindsNamedFields
  <1>4. CASE RouteVariant \/ RouteWildcard \/ RouteLiteral \/ RouteAnon \/ Dispatch
             \/ Switch \/ Test \/ Leave
    <2>1. /\ stage \in {"route", "test", "body"} /\ stage' \in {"route", "test", "enter", "trap", "left", "join"}
          /\ UNCHANGED <<on, arms, analysis, tokens>>
      BY <1>4 DEF RouteVariant, RouteWildcard, RouteLiteral, RouteAnon, Routing, Walking, Dispatch, Switch,
                  Test, Testing, Enter, Leave
    <2>2. UNCHANGED TypedArms
      BY <2>1 DEF TypedArms
    <2> QED BY <2>1, <2>2, TokensKept DEF BindsNamedFields
  <1>5. CASE Bind
    <2>1. UNCHANGED <<on, arms, analysis, tokens>> /\ stage = "enter" /\ stage' = "body"
      BY <1>5 DEF Bind
    <2>2. UNCHANGED TypedArms
      BY <2>1 DEF TypedArms
    <2> QED BY <1>5, <2>1, <2>2, TokensKept, BindNames
  <1>6. CASE UNCHANGED vars
    <2>1. UNCHANGED <<on, analysis, tokens, TypedArms>> /\ stage' = stage
      BY <1>6 DEF vars, TypedArms
    <2>2. BindsNamedFields'
      <3>1. UNCHANGED <<stage, arms, at, on, value, bound>>
        BY <1>6 DEF vars
      <3>2. \A k : Shape(k)' = Shape(k)
        BY <3>1 DEF Shape
      <3>3. BindsNamedFields' <=> BindsNamedFields
        BY <3>1, <3>2 DEF BindsNamedFields
      <3> QED BY <3>3
    <2> QED BY <2>1, <2>2, TokensKept
  <1> QED BY <1>1, <1>2, <1>3, <1>4, <1>5, <1>6 DEF Next, Done

\* A name bound by a pattern is the field the pattern names, owned through the
\* token emitted for this binding, however many bindings of how many arms came
\* before it.
THEOREM NamesBound == Spec => []BindsNamedFields
  <1>1. Init => TokensSoFar /\ BindsNamedFields
    BY NoTokens DEF Init, TypedArms, BindsNamedFields
  <1> QED BY <1>1, StepKeepsTokens, MatchInvariantHolds, PTL DEF Spec
=============================================================================
