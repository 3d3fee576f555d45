------------------------- MODULE OwnershipWalk_proof -------------------------
(***************************************************************************)
(* Proofs about OwnershipWalk, for all names, all bodies and all bounds.   *)
(***************************************************************************)
EXTENDS OwnershipWalk, SequenceTheorems, FiniteSetTheorems, WellFoundedInduction, TLAPS

-----------------------------------------------------------------------------
(* Observations and joins *)

\* Among positions there is an earliest one.
LEMMA LeastExists ==
  ASSUME NEW S, S \subseteq Nat, S # {}
  PROVE  Least(S) \in S /\ \A j \in S : Least(S) <= j
  <1> DEFINE R == {ss \in Nat \X Nat : ss[1] < ss[2]}
  <1>1. IsWellFoundedOn(R, Nat)
    BY NatLessThanWellFounded DEF OpToRel
  <1> HIDE DEF R
  <1>2. PICK x \in S : \A y \in S : ~(<<y, x>> \in R)
    BY <1>1, WFMin
  <1>3. ASSUME NEW y \in S PROVE x <= y
    <2>1. x \in Nat /\ y \in Nat /\ <<y, x>> \notin R
      BY <1>2
    <2>2. ~(y < x)
      BY <2>1 DEF R
    <2> QED BY <2>1, <2>2
  <1> QED BY <1>3 DEF Least

\* A join of states is a state: Moved if one side is, else the earliest.
LEMMA JoinStatesType ==
  ASSUME NEW obs, DOMAIN obs \subseteq Nat, \A k \in DOMAIN obs : obs[k] \in State
  PROVE  JoinStates(obs) \in State
  <1>1. CASE Tracked(obs) = {}
    BY <1>1 DEF JoinStates, FirstTracked, State
  <1>2. CASE Tracked(obs) # {}
    <2>1. Least(Tracked(obs)) \in DOMAIN obs
      BY <1>2, LeastExists DEF Tracked
    <2> QED BY <1>2, <2>1 DEF JoinStates, FirstTracked, State
  <1> QED BY <1>1, <1>2

\* The earliest seat is a seat.
LEMMA FirstSeatType ==
  ASSUME NEW obs, DOMAIN obs \subseteq Nat,
         \A k \in DOMAIN obs : obs[k] \in Owner \cup {NoOwner}
  PROVE  FirstSeat(obs) \in Owner \cup {NoOwner}
  <1>1. CASE Seated(obs) = {}
    BY <1>1 DEF FirstSeat
  <1>2. CASE Seated(obs) # {}
    BY <1>2, LeastExists DEF FirstSeat, Seated
  <1> QED BY <1>1, <1>2

\* Lattices by position: what Ends, From and a pair of lattices are.
Sides(f) == DOMAIN f \subseteq Nat /\ \A k \in DOMAIN f : f[k] \in Lattice

\* A join of lattices by position is a lattice.
LEMMA JoinLatticesType ==
  ASSUME NEW sides, NEW all, Sides(sides), Sides(all)
  PROVE  JoinLattices(sides, all) \in Lattice
  <1>1. \A o \in Owner : JoinStates([k \in DOMAIN sides |-> sides[k].st[o]]) \in State
    BY JoinStatesType DEF Sides, Lattice
  <1>2. \A n \in Name : FirstSeat([k \in DOMAIN all |-> all[k].cur[n]]) \in Owner \cup {NoOwner}
    BY FirstSeatType DEF Sides, Lattice
  <1> QED BY <1>1, <1>2 DEF JoinLattices, Lattice

\* The binding-aware override writes states over owners.
LEMMA OverridesType ==
  ASSUME NEW w \in Lattice, NEW pre \in [Name -> Owner \cup {NoOwner}],
         NEW sides, Sides(sides), DOMAIN sides # {}
  PROVE  Overrides(w, pre, sides) \subseteq Lattice
  <1>1. ASSUME NEW n \in Name, pre[n] # NoOwner PROVE BindingState(pre, sides, n) \in State
    <2> DEFINE seat(k) == IF sides[k].cur[n] = NoOwner THEN pre[n] ELSE sides[k].cur[n]
               obs == [k \in DOMAIN sides |-> sides[k].st[seat(k)]]
    <2>1. \A k \in DOMAIN sides : seat(k) \in Owner
      BY <1>1 DEF Sides, Lattice
    <2>2. \A k \in DOMAIN obs : obs[k] \in State
      BY <2>1 DEF Sides, Lattice
    <2>3. Least(DOMAIN obs) \in DOMAIN obs
      BY LeastExists DEF Sides
    <2>4. BindingState(pre, sides, n) = IF AnyMoved(obs) THEN "Moved" ELSE obs[Least(DOMAIN obs)]
      BY DEF BindingState
    <2> HIDE DEF obs
    <2> QED BY <2>2, <2>3, <2>4 DEF State
  <1> DEFINE seated == {pre[n] : n \in {m \in Name : pre[m] # NoOwner}}
             writes(pick) == [o \in Owner |-> IF o \in seated
                                THEN BindingState(pre, sides, pick[o]) ELSE w.st[o]]
  <1>2. ASSUME NEW pick \in [seated -> Name], \A o \in seated : pre[pick[o]] = o
        PROVE  [w EXCEPT !.st = writes(pick)] \in Lattice
    <2>1. \A o \in seated : pick[o] \in Name /\ pre[pick[o]] # NoOwner
      BY <1>2
    <2>2. writes(pick) \in [Owner -> State]
      BY <1>1, <2>1 DEF Lattice
    <2> HIDE DEF writes
    <2> QED BY <2>2 DEF Lattice
  <1> QED BY <1>2 DEF Overrides

\* merge_branches returns lattices, whichever arms fall through.
LEMMA MergeBranchesType ==
  ASSUME NEW snap \in Lattice, NEW arms \in Seq(ArmEnd)
  PROVE  MergeBranches(snap, arms) \subseteq Lattice
  <1> DEFINE sides == Ends(arms, Falling(arms))
             plain == JoinLattices(From(snap, sides), From(snap, Ends(arms, DOMAIN arms)))
  <1>1. DOMAIN arms \subseteq Nat /\ \A k \in DOMAIN arms : arms[k].own \in Lattice
    <2>1. DOMAIN arms = 1 .. Len(arms) /\ Len(arms) \in Nat
      OBVIOUS
    <2>2. \A k \in DOMAIN arms : arms[k] \in ArmEnd
      OBVIOUS
    <2>3. \A a \in ArmEnd : a.own \in Lattice
      BY DEF ArmEnd
    <2> QED BY <2>1, <2>2, <2>3
  <1>2. Sides(sides) /\ DOMAIN sides = Falling(arms)
    BY <1>1 DEF Sides, Ends, Falling
  <1>3. Sides(Ends(arms, DOMAIN arms))
    BY <1>1 DEF Sides, Ends
  <1>4. ASSUME NEW f, Sides(f) PROVE Sides(From(snap, f))
    BY <1>4 DEF Sides, From
  <1>5. plain \in Lattice
    BY <1>2, <1>3, <1>4, JoinLatticesType
  <1>6. snap.cur \in [Name -> Owner \cup {NoOwner}]
    BY DEF Lattice
  <1>7. Falling(arms) # {} => Overrides(plain, snap.cur, sides) \subseteq Lattice
    BY <1>2, <1>5, <1>6, OverridesType
  <1>8. MergeBranches(snap, arms) = IF Falling(arms) = {} THEN {plain}
                                    ELSE Overrides(plain, snap.cur, sides)
    BY DEF MergeBranches
  <1> QED BY <1>5, <1>7, <1>8

\* A pair of lattices, by position.
LEMMA PairSides ==
  ASSUME NEW a \in Lattice, NEW b \in Lattice
  PROVE  Sides(<<a, b>>) /\ DOMAIN <<a, b>> = {1, 2}
  BY DEF Sides

\* merge_loop_plain returns a lattice, whether or not the body comes back.
LEMMA MergeLoopPlainType ==
  ASSUME NEW entry \in Lattice, NEW after \in Lattice, NEW flows \in BOOLEAN
  PROVE  MergeLoopPlain(entry, after, flows) \in Lattice
  <1>1. ForgetMoved(after) \in Lattice
    <2>1. [o \in Owner |-> IF after.st[o] = "Moved" THEN "NotTracked" ELSE after.st[o]]
            \in [Owner -> State]
      BY DEF Lattice, State
    <2> QED BY <2>1 DEF ForgetMoved, Lattice
  <1> DEFINE side == IF flows THEN after ELSE ForgetMoved(after)
  <1>2. side \in Lattice
    BY <1>1
  <1>3. MergeLoopPlain(entry, after, flows) = JoinLattices(<<entry, side>>, <<entry, side>>)
    BY DEF MergeLoopPlain
  <1> HIDE DEF side
  <1> QED BY <1>2, <1>3, PairSides, JoinLatticesType

\* The override of a loop join returns lattices.
LEMMA LoopOverridesType ==
  ASSUME NEW w \in Lattice, NEW entry \in Lattice, NEW after \in Lattice, NEW flows \in BOOLEAN
  PROVE  LoopOverrides(w, entry, after, flows) \subseteq Lattice
  <1>1. Overrides(w, entry.cur, <<entry, after>>) \subseteq Lattice
    <2>1. entry.cur \in [Name -> Owner \cup {NoOwner}]
      BY DEF Lattice
    <2> QED BY <2>1, PairSides, OverridesType
  <1> QED BY <1>1 DEF LoopOverrides

-----------------------------------------------------------------------------
(* The loop join ascends *)

\* Joining a state with the entry's keeps the entry's, unless the entry has
\* none or the join is Moved.
LEMMA JoinAscends ==
  ASSUME NEW a \in State, NEW b \in State
  PROVE  \/ JoinStates(<<a, b>>) = a
         \/ a = "NotTracked"
         \/ JoinStates(<<a, b>>) = "Moved"
  <1> SUFFICES ASSUME a # "NotTracked", ~AnyMoved(<<a, b>>)
               PROVE  FirstTracked(<<a, b>>) = a
    BY DEF JoinStates
  <1>1. 1 \in Tracked(<<a, b>>) /\ Tracked(<<a, b>>) \subseteq {1, 2}
    BY DEF Tracked
  <1>2. Least(Tracked(<<a, b>>)) = 1
    BY <1>1, LeastExists
  <1> QED BY <1>1, <1>2 DEF FirstTracked

\* Joining a seat with the entry's keeps the entry's, unless it has none.
LEMMA SeatAscends ==
  ASSUME NEW a \in Owner \cup {NoOwner}, NEW b \in Owner \cup {NoOwner}
  PROVE  FirstSeat(<<a, b>>) = a \/ a = NoOwner
  <1> SUFFICES ASSUME a # NoOwner PROVE FirstSeat(<<a, b>>) = a
    OBVIOUS
  <1>1. 1 \in Seated(<<a, b>>) /\ Seated(<<a, b>>) \subseteq {1, 2}
    BY DEF Seated
  <1>2. Least(Seated(<<a, b>>)) = 1
    BY <1>1, LeastExists
  <1> QED BY <1>1, <1>2 DEF FirstSeat

\* merge_loop_plain never takes Moved back, drops a state or reseats a home,
\* whatever the body did and whether or not it comes back.
THEOREM LoopJoinAscends ==
  ASSUME NEW entry \in Lattice, NEW after \in Lattice, NEW flows \in BOOLEAN
  PROVE  Ascends(entry, MergeLoopPlain(entry, after, flows))
  <1> DEFINE side   == IF flows THEN after ELSE ForgetMoved(after)
             merged == MergeLoopPlain(entry, after, flows)
  <1>1. side \in Lattice
    <2>1. [o \in Owner |-> IF after.st[o] = "Moved" THEN "NotTracked" ELSE after.st[o]]
            \in [Owner -> State]
      BY DEF Lattice, State
    <2> QED BY <2>1 DEF ForgetMoved, Lattice
  <1>2. merged = JoinLattices(<<entry, side>>, <<entry, side>>)
    BY DEF MergeLoopPlain
  <1> HIDE DEF side, merged
  <1>3. \A o \in Owner : merged.st[o] = JoinStates(<<entry.st[o], side.st[o]>>)
    <2> TAKE o \in Owner
    <2>1. [k \in DOMAIN <<entry, side>> |-> <<entry, side>>[k].st[o]] = <<entry.st[o], side.st[o]>>
      OBVIOUS
    <2> QED BY <1>2, <2>1 DEF JoinLattices
  <1>4. \A n \in Name : merged.cur[n] = FirstSeat(<<entry.cur[n], side.cur[n]>>)
    <2> TAKE n \in Name
    <2>1. [k \in DOMAIN <<entry, side>> |-> <<entry, side>>[k].cur[n]] = <<entry.cur[n], side.cur[n]>>
      OBVIOUS
    <2> QED BY <1>2, <2>1 DEF JoinLattices
  <1>5. \A o \in Owner : entry.st[o] \in State /\ side.st[o] \in State
    BY <1>1 DEF Lattice
  <1>6. \A n \in Name : {entry.cur[n], side.cur[n]} \subseteq Owner \cup {NoOwner}
    BY <1>1 DEF Lattice
  <1>7. Ascends(entry, merged)
    BY <1>3, <1>4, <1>5, <1>6, JoinAscends, SeatAscends DEF Ascends
  <1> QED BY <1>7 DEF merged

-----------------------------------------------------------------------------
(* Types of the parts of a step *)

\* A token that may be written has the fields of its operation.
LEMMA TokenType ==
  ASSUME NEW tok \in Text
  PROVE  /\ tok \in Token
         /\ tok.op \in {"decl", "assign"} => tok.n \in Name /\ tok.src \in Source
         /\ tok.op = "return" => tok.src \in Source
         /\ tok.op = "call" => tok.args \in Seq(Arg)
  <1>1. tok \in Token
    BY NamesAssumption
  <1> QED BY <1>1 DEF Token

\* The token the walk is at is within the bound, read again or written now.
LEMMA AtType ==
  ASSUME TypeOK, NEW tok \in Text, At(tok)
  PROVE  /\ prog' \in Seq(Token) /\ Len(prog') <= MaxLen
         /\ tok.op \notin Siblings \cup Closers => pc <= MaxLen
  <1> USE DEF TypeOK
  <1>1. CASE pc <= Len(prog) /\ prog' = prog
    BY <1>1, NamesAssumption
  <1>2. CASE pc = Len(prog) + 1 /\ Legal(tok) /\ prog' = Append(prog, tok)
    <2>1. prog' \in Seq(Token) /\ Len(prog') = Len(prog) + 1
      BY <1>2, TokenType
    <2>2. tok.op \in Closers => stack # <<>>
      BY <1>2 DEF Legal, Innermost, Closers, Siblings
    <2>3. Len(stack) \in Nat /\ (stack # <<>> => Len(stack) >= 1)
      OBVIOUS
    <2>4. Len(prog) + 1 + Len(stack)
            + (CASE tok.op \in Openers -> 2 [] tok.op \in Siblings -> 1
                 [] tok.op \in Closers -> -1 [] OTHER -> 0) <= MaxLen
      BY <1>2 DEF Legal
    <2>5. Len(prog) + 1 <= MaxLen
      BY <2>2, <2>3, <2>4, NamesAssumption DEF Openers, Siblings, Closers
    <2> QED BY <1>2, <2>1, <2>5
  <1> QED BY <1>1, <1>2 DEF At

\* A binding reads an owner; consuming it gives a lattice and typed reports.
LEMMA UseType ==
  ASSUME NEW w \in Lattice, NEW n \in Name
  PROVE  /\ Underlying(w, n) \in Owner
         /\ Consume(w, n) \in Lattice
         /\ \A i \in Nat, code \in Code : ConsumeDiags(w, n, i, code) \subseteq Nat \X Code
         /\ \A i \in Nat : ConsumeTransfers(w, n, i) \subseteq Nat \X Owner
  <1>1. Underlying(w, n) \in Owner
    BY NamesAssumption DEF Underlying, Lattice, Home, Owner
  <1>2. w.st \in [Owner -> State] /\ "Moved" \in State
    BY DEF Lattice, State
  <1>3. Consume(w, n) \in Lattice
    <2> DEFINE o == Underlying(w, n)
    <2>1. [w.st EXCEPT ![o] = "Moved"] \in [Owner -> State]
      BY <1>1, <1>2
    <2>2. [w EXCEPT !.st[o] = "Moved"] \in Lattice
      BY <2>1 DEF Lattice
    <2> QED BY <2>2 DEF Consume
  <1>4. "UseAfterMove" \in Code
    BY DEF Code
  <1>5. \A i \in Nat, code \in Code : ConsumeDiags(w, n, i, code) \subseteq Nat \X Code
    BY <1>4 DEF ConsumeDiags
  <1>6. \A i \in Nat : ConsumeTransfers(w, n, i) \subseteq Nat \X Owner
    BY <1>1 DEF ConsumeTransfers
  <1> QED BY <1>1, <1>3, <1>5, <1>6

\* Seating a place gives a lattice.
LEMMA RebindType ==
  ASSUME NEW w \in Lattice, NEW n \in Name, NEW place \in Owner
  PROVE  Rebind(w, n, place) \in Lattice
  BY DEF Rebind, Lattice, State

\* The places a token within the bound can name are owners.
LEMMA PlaceType ==
  ASSUME NEW n \in Name
  PROVE  Home(n) \in Owner /\ \A i \in 0 .. MaxLen : Temp(n, i) \in Owner
  BY NamesAssumption DEF Home, Temp, Owner

\* The stack of open constructs.
LEMMA PushType ==
  ASSUME NEW f \in Frame, NEW frames \in Seq(Frame)
  PROVE  /\ <<f>> \o frames \in Seq(Frame)
         /\ Len(<<f>> \o frames) = Len(frames) + 1
         /\ Head(<<f>> \o frames) = f
  OBVIOUS

\* A stack that is not empty is its head on its tail.
LEMMA TopType ==
  ASSUME NEW frames \in Seq(Frame), frames # <<>>
  PROVE  /\ Head(frames) \in Frame
         /\ Tail(frames) \in Seq(Frame)
         /\ Len(frames) = Len(Tail(frames)) + 1
  OBVIOUS

\* A jump marks frames of the stack and leaves their entries alone.
LEMMA FlowingType ==
  ASSUME NEW frames \in Seq(Frame)
  PROVE  /\ Flowing(frames) \in Seq(Frame)
         /\ Len(Flowing(frames)) = Len(frames)
         /\ frames # <<>> => Head(Flowing(frames)).entry = Head(frames).entry
  <1>1. \A f \in Frame : /\ [f EXCEPT !.flows = @ \/ f.kind = "while"] \in Frame
                         /\ [f EXCEPT !.flows = @ \/ f.kind = "while"].entry = f.entry
    BY DEF Frame
  <1>2. DOMAIN frames = 1 .. Len(frames) /\ \A k \in 1 .. Len(frames) : frames[k] \in Frame
    OBVIOUS
  <1> DEFINE g == [k \in 1 .. Len(frames) |-> [frames[k] EXCEPT !.flows = @ \/ frames[k].kind = "while"]]
  <1>3. Flowing(frames) = g
    BY <1>2 DEF Flowing
  <1>4. g \in Seq(Frame) /\ Len(g) = Len(frames)
    BY <1>1, <1>2
  <1>5. frames # <<>> => Head(g) = g[1] /\ Head(frames) = frames[1] /\ 1 \in 1 .. Len(frames)
    BY <1>4
  <1>6. \A k \in 1 .. Len(frames) : g[k].entry = frames[k].entry
    BY <1>1, <1>2
  <1> QED BY <1>3, <1>4, <1>5, <1>6

\* A construct opens with what TypeOK says of the walk.
LEMMA OpenedType ==
  ASSUME TypeOK, NEW kind \in {"if", "while"}
  PROVE  Opened(kind) \in Frame /\ Opened(kind).entry = own
  <1>1. <<>> \in Seq(ArmEnd)
    OBVIOUS
  <1> QED BY <1>1 DEF TypeOK, Opened, Frame

\* An arm ends with what TypeOK says of the walk.
LEMMA ThisArmType ==
  ASSUME TypeOK
  PROVE  ThisArm \in ArmEnd
  BY DEF TypeOK, ThisArm, ArmEnd

\* The arms an endif merges: those walked, and the snapshot if there is no else.
LEMMA MergedArmsType ==
  ASSUME TypeOK, stack # <<>>
  PROVE  LET f == Head(stack)
             walked == Append(f.arms, ThisArm)
         IN  /\ walked \in Seq(ArmEnd)
             /\ Append(walked, [own |-> f.snap, falls |-> TRUE, last |-> 0]) \in Seq(ArmEnd)
  <1> DEFINE f == Head(stack)
  <1>1. f \in Frame
    BY TopType DEF TypeOK
  <1>2. f.arms \in Seq(ArmEnd) /\ f.snap \in Lattice
    BY <1>1 DEF Frame
  <1>3. [own |-> f.snap, falls |-> TRUE, last |-> 0] \in ArmEnd
    BY <1>2 DEF ArmEnd
  <1> QED BY <1>2, <1>3, ThisArmType

\* arm drops name an instruction and an owner.
LEMMA ArmDropsType ==
  ASSUME NEW arms \in Seq(ArmEnd)
  PROVE  ArmDrops(arms) \subseteq Nat \X Owner
  <1>1. \A k \in DOMAIN arms : arms[k] \in ArmEnd
    OBVIOUS
  <1>2. \A a \in ArmEnd : a.last \in Nat
    BY DEF ArmEnd
  <1>3. \A k \in DOMAIN arms : arms[k].last \in Nat
    BY <1>1, <1>2
  <1> QED BY <1>3 DEF ArmDrops, MovedElsewhere, Falling

\* The diagnostics of a call stand at the call.
LEMMA CallDiagsType ==
  ASSUME TypeOK, NEW tok, tok.args \in Seq(Arg)
  PROVE  /\ UseDiags(tok) \cup AliasDiags(tok) \cup MoveDiags(tok) \subseteq Nat \X Code
         /\ \A o : <<pc, o>> \in Nat \X Owner <=> o \in Owner
  <1> USE DEF TypeOK
  <1>1. \A code \in Code : <<pc, code>> \in Nat \X Code
    OBVIOUS
  <1>2. {"UseAfterMove", "MutableAliasingViolation", "MoveWhileBorrowedInCall",
         "MoveOutOfBorrowedParam"} \subseteq Code
    BY DEF Code
  <1>3. UseDiags(tok) \subseteq Nat \X Code
    BY <1>1, <1>2 DEF UseDiags
  <1>4. AliasDiags(tok) \subseteq Nat \X Code
    BY <1>1, <1>2 DEF AliasDiags
  <1>5. \A k \in DOMAIN tok.args : tok.args[k].n \in Name
    <2>1. \A k \in DOMAIN tok.args : tok.args[k] \in Arg
      OBVIOUS
    <2> QED BY <2>1 DEF Arg
  <1>6. \A k \in DOMAIN tok.args :
          ConsumeDiags(own, tok.args[k].n, pc, "MoveOutOfBorrowedParam") \subseteq Nat \X Code
    BY <1>2, <1>5, UseType
  <1>7. MoveDiags(tok) \subseteq Nat \X Code
    BY <1>1, <1>2, <1>6 DEF MoveDiags
  <1> QED BY <1>3, <1>4, <1>7

\* Control goes to a position.
LEMMA TargetsType ==
  ASSUME TypeOK, NEW i \in Nat \ {0}
  PROVE  Targets(i) \subseteq Nat \ {0}
  <1>1. \A S : S \subseteq Nat => Past(S) \subseteq Nat \ {0}
    BY DEF Past
  <1>2. ASSUME NEW j \in Nat PROVE EndOf(j) \subseteq Nat /\ ArmsOf(j) \subseteq Nat
    <2>1. j + 1 .. Len(prog) \subseteq Nat
      BY DEF TypeOK
    <2> QED BY <2>1 DEF EndOf, ArmsOf, After, First
  <1>3. LoopOf(i) \subseteq Nat \ {0} /\ OpenOf(i) \subseteq Nat \ {0}
    <2>1. 1 .. i - 1 \subseteq Nat \ {0}
      OBVIOUS
    <2> QED BY <2>1 DEF LoopOf, OpenOf, Last
  <1>4. {i + 1} \subseteq Nat \ {0}
    OBVIOUS
  <1>5. Past(ArmsOf(i)) \subseteq Nat \ {0} /\ Past(EndOf(i)) \subseteq Nat \ {0}
    BY <1>1, <1>2
  <1>6. UNION {Past(EndOf(j)) : j \in LoopOf(i)} \subseteq Nat \ {0}
    BY <1>1, <1>2, <1>3
  <1> QED BY <1>3, <1>4, <1>5, <1>6 DEF Targets

-----------------------------------------------------------------------------
(* Every step keeps the types *)

\* The initial lattice tracks Outer's first values and the parameters.
LEMMA InitTyped == Init => TypeOK
  <1> SUFFICES ASSUME Init PROVE TypeOK
    OBVIOUS
  <1>1. MaxLen \in Nat
    BY NamesAssumption
  <1>2. \A n \in Name : Home(n) \in Owner /\ Temp(n, 0) \in Owner
    BY <1>1, PlaceType
  <1>3. InitOwn.st \in [Owner -> State]
    BY DEF InitOwn, State
  <1>4. InitOwn.cur \in [Name -> Owner \cup {NoOwner}]
    BY <1>2 DEF InitOwn
  <1>5. InitOwn \in Lattice
    BY <1>3, <1>4 DEF InitOwn, Lattice
  <1>6. NoOutput \in Output
    BY DEF NoOutput, Output
  <1>7. prog \in Seq(Token) /\ Len(prog) <= MaxLen /\ stack \in Seq(Frame)
    BY <1>1 DEF Init
  <1>8. slots \in [Name -> {"undeclared", "live", "moved"}]
    BY DEF Init
  <1> QED BY <1>5, <1>6, <1>7, <1>8 DEF Init, TypeOK

\* A value is consumed and seated.
LEMMA BindTyped ==
  ASSUME TypeOK, NEW tok \in Text, tok.op \in {"decl", "assign"}, At(tok),
         NEW displaced, displaced \subseteq Nat \X Owner, Bind(tok, displaced)
  PROVE  TypeOK'
  <1> USE DEF TypeOK
  <1>1. prog' \in Seq(Token) /\ Len(prog') <= MaxLen /\ pc \in 1 .. MaxLen
    BY AtType, NamesAssumption DEF Siblings, Closers
  <1>2. tok.n \in Name /\ (tok.src # Fresh => tok.src \in Name)
    BY TokenType DEF Source
  <1>3. pc \in 0 .. MaxLen /\ "MoveOutOfBorrowedParam" \in Code
    BY <1>1, NamesAssumption DEF Code
  <1> DEFINE w     == IF tok.src = Fresh THEN own ELSE Consume(own, tok.src)
             place == IF tok.src = Fresh THEN Temp(tok.n, pc) ELSE Home(tok.src)
             diags == IF tok.src = Fresh THEN {}
                      ELSE ConsumeDiags(own, tok.src, pc, "MoveOutOfBorrowedParam")
             moves == IF tok.src = Fresh THEN {<<pc, place>>}
                      ELSE ConsumeTransfers(own, tok.src, pc)
  <1>4. w \in Lattice /\ place \in Owner
    BY <1>2, <1>3, UseType, PlaceType
  <1>5. diags \subseteq Nat \X Code /\ moves \subseteq Nat \X Owner
    BY <1>2, <1>3, <1>4, UseType
  <1>6. /\ own' = Rebind(w, tok.n, place)
        /\ out' = [out EXCEPT !.diags = @ \cup diags, !.transfers = @ \cup moves,
                              !.displaced = @ \cup displaced]
        /\ pc' = pc + 1 /\ last' = pc /\ UNCHANGED <<phase, live, stack, slots>>
    BY DEF Bind
  <1> HIDE DEF w, place, diags, moves
  <1>7. own' \in Lattice
    BY <1>2, <1>4, <1>6, RebindType
  <1>8. out' \in Output
    BY <1>5, <1>6 DEF Output
  <1> QED BY <1>1, <1>6, <1>7, <1>8

\* analyze_var_decl keeps the types.
LEMMA DeclTyped == ASSUME TypeOK, NEW tok \in Text, WalkDecl(tok) PROVE TypeOK'
  BY BindTyped DEF WalkDecl

\* The self-assignment early return of analyze_assign keeps the types.
LEMMA SelfAssignTyped == ASSUME TypeOK, NEW tok \in Text, WalkSelfAssign(tok) PROVE TypeOK'
  <1>1. prog' \in Seq(Token) /\ Len(prog') <= MaxLen
    BY AtType DEF WalkSelfAssign
  <1> QED BY <1>1 DEF TypeOK, WalkSelfAssign

\* Every other assignment keeps the types, what it displaces included.
LEMMA AssignTyped == ASSUME TypeOK, NEW tok \in Text, WalkAssign(tok) PROVE TypeOK'
  <1>1. tok.n \in Name /\ own.cur[tok.n] \in Owner \cup {NoOwner}
    BY TokenType DEF WalkAssign, TypeOK, Lattice
  <1> DEFINE displaced == IF Droppable(tok.n) THEN {<<pc, own.cur[tok.n]>>} ELSE {}
  <1>2. displaced \subseteq Nat \X Owner
    BY <1>1 DEF Droppable, TypeOK
  <1>3. Bind(tok, displaced) /\ At(tok) /\ tok.op = "assign"
    BY DEF WalkAssign
  <1> HIDE DEF displaced
  <1> QED BY <1>2, <1>3, BindTyped

\* analyze_call keeps the types.
LEMMA CallTyped == ASSUME TypeOK, NEW tok \in Text, WalkCall(tok) PROVE TypeOK'
  <1> DEFINE moved == {o \in OwnersOf(tok, "Move") : Consumable(own, o) = "Valid"}
             diags == UseDiags(tok) \cup AliasDiags(tok) \cup MoveDiags(tok)
             moves == {<<pc, o>> : o \in moved}
             st    == [o \in Owner |-> IF o \in moved THEN "Moved" ELSE own.st[o]]
  <1>1. At(tok) /\ tok.args \in Seq(Arg)
    BY TokenType DEF WalkCall
  <1>2. \A k \in DOMAIN tok.args : tok.args[k].n \in Name
    <2>1. \A k \in DOMAIN tok.args : tok.args[k] \in Arg
      BY <1>1
    <2> QED BY <2>1 DEF Arg
  <1>3. OwnersOf(tok, "Move") \subseteq Owner
    BY <1>2, UseType DEF OwnersOf, TypeOK
  <1>4. moves \subseteq Nat \X Owner
    BY <1>3 DEF TypeOK
  <1>5. diags \subseteq Nat \X Code
    BY <1>1, CallDiagsType
  <1>6. st \in [Owner -> State]
    BY DEF TypeOK, Lattice, State
  <1>7. /\ own' = [own EXCEPT !.st = st]
        /\ out' = [out EXCEPT !.diags = out.diags \cup diags,
                              !.transfers = out.transfers \cup moves]
        /\ pc' = pc + 1 /\ last' = pc /\ UNCHANGED <<phase, live, stack, slots>>
    BY DEF WalkCall
  <1> HIDE DEF moved, diags, moves, st
  <1>8. own' \in Lattice
    BY <1>6, <1>7 DEF TypeOK, Lattice
  <1>9. out' \in Output
    BY <1>4, <1>5, <1>7 DEF TypeOK, Output
  <1>10. prog' \in Seq(Token) /\ Len(prog') <= MaxLen
    BY <1>1, AtType
  <1> QED BY <1>7, <1>8, <1>9, <1>10 DEF TypeOK

\* analyze_return keeps the types.
LEMMA ReturnTyped == ASSUME TypeOK, NEW tok \in Text, WalkReturn(tok) PROVE TypeOK'
  <1>1. prog' \in Seq(Token) /\ Len(prog') <= MaxLen /\ tok.src \in Source
    BY AtType, TokenType DEF WalkReturn
  <1>2. pc' \in Nat \ {0} /\ live' = FALSE /\ UNCHANGED <<phase, last, stack, slots>>
    BY DEF WalkReturn, TypeOK
  <1>3. CASE tok.src = Fresh
    BY <1>1, <1>2, <1>3 DEF WalkReturn, TypeOK
  <1>4. CASE tok.src # Fresh
    <2> DEFINE diags == ConsumeDiags(own, tok.src, pc, "ReturnBorrowedValue")
               moves == ConsumeTransfers(own, tok.src, pc)
    <2>1. tok.src \in Name /\ "ReturnBorrowedValue" \in Code
      BY <1>1, <1>4 DEF Source, Code
    <2>2. diags \subseteq Nat \X Code /\ moves \subseteq Nat \X Owner
      BY <2>1, UseType DEF TypeOK
    <2>3. own' = Consume(own, tok.src) /\ out' = [out EXCEPT !.diags = out.diags \cup diags,
                                                       !.transfers = out.transfers \cup moves]
      BY <1>4 DEF WalkReturn
    <2>4. own' \in Lattice
      BY <2>1, <2>3, UseType DEF TypeOK
    <2> HIDE DEF diags, moves
    <2>5. out' \in Output
      BY <2>2, <2>3 DEF TypeOK, Output
    <2> QED BY <1>1, <1>2, <2>4, <2>5 DEF TypeOK
  <1> QED BY <1>3, <1>4

\* break and continue keep the types.
LEMMA JumpTyped == ASSUME TypeOK, NEW tok \in Text, WalkJump(tok) PROVE TypeOK'
  <1>1. prog' \in Seq(Token) /\ Len(prog') <= MaxLen
    BY AtType DEF WalkJump
  <1>2. stack' \in Seq(Frame)
    BY FlowingType DEF WalkJump, TypeOK
  <1>3. pc' \in Nat \ {0} /\ live' = FALSE /\ UNCHANGED <<phase, own, last, out, slots>>
    BY DEF WalkJump, TypeOK
  <1> QED BY <1>1, <1>2, <1>3 DEF TypeOK

\* The opening of an if keeps the types.
LEMMA IfTyped == ASSUME TypeOK, NEW tok \in Text, WalkIf(tok) PROVE TypeOK'
  <1>1. prog' \in Seq(Token) /\ Len(prog') <= MaxLen
    BY AtType DEF WalkIf
  <1>2. stack' \in Seq(Frame)
    BY OpenedType, PushType DEF WalkIf, TypeOK
  <1> QED BY <1>1, <1>2 DEF WalkIf, TypeOK

\* An arm that ends and the next one keep the types.
LEMMA NextArmTyped == ASSUME TypeOK, NEW tok \in Text, WalkNextArm(tok) PROVE TypeOK'
  <1> DEFINE f == Head(stack)
             g == [f EXCEPT !.arms = Append(f.arms, ThisArm), !.hasElse = tok.op = "else"]
  <1>1. prog' \in Seq(Token) /\ Len(prog') <= MaxLen
    BY AtType DEF WalkNextArm
  <1>2. stack # <<>>
    BY DEF WalkNextArm, Innermost
  <1>3. f \in Frame /\ Tail(stack) \in Seq(Frame)
    BY <1>2, TopType DEF TypeOK
  <1>4. Append(f.arms, ThisArm) \in Seq(ArmEnd)
    BY <1>2, MergedArmsType
  <1>5. g \in Frame /\ f.snap \in Lattice
    BY <1>3, <1>4 DEF Frame
  <1>6. stack' = <<g>> \o Tail(stack) /\ own' = f.snap
    BY DEF WalkNextArm
  <1>7. stack' \in Seq(Frame)
    BY <1>3, <1>5, <1>6, PushType
  <1> QED BY <1>1, <1>5, <1>6, <1>7 DEF WalkNextArm, TypeOK

\* The merge after an if keeps the types.
LEMMA EndIfTyped == ASSUME TypeOK, NEW tok \in Text, WalkEndIf(tok) PROVE TypeOK'
  <1> DEFINE f      == Head(stack)
             walked == Append(f.arms, ThisArm)
             arms   == IF f.hasElse THEN walked
                       ELSE Append(walked, [own |-> f.snap, falls |-> TRUE, last |-> 0])
  <1>1. prog' \in Seq(Token) /\ Len(prog') <= MaxLen
    BY AtType DEF WalkEndIf
  <1>2. stack # <<>>
    BY DEF WalkEndIf, Innermost
  <1>3. f \in Frame /\ Tail(stack) \in Seq(Frame)
    BY <1>2, TopType DEF TypeOK
  <1>4. arms \in Seq(ArmEnd) /\ f.snap \in Lattice /\ f.at \in Nat
    BY <1>2, <1>3, MergedArmsType DEF Frame
  <1>5. /\ own' \in MergeBranches(f.snap, arms)
        /\ out' = [out EXCEPT !.armDrops = out.armDrops \cup ArmDrops(arms)]
        /\ live' = (\E k \in DOMAIN arms : arms[k].falls)
        /\ last' = f.at /\ stack' = Tail(stack) /\ pc' = pc + 1 /\ UNCHANGED <<phase, slots>>
    BY DEF WalkEndIf
  <1> HIDE DEF f, arms
  <1>6. own' \in Lattice
    BY <1>4, <1>5, MergeBranchesType
  <1>7. out' \in Output
    BY <1>4, <1>5, ArmDropsType DEF TypeOK, Output
  <1>8. live' \in BOOLEAN
    BY <1>5
  <1> QED BY <1>1, <1>3, <1>4, <1>5, <1>6, <1>7, <1>8 DEF TypeOK

\* The opening of a loop keeps the types.
LEMMA WhileTyped == ASSUME TypeOK, NEW tok \in Text, WalkWhile(tok) PROVE TypeOK'
  <1>1. prog' \in Seq(Token) /\ Len(prog') <= MaxLen
    BY AtType DEF WalkWhile
  <1>2. stack' \in Seq(Frame)
    BY OpenedType, PushType DEF WalkWhile, TypeOK
  <1>3. out' \in Output
    BY DEF WalkWhile, NoOutput, Output
  <1>4. pc' \in Nat \ {0} /\ UNCHANGED <<phase, own, live, last, slots>>
    BY DEF WalkWhile, TypeOK
  <1> QED BY <1>1, <1>2, <1>3, <1>4 DEF TypeOK

\* A frame takes a new entry or the next phase.
LEMMA RepeatedType ==
  ASSUME NEW f \in Frame, NEW merged \in Lattice
  PROVE  /\ NextEntry(f, merged) \in Frame /\ NextEntry(f, merged).entry = merged
         /\ [Repeated(f) EXCEPT !.phase = "check"] \in Frame
         /\ [Repeated(f) EXCEPT !.phase = "check"].entry = f.entry
  <1> DEFINE b == BodyFlows
             g == [f EXCEPT !.flows = b]
  <1>1. b \in BOOLEAN
    BY DEF BodyFlows, Frame
  <1> HIDE DEF b
  <1>2. g \in Frame /\ g.entry = f.entry
    BY <1>1 DEF Frame
  <1>3. Repeated(f) = g
    BY DEF Repeated, b
  <1> HIDE DEF g
  <1>4. [g EXCEPT !.phase = "check"] \in Frame /\ [g EXCEPT !.phase = "check"].entry = g.entry
    BY <1>2 DEF Frame
  <1>5. [g EXCEPT !.entry = merged] \in Frame /\ [g EXCEPT !.entry = merged].entry = merged
    BY <1>2 DEF Frame
  <1> QED BY <1>2, <1>3, <1>4, <1>5 DEF NextEntry

\* A propagation pass that ends keeps the types.
LEMMA PropagateTyped == ASSUME TypeOK, NEW tok \in Text, Propagate(tok) PROVE TypeOK'
  <1> DEFINE f      == Head(stack)
             flows  == BodyFlows
             merged == MergeLoopPlain(f.entry, own, flows)
  <1>1. prog' \in Seq(Token) /\ Len(prog') <= MaxLen
    BY AtType DEF Propagate
  <1>2. stack # <<>>
    BY DEF Propagate, Innermost
  <1>3. f \in Frame /\ Tail(stack) \in Seq(Frame)
    BY <1>2, TopType DEF TypeOK
  <1>4. /\ f.entry \in Lattice /\ f.snap \in Lattice /\ f.saved \in Output
        /\ f.at \in Nat /\ flows \in BOOLEAN
    BY <1>3 DEF Frame, TypeOK, BodyFlows
  <1>5. merged \in Lattice
    BY <1>4, MergeLoopPlainType DEF TypeOK
  <1>6. pc' \in Nat \ {0} /\ live' = TRUE /\ UNCHANGED <<phase, last, slots>>
    BY <1>4 DEF Propagate
  <1>7. CASE own' = merged /\ stack' = <<NextEntry(f, merged)>> \o Tail(stack) /\ out' = NoOutput
    <2>1. stack' \in Seq(Frame)
      BY <1>3, <1>5, <1>7, RepeatedType, PushType
    <2>2. out' \in Output
      BY <1>7 DEF NoOutput, Output
    <2> QED BY <1>1, <1>5, <1>6, <1>7, <2>1, <2>2 DEF TypeOK
  <1>8. CASE /\ own' \in LoopOverrides(merged, f.snap, own, flows)
             /\ stack' = <<[Repeated(f) EXCEPT !.phase = "check"]>> \o Tail(stack)
             /\ out' = f.saved
    <2>1. stack' \in Seq(Frame)
      BY <1>3, <1>5, <1>8, RepeatedType, PushType
    <2>2. own' \in Lattice
      BY <1>4, <1>5, <1>8, LoopOverridesType DEF TypeOK
    <2> QED BY <1>1, <1>4, <1>6, <1>8, <2>1, <2>2 DEF TypeOK
  <1> QED BY <1>7, <1>8 DEF Propagate

\* The check pass that ends keeps the types.
LEMMA CheckedLoopTyped == ASSUME TypeOK, NEW tok \in Text, CheckedLoop(tok) PROVE TypeOK'
  <1> DEFINE f      == Head(stack)
             flows  == BodyFlows
             merged == MergeLoopPlain(f.snap, own, flows)
  <1>1. prog' \in Seq(Token) /\ Len(prog') <= MaxLen
    BY AtType DEF CheckedLoop
  <1>2. stack # <<>>
    BY DEF CheckedLoop, Innermost
  <1>3. f \in Frame /\ Tail(stack) \in Seq(Frame)
    BY <1>2, TopType DEF TypeOK
  <1>4. f.snap \in Lattice /\ f.at \in Nat /\ flows \in BOOLEAN
    BY <1>3 DEF Frame, TypeOK, BodyFlows
  <1>5. merged \in Lattice
    BY <1>4, MergeLoopPlainType DEF TypeOK
  <1>6. own' \in Lattice
    <2>1. own' \in LoopOverrides(merged, f.snap, own, flows)
      BY DEF CheckedLoop
    <2> QED BY <1>4, <1>5, <2>1, LoopOverridesType DEF TypeOK
  <1>7. stack' \in Seq(Frame)
    BY <1>3, FlowingType DEF CheckedLoop
  <1>8. /\ pc' \in Nat \ {0} /\ live' = TRUE /\ last' \in Nat /\ out' = out
        /\ UNCHANGED <<phase, slots>>
    BY <1>4 DEF CheckedLoop, KeptOutput, TypeOK
  <1> QED BY <1>1, <1>6, <1>7, <1>8 DEF TypeOK

\* The end of the walk and the execution keep the types.
LEMMA RunTyped == ASSUME TypeOK, WalkEnd \/ Run \/ Finished PROVE TypeOK'
  <1> USE DEF TypeOK
  <1>1. CASE WalkEnd
    BY <1>1 DEF WalkEnd
  <1>2. CASE RunBind
    BY <1>2 DEF RunBind
  <1>3. CASE RunCall
    BY <1>3 DEF RunCall
  <1>4. CASE RunReturn
    BY <1>4 DEF RunReturn
  <1>5. CASE RunControl
    BY <1>5, TargetsType DEF RunControl
  <1>6. CASE RunOffEnd
    BY <1>6 DEF RunOffEnd
  <1>7. CASE Finished
    BY <1>7 DEF Finished, vars
  <1> QED BY <1>1, <1>2, <1>3, <1>4, <1>5, <1>6, <1>7 DEF Run

\* The state of the walk and of the execution is what TypeOK says, for every
\* body: the lattice stays total, a frame's arms and snapshots are lattices,
\* and what is reported stands at an instruction.
THEOREM Typed == Spec => []TypeOK
  <1>1. TypeOK /\ [Next]_vars => TypeOK'
    <2> SUFFICES ASSUME TypeOK, [Next]_vars PROVE TypeOK'
      OBVIOUS
    <2>1. CASE UNCHANGED vars
      BY <2>1 DEF vars, TypeOK
    <2>2. CASE WalkEnd \/ Run \/ Finished
      BY <2>2, RunTyped
    <2>3. ASSUME NEW tok \in Text,
                 \/ WalkDecl(tok) \/ WalkSelfAssign(tok) \/ WalkAssign(tok)
                 \/ WalkCall(tok) \/ WalkReturn(tok) \/ WalkJump(tok)
                 \/ WalkIf(tok) \/ WalkNextArm(tok) \/ WalkEndIf(tok)
                 \/ WalkWhile(tok) \/ Propagate(tok) \/ CheckedLoop(tok)
          PROVE  TypeOK'
      BY <2>3, DeclTyped, SelfAssignTyped, AssignTyped, CallTyped, ReturnTyped, JumpTyped,
         IfTyped, NextArmTyped, EndIfTyped, WhileTyped, PropagateTyped, CheckedLoopTyped
    <2> QED BY <2>1, <2>2, <2>3 DEF Next, Walk, WalkToken
  <1> QED BY <1>1, InitTyped, PTL DEF Spec

-----------------------------------------------------------------------------
(* The entry of a loop ascends *)

\* A step keeps the innermost frame's entry, raises it by a loop join, or
\* opens or closes a construct.
LEMMA StepAscends ==
  ASSUME TypeOK, NEW tok \in Text, stack # <<>>, Len(stack') = Len(stack),
         \/ WalkJump(tok) \/ WalkIf(tok) \/ WalkNextArm(tok) \/ WalkEndIf(tok)
         \/ WalkWhile(tok) \/ Propagate(tok) \/ CheckedLoop(tok)
  PROVE  Ascends(Head(stack).entry, Head(stack').entry)
  <1> DEFINE f == Head(stack)
  <1>1. f \in Frame /\ Tail(stack) \in Seq(Frame) /\ Len(stack) = Len(Tail(stack)) + 1
    BY TopType DEF TypeOK
  <1>2. stack \in Seq(Frame) /\ Len(stack) \in Nat
    BY DEF TypeOK
  <1>3. Head(stack').entry = f.entry => Ascends(f.entry, Head(stack').entry)
    BY DEF Ascends
  <1>4. CASE WalkJump(tok)
    BY <1>2, <1>3, <1>4, FlowingType DEF WalkJump
  <1>5. CASE WalkIf(tok) \/ WalkWhile(tok)
    <2>1. Len(stack') = Len(stack) + 1
      BY <1>2, <1>5, OpenedType, PushType DEF WalkIf, WalkWhile
    <2> QED BY <1>2, <2>1
  <1>6. CASE WalkNextArm(tok)
    <2> DEFINE g == [f EXCEPT !.arms = Append(f.arms, ThisArm), !.hasElse = tok.op = "else"]
    <2>1. g.entry = f.entry
      BY <1>1 DEF Frame
    <2>2. stack' = <<g>> \o Tail(stack)
      BY <1>6 DEF WalkNextArm
    <2>3. Head(stack') = g
      BY <1>1, <2>2
    <2> QED BY <1>3, <2>1, <2>3
  <1>7. CASE WalkEndIf(tok)
    BY <1>1, <1>7 DEF WalkEndIf
  <1>8. CASE CheckedLoop(tok)
    <2>1. Len(stack') = Len(Tail(stack))
      BY <1>1, <1>8, FlowingType DEF CheckedLoop
    <2> QED BY <1>1, <2>1
  <1>9. CASE Propagate(tok)
    <2> DEFINE merged == MergeLoopPlain(f.entry, own, BodyFlows)
    <2>1. f.entry \in Lattice /\ own \in Lattice /\ BodyFlows \in BOOLEAN
      BY <1>1 DEF Frame, TypeOK, BodyFlows
    <2>2. merged \in Lattice /\ Ascends(f.entry, merged)
      BY <2>1, MergeLoopPlainType, LoopJoinAscends
    <2>3. CASE stack' = <<NextEntry(f, merged)>> \o Tail(stack)
      <3>1. NextEntry(f, merged) \in Frame /\ NextEntry(f, merged).entry = merged
        BY <1>1, <2>2, RepeatedType
      <3>2. Head(stack') = NextEntry(f, merged)
        BY <1>1, <2>3, <3>1, PushType
      <3> QED BY <2>2, <3>1, <3>2
    <2>4. CASE stack' = <<[Repeated(f) EXCEPT !.phase = "check"]>> \o Tail(stack)
      <3> DEFINE g == [Repeated(f) EXCEPT !.phase = "check"]
      <3>1. g \in Frame /\ g.entry = f.entry
        BY <1>1, <2>2, RepeatedType
      <3> HIDE DEF g
      <3>2. Head(stack') = g
        BY <1>1, <2>4, <3>1, PushType DEF g
      <3> QED BY <1>3, <3>1, <3>2
    <2> QED BY <1>9, <2>3, <2>4 DEF Propagate
  <1> QED BY <1>4, <1>5, <1>6, <1>7, <1>8, <1>9

\* propagate_loop_entry moves a loop's entry only up the lattice: Moved is
\* never taken back, no state is lost and no home is reseated between passes.
THEOREM EntriesAscend == Spec => EntryAscends
  <1> DEFINE A == stack # <<>> /\ Len(stack') = Len(stack)
                    => Ascends(Head(stack).entry, Head(stack').entry)
  <1>1. TypeOK /\ [Next]_vars => A
    <2> SUFFICES ASSUME TypeOK, [Next]_vars, stack # <<>>, Len(stack') = Len(stack)
                 PROVE  Ascends(Head(stack).entry, Head(stack').entry)
      OBVIOUS
    <2>1. stack' = stack => Ascends(Head(stack).entry, Head(stack').entry)
      BY DEF Ascends
    <2>2. CASE UNCHANGED vars \/ WalkEnd \/ Run \/ Finished
      BY <2>1, <2>2 DEF vars, WalkEnd, Run, RunBind, RunCall, RunReturn, RunControl, RunOffEnd,
         Finished
    <2>3. ASSUME NEW tok \in Text,
                 \/ WalkDecl(tok) \/ WalkSelfAssign(tok) \/ WalkAssign(tok)
                 \/ WalkCall(tok) \/ WalkReturn(tok)
          PROVE  Ascends(Head(stack).entry, Head(stack').entry)
      BY <2>1, <2>3 DEF WalkDecl, WalkSelfAssign, WalkAssign, WalkCall, WalkReturn, Bind
    <2>4. ASSUME NEW tok \in Text,
                 \/ WalkJump(tok) \/ WalkIf(tok) \/ WalkNextArm(tok) \/ WalkEndIf(tok)
                 \/ WalkWhile(tok) \/ Propagate(tok) \/ CheckedLoop(tok)
          PROVE  Ascends(Head(stack).entry, Head(stack').entry)
      BY <2>4, StepAscends
    <2> QED BY <2>2, <2>3, <2>4 DEF Next, Walk, WalkToken
  <1>2. Spec => []TypeOK
    BY Typed
  <1>3. []TypeOK /\ [][Next]_vars => [][A]_vars
    BY <1>1, PTL
  <1> QED BY <1>2, <1>3 DEF Spec, EntryAscends

-----------------------------------------------------------------------------
(* Nesting and scopes of a text *)

\* How deep the text p is nested before its token i, the level of a token, and
\* the names declared, in scope, before token i.
Opens(p, i)  == {j \in 1 .. i : p[j].op \in Openers}
Closes(p, i) == {j \in 1 .. i : p[j].op \in Closers}
Depth(p, i)  == Cardinality(Opens(p, i - 1)) - Cardinality(Closes(p, i - 1))
LevelIn(p, i) ==
  Cardinality(Opens(p, i - 1)) - Cardinality(Closes(p, i)) - (IF p[i].op \in Siblings THEN 1 ELSE 0)
Declared(p, n, i) ==
  \/ n \notin Inner
  \/ \E j \in 1 .. i - 1 : /\ p[j].op = "decl" /\ p[j].n = n
                           /\ \A k \in j .. i - 1 : LevelIn(p, k) >= LevelIn(p, j)

\* Counting one position further.
LEMMA CountStep ==
  ASSUME NEW S, NEW i \in Nat \ {0}
  PROVE  /\ Cardinality({j \in 1 .. i - 1 : j \in S}) \in Nat
         /\ Cardinality({j \in 1 .. i : j \in S})
              = Cardinality({j \in 1 .. i - 1 : j \in S}) + IF i \in S THEN 1 ELSE 0
  <1> DEFINE B == {j \in 1 .. i - 1 : j \in S}
  <1>1. IsFiniteSet(1 .. i - 1)
    BY FS_Interval
  <1>2. IsFiniteSet(B)
    BY <1>1, FS_Subset
  <1>3. Cardinality(B) \in Nat
    BY <1>2, FS_CardinalityType
  <1>4. i \notin B
    OBVIOUS
  <1>5. {j \in 1 .. i : j \in S} = IF i \in S THEN B \cup {i} ELSE B
    OBVIOUS
  <1>6. Cardinality(B \cup {i}) = Cardinality(B) + 1
    BY <1>2, <1>4, FS_AddElement
  <1> HIDE DEF B
  <1>7. Cardinality({j \in 1 .. i : j \in S}) = Cardinality(B) + IF i \in S THEN 1 ELSE 0
    BY <1>3, <1>5, <1>6
  <1> QED BY <1>3, <1>7 DEF B

\* A token nests or ends a nesting; brackets stand at the level outside.
LEMMA DepthStep ==
  ASSUME NEW p, NEW i \in Nat \ {0}
  PROVE  /\ Depth(p, i) \in Int
         /\ Depth(p, i + 1) = Depth(p, i) + (IF p[i].op \in Openers THEN 1
                                             ELSE IF p[i].op \in Closers THEN -1 ELSE 0)
         /\ LevelIn(p, i) = Depth(p, i) - (IF p[i].op \in Closers \cup Siblings THEN 1 ELSE 0)
  <1> DEFINE O == {j \in Nat : p[j].op \in Openers}
             C == {j \in Nat : p[j].op \in Closers}
  <1>1. \A k \in {i - 1, i} : Opens(p, k) = {j \in 1 .. k : j \in O} /\ Closes(p, k) = {j \in 1 .. k : j \in C}
    BY DEF Opens, Closes
  <1>2. (i \in O <=> p[i].op \in Openers) /\ (i \in C <=> p[i].op \in Closers)
    OBVIOUS
  <1> HIDE DEF O, C
  <1>3. /\ Cardinality(Opens(p, i - 1)) \in Nat
        /\ Cardinality(Opens(p, i)) = Cardinality(Opens(p, i - 1)) + IF i \in O THEN 1 ELSE 0
    BY <1>1, CountStep
  <1>4. /\ Cardinality(Closes(p, i - 1)) \in Nat
        /\ Cardinality(Closes(p, i)) = Cardinality(Closes(p, i - 1)) + IF i \in C THEN 1 ELSE 0
    BY <1>1, CountStep
  <1>5. i + 1 - 1 = i
    OBVIOUS
  <1>6. Openers \cap Closers = {} /\ Openers \cap Siblings = {} /\ Siblings \cap Closers = {}
    BY DEF Openers, Closers, Siblings
  <1> QED BY <1>2, <1>3, <1>4, <1>5, <1>6 DEF Depth, LevelIn

\* Texts that agree up to a position nest alike up to it.
LEMMA SameNesting ==
  ASSUME NEW p, NEW q, NEW m \in Nat, \A j \in 1 .. m : q[j] = p[j]
  PROVE  /\ \A i \in 1 .. m + 1 : Depth(q, i) = Depth(p, i)
         /\ \A n, i : i \in 1 .. m + 1 => (Declared(q, n, i) <=> Declared(p, n, i))
  <1>1. \A i \in 0 .. m : Opens(q, i) = Opens(p, i) /\ Closes(q, i) = Closes(p, i)
    BY DEF Opens, Closes
  <1>2. \A i \in 1 .. m : LevelIn(q, i) = LevelIn(p, i)
    <2> TAKE i \in 1 .. m
    <2>1. i \in 0 .. m /\ i - 1 \in 0 .. m
      OBVIOUS
    <2> QED BY <1>1, <2>1 DEF LevelIn
  <1>3. \A i \in 1 .. m + 1 : Depth(q, i) = Depth(p, i)
    <2> TAKE i \in 1 .. m + 1
    <2>1. i - 1 \in 0 .. m
      OBVIOUS
    <2> QED BY <1>1, <2>1 DEF Depth
  <1>4. ASSUME NEW n, NEW i \in 1 .. m + 1 PROVE Declared(q, n, i) <=> Declared(p, n, i)
    <2>1. \A j \in 1 .. i - 1 : j \in 1 .. m /\ j .. i - 1 \subseteq 1 .. m
      OBVIOUS
    <2>2. \A j \in 1 .. i - 1 : q[j] = p[j] /\ LevelIn(q, j) = LevelIn(p, j)
                                /\ \A k \in j .. i - 1 : LevelIn(q, k) = LevelIn(p, k)
      BY <1>2, <2>1
    <2> QED BY <2>2 DEF Declared
  <1> QED BY <1>3, <1>4

\* What comes into scope at a token: what it declares, and else nothing.
LEMMA ScopeStep ==
  ASSUME NEW p, NEW i \in Nat \ {0}, NEW n, Declared(p, n, i + 1)
  PROVE  Declared(p, n, i) \/ (p[i].op = "decl" /\ p[i].n = n)
  <1>1. CASE n \notin Inner
    BY <1>1 DEF Declared
  <1>2. CASE n \in Inner
    <2>1. PICK j \in 1 .. i : /\ p[j].op = "decl" /\ p[j].n = n
                              /\ \A k \in j .. i : LevelIn(p, k) >= LevelIn(p, j)
      BY <1>2 DEF Declared
    <2>2. j # i => j \in 1 .. i - 1 /\ j .. i - 1 \subseteq j .. i
      OBVIOUS
    <2> QED BY <2>1, <2>2 DEF Declared
  <1> QED BY <1>1, <1>2

\* What is in scope behind a bracket that ends a block was so before the block.
LEMMA ScopeEnds ==
  ASSUME NEW p, NEW a \in Nat \ {0}, NEW i \in Nat, a < i, NEW n,
         p[a].op \in Openers, p[i].op \in Closers \cup Siblings,
         \A k \in a + 1 .. i : Depth(p, k) > Depth(p, a), Depth(p, i) = Depth(p, a) + 1,
         Declared(p, n, i + 1)
  PROVE  Declared(p, n, a)
  <1>1. CASE n \notin Inner
    BY <1>1 DEF Declared
  <1>2. CASE n \in Inner
    <2>1. PICK j \in 1 .. i : /\ p[j].op = "decl" /\ p[j].n = n
                              /\ \A k \in j .. i : LevelIn(p, k) >= LevelIn(p, j)
      BY <1>2 DEF Declared
    <2>2. LevelIn(p, i) = Depth(p, a) /\ LevelIn(p, i) >= LevelIn(p, j)
      BY <2>1, DepthStep
    <2>3. j # i /\ j # a
      BY <2>1 DEF Openers, Closers, Siblings
    <2>4. j < a
      <3>1. SUFFICES ASSUME j > a PROVE FALSE
        BY <2>3
      <3>2. LevelIn(p, j) = Depth(p, j)
        BY <2>1, DepthStep DEF Closers, Siblings
      <3>3. Depth(p, j) > Depth(p, a) /\ Depth(p, j) \in Int /\ Depth(p, a) \in Int
        BY <2>1, <3>1, DepthStep
      <3> QED BY <2>2, <3>2, <3>3
    <2>5. j \in 1 .. a - 1 /\ j .. a - 1 \subseteq j .. i
      BY <2>4
    <2> QED BY <2>1, <2>5 DEF Declared
  <1> QED BY <1>1, <1>2

-----------------------------------------------------------------------------
(* What is held stays held *)

\* The name has an owner with a state; and no name that has one in a loses it in b.
Held(w, n)  == w.cur[n] # NoOwner /\ w.st[w.cur[n]] # "NotTracked"
Above(a, b) == \A n \in Name : Held(a, n) => Held(b, n)

\* A use of a value takes no state away.
LEMMA ConsumeAbove ==
  ASSUME NEW w \in Lattice, NEW n \in Name
  PROVE  Above(w, Consume(w, n))
  <1>1. Consume(w, n).cur = w.cur
    BY DEF Consume, Lattice
  <1>2. \A o \in Owner : w.st[o] # "NotTracked" => Consume(w, n).st[o] # "NotTracked"
    BY DEF Consume, Lattice
  <1>3. \A m \in Name : w.cur[m] \in Owner \cup {NoOwner}
    BY DEF Lattice
  <1> QED BY <1>1, <1>2, <1>3 DEF Above, Held

\* Seating a place makes its name held.
LEMMA RebindAbove ==
  ASSUME NEW w \in Lattice, NEW n \in Name, NEW place \in Owner
  PROVE  Above(w, Rebind(w, n, place)) /\ Held(Rebind(w, n, place), n)
  <1> DEFINE v == Rebind(w, n, place)
  <1>1. /\ v.cur[n] = place /\ v.st[place] = "Valid" /\ place # NoOwner
        /\ \A m \in Name \ {n} : v.cur[m] = w.cur[m]
        /\ \A o \in Owner : o # place => v.st[o] = w.st[o]
    BY NamesAssumption DEF Rebind, Lattice
  <1>2. \A m \in Name : w.cur[m] \in Owner \cup {NoOwner}
    BY DEF Lattice
  <1> HIDE DEF v
  <1>3. Above(w, v) /\ Held(v, n)
    BY <1>1, <1>2 DEF Above, Held
  <1> QED BY <1>3 DEF v

\* An ascent keeps what is held, with its owner.
LEMMA AscentHolds ==
  ASSUME NEW a \in Lattice, NEW b \in Lattice, Ascends(a, b)
  PROVE  /\ Above(a, b)
         /\ \A n \in Name : Held(a, n) => b.cur[n] = a.cur[n] /\ b.st[a.cur[n]] # "NotTracked"
  <1>1. \A n \in Name : a.cur[n] \in Owner \cup {NoOwner}
    BY DEF Lattice
  <1> QED BY <1>1 DEF Ascends, Above, Held

\* Ascents compose.
LEMMA AscentOfAscent ==
  ASSUME NEW a \in Lattice, NEW b \in Lattice, NEW c \in Lattice, Ascends(a, b), Ascends(b, c)
  PROVE  Ascends(a, c)
  BY DEF Ascends

\* A join has a state if one side has.
LEMMA JoinHolds ==
  ASSUME NEW obs, DOMAIN obs \subseteq Nat, NEW k \in DOMAIN obs, obs[k] # "NotTracked"
  PROVE  JoinStates(obs) # "NotTracked"
  <1>1. Tracked(obs) # {} /\ Tracked(obs) \subseteq Nat
    BY DEF Tracked
  <1>2. Least(Tracked(obs)) \in Tracked(obs)
    BY <1>1, LeastExists
  <1> QED BY <1>1, <1>2 DEF JoinStates, FirstTracked, Tracked

\* The first side that seats a home has the say.
LEMMA FirstSeatHolds ==
  ASSUME NEW obs, DOMAIN obs \subseteq Nat, NEW k \in DOMAIN obs, \A j \in DOMAIN obs : k <= j,
         obs[k] # NoOwner
  PROVE  FirstSeat(obs) = obs[k]
  <1>1. k \in Seated(obs) /\ Seated(obs) \subseteq Nat /\ Seated(obs) \subseteq DOMAIN obs
    BY DEF Seated
  <1>2. Least(Seated(obs)) \in Seated(obs) /\ Least(Seated(obs)) <= k
    BY <1>1, LeastExists
  <1>3. Least(Seated(obs)) = k
    BY <1>1, <1>2
  <1> QED BY <1>1, <1>3 DEF FirstSeat

\* An override of what is held before gives it a state of one of the sides.
LEMMA OverridesAbove ==
  ASSUME NEW a \in Lattice, NEW w \in Lattice, NEW sides, Sides(sides), DOMAIN sides # {},
         \A k \in DOMAIN sides : Above(a, sides[k]),
         \A n \in Name : Held(a, n) => w.cur[n] = a.cur[n] /\ w.st[a.cur[n]] # "NotTracked",
         NEW v \in Overrides(w, a.cur, sides)
  PROVE  Above(a, v)
  <1> DEFINE seated == {a.cur[n] : n \in {m \in Name : a.cur[m] # NoOwner}}
  <1>1. PICK pick \in [seated -> Name] :
          /\ \A o \in seated : a.cur[pick[o]] = o
          /\ v = [w EXCEPT !.st = [o \in Owner |-> IF o \in seated
                                     THEN BindingState(a.cur, sides, pick[o]) ELSE w.st[o]]]
    BY DEF Overrides
  <1>2. /\ v.cur = w.cur
        /\ \A o \in Owner : o \in seated => v.st[o] = BindingState(a.cur, sides, pick[o])
    BY <1>1 DEF Lattice
  <1>3. ASSUME NEW m \in Name, Held(a, m) PROVE BindingState(a.cur, sides, m) # "NotTracked"
    <2> DEFINE obs == [k \in DOMAIN sides |->
                         sides[k].st[IF sides[k].cur[m] = NoOwner THEN a.cur[m] ELSE sides[k].cur[m]]]
    <2>1. \A k \in DOMAIN sides : obs[k] # "NotTracked"
      BY <1>3 DEF Above, Held
    <2>2. Least(DOMAIN obs) \in DOMAIN sides
      BY LeastExists DEF Sides
    <2>3. BindingState(a.cur, sides, m) = IF AnyMoved(obs) THEN "Moved" ELSE obs[Least(DOMAIN obs)]
      BY DEF BindingState
    <2> HIDE DEF obs
    <2> QED BY <2>1, <2>2, <2>3
  <1>4. ASSUME NEW n \in Name, Held(a, n) PROVE Held(v, n)
    <2> DEFINE o == a.cur[n]
    <2>1. o \in Owner /\ o \in seated /\ o # NoOwner
      BY <1>4 DEF Held, Lattice
    <2>2. pick[o] \in Name /\ a.cur[pick[o]] = o
      BY <1>1, <2>1
    <2>3. Held(a, pick[o])
      BY <1>4, <2>1, <2>2 DEF Held
    <2>4. v.st[o] # "NotTracked"
      BY <1>2, <1>3, <2>1, <2>2, <2>3
    <2>5. v.cur[n] = o
      BY <1>2, <1>4
    <2> QED BY <2>1, <2>4, <2>5 DEF Held
  <1> QED BY <1>4 DEF Above

\* merge_branches keeps what the snapshot holds.
LEMMA MergeBranchesAbove ==
  ASSUME NEW snap \in Lattice, NEW arms \in Seq(ArmEnd),
         \A k \in DOMAIN arms : Above(snap, arms[k].own), NEW v \in MergeBranches(snap, arms)
  PROVE  Above(snap, v)
  <1> DEFINE sides == Ends(arms, Falling(arms))
             ends  == Ends(arms, DOMAIN arms)
             plain == JoinLattices(From(snap, sides), From(snap, ends))
  <1>1. DOMAIN arms \subseteq Nat /\ \A k \in DOMAIN arms : arms[k].own \in Lattice
    <2>1. DOMAIN arms = 1 .. Len(arms) /\ Len(arms) \in Nat /\ \A k \in DOMAIN arms : arms[k] \in ArmEnd
      OBVIOUS
    <2>2. \A a \in ArmEnd : a.own \in Lattice
      BY DEF ArmEnd
    <2> QED BY <2>1, <2>2
  <1>2. Sides(sides) /\ Sides(ends) /\ DOMAIN sides = Falling(arms) /\ Falling(arms) \subseteq DOMAIN arms
        /\ \A k \in DOMAIN sides : sides[k] = arms[k].own
    BY <1>1 DEF Sides, Ends, Falling
  <1>3. \A f : Sides(f) => Sides(From(snap, f)) /\ 0 \in DOMAIN From(snap, f) /\ From(snap, f)[0] = snap
    BY DEF Sides, From
  <1>4. plain \in Lattice
    BY <1>2, <1>3, JoinLatticesType
  <1>5. ASSUME NEW n \in Name, Held(snap, n)
        PROVE  plain.cur[n] = snap.cur[n] /\ plain.st[snap.cur[n]] # "NotTracked"
    <2> DEFINE o == snap.cur[n]
               F == From(snap, sides)
               G == From(snap, ends)
               st == [k \in DOMAIN F |-> F[k].st[o]]
               cur == [k \in DOMAIN G |-> G[k].cur[n]]
    <2>1. o \in Owner /\ o # NoOwner /\ snap.st[o] # "NotTracked"
      BY <1>5 DEF Held, Lattice
    <2>2. DOMAIN st \subseteq Nat /\ 0 \in DOMAIN st /\ st[0] = snap.st[o]
      BY <1>2, <1>3 DEF Sides
    <2>3. DOMAIN cur \subseteq Nat /\ 0 \in DOMAIN cur /\ cur[0] = o
      BY <1>2, <1>3 DEF Sides
    <2>4. plain.st[o] = JoinStates(st) /\ plain.cur[n] = FirstSeat(cur)
      BY <2>1 DEF JoinLattices
    <2> HIDE DEF st, cur, o, plain
    <2>5. JoinStates(st) # "NotTracked"
      BY <2>1, <2>2, JoinHolds
    <2>6. FirstSeat(cur) = o
      <3>1. \A j \in DOMAIN cur : 0 <= j
        BY <2>3
      <3> QED BY <2>1, <2>3, <3>1, FirstSeatHolds
    <2> QED BY <2>4, <2>5, <2>6 DEF o
  <1>6. MergeBranches(snap, arms) = IF Falling(arms) = {} THEN {plain} ELSE Overrides(plain, snap.cur, sides)
    BY DEF MergeBranches
  <1> HIDE DEF plain, sides
  <1>7. CASE Falling(arms) = {}
    BY <1>5, <1>6, <1>7 DEF Above, Held
  <1>8. CASE Falling(arms) # {}
    <2>1. v \in Overrides(plain, snap.cur, sides)
      BY <1>6, <1>8
    <2>2. \A k \in DOMAIN sides : Above(snap, sides[k])
      BY <1>2
    <2> QED BY <1>2, <1>4, <1>5, <1>8, <2>1, <2>2, OverridesAbove
  <1> QED BY <1>7, <1>8

\* A join of a loop keeps what the state before the loop holds.
LEMMA LoopOverridesAbove ==
  ASSUME NEW snap \in Lattice, NEW after \in Lattice, NEW w \in Lattice, Ascends(snap, w), Above(snap, after),
         NEW flows \in BOOLEAN, NEW v \in LoopOverrides(w, snap, after, flows)
  PROVE  Above(snap, v)
  <1>1. CASE flows
    <2> DEFINE sides == <<snap, after>>
    <2>1. v \in Overrides(w, snap.cur, sides)
      BY <1>1 DEF LoopOverrides
    <2>2. Sides(sides) /\ DOMAIN sides = {1, 2} /\ sides[1] = snap /\ sides[2] = after
      BY PairSides
    <2> HIDE DEF sides
    <2>3. Above(snap, snap)
      BY DEF Above
    <2>4. \A k \in DOMAIN sides : Above(snap, sides[k])
      BY <2>2, <2>3
    <2>5. DOMAIN sides # {}
      BY <2>2
    <2> QED BY <2>1, <2>2, <2>4, <2>5, AscentHolds, OverridesAbove
  <1>2. CASE ~flows
    BY <1>2, AscentHolds DEF LoopOverrides
  <1> QED BY <1>1, <1>2

-----------------------------------------------------------------------------
(* The stack of the walk and the text behind it *)

\* Every open construct was opened where the text says, and is still open.
NestedIn(p, frames, i) ==
  /\ Depth(p, i) = Len(frames)
  /\ \A k \in DOMAIN frames :
       /\ frames[k].at \in 1 .. i - 1
       /\ p[frames[k].at].op = frames[k].kind
       /\ Depth(p, frames[k].at) = Len(frames) - k
       /\ \A j \in frames[k].at + 1 .. i : Depth(p, j) > Len(frames) - k

\* What is in scope is held, here and in the state before each open construct.
ScopeHeld(p, frames, i, w) ==
  /\ \A n \in Name : Declared(p, n, i) => Held(w, n)
  /\ \A k \in DOMAIN frames : \A n \in Name :
       Declared(p, n, frames[k].at) => Held(frames[k].snap, n)

\* What an open construct found is held by all that the walk goes on with.
Chain(frames, w) ==
  \A k \in DOMAIN frames :
    /\ Ascends(frames[k].snap, frames[k].entry)
    /\ Above(frames[k].snap, w)
    /\ \A l \in DOMAIN frames : k < l => Above(frames[l].snap, frames[k].snap)
    /\ \A a \in DOMAIN frames[k].arms : Above(frames[k].snap, frames[k].arms[a].own)

\* Token i moves the value of the name c.
Takes(p, i, c) ==
  \/ p[i].op \in {"decl", "assign", "return"} /\ p[i].src = c
  \/ p[i].op = "call" /\ \E k \in DOMAIN p[i].args : p[i].args[k].mode = "Move" /\ p[i].args[k].n = c

\* Token i breaks Rule 7, or moves the value of an inout parameter without
\* storing it anywhere an assignment could.
Repeats(p, i) ==
  /\ p[i].op = "call"
  /\ \E j, k \in DOMAIN p[i].args :
       j # k /\ p[i].args[j].mode # "Borrow" /\ p[i].args[j].n = p[i].args[k].n
Withholds(p, i) == p[i].op \in {"decl", "call", "return"} /\ \E q \in InoutParam : Takes(p, i, q)
Faulty(p, i)    == Repeats(p, i) \/ Withholds(p, i)

\* The walk will come to token i again with a real sink: it is in a loop,
\* outside the first m constructs, that is still propagating.
Again(frames, i, m) ==
  \E k \in DOMAIN frames :
    k > m /\ frames[k].kind = "while" /\ frames[k].phase = "propagate" /\ i < frames[k].at

\* A fault the walk has passed is in the sink, in the one that a propagating
\* loop set aside, or before a loop around it whose sink is.
Noted(p, frames, i, o) ==
  /\ \A j \in 1 .. i - 1 : Faulty(p, j) => o.diags # {} \/ Again(frames, j, 0)
  /\ \A k \in DOMAIN frames : frames[k].kind = "while" =>
       \A j \in 1 .. frames[k].at :
         Faulty(p, j) => frames[k].saved.diags # {} \/ Again(frames, j, k)

\* Everything the walk has at token i of the text p.
WalkInv(p, frames, i, w, o) ==
  /\ NestedIn(p, frames, i)
  /\ ScopeHeld(p, frames, i, w)
  /\ Chain(frames, w)
  /\ Noted(p, frames, i, o)

\* Frames that differ in no more than whether the body comes back.
Alike(frames, others) ==
  /\ DOMAIN others = DOMAIN frames /\ Len(others) = Len(frames)
  /\ \A k \in DOMAIN frames :
       /\ others[k].kind = frames[k].kind /\ others[k].at = frames[k].at
       /\ others[k].snap = frames[k].snap /\ others[k].entry = frames[k].entry
       /\ others[k].arms = frames[k].arms
       /\ others[k].phase = frames[k].phase /\ others[k].saved = frames[k].saved

\* Whether the body comes back is nothing the walk rests on.
LEMMA AlikeKeeps ==
  ASSUME NEW F, NEW G, Alike(F, G), NEW p, NEW i, NEW w, NEW o, WalkInv(p, F, i, w, o)
  PROVE  WalkInv(p, G, i, w, o)
  <1>1. NestedIn(p, G, i)
    BY DEF Alike, WalkInv, NestedIn
  <1>2. ScopeHeld(p, G, i, w)
    BY DEF Alike, WalkInv, ScopeHeld
  <1>3. Chain(G, w)
    BY DEF Alike, WalkInv, Chain
  <1>4. \A j, m : Again(F, j, m) => Again(G, j, m)
    BY DEF Alike, Again
  <1>5. Noted(p, G, i, o)
    BY <1>4 DEF Alike, WalkInv, Noted
  <1> QED BY <1>1, <1>2, <1>3, <1>5 DEF WalkInv

\* A jump leaves frames alike.
LEMMA FlowingAlike ==
  ASSUME NEW frames \in Seq(Frame)
  PROVE  Alike(frames, Flowing(frames))
  <1> DEFINE mark(f) == [f EXCEPT !.flows = @ \/ f.kind = "while"]
  <1>1. \A f \in Frame : /\ mark(f).kind = f.kind /\ mark(f).at = f.at /\ mark(f).snap = f.snap
                         /\ mark(f).entry = f.entry /\ mark(f).arms = f.arms
                         /\ mark(f).phase = f.phase /\ mark(f).saved = f.saved
    BY DEF Frame
  <1>2. \A k \in DOMAIN frames : frames[k] \in Frame /\ Flowing(frames)[k] = mark(frames[k])
    BY DEF Flowing
  <1>3. Len(Flowing(frames)) = Len(frames) /\ DOMAIN Flowing(frames) = DOMAIN frames
    BY FlowingType DEF Flowing
  <1> HIDE DEF mark
  <1> QED BY <1>1, <1>2, <1>3 DEF Alike

\* A token that opens and closes nothing leaves the stack nested as the text is.
LEMMA NestedNext ==
  ASSUME NEW p, NEW F \in Seq(Frame), NEW i \in Nat \ {0}, NestedIn(p, F, i),
         p[i].op \notin Openers \cup Closers
  PROVE  NestedIn(p, F, i + 1)
  <1>1. Depth(p, i + 1) = Len(F)
    <2>1. Depth(p, i) = Len(F) /\ Len(F) \in Nat
      BY DEF NestedIn
    <2>2. Depth(p, i + 1) = Depth(p, i) + 0
      BY DepthStep
    <2> QED BY <2>1, <2>2
  <1>2. ASSUME NEW k \in DOMAIN F, NEW j \in F[k].at + 1 .. i + 1 PROVE Depth(p, j) > Len(F) - k
    <2>1. k \in 1 .. Len(F) /\ F[k].at \in 1 .. i - 1
      BY DEF NestedIn
    <2>2. CASE j = i + 1
      BY <1>1, <2>1, <2>2
    <2>3. CASE j # i + 1
      <3>1. j \in F[k].at + 1 .. i
        BY <2>1, <2>3
      <3> QED BY <3>1 DEF NestedIn
    <2> QED BY <2>2, <2>3
  <1>3. \A k \in DOMAIN F : F[k].at \in 1 .. i - 1 => F[k].at \in 1 .. i + 1 - 1
    OBVIOUS
  <1> QED BY <1>1, <1>2, <1>3 DEF NestedIn

\* A bracket that opens a construct puts its frame on the stack.
LEMMA NestedPush ==
  ASSUME NEW p, NEW F \in Seq(Frame), NEW i \in Nat \ {0}, NestedIn(p, F, i),
         NEW f \in Frame, f.at = i, p[i].op = f.kind
  PROVE  NestedIn(p, <<f>> \o F, i + 1)
  <1> DEFINE G == <<f>> \o F
  <1>1. p[i].op \in Openers
    BY DEF Frame, Openers
  <1>2. Depth(p, i) = Len(F) /\ Depth(p, i + 1) = Len(F) + 1
    BY <1>1, DepthStep DEF NestedIn
  <1>3. /\ Len(G) = Len(F) + 1 /\ DOMAIN G = 1 .. Len(F) + 1 /\ G[1] = f
        /\ \A k \in DOMAIN G \ {1} : k - 1 \in DOMAIN F /\ G[k] = F[k - 1]
    OBVIOUS
  <1> HIDE DEF G
  <1>4. ASSUME NEW k \in DOMAIN G
        PROVE  /\ G[k].at \in 1 .. i + 1 - 1
               /\ p[G[k].at].op = G[k].kind
               /\ Depth(p, G[k].at) = Len(G) - k
               /\ \A j \in G[k].at + 1 .. i + 1 : Depth(p, j) > Len(G) - k
    <2>1. CASE k = 1
      BY <1>2, <1>3, <2>1
    <2>2. CASE k # 1
      <3> DEFINE h == k - 1
      <3>1. h \in DOMAIN F /\ G[k] = F[h] /\ Len(G) - k = Len(F) - h /\ h \in 1 .. Len(F)
        BY <1>3, <2>2
      <3>2. /\ F[h].at \in 1 .. i - 1 /\ p[F[h].at].op = F[h].kind /\ Depth(p, F[h].at) = Len(F) - h
            /\ \A j \in F[h].at + 1 .. i : Depth(p, j) > Len(F) - h
        BY <3>1 DEF NestedIn
      <3> HIDE DEF h
      <3>3. ASSUME NEW j \in F[h].at + 1 .. i + 1 PROVE Depth(p, j) > Len(F) - h
        <4>1. j = i + 1 \/ j \in F[h].at + 1 .. i
          BY <3>2
        <4> QED BY <1>2, <3>1, <3>2, <4>1
      <3>4. F[h].at \in 1 .. i + 1 - 1
        BY <3>2
      <3> QED BY <3>1, <3>2, <3>3, <3>4
    <2> QED BY <2>1, <2>2
  <1>5. Depth(p, i + 1) = Len(G)
    BY <1>2, <1>3
  <1>6. NestedIn(p, G, i + 1)
    BY <1>4, <1>5 DEF NestedIn
  <1> QED BY <1>6 DEF G

\* A bracket that closes one takes it off.
LEMMA NestedPop ==
  ASSUME NEW p, NEW F \in Seq(Frame), NEW i \in Nat \ {0}, NestedIn(p, F, i), F # <<>>,
         p[i].op \in Closers
  PROVE  NestedIn(p, Tail(F), i + 1)
  <1> DEFINE G == Tail(F)
  <1>1. Depth(p, i + 1) = Len(F) - 1
    BY DepthStep DEF NestedIn, Openers, Closers
  <1>2. /\ Len(G) = Len(F) - 1 /\ DOMAIN G = 1 .. Len(F) - 1 /\ Len(F) \in Nat
        /\ \A k \in DOMAIN G : k + 1 \in DOMAIN F /\ G[k] = F[k + 1]
    OBVIOUS
  <1> HIDE DEF G
  <1>3. ASSUME NEW k \in DOMAIN G
        PROVE  /\ G[k].at \in 1 .. i + 1 - 1
               /\ p[G[k].at].op = G[k].kind
               /\ Depth(p, G[k].at) = Len(G) - k
               /\ \A j \in G[k].at + 1 .. i + 1 : Depth(p, j) > Len(G) - k
    <2> DEFINE h == k + 1
    <2>1. h \in DOMAIN F /\ G[k] = F[h] /\ Len(G) - k = Len(F) - h /\ k \in 1 .. Len(G)
      BY <1>2
    <2>2. /\ F[h].at \in 1 .. i - 1 /\ p[F[h].at].op = F[h].kind /\ Depth(p, F[h].at) = Len(F) - h
          /\ \A j \in F[h].at + 1 .. i : Depth(p, j) > Len(F) - h
      BY <2>1 DEF NestedIn
    <2>3. ASSUME NEW j \in F[h].at + 1 .. i + 1 PROVE Depth(p, j) > Len(F) - h
      <3>1. j = i + 1 \/ j \in F[h].at + 1 .. i
        BY <2>2
      <3>2. Len(F) - 1 > Len(F) - h
        BY <1>2, <2>1
      <3> QED BY <1>1, <2>2, <3>1, <3>2
    <2>4. F[h].at \in 1 .. i + 1 - 1
      BY <2>2
    <2> HIDE DEF h
    <2> QED BY <2>1, <2>2, <2>3, <2>4
  <1>4. Depth(p, i + 1) = Len(G)
    BY <1>1, <1>2
  <1>5. NestedIn(p, G, i + 1)
    BY <1>3, <1>4 DEF NestedIn
  <1> QED BY <1>5 DEF G

\* The head of the innermost loop is nested as its bracket left it.
LEMMA NestedBack ==
  ASSUME NEW p, NEW F \in Seq(Frame), NEW i \in Nat \ {0}, NestedIn(p, F, i), F # <<>>
  PROVE  NestedIn(p, F, F[1].at + 1)
  <1> DEFINE a == F[1].at
  <1>1. 1 \in DOMAIN F /\ Len(F) \in Nat /\ DOMAIN F = 1 .. Len(F)
    OBVIOUS
  <1>2. /\ a \in 1 .. i - 1 /\ p[a].op = F[1].kind /\ Depth(p, a) = Len(F) - 1
        /\ \A j \in a + 1 .. i : Depth(p, j) > Len(F) - 1
    BY <1>1 DEF NestedIn
  <1>3. F[1].kind \in Openers
    <2>1. F[1] \in Frame
      BY <1>1
    <2> QED BY <2>1 DEF Frame, Openers
  <1>4. Depth(p, a + 1) = Len(F)
    <2>1. a \in Nat \ {0}
      BY <1>2
    <2>2. Depth(p, a + 1) = Depth(p, a) + 1
      BY <1>2, <1>3, <2>1, DepthStep
    <2> QED BY <1>1, <1>2, <2>2
  <1>5. ASSUME NEW k \in DOMAIN F
        PROVE  /\ F[k].at \in 1 .. a + 1 - 1
               /\ p[F[k].at].op = F[k].kind
               /\ Depth(p, F[k].at) = Len(F) - k
               /\ \A j \in F[k].at + 1 .. a + 1 : Depth(p, j) > Len(F) - k
    <2>1. /\ F[k].at \in 1 .. i - 1 /\ p[F[k].at].op = F[k].kind /\ Depth(p, F[k].at) = Len(F) - k
          /\ \A j \in F[k].at + 1 .. i : Depth(p, j) > Len(F) - k
      BY DEF NestedIn
    <2>2. F[k].at <= a
      <3> SUFFICES ASSUME F[k].at > a PROVE FALSE
        BY <1>2, <2>1
      <3>1. F[k].at \in a + 1 .. i
        BY <1>2, <2>1
      <3>2. Len(F) - k > Len(F) - 1
        BY <1>2, <2>1, <3>1
      <3> QED BY <1>1, <3>2
    <2>3. F[k].at + 1 .. a + 1 \subseteq F[k].at + 1 .. i /\ F[k].at \in 1 .. a + 1 - 1
      BY <1>2, <2>1, <2>2
    <2> QED BY <2>1, <2>3
  <1>6. NestedIn(p, F, a + 1)
    BY <1>4, <1>5 DEF NestedIn
  <1> QED BY <1>6

\* The stack with its innermost frame replaced.
LEMMA ReplacedTop ==
  ASSUME NEW F \in Seq(Frame), F # <<>>, NEW g
  PROVE  /\ 1 \in DOMAIN F /\ Head(F) = F[1] /\ F[1] \in Frame
         /\ Len(<<g>> \o Tail(F)) = Len(F) /\ DOMAIN (<<g>> \o Tail(F)) = DOMAIN F
         /\ (<<g>> \o Tail(F))[1] = g
         /\ \A k \in DOMAIN F : k # 1 => k > 1 /\ (<<g>> \o Tail(F))[k] = F[k]
  OBVIOUS

\* The frames left when the innermost one is gone.
LEMMA Popped ==
  ASSUME NEW F \in Seq(Frame), F # <<>>
  PROVE  /\ \A k \in DOMAIN Tail(F) : k + 1 \in DOMAIN F /\ k + 1 > 1 /\ Tail(F)[k] = F[k + 1]
         /\ \A k \in DOMAIN F : k # 1 => /\ k \in Nat /\ k > 1 /\ k - 1 \in DOMAIN Tail(F)
                                         /\ F[k] = Tail(F)[k - 1]
  OBVIOUS

\* The frames when one more is innermost.
LEMMA Pushed ==
  ASSUME NEW F \in Seq(Frame), NEW f
  PROVE  /\ 1 \in DOMAIN (<<f>> \o F) /\ (<<f>> \o F)[1] = f
         /\ \A k \in DOMAIN (<<f>> \o F) :
              k # 1 => k \in Nat /\ k > 1 /\ k - 1 \in DOMAIN F /\ (<<f>> \o F)[k] = F[k - 1]
         /\ \A k \in DOMAIN F : /\ k \in Nat /\ k + 1 \in DOMAIN (<<f>> \o F)
                                /\ (<<f>> \o F)[k + 1] = F[k]
  OBVIOUS

\* A binding, a call, a return or a jump.
LEMMA PlainStep ==
  ASSUME NEW p, NEW F \in Seq(Frame), NEW i \in Nat \ {0}, NEW w, NEW o, WalkInv(p, F, i, w, o),
         p[i].op \notin Openers \cup Closers,
         NEW w2, Above(w, w2), p[i].op = "decl" => Held(w2, p[i].n),
         NEW o2, o.diags \subseteq o2.diags, Faulty(p, i) => o2.diags # {}
  PROVE  WalkInv(p, F, i + 1, w2, o2)
  <1>1. NestedIn(p, F, i + 1)
    BY NestedNext DEF WalkInv
  <1>2. ASSUME NEW n \in Name, Declared(p, n, i + 1) PROVE Held(w2, n)
    <2>1. Declared(p, n, i) \/ (p[i].op = "decl" /\ p[i].n = n)
      BY <1>2, ScopeStep
    <2>2. Declared(p, n, i) => Held(w, n)
      BY DEF WalkInv, ScopeHeld
    <2> QED BY <2>1, <2>2 DEF Above
  <1>3. ScopeHeld(p, F, i + 1, w2)
    BY <1>2 DEF WalkInv, ScopeHeld
  <1>4. Chain(F, w2)
    BY DEF WalkInv, Chain, Above
  <1>5. ASSUME NEW j \in 1 .. i + 1 - 1, Faulty(p, j) PROVE o2.diags # {} \/ Again(F, j, 0)
    <2>1. j = i \/ j \in 1 .. i - 1
      OBVIOUS
    <2> QED BY <1>5, <2>1 DEF WalkInv, Noted
  <1>6. Noted(p, F, i + 1, o2)
    BY <1>5 DEF WalkInv, Noted
  <1> QED BY <1>1, <1>3, <1>4, <1>6 DEF WalkInv

\* A construct that opens; a loop sets the sink aside.
LEMMA PushStep ==
  ASSUME NEW p, NEW F \in Seq(Frame), NEW i \in Nat \ {0}, NEW w, NEW o, WalkInv(p, F, i, w, o),
         NEW f \in Frame, f.at = i, p[i].op = f.kind, f.snap = w, f.entry = w, f.arms = <<>>,
         f.phase = "propagate", f.saved = o, NEW o2, f.kind = "if" => o2 = o
  PROVE  WalkInv(p, <<f>> \o F, i + 1, w, o2)
  <1> DEFINE G == <<f>> \o F
  <1>1. NestedIn(p, G, i + 1)
    BY NestedPush DEF WalkInv
  <1>2. /\ 1 \in DOMAIN G /\ G[1] = f
        /\ \A k \in DOMAIN G : k # 1 => k \in Nat /\ k > 1 /\ k - 1 \in DOMAIN F /\ G[k] = F[k - 1]
        /\ \A k \in DOMAIN F : k \in Nat /\ k + 1 \in DOMAIN G /\ G[k + 1] = F[k]
    BY Pushed
  <1> HIDE DEF G
  <1>3. p[i].op \in {"if", "while"} /\ f.kind \in {"if", "while"}
    BY DEF Frame
  <1>4. ScopeHeld(p, G, i + 1, w)
    <2>1. ASSUME NEW n \in Name, Declared(p, n, i + 1) PROVE Held(w, n)
      BY <1>3, <2>1, ScopeStep DEF WalkInv, ScopeHeld
    <2>2. ASSUME NEW k \in DOMAIN G, NEW n \in Name, Declared(p, n, G[k].at) PROVE Held(G[k].snap, n)
      <3>1. CASE k = 1
        BY <1>2, <2>2, <3>1 DEF WalkInv, ScopeHeld
      <3>2. CASE k # 1
        BY <1>2, <2>2, <3>2 DEF WalkInv, ScopeHeld
      <3> QED BY <3>1, <3>2
    <2> QED BY <2>1, <2>2 DEF ScopeHeld
  <1>5. Chain(G, w)
    <2>1. Ascends(w, w) /\ Above(w, w)
      BY DEF Ascends, Above
    <2>2. ASSUME NEW k \in DOMAIN G
          PROVE  /\ Ascends(G[k].snap, G[k].entry)
                 /\ Above(G[k].snap, w)
                 /\ \A l \in DOMAIN G : k < l => Above(G[l].snap, G[k].snap)
                 /\ \A a \in DOMAIN G[k].arms : Above(G[k].snap, G[k].arms[a].own)
      <3>1. CASE k = 1
        <4>1. \A l \in DOMAIN G : l # 1 => Above(G[l].snap, w)
          BY <1>2 DEF WalkInv, Chain
        <4>2. DOMAIN f.arms = {}
          OBVIOUS
        <4> QED BY <1>2, <2>1, <3>1, <4>1, <4>2
      <3>2. CASE k # 1
        <4>1. k - 1 \in DOMAIN F /\ G[k] = F[k - 1] /\ k > 1 /\ k \in Nat
          BY <1>2, <3>2
        <4>2. ASSUME NEW l \in DOMAIN G, k < l PROVE Above(G[l].snap, G[k].snap)
          <5>1. l # 1 /\ l \in Nat /\ l - 1 \in DOMAIN F /\ G[l] = F[l - 1] /\ k - 1 < l - 1
            <6>1. l # 1
              BY <4>1, <4>2
            <6>2. l \in Nat
              BY <1>2, <6>1
            <6> QED BY <1>2, <4>1, <4>2, <6>1, <6>2
          <5> QED BY <4>1, <5>1 DEF WalkInv, Chain
        <4>3. /\ Ascends(F[k - 1].snap, F[k - 1].entry) /\ Above(F[k - 1].snap, w)
              /\ \A a \in DOMAIN F[k - 1].arms : Above(F[k - 1].snap, F[k - 1].arms[a].own)
          BY <4>1 DEF WalkInv, Chain
        <4> QED BY <4>1, <4>2, <4>3
      <3> QED BY <3>1, <3>2
    <2> QED BY <2>2 DEF Chain
  <1>6. ~Faulty(p, i)
    BY <1>3 DEF Faulty, Repeats, Withholds
  <1>7. \A j, m : m \in Nat /\ Again(F, j, m) => Again(G, j, m + 1)
    <2> SUFFICES ASSUME NEW j, NEW m \in Nat, Again(F, j, m) PROVE Again(G, j, m + 1)
      OBVIOUS
    <2>1. PICK k \in DOMAIN F : /\ k > m /\ F[k].kind = "while" /\ F[k].phase = "propagate"
                                /\ j < F[k].at
      BY DEF Again
    <2>2. k + 1 \in DOMAIN G /\ G[k + 1] = F[k] /\ k \in Nat /\ k + 1 > m + 1
      BY <1>2, <2>1
    <2> QED BY <2>1, <2>2 DEF Again
  <1>8. \A j : Again(G, j, 1) => Again(G, j, 0)
    <2> SUFFICES ASSUME NEW j, Again(G, j, 1) PROVE Again(G, j, 0)
      OBVIOUS
    <2>1. \A k \in DOMAIN G : k > 1 => k > 0
      <3> TAKE k \in DOMAIN G
      <3>1. k = 1 \/ k \in Nat
        BY <1>2
      <3> QED BY <3>1
    <2> QED BY <2>1 DEF Again
  <1>9. Noted(p, G, i + 1, o2)
    <2>1. ASSUME NEW j \in 1 .. i + 1 - 1, Faulty(p, j) PROVE o2.diags # {} \/ Again(G, j, 0)
      <3>1. j \in 1 .. i - 1 /\ j < i
        BY <1>6, <2>1
      <3>2. CASE f.kind = "while"
        BY <1>2, <3>1, <3>2 DEF Again
      <3>3. CASE f.kind = "if"
        <4>1. o.diags # {} \/ Again(F, j, 0)
          BY <2>1, <3>1 DEF WalkInv, Noted
        <4>2. Again(F, j, 0) => Again(G, j, 0)
          BY <1>7, <1>8
        <4> QED BY <3>3, <4>1, <4>2
      <3> QED BY <1>3, <3>2, <3>3
    <2>2. ASSUME NEW k \in DOMAIN G, G[k].kind = "while", NEW j \in 1 .. G[k].at, Faulty(p, j)
          PROVE  G[k].saved.diags # {} \/ Again(G, j, k)
      <3>1. CASE k = 1
        <4>1. j \in 1 .. i - 1
          BY <1>2, <1>6, <2>2, <3>1
        <4>2. o.diags # {} \/ Again(F, j, 0)
          BY <2>2, <4>1 DEF WalkInv, Noted
        <4>3. Again(F, j, 0) => Again(G, j, 1)
          BY <1>7
        <4> QED BY <1>2, <3>1, <4>2, <4>3
      <3>2. CASE k # 1
        <4> DEFINE h == k - 1
        <4>1. h \in DOMAIN F /\ G[k] = F[h] /\ h \in Nat /\ h + 1 = k
          BY <1>2, <3>2
        <4>2. F[h].saved.diags # {} \/ Again(F, j, h)
          BY <2>2, <4>1 DEF WalkInv, Noted
        <4> HIDE DEF h
        <4>3. Again(F, j, h) => Again(G, j, k)
          BY <1>7, <4>1
        <4> QED BY <4>1, <4>2, <4>3
      <3> QED BY <3>1, <3>2
    <2> QED BY <2>1, <2>2 DEF Noted
  <1>10. WalkInv(p, G, i + 1, w, o2)
    BY <1>1, <1>4, <1>5, <1>9 DEF WalkInv, G
  <1> QED BY <1>10 DEF G

\* What is in scope behind a bracket was so where its construct opened.
LEMMA BlockScope ==
  ASSUME NEW p, NEW F \in Seq(Frame), F # <<>>, NEW i \in Nat \ {0}, NestedIn(p, F, i),
         p[i].op \in Closers \cup Siblings, NEW n, Declared(p, n, i + 1)
  PROVE  Declared(p, n, F[1].at)
  <1> DEFINE a == F[1].at
  <1>1. 1 \in DOMAIN F /\ Len(F) \in Nat /\ F[1] \in Frame
    OBVIOUS
  <1>2. /\ a \in 1 .. i - 1 /\ p[a].op = F[1].kind /\ Depth(p, a) = Len(F) - 1
        /\ \A j \in a + 1 .. i : Depth(p, j) > Len(F) - 1
        /\ Depth(p, i) = Len(F)
    BY <1>1 DEF NestedIn
  <1>3. p[a].op \in Openers
    BY <1>1, <1>2 DEF Frame, Openers
  <1>4. a \in Nat \ {0} /\ a < i /\ Depth(p, i) = Depth(p, a) + 1
    BY <1>1, <1>2
  <1>5. \A k \in a + 1 .. i : Depth(p, k) > Depth(p, a)
    BY <1>2
  <1> HIDE DEF a
  <1>6. Declared(p, n, a)
    BY <1>3, <1>4, <1>5, ScopeEnds
  <1> QED BY <1>6 DEF a

\* What a bracket at the end of a block finds, and what stays in scope there.
LEMMA EndScope ==
  ASSUME NEW p, NEW F \in Seq(Frame), F # <<>>, NEW i \in Nat \ {0}, NEW w, NEW o,
         WalkInv(p, F, i, w, o), p[i].op \in Closers \cup Siblings,
         NEW n \in Name, Declared(p, n, i + 1)
  PROVE  Held(F[1].snap, n)
  <1>1. 1 \in DOMAIN F
    OBVIOUS
  <1>2. Declared(p, n, F[1].at)
    BY BlockScope DEF WalkInv
  <1> QED BY <1>1, <1>2 DEF WalkInv, ScopeHeld

\* Whatever keeps what the innermost construct found keeps what all found.
LEMMA ChainOver ==
  ASSUME NEW F \in Seq(Frame), F # <<>>, NEW w, Chain(F, w), NEW w2, Above(F[1].snap, w2),
         NEW k \in DOMAIN F
  PROVE  Above(F[k].snap, w2)
  <1>1. 1 \in DOMAIN F /\ (k = 1 \/ 1 < k)
    OBVIOUS
  <1>2. k # 1 => Above(F[k].snap, F[1].snap)
    BY <1>1 DEF Chain
  <1> QED BY <1>1, <1>2 DEF Above

\* The next arm of an if starts from what the if found.
LEMMA ArmStep ==
  ASSUME NEW p, NEW F \in Seq(Frame), F # <<>>, NEW i \in Nat \ {0}, NEW w, NEW o,
         WalkInv(p, F, i, w, o), p[i].op \in Siblings, F[1].kind = "if",
         NEW g, g.kind = F[1].kind, g.at = F[1].at, g.snap = F[1].snap, g.entry = F[1].entry,
         \A a \in DOMAIN g.arms : Above(g.snap, g.arms[a].own)
  PROVE  WalkInv(p, <<g>> \o Tail(F), i + 1, F[1].snap, o)
  <1> DEFINE G == <<g>> \o Tail(F)
  <1>1. /\ 1 \in DOMAIN F /\ Len(G) = Len(F) /\ DOMAIN G = DOMAIN F /\ G[1] = g
        /\ \A k \in DOMAIN F : k # 1 => G[k] = F[k]
    BY ReplacedTop
  <1> HIDE DEF G
  <1>2. \A k \in DOMAIN F : /\ G[k].kind = F[k].kind /\ G[k].at = F[k].at
                            /\ G[k].snap = F[k].snap /\ G[k].entry = F[k].entry
    BY <1>1
  <1>3. p[i].op \notin Openers \cup Closers /\ ~Faulty(p, i)
    BY DEF Openers, Closers, Siblings, Faulty, Repeats, Withholds
  <1>4. NestedIn(p, G, i + 1)
    <2>1. NestedIn(p, F, i + 1)
      BY <1>3, NestedNext DEF WalkInv
    <2> QED BY <1>1, <1>2, <2>1 DEF NestedIn
  <1>5. ScopeHeld(p, G, i + 1, F[1].snap)
    <2>1. \A n \in Name : Declared(p, n, i + 1) => Held(F[1].snap, n)
      BY EndScope
    <2>2. \A k \in DOMAIN F : \A n \in Name : Declared(p, n, F[k].at) => Held(F[k].snap, n)
      BY DEF WalkInv, ScopeHeld
    <2> QED BY <1>1, <1>2, <2>1, <2>2 DEF ScopeHeld
  <1>6. Chain(G, F[1].snap)
    <2>1. \A k \in DOMAIN F : Above(F[k].snap, F[1].snap)
      BY ChainOver DEF WalkInv, Above
    <2>2. \A k \in DOMAIN G : \A a \in DOMAIN G[k].arms : Above(G[k].snap, G[k].arms[a].own)
      BY <1>1 DEF WalkInv, Chain
    <2>3. \A k \in DOMAIN F : /\ Ascends(F[k].snap, F[k].entry)
                              /\ \A l \in DOMAIN F : k < l => Above(F[l].snap, F[k].snap)
      BY DEF WalkInv, Chain
    <2> QED BY <1>1, <1>2, <2>1, <2>2, <2>3 DEF Chain
  <1>7. \A j, m : Again(F, j, m) => Again(G, j, m)
    <2> SUFFICES ASSUME NEW j, NEW m, Again(F, j, m) PROVE Again(G, j, m)
      OBVIOUS
    <2>1. PICK k \in DOMAIN F : /\ k > m /\ F[k].kind = "while" /\ F[k].phase = "propagate"
                                /\ j < F[k].at
      BY DEF Again
    <2>2. k # 1
      BY <2>1
    <2> QED BY <1>1, <2>1, <2>2 DEF Again
  <1>8. Noted(p, G, i + 1, o)
    <2>1. ASSUME NEW j \in 1 .. i + 1 - 1, Faulty(p, j) PROVE o.diags # {} \/ Again(G, j, 0)
      <3>1. j \in 1 .. i - 1
        BY <1>3, <2>1
      <3> QED BY <1>7, <2>1, <3>1 DEF WalkInv, Noted
    <2>2. ASSUME NEW k \in DOMAIN G, G[k].kind = "while", NEW j \in 1 .. G[k].at, Faulty(p, j)
          PROVE  G[k].saved.diags # {} \/ Again(G, j, k)
      <3>1. k \in DOMAIN F /\ G[k] = F[k]
        BY <1>1, <2>2
      <3>2. F[k].saved.diags # {} \/ Again(F, j, k)
        BY <2>2, <3>1 DEF WalkInv, Noted
      <3> QED BY <1>7, <3>1, <3>2
    <2> QED BY <2>1, <2>2 DEF Noted
  <1>9. WalkInv(p, G, i + 1, F[1].snap, o)
    BY <1>4, <1>5, <1>6, <1>8 DEF WalkInv
  <1> QED BY <1>9 DEF G

\* A construct that closes with its merge.
LEMMA PopStep ==
  ASSUME NEW p, NEW F \in Seq(Frame), F # <<>>, NEW i \in Nat \ {0}, NEW w, NEW o,
         WalkInv(p, F, i, w, o), p[i].op \in Closers,
         F[1].kind = "if" \/ F[1].phase = "check",
         NEW w2, Above(F[1].snap, w2), NEW o2, o2.diags = o.diags
  PROVE  WalkInv(p, Tail(F), i + 1, w2, o2)
  <1> DEFINE G == Tail(F)
  <1>1. /\ \A k \in DOMAIN G : k + 1 \in DOMAIN F /\ k + 1 > 1 /\ G[k] = F[k + 1]
        /\ \A k \in DOMAIN F : k # 1 => k \in Nat /\ k > 1 /\ k - 1 \in DOMAIN G /\ F[k] = G[k - 1]
    BY Popped
  <1>2. \A k \in DOMAIN G : k \in Nat /\ k > 0
    OBVIOUS
  <1>3. NestedIn(p, G, i + 1)
    BY NestedPop DEF WalkInv
  <1> HIDE DEF G
  <1>4. ScopeHeld(p, G, i + 1, w2)
    <2>1. \A n \in Name : Declared(p, n, i + 1) => Held(w2, n)
      BY EndScope DEF Above
    <2>2. \A k \in DOMAIN F : \A n \in Name : Declared(p, n, F[k].at) => Held(F[k].snap, n)
      BY DEF WalkInv, ScopeHeld
    <2> QED BY <1>1, <2>1, <2>2 DEF ScopeHeld
  <1>5. Chain(G, w2)
    <2>1. \A k \in DOMAIN F : Above(F[k].snap, w2)
      BY ChainOver DEF WalkInv
    <2>2. ASSUME NEW k \in DOMAIN G
          PROVE  /\ Ascends(G[k].snap, G[k].entry)
                 /\ Above(G[k].snap, w2)
                 /\ \A l \in DOMAIN G : k < l => Above(G[l].snap, G[k].snap)
                 /\ \A a \in DOMAIN G[k].arms : Above(G[k].snap, G[k].arms[a].own)
      <3>1. k + 1 \in DOMAIN F /\ G[k] = F[k + 1]
        BY <1>1
      <3>2. ASSUME NEW l \in DOMAIN G, k < l PROVE Above(G[l].snap, G[k].snap)
        <4>1. l + 1 \in DOMAIN F /\ G[l] = F[l + 1] /\ k + 1 < l + 1
          BY <1>1, <1>2, <3>2
        <4> QED BY <3>1, <4>1 DEF WalkInv, Chain
      <3> QED BY <2>1, <3>1, <3>2 DEF WalkInv, Chain
    <2> QED BY <2>2 DEF Chain
  <1>6. ASSUME NEW j, Again(F, j, 0) PROVE Again(G, j, 0)
    <2>1. PICK k \in DOMAIN F : F[k].kind = "while" /\ F[k].phase = "propagate" /\ j < F[k].at
      BY <1>6 DEF Again
    <2>2. k # 1
      BY <2>1
    <2>3. k - 1 \in DOMAIN G /\ F[k] = G[k - 1] /\ k - 1 > 0
      BY <1>1, <2>2
    <2> QED BY <2>1, <2>3 DEF Again
  <1>7. ASSUME NEW j, NEW h \in DOMAIN G, Again(F, j, h + 1) PROVE Again(G, j, h)
    <2>1. PICK k \in DOMAIN F : /\ k > h + 1 /\ F[k].kind = "while" /\ F[k].phase = "propagate"
                                /\ j < F[k].at
      BY <1>7 DEF Again
    <2>2. k # 1
      BY <1>2, <2>1
    <2>3. k - 1 \in DOMAIN G /\ F[k] = G[k - 1] /\ k - 1 > h
      BY <1>1, <1>2, <2>1, <2>2
    <2> QED BY <2>1, <2>3 DEF Again
  <1>8. Noted(p, G, i + 1, o2)
    <2>1. ASSUME NEW j \in 1 .. i + 1 - 1, Faulty(p, j) PROVE o2.diags # {} \/ Again(G, j, 0)
      <3>1. j \in 1 .. i - 1
        BY <2>1 DEF Faulty, Repeats, Withholds, Closers
      <3>2. o.diags # {} \/ Again(F, j, 0)
        BY <2>1, <3>1 DEF WalkInv, Noted
      <3> QED BY <1>6, <3>2
    <2>2. ASSUME NEW k \in DOMAIN G, G[k].kind = "while", NEW j \in 1 .. G[k].at, Faulty(p, j)
          PROVE  G[k].saved.diags # {} \/ Again(G, j, k)
      <3> DEFINE h == k + 1
      <3>1. h \in DOMAIN F /\ G[k] = F[h]
        BY <1>1
      <3>2. F[h].saved.diags # {} \/ Again(F, j, h)
        <4> HIDE DEF h
        <4> QED BY <2>2, <3>1 DEF WalkInv, Noted
      <3> QED BY <1>7, <3>1, <3>2
    <2> QED BY <2>1, <2>2 DEF Noted
  <1>9. WalkInv(p, G, i + 1, w2, o2)
    BY <1>3, <1>4, <1>5, <1>8 DEF WalkInv
  <1> QED BY <1>9 DEF G

\* The body of a loop from its head again: with a scratch sink, or with the
\* sink the loop set aside.
LEMMA BackStep ==
  ASSUME NEW p, NEW F \in Seq(Frame), F # <<>>, NEW i \in Nat \ {0}, NEW w, NEW o,
         WalkInv(p, F, i, w, o), F[1].kind = "while",
         NEW a, a = F[1].at, NEW g, g.kind = F[1].kind, g.at = F[1].at, g.snap = F[1].snap, g.saved = F[1].saved,
         g.arms = F[1].arms, Ascends(g.snap, g.entry),
         NEW w2, Above(F[1].snap, w2),
         NEW o2, g.phase = "propagate" \/ o2 = F[1].saved
  PROVE  WalkInv(p, <<g>> \o Tail(F), a + 1, w2, o2)
  <1> DEFINE G == <<g>> \o Tail(F)
  <1>1. /\ 1 \in DOMAIN F /\ F[1] \in Frame /\ Len(G) = Len(F) /\ DOMAIN G = DOMAIN F /\ G[1] = g
        /\ \A k \in DOMAIN F : k # 1 => k > 1 /\ G[k] = F[k]
    BY ReplacedTop
  <1> HIDE DEF G
  <1>2. \A k \in DOMAIN F : /\ G[k].kind = F[k].kind /\ G[k].at = F[k].at /\ G[k].snap = F[k].snap
                            /\ G[k].saved = F[k].saved /\ G[k].arms = F[k].arms
                            /\ (k # 1 => G[k].entry = F[k].entry)
    BY <1>1
  <1>3. a \in 1 .. i - 1 /\ p[a].op = "while" /\ a \in Nat \ {0}
    BY <1>1 DEF WalkInv, NestedIn
  <1>4. NestedIn(p, G, a + 1)
    <2>1. NestedIn(p, F, a + 1)
      BY NestedBack DEF WalkInv
    <2> QED BY <1>1, <1>2, <2>1 DEF NestedIn
  <1>5. ScopeHeld(p, G, a + 1, w2)
    <2>1. ASSUME NEW n \in Name, Declared(p, n, a + 1) PROVE Held(w2, n)
      <3>1. Declared(p, n, a)
        BY <1>3, <2>1, ScopeStep
      <3> QED BY <1>1, <3>1 DEF WalkInv, ScopeHeld, Above
    <2>2. \A k \in DOMAIN F : \A n \in Name : Declared(p, n, F[k].at) => Held(F[k].snap, n)
      BY DEF WalkInv, ScopeHeld
    <2> QED BY <1>1, <1>2, <2>1, <2>2 DEF ScopeHeld
  <1>6. Chain(G, w2)
    <2>1. \A k \in DOMAIN F : Above(F[k].snap, w2)
      BY ChainOver DEF WalkInv
    <2>2. \A k \in DOMAIN F :
            /\ Ascends(F[k].snap, F[k].entry)
            /\ \A l \in DOMAIN F : k < l => Above(F[l].snap, F[k].snap)
            /\ \A b \in DOMAIN F[k].arms : Above(F[k].snap, F[k].arms[b].own)
      BY DEF WalkInv, Chain
    <2> QED BY <1>1, <1>2, <2>1, <2>2 DEF Chain
  <1>7. ASSUME NEW j, NEW m, Again(F, j, m), m = 1 \/ m \in DOMAIN F PROVE Again(G, j, m)
    <2>1. PICK k \in DOMAIN F : /\ k > m /\ F[k].kind = "while" /\ F[k].phase = "propagate"
                                /\ j < F[k].at
      BY <1>7 DEF Again
    <2>2. k # 1
      <3>1. m \in Nat /\ m >= 1
        BY <1>7
      <3> QED BY <2>1, <3>1
    <2> QED BY <1>1, <2>1, <2>2 DEF Again
  <1>8. Noted(p, G, a + 1, o2)
    <2>1. ASSUME NEW j \in 1 .. a + 1 - 1, Faulty(p, j) PROVE o2.diags # {} \/ Again(G, j, 0)
      <3>1. j \in 1 .. a /\ j < a
        BY <1>3, <2>1 DEF Faulty, Repeats, Withholds
      <3>2. CASE g.phase = "propagate"
        <4>1. 1 \in DOMAIN G /\ G[1].kind = "while" /\ G[1].phase = "propagate" /\ j < G[1].at
          BY <1>1, <3>1, <3>2
        <4> QED BY <4>1 DEF Again
      <3>3. CASE o2 = F[1].saved
        <4>1. o2.diags # {} \/ Again(F, j, 1)
          BY <1>1, <2>1, <3>1, <3>3 DEF WalkInv, Noted
        <4>2. Again(F, j, 1) => Again(G, j, 1)
          BY <1>7
        <4>3. Again(G, j, 1) => Again(G, j, 0)
          <5>1. \A k \in DOMAIN F : k > 0
            OBVIOUS
          <5>2. \A k \in DOMAIN G : k > 0
            BY <1>1, <5>1
          <5> QED BY <5>2 DEF Again
        <4> QED BY <4>1, <4>2, <4>3
      <3> QED BY <3>2, <3>3
    <2>2. ASSUME NEW k \in DOMAIN G, G[k].kind = "while", NEW j \in 1 .. G[k].at, Faulty(p, j)
          PROVE  G[k].saved.diags # {} \/ Again(G, j, k)
      <3>1. k \in DOMAIN F /\ F[k].kind = "while" /\ F[k].at = G[k].at /\ F[k].saved = G[k].saved
        BY <1>1, <1>2, <2>2
      <3>2. F[k].saved.diags # {} \/ Again(F, j, k)
        BY <2>2, <3>1 DEF WalkInv, Noted
      <3> QED BY <1>7, <3>1, <3>2
    <2> QED BY <1>3, <2>1, <2>2 DEF Noted
  <1>9. WalkInv(p, G, a + 1, w2, o2)
    BY <1>4, <1>5, <1>6, <1>8 DEF WalkInv
  <1> QED BY <1>9 DEF G

\* A text that grows behind the walk says the same of where the walk is.
LEMMA TextGrows ==
  ASSUME NEW p, NEW q, NEW m \in Nat, \A j \in 1 .. m : q[j] = p[j], NEW i \in 1 .. m + 1,
         NEW F \in Seq(Frame), NEW w, NEW o, WalkInv(p, F, i, w, o)
  PROVE  WalkInv(q, F, i, w, o)
  <1>1. /\ \A j \in 1 .. m + 1 : Depth(q, j) = Depth(p, j)
        /\ \A n, j : j \in 1 .. m + 1 => (Declared(q, n, j) <=> Declared(p, n, j))
    BY SameNesting
  <1>2. \A j \in 1 .. m : Faulty(q, j) <=> Faulty(p, j)
    BY DEF Faulty, Repeats, Withholds, Takes
  <1>3. \A k \in DOMAIN F : /\ F[k].at \in 1 .. i - 1 /\ F[k].at \in 1 .. m
                            /\ F[k].at \in 1 .. m + 1 /\ 1 .. F[k].at \subseteq 1 .. m
                            /\ F[k].at + 1 .. i \subseteq 1 .. m + 1
    BY DEF WalkInv, NestedIn
  <1>4. 1 .. i - 1 \subseteq 1 .. m
    OBVIOUS
  <1>5. NestedIn(q, F, i)
    BY <1>1, <1>3 DEF WalkInv, NestedIn
  <1>6. ScopeHeld(q, F, i, w)
    BY <1>1, <1>3 DEF WalkInv, ScopeHeld
  <1>7. Noted(q, F, i, o)
    BY <1>2, <1>3, <1>4 DEF WalkInv, Noted
  <1> QED BY <1>5, <1>6, <1>7 DEF WalkInv

\* Sema lets a call name only what is in scope there.
Scoped(p) ==
  \A i \in DOMAIN p : p[i].op = "call" =>
    \A k \in DOMAIN p[i].args : Declared(p, p[i].args[k].n, i)

\* The walk at token tok of a text, read before or written now.
LEMMA AtText ==
  ASSUME TypeOK, Scoped(prog), pc <= Len(prog) + 1, WalkInv(prog, stack, pc, own, out),
         NEW tok \in Text, At(tok)
  PROVE  /\ prog'[pc] = tok /\ pc \in 1 .. Len(prog') /\ Len(prog') \in Nat
         /\ Scoped(prog') /\ WalkInv(prog', stack, pc, own, out)
  <1> USE DEF TypeOK
  <1>1. CASE pc <= Len(prog) /\ prog[pc] = tok /\ prog' = prog
    BY <1>1
  <1>2. CASE pc = Len(prog) + 1 /\ Legal(tok) /\ prog' = Append(prog, tok)
    <2> DEFINE q == Append(prog, tok)
               m == Len(prog)
    <2>1. /\ m \in Nat /\ pc = m + 1 /\ DOMAIN prog = 1 .. m /\ DOMAIN q = 1 .. m + 1
          /\ Len(q) = m + 1 /\ q[m + 1] = tok /\ \A j \in 1 .. m : q[j] = prog[j]
      BY <1>2
    <2> HIDE DEF q, m
    <2>2. WalkInv(q, stack, pc, own, out)
      <3>1. stack \in Seq(Frame) /\ pc \in 1 .. m + 1 /\ m \in Nat /\ \A j \in 1 .. m : q[j] = prog[j]
        BY <2>1
      <3> QED BY <3>1, TextGrows
    <2>3. \A n, j : j \in 1 .. m + 1 => (Declared(q, n, j) <=> Declared(prog, n, j))
      BY <2>1, SameNesting
    <2>4. ASSUME tok.op = "call", NEW k \in DOMAIN tok.args PROVE Declared(prog, tok.args[k].n, m + 1)
      <3> DEFINE n == tok.args[k].n
      <3>1. Visible(n)
        BY <1>2, <2>4 DEF Legal, Reads
      <3>2. \A j : LevelIn(prog, j) = Level(j)
        BY DEF LevelIn, Level, Opens, Closes
      <3>3. (m + 1) - 1 = m
        BY <2>1
      <3>4. n \in Inner => \E j \in 1 .. m : /\ prog[j].op = "decl" /\ prog[j].n = n
                                             /\ \A h \in j .. m : Level(h) >= Level(j)
        BY <3>1 DEF Visible, m
      <3> HIDE DEF n
      <3>5. Declared(prog, n, m + 1)
        BY <3>2, <3>3, <3>4 DEF Declared
      <3> QED BY <3>5 DEF n
    <2>5. Scoped(q)
      <3> SUFFICES ASSUME NEW i \in 1 .. m + 1, q[i].op = "call", NEW k \in DOMAIN q[i].args
                   PROVE  Declared(q, q[i].args[k].n, i)
        BY <2>1 DEF Scoped
      <3>1. CASE i = m + 1
        BY <2>1, <2>3, <2>4, <3>1
      <3>2. CASE i # m + 1
        <4>1. i \in 1 .. m /\ q[i] = prog[i] /\ i \in DOMAIN prog
          BY <2>1, <3>2
        <4> QED BY <2>3, <4>1 DEF Scoped
      <3> QED BY <3>1, <3>2
    <2>6. prog' = q
      BY <1>2 DEF q
    <2> QED BY <2>1, <2>2, <2>5, <2>6
  <1> QED BY <1>1, <1>2 DEF At

\* A call that breaks Rule 7 for a value that is held is reported: as an alias
\* if an argument is `inout` or borrowed, and as a second move otherwise.
LEMMA CallNoted ==
  ASSUME TypeOK, NEW tok \in Text, tok.op = "call",
         \A k \in DOMAIN tok.args : Held(own, tok.args[k].n),
         NEW j \in DOMAIN tok.args, NEW k \in DOMAIN tok.args,
         j # k, tok.args[j].mode # "Borrow", tok.args[j].n = tok.args[k].n
  PROVE  AliasDiags(tok) \cup MoveDiags(tok) # {}
  <1> DEFINE A == tok.args
             n == tok.args[j].n
             o == Underlying(own, n)
  <1>1. A \in Seq(Arg) /\ DOMAIN A \subseteq Nat /\ \A i \in DOMAIN A : A[i].n \in Name /\ A[i].mode \in Mode
    <2>1. A \in Seq(Arg)
      BY TokenType
    <2>2. DOMAIN A = 1 .. Len(A) /\ \A i \in DOMAIN A : A[i] \in Arg
      BY <2>1
    <2> QED BY <2>1, <2>2 DEF Arg
  <1>2. o \in OwnersOf(tok, A[j].mode) /\ o \in OwnersOf(tok, A[k].mode)
    BY DEF OwnersOf
  <1>3. A[j].mode \in {"Move", "Inout"} /\ A[k].mode \in {"Borrow", "Move", "Inout"}
    BY <1>1 DEF Mode
  <1>4. CASE A[j].mode = "Inout" /\ A[k].mode = "Inout"
    <2>1. InoutTwice(tok)
      BY <1>4 DEF InoutTwice
    <2> QED BY <2>1 DEF AliasDiags
  <1>5. CASE A[j].mode = "Inout" /\ A[k].mode # "Inout"
    <2>1. o \in OwnersOf(tok, "Inout") \cap (OwnersOf(tok, "Borrow") \cup OwnersOf(tok, "Move"))
      BY <1>2, <1>3, <1>5
    <2> QED BY <2>1 DEF AliasDiags
  <1>6. CASE A[j].mode = "Move" /\ A[k].mode = "Inout"
    <2>1. o \in OwnersOf(tok, "Inout") \cap (OwnersOf(tok, "Borrow") \cup OwnersOf(tok, "Move"))
      BY <1>2, <1>6
    <2> QED BY <2>1 DEF AliasDiags
  <1>7. CASE A[j].mode = "Move" /\ A[k].mode = "Borrow"
    <2>1. o \in OwnersOf(tok, "Borrow") \cap OwnersOf(tok, "Move")
      BY <1>2, <1>7
    <2> QED BY <2>1 DEF AliasDiags
  <1>8. CASE A[j].mode = "Move" /\ A[k].mode = "Move"
    <2>1. PICK a \in DOMAIN A, b \in DOMAIN A :
            a < b /\ A[a].mode = "Move" /\ A[b].mode = "Move" /\ A[a].n = n /\ A[b].n = n
      <3>1. j \in Nat /\ k \in Nat
        BY <1>1
      <3>2. CASE j < k
        BY <1>8, <3>2
      <3>3. CASE k < j
        BY <1>8, <3>3
      <3> QED BY <3>1, <3>2, <3>3
    <2> DEFINE again(i) == \E h \in 1 .. i - 1 :
                             /\ A[h].mode = "Move"
                             /\ Underlying(own, A[h].n) = Underlying(own, A[i].n)
               D(i) == IF again(i) /\ Consumable(own, Underlying(own, A[i].n)) = "Valid"
                       THEN {<<pc, "UseAfterMove">>}
                       ELSE ConsumeDiags(own, A[i].n, pc, "MoveOutOfBorrowedParam")
    <2>2. MoveDiags(tok) = UNION {D(i) : i \in {h \in DOMAIN A : A[h].mode = "Move"}}
      BY DEF MoveDiags
    <2>3. again(b)
      <3>1. a \in 1 .. b - 1
        <4>1. DOMAIN A = 1 .. Len(A)
          BY <1>1
        <4> QED BY <2>1, <4>1
      <3> QED BY <2>1, <3>1
    <2>4. Consumable(own, o) \in {"Valid", "Borrowed", "Moved"}
      <3>1. Held(own, n) /\ n \in Name
        BY <1>1
      <3>2. o = own.cur[n] /\ o \in Owner /\ own.st[o] # "NotTracked"
        BY <3>1, UseType DEF Held, Underlying, TypeOK
      <3>3. own.st[o] \in {"Valid", "Borrowed", "Moved"}
        BY <3>2 DEF TypeOK, Lattice, State
      <3> QED BY <3>3 DEF Consumable
    <2>5. D(b) # {}
      <3>1. CASE Consumable(own, o) = "Valid"
        BY <2>1, <2>3, <3>1
      <3>2. CASE Consumable(own, o) # "Valid"
        <4>1. D(b) = ConsumeDiags(own, n, pc, "MoveOutOfBorrowedParam")
          BY <2>1, <3>2
        <4>2. ConsumeDiags(own, n, pc, "MoveOutOfBorrowedParam") # {}
          BY <2>4, <3>2 DEF ConsumeDiags
        <4> QED BY <4>1, <4>2
      <3> QED BY <3>1, <3>2
    <2> HIDE DEF D
    <2> QED BY <2>1, <2>2, <2>5
  <1> QED BY <1>3, <1>4, <1>5, <1>6, <1>7, <1>8

\* Moving the value of an inout parameter is reported, whatever state its owner
\* is in: one that is Valid must leave through the write-back pointer.
LEMMA InoutNoted ==
  ASSUME NEW w \in Lattice, NEW q \in InoutParam, Held(w, q), NEW i, NEW code
  PROVE  ConsumeDiags(w, q, i, code) # {}
  <1> DEFINE o == Underlying(w, q)
  <1>1. q \in Name
    BY DEF Name, Param
  <1>2. o = w.cur[q] /\ o \in Owner
    BY <1>1 DEF Held, Underlying, Lattice
  <1>3. w.st[o] \in {"Valid", "Borrowed", "Moved"}
    BY <1>2 DEF Held, Lattice, State
  <1>4. EscapesInout(w, o)
    BY <1>2 DEF EscapesInout
  <1>5. Consumable(w, o) \in {"Borrowed", "Moved"}
    BY <1>3, <1>4 DEF Consumable
  <1> HIDE DEF o
  <1> QED BY <1>5 DEF ConsumeDiags, o

\* Where the walk is: within the text, with everything it has.
Walking ==
  /\ Scoped(prog)
  /\ pc <= Len(prog) + 1
  /\ WalkInv(prog, stack, pc, own, out)

\* An inout parameter is held where the walk is.
LEMMA InoutHeld ==
  ASSUME Walking, NEW q \in InoutParam PROVE q \in Name /\ Held(own, q)
  <1>1. q \in Name /\ q \notin Inner
    BY NamesAssumption DEF Name, Param
  <1> QED BY <1>1 DEF Walking, WalkInv, ScopeHeld, Declared

\* A call that moves the value of an inout parameter is reported.
LEMMA CallWithholds ==
  ASSUME TypeOK, Walking, NEW tok \in Text, tok.op = "call",
         NEW k \in DOMAIN tok.args, tok.args[k].mode = "Move", tok.args[k].n \in InoutParam
  PROVE  MoveDiags(tok) # {}
  <1> DEFINE again(i) == \E h \in 1 .. i - 1 :
                           /\ tok.args[h].mode = "Move"
                           /\ Underlying(own, tok.args[h].n) = Underlying(own, tok.args[i].n)
             D(i) == IF again(i) /\ Consumable(own, Underlying(own, tok.args[i].n)) = "Valid"
                     THEN {<<pc, "UseAfterMove">>}
                     ELSE ConsumeDiags(own, tok.args[i].n, pc, "MoveOutOfBorrowedParam")
  <1>1. MoveDiags(tok) = UNION {D(i) : i \in {h \in DOMAIN tok.args : tok.args[h].mode = "Move"}}
    BY DEF MoveDiags
  <1>2. ConsumeDiags(own, tok.args[k].n, pc, "MoveOutOfBorrowedParam") # {}
    BY InoutHeld, InoutNoted DEF TypeOK
  <1>3. D(k) # {}
    BY <1>2
  <1> HIDE DEF D
  <1> QED BY <1>1, <1>3

-----------------------------------------------------------------------------
(* Every step of the walk *)

\* What is above something above is above.
LEMMA AboveAbove == ASSUME NEW a, NEW b, NEW c, Above(a, b), Above(b, c) PROVE Above(a, c)
  BY DEF Above

\* A step that stays in the constructs and takes no name's state.
LEMMA PlainWalking ==
  ASSUME TypeOK, Walking, NEW tok \in Text, At(tok), tok.op \notin Openers \cup Closers,
         Above(own, own'), tok.op = "decl" => Held(own', tok.n),
         out.diags \subseteq out'.diags, Faulty(prog', pc) => out'.diags # {},
         pc' = pc + 1, Alike(stack, stack')
  PROVE  Walking'
  <1>1. /\ prog'[pc] = tok /\ pc \in 1 .. Len(prog') /\ Len(prog') \in Nat
        /\ Scoped(prog') /\ WalkInv(prog', stack, pc, own, out)
    BY AtText DEF Walking
  <1>2. stack \in Seq(Frame) /\ pc \in Nat \ {0}
    BY DEF TypeOK
  <1>3. WalkInv(prog', stack, pc + 1, own', out')
    BY <1>1, <1>2, PlainStep
  <1>4. WalkInv(prog', stack', pc', own', out')
    BY <1>3, AlikeKeeps
  <1>5. pc' <= Len(prog') + 1
    BY <1>1
  <1> QED BY <1>1, <1>4, <1>5 DEF Walking

\* A frame is alike itself.
LEMMA AlikeSelf == ASSUME NEW F PROVE Alike(F, F)
  BY DEF Alike

\* A value is consumed and seated: its new name is held.
LEMMA BindWalking ==
  ASSUME TypeOK, Walking, NEW tok \in Text, tok.op \in {"decl", "assign"}, At(tok),
         NEW displaced, Bind(tok, displaced)
  PROVE  Walking'
  <1>1. pc \in 1 .. MaxLen
    BY AtType, NamesAssumption DEF Siblings, Closers, TypeOK
  <1>2. tok.n \in Name /\ (tok.src # Fresh => tok.src \in Name)
    BY TokenType DEF Source
  <1> DEFINE w     == IF tok.src = Fresh THEN own ELSE Consume(own, tok.src)
             place == IF tok.src = Fresh THEN Temp(tok.n, pc) ELSE Home(tok.src)
  <1>3. w \in Lattice /\ place \in Owner
    <2>1. pc \in 0 .. MaxLen
      BY <1>1, NamesAssumption
    <2> QED BY <1>2, <2>1, UseType, PlaceType DEF TypeOK
  <1>4. Above(own, w)
    <2>1. Above(own, own)
      BY DEF Above
    <2> QED BY <1>2, <2>1, ConsumeAbove DEF TypeOK
  <1>5. own' = Rebind(w, tok.n, place) /\ pc' = pc + 1 /\ UNCHANGED stack
    BY DEF Bind
  <1>6. out.diags \subseteq out'.diags
    BY DEF Bind, TypeOK, Output
  <1> HIDE DEF w, place
  <1>7. Above(own, own') /\ Held(own', tok.n)
    BY <1>2, <1>3, <1>4, <1>5, RebindAbove, AboveAbove
  <1>8. prog'[pc] = tok
    BY AtText DEF Walking
  <1>9. tok.op \notin Openers \cup Closers
    BY DEF Openers, Closers
  <1>10. Faulty(prog', pc) => out'.diags # {}
    <2> SUFFICES ASSUME Faulty(prog', pc) PROVE out'.diags # {}
      OBVIOUS
    <2> DEFINE D == ConsumeDiags(own, tok.src, pc, "MoveOutOfBorrowedParam")
    <2>1. tok.src \in InoutParam
      BY <1>8 DEF Faulty, Repeats, Withholds, Takes
    <2>2. tok.src # Fresh /\ D # {}
      BY <2>1, InoutHeld, InoutNoted, NamesAssumption DEF TypeOK
    <2>3. out'.diags = out.diags \cup D
      BY <2>2 DEF Bind, TypeOK, Output
    <2> HIDE DEF D
    <2> QED BY <2>2, <2>3
  <1> QED BY <1>5, <1>6, <1>7, <1>9, <1>10, AlikeSelf, PlainWalking

\* A self-assignment changes nothing.
LEMMA SelfAssignWalking ==
  ASSUME TypeOK, Walking, NEW tok \in Text, WalkSelfAssign(tok)
  PROVE  Walking'
  <1>1. /\ At(tok) /\ tok.op = "assign" /\ pc' = pc + 1
        /\ own' = own /\ out' = out /\ stack' = stack
    BY DEF WalkSelfAssign
  <1>2. Above(own, own')
    BY <1>1 DEF Above
  <1>3. prog'[pc] = tok
    BY <1>1, AtText DEF Walking
  <1>4. ~Faulty(prog', pc) /\ tok.op \notin Openers \cup Closers
    BY <1>1, <1>3 DEF Faulty, Repeats, Withholds, Openers, Closers
  <1> QED BY <1>1, <1>2, <1>4, AlikeSelf, PlainWalking

\* A call takes no name's state, and is reported if it breaks Rule 7 or moves the
\* value of an inout parameter.
LEMMA CallWalking ==
  ASSUME TypeOK, Walking, NEW tok \in Text, WalkCall(tok)
  PROVE  Walking'
  <1> DEFINE moved == {o \in OwnersOf(tok, "Move") : Consumable(own, o) = "Valid"}
             found == UseDiags(tok) \cup AliasDiags(tok) \cup MoveDiags(tok)
  <1>1. /\ At(tok) /\ tok.op = "call" /\ pc' = pc + 1 /\ stack' = stack
        /\ own' = [own EXCEPT !.st = [o \in Owner |-> IF o \in moved THEN "Moved" ELSE own.st[o]]]
    BY DEF WalkCall
  <1>2. out'.diags = out.diags \cup found
    BY DEF WalkCall, TypeOK, Output
  <1>3. /\ prog'[pc] = tok /\ pc \in 1 .. Len(prog') /\ Scoped(prog')
        /\ WalkInv(prog', stack, pc, own, out)
    BY <1>1, AtText DEF Walking
  <1> HIDE DEF moved
  <1>4. Above(own, own')
    <2>1. /\ own'.cur = own.cur
          /\ \A o \in Owner : own'.st[o] = IF o \in moved THEN "Moved" ELSE own.st[o]
      BY <1>1 DEF TypeOK, Lattice
    <2>2. \A n \in Name : own.cur[n] \in Owner \cup {NoOwner}
      BY DEF TypeOK, Lattice
    <2> QED BY <2>1, <2>2 DEF Above, Held
  <1>5. \A k \in DOMAIN tok.args : Held(own, tok.args[k].n)
    <2> TAKE k \in DOMAIN tok.args
    <2>1. tok.args[k].n \in Name
      <3>1. tok.args \in Seq(Arg)
        BY <1>1, TokenType
      <3>2. tok.args[k] \in Arg
        BY <3>1
      <3> QED BY <3>2 DEF Arg
    <2>2. pc \in DOMAIN prog'
      <3>1. prog' \in Seq(Token)
        BY <1>1, AtType
      <3> QED BY <1>3, <3>1
    <2>3. Declared(prog', tok.args[k].n, pc)
      BY <1>1, <1>3, <2>2 DEF Scoped
    <2> QED BY <1>3, <2>1, <2>3 DEF WalkInv, ScopeHeld
  <1>6. Faulty(prog', pc) => found # {}
    <2> SUFFICES ASSUME Faulty(prog', pc) PROVE found # {}
      OBVIOUS
    <2>1. CASE Repeats(prog', pc)
      <3>1. PICK j \in DOMAIN tok.args, k \in DOMAIN tok.args :
              j # k /\ tok.args[j].mode # "Borrow" /\ tok.args[j].n = tok.args[k].n
        BY <1>3, <2>1 DEF Repeats
      <3>2. AliasDiags(tok) \cup MoveDiags(tok) # {}
        BY <1>1, <1>5, <3>1, CallNoted
      <3> QED BY <3>2
    <2>2. CASE Withholds(prog', pc)
      <3>1. PICK k \in DOMAIN tok.args : tok.args[k].mode = "Move" /\ tok.args[k].n \in InoutParam
        BY <1>1, <1>3, <2>2 DEF Withholds, Takes
      <3>2. MoveDiags(tok) # {}
        BY <1>1, <3>1, CallWithholds
      <3> QED BY <3>2
    <2> QED BY <2>1, <2>2 DEF Faulty
  <1> HIDE DEF found
  <1>7. out.diags \subseteq out'.diags /\ (Faulty(prog', pc) => out'.diags # {})
    BY <1>2, <1>6
  <1>8. tok.op \notin Openers \cup Closers /\ tok.op # "decl"
    BY <1>1 DEF Openers, Closers
  <1> QED BY <1>1, <1>4, <1>7, <1>8, AlikeSelf, PlainWalking

\* A return takes no name's state.
LEMMA ReturnWalking ==
  ASSUME TypeOK, Walking, NEW tok \in Text, WalkReturn(tok)
  PROVE  Walking'
  <1>1. At(tok) /\ tok.op = "return" /\ pc' = pc + 1 /\ stack' = stack
    BY DEF WalkReturn
  <1>2. Above(own, own')
    <2>1. CASE tok.src = Fresh
      <3>1. own' = own
        BY <2>1 DEF WalkReturn
      <3> QED BY <3>1 DEF Above
    <2>2. CASE tok.src # Fresh
      <3>1. own' = Consume(own, tok.src) /\ tok.src \in Name
        BY <1>1, <2>2, TokenType DEF WalkReturn, Source
      <3> QED BY <3>1, ConsumeAbove DEF TypeOK
    <2> QED BY <2>1, <2>2
  <1>3. out.diags \subseteq out'.diags
    <2> DEFINE diags == ConsumeDiags(own, tok.src, pc, "ReturnBorrowedValue")
               moves == ConsumeTransfers(own, tok.src, pc)
    <2>1. CASE tok.src = Fresh
      BY <2>1 DEF WalkReturn
    <2>2. CASE tok.src # Fresh
      <3>1. out' = [out EXCEPT !.diags = out.diags \cup diags, !.transfers = out.transfers \cup moves]
        BY <2>2 DEF WalkReturn
      <3> HIDE DEF diags, moves
      <3> QED BY <3>1 DEF TypeOK, Output
    <2> QED BY <2>1, <2>2
  <1>4. prog'[pc] = tok
    BY <1>1, AtText DEF Walking
  <1>5. tok.op \notin Openers \cup Closers /\ tok.op # "decl"
    BY <1>1 DEF Openers, Closers
  <1>6. Faulty(prog', pc) => out'.diags # {}
    <2> SUFFICES ASSUME Faulty(prog', pc) PROVE out'.diags # {}
      OBVIOUS
    <2> DEFINE D == ConsumeDiags(own, tok.src, pc, "ReturnBorrowedValue")
    <2>1. tok.src \in InoutParam
      BY <1>1, <1>4 DEF Faulty, Repeats, Withholds, Takes
    <2>2. tok.src # Fresh /\ D # {}
      BY <2>1, InoutHeld, InoutNoted, NamesAssumption DEF TypeOK
    <2>3. out'.diags = out.diags \cup D
      BY <2>2 DEF WalkReturn, TypeOK, Output
    <2> HIDE DEF D
    <2> QED BY <2>2, <2>3
  <1> QED BY <1>1, <1>2, <1>3, <1>5, <1>6, AlikeSelf, PlainWalking

\* A jump marks loops and changes nothing else.
LEMMA JumpWalking ==
  ASSUME TypeOK, Walking, NEW tok \in Text, WalkJump(tok)
  PROVE  Walking'
  <1>1. /\ At(tok) /\ tok.op \in {"break", "continue"} /\ pc' = pc + 1
        /\ stack' = Flowing(stack) /\ own' = own /\ out' = out
    BY DEF WalkJump
  <1>2. Above(own, own')
    BY <1>1 DEF Above
  <1>3. Alike(stack, stack')
    BY <1>1, FlowingAlike DEF TypeOK
  <1>4. prog'[pc] = tok
    BY <1>1, AtText DEF Walking
  <1>5. ~Faulty(prog', pc) /\ tok.op \notin Openers \cup Closers /\ tok.op # "decl"
    BY <1>1, <1>4 DEF Faulty, Repeats, Withholds, Openers, Closers
  <1> QED BY <1>1, <1>2, <1>3, <1>5, PlainWalking

\* A construct opens.
LEMMA OpenWalking ==
  ASSUME TypeOK, Walking, NEW tok \in Text, WalkIf(tok) \/ WalkWhile(tok)
  PROVE  Walking'
  <1> DEFINE f == Opened(tok.op)
  <1>1. /\ At(tok) /\ tok.op \in {"if", "while"} /\ stack' = <<f>> \o stack
        /\ pc' = pc + 1 /\ own' = own /\ (tok.op = "if" => out' = out)
    BY DEF WalkIf, WalkWhile
  <1>2. /\ f \in Frame /\ f.kind = tok.op /\ f.at = pc /\ f.snap = own /\ f.entry = own
        /\ f.arms = <<>> /\ f.phase = "propagate" /\ f.saved = out
    BY <1>1, OpenedType DEF Opened
  <1>3. /\ prog'[pc] = tok /\ pc \in 1 .. Len(prog') /\ Scoped(prog')
        /\ WalkInv(prog', stack, pc, own, out)
    BY <1>1, AtText DEF Walking
  <1>4. stack \in Seq(Frame) /\ pc \in Nat \ {0}
    BY DEF TypeOK
  <1> HIDE DEF f
  <1>5. WalkInv(prog', <<f>> \o stack, pc + 1, own, out')
    BY <1>1, <1>2, <1>3, <1>4, PushStep
  <1>6. pc' <= Len(prog') + 1
    BY <1>1, <1>3
  <1> QED BY <1>1, <1>3, <1>5, <1>6 DEF Walking

\* An arm ends and the next one starts from what the if found.
LEMMA NextArmWalking ==
  ASSUME TypeOK, Walking, NEW tok \in Text, WalkNextArm(tok)
  PROVE  Walking'
  <1> DEFINE f == Head(stack)
             arms == Append(f.arms, ThisArm)
             g == [f EXCEPT !.arms = arms, !.hasElse = tok.op = "else"]
  <1>1. /\ At(tok) /\ tok.op \in Siblings /\ stack # <<>> /\ f.kind = "if" /\ pc' = pc + 1
        /\ stack' = <<g>> \o Tail(stack) /\ own' = f.snap /\ out' = out
    BY DEF WalkNextArm, Innermost
  <1>2. /\ prog'[pc] = tok /\ pc \in 1 .. Len(prog') /\ Scoped(prog')
        /\ WalkInv(prog', stack, pc, own, out)
    BY <1>1, AtText DEF Walking
  <1>3. f \in Frame /\ f = stack[1] /\ 1 \in DOMAIN stack /\ stack \in Seq(Frame) /\ pc \in Nat \ {0}
    BY <1>1, ReplacedTop DEF TypeOK
  <1>4. /\ g.kind = f.kind /\ g.at = f.at /\ g.snap = f.snap /\ g.entry = f.entry /\ g.arms = arms
    BY <1>3 DEF Frame
  <1>5. ASSUME NEW a \in DOMAIN arms PROVE Above(f.snap, arms[a].own)
    <2>1. f.arms \in Seq(ArmEnd)
      BY <1>3 DEF Frame
    <2>2. (a \in DOMAIN f.arms /\ arms[a] = f.arms[a]) \/ arms[a] = ThisArm
      BY <2>1
    <2>3. Above(f.snap, own) /\ \A b \in DOMAIN f.arms : Above(f.snap, f.arms[b].own)
      BY <1>2, <1>3 DEF WalkInv, Chain
    <2>4. ThisArm.own = own
      BY DEF ThisArm
    <2> QED BY <2>2, <2>3, <2>4
  <1> HIDE DEF g, arms
  <1>6. \A a \in DOMAIN g.arms : Above(g.snap, g.arms[a].own)
    BY <1>4, <1>5
  <1>7. WalkInv(prog', <<g>> \o Tail(stack), pc + 1, stack[1].snap, out)
    <2> HIDE DEF f
    <2> QED BY <1>1, <1>2, <1>3, <1>4, <1>6, ArmStep
  <1>8. pc' <= Len(prog') + 1
    BY <1>1, <1>2
  <1> QED BY <1>1, <1>2, <1>3, <1>7, <1>8 DEF Walking

\* The merge after an if keeps what the if found.
LEMMA EndIfWalking ==
  ASSUME TypeOK, Walking, NEW tok \in Text, WalkEndIf(tok)
  PROVE  Walking'
  <1> DEFINE f      == Head(stack)
             walked == Append(f.arms, ThisArm)
             absent == [own |-> f.snap, falls |-> TRUE, last |-> 0]
             arms   == IF f.hasElse THEN walked ELSE Append(walked, absent)
  <1>1. /\ At(tok) /\ tok.op = "endif" /\ stack # <<>> /\ f.kind = "if" /\ pc' = pc + 1
        /\ stack' = Tail(stack) /\ own' \in MergeBranches(f.snap, arms)
    BY DEF WalkEndIf, Innermost
  <1>2. /\ prog'[pc] = tok /\ pc \in 1 .. Len(prog') /\ Scoped(prog')
        /\ WalkInv(prog', stack, pc, own, out)
    BY <1>1, AtText DEF Walking
  <1>3. f \in Frame /\ f = stack[1] /\ 1 \in DOMAIN stack /\ stack \in Seq(Frame) /\ pc \in Nat \ {0}
    BY <1>1, ReplacedTop DEF TypeOK
  <1>4. f.snap \in Lattice /\ f.arms \in Seq(ArmEnd)
    BY <1>3 DEF Frame
  <1>5. walked \in Seq(ArmEnd) /\ Append(walked, absent) \in Seq(ArmEnd) /\ arms \in Seq(ArmEnd)
    BY <1>1, MergedArmsType
  <1>6. \A a \in DOMAIN walked : Above(f.snap, walked[a].own)
    <2> TAKE a \in DOMAIN walked
    <2>1. (a \in DOMAIN f.arms /\ walked[a] = f.arms[a]) \/ walked[a] = ThisArm
      BY <1>4
    <2>2. Above(f.snap, own) /\ \A b \in DOMAIN f.arms : Above(f.snap, f.arms[b].own)
      BY <1>2, <1>3 DEF WalkInv, Chain
    <2>3. ThisArm.own = own
      BY DEF ThisArm
    <2> QED BY <2>1, <2>2, <2>3
  <1>7. \A a \in DOMAIN Append(walked, absent) : Above(f.snap, Append(walked, absent)[a].own)
    <2> TAKE a \in DOMAIN Append(walked, absent)
    <2>1. (a \in DOMAIN walked /\ Append(walked, absent)[a] = walked[a])
          \/ Append(walked, absent)[a] = absent
      <3> HIDE DEF walked, absent
      <3> QED BY <1>5
    <2>2. absent.own = f.snap /\ Above(f.snap, f.snap)
      BY DEF Above
    <2> HIDE DEF walked, absent
    <2> QED BY <1>6, <2>1, <2>2
  <1>8. \A a \in DOMAIN arms : Above(f.snap, arms[a].own)
    BY <1>6, <1>7
  <1> HIDE DEF arms
  <1>9. Above(f.snap, own')
    BY <1>1, <1>4, <1>5, <1>8, MergeBranchesAbove
  <1>10. out'.diags = out.diags
    BY DEF WalkEndIf, TypeOK, Output
  <1>11. prog'[pc].op \in Closers
    BY <1>1, <1>2 DEF Closers
  <1>12. WalkInv(prog', Tail(stack), pc + 1, own', out')
    <2> HIDE DEF f
    <2> QED BY <1>1, <1>2, <1>3, <1>9, <1>10, <1>11, PopStep
  <1>13. pc' <= Len(prog') + 1
    BY <1>1, <1>2
  <1> QED BY <1>1, <1>2, <1>12, <1>13 DEF Walking

\* What a bracket of a loop has: its frame and the join of its ends.
LEMMA LoopFrame ==
  ASSUME TypeOK, Walking, NEW tok \in Text, At(tok), tok.op = "endwhile", Innermost("while")
  PROVE  /\ prog'[pc] = tok /\ pc \in 1 .. Len(prog') /\ Len(prog') \in Nat /\ Scoped(prog')
         /\ WalkInv(prog', stack, pc, own, out)
         /\ stack # <<>> /\ stack \in Seq(Frame) /\ pc \in Nat \ {0} /\ BodyFlows \in BOOLEAN
         /\ Head(stack) \in Frame /\ Head(stack) = stack[1] /\ 1 \in DOMAIN stack
         /\ stack[1].kind = "while" /\ stack[1].snap \in Lattice /\ stack[1].entry \in Lattice
         /\ Ascends(stack[1].snap, stack[1].entry) /\ Above(stack[1].snap, own)
         /\ stack[1].at \in 1 .. pc - 1
  <1>1. /\ prog'[pc] = tok /\ pc \in 1 .. Len(prog') /\ Len(prog') \in Nat /\ Scoped(prog')
        /\ WalkInv(prog', stack, pc, own, out)
    BY AtText DEF Walking
  <1>2. stack # <<>> /\ stack \in Seq(Frame) /\ Head(stack).kind = "while"
    BY DEF Innermost, TypeOK
  <1>3. Head(stack) \in Frame /\ Head(stack) = stack[1] /\ 1 \in DOMAIN stack
    BY <1>2, ReplacedTop
  <1>4. stack[1].snap \in Lattice /\ stack[1].entry \in Lattice /\ stack[1].flows \in BOOLEAN
    BY <1>3 DEF Frame
  <1>5. BodyFlows \in BOOLEAN
    BY <1>3, <1>4 DEF BodyFlows, TypeOK
  <1>6. /\ Ascends(stack[1].snap, stack[1].entry) /\ Above(stack[1].snap, own)
        /\ stack[1].at \in 1 .. pc - 1
    BY <1>1, <1>3 DEF WalkInv, Chain, NestedIn
  <1>7. pc \in Nat \ {0}
    BY DEF TypeOK
  <1> QED BY <1>1, <1>2, <1>3, <1>4, <1>5, <1>6, <1>7

\* A propagation pass ends: the body is walked again, or checked.
LEMMA PropagateWalking ==
  ASSUME TypeOK, Walking, NEW tok \in Text, Propagate(tok)
  PROVE  Walking'
  <1> DEFINE f == stack[1]
             flows == BodyFlows
             merged == MergeLoopPlain(f.entry, own, flows)
  <1>1. At(tok) /\ tok.op = "endwhile" /\ Innermost("while")
    BY DEF Propagate
  <1>2. /\ prog'[pc] = tok /\ pc \in 1 .. Len(prog') /\ Len(prog') \in Nat /\ Scoped(prog')
        /\ WalkInv(prog', stack, pc, own, out)
        /\ stack # <<>> /\ stack \in Seq(Frame) /\ pc \in Nat \ {0} /\ flows \in BOOLEAN
        /\ f \in Frame /\ Head(stack) = f
        /\ f.kind = "while" /\ f.snap \in Lattice /\ f.entry \in Lattice
        /\ Ascends(f.snap, f.entry) /\ Above(f.snap, own) /\ f.at \in 1 .. pc - 1
    BY <1>1, LoopFrame
  <1>3. own \in Lattice
    BY DEF TypeOK
  <1>4. merged \in Lattice /\ Ascends(f.entry, merged)
    BY <1>2, <1>3, MergeLoopPlainType, LoopJoinAscends
  <1>5. Ascends(f.snap, merged) /\ Above(f.snap, merged)
    BY <1>2, <1>4, AscentOfAscent, AscentHolds
  <1>6. /\ f.phase = "propagate" /\ pc' = f.at + 1
        /\ \/ own' = merged /\ stack' = <<NextEntry(f, merged)>> \o Tail(stack)
           \/ /\ own' \in LoopOverrides(merged, f.snap, own, flows)
              /\ stack' = <<[Repeated(f) EXCEPT !.phase = "check"]>> \o Tail(stack)
              /\ out' = f.saved
    BY <1>2 DEF Propagate
  <1>7. pc' <= Len(prog') + 1
    BY <1>2, <1>6
  <1>8. /\ Repeated(f).kind = f.kind /\ Repeated(f).at = f.at /\ Repeated(f).snap = f.snap
        /\ Repeated(f).saved = f.saved /\ Repeated(f).arms = f.arms /\ Repeated(f).entry = f.entry
        /\ Repeated(f).phase = f.phase /\ Repeated(f) \in Frame
    <2> DEFINE b == BodyFlows
    <2>1. b \in BOOLEAN /\ Repeated(f) = [f EXCEPT !.flows = b]
      BY <1>2 DEF Repeated
    <2> HIDE DEF b
    <2> QED BY <1>2, <2>1 DEF Frame
  <1> HIDE DEF merged, flows
  <1>9. CASE own' = merged /\ stack' = <<NextEntry(f, merged)>> \o Tail(stack)
    <2> DEFINE g == NextEntry(f, merged)
    <2>1. /\ g.kind = f.kind /\ g.at = f.at /\ g.snap = f.snap /\ g.saved = f.saved
          /\ g.arms = f.arms /\ g.phase = "propagate" /\ g.entry = merged
      <3> DEFINE r == Repeated(f)
      <3>1. g = [r EXCEPT !.entry = merged]
        BY DEF NextEntry
      <3> HIDE DEF r, g
      <3>2. /\ r \in Frame /\ r.kind = f.kind /\ r.at = f.at /\ r.snap = f.snap
            /\ r.saved = f.saved /\ r.arms = f.arms /\ r.phase = "propagate"
        BY <1>6, <1>8 DEF r
      <3> QED BY <3>1, <3>2 DEF Frame
    <2> HIDE DEF g
    <2>2. Ascends(g.snap, g.entry)
      BY <1>5, <2>1
    <2>3. WalkInv(prog', <<g>> \o Tail(stack), f.at + 1, own', out')
      BY <1>2, <1>5, <1>9, <2>1, <2>2, BackStep
    <2> QED BY <1>2, <1>6, <1>7, <1>9, <2>3 DEF Walking, g
  <1>10. CASE /\ own' \in LoopOverrides(merged, f.snap, own, flows)
              /\ stack' = <<[Repeated(f) EXCEPT !.phase = "check"]>> \o Tail(stack)
              /\ out' = f.saved
    <2> DEFINE g == [Repeated(f) EXCEPT !.phase = "check"]
    <2>1. /\ g.kind = f.kind /\ g.at = f.at /\ g.snap = f.snap /\ g.saved = f.saved
          /\ g.arms = f.arms /\ g.entry = f.entry
      <3> DEFINE r == Repeated(f)
      <3>1. g = [r EXCEPT !.phase = "check"]
        OBVIOUS
      <3> HIDE DEF r, g
      <3>2. /\ r \in Frame /\ r.kind = f.kind /\ r.at = f.at /\ r.snap = f.snap
            /\ r.saved = f.saved /\ r.arms = f.arms /\ r.entry = f.entry
        BY <1>8 DEF r
      <3> QED BY <3>1, <3>2 DEF Frame
    <2> HIDE DEF g
    <2>2. Ascends(g.snap, g.entry)
      BY <1>2, <2>1
    <2>3. Above(f.snap, own')
      BY <1>2, <1>3, <1>4, <1>5, <1>10, LoopOverridesAbove
    <2>4. WalkInv(prog', <<g>> \o Tail(stack), f.at + 1, own', out')
      BY <1>2, <1>10, <2>1, <2>2, <2>3, BackStep
    <2> QED BY <1>2, <1>6, <1>7, <1>10, <2>4 DEF Walking, g
  <1> QED BY <1>6, <1>9, <1>10

\* The check pass ends: the loop's join keeps what the loop found.
LEMMA CheckedLoopWalking ==
  ASSUME TypeOK, Walking, NEW tok \in Text, CheckedLoop(tok)
  PROVE  Walking'
  <1> DEFINE f == stack[1]
             flows == BodyFlows
             merged == MergeLoopPlain(f.snap, own, flows)
  <1>1. At(tok) /\ tok.op = "endwhile" /\ Innermost("while")
    BY DEF CheckedLoop
  <1>2. /\ prog'[pc] = tok /\ pc \in 1 .. Len(prog') /\ Len(prog') \in Nat /\ Scoped(prog')
        /\ WalkInv(prog', stack, pc, own, out)
        /\ stack # <<>> /\ stack \in Seq(Frame) /\ pc \in Nat \ {0} /\ flows \in BOOLEAN
        /\ f \in Frame /\ Head(stack) = f /\ f.snap \in Lattice /\ Above(f.snap, own)
    BY <1>1, LoopFrame
  <1>3. own \in Lattice
    BY DEF TypeOK
  <1>4. merged \in Lattice /\ Ascends(f.snap, merged)
    BY <1>2, <1>3, MergeLoopPlainType, LoopJoinAscends
  <1>5. /\ f.phase = "check" /\ pc' = pc + 1 /\ out' = out
        /\ own' \in LoopOverrides(merged, f.snap, own, flows)
        /\ stack' = IF live THEN Flowing(Tail(stack)) ELSE Tail(stack)
    BY <1>2 DEF CheckedLoop, KeptOutput
  <1> HIDE DEF merged, flows
  <1>6. Above(f.snap, own')
    BY <1>2, <1>3, <1>4, <1>5, LoopOverridesAbove
  <1>7. prog'[pc].op \in Closers
    BY <1>1, <1>2 DEF Closers
  <1>8. WalkInv(prog', Tail(stack), pc + 1, own', out')
    BY <1>2, <1>5, <1>6, <1>7, PopStep
  <1>9. Alike(Tail(stack), stack')
    <2>1. Tail(stack) \in Seq(Frame)
      BY <1>2, TopType
    <2> QED BY <1>5, <2>1, AlikeSelf, FlowingAlike
  <1>10. WalkInv(prog', stack', pc', own', out')
    BY <1>5, <1>8, <1>9, AlikeKeeps
  <1>11. pc' <= Len(prog') + 1
    BY <1>2, <1>5
  <1> QED BY <1>2, <1>10, <1>11 DEF Walking

-----------------------------------------------------------------------------
(* What the walk accepts *)

\* The walk has all it needs, and a body it accepted breaks Rule 7 nowhere, nor
\* moves an inout parameter into a declaration, a call or the caller's hands.
Sound ==
  /\ phase = "walk" => Walking
  /\ phase \in {"run", "done"} => \A i \in DOMAIN prog : ~Faulty(prog, i)

\* Before the first token, parameters and outer locals are held.
LEMMA InitWalking == ASSUME Init PROVE Walking
  <1>1. prog = <<>> /\ stack = <<>> /\ pc = 1 /\ own = InitOwn /\ DOMAIN prog = {} /\ DOMAIN stack = {}
    BY DEF Init
  <1>2. Depth(prog, 1) = 0
    <2>1. Opens(prog, 1 - 1) = {} /\ Closes(prog, 1 - 1) = {}
      BY DEF Opens, Closes
    <2>2. Cardinality({}) = 0
      BY FS_EmptySet
    <2> QED BY <2>1, <2>2 DEF Depth
  <1>3. NestedIn(prog, stack, 1)
    BY <1>1, <1>2 DEF NestedIn
  <1>4. ASSUME NEW n \in Name, n \notin Inner PROVE Held(InitOwn, n)
    <2>1. Home(n) \in Owner /\ Temp(n, 0) \in Owner
      <3>1. 0 \in 0 .. MaxLen
        BY NamesAssumption
      <3> QED BY <3>1, PlaceType
    <2>2. InitOwn.cur[n] = CASE n \in Outer -> Temp(n, 0) [] n \in Param -> Home(n) [] OTHER -> NoOwner
      BY DEF InitOwn
    <2>3. CASE n \in Outer
      <3>1. InitOwn.cur[n] = Temp(n, 0) \/ n \in Param
        BY <2>2, <2>3
      <3>2. InitOwn.cur[n] = Temp(n, 0)
        BY <2>3, <3>1, NamesAssumption
      <3>3. InitOwn.st[Temp(n, 0)] = "Valid"
        BY <2>1, <2>3, NamesAssumption DEF InitOwn, Temp, Param
      <3> QED BY <2>1, <3>2, <3>3, NamesAssumption DEF Held
    <2>4. CASE n \in Param
      <3>1. InitOwn.cur[n] = Home(n)
        BY <2>2, <2>4, NamesAssumption
      <3>2. InitOwn.st[Home(n)] # "NotTracked"
        BY <2>1, <2>4, NamesAssumption DEF InitOwn, Home, Param
      <3> QED BY <2>1, <3>1, <3>2, NamesAssumption DEF Held
    <2> QED BY <1>4, <2>3, <2>4 DEF Name
  <1>5. ScopeHeld(prog, stack, 1, own)
    <2>1. ASSUME NEW n \in Name, Declared(prog, n, 1) PROVE n \notin Inner
      <3>1. 1 .. 1 - 1 = {}
        OBVIOUS
      <3> QED BY <2>1, <3>1 DEF Declared
    <2> QED BY <1>1, <1>4, <2>1 DEF ScopeHeld
  <1>6. Chain(stack, own)
    BY <1>1 DEF Chain
  <1>7. Noted(prog, stack, 1, out)
    BY <1>1 DEF Noted
  <1>8. Scoped(prog) /\ pc <= Len(prog) + 1
    BY <1>1 DEF Scoped
  <1> QED BY <1>1, <1>3, <1>5, <1>6, <1>7, <1>8 DEF Walking, WalkInv

\* A body is accepted with nothing in the sink and no loop left to check.
LEMMA EndSound == ASSUME TypeOK, Sound, WalkEnd PROVE Sound'
  <1>1. /\ Walking /\ pc = Len(prog) + 1 /\ stack = <<>> /\ prog' = prog
        /\ phase' = IF out.diags = {} THEN "run" ELSE "rejected"
    BY DEF WalkEnd, Sound
  <1>2. ASSUME out.diags = {}, NEW i \in DOMAIN prog PROVE ~Faulty(prog, i)
    <2>1. i \in 1 .. pc - 1
      BY <1>1 DEF TypeOK
    <2>2. ~Again(stack, i, 0)
      BY <1>1 DEF Again
    <2> QED BY <1>1, <1>2, <2>1, <2>2 DEF Walking, WalkInv, Noted
  <1> QED BY <1>1, <1>2 DEF Sound

\* Soundness is inductive with the types.
LEMMA SoundHolds == Spec => []Sound
  <1>1. Init => Sound
    BY InitWalking DEF Sound, Init
  <1>2. TypeOK /\ Sound /\ [Next]_vars => Sound'
    <2> SUFFICES ASSUME TypeOK, Sound, [Next]_vars PROVE Sound'
      OBVIOUS
    <2>1. CASE UNCHANGED vars
      <3>1. /\ phase' = phase /\ prog' = prog /\ pc' = pc /\ stack' = stack
            /\ own' = own /\ out' = out
        BY <2>1 DEF vars
      <3>2. Walking => Walking'
        BY <3>1 DEF Walking
      <3> QED BY <3>1, <3>2 DEF Sound
    <2>2. CASE WalkEnd
      BY <2>2, EndSound
    <2>3. CASE Run
      BY <2>3 DEF Sound, Run, RunBind, RunCall, RunReturn, RunControl, RunOffEnd, Running
    <2>4. CASE Finished
      BY <2>1, <2>4 DEF Finished
    <2>5. ASSUME NEW tok \in Text, WalkToken(tok) PROVE Sound'
      <3>1. phase = "walk" /\ phase' = "walk"
        BY <2>5 DEF WalkToken, WalkDecl, WalkSelfAssign, WalkAssign, WalkCall, WalkReturn, WalkJump,
           WalkIf, WalkNextArm, WalkEndIf, WalkWhile, Propagate, CheckedLoop, Bind, At
      <3>2. Walking
        BY <3>1 DEF Sound
      <3> SUFFICES Walking'
        BY <3>1 DEF Sound
      <3>3. CASE WalkDecl(tok) \/ WalkAssign(tok)
        BY <3>2, <3>3, BindWalking DEF WalkDecl, WalkAssign
      <3>4. CASE WalkSelfAssign(tok) \/ WalkCall(tok) \/ WalkReturn(tok) \/ WalkJump(tok)
        BY <3>2, <3>4, SelfAssignWalking, CallWalking, ReturnWalking, JumpWalking
      <3>5. CASE WalkIf(tok) \/ WalkWhile(tok)
        BY <3>2, <3>5, OpenWalking
      <3>6. CASE WalkNextArm(tok) \/ WalkEndIf(tok)
        BY <3>2, <3>6, NextArmWalking, EndIfWalking
      <3>7. CASE Propagate(tok) \/ CheckedLoop(tok)
        BY <3>2, <3>7, PropagateWalking, CheckedLoopWalking
      <3> QED BY <2>5, <3>3, <3>4, <3>5, <3>6, <3>7 DEF WalkToken
    <2> QED BY <2>1, <2>2, <2>3, <2>4, <2>5 DEF Next, Walk
  <1> QED BY <1>1, <1>2, Typed, PTL DEF Spec

\* Rule 7, for every body: in a call of an accepted body no name is passed
\* twice unless both are borrows.  Whatever scratch sinks the loops around it
\* threw away, analyze_call has reported any other call to the real one.
THEOREM ArgumentsExclusive == Spec => []ExclusiveArguments
  <1>1. TypeOK /\ Sound => ExclusiveArguments
    <2> SUFFICES ASSUME TypeOK, Sound, Running, Here.op = "call",
                        NEW j \in DOMAIN Here.args, NEW k \in DOMAIN Here.args,
                        j # k, Here.args[j].mode # "Borrow", Here.args[j].n = Here.args[k].n
                 PROVE  FALSE
      BY DEF ExclusiveArguments
    <2>1. phase = "run" /\ pc \in DOMAIN prog
      BY DEF Running, TypeOK
    <2>2. Faulty(prog, pc)
      BY DEF Faulty, Repeats, Here
    <2> QED BY <2>1, <2>2 DEF Sound
  <1> QED BY <1>1, Typed, SoundHolds, PTL

\* Whatever the joins of branches and loops drop, a binding in scope where the
\* walk is has an owner, and the owner a state: none of its uses goes unseen.
THEOREM ScopedNamesHeld ==
  Spec => [](phase = "walk" => \A n \in Name : Declared(prog, n, pc) => Held(own, n))
  <1>1. Sound => (phase = "walk" => \A n \in Name : Declared(prog, n, pc) => Held(own, n))
    BY DEF Sound, Walking, WalkInv, ScopeHeld
  <1> QED BY <1>1, SoundHolds, PTL

-----------------------------------------------------------------------------
(* Nothing moves out of a borrowed parameter *)

\* No token before i moves the value of the parameter c.
Untaken(p, i, c) == \A j \in 1 .. i - 1 : ~Takes(p, j, c)

\* A local is declared before token i, in a block that may have ended.
Born(p, n, i) == \E j \in 1 .. i - 1 : p[j].op = "decl" /\ p[j].n = n

\* Sema has a local declared once, and stored to only where it is in scope; it
\* has nothing stored to a borrowed parameter.
Orderly(p) ==
  /\ \A i, j \in DOMAIN p : p[i].op = "decl" /\ p[j].op = "decl" /\ p[i].n = p[j].n => i = j
  /\ \A i \in DOMAIN p : p[i].op = "decl" => p[i].n \in Inner
  /\ \A i \in DOMAIN p : p[i].op = "assign" => p[i].n \notin BorrowParam /\ Declared(p, p[i].n, i)

\* The parameter keeps its own home; another name is seated there only because
\* the text says so somewhere.
SeatsOf(p, w, c) ==
  /\ w.cur[c] = Home(c)
  /\ \A m \in Name \ {c} : w.cur[m] = Home(c) =>
       \E q \in DOMAIN p : p[q].op \in {"decl", "assign"} /\ p[q].n = m /\ p[q].src = c

\* The value of the parameter is the caller's, or gone: consuming it is always
\* reported.  A name that is seated there has its declaration still ahead.
Intact(p, i, w, c) ==
  /\ w.st[Home(c)] \in {"Borrowed", "Moved"}
  /\ \A m \in Name \ {c} : w.cur[m] = Home(c) => m \in Inner /\ ~Born(p, m, i)

\* A home seated in v is seated alike in w; for names declared at token i or
\* later, which nothing before it reseats, or for all.
Kept(p, i, v, w) == \A m \in Inner : ~Born(p, m, i) /\ v.cur[m] # NoOwner => w.cur[m] = v.cur[m]
SeatsStay(v, w)  == \A m \in Name : v.cur[m] # NoOwner => w.cur[m] = v.cur[m]

\* What is known of the open constructs, as a set of frames.
Frames(F) == {F[k] : k \in DOMAIN F}
FrameSeats(p, f, c) ==
  /\ SeatsOf(p, f.snap, c) /\ SeatsOf(p, f.entry, c)
  /\ f.kind = "if" => \A a \in DOMAIN f.arms : SeatsOf(p, f.arms[a].own, c)
FrameKept(p, f, i, w) ==
  /\ Kept(p, i, f.snap, w)
  /\ f.kind = "if" => \A a \in DOMAIN f.arms : Kept(p, i, f.snap, f.arms[a].own)
FrameIntact(p, f, c) ==
  /\ Intact(p, f.at, f.snap, c) /\ Intact(p, f.at, f.entry, c)
  /\ f.kind = "if" => \A a \in DOMAIN f.arms : Intact(p, f.at, f.arms[a].own, c)

SeatInv(p, S, i, w, c) ==
  /\ SeatsOf(p, w, c)
  /\ \A f \in S : FrameSeats(p, f, c) /\ FrameKept(p, f, i, w)
  /\ \A f, g \in S : f.at < g.at => FrameKept(p, f, g.at, g.snap)

\* A loop that propagates keeps what its body reports from the sink it set
\* aside.  While no sink has anything, no token passed moves the parameter.
Opaque(f) == f.kind = "while" /\ f.phase = "propagate"
CleanBefore(S, i) == \A f \in S : Opaque(f) /\ f.at < i => f.saved.diags = {}
CleanInv(p, S, i, w, o, c) ==
  /\ o.diags = {} /\ CleanBefore(S, i) =>
       Untaken(p, i, c) /\ Intact(p, i, w, c) /\ \A f \in S : FrameIntact(p, f, c)
  /\ \A g \in S : Opaque(g) /\ g.saved.diags = {} /\ CleanBefore(S, g.at) =>
       Untaken(p, g.at, c) /\ \A f \in S : f.at <= g.at => FrameIntact(p, f, c)

\* A local born before token i and stored to after it is in scope there.
LEMMA BornInScope ==
  ASSUME NEW p \in Seq(Token), Orderly(p), NEW m \in Inner, NEW i \in Nat, Born(p, m, i),
         NEW q \in DOMAIN p, q >= i, p[q].op \in {"decl", "assign"}, p[q].n = m
  PROVE  Declared(p, m, i)
  <1>1. DOMAIN p = 1 .. Len(p) /\ Len(p) \in Nat
    OBVIOUS
  <1>2. PICK d \in 1 .. i - 1 : p[d].op = "decl" /\ p[d].n = m
    BY DEF Born
  <1>3. d \in DOMAIN p /\ d # q /\ d < q
    BY <1>1, <1>2
  <1>4. p[q].op = "assign"
    BY <1>2, <1>3 DEF Orderly
  <1>5. PICK j \in 1 .. q - 1 : /\ p[j].op = "decl" /\ p[j].n = m
                                /\ \A k \in j .. q - 1 : LevelIn(p, k) >= LevelIn(p, j)
    BY <1>4 DEF Orderly, Declared
  <1>6. j = d
    <2>1. j \in DOMAIN p
      BY <1>1, <1>5
    <2> QED BY <1>2, <1>3, <1>5, <2>1 DEF Orderly
  <1>7. d .. i - 1 \subseteq j .. q - 1
    BY <1>2, <1>6
  <1> QED BY <1>2, <1>5, <1>6, <1>7 DEF Declared

\* A name that no token passed seats in the parameter's home is not born, if it
\* was not where the construct opened.
LEMMA NotBorn ==
  ASSUME NEW p \in Seq(Token), Orderly(p), NEW c, NEW w, SeatsOf(p, w, c), NEW m \in Name \ {c},
         w.cur[m] = Home(c), m \in Inner, NEW i \in Nat, Untaken(p, i, c),
         NEW a, ~Born(p, m, a), Declared(p, m, i) => Declared(p, m, a)
  PROVE  ~Born(p, m, i)
  <1> SUFFICES ASSUME Born(p, m, i) PROVE FALSE
    OBVIOUS
  <1>1. PICK q \in DOMAIN p : p[q].op \in {"decl", "assign"} /\ p[q].n = m /\ p[q].src = c
    BY DEF SeatsOf
  <1>2. q \in Nat /\ q >= 1 /\ Takes(p, q, c)
    BY <1>1 DEF Takes
  <1>3. q >= i
    BY <1>2 DEF Untaken
  <1>4. Declared(p, m, a)
    BY <1>1, <1>3, BornInScope
  <1> QED BY <1>4 DEF Declared, Born

\* What is born stays so.
LEMMA BornGrows ==
  ASSUME NEW p, NEW i \in Nat, NEW j \in Nat, i <= j, NEW m, Born(p, m, i)
  PROVE  Born(p, m, j)
  <1>1. 1 .. i - 1 \subseteq 1 .. j - 1
    OBVIOUS
  <1> QED BY <1>1 DEF Born

\* Only a declaration brings a name into the world.
LEMMA BornStep ==
  ASSUME NEW p, NEW i \in Nat \ {0}, NEW m, Born(p, m, i + 1)
  PROVE  Born(p, m, i) \/ (p[i].op = "decl" /\ p[i].n = m)
  <1>1. \A j \in 1 .. i + 1 - 1 : j = i \/ j \in 1 .. i - 1
    OBVIOUS
  <1> QED BY <1>1 DEF Born

\* What is kept from a position is kept from a later one, ...
LEMMA KeptGrows ==
  ASSUME NEW p, NEW i \in Nat, NEW j \in Nat, i <= j
  PROVE  /\ \A v, w : Kept(p, i, v, w) => Kept(p, j, v, w)
         /\ \A f, w : FrameKept(p, f, i, w) => FrameKept(p, f, j, w)
         /\ \A w, c : Intact(p, j, w, c) => Intact(p, i, w, c)
  <1>1. \A m : Born(p, m, i) => Born(p, m, j)
    BY BornGrows
  <1>2. \A v, w : Kept(p, i, v, w) => Kept(p, j, v, w)
    BY <1>1 DEF Kept
  <1>3. \A f, w : FrameKept(p, f, i, w) => FrameKept(p, f, j, w)
    BY <1>2 DEF FrameKept
  <1>4. \A w, c : Intact(p, j, w, c) => Intact(p, i, w, c)
    BY <1>1 DEF Intact
  <1> QED BY <1>2, <1>3, <1>4

\* ... and through what comes next.
LEMMA KeptOn ==
  ASSUME NEW p, NEW i, NEW f, NEW v, NEW w, FrameKept(p, f, i, v), Kept(p, i, v, w) \/ SeatsStay(v, w)
  PROVE  FrameKept(p, f, i, w)
  <1>1. Kept(p, i, f.snap, w)
    <2> SUFFICES ASSUME NEW m \in Inner, ~Born(p, m, i), f.snap.cur[m] # NoOwner
                 PROVE  w.cur[m] = f.snap.cur[m]
      BY DEF Kept
    <2>1. v.cur[m] = f.snap.cur[m]
      BY DEF FrameKept, Kept
    <2> QED BY <2>1 DEF Kept, SeatsStay, Name
  <1> QED BY <1>1 DEF FrameKept

\* A token that moves nothing is passed.
LEMMA UntakenStep ==
  ASSUME NEW p, NEW i \in Nat \ {0}, NEW c, Untaken(p, i, c), ~Takes(p, i, c)
  PROVE  Untaken(p, i + 1, c)
  <1>1. \A j \in 1 .. i + 1 - 1 : j = i \/ j \in 1 .. i - 1
    OBVIOUS
  <1> QED BY <1>1 DEF Untaken

\* A token that declares nothing leaves the parameter intact.
LEMMA IntactStep ==
  ASSUME NEW p, NEW i \in Nat \ {0}, p[i].op # "decl", NEW c, NEW w, Intact(p, i, w, c)
  PROVE  Intact(p, i + 1, w, c)
  BY BornStep DEF Intact

\* The parameter's part of what the walk has, at token i of the text p.
BorrowInv(p, S, i, w, o, c) == SeatInv(p, S, i, w, c) /\ CleanInv(p, S, i, w, o, c)

\* A binding, a call, a return or a jump.
LEMMA PlainBorrow ==
  ASSUME NEW p, NEW S, NEW i \in Nat \ {0}, \A f \in S : f.at \in 1 .. i - 1,
         NEW w, NEW o, NEW c, BorrowInv(p, S, i, w, o, c),
         NEW w2, SeatsOf(p, w2, c), Kept(p, i + 1, w, w2), NEW o2, o.diags \subseteq o2.diags,
         o2.diags = {} /\ Intact(p, i, w, c) => ~Takes(p, i, c) /\ Intact(p, i + 1, w2, c)
  PROVE  BorrowInv(p, S, i + 1, w2, o2, c)
  <1>1. i \in Nat /\ i + 1 \in Nat /\ i <= i + 1
    OBVIOUS
  <1>2. \A f \in S : FrameKept(p, f, i + 1, w2)
    <2> TAKE f \in S
    <2>1. FrameKept(p, f, i + 1, w)
      BY <1>1, KeptGrows DEF BorrowInv, SeatInv
    <2> QED BY <2>1, KeptOn
  <1>3. SeatInv(p, S, i + 1, w2, c)
    BY <1>2 DEF BorrowInv, SeatInv
  <1>4. ASSUME o2.diags = {}, CleanBefore(S, i + 1)
        PROVE  Untaken(p, i + 1, c) /\ Intact(p, i + 1, w2, c) /\ \A f \in S : FrameIntact(p, f, c)
    <2>1. o.diags = {}
      BY <1>4
    <2>2. CleanBefore(S, i)
      BY <1>4 DEF CleanBefore
    <2>3. Untaken(p, i, c) /\ Intact(p, i, w, c) /\ \A f \in S : FrameIntact(p, f, c)
      BY <2>1, <2>2 DEF BorrowInv, CleanInv
    <2> QED BY <1>4, <2>3, UntakenStep
  <1>5. CleanInv(p, S, i + 1, w2, o2, c)
    BY <1>4 DEF BorrowInv, CleanInv
  <1> QED BY <1>3, <1>5 DEF BorrowInv

\* A construct that opens; a loop sets the sink aside.
LEMMA PushBorrow ==
  ASSUME NEW p, NEW S, NEW i \in Nat \ {0}, \A f \in S : f.at \in 1 .. i - 1,
         NEW w, NEW o, NEW c, BorrowInv(p, S, i, w, o, c),
         NEW f, f.at = i, f.kind \in {"if", "while"}, f.snap = w, f.entry = w, f.arms = <<>>,
         f.phase = "propagate", f.saved = o, p[i].op = f.kind, NEW o2, f.kind = "if" => o2 = o
  PROVE  BorrowInv(p, S \cup {f}, i + 1, w, o2, c)
  <1> DEFINE T == S \cup {f}
  <1>1. i \in Nat /\ i + 1 \in Nat /\ i <= i + 1 /\ DOMAIN f.arms = {}
    OBVIOUS
  <1>2. ~Takes(p, i, c) /\ p[i].op # "decl"
    BY DEF Takes
  <1>3. SeatInv(p, T, i + 1, w, c)
    <2>1. SeatsOf(p, w, c) /\ FrameSeats(p, f, c)
      BY <1>1 DEF BorrowInv, SeatInv, FrameSeats
    <2>2. FrameKept(p, f, i + 1, w)
      BY <1>1 DEF FrameKept, Kept
    <2>3. \A g \in S : FrameSeats(p, g, c) /\ FrameKept(p, g, i, w) /\ FrameKept(p, g, i + 1, w)
      BY <1>1, KeptGrows DEF BorrowInv, SeatInv
    <2>4. \A g, h \in T : g.at < h.at => FrameKept(p, g, h.at, h.snap)
      <3> SUFFICES ASSUME NEW g \in T, NEW h \in T, g.at < h.at PROVE FrameKept(p, g, h.at, h.snap)
        OBVIOUS
      <3>1. g # f
        <4>1. h = f \/ h.at \in 1 .. i - 1
          OBVIOUS
        <4> QED BY <4>1
      <3>2. CASE h = f
        BY <2>3, <3>1, <3>2
      <3>3. CASE h # f
        BY <3>1, <3>3 DEF BorrowInv, SeatInv
      <3> QED BY <3>2, <3>3
    <2> QED BY <2>1, <2>2, <2>3, <2>4 DEF SeatInv
  <1>4. \A k : CleanBefore(T, k) => CleanBefore(S, k)
    BY DEF CleanBefore
  <1>5. ASSUME o.diags = {}, CleanBefore(T, i)
        PROVE  /\ Untaken(p, i, c) /\ Untaken(p, i + 1, c) /\ Intact(p, i + 1, w, c)
               /\ \A g \in T : FrameIntact(p, g, c)
    <2>1. Untaken(p, i, c) /\ Intact(p, i, w, c) /\ \A g \in S : FrameIntact(p, g, c)
      BY <1>4, <1>5 DEF BorrowInv, CleanInv
    <2>2. FrameIntact(p, f, c)
      BY <1>1, <2>1 DEF FrameIntact
    <2> QED BY <1>2, <2>1, <2>2, UntakenStep, IntactStep
  <1>6. ASSUME o2.diags = {}, CleanBefore(T, i + 1) PROVE o.diags = {} /\ CleanBefore(T, i)
    <2>1. CleanBefore(T, i)
      <3>1. \A g \in T : g.at < i => g.at < i + 1
        <4>1. \A g \in T : g.at \in Nat
          OBVIOUS
        <4> QED BY <4>1
      <3> QED BY <1>6, <3>1 DEF CleanBefore
    <2>2. f.kind = "while" => o.diags = {}
      BY <1>6 DEF CleanBefore, Opaque
    <2> QED BY <1>6, <2>1, <2>2
  <1>7. ASSUME NEW g \in T, Opaque(g), g.saved.diags = {}, CleanBefore(T, g.at)
        PROVE  Untaken(p, g.at, c) /\ \A h \in T : h.at <= g.at => FrameIntact(p, h, c)
    <2>1. CASE g = f
      BY <1>5, <1>7, <2>1
    <2>2. CASE g # f
      <3>1. Untaken(p, g.at, c) /\ \A h \in S : h.at <= g.at => FrameIntact(p, h, c)
        BY <1>4, <1>7, <2>2 DEF BorrowInv, CleanInv
      <3>2. ~(f.at <= g.at)
        BY <2>2
      <3> QED BY <3>1, <3>2
    <2> QED BY <2>1, <2>2
  <1>8. CleanInv(p, T, i + 1, w, o2, c)
    BY <1>5, <1>6, <1>7 DEF CleanInv
  <1> QED BY <1>3, <1>8 DEF BorrowInv

\* The innermost frame: every other one was opened before it.
Innermost1(S, h) == h \in S /\ \A f \in S \ {h} : f.at \in Nat /\ f.at < h.at

\* The next arm of an if starts from what the if found.
LEMMA ArmBorrow ==
  ASSUME NEW p \in Seq(Token), Orderly(p), NEW S, NEW h, Innermost1(S, h),
         NEW i \in Nat \ {0}, h.at \in 1 .. i - 1,
         NEW w, NEW o, NEW c, BorrowInv(p, S, i, w, o, c), p[i].op \in Siblings, h.kind = "if",
         \A n : Declared(p, n, i + 1) => Declared(p, n, h.at),
         NEW g, g.kind = "if", g.at = h.at, g.snap = h.snap, g.entry = h.entry,
         \A a \in DOMAIN g.arms : g.arms[a].own = w \/ \E b \in DOMAIN h.arms : g.arms[a].own = h.arms[b].own
  PROVE  BorrowInv(p, (S \ {h}) \cup {g}, i + 1, h.snap, o, c)
  <1> DEFINE T == (S \ {h}) \cup {g}
  <1>1. /\ i \in Nat /\ i + 1 \in Nat /\ i <= i + 1 /\ h.at \in Nat /\ h.at <= i /\ h.at <= i + 1
        /\ h \in S /\ \A f \in S \ {h} : f.at \in Nat /\ f.at < h.at
    BY DEF Innermost1
  <1>2. ~Takes(p, i, c) /\ p[i].op # "decl"
    BY DEF Takes, Siblings
  <1>3. FrameSeats(p, h, c) /\ FrameKept(p, h, i, w) /\ SeatsOf(p, w, c)
    BY <1>1 DEF BorrowInv, SeatInv
  <1>4. SeatInv(p, T, i + 1, h.snap, c)
    <2>1. SeatsOf(p, h.snap, c) /\ FrameSeats(p, g, c)
      BY <1>3 DEF FrameSeats
    <2>2. FrameKept(p, g, i + 1, h.snap)
      <3>1. Kept(p, i + 1, h.snap, w) /\ \A b \in DOMAIN h.arms : Kept(p, i + 1, h.snap, h.arms[b].own)
        BY <1>1, <1>3, KeptGrows DEF FrameKept
      <3>2. \A v : \A b : v.own = b.own /\ Kept(p, i + 1, h.snap, b.own) => Kept(p, i + 1, h.snap, v.own)
        BY DEF Kept
      <3>3. \A a \in DOMAIN g.arms : Kept(p, i + 1, h.snap, g.arms[a].own)
        BY <3>1, <3>2
      <3>4. Kept(p, i + 1, h.snap, h.snap)
        BY DEF Kept
      <3> QED BY <3>3, <3>4 DEF FrameKept
    <2>3. ASSUME NEW f \in S \ {h}
          PROVE  /\ FrameSeats(p, f, c) /\ FrameKept(p, f, h.at, h.snap)
                 /\ FrameKept(p, f, i + 1, h.snap)
      BY <1>1, KeptGrows DEF BorrowInv, SeatInv
    <2>4. \A f, k \in T : f.at < k.at => FrameKept(p, f, k.at, k.snap)
      <3> SUFFICES ASSUME NEW f \in T, NEW k \in T, f.at < k.at PROVE FrameKept(p, f, k.at, k.snap)
        OBVIOUS
      <3>1. f # g
        BY <1>1
      <3>2. CASE k = g
        BY <2>3, <3>1, <3>2
      <3>3. CASE k # g
        BY <3>1, <3>3 DEF BorrowInv, SeatInv
      <3> QED BY <3>2, <3>3
    <2> QED BY <2>1, <2>2, <2>3, <2>4 DEF SeatInv
  <1>5. ASSUME NEW k, CleanBefore(T, k) PROVE CleanBefore(S, k)
    BY <1>5 DEF CleanBefore, Opaque
  <1>6. ASSUME o.diags = {}, CleanBefore(T, i + 1)
        PROVE  Untaken(p, i + 1, c) /\ Intact(p, i + 1, h.snap, c) /\ \A f \in T : FrameIntact(p, f, c)
    <2>1. CleanBefore(S, i)
      <3>1. CleanBefore(S, i + 1)
        BY <1>5, <1>6
      <3>2. \A f \in S : f.at < i => f.at < i + 1
        <4>1. \A f \in S : f.at \in Nat
          BY <1>1
        <4> QED BY <4>1
      <3> QED BY <3>1, <3>2 DEF CleanBefore
    <2>2. Untaken(p, i, c) /\ Intact(p, i, w, c) /\ \A f \in S : FrameIntact(p, f, c)
      BY <1>6, <2>1 DEF BorrowInv, CleanInv
    <2>3. Untaken(p, i + 1, c)
      BY <1>2, <2>2, UntakenStep
    <2>4. Intact(p, h.at, h.snap, c) /\ Intact(p, h.at, h.entry, c) /\ Intact(p, h.at, w, c)
          /\ \A b \in DOMAIN h.arms : Intact(p, h.at, h.arms[b].own, c)
      BY <1>1, <2>2, KeptGrows DEF FrameIntact
    <2>5. Intact(p, i + 1, h.snap, c)
      <3>1. ASSUME NEW m \in Name \ {c}, h.snap.cur[m] = Home(c) PROVE m \in Inner /\ ~Born(p, m, i + 1)
        <4>1. m \in Inner /\ ~Born(p, m, h.at)
          BY <2>4, <3>1 DEF Intact
        <4>2. SeatsOf(p, h.snap, c)
          BY <1>3 DEF FrameSeats
        <4> QED BY <1>1, <2>3, <3>1, <4>1, <4>2, NotBorn
      <3> QED BY <2>4, <3>1 DEF Intact
    <2>6. FrameIntact(p, g, c)
      <3>1. \A v : \A b : v.own = b.own /\ Intact(p, h.at, b.own, c) => Intact(p, h.at, v.own, c)
        BY DEF Intact
      <3>2. \A a \in DOMAIN g.arms : Intact(p, h.at, g.arms[a].own, c)
        BY <2>4, <3>1
      <3> QED BY <2>4, <3>2 DEF FrameIntact
    <2> QED BY <2>2, <2>3, <2>5, <2>6
  <1>7. ASSUME NEW k \in T, Opaque(k), k.saved.diags = {}, CleanBefore(T, k.at)
        PROVE  Untaken(p, k.at, c) /\ \A f \in T : f.at <= k.at => FrameIntact(p, f, c)
    <2>1. k # g /\ k \in S
      BY <1>7 DEF Opaque
    <2>2. Untaken(p, k.at, c) /\ \A f \in S : f.at <= k.at => FrameIntact(p, f, c)
      BY <1>5, <1>7, <2>1 DEF BorrowInv, CleanInv
    <2>3. ~(g.at <= k.at)
      <3>1. k \in S \ {h} /\ k.at \in Nat /\ k.at < h.at
        BY <1>1, <1>7, <2>1 DEF Opaque
      <3> QED BY <1>1, <3>1
    <2> QED BY <2>2, <2>3
  <1>8. CleanInv(p, T, i + 1, h.snap, o, c)
    BY <1>6, <1>7 DEF CleanInv
  <1> QED BY <1>4, <1>8 DEF BorrowInv

\* A construct that closes with its merge.
LEMMA PopBorrow ==
  ASSUME NEW p, NEW S, NEW h, Innermost1(S, h), NEW i \in Nat \ {0}, h.at \in 1 .. i - 1,
         NEW w, NEW o, NEW c, BorrowInv(p, S, i, w, o, c), p[i].op \in Closers, ~Opaque(h),
         NEW w2, SeatsOf(p, w2, c), SeatsStay(h.snap, w2), NEW o2, o2.diags = o.diags,
         Untaken(p, i + 1, c) /\ Intact(p, i, w, c) /\ FrameIntact(p, h, c) => Intact(p, i + 1, w2, c)
  PROVE  BorrowInv(p, S \ {h}, i + 1, w2, o2, c)
  <1> DEFINE T == S \ {h}
  <1>1. /\ i \in Nat /\ i + 1 \in Nat /\ i <= i + 1 /\ h.at \in Nat /\ h.at <= i + 1 /\ h.at < i
        /\ h \in S /\ \A f \in S \ {h} : f.at \in Nat /\ f.at < h.at
    BY DEF Innermost1
  <1>2. ~Takes(p, i, c)
    BY DEF Takes, Closers
  <1>3. SeatInv(p, T, i + 1, w2, c)
    <2>1. ASSUME NEW f \in T PROVE FrameSeats(p, f, c) /\ FrameKept(p, f, i + 1, w2)
      <3>1. FrameSeats(p, f, c) /\ FrameKept(p, f, h.at, h.snap)
        BY <1>1 DEF BorrowInv, SeatInv
      <3>2. FrameKept(p, f, h.at, w2)
        BY <3>1, KeptOn
      <3> QED BY <1>1, <3>1, <3>2, KeptGrows
    <2> QED BY <2>1 DEF BorrowInv, SeatInv
  <1>4. ASSUME NEW k \in Nat, k <= i, CleanBefore(T, k) PROVE CleanBefore(S, k)
    BY <1>4 DEF CleanBefore
  <1>5. ASSUME o2.diags = {}, CleanBefore(T, i + 1)
        PROVE  Untaken(p, i + 1, c) /\ Intact(p, i + 1, w2, c) /\ \A f \in T : FrameIntact(p, f, c)
    <2>1. CleanBefore(T, i)
      <3>1. \A f \in T : f.at < i => f.at < i + 1
        <4>1. \A f \in T : f.at \in Nat
          BY <1>1
        <4> QED BY <4>1
      <3> QED BY <1>5, <3>1 DEF CleanBefore
    <2>2. CleanBefore(S, i)
      BY <1>1, <1>4, <2>1
    <2>3. Untaken(p, i, c) /\ Intact(p, i, w, c) /\ \A f \in S : FrameIntact(p, f, c)
      BY <1>5, <2>2 DEF BorrowInv, CleanInv
    <2>4. Untaken(p, i + 1, c)
      BY <1>2, <2>3, UntakenStep
    <2> QED BY <1>1, <2>3, <2>4
  <1>6. ASSUME NEW k \in T, Opaque(k), k.saved.diags = {}, CleanBefore(T, k.at)
        PROVE  Untaken(p, k.at, c) /\ \A f \in T : f.at <= k.at => FrameIntact(p, f, c)
    <2>1. k.at \in Nat /\ k.at <= i
      BY <1>1
    <2>2. CleanBefore(S, k.at)
      BY <1>4, <1>6, <2>1
    <2> QED BY <1>6, <2>2 DEF BorrowInv, CleanInv
  <1>7. CleanInv(p, T, i + 1, w2, o2, c)
    BY <1>5, <1>6 DEF CleanInv
  <1> QED BY <1>3, <1>7 DEF BorrowInv

\* The body of a loop from its head again: with a scratch sink, or with the
\* sink the loop set aside.
LEMMA BackBorrow ==
  ASSUME NEW p, NEW S, NEW h, Innermost1(S, h), NEW i, NEW a \in Nat \ {0}, h.at = a,
         NEW w, NEW o, NEW c, BorrowInv(p, S, i, w, o, c), p[a].op = "while", Opaque(h),
         NEW g, g.kind = "while", g.at = a, g.snap = h.snap, g.saved = h.saved, SeatsOf(p, g.entry, c),
         NEW w2, SeatsOf(p, w2, c), SeatsStay(h.snap, w2),
         NEW o2, g.phase = "propagate" \/ (g.phase = "check" /\ o2 = h.saved),
         Untaken(p, a, c) /\ FrameIntact(p, h, c) => Intact(p, a, g.entry, c) /\ Intact(p, a, w2, c)
  PROVE  BorrowInv(p, (S \ {h}) \cup {g}, a + 1, w2, o2, c)
  <1> DEFINE T == (S \ {h}) \cup {g}
  <1>1. /\ a \in Nat /\ a + 1 \in Nat /\ a <= a + 1 /\ a < a + 1
        /\ h \in S /\ \A f \in S \ {h} : f.at \in Nat /\ f.at < a
    BY DEF Innermost1
  <1>2. ~Takes(p, a, c) /\ p[a].op # "decl" /\ g.kind # "if"
    BY DEF Takes
  <1>3. SeatInv(p, T, a + 1, w2, c)
    <2>1. FrameSeats(p, g, c)
      BY <1>1, <1>2 DEF BorrowInv, SeatInv, FrameSeats
    <2>2. FrameKept(p, g, a + 1, w2)
      BY <1>2 DEF FrameKept, Kept, SeatsStay, Name
    <2>3. ASSUME NEW f \in S \ {h}
          PROVE  FrameSeats(p, f, c) /\ FrameKept(p, f, a, h.snap) /\ FrameKept(p, f, a + 1, w2)
      <3>1. FrameSeats(p, f, c) /\ FrameKept(p, f, a, h.snap)
        BY <1>1 DEF BorrowInv, SeatInv
      <3>2. FrameKept(p, f, a, w2)
        BY <3>1, KeptOn
      <3> QED BY <1>1, <3>1, <3>2, KeptGrows
    <2>4. \A f, k \in T : f.at < k.at => FrameKept(p, f, k.at, k.snap)
      <3> SUFFICES ASSUME NEW f \in T, NEW k \in T, f.at < k.at PROVE FrameKept(p, f, k.at, k.snap)
        OBVIOUS
      <3>1. f # g
        BY <1>1
      <3>2. CASE k = g
        BY <2>3, <3>1, <3>2
      <3>3. CASE k # g
        BY <3>1, <3>3 DEF BorrowInv, SeatInv
      <3> QED BY <3>2, <3>3
    <2> QED BY <2>1, <2>2, <2>3, <2>4 DEF SeatInv
  <1>4. ASSUME NEW k \in Nat, k <= a, CleanBefore(T, k) PROVE CleanBefore(S, k)
    <2>1. ~(h.at < k)
      BY <1>4
    <2> QED BY <1>4, <2>1 DEF CleanBefore
  <1>5. ASSUME g.saved.diags = {}, CleanBefore(T, a)
        PROVE  /\ Untaken(p, a, c) /\ Untaken(p, a + 1, c) /\ Intact(p, a + 1, w2, c)
               /\ \A f \in T : FrameIntact(p, f, c)
    <2>1. CleanBefore(S, a)
      BY <1>1, <1>4, <1>5
    <2>2. Untaken(p, a, c) /\ \A f \in S : FrameIntact(p, f, c)
      <3>1. \A f \in S : f.at <= h.at
        <4> TAKE f \in S
        <4>1. CASE f = h
          BY <4>1
        <4>2. CASE f # h
          BY <1>1, <4>2
        <4> QED BY <4>1, <4>2
      <3> QED BY <1>1, <1>5, <2>1, <3>1 DEF BorrowInv, CleanInv
    <2>3. Intact(p, a, g.entry, c) /\ Intact(p, a, w2, c)
      BY <1>1, <2>2
    <2>4. FrameIntact(p, g, c)
      BY <1>1, <1>2, <2>2, <2>3 DEF FrameIntact
    <2> QED BY <1>2, <2>2, <2>3, <2>4, UntakenStep, IntactStep
  <1>6. ASSUME o2.diags = {}, CleanBefore(T, a + 1)
        PROVE  Untaken(p, a + 1, c) /\ Intact(p, a + 1, w2, c) /\ \A f \in T : FrameIntact(p, f, c)
    <2>1. CleanBefore(T, a)
      <3>1. \A f \in T : f.at < a => f.at < a + 1
        <4>1. \A f \in T : f.at \in Nat
          BY <1>1
        <4> QED BY <4>1
      <3> QED BY <1>6, <3>1 DEF CleanBefore
    <2>2. g.saved.diags = {}
      <3>1. g.phase = "propagate" => g.saved.diags = {}
        BY <1>1, <1>6 DEF CleanBefore, Opaque
      <3> QED BY <1>6, <3>1
    <2> QED BY <1>5, <2>1, <2>2
  <1>7. ASSUME NEW k \in T, Opaque(k), k.saved.diags = {}, CleanBefore(T, k.at)
        PROVE  Untaken(p, k.at, c) /\ \A f \in T : f.at <= k.at => FrameIntact(p, f, c)
    <2>1. CASE k = g
      BY <1>5, <1>7, <2>1
    <2>2. CASE k # g
      <3>1. k \in S /\ k.at \in Nat /\ k.at < a /\ k.at <= a
        BY <1>1, <2>2
      <3>2. CleanBefore(S, k.at)
        BY <1>4, <1>7, <3>1
      <3>3. Untaken(p, k.at, c) /\ \A f \in S : f.at <= k.at => FrameIntact(p, f, c)
        BY <1>7, <3>1, <3>2 DEF BorrowInv, CleanInv
      <3>4. ~(g.at <= k.at)
        BY <3>1
      <3> QED BY <3>3, <3>4
    <2> QED BY <2>1, <2>2
  <1>8. CleanInv(p, T, a + 1, w2, o2, c)
    BY <1>6, <1>7 DEF CleanInv
  <1> QED BY <1>3, <1>8 DEF BorrowInv

\* The frames of a stack were opened one behind the other.
LEMMA FrameOrder ==
  ASSUME NEW p, NEW F \in Seq(Frame), NEW i \in Nat, NestedIn(p, F, i),
         NEW k \in DOMAIN F, NEW l \in DOMAIN F, k < l
  PROVE  F[l].at < F[k].at
  <1>1. k \in Nat /\ l \in Nat /\ Len(F) \in Nat
    OBVIOUS
  <1>2. /\ F[k].at \in 1 .. i - 1 /\ F[l].at \in 1 .. i - 1
        /\ Depth(p, F[k].at) = Len(F) - k /\ Depth(p, F[l].at) = Len(F) - l
        /\ \A j \in F[k].at + 1 .. i : Depth(p, j) > Len(F) - k
    BY DEF NestedIn
  <1>3. F[l].at # F[k].at
    BY <1>1, <1>2
  <1>4. F[l].at \notin F[k].at + 1 .. i
    <2> SUFFICES ASSUME F[l].at \in F[k].at + 1 .. i PROVE FALSE
      OBVIOUS
    <2>1. Len(F) - l > Len(F) - k
      BY <1>2
    <2> QED BY <1>1, <2>1
  <1>5. \A x, y : x \in 1 .. i - 1 /\ y \in 1 .. i - 1 /\ x # y /\ x \notin y + 1 .. i => x < y
    OBVIOUS
  <1> HIDE DEF NestedIn
  <1> QED BY <1>2, <1>3, <1>4, <1>5

\* A frame put on a stack is one more; ...
LEMMA PushFrame ==
  ASSUME NEW F \in Seq(Frame), NEW f
  PROVE  Frames(<<f>> \o F) = Frames(F) \cup {f}
  <1> DEFINE G == <<f>> \o F
  <1>1. /\ 1 \in DOMAIN G /\ G[1] = f
        /\ \A k \in DOMAIN G : k # 1 => k \in Nat /\ k > 1 /\ k - 1 \in DOMAIN F /\ G[k] = F[k - 1]
        /\ \A k \in DOMAIN F : k \in Nat /\ k + 1 \in DOMAIN G /\ G[k + 1] = F[k]
    BY Pushed
  <1> HIDE DEF G
  <1>2. \A x \in Frames(G) : x \in Frames(F) \cup {f}
    BY <1>1 DEF Frames
  <1>3. \A x \in Frames(F) \cup {f} : x \in Frames(G)
    BY <1>1 DEF Frames
  <1>4. Frames(G) = Frames(F) \cup {f}
    BY <1>2, <1>3
  <1> QED BY <1>4 DEF G

\* ... the innermost is not among the others, and can be taken off or replaced.
LEMMA TopFrame ==
  ASSUME NEW p, NEW F \in Seq(Frame), F # <<>>, NEW i \in Nat, NestedIn(p, F, i)
  PROVE  /\ Innermost1(Frames(F), F[1]) /\ F[1].at \in 1 .. i - 1
         /\ Frames(Tail(F)) = Frames(F) \ {F[1]}
         /\ \A g : Frames(<<g>> \o Tail(F)) = (Frames(F) \ {F[1]}) \cup {g}
  <1> DEFINE G == Tail(F)
  <1>1. /\ \A k \in DOMAIN G : k + 1 \in DOMAIN F /\ k + 1 > 1 /\ G[k] = F[k + 1]
        /\ \A k \in DOMAIN F : k # 1 => k \in Nat /\ k > 1 /\ k - 1 \in DOMAIN G /\ F[k] = G[k - 1]
    BY Popped
  <1>2. 1 \in DOMAIN F /\ G \in Seq(Frame)
    OBVIOUS
  <1> HIDE DEF G
  <1>3. \A k \in DOMAIN F : F[k].at \in 1 .. i - 1
    BY DEF NestedIn
  <1>4. \A k \in DOMAIN F : k # 1 => F[k].at < F[1].at
    BY <1>1, <1>2, FrameOrder
  <1>5. \A x : x \in 1 .. i - 1 => x \in Nat /\ ~(x < x)
    OBVIOUS
  <1>6. \A k \in DOMAIN F : k # 1 => F[k] # F[1]
    BY <1>2, <1>3, <1>4, <1>5
  <1>7. Innermost1(Frames(F), F[1])
    BY <1>2, <1>3, <1>4, <1>5 DEF Innermost1, Frames
  <1>8. Frames(G) = Frames(F) \ {F[1]}
    <2>1. \A x \in Frames(G) : x \in Frames(F) \ {F[1]}
      <3> SUFFICES ASSUME NEW k \in DOMAIN G PROVE G[k] \in Frames(F) \ {F[1]}
        BY DEF Frames
      <3>1. k + 1 \in DOMAIN F /\ k + 1 # 1 /\ G[k] = F[k + 1]
        BY <1>1
      <3> QED BY <1>6, <3>1 DEF Frames
    <2>2. \A x \in Frames(F) \ {F[1]} : x \in Frames(G)
      BY <1>1 DEF Frames
    <2> QED BY <2>1, <2>2
  <1>9. \A g : Frames(<<g>> \o G) = Frames(G) \cup {g}
    BY <1>2, PushFrame
  <1> QED BY <1>2, <1>3, <1>7, <1>8, <1>9 DEF G

\* Whether the body comes back is nothing the parameter rests on.
LEMMA AlikeBorrow ==
  ASSUME NEW F, NEW G, Alike(F, G), NEW p, NEW i, NEW w, NEW o, NEW c,
         BorrowInv(p, Frames(F), i, w, o, c)
  PROVE  BorrowInv(p, Frames(G), i, w, o, c)
  <1> DEFINE Like(f, g) == /\ g.kind = f.kind /\ g.at = f.at /\ g.snap = f.snap /\ g.entry = f.entry
                           /\ g.arms = f.arms /\ g.phase = f.phase /\ g.saved = f.saved
  <1>1. /\ \A g \in Frames(G) : \E f \in Frames(F) : Like(f, g)
        /\ \A f \in Frames(F) : \E g \in Frames(G) : Like(f, g)
    BY DEF Alike, Frames
  <1>2. \A f, g : Like(f, g) => /\ FrameSeats(p, f, c) => FrameSeats(p, g, c)
                                /\ \A j, v : FrameKept(p, f, j, v) => FrameKept(p, g, j, v)
                                /\ FrameIntact(p, f, c) => FrameIntact(p, g, c)
                                /\ Opaque(g) => Opaque(f)
                                /\ Opaque(f) => Opaque(g)
    BY DEF FrameSeats, FrameKept, FrameIntact, Opaque
  <1>3. SeatInv(p, Frames(G), i, w, c)
    <2>1. ASSUME NEW g \in Frames(G) PROVE FrameSeats(p, g, c) /\ FrameKept(p, g, i, w)
      BY <1>1, <1>2 DEF BorrowInv, SeatInv
    <2>2. ASSUME NEW g \in Frames(G), NEW k \in Frames(G), g.at < k.at PROVE FrameKept(p, g, k.at, k.snap)
      <3>1. PICK f \in Frames(F) : Like(f, g)
        BY <1>1
      <3>2. PICK h \in Frames(F) : Like(h, k)
        BY <1>1
      <3>3. FrameKept(p, f, h.at, h.snap)
        BY <2>2, <3>1, <3>2 DEF BorrowInv, SeatInv
      <3> QED BY <1>2, <3>1, <3>2, <3>3
    <2> QED BY <2>1, <2>2 DEF BorrowInv, SeatInv
  <1>4. ASSUME NEW k, CleanBefore(Frames(G), k) PROVE CleanBefore(Frames(F), k)
    <2> SUFFICES ASSUME NEW f \in Frames(F), Opaque(f), f.at < k PROVE f.saved.diags = {}
      BY DEF CleanBefore
    <2>1. PICK g \in Frames(G) : Like(f, g)
      BY <1>1
    <2> QED BY <1>2, <1>4, <2>1 DEF CleanBefore
  <1>5. ASSUME o.diags = {}, CleanBefore(Frames(G), i)
        PROVE  Untaken(p, i, c) /\ Intact(p, i, w, c) /\ \A g \in Frames(G) : FrameIntact(p, g, c)
    <2>1. Untaken(p, i, c) /\ Intact(p, i, w, c) /\ \A f \in Frames(F) : FrameIntact(p, f, c)
      BY <1>4, <1>5 DEF BorrowInv, CleanInv
    <2> QED BY <1>1, <1>2, <2>1
  <1>6. ASSUME NEW k \in Frames(G), Opaque(k), k.saved.diags = {}, CleanBefore(Frames(G), k.at)
        PROVE  Untaken(p, k.at, c) /\ \A g \in Frames(G) : g.at <= k.at => FrameIntact(p, g, c)
    <2>1. PICK h \in Frames(F) : Like(h, k)
      BY <1>1
    <2>2. Opaque(h) /\ h.saved.diags = {} /\ CleanBefore(Frames(F), h.at)
      BY <1>2, <1>4, <1>6, <2>1
    <2>3. Untaken(p, k.at, c) /\ \A f \in Frames(F) : f.at <= k.at => FrameIntact(p, f, c)
      BY <2>1, <2>2 DEF BorrowInv, CleanInv
    <2> QED BY <1>1, <1>2, <2>3
  <1>7. CleanInv(p, Frames(G), i, w, o, c)
    BY <1>5, <1>6 DEF CleanInv
  <1> QED BY <1>3, <1>7 DEF BorrowInv

\* A text that grows behind the walk says the same of the parameter.
LEMMA TextBorrow ==
  ASSUME NEW p, NEW q, NEW m \in Nat, DOMAIN p = 1 .. m, DOMAIN p \subseteq DOMAIN q,
         \A j \in 1 .. m : q[j] = p[j], NEW i \in 1 .. m + 1,
         NEW S, \A f \in S : f.at \in 1 .. i - 1,
         NEW w, NEW o, NEW c, BorrowInv(p, S, i, w, o, c)
  PROVE  BorrowInv(q, S, i, w, o, c)
  <1>1. /\ \A k \in 1 .. m + 1 : 1 .. k - 1 \subseteq 1 .. m
        /\ \A f \in S : f.at \in 1 .. m + 1
        /\ i \in 1 .. m + 1
    OBVIOUS
  <1>2. ASSUME NEW k \in 1 .. m + 1
        PROVE  /\ \A n : Born(q, n, k) <=> Born(p, n, k)
               /\ Untaken(p, k, c) => Untaken(q, k, c)
    <2>1. \A j \in 1 .. k - 1 : q[j] = p[j]
      BY <1>1
    <2> QED BY <2>1 DEF Born, Untaken, Takes
  <1>3. \A v : SeatsOf(p, v, c) => SeatsOf(q, v, c)
    BY DEF SeatsOf
  <1>4. ASSUME NEW k \in 1 .. m + 1
        PROVE  /\ \A v : Intact(p, k, v, c) => Intact(q, k, v, c)
               /\ \A v, u : Kept(p, k, v, u) => Kept(q, k, v, u)
    BY <1>2 DEF Intact, Kept
  <1>5. ASSUME NEW f \in S
        PROVE  /\ FrameSeats(p, f, c) => FrameSeats(q, f, c)
               /\ FrameIntact(p, f, c) => FrameIntact(q, f, c)
    BY <1>1, <1>3, <1>4 DEF FrameSeats, FrameIntact
  <1>6. ASSUME NEW f \in S, NEW k \in 1 .. m + 1, NEW v, FrameKept(p, f, k, v) PROVE FrameKept(q, f, k, v)
    BY <1>4, <1>6 DEF FrameKept
  <1>7. SeatInv(q, S, i, w, c)
    BY <1>1, <1>3, <1>5, <1>6 DEF BorrowInv, SeatInv
  <1>8. CleanInv(q, S, i, w, o, c)
    <2>1. ASSUME o.diags = {}, CleanBefore(S, i)
          PROVE  Untaken(q, i, c) /\ Intact(q, i, w, c) /\ \A f \in S : FrameIntact(q, f, c)
      BY <1>1, <1>2, <1>4, <1>5, <2>1 DEF BorrowInv, CleanInv
    <2>2. ASSUME NEW g \in S, Opaque(g), g.saved.diags = {}, CleanBefore(S, g.at)
          PROVE  Untaken(q, g.at, c) /\ \A f \in S : f.at <= g.at => FrameIntact(q, f, c)
      BY <1>1, <1>2, <1>5, <2>2 DEF BorrowInv, CleanInv
    <2> QED BY <2>1, <2>2 DEF CleanInv
  <1> QED BY <1>7, <1>8 DEF BorrowInv

\* What sema resolves where the text ends is in scope there.
LEMMA VisibleInScope ==
  ASSUME NEW n, Visible(n), Len(prog) \in Nat
  PROVE  Declared(prog, n, Len(prog) + 1)
  <1> DEFINE m == Len(prog)
  <1>1. \A j : LevelIn(prog, j) = Level(j)
    BY DEF LevelIn, Level, Opens, Closes
  <1>2. (m + 1) - 1 = m
    OBVIOUS
  <1>3. n \in Inner => \E j \in 1 .. m : /\ prog[j].op = "decl" /\ prog[j].n = n
                                         /\ \A h \in j .. m : Level(h) >= Level(j)
    BY DEF Visible
  <1> HIDE DEF m
  <1>4. Declared(prog, n, m + 1)
    BY <1>1, <1>2, <1>3 DEF Declared
  <1> QED BY <1>4 DEF m

\* The token that is read or written, the text with it, and the parameter.
LEMMA AtBorrow ==
  ASSUME TypeOK, Walking, Orderly(prog), NEW c, BorrowInv(prog, Frames(stack), pc, own, out, c),
         NEW tok \in Text, At(tok)
  PROVE  /\ prog' \in Seq(Token) /\ Orderly(prog') /\ prog'[pc] = tok /\ pc \in DOMAIN prog'
         /\ pc \in Nat \ {0} /\ BorrowInv(prog', Frames(stack), pc, own, out, c)
         /\ \A f \in Frames(stack) : f.at \in 1 .. pc - 1
  <1>1. prog \in Seq(Token) /\ pc \in Nat \ {0} /\ stack \in Seq(Frame)
    BY DEF TypeOK
  <1>2. \A f \in Frames(stack) : f.at \in 1 .. pc - 1
    BY DEF Frames, Walking, WalkInv, NestedIn
  <1>3. prog' \in Seq(Token)
    BY AtType
  <1>4. CASE pc <= Len(prog) /\ prog[pc] = tok /\ prog' = prog
    BY <1>1, <1>2, <1>4
  <1>5. CASE pc = Len(prog) + 1 /\ Legal(tok) /\ prog' = Append(prog, tok)
    <2> DEFINE q == Append(prog, tok)
               m == Len(prog)
    <2>1. /\ m \in Nat /\ pc = m + 1 /\ DOMAIN prog = 1 .. m /\ DOMAIN q = 1 .. m + 1
          /\ q[m + 1] = tok /\ \A j \in 1 .. m : q[j] = prog[j]
      BY <1>1, <1>5
    <2>2. tok.op = "assign" => tok.n \notin BorrowParam /\ Declared(prog, tok.n, m + 1)
      BY <1>5, <2>1, VisibleInScope DEF Legal
    <2>3. tok.op = "decl" => tok.n \in Inner /\ \A j \in 1 .. m : prog[j].op = "decl" => prog[j].n # tok.n
      BY <1>5 DEF Legal
    <2> HIDE DEF q, m
    <2>4. \A n, j : j \in 1 .. m + 1 => (Declared(q, n, j) <=> Declared(prog, n, j))
      BY <2>1, SameNesting
    <2>5. \A j \in 1 .. m + 1 : j = m + 1 \/ j \in 1 .. m
      BY <2>1
    <2>6. Orderly(q)
      <3>1. ASSUME NEW j \in DOMAIN q, NEW k \in DOMAIN q, q[j].op = "decl", q[k].op = "decl", q[j].n = q[k].n
            PROVE  j = k
        <4>1. CASE j \in 1 .. m /\ k \in 1 .. m
          BY <2>1, <3>1, <4>1 DEF Orderly
        <4>2. CASE j = m + 1 /\ k \in 1 .. m
          BY <2>1, <2>3, <3>1, <4>2
        <4>3. CASE k = m + 1 /\ j \in 1 .. m
          BY <2>1, <2>3, <3>1, <4>3
        <4> QED BY <2>1, <2>5, <4>1, <4>2, <4>3
      <3>2. ASSUME NEW j \in DOMAIN q, q[j].op = "decl" PROVE q[j].n \in Inner
        BY <2>1, <2>3, <2>5, <3>2 DEF Orderly
      <3>3. ASSUME NEW j \in DOMAIN q, q[j].op = "assign"
            PROVE  q[j].n \notin BorrowParam /\ Declared(q, q[j].n, j)
        <4>1. CASE j = m + 1
          BY <2>1, <2>2, <2>4, <3>3, <4>1
        <4>2. CASE j \in 1 .. m
          <5>1. q[j] = prog[j] /\ j \in DOMAIN prog /\ j \in 1 .. m + 1
            BY <2>1, <4>2
          <5> QED BY <2>4, <3>3, <5>1 DEF Orderly
        <4> QED BY <2>1, <2>5, <4>1, <4>2
      <3> QED BY <3>1, <3>2, <3>3 DEF Orderly
    <2>7. BorrowInv(q, Frames(stack), pc, own, out, c)
      <3>1. DOMAIN prog \subseteq DOMAIN q /\ pc \in 1 .. m + 1
        BY <2>1
      <3> QED BY <1>2, <2>1, <3>1, TextBorrow
    <2>8. prog' = q /\ pc \in DOMAIN q
      BY <1>5, <2>1 DEF q
    <2> QED BY <1>1, <1>2, <1>3, <2>1, <2>6, <2>7, <2>8
  <1> QED BY <1>4, <1>5 DEF At

\* The states of a value that is the caller's, or was.
Lent == {"Borrowed", "Moved"}

\* A join keeps the caller's value if the first side has it.
LEMMA JoinLent ==
  ASSUME NEW obs, DOMAIN obs \subseteq Nat, NEW k \in DOMAIN obs, \A j \in DOMAIN obs : k <= j,
         obs[k] \in Lent
  PROVE  JoinStates(obs) \in Lent
  <1>1. k \in Tracked(obs) /\ Tracked(obs) \subseteq Nat /\ Tracked(obs) \subseteq DOMAIN obs
    BY DEF Tracked, Lent
  <1>2. Least(Tracked(obs)) \in Tracked(obs) /\ Least(Tracked(obs)) <= k
    BY <1>1, LeastExists
  <1>3. Least(Tracked(obs)) = k
    BY <1>1, <1>2
  <1>4. CASE AnyMoved(obs)
    BY <1>4 DEF JoinStates, Lent
  <1>5. CASE ~AnyMoved(obs)
    <2>1. Tracked(obs) # {}
      BY <1>1
    <2> QED BY <1>3, <1>5, <2>1 DEF JoinStates, FirstTracked
  <1> QED BY <1>4, <1>5

\* A seat of a join is one of a side.
LEMMA SeatSource ==
  ASSUME NEW obs, DOMAIN obs \subseteq Nat, FirstSeat(obs) # NoOwner
  PROVE  \E k \in DOMAIN obs : FirstSeat(obs) = obs[k]
  <1>1. Seated(obs) # {} /\ Seated(obs) \subseteq Nat /\ Seated(obs) \subseteq DOMAIN obs
    BY DEF FirstSeat, Seated
  <1>2. Least(Seated(obs)) \in Seated(obs)
    BY <1>1, LeastExists
  <1> QED BY <1>1, <1>2 DEF FirstSeat

\* The override leaves seats alone, and the caller's value where the first side
\* has it through every name seated there.
LEMMA OverridesLent ==
  ASSUME NEW w \in Lattice, NEW pre \in [Name -> Owner \cup {NoOwner}], NEW sides, Sides(sides),
         NEW h \in Owner, NEW b \in DOMAIN sides, \A j \in DOMAIN sides : b <= j,
         NEW v \in Overrides(w, pre, sides)
  PROVE  /\ v.cur = w.cur
         /\ /\ w.st[h] \in Lent
            /\ \A m \in Name : pre[m] = h =>
                 sides[b].st[IF sides[b].cur[m] = NoOwner THEN pre[m] ELSE sides[b].cur[m]] \in Lent
            => v.st[h] \in Lent
  <1> DEFINE seated == {pre[n] : n \in {m \in Name : pre[m] # NoOwner}}
  <1>1. PICK pick \in [seated -> Name] :
          /\ \A o \in seated : pre[pick[o]] = o
          /\ v = [w EXCEPT !.st = [o \in Owner |-> IF o \in seated
                                     THEN BindingState(pre, sides, pick[o]) ELSE w.st[o]]]
    BY DEF Overrides
  <1>2. /\ v.cur = w.cur
        /\ v.st[h] = IF h \in seated THEN BindingState(pre, sides, pick[h]) ELSE w.st[h]
    BY <1>1 DEF Lattice
  <1>3. ASSUME NEW m \in Name,
               sides[b].st[IF sides[b].cur[m] = NoOwner THEN pre[m] ELSE sides[b].cur[m]] \in Lent
        PROVE  BindingState(pre, sides, m) \in Lent
    <2> DEFINE obs == [k \in DOMAIN sides |->
                         sides[k].st[IF sides[k].cur[m] = NoOwner THEN pre[m] ELSE sides[k].cur[m]]]
    <2>1. BindingState(pre, sides, m) = IF AnyMoved(obs) THEN "Moved" ELSE obs[Least(DOMAIN obs)]
      BY DEF BindingState
    <2>2. obs[b] \in Lent /\ DOMAIN obs = DOMAIN sides
      BY <1>3
    <2> HIDE DEF obs
    <2>3. Least(DOMAIN sides) = b
      <3>1. DOMAIN sides \subseteq Nat
        BY DEF Sides
      <3>2. Least(DOMAIN sides) \in DOMAIN sides /\ Least(DOMAIN sides) <= b /\ b <= Least(DOMAIN sides)
        BY <3>1, LeastExists
      <3> QED BY <3>1, <3>2
    <2> QED BY <2>1, <2>2, <2>3 DEF Lent
  <1>4. h \in seated => pick[h] \in Name /\ pre[pick[h]] = h
    BY <1>1
  <1> HIDE DEF seated
  <1> QED BY <1>2, <1>3, <1>4

\* The loop's join, owner by owner and name by name.
LEMMA LoopJoinParts ==
  ASSUME NEW entry \in Lattice, NEW after \in Lattice, NEW flows \in BOOLEAN
  PROVE  LET merged == MergeLoopPlain(entry, after, flows)
         IN  /\ \A o \in Owner : entry.st[o] \in Lent => merged.st[o] \in Lent
             /\ \A n \in Name : merged.cur[n] = IF entry.cur[n] # NoOwner THEN entry.cur[n]
                                                ELSE after.cur[n]
  <1> DEFINE side   == IF flows THEN after ELSE ForgetMoved(after)
             merged == MergeLoopPlain(entry, after, flows)
  <1>1. side.cur = after.cur
    BY DEF ForgetMoved, Lattice
  <1>2. merged = JoinLattices(<<entry, side>>, <<entry, side>>)
    BY DEF MergeLoopPlain
  <1> HIDE DEF side, merged
  <1>3. ASSUME NEW o \in Owner, entry.st[o] \in Lent PROVE merged.st[o] \in Lent
    <2> DEFINE obs == [k \in DOMAIN <<entry, side>> |-> <<entry, side>>[k].st[o]]
    <2>1. merged.st[o] = JoinStates(obs)
      BY <1>2 DEF JoinLattices
    <2>2. DOMAIN obs = {1, 2} /\ obs[1] = entry.st[o]
      OBVIOUS
    <2> HIDE DEF obs
    <2>3. DOMAIN obs \subseteq Nat /\ 1 \in DOMAIN obs /\ \A j \in DOMAIN obs : 1 <= j
      BY <2>2
    <2> QED BY <1>3, <2>1, <2>2, <2>3, JoinLent
  <1>4. ASSUME NEW n \in Name
        PROVE  merged.cur[n] = IF entry.cur[n] # NoOwner THEN entry.cur[n] ELSE after.cur[n]
    <2> DEFINE obs == [k \in DOMAIN <<entry, side>> |-> <<entry, side>>[k].cur[n]]
    <2>1. merged.cur[n] = FirstSeat(obs)
      BY <1>2 DEF JoinLattices
    <2>2. DOMAIN obs = {1, 2} /\ obs[1] = entry.cur[n] /\ obs[2] = after.cur[n]
      BY <1>1
    <2> HIDE DEF obs
    <2>3. DOMAIN obs \subseteq Nat /\ 1 \in DOMAIN obs /\ 2 \in DOMAIN obs /\ \A j \in DOMAIN obs : 1 <= j
      BY <2>2
    <2>4. CASE entry.cur[n] # NoOwner
      BY <2>1, <2>2, <2>3, <2>4, FirstSeatHolds
    <2>5. CASE entry.cur[n] = NoOwner
      <3>1. CASE after.cur[n] = NoOwner
        <4>1. Seated(obs) = {}
          BY <2>2, <2>5, <3>1 DEF Seated
        <4> QED BY <2>1, <2>5, <3>1, <4>1 DEF FirstSeat
      <3>2. CASE after.cur[n] # NoOwner
        <4>1. Seated(obs) = {2}
          BY <2>2, <2>5, <3>2 DEF Seated
        <4>2. Least({2}) = 2
          <5>1. {2} \subseteq Nat /\ {2} # {}
            OBVIOUS
          <5> QED BY <5>1, LeastExists
        <4> QED BY <2>1, <2>2, <2>5, <4>1, <4>2 DEF FirstSeat
      <3> QED BY <3>1, <3>2
    <2> QED BY <2>4, <2>5
  <1> QED BY <1>3, <1>4 DEF merged

\* A loop's join, seat by seat, and what it does to the caller's value.
LEMMA LoopOverridesLent ==
  ASSUME NEW snap \in Lattice, NEW after \in Lattice, NEW w \in Lattice, NEW flows \in BOOLEAN,
         NEW h \in Owner, NEW v \in LoopOverrides(w, snap, after, flows)
  PROVE  v.cur = w.cur /\ (snap.st[h] \in Lent /\ w.st[h] \in Lent => v.st[h] \in Lent)
  <1>1. CASE ~flows
    BY <1>1 DEF LoopOverrides
  <1>2. CASE flows
    <2> DEFINE sides == <<snap, after>>
    <2>1. v \in Overrides(w, snap.cur, sides) /\ snap.cur \in [Name -> Owner \cup {NoOwner}]
      BY <1>2 DEF LoopOverrides, Lattice
    <2>2. Sides(sides) /\ DOMAIN sides = {1, 2} /\ sides[1] = snap
      BY PairSides
    <2> HIDE DEF sides
    <2>3. 1 \in DOMAIN sides /\ \A j \in DOMAIN sides : 1 <= j
      BY <2>2
    <2>4. \A m \in Name : (IF sides[1].cur[m] = NoOwner THEN snap.cur[m] ELSE sides[1].cur[m]) = snap.cur[m]
      BY <2>2
    <2> QED BY <2>1, <2>2, <2>3, <2>4, OverridesLent
  <1> QED BY <1>1, <1>2

\* merge_branches, name by name, and what it does to the caller's value: the
\* arms must have it through every name the snapshot seats there.
LEMMA MergeBranchesLent ==
  ASSUME NEW snap \in Lattice, NEW arms \in Seq(ArmEnd), NEW h \in Owner,
         NEW v \in MergeBranches(snap, arms)
  PROVE  /\ \A n \in Name : snap.cur[n] # NoOwner => v.cur[n] = snap.cur[n]
         /\ \A n \in Name : v.cur[n] # NoOwner =>
              v.cur[n] = snap.cur[n] \/ \E k \in DOMAIN arms : v.cur[n] = arms[k].own.cur[n]
         /\ /\ snap.st[h] \in Lent
            /\ \A k \in DOMAIN arms : arms[k].own.st[h] \in Lent
            /\ \A k \in DOMAIN arms : \A m \in Name : snap.cur[m] = h => arms[k].own.cur[m] = h
            => v.st[h] \in Lent
  <1> DEFINE sides == Ends(arms, Falling(arms))
             ends  == Ends(arms, DOMAIN arms)
             plain == JoinLattices(From(snap, sides), From(snap, ends))
  <1>1. DOMAIN arms \subseteq Nat /\ \A k \in DOMAIN arms : arms[k].own \in Lattice
    <2>1. DOMAIN arms = 1 .. Len(arms) /\ Len(arms) \in Nat /\ \A k \in DOMAIN arms : arms[k] \in ArmEnd
      OBVIOUS
    <2>2. \A a \in ArmEnd : a.own \in Lattice
      BY DEF ArmEnd
    <2> QED BY <2>1, <2>2
  <1>2. /\ Sides(sides) /\ Sides(ends) /\ DOMAIN sides = Falling(arms) /\ Falling(arms) \subseteq DOMAIN arms
        /\ DOMAIN ends = DOMAIN arms
        /\ \A k \in DOMAIN sides : sides[k] = arms[k].own
        /\ \A k \in DOMAIN ends : ends[k] = arms[k].own
    BY <1>1 DEF Sides, Ends, Falling
  <1>3. \A f : Sides(f) => /\ Sides(From(snap, f)) /\ DOMAIN From(snap, f) = {0} \cup DOMAIN f
                           /\ From(snap, f)[0] = snap
                           /\ \A k \in DOMAIN f : From(snap, f)[k] = IF k = 0 THEN snap ELSE f[k]
    BY DEF Sides, From
  <1>4. plain \in Lattice /\ snap.cur \in [Name -> Owner \cup {NoOwner}]
    BY <1>2, <1>3, JoinLatticesType DEF Lattice
  <1>5. ASSUME NEW n \in Name
        PROVE  /\ snap.cur[n] # NoOwner => plain.cur[n] = snap.cur[n]
               /\ plain.cur[n] # NoOwner =>
                    plain.cur[n] = snap.cur[n] \/ \E k \in DOMAIN arms : plain.cur[n] = arms[k].own.cur[n]
    <2> DEFINE G == From(snap, ends)
               cur == [k \in DOMAIN G |-> G[k].cur[n]]
    <2>1. plain.cur[n] = FirstSeat(cur)
      BY DEF JoinLattices
    <2>2. DOMAIN G \subseteq Nat /\ 0 \in DOMAIN G /\ G[0] = snap /\ DOMAIN G = {0} \cup DOMAIN arms
          /\ \A k \in DOMAIN arms : k # 0 => G[k] = arms[k].own
      BY <1>2, <1>3 DEF Sides
    <2> HIDE DEF G, plain
    <2>3. /\ DOMAIN cur \subseteq Nat /\ 0 \in DOMAIN cur /\ cur[0] = snap.cur[n]
          /\ \A k \in DOMAIN cur : cur[k] = snap.cur[n] \/ (k \in DOMAIN arms /\ cur[k] = arms[k].own.cur[n])
      BY <2>2
    <2> HIDE DEF cur
    <2>4. \A j \in DOMAIN cur : 0 <= j
      BY <2>3
    <2> QED BY <2>1, <2>3, <2>4, FirstSeatHolds, SeatSource
  <1>6. snap.st[h] \in Lent => plain.st[h] \in Lent
    <2> DEFINE F == From(snap, sides)
               st == [k \in DOMAIN F |-> F[k].st[h]]
    <2>1. plain.st[h] = JoinStates(st)
      BY DEF JoinLattices
    <2>2. DOMAIN st \subseteq Nat /\ 0 \in DOMAIN st /\ st[0] = snap.st[h]
      BY <1>2, <1>3 DEF Sides
    <2> HIDE DEF F, st, plain
    <2>3. \A j \in DOMAIN st : 0 <= j
      BY <2>2
    <2> QED BY <2>1, <2>2, <2>3, JoinLent
  <1>7. MergeBranches(snap, arms) = IF Falling(arms) = {} THEN {plain} ELSE Overrides(plain, snap.cur, sides)
    BY DEF MergeBranches
  <1> HIDE DEF plain, sides, ends
  <1>8. CASE Falling(arms) = {}
    BY <1>5, <1>6, <1>7, <1>8
  <1>9. CASE Falling(arms) # {}
    <2>1. v \in Overrides(plain, snap.cur, sides)
      BY <1>7, <1>9
    <2>2. PICK b \in DOMAIN sides : \A j \in DOMAIN sides : b <= j
      <3>1. DOMAIN sides \subseteq Nat /\ DOMAIN sides # {}
        BY <1>2, <1>9 DEF Sides
      <3> QED BY <3>1, LeastExists
    <2>3. v.cur = plain.cur
      BY <1>2, <1>4, <2>1, <2>2, OverridesLent
    <2>4. ASSUME snap.st[h] \in Lent, \A k \in DOMAIN arms : arms[k].own.st[h] \in Lent,
                 \A k \in DOMAIN arms : \A m \in Name : snap.cur[m] = h => arms[k].own.cur[m] = h
          PROVE  v.st[h] \in Lent
      <3>1. b \in DOMAIN arms /\ sides[b] = arms[b].own
        BY <1>2
      <3>2. \A m \in Name : snap.cur[m] = h =>
              (IF sides[b].cur[m] = NoOwner THEN snap.cur[m] ELSE sides[b].cur[m]) = h
        BY <2>4, <3>1
      <3>3. \A m \in Name : snap.cur[m] = h =>
              sides[b].st[IF sides[b].cur[m] = NoOwner THEN snap.cur[m] ELSE sides[b].cur[m]] \in Lent
        BY <2>4, <3>1, <3>2
      <3> QED BY <1>2, <1>4, <1>6, <2>1, <2>2, <2>4, <3>3, OverridesLent
    <2> QED BY <1>5, <2>3, <2>4
  <1> QED BY <1>8, <1>9

\* A parameter is no local, and its home no other name's.
LEMMA ParamHome ==
  ASSUME NEW c \in BorrowParam
  PROVE  /\ c \in Name /\ c \notin Inner /\ Home(c) \in Owner /\ Home(c) # NoOwner
         /\ \A n : Home(n) = Home(c) => n = c
         /\ \A n, i : i \in Nat => Temp(n, i) # Home(c)
  <1>1. c \in Name /\ c \notin Inner
    BY NamesAssumption DEF Name, Param
  <1>2. Home(c) \in Owner
    BY <1>1, PlaceType
  <1>3. \A i \in Nat : i # -1
    OBVIOUS
  <1> QED BY <1>1, <1>2, <1>3, NamesAssumption DEF Home, Temp

\* Consuming the caller's value is reported; consuming another leaves it alone.
LEMMA UseOfParam ==
  ASSUME NEW w \in Lattice, NEW c \in BorrowParam, w.cur[c] = Home(c), w.st[Home(c)] \in Lent
  PROVE  /\ Consumable(w, Home(c)) # "Valid" /\ Underlying(w, c) = Home(c)
         /\ \A i, code : ConsumeDiags(w, c, i, code) # {}
         /\ \A n \in Name : Consume(w, n).cur = w.cur /\ Consume(w, n).st[Home(c)] = w.st[Home(c)]
  <1>1. Underlying(w, c) = Home(c)
    BY ParamHome DEF Underlying
  <1>2. Consumable(w, Home(c)) \in Lent
    BY DEF Consumable, Lent
  <1>3. \A i, code : ConsumeDiags(w, c, i, code) # {}
    BY <1>1, <1>2 DEF ConsumeDiags, Lent
  <1>4. ASSUME NEW n \in Name PROVE Consume(w, n).cur = w.cur /\ Consume(w, n).st[Home(c)] = w.st[Home(c)]
    <2> DEFINE o == Underlying(w, n)
    <2>1. o \in Owner
      BY UseType
    <2>2. Consumable(w, o) = "Valid" => o # Home(c)
      BY <1>2 DEF Lent
    <2>3. Consume(w, n) = IF Consumable(w, o) = "Valid" THEN [w EXCEPT !.st[o] = "Moved"] ELSE w
      BY DEF Consume
    <2> HIDE DEF o
    <2>4. [w EXCEPT !.st[o] = "Moved"].cur = w.cur
          /\ (o # Home(c) => [w EXCEPT !.st[o] = "Moved"].st[Home(c)] = w.st[Home(c)])
      BY <2>1, ParamHome DEF Lattice
    <2> QED BY <2>2, <2>3, <2>4
  <1> QED BY <1>1, <1>2, <1>3, <1>4 DEF Lent

\* The parameter's part of what the walk has.
Guarded(c) == Orderly(prog) /\ BorrowInv(prog, Frames(stack), pc, own, out, c)

\* A step that stays in the constructs and takes nothing from the parameter.
LEMMA PlainGuarded ==
  ASSUME TypeOK, Walking, NEW c, Guarded(c), NEW tok \in Text, At(tok),
         pc' = pc + 1, Alike(stack, stack'), SeatsOf(prog', own', c), Kept(prog', pc + 1, own, own'),
         out.diags \subseteq out'.diags,
         out'.diags = {} /\ Intact(prog', pc, own, c) =>
           ~Takes(prog', pc, c) /\ Intact(prog', pc + 1, own', c)
  PROVE  Guarded(c)'
  <1>1. /\ Orderly(prog') /\ pc \in Nat \ {0} /\ BorrowInv(prog', Frames(stack), pc, own, out, c)
        /\ \A f \in Frames(stack) : f.at \in 1 .. pc - 1
    BY AtBorrow DEF Guarded
  <1>2. BorrowInv(prog', Frames(stack), pc + 1, own', out', c)
    BY <1>1, PlainBorrow
  <1>3. BorrowInv(prog', Frames(stack'), pc + 1, own', out', c)
    BY <1>2, AlikeBorrow
  <1> QED BY <1>1, <1>3 DEF Guarded

\* Seats that stay are the text's, and are kept.
LEMMA SameSeats ==
  ASSUME NEW p, NEW i, NEW v, NEW w, w.cur = v.cur, NEW c, SeatsOf(p, v, c)
  PROVE  SeatsOf(p, w, c) /\ \A j : Kept(p, j, v, w)
  BY DEF SeatsOf, Kept

\* The caller's value that stays what it is stays intact where nothing is declared.
LEMMA SameIntact ==
  ASSUME NEW p, NEW i \in Nat \ {0}, p[i].op # "decl", NEW v, NEW w, w.cur = v.cur, NEW c,
         v.st[Home(c)] \in Lent => w.st[Home(c)] \in Lent, Intact(p, i, v, c)
  PROVE  Intact(p, i + 1, w, c)
  <1>1. Intact(p, i, w, c)
    BY DEF Intact, Lent
  <1> QED BY <1>1, IntactStep

\* A value is consumed and seated: a local declared here, or in scope here.
LEMMA BindGuarded ==
  ASSUME TypeOK, Walking, NEW c \in BorrowParam, Guarded(c), NEW tok \in Text,
         tok.op \in {"decl", "assign"}, At(tok), NEW displaced, Bind(tok, displaced)
  PROVE  Guarded(c)'
  <1>1. pc \in 1 .. MaxLen
    BY AtType, NamesAssumption DEF Siblings, Closers, TypeOK
  <1>2. tok.n \in Name /\ (tok.src # Fresh => tok.src \in Name)
    BY TokenType DEF Source
  <1>3. /\ prog' \in Seq(Token) /\ Orderly(prog') /\ prog'[pc] = tok /\ pc \in DOMAIN prog'
        /\ pc \in Nat \ {0} /\ BorrowInv(prog', Frames(stack), pc, own, out, c)
    BY AtBorrow DEF Guarded
  <1>4. /\ c \in Name /\ c \notin Inner /\ Home(c) \in Owner /\ Home(c) # NoOwner
        /\ \A n : Home(n) = Home(c) => n = c
        /\ \A n, i : i \in Nat => Temp(n, i) # Home(c)
    BY ParamHome
  <1>5. own \in Lattice /\ SeatsOf(prog', own, c)
    BY <1>3 DEF TypeOK, BorrowInv, SeatInv
  <1>6. tok.n # c /\ (tok.n \in Inner => Born(prog', tok.n, pc + 1))
    <2>1. pc \in 1 .. pc + 1 - 1 /\ 1 .. pc - 1 \subseteq 1 .. pc + 1 - 1
      BY <1>3
    <2>2. CASE tok.op = "decl"
      <3>1. tok.n \in Inner
        BY <1>3, <2>2 DEF Orderly
      <3> QED BY <1>3, <1>4, <2>1, <2>2, <3>1 DEF Born
    <2>3. CASE tok.op = "assign"
      <3>1. tok.n \notin BorrowParam /\ Declared(prog', tok.n, pc)
        BY <1>3, <2>3 DEF Orderly
      <3> QED BY <2>1, <3>1 DEF Declared, Born
    <2> QED BY <2>2, <2>3
  <1> DEFINE w     == IF tok.src = Fresh THEN own ELSE Consume(own, tok.src)
             place == IF tok.src = Fresh THEN Temp(tok.n, pc) ELSE Home(tok.src)
             diags == IF tok.src = Fresh THEN {}
                      ELSE ConsumeDiags(own, tok.src, pc, "MoveOutOfBorrowedParam")
  <1>7. /\ own' = Rebind(w, tok.n, place) /\ pc' = pc + 1 /\ stack' = stack
        /\ out'.diags = out.diags \cup diags
    BY DEF Bind, TypeOK, Output
  <1>8. w \in Lattice /\ place \in Owner /\ w.cur = own.cur
    <2>1. pc \in 0 .. MaxLen
      BY <1>1, NamesAssumption
    <2>2. \A n \in Name : Consume(own, n).cur = own.cur
      BY <1>5 DEF Consume, Lattice
    <2> QED BY <1>2, <1>5, <2>1, <2>2, UseType, PlaceType
  <1>9. place = Home(c) => tok.src = c
    BY <1>3, <1>4
  <1>10. own.st[Home(c)] \in Lent => /\ w.st[Home(c)] = own.st[Home(c)]
                                     /\ tok.src = c => diags # {}
    <2>1. tok.src = c => tok.src # Fresh
      BY <1>4, NamesAssumption
    <2>2. own.cur[c] = Home(c)
      BY <1>5 DEF SeatsOf
    <2> QED BY <1>2, <1>5, <2>1, <2>2, UseOfParam
  <1> HIDE DEF w, place, diags
  <1>11. /\ own'.cur[tok.n] = place /\ \A m \in Name \ {tok.n} : own'.cur[m] = own.cur[m]
         /\ \A o \in Owner : o # place => own'.st[o] = w.st[o]
    BY <1>2, <1>7, <1>8 DEF Rebind, Lattice
  <1>12. SeatsOf(prog', own', c)
    <2>1. own'.cur[c] = Home(c)
      BY <1>4, <1>5, <1>6, <1>11 DEF SeatsOf
    <2>2. ASSUME NEW m \in Name \ {c}, own'.cur[m] = Home(c)
          PROVE  \E q \in DOMAIN prog' : prog'[q].op \in {"decl", "assign"} /\ prog'[q].n = m /\ prog'[q].src = c
      <3>1. CASE m = tok.n
        BY <1>3, <1>9, <1>11, <2>2, <3>1
      <3>2. CASE m # tok.n
        BY <1>5, <1>11, <2>2, <3>2 DEF SeatsOf
      <3> QED BY <3>1, <3>2
    <2> QED BY <2>1, <2>2 DEF SeatsOf
  <1>13. Kept(prog', pc + 1, own, own')
    <2> SUFFICES ASSUME NEW m \in Inner, ~Born(prog', m, pc + 1) PROVE own'.cur[m] = own.cur[m]
      BY DEF Kept
    <2>1. m # tok.n /\ m \in Name
      BY <1>6 DEF Name
    <2> QED BY <1>11, <2>1
  <1>14. ASSUME out'.diags = {}, Intact(prog', pc, own, c)
         PROVE  ~Takes(prog', pc, c) /\ Intact(prog', pc + 1, own', c)
    <2>1. own.st[Home(c)] \in Lent
      BY <1>14 DEF Intact, Lent
    <2>2. tok.src # c /\ place # Home(c)
      BY <1>7, <1>9, <1>10, <1>14, <2>1
    <2>3. ~Takes(prog', pc, c)
      BY <1>3, <2>2 DEF Takes
    <2>4. own'.st[Home(c)] \in Lent
      BY <1>4, <1>10, <1>11, <2>1, <2>2
    <2>5. ASSUME NEW m \in Name \ {c}, own'.cur[m] = Home(c) PROVE m \in Inner /\ ~Born(prog', m, pc + 1)
      <3>1. m # tok.n
        BY <1>11, <2>2, <2>5
      <3>2. own.cur[m] = Home(c)
        BY <1>11, <2>5, <3>1
      <3>3. m \in Inner /\ ~Born(prog', m, pc)
        BY <1>14, <3>2 DEF Intact
      <3> QED BY <1>3, <3>1, <3>3, BornStep
    <2> QED BY <2>3, <2>4, <2>5 DEF Intact, Lent
  <1>15. out.diags \subseteq out'.diags
    BY <1>7
  <1>16. Alike(stack, stack')
    BY <1>7, AlikeSelf
  <1> QED BY <1>7, <1>12, <1>13, <1>14, <1>15, <1>16, PlainGuarded

\* A self-assignment stores to a name in scope what it has: not the parameter's value.
LEMMA SelfAssignGuarded ==
  ASSUME TypeOK, Walking, NEW c \in BorrowParam, Guarded(c), NEW tok \in Text, WalkSelfAssign(tok)
  PROVE  Guarded(c)'
  <1>1. /\ At(tok) /\ tok.op = "assign" /\ SelfAssign(tok) /\ pc' = pc + 1
        /\ own' = own /\ out' = out /\ stack' = stack
    BY DEF WalkSelfAssign
  <1>2. /\ Orderly(prog') /\ prog'[pc] = tok /\ pc \in DOMAIN prog'
        /\ pc \in Nat \ {0} /\ BorrowInv(prog', Frames(stack), pc, own, out, c)
    BY <1>1, AtBorrow DEF Guarded
  <1>3. SeatsOf(prog', own, c) /\ own.cur[c] = Home(c)
    BY <1>2 DEF BorrowInv, SeatInv, SeatsOf
  <1>4. SeatsOf(prog', own', c) /\ Kept(prog', pc + 1, own, own')
    BY <1>1, <1>3, SameSeats
  <1>5. ASSUME Intact(prog', pc, own, c)
        PROVE  ~Takes(prog', pc, c) /\ Intact(prog', pc + 1, own', c)
    <2>1. tok.src # c
      <3> SUFFICES ASSUME tok.src = c PROVE FALSE
        OBVIOUS
      <3>1. own.cur[tok.n] = Home(c)
        BY <1>1, <1>3, ParamHome DEF SelfAssign, Underlying
      <3>2. tok.n \notin BorrowParam /\ Declared(prog', tok.n, pc)
        BY <1>1, <1>2 DEF Orderly
      <3>3. tok.n \in Name \ {c}
        BY <1>1, <3>2, TokenType
      <3>4. tok.n \in Inner /\ ~Born(prog', tok.n, pc)
        BY <1>5, <3>1, <3>3 DEF Intact
      <3> QED BY <3>2, <3>4 DEF Declared, Born
    <2>2. ~Takes(prog', pc, c) /\ prog'[pc].op # "decl"
      BY <1>1, <1>2, <2>1 DEF Takes
    <2> QED BY <1>1, <1>2, <1>5, <2>2, IntactStep
  <1>6. Alike(stack, stack')
    BY <1>1, AlikeSelf
  <1> QED BY <1>1, <1>4, <1>5, <1>6, PlainGuarded

\* A call that moves the parameter is reported.
LEMMA CallGuarded ==
  ASSUME TypeOK, Walking, NEW c \in BorrowParam, Guarded(c), NEW tok \in Text, WalkCall(tok)
  PROVE  Guarded(c)'
  <1> DEFINE moved == {o \in OwnersOf(tok, "Move") : Consumable(own, o) = "Valid"}
  <1>1. /\ At(tok) /\ tok.op = "call" /\ pc' = pc + 1 /\ stack' = stack
        /\ own' = [own EXCEPT !.st = [o \in Owner |-> IF o \in moved THEN "Moved" ELSE own.st[o]]]
    BY DEF WalkCall
  <1>2. out'.diags = out.diags \cup UseDiags(tok) \cup AliasDiags(tok) \cup MoveDiags(tok)
    BY DEF WalkCall, TypeOK, Output
  <1>3. /\ prog'[pc] = tok /\ pc \in Nat \ {0} /\ BorrowInv(prog', Frames(stack), pc, own, out, c)
    BY <1>1, AtBorrow DEF Guarded
  <1>4. own \in Lattice /\ SeatsOf(prog', own, c) /\ own.cur[c] = Home(c)
    BY <1>3 DEF TypeOK, BorrowInv, SeatInv, SeatsOf
  <1> HIDE DEF moved
  <1>5. own'.cur = own.cur /\ (own.st[Home(c)] \in Lent => own'.st[Home(c)] \in Lent)
    BY <1>1, <1>4, ParamHome DEF Lattice, Lent
  <1>6. ASSUME own.st[Home(c)] \in Lent, NEW k \in DOMAIN tok.args,
               tok.args[k].mode = "Move", tok.args[k].n = c
        PROVE  MoveDiags(tok) # {}
    <2>1. Consumable(own, Underlying(own, c)) # "Valid" /\ ConsumeDiags(own, c, pc, "MoveOutOfBorrowedParam") # {}
      BY <1>4, <1>6, UseOfParam
    <2> DEFINE again(n, h) == \E j \in 1 .. h - 1 :
                                /\ tok.args[j].mode = "Move"
                                /\ Underlying(own, tok.args[j].n) = Underlying(own, n)
               D(h) == IF again(tok.args[h].n, h) /\ Consumable(own, Underlying(own, tok.args[h].n)) = "Valid"
                       THEN {<<pc, "UseAfterMove">>}
                       ELSE ConsumeDiags(own, tok.args[h].n, pc, "MoveOutOfBorrowedParam")
    <2>2. MoveDiags(tok) = UNION {D(h) : h \in {j \in DOMAIN tok.args : tok.args[j].mode = "Move"}}
      BY DEF MoveDiags
    <2>3. D(k) # {}
      BY <1>6, <2>1
    <2> HIDE DEF D
    <2> QED BY <1>6, <2>2, <2>3
  <1>7. ASSUME out'.diags = {}, Intact(prog', pc, own, c)
        PROVE  ~Takes(prog', pc, c) /\ Intact(prog', pc + 1, own', c)
    <2>1. own.st[Home(c)] \in Lent
      BY <1>7 DEF Intact, Lent
    <2>2. ~Takes(prog', pc, c) /\ prog'[pc].op # "decl"
      BY <1>1, <1>2, <1>3, <1>6, <1>7, <2>1 DEF Takes
    <2> QED BY <1>3, <1>5, <1>7, <2>2, SameIntact
  <1>8. SeatsOf(prog', own', c) /\ Kept(prog', pc + 1, own, own')
    BY <1>4, <1>5, SameSeats
  <1>9. Alike(stack, stack') /\ out.diags \subseteq out'.diags
    BY <1>1, <1>2, AlikeSelf
  <1> QED BY <1>1, <1>7, <1>8, <1>9, PlainGuarded

\* A return of the parameter is reported.
LEMMA ReturnGuarded ==
  ASSUME TypeOK, Walking, NEW c \in BorrowParam, Guarded(c), NEW tok \in Text, WalkReturn(tok)
  PROVE  Guarded(c)'
  <1>1. At(tok) /\ tok.op = "return" /\ pc' = pc + 1 /\ stack' = stack
    BY DEF WalkReturn
  <1>2. /\ prog'[pc] = tok /\ pc \in Nat \ {0} /\ BorrowInv(prog', Frames(stack), pc, own, out, c)
    BY <1>1, AtBorrow DEF Guarded
  <1>3. own \in Lattice /\ SeatsOf(prog', own, c) /\ own.cur[c] = Home(c)
    BY <1>2 DEF TypeOK, BorrowInv, SeatInv, SeatsOf
  <1> DEFINE diags == ConsumeDiags(own, tok.src, pc, "ReturnBorrowedValue")
  <1>4. /\ tok.src = Fresh => own' = own /\ out'.diags = out.diags
        /\ tok.src # Fresh => /\ own' = Consume(own, tok.src) /\ tok.src \in Name
                              /\ out'.diags = out.diags \cup diags
    BY <1>1, TokenType DEF WalkReturn, TypeOK, Output, Source
  <1>5. c # Fresh /\ own'.cur = own.cur
    <2>1. \A n \in Name : Consume(own, n).cur = own.cur
      BY <1>3 DEF Consume, Lattice
    <2> QED BY <1>4, <2>1, ParamHome, NamesAssumption
  <1>6. ASSUME out'.diags = {}, Intact(prog', pc, own, c)
        PROVE  ~Takes(prog', pc, c) /\ Intact(prog', pc + 1, own', c)
    <2>1. own.st[Home(c)] \in Lent
      BY <1>6 DEF Intact, Lent
    <2>2. tok.src # c /\ own'.st[Home(c)] = own.st[Home(c)]
      BY <1>3, <1>4, <1>5, <1>6, <2>1, UseOfParam
    <2>3. ~Takes(prog', pc, c) /\ prog'[pc].op # "decl"
      BY <1>1, <1>2, <2>2 DEF Takes
    <2> QED BY <1>2, <1>5, <1>6, <2>1, <2>2, <2>3, SameIntact
  <1>7. out.diags \subseteq out'.diags /\ Alike(stack, stack')
    BY <1>1, <1>4, AlikeSelf
  <1>8. SeatsOf(prog', own', c) /\ Kept(prog', pc + 1, own, own')
    BY <1>3, <1>5, SameSeats
  <1> QED BY <1>1, <1>6, <1>7, <1>8, PlainGuarded

\* A jump marks loops and changes nothing else.
LEMMA JumpGuarded ==
  ASSUME TypeOK, Walking, NEW c \in BorrowParam, Guarded(c), NEW tok \in Text, WalkJump(tok)
  PROVE  Guarded(c)'
  <1>1. /\ At(tok) /\ tok.op \in {"break", "continue"} /\ pc' = pc + 1
        /\ stack' = Flowing(stack) /\ own' = own /\ out' = out
    BY DEF WalkJump
  <1>2. /\ prog'[pc] = tok /\ pc \in Nat \ {0} /\ BorrowInv(prog', Frames(stack), pc, own, out, c)
    BY <1>1, AtBorrow DEF Guarded
  <1>3. SeatsOf(prog', own', c) /\ Kept(prog', pc + 1, own, own')
    BY <1>1, <1>2, SameSeats DEF BorrowInv, SeatInv
  <1>4. Intact(prog', pc, own, c) => ~Takes(prog', pc, c) /\ Intact(prog', pc + 1, own', c)
    BY <1>1, <1>2, IntactStep DEF Takes
  <1>5. Alike(stack, stack')
    BY <1>1, FlowingAlike DEF TypeOK
  <1> QED BY <1>1, <1>3, <1>4, <1>5, PlainGuarded

\* A construct opens.
LEMMA OpenGuarded ==
  ASSUME TypeOK, Walking, NEW c \in BorrowParam, Guarded(c), NEW tok \in Text,
         WalkIf(tok) \/ WalkWhile(tok)
  PROVE  Guarded(c)'
  <1> DEFINE f == Opened(tok.op)
  <1>1. /\ At(tok) /\ tok.op \in {"if", "while"} /\ stack' = <<f>> \o stack
        /\ pc' = pc + 1 /\ own' = own /\ (tok.op = "if" => out' = out)
    BY DEF WalkIf, WalkWhile
  <1>2. /\ f.kind = tok.op /\ f.at = pc /\ f.snap = own /\ f.entry = own
        /\ f.arms = <<>> /\ f.phase = "propagate" /\ f.saved = out
    BY DEF Opened
  <1>3. /\ Orderly(prog') /\ prog'[pc] = tok /\ pc \in Nat \ {0}
        /\ BorrowInv(prog', Frames(stack), pc, own, out, c)
        /\ \A k \in Frames(stack) : k.at \in 1 .. pc - 1
    BY <1>1, AtBorrow DEF Guarded
  <1> HIDE DEF f
  <1>4. BorrowInv(prog', Frames(stack) \cup {f}, pc + 1, own, out', c)
    BY <1>1, <1>2, <1>3, PushBorrow
  <1>5. Frames(stack') = Frames(stack) \cup {f}
    BY <1>1, PushFrame DEF TypeOK
  <1> QED BY <1>1, <1>3, <1>4, <1>5 DEF Guarded

\* An arm ends and the next one starts: the seats it leaves are the text's.
LEMMA NextArmGuarded ==
  ASSUME TypeOK, Walking, NEW c \in BorrowParam, Guarded(c), NEW tok \in Text, WalkNextArm(tok)
  PROVE  Guarded(c)'
  <1> DEFINE f == Head(stack)
             arms == Append(f.arms, ThisArm)
             g == [f EXCEPT !.arms = arms, !.hasElse = tok.op = "else"]
  <1>1. /\ At(tok) /\ tok.op \in Siblings /\ stack # <<>> /\ f.kind = "if" /\ pc' = pc + 1
        /\ stack' = <<g>> \o Tail(stack) /\ own' = f.snap /\ out' = out
    BY DEF WalkNextArm, Innermost
  <1>2. /\ prog' \in Seq(Token) /\ Orderly(prog') /\ prog'[pc] = tok /\ pc \in Nat \ {0}
        /\ BorrowInv(prog', Frames(stack), pc, own, out, c)
    BY <1>1, AtBorrow DEF Guarded
  <1>3. NestedIn(prog', stack, pc)
    BY <1>1, AtText DEF Walking, WalkInv
  <1>4. f \in Frame /\ f = stack[1] /\ stack \in Seq(Frame) /\ pc \in Nat
    BY <1>1, ReplacedTop DEF TypeOK
  <1>5. g.kind = "if" /\ g.at = f.at /\ g.snap = f.snap /\ g.entry = f.entry /\ g.arms = arms
    BY <1>1, <1>4 DEF Frame
  <1>6. \A a \in DOMAIN arms : arms[a].own = own \/ \E b \in DOMAIN f.arms : arms[a].own = f.arms[b].own
    <2> TAKE a \in DOMAIN arms
    <2>1. f.arms \in Seq(ArmEnd)
      BY <1>4 DEF Frame
    <2>2. (a \in DOMAIN f.arms /\ arms[a] = f.arms[a]) \/ arms[a] = ThisArm
      BY <2>1
    <2>3. ThisArm.own = own
      BY DEF ThisArm
    <2> QED BY <2>2, <2>3
  <1>7. prog'[pc].op \in Siblings /\ prog'[pc].op \in Closers \cup Siblings
    BY <1>1, <1>2
  <1> HIDE DEF g, arms, f
  <1>8. \A n : Declared(prog', n, pc + 1) => Declared(prog', n, f.at)
    BY <1>1, <1>2, <1>3, <1>4, <1>7, BlockScope
  <1>9. /\ Innermost1(Frames(stack), f) /\ f.at \in 1 .. pc - 1
        /\ Frames(<<g>> \o Tail(stack)) = (Frames(stack) \ {f}) \cup {g}
    BY <1>1, <1>3, <1>4, TopFrame
  <1>10. BorrowInv(prog', (Frames(stack) \ {f}) \cup {g}, pc + 1, f.snap, out, c)
    <2>1. \A a \in DOMAIN g.arms :
            g.arms[a].own = own \/ \E b \in DOMAIN f.arms : g.arms[a].own = f.arms[b].own
      BY <1>5, <1>6
    <2>2. f.kind = "if"
      BY <1>1
    <2> QED BY <1>2, <1>5, <1>7, <1>8, <1>9, <2>1, <2>2, ArmBorrow
  <1> QED BY <1>1, <1>2, <1>9, <1>10 DEF Guarded

\* Where an if ends, its seats are the snapshot's or an arm's, and every arm has
\* the caller's value where the snapshot seats it.
LEMMA EndIfGuarded ==
  ASSUME TypeOK, Walking, NEW c \in BorrowParam, Guarded(c), NEW tok \in Text, WalkEndIf(tok)
  PROVE  Guarded(c)'
  <1> DEFINE f      == Head(stack)
             walked == Append(f.arms, ThisArm)
             absent == [own |-> f.snap, falls |-> TRUE, last |-> 0]
             arms   == IF f.hasElse THEN walked ELSE Append(walked, absent)
  <1>1. /\ At(tok) /\ tok.op = "endif" /\ stack # <<>> /\ f.kind = "if" /\ pc' = pc + 1
        /\ stack' = Tail(stack) /\ own' \in MergeBranches(f.snap, arms)
    BY DEF WalkEndIf, Innermost
  <1>2. /\ prog' \in Seq(Token) /\ Orderly(prog') /\ prog'[pc] = tok /\ pc \in Nat \ {0}
        /\ BorrowInv(prog', Frames(stack), pc, own, out, c)
    BY <1>1, AtBorrow DEF Guarded
  <1>3. NestedIn(prog', stack, pc)
    BY <1>1, AtText DEF Walking, WalkInv
  <1>4. f \in Frame /\ f = stack[1] /\ stack \in Seq(Frame) /\ pc \in Nat /\ own \in Lattice
    BY <1>1, ReplacedTop DEF TypeOK
  <1>5. f.snap \in Lattice /\ f.arms \in Seq(ArmEnd)
    BY <1>4 DEF Frame
  <1>6. walked \in Seq(ArmEnd) /\ arms \in Seq(ArmEnd)
    BY <1>1, MergedArmsType
  <1>7. ASSUME NEW a \in DOMAIN arms
        PROVE  \/ arms[a].own = own \/ arms[a].own = f.snap
               \/ \E b \in DOMAIN f.arms : arms[a].own = f.arms[b].own
    <2>1. \A k \in DOMAIN walked : (k \in DOMAIN f.arms /\ walked[k] = f.arms[k]) \/ walked[k] = ThisArm
      BY <1>5
    <2>2. ThisArm.own = own /\ absent.own = f.snap
      BY DEF ThisArm
    <2>3. (a \in DOMAIN walked /\ arms[a] = walked[a]) \/ arms[a] = absent
      <3> HIDE DEF walked, absent
      <3> QED BY <1>6
    <2> HIDE DEF walked, absent, arms
    <2> QED BY <2>1, <2>2, <2>3
  <1>8. out'.diags = out.diags
    BY DEF WalkEndIf, TypeOK, Output
  <1>9. prog'[pc].op \in Closers /\ prog'[pc].op \in Closers \cup Siblings /\ prog'[pc].op # "decl"
    BY <1>1, <1>2 DEF Closers
  <1> HIDE DEF f, walked, absent, arms
  <1>10. \A n : Declared(prog', n, pc + 1) => Declared(prog', n, f.at)
    BY <1>1, <1>2, <1>3, <1>4, <1>9, BlockScope
  <1>11. /\ Innermost1(Frames(stack), f) /\ f.at \in 1 .. pc - 1
         /\ Frames(Tail(stack)) = Frames(stack) \ {f}
    BY <1>1, <1>3, <1>4, TopFrame
  <1>12. f.at \in Nat /\ f.at <= pc /\ pc + 1 \in Nat /\ pc <= pc + 1
    BY <1>2, <1>11
  <1>13. f \in Frames(stack) /\ FrameSeats(prog', f, c) /\ FrameKept(prog', f, pc, own) /\ SeatsOf(prog', own, c)
    BY <1>2, <1>11 DEF Innermost1, BorrowInv, SeatInv
  <1>14. /\ c \in Name /\ Home(c) \in Owner /\ Home(c) # NoOwner
    BY ParamHome
  <1>15. ASSUME NEW a \in DOMAIN arms PROVE SeatsOf(prog', arms[a].own, c)
    <2>1. \A v : \A w : v = w /\ SeatsOf(prog', w, c) => SeatsOf(prog', v, c)
      OBVIOUS
    <2> QED BY <1>1, <1>7, <1>13, <2>1 DEF FrameSeats
  <1>16. /\ \A n \in Name : f.snap.cur[n] # NoOwner => own'.cur[n] = f.snap.cur[n]
         /\ \A n \in Name : own'.cur[n] # NoOwner =>
              own'.cur[n] = f.snap.cur[n] \/ \E k \in DOMAIN arms : own'.cur[n] = arms[k].own.cur[n]
         /\ /\ f.snap.st[Home(c)] \in Lent
            /\ \A k \in DOMAIN arms : arms[k].own.st[Home(c)] \in Lent
            /\ \A k \in DOMAIN arms : \A m \in Name : f.snap.cur[m] = Home(c) => arms[k].own.cur[m] = Home(c)
            => own'.st[Home(c)] \in Lent
    BY <1>1, <1>5, <1>6, <1>14, MergeBranchesLent
  <1>17. SeatsOf(prog', own', c) /\ SeatsStay(f.snap, own')
    <2>1. SeatsOf(prog', f.snap, c)
      BY <1>13 DEF FrameSeats
    <2>2. own'.cur[c] = Home(c)
      BY <1>14, <1>16, <2>1 DEF SeatsOf
    <2>3. ASSUME NEW m \in Name \ {c}, own'.cur[m] = Home(c)
          PROVE  \E q \in DOMAIN prog' : prog'[q].op \in {"decl", "assign"} /\ prog'[q].n = m /\ prog'[q].src = c
      <3>1. f.snap.cur[m] = Home(c) \/ \E k \in DOMAIN arms : arms[k].own.cur[m] = Home(c)
        BY <1>14, <1>16, <2>3
      <3> QED BY <1>15, <2>1, <3>1 DEF SeatsOf
    <2> QED BY <1>16, <2>2, <2>3 DEF SeatsOf, SeatsStay
  <1>18. ASSUME Untaken(prog', pc + 1, c), Intact(prog', pc, own, c), FrameIntact(prog', f, c)
         PROVE  Intact(prog', pc + 1, own', c)
    <2>1. Intact(prog', f.at, own, c) /\ Intact(prog', f.at, f.snap, c)
      BY <1>2, <1>12, <1>18, KeptGrows DEF FrameIntact
    <2>2. \A k \in DOMAIN arms : Intact(prog', f.at, arms[k].own, c)
      <3>1. \A v : \A w : v = w /\ Intact(prog', f.at, w, c) => Intact(prog', f.at, v, c)
        OBVIOUS
      <3> QED BY <1>1, <1>7, <1>18, <2>1, <3>1 DEF FrameIntact
    <2>3. ASSUME NEW m \in Name \ {c}, NEW v, SeatsOf(prog', v, c), v.cur[m] = Home(c),
                 m \in Inner, ~Born(prog', m, f.at)
          PROVE  ~Born(prog', m, pc + 1) /\ ~Born(prog', m, pc)
      <3>1. ~Born(prog', m, pc + 1)
        BY <1>2, <1>10, <1>12, <1>18, <2>3, NotBorn
      <3> QED BY <1>4, <1>12, <3>1, BornGrows
    <2>4. ASSUME NEW k \in DOMAIN arms, NEW m \in Name, f.snap.cur[m] = Home(c)
          PROVE  arms[k].own.cur[m] = Home(c)
      <3>1. CASE m = c
        BY <1>15, <3>1 DEF SeatsOf
      <3>2. CASE m # c
        <4>1. m \in Inner /\ ~Born(prog', m, f.at)
          BY <2>1, <2>4, <3>2 DEF Intact
        <4>2. ~Born(prog', m, pc)
          BY <1>13, <2>3, <2>4, <3>2, <4>1 DEF FrameSeats
        <4>3. Kept(prog', pc, f.snap, own) /\ \A b \in DOMAIN f.arms : Kept(prog', pc, f.snap, f.arms[b].own)
          BY <1>1, <1>13 DEF FrameKept
        <4>4. own.cur[m] = Home(c) /\ \A b \in DOMAIN f.arms : f.arms[b].own.cur[m] = Home(c)
          BY <1>14, <2>4, <4>1, <4>2, <4>3 DEF Kept
        <4> QED BY <1>7, <2>4, <4>4
      <3> QED BY <3>1, <3>2
    <2>5. own'.st[Home(c)] \in Lent
      BY <1>16, <2>1, <2>2, <2>4 DEF Intact, Lent
    <2>6. ASSUME NEW m \in Name \ {c}, own'.cur[m] = Home(c) PROVE m \in Inner /\ ~Born(prog', m, pc + 1)
      <3>1. f.snap.cur[m] = Home(c) \/ \E k \in DOMAIN arms : arms[k].own.cur[m] = Home(c)
        BY <1>14, <1>16, <2>6
      <3>2. m \in Inner /\ ~Born(prog', m, f.at)
        BY <2>1, <2>2, <3>1 DEF Intact
      <3> QED BY <1>17, <2>3, <2>6, <3>2
    <2> QED BY <2>5, <2>6 DEF Intact, Lent
  <1>19. ~Opaque(f)
    BY <1>1 DEF Opaque
  <1>20. BorrowInv(prog', Frames(stack) \ {f}, pc + 1, own', out', c)
    BY <1>2, <1>8, <1>9, <1>11, <1>17, <1>18, <1>19, PopBorrow
  <1> QED BY <1>1, <1>2, <1>11, <1>20 DEF Guarded

\* A propagation pass ends: what the loop's join seats in the parameter's home
\* is not born where the loop opened.
LEMMA PropagateGuarded ==
  ASSUME TypeOK, Walking, NEW c \in BorrowParam, Guarded(c), NEW tok \in Text, Propagate(tok)
  PROVE  Guarded(c)'
  <1> DEFINE f == stack[1]
             flows == BodyFlows
             merged == MergeLoopPlain(f.entry, own, flows)
  <1>1. At(tok) /\ tok.op = "endwhile" /\ Innermost("while")
    BY DEF Propagate
  <1>2. /\ WalkInv(prog', stack, pc, own, out)
        /\ stack # <<>> /\ stack \in Seq(Frame) /\ pc \in Nat /\ flows \in BOOLEAN
        /\ f \in Frame /\ Head(stack) = f /\ 1 \in DOMAIN stack
        /\ f.kind = "while" /\ f.snap \in Lattice /\ f.entry \in Lattice
        /\ Ascends(f.snap, f.entry) /\ f.at \in 1 .. pc - 1
    BY <1>1, LoopFrame
  <1>3. /\ prog' \in Seq(Token) /\ Orderly(prog')
        /\ BorrowInv(prog', Frames(stack), pc, own, out, c)
    BY <1>1, AtBorrow DEF Guarded
  <1>4. own \in Lattice
    BY DEF TypeOK
  <1>5. /\ f.phase = "propagate" /\ pc' = f.at + 1
        /\ \/ own' = merged /\ stack' = <<NextEntry(f, merged)>> \o Tail(stack)
           \/ /\ merged = f.entry
              /\ own' \in LoopOverrides(merged, f.snap, own, flows)
              /\ stack' = <<[Repeated(f) EXCEPT !.phase = "check"]>> \o Tail(stack)
              /\ out' = f.saved
    BY <1>2 DEF Propagate
  <1>6. /\ Repeated(f).kind = f.kind /\ Repeated(f).at = f.at /\ Repeated(f).snap = f.snap
        /\ Repeated(f).saved = f.saved /\ Repeated(f).entry = f.entry
        /\ Repeated(f).phase = f.phase /\ Repeated(f) \in Frame
    <2> DEFINE b == BodyFlows
    <2>1. b \in BOOLEAN /\ Repeated(f) = [f EXCEPT !.flows = b]
      BY <1>2 DEF Repeated
    <2> HIDE DEF b
    <2> QED BY <1>2, <2>1 DEF Frame
  <1>7. /\ merged \in Lattice
        /\ \A o \in Owner : f.entry.st[o] \in Lent => merged.st[o] \in Lent
        /\ \A n \in Name : merged.cur[n] = IF f.entry.cur[n] # NoOwner THEN f.entry.cur[n] ELSE own.cur[n]
    BY <1>2, <1>4, MergeLoopPlainType, LoopJoinParts
  <1>8. NestedIn(prog', stack, pc) /\ ScopeHeld(prog', stack, pc, own)
    BY <1>2 DEF WalkInv
  <1>9. prog'[f.at].op = "while"
    BY <1>2, <1>8 DEF NestedIn
  <1>10. /\ Innermost1(Frames(stack), f)
         /\ \A g : Frames(<<g>> \o Tail(stack)) = (Frames(stack) \ {f}) \cup {g}
    BY <1>2, <1>8, TopFrame
  <1>11. FrameSeats(prog', f, c) /\ SeatsOf(prog', own, c)
    BY <1>3, <1>10 DEF Innermost1, BorrowInv, SeatInv
  <1>12. c \in Name /\ Home(c) \in Owner /\ Home(c) # NoOwner
    BY ParamHome
  <1>13. f.at \in Nat \ {0} /\ f.at \in Nat
    BY <1>2
  <1> HIDE DEF merged, flows, f
  <1>14. SeatsOf(prog', f.snap, c) /\ SeatsOf(prog', f.entry, c)
    BY <1>11 DEF FrameSeats
  <1>15. SeatsOf(prog', merged, c)
    <2>1. merged.cur[c] = Home(c)
      BY <1>7, <1>12, <1>14 DEF SeatsOf
    <2>2. ASSUME NEW m \in Name \ {c}, merged.cur[m] = Home(c)
          PROVE  \E q \in DOMAIN prog' : prog'[q].op \in {"decl", "assign"} /\ prog'[q].n = m /\ prog'[q].src = c
      <3>1. f.entry.cur[m] = Home(c) \/ own.cur[m] = Home(c)
        BY <1>7, <2>2
      <3> QED BY <1>11, <1>14, <3>1 DEF SeatsOf
    <2> QED BY <2>1, <2>2 DEF SeatsOf
  <1>16. SeatsStay(f.snap, merged)
    BY <1>2, <1>7 DEF SeatsStay, Ascends
  <1>17. ASSUME Untaken(prog', f.at, c), FrameIntact(prog', f, c)
         PROVE  Intact(prog', f.at, f.entry, c) /\ Intact(prog', f.at, merged, c)
    <2>1. Intact(prog', f.at, f.entry, c)
      BY <1>17 DEF FrameIntact
    <2>2. merged.st[Home(c)] \in Lent
      BY <1>7, <1>12, <2>1 DEF Intact, Lent
    <2>3. ASSUME NEW m \in Name \ {c}, merged.cur[m] = Home(c) PROVE m \in Inner /\ ~Born(prog', m, f.at)
      <3>1. CASE f.entry.cur[m] # NoOwner
        BY <1>7, <2>1, <2>3, <3>1 DEF Intact
      <3>2. CASE f.entry.cur[m] = NoOwner
        <4>1. own.cur[m] = Home(c)
          BY <1>7, <2>3, <3>2
        <4>2. f.snap.cur[m] = NoOwner
          BY <1>2, <3>2 DEF Ascends
        <4>3. ~Declared(prog', m, f.at)
          <5>1. Declared(prog', m, f.at) => Held(f.snap, m)
            BY <1>2, <1>8 DEF ScopeHeld, f
          <5> QED BY <4>2, <5>1 DEF Held
        <4>4. m \in Inner
          BY <4>3 DEF Declared
        <4>5. ~Born(prog', m, 0)
          <5>1. 1 .. 0 - 1 = {}
            OBVIOUS
          <5> QED BY <5>1 DEF Born
        <4> QED BY <1>3, <1>11, <1>13, <1>17, <4>1, <4>3, <4>4, <4>5, NotBorn
      <3> QED BY <3>1, <3>2
    <2> QED BY <2>1, <2>2, <2>3 DEF Intact, Lent
  <1>18. Opaque(f)
    BY <1>2, <1>5 DEF Opaque
  <1>19. CASE own' = merged /\ stack' = <<NextEntry(f, merged)>> \o Tail(stack)
    <2> DEFINE g == NextEntry(f, merged)
    <2>1. /\ g.kind = "while" /\ g.at = f.at /\ g.snap = f.snap /\ g.saved = f.saved
          /\ g.phase = "propagate" /\ g.entry = merged
      <3> DEFINE r == Repeated(f)
      <3>1. g = [r EXCEPT !.entry = merged]
        BY DEF NextEntry
      <3> HIDE DEF r, g
      <3>2. /\ r \in Frame /\ r.kind = "while" /\ r.at = f.at /\ r.snap = f.snap
            /\ r.saved = f.saved /\ r.phase = "propagate"
        BY <1>2, <1>5, <1>6 DEF r
      <3> QED BY <3>1, <3>2 DEF Frame
    <2> HIDE DEF g
    <2>2. Untaken(prog', f.at, c) /\ FrameIntact(prog', f, c) =>
            Intact(prog', f.at, g.entry, c) /\ Intact(prog', f.at, merged, c)
      BY <1>17, <2>1
    <2>3. BorrowInv(prog', (Frames(stack) \ {f}) \cup {g}, f.at + 1, merged, out', c)
      BY <1>3, <1>9, <1>10, <1>13, <1>15, <1>16, <1>18, <2>1, <2>2, BackBorrow
    <2>4. Frames(stack') = (Frames(stack) \ {f}) \cup {g}
      BY <1>10, <1>19 DEF g
    <2> QED BY <1>3, <1>5, <1>19, <2>3, <2>4 DEF Guarded
  <1>20. CASE /\ merged = f.entry
              /\ own' \in LoopOverrides(merged, f.snap, own, flows)
              /\ stack' = <<[Repeated(f) EXCEPT !.phase = "check"]>> \o Tail(stack)
              /\ out' = f.saved
    <2> DEFINE g == [Repeated(f) EXCEPT !.phase = "check"]
    <2>1. /\ g.kind = "while" /\ g.at = f.at /\ g.snap = f.snap /\ g.saved = f.saved
          /\ g.phase = "check" /\ g.entry = f.entry
      <3> DEFINE r == Repeated(f)
      <3>1. g = [r EXCEPT !.phase = "check"]
        OBVIOUS
      <3> HIDE DEF r, g
      <3>2. /\ r \in Frame /\ r.kind = "while" /\ r.at = f.at /\ r.snap = f.snap
            /\ r.saved = f.saved /\ r.entry = f.entry
        BY <1>2, <1>6 DEF r
      <3> QED BY <3>1, <3>2 DEF Frame
    <2> HIDE DEF g
    <2>2. own'.cur = merged.cur /\ (f.snap.st[Home(c)] \in Lent /\ merged.st[Home(c)] \in Lent
                                      => own'.st[Home(c)] \in Lent)
      BY <1>2, <1>4, <1>7, <1>12, <1>20, LoopOverridesLent
    <2>3. SeatsOf(prog', own', c) /\ SeatsStay(f.snap, own')
      BY <1>15, <1>16, <2>2 DEF SeatsOf, SeatsStay
    <2>4. Untaken(prog', f.at, c) /\ FrameIntact(prog', f, c) =>
            Intact(prog', f.at, g.entry, c) /\ Intact(prog', f.at, own', c)
      <3> SUFFICES ASSUME Untaken(prog', f.at, c), FrameIntact(prog', f, c)
                   PROVE  Intact(prog', f.at, g.entry, c) /\ Intact(prog', f.at, own', c)
        OBVIOUS
      <3>1. Intact(prog', f.at, f.snap, c) /\ Intact(prog', f.at, f.entry, c) /\ Intact(prog', f.at, merged, c)
        BY <1>17 DEF FrameIntact
      <3> QED BY <2>1, <2>2, <3>1 DEF Intact, Lent
    <2>5. g.saved = f.saved /\ out' = f.saved
      BY <1>20, <2>1
    <2>6. BorrowInv(prog', (Frames(stack) \ {f}) \cup {g}, f.at + 1, own', out', c)
      BY <1>3, <1>9, <1>10, <1>13, <1>14, <1>18, <2>1, <2>3, <2>4, <2>5, BackBorrow
    <2>7. Frames(stack') = (Frames(stack) \ {f}) \cup {g}
      BY <1>10, <1>20 DEF g
    <2> QED BY <1>3, <1>5, <2>6, <2>7 DEF Guarded
  <1> QED BY <1>5, <1>19, <1>20

\* The check pass ends: the loop's join has the caller's value where it was.
LEMMA CheckedLoopGuarded ==
  ASSUME TypeOK, Walking, NEW c \in BorrowParam, Guarded(c), NEW tok \in Text, CheckedLoop(tok)
  PROVE  Guarded(c)'
  <1> DEFINE f == stack[1]
             flows == BodyFlows
             merged == MergeLoopPlain(f.snap, own, flows)
  <1>1. At(tok) /\ tok.op = "endwhile" /\ Innermost("while")
    BY DEF CheckedLoop
  <1>2. /\ WalkInv(prog', stack, pc, own, out)
        /\ stack # <<>> /\ stack \in Seq(Frame) /\ pc \in Nat /\ flows \in BOOLEAN
        /\ f \in Frame /\ Head(stack) = f /\ f.snap \in Lattice
    BY <1>1, LoopFrame
  <1>3. /\ prog' \in Seq(Token) /\ Orderly(prog') /\ prog'[pc] = tok /\ pc \in Nat \ {0}
        /\ BorrowInv(prog', Frames(stack), pc, own, out, c)
    BY <1>1, AtBorrow DEF Guarded
  <1>4. own \in Lattice
    BY DEF TypeOK
  <1>5. /\ f.phase = "check" /\ pc' = pc + 1 /\ out' = out
        /\ own' \in LoopOverrides(merged, f.snap, own, flows)
        /\ stack' = IF live THEN Flowing(Tail(stack)) ELSE Tail(stack)
    BY <1>2 DEF CheckedLoop, KeptOutput
  <1>6. /\ merged \in Lattice
        /\ \A o \in Owner : f.snap.st[o] \in Lent => merged.st[o] \in Lent
        /\ \A n \in Name : merged.cur[n] = IF f.snap.cur[n] # NoOwner THEN f.snap.cur[n] ELSE own.cur[n]
    BY <1>2, <1>4, MergeLoopPlainType, LoopJoinParts
  <1>7. NestedIn(prog', stack, pc)
    BY <1>2 DEF WalkInv
  <1>8. /\ Innermost1(Frames(stack), f) /\ f.at \in 1 .. pc - 1
        /\ Frames(Tail(stack)) = Frames(stack) \ {f}
    BY <1>2, <1>7, TopFrame
  <1>9. prog'[pc].op \in Closers /\ prog'[pc].op \in Closers \cup Siblings /\ prog'[pc].op # "decl"
    BY <1>1, <1>3 DEF Closers
  <1>10. \A n : Declared(prog', n, pc + 1) => Declared(prog', n, f.at)
    BY <1>2, <1>3, <1>7, <1>9, BlockScope
  <1>11. FrameSeats(prog', f, c) /\ SeatsOf(prog', own, c)
    BY <1>3, <1>8 DEF Innermost1, BorrowInv, SeatInv
  <1>12. c \in Name /\ Home(c) \in Owner /\ Home(c) # NoOwner
    BY ParamHome
  <1> HIDE DEF merged, flows, f
  <1>13. SeatsOf(prog', f.snap, c)
    BY <1>11 DEF FrameSeats
  <1>14. own'.cur = merged.cur /\ (f.snap.st[Home(c)] \in Lent /\ merged.st[Home(c)] \in Lent
                                     => own'.st[Home(c)] \in Lent)
    BY <1>2, <1>4, <1>5, <1>6, <1>12, LoopOverridesLent
  <1>15. SeatsOf(prog', own', c) /\ SeatsStay(f.snap, own')
    <2>1. own'.cur[c] = Home(c)
      BY <1>6, <1>12, <1>13, <1>14 DEF SeatsOf
    <2>2. ASSUME NEW m \in Name \ {c}, own'.cur[m] = Home(c)
          PROVE  \E q \in DOMAIN prog' : prog'[q].op \in {"decl", "assign"} /\ prog'[q].n = m /\ prog'[q].src = c
      <3>1. f.snap.cur[m] = Home(c) \/ own.cur[m] = Home(c)
        BY <1>6, <1>14, <2>2
      <3> QED BY <1>11, <1>13, <3>1 DEF SeatsOf
    <2>3. SeatsStay(f.snap, own')
      BY <1>6, <1>14 DEF SeatsStay
    <2> QED BY <2>1, <2>2, <2>3 DEF SeatsOf
  <1>16. ASSUME Untaken(prog', pc + 1, c), Intact(prog', pc, own, c), FrameIntact(prog', f, c)
         PROVE  Intact(prog', pc + 1, own', c)
    <2>1. Intact(prog', f.at, f.snap, c)
      BY <1>16 DEF FrameIntact
    <2>2. own'.st[Home(c)] \in Lent
      BY <1>6, <1>12, <1>14, <2>1 DEF Intact, Lent
    <2>3. ASSUME NEW m \in Name \ {c}, own'.cur[m] = Home(c) PROVE m \in Inner /\ ~Born(prog', m, pc + 1)
      <3>1. CASE f.snap.cur[m] = Home(c)
        <4>1. m \in Inner /\ ~Born(prog', m, f.at)
          BY <2>1, <3>1 DEF Intact
        <4>2. pc + 1 \in Nat
          BY <1>3
        <4> QED BY <1>3, <1>10, <1>13, <1>16, <3>1, <4>1, <4>2, NotBorn
      <3>2. CASE own.cur[m] = Home(c)
        <4>1. m \in Inner /\ ~Born(prog', m, pc)
          BY <1>16, <3>2 DEF Intact
        <4> QED BY <1>3, <1>9, <4>1, BornStep
      <3> QED BY <1>6, <1>14, <2>3, <3>1, <3>2
    <2> QED BY <2>2, <2>3 DEF Intact, Lent
  <1>17. ~Opaque(f)
    BY <1>5 DEF Opaque
  <1>18. BorrowInv(prog', Frames(stack) \ {f}, pc + 1, own', out', c)
    BY <1>3, <1>5, <1>8, <1>9, <1>15, <1>16, <1>17, PopBorrow
  <1>19. Alike(Tail(stack), stack')
    <2>1. Tail(stack) \in Seq(Frame)
      BY <1>2, TopType
    <2> QED BY <1>5, <2>1, AlikeSelf, FlowingAlike
  <1>20. BorrowInv(prog', Frames(stack'), pc + 1, own', out', c)
    BY <1>8, <1>18, <1>19, AlikeBorrow
  <1> QED BY <1>3, <1>5, <1>20 DEF Guarded

\* Before the first token the parameter's home is its own and the caller's.
LEMMA InitGuarded ==
  ASSUME Init, NEW c \in BorrowParam
  PROVE  Guarded(c)
  <1>1. /\ prog = <<>> /\ stack = <<>> /\ pc = 1 /\ own = InitOwn
        /\ DOMAIN prog = {} /\ DOMAIN stack = {} /\ 1 .. 1 - 1 = {}
    BY DEF Init
  <1>2. /\ c \in Name /\ Home(c) \in Owner /\ Home(c) # NoOwner
        /\ \A n : Home(n) = Home(c) => n = c
        /\ \A n, i : i \in Nat => Temp(n, i) # Home(c)
    BY ParamHome
  <1>3. c \in Param /\ c \notin Outer
    BY NamesAssumption DEF Param
  <1>4. ASSUME NEW n \in Name
        PROVE  InitOwn.cur[n] = CASE n \in Outer -> Temp(n, 0) [] n \in Param -> Home(n) [] OTHER -> NoOwner
    BY DEF InitOwn
  <1>5. InitOwn.cur[c] = Home(c)
    BY <1>2, <1>3, <1>4
  <1>6. \A m \in Name \ {c} : InitOwn.cur[m] # Home(c)
    <2> TAKE m \in Name \ {c}
    <2>1. \/ m \in Outer /\ m \notin Param /\ InitOwn.cur[m] = Temp(m, 0)
          \/ m \in Param /\ m \notin Outer /\ InitOwn.cur[m] = Home(m)
          \/ InitOwn.cur[m] = NoOwner
      BY <1>4, NamesAssumption
    <2> QED BY <1>2, <2>1
  <1>7. InitOwn.st[Home(c)] = "Borrowed"
    <2>1. c \notin MoveParam
      BY NamesAssumption
    <2> QED BY <1>2, <1>3, <2>1 DEF InitOwn, Home
  <1>8. Frames(stack) = {}
    BY <1>1 DEF Frames
  <1>9. SeatInv(prog, {}, 1, own, c)
    BY <1>1, <1>5, <1>6 DEF SeatInv, SeatsOf
  <1>10. CleanInv(prog, {}, 1, own, out, c)
    BY <1>1, <1>6, <1>7 DEF CleanInv, Untaken, Intact
  <1>11. Orderly(prog)
    BY <1>1 DEF Orderly
  <1> QED BY <1>1, <1>8, <1>9, <1>10, <1>11 DEF Guarded, BorrowInv

\* The walk guards the parameter, an accepted body takes nothing from it, and
\* so its execution leaves it live.
Spared(c) ==
  /\ phase = "walk" => Guarded(c)
  /\ phase \in {"run", "done"} => \A i \in DOMAIN prog : ~Takes(prog, i, c)
  /\ slots[c] = "live"

\* A token of the walk guards the parameter.
LEMMA TokenGuarded ==
  ASSUME TypeOK, Walking, NEW c \in BorrowParam, Guarded(c), NEW tok \in Text, WalkToken(tok)
  PROVE  Guarded(c)'
  <1>1. CASE WalkDecl(tok) \/ WalkAssign(tok)
    <2>1. tok.op \in {"decl", "assign"} /\ At(tok) /\ \E displaced : Bind(tok, displaced)
      BY <1>1 DEF WalkDecl, WalkAssign
    <2> QED BY <2>1, BindGuarded
  <1>2. CASE WalkSelfAssign(tok) \/ WalkCall(tok) \/ WalkReturn(tok) \/ WalkJump(tok)
    BY <1>2, SelfAssignGuarded, CallGuarded, ReturnGuarded, JumpGuarded
  <1>3. CASE WalkIf(tok) \/ WalkWhile(tok)
    BY <1>3, OpenGuarded
  <1>4. CASE WalkNextArm(tok) \/ WalkEndIf(tok)
    BY <1>4, NextArmGuarded, EndIfGuarded
  <1>5. CASE Propagate(tok) \/ CheckedLoop(tok)
    BY <1>5, PropagateGuarded, CheckedLoopGuarded
  <1> QED BY <1>1, <1>2, <1>3, <1>4, <1>5 DEF WalkToken

\* A body is accepted with nothing in the sink and no loop left to check.
LEMMA EndSpared ==
  ASSUME TypeOK, NEW c \in BorrowParam, Spared(c), WalkEnd
  PROVE  Spared(c)'
  <1>1. /\ Guarded(c) /\ pc = Len(prog) + 1 /\ stack = <<>> /\ prog' = prog /\ slots' = slots
        /\ phase' = IF out.diags = {} THEN "run" ELSE "rejected"
    BY DEF WalkEnd, Spared
  <1>2. ASSUME out.diags = {}, NEW i \in DOMAIN prog PROVE ~Takes(prog, i, c)
    <2>1. i \in 1 .. pc - 1
      BY <1>1 DEF TypeOK
    <2>2. CleanBefore(Frames(stack), pc)
      BY <1>1 DEF CleanBefore, Frames
    <2>3. Untaken(prog, pc, c)
      BY <1>1, <1>2, <2>2 DEF Guarded, BorrowInv, CleanInv
    <2> QED BY <2>1, <2>3 DEF Untaken
  <1> QED BY <1>1, <1>2 DEF Spared

\* A step of the execution moves out what the token takes.
LEMMA RunSpared ==
  ASSUME TypeOK, NEW c \in BorrowParam, Spared(c), Run
  PROVE  Spared(c)'
  <1>1. c \in Name
    BY ParamHome
  <1>2. phase = "run" /\ phase' \in {"run", "done"} /\ prog' = prog
    BY DEF Run, RunBind, RunCall, RunReturn, RunControl, RunOffEnd, Running
  <1>3. Running => ~Takes(prog, pc, c)
    BY <1>2 DEF Spared, Running, TypeOK
  <1>4. slots'[c] = "live"
    <2>1. CASE RunBind
      BY <1>1, <1>3, <2>1 DEF RunBind, Takes, Here, Spared
    <2>2. CASE RunCall
      BY <1>1, <1>3, <2>2 DEF RunCall, Takes, Here, MovedBy, Spared
    <2>3. CASE RunReturn
      BY <1>1, <1>3, <2>3 DEF RunReturn, Takes, Here, Spared
    <2>4. CASE RunControl \/ RunOffEnd
      BY <2>4 DEF RunControl, RunOffEnd, Spared
    <2> QED BY <2>1, <2>2, <2>3, <2>4 DEF Run
  <1> QED BY <1>2, <1>4 DEF Spared

\* Sparing the parameters is inductive with the types and the walk's invariant.
LEMMA SparedHolds == Spec => [](\A c \in BorrowParam : Spared(c))
  <1> DEFINE Lenient == \A c \in BorrowParam : Spared(c)
  <1>1. Init => Lenient
    <2> SUFFICES ASSUME Init, NEW c \in BorrowParam PROVE Spared(c)
      OBVIOUS
    <2>1. c \in Name /\ c \notin Inner
      BY ParamHome
    <2> QED BY <2>1, InitGuarded DEF Spared, Init
  <1>2. TypeOK /\ Sound /\ Lenient /\ [Next]_vars => Lenient'
    <2> SUFFICES ASSUME TypeOK, Sound, [Next]_vars, NEW c \in BorrowParam, Spared(c) PROVE Spared(c)'
      OBVIOUS
    <2>1. CASE UNCHANGED vars
      <3>1. /\ phase' = phase /\ prog' = prog /\ pc' = pc /\ stack' = stack
            /\ own' = own /\ out' = out /\ slots' = slots
        BY <2>1 DEF vars
      <3>2. Guarded(c) => Guarded(c)'
        BY <3>1 DEF Guarded
      <3> QED BY <3>1, <3>2 DEF Spared
    <2>2. CASE WalkEnd
      BY <2>2, EndSpared
    <2>3. CASE Run
      BY <2>3, RunSpared
    <2>4. CASE Finished
      BY <2>1, <2>4 DEF Finished
    <2>5. ASSUME NEW tok \in Text, WalkToken(tok) PROVE Spared(c)'
      <3>1. phase = "walk" /\ phase' = "walk" /\ slots' = slots
        BY <2>5 DEF WalkToken, WalkDecl, WalkSelfAssign, WalkAssign, WalkCall, WalkReturn, WalkJump,
           WalkIf, WalkNextArm, WalkEndIf, WalkWhile, Propagate, CheckedLoop, Bind, At
      <3>2. Walking /\ Guarded(c)
        BY <3>1 DEF Sound, Spared
      <3>3. Guarded(c)'
        BY <2>5, <3>2, TokenGuarded
      <3> QED BY <3>1, <3>3 DEF Spared
    <2> QED BY <2>1, <2>2, <2>3, <2>4, <2>5 DEF Next, Walk
  <1> HIDE DEF Lenient
  <1>3. Spec => []Lenient
    BY <1>1, <1>2, Typed, SoundHolds, PTL DEF Spec
  <1> QED BY <1>3 DEF Lenient

\* For every body: what is accepted never moves out of a borrowed parameter,
\* through whatever names, branches and loops its value could be handed on.
\* Every consume of it is reported, and none of the reports is lost with the
\* scratch sinks of the loops around it.
THEOREM BorrowedStay == Spec => []BorrowsKept
  <1>1. (\A c \in BorrowParam : Spared(c)) => BorrowsKept
    BY DEF Spared, BorrowsKept
  <1> QED BY <1>1, SparedHolds, PTL

-----------------------------------------------------------------------------
(* What the caller gets back *)

\* Somewhere the body assigns the value of an inout parameter to another name.
\* The walk reports that, unless both are seated alike and it is a self-assignment.
HandsOn ==
  \E i \in DOMAIN prog : prog[i].op = "assign" /\ prog[i].src \in InoutParam /\ prog[i].n # prog[i].src

\* The storage of every inout parameter is live throughout.
Returning == phase = "walk" \/ ~HandsOn => \A n \in InoutParam : slots[n] = "live"

\* A token of an accepted body that moves an inout parameter stores it back.
LEMMA OnlyStored ==
  ASSUME Sound, phase = "run", ~HandsOn, NEW i \in DOMAIN prog, NEW q \in InoutParam, Takes(prog, i, q)
  PROVE  prog[i].op = "assign" /\ prog[i].n = q
  <1>1. ~Withholds(prog, i)
    BY DEF Sound, Faulty
  <1> QED BY <1>1 DEF Withholds, Takes, HandsOn

\* Returning is inductive with the types and the walk's invariant.
LEMMA ReturningHolds == Spec => []Returning
  <1>1. Init => Returning
    BY NamesAssumption DEF Init, Returning, Name, Param
  <1>2. TypeOK /\ Sound /\ Returning /\ [Next]_vars => Returning'
    <2> SUFFICES ASSUME TypeOK, Sound, Returning, [Next]_vars PROVE Returning'
      OBVIOUS
    <2>1. CASE UNCHANGED vars
      BY <2>1 DEF vars, Returning, HandsOn
    <2>2. CASE WalkEnd
      BY <2>2 DEF WalkEnd, Returning
    <2>3. CASE Run
      <3>1. phase = "run" /\ phase' \in {"run", "done"} /\ prog' = prog
        BY <2>3 DEF Run, RunBind, RunCall, RunReturn, RunControl, RunOffEnd, Running
      <3>2. SUFFICES ASSUME ~HandsOn, NEW q \in InoutParam PROVE slots'[q] = "live"
        BY <3>1 DEF Returning, HandsOn
      <3>3. q \in Name /\ slots[q] = "live"
        BY <3>2 DEF Returning, Name, Param
      <3>4. Running => pc \in DOMAIN prog
        BY DEF Running, TypeOK
      <3>5. Running /\ Takes(prog, pc, q) => prog[pc].op = "assign" /\ prog[pc].n = q
        BY <3>1, <3>2, <3>4, OnlyStored
      <3>6. CASE RunBind
        BY <3>3, <3>5, <3>6 DEF RunBind, Takes, Here
      <3>7. CASE RunCall
        BY <3>3, <3>5, <3>7 DEF RunCall, Takes, Here, MovedBy
      <3>8. CASE RunReturn
        BY <3>3, <3>5, <3>8 DEF RunReturn, Takes, Here
      <3>9. CASE RunControl \/ RunOffEnd
        BY <3>3, <3>9 DEF RunControl, RunOffEnd
      <3> QED BY <2>3, <3>6, <3>7, <3>8, <3>9 DEF Run
    <2>4. CASE Finished
      BY <2>1, <2>4 DEF Finished
    <2>5. ASSUME NEW tok \in Text, WalkToken(tok) PROVE Returning'
      <3>1. phase = "walk" /\ slots' = slots
        BY <2>5 DEF WalkToken, WalkDecl, WalkSelfAssign, WalkAssign, WalkCall, WalkReturn, WalkJump,
           WalkIf, WalkNextArm, WalkEndIf, WalkWhile, Propagate, CheckedLoop, Bind, At
      <3> QED BY <3>1 DEF Returning
    <2> QED BY <2>1, <2>2, <2>3, <2>4, <2>5 DEF Next, Walk
  <1> QED BY <1>1, <1>2, Typed, SoundHolds, PTL DEF Spec

\* For every body: no declaration, call or return of an accepted one moves an
\* inout parameter out, whatever the joins made of the state of its owner
\* (consume_underlying's write-back guard).
THEOREM InoutsStay ==
  Spec => [](Running /\ Here.op \in {"decl", "call", "return"}
               => \A q \in InoutParam : ~Takes(prog, pc, q))
  <1>1. TypeOK /\ Sound =>
          (Running /\ Here.op \in {"decl", "call", "return"} => \A q \in InoutParam : ~Takes(prog, pc, q))
    <2> SUFFICES ASSUME TypeOK, Sound, Running, Here.op \in {"decl", "call", "return"}
                 PROVE  \A q \in InoutParam : ~Takes(prog, pc, q)
      OBVIOUS
    <2>1. phase = "run" /\ pc \in DOMAIN prog
      BY DEF Running, TypeOK
    <2>2. ~Withholds(prog, pc)
      BY <2>1 DEF Sound, Faulty
    <2> QED BY <2>2 DEF Withholds, Here
  <1> QED BY <1>1, Typed, SoundHolds, PTL

\* For every body that does not assign an inout parameter to another name: the
\* caller gets a live value back through it, and its borrowed values are never
\* moved.  An assignment of one to another name is reported too, unless a value
\* was seated back in a home it had left, so that the two are seated alike.
THEOREM CallersKeepTheirs == Spec => [](~HandsOn => CallerKeepsItsValues)
  <1>1. Returning /\ BorrowsKept => (~HandsOn => CallerKeepsItsValues)
    BY DEF Returning, InoutsReturned, CallerKeepsItsValues
  <1> QED BY <1>1, ReturningHolds, BorrowedStay, PTL

\* The value of a name whose owner is its home, as a move parameter's is from the
\* start: consuming it marks the home Moved, and seating the home in the new
\* binding marks it Valid again while the old name still has it for an owner, so
\* that the old name reads as if it had never been moved out (rebind_to_init,
\* whose comment says that the source's Moved state is never resurrected).
THEOREM RevivedSource ==
  ASSUME NEW w \in Lattice, NEW m \in Name, NEW n \in Name \ {m},
         w.cur[m] = Home(m), Consumable(w, Home(m)) = "Valid"
  PROVE  LET u == Consume(w, m)
             v == Rebind(u, n, Home(m))
         IN  /\ u.st[Home(m)] = "Moved"
             /\ Underlying(v, m) = Home(m) /\ v.st[Home(m)] = "Valid"
  <1>1. Home(m) \in Owner /\ Home(m) # NoOwner /\ Underlying(w, m) = Home(m)
    BY PlaceType, NamesAssumption DEF Underlying
  <1>2. /\ Consume(w, m) \in Lattice /\ Consume(w, m).cur = w.cur
        /\ Consume(w, m).st[Home(m)] = "Moved"
    BY <1>1, UseType DEF Consume, Lattice
  <1> QED BY <1>1, <1>2 DEF Rebind, Underlying, Lattice
=============================================================================
