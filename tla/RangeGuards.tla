------------------------------ MODULE RangeGuards ------------------------------
(* Which overflow guards the code generator leaves out (codegen/ranges.rs,      *)
(* control.rs, decls.rs, arith.rs).  A body over ints is written token by token, *)
(* emitted block by block with the facts and slots the scoped tables then hold,  *)
(* and run on every input.                                                       *)
EXTENDS IntRange, Sequences

CONSTANTS
  Name,      \* the bindings
  Outer,     \* those that are mutable locals declared ahead of the body
  Text,      \* the tokens a body is made of
  MaxLen,    \* bound: tokens in a body
  MaxDepth   \* bound: nesting of constructs

VARIABLES
  stage,    \* "write", "emit", "run" or "ended"
  prog,     \* the tokens written
  stack,    \* the constructs open while writing
  live,     \* whether control reaches the end of the text written so far
  dead,     \* the endif tokens no arm falls through to: they have no join block
  facts,    \* range_facts
  slots,    \* locals: for each name, the token that declared its variable; 0 is the outer one
  log,      \* assigned_log
  marks,    \* the marks of the open IfRecords, WhileRecords and ForRecords
  code,     \* for each token, the facts and slots it was emitted with
  node,     \* the token that runs next
  env       \* the value of each variable

written == <<prog, stack, live, dead>>
emitted == <<facts, slots, log, marks, code>>
vars    == <<stage, written, emitted, node, env>>

\* The variable of a name that token d declares; unset, it reads as 0.
Variable == Name \X (0 .. MaxLen)

Arith == {"add", "sub", "mul", "div"}
ASSUME TextAssumption ==
  /\ Name \cap Word = {}
  /\ \A t \in Text : t.op = "set" => t.f \in Arith /\ {t.a, t.b} \subseteq Name \cup Word
Jumps == {"break", "continue", "return"}
Plain == {"decl", "set", "inout"}
Opens  == {"if", "while", "for"}
Splits == {"elif", "else"}
Closes == {"endif", "endwhile", "endfor"}
Closer == [if |-> "endif", while |-> "endwhile", for |-> "endfor"]

-----------------------------------------------------------------------------
(* The structure of a text *)

Positions(ops) == {i \in DOMAIN prog : prog[i].op \in ops}
First(S) == CHOOSE i \in S : \A j \in S : i <= j
Last(S)  == CHOOSE i \in S : \A j \in S : i >= j

Depth(i) == Cardinality({j \in Positions(Opens) : j < i})
            - Cardinality({j \in Positions(Closes) : j < i})
Level(i) == IF i \in Positions(Splits \cup Closes) THEN Depth(i) - 1 ELSE Depth(i)

EndOf(i)     == First({j \in Positions(Closes) : j > i /\ Level(j) = Level(i)})
ArmEnd(i)    == First({j \in Positions(Splits \cup Closes) : j > i /\ Level(j) = Level(i)})
LoopOf(i)    == Last({j \in Positions({"while", "for"}) : j < i /\ i < EndOf(j)})
OpenOf(i)    == Last({j \in Positions(Opens) : j < i /\ Level(j) = Level(i)})
Elifs(b)     == {j \in Positions({"elif"}) : b < j /\ j < EndOf(b) /\ Level(j) = Level(b)}
HasElse(b)   == \E j \in Positions({"else"}) : b < j /\ j < EndOf(b) /\ Level(j) = Level(b)

\* The declaration a name means at token i: the last one whose arm holds i.
ScopeLevel(d) == IF prog[d].op = "for" THEN Level(d) + 1 ELSE Level(d)
Visible(n, i) ==
  {d \in Positions({"decl", "for"}) : /\ d < i /\ prog[d].n = n
                                      /\ \A j \in d + 1 .. i : Level(j) >= ScopeLevel(d)}
Means(n, i) == IF Visible(n, i) = {} THEN 0 ELSE Last(Visible(n, i))

Used(t) ==
  CASE t.op = "set" -> {t.n} \cup ({t.a, t.b} \cap Name)
    [] t.op = "inout" -> {t.n}
    [] t.op \in {"if", "elif", "while"} -> {t.cond.n}
    [] OTHER -> {}

-----------------------------------------------------------------------------
(* Writing a body that semantic analysis accepts *)

\* An open construct: its kind, the names its current arm declares, its loop
\* variable, and whether an arm before this one runs on to the end.
Frame(t) == [op |-> t.op, names |-> IF t.op = "for" THEN {t.n} ELSE {},
             var |-> IF t.op = "for" THEN {t.n} ELSE {}, hasElse |-> FALSE, falls |-> FALSE]

Declaring(n) == {k \in DOMAIN stack : n \in stack[k].names}
Writable(n)  == \A k \in Declaring(n) : k = First(Declaring(n)) => n \notin stack[k].var
InScope(t)   == Used(t) \subseteq {n \in Name : n \in Outer \/ Declaring(n) # {}}
MayAppear(t) ==
  CASE t.op = "decl"                -> stack # <<>> /\ t.n \notin Head(stack).names
    [] t.op \in {"set", "inout"}    -> Writable(t.n)
    [] t.op \in {"break", "continue"} -> \E k \in DOMAIN stack : stack[k].op # "if"
    [] OTHER                        -> stack # <<>>

Put(t) == prog' = Append(prog, t) /\ Len(prog) + Len(stack) < MaxLen
Writing(ops, t) ==
  /\ stage = "write" /\ t.op \in ops
  /\ UNCHANGED <<stage, emitted, node, env>>

\* No statement is written where control cannot reach.
WritePlain(t) ==
  /\ Writing(Plain, t) /\ live /\ InScope(t) /\ MayAppear(t) /\ Put(t)
  /\ stack' = IF t.op = "decl" THEN <<[Head(stack) EXCEPT !.names = @ \cup {t.n}]>> \o Tail(stack)
                               ELSE stack
  /\ UNCHANGED <<live, dead>>

WriteJump(t) ==
  /\ Writing(Jumps, t) /\ live /\ MayAppear(t) /\ Put(t)
  /\ live' = FALSE
  /\ UNCHANGED <<stack, dead>>

WriteOpen(t) ==
  /\ Writing(Opens, t) /\ live /\ InScope(t) /\ Len(stack) < MaxDepth /\ Len(prog) + Len(stack) + 1 < MaxLen
  /\ prog' = Append(prog, t) /\ stack' = <<Frame(t)>> \o stack
  /\ UNCHANGED <<live, dead>>

WriteSplit(t) ==
  /\ Writing(Splits, t) /\ stack # <<>> /\ Head(stack).op = "if" /\ ~Head(stack).hasElse /\ InScope(t) /\ Put(t)
  /\ stack' = <<[Head(stack) EXCEPT !.names = {}, !.hasElse = t.op = "else",
                                    !.falls = @ \/ live]>> \o Tail(stack)
  /\ live' = TRUE
  /\ UNCHANGED dead

WriteClose ==
  /\ stage = "write" /\ stack # <<>>
  /\ LET f == Head(stack)
         joined == f.op # "if" \/ f.falls \/ live \/ ~f.hasElse
     IN  /\ prog' = Append(prog, [op |-> Closer[f.op]])
         /\ live' = joined
         /\ dead' = IF joined THEN dead ELSE dead \cup {Len(prog')}
  /\ stack' = Tail(stack)
  /\ UNCHANGED <<stage, emitted, node, env>>

WriteEnd ==
  /\ stage = "write" /\ stack = <<>> /\ prog # <<>>
  /\ stage' = "emit"
  /\ UNCHANGED <<written, emitted, node, env>>

-----------------------------------------------------------------------------
(* Emission *)

\* kill_fact.
Killed(F, n) == [F EXCEPT ![n] = NoRange]
KilledAll(F, N) == [n \in Name |-> IF n \in N THEN NoRange ELSE F[n]]
\* kill_assigned_since a mark of the log.
KilledSince(F, mark) == KilledAll(F, {log[k] : k \in mark + 1 .. Len(log)})

\* cond_facts turns `k rel n` around; seed_cond_facts adds what it says.
Normal(c) == IF c.swapped THEN Flip(c.rel) ELSE c.rel
Seeded(F, c, polarity) ==
  IF c.rel \notin Relation THEN F
  ELSE LET r == CondRange(Normal(c), c.k, polarity)
       IN  IF r = NoRange THEN F
           ELSE [F EXCEPT ![c.n] = IF @ = NoRange THEN r ELSE Intersect(@, r)]

\* The negated_conds of an if at its elif, else or end: those before token i.
Conds(b, i) == {b} \cup {j \in Elifs(b) : j < i}
SeededFalse(F, J) == FoldSet(LAMBDA j, G : Seeded(G, prog[j].cond, FALSE), F, J)

\* collect_loop_writes: every name the condition or the body of a loop may write.
\* Mutant: only assignments are looked for, not the inout arguments of calls.
WrittenBySet(t) == IF t.op = "set" THEN {t.n} ELSE {}
WrittenBy(t) ==
  CASE t.op \in {"set", "inout"} -> {t.n}
    [] t.op \in {"if", "elif", "while"} /\ t.cond.rel = "inout" -> {t.cond.n}
    [] OTHER -> {}
LoopWrites(b) == UNION {WrittenBy(prog[i]) : i \in b .. EndOf(b)}

\* written_arms_terminated: every arm but the else is one block that jumps.
ArmJumps(s) ==
  \E j \in Positions(Jumps) : s < j /\ \A k \in s + 1 .. j - 1 : prog[k].op \in Plain
AllJump(b) == \A s \in {b} \cup Elifs(b) : ArmJumps(s)

\* The token to emit, and what it is emitted with.
Here == Len(code) + 1
Emitting(ops) ==
  /\ stage = "emit" /\ Here \in Positions(ops)
  /\ UNCHANGED <<stage, written, node, env>>
EmittedWith(F, S) == code' = Append(code, [facts |-> F, slots |-> S])

\* The condition of a construct is evaluated: an inout argument is reloaded.
CondFacts(F, c) == IF c.rel = "inout" THEN Killed(F, c.n) ELSE F
CondLog(c)      == IF c.rel = "inout" THEN Append(log, c.n) ELSE log
Mark(F, S, L)   == [facts |-> F, slots |-> S, log |-> Len(L)]

EmitWrite ==
  /\ Emitting({"set", "inout"})
  /\ EmittedWith(facts, slots)
  /\ facts' = Killed(facts, prog[Here].n)
  /\ log' = Append(log, prog[Here].n)
  /\ UNCHANGED <<slots, marks>>

EmitDecl ==
  /\ Emitting({"decl"})
  /\ EmittedWith(facts, slots)
  /\ facts' = Killed(facts, prog[Here].n)
  /\ slots' = [slots EXCEPT ![prog[Here].n] = Here]
  /\ UNCHANGED <<log, marks>>

EmitJump == Emitting(Jumps) /\ EmittedWith(facts, slots) /\ UNCHANGED <<facts, slots, log, marks>>

\* term_branch of an if takes the marks; IfThen seeds the condition.
EmitIf ==
  /\ Emitting({"if"})
  /\ EmittedWith(facts, slots)
  /\ LET c == prog[Here].cond
         F == CondFacts(facts, c)
     IN  /\ log' = CondLog(c)
         /\ marks' = <<Mark(F, slots, log')>> \o marks
         /\ facts' = Seeded(F, c, TRUE)
  /\ UNCHANGED slots

\* What holds where every condition up to here was false: IfElifCond and IfElse.
Rebased(m) == KilledSince(SeededFalse(m.facts, Conds(OpenOf(Here), Here)), m.log)

EmitElif ==
  /\ Emitting({"elif"})
  /\ LET m == Head(marks)
         c == prog[Here].cond
         F == Rebased(m)
     IN  /\ EmittedWith(F, m.slots)
         /\ facts' = Seeded(CondFacts(F, c), c, TRUE) /\ slots' = m.slots
         /\ log' = CondLog(c)
  /\ UNCHANGED marks

EmitElse ==
  /\ Emitting({"else"})
  /\ LET m == Head(marks)
     IN  /\ facts' = Rebased(m) /\ slots' = m.slots
         /\ EmittedWith(facts', slots')
  /\ UNCHANGED <<log, marks>>

\* IfJoin.  Without an else, and with every written arm left by a jump, only the
\* path on which all conditions are false arrives.
AtJoin(b, m) ==
  KilledSince(IF ~HasElse(b) /\ AllJump(b) THEN SeededFalse(m.facts, Conds(b, Here)) ELSE m.facts, m.log)

EmitJoin ==
  /\ Emitting({"endif"}) /\ Here \notin dead
  /\ LET m == Head(marks)
     IN  /\ facts' = AtJoin(OpenOf(Here), m) /\ slots' = m.slots
         /\ EmittedWith(facts', slots')
  /\ marks' = Tail(marks)
  /\ UNCHANGED log
EmitNoJoin ==
  /\ Emitting({"endif"}) /\ Here \in dead
  /\ EmittedWith(facts, slots) /\ marks' = Tail(marks)
  /\ UNCHANGED <<facts, slots, log>>

\* The header of a while: what the loop writes is unknown before the condition
\* is evaluated; WhileBody takes the marks.
EmitWhile ==
  /\ Emitting({"while"})
  /\ LET c == prog[Here].cond
         F == KilledAll(facts, LoopWrites(Here))
         G == CondFacts(F, c)
     IN  /\ EmittedWith(F, slots)
         /\ log' = CondLog(c)
         /\ marks' = <<Mark(G, slots, log')>> \o marks
         /\ facts' = Seeded(G, c, TRUE)
  /\ UNCHANGED slots

\* Mutant: the slots of the body stay.
EmitWhileExitBare ==
  /\ Emitting({"endwhile"})
  /\ EmittedWith(facts, slots)
  /\ LET m == Head(marks) IN facts' = KilledSince(m.facts, m.log)
  /\ marks' = Tail(marks)
  /\ UNCHANGED <<slots, log>>
EmitWhileExit ==
  /\ Emitting({"endwhile"})
  /\ EmittedWith(facts, slots)
  /\ LET m == Head(marks) IN facts' = KilledSince(m.facts, m.log) /\ slots' = m.slots
  /\ marks' = Tail(marks)
  /\ UNCHANGED log

\* ForBody binds the loop variable; ForExit gives its slot and its fact back, and
\* nothing else.
EmitFor ==
  /\ Emitting({"for"})
  /\ LET n == prog[Here].n
     IN  /\ marks' = <<Mark(facts, slots, log)>> \o marks
         /\ slots' = [slots EXCEPT ![n] = Here]
         /\ facts' = KilledAll(facts, {n} \cup LoopWrites(Here))
  /\ EmittedWith(facts', slots')
  /\ UNCHANGED log

EmitForExit ==
  /\ Emitting({"endfor"})
  /\ EmittedWith(facts, slots)
  /\ LET n == prog[OpenOf(Here)].n
     IN  facts' = [facts EXCEPT ![n] = Head(marks).facts[n]] /\ slots' = [slots EXCEPT ![n] = Head(marks).slots[n]]
  /\ marks' = Tail(marks)
  /\ UNCHANGED log

\* All is emitted; the program starts on any input.
EmitEnd ==
  /\ stage = "emit" /\ Here = Len(prog) + 1
  /\ EmittedWith(facts, slots)
  /\ stage' = "run" /\ node' = 1
  /\ \E input \in [Outer -> Word] :
       env' = [v \in Variable |-> IF v[1] \in Outer /\ v[2] = 0 THEN input[v[1]] ELSE 0]
  /\ UNCHANGED <<written, facts, slots, log, marks>>

-----------------------------------------------------------------------------
(* Guards *)

RangeOf(F, a) == IF a \in Name THEN F[a] ELSE Point(a)
\* A literal operand makes the operation exact (emit_checked_iadd, isub, imul).
Exact(f, a, b) ==
  \/ f = "add" /\ 0 \in {a, b}
  \/ f = "sub" /\ b = 0
  \/ f = "mul" /\ {a, b} \cap {0, 1} # {}
Fitting(f, r, s) ==
  /\ r # NoRange /\ s # NoRange
  /\ NoRange # CASE f = "add" -> CheckedAdd(r, s) [] f = "sub" -> CheckedSub(r, s)
                 [] f = "mul" -> CheckedMul(r, s)
\* emit_div_guard leaves out the check for an overflow.
SafeDivision(a, b, r) ==
  \/ b \notin Name \cup {0, -1}
  \/ r # NoRange /\ r.lo > Low
\* Whether token t is emitted without its overflow guard, where F holds.
Unguarded(t, F) ==
  LET r == RangeOf(F, t.a)
      s == RangeOf(F, t.b)
  IN  IF t.f = "div" THEN SafeDivision(t.a, t.b, r) ELSE Fitting(t.f, r, s) \/ Exact(t.f, t.a, t.b)

-----------------------------------------------------------------------------
(* The program runs *)

Var(n)   == <<n, code[node].slots[n]>>
Value(a) == IF a \in Name THEN env[Var(a)] ELSE a

Quotient(a, b) ==
  LET q == (IF a < 0 THEN -a ELSE a) \div (IF b < 0 THEN -b ELSE b)
  IN  IF (a < 0) = (b < 0) THEN q ELSE -q
Wrapped(r) == Low + ((r - Low) % (High - Low + 1))
DividesByZero(t) == t.f = "div" /\ Value(t.b) = 0
Result(t) ==
  CASE t.f = "add" -> Value(t.a) + Value(t.b)
    [] t.f = "sub" -> Value(t.a) - Value(t.b)
    [] t.f = "mul" -> Value(t.a) * Value(t.b)
    [] t.f = "div" -> Quotient(Value(t.a), Value(t.b))

\* An arm that runs off its end goes to the end of the construct.
Land(i) == IF i \in Positions(Splits) THEN EndOf(i) ELSE i
Goto(i) == node' = Land(i) /\ UNCHANGED stage
Running(ops) ==
  /\ stage = "run" /\ node \in Positions(ops)
  /\ UNCHANGED <<written, emitted>>
Stop == stage' = "ended" /\ UNCHANGED <<node, env>>

RunSet ==
  /\ Running({"set"})
  /\ LET t == prog[node]
         r == Result(t)
         panics == DividesByZero(t) \/ (r \notin Word /\ ~Unguarded(t, code[node].facts))
     IN  IF panics THEN Stop
         ELSE env' = [env EXCEPT ![Var(t.n)] = Wrapped(r)] /\ Goto(node + 1)

RunInout ==
  /\ Running({"inout"})
  /\ \E v \in Word : env' = [env EXCEPT ![Var(prog[node].n)] = v]
  /\ Goto(node + 1)

RunDecl ==
  /\ Running({"decl"})
  /\ \E v \in Word : env' = [env EXCEPT ![<<prog[node].n, node>>] = v]
  /\ Goto(node + 1)

True(c) == IF c.swapped THEN Holds(c.rel, c.k, Value(c.n)) ELSE Holds(c.rel, Value(c.n), c.k)
RunCond ==
  /\ Running({"if", "elif", "while"})
  /\ LET c     == prog[node].cond
         after == IF prog[node].op = "while" THEN EndOf(node) + 1 ELSE ArmEnd(node)
         to(b) == IF b THEN Goto(node + 1)
                  ELSE node' = (IF prog[node].op = "while" THEN Land(after) ELSE after) /\ UNCHANGED stage
     IN  IF c.rel \in Relation THEN to(True(c)) /\ UNCHANGED env
         ELSE \E b \in BOOLEAN, v \in Word : to(b) /\ env' = [env EXCEPT ![Var(c.n)] = v]

\* The bounds of a for are any: it may run its body once more, or not.
RunFor ==
  /\ Running({"for"})
  /\ \/ \E v \in Word : env' = [env EXCEPT ![<<prog[node].n, node>>] = v] /\ Goto(node + 1)
     \/ UNCHANGED env /\ Goto(EndOf(node) + 1)

RunMark ==
  /\ Running({"else"} \cup Closes)
  /\ IF prog[node].op \in {"endwhile", "endfor"} THEN node' = OpenOf(node) /\ UNCHANGED stage
     ELSE Goto(node + 1)
  /\ UNCHANGED env

RunJump ==
  /\ Running(Jumps)
  /\ CASE prog[node].op = "return"   -> Stop
       [] prog[node].op = "break"    -> Goto(EndOf(LoopOf(node)) + 1) /\ UNCHANGED env
       [] prog[node].op = "continue" -> node' = LoopOf(node) /\ UNCHANGED <<stage, env>>

RunEnd == stage = "run" /\ node = Len(prog) + 1 /\ Stop /\ UNCHANGED <<written, emitted>>
Ended  == stage = "ended" /\ UNCHANGED vars

Init ==
  /\ stage = "write" /\ prog = <<>> /\ stack = <<>> /\ live = TRUE /\ dead = {}
  /\ facts = [n \in Name |-> NoRange] /\ slots = [n \in Name |-> 0]
  /\ log = <<>> /\ marks = <<>> /\ code = <<>> /\ node = 0 /\ env = [v \in Variable |-> 0]

Next ==
  \/ \E t \in Text : WritePlain(t) \/ WriteJump(t) \/ WriteOpen(t) \/ WriteSplit(t)
  \/ WriteClose \/ WriteEnd
  \/ EmitWrite \/ EmitDecl \/ EmitJump \/ EmitIf \/ EmitElif \/ EmitElse \/ EmitJoin \/ EmitNoJoin
  \/ EmitWhile \/ EmitWhileExit \/ EmitFor \/ EmitForExit \/ EmitEnd
  \/ RunSet \/ RunInout \/ RunDecl \/ RunCond \/ RunFor \/ RunMark \/ RunJump \/ RunEnd \/ Ended

Spec == Init /\ [][Next]_vars

-----------------------------------------------------------------------------
(* Properties *)

Fact == IntRange \cup {NoRange}
TypeOK ==
  /\ \A k \in Positions({"set"}) : prog[k] \in Text
  /\ facts \in [Name -> Fact] /\ slots \in [Name -> 0 .. MaxLen]
  /\ \A k \in DOMAIN code : code[k].facts \in [Name -> Fact] /\ code[k].slots \in [Name -> 0 .. MaxLen]
  /\ env \in [Variable -> Word]
  /\ stage = "run" => node \in DOMAIN code

\* Every range in the table is one of ints and holds of the binding's value, on every
\* execution that reaches the point it is consulted at (ranges.rs, "Soundness rule").
FactsHold ==
  TypeOK /\ (stage = "run" =>
    \A n \in Name : LET r == code[node].facts[n] IN r # NoRange => Within(env[Var(n)], r))

\* An operation that is emitted without its guard never leaves the ints
\* (specification, checked arithmetic).
GuardsKept ==
  stage = "run" /\ node \in Positions({"set"}) =>
    LET t == prog[node]
    IN  Unguarded(t, code[node].facts) /\ ~DividesByZero(t) => Result(t) \in Word

\* A name is emitted as the variable that its scope says it is, after any
\* sequence of scopes opened, left and jumped out of.
NamesResolved ==
  \A i \in DOMAIN code \ {Len(prog) + 1} :
    \A n \in Used(prog[i]) : code[i].slots[n] = Means(n, i)
=============================================================================
