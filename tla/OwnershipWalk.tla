---------------------------- MODULE OwnershipWalk ----------------------------
(***************************************************************************)
(* The forward walk of the ownership pass                                  *)
(* (src/ryo-frontend/src/ownership/walk.rs, walk/cascades.rs, merge.rs,    *)
(* loops/mod.rs, transfers.rs) over one function body, followed by the     *)
(* execution of every body the walk accepts.                               *)
(*                                                                         *)
(* A body is a sequence of tokens: bindings, calls and returns, and the    *)
(* brackets of if/elif/else and while.  The next token is chosen the first *)
(* time the walk gets to it, so a run of the model is a body together with *)
(* its walk.  Conditions are opaque.  An owner is a Flow place: the home   *)
(* of a binding or the temporary a statement produces (mod.rs 416-435).    *)
(***************************************************************************)
EXTENDS Integers, Sequences, FiniteSets

CONSTANTS
  Outer,        \* `mut` locals declared just before the body modelled here
  Inner,        \* locals the body itself declares
  MoveParam, BorrowParam, InoutParam,   \* parameters, by their mode
  Fresh,        \* the initializer or return operand that is a new value
  NoOwner,      \* a home nothing is seated in yet
  Text,         \* the tokens a body may be written with
  MaxLen,       \* bound: tokens in a body
  MaxDepth      \* bound: nesting of if and while

Param  == MoveParam \cup BorrowParam \cup InoutParam
Name   == Outer \cup Inner \cup Param
Owner  == Name \X (-1 .. MaxLen)
State  == {"NotTracked", "Valid", "Borrowed", "Moved"}
Source == Name \cup {Fresh}
Mode   == {"Borrow", "Move", "Inout"}
Arg    == [n : Name, mode : Mode]
Code   == {"UseAfterMove", "MoveOutOfBorrowedParam", "ReturnBorrowedValue",
           "MutableAliasingViolation", "MoveWhileBorrowedInCall"}

\* What a statement does to owners; every other expression is left out.
Token == [op : {"decl", "assign"}, n : Name, src : Source]
    \cup [op : {"call"}, args : Seq(Arg)]
    \cup [op : {"return"}, src : Source]
    \cup [op : {"if", "elif", "else", "endif", "while", "endwhile",
                "break", "continue"}]

ASSUME NamesAssumption ==
  /\ MaxLen \in Nat /\ MaxDepth \in Nat
  /\ Fresh \notin Name
  /\ NoOwner \notin Owner
  /\ Text \subseteq Token
  /\ Outer \cap (Inner \cup Param) = {} /\ Inner \cap Param = {}
  /\ MoveParam \cap (BorrowParam \cup InoutParam) = {}
  /\ BorrowParam \cap InoutParam = {}

Home(n)    == <<n, -1>>     \* the storage of the binding itself
TempAfter(n, i) == <<n, i + 1>>     \* mutant: minted one token late
Temp(n, i) == <<n, i>>      \* the value token i produced for n; 0: Outer's first

\* The part of the lattice a branch snapshots, restores and merges.
Lattice == [st : [Owner -> State], cur : [Name -> Owner \cup {NoOwner}]]

\* What the walk reports: diagnostics, transfers and the two drop schedules.
Output  == [diags : SUBSET (Nat \X Code), transfers : SUBSET (Nat \X Owner),
            displaced : SUBSET (Nat \X Owner), armDrops : SUBSET (Nat \X Owner)]
NoOutput == [diags |-> {}, transfers |-> {}, displaced |-> {}, armDrops |-> {}]

ArmEnd == [own : Lattice, falls : BOOLEAN, last : Nat]
Frame  == [kind : {"if", "while"}, at : Nat, snap : Lattice,
           arms : Seq(ArmEnd), hasElse : BOOLEAN,
           entry : Lattice, phase : {"propagate", "check"}, flows : BOOLEAN,
           saved : Output]

VARIABLES
  prog,     \* the tokens read so far
  phase,    \* "walk", then "run" if the body was accepted, else "rejected"
  pc,       \* the next token, of the walk and then of the execution
  own,      \* the lattice
  live,     \* the current block can be reached
  last,     \* the last instruction of the arm being walked, 0 for none
  stack,    \* the open constructs, innermost first
  out,      \* the current sink and sidecar
  slots     \* the execution: what each binding's storage holds

vars == <<prog, phase, pc, own, live, last, stack, out, slots>>

-----------------------------------------------------------------------------
(* Lattice operations *)

InitOwn ==
  [st  |-> [o \in Owner |->
              CASE o[1] \in Outer /\ o[2] = 0                        -> "Valid"
                [] o[1] \in MoveParam /\ o[2] = -1                   -> "Valid"
                [] o[1] \in BorrowParam \cup InoutParam /\ o[2] = -1 -> "Borrowed"
                [] OTHER                                             -> "NotTracked"],
   cur |-> [n \in Name |-> CASE n \in Outer -> Temp(n, 0)
                             [] n \in Param -> Home(n)
                             [] OTHER       -> NoOwner]]

Underlying(w, n) == IF w.cur[n] = NoOwner THEN Home(n) ELSE w.cur[n]

\* A value seated in an inout parameter leaves through the write-back pointer.
EscapesInout(w, o) == \E q \in InoutParam : w.cur[q] = o

StateOnly(w, o) == w.st[o]      \* mutant: the write-back is forgotten
Consumable(w, o) ==
  IF w.st[o] = "Valid" /\ EscapesInout(w, o) THEN "Borrowed" ELSE w.st[o]

\* consume_underlying on the value n reads: the new lattice, ...
Consume(w, n) ==
  LET o == Underlying(w, n)
  IN  IF Consumable(w, o) = "Valid" THEN [w EXCEPT !.st[o] = "Moved"] ELSE w

\* ... the diagnostics, where `code` is what a borrowed operand earns, ...
ConsumeDiags(w, n, i, code) ==
  LET s == Consumable(w, Underlying(w, n))
  IN  CASE s = "Borrowed" -> {<<i, code>>}
        [] s = "Moved"    -> {<<i, "UseAfterMove">>}
        [] OTHER          -> {}

\* ... and the Move hazard, logged when the consume lands.
ConsumeTransfers(w, n, i) ==
  LET o == Underlying(w, n)
  IN  IF Consumable(w, o) = "Valid" THEN {<<i, o>>} ELSE {}

\* rebind_to_init: the initializer expression's own place is seated, Valid.
Rebind(w, n, place) ==
  [st |-> [w.st EXCEPT ![place] = "Valid"], cur |-> [w.cur EXCEPT ![n] = place]]

\* Observations are functions from positions; the earliest one has the say.
Least(S)      == CHOOSE i \in S : \A j \in S : i <= j
AnyMoved(obs) == \E k \in DOMAIN obs : obs[k] = "Moved"
Tracked(obs)  == {k \in DOMAIN obs : obs[k] # "NotTracked"}

\* merge_states_any_moved_wins, applied to the observations in order: an
\* absent (NotTracked) entry is replaced, a present one is kept.
FirstTracked(obs) ==
  IF Tracked(obs) = {} THEN "NotTracked" ELSE obs[Least(Tracked(obs))]
JoinStates(obs) == IF AnyMoved(obs) THEN "Moved" ELSE FirstTracked(obs)

\* merge_current_owner_first_wins over the observations in order.
Seated(obs)    == {k \in DOMAIN obs : obs[k] # NoOwner}
FirstSeat(obs) == IF Seated(obs) = {} THEN NoOwner ELSE obs[Least(Seated(obs))]

\* The plain join of lattices by position: `sides` give states, `all` seats.
JoinLattices(sides, all) ==
  [st  |-> [o \in Owner |-> JoinStates([k \in DOMAIN sides |-> sides[k].st[o]])],
   cur |-> [n \in Name |-> FirstSeat([k \in DOMAIN all |-> all[k].cur[n]])]]

\* binding_state_writes: the state of the binding n across the sides, each
\* read through the owner that side left seated in n.  Mutant: the first side
\* has the say even when another one moved the value.
FirstSide(pre, sides, n) ==
  LET k == Least(DOMAIN sides)
  IN  sides[k].st[IF sides[k].cur[n] = NoOwner THEN pre[n] ELSE sides[k].cur[n]]
BindingState(pre, sides, n) ==
  LET obs == [k \in DOMAIN sides |->
                sides[k].st[IF sides[k].cur[n] = NoOwner THEN pre[n]
                                                         ELSE sides[k].cur[n]]]
  IN  IF AnyMoved(obs) THEN "Moved" ELSE obs[Least(DOMAIN obs)]

\* The binding-aware override.  Two homes may share an owner, and the map of
\* homes is iterated in hash order: any of their writes may be the last one.
Overrides(w, pre, sides) ==
  LET seated == {pre[n] : n \in {m \in Name : pre[m] # NoOwner}}
  IN  {[w EXCEPT !.st = [o \in Owner |-> IF o \in seated
                                         THEN BindingState(pre, sides, pick[o])
                                         ELSE w.st[o]]] :
         pick \in {f \in [seated -> Name] : \A o \in seated : pre[f[o]] = o}}

\* merge_branches: only arms that reach the join give states, all give seats;
\* the snapshot is observed first.
Falling(arms)   == {k \in DOMAIN arms : arms[k].falls}
Ends(arms, S)   == [k \in S |-> arms[k].own]
From(snap, fcn) == [k \in {0} \cup DOMAIN fcn |-> IF k = 0 THEN snap ELSE fcn[k]]

MergeBranches(snap, arms) ==
  LET sides == Ends(arms, Falling(arms))
      plain == JoinLattices(From(snap, sides), From(snap, Ends(arms, DOMAIN arms)))
  IN  IF Falling(arms) = {} THEN {plain} ELSE Overrides(plain, snap.cur, sides)

\* merge_loop_plain: when no path of the body comes back or breaks out, the
\* Moved entries of its end state are dropped.
ForgetMoved(w) ==
  [w EXCEPT !.st = [o \in Owner |-> IF @[o] = "Moved" THEN "NotTracked" ELSE @[o]]]
AfterOnly(entry, after, flows) == after     \* mutant: not joined with the entry
MergeLoopPlain(entry, after, flows) ==
  LET side == IF flows THEN after ELSE ForgetMoved(after)
  IN  JoinLattices(<<entry, side>>, <<entry, side>>)

\* The override of a loop join, when the end state reaches the join at all.
LoopOverrides(w, entry, after, flows) ==
  IF flows THEN Overrides(w, entry.cur, <<entry, after>>) ELSE {w}

-----------------------------------------------------------------------------
(* The shape of a body *)

Openers  == {"if", "while"}
Siblings == {"elif", "else"}
Closers  == {"endif", "endwhile"}

\* Nesting level of token i: a bracket stands at the level outside it.
Level(i) ==
    Cardinality({j \in 1 .. i - 1 : prog[j].op \in Openers})
  - Cardinality({j \in 1 .. i : prog[j].op \in Closers})
  - (IF prog[i].op \in Siblings THEN 1 ELSE 0)

\* The bracket that closes a construct, the one that opens it, its other arms,
\* and the loop around a token: sets of one position, of several for the arms.
After(i, ops) == {j \in i + 1 .. Len(prog) : prog[j].op \in ops /\ Level(j) = Level(i)}
First(S)      == {i \in S : \A j \in S : i <= j}
Last(S)       == {i \in S : \A j \in S : i >= j}
EndOf(i)      == First(After(i, Closers))
ArmsOf(i)     == {j \in After(i, Siblings) : \A e \in EndOf(i) : j < e}
OpenOf(i)     == Last({j \in 1 .. i - 1 : prog[j].op \in Openers /\ Level(j) = Level(i)})
LoopOf(i)     == Last({j \in 1 .. i - 1 : prog[j].op = "while" /\ \A e \in EndOf(j) : e > i})

\* A name sema resolves at the token being written: a parameter, an outer
\* local, or an inner local whose declaring block is still open.
Visible(n) ==
  \/ n \notin Inner
  \/ \E j \in 1 .. Len(prog) :
       /\ prog[j].op = "decl" /\ prog[j].n = n
       /\ \A k \in j .. Len(prog) : Level(k) >= Level(j)

Reads(tok) ==
  CASE tok.op \in {"decl", "assign", "return"} -> {tok.src} \ {Fresh}
    [] tok.op = "call" -> {tok.args[k].n : k \in DOMAIN tok.args}
    [] OTHER -> {}

Innermost(kind) == stack # <<>> /\ Head(stack).kind = kind

\* Sema's rules and the grammar: what may be written next.
Legal(tok) ==
  /\ \A n \in Reads(tok) : Visible(n)
  /\ tok.op = "decl" => /\ tok.n \in Inner
                        /\ \A j \in 1 .. Len(prog) :
                             prog[j].op = "decl" => prog[j].n # tok.n
  /\ tok.op = "assign" => tok.n \notin MoveParam \cup BorrowParam /\ Visible(tok.n)
  /\ tok.op \in Siblings \cup {"endif"} =>
       Innermost("if") /\ (tok.op # "endif" => ~Head(stack).hasElse)
  /\ tok.op = "endwhile" => Innermost("while")
  /\ tok.op \in Siblings \cup Closers => prog[Len(prog)].op \notin Openers \cup Siblings
  /\ tok.op \notin Siblings \cup Closers => live
  /\ tok.op \in {"break", "continue"} => \E k \in DOMAIN stack : stack[k].kind = "while"
  /\ tok.op \in Openers => Len(stack) < MaxDepth
  /\ \* room is left for the body of an opener and for every closer
     Len(prog) + 1 + Len(stack)
       + (CASE tok.op \in Openers -> 2 [] tok.op \in Siblings -> 1
            [] tok.op \in Closers -> -1 [] OTHER -> 0) <= MaxLen

-----------------------------------------------------------------------------
(* The walk *)

Init ==
  /\ prog = <<>> /\ phase = "walk" /\ pc = 1
  /\ own = InitOwn
  /\ live = TRUE /\ last = 0 /\ stack = <<>>
  /\ out = NoOutput
  /\ slots = [n \in Name |-> IF n \in Inner THEN "undeclared" ELSE "live"]

\* The walk is at token tok: read before, or written now.
At(tok) ==
  /\ phase = "walk"
  /\ \/ pc <= Len(prog) /\ prog[pc] = tok /\ UNCHANGED prog
     \/ pc = Len(prog) + 1 /\ Legal(tok) /\ prog' = Append(prog, tok)

\* The operand is consumed and its own place seated in the binding.
Bind(tok, displaced) ==
  LET w == IF tok.src = Fresh THEN own ELSE Consume(own, tok.src)
      place == IF tok.src = Fresh THEN Temp(tok.n, pc) ELSE Home(tok.src)
  IN  /\ own' = Rebind(w, tok.n, place)
      /\ out' = [out EXCEPT
           !.diags = @ \cup (IF tok.src = Fresh THEN {}
                             ELSE ConsumeDiags(own, tok.src, pc, "MoveOutOfBorrowedParam")),
           !.transfers = @ \cup (IF tok.src = Fresh THEN {<<pc, place>>}
                                 ELSE ConsumeTransfers(own, tok.src, pc)),
           !.displaced = @ \cup displaced]
      /\ pc' = pc + 1 /\ last' = pc
      /\ UNCHANGED <<phase, live, stack, slots>>

\* analyze_var_decl on a tracked initializer
WalkDecl(tok) == tok.op = "decl" /\ At(tok) /\ Bind(tok, {})

\* analyze_assign: the value that is displaced must be freed if it is Valid, or
\* if it is the caller's value in an inout parameter.
SeatedOnly(n) == own.cur[n] # NoOwner       \* mutant: the state is not asked
Droppable(n) ==
  LET old == own.cur[n]
  IN  /\ old # NoOwner
      /\ own.st[old] = "Valid" \/ (own.st[old] = "Borrowed" /\ n \in InoutParam)

\* `s = s` while s holds the value: nothing happens.
SelfAssign(tok) ==
  Droppable(tok.n) /\ tok.src # Fresh /\ Underlying(own, tok.src) = own.cur[tok.n]

WalkSelfAssign(tok) ==
  /\ tok.op = "assign" /\ At(tok) /\ SelfAssign(tok)
  /\ pc' = pc + 1 /\ last' = pc
  /\ UNCHANGED <<phase, own, live, stack, out, slots>>

WalkAssign(tok) ==
  /\ tok.op = "assign" /\ At(tok) /\ ~SelfAssign(tok)
  /\ Bind(tok, IF Droppable(tok.n) THEN {<<pc, own.cur[tok.n]>>} ELSE {})

\* analyze_call: use-safety of what is borrowed, Rule 7 over the partition of
\* the argument owners, then the moves in argument order.
OwnersOf(tok, mode) ==
  {Underlying(own, tok.args[k].n) : k \in {j \in DOMAIN tok.args : tok.args[j].mode = mode}}

UseDiags(tok) ==
  {<<pc, "UseAfterMove">> : k \in {j \in DOMAIN tok.args :
     tok.args[j].mode # "Move" /\ own.st[Underlying(own, tok.args[j].n)] = "Moved"}}

InoutTwice(tok) ==
  \E j, k \in DOMAIN tok.args :
    /\ j # k /\ tok.args[j].mode = "Inout" /\ tok.args[k].mode = "Inout"
    /\ Underlying(own, tok.args[j].n) = Underlying(own, tok.args[k].n)

AliasDiags(tok) ==
  LET inout    == OwnersOf(tok, "Inout")
      borrowed == OwnersOf(tok, "Borrow")
      moved    == OwnersOf(tok, "Move")
  IN  (IF InoutTwice(tok) \/ inout \cap (borrowed \cup moved) # {}
       THEN {<<pc, "MutableAliasingViolation">>} ELSE {})
      \cup
      (IF borrowed \cap moved # {} THEN {<<pc, "MoveWhileBorrowedInCall">>} ELSE {})

\* A second move of one owner in one call meets the Moved state of the first.
MovesApart(tok) ==     \* mutant: every move sees the state before the call
  UNION {ConsumeDiags(own, tok.args[k].n, pc, "MoveOutOfBorrowedParam") :
           k \in {j \in DOMAIN tok.args : tok.args[j].mode = "Move"}}
MoveDiags(tok) ==
  UNION {LET n == tok.args[k].n
             again == \E j \in 1 .. k - 1 :
                        /\ tok.args[j].mode = "Move"
                        /\ Underlying(own, tok.args[j].n) = Underlying(own, n)
         IN  IF again /\ Consumable(own, Underlying(own, n)) = "Valid"
             THEN {<<pc, "UseAfterMove">>}
             ELSE ConsumeDiags(own, n, pc, "MoveOutOfBorrowedParam")
         : k \in {j \in DOMAIN tok.args : tok.args[j].mode = "Move"}}

WalkCall(tok) ==
  LET moved == {o \in OwnersOf(tok, "Move") : Consumable(own, o) = "Valid"}
  IN  /\ tok.op = "call" /\ At(tok)
      /\ own' = [own EXCEPT !.st = [o \in Owner |-> IF o \in moved THEN "Moved" ELSE @[o]]]
      /\ out' = [out EXCEPT
                   !.diags = @ \cup UseDiags(tok) \cup AliasDiags(tok) \cup MoveDiags(tok),
                   !.transfers = @ \cup {<<pc, o>> : o \in moved}]
      /\ pc' = pc + 1 /\ last' = pc
      /\ UNCHANGED <<phase, live, stack, slots>>

\* analyze_return
WalkReturn(tok) ==
  /\ tok.op = "return" /\ At(tok)
  /\ IF tok.src = Fresh THEN UNCHANGED <<own, out>>
     ELSE /\ own' = Consume(own, tok.src)
          /\ out' = [out EXCEPT
               !.diags = @ \cup ConsumeDiags(own, tok.src, pc, "ReturnBorrowedValue"),
               !.transfers = @ \cup ConsumeTransfers(own, tok.src, pc)]
  /\ live' = FALSE
  /\ pc' = pc + 1
  /\ UNCHANGED <<phase, last, stack, slots>>

\* A jump or a back edge makes every enclosing loop's body flow off its end.
Flowing(frames) ==
  [k \in DOMAIN frames |-> [frames[k] EXCEPT !.flows = @ \/ frames[k].kind = "while"]]

WalkJump(tok) ==
  /\ tok.op \in {"break", "continue"} /\ At(tok)
  /\ stack' = Flowing(stack)
  /\ live' = FALSE
  /\ pc' = pc + 1
  /\ UNCHANGED <<phase, own, last, out, slots>>

Opened(kind) ==
  [kind |-> kind, at |-> pc, snap |-> own, arms |-> <<>>, hasElse |-> FALSE,
   entry |-> own, phase |-> "propagate", flows |-> FALSE, saved |-> out]

\* analyze_if_cascade: every arm is walked from the snapshot.
WalkIf(tok) ==
  /\ tok.op = "if" /\ At(tok)
  /\ stack' = <<Opened("if")>> \o stack
  /\ last' = 0
  /\ pc' = pc + 1
  /\ UNCHANGED <<phase, own, live, out, slots>>

ThisArm == [own |-> own, falls |-> live, last |-> last]

WalkNextArm(tok) ==
  LET f == Head(stack)
  IN  /\ tok.op \in Siblings /\ At(tok) /\ Innermost("if")
      /\ stack' = <<[f EXCEPT !.arms = Append(@, ThisArm), !.hasElse = tok.op = "else"]>>
                  \o Tail(stack)
      /\ own' = f.snap /\ live' = TRUE /\ last' = 0
      /\ pc' = pc + 1
      /\ UNCHANGED <<phase, out, slots>>

\* The value a falling arm still holds and another falling arm moved is freed
\* after the arm's last instruction; an absent else has none.
MovedElsewhere(arms, k) ==
  {o \in Owner : /\ arms[k].own.st[o] = "Valid"
                 /\ \E j \in Falling(arms) : arms[j].own.st[o] = "Moved"}
ArmDrops(arms) ==
  UNION {{arms[k].last} \X MovedElsewhere(arms, k) :
           k \in {j \in Falling(arms) : arms[j].last # 0}}

WalkEndIf(tok) ==
  LET f == Head(stack)
      walked == Append(f.arms, ThisArm)
      arms == IF f.hasElse THEN walked
              ELSE Append(walked, [own |-> f.snap, falls |-> TRUE, last |-> 0])
  IN  /\ tok.op = "endif" /\ At(tok) /\ Innermost("if")
      /\ own' \in MergeBranches(f.snap, arms)
      /\ out' = [out EXCEPT !.armDrops = @ \cup ArmDrops(arms)]
      /\ live' = \E k \in DOMAIN arms : arms[k].falls
      /\ last' = f.at
      /\ stack' = Tail(stack)
      /\ pc' = pc + 1
      /\ UNCHANGED <<phase, slots>>

\* analyze_loop: the body is walked to a fixed point of its entry state with a
\* scratch sink and sidecar, then once more with the real ones.
WalkWhile(tok) ==
  /\ tok.op = "while" /\ At(tok)
  /\ stack' = <<Opened("while")>> \o stack
  /\ out' = NoOutput
  /\ pc' = pc + 1
  /\ UNCHANGED <<phase, own, live, last, slots>>

BodyFlows == Head(stack).flows \/ live

\* The body has been walked once more.
Repeated(f) == [f EXCEPT !.flows = BodyFlows]
StaleEntry(f, merged) == Repeated(f)         \* mutant: the entry is not updated
NextEntry(f, merged)  == [Repeated(f) EXCEPT !.entry = merged]

Propagate(tok) ==
  LET f == Head(stack)
      merged == MergeLoopPlain(f.entry, own, BodyFlows)
  IN  /\ tok.op = "endwhile" /\ At(tok) /\ Innermost("while") /\ f.phase = "propagate"
      /\ pc' = f.at + 1 /\ live' = TRUE
      /\ \/ /\ merged # f.entry
            /\ own' = merged
            /\ stack' = <<NextEntry(f, merged)>> \o Tail(stack)
            /\ out' = NoOutput
         \/ /\ merged = f.entry
            /\ own' \in LoopOverrides(merged, f.snap, own, BodyFlows)
            /\ stack' = <<[Repeated(f) EXCEPT !.phase = "check"]>> \o Tail(stack)
            /\ out' = f.saved
      /\ UNCHANGED <<phase, last, slots>>

\* What the check pass reports stays.  The mutant cuts the hazard log back to
\* where it was before the loop here, and not before the check pass.
CutTransfers(f, o) == [o EXCEPT !.transfers = f.saved.transfers]
KeptOutput(f, o)   == o

CheckedLoop(tok) ==
  LET f == Head(stack)
  IN  /\ tok.op = "endwhile" /\ At(tok) /\ Innermost("while") /\ f.phase = "check"
      /\ own' \in LoopOverrides(MergeLoopPlain(f.snap, own, BodyFlows), f.snap, own, BodyFlows)
      /\ stack' = (IF live THEN Flowing(Tail(stack)) ELSE Tail(stack))
      /\ out' = KeptOutput(f, out)
      /\ live' = TRUE /\ last' = f.at
      /\ pc' = pc + 1
      /\ UNCHANGED <<phase, slots>>

\* check: only a body without errors goes on to code generation.
WalkEnd ==
  /\ phase = "walk" /\ pc = Len(prog) + 1 /\ stack = <<>>
  /\ phase' = IF out.diags = {} THEN "run" ELSE "rejected"
  /\ pc' = 1
  /\ UNCHANGED <<prog, own, live, last, stack, out, slots>>

WalkToken(tok) ==
  \/ WalkDecl(tok) \/ WalkSelfAssign(tok) \/ WalkAssign(tok)
  \/ WalkCall(tok) \/ WalkReturn(tok) \/ WalkJump(tok)
  \/ WalkIf(tok) \/ WalkNextArm(tok) \/ WalkEndIf(tok)
  \/ WalkWhile(tok) \/ Propagate(tok) \/ CheckedLoop(tok)
Walk == (\E tok \in Text : WalkToken(tok)) \/ WalkEnd

-----------------------------------------------------------------------------
(* The execution of an accepted body *)

Running == phase = "run" /\ pc <= Len(prog)
Here    == prog[pc]

RunBind ==
  /\ Running /\ Here.op \in {"decl", "assign"}
  /\ slots' = [n \in Name |-> IF n = Here.n THEN "live"
                            ELSE IF n = Here.src THEN "moved" ELSE slots[n]]
  /\ pc' = pc + 1
  /\ UNCHANGED <<prog, phase, own, live, last, stack, out>>

MovedBy(tok) == {tok.args[k].n : k \in {j \in DOMAIN tok.args : tok.args[j].mode = "Move"}}

RunCall ==
  /\ Running /\ Here.op = "call"
  /\ slots' = [n \in Name |-> IF n \in MovedBy(Here) THEN "moved" ELSE slots[n]]
  /\ pc' = pc + 1
  /\ UNCHANGED <<prog, phase, own, live, last, stack, out>>

RunReturn ==
  /\ Running /\ Here.op = "return"
  /\ slots' = [n \in Name |-> IF n = Here.src THEN "moved" ELSE slots[n]]
  /\ phase' = "done"
  /\ UNCHANGED <<prog, pc, own, live, last, stack, out>>

\* Where control goes from a bracket or a jump, for either value of a condition.
Past(S) == {j + 1 : j \in S}
Targets(i) ==
  CASE prog[i].op = "if" ->
         {i + 1} \cup Past(ArmsOf(i))
         \cup (IF \E j \in ArmsOf(i) : prog[j].op = "else" THEN {} ELSE Past(EndOf(i)))
    [] prog[i].op \in Siblings   -> Past(EndOf(i))
    [] prog[i].op = "while"      -> {i + 1} \cup Past(EndOf(i))
    [] prog[i].op = "endwhile"   -> OpenOf(i)
    [] prog[i].op = "break"      -> UNION {Past(EndOf(j)) : j \in LoopOf(i)}
    [] prog[i].op = "continue"   -> LoopOf(i)
    [] OTHER                     -> {i + 1}

RunControl ==
  /\ Running /\ Here.op \notin {"decl", "assign", "call", "return"}
  /\ pc' \in Targets(pc)
  /\ UNCHANGED <<prog, phase, own, live, last, stack, out, slots>>

RunOffEnd ==
  /\ phase = "run" /\ pc = Len(prog) + 1
  /\ phase' = "done"
  /\ UNCHANGED <<prog, pc, own, live, last, stack, out, slots>>

Run == RunBind \/ RunCall \/ RunReturn \/ RunControl \/ RunOffEnd

Finished == phase \in {"rejected", "done"} /\ UNCHANGED vars

Next == Walk \/ Run \/ Finished
Spec == Init /\ [][Next]_vars
FairSpec == Spec /\ WF_vars(Walk)

-----------------------------------------------------------------------------
(* Properties *)

TypeOK ==
  /\ prog \in Seq(Token) /\ Len(prog) <= MaxLen /\ pc \in Nat \ {0} /\ last \in Nat
  /\ phase \in {"walk", "run", "rejected", "done"}
  /\ own \in Lattice
  /\ live \in BOOLEAN
  /\ stack \in Seq(Frame)
  /\ out \in Output
  /\ slots \in [Name -> {"undeclared", "live", "moved"}]

\* No execution of an accepted body reads, passes, moves or returns a binding
\* whose value has been moved out: check_use_moved and consume_underlying
\* report every use after a move, through joins, loops and reseats.
NoUseAfterMove ==
  Running => \A n \in Reads(Here) : slots[n] = "live"

\* A store that is scheduled to free the value it displaces finds a live value
\* there: free_on_reassign never frees a buffer that has been moved out.
DisplacesLiveValue ==
  Running /\ Here.op = "assign" /\ (\E o \in Owner : <<pc, o>> \in out.displaced)
    => slots[Here.n] = "live"

\* No execution of an accepted body ever moves a borrowed parameter out: the
\* value is the caller's (MoveOutOfBorrowedParam, ReturnBorrowedValue).
BorrowsKept == \A n \in BorrowParam : slots[n] = "live"

\* At every exit the caller gets a live value back through an inout parameter
\* (consume_underlying's write-back guard), and the borrowed ones are untouched.
InoutsReturned == phase = "done" => \A n \in InoutParam : slots[n] = "live"
CallerKeepsItsValues == BorrowsKept /\ InoutsReturned

\* Rule 7: what an accepted call moves, or takes `inout`, it gets only once.
ExclusiveArguments ==
  Running /\ Here.op = "call" =>
    \A j, k \in DOMAIN Here.args :
      j # k /\ Here.args[j].mode # "Borrow" => Here.args[j].n # Here.args[k].n

\* Every move an accepted body executes is in the transfer log the validator
\* and the backend work from (owner_hazards, truncated before a check pass).
TransfersLogged ==
  LET moved == CASE Here.op = "call" -> MovedBy(Here)
                 [] Here.op \in {"decl", "assign", "return"} -> {Here.src} \ {Fresh}
                 [] OTHER -> {}
  IN  Running /\ moved # {} /\ ~(Here.op = "assign" /\ Here.src = Here.n)
        => \E o \in Owner : <<pc, o>> \in out.transfers

\* What it is for the state b to be above a: Moved is kept, a state is only
\* gained, a home that is seated stays seated.
Ascends(a, b) ==
  /\ \A o \in Owner : a.st[o] = b.st[o] \/ a.st[o] = "NotTracked" \/ b.st[o] = "Moved"
  /\ \A n \in Name : a.cur[n] = b.cur[n] \/ a.cur[n] = NoOwner

\* The entry state of a loop only ascends while propagate_loop_entry iterates it
\* (the argument for its convergence, loops/mod.rs 215-232).
EntryAscends ==
  [][stack # <<>> /\ Len(stack') = Len(stack) => Ascends(Head(stack).entry, Head(stack').entry)]_vars

\* The walk of every body ends: analyze_loop converges, also for nested loops.
WalkTerminates == <>(phase # "walk")
=============================================================================
