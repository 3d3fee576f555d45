------------------------- MODULE CleanupValidation -------------------------
(***************************************************************************)
(* The validator a debug build runs over every schedule                    *)
(* (src/ryo-frontend/src/ownership/cleanup_validation.rs and its events):  *)
(* what discharges the buffer of a binding, on the paths of the            *)
(* control-flow graph, instead of in an execution as DropSchedule has it.  *)
(*                                                                         *)
(* A point is a block and a number of its steps: the place between two     *)
(* steps, or at the block's terminator.  Every position resolves exactly   *)
(* here, there are no views and no promoted copies, and a verdict stands   *)
(* for the panic it would be.                                              *)
(***************************************************************************)
EXTENDS DropSchedule

VARIABLE verdict      \* what the validator holds against the schedule

judged == <<all, verdict>>

-----------------------------------------------------------------------------
(* Blocks, steps and points.  The arm an if without an else lacks is a block *)
(* of its own, named by the if, negated.                                     *)

\* Steps of a node: a store evaluates its value, then it stores.
StepsAt(i) ==
  CASE i \notin 1 .. Len(prog)             -> 0
    [] prog[i].op \in {"decl", "assign"}   -> 2
    [] prog[i].op \in {"call", "if", "elif", "while", "return"} -> 1
    [] OTHER                               -> 0

Point(b, k) == [block |-> b, ord |-> k]

BlockNodes(b)  == {i \in Nodes : Leader(i) = b}
StepsBefore(i) == SX!FoldLeft(LAMBDA n, j : n + StepsAt(j), 0,
                              [k \in 1 .. i - Leader(i) |-> Leader(i) + k - 1])
PastStep(i, k) == Point(Leader(i), StepsBefore(i) + k)
LastNode(b)    == Before(BlockNodes(b))
BlockLen(b)    == IF b < 0 THEN 0 ELSE StepsBefore(LastNode(b)) + StepsAt(LastNode(b))
Terminator(i)  == Point(Leader(i), BlockLen(Leader(i)))

\* The block that control enters when it leaves node i for node j.
Entering(i, j) ==
  IF j \in 1 .. Len(prog) /\ prog[j].op = "endif" /\ prog[i].op \in {"if", "elif"}
  THEN -Before(OpenOf(j)) ELSE j
\* Mutant: an if without an else is taken for one of its arms.
BlockSuccArms(b) ==
  IF b < 0 THEN EndOf(-b)
  ELSE {s \in {Entering(LastNode(b), j) : j \in flow.succ[LastNode(b)]} : s >= 0}
BlockSucc(b) ==
  IF b < 0 THEN EndOf(-b) ELSE {Entering(LastNode(b), j) : j \in flow.succ[LastNode(b)]}

\* A jump back to a loop's test starts another iteration.
Forward(b) == {s \in BlockSucc(b) : s < 0 \/ b < 0 \/ s > LastNode(b)}

\* What is found from S in a graph given by its successors.
Found(S, succ) ==
  LET found[k \in Nat] == IF k = 0 THEN S
                          ELSE LET R == found[k - 1] IN R \cup UNION {succ[i] : i \in R}
  IN  found[Cardinality(DOMAIN succ)]

AllBlocks == {Leader(i) : i \in Nodes} \cup {-i : i \in {j \in DOMAIN prog : prog[j].op = "if"}}

\* The blocks that can be reached, how long each is, where it leads, and which
\* of them a loop comes back to (block_on_cycle).
Layout ==
  LET succ   == [b \in AllBlocks |-> BlockSucc(b)]
      blocks == Found({0}, succ)
  IN  [succ |-> [b \in blocks |-> succ[b]],
       ahead |-> [b \in blocks |-> Forward(b)],
       len   |-> [b \in blocks |-> BlockLen(b)],
       loops |-> {b \in blocks : b \in Found(succ[b], succ)}]

Blocks(G) == DOMAIN G.succ      \* reachable_blocks
Points(G) == UNION {{Point(b, k) : k \in 0 .. G.len[b]} : b \in Blocks(G)}
Exits(G)  == {b \in Blocks(G) : G.succ[b] = {}}

\* From point to point, each path ending at the points of `stops`.
Paths(G, succ, stops) ==
  [p \in Points(G) |->
     IF p \in stops THEN {}
     ELSE IF p.ord = G.len[p.block] THEN {Point(s, 0) : s \in succ[p.block]}
     ELSE {Point(p.block, p.ord + 1)}]

-----------------------------------------------------------------------------
(* Events: what releases the buffer of a binding, or hands it to another.    *)
(* One group of places for each binding: no two of them share an owner.      *)

Event(at, kind, o) == [at |-> at, kind |-> kind, target |-> o]

\* position_points
PointsOf(d) ==
  LET i == d.at
  IN  IF d.kind = "start" THEN {Point(Entering(i[1], i[2]), 0)}
      ELSE IF d.kind = "read" THEN {Terminator(i)}
      ELSE CASE prog[i].op = "if"   -> IF SimpleArm(i) THEN {Point(e, 0) : e \in EndOf(i)} ELSE {}
           [] prog[i].op = "while" -> {Point(e, 0) : e \in EndOf(i)}
           [] prog[i].op \in {"return", "break", "continue"} -> {Terminator(i)}
           [] OTHER -> {PastStep(i, StepsAt(i))}

DropsOf(D, n) == {k \in DOMAIN D : D[k].target[1] = n}     \* their positions
Destroys(D, n) ==
  UNION {{Event(p, "Destroy", D[k].target) : p \in PointsOf(D[k])} : k \in DropsOf(D, n)}

Displacements(n) ==
  {Event(PastStep(t[1], 1), "Displace", t[2]) : t \in {u \in out.displaced : prog[u[1]].n = n}}

TransferKind(i) == IF prog[i].op = "return" THEN "TransferReturn" ELSE "TransferCall"
Transfers(n) ==
  {Event(IF prog[t[1]].op = "return" THEN Terminator(t[1]) ELSE PastStep(t[1], 1),
         TransferKind(t[1]), t[2]) :
     t \in {u \in out.transfers : u[2][1] = n /\ prog[u[1]].op \in {"call", "return"}}}

\* An inout parameter is written back at every exit.
WriteBacks(G, n) ==
  IF n \in InoutParam THEN {Event(Point(b, G.len[b]), "WriteBack", Home(n)) : b \in Exits(G)} ELSE {}

\* collect_events
EventsOf(G, D, n) ==
  Destroys(D, n) \cup Displacements(n) \cup Transfers(n) \cup WriteBacks(G, n)
Reached(G, E) == {e \in E : e.at.block \in Blocks(G)}

IsRelease(e) == e.kind \in {"Destroy", "Displace"}

-----------------------------------------------------------------------------
(* validate_no_path_double_destruction: no path goes from an event to        *)
(* another one of the same buffer, unless codegen takes them for one.        *)

\* Where a buffer ends its stay in the home: at any assignment; coverage goes
\* by those where the walk has it released (generation_table).
Reseats(n) == {PastStep(i, 1) : i \in {j \in Writes(n) : prog[j].op = "assign"}}
Cuts(n)    == {PastStep(i, 1) : i \in Reassigns(n)}

\* One release per block visit: codegen skips a target it has released there.
SameVisit(G, e, f) ==
  /\ IsRelease(e) /\ IsRelease(f) /\ e.target = f.target
  /\ e.at.block = f.at.block /\ e.at.block \notin G.loops
Clash(G, e, f) == (IsRelease(e) \/ IsRelease(f)) /\ e # f /\ ~SameVisit(G, e, f)

\* The end of a block ends no value.
DoublyDischarged(G, events, n) ==
  LET E     == Reached(G, events)
      cuts  == {p \in Reseats(n) : p.block \in Blocks(G) /\ p.ord < G.len[p.block]}
      paths == Paths(G, G.ahead, cuts)
  IN  \E e \in E : LET down == Found(paths[e.at], paths)
                   IN  \E f \in E : f.at \in down /\ Clash(G, e, f)

-----------------------------------------------------------------------------
(* validate_path_coverage: from every place where a buffer is established,   *)
(* each path has an event of it before it ends or the buffer is replaced.    *)

\* must_fixup, covered_from: no path goes from p to an exit, or to a place
\* where the buffer is replaced, without an event of it.
Bare(G, E, cuts, p) ==
  LET at   == {e.at : e \in E}
      seenFrom == Found({p}, Paths(G, G.succ, at \cup cuts)) \ at
  IN  \E q \in seenFrom : q \in cuts \/ (q.block \in Exits(G) /\ q.ord = G.len[q.block])

\* A value that is produced, a binding that is initialized, a parameter.
Obligations(G, n) ==
  {p \in {PastStep(i, 1) : i \in Writes(n)}
         \cup {PastStep(i, 2) : i \in DeclOf(n)}
         \cup (IF n \in Param THEN {Point(0, 0)} ELSE {}) : p.block \in Blocks(G)}

\* What coverage looks at: bindings with an event, and those the lattice has a
\* record of at the end, if their buffers are this function's to discharge.
Checked(n, E) ==
  \/ E # {}
  \/ n \notin Param \ MoveParam /\ \E o \in Owner : o[1] = n /\ own.st[o] # "NotTracked"

Leaks(G, E, n) == \E p \in Obligations(G, n) : Bare(G, E, Cuts(n), p)

-----------------------------------------------------------------------------
(* validate_cleanup, at the end of finalize_cleanup: what the validator says *)
(* of each binding, "unseen" where coverage does not look at it.             *)

Verdict(D) ==
  LET G == Layout
      E == [n \in Name |-> EventsOf(G, D, n)]
      checked == {n \in Name : Checked(n, E[n])}
  IN  {<<"double", n>> : n \in {m \in Name : DoublyDischarged(G, E[m], m)}}
      \cup {<<"leak", n>> : n \in {m \in checked : Leaks(G, E[m], m)}}
      \cup {<<"unseen", n>> : n \in Name \ checked}

InitChecked == InitAll /\ verdict = {}
CleanAndValidate == Clean /\ verdict' = Verdict(drops')
NextChecked ==
  \/ StepAll /\ UNCHANGED verdict
  \/ CleanAndValidate
SpecChecked == InitChecked /\ [][NextChecked]_judged

-----------------------------------------------------------------------------
(* Properties *)

\* If coverage has looked at a binding and found no leak, then at every exit
\* each buffer of it has been released, moved out or returned, and what an
\* inout parameter holds goes back to the caller alive: what the validator
\* accepts leaks in no execution, whatever the body (validate_path_coverage).
LeakSound ==
  stage = "exit" =>
     /\ \A b \in alive \ {held[q] : q \in InoutParam} :
          {<<"leak", made[b][1]>>, <<"unseen", made[b][1]>>} \cap verdict # {}
     /\ \A q \in InoutParam : held[q] \in alive

\* The schedule of a body the walk accepts has nothing released twice on a
\* path, and nothing left over either if no jump leaves a loop and no arm of an
\* if returns or gives a value away: a debug build takes it
\* (validate_no_path_double_destruction and coverage).
Kinds   == {v[1] : v \in verdict}
Parts(tok) == tok.op = "return" \/ (tok.op = "call" /\ MovedBy(tok) # {})
Uniform ==
  /\ \A i \in DOMAIN prog : prog[i].op \notin {"break", "continue"}
  /\ \A b, k \in DOMAIN prog : prog[b].op = "if" /\ Contains(b, k) => ~Parts(prog[k])
SchedulesValidate == "double" \notin Kinds /\ (Uniform => "leak" \notin Kinds)
=============================================================================
