---------------------------- MODULE DropSchedule ----------------------------
(***************************************************************************)
(* The drop schedule: where the ownership pass releases every buffer, and  *)
(* what the generated code then does with it.                              *)
(*                                                                         *)
(* The walk of OwnershipWalk runs first; this module adds what it records  *)
(* for cleanup (last uses, return epilogues, reseats), the control-flow    *)
(* graph, the passes that run after the walk (ownership/cleanup.rs,        *)
(* dead_stores.rs, exit_frees.rs, loops/), the choice of storage           *)
(* (ryo-core flow/cleanup.rs) and the execution of the emitted code        *)
(* (codegen/frees.rs, control.rs), buffer by buffer.                       *)
(*                                                                         *)
(* A body is a whole function whose bindings are initialized and assigned  *)
(* with new heap values only, so that no two bindings share an owner.      *)
(***************************************************************************)
EXTENDS OwnershipWalk

SX == INSTANCE SequencesExt

CONSTANTS
  MaxBuffers    \* bound: a loop is not entered again after that many buffers

ASSUME WholeBodyAssumption ==
  /\ Outer = {}
  /\ \A tok \in Text : tok.op \in {"decl", "assign"} => tok.src = Fresh
  /\ MaxBuffers \in Nat

VARIABLES
  seen,     \* what the walk has recorded for cleanup
  stage,    \* "walk", "clean", "run", "exit"; "none" for a rejected body
  flow,     \* the control-flow graph of an accepted body
  drops,    \* the schedule: a sequence of drops
  node,     \* the execution: the node it is at,
  made,     \* the producer of every buffer so far, in order,
  held,     \* the buffer in each binding's home, 0 for none,
  alive,    \* the buffers this function still has to release,
  spent,    \* the targets already released in this block visit,
  wrong     \* and what went wrong

cleanup == <<seen, stage, flow, drops>>
machine == <<node, made, held, alive, spent, wrong>>
all     == <<vars, cleanup, machine>>

-----------------------------------------------------------------------------
(* Statements and the constructs around them *)

IsParam(o)     == o[2] = -1
Before(S)      == IF S = {} THEN 0 ELSE CHOOSE i \in S : \A j \in S : i >= j
Contains(b, i) ==
  b = i \/ (b < i /\ prog[b].op \in Openers /\ \E e \in EndOf(b) : i < e)
Branches(i)    == {b \in 1 .. i - 1 : prog[b].op \in Openers /\ Contains(b, i)}
LoopsOf(i)     == {b \in Branches(i) : prog[b].op = "while"}
Arm(b, i)      == Cardinality({s \in ArmsOf(b) : s <= i})
DeclOf(n)      == {j \in 1 .. Len(prog) : prog[j].op = "decl" /\ prog[j].n = n}
Writes(n)      == {j \in 1 .. Len(prog) : prog[j].op \in {"decl", "assign"} /\ prog[j].n = n}
ReadsOf(n)     == {j \in 1 .. Len(prog) : n \in Reads(prog[j])}
OpsIn(b)       == {prog[k].op : k \in {j \in 1 .. Len(prog) : Contains(b, j)}}

\* collect_jump_path: what has been evaluated when control is at token j; of a
\* branch around j only the arm j stands in.
OnPath(j) ==
  {k \in 1 .. j : \A b \in Branches(k) \cap Branches(j) : Arm(b, k) = Arm(b, j)}

-----------------------------------------------------------------------------
(* The control-flow graph.  Its nodes are the tokens, 0 for the entry and    *)
(* Len(prog) + 1 for the end: an if or elif token evaluates its condition,   *)
(* endif is the join, while the loop test, endwhile the block after the loop *)

Nodes == 0 .. Len(prog) + 1

\* Where control goes after a statement: past the arms of an if, back to a loop.
After1(i) ==
  LET j == i + 1
  IN  IF j > Len(prog) THEN {j}
      ELSE CASE prog[j].op \in Siblings   -> EndOf(j)
             [] prog[j].op = "endwhile"   -> OpenOf(j)
             [] OTHER                     -> {j}

\* The condition after this one fails goes to the next arm, or to the join.
NextArm(i) ==
  LET arms == First({s \in After(i, Siblings) : \A e \in EndOf(i) : s < e})
  IN  IF arms = {} THEN EndOf(i) ELSE arms

Succ(i) ==
  CASE i = 0                          -> {1}
    [] i = Len(prog) + 1              -> {}
    [] prog[i].op \in {"if", "elif"}  -> {i + 1} \cup NextArm(i)
    [] prog[i].op = "else"            -> {i + 1}
    [] prog[i].op = "while"           -> {i + 1} \cup EndOf(i)
    [] prog[i].op = "break"           -> UNION {EndOf(l) : l \in LoopOf(i)}
    [] prog[i].op = "continue"        -> LoopOf(i)
    [] prog[i].op = "return"          -> {}
    [] OTHER                          -> After1(i)

\* A basic block is named by its first node.
IsLeader(i) ==
  \/ i = 0
  \/ i \in 1 .. Len(prog) /\ prog[i].op \in Closers \cup Siblings \cup {"while"}
  \/ i - 1 \in 1 .. Len(prog) /\ prog[i - 1].op \in Openers \cup {"elif"}
Leader(i) == Before({k \in 0 .. i : IsLeader(k)})

Reachable(succ, without) ==
  LET reach[k \in Nat] ==
        IF k = 0 THEN {0} \ without
        ELSE LET R == reach[k - 1] IN R \cup (UNION {succ[i] : i \in R} \ without)
  IN  reach[Len(prog) + 2]

\* Flow::build and Dominators::new: the edges, and the nodes each node's block
\* dominates (none of them unreachable).
FlowGraph ==
  LET succ  == [i \in Nodes |-> Succ(i)]
      reach == Reachable(succ, {})
  IN  [succ |-> succ, reach |-> reach,
       dom  |-> [i \in Nodes |-> reach \ Reachable(succ, {Leader(i)})]]
NoFlow == [succ |-> <<>>, reach |-> {}, dom |-> <<>>]

Dominates(i, j) == j \in flow.dom[i]
Preds(j)        == {i \in flow.reach : j \in flow.succ[i]}

-----------------------------------------------------------------------------
(* Drops.  kind is "after" for the boundary of statement `at` (the end of an *)
(* if or while), "read" for a read inside a return, and "start" for the      *)
(* start of the block that the edge `at` leads to.                           *)

DropAt(i, o)    == [at |-> i, kind |-> "after", target |-> o]
DropAtRead(i, o) ==
  [at |-> i, kind |-> IF prog[i].op = "return" THEN "read" ELSE "after", target |-> o]
DropAtStart(e, o) == [at |-> e, kind |-> "start", target |-> o]

Anchored(D)     == SelectSeq(D, LAMBDA d : d.kind # "start")
TargetsOf(D)    == {D[k].target : k \in DOMAIN D}
IsJumpStmt(d)   == d.kind = "after" /\ prog[d.at].op \in {"return", "break", "continue"}

\* owner_sort_key: parameters first, then by the place's position.
InOrder(S) == SX!FlattenSeq([k \in 1 .. Len(prog) + 2 |-> SX!SetToSeq({o \in S : o[2] = k - 2})])
ValidOwners == {o \in Owner : own.st[o] = "Valid"}

\* The displacing assignments of a binding, and the owners they release.
Reassigns(n)    == {t[1] : t \in {u \in out.displaced : prog[u[1]].n = n}}
Displaced       == {t[2] : t \in out.displaced}
LastWrite(n) ==
  IF Reassigns(n) # {} THEN Temp(n, Before(Reassigns(n)))
  ELSE IF DeclOf(n) # {} THEN Temp(n, Before(DeclOf(n))) ELSE NoOwner

\* anchored_after
AnchoredAfter(i, point) == i > point \/ Contains(i, point)

-----------------------------------------------------------------------------
(* Dead stores: a store is pending when no read of its binding follows it in *)
(* the text and it survives, unread and unreplaced, to the end of the body.  *)

\* The stores of a binding: its assignments, and 0 for what the caller passed.
Stores(n)  == IF n \in InoutParam THEN {} ELSE Writes(n) \cup (IF n \in Param THEN {0} ELSE {})
StoreOwner(n, s) == IF s = 0 THEN Home(n) ELSE Temp(n, s)
DominatedBy(s, j) == s = 0 \/ Dominates(s, j)

\* The nodes a store survives: the greatest solution of the flow equations,
\* where a join the store dominates must have it from every side.
Survives(n, s) ==
  LET kept(S, j) ==
        /\ j \notin ReadsOf(n)
        /\ j # s => /\ j \notin Writes(n)
                    /\ IF j = 0 THEN s = 0
                       ELSE IF Cardinality(Preds(j)) > 1 /\ DominatedBy(s, j)
                            THEN Preds(j) \subseteq S
                            ELSE Preds(j) \cap S # {}
      at[k \in Nat] == IF k = 0 THEN flow.reach
                       ELSE LET S == at[k - 1] IN {j \in S : kept(S, j)}
  IN  at[Cardinality(Nodes)]

Terminals == {j \in flow.reach : flow.succ[j] = {}}
IsDeadStore(n, s) ==
  LET ends == Survives(n, s) \cap Terminals
  IN  /\ \A j \in ReadsOf(n) : j <= s
      /\ IF \A j \in Terminals : DominatedBy(s, j) THEN ends = Terminals ELSE ends # {}
      /\ ends # {}
PendingStores == UNION {{<<n, s>> : s \in {t \in Stores(n) : IsDeadStore(n, t)}} : n \in Name}
Pending(dead) == {StoreOwner(p[1], p[2]) : p \in dead}

-----------------------------------------------------------------------------
(* schedule_last_use_frees: one release after the last read of every owner   *)
(* that is still Valid at the end of the walk.                               *)

EscapesAtExit(o) == \E q \in InoutParam : own.cur[q] = o
StaleTarget(o)   == o \in Displaced /\ \A n \in Name : own.cur[n] # o

Outlives(n, b) == \A d \in DeclOf(n) : ~Contains(b, d)
LoopCarried(o) == o[2] > 0 /\ prog[o[2]].op = "assign"
                  /\ \E l \in LoopsOf(o[2]) : \E d \in DeclOf(o[1]) : d < l
ReturnedThrough(o) == \E t \in out.transfers : t[2] = o /\ prog[t[1]].op = "return"
Completes(b)       == OpsIn(b) \cap {"return", "break", "continue"} = {}

\* Whether some arm of an if is one block that runs on to the join.
SimpleArm(b) ==
  \/ ~\E s \in ArmsOf(b) : prog[s].op = "else"
  \/ \E s \in {b} \cup ArmsOf(b) : \E e \in ArmsOf(b) \cup EndOf(b) :
       s < e /\ \A k \in s + 1 .. e - 1 : prog[k].op \in {"decl", "assign", "call"}
DeclDominates(n, b) ==
  /\ prog[b].op = "while" \/ SimpleArm(b)
  /\ \A d \in DeclOf(n) : \A e \in EndOf(b) : Dominates(d, e)

\* last_use_anchor, for an owner last read at token u: the place that every
\* path from the read passes, so far as one construct around it provides it.
LastUseAnchor(o, u) ==
  LET n     == o[1]
      outer == First(Branches(u))
      inner == Last(Branches(u))
      loops == {l \in LoopsOf(u) : ~Outlives(n, l)}
      exits == First({b \in Branches(u) : /\ \A l \in loops : l < b
                                          /\ Completes(b) /\ DeclDominates(n, b)})
      later == Before(ReadsOf(n))
  IN  CASE outer = {} -> DropAtRead(u, o)
        [] \E b \in outer : Outlives(n, b) ->
             IF \E b \in outer : prog[b].op = "while" /\ LoopCarried(o) /\ later # u /\ later > b
             THEN DropAtRead(later, o) ELSE DropAt(Before(outer), o)
        [] \E b \in outer : prog[b].op = "if" /\ ~Outlives(n, b) -> DropAtRead(u, o)
        [] OTHER ->
             LET exit == IF ReturnedThrough(o)
                         THEN {b \in inner \ outer : DeclDominates(n, b)} ELSE exits
             IN  IF exit = {} THEN DropAtRead(u, o) ELSE DropAt(Before(exit), o)

InstDrop(o) ==
  LET d == LastUseAnchor(o, seen.lastUse[o])
  IN  IF \/ StaleTarget(o) \/ EscapesAtExit(o) \/ seen.lastUse[o] = 0
         \/ \* covered_by_later_reassign
            o \in Displaced /\ \E r \in Reassigns(o[1]) : AnchoredAfter(r, d.at)
      THEN <<>> ELSE <<d>>

\* A parameter is released after the outermost construct around its last read,
\* and one that is never read after the last statement of the body.
ParamDrop(o) ==
  LET u    == seen.lastUse[o]
      top  == Before({j \in 1 .. Len(prog) : prog[j].op \notin Siblings \cup Closers
                                             /\ Branches(j) = {}})
  IN  IF o[1] \in InoutParam THEN <<>>
      ELSE IF u = 0 THEN IF top = 0 THEN <<>> ELSE <<DropAt(top, o)>>
      ELSE IF Branches(u) = {} THEN <<DropAtRead(u, o)>>
      ELSE <<DropAt(Before(First(Branches(u))), o)>>

LastUseDrops(owners) ==
  SX!FlattenSeq([k \in DOMAIN owners |->
                   IF IsParam(owners[k]) THEN ParamDrop(owners[k]) ELSE InstDrop(owners[k])])

-----------------------------------------------------------------------------
(* drain_dead_stores: a pending store is released at once; one into a        *)
(* binding from outside a loop, after the loop (and in it, if it may return).*)

\* Mutant: every store of a loop is left to the loop exits.
StoreDropsOutside(o) ==
  IF IsParam(o) \/ EscapesAtExit(o) \/ o \in Displaced \/ LoopsOf(o[2]) # {} THEN <<>>
  ELSE <<DropAt(o[2], o)>>
StoreDrops(o) ==
  LET s    == o[2]
      loop == First(LoopsOf(s))
      far  == \E l \in loop : \E d \in DeclOf(o[1]) : d < l
  IN  IF IsParam(o) \/ EscapesAtExit(o) \/ own.st[o] \notin {"Valid", "Moved"} \/ o \in Displaced
      THEN <<>>
      ELSE IF ~far THEN <<DropAt(s, o)>>
      ELSE <<DropAt(Before(loop), o)>>
           \o (IF \E l \in loop : "return" \in OpsIn(l) THEN <<DropAt(s, o)>> ELSE <<>>)
DeadStoreDrops(dead) ==
  LET owners == InOrder(Pending(dead)) IN SX!FlattenSeq([k \in DOMAIN owners |-> StoreDrops(owners[k])])

\* convert_honored_reseat_drops: an arm that kept the value which another arm
\* replaced by a store nothing reads releases it when it starts.  The arms of
\* an if in order: then, the elif conditions, else or the bare fall-through.
ArmEdges(b) ==
  LET arms  == InOrder({<<NoOwner, s>> : s \in ArmsOf(b)})
      tests == <<b>> \o SelectSeq([k \in DOMAIN arms |-> arms[k][2]],
                                     LAMBDA s : prog[s].op = "elif")
      elses == {s \in ArmsOf(b) : prog[s].op = "else"} \cup EndOf(b)
  IN  <<<<b, b + 1>>>>
      \o [k \in 1 .. Len(tests) - 1 |-> <<tests[k], tests[k + 1]>>]
      \o <<<<tests[Len(tests)], Least(elses)>>>>

Honored(r, dead) ==
  ~IsParam(r.pre) /\ \E p \in dead : p[1] = r.n /\ StoreOwner(p[1], p[2]) \in r.reseated
ReseatDrops(dead) ==
  LET keys == InOrder({<<r.n, r.at>> : r \in {x \in seen.reseats : Honored(x, dead)}})
      dropsOf(key) ==
        LET r == CHOOSE x \in seen.reseats : <<x.n, x.at>> = key
            edges == ArmEdges(r.at)
        IN  [k \in DOMAIN r.untouched |-> DropAtStart(edges[r.untouched[k]], r.pre)]
  IN  SX!FlattenSeq([k \in DOMAIN keys |-> dropsOf(keys[k])])

-----------------------------------------------------------------------------
(* suppress_redundant_exit_frees: the home of a binding holds one buffer at  *)
(* the exit of a construct, so one release of the binding may stay there.    *)

\* An exit release: anchored at a construct that contains the target's producer.
IsExitDrop(d) ==
  /\ d.kind = "after" /\ prog[d.at].op \in Openers
  /\ ~IsParam(d.target) /\ Contains(d.at, d.target[2])
SameBinding(d, e) == ~IsParam(d.target) /\ ~IsParam(e.target) /\ d.target[1] = e.target[1]

\* Pass 1: covered by a later release of the binding outside the construct.
\* `gone` holds positions among the anchored drops.
CoveredLater(A) ==
  LET covered(gone, i) ==
        \E j \in DOMAIN A \ gone :
          /\ j # i /\ ~IsJumpStmt(A[j]) /\ SameBinding(A[i], A[j])
          /\ ~Contains(A[i].at, A[j].at) /\ AnchoredAfter(A[j].at, A[i].at)
  IN  SX!FoldLeftDomain(LAMBDA gone, i : IF IsExitDrop(A[i]) /\ covered(gone, i)
                                         THEN gone \cup {i} ELSE gone, {}, A)

\* Pass 1b: a release at the exit of an if whose target was displaced before
\* is aimed at the last write of the binding instead.
Retargeted(D, gone0) ==
  LET aim(acc, i) ==
        LET d == acc.D[i]
            A == Anchored(acc.D)
            latest == LastWrite(d.target[1])
        IN  IF \/ i \in acc.gone \/ d.kind = "start" \/ prog[d.at].op # "if" \/ IsParam(d.target)
               \/ d.target \notin Displaced \/ ~\E r \in Reassigns(d.target[1]) : r < d.at
               \/ latest = d.target
            THEN acc
            ELSE IF \E j \in DOMAIN A \ acc.gone : j # i /\ A[j].at = d.at /\ SameBinding(A[j], d)
            THEN [acc EXCEPT !.gone = @ \cup {i}]
            ELSE IF \A j \in DOMAIN A : A[j].target = latest =>
                      \/ A[j].at = d.at
                      \/ Contains(d.at, A[j].at) /\ IsJumpStmt(A[j]) /\ prog[A[j].at].op = "return"
            THEN [acc EXCEPT !.D[i].target = latest]
            ELSE acc
  IN  SX!FoldLeftDomain(aim, [D |-> D, gone |-> gone0], D)

\* Pass 2: of several at one exit, the one that targets the last write, else
\* the one with the latest target, stays.
Duplicates(A, D, gone) ==
  LET group(i) == {j \in DOMAIN A \ gone : IsExitDrop(A[j]) /\ A[j].at = A[i].at
                                           /\ A[j].target[1] = A[i].target[1]}
      kept(G, n) ==
        LET lasts == {j \in G : D[j].target = LastWrite(n)}
            tops  == {j \in G : \A k \in G : D[k].target[2] <= D[j].target[2]}
        IN  IF lasts # {} THEN Least(lasts) ELSE Before(tops)
  IN  {i \in DOMAIN A \ gone : IsExitDrop(A[i]) /\ i # kept(group(i), A[i].target[1])}

\* The positions are counted among the anchored drops, and used on all of them.
Suppressed(D) ==
  LET A  == Anchored(D)
      r  == Retargeted(D, CoveredLater(A))
      go == r.gone \cup Duplicates(A, r.D, r.gone)
      left == SelectSeq([k \in DOMAIN r.D |-> k], LAMBDA k : k \notin go)
  IN  [k \in DOMAIN left |-> r.D[left[k]]]

-----------------------------------------------------------------------------
(* schedule_loop_exit_frees: what a break or continue skips is released at   *)
(* the jump.  `any` holds what had a release when the traversal entered the  *)
(* loop.  The bindings assigned after the loop are no owners: a value is     *)
(* named by what made it, so leaving them out leaves out nothing here.       *)

JumpDrops(D, any, l, j) ==
  LET path   == {k \in OnPath(j) : k > l}
      A      == Anchored(D)
      covers == {A[k].target : k \in {m \in DOMAIN A : A[m].at \in path}}
      within == {A[k].target : k \in {m \in DOMAIN A : Contains(l, A[m].at) /\ A[m].at # l}}
      leaves == prog[j].op = "break"
      carried(o) == prog[o[2]].op = "assign" /\ \E d \in DeclOf(o[1]) : d < l
      owed(o) ==
        IF Contains(l, o[2])
        THEN o[2] \in path /\ ~carried(o) /\ o \notin covers
        ELSE /\ leaves
             /\ IF o \in within THEN o \notin covers
                ELSE o \notin any /\ Dominates(o[2], j)
      owners == InOrder({o \in ValidOwners : ~IsParam(o) /\ owed(o)})
  IN  [k \in DOMAIN owners |-> DropAt(j, owners[k])]

LoopExits(D) ==
  LET visit(acc, tok, i) ==
        CASE tok.op = "while" ->
               [acc EXCEPT !.any = [l \in DOMAIN @ \cup {i} |->
                                      IF l = i THEN TargetsOf(acc.D) ELSE @[l]]]
          [] tok.op \in {"break", "continue"} ->
               LET l == Before(LoopOf(i))
               IN  [acc EXCEPT !.D = @ \o JumpDrops(acc.D, acc.any[l], l, i)]
          [] OTHER -> acc
      start == [D |-> D, any |-> [l \in {} |-> {}]]
  IN  SX!FoldLeftDomain(LAMBDA acc, i : visit(acc, prog[i], i), start, prog).D

-----------------------------------------------------------------------------
(* schedule_return_epilogue_frees: what is live at a return and no release   *)
(* on its path covers is released there.                                     *)

FiresBefore(d, ret) == ~IsJumpStmt(d) /\ d.at # ret
OnReturnPath(d, ret) ==
  d.at \in OnPath(ret) /\ d.at \notin Branches(ret) /\ FiresBefore(d, ret)

Superseded(o, ret) ==
  \E r \in Reassigns(o[1]) :
    /\ r < ret /\ r \in OnPath(ret) /\ LoopsOf(r) \subseteq LoopsOf(ret)
    /\ Temp(o[1], r) # o

EpilogueDrops(D, record, dead) ==
  LET ret == record.at
      A   == Anchored(D)
      gone(o) ==
        \/ ~IsParam(o) /\ o \in Pending(dead)
        \/ ~IsParam(o) /\ \E t \in out.transfers : t[1] = ret /\ ~IsParam(t[2]) /\ t[2][1] = o[1]
        \/ \E k \in DOMAIN A : A[k].target = o /\ OnReturnPath(A[k], ret)
        \/ ~IsParam(o) /\ Superseded(o, ret)
      covers(d, o) ==
        /\ SameBinding(d, DropAt(ret, o)) /\ Reassigns(o[1]) # {}
        /\ \A r \in Reassigns(o[1]) : AnchoredAfter(d.at, r)
      decide(staged, o) ==
        IF \/ gone(o)
           \/ \E k \in DOMAIN A : OnReturnPath(A[k], ret) /\ covers(A[k], o)
           \/ \E k \in DOMAIN staged : covers(staged[k], o)
        THEN staged ELSE Append(staged, DropAt(ret, o))
  IN  SX!FoldLeft(decide, <<>>, InOrder(record.owners))

ReturnEpilogues(D, dead) ==
  SX!FoldLeft(LAMBDA acc, record : acc \o EpilogueDrops(acc, record, dead), D, seen.epilogue)

\* The passes in the order of analyze_function and finalize_cleanup.
Schedule ==
  LET dead == PendingStores
      arms == SX!FlattenSeq([i \in 1 .. Len(prog) |->
                LET owners == InOrder({t[2] : t \in {u \in out.armDrops : u[1] = i}})
                IN  [k \in DOMAIN owners |-> DropAt(i, owners[k])]])
      D    == arms \o LastUseDrops(InOrder(ValidOwners)) \o DeadStoreDrops(dead) \o ReseatDrops(dead)
  IN  ReturnEpilogues(LoopExits(Suppressed(D)), dead)

-----------------------------------------------------------------------------
(* What the walk records for the passes after it *)

NoRecord == [lastUse |-> [o \in Owner |-> 0], epilogue |-> <<>>, reseats |-> {}]

\* record_return_epilogue: what is live at a return and was produced before it.
\* The walk comes by again when a loop around it is iterated.
LiveAtReturn(w) ==
  {o \in Owner : /\ w.st[o] = "Valid" /\ ~EscapesInout(w, o) /\ o[2] < pc
                 /\ \A k \in DOMAIN seen.epilogue :
                      seen.epilogue[k].at = pc => o \notin seen.epilogue[k].owners}
WithReturn(w) ==
  IF LiveAtReturn(w) = {} THEN seen
  ELSE [seen EXCEPT !.epilogue = Append(@, [at |-> pc, owners |-> LiveAtReturn(w)])]

\* The reseats of an if: a binding some arm assigned and some other arm did not.
\* Arms that do not reach the join count as well.
WithReseats(f) ==
  LET walked  == Append(f.arms, ThisArm)
      arms    == IF f.hasElse THEN walked ELSE Append(walked, [ThisArm EXCEPT !.own = f.snap])
      same(n) == {k \in DOMAIN arms : arms[k].own.cur[n] \in {NoOwner, f.snap.cur[n]}}
      new(n)  == {arms[k].own.cur[n] : k \in DOMAIN arms \ same(n)}
      names   == {n \in Name : /\ f.snap.cur[n] # NoOwner /\ new(n) # {} /\ same(n) # {}
                               /\ \A r \in seen.reseats : <<r.at, r.n>> # <<f.at, n>>}
  IN  [seen EXCEPT !.reseats = @ \cup
         {[at |-> f.at, n |-> n, pre |-> f.snap.cur[n], reseated |-> new(n),
           untouched |-> SelectSeq([k \in DOMAIN arms |-> k], LAMBDA k : k \in same(n))]
           : n \in names}]

\* Mutant: the first read counts as the last.
WithFirstRead(tok, s) ==
  LET read == {Underlying(own, n) : n \in Reads(tok)}
  IN  [s EXCEPT !.lastUse = [o \in Owner |-> IF o \in read /\ @[o] = 0 THEN pc ELSE @[o]]]
WithReads(tok, s) ==
  LET read == {Underlying(own, n) : n \in Reads(tok)}
  IN  [s EXCEPT !.lastUse = [o \in Owner |-> IF o \in read THEN pc ELSE @[o]]]

Recorded(tok) ==
  WithReads(tok, CASE tok.op = "return" -> WithReturn(own')
                   [] tok.op = "endif"  -> WithReseats(Head(stack))
                   [] OTHER             -> seen)

-----------------------------------------------------------------------------
(* The execution of the emitted code *)

Params   == SX!SetToSeq(Param)
InitHeld == [n \in Name |-> IF n \in Param THEN CHOOSE k \in DOMAIN Params : Params[k] = n ELSE 0]

\* What a bucket of releases changes.
Heap == [alive |-> alive, spent |-> spent, wrong |-> wrong]

\* CleanupPlan::resolve: a release reads the home of its binding when the target
\* is the last value the text stores there, or that one has no release; else
\* the registers of the value itself.
LastStored(n) == Temp(n, Before(Writes(n)))
FromHome(d) ==
  \/ d.kind = "start" \/ IsParam(d.target)
  \/ d.target = LastStored(d.target[1])
  \/ LastStored(d.target[1]) \notin TargetsOf(drops)
BufferOf(d, homes, produced) ==
  IF FromHome(d) THEN homes[d.target[1]]
  ELSE Before({b \in DOMAIN produced : produced[b] = d.target})

Released(heap, b) ==
  IF b \in heap.alive THEN [heap EXCEPT !.alive = @ \ {b}]
                      ELSE [heap EXCEPT !.wrong = @ \cup {"released"}]

\* fire_bucket: targets released before in this block are skipped, then the
\* others are released one by one.
Fire(kind, at, homes, produced, heap) ==
  LET due(d) == d.kind = kind /\ d.at = at
      bucket == SelectSeq(drops, LAMBDA d : due(d) /\ d.target \notin heap.spent)
      fired  == SX!FoldLeft(LAMBDA h, d : Released(h, BufferOf(d, homes, produced)), heap, bucket)
  IN  [fired EXCEPT !.spent = @ \cup TargetsOf(bucket)]

\* A block is entered: nothing has been released in this visit of it.  The arm
\* of an if that has no else is a block before the join.
Entered(e, homes, produced, heap) ==
  LET fresh == IF IsLeader(e[2]) THEN [heap EXCEPT !.spent = {}] ELSE heap
      start == Fire("start", e, homes, produced, fresh)
  IN  IF e[2] \in 1 .. Len(prog) /\ prog[e[2]].op = "endif" THEN [start EXCEPT !.spent = {}] ELSE start

\* Control leaves the node for one of its successors.
Goto(S, homes, produced, heap) ==
  /\ made' = produced /\ held' = homes
  /\ \E j \in S :
       LET h == Entered(<<node, j>>, homes, produced, heap)
       IN  node' = j /\ alive' = h.alive /\ spent' = h.spent /\ wrong' = h.wrong
  /\ UNCHANGED <<vars, cleanup>>

AtOp(ops) == stage = "run" /\ node \in 1 .. Len(prog) /\ prog[node].op \in ops

ExecEntry == stage = "run" /\ node = 0 /\ Goto(flow.succ[0], held, made, Heap)

\* A new value is stored; the value it displaces is released first where the
\* walk said so (free_on_reassign).  Mutant: the home is read when the new value
\* is in it.
StoredFirst(i) ==
  LET n     == prog[i].n
      homes == [held EXCEPT ![n] = Len(made) + 1]
      grown == [Heap EXCEPT !.alive = @ \cup {Len(made) + 1}]
      freed == IF \E t \in out.displaced : t[1] = i THEN Released(grown, homes[n]) ELSE grown
      produced == Append(made, Temp(n, i))
  IN  Goto(flow.succ[i], homes, produced, Fire("after", i, homes, produced, freed))
Stored(i) ==
  LET n     == prog[i].n
      homes == [held EXCEPT ![n] = Len(made) + 1]
      freed == IF \E t \in out.displaced : t[1] = i THEN Released(Heap, held[n]) ELSE Heap
      grown == [freed EXCEPT !.alive = @ \cup {Len(made) + 1}]
      produced == Append(made, Temp(n, i))
  IN  Goto(flow.succ[i], homes, produced, Fire("after", i, homes, produced, grown))
ExecStore == AtOp({"decl", "assign"}) /\ Stored(node)

\* What the statement reads must be alive; a value that moves is no longer ours.
Used(i, movesOut) ==
  LET dead == {n \in Reads(prog[i]) \ BorrowParam : held[n] \notin alive}
  IN  [alive |-> alive \ {held[n] : n \in movesOut}, spent |-> spent,
       wrong |-> IF dead = {} THEN wrong ELSE wrong \cup {"read"}]

ExecCall ==
  AtOp({"call"}) /\ Goto(flow.succ[node], held, made,
                         Fire("after", node, held, made, Used(node, MovedBy(prog[node]))))

\* The branch tokens evaluate a condition.  A loop is entered while buffers
\* are left to count.
ExecTest ==
  /\ AtOp({"if", "elif", "else", "while"})
  /\ Goto({j \in flow.succ[node] : prog[node].op = "while" /\ j = node + 1 => Len(made) < MaxBuffers},
          held, made, Heap)

\* fire_payload: the releases of an if or a loop, where it ends.
ExecClose ==
  LET b == Before(OpenOf(node))
  IN  AtOp(Closers) /\ Goto(flow.succ[node], held, made, Fire("after", b, held, made, Heap))

\* A jump fires its own releases, and those of its operand, before it leaves.
Leaving(i, heap) == Fire("read", i, held, made, Fire("after", i, held, made, heap))

ExecJump == AtOp({"break", "continue"}) /\ Goto(flow.succ[node], held, made, Leaving(node, Heap))

Exited(heap) ==
  /\ stage' = "exit"
  /\ alive' = heap.alive /\ spent' = heap.spent /\ wrong' = heap.wrong
  /\ UNCHANGED <<vars, seen, flow, drops, node, made, held>>

\* The returned value is in the caller's hands before the releases.
ExecReturn ==
  AtOp({"return"}) /\ Exited(Leaving(node, Used(node, {prog[node].src} \ {Fresh})))

ExecEnd == stage = "run" /\ node = Len(prog) + 1 /\ Exited(Heap)

Execute ==
  \/ ExecEntry \/ ExecStore \/ ExecCall \/ ExecTest
  \/ ExecClose \/ ExecJump \/ ExecReturn \/ ExecEnd

-----------------------------------------------------------------------------
(* The whole: walk, clean up, execute *)

InitAll ==
  /\ Init
  /\ seen = NoRecord /\ stage = "walk" /\ flow = NoFlow /\ drops = <<>>
  /\ node = 0 /\ made = [k \in DOMAIN Params |-> Home(Params[k])]
  /\ held = InitHeld
  /\ alive = {InitHeld[n] : n \in MoveParam \cup InoutParam}
  /\ spent = {} /\ wrong = {}

WalkStep ==
  /\ stage = "walk" /\ Walk /\ phase' = "walk"
  /\ seen' = Recorded(prog'[pc])
  /\ UNCHANGED <<stage, flow, drops, machine>>

\* A function that returns a value somewhere must do so on every path.
ReturnsOnEveryPath ==
  live => \A j \in 1 .. Len(prog) : prog[j].op = "return" => prog[j].src = Fresh

Accept ==
  /\ stage = "walk" /\ prog # <<>> /\ WalkEnd
  /\ LET accepted == phase' = "run" /\ ReturnsOnEveryPath
     IN  /\ stage' = (IF accepted THEN "clean" ELSE "none")
         /\ flow' = (IF accepted THEN FlowGraph ELSE NoFlow)
  /\ UNCHANGED <<seen, drops, machine>>

\* finalize_cleanup
Clean ==
  /\ stage = "clean"
  /\ drops' = Schedule /\ stage' = "run"
  /\ UNCHANGED <<vars, seen, flow, machine>>

Ended == stage \in {"none", "exit"} /\ UNCHANGED all

StepAll == WalkStep \/ Accept \/ Execute \/ Ended     \* all but Clean

-----------------------------------------------------------------------------
(* Properties *)

\* Nothing is released that this function does not own any more: no buffer is
\* released twice, none after it was moved, returned or displaced, and none
\* before the home or the registers it reads hold it (fire_bucket, emit_frees).
ReleasedOnce == "released" \notin wrong

\* No release comes before the last read of the buffer: a call, a return or a
\* condition never reads a buffer the schedule has released.
ReadsAlive == "read" \notin wrong
=============================================================================
