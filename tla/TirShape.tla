------------------------------ MODULE TirShape ------------------------------
(* What the analyses after sema ask of a typed body (core/src/tir.rs, its     *)
(* match_ and destructure modules, and ownership/loops/jumps.rs): what is     *)
(* reachable from an instruction, whether a match hides in its operands, which*)
(* instructions own what a pattern moved out, and what has run when a jump is *)
(* taken.  Every walk is built on one shallow visitor, walk_operands, and the *)
(* probes have a bounded part on the thread stack and a fallback without it.  *)
EXTENDS Arena

CONSTANTS
    DepthLimit,     \* REACHABILITY_DEPTH_LIMIT
    InlineSlots     \* slots of contains_reachable's stack before it goes to the heap

Operands(s) == [i \in DOMAIN s |-> [child |-> s[i], kind |-> "Operand"]]
BodyStmts(s) == [i \in DOMAIN s |-> [child |-> s[i], kind |-> "BodyStmt"]]
Values(pairs) == [i \in DOMAIN pairs |-> pairs[i][2]]

ArmChildren(body) ==
    IF body.kind = "Expr" THEN Operands(<<body.expr>>) ELSE BodyStmts(body.stmts)

\* The direct children of an instruction, in evaluation order.
walk_operands(v) ==
    CASE v.tag \in {"Neg", "Return", "ExprStmt", "Binary"} -> Operands(v.ops)
      [] v.tag = "Slice" -> Operands(SelectSeq(v.ops, LAMBDA o : o # None))
      [] v.tag = "FieldAccess" -> Operands(<<v.ops[1]>>)
      [] v.tag = "Call" -> Operands(v.args)
      [] v.tag = "StructLit" -> Operands(Values(v.fields))
      [] v.tag = "EnumLit" -> Operands(Values(v.args))
      [] v.tag = "VarDecl" -> Operands(<<v.initializer>>)
      [] v.tag \in {"Assign", "CompoundAssign"} -> Operands(<<v.value>>)
      [] v.tag \in {"FieldAssign", "CompoundFieldAssign"} -> Operands(<<v.target, v.value>>)
      [] v.tag = "Destructure" -> Operands(<<v.rhs>>)
      [] v.tag = "Match" ->
            Operands(<<v.scrutinee>>)
            \o FlattenSeq([i \in DOMAIN v.arms |-> ArmChildren(v.arms[i].body)])
      [] v.tag = "IfStmt" ->
            Operands(<<v.cond>>) \o BodyStmts(v.then)
            \o FlattenSeq([i \in DOMAIN v.elifs |-> Operands(<<v.elifs[i].cond>>)
                                                    \o BodyStmts(v.elifs[i].body)])
            \o (IF v.else = <<>> THEN <<>> ELSE BodyStmts(v.else[1]))
      [] v.tag = "WhileLoop" -> Operands(<<v.cond>>) \o BodyStmts(v.body)
      [] v.tag = "ForRange" -> Operands(<<v.start, v.end>>) \o BodyStmts(v.body)
      [] OTHER -> <<>>

\* A body as the analyses read it: the view of each instruction, and its edges.
Tir == [r \in Refs |-> [view |-> tir_view(r), edges |-> walk_operands(tir_view(r))]]
Children(tir, r) == [i \in DOMAIN tir[r].edges |-> tir[r].edges[i].child]

(***************************************************************************)
(* Reachability.                                                            *)
(***************************************************************************)
RECURSIVE collect_reachable_stack(_, _, _)
\* Past the depth limit: what is on `stack` is in `set` already.
collect_reachable_stack(tir, stk, set) ==
    IF stk = <<>> THEN set
    ELSE LET new == SelectSeq(Children(tir, Last(stk)), LAMBDA c : c \notin set)
         IN  collect_reachable_stack(tir, Front(stk) \o new, set \cup ToSet(new))

RECURSIVE collect_reachable_d(_, _, _, _)
collect_reachable_d(tir, r, set, depth) ==
    IF r \in set THEN set
    ELSE IF depth = DepthLimit THEN collect_reachable_stack(tir, <<r>>, set \cup {r})
    ELSE FoldLeft(LAMBDA acc, c : collect_reachable_d(tir, c, acc, depth + 1),
                  set \cup {r}, Children(tir, r))

collect_reachable(tir, r) == collect_reachable_d(tir, r, {}, 0)
ReachableFrom(tir, list) == UNION {collect_reachable(tir, list[i]) : i \in DOMAIN list}

RECURSIVE contains_reachable_deep(_, _, _)
contains_reachable_deep(tir, stk, target) ==
    /\ stk # <<>>
    /\ LET c == Children(tir, Last(stk))
       IN  \/ target \in ToSet(c)
           \/ contains_reachable_deep(tir, Front(stk) \o c, target)

RECURSIVE ProbeInline(_, _, _, _)
\* The probe over a stack of InlineSlots; what does not fit makes it start over.
ProbeInline(tir, root, stk, target) ==
    /\ stk # <<>>
    /\ LET c == Children(tir, Last(stk))
           grown == Front(stk) \o c
       IN  \/ target \in ToSet(c)
           \/ IF Len(grown) > InlineSlots THEN contains_reachable_deep(tir, <<root>>, target)
              ELSE ProbeInline(tir, root, grown, target)

\* Mutant: what does not fit is left out.
Fitting(list) == [i \in DOMAIN list \cap 1..InlineSlots |-> list[i]]
RECURSIVE ProbeTruncated(_, _, _, _)
ProbeTruncated(tir, root, stk, target) ==
    /\ stk # <<>>
    /\ LET c == Children(tir, Last(stk))
           grown == Front(stk) \o c
       IN  \/ target \in ToSet(c)
           \/ ProbeTruncated(tir, root, Fitting(grown), target)
ContainsTruncated(tir, root, target) ==
    root = target \/ ProbeTruncated(tir, root, <<root>>, target)

contains_reachable(tir, root, target) == root = target \/ ProbeInline(tir, root, <<root>>, target)

\* Slot by slot in instruction order: is there a match among the operands?
operand_match_memo(tir) ==
    FoldLeft(LAMBDA memo, r :
                 Append(memo, \/ insts[r].tag = "Match"
                              \/ \E i \in DOMAIN tir[r].edges :
                                    /\ tir[r].edges[i].kind = "Operand"
                                    /\ memo[tir[r].edges[i].child]),
             <<>>, [r \in Refs |-> r])

(***************************************************************************)
(* Owner tokens: the FieldAccess instructions in front of a pattern.        *)
(***************************************************************************)
destructure_bound_owner_refs(tir, r) ==
    LET bound == SelectSeq(tir[r].view.fields, LAMBDA f : f.bind # None)
    IN  [i \in DOMAIN bound |-> r - Len(bound) + i - 1]

\* Mutant: bindings that copy are counted too.
OwnerRefsOfAll(tir, r) ==
    LET all == FlattenSeq([i \in DOMAIN tir[r].view.arms |-> tir[r].view.arms[i].bindings])
    IN  [i \in DOMAIN all |-> r - Len(all) + i - 1]

match_by_move_owner_refs(tir, r) ==
    LET moved == ByMove(tir[r].view.arms)
    IN  [i \in DOMAIN moved |-> r - Len(moved) + i - 1]

(***************************************************************************)
(* What has run when a jump is taken.                                       *)
(***************************************************************************)
Holds(tir, list, target) == \E i \in DOMAIN list : contains_reachable(tir, list[i], target)

loop_body_view(tir, r) == tir[r].view.body
IsLoop(r) == insts[r].tag \in {"WhileLoop", "ForRange"}

\* Mutant: the then block is not looked at.
ArmWithAfterThen(tir, arms, target) ==
    SelectInSeq(<<<<>>>> \o Tail(arms), LAMBDA body : Holds(tir, body, target))
ArmWith(tir, arms, target) == SelectInSeq(arms, LAMBDA body : Holds(tir, body, target))

\* What an if evaluates on the way to the target, and where it goes on: the
\* first body with the target, or else the else.
TakenArm(tir, v, target) ==
    LET arms == <<v.then>> \o [k \in DOMAIN v.elifs |-> v.elifs[k].body]
        conds == <<v.cond>> \o [k \in DOMAIN v.elifs |-> v.elifs[k].cond]
        k == ArmWith(tir, arms, target)
    IN  [evaluated |-> IF k = 0 THEN conds ELSE SubSeq(conds, 1, k),
         body |-> IF k # 0 THEN arms[k] ELSE IF v.else = <<>> THEN <<>> ELSE v.else[1]]

Descend(tir, v, target) ==
    CASE v.tag = "IfStmt" -> TakenArm(tir, v, target)
      [] v.tag = "WhileLoop" -> [evaluated |-> <<v.cond>>, body |-> v.body]
      [] v.tag = "ForRange" -> [evaluated |-> <<v.start, v.end>>, body |-> v.body]

RECURSIVE collect_jump_path(_, _, _)
\* Statements in front of the one with the target have run whole; that one is
\* descended into, or taken whole if it is of another shape.
collect_jump_path(tir, list, target) ==
    IF list = <<>> THEN {}
    ELSE IF Head(list) = target THEN {target}
    ELSE LET s == Head(list)
             found == contains_reachable(tir, s, target)
             into == Descend(tir, tir[s].view, target)
         IN  IF found /\ tir[s].view.tag \in {"IfStmt", "WhileLoop", "ForRange"}
             THEN {s} \cup ReachableFrom(tir, into.evaluated)
                  \cup collect_jump_path(tir, into.body, target)
             ELSE collect_reachable(tir, s)
                  \cup (IF found THEN {} ELSE collect_jump_path(tir, Tail(list), target))

\* The match a statement is, or is a wrapper around.
stmt_match(tir, r) ==
    IF insts[r].tag = "ExprStmt" /\ insts[insts[r].ops[1]].tag = "Match"
    THEN <<insts[r].ops[1]>> ELSE <<>>

RECURSIVE visit_operand_matches(_, _, _)
\* Every match among the operands of `r`, at any depth.
visit_operand_matches(tir, memo, r) ==
    IF ~memo[r] THEN <<>>
    ELSE FlattenSeq([i \in DOMAIN tir[r].edges |->
            (IF insts[tir[r].edges[i].child].tag = "Match"
             THEN <<tir[r].edges[i].child>> ELSE <<>>)
            \o (IF tir[r].edges[i].kind = "Operand"
                THEN visit_operand_matches(tir, memo, tir[r].edges[i].child) ELSE <<>>)])

ArmRoots(body) == IF body.kind = "Expr" THEN <<body.expr>> ELSE body.stmts

RECURSIVE prune_match_arms(_, _, _, _, _), prune_sibling_match_arms(_, _, _, _, _)
\* One match: the arms without the jump go, the arm with it is looked into.
prune_match_arms(tir, memo, m, target, on_path) ==
    IF m \notin on_path THEN on_path
    ELSE FoldLeft(LAMBDA set, arm :
                      IF Holds(tir, ArmRoots(arm.body), target)
                      THEN FoldLeft(LAMBDA s, root : prune_sibling_match_arms(tir, memo, root, target, s),
                                    set, SelectSeq(ArmRoots(arm.body),
                                                   LAMBDA s : contains_reachable(tir, s, target)))
                      ELSE set \ ReachableFrom(tir, ArmRoots(arm.body)),
                  on_path, tir[m].view.arms)

prune_sibling_match_arms(tir, memo, stmt, target, on_path) ==
    LET m == stmt_match(tir, stmt)
    IN  FoldLeft(LAMBDA set, x : prune_match_arms(tir, memo, x, target, set), on_path,
                 m \o visit_operand_matches(tir, memo, IF m = <<>> THEN stmt ELSE m[1]))

\* The refs the pass that frees at a loop's exits takes to have run.
OnPath(tir, memo, loop, jump_inst) ==
    LET body == loop_body_view(tir, loop)
        k == CHOOSE i \in DOMAIN body : jump_inst \in collect_reachable(tir, body[i])
    IN  prune_sibling_match_arms(tir, memo, body[k], jump_inst,
            ReachableFrom(tir, SubSeq(body, 1, k - 1))
            \cup collect_jump_path(tir, <<body[k]>>, jump_inst))

-----------------------------------------------------------------------------
(* Properties.  The references are stated over `took`, the record of what each *)
(* instruction took when it was built, and never decode a payload.             *)

\* Checked while the body grows; `finish` only appends to `extra`.
AsTir == scope.ir = "tir" /\ bodies = <<>>
Built(r) == took[r] # <<>> \/ insts[r].tag # "FieldAccess"    \* no token

BelowOf == LET below[r \in Refs] == {r} \cup UNION {below[took[r][i]] : i \in DOMAIN took[r]}
           IN  below
\* An expression's own matches: statements in an arm or a body are not operands.
HasMatch == LET has[r \in Refs] == \/ insts[r].tag = "Match"
                                   \/ \E i \in DOMAIN took[r] :
                                        ~IsStmt(took[r][i]) /\ has[took[r][i]]
            IN  has

(* walk_operands announces exactly what an instruction took, once each and in  *)
(* evaluation order; and the walks built on it give the same answer whatever   *)
(* the nesting: the set collected past the depth limit, the probe that outgrew *)
(* its inline stack and started over, and the memo of matches in operands.     *)
ProbesAgreeIn(tir) ==
    LET memo == operand_match_memo(tir)
        below == BelowOf
    IN  \A r \in {x \in Refs : Built(x)} :
            /\ Children(tir, r) = took[r]
            /\ collect_reachable(tir, r) = below[r]
            /\ memo[r] = HasMatch[r]
            /\ \A target \in Refs : contains_reachable(tir, r, target) <=> target \in below[r]
ProbesAgree == AsTir => ProbesAgreeIn(Tir)

\* Of each pattern: the accesses it should have in front, and those found.
Moved(d) == CASE d.tag = "Destructure" -> [of |-> d.rhs, fields |-> SelectSeq(d.fields,
                                               LAMBDA f : f.bind # None)]
              [] d.tag = "Match" -> [of |-> d.scrutinee, fields |-> ByMove(d.arms)]
Found(tir, r) == IF insts[r].tag = "Match" THEN match_by_move_owner_refs(tir, r)
                 ELSE destructure_bound_owner_refs(tir, r)

(* The owner tokens found by counting back from a pattern are the accesses     *)
(* sema put there for the bindings that own what they bind, one each and in    *)
(* order (arms with other bindings between them included), and no walk over    *)
(* the body reaches one, so no token is ever evaluated.                        *)
TokensFoundAt(moved, found, reached) ==
    /\ Len(found) = Len(moved.fields)
    /\ \A i \in DOMAIN found :
        LET field == moved.fields[i]
        IN  /\ [insts[found[i]] EXCEPT !.range = None] =
                   [tag |-> "FieldAccess", ty |-> field.ty,
                    ops |-> <<moved.of, field.field_index>>, range |-> None]
            /\ found[i] \notin reached
TokensFoundIn(tir) ==
    \A r \in {x \in Refs : insts[x].tag \in {"Match", "Destructure"}} :
        TokensFoundAt(Moved(given[r]), Found(tir, r), ReachableFrom(tir, stack))
TokensFound == AsTir => TokensFoundIn(Tir)

(* How control can leave an instruction: on to the next one ("next"), out of   *)
(* the function, or to an enclosing loop.                                      *)
After(first, then) == IF "next" \in first THEN (first \ {"next"}) \cup then ELSE first
InTurn(list, out) == FoldLeft(LAMBDA acc, r : After(acc, out[r]), {"next"}, list)

Leaves(r, out) ==
    LET d == given[r]
        all == InTurn(took[r], out)
        into(branches) == UNION {InTurn(branches[i], out) : i \in DOMAIN branches}
    IN  CASE d.tag \in {"Return", "ReturnVoid", "Unreachable"} -> After(all, {"exit"})
          [] d.tag \in {"Break", "Continue"} -> {"jump"}
          [] d.tag = "Call" -> IF IsNever(r) THEN After(all, {"exit"}) ELSE all
          [] d.tag = "Match" ->
                After(out[d.scrutinee],
                      into([i \in DOMAIN d.arms |-> ArmRoots(d.arms[i].body)]))
          [] d.tag = "IfStmt" ->
                After(out[d.cond],
                      into(<<d.then>> \o [i \in DOMAIN d.elifs |-> d.elifs[i].body] \o d.else)
                      \cup (IF d.else = <<>> THEN {"next"} ELSE {}))
          [] d.tag = "WhileLoop" ->
                After(out[d.cond], (InTurn(d.body, out) \ {"jump"}) \cup {"next"})
          [] d.tag = "ForRange" ->
                After(InTurn(<<d.start, d.end>>, out),
                      (InTurn(d.body, out) \ {"jump"}) \cup {"next"})
          [] OTHER -> all

LeavesOf == FoldLeft(LAMBDA out, r : Append(out, Leaves(r, out)), <<>>, [r \in Refs |-> r])

(* The test that a function returns on every path, and the test that a match   *)
(* arm never reaches the join, never say so of statements control can run past *)
(* the end of: through an elif or a missing else, a loop that does not run, an *)
(* arm that does not jump, whatever is nested in what.                         *)
MissingReturnSound ==
    AsTir =>
        LET out == LeavesOf
        IN  \A n \in 0..Len(stack), jumps \in BOOLEAN :
                Stmts(Taken(n)) /\ block_terminates(Taken(n), jumps)
                    => "next" \notin InTurn(Taken(n), out)

Below(list) == UNION {BelowOf[list[i]] : i \in DOMAIN list}

\* The jumps whose loop this is, and what encloses them in it, outside in.
JumpsOf(loop) ==
    {j \in Below(given[loop].body) :
        /\ insts[j].tag \in {"Break", "Continue"}
        /\ \A x \in BelowOf[loop] \ {loop} : IsLoop(x) => j \notin BelowOf[x]}
Around(loop, j) == {r \in BelowOf[loop] : j \in BelowOf[r]}

BranchesOf(r) ==
    LET d == given[r]
    IN  CASE d.tag = "IfStmt" ->
                <<d.then>> \o [i \in DOMAIN d.elifs |-> d.elifs[i].body] \o d.else
          [] d.tag = "Match" -> [i \in DOMAIN d.arms |-> ArmRoots(d.arms[i].body)]
          [] IsLoop(r) -> <<d.body>>
          [] OTHER -> <<>>

(* The pass tells branches apart down a chain of ifs, the jump in one of their *)
(* bodies, and down a chain of matches; not where one stands in the other.     *)
ToldApart(loop, r, j) ==
    /\ insts[r].tag = "IfStmt" => \E k \in DOMAIN BranchesOf(r) : j \in Below(BranchesOf(r)[k])
    /\ \A x \in Around(loop, j) \ {loop} :
        r \in BelowOf[x] => insts[x].tag \in {insts[r].tag, "ExprStmt"}

(* When the frees at a loop's exit are placed, what the pass believes has run  *)
(* at a break or continue holds every statement in front of it in each block   *)
(* around it, and nothing of another branch of an if or match around it that   *)
(* the pass tells apart.                                                       *)
JumpPathRightAt(loop, j, on) ==
    \A r \in Around(loop, j) : \A k \in DOMAIN BranchesOf(r) :
        LET branch == BranchesOf(r)[k]
        IN  IF j \in Below(branch)
            THEN \A i \in DOMAIN branch : \A h \in 1..(i - 1) :
                    j \in BelowOf[branch[i]] => BelowOf[branch[h]] \subseteq on
            ELSE ToldApart(loop, r, j) => Below(branch) \cap on = {}
JumpPathRightIn(tir, memo) ==
    \A loop \in {r \in Refs : IsLoop(r)} : \A j \in JumpsOf(loop) :
        JumpPathRightAt(loop, j, OnPath(tir, memo, loop, j))
JumpPathRight == AsTir => JumpPathRightIn(Tir, operand_match_memo(Tir))
=============================================================================
