------------------------------- MODULE Grammar -------------------------------
(***************************************************************************)
(* The parser (src/ryo-frontend/src/grammar/statements.rs) over the marked *)
(* tokens of the indentation pass: statement lists with recovery line by   *)
(* line, block headers, and the arena the statements are built in.         *)
(*                                                                         *)
(* An alternative that fails gives its tokens and its errors back, never   *)
(* what it did to the parse state.  An answer of the operators below is    *)
(* therefore ok or not, the place after it (0: it failed), the places of   *)
(* the errors it reports and the parse state it leaves, failed or not.     *)
(***************************************************************************)
EXTENDS Indent

CONSTANTS
  \* A word stands for the tokens of a part of a line that are read together.
  Plain,        \* a declaration or an expression: a statement in every list
  Store,        \* an assignment to a field: no statement at the top level
  Return,
  Fn, If, Elif, Else, While,   \* a header with its signature or condition
  For1,         \* a for clause with one argument
  Struct, Field,
  Colon,
  Bad           \* a token no statement starts or goes on with

ASSUME GrammarAssumption ==
  Word = {Plain, Store, Return, Fn, If, Elif, Else, While, For1, Struct, Field, Colon, Bad}

VARIABLE tree   \* what program_parser answers
frontVars == <<tokens, next, stack, popping, out, status, tree>>

Unparsed == [ok |-> FALSE, errs |-> <<>>, top |-> <<>>, arena |-> <<>>, left |-> 0]

-----------------------------------------------------------------------------
(* Tokens *)

Kind(i) ==
  CASE i > Len(out) -> "end"
    [] i <= Len(out) /\ out[i] \in {INDENT, DEDENT} -> out[i]
    [] OTHER -> IF tokens[out[i]] \in Newline THEN "newline" ELSE tokens[out[i]]

\* The place after all the tokens of kinds from i on.
After(i, kinds) ==
  CHOOSE j \in i .. Len(out) + 1 : Kind(j) \notin kinds /\ \A k \in i .. j - 1 : Kind(k) \in kinds

SkipNewlines(i) == After(i, {"newline"})

\* skip_garbage: 0 at a boundary.
SkipGarbage(i) == LET j == After(i, Word) IN IF j = i THEN 0 ELSE j

\* The end of a line: newlines, or what ends the list (END or DEDENT).
LineEnd(i, terminator) ==
  CASE i > 0 /\ Kind(i) = "newline" -> SkipNewlines(i)
    [] i > 0 /\ Kind(i) = terminator -> i
    [] OTHER -> 0

\* swallow_block: the region from an INDENT to its DEDENT, blank lines before
\* and after it included.
Balanced(i, j) ==
  Cardinality({k \in i .. j : Kind(k) = INDENT}) = Cardinality({k \in i .. j : Kind(k) = DEDENT})
Closers(i) == {j \in i .. Len(out) : Kind(j) = DEDENT /\ Balanced(i, j)}
SwallowBlock(i) ==
  LET j == SkipNewlines(i) IN
  IF i > 0 /\ Kind(j) = INDENT /\ Closers(j) # {}
  THEN SkipNewlines((CHOOSE k \in Closers(j) : \A l \in Closers(j) : k <= l) + 1)
  ELSE 0

-----------------------------------------------------------------------------
(* The parse state: the arena of statements and the checkpoints on it *)

Fresh == [arena |-> <<>>, marks |-> <<>>]
BeginStatement(st) == [st EXCEPT !.marks = Append(@, Len(st.arena))]

\* The innermost checkpoint is taken off, and gone back to when the line is an
\* error.  Mutant: what the line had built stays in the arena.
FinishKeeping(st, rollback) ==
  IF st.marks = <<>> THEN st ELSE [st EXCEPT !.marks = SubSeq(@, 1, Len(@) - 1)]
FinishStatement(st, rollback) ==
  IF st.marks = <<>> THEN st
  ELSE [arena |-> IF rollback THEN SubSeq(st.arena, 1, st.marks[Len(st.marks)]) ELSE st.arena,
        marks |-> SubSeq(st.marks, 1, Len(st.marks) - 1)]

\* A statement is its word's place and its lists, each with the place of the
\* header over it.
Built(st, node) == [st EXCEPT !.arena = Append(@, node)]
Node(i, lists)  == [kind |-> "statement", place |-> out[i], lists |-> lists]
ErrorNode(i)    == [kind |-> "error", place |-> out[i], lists |-> <<>>]
ListUnder(i, kids) == [head |-> out[i], kids |-> kids]

Answer(at, errs, st, kids) == [at |-> at, errs |-> errs, st |-> st, kids |-> kids]
Failed(st)                 == Answer(0, <<>>, st, <<>>)

-----------------------------------------------------------------------------
(* The grammar *)

RECURSIVE ListOf(_, _, _), Lines(_, _, _), Line(_, _, _), Statement(_, _, _),
          Block(_, _), Header(_, _), Arms(_, _)

Terminator(scope) == IF scope = "top" THEN "end" ELSE DEDENT

\* statement_list
ListOf(i, st, scope) ==
  LET lines == Lines(SkipNewlines(i), st, scope) IN [lines EXCEPT !.at = SkipNewlines(@)]

LinesFrom(i, line, scope) ==
  IF line.at = 0 THEN Answer(i, <<>>, line.st, <<>>)
  ELSE [Lines(line.at, line.st, scope) EXCEPT
          !.errs = line.errs \o @, !.kids = <<Len(line.st.arena)>> \o @]
Lines(i, st, scope) == LinesFrom(i, Line(i, st, scope), scope)

\* A statement and the end of its line; or one with garbage after it; or the
\* garbage of a broken header with the block under it; or the garbage of a line.
Recovered(i, at, errs, st) ==
  Answer(at, Append(errs, out[i]), Built(FinishStatement(st, TRUE), ErrorNode(i)), <<>>)

LineAs(i, st, scope, stmt) ==
  LET clean   == LineEnd(stmt.at, Terminator(scope))
      tail    == IF stmt.at = 0 THEN 0 ELSE LineEnd(SkipGarbage(stmt.at), Terminator(scope))
      region  == SwallowBlock(SkipGarbage(i))
      rest    == LineEnd(SkipGarbage(i), Terminator(scope))
  IN IF Kind(i) \in {DEDENT, "end"} THEN Failed(st)
     ELSE IF clean # 0  THEN Answer(clean, stmt.errs, FinishStatement(stmt.st, FALSE), <<>>)
     ELSE IF tail # 0   THEN Recovered(i, tail, stmt.errs, stmt.st)
     ELSE IF region # 0 THEN Recovered(i, region, <<>>, stmt.st)
     ELSE IF rest # 0   THEN Recovered(i, rest, <<>>, stmt.st)
     ELSE Failed(stmt.st)
Line(i, st, scope) == LineAs(i, st, scope, Statement(i, BeginStatement(st), scope))

\* indented_block
Closed(list) ==
  IF Kind(list.at) = DEDENT THEN [list EXCEPT !.at = @ + 1] ELSE Failed(list.st)
Block(i, st) ==
  IF Kind(SkipNewlines(i)) = INDENT THEN Closed(ListOf(SkipNewlines(i) + 1, st, "body"))
  ELSE Failed(st)

\* block_header, after the signature or the condition: a colon and a block; a
\* colon and a statement, or a statement where the colon belongs, which are
\* swallowed and reported, and a block that may be missing.
Swallowed(i) == After(i, Word \cup {DEDENT})

Starts == {Plain, Store, Return, If, While, For1, Field}

Claim(i, block, to) ==
  [block EXCEPT !.at = IF @ = 0 THEN to ELSE @, !.errs = Append(@, out[i])]
HeaderAs(i, st, normal) ==
  LET claimed == \/ Kind(i) = Colon /\ Kind(i + 1) \in Word
                 \/ Kind(i) \in Starts
  IN IF normal.at # 0 THEN normal
     ELSE IF claimed THEN Claim(i, Block(Swallowed(i + 1), st), Swallowed(i + 1))
     ELSE normal
Header(i, st) == HeaderAs(i, st, IF Kind(i) = Colon THEN Block(i + 1, st) ELSE Failed(st))

\* if_stmt_parser: the lists of the arms after the first.  Blank lines before
\* an arm are taken with it only.
MoreArms(word, i, st) == IF word \in {If, Elif} THEN Arms(i, st) ELSE Answer(i, <<>>, st, <<>>)
ArmAs(i, arm) ==
  [MoreArms(Kind(i), arm.at, arm.st) EXCEPT
     !.errs = arm.errs \o @, !.kids = <<ListUnder(i, arm.kids)>> \o @]
ArmOr(i, j, arm) == IF arm.at = 0 THEN Answer(i, <<>>, arm.st, <<>>) ELSE ArmAs(j, arm)
Arms(i, st) ==
  LET j == SkipNewlines(i) IN
  IF Kind(j) \in {Elif, Else} THEN ArmOr(i, j, Header(j + 1, st)) ELSE Answer(i, <<>>, st, <<>>)

\* A statement with a header; its first arm is one as any.
Whole(i, arms) ==
  [arms EXCEPT !.st = Built(@, Node(i, arms.kids)), !.kids = <<>>]
WithHeaderAs(i, head) ==
  IF head.at = 0 \/ Kind(i) = For1 THEN Failed(head.st)   \* RangeArity
  ELSE Whole(i, ArmAs(i, head))
WithHeader(i, st) == WithHeaderAs(i, Header(i + 1, st))

\* struct_tail_parser: fields, or a line that no INDENT follows.
RECURSIVE FieldLines(_)
FieldLines(i) ==
  LET j == LineEnd(i + 1, DEDENT) IN
  IF Kind(i) = DEDENT THEN i + 1 ELSE IF Kind(i) = Field /\ j # 0 THEN FieldLines(j) ELSE 0

StructDef(i, st) ==
  LET j      == SkipNewlines(i + 2)
      body   == IF Kind(j) = INDENT THEN FieldLines(SkipNewlines(j + 1)) ELSE 0
      noBody == Kind(i + 2) = "newline" /\ Kind(j) # INDENT
      built  == Built(st, Node(i, <<>>))
  IN IF Kind(i + 1) # Colon THEN Failed(st)
     ELSE IF body # 0 THEN Answer(body, <<>>, built, <<>>)
     ELSE IF noBody THEN Answer(i + 2, <<out[i]>>, built, <<>>)
     ELSE Failed(st)

\* assignment_guard
GuardedStore(i, st) ==
  Answer(After(i + 1, Word \cup {DEDENT}), <<out[i]>>, Built(st, ErrorNode(i)), <<>>)

\* body_statement_parser, top_level_statement_parser
InBody == {Plain, Store, Return}

Statement(i, st, scope) ==
  LET simple == Answer(i + 1, <<>>, Built(st, Node(i, <<>>)), <<>>) IN
  IF scope = "top"
  THEN CASE Kind(i) = Plain  -> simple
         [] Kind(i) = Store  -> GuardedStore(i, st)
         [] Kind(i) = Fn     -> WithHeader(i, st)
         [] Kind(i) = Struct -> StructDef(i, st)
         [] OTHER -> Failed(st)
  ELSE CASE Kind(i) \in InBody -> simple
         [] Kind(i) \in {If, While, For1} -> WithHeader(i, st)
         [] OTHER -> Failed(st)

\* program_parser, parse_source
Program ==
  LET list == ListOf(1, Fresh, "top") IN
  [ok |-> Kind(list.at) = "end", errs |-> list.errs,
   top |-> list.kids, arena |-> list.st.arena, left |-> Len(list.st.marks)]

Parse ==
  /\ status = "ok" /\ tree = Unparsed
  /\ tree' = Program /\ status' = "parsed"
  /\ UNCHANGED <<tokens, next, stack, popping, out>>

Over == status \in {"error", "parsed"} /\ UNCHANGED frontVars

MarkNext == Mark /\ UNCHANGED tree

-----------------------------------------------------------------------------
(* What the lines say: the parser above knows tokens and markers only.     *)

\* A line is the place of its first word.
LineStarts == {k \in Words : k = 1 \/ tokens[k - 1] \in Newline}
Later(k)   == {j \in LineStarts : j > k}
First(k)   == tokens[k]
TextEnd(k) == CHOOSE j \in k .. Len(tokens) :
                /\ \A i \in k .. j : tokens[i] \in Word
                /\ j = Len(tokens) \/ tokens[j + 1] \in Newline
Text(k)    == SubSeq(tokens, k, TextEnd(k))
Nearest(S) == IF S = {} THEN 0 ELSE CHOOSE j \in S : \A i \in S : i <= j

\* The line over line k, the line it follows in the same block, and whether
\* lines are under it.
Under(k)    == Nearest({j \in LineStarts : j < k /\ Tabs(j) < Tabs(k)})
Previous(k) == Nearest({j \in LineStarts : j < k /\ Under(k) < j /\ Tabs(j) = Tabs(k)})
Lower(k)    == {j \in LineStarts : Under(j) = k}
HasBlock(k) == Lower(k) # {}

\* A header line with no block of its own that its message is about.
Headers    == {Fn, If, Elif, Else, While}
Claimed(k) ==
  /\ First(k) \in Headers
  /\ \/ Len(Text(k)) > 2 /\ Text(k)[2] = Colon
     \/ Len(Text(k)) > 1 /\ Text(k)[2] \in Starts

\* A line that is a statement, or an arm, where it stands.
Sound[k \in LineStarts] ==
  LET top    == Under(k) = 0
      alone  == Len(Text(k)) = 1 /\ ~HasBlock(k)
      header == Text(k) = <<First(k), Colon>> /\ HasBlock(k)
  IN CASE First(k) = Plain -> alone
       [] First(k) \in {Store, Return} -> ~top /\ alone
       [] First(k) = Fn -> top /\ (header \/ Claimed(k))
       [] First(k) \in {If, While} -> ~top /\ (header \/ Claimed(k))
       [] First(k) \in {Elif, Else} ->
            /\ header \/ Claimed(k)
            /\ Previous(k) # 0 /\ First(Previous(k)) \in {If, Elif} /\ Sound[Previous(k)]
       [] First(k) = Struct ->
            /\ top /\ Text(k) = <<Struct, Colon>>
            /\ TextEnd(k) < Len(tokens)
            /\ \A j \in Lower(k) : Text(j) = <<Field>> /\ ~HasBlock(j)
       [] OTHER -> FALSE

\* A line in no region that another line's error takes.
RECURSIVE Standing(_)
Standing(k) ==
  \/ Under(k) = 0
  \/ First(Under(k)) # Struct /\ Sound[Under(k)] /\ Standing(Under(k))

Statements == {k \in LineStarts : Standing(k) /\ ~(Sound[k] /\ First(k) \in {Elif, Else})}

\* What the parser does not recover from: a swallow that takes the end of the
\* block with it, and an indented line the statement before it is no header of
\* and a blank line parts from it, or that no statement is before.
EatsDedent(k) ==
  /\ Claimed(k) /\ Under(k) # 0 /\ ~HasBlock(k)
  /\ IF Later(k) = {} THEN TextEnd(k) = Len(tokens)
     ELSE \E j \in Later(k) : Tabs(j) < Tabs(k) /\ \A i \in Later(k) : j <= i
Apart(k) ==
  /\ HasBlock(k) /\ tokens[TextEnd(k) + 2] \in Newline
  /\ First(k) \in {Plain, Store} \/ (First(k) = Return /\ Under(k) # 0)
Recoverable ==
  /\ \A k \in LineStarts : ~EatsDedent(k) /\ ~Apart(k)
  /\ \A k \in LineStarts : Under(k) = 0 => Tabs(k) = 0

-----------------------------------------------------------------------------
(* Properties *)

Parsed == status = "parsed"

\* The statements of the tree under each header, errors among them.
RECURSIVE Tree(_, _)
Tree(head, ids) ==
  UNION {LET node == tree.arena[ids[n]] IN
         {<<node.place, head, node.kind, n>>}
         \cup UNION {Tree(node.lists[l].head, node.lists[l].kids) : l \in DOMAIN node.lists}
         : n \in DOMAIN ids}

\* statement_list, swallow_block, block_header: every statement is in the list
\* of the header its line is indented under, in the order of the lines; each
\* line that is none is an error in its place, and takes with it the lines
\* under it and no other.  finish_statement: the arena holds what the tree
\* reaches and nothing more, and no checkpoint is left over.
RECURSIVE Reached(_)
Reached(ids) ==
  UNION {{ids[n]} \cup UNION {Reached(tree.arena[ids[n]].lists[l].kids) :
                                l \in DOMAIN tree.arena[ids[n]].lists} : n \in DOMAIN ids}
TreeAsIndented ==
  Parsed /\ Recoverable =>
    LET all     == Statements
        kind(k) == IF Sound[k] THEN "statement" ELSE "error"
        place(k, over) == Cardinality({j \in all : j <= k /\ Under(j) = over})
    IN /\ tree.ok
       /\ Tree(0, tree.top) = {<<k, Under(k), kind(k), place(k, Under(k))>> : k \in all}
       /\ Reached(tree.top) = DOMAIN tree.arena /\ tree.left = 0

\* statement_list: each broken line reports exactly once, and what its region
\* swallows reports nothing.
ReportsOnce ==
  Parsed /\ Recoverable =>
    LET lineOf(i) == Nearest({j \in LineStarts : j <= i})
        empty(k)  == First(k) = Struct /\ ~HasBlock(k)
        wrong     == {k \in LineStarts : Standing(k) /\ (~Sound[k] \/ Claimed(k) \/ empty(k))}
    IN /\ {lineOf(tree.errs[n]) : n \in DOMAIN tree.errs} = wrong
       /\ Len(tree.errs) = Cardinality(wrong)

\* statement_list: what comes out of the parser, the tree with its arena and the
\* reports, is what the lines of the file call for.
ParsesAsIndented == TreeAsIndented /\ ReportsOnce
=============================================================================
