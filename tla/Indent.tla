-------------------------------- MODULE Indent --------------------------------
(***************************************************************************)
(* The indentation pass (src/ryo-frontend/src/indent.rs).  A line's tabs   *)
(* come with the newline before it; the pass keeps a stack of levels and   *)
(* puts INDENT and DEDENT markers between the lexer's tokens.              *)
(***************************************************************************)
EXTENDS Naturals, Sequences, FiniteSets

CONSTANTS
  Word,         \* the tokens that are not newlines
  Spaces,       \* a newline followed by white space with a blank in it
  INDENT, DEDENT,
  MaxTabs       \* bound: tabs after a newline

\* A newline is the number of tabs that follow it.
ASSUME IndentAssumption ==
  /\ MaxTabs \in Nat
  /\ Cardinality({Spaces, INDENT, DEDENT}) = 3
  /\ {Spaces, INDENT, DEDENT} \cap (Word \cup Nat) = {}
  /\ Word \cap Nat = {}

VARIABLES
  tokens,   \* what the lexer found
  next,     \* the token the pass looks at
  stack,    \* indent_stack, the innermost level last
  popping,  \* the dedent loop has popped a level at this newline
  out,      \* the places of the tokens, with the markers between them
  status

indentVars == <<tokens, next, stack, popping, out, status>>

Newline == 0 .. MaxTabs \cup {Spaces}

Init ==
  /\ tokens = <<>>
  /\ next = 1
  /\ stack = <<0>>
  /\ popping = FALSE
  /\ out = <<>>
  /\ status = "write"

\* The file is any the tokens in turn make up.
Write(some) ==
  /\ status = "write"
  /\ tokens' = tokens \o some
  /\ UNCHANGED <<next, stack, popping, out, status>>

Start ==
  /\ status = "write" /\ status' = "run"
  /\ UNCHANGED <<tokens, next, stack, popping, out>>

Top == stack[Len(stack)]
More == status = "run" /\ next <= Len(tokens)

\* The newline of a line with something on it.
AtLine == More /\ tokens[next] \in Newline /\ next < Len(tokens) /\ tokens[next + 1] \in Word

\* The token goes out after its marks, if any.
Pass(marks) == next' = next + 1 /\ out' = Append(out \o marks, next) /\ popping' = FALSE

Other ==
  /\ More /\ tokens[next] \in Word
  /\ Pass(<<>>)
  /\ UNCHANGED <<tokens, stack, status>>

\* Blank lines, and the last newline, say nothing about indentation.
Blank ==
  /\ More /\ tokens[next] \in Newline /\ ~AtLine
  /\ Pass(<<>>)
  /\ UNCHANGED <<tokens, stack, status>>

\* validate_indentation
Misindented ==
  /\ AtLine /\ tokens[next] = Spaces
  /\ status' = "error"
  /\ UNCHANGED <<tokens, next, stack, popping, out>>

Same ==
  /\ AtLine /\ tokens[next] = Top
  /\ Pass(<<>>)
  /\ UNCHANGED <<tokens, stack, status>>

Deeper ==
  /\ AtLine /\ ~popping /\ tokens[next] \in Nat /\ tokens[next] > Top
  /\ stack' = Append(stack, tokens[next])
  /\ Pass(<<INDENT>>)
  /\ UNCHANGED <<tokens, status>>

Pop ==
  /\ stack' = SubSeq(stack, 1, Len(stack) - 1)
  /\ out' = Append(out, DEDENT)

\* The dedent loop.  Mutant: it pops one level only.
ShallowerByOne ==
  /\ AtLine /\ ~popping /\ tokens[next] \in Nat /\ tokens[next] < Top
  /\ stack' = SubSeq(stack, 1, Len(stack) - 1)
  /\ Pass(<<DEDENT>>)
  /\ UNCHANGED <<tokens, status>>

Shallower ==
  /\ AtLine /\ tokens[next] \in Nat /\ tokens[next] < Top
  /\ Pop /\ popping' = TRUE
  /\ UNCHANGED <<tokens, next, status>>

\* The level popped to is not that of the line.
NoSuchLevel ==
  /\ AtLine /\ popping /\ tokens[next] \in Nat /\ tokens[next] > Top
  /\ status' = "error"
  /\ UNCHANGED <<tokens, next, stack, popping, out>>

\* The end of the file closes every block.
Close ==
  /\ status = "run" /\ next > Len(tokens)
  /\ \/ Len(stack) > 1 /\ Pop /\ UNCHANGED status
     \/ Len(stack) = 1 /\ status' = "ok" /\ UNCHANGED <<stack, out>>
  /\ UNCHANGED <<tokens, next, popping>>

Mark ==
  \/ Start \/ Other \/ Blank \/ Misindented \/ Same \/ Deeper \/ Shallower \/ NoSuchLevel
  \/ Close

\* The pass over any file; the specification of the parser writes some.
IndentNext == Mark \/ \E some \in Seq(Word \cup Newline) : Write(some)
IndentSpec == Init /\ [][IndentNext]_indentVars

-----------------------------------------------------------------------------
(* Properties *)

\* The tabs before the line of word k: the first line has none.
LineOf(k) == {i \in 1 .. k : tokens[i] \in Newline}
Tabs(k) ==
  IF LineOf(k) = {} THEN 0
  ELSE tokens[CHOOSE i \in LineOf(k) : \A j \in LineOf(k) : j <= i]

Words == {k \in 1 .. Len(tokens) : tokens[k] \in Word}

\* The levels of the blocks word k is in: the base, and those of the lines
\* before it that nothing as shallow separates from it.
Around(k) ==
  {v \in 0 .. Tabs(k) - 1 :
     v = 0 \/ \E j \in Words : /\ j < k /\ Tabs(j) = v
                             /\ \A i \in Words : j < i /\ i <= k => Tabs(i) > v}

\* A line may open a block, stay in its block, or go back to one around it.
Placed(k) ==
  \A j \in Words : j < k /\ (\A i \in Words : j < i => k <= i) =>
    Tabs(k) >= Tabs(j) \/ Tabs(k) \in Around(j)

Count(s, mark) == Cardinality({i \in 1 .. Len(s) : s[i] = mark})
Depth(s) == Count(s, INDENT) - Count(s, DEDENT)
DepthAt(i) == Depth(SubSeq(out, 1, i))

\* process: the markers put every token in exactly the blocks its line hangs
\* in, and the stack is empty again at the end of the file.  A file is refused
\* just when a line has blanks before it or goes back to a level nothing around
\* it has; of an accepted file no token is lost.
InItsBlocks ==
  /\ status \in {"ok", "error"} =>
       \A i \in 1 .. Len(out) : out[i] \in Words => DepthAt(i) = Cardinality(Around(out[i]))
  /\ status = "ok" => Depth(out) = 0
InOrder ==
  /\ \A k \in 1 .. Len(tokens) : \E i \in 1 .. Len(out) : out[i] = k
  /\ \A i, j \in 1 .. Len(out) : i < j /\ out[i] \in Nat /\ out[j] \in Nat => out[i] < out[j]
  /\ \A i \in 1 .. Len(out) : out[i] \in Nat => out[i] \in 1 .. Len(tokens)
RefusedForReason ==
  /\ status = "error" => Tabs(next + 1) = Spaces \/ ~Placed(next + 1)
  /\ status = "ok" => InOrder /\ \A k \in Words : Tabs(k) # Spaces /\ Placed(k)
BlocksAsIndented == InItsBlocks /\ RefusedForReason
=============================================================================
