------------------------------ MODULE MCGrammar ------------------------------
(* Files for model checking the parser. *)
EXTENDS Grammar
CONSTANTS
  MaxLoose,   \* bound: tokens of a file of plain words and newlines
  MaxLines    \* bound: lines of a file

\* Lines of a file with no mistake but where a line stands; headers without their
\* colon, with a statement or nothing to go on with there; and other lines.
Good   == {<<Plain>>, <<Fn, Colon>>, <<If, Colon>>, <<Else, Colon>>}
NoColon == {<<If, Return>>, <<Elif, Return>>, <<While, Bad>>}
Others == {<<Return>>, <<Store>>, <<Elif, Colon>>, <<While, Colon>>, <<For1, Colon>>,
           <<Struct, Colon>>, <<Field>>,
           <<Bad>>, <<Plain, Bad>>, <<Plain, Plain>>, <<If, Bad, Colon>>, <<Else>>,
           <<If, Colon, Return>>, <<Fn, Colon, Plain>>} \cup NoColon

\* Any plain words and newlines: what the indentation pass alone is about.
IsLoose == \A i \in DOMAIN tokens : tokens[i] \in {Plain} \cup Newline
WriteLoose ==
  /\ IsLoose /\ Len(tokens) < MaxLoose
  /\ \E t \in {Plain} \cup Newline : Write(<<t>>)

\* Files line by line: a line is at most one level deeper than the one before;
\* one at most is of the others, or comes after a blank line.  The longest files
\* start with a function, and one line more if an `elif` has no colon: it may have
\* a block of its own, under an `if` with one.
Regular ==
  /\ Cardinality({k \in LineStarts : Text(k) \in Others}) = 0
  /\ \A i \in DOMAIN tokens : tokens[i] \in Newline => i > 1 /\ tokens[i - 1] \notin Newline
InFn  == tokens # <<>> => tokens[1] = Fn
Limit == (IF InFn THEN MaxLines ELSE MaxLines - 1)
         + (IF \E k \in LineStarts : Text(k) = <<Elif, Return>> THEN 1 ELSE 0)
WriteLine ==
  LET gap(t) == IF tokens = <<>> THEN {<<>>} ELSE {<<t>>} \cup (IF Regular THEN {<<0, t>>} ELSE {})
      level  == IF tokens = <<>> THEN 0 ELSE Tabs(Len(tokens)) + 1
      lines  == IF Regular THEN Good \cup Others ELSE Good
  IN /\ tokens # <<>> => tokens[1] \in Word /\ tokens[Len(tokens)] \in Word
     /\ \A i \in DOMAIN tokens : tokens[i] # Spaces
     /\ Cardinality(LineStarts) < Limit
     /\ \E t \in (0 .. level) \cap Newline : \E g \in gap(t), line \in lines :
          (Len(g) = 2 => line \in Good) /\ Write(g \o line)
EndLine == tokens # <<>> /\ tokens[Len(tokens)] \in Word /\ Write(<<0>>)

FrontInit == Init /\ tree = Unparsed
FrontNext ==
  \/ (WriteLoose \/ WriteLine \/ EndLine) /\ UNCHANGED tree
  \/ MarkNext \/ Parse \/ Over
FrontSpec == FrontInit /\ [][FrontNext]_frontVars
=============================================================================
