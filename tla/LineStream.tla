------------------------------ MODULE LineStream ------------------------------
(***************************************************************************)
(* What io_read_line promises a program: standard input is a sequence of   *)
(* lines, and each call takes the next one, whole and without its newline. *)
(* The last line may lack the newline, and a call after it gets "".        *)
(***************************************************************************)
EXTENDS Naturals, Sequences

CONSTANTS Proc, Letter, NL

VARIABLES
  unread,   \* the input no call has taken yet
  lines     \* what each thread has been given, in order

Byte == Letter \cup {NL}

\* i is where the first line of s ends.
LineEnd(s, i) == i \in 1 .. Len(s) /\ s[i] = NL /\ \A j \in 1 .. i - 1 : s[j] # NL

Before(s, i) == SubSeq(s, 1, i - 1)
After(s, i)  == SubSeq(s, i + 1, Len(s))

Init == unread \in Seq(Byte) /\ lines = [p \in Proc |-> <<>>]

Give(p, line) == lines' = [lines EXCEPT ![p] = Append(@, line)]

TakeLine(p) ==
  \E i \in 1 .. Len(unread) :
    LineEnd(unread, i) /\ Give(p, Before(unread, i)) /\ unread' = After(unread, i)

TakeRest(p) ==
  /\ \A i \in 1 .. Len(unread) : unread[i] # NL
  /\ Give(p, unread) /\ unread' = <<>>

Next == \E p \in Proc : TakeLine(p) \/ TakeRest(p)
Spec == Init /\ [][Next]_<<unread, lines>>
=============================================================================
