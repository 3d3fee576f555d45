------------------------------- MODULE ReadLine -------------------------------
(***************************************************************************)
(* io_read_line (src/runtime/src/lib.rs 534-748).  ryo_read_line takes a   *)
(* spin lock; read_line_from accumulates a line in a buffer that doubles,  *)
(* first from the bytes an earlier call read too far, then from `read`,    *)
(* which may return less than was asked for, be interrupted, or fail.      *)
(***************************************************************************)
EXTENDS Naturals, Sequences

CONSTANTS
  Proc, NoProc,     \* threads that call
  Letter, NL,       \* bytes, and the newline
  Chunk,            \* READ_LINE_CHUNK
  MaxInput,         \* bound: bytes of standard input
  MaxCalls,         \* bound: calls of each thread
  MaxFaults         \* bound: interrupted and failed reads, in all

ASSUME ReadAssumption ==
  /\ NoProc \notin Proc /\ NL \notin Letter
  /\ Chunk \in Nat \ {0} /\ MaxInput \in Nat /\ MaxCalls \in Nat /\ MaxFaults \in Nat

VARIABLES
  rest,             \* what is still in the file
  pending, start,   \* ReadLineState: pending[..pending_len] and pending_start
  locked,           \* the thread in ryo_read_line, or NoProc
  pc,
  buf, cap,         \* the accumulation buffer of each call and its capacity
  lines,            \* the lines each thread was given
  stopped,          \* the process has ended after a read error
  faults

readVars == <<rest, pending, start, locked, pc, buf, cap, lines, stopped, faults>>

Byte == Letter \cup {NL}

\* i is the place of the first newline of s.
LineEnd(s, i) == i \in 1 .. Len(s) /\ s[i] = NL /\ \A j \in 1 .. i - 1 : s[j] # NL
OneLine(s) == \A i \in 1 .. Len(s) : s[i] # NL
Before(s, i) == SubSeq(s, 1, i - 1)
After(s, i)  == SubSeq(s, i + 1, Len(s))

Held == SubSeq(pending, start + 1, Len(pending))    \* the bytes read too far

Init ==
  /\ rest \in UNION {[1 .. n -> Byte] : n \in 0 .. MaxInput}
  /\ pending = <<>> /\ start = 0
  /\ locked = NoProc
  /\ pc = [p \in Proc |-> "idle"]
  /\ buf = [p \in Proc |-> <<>>] /\ cap = [p \in Proc |-> 0]
  /\ lines = [p \in Proc |-> <<>>]
  /\ stopped = FALSE /\ faults = 0

Goto(p, from, to) == pc[p] = from /\ pc' = [pc EXCEPT ![p] = to]

Call(p) ==
  /\ Len(lines[p]) < MaxCalls
  /\ Goto(p, "idle", "spin")
  /\ UNCHANGED <<rest, pending, start, locked, buf, cap, lines, stopped, faults>>

\* Mutant: load, then store: two threads may both find the lock free.
LockRacily(p) ==
  /\ Goto(p, "spin", "loop")
  /\ locked' = p
  /\ cap' = [cap EXCEPT ![p] = Chunk]
  /\ UNCHANGED <<rest, pending, start, buf, lines, stopped, faults>>

\* The compare-exchange that succeeds, and malloc.
Lock(p) ==
  /\ locked = NoProc
  /\ Goto(p, "spin", "loop")
  /\ locked' = p
  /\ cap' = [cap EXCEPT ![p] = Chunk]
  /\ UNCHANGED <<rest, pending, start, buf, lines, stopped, faults>>

\* There is room for what the next step of the loop puts into the buffer: one
\* byte at least, what is pending, or the line that ends in it.
Room(p) == cap[p] - Len(buf[p])

Fits(p) ==
  /\ Held = <<>> => Room(p) >= 1
  /\ OneLine(Held) => Room(p) >= Len(Held)
  /\ \A i \in 1 .. Len(Held) : LineEnd(Held, i) => Room(p) >= i - 1

\* grow_read_line_buffer
Grow(p) ==
  /\ pc[p] = "loop" /\ ~Fits(p)
  /\ cap' = [cap EXCEPT ![p] = 2 * @]
  /\ UNCHANGED <<rest, pending, start, locked, pc, buf, lines, stopped, faults>>

\* write_str_slot and free.
Return(p, line) ==
  /\ Goto(p, "loop", "unlock")
  /\ lines' = [lines EXCEPT ![p] = Append(@, line)]
  /\ buf' = [buf EXCEPT ![p] = <<>>] /\ cap' = [cap EXCEPT ![p] = 0]

\* A whole line is pending.
TakeLine(p) ==
  /\ pc[p] = "loop" /\ Fits(p)
  /\ \E i \in 1 .. Len(Held) :
       /\ LineEnd(Held, i) /\ Return(p, buf[p] \o Before(Held, i))
       /\ IF i = Len(Held) THEN start' = 0 /\ pending' = <<>>
          ELSE start' = start + i /\ UNCHANGED pending
  /\ UNCHANGED <<rest, locked, stopped, faults>>

TakeAll(p) ==
  /\ pc[p] = "loop" /\ Fits(p) /\ Held # <<>> /\ OneLine(Held)
  /\ buf' = [buf EXCEPT ![p] = @ \o Held]
  /\ start' = 0 /\ pending' = <<>>
  /\ UNCHANGED <<rest, locked, pc, cap, lines, stopped, faults>>

\* Some of the bytes that are there, as many as were asked for at most.
\* Mutant: as many as fit the buffer are asked for.
AskForRoom(p) == Room(p)
AskFor(p) == IF Room(p) < Chunk THEN Room(p) ELSE Chunk

Read(p, n) ==
  /\ pc[p] = "loop" /\ Held = <<>> /\ Fits(p)
  /\ n \in 1 .. Len(rest) /\ n <= AskFor(p)
  /\ rest' = SubSeq(rest, n + 1, Len(rest))
  /\ LET fresh == SubSeq(rest, 1, n) IN
       \/ /\ OneLine(fresh)
          /\ buf' = [buf EXCEPT ![p] = @ \o fresh]
          /\ UNCHANGED <<pending, start, pc, cap, lines>>
       \/ \E i \in 1 .. n :
            /\ LineEnd(fresh, i) /\ Return(p, buf[p] \o Before(fresh, i))
            /\ pending' = After(fresh, i) /\ start' = 0
  /\ UNCHANGED <<locked, stopped, faults>>

\* Mutant: no bytes means try again.
RetryAtEnd(p) ==
  /\ pc[p] = "loop" /\ Held = <<>> /\ Fits(p)
  /\ rest = <<>> \/ AskFor(p) = 0
  /\ UNCHANGED readVars

\* `read` returns 0: at the end of the file, and if it was asked for nothing.
EndOfFile(p) ==
  /\ pc[p] = "loop" /\ Held = <<>> /\ Fits(p)
  /\ rest = <<>> \/ AskFor(p) = 0
  /\ Return(p, buf[p])
  /\ UNCHANGED <<rest, pending, start, locked, stopped, faults>>

\* EINTR, which goes round the loop, and any other error, which ends the process.
Interrupted(p) ==
  /\ pc[p] = "loop" /\ Held = <<>> /\ Fits(p)
  /\ faults < MaxFaults /\ faults' = faults + 1
  /\ stopped' \in BOOLEAN
  /\ UNCHANGED <<rest, pending, start, locked, pc, buf, cap, lines>>

\* The guard is dropped.
Unlock(p) ==
  /\ Goto(p, "unlock", "idle")
  /\ locked' = NoProc
  /\ UNCHANGED <<rest, pending, start, buf, cap, lines, stopped, faults>>

Go(p) ==
  \/ Lock(p) \/ Grow(p) \/ TakeLine(p) \/ TakeAll(p)
  \/ (\E n \in 1 .. Len(rest) : Read(p, n)) \/ EndOfFile(p) \/ Unlock(p)

Over ==
  /\ stopped \/ \A p \in Proc : pc[p] = "idle" /\ Len(lines[p]) = MaxCalls
  /\ UNCHANGED readVars
Next == (~stopped /\ \E p \in Proc : Call(p) \/ Go(p) \/ Interrupted(p)) \/ Over
Spec == Init /\ [][Next]_readVars

\* A thread that is in a call goes on, while the process lives.
FairSpec == Spec /\ \A p \in Proc : WF_readVars(~stopped /\ Go(p))

-----------------------------------------------------------------------------
(* Properties *)

TypeOK ==
  /\ rest \in Seq(Byte) /\ pending \in Seq(Byte) /\ start \in Nat
  /\ locked \in Proc \cup {NoProc}
  /\ pc \in [Proc -> {"idle", "spin", "loop", "unlock"}]
  /\ buf \in [Proc -> Seq(Byte)] /\ cap \in [Proc -> Nat]
  /\ lines \in [Proc -> Seq(Seq(Byte))]
  /\ stopped \in BOOLEAN /\ faults \in Nat

\* One call at a time has the state and a buffer.
Serial ==
  \A p \in Proc :
    /\ pc[p] \in {"loop", "unlock"} <=> locked = p
    /\ pc[p] # "loop" => buf[p] = <<>>
    /\ OneLine(buf[p])

\* What was read too far fits the pending array of READ_LINE_CHUNK bytes, and
\* a line never outgrows the buffer it is copied into.
InBounds ==
  /\ start <= Len(pending) /\ Len(pending) <= Chunk
  /\ \A p \in Proc : Len(buf[p]) <= cap[p] /\ (pc[p] = "loop" => cap[p] > 0)

\* The inductive invariant: the lock serializes the calls, and every copy stays
\* within its buffer however a read is cut short.
ReadInvariant == TypeOK /\ Serial /\ InBounds

\* The calls of all threads together read the input line by line: none is
\* lost, torn, joined with another or given twice, whatever the sizes of the
\* reads and wherever the bytes beyond a line are kept.
Lines == INSTANCE LineStream
           WITH unread <- (IF locked = NoProc THEN <<>> ELSE buf[locked]) \o Held \o rest
ReadsLines == Lines!Spec

\* Every call returns, unless a read fails and the process ends.
EveryCallReturns == \A p \in Proc : pc[p] # "idle" ~> pc[p] = "idle" \/ stopped
=============================================================================
