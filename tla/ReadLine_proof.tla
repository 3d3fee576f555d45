---------------------------- MODULE ReadLine_proof ----------------------------
(***************************************************************************)
(* Proofs about ReadLine, for any input, any size of the chunk and of the  *)
(* reads, and any number of threads, calls and faults.                     *)
(***************************************************************************)
EXTENDS ReadLine, SequenceTheorems, TLAPS

-----------------------------------------------------------------------------
(* Lines of sequences *)

\* A sequence cut at i.
LEMMA Pieces ==
  ASSUME NEW s \in Seq(Byte), NEW i \in 1 .. Len(s)
  PROVE  /\ Before(s, i) \in Seq(Byte) /\ Len(Before(s, i)) = i - 1
         /\ \A j \in 1 .. i - 1 : Before(s, i)[j] = s[j]
         /\ After(s, i) \in Seq(Byte) /\ Len(After(s, i)) = Len(s) - i
         /\ \A j \in 1 .. Len(s) - i : After(s, i)[j] = s[i + j]
  <1>1. \A j \in 1 .. i - 1 : s[j] \in Byte
    BY ElementOfSeq
  <1>2. \A j \in i + 1 .. Len(s) : s[j] \in Byte
    BY ElementOfSeq
  <1>3. Len(s) \in Nat
    OBVIOUS
  <1>4. Before(s, i) \in Seq(Byte) /\ Len(Before(s, i)) = i - 1
        /\ \A j \in 1 .. i - 1 : Before(s, i)[j] = s[j]
    BY <1>1, SubSeqProperties DEF Before
  <1>5. After(s, i) \in Seq(Byte) /\ Len(After(s, i)) = Len(s) - i
        /\ \A j \in 1 .. Len(s) - i : After(s, i)[j] = s[i + j]
    BY <1>2, <1>3, SubSeqProperties DEF After
  <1> QED BY <1>4, <1>5

\* Two texts without a newline make one.
LEMMA OneLineConcat ==
  ASSUME NEW s \in Seq(Byte), NEW t \in Seq(Byte), OneLine(s), OneLine(t)
  PROVE  OneLine(s \o t)
  BY ConcatProperties DEF OneLine

\* The first n bytes of a sequence and the others.
LEMMA Split ==
  ASSUME NEW s \in Seq(Byte), NEW n \in 1 .. Len(s)
  PROVE  /\ SubSeq(s, 1, n) \in Seq(Byte) /\ Len(SubSeq(s, 1, n)) = n
         /\ SubSeq(s, n + 1, Len(s)) \in Seq(Byte)
         /\ SubSeq(s, 1, n) \o SubSeq(s, n + 1, Len(s)) = s
  <1>1. \A j \in 1 .. n : s[j] \in Byte
    BY ElementOfSeq
  <1>2. SubSeq(s, 1, n) \in Seq(Byte) /\ Len(SubSeq(s, 1, n)) = n
    BY <1>1, SubSeqProperties
  <1>3. SubSeq(s, n + 1, Len(s)) \in Seq(Byte)
    BY Pieces DEF After
  <1>4. SubSeq(s, 1, n) \o SubSeq(s, n + 1, Len(s)) = SubSeq(s, 1, Len(s))
    BY ConcatAdjacentSubSeq, LenProperties
  <1> QED BY <1>2, <1>3, <1>4, SubSeqFull

\* What is held is the end of pending.
LEMMA HeldType ==
  ASSUME TypeOK, InBounds
  PROVE  Held \in Seq(Byte) /\ Len(Held) = Len(pending) - start
         /\ \A j \in 1 .. Len(pending) - start : Held[j] = pending[start + j]
  <1>1. \A j \in start + 1 .. Len(pending) : pending[j] \in Byte
    BY ElementOfSeq DEF TypeOK, InBounds
  <1>2. start \in Nat /\ Len(pending) \in Nat /\ start <= Len(pending)
    BY DEF TypeOK, InBounds
  <1> QED BY <1>1, <1>2, SubSeqProperties DEF Held

\* Giving a line out keeps the histories of the threads well typed.
LEMMA ReturnType ==
  ASSUME TypeOK, NEW p \in Proc, NEW line \in Seq(Byte), Return(p, line)
  PROVE  /\ pc' \in [Proc -> {"idle", "spin", "loop", "unlock"}]
         /\ buf' \in [Proc -> Seq(Byte)] /\ cap' \in [Proc -> Nat]
         /\ lines' \in [Proc -> Seq(Seq(Byte))]
  <1>1. Append(lines[p], line) \in Seq(Seq(Byte))
    BY AppendProperties DEF TypeOK
  <1>2. <<>> \in Seq(Byte)
    OBVIOUS
  <1> QED BY <1>1, <1>2 DEF TypeOK, Return, Goto

-----------------------------------------------------------------------------
(* The invariant *)

\* The input lies before the program, and nobody has called.
LEMMA InitInvariant == Init => ReadInvariant
  <1> SUFFICES ASSUME Init PROVE ReadInvariant
    OBVIOUS
  <1>1. rest \in Seq(Byte)
    BY DEF Init
  <1>2. <<>> \in Seq(Byte) /\ <<>> \in Seq(Seq(Byte)) /\ Len(<<>>) = 0
    OBVIOUS
  <1>3. TypeOK
    BY <1>1, <1>2, ReadAssumption DEF Init, TypeOK
  <1>4. OneLine(<<>>)
    BY <1>2 DEF OneLine
  <1>5. Serial
    BY <1>4, ReadAssumption DEF Init, Serial
  <1>6. InBounds
    BY <1>2, ReadAssumption DEF Init, InBounds
  <1> QED BY <1>3, <1>5, <1>6 DEF ReadInvariant

\* Calling, locking, growing the buffer, an interrupted read, unlocking.
LEMMA OutsideKeepsInvariant ==
  ASSUME ReadInvariant, NEW p \in Proc,
         Call(p) \/ Lock(p) \/ Grow(p) \/ Interrupted(p) \/ Unlock(p)
  PROVE  ReadInvariant'
  <1> USE ReadAssumption
      DEF ReadInvariant, TypeOK, Serial, InBounds, Goto
  <1>0. \A q \in Proc : Len(buf[q]) \in Nat
    OBVIOUS
  <1>e. Len(<<>>) = 0
    OBVIOUS
  <1>1. CASE Call(p)         BY <1>1, <1>0 DEF Call
  <1>2. CASE Lock(p)         BY <1>2, <1>0, <1>e DEF Lock
  <1>3. CASE Grow(p)         BY <1>3, <1>0 DEF Grow
  <1>4. CASE Interrupted(p)  BY <1>4, <1>0 DEF Interrupted
  <1>5. CASE Unlock(p)       BY <1>5, <1>0 DEF Unlock
  <1> QED BY <1>1, <1>2, <1>3, <1>4, <1>5

\* A call that returns has emptied its buffer.
LEMMA ReturnKeepsInvariant ==
  ASSUME ReadInvariant, NEW p \in Proc, NEW line \in Seq(Byte), Return(p, line),
         UNCHANGED <<locked, stopped>>, faults' \in Nat,
         rest' \in Seq(Byte), pending' \in Seq(Byte), start' \in Nat,
         start' <= Len(pending'), Len(pending') <= Chunk
  PROVE  ReadInvariant'
  <1>1. TypeOK'
    BY ReturnType DEF ReadInvariant, TypeOK
  <1>2. Len(<<>>) = 0 /\ OneLine(<<>>)
    BY DEF OneLine
  <1>3. Serial'
    BY <1>2 DEF ReadInvariant, TypeOK, Serial, Return, Goto
  <1>4. InBounds'
    BY <1>2 DEF ReadInvariant, TypeOK, InBounds, Return, Goto
  <1> QED BY <1>1, <1>3, <1>4 DEF ReadInvariant

\* Text is added to the buffer, and there is room for it.
LEMMA FillKeepsInvariant ==
  ASSUME ReadInvariant, NEW p \in Proc, NEW text \in Seq(Byte), OneLine(text),
         pc[p] = "loop", Len(text) <= Room(p), buf' = [buf EXCEPT ![p] = @ \o text],
         UNCHANGED <<locked, pc, cap, lines, stopped>>, faults' \in Nat,
         rest' \in Seq(Byte), pending' \in Seq(Byte), start' \in Nat,
         start' <= Len(pending'), Len(pending') <= Chunk
  PROVE  ReadInvariant'
  <1>1. buf[p] \in Seq(Byte)
    BY DEF ReadInvariant, TypeOK
  <1>2. buf[p] \o text \in Seq(Byte) /\ Len(buf[p] \o text) = Len(buf[p]) + Len(text)
        /\ OneLine(buf[p] \o text)
    BY <1>1, ConcatProperties, OneLineConcat DEF ReadInvariant, Serial
  <1>3. Len(buf[p] \o text) <= cap[p]
    BY <1>1, <1>2 DEF Room, ReadInvariant, TypeOK
  <1>4. TypeOK'
    BY <1>2 DEF ReadInvariant, TypeOK
  <1>5. Serial'
    BY <1>2 DEF ReadInvariant, TypeOK, Serial
  <1>6. InBounds'
    BY <1>3 DEF ReadInvariant, TypeOK, InBounds
  <1> QED BY <1>4, <1>5, <1>6 DEF ReadInvariant

\* The steps that use what was read too far.
LEMMA TakeKeepsInvariant ==
  ASSUME ReadInvariant, NEW p \in Proc, TakeLine(p) \/ TakeAll(p)
  PROVE  ReadInvariant'
  <1>1. Held \in Seq(Byte) /\ Len(Held) = Len(pending) - start /\ buf[p] \in Seq(Byte)
        /\ start \in Nat /\ Len(pending) \in Nat /\ rest \in Seq(Byte) /\ pending \in Seq(Byte)
        /\ start <= Len(pending) /\ Len(pending) <= Chunk
    BY HeldType DEF ReadInvariant, TypeOK, InBounds
  <1>2. <<>> \in Seq(Byte) /\ Len(<<>>) = 0 /\ 0 <= Chunk
    BY ReadAssumption
  <1>3. CASE TakeLine(p)
    <2>1. PICK i \in 1 .. Len(Held) :
            /\ Return(p, buf[p] \o Before(Held, i))
            /\ IF i = Len(Held) THEN start' = 0 /\ pending' = <<>>
               ELSE start' = start + i /\ UNCHANGED pending
      BY <1>3 DEF TakeLine
    <2>2. buf[p] \o Before(Held, i) \in Seq(Byte)
      BY <1>1, Pieces, ConcatProperties
    <2>3. start' \in Nat /\ start' <= Len(pending') /\ Len(pending') <= Chunk /\ pending' \in Seq(Byte)
      <3>1. CASE i = Len(Held)  BY <1>2, <2>1, <3>1
      <3>2. CASE i # Len(Held)
        <4>1. start' = start + i /\ pending' = pending  BY <2>1, <3>2
        <4>2. i \in Nat /\ i <= Len(pending) - start    BY <1>1
        <4> QED BY <1>1, <4>1, <4>2
      <3> QED BY <3>1, <3>2
    <2>4. UNCHANGED <<rest, locked, stopped, faults>> /\ faults \in Nat
      BY <1>3 DEF TakeLine, ReadInvariant, TypeOK
    <2> QED BY <1>1, <2>1, <2>2, <2>3, <2>4, ReturnKeepsInvariant
  <1>4. CASE TakeAll(p)
    <2>1. OneLine(Held) /\ Len(Held) <= Room(p) /\ pc[p] = "loop"
      <3>1. Room(p) >= Len(Held) /\ OneLine(Held) /\ pc[p] = "loop"
        BY <1>4 DEF TakeAll, Fits
      <3>2. Room(p) \in Int
        BY <1>1 DEF Room, ReadInvariant, TypeOK
      <3> QED BY <1>1, <3>1, <3>2
    <2>2. start' = 0 /\ pending' = <<>> /\ buf' = [buf EXCEPT ![p] = @ \o Held]
          /\ UNCHANGED <<rest, locked, pc, cap, lines, stopped, faults>>
      BY <1>4 DEF TakeAll
    <2>3. faults' \in Nat
      BY <2>2 DEF ReadInvariant, TypeOK
    <2>4. start' \in Nat /\ start' <= Len(pending') /\ Len(pending') <= Chunk /\ pending' \in Seq(Byte)
      BY <1>2, <2>2
    <2>5. rest' \in Seq(Byte)
      BY <1>1, <2>2
    <2> QED BY <1>1, <2>1, <2>2, <2>3, <2>4, <2>5, FillKeepsInvariant
  <1> QED BY <1>3, <1>4

\* What is asked for fits the buffer, and fits pending.
LEMMA AskForBounds ==
  ASSUME ReadInvariant, NEW p \in Proc
  PROVE  AskFor(p) \in Nat /\ AskFor(p) <= Room(p) /\ AskFor(p) <= Chunk /\ Room(p) \in Nat
  <1>1. Len(buf[p]) \in Nat /\ cap[p] \in Nat /\ Len(buf[p]) <= cap[p]
    BY DEF ReadInvariant, TypeOK, InBounds
  <1> QED BY <1>1, ReadAssumption DEF AskFor, Room

\* Reads, and the end of the file.
LEMMA ReadKeepsInvariant ==
  ASSUME ReadInvariant, NEW p \in Proc, EndOfFile(p) \/ (\E n \in 1 .. Len(rest) : Read(p, n))
  PROVE  ReadInvariant'
  <1>1. rest \in Seq(Byte) /\ buf[p] \in Seq(Byte) /\ pending \in Seq(Byte) /\ start \in Nat
        /\ faults \in Nat /\ start <= Len(pending) /\ Len(pending) <= Chunk
    BY DEF ReadInvariant, TypeOK, InBounds
  <1>2. CASE EndOfFile(p)
    <2>1. Return(p, buf[p]) /\ UNCHANGED <<rest, pending, start, locked, stopped, faults>>
      BY <1>2 DEF EndOfFile
    <2> QED BY <1>1, <2>1, ReturnKeepsInvariant
  <1>3. ASSUME NEW n \in 1 .. Len(rest), Read(p, n) PROVE ReadInvariant'
    <2> DEFINE fresh == SubSeq(rest, 1, n)
    <2>1. n \in 1 .. Len(rest) /\ n <= AskFor(p) /\ rest' = SubSeq(rest, n + 1, Len(rest))
          /\ pc[p] = "loop" /\ UNCHANGED <<locked, stopped, faults>>
      BY <1>3 DEF Read
    <2>2. fresh \in Seq(Byte) /\ Len(fresh) = n /\ rest' \in Seq(Byte)
      BY <1>1, <2>1, Split
    <2>3. n <= Room(p) /\ n <= Chunk
      BY <2>1, AskForBounds, ReadAssumption
    <2>4. CASE OneLine(fresh) /\ buf' = [buf EXCEPT ![p] = @ \o fresh]
               /\ UNCHANGED <<pending, start, pc, cap, lines>>
      <3> HIDE DEF fresh
      <3> QED BY <1>1, <2>1, <2>2, <2>3, <2>4, FillKeepsInvariant
    <2>5. ASSUME NEW i \in 1 .. n, Return(p, buf[p] \o Before(fresh, i)),
                 pending' = After(fresh, i), start' = 0
          PROVE  ReadInvariant'
      <3> HIDE DEF fresh
      <3>1. buf[p] \o Before(fresh, i) \in Seq(Byte)
        BY <1>1, <2>2, Pieces, ConcatProperties
      <3>2. pending' \in Seq(Byte) /\ Len(pending') = n - i
        BY <2>2, <2>5, Pieces
      <3>3. start' \in Nat /\ start' <= Len(pending') /\ Len(pending') <= Chunk
        BY <3>2, <2>5, <2>3, ReadAssumption
      <3> QED BY <1>1, <2>1, <2>2, <2>5, <3>1, <3>2, <3>3, ReturnKeepsInvariant
    <2> QED BY <1>3, <2>4, <2>5 DEF Read
  <1> QED BY <1>2, <1>3

\* Every step of any thread.
LEMMA StepKeepsInvariant == ReadInvariant /\ [Next]_readVars => ReadInvariant'
  <1> SUFFICES ASSUME ReadInvariant, [Next]_readVars PROVE ReadInvariant'
    OBVIOUS
  <1>1. ASSUME NEW p \in Proc, Call(p) \/ Go(p) \/ Interrupted(p) PROVE ReadInvariant'
    BY <1>1, OutsideKeepsInvariant, TakeKeepsInvariant, ReadKeepsInvariant DEF Go
  <1>2. CASE UNCHANGED readVars
    BY <1>2 DEF readVars, ReadInvariant, TypeOK, Serial, InBounds
  <1> QED BY <1>1, <1>2 DEF Next, Over

\* Under the spin lock one call at a time reads, and every copy stays within
\* its buffer: for any sizes of chunk and reads.
THEOREM ReadInvariance == Spec => []ReadInvariant
  <1> QED BY InitInvariant, StepKeepsInvariant, PTL DEF Spec

-----------------------------------------------------------------------------
(* The refinement of LineStream *)

\* A line end after text without one.
LEMMA LineAfter ==
  ASSUME NEW s \in Seq(Byte), NEW t \in Seq(Byte), OneLine(s), NEW i, LineEnd(t, i),
         NEW k, k = Len(s) + i
  PROVE  /\ LineEnd(s \o t, k)
         /\ Before(s \o t, k) = s \o Before(t, i)
         /\ After(s \o t, k) = After(t, i)
  <1> DEFINE u == s \o t
  <1>1. i \in 1 .. Len(t) /\ Len(s) \in Nat /\ Len(t) \in Nat /\ k \in Nat
    BY DEF LineEnd
  <1>2. u \in Seq(Byte) /\ Len(u) = Len(s) + Len(t)
        /\ \A j \in 1 .. Len(s) + Len(t) : u[j] = IF j <= Len(s) THEN s[j] ELSE t[j - Len(s)]
    BY ConcatProperties
  <1> HIDE DEF u
  <1>3. k \in 1 .. Len(u)
    BY <1>1, <1>2
  <1>4. LineEnd(u, k)
    <2>1. u[k] = NL
      BY <1>1, <1>2 DEF LineEnd
    <2>2. ASSUME NEW j \in 1 .. k - 1 PROVE u[j] # NL
      <3>1. CASE j <= Len(s)
        BY <1>1, <1>2, <3>1 DEF OneLine
      <3>2. CASE j > Len(s)
        <4>1. j - Len(s) \in 1 .. i - 1 /\ j \in 1 .. Len(s) + Len(t) /\ ~(j <= Len(s))
          BY <1>1, <3>2
        <4> QED BY <1>2, <4>1 DEF LineEnd
      <3> QED BY <1>1, <3>1, <3>2
    <2> QED BY <1>3, <2>1, <2>2 DEF LineEnd
  <1>5. /\ Before(t, i) \in Seq(Byte) /\ Len(Before(t, i)) = i - 1
        /\ \A j \in 1 .. i - 1 : Before(t, i)[j] = t[j]
        /\ After(t, i) \in Seq(Byte) /\ Len(After(t, i)) = Len(t) - i
        /\ \A j \in 1 .. Len(t) - i : After(t, i)[j] = t[i + j]
    BY <1>1, Pieces
  <1>6. /\ Before(u, k) \in Seq(Byte) /\ Len(Before(u, k)) = k - 1
        /\ \A j \in 1 .. k - 1 : Before(u, k)[j] = u[j]
        /\ After(u, k) \in Seq(Byte) /\ Len(After(u, k)) = Len(u) - k
        /\ \A j \in 1 .. Len(u) - k : After(u, k)[j] = u[k + j]
    BY <1>2, <1>3, Pieces
  <1>7. Before(u, k) = s \o Before(t, i)
    <2> DEFINE v == s \o Before(t, i)
    <2>1. v \in Seq(Byte) /\ Len(v) = Len(s) + (i - 1)
          /\ \A j \in 1 .. Len(s) + (i - 1) :
               v[j] = IF j <= Len(s) THEN s[j] ELSE Before(t, i)[j - Len(s)]
      BY <1>5, ConcatProperties
    <2> HIDE DEF v
    <2>2. ASSUME NEW j \in 1 .. Len(s) + (i - 1) PROVE Before(u, k)[j] = v[j]
      <3>1. j \in 1 .. k - 1 /\ j \in 1 .. Len(s) + Len(t)
        BY <1>1
      <3>2. Before(u, k)[j] = IF j <= Len(s) THEN s[j] ELSE t[j - Len(s)]
        BY <1>2, <1>6, <3>1
      <3>3. ~(j <= Len(s)) => j - Len(s) \in 1 .. i - 1
        BY <1>1
      <3> QED BY <1>5, <2>1, <3>2, <3>3
    <2>3. Len(Before(u, k)) = Len(v) /\ \A j \in 1 .. Len(Before(u, k)) : Before(u, k)[j] = v[j]
      BY <1>1, <1>6, <2>1, <2>2
    <2>4. Before(u, k) = v
      BY <1>6, <2>1, <2>3, SeqEqual
    <2> QED BY <2>4 DEF v
  <1>8. After(u, k) = After(t, i)
    <2>1. ASSUME NEW j \in 1 .. Len(t) - i PROVE After(u, k)[j] = After(t, i)[j]
      <3>1. j \in 1 .. Len(u) - k /\ k + j \in 1 .. Len(s) + Len(t) /\ ~(k + j <= Len(s))
            /\ k + j - Len(s) = i + j
        BY <1>1, <1>2
      <3>2. After(u, k)[j] = u[k + j]
        BY <1>6, <3>1
      <3>3. u[k + j] = t[k + j - Len(s)]
        BY <1>2, <3>1
      <3> QED BY <1>5, <3>1, <3>2, <3>3
    <2>2. Len(After(u, k)) = Len(After(t, i))
      <3>1. Len(u) - k = Len(t) - i
        BY <1>1, <1>2
      <3> QED BY <1>5, <1>6, <3>1
    <2> QED BY <1>5, <1>6, <2>1, <2>2, SeqEqual
  <1> QED BY <1>4, <1>7, <1>8 DEF u

\* A line end before more text.
LEMMA LineBefore ==
  ASSUME NEW t \in Seq(Byte), NEW r \in Seq(Byte), NEW i, LineEnd(t, i)
  PROVE  /\ LineEnd(t \o r, i)
         /\ Before(t \o r, i) = Before(t, i)
         /\ After(t \o r, i) = After(t, i) \o r
  <1> DEFINE u == t \o r
  <1>1. i \in 1 .. Len(t) /\ Len(t) \in Nat /\ Len(r) \in Nat
    BY DEF LineEnd
  <1>2. u \in Seq(Byte) /\ Len(u) = Len(t) + Len(r)
        /\ \A j \in 1 .. Len(t) + Len(r) : u[j] = IF j <= Len(t) THEN t[j] ELSE r[j - Len(t)]
    BY ConcatProperties
  <1> HIDE DEF u
  <1>3. i \in 1 .. Len(u)
    BY <1>1, <1>2
  <1>4. LineEnd(u, i)
    BY <1>1, <1>2, <1>3 DEF LineEnd
  <1>5. /\ Before(t, i) \in Seq(Byte) /\ Len(Before(t, i)) = i - 1
        /\ \A j \in 1 .. i - 1 : Before(t, i)[j] = t[j]
        /\ After(t, i) \in Seq(Byte) /\ Len(After(t, i)) = Len(t) - i
        /\ \A j \in 1 .. Len(t) - i : After(t, i)[j] = t[i + j]
    BY <1>1, Pieces
  <1>6. /\ Before(u, i) \in Seq(Byte) /\ Len(Before(u, i)) = i - 1
        /\ \A j \in 1 .. i - 1 : Before(u, i)[j] = u[j]
        /\ After(u, i) \in Seq(Byte) /\ Len(After(u, i)) = Len(u) - i
        /\ \A j \in 1 .. Len(u) - i : After(u, i)[j] = u[i + j]
    BY <1>2, <1>3, Pieces
  <1>7. Before(u, i) = Before(t, i)
    <2>1. \A j \in 1 .. i - 1 : Before(u, i)[j] = Before(t, i)[j]
      BY <1>1, <1>2, <1>5, <1>6
    <2> QED BY <1>5, <1>6, <2>1, SeqEqual
  <1>8. After(u, i) = After(t, i) \o r
    <2> DEFINE v == After(t, i) \o r
    <2>1. v \in Seq(Byte) /\ Len(v) = (Len(t) - i) + Len(r)
          /\ \A j \in 1 .. (Len(t) - i) + Len(r) :
               v[j] = IF j <= Len(t) - i THEN After(t, i)[j] ELSE r[j - (Len(t) - i)]
      BY <1>5, ConcatProperties
    <2> HIDE DEF v
    <2>2. ASSUME NEW j \in 1 .. (Len(t) - i) + Len(r) PROVE After(u, i)[j] = v[j]
      <3>1. j \in 1 .. Len(u) - i /\ i + j \in 1 .. Len(t) + Len(r)
            /\ (j <= Len(t) - i <=> i + j <= Len(t)) /\ i + j - Len(t) = j - (Len(t) - i)
        BY <1>1, <1>2
      <3>2. After(u, i)[j] = IF i + j <= Len(t) THEN t[i + j] ELSE r[i + j - Len(t)]
        <4>1. After(u, i)[j] = u[i + j]  BY <1>6, <3>1
        <4>2. u[i + j] = IF i + j <= Len(t) THEN t[i + j] ELSE r[i + j - Len(t)]
          <5>1. PICK m \in 1 .. Len(t) + Len(r) : m = i + j  BY <3>1
          <5>2. u[m] = IF m <= Len(t) THEN t[m] ELSE r[m - Len(t)]  BY <1>2
          <5> QED BY <1>1, <5>1, <5>2
        <4> QED BY <4>1, <4>2
      <3>3. CASE j <= Len(t) - i
        <4>1. j \in 1 .. Len(t) - i  BY <1>1, <3>3
        <4> QED BY <1>5, <2>1, <3>1, <3>2, <3>3, <4>1
      <3>4. CASE ~(j <= Len(t) - i)
        BY <2>1, <3>1, <3>2, <3>4
      <3> QED BY <3>3, <3>4
    <2>3. Len(After(u, i)) = Len(v) /\ \A j \in 1 .. Len(After(u, i)) : After(u, i)[j] = v[j]
      BY <1>1, <1>2, <1>6, <2>1, <2>2
    <2>4. After(u, i) = v
      BY <1>6, <2>1, <2>3, SeqEqual
    <2> QED BY <2>4 DEF v
  <1> QED BY <1>4, <1>7, <1>8 DEF u

\* The input no call has taken, in the terms of the code.
Taken  == IF locked = NoProc THEN <<>> ELSE buf[locked]
Unread == Taken \o Held \o rest

\* A call that has accumulated s and meets the end of its line in t takes the
\* next line of the stream.
LEMMA TakesLine ==
  ASSUME NEW p \in Proc, NEW s \in Seq(Byte), NEW t \in Seq(Byte), NEW r \in Seq(Byte),
         OneLine(s), NEW i, LineEnd(t, i),
         Unread = (s \o t) \o r, Unread' = After(t, i) \o r,
         lines' = [lines EXCEPT ![p] = Append(@, s \o Before(t, i))]
  PROVE  Lines!TakeLine(p)
  <1> DEFINE k == Len(s) + i
  <1>1. s \o t \in Seq(Byte) /\ i \in 1 .. Len(t) /\ Len(s) \in Nat
    BY ConcatProperties DEF LineEnd
  <1> HIDE DEF k
  <1>2. LineEnd(s \o t, k) /\ Before(s \o t, k) = s \o Before(t, i)
        /\ After(s \o t, k) = After(t, i)
    BY LineAfter DEF k
  <1>3. LineEnd(Unread, k) /\ Before(Unread, k) = s \o Before(t, i)
        /\ After(Unread, k) = After(t, i) \o r
    <2> DEFINE u == s \o t
    <2>1. u \in Seq(Byte) /\ LineEnd(u, k) /\ Before(u, k) = s \o Before(t, i)
          /\ After(u, k) = After(t, i) /\ Unread = u \o r
      BY <1>1, <1>2
    <2> HIDE DEF u
    <2>2. LineEnd(u \o r, k) /\ Before(u \o r, k) = Before(u, k)
          /\ After(u \o r, k) = After(u, k) \o r
      <3>1. u \in Seq(Byte) /\ LineEnd(u, k)  BY <2>1
      <3> QED BY <3>1, LineBefore
    <2> QED BY <2>1, <2>2
  <1>4. k \in 1 .. Len(Unread)
    BY <1>3 DEF LineEnd
  <1>5. Lines!LineEnd(Unread, k) /\ Lines!Before(Unread, k) = s \o Before(t, i)
        /\ Lines!After(Unread, k) = Unread'
    BY <1>3 DEF LineEnd, Before, After, Lines!LineEnd, Lines!Before, Lines!After
  <1>6. Lines!Give(p, Lines!Before(Unread, k))
    BY <1>5 DEF Lines!Give
  <1> QED BY <1>4, <1>5, <1>6 DEF Lines!TakeLine, Unread, Taken

\* What every state has to say to the steps below.
LEMMA State ==
  ASSUME ReadInvariant, NEW p \in Proc
  PROVE  /\ Held \in Seq(Byte) /\ Len(Held) = Len(pending) - start
         /\ rest \in Seq(Byte) /\ buf[p] \in Seq(Byte) /\ OneLine(buf[p])
         /\ pending \in Seq(Byte) /\ start \in Nat /\ start <= Len(pending)
         /\ pc[p] = "loop" => locked = p /\ Taken = buf[p]
         /\ (pc[p] # "loop" /\ locked = p => Taken = <<>>)
  BY HeldType, ReadAssumption DEF ReadInvariant, TypeOK, Serial, InBounds, Taken

\* Calling, locking, growing, an interruption and unlocking take nothing.
LEMMA OutsideTakesNothing ==
  ASSUME ReadInvariant, NEW p \in Proc,
         Call(p) \/ Lock(p) \/ Grow(p) \/ Interrupted(p) \/ Unlock(p)
  PROVE  UNCHANGED <<Unread, lines>>
  <1>1. UNCHANGED <<pending, start, rest, lines, buf>>
    BY DEF Call, Lock, Grow, Interrupted, Unlock
  <1>2. Held' = Held
    BY <1>1 DEF Held
  <1>3. Taken' = Taken
    <2>1. CASE Call(p) \/ Grow(p) \/ Interrupted(p)
      BY <1>1, <2>1 DEF Call, Grow, Interrupted, Taken
    <2>2. CASE Lock(p)
      BY <1>1, <2>2, ReadAssumption DEF Lock, Goto, Taken, ReadInvariant, Serial
    <2>3. CASE Unlock(p)
      BY <1>1, <2>3, ReadAssumption DEF Unlock, Goto, Taken, ReadInvariant, Serial
    <2> QED BY <2>1, <2>2, <2>3
  <1> QED BY <1>1, <1>2, <1>3 DEF Unread

\* What was read too far: a line of it is taken, or it is moved to the buffer.
LEMMA TakeImplements ==
  ASSUME ReadInvariant, NEW p \in Proc, TakeLine(p) \/ TakeAll(p)
  PROVE  Lines!TakeLine(p) \/ UNCHANGED <<Unread, lines>>
  <1>1. pc[p] = "loop" /\ UNCHANGED <<rest, locked>>
    BY DEF TakeLine, TakeAll
  <1>2. /\ Held \in Seq(Byte) /\ Len(Held) = Len(pending) - start
        /\ rest \in Seq(Byte) /\ buf[p] \in Seq(Byte) /\ OneLine(buf[p])
        /\ pending \in Seq(Byte) /\ start \in Nat /\ start <= Len(pending)
        /\ locked = p /\ Taken = buf[p]
    BY <1>1, State
  <1>3. Taken' = buf'[p]
    BY <1>1, <1>2, ReadAssumption DEF Taken
  <1>4. CASE TakeLine(p)
    <2>1. PICK i \in 1 .. Len(Held) :
            /\ LineEnd(Held, i)
            /\ Return(p, buf[p] \o Before(Held, i))
            /\ IF i = Len(Held) THEN start' = 0 /\ pending' = <<>>
               ELSE start' = start + i /\ UNCHANGED pending
      BY <1>4 DEF TakeLine
    <2>2. Held' = After(Held, i)
      <3>1. /\ After(Held, i) \in Seq(Byte) /\ Len(After(Held, i)) = Len(Held) - i
            /\ \A j \in 1 .. Len(Held) - i : After(Held, i)[j] = Held[i + j]
        BY <1>2, Pieces
      <3>2. CASE i = Len(Held)
        <4>1. Held' = <<>>
          BY <2>1, <3>2, SubSeqEmpty DEF Held
        <4>2. After(Held, i) = <<>>
          BY <1>2, <3>1, <3>2, EmptySeq
        <4> QED BY <4>1, <4>2
      <3>3. CASE i # Len(Held)
        <4>1. i \in Nat /\ i < Len(Held) /\ Len(pending) \in Nat
          BY <1>2, <3>3
        <4>2. start' = start + i /\ pending' = pending
          BY <2>1, <3>3
        <4>3. Held' = SubSeq(pending, start + i + 1, Len(pending))
          BY <4>2 DEF Held
        <4>4. \A j \in 1 .. Len(pending) - start : Held[j] = pending[start + j]
          BY HeldType DEF ReadInvariant
        <4>5. \A j \in start + i + 1 .. Len(pending) : pending[j] \in Byte
          BY <1>2, <4>1, ElementOfSeq
        <4>6. /\ Held' \in Seq(Byte) /\ Len(Held') = Len(Held) - i
              /\ \A j \in 1 .. Len(Held) - i : Held'[j] = pending[start + i + j]
          <5>1. start + i + 1 \in Int /\ Len(pending) \in Int /\ start + i + 1 <= Len(pending)
                /\ Len(pending) - (start + i + 1) + 1 = Len(Held) - i
            BY <1>2, <4>1
          <5>2. \A j \in 1 .. Len(Held) - i : (start + i + 1) + j - 1 = start + i + j
            BY <1>2, <4>1
          <5> QED BY <4>3, <4>5, <5>1, <5>2, SubSeqProperties
        <4>7. ASSUME NEW j \in 1 .. Len(Held) - i PROVE Held'[j] = After(Held, i)[j]
          <5>1. i + j \in 1 .. Len(pending) - start /\ start + (i + j) = start + i + j
            BY <1>2, <4>1
          <5> QED BY <3>1, <4>4, <4>6, <5>1
        <4> QED BY <3>1, <4>6, <4>7, SeqEqual
      <3> QED BY <3>2, <3>3
    <2>3. buf'[p] = <<>> /\ lines' = [lines EXCEPT ![p] = Append(@, buf[p] \o Before(Held, i))]
      BY <2>1 DEF Return, ReadInvariant, TypeOK
    <2>4. After(Held, i) \in Seq(Byte)
      BY <1>2, Pieces
    <2>5. Unread' = After(Held, i) \o rest
      <3>1. Unread' = (<<>> \o After(Held, i)) \o rest
        BY <1>1, <1>3, <2>2, <2>3 DEF Unread
      <3> QED BY <2>4, <3>1, ConcatEmptySeq
    <2>6. Unread = (buf[p] \o Held) \o rest
      BY <1>2 DEF Unread
    <2> QED BY <1>2, <2>1, <2>3, <2>5, <2>6, TakesLine
  <1>5. CASE TakeAll(p)
    <2>1. start' = 0 /\ pending' = <<>> /\ buf'[p] = buf[p] \o Held /\ UNCHANGED lines
      BY <1>5 DEF TakeAll, ReadInvariant, TypeOK
    <2>2. Held' = <<>>
      BY <2>1, SubSeqEmpty DEF Held
    <2>3. Unread' = ((buf[p] \o Held) \o <<>>) \o rest
      BY <1>1, <1>3, <2>1, <2>2 DEF Unread
    <2>4. buf[p] \o Held \in Seq(Byte)
      BY <1>2, ConcatProperties
    <2>5. Unread' = (buf[p] \o Held) \o rest
      BY <2>3, <2>4, ConcatEmptySeq
    <2> QED BY <1>2, <2>1, <2>5 DEF Unread
  <1> QED BY <1>4, <1>5

\* A read that meets the end of the line takes it; another takes nothing.
LEMMA ReadImplements ==
  ASSUME ReadInvariant, NEW p \in Proc, NEW n \in 1 .. Len(rest), Read(p, n)
  PROVE  Lines!TakeLine(p) \/ UNCHANGED <<Unread, lines>>
  <1> DEFINE fresh == SubSeq(rest, 1, n)
  <1>1. pc[p] = "loop" /\ Held = <<>> /\ n \in 1 .. Len(rest) /\ UNCHANGED locked
        /\ rest' = SubSeq(rest, n + 1, Len(rest))
    BY DEF Read
  <1>2. /\ rest \in Seq(Byte) /\ buf[p] \in Seq(Byte) /\ OneLine(buf[p])
        /\ locked = p /\ Taken = buf[p]
    BY <1>1, State
  <1>3. fresh \in Seq(Byte) /\ rest' \in Seq(Byte) /\ fresh \o rest' = rest /\ Len(fresh) = n
    BY <1>1, <1>2, Split
  <1>4. Taken' = buf'[p]
    BY <1>1, <1>2, ReadAssumption DEF Taken
  <1>5. \/ /\ buf' = [buf EXCEPT ![p] = @ \o fresh]
           /\ UNCHANGED <<pending, start, pc, cap, lines>>
        \/ \E i \in 1 .. n :
             /\ LineEnd(fresh, i) /\ Return(p, buf[p] \o Before(fresh, i))
             /\ pending' = After(fresh, i) /\ start' = 0
    BY DEF Read
  <1> HIDE DEF fresh
  <1>6. Unread = (buf[p] \o fresh) \o rest'
    <2>1. Unread = (buf[p] \o <<>>) \o rest
      BY <1>1, <1>2 DEF Unread
    <2>2. Unread = buf[p] \o (fresh \o rest')
      BY <1>2, <1>3, <2>1, ConcatEmptySeq
    <2>3. (buf[p] \o fresh) \o rest' = buf[p] \o (fresh \o rest')
      <3>1. \A a, b, c \in Seq(Byte) : (a \o b) \o c = a \o (b \o c)
        BY ConcatAssociative
      <3> QED BY <1>2, <1>3, <3>1
    <2> QED BY <2>2, <2>3
  <1>7. CASE buf' = [buf EXCEPT ![p] = @ \o fresh] /\ UNCHANGED <<pending, start, lines>>
    <2>1. Held' = <<>> /\ buf'[p] = buf[p] \o fresh
      BY <1>1, <1>7 DEF Held, ReadInvariant, TypeOK
    <2>2. Unread' = ((buf[p] \o fresh) \o <<>>) \o rest'
      BY <1>4, <2>1 DEF Unread
    <2>3. buf[p] \o fresh \in Seq(Byte)
      BY <1>2, <1>3, ConcatProperties
    <2>4. Unread' = Unread
      BY <1>6, <2>2, <2>3, ConcatEmptySeq
    <2> QED BY <1>7, <2>4
  <1>8. ASSUME NEW i \in 1 .. n, LineEnd(fresh, i), Return(p, buf[p] \o Before(fresh, i)),
               pending' = After(fresh, i), start' = 0
        PROVE  Lines!TakeLine(p)
    <2>1. buf'[p] = <<>> /\ lines' = [lines EXCEPT ![p] = Append(@, buf[p] \o Before(fresh, i))]
      BY <1>8 DEF Return, ReadInvariant, TypeOK
    <2>2. After(fresh, i) \in Seq(Byte)
      BY <1>3, Pieces
    <2>3. Held' = After(fresh, i)
      <3>1. Held' = SubSeq(After(fresh, i), 0 + 1, Len(After(fresh, i)))
        BY <1>8 DEF Held
      <3> QED BY <2>2, <3>1, SubSeqFull
    <2>4. Unread' = (<<>> \o After(fresh, i)) \o rest'
      BY <1>4, <2>1, <2>3 DEF Unread
    <2>5. Unread' = After(fresh, i) \o rest'
      BY <2>2, <2>4, ConcatEmptySeq
    <2> QED BY <1>2, <1>3, <1>6, <1>8, <2>1, <2>5, TakesLine
  <1> QED BY <1>5, <1>7, <1>8

\* At the end of the file the rest is a line; at least one byte was asked for.
LEMMA EndImplements ==
  ASSUME ReadInvariant, NEW p \in Proc, EndOfFile(p)
  PROVE  Lines!TakeRest(p)
  <1>1. pc[p] = "loop" /\ Held = <<>> /\ UNCHANGED <<rest, pending, start, locked>>
        /\ Return(p, buf[p])
    BY DEF EndOfFile
  <1>2. /\ rest \in Seq(Byte) /\ buf[p] \in Seq(Byte) /\ OneLine(buf[p])
        /\ locked = p /\ Taken = buf[p]
    BY <1>1, State
  <1>3. rest = <<>>
    <2>1. Room(p) >= 1
      BY <1>1 DEF EndOfFile, Fits
    <2>2. AskFor(p) # 0
      BY <2>1, AskForBounds, ReadAssumption DEF AskFor
    <2> QED BY <2>2 DEF EndOfFile
  <1>4. Unread = (buf[p] \o <<>>) \o <<>>
    BY <1>1, <1>2, <1>3 DEF Unread
  <1>5. Unread = buf[p]
    BY <1>2, <1>4, ConcatEmptySeq
  <1>6. Taken' = <<>> /\ Held' = Held /\ lines' = [lines EXCEPT ![p] = Append(@, buf[p])]
    BY <1>1, <1>2, ReadAssumption DEF Return, Taken, Held, ReadInvariant, TypeOK
  <1>7. Unread' = (<<>> \o <<>>) \o <<>>
    BY <1>1, <1>3, <1>6 DEF Unread
  <1>8. Unread' = <<>>
    BY <1>7, ConcatEmptySeq
  <1>9. \A i \in 1 .. Len(Unread) : Unread[i] # NL
    BY <1>2, <1>5 DEF OneLine
  <1> QED BY <1>5, <1>6, <1>8, <1>9 DEF Lines!TakeRest, Lines!Give, Unread, Taken

\* The calls of any number of threads implement LineStream: together they
\* read the input line by line, for any sizes of chunk and reads.
THEOREM ReadImplementsLines == Spec => ReadsLines
  <1>1. Init => Lines!Init
    <2> SUFFICES ASSUME Init PROVE Lines!Init
      OBVIOUS
    <2>1. rest \in Seq(Byte) /\ Taken = <<>> /\ lines = [p \in Proc |-> <<>>]
      BY DEF Init, Taken
    <2>2. Held = <<>>
      BY SubSeqEmpty DEF Init, Held
    <2>3. Unread = (<<>> \o <<>>) \o rest
      BY <2>1, <2>2 DEF Unread
    <2>4. Unread = rest
      BY <2>1, <2>3, ConcatEmptySeq
    <2> QED BY <2>1, <2>4 DEF Lines!Init, Lines!Byte, Byte, Unread, Taken
  <1>2. ReadInvariant /\ [Next]_readVars => [Lines!Next]_<<Unread, lines>>
    <2> SUFFICES ASSUME ReadInvariant, [Next]_readVars
                 PROVE  Lines!Next \/ UNCHANGED <<Unread, lines>>
      OBVIOUS
    <2>1. ASSUME NEW p \in Proc, Call(p) \/ Go(p) \/ Interrupted(p)
          PROVE  Lines!TakeLine(p) \/ Lines!TakeRest(p) \/ UNCHANGED <<Unread, lines>>
      BY <2>1, OutsideTakesNothing, TakeImplements, ReadImplements, EndImplements DEF Go
    <2>2. CASE UNCHANGED readVars
      BY <2>2 DEF readVars, Unread, Taken, Held
    <2> QED BY <2>1, <2>2 DEF Next, Over, Lines!Next
  <1>3. ReadsLines <=> Lines!Init /\ [][Lines!Next]_<<Unread, lines>>
    BY DEF ReadsLines, Lines!Spec, Unread, Taken
  <1> QED BY <1>1, <1>2, <1>3, ReadInvariance, PTL DEF Spec
=============================================================================
