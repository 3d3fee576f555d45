----------------------------- MODULE ExtraWords -----------------------------
(* Words of the `extra` arena both intermediate forms (UIR and TIR) keep     *)
(* beside their instructions: an instruction of variable size appends its    *)
(* payload as words and keeps the range it occupies (core/src/extra.rs).     *)
(* Offsets are the code's: the first word of a payload is word 0.            *)
EXTENDS Integers, Sequences, SequencesExt

CONSTANT MaxWord    \* u32::MAX; one less than a power of two

ASSUME MaxWordAssumption == MaxWord \in Nat /\ MaxWord >= 3

None == -1          \* an absent Option; no word is negative

W(w, i) == w[i + 1]
Words(w, at, n) == SubSeq(w, at + 1, at + n)
WordsFrom(w, at) == SubSeq(w, at + 1, Len(w))

\* What an encoder pushes and the length it says it pushed.
Wire(words, len) == [words |-> words, len |-> len]

Counted(list) == <<Len(list)>> \o list
CountedAt(w, at) == Words(w, at + 1, W(w, at))

Chunks(w, k) == [i \in 1..(Len(w) \div k) |-> SubSeq(w, (i - 1) * k + 1, i * k)]

Flag(b) == IF b THEN 1 ELSE 0

\* Mutant: the name as it is.
BindRaw(name) == IF name = None THEN 0 ELSE name
encode_bind(name) == IF name = None THEN 0 ELSE name + 1
decode_bind(word) == IF word > 0 THEN word - 1 ELSE None

OrMax(id) == IF id = None THEN MaxWord ELSE id
UnlessMax(word) == IF word = MaxWord THEN None ELSE word

(* A literal pattern: an i64 in two words, a string's id, or a bool.         *)
WordSize == MaxWord + 1
Bits(v) == v % (WordSize * WordSize)
Signed(bits) == IF bits < (WordSize * WordSize) \div 2
                THEN bits ELSE bits - WordSize * WordSize

LitInt == 0
LitStr == 1
LitBool == 2

encode_lit_value(lit) ==
    IF lit.kind = LitInt
    THEN <<LitInt, Bits(lit.value) % WordSize, Bits(lit.value) \div WordSize>>
    ELSE <<lit.kind, lit.value>>

LitWidth(kind) == IF kind = LitInt THEN 3 ELSE 2

decode_lit_at(w, at) ==
    [kind |-> W(w, at),
     value |-> IF W(w, at) = LitInt
               THEN Signed(W(w, at + 2) * WordSize + W(w, at + 1))
               ELSE W(w, at + 1)]

(* Enum literals share one layout in both forms.                             *)
enum_lit_encode(d) ==
    Wire(<<d.ty, d.variant, Len(d.args), Flag(d.positional)>> \o FlattenSeq(d.args),
         4 + 2 * Len(d.args))

enum_lit_decode(w) ==
    [tag |-> "EnumLit", ty |-> W(w, 0), variant |-> W(w, 1),
     positional |-> W(w, 3) % 2 = 1,
     args |-> Chunks(Words(w, 4, 2 * W(w, 2)), 2)]
=============================================================================
