# Ryo: a verification development

Ryo is a compiler, written in Rust, for an indentation-based language whose
values have one owner ("Ownership Lite"). It runs programs through a JIT or
builds executables with an object file, an embedded runtime archive and the Zig
toolchain as the linker. This directory holds TLA+ modules that model the parts
of the compiler where order, paths and concurrency decide, the TLC runs that
check them on small instances, and TLAPS proofs for every instance.

Source paths are relative to the repository's root. `PROJECT.json` gives, for
every definition that models code, the lines it stands for.

## 1. The system

```
source -> lexer -> indent -> grammar -> astgen (UIR) -> sema (TIR) -> Flow IR
       -> ownership::check (diagnostics + sidecar of frees)
       -> codegen -> JIT, or object file -> runtime cache -> Zig install -> link
```

Nothing in the front end is concurrent: its hazards are paths (branches, loops,
early exits) and the order in which a sequential pass visits them. Concurrency
and crashes are between processes, which share `~/.ryo` and the directory of
the source: two file locks, a cache, a staging directory, an installed tree and
an object file.

### Inventory

**Lexer** (`ryo-frontend/src/lexer.rs`). State: a position. Tokens with spans,
string escapes. Correct: spans cover the text, no token lost. Not modelled.

**Indentation pass** (`ryo-frontend/src/indent.rs`). State: a stack of levels,
seeded with 0. One operation per token: at the newline of a line with something
on it push, keep, or pop to an equal level, or report blanks or a level that
matches nothing. Correct: every token is in the blocks its line hangs in, and
just the ill-indented files are refused. Modelled.

**Grammar** (`ryo-frontend/src/grammar*`, `parse.rs`). State: the arenas of the
AST, a stack of checkpoints on them, the errors. Combinators try alternatives;
a failed one gives its tokens and errors back but not what it built. Correct:
the tree has every statement where the markers put it, a broken line is one
error and takes only its own block along, and leaves nothing in the arenas.
Modelled for statements; an expression, a signature or a pattern is one token.

**UIR, TIR** (`ryo-core/src/{uir,tir}*`, `extra.rs`). State of a builder: a list
of instructions and an arena of words for the payloads of those of variable
size. Operations: one constructor and one view per instruction; over a finished
body, walks that other passes ask for reachability, for matches in operands, for
owner tokens, for definite return, for the path to a jump. Correct: a view gives
back what was built, and the walks say what holds of the tree. Modelled.

**AST, astgen** (`ryo-core/src/ast.rs`, `ryo-frontend/src/astgen*`). Immutable
data and a tree rewrite. Not modelled beyond what `Grammar` builds.

**Semantic analysis** (`ryo-frontend/src/sema`). State: a chain of scopes, the
intern pool, the diagnostics sink, inferred error sets. Operations: declare,
look up, assign, check a call. `error_inference.rs` is a fixed point over the
call graph. Modelled only as far as it decides which names a statement may read
and assign (`Visible`, `Legal`), and for `match`: patterns, coverage and the
type of the join.

**Flow IR** (`ryo-core/src/flow*`). Built once per body: blocks, terminators,
and for every instruction the place it reads, produces or stores to. Correct:
`invariants.rs`. Modelled: the edges of `if` and `while`, homes, temporaries.

**Ownership walk** (`ryo-frontend/src/ownership/{walk,merge,transfers}.rs`,
`walk/cascades.rs`, `loops/mod.rs`). State: a lattice (the state of every owner,
the owner seated in every binding), restored and merged at branches and
iterated at loops; a diagnostics sink, a log of transfers, and a sidecar of
frees. Operations: one per kind of statement. Hard: a value moved on one path
only, reseated on another, in loops, out of loops. Correct: an accepted program
never uses a value after it was moved and never frees one twice. **The core of
this development.**

**Views, aggregates** (`views.rs`, `aggregates.rs`). They extend the walk: a view
freezes its root while it lives, a field cannot be moved out of its struct. Not
modelled.

**Cleanup** (`cleanup.rs`, `exit_frees.rs`, `dead_stores.rs`, `dominance.rs`,
`loops/`, `ryo-core/src/ownership.rs`). State: the sidecar of frees. Six passes
after the walk decide after which instruction, on which edge, in which arm or
before which overwrite each owner is freed. Correct: on every path each live
value is freed once, after its last read. Modelled for named bindings. A
validator, `cleanup_validation*`, re-checks the schedule in debug builds: it
proves on the control-flow graph that no path releases a buffer twice or leaves
one behind. Modelled for the same bindings.

**Code generation** (`ryo-backend/src/codegen`). Translates a body along its
Flow blocks. State: the slots of the names, the range facts of the int
variables, scoped by marks on a log; the blocks of the release schedule.
Modelled: what bindings, calls, returns, jumps and releases do to storage, the
ranges and the overflow guards they let out, the dispatch of `match` and the
binding of its payloads. Refused on errors.

**Runtime library** (`runtime/src/lib.rs`). Strings of up to 23 bytes inline,
growth to the next power of two. `io_read_line` accumulates a line in a buffer
that doubles, and keeps what it read too far in state shared by all threads
behind a spin lock; reads are short, interrupted or fail. Correct: all calls
together read the input line by line. Modelled: `io_read_line`.

**Toolchain installer** (`ryo-backend/src/toolchain.rs`). State on disk: a lock
file, a staging directory, `zig-<version>`. `ensure_zig`: lock, look, download,
verify, extract, rename. Hard: several installers, crashes, bad downloads,
leftovers. Correct: what is installed is whole and is never touched again, and
whoever needs it gets it. Modelled.

**Runtime archive cache** (`ryo-backend/src/runtime_lib.rs`). State on disk: a
lock file, archives named by hash, temporary files. Extraction sweeps, writes,
renames, evicts, and hands the lock to the caller. Correct: the archive that is
linked is there and whole, the cache is bounded. Modelled.

**Build** (`ryo-driver/src/pipeline/build.rs`, `ryo-backend/src/linker.rs`).
Composes object file, cache, installer and linker; the install lock is taken
inside the cache lock. Correct: each link reads its own whole inputs, no build
waits for ever, the object file goes. Modelled.

**Driver, command line, scripts, benchmarks, documentation.** Glue and
printing. Not modelled.

## 2. The modules

| module | what it is |
|---|---|
| `Indent` | the indentation pass, against a definition of blocks |
| `Indent_proof` | of any file: blocks as the tabs say, refusals right, no token lost |
| `Grammar`, `MCGrammar` | the statement parser over its markers |
| `OwnershipWalk`, `MCOwnershipWalk` | the walk over a body, and the execution of accepted bodies |
| `OwnershipWalk_proof` | types, the ascent of loop entries, held names, Rule 7, and the caller's values: borrowed parameters always, inout ones unless a body hands them on |
| `DropSchedule`, `MCDropSchedule` | the passes of cleanup over a walked body, and the execution with its releases |
| `CleanupValidation` | the debug build's validator of that schedule |
| `MatchArms`, `MCMatchArms` | one `match`, from its patterns to its join |
| `MatchArms_proof` | the first arm that matches runs and binds what it names, the join has its value, refusals are right |
| `ExtraWords`, `UirWires`, `TirWires` | the payloads of the intermediate forms as words, encoders and views |
| `Arena` | both forms as their builders grow them |
| `TirShape`, `MCArena` | the walks over a typed body |
| `IntRange` | intervals of ints of any width, with the code's arithmetic on them |
| `RangeGuards`, `MCRangeGuards` | facts, slots and guards of a body, and its execution |
| `RangeGuards_proof` | the arithmetic is sound, guards follow facts, names follow scopes |
| `ToolchainInstall` | `ensure_zig` by any number of processes |
| `AtomicInstall` | what `ensure_zig` promises: the abstract specification |
| `ToolchainInstall_proof` | the invariant, its consequences, the refinement |
| `RuntimeCache`, `MCRuntimeCache` | the archive cache |
| `RuntimeCache_proof` | its invariant, the bound, the order of eviction |
| `Build`, `MCBuild` | `ryo build`, an instance of both on the same processes |
| `Build_proof` | the invariants of the parts survive the composition; objects of different sources stay apart |
| `ReadLine` | `io_read_line` by any number of threads |
| `LineStream` | what `io_read_line` promises: the abstract specification |
| `ReadLine_proof` | the buffers' bounds, the refinement |

### OwnershipWalk

A body is a sequence of tokens: `decl`, `assign`, `call`, `return`, `break`,
`continue`, and the brackets of `if` and `while`. The walk (phase `walk`) reads
them from left to right and chooses the next one when it first gets there,
among those `Legal` allows, so that TLC explores every body together with its
walk. A loop sends `pc` back to its start; tokens already read stay. When the
walk ends without diagnostics the body is executed (phase `run`), with
conditions that go either way, over one slot per binding.

| model | code |
|---|---|
| `own.st`, `own.cur` | `Ownership.states`, `Ownership.current_owner` |
| `<<n, -1>>`, `<<n, i>>` | `Owner`: the Flow place of a home or of a temporary |
| `stack` | the recursion of `analyze_if_cascade` and `analyze_loop`, with their snapshots |
| `stack[k].entry`, `.phase` | `entry_state` of a loop, its propagation and its check pass |
| `out` | the sink, `owner_hazards` (moves), `free_on_reassign`, the frees of diverging arms |
| `live` | whether the end of the current block list reaches the join |
| `last` | `Walk::last_inst` |
| `Walk...` actions | the handlers of `walk.rs`, the cascade, the two phases of the loop |
| `Run...` actions | what the emitted code does with the storage of a binding |

Three choices deserve a word.

*Hash order.* `merge_binding_states` writes each binding's state through its
pre-branch owner while it iterates a hash map. When two bindings share an owner
the last write stays. `Overrides` is therefore a set: any of the writes may be
the last one.

*The scratch sink.* The propagation passes of a loop report into a throw-away
sink and sidecar, and the hazard log is cut back before the check pass. The
model empties `out` at each pass and restores `saved` before the check pass.

*Ownership of conditions.* Conditions read nothing. Every value in the model is
of a type that needs drop.

### DropSchedule and CleanupValidation

`EXTENDS OwnershipWalk` and starts where its walk ends. `stage` goes from `walk`
to `clean`, where one action, `Clean`, makes all passes in the order of
`ownership/mod.rs` (`Schedule`), then `run` and `exit`. `drops` is the schedule;
a drop names an owner and the place where it fires (after a statement, at a
read, at the start of a block), and `BufferOf` the storage it reads. The
execution makes a buffer for each new value, moves it between bindings (`held`)
and marks it dead at a release (`alive`); `ReleasedOnce` and `ReadsAlive` look at
buffers, never at the schedule.

`CleanupValidation` adds the debug validator to the step `Clean`. It never
executes anything: a `Layout` of blocks and points, the events of each binding
at their points, and two searches along paths give a `verdict` for each binding,
"double", "leak", or "unseen" where coverage does not look. A verdict stands for
the panic of a debug build. `LeakSound` compares it with the execution.

### RangeGuards and IntRange

Phases `write`, `emit`, `run`. A body of int arithmetic is written token by
token; the generator goes through it once with `facts` and `slots`, both
functions that a `log` undoes back to a mark, and gives each operation a set of
guards (`guards`); then the emitted code runs from every input, on ints of
`Low .. High`. A fact that is false makes the code leave a guard out that would
have trapped.

### MatchArms

One `match` and one value. Stages `resolve` (patterns against the scrutinee's
type), `cover` (which variants the arms before have taken), `type` (the join),
`route` (the dispatch that is emitted, arm by arm), then the program: `test`
(the switch, or one comparison after the other), `enter` (payloads are bound),
`body`, `join`. The value is any of the type; the arms are any, and a match that
an error was reported for ends in `refused`. Coverage and dispatch are separate
code with separate notions of a dead arm; the properties compare both with
`Matched`, the meaning of a pattern. An arm with a shape counts for nothing in
coverage, so a `_` is still required after it, as the specification says, though
dispatch treats the shape as any other. `MatchesAssumption` says what a type is:
variants have different names, a scalar has one slot, every field has a value,
and a pattern has finitely many arguments.

### Grammar

The parser's combinators are parsing expressions: an operator's answer is
whether it matched, the place after it, the errors it reports and the parse
state it leaves, which a failure does not undo. `BeginStatement` and
`FinishStatement` push and pop the checkpoints as the code does, so an
alternative that fails between them leaves one behind. The properties know only
the lines: `Under`, `Sound` and `Standing` define from the tabs and the words
which lines are statements and which are swallowed. They hold for `Recoverable`
files. Three shapes are excluded, as the parser does worse on them:
a first line that is indented (section 4); a statement that a blank line parts
from a deeper line, which loses the whole function around it and leaves nodes of
it in the arena, contrary to `statements.rs` 147-150; and a header whose
same-line body or missing colon is the last line of a block, since the swallow
runs over the `Dedent` (`statements.rs` 505, 526).

### Arena, TirShape and the wires

A behaviour builds one body bottom up, as astgen and sema do: an action per
constructor appends an instruction and its payload. An operand is the index of
an instruction built before; `stack` holds those that no instruction has taken
yet, so that every body is a tree in post-order (`validate_tree_shape`). `given`
and `took` record what each constructor was called with. `ExtraWords`,
`UirWires` and `TirWires` have the encoders and views word by word, with the
sentinels, flags and lengths of the code; `MaxWord` is `u32::MAX`, and an int
literal takes two words. `ViewsRoundTrip` compares each view with `given`, after
every later instruction too.

`TirShape` has the walks. Their references are stated over `took`, and decode
nothing. A walk with a limit keeps it as a constant, at 1 and 2 where the
code has 64 and 32, so that the small bodies reach the paths behind the limit.
`JumpPathRight` claims that a branch not taken is off the path only where the
pass tells branches apart (`ToldApart`; section 4).

### ToolchainInstall and AtomicInstall

One program counter per process, the lock's holder, and the content of the
archive file, the staged tree and the installed directory (`none`, `partial`,
`bad`, `good`, and for the directory also `nozig`: no binary in it). Removing
the staging directory is `.ok()` in the code and may leave anything
(`Leftover`). A crash frees the lock and leaves the files; a failing call
returns an error and does the same. `layout` is the shape of the pinned
archive, chosen once. `AtomicInstall` has one Boolean, `installed`, and the
answers: `Ok` is only given after it has become true, and it stays true.
`KeepsPromise` is that `ToolchainInstall` implements it with
`installed <- (zig = "good")`.

### RuntimeCache

`entry`, `mtime` and `temp` are the directory; the lock is taken in `LockCache`
and given back by the caller in `Release`, after the link. A new archive gets
any modification time, since clocks are coarse and may be set. `odd` entries
are not regular files.

### Build

Instances of the two modules above on the same processes, the steps of
`build_file` around them, and one object file per source (`ObjectOf`): right for sources whose paths
differ in more than the extension, as `.ryo` files do; `foo.ryo` and `foo.txt`
would share `foo.o`. `faults` is shared, so a run's faults can strike any part.

### ReadLine and LineStream

| model | code |
|---|---|
| `rest` | the bytes standard input still has |
| `pending`, `start` | `ReadLineState.pending[..pending_len]`, `pending_start` |
| `locked` | the atomic flag, with the thread that set it |
| `buf`, `cap` | `buf[..len]` and `cap` of each call |
| `lines` | what each thread got in its out-slots |
| `Call`, `Lock`, `Unlock` | `ryo_read_line`, the compare-exchange, the guard's drop |
| `TakeLine`, `TakeAll`, `Grow`, `Read`, ... | the branches of the loop of `read_line_from` |

A read returns any number of bytes from one to what was asked for, and nothing
only at the end of the file: the file descriptor blocks. A read that fails ends
the process (`stopped`). The failure of an allocation, which also ends it, is
left out. The three places that grow the buffer are one action, `Grow`, and
`Fits` says when each is done with it. `LineStream` has the unread input and the
lines given; a call takes the next line in one step. `ReadsLines` is that
`ReadLine` implements it, where the unread input is the buffer of the call that
has the lock, then the bytes held over, then the file.

### Indent

A file is a sequence of tokens: words, and newlines that carry the number of
tabs behind them or a white space error. The dedent loop takes a step per level
(`Shallower`), then `Same` or `NoSuchLevel` decides. `out` holds the place of
each token and the markers. The properties do not look at the stack: `Around(k)`
defines, from the tabs of the lines alone, the levels of the blocks word `k` is
in, and `Placed(k)` whether its line may stand where it stands. The lexer drops
comments and the blanks before the first line, so neither occurs. The run hands
the pass the files that `Grammar` writes; `IndentSpec` is the pass alone, over any
file, and what the proof is about.

## 3. The runs

| run | states | shows |
|---|---|---|
| `walk` | 951,108 | no use after a move, no free of a live value, transfers logged, Rule 7, the caller's values; the entries of loops ascend and every walk ends |
| `walk_jump` | | a violation, finding 1 |
| `drop` | 508,979 | every buffer is released once, after its last read, on every path; the validator's verdicts hold in the execution |
| `arena` | 302,979 | what was built is read back, and the walks over a typed body agree with its tree |
| `match` | 2,049,386 | the first arm that matches runs and binds the fields it names, the join has a value |
| `ranges` | 3,155,529 | facts are true, no guard missed, every name reaches its variable |
| `ranges_for` | | a violation, finding 2 |
| `front` | 1,162,012 | blocks as the tabs say, statements as the blocks say, one error per broken line |
| `toolchain` | 12,041 | three installers, three faults, all layouts; fair, they get the toolchain in the end |
| `cache` | 768,160 | three builds, two versions, two older archives, bound 2 |
| `build` | 231,646 | three builds, three sources, two versions, bound 1, two faults; fair, every build ends |
| `read_line` | 135,798 | two threads, one letter, chunk 2, all inputs of eight bytes, two calls each, one fault |

**Bounds.** `walk` takes every body of up to seven tokens, three levels deep,
over one local: an `if` with an `else` inside a `while` with a move and a use
around them, which is what it takes for a state of one arm to reach a join, go
round a back edge and be met by another statement; the levels are three because
the fixed point of a loop is recomputed in every pass of the loop around it.
Bodies with `break` and `continue` are walked and not executed (finding 1). With
parameters of every mode, a declaration from another binding, a self-assignment
and calls of two arguments, bodies have four tokens and one level.

`drop` takes four kinds of bodies, since all statements together are out of
reach: branches, loops, jumps and returns around a local that keeps its value
(eight tokens, one level); loops in loops (seven tokens); straight lines that
assign (six); and one loop or `if` that assigns a local declared before it, with
reads and other constructs around (eight tokens, one level). The last kind is
where a release chooses between the home of a binding and the registers of a
value, and where an arm that kept the old value releases it when it starts. It
is cut by `KeptApart` to what no known divergence below touches: one construct
assigns, an `if` that does reads nothing, and after a loop that does and reads
no other read follows; no value is moved there and no jump leaves. A binding gets new values only, and a body with a `return` starts
by moving its owned parameter, so that nothing but the local is at stake there.
The validator's "leak" is excluded for `Uniform` bodies only, without jumps out
of a loop and without an `if` that returns or gives a value away: no known leak
below touches those. Four buffers are one more than any of these bodies has alive.

`ranges` has bodies of six tokens, with at most three statements, two levels,
two names, and ints of two bits (-2 to 1): each operation overflows at both
ends, -2 has no negation, and a loop can reach every value. `CalmFors` keeps out
what finding 2 and the declaration below are about: a `for` body declares no
name directly, and each of its ifs has a written arm that goes on.
`match` has four arms, the smallest number with an arm dead by two others
together and one more after it, over an enum with a variant of each form, a
struct, a bool, an int and a type that cannot be matched; fields in another
order than declared, skipped and literal; and each kind of broken pattern.
`arena` has five kinds of bodies: every instruction of each form, three at a
time, enough for an instruction with a payload between two others; patterns of
UIR (five) and of TIR (seven, with the owner tokens), two arms with bindings
before and behind; and branches, loops and jumps nested in each other (seven).
`front` has files of four lines, three levels deep: `fn`, `if`, `else` and plain
lines, one of them replaced by any of seventeen others (broken, out of place,
with a same-line body, without its colon) or after a blank line; a file of four
lines starts with a function. A file whose `elif` has no colon has five, so that
a block can stand under it behind an `if` with one: the block belongs to the
header's recovery, and its statements are built once. And it has every file of four words and newlines with up to three tabs.

The installer's three processes let one crash, one wait and one
arrive late; three faults let a bad download, a failed removal and a crash meet.
The cache has one more archive than its limit plus the two versions in use, so
an eviction has a choice and the own archive can be the oldest.
The constant 4 of the code is `MaxArchives`, 2 or 1 in the runs.
The 128 of `READ_LINE_CHUNK` is `Chunk`, 2: a read can bring a whole line and
part of the next, or exactly fill the buffer; eight bytes let the buffer get to
four times the chunk, so that its free room is more than the pending array
holds, and two more calls follow the end of the file. One letter is enough for
where lines begin and end; `ReadImplementsLines` is proved for any.
Any increase of the tabs opens one block (`indent.rs` 65-67), so a line may be in
fewer blocks than it has tabs, where `docs/specification.md` 218 has one tab per
level.

**Fairness.** Of `OwnershipWalk`: the walk goes on, a sequential
program that does not wait. Of `ToolchainInstall` and `Build`: weak fairness of
each process's own steps. For the lock this asks little, as no process takes it
for ever and each process takes it once per call; the number of faults is
bounded, so nobody overtakes infinitely often. Of `ReadLine`: a thread inside a
call goes on while the process lives. The spin lock is not fair, but the calls
are bounded by `MaxCalls`, so `EveryCallReturns` says that no call is stuck, not
that a thread cannot be overtaken by endless calls of others; and standard input
always has bytes or has ended. `ToolchainInstall` also has a
user who runs a failed command again (`Again`). Nothing is assumed of faults.

**Deadlock** is checked in every run but `arena`, whose builder simply ends with
its body; elsewhere the modules stutter explicitly only when everybody has
finished.

## 4. Findings

1. `walk_jump`. The join of an `if` takes the states only of arms that fall
   through. A move on an arm that ends in `break` or `continue` is lost: the
   loop's join sees the state at the end of the body, not the state at the
   jump, although `merge.rs` 387-389 says that it keeps contributing. The trace
   is a `while` around `if` / move `x` / `break`, and a use of `x` after the
   loop.
2. `ranges_for`. The exit of a `for` takes back only the loop variable. What the
   join of an `if` in its body, left by `break` in its only written arm, says of
   a variable is still believed after the loop, and an addition there is emitted
   without the guard it needs.

### Divergences without a run

Met as counterexamples of the same properties while the restrictions above were
wider; the runs exclude the shapes.

- `rebind_to_init` stamps the initializer's place Valid. If the initializer
  reads a parameter, this is the place just stamped Moved, contrary to the
  comment at `cascades.rs` 411-414: `d = s`, then a use of `s`, is accepted.
  `RevivedSource` (section 5) proves the step for any binding whose owner is its
  home. A home that was handed on before is another one: `d = x`, `take(d)`, a
  new value for `x`, `e = x`, and a use of `d` is accepted in the model. `ParamText`
  declares `d` from the outer local only and leaves these bodies out; adding
  `Decl(d, n)` for `n` in `MoveParam` violates `NoUseAfterMove` in two tokens.
- The comment at `loops/mod.rs` 261-263 says real bodies need exactly two
  passes. `y = y; take(y)` in a loop takes three, because the early return on
  `y = y` depends on the state. The fixed point is reached all the same.
- A failing extraction returns past the removal of the object file
  (`build.rs` 99-100 and 106).
- Releases. A local of a loop body whose last read is inside a nested `if` or
  loop that also jumps out leaks, or is released in each iteration of the inner
  loop. A store nothing reads leaks in an arm that returns. `x = f()`, a loop
  that assigns `x`, a read, and a read again release the same value twice; so do
  two `if`s one after the other that assign the same binding, and the start of an
  `elif` together with the `else` when an `elif` holds the last read, and an `if`
  and a loop that both assign. A value moved before an `if` that assigns the
  binding, nothing being read afterwards, is released once more by the arm that
  does not assign (`exit_frees.rs` 457-471 does not ask whether it is still
  Valid); and an arm that reads the binding while another arm assigns it
  releases the old value when it starts, before the read (same lines; the
  comment at 410-412 holds for reads after the `if`).
- Jumps and assignments. The comment at `jumps.rs` 89-92 says that a `break`
  leaves the value of a binding assigned right after the loop to the release of
  that assignment. The code compares the instruction that made the value
  (`r`, 415) with the declarations of bindings (`assign_binding`, 176-180), which
  are equal only for a value taken from another local. So in `x = f()`, a loop
  with a `break`, `x = g()`, the `break` releases the first value, and the
  assignment does so again; the same happens if the loop assigns `x` before it
  breaks.
- An `inout` parameter that is assigned inside an arm or a loop and read there:
  the join forgets the new value (`drain_dead_stores` says so, `cleanup.rs`
  490-494, and looks at the home instead), so `instruction_last_use_drop` does
  not see that it escapes and releases what the caller gets back.
- The validator. It panics on bodies the walk accepts: a value moved in the arm of
  an `if` without an `else` is released nowhere when the arm is not taken
  (`cascades.rs` 224-226 leaves it to the last-use pass, which skips it as it is
  Moved at the join), although `cleanup_validation.rs` 133-136 says the pass
  guarantees coverage for clean bodies. And it is silent on a leak: a local that
  an arm declares, never reads and leaves by `return` has no event and no state
  after the join, so `validate_path_coverage` never looks at it ("unseen"). Its
  header (47-52) lets a replacing store establish an obligation; the code lets
  declarations and producers do so, and the displacement at the same point
  discharges the producer's.
- A `mut` declaration directly in a `for` body that shadows an outer name keeps
  the name after the loop (`control.rs` 969-990), which shadowing
  (`docs/specification.md` 243) does not allow.
- In a chain of `and` and `or` conditions the second operand of an `elif` is
  emitted with the facts and slots of the arm before, and the right-hand side of
  an `or` after the join region (`control.rs`, `emission_order`).
- `payload_points` looks only at the first block of each arm, so an `if` whose
  arms all begin with control flow gets the verdict that it never fires, while
  `fire_points.rs` 31-33 speaks of every arm that does not diverge.
- A file whose first line is indented has no tree at all, though
  `statements.rs` 235-237 says a syntax error never discards the rest.
- `collect_jump_path` takes a statement that is no `if` or loop whole, and
  `prune_sibling_match_arms` follows operands only. Branches not taken stay on
  the path of a jump when a match stands in the body of an `if`, an `if` in an arm
  of a match, or the jump in the condition of an `if`, although `tir.rs`
  1407-1420 and `jumps.rs` 288-290 say they are off it.
- A broken `elif` makes the `else` after it an error of its own.

## 5. The proofs

All theorems hold for every value of the constants that satisfies the modules'
assumptions: names are disjoint sets and bodies sequences over `Text`
(`NamesAssumption`); an int is from `-High - 1` to
`High`, which is positive (`WordAssumption`); the text of a body uses its names (`TextAssumption`);
`NoProc` is no process (`ProcAssumption`); there are
finitely many versions of the archive and room for at least one
(`CacheAssumption`, `BuildAssumption`); the types and patterns of a match are what
the type checker lets through to it (`MatchesAssumption`, section 2); the newline is no letter and a chunk has
at least a byte (`ReadAssumption`).

**`Typed`: `Spec => []TypeOK`** of `OwnershipWalk`. `TypeOK` is inductive. Its
burden is the joins, whose values are chosen by position ("the earliest
observation wins"): `LeastExists` is the well-foundedness of the naturals,
`JoinStatesType` and `FirstSeatType` use it, `OverridesType`,
`MergeBranchesType`, `MergeLoopPlainType` lift it to lattices, and there is a
lemma per action after that.

**`LoopJoinAscends`** is about operators only: for lattices `a` and `b`,
`MergeLoopPlain(a, b, f)` is above `a`: Moved stays, a state is only gained, a
seated home stays. This is what the comment at `loops/mod.rs` 215-232 argues.

**`EntriesAscend`: `Spec => EntryAscends`.** The same for every step of every
walk: the entry state of an open loop only goes up. It needs `TypeOK` as the
invariant, `LoopJoinAscends` for `Propagate`, and that every other action
leaves the frames it does not push or pop alone. The height of the lattice is
finite, so each loop converges; that last step is a liveness argument, which
`WalkTerminates` checks and TLAPS cannot do.

**`ArgumentsExclusive`: `Spec => []ExclusiveArguments`** and **`ScopedNamesHeld`**,
for every body. Execution may take any path, but what makes a call break Rule 7
is in its text (`Faulty`), so the theorem is about the walk: it passes each such
call with the real sink at least once, and reports it. Both halves need more
than they seem to. *It reports it*: two moves of one name are found only through
the name's owner and that owner's state, and a join that dropped either would
lose the second move. `ScopeHeld` says that every name in scope where the walk
is has an owner with a state, and `Chain` that whatever the walk goes on with
holds what each open construct found (`Above`): a merge, an override by hash
order, a new entry of a loop or the next arm's start may then put any state
back. A name declared in a block is not held after it, so the two need to know
where scopes end, which `NestedIn` ties to the stack: the depth of the text is
the number of frames, and between a frame's bracket and the walk it is nowhere
less. `ScopeEnds` is the lemma on texts. *With the real sink*: `Noted` says of
each broken call behind the walk that the current sink has it, or that the sink
a propagating loop set aside has it, or that the walk will pass it again on the
check pass of a loop around it. At the end no loop is open, and an empty sink
says there was none. The invariant was model-checked with the run's
configuration before it was proved.

**`BorrowedStay`: `Spec => []BorrowsKept`**, the first half of
`CallerKeepsItsValues`, for every body. That every token that moves a borrowed
parameter is reported cannot be read off the token: the state of its owner may
be lost in a join, and a local declared from the parameter would be seated in
its home and make it Valid, so that the next consume lands silently. That local
is the crux. Declaring it is reported, but perhaps only to a scratch sink, and
the walk goes on with the revived home, back through a loop to statements
before the declaration. The invariant says of each parameter, for as long as no
sink that counts has a report: nothing before `pc` moves it, its home is
Borrowed or Moved (`Intact`), and it has its own home for an owner (`SeatsOf`).
Another name may be seated in that home only if the text binds it from the
parameter, at a token the walk has yet to reach (`Born`); such seats come back
from the end state of an earlier pass. A seat that a name not yet declared has
already is left alone until its declaration (`Kept`), so nothing between can put
the name in the parameter's home unreported. While a sink has a report, nothing
is claimed of the current state, only of what every loop still propagating with an
empty saved sink will restore (`CleanInv`). The invariant was
model-checked over 1.3 million states, with bodies that declare locals from
borrowed parameters in loops, before it was proved.

**`InoutsStay` and `CallersKeepTheirs`.** `Faulty` also counts declarations,
calls and returns that move an inout parameter. Each is reported, since the
parameter is held (`ScopeHeld`), and its owner is never consumable: Valid counts
as Borrowed for what leaves through the write-back pointer (`InoutNoted`). So an
accepted body has none, whatever its text. For an assignment this is not so: it is
reported or a self-assignment, and what the walk takes for one may be of two
names that share a home since a value was seated back in it (section 4). Hence
`CallersKeepTheirs`: `CallerKeepsItsValues` for every body that does not assign
an inout parameter to another name (`HandsOn`), which none of the run's bodies does.

**`RevivedSource`** is about two operators: for any lattice and a binding whose
owner is its home, consuming it stamps the home Moved and `Rebind` with that
home for a place stamps it Valid, while the binding still has it for an owner.
Every move parameter is such a binding at the start of a body.

**`Invariance`: `Spec => []InstallInvariant`** of `ToolchainInstall`.
`PublishedWhole` is not inductive: it needs that the tree renamed into place is
`good`, which needs that the archive was verified and not touched since
(`StagedSoFar`), which needs that nobody else is in the staging directory
(`LockHeld`). `OnlyWholePublished` follows; `InstalledStays` and `Implements`
use the invariant in their steps. For `Implements`, `Install` of a good tree is
`Publish`, `Leave` is `Answer`, `Again` and a crash in the middle of a call
(no answer was given) are `Again` and a stutter.

**`CacheInvariance`: `Spec => []CacheInvariant`** of `RuntimeCache`. That a
held archive is whole is its conjunct `OwnArchiveThere`, which another
build could only disturb from inside the lock (`LockHeld`); that a published
one is whole rests on the holder's temporary file (`TempsAreMine`), which the
sweep of another build could remove if the lock were shared. `Bounded` adds
that only a holder before its eviction adds archives, and `OldestGo` looks at
the two steps that change the directory.

**`WholeInputs`: `Spec => []LinksWholeInputs`** of `Build`. `BuildInvariant` is
both parts' invariants and `LinkHolds`: between extraction and link a build is
inside the cache lock, and it reaches the linker only with an answer `Ok`. The
parts' step lemmas are used through instances of their proof modules; the
`Same...` lemmas say that an instance of a module and of its proof module define
the same, the frame lemmas that a step elsewhere, which may still count a
fault, keeps a part's invariant. A death is proved afresh, since a build may
die while it is in neither part.

**`OwnObjects`: `OwnSource => Spec => []OwnObjectUntilLinked`**. The object file
is named after the source and nothing locks it, so the property is for builds of
different sources (`OwnSource`, the hypothesis of the theorem; section 4 has the
hazard of two builds of one source). `ObjectsApart`, the strengthening, says of
each build at which points its object is its own, whatever died or failed in
between, and needs that a build that is at its link is inside the cache lock.

**`EveryFileIndented`: `IndentSpec => []BlocksAsIndented`**, for any words, any
number of tabs and any file. The pass knows a stack, the property only the tabs
of the lines (`Around`, `Placed`), and the invariant `IInv` ties the two.
`StackRight` says that between lines the stack holds just the levels of the
blocks the last line is in, with its own. In the middle of a dedent it holds less:
still every level the next line could go back to, none that was not open, so
when the loop stops, the top is the line's level or no block around the line has
that level. `SentRight` says of what went out that each word stands as deep as it
hangs, that the markers open one block per level above the base, that places
ascend and none behind a line is missing. `ReadRight` has what was not refused: every
line so far had its place. The lemmas on `Around` say how the levels of a word
follow from those of the word before: the same line keeps them, a deeper line
adds the line before, a shallower one keeps the levels below its own.

**`FirstArmRuns`, `ResultAtJoin`, `RefusalsRight`**: the three properties of
`MatchArms` that have no counting in them. `ResolvedMeaning` is the lemma the rest
stands on: an arm that was not refused accepts (by its discriminant or its
guards) what its pattern matches. `MatchInvariant` then says, of every prefix
of the arms, what coverage has marked (`CoverageSoFar`), what has been reported
(`DiagsSoFar`), which arms are typed (`TypesSoFar`) and what routing has made of
them (`RoutingRight`: for each variant the least arm that takes it; for a scalar
the least wildcard, and one test for each literal before it). Exhaustiveness was
decided on `seen` and the dispatch was built without it, so that nothing traps
needs both: the value's variant is in `seen`, hence some arm has it, hence the
switch has an arm for it. A warned arm has an earlier arm of the same
discriminant, hence never runs.

**`NamesBound`: `Spec => []BindsNamedFields`** is the property with counting. Sema
emits the owner tokens of an arm one by one when it types the arm; code generation
finds the token of a binding again by counting the bindings that move, from the
first arm's. `TokensSoFar` says where the two meet: there are as many tokens as there
are moving bindings in the arms typed so far (`Earlier`), and the binding that the cursor
stands for has its own arm and field there. `TokensOfArm` is the lemma for one arm, by the
bijection of a finite set with its ranks; `TypeArmTokens` puts it behind the tokens of the arms
before. That the field is the one the pattern names is `ResolvedMeaning` again.

**`CondRangeSound`, `MulSound`** and the lemmas on addition, subtraction,
negation and flipped comparisons, on `IntRange`, for ints of any width: the
interval the code computes has every value the operation yields without a trap.
Multiplication is the hard one: the extremes of a product of intervals are among
the four products of the ends, which is split by the signs of the ends.

**`GuardsFollowFacts`**: for every body, in every step of the execution in which
the facts hold, each guard the generator left out would not have trapped. That
the facts do hold (`FactsHold`) relates every run to every emission, and is
model-checked.

**`ScopesFollowText`: `Spec => [](TidyFors => NamesResolved)`**, for every body. The
slots are one table, saved at the head of a construct and given back at its arms
and its end, and block scoping is a fact about the text; the theorem is that the
two agree after any sequence of scopes opened, left and jumped out of. The
hypothesis is what the code needs: `ForExit` gives back the slot of the loop variable
only (section 4), so a `for` that declares names directly in its body, or whose
last statement is an `if` that nothing falls out of, leaves a slot behind. The run's
bodies satisfy it. `Scoped` is the invariant. While the body is written, the stack is
what the text has open (`Opened`), every arm and end has its construct (`Partner`),
and what follows an `endif` without a join block is an arm or an end. While it is
emitted, each mark has the slots that are right at the head of its construct
(`Marked`), and the slots are right, except behind an `endif` without a join
(`AtToken`), where the next token takes them from a mark. `InForceAfterArm` and
`InForceAfterFor` are the lemmas on texts: at the end of an arm the
declarations in force are those in force ahead of the construct. The invariant
was model-checked with longer bodies before it was proved.

**`ReadInvariance`: `Spec => []ReadInvariant`** of `ReadLine`. The invariant is
inductive: types, that the thread past the lock is the one it names and that the
others' buffers are empty (`Serial`), and the bounds of the two buffers
(`InBounds`). The tail of a read fits `pending` since a read is never asked for
more than a chunk (`AskForBounds`), whatever the capacity.

**`ReadImplementsLines`: `Spec => ReadsLines`.** With the unread input as above,
a step that moves bytes between file, held bytes and buffer is a stutter because
concatenation is associative, and one that returns a line is `TakeLine` or
`TakeRest`. `LineAfter` and `LineBefore` say where the first newline of a
concatenation is: behind a text without newlines, or within the first part.
That the buffer has no newline (`Serial`) is what makes the line found in the
fresh bytes the first one of the whole.

**Only model-checked**: everything under fairness (`WalkTerminates`,
`EventuallyInstalled`, `EveryBuildEnds`, `EveryCallReturns`); of the properties that
relate the state of the walk to the storage of the execution, `NoUseAfterMove`,
`DisplacesLiveValue` and `TransfersLogged`: `NoUseAfterMove` is false for arbitrary
bodies (finding 1 and `RevivedSource`), and for those the run takes the inductive
invariant relates every prefix of a path to the lattice at its end; the schedule of
releases and the verdicts of its validator, both defined by recursion on the body;
`FactsHold` (section on the guards); `Grammar`, `Arena` and `TirShape`, whose
properties compare a computation with recursive definitions.

## 6. Not modelled

Of the walk: `for` (the same fixed point as `while`), `or_return`, `catch`,
`match`, views, struct fields, bodies with statements in expressions, dead code
after a jump, shadowing, warnings. Of the cleanup: anonymous temporaries,
promotion buffers, views, payloads of `match`, aggregates, releases moved
forward; of the debug validator, the checks of views, displacements and
promotions. Of the ranges: conditions with `and` and `or`.
Of `match`: `catch`, the qualification of error names, nested bodies, releases
of payloads, the bit set that coverage uses up to 128 variants. Of the grammar:
expressions, types, patterns, enums, error declarations, destructuring.
Of the rest of the front end: types and expressions, error inference, the
lowering from the AST to UIR and from UIR to TIR as a whole. Of code generation: layouts of aggregates and their
drop glue, the JIT.

In the installer and the cache: power loss (the code does not sync before it
renames, so a torn archive under its final name is possible then), and files
that someone outside the compiler changes. In the build: a removal of the
object file that fails, whose result the code ignores; builds of the same
source at the same time, which nothing in the code keeps apart; the executable
of an earlier build.

## 7. Plan

1. *Done*: the modules of section 2, with the proofs of section 5.
2. `Expressions`: the recursive and the iterative evaluators of expressions in
   astgen, sema and codegen give the same answer at every depth limit.
3. `Views`: a view never reads a buffer that was moved, freed or reallocated.
4. `TypeDecls` and drop glue: declaration order, cycles, layouts.
5. Proofs: `FactsHold`; `NoUseAfterMove` for bodies without jumps in which a
   value is bound only once.
