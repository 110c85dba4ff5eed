# A TLA+ model of the JKV compiler

JKV is a small language with a single-pass compiler written in Go. The parser
emits NASM text while it reads the source; the program is assembled with a
run-time system written in assembler (`lib/sys.asm`), linked and run. Nothing
checks the emitted code: memory is freed by instructions that the parser
decides on from two flags, stack slots are addressed through a counter kept by
the parser, errors travel in a register. These modules model those decisions
together with what the emitted code then does, so that the two can be checked
against each other.

## The system and its parts

| Part | Source | State | Operations | Interacts with |
|---|---|---|---|---|
| string run-time | `lib/sys.asm`, `emit_nasm.go` | heap blocks (header with length and capacity, bytes), `allocation_count` | `_alloc`, `_free_string`, concatenate, extend, append, copy to RAM, write a character | called by emitted code |
| ownership of strings | `expression.go`, `statements.go`, `variables.go` | `VarDefs` with `Destroyed`, `IsTempObj` of each operand, stack slots | operands, `+`, calls, assignments, comparisons, return, end of function | string run-time |
| loops and errors | `iterator.go`, `statements.go`, `state.go`, `variables.go` | `BlockLevel`, `LoopStack`, `LocalSp`, `HasReturned`; at run time rsp and r15 | if, for, loop, break, return, fail, end of block | ownership, iterators written in JKV |
| package imports | `compile.go` | `Packages` with a level each, the recursion | `AddPackage`, `ParseImports`, `CollectPackageImports` | package build |
| call sequences | `code/code.go`, `expression.go` | stacks `ArgCode`, `CleanupCode`, counter `NoCode` | `NewArgCode`, `ConsArgCode`, `SetCleanupCode`, `OutputCleanupCode` | every expression |
| expression code | `expression.go`, `ops.go`, `compare.go` | where the value is: rax or stack | unary, products, sums, comparisons, `&&`, `\|\|` | call sequences |
| package build | `compile.go`, `main.go` | cache directories, object files, `Package.currentlyUsed` | `ProcessPackage`, `BuildLib`, `AssembleFiles`, `Link` | imports |
| run monitor | `main.go` | global `cmd`, a pipe | `Run`, goroutine `monitor` | operating system |
| lexer | `token.go`, `utf8.go`, `unrounded.go` | position, current token, comment level | `next`, `found`, decode, number conversion | parser |
| types, function table | `types.go`, `functions.go` | `FuncDefs`, `TypeDefs` | `CanAssign`, `AddFunc`, `FindFuncDefFromParList` | parser |

The compiler is one thread; the compiled program is one thread; only `main.go`
starts a goroutine. What is hard here is not concurrency but **two executions of
the same text**: the parser walks it once from top to bottom, the program walks
it along paths that jump, repeat and leave early. A flag, a counter or a label
that is right for the text may be wrong for the path.

What makes each part correct:

* strings: each block is freed exactly once, by its owner; no pointer is used
  after its block was freed; header, count and bytes agree; literals are never
  written; a program that exits with 0 has freed everything.
* loops: on every path rsp is where `LocalSp` says, the marks that break and
  return leave in r15 are consumed by the right loop, blocks free what they own.
* imports: what is accepted is complete and acyclic, and the recursion ends.
* calls and expressions: the code computes what the expression means, calls
  what it calls in the right order with the right arguments, frees each
  temporary once and leaves rsp where it was, although the instructions run in
  another order than they are emitted in.
* build: a package is compiled once per build, a failed compile is not taken for
  a finished one, the linker gets all and only the packages used.
* monitor: a running program always has somebody to empty its pipe, `Run`
  returns, and no more output is lost than is under way at the end.
* lexer: the longest lexeme counts at every point, comments, strings and
  characters hide each other correctly, also at the end of the file.

## Modules

| Module | What it is |
|---|---|
| `StringHeap` | memory as a record of cells, `allocation_count` and the first fault; one operator per run-time routine or emitted instruction sequence |
| `StringOwnership` | one function over string variables: flags, slots, evaluation stack, early return, main's epilogue; extends `StringHeap` |
| `StringValues` | the abstract specification: strings as values, no pointers; `StringOwnership` refines it |
| `LoopControl` | one function of nested blocks: the parser emits a sequence of instructions, the machine executes it |
| `PackageImports` | the recursion over the imports of a project |
| `ExprCode` | the code of one statement: the parser's walk over an expression, the stacks of package `code`, the instructions, the machine; which types may be assigned |
| `RunMonitor` | `Run`, the goroutine `monitor`, the programs and their pipes |
| `Lexer` | `next` and `nextChar`, one step per character or token |
| `PackageBuild` | runs of the compiler over a project and its cache, with failures, kills and `-clean`; the import phase is one step |
| `MCStringOwnership`, `MCLoopControl`, `MCPackageImports`, `MCPackageBuild`, `MCExprCode`, `MCRunMonitor`, `MCLexer` | the modules the runs use; `MCExprCode` and `MCLexer` also hold the reference definitions |
| `Inductions` | induction in the form the provers can use; sums over finite sets; reachability |
| `StringOwnership_proofs`, `LoopControl_proofs`, `LoopRules_proofs`, `ExprCode_proofs`, `PackageImports_proofs`, `PackageBuild_proofs`, `RunMonitor_proofs` | theorems |

### StringHeap and StringOwnership

A text is a sequence of chunks, each standing for a number of bytes, so that
lengths and capacities are the code's own numbers (40 = 32 spare bytes + header
for a concatenation, 24 spare bytes for a copy, 4 + 4 for an extension). `Cell`
is a header with the size of its block; a literal is a cell with capacity 0.
Reading a pointer that is nil, stale or never stored sets `fault`; after that
nothing more is said of the run. `v[i] = 'c'` checks no bound: `Poke` changes
the chunk that byte `i` lies in; at or behind the length it leaves text and
length word alone and adds `i` to `past`, the spare bytes that are no longer
zero; outside the block the write is undefined and sets `fault`.

Each action of `StringOwnership` parses one operand, operator or statement *and*
executes its code if control is there (`Executing`). This is exact for
straight-line code; a return inside `if` is the one place where they part
(`flow = "gone"`, `skip`), and loops have a module of their own. `destroyed` is
the set of variables whose `Destroyed` flag is set, `est` holds the `ValueDef`s
of the current expression, with `kind = "temp"` for `IsTempObj`. `Flagged` is
the line of `ParseVarOrFunc` that sets or clears the flag on each read. A call
is a function of one argument that returns a literal or its argument with a
literal appended; calls with several arguments and their clean-up code are in
`ExprCode`. `onStack` says that the last operand is the result of a call, which
the next operand or operator takes from the stack: `s += f()` and `return f(s)`
leave it there, `LocalSp` is not 0 at the end of the function, and
`ParseFuncDef` refuses it (`expression.go:1635`), so that the model has no such
statement.

The compiler accepts programs whose memory handling is wrong: `s = s`,
`s += a + b`, `return s + t`, reading a string after it was moved, returning a
parameter, `s[i] = 'c'` behind the end. `Habits` lists these. With
`Habits = {}` the programs keep the rules the flags assume, and everything is
checked to be right; with all habits only the invariants that need no rules are
claimed. Between the two, `ZeroTerminated` asks of a program only that it stores
characters below the length (no habit `pastEnd`): a program that does not can
overwrite the zero at which printf stops. Such programs exist: `substring` in
`compiler/compiler.jkv` (lines 109-115) stores each character into a `new`
string whose length stays 0. For them only `StaysInBlock` and the other
invariants of `any_program` are claimed. The form `new(String, n, len)`, which
extends the block to fit `len` and sets the length (`expression.go:1050`), is
not modelled.

### LoopControl

The parser actions (`NewVar`, `OpenIf`, `OpenFor`, `OpenLoop`, `Break`,
`Return`, `ParseFail` and the closing braces) append abstract instructions to
`code` and keep `BlockLevel`, `LoopStack`, `VarDefs`, `LocalSp` and
`HasReturned`; when the function is closed the machine runs `code`. A variable
is pushed at run time wherever rsp is and addressed at the offset the parser
computed: `ExecNew` faults when the two differ, `ExecFree` when a slot below
rsp is read, `ExecNext` when the word on top of the stack is not an iterator.
FreeBlockVars walks a Go map; its loads are all relative to rbp and precede the
one `add rsp`, so the order does not matter and the model takes one.

`Habits` again lists what the compiler accepts and gets wrong. Each was found
by the run without it failing:

* `breakUnderVars`: `for i = range(n) { x = 1  if c { break } }` jumps to the
  loop's start without popping `x`, and `next` is called with `x` as iterator.
* `declareAfterBreak`: a variable declared in `loop` behind a break is popped
  at the break label although it was not pushed.
* `declareAfterReturn`: a string declared behind an early return is freed at
  the return label from a slot that was not pushed.
* `returnUnderVars`: `if c ? return` in a loop forgets the variables of the
  block for the code behind it as well.
* `returnInLoop`: a return in `loop` does not return (see the findings).
* `leak`: strings of a `loop` body, and of blocks left by break, return or
  fail, are not freed.

### PackageImports

`stack` is the recursion of `CollectPackageImports`; `level` the map `Packages`.
`Visit` picks any package of the copied map, as Go's range does. `Higher` is
the comparison `AddPackage` takes for a cycle.

### PackageBuild

`asm[p]` is what the cache holds of package `p`: no directory, a directory
without a finished `.asm`, or a finished one; `pkg` the packages with an
`import.pkg`. `known`, `compiled` and `used` are the map `Packages` and its
flags, lost when the run ends. `stack` is the recursion of `ProcessPackage`:
`Collect`, then `Descend` for each import to compile, `InitCompile`,
`CompileEntry` for each directory entry, `OutputPkgFile`. `Fail` is an error
return through all callers: `CompileDir` ends the run, but `main` overwrites the
error of `BuildLib`. `Kill` ends a run between any two steps. The import phase
is one step: rejected or not as `PackageImports` shows (an acyclic project is
accepted, or possibly rejected if it is not graded); missing directories are
left to that module. NASM and the linker are external: an unfinished `.asm` may
or may not assemble, and linking needs the object of each package in the chain
of imports. A recursion of `MaxCalls` calls, one more than the longest chain of
distinct directories, stands for a stack overflow. `sound` records whether the
cache was sound when `CompileDir` began: each directory in it finished, and its
imports there. Objects are named by `short`, the last part of a package's path:
two packages may share one (`Clash`), one called `sys` replaces the run-time
that was copied to the build directory (`HidesSys`), one called `main` is
replaced by the program (`HiddenByMain`). What an `import.pkg` says is not
modelled. One that is missing is an error before `code.NoCode` is raised; one
that does not parse would leave it raised, and after a `BuildLib` that failed so
`CompileDir` would write nothing: this is not a case.

### ExprCode

An expression is a tree, but only for the model: `todo` is the recursion of the
parser, `vals` the `ValueDef`s its callers hold, `gen` the state of package
`code` (`state` is rax, stack or nowhere; `arg` and `clean` the stacks of text;
`sp` is `LocalSp`). Each parser action is what one function does between two of
its recursive calls; in the loops over the operands of `&&` and `||` and over
the arguments of a call, a task carries the number of the round (`i`) and what
the loop keeps (`n`: the label, or `HadAx`). Strings that functions return get
the addresses from `FirstAddress` on, above those of literals and variables
(`MemoryAssumption`), and no address twice. Instructions are records, a piece of text is a sequence of
them; the machine has rax, the stack above the frame, variables, and a memory
that knows which strings exist. After a call rax holds the result or junk, since
only the slot is promised. In rax integers are numbers: `+`, `-`, `*` do not
overflow 64 bits here, and `/` and `%` cut towards zero as idiv does. Variables
are U8, I16, U16 or I64: a store keeps the low bytes (`Wrap`), a load extends
them (`Loaded`). `CanAssign` and `ConstRejected` say which assignments the
compiler refuses; a refused statement has no code to be judged by.
`ResultIsMeaning` then requires that a constant that is accepted is stored
unchanged, and that a number that is computed is cut to the variable's type.

`MCExprCode` gives the meaning of a tree with no rax, stack or text: operands
from left to right, arguments from right to left, `&&` and `||` as far as
needed. `ResultIsMeaning` compares value, calls, their arguments and order, and
the division by zero. `SoundNode` and `SoundStatement` leave out what the
compiler accepts and translates wrongly; each rule is there because the run
fails without it, except for the folding of negative constants, which the
compiler then rejects:

* `x - zero()`: a call without arguments as a right operand drops the text of
  its operand. Behind a constant, which has no text, this does no harm
  (`3 - zero()`), unless the constant begins a further operand of `&&` or `||`:
  in `b && 3 < zero()` the room for the result is made before the jump and
  stays when the jump is taken.
* `b && f(x) > 1`, `f(x) && b`: the code of a call that begins an operand is put
  in front of the jump; the result of a call as first operand is on the stack
  when rax is tested.
* `b && true`, `!true`: a constant operand of `&&`, `||` or `!` has no code, and
  the jump or `not` takes whatever rax holds.
* `-1 - 2`: the result of folding is typed as a string when it starts with a
  minus sign; `1 / 0` between constants panics the compiler.
* `x /= e` computes `e / x`; `x *= f()` does not fetch the result of the call.
* `return f(x)` stores rax, which need not be the result.
* `f(g(), h())` with two temporary strings frees one of them, and a temporary
  inside an argument behind the first is freed at the wrong place.
* `if true`, `if false`: the block of the former is left out, that of the latter
  is not.
* `w = -1` with a U16 `w` is accepted (the bound is -65535) and stores 65535; a
  U16 above 32767 is loaded as a negative number, since `MovOpcode` extends
  every two-byte integer by its sign. The variable of the model starts at 30000
  and is stored to its end, but not loaded again.

### RunMonitor

`cmd` is the one global that `Run` and all goroutines share. A goroutine tests
it, asks the reader for a line, prints it. The lines of a program are numbered,
so that three counters say what has been written, taken from the pipe and
shown. `Wait` closes the pipe: a reader that has lines left goes on, one that
asks for more is told the end. Goroutines of earlier programs may still be at
work while the next one runs. The program and the pipe are external. When main
returns all goroutines end.

### Lexer

`s` holds the fields of `State` the lexer uses, `at` the place in `next`; a text
is a sequence of characters. `NextChar` overwrites the token with EOF at the end
of the text, as the code does. `MCLexer` describes the language independently:
sets of lexemes, the longest one wins; a comment ends where as many `*/` as `/*`
have been seen (the marks may share a character, so `/*/` is a comment). The
texts it leaves out are those where the lexer differs:

* a character literal at the very end of the file is lost: its token is set
  before the closing quote is read, and that sets EOF;
* a character literal without a closing quote swallows the character there;
* `1e5-3`, `1e5.3`, `1ee5`, `0x1.5` and `0xg` are read as one number each.

A character the lexer does not know counts as the end of the file, in the
description too.

## Runs

| Run | Question | Bounds |
|---|---|---|
| `ownership_rules` | do programs that keep the rules use memory soundly, keep the zero behind each string, leak nothing, and see strings as values? | 2 locals, 1 parameter, 3 blocks, 2 operands, 2 chunks, characters stored at 0 and 40 |
| `any_program` | which facts about memory need no rules, even when control leaves before the parser does and characters are stored behind the text? | 1 local, 1 parameter, 2 blocks, capacities 0 and 1 for `new`, all habits, characters stored at 0, 40 and 72; once the caller's string was changed no program with a local variable is followed (`ChangeOrLocal`) |
| `leak_on_return` | are all locals freed at the return label? (no) | as `ownership_rules` with 1 local, habit `returnUse` |
| `loops` | is the stack right, are the marks consumed, is everything freed, do for loops end? | functions of 4 statements, nesting 4, iterators of 2 elements |
| `return_in_loop` | does return return? (no) | 3 statements |
| `build` | are imports compiled in time, what overflows the stack, what do failed and killed builds leave, does `-clean` recover? | main and 3 packages (2 in the library), 2 runs, acyclic graphs in order and 2 cycles, one odd directory; two packages of the same name, or one named `main` or `sys` |
| `failed_build` | is everything imported compiled when a package is? (no) | as `build`, without kills, odd directories and library |
| `expressions` | does the code do what the statement means, is the stack as it was, are temporaries freed? | about 10,000 statements: expressions of depth 3 over 2 integers, a boolean and a string, calls with 0 to 2 arguments nested twice; differences, and constants at the ends of the ranges, assigned to U8, I16, U16, I64; numbers from -2,000,000 to 2,000,000 |
| `run_monitor` | is a running program served, does main end, how much output is lost? | 3 programs with 3, 0 and 5 lines, a pipe of 1 and a reader of 2 lines |
| `lexer` | is every text read as its lexemes, on their lines? | every text over `/ * a` up to 8 characters, over five other alphabets up to 4 or 5 |
| `imports` | is what is accepted complete and acyclic, on every project and in every order? | main and 3 packages, all graphs, any directories missing |
| `diamond_import` | is what is called circular cyclic? (no) | main and 2 packages |

Why the bounds are enough: two locals allow a move, an alias and a stranger; a
third block is the one a concatenation needs beside its operands; the one
literal of 40 bytes outgrows every spare capacity, while one character fits;
`new(String, 1)` is the string that one character fills to the brim. Of a text
of 40 bytes, 0 is the first byte and 40 the zero behind it; 40 is also the last
byte of a text of 41 and lies in the second chunk of one of 80; 72
lies in the second chunk of a text of 80 and is the first byte behind the block
of a concatenation of 40. Four
statements make every pair of nested loops with a variable and a way out, and
two elements make the second iteration, where a stack that drifts shows. Two
runs of the compiler are one that leaves something in the cache and one that
finds it. Depth 3 is an operand of an operand, or an argument of a call in an
argument: every pair of code sequences that meet. `Result` tells arguments and
their order apart, so an exchanged argument changes a result. Three programs
are one whose goroutine lags, one that writes nothing and one that needs its
pipe emptied. Eight characters are a comment in a comment. Three
packages make every cycle shape, chain and diamond that the level test can
distinguish below main. Deadlock is not checked, because each model ends: the
program exits, the function returns, the import phase has its answer.

Fairness: `WF_vars(Next)` in `LoopControl` and `PackageImports`. Both are one
thread of a deterministic program with nothing to wait for, so that as long as
a step is possible one is taken. The runs of `StringOwnership` claim no
liveness. `Lexer`: `WF_vars(Next)`, for the same reason. `RunMonitor`: weak
fairness of main, of each program and of each goroutine on its own, which is
what the Go scheduler and the operating system give; a program is assumed to go
on when its pipe has room.

## Findings

* `leak_on_return`: `return s + "x"` marks `s` as moved because it is the first
  variable read in the return statement; only the new string leaves, and `s`
  is never freed (`expression.go:920`; comment at `expression.go:1604`).
* `return_in_loop`: behind `loop` the mark 2 in r15 is not looked at, so the
  function continues behind the loop (`statements.go:77`, `iterator.go:227`).
* `diamond_import`: a project without a cycle is rejected as a circular package
  import (`compile.go:46`). In larger projects it depends on the order in which
  Go walks the map whether it is.
* `failed_build`: a package whose compilation failed counts as compiled in the
  next build, because its cache directory exists (`compile.go:75`, `230`), in
  contradiction to the comment at `compile.go:226`.

Read off the code and built into `PackageBuild`, but without a run of their own:
a second source file in a package panics, although the comment at
`compile.go:308` allows several; a text file behind the last source file of a
directory hides the directory's imports, because the flags of what is used are
cleared for each entry (`compile.go:205`); the second of two packages whose paths end
alike replaces the first's object, and a package called `main` or `sys` meets
the object of the program or of the run-time; a library that does not compile
after `-clean` is not reported. The properties about links and about `-clean`
name these as preconditions: `GoodBuildsLink` asks for distinct short names
other than these two and one source file per directory, `CleanIsSound` for a
library that compiles.

The programs `ExprCode` leaves out and the texts `Lexer` leaves out are listed
with these modules.

## Proofs

The theorems hold for every value of the constants that satisfies the
assumptions named in the modules: any number of variables, blocks, literals,
chunk sizes, operands, packages, source files and runs, and, where nothing else
is said, every set of habits. The assumptions: the sets are finite and the
names in them differ; a character is one byte (`HeapAssumption`); "no value" is
not a text (`NoVarAssumption`); the compiler can make at least one call
(`BuildAssumption`); literals and variables lie below the heap (`MemoryAssumption`).

**Memory** (`StringOwnership_proofs`). One inductive
invariant, `TypeOK /\ HeapOK(mem)`, with a lemma per memory operation and one
per action: memory has its shape; literals are as they were assembled; a live
block is a header and its capacity, its length counts its bytes and is below a
capacity it owns, and its spare bytes are zeros unless the program has the habit
`pastEnd`; `allocation_count` is the sum of the live blocks. The parts
need each other: an operation leaves a literal alone because its capacity is 0,
which it is because the literal is intact; a string stays short because `Fits`
was tested against a capacity the block really has; a free lowers the count by
what the header says, which is right only while header and block agree. From
it: `TypeCorrect`, `LiteralsNeverChange`, `StringsEndInTheirBlock`,
`CountNeverDrifts`, and, for main's epilogue, `LeakCheckIsRight`. These hold for programs that break every rule, up to their
first undefined access. `StringsEndInZero` is for those that store no character
past the end: the bound that `Fits` tests and the bound of `v[i] = 'c'`, which
only the program knows, together keep the zero.

**Ownership** (the second part of `StringOwnership_proofs`): what the rules buy. The invariant
`RInv` has five parts. `Sound`: no undefined access has happened. `Pointers`: every pointer that may still be used leads to a live string,
and a variable among the operands is still what its slot holds. `Owned`: every
live block is held by a variable to be freed, an operand, the result or main.
`Apart`: no two of these hold the same block, and none of them a block of
main's. `Stage`: what is empty when (no operands outside the body, no result
before the return). `NoFault` alone is far from inductive: that `_free_string`
finds a live block at the return label depends on `Apart` having held through
every move, alias and append before it. From `RInv`: `RulesPreventFaults`,
`RulesGiveOneOwner`, `RulesKeepCallersStrings`, `RulesPreventLeaks`. Their one
hypothesis, `NewHoldsBytes`, says that `new(String, n)` is not called with 0:
`_free_string` takes a string of capacity 0 for a literal and leaves it alone,
so that such a string leaks however well the rules are kept.

The refinement `StringsAreValues` is the theorem `RulesMakeValues`, proved step
by step from `RInv`. The abstract variables (`Vals`, `OperandTexts`, `Over`,
`Returned`) are those of the `INSTANCE` in `StringOwnership`; initial states map
to initial states (`ValuesInit`), and one lemma per action names the abstract
step it is: reading a variable is `Read`, or `Move` when a return names it
first (`VariableIsReadOrMoved`); an assignment is `Assign`, from a variable
that loses its text or from an operand nobody holds (`AssignIsAssign`);
appending, overwriting and declaring are `AppendOperand` and `Change`; freeing a
local is `Drop`; what main does behind the result is silent. The work is in the
frame: a step writes, frees or moves one block, and no variable with a value,
no waiting operand and not the result leads to that block (`OthersKept`,
`OperandsEvaluated`), which is what `Apart` is for. The lemmas about the memory
operations say the text they leave behind (`ConcatEffect`, `AppendStrEffect`,
`WritableEffect`), also when the same block is extended in place.

**Imports** (`PackageImports_proofs`). `LevelsIncrease` is not inductive:
`IInv` says which imports each call on the stack has already dealt with, that a
recorded package has been visited or waits in the `todo` of some call, and how
levels relate to the depth of the calls (`AcceptedLevelsIncrease`). `NInv` adds
that only needed packages are recorded; with it the recorded packages are the
least set that holds main and its own imports (`AcceptedCollectsNeeded`), and
no package lies on a chain that starts at itself, because everything on the
chain is deeper (`AcceptedHasNoCycle`). For the graded projects `GInv` says
that a package is recorded at its depth, and visited at its depth or with its
imports all recorded: then the test of `AddPackage` never fires
(`GradedIsNeverCircular`).

**Builds** (`PackageBuild_proofs`). `BInv` is type correctness with what is
true of each call of `ProcessPackage` under way; it gives `TypeCorrect` and the
action property `TakenFromCacheStays`. For runs that start from a sound cache
`SInv` adds: the calls under way follow the imports, each with fewer packages
below it than the one before (`PathOK`); what a package imports is compiled, yet
to be compiled, or being compiled by the next call (`DepsOK`), and what its
source files read so far import has an `import.pkg` (`ReadyOK`); all that is in
the cache is finished but the innermost package at work (`FinishedOK`), after
`-clean` too if the library compiles (`CleanOK`). `PathOK` holds only
while the directories have one source file each: behind an empty directory the
flag `currentlyUsed` is the importer's, which a run showed. From it:
`ImportsComeFirst`, `RunsUnfinishOne`, `CleanRecovers`, and `GoodProjectsLink`,
where the calls under way are distinct packages of an acyclic path, so that a
stack that takes a call per package (`MaxCalls > Cardinality(Pkgs)`) does not
overflow; Go's stack grows to hundreds of megabytes.

**Loops** (`LoopControl_proofs`, `LoopRules_proofs`). `SInv` is what the parser and the machine
agree on for every function, habits included. Of the blocks: their levels grow
by one, by two for `for`, and the labels each asked for are its own. Of the
variables: those below any level have the slots 1, 2, ... without a gap
(`Dense`); stated for the top level alone this would not survive a closing
brace. Of the code: what a jump aims at has been placed or is still to be
placed by an open block, and no label twice in turn. Of the machine: the words
on the stack are as many as `depth` says. From it `TypeCorrect`, whose hard part
is that `pc` stays in the code, since every label has a place once the last
block is closed, and `ParserKeepsCount`. The latter, that the words the
parser counts are the variables in scope, is proved only; no run lists it.

What the code of a function that keeps the rules does when it runs is
`LoopRules_proofs`. A *shape* says of a place in the code which slots own a
string or iterator, how many words the parser believes to be on the stack, and
which modes the machine may be in there: `ok` (r15 = 0), `failing` (an error),
`broken` (1), `returning` (2, perhaps with more words than believed) or `over`
(past a `mov rsp, rbp`). `Flows` says what each instruction makes of a shape
and which shapes it has nothing to do with; a *path* is code that leads from
one shape to another, given the shapes `B[l]` with which jumps arrive at the
label `l`. While the parser works, `RInv` of this module says that such a `B`
exists, that the code so far is a path from the empty stack to what the parser
believes of its variables, and that the labels of every open block have the
shapes the block will close with. A `break` or `return` emits a jump to a label
whose shape may not have allowed for it: the shape is widened, which no earlier
jump to it minds (`FlowsWidened`) because the label is not placed yet. Each
parser action is then one lemma: the code it appends is a path from the old
belief to the new one. While the machine runs, `RInv` says that it fits the
shape of its instruction, that every object in use is held by exactly one
owning slot, and that no fault has happened; there the lemmas are one per
instruction. From it `RulesKeepTheStack`, `RulesConsumeMarks`,
`RulesLeaveOwnErrors`, `RulesFreeAll` and `RulesMakeReturnReturn`. The last is
the counterpart of the run `return_in_loop`: with the habit `returnInLoop` the
same property is violated.

**Statements** (`ExprCode_proofs`). `PlainRestoresStack`, `PlainFreesTemps` and
`PlainNeverPanics` hold for expressions of any depth, with any functions, any
numbers of arguments and operands and any values. They ask for a plain
statement (`Plain`, at the end of `ExprCode`): the rules of `MCExprCode` without
its list of trees and without recursion. A record `t` names the trees of the
statements, closed under operands, and says which are constants with which
numbers, which begin with a call, and which contain a temporary that is an
argument; each set is described by one level of the tree (`Sorted`), so that a
proof need not recur. `t` is data about `Programs` and restricts nothing: for
any statements the set of their subtrees, sorted, is one. What `Plain` excludes
is what the list above shows to be translated wrongly, and a call without
arguments behind a constant; `x /= e` and `if true`, wrong in their result only,
are plain. That the statements of the run are plain is evaluated with it
(`MCPlain`).

The three properties speak of the end, and nothing that can be read off a state
alone leads there: whether a `pop` finds a word depends on text that is still
in pieces, to be joined in another order. The invariant `Sound(t)` therefore
gives each piece of text a *shape* behind each instruction: the words it has put
on the stack since the piece began, and which of them are strings that a call
has made. A piece is a path of shapes, in which a jump finds the same shape as
its label (`Piece`); joining two pieces puts the words of one below those of the
other. A *configuration* says where the value is, how many words there are, and
at what shape each piece ends (`Matches`, `Means`). Each task of the parser takes
one configuration to another (`Step`), as a procedure keeps its contract: for an
expression this depends on whether it is a constant or a call and on nothing
inside it. While the parser runs, the tasks that remain lead, one behind the
other, to a single piece that ends with no word (`Typed`). This is the step in
which the recursion of the parser disappears: parsing an operator replaces one
task by four whose contracts compose to its own. While the machine runs, the
words on its stack have the shape at the program counter, each word of a
temporary is the address of one live string, and these are all that were not
there at the start (`Kept`). A call may only be made where a slot lies below its
arguments, a clean-up only where its offset hits the word of a temporary, which
is where `CleanupArgs` and `OutputCleanupCode` have to agree with the order in
which `ConsArgCode` has put the arguments. `LocalSp` counts the words of all
pieces, so that it is back at its value when the last shape is empty.

**Monitor** (`RunMonitor_proofs`). `TypeCorrect`, `RunningIsServed` and
`LossBounded` share an invariant: the counters of each program are in order and
no further apart than pipe and reader allow, and a running program is the one
main waits for, with `cmd` set and its pipe open. `MonitorServes` is not
inductive: that a goroutine does not stop at the end of its input follows from
the pipe being open, that it does not stop on `cmd` from main being at `Wait`.

Each of these invariants was first checked by TLC, part by part: `RInv` on the
instance of `ownership_rules`, the parts of `SInv` on that
of `build`, the others on the instances of their runs. The
exceptions are the `RInv` of `LoopRules_proofs` and `Sound` of `ExprCode_proofs`,
which quantify over all the ways of giving shapes to labels and instructions;
only the properties that follow from them were checked, on `loops` and
`expressions`.

**Induction.** The models sum over blocks and follow chains of imports by
recursive definitions. The induction theorems of the library take a predicate
and cannot be instantiated, but they have a consequence that can be stated with
a set in its place: of the subsets of a finite set that a set holds, one is
smallest (`Inductions!MinimalSubset`). From it come induction over the numbers
(`NatSetInduction`), that a sum exists and does not depend on the order of its
terms (`SumRemove`, `SumAdd`), and that a set widened often enough by what its
elements import is closed, and the least such set (`WidenCloses`).

**Only model-checked.** Liveness (`Terminates`, `MainEnds`, `ForLoopsEnd`): the
prover does not handle fairness and `ENABLED`. `ResultIsMeaning` of `MCExprCode`
and `ReadsTokens` of `MCLexer`: their references are recursive over expressions
and texts, and that two recursions agree is an induction over data.

## Not modelled, and the plan

In this order:

1. `ExprCode`: several results, variadic calls, `? :`, multiple assignment.
2. The options `-file` and `-test` of `PackageBuild`.
3. Types: 32-bit integers and U64 (`CanAssign` lets a U32 have 4294967296),
   `*=` and `/=` on short integers, and the choice between overloads.
4. Structs and slices in `StringHeap`.

Left out for good: the text of the assembler, floating-point code, the decoder
in `utf8.go` (nothing calls it; the lexer uses Go's), the tools
NASM and the linker, Windows calls, and the JKV programs under `test` and
`demo`, which served as documentation.
