# A TLA+ development of msc-jit

`msc-jit` compiles MotionScript (MSC, the bytecode of a game's scripts) to
x86-64 machine code and runs it. This directory holds a model of it: TLA+
modules translated from the Rust source, TLC configurations that check them on
small instances, and proofs checked by TLAPS for every value of the constants.
Paths below are relative to the repository; `x86/mod.rs` stands for
`src/jit/x86/mod.rs`.

## 1. The system

The program is a single thread that does four things in sequence: parse a file
(the external `msc` crate), compile every script of it, make the code
executable, run the entry point. What is hard about it is not concurrency.
It is that *one pass over the commands writes code whose pieces rely on each
other*: a later command takes back bytes of an earlier one, tables filled along
the way are read after the loop, and two scripts that never see each other must
agree on every word of the stack. Each of these holds or fails over a sequence
of legal steps, and hardly shows in a test of one command.

| component | state | operations | who relies on it |
|---|---|---|---|
| MSC file (crate `msc`, external) | scripts with bounds, commands with position, push bit, operands; entry point; strings | iterate commands, `get_script_from_loc` | the compiler |
| compiler, `MscsbFile::compile` (`x86/mod.rs:55-698`) | writer (buffer and cursor), `last_cmd_pushint`, `ret_val_locations`, `jump_relocations`, `command_locations`, `call_relocs`, `mem` | one arm per opcode; jump patching; placement; call linking | everything after it |
| calling convention (`x86/mod.rs:99-116`, `188-231`; `asm_helper/mod.rs:39-82`) | RSP, RBP, argument registers, stack words | argument moves of a call, prologue, `write_ret` | every pair of scripts |
| instruction templates (`x86/mod.rs:124-627`, `asm_helper`) | evaluation stack, local and global variables, x87 and SSE state | push, pop, arithmetic, comparison, assignment | the meaning of a script |
| `JitMemory` / `CompiledProgram` (`src/jit/mod.rs`, `x86/mod.rs:712-738`) | pages, protection, `locked` | `new`, `lock`, `unlock`, `run`, `lock_all` | `main` |
| printf (`x86/printf.rs`) | cursor in the format, argument index | `msc_printf` | `PrintF` |
| system calls (`x86/syscalls.rs`) | none | `crc32_for_byte`, `getc`, `nop` | `Sys` |
| standard output | libc's buffer and Rust's buffer on one descriptor | `libc::printf`, `println!`, exit | the reader of the output |
| AST reconstruction (`src/jit/ast.rs`) | command list, position | `take_node` and its callers | nobody: commented out of the build (`src/jit/mod.rs:4`) |
| `main` | none | opens a fixed file, prints a debugger command, runs | - |

Interactions. `main` calls `compile`, `lock_all`, `get_entrypoint_address` and
`run` in that order. `compile` calls the instruction writer for every command,
and after the last script stores call addresses into pages it has already
placed. Compiled code calls other compiled code through the calling convention,
and `msc_printf` and the system call table through the C convention, with the
stack realigned through R15. All compiled scripts share the global variables.
Nothing is shared between threads, nothing is persisted, no messages are sent.

### What makes each part correct

* **Compiler.** The emitted bytes are whole instructions, however calls rewind
  the cursor and jumps and calls are patched; a jump lands on the code of the
  command it names, from where it is whole but for what only the falling path
  executes; a call reaches the function whose location was pushed for
  it, and the push is gone; a returned value is pushed exactly where a `Try`
  with its push bit expects one; linking changes nothing but call addresses.
  Commands the compiler cannot handle end in a panic, never in wrong code.
* **Calling convention.** Each argument arrives in the variable of its number;
  saved RBP and return address survive prologue and body; a call leaves the
  caller's stack as it found it, less the arguments.
* **Templates.** Each refines the meaning of its opcode: stack effect, result,
  operand order, and no dependence on what another template left in a register.
* **JitMemory.** No page is writable and executable at once; code runs only
  after a *successful* change of protection; execution stays inside the pages.
* **printf.** The cursor always advances, each conversion takes the next
  argument, and every other byte of the format is printed.
* **crc32_for_byte.** It is one table step of the standard CRC-32.
* **Output.** What a script printed comes before the value it returned, and all of it
  arrives after a return.

The hazards these come from are listed one by one, each at its source line,
under `hazards` in `PROJECT.json`.

## 2. The modules

### Msc

The input of the compiler: opcodes grouped by the arm of `compile` that handles
them, commands, scripts, files. The `msc` crate is a submodule whose contents are
not in the repository, so its types and `get_script_from_loc` are modelled from
how `compile` uses them and marked external. A `Begin` command is folded into
its script (`begin`, `argc`, `varc`); `cmds` are what `iter().skip(1)` yields.
Positions are relative to the script, the locations of jumps and of `Try` are
absolute, as in the source, because mixing the two up is a mistake to catch.

### Compiler

`MscsbFile::compile`, from the first script to the returned program. One action
is one iteration of one of its loops:

| action | code in `x86/mod.rs` |
|---|---|
| `StartScript`, `StartBareScript` | head of the script loop and prologue (75-116), the `RET` of a script without `Begin` (658-662) |
| `CompileTemplate` | every arm that writes one template: 136-171, 232-627 |
| `CompileJump`, `CompileIf` | 130-135, 172-187 |
| `CompileCall` | 188-231 |
| `CompilePanic` | `panic!` at 124-129 and 229, the checked `u8`, `u32` and `u64` arithmetic of a debug build, a rewind before the start of the buffer |
| `PatchJump`, `PatchPanic` | 641-657, `unwrap` at 646 |
| `PlaceScript` | 663-671 |
| `LinkCall`, `LinkPanic`, `Finish` | 673-679, `unwrap` at 674, 689-697 |

The buffer is a set of *fragments*, each the bytes that one statement wrote, with
offset, length, kind and the command they belong to. `Write` removes every
fragment the new bytes overlap. A rewind by a wrong number of bytes, or a patch at
a wrong place, therefore leaves a hole, an overlap or a missing instruction, just
as it would in the real buffer, and `Row` (whole instructions side by side)
notices. Lengths that `compile` depends on are those of the encodings (5 for
`PUSH imm32` and `JMP`, 6 for `Jcc`, 10 for `MOV RAX, imm64`); all others come from
the constant `Encoded` and can be anything positive.

Files are assumed *well-formed* (`WellFormed`): positions increase, and a constant
written right before a call is really pushed, with no return value expected
between the two. That is what MSC compilers write. Without it the rewind by five
bytes (`x86/mod.rs:191`) takes back something else: the assumption states what the
code relies on and does not check. Jumps may go anywhere, to a call too.

`OverflowChecks` tells a debug build, where arithmetic that overflows panics, from a
release build, where it wraps: `u8` on argument counts, `u32` on locations, and `u64` in
the offset `i * 8 - 0x30` of the argument moves (209), which is written as an addition and
overflows at `i = 6`, so that a debug build compiles no call with 13 arguments or more. The
only wrap that reaches this module's state is a
jump location before its script; it wraps to a position no command has, which a
negative target stands for, and both end in the `unwrap` of `PatchPanic`.

### CallConvention

One call, dword by dword: the code of `CompileCall` in the caller, `CALL`,
`setup_stack_frame`, the loads of the prologue, a body that pushes, pops and
assigns variables in any order, `write_ret`, and the caller's `ADD RSP`. Each
action is one emitted instruction, or the few that one statement of an emission
loop writes (`MoveStackArg` is the pair of `MOV`s at 209-210). A dword remembers
which half of which value it holds, so an offset wrong by a word is seen.
`rsp`, `rbp`, `regs` and `stack` are the machine's; address 0 is the stack pointer
the caller had before it pushed the arguments, and the addresses from 0 up stand
for everything of the caller below its arguments. With 13 arguments or more the code
modelled is that of a release build: a debug build panics before it has written it.

### Words, Meaning, Templates

What a command computes. `Words` are the 32-bit words, of any width: `Half` of them are
negative, 2^31 in the program. The two-operand instructions and the x87 operations are constants of it, and only what a property
looks into (multiplication, division, signs) is defined.

`Meaning` is the abstract specification: an MSC machine with an evaluation stack of
words and variables, one rule per group of opcodes. The repository says what an
opcode means in `src/jit/ast.rs`, which names its operator, its operand order and
its type; that is what `Meaning` is translated from.

`Templates` is the machine code, one disjunct per arm of the `match` in `compile`
(`x86/mod.rs:124-627`). It keeps what the arms share without saying so: slots are
64 bits of which most templates write one half (`dirty`: the upper half is not
zero), and EAX, EDX, R8D and the x87 rounding mode carry over from one template to the
next. The commands of a `program` follow each other in any order that keeps enough
values on the stack. `known` is a history variable: what the order of the
commands alone says about those registers. `Implements` is the refinement of
`Meaning`, command by command: a step of one command must not pass for a step of another
that happens to do the same; `AlwaysRight` names the commands that are right in every state,
and only programs of these refine it. `RightWhenTrusted` gives for the others a condition
(`Trusted`) under which they are right; it is sufficient, not necessary: an `If` on a slot
whose upper half is set and whose lower half is not zero, say, is right although it is not
trusted. `WrongAsListed` says of the commands that are wrong by their templates what they do
instead, in every state: each behaves as its `Twin` (`DecI` as `IncI`, the float assignments by
a value as `AddVarByF`, `Not`, `PushVar` and `NegF` as if their push bits were others, a
float comparison without push bit as nothing), `SubF` and `DivF` exchange their operands, and a
NaN compares as equal and less. A foreign function takes at most 15 arguments
(`ForeignAssumption`); `Syscalls` has what happens with more.

### Activations, CallStack, Ranks

`CallStack` is the machine stack while scripts call each other and foreign code:
RSP, RBP, R15, RAX, the argument registers and every word between, with nested and
recursive calls, returns with and without a value, `PUSH RAX` at a kept call, and the
realignment through R15. `Activations` is its abstract specification: activations
that share nothing. The refinement mapping `Acts` reads the activations off the
stack: each begins at a return address and all but the last end below the next one
(`Waiting`). The last (`Active`) has its arguments still in registers while it is being
entered, its values below the saved R15 while it calls out, and a value in RAX while it
receives one. Variables that are no arguments hold `Junk` until they are assigned. In the code
they hold whatever earlier activations left in their cells, since nothing clears a frame: a
script that reads a variable before it assigns it sees that, and what is said here about
activations that share nothing is said about variables that are assigned first. `Ranks` has the members of a set of numbers in their order: `Start(k)` is
the return address of rank `k`, and `Picked` is a selection from a sequence, which
`Printf` and `Stdout` use. `CallConvention` has what `CallStack` leaves out, more
than six arguments.

### Jit

`JitMemory` and `CompiledProgram`: `New`, `Lock`, `Unlock`, `Run` and `Store` are the
functions; the actions call them in the order of `main` (`Place`, `Link`, `Compiled`,
`LockNext`, `RunEntry`, then calls between scripts), or, for the user `"client"`, in any
order and ignoring the integers that `lock` and `unlock` return. `failing` says which of
`posix_memalign` and `mprotect` may fail. A store or jump without permission is a
`"fault"`; memory that a failed allocation left uninitialized does anything.

### Printf, Stdout, Output

`Printf` is `msc_printf` with one action per branch of its loop, and the string
section it reads: a packed sequence of characters with the offsets that `compile`
recorded, so that reading past a NUL means reading the next string; `PrintfAssumption`
says that no string has a NUL within it. `Stdout` is the
external part, the two buffers that libc and Rust keep for one descriptor. `Output`
extends both and composes them: what `Printf` prints goes `Through` one of the buffers (a `%c`
prints a newline or not, as its value is; `Ends`), then the script
returns to `CompiledProgram::run`, which prints a newline and the value, or uses the
`Exit` command, or dies.

### Syscalls, Division

`Syscalls` is the `Sys` command with the table it calls through: `getc` with any
answer, `nop`, and `crc32_for_byte` with one action per round. `Answer` is what follows the
call: `ADD RSP, 8 * arg_count`, a sign-extended byte, which from 16 arguments on moves the
stack pointer the wrong way (`Dropped`), and `PUSH RAX`. A word is the set of
the positions of its ones. `Division` is the division of polynomials modulo 2 that a
CRC-32 consists of; `Divides` maps the register of the code to the remainder by undoing
the inversion of the bits that have not yet been shifted out.

### Ast

`as_ast` of `src/jit/ast.rs`, which reads the commands backwards. The calls of the
recursive `take_node` that have not returned are the stack `waiting`, and a node is named by
the number of its command: `tree` maps the commands taken to what their nodes have so far.
`Take`, `Skip` and `Panic` are the kinds of rounds of the loop of `take_node`, `Give` is its
return with a node, to the call that waits for it or to `as_ast`, and `End` the `None` that all
waiting calls pass on. `AstInit` is the head of `as_ast`, which panics on a script without
commands and on one that does not begin with `Begin` (276, 282). For a `printf` without
arguments `arg_count - 1` (226) panics in a debug build and is 255 in a release build
(`OverflowChecks`), where the node wants 256 operands. `Suspect` is its argument `type_suspect`. The result is compared with
what the evaluation stack does with the same commands (`Values`): which commands' values lie
on it before a command, and how many `Below` its operands. Commands that `as_ast` skips do
nothing to that stack; so where a skipped command is an operator whose operands stay, the
properties say what `as_ast` reads in its place, not what the script would compute. The file is
commented out of the build (`src/jit/mod.rs:4`).

### MC modules

`MCCompiler`, `MCCallConvention`, `MCTemplates`, `MCCallStack`, `MCJit`, `MCAst`,
`MCSyscalls` and `MCOutput` hold the constants of the runs, see the next section.
`CompilerProofs`, `CallConventionProofs`, `CallStackProofs`, `TemplatesProofs`,
`SyscallsProofs`, `OutputProofs` and `JitProofs` (for `Jit` and `Ast`) hold the proofs;
`Lemmas` has the facts about sequences, ranks and natural numbers that several of them need.

## 3. What is checked

| run | instance | shows |
|---|---|---|
| `compiler_all` | every well-formed body of three commands over 22 commands and every jump target, with a calling script and a bare script in the same file; and nested kept calls, a loop with a call, a conditional argument, seven arguments, a call of something that is no function, forty arguments, a wrapped jump | `TypeOK`, `WholeInstructions`, `JumpsLand`, `CallsLinked`, `ReturnValuesPushed`, `LinkingOnlyFillsCalls` |
| `compiler_dynamic` | a function chosen by a condition, then called | `DynamicCallsRefused` is **violated** |
| `call_all` | 0 to 21 arguments, with and without a spare variable, in a release build | `TypeOK`, `FrameIntact`, `CallIsNeutral`, `ArgumentsArrive` (up to 13), `ReversalArrives` |
| `templates_faithful` | the integer commands and the float commands that are right in every state | `Implements`: the templates refine `Meaning` |
| `templates_mixed` | integers with branches and system calls; floats with NaN and overflow; divisions: right and wrong commands in any order | `TypeOK`, `HistoryHolds`, `RightWhenTrusted`, `WrongAsListed` |
| `templates_decrement` | a constant and `DecI` | `Implements` is **violated** |
| `call_stack` | three activations of two scripts, two arguments, foreign calls with no and two arguments | `TypeOK`, `ForeignAligned`, `FramesLinked`, `HostRestored`, `Implements`: the stack refines `Activations` |
| `jit_all` | four scripts that call each other, every entry point or none, both users, every set of failing calls | `TypeOK`, `ReachableCodeExecutable`, `FaultsExplained`, `LockedIsExecutable`, `RunsOrStops` |
| `ast` | `Begin` and up to three commands of 16 or six of 5, a script without `Begin`, an empty one, in a release build | `LosesNothing`, `CutOnlyAtUnderflow`, `OperandsOfTheStack`, `ReadsOn` |
| `syscalls` | every byte, every power of two, some full words, clean and sign-extended; 0 to 31 arguments | `ChecksumOfByte`, `Divides`: the rounds refine `Division`; `TakesItsArguments` |
| `output` | every format of up to four characters over `%`, `c`, `l`, `5`, `.` and newline, and of five over the first, second, fourth and fifth of these, first or last in its file, zero to two values, terminal or pipe | `PrintsItsFormat`, `PanicsWhenShort`, `ReadsItsString`, `EscapesPrinted`, `Terminates`; `FlushedOnTerminal`, `EverythingArrives` |
| `output_flush` | the same with short formats | `FlushedBeforeValue` is **violated** on a pipe |

**Bounds of `compiler_all`.** `MaxBody = 3`: a call needs the push before it and
a jump or `Try` that leads to it, and a rewind needs something in front of the
push that it could damage; three commands reach all of these, before and after
each other. The alphabet reaches every arm and both sides of every condition in
them: push bit set or not, a constant that is a function or is none, 0 / 7 / 13
arguments of a call (none, one on the stack, `u64` overflow), 0 / 1 / 32 of a
`printf` (the `continue`, a normal one, overflow), jumps forwards, backwards, to
the end and before the script. Commands lie six bytes apart and scripts start at
100, 200 and 250, so relative and absolute positions never coincide. `MCEncoded`
gives the fragments lengths that differ, so confusing two of them moves code.
`PageSize` is 16, so that scripts take one page and several. The longer files
(`LongFiles`) cover what three commands cannot: nesting, and loops around calls. The run
is that of a release build, whose arithmetic wraps; the panics of a debug build end the
same behaviours earlier, and the proofs of section 4 hold for both.

**Bounds of `call_all`.** The counts cover both sides of every limit in the code: 6
registers, the frame rounded to 4, 13/14 where the reversal starts to lose words,
21/22 where an 8-bit immediate turns negative. `Depth` is the least that the
largest signature and two pushed values need; a body that pushes more only moves
further away from the frame. `Height` gives the caller a few words to lose.
`EdgeVariables` are the first and last variables of the groups that a prologue
stores differently.

**Bounds of the templates.** Words have two bits, so there are both signs and
overflow; a float is 0, 1, -1 or neither (NaN, and whatever the instance cannot hold).
The stack holds two values, as many as a template takes. One local and one global
variable tell the two address paths apart. Foreign functions leave 3 in every register
they may use, a value no clean comparison or zeroed dividend produces.
`CHECK_DEADLOCK FALSE` in the mixed run: a division really may trap, which ends the
program, and a full stack may have no command left.

**Bounds of `call_stack`.** Three activations: a caller, one that is called and calls,
one that is called; so a saved RBP is not always the host's. Two values and two
arguments, to see an exchange; three variables, so that a variable shares its qword;
two evaluated values, so that RSP has either parity at a foreign call.

**Bounds of `ast`.** Three commands take every kind of node with every kind of operand;
six take an operator with two operands that are operators, or two statements of which
the second is cut. No script is long enough for a `printf` without arguments to get its 256
operands, so it is always cut; the theorems hold for any length and either build.

**Bounds of `output`.** Five characters hold a conversion with width, point and
precision, two conversions with a character between, and each way of ending inside
a conversion; four hold a line, an escape or a `%l` with a conversion or text after it. The other string is `%f`, so reading past a NUL would find a conversion.
libc's buffer holds three prints, so it overflows in the middle of a format.

**Deadlock** is checked in every other run: the explicit stuttering steps are those of a
finished program, and in any other state some action must be possible.

**Fairness.** The program is one thread, and what its own code can do next it does:
`Jit` assumes weak fairness of what `main` does (not of a client, which need not call
anything, and not of a running script, which may loop forever), `Output` of a step of
`msc_printf` and of what follows the return of the script. Under it, `RunsOrStops`
(`main` comes to a run or to an end with a reason), `Terminates` (every format ends) and
`EverythingArrives` (what a script that returned has printed reaches the descriptor).
The other modules assume no fairness: a compilation consumes a command, a relocation or a
script with every action, and `ReadsOn` says the same of `as_ast` as an action property.

### What the checks found

* **A call of a conditionally chosen function calls the wrong one**
  (`compiler_dynamic`). `last_cmd_pushint` is the constant of the command *written*
  before the call, not of the one *executed* before it. In `(c ? f : g)()` the
  branches join at the call: `g` is linked for both, and when the branch of `f` is
  taken the pushed `f` is left on the stack (the jump even skips the moves of the
  arguments, because `command_locations` is overwritten at 215). The source
  means to refuse such calls: `panic!("Dynamic function calls not supported")`, 229.
  `JumpsLand` says for calls, too, where a jump lands: behind these moves and in front of
  everything else of the call (`BeforeLocation`).
* **From 14 arguments on, arguments are lost.** The stack arguments are reversed in
  place with one scratch register (209-210), so the second half of the reversal
  reads words that the first half has overwritten. `ReversalArrives` says exactly
  what arrives: arguments 6 to the middle are replaced by later ones. Nothing in the repository
  states a limit, so this is a property that holds, not a disagreement.
  A debug build does not get that far: from 13 on it panics on the `u64` addition in 209.
* **From 22 arguments of a script on, or 16 of a system call or a `printf`,** the stack pointer
  moves the wrong way: `ADD RSP, imm8` is sign-extended (194, 148, 603).
  `SignaturesAssumption` and the two `ForeignAssumption`s stop before that;
  `TakesItsArguments` says what a system call with 16 to 31 does: it takes none of them and
  leaves `32 - arg_count` stale words on top.
* **DecI increments** (`templates_decrement`): one arm emits `INC` for both
  (`x86/mod.rs:291-305`), while `src/jit/ast.rs:75` reads `Sub`.
* **Commands that compute something else**, at least in some states. `WrongAsListed` says what
  those do that are wrong in all of them, or for certain operands; for the others `Trusted`
  leaves out the states in which they can be wrong:
  all float assignments by a value add (`x86/mod.rs:338`);
  `SubF` and `DivF` take their operands in the other order (563-582);
  `Not` with its push bit never pushes its result (547-560);
  `AddVarBy` and its siblings on a local variable combine with EAX, which is the
  operand only if the command before left it there (353-380);
  `DivVarBy` and `ModVarBy` of a local divide with whatever EDX holds, all other
  divisions with EDX = 0, so negative dividends become large positive ones (404, 430);
  a float comparison is right only when an earlier template cleared R8D and neither
  side is NaN, and without its push bit leaves its operands on the stack (494-523);
  `PushVar` and `NegF` ignore the push bit;
  `If`, `IfNot` and `Not` test 64 bits, of which a sign-extended push of a negative
  constant left the upper half set (172-187); a `FloatToInt` changes the rounding of
  every later float operation (246-260).
* **The flush of `run()` does not flush** when standard output is not a terminal
  (`output_flush`): the returned value overtakes the output of the script. An `Exit`
  command does not write out libc's buffer at all; how much that loses is up to libc.
* **printf**: `%%` prints a percent and then an error line; `%ld` consumes its value at
  `%l` and prints the `d` (`EscapesPrinted` says where each percent, error line and character
  comes from); a format with more conversions than values panics
  (`PanicsWhenShort`). In none of these does the cursor leave the string.
* **lock() keeps its flag when `mprotect` fails** (`src/jit/mod.rs:35-38`), and
  `run()` trusts the flag: `LockedIsExecutable` holds only while `mprotect` succeeds.
  `lock_all` ends the process instead, so `main` is not affected
  (`ReachableCodeExecutable`, `FaultsExplained`).
* **as_ast** cannot tell a missing operand from the start of the script: it drops what
  it has taken of that statement and everything before (`CutOnlyAtUnderflow`: a script that
  never takes what was not pushed is not cut). The node of a `DecF` carries an integer operator (`src/jit/ast.rs:86`).

## 4. What is proved

`CompilerProofs` (assumptions: `FilesAssumption`, `EncodedAssumption`,
`SettingsAssumption`, all named in `Compiler`):

* `TypeCorrect` and `AlwaysWholeInstructions`: for every set of well-formed files,
  every page size and all instruction lengths, the emitted and the placed code is
  always whole instructions side by side.

`WholeInstructions` is not inductive: that a rewind is harmless depends on what was
written last, that a patch is harmless on what was written long before. The
invariant `IInv` adds what each of those steps finds in the buffer:
`PushIsLast` (when a constant is remembered, the fragment that ends at the cursor
is its five-byte push), `JumpsWritten` and `CallsWritten` (a jump or a `MOV` of the
recorded kind and length still stands at every recorded offset, through later
rewinds and through placement), `ValuesAreKept` (a location that receives a return
value was named by a `Try`, which with `WellFormed` keeps the push of RAX from
getting between a constant and its call) and `Progress` (which script, and that the
cursor is at the end while commands are compiled). The lemmas about rows, `JoinRows`,
`DropLast`, `WriteOverLast` and `Replace`, are the four ways code changes; each
action uses one or two.

The second part of the module, under the same assumptions, builds on it:

* `AlwaysLands`, `AlwaysPushesReturns`, `AlwaysLinked` and `LinkingFillsCalls`.

These say where fragments of *different* commands lie, long after they were written and
through every rewind in between. `LInv` adds to `IInv`: `CodeOfCommands` (each compiled
command has its fragments, a call its `MOV` and no push before it), `TriesKnown` and
`PushKnown` (what `ret_val_locations` and `last_cmd_pushint` remember is what the
commands so far say), `LocationsFit` (each offset in `command_locations` still separates
the code before that command from its own; what `BeforeLocation` names lies in front of it),
`JumpsKnown` (a jump is either recorded with its target or
patched to it) and `MovsKnown` (a `MOV` is either recorded with the constant that was
pushed before its call, once, or linked to that script). A round of the loop over the
commands is seen as a `Round`: it takes back at most the push at the cursor and writes
fragments from there on, whatever the command. So each conjunct has one lemma for all 22
kinds of commands, and the emission of each command is opened only once, to show that it
is a `Round`. Patching and linking change one immediate, which `FilledCode` shows to
disturb nothing else.

`CallConventionProofs` (assumptions: `SignaturesAssumption`, at most 21
arguments, all among the variables; `MemoryAssumption`):

* `TypeCorrect`, `FrameStaysIntact`, `CallsAreNeutral`: for every signature, number of
  variables and memory, whatever the body does.
* `WhatTheReversalDelivers`: which argument arrives in which variable, for every
  count; `ThirteenArgumentsArrive`: in a call with at most 13, each in its own. Beyond 12
  both are about a release build.

Their invariant says for each label of the code where the stack pointer is and what
has moved. The heart is `Held(q, t)`: which argument lies in stack slot `q` after `t`
moves of the reversal. The move of word `t` overwrites slot `arg_count - 1 - t`'s
mirror, and `Held` shows that after the middle the words read are already mirrored.

`JitProofs` (assumption: `FileAssumption`, at least one script, links between scripts
of the file), for every number of scripts, every set of calls and every entry point:

* `TypeCorrect`, `AlwaysReachableCodeExecutable`, `FaultsAreExplained` and
  `LockedStaysExecutable`.

That a running script may enter any other depends on everything `main` did before.
The invariant carries it from loop to loop: `NothingLocked` (all pages can be written
until `compile` is done, so linking cannot fault), `LockedSoFar` (all scripts placed, no
call unlinked, and what `lock_all` has passed is executable, or the process has ended),
`RunsInside` (the loop was finished before anything ran) and `MemoryExplained` (memory
that is not ours goes back to `posix_memalign`, a flag without its protection to
`mprotect`). `MemoryExplained` is what the clients keep too.

The second part of `JitProofs` (assumptions: `ListingsAssumption`, commands with any opcode,
push bit and number of arguments, and `BuildAssumption`) is about `as_ast`, for scripts of any length:

* `NothingIsLost`, `CutMeansUnderflow`, `NodesTakeTheirValues` and `AlwaysReadsOn`.

`take_node` reads backwards and knows nothing of a stack, so the invariant says at every
moment how what it has read lies to what it has not. `OrderInv` is about places: every
command read waits, is a statement or is the operand of one node (`AllPlaced`), the
statements, operands and those that wait lie in the order of the script (`Ordered`), and
nothing reaches across an operand and its command (`Nested`). The last has a part that
`LosesNothing` does not state: a node that begins before a waiting command ends before it
too. Without it nothing keeps an operand from being given to a command beyond its own.
`StackInv` is about values. The operand that a command is to get next lies on the stack
before it at `Slot`, the place of the last one it lacks; `Heights` says that this place is at
most the bottom of what is being taken for it, and for the innermost command at most the top
of the stack after the commands not yet read. At the start of the script that stack is empty,
so a command that still wants something there has taken a value that nobody pushed:
`CutOnlyAtUnderflow`. That needs only that no command comes short; `Contents` turns the
inequalities into equations where statements leave nothing on the stack (`Unmixed`), and
says which value lies in each of those places. The condition is needed: a statement between
an operand and its command, over a value left for later, would be taken for the operand.
`Values` is a recursive function; `StacksExist` shows by induction that there is a function
with its equation, so that `ValuesStep` may use it.

`CallStackProofs` (assumptions: `ScriptsAssumption`, at most six arguments, all among
the variables; `ForeignAssumption`, at most 15 values passed to foreign code;
`HostAssumption`), for any scripts, values, depth of calls and height of the stack:

* `TypeCorrect`, `AlwaysAligned`, `AlwaysLinked` and `HostAlwaysRestored`;
* `CallsImplementActivations`: the machine stack implements `Activations`, so no script
  ever sees a variable or a value of another but through arguments and results, as long as
  it reads no variable that it has not assigned (`Junk`).

`FramesLinked` and `HostRestored` rest on each other through the whole stack. The
invariant reads it from the top: `Resting` says that RBP is the end of a whole frame of
the running script with nothing but values above it, and `Linked` says of *every* saved
RBP that below its return address the stack is `Resting` for the script that the return
address names, or is the host's empty one. A return then finds for its caller just what
`Linked` promised when the frame was entered, and there is no other way for it to find
that: `write_ret` computes the frame from the *callee's* number of variables and the
caller's RBP from memory. `Outside` keeps the same through a foreign call, with the saved
R15 where `ADD RSP, R15` will look for it. Every action changes the stack above some
height only, up to the values of variables, so `Prefix` (what lies below that height
keeps its frames) is the lemma all of them share.

For the refinement, `Linked` promises the same of every return address, that of the
script being entered included, and `FrameAt` that a value is kept only of a script that
returns one. `Neighbours` then says where activation `k` lies: between the return
addresses of ranks `k` and `k + 1` there is just the frame of the script that the upper
one names. So an activation that waits is the same while its cells are (`SameCaller`),
and each action maps by what it does to the last one: `SeenToPush` and `SeenToPop` for
the body and the return of a foreign function, `VariableSet` for an assignment (two
variables share a qword), `CallAdds` for a call, `ReturnLeaves` for a return. `Enter`,
`CallForeign` and `KeepValue` map to stutters: what moves is in another place and in the
same activation. The lemmas about `Rank` and `Nth` count return addresses: a call adds
the one of highest rank, a return takes it away, nothing else touches any.

`TemplatesProofs` (assumptions: those of `Words`, which leave integer and float operations
open but for their ranges and four laws of the x87; `ProgramsAssumption`,
`RegistersAssumption`, and `ForeignAssumption`, at most 15 arguments), for words of any width, any script and any height of the stack:

* `TypeCorrect` and `HistoryIsRight`, the invariant; nothing has to be added to
  `TypeOK /\ HistoryHolds`, which was made to be inductive: `known` is updated from the
  commands alone, and each template keeps its promise.
* `TrustedAreRight`: a command does what `Meaning` says in every state in which `Trusted`,
  a condition on its operands and on what `known` says of the registers, holds. There is no
  converse: a command can be right by luck elsewhere.
* `WrongCommandsAreAsListed`: what the wrong commands do instead. The twin of a command is
  emitted by the same arm, so `ExecutingTwin` lets the lemmas about right commands say
  what a wrong one does.
* `RightScriptsMean`: a script of `AlwaysRight` commands refines `Meaning`.

Every template has a lemma that gives its effect on the low dwords of the stack and
on the variables, and one that compares this with the rule of `Meaning`. TLC had taken
for granted that changing a sign is not rounded: its instance rounds nothing. The proof
asked for it, and it is now a law of `FloatLawsAssumption`. `RightScriptsMean` needs only
the static condition `AlwaysRight`, which `MCTemplates` assumes of its faithful programs,
so that TLC checks that the theorem applies to them.

`SyscallsProofs` (assumption: `WordsAssumption`, words of 64 bits on the stack and of 32
from `getchar`), for every stack and every argument:

* `AlwaysTakesItsArguments`, up to 15 arguments, and what is left of the stack with 16 to
  31; and `ImplementsDivision`: a round of the loop is a step of
  the division of polynomials, an `IF` on the lowest bit of an inverted word being one
  on the highest coefficient of the remainder.
* `AlwaysChecksum`, which TLC checks for bytes, for all 2^32 words. The invariant is that
  a quotient of the rounds done so far accounts for what has been shifted out
  (`Accounted`); a round multiplies it by x and adds 1 or not. A coefficient of a product
  modulo 2 is the parity of a number of pairs, so these are facts about cardinalities.

`OutputProofs` (assumption: `PrintfAssumption`, strings of any characters but NUL), for
every file, number of values and capacity of libc's buffer:

* `AlwaysFlushedOnTerminal`, about the buffers. A print of libc may take the whole buffer to
  the descriptor while prints of Rust go past it, so the invariant `Inv` is about selections
  from three sequences, which `MoreByLibc` and `MoreByRust` extend print by print; its parts
  `Emptied` and `ValueLast` say what the newline of `run()` leaves behind.
* `AlwaysReadsItsString`, `AlwaysPrintsItsFormat` and `OnlyPanicsWhenShort`, about
  `msc_printf`. `WalkInv` says where the cursor is for *every* format: within a conversion
  there is a percent at `start` with only digits and points between, so a NUL is never
  passed while one is being read, and the cursor is at most one behind the NUL when the
  loop asks whether it is done. `FormatInv` says of supported formats that the
  text printed so far is the format so far and that as many conversions were printed as
  begin there. It cannot be stated at the end alone: that `PanicsWhenShort` is exact comes
  from the two counts being the same at every step. A conversion ends at one place only
  (`EndsHere`), which is why counting percents counts conversions.
* Both need what `compile` makes of the string table: `EachStands` and `EndFound` show that
  at the offset of each string stand its characters and then the first NUL. The section
  is a `FlattenSeq`, a local recursive function of the library; `JoinsExist` shows that
  it exists and the other lemmas about it that it appends.

**Only model-checked**: `RunsOrStops`, `Terminates` and `EverythingArrives`, which are
liveness and beyond the prover, and `EscapesPrinted`. Every other property of a passing run is
a theorem.

## 5. What is not modelled

* The bytes of an instruction: the `x86asm` crate encodes them, and
  `asm_helper/into_operand.rs` and `asm_macro.rs` only convert operands for it. Only the
  lengths `compile` relies on appear.
* The listing through `objdump` (`x86/mod.rs:700-710`) and the debugger helper of
  `main.rs`, which write a temporary file and print; they can panic when a tool is
  missing, and touch no state of the program.
* Calls of `printf` with 16 arguments or more, and of scripts with 22 or more: RSP then moves
  the wrong way at once. System calls with more than 15 are in `Syscalls` only, not in
  `Templates` and `CallStack`.
* What a variable holds before its first assignment, and what an `Exit` command leaves in
  libc's buffer.
* A script that does not end in a return, and one whose caller keeps a result it does not
  return: MSC compilers write neither, and nothing in the code checks it.
* The numbers of global variables and strings, which nothing compares with the sizes of
  their tables: outside of them the code reads and writes memory that has no name here.
* The values of floats and how libc renders a value.
* `Display` and other consumers of the AST: there are none.

## 6. Plan

What is left is small: `CallConvention` and `CallStack` overlap for up to six arguments; a
mapping of one call of `CallStack` to `CallConvention` would join the two results for every
count.
