# Verification of ccova

ccova compiles a small C-like scripting language to bytecode (`cova/`, Go), links it into a
program of functions and memory segments, and runs it on a virtual machine, once in Go
(`cova/vm.go`) and once in C++ (`source/main/cpp/`).  Hosts embed the VM, give it a fixed
workspace, call it once per logic tick and answer its calls through an *extern dispatcher*.
This directory holds TLA+ models of the system, the TLC runs that check them and the TLAPS
proofs about them.

## 1. Inventory

| Part | State it keeps | Operations | What makes it correct |
|---|---|---|---|
| Lexer, parser, AST (`lex.go`, `parse_*.go`, `ast.go`) | token position, list of issues | `parseProgram` | precedence and associativity, every input consumed or reported |
| Types (`types.go`) | struct and array descriptors | `NewStructType`, `ArrayOf`, `Alignment` | fields disjoint, aligned, within 24-bit addresses |
| Optimizer (`optimize.go`) | the AST it rewrites | `Optimize` | a folded constant is the value the VM would compute |
| Compiler (`compile.go`, `builtins.go`) | symbol tables, code blocks, patches, data images | registration, `compileFunction`, `markReachableFunctions`, `assembleFunctionBlocks` | structured control flow, stack discipline, reachable functions only, no recursion |
| Linker (`link.go`) | function table, parameter tables | `Link` | every call reaches the function the source names |
| Program image (`image.go`) | a blob of relative offsets | build, open, validate | what is built can be opened and is the same program |
| Memory (`segment-memory.go`, `program-memory.go`) | eight byte segments | bounded reads, writes, appends, truncations | nothing outside a segment is touched |
| Interpreter (`vm.go`) | memory, pc, call frames, frame top | one operation per opcode, calls, returns, dispatcher calls | frames never overlap, arguments arrive, callers resume with their locals |
| VM lifecycle (`vm.go`) | loaded program, fault record | `LoadProgram`, `Reset`, `RunLoaded`, host pushes and pops | a run starts clean, every failure is recorded |
| Clock and timers (`vm.go`) | current time, tick time, slots | `timerStart` ... `timerDone` | never early, stable, saturating |
| Math built-ins (`vm.go`) | random state | one per function | operands popped exactly, bad ones refused |
| Native runtime (`source/main/cpp`) | the same, without fault record | `load_program`, `reset_vm`, `run_vm` | state kept across ticks; same scripts, same results |
| Command line, context, packaging | - | pure input and output | - |

How they interact: the compiler hands the linker a relocatable program whose calls carry temporary
function ids; the linker replaces them by indices into the function table; the VM reads that table
on every call.  A `CallExtern` instruction calls the host *inside* the interpreter loop, and the
host may then use the whole API of the VM, `LoadProgram` and `Reset` included.  There are no
threads: the interleavings that matter are those of script, dispatcher and host calls between
runs.  What is hard here: capacities checked in a fixed order before anything is changed, partial
effects of failing instructions, reuse of frame memory, re-entrance through the dispatcher, state
that survives a load or a reset (clock, timers, extern memory), saturating deadlines, two runtimes
that must agree though they were written apart; and in the toolchain, positions that are patched
later or moved when code is put together - jumps, calls, parameter tables, offsets in a block -
and arithmetic that is done three times: by the optimizer, by the compiler's choice of kinds, by
the VM.  `PROJECT.json` lists each hazard at its line.

## 2. Modules

| Module | Models |
|---|---|
| `SegmentMemory` | value kinds, encoding, addresses, segments (operators only) |
| `VMTime` | clock and timers as a state machine of their own |
| `TimerHistory` | `VMTime` with the time of the last start, to state what `timerDone` promises |
| `ScriptVM` | loading, resetting, running, every opcode, calls, returns, the dispatcher, faults |
| `ActivationStack` | abstract: what calls and returns promise a script |
| `NativeVM` | the C++ VM: loading, resetting, running, every opcode, clock and timers, host pushes and pops |
| `TwoRuntimes` | the two VMs side by side under one host, and why they may differ |
| `CallGraph` | the compiler's depth-first walk over the calls: what stays, what is recursive |
| `Layout` | struct and array types, the places of global variables, initial values, string literals, parts of values |
| `Linker` | from declarations to a linked program: registration, bodies, the walk, assembly, tables, call patches |
| `ProgramImage` | publishing a linked program as a block, and opening it with either runtime |
| `TypedValues` | the kinds of numbers, their bytes, conversions and arithmetic |
| `SourceText` | reference: how statements are written in the grammar, with parentheses only where it needs them |
| `Parser` | recursive descent and binding powers, from tokens to statements |
| `SourceMeaning` | reference: the calls to the host that statements mean |
| `Optimizer` | constant folding, with the arithmetic and the kinds of `optimize.go` |
| `Statements` | a body written, read, optimized or not, compiled, and a run of its code |
| `MCScriptVM`, `MCFaults`, `MCTimers`, `MCRuntimes`, `MCHost`, `MCCallGraph`, `MCToolchain`, `MCStatements` | small programs for TLC; `MCScriptVM` also states what a call promises over whole frames, `MCTimers` adds to the VM a memory of when timers were started |
| `InstructionProofs`, `ScriptVMProofs`, `RunProofs`, `TimerHistoryProofs`, `CallGraphProofs`, `LinkerProofs`, `ImageProofs`, `NativeProofs` | the proofs |

### The virtual machine

`ScriptVM` extends `SegmentMemory` and `VMTime`; its timer instructions *are* the actions of
`VMTime`.  The variables are the fields of `VM` (`memory`, `pc`, `program`, `callFrames`,
`frameTop`, `fault`, ...) plus `mode` (host between runs, interpreter loop, inside a dispatcher
call), `running` (the program `RunLoaded` captured in a local variable, which may differ from
`program` once the dispatcher has loaded another), `result` (the status returned last) and one
history variable, `frameSizes`.  Each opcode is an action; each exit of its code is a disjunct
or a branch of the operator that computes its *outcome*: status, operand stack left behind, and
which of the two ways of recording the fault applies (`setFault` overwrites, `recordStatus` keeps
the first).  A dispatcher call is two steps, `CallExtern` and `HostReturn`, with any number of
host operations in between.

Abstractions of the VM, and what they give up:

* A byte has 16 values, so a word has 65536 and an address 12 index bits; all widths in bytes are
  the real ones.  One- and four-byte kinds are kept; the others differ in width only.  `Int32`
  stands for every four-byte number, the float result of `tickTime` included.
* The text is a sequence of decoded instructions; one that is cut off by the end of the text is
  the instruction `Truncated`.
* Bitwise operators are left out; the numbers math built-ins return are any of `MathResults`,
  while operand counts and refusals are exact.  The random state is abstract.
* The fault record has status, pc and host status, not the diagnostic numbers.
* `Run` is `LoadProgram` followed by `RunLoaded`.  A dispatcher that calls `RunLoaded` itself is
  not modelled.  `BindExternBlock` is covered by allocating extern memory and writing to it.
* `pc` is left as it is when the loop is left: the next reset sets it before it is read.

### The toolchain

`ProgramImage` extends `Linker`, which extends `CallGraph` and `Layout`.  A source program is a
list of structs, a list of global variables and extern functions, and a list of script functions,
each with parameters, locals and a body of *cells*: a call by name with a number of arguments, a
jump inside the body, the use of a part of a variable, a string literal, an instruction whose high
byte happens to equal the opcode of return, or a plain one.  An address of code counts cells.
`stage` says how far the parser, `Compile` and `Link` are; one step handles one struct, one
declaration, one initializer, one body, one block, one descriptor or one patch, in the order of the
Go loops, and each refusal ends in stage `failed`.  The recursion of `markReachable` is the variable
`path` of `CallGraph`.

The variables of `Layout` are the named types, and the segments with their sizes, images and
globals as the compiler knows them.  Struct fields, extern variables and all other variables are
rounded up by three routines of the code that treat the end of their range differently, and so
does the model (`AlignUp`, refused by `PlaceRefused`, `AlignUpWrapping`).  The const image
is at once a segment of constants and the pool of string literals; the initializer of a constant
may append a literal to it before it fills it.  `ScalarsApart` follows every way from a global to a
scalar in it (in a segment whose end 32 bits can count: `Roomy`), and `LinkedAsWritten` compares the
address that a use compiles to (`PartThrough`, step by step through the types) with the one found by that walk.  In the code, as in `TypeOf`, `int32 a[2][3]` is an array of three arrays of two.

Abstractions: a byte has 8 values, so that an address counts 512 bytes and a size 4096, both of
which blocks of 512 bytes reach in a program of eight globals; scalars are one of each size that is
treated alike, without floats; what leads to a part of a variable is one cell with its address
(indices that are computed are `Statements`' and the VM's); structs are read before the other
declarations.

`ProgramImage` adds what `BuildProgramImage` writes (offsets relative to the block), its
validation, and both ways of opening a block: `OpenProgramImage` in Go and `open_program_image` in
C++.  Left out: the textual report, the debug symbols, damaged blocks, and the magic, version and
kind fields, which a block of this toolchain always has.

### Statements and expressions

`Statements` translates `compileStmt`, `compileExpr` and what they call: a record `fc` for
`functionCompiler` is threaded through one operator per statement and expression; `Emit` appends
an instruction, `Patch` sets the target of jumps emitted before, and control frames collect the
breaks and continues of each loop and switch.  A body of the run is an abstract statement;
`SourceText` writes it as tokens in the grammar of `docs/LANGUAGE.md`, `Parser` reads them, and
what it made of them is compiled as it is or as `Optimizer` leaves it.  The initial states hold
that code, or the refusal; the actions run it one instruction at a time.  Values of different
kinds lie as bytes on one bounded stack, so that an instruction of the wrong width tears the value
next to it, as it does in the code.

`ReadsAsWritten` says that the parser gives back the statements that were written, and refuses
every text that is cut off before its end.  One thing it refuses although the grammar has it
(`docs/LANGUAGE.md:132`): a call or an index directly behind a prefix operator, `!ask()` or
`-a[i]`, because `parsePrefixExpression` takes its operand without what follows it, and the result
is no name to call and has no address to index (`parse_expr.go:110`).  The variable `careful` says
whether the writer puts parentheses there, and `RefusedIffMisplaced` states the refusals exactly:
such an operand without parentheses, a break or continue outside of what it leaves, a name declared
twice in a block, an expression alone that is not a call (as a statement or in a `for`), an integer
operator on floats or truth values, a sign on a truth value, an index that is a float or a number
outside the array.  The bodies have no other reason to be refused: names are declared, types are
numbers, and `tell` is called as a statement only.

A script shows its host a sequence of calls, `ask()` with an answer and `tell(x)` with a value, and
that sequence is compared with `SourceMeaning`, an evaluator written from `docs/LANGUAGE.md`.
Where the compiler is known to depart from that document, the evaluator says that it is in *doubt*
from there on, with the reason, and what follows is not compared:

* `torn`: a remainder or a shift is not converted to the kind of its context, and leaves a value of
  another width than the context takes (a condition, a narrow compound assignment); or it is folded
  although its operands are floats, which the compiler refuses.
* `truth`: sums of truth values stand for the truth of a sum, and truth values have no order.
* `promoted`: `+ - * /` are computed in the kind wanted of the result, where the document
  (`docs/LANGUAGE.md:508`) promotes the operands to a common kind, and that gives another value: for
  `int8 n = ask() - f` with the answer 2 and `f` = 0.5 the document has 1 and the code 2.  The
  evaluator computes in the common kind, follows the code's choice beside it, and doubts only where
  the two differ.
* `twice`: a compound assignment computes its index twice, a switch its operand once per case.
* `fraction`: the optimizer takes a literal below one for false.

Doubt hides only what comes after it in that run.  The findings `conditions` (for `torn` and
`truth`) and `folding` (for `fraction`) below are of these; `promoted` has the cause of `conditions`,
the type of the context (`compile.go:726`), and no run of its own.  Without the doubt `promoted` the
run `control_flow` finds `CodeFollowsSource` violated.

Abstractions: the kinds are one of each sort the compiler treats alike (`bool`, `int8`, `uint8`,
`int32`, `float32`), a byte has 16 values, a float is a number of halves (what a product or a
quotient has beyond is cut off; those of the run are halves), the operators are
`+ - * / % <<`, `==`, `<`, `!`, unary minus, `&&` and `||`; indices address one global array;
storing and loading through an address is one instruction each, a call of the host one step.  Left
out: 16- and 64-bit kinds, bitwise operators, members, calls of
script functions inside expressions, returned values.  A declaration stands in
a block, never directly in a case of a switch, and every name that is used is declared.

### The native runtime

`NativeVM` models `vm.cpp` and `builtins.cpp`.  Its lifecycle differs from that of the Go VM: it is
bound to one program, `run_vm` keeps BSS and Data from tick to tick, only `load_program` gives them
their initial values and stops the timers.  It reports nothing: a condition the code states with
`ASSERT` and that does not hold leads to the mode *broken*, from which no step is modelled, since
in a build without assertions nothing is defined there.  Only arithmetic is shared with `ScriptVM`
(operands, encodings, the bytes of a frame on entry); every condition, and the order of effects, is
the native one.  `load_program` calls `validate_linked_program` and drops its answer, so that a
well-formed program (`NativeAccepts`) is an obligation of the host, and a guard of the action.
Left out: the math and random built-ins, a dispatcher that loads, resets or runs the VM that called
it, the bit layout of instructions, the writes to extern memory.

`TwoRuntimes` runs both machines in lockstep: the same program, the same time, the same answers.
The history variable `apart` collects why they may differ by now, at the moment the reason arises:

* `globals`: a tick starts after the script has changed its globals, which the Go VM restores;
* `time`: a run at an earlier time, which the Go VM refuses and the native one accepts;
* `timer`: a timer asked while its native slot has no duration: stopped, never started, wiped by a
  load, or started with duration zero, it counts as done;
* `ticks`: the tick time is asked in a tick that is the first of one clock only, which the native
  clock also meets when its count of ticks wraps (2^32 in the code, 2 in the run);
* `host`: the dispatcher itself pushes or pops what does not fit, which Go reports to the
  dispatcher and lets it ignore, or a value of a kind without a size, which Go takes for nothing
  and the native VM asserts against;
* `segment`: an address names a segment that the native VM has no room for, which it asserts
  against at once, and the Go VM refuses only when the address is used.

`RuntimesAgree` says that there is no seventh reason: without one, both machines have the same memory,
program counter and frames at every instruction and every call of the host, and one breaks exactly
when the other reports a fault.

## 3. Runs

| Run | Question | Bounds |
|---|---|---|
| `interpreter` | do frames tile, do arguments arrive, do calls nest as `ActivationStack` says, is every failure recorded, is every next run clean, does every run end? | programs with nested calls of different sizes, recursion over both capacities, a function entered twice, a missing return, and some sixty more, one or more per error exit and refusal of a math built-in, in any order; stack of 9 bytes, 12 bytes of frames, 3 call frames, so each capacity is hit |
| `timers` | does the VM keep what `TimerHistory` promises, is `timerDone` exact and stable; do the two runtimes agree, do native globals outlive ticks? | 18 programs: each timer built-in, globals kept, calls, branches, one failure of each kind; times 2 and 65537 (the largest) that repeat and go back, durations 1, 2 and 65535, so that a deadline is reached exactly, missed and saturated; two timers, native ticks counted modulo 2 |
| `reentrant` | do the invariants survive loads and resets from the dispatcher? | five programs, host pushes, pops, reallocates |
| `call_graph` | does the walk end, keep what is reachable, and report exactly the recursion there is? | every graph of up to three blocks with up to two calls each, calls of missing blocks included |
| `toolchain` | is the linked program the source, has every global aligned bytes of its own and its initial value, does the image open as the same program? | programs of three functions whose bodies call each other, an extern and missing functions, one program per other refusal, parameter lists of zero to two; up to three globals in any order out of thirteen, in all four segments, scalar, array and struct, a struct in an array in a struct; extern memory of 24 bytes; blocks that reach the end of the 24 and of the 32 bits |
| `control_flow` | is a body read as it is written; does its code, optimized or not, make the calls the statements mean, in order, with the values they mean, keep the stack in step, and not spin between calls? | 3532 bodies: some 900 of up to four nested statements, some 2100 around one expression of each kind in each context, 486 of operators inside each other, in a wide and in a narrow kind, and of an `else` that could belong to two, 14 with names or expressions out of place; answers 0 and 2, six calls, an array of three, 24 bytes of stack |
| `open_ended`, `image_slots`, `native_image`, `conditions`, `local_zero`, `folding` | expected violations, see Findings | a handful of programs each |

The programs in the MC modules are what bounds the state space; their shapes were chosen from the
error exits and branches of the code, one program per exit, so that the runs fire every action and
every alternative.  The bounds are enough because each capacity, each refusal and each nesting
appears at, below and beyond its limit; what a bound cannot show for larger instances is proved
(section 4) or said to be only model-checked.  The runs of the toolchain and of statements stop
when the program is linked and opened, refused, or has returned: `CHECK_DEADLOCK FALSE` there.
The host of the VM can always act, and deadlock is checked.

**Fairness.**  `FairSpec` of `ScriptVM` assumes that the interpreter loop takes its next step and
that the dispatcher returns: the loop is a plain Go loop without waiting, and a dispatcher is a
function call.  Nothing is assumed about the host between runs.  The walk, the linker and the run
of a body are sequential code, and weak fairness of their next-state relations says only that a
started call goes on.

**Findings.**

* `conditions`: the operands of `+ - * /` are compiled with the type the result is wanted in.
  A condition wants `bool`, so `if (ask() - 1)` subtracts truth values and skips its branch when
  the answer is 2, where `docs/LANGUAGE.md` says that non-zero means true.  A remainder is not
  converted at all: `if (ask() % 3)` leaves four bytes, of which the jump pops one.
* `folding`: the optimizer takes the truth of a literal from its conversion to `int32`, so
  `0.5 && 1` is 0 when folded, where the compiled code gives 1.
* `local_zero`: a declaration without initializer emits no code, so in a loop body the variable
  keeps the value of the previous round instead of the zero that `docs/LANGUAGE.md` promises.
* `open_ended`: the compiler takes the last byte of a body's code for its last opcode.  It is the
  high byte of the instruction, and a body that ends in `math::acos` gets no closing return: it
  runs on into the next function.
* `image_slots`: the validation of an image compares positions in the parameter table of the
  whole program with the slot count of the largest frame, so some linked programs have no image.
* `native_image`: the native runtime drops the result of checking a block's arrays against the
  block's size, and returns that of checking them against the size of the header: no block opens.

## 4. Proofs

All theorems hold for every value of the constants under the assumptions of the modules, which
TLC evaluates on every run: `TimeAssumption` and `VMAssumption` (programs are well-typed records,
capacities are natural numbers, one call frame at least, times are in range); `CallGraphAssumption`
(call lists are sequences of ids); `LayoutAssumption` (a byte tells the five segments apart, 256
values in the code); `SourcesAssumption` (a program is what the parser hands over: lists,
declarations of two kinds, initial values that are numbers or texts, types it knows) and `IdsAssumption` (there are ids and call lists enough for the program, which is
what `uint32` ids are for).  Where a theorem needs more, it says so.

### The virtual machine

* `TypeCorrect` (`ScriptVMProofs`): `Spec => []TypeOK`.  `TypeOK` alone is not inductive: a call
  reads the *loaded* program, the loop the *captured* one, so the invariant `TypeInv` adds that a
  run has both.  `InstructionProofs` has one lemma per outcome operator (each leaves a stack of
  bytes within its capacity) and one on entering a function (arguments fit the bytes on the
  stack, by well-founded choice of the first covering parameter).
* `FramesTileCorrect` (`ScriptVMProofs`): under `TypeInv`, a push and a pop of a frame preserve
  tiling (`TiledPush`, `TiledPop`); all other steps leave frames alone.
* `FailuresRecorded` (`RunProofs`): the invariant adds that a run in progress has an open result.
* `MemoryIsTheProgram` (`RunProofs`): `Spec => []LoadedSegments`, inductive beside `TypeInv`.  The
  one hard case is an assignment: it writes where an address on the stack says, and the proof
  goes through which segments the VM lets a script write.
* `RunsStartAfresh` (`RunProofs`): `Spec => RunStartsFromProgram`, an action property.  It needs
  `LoadedSegments`: the reset copies initial values into segments that it does not resize.
* `RunsInsideActivations` (`RunProofs`): `Spec => []AlwaysActive`.  Its invariant follows which
  statuses each instruction, entry and host operation can return, so that an invalid lifecycle
  has no source left but a reset under the running script (`HostReloads`), which the property excludes.
* `CallsNest` (`RunProofs`): `Spec /\ [][AssignsAbove]_vars => CallsAreNested`, for a host that does
  not reset under a running script.  This is the refinement of `ActivationStack`: an
  activation's locals are the bytes of its frame, so each step is shown to leave the bytes of the
  frames below alone, with tiling (`FramesTile`) for calls and returns.  `AssignsAbove` is a
  condition on the bytecode, and a real one: the VM checks an address against its segment only, so
  an index out of its array's range can reach a caller's locals, and no theorem without such a
  condition holds.
* `TimeTypeCorrect`, `DoneStable` (`InstructionProofs`), `HistoryImplementsTime`, `DoneCorrect`
  (`TimerHistoryProofs`): the last one needs the deadline expressed through the start time, with
  the saturated case apart.
* `TimersKeepHistory`, `VMDoneCorrect` (`TimerHistoryProofs`): the VM with the memory that `MCTimers`
  gives it implements `TimerHistory`, so that `timerDone` is exact in the VM too.  Each
  instruction is shown to be a step of the timers or none; the hypothesis is that every number a
  script can pass is a duration of `TimerHistory`.

### The native runtime

* `NativeTypeCorrect` (`NativeProofs`): `BothSpec => []NativeTypeOK`.  Each native instruction is shown
  to be defined exactly where the instruction of the Go VM succeeds, and to leave the same stack
  (`Mirrors`), so that the bounds proved for `ScriptVM` hold here too; what is the native VM's own -
  its clock and timers, the entry of a function, the restart of a program - has lemmas of its own.
  `NativeInv` adds to `NativeTypeOK` what binds the VM to a program that is well formed.
* `GlobalsOutliveTicks` (`NativeProofs`): `BothSpec => TicksKeepGlobals`, from the same invariant.
* `RunsAlike` (`NativeProofs`): `BothSpec => []RuntimesAgree`, for every pair of runs of any programs at any times.
  Agreement alone is not inductive; `RelationInv` adds what holds even after the two have come
  apart (`Bound`: the native VM is bound to the program Go has loaded, with its constants, and
  segments that no program lays out are empty; `ClocksMatch`: the clocks show the same time from
  their first common tick on, until a run goes back in time), and what the timers share while they
  have not (`TimersMatch`: a native slot with a duration is a Go slot with the same deadline).
  `ExecuteTogether` takes one instruction in both, with `Mirrors` for what it does to the stack;
  a run starts alike because Go's reset and the native restart leave the same memory when the
  globals are initial (`SameRestart`).  Programs that call math built-ins are outside the theorem,
  as they are outside `NativeVM`; the host answers both machines alike, which is what the module assumes.

### The toolchain

* `GraphTypeCorrect`, `KeepsTheReachable`, `KeepsNoRecursion`, `ReportsRealCycles`
  (`CallGraphProofs`), for any number of functions and calls.  The invariant is that of a
  depth-first search: the blocks being
  visited are exactly those on the path, each once; each calls the next one on the path; what
  it called before that is visited; what is visited calls only visited blocks; and every marked
  block belongs to each closed set that holds the entry.  `NoRecursion` is kept because a
  block becomes visited last of all it calls: in a group that contains it, either it calls no
  other member, or the group without it already had a member that calls none.
* `NoIdleRefusal` (`LinkerProofs`): `Spec => []LaterChecksPass`.  Its invariant `Inv` says what each
  stage leaves to the next: the symbols are those read so far and no two functions share an id;
  types have a size and an alignment, and extern variables lie aligned; each block is its function's, its
  patches are its calls, and its calls are those the walk sees; the walk (`GraphInv`) runs over
  these blocks from the entry; what is in the text is what it visited; descriptors and tables
  are those of the functions in the text.  Each of the five refusals contradicts one part.
* `CallsAreValidated` (`LinkerProofs`): `Spec => []BodiesValidated`, from the part of `Inv` on blocks.
* `SlicesAreOwn` (`LinkerProofs`): `Spec => []ParamTablesMatch`.  That a frame is laid out without
  overlap is a lemma on `Laid` (`LaidInOrder`); that what a run can get to, by the names in the
  source, is kept comes from the closure of the walk (`NeededIsKept`).
* `ControlIsLinked` (`LinkerProofs`): `Spec => []ControlAsWritten`, the part of `LinkedAsWritten` that
  decides where a run goes: descriptors and functions that a run can get to correspond one to one, and
  the text at each descriptor jumps and calls as the source says.  `CodeInv` adds to `Inv` where
  the blocks lie in the text with their jumps moved, that the patches are exactly the
  calls in it, and that a cell of the linked text is the program's or a patched one, patched when its
  turn is past.  That nothing else is kept is the minimality of the walk (`KeptIsNeeded`).
* `ImagesRoundTrip` (`ImageProofs`): `ImageSpec => []ImageRoundTrips`.  A block is a map from places to
  arrays, so reading one back is sound only if no two arrays that hold something share a place
  (`StartsInOrder`, from `LaidInOrder`: sizes are not zero there).  That a linked program consists of
  lists is an invariant of its own (`DataInv`, `SlotsInv`, `TablesHold`), over every step that
  grows, fills or interns into a segment's image.
* `NativeTablesSound` (`ImageProofs`): `ImageSpec => []NativeTablesHold`.  The bounds come from the status the
  Go validation gave (of the first bad function, hence of all); that no parameter is void comes
  from the linker's refusals, which that validation does not repeat.
* `BytesAreOwn` (`ImageProofs`): `Spec => []ScalarsApart`, for programs of any size whose globals fit
  the 32-bit offsets of the code (`Roomy`; the linker itself refuses extern variables that do not).
  `GlobalsInv` says that every type in the table is laid out from types declared before it
  (`WellLaid`), that the globals of a segment lie where `Laid` puts them, and that the segment ends where the last one
  does; literals come into the constants only after all globals have their places.  The ways
  into a type go by depth (`WaysSound`), with nothing resting on the value of `MaxDepth`.  Rounding
  up wraps at 32 bits in the code and agrees with the plain one here because a size is a multiple of its alignment.
* `ValuesAreCarried` (`ImageProofs`): `Spec => []InitialValuesHold`.  Each step may move what an
  earlier one wrote: a segment grows, an initializer fills bytes and may add a literal to the image that
  it fills, a function body adds literals after all of them.  `ValuesInv` says of every
  moment that a global has the bytes of its value if its initializer has run, and is zero if not, and
  that every literal of the pool lies whole in the constants, behind the last global
  (`LiteralsInv`).  `PlacesNamed` makes the lookup of a place by name sound: declarations and places
  correspond one to one.  A step then disturbs nothing because globals are apart
  (`PlacesInOrder`) and images only grow (`Extends`).  That bytes make their number again is
  `BytesTell`; that four of them hold an address and give its segment and offset back, `AddressTells`.
  Excluded, as in the property: segments beyond 32 bits (`Roomy`), where
  places overlap, and texts in constants beyond 24 bits (`Addressable`), where an address wraps.

* `SourceIsLinked` (`ImageProofs`): `Spec => []LinkedAsWritten`: control goes where the source says
  (`ControlIsLinked`), each use loads from the address of the one scalar it names among all scalars of all globals,
  or of the parameter, and each literal's address leads to its characters.  The compiler resolves
  a name and its steps through types, the property by searching all paths (`ScalarsIn`): steps that
  are not refused are a path (`WayExists`), and a path has one part at its end (`WaysLead`).
  `BoundInv` says that a symbol knows its variable's segment and that no registered function takes
  a struct or an array, so a parameter, which hides a global, has no parts; `MeaningInv` that each
  block's addresses still are those of its body, while later bodies add literals.  A literal can be
  read as long as 32 bits count the constants (`Roomy`), and a use is compared when it has no more steps than
  the paths that are searched (`MaxDepth`).

Recursive definitions of the model that these proofs use (`Patching`, `Arrays`, `Ends`, `Pools`,
`PartsAlong`, `WaysInto`, `Powers`, `Number`) are functions on an interval of the numbers; `CountingUp` turns a
property of them that each step keeps into one that holds up to the end, by the least number where
it would fail.

### Only model-checked

* Liveness: `RunTerminates`, `WalkEnds`, `LinkingEnds`, `CodeProgresses` (outside what TLAPS proves).
* `CallPassesArguments`: arguments go through a fold over the bytes of a stack, so its proof is an
  induction over data.
* `Parser`, `Optimizer`, `Statements`: parser, compiler, optimizer and references are `RECURSIVE`
  operators over statements and expressions, which keep a module out of the prover's reach, as
  does induction over them.

## 5. Plan

Done: the VM (memory, time, calls, faults), the native VM and its agreement with the Go VM, the
call graph, types, globals, linking and images, statements and expressions from their tokens to a
run, constant folding; the theorems on the VM, the native VM, the linker and images listed above.

The tokens of declarations at the top level.  Floats among initial values.  The math built-ins
with the numbers they return.

### Not modelled

The lexer (characters), the AST (declarations), diagnostics, the command line and packaging: input
and output without state of interest.  Of top-level declarations
what the parser decides is modelled, their tokens are not.  Three hazards have
no property: a fault that a dispatcher ignored and that hides a later one, operands compiled more
than once (doubt `twice` above sets them apart, no run states them), and the products of `math::map`,
whose numbers are abstract.
