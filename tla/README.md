# Mons: a verification development

Mons is a small statically typed language implemented in C. A program is put
together from its modules, lexed, parsed, type-checked and then run in one of two
ways: a tree-walking interpreter (`src/eval.c`), or a compiler to bytecode
(`src/compile.c`) and a stack machine (`src/vm.c`). Both share one heap of
reference-counted composite values with a tracing collection at the end of a run
(`src/eval.c`). A REPL keeps a session of program text and does all of this with
every paragraph.

This directory holds TLA+ models of that system, the TLC runs that check them on
small instances and the TLAPS proofs that hold for every instance. File names
in this text are relative to the repository's root.

## 1. Inventory

| Component | State | Operations | Interacts with | What is hard, what makes it correct |
|---|---|---|---|---|
| Composite-value heap, `src/eval.c` 60–400 | `refc` of every `ValSeq`, `ValStruct`, `ValClosure`; the list `g_heap_objs`; mark bits | `value_retain`, `value_release` (cascades), `value_*_new`, `value_gc_collect` | every opcode of the machine and every node of the interpreter; the host | counts that must match ownership on every path, errors included; cycles; a sweep that adjusts the counts of survivors. Counts are what ownership says, an object is freed when nobody holds it and not before, a collection keeps exactly what the result reaches; where clients of the heap break the rules, the damage stays with the object they broke them for |
| Bytecode machine, `src/vm.c` | frames `fr[]`, one operand stack for all frames, `try_stack[]` for all frames, locals and upvalue cells per frame | one case per opcode; `vm_fail`; unwinding | runs what the compiler emits; retains and releases heap values | three arrays indexed by one another: a handler remembers a frame depth and a stack height that must still mean the same when an exception comes. Bounds, no stale handler, unwinding to the right frame and height |
| Bytecode compiler, `src/compile.c` | per function a `Ctx`: names of slots, upvalues, `try_depth`, `in_finally`; chunks, constants, pending jumps | one function per kind of node | its output is the machine's input | control flow: `try`/`catch`/`finally` with `return` and `throw`, `match`, loops; captures through several functions. Code is stack-correct on every path and means what the tree means |
| Chunk encoding, `src/bytecode.c` and the emitters of `src/compile.c` | code bytes, constants, capacities | emit, patch, grow; the reads of the machine | compiler and machine | widths: 8-bit slots, 16-bit indices and displacements. What is read is what was written, when it fits |
| Interpreter, `src/eval.c` 400–2403 | environments (linked frames), `halt_return`, `halt_throw` and their values, the first error | `eval_expr`, `eval_stmt`, `eval_block`, `eval_try_stmt`, calls, captures | the same heap; the other back end it should agree with | flags that are saved and restored around blocks, calls and `finally`. Same result as the machine |
| Unification, `src/types.c` 130–470 | the graph of types, the binding of each variable | `prune`, `occurs_in`, `unify` | every rule of the checker | chains of bindings are shortened while they are read; bindings are made one by one while two types are compared. No cycle, no equation lost, true exactly if there is a solution |
| Type checker, `src/types.c` | scopes, tables of declarations, the expected result, the depth of `try` | registration passes, inference per node, patterns, generics, traits and impls | unification; the parser's trees; resolves methods and numeric kinds for the compiler | the order of passes and of bindings, state put back by hand, failures without an error. It accepts what has a type and nothing else, and what it accepts runs without an error of types |
| Use loader, `src/main.c` 125–760 | the stack of files being loaded, the list of loaded files, the text so far | `load_with_uses_rec`, `resolve_and_load_module`, lists and globs | the file system; feeds the lexer | recursion, cycles, diamonds, errors in the middle. Every path once and after what it imports |
| Parser, `src/parser.c` | a cursor, type arguments that wait for their brace | one function per production, `parse_expr_prec` | tokens from the lexer; trees for everybody else | which of several forms a token begins; levels and grouping; nothing dropped. It reads the grammar |
| REPL, `src/repl.c` | the session text, a sequence number | a paragraph is tried as declarations, then wrapped in a function, checked, committed, evaluated | lexer to interpreter | which paragraphs stay in the session when one of the steps fails, what later ones do to earlier answers |
| Smoke test driver, `src/main.c` 770–1350 | | compiles a program as a whole and calls functions by name | compiler, machine, interpreter | the results of the programs of `tests/vm_smoke.mons` |
| Arena, lexer, printer, reflection, `stdlib/` | a fill level, a cursor | | | little state; data formats (section 7) |

There are no threads. What is hard here is not interleaving but *long legal
sequences*: state spread over several arrays, lists or flags that must stay
consistent through nested calls, exceptions, pending returns, cascades of
releases, recursion over files, bindings made in the middle of a decision, and
paragraphs that fail half way. The list of hazards, each at its line and with
the properties that cover it, is in `PROJECT.json`.

## 2. Modules

| Module | Models | Kind |
|---|---|---|
| `ValueHeap` | the heap: ownership, cascades, mark and sweep | state machine |
| `BytecodeVM` | `vm_run_program`, all opcodes, over arbitrary programs | state machine |
| `Activations` | abstract specification: calls that own try regions | state machine |
| `Unify` | `prune`, `occurs_in` and `unify` on the graph of types, step by step | state machine |
| `TypeEquations` | abstract specification: equations between types have a common solution or not | state machine |
| `UseLoader` | `load_source_with_uses`, its recursion made explicit | state machine |
| `Repl` | `repl_run`, for any parser, checker and evaluator | state machine |
| `TypeCheck` | `type_check_program`: the passes are actions, the check of a declaration an operator | state machine, operators |
| `Parser`, `Tokens` | `parse_tokens`: a declaration is a step, what is in it an operator | state machine, operators |
| `Arithmetic` | C's integer arithmetic and comparison | operators |
| `Syntax`, `TypedSyntax` | the syntax tree, `include/ast.h`, without and with the types that are written in it | constructors |
| `Compile` | `compile_program_bc`: tree to chunks | operators |
| `Encoding` | a chunk as bytes: written by `compile.c` and `bytecode.c`, read by `vm.c` | operators |
| `TreeWalk` | `eval_call_by_name`: tree to value or error | operators |
| `Typing` | reference: which programs have types | operators |
| `Grammar`, `Spelling` | reference: `mons_grammar.ebnf` as data; how a tree is written | operators |
| `VerifiedCode` | `BytecodeVM` on code whose operands and try regions are known at each instruction | composition |
| `Backends` | a program in both back ends, side by side | composition |
| `SmokePrograms`, `TryPrograms`, `TypePrograms` | `tests/vm_smoke.mons` as trees; families of programs | programs |
| `*Proofs` | theorems about the module they are named for (`EquationProofs`: about `Unify` and `TypeEquations`) | proofs |
| `MC*` | values of the constants for TLC, and properties that join several modules | instances |

`Backends` composes: a `Test` is a source compiled with `Compile` and evaluated
with `TreeWalk`, an initial state starts `BytecodeVM` on the chunks of one of the
`Tests`, and the steps are the machine's. `BytecodeVM` itself knows nothing of the
compiler: its programs are a constant, and it is checked and proved for arbitrary
bytecode. `MCTypeCheck` runs what `TypeCheck` accepts in `TreeWalk`; `MCRepl` is
`Repl` with `Typing` for a checker and `TreeWalk` for an evaluator.

In all modules a definition whose comment calls it a *faulty variant* or a
*mutant* is a plausible slip of the definition that follows it. No behaviour uses
it; with it in that definition's place the property that `PROJECT.json` names
beside it is violated, which shows that the property says something.

### ValueHeap

A *cell* is any place that holds a value: a handle outside the heap (operand
stack, local, binding, C variable) or a slot in an object. `val` says what each
cell holds, `refc` and `tracked` are the code's counters and list. Scalars and
strings are not counted and are all `NULL`; the three kinds of object are
released, marked and swept by the same loop and are not told apart. `Obj` is
the set of addresses `malloc` can return, and an address is used again after it
was freed.

| Action | Code |
|---|---|
| `Load` | `OP_LOAD_LOCAL`, `OP_DUP`, `OP_GET_UPVALUE`, `NODE_IDENT` |
| `New`, `FillMove`, `FillCapture`, `FillDone` | `OP_*_NEW` moves operands in, `OP_CLOSURE` and `NODE_LAMBDA` retain captured cells |
| `GetSlot`, `GetSlotDrop` | `OP_GET_FIELD`, `OP_INDEX_INT`: retain the component, then release the container |
| `Store`, `StoreDone` | `OP_STORE_LOCAL`, `OP_SET_UPVALUE`, `env_assign` |
| `Release`, `ReleaseChild`, `FreeDead`, `ReleaseDone` | `value_release` and its recursion, one step per child |
| `Fail`, `Forget` | an error; a value dropped with no release: by an error return, by `(void)eval_block(...)`, by `eval_try_stmt` |
| `Lend` | the value of a block that returned: `ctx->return_value`, not retained (`eval_block`) |
| `FreeHeld`, `FillFail`, `Undefined` | `value_release` frees an object that is still held; a failed closure is freed and stays on the list; whatever comes then |
| `Collect`, `Mark`, `MarkDone`, `SweepSlot`, `SweepFree`, `SweepDone` | `value_gc_collect`, `gc_mark_*`, `gc_adjust_marked_child_ref` |

The recursion of `value_release` and the order of `g_heap_objs` become a choice
among the objects that are still to do, so every order is covered. That an
operation ends is an action property, `WorkShrinks`: each step of a cascade or a
collection makes a measure of what is left to do smaller.

Not every client of the heap keeps the rule of one retain per copy and one release
per cell, errors or not. The interpreter copies `ctx->return_value` without a retain
wherever a block returned (`src/eval.c:2214`, 2218), and later overwrites the copy
or releases it; it drops the values of the bodies of `try`, `catch`, `finally` and
`for` (1984, 2012, 2059, 2166) and the second reference to the return value in
`eval_try_stmt` (2101); an error return drops what it held. `Lend` and `Forget` are
these slips, at any time and with any object. `lent` and `lost` count them for each
object, from its allocation to its end; no operation reads them. They say by how
much a count may be off (`CountsAddUp`), whose objects may be freed too early
(`OnlyLentIsFreed`) and which may be kept (`GarbageIsCyclicOrSlipped`). A `return`
straight in a function's body is a `Lend` and a `Forget` that cancel out.

A count may thus go below the number of holders, and below 0, where the code's
`size_t` wraps: `refc` is an integer, and all the code asks of it is whether it is 0.
When an object is freed that a cell still holds, or a closure whose capture failed
is freed and left on the list, the next use is undefined in C, and the model stops
in the phase `"dangling"`. Everything up to there is covered.

One assumption: `Collect` happens when the caller has given up every handle but
the result. Both entry points end like that, but `vm_run_program` and
`eval_call_by_name` take the result for the *only* root: composite arguments
that the host still holds would be swept (`src/vm.c:1482`, a hazard; the
repository's callers pass none).

### BytecodeVM and Activations

`frames`, `stack` and `tries` are the live parts of `fr`, `stack` and
`try_stack`; `objs` are the objects allocated, never freed here (that is
ValueHeap's subject). There is one action per opcode or group of opcodes that
differ in their operator only, each with the checks in the code's order and
every `vm_fail`. The messages are reduced to eight errors; `"malformed"` stands
for all those that only bad bytecode can cause. Instructions are decoded
(`Encoding` is about their bytes). Integers do not wrap, floats are integers of
another kind. `StackCap`, `MaxDepth` and `TryCap` stand for `VM_STACK_CAP`,
`VM_MAX_DEPTH` and `VM_TRY_CAP`.

`Init` is split: `Start` sets up the first frame for `prog`, whatever it is.
`acts` and the field `act` of frames and handlers are history: they number
activations, and no action reads them for what it does.

`Activations` says what calls and try regions are about with no arrays: every
region belongs to one activation, a return closes the regions of its own
activation and of no other, an exception goes to the region opened last and ends
the activations above it. `ImplementsActivations` is the refinement: the region
that entry *i* of `try_stack` stands for belongs to the frame at its
`frame_depth`. This is wrong as soon as a handler outlives its frame.

### Compile, TreeWalk, Backends

Both modules follow the C functions of the same names: a compiler state or an
evaluation context is passed along where the code updates a `Ctx` or an
`EvalCtx`. All recursion over the tree goes through `CompileNode` and `Eval`,
which call what the code has for a statement or for an expression. Names, struct
names and fields are strings and numbers with no meaning; a string literal exists
in the interpreter only (the compiler rejects it, as in the code). Quirks are
kept: names are never removed from `local_names`, `next_slot` is counted modulo
`SlotLimit` and never found too large, `eval_invoke_fn` puts a function's frame
on top of its caller's and clears the halt flags, captures are re-bound by every
call, a match that falls through leaves 0, a catch body is compiled after the
handler has gone, a method is found by its name in the struct that the value has.

`LAMBDA_BOUND_MAX` (96 names bound in a lambda) is left out. The two models
were compared with the two back ends, built from this source, on the programs
of the runs and some 1500 generated ones: they gave the same results, and the
same errors where the models tell errors apart.

`VerifiedCode` says what it is for code to keep the compiler's discipline, without
the compiler: a `Point` is an instruction with the number of operands its frame has
and the heights at which the try regions it has open were entered; `After` gives the
points that follow one, `Sound` what must hold at it, and code is `Verified` if
there is one point for an instruction, whichever path leads to it. The points
are a variable that no step changes. `Backends` computes them for a compiled chunk
(`PointsOf` follows every path) and so starts `VerifiedCode` on compiled programs.

### Encoding

A chunk of `Compile` has decoded instructions. `Encoding` writes them as
`compile.c` does (operands cut to a `uint8_t` or a `uint16_t` without a check,
jumps written as 0 and patched later with `target - (operand + 2)`) and reads
them as `vm.c` does at an address. A byte is a number below `Byte`, or an opcode,
which is a kind of byte of its own; so `Byte` may be as small as 16 and the
displacements of ordinary programs overflow. Slots, indices and addresses count
from 1 in the modules and from 0 in the bytes. The buffers that grow by `realloc`
under the writes are sequences; memory does not run out.

### Unify and TypeEquations

A type is a node: `types` is made once and never changes, `bound` is `as.var.bound`
of each variable, 0 for none. `unify` is recursive; what it has left to do is the
sequence `todo` of pairs, what `occurs_in` has left is `occ`, and `prune`, which
shortens the chain it has walked, takes a step per link (`PruneStep`). One call
at a time is in progress; `calls` is history, and so are `root`, `claims` and
`seen`, which the invariants are stated with.

Neither `unify` nor `occurs_in` remembers what it has been through: a type that is
met on two ways is taken apart twice. So what is left of a call, `ToDo`, counts
*ways down* through the types and not types: a way is a list of places, each
among the children of the type before it, where a type stands for the end of its
chain. `UnifyShortens` says that every step leaves less: a variable less is unbound,
or there are fewer ways down through the calls that are pending, or the call has
come further, or `occurs_in` has fewer ways to go, or `prune` less of a chain. A
binding makes types larger, a shortened chain is walked again and the arguments
change sides; the property says that none of this brings back what was done.

`TypeEquations` knows no bindings: equations are asked for one after the other
and answered by whether all of them have a common solution. A solution is a division
of the types into classes of equal ones that is congruent (equal types that are no
variables have equal heads and equal children) and founded (no type is a part of
itself). `ImplementsEquations` says that `unify` gives this answer, whatever it
bound before; `BindingsFollow` that it binds nothing but what every solution makes
equal. A struct type has no variables in its fields, as in the checker, and structs
of one name have one shape (`StructsHaveOneShape`): the checker refuses a second
declaration. Generic schemas are not among the shapes of the run: `unify` makes
one equal to nothing, not even to itself (`src/types.c:388`), so a program that uses
a generic function as a value (`src/types.c:2194`) gets an answer that is no
statement about solutions.

### TypeCheck and Typing

`TypeCheck` follows `types.c`: four passes over the declarations, one action
for each kind of declaration in each pass, and operators for inference that pass a `Checker` along.
Here types are terms; a variable is looked up through all its bindings at once,
since what `prune` and `unify` do in memory is the subject of `Unify`. An error
is `"vague"` where the checker has to know a type at once and it is still a
variable, `"crash"` where it follows a null pointer, else `"wrong"`; `mute`
records that two types differed and nobody was told.

`Typing` is what the checker is compared with: a program has a type if types for
its unannotated places can be chosen, among a finite `Universe`, such that every
rule holds. It shares no definition with `TypeCheck` beyond the syntax.

Left out: super-traits and generic impls, `ref` and `Result` types, `Self` inside
other types, the kinds the checker writes into the tree for the compiler (`bc_ty`),
mangled names and their lengths, memory. Code of the checker that only writes
types back into the tree is represented by whether a type was written there.

### UseLoader

`load_with_uses_rec` is recursive: `frames` are its activations (the path, the
next line, the modules a list or a glob has still to load), `call` the path it is
being called with, `ret` what the last one returned; `stack`, `loaded` and
`output` are the code's. A file is named by where it is, the loader knows it by
the spelling of its path, and compares spellings. Every use line is a module, a
list, a glob or invalid; other lines leave no trace in what is loaded. What a
file says is chosen when it is first read, and the disk does not change
meanwhile. The 256 and 512 character limits, and memory, are left out. The
loader finds `use` at the beginning of a line, before there are tokens; the
parser's own `use` declarations are in `Parser`. `LoadShortens` is about `ToDo`: the
paths that can still be read, the activations, the lines and the modules of the
current one, and how far its call has come. There is no limit on the recursion of
`load_with_uses_rec`; each step leaves less of this all the same.

### Parser, Grammar, Spelling

`Parser` has an operator for each function of `parser.c`, from a position in the
text to a result with the tree and the next position, or none. The type arguments
that wait in `generic_tyargs_pending` for a brace are an argument of `ParsePostfix`. A
token is a string: its kind and its text are one thing. `Start(t)` begins with a
text, a step parses a declaration, and `outcome` says how it ended. Left out: the
texts of errors, locations, `pub` and `mut` (read and forgotten), memory, the
depth of the C stack.

`Grammar` is `mons_grammar.ebnf` written as data and a recogniser that follows
it; where the code and the EBNF disagree, the rule says what the code reads and
is marked `[+]` (section 6 lists them). `Spelling` writes a tree, with the
parentheses that the levels of the EBNF require and no others. Neither refers to
`Parser`. The model, the grammar and the program's own lexer and parser were run
on 72 029 texts and accepted the same ones.

### Repl

`ReadLine` is `repl_read_paragraph`: lines are joined until the braces that are
open are closed, counted in strings and comments too. Then one action per step of
`repl_run`: both parses, the check, the commit and the evaluation. A text is a
sequence of pieces: a paragraph, whether it is wrapped, under which number. The
parser, the checker and the evaluator are constants, and the theorems hold for
any; `MCRepl` gives 25 lines their tokens, types a text with `Typing` and runs it
with `TreeWalk`. Memory, and with it a failing lexer, is left out.

## 3. Runs

| Run | Bounds | States | What it shows |
|---|---|---|---|
| `heap` | 3 objects, 3 handles, 2 slots; slips with one object at a time, one of each kind | 499 620 (with symmetry) | `TypeOK`, `CountsAddUp`, `OnlyLentIsFreed`, `GarbageIsCyclicOrSlipped`, `CollectKeepsExactlyReachable`, at every step of every cascade and collection; `WorkShrinks`: they end |
| `machine` | stack 4, depth 3, 2 handlers; every `main` of four and callee of three control instructions, every three instructions on values | 252 458 | `TypeOK`, `HandlersOfLiveActivations`, `ImplementsActivations` |
| `backends` | 883 programs, capacities 64/16/16 | 54 862 | `CodeVerifies`, `BytesAreTheCode`, `StackAsCompiled`, `Agree`, `SmokeTable`, `Terminates` |
| `unify` | 5 types, 2 equations | 275 453 | `TypeOK`, `Acyclic`, `EquationsHold`, `BindingsFollow`, `ImplementsEquations`, `UnifyShortens` |
| `types` | the programs of `TypePrograms` | 212 598 | `TypeOK`, `AcceptedIsTypable`, `TypableIsAccepted`, `AcceptedRuns` |
| `loader` | 4 files in two directories, 3 entries, up to two use lines a file | 98 874 | `TypeOK`, `StackIsImportChain`, `EachPathOnce`, `ImportsFirst`, `LoadShortens` |
| `parser` | 42 115 texts | 93 423 | `AcceptsGrammar`, `NothingLost`, `ReadsBack` |
| `repl` | 25 lines, 4 of them typed | 203 616 | `TypeOK`, `SessionAccepted`, `NumbersUsedOnce`, `AnswerOfLast`, `AnswerIsOwn`, `ValueStays`, `SessionGrows` |
| `finally_skipped`, `signal_escapes`, `cross_call`, `unchecked` | a few programs each | | disagreements with the documentation, section 5 |

*Heap.* Three objects make a cycle of two with a third hanging on it or
holding it, a shared child and a chain of three; two slots make two references
to one child. Three handles are what an operation needs (operand, container,
destination). All properties are about safety, so that symmetry is sound.
`MaxLent`, `MaxLost` and `MaxSlipped` are 1: an object may be lent, or lost, or both,
which cancels out, and a sweep may add to `lost` beyond the bound; that slips with
one object leave the others alone shows with one. The theorems hold for any bounds.

*Machine.* The capacities are small so that each is hit: a handler is
entered with the stack full, a call is made at the last depth. Two handlers in
two of three frames are enough for a stale one. `error = "malformed"` is
reached in many ways, since most of this bytecode is nothing a compiler emits.

*Programs of `backends`.* The smoke tests of `tests/vm_smoke.mons`; every
combination of a body, a catch block, a finally block and the same around it,
where each block may go on, throw an `int` or a `bool`, return, call a function
that throws and catches inside, or throw in the second round of a loop, in a
function, in a loop and in a lambda; a throwing expression at eight positions in
an expression; and a tour of guards, captures through two lambdas, short
circuits, division, bounds. Every chunk, frame and handler stays far below the
capacities, which `machine` checks.

`CodeVerifies` speaks of all paths of all chunks, executed or not; it and
`StackAsCompiled` (of `VerifiedCode`) hold for all 883 programs, including those
the back ends disagree on. `BytesAreTheCode` has `Byte = 16`: displacements fit in some of the
chunks (206 of the 850 nests) and are cut in the others, and the property says
that both happen exactly when they should. `SmokeTable` is the table of expected
results of `vm_run_smoke_table`; unlike `Agree` it covers the smoke tests that the
interpreter gets wrong. `Agree` leaves out what `Parity` leaves out, and each
exclusion is a definition with its reason in `TryPrograms`:

* `SkipsFinally`: a catch block that throws or returns (finding 1);
* `OverridesReturn` and the smoke test `OverriddenReturn`: a finally block that
  throws, after a `return`: the throw wins in the machine and, where the
  function has an enclosing handler, the return wins in the interpreter;
* `CrossCall`: an exception that leaves a function (finding 3);
* `AssignCapture`: an assignment to a captured variable is forgotten between
  two calls in the interpreter (5) and kept in the machine (8);
* operands that throw: the interpreter goes on with `void` until an operator
  complains, the machine unwinds;
* `Identity`: `a != a` for an array is true in the machine
  (`values_equal_scalar`) and false in the interpreter;
* a lambda that calls a top-level function fails in the interpreter
  (`fv_walk` captures the name), so no program has one.

Not among the programs, because the back ends are known to differ and no
property separates the cases: two variables of one name in a function, a
variable with the name of a constant, a `return` inside an operand, functions
without a value, `Option::Some` before `None`, a match that no arm fits. They are
hazards in `PROJECT.json`.

*Unify.* One base type, variables, functions of one parameter and of none and
two struct names: enough for chains of variables, a type in itself through a
function, a clash below a function, different arities. Two equations let the
second meet the bindings, and the shortened chains, of the first. The constraint
`Interesting` cuts orders that do not matter: types are made before equations are
asked for and variables before other types, in the order in which those mention
them, and no equation is between a type and itself. There are two variables or
three, and one function at least.

*Programs of `types`.* Expressions over two unannotated lambda parameters in
every combination of two uses, generics with and without bounds, patterns, every
way to write a constant, a struct, a trait and an impl in the wrong order, with
too little or too much; statements in and around `try`. `AcceptedRuns` needs
programs without what is known to fail at run time although it is accepted
(section 6): an `if` without `else` as an operand, an ordering of `bool`s, a
generic function that computes with its parameter, a constant that is used by
a function which an earlier constant calls, an impl without the methods, a lambda
that calls a top-level function.

*Loader.* `m`, `lib/a`, `lib/b`, `lib/m` and entries `m`, `lib/m`, `./m`: paths that
are one file under two spellings, cycles of one to three files, diamonds, files
that are not there, a glob that contains the file that asks for it, an invalid
line at every depth.

*Texts of `parser`.* Every sequence of up to three, four or five tokens, of four to
seven kinds, in 31 places where a form is expected; every kind of tree with every
kind below it, operators three deep; and each sample of these with a token left
out, repeated, or exchanged with the next. `AcceptsGrammar` speaks of all,
`ReadsBack` of the spelled trees.

*Lines of `repl`.* Declarations, functions in one and in three lines, expressions
that succeed and fail, a constant that cannot be evaluated, a wrapper's name taken
by the user, a line that closes its own wrapper, braces in comments, an open
comment, continued and blank lines, and the commands. Four lines are enough for a
paragraph that breaks what an earlier one has committed to meet a later one.
`AnswerIsOwn` exempts paragraphs that are not one body, `ValueStays` constants
whose evaluation fails; no line calls its own wrapper, which would recurse for
ever.

### Fairness

The implementation is single-threaded: `vm_run_program` loops until it returns. So
`WF` of `Run` (machine) is what the code gives, and `Terminates` is checked under it.
No strong fairness is used.

That a call of `unify`, the loader and an operation on values end is stated without
fairness, by what every step leaves to do (`UnifyShortens`, `LoadShortens`, `WorkShrinks`):
sequential code takes its next step, so that the only way not to end is to take
steps for ever, and a measure that every step lowers excludes it for every
value of the constants and not only for those of a run.

### Deadlock

Deadlock is checked where the system does not stop: `heap`, `machine` and
`backends` (the machine's terminal states stutter explicitly, `Stopped`). The
configurations of the others say `CHECK_DEADLOCK FALSE`: the loader, the checker
and the parser are done at some point, a session ends, and `unify` is not called
any more once the bound on calls is reached or it has failed.

## 4. Theorems

All proofs are checked by TLAPS for every value of the constants, from the
named assumptions of the modules: finite sets of addresses, handles and slots that
are disjoint; programs well typed as records, with room for their arguments;
natural bounds on slips; natural capacities and at least one frame; `Byte` even; shapes with natural arities
and one shape for a struct's name; `"."` no name, `Sorted` a permutation, and finitely
many files and entries.

| Theorem | Statement |
|---|---|
| `ValueHeapProofs!TypeCorrect` | `Spec => []TypeOK`: no count of an object that was not lent goes below zero |
| `CountsAreKept` | `Spec => []CountsAddUp`: a count is off by the slips made with its object and by nothing else |
| `OnlyLoansDangle` | `Spec => []OnlyLentIsFreed`: what is freed too early was lent more often than lost |
| `NothingReachableIsFreed` | `MaxLent = 0` gives `Spec => []ReachableIsTracked`: `value_release` takes nothing from a client that retains its copies |
| `OnlyCyclesRemain` | `Spec => []GarbageIsCyclicOrSlipped` |
| `CollectExact` | `Spec => CollectKeepsExactlyReachable` |
| `OperationsEnd` | `Spec => WorkShrinks`: each step of a cascade or a collection leaves less to do |
| `WorkIsNatural` | `Spec => [](Work \in Nat)`: so each of them ends |
| `BytecodeVMProofs!TypeCorrect` | `Spec => []TypeOK`: no array of the machine is used outside its bounds, on any bytecode |
| `NoStaleHandler` | `Spec => []HandlersOfLiveActivations` |
| `RefinesActivations` | `Spec => ImplementsActivations` |
| `VerifiedProofs!MachineKeepsLayout` | `VSpec /\ []SignalLeavesNothing => []StackAsCompiled`: on any verified code operands and handlers are where the compiler put them |
| `FramesKeepApart` | `VSpec /\ []SignalLeavesNothing => []OwnOperandsOnly`: no instruction takes an operand or a handler of a caller |
| `VerifiedCodeStands` | `VSpec /\ []SignalLeavesNothing => RefusesValuesOnly`: of its checks of bytecode the machine needs those of kinds and of closures only |
| `UnifyProofs!UnifyTypeCorrect` | `Spec => []TypeOK` |
| `TypesStayFinite` | `Spec => []Acyclic`: no type contains itself, at any step of any call |
| `EquationsStay` | `Spec => []EquationsHold`: what `unify` has made equal stays equal |
| `PruneEnds` | `Spec => []WalkAdvances`: `prune` never comes back to where it was |
| `UnifyGetsShorter` | `Spec => UnifyShortens`: every step of `unify`, `occurs_in` and `prune` leaves less to do |
| `UnifyIsBounded` | `ToDo` is five natural numbers, and they can not become fewer for ever |
| `EquationProofs!UnifyDecides` | `NoSchemas` gives `Spec => ImplementsEquations`: yes if and only if there is a common solution |
| `BindingsAreForced` | `NoSchemas` gives `Spec => []BindingsFollow`: a binding is equal in every solution |
| `UseLoaderProofs!LoaderTypeCorrect` | `Spec => []TypeOK` |
| `NothingTwice` | `Spec => []EachPathOnce` |
| `DependenciesFirst` | `Spec => []ImportsFirst`: what is in the program stands behind all it imports |
| `CyclesAreReal` | `Spec => []StackIsImportChain`: each file on the stack imports the next, so what is called a cycle is one |
| `LoadGetsShorter` | `Spec => LoadShortens`: every step of a load leaves less to do |
| `LoadIsBounded` | `ToDo` is five natural numbers, and they can not become fewer for ever |
| `ReplProofs!TypeCorrect` | `Spec => []TypeOK` |
| `SessionIsAccepted` | `Spec => []SessionAccepted` |
| `NumbersAreUsedOnce` | `Spec => []NumbersUsedOnce` |
| `AnswerIsOfTheLast` | `Spec => []AnswerOfLast`: what is printed is the value of the paragraph accepted last, under its own number |
| `SessionOnlyGrows` | `Spec => SessionGrows` |
| `EncodingProofs!WordReadsBack` | two bytes that hold a `uint16_t` are read as it |
| `DistanceReadsBack` | a displacement is read as it was meant if and only if it is an `int16_t` |
| `CodeReadsBack` | for every compilable chunk, `ReadsBack(chunk) <=> Fits(chunk)`: the machine fetches at each place what was compiled there if and only if each operand and distance fits its field |

*Heap.* The inductive invariant says more than the properties: what each phase
may have in `src`, `dst`, `dying`, `marked` and `gray`; that a cell of a freed
object is empty and, until something is freed too early, every occupied cell
points to a tracked object; that the count of each tracked object and its ledger
add up, and an object that is not dying and was not lent has a count other than 0;
that what was freed while a cell holds it was lent more often than lost; and that
marking is closed (a marked object's children are marked, unless it is gray).
Counting is by cardinality: `PutCount`, `ClearCount` and `MoveCount` say how
`Cardinality(Refs(o))` changes when a cell is filled, emptied or moved, and every
operation is made of those three. `OnlyLentIsFreed` and, with no loans,
`ReachableIsTracked` follow because the tracked objects are closed under the cells
as long as none was freed too early, and `FreeHeld` takes a count of 0 or less with a
cell left, which the ledger explains by loans only. `GarbageIsCyclicOrSlipped`
follows because between operations the count of an object without slips is positive,
so some cell holds it, and that cell is in a garbage object when the object is
unreachable. `CollectExact` needs nothing of the counts. That operations end is a
measure, `Work`: the slots still to fill; or the cells that hold something and the
objects tracked, and while marking twice the objects not marked and those gray.
Every step takes more from it than it adds, with any number of objects.

*Machine.* `TypeOK` needs nothing but `HandlersOfLiveActivations` in addition:
an exception resumes `frames[h.depth]`, which must be there. The proof goes by
groups of actions (`LoadsType`, `CallsType`, `TriesType`, ...). For the other
two theorems the lemma `StepShape` sorts every step into one of seven shapes
(stays, enters, leaves, opens, closes, unwinds, ends), whatever the
opcode, and the rest of the proof is about shapes. The refinement also needs
`ActsOrdered`: frames are numbered in increasing order, which makes an
activation's number tell it from the ones before.

*Verified code.* `Laid` gives each frame a point of its chunk and a place from which its
operands and its handlers start, such that each frame begins where the one
below ends. There are six ways a step can go: on in the frame, into a callee, into a
region, out of one, back to the caller and to a handler. A lemma each leads from one
layout to another, so that the invariant is proved about six shapes and not about
29 opcodes; that the places are the recursive function `Mark` of the property is
shown by a least counterexample. `VerifiedCodeStands` needs in addition that each
frame has the locals of its chunk (`LocalsFit`).

The premise `SignalLeavesNothing` is about one throw: a return signal for which no region
is open ends its frame as a return does, and `OP_THROW` does not look for operands
that are left. Only a `return` in the middle of an expression leaves some (the hazard
at `src/compile.c:531`, which shows that the premise is needed); in the 883
programs of `backends` it is always true.

*Unify.* That a binding closes no cycle cannot be seen from the binding: it
depends on everything `occurs_in` has visited, through chains that are shortened
meanwhile. The invariant keeps, as history, the set `seen` of types visited and
says that their children are in it or still to come, and that the variable is
not (`Visit`); when nothing is left to visit, `seen` is closed under `Succ`, so
no path leads from the type to the variable. `Chains` and `Walk` say that
shortening never changes where a chain ends; `Accounted` that every pair ever
compared is settled, in progress or to come, which at the end of a call is
`EquationsHold`.

*Unify ends.* The ways down are those of a graph: finitely many places, and for each type
the places of its children. `NoWayTwice` says that no way meets a type twice, since the types on
it from one meeting to the next would contain themselves (`Acyclic`); so a way has at
most as many steps as there are types (`WaysAreShort`, by counting), and there are finitely
many (`FinitelyManyWays`). `Ways` is a recursive function on the number of steps, and
`WaysAre` proves that it is the set of these lists; this is an induction over numbers, done
with the least one. When a type is exchanged for its children each way from a
child becomes a longer one from the type, all are different, and the way that is the type alone
is not among them: there are fewer (`FewerWays`, `Descends`). When the
arguments are exchanged a variable comes first, below which there is nothing, so there are no
more (`NothingBelow`), and the call has come further. `prune` does not come back to where it was
(`NotPassed`), shortening a chain leaves its end where it was, so all ways stay
(`SameEnds`, `SameWays`), and a binding, which may add any number of ways, is counted before
them. The order of the five numbers is the lexicographic one, without endless
descent by the library's theorem on products. As with the loader this is the whole of
termination but that a next step is taken.

*Unify decides.* Two arguments meet in `JInv`. *Yes is right*: when a call has said yes,
equality of what types are bound to, and of their children in turn, is an
equivalence (`Equal`, the largest relation that bindings, heads and children agree
with), its classes are congruent because every pair compared was settled,
and founded because the types have no cycle (`Acyclic`): they are a solution.
*No is right*: in every solution of the equations each binding made, each pair still
to compare and each type `occurs_in` has come to is what the equations say
(`Forced`); so a clash of heads contradicts all solutions, and so does a variable
found inside the type it should be bound to, since no type is a part of
itself. The same invariant gives `BindingsAreForced`. Solutions are sets of
functions and not a closure, so that no induction over data is needed. The premise
`NoSchemas` says that `Shapes` has no generic schema.

*Loader.* Each activation waits for the module at the head of its list, which is the
path above it on the stack, the one being called or one that was loaded
(`Waiting`, `Called`), and what its earlier lines asked for is in the program or
still in the list (`Covered`): so its text goes in behind all its imports, even
when some of them were loaded by somebody else.

*The load ends.* No path is read twice, but a file has any number of spellings. The
loader makes only some of them: `Resolve` puts at most one `.` in front of a module
and keeps those of the entry, so each path it comes to has at most as many parts
as the file it leads to and an entry together (`Spelled`, `ResolveSpelled`). Those
are finitely many (`SpellingsAreFinite`), and each reading takes one of them out of
`Readable`. Every other step takes away an activation, a line, a module of the line
or comes further with the module, and an error leaves only activations to unwind.

*Session.* While a text is checked it is the session and one piece more
(`Checked`), and the numbers in the session increase and stay below `seq`, or
reach it while the wrapper that has it is evaluated (`Numbered`). The parser,
the checker and the evaluator are arbitrary operators. `AnswerOfLast` needs in addition
that a session being evaluated ends with the wrapper whose number is `seq` (`EndsWrapped`).

*Encoding.* For words and displacements division and remainder, for any even `Byte`. For a
whole chunk (`CodeReadsBack`): the code is laid out one instruction after the other, so each
begins at the sum of the sizes before it, and the bytes from there on are
its own; the machine fetches an opcode, whose operands it reads with the widths of that
opcode. A distance, patched in later, comes back exactly when it is an `int16_t`, an operand
when it is below the limit of its field, and what does not fit is read as something else. So an
overflow, which the compiler does not look for, is the *only* way the bytes can
differ from the code, in any chunk `Compilable` describes. That the compiler's chunks are
such is part of `BytesAreTheCode`, and so checked by TLC on the programs of `backends`.

*Checked by TLC only.* Liveness (`Terminates`), which the provers do not reach; and
`Compile`, `TreeWalk`, `Backends`, `TypeCheck`, `Typing`, `Parser`, `Grammar` and
`Spelling`, which are recursive over syntax trees: induction over trees is beyond
the provers. So `Agree`, `SmokeTable`, `CodeVerifies` and `BytesAreTheCode`, the
properties of the checker and of the parser, and `AnswerIsOwn` and `ValueStays`,
which are about the values `TreeWalk` gives, stay with their runs. The proofs never
refer to these modules; what they show holds for the chunks the compiler makes (of
which `CodeVerifies` says that they are verified), the types the checker compares
and the texts the parser accepts because it holds for all.

## 5. Disagreements with the documentation, shown by a run

1. **`finally` does not always run** (`finally_skipped`). `DESIGN.md:318`:
   "`finally` always runs — whether the `try` block succeeded, threw, or was
   caught." `compile_try_stmt` compiles the finally block after the catch body,
   with no handler around it (`src/compile.c:820`).
2. **A `return` is caught by the caller** (`signal_escapes`). A `return` in a
   try region is lowered to a throw of a sentinel; `OP_THROW` gives it to
   whatever handler is on top (`src/vm.c:1246`), a caller's too, which has no
   clause for it, throws it again and so returns from the caller. `DESIGN.md:534`
   calls `return` in try regions supported.
3. **No exception crosses a call in the interpreter** (`cross_call`), although
   the smoke test for exactly that passes in the machine, and `DESIGN.md:534`
   and `:652` promise it of both (`src/eval.c:2330`).
4. **A program can be accepted with bodies that were not checked** (`unchecked`).
   `unify_structural` says no without an error when two structs differ
   (`src/types.c:310`); the pass over the bodies stops there, and the checker
   finds no error to report.

## 6. Other behaviour met while modelling

The models have all of this; no run states a property that it would violate.

*Heap.* (In the interpreter; `Lend`, `Forget` and `FillFail` are these steps.)
- **A result is freed before it is returned.** The value of a block that returned is
  `ctx->return_value`, not retained (`src/eval.c:2214`, 2218). In `if c { return [1]; };`
  the statement releases it (2130-2131), the array is freed, and `eval_invoke_fn` returns
  it (2327-2328). `ReachableIsTracked` as an invariant of `heap` fails by these steps:
  `New`, `FillDone`, `Lend`, `Release`, `FreeHeld`.
- After `try { return [1]; } ...` the count of the result is one too high: `eval_try_stmt`
  retains it (1988, 2025, 2089) and puts it back over the original (2101).
- A composite value at the end of a `try`, `catch`, `finally` or `for` body is dropped with
  no release (1984, 2012, 2059, 2166) and stays until a collection.
- A closure with a captured name that is unknown is freed and stays on `g_heap_objs`
  (1931), where the next collection reads it: a lambda in a function that calls a
  top-level function does it, because `fv_walk` captures the name. `OP_CLOSURE` has the
  same path (`src/vm.c:622`); compiled code does not take it.

*Back ends.*
- A `RETURN` of a function without a value finds an empty stack
  (`src/compile.c:588`; `LANGUAGE.md:97` calls the return type optional).
- `include/bytecode.h:70` calls the operand of `TRY_ENTER` a "handler target ip"; it is
  a signed displacement. Nothing checks that a displacement, a slot or an index fits.

*Type checker.*
- A type parameter is not rigid (`src/types.c:3233`): `fn inc[T](x: T) -> T { x + 1 }` is
  accepted and fails at run time for a struct.
- `impl Trait for S {}` without the methods is accepted (`DESIGN.md:168`), and a bounded
  call of one then fails.
- An initialiser may call a function that uses a later constant.
- `(if false { 1 }) + 2` and `true < false` are accepted and fail at run time.
- Whether a match is exhaustive is decided without its guards and without the patterns
  inside `Some`.
- `|x| x` on its own is rejected: its type must be known at once.
- Names of methods are global.
- `DESIGN.md:109` makes bindings immutable without `mut`; nothing checks it, and
  `LANGUAGE.md:171` assigns to a plain `let`.

*Use loader.* A file reached under two spellings is put in twice (`src/main.c:582`): `lib/m.mons`
with `use a;` and `use lib::a;`. `README.md:44` promises "recursive resolution, duplicate
suppression, and cycle detection"; `EachPathOnce` is about spellings.

*REPL.*
- An open `/*` is answered "ok" and swallows later paragraphs until `*/`. Braces in strings
  and comments count.
- `const K = 1/0;` is accepted, then every expression fails until `:clear`.
- A function the user calls `__monsrepl_0` blocks expressions until `:clear`.
- A `let` in a wrapped paragraph is lost, the wrapper stays in the session
  (`LANGUAGE.md:23` calls it temporary); `1 } fn g() { 2` escapes its wrapper.

*Parser and `mons_grammar.ebnf`.*
- A struct pattern with a rest is read without the comma only: `P { a .. }`, not
  `P { a, .. }` or `P { .. }` (`src/parser.c:1445`).
- `(P) {` is a struct literal, parentheses notwithstanding, so `if (P) { ... }` cannot be
  written.
- `for` and `try` need a `;` inside a block. `(1,)` is read and `(1, 2,)` is not.
- An arm whose body is a block takes no comma. `None` after `::` is a keyword the EBNF
  does not derive.
- Default methods, bounds of traits, generic traits and `pub use` are rejected.
- `pub impl`, `use a::*;`, `..base,`, the type `()`, `Foo[]`, `f::<>(x)` and a trailing comma
  in a lambda are accepted.

## 7. Not modelled

* *Lexer.* A scan of characters with nothing but a cursor; here texts begin as tokens.
  (In a string, a backslash just before the end of the text moves the cursor past the
  terminator, `src/lexer.c:190`.)
* *Arena.* Bump allocation in a chain of blocks that is given back as a whole. Memory
  never runs out in the models; in the code `ast_list_append` then returns the list
  without the new item, and nobody is told.
* *Reflection and printer.* Formatting without state.
* *Standard library.* Mons source; the functions the smoke tests use are in
  `SmokePrograms`.
* *Integers of a width*, *strings* and *floating point* in the back ends: numbers are
  integers, and no property is about their limits.
* *Partly modelled*: what the sections on `Compile`, `TreeWalk` and `TypeCheck` leave out.

## 8. What is left

1. More programs for `Backends`, for each of the differences listed in section 3, with the
   property that says which back end is right once the language decides.
2. Generic impls, super-traits and `Result` in `TypeCheck`.
3. Integers of a width in `Arithmetic`.
4. Proofs: that verified code with no loop ends, by a measure on the points still ahead.
