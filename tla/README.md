# fastwasm in TLA+

fastwasm loads a WebAssembly binary, compiles it ("validation" plus an instance) and interprets one exported
function. The modules here model the program's own logic in three compositions: the readers that decode the
bytes (`FwLeb`), the session of `bin/run.c` from the file to the function that runs and back to the last `free`
(`FwSession`), and the pass that builds the block table with the interpreter that trusts it (`FwRuntime`). Paths
are relative to the repository; `fw_instr.c` is `src/instr/fw_instr.c`, `fw_exec.c` is `src/exec/fw_exec.c`,
`fw_compile.c` is `src/jit/fw_compile.c`, `fw_loader.c` is `src/module/fw_loader.c`, `fw_str.h` and `fw_file.c`
are in `src/core`.

## 1. The system

There is one process and one thread. Components interact by calls and by the data they leave for each other.

| component | state | operations | talks to |
|---|---|---|---|
| byte strings, LEB128 (`core/fw_str.h`) | a cursor `pos` in `[first, last]` | read, skip and decode bytes and LEB128 | used by the loader, the validation and every handler |
| intrusive lists (`core/fw_list.h`) | list heads inside the owners | add, delete, iterate | blocks, imports |
| files, memory (`core/fw_file.c`, `core/fw_mem.h`) | none | read a file, `malloc`, `calloc` | loader |
| section loader (`fw_loader.c`) | the `fw_module_t`: types, imports, functions, exports, bodies, counts | `fw_module_load`, one parser per section, `fw_module_free` | gives the program image to compile |
| import registry (`fw_imports_wrap_*`) | a hash table of host functions by name | new, insert, find | read while an instance is built |
| compile (`fw_module_compile`, `fw_instance_funcs`) | `module->instance`: one index space of imported and own functions, exports | build once | registry, loader's image, validation |
| validation pass (`fw_module_validate_inst`, `consume` handlers) | the cursor of a body, `blktmp`, `iftmp`, `func->blk` | one handler per opcode | leaves `func->blk` to the interpreter |
| interpreter, frames (`fw_exec.c`) | `ctx->stack`, `ctx->pos`, `ctx->frame`, `ctx->locals`, the C activations | `fw_module_run_func`, `_fw_module_run_func`, host calls | calls the `run` handlers, which call it back |
| interpreter, handlers (`fw_instr.c`) | the cursor, the stack, the locals | one `run` handler per opcode; `if` runs a nested loop | reads `func->blk` |
| driver (`bin/run.c`) | the module | load, compile, run, free | all of the above |

What makes each correct, and what is hard about it:

* **Validation pass.** It runs over bodies nobody has checked, ignores what the handlers answer, and builds a
  table keyed by address with two stacks that are popped by different handlers. The table is right when every block
  has the address behind *its* `end` and *its* `else`, an address names one block, and two blocks of a function
  are nested or apart. A failed allocation drops one block and the pass goes on; an immediate that is refused leaves
  its bytes to be decoded as opcodes, one that begins in the body may end behind it. The pass must end on any body none
  of whose immediates goes on for 256 bytes: there it does not.
* **Frames and locals.** One `fw_module_context_t` serves all nested calls: `ctx->locals` is handed down and put
  back, `ctx->frame` is handed down and *not* put back, the error path frees a different set of pointers than
  the normal one, and C locals can be read before they are assigned. Correct means: every block of locals has
  one owner, is freed once, never used after, and none is left when the run has succeeded.
* **Handlers.** There is one operand stack for all functions, no typing, and labels are pushed among the
  operands. A `return` unwinds nested `if` loops only through the position of a cursor. Errors of handlers are
  dropped. Correct means: a well-typed program computes what WebAssembly says, a function leaves its caller's
  operands alone, no step leaves the stack array, and the run ends (but in an immediate without an end).
* **LEB128.** Every count, index and size of a file passes through two macros with counters of eight bits, an
  `int` that is shifted beyond its width, a bound test that looks at the first byte only and a length test behind
  the loop. Correct means: a field is one encoding, has the value the format gives it, and fields lie side by side.
* **Loader.** Twelve handlers read sections in the order of the file, one of them (functions) reads another section
  beside its own, one (imports) reads its own twice. Counts are stored before arrays are there, arrays before they
  are written, handlers give up halfway, and `fw_module_load` drops what `fw_module_parse` answers. Correct means: a
  file that follows the format is loaded as written; whatever the file and whichever allocation fails, what has been
  allocated is freed once, and nothing that was not written is read.
* **Registry.** One hash for two names, insertion at the head, no test for duplicates. Correct means: it is a map.
* **Run, as the driver sees it.** A function that is run may leave by `exit`, never come back or lose the process; one
  without parameters and locals frees a pointer nobody has assigned. Nothing the driver does later happens then.
* **Compile.** Imports come first in one index space, each with the host of its names and the type of its entry;
  exports are indices of that space, whatever kind they say. A failure leaves a half built instance behind.

`PROJECT.json` lists the hazards line by line with the properties that cover them.

## 2. The modules

| module | models | extends / instantiates |
|---|---|---|
| `FwCode` | the loaded program and the block table | |
| `FwLemmas` | lemmas on sequences and on sets of natural numbers, which the proofs share | `SequenceTheorems`, `WellFoundedInduction`, `TLAPS` |
| `FwValidate` | the validation pass, its properties and its inductive invariants | `FwCode` |
| `FwValidate_proofs` | the theorems about the table, whatever allocation fails, and when each succeeds | `FwValidate`, `FwLemmas`, `FiniteSetTheorems` |
| `FwExec` | the interpreter | `FwCode` |
| `FwExec_proofs` | a step of the interpreter keeps its invariant | `FwExec`, `FwLemmas` |
| `FwRuntime` | compile, then run: the two share the program and the table | instances of `FwValidate` and `FwExec` |
| `FwRuntime_proofs` | the theorems about the two together | `FwRuntime`, `TLAPS`, instances of `FwValidate_proofs` and `FwExec_proofs` |
| `FwLeb` | the readers of `fw_str.h`, byte by byte, and the integers of the format by definition | |
| `FwLeb_proofs` | the theorems about the readers | `FwLeb`, `SequenceTheorems`, `TLAPS` |
| `FwHeap` | where the process stands, what is allocated, and what `fw_malloc` and `fw_free` do to it | |
| `FwLoader` | `fw_file_read`, `fw_module_load` with its handlers, `fw_module_free` | `FwHeap` |
| `FwRegistry` | abstract: a map from names to hosts | |
| `FwImports` | the registry of lists and hashes, and the map it stands for | `FwHeap`, instance of `FwRegistry` |
| `FwInstance` | `fw_module_compile`, `fw_instance_funcs`, the lookup of an export | `FwLoader`, `FwImports` |
| `FwSession` | `main` of `bin/run.c`: the order of the above, its inputs, the properties of the whole | `FwInstance` |
| `FwSession_proofs` | the proof that the registry implements `FwRegistry` | `FwSession`, `FwLemmas` |
| `FwLoad_proofs` | the types of a session, and the load that fails | `FwSession_proofs`, `FiniteSetTheorems` |
| `FwHold_proofs` | what a module keeps allocated, what `fw_module_free` finds of it and leaves, the two passes over the imports, and what the compilation and the run read | `FwLoad_proofs` |
| `MC_Validate`, `MC_Runtime`, `MC_Leb`, `MC_Session` | families of programs, byte strings and files for TLC | one of the above each |

### From code to state

* An **address** is the index of a cell of `prog.code`: what the cursor moves over in one turn, an opcode and the
  immediates it has read, `[op, arg, imm]`. All bodies point into the loader's one buffer, so addresses of different functions are comparable,
  and a stray cursor runs from one body into the next: the bytes between bodies are a cell `hdr`.
* **Immediates.** The readers test the first byte of an immediate and no other (`fw_str.h:99-112`), so a cell says what became of
  it: `imm` is `whole`; `refused`, when no byte is left or the encoding is too long: the cell is the opcode alone, and the
  bytes are cells of their own, decoded as opcodes; `cut`, when it begins in the body and ends behind it: the cursor
  passes `body.last`, for which `fw_compile.c:19` tests; or `endless`, 256 continuation bytes, with which `_round` comes back to 0 and
  the handler never returns. `Behind` is where the cursor goes. `fw_instr_consume_rtype` refuses too (`fw_instr.c:85-87`): such a block stays in
  `blktmp` without a `start`, and an `if` does not get into `iftmp` (`fw_instr.c:98-100`).
* A **block** (`fw_module_func_block_t`) is an index of `desc`, in the order of allocation; `blk[f]` is the list
  `func->blk`. `start`, `els`, `end` are its addresses, 0 for one that is not set.
* Opcodes that the handlers treat alike are one: `wide` for the three constants that are not i32, `norun` for
  those the validation reads and the interpreter has no handler for, `hole` for table entries without any
  handler, `unknown` for an opcode beyond the table.
* `FwValidate`: `cur` is the function of `for_each_funcs`, `pos` is `body.pos`, `blktmp` and `iftmp` the lists.
  One action is one `consume` handler; `NextFunc` is the end of the inner loop; `AllocFails` is an opener whose
  `calloc` answers NULL, which leaves its result type to be decoded as an opcode: 0x40 has no handler, a value type is
  an opcode without immediates, any other type may be any opcode. `vphase` says how the pass
  stands: `corrupt` is an `else` that takes an entry from the empty `iftmp`, `crash` a NULL handler that is called, `astray`
  a result type decoded as some other opcode, which is followed no further.
* `FwExec`: `acts` is the native stack: an activation of kind `func` is a call of `_fw_module_run_func`, one of kind
  `if` the nested loop of `fw_instr_run_if`. `calling` is the function about to be entered. `stack`, `sp`,
  `frame`, `locals` are the fields of the context. `heap` holds every block of locals ever allocated, live or freed, by
  identity, so that a double free or a use after free is a fact of the state. One step is one handler, or the
  entry or exit of one C function. `base` (in `acts`) and `astray` are history variables: they record the depth at
  which a function was entered, and whether the error path was taken or an unassigned C local read. No
  action reads them.
* C variables that are read before anything is assigned (`locals` of a function without slots, `save_locals` on
  the error path of a failed allocation) may hold NULL, a value that is no block, or a block that was allocated
  earlier: `Garbage`.
* The loops drop what a handler answers, so `FW_ERR` of a handler changes nothing but what it has popped before.
* `FwLeb`: a byte and a value are sets of bits, so that `|` is union and `<<` moves a set. `call` is the reader
  that runs, `round`, `shift` and `res` the variables of its macro, the first two modulo 256. One step is one turn of
  the loop. `Shift` is `<<` of an `int`: beyond 31 C does not define it, and `masks` chooses once what the build does
  (the count modulo 32, or 0). `fields` is a history variable of what was read.
* `FwHeap`: an object has the name of what it is and of the place in the file that made it, so that the same place
  allocated twice, freed twice or not at all is a fact of `live`. A pointer is such a name, `Null`, or `Wild`,
  the contents of memory nobody has written. `Mallocs` is all calls of one step; `fails` bounds how many
  allocations of a session may still fail. `pc` is the control of the process; in `crash` and `bad` it is lost.
* `FwLoader`: the file is a sequence of cells, `mod` the `fw_module_t`: `secs` its list of sections, `vec[k]` a count,
  an array and its entries, `imp[k]` the same for each kind of import. `at` is the section whose handler runs, `item`
  the turn of its loop, 0 before it has read its count. Two cells, `Endless` and `Torn`, are numbers that are not read to
  their end: one of 256 continuation bytes and one the end of the file cuts. Each place that reads a number is in
  `NumbersAhead`, or tests for them itself; at the first of them the process is `hung` or has gone beyond its memory (`overread`). `probe` is the cursor of the pass over the imports that
  counts; `nxt` is the local `imports[]` of the pass that stores. The actions are named for handlers and turns:
  `BeginVector` and `SectionEnds` are what the handlers share, `TypeEntry`, `ExportEntry`, `ElemEntry`, `FuncEntry`,
  `ImportEntry` and `PlainEntry` one entry. `FreeVector`, `FreeImports`, `FreePlain`, `FreeRest` are `fw_module_free`.
* `FwImports`: `buckets[b]` is a list, head first; an entry's `id` is when it was registered. `FwInstance`: `funcs` is
  `instance->funcs`, an entry either a host with a type or the index of an own function; `compiled` is what
  `fw_module_compile` answered, `ran` the function `fw_module_run` is given. `RunFunc` gives up, calls a host (`RunHost`) or runs a
  function of the module (`RunOwn`), which may succeed, leave by `exit`, hang, or lose the process in any way; only one that is
  `Quiet` is known to succeed: it has a parameter, drops no more than it has been given, and does nothing else.
* `FwSession`: `given` is the case: the cells, whether `fread` falls short, what the driver registers, how many
  allocations may fail, and, for the properties only, what the file was written to say.
* `phase` says how a run ended. `ok` and `fail` are the two answers of `fw_module_run_func`, `exit` is `exit(-1)` of
  a full or an empty stack, the rest (`crash`, `bad_free`, `bad_access`, `wild`) are outcomes C does not define.
  Nothing is modelled behind them.

### What is abstracted

`FwExec`: values are naturals, results are at most one i32, arguments of the command line are already what `atoi`
makes of them. Printing, timing and the freeing of the context are left out; so are the two buffers of a host call, and
`ctx->current`, which is written and never read, and the branch target of a stack cell, which only `else` would read,
behind a test for a cell that no handler pushes. A host function answers any value of `HostVals`; beyond `HostArgsMax`
(20 in the code) arguments the dispatcher has no case.

`FwSession` composes with the other two by what they establish, not by sharing state: a cell is one LEB128 number or
one field of fixed width, as `FwLeb` shows the readers to deliver them, a run of bytes is a cell for each. Of the encodings
they do not deliver, the one without an end and the one the file cuts are cells of their own (above); one that is too
long errs as a section does that ends before the number, and one the section ends in takes the cell behind the section, as the loader's
bodies and names do. What a
bytecode does in the validation pass is `FwValidate`'s, so `Validated` lets a body of other opcodes than `PlainOps` end
in any way the pass may; what a function does when it runs is `FwExec`'s, so `RunOwn` lets any function that is not `Quiet` end in any
way the run may. Limits,
initial values of globals and the bytes of data segments are passed over and not kept, as nothing in the repository
reads them after the load. `U32` is 2^32 in the code.

## 3. The runs

| run | question | instance |
|---|---|---|
| `validate` | is the table right, for every body? | every body of up to 5 cells over `if else end block`, every pair of functions of up to 3 cells each, bodies with holes, structured bodies up to three blocks deep, every body of up to 4 cells whose immediates are refused, endless or cut, or whose result types are not i32 |
| `validate_alloc` | what is left of the table when the allocation of any block fails? | the same bodies; any opener may be lost |
| `validate_else` | "the else block belongs to latest if block" | the bodies of `validate`; violated, see section 5 |
| `runtime_typed` | which programs compute what WebAssembly says, and does a typed function keep to its own operands whatever program it is in? | 570 programs of the fragment, generated with their meaning; 612 with blocks, loops, recursion, calls below operands, host calls; arguments 0 and 1 |
| `runtime_any` | what holds for programs nobody has typed, with allocations that fail? | 9380 programs of chunks, right and wrong, with immediates of every kind, a stack of 3 cells, 3 activations |
| `runtime_return`, `runtime_args`, `runtime_nullary`, `runtime_depth` | what the comments of the code say | violated, see section 5 |
| `leb` | which encodings are decoded as the format says, what is read beyond the string, does a reader come back? | every string of up to two of eight bytes with every continuation, two calls each; encodings of 1 to 11 bytes, and of 255 to 257; both builds |
| `leb_const` | "Uninterpreted integers are encoded as signed integers" | the strings of `leb`; violated, see section 5 |
| `session` | what does one process make of a file? | 75 sound files bare and 75 with every section, 125 of registries, 8 sound ones this loader does not take, every single-cell change, cut, dropped, repeated or exchanged section of two files, a number without an end at 54 places and one the file cuts at 3, every single failing allocation of ten |

**Why the bounds are enough.** A wrong entry of the table needs two blocks and the `else` or `end` of one of
them: five cells hold every such pair, nested or side by side; three cells in each of two functions hold a list or
a cursor that leaks from one to the next; depth three puts a stack of stacks in both branches of an `if`; four cells (`MaxOdd`) hold a
refused opener, what its bytes decode to, and an `else` and `end` that find its block, or miss it. In the
run models the stack bound (3) is reached with three pushes and the bound of activations with three calls, so
both limits are met from both sides; the fragment never reaches the bounds of `runtime_typed` (16 cells, 6
activations: `RunsRight` would fail), its other programs do only where a callee calls back without end. The host answers 0 there, and
conditions on its answer come in both forms, so that both branches are taken.
The readers differ in their widths (8, 32, 64), in the number of bytes those allow (2, 5, 10) and in the
width of their counters (256 bytes): the encodings lie on both sides of each. Strings of two bytes cut every reader
in its first and second byte and let a field begin behind another. In the session, three imports are enough for every
order of two kinds and for an array with a second entry; two functions for a body that begins where another ends; five
registrations for buckets with several entries of one name and of two; one failing allocation for each place of failure,
as every handler gives up at the first. `U32 = 256` is reached with two groups of locals.
`DepthMod`, 256 in the code with 4096 cells, is 2 with 16 cells in `runtime_depth` and equal to `StackMax`,
which is the code for a stack that never holds 256 cells, everywhere else.

**The fragment** (`FragmentPrograms`) is what the interpreter gets right: `if`, `else`, constants, locals, comparisons,
`select`, `return`, calls of own and host functions, with no `block` or `loop`, no call that has operands below its
argument, no `return` after a call in the same function, no function without parameters and locals, and no `if`
without `else` inside the first branch of one with `else`. Each exclusion is an effect another run shows or a label
that stays on the stack. `MC_Runtime` builds each term together with what it denotes, and `RunsRight` compares the
result of the run with the denotation.

**Properties.**

* `StructuredNeverLost`: an `else` of a structured body always finds its `if` in the list, whatever `end` and `else`
  have left in it before.
* `EndsMatch`, `ElsesMatch`: the table is what counting openers and `end`s in the code says, a definition that knows
  nothing of stacks. `ElsesMatch` is for structured bodies without an else-less `if` in a first branch.
* `BlocksNested`, `FindBlkUnique`, `BlocksInBody` (and `PassInv`, the inductive invariant): for every body and
  every pattern of failed allocations. `CountInv` is the inductive invariant behind `EndsMatch` and `StructuredNeverLost`:
  what the two lists count.
* `Terminates`, `RunEnds`: the pass and the run end, or hang in the handler of an immediate that is `endless` (`HandlerHangs`,
  `ReaderHangs`), the one way not to end the code has. A run that is lost, or needs more than `MaxActs` activations, counts as ended.
* `RunsRight`, `FragmentLocals`, `FragmentReturns` in the fragment, the last two being what `runtime_nullary` and `runtime_return` show violated outside it; `CallerOperandsKept` for typed programs: after every step, the
  cells below the arguments of every function on the native stack are as they were.
* `LocalsOwned`: as long as nothing went astray, the blocks that are allocated are exactly those `ctx->locals` and the
  `save_locals` of the activations point to, each to its own. `NoBadFree`: a free that C does not define comes only after
  an error path or an unassigned local, whatever the program. `NoLocalsLeak`: a run that succeeds leaves none.
  `LocalsUsable`: a function with locals runs with a block that is allocated. `LocalsHeld` says so of every program, as long as
  nothing went astray; `RuntimeInv` is the inductive invariant of compile and run.
* `TypeOK`: of the pass, that the cursor leaves a body by one place only and only behind an immediate its last cell cuts; of the
  run, that cursors stay in the code, or one place behind it, and the stack in its array, after stack-cutting returns as well; of the
  readers, that `_round` and `_shift` stay in step while both wrap, and that a value has the width of its reader.
* `leb`: `UnsignedRight`, `SignedRight` compare what was read with the value of the bytes by definition, and
  say for which lengths and signs it is right; `FieldsTile` says what is accepted as a field; `OverreadsTruncatedOnly`
  where bytes beyond the string are touched; `ReadersFinish` when a reader comes back.
* `LoadedAsWritten`: a sound file loads, and the module says what the file says, but for those `ForThisLoader` names. `CountsRight`: the two passes over the
  imports agree, for any file. `LoadLeavesNothing`: a load that fails leaves nothing allocated. `ParsedModulesSafe`: a
  module that was parsed to its end can be compiled and freed, and run in between if what runs is a function of the host's or a
  `Quiet` one of its own. `HalfParsedFreed`: which modules that were not can
  still be freed. `NothingLeft`: what a session leaves allocated. `SessionEnds`: it ends or is
  lost, but in a number without an end, and in a function that hangs (`Hangs`).
* `RegistryImplements`: the lists are the map of `FwRegistry` (a refinement). `IndexSpace`: the function at an index is
  the one the format puts there, with the newest host of its names, and a compilation fails only for a reason.
  `ExportRight`: the function that runs is the one that the first export of that name has as its index.

**The sound files this loader does not take** (`ForThisLoader`). The format allows them; the code refuses them or reads something
else. `MC_Session` writes each kind but the last.

| file | what happens | where |
|---|---|---|
| without a code section | refused | `fw_loader.c:1021` |
| with a memory section | refused: the test of its allocation is inverted | `fw_loader.c:409` |
| with a table import | misread: the counting pass skips less than the storing one reads | `fw_loader.c:678` |
| an element segment of several functions | misread: one index is read | `fw_loader.c:245` |
| a start function beyond the number of own ones, as an imported one makes it | refused | `fw_loader.c:275` |
| a type of 256 parameters or more | the counts are kept in a byte each | `fw_module.h:77` |

**What the other properties exclude**, each because the model shows the process lost or the file misread there:
a section that comes twice
(`fw_loader.c:914`); a number of element segments other than that of functions, by which they are freed
(`fw_loader.c:143`); a type index equal to the number of types (`fw_loader.c:538`); table imports again; a body that leaves the
file, or of opcodes `FwValidate` may be lost at (`Regular` has all these); a function of the module that is not `Quiet` when it has run; a module parsed halfway whose types,
exports, elements or functions are counted and not written (`fw_loader.c:853`, 306, 221, 523). No line of the
repository promises otherwise, so none of them is listed in section 5; the exclusions name them. A module that is `Regular` is not safe to run:
a `main` without parameters and locals frees a pointer nobody has assigned (`fw_exec.c:199`, 219), as `runtime_nullary` shows.

Each property of a passing run is paired in `PROJECT.json` with a plausible slip of the code, an operator
commented "Variant" next to the one it replaces (an `if` left in `iftmp`, a fall-through into the error label, a missing bound in
`local.get`, ...), under which TLC finds the property violated.

`CHECK_DEADLOCK FALSE` is in every configuration because all of these are meant to stop: a pass that is done, a
run or a session that has ended and a string that is read have no next step. That they stop only there is what
`Terminates`, `RunEnds`, `SessionEnds` and `ReadersFinish` say, with the handlers that hang.

## 4. Fairness

`WF_vars(Next)` and nothing else (in `FwLeb`, of the turns of the loop only: nobody has to call the next reader): the
code is one thread in a loop that goes on as long as it can. Which handler runs is decided by the code, so no stronger assumption has a meaning here. Failed allocations, host answers and
garbage are choices without fairness.

## 5. What the code says and does not do

| run | the code's words | what TLC shows |
|---|---|---|
| `validate_else` | "the else block belongs to latest if block" (`fw_instr.c:113`) | `end` does not take an `if` without `else` out of `iftmp`: in `if if end else end` the `else` becomes a branch of the inner `if`, which is closed |
| `runtime_return` | "mark function end" (`fw_instr.c:345`) | `ctx->frame` is overwritten by a call and not restored: a `return` after a call jumps to the end of the callee |
| `runtime_args` | the picture at `fw_instr.c:322-329` | `stack_deepth` is taken above the arguments: a `return` leaves them on the stack of the caller |
| `runtime_nullary` | "recover locals" (`fw_exec.c:218`) | a function without parameters and locals sets `ctx->locals` to an unassigned C variable and frees it |
| `leb_const` | "Uninterpreted integers are encoded as signed integers." (`fw_str.h:124`) | the operand of `i32.const` is one, and is read with `fw_str_leb_getu32` (`fw_instr.c:237`): every negative operand of fewer than five bytes becomes a positive number |
| `runtime_depth` | the same picture | `stack_deepth` has eight bits: entered at 256 cells or more, a function returns into its caller's operands |

## 6. What is proved

Everything here is for all values of the constants that satisfy the named assumptions, and of no bound.

### The validation pass

`FwValidate_proofs` holds, for every set of programs that satisfies `ProgramsAssumption` (bodies are ranges of the code
buffer, an import has an empty body: what the loader produces), for bodies of any length, well formed or not, and
with or without failing allocations:

* `TableCorrect`: `Spec => []PassInv`, the inductive invariant; from it `TypeCorrect`: `Spec => []TypeOK`: the cursor is in the body, or one
  place behind its end when the last immediate is cut, for which the code tests behind its loop (`fw_compile.c:19`)
* `Nesting`: `Spec => []BlocksNested`, of starts and ends: where a second branch leads it does not say; `Lookup`: `Spec => []FindBlkUnique`
* `BranchesInside`: `Spec => []BlocksInBody`: an `else` too many may set a second branch anywhere in the body, never outside it

**The argument.** `BlocksNested` is not inductive: closing a block sets its `end` to the cursor, and nothing in
`BlocksNested` says where the cursor is, nor that blocks inside it have ended. `TableInv` adds that
identities follow the addresses behind the openers (`open`: a block whose result type was refused has no start) and the cursor is beyond all of them (`StartsOrdered`), that `blktmp` is a stack of open
blocks in that order (`OpenBlocks`), that a closed block ends at or before the cursor (`ClosedBlocks`), and, the key, that
a closed block ends before the start of every block that was opened after it and is open (`ClosedBeforeOpen`). When
the last of `blktmp` is closed, each older closed block ends before it starts, each younger one lies inside it, and each
older open one still has no end. `FindBlkUnique` follows from the strict order of the starts and from
`Listed`. `PassInv` adds what the interpreter needs of the addresses: `BlocksInBody`, for which an entry of `iftmp` must
belong to the body that is read (`IfsOfBody`). The proof has a lemma for each handler that changes the table (`BlockOpens`,
`ElseTaken`, `BlockCloses`, `FuncVisited`), one for those that only move the cursor (`CursorMoves`), and lemmas on the order
of the lists (`OpenedInOrder`, `ClosedInOrder`, `ListedOnce`).

When every allocation succeeds (`~AllocMayFail`) it holds besides:

* `ListsCount`: `Spec => []CountInv`, the inductive invariant
* `EndsRight`: `Spec => []EndsMatch`, for every body, structured or not
* `NeverLost`: `Spec => []StructuredNeverLost`

**The argument.** `EndsMatch` compares an address with a count of openers and `end`s that knows nothing of lists. `OpenDepth`
relates the two: behind an open block as many blocks were opened and not closed as `blktmp` has entries behind it, and no
`end` so far brings the count to zero. So the `end` that closes the last of `blktmp` is the first that does (`ListsClosed`,
`FirstCloser`). `IfsLeft` says that `iftmp` has one entry for every `if` more than `else`, of which a structured body never has
too few, as the `if` an `else` stands in is one without (`ElsesHaveIfs`). Counting is by the library's cardinalities, one cell
further at a time (`CountNext`); no induction over the code is needed.

### Compile and run

`FwExec_proofs` shows that each action of the interpreter keeps `RunInv`, over any table with `TableReady`, and
`FwRuntime_proofs` puts the two components together. They hold for every program of `ProgramsAssumption`, typed or not, every
stack, depth and answer of a host, with allocations failing anywhere, from `RuntimeAssumption` (the bounds are positive numbers,
arguments and answers of hosts are natural numbers):

* `RuntimeSafe`: `Spec => []RuntimeInv`, the inductive invariant
* `CursorsInside`: `Spec => []TypeOK`: cursors stay in the code buffer, or one place behind it; a cursor may leave its own body
* `OwnedLocals`: `Spec => []LocalsOwned`: one owner for each block, as long as nothing went astray; `FreesRight`: `Spec => []NoBadFree`; `LeavesNoLocals`: `Spec => []NoLocalsLeak`
* `LocalsRecovered`: `Spec => []LocalsHeld`

**The argument.** `LocalsOwned` needs to know that the outermost activation found no locals, so that what `EndFunc` puts back is
its caller's (`OuterLocals`); the types need to know that the table leads to addresses of the code (`TableReady`), and that a
branch knows where to go on and a running function has set `ctx->frame` (`ActsNest`). The proof has a lemma for each handler and one for each
way in and out of `_fw_module_run_func`: an entry moves `ctx->locals` into an activation and a new block into its place
(`EnterKeeps`), an end frees the one and moves the other back (`CleanEnd`); on the error path and with an unassigned `locals`
`astray` is true and only the types remain (`StrayEntryKeeps`, `StrayEnd`). In the composition a step of the pass leaves `RunInv`
alone, as the interpreter does not run before `vphase = "done"`, and `PassInv` gives `TableReady` (`PassLeavesTable`); a step of the run is a
stutter of the pass. `LocalsHeld` follows from `RunInv`: the locals of a function that runs are allocated, because they are
owned.

### The readers

`FwLeb_proofs` holds for every buffer, every string in it, any number and order of calls, and both ways a build may
treat a shift beyond 31, from `BuffersAssumption` (a string lies within its buffer) and `SkipsAssumption` (sizes are
natural numbers):

* `TypeCorrect`: `Spec => []TypeOK`
* `Tiling`: `Spec => []FieldsTile`; `Overreads`: `Spec => []OverreadsTruncatedOnly`
* `UnsignedDecoded`: `Spec => []UnsignedRight`; `SignedDecoded`: `Spec => []SignedRight`

**The argument.** `LebInv` carries where the reader is: the bytes from the cursor to `round` all say that more follow
(`Reading`), so the byte that ends the loop is the first one that does not, and a byte behind the end of the string was
reached through such bytes only; and what has been cut (`Cutting`). `FieldOK` says of each field that it ends at the
first possible byte, 256 bytes further when `round` has wrapped. On top of it, `Values` relates the loop's variables to
the bytes read: as long as the encoding ends in time (`Ending`), `shift` is `7 * round` and `res` the value of those bytes, as far as an `int`
can be shifted (`Counting`). `OneByteMore` is the step: seven bits are added above those before. An encoding the length
test accepts is short enough for `Counting` to hold at its end; the sign extension of `gets` is compared with the
definition there. What is beyond (the fifth byte of a negative number, `u64` from 2^31 on) is what the properties
leave out.

### The session

`FwSession_proofs` holds for any file, any registrations of names from `Names` and allocations that fail anywhere, from
`NamesAssumption` (names are sequences of bytes), `NoHostAssumption` (NULL is no host) and `CasesAssumption` (what the
driver registers is a function or a global with such names):

* `RegistryRefines`: `Spec => RegistryImplements`, that is, every session implements `FwRegistry` with `map <- MapOf`.

**The argument.** `RegistryInv` says that an entry is in the list of the hash of its names, and that the entries of a
list are younger the nearer they are to its head (`InPlace`), with `reg` above them all. So every entry of two names
is in the one list that `find` searches, and the first it meets is the youngest (`FindsNewest`, by `Least`: a set of
natural numbers has a least element). A registration puts a younger entry in front of its list: the map changes there and nowhere
else (`EntryAdded`). A registration that fails and all steps of the loader, the compilation and the driver leave the map
alone (`ListsStay`); `fw_imports_wrap_free` empties it (`FreeStep`).

`FwLoad_proofs` holds from the same assumptions, for files of any cells, of a size `fread` reads or falls short of, and with
`CasesAssumption` alone to say what a file is (numbers):

* `SessionTypeCorrect`: `Spec => []TypeOK`
* `LoadsCleanUp`: `Spec => []LoadLeavesNothing`

**The argument.** `TypeOK` of a session says that neither NULL nor a pointer nobody has written is ever among what is allocated.
`SessionTyped` adds the types of the whole of `fw_module_t` (`IsModule`), that the sections lie in the file while they are parsed
(`SectionsInside`: a body may run out of its section, as its length is not compared with the section's), that the loop of a
handler is one through the array it fills (`LoopInside`), and the types of the instance (`InstanceTyped`). A handler that is
entered has a section, its turn an entry (`InSection`, `AtEntry`); each turn either writes that entry, or leaves the module with a cursor
or a handler changed (`MovedOnly`, `EntryKept`, `VectorKept`, `ImportKept`), or reads a pointer behind an array, after which nothing is modelled. Where
an import reads its type in the array of types, the entry is one of `vec[Type]` or the one behind it.

`LoadInv` follows a load through its failure. Until the sections are cut, exactly the handle, the data, the module and the sections
so far are allocated (`Loading`), none has a handler to free it, and no array exists; so the calls of `fw_module_free` on the way
out (`back = "close"`) give back the sections one by one and then the rest (`FreeLoads`), and `close` the file (`CloseLoads`). A load that fails
was never parsed, so no other step is on that way. `short` is the exception that `LoadLeavesNothing` names: of a file
`fread` falls short of, the data is never freed.

`FwHold_proofs` is about the modules that were loaded, parsed to their end or not, compiled or not:

* `HalfParsedModulesFreed`: `Spec => []HalfParsedFreed`
* `PassesAgree`: `Spec => []CountsRight`
* `ParsedModulesHold`: `Spec => []ParsedModulesSafe`, of runs that are harmless: what any other function does to the process is
  the interpreter's to say, and it says how it may be lost
* `NothingStays`: `Spec => []NothingLeft`

**The argument.** `fw_module_free` trusts what it finds, so `HoldInv` says what is there, section by section. The array of a vector is an
object of its section, and what an entry owns one of that section and of the entry's place; with a handler set there is an array, of as
many entries as are counted (`VectorHeld`). The entries of the imports are named for the turn that wrote them, each turn later than the
ones before, so no two share an object (`ImportHeld`). A section that is not parsed yet, or whose array is not there yet, has no
handler (`Ahead`). Objects of two sections differ by name (`Of`, `NotOf`): a turn of a handler touches only what its own section holds
(`WritesOwn`, `OthersHeld`, `AtHeld`), and a free only what it frees (`SectionFreed`). The steps in between, the compilation's writes into the
exports included, leave pointers and counts as they are (`KeptHolds`). Then each free handler meets no trouble: `NoVectorTrouble`,
`NoImportsTrouble` and, for the types, whose section has no handler and which are freed last, `RestFreeable`. `NoSectionTwice` is needed
because a second section of a type takes over the vector of the first; `EntriesWritten` because a handler counts the entries that were
announced, or, of the elements, the functions. Modules without these are kept in the invariant as far as `Module`, `FileData` and
the sections' own records go.

The handler of the imports goes over them twice, first counting each kind and then storing each into an array of what was counted; the first
pass skips, the second reads, and nothing compares the two. `CountInv` keeps the positions `q` the counting pass went through:
`Walk` says that behind an import of a known kind the next one begins where `CountedTail` says, and `Met` which of the first `n` are of a kind.
During the first pass (`CountPass`) the counters are the cardinalities of `Met` so far; during the second (`StorePass`) they are those of the
whole walk, and the cursors `nxt` those of the imports passed again. The step of the second pass is that it goes on at the position the first one
went on at, which is so for every kind but tables (`NoTables`): `StoredTail` and `CountedTail` differ only there. So an import of a kind about to be stored is
one more than those met, hence within what was counted (`MetLater`), and there is an array for it. At the end of the section both counts are those of the whole walk
(`Agreed`), which no later section changes unless it is a second one of imports.

A parsed module is safe because it is whole. `WholeInv` says, while no allocation has failed (`Unstarved`) and no section comes twice: what a
section still ahead will fill is empty; of the vector being read, the entries before the cursor are there; behind it, all that are counted are (`VectorWhole`,
`WrittenTo`), an export with its name, a function with a type that is allocated or is the one behind the last (`fw_loader.c:538`). The same holds of the imports once their arrays are
made (`ImportsWhole`). A handler that cannot go on says so, and the parse is an error; so at its end the module is whole
(`ParseOver`), and `VectorsLeft` keeps of that what the free handlers go by, which with `Regular` gives `EntriesWritten` and with `HoldInv` a free that meets no trouble (`LeftFreed`).
In between nothing that a module refers to moves (`ModuleStays`, `WholeStays`), and `FuncsWhole` follows the compilation: the first loop of
`fw_instance_funcs` has a function for each import it has passed, the second one for each own function, each with a type (`FuncThere`), and
the loop over the exports binds each to a function of the table. `Agreed` is what rules out the import that was counted and not stored,
whose names `ResolveImport` would read; `TypesNamed`, that the one type nobody has written is read; and the instance is only run when the compilation said it went well. What the run does is excluded by `Harmless`, of which the proof needs
that it depends on nothing that moves once `ran` is set.

That nothing is left is the other direction of `HoldInv`: not that what the module points to is allocated, but that what is allocated is pointed to.
`ReachInv` says where from (`AllReached`): an object is the data, the module, one the free knows nothing of (`Kept`), the handle until it is closed, or one
`Reachable`: the record of a section not yet freed, the array of its vector or what an entry owns, the same of its imports, or of the types, which are freed last. A turn
of a handler may lose an object only by writing over the pointer to it. It does not: an array is made where there was none (`NoneBefore`), an entry's own object takes the
place of an empty one, and an import is stored where none was (`ImportsBlank`, from `CountInv`: the cursors only grow). `AllReached` is worth nothing without
`HandlersThere`, that a section without a handler has nothing to free, as an error between the array and its handler would leave it; and the imports of a
kind are freed up to `cnt`, so a kind of which none was counted must have no entries (`Uncounted`). After the parse the compilation adds only what is in `Kept` (`InstanceAdds`),
the registry too (`RegisterAdds`). Each free handler then takes away all that was reached through its own section (`SectionGone`): of the elements as
many as there are functions, which is all of them by `ElemsLikeFuncs` in `Regular`; and of the types `Types.cnt`, which is all
of them. Behind the last section only the types are reached, and `RestReaches` ends with `Kept`.

**Model-checked only.**

* Liveness, which is beyond the prover: `Terminates`, `RunEnds`, `SessionEnds`, `ReadersFinish`.
* `ElsesMatch` and `ElseBelongsToItsIf`: which `if` an entry of `iftmp` is needs the structure of the whole body, that is, an
  induction over how it is built.
* `RunsRight`: it compares with what a term denotes, which is defined by recursion over terms. `CallerOperandsKept`,
  `FragmentReturns` and `FragmentLocals` (without `astray`): they hold of programs that are typed, or in the fragment, and typing is a
  property of the programs of the run, which no module states for all.
* In `session`: `LoadedAsWritten`, which compares with what the file was written to say; `IndexSpace` and
  `ExportRight`, which do too (the specification assumes nothing of `given.says`, which no action reads: the files of the runs are
  built from it).

## 7. Not modelled, and the plan

1. `FwInstance`: `IndexSpace` and `ExportRight` stated of the module instead of the file, so that they can be proved from `FuncsWhole`
   and the refinement of the registry. The second compilation after a failed one (`fw_compile.c:82`) is in the model and unreachable, as
   `bin/run.c` compiles once; a host that retries would be a session of its own.
2. `FwExec`: an abstract specification of locals (a stack of frames, entered and left) that `FwExec` implements while nothing is
   astray; the two buffers of a host call (`fw_exec.c:132` leaves without freeing them), and values with a sign, by
   which `i32.gt_s` (`fw_instr.c:539`) could be compared with what it is named for.

Left out for good: `fw_list.h` (copied from the Linux kernel; lists are sequences here), printing and the debug dumps.
`fw_str_get16` and `fw_str_get24`, which nobody calls, have no action; `fw_mem.h` is in `FwHeap` as what its functions
may answer; `fw_instance_globals` is empty in the code.
