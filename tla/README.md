# Formal model of elephc

elephc compiles PHP to native code. It is a Rust program (`src/src`), and most
of what is hard about it is in the code it emits: a runtime of assembly routines
(heap, reference counts, cycle collector, exception chain, fibers, generators,
hash tables, the scratch buffer of strings) and the sequences of calls the
lowering makes to them. The compiler itself is sequential; what is hard in it are
passes whose result must mean what the source means on every path (include
resolution, constant propagation, the lowering of control flow), and a cache of
object files that several compilers share. This directory holds TLA+ models of
these parts, the TLC runs that check them, and TLAPS proofs about the allocator,
reference counting and the collector, the object cache, the scratch buffer,
generators, fibers and hash tables.

- [Inventory](#inventory) - the system's parts, whether modelled or not
- [Modules](#modules) - what models what, and how
- [Runs](#runs) - what TLC checks, the bounds, the fairness
- [Proofs](#proofs) - what TLAPS proves and along which argument
- [Findings](#findings) - where code and documentation disagree
- [Limits](#limits) - what is only model-checked, what is left out
- [Plan](#plan) - what comes next

Paths below are relative to the repository's `src/` directory; `arrays/` stands
for `src/codegen/runtime/arrays/`, `stmt/mod.rs` for `src/ir_lower/stmt/mod.rs`.
The models follow the ARM64 text of the runtime and the EIR backend, which is
the default; the x86-64 text implements the same helpers.

To check everything by hand:

    tlc -workers 2 -config HeapAllocator.cfg MCHeapAllocator.tla
    tlc -workers 2 -config GCObjects.cfg     MCRefCountGC.tla
    tlc -workers 2 -config GCContainers.cfg  MCRefCountGC.tla
    tlc -workers 2 -config Exceptions.cfg    MCExceptions.tla
    tlc -workers 2 -config Fibers.cfg        MCFibers.tla
    tlc -workers 2 -config Generators.cfg    MCGenerators.tla
    tlc -workers 2 -config HashTable.cfg     MCHashTable.tla
    tlc -workers 2 -config ConcatBuffer.cfg  MCConcatBuffer.tla
    tlc -workers 2 -config ConstProp.cfg     MCConstProp.tla
    tlc -workers 2 -config Includes.cfg      MCIncludes.tla
    tlc -workers 2 -config RuntimeCache.cfg  MCRuntimeCache.tla
    tlapm HeapAllocator_proofs.tla
    tlapm RuntimeCache_proofs.tla
    tlapm ConcatBuffer_proofs.tla
    tlapm Generators_proofs.tla
    tlapm GeneratorCounts_proofs.tla
    tlapm Fibers_proofs.tla
    tlapm HashTable_proofs.tla
    tlapm RefCountGC_proofs.tla

and the configurations that end in a violation, see [Findings](#findings).

## Inventory

### The compiler

A single-threaded pipeline (`src/pipeline.rs`): lexer, parser, magic constants,
conditional compilation, autoloading, include resolution, name resolution,
optimizer passes, type checker, lowering to EIR (`src/ir_lower`, `src/ir`),
instruction selection (`src/codegen_ir`), external assembler and linker. Each
pass is a function from one tree to the next; state lives within a pass:

| Part | State | What could go wrong | Modelled |
|---|---|---|---|
| lexer, parser, magic constants, name resolution | a cursor, import tables | wrong tree | no: pure functions with unit tests |
| autoload (`src/autoload`) | a worklist of class names | a class not found, or found twice | no: sequential, tested |
| include resolution (`src/resolver`) | include chain, discovered declarations with their branches, registry of function variants | a file included on several paths runs once too often or not at all; a call reaches the function of another branch | `Includes` |
| type checker | environments, class tables | inference against PHP's rules | no: too large, tested against PHP |
| optimizer (`src/optimize`) | facts about values and effects | a fact that survives a loop back edge, a throw, a fall-through or a write it did not see | `ConstProp` (constant propagation; folding, pruning and dead-code elimination are not) |
| lowering of control flow (`stmt/mod.rs`) | blocks made so far, current block, stack of finally frames, stack of loops | an exit that skips a clean-up, or runs it twice | `TryLowering` |
| EIR builder and validator (`src/ir`) | blocks, terminators | a block without a terminator, a use that its definition does not dominate | partly (`TryLowering`, `Exceptions`) |
| runtime object cache (`src/runtime_cache.rs`) | a directory shared by concurrent compilers | a partial object file that another process links; files left behind; a run that fails because of another | `RuntimeCache`, proved |

### The runtime of a compiled program

| Part | State | Operations | What makes it correct | Modelled |
|---|---|---|---|---|
| heap (`arrays/heap_alloc.rs`, `heap_free.rs`) | `_heap_buf`, `_heap_off`, `_heap_free_list`, `_heap_small_bins`, `_gc_*` counters | allocate, free | blocks tile the region; each block is live, listed or binned, once; neighbours are merged; no live block moves | `HeapAllocator`, proved |
| reference counts and cycle collector (`arrays/incref.rs`, `decref_*.rs`, `*_free_deep.rs`, `gc_*.rs`) | header words of every block, `_gc_collecting`, `_gc_release_suppressed` | retain, release, deep release, collect, destruct | a count is the number of owners; nothing reachable is freed; what is unreachable is freed in the end | `RefCountGC`, proved |
| stores (`src/ir_lower/context.rs`, `codegen_ir/lower_inst/objects.rs`, `arrays/array_set_refcounted.rs`) | variables, properties, elements | assign, read, write, copy on write | ownership passes without a gap; arrays are values, objects are handles | `RefCountGC` against `AbstractStore` |
| exceptions (`src/codegen/runtime/exceptions`, lowered handler instructions) | `_exc_handler_top`, `_exc_value`, handler records in frames, `_rt_diag_suppression` | push, pop, throw, rethrow, catch, suppress | the chain mirrors the try statements entered and not left; `finally` runs once on every exit | `Exceptions` against `PhpControlFlow` |
| fibers (`src/codegen/runtime/fibers`) | `_fiber_current`, per fiber: state, caller, transfer value, pending exception, handler chain, stack | construct, start, resume, throw, suspend, return, escape, free | control comes back to the resumer; chains stay on their stacks; payloads arrive once | `Fibers` against `Coroutines`, proved |
| hash tables (`arrays/hash_*.rs`) | slots, insertion-order links, count, capacity | get, set, append, grow, clone, iterate | probes find what was inserted; order is insertion order; a table never fills; a loop keeps its table | `HashTable` against `OrderedArrays`, proved |
| indexed arrays | length, capacity, elements | push, pop, shift, splice, grow | growth keeps elements and owners | the copy-on-write store only |
| concat buffer (`strings/concat.rs`, `codegen_ir/frame.rs`) | one buffer, one cursor | append, persist, reset per statement | no live text is overwritten by a callee, a `finally` body or after a throw | `ConcatBuffer`, proved |
| generators (`src/codegen/runtime/generators`, `src/codegen/functions/generator`) | a frame and a state number per generator, a delegate, boxed values | current, next, send, throw, rewind, yield, yield from, return, free | counts are owners; a frame has one owner; a suspended generator shows its delegate's value; a finished body is not entered again | `Generators`, proved |
| typed buffers, pointers, callables, SPL storage, dynamic objects | storage of their own | access, release | checks at each access | no: no protocol between components beyond release |
| strings, io, system | none | | | no: pure functions and I/O |
| `crates/elephc-pdo`, `elephc-tls` | handle tables under mutexes | open, prepare, step, close | no statement outlives its connection | planned |
| `crates/elephc-crypto` | none | digests | | no |

### How they interact

- A statement of the program calls the store helpers; these retain and release;
  a release that reaches zero walks the value (`*_free_deep`), which releases
  what it holds, runs `__destruct` if the class has one - user code, inside the
  release - and hands the block back to the heap. A release that does *not* reach
  zero may have cut off a cycle and starts the collector. All of this happens on
  one native stack, as nested calls. Two global flags keep it from recursing
  where it must not.
- A throw restores registers saved by `setjmp` in the frame of the function that
  entered the try statement. Clean-up along the way is what the lowering put into
  the blocks: handler pops and inlined `finally` bodies.
- A fiber switch saves and restores the head of the handler chain together with
  the stack pointer. What is not switched (`_rt_diag_suppression`, the concat
  cursor) is shared by all fibers.
- The resolver puts guards and marks where include statements stood; they are run
  time flags, so what a compile-time walk decided must fit every path of the run.
  The optimizer rewrites what the resolver made.
- Heap and collector meet in the sweep, which iterates over headers by address
  while it frees the blocks behind them.

The program is single-threaded, so "interleaving" here means interleaving of
calls: user code that runs inside a release, a fiber that runs inside a call, a
generator resumed by another one, a collection that starts in the middle of a
walk; for the object cache it means processes. These are the orders that the
test suite, which runs PHP programs and compares their output, hardly
reaches. `PROJECT.json` lists each such place with its line under `hazards`,
together with the properties that cover it.

## Modules

| Module | Role |
|---|---|
| `HeapAllocator` | the allocator, one action per path through `__rt_heap_alloc` and `__rt_heap_free` |
| `AbstractHeap` | what a heap promises: allocations are disjoint and stay where they are |
| `HeapAllocator_proofs` | the theorems |
| `RefCountGC` | retain, release, deep release, destructors, collector; the stores that call them |
| `RefCountGC_proofs` | the theorems about counts, releases and collections |
| `AbstractStore` | what the program may observe: variables and slots that hold values or handles |
| `TryLowering` | the lowering of try, catch, finally, throw, return, break, continue, loop, if and `@` into blocks |
| `PhpControlFlow` | a reference evaluator for the same statements |
| `Exceptions` | the machine that runs the blocks |
| `Fibers` | contexts, switches, exceptions across them |
| `Coroutines` | what PHP says a fiber does |
| `FiberCoroutines` | how the contexts of `Fibers` represent the coroutines |
| `Fibers_proofs` | the theorems about fibers |
| `HashTable` | tables, probes, chains, growth, copy on write, loops |
| `OrderedArrays` | what PHP says an associative array is |
| `HashTable_proofs` | the theorems about hash tables |
| `Generators` | frames of generators, the methods a script calls, the emitted resume function |
| `Generators_proofs` | who resumes whom: its theorems on control |
| `GeneratorCounts_proofs` | who owns what: its theorems on counts |
| `ConcatBuffer` | the scratch buffer of string expressions and its cursor, under calls and throws |
| `ConcatBuffer_proofs` | its theorems |
| `PhpIncludes` | projects of files, what a run of one does, and what a run of a resolved one does |
| `Includes` | the resolver: expansion, discovery, function variants |
| `PhpScript` | a reference evaluator for the statements the optimizer rewrites |
| `ConstProp` | the constant propagation pass |
| `RuntimeCache` | concurrent compilers, crashes, failing file operations and deletions over one cache directory |
| `RuntimeCache_proofs` | its theorems |
| `MC*` | small values for the constants, symmetry sets, enumerated programs |

### HeapAllocator

State. `heapOff` is `_heap_off`; `size` maps the offset of every block header of
the bump region to its payload size; `live` are the headers with a nonzero
reference-count word, which is how the code tells a live block; `freeList` is
the set of listed blocks, because the list is kept in address order and its
links carry no other information; `bins` are the four LIFO chains of small
blocks; then the `--gc-stats` counters and `exhausted`. `asked` is the only
history variable: the number of bytes the program asked for.

Actions. `Alloc(n)` is `__rt_heap_alloc`: bins first (`AllocFromBin`), then the
first listed block that fits, split (`AllocSplit`) or whole (`AllocWhole`), then
bump (`AllocBump`), else the fatal exit (`AllocExhausted`). The walk's defences
against damaged nodes are there too (`Usable`, `Unlinked`), and so `Inv` has to
show that they never fire. `Free(b)` is `__rt_heap_free` and
`__rt_heap_free_safe`: into a bin (`FreeCached`), merged into the tail of the bump
region which is then trimmed (`FreeTail`), or listed and merged with its
neighbours (`FreeListed`).

Promise. `AbstractHeap` knows only the set of live allocations and their
sizes. `AbstractSpec` is that specification under the mapping that forgets
everything else.

### RefCountGC

State. `heap` holds for each block the decoded header (layout, low 31 bits
of the count, bit 31 "dying", mark bit) and the child slots. `local` is the
program's variables. `stack` is what is left to do of the helper calls in
progress: a release about to be made, a walk at slot i, a destructor body, a
sweep at block b, the second half of a store. `collecting` and `suppressed` are
the two flags. Splitting the recursive assembly routines at their calls is what
lets a destructor run in the middle of a walk or a sweep.

Actions. `DecrefTyped`, `DecrefAny`, `ReleaseKid`, `FreeBlock`, `SweepNext`,
`SweepEnd` are the helpers; `Bind` and `SetSlot` the second halves of stores,
`Assign`, `AssignNew`, `Write`, `WriteShared`, `WriteNew`, `WriteBoxed` the
statements; `BodyReturn`, `BodyWrite`, `BodyWriteNew` what a destructor does. The
three counting passes run no user code and are one step (`Marked`).

Abstractions. A block is its address, and which free block an allocation returns
is left open, as `HeapAllocator` decides it. Strings and scalars are no edges of
the graph, so a slot holds a block or nothing. `Holds` is an over-approximation
of the slot types a PHP program can declare. `Idioms` names three kinds of
program text that runs may include or leave out; each is tied to a finding or to
a cost, see [Findings](#findings).

Promise. `AbstractStore` is the program's view: objects are handles, arrays and
hashes values, boxed values are copies. Its actions are the statements;
helpers, collections and copy-on-write are stutters.

### TryLowering, PhpControlFlow, Exceptions

`TryLowering` is a pure module: `LowerFunction` maps a statement tree to basic
blocks as `stmt/mod.rs` does with `ir/builder.rs`, including the finally
frames that `terminate_return`, `terminate_branch` and `terminate_throw` consume.
`Exceptions` executes the blocks of a main function and one helper: `frames` are
the activations, with the handler record slots in them, `top` is
`_exc_handler_top`, `exc` `_exc_value`, `diag` `_rt_diag_suppression`. A handler is
named by the activation and the dispatch block, so that a chain which leads to a
dead frame is visible. `PhpControlFlow` evaluates the same tree the way
`docs/php/control-structures.md` describes; `PhpBehaviour` compares the traces when
the program stops.

### Fibers, Coroutines

`resume[c]` is where a context continues: user code, the entry trampoline,
inside a `resume` waiting for the fiber it resumed (`tail`), inside a `suspend`
(`wake`), the escape path. `Switch` is `__rt_fiber_switch`. `record` are the
handler records, on the stack of their context, level 0 being the trampoline's.
Actions are the methods of `Fiber` (`Construct`, `Start`, `Resume`, `ThrowInto`,
`Suspend`, `GetReturn`, `Free`), what a body does in between (`PushTry`,
`PopTry`, `Throw`, `EnterQuiet`, `LeaveQuiet`) and the steps of the runtime on
either side of a switch (`Entry`, `Finish`, `Escape`, `HandedBack`, `Wake`).

`Coroutines` has no switches, chains or slots: it keeps the list of the coroutines that
resumed one another, what the one on top is about to receive (`flight`), and the open
try statements and `@` operators of each; an exception goes to the innermost try
statement of the coroutine it is raised in, and out of the bottom of that one to its
resumer. `FiberCoroutines` reads these off the state of `Fibers`: `Resumed` is the list
of contexts that starts at the main program and follows the places (`tail`) at which
each waits for the next, `Flight` is found in the slot that the place of the running
context says it will look into, and a fiber whose exception has reached the bottom of
its stack has ended as far as the program can tell (`ActiveNow`, `Phase`), though its
stack is left one step later.

### HashTable, OrderedArrays

`table` maps a block to a table: capacity, count, head, tail, owners, and slots
that are vacant or hold a key, a value and two links. `var` is what the variables
hold, `loop` the address, cursor and last pair of the running `foreach`. `job` is a
call of `__rt_hash_set` in progress: `Clone`, `MoveEntry`, `CloneEnd` are
`__rt_hash_ensure_unique`; `Grow`, `MoveEntry`, `GrowEnd` are `__rt_hash_grow`; `Put`
stores the pair and the new address. Moving one entry is a step of its own, so
the invariants hold of half-filled tables as well, and no definition recurses over
entries. `Hash` is a constant: any function from keys to numbers.

There is no statement that takes a key out of an array, so the tombstones that
the probes skip never occur and slots have two states only. A literal is an
empty table and the writes that fill it.

`OrderedArrays` has sequences of pairs instead of tables and a loop over a copy. A
write in progress is mapped to the table the writer is going to hold
(`Holding`), so cloning and growing are stutters and `Put` is the write.

### Generators

State. `gens` maps a frame to its fields as `generators/frame.rs` lays them out:
the label of the last yield, the flags, the last value, the sent value, the
return value, the delegate and whether the frame owns it. `cells` are the counts of
boxed values. `stack` are the resume functions that run, `phase` is where the
innermost is, `op` the method the script is in, `doomed` the frames whose release
is under way.

Actions. `Create` is the call of a generator function; `Start`, `CallNext`,
`Send`, `Throw`, `Drop` the methods of `generators/mod.rs`, `Deliver` their common
tail; `DispatchYield` and `DispatchFrom` the two kinds of resume labels;
`Yield`, `AssignMixed`, `DelegateCall`, `DelegateSlot`, `Forward`, `Return`,
`EndDelegation`, `Raise` what the emitted body does; `Release` one step of
`__rt_object_free_deep` over a frame. A body is any sequence of its statements, so
no program text is fixed.

`Habits` names what a script may do beyond the protocol of `foreach`; the
passing run and the proofs are without them, see [Findings](#findings).

### ConcatBuffer

`cursor` is `_concat_off`, `buf` says of each byte to which text it belongs, and
`frames` are the activations with their base, the slices the running statement
still needs, the return value that is due, and a handler. `Statement` is the reset
at the start of a statement, `Concat` and `Itoa` write, `Consume` uses up an operand,
`Call`, `Return`, `Throw` move between frames; `Prelude` is a statement nested in an
expression. A return inside `try`/`finally` is two actions, as `terminate_return`
lowers it: `RunFinally` fixes the value, the statements of the finally bodies follow,
each with its reset, and `Return` hands over what is `due`, unless a return of a
finally body replaces it or a jump out of one gives it up. The bound on the size is a
guard of the model: the code tests none. `Idioms` names what programs do that breaks
the discipline; the passing run and the proofs are without, see
[Findings](#findings).

### PhpIncludes, Includes

`PhpIncludes` has the statements and two ways to run them: `RunProject` follows
include statements as `docs/php/namespaces.md` describes, `RunResolved` follows
the guards, marks and dispatchers of the emitted code. `Includes` is the resolver.
`ResolveStmts` is the expansion of `engine.rs` with the include chain that stops
cycles; `DiscoverStmts` is the walk that collects, for each file with
declarations, one entry or several, with the branch of an `if` statement it is
exclusive to (`MergeAlternatives`); `Registry` says which variant a mark
activates; `Resolved` puts these together with the test for duplicates of the
type checker. The order of discovery matters (a file is seen the first time it is
met), so the walk is a fold over the statements, as in the code. One step,
`Resolve`, runs the whole pass: the states before and after it are the input and the
output, and the properties compare the two for each value of the flags.

### PhpScript, ConstProp

`PhpScript` evaluates scripts of assignments, echo, calls by reference, `if`,
loops, `switch`, `try` and jumps. `ConstProp` is the pass, in which facts are a
function from variables to values: one operator per function of
`optimize/propagate`, among them the three walks that look ahead (the variables
a body writes, the paths that leave a loop by `break`, how a block ends). The
pass runs in one step, `FactsTrue` and `MeaningKept` compare the script before
and after for all inputs.

### RuntimeCache

A run of the compiler goes through `look`, `write`, `spawn`, `assembling`,
`store`, `link`, one action per file operation of `runtime_cache.rs`; every
operation may fail (`failures`), a run may stop between two of them (`Crash`), the
assembler may refuse (`rejected`) and files of the cache may be deleted (`Evict`).
What the file system does, the atomic rename above all, is external. The 64-bit
hash in the file name is assumed to tell texts apart, by `CacheAssumption`.

## Runs

All passing runs are exhaustive within their bounds. Deadlock is checked except
where the system stops: in `heap_allocator` after the last allocation or by
exhaustion, in `runtime_cache` when all runs have ended, in `const_prop` and
`includes` after the pass.

| Run | Shows | Bounds | States |
|---|---|---|---|
| `heap_allocator` | tiling, partition, merging, counters; `AbstractHeap` | 300 bytes, requests of 3, 40, 60 and 72 bytes, 5 allocations, any releases | 132 thousand |
| `gc_objects` | nothing reachable is freed, helpers never touch freed storage, counts are owners, passes 1-3 find exactly the unreachable, flags down between statements, a destructor sees its properties | 3 objects with 2 properties, 2 variables, counts up to 4 | 1.4 million |
| `gc_containers` | counts are owners with clones, boxes and arrays; `AbstractStore`; every statement ends | 3 blocks with 1 slot of five layouts, 2 variables, counts up to 9 | 238 thousand |
| `exceptions` | the emitted program marks what PHP would mark; the handler chain mirrors the try statements of live frames; every program stops | every program of the family below | 128 thousand |
| `fibers` | control returns to the main program, exceptions stay on their stack, no payload is lost, duplicated or left in transit, `@` affects its operand only; `Coroutines` | 2 fibers, 2 values, a try and an `@` per context | 128 thousand |
| `generators` | counts of boxed values are owners; a frame has one owner; `current` is the innermost delegate's value; finished bodies stay finished | 3 generators, 4 boxed values, 2 variables, any bodies | 804 thousand |
| `concat_buffer` | no operand, argument or return value that is still needed is overwritten, by calls, throws, finally bodies and statements in any order | 4 bytes, conversions reserve 2, 3 texts of up to 2 bytes, 3 frames | 896 thousand |
| `includes` | an accepted project prints what PHP prints and fails where PHP fails; a file with declarations read twice in some run is rejected | 22,792 projects of three files, two flags | 46 thousand |
| `const_prop` | the rewritten script prints what the script prints; facts are true | 16,304 scripts, 4 inputs, 4 loop rounds in all | 33 thousand |
| `runtime_cache` | linked objects are whole and the right ones; a failure has a cause; no temporary file is left; every run ends | 3 compilers, two with one text, one deletion, any faults and crashes | 684 thousand |
| `hash_table` | probes find every key, a vacant slot is left, counts are owners, loops keep their table; `OrderedArrays` | 2 variables, 4 keys that collide, tables of 4 slots that grow to 8, one loop | 108 thousand |
| `exc_callee` | a [finding](#findings) | the helper throws through a `try`/`finally` | stops at the violation |

Why the bounds are enough to be interesting:

- *Heap.* The requests straddle the limits of the code: 3 is rounded up to the
  smallest payload, 40 and 60 share a bin while only one of two cached blocks
  fits the larger, 72 is past `MaxSmall` and is listed. 300 bytes hold four or
  five blocks, so splitting, whole reuse of a remainder too small to split,
  merging on one and on both sides, trimming, and exhaustion all occur. TLC's
  action counts confirm that each disjunct is taken.
- *Objects.* Three objects with two properties give self-loops, two-cycles,
  a cycle with a tail, a shared child, a destructor inside the sweep of another's
  cycle. `MaxRefs` bounds only statements that add references; it is met
  when all other slots already refer to the block.
- *Containers.* One slot per block is enough for chains, sharing and cycles of
  mixed layouts. With 9 references at most the bound is never met.
- *Exceptions.* A program is a loop of two rounds around a try statement,
  a mark after it and a normal or an exceptional end. The body has one or two of
  mark, throw, call, quiet call, return, break, continue and their conditional forms, or a nested
  try statement; catch clauses are none, one, one that throws, two; finally
  bodies none, a mark, a throw, a return; the helper returns, throws, or
  catches internally, by itself or by returning from a catch clause. Two rounds
  are what it takes for a stale handler or depth of round one to be met in round
  two. Programs that meet one of the limits in [Findings](#findings) are removed
  by `Routed`, which says exactly which.
- *Fibers.* Two fibers beside the main program give nesting, resumption from
  either side, and a fiber that frees or throws into the other. The model also
  passes with three fibers, one value and no `@` (287 thousand states); the longer
  run has found nothing the shorter did not.
- *Hash tables.* The code starts at 16 slots and grows at 12 entries; with 4
  slots it grows at 3, by the same test, and `MinCapacity` is a constant. The hash
  function makes three keys start at the last of four slots, so probes wrap around
  and displace the fourth, and only two of them meet after growth. Three blocks
  suffice for two variables and one table being filled.

- *Generators.* Three generators give a delegate of a delegate, a delegate that
  two generators could meet, and one that outlives its caller; with four boxes a
  generator, its delegate, a sent value and the script's variable can all differ.
  Bodies are arbitrary, so nothing but the number of things is bounded.
- *Scratch buffer.* The proof has no bound at all. In the instance, 4 bytes hold an
  operand of a caller, an argument and a result of a callee in several ways,
  three frames give a throw that passes over a frame.
- *Includes.* The main file has two statements out of an include (`include`,
  `include_once`, of a file that exists or not), an `if` with one, two or three
  branches, of which a condition may be constant, and a loop, or a function that
  includes, called before or after a statement. Two files declare functions (the same
  or different ones), include each other (a cycle), or include from inside their
  functions. A loop whose condition holds goes round twice. A deeper nesting of
  includes than `MaxDepth` ends a run as `deep`; such runs are compared with
  nothing. Left out are the shapes `ChainFree` excludes, see
  [Findings](#findings).
- *Constant propagation.* A compound statement with another one in its body,
  between an assignment to `x` and an echo of it. Two levels are what it takes for a
  jump to leave an inner statement through an outer one. `Guarded` in
  `MCConstProp` says which shapes are left out.
- *Object cache.* Two compilers race for one file name while a third uses the
  directory; with one deletion each kind of stale look-up occurs. The proof is
  for any number.

Fairness. `RuntimeCache!Spec` has weak fairness of each run's own steps: a process
that was started is scheduled by the operating system. Crashes and deletions are not
fair, and a crashed run has ended. `RefCountGC!FairSpec` is weak fairness of the runtime's steps, not of
statements: a helper call once begun is executed by the one thread of control,
while nothing makes the program go on to another statement. `Exceptions!FairSpec`
is weak fairness of `Next`: there is one thread and its next instruction is
always executed; loops terminate since the driving variable does. No other
liveness is claimed.

Some properties hold on the same instances and are in the modules without
being in a configuration, because others imply them or a theorem states them:
`TypeOK` of `Exceptions`, `Fibers`, `HashTable`, `HeapAllocator` and of
`RefCountGC` on the containers, `ChainsWhole` (`HashTable`), `PayloadsKept`
(`Fibers`), `ExitsClean` (`Exceptions`), `Reclaimed`, `Sufficient`, `BinsSorted` and
`PayloadStable` (`HeapAllocator`). Each can be added to its `.cfg`.

Every property has a mutant in `PROJECT.json`: a change to a modelled definition
such as a programmer might make, under which the same run reports that property
violated. The operators marked `\* mutant` in the modules exist for that.

## Proofs

Eight modules hold theorems. `HeapAllocator_proofs` proves, for every heap size, every set of request sizes
and every number of allocations, that

| Theorem | States |
|---|---|
| `HeapTyped` | the type invariant |
| `HeapTiled` | blocks cover the bump region without gap or overlap |
| `HeapPartitioned` | a block is live, listed or in one bin, and in one of these only |
| `HeapCoalesced` | no two listed blocks are adjacent and none touches the bump tail |
| `HeapSufficient` | a live block is at least as large as was asked |
| `HeapBinsSorted` | a bin holds blocks of its size class |
| `HeapCounted` | allocations minus releases is the number of live blocks |
| `HeapAccounted` | the byte figure of `--gc-stats` is the number of bytes in live blocks |
| `HeapReclaimed` | when nothing is live and no small block is cached, the heap is empty again |
| `PayloadsStable` | while a payload is owned, no step changes its place or its length |
| `HeapImplementsAbstract` | `Spec` implements `AbstractHeap` |

The assumptions are the ones in `HeapAllocator`: `HeapMax` and `MaxAllocs` are
natural numbers and `Requests` a set of them. TLC evaluates them in the run.

The argument. None of the invariants is inductive alone. Tiling
needs to know that a freed block is a block of the tiling and that its neighbour in
the list is the one at its end; that the list's entries are well formed needs
tiling; `Partitioned` needs both, since a listed block that is also live would be
handed out twice. `Inv` is the conjunction of the type invariant, tiling,
partition, merging, sorted bins and the block count (`Counted`). TLC checks
each conjunct in the run, the count as a part of `Accounted`. There
is one preservation lemma per path: `AllocFromBinInv`, `AllocSplitInv`,
`AllocWholeInv`, `AllocBumpInv`, `AllocExhaustedInv`, `FreeCachedInv`,
`FreeTailInv`, `FreeListedInv`. `NextInv` combines them, and every theorem
is `InitInv`, `NextInv`, and an implication, joined by temporal logic.
`HeapSufficient` is proved on top of `Inv` by the path lemmas `AllocGrants` and
`FreeReleases`, which say what the program gets and gives. `FreeListUsable`, a
consequence of `Inv`, says that the defences of the free-list walk against damaged nodes are
dead code as long as the program frees only what it holds.

`HeapAccounted` counts bytes as a set: a live block is the range of its bytes, ranges of
different blocks are disjoint because the blocks tile the region (`BytesFacts`), so an
allocation adds, and a release takes away, as many members as its range is long
(`BytesNext`).

`HeapImplementsAbstract` shows that each path, under the mapping, is an
abstract allocation of a region disjoint from all live ones, an abstract release,
or a stutter; disjointness is again tiling.

`RuntimeCache_proofs` proves for any number of compilers, texts and deletions:

| Theorem | States |
|---|---|
| `LinkedWholeAlways` | a program that was linked holds the whole object of its own text |
| `FailsForCauseAlways` | a run fails only if one of its operations did, its text was refused, or files were deleted |
| `LeavesNothingAlways` | an ended run whose writes and removals succeeded left no temporary file |
| `RunsGetOnAlways` | a run takes at most eleven steps, and no other run takes it back |

`LinkedWhole` needs to know that every file under a cache name is whole (`CacheWhole`),
and that needs what each temporary file holds at each place of a run (`AsmIs`, `ObjIs`):
the rename is reached only with a finished object of the run's own text. The other two
put one more condition per place on top (`CauseIs`, `FilesAre`). `RunsGetOnAlways` is the
part of `RunsEnd` that is not about fairness: the places of a run are ordered
(`Distance`), and each step goes on to a nearer one.

`ConcatBuffer_proofs` proves `SlicesIntactAlways`, for every size of the buffer and
every number of frames, and `FramesApartAlways`. The slices are intact because a write
lies above every live slice; that is `FramesApart` (the slices of a frame end below
the base of each frame above it, and below the cursor in the running frame), and it
needs that bases rise with the stack and that a frame which has just caught an
exception, when the cursor is zero, holds no slice (`CaughtOnTop`). `NothingDue` says
that a return value which waits for finally bodies is no slice of the buffer. The
assumption is `Idioms = {}`: every catch is followed by a statement, no operand is live
across an assignment with statements of its own, and no string that a library function
or a call left in the buffer is returned out of a `try` with a `finally`. The last is
needed: without it `ConcatFinally.cfg` refutes the claim.

`Generators_proofs` proves `InvariantHolds`, `CurrentIsInnermostAlways` and
`FinishedStaysSoAlways`, for any number of generators and boxes, under `Habits = {}`.
The invariant says who may resume whom: a live generator that delegates *claims* its
delegate; claims are unique; the resume functions on the stack follow the claims,
starting from a generator that nobody claims; a suspended generator shows what its
delegate shows; a sent value is only at the generator about to take it; a frame
being released is referred to by nothing. `CurrentIsInnermost` is its conjunct at
rest. Each action has a lemma (`YieldKeeps`, `DelegateCallKeeps`, `EndDelegationKeeps`,
...), over shared ones for the frame at the top of the stack (`TopKeeps`), for
leaving it (`LeaveKeeps`) and for entering another one (`EnterKeeps`).

`GeneratorCounts_proofs` proves, for any finite number of generators (`GensAssumption`)
and under `Habits = {}`,

| Theorem | States |
|---|---|
| `GeneratorsTyped` | the type invariant |
| `CountedAlways` | a box is counted once for each frame slot and variable that holds it |
| `OneOwnerAlways` | a frame has one owner: the script, the generator that called for it, or its release |

A frame has four slots, and a count is a sum over frames of how often each refers to the
box (`Held`, `In`); replacing one frame moves it by the difference of the two
(`HeldMoves`), so every action is arithmetic on one or two frames. The invariant adds
two facts to the counts. A release gives back what a frame shows, returned and was
sent but *not* its local, so a frame must have given up its local before anything may
free it (`LocalsGone`): a generator that ran to its end has, one that was abandoned
has not, and that is the habit which leaks. And no live frame is without an owner
(`AllOwned`), which gives the "at least one" of `OneOwner`; "at most one" is the unique
claims of `Generators_proofs`.

`Fibers_proofs` proves for any set of fibers, values and exceptions, and any depth of
try statements and of `@`:

| Theorem | States |
|---|---|
| `FibersTyped` | the type invariant; control never goes to a place that does not exist |
| `ReturnsToMainAlways` | following callers from the running context leads to the main program |
| `ChainsApartAlways` | every handler chain stays on the stack of its own context |
| `PayloadsInTransitAlways` | a value or an exception handed over is with the fiber that control comes from or goes to |
| `StacksMappedAlways` | the stack that runs is mapped |
| `PayloadsKeptAlways` | no step overwrites a payload nobody took |
| `QuietOnlyInOperandAlways` | warnings are suppressed only inside an operand of `@` |
| `CoroutinesImplemented` | `Fibers` implements `Coroutines` |

They assume that no running fiber is freed (idiom `freeactive`, a
[finding](#findings)), the last one also that no fiber suspends inside an operand
(`quietswitch`). The invariant says where every context stands: what `resume` and
`state` say of a fiber agree (`PlacesFit`); the fibers that have not handed control back
are each waited for by their caller (`Waits`), and callers do not go round
(`NoCycle`, stated for every set of active fibers, so that it needs no induction);
each started stack has its own records, linked one below the other (`Records`), which
the global head or the saved one points at (`OwnTop`, `OwnSaved`). The lemmas are one per kind
of step: entering a fiber, waking it, coming back from it, throwing, catching, and the
steps that move no control.

The refinement adds to it that the contexts which control is in or will come back to form
one stack (`Piled`): a list without repetition that begins with the main program, ends
with the running context, and in which each one waits for the next. `Resumed` is chosen
by these links alone, so the proof first shows that they leave no choice (`OneStack`: two
such lists cannot differ first at any index), then that a resumption appends one context
(`StackPush`), that a suspension or an end takes the last one off (`StackPop`), and that
nothing else moves it (`StackSame`). `Aside` says that only the program's own code has
seen an outcome, and that what escapes is an exception. Then each action is shown to be
one of `Coroutines`: the calls start or resume or are refused (`CallSeen`, `Refusal`),
suspending and both ends of a fiber hand control back (`BackSeen`), `Entry`, `Wake` and
`HandedBack` receive what is in flight (`ReturnSeen`, `SeenRaise`), and `Escape` is unseen.
That the payload comes from the right slot rests on `OnePayload`, and that a throw ends
where PHP says on `OwnTop`. `ReceivedAssumption` says that a payload is not the mark for
"none".

`HashTable_proofs` proves for any set of keys, any hash function into the natural
numbers, any initial capacity of four or more, any number of tables and any finite
number of variables:

| Theorem | States |
|---|---|
| `TypedAlways` | the type invariant |
| `ProbesFindAlways` | a probe finds every stored key and no other |
| `RoomLeftAlways` | every table has a vacant slot, so every probe ends |
| `OwnersCountedAlways` | the count of a table is the number of variables that hold it |
| `LoopReadsTableAlways` | a loop walks an allocated table, and its cursor is at an entry or an end |
| `OthersKeptAlways` | a write through one variable leaves every other variable's array as it was |
| `WalkKeptAlways` | the array a loop walks does not change |
| `WritesLandAlways` | after a write its key holds its value |
| `ChainsWholeAlways` | the chain of a table visits each entry once and reads the same in both directions |
| `ArraysImplemented` | `HashTable` implements `OrderedArrays` |

Probing is correct because a probe for a stored key passes occupied slots of other keys
until it meets its own (`Probed`); an insertion fills the first vacant slot of a probe and so
shortens none. That the table is never full needs more than the growth test: a table
being filled by a copy or a growth has its own count, and is bounded only because its keys
are keys of the table that is read (`MoveOK`), of which there are as many as entries.
Counts include the call's own hold on the table it fills. The loop's table is safe
because a call writes only to a table with one holder, which a walked table is not
(`CallOK`).

The refinement needs a second invariant, `Order`: the links of every table thread its
occupied slots (`Threaded`); the loop's cursor stands between two entries of its table
(`LoopPlaced`); a table being filled holds the first entries of the table that is read, in
that table's order, as many as the cursor has passed (`MoveListed`); and the pair a call
carries is one that the program wrote (`Asked`). An insertion then appends one pair to the
listing or replaces the value of one (`InsertListed`), moving an entry extends the listing
by the next pair, and the end of a copy or of a growth changes the table but not its listing.
`Chain` is recursive along the links, and no induction is needed for it: a sequence that
threads the table satisfies the recursive equation, so a solution exists (`ChainFollows`), and
two solutions cannot differ, for want of a least index at which they would (`FollowsOne`).
So `Chain` is whatever sequence threads the table (`ChainIs`), and each step exhibits one.
The assumptions on constants are those of `HashTable`, among them that `None`, what a loop
that does not run has left, is not a list of pairs (`NoneListAssumption`).

`RefCountGC_proofs` proves for any number of blocks and slots, any finite set of
variables, and any choice of which layouts exist and what may hold what (`Layouts`,
`Holds`):

| Theorem | States |
|---|---|
| `Typed` | the type invariant; no count is taken below zero |
| `CountedAlways` | a count is the number of owners, but for what is left to a sweep |
| `ReachableAlwaysLive` | what a variable leads to is in use, not being freed, and counted |
| `PendingAlwaysValid` | retains, stores and typed releases meet blocks in use; nothing is released twice |
| `AtRestAlways` | after a statement the flags are down, no count is zero, no destructor is unfinished |
| `DestructorsSeeProperties` | a destructor finds in use what its object holds |
| `CollectorAlwaysExact` | a collection is about to sweep what nothing leads to, all of it and nothing else |
| `StoreImplemented` | `RefCountGC` implements `AbstractStore` |

What they assume of the program is what the findings leave no choice about. All of
them assume `Covered`: no statement reads a slot of the variable it overwrites
(`GCSelfRead`) or stores over a value that leads back to the target (`GCUnlink`), and a
destructor that stores does so to objects that hold arrays of scalars. `Covered` is
what `GCObjects` and `GCContainers` are configured with, so their runs lie within the
theorems. `DestructorsSeeProperties` is for destructor classes whose properties are
scalars or arrays of scalars, since the sweep frees what else they hold in address order.
`CollectorAlwaysExact` is for heaps without boxed values, since a boxed value keeps the
cycle it is on; both are [findings](#findings), too. `StoreImplemented` is for programs
whose destructors store nothing (`Idioms = {}`): what a destructor stores is in an object
that no variable of `AbstractStore` leads to, and its statements are those of variables.

The invariant (`K`) cannot be the properties, which speak of owners and say nothing
of a heap half way through a release. It relates four things:

- counts: the count of a block equals its owners, where an owner is a variable or a
  slot that the calls in progress have not taken over, or one of these calls
  (`CountsOK`). Inside a step one reference may be in nobody's hands (`Owing`), so every
  helper has a lemma that speaks of that state, and an action is a chain of them;
- deaths: a block without an owner, or whose destructor has run, is being walked, by one
  walk only (`ZeroWalked`, `WalksOK`). That is why nothing is released twice;
- the sweep: the members of an island are unmarked and live (`White`), only they refer
  to one another (`OwnersOK`), and each is ahead of the sweep or being walked above it
  (`SweepsOK`). The counts of members mean nothing, and an array of scalars that a member
  held may count owners that are gone (`Muted`), never too few. What a destructor
  allocates meanwhile looks like a member of the island only if its layout can be on a cycle;
- stores: the half of a store that is still to come is outermost, or a destructor's; its
  target is held by a variable; and the value it replaces does not lead back to the
  target (`Apart`), so that releasing it cannot release the target. The last is what
  the two idioms break.

That a collection is exact needs what its passes did as well: `Marking` shows that a block
gets a mark if and only if it is reached from a block with a count that blocks do not
account for (`Counting`), and those are the blocks that variables and calls own. The
marks are then followed to the sweep's first step (`Sweeping`).

The refinement maps a state to what the program sees of it: the stores under way have
happened (`Sees`), everything else is as it is. The invariant says that at most one store
is under way to a place, so what is seen is definite. A statement then maps to one
step of `AbstractStore` when it *begins*: `Assign` to `SetVar`, `WriteShared` to
`CopyAndSet`, a write in place to `SetSlot`, whose guard, that an array has no other
holder, follows from its count (`Sole`). `RefCountGC`'s own `Bind` and `SetSlot` end a
store, so they change nothing that is seen; releases, walks and the passes of the
collector begin and end none (`RuntimeView`). The end of a deep release is `Forget`, and
that needs `ReachableLive`: the program cannot reach the block.

Out of the prover's reach, and so left to TLC: `Terminates`, `Stops`, `RunsEnd`
(liveness under fairness, but for the steps of a run, which `RunsGetOnAlways`
bounds); the modules that recurse over statement trees: `TryLowering`,
`PhpControlFlow`, `Exceptions`, `PhpScript`, `ConstProp`, `PhpIncludes`,
`Includes`.

## Findings

Each of these configurations ends in a violation of the property named, which
states what the documentation, a comment or an assertion of the repository
says. `exc_callee` is a run of `PROJECT.json`; the others are checked by hand:

    tlc -workers 2 -config GCUnlink.cfg MCRefCountGC.tla

| Configuration | Violates | What happens | Where |
|---|---|---|---|
| `ExcCallee` (`MCExceptions`) | `PhpBehaviour` | an exception from a called function passes `try {} finally {}` without running the `finally` body | `stmt/mod.rs:1341` |
| `ExcJump` (`MCExceptions`) | `ChainNests` | `continue`, `break` or `return` out of a try statement with catch clauses and no `finally` leaves its handler on the chain; the next throw lands in it (`docs/internals/the-runtime.md:393`) | `stmt/mod.rs:1638` |
| `GCUnlink` (`MCRefCountGC`) | `ReachableLive` | `$n->next = $n; $n->next = null;` frees the object `$n` holds: the old value is released, and a collection started, while the slot still shows the edge | `codegen_ir/lower_inst/objects.rs:3977` |
| `GCSelfRead` (`MCRefCountGC`) | `PendingValid` | `$v = $v->next` releases the old value of `$v` before it retains the new one, which the old one owned (`docs/internals/memory-model.md:610`) | `ir_lower/context.rs:509` |
| `FibersFreed` (`MCFibers`) | `StacksMapped` | nothing holds a reference to a running fiber; if its last owner is overwritten, the stack it runs on is unmapped | `arrays/object_free_deep.rs:80` |
| `GeneratorThrow` (`MCGenerators`) | `FinishedStaysSo` | `throw()` on a generator not yet started ends it without marking the start, so a later `current()` or `rewind()` enters the body (`docs/php/generators.md:174`) | `codegen/runtime/generators/mod.rs` |
| `ConcatCatch` (`MCConcatBuffer`) | `SlicesIntact` | a throw sets the cursor to zero; a frame that goes on after an empty catch body without a statement overwrites what its callers hold (`docs/internals/memory-model.md:195`) | `codegen/runtime/exceptions/throw_current.rs:40` |
| `ConcatFinally` (`MCConcatBuffer`) | `SlicesIntact` | `try { return strtolower($s); } finally { echo "x" . $s; }` returns a string the finally body has written over: its statements reset the cursor, and `persist_scratch_return_string` copies the results of operators only. Any statement in the finally body is enough, as it leaves the cursor below the string (`docs/internals/memory-model.md:614`: "strings that need to survive copied to heap") | `stmt/mod.rs:1674` |
| `ConstPropSwitch` (`MCConstProp`) | `MeaningKept` | `$x = 0; switch ($p) { case 0: $x = 1; case 1: echo $x; }` is rewritten to `echo 0`: a case is walked with the facts from before the switch (`docs/php/control-structures.md:157`) | `optimize/propagate/stmt/control.rs:195` |

The following were met while modelling. The passing runs exclude the programs or
omit the claim concerned, and this list is what they leave out.

- A property store that cuts a cycle off leaves it uncollected until a later
  release collects it, for the same reason as `GCUnlink`: the passing runs do
  not claim that garbage is collected at once (`docs/php/classes.md:566`).
- In a collected cycle of several objects with destructors, a destructor may see
  a member that the sweep has freed (`arrays/gc_collect_cycles.rs:336`;
  `classes.md:536` says properties are accessible). `GuardedHold` keeps such
  objects out of one another's slots.
- An object that a destructor allocates during a sweep and stores in its receiver
  is not released (`arrays/decref_any.rs:57`), and neither is an array of scalars
  held by an object of a collected cycle (`arrays/gc_collect_cycles.rs:327`).
- A cycle that leads through a boxed `mixed` cell is never collected, because
  pass 2 does not count it (`arrays/gc_note_child_ref.rs:56`).
- If a body protected by `finally` has two exits, the finally frame is
  consumed by the first and the second skips it (`stmt/mod.rs:1668`); a `break` of
  a loop *inside* the body runs the `finally` body early (`stmt/mod.rs:1638`).
  `OneExit` and `Routed` exclude both.
- `_rt_diag_suppression` is not switched with the context
  (`src/codegen/runtime/fibers/switch.rs:96`), so a fiber that suspends inside
  the operand of `@` silences its resumer. Idiom `quietswitch` allows this and
  breaks `QuietOnlyInOperand`; the passing run is without it.
- A `foreach` loop by value keeps the address of a hash table without a
  reference to it (`codegen_ir/lower_inst/iterators.rs:65`). If its body writes to
  the array and no other variable shares it, the loop sees the writes, and when the
  write makes the table grow, or the variable is assigned, the loop goes on in a
  freed block. PHP loops over the array as it was; `docs/internals/memory-model.md:411`
  says iteration keeps its order across growth. In the passing run the body leaves
  such a table to another variable first (`Spared`).
- The shallow clone retains values with tags 4 to 7 and copies the rest
  (`arrays/hash_clone_shallow.rs:85`), while an overwrite releases callables, tag 10,
  as well (`arrays/hash_set.rs:188`): a callable in a separated table has two
  owners and one count. `HashTable` leaves the values' counts out.
- A `return` in a `finally` body that discards an exception leaves `_exc_value`
  set; nothing reads it before the next throw. `ExitsClean` does not mention it.

- Constant propagation, left out by `Guarded` of `MCConstProp`: a case that
  writes and falls into the next one; a `break` or `continue` of a case that is under
  a condition or in a nested statement, whose facts no path carries; a catch clause
  after a body that writes before it throws; `elseif` clauses of an `if` whose own
  condition is known false, and those with side effects; a `break` out of a nested
  loop, `switch` or `try` that leaves a loop no condition ends; aliases by reference.
- Scratch buffer: an operand that is an assignment with statements of its own, or
  that stores to a property or an element (idiom `prelude`), resets the cursor below a
  live operand. A slice returned through a `finally` clause (idiom `finallyReturn`) is
  the finding `ConcatFinally`. The code tests no bound,
  so a statement that builds more than 64 KB writes past the buffer.
- Generators: a suspended generator that is freed leaks the boxed locals of its
  frame, and a delegate it has only borrowed is released once too often (habit
  `abandon`; breaks all four properties); a generator shared with another one not
  yet finished is resumed behind its back (`share`); an exception of a body is not
  recorded as its end (`raise`: breaks `Counted` and `CurrentIsInnermost`); `send` on
  a finished generator leaks its payload; `key` and `valid` before the first
  `current` do not start the body; `finally` bodies of an abandoned generator do
  not run.
- Includes. The projects of `MCIncludes` and the hypotheses of the properties leave
  out: a call, in an included file, of a function declared further down in it
  (the mark that makes it callable stands where the declaration stood,
  `resolver/declarations.rs:126`); a function that includes, with `include_once`, a file
  that leads back to the one that declares it: its body is resolved with the include
  chain of the walk that found it (`resolver/discovery/output.rs:244`), so the
  statement vanishes although at run time the file may not have been read
  (`docs/php/namespaces.md:79-83`; `Projects <- All` in `Includes.cfg` shows it as a
  violation of `RunsAsPhp`); the main file, which is in no chain and has no guard, so
  that including it runs it again; a function called twice that includes a file with
  declarations, which is accepted; two files that declare one function and meet in
  one branch, when another branch includes the first of them alone
  (`merge_alternatives` keeps one branch per file), which is accepted too. The
  other way around, two `if` statements that both `include_once` a file with
  declarations are rejected as a duplicate, though no run reads it twice.

## Limits

`RefCountGC`: the collector's counting passes are atomic (they call no user
code); generator and fiber frames, SPL tables, arrays of boxed values, globals,
statics, reference cells and magic `__set` are not in the model; neither are
function calls, whose arguments are variables by another name. Array length and
growth are not modelled.

`Exceptions`: expressions, locals other than the one that drives the
conditions, activation clean-up, the reset of the concat cursor, and other kinds of
loop are abstracted. `continue` out of a `finally` body is rejected by the checker
and so not generated.

`Fibers`: start arguments, captured variables and the reference counts of
payloads are left out. `getReturn` after an escaped exception returns an empty
payload; releasing a suspended fiber unmaps its stack and runs no `finally`
body. Both are what the code does and both are in `Coroutines` too, as the
documentation is silent.

`HashTable`: the values' owners (`RefCountGC` has them), `foreach` by reference,
nested loops, key normalization, and the library functions built on the table.
Releasing an overwritten value can run a destructor inside `__rt_hash_set`; that a
destructor writes to the very array is left out.

`Generators`: one Mixed local per frame, keys stand with their values, generator
methods inherited through user classes and generators held by other objects are left
out, so a frame has one owner. A delegate kept in an integer slot, which is never
released, is not in the model.

`ConcatBuffer`: one cursor of one stack. Fibers and suspended generators, which
share the cursor, and library functions that write to the buffer by themselves
are left out.

`Includes`: paths are files; constants in paths, namespaces, classes, includes in
expressions, `for`, `foreach`, `switch`, `try` and a `return` at the top level of an
included file are left out; all functions have one signature.

`ConstProp`: variables hold small integers, the operators that `fold` computes
are left out, and so are arrays, properties, closures and `global`.

`RuntimeCache`: the hash is taken as injective, a rename as atomic, and a
program text as written by one writer; removal of whole directories is `Evict` of
its files.

Not modelled at all: the parts marked "no" and "planned" in the inventory. For
those marked "no", there is either no state (strings, crypto, I/O wrappers,
parser) or no finite abstraction that tells right from wrong (type checker).

## Plan

Done: `HeapAllocator` with `AbstractHeap`, `RuntimeCache`, `ConcatBuffer`,
`Generators`, `Fibers` with `Coroutines`, `HashTable` with `OrderedArrays` and
`RefCountGC` with `AbstractStore` (all proved but for liveness);
`TryLowering`, `PhpControlFlow` and `Exceptions`, `ConstProp` with `PhpScript`, `Includes`
with `PhpIncludes` (model-checked). Next:

1. `ConcatBuffer` under fibers and suspended generators.
2. `TryLowering`: `for`, `switch`, the validator's rules as an operator on lowered
   blocks.
