# Turf: specifications, model checks and proofs

Turf is a small compiled language: `turfc` lexes, parses, resolves, type-checks,
monomorphizes, analyses and lowers a program through LLVM, and links it against
a C runtime (`runtime/`) with a conservative mark-and-sweep collector; the
standard library (`lib/std/`) is written in Turf. This directory holds TLA+
models of the parts where a state and its history matter, the TLC
configurations that check them, and TLAPS proofs. All paths below are relative
to the root of the repository.

Modules in this directory:

| Module | What it is | Models |
|---|---|---|
| `TurfHeap` | memory, roots, pins; every runtime call a program makes | `runtime/turfrt_alloc.c`, `runtime/turfrt_gc.c` |
| `GcHeap` | `TurfHeap` + the mark and sweep phases | `runtime/turfrt_gc.c` |
| `ManagedHeap` | abstract: what a collected heap promises | - |
| `GcHeap_proofs` | theorems about `GcHeap` | - |
| `LibcHeap` | libc's malloc arena (external) | - |
| `GcTable` | the block table, pending index, pin list, threshold | `runtime/turfrt_gc.c`, `runtime/turfrt_alloc.c` |
| `BlockMap` | abstract: a set of blocks with pin counts | - |
| `GcTable_proofs` | theorems about `GcTable` | - |
| `HashIndex` | the bucket index `map.tr` and `set.tr` share | `lib/std/collections/{map,set}.tr` |
| `HashCollections` | `Map` and `Set` | the same |
| `ScanMap` | abstract: entries found by scanning | - |
| `HashCollections_proofs` | theorems about `HashCollections` | - |
| `TurfSequences` | `List`, `Stack`, `Queue` | `lib/std/collections/{list,stack,queue}.tr` |
| `PlainSequence` | abstract: plain sequences | - |
| `TurfSequences_proofs` | theorems about `TurfSequences` | - |
| `FlowGraph` | expressions, statements and basic blocks; what each statement reads, assigns, narrows | `src/analysis/CFG.h`, the statement walks of `src/analysis/Analysis.cpp` |
| `CFGBuilder` | the graph of a function from its body | `src/analysis/CFG.cpp` |
| `FlowPasses` | definite assignment and nullability: sweeps to a fixpoint, then the judgement | `src/analysis/Analysis.cpp` |
| `FlowAnalysis` | builder, passes, and the accepted function as it runs | the above, `src/sema/TypeCheckerStmt.cpp`, `src/codegen/Codegen{ControlFlow,Pattern}.cpp` |
| `ProcessCall` | abstract: what one call of `RunProcess` promises | - |
| `RunProcess` | one call: the caller, the child, a helper, the kernel | `src/tooling/TestRunner.cpp` |
| `Driver_proofs` | theorems about `RunProcess` and `FlowPasses` | - |
| `TestRunner` | the pool of workers, judging, the interrupt, the exit status | `src/tooling/TestRunner.cpp`, `src/tooling/TestExpectations.cpp` |
| `TestRunner_proofs` | theorems about `TestRunner` | - |
| `GenericCalls` | the programs monomorphization works on; what instance a call asks for | `src/sema/TypeChecker{Call,Decl}.cpp` |
| `Instances` | abstract: the closure of the instances called | - |
| `Monomorphize` | the request cache, the four drains, the loop over them | `src/sema/Monomorphize.{h,cpp}`, `src/driver/main.cpp` |
| `Monomorphize_proofs` | theorems about `Monomorphize` | - |
| `Imports` | parsing a program's files, both passes of `turfc`, analyses on threads and inside a compile | `src/frontend/ParserModule.cpp`, `src/frontend/Lexer.cpp`, `src/driver/main.cpp`, `src/tooling/AnalysisFacade.cpp` |
| `LoneCompile` | what loading a program comes to by itself, as a function | - |
| `Imports_proofs` | theorems about `Imports` | - |
| `MC*` | constants for TLC; `MCFlow`, `MCMonomorphize` and `MCImports` also the programs | - |

## 1. The system

**Runtime: collector** (`runtime/turfrt_gc.c`). State: the sorted block table
`g_blocks` with its dead entries, the unsorted `g_pending` list with its
open-addressing index `g_pidx`, the pin list `g_pins`, the registered global
roots `g_roots`, the byte counters and the threshold, mark bits and a worklist.
Operations: register / re-register a block, look one up exactly or by an
interior address, pin, unpin, add and remove a root, collect (rebuild the index,
mark from the stack, registers, globals and pins, trace by descriptor, sweep).
Correct when: a reachable or pinned block is never freed; an unreachable one is
freed by the next collection; collections end; the table answers every lookup
as memory really is; a pin follows its block when realloc moves it.

**Runtime: allocation** (`runtime/turfrt_alloc.c`). The compiled program's way
in: alloc, zeroed alloc, realloc, the checked `free` of `mem`, string capacity.
Each call registers its block and then lets the collector run. Hard: the
collection comes in the middle of a call, before the program holds the result.

**Collections** (`lib/std/collections/`). `Map` and `Set` lay an
open-addressing index with tombstones over dense arrays; `remove` fills the
hole with the last entry. `List`, `Stack` and `Queue` are buffers that double;
the queue compacts. Correct when: the index finds exactly the live entries, no
access leaves the buffer, and each behaves as the plain collection it documents.

**Manual heap** (`lib/std/mem/mem.tr`). `alloc`/`free`/`realloc` straight from
libc beside the collected heap, and pools over them. Interacts with the
collector by `turf_rt_checked_free` and pins, and by what the collector does
*not* scan.

**Rest of the runtime** (signals, conversions, strings, time, Windows). Signal
handlers raise a flag; conversions are pure.

**Standard library over the OS** (`io`, `net`, `http`, `fs`, `json`, ...). Thin
wrappers over system calls.

**Flow analysis** (`src/analysis/`). Builds a control-flow graph per function
(state: the blocks, the insertion point, the innermost loop's targets, the open
scopes' deferred statements) and solves data-flow problems on it (state: the
facts at each block's start and end, whether the sweep changed any): definite
assignment, nullability narrowing, liveness, escape, value ranges. Correct when
an accepted program never reads an unassigned variable, never dereferences a
null, and does not run off the end of a function that returns a value. Hard: the
graph and the code generated from the same tree are two translations by
different hands, and they have to agree on every way out of every construct.

**Monomorphization** (`src/sema/Monomorphize.{h,cpp}`, driven by
`src/driver/main.cpp`). State: the cache of requests, each with its parent, the
call sites that ask for it and how many of these were rewritten; the clones
appended to the program; where the sweep is. Checking a call records a request
(and takes it back when the type being built turns out wider); a drain clones
the template of a request, checks the clone, which records more requests under
its feet, and rewrites the sites; four drains take turns until a round changes
nothing. Correct when it ends, clones each instance once, points every call at
the clone its types ask for, and refuses a program only with a reason. Hard: the
cache grows during a sweep, a site can arrive after its clone, or change the
instance it asks for.

**Module loading** (`src/frontend/ParserModule.cpp`, `src/frontend/Lexer.cpp`).
State, all of it process-wide: the files parsed, the stack of those being parsed,
the diagnostics and the lines that have one. An import parses the file it names
there and then. The prelude comes first, then the entry file; `turfc` does both
twice (a pre-pass for resolving, then the main pass). Correct when each file's
declarations come into a program once, a cycle is told from a repeat, an error
fails the imports that waited for the file and nothing else, and both passes see
the same program. Hard: the entry file may be reached by its own imports or by the
prelude, a file can fail half way, and whether an import failed is read off the
number of diagnostics.

**Test runner** (`src/tooling/TestRunner.cpp`). State: the counter the workers
take files from, the results, the interrupt flag, the mutex around the
in-process analysis; for each call of `RunProcess` the pipe, the child and its
process group. Correct when a hung test is killed and reported, output is
complete, no process is left, a pass means that the test did what it is for, and
"all passed" that all ran. Hard: `setpgid` races with itself and with the kill;
the pipe's write end leaks into whatever forks meanwhile; exit, timeout and
Ctrl-C meet in any order.

**Analysis facade** (`src/tooling/AnalysisFacade.cpp`). In-process compiler API:
each analysis takes a recursive lock, puts the process-wide state aside, starts as
a process would, and puts it back. Analyses come from several threads, from
`DiagnosticEngine::add` in the middle of a compile (to see whether a fix works),
and from a callback of another analysis. Correct when each result is the one the
program has in a process of its own.

**Suggestion engine** (`src/slm/`). A prompt cache, a file cache of suggestions, a
sandbox that validates a suggestion by compiling it.

**Package graph, lexer, parser, resolver, type checker, code generator,
diagnostics, formatter, driver.** Mostly functions from one tree to the next
whose subject is data, not state; see section 7.

How they interact. The driver calls the phases in order, each reading the tree
its predecessor left. Generated code calls the runtime, and the runtime never
calls back. The collections call the runtime's `gc_alloc`/`gc_realloc` and rely
on its descriptors. The test runner and the suggestion sandbox start the
compiler as a child process.

`PROJECT.json` lists every component with its status, and the hazards at the
lines where they bite.

## 2. How the models correspond to the code

### `TurfHeap`, `GcHeap`

Memory is a set of word addresses `Addr`. `heap[a]` is the chunk that starts at
`a`: one of the collector's (`"gc"`), one of `mem::alloc`'s (`"manual"`), or
none. `mem` holds the pointer-sized value of every word. `Local` stands for the
stack words *and* the callee-saved registers the code spills with `setjmp` or
the like: `gc_mark` treats the two alike, word by word. `roots[g]` counts the
registrations of a global slot (the code's list may hold one several times),
`pins[b]` is the count of a block's pin entry.

* A type descriptor is its stride and the set of its words that are pointers.
  `Containing` is `gc_find_containing`; `TracedWords` the words
  `gc_scan_block_precise` reads, whole strides only.
* One action is one complete call. The address a call returns is put into the
  caller's local in the same step: the code registers the block, then may
  collect, and at that moment the pointer is in the runtime's own frame, which
  the scan covers.
* In `GcHeap` a collection may follow any `Alloc` or `Realloc`, and the program
  may ask for one. When the counters and the threshold really start one is
  `GcTable`'s subject.
* While `turf_rt_collect` runs no action of the program is enabled (the runtime
  is single-threaded and stop-the-world). Its loops are one iteration a step:
  `MarkRoots`, `Trace`, `TraceDone`, `Sweep`, `SweepDone`. The worklist is a set
  and any member may be taken next; the code takes the last, so the model has
  more behaviours than the code.
* Freed words become null; fresh words hold nulls or members of `Garbage`
  (`malloc` promises nothing), so stale pointers in fresh memory are covered.
* `realloc(p, 0)` frees and returns NULL, as glibc's does, which the code takes
  for exhaustion. `Panic` is terminal: the process aborts. That is why the
  configurations of `GcHeap`, `GcTable` and `TurfSequences` turn deadlock
  checking off; the hash collections never stop and keep it on.
* Values move only from where a program can see them (`Visible`): null, another
  local, a global, a word of an object it holds, an interior address of it.
* `turf_rt_realloc` may be given a chunk of `mem::alloc` too: its address is not
  registered, so there is no entry to move, and the chunk that comes back is
  registered afresh (`turfrt_gc.c:685`); from then on it is the collector's.

### `GcTable`

`table` is the record of `g_blocks`, `g_dead_count`, `g_pending` and `g_pidx`;
`gauge` the byte counters and the threshold; `pins` the list `g_pins` in its
order. Binary searches and linear probing are written out, as recursive
functions of the range or step; `qsort` is the arrangement by start, of which
there is one, since starts differ. A call is one step, the collection it
triggers included. What marking finds is left open: any set of blocks that
contains the pinned blocks and the block just registered; so everything shown
here holds for every tracing. The constants `MinCap`, `Room` and `Floor` are
1024, 4 and 1 MiB in the code, small here. `chunk` is libc's truth; the table
never reads it. As in `TurfHeap`, a realloc may take a manual chunk, which enters the
table with the call.

### `HashIndex`, `HashCollections`

A collection is its header: `keys` (and `values`) with `len` and `cap`,
`buckets` with `bcap` and `tombs`. A cell past `len` keeps what it held, since
the code never clears one. `Odd` are the keys that are not equal to themselves
(a float NaN). Whether an object is a map or a set is chosen in `Init`.

### `TurfSequences`

`data` holds the cells written so far, `head` is 0 but in a queue. Insertion
sort, binary search, compaction and `copy` are translated loop by loop where the
order of the steps matters (compaction copies inside one buffer). The range a step
of the binary search looks at is the pair `w`. `PlainSequence` says of `sort` only
what it promises: a rearrangement, ascending in rank, elements of one rank in the
order they had.

### `FlowGraph`, `CFGBuilder`

A function body is a sequence of statements. An expression is kept to what the
passes tell apart: the literal `true`, a read of a local, `p.val`, a comparison
of `p` with null, the negation of one of these, a conjunction or disjunction of
two of them, or an opaque expression that says nothing of any variable. Casts,
calls of methods and field accesses through `p` behave like `p.val` and are not
told apart from it.

`CFGBuilder` keeps the builder's members in one record (`g`, `cur`, `scopes`,
`loop`, `err`) that every visitor takes and returns, so each `visitX` stands for
the method of that name: blocks are numbered in the order the code creates them
and edges keep their order, since the passes read the first edge of a branch as
the true one. `cur = 0` is the code's null insertion point. Deferred statements
are recorded with the block that runs them (`runs`), as `EmitDeferredRuns` does.
A `compare` is the code's chain of test blocks; a pattern is opaque, a guard is
an expression. `recover` covers a statement with one run block.

### `FlowPasses`

`universe` is the set a pass computes before its first sweep (`AllBodyDeclared`,
`Collector.Tracked`), `in` and `out` are the maps of the same names. One step of `VisitBlock` is one iteration of the inner loop of `runOnCFG` (or of
`runNullabilityDataflow`): meet the predecessors' facts, and if they differ from
what the block had, store them and recompute what it establishes. `SweepAgain`
is the outer loop, `Report` the walk that judges the statements once a sweep
changed nothing, and starts the next pass if the first found no error. The two
passes differ in their universe (the locals declared without an initializer, or
the `&?T` variables mentioned) and in what a statement does (`After`). Only the
true side of a statement's facts goes on to the next one, as in
`computeBlockOutputs`.

The reference the passes are held against is `Ways`: the facts one gets by following
single ways through the graph, without ever meeting two. There are finitely many ends
of ways for a finite number of variables (`VariablesAssumption`), so following them for
that many steps finds all. `IsFlowGraph` is what a graph must be for the theorems about
the passes: edges lead to blocks, a block ends in at most two, and every block is reached
from the entry or from one nothing jumps to. `FlowAnalysis` assumes it of every graph
`buildCFG` makes (`GraphsAssumption`), which TLC evaluates for all bodies of a run.

### `FlowAnalysis`

`Init` takes a body, builds its graph, and lets the checks that precede the
passes (a statement after a jump, `break` outside a loop, the type checker's
check of deferred dereferences) stop the function. If the passes accept it, the
body runs, on the tree and not on the graph: `stack` holds the open blocks and
loops, innermost first, each block with the statements its `defer`s registered,
which is the codegen's own defer stack. Each `RunStep` is one construct as
codegen lowers it: conditions short-circuit, a `compare` evaluates its subject
once and then each pattern and its guard in source order, a `do` body is entered
untested, every way out of a block (its end, `break`, `continue`, `return`) runs
what the blocks it leaves have registered, innermost first, backwards, and a
`return` computes its value before that. Opaque conditions and patterns go
either way, a call may return null or not. `memory` records the locals assigned,
the references that are null, and the faults met: the reads of unassigned locals
and dereferences of null that the passes are there to exclude. A fault is
recorded and execution goes on, so that one execution can meet several. A read of
a local that only a `defer` registered so far will assign (`promised`) is a fault of
a kind of its own, since the pass lets it through on purpose.

### `ProcessCall`, `RunProcess`

`RunProcess` is one call, one system call a step: `pipe`, `fork`, `setpgid` in
the parent (`SetGroup`) and in the child (`ChildSetGroup`), the loop of
`CheckTime`, `Read` and `Wait`, the last drain, the last `killpg`. The kernel's
part is written out: what is sent and not read is in the pipe, end of file means
that no writer is left (the child, its helper, or a copy of the write end that
another worker's child inherited), `setpgid` on a child that has become its
program is refused, `killpg` reaches members of the group only, an ended child
is a zombie until it is waited for. Time is the flag `expired`, which may rise at any
moment after the fork; `poll` only waits and is part of `Read`. Output is counted in chunks; what is read when
the capture is full, and so dropped, is taken out of `sent`, so that nothing bounds
how much a program or its helper prints: a program that prints without end is a
behaviour of the model.

`ProcessCall` is what a caller relies on: started or refused, ended by itself or
killed for one of two reasons, and the status returned is the real one.

### `TestRunner`

A worker's step goes from one call that takes time to the next (`at` names which:
a `RunProcess`, the mutex, the analysis); reads of `g_Interrupted` lie where the
code has them. The result of a call is any that `ProcessCall` allows
(`CallResults`); what the compiler and the program then print is any choice
consistent with it. Any process may fail to
start. A verdict carries two fields which the code does not have: `earned`, whether the
outcome the test is named for really happened, and `started`, whether the process judged
ever ran.

### `GenericCalls`, `Instances`, `Monomorphize`

A program is the calls of its ordinary code and of each template's body; a type is
int, double, or a box around a type, so that templates can ask for ever larger
ones. A call has the type of its argument and, if it is a constructor whose
value goes to a declared place, the type it is to build: `Visit` records it as
`visitFuncCall` does and, if an int is widened, forgets the site and records it
again as `noteConstructed` does. A template's own body is checked as it stands
before any clone is: the calls that do not name its parameter count as ordinary
code (`Concrete`). Sites are sets and `rewritten` a subset of them; in the code a
list and how much of its front was rewritten. `asts` is the list the clones are
appended to, `target` the calls' `ResolvedCallTarget`. One step is one index of
a sweep, or one call of the body of the clone being checked.

`Instances` has only the set of instances made, and grows it by any that some
call needs and lacks.

### `Imports`, `LoneCompile`

A program gives each file its text, kept to what matters here: its imports, lines
that do not parse, imports of modules that are nowhere. `compile` is the record of
`Compile` and the `DiagnosticEngine` that the running compile uses, `saved` those
that analyses have put aside, `tasks[t]` the compile and the analyses that thread
`t` is in, one inside another, each with its stack of calls of `ParseFile`
(`calls`; the outermost is the loop over the prelude, then over the entry file).

* A step is a statement, an error recorded, a file left, a pass ended, or the
  begin or end of an analysis. `Circular`, `AlreadyParsed` and `Enter` are the
  three ways through `ParseFile`, in the order of its tests; a file counts as parsed
  when its last statement is (`FinishFile`), and not if it fails (`FailFile`).
* Recording an error is two steps, since `turfc` may analyse a fix between the
  two (`Ask`), before the error is in the list. `Add` keeps one error to a line
  *number*, whatever the file, unless all are wanted; and a file that failed
  without adding a diagnostic is taken for one that is not there.
* A text lists the prelude's modules under the name `Prelude`; an installation may lack
  some. An error in the entry file is recovered from at the next declaration. A prelude
  module that is there and fails ends the process (`GiveUp`); one that is not there ends
  `turfc`, which nothing catches it in, while an analysis goes on without the prelude's
  declarations (`WithoutPrelude`), though the files the prelude has loaded count as parsed
  still.
* `waiting` are the threads that have reached `AnalysisMutex`; the lock, saving the
  state and beginning are one step, since nobody else acts on that state in
  between. An analysis inside a task is asked for at most once, and none inside that.
* Which analysis of several a program's text belongs to, and which program a fix
  makes of it, is left open: any of `Analysed`.

`LoneCompile` computes with a recursive function, from the text alone, the
declarations, their order and the errors.

## 3. What each run checks

| Run | Bounds | Distinct states | Properties |
|---|---|---|---|
| `gc` | 3 words, one-word pointer descriptor, blocks of 1-2 words, manual ones of 1, 1 local, 1 global slot, 1 pin each, clean fresh memory | 638 k | `PinnedIsLive`, `MarkInvariant`, `CollectionEnds`, `KeepsPromise`, `KeepsReachable`, `TakesGarbage` |
| `gc_zero` | 3 words, sizes 0-1, 3 descriptors, 1 local | - | `HeldIsKept` (violated) |
| `gc_table` | 3 addresses, sizes 1-2 (manual 1), 2 pins each, first index capacity 2, one slot per block, threshold 5 | 100 k | `TableIsTruth`, `TableShape`, `HeapIsBounded`, `KeepsBlockMap` |
| `hash` | 4 keys of which 3 collide, 2 values, up to 3 entries, first capacity 2 | 13 k | `IndexIsSound`, `IndexOfIsPosition`, `IsAccelerator` |
| `hash_nan` | 4 keys, one of them not equal to itself | - | `IndexOfIsPosition` (violated) |
| `sequences` | 3 elements, two of equal rank, up to 5, first capacity 2 | 330 k | `BufferHoldsItems`, `SearchFinds`, `SpaceIsReused`, `IsPlainSequence` |
| `flow` | every body of 3 (three vocabularies: 4) statements, one local, two `&?T` | 264 k | `ReadsAreAssigned`, `DereferencesAreChecked`, `FallingOffIsSeen`, `DeferredRunsAgree`, `SolutionIsExact`, `PassesEnd` |
| `flow_faults` | 3 statements: exhaustive `compare` of a comparison with null, `compare` guarded by one, deferred dereferences, deferred assignments | - | `AcceptedRunsAreSafe` (violated) |
| `run_process` | one call, one helper, one sibling; pipe and buffer of 2 chunks, capture of 3, no bound on what is written | 57 k | `NobodyIsLeft`, `OutputIsComplete`, `CallReturns`, `ImplementsCall` |
| `test_runner` | 2 workers; every 2 of 5 kinds of files, one with no cases, two suites of 3; up to 3 `@test` functions a file | 132 k | `PassIsEarned`, `ExitIsTruth`, `EachTestOnce`, `RunEnds` |
| `monomorphize` | one template of each kind with up to 2 calls in its body, 1-2 calls in ordinary code, depth 3, 6 instances | 183 k | `OneClone`, `CallsLeadToClones`, `ParentsCall`, `RefusalIsEarned`, `DrainsEnd`, `ImplementsInstances` |
| `imports` | 4 files, prelude of 2 one of which is the entry file, entry files of up to 2 statements over two modules and an error, modules of up to 2 that import each other, the entry file, or fail, and one program that lacks a prelude module; 5 programs to analyse, one of which lacks one too; 2 threads | 631 k | `SameAsAlone`, `EveryBodyOnce`, `LoadEnds` |

What the properties of `flow` say: what the passes accept runs without the two
faults on any path (`ReadsAreAssigned`, `DereferencesAreChecked`), execution
falls off the end only where the missing-return check sees it
(`FallingOffIsSeen`), codegen's own stack of deferred statements runs what the
builder recorded, in that order (`DeferredRunsAgree`), the fixpoint the passes
judge at loses nothing against the facts collected way by way (`SolutionIsExact`: the
passes are as precise as their transfer functions), and the iteration ends
(`PassesEnd`). Two more properties of the passes, `VerdictIsExact` and `SweepsDescend`,
are proved (section 5) and are in no run.

`ReadsAreAssigned` is what the pass computes: a read counts as assigned if a statement
or a `defer` registered before it assigns the local, since the pass counts a deferred
assignment where it is registered (`Analysis.cpp:171-174`). The bodies of `flow` do
assign in defers. What the documents promise, that no accepted function reads a value
nothing assigned or dereferences null, is `AcceptedRunsAreSafe`, and `flow_faults` shows
it violated. Its bodies are of four kinds, unsound each by itself (`Bodies <-
ComparesNull`, `GuardsByNull`, `DefersUse` or `DefersAssign` instead of their union). The
first three are left out of `flow`, where they would violate `DereferencesAreChecked`.

What the other properties say. `NobodyIsLeft`: `RunProcess` kills the group once, and
when it returns neither the program nor its helper runs. `OutputIsComplete`: nothing written before
the end is lost unless the capture was full. `CallReturns`: the call ends once
there is a reason, although others hold the pipe open and the program prints without
end, if the caller's reads ever catch up with the writers (`CatchesUp`, section 4); and
a full pipe is always emptied. `ImplementsCall`: the
status is the one the program ended with. `PassIsEarned`: no kill, crash or
timeout passes for the outcome a test is about, and neither does a process that never
started but where it stands for the rejection or the abort of a file that pins no output
(section 6). `ExitIsTruth`: 0 and 1 are said of
complete runs only, 130 of interrupted ones. `EachTestOnce`: two workers never
hold one file, whose temporary names they would share. `RunEnds`: nobody waits
for ever. `OneClone`, `CallsLeadToClones`: each call of ordinary code and of every
clone leads to exactly the one clone its types ask for. `ParentsCall`: the chain an
error prints is one of instances that call each other. `RefusalIsEarned`: a program
is refused only for a wrong body, a real chain that is too deep, or too many
instances. `DrainsEnd`: the rounds end. `ImplementsInstances`: nothing is cloned that
no call needs, and nothing is missing at the end. `SameAsAlone`: whatever was compiled,
interrupted or analysed before, around or beside it, a program that loads in a process
of its own loads the same: the same declarations in the same order, in either pass, for
an analysis the same errors. Of a program whose prelude fails, which ends the process
where a comment says that it must not (section 6), it asks nothing. `EveryBodyOnce`: no file comes in twice, and a program
without errors has all files it reaches, and its modules wait for each other in no
circle. `LoadEnds`: every compile and analysis ends, one inside another as well.

Why these bounds are enough to meet the interesting cases:

* three words hold a cycle of two blocks plus a third, a self-reference, an
  interior pointer into a two-word block, and an opaque word. A program with one local
  and one global slot can build that cycle (it fetches the second block's address back
  from the global), and collections start while it is reachable and after it has become
  garbage. The run `gc` leaves out what
  the theorems of section 5 cover for every constant anyway: several locals,
  descriptors that mix traced and opaque words, stale values in fresh memory;
* one pin and a realloc suffice to strand a pin and reuse its address; two pins
  a block let one entry outlive another in the pin list;
* an index of capacity 2 with one slot a block, over three addresses, fills with deleted keys and is
  rebuilt within a few reallocs; the collisions come from `MCHash`;
* four keys on a chain, three entries: a tombstone before, between and after
  live keys, a moved key beyond the new tombstone, growth at the same size and
  at twice the size;
* five elements, first capacity 2: two doublings, a queue that wraps its head to
  the front with room and without;
* three statements nest a jump two constructs deep or put one construct after
  another; four let a loop both test a variable and change it after the test, so
  that the back edge has to take a fact away and a second sweep is needed. The
  passes treat variables one by one, apart from the assignment of one reference
  to another, so one local and two references are enough. `MCBodies` is the
  union of six vocabularies (`Assigning`, `Narrowing`, `Joining`, `Copying`,
  `Looping`, `Deferring`), each with the statements and conditions that matter to
  one question and all constructs that can bear on it.

* one helper and one sibling are each enough to keep the pipe open; a pipe as large
  as the buffer and a capture larger than either make the program block in a
  write, the capture fill in the middle of a run, and a read come back short;
* two workers and three files: both workers at work, and one that comes back for
  another while the other is anywhere; two `fail_*.tr` with fixes contend for the
  mutex. Threads differ in nothing, but liveness is checked, so no symmetry is
  declared;
* with depth 3 a chain of templates closes a cycle between three kinds of
  drains, meets the limit, and an instance is asked for from two clones and from
  ordinary code in either order; with 6 instances in all the second limit is met
  where the first is not.

* two modules in every arrangement with the entry file give a loop of two, a loop
  through the entry file, a repeat, a file that fails at first or at the second
  statement, and one that fails after an import of its own succeeded; errors on one
  line number of two files meet the rule of one error to a line; the prelude reaches
  the entry file before its turn; five programs are enough for an analysis to be
  clean, loop, fail, end the process, or go on without its prelude, inside either pass,
  inside another analysis or beside one.

The theorems of section 5 remove the bounds for the collector, for `List`, `Stack`
and `Queue` (all four properties of that run), the sweeps of the flow passes, `RunProcess`, the safety of the test runner and of monomorphization,
and of what `Imports` keeps true on the way.

`KeepsPromise`, `KeepsBlockMap`, `IsAccelerator`, `IsPlainSequence`, `ImplementsCall`
and `ImplementsInstances` are refinements: the detailed module implements an abstract one under a mapping
(`INSTANCE ... WITH`), the abstract specification being the property.

## 4. Fairness

`GcHeap!FairSpec` has `WF_vars(Collector)`. `turf_rt_collect` is a
plain function without waiting: once entered, nothing but its own loops runs
until it returns, so a step of it that is possible is taken. The program's own
actions have no fairness: a program may stop calling the runtime whenever it
likes. `FlowAnalysis!FairSpec` has weak fairness of `PassStep`: the passes are
plain loops of the compiler that wait for nothing. The compiled function has
none. Its behaviours end (it returned, fell off the end, or was rejected), which
is why the `flow` configurations turn deadlock checking off.

`RunProcess!FairSpec` has weak fairness of the calling thread, which only ever
waits in `poll` with a limit of 20 or 50 ms, and of the child between `fork` and
`exec`, which makes calls that do not block. The program, its helper, the clock
and the sibling have none: a program may hang and never be timed out, and then
nothing is promised.

One more assumption stands in the property and not in the specification, because nothing
in the code secures it: `CatchesUp`, that `Drain` is not outrun by a writer for ever. `Drain`
(`TestRunner.cpp:148-160`) reads as long as a read returns something, and looks at neither
the clock nor the flag in between. A pipe that is never seen empty keeps the call in
it: in the loop, when the program prints without end, the kill that `:91-95` promise on a
timeout is never sent; in the last drain, a helper that outlived the program and prints
without end keeps the call from the `killpg` at `:184` that would end it. Without
`CatchesUp` TLC finds both. In practice a read is faster than what most programs do to
produce the next chunk, which is the assumption. `TestRunner!FairSpec` has weak fairness of each worker (a
`RunProcess` returns by `CallReturns`, since every call is given a limit, under the
assumption just named; the
analysis is a computation that ends) and of the main thread; a worker waits for the
mutex only while another holds it. That is weak fairness although two workers
compete for it, because each file is analysed once: a worker cannot come back
often enough to starve another for ever. `Monomorphize!FairSpec` has weak fairness
of `Next`: one thread, nothing to wait for. `Imports!FairSpec` has weak fairness of each
thread's parsing, of its passes, of `Begin` and of `Return`: parsing waits for
nothing, and a thread that waits for a free `std::recursive_mutex` gets it. Again weak
fairness is enough for the lock, because each thread asks a bounded number of
times. All four end, so their configurations turn deadlock checking off; that they
end well is `CallReturns`, `RunEnds`, `DrainsEnd` and `LoadEnds`.

## 5. What is proved

`GcHeap_proofs`, for every arena, set of sizes, descriptors, locals and bounds
that meet the named assumptions of `TurfHeap` (addresses are positive naturals,
sizes naturals, descriptors have a natural stride and word offsets, garbage is
addresses):

| Theorem | States |
|---|---|
| `Invariance` | `Spec => []IInv` |
| `TypeCorrect` | `Spec => []TypeOK` |
| `MarkIsSound` | `Spec => []MarkInvariant` |
| `PinsProtect` | `Spec => []PinnedIsLive` |
| `ReachableIsKept` | `Spec => KeepsReachable` |
| `GarbageIsTaken` | `Spec => TakesGarbage` |
| `EachStepDescends` | `Spec => CollectionDescends` |
| `Implements` | `Spec => KeepsPromise`: the collector implements `ManagedHeap` |

The argument. `IInv == TypeOK /\ HeapOK /\ PinnedIsLive /\ MarkInvariant`.
`HeapOK` says that chunks lie inside the arena and apart; it is needed because
`Containing` (like the binary search it models) takes the last block that starts
at or before an address, and only when blocks do not overlap is that the block
the address is in (`ContainingIsMembership`). `MarkInvariant` is the tri-colour
argument: the marked blocks are reachable, hold the roots' blocks, and every
edge out of a scanned one stays within them. When the worklist is empty the
marked set is closed, and `Reachable` is the least closed set
(`ClosedCoversReachable`, `ReachableIsClosed`), so they are equal. A sweep step
frees an unmarked block, hence one no reachable word leads to, and therefore
changes neither the edges nor the roots (`FreeUnmarked`): reachability is the
same after each step, so the sweep may be interrupted nowhere and still end with
exactly the reachable blocks. `PinnedIsLive` needs the pinned block to be a root,
which in turn needs it to have at least one word: a pin is found through
`Containing`, which no zero-sized block answers, and realloc refuses size 0.
The refinement maps marking to stutters and each sweep step to `Reclaim`.
`CollectionDescends` is the safety half of `CollectionEnds`: each step of a collection
leaves fewer blocks unmarked, or as many and a shorter worklist, or fewer blocks to sweep;
so no cycle, of however many blocks, keeps the trace going. That the steps are taken
is the fairness of section 4, and TLC's.

`GcTable_proofs`, for every set of addresses above 1, every set of sizes, every hash,
first capacity, room per entry and floor greater than 0, collecting under pressure or at
every allocation (`Stress`):

| Theorem | States |
|---|---|
| `Invariance` | `Spec => []IInv` |
| `TableShapeAlways` | `Spec => []TableShape` |
| `TableIsTruthAlways` | `Spec => []TableIsTruth` |
| `HeapIsBoundedAlways` | `Spec => []HeapIsBounded` |
| `KeepsBlockMapAlways` | `Spec => KeepsBlockMap`: the table implements `BlockMap` |

The argument. `IInv` has five parts. `HeapOK`: libc's chunks lie apart. `TableOK`: the
sorted array ascends so that each entry, dead or not, ends before the next one begins,
the dead ones are counted, each pending start occurs once, and g_pidx leads to it
(`IndexOK`). `Told`: the live entries of the array and the pending ones are together the
registry of the program's blocks, and have none in common. `PinsOK`: only blocks with
words are pinned, once each. `GaugeOK`: the words of the blocks are no more than the
gauge says. `TableIsTruth` is not inductive: it says nothing of dead entries, and these
decide what a binary search meets. A dead entry keeps the words it had until the next
rebuild, though libc may long have placed another block there; it stays comparable
because the array it was sorted into never gets a new entry in between, and it can hide
no live entry because the array's entries lie apart (`ContainingFacts`). The block that
reuses the memory is pending, which is where the lookups go next or first.

`IndexOK` is the open addressing argument: from the slot an address hashes to, probing
meets its key before an empty slot (`Leads`), and `used`, which counts deleted slots
too, stays below the capacity (`EmptySlot`), so every probe ends. `pending_remove` writes
two slots, one of which may be the other (`DroppedOK`: the last entry removes itself).
Binary searches and the doubling of the capacity are recursive functions, shown to exist
by well-founded induction on the length of the range (`HalvingExists`, `Iteration`) and
followed by an invariant of the range (`HalvingEnds`). A collection takes the blocks at a
set of starts that no word it saw points into (`Collected`), so no pinned block
(`TakesUnpinned`). For the refinement the count of an address is that of the pin entry
with this start, in whatever place of the list; realloc is `Reallocate` because the
new address, if another block's, would not have been free (`CountsMoved`), and an unpin
takes one from the count also when the last entry fills the hole (`PinnedLessOK`).
`HeapIsBounded` needs the sum over the blocks to be the same in whatever order they are
added (`AddsAny`), as the library defines it by choice of the next one.

`Driver_proofs`, on the passes; the first two for every graph with an entry block, the
others for every `g` with `IsFlowGraph(g)`:

| Theorem | States |
|---|---|
| `SweepInvariant` | `PassSpec(g, stopped) => []SweepInv` |
| `PassJudgesAtFixpoint` | `PassSpec(g, stopped) => []JudgesAtFixpoint` |
| `SolutionIsAlwaysExact` | `PassSpec(g, stopped) => []SolutionIsExact` |
| `VerdictIsAlwaysExact` | `PassSpec(g, stopped) => []VerdictIsExact` |
| `SweepsAlwaysDescend` | `PassSpec(g, stopped) => SweepsDescend` |

The argument. `JudgesAtFixpoint` speaks of the moment a pass judges; to be
inductive it needs what holds in the middle of a sweep. `SweepInv` adds that a
block's established facts are always those computed from its present ones
(`Computed`: both are assigned together, in the visit and at the start), and
that in a sweep which has changed nothing so far every block behind the sweep
position is solved (`SolvedBehind`: with no change since, what was met then is
what would be met now, loops included). At the end of a quiet sweep all blocks
lie behind.

That the solution is exact is the classic theorem on distributive data flow, here for
the transfer functions of this code. They commute with meets: what is assigned or
narrowed by an atom, a side of `&&` and `||`, a statement, a block and an edge from the
meet of some facts is the meet of what it makes of each (`AtomMeets`, `JoinMeets`,
`NarrowMeets`, `AfterMeets`, `AlongMeets`, `BlockMeets`), and hence grows with them
(`BlockGrows`). The ways are the least set that holds the starts and is closed under
going on (`WaysAreClosed`, `WaysAreLeast`): a step that finds something new adds an end,
and there are only `Cardinality(Ends)` of those (`SearchGoesOn`). One half is an
invariant, `NothingLost`: a block holds at least what holds on every way to it, and a
block a way begins at keeps what it starts from. A visit meets its predecessors, each
of which has all that holds on its ways, and what it makes of that is what holds on the
ways one edge longer (`EdgeLosesNothing`, `VisitLosesNothing`). The other half is
needed at the fixpoint only: the ends whose facts include what the block holds are
closed under going on, so all ways are among them (`FixpointClaimsNoMore`). This is
where `IsFlowGraph` comes in: a circle of blocks that nothing leads to would keep
everything there is to prove, and be on no way. The verdict follows as a read is
reported against a meet of facts exactly when it is against one of them
(`UnprovenMeets`, `ReportedMeets`, `BlockVerdict`). `SweepsDescend` is the safety half
of `PassesEnd`; its invariant `Descending` says that no block would get a fact back if
it were met now.

`Driver_proofs`, on `RunProcess`, for every pipe, buffer and capture size greater than
0, every set of statuses and any amount of output:

| Theorem | States |
|---|---|
| `Invariance` | `Spec => []IInv` |
| `KillAlwaysReaches` | `Spec => []KillReaches` |
| `NobodyIsEverLeft` | `Spec => []NobodyIsLeft` |
| `OutputIsAlwaysComplete` | `Spec => []OutputIsComplete` |
| `Implements` | `Spec => ImplementsCall` |

The argument. `IInv` ties the child's state to the caller's place (`CallerOK`: there
from the fork on, reaped when the last drain begins) and says who is in the group
(`GroupOK`): the child as soon as either `setpgid` was called in time, which the
parent's call settles before the loop begins, since the child's own comes before its
`exec`; the helper because it inherits it. So the kill, sent once, leaves no
member running. `OutputOK` adds that the capture is what was read while there was
room, and that after the last drain nothing of the program is unread; it is
inductive relative to `IInv`. For the refinement, `StatusOK` says that `waitpid`
stores the status the child ended with, and that a kill happens only when the clock
or the user says so.

`TestRunner_proofs`, for every non-empty set of workers and every set of suites:

| Theorem | States |
|---|---|
| `Invariance` | `Spec => []IInv` |
| `EachTestOnceAlways` | `Spec => []EachTestOnce` |
| `ExitIsAlwaysTrue` | `Spec => []ExitIsTruth` |
| `PassAlwaysEarned` | `Spec => []PassIsEarned` |

The argument. None of the properties is inductive: the exit status is written long
after the results it speaks of. `WorkersInv` says where the indices are: each index
below the counter is with one worker, and what that worker has of its file fits the
place it is at (`Underway`: after the functions exactly as many results as
functions, before a fix the one result it may replace). `ResultsInv` adds that no
index is lost: one below the counter is with a worker or has its results, which are
complete or hold a failure, unless the user interrupted. A worker that is gone without
an interrupt saw an index beyond the list; so when all are gone the counter has
passed every file, and no worker holds one: all are in the results. That step
needs a worker to exist (`WorkerAssumption`). That a pass is earned is kept in the type
of the results (`Verdicts`); each way of judging is a lemma, and each uses that a
call's result is one that `ProcessCall` promises, a start that failed among them.

`Monomorphize_proofs`, for every set of templates, of programs over them and for both
limits:

| Theorem | States |
|---|---|
| `Invariance` | `Spec => []IInv` |
| `OneCloneAlways` | `Spec => []OneClone` |
| `ParentsAlwaysCall` | `Spec => []ParentsCall` |
| `CallsAlwaysLead` | `Spec => []CallsLeadToClones` |
| `RefusalAlwaysEarned` | `Spec => []RefusalIsEarned` |
| `AskedAlways` | `Spec => []AskedInv` |
| `ImplementsInstancesAlways` | `Spec => ImplementsInstances` |

The argument. `CallsLeadToClones` speaks of the end; the invariant says what must hold
on the way. The sites in the cache are those of calls visited (`SitesKnown`), and a
call being visited has none yet, so that no rewritten site can be taken back.
Each visited call is a site of the entry its types ask for (`CallsPlaced`) and of no
other (`SitesApart`). The pairs in `target` are exactly the rewritten sites
(`TargetInv`). While a round has done no work the cache has not grown, so what each
drain has passed is settled: it has no sites, or is drained with all of them
rewritten (`SettledInv`); when all four have passed, all is. `ParentInv` needs that
the index never passes an entry whose clone is being checked.

`RefusalIsEarned` speaks of the `Depth` of an entry, a function that recurs along
`parent`. It exists because a parent is an entry made earlier (`AlongCache`: what
passes from all earlier entries to an entry is true of all), and an entry of depth
`m` has a chain of `m` parents (`DeepChain`), each asked for by the one above:
`ParentsCall` makes that a chain of calls in the program. So a limit that was reached
was reached by the program and not by the bookkeeping. The refinement to `Instances`
needs that nothing is cloned which nobody asks for (`AskedInv`: each site is the place
of a call, what is being cloned is asked for by other code, each entry is called by
ordinary code, a clone, or the one being checked). `FinishClone` is `Make`,
`StopDraining` is `Finish`, `RejectClone` is `Reject`, and `RaiseLimit` is `GiveUp`,
allowed because the cache is no longer than the set of what is asked for; all other
steps stutter.

`HashCollections_proofs`, for every set of keys, every hash, every first number of
buckets that is a power of two up to 2^31 (`FirstAssumption`), any number of maps and
sets, and keys that equal themselves (`Odd = {}`):

| Theorem | States |
|---|---|
| `Invariance` | `Spec => []IInv` |
| `IndexIsSoundAlways` | `Spec => []IndexIsSound` |
| `IndexOfIsPositionAlways` | `Spec => []IndexOfIsPosition` |
| `IsAcceleratorAlways` | `Spec => IsAccelerator`: the index is an accelerator of `ScanMap` |

`Odd = {}` is what the theorems need of the keys: with a NaN among them the
properties are false, which is what the run `hash_nan` shows. The argument. An open
addressing index is right when two things hold. From the bucket a key hashes to,
walking up with wrap-around, its own bucket comes before the first EMPTY one
(`Leads`); and the load limit leaves at least one EMPTY bucket, so a search for a key
that is not there ends (`Indexing`). An insertion takes the first EMPTY or DELETED
bucket of that walk and empties none; a removal leaves DELETED, which stops no walk, and the
last entry takes the gap: its bucket is looked up by its key and retargeted
(`Forgotten`: `Dropped`, then `Moved`), which is where a NaN would be missed. Growing and
copying fill a fresh index by a loop; the models of the loops are recursive functions,
shown to exist by `Iteration` and followed by `Along`, as for the sequences. What
wrap-around needs of arithmetic is a handful of lemmas on `%`. For the refinement the
entries are what `ScanMap` calls pairs, put, add, remove and copy are its actions, and
adding what is there or removing what is not stutters.

`Imports_proofs`, for every set of files, programs and preludes and every set of
threads:

| Theorem | States |
|---|---|
| `Invariance` | `Spec => []IInv` |
| `TypeCorrect` | `Spec => []TypeOK` |
| `OneAtATimeAlways` | `Spec => []OneAtATime` |
| `NoBodyTwiceAlways` | `Spec => []NoBodyTwice` |
| `EveryBodyOnceAlways` | `Spec => []EveryBodyOnce` |

The argument. Half of the invariant is the lock's (`OwnerInv`): who owns it has an
analysis under way and nobody else has; as many states are put aside as the
owner has tasks interrupted; a compile of `turfc` lies below all analyses, and when
there is one no other thread is in the game. The other half (`PairInv`) pairs each
compile, the running one with the task on top and each one put aside with the task it
belongs to: its import stack is the files of the task's calls, no file is on it twice
or counts as parsed, what the calls have gathered counts as parsed, each file once
and in one call only. Leaving a file moves its declarations from its call to its
importer's and the file from the stack to those parsed, in one step, which is why
that stays so. An analysis begins with a fresh pair on top and leaves the others
alone, and `Return` needs exactly the pair it puts back. The entry file is no call
on the stack, so its own claim (`FinishPrelude`) must find it not yet parsed.
`NoBodyTwice` is the part of `EveryBodyOnce` that holds at every moment. The rest speaks
of a compile that ends without an error, so the invariant says more of each compile
as long as it has recorded none (`Settled`): what counts as parsed was gathered by some
call (`Gathered`) and is reached from the program or its prelude (`Sought`); what counts
as parsed has all its imports parsed, but for the entry file while its own statements
are gone through (`Complete`); each statement a call has behind it names a file parsed
(`Progress`), and each file in the middle of being parsed is the one its importer's
statement names (`Awaited`). At the end the parsed files hold the roots and what they
import, and so hold all that is reached, which is the least such set. That there is no
circle is `Ordered`: of any set of parsed modules one imports none of the others - the
one that was parsed first, for its imports were parsed when it was and it was not. A
circle would be a set without such a module. A statement that names a file on
the stack is an error, and ends all these claims for that compile. `Settled` holds of the
compiles put aside too, whose error may be about to be added when they return. An
analysis that drops its prelude has recorded the error before, so of it only the pairing
is claimed; that gathers less, and what counts as parsed stays.

`TurfSequences_proofs`, for every set of elements, every ranking, every first
capacity greater than 0, every set of collections and every bound on their lengths:

| Theorem | States |
|---|---|
| `Invariance` | `Spec => []Inv` |
| `TypeCorrect` | `Spec => []TypeOK` |
| `BufferAlwaysHoldsItems` | `Spec => []BufferHoldsItems` |
| `SpaceIsAlwaysReused` | `Spec => SpaceIsReused` |
| `SearchAlwaysFinds` | `Spec => []SearchFinds` |
| `Implements` | `Spec => IsPlainSequence` |

The argument. `Inv` says of each header that its live cells were written and lie in
the buffer, that only a queue's head leaves 0, and that its capacity is one doubling
gives (`Caps`, the least set with 0 that doubling keeps). The last part is needed for
`SpaceIsReused` under `copy`, which replaces one header by another: a copy is filled
from empty, so it is `Tight` - no smaller capacity would hold it - and between a
capacity and its double there is none (`CapsApart`), so a copy with a larger
capacity than the collection it replaces has more elements than that one could hold.
The loops of the code are functions a `LET` defines by recursion. That such a function
exists is shown each time: by `Iteration` for the loops that count up (compaction, the
passes of the sort, copying), by the size of the range for the binary search; what it
returns then follows by induction along the loop (`Along`, `Upwards`; induction over
the naturals stated for sets, from the library's theorem that `<` is well founded).
Compaction: after `i` steps the first `i` cells hold the first `i` live elements and
no other cell has changed, and step `i` reads a cell beyond `i` because head is
greater than 0. Sort: after pass `i` there is a rearrangement of the cells, the
identity beyond `i`, under which the first `i` ascend and equal ranks keep their order
(`Arranges`). Search: what `find` answers of a range is right for that range, as both
halves it may go on with are shorter.

Only model-checked: the liveness properties `CollectionEnds`, `PassesEnd`,
`CallReturns`, `RunEnds`, `DrainsEnd` and `LoadEnds` (liveness and `ENABLED` are beyond TLAPS);
`SameAsAlone`, whose reference is a `RECURSIVE` function; that the flow passes are
sound for execution (`ReadsAreAssigned`, `DereferencesAreChecked`, `FallingOffIsSeen`,
`DeferredRunsAgree`), which rests on `CFGBuilder`, whose visitors recur over the
tree (TLAPS takes no `RECURSIVE` operator); and that `buildCFG` makes graphs the theorems
on the passes speak of (`GraphsAssumption`), for the same reason.

## 6. Where the code disagrees with its documents

* `gc_zero` - a block of size 0 contains no address, its own start included, so
  no root protects it and a collection frees it while the program holds it. A
  `List` of an empty struct allocates such a buffer and hands its address to
  `gc_realloc` later.
* `hash_nan` - `remove` looks the bucket of the moved key up by equality; a NaN
  is never found, so its bucket keeps its old index and later answers for
  another key: `index_of` and `contains` report a key that was removed.
* `flow_faults`, `ComparesNull` - every statement's true side goes on to the rest of its block,
  so `compare p != null { matches true: ...; matches false: use(p.val); }`
  has `p` proven in both arms.
* `flow_faults`, `GuardsByNull` - the fail edge of a header with a guard is read as a false guard,
  but is also taken when the pattern does not match and the guard never ran.
* `flow_faults`, `DefersUse` - a deferred statement is never visited by the nullability pass:
  `defer use(p.val);` with a `p` nobody checked is accepted.
* `flow_faults`, `DefersAssign` - a deferred assignment counts where it is registered
  (`Analysis.cpp:171-174` says so), so `mut x: int; defer x = 1; return x;` is accepted
  although `docs/reference/variables_and_types.md` says that no read sees a value nothing
  assigned.

Read and not run: an expression statement `p != null;` narrows `p` for the rest of
its block, by the same line as the first of `flow_faults`; the threshold after a collection is twice
the bytes live and is compared with the bytes allocated since, so two live sets
of new allocation pass where the comment above it (`turfrt_gc.c:1411-1413`) says
about one.

In the test runner: a process that
cannot be started gives status 127 (`TestRunner.cpp:101`, `:123`, `:137`), and 127 is
neither 0 nor at least 128, so a `fail_*.tr` without EXPECT markers passes although
the compiler never ran (`:731-744`; a runtime abort test likewise, `:714`);
`docs/guides/testing.md:412-413` says that such a test passes "when it fails to
compile (a compiler crash does not count)". `PassIsEarned` names this exception and no
other; without it TLC finds the property violated by a `fail_*.tr` whose compiler was
not started. And `Drain` never looks at the clock (section 4), so the timeout that
`TestRunner.cpp:91-95` describe does not reach a program that prints faster than it is
read; `CallReturns` without `CatchesUp` is violated by that.

In monomorphization, read and not run: `drainStructRequests` records the instances a
struct's fields name with no parent, so a struct whose field names an ever larger
instance of itself is not stopped by the depth limit of 64 but by the total of
4096, and the chain printed has one entry, although `Monomorphize.h` has -1 for
what "ordinary code" asks for; and the comment of `forgetSite` says "An entry left
with no sites still gets its clone", where every drain skips an entry whose
`Sites` are empty (`Monomorphize.cpp:857`). `RunProcess`'s last `killpg` comes after
the child was reaped, when its number may in principle belong to another group.

In module loading. A loop that leads through the entry file is accepted
(`ClaimEntryFileImportSlot` makes the entry file a module like any other, and
`tests/22_prelude/entry_file_reimported_transitively.tr` relies on it), although
`docs/reference/functions_and_modules.md:948` says that a loop is rejected with E019;
`EveryBodyOnce` therefore speaks of loops among the other files. A module imported
successfully by one that later fails counts as parsed while its block is destroyed, so a
later import of it gets an empty body (`ParserModule.cpp:405-408`, `:625`); the
compile has failed by then. `ParseModuleImportByName` takes an import that added no
diagnostic for a file that is not there ("Only an unreadable file (no diagnostic
recorded) is reported as not found"), but `DiagnosticEngine::add` drops an error on a
line number that has one, so the second import of a broken file, and in the main
pass already the first, gets a false E027 (`tests/DIAGNOSTIC_GAPS.txt:91-94` counts
two errors for such programs); an analysis, which wants all errors, does not. And
a prelude module that does not parse in an editor's buffer ends the process
(`report_fatal_error` in `ParsePreludeImports`, also for the files the prelude reaches),
although `AnalysisFacade.cpp:311-313` and `:343-349` say that a failure must be a
diagnostic and not the end of the process. The model does what the code does;
`SameAsAlone` does not ask for it, so code that followed the comment would satisfy the
property too.

## 7. What is not modelled, and why

* Mark statistics, `TURF_GC_VALIDATE`'s second pass, the log: they change
  nothing the program sees.
* Finding the bounds of the stack and which registers the ABI saves: facts about
  the compiler's output, external to these models (`Local` is what is scanned).
* The value-range, alias, escape, liveness, recursion and complexity passes: they
  read the graph modelled here and are left for later, and so are the region graphs
  (`buildRegionCFG`) some of them build.
* In the flow modules: reads inside the right side of an assignment, more than
  one `recover` block to a statement, bindings of patterns, the exemption of
  fixed-size arrays, the `switch` and `strcmp` lowerings of a `compare` over plain
  constants (the same tests in another order).
* Lexer, parser, resolver, type checker (but its check of deferred
  dereferences), code generator (but its lowering of control flow), formatter,
  diagnostics: functions over syntax trees, whose correctness is about data TLC
  cannot enumerate to any use.
* In the test runner: the Windows implementation of `RunProcess` (job objects), the
  discovery and filtering of tests, the reading of EXPECT markers and of the
  manifest (met or not met, readable or not), the diagnostic register, printing.
* In monomorphization: templates with several type parameters, operators, names of
  clones and the hash of the cache, and the errors that report a bug of the
  compiler (a declaration not found, a clone that does not resolve); the layout
  check of struct clones.
* In module loading: the search for a module's candidates and its ambiguity, package
  graphs, the identity of two spellings of one path, unsafe module pragmas.
* In the analysis facade: the passes after parsing, cancellation, the index of
  positions and the queries on a result: one function of the tree each.
* Standard library over the OS: each call is one system call.

## 8. Plan

Done: the collector and its table (models, refinements, proofs), the collections (sequences, maps and
sets, with all their proofs), the flow analysis (graph, two passes, execution) and the theorems that
its sweeps judge at a fixpoint and that this fixpoint and their verdict are exact, the
test runner (`RunProcess` with its proofs and refinement, the pool over it with its
own), monomorphization with its proofs and refinement, and module loading with nested and
concurrent analyses, with its safety proofs.

Next, in this order:

1. The rest of the analysis facade: cancellation, and the passes after parsing.
2. As space allows: the escape pass on the same graph, `Pool` of `mem.tr` with failing `realloc`, comparators that change the
   list being sorted.
