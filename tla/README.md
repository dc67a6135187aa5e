# Verification of HelloNDK

HelloNDK is an Android application around the NDK: one activity, four native
libraries, and Dobby, the inline-hooking engine two of the libraries are linked
with. This directory holds TLA+ models of the parts that carry state, run
concurrently or write code, TLC configurations for small instances of them, and
TLAPS proofs. Paths below are relative to `src/app/src/main/`; Dobby is
`cpp/Dobby/`.

## 1. Inventory

### Worker threads: `cpp/threads-lib.cpp`, driven by `MainActivity.java`

* State: one global mutex, the global reference `gObj`, the method id
  `gOnNativeMessage`, and a `NativeWorkerArgs` per press of the start button.
* Operations: `nativeInit` (onCreate), `nativeFree` (onDestroy), `posixThreads`
  and `javaThreads` (onClick), the coordinator `startThreads`, the POSIX workers
  `nativeWorkerThread`, and `nativeWorker`, which both kinds of worker run.
* Interaction: the mutex is a baton. The coordinator locks it, writes the shared
  `args->id` and creates worker i; worker i, another thread, unlocks it.
* Hard: the hand-over between threads, threads that outlive the activity, two
  activities at once (a relaunch), and every call that may fail half-way.
* Correct when: one worker runs at a time, every worker reads its own id, nobody
  reads deleted arguments or calls back through a dead reference, and sessions end.

### Interceptor and routing: `source/Interceptor.cpp`, `source/InterceptRouting/`

* State: the list of `HookEntry`, the hooked code itself, the caller's
  `origin_call` pointers, the near-branch plugin.
* Operations: `DobbyHook`, `DobbyInstrument`, `DobbyDestroy`,
  `dobby_enable_near_branch_trampoline`, `dobby_disable_near_branch_trampoline`.
* Interaction: a hook asks for a trampoline, relocates the words it will
  overwrite into memory of the arena, enters the list, sets `origin_call` and
  patches the code (`CodePatch`), which other threads may be executing.
* Hard: patches of several words under running threads, hooks on top of hooks
  with trampolines of different lengths, pages, and order of removal.
* Correct when: a call runs all hooks of an address, newest first, then the
  original; destroying restores the code; relocated code stays usable.

### ARM64 code: `trampoline-arm64.cc`, `codegen-arm64.cc`, `ARM64InstructionRelocation.cc`

* No state of its own; input is code, output is code that must do the same at
  another address. Correct when running the copy is running the original.

### ARM and Thumb code: `ARMInstructionRelocation.cc`, `trampoline-arm.cc`

* State: the cursor in the function, the code emitted so far, labels to be linked
  and the map from old to new addresses.
* Hard: two and four byte instructions, loads whose base is rounded down to four,
  functions that start between two words, bit 0 of an address as processor state.
* Correct when: the copy runs as the function did, in the right state, and goes on
  in the rest of it.

### Closure bridge: `source/TrampolineBridge/ClosureTrampolineBridge/`

* State: the registers and the stack of the instrumented program.
* Operations: the generated trampolines and bridges of arm64, arm, x64 and x86,
  and the dispatch to the handler of `DobbyInstrument`.
* Interaction: a handler reads and changes the saved registers, and may itself run
  instrumented code, which enters the same bridge again.
* Hard: offsets counted out by hand, stack alignment, slots below the stack pointer.
* Correct when: the handler sees the program's registers, the program goes on with
  them in its own relocated code, and its stack is not touched.

### Assembler and code builder: `source/core/modules/assembler/`, `AssemblyCodeBuilder.cc`, `external/xnucxx/`

* State: a code buffer that moves when it grows, the labels with the lists of
  their loads, the relocation entries, the finished code.
* Operations: emit, load a label, bind a label, `RelocBind`,
  `FinalizeFromTurboAssembler`, `FinalizeFromAddress`.
* Hard: growth between the load of a label and its binding; malloc that fails.
* Correct when: what is in memory is what was asked for, each load reaching its
  data, and finished code is not written over.

### Memory: `MemoryArena.cc`, `NearMemoryArena.cc`

* State: lists of pages with a cursor; the memory layout of the process.
* Operations: `AllocateCodeChunk` and `AllocateDataChunk` of both arenas.
* Hard: page boundaries, both ends of the address space, exhaustion, mapping at a
  fixed address, the loop over `search_once_more`.
* Correct when: chunks are disjoint, stay in a page, are within reach, nothing
  that is mapped is replaced, and allocation returns.

### Script hooks: `cpp/hook-lib.cpp`, `cpp/hooklegend-lib.cpp`

* State: files on the device, open descriptors, whether the hook is installed.
* Operations: `JNI_OnLoad`/`Hook`, the replacement of the game's script loader,
  `saveFile`.
* Hard: several loading threads, a crash in the middle of a dump, descriptors
  that run out, calls that fail.
* Correct when: the game gets exactly one script per load, and a dump is complete
  and written once.

### Not modelled

`PROJECT.json` lists each part with its reason.

* No state and no order of calls to get wrong: the JNI demonstrations of
  `native-lib.cpp`, the encoders of single instructions, logging, the instruction
  cache tools, the parsing of `/proc/self/maps` as text, the symbol resolvers (one
  pass over the tables of a mapped file).
* Tables: the x86 decoder, and with it x86/x64 relocation, whose control is "as
  long as the table says". The x86 and x64 bridges are modelled.
* Not in the Android build, or switched off in it: function wrapping, Darwin and
  Windows code, the linker and event plugins. The XNU headers under
  `SupervisorCallMonitor` belong here; the directory has 35 000 lines.
* Unused by the build: wrappers of pthread, branches to a `Label`. `bind`
  (`assembler-arm64.cc:34`) follows a chain of such branches without sign
  extension, and `ldr` of a bound label (`assembler-arm64.h:534`) puts a byte offset
  into a field of words; no client calls either.
* Below the level of the models: the bytes of a message (`threads-lib.cpp:70`, 26
  bytes for two numbers); a request for more than a page (`MemoryArena.cc:30`),
  which no client makes (`BuilderUsesArena`); the search for zero bytes
  (`NearMemoryArena.cc:149`), which reads beyond the buffer it looks through; the
  deleted near-branch plugin that stays in the plugins array
  (`RoutingPlugin.cc:7`); ids of entries, given twice after a `DobbyDestroy` and
  used only in log lines.

## 2. Modules

| Module | Models | State and actions |
|---|---|---|
| `NativeWorkers` | `threads-lib.cpp`, `MainActivity.java` | program counters of the UI thread, coordinators and workers; an action per step between two points where another thread can act |
| `WorkerTurns` | what the baton promises | the worker whose turn it is, the workers started |
| `Arm64Code` | trampolines and relocation | operators from instruction words to instruction words |
| `HookEngine` | interceptor, routing, `CodePatch`, plugin | the image word by word, entries, list, `origin_call`; one action per public operation and one per patched word |
| `HookCalls` | what a call of hooked code runs | `Walk` executes the words of the state, `Expected` says what should run |
| `HookThreads` | threads inside hooked code | composes `HookEngine` with threads that execute one word per step |
| `Program` | a function before it is hooked | ARM64 as far as relocation tells instructions apart |
| `RelocatedRun` | a call through `origin_call` | executes the relocated copy and the patched image; refines `Program` |
| `MemoryArena` | `MemoryArena.cc` | pages with cursors, chunks handed out |
| `NearMemoryArena` | `NearMemoryArena.cc`, memory layout | address space by pages, page list, chunks, the request under way |
| `LuaHook` | both script hooks | dump files, descriptors, program counter of each loading thread, crashes |
| `ClosureBridge` | closure trampolines and bridges, four architectures | registers, stack and nesting; one instruction of the generated code per step, the handler's changes and its nested instrumentation |
| `CodeBuilder` | assembler, labels, buffers, arrays, code builder | extends `MemoryArena`; buffer, lists of loads, labels, relocation entries, memory; one action per call of the assembler or builder, and per failure of malloc |
| `AssemblyText` | what assembler and builder promise | the text asked for, the code stored; `CodeBuilder` refines it |
| `ArmRelocation` | ARM and Thumb relocation | first the relocation, one instruction per step, then the processor on the copy; refines `ArmProgram` |
| `ArmProgram` | an ARM or Thumb function before it is hooked | |
| `MC...` | | values of constants for TLC |
| `...Proofs` | | theorems and proofs |

The libraries `hook-lib` and `hooklegend-lib` have the same loader, the second
with a filter on the name (`Dumped`), so one module stands for both. Definitions
that begin with "Mutant" or "Fault" in their comment are wrong versions of the
definition after them; `PROJECT.json` names the property each one breaks.

Abstractions. Message texts, paths and formatting are left out: a script name is
its file and whether it begins with a slash. An instruction is its class and the
address it refers to; tbz, cbz and b.cond are one class, and movz/movk one word.
The lists of xnucxx are sequences, except in `CodeBuilder`, where their growth
matters. What is not under `src/` (the processor, the
kernel, the VM) is modelled by what the code uses of it and marked external.

## 3. Runs

| Run | Module | Shows |
|---|---|---|
| `session_ends` | `NativeWorkers` | two competing sessions and failing calls: exclusion, hand-over of ids, lifetime of the arguments, `WorkerTurns` implemented, and every session ends unless a baton is lost |
| `callbacks` | `NativeWorkers` | with two activities, callbacks go to a live reference until the first activity is destroyed |
| `stacked_hooks` | `HookCalls` | trampolines of one, three and four words stacked, destroyed and failing: removal restores, the newest entry has control, calls run hooks newest first and then the original whenever no patch is half done, relocated code stays good; a patch that reaches into the next page stops there (`FaultsAtPageEnd`) |
| `threads_in_code` | `HookThreads` | with one-word trampolines a thread may be stopped anywhere, and hooks may be on adjacent words |
| `relocated_code` | `RelocatedRun` | the ARM64 copy takes only steps of the original function (`RunsOriginal`) and stops only where it ends (`KeepsRunning`), for 1728 heads and three trampolines |
| `arm_relocation` | `ArmRelocation` | the same for Thumb functions that start on or between two words, and for ARM functions without branches, made of the classes named under Bounds |
| `bridged_calls` | `ClosureBridge` | what the handler sees, what the program resumes with, and stack alignment, for five builds and every stack offset, nested |
| `built_code` | `CodeBuilder` | chunks are disjoint and in one page, loads reach their data, the code in memory is the text asked for |
| `near_reach` | `NearMemoryArena` | the search goes step by step through list, zeros, first, last, left and right; chunks are within reach, across the ends of the address space too; the allocation returns |
| `script_loads` | `LuaHook` | a load that returns has given the game exactly one script, concurrent dumps are complete, a complete dump is never touched |

Two runs show disagreements between the code and what it says of itself:

* `near_clobbers`: `search_near_blank_page` maps a page it has not looked up, with
  MAP_FIXED, over whatever is mapped there, whenever the last region lies beyond
  the range.
* `crash_in_dump`: a crash in `saveFile` leaves an empty file that counts as saved
  for ever ("has saved").

### Limits of what holds

The properties hold within the constants of their runs and the assumptions of
their theorems. The models also reach the cases outside, and there TLC finds
counterexamples; changing the named constant shows them, once the `ASSUME` of the
MC module that rules the case out (`CallsAssumption`, `ThreadsAssumption`) is taken
out.

| Change | What then happens |
|---|---|
| `HCstack.cfg`: `Reuse = TRUE` | replacements A, B, A on one address are accepted and form a cycle that never reaches the original |
| `HCstack.cfg`: `Sites = {1, 2}` | sites closer than a trampoline overwrite each other; without `Spaced` the theorems fail |
| `MCHookCalls`: the branch of `JumpImage` goes to word 6 | it lands inside a trampoline: calls no longer run what `Expected` says; without `NoBranchInside` the theorems about calls fail |
| `HTnear.cfg`: `NearAtStart = FALSE`, `Sites = {0}`, `PageWords = 8` | a thread inside the words of a longer trampoline goes astray |
| `RRclean.cfg`: `Images <- WideImages` | a 32 bit literal load becomes one of 64 bits (the assembler has no other), which violates `RunsOriginal` when the word behind the literal is not zero |
| `NMfixed.cfg`: `Layouts <- Gaps` | the end of a region is aligned, so `next_page` of it is not the page behind it but the one after that; if the gap is a single page, the search maps its page over the region behind the gap, which violates `OnlyBlankPages` |
| `LHsaved.cfg`: `MaxCrashes = 0`, `Failures = {"write"}` | the result of `fwrite` is not looked at: a short dump counts as saved, without any crash, which violates `SavedIsSaved` |
| `RRclean.cfg`: `Images <- SimdImages` | a literal load into a SIMD register becomes one into a general register, which violates `RunsOriginal` |
| `RRclean.cfg`: `Images <- LoopImages` | a branch into the overwritten words is accepted (the check for it is compiled out), and the copy violates `KeepsRunning`: it runs into the words of the trampoline |

The properties of calls (`HookCalls`) say nothing of addresses whose hooks are not
`Even`. There, two literal-load trampolines on one address make the copy of the
first read its target from words the second has replaced; a longer trampoline over
a shorter one makes the older copy jump into the middle of the newer trampoline;
and a one-word trampoline over a three-word one relocates code in the middle of
which x17 is live. `NoHookNoPatch` and `NewestHasControl` hold there too.

`ClosureBridge` leaves out of its properties what the bridges do not keep (`Used` and
the registers that are no fields): on arm64 the context shows the bridge's address in
x17 and the trampoline's in x30, and on arm, in r12, what the trampoline has put there;
q8 to q31 are kept only in the full build, SIMD registers not at all on arm and
x64; arm and arm64 never save the flags, and x86 saves them after a `sub` and
restores them before an `add` that change them.

`StackOfProgramKept` and its theorem take what is below the interrupted stack pointer
for free. On x64 that is not so: a leaf function may keep 128 bytes there (the red
zone of its calling convention), and the first push of the trampoline overwrites them
when such a function is instrumented in its middle. At the start of a function, where
nothing has been put there, the property says all there is to say.

`ArmRelocation` promises nothing where there is no chunk for the copy (`NoChunk`):
`relocated` then keeps its old range. It models the following classes, and the
functions of its run leave them out because their copy is not the original: ARM b, bl and conditional branches, ARM adr
with immediates of 256 and more, Thumb adr and cbz, Thumb branches backwards or far
forwards, Thumb2 conditional branches and adr, branches into the overwritten
instructions, literals among them, ldr.w into pc or with an unaligned offset, and bx
pc. Conditional ARM loads and byte loads are not in the model.

`CodeBuilder` promises nothing after a failed malloc: no caller of `ensureCapacity`
looks at its result, and the next word is written behind the block.

In `NativeWorkers` a worker that cannot attach keeps the mutex, and the sessions
that wait for it never end: `EverySessionEnds` names this as its exception. After
the destruction of one of two activities the other has a destroyed mutex and no
reference; `CallsAreGood` ends there. In `LuaHook` the modified file is never
closed, so after `MaxFds` loads the original script is loaded again;
`OneScriptPerLoad` still holds.

### Bounds

* Workers: two sessions, two activities, two threads, one or two iterations. Two
  sessions compete for the baton, two workers share an `id`; a third of each adds
  no new kind of pair. The proofs cover all numbers.
* Hooks: up to three sites, two replacements, one handler, at most three entries
  (`MaxHooks`). Three entries allow a hook below and above the one destroyed and
  a re-hook; an image of 13 words holds three full trampolines, with a branch from
  the first site to the second and a word that cannot be relocated. `PageWords` is small where the patch has to meet a page boundary.
  `Fuel` bounds a walk by the words of the image and the cost of each hook; the
  proof of `CallsRunHooks` shows that every walk ends within it.
* ARM64 relocation: the first three words range over all classes but SIMD literals and
  over targets after the patch, at the start of data and at the return; literals have 32
  or 64 bits, a 32 bit one with zeros behind it.
* ARM relocation: all functions of ten Thumb classes over eight bytes from an
  aligned and over ten bytes from an unaligned start (`Straight`: seven classes that
  do not leave the function), and of six ARM loads and
  addresses. The part after the trampoline is one place, where the run ends.
* Bridges: two instrumented addresses, a handler that runs instrumented code once
  (`MaxDepth`), 0 to 3 slots of its own in between (`Pads`), so that every
  alignment occurs; `StackSlots` holds a share of `Largest` (100) slots and a pad for
  each, more than the context of the largest build takes. The proofs cover all numbers.
* Builder: two labels, one buffer of three words and arrays of one element that
  grow by two, so that both move in the middle of a text of up to six words; two
  chunks in two pages of eight words, sizes from a word to a whole page.
* Near arena: pages of eight words, ten pages of address space, a range of four
  pages, two chunks. Positions 3 and 79 are less than the range apart across the ends
  of the address space, so pages mapped for one serve the other.
* Scripts: two threads, four names, two descriptors, four loads
  per life, one crash. Two spellings make two names one file.

`CHECK_DEADLOCK FALSE` is set in all runs but `bridged_calls`: a process that has
ended, a function that has returned and a bounded number of calls all stop
legitimately. Instrumented code can always run again.

### Fairness

`NativeWorkers!FairSpec` has weak fairness for each step of a coordinator, POSIX
worker or Java worker, and of the UI thread inside a native method, because the kernel schedules runnable threads; a thread
waiting in `pthread_mutex_lock` or `pthread_join` is not runnable, and no fairness
is assumed of the user or the activity lifecycle. `NearMemoryArena` has weak
fairness of the one thread inside `AllocateChunk`. `RelocatedRun`, `ArmRelocation`
and their abstract specifications have weak fairness of the processor. The other specifications are safety only.

## 4. Proofs

All theorems hold for every value of the constants that satisfies the named
assumptions.

* `NativeWorkersProofs`: `TypeCorrect`, `MutualExclusion` (`Baton`),
  `IdsHandedOver`, `NoReadAfterDelete`, `GoodCalls` (`CallsAreGood`),
  `WorkersTakeTurns` (refinement). The type invariant is strengthened by the
  bounds of the loop counters. `Baton` counts the coordinators in "create" and the
  busy workers against the mutex. Ids and arguments need more: which workers exist
  (`Created`), that the arguments are live while a coordinator may still create or
  join (`HeapLive`), that no worker is before its read once the coordinator leaves
  (`NoReaderLeft`), and that no exception is pending inside its loops
  (`CleanLoops`). `GoodCalls` has an invariant of its own, `GoodInv`: while no
  activity is gone and neither `NewGlobalRef` nor `pthread_join` fails, `gObj` is
  null or a live reference, every thread that may still call back runs after
  `nativeInit` has set it, and what a thread has read of it is what it still is.
  The refinement assumes that `nativeInit` never re-initialises a locked mutex
  (`[](~rearmed)`), which the relaunch can do.
* `HookEngineProofs`, first section: `EngineTypeCorrect`, `DestroyRestores` (`NoHookNoPatch`),
  `NewestHookRuns` (`NewestHasControl`), `PatchFaultsAtPageEnd` (`FaultsAtPageEnd`),
  all under `Spaced`: two sites are at least a trampoline apart. Without it they
  are false. The invariant says of each word of a site which entry last wrote it
  (`SiteInv`): the newest entry that covers it, except for the words the patch
  under way has already changed; of words outside all sites that they are original
  (`ElsewhereInv`); and of the words saved in an entry that they are what the
  next older entry covering them wrote, or the original (`SavedInv`). This chain
  of saved words is what makes removal restore the words of an entry whose
  trampoline is longer or shorter than the one above it. `PatchFaultsAtPageEnd` makes
  no assumption on pages: it says that a fault happens only in `Commit`, only when the
  trampoline crosses a page, and after exactly the words of the first page. To `IInv`
  it adds that an entry in place has all its words in one page, because it was committed
  without a fault (`PageInv`); hence no restore faults.
* `HookEngineProofs`, second section: `CallsComplete` (`EveryCallCompletes` of `HookThreads`),
  for code of any length, any number of hooks and of threads, under `AllNear` (near trampolines from the
  start, never switched off, and always built) and `Forward` (the code has no
  branch backwards). The invariant `TInv` has two parts. `EngineOK`: every word is
  the original or a branch to the hook of that word, and every entry has saved and
  relocated such a word, destroyed entries too, because their code stays in
  memory. `ThreadsOK`: every thread stands before some word w of the function (at
  it, in one of its hooks, in a copy of it, or half way through a two-word jump with
  x17 set; `Stands`), and what it has run followed by what a run from w would run is
  what a run from its start would run. A change under a thread keeps where it stands
  (`Grows`); a step of it moves it to a word not before w. `Originals` and `OriginalsIn`
  are recursive functions: that they exist and obey their equations is shown
  by taking the least length for which they would not (`LeastNat`).
* `HookEngineProofs`, third section: `CallsRunHooks` (`CallsRunHooksThenOriginal`) and
  `OriginCallsWork` (`OriginCallStaysGood`), for code of any length, any number of
  hooks and trampolines of all three forms, stacked as long as they are `Even`, as
  the two properties themselves say. Four hypotheses: `Spaced`; `Forward`;
  `NoBranchInside` (no branch of the code into words that a trampoline overwrites
  behind its site); and `~Reuse` (no replacement is given again while it is in use:
  without it A, B, A on one address is a cycle). The invariant `WInv` adds to `IInv`
  what `Routing` has left in each entry (`FormOK`), that the targets on the list
  differ, that their `origin_call` points to their own copy (`OriginsOK`), and where
  the copies of *destroyed* entries lead, which no code looks at again but a
  replacement may still be running: there is an order of destruction such that the
  copy of a destroyed entry is of original code, or jumps to a hook that is still
  on the list or was destroyed later (`LinksOK`). That order has no cycle, which is
  why `origin_call` of a removed hook still ends in the original function.
  A walk is followed piece by piece (a hook and its trampoline, a copied word, the
  jump back). After each piece what has run followed by what is to come is what
  was expected (`History`), and a bound on the steps left, made of the words ahead
  and the entries that may still be met (`WordCost`, `CopyCost`), has gone down by at
  least the steps taken. It is at most `Fuel` at the start, so the walk ends.
  `HTnear` checks `CallsRunHooksThenOriginal` with hooks on adjacent words too, where
  `Spaced` does not hold and the theorem says nothing.
* `RelocatedRunProofs`: `CopyRunsOriginal` (`RunsOriginal`), the refinement of
  `Program` by copy and patched function, for functions of any length, at any
  address and with each trampoline, if no jump and no literal refers to the
  overwritten words, no SIMD literal load is among them, and a 32 bit literal loaded
  there has a zero word behind it (`Relocatable`; the run's functions satisfy it). The
  last is needed because the copy loads 64 bits (`Relocate`). The invariant says where in a relocated instruction control
  may be and what x17 and the tested register then hold (`HalfDone`), and that
  neither control nor the link register points into the overwritten words.
* `ArmRelocationProofs`: `ArmTypeCorrect` (`TypeOK`: the buffer has no gaps or
  overlaps) and `ThumbWordsAligned` (`WordsAligned`) for all functions of the
  modelled classes, not only those whose copy is right. In Thumb code
  `AlignThumbNop` brings the buffer to a multiple of four before each copy and before
  the literals, and within a copy a literal follows items whose sizes add up to a multiple
  of four (`NiceList`, shown of each class of instruction). `RInv` says of the
  buffer emitted so far that items are adjacent and literals aligned (`CodeOK`).
* `CodeBuilderProofs`, in three sections. The arena: `ArenaTypeCorrect`,
  `ArenaDisjoint`, `ArenaInOnePage`. The invariant adds that pages are distinct, that
  a chunk ends at or before the cursor of its page, and that chunks of a page are
  disjoint; both ways to get a chunk are instances of one step, `Cuts`. The builder:
  `BuilderUsesArena` (every step of the builder is a step of
  the arena or leaves it alone), with which the arena's theorems carry over
  (`BuiltChunksDisjoint`, `BuiltChunksInOnePage`); `BuilderTypeCorrect` and
  `BuiltLoadsReachData`. The invariant `BInv` bounds the words of a text by
  `MaxWords` (`Budget`, so that a finished text fits a page), says that the lists
  of labels hold places of their loads only (`ListsLoads`), that loads name labels
  of this assembler (`LoadsNameLabels`), and that every load reaches its data or is
  still on the list of a label that is not bound (`AllReach`). The text:
  `BuilderStoresTheText`, the refinement of `AssemblyText`. To
  `BInv` it adds `TInv` (only bound labels have data, and a label has it once; the
  entries `RelocBind` has still to bind are different labels, none of them bound) and `SInv` (each finished piece is in
  memory at its place, pieces lie in different chunks or sites, and a site that is
  to be written holds none), and it uses the arena's invariant for the chunks.
* `ClosureBridgeProofs`: `BridgeTypeCorrect` (`TypeOK`), `ContextShown`
  (`ContextShowsProgram`), `Resumes` (`ProgramResumes`), `HandlerAligned`
  (`HandlerStackAligned`), `StackKept` (`StackOfProgramKept`), for all five builds, any
  number and nesting of instrumented addresses and any stack offset. Each
  instruction of the code is annotated with where the stack pointer is (`Off`) and
  what registers (`RegHas`) and slots (`SlotHas`) hold before it: the program's
  own register, or the entry, context, base, hop, return address or parity of the
  bridge. `AllSound` says of every instruction that what is annotated before it
  implies what is annotated after it; the code is laid out instruction by
  instruction first, with the banks of registers as ranges. `BridgeInvariant`:
  the processor keeps to the annotation of its instruction, every activation whose
  handler is running keeps to that of its call (`Suspended`), and an activation
  lies below the stack pointer of the one outside it (`Nested`), which is why
  nested instrumentation does not disturb an outer context. `AtCalls` compares the
  annotated slots with the fields of `RegisterContext`, `AtExit` the annotated
  registers with what a handler may change. Assumed is that the stack has room:
  a share of `Largest` slots and a pad for each nesting (`RoomAssumption`); the
  code does not check that either.
* `NearMemoryArenaProofs`: `NearTypeCorrect` (`TypeOK`), `NearChunksInRange`
  (`ChunksInRange`), for every page size, range, address space and layout. The
  invariant adds that the page the search tries is an aligned page of the address
  space, although its bounds are worked out with arithmetic that wraps, and that a
  page's cursor stays in the page. The distance of a page in the list is `llabs` of a
  difference that wraps (`Distance`), so it may be one across the end of the address
  space; the lemma `NearReaches` shows that a branch, which wraps as well, gets there. That a page is *free* is not part of it: the run
  `near_clobbers` shows that it need not be.
* `LuaHookProofs`: `OneScript` (`OneScriptPerLoad`), `SavedStays`
  (`SavedOnceForAll`), `LuaTypeCorrect` (`TypeOK`), `DumpsComplete`
  (`QuietDumpsComplete`). The invariant of the first adds that nothing has been
  given to the game before the last two places of the function, that a thread back at
  "free" after a load has given one, and that "replace"
  is reached only with a modified script that has text. `SavedStays` shows more
  than that the content stays: only the thread that found no file goes on to open
  it, so a settled dump is never opened for writing again. For the types,
  `Descriptors` counts the threads between open and close: there are never more
  of them than descriptors taken. `DumpsComplete` assumes that all names of a file
  are one script and that writes do not fail; its invariant is that an empty dump
  has a thread about to write it (`QuietInv`), so the truncation by a second thread
  is followed by its own write.

Assumptions: sizes and bounds are natural numbers, threads are finitely many,
sites leave room for a trampoline, `Image` is defined on all words, sizes asked of
the arena are between one word and a page, and two words to the longest text are
among them. A script's name is not empty. An ARM function has its instructions one
after the other, as many as the trampoline overwrites, and the chunk of its copy is
aligned (`ImagesAssumption`, `ArmAssumption`). TLC evaluates these, and the hypotheses `Spaced`, `Forward`, `NoBranchInside`,
`~Reuse`, `AllNear` and `Relocatable`, on the constants of the runs.

Only model-checked:

* liveness (`EverySessionEnds`, `AllocationReturns`, `KeepsRunning`), which the
  prover does not do;
* the refinement of `ArmProgram`, which also states fairness; it holds only for
  the classes listed above as copied right.

Induction over data is not available to the provers as a rule with an operator as
its parameter. Where a proof needs it, it takes the least counterexample, a number,
and derives a contradiction (`LeastNat`, `RecursExists`, `RestsExists`, `SumsExists`).

## 5. Plan

Extend `NearMemoryArena` by the search for zero bytes, and compose `HookEngine` with
`CodeBuilder`, so that a relocated copy lives in a chunk. x86 and x64 relocation
needs a model of the decoding tables first.
