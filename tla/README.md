# TLA+ models of the OS simulator

The program is a simulated computer: an assembler, a CPU with a small
instruction set, an MMU with demand paging, and an operating system (`OS.cpp`)
that schedules processes, serves their traps and pages their memory. It is one
thread, but the processes it multiplexes interleave at every trap, page fault
and end of quantum, and the order in which they meet at the queues, locks,
events, frames and the simulated disk is what no test of the repository
enumerates. That is what the models are about.

## Inventory

| Component | State | Operations | Interacts with |
|---|---|---|---|
| Main loop and scheduler (`OS::run`, `tickSleepers_`, `pickNextReady_`, `enqueueReady_`) | `ready_`, `sleeping_`, `pcb.state`, `pcb.priority`, `pcb.sleepCounter` | one turn of the loop; the traps | every other part, by calls |
| Locks | `locks_` | `AcquireLock`, `ReleaseLock`, release at exit | ready queues, clean-up |
| Events | `events_` | `WaitEvent`, `SignalEvent` | ready queues |
| Creation and clean-up (`createProcessFromAsm`, `loadProcessImage_`, `cleanupProcess_`) | `processes_`, `nextPid_` | create, exit, fault | queues, locks, frames, disk |
| Frames and LRU (`MMU`) | `physUsed`, `lruList_`, `lruPos_`, `physMem` | `allocPhysPage`, `freePhysPage`, `touchPhysPage`, `getLRUPhysPage` | paging |
| Translation (`MMU::translate`) | `pcb.pageTable`, the bounds | read, write, page fault | CPU, paging |
| Demand paging (`handlePageFault_`, `evictOnePage_`) | `physPageOwner_`, `disk_`, page tables of all processes | fault, evict | frames, heap |
| Heap (`handleAlloc_`, `handleFreeMemory_`) | `pcb.heapAllocations` | alloc, free | frames, disk, eviction |
| Shared regions (`MapSharedMem`) | `sharedPhysPages_` | map | page tables, eviction |
| CPU (`CPU.cpp`) | registers, `ip_`, `sp_`, flags, the operands of a trap | fetch, execute, retry after a fault, save and load | MMU, traps, `PCB` |
| Assembler (`PROGRAM.CPP`) | the image | parse, emit, load | MMU |
| `PhysMem` | the bytes | read, write | MMU |
| `reportStats`, tests, sample programs | | | |

`process.cpp`, `scheduler.cpp` and `scheduler.h` are empty.

What is hard: processes block and are woken in three kinds of queues by four
different handlers; a process may end at any instruction while it holds locks
and owns frames; a handler that allocates may evict pages of any process, its
own included; the state of a page is spread over its table entry, the reverse
map, the LRU list and the disk; creation may fail half way; a page fault stops an
instruction between any two of its byte accesses, and the instruction is run
again from the start; register values of 64 bits are cut to 32. `PROJECT.json` lists these hazards line by line with the
properties that cover them.

## Modules

| Module | What it is |
|---|---|
| `Scheduler` | the main loop, the ready queues, the sleep list, locks and events |
| `MCScheduler` | its instances: `MCSchedulerSafety.cfg`, `MCSchedulerLiveness.cfg` |
| `SchedulerProofs` | the theorems about it |
| `Paging` | frames, page tables, eviction, disk, heap, shared regions |
| `Memory` | what `Paging` promises: private pages and shared regions, without frames or a disk |
| `MCPaging` | instances of `Paging`: the `MCPaging*.cfg` files |
| `PagingProofs` | the theorems about it: its invariants |
| `PagingRefinement` | the theorem that `Paging` implements `Memory` |
| `Machine` | bytes, words, casts and the instruction set, for the four modules below |
| `Assembler` | one line of assembly to bytes |
| `Program` | `loadFromFile`; `MCProgram` with `MCProgram.cfg` is its instance |
| `MachineProofs`, `AssemblerProofs`, `ProgramProofs` | the theorems about words and sequences, about a line and about the image |
| `ISA` | what an assembly program means: one process, alone, all its memory there |
| `CPU` | fetch, execute, faults, retries, quantum, traps, context switches |
| `CPUMeaning` | what a process of `CPU` means in terms of `ISA`; `MCCPU` and the `MCCPU*.cfg` files are instances of both |
| `CPUProofs` | the theorems about `CPU`: its invariants |
| `CPURefinement` | the theorem that `CPU` implements `ISA` |

### Scheduler

`phase` is the program counter of the one OS thread. Outside `run()` it is
`"idle"`; a turn of the loop goes through `"tick"` (one `TickSleeper` per
iteration of `tickSleepers_`, `todo` of them left), then `Dispatch`,
`SpinForSleepers` or `Return`, and from `"cpu"` to one action per case of the
trap switch. The wake-up loop of `SignalEvent` and the lock loop of
`cleanupProcess_` have phases of their own, one action per iteration, so that an
invariant holds between two iterations as well. The variables are the members
of `OS` and `PCB` of the same names.

Abstractions. What a program computes is left open: in phase `"cpu"` any trap
may come, with any value of `Args` in r1. Traps and faults that concern memory
(`Alloc`, `FreeMemory`, `MapSharedMem`, page faults) requeue the process like
`Requeue`; their effects are in `Paging`. The `WaitingIO` state is overwritten by
`enqueueReady_` in the same case and never seen. A process is identified with
its index and its pid. `WordMod` stands for 2^32: `AsInt` and `AsUint32` are the
casts of the code.

### Paging

The contents of a page are one value. `Wire` is the tail that
`loadProcessImage_`, `handlePageFault_` and `handleAlloc_` have in common (entry,
owner, LRU). An eviction is part of the action of its caller, as in the code:
`TableAfterEviction` and `DiskAfterEviction` give the state it leaves. Creation
and allocation take one frame per step (`op` holds the loop), since an iteration
may evict what an earlier one took; nothing else runs meanwhile. Creation does
not evict: `CreateFails` is the exception out of `allocPhysPage`, after which the
frames taken belong to a pid no process has. The LRU list is the relation "not
behind". Requests are byte counts, cut and rounded up in `WordMod` as in
`handleAlloc_`. The refusals (no run of pages, unknown address, bad region)
change no memory state and are not actions.

Abstractions. Any live process may act at any time that no handler is in
progress; the scheduler only narrows that. An access is to one page: a `read32`
or `write32` across a page boundary is two accesses here and byte by byte in
`CPU`. The page tables reach to the top of the stack from the start, as
`loadProcessImage_` makes them, so the `resize` calls are left out.

`Memory` is the abstract specification. Its pages are private to a process and
its regions are shared; nothing else is left of frames, tables, owners and disk.
`PrivatePage` is the refinement mapping: the contents of the frame a process owns
for a page (a region mapped over it may hide it), else of the copy on disk, else
zeroes. With `Lossy` a page may become zeroes when it is not `kept`: when it has
not been written since it was brought in and is not on disk, or when a region has
been mapped over it, written or not (`Map` gives it up, as `mapPageInto` clears the
dirty flag). And a region may be unmapped. All of that happens in the code;
`ImplementsMemory` says that nothing else does. Two properties ask for what the
tests say instead, and are violated: `PagingInvisible` (memory without `Lossy`) and
`CoveredPageKept`.

### Machine, Assembler and Program

A byte has `ByteMod` values, a word `WordLen` bytes. A line of text is a sequence
of lexemes: a name, a register, an immediate with `#` or `@`, a bare integer, a
separator, a semicolon. `AssembleLine` is `assembleLine` with its five operand
forms; `Bad` and `Error` are its exceptions. `Program` is the loop over the
lines, which stops at the first line that throws. Two conversions meet here:
`emit32` takes words apart and `read32` puts them together, and what a register
is is decided once by `parseRegister` and once by `checkReg`; the two properties
are about these meetings.

### CPU and ISA

One call of `CPU::step` is one action, since nobody else runs during it.
`Accesses` is the sequence of addresses it goes through byte by byte: twelve (three
words) of the fetch, then those of the operands in the order the code makes them
(`callm` pushes before it reads). `RefusedAt` is the first that `translate` refuses,
and `Written`, `Sp` and `Touched` are what has been done to memory, `sp_` and the
LRU list by then. So `Execute`, `TrapToOS`, `PageFault` and `Terminate` are the four
ways a step may end: it goes through, it traps, a page is missing, an exception
ends the process. `PageFault` includes the handler: the registers are saved as
they are with `ip_` put back, the page at the end of the LRU list makes room, the
process goes to the end of the queue. `dirty` and `disk` say of each page what
`isDirty` and `disk_` do: `Dirtied` is what the accesses that were done have marked,
`Saved` what an eviction writes to the disk, and `SwappedIn` fills the page that comes
in from there, or with zeroes. It is clean then and no longer on the disk, so that a
second eviction without a write in between loses it, here as in the code.
`OutsiderFaults` is another process, not modelled, taking a frame, up to `Outsiders`
times.

`ISA` gives an instruction of the *source* its meaning in one step, on the numbers
in the text, with no bytes, no opcodes, no pages and no faults. `Meaning` of
`CPUMeaning` is the refinement mapping of the process `me`, a constant: the registers
where they are (in the CPU or in the PCB), and memory and stack pointer as the last
completed instruction has left them (`committed`, an auxiliary variable).
`RunsAsWritten` is `Spec` of `ISA` for that process. It covers assembling, decoding,
execution, retry and context switches in one statement. `MCCPU` has a second instance
of `CPUMeaning`, so that the runs ask it of both processes.

`RunsAsWritten` does not hold of every execution (below). `Tame` describes those it is
proved for, from the state alone: no blank lines, numbers that fit a word, and r1 where
a trap handler reads it (`Plain`); the code in memory is still what was loaded
(`CodeIntact`); what is decoded is an instruction of the program (`StaysInCode`); no
fault behind a push or a pop, and none in the middle of a copy onto itself
(`FaultsHarmless`); a page it faults on is on the disk or had only zeroes, so that it
gets back what was there (`FaultsRestore`).

Abstractions. All processes have one priority (the queues are `Scheduler`'s
matter). There are no shared regions and no heap pages that are freed (`Paging`'s
matter). The contents of a page on the disk stay in `mem`, where nobody reaches
them. A blocked process is woken at any time. `alloc` and `mapsharedmem` return
any of `Returns`. Registers are unbounded integers: overflow of an `int64_t`,
which is undefined, is not reached by the programs. Programs do not jump into the
middle of an instruction or write to their own code.

## Runs

| Run | Bounds | Shows |
|---|---|---|
| `scheduler_safety` | 3 processes, 2 levels with priorities 0, 1, 3, 2 locks, 1 event, r1 in -1, 0, 1, 2, 8 of an 8-valued word; 94,480 states | the six invariants and `MostUrgentRuns` |
| `scheduler_liveness` | 3 processes, 2 priorities, 1 lock, 1 event, r1 in 0, 2, 8; 30,880 states | `SleepersWake`, `UrgentProcessRuns` |
| `paging_heap` | 2 processes, 2 frames, 1 code page, 2 heap pages, requests 0, 1, 3, 5, 7, 9 with 2-byte pages and 8-valued words; 492,291 states | `FramesAccounted`, `OneHome`, `ImplementsMemory` |
| `paging_shared` | 2 processes, 3 frames, one of them shared, 1 heap page, 1 stack page under the region; 213,124 states | `FrameIsolation`, `FramesAccounted`, `AlwaysAVictim`, `ImplementsMemory` |
| `paging_create` | 2 processes, 3 frames, programs of 1 or 2 pages, 1 heap page; 320,228 states | `OwnerMapInverse`, `FramesAccounted`, `ImplementsMemory` |
| `assembler` | every line of a mnemonic and up to two of 12 operands, alone or behind another instruction, with comments; 8-valued bytes, 2-byte words; 51,745 states | `CodeMatchesSource`, `CodeDecodes` |
| `cpu_retry` | 2 processes, every pair of 11 programs, 12 frames of 8 bytes, 2 of which outsiders take at any time, quantum 3; 114,283 states | `FramesHeld`, `RunsAsWritten` of both, and that both are `Tame` |
| `cpu_switch` | 2 processes, every pair of 12 programs, frames for both, quantum 3; 13,387 states | `RunsAsWritten` of both, and that both are `Tame` |
| `cpu_finish` | 2 processes, 5 programs, 10 frames, no outsiders; 397 states | `AllFinish`, and that both are `Tame`, so that nobody is dead for another reason than its program's end |
| `paging_invisible`, `paging_covered` | the bounds of `paging_heap`; of `paging_shared` | the disagreements below |
| `push_retry` | 1 process and one program | the disagreement below |

Why the bounds are enough. Three processes are the holder of a lock, a waiter
that gets it and a waiter left behind; two locks make the clean-up loop release
more than one and let processes wait for each other in a circle; 0 and 3 are
clamped from both ends; the value 8 is 0 as a lock id and a counter of 0 as a
sleep. In `Paging` there are fewer frames than pages of one process, so an
allocation evicts its own pages; with three frames and two-page programs the
second creation fails after its first page. In `CPU` a byte has 16 values, a word two bytes, an instruction six and a page
eight, so instructions and words lie across pages, negative numbers and wrapped
addresses occur, and one copy needs six pages at once (two of its own, two to
read, two to write); the quantum of three ends between a compare and its jump.
The programs of `MCCPU` use every opcode. `cpu_retry` leaves the stack alone,
and the programs of `cpu_switch` touch their stack pages first, because pushes and
pops that fault do not run as written (below). Two evictions by outsiders hit any two
pages, or one page and then what it pushes out; with a third a page can be taken
twice, clean, and be lost, so that the processes are not tame any more (`BothTame` is
violated, and so is `RunsAsWritten`). That is the disagreement of `paging_invisible`,
and 2 is the bound up to which it does not arise with these programs and 12 frames. Symmetry permutes processes, which
neither `Scheduler` nor `Paging` compares; it is not used where liveness is checked. `Paging` runs
with `CHECK_DEADLOCK FALSE` because pids are handed out once: when all processes
have ended nothing is left to do. So do `Program` and `CPU`, where a file is
read once and processes end. `Scheduler` never deadlocks: `run()` may be called
again.

Fairness. `FairSpec` is weak fairness of the steps inside `run()`, as one
disjunction: the thread keeps running until `run()` returns. `CPU::Run` gives the
processor back after `timeQuantum` instructions and no handler waits for
anything, so the code guarantees it. Nothing is assumed about which trap a
process takes, and creation and the call of `run()` are not fair. `FairSpec` of
`CPU` is weak fairness of its steps for the same reason, and of `Wake`: the
processes of its liveness runs do not block.

### What the code does not do

- `PagingInvisible`: a page swapped in is marked clean while its disk copy is
  erased; evicted once more without a write, it comes back as zeroes
  (`OS.cpp:258`, `268`, `294`). A code page, too: opcode 0 throws, and the process is
  ended. Two processes of two pages each that share two frames end like that.
- `RunsAsWritten` in `push_retry`: a push moves `sp_` before the write that faults
  and again when it is retried (`CPU.cpp:229`, `243`, `246`).
- `CoveredPageKept` in `paging_covered`: the page under a region, written before, loses
  its dirty flag when the region is mapped (`MMU.cpp:63`) and its contents when it is
  evicted (`OS.cpp:294`).

The quotations that say otherwise are under "findings" in `PROJECT.json`.
`ImplementsMemory` holds in spite of these because `Memory` permits each of the losses
named; `RunsAsWritten` holds in the passing runs because the processes there are
`Tame`: they meet neither a push that faults nor a page that is lost.

Some more of what the models contain is weaker than one might expect, and no run
asks for more. `popm` moves `sp_` between its read and its write, so that a fault
of the write pops twice (`CPU.cpp:254`), and a copy across a page boundary onto
itself reads, when retried, what its first attempt wrote (`MMU.cpp:123`): the
programs of `cpu_retry` do neither. `sleep r4` and the lock, event and region
instructions take their operand from r1, whatever register they name
(`OS.cpp:109`): the programs name r1. A region mapped over a resident stack page
is unmapped when that page's frame is evicted (`OS.cpp:127`, `301`), and a heap
page that was evicted clean is handed out by a second allocation (`OS.cpp:442`):
`Memory` with `Lossy` permits both. Sizes are cut to 32 bits before they are
compared with the heap (`OS.cpp:422`): `PagesNeeded` has it, and request 9 is one.
An immediate that is one digit without `#` is refused (`PROGRAM.CPP:236`):
`ParseImmediate` has it; it also takes numbers beyond 64 bits, for which `std::stoll`
throws.

## Proofs

`SchedulerProofs` proves, for every number of processes, priority levels, locks
and events and every word size, that all invariants of `scheduler_safety` and
the action property `MostUrgentRuns` hold of `Spec`. The assumptions are those of
`SchedulerAssumption`: the sizes are natural numbers, at least one level, a
non-empty word, integer register values.

- `TInv` = `TypeOK` and `Control`. `TypeOK` alone is not inductive:
  `tickSleepers_` pops the front of the list as often as it was long at the
  start, which needs `todo <= Len(sleeping)`, and the wake-up loop needs an
  event id in `todo`.
- `QInv` adds `Queues`: each kind of queue agrees with the process states in both
  directions, and the running process is `cur`. `QueuedOnce` and `NobodyLost` are
  the two directions and are only inductive together: a push keeps a queue free
  of duplicates because the process pushed is in no queue, which is known from
  its state. `CleanupDead` says that the process being cleaned up is already
  marked. The lemmas `ReadyPush`, `ReadyPop`, `SleepPush`, `SleepPop`, `WaitPush`
  and `WaitPop` are the moves every action is made of.
- `LocksNeverStranded` is inductive relative to `QInv`: `StaysAlive` says that
  only `Exit` ends a life and only that of `cur`; during the clean-up loop the
  dead owner's locks from `todo` on are excepted.
- `ReturnsOnlyWhenStuck` follows at `Return` from empty queues, `NobodyLost` and
  `LocksNeverStranded`; `MostUrgentRuns` at `Dispatch` from `NobodyLost`.

`PagingProofs` proves, for every number of processes, frames, pages and regions,
that the six invariants of the `paging_*` runs hold of `Spec`; `PagingRefinement`
proves that `Spec` implements `Memory`. The assumptions are those of
`PagingAssumption`: there are more frames than pinned ones, the code lies below the
heap (which the code does not check: it takes a program long enough to reach the heap
for this to fail), the heap and the other pages (the stack, with the regions' places in
it) do not overlap, and
`Zero`, `Absent` and `NoOwner` are not what they stand beside.

- `IInv` is the inductive invariant. `TypeOK` alone is not: `handleAlloc_` and
  `handleFreeMemory_` index the table by a start and a length, which `Bounds` keeps
  inside the heap.
- `Owners` and `Entries` are the two directions between `physPageOwner_` and the
  page tables, and are only inductive together: that an eviction clears *the*
  entry of its victim needs the first, that a new frame is in nobody's table the
  second. They are weaker than one would write down first, where the code is: a
  process being created holds pages before it lives (`Holds`), one whose creation
  failed owns frames for ever, and a region may hide a page that is still owned.
- `Frames` ties use, LRU list and ownership of a frame together. `Saved` says that
  a pid handed out finds nothing on disk; `Unfilled` that the pages a loop of
  creation or allocation has still to fill are in no frame and not on disk, although
  its own iterations evict pages in between.
- `ListOrder` says that the LRU list is a total order. `LastOfList` (a finite one
  has a last element, by the size of what is behind it) then gives
  `AlwaysAVictim`, together with `Frames` and the assumption on the pinned frames.
- `PlaceStep` is the tail of `loadProcessImage_`, `handlePageFault_` and
  `handleAlloc_` with its eviction, `GiveBackStep` the loop of `handleFreeMemory_` and
  `cleanupProcess_`; `EvictionFacts`, `WireFacts`, `TouchFacts` and `RemoveFacts` say
  what the operators of `Paging` do, entry by entry.
- `View` in `PagingRefinement` is the refinement mapping, place by place; `ViewHolds`
  needs that a page owns at most one frame. `PlaceView`, `GiveBackView`, `WriteView`
  and the like show what a handler does to it: `Write` is `Store` or `StoreShared`,
  `CreateDone` is `Start`, `FreeMemory`, `Exit` and `MapSharedMem` are `Free`, `End` and
  `Map`, and `PageFault` and an iteration of an allocation are `BringIn`, which may
  lose what the eviction loses. The iterations of a creation are stutters: nobody
  lives there yet.

`MachineProofs`, `AssemblerProofs` and `ProgramProofs` prove, for every size of a byte, every length of
a word and every set of source files, that both invariants of the `assembler` run
hold. The assumptions are `MachineAssumption` (a word has more values than there
are mnemonics) and `SourcesAssumption` (a file is a sequence of lines of lexemes;
the one character behind `@` is a byte).

- Induction is stated with sets instead of predicates: `SetInduction` and
  `FiniteRecursion` follow from the existence of a smallest natural number, and show
  that the recursive functions of the model (`Weight`, `WordOf`, `Without`,
  `FlattenSeq`, `Statements`, `Touched`) are defined and have the type one expects.
- `WordRoundTrip`: `read32` gives back what `emit32` took apart, cut to a word. Its
  step is `NextDigit`, one more digit of a number to a base.
- `IInv` of `Program`: the image has `InstrLen` bytes for each statement read so
  far, and `Says`: its three words are an opcode, operands that pass `checkReg` where
  execute asks for a register, and the numbers of the text. `OneMore` is what another
  line does to an image. `CodeMatchesSource` and `CodeDecodes` follow.

`CPUProofs` proves, for any number of processes and frames, any page size, quantum,
size of a byte and length of a word and any programs, that `TypeOK` and `FramesHeld`
of `CPU` hold of `Spec`. The assumptions are `CPUAssumption` (at least one process
and one frame, addresses and answers are numbers) and `ProgramsAssumption` (there
is a process only of a program that assembles), with those of `Machine`.

- `TypeOK` is inductive. Most of its proof is about a step that may stop anywhere:
  `DoneFacts` says that none of the accesses that are done was refused,
  `ProgressFacts` what is known by then (an access after the fetch has an instruction
  that decodes behind it, and what it reads lies in memory). From that follow
  `WrittenType`, `SpType`, `LoadedType`, and `ExecutedType` opcode by opcode: `execute`
  reads no register that `checkReg` has not let through. That what is fetched are
  bytes goes back to the assembler (`LineFacts`, `ImageType`).
- That the frames are not overbooked needs that touching a resident page only moves
  it: `TouchedFacts` says that the accesses done leave the same pages in another
  order.
- `FramesHeld` is not inductive: it takes that the process that runs has not ended
  and will not run again after its end. `Queued` adds that the ready queue holds a
  process once, never the one that runs, and only ready ones; `IInv` is `TypeOK`,
  `FramesHeld` and `Queued`. The first state needs that the code pages of different
  programs are different pages (`CodePagesInjective`, `FlattenInjective`).

`CPURefinement` proves `ProgramsRunAsWritten`: `Spec` and `[]Tame` imply
`RunsAsWritten`, for any process among any number of them, any programs that assemble,
and under the assumptions of `CPUProofs`. `Tame` is a hypothesis and no invariant:
what a program does with its stack and where it jumps is the programmer's business,
a push that faults is done twice (`push_retry`), and whether a page is lost depends
on how often the others evict it (`paging_invisible`). That it is not an empty one is
what `BothTame` shows: both processes are tame in every state of `cpu_retry`,
`cpu_switch` and `cpu_finish`, in the first of which outsiders take two frames, of any
pages and at any time. It is about the state of the process alone, its pages on the
disk included: the others may well not be tame.

- `Instruction`: the three words at `ip_` say what the line of the source says. It
  puts together `ImageFacts` (pieces of one length stand at its multiples), `CodeAt`
  (no address of the code wraps), `WordRoundTrip` and the `Says` of the assembler.
- `RInv` is inductive together with `IInv`. Its part `Pending` spans the time in which
  a process is out with an instruction half done: memory differs from `committed` only
  if that instruction is a store, only where its retry writes, and a copy does not read
  there. So the retry reads what the first attempt read (`ReadSame`) and what it leaves
  is what one attempt would have left (`StoredIs`).
- `ExecuteStep` and `TrapStep`: an instruction that goes through is a step of `ISA`,
  form by form (`MoveStep`, `StoreStep`, ... `AskStep`). `TouchesAre` says that the
  addresses it goes through are those `ISA` asks for, so an access that is refused for
  good is an `End` (`RefusedTouches`, `EndStep`).
- `FaultLeaves`: an attempt that faults leaves `sp_` alone and re-establishes
  `Pending`, whatever the access it stops at. This is where `FaultsHarmless` is needed.
- `SwappedInSame`: the page that is brought in is what it was, bytes of the unfinished
  store on other pages included. `MissingLeft` says that nothing has been written to the
  page that is missing; the rest is `FaultsRestore`.
- `StepKinds`: every other step, of another process or a context switch, changes
  nothing `ISA` sees. `SwitchToSame` is that `loadFrom` brings back what `saveTo` kept.

Only model-checked: the liveness properties `SleepersWake`, `UrgentProcessRuns` and
`AllFinish` (fairness is out of the prover's reach), and that the programs of the runs
are tame. The module with `Meaning` is apart from `CPU` because of its constant `me`;
the prover takes no parameterised instance.

## Not modelled

- `reportStats` and `getProcessState` (output only), the counters `cycles` and
  `contextSwitches`, and the write-only fields `waitingLockId`, `waitingEventId`
  and `workingSetPages`.
- `CPU::SetIP`, `SetSP`, `getReg` and `MMU::addSharedRegion`, which nobody calls.
- The characters of assembly text: what `std::stoi` accepts behind a number, and
  a file that cannot be opened.
- Overflow of `int64_t` registers, self-modifying code and jumps into the middle
  of an instruction.
- A product of `Scheduler`, `Paging` and `CPU`. They meet in few places, each of
  which one of them has: faults and memory traps requeue (`Requeue`), exit cleans
  up both sides in one handler (`Exit` in both), and a fault in the middle of an
  instruction is in `CPU` with the LRU list. The product is out of TLC's reach
  with bounds at which evictions happen.

## Plan

What could come next, in this order:

1. `Tame` of a class of programs, from their text: one that does not touch its stack
   and jumps by immediates only, say. `StaysInCode` would then follow from `CodeIntact`.
2. A fault in the middle of a push in `ISA`, as a step that moves `sp` and does nothing
   else: the most that can be said of programs that are not tame.
3. The four memory handlers of `Paging` under the scheduling of `Scheduler`, for the
   order in which faulting processes come back.
