# Ferrous kernel: TLA+ models and proofs

This directory models what the Ferrous kernel repository executes today: a UEFI
loader that collects the machine's description and leaves boot services, a kernel
entry path in the same binary that takes the machine over, the library that
validates the physical memory map, the global map the kernel keeps of it, the
exception path and the serial port. The modules are written from the Rust and
assembly source; `PROJECT.json` maps every definition to the lines it models.

Paths in this file are relative to the repository.

## 1. Inventory

### Components, their state and operations

| Component | Source | State | Operations |
|---|---|---|---|
| Handoff | `boot/src/main.rs` `efi_main`, `kernel_entry`, `kernel_main`, `gdt_init`, `idt_init` | boot services up or gone, RFLAGS.IF, stack in use, GDT/IDT/CS, the static `KERNEL_BOOT_INFO` | collect the map, build and store the record, `exit_boot_services`, `cli`/stack switch/call, validate, switch stack, load tables, report, halt |
| BootInfo construction | `boot/src/memory.rs`, `boot/src/boot_info.rs`, helpers in `main.rs` | region vector, two totals, RSDP, framebuffer, the `KernelBootInfo` | one iteration per UEFI descriptor, sort, summary, device lookup, conversion into a fixed array |
| Memory map library | `lib/boot-info/src/lib.rs` | descriptors kept, three saturating byte counters, a region counter | `MemoryMap::parse`, the queries over a parsed map |
| Boot log | `print_memory_map` in `main.rs` | three totals | one iteration per descriptor, the summary |
| `kernel::memory` | `kernel/src/memory/mod.rs` | `MEMORY_MAP` (plain memory), `INITIALIZED` (atomic flag) | `init`, `get` |
| Descriptor tables | `gdt_init`, `idt_init` in `main.rs`; `kernel/src/arch/x86_64/gdt.rs`, `idt.rs` | GDTR, IDTR, the 256 gates | `lgdt`, CS and segment reload, filling of the gates, `lidt` |
| Exceptions | stubs, `exception_handler` in `main.rs`; `arch/x86_64/stack.rs` | the kernel stack with its guard region, argument registers, CR2, RFLAGS.IF | delivery, stub instructions, report, halt |
| Serial | `main.rs` `serial_*`, `kernel/src/drivers/serial.rs` | UART registers, transmit FIFO | `init`, `write_byte`, `write_str`, `serial_write_usize`, `serial_write_usize_hex` |
| Console, `entry.rs`, `lib/core`, `lib/alloc`, scripts, design documents | | | not modelled, see section 8 |

### Interactions

`efi_main` reads the firmware's map, builds a `BootInfo`, converts it to a
`KernelBootInfo`, copies that to a static, leaves boot services and calls
`kernel_entry` on a new stack. `kernel_main` switches stacks again, takes the
record from the static once more, initialises the serial port, installs GDT and
IDT, prints the map and halts. `kernel::memory::init` parses the handed-over map
with `MemoryMap::parse` and publishes the result to `get`; at this commit the
kernel crate that contains it is not yet entered from the boot binary, so
`MemoryPipeline` calls `parse` where the module's documentation puts the call, after
the handover. From `lidt` on any
fault enters the stubs and ends in `exception_handler`, which writes to the
serial port in the middle of whatever was being written.

### What is hard, and what correctness means

| Component | Hard behaviour | Correct when |
|---|---|---|
| Handoff | firmware timer events change the map and its key under the loader; interrupts, NMIs and faults at every instruction; the magic does not tell a populated record from an empty one | the kernel runs only on a machine it owns, with the record that was collected, written once and before the exit; no firmware call after the exit; faults are caught as soon as they can be; boot always ends somewhere |
| BootInfo construction | `page_count * 4096` and `start + size` overflow (wrap or panic by profile), saturation, ties of the sort, maps longer than the array; a stride past u32, a display without a framebuffer | what is handed over is the lowest part of what the firmware reported, in order, and `truncated` says exactly whether anything is missing |
| `parse` | the same arithmetic, zero-size padding, errors that name an index; statistics computed once, iterators that classify again | it returns what its documentation promises over the whole map; statistics and iterators describe the same memory |
| Boot log | three independent classifications of the same codes | log, bootloader and kernel agree |
| `kernel::memory` | a multi-kilobyte copy published by one flag; retries after errors; second calls | no thread sees a torn map or two maps; once Some always Some |
| Descriptor tables | one wrong bit, piece or index shows only when that exception occurs; an exception while the tables are half installed | the selectors load, each gate leads to the stub of its vector, and only before `lidt` is an exception lost |
| Exceptions | nesting at every instruction, error codes on the stack for ten vectors, three tables that must agree, the calling convention of the target, a stack that is finite and must be aligned | the handler is given this exception's vector, code and frame; the guard region is not reached before its time; the machine halts |
| Serial | handlers cut in at every point of a write; the divisor latch hides the data register; the FIFO is finite; digit buffers that exactly fit | no byte lost, reordered or garbled; a number reads back; a write ends |

`PROJECT.json` lists these as hazards, each at its line, with the properties that
cover it.

## 2. Modules

| Module | Role |
|---|---|
| `MemoryTypes` | UEFI memory types and the five functions of the source that classify them |
| `MemoryMapParse` | `MemoryMap::parse`, one action per way an iteration ends |
| `ParseContract` | the documented promise of `parse`, as one step over the whole map |
| `ParseRefinement` | the refinement mapping from `MemoryMapParse` to `ParseContract` |
| `MemoryQueries` | the iterators and predicates over a parsed map; extends `MemoryMapParse` |
| `BootInfoBuild` | from the firmware's answers to the `KernelBootInfo` |
| `MemoryReport` | `print_memory_map` |
| `MemoryPipeline` | extends `BootInfoBuild`: the loader, then `MemoryReport`, then `MemoryMapParse`, on one map |
| `Handoff` | the boot CPU from `efi_main` to the final halt, with firmware, devices and faults |
| `BootContract` | the four phases a boot goes through, abstractly |
| `KernelMemory` | `init` and `get` under Release/Acquire |
| `DescriptorTables` | the GDT and IDT as bits, the instructions that load them, the CPU's reading of them |
| `Exceptions` | extends `DescriptorTables`: CPU frame, stubs, `__exception_common`, `exception_handler` |
| `Serial` | both COM1 drivers and the 16550 |
| `SerialNumbers` | extends `Serial`: decimal and hexadecimal numbers; the specification of the serial line |
| `*_proofs` | theorems about `MemoryMapParse` with `MemoryQueries`, its refinement of `ParseContract`, `MemoryPipeline` (with `BootInfoBuild` and `MemoryReport`), `Handoff`, `KernelMemory`, `Exceptions` (with `DescriptorTables`) and `Serial` with `SerialNumbers` |
| `NaturalFacts` | lemmas the proofs share: induction, quotients, sums over sets of positions, folds |
| `MC*` | instances for TLC |

Definitions whose comment begins with "Mutant" are altered copies of the
definition they precede; no specification uses them. They show that a property
can fail: with the altered definition in place of the original, TLC violates it.

### Correspondence with the code

**MemoryMapParse.** `i` is the loop index from 1, `regions` is
`descriptors[..count]`, the four counters are the locals of the same meaning.
`SkipEmpty` is the `continue`, `RejectUnaligned` the early return, `SizePanics`
the overflow of `size_bytes` in a build with overflow checks, `KeepDescriptor` the
rest of the body, `Finish` what follows the loop. `checks` is the build profile: an
unchecked multiplication panics when it is TRUE (dev) and wraps when it is FALSE
(release). It is chosen in the initial state and never changes.

**BootInfoBuild.** `bpc` runs through `collect` (the loop of
`from_uefi_memory_map`), `summary`, `devices`, `convert` (the loop of
`to_kernel_boot_info`) and `built`. `SortByStart` is the stable slice sort.
Overflows behave as above. `BytesPerRow` is the u32 stride, `FramebufferPanics` its
overflow in dev and the `uefi` crate's assertion that the display has a linear
framebuffer (external).

**MemoryQueries.** Iterators over `regions` are subsequences of it, in order. `IsUsable`
goes by raw code, the others by kind, as in the source.

**Handoff.** `pc` names the next statement or instruction. `mem` is the firmware's
map, one type per page; `collected`, `kbi` and `info` are the map `efi_main` read,
the one in the static and the one `kernel_main` works with. `FirmwareEvent`,
`DeviceInterrupt` and `Fault` are the environment. The retry of
`exit_boot_services` is the `uefi` crate's (external): a stale key means one more
attempt from a fresh map, then a reset. `arg` is what the callee finds in the
register its convention names.

**KernelMemory.** Memory is modelled by views: `ver` counts writes to
`MEMORY_MAP`, `seen[t]` the writes thread `t` must see. A Release store carries the
writer's view, an Acquire load that reads it joins that view; a dereference without
the last write in view, or during the copy, reads `Torn`. `debug` is the profile:
in dev `init` may be called again at any time and its `debug_assert!` stops it; in
release, where nothing stops it, it is called again only after an error, as its
contract demands.

**DescriptorTables.** A descriptor is its two dwords, a gate a record of the fields of
`IdtEntry`. Address pieces are parameters (`Piece` is 2^16 in the code), so that small
addresses cross all three of them. What the CPU checks when it loads a selector or
goes through a gate (present, DPL, L and D bits, type, limit) is external and reads
the bits the source wrote. `stored` is how far `idt_init` has come.

**Exceptions.** The specification begins where `kernel_main`, on its own stack, is about
to call `gdt_init`. `KernelCalls` are the calls and returns of `kernel_main` and of what
it calls: at any time they may have any amount of the stack up to `KernelWords` in use.
The stack is a sequence of tagged words, a pointer a position in it. Each instruction of a stub and each paragraph of the report is an action;
`Raise` and `RaiseUncaught` may fall between any two, also during `gdt_init` and
`idt_init`. The CPU aligns RSP before it pushes: an even length of `stk` is a 16-byte
boundary. `CallHandler` takes up to `HandlerWords` for the handler's own frame and those
of the functions it calls. Both bounds are the compiler's and are parameters.
`abi` is what `extern "C"` means in the build.

**Serial.** `Outb` has the UART's effect on its registers, DLAB included; `Transmit`
shifts a byte out. `TakeOver` is `exception_handler` or the panic handler starting a
string of its own in the middle of another one. `translate` tells the kernel's
driver (line feeds become CR LF) from the loader's copy.

**SerialNumbers.** `buf` and `val` are the locals of the two formatters; `base` tells
them apart. `StoreDigit` is one iteration, its bounds check included; `WriteDigits`
hands the digits, reversed, to the byte loop of `Serial`.

## 3. Runs

| Run | Shows |
|---|---|
| `parse` | in both profiles `parse` implements `ParseContract`: the exact error, or the exact map and statistics; counters stay consistent while they saturate; no index leaves the array; it returns; iterators, predicates and statistics agree about the result |
| `pipeline` | the handed-over map is the firmware's, sorted, cut at the capacity, `truncated` exactly when something is missing; RSDP and framebuffer are right; bootloader, boot log and `parse` agree about usable and reclaimable bytes; a map the bootloader built never overflows the kernel's arithmetic; every map gets through to the allocator, parse's error or the loader's panic |
| `pipeline_truncation` | violation: a truncated map does not stop the kernel |
| `handoff` | ownership, record, tables, no firmware call after the exit, termination; refinement of `BootContract` |
| `handoff_interrupt_window` | violation: an interrupt can be taken between the exit and `cli` |
| `handoff_stale_map` | violation: a page the kernel calls usable need not be free at exit |
| `handoff_entry_abi` | violation: `kernel_entry` need not receive the record's address on the UEFI target |
| `memory` | the flag stands only over a complete map, no torn read, one map, Some is final, and in the end everyone gets Some |
| `exceptions` | the tables send each of the 256 vectors to its stub and lose an exception only before `lidt`; the stubs deliver vector, error code and frame, no frame is harmed, whatever `kernel_main` has in use of the stack, the guard region is reached only by more exceptions than there is room for, every exception ends in a halt; under the convention the handler's comment names the report is truthful |
| `exceptions_abi` | violation: on the UEFI target the handler does not get what the stubs loaded |
| `exceptions_alignment` | violation: RSP is not 16-byte aligned at the call of the handler |
| `serial` | nothing lost or garbled, line feeds follow carriage returns, numbers read back and their buffers suffice, writes end |

### Findings

Each is a run that TLC ends with a counterexample; `PROJECT.json` quotes the line
the code disagrees with.

1. `lib/boot-info/src/lib.rs:24` says the kernel halts on a truncated map.
   `print_memory_map` prints a warning and boot goes on.
2. The map in `KERNEL_BOOT_INFO` was read before the loader's and firmware's last
   allocations. The final map, which `exit_boot_services` returns, is forgotten, so
   `Usable` may name pages in use.
3. ADR-0001 says interrupts are off between the exit and the stack switch. `cli` is
   the first instruction of the asm block after the call has returned, so the window
   is narrow but open.
4. The loader passes the record in RDI; `extern "C"` on `x86_64-unknown-uefi` reads
   RCX. What RCX holds is up to the compiler. `KernelUsesCollected` shows why a boot
   that passes the magic check still works: `kernel_main` takes the record from the
   static again.
5. The exception stubs load RDI, RSI and RDX; the handler reads RCX, RDX and R8.
   `ReportTruthful` shows that with the convention the comment names the report would
   be right in every interleaving.
6. The CPU aligns RSP to 16 bytes and pushes five words; the sixth, an error code, is
   popped by the stub. RSP is therefore 8 modulo 16 at `call exception_handler`, where
   the convention the handler's comment names (and the Microsoft one) wants 0.

Two comments that the models contradict have no run of their own.
`kernel/src/arch/x86_64/idt.rs:15` says interrupt gates keep exceptions from nesting:
they mask device interrupts only, and `Raise` nests. Line 53 and line 198 of the same
file list vector 28 among those with an error code; the stubs and `EC_MASK` do not,
and the models follow the code.

## 4. Bounds, and why they are enough

- **Words of 5 bits, pages of 4 bytes** in `parse` (`MaxWord = 31`, `PageSize = 4`).
  The code's arithmetic depends on three boundaries only: `page_count * PageSize` past
  the word, a sum past the word, a start off a page boundary. 7 pages are the most
  whose size fits, 8 wrap to 0, 9 wrap to a page; two regions saturate a counter.
- **Words of 8 bits with half words of 4** in `pipeline` (`MaxWord = 255`,
  `MaxHalf = 15`), as u32 is half a u64: 64 pages wrap to 0, 65 to a page, and a
  stride of four pixels is the first that overflows a half word.
- **Three descriptors** in `parse`: one to be skipped, kept or rejected, one before
  it and one after it. **Two slots for up to three firmware entries** in `pipeline`:
  full and not truncated, and truncated.
- **Two pages** in `handoff`: one the loader takes and one the firmware takes.
- **Two readers, two maps, three calls of `init`** in `memory`: an overwrite shows
  as a second map, a failed call can precede and follow a successful one.
- **Four vectors, two error codes, depth three** in `exceptions`: with and without
  error code, the page fault, the highest bit of `EC_MASK`, a device interrupt (which
  RFLAGS.IF has to keep out); a nested exception that is itself interrupted. All 256
  gates are filled and checked. Address pieces have 4 bits and the stubs lie across a
  boundary of all of them. A usable stack of 20 words, up to 2 in use by the kernel and 2
  by the handler, holds two exceptions and not three, so `GuardUntouched` is about every
  state of the first two and the third runs into the guard; with one word more left
  behind per exception the second would. The two violation runs, of one exception, add
  the double fault.
- **Numbers of 8 bits with buffers of 3 and 2 digits** in `serial`: what 20 and 16 are
  to 64 bits, the most the largest value needs.
- **FIFO of two, two calls, two takeovers** in `serial`: a second byte without
  polling would still fit the FIFO, a third would be lost; a handler cuts in on a
  write and on another handler.

Deadlock checking is off where the modelled code really stops: a halted CPU, a
`parse` that has returned, a port nobody writes to.

## 5. Fairness

- The boot CPU (`LoaderStep \/ KernelStep`), `parse` (`Step`), the way of a map
  through loader, log and `parse` (`CpuStep`), `init` (`InitStep`), the installation
  of the tables (`SetUp`), the stubs and the handler (`Step`) and the serial driver
  (`NDriverStep`) are straight-line code on one CPU that nothing
  schedules away: weak fairness.
- The UART shifts a byte out when it has one: weak fairness of `NTransmit`. The
  polling loop has no timeout, so `WriteEnds` rests on this.
- A store becomes visible and a thread that keeps calling `get` reads it: weak
  fairness of `GetSome(t)`. `EventuallySome` is about threads that keep asking.
- Firmware events, interrupts, faults, takeovers and calls have none.

## 6. Proofs

The theorems hold for every value of the constants; the runs are instances.

**MemoryMapParse_proofs**, from `WordAssumption` (a positive page size, a natural
word limit) and `SourcesAssumption` (sources are well-typed and fit the array, as
`KernelMemoryMap` guarantees). `IInv` is the conjunction of the type invariant, the
four safety invariants and `Phases`: before the call nothing is kept, a result
appears only at the end, and the source fits. `Phases` is needed because a call
replaces the source under the invariants, which therefore must be about an empty
prefix then. `StatsConsistent` rests on a lemma about saturating addition
(`SatAddBound`: counting a size on both sides preserves "usable plus reclaimable,
saturated, is at most total") and on the disjointness of the accounting classes.
`FirstUnalignedReported` follows from `KeptExactly`: an earlier unaligned descriptor
would have been kept, and what is kept is aligned.

`ParseQueriesAgree` is about the queries over the parsed map. Its inductive part,
`QueriesInv`, says after every region, and not only when `parse` returns, that the
iterators find the count and the bytes of the statistics; it rests on `SatAddShift`
(bytes added to either of two saturating counters are added to their saturating sum)
and on `QueryStep` (one region more is appended to the queries of its type and to no
other, and adds its bytes to a sum). The rest of the property holds of any sequence of
descriptors: `QueryYields` (a query yields the regions of its types, all of them, and as
many as the map has) and `TypesCount` (the queries by type cover the map, each region
once: a fold over `UefiTypes`, by induction over the cardinality). The queries are
`FoldLeft`s, whose recursion over sets of positions the provers do not unfold by
themselves. `FilterWalk` and `SumWalk` name what such a fold goes through, position by
position (`Filters`, `Sums`): it exists by `FoldExists` of `NaturalFacts`, and it ends
in what the fold returns by induction over the positions.

**ParseRefinement_proofs**, from the same assumptions. `ParseRefinesContract` is the
safety part of `ImplementsContract`: the call is the contract's `Call`, each of the
three ways to return is its `Return` with the promised value, iterations stutter. The
contract speaks of the whole map at once and the loop has only read a prefix of it, so
`RefInv` adds to `IInv` what is true of the prefix: nothing in it ends the parse
(`NoStopBelow`), the n-th kept descriptor is the one with n - 1 non-empty ones before it
(`InOrder`), and each statistic is the sum over the prefix, capped (`Counted`). The
contract adds first and saturates once, the loop saturates at every step; the two agree
because all sizes are naturals (`BytesBelowStep`). The contract's sum is a fold that
takes the positions in an unspecified order; `FoldIsSum` shows by induction over the
cardinality that it is `SumOver` of `NaturalFacts`.

**Handoff_proofs**, for any set of pages and either convention. `IInv` adds to the
type invariant the parts `Services` (which program points have boot services),
`Isolation` (from which point on interrupts are off and which stack is in use),
`Record` (when the collected map, the static and the kernel's view of it are set and
equal) and `Tables` (which tables are loaded where). The properties speak of machine
state, the program has only its position: `IInv` ties the two together.
`HandoffRefinesContract` proves the safety part of the refinement of `BootContract`,
step by step: store, exit, stack switch and `lidt` are the four abstract steps,
reaching a final state is `Stop`, everything else stutters.

**KernelMemory_proofs**, for any set of readers and maps, any `MaxInits` and both
profiles. `Publication` says the flag is set only over a complete slot outside a
write and its view is the last write; `Visibility` that who has a reference has that
write in view; `Writer` that `init` stores what it parsed; `ReadsSlot` that all
reads so far are of the current slot; `Recalled` that a call which finds the flag set
is one the assertion stops.

`HandoffNoFirmwareCallAfterExit` is an action property: with `Services` in hand, every
action that calls the firmware is enabled only where boot services are still up.

**MemoryPipeline_proofs**, for maps of any length, any page size that divides the
word, any array capacity and both profiles, from two assumptions. `BuildAssumption`:
a word is a whole number of pages and the square of a half word, as u64, u32 and 4096
are. `FirmwaresAssumption`: the firmware answers with UEFI descriptors of u64 fields,
keeps no configuration table at address 0 (which `to_kernel_boot_info` uses for
"none"), and its scan lines are at least as long as they are visible, as the UEFI
specification says of `PixelsPerScanLine`. No order, alignment, disjointness or size
is assumed of the map. `IInv` has three parts.

- `BInv`, the loader. While it collects, `regions` is the firmware's map so far; from
  the sort on there is a permutation `f` of the positions, increasing in (start,
  position), with `regions[j]` made of descriptor `f[j]`; the entries are a prefix of
  `regions`. Each total is the sum, capped at the word, of the weights of the
  descriptors passed. `NoneWrapped` says that a dev build that got this far met no
  overflow; without it nothing ties an entry's page count to the firmware's.
  `SortPermutes` shows that `SortByStart`, which places each region by counting those
  before it, is such a permutation: the places are distinct, and by the pigeonhole
  principle every one is taken.
- `RInv` and `PInv`, the two kernel passes: totals are capped sums over the entries
  passed, by UEFI code and by kind; a panic point is not reached.

`HandoverFaithful` and `DevicesFaithful` follow from `BInv` alone. The agreement
theorems compare sums: `LogAgreesWithParse` compares two of them weight by weight, and
`BootAgreesWithKernel` compares a sum in firmware order over all descriptors with one in
sorted order over the entries, so it needs that a sum does not depend on the order
(`SumReindex`), that a part sums to no more than the whole (`SumMonotone`), and that two
saturating counters added with saturation are the capped sum of both (`CapSums`,
`SumAdds`). `KernelSizesNeverOverflow` rests on the product having been formed once
already: `size / 4096 * 4096` of a u64 fits a u64.

The sums are where the argument is inductive over data. `NaturalFacts` states
induction over a set of naturals (`NatSetInduction`, from the least-element property of
a well-founded relation), which the provers can instantiate, and defines `SumOver` as
the function that adds one weight per position, shown to exist by that induction.

**Exceptions_proofs**, for any set of vectors and codes, any depth, stack and guard
size, any placement of the stubs in the address space and any `Piece`. `IInv` says how
far `gdt_init` and `idt_init` have come and that the gates stored so far are right;
which words the running stub has on top of the stack, and in which registers
(`OnTop`, `Registers`, `Parameters`); that every frame taken since `lidt` is on the
stack, complete and in one place (`Frames`), and that no word on it names an exception
still to come (`Fresh`), which makes a new frame distinct from all earlier ones; what
has been written of the report; and that the stack in use, with what the exception under
way has yet to take, is at most `KernelWords` and `7 + HandlerWords` per exception
(`Room`; `GuardUntouched` alone forgets that a stub still has a call to make). `Room`
holds for any values of the two parameters, which nothing in the source fixes. `TablesCatch` needs arithmetic for every address: a gate's three pieces put
together again are the stub's address (`DivMod`, `DivUnique`, `DivBelow`).

**Serial_proofs**, about `NSpec`, numbers included, for any FIFO depth, strings of
bytes (`Messages \subseteq Seq(Byte)`: Rust's `&str` is bytes), numbers and number of
calls and takeovers. `IInv` says which registers `init` has set (`SetUp`: DLAB is clear
from its sixth write on), that the FIFO is empty from the poll to the write of the
data register (`Ready`), and that a line feed still to be written waits behind its
carriage return or follows one on the line (`Translating`). A handler that takes over
starts with a poll of its own, so both facts hold again wherever it cuts in.

`SerialNumbersReadBack` rests on the last part of `NumbersAssumption`, that the numbers
fit the buffers (below `10^BufferSize[10]` and `16^BufferSize[16]`: 2^64 is below 10^20 and equal to
16^16, the sizes `serial_write_usize` and `serial_write_usize_hex` use); a larger number would
run past the buffer, so nothing weaker will do. The invariant `NumInv` has two halves.
While digits are stored (`Digits`), reading them by Horner's rule, last stored first and
starting from what is left of the number, gives the number (`Reads`: storing a digit puts
one step in front of that reading), and what is left is below the power of the base that
the free places can hold (`Powers`), so a place is free whenever a digit is due. Once
they are written out (`Written`: the bytes on the line, the one taken up and the ones to
come, which no step of the string writer changes), they are a numeral of the number
(`Denotes`). `ReadsValue` shows that Horner's rule computes the `FoldLeft` of the
property, `PowerIs` that the recursive function `Power` lists the powers.

Only model-checked: liveness (`ParseReturns`, `MapGetsThrough`, `BootEnds`,
`EventuallySome`, `ExceptionHalts`, `WriteEnds`, the fair part of `BootContract` and
`ParseContract`). Fairness and ENABLED are out of the prover's reach.

Two invariants, `TripleFaultOnlyInWindow` of `Handoff` and the type invariant of
`KernelMemory`, are proved and in no run: `TablesCatch` checks what rests on the first,
and the Rust types leave little of the second to go wrong.

## 7. Plan

Done: every module of section 2; a theorem for every invariant and every action property
of the runs, and for the safety part of both refinements. Left is what the code does not
have yet: when the kernel crate is entered from the boot binary, `Handoff` gets its calls
of `memory::init`, and the allocator of `docs/MEMORY_ARCHITECTURE.md` becomes a reader of
`KernelMemory` whose source of free pages is `MemoryQueries`.

## 8. Not modelled

- `boot/src/console.rs`: a write-only wrapper around the firmware's text output.
- `kernel/src/arch/x86_64/entry.rs`: comments. `gdt.rs`, `idt.rs` and `stack.rs` of
  the same directory hold the same tables, loads and sizes as `main.rs`, which builds
  the ones in use; `DescriptorTables` and `Exceptions` model both.
- `lib/core`, `lib/alloc`: placeholders. Capabilities, IPC, scheduling and the
  allocator exist as design documents only.
- The wording of all output; scripts.
- Descriptor attributes, and the channel masks of a BITMASK display, which the loader
  replaces by zeros and the kernel record has no room for.
- What endless faults of the handler overwrite below the stack: nothing in the code
  bounds the nesting, and the guard region is not unmapped yet. `GuardUntouched` says
  how many exceptions fit above it.
- The CPU's escalation of a fault during fault delivery (double and triple fault)
  once the kernel's tables are live.
- What the compiler spills around the stack switch in `kernel_main`, or into the
  home area the Microsoft convention gives a callee above its return address: it is
  not in the source. `FramesIntact` is about the stubs.
