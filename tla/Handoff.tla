------------------------------ MODULE Handoff ------------------------------
(***************************************************************************)
(* The handover of the machine from UEFI firmware to the kernel, as        *)
(* boot/src/main.rs performs it: efi_main from the first boot-services     *)
(* call to the asm block that leaves it, kernel_entry, and kernel_main up  *)
(* to its final halt, with gdt_init and idt_init.                          *)
(*                                                                         *)
(* Around the boot CPU's code the model has the firmware (memory it hands  *)
(* out, the map key, events that run on its timer interrupt, the uefi      *)
(* crate's exit_boot_services), device interrupts and faults (NMI, machine *)
(* check, or an exception raised by the code).                             *)
(*                                                                         *)
(* What the BootInfo record contains is in BootInfoBuild; here it is the   *)
(* memory map it was made from.                                            *)
(***************************************************************************)
EXTENDS Integers, Sequences, FiniteSets

CONSTANTS
    Pages,  \* the pages the firmware may hand out while the loader runs
    Abi,    \* what extern "C" means on the build target
    NoMap   \* KERNEL_BOOT_INFO as KernelBootInfo::new() leaves it

\* boot/.cargo/config.toml builds for x86_64-unknown-uefi, where extern "C"
\* is the Microsoft convention: the first argument travels in RCX.
ASSUME AbiAssumption == Abi \in {"sysv64", "win64"}

Types == {"CONVENTIONAL", "LOADER_DATA", "BOOT_SERVICES_DATA",
          "RUNTIME_SERVICES_DATA"}
Maps  == [Pages -> Types]

ASSUME NoMapAssumption == NoMap \notin Maps

VARIABLES
    pc,        \* where the boot CPU is
    bs,        \* boot services are available
    ifl,       \* RFLAGS.IF
    stack,     \* what RSP points into
    gdt, cs, idt,  \* whose GDT and IDT are loaded, whose selector CS holds
    idtReady,  \* the IDT static is populated
    mem,       \* the firmware's memory map
    stale,     \* the map changed since exit_boot_services last read it
    tries,     \* attempts exit_boot_services has left
    collected, \* the map efi_main retrieved
    kbi,       \* the map in the static KERNEL_BOOT_INFO
    arg,       \* what kernel_entry receives as boot_info
    info,      \* the record kernel_main works with
    strayIrq   \* a device interrupt was taken after boot services exited

vars == <<pc, bs, ifl, stack, gdt, cs, idt, idtReady, mem, stale, tries,
          collected, kbi, arg, info, strayIrq>>
cpu  == <<ifl, stack, gdt, cs, idt, idtReady>>
fw   == <<bs, mem, stale, tries>>
data == <<collected, kbi, arg, info>>

-----------------------------------------------------------------------------
\* Program points, in the order efi_main, kernel_entry, kernel_main reach them.
LoaderPcs == {"init", "map_alloc", "map_get", "build", "store", "exit_alloc",
              "exit_get", "exit_call", "forget", "cli", "switch", "call"}
KernelPcs == {"kernel_entry", "kernel_main", "rederive", "serial_init", "lgdt",
              "retfq", "idt_fill", "lidt", "report"}
\* Where the machine can end up.
FinalPcs  == {"aborted", "panicked", "reset", "fatal_halt", "halted",
              "exception_halt", "firmware_handler", "triple_fault"}

Init ==
    /\ pc = "init"
    /\ bs = TRUE /\ ifl = TRUE /\ stack = "uefi"
    /\ gdt = "firmware" /\ cs = "firmware" /\ idt = "firmware"
    /\ idtReady = FALSE
    /\ mem \in [Pages -> {"CONVENTIONAL", "BOOT_SERVICES_DATA"}]
    /\ stale = FALSE /\ tries = 2
    /\ collected = NoMap /\ kbi = NoMap
    /\ arg = "none" /\ info = NoMap
    /\ strayIrq = FALSE

Go(from, to) == pc = from /\ pc' = to

-----------------------------------------------------------------------------
(* The firmware (external) *)

\* A pool allocation is served from pages the pool has or takes a free one.
Allocated(m, ty) ==
    {m} \cup {[m EXCEPT ![p] = ty] : p \in {q \in Pages : m[q] = "CONVENTIONAL"}}

\* Freeing pool memory may return a page to the free memory.
Freed(m, ty) ==
    {m} \cup {[m EXCEPT ![p] = "CONVENTIONAL"] : p \in {q \in Pages : m[q] = ty}}

\* An event notified from the timer interrupt allocates or frees firmware
\* memory: the map and its key change under the loader.
FirmwareEvent ==
    /\ bs /\ ifl
    /\ pc \notin FinalPcs
    /\ mem' \in UNION {Allocated(mem, ty) \cup Freed(mem, ty) :
                          ty \in {"BOOT_SERVICES_DATA", "RUNTIME_SERVICES_DATA"}}
    /\ mem' # mem
    /\ stale' = TRUE
    /\ UNCHANGED <<pc, cpu, bs, tries, data, strayIrq>>

\* A device interrupt after boot services have gone: the firmware's handler
\* runs on whatever RSP points into.
DeviceInterrupt ==
    /\ ~bs /\ ifl
    /\ pc \notin FinalPcs
    /\ strayIrq' = TRUE
    /\ UNCHANGED <<pc, cpu, fw, data>>

-----------------------------------------------------------------------------
(* efi_main *)

\* uefi::helpers::init().expect(..)
HelpersInit ==
    /\ \/ Go("init", "map_alloc")
       \/ Go("init", "panicked")
    /\ UNCHANGED <<cpu, fw, data, strayIrq>>

\* uefi::boot::memory_map(LOADER_DATA): the buffer is allocated first ...
MemoryMapAlloc ==
    /\ Go("map_alloc", "map_get")
    /\ mem' \in Allocated(mem, "LOADER_DATA")
    /\ UNCHANGED <<cpu, bs, stale, tries, data, strayIrq>>

\* ... which, like the call itself, may fail: return Status::ABORTED.
MemoryMapFails ==
    /\ Go("map_alloc", "aborted") \/ Go("map_get", "aborted")
    /\ UNCHANGED <<cpu, fw, data, strayIrq>>

\* ... then filled.
MemoryMapGet ==
    /\ Go("map_get", "build")
    /\ collected' = mem
    /\ UNCHANGED <<cpu, fw, kbi, arg, info, strayIrq>>

\* The region vector, the formatted summary, ACPI, GOP, BootInfo and
\* to_kernel_boot_info: heap is allocated, the firmware's map buffer is
\* dropped; arithmetic may panic (BootInfoBuild).
BuildBootInfo ==
    /\ \/ Go("build", "store") /\ mem' \in UNION {Freed(m, "LOADER_DATA") :
                                        m \in Allocated(mem, "LOADER_DATA")}
       \/ Go("build", "panicked") /\ UNCHANGED mem
    /\ UNCHANGED <<cpu, bs, stale, tries, data, strayIrq>>

\* Mutant: the record is never copied to the static.
BootInfoNotStored ==
    /\ Go("store", "exit_alloc")
    /\ UNCHANGED <<cpu, fw, data, strayIrq>>

\* core::ptr::write(addr_of_mut!(KERNEL_BOOT_INFO), kernel_boot_info)
StoreBootInfo ==
    /\ Go("store", "exit_alloc")
    /\ kbi' = collected
    /\ UNCHANGED <<cpu, fw, collected, arg, info, strayIrq>>

\* uefi::boot::exit_boot_services(LOADER_DATA) (external): a buffer for the
\* final map, or a panic ...
ExitAlloc ==
    /\ \/ Go("exit_alloc", "exit_get") /\ mem' \in Allocated(mem, "LOADER_DATA")
       \/ Go("exit_alloc", "panicked") /\ UNCHANGED mem
    /\ UNCHANGED <<cpu, bs, stale, tries, data, strayIrq>>

\* ... the map and its key ...
ExitGetMap ==
    /\ Go("exit_get", "exit_call")
    /\ stale' = FALSE
    /\ UNCHANGED <<cpu, bs, mem, tries, data, strayIrq>>

\* Mutants of the retry: it never gives up; it counts but does not look.
ExitRetriedForever ==
    /\ \/ ~stale /\ Go("exit_call", "forget") /\ bs' = FALSE
       \/ stale /\ Go("exit_call", "exit_get") /\ UNCHANGED bs
    /\ UNCHANGED <<cpu, mem, stale, tries, data, strayIrq>>
ExitRetryUnchecked ==
    /\ \/ ~stale /\ Go("exit_call", "forget") /\ bs' = FALSE /\ UNCHANGED tries
       \/ /\ stale /\ Go("exit_call", "exit_get")
          /\ tries' = tries - 1 /\ UNCHANGED bs
    /\ UNCHANGED <<cpu, mem, stale, data, strayIrq>>

\* ... and the call, which the firmware refuses when the key is stale: once
\* more from the map, then a cold reset.
ExitBootServices ==
    /\ \/ ~stale /\ Go("exit_call", "forget") /\ bs' = FALSE /\ UNCHANGED tries
       \/ /\ stale /\ tries > 1
          /\ Go("exit_call", "exit_get")
          /\ tries' = tries - 1 /\ UNCHANGED bs
       \/ /\ stale /\ tries = 1
          /\ Go("exit_call", "reset")
          /\ tries' = 0 /\ UNCHANGED bs
    /\ UNCHANGED <<cpu, mem, stale, data, strayIrq>>

\* Mutants: the final map is dropped, its buffer freed; it replaces the
\* published one.
DropFinalMap ==
    /\ Go("forget", "cli")
    /\ mem' \in Freed(mem, "LOADER_DATA")
    /\ UNCHANGED <<cpu, bs, stale, tries, data, strayIrq>>
PublishFinalMap ==
    /\ Go("forget", "cli")
    /\ kbi' = mem
    /\ UNCHANGED <<cpu, fw, collected, arg, info, strayIrq>>

\* core::mem::forget(_final_map): the final map is not looked at.
ForgetFinalMap ==
    /\ Go("forget", "cli")
    /\ UNCHANGED <<cpu, fw, data, strayIrq>>

\* Mutant: the asm block without its cli.
NoCli ==
    /\ Go("cli", "switch")
    /\ UNCHANGED <<cpu, fw, data, strayIrq>>

\* The asm block: cli ...
Cli ==
    /\ Go("cli", "switch")
    /\ ifl' = FALSE
    /\ UNCHANGED <<stack, gdt, cs, idt, idtReady, fw, data, strayIrq>>

\* ... mov rsp ...
SwitchToBootstrapStack ==
    /\ Go("switch", "call")
    /\ stack' = "bootstrap"
    /\ UNCHANGED <<ifl, gdt, cs, idt, idtReady, fw, data, strayIrq>>

\* ... mov rdi, info; call kernel_entry.  Under the Microsoft convention the
\* callee reads RCX, which holds whichever in(reg) operand the compiler put
\* there, or neither.
CallKernelEntry ==
    /\ Go("call", "kernel_entry")
    /\ arg' \in (IF Abi = "sysv64" THEN {"info"} ELSE {"info", "stack_top", "other"})
    /\ UNCHANGED <<cpu, fw, collected, kbi, info, strayIrq>>

-----------------------------------------------------------------------------
(* kernel_entry and kernel_main *)

\* is_null() or !is_valid(): FATAL on the serial line, halt.  The static
\* carries the magic from the start; other memory does not.
RejectBootInfo ==
    /\ Go("kernel_entry", "fatal_halt")
    /\ arg # "info"
    /\ UNCHANGED <<cpu, fw, data, strayIrq>>

\* Both checks pass: for the static, or for memory that happens to carry the
\* magic (the bytes past BOOTSTRAP_STACK may be KERNEL_BOOT_INFO itself).
AcceptBootInfo ==
    /\ Go("kernel_entry", "kernel_main")
    /\ arg \in {"info", "stack_top"}
    /\ UNCHANGED <<cpu, fw, data, strayIrq>>

\* kernel_main step 1: mov rsp to the top of KERNEL_STACK ...
SwitchToKernelStack ==
    /\ Go("kernel_main", "rederive")
    /\ stack' = "kernel"
    /\ UNCHANGED <<ifl, gdt, cs, idt, idtReady, fw, data, strayIrq>>

\* Mutant: the parameter is used after all.
UseParameter ==
    /\ Go("rederive", "serial_init")
    /\ info' = IF arg = "info" THEN kbi ELSE NoMap
    /\ UNCHANGED <<cpu, fw, collected, kbi, arg, strayIrq>>

\* ... and boot_info again from the static; the parameter is dropped.
RederiveBootInfo ==
    /\ Go("rederive", "serial_init")
    /\ info' = kbi
    /\ UNCHANGED <<cpu, fw, collected, kbi, arg, strayIrq>>

SerialInit ==
    /\ Go("serial_init", "lgdt")
    /\ UNCHANGED <<cpu, fw, data, strayIrq>>

\* gdt_init: lgdt, then retfq reloads CS (and mov the data segments).
LoadGdt ==
    /\ Go("lgdt", "retfq")
    /\ gdt' = "kernel"
    /\ UNCHANGED <<ifl, stack, cs, idt, idtReady, fw, data, strayIrq>>

\* Mutant: CS is left as the firmware set it.
SegmentsNotReloaded ==
    /\ Go("retfq", "idt_fill")
    /\ UNCHANGED <<cpu, fw, data, strayIrq>>

ReloadSegments ==
    /\ Go("retfq", "idt_fill")
    /\ cs' = "kernel"
    /\ UNCHANGED <<ifl, stack, gdt, idt, idtReady, fw, data, strayIrq>>

\* idt_init: 256 gates, then lidt.
PopulateIdt ==
    /\ Go("idt_fill", "lidt")
    /\ idtReady' = TRUE
    /\ UNCHANGED <<ifl, stack, gdt, cs, idt, fw, data, strayIrq>>

LoadIdt ==
    /\ Go("lidt", "report")
    /\ idt' = "kernel"
    /\ UNCHANGED <<ifl, stack, gdt, cs, idtReady, fw, data, strayIrq>>

\* print_memory_map, ACPI, framebuffer, halt().
ReportAndHalt ==
    /\ Go("report", "halted")
    /\ UNCHANGED <<cpu, fw, data, strayIrq>>

\* A fault once the firmware is gone.  The kernel's gates name selector 0x08
\* of the kernel's GDT; the firmware's name a selector of the firmware's,
\* which the kernel's table need not have.
FaultTargets ==
    IF idt = "kernel"
    THEN IF idtReady /\ gdt = "kernel" THEN {"exception_halt"}
         ELSE {"exception_halt", "triple_fault"}
    ELSE IF gdt = "firmware" THEN {"firmware_handler"}
         ELSE {"firmware_handler", "triple_fault"}

Fault ==
    /\ ~bs
    /\ pc \in LoaderPcs \cup KernelPcs \cup {"halted", "fatal_halt"}
    /\ pc' \in FaultTargets
    /\ ifl' = FALSE
    /\ UNCHANGED <<stack, gdt, cs, idt, idtReady, fw, data, strayIrq>>

-----------------------------------------------------------------------------
LoaderStep ==
    \/ HelpersInit \/ MemoryMapAlloc \/ MemoryMapFails \/ MemoryMapGet
    \/ BuildBootInfo \/ StoreBootInfo \/ ExitAlloc \/ ExitGetMap
    \/ ExitBootServices \/ ForgetFinalMap
    \/ Cli \/ SwitchToBootstrapStack \/ CallKernelEntry

KernelStep ==
    \/ RejectBootInfo \/ AcceptBootInfo \/ SwitchToKernelStack
    \/ RederiveBootInfo \/ SerialInit \/ LoadGdt \/ ReloadSegments
    \/ PopulateIdt \/ LoadIdt \/ ReportAndHalt

Next == LoaderStep \/ KernelStep \/ FirmwareEvent \/ DeviceInterrupt \/ Fault

Spec == Init /\ [][Next]_vars

\* The boot CPU executes its instructions: nothing schedules it away.  No
\* fairness for the firmware's events, interrupts or faults.
FairSpec == Spec /\ WF_vars(LoaderStep \/ KernelStep)

-----------------------------------------------------------------------------
\* Type correctness.
TypeOK ==
    /\ pc \in LoaderPcs \cup KernelPcs \cup FinalPcs
    /\ bs \in BOOLEAN /\ ifl \in BOOLEAN /\ idtReady \in BOOLEAN
    /\ stale \in BOOLEAN /\ strayIrq \in BOOLEAN
    /\ stack \in {"uefi", "bootstrap", "kernel"}
    /\ gdt \in {"firmware", "kernel"} /\ cs \in {"firmware", "kernel"}
    /\ idt \in {"firmware", "kernel"}
    /\ mem \in Maps
    /\ tries \in 0 .. 2
    /\ collected \in Maps \cup {NoMap} /\ kbi \in Maps \cup {NoMap}
    /\ info \in Maps \cup {NoMap}
    /\ arg \in {"none", "info", "stack_top", "other"}

\* Kernel code runs only with boot services gone, interrupts off, off the
\* firmware's stack and with KERNEL_BOOT_INFO populated.  The magic check
\* cannot see the last: an unpopulated static already carries the magic.
KernelRunsOwned ==
    pc \in KernelPcs \cup {"halted", "fatal_halt", "exception_halt"} =>
        /\ ~bs /\ ~ifl
        /\ kbi # NoMap
        /\ pc \in KernelPcs => stack # "uefi"

\* From the re-derivation on, kernel_main works with what efi_main collected,
\* whatever pointer kernel_entry was given.
KernelUsesCollected ==
    pc \in {"serial_init", "lgdt", "retfq", "idt_fill", "lidt", "report",
            "halted"} => info = collected /\ info # NoMap

\* Once the kernel's IDT is live it is complete and its gates' selector names
\* the kernel's own code segment, in which the CPU already executes: a fault
\* then always ends in exception_handler.
FaultsCaughtOnceIdtLive ==
    idt = "kernel" => FaultTargets = {"exception_halt"} /\ cs = "kernel"

\* A triple fault can only come out of the window between the kernel's lgdt
\* and its lidt.
TripleFaultOnlyInWindow ==
    pc = "triple_fault" => gdt = "kernel" /\ idt = "firmware"

\* KERNEL_BOOT_INFO is written once, with the collected record, while boot
\* services are still there: never after the kernel may have looked at it.
BootInfoWrittenOnce ==
    [][kbi' # kbi => kbi = NoMap /\ bs /\ kbi' = collected]_vars

\* After the exit no boot service is used again, not even to give back the
\* buffer of the final map: the firmware's memory map does not change.
NoFirmwareCallAfterExit == [][~bs => ~bs' /\ mem' = mem]_vars

\* efi_main never hangs in the exit retry: the machine ends up in one of its
\* final states.
BootEnds == <>(pc \in FinalPcs)

-----------------------------------------------------------------------------
(* Refinement of BootContract *)

\* The phase, read off the machine state and not off the program counter.
Phase ==
    CASE bs -> "Firmware"
      [] ~bs /\ idt = "kernel" -> "Protected"
      [] ~bs /\ idt # "kernel" /\ ~ifl /\ stack # "uefi" -> "Kernel"
      [] OTHER -> "Transition"

Contract == INSTANCE BootContract
              WITH Records <- Maps, Unset <- NoMap, phase <- Phase,
                   record <- kbi, stopped <- pc \in FinalPcs

\* The boot code goes through the phases of BootContract in order, publishes
\* its record before boot services exit, and stops in the end.
ImplementsBootContract == Contract!Spec

-----------------------------------------------------------------------------
(* What comments and documents say, for the runs that compare. *)

\* docs/adr/ADR-0001: interrupts are disabled, so none is taken between
\* exit_boot_services and the stack switch.
NoInterruptInWindow == ~strayIrq

\* MemoryRegionKind::Usable is "available for physical page allocation
\* immediately after boot": the firmware says the same of it at exit.
UsableIsFree ==
    pc = "report" =>
        \A p \in Pages : info[p] = "CONVENTIONAL" => mem[p] = "CONVENTIONAL"

\* kernel_entry's contract: it receives the address of KERNEL_BOOT_INFO.
EntryGetsBootInfo == pc = "kernel_entry" => arg = "info"
=============================================================================
