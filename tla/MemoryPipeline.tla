--------------------------- MODULE MemoryPipeline ---------------------------
(***************************************************************************)
(* The physical memory map from the firmware to the kernel's allocator:    *)
(* BootInfoBuild (efi_main) hands the map over, kernel_main reports it     *)
(* (MemoryReport), and kernel::memory::init parses it (MemoryMapParse).    *)
(* The boot binary does not call init yet; its documented argument is the  *)
(* handed-over map.                                                        *)
(* Three pieces of code classify and add up the same memory, each in its   *)
(* own way; the properties are about their agreement.                      *)
(***************************************************************************)
EXTENDS BootInfoBuild

VARIABLES rpc, rmap, ri, rTotal, rUsable, rReclaimable
VARIABLES ppc, psource, pi, parsed, total, usable, reclaimable, usableCount,
          result

rvars == <<rpc, rmap, ri, rTotal, rUsable, rReclaimable>>
pvars == <<ppc, psource, pi, parsed, total, usable, reclaimable, usableCount, result>>
vars  == <<bvars, rvars, pvars>>

HandedOver == [entries |-> kbi.entries, truncated |-> kbi.truncated]

Report == INSTANCE MemoryReport
Parse  == INSTANCE MemoryMapParse
            WITH pc <- ppc, source <- psource, i <- pi, regions <- parsed,
                 Sources <- {}

Init == BInit /\ Report!RInit /\ Parse!Init

\* uefi::boot::memory_map returns to efi_main ...
FirmwareAnswers ==
    /\ bpc = "idle"
    /\ \E f \in Firmwares : BCall(f)
    /\ UNCHANGED <<rvars, pvars>>

\* ... which goes on to the KernelBootInfo.
Bootloader == BStep /\ UNCHANGED <<rvars, pvars>>

\* kernel_main: print_memory_map(&boot_info.memory_map).
PrintMemoryMap ==
    /\ \/ bpc = "built" /\ Report!RCall(kbi.entries)
       \/ Report!RStep
    /\ UNCHANGED <<bvars, pvars>>

\* kernel::memory::init: MemoryMap::parse(&boot_info.memory_map).
ParseMemoryMap ==
    /\ \/ rpc = "done" /\ Parse!Call(HandedOver)
       \/ Parse!Step
    /\ UNCHANGED <<bvars, rvars>>

CpuStep == Bootloader \/ PrintMemoryMap \/ ParseMemoryMap

Next == FirmwareAnswers \/ CpuStep

\* Straight-line code on the boot CPU: once the firmware has answered, it runs.
Spec == Init /\ [][Next]_vars /\ WF_vars(CpuStep)

-----------------------------------------------------------------------------
\* The boot log and the allocator see the same memory: print_memory_map and
\* MemoryMap::parse agree on usable and reclaimable bytes although one goes by
\* UEFI code and the other by kind, and the log's total differs from the
\* parsed one only by counting firmware runtime memory.
LogAgreesWithParse ==
    ppc = "done" /\ result = Parse!Ok =>
        /\ usable = rUsable
        /\ reclaimable = rReclaimable
        /\ total <= rTotal
        /\ (\A j \in DOMAIN parsed :
               Parse!KindFrom(parsed[j].ty) # "FirmwareRuntime") => total = rTotal

\* The bootloader's usable_memory() is what the kernel may use after all
\* reclamation, unless the map was truncated; truncation only loses memory.
BootAgreesWithKernel ==
    ppc = "done" /\ result = Parse!Ok =>
        /\ Parse!TotalUsableAfterBoot <= usableMemory
        /\ ~kbi.truncated => /\ Parse!TotalUsableAfterBoot = usableMemory
                             /\ rTotal = totalMemory

\* A page count the bootloader could turn into bytes can be turned back: on a
\* handed-over map the kernel's unchecked page_count * 4096 never overflows,
\* so neither print_memory_map nor parse panics in a dev build.
KernelSizesNeverOverflow ==
    /\ rpc # "panic"
    /\ result # Parse!Panic
    /\ bpc = "built" =>
          \A j \in DOMAIN kbi.entries :
              kbi.entries[j].page_count * PageSize <= MaxWord

\* Every map gets through: the kernel has its own map, or parse's error, unless
\* the bootloader panicked; no loop over the regions waits or spins.
MapGetsThrough == bpc = "collect" ~> (bpc = "panic" \/ ppc = "done")

\* "The kernel will detect truncation and halt" (lib/boot-info/src/lib.rs, on
\* MAX_MEMORY_DESCRIPTORS): a truncated map is never reported to the end.
TruncationStopsKernel == kbi.truncated => rpc # "done"
=============================================================================
