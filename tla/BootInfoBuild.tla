--------------------------- MODULE BootInfoBuild ---------------------------
(***************************************************************************)
(* How efi_main turns what the firmware reports into the KernelBootInfo it *)
(* hands over: retrieve_memory_map with MemoryMap::from_uefi_memory_map,   *)
(* print_memory_summary, find_acpi_tables, get_framebuffer_info and        *)
(* BootInfo::to_kernel_boot_info (boot/src/main.rs, memory.rs,             *)
(* boot_info.rs), in that order.                                           *)
(*                                                                         *)
(* The firmware's answers are the argument of BCall.  Attributes, names    *)
(* and the console text are left out: nothing depends on them.             *)
(***************************************************************************)
EXTENDS Integers, Sequences, FiniteSets, MemoryTypes

CONSTANTS
    PageSize,        \* 4096
    MaxWord,         \* u64::MAX
    MaxHalf,         \* u32::MAX
    MaxDescriptors,  \* MAX_MEMORY_DESCRIPTORS
    Firmwares,       \* what the firmware may report
    None             \* Option::None: no ACPI table, no framebuffer

ASSUME BuildAssumption ==
    /\ PageSize \in Nat \ {0}
    /\ MaxWord \in Nat
    /\ (MaxWord + 1) % PageSize = 0
    /\ MaxHalf \in Nat /\ (MaxHalf + 1) * (MaxHalf + 1) = MaxWord + 1
    /\ MaxDescriptors \in Nat

\* The firmware's answers: UEFI descriptors, configuration table entries and
\* the current mode of the graphics output (external).
UefiDescriptors ==
    [ty: UefiTypes, phys_start: 0 .. MaxWord, page_count: 0 .. MaxWord]
ConfigEntries == [guid: STRING, address: Nat]
GopModes ==
    [base: 0 .. MaxWord, width: 0 .. MaxHalf, height: 0 .. MaxHalf,
     stride: 0 .. MaxHalf,
     format: {"Rgb", "Bgr", "Bitmask", "BltOnly"}]

\* The firmware keeps no table at address 0, which to_kernel_boot_info uses for
\* "no ACPI table", and a scan line holds at least the visible pixels.
\* None is none of the values it stands beside.
ASSUME FirmwaresAssumption ==
    /\ None \notin Nat /\ None \notin GopModes
    /\ \A f \in Firmwares :
          /\ f.map \in Seq(UefiDescriptors)
          /\ f.config \in Seq(ConfigEntries)
          /\ \A j \in DOMAIN f.config : f.config[j].address # 0
          /\ f.gop # None => f.gop \in GopModes /\ f.gop.width <= f.gop.stride

VARIABLES
    checks,        \* overflow-checks of the build: TRUE in dev, FALSE in release
    bpc,           \* where efi_main is
    firmware,      \* [map, config, gop]: UEFI map, configuration table, GOP mode
    k,             \* position in the loop that is running, from 1
    regions,       \* MemoryMap.regions
    totalMemory,   \* MemoryMap.total_memory
    usableMemory,  \* MemoryMap.usable_memory
    acpi, fb,      \* acpi_rsdp_address, framebuffer
    kbi            \* the KernelBootInfo under construction

bvars == <<checks, bpc, firmware, k, regions, totalMemory, usableMemory, acpi, fb,
           kbi>>

-----------------------------------------------------------------------------
\* Mutant: the sum is not clamped.
SatSumUnclamped(a, b) == a + b

\* u64::saturating_add.
SatSum(a, b) == IF a + b > MaxWord THEN MaxWord ELSE a + b

Wrap(n) == n % (MaxWord + 1)

\* MemoryRegion::new(desc.phys_start, desc.page_count * PAGE_SIZE, ..)
RegionOf(d) ==
    [start |-> d.phys_start, size |-> Wrap(d.page_count * PageSize),
     type  |-> RegionTypeFrom(d.ty)]

\* Mutant: ties come out in reverse.
SortPositionReversed(s, j) ==
    Cardinality({m \in DOMAIN s : \/ s[m].start < s[j].start
                                  \/ s[m].start = s[j].start /\ m >= j})

\* regions.sort_by_key(|r| r.start): Rust's slice sort is stable, so a region
\* ends up behind those that start lower and those that tie and came first.
SortPosition(s, j) ==
    Cardinality({m \in DOMAIN s : \/ s[m].start < s[j].start
                                  \/ s[m].start = s[j].start /\ m <= j})
SortByStart(s) ==
    [p \in DOMAIN s |-> s[CHOOSE j \in DOMAIN s : SortPosition(s, j) = p]]

\* find_acpi_tables: the first ACPI 2.0 entry of the configuration table,
\* else the first ACPI 1.0 entry.
FirstWith(config, guid) ==
    LET at == {j \in DOMAIN config : config[j].guid = guid}
    IN IF at = {} THEN None
       ELSE config[CHOOSE j \in at : \A m \in at : j <= m].address

\* Mutant: ACPI 1.0 preferred.
FindOldAcpiTables(config) ==
    IF FirstWith(config, "ACPI1") # None THEN FirstWith(config, "ACPI1")
    ELSE FirstWith(config, "ACPI2")

FindAcpiTables(config) ==
    IF FirstWith(config, "ACPI2") # None THEN FirstWith(config, "ACPI2")
    ELSE FirstWith(config, "ACPI1")

\* PixelFormat of the bootloader for a GOP mode, and of the kernel.
PixelFormatFrom(format) ==
    IF format \in {"Rgb", "Bgr", "Bitmask"} THEN format ELSE "Unknown"

KernelPixelFormat(format) ==
    CASE format = "Rgb"     -> "RGB"
      [] format = "Bgr"     -> "BGR"
      [] format = "Bitmask" -> "BITMASK"
      [] format = "Unknown" -> "UNKNOWN"

\* mode_info.stride() as u32 * 4, bytes per row, as the release build computes
\* it, and when the dev build panics instead.
BytesPerRow(gop) == (gop.stride * 4) % (MaxHalf + 1)
RowOverflows(gop) == gop.stride * 4 > MaxHalf

\* gop.frame_buffer() asserts that there is one (external).
NoLinearFramebuffer(gop) == gop.format = "BltOnly"

GetFramebufferInfo(gop) ==
    IF gop = None THEN None
    ELSE [base |-> gop.base, width |-> gop.width, height |-> gop.height,
          stride |-> BytesPerRow(gop), format |-> PixelFormatFrom(gop.format)]

\* FramebufferInfo::size: a product of two u32 fits a u64.
FramebufferSize(f) == f.stride * f.height

\* The framebuffer part of to_kernel_boot_info, and KernelFramebuffer::zeroed.
KernelFramebufferFrom(f) ==
    IF f = None
    THEN [base |-> 0, width |-> 0, height |-> 0, stride |-> 0, size |-> 0,
          pixel_format |-> "UNKNOWN"]
    ELSE [base |-> f.base, width |-> f.width, height |-> f.height,
          stride |-> f.stride, size |-> FramebufferSize(f),
          pixel_format |-> KernelPixelFormat(f.format)]

\* Mutant: bytes where pages belong.
KernelDescriptorInBytes(r) ==
    [ty |-> RegionTypeToUefi(r.type), phys_start |-> r.start,
     page_count |-> r.size]

\* One entry of the fixed array handed to the kernel.
KernelDescriptorFrom(r) ==
    [ty |-> RegionTypeToUefi(r.type), phys_start |-> r.start,
     page_count |-> r.size \div PageSize]

\* KernelBootInfo::new()
NewKernelBootInfo ==
    [entries |-> <<>>, truncated |-> FALSE, acpi_rsdp |-> 0,
     has_framebuffer |-> FALSE, framebuffer |-> KernelFramebufferFrom(None)]

-----------------------------------------------------------------------------
NoFirmware == [map |-> <<>>, config |-> <<>>, gop |-> None]

BInit ==
    /\ checks \in BOOLEAN
    /\ bpc = "idle"
    /\ firmware = NoFirmware
    /\ k = 1
    /\ regions = <<>>
    /\ totalMemory = 0 /\ usableMemory = 0
    /\ acpi = None /\ fb = None
    /\ kbi = NewKernelBootInfo

\* uefi::boot::memory_map succeeded with the map of f.
BCall(f) ==
    /\ bpc = "idle"
    /\ bpc' = "collect"
    /\ firmware' = f
    /\ UNCHANGED <<checks, k, regions, totalMemory, usableMemory, acpi, fb, kbi>>

\* The panic handler spins.
BPanic ==
    /\ bpc' = "panic"
    /\ UNCHANGED <<checks, firmware, k, regions, totalMemory, usableMemory, acpi, fb,
                   kbi>>

\* desc.page_count * PAGE_SIZE does not fit a u64, with overflow checks on.
CollectPanics ==
    /\ checks /\ bpc = "collect" /\ k <= Len(firmware.map)
    /\ firmware.map[k].page_count * PageSize > MaxWord
    /\ BPanic

\* One iteration of from_uefi_memory_map.
CollectDescriptor ==
    /\ bpc = "collect" /\ k <= Len(firmware.map)
    /\ checks => firmware.map[k].page_count * PageSize <= MaxWord
    /\ LET r == RegionOf(firmware.map[k])
       IN /\ totalMemory' = IF IsMmioRegion(r.type) THEN totalMemory
                            ELSE SatSum(totalMemory, r.size)
          /\ usableMemory' = IF IsUsableRegion(r.type)
                             THEN SatSum(usableMemory, r.size) ELSE usableMemory
          /\ regions' = Append(regions, r)
    /\ k' = k + 1
    /\ UNCHANGED <<checks, bpc, firmware, acpi, fb, kbi>>

\* The end of from_uefi_memory_map.
SortRegions ==
    /\ bpc = "collect" /\ k > Len(firmware.map)
    /\ regions' = SortByStart(regions)
    /\ bpc' = "summary"
    /\ UNCHANGED <<checks, firmware, k, totalMemory, usableMemory, acpi, fb, kbi>>

\* print_memory_summary adds region.start + region.size, unchecked, for every
\* region; it only prints, so the loop is one step.
EndOverflows(r) == r.start + r.size > MaxWord

SummaryPanics ==
    /\ checks /\ bpc = "summary"
    /\ \E j \in DOMAIN regions : EndOverflows(regions[j])
    /\ BPanic

PrintMemorySummary ==
    /\ bpc = "summary"
    /\ checks => \A j \in DOMAIN regions : ~EndOverflows(regions[j])
    /\ bpc' = "devices"
    /\ UNCHANGED <<checks, firmware, k, regions, totalMemory, usableMemory, acpi, fb,
                   kbi>>

\* get_framebuffer_info on a display it cannot describe.
FramebufferPanics ==
    /\ bpc = "devices"
    /\ firmware.gop # None
    /\ (checks /\ RowOverflows(firmware.gop)) \/ NoLinearFramebuffer(firmware.gop)
    /\ BPanic

\* find_acpi_tables, get_framebuffer_info and the BootInfo they go into.
FindDevices ==
    /\ bpc = "devices"
    /\ firmware.gop # None =>
          /\ checks => ~RowOverflows(firmware.gop)
          /\ ~NoLinearFramebuffer(firmware.gop)
    /\ acpi' = FindAcpiTables(firmware.config)
    /\ fb' = GetFramebufferInfo(firmware.gop)
    /\ k' = 1
    /\ bpc' = "convert"
    /\ UNCHANGED <<checks, firmware, regions, totalMemory, usableMemory, kbi>>

\* Mutant: an empty region is passed over, but never left.
CopyNonEmpty ==
    /\ bpc = "convert" /\ k <= Len(regions)
    /\ Len(kbi.entries) < MaxDescriptors
    /\ regions[k].size # 0
    /\ kbi' = [kbi EXCEPT !.entries = Append(@, KernelDescriptorFrom(regions[k]))]
    /\ k' = k + 1
    /\ UNCHANGED <<checks, bpc, firmware, regions, totalMemory, usableMemory, acpi, fb>>

\* One iteration of the copy loop in to_kernel_boot_info ...
CopyRegion ==
    /\ bpc = "convert" /\ k <= Len(regions)
    /\ Len(kbi.entries) < MaxDescriptors
    /\ kbi' = [kbi EXCEPT !.entries = Append(@, KernelDescriptorFrom(regions[k]))]
    /\ k' = k + 1
    /\ UNCHANGED <<checks, bpc, firmware, regions, totalMemory, usableMemory, acpi, fb>>

\* The loop met the capacity with a region still to copy.
RegionsLeft == k <= Len(regions)

\* ... and its end, after the last region or at the capacity of the array.
FinishConversion ==
    /\ bpc = "convert"
    /\ k > Len(regions) \/ Len(kbi.entries) >= MaxDescriptors
    /\ kbi' = [kbi EXCEPT !.truncated = RegionsLeft,
                          !.acpi_rsdp = IF acpi = None THEN 0 ELSE acpi,
                          !.framebuffer = KernelFramebufferFrom(fb),
                          !.has_framebuffer = fb # None]
    /\ bpc' = "built"
    /\ UNCHANGED <<checks, firmware, k, regions, totalMemory, usableMemory, acpi, fb>>

BStep ==
    \/ CollectPanics \/ CollectDescriptor \/ SortRegions
    \/ SummaryPanics \/ PrintMemorySummary
    \/ FramebufferPanics \/ FindDevices \/ CopyRegion \/ FinishConversion

-----------------------------------------------------------------------------
\* Type correctness of the values handed on.
BTypeOK ==
    /\ bpc \in {"idle", "collect", "summary", "devices", "convert", "built",
                "panic"}
    /\ k \in Nat \ {0}
    /\ totalMemory \in 0 .. MaxWord /\ usableMemory \in 0 .. MaxWord
    /\ \A j \in DOMAIN regions :
          regions[j].start \in 0 .. MaxWord /\ regions[j].size \in 0 .. MaxWord
    /\ Len(kbi.entries) <= MaxDescriptors
    /\ \A j \in DOMAIN kbi.entries : kbi.entries[j].ty \in UefiTypes

\* Kernel descriptor e stands for UEFI descriptor d: the same place, the same
\* kind, and the same number of pages, up to the wrap of page_count * 4096.
StandsFor(e, d) ==
    /\ e.phys_start = d.phys_start
    /\ KindFrom(e.ty) = KindFrom(d.ty)
    /\ e.page_count = d.page_count % ((MaxWord + 1) \div PageSize)
    /\ checks => e.page_count = d.page_count

\* The map handed over lists the lowest regions the firmware reported, each
\* once, by address and ties in firmware order; what a full array drops lies
\* at or above everything it keeps, and then and only then truncated is set.
HandoverFaithful ==
    bpc = "built" =>
        LET map == firmware.map
            n   == Len(kbi.entries)
            Before(a, b) == \/ map[a].phys_start < map[b].phys_start
                            \/ map[a].phys_start = map[b].phys_start /\ a < b
        IN /\ \E f \in [1 .. n -> DOMAIN map] :
                 /\ \A j \in 1 .. n : StandsFor(kbi.entries[j], map[f[j]])
                 /\ \A a, b \in 1 .. n : a < b => Before(f[a], f[b])
                 /\ \A m \in DOMAIN map \ {f[j] : j \in 1 .. n} :
                       \A j \in 1 .. n : Before(f[j], m)
           /\ kbi.truncated <=> n < Len(map)
           /\ kbi.truncated => n = MaxDescriptors

\* The bootloader's own totals are consistent while they saturate: memory it
\* calls usable is never more than the memory it counts at all.
BootTotalsConsistent == usableMemory <= totalMemory

\* The kernel is told of an RSDP exactly when the firmware has an ACPI table,
\* and prefers ACPI 2.0 wherever it is in the table.  A framebuffer it is told
\* of has a known format and, unless the u32 bytes per row wrapped in a
\* release build, a size that covers every visible pixel.
DevicesFaithful ==
    bpc = "built" =>
        LET gop   == firmware.gop
            guids == {firmware.config[j].guid : j \in DOMAIN firmware.config}
            entry == {c \in {firmware.config[j] : j \in DOMAIN firmware.config} :
                         c.address = kbi.acpi_rsdp}
        IN /\ kbi.acpi_rsdp # 0 <=> guids \cap {"ACPI1", "ACPI2"} # {}
           /\ "ACPI2" \in guids => \E c \in entry : c.guid = "ACPI2"
           /\ kbi.has_framebuffer <=> gop # None
           /\ kbi.has_framebuffer =>
                 /\ kbi.framebuffer.pixel_format # "UNKNOWN"
                 /\ \/ kbi.framebuffer.size >= 4 * gop.width * gop.height
                    \/ ~checks /\ RowOverflows(gop)
=============================================================================
