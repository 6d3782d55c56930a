---------------------------- MODULE MemoryTypes ----------------------------
(***************************************************************************)
(* The memory-type vocabularies of Ferrous Kernel and the conversions      *)
(* between them:                                                           *)
(*   - the UEFI codes (lib/boot-info, mod memory_type), here by name;      *)
(*     "OTHER" stands for every code the table does not list;              *)
(*   - the bootloader's enum MemoryRegionType (boot/src/memory.rs);        *)
(*   - the kernel's classification MemoryRegionKind (lib/boot-info).       *)
(***************************************************************************)

UefiTypes ==
    {"RESERVED", "LOADER_CODE", "LOADER_DATA", "BOOT_SERVICES_CODE",
     "BOOT_SERVICES_DATA", "RUNTIME_SERVICES_CODE", "RUNTIME_SERVICES_DATA",
     "CONVENTIONAL", "UNUSABLE", "ACPI_RECLAIM", "ACPI_NON_VOLATILE", "MMIO",
     "MMIO_PORT_SPACE", "PERSISTENT_MEMORY", "OTHER"}

\* impl From<UefiMemoryType> for MemoryRegionType.
RegionTypeFrom(ty) ==
    CASE ty = "RESERVED"              -> "Reserved"
      [] ty = "LOADER_CODE"           -> "LoaderCode"
      [] ty = "LOADER_DATA"           -> "LoaderData"
      [] ty = "BOOT_SERVICES_CODE"    -> "BootServicesCode"
      [] ty = "BOOT_SERVICES_DATA"    -> "BootServicesData"
      [] ty = "RUNTIME_SERVICES_CODE" -> "RuntimeServicesCode"
      [] ty = "RUNTIME_SERVICES_DATA" -> "RuntimeServicesData"
      [] ty = "CONVENTIONAL"          -> "Conventional"
      [] ty = "UNUSABLE"              -> "Unusable"
      [] ty = "ACPI_RECLAIM"          -> "AcpiReclaimable"
      [] ty = "ACPI_NON_VOLATILE"     -> "AcpiNvs"
      [] ty = "MMIO"                  -> "Mmio"
      [] ty = "MMIO_PORT_SPACE"       -> "MmioPortSpace"
      [] ty = "PERSISTENT_MEMORY"     -> "Persistent"
      [] OTHER                        -> "Unknown"

\* fn memory_region_type_to_uefi_u32: the way back, when the map is handed
\* over.  "Usable" is a variant of the enum no conversion produces.
RegionTypeToUefi(rt) ==
    CASE rt = "Reserved"              -> "RESERVED"
      [] rt = "LoaderCode"            -> "LOADER_CODE"
      [] rt = "LoaderData"            -> "LOADER_DATA"
      [] rt = "BootServicesCode"      -> "BOOT_SERVICES_CODE"
      [] rt = "BootServicesData"      -> "BOOT_SERVICES_DATA"
      [] rt = "RuntimeServicesCode"   -> "RUNTIME_SERVICES_CODE"
      [] rt = "RuntimeServicesData"   -> "RUNTIME_SERVICES_DATA"
      [] rt \in {"Conventional", "Usable"} -> "CONVENTIONAL"
      [] rt = "Unusable"              -> "UNUSABLE"
      [] rt = "AcpiReclaimable"       -> "ACPI_RECLAIM"
      [] rt = "AcpiNvs"               -> "ACPI_NON_VOLATILE"
      [] rt = "Mmio"                  -> "MMIO"
      [] rt = "MmioPortSpace"         -> "MMIO_PORT_SPACE"
      [] rt = "Persistent"            -> "PERSISTENT_MEMORY"
      [] rt = "Unknown"               -> "RESERVED"

\* Mutants: a deny-list that forgets MMIO; ACPI tables not reclaimed.
UsableByDenyList(rt) ==
    rt \notin {"Reserved", "RuntimeServicesCode", "RuntimeServicesData",
               "Unusable", "AcpiNvs", "Unknown"}
UsableWithoutAcpi(rt) ==
    rt \in {"Usable", "Conventional", "BootServicesCode", "BootServicesData",
            "LoaderCode", "LoaderData"}

\* MemoryRegionType::is_usable, the bootloader's idea of kernel memory.
IsUsableRegion(rt) ==
    rt \in {"Usable", "Conventional", "BootServicesCode", "BootServicesData",
            "LoaderCode", "LoaderData", "AcpiReclaimable"}

\* The types MemoryMap::from_uefi_memory_map leaves out of total_memory.
IsMmioRegion(rt) == rt \in {"Mmio", "MmioPortSpace"}

\* impl From<u32> for MemoryRegionKind.
KindFrom(ty) ==
    CASE ty = "CONVENTIONAL" -> "Usable"
      [] ty \in {"LOADER_CODE", "LOADER_DATA", "BOOT_SERVICES_CODE",
                 "BOOT_SERVICES_DATA"} -> "BootloaderReclaimable"
      [] ty = "ACPI_RECLAIM" -> "AcpiReclaimable"
      [] ty = "ACPI_NON_VOLATILE" -> "AcpiNonVolatile"
      [] ty \in {"RUNTIME_SERVICES_CODE", "RUNTIME_SERVICES_DATA"} ->
            "FirmwareRuntime"
      [] ty \in {"MMIO", "MMIO_PORT_SPACE"} -> "Mmio"
      [] ty = "PERSISTENT_MEMORY" -> "PersistentMemory"
      [] ty = "UNUSABLE" -> "Unusable"
      [] OTHER -> "Reserved"

Kinds ==
    {"Usable", "BootloaderReclaimable", "AcpiReclaimable", "AcpiNonVolatile",
     "FirmwareRuntime", "Mmio", "PersistentMemory", "Unusable", "Reserved"}

\* The kinds MemoryMap::parse leaves out of total_bytes, and the two classes
\* it adds up separately.
NotRam       == {"Mmio", "FirmwareRuntime"}
UsableKinds  == {"Usable"}
ReclaimKinds == {"BootloaderReclaimable", "AcpiReclaimable"}

\* Mutant: ACPI tables not reclaimed.
UsableAfterBootWithoutAcpi(ty) ==
    ty \in {"CONVENTIONAL", "BOOT_SERVICES_CODE", "BOOT_SERVICES_DATA",
            "LOADER_CODE", "LOADER_DATA"}

\* is_mmio and is_usable_after_boot of boot/src/main.rs, on the raw codes.
IsMmioCode(ty) == ty \in {"MMIO", "MMIO_PORT_SPACE"}
IsUsableAfterBoot(ty) ==
    ty \in {"CONVENTIONAL", "BOOT_SERVICES_CODE", "BOOT_SERVICES_DATA",
            "LOADER_CODE", "LOADER_DATA", "ACPI_RECLAIM"}
=============================================================================
