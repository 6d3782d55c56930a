-------------------------- MODULE MCMemoryPipeline --------------------------
(***************************************************************************)
(* Small instances of MemoryPipeline: 8-bit words, 4-bit half words,       *)
(* 4-byte pages, firmware maps of up to MaxDescriptors + 1 entries.        *)
(***************************************************************************)
EXTENDS MemoryPipeline, SequencesExt

\* 64 and 65 pages overflow a word; 63 pages from 4 end exactly past the last
\* address, from 8 beyond it; 40 pages twice saturate a total; 3 is unaligned.
SampleDescriptors ==
    [ty: {"CONVENTIONAL", "BOOT_SERVICES_CODE", "RUNTIME_SERVICES_CODE", "MMIO"},
     phys_start: {0, 4}, page_count: {1, 40}]
    \cup [ty: {"ACPI_RECLAIM", "ACPI_NON_VOLATILE", "OTHER"}, phys_start: {8},
          page_count: {63}]
    \cup [ty: {"CONVENTIONAL"}, phys_start: {4}, page_count: {0, 63, 64, 65}]
    \cup [ty: {"CONVENTIONAL"}, phys_start: {3}, page_count: {1}]

\* A row of four pixels is the first whose bytes do not fit a half word.
ACPITables ==
    SeqOf({[guid |-> "ACPI1", address |-> 1], [guid |-> "ACPI2", address |-> 2],
           [guid |-> "SMBIOS", address |-> 3]}, 3)
Modes ==
    {None} \cup [base: {5}, width: {2}, height: {2, 15}, stride: {2, 3, 4, 5},
                 format: {"Rgb", "Bgr", "Bitmask", "BltOnly"}]
SmallMap == <<[ty |-> "CONVENTIONAL", phys_start |-> 0, page_count |-> 1]>>

\* Devices vary with a fixed map, maps vary with fixed devices.
MCFirmwares ==
    [map: SeqOf(SampleDescriptors, MaxDescriptors + 1), config: {<<>>}, gop: {None}]
    \cup [map: {SmallMap}, config: ACPITables, gop: Modes]
=============================================================================
