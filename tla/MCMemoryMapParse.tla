-------------------------- MODULE MCMemoryMapParse --------------------------
(***************************************************************************)
(* Small instances of MemoryMapParse: 5-bit words, 4-byte pages, every map *)
(* of at most MaxDescriptors descriptors over SampleDescriptors.  A page   *)
(* count of 8 is the first whose size does not fit a word; 7 pages twice   *)
(* saturate a counter; 1 is an unaligned base.                             *)
(***************************************************************************)
EXTENDS MemoryQueries, ParseRefinement

SampleDescriptors ==
    [ty: {"CONVENTIONAL", "BOOT_SERVICES_DATA", "ACPI_RECLAIM",
          "RUNTIME_SERVICES_DATA", "MMIO", "OTHER"},
     phys_start: {0}, page_count: {1, 7}]
    \cup [ty: {"CONVENTIONAL"}, phys_start: {0, 1}, page_count: {0, 1, 8, 9}]

MCSources ==
    [entries: SeqOf(SampleDescriptors, MaxDescriptors), truncated: {FALSE}]
    \cup [entries: SeqOf(SampleDescriptors, 1), truncated: {TRUE}]
=============================================================================
