--------------------------- MODULE MemoryQueries ---------------------------
(***************************************************************************)
(* What the allocator may ask of a parsed map (lib/boot-info): the         *)
(* descriptor slice, the filtering iterators and the two predicates on     *)
(* kinds.  All of them read the regions MemoryMapParse left; iterators     *)
(* yield in map order, so each is a subsequence.                           *)
(***************************************************************************)
EXTENDS MemoryMapParse, SequencesExt

\* Mutant: the word "reclaimable" taken at its face.
ReclaimableOnly(kind) == kind \in {"BootloaderReclaimable", "AcpiReclaimable"}

\* MemoryRegionKind::is_reclaimable_after_boot and is_immediately_usable.
IsReclaimableAfterBoot(kind) ==
    kind \in {"Usable", "BootloaderReclaimable", "AcpiReclaimable"}
IsImmediatelyUsable(kind) == kind = "Usable"

\* KernelMemoryDescriptor::is_usable, on the raw code.
IsUsable(d) ==
    d.ty \in {"CONVENTIONAL", "BOOT_SERVICES_CODE", "BOOT_SERVICES_DATA",
              "LOADER_CODE", "LOADER_DATA", "ACPI_RECLAIM"}

\* self.regions().iter().filter(..), where the filter looks at the type only.
OfTypes(s, T) ==
    FoldLeft(LAMBDA kept, d : IF d.ty \in T THEN Append(kept, d) ELSE kept, <<>>, s)

UsableRegions == OfTypes(regions, {ty \in UefiTypes : KindFrom(ty) = "Usable"})
ReclaimableRegions ==
    OfTypes(regions, {ty \in UefiTypes : IsReclaimableAfterBoot(KindFrom(ty))})
RegionsOfType(ty) == OfTypes(regions, {ty})

-----------------------------------------------------------------------------
\* The bytes a caller counts who adds up a query with saturation.
Bytes(s) == FoldLeft(LAMBDA sum, d : SatAdd(sum, SizeBytes(d)), 0, s)

\* The iterators and the cached statistics describe one map, saturated or not:
\* walking usable_regions finds usable_region_count regions and usable_bytes,
\* walking reclaimable_regions finds total_usable_after_boot (conventional
\* memory included, whatever its name says), every region comes back under
\* its own type and no other, and the predicate on descriptors agrees with
\* the one on kinds.
QueriesAgree ==
    pc = "done" /\ result = Ok =>
        /\ Len(UsableRegions) = usableCount
        /\ Bytes(UsableRegions) = usable
        /\ Bytes(ReclaimableRegions) = TotalUsableAfterBoot
        /\ \A j \in DOMAIN regions :
              LET d == regions[j]
              IN /\ Contains(RegionsOfType(d.ty), d)
                 /\ IsUsable(d) <=> Contains(ReclaimableRegions, d)
                 /\ IsImmediatelyUsable(KindFrom(d.ty)) <=> Contains(UsableRegions, d)
        /\ Len(regions) =
              FoldSet(LAMBDA ty, n : n + Len(RegionsOfType(ty)), 0, UefiTypes)
=============================================================================
