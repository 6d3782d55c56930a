----------------------- MODULE MemoryPipeline_proofs -----------------------
(***************************************************************************)
(* Proofs about MemoryPipeline for every word size, page size, capacity,   *)
(* build profile and firmware.                                             *)
(***************************************************************************)
EXTENDS MemoryPipeline, NaturalFacts, FiniteSetTheorems, SequenceTheorems, TLAPS

Words == 0 .. MaxWord

RegionTypes == {RegionTypeFrom(ty) : ty \in UefiTypes}
Regions     == [start: Words, size: Words, type: RegionTypes]

\* Pages a handed-over entry may claim: as many as a word has bytes for.
KernelDescriptors ==
    [ty: UefiTypes, phys_start: Words, page_count: 0 .. (MaxWord \div PageSize)]

Framebuffers ==
    [base: Nat, width: Nat, height: Nat, stride: Nat, size: Nat,
     pixel_format: {"RGB", "BGR", "BITMASK", "UNKNOWN"}]

KernelBootInfos ==
    [entries: Seq(KernelDescriptors), truncated: BOOLEAN, acpi_rsdp: Nat,
     has_framebuffer: BOOLEAN, framebuffer: Framebuffers]

FirmwareOk ==
    /\ firmware.map \in Seq(UefiDescriptors)
    /\ firmware.config \in Seq(ConfigEntries)
    /\ \A j \in DOMAIN firmware.config : firmware.config[j].address # 0
    /\ firmware.gop # None => /\ firmware.gop \in GopModes
                              /\ firmware.gop.width <= firmware.gop.stride

\* The bootloader's state, typed.
BTypes ==
    /\ checks \in BOOLEAN
    /\ bpc \in {"idle", "collect", "summary", "devices", "convert", "built",
                "panic"}
    /\ FirmwareOk
    /\ k \in Nat \ {0}
    /\ regions \in Seq(Regions)
    /\ totalMemory \in Words /\ usableMemory \in Words
    /\ kbi \in KernelBootInfos

\* Descriptor a of the firmware's map belongs in front of descriptor b.
Precedes(map, a, b) ==
    \/ map[a].phys_start < map[b].phys_start
    \/ map[a].phys_start = map[b].phys_start /\ a < b

\* f lists the positions of map once each, in the order of the sorted regions.
Sorts(f, map) ==
    /\ f \in [1 .. Len(map) -> 1 .. Len(map)]
    /\ \A m \in 1 .. Len(map) : \E p \in 1 .. Len(map) : f[p] = m
    /\ \A p, q \in 1 .. Len(map) : p < q => Precedes(map, f[p], f[q])

\* Collecting: regions is the firmware's map so far, region by region.
Collected ==
    bpc = "collect" =>
        /\ k <= Len(firmware.map) + 1
        /\ Len(regions) = k - 1
        /\ \A j \in 1 .. k - 1 : regions[j] = RegionOf(firmware.map[j])

\* A dev build has not met a region whose bytes overflow a word.
NoneWrapped ==
    checks /\ bpc \notin {"idle", "panic"} =>
        \A j \in 1 .. Len(firmware.map) :
            (bpc = "collect" => j < k) =>
                firmware.map[j].page_count * PageSize <= MaxWord

\* From the sort on, regions is a stable sort of the firmware's map.
SortedStages == {"summary", "devices", "convert", "built"}
Sorted ==
    bpc \in SortedStages =>
        /\ Len(regions) = Len(firmware.map)
        /\ \E f \in [1 .. Len(firmware.map) -> 1 .. Len(firmware.map)] :
              /\ Sorts(f, firmware.map)
              /\ \A j \in 1 .. Len(firmware.map) :
                    regions[j] = RegionOf(firmware.map[f[j]])

\* The entries are a prefix of the regions, no longer than the array.
Copied ==
    /\ bpc \notin {"convert", "built"} => kbi = NewKernelBootInfo
    /\ bpc \in {"convert", "built"} =>
          /\ Len(kbi.entries) = k - 1
          /\ k - 1 <= Len(regions) /\ k - 1 <= MaxDescriptors
          /\ \A j \in 1 .. k - 1 : kbi.entries[j] = KernelDescriptorFrom(regions[j])
    /\ bpc = "built" =>
          /\ kbi.truncated <=> k <= Len(regions)
          /\ k > Len(regions) \/ k - 1 >= MaxDescriptors

\* What was found of the devices, and what of it is handed over.
Devices ==
    /\ bpc \in {"convert", "built"} =>
          /\ acpi = FindAcpiTables(firmware.config)
          /\ fb = GetFramebufferInfo(firmware.gop)
          /\ firmware.gop # None =>
                /\ checks => ~RowOverflows(firmware.gop)
                /\ ~NoLinearFramebuffer(firmware.gop)
    /\ bpc = "built" =>
          /\ kbi.acpi_rsdp = IF acpi = None THEN 0 ELSE acpi
          /\ kbi.framebuffer = KernelFramebufferFrom(fb)
          /\ kbi.has_framebuffer <=> fb # None

\* Nothing has happened before the firmware's answer.
Idle ==
    bpc = "idle" => /\ k = 1 /\ regions = <<>>
                    /\ totalMemory = 0 /\ usableMemory = 0

\* A sum of words as saturating additions compute it.
Cap(x) == IF x > MaxWord THEN MaxWord ELSE x

\* What each descriptor of a firmware map adds to the bootloader's totals.
BootSize(d) == Wrap(d.page_count * PageSize)
BootRam(map) ==
    [j \in 1 .. Len(map) |->
        IF IsMmioCode(map[j].ty) THEN 0 ELSE BootSize(map[j])]
BootUsable(map) ==
    [j \in 1 .. Len(map) |->
        IF IsUsableAfterBoot(map[j].ty) THEN BootSize(map[j]) ELSE 0]

\* The totals are the capped sums over the descriptors collected so far.
CountedTo(m) ==
    /\ totalMemory =
          Cap(SumOver(BootRam(firmware.map), Len(firmware.map))[1 .. m])
    /\ usableMemory =
          Cap(SumOver(BootUsable(firmware.map), Len(firmware.map))[1 .. m])
Counted ==
    /\ bpc = "collect" => CountedTo(k - 1)
    /\ bpc \in SortedStages => CountedTo(Len(firmware.map))

BInv == BTypes /\ BootTotalsConsistent /\ Counted /\ Idle /\ Collected /\ NoneWrapped /\ Sorted
        /\ Copied /\ Devices

-----------------------------------------------------------------------------
(* Words and pages. *)

LEMMA Sizes ==
    /\ PageSize \in Nat \ {0} /\ MaxWord \in Nat /\ MaxHalf \in Nat
    /\ MaxDescriptors \in Nat /\ MaxWord + 1 \in Nat \ {0}
  BY BuildAssumption

\* A word holds a whole number of pages.
LEMMA PagesInWord ==
    /\ (MaxWord + 1) \div PageSize \in Nat \ {0}
    /\ MaxWord + 1 = PageSize * ((MaxWord + 1) \div PageSize)
<1> DEFINE q == (MaxWord + 1) \div PageSize
<1>1. q \in Nat /\ MaxWord + 1 = PageSize * q + ((MaxWord + 1) % PageSize)
  BY Sizes, DivMod
<1>2. (MaxWord + 1) % PageSize = 0
  BY BuildAssumption
<1>3. PageSize * q \in Nat
  BY <1>1, Sizes
<1>4. MaxWord + 1 = PageSize * q
  BY <1>1, <1>2, <1>3, Sizes
<1> HIDE DEF q
<1>5. q # 0
  BY <1>4, Sizes
<1> QED
  BY <1>1, <1>4, <1>5 DEF q

\* page_count * 4096 as a u64: the bytes of page_count modulo the pages of a
\* word, exactly page_count's when they fit.
LEMMA WrapPages ==
    ASSUME NEW c \in Nat
    PROVE  /\ Wrap(c * PageSize) \in Words
           /\ Wrap(c * PageSize) = (c % ((MaxWord + 1) \div PageSize)) * PageSize
           /\ Wrap(c * PageSize) \div PageSize = c % ((MaxWord + 1) \div PageSize)
           /\ c * PageSize <= MaxWord =>
                 /\ Wrap(c * PageSize) = c * PageSize
                 /\ Wrap(c * PageSize) \div PageSize = c
<1> DEFINE q == (MaxWord + 1) \div PageSize
           b == c % q
<1>1. q \in Nat \ {0} /\ MaxWord + 1 = PageSize * q
  BY PagesInWord
<1>2. c * PageSize \in Nat
  BY Sizes
<1>3. Wrap(c * PageSize) \in Words
  BY <1>2, Sizes DEF Wrap, Words
<1>4. Wrap(c * PageSize) = b * PageSize
  <2> HIDE DEF q
  <2> QED
    BY <1>1, ModOfMultiple, Sizes DEF Wrap
<1>5. b \in Nat
  <2> HIDE DEF q
  <2> QED
    BY <1>1, DivMod
<1>6. Wrap(c * PageSize) \div PageSize = b
  <2> HIDE DEF b
  <2> QED
    BY <1>4, <1>5, Sizes, DivOfMultiple
<1>7. ASSUME c * PageSize <= MaxWord
      PROVE  Wrap(c * PageSize) = c * PageSize
  BY <1>2, <1>7, Sizes DEF Wrap
<1>8. (c * PageSize) \div PageSize = c
  BY Sizes, DivOfMultiple
<1> QED
  BY <1>3, <1>4, <1>6, <1>7, <1>8

\* u64::saturating_add stays a word and is monotone.
LEMMA SatSumWord ==
    ASSUME NEW a \in Words, NEW b \in Words, NEW s \in Words, a <= b
    PROVE  /\ SatSum(a, s) \in Words /\ SatSum(b, s) \in Words
           /\ SatSum(a, s) <= SatSum(b, s) /\ a <= SatSum(b, s)
  BY Sizes DEF SatSum, Words

\* Saturating additions compute the capped sum.
LEMMA CapSums ==
    ASSUME NEW x \in Nat, NEW y \in Nat
    PROVE  /\ Cap(x) \in Words
           /\ SatSum(Cap(x), y) = Cap(x + y)
           /\ SatSum(Cap(x), Cap(y)) = Cap(x + y)
           /\ x <= y => Cap(x) <= Cap(y)
  BY Sizes DEF Cap, SatSum, Words

\* The weights of the bootloader's totals.
LEMMA BootWeights ==
    ASSUME NEW map \in Seq(UefiDescriptors)
    PROVE  /\ Len(map) \in Nat
           /\ \A j \in 1 .. Len(map) : BootSize(map[j]) \in Nat
           /\ BootRam(map) \in [1 .. Len(map) -> Nat]
           /\ BootUsable(map) \in [1 .. Len(map) -> Nat]
<1>1. Len(map) \in Nat /\ \A j \in 1 .. Len(map) : map[j] \in UefiDescriptors
  OBVIOUS
<1>2. \A d \in UefiDescriptors : d.page_count \in Nat
  BY Sizes DEF UefiDescriptors
<1>3. \A c \in Nat : Wrap(c * PageSize) \in Nat
  <2>1. \A c \in Nat : Wrap(c * PageSize) \in Words
    BY WrapPages
  <2> QED
    BY <2>1, Sizes DEF Words
<1>4. \A j \in 1 .. Len(map) : BootSize(map[j]) \in Nat
  BY <1>1, <1>2, <1>3 DEF BootSize
<1>5. 0 \in Nat
  OBVIOUS
<1> QED
  BY <1>1, <1>4, <1>5 DEF BootRam, BootUsable

-----------------------------------------------------------------------------
(* The memory types. *)

\* The rows of the two conversion tables.
LEMMA TableFrom ==
    /\ RegionTypeFrom("RESERVED") = "Reserved"
    /\ RegionTypeFrom("LOADER_CODE") = "LoaderCode"
    /\ RegionTypeFrom("LOADER_DATA") = "LoaderData"
    /\ RegionTypeFrom("BOOT_SERVICES_CODE") = "BootServicesCode"
    /\ RegionTypeFrom("BOOT_SERVICES_DATA") = "BootServicesData"
    /\ RegionTypeFrom("RUNTIME_SERVICES_CODE") = "RuntimeServicesCode"
    /\ RegionTypeFrom("RUNTIME_SERVICES_DATA") = "RuntimeServicesData"
    /\ RegionTypeFrom("CONVENTIONAL") = "Conventional"
    /\ RegionTypeFrom("UNUSABLE") = "Unusable"
    /\ RegionTypeFrom("ACPI_RECLAIM") = "AcpiReclaimable"
    /\ RegionTypeFrom("ACPI_NON_VOLATILE") = "AcpiNvs"
    /\ RegionTypeFrom("MMIO") = "Mmio"
    /\ RegionTypeFrom("MMIO_PORT_SPACE") = "MmioPortSpace"
    /\ RegionTypeFrom("PERSISTENT_MEMORY") = "Persistent"
    /\ RegionTypeFrom("OTHER") = "Unknown"
  BY DEF RegionTypeFrom

LEMMA TableTo ==
    /\ RegionTypeToUefi("Reserved") = "RESERVED"
    /\ RegionTypeToUefi("LoaderCode") = "LOADER_CODE"
    /\ RegionTypeToUefi("LoaderData") = "LOADER_DATA"
    /\ RegionTypeToUefi("BootServicesCode") = "BOOT_SERVICES_CODE"
    /\ RegionTypeToUefi("BootServicesData") = "BOOT_SERVICES_DATA"
    /\ RegionTypeToUefi("RuntimeServicesCode") = "RUNTIME_SERVICES_CODE"
    /\ RegionTypeToUefi("RuntimeServicesData") = "RUNTIME_SERVICES_DATA"
    /\ RegionTypeToUefi("Conventional") = "CONVENTIONAL"
    /\ RegionTypeToUefi("Unusable") = "UNUSABLE"
    /\ RegionTypeToUefi("AcpiReclaimable") = "ACPI_RECLAIM"
    /\ RegionTypeToUefi("AcpiNvs") = "ACPI_NON_VOLATILE"
    /\ RegionTypeToUefi("Mmio") = "MMIO"
    /\ RegionTypeToUefi("MmioPortSpace") = "MMIO_PORT_SPACE"
    /\ RegionTypeToUefi("Persistent") = "PERSISTENT_MEMORY"
    /\ RegionTypeToUefi("Unknown") = "RESERVED"
  BY DEF RegionTypeToUefi

\* A memory type is handed over as it was reported; only a code the bootloader
\* does not know becomes RESERVED.
LEMMA TypeHandedOver ==
    ASSUME NEW ty \in UefiTypes
    PROVE  RegionTypeToUefi(RegionTypeFrom(ty)) = IF ty = "OTHER" THEN "RESERVED" ELSE ty
  BY TableFrom, TableTo DEF UefiTypes

\* The bootloader's classes, on the raw codes.
LEMMA RegionClasses ==
    ASSUME NEW ty \in UefiTypes
    PROVE  /\ IsMmioRegion(RegionTypeFrom(ty)) <=> IsMmioCode(ty)
           /\ IsUsableRegion(RegionTypeFrom(ty)) <=> IsUsableAfterBoot(ty)
           /\ IsUsableRegion(RegionTypeFrom(ty)) => ~IsMmioRegion(RegionTypeFrom(ty))
  BY TableFrom DEF UefiTypes, IsMmioRegion, IsMmioCode, IsUsableRegion, IsUsableAfterBoot

\* The way to the kernel and back keeps a memory type's kind, and the
\* bootloader and the kernel class a type alike.
LEMMA TypesAgree ==
    ASSUME NEW ty \in UefiTypes
    PROVE  LET rt  == RegionTypeFrom(ty)
               kty == RegionTypeToUefi(rt)
           IN /\ kty \in UefiTypes
              /\ KindFrom(kty) = KindFrom(ty)
              /\ IsMmioRegion(rt) <=> IsMmioCode(kty)
              /\ IsUsableRegion(rt) <=> IsUsableAfterBoot(kty)
<1>1. CASE ty = "OTHER"
  <2>1. KindFrom("OTHER") = "Reserved" /\ KindFrom("RESERVED") = "Reserved"
    BY DEF KindFrom
  <2>2. /\ ~IsMmioCode("OTHER") /\ ~IsMmioCode("RESERVED")
        /\ ~IsUsableAfterBoot("OTHER") /\ ~IsUsableAfterBoot("RESERVED")
    BY DEF IsMmioCode, IsUsableAfterBoot
  <2>3. "RESERVED" \in UefiTypes
    BY DEF UefiTypes
  <2> QED
    BY <1>1, <2>1, <2>2, <2>3, TypeHandedOver, RegionClasses, Zenon
<1>2. CASE ty # "OTHER"
  <2>1. RegionTypeToUefi(RegionTypeFrom(ty)) = ty
    BY <1>2, TypeHandedOver
  <2> QED
    BY <2>1, RegionClasses, Zenon
<1> QED
  BY <1>1, <1>2

\* The boot log goes by code, parse by kind.
LEMMA ClassesAgree ==
    ASSUME NEW ty \in UefiTypes
    PROVE  /\ KindFrom(ty) \in UsableKinds <=> IsUsableAfterBoot(ty) /\ ty = "CONVENTIONAL"
           /\ KindFrom(ty) \in ReclaimKinds <=> IsUsableAfterBoot(ty) /\ ty # "CONVENTIONAL"
           /\ KindFrom(ty) \in NotRam <=> IsMmioCode(ty) \/ KindFrom(ty) = "FirmwareRuntime"
  BY SMTT(60) DEF UefiTypes, KindFrom, IsMmioCode, IsUsableAfterBoot, UsableKinds, ReclaimKinds, NotRam

\* MemoryRegion::new of a UEFI descriptor, and the entry made of it.
LEMMA RegionOfType ==
    ASSUME NEW d \in UefiDescriptors
    PROVE  RegionOf(d) \in Regions
<1>1. d.page_count \in Nat /\ d.phys_start \in Words /\ d.ty \in UefiTypes
  BY Sizes DEF UefiDescriptors, Words
<1>2. Wrap(d.page_count * PageSize) \in Words
  BY <1>1, WrapPages
<1> QED
  BY <1>1, <1>2 DEF RegionOf, Regions, RegionTypes

\* The pages of a region fit a word again.
LEMMA EntryTypes ==
    ASSUME NEW r \in Regions
    PROVE  /\ KernelDescriptorFrom(r) \in KernelDescriptors
           /\ (r.size \div PageSize) * PageSize <= MaxWord
<1>1. r.size \in Nat /\ r.size <= MaxWord /\ r.start \in Words
  BY Sizes DEF Regions, Words
<1>2. RegionTypeToUefi(r.type) \in UefiTypes
  <2>1. PICK ty \in UefiTypes : r.type = RegionTypeFrom(ty)
    BY DEF Regions, RegionTypes
  <2> QED
    BY <2>1, TypesAgree
<1> DEFINE c == r.size \div PageSize
<1>3. c \in Nat /\ r.size % PageSize \in Nat /\ r.size = PageSize * c + (r.size % PageSize)
  <2> DEFINE z == r.size
  <2>1. z \in Nat
    BY <1>1
  <2>2. z \div PageSize \in Nat /\ z % PageSize \in Nat
        /\ z = PageSize * (z \div PageSize) + (z % PageSize)
    <3> HIDE DEF z
    <3> QED
      BY <2>1, Sizes, DivMod
  <2> QED
    BY <2>2
<1> HIDE DEF c
<1>4. PageSize * c \in Nat /\ PageSize * c = c * PageSize
  BY <1>3, Sizes
<1>5. c * PageSize <= MaxWord
  BY <1>1, <1>3, <1>4, Sizes
<1>6. c <= MaxWord \div PageSize
  <2> DEFINE w == MaxWord \div PageSize
  <2>1. w \in Nat /\ MaxWord % PageSize \in 0 .. PageSize - 1 /\ MaxWord = PageSize * w + (MaxWord % PageSize)
    BY Sizes, DivMod
  <2> HIDE DEF w
  <2>2. CASE w < c
    <3>1. PageSize * w + PageSize <= PageSize * c
      BY <2>1, <2>2, <1>3, Sizes, ProductGrows
    <3>2. PageSize * w \in Nat
      BY <2>1, Sizes
    <3> QED
      BY <3>1, <3>2, <2>1, <1>4, <1>5, Sizes
  <2> QED
    BY <2>1, <2>2, <1>3 DEF w
<1>7. MaxWord \div PageSize \in Nat
  BY Sizes, DivMod
<1>8. c \in 0 .. (MaxWord \div PageSize)
  BY <1>3, <1>6, <1>7
<1> QED
  BY <1>1, <1>2, <1>5, <1>8 DEF KernelDescriptorFrom, KernelDescriptors, c

-----------------------------------------------------------------------------
(* The stable sort. *)

\* f permutes the n regions of s into the order of their starts, ties in order.
SortedBy(f, s, n) ==
    /\ \A m \in 1 .. n : \E p \in 1 .. n : f[p] = m
    /\ \A p, q \in 1 .. n : p < q =>
          \/ s[f[p]].start < s[f[q]].start
          \/ s[f[p]].start = s[f[q]].start /\ f[p] < f[q]
    /\ SortByStart(s) = [p \in 1 .. n |-> s[f[p]]]

\* sort_by_key permutes the regions into the order of their starts, ties in
\* the order they came in: the positions SortPosition counts are all different,
\* so by the pigeonhole principle every one is taken.
LEMMA SortPermutes ==
    ASSUME NEW s \in Seq(Regions)
    PROVE  \E f \in [1 .. Len(s) -> 1 .. Len(s)] : SortedBy(f, s, Len(s))
<1> DEFINE n == Len(s)
           Before(a, b) == \/ s[a].start < s[b].start
                           \/ s[a].start = s[b].start /\ a < b
           Upto(j) == {m \in 1 .. n : \/ s[m].start < s[j].start
                                      \/ s[m].start = s[j].start /\ m <= j}
           g == [j \in 1 .. n |-> Cardinality(Upto(j))]
           f == [p \in 1 .. n |-> CHOOSE j \in 1 .. n : g[j] = p]
<1>1. n \in Nat /\ DOMAIN s = 1 .. n
  OBVIOUS
<1>2. \A j \in 1 .. n : s[j].start \in Nat
  <2>1. \A r \in Regions : r.start \in Nat
    BY Sizes DEF Regions, Words
  <2> QED
    BY <2>1, <1>1
<1>3. IsFiniteSet(1 .. n) /\ Cardinality(1 .. n) = n
  BY <1>1, FS_Interval
<1>4. \A j \in 1 .. n : /\ Upto(j) \in SUBSET (1 .. n) /\ j \in Upto(j)
                         /\ SortPosition(s, j) = Cardinality(Upto(j))
  BY <1>1, <1>2 DEF SortPosition
<1>5. \A T \in SUBSET (1 .. n) : /\ IsFiniteSet(T) /\ Cardinality(T) \in Nat
                                 /\ Cardinality(T) <= n
  BY <1>3, FS_Subset, FS_CardinalityType
<1>6. \A T \in SUBSET (1 .. n) : \A j \in T : Cardinality(T) # 0
  BY <1>5, FS_EmptySet
<1>7. \A j \in 1 .. n : Cardinality(Upto(j)) \in 1 .. n
  <2> TAKE j \in 1 .. n
  <2>1. Upto(j) \in SUBSET (1 .. n) /\ j \in Upto(j)
    BY <1>4
  <2> HIDE DEF Upto
  <2>2. Cardinality(Upto(j)) \in Nat /\ Cardinality(Upto(j)) <= n /\ Cardinality(Upto(j)) # 0
    BY <2>1, <1>5, <1>6
  <2> QED
    BY <2>2, <1>1
<1>8. g \in [1 .. n -> 1 .. n]
  BY <1>7
<1>9. ASSUME NEW a \in 1 .. n, NEW b \in 1 .. n, Before(a, b)
      PROVE  g[a] < g[b]
  <2>1. Upto(a) \in SUBSET Upto(b) /\ b \in Upto(b) /\ b \notin Upto(a)
    BY <1>2, <1>9
  <2>2. Upto(a) \in SUBSET (1 .. n) /\ Upto(b) \in SUBSET (1 .. n)
    OBVIOUS
  <2>3. g[a] = Cardinality(Upto(a)) /\ g[b] = Cardinality(Upto(b))
    OBVIOUS
  <2> HIDE DEF Upto, g
  <2>4. /\ IsFiniteSet(Upto(b)) /\ Cardinality(Upto(a)) \in Nat
        /\ Cardinality(Upto(b)) \in Nat
    BY <1>5, <2>2
  <2>5. /\ Cardinality(Upto(a)) <= Cardinality(Upto(b))
        /\ Cardinality(Upto(b)) = Cardinality(Upto(a)) => Upto(b) = Upto(a)
    BY <2>1, <2>4, FS_Subset
  <2>6. Upto(b) # Upto(a)
    BY <2>1
  <2> QED
    BY <2>3, <2>4, <2>5, <2>6
<1>10. \A a, b \in 1 .. n : a = b \/ Before(a, b) \/ Before(b, a)
  BY <1>1, <1>2
<1>11. \A a, b \in 1 .. n : g[a] = g[b] => a = b
  <2> SUFFICES ASSUME NEW a \in 1 .. n, NEW b \in 1 .. n, g[a] = g[b]
               PROVE  a = b
    OBVIOUS
  <2> HIDE DEF g, Before
  <2>1. g[a] \in Nat /\ g[b] \in Nat
    BY <1>1, <1>8
  <2> QED
    BY <2>1, <1>9, <1>10
<1> HIDE DEF g, Before, Upto
<1>12. \A p \in 1 .. n : \E j \in 1 .. n : g[j] = p
  <2>1. g \in Injection(1 .. n, 1 .. n)
    <3>1. DOMAIN g = 1 .. n
      BY <1>8
    <3> QED
      BY <3>1, <1>8, <1>11 DEF Injection, IsInjective
  <2>2. g \in Surjection(1 .. n, 1 .. n)
    BY <2>1, <1>3, FS_Injection
  <2> QED
    BY <2>2 DEF Surjection
<1>13. \A p \in 1 .. n : f[p] \in 1 .. n /\ g[f[p]] = p
  BY <1>12
<1>14. f \in [1 .. n -> 1 .. n]
  BY <1>12
<1>15. SortByStart(s) = [p \in 1 .. n |-> s[f[p]]]
  <2>1. \A j \in 1 .. n : SortPosition(s, j) = g[j]
    BY <1>4 DEF g
  <2>2. \A p \in 1 .. n : (CHOOSE j \in DOMAIN s : SortPosition(s, j) = p) = f[p]
    BY <2>1, <1>1
  <2>3. SortByStart(s)
        = [p \in 1 .. n |-> s[CHOOSE j \in DOMAIN s : SortPosition(s, j) = p]]
    BY <1>1 DEF SortByStart
  <2> HIDE DEF f
  <2> QED
    BY <2>2, <2>3
<1> HIDE DEF f
<1>16. ASSUME NEW m \in 1 .. n PROVE \E p \in 1 .. n : f[p] = m
  <2>1. g[m] \in 1 .. n /\ g[f[g[m]]] = g[m] /\ f[g[m]] \in 1 .. n
    BY <1>8, <1>13
  <2>2. f[g[m]] = m
    BY <2>1, <1>11
  <2> QED
    BY <2>1, <2>2
<1>17. ASSUME NEW p \in 1 .. n, NEW q \in 1 .. n, p < q
       PROVE  Before(f[p], f[q])
  <2>1. f[p] \in 1 .. n /\ f[q] \in 1 .. n /\ g[f[p]] = p /\ g[f[q]] = q
    BY <1>13
  <2>2. CASE f[p] = f[q]
    BY <2>1, <2>2, <1>17
  <2>3. CASE Before(f[q], f[p])
    BY <2>1, <2>3, <1>9, <1>17
  <2> QED
    BY <2>1, <2>2, <2>3, <1>10
<1> QED
  <2> WITNESS f \in [1 .. Len(s) -> 1 .. Len(s)]
  <2> QED
    BY <1>15, <1>16, <1>17 DEF Before, SortedBy

-----------------------------------------------------------------------------
(* The bootloader preserves BInv, action by action. *)

LEMMA NewKbi ==
    /\ NewKernelBootInfo \in KernelBootInfos /\ NewKernelBootInfo.entries = <<>>
<1>1. KernelFramebufferFrom(None) \in Framebuffers
  BY DEF KernelFramebufferFrom, Framebuffers
<1> QED
  BY <1>1 DEF NewKernelBootInfo, KernelBootInfos

LEMMA InitBInv == BInit => BInv
<1> SUFFICES ASSUME BInit PROVE BInv
  OBVIOUS
<1> USE DEF BInit
<1>1. FirmwareOk
  BY DEF FirmwareOk, NoFirmware
<1>2. BTypes
  BY <1>1, NewKbi, Sizes DEF BTypes, Words
<1>3. BootTotalsConsistent
  BY DEF BootTotalsConsistent
<1> QED
  BY <1>2, <1>3 DEF BInv, Idle, Counted, Collected, NoneWrapped, Sorted, SortedStages, Copied, Devices

LEMMA CallBInv ==
    ASSUME BInv, NEW f \in Firmwares, BCall(f)
    PROVE  BInv'
<1> USE DEF BCall
<1>1. FirmwareOk'
  BY FirmwaresAssumption DEF FirmwareOk
<1>2. BTypes'
  BY <1>1 DEF BInv, BTypes
<1>3. BootTotalsConsistent'
  BY DEF BInv, BootTotalsConsistent
<1>4. k = 1 /\ regions = <<>>
  BY DEF BInv, Idle
<1>5. Collected'
  BY <1>1, <1>4 DEF Collected, FirmwareOk
<1>6. NoneWrapped'
  BY <1>4 DEF NoneWrapped
<1>7. Copied' /\ Devices' /\ Sorted' /\ Idle'
  BY DEF BInv, Copied, Devices, Sorted, SortedStages, Idle
<1>8. Counted'
  <2> DEFINE map == f.map
             n   == Len(map)
  <2>1. map \in Seq(UefiDescriptors)
    BY FirmwaresAssumption
  <2>2. /\ n \in Nat /\ BootRam(map) \in [1 .. n -> Nat]
        /\ BootUsable(map) \in [1 .. n -> Nat]
    <3> HIDE DEF map
    <3> QED
      BY <2>1, BootWeights
  <2>3. /\ SumOver(BootRam(map), n)[1 .. 0] = 0
        /\ SumOver(BootUsable(map), n)[1 .. 0] = 0
    <3> HIDE DEF map, n
    <3> QED
      BY <2>2, SumNone
  <2>4. Cap(0) = 0 /\ totalMemory = 0 /\ usableMemory = 0 /\ k - 1 = 0
    BY <1>4, Sizes DEF Cap, BInv, Idle
  <2>5. firmware'.map = map /\ k' = k /\ totalMemory' = 0 /\ usableMemory' = 0
    BY <2>4
  <2> HIDE DEF map, n
  <2>6. CountedTo(k - 1)'
    BY <2>3, <2>4, <2>5 DEF CountedTo, n
  <2> QED
    BY <2>6 DEF Counted, SortedStages
<1> QED
  BY <1>2, <1>3, <1>5, <1>6, <1>7, <1>8 DEF BInv

LEMMA PanicBInv ==
    ASSUME BInv, BPanic, bpc \in {"collect", "summary", "devices"}
    PROVE  BInv'
<1> USE DEF BPanic
<1>1. BTypes'
  BY DEF BInv, BTypes, FirmwareOk
<1>2. BootTotalsConsistent'
  BY DEF BInv, BootTotalsConsistent
<1> QED
  BY <1>1, <1>2 DEF BInv, Counted, Collected, NoneWrapped, Sorted, SortedStages,
     Copied, Devices, Idle

\* One iteration of from_uefi_memory_map adds a region to the totals: memory
\* that is usable is not MMIO, so it counts on both sides.
LEMMA CollectBInv ==
    ASSUME BInv, CollectDescriptor
    PROVE  BInv'
<1> DEFINE d == firmware.map[k]
           r == RegionOf(d)
<1> USE DEF CollectDescriptor
<1>1. d \in UefiDescriptors /\ Len(firmware.map) \in Nat /\ k \in Nat \ {0}
  BY DEF BInv, BTypes, FirmwareOk
<1>2. r \in Regions
  BY <1>1, RegionOfType
<1>3. r.size \in Words /\ r.type = RegionTypeFrom(d.ty) /\ d.ty \in UefiTypes
  BY <1>1, <1>2 DEF Regions, RegionOf, UefiDescriptors
<1>4. IsUsableRegion(r.type) => ~IsMmioRegion(r.type)
  BY <1>3, RegionClasses
<1>5. /\ totalMemory' = IF IsMmioRegion(r.type) THEN totalMemory ELSE SatSum(totalMemory, r.size)
      /\ usableMemory' = IF IsUsableRegion(r.type) THEN SatSum(usableMemory, r.size) ELSE usableMemory
      /\ regions' = Append(regions, r)
  OBVIOUS
<1>6. totalMemory \in Words /\ usableMemory \in Words /\ usableMemory <= totalMemory
      /\ regions \in Seq(Regions)
  BY DEF BInv, BTypes, BootTotalsConsistent
<1> HIDE DEF r
<1>7. /\ totalMemory' \in Words /\ usableMemory' \in Words
      /\ usableMemory' <= totalMemory'
  <2>1. /\ SatSum(usableMemory, r.size) \in Words /\ SatSum(totalMemory, r.size) \in Words
        /\ SatSum(usableMemory, r.size) <= SatSum(totalMemory, r.size)
        /\ usableMemory <= SatSum(totalMemory, r.size)
    BY <1>3, <1>6, SatSumWord
  <2> QED
    BY <1>4, <1>5, <1>6, <2>1
<1>8. regions' \in Seq(Regions)
  BY <1>2, <1>5, <1>6
<1>9. BTypes'
  BY <1>1, <1>7, <1>8 DEF BInv, BTypes, FirmwareOk
<1>10. Collected'
  <2>1. /\ Len(regions) = k - 1
        /\ \A j \in 1 .. k - 1 : regions[j] = RegionOf(firmware.map[j])
    BY DEF BInv, Collected
  <2>2. Len(regions') = k /\ \A j \in 1 .. k : regions'[j] = IF j < k THEN regions[j] ELSE r
    BY <2>1, <1>1, <1>2, <1>5, <1>6
  <2>3. \A j \in 1 .. k : regions'[j] = RegionOf(firmware.map[j])
    BY <2>1, <2>2, <1>1 DEF r
  <2> QED
    BY <2>2, <2>3, <1>1 DEF Collected
<1>11. NoneWrapped'
  <2>1. checks => d.page_count * PageSize <= MaxWord
    OBVIOUS
  <2> QED
    BY <2>1, <1>1 DEF BInv, NoneWrapped
<1>12. Counted'
  <2> DEFINE map == firmware.map
             n   == Len(map)
             wr  == BootRam(map)
             wu  == BootUsable(map)
  <2>1. n \in Nat /\ wr \in [1 .. n -> Nat] /\ wu \in [1 .. n -> Nat]
    <3>1. map \in Seq(UefiDescriptors)
      BY DEF BInv, BTypes, FirmwareOk
    <3> HIDE DEF map
    <3> QED
      BY <3>1, BootWeights
  <2>2. k \in 1 .. n
    BY <1>1
  <2>3. /\ wr[k] = IF IsMmioCode(d.ty) THEN 0 ELSE r.size
        /\ wu[k] = IF IsUsableAfterBoot(d.ty) THEN r.size ELSE 0
    BY <2>2 DEF BootRam, BootUsable, BootSize, r, RegionOf
  <2>4. /\ IsMmioRegion(r.type) <=> IsMmioCode(d.ty)
        /\ IsUsableRegion(r.type) <=> IsUsableAfterBoot(d.ty)
    BY <1>3, RegionClasses
  <2> DEFINE sr == SumOver(wr, n)[1 .. k - 1]
             su == SumOver(wu, n)[1 .. k - 1]
  <2>5. totalMemory = Cap(sr) /\ usableMemory = Cap(su)
    BY DEF BInv, Counted, CountedTo
  <2> HIDE DEF wr, wu, n
  <2>6. /\ sr \in Nat /\ SumOver(wr, n)[1 .. k] = sr + wr[k]
        /\ su \in Nat /\ SumOver(wu, n)[1 .. k] = su + wu[k]
    BY <2>1, <2>2, SumStep
  <2>7. r.size \in Nat
    BY <1>3, Sizes DEF Words
  <2> HIDE DEF sr, su
  <2>8. /\ SatSum(Cap(sr), r.size) = Cap(sr + r.size)
        /\ SatSum(Cap(su), r.size) = Cap(su + r.size)
    BY <2>6, <2>7, CapSums
  <2>9. sr + 0 = sr /\ su + 0 = su
    BY <2>6
  <2>10. totalMemory' = Cap(SumOver(wr, n)[1 .. k])
    BY <1>5, <2>3, <2>4, <2>5, <2>6, <2>8, <2>9, Zenon
  <2>11. usableMemory' = Cap(SumOver(wu, n)[1 .. k])
    BY <1>5, <2>3, <2>4, <2>5, <2>6, <2>8, <2>9, Zenon
  <2>12. bpc' = "collect" /\ k' - 1 = k /\ firmware' = firmware
    BY <1>1
  <2>13. CountedTo(k - 1)'
    BY <2>10, <2>11, <2>12 DEF CountedTo, wr, wu, n
  <2> QED
    BY <2>12, <2>13 DEF Counted, SortedStages
<1> QED
  BY <1>7, <1>9, <1>10, <1>11, <1>12 DEF BInv, BootTotalsConsistent, Sorted,
     SortedStages, Copied, Devices, Idle

LEMMA SortBInv ==
    ASSUME BInv, SortRegions
    PROVE  BInv'
<1> DEFINE map == firmware.map
           n   == Len(map)
<1> USE DEF SortRegions
<1>1. /\ map \in Seq(UefiDescriptors) /\ n \in Nat /\ k \in Nat /\ k = n + 1
      /\ regions \in Seq(Regions) /\ Len(regions) = n
      /\ \A j \in 1 .. n : regions[j] = RegionOf(map[j])
  <2>1. /\ map \in Seq(UefiDescriptors) /\ n \in Nat /\ k \in Nat
        /\ regions \in Seq(Regions)
    BY DEF BInv, BTypes, FirmwareOk
  <2>2. /\ k <= n + 1 /\ Len(regions) = k - 1
        /\ \A j \in 1 .. k - 1 : regions[j] = RegionOf(map[j])
    BY DEF BInv, Collected
  <2>3. k = n + 1
    BY <2>1, <2>2
  <2> QED
    BY <2>1, <2>2, <2>3
<1>2. \A j \in 1 .. n : regions[j].start = map[j].phys_start
  <2>1. \A d : RegionOf(d).start = d.phys_start
    BY DEF RegionOf
  <2> QED
    BY <1>1, <2>1
<1>3. PICK f \in [1 .. n -> 1 .. n] : SortedBy(f, regions, n)
  <2>1. \E f \in [1 .. Len(regions) -> 1 .. Len(regions)] : SortedBy(f, regions, Len(regions))
    BY <1>1, SortPermutes
  <2> QED
    BY <2>1, <1>1
<1>4. Sorts(f, map)
  <2>1. \A p \in 1 .. n : f[p] \in 1 .. n
    OBVIOUS
  <2> HIDE DEF map, n
  <2>2. \A p, q \in 1 .. n : p < q => Precedes(map, f[p], f[q])
    <3> SUFFICES ASSUME NEW p \in 1 .. n, NEW q \in 1 .. n, p < q
                 PROVE  Precedes(map, f[p], f[q])
      OBVIOUS
    <3>1. /\ regions[f[p]].start = map[f[p]].phys_start
          /\ regions[f[q]].start = map[f[q]].phys_start
      BY <1>2, <2>1, Zenon
    <3>2. \/ regions[f[p]].start < regions[f[q]].start
          \/ regions[f[p]].start = regions[f[q]].start /\ f[p] < f[q]
      BY <1>3, Zenon DEF SortedBy
    <3> QED
      BY <3>1, <3>2, Zenon DEF Precedes
  <2> QED
    BY <1>3, <2>2 DEF SortedBy, Sorts, n
<1>5. regions' = [p \in 1 .. n |-> regions[f[p]]]
  BY <1>3 DEF SortedBy
<1>6. regions' \in Seq(Regions) /\ Len(regions') = n
  BY <1>1, <1>5
<1>7. \A j \in 1 .. n : regions'[j] = RegionOf(map[f[j]])
  BY <1>1, <1>5
<1>8. BTypes'
  BY <1>6 DEF BInv, BTypes, FirmwareOk
<1>9. Sorted'
  BY <1>4, <1>6, <1>7 DEF Sorted
<1>10. NoneWrapped'
  BY <1>1 DEF BInv, NoneWrapped
<1>11. BootTotalsConsistent'
  BY DEF BInv, BootTotalsConsistent
<1>12. Counted'
  <2>1. k - 1 = Len(firmware.map)
    BY <1>1
  <2>2. CountedTo(Len(firmware.map))
    BY <2>1 DEF BInv, Counted
  <2> QED
    BY <2>2 DEF Counted, CountedTo
<1> QED
  BY <1>8, <1>9, <1>10, <1>11, <1>12 DEF BInv, Collected, Copied, Devices, Idle

LEMMA SummaryBInv ==
    ASSUME BInv, PrintMemorySummary
    PROVE  BInv'
<1> USE DEF PrintMemorySummary
<1>1. BTypes' /\ BootTotalsConsistent'
  BY DEF BInv, BTypes, FirmwareOk, BootTotalsConsistent
<1>2. Sorted' /\ Counted'
  BY DEF BInv, Sorted, SortedStages, Counted, CountedTo
<1>3. NoneWrapped'
  BY DEF BInv, NoneWrapped
<1> QED
  BY <1>1, <1>2, <1>3 DEF BInv, Collected, Copied, Devices, Idle

LEMMA DevicesBInv ==
    ASSUME BInv, FindDevices
    PROVE  BInv'
<1> USE DEF FindDevices
<1>1. BTypes' /\ BootTotalsConsistent'
  BY DEF BInv, BTypes, FirmwareOk, BootTotalsConsistent
<1>2. Sorted' /\ Counted'
  BY DEF BInv, Sorted, SortedStages, Counted, CountedTo
<1>3. NoneWrapped'
  BY DEF BInv, NoneWrapped
<1>4. Copied'
  <2>1. kbi.entries = <<>>
    BY NewKbi DEF BInv, Copied
  <2>2. Len(regions) \in Nat
    BY DEF BInv, BTypes
  <2> QED
    BY <2>1, <2>2, Sizes DEF Copied
<1>5. Devices'
  BY DEF Devices
<1> QED
  BY <1>1, <1>2, <1>3, <1>4, <1>5 DEF BInv, Collected, Idle

LEMMA CopyBInv ==
    ASSUME BInv, CopyRegion
    PROVE  BInv'
<1> DEFINE e == KernelDescriptorFrom(regions[k])
<1> USE DEF CopyRegion
<1>1. /\ regions \in Seq(Regions) /\ Len(regions) \in Nat /\ k \in Nat \ {0}
      /\ kbi \in KernelBootInfos /\ kbi.entries \in Seq(KernelDescriptors)
  BY DEF BInv, BTypes, KernelBootInfos
<1>2. e \in KernelDescriptors
  <2>1. regions[k] \in Regions
    BY <1>1
  <2> QED
    BY <2>1, EntryTypes
<1>3. /\ Len(kbi.entries) = k - 1
      /\ \A j \in 1 .. k - 1 : kbi.entries[j] = KernelDescriptorFrom(regions[j])
  BY DEF BInv, Copied
<1> HIDE DEF e
<1>4. kbi' = [kbi EXCEPT !.entries = Append(kbi.entries, e)]
  BY DEF e
<1>5. kbi'.entries = Append(kbi.entries, e)
  BY <1>1, <1>4 DEF KernelBootInfos
<1>6. Append(kbi.entries, e) \in Seq(KernelDescriptors)
  BY <1>1, <1>2
<1>7. kbi' \in KernelBootInfos
  BY <1>1, <1>4, <1>6 DEF KernelBootInfos
<1>8. BTypes' /\ BootTotalsConsistent'
  BY <1>1, <1>7 DEF BInv, BTypes, FirmwareOk, BootTotalsConsistent
<1>9. Sorted' /\ NoneWrapped' /\ Counted'
  BY DEF BInv, Sorted, SortedStages, NoneWrapped, Counted, CountedTo
<1>10. Copied'
  <2>1. Len(kbi'.entries) = k /\ \A j \in 1 .. k : kbi'.entries[j] = IF j < k THEN kbi.entries[j] ELSE e
    BY <1>1, <1>2, <1>3, <1>5
  <2>2. \A j \in 1 .. k : kbi'.entries[j] = KernelDescriptorFrom(regions[j])
    BY <2>1, <1>1, <1>3 DEF e
  <2>3. k <= MaxDescriptors
    BY <1>1, <1>3, Sizes
  <2> QED
    BY <2>1, <2>2, <2>3, <1>1 DEF Copied
<1>11. Devices'
  BY DEF BInv, Devices
<1> QED
  BY <1>8, <1>9, <1>10, <1>11 DEF BInv, Collected, Idle

\* A set of positions that is not empty has a first one.
LEMMA FirstOf ==
    ASSUME NEW n \in Nat, NEW at \in SUBSET (1 .. n), at # {}
    PROVE  LET c == CHOOSE j \in at : \A m \in at : j <= m
           IN c \in at /\ \A m \in at : c <= m
<1>1. PICK e \in at : \A m \in at : e <= m
  <2>1. at \in SUBSET Nat
    OBVIOUS
  <2> QED
    BY <2>1, LeastNatural
<1> QED
  BY <1>1

\* find_acpi_tables' search: None when no entry has the guid, else the address
\* of one that has.
LEMMA FirstWithIs ==
    ASSUME NEW config \in Seq(ConfigEntries), NEW g
    PROVE  \/ /\ FirstWith(config, g) = None
              /\ \A j \in DOMAIN config : config[j].guid # g
           \/ \E c \in DOMAIN config : /\ config[c].guid = g
                                       /\ FirstWith(config, g) = config[c].address
                                       /\ config[c].address \in Nat
<1> DEFINE at == {j \in DOMAIN config : config[j].guid = g}
           c  == CHOOSE j \in at : \A m \in at : j <= m
           n  == Len(config)
<1>1. n \in Nat /\ at \in SUBSET (1 .. n) /\ DOMAIN config = 1 .. n
  OBVIOUS
<1>2. CASE at = {}
  BY <1>2 DEF FirstWith
<1>3. CASE at # {}
  <2>1. c \in at
    <3> HIDE DEF at, n
    <3> QED
      BY <1>1, <1>3, FirstOf
  <2>2. FirstWith(config, g) = config[c].address
    BY <1>3 DEF FirstWith
  <2> HIDE DEF c
  <2>3. c \in DOMAIN config /\ config[c].guid = g
    BY <2>1
  <2>4. config[c].address \in Nat
    <3>1. config[c] \in ConfigEntries
      BY <2>3
    <3> QED
      BY <3>1 DEF ConfigEntries
  <2> QED
    BY <2>2, <2>3, <2>4
<1> QED
  BY <1>2, <1>3

\* What the kernel is told of the framebuffer is well typed.
LEMMA FramebufferType ==
    ASSUME BInv, bpc = "convert"
    PROVE  KernelFramebufferFrom(fb) \in Framebuffers
<1> DEFINE gop == firmware.gop
<1>1. fb = GetFramebufferInfo(gop)
  BY DEF BInv, Devices
<1>2. CASE fb = None
  BY <1>2 DEF KernelFramebufferFrom, Framebuffers
<1>3. CASE fb # None
  <2>1. gop # None
    BY <1>1, <1>3 DEF GetFramebufferInfo
  <2>2. gop \in GopModes
    BY <2>1 DEF BInv, BTypes, FirmwareOk
  <2>3. /\ gop.base \in Nat /\ gop.width \in Nat /\ gop.height \in Nat
        /\ gop.stride \in Nat
    BY <2>2, Sizes DEF GopModes
  <2>4. BytesPerRow(gop) \in Nat
    BY <2>3, Sizes DEF BytesPerRow
  <2>5. /\ fb.base = gop.base /\ fb.width = gop.width /\ fb.height = gop.height
        /\ fb.stride = BytesPerRow(gop) /\ fb.format = PixelFormatFrom(gop.format)
    BY <1>1, <2>1 DEF GetFramebufferInfo
  <2>6. KernelPixelFormat(fb.format) \in {"RGB", "BGR", "BITMASK", "UNKNOWN"}
    BY <2>5 DEF PixelFormatFrom, KernelPixelFormat
  <2>7. FramebufferSize(fb) \in Nat
    BY <2>3, <2>4, <2>5 DEF FramebufferSize
  <2>8. KernelFramebufferFrom(fb) =
            [base |-> fb.base, width |-> fb.width, height |-> fb.height,
             stride |-> fb.stride, size |-> FramebufferSize(fb),
             pixel_format |-> KernelPixelFormat(fb.format)]
    BY <1>3 DEF KernelFramebufferFrom
  <2> QED
    BY <2>3, <2>4, <2>5, <2>6, <2>7, <2>8 DEF Framebuffers
<1> QED
  BY <1>2, <1>3

\* So is the RSDP's address.
LEMMA AcpiType ==
    ASSUME BInv, bpc = "convert"
    PROVE  (IF acpi = None THEN 0 ELSE acpi) \in Nat
<1>1. acpi = FindAcpiTables(firmware.config) /\ firmware.config \in Seq(ConfigEntries)
  BY DEF BInv, Devices, BTypes, FirmwareOk
<1>2. \A g : FirstWith(firmware.config, g) = None \/ FirstWith(firmware.config, g) \in Nat
  BY <1>1, FirstWithIs
<1> QED
  BY <1>1, <1>2 DEF FindAcpiTables

LEMMA FinishBInv ==
    ASSUME BInv, FinishConversion
    PROVE  BInv'
<1> USE DEF FinishConversion
<1>1. /\ kbi \in KernelBootInfos /\ k \in Nat \ {0} /\ Len(regions) \in Nat
      /\ Len(kbi.entries) = k - 1
  BY DEF BInv, BTypes, Copied
<1>2. /\ KernelFramebufferFrom(fb) \in Framebuffers
      /\ (IF acpi = None THEN 0 ELSE acpi) \in Nat
  BY FramebufferType, AcpiType
<1>3. /\ kbi' = [kbi EXCEPT !.truncated = RegionsLeft,
                          !.acpi_rsdp = IF acpi = None THEN 0 ELSE acpi,
                          !.framebuffer = KernelFramebufferFrom(fb),
                          !.has_framebuffer = fb # None]
      /\ RegionsLeft \in BOOLEAN /\ (fb # None) \in BOOLEAN
  BY DEF RegionsLeft
<1>4. /\ kbi' \in KernelBootInfos /\ kbi'.entries = kbi.entries
      /\ kbi'.truncated = RegionsLeft
      /\ kbi'.acpi_rsdp = IF acpi = None THEN 0 ELSE acpi
      /\ kbi'.framebuffer = KernelFramebufferFrom(fb)
      /\ kbi'.has_framebuffer = (fb # None)
  BY <1>1, <1>2, <1>3 DEF KernelBootInfos
<1>5. BTypes' /\ BootTotalsConsistent'
  BY <1>4 DEF BInv, BTypes, FirmwareOk, BootTotalsConsistent
<1>6. Sorted' /\ NoneWrapped' /\ Counted'
  BY DEF BInv, Sorted, SortedStages, NoneWrapped, Counted, CountedTo
<1>7. Copied'
  BY <1>1, <1>4 DEF BInv, Copied, RegionsLeft
<1>8. Devices'
  BY <1>4 DEF BInv, Devices
<1> QED
  BY <1>5, <1>6, <1>7, <1>8 DEF BInv, Collected, Idle

LEMMA StepBInv ==
    ASSUME BInv, BStep
    PROVE  BInv'
<1>1. CASE CollectPanics
  BY <1>1, PanicBInv DEF CollectPanics
<1>2. CASE SummaryPanics
  BY <1>2, PanicBInv DEF SummaryPanics
<1>3. CASE FramebufferPanics
  BY <1>3, PanicBInv DEF FramebufferPanics
<1> QED
  BY <1>1, <1>2, <1>3, CollectBInv, SortBInv, SummaryBInv, DevicesBInv, CopyBInv,
     FinishBInv DEF BStep

LEMMA StillBInv ==
    ASSUME BInv, UNCHANGED bvars
    PROVE  BInv'
  BY DEF BInv, bvars, BTypes, FirmwareOk, BootTotalsConsistent, Idle, Collected,
     NoneWrapped, Sorted, SortedStages, Copied, Devices, Counted, CountedTo

-----------------------------------------------------------------------------
(* What BInv says of the map and the devices handed over. *)

LEMMA HandoverTypes == BInv => BTypeOK
<1> SUFFICES ASSUME BInv PROVE BTypeOK
  OBVIOUS
<1>1. /\ regions \in Seq(Regions) /\ kbi.entries \in Seq(KernelDescriptors)
      /\ totalMemory \in 0 .. MaxWord /\ usableMemory \in 0 .. MaxWord
  BY DEF BInv, BTypes, KernelBootInfos, Words
<1>2. \A j \in DOMAIN regions : regions[j] \in Regions
  BY <1>1
<1>3. \A j \in DOMAIN regions :
         regions[j].start \in 0 .. MaxWord /\ regions[j].size \in 0 .. MaxWord
  BY <1>2 DEF Regions, Words
<1>4. \A j \in DOMAIN kbi.entries : kbi.entries[j] \in KernelDescriptors
  BY <1>1
<1>5. \A j \in DOMAIN kbi.entries : kbi.entries[j].ty \in UefiTypes
  BY <1>4 DEF KernelDescriptors
<1>6. Len(kbi.entries) <= MaxDescriptors
  BY NewKbi, Sizes DEF BInv, Copied
<1> QED
  BY <1>1, <1>3, <1>5, <1>6 DEF BTypeOK, BInv, BTypes

\* The entry made of a descriptor stands for it.
LEMMA EntryStandsFor ==
    ASSUME NEW d \in UefiDescriptors,
           checks => d.page_count * PageSize <= MaxWord
    PROVE  /\ StandsFor(KernelDescriptorFrom(RegionOf(d)), d)
           /\ KernelDescriptorFrom(RegionOf(d)).page_count * PageSize = BootSize(d)
<1> DEFINE e == KernelDescriptorFrom(RegionOf(d))
           c == d.page_count
<1>1. c \in Nat /\ d.ty \in UefiTypes
  BY Sizes DEF UefiDescriptors
<1>2. /\ e.phys_start = d.phys_start
      /\ e.ty = RegionTypeToUefi(RegionTypeFrom(d.ty))
      /\ e.page_count = Wrap(c * PageSize) \div PageSize
  BY DEF KernelDescriptorFrom, RegionOf
<1>3. KindFrom(e.ty) = KindFrom(d.ty)
  BY <1>1, <1>2, TypesAgree
<1> HIDE DEF c, e
<1>4. /\ e.page_count = c % ((MaxWord + 1) \div PageSize)
      /\ c * PageSize <= MaxWord => e.page_count = c
      /\ e.page_count * PageSize = Wrap(c * PageSize)
  BY <1>1, <1>2, WrapPages
<1> QED
  BY <1>2, <1>3, <1>4 DEF StandsFor, BootSize, c, e

\* The stable sort f of the firmware's map that the entries follow.
LEMMA EntriesFollow ==
    ASSUME BInv, bpc = "built"
    PROVE  \E f \in [1 .. Len(firmware.map) -> 1 .. Len(firmware.map)] :
              /\ Sorts(f, firmware.map)
              /\ \A j \in 1 .. Len(kbi.entries) :
                    /\ kbi.entries[j] = KernelDescriptorFrom(RegionOf(firmware.map[f[j]]))
                    /\ StandsFor(kbi.entries[j], firmware.map[f[j]])
                    /\ kbi.entries[j].page_count * PageSize = BootSize(firmware.map[f[j]])
<1> DEFINE map == firmware.map
           N   == Len(map)
           n   == Len(kbi.entries)
<1>1. /\ map \in Seq(UefiDescriptors) /\ N \in Nat /\ k \in Nat /\ n = k - 1
      /\ Len(regions) = N /\ n <= N
      /\ \A j \in 1 .. n : kbi.entries[j] = KernelDescriptorFrom(regions[j])
  BY DEF BInv, BTypes, FirmwareOk, Copied, Sorted, SortedStages
<1>2. PICK f \in [1 .. N -> 1 .. N] :
          /\ Sorts(f, map)
          /\ \A j \in 1 .. N : regions[j] = RegionOf(map[f[j]])
  BY DEF BInv, Sorted, SortedStages
<1>3. checks => \A j \in 1 .. N : map[j].page_count * PageSize <= MaxWord
  BY DEF BInv, NoneWrapped
<1>4. ASSUME NEW j \in 1 .. n
      PROVE  /\ kbi.entries[j] = KernelDescriptorFrom(RegionOf(map[f[j]]))
             /\ StandsFor(kbi.entries[j], map[f[j]])
             /\ kbi.entries[j].page_count * PageSize = BootSize(map[f[j]])
  <2>1. j \in 1 .. N /\ f[j] \in 1 .. N
    BY <1>1
  <2>2. kbi.entries[j] = KernelDescriptorFrom(RegionOf(map[f[j]]))
    BY <1>1, <1>2, <2>1
  <2>3. map[f[j]] \in UefiDescriptors
    BY <1>1, <2>1
  <2>4. checks => map[f[j]].page_count * PageSize <= MaxWord
    BY <1>3, <2>1
  <2> DEFINE d == map[f[j]]
  <2> HIDE DEF d
  <2>5. /\ StandsFor(KernelDescriptorFrom(RegionOf(d)), d)
        /\ KernelDescriptorFrom(RegionOf(d)).page_count * PageSize = BootSize(d)
    BY <2>3, <2>4, EntryStandsFor DEF d
  <2> QED
    BY <2>2, <2>5 DEF d
<1> QED
  <2> WITNESS f \in [1 .. Len(firmware.map) -> 1 .. Len(firmware.map)]
  <2> QED
    BY <1>2, <1>4

LEMMA HandoverFollows == BInv => HandoverFaithful
<1> SUFFICES ASSUME BInv, bpc = "built" PROVE HandoverFaithful
  BY DEF HandoverFaithful
<1> DEFINE map == firmware.map
           N   == Len(map)
           n   == Len(kbi.entries)
           Before(a, b) == \/ map[a].phys_start < map[b].phys_start
                           \/ map[a].phys_start = map[b].phys_start /\ a < b
<1>1. /\ map \in Seq(UefiDescriptors) /\ N \in Nat /\ DOMAIN map = 1 .. N
      /\ n \in Nat /\ n <= N /\ n <= MaxDescriptors
      /\ kbi.truncated <=> n < N
      /\ kbi.truncated => n = MaxDescriptors
  <2>1. map \in Seq(UefiDescriptors) /\ k \in Nat \ {0}
    BY DEF BInv, BTypes, FirmwareOk
  <2>2. N \in Nat /\ DOMAIN map = 1 .. N
    BY <2>1
  <2>3. n = k - 1 /\ Len(regions) = N /\ n <= N /\ n <= MaxDescriptors
    BY DEF BInv, Copied, Sorted, SortedStages
  <2>4. /\ kbi.truncated <=> k <= N
        /\ k > N \/ k - 1 >= MaxDescriptors
    BY <2>3 DEF BInv, Copied
  <2> QED
    BY <2>1, <2>2, <2>3, <2>4, Sizes
<1>2. PICK f \in [1 .. N -> 1 .. N] :
          /\ Sorts(f, map)
          /\ \A j \in 1 .. n : StandsFor(kbi.entries[j], map[f[j]])
  BY EntriesFollow
<1>3. /\ \A m \in 1 .. N : \E p \in 1 .. N : f[p] = m
      /\ \A p, q \in 1 .. N : p < q => Before(f[p], f[q])
  BY <1>2 DEF Sorts, Precedes
<1> HIDE DEF Before
<1> DEFINE g == [j \in 1 .. n |-> f[j]]
<1>4. \A j \in 1 .. n : j \in 1 .. N /\ g[j] = f[j]
  BY <1>1
<1>5. g \in [1 .. n -> DOMAIN map]
  BY <1>1
<1> HIDE DEF g
<1>6. \A j \in 1 .. n : StandsFor(kbi.entries[j], map[g[j]])
  BY <1>2, <1>4
<1>7. \A a, b \in 1 .. n : a < b => Before(g[a], g[b])
  BY <1>3, <1>4
<1>8. ASSUME NEW m \in DOMAIN map \ {g[j] : j \in 1 .. n}, NEW j \in 1 .. n
      PROVE  Before(g[j], m)
  <2>1. PICK p \in 1 .. N : f[p] = m
    BY <1>1, <1>3
  <2>2. p \notin 1 .. n
    <3>1. p \in 1 .. n => g[p] = m
      BY <1>4, <2>1
    <3> QED
      BY <3>1
  <2>3. j < p
    BY <1>1, <2>2
  <2> QED
    BY <1>3, <1>4, <2>1, <2>3
<1>9. \E h \in [1 .. n -> DOMAIN map] :
         /\ \A j \in 1 .. n : StandsFor(kbi.entries[j], map[h[j]])
         /\ \A a, b \in 1 .. n : a < b => Before(h[a], h[b])
         /\ \A m \in DOMAIN map \ {h[j] : j \in 1 .. n} :
               \A j \in 1 .. n : Before(h[j], m)
  BY <1>5, <1>6, <1>7, <1>8
<1> QED
  BY <1>1, <1>9 DEF HandoverFaithful, Before

\* Rows of at least the visible pixels make a framebuffer of at least the
\* visible pixels.
LEMMA RowsCover ==
    ASSUME NEW w \in Nat, NEW r \in Nat, NEW h \in Nat, w <= r
    PROVE  4 * w * h <= (r * 4) * h
<1>1. PICK e \in Nat : r = w + e
  <2>1. r - w \in Nat /\ r = w + (r - w)
    OBVIOUS
  <2> QED
    BY <2>1
<1>2. (r * 4) * h = 4 * w * h + 4 * e * h
  BY <1>1
<1>3. 4 * w * h \in Nat /\ 4 * e * h \in Nat
  BY <1>1
<1> QED
  BY <1>2, <1>3

LEMMA DevicesFollow == BInv => DevicesFaithful
<1> SUFFICES ASSUME BInv, bpc = "built" PROVE DevicesFaithful
  BY DEF DevicesFaithful
<1> DEFINE gop    == firmware.gop
           config == firmware.config
           guids  == {config[j].guid : j \in DOMAIN config}
           entry  == {c \in {config[j] : j \in DOMAIN config} :
                         c.address = kbi.acpi_rsdp}
<1>1. /\ config \in Seq(ConfigEntries)
      /\ \A j \in DOMAIN config : config[j].address # 0
      /\ acpi = FindAcpiTables(config)
      /\ kbi.acpi_rsdp = IF acpi = None THEN 0 ELSE acpi
      /\ None \notin Nat
  BY FirmwaresAssumption DEF BInv, BTypes, FirmwareOk, Devices
<1>2. /\ kbi.acpi_rsdp # 0 <=> guids \cap {"ACPI1", "ACPI2"} # {}
      /\ "ACPI2" \in guids => \E c \in entry : c.guid = "ACPI2"
  <2>1. CASE "ACPI2" \in guids
    <3>1. PICK c \in DOMAIN config : /\ config[c].guid = "ACPI2"
                                    /\ FirstWith(config, "ACPI2") = config[c].address
                                    /\ config[c].address \in Nat
      <4>1. PICK j \in DOMAIN config : config[j].guid = "ACPI2"
        BY <2>1
      <4> HIDE DEF config
      <4> QED
        BY <1>1, <4>1, FirstWithIs
    <3>2. acpi = config[c].address /\ acpi # None
      BY <1>1, <3>1 DEF FindAcpiTables
    <3>3. kbi.acpi_rsdp = config[c].address /\ kbi.acpi_rsdp # 0
      BY <1>1, <3>1, <3>2
    <3>4. config[c] \in entry
      BY <3>1, <3>3
    <3> QED
      BY <2>1, <3>1, <3>3, <3>4
  <2>2. CASE "ACPI2" \notin guids /\ "ACPI1" \in guids
    <3>1. FirstWith(config, "ACPI2") = None
      <4>1. \A j \in DOMAIN config : config[j].guid # "ACPI2"
        BY <2>2
      <4> HIDE DEF config
      <4> QED
        BY <1>1, <4>1, FirstWithIs
    <3>2. PICK c \in DOMAIN config : /\ FirstWith(config, "ACPI1") = config[c].address
                                    /\ config[c].address \in Nat
      <4>1. PICK j \in DOMAIN config : config[j].guid = "ACPI1"
        BY <2>2
      <4> HIDE DEF config
      <4> QED
        BY <1>1, <4>1, FirstWithIs
    <3>3. acpi = config[c].address /\ acpi # None
      BY <1>1, <3>1, <3>2 DEF FindAcpiTables
    <3>4. kbi.acpi_rsdp # 0
      BY <1>1, <3>2, <3>3
    <3> QED
      BY <2>2, <3>4
  <2>3. CASE "ACPI2" \notin guids /\ "ACPI1" \notin guids
    <3>1. FirstWith(config, "ACPI2") = None /\ FirstWith(config, "ACPI1") = None
      <4>1. \A j \in DOMAIN config : config[j].guid # "ACPI2" /\ config[j].guid # "ACPI1"
        BY <2>3
      <4> HIDE DEF config
      <4> QED
        BY <1>1, <4>1, FirstWithIs
    <3>2. kbi.acpi_rsdp = 0
      BY <1>1, <3>1 DEF FindAcpiTables
    <3> QED
      BY <2>3, <3>2
  <2> QED
    BY <2>1, <2>2, <2>3
<1>3. /\ fb = GetFramebufferInfo(gop)
      /\ kbi.framebuffer = KernelFramebufferFrom(fb)
      /\ kbi.has_framebuffer <=> fb # None
      /\ gop # None => /\ checks => ~RowOverflows(gop)
                       /\ ~NoLinearFramebuffer(gop)
      /\ gop # None => /\ gop \in GopModes
                       /\ gop.width <= gop.stride
  BY DEF BInv, BTypes, FirmwareOk, Devices
<1>4. CASE gop = None
  <2>1. ~kbi.has_framebuffer
    BY <1>3, <1>4 DEF GetFramebufferInfo
  <2> QED
    BY <1>2, <1>4, <2>1 DEF DevicesFaithful
<1>5. CASE gop # None
  <2>1. /\ gop.base \in 0 .. MaxWord /\ gop.width \in 0 .. MaxHalf
        /\ gop.height \in 0 .. MaxHalf /\ gop.stride \in 0 .. MaxHalf
        /\ gop.format \in {"Rgb", "Bgr", "Bitmask"}
    BY <1>3, <1>5 DEF GopModes, NoLinearFramebuffer
  <2>2. BytesPerRow(gop) \in 0 .. MaxHalf
    BY <2>1, Sizes DEF BytesPerRow
  <2>3. /\ fb = [base |-> gop.base, width |-> gop.width, height |-> gop.height,
                 stride |-> BytesPerRow(gop), format |-> PixelFormatFrom(gop.format)]
        /\ PixelFormatFrom(gop.format) = gop.format
    BY <1>3, <1>5, <2>1 DEF GetFramebufferInfo, PixelFormatFrom
  <2>4. fb \in GopModes
    BY <2>1, <2>2, <2>3 DEF GopModes
  <2>5. fb # None
    BY <2>4, FirmwaresAssumption
  <2>6. /\ kbi.framebuffer.pixel_format = KernelPixelFormat(gop.format)
        /\ kbi.framebuffer.size = BytesPerRow(gop) * gop.height
    BY <1>3, <2>3, <2>5 DEF KernelFramebufferFrom, FramebufferSize
  <2>7. KernelPixelFormat(gop.format) # "UNKNOWN"
    BY <2>1 DEF KernelPixelFormat
  <2>8. \/ kbi.framebuffer.size >= 4 * gop.width * gop.height
        \/ ~checks /\ RowOverflows(gop)
    <3>1. CASE RowOverflows(gop)
      BY <1>3, <1>5, <3>1
    <3>2. CASE ~RowOverflows(gop)
      <4> DEFINE w == gop.width
                 r == gop.stride
                 h == gop.height
      <4>1. w \in Nat /\ r \in Nat /\ h \in Nat /\ w <= r
        BY <1>3, <1>5, <2>1, Sizes
      <4>2. BytesPerRow(gop) = r * 4
        BY <2>1, <3>2, Sizes DEF BytesPerRow, RowOverflows
      <4> HIDE DEF w, r, h
      <4>3. 4 * w * h <= (r * 4) * h /\ 4 * w * h \in Nat /\ (r * 4) * h \in Nat
        BY <4>1, RowsCover
      <4>4. kbi.framebuffer.size = (r * 4) * h
        BY <2>6, <4>2 DEF h
      <4>5. kbi.framebuffer.size >= 4 * w * h
        BY <4>3, <4>4
      <4> QED
        BY <4>5 DEF w, h
    <3> QED
      BY <3>1, <3>2
  <2> QED
    BY <1>2, <1>3, <1>5, <2>5, <2>6, <2>7, <2>8 DEF DevicesFaithful
<1> QED
  BY <1>4, <1>5

-----------------------------------------------------------------------------
(* The kernel's two passes over the handed-over map. *)

\* What each entry adds to the totals of print_memory_map (by code) and of
\* MemoryMap::parse (by kind); they agree on usable and reclaimable bytes.
Bytes(d) == d.page_count * PageSize
LogRam(e) ==
    [j \in 1 .. Len(e) |-> IF IsMmioCode(e[j].ty) THEN 0 ELSE Bytes(e[j])]
ParsedRam(e) ==
    [j \in 1 .. Len(e) |-> IF KindFrom(e[j].ty) \in NotRam THEN 0 ELSE Bytes(e[j])]
UsableBytes(e) ==
    [j \in 1 .. Len(e) |-> IF KindFrom(e[j].ty) \in UsableKinds THEN Bytes(e[j]) ELSE 0]
ReclaimBytes(e) ==
    [j \in 1 .. Len(e) |-> IF KindFrom(e[j].ty) \in ReclaimKinds THEN Bytes(e[j]) ELSE 0]

\* The capped sum of the first m weights.
Upto(w, e, m) == Cap(SumOver(w, Len(e))[1 .. m])

\* print_memory_map: its argument is the finished map, and its totals are the
\* sums over the entries it has passed.
RInv ==
    /\ rpc \in {"idle", "loop", "done"}
    /\ ri \in Nat \ {0}
    /\ rpc = "idle" => /\ ri = 1
                       /\ rTotal = 0 /\ rUsable = 0 /\ rReclaimable = 0
    /\ rpc # "idle" =>
          /\ bpc = "built" /\ rmap = kbi.entries
          /\ ri <= Len(kbi.entries) + 1
          /\ rTotal = Upto(LogRam(kbi.entries), kbi.entries, ri - 1)
          /\ rUsable = Upto(UsableBytes(kbi.entries), kbi.entries, ri - 1)
          /\ rReclaimable = Upto(ReclaimBytes(kbi.entries), kbi.entries, ri - 1)
    /\ rpc = "done" => ri = Len(kbi.entries) + 1

\* parse: the same, after print_memory_map; it keeps what is not empty.
PInv ==
    /\ ppc \in {"idle", "loop", "done"}
    /\ pi \in Nat \ {0}
    /\ parsed \in Seq(KernelDescriptors)
    /\ ppc = "idle" => /\ pi = 1
                       /\ total = 0 /\ usable = 0 /\ reclaimable = 0
    /\ ppc # "idle" =>
          /\ rpc = "done" /\ psource = HandedOver
          /\ pi <= Len(kbi.entries) + 1
          /\ total = Upto(ParsedRam(kbi.entries), kbi.entries, pi - 1)
          /\ usable = Upto(UsableBytes(kbi.entries), kbi.entries, pi - 1)
          /\ reclaimable = Upto(ReclaimBytes(kbi.entries), kbi.entries, pi - 1)
    /\ \A j \in 1 .. pi - 1 : kbi.entries[j].page_count # 0 =>
          \E m \in 1 .. Len(parsed) : parsed[m] = kbi.entries[j]
    /\ ppc # "done" => result = Parse!Pending
    /\ result # Parse!Panic
    /\ result = Parse!Ok => pi = Len(kbi.entries) + 1

IInv == BInv /\ RInv /\ PInv

\* An entry's pages are a word of bytes, so the kernel's products fit.
LEMMA PagesFit ==
    ASSUME NEW c \in 0 .. (MaxWord \div PageSize)
    PROVE  c * PageSize \in Words
<1> DEFINE w == MaxWord \div PageSize
<1>1. /\ w \in Nat /\ MaxWord % PageSize \in Nat
      /\ MaxWord = PageSize * w + (MaxWord % PageSize)
  BY Sizes, DivMod
<1> HIDE DEF w
<1>2. c \in Nat /\ c <= w
  BY <1>1 DEF w
<1>3. /\ c * PageSize \in Nat /\ PageSize * w \in Nat
      /\ c * PageSize = PageSize * c
  BY <1>1, <1>2, Sizes
<1>4. PageSize * c <= PageSize * w
  <2>1. CASE c = w
    BY <2>1, <1>3
  <2>2. CASE c < w
    <3>1. PageSize * c + PageSize <= PageSize * w
      BY <2>2, <1>1, <1>2, Sizes, ProductGrows
    <3> QED
      BY <3>1, <1>3, Sizes
  <2> QED
    BY <2>1, <2>2, <1>1, <1>2
<1>5. c * PageSize <= MaxWord
  BY <1>1, <1>3, <1>4, Sizes
<1> QED
  BY <1>3, <1>5, Sizes DEF Words

LEMMA KernelWeights ==
    ASSUME NEW e \in Seq(KernelDescriptors)
    PROVE  /\ Len(e) \in Nat
           /\ \A j \in 1 .. Len(e) : /\ e[j] \in KernelDescriptors
                                     /\ e[j].ty \in UefiTypes
                                     /\ e[j].page_count \in Nat
                                     /\ Bytes(e[j]) \in Words /\ Bytes(e[j]) \in Nat
           /\ LogRam(e) \in [1 .. Len(e) -> Nat]
           /\ ParsedRam(e) \in [1 .. Len(e) -> Nat]
           /\ UsableBytes(e) \in [1 .. Len(e) -> Nat]
           /\ ReclaimBytes(e) \in [1 .. Len(e) -> Nat]
<1>1. Len(e) \in Nat /\ \A j \in 1 .. Len(e) : e[j] \in KernelDescriptors
  OBVIOUS
<1>2. \A d \in KernelDescriptors : /\ d.ty \in UefiTypes
                                  /\ d.page_count \in 0 .. (MaxWord \div PageSize)
  BY DEF KernelDescriptors
<1>3. \A c \in 0 .. (MaxWord \div PageSize) : c \in Nat /\ c * PageSize \in Words
  BY PagesFit
<1>4. \A x \in Words : x \in Nat
  BY Sizes DEF Words
<1>5. \A j \in 1 .. Len(e) : /\ e[j].ty \in UefiTypes
                             /\ e[j].page_count \in Nat
                             /\ Bytes(e[j]) \in Words /\ Bytes(e[j]) \in Nat
  BY <1>1, <1>2, <1>3, <1>4, Zenon DEF Bytes
<1>6. 0 \in Nat
  OBVIOUS
<1>7. /\ LogRam(e) \in [1 .. Len(e) -> Nat]
      /\ ParsedRam(e) \in [1 .. Len(e) -> Nat]
  BY <1>5, <1>6 DEF LogRam, ParsedRam
<1>8. /\ UsableBytes(e) \in [1 .. Len(e) -> Nat]
      /\ ReclaimBytes(e) \in [1 .. Len(e) -> Nat]
  BY <1>5, <1>6 DEF UsableBytes, ReclaimBytes
<1> QED
  BY <1>1, <1>5, <1>7, <1>8

\* A capped sum starts at nothing and takes one saturating addition per entry.
LEMMA UptoNone ==
    ASSUME NEW e \in Seq(KernelDescriptors), NEW w \in [1 .. Len(e) -> Nat]
    PROVE  Upto(w, e, 0) = 0
<1>1. Len(e) \in Nat
  OBVIOUS
<1>2. SumOver(w, Len(e))[1 .. 0] = 0
  BY <1>1, SumNone
<1> QED
  BY <1>2, Sizes DEF Upto, Cap

LEMMA UptoStep ==
    ASSUME NEW e \in Seq(KernelDescriptors), NEW w \in [1 .. Len(e) -> Nat],
           NEW m \in 1 .. Len(e)
    PROVE  /\ Upto(w, e, m) = SatSum(Upto(w, e, m - 1), w[m])
           /\ w[m] = 0 => Upto(w, e, m) = Upto(w, e, m - 1)
<1> DEFINE x == SumOver(w, Len(e))[1 .. m - 1]
<1>1. Len(e) \in Nat /\ w[m] \in Nat
  OBVIOUS
<1>2. x \in Nat /\ SumOver(w, Len(e))[1 .. m] = x + w[m]
  BY <1>1, SumStep
<1> HIDE DEF x
<1>3. SatSum(Cap(x), w[m]) = Cap(x + w[m]) /\ x + 0 = x
  BY <1>1, <1>2, CapSums
<1> QED
  BY <1>2, <1>3 DEF Upto, x

\* The instances' vocabularies are the ones of MemoryTypes.
LEMMA SameTypes ==
    /\ \A ty : Report!IsMmioCode(ty) <=> IsMmioCode(ty)
    /\ \A ty : Report!IsUsableAfterBoot(ty) <=> IsUsableAfterBoot(ty)
    /\ \A ty : Parse!KindFrom(ty) = KindFrom(ty)
    /\ Parse!NotRam = NotRam /\ Parse!UsableKinds = UsableKinds
    /\ Parse!ReclaimKinds = ReclaimKinds
    /\ \A a, b : Report!SatPlus(a, b) = SatSum(a, b)
    /\ \A a, b : Parse!SatAdd(a, b) = SatSum(a, b)
<1>1. \A ty : Parse!KindFrom(ty) = KindFrom(ty)
  BY Zenon DEF Parse!KindFrom, KindFrom
<1>2. /\ \A ty : Report!IsMmioCode(ty) <=> IsMmioCode(ty)
      /\ \A ty : Report!IsUsableAfterBoot(ty) <=> IsUsableAfterBoot(ty)
  BY Zenon DEF Report!IsMmioCode, IsMmioCode, Report!IsUsableAfterBoot, IsUsableAfterBoot
<1>3. /\ Parse!NotRam = NotRam /\ Parse!UsableKinds = UsableKinds
      /\ Parse!ReclaimKinds = ReclaimKinds
  BY Zenon DEF Parse!NotRam, NotRam, Parse!UsableKinds, UsableKinds,
     Parse!ReclaimKinds, ReclaimKinds
<1>4. /\ \A a, b : Report!SatPlus(a, b) = SatSum(a, b)
      /\ \A a, b : Parse!SatAdd(a, b) = SatSum(a, b)
  BY Zenon DEF Report!SatPlus, Parse!SatAdd, SatSum
<1> QED
  BY <1>1, <1>2, <1>3, <1>4

\* The entries handed over, once they are there.
LEMMA Handed ==
    ASSUME BInv
    PROVE  /\ kbi.entries \in Seq(KernelDescriptors) /\ Len(kbi.entries) \in Nat
           /\ checks \in BOOLEAN
  BY DEF BInv, BTypes, KernelBootInfos

LEMMA InitIInv == Init => IInv
<1> SUFFICES ASSUME Init PROVE IInv
  OBVIOUS
<1>1. BInv
  BY InitBInv DEF Init
<1>2. RInv
  BY DEF Init, Report!RInit, RInv
<1>3. PInv
  <2>1. Parse!Pending # Parse!Panic /\ Parse!Pending # Parse!Ok
    BY DEF Parse!Pending, Parse!Panic, Parse!Ok
  <2>2. <<>> \in Seq(KernelDescriptors)
    OBVIOUS
  <2> QED
    BY <2>1, <2>2 DEF Init, Parse!Init, PInv
<1> QED
  BY <1>1, <1>2, <1>3 DEF IInv

\* While the bootloader runs, the kernel's passes have not begun.
LEMMA BootIInv ==
    ASSUME IInv, BInv', bpc # "built", UNCHANGED <<rvars, pvars>>
    PROVE  IInv'
<1>1. rpc = "idle" /\ ppc = "idle"
  BY DEF IInv, RInv, PInv
<1>2. RInv'
  BY <1>1 DEF IInv, RInv, rvars
<1>3. result # Parse!Ok
  <2>1. result = Parse!Pending
    BY <1>1 DEF IInv, PInv
  <2> QED
    BY <2>1 DEF Parse!Pending, Parse!Ok
<1>4. PInv'
  BY <1>1, <1>3 DEF IInv, PInv, pvars, Parse!Pending, Parse!Ok, Parse!Panic
<1> QED
  BY <1>2, <1>4 DEF IInv

LEMMA StillPInv ==
    ASSUME PInv, UNCHANGED <<bvars, pvars>>, rpc' = rpc \/ ppc = "idle"
    PROVE  PInv'
  BY DEF PInv, bvars, pvars, HandedOver, Parse!Pending, Parse!Ok, Parse!Panic

\* The weights of entry j, by print_memory_map's classes.
LEMMA LogWeights ==
    ASSUME NEW e \in Seq(KernelDescriptors), NEW j \in 1 .. Len(e)
    PROVE  /\ LogRam(e)[j] = IF IsMmioCode(e[j].ty) THEN 0 ELSE Bytes(e[j])
           /\ UsableBytes(e)[j] =
                 IF IsUsableAfterBoot(e[j].ty) /\ e[j].ty = "CONVENTIONAL"
                 THEN Bytes(e[j]) ELSE 0
           /\ ReclaimBytes(e)[j] =
                 IF IsUsableAfterBoot(e[j].ty) /\ e[j].ty # "CONVENTIONAL"
                 THEN Bytes(e[j]) ELSE 0
<1>1. e[j].ty \in UefiTypes
  BY KernelWeights
<1>2. /\ KindFrom(e[j].ty) \in UsableKinds
            <=> IsUsableAfterBoot(e[j].ty) /\ e[j].ty = "CONVENTIONAL"
      /\ KindFrom(e[j].ty) \in ReclaimKinds
            <=> IsUsableAfterBoot(e[j].ty) /\ e[j].ty # "CONVENTIONAL"
  BY <1>1, ClassesAgree
<1>3. /\ LogRam(e)[j] = IF IsMmioCode(e[j].ty) THEN 0 ELSE Bytes(e[j])
      /\ UsableBytes(e)[j] = IF KindFrom(e[j].ty) \in UsableKinds THEN Bytes(e[j]) ELSE 0
      /\ ReclaimBytes(e)[j] = IF KindFrom(e[j].ty) \in ReclaimKinds THEN Bytes(e[j]) ELSE 0
  BY DEF LogRam, UsableBytes, ReclaimBytes
<1> QED
  BY <1>2, <1>3, Zenon

\* An empty entry weighs nothing.
LEMMA EmptyWeighsNothing ==
    ASSUME NEW e \in Seq(KernelDescriptors), NEW j \in 1 .. Len(e),
           e[j].page_count = 0
    PROVE  /\ LogRam(e)[j] = 0 /\ ParsedRam(e)[j] = 0
           /\ UsableBytes(e)[j] = 0 /\ ReclaimBytes(e)[j] = 0
<1>1. Bytes(e[j]) = 0
  BY Sizes DEF Bytes
<1> QED
  BY <1>1 DEF LogRam, ParsedRam, UsableBytes, ReclaimBytes

LEMMA ReportIInv ==
    ASSUME IInv, PrintMemoryMap
    PROVE  IInv'
<1> DEFINE e == kbi.entries
           n == Len(e)
<1>1. UNCHANGED <<bvars, pvars>>
  BY DEF PrintMemoryMap
<1>2. /\ BInv' /\ e \in Seq(KernelDescriptors) /\ n \in Nat /\ checks \in BOOLEAN
      /\ kbi' = kbi /\ bpc' = bpc
  BY <1>1, StillBInv, Handed DEF IInv, bvars
<1>3. /\ LogRam(e) \in [1 .. n -> Nat] /\ UsableBytes(e) \in [1 .. n -> Nat]
      /\ ReclaimBytes(e) \in [1 .. n -> Nat]
  BY <1>2, KernelWeights
<1>4. PInv'
  <2>1. rpc = "done" => rpc' = rpc
    BY DEF PrintMemoryMap, Report!RCall, Report!RStep, Report!ReportSkip,
       Report!ReportRegion, Report!ReportDone
  <2>2. rpc' = rpc \/ ppc = "idle"
    BY <2>1 DEF IInv, PInv
  <2> QED
    BY <1>1, <2>2, StillPInv DEF IInv
<1>5. CASE bpc = "built" /\ Report!RCall(kbi.entries)
  <2>1. /\ Upto(LogRam(e), e, 0) = 0 /\ Upto(UsableBytes(e), e, 0) = 0
        /\ Upto(ReclaimBytes(e), e, 0) = 0
    BY <1>2, <1>3, UptoNone
  <2>2. /\ ri' = 1 /\ rTotal' = 0 /\ rUsable' = 0 /\ rReclaimable' = 0
        /\ rpc' = "loop" /\ rmap' = e
    BY <1>5 DEF Report!RCall, IInv, RInv
  <2> HIDE DEF e
  <2>3. kbi'.entries = e
    BY <1>2 DEF e
  <2>4. ri' - 1 = 0 /\ 1 <= Len(e) + 1
    BY <1>2, <2>2
  <2>5. RInv'
    BY <1>2, <1>5, <2>1, <2>2, <2>3, <2>4 DEF RInv
  <2> QED
    BY <1>2, <1>4, <2>5 DEF IInv
<1>6. CASE Report!RStep
  <2>1. rpc = "loop" /\ bpc = "built" /\ rmap = e /\ ri \in Nat \ {0} /\ ri <= n + 1
        /\ rTotal = Upto(LogRam(e), e, ri - 1)
        /\ rUsable = Upto(UsableBytes(e), e, ri - 1)
        /\ rReclaimable = Upto(ReclaimBytes(e), e, ri - 1)
    BY <1>6 DEF IInv, RInv, Report!RStep, Report!ReportSkip, Report!ReportRegion,
       Report!ReportDone
  <2>2. CASE Report!ReportSkip
    <3>1. /\ ri \in 1 .. n /\ e[ri].page_count = 0 /\ ri' = ri + 1
          /\ UNCHANGED <<rpc, rmap, rTotal, rUsable, rReclaimable>>
      BY <2>1, <2>2, <1>2 DEF Report!ReportSkip
    <3> HIDE DEF e
    <3>2. /\ LogRam(e)[ri] = 0 /\ UsableBytes(e)[ri] = 0 /\ ReclaimBytes(e)[ri] = 0
      BY <1>2, <3>1, EmptyWeighsNothing
    <3>3. /\ Upto(LogRam(e), e, ri) = rTotal /\ Upto(UsableBytes(e), e, ri) = rUsable
          /\ Upto(ReclaimBytes(e), e, ri) = rReclaimable
      BY <1>2, <1>3, <2>1, <3>1, <3>2, UptoStep
    <3>4. ri' - 1 = ri /\ ri' \in Nat \ {0} /\ ri' <= n + 1 /\ kbi'.entries = e
      BY <1>2, <2>1, <3>1 DEF e
    <3>5. RInv'
      BY <1>2, <2>1, <3>1, <3>3, <3>4 DEF RInv
    <3> QED
      BY <1>2, <1>4, <3>5 DEF IInv
  <2>3. CASE Report!ReportRegion
    <3>1. ri \in 1 .. n
      BY <2>1, <2>3, <1>2 DEF Report!ReportRegion
    <3> DEFINE d == e[ri]
               b == Bytes(d)
    <3>2. b \in Words /\ d.ty \in UefiTypes
      BY <1>2, <3>1, KernelWeights
    <3>3. ~(b > MaxWord) /\ b % (MaxWord + 1) = b
      <4> HIDE DEF b
      <4> QED
        BY <3>2, Sizes DEF Words
    <3>4. /\ Report!AddToTotals(d.ty, b % (MaxWord + 1))
          /\ ri' = ri + 1 /\ rpc' = rpc /\ rmap' = rmap
      BY <2>1, <2>3, <3>3 DEF Report!ReportRegion, Bytes
    <3>5. /\ rTotal' = IF IsMmioCode(d.ty) THEN rTotal ELSE SatSum(rTotal, b)
          /\ rUsable' = IF IsUsableAfterBoot(d.ty) /\ d.ty = "CONVENTIONAL"
                        THEN SatSum(rUsable, b) ELSE rUsable
          /\ rReclaimable' = IF IsUsableAfterBoot(d.ty) /\ d.ty # "CONVENTIONAL"
                             THEN SatSum(rReclaimable, b) ELSE rReclaimable
      <4> HIDE DEF b, d
      <4> QED
        BY <3>3, <3>4, SameTypes DEF Report!AddToTotals
    <3> HIDE DEF e
    <3>6. /\ LogRam(e)[ri] = IF IsMmioCode(d.ty) THEN 0 ELSE b
          /\ UsableBytes(e)[ri] =
                IF IsUsableAfterBoot(d.ty) /\ d.ty = "CONVENTIONAL" THEN b ELSE 0
          /\ ReclaimBytes(e)[ri] =
                IF IsUsableAfterBoot(d.ty) /\ d.ty # "CONVENTIONAL" THEN b ELSE 0
      BY <1>2, <3>1, LogWeights
    <3>7. /\ Upto(LogRam(e), e, ri) = SatSum(rTotal, LogRam(e)[ri])
          /\ LogRam(e)[ri] = 0 => Upto(LogRam(e), e, ri) = rTotal
          /\ Upto(UsableBytes(e), e, ri) = SatSum(rUsable, UsableBytes(e)[ri])
          /\ UsableBytes(e)[ri] = 0 => Upto(UsableBytes(e), e, ri) = rUsable
          /\ Upto(ReclaimBytes(e), e, ri) = SatSum(rReclaimable, ReclaimBytes(e)[ri])
          /\ ReclaimBytes(e)[ri] = 0 => Upto(ReclaimBytes(e), e, ri) = rReclaimable
      BY <1>2, <1>3, <2>1, <3>1, UptoStep
    <3> HIDE DEF d, b
    <3>8. /\ rTotal' = Upto(LogRam(e), e, ri)
          /\ rUsable' = Upto(UsableBytes(e), e, ri)
          /\ rReclaimable' = Upto(ReclaimBytes(e), e, ri)
      BY <3>5, <3>6, <3>7, Zenon
    <3>9. ri' - 1 = ri /\ ri' \in Nat \ {0} /\ ri' <= n + 1 /\ kbi'.entries = e
      BY <1>2, <2>1, <3>1, <3>4 DEF e
    <3>10. RInv'
      BY <1>2, <2>1, <3>4, <3>8, <3>9 DEF RInv
    <3> QED
      BY <1>2, <1>4, <3>10 DEF IInv
  <2>4. CASE Report!ReportDone
    <3>1. /\ ri > n /\ rpc' = "done"
          /\ UNCHANGED <<rmap, ri, rTotal, rUsable, rReclaimable>>
      BY <2>1, <2>4 DEF Report!ReportDone
    <3>2. ri = n + 1 /\ kbi'.entries = e
      BY <1>2, <2>1, <3>1
    <3> HIDE DEF e
    <3>3. RInv'
      BY <1>2, <2>1, <3>1, <3>2 DEF RInv
    <3> QED
      BY <1>2, <1>4, <3>3 DEF IInv
  <2> QED
    BY <1>6, <2>2, <2>3, <2>4 DEF Report!RStep
<1> QED
  BY <1>5, <1>6 DEF PrintMemoryMap

\* The weights of entry j, by parse's classes.
LEMMA ParseWeights ==
    ASSUME NEW e \in Seq(KernelDescriptors), NEW j \in 1 .. Len(e)
    PROVE  /\ ParsedRam(e)[j] = IF KindFrom(e[j].ty) \in NotRam THEN 0 ELSE Bytes(e[j])
           /\ UsableBytes(e)[j] =
                 IF KindFrom(e[j].ty) \in UsableKinds THEN Bytes(e[j]) ELSE 0
           /\ ReclaimBytes(e)[j] =
                 IF KindFrom(e[j].ty) \in ReclaimKinds THEN Bytes(e[j]) ELSE 0
  BY DEF ParsedRam, UsableBytes, ReclaimBytes

\* parse returns: its sums stay, and it neither panics nor succeeds early.
LEMMA ReturnPInv ==
    ASSUME PInv, NEW r, Parse!Return(r), UNCHANGED <<bvars, rvars>>, ppc = "loop",
           r # Parse!Panic, r = Parse!Ok => pi = Len(kbi.entries) + 1
    PROVE  PInv'
  BY DEF PInv, Parse!Return, Parse!sums, bvars, rvars, HandedOver, Parse!Pending,
     Parse!Ok, Parse!Panic

LEMMA ParseIInv ==
    ASSUME IInv, ParseMemoryMap
    PROVE  IInv'
<1> DEFINE e == kbi.entries
           n == Len(e)
<1>1. UNCHANGED <<bvars, rvars>>
  BY DEF ParseMemoryMap
<1>2. /\ BInv' /\ e \in Seq(KernelDescriptors) /\ n \in Nat /\ checks \in BOOLEAN
      /\ kbi' = kbi /\ bpc' = bpc
  BY <1>1, StillBInv, Handed DEF IInv, bvars
<1>3. /\ ParsedRam(e) \in [1 .. n -> Nat] /\ UsableBytes(e) \in [1 .. n -> Nat]
      /\ ReclaimBytes(e) \in [1 .. n -> Nat]
  BY <1>2, KernelWeights
<1>4. RInv'
  BY <1>1 DEF IInv, RInv, bvars, rvars
<1> SUFFICES PInv'
  BY <1>2, <1>4 DEF IInv
<1>5. /\ Parse!Pending # Parse!Ok /\ Parse!Pending # Parse!Panic
      /\ Parse!Empty # Parse!Ok /\ Parse!Empty # Parse!Panic /\ Parse!Ok # Parse!Panic
      /\ \A x, y : /\ Parse!UnalignedBase(x, y) # Parse!Ok
                   /\ Parse!UnalignedBase(x, y) # Parse!Panic
  BY DEF Parse!Pending, Parse!Ok, Parse!Panic, Parse!Empty, Parse!UnalignedBase
<1>6. CASE rpc = "done" /\ Parse!Call(HandedOver)
  <2>1. /\ Upto(ParsedRam(e), e, 0) = 0 /\ Upto(UsableBytes(e), e, 0) = 0
        /\ Upto(ReclaimBytes(e), e, 0) = 0
    BY <1>2, <1>3, UptoNone
  <2>2. /\ pi' = 1 /\ total' = 0 /\ usable' = 0 /\ reclaimable' = 0
        /\ ppc' = "loop" /\ psource' = HandedOver /\ result' = Parse!Pending
        /\ parsed' = parsed /\ parsed \in Seq(KernelDescriptors)
    BY <1>6 DEF Parse!Call, Parse!sums, IInv, PInv
  <2>3. rpc' = "done" /\ HandedOver' = HandedOver
    BY <1>1, <1>6 DEF rvars, bvars, HandedOver
  <2> HIDE DEF e
  <2>4. kbi'.entries = e
    BY <1>2 DEF e
  <2>5. pi' - 1 = 0 /\ 1 <= Len(e) + 1
    BY <1>2, <2>2
  <2> QED
    BY <1>5, <2>1, <2>2, <2>3, <2>4, <2>5 DEF PInv
<1>7. CASE Parse!Step
  <2>1. /\ ppc = "loop" /\ rpc = "done" /\ psource = HandedOver
        /\ pi \in Nat \ {0} /\ pi <= n + 1
        /\ parsed \in Seq(KernelDescriptors) /\ result = Parse!Pending
        /\ total = Upto(ParsedRam(e), e, pi - 1)
        /\ usable = Upto(UsableBytes(e), e, pi - 1)
        /\ reclaimable = Upto(ReclaimBytes(e), e, pi - 1)
    <3>1. ppc = "loop"
      BY <1>7 DEF Parse!Step, Parse!SkipEmpty, Parse!RejectUnaligned, Parse!SizePanics,
         Parse!KeepDescriptor, Parse!Finish, Parse!InLoop
    <3> QED
      BY <3>1 DEF IInv, PInv
  <2>2. psource.entries = e /\ HandedOver' = HandedOver /\ rpc' = "done"
    BY <1>1, <2>1 DEF HandedOver, bvars, rvars
  <2>3. \A j \in 1 .. pi - 1 : e[j].page_count # 0 =>
           \E m \in 1 .. Len(parsed) : parsed[m] = e[j]
    BY DEF IInv, PInv
  <2>4. CASE Parse!SkipEmpty
    <3>1. /\ pi \in 1 .. n /\ e[pi].page_count = 0 /\ pi' = pi + 1
          /\ UNCHANGED <<ppc, psource, parsed, total, usable, reclaimable, result>>
      BY <1>2, <2>1, <2>2, <2>4 DEF Parse!SkipEmpty, Parse!InLoop, Parse!Desc, Parse!sums
    <3> HIDE DEF e
    <3>2. /\ ParsedRam(e)[pi] = 0 /\ UsableBytes(e)[pi] = 0 /\ ReclaimBytes(e)[pi] = 0
      BY <1>2, <3>1, EmptyWeighsNothing
    <3>3. /\ Upto(ParsedRam(e), e, pi) = total /\ Upto(UsableBytes(e), e, pi) = usable
          /\ Upto(ReclaimBytes(e), e, pi) = reclaimable
      BY <1>2, <1>3, <2>1, <3>1, <3>2, UptoStep
    <3>4. pi' - 1 = pi /\ pi' \in Nat \ {0} /\ pi' <= n + 1 /\ kbi'.entries = e
      BY <1>2, <2>1, <3>1 DEF e
    <3>5. \A j \in 1 .. pi : e[j].page_count # 0 =>
             \E m \in 1 .. Len(parsed) : parsed[m] = e[j]
      BY <2>1, <2>3, <3>1
    <3> QED
      BY <1>5, <2>1, <2>2, <3>1, <3>3, <3>4, <3>5 DEF PInv
  <2>5. CASE Parse!RejectUnaligned
    <3>1. PICK r : Parse!Return(r) /\ r # Parse!Ok /\ r # Parse!Panic
      BY <1>5, <2>5 DEF Parse!RejectUnaligned
    <3> QED
      BY <1>1, <2>1, <3>1, ReturnPInv DEF IInv
  <2>6. CASE Parse!SizePanics
    <3>1. pi \in 1 .. n /\ e[pi].page_count * PageSize > MaxWord
      BY <1>2, <2>1, <2>2, <2>6 DEF Parse!SizePanics, Parse!InLoop, Parse!Desc,
         Parse!SizeOverflows
    <3>2. Bytes(e[pi]) \in Words
      BY <1>2, <3>1, KernelWeights
    <3> DEFINE b == e[pi].page_count * PageSize
    <3>3. b \in Words /\ b > MaxWord
      BY <3>1, <3>2 DEF Bytes
    <3> HIDE DEF b
    <3> QED
      BY <3>3, Sizes DEF Words
  <2>7. CASE Parse!KeepDescriptor
    <3> DEFINE d == e[pi]
               b == Bytes(d)
    <3>1. /\ pi \in 1 .. n /\ Parse!AddToStats(d) /\ parsed' = Append(parsed, d)
          /\ pi' = pi + 1 /\ UNCHANGED <<ppc, psource, result>>
      BY <1>2, <2>1, <2>2, <2>7 DEF Parse!KeepDescriptor, Parse!InLoop, Parse!Desc
    <3>2. b \in Words /\ d \in KernelDescriptors
      BY <1>2, <3>1, KernelWeights
    <3>3. Parse!SizeBytes(d) = b
      <4>1. b % (MaxWord + 1) = b
        <5> HIDE DEF b
        <5> QED
          BY <3>2, Sizes DEF Words
      <4> QED
        BY <4>1 DEF Parse!SizeBytes, Bytes
    <3>4. /\ total' = IF KindFrom(d.ty) \in NotRam THEN total ELSE SatSum(total, b)
          /\ usable' = IF KindFrom(d.ty) \in UsableKinds
                       THEN SatSum(usable, b) ELSE usable
          /\ reclaimable' = IF KindFrom(d.ty) \in ReclaimKinds
                            THEN SatSum(reclaimable, b) ELSE reclaimable
      <4> HIDE DEF d, b
      <4> QED
        BY <3>1, <3>3, SameTypes, Zenon DEF Parse!AddToStats
    <3> HIDE DEF e
    <3>5. /\ ParsedRam(e)[pi] = IF KindFrom(d.ty) \in NotRam THEN 0 ELSE b
          /\ UsableBytes(e)[pi] = IF KindFrom(d.ty) \in UsableKinds THEN b ELSE 0
          /\ ReclaimBytes(e)[pi] = IF KindFrom(d.ty) \in ReclaimKinds THEN b ELSE 0
      BY <1>2, <3>1, ParseWeights
    <3>6. /\ Upto(ParsedRam(e), e, pi) = SatSum(total, ParsedRam(e)[pi])
          /\ ParsedRam(e)[pi] = 0 => Upto(ParsedRam(e), e, pi) = total
          /\ Upto(UsableBytes(e), e, pi) = SatSum(usable, UsableBytes(e)[pi])
          /\ UsableBytes(e)[pi] = 0 => Upto(UsableBytes(e), e, pi) = usable
          /\ Upto(ReclaimBytes(e), e, pi) = SatSum(reclaimable, ReclaimBytes(e)[pi])
          /\ ReclaimBytes(e)[pi] = 0 => Upto(ReclaimBytes(e), e, pi) = reclaimable
      BY <1>2, <1>3, <2>1, <3>1, UptoStep
    <3>7. /\ Len(parsed') = Len(parsed) + 1 /\ Len(parsed) \in Nat
          /\ parsed' \in Seq(KernelDescriptors)
          /\ \A m \in 1 .. Len(parsed) : parsed'[m] = parsed[m]
          /\ parsed'[Len(parsed) + 1] = e[pi]
      BY <2>1, <3>1, <3>2
    <3>8. \A j \in 1 .. pi : e[j].page_count # 0 =>
             \E m \in 1 .. Len(parsed') : parsed'[m] = e[j]
      <4> SUFFICES ASSUME NEW j \in 1 .. pi, e[j].page_count # 0
                   PROVE  \E m \in 1 .. Len(parsed') : parsed'[m] = e[j]
        OBVIOUS
      <4>1. CASE j = pi
        <5>1. Len(parsed) + 1 \in 1 .. Len(parsed')
          BY <3>7
        <5> QED
          BY <3>7, <4>1, <5>1
      <4>2. CASE j # pi
        <5>1. PICK m \in 1 .. Len(parsed) : parsed[m] = e[j]
          <6>1. j \in 1 .. pi - 1
            BY <2>1, <4>2
          <6> QED
            BY <2>3, <6>1
        <5>2. m \in 1 .. Len(parsed') /\ parsed'[m] = e[j]
          BY <3>7, <5>1
        <5> QED
          BY <5>2
      <4> QED
        BY <4>1, <4>2
    <3> HIDE DEF d, b
    <3>9. /\ total' = Upto(ParsedRam(e), e, pi)
          /\ usable' = Upto(UsableBytes(e), e, pi)
          /\ reclaimable' = Upto(ReclaimBytes(e), e, pi)
      BY <3>4, <3>5, <3>6, Zenon
    <3>10. pi' - 1 = pi /\ pi' \in Nat \ {0} /\ pi' <= n + 1 /\ kbi'.entries = e
      BY <1>2, <2>1, <3>1 DEF e
    <3> QED
      BY <1>5, <2>1, <2>2, <3>1, <3>7, <3>8, <3>9, <3>10 DEF PInv
  <2>8. CASE Parse!Finish
    <3>1. PICK r : Parse!Return(r) /\ r # Parse!Panic
      BY <1>5, <2>8 DEF Parse!Finish
    <3>2. pi = n + 1
      BY <1>2, <2>1, <2>2, <2>8 DEF Parse!Finish
    <3> QED
      BY <1>1, <2>1, <3>1, <3>2, ReturnPInv DEF IInv
  <2> QED
    BY <1>7, <2>4, <2>5, <2>6, <2>7, <2>8 DEF Parse!Step
<1> QED
  BY <1>6, <1>7 DEF ParseMemoryMap

LEMMA NextIInv == IInv /\ [Next]_vars => IInv'
<1> SUFFICES ASSUME IInv, [Next]_vars PROVE IInv'
  OBVIOUS
<1>1. CASE FirmwareAnswers
  <2>1. BInv' /\ bpc # "built"
    BY <1>1, CallBInv DEF FirmwareAnswers, IInv
  <2> QED
    BY <1>1, <2>1, BootIInv DEF FirmwareAnswers
<1>2. CASE Bootloader
  <2>1. BInv'
    BY <1>2, StepBInv DEF Bootloader, IInv
  <2>2. bpc # "built"
    BY <1>2 DEF Bootloader, BStep, CollectPanics, CollectDescriptor, SortRegions,
       SummaryPanics, PrintMemorySummary, FramebufferPanics, FindDevices, CopyRegion,
       FinishConversion
  <2> QED
    BY <1>2, <2>1, <2>2, BootIInv DEF Bootloader
<1>3. CASE UNCHANGED vars
  <2>1. UNCHANGED <<bvars, rvars, pvars>>
    BY <1>3 DEF vars
  <2>2. BInv' /\ PInv'
    BY <2>1, StillBInv, StillPInv DEF IInv, rvars
  <2>3. RInv'
    BY <2>1 DEF IInv, RInv, bvars, rvars
  <2> QED
    BY <2>2, <2>3 DEF IInv
<1> QED
  BY <1>1, <1>2, <1>3, ReportIInv, ParseIInv DEF Next, CpuStep

-----------------------------------------------------------------------------
(* The agreement of the three passes. *)

LEMMA LogFollows == IInv => LogAgreesWithParse
<1> SUFFICES ASSUME IInv, ppc = "done", result = Parse!Ok
             PROVE  LogAgreesWithParse
  BY DEF LogAgreesWithParse
<1> DEFINE e == kbi.entries
           n == Len(e)
<1>1. /\ e \in Seq(KernelDescriptors) /\ n \in Nat
      /\ pi - 1 = n /\ ri - 1 = n
      /\ parsed \in Seq(KernelDescriptors)
      /\ total = Upto(ParsedRam(e), e, pi - 1) /\ rTotal = Upto(LogRam(e), e, ri - 1)
      /\ usable = Upto(UsableBytes(e), e, pi - 1)
      /\ rUsable = Upto(UsableBytes(e), e, ri - 1)
      /\ reclaimable = Upto(ReclaimBytes(e), e, pi - 1)
      /\ rReclaimable = Upto(ReclaimBytes(e), e, ri - 1)
  <2>1. e \in Seq(KernelDescriptors) /\ n \in Nat
    BY Handed DEF IInv
  <2>2. rpc = "done" /\ ri = n + 1 /\ pi = n + 1
    BY DEF IInv, PInv, RInv
  <2>3. pi - 1 = n /\ ri - 1 = n
    BY <2>1, <2>2
  <2> QED
    BY <2>1, <2>2, <2>3 DEF IInv, PInv, RInv
<1>2. usable = rUsable /\ reclaimable = rReclaimable
  BY <1>1
<1>3. LogRam(e) \in [1 .. n -> Nat] /\ ParsedRam(e) \in [1 .. n -> Nat]
  BY <1>1, KernelWeights
<1>4. \A j \in 1 .. n : /\ e[j].ty \in UefiTypes /\ Bytes(e[j]) \in Nat
                         /\ e[j].page_count \in Nat
  BY <1>1, KernelWeights
<1>5. \A j \in 1 .. n :
         /\ LogRam(e)[j] = IF IsMmioCode(e[j].ty) THEN 0 ELSE Bytes(e[j])
         /\ ParsedRam(e)[j] = IF KindFrom(e[j].ty) \in NotRam THEN 0 ELSE Bytes(e[j])
  BY DEF LogRam, ParsedRam
<1>6. \A j \in 1 .. n : KindFrom(e[j].ty) \in NotRam
                         <=> IsMmioCode(e[j].ty) \/ KindFrom(e[j].ty) = "FirmwareRuntime"
  BY <1>4, ClassesAgree
<1>7. /\ SumOver(ParsedRam(e), n)[1 .. n] \in Nat
      /\ SumOver(LogRam(e), n)[1 .. n] \in Nat
  <2>1. 1 .. n \in SUBSET (1 .. n)
    OBVIOUS
  <2> HIDE DEF n
  <2> QED
    BY <1>1, <1>3, <2>1, SumType
<1> HIDE DEF n, e
<1>8. total <= rTotal
  <2>1. \A j \in 1 .. n : ParsedRam(e)[j] <= LogRam(e)[j]
    <3> TAKE j \in 1 .. n
    <3>1. Bytes(e[j]) \in Nat
      BY <1>4
    <3> HIDE DEF Bytes
    <3> QED
      BY <1>5, <1>6, <3>1
  <2>2. n \in 0 .. n
    BY <1>1
  <2>3. SumOver(ParsedRam(e), n)[1 .. n] <= SumOver(LogRam(e), n)[1 .. n]
    BY <1>1, <1>3, <2>1, <2>2, SumCompare
  <2>4. Upto(ParsedRam(e), e, n) <= Upto(LogRam(e), e, n)
    BY <1>7, <2>3, CapSums DEF Upto, n
  <2> QED
    BY <1>1, <2>4
<1>9. ASSUME \A j \in DOMAIN parsed : Parse!KindFrom(parsed[j].ty) # "FirmwareRuntime"
      PROVE  total = rTotal
  <2>1. ASSUME NEW j \in 1 .. n PROVE ParsedRam(e)[j] = LogRam(e)[j]
    <3>1. CASE e[j].page_count = 0
      BY <1>1, <2>1, <3>1, EmptyWeighsNothing DEF n
    <3>2. CASE e[j].page_count # 0
      <4>1. PICK m \in 1 .. Len(parsed) : parsed[m] = e[j]
        <5>1. j \in 1 .. pi - 1
          BY <1>1, <2>1
        <5> QED
          BY <3>2, <5>1 DEF IInv, PInv, e
      <4>2. m \in DOMAIN parsed
        BY <1>1
      <4>3. KindFrom(e[j].ty) # "FirmwareRuntime"
        BY <1>9, <4>1, <4>2, SameTypes
      <4> QED
        BY <1>5, <1>6, <2>1, <4>3
    <3> QED
      BY <3>1, <3>2
  <2>2. n \in 0 .. n
    BY <1>1
  <2>3. SumOver(ParsedRam(e), n)[1 .. n] = SumOver(LogRam(e), n)[1 .. n]
    BY <1>1, <1>3, <2>1, <2>2, SumCompare
  <2> QED
    BY <1>1, <2>3 DEF Upto, n
<1> QED
  BY <1>2, <1>8, <1>9 DEF LogAgreesWithParse

\* The entries' weights are those of the descriptors they stand for.
LEMMA EntriesWeigh ==
    ASSUME BInv, bpc = "built"
    PROVE  \E f \in [1 .. Len(kbi.entries) -> 1 .. Len(firmware.map)] :
              /\ Renumbers(f, LogRam(kbi.entries), BootRam(firmware.map), Len(kbi.entries))
              /\ Len(kbi.entries) = Len(firmware.map) =>
                    Image(f, Len(kbi.entries)) = 1 .. Len(firmware.map)
              /\ \A j \in 1 .. Len(kbi.entries) :
                    BootUsable(firmware.map)[f[j]] =
                        UsableBytes(kbi.entries)[j] + ReclaimBytes(kbi.entries)[j]
<1> DEFINE map == firmware.map
           N   == Len(map)
           e   == kbi.entries
           n   == Len(e)
<1>1. /\ map \in Seq(UefiDescriptors) /\ N \in Nat
      /\ e \in Seq(KernelDescriptors) /\ n \in Nat
  BY Handed DEF BInv, BTypes, FirmwareOk
<1>2. n <= N
  BY <1>1 DEF BInv, BTypes, Copied, Sorted, SortedStages
<1>3. PICK g \in [1 .. N -> 1 .. N] :
          /\ Sorts(g, map)
          /\ \A j \in 1 .. n :
                /\ e[j] = KernelDescriptorFrom(RegionOf(map[g[j]]))
                /\ e[j].page_count * PageSize = BootSize(map[g[j]])
  BY EntriesFollow, Zenon
<1> DEFINE f == [j \in 1 .. n |-> g[j]]
<1> HIDE DEF map, N, e, n
<1>4. \A j \in 1 .. n : j \in 1 .. N /\ f[j] = g[j] /\ f[j] \in 1 .. N
  BY <1>1, <1>2
<1>5. f \in [1 .. n -> 1 .. N]
  BY <1>4
<1>6. ASSUME NEW a \in 1 .. n, NEW b \in 1 .. n, f[a] = f[b]
      PROVE  a = b
  <2>1. a \in 1 .. N /\ b \in 1 .. N /\ g[a] = g[b] /\ g[a] \in 1 .. N
    BY <1>4, <1>6
  <2>2. map[g[a]] \in UefiDescriptors
    BY <1>1, <2>1 DEF N
  <2>3. map[g[a]].phys_start \in Nat
    BY <2>2, Sizes DEF UefiDescriptors
  <2>4. ~Precedes(map, g[a], g[b]) /\ ~Precedes(map, g[b], g[a])
    BY <2>1, <2>3 DEF Precedes
  <2>5. ~(a < b) /\ ~(b < a)
    BY <1>3, <2>1, <2>4 DEF Sorts, N
  <2> QED
    BY <2>5
<1>7. ASSUME NEW j \in 1 .. n
      PROVE  /\ LogRam(e)[j] = BootRam(map)[f[j]]
             /\ BootUsable(map)[f[j]] = UsableBytes(e)[j] + ReclaimBytes(e)[j]
  <2> DEFINE d == map[f[j]]
             c == e[j]
  <2>1. f[j] \in 1 .. N /\ d \in UefiDescriptors
    BY <1>1, <1>4 DEF N
  <2>2. /\ c = KernelDescriptorFrom(RegionOf(d)) /\ Bytes(c) = BootSize(d)
    BY <1>3, <1>4 DEF Bytes
  <2>3. /\ BootRam(map)[f[j]] = IF IsMmioCode(d.ty) THEN 0 ELSE BootSize(d)
        /\ BootUsable(map)[f[j]] = IF IsUsableAfterBoot(d.ty) THEN BootSize(d) ELSE 0
    BY <2>1 DEF BootRam, BootUsable, N
  <2>4. /\ LogRam(e)[j] = IF IsMmioCode(c.ty) THEN 0 ELSE Bytes(c)
        /\ UsableBytes(e)[j] = IF IsUsableAfterBoot(c.ty) /\ c.ty = "CONVENTIONAL"
                               THEN Bytes(c) ELSE 0
        /\ ReclaimBytes(e)[j] = IF IsUsableAfterBoot(c.ty) /\ c.ty # "CONVENTIONAL"
                                THEN Bytes(c) ELSE 0
    BY <1>1, LogWeights DEF n
  <2>5. Bytes(c) \in Nat
    BY <1>1, KernelWeights DEF n
  <2> HIDE DEF f, c, d
  <2>6. d.ty \in UefiTypes /\ c.ty = RegionTypeToUefi(RegionTypeFrom(d.ty))
    BY <2>1, <2>2 DEF UefiDescriptors, KernelDescriptorFrom, RegionOf
  <2>7. /\ IsMmioCode(c.ty) <=> IsMmioCode(d.ty)
        /\ IsUsableAfterBoot(c.ty) <=> IsUsableAfterBoot(d.ty)
    BY <2>6, TypesAgree, RegionClasses, Zenon
  <2>8. LogRam(e)[j] = BootRam(map)[f[j]]
    BY <2>2, <2>3, <2>4, <2>7, Zenon
  <2> HIDE DEF Bytes, BootSize
  <2>9. BootUsable(map)[f[j]] = UsableBytes(e)[j] + ReclaimBytes(e)[j]
    <3>1. Bytes(c) + 0 = Bytes(c) /\ 0 + Bytes(c) = Bytes(c) /\ 0 + 0 = 0
      BY <2>5
    <3>2. BootUsable(map)[f[j]] = IF IsUsableAfterBoot(c.ty) THEN Bytes(c) ELSE 0
      BY <2>2, <2>3, <2>7, Zenon
    <3>3. CASE IsUsableAfterBoot(c.ty)
      <4>1. CASE c.ty = "CONVENTIONAL"
        BY <2>4, <3>1, <3>2, <3>3, <4>1, Zenon
      <4>2. CASE c.ty # "CONVENTIONAL"
        BY <2>4, <3>1, <3>2, <3>3, <4>2, Zenon
      <4> QED
        BY <4>1, <4>2
    <3>4. CASE ~IsUsableAfterBoot(c.ty)
      BY <2>4, <3>1, <3>2, <3>4, Zenon
    <3> QED
      BY <3>3, <3>4
  <2> QED
    BY <2>8, <2>9
<1>8. n = N => Image(f, n) = 1 .. N
  <2> SUFFICES ASSUME n = N PROVE Image(f, n) = 1 .. N
    OBVIOUS
  <2>1. \A m \in 1 .. N : \E p \in 1 .. n : f[p] = m
    BY <1>3, <1>4 DEF Sorts, N
  <2> HIDE DEF f
  <2> QED
    BY <1>4, <2>1 DEF Image
<1>9. Renumbers(f, LogRam(e), BootRam(map), n)
  <2> HIDE DEF f
  <2> QED
    BY <1>6, <1>7 DEF Renumbers
<1> HIDE DEF f
<1>10. \E h \in [1 .. n -> 1 .. N] :
          /\ Renumbers(h, LogRam(e), BootRam(map), n)
          /\ n = N => Image(h, n) = 1 .. N
          /\ \A j \in 1 .. n : BootUsable(map)[h[j]] = UsableBytes(e)[j] + ReclaimBytes(e)[j]
  BY <1>5, <1>7, <1>8, <1>9
<1> QED
  BY <1>10 DEF map, N, e, n

\* No product of the kernel's two passes exceeds a word.
LEMMA SizesFit == IInv => KernelSizesNeverOverflow
<1> SUFFICES ASSUME IInv PROVE KernelSizesNeverOverflow
  OBVIOUS
<1>1. rpc # "panic" /\ result # Parse!Panic
  BY DEF IInv, RInv, PInv
<1>2. kbi.entries \in Seq(KernelDescriptors)
  BY Handed DEF IInv
<1>3. \A j \in 1 .. Len(kbi.entries) : Bytes(kbi.entries[j]) \in Words
  BY <1>2, KernelWeights
<1>4. \A j \in DOMAIN kbi.entries : kbi.entries[j].page_count * PageSize <= MaxWord
  <2> TAKE j \in DOMAIN kbi.entries
  <2>1. Bytes(kbi.entries[j]) \in Words
    BY <1>2, <1>3
  <2> QED
    BY <2>1, Sizes DEF Bytes, Words
<1> QED
  BY <1>1, <1>4 DEF KernelSizesNeverOverflow

\* What the kernel may use after all reclamation, and what the log calls RAM,
\* are sums over the descriptors behind the entries.
LEMMA BootFollows == IInv => BootAgreesWithKernel
<1> SUFFICES ASSUME IInv, ppc = "done", result = Parse!Ok
             PROVE  BootAgreesWithKernel
  BY DEF BootAgreesWithKernel
<1> DEFINE map == firmware.map
           N == Len(map)
           e == kbi.entries
           n == Len(e)
           u == UsableBytes(e)
           r == ReclaimBytes(e)
           s == Added(u, r, n)
           ram == LogRam(e)
           bu == BootUsable(map)
           br == BootRam(map)
<1>1. /\ BInv /\ bpc = "built" /\ rpc = "done" /\ ri = n + 1 /\ pi = n + 1
      /\ e \in Seq(KernelDescriptors) /\ n \in Nat
      /\ map \in Seq(UefiDescriptors) /\ N \in Nat
  <2>1. BInv /\ rpc = "done"
    BY DEF IInv, PInv
  <2>2. bpc = "built" /\ ri = n + 1 /\ pi = n + 1
    BY <2>1 DEF IInv, PInv, RInv
  <2>3. map \in Seq(UefiDescriptors)
    BY <2>1 DEF BInv, BTypes, FirmwareOk
  <2> QED
    BY <2>1, <2>2, <2>3, Handed
<1>2. ~kbi.truncated => n = N
  BY <1>1 DEF BInv, BTypes, Copied, Sorted, SortedStages
<1>3. PICK f \in [1 .. n -> 1 .. N] :
          /\ Renumbers(f, ram, br, n)
          /\ n = N => Image(f, n) = 1 .. N
          /\ \A j \in 1 .. n : bu[f[j]] = u[j] + r[j]
  BY <1>1, EntriesWeigh
<1>4. /\ u \in [1 .. n -> Nat] /\ r \in [1 .. n -> Nat] /\ ram \in [1 .. n -> Nat]
      /\ bu \in [1 .. N -> Nat] /\ br \in [1 .. N -> Nat]
  BY <1>1, KernelWeights, BootWeights
<1>5. /\ usable = Cap(SumOver(u, n)[1 .. n]) /\ reclaimable = Cap(SumOver(r, n)[1 .. n])
      /\ rTotal = Cap(SumOver(ram, n)[1 .. n])
  <2>1. pi - 1 = n /\ ri - 1 = n
    BY <1>1
  <2>2. /\ usable = Upto(u, e, pi - 1) /\ reclaimable = Upto(r, e, pi - 1)
        /\ rTotal = Upto(ram, e, ri - 1)
    BY <1>1 DEF IInv, PInv, RInv
  <2> QED
    BY <2>1, <2>2 DEF Upto
<1>6. /\ totalMemory = Cap(SumOver(br, N)[1 .. N])
      /\ usableMemory = Cap(SumOver(bu, N)[1 .. N])
  BY <1>1 DEF BInv, Counted, CountedTo, SortedStages
<1>7. Parse!TotalUsableAfterBoot = SatSum(usable, reclaimable)
  BY SameTypes DEF Parse!TotalUsableAfterBoot
<1> HIDE DEF u, r, ram, bu, br, n, N, e, map
<1>8. s \in [1 .. n -> Nat] /\ \A j \in 1 .. n : s[j] = u[j] + r[j]
  BY <1>4 DEF Added
<1>9. Renumbers(f, s, bu, n)
  <2> HIDE DEF s
  <2> QED
    BY <1>3, <1>8 DEF Renumbers
<1> HIDE DEF s
<1> DEFINE Im == Image(f, n)
<1>10. n \in 0 .. n /\ Im \in SUBSET (1 .. N)
  BY <1>1 DEF Image
<1>11. 1 .. n \in SUBSET (1 .. n) /\ 1 .. N \in SUBSET (1 .. N)
  OBVIOUS
<1>12. /\ SumOver(u, n)[1 .. n] \in Nat /\ SumOver(r, n)[1 .. n] \in Nat
       /\ SumOver(bu, N)[1 .. N] \in Nat
  BY <1>1, <1>4, <1>11, SumType
<1>13. SumOver(bu, N)[Im] \in Nat
  <2> HIDE DEF Im
  <2> QED
    BY <1>1, <1>4, <1>10, SumType
<1>14. SumOver(s, n)[1 .. n] = SumOver(u, n)[1 .. n] + SumOver(r, n)[1 .. n]
  <2>1. Total(Added(u, r, n), n) = Total(u, n) + Total(r, n)
    BY <1>1, <1>4, SumAdds
  <2> QED
    BY <2>1, Zenon DEF Total, s
<1>15. SumOver(s, n)[1 .. n] = SumOver(bu, N)[Im]
  <2>1. Total(s, n) = SumOver(bu, N)[Image(f, n)]
    BY <1>1, <1>4, <1>8, <1>9, SumReindex
  <2> QED
    BY <2>1, Zenon DEF Total
<1>16. SumOver(ram, n)[1 .. n] = SumOver(br, N)[Im]
  <2>1. Renumbers(f, ram, br, n)
    BY <1>3
  <2>2. Total(ram, n) = SumOver(br, N)[Image(f, n)]
    BY <1>1, <1>4, <2>1, SumReindex
  <2> QED
    BY <2>2, Zenon DEF Total
<1>17. Parse!TotalUsableAfterBoot = Cap(SumOver(bu, N)[Im])
  <2> DEFINE x == SumOver(u, n)[1 .. n]
             y == SumOver(r, n)[1 .. n]
  <2>1. x \in Nat /\ y \in Nat
    BY <1>12
  <2> HIDE DEF x, y
  <2>2. SatSum(Cap(x), Cap(y)) = Cap(x + y)
    BY <2>1, CapSums
  <2> QED
    BY <1>5, <1>7, <1>14, <1>15, <2>2 DEF x, y
<1>18. SumOver(bu, N)[Im] <= SumOver(bu, N)[1 .. N]
  <2> HIDE DEF Im
  <2> QED
    BY <1>1, <1>4, <1>10, SumMonotone
<1>19. Parse!TotalUsableAfterBoot <= usableMemory
  <2> DEFINE x == SumOver(bu, N)[Im]
             y == SumOver(bu, N)[1 .. N]
  <2>1. x \in Nat /\ y \in Nat /\ x <= y
    BY <1>12, <1>13, <1>18
  <2> HIDE DEF x, y
  <2>2. Cap(x) <= Cap(y)
    BY <2>1, CapSums
  <2> QED
    BY <1>6, <1>17, <2>2 DEF x, y
<1>20. ~kbi.truncated => /\ Parse!TotalUsableAfterBoot = usableMemory
                         /\ rTotal = totalMemory
  <2> SUFFICES ASSUME ~kbi.truncated PROVE /\ Parse!TotalUsableAfterBoot = usableMemory
                                           /\ rTotal = totalMemory
    OBVIOUS
  <2>1. Im = 1 .. N
    BY <1>2, <1>3
  <2> HIDE DEF Im
  <2> QED
    BY <1>5, <1>6, <1>16, <1>17, <2>1
<1> QED
  BY <1>19, <1>20 DEF BootAgreesWithKernel

-----------------------------------------------------------------------------
(* The theorems. *)

\* Through every interleaving of the firmware's answer, the bootloader, the
\* boot log and the parser, on any map, word size and array capacity, the
\* state stays the one the inductive invariant describes.
THEOREM PipelineInvariant == Spec => []IInv
  BY InitIInv, NextIInv, PTL DEF Spec

\* efi_main's regions, totals and entries keep their types, and from_boot_info
\* never writes past the fixed descriptor array.
THEOREM HandoverTypeOK == Spec => []BTypeOK
<1>1. IInv => BTypeOK
  BY HandoverTypes DEF IInv
<1> QED
  BY <1>1, PipelineInvariant, PTL

\* The entries handed to the kernel are a stable sort of the firmware's map,
\* cut only at the array's capacity and then marked truncated.
THEOREM HandoverIsFaithful == Spec => []HandoverFaithful
<1>1. IInv => HandoverFaithful
  BY HandoverFollows DEF IInv
<1> QED
  BY <1>1, PipelineInvariant, PTL

\* usable_memory() never exceeds total_memory(), saturation included.
THEOREM BootTotalsStayConsistent == Spec => []BootTotalsConsistent
<1>1. IInv => BootTotalsConsistent
  BY DEF IInv, BInv
<1> QED
  BY <1>1, PipelineInvariant, PTL

\* The RSDP and the framebuffer the kernel is given are the firmware's.
THEOREM DevicesAreFaithful == Spec => []DevicesFaithful
<1>1. IInv => DevicesFaithful
  BY DevicesFollow DEF IInv
<1> QED
  BY <1>1, PipelineInvariant, PTL

\* The kernel's unchecked page_count * 4096 never overflows on a handed-over
\* map: neither print_memory_map nor MemoryMap::parse panics on it.
THEOREM PipelineSizesNeverOverflow == Spec => []KernelSizesNeverOverflow
<1>1. IInv => KernelSizesNeverOverflow
  BY SizesFit
<1> QED
  BY <1>1, PipelineInvariant, PTL

\* The boot log and the parsed map give the same usable and reclaimable bytes,
\* and totals that differ only by firmware runtime memory.
THEOREM PipelineLogAgrees == Spec => []LogAgreesWithParse
<1>1. IInv => LogAgreesWithParse
  BY LogFollows
<1> QED
  BY <1>1, PipelineInvariant, PTL

\* The bootloader's usable_memory() and total_memory() are what the kernel
\* finds in an untruncated map; truncation only loses memory.
THEOREM PipelineBootAgrees == Spec => []BootAgreesWithKernel
<1>1. IInv => BootAgreesWithKernel
  BY BootFollows
<1> QED
  BY <1>1, PipelineInvariant, PTL
=============================================================================
