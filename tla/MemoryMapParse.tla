--------------------------- MODULE MemoryMapParse ---------------------------
(***************************************************************************)
(* MemoryMap::parse of lib/boot-info: the loop that turns the bootloader's *)
(* KernelMemoryMap into the kernel's validated MemoryMap, one action per   *)
(* way an iteration can end.                                               *)
(*                                                                         *)
(* Words are u64 with u64::MAX = MaxWord.  page_count * 4096 is unchecked  *)
(* in the source: it panics in a build with overflow checks (the dev       *)
(* profile) and wraps in one without them (release).                       *)
(***************************************************************************)
EXTENDS Integers, Sequences, FiniteSets, MemoryTypes

CONSTANTS
    PageSize,        \* 4096
    MaxWord,         \* u64::MAX
    MaxDescriptors,  \* MAX_MEMORY_DESCRIPTORS = 256
    Sources          \* the KernelMemoryMaps parse may be called with

Word == 0 .. MaxWord

Descriptors == [ty: UefiTypes, phys_start: Word, page_count: Word]

KernelMemoryMaps == [entries: Seq(Descriptors), truncated: BOOLEAN]

ASSUME WordAssumption == PageSize \in Nat \ {0} /\ MaxWord \in Nat
ASSUME SourcesAssumption ==
    /\ MaxDescriptors \in Nat
    /\ \A s \in Sources :
          s \in KernelMemoryMaps /\ Len(s.entries) <= MaxDescriptors

VARIABLES
    checks,       \* overflow-checks of the build: TRUE in dev, FALSE in release
    pc,           \* "idle", "loop" or "done"
    source,       \* the argument of parse
    i,            \* position of the descriptor the loop looks at, from 1
    regions,      \* descriptors[..count]
    total,        \* total_bytes
    usable,       \* usable_bytes
    reclaimable,  \* reclaimable_bytes
    usableCount,  \* usable_region_count
    result        \* what parse returned

vars == <<checks, pc, source, i, regions, total, usable, reclaimable, usableCount,
          result>>
sums == <<regions, total, usable, reclaimable, usableCount>>

Pending == [tag |-> "Pending"]
Ok      == [tag |-> "Ok"]
Empty   == [tag |-> "Empty"]
Panic   == [tag |-> "Panic"]
UnalignedBase(index, addr) ==
    [tag |-> "UnalignedBase", index |-> index, phys_start |-> addr]

Results ==
    {Pending, Ok, Empty, Panic}
    \cup [tag: {"UnalignedBase"}, index: Nat, phys_start: Word]

-----------------------------------------------------------------------------
\* Mutants: the sum clamped nowhere; the sum wrapping.
SatAddUnclamped(a, b) == a + b
SatAddWrapping(a, b) == (a + b) % (MaxWord + 1)

\* u64::saturating_add.
SatAdd(a, b) == IF a + b > MaxWord THEN MaxWord ELSE a + b

\* phys_start & 0xFFF == 0
Aligned(d) == d.phys_start % PageSize = 0

\* size_bytes: page_count * 4096 as the release build computes it, and when
\* the dev build panics instead.
SizeBytes(d) == (d.page_count * PageSize) % (MaxWord + 1)
SizeOverflows(d) == d.page_count * PageSize > MaxWord

-----------------------------------------------------------------------------
NoMap == [entries |-> <<>>, truncated |-> FALSE]

Init ==
    /\ checks \in BOOLEAN
    /\ pc = "idle"
    /\ source = NoMap
    /\ i = 1
    /\ regions = <<>>
    /\ total = 0 /\ usable = 0 /\ reclaimable = 0 /\ usableCount = 0
    /\ result = Pending

Call(s) ==
    /\ pc = "idle"
    /\ pc' = "loop"
    /\ source' = s
    /\ UNCHANGED <<checks, i, sums, result>>

InLoop == pc = "loop" /\ i <= Len(source.entries)
Desc   == source.entries[i]

Return(r) ==
    /\ pc' = "done"
    /\ result' = r
    /\ UNCHANGED <<checks, source, i, sums>>

\* Mutants: malformed descriptors skipped like empty ones; an empty one looked
\* at for ever.
SkipMalformed ==
    /\ InLoop
    /\ Desc.page_count = 0 \/ ~Aligned(Desc)
    /\ i' = i + 1
    /\ UNCHANGED <<checks, pc, source, sums, result>>
SkipWithoutAdvance ==
    /\ InLoop
    /\ Desc.page_count = 0
    /\ UNCHANGED vars

\* page_count == 0: continue, before any other check.
SkipEmpty ==
    /\ InLoop
    /\ Desc.page_count = 0
    /\ i' = i + 1
    /\ UNCHANGED <<checks, pc, source, sums, result>>

\* Mutant: the index counts the kept descriptors only.
RejectAtKeptIndex ==
    /\ InLoop
    /\ Desc.page_count # 0
    /\ ~Aligned(Desc)
    /\ Return(UnalignedBase(Len(regions), Desc.phys_start))

\* A non-empty descriptor off a page boundary ends the parse; the index in
\* the error counts from zero and counts the skipped descriptors.
RejectUnaligned ==
    /\ InLoop
    /\ Desc.page_count # 0
    /\ ~Aligned(Desc)
    /\ Return(UnalignedBase(i - 1, Desc.phys_start))

\* Mutant: the size is computed before the alignment check.
SizePanicsFirst ==
    /\ InLoop
    /\ checks
    /\ SizeOverflows(Desc)
    /\ Return(Panic)

\* size_bytes() in a build with overflow checks.
SizePanics ==
    /\ InLoop
    /\ checks
    /\ Desc.page_count # 0
    /\ Aligned(Desc)
    /\ SizeOverflows(Desc)
    /\ Return(Panic)

\* The two match statements.
AddToStats(d) ==
    LET size == SizeBytes(d)
        kind == KindFrom(d.ty)
    IN /\ total' = IF kind \in NotRam THEN total ELSE SatAdd(total, size)
       /\ usable' = IF kind \in UsableKinds THEN SatAdd(usable, size) ELSE usable
       /\ usableCount' = IF kind \in UsableKinds THEN usableCount + 1
                         ELSE usableCount
       /\ reclaimable' = IF kind \in ReclaimKinds THEN SatAdd(reclaimable, size)
                         ELSE reclaimable

\* Mutant: each match statement copies the descriptor.
KeepTwice ==
    /\ InLoop
    /\ Desc.page_count # 0
    /\ Aligned(Desc)
    /\ checks => ~SizeOverflows(Desc)
    /\ AddToStats(Desc)
    /\ regions' = regions \o <<Desc, Desc>>
    /\ i' = i + 1
    /\ UNCHANGED <<checks, pc, source, result>>

\* The rest of the iteration: the two match statements and the copy.
KeepDescriptor ==
    /\ InLoop
    /\ Desc.page_count # 0
    /\ Aligned(Desc)
    /\ checks => ~SizeOverflows(Desc)
    /\ AddToStats(Desc)
    /\ regions' = Append(regions, Desc)
    /\ i' = i + 1
    /\ UNCHANGED <<checks, pc, source, result>>

\* After the loop: Empty when nothing was kept, else the map and its stats.
Finish ==
    /\ pc = "loop"
    /\ i > Len(source.entries)
    /\ Return(IF regions = <<>> THEN Empty ELSE Ok)

Step == SkipEmpty \/ RejectUnaligned \/ SizePanics \/ KeepDescriptor \/ Finish

Next == (\E s \in Sources : Call(s)) \/ Step

Spec == Init /\ [][Next]_vars

\* parse is straight-line code on one CPU: once called it keeps running.
FairSpec == Spec /\ WF_vars(Step)

-----------------------------------------------------------------------------
\* MemoryStats::total_usable_after_boot.
TotalUsableAfterBoot == SatAdd(usable, reclaimable)

\* Type correctness of the loop's state.
TypeOK ==
    /\ checks \in BOOLEAN
    /\ pc \in {"idle", "loop", "done"}
    /\ source \in KernelMemoryMaps
    /\ i \in 1 .. Len(source.entries) + 1
    /\ regions \in Seq(Descriptors)
    /\ total \in Word /\ usable \in Word /\ reclaimable \in Word
    /\ usableCount \in Nat
    /\ result \in Results

\* The three counters saturate independently, yet what the allocator is told
\* it may ever use (total_usable_after_boot) never exceeds the RAM total.
StatsConsistent ==
    /\ TotalUsableAfterBoot <= total
    /\ usableCount <= Len(regions)
    /\ usable > 0 => usableCount > 0

\* descriptors[count] = *desc stays inside the fixed array of
\* MAX_MEMORY_DESCRIPTORS entries: the loop never keeps more than it has read.
NoIndexPanic ==
    /\ Len(regions) < i
    /\ Len(regions) <= MaxDescriptors

\* Whatever parse did with the prefix it has read, it kept every non-empty
\* descriptor of it and nothing else, and only page-aligned ones.
KeptExactly ==
    LET read == {source.entries[j] : j \in 1 .. i - 1}
        kept == {regions[k] : k \in 1 .. Len(regions)}
    IN /\ kept = {d \in read : d.page_count # 0}
       /\ \A d \in kept : Aligned(d)

\* An UnalignedBase error names the first non-empty unaligned descriptor of
\* the source map (zero-based), never a zero-size padding entry.
FirstUnalignedReported ==
    result.tag = "UnalignedBase" =>
        LET bad == {j \in 1 .. Len(source.entries) :
                       /\ source.entries[j].page_count # 0
                       /\ ~Aligned(source.entries[j])}
        IN /\ result.index + 1 \in bad
           /\ \A j \in bad : result.index + 1 <= j
           /\ result.phys_start = source.entries[result.index + 1].phys_start

\* Every call of parse returns.
ParseReturns == pc = "loop" ~> pc = "done"
=============================================================================
