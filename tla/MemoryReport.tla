---------------------------- MODULE MemoryReport ----------------------------
(***************************************************************************)
(* print_memory_map of boot/src/main.rs: the kernel's own pass over the    *)
(* handed-over map.  It classifies by raw UEFI code where MemoryMap::parse *)
(* classifies by kind, and its totals are what the boot log shows.  The    *)
(* printed text is left out.                                               *)
(***************************************************************************)
EXTENDS Integers, Sequences, MemoryTypes

CONSTANTS PageSize, MaxWord

VARIABLES
    checks,        \* overflow-checks of the build: TRUE in dev, FALSE in release
    rpc,           \* "idle", "loop", "done" or "panic"
    rmap,          \* the argument: the entries of the KernelMemoryMap
    ri,            \* position in the loop, from 1
    rTotal, rUsable, rReclaimable

rvars == <<checks, rpc, rmap, ri, rTotal, rUsable, rReclaimable>>

SatPlus(a, b) == IF a + b > MaxWord THEN MaxWord ELSE a + b

RInit ==
    /\ checks \in BOOLEAN
    /\ rpc = "idle"
    /\ rmap = <<>>
    /\ ri = 1
    /\ rTotal = 0 /\ rUsable = 0 /\ rReclaimable = 0

RCall(entries) ==
    /\ rpc = "idle"
    /\ rpc' = "loop"
    /\ rmap' = entries
    /\ UNCHANGED <<checks, ri, rTotal, rUsable, rReclaimable>>

\* page_count == 0: continue.
ReportSkip ==
    /\ rpc = "loop" /\ ri <= Len(rmap)
    /\ rmap[ri].page_count = 0
    /\ ri' = ri + 1
    /\ UNCHANGED <<checks, rpc, rmap, rTotal, rUsable, rReclaimable>>

\* The three totals after a region of type ty and size bytes.
AddToTotals(ty, size) ==
    /\ rTotal' = IF IsMmioCode(ty) THEN rTotal ELSE SatPlus(rTotal, size)
    /\ rUsable' = IF IsUsableAfterBoot(ty) /\ ty = "CONVENTIONAL"
                  THEN SatPlus(rUsable, size) ELSE rUsable
    /\ rReclaimable' = IF IsUsableAfterBoot(ty) /\ ty # "CONVENTIONAL"
                       THEN SatPlus(rReclaimable, size) ELSE rReclaimable

\* The rest of the iteration; desc.page_count * 4096 panics when it overflows
\* in a build with overflow checks.
ReportRegion ==
    /\ rpc = "loop" /\ ri <= Len(rmap)
    /\ rmap[ri].page_count # 0
    /\ LET bytes == rmap[ri].page_count * PageSize
       IN IF checks /\ bytes > MaxWord
          THEN rpc' = "panic" /\ UNCHANGED <<ri, rTotal, rUsable, rReclaimable>>
          ELSE /\ AddToTotals(rmap[ri].ty, bytes % (MaxWord + 1))
               /\ ri' = ri + 1
               /\ UNCHANGED rpc
    /\ UNCHANGED <<checks, rmap>>

\* The summary lines; a truncated map only adds a warning here.
ReportDone ==
    /\ rpc = "loop" /\ ri > Len(rmap)
    /\ rpc' = "done"
    /\ UNCHANGED <<checks, rmap, ri, rTotal, rUsable, rReclaimable>>

RStep == ReportSkip \/ ReportRegion \/ ReportDone
=============================================================================
