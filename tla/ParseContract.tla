--------------------------- MODULE ParseContract ---------------------------
(***************************************************************************)
(* What MemoryMap::parse promises its caller, as one step from the call to *)
(* the returned value: the documentation of parse, MemoryStats and         *)
(* ParseError (lib/boot-info/src/lib.rs) stated over the whole source map, *)
(* without a loop.  MemoryMapParse is checked to implement it.             *)
(***************************************************************************)
EXTENDS Integers, Sequences, FiniteSets, FiniteSetsExt, MemoryTypes

CONSTANTS PageSize, MaxWord

VARIABLES
    checks,   \* overflow-checks of the build
    source, outcome

\* A KernelMemoryMap, as far as parse looks at it.
AnyMap ==
    [entries: Seq([ty: UefiTypes, phys_start: 0 .. MaxWord,
                   page_count: 0 .. MaxWord]),
     truncated: BOOLEAN]

NotCalled == [tag |-> "NotCalled"]
Running   == [tag |-> "Running"]

Saturated(n) == IF n > MaxWord THEN MaxWord ELSE n

Bytes(d) == (d.page_count * PageSize) % (MaxWord + 1)

\* The bytes of the non-empty descriptors of e whose kind is in K: an exact
\* sum, saturated once at the end.
BytesOfKinds(e, K) ==
    Saturated(MapThenSumSet(LAMBDA j : Bytes(e[j]),
                            {j \in DOMAIN e : KindFrom(e[j].ty) \in K}))

\* The positions at which parse must stop, and why.
Unaligned(e) ==
    {j \in DOMAIN e : e[j].page_count # 0 /\ e[j].phys_start % PageSize # 0}
Overflowing(e) ==
    {j \in DOMAIN e : checks /\ e[j].page_count * PageSize > MaxWord}

NonEmpty(e) == {j \in DOMAIN e : e[j].page_count # 0}

\* Where e has its n-th non-empty descriptor.
Nth(e, n) ==
    CHOOSE j \in NonEmpty(e) : Cardinality({m \in NonEmpty(e) : m < j}) = n - 1

Map(s) ==
    LET e == s.entries
    IN [tag         |-> "Ok",
        regions     |-> [n \in 1 .. Cardinality(NonEmpty(e)) |-> e[Nth(e, n)]],
        total       |-> BytesOfKinds(e, Kinds \ NotRam),
        usable      |-> BytesOfKinds(e, UsableKinds),
        reclaimable |-> BytesOfKinds(e, ReclaimKinds),
        usableCount |-> Cardinality({j \in NonEmpty(e) : KindFrom(e[j].ty) = "Usable"}),
        truncated   |-> s.truncated]

Promised(s) ==
    LET e    == s.entries
        stop == Unaligned(e) \cup Overflowing(e)
        j    == Min(stop)
    IN IF stop # {}
       THEN IF j \in Unaligned(e)
            THEN [tag |-> "UnalignedBase", index |-> j - 1,
                  phys_start |-> e[j].phys_start]
            ELSE [tag |-> "Panic"]
       ELSE IF NonEmpty(e) = {} THEN [tag |-> "Empty"] ELSE Map(s)

Init ==
    /\ checks \in BOOLEAN
    /\ source = [entries |-> <<>>, truncated |-> FALSE]
    /\ outcome = NotCalled

Call ==
    /\ outcome = NotCalled
    /\ outcome' = Running
    /\ source' \in AnyMap
    /\ UNCHANGED checks

Return ==
    /\ outcome = Running
    /\ outcome' = Promised(source)
    /\ UNCHANGED <<checks, source>>

Next == Call \/ Return

pvars == <<checks, source, outcome>>

Spec == Init /\ [][Next]_pvars /\ WF_pvars(Return)
=============================================================================
