----------------------- MODULE MemoryMapParse_proofs -----------------------
(***************************************************************************)
(* Proofs about MemoryMapParse and MemoryQueries for every word size, page *)
(* size, capacity, build profile and set of source maps.                   *)
(***************************************************************************)
EXTENDS MemoryQueries, NaturalFacts, FiniteSetTheorems, TLAPS

\* What the invariants need to survive a step: nothing has happened before
\* the call, a result is only there at the end, and the source fits the array.
Phases ==
    /\ pc = "idle" => i = 1 /\ regions = <<>>
    /\ pc # "done" => result = Pending
    /\ Len(source.entries) <= MaxDescriptors

IInv ==
    /\ TypeOK
    /\ Phases
    /\ StatsConsistent
    /\ NoIndexPanic
    /\ KeptExactly
    /\ FirstUnalignedReported

-----------------------------------------------------------------------------
\* A size computed by size_bytes() is a u64, whichever way the build goes.
LEMMA SizeBytesWord ==
    ASSUME NEW d \in Descriptors
    PROVE  SizeBytes(d) \in Word
<1>1. d.page_count * PageSize \in Nat
  BY WordAssumption DEF Descriptors, Word
<1>2. \A a, b \in Nat : b > 0 => a % b \in 0 .. b - 1
  OBVIOUS
<1>3. (d.page_count * PageSize) % (MaxWord + 1) \in 0 .. (MaxWord + 1) - 1
  BY <1>1, <1>2, WordAssumption
<1> QED
  BY <1>3, WordAssumption DEF SizeBytes, Word

\* saturating_add stays a u64, does not lose what was there, and is monotone.
LEMMA SatAddWord ==
    ASSUME NEW a \in Word, NEW b \in Word
    PROVE  SatAdd(a, b) \in Word /\ a <= SatAdd(a, b)
  BY WordAssumption DEF SatAdd, Word

\* Counting the same bytes on both sides of "saturated usable + reclaimable
\* is at most total" preserves it; the classes are disjoint and both are RAM.
LEMMA SatAddBound ==
    ASSUME NEW u \in Word, NEW r \in Word, NEW t \in Word, NEW s \in Word,
           SatAdd(u, r) <= t
    PROVE  /\ SatAdd(SatAdd(u, s), r) <= SatAdd(t, s)
           /\ SatAdd(u, SatAdd(r, s)) <= SatAdd(t, s)
           /\ SatAdd(u, r) <= SatAdd(t, s)
  BY WordAssumption DEF SatAdd, Word

\* The three accounting classes of parse do not overlap.
LEMMA ClassesDisjoint ==
    /\ UsableKinds \cap NotRam = {}
    /\ ReclaimKinds \cap NotRam = {}
    /\ UsableKinds \cap ReclaimKinds = {}
  BY DEF UsableKinds, ReclaimKinds, NotRam

\* A kept descriptor preserves the relation between the counters.
LEMMA KeepPreservesStats ==
    ASSUME TypeOK, StatsConsistent, KeepDescriptor
    PROVE  StatsConsistent' /\ total' \in Word /\ usable' \in Word
           /\ reclaimable' \in Word /\ usableCount' \in Nat
<1> DEFINE size == SizeBytes(Desc)
           kind == KindFrom(Desc.ty)
<1>1. Desc \in Descriptors
  BY DEF TypeOK, KeepDescriptor, InLoop, Desc, KernelMemoryMaps
<1>2. size \in Word
  BY <1>1, SizeBytesWord
<1>3. Len(regions') = Len(regions) + 1 /\ Len(regions) \in Nat
  BY <1>1 DEF TypeOK, KeepDescriptor
<1>4. /\ total' = IF kind \in NotRam THEN total ELSE SatAdd(total, size)
      /\ usable' = IF kind \in UsableKinds THEN SatAdd(usable, size) ELSE usable
      /\ usableCount' = IF kind \in UsableKinds THEN usableCount + 1
                        ELSE usableCount
      /\ reclaimable' = IF kind \in ReclaimKinds
                        THEN SatAdd(reclaimable, size) ELSE reclaimable
  BY DEF KeepDescriptor, AddToStats
<1>5. /\ usable \in Word /\ reclaimable \in Word /\ total \in Word
      /\ usableCount \in Nat
      /\ SatAdd(usable, reclaimable) <= total
      /\ usableCount <= Len(regions)
      /\ usable > 0 => usableCount > 0
  BY DEF TypeOK, StatsConsistent, TotalUsableAfterBoot
<1> HIDE DEF size, kind
<1>6. total' \in Word /\ usable' \in Word /\ reclaimable' \in Word
      /\ usableCount' \in Nat
  BY <1>2, <1>4, <1>5, SatAddWord
<1>7. SatAdd(usable', reclaimable') <= total'
  <2>1. CASE kind \in UsableKinds
    BY <2>1, <1>2, <1>4, <1>5, SatAddBound, ClassesDisjoint
  <2>2. CASE kind \in ReclaimKinds
    BY <2>2, <1>2, <1>4, <1>5, SatAddBound, ClassesDisjoint
  <2>3. CASE kind \notin UsableKinds /\ kind \notin ReclaimKinds
    BY <2>3, <1>2, <1>4, <1>5, SatAddBound
  <2> QED
    BY <2>1, <2>2, <2>3
<1>8. usableCount' <= Len(regions') /\ (usable' > 0 => usableCount' > 0)
  BY <1>3, <1>4, <1>5
<1> QED
  BY <1>6, <1>7, <1>8 DEF StatsConsistent, TotalUsableAfterBoot

-----------------------------------------------------------------------------
LEMMA InitIInv == Init => IInv
  BY WordAssumption, SourcesAssumption
     DEF Init, IInv, TypeOK, Phases, StatsConsistent, NoIndexPanic, KeptExactly,
         FirstUnalignedReported, NoMap, KernelMemoryMaps, Word, Results,
         Pending, Ok, Empty, Panic, TotalUsableAfterBoot, SatAdd

\* The call: the loop has not started, so every invariant is about an empty
\* prefix of the new source.
LEMMA CallIInv ==
    ASSUME IInv, NEW s \in Sources, Call(s)
    PROVE  IInv'
<1>1. s \in KernelMemoryMaps /\ Len(s.entries) <= MaxDescriptors
  BY SourcesAssumption
<1>2. /\ i = 1 /\ regions = <<>> /\ result = Pending
      /\ pc' = "loop" /\ source' = s
      /\ UNCHANGED <<checks, i, regions, total, usable, reclaimable, usableCount,
                     result>>
  BY DEF IInv, Phases, Call, sums
<1>3. Len(s.entries) \in Nat
  BY <1>1 DEF KernelMemoryMaps
<1>4. TypeOK'
  BY <1>1, <1>2, <1>3 DEF IInv, TypeOK
<1>5. Phases'
  BY <1>1, <1>2 DEF Phases
<1>6. StatsConsistent'
  BY <1>2 DEF IInv, StatsConsistent, TotalUsableAfterBoot, SatAdd
<1>7. NoIndexPanic'
  BY <1>2 DEF IInv, NoIndexPanic
<1>8. KeptExactly'
  BY <1>2 DEF KeptExactly
<1>9. FirstUnalignedReported'
  BY <1>2 DEF FirstUnalignedReported, Pending
<1> QED
  BY <1>4, <1>5, <1>6, <1>7, <1>8, <1>9 DEF IInv

\* An early or a late return changes pc and result only.
LEMMA ReturnIInv ==
    ASSUME IInv, NEW r \in Results, Return(r),
           r.tag = "UnalignedBase" => RejectUnaligned
    PROVE  IInv'
<1>1. /\ pc' = "done" /\ result' = r
      /\ UNCHANGED <<checks, source, i, regions, total, usable, reclaimable,
                     usableCount>>
  BY DEF Return, sums
<1>2. TypeOK' /\ Phases' /\ StatsConsistent' /\ NoIndexPanic'
  BY <1>1 DEF IInv, TypeOK, Phases, StatsConsistent, TotalUsableAfterBoot,
              SatAdd, NoIndexPanic
<1>3. KeptExactly'
  BY <1>1 DEF IInv, KeptExactly, Aligned
<1>4. FirstUnalignedReported'
  <2> SUFFICES ASSUME r.tag = "UnalignedBase"
               PROVE  FirstUnalignedReported'
    BY <1>1 DEF FirstUnalignedReported
  <2> DEFINE e == source.entries
             bad == {j \in 1 .. Len(e) : e[j].page_count # 0 /\ ~Aligned(e[j])}
  <2>1. /\ i \in 1 .. Len(e) /\ e[i].page_count # 0 /\ ~Aligned(e[i])
        /\ r = UnalignedBase(i - 1, e[i].phys_start)
    BY <1>1 DEF RejectUnaligned, InLoop, Desc, Return, IInv, TypeOK
  <2>2. ASSUME NEW j \in bad PROVE i <= j
    <3> SUFFICES ASSUME j < i PROVE FALSE
      BY <2>1
    <3>1. j \in 1 .. i - 1 /\ e[j].page_count # 0
      BY <2>1
    <3>2. e[j] \in {regions[k] : k \in 1 .. Len(regions)}
      BY <3>1 DEF IInv, KeptExactly
    <3>3. Aligned(e[j])
      BY <3>2 DEF IInv, KeptExactly
    <3> QED
      BY <3>3
  <2>3. r.index = i - 1 /\ r.phys_start = e[i].phys_start
    BY <2>1 DEF UnalignedBase
  <2>4. r.index + 1 = i
    BY <2>1, <2>3
  <2> QED
    BY <1>1, <2>1, <2>2, <2>3, <2>4 DEF FirstUnalignedReported, Aligned
<1> QED
  BY <1>2, <1>3, <1>4 DEF IInv

LEMMA SkipEmptyIInv ==
    ASSUME IInv, SkipEmpty
    PROVE  IInv'
<1>1. /\ i \in 1 .. Len(source.entries) /\ i' = i + 1
      /\ source.entries[i].page_count = 0
      /\ UNCHANGED <<checks, pc, source, regions, total, usable, reclaimable,
                     usableCount, result>>
      /\ pc = "loop"
  BY DEF IInv, TypeOK, SkipEmpty, InLoop, Desc, sums
<1>2. Len(source.entries) \in Nat
  BY DEF IInv, TypeOK, KernelMemoryMaps
<1>3. TypeOK'
  BY <1>1, <1>2 DEF IInv, TypeOK
<1>4. Phases'
  BY <1>1 DEF IInv, Phases
<1>5. StatsConsistent'
  BY <1>1 DEF IInv, StatsConsistent, TotalUsableAfterBoot, SatAdd
<1>6. NoIndexPanic'
  BY <1>1 DEF IInv, NoIndexPanic, TypeOK
<1>7. KeptExactly'
  <2>1. 1 .. i' - 1 = (1 .. i - 1) \cup {i}
    BY <1>1
  <2> QED
    BY <1>1, <2>1 DEF IInv, KeptExactly, Aligned
<1>8. FirstUnalignedReported'
  BY <1>1 DEF IInv, Phases, FirstUnalignedReported, Pending
<1> QED
  BY <1>3, <1>4, <1>5, <1>6, <1>7, <1>8 DEF IInv

LEMMA KeepDescriptorIInv ==
    ASSUME IInv, KeepDescriptor
    PROVE  IInv'
<1> DEFINE d == source.entries[i]
<1>1. /\ i \in 1 .. Len(source.entries) /\ i' = i + 1
      /\ d.page_count # 0 /\ Aligned(d)
      /\ regions' = Append(regions, d)
      /\ UNCHANGED <<checks, pc, source, result>>
      /\ pc = "loop"
  BY DEF IInv, TypeOK, KeepDescriptor, InLoop, Desc
<1>2. Len(source.entries) \in Nat /\ d \in Descriptors
  BY <1>1 DEF IInv, TypeOK, KernelMemoryMaps
<1>3. /\ regions \in Seq(Descriptors) /\ regions' \in Seq(Descriptors)
      /\ Len(regions) \in Nat /\ Len(regions') = Len(regions) + 1
      /\ \A k \in 1 .. Len(regions) : regions'[k] = regions[k]
      /\ regions'[Len(regions) + 1] = d
  BY <1>1, <1>2 DEF IInv, TypeOK
<1>4. StatsConsistent' /\ total' \in Word /\ usable' \in Word
      /\ reclaimable' \in Word /\ usableCount' \in Nat
  BY KeepPreservesStats DEF IInv
<1>5. TypeOK'
  BY <1>1, <1>2, <1>3, <1>4 DEF IInv, TypeOK
<1>6. Phases'
  BY <1>1 DEF IInv, Phases
<1>7. NoIndexPanic'
  BY <1>1, <1>2, <1>3, SourcesAssumption DEF IInv, NoIndexPanic, Phases
<1>8. KeptExactly'
  <2>1. 1 .. i' - 1 = (1 .. i - 1) \cup {i}
    BY <1>1
  <2>2. 1 .. Len(regions') = (1 .. Len(regions)) \cup {Len(regions) + 1}
    BY <1>3
  <2> DEFINE kept == {regions[k] : k \in 1 .. Len(regions)}
             read == {source.entries[j] : j \in 1 .. i - 1}
  <2>3. kept' = kept \cup {d}
    BY <1>3, <2>2
  <2>4. read' = read \cup {d}
    BY <1>1, <2>1
  <2>5. kept = {x \in read : x.page_count # 0} /\ \A x \in kept : Aligned(x)
    BY DEF IInv, KeptExactly
  <2> SUFFICES /\ kept' = {x \in read' : x.page_count # 0}
               /\ \A x \in kept' : Aligned(x)
    BY DEF KeptExactly, Aligned
  <2> HIDE DEF kept, read, d
  <2> QED
    BY <1>1, <2>3, <2>4, <2>5
<1>9. FirstUnalignedReported'
  BY <1>1 DEF IInv, Phases, FirstUnalignedReported, Pending
<1> QED
  BY <1>4, <1>5, <1>6, <1>7, <1>8, <1>9 DEF IInv

\* The inductive step: IInv is preserved by every action of the loop.
LEMMA NextIInv == IInv /\ [Next]_vars => IInv'
<1> SUFFICES ASSUME IInv, [Next]_vars
             PROVE  IInv'
  OBVIOUS
<1>1. CASE \E s \in Sources : Call(s)
  BY <1>1, CallIInv
<1>2. CASE SkipEmpty
  BY <1>2, SkipEmptyIInv
<1>3. CASE RejectUnaligned
  <2>1. i \in 1 .. Len(source.entries) /\ source.entries[i] \in Descriptors
    BY <1>3 DEF IInv, TypeOK, RejectUnaligned, InLoop, KernelMemoryMaps
  <2>2. UnalignedBase(i - 1, Desc.phys_start) \in Results
    BY <2>1 DEF UnalignedBase, Results, Desc, Descriptors
  <2> QED
    BY <1>3, <2>2, ReturnIInv DEF RejectUnaligned
<1>4. CASE SizePanics
  BY <1>4, ReturnIInv DEF SizePanics, Results, Panic
<1>5. CASE KeepDescriptor
  BY <1>5, KeepDescriptorIInv
<1>6. CASE Finish
  BY <1>6, ReturnIInv DEF Finish, Results, Ok, Empty
<1>7. CASE UNCHANGED vars
  BY <1>7 DEF IInv, vars, TypeOK, Phases, StatsConsistent, NoIndexPanic,
              KeptExactly, FirstUnalignedReported, TotalUsableAfterBoot, SatAdd,
              Aligned
<1> QED
  BY <1>1, <1>2, <1>3, <1>4, <1>5, <1>6, <1>7 DEF Next, Step

\* The inductive invariant holds throughout every run of parse.
THEOREM ParseIInv == Spec => []IInv
<1>1. Init => IInv
  BY InitIInv
<1>2. IInv /\ [Next]_vars => IInv'
  BY NextIInv
<1> QED
  BY <1>1, <1>2, PTL DEF Spec

\* Type correctness of parse (MemoryMap::parse), for every instance.
THEOREM ParseTypeOK == Spec => []TypeOK
<1>1. IInv => TypeOK
  BY DEF IInv
<1> QED
  BY <1>1, ParseIInv, PTL

\* For every word size and every source map, the bytes the allocator is told
\* it may use never exceed the RAM total, saturation included.
THEOREM ParseStatsConsistent == Spec => []StatsConsistent
<1>1. IInv => StatsConsistent
  BY DEF IInv
<1> QED
  BY <1>1, ParseIInv, PTL

\* descriptors[count] never leaves the fixed array, whatever its capacity.
THEOREM ParseNoIndexPanic == Spec => []NoIndexPanic
<1>1. IInv => NoIndexPanic
  BY DEF IInv
<1> QED
  BY <1>1, ParseIInv, PTL

\* parse keeps exactly the non-empty descriptors it has read, all aligned.
THEOREM ParseKeptExactly == Spec => []KeptExactly
<1>1. IInv => KeptExactly
  BY DEF IInv
<1> QED
  BY <1>1, ParseIInv, PTL

\* An UnalignedBase error names the first offending descriptor.
THEOREM ParseFirstUnaligned == Spec => []FirstUnalignedReported
<1>1. IInv => FirstUnalignedReported
  BY DEF IInv
<1> QED
  BY <1>1, ParseIInv, PTL

-----------------------------------------------------------------------------
(* The queries: what a filter of a map and a sum over one go through, from *)
(* the first region to the last.                                           *)

\* f is what the filter has collected after each position of s.
Filters(f, s, T) ==
    /\ f \in [0 .. Len(s) -> Seq(Descriptors)] /\ f[0] = <<>>
    /\ \A m \in 1 .. Len(s) :
          f[m] = IF s[m].ty \in T THEN Append(f[m - 1], s[m]) ELSE f[m - 1]

\* f is the sum after each position of s.
Sums(f, s) ==
    /\ f \in [0 .. Len(s) -> Word] /\ f[0] = 0
    /\ \A m \in 1 .. Len(s) : f[m] = SatAdd(f[m - 1], SizeBytes(s[m]))

\* The recursions of the two folds, as FoldLeft writes them.
FilterFold(h, s, T) ==
    h = [A \in SUBSET (DOMAIN s) |->
            IF A = {} THEN <<>>
            ELSE IF s[Max(A)].ty \in T THEN Append(h[A \ {Max(A)}], s[Max(A)])
                 ELSE h[A \ {Max(A)}]]
SumFold(h, s) ==
    h = [A \in SUBSET (DOMAIN s) |->
            IF A = {} THEN 0 ELSE SatAdd(h[A \ {Max(A)}], SizeBytes(s[Max(A)]))]

LEMMA MaxIsGreatest == \A A : Max(A) = Greatest(A)
  BY Zenon DEF Max, Greatest

\* What the filter goes through exists, and ends in what it returns.
LEMMA FilterWalk ==
    ASSUME NEW s \in Seq(Descriptors), NEW T
    PROVE  /\ \E f : Filters(f, s, T)
           /\ \A f : Filters(f, s, T) => OfTypes(s, T) = f[Len(s)]
<1> DEFINE n == Len(s)
           X == Seq(Descriptors)
           F == [j \in 1 .. n |-> [v \in X |-> IF s[j].ty \in T THEN Append(v, s[j]) ELSE v]]
<1>1. n \in Nat /\ DOMAIN s = 1 .. n /\ \A j \in 1 .. n : s[j] \in Descriptors
  OBVIOUS
<1> HIDE DEF n
<1>2. \A j \in 1 .. n : \A v \in X : (IF s[j].ty \in T THEN Append(v, s[j]) ELSE v) \in X
  BY <1>1
<1>3. <<>> \in X
  OBVIOUS
<1> HIDE DEF X
<1>4. F \in [1 .. n -> [X -> X]]
  BY <1>2
<1>5. \A j \in 1 .. n : \A v \in X :
         F[j][v] = IF s[j].ty \in T THEN Append(v, s[j]) ELSE v
  OBVIOUS
<1> HIDE DEF F
<1>6. PICK h : IsFold(h, X, <<>>, F, n)
  BY <1>1, <1>4, <1>3, FoldExists
<1>7. /\ h \in [SUBSET (1 .. n) -> X] /\ h[{}] = <<>>
      /\ \A A \in SUBSET (1 .. n) : A # {} =>
            h[A] = F[Greatest(A)][h[A \ {Greatest(A)}]]
  BY <1>6 DEF IsFold
<1>8. ASSUME NEW A \in SUBSET (1 .. n), A # {}
      PROVE  h[A] = IF s[Greatest(A)].ty \in T
                    THEN Append(h[A \ {Greatest(A)}], s[Greatest(A)])
                    ELSE h[A \ {Greatest(A)}]
  <2> DEFINE g == Greatest(A)
             B == A \ {g}
  <2>1. g \in 1 .. n /\ B \in SUBSET (1 .. n)
    BY <1>1, <1>8, GreatestExists
  <2>2. h[A] = F[g][h[B]]
    BY <1>7, <1>8
  <2> HIDE DEF g, B
  <2>3. h[B] \in X
    BY <1>7, <2>1
  <2>4. h[A] = IF s[g].ty \in T THEN Append(h[B], s[g]) ELSE h[B]
    BY <1>5, <2>1, <2>2, <2>3, Zenon
  <2> QED
    BY <2>4, Zenon DEF g, B
<1>9. FilterFold(h, s, T)
  <2>1. h = [A \in SUBSET (1 .. n) |-> h[A]]
    BY <1>7
  <2>2. \A A \in SUBSET (1 .. n) :
           h[A] = IF A = {} THEN <<>>
                  ELSE IF s[Max(A)].ty \in T THEN Append(h[A \ {Max(A)}], s[Max(A)])
                       ELSE h[A \ {Max(A)}]
    BY <1>7, <1>8, MaxIsGreatest, Zenon
  <2> QED
    BY <1>1, <2>1, <2>2, Zenon DEF FilterFold
<1>10. \E f : Filters(f, s, T)
  <2> DEFINE q == [m \in 0 .. n |-> h[1 .. m]]
  <2>1. q \in [0 .. n -> X] /\ q[0] = <<>>
    <3>1. 1 .. 0 = {} /\ 0 \in 0 .. n /\ \A m \in 0 .. n : 1 .. m \in SUBSET (1 .. n)
      BY <1>1
    <3> QED
      BY <1>7, <3>1
  <2>2. ASSUME NEW m \in 1 .. n
        PROVE  q[m] = IF s[m].ty \in T THEN Append(q[m - 1], s[m]) ELSE q[m - 1]
    <3> DEFINE A == 1 .. m
    <3>1. A \in SUBSET (1 .. n) /\ m \in A /\ m \in Nat \ {0} /\ m - 1 \in 0 .. n /\ m \in 0 .. n
      BY <1>1
    <3>2. Greatest(A) = m /\ A \ {m} = 1 .. m - 1
      BY <3>1, GreatestOfPrefix
    <3>3. q[m] = h[A] /\ q[m - 1] = h[A \ {m}]
      BY <3>1, <3>2
    <3> HIDE DEF A, q
    <3>4. h[A] = IF s[m].ty \in T THEN Append(h[A \ {m}], s[m]) ELSE h[A \ {m}]
      <4>1. A # {}
        BY <3>1
      <4> QED
        BY <1>8, <3>1, <3>2, <4>1, Zenon
    <3> QED
      BY <3>3, <3>4, Zenon
  <2> HIDE DEF q
  <2>3. Filters(q, s, T)
    BY <2>1, <2>2 DEF Filters, n, X
  <2> QED
    BY <2>3
<1> DEFINE g == CHOOSE x : FilterFold(x, s, T)
<1>11. FilterFold(g, s, T)
  BY <1>9, Zenon
<1>12. OfTypes(s, T) = g[DOMAIN s]
  BY Zenon DEF OfTypes, FoldLeft, MapThenFoldSet, FilterFold
<1> HIDE DEF g
<1>13. /\ g[{}] = <<>>
       /\ \A A \in SUBSET (1 .. n) : A # {} =>
             g[A] = IF s[Greatest(A)].ty \in T
                    THEN Append(g[A \ {Greatest(A)}], s[Greatest(A)])
                    ELSE g[A \ {Greatest(A)}]
  <2>1. g = [A \in SUBSET (1 .. n) |->
                IF A = {} THEN <<>>
                ELSE IF s[Max(A)].ty \in T THEN Append(g[A \ {Max(A)}], s[Max(A)])
                     ELSE g[A \ {Max(A)}]]
    BY <1>1, <1>11, Zenon DEF FilterFold
  <2>2. {} \in SUBSET (1 .. n)
    OBVIOUS
  <2> QED
    BY <2>1, <2>2, MaxIsGreatest, Zenon
<1>14. ASSUME NEW f, Filters(f, s, T) PROVE OfTypes(s, T) = f[n]
  <2> DEFINE Ind == {m \in Nat : m <= n => g[1 .. m] = f[m]}
  <2>1. 0 \in Ind
    <3>1. 1 .. 0 = {}
      OBVIOUS
    <3> QED
      BY <1>13, <1>14, <3>1 DEF Filters
  <2>2. ASSUME NEW m \in Nat, m \in Ind PROVE m + 1 \in Ind
    <3> SUFFICES ASSUME m + 1 <= n PROVE g[1 .. m + 1] = f[m + 1]
      OBVIOUS
    <3> DEFINE p == m + 1
               A == 1 .. p
    <3>1. p \in Nat \ {0} /\ p - 1 = m /\ p \in 1 .. n /\ A \in SUBSET (1 .. n) /\ p \in A
      BY <1>1
    <3>2. Greatest(A) = p /\ A \ {p} = 1 .. m
      BY <3>1, GreatestOfPrefix
    <3>3. f[p] = IF s[p].ty \in T THEN Append(f[m], s[p]) ELSE f[m]
      <4> HIDE DEF p
      <4>1. f[p] = IF s[p].ty \in T THEN Append(f[p - 1], s[p]) ELSE f[p - 1]
        BY <1>14, <3>1, Zenon DEF Filters, n
      <4> QED
        BY <3>1, <4>1
    <3>4. g[1 .. m] = f[m]
      BY <1>1, <2>2
    <3> HIDE DEF p, A
    <3>5. g[A] = IF s[p].ty \in T THEN Append(g[1 .. m], s[p]) ELSE g[1 .. m]
      <4>1. A # {}
        BY <3>1
      <4> QED
        BY <1>13, <3>1, <3>2, <4>1, Zenon
    <3>6. g[A] = f[p]
      BY <3>3, <3>4, <3>5
    <3> QED
      BY <3>6 DEF p, A
  <2> HIDE DEF Ind
  <2>3. n \in Ind
    BY <1>1, <2>1, <2>2, NatSetInduction
  <2> QED
    BY <1>1, <1>12, <2>3 DEF Ind
<1> QED
  BY <1>10, <1>14 DEF n

\* The same for the sum.
LEMMA SumWalk ==
    ASSUME NEW s \in Seq(Descriptors)
    PROVE  /\ \E f : Sums(f, s)
           /\ \A f : Sums(f, s) => Bytes(s) = f[Len(s)]
<1> DEFINE n == Len(s)
           size == [j \in 1 .. n |-> SizeBytes(s[j])]
           F == [j \in 1 .. n |-> [v \in Word |-> SatAdd(v, size[j])]]
<1>1. n \in Nat /\ DOMAIN s = 1 .. n /\ \A j \in 1 .. n : s[j] \in Descriptors
  OBVIOUS
<1> HIDE DEF n
<1>2. /\ 0 \in Word
      /\ \A j \in 1 .. n : size[j] = SizeBytes(s[j]) /\ size[j] \in Word
  BY <1>1, SizeBytesWord, WordAssumption DEF Word
<1> HIDE DEF size
<1>3. \A j \in 1 .. n : \A v \in Word : SatAdd(v, size[j]) \in Word
  BY <1>2, SatAddWord
<1>4. F \in [1 .. n -> [Word -> Word]]
  BY <1>3
<1>5. \A j \in 1 .. n : \A v \in Word : F[j][v] = SatAdd(v, SizeBytes(s[j]))
  BY <1>2
<1> HIDE DEF F
<1>6. PICK h : IsFold(h, Word, 0, F, n)
  BY <1>1, <1>2, <1>4, FoldExists
<1>7. /\ h \in [SUBSET (1 .. n) -> Word] /\ h[{}] = 0
      /\ \A A \in SUBSET (1 .. n) : A # {} =>
            h[A] = F[Greatest(A)][h[A \ {Greatest(A)}]]
  BY <1>6 DEF IsFold
<1>8. ASSUME NEW A \in SUBSET (1 .. n), A # {}
      PROVE  h[A] = SatAdd(h[A \ {Greatest(A)}], SizeBytes(s[Greatest(A)]))
  <2> DEFINE g == Greatest(A)
             B == A \ {g}
  <2>1. g \in 1 .. n /\ B \in SUBSET (1 .. n)
    BY <1>1, <1>8, GreatestExists
  <2>2. h[A] = F[g][h[B]]
    BY <1>7, <1>8
  <2> HIDE DEF g, B
  <2>3. h[B] \in Word
    BY <1>7, <2>1
  <2>4. h[A] = SatAdd(h[B], SizeBytes(s[g]))
    BY <1>5, <2>1, <2>2, <2>3, Zenon
  <2> QED
    BY <2>4, Zenon DEF g, B
<1>9. SumFold(h, s)
  <2>1. h = [A \in SUBSET (1 .. n) |-> h[A]]
    BY <1>7
  <2>2. \A A \in SUBSET (1 .. n) :
           h[A] = IF A = {} THEN 0 ELSE SatAdd(h[A \ {Max(A)}], SizeBytes(s[Max(A)]))
    BY <1>7, <1>8, MaxIsGreatest, Zenon
  <2> QED
    BY <1>1, <2>1, <2>2, Zenon DEF SumFold
<1>10. \E f : Sums(f, s)
  <2> DEFINE q == [m \in 0 .. n |-> h[1 .. m]]
  <2>1. q \in [0 .. n -> Word] /\ q[0] = 0
    <3>1. 1 .. 0 = {} /\ 0 \in 0 .. n /\ \A m \in 0 .. n : 1 .. m \in SUBSET (1 .. n)
      BY <1>1
    <3> QED
      BY <1>7, <3>1
  <2>2. ASSUME NEW m \in 1 .. n
        PROVE  q[m] = SatAdd(q[m - 1], SizeBytes(s[m]))
    <3> DEFINE A == 1 .. m
    <3>1. A \in SUBSET (1 .. n) /\ m \in A /\ m \in Nat \ {0} /\ m - 1 \in 0 .. n /\ m \in 0 .. n
      BY <1>1
    <3>2. Greatest(A) = m /\ A \ {m} = 1 .. m - 1
      BY <3>1, GreatestOfPrefix
    <3>3. q[m] = h[A] /\ q[m - 1] = h[A \ {m}]
      BY <3>1, <3>2
    <3> HIDE DEF A, q
    <3>4. h[A] = SatAdd(h[A \ {m}], SizeBytes(s[m]))
      <4>1. A # {}
        BY <3>1
      <4> QED
        BY <1>8, <3>1, <3>2, <4>1, Zenon
    <3> QED
      BY <3>3, <3>4, Zenon
  <2> HIDE DEF q
  <2>3. Sums(q, s)
    BY <2>1, <2>2 DEF Sums, n
  <2> QED
    BY <2>3
<1> DEFINE g == CHOOSE x : SumFold(x, s)
<1>11. SumFold(g, s)
  BY <1>9, Zenon
<1>12. Bytes(s) = g[DOMAIN s]
  BY Zenon DEF Bytes, FoldLeft, MapThenFoldSet, SumFold
<1> HIDE DEF g
<1>13. /\ g[{}] = 0
       /\ \A A \in SUBSET (1 .. n) : A # {} =>
             g[A] = SatAdd(g[A \ {Greatest(A)}], SizeBytes(s[Greatest(A)]))
  <2>1. g = [A \in SUBSET (1 .. n) |->
                IF A = {} THEN 0 ELSE SatAdd(g[A \ {Max(A)}], SizeBytes(s[Max(A)]))]
    BY <1>1, <1>11, Zenon DEF SumFold
  <2>2. {} \in SUBSET (1 .. n)
    OBVIOUS
  <2> QED
    BY <2>1, <2>2, MaxIsGreatest, Zenon
<1>14. ASSUME NEW f, Sums(f, s) PROVE Bytes(s) = f[n]
  <2> DEFINE Ind == {m \in Nat : m <= n => g[1 .. m] = f[m]}
  <2>1. 0 \in Ind
    <3>1. 1 .. 0 = {}
      OBVIOUS
    <3> QED
      BY <1>13, <1>14, <3>1 DEF Sums
  <2>2. ASSUME NEW m \in Nat, m \in Ind PROVE m + 1 \in Ind
    <3> SUFFICES ASSUME m + 1 <= n PROVE g[1 .. m + 1] = f[m + 1]
      OBVIOUS
    <3> DEFINE p == m + 1
               A == 1 .. p
    <3>1. p \in Nat \ {0} /\ p - 1 = m /\ p \in 1 .. n /\ A \in SUBSET (1 .. n) /\ p \in A
      BY <1>1
    <3>2. Greatest(A) = p /\ A \ {p} = 1 .. m
      BY <3>1, GreatestOfPrefix
    <3>3. f[p] = SatAdd(f[m], SizeBytes(s[p]))
      <4> HIDE DEF p
      <4>1. f[p] = SatAdd(f[p - 1], SizeBytes(s[p]))
        BY <1>14, <3>1, Zenon DEF Sums, n
      <4> QED
        BY <3>1, <4>1
    <3>4. g[1 .. m] = f[m]
      BY <1>1, <2>2
    <3> HIDE DEF p, A
    <3>5. g[A] = SatAdd(g[1 .. m], SizeBytes(s[p]))
      <4>1. A # {}
        BY <3>1
      <4> QED
        BY <1>13, <3>1, <3>2, <4>1, Zenon
    <3>6. g[A] = f[p]
      BY <3>3, <3>4, <3>5, Zenon
    <3> QED
      BY <3>6 DEF p, A
  <2> HIDE DEF Ind
  <2>3. n \in Ind
    BY <1>1, <2>1, <2>2, NatSetInduction
  <2> QED
    BY <1>1, <1>12, <2>3 DEF Ind
<1> QED
  BY <1>10, <1>14 DEF n

\* One region more is appended to the queries of its type and to no other,
\* and adds its bytes to a sum.
LEMMA QueryStep ==
    ASSUME NEW s \in Seq(Descriptors), NEW d \in Descriptors, NEW T
    PROVE  /\ OfTypes(s, T) \in Seq(Descriptors)
           /\ OfTypes(Append(s, d), T) = IF d.ty \in T THEN Append(OfTypes(s, T), d)
                                         ELSE OfTypes(s, T)
           /\ Bytes(s) \in Word
           /\ Bytes(Append(s, d)) = SatAdd(Bytes(s), SizeBytes(d))
<1> DEFINE n == Len(s)
           t == Append(s, d)
<1>1. /\ n \in Nat /\ t \in Seq(Descriptors) /\ Len(t) = n + 1 /\ t[n + 1] = d
      /\ \A j \in 1 .. n : t[j] = s[j]
  OBVIOUS
<1>2. /\ n \in 0 .. n + 1 /\ n + 1 \in 1 .. n + 1 /\ (n + 1) - 1 = n /\ 0 \in 0 .. n
      /\ n \in 0 .. n
      /\ \A j \in 0 .. n : j \in 0 .. n + 1
      /\ \A j \in 1 .. n : j \in 1 .. n + 1 /\ j \in 0 .. n /\ j - 1 \in 0 .. n
  BY <1>1
<1> HIDE DEF t
<1>3. /\ OfTypes(s, T) \in Seq(Descriptors)
      /\ OfTypes(t, T) = IF d.ty \in T THEN Append(OfTypes(s, T), d) ELSE OfTypes(s, T)
  <2>1. PICK f : Filters(f, t, T)
    BY <1>1, FilterWalk
  <2>2. OfTypes(t, T) = f[n + 1]
    BY <1>1, <2>1, FilterWalk
  <2>3. /\ \A j \in 0 .. n + 1 : f[j] \in Seq(Descriptors)
        /\ f[0] = <<>>
        /\ \A m \in 1 .. n + 1 :
              f[m] = IF t[m].ty \in T THEN Append(f[m - 1], t[m]) ELSE f[m - 1]
    BY <1>1, <2>1 DEF Filters
  <2> DEFINE q == [j \in 0 .. n |-> f[j]]
  <2>4. Filters(q, s, T)
    <3>1. q \in [0 .. n -> Seq(Descriptors)] /\ q[0] = <<>>
      BY <1>2, <2>3
    <3>2. \A m \in 1 .. n :
             q[m] = IF s[m].ty \in T THEN Append(q[m - 1], s[m]) ELSE q[m - 1]
      BY <1>1, <1>2, <2>3
    <3> HIDE DEF q
    <3> QED
      BY <3>1, <3>2 DEF Filters
  <2>5. q[n] = f[n]
    BY <1>2
  <2> HIDE DEF q
  <2>6. OfTypes(s, T) = f[n]
    BY <2>4, <2>5, FilterWalk
  <2> QED
    BY <1>1, <1>2, <2>2, <2>3, <2>6
<1>4. /\ Bytes(s) \in Word
      /\ Bytes(t) = SatAdd(Bytes(s), SizeBytes(d))
  <2>1. PICK f : Sums(f, t)
    BY <1>1, SumWalk
  <2>2. Bytes(t) = f[n + 1]
    BY <1>1, <2>1, SumWalk
  <2>3. /\ \A j \in 0 .. n + 1 : f[j] \in Word
        /\ f[0] = 0
        /\ \A m \in 1 .. n + 1 : f[m] = SatAdd(f[m - 1], SizeBytes(t[m]))
    BY <1>1, <2>1 DEF Sums
  <2> DEFINE q == [j \in 0 .. n |-> f[j]]
  <2>4. Sums(q, s)
    <3>1. q \in [0 .. n -> Word] /\ q[0] = 0
      BY <1>2, <2>3
    <3>2. \A m \in 1 .. n : q[m] = SatAdd(q[m - 1], SizeBytes(s[m]))
      BY <1>1, <1>2, <2>3
    <3> HIDE DEF q
    <3> QED
      BY <3>1, <3>2 DEF Sums
  <2>5. q[n] = f[n]
    BY <1>2
  <2> HIDE DEF q
  <2>6. Bytes(s) = f[n]
    BY <2>4, <2>5, SumWalk
  <2> QED
    BY <1>1, <1>2, <2>2, <2>3, <2>6
<1> QED
  BY <1>3, <1>4 DEF t

\* A query of the empty map.
LEMMA QueryNone ==
    ASSUME NEW T
    PROVE  OfTypes(<<>>, T) = <<>> /\ Bytes(<<>>) = 0
<1>1. <<>> \in Seq(Descriptors) /\ Len(<<>>) = 0
  OBVIOUS
<1>2. PICK f : Filters(f, <<>>, T)
  BY <1>1, FilterWalk
<1>3. PICK g : Sums(g, <<>>)
  BY <1>1, SumWalk
<1>4. OfTypes(<<>>, T) = f[0] /\ f[0] = <<>>
  BY <1>1, <1>2, FilterWalk DEF Filters
<1>5. Bytes(<<>>) = g[0] /\ g[0] = 0
  BY <1>1, <1>3, SumWalk DEF Sums
<1> QED
  BY <1>4, <1>5

\* The positions of s whose type is in T.
At(s, T) == {j \in 1 .. Len(s) : s[j].ty \in T}

\* A query yields regions of its types only, every region of them, and as
\* many as the map has.
LEMMA QueryYields ==
    ASSUME NEW s \in Seq(Descriptors), NEW T
    PROVE  /\ \A k \in 1 .. Len(OfTypes(s, T)) : OfTypes(s, T)[k].ty \in T
           /\ \A j \in 1 .. Len(s) : s[j].ty \in T => Contains(OfTypes(s, T), s[j])
           /\ IsFiniteSet(At(s, T)) /\ Cardinality(At(s, T)) = Len(OfTypes(s, T))
<1> DEFINE n == Len(s)
           B(m) == {j \in 1 .. m : s[j].ty \in T}
<1>1. n \in Nat /\ \A j \in 1 .. n : s[j] \in Descriptors
  OBVIOUS
<1>2. PICK f : Filters(f, s, T) /\ OfTypes(s, T) = f[n]
  BY FilterWalk
<1>3. /\ \A m \in 0 .. n : f[m] \in Seq(Descriptors)
      /\ f[0] = <<>>
      /\ \A m \in 1 .. n : f[m] = IF s[m].ty \in T THEN Append(f[m - 1], s[m]) ELSE f[m - 1]
  BY <1>2 DEF Filters
<1> HIDE DEF n
<1> DEFINE P(m) == /\ \A k \in 1 .. Len(f[m]) : f[m][k].ty \in T
                   /\ \A j \in 1 .. m : s[j].ty \in T =>
                         \E k \in 1 .. Len(f[m]) : f[m][k] = s[j]
                   /\ IsFiniteSet(B(m)) /\ Cardinality(B(m)) = Len(f[m])
           Ind == {m \in Nat : m <= n => P(m)}
<1>4. 0 \in Ind
  <2>1. B(0) = {} /\ 1 .. 0 = {} /\ Len(f[0]) = 0
    BY <1>3
  <2> QED
    BY <2>1, FS_EmptySet
<1>5. ASSUME NEW m \in Nat, m \in Ind PROVE m + 1 \in Ind
  <2> SUFFICES ASSUME m + 1 <= n PROVE P(m + 1)
    <3> HIDE DEF P
    <3> QED
      OBVIOUS
  <2> DEFINE p == m + 1
             a == f[m]
             c == f[p]
             d == s[p]
  <2>1. /\ p \in Nat /\ p \in 1 .. n /\ m \in 0 .. n /\ m <= n /\ p - 1 = m
        /\ 1 .. p = (1 .. m) \cup {p} /\ p \notin 1 .. m
    BY <1>1
  <2>2. P(m)
    <3> HIDE DEF P
    <3> QED
      BY <1>5, <2>1
  <2>3. a \in Seq(Descriptors) /\ d \in Descriptors /\ c = IF d.ty \in T THEN Append(a, d) ELSE a
    <3> HIDE DEF p, B, P, Ind
    <3>1. a \in Seq(Descriptors) /\ d \in Descriptors
      BY <1>1, <1>3, <2>1
    <3>2. c = IF d.ty \in T THEN Append(f[p - 1], d) ELSE f[p - 1]
      BY <1>3, <2>1, Zenon
    <3> QED
      BY <2>1, <3>1, <3>2
  <2>4. /\ \A k \in 1 .. Len(a) : a[k].ty \in T
        /\ \A j \in 1 .. m : s[j].ty \in T => \E k \in 1 .. Len(a) : a[k] = s[j]
        /\ IsFiniteSet(B(m)) /\ Cardinality(B(m)) = Len(a)
    BY <2>2
  <2>5. B(p) = IF d.ty \in T THEN B(m) \cup {p} ELSE B(m)
    BY <2>1
  <2>6. p \notin B(m)
    BY <2>1
  <2> DEFINE M == B(m)
             N == B(p)
  <2>7. M = B(m) /\ N = B(p)
    OBVIOUS
  <2> HIDE DEF p, a, c, d, B, Ind, M, N
  <2>8. CASE d.ty \in T
    <3>1. /\ Len(c) = Len(a) + 1 /\ c[Len(a) + 1] = d /\ Len(a) \in Nat
          /\ \A k \in 1 .. Len(a) : c[k] = a[k]
      BY <2>3, <2>8
    <3>2. \A k \in 1 .. Len(c) : c[k].ty \in T
      BY <2>4, <2>8, <3>1
    <3>3. \A j \in 1 .. p : s[j].ty \in T => \E k \in 1 .. Len(c) : c[k] = s[j]
      <4>1. \A j \in 1 .. m : s[j].ty \in T => \E k \in 1 .. Len(c) : c[k] = s[j]
        BY <2>4, <3>1
      <4>2. \E k \in 1 .. Len(c) : c[k] = s[p]
        BY <3>1 DEF d
      <4> QED
        BY <2>1, <4>1, <4>2
    <3>4. IsFiniteSet(N) /\ Cardinality(N) = Len(c)
      <4>1. N = M \cup {p} /\ IsFiniteSet(M) /\ p \notin M /\ Cardinality(M) = Len(a)
        BY <2>4, <2>5, <2>6, <2>7, <2>8
      <4>2. IsFiniteSet(M \cup {p}) /\ Cardinality(M \cup {p}) = Cardinality(M) + 1
        BY <4>1, FS_AddElement
      <4> QED
        BY <3>1, <4>1, <4>2
    <3> QED
      BY <2>7, <3>2, <3>3, <3>4 DEF p, c
  <2>9. CASE d.ty \notin T
    <3>1. c = a /\ N = M
      BY <2>3, <2>5, <2>7, <2>9
    <3>2. \A j \in 1 .. p : s[j].ty \in T => j \in 1 .. m
      BY <2>1, <2>9 DEF d
    <3> QED
      BY <2>4, <2>7, <3>1, <3>2 DEF p, c
  <2> QED
    BY <2>8, <2>9
<1> HIDE DEF Ind
<1>6. n \in Ind
  BY <1>1, <1>4, <1>5, NatSetInduction
<1>7. P(n)
  <2> HIDE DEF P
  <2> QED
    BY <1>1, <1>6 DEF Ind
<1>8. B(n) = At(s, T)
  BY DEF At, n
<1> QED
  BY <1>2, <1>7, <1>8 DEF Contains, n

LEMMA DescriptorType == \A d \in Descriptors : d.ty \in UefiTypes
  BY DEF Descriptors

LEMMA UefiTypesFinite == IsFiniteSet(UefiTypes)
<1>1. \A S, x : IsFiniteSet(S) => IsFiniteSet(S \cup {x})
  BY FS_AddElement
<1> DEFINE A == {} \cup {"RESERVED"} \cup {"LOADER_CODE"} \cup {"LOADER_DATA"}
                \cup {"BOOT_SERVICES_CODE"} \cup {"BOOT_SERVICES_DATA"}
           B == A \cup {"RUNTIME_SERVICES_CODE"} \cup {"RUNTIME_SERVICES_DATA"}
                \cup {"CONVENTIONAL"} \cup {"UNUSABLE"} \cup {"ACPI_RECLAIM"}
           C == B \cup {"ACPI_NON_VOLATILE"} \cup {"MMIO"} \cup {"MMIO_PORT_SPACE"}
                \cup {"PERSISTENT_MEMORY"} \cup {"OTHER"}
<1>2. IsFiniteSet(A)
  BY <1>1, FS_EmptySet, Zenon
<1>3. IsFiniteSet(B)
  <2> HIDE DEF A
  <2> QED
    BY <1>1, <1>2, Zenon
<1>4. IsFiniteSet(C)
  <2> HIDE DEF B
  <2> QED
    BY <1>1, <1>3, Zenon
<1>5. UefiTypes = C
  BY DEF UefiTypes
<1> HIDE DEF C
<1> QED
  BY <1>4, <1>5

\* The recursion of FoldSet over the queries by type.
CountFold(h, s, S) ==
    h = [t \in SUBSET S |->
            IF t = {} THEN 0
            ELSE h[t \ {CHOOSE x \in t : TRUE}] + Len(OfTypes(s, {CHOOSE x \in t : TRUE}))]

\* The queries by type, all types together, yield every region once.
LEMMA TypesCount ==
    ASSUME NEW s \in Seq(Descriptors)
    PROVE  Len(s) = FoldSet(LAMBDA ty, n : n + Len(OfTypes(s, {ty})), 0, UefiTypes)
<1> DEFINE pick(t) == CHOOSE x \in t : TRUE
           C(t) == Cardinality(At(s, t))
           g == CHOOSE h : CountFold(h, s, UefiTypes)
           h0 == [t \in SUBSET UefiTypes |-> C(t)]
<1>1. \A t : IsFiniteSet(At(s, t)) /\ C(t) \in Nat
  BY QueryYields, FS_CardinalityType
<1>2. \A x : Len(OfTypes(s, {x})) = C({x})
  BY QueryYields
<1>3. ASSUME NEW t, NEW x \in t
      PROVE  C(t) = C(t \ {x}) + Len(OfTypes(s, {x}))
  <2> DEFINE A == At(s, t \ {x})
             B == At(s, {x})
  <2>1. A \cup B = At(s, t) /\ A \cap B = {}
    BY DEF At
  <2>2. IsFiniteSet(A) /\ IsFiniteSet(B) /\ Cardinality(A) \in Nat /\ Cardinality(B) \in Nat
    BY <1>1
  <2>3. Cardinality(B) = Len(OfTypes(s, {x}))
    BY <1>2
  <2> HIDE DEF A, B
  <2>4. Cardinality(A \cup B) = Cardinality(A) + Cardinality(B)
    <3>1. Cardinality(A \cup B) = Cardinality(A) + Cardinality(B) - Cardinality(A \cap B)
      BY <2>2, FS_Union
    <3>2. Cardinality(A \cap B) = 0
      BY <2>1, FS_EmptySet
    <3> QED
      BY <2>2, <3>1, <3>2
  <2> QED
    BY <2>1, <2>3, <2>4 DEF A
<1>4. C({}) = 0
  <2>1. At(s, {}) = {}
    BY DEF At
  <2> QED
    BY <2>1, FS_EmptySet
<1> HIDE DEF C
<1>5. \A t \in SUBSET UefiTypes : t # {} => pick(t) \in t /\ t \ {pick(t)} \in SUBSET UefiTypes
  OBVIOUS
<1>6. CountFold(h0, s, UefiTypes)
  <2>1. \A t \in SUBSET UefiTypes :
           C(t) = IF t = {} THEN 0
                  ELSE h0[t \ {pick(t)}] + Len(OfTypes(s, {pick(t)}))
    <3> SUFFICES ASSUME NEW t \in SUBSET UefiTypes
                 PROVE  C(t) = IF t = {} THEN 0
                               ELSE h0[t \ {pick(t)}] + Len(OfTypes(s, {pick(t)}))
      OBVIOUS
    <3>1. CASE t = {}
      BY <1>4, <3>1
    <3>2. CASE t # {}
      <4>1. h0[t \ {pick(t)}] = C(t \ {pick(t)})
        BY <1>5, <3>2
      <4>2. C(t) = C(t \ {pick(t)}) + Len(OfTypes(s, {pick(t)}))
        BY <1>3, <1>5, <3>2
      <4> HIDE DEF h0
      <4> QED
        BY <3>2, <4>1, <4>2
    <3> QED
      BY <3>1, <3>2
  <2> QED
    BY <2>1, Zenon DEF CountFold
<1>7. CountFold(g, s, UefiTypes)
  <2> HIDE DEF h0
  <2> QED
    BY <1>6, Zenon
<1>8. FoldSet(LAMBDA ty, n : n + Len(OfTypes(s, {ty})), 0, UefiTypes) = g[UefiTypes]
  BY Zenon DEF FoldSet, MapThenFoldSet, CountFold
<1> HIDE DEF g
<1>9. /\ g[{}] = 0
      /\ \A t \in SUBSET UefiTypes : t # {} =>
            g[t] = g[t \ {pick(t)}] + Len(OfTypes(s, {pick(t)}))
  <2>1. {} \in SUBSET UefiTypes
    OBVIOUS
  <2> QED
    BY <1>7, <2>1, Zenon DEF CountFold
<1>10. \A t \in SUBSET UefiTypes : IsFiniteSet(t) /\ Cardinality(t) \in Nat
  BY UefiTypesFinite, FS_Subset, FS_CardinalityType
<1> DEFINE Ind == {c \in Nat : \A t \in SUBSET UefiTypes : Cardinality(t) = c => g[t] = C(t)}
<1>11. 0 \in Ind
  BY <1>4, <1>9, <1>10, FS_EmptySet
<1>12. ASSUME NEW c \in Nat, c \in Ind PROVE c + 1 \in Ind
  <2> SUFFICES ASSUME NEW t \in SUBSET UefiTypes, Cardinality(t) = c + 1 PROVE g[t] = C(t)
    OBVIOUS
  <2>1. t # {}
    BY <1>10, FS_EmptySet
  <2> DEFINE x == pick(t)
             r == t \ {x}
  <2>2. x \in t /\ r \in SUBSET UefiTypes
    BY <1>5, <2>1
  <2>3. g[t] = g[r] + Len(OfTypes(s, {x}))
    BY <1>9, <2>1
  <2> HIDE DEF x
  <2>4. C(t) = C(r) + Len(OfTypes(s, {x}))
    BY <1>3, <2>2
  <2>5. Cardinality(r) = c
    <3>1. Cardinality(r) = Cardinality(t) - 1
      BY <1>10, <2>2, FS_RemoveElement
    <3> QED
      BY <3>1
  <2>6. g[r] = C(r)
    <3> HIDE DEF r
    <3> QED
      BY <1>12, <2>2, <2>5
  <2> QED
    BY <2>3, <2>4, <2>6
<1>13. \A c \in Nat : c \in Ind
  <2> HIDE DEF Ind
  <2> QED
    BY <1>11, <1>12, NatSetInduction
<1>14. g[UefiTypes] = C(UefiTypes)
  BY <1>10, <1>13
<1>15. C(UefiTypes) = Len(s)
  <2>1. At(s, UefiTypes) = 1 .. Len(s)
    <3>1. \A j \in 1 .. Len(s) : s[j] \in Descriptors
      OBVIOUS
    <3>2. \A j \in 1 .. Len(s) : s[j].ty \in UefiTypes
      BY <3>1, DescriptorType
    <3> QED
      BY <3>2 DEF At
  <2>2. Cardinality(1 .. Len(s)) = Len(s)
    <3> DEFINE n == Len(s)
    <3>1. n \in Nat /\ 1 \in Int /\ n \in Int
      OBVIOUS
    <3> HIDE DEF n
    <3>2. Cardinality(1 .. n) = IF 1 > n THEN 0 ELSE n - 1 + 1
      BY <3>1, FS_Interval
    <3> QED
      BY <3>1, <3>2 DEF n
  <2> QED
    BY <2>1, <2>2 DEF C
<1> QED
  BY <1>8, <1>14, <1>15

-----------------------------------------------------------------------------
\* The iterators and the statistics agree after every region, not only when
\* parse returns.
QueriesInv ==
    /\ Len(UsableRegions) = usableCount
    /\ Bytes(UsableRegions) = usable
    /\ Bytes(ReclaimableRegions) = TotalUsableAfterBoot

\* Bytes added to either of two saturating counters are added to their
\* saturating sum.
LEMMA SatAddShift ==
    ASSUME NEW u \in Word, NEW r \in Word, NEW x \in Word
    PROVE  /\ SatAdd(SatAdd(u, r), x) = SatAdd(SatAdd(u, x), r)
           /\ SatAdd(SatAdd(u, r), x) = SatAdd(u, SatAdd(r, x))
  BY WordAssumption DEF SatAdd, Word

LEMMA InitQueries == Init => QueriesInv
<1> SUFFICES ASSUME Init PROVE QueriesInv
  OBVIOUS
<1>1. regions = <<>> /\ usable = 0 /\ reclaimable = 0 /\ usableCount = 0
  BY DEF Init
<1>2. SatAdd(0, 0) = 0
  BY WordAssumption DEF SatAdd
<1>3. UsableRegions = <<>> /\ ReclaimableRegions = <<>> /\ Bytes(<<>>) = 0
  BY <1>1, QueryNone, Zenon DEF UsableRegions, ReclaimableRegions
<1>4. Len(<<>>) = 0
  OBVIOUS
<1> QED
  BY <1>1, <1>2, <1>3, <1>4, Zenon DEF QueriesInv, TotalUsableAfterBoot

LEMMA KeepQueries ==
    ASSUME IInv, QueriesInv, KeepDescriptor
    PROVE  QueriesInv'
<1> DEFINE d == Desc
           x == SizeBytes(d)
           U == {ty \in UefiTypes : KindFrom(ty) = "Usable"}
           R == {ty \in UefiTypes : IsReclaimableAfterBoot(KindFrom(ty))}
<1>1. d \in Descriptors /\ d.ty \in UefiTypes /\ regions' = Append(regions, d)
  <2>1. d \in Descriptors
    BY DEF IInv, TypeOK, KeepDescriptor, InLoop, KernelMemoryMaps, Desc
  <2>2. regions' = Append(regions, d)
    BY DEF KeepDescriptor
  <2> QED
    BY <2>1, <2>2, DescriptorType
<1>2. /\ regions \in Seq(Descriptors) /\ usable \in Word /\ reclaimable \in Word
      /\ usableCount \in Nat
  BY DEF IInv, TypeOK
<1>3. AddToStats(d)
  BY DEF KeepDescriptor
<1> HIDE DEF d
<1>4. x \in Word
  BY <1>1, SizeBytesWord
<1>5. /\ usable' = IF d.ty \in U THEN SatAdd(usable, x) ELSE usable
      /\ usableCount' = IF d.ty \in U THEN usableCount + 1 ELSE usableCount
      /\ reclaimable' = IF d.ty \in R /\ d.ty \notin U THEN SatAdd(reclaimable, x)
                        ELSE reclaimable
      /\ d.ty \in U => d.ty \in R
  <2>1. d.ty \in U <=> KindFrom(d.ty) \in UsableKinds
    BY <1>1 DEF UsableKinds
  <2>2. d.ty \in R /\ d.ty \notin U <=> KindFrom(d.ty) \in ReclaimKinds
    BY <1>1 DEF ReclaimKinds, IsReclaimableAfterBoot
  <2>3. d.ty \in U => d.ty \in R
    BY DEF IsReclaimableAfterBoot
  <2> HIDE DEF U, R
  <2> QED
    BY <1>3, <2>1, <2>2, <2>3, Zenon DEF AddToStats, x
<1> HIDE DEF x
<1> DEFINE a == OfTypes(regions, U)
           b == OfTypes(regions, R)
<1>6. Len(a) = usableCount /\ Bytes(a) = usable /\ Bytes(b) = SatAdd(usable, reclaimable)
  BY Zenon DEF QueriesInv, UsableRegions, ReclaimableRegions, TotalUsableAfterBoot
<1>7. /\ UsableRegions' = OfTypes(Append(regions, d), U)
      /\ ReclaimableRegions' = OfTypes(Append(regions, d), R)
      /\ TotalUsableAfterBoot' = SatAdd(usable', reclaimable')
  BY <1>1, Zenon DEF UsableRegions, ReclaimableRegions, TotalUsableAfterBoot
<1> HIDE DEF U, R
<1>8. /\ a \in Seq(Descriptors) /\ b \in Seq(Descriptors)
      /\ UsableRegions' = IF d.ty \in U THEN Append(a, d) ELSE a
      /\ ReclaimableRegions' = IF d.ty \in R THEN Append(b, d) ELSE b
  BY <1>1, <1>2, <1>7, QueryStep
<1> HIDE DEF a, b
<1>9. /\ Bytes(Append(a, d)) = SatAdd(Bytes(a), x)
      /\ Bytes(Append(b, d)) = SatAdd(Bytes(b), x)
      /\ Len(Append(a, d)) = Len(a) + 1
  BY <1>1, <1>8, QueryStep DEF x
<1>10. CASE d.ty \in U
  <2>1. /\ usable' = SatAdd(usable, x) /\ usableCount' = usableCount + 1
        /\ reclaimable' = reclaimable /\ UsableRegions' = Append(a, d)
        /\ ReclaimableRegions' = Append(b, d)
    BY <1>5, <1>8, <1>10
  <2>2. SatAdd(SatAdd(usable, reclaimable), x) = SatAdd(SatAdd(usable, x), reclaimable)
    BY <1>2, <1>4, SatAddShift
  <2>3. /\ Len(UsableRegions') = usableCount' /\ Bytes(UsableRegions') = usable'
        /\ Bytes(ReclaimableRegions') = TotalUsableAfterBoot'
    BY <1>6, <1>7, <1>9, <2>1, <2>2, Zenon
  <2> QED
    BY <2>3 DEF QueriesInv
<1>11. CASE d.ty \notin U /\ d.ty \in R
  <2>1. /\ usable' = usable /\ usableCount' = usableCount
        /\ reclaimable' = SatAdd(reclaimable, x) /\ UsableRegions' = a
        /\ ReclaimableRegions' = Append(b, d)
    BY <1>5, <1>8, <1>11
  <2>2. SatAdd(SatAdd(usable, reclaimable), x) = SatAdd(usable, SatAdd(reclaimable, x))
    BY <1>2, <1>4, SatAddShift
  <2>3. /\ Len(UsableRegions') = usableCount' /\ Bytes(UsableRegions') = usable'
        /\ Bytes(ReclaimableRegions') = TotalUsableAfterBoot'
    BY <1>6, <1>7, <1>9, <2>1, <2>2, Zenon
  <2> QED
    BY <2>3 DEF QueriesInv
<1>12. CASE d.ty \notin U /\ d.ty \notin R
  <2>1. /\ usable' = usable /\ usableCount' = usableCount
        /\ reclaimable' = reclaimable /\ UsableRegions' = a /\ ReclaimableRegions' = b
    BY <1>5, <1>8, <1>12
  <2>2. /\ Len(UsableRegions') = usableCount' /\ Bytes(UsableRegions') = usable'
        /\ Bytes(ReclaimableRegions') = TotalUsableAfterBoot'
    BY <1>6, <1>7, <2>1, Zenon
  <2> QED
    BY <2>2 DEF QueriesInv
<1> QED
  BY <1>10, <1>11, <1>12

\* No other step touches the regions or a counter.
LEMMA NextQueries == IInv /\ QueriesInv /\ [Next]_vars => QueriesInv'
<1> SUFFICES ASSUME IInv, QueriesInv, [Next]_vars PROVE QueriesInv'
  OBVIOUS
<1>1. CASE KeepDescriptor
  BY <1>1, KeepQueries
<1>2. CASE ~KeepDescriptor
  <2>1. UNCHANGED sums
    BY <1>2, Zenon DEF Next, Call, Step, SkipEmpty, RejectUnaligned, SizePanics, Finish,
                       Return, vars, sums
  <2>2. regions' = regions /\ usable' = usable /\ reclaimable' = reclaimable /\ usableCount' = usableCount
    BY <2>1 DEF sums
  <2>3. /\ UsableRegions' = UsableRegions /\ ReclaimableRegions' = ReclaimableRegions
        /\ TotalUsableAfterBoot' = TotalUsableAfterBoot
    BY <2>2, Zenon DEF UsableRegions, ReclaimableRegions, TotalUsableAfterBoot
  <2> QED
    BY <2>2, <2>3 DEF QueriesInv
<1> QED
  BY <1>1, <1>2

\* Whoever filters or adds up a parsed map (usable_regions, reclaimable_regions,
\* regions_of_type) finds what the cached statistics say, and each region in the
\* queries of its own type only: for every word size, capacity and source map.
THEOREM ParseQueriesAgree == Spec => []QueriesAgree
<1>1. IInv /\ QueriesInv => QueriesAgree
  <2> SUFFICES ASSUME IInv, QueriesInv PROVE QueriesAgree
    OBVIOUS
  <2> DEFINE U == {ty \in UefiTypes : KindFrom(ty) = "Usable"}
             R == {ty \in UefiTypes : IsReclaimableAfterBoot(KindFrom(ty))}
  <2>1. regions \in Seq(Descriptors) /\ DOMAIN regions = 1 .. Len(regions)
    BY DEF IInv, TypeOK
  <2>2. ASSUME NEW T, NEW j \in DOMAIN regions
        PROVE  Contains(OfTypes(regions, T), regions[j]) <=> regions[j].ty \in T
    <3>1. CASE regions[j].ty \in T
      BY <2>1, <3>1, QueryYields
    <3>2. ASSUME Contains(OfTypes(regions, T), regions[j]) PROVE regions[j].ty \in T
      <4>1. PICK k \in 1 .. Len(OfTypes(regions, T)) : OfTypes(regions, T)[k] = regions[j]
        BY <3>2, Zenon DEF Contains
      <4> QED
        BY <2>1, <4>1, QueryYields
    <3> QED
      BY <3>1, <3>2
  <2>3. ASSUME NEW j \in DOMAIN regions
        PROVE  LET d == regions[j]
               IN /\ Contains(RegionsOfType(d.ty), d)
                  /\ IsUsable(d) <=> Contains(ReclaimableRegions, d)
                  /\ IsImmediatelyUsable(KindFrom(d.ty)) <=> Contains(UsableRegions, d)
    <3> DEFINE d == regions[j]
    <3>1. d.ty \in UefiTypes
      <4>1. d \in Descriptors
        BY <2>1
      <4> QED
        BY <4>1, DescriptorType
    <3>2. Contains(RegionsOfType(d.ty), d)
      BY <2>2 DEF RegionsOfType
    <3>3. (Contains(ReclaimableRegions, d) <=> d.ty \in R) /\ (Contains(UsableRegions, d) <=> d.ty \in U)
      BY <2>2, Zenon DEF ReclaimableRegions, UsableRegions
    <3> HIDE DEF d
    <3>4. IsUsable(d) <=> d.ty \in R
      BY <3>1 DEF IsUsable, IsReclaimableAfterBoot, UefiTypes, KindFrom
    <3>5. IsImmediatelyUsable(KindFrom(d.ty)) <=> d.ty \in U
      BY <3>1 DEF IsImmediatelyUsable
    <3> HIDE DEF U, R
    <3> QED
      BY <3>2, <3>3, <3>4, <3>5, Zenon DEF d
  <2>4. Len(regions) = FoldSet(LAMBDA ty, n : n + Len(RegionsOfType(ty)), 0, UefiTypes)
    BY <2>1, TypesCount, Zenon DEF RegionsOfType
  <2> QED
    BY <2>3, <2>4, Zenon DEF QueriesAgree, QueriesInv
<1> QED
  BY <1>1, InitQueries, NextQueries, ParseIInv, PTL DEF Spec

=============================================================================
