----------------------- MODULE ParseRefinement_proofs -----------------------
(***************************************************************************)
(* MemoryMap::parse returns what ParseContract promises, for every word    *)
(* size, page size, capacity, build profile and map: the safety part of    *)
(* ImplementsContract.                                                     *)
(***************************************************************************)
EXTENDS ParseRefinement, MemoryMapParse_proofs, NaturalFacts, FiniteSetTheorems

\* The bytes of each descriptor.
Sized(e) == [j \in 1 .. Len(e) |-> SizeBytes(e[j])]

\* A sum of words as saturating additions compute it.
Cap(x) == IF x > MaxWord THEN MaxWord ELSE x

-----------------------------------------------------------------------------
(* A fold over a set of positions is a sum. *)

\* h adds up the bytes at every set of positions below A, taking an element
\* of the set at a time: the recursion of MapThenSumSet.
Folds(h, e, A) ==
    h = [s \in SUBSET A |->
            IF s = {} THEN 0
            ELSE SizeBytes(e[CHOOSE x \in s : TRUE]) + h[s \ {CHOOSE x \in s : TRUE}]]

LEMMA SizedType ==
    ASSUME NEW e \in Seq(Descriptors)
    PROVE  /\ Len(e) \in Nat /\ Sized(e) \in [1 .. Len(e) -> Nat]
           /\ \A j \in 1 .. Len(e) : /\ e[j] \in Descriptors /\ SizeBytes(e[j]) \in Word
                                     /\ SizeBytes(e[j]) \in Nat
                                     /\ Sized(e)[j] = SizeBytes(e[j])
<1>1. Len(e) \in Nat /\ \A j \in 1 .. Len(e) : e[j] \in Descriptors
  OBVIOUS
<1>2. \A d \in Descriptors : SizeBytes(d) \in Word
  BY SizeBytesWord
<1>3. \A x \in Word : x \in Nat
  BY WordAssumption DEF Word
<1>4. \A j \in 1 .. Len(e) : SizeBytes(e[j]) \in Word /\ SizeBytes(e[j]) \in Nat
  BY <1>1, <1>2, <1>3
<1> QED
  BY <1>1, <1>4 DEF Sized

LEMMA FoldIsSum ==
    ASSUME NEW e \in Seq(Descriptors), NEW A \in SUBSET (1 .. Len(e))
    PROVE  (CHOOSE h : Folds(h, e, A))[A] = SumOver(Sized(e), Len(e))[A]
<1> DEFINE n == Len(e)
           w == Sized(e)
           S == SumOver(w, n)
           pick(s) == CHOOSE x \in s : TRUE
           h0 == [s \in SUBSET A |-> S[s]]
<1>1. n \in Nat /\ w \in [1 .. n -> Nat] /\ \A j \in 1 .. n : w[j] = SizeBytes(e[j])
  BY SizedType
<1>2. IsSum(S, w, n)
  BY <1>1, SumExists
<1> HIDE DEF S, w, n
<1>3. /\ \A s \in SUBSET (1 .. n) : S[s] \in Nat
      /\ S[{}] = 0
      /\ \A s \in SUBSET (1 .. n) : \A x \in (1 .. n) \ s : S[s \cup {x}] = S[s] + w[x]
  BY <1>2 DEF IsSum
<1>4. A \in SUBSET (1 .. n)
  BY DEF n
<1>5. ASSUME NEW s \in SUBSET A, s # {}
      PROVE  /\ pick(s) \in s /\ pick(s) \in 1 .. n /\ s \ {pick(s)} \in SUBSET A
             /\ S[s] = SizeBytes(e[pick(s)]) + S[s \ {pick(s)}]
  <2>1. pick(s) \in s
    BY <1>5
  <2> DEFINE x == pick(s)
             r == s \ {x}
  <2> HIDE DEF x
  <2>2. x \in s
    BY <2>1 DEF x
  <2>3. r \in SUBSET (1 .. n) /\ r \in SUBSET A /\ x \in (1 .. n) \ r /\ r \cup {x} = s
    BY <1>4, <2>2
  <2> HIDE DEF r
  <2>4. S[s] = S[r] + w[x] /\ S[r] \in Nat /\ w[x] \in Nat /\ w[x] = SizeBytes(e[x])
    BY <1>1, <1>3, <2>3
  <2>5. S[s] = w[x] + S[r]
    BY <2>4
  <2> QED
    BY <2>2, <2>3, <2>4, <2>5 DEF x, r
<1>6. Folds(h0, e, A)
  <2>1. \A s \in SUBSET A :
           S[s] = IF s = {} THEN 0
                  ELSE SizeBytes(e[pick(s)]) + h0[s \ {pick(s)}]
    BY <1>3, <1>5
  <2> QED
    BY <2>1 DEF Folds
<1> DEFINE g == CHOOSE h : Folds(h, e, A)
<1>7. Folds(g, e, A)
  <2> HIDE DEF h0
  <2> QED
    BY <1>6, Zenon
<1> HIDE DEF g
<1>8. /\ g[{}] = 0
      /\ \A s \in SUBSET A : s # {} =>
            g[s] = SizeBytes(e[pick(s)]) + g[s \ {pick(s)}]
  BY <1>7 DEF Folds
<1> DEFINE Ind == {c \in Nat : \A s \in SUBSET A : Cardinality(s) = c => g[s] = S[s]}
<1>9. \A s \in SUBSET A : IsFiniteSet(s) /\ Cardinality(s) \in Nat
  <2>1. IsFiniteSet(1 .. n)
    BY <1>1, FS_Interval
  <2>2. \A s \in SUBSET A : s \in SUBSET (1 .. n)
    BY <1>4
  <2> QED
    BY <2>1, <2>2, FS_Subset, FS_CardinalityType
<1>10. 0 \in Ind
  BY <1>3, <1>8, <1>9, FS_EmptySet
<1>11. ASSUME NEW c \in Nat, c \in Ind PROVE c + 1 \in Ind
  <2> SUFFICES ASSUME NEW s \in SUBSET A, Cardinality(s) = c + 1 PROVE g[s] = S[s]
    OBVIOUS
  <2>1. s # {}
    BY <1>9, FS_EmptySet
  <2> DEFINE r == s \ {pick(s)}
  <2>2. pick(s) \in s /\ r \in SUBSET A /\ S[s] = SizeBytes(e[pick(s)]) + S[r]
    BY <1>5, <2>1
  <2>3. g[s] = SizeBytes(e[pick(s)]) + g[r]
    BY <1>8, <2>1
  <2>4. Cardinality(r) = c
    <3>1. Cardinality(r) = Cardinality(s) - 1
      BY <1>9, <2>2, FS_RemoveElement
    <3> QED
      BY <3>1
  <2>5. g[r] = S[r]
    <3> HIDE DEF r
    <3> QED
      BY <1>11, <2>2, <2>4
  <2> QED
    BY <2>2, <2>3, <2>5
<1>12. \A c \in Nat : c \in Ind
  <2> HIDE DEF Ind
  <2> QED
    BY <1>10, <1>11, NatSetInduction
<1>13. g[A] = S[A]
  BY <1>9, <1>12
<1> QED
  BY <1>13 DEF g, S, w, n

\* The bytes ParseContract promises of a kind are a capped sum.
LEMMA BytesAreSum ==
    ASSUME NEW e \in Seq(Descriptors), NEW K
    PROVE  Contract!BytesOfKinds(e, K) =
               Cap(SumOver(Sized(e), Len(e))[{j \in 1 .. Len(e) : KindFrom(e[j].ty) \in K}])
<1> DEFINE A == {j \in 1 .. Len(e) : KindFrom(e[j].ty) \in K}
<1>1. DOMAIN e = 1 .. Len(e)
  OBVIOUS
<1>2. \A ty : Contract!KindFrom(ty) = KindFrom(ty)
  BY Zenon DEF Contract!KindFrom, KindFrom
<1>3. {j \in DOMAIN e : Contract!KindFrom(e[j].ty) \in K} = A
  BY <1>1, <1>2, Zenon
<1>4. Contract!MapThenSumSet(LAMBDA j : Contract!Bytes(e[j]), A)
         = (CHOOSE h : Folds(h, e, A))[A]
  BY Zenon DEF Contract!MapThenSumSet, Contract!MapThenFoldSet, Folds, Contract!Bytes, SizeBytes
<1>5. (CHOOSE h : Folds(h, e, A))[A] = SumOver(Sized(e), Len(e))[A]
  <2>1. A \in SUBSET (1 .. Len(e))
    OBVIOUS
  <2> HIDE DEF A
  <2> QED
    BY <2>1, FoldIsSum
<1> QED
  BY <1>3, <1>4, <1>5, Zenon DEF Contract!BytesOfKinds, Contract!Saturated, Cap

-----------------------------------------------------------------------------
(* What the loop has computed when it has read the positions below m. *)

\* The non-empty descriptors of e below m, and those of the kinds K.
Kept(e, m) == {j \in 1 .. Len(e) : j < m /\ e[j].page_count # 0}
KeptUsable(e, m) == {j \in Kept(e, m) : KindFrom(e[j].ty) = "Usable"}
OfKinds(e, K, m) == {j \in 1 .. Len(e) : j < m /\ KindFrom(e[j].ty) \in K}

\* The bytes below m of the kinds K.
BytesBelow(e, K, m) == Cap(SumOver(Sized(e), Len(e))[OfKinds(e, K, m)])

\* Every sum starts at zero, grows with a descriptor of its kinds as the
\* saturating addition does, and with no other.
LEMMA BytesBelowStep ==
    ASSUME NEW e \in Seq(Descriptors), NEW K
    PROVE  /\ BytesBelow(e, K, 1) = 0
           /\ \A m \in 1 .. Len(e) :
                 BytesBelow(e, K, m + 1) =
                     IF KindFrom(e[m].ty) \in K
                     THEN SatAdd(BytesBelow(e, K, m), SizeBytes(e[m]))
                     ELSE BytesBelow(e, K, m)
<1> DEFINE n == Len(e)
           S == SumOver(Sized(e), n)
<1>1. n \in Nat /\ \A j \in 1 .. n : SizeBytes(e[j]) \in Nat /\ Sized(e)[j] = SizeBytes(e[j])
  BY SizedType
<1>2. IsSum(S, Sized(e), n)
  BY SizedType, SumExists
<1> HIDE DEF S
<1>3. /\ \A s \in SUBSET (1 .. n) : S[s] \in Nat
      /\ S[{}] = 0
      /\ \A s \in SUBSET (1 .. n) : \A x \in (1 .. n) \ s : S[s \cup {x}] = S[s] + SizeBytes(e[x])
  <2> DEFINE w == Sized(e)
  <2>1. IsSum(S, w, n) /\ \A x \in 1 .. n : w[x] = SizeBytes(e[x])
    BY <1>1, <1>2
  <2> HIDE DEF w, n
  <2>2. /\ \A s \in SUBSET (1 .. n) : S[s] \in Nat
        /\ S[{}] = 0
        /\ \A s \in SUBSET (1 .. n) : \A x \in (1 .. n) \ s : S[s \cup {x}] = S[s] + w[x]
    BY <2>1 DEF IsSum
  <2>3. \A s \in SUBSET (1 .. n) : \A x \in (1 .. n) \ s : w[x] = SizeBytes(e[x])
    BY <2>1, Zenon
  <2> QED
    BY <2>2, <2>3, Zenon
<1>4. BytesBelow(e, K, 1) = 0
  <2>1. OfKinds(e, K, 1) = {}
    BY DEF OfKinds
  <2>2. BytesBelow(e, K, 1) = Cap(S[{}])
    BY <2>1, Zenon DEF BytesBelow, S
  <2>3. Cap(0) = 0
    BY WordAssumption DEF Cap
  <2> QED
    BY <1>3, <2>2, <2>3
<1>5. ASSUME NEW m \in 1 .. n
      PROVE  BytesBelow(e, K, m + 1) =
                 IF KindFrom(e[m].ty) \in K
                 THEN SatAdd(BytesBelow(e, K, m), SizeBytes(e[m]))
                 ELSE BytesBelow(e, K, m)
  <2>1. CASE KindFrom(e[m].ty) \in K
    <3> DEFINE A == OfKinds(e, K, m)
    <3>1. A \in SUBSET (1 .. n) /\ m \notin A /\ OfKinds(e, K, m + 1) = A \cup {m}
      BY <1>1, <2>1 DEF OfKinds
    <3> HIDE DEF A
    <3>2. S[A \cup {m}] = S[A] + SizeBytes(e[m]) /\ S[A] \in Nat /\ SizeBytes(e[m]) \in Nat
      BY <1>1, <1>3, <3>1
    <3>3. Cap(S[A] + SizeBytes(e[m])) = SatAdd(Cap(S[A]), SizeBytes(e[m]))
      BY <3>2, WordAssumption DEF Cap, SatAdd
    <3>4. BytesBelow(e, K, m + 1) = Cap(S[A \cup {m}])
      BY <3>1 DEF BytesBelow, S
    <3>5. BytesBelow(e, K, m) = Cap(S[A])
      BY DEF BytesBelow, S, A
    <3> QED
      BY <2>1, <3>2, <3>3, <3>4, <3>5
  <2>2. CASE KindFrom(e[m].ty) \notin K
    <3>1. OfKinds(e, K, m + 1) = OfKinds(e, K, m)
      BY <1>1, <2>2 DEF OfKinds
    <3> QED
      BY <2>2, <3>1 DEF BytesBelow
  <2> QED
    BY <2>1, <2>2
<1> QED
  BY <1>4, <1>5

\* An empty descriptor has no bytes.
LEMMA EmptyAddsNothing ==
    ASSUME NEW e \in Seq(Descriptors), NEW K, NEW m \in 1 .. Len(e),
           e[m].page_count = 0
    PROVE  BytesBelow(e, K, m + 1) = BytesBelow(e, K, m)
<1>1. SizeBytes(e[m]) = 0
  BY WordAssumption DEF SizeBytes
<1>2. BytesBelow(e, K, m) \in Word
  <2>1. OfKinds(e, K, m) \in SUBSET (1 .. Len(e))
    BY DEF OfKinds
  <2>2. SumOver(Sized(e), Len(e))[OfKinds(e, K, m)] \in Nat
    BY <2>1, SizedType, SumType
  <2> QED
    BY <2>2, WordAssumption DEF BytesBelow, Cap, Word
<1>3. SatAdd(BytesBelow(e, K, m), 0) = BytesBelow(e, K, m)
  BY <1>2, WordAssumption DEF SatAdd, Word
<1>4. BytesBelow(e, K, m + 1) = IF KindFrom(e[m].ty) \in K
                                THEN SatAdd(BytesBelow(e, K, m), SizeBytes(e[m]))
                                ELSE BytesBelow(e, K, m)
  BY BytesBelowStep
<1> QED
  BY <1>1, <1>3, <1>4

\* The sets of kept positions are finite and grow with a non-empty descriptor.
LEMMA KeptStep ==
    ASSUME NEW e \in Seq(Descriptors)
    PROVE  /\ Kept(e, 1) = {} /\ KeptUsable(e, 1) = {}
           /\ \A m \in 1 .. Len(e) + 1 :
                 /\ IsFiniteSet(Kept(e, m)) /\ Cardinality(Kept(e, m)) \in Nat
                 /\ IsFiniteSet(KeptUsable(e, m)) /\ Cardinality(KeptUsable(e, m)) \in Nat
           /\ \A m \in 1 .. Len(e) :
                 /\ Cardinality(Kept(e, m + 1)) =
                        IF e[m].page_count # 0 THEN Cardinality(Kept(e, m)) + 1
                        ELSE Cardinality(Kept(e, m))
                 /\ Cardinality(KeptUsable(e, m + 1)) =
                        IF e[m].page_count # 0 /\ KindFrom(e[m].ty) = "Usable"
                        THEN Cardinality(KeptUsable(e, m)) + 1
                        ELSE Cardinality(KeptUsable(e, m))
<1>1. Len(e) \in Nat /\ IsFiniteSet(1 .. Len(e))
  BY FS_Interval
<1>2. Kept(e, 1) = {} /\ KeptUsable(e, 1) = {}
  BY DEF Kept, KeptUsable
<1>3. \A m : /\ IsFiniteSet(Kept(e, m)) /\ Cardinality(Kept(e, m)) \in Nat
             /\ IsFiniteSet(KeptUsable(e, m)) /\ Cardinality(KeptUsable(e, m)) \in Nat
  <2>1. \A m : Kept(e, m) \subseteq 1 .. Len(e) /\ KeptUsable(e, m) \subseteq 1 .. Len(e)
    BY DEF Kept, KeptUsable
  <2> QED
    BY <1>1, <2>1, FS_Subset, FS_CardinalityType
<1>4. ASSUME NEW m \in 1 .. Len(e)
      PROVE  /\ Cardinality(Kept(e, m + 1)) =
                    IF e[m].page_count # 0 THEN Cardinality(Kept(e, m)) + 1
                    ELSE Cardinality(Kept(e, m))
             /\ Cardinality(KeptUsable(e, m + 1)) =
                    IF e[m].page_count # 0 /\ KindFrom(e[m].ty) = "Usable"
                    THEN Cardinality(KeptUsable(e, m)) + 1
                    ELSE Cardinality(KeptUsable(e, m))
  <2>1. m \notin Kept(e, m) /\ m \notin KeptUsable(e, m)
    BY <1>1 DEF Kept, KeptUsable
  <2>2. Kept(e, m + 1) = IF e[m].page_count # 0 THEN Kept(e, m) \cup {m} ELSE Kept(e, m)
    BY <1>1 DEF Kept
  <2>3. KeptUsable(e, m + 1) =
           IF e[m].page_count # 0 /\ KindFrom(e[m].ty) = "Usable"
           THEN KeptUsable(e, m) \cup {m} ELSE KeptUsable(e, m)
    BY <2>2 DEF KeptUsable
  <2>4. /\ Cardinality(Kept(e, m) \cup {m}) = Cardinality(Kept(e, m)) + 1
        /\ Cardinality(KeptUsable(e, m) \cup {m}) = Cardinality(KeptUsable(e, m)) + 1
    BY <1>3, <2>1, FS_AddElement
  <2> QED
    BY <2>2, <2>3, <2>4
<1> QED
  BY <1>2, <1>3, <1>4

-----------------------------------------------------------------------------
(* The inductive invariant of the refinement. *)

\* No descriptor below m ends the parse.
NoStopBelow(e, m) ==
    \A j \in 1 .. Len(e) : j < m =>
        /\ e[j].page_count # 0 => Aligned(e[j])
        /\ checks => ~SizeOverflows(e[j])

\* The n-th kept descriptor is the n-th non-empty one.
InOrder(e, m) ==
    /\ Len(regions) = Cardinality(Kept(e, m))
    /\ \A j \in Kept(e, m) :
          /\ Cardinality(Kept(e, j)) + 1 \in 1 .. Len(regions)
          /\ regions[Cardinality(Kept(e, j)) + 1] = e[j]
    /\ \A n \in 1 .. Len(regions) :
          \E j \in Kept(e, m) : Cardinality(Kept(e, j)) = n - 1

\* The statistics are those of the descriptors below m.
Counted(e, m) ==
    /\ total = BytesBelow(e, Kinds \ NotRam, m)
    /\ usable = BytesBelow(e, UsableKinds, m)
    /\ reclaimable = BytesBelow(e, ReclaimKinds, m)
    /\ usableCount = Cardinality(KeptUsable(e, m))

RefInv ==
    /\ pc = "idle" => total = 0 /\ usable = 0 /\ reclaimable = 0 /\ usableCount = 0
    /\ NoStopBelow(source.entries, i)
    /\ InOrder(source.entries, i)
    /\ Counted(source.entries, i)

\* Before anything is read nothing is kept and nothing is counted.
LEMMA NothingRead ==
    ASSUME NEW e \in Seq(Descriptors), regions = <<>>,
           total = 0, usable = 0, reclaimable = 0, usableCount = 0
    PROVE  NoStopBelow(e, 1) /\ InOrder(e, 1) /\ Counted(e, 1)
<1>1. NoStopBelow(e, 1)
  BY DEF NoStopBelow
<1>2. Kept(e, 1) = {} /\ Cardinality(Kept(e, 1)) = 0 /\ Cardinality(KeptUsable(e, 1)) = 0
  BY KeptStep, FS_EmptySet
<1>3. InOrder(e, 1)
  BY <1>2 DEF InOrder
<1>4. Counted(e, 1)
  BY <1>2, BytesBelowStep DEF Counted
<1> QED
  BY <1>1, <1>3, <1>4

LEMMA InitRefInv == Init => RefInv
<1> SUFFICES ASSUME Init PROVE RefInv
  OBVIOUS
<1>1. /\ source.entries \in Seq(Descriptors) /\ i = 1 /\ regions = <<>>
      /\ total = 0 /\ usable = 0 /\ reclaimable = 0 /\ usableCount = 0
  BY DEF Init, NoMap
<1> QED
  BY <1>1, NothingRead DEF RefInv

LEMMA CallRefInv ==
    ASSUME IInv, RefInv, NEW s \in Sources, Call(s)
    PROVE  RefInv'
<1>1. /\ i = 1 /\ regions = <<>> /\ total = 0 /\ usable = 0 /\ reclaimable = 0
      /\ usableCount = 0 /\ pc' = "loop" /\ source' = s
      /\ UNCHANGED <<checks, i, regions, total, usable, reclaimable, usableCount>>
  BY DEF IInv, Phases, RefInv, Call, sums
<1>2. s.entries \in Seq(Descriptors)
  BY SourcesAssumption DEF KernelMemoryMaps
<1>3. NoStopBelow(s.entries, 1) /\ InOrder(s.entries, 1) /\ Counted(s.entries, 1)
  BY <1>1, <1>2, NothingRead
<1> QED
  BY <1>1, <1>3 DEF RefInv, NoStopBelow, InOrder, Counted

LEMMA SkipEmptyRefInv ==
    ASSUME IInv, RefInv, SkipEmpty
    PROVE  RefInv'
<1> DEFINE e == source.entries
<1>1. /\ e \in Seq(Descriptors) /\ Len(e) \in Nat /\ i \in 1 .. Len(e) /\ i' = i + 1
      /\ e[i].page_count = 0 /\ pc = "loop"
      /\ UNCHANGED <<checks, pc, source, regions, total, usable, reclaimable,
                     usableCount>>
  BY DEF IInv, TypeOK, KernelMemoryMaps, SkipEmpty, InLoop, Desc, sums
<1>2. NoStopBelow(e, i) /\ InOrder(e, i) /\ Counted(e, i)
  BY DEF RefInv
<1> HIDE DEF e
<1>3. NoStopBelow(e, i + 1)
  <2>1. ~SizeOverflows(e[i])
    BY <1>1, WordAssumption DEF SizeOverflows
  <2>2. \A j \in 1 .. Len(e) : j < i + 1 => j < i \/ j = i
    BY <1>1
  <2> QED
    BY <1>1, <1>2, <2>1, <2>2 DEF NoStopBelow
<1>4. Kept(e, i + 1) = Kept(e, i)
  BY <1>1 DEF Kept
<1>5. InOrder(e, i + 1)
  BY <1>2, <1>4 DEF InOrder
<1>6. KeptUsable(e, i + 1) = KeptUsable(e, i)
  BY <1>4 DEF KeptUsable
<1>7. \A K : BytesBelow(e, K, i + 1) = BytesBelow(e, K, i)
  BY <1>1, EmptyAddsNothing
<1>8. Counted(e, i + 1)
  BY <1>2, <1>6, <1>7 DEF Counted
<1> QED
  BY <1>1, <1>3, <1>5, <1>8 DEF RefInv, NoStopBelow, InOrder, Counted, e

\* KindFrom is total.
LEMMA KindType == \A ty : KindFrom(ty) \in Kinds
  BY DEF KindFrom, Kinds

LEMMA KeepRefInv ==
    ASSUME IInv, RefInv, KeepDescriptor
    PROVE  RefInv'
<1> DEFINE e == source.entries
           k == KindFrom(e[i].ty)
           z == SizeBytes(e[i])
<1>1. /\ e \in Seq(Descriptors) /\ Len(e) \in Nat /\ i \in 1 .. Len(e) /\ i' = i + 1
      /\ e[i].page_count # 0 /\ Aligned(e[i]) /\ (checks => ~SizeOverflows(e[i]))
      /\ pc = "loop" /\ UNCHANGED <<checks, pc, source>>
      /\ regions' = Append(regions, e[i])
  BY DEF IInv, TypeOK, KernelMemoryMaps, KeepDescriptor, InLoop, Desc
<1>2. NoStopBelow(e, i) /\ InOrder(e, i) /\ Counted(e, i)
  BY DEF RefInv
<1>3. /\ total' = IF k \in NotRam THEN total ELSE SatAdd(total, z)
      /\ usable' = IF k \in UsableKinds THEN SatAdd(usable, z) ELSE usable
      /\ usableCount' = IF k \in UsableKinds THEN usableCount + 1 ELSE usableCount
      /\ reclaimable' = IF k \in ReclaimKinds THEN SatAdd(reclaimable, z) ELSE reclaimable
  BY DEF KeepDescriptor, AddToStats, Desc
<1>4. /\ Len(regions) \in Nat /\ Len(regions') = Len(regions) + 1
      /\ \A n \in 1 .. Len(regions) : regions'[n] = regions[n]
      /\ regions'[Len(regions) + 1] = e[i]
  BY <1>1 DEF IInv, TypeOK
<1> HIDE DEF e
<1>5. NoStopBelow(e, i + 1)
  <2>1. \A j \in 1 .. Len(e) : j < i + 1 => j < i \/ j = i
    BY <1>1
  <2> QED
    BY <1>1, <1>2, <2>1 DEF NoStopBelow
<1>6. /\ total' = BytesBelow(e, Kinds \ NotRam, i + 1)
      /\ usable' = BytesBelow(e, UsableKinds, i + 1)
      /\ reclaimable' = BytesBelow(e, ReclaimKinds, i + 1)
  <2>1. \A K : BytesBelow(e, K, i + 1) = IF k \in K THEN SatAdd(BytesBelow(e, K, i), z)
                                        ELSE BytesBelow(e, K, i)
    <3>1. \A K : \A m \in 1 .. Len(e) :
             BytesBelow(e, K, m + 1) = IF KindFrom(e[m].ty) \in K
                                       THEN SatAdd(BytesBelow(e, K, m), SizeBytes(e[m]))
                                       ELSE BytesBelow(e, K, m)
      <4>1. e \in Seq(Descriptors)
        BY <1>1
      <4> QED
        BY <4>1, BytesBelowStep
    <3> QED
      BY <1>1, <3>1, Zenon
  <2>2. k \in Kinds \ NotRam <=> k \notin NotRam
    BY KindType
  <2> HIDE DEF k, z
  <2> QED
    BY <1>2, <1>3, <2>1, <2>2, Zenon DEF Counted
<1>7. usableCount' = Cardinality(KeptUsable(e, i + 1))
  <2>1. Cardinality(KeptUsable(e, i + 1)) = IF k = "Usable"
                                            THEN Cardinality(KeptUsable(e, i)) + 1
                                            ELSE Cardinality(KeptUsable(e, i))
    BY <1>1, KeptStep
  <2>2. k \in UsableKinds <=> k = "Usable"
    BY DEF UsableKinds
  <2> HIDE DEF k
  <2> QED
    BY <1>2, <1>3, <2>1, <2>2 DEF Counted
<1>8. /\ Len(regions') = Cardinality(Kept(e, i + 1))
      /\ \A j \in Kept(e, i + 1) :
            /\ Cardinality(Kept(e, j)) + 1 \in 1 .. Len(regions')
            /\ regions'[Cardinality(Kept(e, j)) + 1] = e[j]
      /\ \A n \in 1 .. Len(regions') :
            \E j \in Kept(e, i + 1) : Cardinality(Kept(e, j)) = n - 1
  <2> DEFINE rank(j) == Cardinality(Kept(e, j))
  <2>1. Kept(e, i + 1) = Kept(e, i) \cup {i}
    BY <1>1 DEF Kept
  <2>2. rank(i + 1) = rank(i) + 1
    BY <1>1, KeptStep
  <2>3. /\ Len(regions) = rank(i)
        /\ \A j \in Kept(e, i) :
              rank(j) + 1 \in 1 .. Len(regions) /\ regions[rank(j) + 1] = e[j]
        /\ \A n \in 1 .. Len(regions) : \E j \in Kept(e, i) : rank(j) = n - 1
    BY <1>2 DEF InOrder
  <2> HIDE DEF rank
  <2>4. Len(regions') = rank(i + 1)
    BY <1>4, <2>2, <2>3
  <2>5. ASSUME NEW j \in Kept(e, i + 1)
        PROVE  rank(j) + 1 \in 1 .. Len(regions') /\ regions'[rank(j) + 1] = e[j]
    <3>1. CASE j = i
      BY <3>1, <1>4, <2>3
    <3>2. CASE j \in Kept(e, i)
      BY <3>2, <1>4, <2>3
    <3> QED
      BY <2>1, <3>1, <3>2
  <2>6. ASSUME NEW n \in 1 .. Len(regions')
        PROVE  \E j \in Kept(e, i + 1) : rank(j) = n - 1
    <3>1. CASE n = Len(regions) + 1
      <4>1. rank(i) = n - 1
        BY <3>1, <1>4, <2>3
      <4> QED
        BY <4>1, <2>1
    <3>2. CASE n \in 1 .. Len(regions)
      BY <3>2, <2>1, <2>3
    <3> QED
      BY <1>4, <3>1, <3>2
  <2> QED
    BY <2>4, <2>5, <2>6 DEF rank
<1> QED
  BY <1>1, <1>5, <1>6, <1>7, <1>8 DEF RefInv, NoStopBelow, InOrder, Counted, e

\* The inductive step: a return leaves everything RefInv is about alone.
LEMMA NextRefInv == IInv /\ RefInv /\ [Next]_vars => RefInv'
<1> SUFFICES ASSUME IInv, RefInv, [Next]_vars
             PROVE  RefInv'
  OBVIOUS
<1>1. CASE \E s \in Sources : Call(s)
  BY <1>1, CallRefInv
<1>2. CASE SkipEmpty
  BY <1>2, SkipEmptyRefInv
<1>3. CASE KeepDescriptor
  BY <1>3, KeepRefInv
<1>4. CASE RejectUnaligned \/ SizePanics \/ Finish
  <2>1. /\ pc' = "done"
        /\ UNCHANGED <<checks, source, i, regions, total, usable, reclaimable, usableCount>>
    BY <1>4 DEF RejectUnaligned, SizePanics, Finish, Return, sums
  <2> QED
    BY <2>1 DEF RefInv, NoStopBelow, InOrder, Counted
<1>5. CASE UNCHANGED vars
  BY <1>5 DEF vars, RefInv, NoStopBelow, InOrder, Counted
<1> QED
  BY <1>1, <1>2, <1>3, <1>4, <1>5 DEF Next, Step

-----------------------------------------------------------------------------
(* What the contract promises, in the terms of the invariant. *)

LEMMA SameCardinality == \A S : Contract!Cardinality(S) = Cardinality(S)
  BY Zenon DEF Contract!Cardinality, Cardinality, Contract!IsFiniteSet, IsFiniteSet

LEMMA ContractSets ==
    ASSUME NEW e \in Seq(Descriptors)
    PROVE  /\ Contract!NonEmpty(e) = Kept(e, Len(e) + 1)
           /\ \A j \in 1 .. Len(e) : {m \in Contract!NonEmpty(e) : m < j} = Kept(e, j)
           /\ Contract!Unaligned(e) =
                  {j \in 1 .. Len(e) : e[j].page_count # 0 /\ ~Aligned(e[j])}
           /\ Contract!Overflowing(e) =
                  {j \in 1 .. Len(e) : checks /\ SizeOverflows(e[j])}
<1>1. DOMAIN e = 1 .. Len(e) /\ Len(e) \in Nat
  OBVIOUS
<1>2. Contract!NonEmpty(e) = {j \in 1 .. Len(e) : e[j].page_count # 0}
  BY <1>1 DEF Contract!NonEmpty
<1>3. Contract!NonEmpty(e) = Kept(e, Len(e) + 1)
  BY <1>1, <1>2 DEF Kept
<1>4. \A j \in 1 .. Len(e) : {m \in Contract!NonEmpty(e) : m < j} = Kept(e, j)
  BY <1>2 DEF Kept
<1>5. Contract!Unaligned(e) = {j \in 1 .. Len(e) : e[j].page_count # 0 /\ ~Aligned(e[j])}
  BY <1>1, Zenon DEF Contract!Unaligned, Aligned
<1>6. Contract!Overflowing(e) = {j \in 1 .. Len(e) : checks /\ SizeOverflows(e[j])}
  BY <1>1, Zenon DEF Contract!Overflowing, SizeOverflows
<1> QED
  BY <1>3, <1>4, <1>5, <1>6

\* The bytes of all descriptors of the kinds K.
LEMMA ContractBytes ==
    ASSUME NEW e \in Seq(Descriptors), NEW K
    PROVE  Contract!BytesOfKinds(e, K) = BytesBelow(e, K, Len(e) + 1)
<1>1. OfKinds(e, K, Len(e) + 1) = {j \in 1 .. Len(e) : KindFrom(e[j].ty) \in K}
  BY DEF OfKinds
<1> QED
  BY <1>1, BytesAreSum, Zenon DEF BytesBelow

\* The first position at which the contract stops is where the loop does.
LEMMA StopsHere ==
    ASSUME NEW e \in Seq(Descriptors), NEW m \in 1 .. Len(e), NoStopBelow(e, m),
           m \in Contract!Unaligned(e) \cup Contract!Overflowing(e)
    PROVE  Contract!Min(Contract!Unaligned(e) \cup Contract!Overflowing(e)) = m
<1> DEFINE stop == Contract!Unaligned(e) \cup Contract!Overflowing(e)
<1>1. stop \subseteq 1 .. Len(e) /\ Len(e) \in Nat
  BY ContractSets
<1>2. \A j \in stop : ~(j < m)
  BY ContractSets DEF NoStopBelow
<1>3. m \in stop
  OBVIOUS
<1> HIDE DEF stop
<1>4. \A y \in stop : m <= y
  BY <1>1, <1>2
<1>5. \A x \in stop : (\A y \in stop : x <= y) => x = m
  BY <1>1, <1>3, <1>4
<1>6. Contract!Min(stop) = m
  BY <1>3, <1>4, <1>5 DEF Contract!Min
<1> QED
  BY <1>6 DEF stop

\* At the end of the loop the kept descriptors are the promised regions.
LEMMA RegionsPromised ==
    ASSUME NEW e \in Seq(Descriptors), regions \in Seq(Descriptors),
           InOrder(e, Len(e) + 1)
    PROVE  regions = [n \in 1 .. Cardinality(Contract!NonEmpty(e)) |-> e[Contract!Nth(e, n)]]
<1> DEFINE all == Contract!NonEmpty(e)
           rank(j) == Cardinality(Kept(e, j))
<1>1. /\ Len(regions) = Cardinality(all)
      /\ \A j \in all : regions[rank(j) + 1] = e[j]
      /\ \A n \in 1 .. Len(regions) : \E j \in all : rank(j) = n - 1
  BY ContractSets DEF InOrder
<1>2. \A j \in all : j \in 1 .. Len(e) /\ {m \in all : m < j} = Kept(e, j) /\ rank(j) \in Nat
  <2>1. all \subseteq 1 .. Len(e)
    BY ContractSets DEF Kept
  <2>2. \A m \in 1 .. Len(e) + 1 : rank(m) \in Nat
    BY KeptStep
  <2> QED
    BY <2>1, <2>2, ContractSets
<1>3. ASSUME NEW n \in 1 .. Len(regions)
      PROVE  regions[n] = e[Contract!Nth(e, n)]
  <2> DEFINE c == Contract!Nth(e, n)
             at(j) == Contract!Cardinality({m \in all : m < j}) = n - 1
  <2>1. \E j \in all : at(j)
    BY <1>1, <1>2, SameCardinality
  <2>2. c = CHOOSE j \in all : at(j)
    BY Zenon DEF Contract!Nth
  <2>3. c \in all /\ at(c)
    <3> HIDE DEF c, at, all
    <3> QED
      BY <2>1, <2>2, Zenon
  <2>4. rank(c) = n - 1
    BY <1>2, <2>3, SameCardinality
  <2> HIDE DEF c, all, rank
  <2>5. rank(c) + 1 = n
    BY <2>4
  <2> QED
    BY <1>1, <2>3, <2>5 DEF c
<1>4. regions = [n \in 1 .. Len(regions) |-> regions[n]]
  OBVIOUS
<1> QED
  BY <1>1, <1>3, <1>4

\* At the end of the loop the caller gets the promised map.
LEMMA MapPromised ==
    ASSUME IInv, RefInv, i = Len(source.entries) + 1
    PROVE  Contract!Map(source) =
               [tag |-> "Ok", regions |-> regions, total |-> total,
                usable |-> usable, reclaimable |-> reclaimable,
                usableCount |-> usableCount, truncated |-> source.truncated]
<1> DEFINE e == source.entries
           m == Len(e) + 1
<1>1. e \in Seq(Descriptors) /\ regions \in Seq(Descriptors)
  BY DEF IInv, TypeOK, KernelMemoryMaps
<1>2. InOrder(e, m) /\ Counted(e, m)
  BY DEF RefInv
<1>3. [n \in 1 .. Contract!Cardinality(Contract!NonEmpty(e)) |-> e[Contract!Nth(e, n)]]
         = regions
  <2> HIDE DEF e
  <2>1. Contract!Cardinality(Contract!NonEmpty(e)) = Cardinality(Contract!NonEmpty(e))
    BY SameCardinality
  <2> QED
    BY <1>1, <1>2, <2>1, RegionsPromised
<1>4. /\ Contract!BytesOfKinds(e, Contract!Kinds \ Contract!NotRam) = total
      /\ Contract!BytesOfKinds(e, Contract!UsableKinds) = usable
      /\ Contract!BytesOfKinds(e, Contract!ReclaimKinds) = reclaimable
  <2>1. /\ Contract!Kinds = Kinds /\ Contract!NotRam = NotRam
        /\ Contract!UsableKinds = UsableKinds /\ Contract!ReclaimKinds = ReclaimKinds
    BY DEF Contract!Kinds, Kinds, Contract!NotRam, NotRam, Contract!UsableKinds,
           UsableKinds, Contract!ReclaimKinds, ReclaimKinds
  <2> HIDE DEF e
  <2>2. \A K : Contract!BytesOfKinds(e, K) = BytesBelow(e, K, m)
    BY <1>1, ContractBytes
  <2> QED
    BY <1>2, <2>1, <2>2, Zenon DEF Counted
<1>5. Contract!Cardinality({j \in Contract!NonEmpty(e) : Contract!KindFrom(e[j].ty) = "Usable"})
         = usableCount
  <2> HIDE DEF e
  <2>1. \A ty : Contract!KindFrom(ty) = KindFrom(ty)
    BY Zenon DEF Contract!KindFrom, KindFrom
  <2>2. Contract!NonEmpty(e) = Kept(e, m)
    BY <1>1, ContractSets
  <2>3. {j \in Contract!NonEmpty(e) : Contract!KindFrom(e[j].ty) = "Usable"} = KeptUsable(e, m)
    BY <2>1, <2>2, Zenon DEF KeptUsable
  <2> QED
    BY <1>2, <2>3, SameCardinality DEF Counted
<1> QED
  BY <1>3, <1>4, <1>5, Zenon DEF Contract!Map

-----------------------------------------------------------------------------
(* Every step of the loop is a step of the contract or none. *)

LEMMA FinishReturns ==
    ASSUME IInv, RefInv, Finish
    PROVE  Contract!Return
<1> DEFINE e == source.entries
           m == Len(e) + 1
<1>1. /\ e \in Seq(Descriptors) /\ regions \in Seq(Descriptors) /\ i = m /\ Len(e) \in Nat
  BY DEF IInv, TypeOK, KernelMemoryMaps, Finish
<1>2. /\ pc = "loop" /\ pc' = "done" /\ result' = IF regions = <<>> THEN Empty ELSE Ok
      /\ UNCHANGED <<checks, source, regions, total, usable, reclaimable, usableCount>>
  BY DEF Finish, Return, sums
<1>3. NoStopBelow(e, m) /\ InOrder(e, m)
  BY <1>1 DEF RefInv
<1>4. Contract!Unaligned(e) \cup Contract!Overflowing(e) = {}
  <2> HIDE DEF e
  <2>1. \A j \in 1 .. Len(e) : j < m
    BY <1>1
  <2> QED
    BY <1>1, <1>3, <2>1, ContractSets DEF NoStopBelow
<1>5. Contract!NonEmpty(e) = {} <=> regions = <<>>
  <2> HIDE DEF e
  <2>1. /\ Contract!NonEmpty(e) = Kept(e, m) /\ Len(regions) = Cardinality(Kept(e, m))
    BY <1>1, <1>3, ContractSets DEF InOrder
  <2>2. IsFiniteSet(Kept(e, m))
    BY <1>1, KeptStep
  <2>3. Cardinality(Kept(e, m)) = 0 <=> Kept(e, m) = {}
    BY <2>2, FS_EmptySet
  <2>4. Len(regions) = 0 <=> regions = <<>>
    BY <1>1
  <2> QED
    BY <2>1, <2>3, <2>4
<1>6. Contract!Promised(source) = IF regions = <<>> THEN [tag |-> "Empty"]
                                  ELSE Contract!Map(source)
  BY <1>4, <1>5, Zenon DEF Contract!Promised
<1>7. Outcome' = IF regions = <<>> THEN [tag |-> "Empty"]
                 ELSE [tag |-> "Ok", regions |-> regions, total |-> total,
                       usable |-> usable, reclaimable |-> reclaimable,
                       usableCount |-> usableCount, truncated |-> source.truncated]
  BY <1>2 DEF Outcome, Empty, Ok
<1>8. Outcome' = Contract!Promised(source)
  BY <1>1, <1>6, <1>7, MapPromised
<1> QED
  BY <1>2, <1>8 DEF Contract!Return, Contract!Running, Outcome

LEMMA StopReturns ==
    ASSUME IInv, RefInv, RejectUnaligned \/ SizePanics
    PROVE  Contract!Return
<1> DEFINE e == source.entries
           un == Contract!Unaligned(e)
           ov == Contract!Overflowing(e)
<1>1. /\ e \in Seq(Descriptors) /\ i \in 1 .. Len(e) /\ pc = "loop" /\ pc' = "done"
      /\ UNCHANGED <<checks, source>>
  BY DEF IInv, TypeOK, KernelMemoryMaps, RejectUnaligned, SizePanics, InLoop, Return
<1>2. NoStopBelow(e, i)
  BY DEF RefInv
<1>3. /\ i \in un <=> e[i].page_count # 0 /\ ~Aligned(e[i])
      /\ i \in ov <=> checks /\ SizeOverflows(e[i])
  <2> HIDE DEF e
  <2> QED
    BY <1>1, ContractSets
<1>4. i \in un \cup ov => Contract!Min(un \cup ov) = i
  <2> HIDE DEF e
  <2> QED
    BY <1>1, <1>2, StopsHere
<1>5. i \in un \cup ov =>
         Contract!Promised(source) =
             IF i \in un THEN [tag |-> "UnalignedBase", index |-> i - 1,
                              phys_start |-> e[i].phys_start]
             ELSE [tag |-> "Panic"]
  BY <1>4, Zenon DEF Contract!Promised
<1>6. CASE RejectUnaligned
  <2>1. i \in un /\ result' = [tag |-> "UnalignedBase", index |-> i - 1,
                               phys_start |-> e[i].phys_start]
    BY <1>3, <1>6 DEF RejectUnaligned, Return, Desc, UnalignedBase
  <2>2. Outcome' = result'
    BY <1>1, <2>1 DEF Outcome, Ok
  <2>3. Outcome' = Contract!Promised(source)
    BY <1>5, <2>1, <2>2
  <2> QED
    BY <1>1, <2>3 DEF Contract!Return, Contract!Running, Outcome
<1>7. CASE SizePanics
  <2>1. i \notin un /\ i \in ov /\ result' = [tag |-> "Panic"]
    BY <1>3, <1>7 DEF SizePanics, Return, Desc, Panic
  <2>2. Outcome' = result'
    BY <1>1, <2>1 DEF Outcome, Ok
  <2>3. Outcome' = Contract!Promised(source)
    BY <1>5, <2>1, <2>2
  <2> QED
    BY <1>1, <2>3 DEF Contract!Return, Contract!Running, Outcome
<1> QED
  BY <1>6, <1>7

LEMMA CallCalls ==
    ASSUME NEW s \in Sources, Call(s)
    PROVE  Contract!Call
<1>1. s \in Contract!AnyMap
  <2>1. KernelMemoryMaps = Contract!AnyMap
    BY Zenon DEF KernelMemoryMaps, Contract!AnyMap, Descriptors, Word, UefiTypes,
                 Contract!UefiTypes
  <2> QED
    BY <2>1, SourcesAssumption
<1>2. pc = "idle" /\ pc' = "loop" /\ source' = s /\ UNCHANGED checks
  BY DEF Call
<1> QED
  BY <1>1, <1>2 DEF Contract!Call, Contract!NotCalled, Contract!Running, Outcome

LEMMA InitContract == Init => Contract!Init
  BY DEF Init, Contract!Init, NoMap, Outcome, Contract!NotCalled

LEMMA NextContract == IInv /\ RefInv /\ [Next]_vars => [Contract!Next]_(Contract!pvars)
<1> SUFFICES ASSUME IInv, RefInv, [Next]_vars
             PROVE  Contract!Next \/ UNCHANGED Contract!pvars
  OBVIOUS
<1>1. CASE \E s \in Sources : Call(s)
  BY <1>1, CallCalls DEF Contract!Next
<1>2. CASE SkipEmpty \/ KeepDescriptor
  <2>1. pc = "loop" /\ UNCHANGED <<checks, pc, source>>
    BY <1>2 DEF SkipEmpty, KeepDescriptor, InLoop
  <2>2. UNCHANGED Outcome
    BY <2>1 DEF Outcome
  <2> QED
    BY <2>1, <2>2 DEF Contract!pvars
<1>3. CASE RejectUnaligned \/ SizePanics
  BY <1>3, StopReturns DEF Contract!Next
<1>4. CASE Finish
  BY <1>4, FinishReturns DEF Contract!Next
<1>5. CASE UNCHANGED vars
  BY <1>5 DEF vars, Contract!pvars, Outcome
<1> QED
  BY <1>1, <1>2, <1>3, <1>4, <1>5 DEF Next, Step

\* MemoryMap::parse implements its documentation, for every instance: a call
\* returns the error of the first descriptor that has one, or the map of the
\* non-empty descriptors in their order with statistics saturated once, at the
\* end.  This is ImplementsContract without its fairness.
THEOREM ParseRefinesContract == Spec => Contract!Init /\ [][Contract!Next]_(Contract!pvars)
<1>1. Init => IInv /\ RefInv /\ Contract!Init
  BY InitIInv, InitRefInv, InitContract
<1>2. IInv /\ RefInv /\ [Next]_vars => IInv' /\ RefInv' /\ [Contract!Next]_(Contract!pvars)
  BY NextIInv, NextRefInv, NextContract
<1> QED
  BY <1>1, <1>2, PTL DEF Spec
=============================================================================
