------------------------- MODULE KernelMemory_proofs -------------------------
(***************************************************************************)
(* Proofs about KernelMemory for every set of reader threads, every set of *)
(* maps, any number of calls of init, and either build profile.            *)
(***************************************************************************)
EXTENDS KernelMemory, TLAPS

\* Before publication nobody has the map; afterwards the slot is complete,
\* the store carried its last write, and init is not in the middle of a call.
Publication ==
    /\ FlagMeansReady
    /\ flag = "true" => view = ver
    /\ flag = "false" => \A t \in Threads : last[t] # "Some"
    /\ ipc = "return" => flag = "true"

\* A thread with a reference sees the last write.
Visibility ==
    /\ \A t \in Threads : seen[t] <= ver
    /\ \A t \in Threads : last[t] = "Some" => seen[t] = ver
    /\ ipc \in {"writing", "store", "return"} => seen[Boot] = ver

\* init stores what it parsed.
Writer ==
    /\ ipc \in {"write", "writing", "store"} => parsed \in Maps
    /\ ipc = "store" => slot = parsed

\* What has been read is what is in the slot.
ReadsSlot ==
    /\ reads \subseteq {slot}
    /\ flag = "false" => reads = {}

\* A call of init that finds the flag set is one the assertion stops.
Recalled == ipc = "assert" /\ flag = "true" => debug

IInv == TypeOK /\ Publication /\ Visibility /\ Writer /\ ReadsSlot /\ Recalled

USE DEF Threads

-----------------------------------------------------------------------------
LEMMA InitIInv == Init => IInv
  BY ThreadsAssumption, MaxInitsAssumption
     DEF Init, IInv, TypeOK, Publication, FlagMeansReady, Visibility, Writer,
         ReadsSlot, Recalled

\* The steps of init.
LEMMA InitStepIInv ==
    ASSUME IInv, CallInit \/ InitStep
    PROVE  IInv'
<1> USE ThreadsAssumption, TornAssumption, MaxInitsAssumption
    DEF IInv, TypeOK, Publication, FlagMeansReady, Visibility, Writer,
        ReadsSlot, Recalled, shared
<1>1. CASE CallInit
  BY <1>1 DEF CallInit, MayCallInit
<1>2. CASE AssertUninitialised
  <2>1. flag = "true" => ipc' = "panicked"
    BY <1>2 DEF AssertUninitialised
  <2> QED
    BY <1>2, <2>1 DEF AssertUninitialised
<1>3. CASE ParseFails
  BY <1>3 DEF ParseFails
<1>4. CASE ParseSucceeds
  BY <1>4 DEF ParseSucceeds
<1>5. CASE BeginWrite
  BY <1>5 DEF BeginWrite
<1>6. CASE EndWrite
  BY <1>6 DEF EndWrite
<1>7. CASE StoreInitialized
  BY <1>7 DEF StoreInitialized
<1>8. CASE ReturnRef
  BY <1>8 DEF ReturnRef
<1> QED
  BY <1>1, <1>2, <1>3, <1>4, <1>5, <1>6, <1>7, <1>8 DEF InitStep

\* The steps of get and of the users of its result.
LEMMA GetIInv ==
    ASSUME IInv, NEW t \in Threads, GetSome(t) \/ GetNone(t) \/ Deref(t)
    PROVE  IInv'
<1> USE DEF IInv, TypeOK, Publication, FlagMeansReady, Visibility, Writer,
            ReadsSlot, Recalled
<1>1. CASE GetSome(t)
  BY <1>1 DEF GetSome
<1>2. CASE GetNone(t)
  BY <1>2 DEF GetNone
<1>3. CASE Deref(t)
  BY <1>3 DEF Deref
<1> QED
  BY <1>1, <1>2, <1>3

LEMMA NextIInv == IInv /\ [Next]_vars => IInv'
<1> SUFFICES ASSUME IInv, [Next]_vars
             PROVE  IInv'
  OBVIOUS
<1>1. CASE CallInit \/ InitStep
  BY <1>1, InitStepIInv
<1>2. CASE \E t \in Threads : GetSome(t) \/ GetNone(t) \/ Deref(t)
  BY <1>2, GetIInv
<1>3. CASE UNCHANGED vars
  BY <1>3 DEF vars, IInv, TypeOK, Publication, FlagMeansReady, Visibility,
              Writer, ReadsSlot, Recalled
<1> QED
  BY <1>1, <1>2, <1>3 DEF Next

THEOREM KernelMemoryIInv == Spec => []IInv
<1>1. Init => IInv
  BY InitIInv
<1>2. IInv /\ [Next]_vars => IInv'
  BY NextIInv
<1> QED
  BY <1>1, <1>2, PTL DEF Spec

-----------------------------------------------------------------------------
\* Type correctness of the global memory map and its users.
THEOREM KernelMemoryTypeOK == Spec => []TypeOK
<1>1. IInv => TypeOK
  BY DEF IInv
<1> QED
  BY <1>1, KernelMemoryIInv, PTL

\* No reference ever shows uninitialised or half-written memory, whatever the
\* number of threads, of failed calls of init and of calls of get before it.
THEOREM KernelMemoryNeverTorn == Spec => []NeverTorn
<1>1. IInv => NeverTorn
  BY TornAssumption
     DEF IInv, TypeOK, Publication, FlagMeansReady, ReadsSlot, NeverTorn
<1> QED
  BY <1>1, KernelMemoryIInv, PTL

\* All references show the same map.
THEOREM KernelMemoryOneMap == Spec => []OneMap
<1>1. IInv => OneMap
  BY DEF IInv, ReadsSlot, OneMap
<1> QED
  BY <1>1, KernelMemoryIInv, PTL

\* INITIALIZED is set only over a complete map and outside init's write.
THEOREM KernelMemoryFlagMeansReady == Spec => []FlagMeansReady
<1>1. IInv => FlagMeansReady
  BY DEF IInv, Publication
<1> QED
  BY <1>1, KernelMemoryIInv, PTL

\* A thread that has the map is never told None.
THEOREM KernelMemorySomeIsFinal == Spec => SomeIsFinal
<1>1. IInv /\ [Next]_vars =>
         [\A t \in Threads : last[t] = "Some" => last'[t] = "Some"]_vars
  <2> SUFFICES ASSUME IInv, Next, NEW t \in Threads, last[t] = "Some"
               PROVE  last'[t] = "Some"
    BY DEF vars
  <2>1. flag = "true" /\ last \in [Threads -> {"nothing", "None", "Some"}]
    BY DEF IInv, TypeOK, Publication
  <2>2. CASE CallInit \/ InitStep
    BY <2>1, <2>2 DEF CallInit, InitStep, AssertUninitialised, ParseFails,
       ParseSucceeds, BeginWrite, EndWrite, StoreInitialized, ReturnRef, shared
  <2>3. ASSUME NEW u \in Threads, GetSome(u) \/ GetNone(u) \/ Deref(u)
        PROVE  last'[t] = "Some"
    BY <2>1, <2>3 DEF GetSome, GetNone, Deref
  <2> QED
    BY <2>2, <2>3 DEF Next
<1> QED
  BY <1>1, KernelMemoryIInv, PTL DEF Spec, SomeIsFinal
=============================================================================
