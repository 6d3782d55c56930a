---------------------------- MODULE KernelMemory ----------------------------
(***************************************************************************)
(* kernel/src/memory/mod.rs: the global memory map, written by init and    *)
(* borrowed by get.  MEMORY_MAP is plain memory; INITIALIZED is an atomic  *)
(* flag stored with Release and loaded with Acquire.                       *)
(*                                                                         *)
(* Memory is modelled by views: ver counts the writes to MEMORY_MAP,       *)
(* seen[t] the writes thread t is guaranteed to see.  The Release store    *)
(* carries the writer's view, an Acquire load that reads it joins that     *)
(* view; until a thread has read TRUE once it may still read the old FALSE *)
(* (on the thread that stored it, never).  Reading MEMORY_MAP without      *)
(* seeing its last write, or during it, is a data race: Torn.              *)
(***************************************************************************)
EXTENDS Integers, FiniteSets

CONSTANTS
    Boot,             \* the thread that calls init
    Readers,          \* the other threads that call get
    Maps,             \* what MemoryMap::parse may return in Ok(..)
    Torn,             \* uninitialised or half-written bytes
    MaxInits          \* bound on the calls of init

Threads == Readers \cup {Boot}

ASSUME ThreadsAssumption == Boot \notin Readers
ASSUME TornAssumption == Torn \notin Maps
ASSUME MaxInitsAssumption == MaxInits \in Nat

VARIABLES
    debug,     \* cfg!(debug_assertions): TRUE in the dev profile
    ipc,       \* where init is, "idle" outside it
    inits,     \* calls of init so far
    parsed,    \* the local `map` of init
    slot,      \* the bytes of MEMORY_MAP
    ver,       \* writes begun on MEMORY_MAP
    flag,      \* INITIALIZED, its latest value: "false" or "true"
    view,      \* the view the Release store carried
    seen,      \* seen[t]: the writes to MEMORY_MAP thread t must see
    last,      \* last[t]: what t last got from get or init: "nothing", None, Some
    reads      \* everything any thread has read through a reference

vars == <<debug, ipc, inits, parsed, slot, ver, flag, view, seen, last, reads>>
shared == <<slot, ver, flag, view, seen, last, reads>>

Init ==
    /\ debug \in BOOLEAN
    /\ ipc = "idle" /\ inits = 0
    /\ parsed = Torn
    /\ slot = Torn /\ ver = 0
    /\ flag = "false" /\ view = 0
    /\ seen = [t \in Threads |-> 0]
    /\ last = [t \in Threads |-> "nothing"] /\ reads = {}

-----------------------------------------------------------------------------
\* init's contract is "exactly once".  A caller that retries after an error
\* stays within what init checks; one that calls again after success is only
\* stopped by the debug assertion, so it is modelled in the dev profile only.
MayCallInit == debug \/ flag = "false"

CallInit ==
    /\ debug \in BOOLEAN
    /\ ipc = "idle"
    /\ MayCallInit
    /\ inits < MaxInits
    /\ inits' = inits + 1
    /\ ipc' = "assert"
    /\ UNCHANGED <<debug, parsed, shared>>

\* Mutant: no assertion.
AssertionDropped ==
    /\ ipc = "assert"
    /\ ipc' = "parse"
    /\ UNCHANGED <<debug, inits, parsed, shared>>

\* debug_assert!(!INITIALIZED.load(Relaxed), ..); the load is on the thread
\* that would have stored it.
AssertUninitialised ==
    /\ ipc = "assert"
    /\ ipc' = IF debug /\ flag = "true" THEN "panicked" ELSE "parse"
    /\ UNCHANGED <<debug, inits, parsed, shared>>

\* MemoryMap::parse(source)?
ParseFails ==
    /\ ipc = "parse"
    /\ ipc' = "idle"
    /\ UNCHANGED <<debug, inits, parsed, shared>>

ParseSucceeds ==
    /\ ipc = "parse"
    /\ parsed' \in Maps
    /\ ipc' = "write"
    /\ UNCHANGED <<debug, inits, shared>>

\* Mutant: the flag is stored before the map is written.
StoreBeforeWrite ==
    /\ ipc = "write"
    /\ ipc' = "writing"
    /\ slot' = Torn
    /\ ver' = ver + 1
    /\ seen' = [seen EXCEPT ![Boot] = ver + 1]
    /\ flag' = "true"
    /\ view' = seen[Boot]
    /\ UNCHANGED <<debug, inits, parsed, last, reads>>

\* MEMORY_MAP.write(map): a copy of some 10 KiB, not atomic.
BeginWrite ==
    /\ ipc = "write"
    /\ ipc' = "writing"
    /\ slot' = Torn
    /\ ver' = ver + 1
    /\ seen' = [seen EXCEPT ![Boot] = ver + 1]
    /\ UNCHANGED <<debug, inits, parsed, flag, view, last, reads>>

EndWrite ==
    /\ ipc = "writing"
    /\ ipc' = "store"
    /\ slot' = parsed
    /\ UNCHANGED <<debug, inits, parsed, ver, flag, view, seen, last, reads>>

\* Mutants: a Relaxed store, which carries no view; no store at all.
StoreRelaxed ==
    /\ ipc = "store"
    /\ ipc' = "return"
    /\ flag' = "true"
    /\ UNCHANGED <<debug, inits, parsed, slot, ver, view, seen, last, reads>>
StoreForgotten ==
    /\ ipc = "store"
    /\ ipc' = "return"
    /\ UNCHANGED <<debug, inits, parsed, shared>>

\* INITIALIZED.store(true, Release)
StoreInitialized ==
    /\ ipc = "store"
    /\ ipc' = "return"
    /\ flag' = "true"
    /\ view' = seen[Boot]
    /\ UNCHANGED <<debug, inits, parsed, slot, ver, seen, last, reads>>

\* Ok(MEMORY_MAP.assume_init_ref())
ReturnRef ==
    /\ ipc = "return"
    /\ ipc' = "idle"
    /\ last' = [last EXCEPT ![Boot] = "Some"]
    /\ UNCHANGED <<debug, inits, parsed, slot, ver, flag, view, seen, reads>>

-----------------------------------------------------------------------------
\* The Boot thread runs get only outside init.
CanRun(t) == t = Boot => ipc = "idle"

\* get: the load reads true, joins the view that came with it, Some(&map).
GetSome(t) ==
    /\ CanRun(t)
    /\ flag = "true"
    /\ seen' = [seen EXCEPT ![t] = IF view > @ THEN view ELSE @]
    /\ last' = [last EXCEPT ![t] = "Some"]
    /\ UNCHANGED <<debug, ipc, inits, parsed, slot, ver, flag, view, reads>>

\* get: the load reads false, the latest value or one the thread may still
\* see, not having read or stored a later one: None.
GetNone(t) ==
    /\ CanRun(t)
    /\ flag = "false" \/ (t # Boot /\ last[t] # "Some")
    /\ last' = [last EXCEPT ![t] = "None"]
    /\ UNCHANGED <<debug, ipc, inits, parsed, slot, ver, flag, view, seen, reads>>

\* A use of the reference.
Deref(t) ==
    /\ CanRun(t)
    /\ last[t] = "Some"
    /\ reads' = reads \cup {IF seen[t] = ver THEN slot ELSE Torn}
    /\ UNCHANGED <<debug, ipc, inits, parsed, slot, ver, flag, view, seen, last>>

-----------------------------------------------------------------------------
InitStep ==
    \/ AssertUninitialised \/ ParseFails \/ ParseSucceeds
    \/ BeginWrite \/ EndWrite \/ StoreInitialized \/ ReturnRef

Next ==
    \/ CallInit \/ InitStep
    \/ \E t \in Threads : GetSome(t) \/ GetNone(t) \/ Deref(t)

Spec == Init /\ [][Next]_vars

\* init runs to its end once called, and a thread that keeps calling get
\* eventually reads the newest flag: a store becomes visible.
FairSpec ==
    /\ Spec
    /\ WF_vars(InitStep)
    /\ \A t \in Threads : WF_vars(GetSome(t))

-----------------------------------------------------------------------------
\* Type correctness.
TypeOK ==
    /\ debug \in BOOLEAN
    /\ ipc \in {"idle", "assert", "parse", "write", "writing", "store",
                "return", "panicked"}
    /\ inits \in 0 .. MaxInits
    /\ parsed \in Maps \cup {Torn} /\ slot \in Maps \cup {Torn}
    /\ ver \in Nat /\ view \in Nat
    /\ flag \in {"false", "true"}
    /\ seen \in [Threads -> Nat]
    /\ last \in [Threads -> {"nothing", "None", "Some"}]
    /\ reads \subseteq Maps \cup {Torn}

\* A reference returned by get or init never shows uninitialised or
\* half-written memory, on any thread and after any failed call of init.
NeverTorn == Torn \notin reads

\* All references there ever are show one and the same map: it is immutable
\* once it can be borrowed.
OneMap == \A a, b \in reads : a = b

\* A thread that has been given the map, by init or by get, is never told None
\* afterwards.
SomeIsFinal ==
    [][\A t \in Threads : last[t] = "Some" => last'[t] = "Some"]_vars

\* INITIALIZED stands for what is in the slot: a complete map, and no writer
\* between the check and the store.
FlagMeansReady ==
    flag = "true" => slot \in Maps /\ ipc \in {"return", "idle", "assert", "panicked"}

\* "After a successful init call this function always returns Some": on every
\* thread that keeps asking, in the end.
EventuallySome == \A t \in Threads : (ipc = "return") ~> (last[t] = "Some")
=============================================================================
