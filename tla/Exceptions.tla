----------------------------- MODULE Exceptions -----------------------------
(***************************************************************************)
(* CPU exceptions from gdt_init on (DescriptorTables): where the tables    *)
(* send them, the frame the CPU pushes, the isr_stub / isr_stub_ec         *)
(* assembly, __exception_common and exception_handler (boot/src/main.rs),  *)
(* one action per instruction or per paragraph of the report.  A further   *)
(* exception may arrive between any two of them (a fault of the handler,   *)
(* an NMI, a machine check): the interrupt gates only keep device          *)
(* interrupts out.                                                         *)
(*                                                                         *)
(* Machine words are tagged by what they mean; the stack is a sequence,    *)
(* its last element on top, and a pointer is a position in it.  The        *)
(* stack's end (KernelStack::top) is 16-byte aligned, so RSP is where the  *)
(* length is even.  The text of the report is left out, its values are     *)
(* kept.                                                                   *)
(***************************************************************************)
EXTENDS DescriptorTables, FiniteSets

CONSTANTS
    Vectors,   \* the vectors that may be raised
    Codes,     \* error codes
    Abis,      \* what extern "C" may mean on the build target
    StackWords,    \* KERNEL_STACK_SIZE, in words of eight bytes
    GuardWords,    \* KERNEL_STACK_GUARD_SIZE, likewise
    KernelWords,   \* the most kernel_main and its callees have in use of it
    HandlerWords,  \* the most exception_handler and its callees have in use
    MaxDepth   \* bound on the exceptions taken on top of one another

ASSUME VectorsAssumption == Vectors \subseteq 0 .. 255
ASSUME CodesAssumption == Codes \subseteq Nat /\ MaxDepth \in Nat
ASSUME ConventionAssumption == Abis \subseteq {"sysv64", "win64"}
ASSUME StackAssumption ==
    /\ StackWords \in Nat /\ GuardWords \in 0 .. StackWords
    /\ KernelWords \in Nat /\ HandlerWords \in Nat

\* Vectors for which the CPU pushes an error code (external).
PushesErrorCode == {8, 10, 11, 12, 13, 14, 17, 21, 29, 30}

\* Vectors with an isr_stub_ec, and the vectors of EC_MASK: two tables of the
\* source that have to agree with the CPU's.
StubEc == {8, 10, 11, 12, 13, 14, 17, 21, 29, 30}

\* Mutant: the mask stops at bit 29.
EcMaskShort == {8, 10, 11, 12, 13, 14, 17, 21, 29}

EcMask == {8, 10, 11, 12, 13, 14, 17, 21, 29, 30}

\* KERNEL_STACK_USABLE_SIZE: what lies above the soft guard region.
UsableWords == StackWords - GuardWords

Word(kind, n) == [kind |-> kind, n |-> n]
Zero == Word("number", 0)
Junk == Word("junk", 0)

VARIABLES
    abi,     \* what extern "C" means in this build
    epc,     \* the next instruction of the innermost activation
    stub,    \* the number of the stub it went through
    stk,     \* the stack
    reg,     \* RDI, RSI, RDX, RCX, R8
    args,    \* the parameters of the innermost exception_handler
    ifl,     \* RFLAGS.IF
    cr2,     \* CR2
    raised,  \* the exceptions taken so far: [vector, code, cr2]
    report   \* what the innermost exception_handler has printed

evars == <<abi, epc, stub, stk, reg, args, ifl, cr2, raised, report>>
vars  == <<tvars, evars>>

NoArgs   == [vector |-> Junk, code |-> Junk, frame |-> Junk]
NoReport == [vector |-> Junk, code |-> Junk, cr2 |-> Junk, frame |-> <<>>]

\* The locals and return addresses of at most n words of stack in use.
InUse(n) == {[w \in 1 .. m |-> Junk] : m \in 0 .. n}

\* kernel_main is on its own stack and about to call gdt_init.
Init ==
    /\ TInit
    /\ abi \in Abis
    /\ epc = "running"
    /\ stub = 0
    /\ stk \in InUse(KernelWords)
    /\ reg = [r \in {"rdi", "rsi", "rdx", "rcx", "r8"} |-> Junk]
    /\ args = NoArgs
    /\ ifl = FALSE
    /\ cr2 = Junk
    /\ raised = <<>>
    /\ report = NoReport

Depth == Len(raised)
Current == raised[Depth]

\* SS, RSP, RFLAGS, CS, RIP of the code interrupted by the n-th exception.
Frame(n) == <<Word("ss", n), Word("rsp", n), Word("rflags", n), Word("cs", n),
              Word("rip", n)>>

\* The five words a frame pointer shows.
At(p) == SubSeq(stk, p - 4, p)

-----------------------------------------------------------------------------
\* The CPU takes an exception (external): it aligns RSP, pushes the frame and
\* the error code and goes through the gate.  Device interrupts need
\* RFLAGS.IF; the gate clears it.
MayRaise(v) ==
    /\ epc \notin {"firmware", "reset"}
    /\ Depth < MaxDepth
    /\ v >= 32 => ifl

AlignedStack == IF Len(stk) % 2 = 0 THEN stk ELSE Append(stk, Junk)

Raise(v, c) ==
    /\ MayRaise(v)
    /\ Caught(v)
    /\ stub' = StubReached(v)
    /\ raised' = Append(raised, [vector |-> v, code |-> c, cr2 |-> Depth + 1])
    /\ stk' = AlignedStack \o Frame(Depth + 1)
                  \o (IF v \in PushesErrorCode THEN <<Word("number", c)>> ELSE <<>>)
    /\ cr2' = IF v = 14 THEN Word("address", Depth + 1) ELSE cr2
    /\ ifl' = FALSE
    /\ epc' = "mov_rdi"
    /\ report' = NoReport
    /\ UNCHANGED <<tvars, abi, reg, args>>

\* No stub is reached: the firmware's handler takes over, or nothing can and
\* the CPU resets the machine.
RaiseUncaught(v, c) ==
    /\ MayRaise(v)
    /\ ~Caught(v)
    /\ raised' = Append(raised, [vector |-> v, code |-> c, cr2 |-> Depth + 1])
    /\ \E selector \in FirmwareSelectors :
          epc' = IF GoesToFirmware(selector) THEN "firmware" ELSE "reset"
    /\ UNCHANGED <<tvars, abi, stub, stk, reg, args, ifl, cr2, report>>

\* gdt_init and idt_init go on.
SetUp ==
    /\ epc = "running"
    /\ TStep
    /\ UNCHANGED evars

\* Between and inside the two, kernel_main calls and returns: serial_write_*,
\* print_memory_map, halt.
KernelCalls ==
    /\ epc = "running"
    /\ stk' \in InUse(KernelWords)
    /\ UNCHANGED <<tvars, abi, epc, stub, reg, args, ifl, cr2, raised, report>>

Goto(from, to) ==
    /\ epc = from /\ epc' = to
    /\ UNCHANGED <<tvars, abi, stub, raised>>

\* mov rdi, v
MovRdi ==
    /\ Goto("mov_rdi", "rsi")
    /\ reg' = [reg EXCEPT !["rdi"] = Word("number", stub)]
    /\ UNCHANGED <<stk, args, ifl, cr2, report>>

\* Mutants: every vector has the plain stub; every vector has isr_stub_ec.
NoPop ==
    /\ Goto("rsi", "mov_rdx")
    /\ reg' = [reg EXCEPT !["rsi"] = Zero]
    /\ UNCHANGED <<stk, args, ifl, cr2, report>>
PopAlways ==
    /\ Goto("rsi", "mov_rdx")
    /\ reg' = [reg EXCEPT !["rsi"] = stk[Len(stk)]]
    /\ stk' = SubSeq(stk, 1, Len(stk) - 1)
    /\ UNCHANGED <<args, ifl, cr2, report>>

\* Mutant: the error code is read and left on the stack.
PeekErrorCode ==
    /\ Goto("rsi", "mov_rdx")
    /\ reg' = [reg EXCEPT !["rsi"] = IF stub \in StubEc THEN stk[Len(stk)] ELSE Zero]
    /\ UNCHANGED <<stk, args, ifl, cr2, report>>

\* pop rsi in isr_stub_ec, xor rsi, rsi in isr_stub and __isr_irq.
LoadRsi ==
    /\ Goto("rsi", "mov_rdx")
    /\ IF stub \in StubEc
       THEN /\ reg' = [reg EXCEPT !["rsi"] = stk[Len(stk)]]
            /\ stk' = SubSeq(stk, 1, Len(stk) - 1)
       ELSE /\ reg' = [reg EXCEPT !["rsi"] = Zero]
            /\ UNCHANGED stk
    /\ UNCHANGED <<args, ifl, cr2, report>>

\* Mutant: lea rdx, [rsp + 48], beyond the frame.
LeaBeyondFrame ==
    /\ Goto("mov_rdx", "cli")
    /\ reg' = [reg EXCEPT !["rdx"] = Word("pointer", Len(stk) - 6)]
    /\ UNCHANGED <<stk, args, ifl, cr2, report>>

\* mov rdx, rsp; jmp __exception_common
MovRdx ==
    /\ Goto("mov_rdx", "cli")
    /\ reg' = [reg EXCEPT !["rdx"] = Word("pointer", Len(stk))]
    /\ UNCHANGED <<stk, args, ifl, cr2, report>>

Cli ==
    /\ Goto("cli", "call")
    /\ ifl' = FALSE
    /\ UNCHANGED <<stk, reg, args, cr2, report>>

\* call exception_handler: the callee takes its parameters from the registers
\* its convention says, and as much of the stack as it and what it calls need.
CallHandler ==
    /\ Goto("call", "name")
    /\ \E locals \in InUse(HandlerWords) :
          stk' = Append(stk, Word("return", Depth)) \o locals
    /\ args' = IF abi = "sysv64"
               THEN [vector |-> reg["rdi"], code |-> reg["rsi"], frame |-> reg["rdx"]]
               ELSE [vector |-> reg["rcx"], code |-> reg["rdx"], frame |-> reg["r8"]]
    /\ UNCHANGED <<reg, ifl, cr2, report>>

\* The first line of the report.
PrintVector ==
    /\ Goto("name", "code")
    /\ report' = [report EXCEPT !.vector = args.vector]
    /\ UNCHANGED <<stk, reg, args, ifl, cr2>>

\* Whether the vector parameter is in S; of junk nothing is known.
VectorIn(S) ==
    IF args.vector.kind = "number" THEN {args.vector.n \in S} ELSE BOOLEAN

\* vector < 64 && (EC_MASK >> vector) & 1 == 1
PrintErrorCode ==
    /\ Goto("code", "cr2")
    /\ \E pushes \in VectorIn(EcMask) :
          report' = [report EXCEPT !.code = IF pushes THEN args.code ELSE @]
    /\ UNCHANGED <<stk, reg, args, ifl, cr2>>

\* vector == 14
PrintCr2 ==
    /\ Goto("cr2", "frame")
    /\ \E fault \in VectorIn({14}) :
          report' = [report EXCEPT !.cr2 = IF fault THEN cr2 ELSE @]
    /\ UNCHANGED <<stk, reg, args, ifl, cr2>>

\* RIP, RFLAGS and RSP through the frame pointer, unless it is null; through
\* junk they are junk (or the read faults: Raise).
PrintFrame ==
    /\ Goto("frame", "halt")
    /\ report' = [report EXCEPT !.frame =
                     IF args.frame.kind = "pointer" THEN At(args.frame.n) ELSE <<>>]
    /\ UNCHANGED <<stk, reg, args, ifl, cr2>>

\* Mutant: one hlt, then back to the interrupted code.
HltOnce ==
    /\ Goto("halt", "running")
    /\ UNCHANGED <<stk, reg, args, ifl, cr2, report>>

\* The loop around hlt: only another exception leaves it.
Halt ==
    /\ Goto("halt", "halted")
    /\ UNCHANGED <<stk, reg, args, ifl, cr2, report>>

Step ==
    \/ MovRdi \/ LoadRsi \/ MovRdx \/ Cli \/ CallHandler
    \/ PrintVector \/ PrintErrorCode \/ PrintCr2 \/ PrintFrame \/ Halt

Next ==
    \/ SetUp \/ KernelCalls \/ Step
    \/ \E v \in Vectors, c \in Codes : Raise(v, c) \/ RaiseUncaught(v, c)

Spec == Init /\ [][Next]_vars

\* The CPU executes its instructions.
FairSpec == Spec /\ WF_vars(SetUp) /\ WF_vars(Step)

-----------------------------------------------------------------------------
Points == {"running", "mov_rdi", "rsi", "mov_rdx", "cli", "call", "name", "code",
           "cr2", "frame", "halt", "halted", "firmware", "reset"}
Words == [kind: {"number", "junk", "pointer", "return", "address", "ss", "rsp",
                 "rflags", "cs", "rip"}, n: Nat]

\* Type correctness.
TypeOK ==
    /\ abi \in Abis
    /\ epc \in Points /\ stub \in StubNumbers
    /\ tpc \in {"lgdt", "retfq", "segments", "fill", "lidt", "live", "fault"}
    /\ gdtr \in {"firmware", "kernel"} /\ idtr \in {"firmware", "kernel"}
    /\ stored \in 0 .. 256
    /\ stk \in Seq(Words)
    /\ reg \in [{"rdi", "rsi", "rdx", "rcx", "r8"} -> Words]
    /\ args \in [vector: Words, code: Words, frame: Words]
    /\ ifl \in BOOLEAN
    /\ cr2 \in Words
    /\ raised \in Seq([vector: 0 .. 255, code: Nat, cr2: Nat])
    /\ report.vector \in Words /\ report.code \in Words /\ report.cr2 \in Words
    /\ report.frame \in Seq(Words)

\* Whatever vector fired and whatever it interrupted, the stubs call
\* exception_handler with the vector in RDI, the pushed error code (or zero)
\* in RSI and in RDX the frame of this exception and of no other.
StubsDeliver ==
    epc = "call" =>
        /\ reg["rdi"] = Word("number", StubVector(Current.vector))
        /\ reg["rsi"] = Word("number", IF Current.vector \in PushesErrorCode
                                       THEN Current.code ELSE 0)
        /\ reg["rdx"].kind = "pointer"
        /\ At(reg["rdx"].n) = Frame(Depth)

\* The tables do what they are for.  The selectors gdt_init loads are taken;
\* whatever the exception and whenever it comes, it is lost only before lidt
\* and the machine resets only between lgdt and lidt; and once the IDT is
\* live each of the 256 gates, put together from its pieces, leads to the
\* stub meant for its vector.
TablesCatch ==
    /\ tpc # "fault"
    /\ epc \in {"firmware", "reset"} => idtr = "firmware"
    /\ epc = "reset" => gdtr = "kernel"
    /\ tpc = "live" /\ epc = "running" =>
          \A v \in 0 .. 255 : Caught(v) /\ StubReached(v) = StubVector(v)

\* The frames of all exceptions under way stay on the stack unharmed: no
\* stub pops a word of an earlier frame or of its own.
FramesIntact ==
    idtr = "kernel" => \A n \in 1 .. Depth :
        Cardinality({p \in 5 .. Len(stk) : At(p) = Frame(n)}) = 1

\* With the convention the handler's comment names, a finished report is about
\* the exception that was taken: its vector, its error code when and only when
\* the CPU pushed one, the address of this page fault although CR2 may have
\* been overwritten meanwhile, and the interrupted RIP and RSP.
ReportTruthful ==
    abi = "sysv64" /\ epc \in {"halt", "halted"} =>
        /\ report.vector = Word("number", StubVector(Current.vector))
        /\ report.code = IF Current.vector \in PushesErrorCode
                         THEN Word("number", Current.code) ELSE Junk
        /\ report.cr2 = IF Current.vector = 14 THEN Word("address", Current.cr2)
                        ELSE Junk
        /\ report.frame = Frame(Depth)

\* "Called from assembly via the SysV AMD64 convention: RDI, RSI, RDX" (the
\* comment on exception_handler): its parameters are what the stubs loaded.
HandlerGetsStubArgs ==
    epc = "name" => args = [vector |-> reg["rdi"], code |-> reg["rsi"],
                            frame |-> reg["rdx"]]

\* The convention that comment names wants RSP 16-byte aligned where a
\* function is called; so does the Microsoft one.
StackAlignedAtCall == epc = "call" => Len(stk) % 2 = 0

\* The soft guard region of the kernel stack is reached by no more exceptions
\* on top of one another than the stack above it has room for: whatever
\* kernel_main and its callees have in use when the first one comes, each one
\* takes at most a word of padding, the frame, the error code or the return
\* address, and what the handler uses.
GuardUntouched ==
    KernelWords + Depth * (7 + HandlerWords) <= UsableWords
        => Len(stk) <= UsableWords

\* Every exception ends in a halted machine, unless exceptions never cease or
\* the kernel's IDT was not live yet.
ExceptionHalts ==
    (epc # "running") ~> (epc \in {"halted", "firmware", "reset"})
=============================================================================
