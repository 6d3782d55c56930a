-------------------------- MODULE DescriptorTables --------------------------
(***************************************************************************)
(* gdt_init and idt_init (boot/src/main.rs; arch/x86_64/gdt.rs and idt.rs  *)
(* of the kernel hold the same code): the descriptors and gates as the     *)
(* bits the source writes, the instructions that load them, and what the   *)
(* CPU makes of those bits when it loads a selector or takes an exception  *)
(* (external).                                                             *)
(*                                                                         *)
(* A GDT descriptor is kept as its two dwords.  A handler address is cut   *)
(* into pieces of Piece values, two for the halves of its low dword and    *)
(* one of Piece * Piece for its high dword.                                *)
(***************************************************************************)
EXTENDS Integers, Sequences

CONSTANTS
    Piece,             \* 2^16
    StubAt,            \* the address of each stub, by the number it reports
    FirmwareSelectors  \* the code selectors the firmware's gates may name

StubNumbers == (0 .. 31) \cup {255}

ASSUME AddressAssumption ==
    /\ Piece \in Nat \ {0}
    /\ StubAt \in [StubNumbers -> 0 .. Piece * Piece * Piece * Piece - 1]
    /\ \A m, n \in StubNumbers : m # n => StubAt[m] # StubAt[n]
    /\ FirmwareSelectors \subseteq Nat

VARIABLES
    tpc,         \* the next instruction, "live" at the end, "fault" after a #GP
    gdtr, idtr,  \* whose table the register points to, "firmware" or "kernel"
    stored       \* the gates idt_init has stored: those below this vector

tvars == <<tpc, gdtr, idtr, stored>>

-----------------------------------------------------------------------------
(* The tables *)

NULL_DESCRIPTOR        == [hi |-> 0, lo |-> 0]
KERNEL_CODE_DESCRIPTOR == [hi |-> \h00AF9A00, lo |-> \h0000FFFF]
KERNEL_DATA_DESCRIPTOR == [hi |-> \h00CF9200, lo |-> \h0000FFFF]

KERNEL_CODE_SELECTOR == 8
KERNEL_DATA_SELECTOR == 16

Gdt == <<NULL_DESCRIPTOR, KERNEL_CODE_DESCRIPTOR, KERNEL_DATA_DESCRIPTOR>>

\* size_of::<Gdt>() - 1 and size_of::<Idt>() - 1.
GdtLimit == 8 * Len(Gdt) - 1
IdtLimit == 16 * 256 - 1

\* IdtEntry::missing(), and the gate IdtEntry::new(handler) builds.
MissingGate ==
    [offset_low |-> 0, selector |-> 0, ist |-> 0, type_attr |-> 0,
     offset_mid |-> 0, offset_high |-> 0]

\* Mutant: the middle piece taken from the wrong end of the low dword.
NewGateLowTwice(handler) ==
    [offset_low |-> handler % Piece, selector |-> 8, ist |-> 0,
     type_attr |-> \h8E, offset_mid |-> handler % Piece,
     offset_high |-> handler \div (Piece * Piece)]

NewGate(handler) ==
    [offset_low |-> handler % Piece, selector |-> 8, ist |-> 0,
     type_attr |-> \h8E, offset_mid |-> (handler \div Piece) % Piece,
     offset_high |-> (handler \div (Piece * Piece)) % (Piece * Piece)]

\* idt_init: __isr_0 .. __isr_31, then __isr_irq, which reports 255.
StubVector(v) == IF v < 32 THEN v ELSE 255

Idt(v) == IF v < stored THEN NewGate(StubAt[StubVector(v)]) ELSE MissingGate

-----------------------------------------------------------------------------
(* The CPU (external) *)

\* Bit n of a descriptor, 32 <= n.
Bit(d, n) == (d.hi \div 2^(n - 32)) % 2

Present(d) == Bit(d, 47) = 1 /\ Bit(d, 44) = 1          \* P, S
Ring0(d)   == Bit(d, 46) = 0 /\ Bit(d, 45) = 0          \* DPL
Code64(d)  == Bit(d, 43) = 1 /\ Bit(d, 53) = 1 /\ Bit(d, 54) = 0
Writable(d) == Bit(d, 43) = 0 /\ Bit(d, 41) = 1

\* A selector of the kernel's table: index, TI = 0, RPL = 0.
Names(selector) ==
    /\ selector % 8 = 0
    /\ selector # 0 /\ selector + 7 <= GdtLimit
Named(selector) == Gdt[selector \div 8 + 1]

LoadsAsCode(selector) ==
    /\ Names(selector)
    /\ LET d == Named(selector) IN Present(d) /\ Ring0(d) /\ Code64(d)
LoadsAsData(selector) ==
    /\ Names(selector)
    /\ LET d == Named(selector) IN Present(d) /\ Ring0(d) /\ Writable(d)

\* The gate of vector v is present, an interrupt gate and leads into 64-bit
\* ring 0 code on the current stack.
GateOpens(v) ==
    /\ 16 * v + 15 <= IdtLimit
    /\ Idt(v).type_attr \div 128 = 1 /\ Idt(v).type_attr % 32 = \hE
    /\ Idt(v).ist = 0
    /\ LoadsAsCode(Idt(v).selector)

GateTarget(v) ==
    Idt(v).offset_low + Piece * Idt(v).offset_mid
                      + Piece * Piece * Idt(v).offset_high

\* An exception with the kernel's IDT live arrives at a stub, and at which.
Caught(v) ==
    /\ idtr = "kernel" /\ GateOpens(v)
    /\ \E n \in StubNumbers : StubAt[n] = GateTarget(v)
StubReached(v) == CHOOSE n \in StubNumbers : StubAt[n] = GateTarget(v)

\* With the firmware's IDT it goes to the firmware, as long as the selector in
\* the firmware's gate still means 64-bit code.
GoesToFirmware(selector) ==
    idtr = "firmware" /\ (gdtr = "firmware" \/ LoadsAsCode(selector))

-----------------------------------------------------------------------------
TInit ==
    /\ tpc = "lgdt"
    /\ gdtr = "firmware" /\ idtr = "firmware"
    /\ stored = 0

Lgdt ==
    /\ tpc = "lgdt" /\ tpc' = "retfq"
    /\ gdtr' = "kernel"
    /\ UNCHANGED <<idtr, stored>>

\* push cs; push rip; retfq: the CPU takes the selector or raises #GP.
ReloadCs ==
    /\ tpc = "retfq"
    /\ tpc' = IF LoadsAsCode(KERNEL_CODE_SELECTOR) THEN "segments" ELSE "fault"
    /\ UNCHANGED <<gdtr, idtr, stored>>

\* mov into ds, es, fs, gs and ss.
ReloadSegments ==
    /\ tpc = "segments"
    /\ tpc' = IF LoadsAsData(KERNEL_DATA_SELECTOR) THEN "fill" ELSE "fault"
    /\ UNCHANGED <<gdtr, idtr, stored>>

\* IDT.0[i] = IdtEntry::new(..), vector by vector.
StoreGate ==
    /\ tpc = "fill"
    /\ stored' = stored + 1
    /\ tpc' = IF stored = 255 THEN "lidt" ELSE "fill"
    /\ UNCHANGED <<gdtr, idtr>>

Lidt ==
    /\ tpc = "lidt" /\ tpc' = "live"
    /\ idtr' = "kernel"
    /\ UNCHANGED <<gdtr, stored>>

TStep == Lgdt \/ ReloadCs \/ ReloadSegments \/ StoreGate \/ Lidt
=============================================================================
