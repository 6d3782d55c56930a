------------------------------- MODULE Serial -------------------------------
(***************************************************************************)
(* The polled transmit path to COM1: serial_init, serial_write_byte and    *)
(* serial_write_str of boot/src/main.rs, and SerialPort::init, write_byte  *)
(* and write_str of kernel/src/drivers/serial.rs, which differ only in the *)
(* translation of line feeds; with the 16550 UART they drive (external).   *)
(*                                                                         *)
(* Once the kernel is up, exception_handler or the panic handler may start *)
(* to write at any point of a write in progress, which is never resumed.   *)
(***************************************************************************)
EXTENDS Integers, Sequences, FiniteSets

CONSTANTS
    Messages,      \* the strings written, as sequences of bytes
    FifoDepth,     \* the transmit FIFO's capacity, 16
    MaxWrites,     \* bound on the calls of write_str
    MaxTakeovers   \* bound on the exceptions and panics

CR == 13
LF == 10
Garbled == -1      \* a byte sent with the line not set up as 115200 8N1
Firmware == -2     \* a byte the firmware left in the FIFO
Byte == 0 .. 255

ASSUME SerialAssumption ==
    /\ FifoDepth \in Nat \ {0} /\ MaxWrites \in Nat /\ MaxTakeovers \in Nat
    /\ Messages \subseteq Seq(Byte)

VARIABLES
    translate,      \* TRUE: SerialPort::write_str; FALSE: serial_write_str
    spc,            \* "init", "idle", "next", "poll" or "data";
                    \* SerialNumbers adds "digits" and "panic"
    step,           \* the register write init does next
    msg,            \* the bytes of the current string not yet taken up
    out,            \* the bytes to write for the one taken up last
    writes, takeovers,
    dll, dlm, ier, lcr, mcr, fifo,   \* the UART's registers and transmit FIFO
    wrote,          \* the bytes write_byte has put out
    line            \* what has gone over the wire since init

svars == <<translate, spc, step, msg, out, writes, takeovers, dll, dlm, ier, lcr,
           mcr, fifo, wrote, line>>
uart  == <<dll, dlm, ier, lcr, mcr, fifo>>

Init ==
    /\ translate \in BOOLEAN
    /\ spc = "init" /\ step = 1
    /\ msg = <<>> /\ out = <<>> /\ writes = 0 /\ takeovers = 0
    /\ dll \in {1, 12} /\ dlm = 0 /\ ier \in {0, 15} /\ lcr = 3 /\ mcr = 0
    /\ fifo \in {<<>>, <<Firmware>>}
    /\ wrote = <<>> /\ line = <<>>

-----------------------------------------------------------------------------
(* The UART (external) *)

Dlab == lcr >= 128
Thre == fifo = <<>>
LineIsSetUp == dll = 1 /\ dlm = 0 /\ lcr = 3

\* A write to the register at an offset: the divisor latch hides two of them,
\* a byte that finds the FIFO full is lost, FCR clears the FIFO.
Outb(offset, value) ==
    /\ dll' = IF offset = 0 /\ Dlab THEN value ELSE dll
    /\ dlm' = IF offset = 1 /\ Dlab THEN value ELSE dlm
    /\ ier' = IF offset = 1 /\ ~Dlab THEN value ELSE ier
    /\ lcr' = IF offset = 3 THEN value ELSE lcr
    /\ mcr' = IF offset = 4 THEN value ELSE mcr
    /\ fifo' = IF offset = 2 THEN <<>>
               ELSE IF offset = 0 /\ ~Dlab /\ Len(fifo) < FifoDepth
               THEN Append(fifo, value) ELSE fifo

\* The UART sends a byte.
Transmit ==
    /\ fifo # <<>>
    /\ fifo' = Tail(fifo)
    /\ line' = IF Head(fifo) = Firmware THEN line
               ELSE Append(line, IF LineIsSetUp THEN Head(fifo) ELSE Garbled)
    /\ UNCHANGED <<translate, spc, step, msg, out, writes, takeovers, dll, dlm, ier,
                   lcr, mcr, wrote>>

-----------------------------------------------------------------------------
(* The driver *)

\* IER off; DLAB; divisor 1, low and high; 8N1; FIFOs on and cleared; MCR.
InitWrites ==
    <<<<1, 0>>, <<3, 128>>, <<0, 1>>, <<1, 0>>, <<3, 3>>, <<2, 199>>, <<4, 11>>>>

Initialised == step > Len(InitWrites)

InitStep ==
    /\ spc = "init"
    /\ Outb(InitWrites[step][1], InitWrites[step][2])
    /\ step' = step + 1
    /\ spc' = IF step = Len(InitWrites) THEN "idle" ELSE "init"
    /\ UNCHANGED <<translate, msg, out, writes, takeovers, wrote, line>>

CallWriteStr(m) ==
    /\ spc = "idle" /\ writes < MaxWrites
    /\ writes' = writes + 1
    /\ msg' = m
    /\ spc' = "next"
    /\ UNCHANGED <<translate, step, out, takeovers, uart, wrote, line>>

\* Mutant: the carriage return after the line feed.
TranslatedLate(byte) ==
    IF translate /\ byte = LF THEN <<LF, CR>> ELSE <<byte>>

\* if byte == b'\n' { write_byte(b'\r') }; write_byte(byte)
Translated(byte) == IF translate /\ byte = LF THEN <<CR, LF>> ELSE <<byte>>

NextByte ==
    /\ spc = "next" /\ msg # <<>>
    /\ out' = Translated(Head(msg))
    /\ msg' = Tail(msg)
    /\ spc' = "poll"
    /\ UNCHANGED <<translate, step, writes, takeovers, uart, wrote, line>>

WriteStrReturns ==
    /\ spc = "next" /\ msg = <<>>
    /\ spc' = "idle"
    /\ UNCHANGED <<translate, step, msg, out, writes, takeovers, uart, wrote, line>>

\* Mutants: no polling; the bit tested the wrong way round.
PollSkipped ==
    /\ spc = "poll"
    /\ spc' = "data"
    /\ UNCHANGED <<translate, step, msg, out, writes, takeovers, uart, wrote, line>>
PollInverted ==
    /\ spc = "poll" /\ ~Thre
    /\ spc' = "data"
    /\ UNCHANGED <<translate, step, msg, out, writes, takeovers, uart, wrote, line>>

\* The polling loop reads THRE.
PollUntilReady ==
    /\ spc = "poll" /\ Thre
    /\ spc' = "data"
    /\ UNCHANGED <<translate, step, msg, out, writes, takeovers, uart, wrote, line>>

\* The out instruction of write_byte.
WriteData ==
    /\ spc = "data"
    /\ Outb(0, Head(out))
    /\ wrote' = Append(wrote, Head(out))
    /\ out' = Tail(out)
    /\ spc' = IF Len(out) = 1 THEN "next" ELSE "poll"
    /\ UNCHANGED <<translate, step, msg, writes, takeovers, line>>

\* An exception or a panic: its handler starts a string of its own.
TakeOver(m) ==
    /\ Initialised /\ takeovers < MaxTakeovers
    /\ takeovers' = takeovers + 1
    /\ msg' = m /\ out' = <<>>
    /\ spc' = "next"
    /\ UNCHANGED <<translate, step, writes, uart, wrote, line>>

DriverStep ==
    InitStep \/ NextByte \/ WriteStrReturns \/ PollUntilReady \/ WriteData

-----------------------------------------------------------------------------
\* Every byte the driver has put out is on the wire or in the FIFO: none
\* lost, reordered, sent at another speed or taken for a divisor, also when a
\* handler takes over between the poll and the write.
NothingLost == Initialised => line \o fifo = wrote

\* With translation every line feed on the wire follows a carriage return,
\* also when a handler cut in after that carriage return.
LinesReturn ==
    translate =>
        \A n \in DOMAIN line : line[n] = LF => n > 1 /\ line[n - 1] = CR

\* A string or a number, once begun, is written to its end, its own or its
\* successor's: no wait for the UART and no digit loop goes on for ever.
WriteEnds == (spc # "init") ~> (spc = "idle")
=============================================================================
