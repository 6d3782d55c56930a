--------------------------- MODULE SerialNumbers ---------------------------
(***************************************************************************)
(* serial_write_usize and serial_write_usize_hex of boot/src/main.rs: the  *)
(* numbers of the boot log and of exception reports.  The digits go into a *)
(* fixed buffer, lowest first, and out of it in reverse through            *)
(* serial_write_byte.  Numbers, strings and handlers that cut in share the *)
(* line of module Serial.                                                  *)
(***************************************************************************)
EXTENDS Serial, SequencesExt

CONSTANTS
    Numbers,    \* the values written
    BufferSize  \* bytes of buf, by base: 20 for base 10, 16 for base 16

Power(base, k) ==
    LET p[j \in 0 .. k] == IF j = 0 THEN 1 ELSE base * p[j - 1] IN p[k]

\* No usize has more digits than its buffer: 2^64 <= 10^20 and 2^64 = 16^16.
ASSUME NumbersAssumption ==
    /\ Numbers \subseteq Nat
    /\ BufferSize \in [{10, 16} -> Nat]
    /\ \A n \in Numbers, base \in {10, 16} : n < Power(base, BufferSize[base])

VARIABLES
    number,  \* the number under way or written last: [n, base, at]
    val,     \* what is left of it
    buf      \* buf[..i]

nvars == <<number, val, buf>>

\* No number: a string was written since, or a handler cut in.
NoNumber == [n |-> 0, base |-> 0, at |-> 0]

\* b'0' + digit, and HEX[digit].
Ascii(digit) == IF digit < 10 THEN 48 + digit ELSE 97 + digit - 10

NInit == Init /\ number = NoNumber /\ val = 0 /\ buf = <<>>

\* Zero is written as the string "0"; else the digit loop begins.
CallWriteNumber(n, base) ==
    /\ spc = "idle" /\ writes < MaxWrites
    /\ ~translate
    /\ writes' = writes + 1
    /\ number' = [n |-> n, base |-> base, at |-> Len(wrote)]
    /\ val' = n /\ buf' = <<>>
    /\ msg' = IF n = 0 THEN <<48>> ELSE <<>>
    /\ spc' = IF n = 0 THEN "next" ELSE "digits"
    /\ UNCHANGED <<translate, step, out, takeovers, uart, wrote, line>>

\* One iteration of the loop; buf[i] is checked against the buffer.
StoreDigit ==
    /\ spc = "digits" /\ val > 0
    /\ IF Len(buf) < BufferSize[number.base]
       THEN /\ buf' = Append(buf, Ascii(val % number.base))
            /\ val' = val \div number.base
            /\ UNCHANGED spc
       ELSE spc' = "panic" /\ UNCHANGED <<val, buf>>
    /\ UNCHANGED <<translate, step, msg, out, writes, takeovers, uart, wrote, line,
                   number>>

\* Mutant: lowest digit first.
WriteDigitsForward ==
    /\ spc = "digits" /\ val = 0
    /\ msg' = buf
    /\ spc' = "next"
    /\ UNCHANGED <<translate, step, out, writes, takeovers, uart, wrote, line, nvars>>

\* for j in (0..i).rev()
WriteDigits ==
    /\ spc = "digits" /\ val = 0
    /\ msg' = Reverse(buf)
    /\ spc' = "next"
    /\ UNCHANGED <<translate, step, out, writes, takeovers, uart, wrote, line, nvars>>

NDriverStep ==
    \/ DriverStep /\ UNCHANGED nvars
    \/ StoreDigit \/ WriteDigits

NTransmit == Transmit /\ UNCHANGED nvars

NNext ==
    \/ NTransmit \/ NDriverStep
    \/ /\ \E m \in Messages : CallWriteStr(m) \/ TakeOver(m)
       /\ number' = NoNumber /\ val' = 0 /\ buf' = <<>>
    \/ \E n \in Numbers, base \in {10, 16} : CallWriteNumber(n, base)

NSpec == NInit /\ [][NNext]_<<svars, nvars>>

\* The CPU executes the driver; the UART shifts bytes out.
NFairSpec ==
    /\ NSpec
    /\ WF_<<svars, nvars>>(NDriverStep)
    /\ WF_<<svars, nvars>>(NTransmit)

-----------------------------------------------------------------------------
\* The value of a numeral, its highest digit first.
DigitValue(byte) == IF byte < 58 THEN byte - 48 ELSE byte - 97 + 10
ValueOf(s, base) == FoldLeft(LAMBDA v, byte : v * base + DigitValue(byte), 0, s)

\* A number that nothing cut short reads back from the line as the number
\* that was to be written, without leading zeros, its highest digit first;
\* and the digit buffer, which exactly fits the largest usize, never
\* overflows.
NumbersReadBack ==
    /\ spc # "panic"
    /\ spc = "idle" /\ number # NoNumber =>
          LET numeral == SubSeq(wrote, number.at + 1, Len(wrote))
          IN /\ numeral # <<>>
             /\ ValueOf(numeral, number.base) = number.n
             /\ number.n # 0 => Head(numeral) # 48
=============================================================================
