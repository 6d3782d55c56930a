--------------------------- MODULE Serial_proofs ---------------------------
(***************************************************************************)
(* Proofs about the serial line (Serial and SerialNumbers) for every set   *)
(* of strings and numbers, every FIFO depth and any number of writes and   *)
(* takeovers.                                                              *)
(***************************************************************************)
EXTENDS SerialNumbers, NaturalFacts, SequenceTheorems, TLAPS

\* What may be in the FIFO, and what may be on the wire or put out.
FifoByte == Byte \cup {Firmware}

Types ==
    /\ spc \in {"init", "idle", "next", "poll", "data", "digits", "panic"}
    /\ step \in 1 .. 8
    /\ spc = "init" <=> step < 8
    /\ msg \in Seq(Byte) /\ out \in Seq(Byte)
    /\ fifo \in Seq(FifoByte)
    /\ wrote \in Seq(Byte) /\ line \in Seq(Byte)
    /\ val \in Nat /\ buf \in Seq(Byte)
    /\ spc = "digits" => number.base \in {10, 16}

\* How far init has come with the line: the divisor latch is open exactly for
\* the two divisor bytes, and until it is over nothing has been sent.
SetUp ==
    /\ step \in {1, 2} => lcr = 3
    /\ step \in {3, 4, 5} => lcr = 128
    /\ step > 3 => dll = 1
    /\ step > 4 => dlm = 0
    /\ step > 5 => lcr = 3
    /\ step < 8 => fifo \in {<<>>, <<Firmware>>} /\ wrote = <<>> /\ line = <<>>
    /\ step = 7 => fifo = <<>>

\* After init the FIFO holds the driver's bytes only, and it is empty from the
\* poll to the write, whoever takes over in between.
Ready ==
    /\ step = 8 => fifo \in Seq(Byte)
    /\ spc \in {"poll", "data"} => out # <<>>
    /\ spc = "data" => fifo = <<>>

\* Every line feed of a sequence of bytes follows a carriage return.
Returned(s) == \A n \in 1 .. Len(s) : s[n] = LF => n > 1 /\ s[n - 1] = CR

\* What is still to be put out keeps it so: a line feed waits behind its
\* carriage return, or that carriage return is the last byte put out.
Translating ==
    translate =>
        /\ Returned(wrote)
        /\ spc \in {"poll", "data"} =>
              \/ out = <<CR, LF>>
              \/ Len(out) = 1 /\ Head(out) # LF
              \/ out = <<LF>> /\ wrote # <<>> /\ wrote[Len(wrote)] = CR

IInv == Types /\ SetUp /\ Ready /\ NothingLost /\ Translating

-----------------------------------------------------------------------------
(* Facts about the sequences and the constants of the model. *)

LEMMA Bytes == CR \in Byte /\ LF \in Byte /\ CR # LF /\ Firmware \notin Byte
  BY DEF CR, LF, Byte, Firmware

LEMMA FifoBytes == \A s \in Seq(Byte) : s \in Seq(FifoByte)
  BY SeqMonotonic, Byte \subseteq FifoByte DEF FifoByte

\* Moving the head of the second sequence to the end of the first.
LEMMA ShiftHead ==
    ASSUME NEW S, NEW a \in Seq(S), NEW b \in Seq(S), b # <<>>
    PROVE  /\ Append(a, Head(b)) \in Seq(S)
           /\ Append(a, Head(b)) \o Tail(b) = a \o b
<1>1. Head(b) \in S /\ Tail(b) \in Seq(S) /\ Len(Tail(b)) = Len(b) - 1
      /\ \A i \in 1 .. Len(Tail(b)) : Tail(b)[i] = b[i + 1]
  BY HeadTailProperties
<1>2. Head(b) = b[1] /\ Len(b) \in Nat /\ Len(b) > 0 /\ Len(a) \in Nat
  BY EmptySeq, LenProperties
<1> DEFINE c == Append(a, Head(b))
<1>3. c \in Seq(S) /\ Len(c) = Len(a) + 1 /\ c[Len(a) + 1] = Head(b)
      /\ \A i \in 1 .. Len(a) : c[i] = a[i]
  BY <1>1, <1>2
<1> HIDE DEF c
<1>4. /\ c \o Tail(b) \in Seq(S)
      /\ Len(c \o Tail(b)) = Len(a) + Len(b)
      /\ \A i \in 1 .. Len(a) + Len(b) : (c \o Tail(b))[i] =
             IF i <= Len(c) THEN c[i] ELSE Tail(b)[i - Len(c)]
  <2>1. Len(c) + Len(Tail(b)) = Len(a) + Len(b)
    BY <1>1, <1>2, <1>3
  <2> DEFINE d == Tail(b)
  <2>2. c \in Seq(S) /\ d \in Seq(S)
    BY <1>1, <1>3
  <2> HIDE DEF d
  <2>3. /\ c \o d \in Seq(S)
        /\ Len(c \o d) = Len(c) + Len(d)
        /\ \A i \in 1 .. Len(c) + Len(d) : (c \o d)[i] =
               IF i <= Len(c) THEN c[i] ELSE d[i - Len(c)]
    BY <2>2, ConcatProperties
  <2> QED
    BY <2>1, <2>3 DEF d
<1>5. /\ a \o b \in Seq(S)
      /\ Len(a \o b) = Len(a) + Len(b)
      /\ \A i \in 1 .. Len(a) + Len(b) : (a \o b)[i] =
             IF i <= Len(a) THEN a[i] ELSE b[i - Len(a)]
  BY ConcatProperties
<1>6. ASSUME NEW i \in 1 .. Len(a) + Len(b) PROVE (c \o Tail(b))[i] = (a \o b)[i]
  <2>1. CASE i <= Len(a)
    BY <2>1, <1>2, <1>3, <1>4, <1>5
  <2>2. CASE i = Len(a) + 1
    BY <2>2, <1>2, <1>3, <1>4, <1>5
  <2>3. CASE i > Len(a) + 1
    <3>1. i - Len(c) \in 1 .. Len(Tail(b)) /\ (i - Len(c)) + 1 = i - Len(a)
      BY <2>3, <1>1, <1>2, <1>3
    <3>2. (c \o Tail(b))[i] = Tail(b)[i - Len(c)]
      BY <2>3, <1>2, <1>3, <1>4
    <3>3. (a \o b)[i] = b[i - Len(a)]
      BY <2>3, <1>2, <1>5
    <3> QED
      BY <3>1, <3>2, <3>3, <1>1
  <2>4. i <= Len(a) \/ i = Len(a) + 1 \/ i > Len(a) + 1
    BY <1>2
  <2> QED
    BY <2>1, <2>2, <2>3, <2>4
<1> QED
  BY <1>3, <1>4, <1>5, <1>6, SeqEqual DEF c

\* init's table, read out.
LEMMA InitTable ==
    /\ Len(InitWrites) = 7
    /\ InitWrites[1] = <<1, 0>> /\ InitWrites[2] = <<3, 128>>
    /\ InitWrites[3] = <<0, 1>> /\ InitWrites[4] = <<1, 0>>
    /\ InitWrites[5] = <<3, 3>> /\ InitWrites[6] = <<2, 199>>
    /\ InitWrites[7] = <<4, 11>>
  BY DEF InitWrites

LEMMA InitialisedIs == (Initialised <=> step > 7) /\ (Initialised' <=> step' > 7)
  BY InitTable DEF Initialised

-----------------------------------------------------------------------------
(* The invariant holds initially, and every step keeps it. *)

LEMMA InitIInv == NInit => IInv
<1> SUFFICES ASSUME NInit PROVE IInv
  OBVIOUS
<1>1. <<>> \in Seq(Byte) /\ <<>> \in Seq(FifoByte) /\ <<Firmware>> \in Seq(FifoByte)
  BY DEF FifoByte
<1>2. fifo \in Seq(FifoByte)
  BY <1>1 DEF NInit, Init
<1>3. Types
  BY <1>1, <1>2 DEF NInit, Init, Types
<1> QED
  BY <1>1, <1>3, InitialisedIs
     DEF NInit, Init, IInv, SetUp, Ready, NothingLost, Translating, Returned

\* Each register write of init.
LEMMA InitStepIInv ==
    ASSUME IInv, InitStep, UNCHANGED nvars
    PROVE  IInv'
<1>1. step \in 1 .. 7 /\ step' = step + 1 /\ spc = "init"
      /\ spc' = (IF step = 7 THEN "idle" ELSE "init")
      /\ UNCHANGED <<translate, msg, out, wrote, line, number, val, buf>>
  BY InitTable DEF IInv, Types, InitStep, nvars
<1>2. fifo \in {<<>>, <<Firmware>>} /\ wrote = <<>> /\ line = <<>>
  BY <1>1 DEF IInv, SetUp
<1>3. fifo' \in {<<>>, <<Firmware>>} /\ (step \in {6, 7} => fifo' = <<>>)
  <2>1. CASE step = 3
    BY <1>1, <1>2, <2>1, InitTable DEF IInv, SetUp, InitStep, Outb, Dlab
  <2>2. CASE step # 3
    BY <1>1, <1>2, <2>2, InitTable DEF IInv, SetUp, InitStep, Outb, Dlab
  <2> QED
    BY <2>1, <2>2
<1>4. <<>> \in Seq(Byte) /\ <<>> \in Seq(FifoByte) /\ <<Firmware>> \in Seq(FifoByte)
  BY DEF FifoByte
<1>5. Types'
  <2>1. fifo' \in Seq(FifoByte)
    BY <1>3, <1>4
  <2> QED
    BY <1>1, <2>1 DEF IInv, Types
<1>6. SetUp'
  <2>1. CASE step \in {1, 2, 3}
    BY <1>1, <1>2, <1>3, <2>1, InitTable DEF IInv, SetUp, InitStep, Outb, Dlab
  <2>2. CASE step \in {4, 5}
    BY <1>1, <1>2, <1>3, <2>2, InitTable DEF IInv, SetUp, InitStep, Outb, Dlab
  <2>3. CASE step \in {6, 7}
    BY <1>1, <1>2, <1>3, <2>3, InitTable DEF IInv, SetUp, InitStep, Outb, Dlab
  <2> QED
    BY <1>1, <2>1, <2>2, <2>3
<1>7. Ready'
  <2>1. step' = 8 => fifo' = <<>>
    BY <1>1, <1>3
  <2> QED
    BY <1>1, <1>4, <2>1 DEF Ready
<1>8. NothingLost'
  <2>1. CASE step = 7
    BY <1>1, <1>2, <1>3, <2>1, <1>4, ConcatEmptySeq DEF NothingLost
  <2>2. CASE step # 7
    BY <1>1, <2>2, InitialisedIs DEF NothingLost
  <2> QED
    BY <2>1, <2>2
<1>9. Translating'
  BY <1>1, <1>2 DEF Translating, Returned
<1> QED
  BY <1>5, <1>6, <1>7, <1>8, <1>9 DEF IInv

\* The UART sends a byte: from the head of the FIFO to the end of the line.
LEMMA TransmitIInv ==
    ASSUME IInv, NTransmit
    PROVE  IInv'
<1>1. /\ fifo # <<>> /\ fifo' = Tail(fifo)
      /\ UNCHANGED <<translate, spc, step, msg, out, dll, dlm, lcr, wrote, number,
                     val, buf>>
      /\ line' = IF Head(fifo) = Firmware THEN line
                 ELSE Append(line, IF LineIsSetUp THEN Head(fifo) ELSE Garbled)
  BY DEF NTransmit, Transmit, nvars
<1>2. Translating'
  BY <1>1 DEF IInv, Translating, Returned
<1>3. <<>> \in Seq(Byte) /\ <<>> \in Seq(FifoByte)
  OBVIOUS
<1>4. CASE step < 8
  <2>1. fifo = <<Firmware>> /\ fifo' = <<>> /\ line' = line
    BY <1>1, <1>4, SMTT(30) DEF IInv, SetUp
  <2>2. Types'
    BY <1>1, <1>3, <2>1 DEF IInv, Types
  <2>3. SetUp' /\ Ready' /\ NothingLost'
    BY <1>1, <1>3, <1>4, <2>1, InitialisedIs
       DEF IInv, Types, SetUp, Ready, NothingLost
  <2> QED
    BY <1>2, <2>2, <2>3 DEF IInv
<1>5. CASE step = 8
  <2>1. fifo \in Seq(Byte) /\ fifo # <<>> /\ line \in Seq(Byte)
    BY <1>1, <1>5 DEF IInv, Types, Ready
  <2>2. Head(fifo) \in Byte /\ Tail(fifo) \in Seq(Byte)
    BY <2>1, HeadTailProperties
  <2>3. LineIsSetUp
    BY <1>5 DEF IInv, SetUp, LineIsSetUp
  <2>4. line' = Append(line, Head(fifo))
    BY <1>1, <2>2, <2>3, Bytes
  <2>5. line' \in Seq(Byte) /\ line' \o fifo' = line \o fifo
    BY <1>1, <2>1, <2>4, ShiftHead
  <2>6. fifo' \in Seq(Byte) /\ fifo' \in Seq(FifoByte)
    BY <1>1, <2>2, FifoBytes
  <2>7. Types'
    BY <1>1, <2>5, <2>6 DEF IInv, Types
  <2>8. SetUp' /\ Ready'
    BY <1>1, <1>5, <2>6 DEF IInv, SetUp, Ready
  <2>9. NothingLost'
    BY <1>1, <1>5, <2>5, InitialisedIs DEF IInv, NothingLost
  <2> QED
    BY <1>2, <2>7, <2>8, <2>9 DEF IInv
<1> QED
  BY <1>4, <1>5 DEF IInv, Types

\* A step that leaves the UART, what was put out and the line alone, and does
\* not go into the polling loop or out of it.
LEMMA CallIInv ==
    ASSUME IInv,
           UNCHANGED <<translate, step, uart, wrote, line>>,
           step = 8,
           spc' \in {"idle", "next", "digits", "panic"},
           msg' \in Seq(Byte), out' \in Seq(Byte), val' \in Nat, buf' \in Seq(Byte),
           spc' = "digits" => number'.base \in {10, 16}
    PROVE  IInv'
<1>1. Types'
  BY DEF IInv, Types, uart
<1>2. SetUp' /\ Ready'
  BY DEF IInv, SetUp, Ready, uart
<1>3. NothingLost' /\ Translating'
  BY DEF IInv, NothingLost, Initialised, Translating, Returned, uart
<1> QED
  BY <1>1, <1>2, <1>3 DEF IInv

\* A string is begun, by a caller or by a handler that cuts in.
LEMMA BeginIInv ==
    ASSUME IInv, NEW m \in Messages, CallWriteStr(m) \/ TakeOver(m),
           number' = NoNumber, val' = 0, buf' = <<>>
    PROVE  IInv'
<1>1. step = 8
  BY InitialisedIs DEF IInv, Types, CallWriteStr, TakeOver
<1>2. m \in Seq(Byte) /\ <<>> \in Seq(Byte)
  BY SerialAssumption
<1>3. UNCHANGED <<translate, step, uart, wrote, line>> /\ spc' = "next" /\ msg' = m
      /\ out' \in {out, <<>>}
  BY DEF CallWriteStr, TakeOver
<1>4. out' \in Seq(Byte)
  BY <1>2, <1>3 DEF IInv, Types
<1> QED
  BY <1>1, <1>2, <1>3, <1>4, CallIInv

\* The digits of a number are bytes and can be told apart.
LEMMA AsciiByte ==
    \A d \in 0 .. 15 : Ascii(d) \in Byte /\ DigitValue(Ascii(d)) = d /\ (d # 0 => Ascii(d) # 48)
  BY DEF Ascii, DigitValue, Byte

LEMMA CallWriteNumberIInv ==
    ASSUME IInv, NEW n \in Numbers, NEW base \in {10, 16}, CallWriteNumber(n, base)
    PROVE  IInv'
<1>1. step = 8
  BY DEF IInv, Types, CallWriteNumber
<1>2. n \in Nat /\ <<>> \in Seq(Byte) /\ <<48>> \in Seq(Byte)
  BY NumbersAssumption DEF Byte
<1>3. /\ UNCHANGED <<translate, step, uart, wrote, line>> /\ spc' \in {"next", "digits"}
      /\ msg' \in {<<48>>, <<>>} /\ out' = out /\ val' = n /\ buf' = <<>>
      /\ number'.base = base
  BY DEF CallWriteNumber
<1>4. msg' \in Seq(Byte) /\ out' \in Seq(Byte)
  BY <1>2, <1>3 DEF IInv, Types
<1> QED
  BY <1>1, <1>2, <1>3, <1>4, CallIInv

LEMMA StoreDigitIInv ==
    ASSUME IInv, StoreDigit
    PROVE  IInv'
<1>1. step = 8 /\ val \in Nat /\ buf \in Seq(Byte) /\ number.base \in {10, 16}
  BY DEF IInv, Types, StoreDigit
<1>2. /\ UNCHANGED <<translate, step, uart, wrote, line, msg, out, number>>
      /\ spc' \in {"digits", "panic"}
      /\ buf' \in {buf, Append(buf, Ascii(val % number.base))}
      /\ val' \in {val, val \div number.base}
  BY DEF StoreDigit
<1>3. val % number.base \in 0 .. 15 /\ val \div number.base \in Nat
  <2>1. CASE number.base = 10
    BY <1>1, <2>1
  <2>2. CASE number.base = 16
    BY <1>1, <2>2
  <2> QED
    BY <1>1, <2>1, <2>2
<1>4. Append(buf, Ascii(val % number.base)) \in Seq(Byte)
  BY <1>1, <1>3, AsciiByte
<1>5. msg' \in Seq(Byte) /\ out' \in Seq(Byte) /\ val' \in Nat /\ buf' \in Seq(Byte)
  BY <1>1, <1>2, <1>3, <1>4 DEF IInv, Types
<1> QED
  BY <1>1, <1>2, <1>5, CallIInv

LEMMA WriteDigitsIInv ==
    ASSUME IInv, WriteDigits
    PROVE  IInv'
<1>1. step = 8 /\ buf \in Seq(Byte)
  BY DEF IInv, Types, WriteDigits
<1>2. /\ UNCHANGED <<translate, step, uart, wrote, line, out, number, val, buf>>
      /\ spc' = "next" /\ msg' = Reverse(buf)
  BY DEF WriteDigits, nvars
<1>3. Reverse(buf) \in Seq(Byte)
  BY <1>1 DEF Reverse
<1>4. msg' \in Seq(Byte) /\ out' \in Seq(Byte) /\ val' \in Nat /\ buf' \in Seq(Byte)
  BY <1>1, <1>2, <1>3 DEF IInv, Types
<1> QED
  BY <1>1, <1>2, <1>4, CallIInv

LEMMA WriteStrReturnsIInv ==
    ASSUME IInv, WriteStrReturns, UNCHANGED nvars
    PROVE  IInv'
<1>1. step = 8 /\ UNCHANGED <<translate, step, uart, wrote, line>> /\ spc' = "idle"
      /\ UNCHANGED <<msg, out, number, val, buf>>
  BY DEF IInv, Types, WriteStrReturns, nvars
<1>2. msg' \in Seq(Byte) /\ out' \in Seq(Byte) /\ val' \in Nat /\ buf' \in Seq(Byte)
  BY <1>1 DEF IInv, Types
<1> QED
  BY <1>1, <1>2, CallIInv

\* A byte is taken up: the line feed as two.
LEMMA NextByteIInv ==
    ASSUME IInv, NextByte, UNCHANGED nvars
    PROVE  IInv'
<1>1. /\ step = 8 /\ msg \in Seq(Byte) /\ msg # <<>>
      /\ UNCHANGED <<translate, step, uart, wrote, line, number, val, buf>>
      /\ spc' = "poll" /\ msg' = Tail(msg) /\ out' = Translated(Head(msg))
  BY DEF IInv, Types, NextByte, nvars
<1>2. Head(msg) \in Byte /\ Tail(msg) \in Seq(Byte)
  BY <1>1, HeadTailProperties
<1>3. out' \in Seq(Byte) /\ out' # <<>>
  BY <1>1, <1>2, Bytes DEF Translated
<1>4. Types'
  BY <1>1, <1>2, <1>3 DEF IInv, Types, uart
<1>5. SetUp' /\ Ready'
  BY <1>1, <1>3 DEF IInv, SetUp, Ready, uart
<1>6. NothingLost'
  BY <1>1 DEF IInv, NothingLost, Initialised, uart
<1>7. Translating'
  <2>1. CASE ~translate
    BY <1>1, <2>1 DEF Translating
  <2>2. CASE translate /\ Head(msg) = LF
    BY <1>1, <2>2 DEF IInv, Translating, Translated, Returned
  <2>3. CASE translate /\ Head(msg) # LF
    BY <1>1, <2>3 DEF IInv, Translating, Translated, Returned
  <2> QED
    BY <2>1, <2>2, <2>3
<1> QED
  BY <1>4, <1>5, <1>6, <1>7 DEF IInv

\* The poll finds the FIFO empty.
LEMMA PollIInv ==
    ASSUME IInv, PollUntilReady, UNCHANGED nvars
    PROVE  IInv'
<1>1. /\ step = 8 /\ spc = "poll" /\ spc' = "data" /\ fifo = <<>>
      /\ UNCHANGED <<translate, step, msg, out, uart, wrote, line, number, val, buf>>
  BY DEF IInv, Types, PollUntilReady, Thre, nvars
<1>2. Types'
  BY <1>1 DEF IInv, Types, uart
<1>3. SetUp' /\ Ready'
  BY <1>1 DEF IInv, SetUp, Ready, uart
<1>4. NothingLost' /\ Translating'
  BY <1>1 DEF IInv, NothingLost, Initialised, Translating, Returned, uart
<1> QED
  BY <1>2, <1>3, <1>4 DEF IInv

\* The byte put out finds room, with the divisor latch closed.
LEMMA WriteDataIInv ==
    ASSUME IInv, WriteData, UNCHANGED nvars
    PROVE  IInv'
<1>1. /\ step = 8 /\ spc = "data" /\ fifo = <<>> /\ out \in Seq(Byte) /\ out # <<>>
      /\ dll = 1 /\ dlm = 0 /\ lcr = 3 /\ wrote \in Seq(Byte) /\ line \in Seq(Byte)
  BY DEF IInv, Types, SetUp, Ready, WriteData
<1>2. Head(out) \in Byte /\ Tail(out) \in Seq(Byte) /\ Len(Tail(out)) = Len(out) - 1
  BY <1>1, HeadTailProperties
<1>3. /\ UNCHANGED <<translate, step, msg, line, number, val, buf, dll, dlm, lcr>>
      /\ wrote' = Append(wrote, Head(out)) /\ out' = Tail(out)
      /\ spc' = IF Len(out) = 1 THEN "next" ELSE "poll"
  BY <1>1 DEF WriteData, Outb, Dlab, nvars
<1>4. fifo' = <<Head(out)>>
  <2>1. Len(fifo) < FifoDepth
    BY <1>1, SerialAssumption
  <2>2. fifo' = Append(fifo, Head(out))
    BY <1>1, <2>1 DEF WriteData, Outb, Dlab
  <2> QED
    BY <1>1, <2>2
<1>5. fifo' \in Seq(Byte) /\ fifo' \in Seq(FifoByte) /\ wrote' \in Seq(Byte)
  BY <1>1, <1>2, <1>3, <1>4, FifoBytes
<1>6. Len(out) # 1 => Tail(out) # <<>>
  <2>1. Len(out) \in Nat
    BY <1>1, LenProperties
  <2>2. Len(<<>>) = 0
    OBVIOUS
  <2>3. Tail(out) = <<>> => Len(Tail(out)) = 0
    BY <2>2, Zenon
  <2> QED
    BY <1>2, <2>1, <2>3
<1>7. Types'
  BY <1>1, <1>2, <1>3, <1>5 DEF IInv, Types
<1>8. SetUp' /\ Ready'
  BY <1>1, <1>3, <1>5, <1>6 DEF IInv, SetUp, Ready
<1>9. NothingLost'
  <2>1. line = wrote
    BY <1>1, InitialisedIs, ConcatEmptySeq DEF IInv, NothingLost
  <2>2. Append(wrote, Head(out)) = wrote \o <<Head(out)>>
    BY <1>1, <1>2, AppendIsConcat
  <2> QED
    BY <1>3, <1>4, <2>1, <2>2 DEF NothingLost
<1>10. Translating'
  <2> SUFFICES ASSUME translate PROVE Translating'
    BY <1>3 DEF Translating
  <2>1. /\ Returned(wrote)
        /\ \/ out = <<CR, LF>>
           \/ Len(out) = 1 /\ Head(out) # LF
           \/ out = <<LF>> /\ wrote # <<>> /\ wrote[Len(wrote)] = CR
    BY <1>1 DEF IInv, Translating
  <2>2. /\ Len(wrote') = Len(wrote) + 1 /\ Len(wrote) \in Nat
        /\ wrote'[Len(wrote) + 1] = Head(out)
        /\ \A i \in 1 .. Len(wrote) : wrote'[i] = wrote[i]
    BY <1>1, <1>2, <1>3, AppendProperties
  <2>3. Head(out) = LF => Len(wrote) > 0 /\ wrote[Len(wrote)] = CR
    BY <1>1, <2>1, EmptySeq, Bytes
  <2>4. Returned(wrote')
    <3> SUFFICES ASSUME NEW n \in 1 .. Len(wrote'), wrote'[n] = LF
                 PROVE  n > 1 /\ wrote'[n - 1] = CR
      BY DEF Returned
    <3>1. CASE n <= Len(wrote)
      BY <3>1, <2>1, <2>2 DEF Returned
    <3>2. CASE n = Len(wrote) + 1
      BY <3>2, <2>2, <2>3
    <3> QED
      BY <2>2, <3>1, <3>2
  <2>5. CASE out = <<CR, LF>>
    <3>1. Tail(out) = <<LF>> /\ Head(out) = CR
      BY <2>5
    <3>2. wrote' # <<>> /\ wrote'[Len(wrote')] = CR
      BY <2>2, <3>1, <1>5, EmptySeq
    <3> QED
      BY <1>3, <2>4, <3>1, <3>2 DEF Translating
  <2>6. CASE Len(out) = 1
    BY <1>3, <2>4, <2>6 DEF Translating
  <2>7. out = <<LF>> => Len(out) = 1
    OBVIOUS
  <2> QED
    BY <2>1, <2>5, <2>6, <2>7
<1> QED
  BY <1>7, <1>8, <1>9, <1>10 DEF IInv

-----------------------------------------------------------------------------
(* The theorems. *)

LEMMA StepIInv == IInv /\ [NNext]_<<svars, nvars>> => IInv'
<1> SUFFICES ASSUME IInv, [NNext]_<<svars, nvars>> PROVE IInv'
  OBVIOUS
<1>1. CASE NTransmit
  BY <1>1, TransmitIInv
<1>2. CASE DriverStep /\ UNCHANGED nvars
  BY <1>2, InitStepIInv, NextByteIInv, WriteStrReturnsIInv, PollIInv, WriteDataIInv
     DEF DriverStep
<1>3. CASE StoreDigit
  BY <1>3, StoreDigitIInv
<1>4. CASE WriteDigits
  BY <1>4, WriteDigitsIInv
<1>5. CASE \E m \in Messages : (CallWriteStr(m) \/ TakeOver(m))
           /\ number' = NoNumber /\ val' = 0 /\ buf' = <<>>
  BY <1>5, BeginIInv
<1>6. CASE \E n \in Numbers, base \in {10, 16} : CallWriteNumber(n, base)
  BY <1>6, CallWriteNumberIInv
<1>7. CASE UNCHANGED <<svars, nvars>>
  BY <1>7 DEF svars, nvars, uart, IInv, Types, SetUp, Ready, NothingLost, Initialised,
              Translating, Returned
<1> QED
  BY <1>1, <1>2, <1>3, <1>4, <1>5, <1>6, <1>7 DEF NNext, NDriverStep

\* The inductive invariant: how far init has come, the FIFO empty from the
\* poll to the write, and the line feed behind its carriage return.
THEOREM SerialInvariant == NSpec => []IInv
<1> QED
  BY InitIInv, StepIInv, PTL DEF NSpec

\* serial_write_byte's poll before every write loses, reorders and garbles
\* nothing, for every FIFO depth and with handlers cutting in anywhere.
THEOREM SerialLosesNothing == NSpec => []NothingLost
<1>1. IInv => NothingLost
  BY DEF IInv
<1> QED
  BY <1>1, SerialInvariant, PTL

\* SerialPort::write_str never lets a line feed onto the wire without its
\* carriage return before it, whoever cuts in between the two.
THEOREM SerialLinesReturn == NSpec => []LinesReturn
<1>1. ASSUME IInv PROVE LinesReturn
  <2>1. CASE step < 8
    BY <1>1, <2>1 DEF IInv, SetUp, LinesReturn
  <2>2. CASE step = 8
    <3> SUFFICES ASSUME translate, NEW n \in DOMAIN line, line[n] = LF
                 PROVE  n > 1 /\ line[n - 1] = CR
      BY DEF LinesReturn
    <3>1. /\ line \in Seq(Byte) /\ fifo \in Seq(Byte) /\ line \o fifo = wrote
          /\ Returned(wrote)
      BY <1>1, <2>2, InitialisedIs DEF IInv, Types, Ready, NothingLost, Translating
    <3>2. n \in 1 .. Len(line) /\ Len(line) \in Nat /\ Len(fifo) \in Nat
      BY <3>1, LenProperties
    <3>3. /\ Len(wrote) = Len(line) + Len(fifo)
          /\ \A i \in 1 .. Len(line) : wrote[i] = line[i]
      BY <3>1, <3>2, ConcatProperties
    <3>4. n \in 1 .. Len(wrote) /\ wrote[n] = LF
      BY <3>2, <3>3
    <3>5. n > 1 /\ wrote[n - 1] = CR
      BY <3>1, <3>4 DEF Returned
    <3> QED
      BY <3>2, <3>3, <3>5
  <2> QED
    BY <1>1, <2>1, <2>2 DEF IInv, Types
<1> QED
  BY <1>1, SerialInvariant, PTL

-----------------------------------------------------------------------------
(* Numbers. *)

\* The recursion of FoldLeft in ValueOf.
ValueFold(h, s, base) ==
    h = [A \in SUBSET (DOMAIN s) |->
            IF A = {} THEN 0
            ELSE h[A \ {Max(A)}] * base + DigitValue(s[Max(A)])]

\* f is what Horner's rule goes through when it reads s, starting from v.
Reads(f, v, s, base) ==
    /\ f \in [0 .. Len(s) -> Nat] /\ f[0] = v
    /\ \A m \in 1 .. Len(s) : f[m] = f[m - 1] * base + DigitValue(s[m])

\* Horner's rule, from 0, computes ValueOf.
LEMMA ReadsValue ==
    ASSUME NEW s \in Seq(Byte), NEW base \in Nat, NEW f, Reads(f, 0, s, base)
    PROVE  ValueOf(s, base) = f[Len(s)]
<1> DEFINE n == Len(s)
           step_(j) == [v \in Int |-> v * base + DigitValue(s[j])]
           F == [j \in 1 .. n |-> step_(j)]
<1>1. n \in Nat /\ DOMAIN s = 1 .. n /\ \A j \in 1 .. n : s[j] \in Byte
  OBVIOUS
<1>2. \A j \in 1 .. n : DigitValue(s[j]) \in Int
  <2>1. \A x \in Byte : DigitValue(x) \in Int
    BY DEF DigitValue, Byte
  <2> QED
    BY <1>1, <2>1
<1> HIDE DEF n
<1>3. F \in [1 .. n -> [Int -> Int]]
  BY <1>2
<1>4. \A j \in 1 .. n : \A v \in Int : F[j][v] = v * base + DigitValue(s[j])
  OBVIOUS
<1> HIDE DEF F
<1>5. PICK h : IsFold(h, Int, 0, F, n)
  <2>1. 0 \in Int
    OBVIOUS
  <2> QED
    BY <1>1, <1>3, <2>1, FoldExists
<1>6. \A A : Max(A) = Greatest(A)
  BY Zenon DEF Max, Greatest
<1>7. ValueFold(h, s, base)
  <2>1. /\ h \in [SUBSET (1 .. n) -> Int] /\ h[{}] = 0
        /\ \A A \in SUBSET (1 .. n) : A # {} =>
              h[A] = F[Greatest(A)][h[A \ {Greatest(A)}]]
    BY <1>5 DEF IsFold
  <2>2. ASSUME NEW A \in SUBSET (1 .. n), A # {}
        PROVE  h[A] = h[A \ {Max(A)}] * base + DigitValue(s[Max(A)])
    <3> DEFINE g == Greatest(A)
               B == A \ {g}
    <3>1. g \in 1 .. n /\ B \in SUBSET (1 .. n)
      BY <1>1, <2>2, GreatestExists
    <3>2. h[A] = F[g][h[B]]
      BY <2>1, <2>2
    <3> HIDE DEF g, B
    <3>3. h[B] \in Int
      BY <2>1, <3>1
    <3>4. h[A] = h[B] * base + DigitValue(s[g])
      BY <1>4, <3>1, <3>2, <3>3
    <3> QED
      BY <1>6, <3>4 DEF g, B
  <2>3. h = [A \in SUBSET (1 .. n) |-> h[A]]
    BY <2>1
  <2> QED
    BY <1>1, <2>1, <2>2, <2>3 DEF ValueFold
<1> DEFINE g == CHOOSE x : ValueFold(x, s, base)
<1>8. ValueFold(g, s, base)
  BY <1>7, Zenon
<1>9. ValueOf(s, base) = g[DOMAIN s]
  BY Zenon DEF ValueOf, FoldLeft, MapThenFoldSet, ValueFold
<1> HIDE DEF g
<1>10. /\ g[{}] = 0
       /\ \A A \in SUBSET (1 .. n) : A # {} =>
             g[A] = g[A \ {Greatest(A)}] * base + DigitValue(s[Greatest(A)])
  BY <1>1, <1>6, <1>8 DEF ValueFold
<1> DEFINE Ind == {m \in Nat : m <= n => g[1 .. m] = f[m]}
<1>11. 0 \in Ind
  <2>1. 1 .. 0 = {}
    OBVIOUS
  <2> QED
    BY <1>10, <2>1 DEF Reads
<1>12. ASSUME NEW m \in Nat, m \in Ind PROVE m + 1 \in Ind
  <2> SUFFICES ASSUME m + 1 <= n PROVE g[1 .. m + 1] = f[m + 1]
    OBVIOUS
  <2> DEFINE p == m + 1
             A == 1 .. p
  <2>1. p \in Nat \ {0} /\ p - 1 = m /\ p \in 1 .. n /\ A \in SUBSET (1 .. n) /\ p \in A
    BY <1>1
  <2>2. Greatest(A) = p /\ A \ {p} = 1 .. m
    BY <2>1, GreatestOfPrefix
  <2>3. f[p] = f[m] * base + DigitValue(s[p])
    BY <2>1 DEF Reads, n
  <2>4. g[1 .. m] = f[m]
    BY <1>1, <1>12
  <2> HIDE DEF p, A
  <2>5. g[A] = g[1 .. m] * base + DigitValue(s[p])
    BY <1>10, <2>1, <2>2
  <2> QED
    BY <2>3, <2>4, <2>5 DEF p, A
<1> HIDE DEF Ind
<1>13. n \in Ind
  BY <1>1, <1>11, <1>12, NatSetInduction
<1> QED
  BY <1>1, <1>9, <1>13 DEF Ind, n

\* p lists the powers of base up to the k-th.
Powers(p, base, k) ==
    p \in [0 .. k -> Nat] /\ p[0] = 1 /\ \A j \in 1 .. k : p[j] = base * p[j - 1]

\* Power is what it says.
LEMMA PowerIs ==
    ASSUME NEW base \in Nat, NEW k \in Nat
    PROVE  \E p : Powers(p, base, k) /\ p[k] = Power(base, k)
<1> DEFINE IsP(p) == p = [j \in 0 .. k |-> IF j = 0 THEN 1 ELSE base * p[j - 1]]
           F == [j \in 1 .. k |-> [v \in Nat |-> base * v]]
           P == CHOOSE p : IsP(p)
<1>1. F \in [1 .. k -> [Nat -> Nat]] /\ 1 \in Nat
  OBVIOUS
<1>2. \A j \in 1 .. k : \A v \in Nat : F[j][v] = base * v
  OBVIOUS
<1> HIDE DEF F
<1>3. PICK h : IsFold(h, Nat, 1, F, k)
  BY <1>1, FoldExists
<1> DEFINE q == [j \in 0 .. k |-> h[1 .. j]]
<1>4. q[0] = 1 /\ \A j \in 0 .. k : q[j] \in Nat
  <2>1. h \in [SUBSET (1 .. k) -> Nat] /\ h[{}] = 1
    BY <1>3 DEF IsFold
  <2>2. 1 .. 0 = {} /\ \A j \in 0 .. k : 1 .. j \in SUBSET (1 .. k)
    OBVIOUS
  <2> QED
    BY <2>1, <2>2
<1>5. ASSUME NEW j \in 1 .. k PROVE q[j] = base * q[j - 1]
  <2> DEFINE A == 1 .. j
  <2>1. A \in SUBSET (1 .. k) /\ j \in A /\ j \in Nat \ {0} /\ j - 1 \in 0 .. k /\ j \in 0 .. k
    OBVIOUS
  <2>2. Greatest(A) = j /\ A \ {j} = 1 .. j - 1
    BY <2>1, GreatestOfPrefix
  <2>3. q[j] = h[A] /\ q[j - 1] = h[A \ {j}] /\ q[j - 1] \in Nat
    BY <1>4, <2>1, <2>2
  <2> HIDE DEF A, q
  <2>4. h[A] = F[j][h[A \ {j}]]
    BY <1>3, <2>1, <2>2 DEF IsFold
  <2> QED
    BY <1>2, <2>3, <2>4
<1>6. IsP(q)
  <2>1. q = [j \in 0 .. k |-> q[j]]
    OBVIOUS
  <2>2. \A j \in 0 .. k : j # 0 => j \in 1 .. k
    OBVIOUS
  <2> HIDE DEF q
  <2> QED
    BY <1>4, <1>5, <2>1, <2>2
<1>7. IsP(P)
  <2> HIDE DEF q, IsP
  <2> QED
    BY <1>6, Zenon
<1>8. P[k] = Power(base, k)
  BY Zenon DEF Power
<1> HIDE DEF P
<1>9. P[0] = 1 /\ \A j \in 1 .. k : P[j] = base * P[j - 1]
  BY <1>7
<1> DEFINE Ind == {j \in Nat : j <= k => P[j] \in Nat}
<1>10. 0 \in Ind
  BY <1>9
<1>11. ASSUME NEW j \in Nat, j \in Ind PROVE j + 1 \in Ind
  <2> SUFFICES ASSUME j + 1 <= k PROVE P[j + 1] \in Nat
    OBVIOUS
  <2>1. j + 1 \in 1 .. k /\ (j + 1) - 1 = j /\ P[j] \in Nat
    BY <1>11
  <2>2. P[j + 1] = base * P[j]
    BY <1>9, <2>1
  <2> QED
    BY <2>1, <2>2
<1> HIDE DEF Ind
<1>12. \A j \in Nat : j \in Ind
  BY <1>10, <1>11, NatSetInduction
<1>13. P \in [0 .. k -> Nat]
  BY <1>7, <1>12 DEF Ind
<1> QED
  BY <1>8, <1>9, <1>13 DEF Powers

\* All bytes of the string under way, put out or not, behind those before it.
TakenUp == IF spc \in {"poll", "data"} THEN out ELSE <<>>
Written == (wrote \o TakenUp) \o msg

\* s is a numeral of n.
Denotes(s, base, n) ==
    s # <<>> /\ ValueOf(s, base) = n /\ (n # 0 => Head(s) # 48)

\* The digits stored, read after what is left of the number, give the number;
\* there is room for what is left; and the highest digit is not zero.
Digits ==
    spc = "digits" =>
        /\ number.at = Len(wrote)
        /\ Len(buf) <= BufferSize[number.base]
        /\ \E p : /\ Powers(p, number.base, BufferSize[number.base])
                  /\ val < p[BufferSize[number.base] - Len(buf)]
        /\ \E f : Reads(f, val, Reverse(buf), number.base) /\ f[Len(buf)] = number.n
        /\ val = 0 => buf # <<>> /\ buf[Len(buf)] # 48

NumInv ==
    /\ spc # "panic"
    /\ spc = "init" \/ translate => number = NoNumber
    /\ number # NoNumber /\ spc = "idle" => msg = <<>>
    /\ number # NoNumber /\ spc # "digits" =>
          Denotes(SubSeq(Written, number.at + 1, Len(Written)), number.base, number.n)
    /\ Digits

\* A step of the string writer leaves all bytes as they are.
LEMMA WriterNumInv ==
    ASSUME NumInv, UNCHANGED <<translate, number>>,
           spc \in {"init", "idle", "next", "poll", "data"},
           spc' \in {"idle", "next", "poll", "data"},
           number # NoNumber => Written' = Written,
           number # NoNumber /\ spc' = "idle" => msg' = <<>>
    PROVE  NumInv'
<1>1. spc' # "panic" /\ spc' # "init" /\ (translate' => number' = NoNumber) /\ Digits'
  BY DEF NumInv, Digits
<1>2. ASSUME number # NoNumber
      PROVE  Denotes(SubSeq(Written', number'.at + 1, Len(Written')), number'.base, number'.n)
  BY <1>2 DEF NumInv
<1> QED
  BY <1>1, <1>2 DEF NumInv

LEMMA NoNumberNumInv ==
    ASSUME number' = NoNumber, spc' \notin {"panic", "digits"}
    PROVE  NumInv'
  BY DEF NumInv, Digits

LEMMA NextByteNumInv ==
    ASSUME IInv, NumInv, NextByte, UNCHANGED nvars
    PROVE  NumInv'
<1>1. /\ msg \in Seq(Byte) /\ msg # <<>> /\ wrote \in Seq(Byte)
      /\ UNCHANGED <<translate, wrote, number>>
      /\ spc = "next" /\ spc' = "poll" /\ msg' = Tail(msg) /\ out' = Translated(Head(msg))
  BY DEF IInv, Types, NextByte, nvars
<1>2. ASSUME number # NoNumber PROVE Written' = Written
  <2>1. out' = <<Head(msg)>>
    BY <1>1, <1>2 DEF NumInv, Translated
  <2>2. Written' = (wrote \o <<Head(msg)>>) \o Tail(msg)
    BY <1>1, <2>1 DEF Written, TakenUp
  <2>3. Written = wrote \o msg
    BY <1>1, ConcatEmptySeq DEF Written, TakenUp
  <2>4. Append(wrote, Head(msg)) = wrote \o <<Head(msg)>>
    BY <1>1, HeadTailProperties, AppendIsConcat
  <2>5. Append(wrote, Head(msg)) \o Tail(msg) = wrote \o msg
    BY <1>1, ShiftHead
  <2> QED
    BY <2>2, <2>3, <2>4, <2>5
<1> QED
  BY <1>1, <1>2, WriterNumInv

LEMMA WriteDataNumInv ==
    ASSUME IInv, NumInv, WriteData, UNCHANGED nvars
    PROVE  NumInv'
<1>1. /\ out \in Seq(Byte) /\ out # <<>> /\ wrote \in Seq(Byte)
      /\ UNCHANGED <<translate, msg, number>>
      /\ spc = "data" /\ spc' = IF Len(out) = 1 THEN "next" ELSE "poll"
      /\ wrote' = Append(wrote, Head(out)) /\ out' = Tail(out)
  BY DEF IInv, Types, Ready, WriteData, nvars
<1>2. TakenUp' = Tail(out)
  <2>1. Len(out) = 1 => Tail(out) = <<>>
    <3>1. Tail(out) \in Seq(Byte) /\ Len(Tail(out)) = Len(out) - 1
      BY <1>1, HeadTailProperties
    <3>2. Tail(out) = <<>> <=> Len(Tail(out)) = 0
      BY <3>1, EmptySeq
    <3> QED
      BY <3>1, <3>2
  <2> QED
    BY <1>1, <2>1 DEF TakenUp
<1>3. Append(wrote, Head(out)) \o Tail(out) = wrote \o out
  BY <1>1, ShiftHead
<1>4. Written' = Written
  BY <1>1, <1>2, <1>3 DEF Written, TakenUp
<1> QED
  BY <1>1, <1>4, WriterNumInv

\* The digit stored is the next one: Horner's rule, begun one digit earlier,
\* goes through the same values, and what is left is a power smaller.
LEMMA StoreDigitNumInv ==
    ASSUME IInv, NumInv, StoreDigit
    PROVE  NumInv'
<1> DEFINE b == number.base
           k == BufferSize[b]
           x == Ascii(val % b)
<1>1. /\ b \in {10, 16} /\ val \in Nat /\ val > 0 /\ buf \in Seq(Byte)
      /\ spc = "digits" /\ k \in Nat /\ Len(buf) \in Nat
  BY NumbersAssumption DEF IInv, Types, StoreDigit
<1>2. Digits /\ ~translate /\ number # NoNumber
  BY <1>1 DEF NumInv, NoNumber
<1>3. PICK p : Powers(p, b, k) /\ val < p[k - Len(buf)]
  BY <1>1, <1>2 DEF Digits
<1>4. PICK f : Reads(f, val, Reverse(buf), b) /\ f[Len(buf)] = number.n
  BY <1>1, <1>2 DEF Digits
<1>5. Len(buf) < k
  <2>1. Len(buf) <= k
    BY <1>1, <1>2 DEF Digits
  <2>2. Len(buf) = k => k - Len(buf) = 0
    BY <1>1
  <2>3. p[0] = 1
    BY <1>3 DEF Powers
  <2>4. Len(buf) # k
    BY <1>1, <1>3, <2>2, <2>3
  <2> QED
    BY <1>1, <2>1, <2>4
<1>6. /\ buf' = Append(buf, x) /\ val' = val \div b /\ spc' = "digits"
      /\ UNCHANGED <<translate, wrote, number>>
  BY <1>1, <1>5 DEF StoreDigit
<1>7. /\ val % b \in 0 .. b - 1 /\ val \div b \in Nat
      /\ val = b * (val \div b) + (val % b)
  <2>1. b \in Nat \ {0}
    BY <1>1
  <2> HIDE DEF b
  <2> QED
    BY <1>1, <2>1, DivMod
<1>8. x \in Byte /\ DigitValue(x) = val % b /\ (val % b # 0 => x # 48)
  <2>1. val % b \in 0 .. 15
    <3> DEFINE d == val % b
    <3>1. d \in 0 .. b - 1 /\ b \in {10, 16}
      BY <1>1, <1>7
    <3> HIDE DEF d, b
    <3>2. d \in 0 .. 15
      BY <3>1
    <3> QED
      BY <3>2 DEF d
  <2> QED
    BY <2>1, AsciiByte, Zenon
<1>9. Len(buf') = Len(buf) + 1 /\ buf' \in Seq(Byte) /\ buf'[Len(buf) + 1] = x
      /\ \A j \in 1 .. Len(buf) : buf'[j] = buf[j]
  BY <1>1, <1>6, <1>8
<1> HIDE DEF x, k, b
<1>10. Len(buf') <= k
  BY <1>1, <1>5, <1>9
<1>11. val' < p[k - Len(buf')]
  <2> DEFINE j == k - Len(buf)
  <2>1. j \in 1 .. k /\ k - Len(buf') = j - 1
    BY <1>1, <1>5, <1>9
  <2>2. p[j] = b * p[j - 1] /\ p[j - 1] \in Nat /\ val < p[j]
    <3>1. j - 1 \in 0 .. k
      BY <1>1, <2>1
    <3> QED
      BY <1>3, <2>1, <3>1 DEF Powers
  <2> HIDE DEF j
  <2>3. b * (val \div b) < b * p[j - 1]
    <3>1. b * (val \div b) <= val /\ b * (val \div b) \in Nat
      BY <1>1, <1>7
    <3> QED
      BY <1>1, <2>2, <3>1
  <2>4. val \div b < p[j - 1]
    <3> DEFINE u == val \div b
               w == p[j - 1]
    <3>1. u \in Nat /\ w \in Nat /\ b * u < b * w
      BY <1>7, <2>2, <2>3
    <3> HIDE DEF u, w
    <3>2. u < w
      BY <1>1, <3>1
    <3> QED
      BY <3>2 DEF u, w
  <2> QED
    BY <1>6, <2>1, <2>4
<1>12. \E g : Reads(g, val', Reverse(buf'), b) /\ g[Len(buf')] = number.n
  <2> DEFINE n == Len(buf)
             r == Reverse(buf)
             t == Reverse(buf')
             q == val \div b
             g == [m \in 0 .. n + 1 |-> IF m = 0 THEN q ELSE f[m - 1]]
  <2>1. Len(r) = n /\ Len(t) = n + 1 /\ t[1] = x
        /\ \A m \in 1 .. n : t[m + 1] = r[m]
    BY <1>1, <1>9 DEF Reverse
  <2>2. /\ f \in [0 .. n -> Nat] /\ f[0] = val
        /\ \A m \in 1 .. n : f[m] = f[m - 1] * b + DigitValue(r[m])
    BY <1>4, <2>1 DEF Reads
  <2>3. q \in Nat /\ val = q * b + DigitValue(x)
    BY <1>1, <1>7, <1>8
  <2>4. n \in Nat
    BY <1>1
  <2> HIDE DEF r, t, q, n
  <2>5. g \in [0 .. n + 1 -> Nat] /\ g[0] = q /\ g[n + 1] = f[n]
    BY <2>2, <2>3, <2>4
  <2>6. ASSUME NEW m \in 1 .. n + 1 PROVE g[m] = g[m - 1] * b + DigitValue(t[m])
    <3>1. CASE m = 1
      <4>1. g[1] = val /\ g[0] = q
        BY <2>2, <2>4, <2>5
      <4> QED
        BY <2>1, <2>3, <3>1, <4>1
    <3>2. CASE m # 1
      <4> DEFINE l == m - 1
      <4>1. l \in 1 .. n /\ m = l + 1 /\ l - 1 \in 0 .. n /\ l \in 0 .. n + 1 /\ m \in 0 .. n + 1
        BY <2>4, <3>2
      <4>2. g[m] = f[l] /\ g[l] = f[l - 1]
        BY <2>4, <4>1
      <4>3. f[l] = f[l - 1] * b + DigitValue(r[l]) /\ t[l + 1] = r[l]
        BY <2>1, <2>2, <4>1
      <4> QED
        BY <4>1, <4>2, <4>3
    <3> QED
      BY <3>1, <3>2
  <2> HIDE DEF g
  <2>7. Reads(g, val', t, b) /\ g[Len(buf')] = number.n
    BY <1>4, <1>6, <1>9, <2>1, <2>5, <2>6 DEF Reads, q, n
  <2> QED
    BY <2>7 DEF t
<1>13. val' = 0 => buf' # <<>> /\ buf'[Len(buf')] # 48
  <2>1. val \div b = 0 => val % b # 0
    BY <1>1, <1>7
  <2>2. buf' # <<>>
    BY <1>1, <1>9, EmptySeq
  <2> QED
    BY <1>6, <1>8, <1>9, <2>1, <2>2
<1>14. Digits'
  <2>1. number'.at = Len(wrote')
    BY <1>1, <1>2, <1>6 DEF Digits
  <2> QED
    BY <1>3, <1>6, <1>10, <1>11, <1>12, <1>13, <2>1 DEF Digits, b, k
<1> QED
  BY <1>2, <1>6, <1>14 DEF NumInv

\* The numeral behind what was put out before.
LEMMA SuffixIs ==
    ASSUME NEW a \in Seq(Byte), NEW r \in Seq(Byte)
    PROVE  SubSeq((a \o <<>>) \o r, Len(a) + 1, Len((a \o <<>>) \o r)) = r
<1>1. a \o <<>> = a
  BY ConcatEmptySeq
<1>2. SubSeq(a \o r, Len(a) + 1, Len(a \o r)) = r
  <2> DEFINE c == a \o r
             t == SubSeq(c, Len(a) + 1, Len(c))
  <2>1. /\ c \in Seq(Byte) /\ Len(c) = Len(a) + Len(r)
        /\ \A j \in 1 .. Len(a) + Len(r) : c[j] = IF j <= Len(a) THEN a[j] ELSE r[j - Len(a)]
    BY ConcatProperties
  <2>2. Len(a) \in Nat /\ Len(r) \in Nat
    OBVIOUS
  <2> HIDE DEF c
  <2>3. t \in Seq(Byte) /\ Len(t) = Len(r) /\ \A j \in 1 .. Len(r) : t[j] = c[Len(a) + j]
    BY <2>1, <2>2
  <2>4. ASSUME NEW j \in 1 .. Len(r) PROVE t[j] = r[j]
    <3>1. /\ Len(a) + j \in 1 .. Len(a) + Len(r) /\ ~(Len(a) + j <= Len(a))
          /\ (Len(a) + j) - Len(a) = j
      BY <2>2
    <3> QED
      BY <2>1, <2>3, <3>1
  <2> HIDE DEF t
  <2>5. t = r
    BY <2>3, <2>4, SeqEqual
  <2> QED
    BY <2>5 DEF t, c
<1> QED
  BY <1>1, <1>2

\* When the digit loop ends, its digits reversed are a numeral of the number.
LEMMA WriteDigitsNumInv ==
    ASSUME IInv, NumInv, WriteDigits
    PROVE  NumInv'
<1> DEFINE r == Reverse(buf)
<1>1. /\ number.base \in {10, 16} /\ val = 0 /\ buf \in Seq(Byte) /\ spc = "digits"
      /\ wrote \in Seq(Byte) /\ Len(buf) \in Nat
  BY DEF IInv, Types, WriteDigits
<1>2. Digits /\ ~translate /\ number # NoNumber
  BY <1>1 DEF NumInv, NoNumber
<1>3. /\ spc' = "next" /\ msg' = r /\ UNCHANGED <<translate, wrote, number>>
  BY DEF WriteDigits, nvars
<1>4. r \in Seq(Byte) /\ Len(r) = Len(buf) /\ (buf # <<>> => r[1] = buf[Len(buf)])
  BY <1>1 DEF Reverse
<1>5. PICK f : Reads(f, 0, r, number.base) /\ f[Len(buf)] = number.n
  BY <1>1, <1>2 DEF Digits
<1>6. buf # <<>> /\ buf[Len(buf)] # 48
  BY <1>1, <1>2 DEF Digits
<1> HIDE DEF r
<1>7. Denotes(r, number.base, number.n)
  <2>1. ValueOf(r, number.base) = number.n
    <3>1. number.base \in Nat
      BY <1>1
    <3> QED
      BY <1>4, <1>5, <3>1, ReadsValue
  <2>2. r # <<>> /\ Head(r) # 48
    BY <1>1, <1>4, <1>6
  <2> QED
    BY <2>1, <2>2 DEF Denotes
<1>8. SubSeq(Written', number'.at + 1, Len(Written')) = r
  <2>1. Written' = (wrote \o <<>>) \o r
    BY <1>3 DEF Written, TakenUp
  <2>2. number'.at = Len(wrote)
    BY <1>1, <1>2, <1>3 DEF Digits
  <2> QED
    BY <1>1, <1>4, <2>1, <2>2, SuffixIs
<1>9. Denotes(SubSeq(Written', number'.at + 1, Len(Written')), number'.base, number'.n)
  BY <1>3, <1>7, <1>8
<1> QED
  BY <1>2, <1>3, <1>9 DEF NumInv, Digits

LEMMA CallWriteNumberNumInv ==
    ASSUME IInv, NumInv, NEW n \in Numbers, NEW base \in {10, 16}, CallWriteNumber(n, base)
    PROVE  NumInv'
<1>1. /\ n \in Nat /\ base \in Nat /\ BufferSize[base] \in Nat
      /\ n < Power(base, BufferSize[base]) /\ wrote \in Seq(Byte)
  BY NumbersAssumption DEF IInv, Types
<1>2. /\ number' = [n |-> n, base |-> base, at |-> Len(wrote)] /\ val' = n /\ buf' = <<>>
      /\ msg' = (IF n = 0 THEN <<48>> ELSE <<>>)
      /\ spc' = (IF n = 0 THEN "next" ELSE "digits")
      /\ ~translate /\ UNCHANGED <<translate, wrote>>
  BY DEF CallWriteNumber
<1>3. /\ number'.n = n /\ number'.base = base /\ number'.at = Len(wrote)
  BY <1>2
<1>4. CASE n = 0
  <2> DEFINE r == <<48>>
             f == [j \in 0 .. 1 |-> 0]
  <2>1. r \in Seq(Byte) /\ Len(r) = 1 /\ r[1] = 48
    BY DEF Byte
  <2>2. DigitValue(48) = 0
    BY DEF DigitValue
  <2> HIDE DEF r
  <2>3. Reads(f, 0, r, base)
    <3>1. \A m \in 1 .. 1 : m = 1
      OBVIOUS
    <3> QED
      BY <1>1, <2>1, <2>2, <3>1 DEF Reads
  <2>4. ValueOf(r, base) = 0
    <3>1. f[Len(r)] = 0
      BY <2>1
    <3> HIDE DEF f
    <3>2. ValueOf(r, base) = f[Len(r)]
      <4>1. base \in Nat /\ r \in Seq(Byte)
        BY <1>1, <2>1
      <4> QED
        BY <2>3, <4>1, ReadsValue, Zenon
    <3> QED
      BY <3>1, <3>2
  <2>5. Denotes(r, base, n)
    <3>1. r # <<>>
      BY <2>1
    <3> QED
      BY <1>4, <2>4, <3>1, Zenon DEF Denotes
  <2>6. SubSeq(Written', number'.at + 1, Len(Written')) = r
    <3>1. Written' = (wrote \o <<>>) \o r
      BY <1>2, <1>4 DEF Written, TakenUp, r
    <3> QED
      BY <1>1, <1>3, <2>1, <3>1, SuffixIs
  <2>7. spc' = "next"
    BY <1>2, <1>4
  <2> QED
    BY <1>2, <1>3, <2>5, <2>6, <2>7 DEF NumInv, Digits
<1>5. CASE n # 0
  <2> DEFINE k == BufferSize[base]
             f == [j \in 0 .. 0 |-> n]
  <2>1. spc' = "digits" /\ Len(buf') = 0
    BY <1>2, <1>5
  <2>2. PICK p : Powers(p, base, k) /\ p[k] = Power(base, k)
    BY <1>1, PowerIs
  <2>3. val' < p[k - Len(buf')] /\ Len(buf') <= k
    BY <1>1, <1>2, <2>1, <2>2
  <2>4. Reads(f, val', Reverse(buf'), base) /\ f[Len(buf')] = n
    <3>1. Len(Reverse(buf')) = 0
      BY <1>2 DEF Reverse
    <3> QED
      BY <1>1, <1>2, <2>1, <3>1 DEF Reads
  <2> HIDE DEF f
  <2>5. Digits'
    BY <1>2, <1>3, <1>5, <2>1, <2>2, <2>3, <2>4 DEF Digits
  <2> QED
    BY <1>2, <2>1, <2>5 DEF NumInv
<1> QED
  BY <1>4, <1>5

LEMMA StepNumInv == IInv /\ NumInv /\ [NNext]_<<svars, nvars>> => NumInv'
<1> SUFFICES ASSUME IInv, NumInv, [NNext]_<<svars, nvars>> PROVE NumInv'
  OBVIOUS
<1>1. CASE NTransmit \/ UNCHANGED <<svars, nvars>>
  <2>1. UNCHANGED <<translate, spc, msg, out, wrote, number, val, buf>>
    BY <1>1 DEF NTransmit, Transmit, svars, nvars
  <2> QED
    BY <2>1 DEF NumInv, Written, TakenUp, Digits
<1>2. CASE DriverStep /\ UNCHANGED nvars
  <2>1. CASE InitStep
    <3>1. number' = NoNumber /\ spc' \in {"init", "idle"}
      BY <1>2, <2>1 DEF NumInv, InitStep, nvars
    <3> QED
      BY <3>1, NoNumberNumInv
  <2>2. CASE WriteStrReturns \/ PollUntilReady
    <3>1. /\ UNCHANGED <<translate, msg, out, wrote, number>>
          /\ \/ spc = "next" /\ spc' = "idle" /\ msg = <<>>
             \/ spc = "poll" /\ spc' = "data"
      BY <1>2, <2>2 DEF WriteStrReturns, PollUntilReady, nvars
    <3>2. Written' = Written
      BY <3>1 DEF Written, TakenUp
    <3> QED
      BY <3>1, <3>2, WriterNumInv
  <2> QED
    BY <1>2, <2>1, <2>2, NextByteNumInv, WriteDataNumInv DEF DriverStep
<1>3. CASE StoreDigit
  BY <1>3, StoreDigitNumInv
<1>4. CASE WriteDigits
  BY <1>4, WriteDigitsNumInv
<1>5. CASE \E m \in Messages : (CallWriteStr(m) \/ TakeOver(m))
           /\ number' = NoNumber /\ val' = 0 /\ buf' = <<>>
  <2>1. number' = NoNumber /\ spc' = "next"
    BY <1>5 DEF CallWriteStr, TakeOver
  <2> QED
    BY <2>1, NoNumberNumInv
<1>6. CASE \E n \in Numbers, base \in {10, 16} : CallWriteNumber(n, base)
  BY <1>6, CallWriteNumberNumInv
<1> QED
  BY <1>1, <1>2, <1>3, <1>4, <1>5, <1>6 DEF NNext, NDriverStep

\* serial_write_usize and serial_write_usize_hex write every usize so that it
\* reads back, without leading zeros, and never index past their buffers,
\* whoever cuts in.
THEOREM SerialNumbersReadBack == NSpec => []NumbersReadBack
<1>1. NInit => NumInv
  BY DEF NInit, Init, NumInv, Digits
<1>2. IInv /\ NumInv => NumbersReadBack
  <2> SUFFICES ASSUME IInv, NumInv, spc = "idle", number # NoNumber
               PROVE  Denotes(SubSeq(wrote, number.at + 1, Len(wrote)), number.base, number.n)
    BY DEF NumInv, NumbersReadBack, Denotes
  <2>1. wrote \in Seq(Byte) /\ msg = <<>>
    BY DEF IInv, Types, NumInv
  <2>2. Written = wrote
    BY <2>1, ConcatEmptySeq DEF Written, TakenUp
  <2> QED
    BY <2>2 DEF NumInv
<1> QED
  BY <1>1, <1>2, InitIInv, StepIInv, StepNumInv, PTL DEF NSpec
=============================================================================
